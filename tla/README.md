# A verification of c1000gen2-rs in TLA+

c1000gen2-rs logs into an Anker account, connects to the account's MQTT broker,
keeps one SOLIX C1000 Gen 2 power station streaming, decodes its binary status
messages and shows the latest status to whoever reads it.  The modules here model
the parts of it in which something can go wrong that its tests do not reach: the
reconnecting monitor and its keepalive, the session with its cached token, the
length-guessing codec, the field table, and the program that puts them together.

Run everything from this directory: `tlc -config X.cfg M` for a run,
`tlapm MProofs.tla` for the proofs.

## The system and its parts

| Part | State it keeps | Operations | Hard behaviour | Module |
|---|---|---|---|---|
| Command line program (src/main.rs) | where it is, the device it chose | login, device list, connect, poll loop, Ctrl+C | calls that fail; a signal between two listeners; starvation by the writers | `Program`, `MCProgram`, `ProgramProofs` |
| Device discovery (src/devices.rs) | none | `list_devices`, `find_c1000_gen2` | malformed entries, an answer without data | `Program` |
| Monitor task (`spawn_monitor`, src/mqtt/mod.rs) | `backoff_secs`, rumqttc's event loop, the decoded message that waits for the lock | poll, the CONNACK arm (subscribe, re-arm), the Publish arm, the Err arm | interleaving with the keepalive on one bounded channel; reconnects; a refused subscription; abort | `Monitor`, `MonitorProofs` |
| Keepalive task (`AbortOnDrop`) | its timer | publish the trigger, sleep, be aborted | outliving the monitor; waiting for room; its timer against the device's window | `Monitor`, `KeepaliveTimer`, `KeepaliveTimerProofs` |
| Shared status (`Arc<RwLock<..>>`) | the last decoded status | write, read | writer waits for readers; two monitors on one status | `Monitor` and `Program`, the first refining `StatusFeed` |
| Account session (`AnkerSession`, src/auth.rs) | token in memory, token file | `login`, `login(true)`, `post_json` | expiry on the way, 401/429 retries, timeouts, crashes, two callers | `Session`, `SessionProofs`, `SessionOrderProofs` |
| Codec (src/mqtt/codec.rs) | offset of the walk, the map of fields | header, `decode_fields`, `parse_field` | a length, and a header, whose width is guessed | `Tlv`, `Codec`, `MCCodec`, `TlvProofs`, `CodecProofs` |
| Field table and report (src/mqtt/c1000gen2.rs) | a status | `decode_publish`, `decode_0421`, `decode_fields_to_raw`, `From`, `sections`, `push_section` | messages with missing or short fields | `FieldTable`, `StatusDecode`, `StatusDecodeProofs` |
| Trigger command | none | `build_realtime_trigger` | must survive the codec's guesses | `Tlv` (`TriggerFields`) |

Interaction: `main` creates the session, lists the devices and fetches the broker's
address with it, builds the connection (`connect`), and hands it with the status to
`spawn_monitor`; the monitor spawns the keepalive.  Monitor and keepalive share the
request channel, monitor and readers share the status lock; the session is called
again only when an owner other than `main` rebuilds the connection.

What makes each part right: the monitor is subscribed and re-armed on every
connection, never blocks itself, and shows readings in order; the keepalive keeps
the window open and ends with its monitor; a session's calls return, with no
expired token on the wire; the codec stays in bounds, ends, and inverts the
device's encoding; the table never reads a value from somebody else's bytes; the
program prints what arrives and ends when told to.

### Not modelled

* Topics, the outgoing envelope, TLS options, the key exchange of the login and the
  headers of requests: string building and cryptography without state.  Of an
  answer it is modelled whether it succeeds and whether it has data.
* Labels, units and layout of the report, and the `format_*` reports of a single
  section, which print what `format_full` prints of it.
* `msglength`, which no caller reads, and `xor_checksum`, which the decoder does not
  verify; the header and checksum bytes of the trigger.
* The conversion of bytes to numbers (a number stands for its bytes) and with it the
  sign of the temperature, which is read as unsigned although the test of plausible
  ranges allows -20; text that is no UTF-8, and what else than digits Rust takes for
  a number in the text of `fd` (a sign, a point, an exponent, `inf`, `nan`).
* Which error ends `main`, which treats all alike: `Program` has that one does.  The
  errors that `post_json` tells apart are in `Session`.

## Modules

**Program** puts the parts together: `stage` is the place of `main`, `tasks` that of
every monitor.  What its parts promise is taken from their modules: a call of the
session returns with a result or an `AnkerError` (`CallsReturn`), a monitor delivers
readings in the order of the device's stream, possibly skipping some (`FeedSpec`).
`MaxRebuilds` is 0 for `main` and positive for the "long-running daemon" of the
comments, an owner that aborts its monitor and spawns a new one on the same status.
That owner is not in `src/`, and that it aborts the old monitor is assumed
(`HandleAborted` is external): dropping the handle would detach the task.
An abort ends a task when it next waits, so the old monitor may take and write one
more reading: `AbortLands` is an action of its own.  `signal` follows a SIGINT: it
kills the process until `ctrl_c()` was polled once, later tokio's handler takes it
and tells the listener there is, the one of a waiting `select!`.

**Monitor.**  `mon` is the place of the task in its loop: `polling` (in `poll()`),
`connack` and `rearm` (inside the CONNACK arm), `writing` (waiting for the status
lock with `decoded`), `backoff` (the sleep of the Err arm) and `gone`.  The CONNACK
arm is two actions although it has no await: the keepalive runs on another thread
and may fill the channel in between.  rumqttc is outside `src/` and is modelled
from its use: `poll()` connects and returns the CONNACK before it sends anything;
while there is no connection nothing drains the channel; a broken connection
empties it, and with `clean_session` what was queued is thrown away.  The broker
may answer a subscribe with a failure code (`refused`), which the loop receives as
one `Ok(_)` among others.  A reading is its position in the device's stream and 0
stands for "no reading" (the default status; a message `decode_publish` rejects).
`subFailed`, `refused`, `rearmed`, `base` and `failures` are history variables.

**StatusFeed** is the promise to readers: a register that moves forward through the
readings the device emitted, possibly skipping some.  `Monitor` implements it with
`emitted <- reading, latest <- status`.

**KeepaliveTimer** counts the seconds that `Monitor` leaves out: the keepalive's
sleep `timeout_secs - 5` (at least 1), how late it may run, how long a trigger
travels, and the device's window.  `ASSUME MaxLate + MaxLatency < Margin` states
what the five seconds can absorb; for timeouts up to five seconds the margin is
what the minimal sleep of one second leaves.

**Session.**  One record of control per caller; a token is the number of its issue.
`login_fresh` is broken at its awaits: the request, `fs::write` as truncation and
writing, the write lock.  `SaveFails` ends the call with the fresh token unused, as
the `?` does.  `post_json` first waits for the lock (`enter`); its read guard lives
from `LookAtToken` to `DecideLogin`, and a waiting writer keeps later readers out, as
tokio's lock does.  `now` and `expiry` are by the server's clock; the local one, by
which `Usable` decides, is `ClockLag` behind, the drift that the comment of
`TOKEN_EXPIRY_SKEW_SECS` names.  Time passes in `Tick`, but no
caller may stay in a step longer than `Limit`: the HTTP timeout, the sleep, or
`LocalDelay`.

**Tlv** is the format of codec.rs as functions, in a base `Base` instead of 256, so
that messages of a few bytes reach every branch: `Body` is the header's guess, and
`TwoByteLen`, `FieldLen`, `WellFormed` and `Value` follow `parse_field` line by line.
Validity of UTF-8 is reduced to "below `Ascii`".  `DecodeFields` is `decode_fields` as
a recursive function of the offset.  `Encode` is the encoding the doc comment of
`parse_field` describes, `TriggerFields` what `build_realtime_trigger` writes, and
`Unambiguous` says of a message when the decoder's guesses about it are right.
**Codec** is the loop of `decode_fields`, one `parse_field` at a time, over the
encoded messages and over arbitrary bytes; `WalkIsDecodeFields` ties it to the
function.

**FieldTable** has the table as a record from value names to field, offset and size,
the domain types, and the sections of the report, as operators without state.
**StatusDecode** takes a publish from its bytes to the shared status in one step:
wrappers, message type, header, the walk (`Tlv` in base 256) and `FieldTable`.  Its
environment is a device whose messages have the layout of the captured one, with one
field cut to any size and others missing; every byte is a mark of its place unless the
decoder looks into it, so that a value read one byte off is a different value.  `fd`
holds digits, in some messages behind a blank, and `Timestamp` trims and parses them.

Operators marked `variant` sit before the definition they vary: a slip that code
could plausibly contain.  No specification uses them; each property is shown to
fail when the definition is replaced by its variant.

## Runs

| Run | Question | Bounds | States |
|---|---|---|---|
| monitor | are requests, backoff, keepalive failures and the register right in every interleaving; does the loop go on, a connection serve, the keepalive end? | channel of 2, 3 connections, 2 readings each, 2 packets, 1 reader | 79 k |
| monitor_subscribe | is every connection subscribed? (**no**) | channel of 2, 2 connections | - |
| keepalive_timer | does the window lapse? | timeout 8, lateness 2, latency 2 | 278 |
| session_one | tokens and cache, one caller | skew 7, clock 1 behind, lifetime 10, 2 tokens, 14 s | 334 k |
| session_two | expired tokens on the wire, and hangs, two callers | skew 3, clock 1 behind, lifetime 3, 2 tokens, 3 s | 297 k |
| session_reauth | is every 401 answered by one re-authentication? (**no**) | as session_one | - |
| codec | bounds, end, round trip, one-byte lengths in short bodies; is the loop the function? | base 16; all strings of up to 9 bytes over {0, 4, 10}, and of up to 7 over {1, 4, 10}, where names come twice; all device messages of up to 3 fields; longer ones; the trigger | 130 k |
| codec_long | do numbers keep a one-byte length? (**no**) | 4 fields, bodies from Base + 4 bytes up; Base + 6 is the shortest that fails | - |
| status_decode | from payload to status and report | one field at every size (`fd` too), a6 missing or not, either header, two status types and another, packs with two serial lengths or none | 19 k |
| pack_section | is the pack's section structural? (**no**) | as status_decode, c0 missing or not | - |
| program | from start to Ctrl+C | 5 accounts, 2 monitors in succession, 3 readings | 15 k |
| program_ctrlc | does every Ctrl+C stop it? (**no**) | 1 monitor, 1 reading | - |

Why the bounds suffice.  A channel of two is full, and holds a trigger beside the
subscribe; three connections give a loss, an outage and a second reconnect after a
failure; a backoff cap of 4 is reached by doubling twice.  Skew, sleep and timeout
of the session keep the order of the code's 3600, 3 and 45 seconds: the skew
is just what the two requests, the sleep, the hold-ups of one call and the lag of the
clock come to; with one second less TLC finds an expired token on the wire.  The
clock of a session stops counting at `MaxTime`, not before the expiry of the first
token.  In base 16 the first byte strings in which a number is ambiguous have
Base + 6 bytes, 262 in the code.  The round trip is checked of every message of the
run that is `Unambiguous`; of the 17,836 only 23 are not, all of them of Base + 6
bytes or more, and `codec_long` shows what becomes of such a one.  An `ASSUME` of `MCCodec`
checks that the program's own triggers are unambiguous.  Two monitors, of which the first is aborted, and three readings
let a late write cover a newer reading and still leave one to print.
`KeepaliveTimer` is small since its theorem covers all values; its run shows that
the hypotheses are met and everything happens.

`CHECK_DEADLOCK FALSE` is used where the walk of `Codec` is over and where the
program has ended.

### Fairness

In `Monitor` the steps of the two tasks and of the readers are weakly fair: tokio
schedules them and they wait for nothing but their guards.  `SendRequest` and
`RecvPublish` are strongly fair, since rumqttc's `select!` picks at random.
`ConnectOk` and `DeviceStreams` are strongly fair: a broker that is tried for ever
accepts in the end, and a device that is subscribed and armed again and again
emits; without them nothing about delivery can be said.  Nothing makes the link
break, a window expire, the broker refuse or the monitor be aborted.  In `Session`
only time and each caller's own steps are fair (strongly, because they wait for a
first-come, first-served lock); no answer of the server is.  In `Program` the start
goes on because the session's calls return; the branches of the `select!`, whose
start is random, and what waits for the lock are strongly fair; the telling of a
listener falls within a sleep now and then, since the sleep takes three seconds and
the telling no time to speak of.  Nobody has to press Ctrl+C, no device to emit.

### What the failing runs show

1. **monitor_subscribe.**  The comment of `spawn_monitor` promises a subscribe on
   every CONNACK, to exclude a daemon that looks healthy and receives nothing.
   While the broker is unreachable the keepalive fills the channel (64 triggers:
   an outage of about 5 1/4 hours at 300 s).  Then `try_subscribe` fails at the
   CONNACK, is logged, and is not repeated: the connection stays up, unsubscribed.
   `SubscribeSurvivesQueue` and `ConnectionServes` state what does hold; both name
   the other silent case, a subscription the broker refuses.
2. **session_reauth.**  One `retried` flag serves 401 and 429, so a 401 after a 429
   is returned without the re-authentication the comment of `post_json` promises.
3. **codec_long.**  The look-ahead for two-byte lengths is not restricted to text
   and bins as the comment says; in messages longer than 261 bytes (the captured
   one has 294) a number with value byte 4 can swallow later fields.
4. **pack_section.**  `sections` decides by the last message alone, so a message
   without `c0` removes the pack's section, which its comment rules out.
5. **program_ctrlc.**  "press Ctrl+C to stop": a Ctrl+C during the printing, or that
   is delivered when the sleep is over too, is told to no listener and no longer
   kills the process.  `InsistedCtrlCStops` states what does hold.

Properties that hold only under a condition, each a limit of the code that nothing
in it denies:

* With two callers `RetryCarriesNewToken` and `CacheNotOlder` do not
  hold: a caller that read the cache before another's fresh login installs the older
  token over the newer one, and two saves may end in either order; the next 401
  repairs both.
* With an owner that rebuilds, the status may be set back, by an aborted monitor only
  (`SetBackOnlyByAborted`).  This assumes an owner that aborts; of two monitors left
  running by a dropped handle nothing is said.
* `ReadingsReachScreen` speaks of readings that are received when every aborted
  monitor is gone.  As long as one is still there, its late write may cover its
  successor's reading for good.
* No property says that a report of no device is true: `ListDevices` has it that an
  entry that does not parse is dropped without a word and an answer without data taken
  for an empty list, either of which makes `main` print it of an account that has one.
* `NeverMisread` excepts the timestamp: the beginning of a number's digits is a
  number, so `fd` cut short gives an earlier time and not none.
* `SubscribeSurvivesQueue` and `ConnectionServes` except a connection on which
  `try_subscribe` failed (1.) or the broker refused.

## Proofs

All are checked by tlapm without further assumptions than the modules' `ASSUME`s
and the two hypotheses named below.

* `MonitorProofs`, for every channel capacity from 2 up, every backoff cap and
  every bound.
  * `TypeCorrect`: types, with backoff and channel within their limits.
  * `RequestsReachBroker`, `RearmReachesBroker`: `SubscribeSurvivesQueue` and
    `RearmQueuedOrSent`.  The latter is not inductive.  `RequestInv` adds where the
    link is up by the place of the task, that at most one subscribe is queued, and
    that one is queued only between a CONNACK and its arrival: so a full channel,
    which has room for two, holds a trigger.  This is also where the capacity of at
    least 2 is needed.
  * `QuickRetries` and `KeepaliveQuietAfterAbort`: the second adds that nothing
    failed before the abort, nor while the keepalive is still about to publish.
  * `MonitorImplementsFeed`: with `FeedInv` (the queue is in order above the status
    and above the reading that waits for the lock) every step is an `Emit`, a
    `Show` or a stutter of `StatusFeed`.
* `KeepaliveTimerProofs`, for every timeout from 2 s up.  `StreamStaysOpen` needs
  `WindowInv`: either no trigger is under way and the window outlasts the rest of
  the sleep, the lateness and the next trigger's way, or a trigger under way was
  sent at this connection's CONNACK or arrives before the window closes.
* `SessionProofs`, for any callers, times and number of tokens.
  * `SessionTypeCorrect`, with the life of the read guard.
  * `SkewSuffices`: `UnexpiredInFlight` under `SkewCoversCall`, that is
    3 `LocalDelay` + 2 `HttpTimeout` + `RetrySleep` + `ClockLag` <= `Skew` and
    5 `LocalDelay` + 2 `HttpTimeout` + `RetrySleep` < `Lifetime`.  With the code's
    45 and 3 seconds the skew of an hour leaves 3507 seconds for the lag of the clock
    and three hold-ups.  The strengthening `BInv` is a budget: what is in memory lasts for the
    rest of every caller's call, whoever put it there; what is about to be put
    there lasts for a whole call; nobody stays in a step for longer than its limit.
* `SessionOrderProofs`, for one caller at a time (`OneCaller`).  `CacheIsNotOlder` and
  `RetryIsNewer` rest on `OInv`: a token on its way into the cache is the last one
  issued, a cached one that is about to be installed is still the cached one, and
  from a 401 on every place the retry may take its token from holds a newer one.
* `ProgramProofs`, for any accounts and any number of rebuilds and readings.
  * `ProgramTypeCorrect` includes that a monitor at work is held or aborted by its
    owner.  `IInv` adds that monitors beyond the current one were not spawned and
    that all before it are aborted.
  * `StatusSetBackOnlyByAborted`: the status is no newer than what its writer has
    received; a writer that is not aborted is the current monitor, and two such
    writers in a row are the same one, whose readings only move forward.
* `StatusDecodeProofs`, for any lengths of serial numbers up to 100 and any set of
  fields that may be missing (`DecodeAssumption`: not `a1`, with which every captured
  message starts: without a first field of the names a0 to a9, the first byte of the
  body would pass for an increment byte).
  * `StatusTypeCorrect`, `NoNeighboursBytes` (`NeverMisread`), `WholeFieldsAreRead` and
    `DcInputFound` follow from one invariant, `DecodeInv`: what was sent last is a
    message of the device with fields missing or cut, and the status is what
    `decode_fields_to_raw` and `From` make of *those fields*; the cut field is any of
    them, at any size.  The properties are not
    inductive without it, as the status alone says nothing of the message it came from.
  * That the bytes of a message decode to its fields is `MessageDecoded`, by
    `DecodeInverts`.  `MessageIsUnambiguous` shows that it applies: where a field's
    value starts with 0 or 4, its type (3, 4 or 6) would be the high byte of a
    two-byte length of at least 768, and a message has at most 822 bytes with all its
    fields; only `fe`, of type 3, needs more, that it is the last field.
  * The rest is about one field that is cut: a number or a string that is read of it
    is the one at the same place of the whole field or none (`NumberOfCut`,
    `StringOfCut`), in the table (`TableRead`), in ports, along the chain of `c0`
    (`PackRead`) and in `a2` (`OtherRead`); and that is what the device means
    (`ValueUnderstood`).  Of a cut `fd` it is a beginning of the digits, or none
    (`TimeRead`): the blank in front, if there is one, is all that `Timestamp` takes
    away (`TimestampOfTime`).
  * `ReportIsComplete` holds for any payloads: without its serial
    nothing is read of a pack (`NoSerialNoPack`), so a pack's section that is left out
    has nothing to show, and every other reported value has a row in a section that is
    always there.
* `TlvProofs`, for every base in which 0 and 4 are no names (`TlvAssumption`) and any
  bytes.  `DecodeInverts`: `DecodeFields` of the
  body of an unambiguous message is the map that was encoded.  Its parts are
  `AcceptedFits` (a field that is accepted consumes between 3 bytes and what is left),
  that one field parses back to itself in front of any later fields, and an induction
  over the names, downwards: what is decoded from a name on is what was encoded from
  it on.  The library's rules of induction take an operator, which the provers cannot
  instantiate; `InductionUp` and `InductionDown` have sets instead, and rest on the
  least counterexample (`LeastNatural`), by `WFMin` of `WellFoundedInduction`.  With
  them the recursion of `DecodeFields`, and that of `FlattenSeq`, is unfolded
  (`WalkUnfolds`, `FlattenUnfolds`): a function that satisfies the equation is built
  step by step.
* `CodecProofs`, for every base and every set of messages.
  `WalkTypeCorrect`: the offset stays in the buffer and the map holds bytes of it;
  `NeverOutOfBounds`: neither a slice nor the look-ahead leaves the buffer.
  `ShortBodiesUnambiguous`: up to `Base + 5` bytes (261), the bound
  that `codec_long` exceeds, a number or a bin keeps its one-byte length whatever
  follows it, because its type would weigh at least `Base` as the high byte of a
  length (`HighByteWeighs`), and that much is not left.
  `WalkDecodes`: what the loop has found, with what `DecodeFields` finds from the
  current offset on, is always `DecodeFields` of the whole; with it `DecodesWhatWasSent`
  carries `DecodeInverts` over to the loop, for messages of any number of fields.

Only model-checked: every liveness property (fairness and ENABLED are out of the
prover's reach), and the five claims that the code refutes, of which TLC gives the
counterexample.

## Plan

1. The trigger: that it is `Unambiguous` in real bytes for every timeout and time, as
   a theorem (now checked by an `ASSUME` of `MCCodec` for some, in base 16).
2. `Program`: the recovery path of an owner that calls the session again, with a
   forced login, while its monitor is being replaced.
3. Steps towards liveness that are safety: that a state in which the loop of `Monitor`
   waits always has an action that serves it.
