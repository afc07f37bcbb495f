-------------------------------- MODULE Monitor --------------------------------
(***************************************************************************)
(* The MQTT monitor of src/mqtt/mod.rs: the task spawn_monitor starts (the *)
(* event loop), the keepalive task it owns, the request channel they share *)
(* (AsyncClient::new(opts, 64)), the status lock they share with the       *)
(* readers, and, as the environment, the rumqttc event loop, the broker    *)
(* and the device.                                                         *)
(*                                                                         *)
(* rumqttc is modelled from how this code uses it: poll() either connects, *)
(* returning the CONNACK before it sends anything, or, once connected,     *)
(* takes one request off the channel or returns one incoming packet.  When *)
(* the connection breaks, the queued requests leave the channel and, the   *)
(* session being clean, are thrown away at the next CONNACK; while it is   *)
(* down nothing drains the channel.                                        *)
(*                                                                         *)
(* A reading is the position of a status in the stream the device emits;   *)
(* 0 stands for "no reading": the default status, and, in inbound, a       *)
(* message decode_publish does not turn into a status.                     *)
(***************************************************************************)
EXTENDS Naturals, Sequences, Functions

CONSTANTS
  ChannelCap,       \* capacity of the request channel (64 in the code)
  MaxBackoff,       \* MAX_RECONNECT_BACKOFF_SECS
  MaxConn,          \* bound: connections the broker accepts in a behaviour
  ReadingsPerConn,  \* bound: readings the device emits per connection
  InboundCap,       \* bound: packets on their way to the event loop
  MaxReaders        \* bound: tasks that read the status lock

ASSUME MonitorAssumption ==
  /\ ChannelCap \in Nat /\ ChannelCap >= 2
  /\ MaxBackoff \in Nat /\ MaxBackoff >= 1
  /\ MaxConn \in Nat /\ ReadingsPerConn \in Nat
  /\ InboundCap \in Nat /\ MaxReaders \in Nat

VARIABLES
  mon,         \* where the event-loop task is
  link,        \* the TCP/MQTT connection, "up" or "down"
  conn,        \* how many CONNACKs there have been
  backoff,     \* backoff_secs
  channel,     \* requests queued for the event loop
  subFailed,   \* try_subscribe failed on this connection (history)
  keep,        \* where the keepalive task is
  failures,    \* publishes logged as failed after the monitor was gone,
               \* counted to 2 (history)
  subscribed,  \* the broker holds the subscription of this connection
  refused,     \* the broker refused it: a SUBACK with a failure code
  rearmed,     \* a trigger was sent on this connection (history)
  armed,       \* the device is inside a realtime window
  reading,     \* the last reading the device emitted
  base,        \* the value of reading at the last CONNACK (history)
  inbound,     \* packets on their way to the event loop
  decoded,     \* the local `decoded` that waits for the write lock
  status,      \* the shared Arc<RwLock<C1000Gen2Status>>
  readers      \* read guards held on it

loopVars   == <<mon, backoff, decoded>>
netVars    == <<link, conn, base>>
requestVars == <<channel, subFailed>>
keepVars   == <<keep, failures>>
brokerVars == <<subscribed, refused, rearmed, armed, reading, inbound>>
lockVars   == <<status, readers>>
vars == <<loopVars, netVars, requestVars, keepVars, brokerVars, lockVars>>

MonitorStates == {"polling", "connack", "rearm", "writing", "backoff", "gone"}
Requests      == {"subscribe", "trigger"}

Least(a, b) == IF a <= b THEN a ELSE b

HasRoom == Len(channel) < ChannelCap

Init ==
  /\ mon = "polling" /\ backoff = 1 /\ decoded = 0
  /\ link = "down" /\ conn = 0 /\ base = 0
  /\ channel = << >> /\ subFailed = FALSE
  /\ keep = "publish" /\ failures = 0
  /\ subscribed = FALSE /\ refused = FALSE /\ rearmed = FALSE
  /\ armed = FALSE
  /\ reading = 0 /\ inbound = << >>
  /\ status = 0 /\ readers = 0

-------------------------------------------------------------------------------
(* The event loop: poll() while there is no connection.                    *)

(* poll() connects and returns Event::Incoming(Packet::ConnAck).           *)
ConnectOk ==
  /\ mon = "polling" /\ link = "down" /\ conn < MaxConn
  /\ link' = "up" /\ conn' = conn + 1 /\ base' = reading
  /\ mon' = "connack"
  /\ subscribed' = FALSE /\ refused' = FALSE /\ rearmed' = FALSE
  /\ UNCHANGED <<backoff, decoded, requestVars, keepVars, armed, reading,
                 inbound, lockVars>>

(* poll() fails to connect: the Err arm starts its sleep.                  *)
ConnectFail ==
  /\ mon = "polling" /\ link = "down"
  /\ mon' = "backoff"
  /\ UNCHANGED <<backoff, decoded, netVars, requestVars, keepVars, brokerVars,
                 lockVars>>

(* poll() on a connection that broke: the channel is drained, and the      *)
(* packets not handed to the task yet are gone or still returned later.    *)
(* The last connection a bounded behaviour allows stays up.                *)
ConnLost ==
  /\ mon = "polling" /\ link = "up" /\ conn < MaxConn
  /\ link' = "down" /\ mon' = "backoff"
  /\ channel' = << >> /\ subFailed' = FALSE
  /\ subscribed' = FALSE /\ refused' = FALSE
  /\ inbound' \in {<< >>, inbound}
  /\ UNCHANGED <<backoff, decoded, conn, base, keepVars, rearmed, armed,
                 reading, lockVars>>

DoubledBackoff == 2 * backoff                \* variant: no cap
NextBackoff == Least(2 * backoff, MaxBackoff)

(* The sleep of the Err arm is over.                                       *)
BackoffElapsed ==
  /\ mon = "backoff"
  /\ backoff' = NextBackoff
  /\ mon' = "polling"
  /\ UNCHANGED <<decoded, netVars, requestVars, keepVars, brokerVars, lockVars>>

-------------------------------------------------------------------------------
(* The CONNACK arm.  It runs without an await, so the event loop drains    *)
(* nothing meanwhile; the keepalive task may still queue triggers.         *)

BackoffKept          == backoff              \* variant: no reset
BackoffOnConnAck     == 1

SubscribeOnceUpFront == conn = 1             \* variant: subscribe at startup only
SubscribeDue         == TRUE

SubscribeAwaits      == FALSE                \* variant: client.subscribe().await

(* try_subscribe answers at once, with an error when the channel is full.  *)
TrySubscribeFails    == ~HasRoom

SubscribeOnConnAck ==
  /\ mon = "connack"
  /\ \/ /\ SubscribeDue /\ HasRoom
        /\ channel' = Append(channel, "subscribe")
        /\ subFailed' = FALSE
        /\ mon' = "rearm"
     \/ /\ SubscribeDue /\ TrySubscribeFails  \* logged, then `continue`
        /\ subFailed' = TRUE
        /\ mon' = "polling"
        /\ UNCHANGED channel
     \/ /\ ~SubscribeDue
        /\ mon' = "rearm"
        /\ UNCHANGED requestVars
  /\ backoff' = BackoffOnConnAck
  /\ UNCHANGED <<decoded, netVars, keepVars, brokerVars, lockVars>>

NoRearm == channel                           \* variant: leave it to the keepalive

(* The re-arm: try_publish of the trigger, whose failure is only logged.   *)
AfterRearm == IF HasRoom THEN Append(channel, "trigger") ELSE channel

RearmOnConnAck ==
  /\ mon = "rearm"
  /\ channel' = AfterRearm
  /\ mon' = "polling"
  /\ UNCHANGED <<backoff, decoded, netVars, subFailed, keepVars, brokerVars,
                 lockVars>>

-------------------------------------------------------------------------------
(* The event loop: poll() on a connection that is up.                      *)

(* poll() sends the request at the head of the channel; the broker         *)
(* subscribes us, or refuses to, or relays the trigger, which opens the    *)
(* device's window.  A refusal is one more `Ok(_) => {}` to the task.      *)
SendRequest ==
  /\ mon = "polling" /\ link = "up" /\ channel # << >>
  /\ channel' = Tail(channel)
  /\ IF Head(channel) = "subscribe"
       THEN \/ subscribed' = TRUE /\ UNCHANGED refused
            \/ refused' = TRUE /\ UNCHANGED subscribed
       ELSE UNCHANGED <<subscribed, refused>>
  /\ armed' = (armed \/ Head(channel) = "trigger")
  /\ rearmed' = (rearmed \/ Head(channel) = "trigger")
  /\ UNCHANGED <<loopVars, netVars, subFailed, keepVars, reading, inbound,
                 lockVars>>

DecodesToDefault(packet) == TRUE             \* variant: unwrap_or_default()

(* decode_publish: Some(status) for a reading, None for anything else.     *)
Decodes(packet) == packet # 0

(* poll() returns an incoming packet: a Publish that decodes goes on to    *)
(* wait for the write lock, everything else (`Ok(_) => {}`) is ignored.    *)
RecvPublish ==
  /\ mon = "polling" /\ link = "up" /\ inbound # << >>
  /\ inbound' = Tail(inbound)
  /\ IF Decodes(Head(inbound))
       THEN mon' = "writing" /\ decoded' = Head(inbound)
       ELSE UNCHANGED <<mon, decoded>>
  /\ UNCHANGED <<backoff, netVars, requestVars, keepVars, subscribed, refused,
                 rearmed, armed, reading, lockVars>>

(* `*status.write().await = decoded` once no read guard is held.           *)
WriteStatus ==
  /\ mon = "writing" /\ readers = 0
  /\ status' = decoded
  /\ mon' = "polling"
  /\ UNCHANGED <<backoff, decoded, netVars, requestVars, keepVars, brokerVars,
                 readers>>

(* The owner of the JoinHandle aborts the task, which ends at an await:    *)
(* poll(), the write lock or the sleep.  Its future is dropped, and with   *)
(* it the event loop, the receiving end of the channel and the keepalive's *)
(* AbortOnDrop.                                                            *)
AbortMonitor ==
  /\ mon \in {"polling", "writing", "backoff"}
  /\ mon' = "gone" /\ link' = "down"
  /\ channel' = << >> /\ subFailed' = FALSE
  /\ subscribed' = FALSE /\ refused' = FALSE /\ inbound' = << >>
  /\ UNCHANGED <<backoff, decoded, conn, base, keepVars, rearmed, armed,
                 reading, lockVars>>

-------------------------------------------------------------------------------
(* The keepalive task.  An abort lands at its next await, so a publish     *)
(* that was already running when the monitor went away still fails once.   *)

KeepaliveDetached == FALSE                   \* variant: a plain JoinHandle
KeepaliveAborted  == mon = "gone"

(* publish().await: queued, refused because the event loop is gone, or     *)
(* waiting for room.                                                       *)
KeepalivePublish ==
  /\ keep \in {"publish", "blocked"}
  /\ \/ /\ mon = "gone"
        /\ failures' = Least(failures + 1, 2)  \* logged; two are too many
        /\ keep' = "sleep"
        /\ UNCHANGED channel
     \/ /\ mon # "gone" /\ HasRoom
        /\ channel' = Append(channel, "trigger")
        /\ keep' = "sleep"
        /\ UNCHANGED failures
     \/ /\ mon # "gone" /\ ~HasRoom /\ keep = "publish"
        /\ keep' = "blocked"
        /\ UNCHANGED <<channel, failures>>
  /\ UNCHANGED <<loopVars, netVars, subFailed, brokerVars, lockVars>>

KeepaliveWake ==
  /\ keep = "sleep" /\ ~KeepaliveAborted
  /\ keep' = "publish"
  /\ UNCHANGED <<loopVars, netVars, requestVars, failures, brokerVars, lockVars>>

KeepaliveCancelled ==
  /\ KeepaliveAborted /\ keep # "done"
  /\ keep' = "done"
  /\ UNCHANGED <<loopVars, netVars, requestVars, failures, brokerVars, lockVars>>

-------------------------------------------------------------------------------
(* The readers of the status.  tokio's lock is fair: a reader that comes   *)
(* after a waiting writer queues behind it.                                *)

ReaderMayEnter == mon # "writing"

ReaderEnters ==
  /\ ReaderMayEnter /\ readers < MaxReaders
  /\ readers' = readers + 1
  /\ UNCHANGED <<loopVars, netVars, requestVars, keepVars, brokerVars, status>>

ReaderLeaves ==
  /\ readers > 0
  /\ readers' = readers - 1
  /\ UNCHANGED <<loopVars, netVars, requestVars, keepVars, brokerVars, status>>

-------------------------------------------------------------------------------
(* The broker and the device.                                              *)

DeviceStreams ==
  /\ link = "up" /\ subscribed /\ armed
  /\ Len(inbound) < InboundCap /\ reading < base + ReadingsPerConn
  /\ reading' = reading + 1
  /\ inbound' = Append(inbound, reading + 1)
  /\ UNCHANGED <<loopVars, netVars, requestVars, keepVars, subscribed, refused,
                 rearmed, armed, lockVars>>

(* SUBACKs, PINGRESPs, messages of other types and undecodable ones.  One  *)
(* place of the bounded queue is left to the device.                       *)
OtherMessage ==
  /\ link = "up" /\ Len(inbound) + 1 < InboundCap
  /\ inbound' = Append(inbound, 0)
  /\ UNCHANGED <<loopVars, netVars, requestVars, keepVars, subscribed, refused,
                 rearmed, armed, reading, lockVars>>

(* timeout_secs have passed since the last trigger reached the device.     *)
WindowExpires ==
  /\ armed
  /\ armed' = FALSE
  /\ UNCHANGED <<loopVars, netVars, requestVars, keepVars, subscribed, refused,
                 rearmed, reading, inbound, lockVars>>

-------------------------------------------------------------------------------
EventLoop == \/ ConnectOk \/ ConnectFail \/ ConnLost \/ BackoffElapsed
             \/ SubscribeOnConnAck \/ RearmOnConnAck
             \/ SendRequest \/ RecvPublish \/ WriteStatus
Keepalive == KeepalivePublish \/ KeepaliveWake \/ KeepaliveCancelled
Readers   == ReaderEnters \/ ReaderLeaves
Outside   == DeviceStreams \/ OtherMessage \/ WindowExpires \/ AbortMonitor

Next == EventLoop \/ Keepalive \/ Readers \/ Outside

Spec == Init /\ [][Next]_vars

(***************************************************************************)
(* Fairness.  The two tasks and the readers are scheduled by tokio and     *)
(* none of their steps waits for anything but the guards shown, so each is *)
(* weakly fair.  poll() picks at random between sending and receiving      *)
(* (tokio::select!), so each is taken if it is possible again and again.   *)
(* Of the environment: a broker that is tried again and again accepts in   *)
(* the end, and a device that is armed and subscribed again and again      *)
(* emits.                                                                  *)
(***************************************************************************)
Fairness ==
  /\ WF_vars(BackoffElapsed) /\ WF_vars(SubscribeOnConnAck)
  /\ WF_vars(RearmOnConnAck) /\ WF_vars(WriteStatus)
  /\ SF_vars(SendRequest) /\ SF_vars(RecvPublish)
  /\ WF_vars(KeepalivePublish) /\ WF_vars(KeepaliveWake)
  /\ WF_vars(KeepaliveCancelled) /\ WF_vars(ReaderLeaves)
  /\ SF_vars(ConnectOk) /\ SF_vars(DeviceStreams)

FairSpec == Spec /\ Fairness

-------------------------------------------------------------------------------
(* The types of the variables; backoff_secs stays between 1 and the cap    *)
(* MAX_RECONNECT_BACKOFF_SECS, the channel within its capacity.            *)
TypeOK ==
  /\ mon \in MonitorStates /\ backoff \in 1 .. MaxBackoff /\ decoded \in Nat
  /\ link \in {"up", "down"} /\ conn \in Nat /\ base \in Nat
  /\ channel \in Seq(Requests) /\ Len(channel) <= ChannelCap
  /\ subFailed \in BOOLEAN
  /\ keep \in {"publish", "blocked", "sleep", "done"} /\ failures \in Nat
  /\ subscribed \in BOOLEAN /\ refused \in BOOLEAN /\ rearmed \in BOOLEAN
  /\ armed \in BOOLEAN
  /\ reading \in Nat /\ inbound \in Seq(Nat)
  /\ status \in Nat /\ readers \in 0 .. MaxReaders

Queued(request) == request \in Range(channel)

(* Every CONNACK subscribes (mod.rs:160-166): once the CONNACK arm has     *)
(* run, as long as try_subscribe found room, the broker has answered the   *)
(* request for the subscription or it is still on its way, however the     *)
(* keepalive, losses and reconnects interleave.  A refusal of an earlier   *)
(* connection does not stay.                                               *)
SubscribeSurvivesQueue ==
  link = "up" /\ mon # "connack" /\ ~subFailed
    => subscribed \/ refused \/ Queued("subscribe")

(* Streaming is re-armed on every connection (mod.rs:208-215) although the *)
(* failure of try_publish is only logged: when the channel has no room for *)
(* the re-arm, one of the keepalive's own triggers is queued in it.        *)
RearmQueuedOrSent ==
  link = "up" /\ mon \notin {"connack", "rearm"} => rearmed \/ Queued("trigger")

(* A connection that breaks is retried quickly (mod.rs:134-136): whatever  *)
(* the backoff grew to in an earlier outage, the first wait is 1 second.   *)
RetriesStartQuick == link = "up" /\ mon # "connack" => backoff = 1

(* Once the monitor is aborted its keepalive logs at most one failed       *)
(* publish, not one per interval for the life of the process               *)
(* (mod.rs:139-145).                                                       *)
KeepaliveFailsAtMostOnce == failures <= 1

(* The shared status is a forward-only register of emitted readings.       *)
Feed == INSTANCE StatusFeed WITH emitted <- reading, latest <- status
FeedSpec == Feed!Spec

(* The event-loop task never stops polling for good: neither the CONNACK   *)
(* arm (mod.rs:199-202, a blocking subscribe would deadlock the loop that  *)
(* drains the channel) nor the status lock nor the backoff holds it.       *)
LoopReturnsToPoll == mon # "polling" ~> mon \in {"polling", "gone"}

(* What the monitor is for: a connection whose CONNACK queued the          *)
(* subscribe brings a reading emitted on it into the status, unless the    *)
(* connection is lost first, or the broker refuses the subscription: to    *)
(* that nothing in the loop reacts, for as long as the connection stays.   *)
ConnectionServes ==
  mon = "rearm" ~> (status > base \/ link = "down" \/ refused)

(* Aborting the monitor ends the keepalive too.                            *)
AbortStopsKeepalive == mon = "gone" ~> keep = "done"

(* The comment's claim without the condition on the channel: on every      *)
(* connection the request for the subscription reaches the broker or the   *)
(* connection drops.                                                       *)
ConnectedGetsSubscribed ==
  link = "up" ~> (subscribed \/ refused \/ link = "down")
===============================================================================
