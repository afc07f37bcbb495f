-------------------------------- MODULE Session --------------------------------
(***************************************************************************)
(* AnkerSession of src/auth.rs: concurrent post_json and login calls on    *)
(* one session, the token in memory behind its RwLock, the token cached on *)
(* disk, and, as the environment, the clock, the server that issues,       *)
(* revokes and refuses tokens, and crashes of the process.                 *)
(*                                                                         *)
(* A token is the number of its issue.  0 is "no token": None in memory,   *)
(* and on disk whatever load_cache takes for None (no file, a file cut     *)
(* short by a crash, two writers' bytes mixed).                            *)
(***************************************************************************)
EXTENDS Integers

CONSTANTS
  Callers,      \* tasks that share the session
  Skew,         \* TOKEN_EXPIRY_SKEW_SECS
  ClockLag,     \* how far the local clock is behind the server's
  Lifetime,     \* how long the server lets a token live
  HttpTimeout,  \* HTTP_REQUEST_TIMEOUT
  RetrySleep,   \* the sleep before the retry after a 429
  LocalDelay,   \* bound: how long a task may be held up between two steps
  MaxTokens,    \* bound: tokens the server issues
  MaxTime       \* bound: where the clock stops counting

ASSUME SessionAssumption ==
  /\ Skew \in Nat /\ ClockLag \in Int
  /\ Lifetime \in Nat /\ HttpTimeout \in Nat
  /\ RetrySleep \in Nat /\ LocalDelay \in Nat
  /\ MaxTokens \in Nat /\ MaxTime \in Nat

VARIABLES
  now,       \* the server's clock; unix_secs() is now - ClockLag
  issued,    \* the number of tokens issued
  expiry,    \* token_expires_at of each token
  revoked,   \* tokens the server no longer accepts
  memory,    \* self.token
  disk,      \* the token load_cache would read
  guards,    \* callers that hold a read guard on self.token
  pc,        \* where each caller is
  kind,      \* which method it called
  loaded,    \* the local `cached` or `token`
  carried,   \* the token in the headers of its request
  retried,   \* the argument of post_json_inner
  rejected,  \* the token its first request was refused with (history)
  denied,    \* callers whose last call returned a 401 or 403 (history)
  waited     \* seconds since its last step

serverVars == <<issued, expiry, revoked>>
sharedVars == <<memory, disk, guards>>
callVars   == <<kind, loaded, carried, retried, rejected, denied>>
vars == <<now, serverVars, sharedVars, pc, callVars, waited>>

Tokens == 1 .. MaxTokens
Kinds  == {"post_json", "login", "login_force"}
InHttp == {"login", "sent"}
Steps  == {"idle", "enter", "deciding", "load", "install", "truncate",
           "write", "set", "send", "sleep"} \cup InHttp

Least(a, b) == IF a <= b THEN a ELSE b

Init ==
  /\ now = 0 /\ issued = 0 /\ revoked = {}
  /\ expiry = [t \in Tokens |-> 0]
  /\ memory = 0 /\ disk = 0 /\ guards = {}
  /\ pc = [c \in Callers |-> "idle"]
  /\ kind = [c \in Callers |-> "post_json"]
  /\ loaded = [c \in Callers |-> 0] /\ carried = [c \in Callers |-> 0]
  /\ retried = [c \in Callers |-> FALSE]
  /\ rejected = [c \in Callers |-> 0]
  /\ denied = {}
  /\ waited = [c \in Callers |-> 0]

UsableUntilEnd(token) ==                   \* variant: no skew
  token # 0 /\ expiry[token] + ClockLag > now

(* is_usable_at(unix_secs()): the server's expiry against the local clock. *)
Usable(token) == token # 0 /\ expiry[token] + ClockLag > now + Skew

Goto(c, step) == /\ pc' = [pc EXCEPT ![c] = step]
                 /\ waited' = [waited EXCEPT ![c] = 0]

(* A call ends, and its locals with it.                                    *)
End(c) == /\ Goto(c, "idle")
          /\ kind' = [kind EXCEPT ![c] = "post_json"]
          /\ loaded' = [loaded EXCEPT ![c] = 0]
          /\ carried' = [carried EXCEPT ![c] = 0]
          /\ retried' = [retried EXCEPT ![c] = FALSE]

Finish(c) == /\ End(c)
             /\ rejected' = [rejected EXCEPT ![c] = 0]
             /\ UNCHANGED denied

-------------------------------------------------------------------------------
(* The calls.                                                              *)

(* tokio's lock is fair: a read waits behind a waiting write.              *)
ReadersMayEnter == \A c \in Callers : pc[c] \notin {"install", "set"}

StartCall(c, method, first) ==
  /\ pc[c] = "idle"
  /\ Goto(c, first)
  /\ kind' = [kind EXCEPT ![c] = method]
  /\ rejected' = [rejected EXCEPT ![c] = 0]
  /\ denied' = denied \ {c}
  /\ UNCHANGED <<now, serverVars, memory, disk, loaded, carried, retried>>

PostJson(c)   == StartCall(c, "post_json", "enter") /\ UNCHANGED guards
Login(c)      == StartCall(c, "login", "load") /\ UNCHANGED guards
LoginForce(c) == StartCall(c, "login_force", "login") /\ UNCHANGED guards

(* post_json looks at the token under a read guard.                        *)
LookAtToken(c) ==
  /\ pc[c] = "enter" /\ ReadersMayEnter
  /\ Goto(c, "deciding")
  /\ guards' = guards \cup {c}
  /\ UNCHANGED <<now, serverVars, memory, disk, callVars>>

GuardsHeldOver(c) == guards                \* variant: guard bound to a local

(* The guard is a temporary of the match that computes needs_login.        *)
GuardsAfterDeciding(c) == guards \ {c}

DecideLogin(c) ==
  /\ pc[c] = "deciding"
  /\ Goto(c, IF Usable(memory) THEN "send" ELSE "load")
  /\ guards' = GuardsAfterDeciding(c)
  /\ UNCHANGED <<now, serverVars, memory, disk, callVars>>

(* login(false): load_cache, whose token waits for the write lock, or a    *)
(* fresh login.                                                            *)
LoadCache(c) ==
  /\ pc[c] = "load"
  /\ \/ /\ Usable(disk)
        /\ loaded' = [loaded EXCEPT ![c] = disk]
        /\ Goto(c, "install")
     \/ /\ ~Usable(disk)
        /\ Goto(c, "login")
        /\ UNCHANGED loaded
  /\ UNCHANGED <<now, serverVars, sharedVars, kind, carried, retried, rejected,
                 denied>>

(* What follows a successful login: Ok to the caller of login, the request *)
(* for post_json.                                                          *)
AfterLogin(c) ==
  IF kind[c] = "post_json" THEN Goto(c, "send") /\ UNCHANGED callVars
                           ELSE Finish(c)

InstallCached(c) ==
  /\ pc[c] = "install" /\ guards = {}
  /\ memory' = loaded[c]
  /\ AfterLogin(c)
  /\ UNCHANGED <<now, serverVars, disk, guards>>

-------------------------------------------------------------------------------
(* login_fresh: request, save_cache, then the token in memory.             *)

LoginIssued(c) ==
  /\ pc[c] = "login" /\ issued < MaxTokens
  /\ issued' = issued + 1
  /\ expiry' = [expiry EXCEPT ![issued + 1] = now + Lifetime]
  /\ loaded' = [loaded EXCEPT ![c] = issued + 1]
  /\ Goto(c, "truncate")
  /\ UNCHANGED <<now, revoked, sharedVars, kind, carried, retried, rejected,
                 denied>>

(* tokio::fs::write opens with truncation ...                              *)
SaveTruncates(c) ==
  /\ pc[c] = "truncate"
  /\ disk' = 0
  /\ Goto(c, "write")
  /\ UNCHANGED <<now, serverVars, memory, guards, callVars>>

(* ... and then writes; the bytes of two writers may mix.                  *)
SaveWrites(c) ==
  /\ pc[c] = "write"
  /\ disk' \in {loaded[c]}
       \cup {0 : d \in {d \in Callers \ {c} : pc[d] = "write"}}
  /\ Goto(c, "set")
  /\ UNCHANGED <<now, serverVars, memory, guards, callVars>>

SaveErrorLogged(c) ==                      \* variant: logged, no `?`
  Goto(c, "set") /\ UNCHANGED callVars

(* `save_cache(..).await?`: the error ends the call, and the fresh token   *)
(* is not used.                                                            *)
OnSaveError(c) == Finish(c)

SaveFails(c) ==
  /\ pc[c] \in {"truncate", "write"}
  /\ OnSaveError(c)
  /\ UNCHANGED <<now, serverVars, sharedVars>>

SetToken(c) ==
  /\ pc[c] = "set" /\ guards = {}
  /\ memory' = loaded[c]
  /\ AfterLogin(c)
  /\ UNCHANGED <<now, serverVars, disk, guards>>

-------------------------------------------------------------------------------
(* post_json_inner.                                                        *)

Send(c) ==
  /\ pc[c] = "send" /\ ReadersMayEnter
  /\ carried' = [carried EXCEPT ![c] = memory]
  /\ Goto(c, "sent")
  /\ UNCHANGED <<now, serverVars, sharedVars, kind, loaded, retried, rejected,
                 denied>>

Accepts(token) == token # 0 /\ token \notin revoked /\ expiry[token] > now

AnswerOk(c) ==
  /\ pc[c] = "sent" /\ Accepts(carried[c])
  /\ Finish(c)
  /\ UNCHANGED <<now, serverVars, sharedVars>>

ReauthByLogin == "load"                    \* variant: self.login(false)
ReauthStep    == "login"                   \* self.login_fresh()

(* 401 or 403: a fresh login and a retry, unless this was the retry.       *)
AnswerUnauthorized(c) ==
  /\ pc[c] = "sent" /\ ~Accepts(carried[c])
  /\ \/ /\ ~retried[c]
        /\ retried' = [retried EXCEPT ![c] = TRUE]
        /\ rejected' = [rejected EXCEPT ![c] = carried[c]]
        /\ Goto(c, ReauthStep)
        /\ UNCHANGED <<kind, loaded, carried, denied>>
     \/ /\ retried[c]
        /\ End(c)
        /\ denied' = denied \cup {c}
        /\ UNCHANGED rejected
  /\ UNCHANGED <<now, serverVars, sharedVars>>

(* 429: a sleep and a retry, unless this was the retry.                    *)
AnswerTooMany(c) ==
  /\ pc[c] = "sent"
  /\ \/ /\ ~retried[c]
        /\ retried' = [retried EXCEPT ![c] = TRUE]
        /\ Goto(c, "sleep")
        /\ UNCHANGED <<kind, loaded, carried, rejected, denied>>
     \/ /\ retried[c]
        /\ Finish(c)
  /\ UNCHANGED <<now, serverVars, sharedVars>>

RetryAfterSleep(c) ==
  /\ pc[c] = "sleep" /\ waited[c] >= RetrySleep
  /\ Goto(c, "send")
  /\ UNCHANGED <<now, serverVars, sharedVars, callVars>>

(* An API error, a body that does not parse, a connection that breaks.     *)
AnswerError(c) ==
  /\ pc[c] \in InHttp
  /\ Finish(c)
  /\ UNCHANGED <<now, serverVars, sharedVars>>

NeverTimesOut(c) == FALSE                  \* variant: Client::new()

(* The timeout of the HTTP client.                                         *)
TimedOut(c) == waited[c] >= HttpTimeout

HttpTimesOut(c) ==
  /\ pc[c] \in InHttp /\ TimedOut(c)
  /\ Finish(c)
  /\ UNCHANGED <<now, serverVars, sharedVars>>

-------------------------------------------------------------------------------
(* The environment.                                                        *)

Limit(step) == CASE step \in InHttp -> HttpTimeout
                 [] step = "sleep"  -> RetrySleep
                 [] OTHER           -> LocalDelay

(* A second passes, unless a caller is due.                                *)
Tick ==
  /\ \A c \in Callers : pc[c] # "idle" => waited[c] < Limit(pc[c])
  /\ now' = Least(now + 1, MaxTime)
  /\ waited' = [c \in Callers |-> IF pc[c] = "idle" THEN 0 ELSE waited[c] + 1]
  /\ UNCHANGED <<serverVars, sharedVars, pc, callVars>>

Revoke ==
  /\ \E t \in 1 .. issued : t \notin revoked /\ revoked' = revoked \cup {t}
  /\ UNCHANGED <<now, issued, expiry, sharedVars, pc, callVars, waited>>

(* The process dies and starts again; the file stays as it was.            *)
Crash ==
  /\ memory' = 0 /\ guards' = {}
  /\ pc' = [c \in Callers |-> "idle"]
  /\ kind' = [c \in Callers |-> "post_json"]
  /\ loaded' = [c \in Callers |-> 0] /\ carried' = [c \in Callers |-> 0]
  /\ retried' = [c \in Callers |-> FALSE]
  /\ rejected' = [c \in Callers |-> 0]
  /\ denied' = {}
  /\ waited' = [c \in Callers |-> 0]
  /\ UNCHANGED <<now, serverVars, disk>>

Progress(c) == \/ LookAtToken(c) \/ DecideLogin(c) \/ LoadCache(c)
               \/ InstallCached(c) \/ SaveTruncates(c) \/ SaveWrites(c)
               \/ SetToken(c) \/ Send(c) \/ RetryAfterSleep(c) \/ HttpTimesOut(c)

Answered(c) == \/ LoginIssued(c) \/ AnswerOk(c) \/ AnswerUnauthorized(c)
               \/ AnswerTooMany(c) \/ AnswerError(c) \/ SaveFails(c)

Next == \/ \E c \in Callers : \/ PostJson(c) \/ Login(c) \/ LoginForce(c)
                              \/ Progress(c) \/ Answered(c)
        \/ Tick \/ Revoke \/ Crash

Spec == Init /\ [][Next]_vars

(* The tasks are scheduled.  tokio's lock is first come, first served, so  *)
(* a step that waits for it is taken if it can be again and again; and no  *)
(* number of calls stops the time.  Nothing obliges the server to answer,  *)
(* or anybody to call.                                                     *)
FairSpec == Spec /\ SF_vars(Tick) /\ \A c \in Callers : SF_vars(Progress(c))

-------------------------------------------------------------------------------
(* The types of the variables; a read guard lives as long as the match     *)
(* that decides about the login, and no longer.                            *)
TypeOK ==
  /\ now \in 0 .. MaxTime /\ issued \in 0 .. MaxTokens
  /\ expiry \in [Tokens -> 0 .. MaxTime + Lifetime] /\ revoked \subseteq 1 .. issued
  /\ memory \in 0 .. issued /\ disk \in 0 .. issued
  /\ guards \subseteq {c \in Callers : pc[c] = "deciding"}
  /\ pc \in [Callers -> Steps] /\ kind \in [Callers -> Kinds]
  /\ loaded \in [Callers -> 0 .. issued] /\ carried \in [Callers -> 0 .. issued]
  /\ retried \in [Callers -> BOOLEAN] /\ rejected \in [Callers -> 0 .. issued]
  /\ denied \subseteq Callers
  /\ waited \in [Callers -> Nat]

(* The skew does its work (auth.rs:82-86): no request is under way with a  *)
(* token that expires before it lands, although the token was checked one  *)
(* sleep, one retry and several held-up steps ago, by another caller, or   *)
(* by a clock that is behind the server's.                                 *)
UnexpiredInFlight ==
  \A c \in Callers :
    pc[c] = "sent" /\ carried[c] # 0 => expiry[carried[c]] > now

(* Every call comes back (auth.rs:131-137), whatever the server does, and  *)
(* no two callers hold each other up on the token lock.                    *)
CallsReturn == \A c \in Callers : pc[c] # "idle" ~> pc[c] = "idle"

(* The retry after a 401 does not carry the token that was refused, nor an *)
(* older one (auth.rs:302-305).                                            *)
RetryCarriesNewToken ==
  \A c \in Callers :
    pc[c] = "sent" /\ rejected[c] # 0 => carried[c] > rejected[c]

(* A restart does not bring back a token older than the one in use: the    *)
(* cache is written before the memory (auth.rs:255-256), so it holds the   *)
(* token in use, a newer one, or none.                                     *)
CacheNotOlder == disk = 0 \/ disk >= memory

(* The doc comment of post_json (auth.rs:267-268): a call that returns a   *)
(* 401 or 403 has re-authenticated once.                                   *)
ReauthenticatesOnce ==
  \A c \in denied : rejected[c] # 0
===============================================================================
