--------------------------- MODULE SessionOrderProofs ---------------------------
(***************************************************************************)
(* Proofs about the order of tokens in Session, for one caller at a time   *)
(* and any timeouts, delays and number of tokens.  With two callers the    *)
(* two properties do not hold.                                             *)
(***************************************************************************)
EXTENDS SessionProofs

OneCaller == \A c, d \in Callers : c = d

-------------------------------------------------------------------------------
(* The invariant.                                                          *)

(* Where the token on its way into the cache and the memory stands.        *)
SaveInv(c) ==
  /\ pc[c] = "install" => loaded[c] = disk
  /\ pc[c] \in {"truncate", "write", "set"} => loaded[c] = issued
  /\ pc[c] = "set" => disk = issued

(* From a 401 on, the token is newer wherever the retry may take it from.  *)
RetryInv(c) ==
  rejected[c] # 0 =>
    /\ pc[c] \in {"login", "truncate", "write", "set", "send", "sent"} => retried[c]
    /\ pc[c] \in {"truncate", "write", "set"} => loaded[c] > rejected[c]
    /\ pc[c] = "send" => memory > rejected[c]
    /\ pc[c] = "sent" => carried[c] > rejected[c]
    /\ pc[c] \notin {"enter", "deciding", "load", "install", "sleep"}

Order(c) == SaveInv(c) /\ RetryInv(c)

OInv == TypeOK /\ CacheNotOlder /\ \A c \in Callers : Order(c)

(* A call that ends has neither a token on its way nor a retry.            *)
LEMMA EndedInOrder ==
  ASSUME NEW c \in Callers, pc'[c] = "idle"
  PROVE  Order(c)'
  BY DEF Order, SaveInv, RetryInv

(* So it is with every end of a call that leaves the cache and the memory. *)
LEMMA EndKeepsOrder ==
  ASSUME OInv, OneCaller, NEW c \in Callers, End(c), UNCHANGED <<disk, memory>>
  PROVE  CacheNotOlder' /\ \A d \in Callers : Order(d)'
  <1>1. pc'[c] = "idle"
    BY DEF OInv, TypeOK, End, Goto
  <1>2. CacheNotOlder'
    BY DEF OInv, CacheNotOlder
  <1>3. \A d \in Callers : Order(d)'
    BY <1>1, EndedInOrder DEF OneCaller
  <1> QED
    BY <1>2, <1>3

(* Numbers, for the comparisons.                                           *)
LEMMA Tickets ==
  ASSUME OInv, NEW c \in Callers
  PROVE  /\ issued \in Nat /\ memory \in 0 .. issued /\ disk \in 0 .. issued
         /\ loaded[c] \in 0 .. issued /\ carried[c] \in 0 .. issued
         /\ rejected[c] \in 0 .. issued
         /\ (disk = 0 \/ disk >= memory) /\ SaveInv(c) /\ RetryInv(c)
  BY Bounds DEF OInv, TypeOK, CacheNotOlder, Order

LEMMA StepKeepsOrder ==
  ASSUME OInv, OneCaller, [Next]_vars, TypeOK'
  PROVE  CacheNotOlder' /\ \A d \in Callers : Order(d)'
  <1>1. ASSUME NEW c \in Callers,
               PostJson(c) \/ Login(c) \/ LoginForce(c)
        PROVE  CacheNotOlder' /\ Order(c)'
    <2>1. /\ rejected'[c] = 0 /\ UNCHANGED <<memory, disk>>
          /\ pc'[c] \in {"enter", "load", "login"}
      BY <1>1 DEF PostJson, Login, LoginForce, StartCall, Goto, OInv, TypeOK
    <2> QED
      BY <2>1, Tickets DEF CacheNotOlder, Order, SaveInv, RetryInv
  <1>16. ASSUME NEW c \in Callers, LookAtToken(c)
         PROVE  CacheNotOlder' /\ Order(c)'
    <2>1. /\ pc[c] = "enter" /\ pc'[c] = "deciding"
          /\ UNCHANGED <<memory, disk, issued, callVars>>
      BY <1>16 DEF LookAtToken, Goto, OInv, TypeOK, serverVars
    <2> QED
      BY <2>1, Tickets DEF CacheNotOlder, Order, SaveInv, RetryInv, callVars
  <1>2. ASSUME NEW c \in Callers, DecideLogin(c)
        PROVE  CacheNotOlder' /\ Order(c)'
    <2>1. /\ pc[c] = "deciding" /\ pc'[c] \in {"send", "load"}
          /\ UNCHANGED <<memory, disk, issued, callVars>>
      BY <1>2 DEF DecideLogin, Goto, OInv, TypeOK, serverVars
    <2> QED
      BY <2>1, Tickets DEF CacheNotOlder, Order, SaveInv, RetryInv, callVars
  <1>3. ASSUME NEW c \in Callers, LoadCache(c)
        PROVE  CacheNotOlder' /\ Order(c)'
    <2>1. /\ pc[c] = "load" /\ UNCHANGED <<memory, disk, rejected>>
          /\ \/ pc'[c] = "install" /\ loaded'[c] = disk
             \/ pc'[c] = "login"
      BY <1>3 DEF LoadCache, Goto, OInv, TypeOK, sharedVars
    <2> QED
      BY <2>1, Tickets DEF CacheNotOlder, Order, SaveInv, RetryInv
  <1>4. ASSUME NEW c \in Callers, InstallCached(c)
        PROVE  CacheNotOlder' /\ Order(c)'
    <2>1. pc[c] = "install" /\ memory' = loaded[c] /\ disk' = disk
      BY <1>4 DEF InstallCached
    <2>2. \/ pc'[c] = "send" /\ UNCHANGED <<rejected, retried>>
          \/ pc'[c] = "idle"
      BY <1>4 DEF InstallCached, AfterLogin, Goto, Finish, End, OInv, TypeOK, callVars
    <2> QED
      BY <2>1, <2>2, Tickets DEF CacheNotOlder, Order, SaveInv, RetryInv
  <1>5. ASSUME NEW c \in Callers, LoginIssued(c)
        PROVE  CacheNotOlder' /\ Order(c)'
    <2>1. /\ pc[c] = "login" /\ pc'[c] = "truncate"
          /\ issued' = issued + 1 /\ loaded'[c] = issued + 1
          /\ UNCHANGED <<memory, disk, rejected, retried>>
      BY <1>5 DEF LoginIssued, Goto, OInv, TypeOK, sharedVars
    <2> QED
      BY <2>1, Tickets DEF CacheNotOlder, Order, SaveInv, RetryInv
  <1>6. ASSUME NEW c \in Callers, SaveTruncates(c)
        PROVE  CacheNotOlder' /\ Order(c)'
    <2>1. /\ pc[c] = "truncate" /\ pc'[c] = "write" /\ disk' = 0
          /\ UNCHANGED <<issued, loaded, rejected, retried>>
      BY <1>6 DEF SaveTruncates, Goto, OInv, TypeOK, serverVars, callVars
    <2> QED
      BY <2>1, Tickets DEF CacheNotOlder, Order, SaveInv, RetryInv
  <1>7. ASSUME NEW c \in Callers, SaveWrites(c)
        PROVE  CacheNotOlder' /\ Order(c)'
    <2>1. /\ pc[c] = "write" /\ pc'[c] = "set" /\ disk' = loaded[c]
          /\ UNCHANGED <<memory, issued, loaded, rejected, retried>>
      BY <1>7 DEF SaveWrites, Goto, OneCaller, OInv, TypeOK, serverVars, callVars
    <2> QED
      BY <2>1, Tickets DEF CacheNotOlder, Order, SaveInv, RetryInv
  <1>8. ASSUME NEW c \in Callers, SetToken(c)
        PROVE  CacheNotOlder' /\ Order(c)'
    <2>1. pc[c] = "set" /\ memory' = loaded[c] /\ disk' = disk
      BY <1>8 DEF SetToken
    <2>2. \/ pc'[c] = "send" /\ UNCHANGED <<rejected, retried>>
          \/ pc'[c] = "idle"
      BY <1>8 DEF SetToken, AfterLogin, Goto, Finish, End, OInv, TypeOK, callVars
    <2> QED
      BY <2>1, <2>2, Tickets DEF CacheNotOlder, Order, SaveInv, RetryInv
  <1>9. ASSUME NEW c \in Callers, Send(c)
        PROVE  CacheNotOlder' /\ Order(c)'
    <2>1. /\ pc[c] = "send" /\ pc'[c] = "sent" /\ carried'[c] = memory
          /\ UNCHANGED <<memory, disk, rejected, retried>>
      BY <1>9 DEF Send, Goto, OInv, TypeOK, sharedVars
    <2> QED
      BY <2>1, Tickets DEF CacheNotOlder, Order, SaveInv, RetryInv
  <1>10. ASSUME NEW c \in Callers, RetryAfterSleep(c)
         PROVE  CacheNotOlder' /\ Order(c)'
    <2>1. /\ pc[c] = "sleep" /\ pc'[c] = "send"
          /\ UNCHANGED <<memory, disk, rejected>>
      BY <1>10 DEF RetryAfterSleep, Goto, OInv, TypeOK, sharedVars, callVars
    <2> QED
      BY <2>1, Tickets DEF CacheNotOlder, Order, SaveInv, RetryInv
  <1>11. ASSUME NEW c \in Callers, AnswerUnauthorized(c) \/ AnswerTooMany(c)
         PROVE  CacheNotOlder' /\ Order(c)'
    <2>1. pc[c] = "sent" /\ UNCHANGED <<memory, disk>>
      BY <1>11 DEF AnswerUnauthorized, AnswerTooMany, sharedVars
    <2>2. CASE End(c)
      BY <2>1, <2>2, EndKeepsOrder
    <2>3. CASE ~retried[c] /\ ~End(c)
      <3>1. \/ pc'[c] = "login" /\ retried'[c]
            \/ pc'[c] = "sleep" /\ UNCHANGED rejected
        <4>1. \/ Goto(c, "login") /\ retried' = [retried EXCEPT ![c] = TRUE]
              \/ Goto(c, "sleep") /\ UNCHANGED rejected
          BY <1>11, <2>3 DEF AnswerUnauthorized, AnswerTooMany, ReauthStep, Finish
        <4> QED
          BY <4>1 DEF Goto, OInv, TypeOK
      <3> QED
        BY <2>1, <2>3, <3>1, Tickets DEF CacheNotOlder, Order, SaveInv, RetryInv
    <2> QED
      BY <1>11, <2>2, <2>3 DEF AnswerUnauthorized, AnswerTooMany, Finish
  <1>12. ASSUME NEW c \in Callers,
                AnswerOk(c) \/ AnswerError(c) \/ HttpTimesOut(c) \/ SaveFails(c)
         PROVE  CacheNotOlder' /\ Order(c)'
    <2>1. End(c) /\ UNCHANGED <<disk, memory>>
      BY <1>12 DEF AnswerOk, AnswerError, HttpTimesOut, SaveFails, OnSaveError, Finish,
                   sharedVars
    <2> QED
      BY <2>1, EndKeepsOrder
  <1>13. CASE Tick \/ Revoke \/ UNCHANGED vars
    <2>1. UNCHANGED <<issued, memory, disk, pc, loaded, carried, retried, rejected>>
      BY <1>13 DEF Tick, Revoke, vars, serverVars, sharedVars, callVars
    <2> QED
      BY <2>1 DEF OInv, CacheNotOlder, Order, SaveInv, RetryInv
  <1>14. CASE Crash
    <2>1. CacheNotOlder'
      BY <1>14 DEF Crash, OInv, TypeOK, CacheNotOlder
    <2>2. \A d \in Callers : pc'[d] = "idle"
      BY <1>14 DEF Crash
    <2> QED
      BY <2>1, <2>2, EndedInOrder
  <1>15. ASSUME NEW c \in Callers, CacheNotOlder' /\ Order(c)'
         PROVE  CacheNotOlder' /\ \A d \in Callers : Order(d)'
    BY <1>15 DEF OneCaller
  <1> QED
    BY <1>1, <1>2, <1>3, <1>4, <1>5, <1>6, <1>7, <1>8, <1>9, <1>10, <1>11, <1>12,
       <1>13, <1>14, <1>15, <1>16 DEF Next, Progress, Answered

LEMMA AlwaysInOrder ==
  ASSUME OneCaller
  PROVE  Spec => []OInv
  <1>1. Init => OInv
    <2> SUFFICES ASSUME Init PROVE OInv
      OBVIOUS
    <2>1. CacheNotOlder /\ \A c \in Callers : Order(c)
      BY DEF Init, CacheNotOlder, Order, SaveInv, RetryInv
    <2> QED
      BY <2>1, InitTypes DEF OInv
  <1>2. OInv /\ [Next]_vars => OInv'
    <2> SUFFICES ASSUME OInv, [Next]_vars PROVE OInv'
      OBVIOUS
    <2>1. TypeOK'
      BY StepKeepsTypes DEF OInv
    <2>2. CacheNotOlder' /\ \A c \in Callers : Order(c)'
      BY <2>1, StepKeepsOrder
    <2> QED
      BY <2>1, <2>2 DEF OInv
  <1> QED
    BY <1>1, <1>2, PTL DEF Spec

-------------------------------------------------------------------------------
(* With one caller at a time the cache never holds a token older than the  *)
(* one in use, through failed saves, crashes between its truncation and    *)
(* its writing, and restarts (auth.rs:255-256).                            *)
THEOREM CacheIsNotOlder ==
  ASSUME OneCaller
  PROVE  Spec => []CacheNotOlder
  <1>1. OInv => CacheNotOlder
    BY DEF OInv
  <1> QED
    BY AlwaysInOrder, <1>1, PTL

(* With one caller at a time the retry after a 401 carries a newer token   *)
(* than the one that was refused (auth.rs:302-305).                        *)
THEOREM RetryIsNewer ==
  ASSUME OneCaller
  PROVE  Spec => []RetryCarriesNewToken
  <1>1. OInv => RetryCarriesNewToken
    BY DEF OInv, Order, RetryInv, RetryCarriesNewToken
  <1> QED
    BY AlwaysInOrder, <1>1, PTL
===============================================================================
