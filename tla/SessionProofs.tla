----------------------------- MODULE SessionProofs -----------------------------
(***************************************************************************)
(* Proofs about Session, for any callers, any timeouts and any number of   *)
(* tokens.                                                                 *)
(***************************************************************************)
EXTENDS Session, TLAPS

(* The bounds are numbers.                                                 *)
LEMMA Bounds ==
  ASSUME TRUE
  PROVE  /\ Skew \in Nat /\ ClockLag \in Int
         /\ Lifetime \in Nat /\ HttpTimeout \in Nat
         /\ RetrySleep \in Nat /\ LocalDelay \in Nat
         /\ MaxTokens \in Nat /\ MaxTime \in Nat
  BY SessionAssumption DEF SessionAssumption

-------------------------------------------------------------------------------
(* Types.                                                                  *)

(* What a caller moves on to keeps the types.                              *)
LEMMA GotoTypes ==
  ASSUME TypeOK, NEW c \in Callers, NEW step \in Steps, Goto(c, step)
  PROVE  pc' \in [Callers -> Steps] /\ waited' \in [Callers -> Nat]
  BY DEF TypeOK, Goto

(* The end of a call resets its locals.                                    *)
LEMMA EndTypes ==
  ASSUME TypeOK, NEW c \in Callers, End(c)
  PROVE  /\ pc' \in [Callers -> Steps] /\ waited' \in [Callers -> Nat]
         /\ kind' \in [Callers -> Kinds]
         /\ loaded' \in [Callers -> 0 .. issued]
         /\ carried' \in [Callers -> 0 .. issued]
         /\ retried' \in [Callers -> BOOLEAN]
  <1>1. Goto(c, "idle") /\ "idle" \in Steps
    BY DEF End, Steps
  <1>2. pc' \in [Callers -> Steps] /\ waited' \in [Callers -> Nat]
    BY <1>1, GotoTypes
  <1>3. retried' \in [Callers -> BOOLEAN]
    BY DEF End, TypeOK
  <1> QED
    BY <1>2, <1>3 DEF End, TypeOK, Kinds

(* A call that finishes keeps the types.                                   *)
LEMMA FinishTypes ==
  ASSUME TypeOK, NEW c \in Callers, Finish(c), pc[c] # "deciding",
         UNCHANGED <<now, serverVars, memory, disk, guards>>
  PROVE  TypeOK'
  <1>1. End(c) /\ rejected' = [rejected EXCEPT ![c] = 0] /\ denied' = denied
    BY DEF Finish
  <1>2. /\ pc' \in [Callers -> Steps] /\ waited' \in [Callers -> Nat]
        /\ kind' \in [Callers -> Kinds]
        /\ loaded' \in [Callers -> 0 .. issued]
        /\ carried' \in [Callers -> 0 .. issued]
        /\ retried' \in [Callers -> BOOLEAN]
    BY <1>1, EndTypes
  <1>3. rejected' \in [Callers -> 0 .. issued]
    BY <1>1 DEF TypeOK
  <1>4. guards' \subseteq {d \in Callers : pc'[d] = "deciding"}
    BY <1>1 DEF TypeOK, End, Goto
  <1> QED
    BY <1>1, <1>2, <1>3, <1>4 DEF TypeOK, serverVars

(* The types hold at the start.                                            *)
LEMMA InitTypes == Init => TypeOK
  <1> SUFFICES ASSUME Init PROVE TypeOK
    OBVIOUS
  <1>1. retried \in [Callers -> BOOLEAN]
    BY DEF Init
  <1> QED
    BY <1>1, Bounds DEF Init, TypeOK, Tokens, Steps, Kinds

(* Every step keeps the types.                                             *)
LEMMA StepKeepsTypes == TypeOK /\ [Next]_vars => TypeOK'
  <1> SUFFICES ASSUME TypeOK, [Next]_vars PROVE TypeOK'
    OBVIOUS
  <1> USE Bounds
  <1>1. ASSUME NEW c \in Callers, PostJson(c) \/ Login(c) \/ LoginForce(c)
        PROVE  TypeOK'
    <2>1. PICK method \in Kinds, first \in Steps :
            /\ StartCall(c, method, first)
            /\ UNCHANGED guards
      BY <1>1 DEF PostJson, Login, LoginForce, Kinds, Steps, InHttp
    <2>2. pc' \in [Callers -> Steps] /\ waited' \in [Callers -> Nat]
      BY <2>1, GotoTypes DEF StartCall
    <2>3. guards' \subseteq {d \in Callers : pc'[d] = "deciding"}
      BY <2>1 DEF StartCall, Goto, TypeOK
    <2>4. rejected' \in [Callers -> 0 .. issued] /\ kind' \in [Callers -> Kinds]
      BY <2>1 DEF StartCall, TypeOK
    <2> QED
      BY <2>1, <2>2, <2>3, <2>4 DEF StartCall, TypeOK, serverVars
  <1>15. ASSUME NEW c \in Callers, LookAtToken(c)
         PROVE  TypeOK'
    <2>1. pc' \in [Callers -> Steps] /\ waited' \in [Callers -> Nat]
      BY <1>15, GotoTypes DEF LookAtToken, Steps
    <2>2. guards' \subseteq {d \in Callers : pc'[d] = "deciding"}
      BY <1>15 DEF LookAtToken, Goto, TypeOK
    <2> QED
      BY <1>15, <2>1, <2>2 DEF LookAtToken, TypeOK, serverVars, callVars
  <1>2. ASSUME NEW c \in Callers, DecideLogin(c)
        PROVE  TypeOK'
    <2>1. pc' \in [Callers -> Steps] /\ waited' \in [Callers -> Nat]
      BY <1>2, GotoTypes DEF DecideLogin, Steps
    <2>2. guards' \subseteq {d \in Callers : pc'[d] = "deciding"}
      BY <1>2 DEF DecideLogin, GuardsAfterDeciding, Goto, TypeOK
    <2> QED
      BY <1>2, <2>1, <2>2 DEF DecideLogin, TypeOK, serverVars, callVars
  <1>3. ASSUME NEW c \in Callers, LoadCache(c)
        PROVE  TypeOK'
    <2>1. pc' \in [Callers -> Steps] /\ waited' \in [Callers -> Nat]
      BY <1>3, GotoTypes DEF LoadCache, Steps, InHttp
    <2>2. guards' \subseteq {d \in Callers : pc'[d] = "deciding"}
      BY <1>3 DEF LoadCache, sharedVars, Goto, TypeOK
    <2>3. loaded' \in [Callers -> 0 .. issued]
      BY <1>3 DEF LoadCache, TypeOK
    <2> QED
      BY <1>3, <2>1, <2>2, <2>3 DEF LoadCache, TypeOK, serverVars, sharedVars
  <1>4. ASSUME NEW c \in Callers, InstallCached(c) \/ SetToken(c)
        PROVE  TypeOK'
    <2>1. /\ memory' = loaded[c] /\ AfterLogin(c) /\ pc[c] # "deciding"
          /\ UNCHANGED <<now, serverVars, disk, guards>> /\ guards = {}
      BY <1>4 DEF InstallCached, SetToken
    <2>2. memory' \in 0 .. issued
      BY <2>1 DEF TypeOK
    <2>3. CASE Goto(c, "send") /\ UNCHANGED callVars
      <3>1. pc' \in [Callers -> Steps] /\ waited' \in [Callers -> Nat]
        BY <2>3, GotoTypes DEF Steps
      <3> QED
        BY <2>1, <2>2, <2>3, <3>1 DEF TypeOK, serverVars, callVars
    <2>4. CASE Finish(c)
      <3>1. End(c) /\ rejected' = [rejected EXCEPT ![c] = 0] /\ denied' = denied
        BY <2>4 DEF Finish
      <3>2. rejected' \in [Callers -> 0 .. issued]
        BY <3>1 DEF TypeOK
      <3> QED
        BY <2>1, <2>2, <3>1, <3>2, EndTypes DEF TypeOK, serverVars
    <2> QED
      BY <2>1, <2>3, <2>4 DEF AfterLogin
  <1>5. ASSUME NEW c \in Callers, LoginIssued(c)
        PROVE  TypeOK'
    <2>1. pc' \in [Callers -> Steps] /\ waited' \in [Callers -> Nat]
      BY <1>5, GotoTypes DEF LoginIssued, Steps
    <2>2. issued' = issued + 1 /\ issued + 1 \in 1 .. MaxTokens
      BY <1>5 DEF LoginIssued, TypeOK
    <2>3. expiry' \in [Tokens -> 0 .. MaxTime + Lifetime]
      BY <1>5, <2>2 DEF LoginIssued, TypeOK, Tokens
    <2>4. loaded' \in [Callers -> 0 .. issued']
      BY <1>5, <2>2 DEF LoginIssued, TypeOK
    <2>5. guards' \subseteq {d \in Callers : pc'[d] = "deciding"}
      BY <1>5 DEF LoginIssued, sharedVars, Goto, TypeOK
    <2>6. /\ carried' \in [Callers -> 0 .. issued'] /\ memory' \in 0 .. issued'
          /\ rejected' \in [Callers -> 0 .. issued'] /\ disk' \in 0 .. issued'
          /\ revoked' \subseteq 1 .. issued' /\ issued' \in 0 .. MaxTokens
      BY <1>5, <2>2 DEF LoginIssued, TypeOK, sharedVars
    <2> QED
      BY <1>5, <2>1, <2>3, <2>4, <2>5, <2>6 DEF LoginIssued, TypeOK
  <1>6. ASSUME NEW c \in Callers, SaveTruncates(c) \/ SaveWrites(c)
        PROVE  TypeOK'
    <2>1. pc' \in [Callers -> Steps] /\ waited' \in [Callers -> Nat]
      BY <1>6, GotoTypes DEF SaveTruncates, SaveWrites, Steps
    <2>2. guards' \subseteq {d \in Callers : pc'[d] = "deciding"}
      BY <1>6 DEF SaveTruncates, SaveWrites, Goto, TypeOK
    <2>3. disk' \in 0 .. issued
      BY <1>6 DEF SaveTruncates, SaveWrites, TypeOK
    <2> QED
      BY <1>6, <2>1, <2>2, <2>3 DEF SaveTruncates, SaveWrites, TypeOK, serverVars,
         callVars
  <1>7. ASSUME NEW c \in Callers,
               SaveFails(c) \/ AnswerOk(c) \/ AnswerError(c) \/ HttpTimesOut(c)
        PROVE  TypeOK'
    BY <1>7, FinishTypes DEF SaveFails, OnSaveError, AnswerOk, AnswerError,
       HttpTimesOut, InHttp, sharedVars
  <1>8. ASSUME NEW c \in Callers, Send(c)
        PROVE  TypeOK'
    <2>1. pc' \in [Callers -> Steps] /\ waited' \in [Callers -> Nat]
      BY <1>8, GotoTypes DEF Send, Steps, InHttp
    <2>2. guards' \subseteq {d \in Callers : pc'[d] = "deciding"}
      BY <1>8 DEF Send, sharedVars, Goto, TypeOK
    <2>3. carried' \in [Callers -> 0 .. issued]
      BY <1>8 DEF Send, TypeOK
    <2> QED
      BY <1>8, <2>1, <2>2, <2>3 DEF Send, TypeOK, serverVars, sharedVars
  <1>9. ASSUME NEW c \in Callers, AnswerUnauthorized(c) \/ AnswerTooMany(c)
        PROVE  TypeOK'
    <2>1. CASE Finish(c) /\ UNCHANGED <<now, serverVars, sharedVars>>
      BY <1>9, <2>1, FinishTypes DEF AnswerUnauthorized, AnswerTooMany, sharedVars
    <2>2. CASE End(c) /\ denied' = denied \cup {c} /\ UNCHANGED rejected
      <3>1. guards' \subseteq {d \in Callers : pc'[d] = "deciding"}
        BY <1>9, <2>2 DEF AnswerUnauthorized, AnswerTooMany, End, Goto, TypeOK,
           sharedVars
      <3> QED
        BY <1>9, <2>2, <3>1, EndTypes DEF AnswerUnauthorized, AnswerTooMany, TypeOK,
           serverVars, sharedVars
    <2>3. ASSUME NEW step \in {"login", "sleep"}, Goto(c, step),
                 retried' = [retried EXCEPT ![c] = TRUE],
                 rejected' = [rejected EXCEPT ![c] = carried[c]] \/ UNCHANGED rejected,
                 UNCHANGED <<kind, loaded, carried, denied>>
          PROVE  TypeOK'
      <3>1. pc' \in [Callers -> Steps] /\ waited' \in [Callers -> Nat]
        BY <2>3, GotoTypes DEF Steps, InHttp
      <3>2. retried' \in [Callers -> BOOLEAN]
        BY <2>3 DEF TypeOK
      <3>3. rejected' \in [Callers -> 0 .. issued]
        BY <2>3 DEF TypeOK
      <3>4. guards' \subseteq {d \in Callers : pc'[d] = "deciding"}
        BY <1>9, <2>3 DEF AnswerUnauthorized, AnswerTooMany, Goto, TypeOK, sharedVars
      <3> QED
        BY <1>9, <2>3, <3>1, <3>2, <3>3, <3>4 DEF AnswerUnauthorized, AnswerTooMany,
           TypeOK, serverVars, sharedVars
    <2> QED
      BY <1>9, <2>1, <2>2, <2>3 DEF AnswerUnauthorized, AnswerTooMany, ReauthStep
  <1>10. ASSUME NEW c \in Callers, RetryAfterSleep(c)
         PROVE  TypeOK'
    <2>1. pc' \in [Callers -> Steps] /\ waited' \in [Callers -> Nat]
      BY <1>10, GotoTypes DEF RetryAfterSleep, Steps
    <2>2. guards' \subseteq {d \in Callers : pc'[d] = "deciding"}
      BY <1>10 DEF RetryAfterSleep, sharedVars, Goto, TypeOK
    <2> QED
      BY <1>10, <2>1, <2>2 DEF RetryAfterSleep, TypeOK, serverVars, sharedVars,
         callVars
  <1>11. CASE Tick
    <2>1. now' \in 0 .. MaxTime
      BY <1>11 DEF Tick, Least, TypeOK
    <2>2. waited' \in [Callers -> Nat]
      BY <1>11 DEF Tick, TypeOK
    <2> QED
      BY <1>11, <2>1, <2>2 DEF Tick, TypeOK, serverVars, sharedVars, callVars
  <1>12. CASE Revoke
    BY <1>12 DEF Revoke, TypeOK, sharedVars, callVars
  <1>13. CASE Crash
    <2>1. retried' \in [Callers -> BOOLEAN]
      BY <1>13 DEF Crash
    <2> QED
      BY <1>13, <2>1 DEF Crash, TypeOK, Steps, Kinds, serverVars
  <1>14. CASE UNCHANGED vars
    BY <1>14 DEF vars, TypeOK, serverVars, sharedVars, callVars
  <1> QED
    BY <1>1, <1>2, <1>3, <1>4, <1>5, <1>6, <1>7, <1>8, <1>9, <1>10, <1>11, <1>12,
       <1>13, <1>14, <1>15 DEF Next, Progress, Answered

(* Type correctness; in particular a read guard is held only in the match  *)
(* that decides about the login (auth.rs:274-277).                         *)
THEOREM SessionTypeCorrect == Spec => []TypeOK
  BY InitTypes, StepKeepsTypes, PTL DEF Spec

-------------------------------------------------------------------------------
(* The time budget.  From the moment a caller has a usable token, what may *)
(* pass until its last request lands is bounded: two held-up steps, two    *)
(* requests, the sleep between them, and one more held-up step, because a  *)
(* cached token may wait that long for the write lock of the memory.  The  *)
(* skew has to cover that, and the local clock's lag behind the server's.  *)

SkewCoversCall ==
  /\ 3 * LocalDelay + 2 * HttpTimeout + RetrySleep + ClockLag <= Skew
  /\ 5 * LocalDelay + 2 * HttpTimeout + RetrySleep < Lifetime

RetryTime(c) == IF retried[c] THEN 0 ELSE RetrySleep + LocalDelay + HttpTimeout

(* The age of what a caller is about to put into the memory.               *)
LoadedInv(c) ==
  /\ pc[c] \in {"install", "truncate", "write", "set"} => loaded[c] # 0
  /\ pc[c] = "install"  => expiry[loaded[c]] + waited[c] + ClockLag > now + Skew
  /\ pc[c] = "truncate" => expiry[loaded[c]] + waited[c] >= now + Lifetime
  /\ pc[c] = "write" =>
       expiry[loaded[c]] + waited[c] + LocalDelay >= now + Lifetime
  /\ pc[c] = "set" =>
       expiry[loaded[c]] + waited[c] + 2 * LocalDelay >= now + Lifetime

(* The memory lasts for what a caller has left to do with it.              *)
MemoryInv(c) ==
  memory # 0 =>
    /\ pc[c] = "send" =>
         expiry[memory] + waited[c] > now + LocalDelay + HttpTimeout + RetryTime(c)
    /\ pc[c] = "sent" =>
         expiry[memory] + waited[c] > now + HttpTimeout + RetryTime(c)
    /\ pc[c] = "sleep" =>
         expiry[memory] + waited[c] > now + RetrySleep + LocalDelay + HttpTimeout

(* So does the token in its headers.                                       *)
CarriedInv(c) ==
  pc[c] = "sent" /\ carried[c] # 0 =>
    expiry[carried[c]] + waited[c] > now + HttpTimeout

(* Nobody is in a step for longer than it may take.                        *)
InTime(c) ==
  /\ pc[c] \in InHttp => waited[c] <= HttpTimeout
  /\ pc[c] = "sleep" => waited[c] <= RetrySleep /\ retried[c]
  /\ pc[c] \in {"install", "truncate", "write", "set", "send"} =>
       waited[c] <= LocalDelay

Budget(c) == LoadedInv(c) /\ MemoryInv(c) /\ CarriedInv(c) /\ InTime(c)

BInv == TypeOK /\ \A c \in Callers : Budget(c)

(* Numbers, for the arithmetic.                                            *)
LEMMA Numbers ==
  ASSUME TypeOK, NEW c \in Callers
  PROVE  /\ waited[c] \in Nat /\ now \in Nat /\ issued \in Nat
         /\ loaded[c] \in 0 .. issued /\ carried[c] \in 0 .. issued
         /\ memory \in 0 .. issued /\ disk \in 0 .. issued
         /\ \A t \in 1 .. issued : t \in Tokens /\ expiry[t] \in Nat
         /\ RetryTime(c) \in Nat
  <1>1. now \in Nat /\ issued \in Nat /\ waited[c] \in Nat
    BY Bounds DEF TypeOK
  <1>2. /\ loaded[c] \in 0 .. issued /\ carried[c] \in 0 .. issued
        /\ memory \in 0 .. issued /\ disk \in 0 .. issued
    BY DEF TypeOK
  <1>3. \A t \in 1 .. issued : t \in Tokens /\ expiry[t] \in Nat
    BY Bounds DEF TypeOK, Tokens
  <1>4. RetryTime(c) \in Nat
    BY Bounds DEF RetryTime
  <1> QED
    BY <1>1, <1>2, <1>3, <1>4

(* A caller whose own variables stay, while the tokens and the memory do,  *)
(* keeps its budget.                                                       *)
LEMMA OthersKeepBudget ==
  ASSUME BInv, NEW d \in Callers, now' = now, memory' = memory,
         \A t \in 1 .. issued : expiry'[t] = expiry[t],
         pc'[d] = pc[d], waited'[d] = waited[d], loaded'[d] = loaded[d],
         carried'[d] = carried[d], retried'[d] = retried[d]
  PROVE  Budget(d)'
  <1>1. Budget(d) /\ loaded[d] \in 0 .. issued /\ carried[d] \in 0 .. issued
        /\ memory \in 0 .. issued /\ issued \in Nat
    BY Numbers DEF BInv
  <1>2. LoadedInv(d)'
    BY <1>1 DEF Budget, LoadedInv
  <1>3. MemoryInv(d)'
    BY <1>1 DEF Budget, MemoryInv, RetryTime
  <1>4. CarriedInv(d)' /\ InTime(d)'
    BY <1>1 DEF Budget, CarriedInv, InTime
  <1> QED
    BY <1>2, <1>3, <1>4 DEF Budget

(* A caller that is idle, or where it needs no token, has any budget.      *)
LEMMA NoNeedNoBudget ==
  ASSUME NEW d \in Callers,
         \/ pc'[d] \in {"idle", "enter", "deciding", "load"}
         \/ pc'[d] = "login" /\ waited'[d] = 0
  PROVE  Budget(d)'
  BY Bounds DEF Budget, LoadedInv, MemoryInv, CarriedInv, InTime, InHttp

(* A caller that ends or starts a call, and the others.                    *)
LEMMA ResetKeepsBudget ==
  ASSUME BInv, NEW c \in Callers,
         NEW step \in {"idle", "enter", "deciding", "load", "login"},
         Goto(c, step), now' = now, memory' = memory,
         \A t \in 1 .. issued : expiry'[t] = expiry[t],
         \A d \in Callers \ {c} : /\ loaded'[d] = loaded[d]
                                  /\ carried'[d] = carried[d]
                                  /\ retried'[d] = retried[d]
  PROVE  \A d \in Callers : Budget(d)'
  <1>1. pc'[c] = step /\ waited'[c] = 0
    BY DEF Goto, BInv, TypeOK
  <1>2. Budget(c)'
    BY <1>1, NoNeedNoBudget
  <1>3. ASSUME NEW d \in Callers \ {c} PROVE Budget(d)'
    <2>1. pc'[d] = pc[d] /\ waited'[d] = waited[d]
      BY <1>3 DEF Goto, BInv, TypeOK
    <2> QED
      BY <2>1, <1>3, OthersKeepBudget
  <1> QED
    BY <1>2, <1>3

(* A token in the memory that lasts for a whole call keeps every budget.   *)
LEMMA FreshMemoryKeepsBudget ==
  ASSUME BInv, NEW c \in Callers, SkewCoversCall, now' = now, expiry' = expiry,
         memory' \in 1 .. issued, TypeOK',
         expiry[memory'] > now + 2 * LocalDelay + 2 * HttpTimeout + RetrySleep,
         \/ Goto(c, "send") /\ UNCHANGED <<loaded, carried, retried>>
         \/ End(c)
  PROVE  \A d \in Callers : Budget(d)'
  <1> SUFFICES ASSUME NEW d \in Callers PROVE Budget(d)'
    OBVIOUS
  <1> USE Bounds
  <1>1. Budget(d) /\ waited'[d] \in Nat /\ RetryTime(d)' \in Nat
    <2>1. waited'[d] \in Nat
      BY DEF TypeOK
    <2>2. RetryTime(d)' \in Nat
      BY DEF RetryTime
    <2> QED
      BY <2>1, <2>2 DEF BInv
  <1>2. RetryTime(d)' <= RetrySleep + LocalDelay + HttpTimeout
    BY DEF RetryTime
  <1>3. now \in Nat /\ expiry[memory'] \in Nat
    BY Numbers DEF BInv
  <1>4. MemoryInv(d)'
    BY <1>1, <1>2, <1>3 DEF MemoryInv
  <1>5. CASE d = c
    <2>1. pc'[c] \in {"send", "idle"} /\ waited'[c] = 0
      BY DEF End, Goto, BInv, TypeOK
    <2> QED
      BY <2>1, <1>4, <1>5 DEF Budget, LoadedInv, CarriedInv, InTime, InHttp
  <1>6. CASE d # c
    <2>1. /\ pc'[d] = pc[d] /\ waited'[d] = waited[d] /\ loaded'[d] = loaded[d]
          /\ carried'[d] = carried[d] /\ retried'[d] = retried[d]
      BY <1>6 DEF End, Goto, BInv, TypeOK
    <2> QED
      BY <2>1, <1>1, <1>4 DEF Budget, LoadedInv, CarriedInv, InTime
  <1> QED
    BY <1>5, <1>6

(* A caller that moves on with the memory and the tokens as they are: its  *)
(* own budget is left to show.                                             *)
LEMMA MoveKeepsBudget ==
  ASSUME BInv, NEW c \in Callers, NEW step \in Steps, Goto(c, step),
         now' = now, memory' = memory,
         \A t \in 1 .. issued : expiry'[t] = expiry[t],
         \A d \in Callers \ {c} : /\ loaded'[d] = loaded[d]
                                  /\ carried'[d] = carried[d]
                                  /\ retried'[d] = retried[d]
  PROVE  /\ pc'[c] = step /\ waited'[c] = 0
         /\ Budget(c)' => \A d \in Callers : Budget(d)'
  <1>1. pc'[c] = step /\ waited'[c] = 0
    BY DEF Goto, BInv, TypeOK
  <1>2. ASSUME NEW d \in Callers \ {c} PROVE Budget(d)'
    <2>1. pc'[d] = pc[d] /\ waited'[d] = waited[d]
      BY <1>2 DEF Goto, BInv, TypeOK
    <2> QED
      BY <2>1, <1>2, OthersKeepBudget
  <1> QED
    BY <1>1, <1>2

(* Every step keeps the budgets.                                           *)
LEMMA StepKeepsBudget ==
  ASSUME SkewCoversCall, BInv, TypeOK', [Next]_vars
  PROVE  \A d \in Callers : Budget(d)'
  <1> USE Bounds
  <1>1. ASSUME NEW c \in Callers, PostJson(c) \/ Login(c) \/ LoginForce(c)
        PROVE  \A d \in Callers : Budget(d)'
    <2>1. PICK method \in Kinds, first \in {"enter", "load", "login"} :
            StartCall(c, method, first)
      BY <1>1 DEF PostJson, Login, LoginForce, Kinds
    <2> QED
      BY <2>1, ResetKeepsBudget DEF StartCall, serverVars
  <1>16. ASSUME NEW c \in Callers, LookAtToken(c)
         PROVE  \A d \in Callers : Budget(d)'
    BY <1>16, ResetKeepsBudget DEF LookAtToken, serverVars, callVars
  <1>2. ASSUME NEW c \in Callers, DecideLogin(c)
        PROVE  \A d \in Callers : Budget(d)'
    <2>1. UNCHANGED <<now, expiry, memory, loaded, carried, retried>>
      BY <1>2 DEF DecideLogin, serverVars, callVars
    <2>2. CASE ~Usable(memory)
      BY <1>2, <2>1, <2>2, ResetKeepsBudget DEF DecideLogin
    <2>3. CASE Usable(memory)
      <3>1. Goto(c, "send") /\ "send" \in Steps
        BY <1>2, <2>3 DEF DecideLogin, Steps
      <3>2. /\ pc'[c] = "send" /\ waited'[c] = 0
            /\ Budget(c)' => \A d \in Callers : Budget(d)'
        BY <2>1, <3>1, MoveKeepsBudget
      <3>3. RetryTime(c)' <= RetrySleep + LocalDelay + HttpTimeout
            /\ RetryTime(c)' \in Nat
        BY DEF RetryTime
      <3>4. /\ expiry[memory] + ClockLag > now + Skew
            /\ expiry[memory] \in Nat /\ now \in Nat
        <4>1. memory \in 1 .. issued
          BY <2>3, Numbers DEF Usable, BInv
        <4> QED
          BY <2>3, <4>1, Numbers DEF Usable, BInv
      <3>5. MemoryInv(c)'
        BY <2>1, <3>2, <3>3, <3>4 DEF MemoryInv, SkewCoversCall
      <3>6. Budget(c)'
        BY <3>2, <3>5 DEF Budget, LoadedInv, CarriedInv, InTime, InHttp
      <3> QED
        BY <3>2, <3>6
    <2> QED
      BY <2>2, <2>3
  <1>3. ASSUME NEW c \in Callers, LoadCache(c)
        PROVE  \A d \in Callers : Budget(d)'
    <2>1. UNCHANGED <<now, expiry, memory, carried, retried>>
      BY <1>3 DEF LoadCache, serverVars, sharedVars
    <2>2. CASE UNCHANGED loaded /\ Goto(c, "login")
      BY <2>1, <2>2, ResetKeepsBudget
    <2>3. CASE /\ Usable(disk) /\ loaded' = [loaded EXCEPT ![c] = disk]
               /\ Goto(c, "install")
      <3>1. loaded'[c] = disk /\ \A d \in Callers \ {c} : loaded'[d] = loaded[d]
        BY <2>3 DEF BInv, TypeOK
      <3>2. /\ pc'[c] = "install" /\ waited'[c] = 0
            /\ Budget(c)' => \A d \in Callers : Budget(d)'
        BY <2>1, <2>3, <3>1, MoveKeepsBudget DEF Steps
      <3>3. /\ expiry[disk] + ClockLag > now + Skew
            /\ expiry[disk] \in Nat /\ disk # 0
        <4>1. disk \in 1 .. issued
          BY <2>3, Numbers DEF Usable, BInv
        <4> QED
          BY <2>3, <4>1, Numbers DEF Usable, BInv
      <3>4. LoadedInv(c)'
        BY <2>1, <3>1, <3>2, <3>3 DEF LoadedInv
      <3>5. Budget(c)'
        BY <3>2, <3>4 DEF Budget, MemoryInv, CarriedInv, InTime, InHttp
      <3> QED
        BY <3>2, <3>5
    <2> QED
      BY <1>3, <2>2, <2>3 DEF LoadCache
  <1>4. ASSUME NEW c \in Callers, InstallCached(c) \/ SetToken(c)
        PROVE  \A d \in Callers : Budget(d)'
    <2>1. /\ pc[c] \in {"install", "set"} /\ memory' = loaded[c] /\ AfterLogin(c)
          /\ now' = now /\ expiry' = expiry
      BY <1>4 DEF InstallCached, SetToken, serverVars
    <2>2. loaded[c] \in 1 .. issued
      BY <2>1, Numbers DEF BInv, Budget, LoadedInv
    <2>3. /\ expiry[loaded[c]] \in Nat /\ now \in Nat /\ waited[c] \in Nat
          /\ waited[c] <= LocalDelay
      BY <2>1, <2>2, Numbers DEF BInv, Budget, InTime
    <2>4. expiry[loaded[c]] > now + 2 * LocalDelay + 2 * HttpTimeout + RetrySleep
      <3>1. CASE pc[c] = "install"
        <4>1. expiry[loaded[c]] + waited[c] + ClockLag > now + Skew
          BY <3>1 DEF BInv, Budget, LoadedInv
        <4> QED
          BY <4>1, <2>3 DEF SkewCoversCall
      <3>2. CASE pc[c] = "set"
        <4>1. expiry[loaded[c]] + waited[c] + 2 * LocalDelay >= now + Lifetime
          BY <3>2 DEF BInv, Budget, LoadedInv
        <4> QED
          BY <4>1, <2>3 DEF SkewCoversCall
      <3> QED
        BY <2>1, <3>1, <3>2
    <2>5. \/ Goto(c, "send") /\ UNCHANGED <<loaded, carried, retried>>
          \/ End(c)
      BY <2>1 DEF AfterLogin, Finish, callVars
    <2> QED
      BY <2>1, <2>2, <2>4, <2>5, FreshMemoryKeepsBudget
  <1>5. ASSUME NEW c \in Callers, LoginIssued(c)
        PROVE  \A d \in Callers : Budget(d)'
    <2>1. UNCHANGED <<now, memory, carried, retried>> /\ Goto(c, "truncate")
      BY <1>5 DEF LoginIssued, sharedVars
    <2>2. issued + 1 \in Tokens /\ issued \in Nat
      BY <1>5 DEF LoginIssued, BInv, TypeOK, Tokens
    <2>3. /\ \A t \in 1 .. issued : expiry'[t] = expiry[t]
          /\ expiry'[issued + 1] = now + Lifetime
      BY <1>5, <2>2 DEF LoginIssued, BInv, TypeOK, Tokens
    <2>4. /\ loaded'[c] = issued + 1
          /\ \A d \in Callers \ {c} : loaded'[d] = loaded[d]
      BY <1>5 DEF LoginIssued, BInv, TypeOK
    <2>5. /\ pc'[c] = "truncate" /\ waited'[c] = 0
          /\ Budget(c)' => \A d \in Callers : Budget(d)'
      BY <2>1, <2>3, <2>4, MoveKeepsBudget DEF Steps
    <2>6. LoadedInv(c)'
      BY <2>1, <2>2, <2>3, <2>4, <2>5, Numbers DEF LoadedInv, BInv
    <2> QED
      BY <2>5, <2>6 DEF Budget, MemoryInv, CarriedInv, InTime, InHttp
  <1>6. ASSUME NEW c \in Callers, SaveTruncates(c) \/ SaveWrites(c)
        PROVE  \A d \in Callers : Budget(d)'
    <2>1. UNCHANGED <<now, memory, expiry, loaded, carried, retried>>
      BY <1>6 DEF SaveTruncates, SaveWrites, serverVars, callVars
    <2>2. /\ loaded[c] # 0 /\ waited[c] <= LocalDelay /\ waited[c] \in Nat
          /\ now \in Nat /\ expiry[loaded[c]] \in Nat
      <3>1. pc[c] \in {"truncate", "write"}
        BY <1>6 DEF SaveTruncates, SaveWrites
      <3>2. loaded[c] \in 1 .. issued
        BY <3>1, Numbers DEF BInv, Budget, LoadedInv
      <3> QED
        BY <3>1, <3>2, Numbers DEF BInv, Budget, InTime
    <2>3. CASE SaveTruncates(c)
      <3>1. /\ pc'[c] = "write" /\ waited'[c] = 0
            /\ Budget(c)' => \A d \in Callers : Budget(d)'
        BY <2>1, <2>3, MoveKeepsBudget DEF SaveTruncates, Steps
      <3>2. expiry[loaded[c]] + waited[c] >= now + Lifetime
        BY <2>3 DEF SaveTruncates, BInv, Budget, LoadedInv
      <3>3. LoadedInv(c)'
        BY <2>1, <2>2, <3>1, <3>2 DEF LoadedInv
      <3> QED
        BY <3>1, <3>3 DEF Budget, MemoryInv, CarriedInv, InTime, InHttp
    <2>4. CASE SaveWrites(c)
      <3>1. /\ pc'[c] = "set" /\ waited'[c] = 0
            /\ Budget(c)' => \A d \in Callers : Budget(d)'
        BY <2>1, <2>4, MoveKeepsBudget DEF SaveWrites, Steps
      <3>2. expiry[loaded[c]] + waited[c] + LocalDelay >= now + Lifetime
        BY <2>4 DEF SaveWrites, BInv, Budget, LoadedInv
      <3>3. LoadedInv(c)'
        BY <2>1, <2>2, <3>1, <3>2 DEF LoadedInv
      <3> QED
        BY <3>1, <3>3 DEF Budget, MemoryInv, CarriedInv, InTime, InHttp
    <2> QED
      BY <1>6, <2>3, <2>4
  <1>7. ASSUME NEW c \in Callers, End(c), UNCHANGED <<now, expiry, memory>>
        PROVE  \A d \in Callers : Budget(d)'
    <2>1. \A d \in Callers \ {c} : /\ loaded'[d] = loaded[d]
                                   /\ carried'[d] = carried[d]
                                   /\ retried'[d] = retried[d]
      BY <1>7 DEF End, BInv, TypeOK
    <2> QED
      BY <1>7, <2>1, ResetKeepsBudget DEF End
  <1>8. ASSUME NEW c \in Callers,
               SaveFails(c) \/ AnswerOk(c) \/ AnswerError(c) \/ HttpTimesOut(c)
        PROVE  \A d \in Callers : Budget(d)'
    BY <1>7, <1>8 DEF SaveFails, OnSaveError, AnswerOk, AnswerError, HttpTimesOut,
       Finish, serverVars, sharedVars
  <1>9. ASSUME NEW c \in Callers, Send(c)
        PROVE  \A d \in Callers : Budget(d)'
    <2>1. /\ UNCHANGED <<now, expiry, memory, loaded, retried>>
          /\ Goto(c, "sent") /\ pc[c] = "send"
      BY <1>9 DEF Send, serverVars, sharedVars
    <2>2. carried'[c] = memory /\ \A d \in Callers \ {c} : carried'[d] = carried[d]
      BY <1>9 DEF Send, BInv, TypeOK
    <2>3. /\ pc'[c] = "sent" /\ waited'[c] = 0
          /\ Budget(c)' => \A d \in Callers : Budget(d)'
      BY <2>1, <2>2, MoveKeepsBudget DEF Steps, InHttp
    <2>4. RetryTime(c)' = RetryTime(c) /\ RetryTime(c) \in Nat
      BY <2>1 DEF RetryTime
    <2>5. CASE memory = 0
      BY <2>1, <2>2, <2>3, <2>5 DEF Budget, LoadedInv, MemoryInv, CarriedInv, InTime,
         InHttp
    <2>6. CASE memory # 0
      <3>1. expiry[memory] + waited[c] > now + LocalDelay + HttpTimeout + RetryTime(c)
        BY <2>1, <2>6 DEF BInv, Budget, MemoryInv
      <3>2. /\ waited[c] <= LocalDelay /\ waited[c] \in Nat /\ now \in Nat
            /\ expiry[memory] \in Nat
        <4>1. memory \in 1 .. issued
          BY <2>6, Numbers DEF BInv
        <4> QED
          BY <2>1, <4>1, Numbers DEF BInv, Budget, InTime
      <3>3. expiry[memory] > now + HttpTimeout + RetryTime(c)
        BY <3>1, <3>2, <2>4
      <3>4. MemoryInv(c)' /\ CarriedInv(c)'
        BY <2>1, <2>2, <2>3, <2>4, <3>2, <3>3 DEF MemoryInv, CarriedInv
      <3> QED
        BY <2>3, <3>4 DEF Budget, LoadedInv, InTime, InHttp
    <2> QED
      BY <2>5, <2>6
  <1>10. ASSUME NEW c \in Callers, AnswerUnauthorized(c)
         PROVE  \A d \in Callers : Budget(d)'
    <2>1. UNCHANGED <<now, expiry, memory>>
      BY <1>10 DEF AnswerUnauthorized, serverVars, sharedVars
    <2>2. CASE End(c)
      BY <1>7, <2>1, <2>2
    <2>3. CASE /\ Goto(c, "login") /\ retried' = [retried EXCEPT ![c] = TRUE]
               /\ UNCHANGED <<loaded, carried>>
      <3>1. \A d \in Callers \ {c} : retried'[d] = retried[d]
        BY <2>3 DEF BInv, TypeOK
      <3> QED
        BY <2>1, <2>3, <3>1, ResetKeepsBudget
    <2> QED
      BY <1>10, <2>2, <2>3 DEF AnswerUnauthorized, ReauthStep
  <1>11. ASSUME NEW c \in Callers, AnswerTooMany(c)
         PROVE  \A d \in Callers : Budget(d)'
    <2>1. UNCHANGED <<now, expiry, memory>>
      BY <1>11 DEF AnswerTooMany, serverVars, sharedVars
    <2>2. CASE Finish(c)
      BY <1>7, <2>1, <2>2 DEF Finish
    <2>3. CASE /\ ~retried[c] /\ retried' = [retried EXCEPT ![c] = TRUE]
               /\ Goto(c, "sleep") /\ UNCHANGED <<loaded, carried>>
      <3>1. retried'[c] /\ \A d \in Callers \ {c} : retried'[d] = retried[d]
        BY <2>3 DEF BInv, TypeOK
      <3>2. /\ pc'[c] = "sleep" /\ waited'[c] = 0
            /\ Budget(c)' => \A d \in Callers : Budget(d)'
        BY <2>1, <2>3, <3>1, MoveKeepsBudget DEF Steps
      <3>3. RetryTime(c) = RetrySleep + LocalDelay + HttpTimeout
        BY <2>3 DEF RetryTime
      <3>4. CASE memory = 0
        BY <2>1, <3>1, <3>2, <3>4 DEF Budget, LoadedInv, MemoryInv, CarriedInv, InTime,
           InHttp
      <3>5. CASE memory # 0
        <4>1. pc[c] = "sent"
          BY <1>11 DEF AnswerTooMany
        <4>2. expiry[memory] + waited[c] > now + HttpTimeout + RetryTime(c)
          BY <3>5, <4>1 DEF BInv, Budget, MemoryInv
        <4>3. /\ waited[c] <= HttpTimeout /\ waited[c] \in Nat /\ now \in Nat
              /\ expiry[memory] \in Nat
          <5>1. memory \in 1 .. issued
            BY <3>5, Numbers DEF BInv
          <5> QED
            BY <4>1, <5>1, Numbers DEF BInv, Budget, InTime, InHttp
        <4>4. expiry[memory] > now + RetrySleep + LocalDelay + HttpTimeout
          BY <3>3, <4>2, <4>3
        <4>5. MemoryInv(c)'
          BY <2>1, <3>2, <4>3, <4>4 DEF MemoryInv
        <4> QED
          BY <3>1, <3>2, <4>5 DEF Budget, LoadedInv, CarriedInv, InTime, InHttp
      <3> QED
        BY <3>4, <3>5
    <2> QED
      BY <1>11, <2>2, <2>3 DEF AnswerTooMany
  <1>12. ASSUME NEW c \in Callers, RetryAfterSleep(c)
         PROVE  \A d \in Callers : Budget(d)'
    <2>1. /\ UNCHANGED <<now, expiry, memory, loaded, carried, retried>>
          /\ Goto(c, "send") /\ pc[c] = "sleep"
      BY <1>12 DEF RetryAfterSleep, serverVars, sharedVars, callVars
    <2>2. /\ pc'[c] = "send" /\ waited'[c] = 0
          /\ Budget(c)' => \A d \in Callers : Budget(d)'
      BY <2>1, MoveKeepsBudget DEF Steps
    <2>3. RetryTime(c)' = 0
      <3>1. retried[c]
        BY <2>1 DEF BInv, Budget, InTime
      <3> QED
        BY <2>1, <3>1 DEF RetryTime
    <2>4. MemoryInv(c)'
      <3>1. CASE memory = 0
        BY <2>1, <3>1 DEF MemoryInv
      <3>2. CASE memory # 0
        <4>1. expiry[memory] + waited[c] > now + RetrySleep + LocalDelay + HttpTimeout
          BY <2>1, <3>2 DEF BInv, Budget, MemoryInv
        <4>2. /\ waited[c] <= RetrySleep /\ waited[c] \in Nat /\ now \in Nat
              /\ expiry[memory] \in Nat
          <5>1. memory \in 1 .. issued
            BY <3>2, Numbers DEF BInv
          <5> QED
            BY <2>1, <5>1, Numbers DEF BInv, Budget, InTime
        <4> QED
          BY <2>1, <2>2, <2>3, <4>1, <4>2 DEF MemoryInv
      <3> QED
        BY <3>1, <3>2
    <2> QED
      BY <2>2, <2>4 DEF Budget, LoadedInv, CarriedInv, InTime, InHttp
  <1>13. CASE Tick
    <2> SUFFICES ASSUME NEW d \in Callers PROVE Budget(d)'
      OBVIOUS
    <2>1. UNCHANGED <<expiry, memory, pc, loaded, carried, retried>>
      BY <1>13 DEF Tick, serverVars, sharedVars, callVars
    <2>2. CASE pc[d] = "idle"
      BY <2>1, <2>2, NoNeedNoBudget
    <2>3. CASE pc[d] # "idle"
      <3>1. waited'[d] = waited[d] + 1 /\ waited[d] < Limit(pc[d])
        BY <1>13, <2>3 DEF Tick
      <3>2. now' <= now + 1 /\ now' \in Nat
        <4>1. now \in Nat /\ MaxTime \in Nat
          BY Numbers, Bounds DEF BInv
        <4>2. now' = Least(now + 1, MaxTime)
          BY <1>13 DEF Tick
        <4> QED
          BY <4>1, <4>2 DEF Least
      <3>3. RetryTime(d)' = RetryTime(d) /\ RetryTime(d) \in Nat
        BY <2>1 DEF RetryTime
      <3>4. /\ now \in Nat /\ waited[d] \in Nat /\ issued \in Nat
            /\ memory \in 0 .. issued /\ loaded[d] \in 0 .. issued
            /\ carried[d] \in 0 .. issued
            /\ \A t \in 1 .. issued : expiry[t] \in Nat
        BY Numbers DEF BInv
      <3>5. Budget(d)
        BY DEF BInv
      <3>6. LoadedInv(d)'
        BY <2>1, <3>1, <3>2, <3>4, <3>5 DEF Budget, LoadedInv
      <3>7. MemoryInv(d)'
        BY <2>1, <3>1, <3>2, <3>3, <3>4, <3>5 DEF Budget, MemoryInv
      <3>8. CarriedInv(d)'
        BY <2>1, <3>1, <3>2, <3>4, <3>5 DEF Budget, CarriedInv
      <3>9. InTime(d)'
        BY <2>1, <3>1, <3>4, <3>5 DEF Budget, InTime, Limit, InHttp
      <3> QED
        BY <3>6, <3>7, <3>8, <3>9 DEF Budget
    <2> QED
      BY <2>2, <2>3
  <1>14. CASE Crash
    <2> SUFFICES ASSUME NEW d \in Callers PROVE Budget(d)'
      OBVIOUS
    <2>1. pc'[d] = "idle"
      BY <1>14 DEF Crash
    <2> QED
      BY <2>1, NoNeedNoBudget
  <1>15. CASE Revoke \/ UNCHANGED vars
    <2> SUFFICES ASSUME NEW d \in Callers PROVE Budget(d)'
      OBVIOUS
    <2>1. UNCHANGED <<now, expiry, memory, pc, waited, loaded, carried, retried>>
      BY <1>15 DEF Revoke, vars, serverVars, sharedVars, callVars
    <2> QED
      BY <2>1, OthersKeepBudget
  <1> QED
    BY <1>1, <1>2, <1>3, <1>4, <1>5, <1>6, <1>8, <1>9, <1>10, <1>11, <1>12, <1>13,
       <1>14, <1>15, <1>16 DEF Next, Progress, Answered

(* No request is under way with a token that expires before it lands, for  *)
(* any number of callers and whatever they write over each other, as long  *)
(* as the skew covers the longest call and the local clock's lag, and a    *)
(* fresh token outlives the call (auth.rs:82-86).                          *)
THEOREM SkewSuffices ==
  ASSUME SkewCoversCall
  PROVE  Spec => []UnexpiredInFlight
  <1>1. Init => BInv
    <2> SUFFICES ASSUME Init PROVE BInv
      OBVIOUS
    <2>1. \A c \in Callers : Budget(c)
      BY DEF Init, Budget, LoadedInv, MemoryInv, CarriedInv, InTime, InHttp
    <2> QED
      BY <2>1, InitTypes DEF BInv
  <1>2. BInv /\ [Next]_vars => BInv'
    <2> SUFFICES ASSUME BInv, [Next]_vars PROVE BInv'
      OBVIOUS
    <2>1. TypeOK'
      BY StepKeepsTypes DEF BInv
    <2>2. \A c \in Callers : Budget(c)'
      BY <2>1, StepKeepsBudget
    <2> QED
      BY <2>1, <2>2 DEF BInv
  <1>3. BInv => UnexpiredInFlight
    <2> SUFFICES ASSUME BInv, NEW c \in Callers, pc[c] = "sent", carried[c] # 0
                 PROVE  expiry[carried[c]] > now
      BY DEF UnexpiredInFlight
    <2>1. carried[c] \in 1 .. issued
      BY Numbers DEF BInv
    <2>2. /\ waited[c] \in Nat /\ now \in Nat /\ expiry[carried[c]] \in Nat
          /\ waited[c] <= HttpTimeout
      BY <2>1, Numbers DEF BInv, Budget, InTime, InHttp
    <2>3. expiry[carried[c]] + waited[c] > now + HttpTimeout
      BY DEF BInv, Budget, CarriedInv
    <2> QED
      BY <2>2, <2>3, Bounds
  <1> QED
    BY <1>1, <1>2, <1>3, PTL DEF Spec
===============================================================================
