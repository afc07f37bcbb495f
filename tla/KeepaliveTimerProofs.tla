-------------------------- MODULE KeepaliveTimerProofs --------------------------
(***************************************************************************)
(* The realtime window never lapses, for every timeout of at least two     *)
(* seconds and every lateness and latency within the margin.               *)
(***************************************************************************)
EXTENDS KeepaliveTimer, TLAPS

(* The margin is what the sleep leaves of the timeout.                     *)
LEMMA SleepPlusMargin ==
  /\ Interval \in Nat /\ Interval >= 1
  /\ Interval + MaxLate + MaxLatency < Timeout
  BY TimerAssumption DEF TimerAssumption, Interval, Margin

(* A trigger on its way makes sure of the window if it was sent on this    *)
(* connection's CONNACK or will arrive before the window closes.           *)
Covers(age) == upFor <= age \/ window > MaxLatency - age

(* StreamNeverLapses is not inductive: the window must outlast not only    *)
(* the moment but the rest of the keepalive's sleep, its lateness and the  *)
(* way of the next trigger, or a trigger that covers it is on its way.     *)
WindowInv ==
  up => \/ flight = {} /\ window > (Interval + MaxLate - timer) + MaxLatency
        \/ \E age \in flight : Covers(age)

(* Every step keeps the types.                                             *)
LEMMA TimerTypeStep == TypeOK /\ [Next]_vars => TypeOK'
  <1> SUFFICES ASSUME TypeOK, [Next]_vars
               PROVE  TypeOK'
    OBVIOUS
  <1> USE TimerAssumption, SleepPlusMargin DEF TimerAssumption, TypeOK
  <1>1. CASE Tick
    <2>1. flight' \subseteq 0 .. MaxLatency
      BY <1>1 DEF Tick
    <2>2. upFor' \in 0 .. MaxLatency + 1 /\ up' \in BOOLEAN
      BY <1>1 DEF Tick
    <2>3. timer' \in 0 .. Interval + MaxLate /\ window' \in 0 .. Timeout
      BY <1>1 DEF Tick
    <2>4. ASSUME ~up'
          PROVE  flight' = {} /\ upFor' = 0
      <3>1. ~up /\ flight = {} /\ upFor = 0
        BY <1>1, <2>4 DEF Tick
      <3> QED
        BY <1>1, <3>1 DEF Tick
    <2> QED
      BY <2>1, <2>2, <2>3, <2>4
  <1>2. CASE KeepalivePublish
    BY <1>2 DEF KeepalivePublish
  <1>3. CASE ConnAck
    BY <1>3 DEF ConnAck, RearmedFlight
  <1>4. CASE ConnLost
    <2>1. up' \in BOOLEAN /\ flight' = {} /\ flight' \subseteq 0 .. MaxLatency
      BY <1>4 DEF ConnLost, FlightAfterLoss
    <2>2. upFor' = 0 /\ upFor' \in 0 .. MaxLatency + 1
      BY <1>4 DEF ConnLost
    <2> QED
      BY <1>4, <2>1, <2>2 DEF ConnLost
  <1>5. CASE TriggerArrives
    <2>1. flight' \subseteq flight /\ window' \in 0 .. Timeout /\ up'
      BY <1>5 DEF TriggerArrives
    <2> QED
      BY <1>5, <2>1 DEF TriggerArrives
  <1>6. CASE UNCHANGED vars
    BY <1>6 DEF vars
  <1> QED
    BY <1>1, <1>2, <1>3, <1>4, <1>5, <1>6 DEF Next

(* The timer never runs past its sleep and its lateness, and nothing is    *)
(* under way without a connection.                                         *)
THEOREM TimerTypeCorrect == Spec => []TypeOK
  <1>1. Init => TypeOK
    <2> SUFFICES ASSUME Init
                 PROVE  TypeOK
      OBVIOUS
    <2>1. up \in BOOLEAN /\ flight = {} /\ flight \subseteq 0 .. MaxLatency
      BY DEF Init
    <2>2. /\ upFor = 0 /\ upFor \in 0 .. MaxLatency + 1 /\ window \in 0 .. Timeout
          /\ timer \in 0 .. Interval + MaxLate
      BY TimerAssumption, SleepPlusMargin DEF TimerAssumption, Init
    <2> QED
      BY <2>1, <2>2 DEF TypeOK
  <1> QED
    BY <1>1, TimerTypeStep, PTL DEF Spec

(* Every step keeps the window covered.                                    *)
LEMMA WindowStep == TypeOK /\ WindowInv /\ [Next]_vars => WindowInv'
  <1> SUFFICES ASSUME TypeOK, WindowInv, [Next]_vars, up'
               PROVE  WindowInv'
    BY DEF WindowInv
  <1> USE TimerAssumption, SleepPlusMargin
      DEF TimerAssumption, TypeOK, WindowInv, Covers
  <1>1. CASE Tick
    <2>1. up /\ timer < Interval + MaxLate
      BY <1>1 DEF Tick
    <2>2. CASE flight = {} /\ window > (Interval + MaxLate - timer) + MaxLatency
      <3>1. flight' = {} /\ window' = window - 1 /\ timer' = timer + 1
        BY <1>1, <2>1, <2>2 DEF Tick
      <3> QED
        BY <2>1, <2>2, <3>1
    <2>3. CASE \E age \in flight : Covers(age)
      <3>1. PICK age \in flight : Covers(age)
        BY <2>3
      <3>2. age \in Nat /\ age < MaxLatency /\ age + 1 \in flight'
        BY <1>1, <3>1 DEF Tick
      <3>3. CASE upFor <= age
        <4>1. upFor' <= age + 1
          BY <1>1, <2>1, <3>2, <3>3 DEF Tick
        <4> QED
          BY <3>2, <4>1
      <3>4. CASE window > MaxLatency - age
        <4>1. window' > MaxLatency - (age + 1)
          BY <1>1, <3>2, <3>4 DEF Tick
        <4> QED
          BY <3>2, <4>1
      <3> QED
        BY <3>1, <3>3, <3>4
    <2> QED
      BY <2>1, <2>2, <2>3
  <1>2. CASE KeepalivePublish
    <2>1. up /\ flight' = flight \cup {0} /\ UNCHANGED <<upFor, window>>
      BY <1>2 DEF KeepalivePublish
    <2>2. CASE flight = {} /\ window > (Interval + MaxLate - timer) + MaxLatency
      BY <2>1, <2>2
    <2>3. CASE \E age \in flight : Covers(age)
      BY <2>1, <2>3
    <2> QED
      BY <2>1, <2>2, <2>3
  <1>3. CASE ConnAck
    BY <1>3 DEF ConnAck, RearmedFlight
  <1>4. CASE ConnLost
    BY <1>4 DEF ConnLost
  <1>5. CASE TriggerArrives
    <2>1. window' = Timeout /\ UNCHANGED <<up, upFor, timer>>
      BY <1>5 DEF TriggerArrives
    <2>2. flight' \subseteq 0 .. MaxLatency
      BY <1>5 DEF TriggerArrives
    <2>3. CASE flight' = {}
      BY <2>1, <2>3
    <2>4. CASE flight' # {}
      <3>1. PICK age \in flight' : age \in 0 .. MaxLatency
        BY <2>2, <2>4
      <3>2. window' > MaxLatency - age
        BY <2>1, <3>1
      <3> QED
        BY <3>1, <3>2
    <2> QED
      BY <2>3, <2>4
  <1>6. CASE UNCHANGED vars
    BY <1>6 DEF vars
  <1> QED
    BY <1>1, <1>2, <1>3, <1>4, <1>5, <1>6 DEF Next

(* For every timeout of two seconds or more: from one trigger latency      *)
(* after the CONNACK until the connection is lost, the device streams.     *)
THEOREM StreamStaysOpen == Spec => []StreamNeverLapses
  <1>1. Init => WindowInv
    BY DEF Init, WindowInv
  <1>2. TypeOK /\ WindowInv => StreamNeverLapses
    BY TimerAssumption, SleepPlusMargin
    DEF TimerAssumption, TypeOK, WindowInv, Covers, StreamNeverLapses
  <1> QED
    BY TimerTypeCorrect, WindowStep, <1>1, <1>2, PTL DEF Spec
===============================================================================
