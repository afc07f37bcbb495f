----------------------------- MODULE KeepaliveTimer -----------------------------
(***************************************************************************)
(* The clock of the realtime window.  A trigger keeps the device streaming *)
(* for timeout_secs; the keepalive of spawn_monitor resends it every       *)
(* timeout_secs - 5 seconds, never more often than once a second, and each *)
(* CONNACK re-arms it.  Time is counted in seconds.  What Monitor says of  *)
(* the request channel is summed up here in two delays: how late the       *)
(* keepalive may run after its sleep is over, and how long a request may   *)
(* take from the task that queues it to the device.                        *)
(***************************************************************************)
EXTENDS Naturals

CONSTANTS
  Timeout,     \* timeout_secs
  MaxLate,     \* bound on the keepalive's lateness (scheduling, full channel)
  MaxLatency   \* bound on the way of a trigger to the device

IntervalIsFull == Timeout                  \* variant: no margin

(* The sleep between two triggers: timeout_secs.saturating_sub(5).max(1).  *)
Interval == IF Timeout > 6 THEN Timeout - 5 ELSE 1

(* How much earlier than the end of the window the code resends.           *)
Margin == IF Timeout > 5 THEN 5 ELSE Timeout - 1

ASSUME TimerAssumption ==
  /\ Timeout \in Nat /\ Timeout >= 2
  /\ MaxLate \in Nat /\ MaxLatency \in Nat
  /\ MaxLate + MaxLatency < Margin

VARIABLES
  up,       \* there is a connection
  upFor,    \* seconds since its CONNACK, counted to MaxLatency + 1
  timer,    \* seconds since the keepalive last published
  window,   \* seconds the device will still stream
  flight    \* ages of the triggers on their way to the device

vars == <<up, upFor, timer, window, flight>>

Init == /\ up = FALSE /\ upFor = 0
        /\ timer = 0 /\ window = 0 /\ flight = {}

(* A second passes, unless something is due.                               *)
Tick ==
  /\ timer < Interval + MaxLate
  /\ \A age \in flight : age < MaxLatency
  /\ timer' = timer + 1
  /\ window' = IF window > 0 THEN window - 1 ELSE 0
  /\ flight' = {age + 1 : age \in flight}
  /\ upFor' = IF up /\ upFor <= MaxLatency THEN upFor + 1 ELSE upFor
  /\ UNCHANGED up

(* The keepalive's sleep is over.  Without a connection its trigger waits  *)
(* in the channel until the CONNACK, which queues another one behind it:   *)
(* only that one is followed.  (A keepalive the full channel held during a *)
(* long outage publishes when the channel drains: a step at the CONNACK.)  *)
KeepalivePublish ==
  /\ timer >= Interval
  /\ timer' = 0
  /\ flight' = IF up THEN flight \cup {0} ELSE flight
  /\ UNCHANGED <<up, upFor, window>>

RearmedFlight == {0}

(* The CONNACK arm re-arms at once; the keepalive's timer runs on.         *)
ConnAck ==
  /\ ~up
  /\ up' = TRUE /\ upFor' = 0
  /\ flight' = RearmedFlight
  /\ UNCHANGED <<timer, window>>

SessionKept     == flight                  \* variant: no clean session
FlightAfterLoss == {}

(* The connection breaks, and what was on its way goes with it.            *)
ConnLost ==
  /\ up
  /\ up' = FALSE /\ upFor' = 0
  /\ flight' = FlightAfterLoss
  /\ UNCHANGED <<timer, window>>

(* A trigger reaches the device, in any order.                             *)
TriggerArrives ==
  /\ up
  /\ \E age \in flight : flight' = flight \ {age}
  /\ window' = Timeout
  /\ UNCHANGED <<up, upFor, timer>>

Next == Tick \/ KeepalivePublish \/ ConnAck \/ ConnLost \/ TriggerArrives

Spec == Init /\ [][Next]_vars

(* The types of the variables; nothing is under way without a connection.  *)
TypeOK ==
  /\ up \in BOOLEAN /\ upFor \in 0 .. MaxLatency + 1
  /\ timer \in 0 .. Interval + MaxLate
  /\ window \in 0 .. Timeout
  /\ flight \subseteq 0 .. MaxLatency
  /\ ~up => flight = {} /\ upFor = 0

(* The device never stops streaming while a connection lasts (mod.rs:      *)
(* 156-158, 208-211): from one trigger latency after the CONNACK on, the   *)
(* realtime window is open, whatever the timeout, as long as lateness and  *)
(* latency together stay below the margin the code leaves.                 *)
StreamNeverLapses == up /\ upFor > MaxLatency => window > 0
===============================================================================
