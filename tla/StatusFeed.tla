------------------------------ MODULE StatusFeed ------------------------------
(***************************************************************************)
(* What spawn_monitor promises to whoever reads the shared status: a       *)
(* register that always holds a reading the device really emitted, and     *)
(* that only ever moves forward.  Readings may be skipped (QoS 0, lost     *)
(* connections, a full broker queue), but none is shown before it was      *)
(* emitted and an older one never replaces a newer one.  Reading 0 is      *)
(* C1000Gen2Status::default(), the value before the first message.         *)
(***************************************************************************)
EXTENDS Naturals

VARIABLES emitted,  \* how many readings the device has emitted
          latest    \* the reading the register holds

Init == emitted = 0 /\ latest = 0

Emit == emitted' = emitted + 1 /\ UNCHANGED latest

Show == /\ latest' \in (latest + 1) .. emitted
        /\ UNCHANGED emitted

Next == Emit \/ Show

Spec == Init /\ [][Next]_<<emitted, latest>>
===============================================================================
