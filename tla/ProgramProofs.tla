----------------------------- MODULE ProgramProofs -----------------------------
(***************************************************************************)
(* Proofs about Program, for all accounts, any number of monitors that     *)
(* follow each other on the status, and any number of readings.            *)
(***************************************************************************)
EXTENDS Program, TLAPS, WellFoundedInduction

(* The bounds are numbers.                                                 *)
LEMMA Bounds == MaxRebuilds \in Nat /\ MaxReadings \in Nat
  BY ProgramAssumption DEF ProgramAssumption

-------------------------------------------------------------------------------
(* The choice of a device.                                                 *)

(* A set of numbers that is not empty has a least element.                 *)
LEMMA LeastElement ==
  ASSUME NEW S \in SUBSET Nat, S # {}
  PROVE  \E i \in S : \A j \in S : i <= j
  <1> DEFINE R == OpToRel(<, Nat)
  <1>1. IsWellFoundedOn(R, Nat)
    BY NatLessThanWellFounded
  <1> HIDE DEF R
  <1>2. PICK i \in S : \A j \in S : ~ (<<j, i>> \in R)
    BY <1>1, WFMin
  <1>3. \A j \in S : ~ (j < i)
    BY <1>2 DEF R, OpToRel
  <1> QED
    BY <1>2, <1>3

(* find gives the index of an entry, or nothing.                           *)
LEMMA FindFinds ==
  ASSUME NEW data \in Accounts
  PROVE  FindC1000Gen2(data) \in 0 .. Len(data) /\ NoDevice \in 0 .. Len(data)
  <1> DEFINE found == {i \in Listed(data) : data[i].pn \in C1000_GEN2_PNS}
  <1>1. data \in Seq([pn : STRING, complete : BOOLEAN])
    BY ProgramAssumption DEF ProgramAssumption
  <1>2. Len(data) \in Nat /\ found \subseteq 1 .. Len(data)
    BY <1>1 DEF Listed
  <1>3. CASE found = {}
    BY <1>2, <1>3 DEF FindC1000Gen2, NoDevice
  <1>4. CASE found # {}
    <2>1. \E i \in found : \A j \in found : i <= j
      <3> HIDE DEF found
      <3>1. found \in SUBSET Nat
        BY <1>2
      <3> QED
        BY <3>1, <1>4, LeastElement
    <2>2. FindC1000Gen2(data) \in found
      BY <2>1, <1>4 DEF FindC1000Gen2
    <2> QED
      BY <2>2, <1>2 DEF NoDevice
  <1> QED
    BY <1>3, <1>4

-------------------------------------------------------------------------------
(* The strengthening.  While main runs it has no result, and no monitor    *)
(* before the poll loop; of the monitors there have been, all but the      *)
(* current one are aborted; what is in the status, its writer has received.*)

StartInv ==
  /\ stage # "exited" => result = "none"
  /\ stage \in {"login", "devices", "connect"} => current = 0
  /\ stage \in Polling => current # 0

OwnerInv ==
  \A m \in Monitors : /\ m < current => m \in aborted
                      /\ m > current => tasks[m] = "none"

RegisterInv ==
  /\ \A m \in Monitors : got[m] <= reading
  /\ writer = 0 => status = 0
  /\ writer # 0 => status <= got[writer] /\ writer <= current

IInv == TypeOK /\ StartInv /\ OwnerInv /\ RegisterInv

(* The strengthening holds at the start.                                   *)
LEMMA InitIInv == Init => IInv
  <1> SUFFICES ASSUME Init PROVE IInv
    OBVIOUS
  <1> USE Bounds DEF Bounds
  <1>1. TypeOK
    <2>1. 0 \in 0 .. Len(account)
      BY ProgramAssumption DEF Init, ProgramAssumption
    <2>2. timer \in BOOLEAN
      BY DEF Init
    <2> QED
      BY <2>1, <2>2 DEF Init, TypeOK, Results, Stages, Monitors, NoDevice, Polling
  <1>2. StartInv /\ OwnerInv /\ RegisterInv
    BY DEF Init, StartInv, OwnerInv, RegisterInv, Polling, Monitors
  <1> QED
    BY <1>1, <1>2 DEF IInv

(* Ending the program keeps the strengthening.                             *)
LEMMA ExitKeepsIInv ==
  ASSUME IInv, NEW how, Exit(how),
         how \in Results,
         account' = account, device' \in 0 .. Len(account), UNCHANGED <<reading, statusVars>>
  PROVE  IInv'
  <1> USE Bounds DEF Bounds, Exit, IInv, statusVars
  <1>1. TypeOK'
    BY DEF TypeOK, Stages, Polling, Monitors
  <1>2. StartInv' /\ OwnerInv' /\ RegisterInv'
    BY DEF TypeOK, StartInv, OwnerInv, RegisterInv, Polling, Monitors
  <1> QED
    BY <1>1, <1>2

(* Every step keeps it.                                                    *)
LEMMA StepKeepsIInv == IInv /\ [Next]_vars => IInv'
  <1> SUFFICES ASSUME IInv, [Next]_vars PROVE IInv'
    OBVIOUS
  <1> USE Bounds DEF Bounds
  <1> USE DEF IInv
  <1>1. CASE Login
    <2>1. CASE GoOn("devices")
      <3>1. TypeOK'
        BY <1>1, <2>1 DEF Login, GoOn, TypeOK, Stages, Polling, startVars,
           monitorVars, statusVars
      <3> QED
        BY <1>1, <2>1, <3>1 DEF Login, GoOn, StartInv, OwnerInv, RegisterInv, Polling,
           monitorVars, statusVars
    <2>2. CASE Exit("error")
      BY <1>1, <2>2, ExitKeepsIInv DEF Login, TypeOK, Results, startVars
    <2> QED
      BY <1>1, <2>1, <2>2 DEF Login
  <1>2. CASE ListDevices
    <2>1. CASE Exit("error") /\ UNCHANGED device
      BY <1>2, <2>1, ExitKeepsIInv DEF ListDevices, TypeOK, Results
    <2>2. CASE /\ device' \in {FindC1000Gen2(account), NoDevice}
               /\ IF device' = NoDevice THEN Exit("no device") ELSE GoOn("connect")
      <3>1. device' \in 0 .. Len(account)
        BY <2>2, FindFinds DEF TypeOK
      <3>2. CASE Exit("no device")
        BY <1>2, <3>1, <3>2, ExitKeepsIInv DEF ListDevices, Results
      <3>3. CASE GoOn("connect")
        <4>1. UNCHANGED <<account, reading, statusVars>>
          BY <1>2 DEF ListDevices
        <4>2. TypeOK'
          BY <3>1, <3>3, <4>1 DEF GoOn, TypeOK, Stages, monitorVars, statusVars
        <4> QED
          BY <1>2, <3>3, <4>1, <4>2 DEF ListDevices, GoOn, StartInv, OwnerInv,
             RegisterInv, Polling, monitorVars, statusVars
      <3> QED
        BY <2>2, <3>2, <3>3
    <2> QED
      BY <1>2, <2>1, <2>2 DEF ListDevices
  <1>3. CASE Connect
    <2>1. CASE Exit("error")
      BY <1>3, <2>1, ExitKeepsIInv DEF Connect, TypeOK, Results, startVars
    <2>2. CASE /\ stage' = "select" /\ timer' = FALSE
               /\ current' = 1 /\ tasks' = [tasks EXCEPT ![1] = "poll"]
               /\ UNCHANGED <<result, shown, signal, aborted, got>>
      <3>1. timer' \in BOOLEAN
        BY <2>2
      <3>2. current = 0 /\ 1 \in Monitors
        BY <1>3 DEF Connect, StartInv, Monitors
      <3>3. TypeOK'
        BY <1>3, <2>2, <3>1, <3>2 DEF Connect, TypeOK, Stages, Polling, Monitors,
           OwnerInv, startVars, statusVars
      <3>4. StartInv' /\ OwnerInv' /\ RegisterInv'
        BY <1>3, <2>2, <3>2 DEF Connect, TypeOK, StartInv, OwnerInv, RegisterInv, Polling,
           Monitors, startVars, statusVars
      <3> QED
        BY <3>3, <3>4
    <2> QED
      BY <1>3, <2>1, <2>2 DEF Connect
  <1>4. CASE TimerElapses \/ SelectSleep \/ ReadStatus \/ PrintReport
    <2>1. timer' \in BOOLEAN
      BY <1>4 DEF TimerElapses, SelectSleep, ReadStatus, PrintReport, TypeOK
    <2>2. signal' \in {"none", "raised", "heard"}
      BY <1>4 DEF TimerElapses, SelectSleep, ReadStatus, PrintReport, TypeOK
    <2>3. TypeOK'
      BY <1>4, <2>1, <2>2 DEF TimerElapses, SelectSleep, ReadStatus, PrintReport,
         TypeOK, Stages, Polling, startVars, monitorVars, statusVars
    <2>4. StartInv' /\ OwnerInv' /\ RegisterInv'
      BY <1>4 DEF TimerElapses, SelectSleep, ReadStatus, PrintReport, StartInv,
         OwnerInv, RegisterInv, Polling, monitorVars, statusVars
    <2> QED
      BY <2>3, <2>4
  <1>5. CASE SelectCtrlC
    BY <1>5, ExitKeepsIInv DEF SelectCtrlC, AfterCtrlC, TypeOK, Results, startVars
  <1>6. CASE PressCtrlC
    <2>1. CASE Exit("killed")
      BY <1>6, <2>1, ExitKeepsIInv DEF PressCtrlC, TypeOK, Results, startVars
    <2>2. CASE signal' = "raised" /\ UNCHANGED <<mainVars, monitorVars>>
      <3>1. TypeOK'
        BY <1>6, <2>2 DEF PressCtrlC, TypeOK, startVars, mainVars, monitorVars,
           statusVars
      <3> QED
        BY <1>6, <2>2, <3>1 DEF PressCtrlC, StartInv, OwnerInv, RegisterInv,
           mainVars, monitorVars, statusVars
    <2> QED
      BY <1>6, <2>1, <2>2 DEF PressCtrlC
  <1>7. CASE TellListener
    <2>1. TypeOK'
      BY <1>7 DEF TellListener, TypeOK, startVars, mainVars, monitorVars, statusVars
    <2> QED
      BY <1>7, <2>1 DEF TellListener, StartInv, OwnerInv, RegisterInv, mainVars,
         monitorVars, statusVars
  <1>8. CASE DeviceEmits
    <2>1. TypeOK'
      BY <1>8 DEF DeviceEmits, TypeOK, startVars, mainVars, monitorVars, statusVars
    <2> QED
      BY <1>8, <2>1 DEF DeviceEmits, TypeOK, StartInv, OwnerInv, RegisterInv,
         mainVars, monitorVars, statusVars
  <1>9. CASE Rebuild
    <2>1. current + 1 \in Monitors /\ current + 1 > current
      BY <1>9 DEF Rebuild, TypeOK, Monitors
    <2>2. current \in Monitors
      BY <1>9 DEF Rebuild, StartInv, TypeOK, Monitors
    <2>3. TypeOK'
      BY <1>9, <2>1, <2>2 DEF Rebuild, HandleAborted, TypeOK, Monitors, startVars,
         mainVars, statusVars
    <2>4. StartInv' /\ OwnerInv' /\ RegisterInv'
      BY <1>9, <2>1 DEF Rebuild, HandleAborted, TypeOK, StartInv, OwnerInv,
         RegisterInv, Monitors, Polling, startVars, mainVars, statusVars
    <2> QED
      BY <2>3, <2>4
  <1>10. ASSUME NEW m \in Monitors, MonitorReceives(m)
         PROVE  IInv'
    <2>1. PICK r \in got[m] + 1 .. reading : got' = [got EXCEPT ![m] = r]
      BY <1>10 DEF MonitorReceives
    <2>2. r \in 0 .. MaxReadings /\ r > got[m] /\ r <= reading
      BY <2>1 DEF TypeOK
    <2>3. TypeOK'
      BY <1>10, <2>1, <2>2 DEF MonitorReceives, TypeOK, startVars, mainVars, statusVars
    <2>4. StartInv' /\ OwnerInv' /\ RegisterInv'
      BY <1>10, <2>1, <2>2 DEF MonitorReceives, TypeOK, StartInv, OwnerInv,
         RegisterInv, startVars, mainVars, statusVars
    <2> QED
      BY <2>3, <2>4
  <1>11. ASSUME NEW m \in Monitors, MonitorWrites(m)
         PROVE  IInv'
    <2>1. status' = got[m] /\ got[m] \in 0 .. reading /\ m # 0 /\ m <= current
      BY <1>11 DEF MonitorWrites, StatusWritten, TypeOK, OwnerInv, RegisterInv, Monitors
    <2>2. TypeOK'
      BY <1>11, <2>1 DEF MonitorWrites, LockAfterWrite, TypeOK, startVars, mainVars
    <2>3. StartInv' /\ OwnerInv' /\ RegisterInv'
      BY <1>11, <2>1 DEF MonitorWrites, TypeOK, StartInv, OwnerInv, RegisterInv,
         startVars, mainVars
    <2> QED
      BY <2>2, <2>3
  <1>12. ASSUME NEW m \in Monitors, AbortLands(m)
         PROVE  IInv'
    <2>1. TypeOK'
      BY <1>12 DEF AbortLands, TypeOK, startVars, mainVars, statusVars
    <2> QED
      BY <1>12, <2>1 DEF AbortLands, TypeOK, StartInv, OwnerInv, RegisterInv,
         startVars, mainVars, statusVars
  <1>13. CASE UNCHANGED vars
    <2>1. TypeOK'
      BY <1>13 DEF vars, TypeOK, startVars, mainVars, monitorVars, statusVars
    <2> QED
      BY <1>13, <2>1 DEF vars, StartInv, OwnerInv, RegisterInv, startVars, mainVars,
         monitorVars, statusVars
  <1> QED
    BY <1>1, <1>2, <1>3, <1>4, <1>5, <1>6, <1>7, <1>8, <1>9, <1>10, <1>11, <1>12,
       <1>13 DEF Next, Start, PollLoop, Monitor

(* The strengthening holds throughout.                                     *)
LEMMA AlwaysIInv == Spec => []IInv
  BY InitIInv, StepKeepsIInv, PTL DEF Spec

-------------------------------------------------------------------------------
(* Type correctness; a monitor at work is the owner's or aborted, by the   *)
(* rule of the owner as it is modelled.                                    *)
THEOREM ProgramTypeCorrect == Spec => []TypeOK
  <1>1. IInv => TypeOK
    BY DEF IInv
  <1> QED
    BY <1>1, AlwaysIInv, PTL

(* Without an aborted monitor taking part the status never goes back, how- *)
(* ever many monitors have followed each other on it (mod.rs:139-152).     *)
THEOREM StatusSetBackOnlyByAborted == Spec => SetBackOnlyByAborted
  <1>1. IInv /\ [Next]_vars
          => [status' < status => aborted \cap {writer, writer'} # {}]_vars
    <2> SUFFICES ASSUME IInv, Next, status' < status
                 PROVE  aborted \cap {writer, writer'} # {}
      BY DEF vars
    <2> USE Bounds DEF Bounds, IInv
    <2>1. PICK m \in Monitors : MonitorWrites(m)
      <3>1. status \in Nat /\ ~(status < status)
        BY DEF TypeOK
      <3> QED
        BY <3>1 DEF Next, Start, PollLoop, Monitor, Login, ListDevices, Connect,
           TimerElapses, SelectSleep, ReadStatus, PrintReport, SelectCtrlC,
           PressCtrlC, TellListener, DeviceEmits, Rebuild, MonitorReceives,
           AbortLands, statusVars
    <2>2. got[m] < status /\ writer' = m /\ m <= current
      BY <2>1 DEF MonitorWrites, StatusWritten, TypeOK, OwnerInv, Monitors
    <2>3. writer # 0 /\ writer \in Monitors /\ status <= got[writer] /\ m # writer
      BY <2>2, Bounds DEF Bounds, TypeOK, RegisterInv, Monitors
    <2>4. CASE writer < current
      BY <2>3, <2>4 DEF OwnerInv
    <2>5. CASE writer = current
      BY <2>2, <2>3, <2>5 DEF OwnerInv, Monitors
    <2> QED
      BY <2>3, <2>4, <2>5, Bounds DEF Bounds, TypeOK, RegisterInv, Monitors
  <1> QED
    BY <1>1, AlwaysIInv, PTL DEF Spec, SetBackOnlyByAborted
===============================================================================
