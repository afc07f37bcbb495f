-------------------------------- MODULE Program --------------------------------
(***************************************************************************)
(* The command line program of src/main.rs over the parts it puts          *)
(* together: a session whose calls return (Session), the list of devices,  *)
(* the connection, the monitor writing the shared status (StatusFeed), and *)
(* the poll loop that prints it until a Ctrl+C.                            *)
(*                                                                         *)
(* The library is made for another owner too, the "long-running daemon" of *)
(* its comments, which aborts its monitor and spawns a new one on the same *)
(* status: MaxRebuilds is 0 for main and more for such an owner.  abort()  *)
(* ends a task only when it next waits, so for a while both are there.     *)
(*                                                                         *)
(* A reading is its position in the stream the device emits, 0 for none.   *)
(***************************************************************************)
EXTENDS Naturals, Sequences

CONSTANTS
  Accounts,     \* the accounts: sequences of [pn, complete], in the answer's order
  MaxRebuilds,  \* bound: monitors the owner replaces
  MaxReadings   \* bound: readings the device emits

ASSUME ProgramAssumption ==
  /\ \A account \in Accounts : account \in Seq([pn : STRING, complete : BOOLEAN])
  /\ MaxRebuilds \in Nat /\ MaxReadings \in Nat

Monitors == 1 .. MaxRebuilds + 1
NoDevice == 0

(* How main ends; every AnkerError comes out of a `?` and ends it alike.   *)
Results == {"none", "no device", "error", "stopped", "killed"}

VARIABLES
  account,   \* the devices bound to the account
  device,    \* the index of the device chosen from the account, or NoDevice
  stage,     \* where main is
  result,    \* how it ended: an error, a return, or killed by the signal
  timer,     \* the sleep of the select! has elapsed
  signal,    \* a SIGINT: taken by tokio's handler, then told to the listener
  current,   \* the monitor whose JoinHandle the owner holds, 0 for none
  aborted,   \* monitors whose handle the owner aborted
  tasks,     \* where each monitor is
  reading,   \* the last reading the device emitted
  got,       \* the last reading each monitor received
  status,    \* the reading in the shared status
  writer,    \* the monitor that wrote it, 0 for none (history)
  lock,      \* the guard there is on the status: "free", "read" or "write"
  shown      \* the last reading printed

startVars   == <<account, device>>
mainVars    == <<stage, result, timer, shown>>
monitorVars == <<current, aborted, tasks, got>>
statusVars  == <<status, writer, lock>>
vars == <<startVars, mainVars, signal, monitorVars, reading, statusVars>>

Polling == {"select", "wait", "print"}
Stages  == {"login", "devices", "connect", "exited"} \cup Polling

Init ==
  /\ account \in Accounts /\ device = NoDevice
  /\ stage = "login" /\ result = "none" /\ timer = FALSE /\ shown = 0
  /\ signal = "none"
  /\ current = 0 /\ aborted = {} /\ reading = 0
  /\ tasks = [m \in Monitors |-> "none"] /\ got = [m \in Monitors |-> 0]
  /\ status = 0 /\ writer = 0 /\ lock = "free"

(* main returns, or its `?` does: the runtime drops every task.            *)
Exit(how) ==
  /\ stage' = "exited" /\ result' = how
  /\ tasks' = [m \in Monitors |-> IF tasks[m] = "none" THEN "none" ELSE "gone"]
  /\ signal' = "none"
  /\ UNCHANGED <<timer, shown, current, aborted, got>>

GoOn(next) == /\ stage' = next
              /\ UNCHANGED <<result, timer, shown, signal, monitorVars>>

-------------------------------------------------------------------------------
(* The start.                                                              *)

Login ==
  /\ stage = "login"
  /\ \/ GoOn("devices")
     \/ Exit("error")
  /\ UNCHANGED <<startVars, reading, statusVars>>

C1000_GEN2_PNS == {"A1763", "A1765", "AS100"}

(* The entries that parse as a Device; the others are dropped.             *)
Listed(data) == {i \in DOMAIN data : data[i].complete}

(* find: the first of them with a product number of the family.            *)
FindC1000Gen2(data) ==
  LET found == {i \in Listed(data) : data[i].pn \in C1000_GEN2_PNS}
  IN  IF found = {} THEN NoDevice ELSE CHOOSE i \in found : \A j \in found : i <= j

(* list_devices and find_c1000_gen2.  check_api_code lets an answer pass   *)
(* that has no code; without data it is Null, and Null is an empty list,   *)
(* in which find finds nothing.                                            *)
ListDevices ==
  /\ stage = "devices"
  /\ \/ Exit("error") /\ UNCHANGED device
     \/ /\ device' \in {FindC1000Gen2(account), NoDevice}
        /\ IF device' = NoDevice THEN Exit("no device") ELSE GoOn("connect")
  /\ UNCHANGED <<account, reading, statusVars>>

(* mqtt_connect, in which a Null answer is a Json error, and spawn_monitor *)
(* on the default status.  The client connects only once it is polled.     *)
Connect ==
  /\ stage = "connect"
  /\ \/ Exit("error")
     \/ /\ stage' = "select" /\ timer' = FALSE
        /\ current' = 1 /\ tasks' = [tasks EXCEPT ![1] = "poll"]
        /\ UNCHANGED <<result, shown, signal, aborted, got>>
  /\ UNCHANGED <<startVars, reading, statusVars>>

-------------------------------------------------------------------------------
(* The poll loop.                                                          *)

TimerElapses ==
  /\ stage = "select" /\ ~timer
  /\ timer' = TRUE
  /\ UNCHANGED <<startVars, stage, result, shown, signal, monitorVars, reading,
                 statusVars>>

(* The select! takes the branch of the sleep, and drops the listener of    *)
(* the other branch with what it may have been told.                       *)
SelectSleep ==
  /\ stage = "select" /\ timer
  /\ stage' = "wait" /\ timer' = FALSE
  /\ signal' = IF signal = "heard" THEN "none" ELSE signal
  /\ UNCHANGED <<startVars, result, shown, monitorVars, reading, statusVars>>

ReadStatus ==
  /\ stage = "wait" /\ lock = "free"
  /\ stage' = "print" /\ lock' = "read"
  /\ UNCHANGED <<startVars, result, timer, shown, signal, monitorVars, reading,
                 status, writer>>

(* The guard lives to the end of the branch.                               *)
PrintReport ==
  /\ stage = "print"
  /\ shown' = status
  /\ stage' = "select" /\ lock' = "free"
  /\ UNCHANGED <<startVars, result, timer, signal, monitorVars, reading, status,
                 writer>>

LoopsOn ==                                 \* variant: no break
  /\ signal' = "none" /\ timer' = FALSE
  /\ UNCHANGED <<stage, result, shown, monitorVars>>
AfterCtrlC == Exit("stopped")

SelectCtrlC ==
  /\ stage = "select" /\ signal = "heard"
  /\ AfterCtrlC
  /\ UNCHANGED <<startVars, reading, statusVars>>

(* SIGINT kills the process until ctrl_c() is polled for the first time;   *)
(* from then on tokio's handler takes it, for good.                        *)
PressCtrlC ==
  /\ \/ /\ stage \notin Polling \cup {"exited"}
        /\ Exit("killed")
     \/ /\ stage \in Polling /\ signal = "none"
        /\ signal' = "raised"
        /\ UNCHANGED <<mainVars, monitorVars>>
  /\ UNCHANGED <<startVars, reading, statusVars>>

(* The runtime tells the listener there is, the one of a select! that      *)
(* waits; one made later is not told.                                      *)
TellListener ==
  /\ signal = "raised"
  /\ signal' = IF stage = "select" THEN "heard" ELSE "none"
  /\ UNCHANGED <<startVars, mainVars, monitorVars, reading, statusVars>>

-------------------------------------------------------------------------------
(* The monitors.  Each has its own connection, and gets its messages in    *)
(* the order they were emitted.                                            *)

DeviceEmits ==
  /\ reading < MaxReadings /\ stage # "exited"
  /\ reading' = reading + 1
  /\ UNCHANGED <<startVars, mainVars, signal, monitorVars, statusVars>>

(* poll() returns a message that decodes.  An aborted monitor that finds   *)
(* one there already does not have to wait for it, and takes it too.       *)
MonitorReceives(m) ==
  /\ tasks[m] = "poll" /\ got[m] < reading
  /\ \E r \in got[m] + 1 .. reading : got' = [got EXCEPT ![m] = r]
  /\ tasks' = [tasks EXCEPT ![m] = "write"]
  /\ UNCHANGED <<startVars, mainVars, signal, current, aborted, reading, statusVars>>

StatusOfItsOwn(m) == status                \* variant: a copy, not the Arc
StatusWritten(m)  == got[m]

GuardBound(m)     == "write"               \* variant: the guard outlives the write
LockAfterWrite(m) == "free"

MonitorWrites(m) ==
  /\ tasks[m] = "write" /\ lock = "free"
  /\ status' = StatusWritten(m) /\ writer' = m
  /\ lock' = LockAfterWrite(m)
  /\ tasks' = [tasks EXCEPT ![m] = "poll"]
  /\ UNCHANGED <<startVars, mainVars, signal, current, aborted, got, reading>>

(* The abort ends the task when it waits: for a message or for the lock.   *)
AbortLands(m) ==
  /\ m \in aborted /\ tasks[m] \in {"poll", "write"}
  /\ tasks' = [tasks EXCEPT ![m] = "gone"]
  /\ UNCHANGED <<startVars, mainVars, signal, current, aborted, got, reading,
                 statusVars>>

HandleDropped == aborted                   \* variant: dropped, which detaches
HandleAborted == aborted \cup {current}

(* An owner outside src/ gives up its monitor and spawns another on the    *)
(* same status.  That it aborts the one it gives up is assumed.            *)
Rebuild ==
  /\ stage \in Polling /\ current <= MaxRebuilds
  /\ aborted' = HandleAborted
  /\ current' = current + 1
  /\ tasks' = [tasks EXCEPT ![current + 1] = "poll"]
  /\ UNCHANGED <<startVars, mainVars, signal, got, reading, statusVars>>

-------------------------------------------------------------------------------
Start    == Login \/ ListDevices \/ Connect
PollLoop == \/ TimerElapses \/ SelectSleep \/ ReadStatus \/ PrintReport
            \/ SelectCtrlC
Monitor(m) == MonitorReceives(m) \/ MonitorWrites(m) \/ AbortLands(m)

Next == \/ Start \/ PollLoop \/ PressCtrlC \/ TellListener
        \/ DeviceEmits \/ Rebuild
        \/ \E m \in Monitors : Monitor(m)

Spec == Init /\ [][Next]_vars

(***************************************************************************)
(* Fairness.  The calls of the session return (CallsReturn of Session), so *)
(* the start goes on.  main and the monitors are scheduled; the lock is    *)
(* first come, first served, and select! begins with a random branch, so   *)
(* what they wait for is not missed for ever.  The sleep is long and the   *)
(* telling of a listener short, so it comes within a sleep now and then.   *)
(* Nobody has to press Ctrl+C, and the device need not emit anything.      *)
(***************************************************************************)
Fairness ==
  /\ WF_vars(Start) /\ WF_vars(TimerElapses) /\ WF_vars(PrintReport)
  /\ SF_vars(SelectSleep) /\ SF_vars(SelectCtrlC) /\ SF_vars(ReadStatus)
  /\ WF_vars(TellListener) /\ SF_vars(TellListener /\ stage = "select")
  /\ \A m \in Monitors : SF_vars(MonitorWrites(m)) /\ WF_vars(AbortLands(m))

FairSpec == Spec /\ Fairness

-------------------------------------------------------------------------------
(* The types of the variables; a monitor at work is the owner's or aborted,*)
(* which is the rule of the owner as it is modelled, not of src/.          *)
TypeOK ==
  /\ account \in Accounts /\ device \in 0 .. Len(account)
  /\ stage \in Stages
  /\ result \in Results
  /\ timer \in BOOLEAN /\ signal \in {"none", "raised", "heard"}
  /\ current \in 0 .. MaxRebuilds + 1 /\ aborted \subseteq Monitors
  /\ tasks \in [Monitors -> {"none", "poll", "write", "gone"}]
  /\ reading \in 0 .. MaxReadings
  /\ got \in [Monitors -> 0 .. MaxReadings] /\ status \in 0 .. reading
  /\ writer \in {0} \cup Monitors /\ lock \in {"free", "read", "write"}
  /\ shown \in 0 .. reading
  /\ \A m \in Monitors :
       tasks[m] \in {"poll", "write"} => m = current \/ m \in aborted

(* The shared status is set back only where an aborted monitor takes part: *)
(* its late write covers a newer reading, or stands newer than what its    *)
(* successor had in hand.  One monitor alone never sets it back.           *)
SetBackOnlyByAborted ==
  [][status' < status => aborted \cap {writer, writer'} # {}]_vars

(* A reading received by the monitor the owner holds, once the aborted     *)
(* ones before it are gone, comes to the screen: that one or a later one   *)
(* is printed, unless main ends or gives the monitor up first.  As long as *)
(* an aborted one is there, its late write may cover the reading for good: *)
(* the device need not send another.                                       *)
ReadingsReachScreen ==
  \A m \in Monitors : \A r \in 1 .. MaxReadings :
    (/\ tasks[m] = "write" /\ m = current /\ got[m] = r
     /\ \A k \in aborted : tasks[k] = "gone")
      ~> shown >= r \/ stage = "exited" \/ m \in aborted

(* Monitors that write do not keep the poll loop from going round.         *)
PollLoopGoesRound == stage \in Polling ~> stage \in {"select", "exited"}

(* A Ctrl+C that is pressed again and again while main waits ends the      *)
(* program, although each single one may lose against the sleep            *)
(* (main.rs:65-74).                                                        *)
InsistedCtrlCStops ==
  ([]<>(signal = "raised" /\ stage = "select")) => <>(stage = "exited")

(* "press Ctrl+C to stop" (main.rs:64): each Ctrl+C that tokio's handler   *)
(* takes ends the program.                                                 *)
CtrlCStops == signal = "raised" ~> stage = "exited"
===============================================================================
