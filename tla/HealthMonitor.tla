---------------------------- MODULE HealthMonitor ----------------------------
(***************************************************************************)
(* Automatic rollbacks of one service on one agent: the monitor that       *)
(* MONITOR_HEALTH starts for a container and the crash-loop detector       *)
(* (agent/healthmon.go), with the rollbacks they ask the engine for, the   *)
(* requested operations these race, and what the hub asks to be monitored. *)
(*                                                                         *)
(* Updater has the engine call by call; here an operation is what the      *)
(* others can tell apart: looking the container up, getting the lock of    *)
(* its name, removal and creation. Time is what a monitor and the detector *)
(* make of it: for how many looks a container has been ill. The agent does *)
(* not restart.                                                            *)
(***************************************************************************)
EXTENDS Naturals

CONSTANTS
  MaxCtr,     \* bound: containers the daemon ever creates
  MaxAsked,   \* bound: operations that are requested
  Handler,    \* goroutines of requests
  Detector    \* the goroutine of the crash-loop detector

ASSUME HealthAssumption ==
  /\ {MaxCtr, MaxAsked} \subseteq Nat /\ MaxCtr > 0
  /\ Detector \notin Nat \cup Handler
  /\ \A h \in Handler : h \notin Nat

VARIABLES
  present,      \* the container that has the service's name, 0 if none has
  lastCtr,      \* the last one the daemon created
  condition,    \* of the container that is present
  withSnapshot, \* the container IDs that are keys of Updater.snapshots
  nameLock,     \* who has the lock of the name
  work,         \* operations under way; a monitor's has the name of its container
  monitor,      \* MONITOR_HEALTH on its way, and the entries of h.monitors
  crashing,     \* the tracker of the container the detector saw last
  rolling,      \* rollbackInProgress
  asked,        \* operations requested so far
  requestMade,  \* containers that are there by request, or that a request worked on
  undone        \* how often an automatic rollback decided for a container was carried out

daemonVars == <<present, lastCtr, condition>>
ghosts == <<requestMade, undone>>
healthVars == <<daemonVars, withSnapshot, nameLock, work, monitor, crashing, rolling, asked, ghosts>>

-----------------------------------------------------------------------------
Ctr == 1..MaxCtr
Worker == Ctr \cup Handler \cup {Detector}
Automatic(p) == p \notin Handler
Long == 2 \* looks: more than 30 s unhealthy; more than 60 s and three restarts

\* judged is the container an operation was decided for, at the one it works on. A
\* "rollbackTo" pulls a version, a "rollback" goes back to a snapshot.
Work == [pc : {"off", "called", "waiting", "replacing", "creating"},
         kind : {"update", "rollbackTo", "rollback"}, judged : 0..MaxCtr, at : 0..MaxCtr]
NoWork == [pc |-> "off", kind |-> "rollbackTo", judged |-> 0, at |-> 0]
Operation(pc, kind, c) == [pc |-> pc, kind |-> kind, judged |-> c, at |-> c]

\* withImage: the hub knew the digest from before the update.
Monitor == [pc : {"none", "sent", "watching"}, withImage : BOOLEAN, illFor : 0..Long]
NoMonitor == [pc |-> "none", withImage |-> FALSE, illFor |-> 0]
NotCrashing == [of |-> 0, for |-> 0]

HealthTypeOK ==
  /\ present \in 0..MaxCtr /\ lastCtr \in Ctr
  /\ condition \in {"fine", "unhealthy", "looping"}
  /\ withSnapshot \in SUBSET Ctr
  /\ nameLock \in SUBSET Worker
  /\ work \in [Worker -> Work]
  /\ monitor \in [Ctr -> Monitor]
  /\ crashing \in [of : 0..MaxCtr, for : 0..Long]
  /\ rolling \in SUBSET Ctr
  /\ asked \in 0..MaxAsked
  /\ requestMade \in SUBSET Ctr
  /\ undone \in [Ctr -> 0..MaxCtr]

HealthInit ==
  /\ present = 1 /\ lastCtr = 1 /\ condition = "fine"
  /\ withSnapshot = {}
  /\ nameLock = {}
  /\ work = [p \in Worker |-> NoWork]
  /\ monitor = [c \in Ctr |-> NoMonitor]
  /\ crashing = NotCrashing
  /\ rolling = {}
  /\ asked = 0
  /\ requestMade = {1}
  /\ undone = [c \in Ctr |-> 0]

-----------------------------------------------------------------------------
(* What happens to the service.                                             *)

\* UPDATE, or ROLLBACK with or without a version: the handler resolves the container.
RequestOperation(h, kind) ==
  /\ asked < MaxAsked
  /\ work[h].pc = "off"
  /\ present # 0
  /\ asked' = asked + 1
  /\ work' = [work EXCEPT ![h] = Operation("called", kind, present)]
  /\ UNCHANGED <<daemonVars, withSnapshot, nameLock, monitor, crashing, rolling, ghosts>>

\* CONTAINER_DELETE, which takes no lock.
DeletePresent ==
  /\ asked < MaxAsked
  /\ present # 0
  /\ asked' = asked + 1
  /\ present' = 0 /\ condition' = "fine"
  /\ UNCHANGED <<lastCtr, withSnapshot, nameLock, work, monitor, crashing, rolling, ghosts>>

\* The container falls ill or gets well again.
ConditionChanges ==
  /\ present # 0
  /\ condition' \in {"fine", "unhealthy", "looping"} \ {condition}
  /\ UNCHANGED <<present, lastCtr, withSnapshot, nameLock, work, monitor, crashing, rolling, asked,
                 ghosts>>

-----------------------------------------------------------------------------
(* The engine, for requests and for automatic rollbacks.                    *)

Goto(p, w) ==
  /\ work' = [work EXCEPT ![p] = w]
  /\ UNCHANGED <<monitor, crashing, rolling>>

\* The operation is over. triggerRollbackWithReason releases its guard; the monitor that
\* called it returns, and its deferred delete takes the entry away.
Return(p, monitors) ==
  /\ work' = [work EXCEPT ![p] = NoWork]
  /\ rolling' = IF Automatic(p) THEN rolling \ {work[p].judged} ELSE rolling
  /\ monitor' = IF p \in Ctr THEN [monitors EXCEPT ![p] = NoMonitor] ELSE monitors
  /\ UNCHANGED crashing

\* UpdateContainer and RollbackToImage inspect the container, RollbackContainer looks for a
\* snapshot under its ID.
LookUp(p) ==
  LET w == work[p]
      found == IF w.kind = "rollback" THEN w.judged \in withSnapshot ELSE present = w.judged IN
  /\ w.pc = "called"
  /\ IF found THEN Goto(p, [w EXCEPT !.pc = "waiting"]) ELSE Return(p, monitor)
  /\ UNCHANGED <<daemonVars, withSnapshot, nameLock, asked, ghosts>>

\* What an operation that has got the lock works on. FIX-1.1: when its container is gone
\* RollbackToImage takes what has the name by now; an update gives up, and
\* RollbackContainer does not look.
WorksOn(w) ==
  CASE w.kind = "rollback" -> w.judged
    [] w.kind = "rollbackTo" -> present
    [] OTHER -> IF present = w.judged THEN present ELSE 0

TakeLock(p) ==
  LET w == work[p] IN
  /\ w.pc = "waiting"
  /\ nameLock = {}
  /\ IF WorksOn(w) = 0
     THEN Return(p, monitor) /\ UNCHANGED nameLock
     ELSE Goto(p, [w EXCEPT !.pc = "replacing", !.at = WorksOn(w)]) /\ nameLock' = {p}
  /\ UNCHANGED <<daemonVars, withSnapshot, asked, ghosts>>

\* An update saves a snapshot under the ID of the container it is about to replace. What is
\* there is then stopped and removed.
RemoveOld(p) ==
  LET w == work[p]
      saves == IF w.kind = "update" THEN {w.at} ELSE {} IN
  /\ w.pc = "replacing"
  /\ w.kind = "update" => present = w.at
  /\ Goto(p, [w EXCEPT !.pc = "creating"])
  /\ withSnapshot' = withSnapshot \cup saves
  /\ requestMade' = requestMade \cup saves
  /\ present' = IF present = w.at THEN 0 ELSE present
  /\ condition' = IF present = w.at THEN "fine" ELSE condition
  /\ UNCHANGED <<lastCtr, nameLock, asked, undone>>

\* The version cannot be pulled, or the old container not be removed. An update that cannot
\* stop it ends with the snapshot saved and the container running as before.
GiveUp(p) ==
  LET w == work[p]
      saves == IF w.kind = "update" THEN {w.at} ELSE {} IN
  /\ w.pc = "replacing"
  /\ Return(p, monitor)
  /\ nameLock' = nameLock \ {p}
  /\ withSnapshot' = withSnapshot \cup saves
  /\ requestMade' = requestMade \cup saves
  /\ UNCHANGED <<daemonVars, asked, undone>>

\* Mutant: rollbacks are monitored as well.
Monitored_Rollbacks(p, c) ==
  {[monitor EXCEPT ![c] = [NoMonitor EXCEPT !.pc = "sent", !.withImage = TRUE]]}

\* UPDATE_RESULT at the hub: what an update has made is monitored if the policy says so.
Monitored(p, c) ==
  IF work[p].kind # "update" THEN {monitor}
  ELSE {monitor} \cup { [monitor EXCEPT ![c] = [NoMonitor EXCEPT !.pc = "sent", !.withImage = b]] :
                          b \in BOOLEAN }

\* The new container takes the name; or the old version once more, when creating the new one
\* has failed.
CreateNew(p) ==
  LET w == work[p]
      c == lastCtr + 1 IN
  /\ w.pc = "creating"
  /\ present = 0
  /\ c \in Ctr
  /\ present' = c /\ lastCtr' = c /\ condition' = "fine"
  /\ nameLock' = nameLock \ {p}
  /\ requestMade' = IF Automatic(p) THEN requestMade ELSE requestMade \cup {c}
  /\ \/ /\ \E monitors \in Monitored(p, c) : Return(p, monitors)
        /\ undone' = IF Automatic(p) THEN [undone EXCEPT ![w.judged] = @ + 1] ELSE undone
     \/ w.kind # "rollback" /\ Return(p, monitor) /\ UNCHANGED undone
  /\ UNCHANGED <<withSnapshot, asked>>

\* The name is taken, or nothing can be created: the service is down.
CreationFails(p) ==
  /\ work[p].pc = "creating"
  /\ Return(p, monitor)
  /\ nameLock' = nameLock \ {p}
  /\ UNCHANGED <<daemonVars, withSnapshot, asked, ghosts>>

-----------------------------------------------------------------------------
(* The monitor of a container.                                              *)

MonitorChanges(c, m) ==
  /\ monitor' = [monitor EXCEPT ![c] = m]
  /\ UNCHANGED <<daemonVars, withSnapshot, nameLock, work, crashing, rolling, asked, ghosts>>

StartMonitoring(c) ==
  /\ monitor[c].pc = "sent"
  /\ MonitorChanges(c, [monitor[c] EXCEPT !.pc = "watching"])

StabilityWindowPasses(c) ==
  /\ monitor[c].pc = "watching" /\ work[c].pc = "off"
  /\ MonitorChanges(c, NoMonitor)

\* A tick within the stability window: a container that is gone ends the monitor, one that
\* is well again starts the count anew.
CheckHealth(c) ==
  LET illFor == IF condition = "unhealthy" THEN monitor[c].illFor + 1 ELSE 0 IN
  /\ monitor[c].pc = "watching" /\ work[c].pc = "off"
  /\ present = c => illFor < Long
  /\ MonitorChanges(c, IF present = c THEN [monitor[c] EXCEPT !.illFor = illFor] ELSE NoMonitor)

\* BUG-10: one automatic rollback of a container at a time.
MayRollBack(c) == c \notin rolling

\* triggerRollbackWithReason sets its guard and calls the engine; with an image
\* RollbackToImage, without one RollbackContainer.
Trigger(p, c, kind) ==
  /\ MayRollBack(c)
  /\ work' = [work EXCEPT ![p] = Operation("called", kind, c)]
  /\ rolling' = rolling \cup {c}

\* The tick that finds the container unhealthy for too long. Nothing waits between the
\* inspection and the guard. If another automatic rollback of the container is under way the
\* monitor just ends.
MonitorTriggers(c) ==
  /\ monitor[c].pc = "watching" /\ work[c].pc = "off"
  /\ present = c /\ condition = "unhealthy" /\ monitor[c].illFor + 1 = Long
  /\ \/ Trigger(c, c, IF monitor[c].withImage THEN "rollbackTo" ELSE "rollback") /\ UNCHANGED monitor
     \/ ~MayRollBack(c) /\ monitor' = [monitor EXCEPT ![c] = NoMonitor] /\ UNCHANGED <<work, rolling>>
  /\ UNCHANGED <<daemonVars, withSnapshot, nameLock, crashing, asked, ghosts>>

-----------------------------------------------------------------------------
(* The crash-loop detector.                                                 *)

\* For how many ticks the container will have been in a restart loop; the trackers of
\* containers that are gone are dropped.
LoopingFor ==
  LET before == IF crashing.of = present THEN crashing.for ELSE 0 IN
  IF present = 0 \/ condition # "looping" THEN 0 ELSE IF before < Long THEN before + 1 ELSE Long

\* healthmon.go:390, under the ID of the container that keeps crashing. An update saves its
\* snapshot under the ID of the container it replaces, so what it has made has none.
HasSnapshot(c) == c \in withSnapshot

\* A tick that only counts. h.monitors is keyed by full IDs and asked for a short one, so a
\* monitor of the container is never found and does not keep the detector from a rollback.
DetectCrashLoops ==
  /\ work[Detector].pc = "off"
  /\ LoopingFor = Long => ~HasSnapshot(present)
  /\ crashing' = [of |-> present, for |-> LoopingFor]
  /\ UNCHANGED <<daemonVars, withSnapshot, nameLock, work, monitor, rolling, asked, ghosts>>

\* The restarts were too many for too long. If another automatic rollback of the container
\* is under way, the count starts anew.
DetectorTriggers ==
  /\ work[Detector].pc = "off"
  /\ LoopingFor = Long /\ HasSnapshot(present)
  /\ crashing' = NotCrashing
  /\ \/ Trigger(Detector, present, "rollbackTo")
     \/ ~MayRollBack(present) /\ UNCHANGED <<work, rolling>>
  /\ UNCHANGED <<daemonVars, withSnapshot, nameLock, monitor, asked, ghosts>>

-----------------------------------------------------------------------------
EngineStep(p) == LookUp(p) \/ TakeLock(p) \/ RemoveOld(p) \/ GiveUp(p) \/ CreateNew(p) \/ CreationFails(p)

HealthNext ==
  \/ \E h \in Handler, kind \in {"update", "rollbackTo", "rollback"} : RequestOperation(h, kind)
  \/ DeletePresent
  \/ ConditionChanges
  \/ \E p \in Worker : EngineStep(p)
  \/ \E c \in Ctr : \/ StartMonitoring(c) \/ CheckHealth(c) \/ StabilityWindowPasses(c)
                    \/ MonitorTriggers(c)
  \/ DetectCrashLoops
  \/ DetectorTriggers

HealthSpec == HealthInit /\ [][HealthNext]_healthVars

-----------------------------------------------------------------------------
\* A container is rolled back automatically once at most, and only one that is there by
\* request or that a request has worked on: the monitor and the crash-loop detector do not
\* undo one update twice, whatever the name stands for when they get the lock (FIX-1.1),
\* and no automatic rollback is the ground for another.
JudgedOnce ==
  \A c \in Ctr : /\ undone[c] <= 1
                 /\ undone[c] > 0 \/ c \in rolling => c \in requestMade
=============================================================================
