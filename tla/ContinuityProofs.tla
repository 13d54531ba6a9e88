-------------------------- MODULE ContinuityProofs --------------------------
(***************************************************************************)
(* What an update, recreating or blue-green, does to the app it is for:    *)
(* the last container of an app goes only when it can be brought back, a   *)
(* blue-green update never takes an app out of service, one thing that     *)
(* goes wrong leaves every app running, a failed update the version that   *)
(* ran, and a crash, once the agent is up again, one container under the   *)
(* app's own name.                                                         *)
(***************************************************************************)
EXTENDS UpdaterProofs

-----------------------------------------------------------------------------
(* Operations keep to themselves.                                          *)

OpMoves(u) == LockContainer(u) \/ Relock(u) \/ OpStep(u)

\* A step of an operation changes its own app's containers only, under its lock.
LEMMA Touches ==
  ASSUME IInv, NEW u \in Thread, OpMoves(u), NEW i \in 1..lastId, ctr'[i] # ctr[i]
  PROVE  Holds(op[u]) /\ ctr[i].name.app = op[u].key.app
<1> USE DEF IInv, TypeOK
<1>1. ASSUME op[u].pc # "idle"
      PROVE  op[u] \in Op /\ Sound(op[u])
  BY <1>1 DEF OpShape
<1>2. i \in Id
  BY UpdaterAssumption DEF Id
<1>3. CASE Stop(u) \/ Remove(u) \/ StartOld(u)
  <2>1. op[u].pc \in {"stop", "remove", "startOld"} /\ i = op[u].id
    BY <1>2, <1>3 DEF Stop, Remove, StartOld, At, SetState
  <2> QED BY <1>1, <2>1 DEF Holds, Sound
<1>4. CASE Start(u) \/ StartFails(u) \/ PortConflict(u) \/ DiscardStop(u) \/ DiscardRemove(u)
           \/ Rename(u)
  <2>1. op[u].pc \in {"start", "discardStop", "discardRemove", "rename"} /\ i = op[u].newId
    BY <1>2, <1>4
       DEF Start, StartFails, PortConflict, DiscardStop, DiscardRemove, Rename, At, SetState
  <2>2. ctr[i].name \in {op[u].key, TempName(op[u].key)}
    BY <1>1, <2>1 DEF Sound, OnPath
  <2> QED BY <1>1, <2>1, <2>2 DEF Holds, TempName
<1>5. ASSUME Create(u) PROVE FALSE
  <2>1. ctr'[i] = ctr[i]
    BY <1>2, <1>5 DEF Create, NewContainer
  <2> QED BY <2>1
<1>6. ASSUME UNCHANGED ctr PROVE FALSE
  BY <1>6
<1> QED
  BY <1>3, <1>4, <1>5, <1>6
     DEF OpMoves, OpStep, LockContainer, Relock, Inspect, InspectRejects, PullTag, PullPinned,
         PullFails, Reinspect, ReinspectFails, SaveSnapshot, SaveSnapshotFails, StopFails,
         RemoveFails, RemoveTakenForGone, CreateFails, Healthy, Unhealthy, daemon

\* So an operation that holds its lock has its app's containers and its file to
\* itself.
LEMMA Isolated ==
  ASSUME IInv, NEW u \in Thread, OpMoves(u), NEW t \in Thread \ {u},
         op[t].pc # "idle", Holds(op[t])
  PROVE  /\ \A i \in 1..lastId : ctr[i].name.app = op[t].key.app => ctr'[i] = ctr[i]
         /\ \A s \in disk : s.id = op[t].id => s \in disk'
<1>1. Sound(op[t]) /\ LockShape(t) /\ LockShape(u)
  BY DEF IInv, OpShape
<1>2. ASSUME Holds(op[u]), op[u].key.app = op[t].key.app PROVE FALSE
  <2>1. Sound(op[u])
    BY <1>2 DEF IInv, OpShape, Holds
  <2>2. op[u].key = op[t].key
    BY <1>1, <1>2, <2>1 DEF Sound, Names
  <2> QED BY <1>1, <1>2, <2>2 DEF LockShape
<1>3. \A i \in 1..lastId : ctr[i].name.app = op[t].key.app => ctr'[i] = ctr[i]
  BY <1>2, Touches
<1>4. CASE SaveSnapshot(u) \/ SaveSnapshotFails(u)
  <2>1. Sound(op[u]) /\ op[u].pc = "save"
    BY <1>4 DEF SaveSnapshot, SaveSnapshotFails, At, IInv, OpShape
  <2>2. op[u].snap.id # op[t].id
    BY <1>1, <1>2, <2>1 DEF Sound, Holds
  <2> QED BY <1>3, <1>4, <2>2 DEF SaveSnapshot, SaveSnapshotFails, OtherThan
<1>5. CASE ~(SaveSnapshot(u) \/ SaveSnapshotFails(u))
  <2>1. UNCHANGED disk
    BY <1>5 DEF OpMoves, OpStep, LockContainer, Relock, Inspect, InspectRejects, PullTag,
       PullPinned, PullFails, Reinspect, ReinspectFails, Stop, StopFails, Remove, RemoveFails,
       RemoveTakenForGone, StartOld, Create, CreateFails, Start, StartFails, PortConflict,
       Healthy, Unhealthy, DiscardStop, DiscardRemove, Rename, store
  <2> QED BY <1>3, <2>1
<1> QED BY <1>4, <1>5

\* What is counted.
LEMMA Counts ==
  ASSUME IInv
  PROVE  /\ spent.faults \in Nat /\ spent.crashes \in Nat /\ spent.blind \in Nat
         /\ spent.swallowed \in Nat
         /\ Fault => /\ spent'.faults = spent.faults + 1 /\ spent'.crashes = spent.crashes
                     /\ spent'.blind = spent.blind /\ spent'.swallowed = spent.swallowed
         /\ Faults(2) => /\ spent'.faults = spent.faults + 2 /\ spent'.crashes = spent.crashes
                         /\ spent'.blind = spent.blind /\ spent'.swallowed = spent.swallowed
         /\ NoFault => spent' = spent
  BY DEF IInv, TypeOK, Fault, Faults, NoFault, Spent

\* An inspection that finds no digest is counted.
LEMMA InspectCounts ==
  ASSUME IInv, NEW id \in Id, NEW s \in {FullSnapshot(id), BlindSnapshot(id)},
         InspectContainer(id, s)
  PROVE  /\ spent'.faults = spent.faults /\ spent'.crashes = spent.crashes
         /\ spent'.swallowed = spent.swallowed
         /\ spent'.blind \in {spent.blind, spent.blind + 1}
         /\ s = FullSnapshot(id) \/ (s = BlindSnapshot(id) /\ spent'.blind > 0)
  BY Counts DEF IInv, TypeOK, InspectContainer, NoFault, Spent

\* So is a refused removal that is taken for "already gone".
LEMMA TakenForGoneCounts ==
  ASSUME IInv, NEW t, RemoveTakenForGone(t)
  PROVE  /\ spent'.faults = spent.faults + 1 /\ spent'.crashes = spent.crashes
         /\ spent'.blind = spent.blind /\ spent'.swallowed = spent.swallowed + 1
<1>1. PICK p \in Spent : p = spent
  BY DEF IInv, TypeOK
<1>2. spent' = [p EXCEPT !.faults = @ + 1, !.swallowed = @ + 1]
  BY <1>1 DEF RemoveTakenForGone
<1> QED BY <1>1, <1>2 DEF Spent

\* Operations only add to what has gone wrong.
LEMMA Spends ==
  ASSUME IInv, NEW u \in Thread, OpMoves(u)
  PROVE  /\ spent'.faults \in Nat /\ spent'.faults >= spent.faults
         /\ spent'.blind \in Nat /\ spent'.blind >= spent.blind
         /\ spent'.swallowed \in Nat /\ spent'.swallowed >= spent.swallowed
         /\ spent'.crashes = spent.crashes
         /\ UNCHANGED <<agent, rec>>
<1>1. UNCHANGED <<agent, rec>>
  BY DEF OpMoves, OpStep, LockContainer, Relock, Inspect, InspectRejects, PullTag, PullPinned,
     PullFails, Reinspect, ReinspectFails, SaveSnapshot, SaveSnapshotFails, Stop, StopFails,
     Remove, RemoveFails, RemoveTakenForGone, StartOld, Create, CreateFails, Start, StartFails,
     PortConflict, Healthy, Unhealthy, DiscardStop, DiscardRemove, Rename
<1>2. CASE Inspect(u) \/ Reinspect(u)
  <2>1. \E id \in Id : \E s \in {FullSnapshot(id), BlindSnapshot(id)} : InspectContainer(id, s)
    BY <1>2 DEF Inspect, Reinspect, Found, Named, Live
  <2> QED BY <1>1, <2>1, InspectCounts, Counts
<1>3. CASE RemoveTakenForGone(u)
  BY <1>1, <1>3, TakenForGoneCounts, Counts
<1>4. CASE UNCHANGED spent \/ Fault \/ Faults(2)
  BY <1>1, <1>4, Counts
<1>5. UNCHANGED spent \/ Fault \/ Faults(2) \/ Inspect(u) \/ Reinspect(u) \/ RemoveTakenForGone(u)
  BY DEF OpMoves, OpStep, LockContainer, Relock, InspectRejects, PullTag, PullPinned,
     PullFails, ReinspectFails, SaveSnapshot, SaveSnapshotFails, Stop, StopFails,
     Remove, RemoveFails, StartOld, Create, CreateFails, Start, StartFails, PortConflict,
     Healthy, Unhealthy, DiscardStop, DiscardRemove, Rename, NoFault, Fault
<1> QED BY <1>2, <1>3, <1>4, <1>5

\* What a container is created from is a reference.
LEMMA CreatesFromRef ==
  ASSUME IInv, NEW t \in Thread, Create(t)
  PROVE  CreateImage(op[t]) \in Ref
<1>1. op[t].pc = "create" /\ Sound(op[t]) /\ op[t] \in Op /\ CreateImage(op[t]) # NoDigest
  BY DEF Create, At, IInv, TypeOK, OpShape
<1>2. op[t].snap \in Snapshot /\ op[t].img \in Ref
  BY <1>1 DEF Sound, Op
<1> QED BY <1>1, <1>2 DEF CreateImage, Snapshot, Ref

-----------------------------------------------------------------------------
(* Why the last container goes only when it can be brought back.           *)

\* Rollbacks save no snapshot, commands need none, and a disk that refuses the
\* file leaves nothing to recover from: the theorem is about the rest.
UpdatesOnly == Kind \subseteq {"update", "blueGreen"} /\ DiskFails = FALSE

\* The steps at which an operation has put its snapshot on disk, ...
Saved(o) ==
  \/ o.pc \in {"stop", "remove"}
  \/ o.kind = "update" /\ o.pc \in {"create", "start"}

\* ... and those of a blue-green update during which the old container exists.
Beside(o) ==
  /\ o.kind = "blueGreen"
  /\ o.pc \in {"pull", "create", "start", "health", "save", "stop", "discardStop",
               "discardRemove"}

\* The snapshot an operation has is its container to the letter, but for the digest
\* when an inspection has not found it.
Describes(o) ==
  \/ o.snap = FullSnapshot(o.id)
  \/ spent.blind > 0 /\ o.snap = BlindSnapshot(o.id)

\* A container an update has created has not run yet when it may still have to be
\* removed.
Safe(o) ==
  /\ o.kind \in {"update", "blueGreen"}
  /\ o.pc \notin {"lock", "inspect"} => Describes(o)
  /\ Saved(o) => o.snap \in disk
  /\ Beside(o) => Live(o.id)
  /\ o.kind = "update" /\ o.pc = "start" => ctr[o.newId].state = "created"

OpSafe(t) == op[t].pc # "idle" => Safe(op[t])

\* What RecoverOrphans listed is still there when it removes a temporary container,
\* and what it is about to start has a file.
RecSafe ==
  agent = "recovering" =>
    /\ snapshots \subseteq disk
    /\ rec.pc \in {"temps", "tempRemove"} =>
         \A n \in rec.todo \cup {m \in rec.existing : ~m.temp} : Named(n) # {}
    /\ rec.pc = "tempRemove" => OriginalName(rec.name) \in rec.existing
    /\ rec.pc = "start" =>
         /\ ctr[rec.newId].state = "created"
         /\ \E s \in disk : s.name = ctr[rec.newId].name

SafeInv == (\A t \in Thread : OpSafe(t)) /\ RecSafe

-----------------------------------------------------------------------------
(* Operations.                                                             *)

\* A snapshot of a container keeps describing it.
LEMMA SnapshotStays ==
  ASSUME IInv, Kept \/ Renamed, NEW u \in Thread, OpMoves(u),
         NEW t \in Thread, op[t].pc # "idle",
         op'[t].id = op[t].id, op'[t].snap = op[t].snap, Describes(op[t])
  PROVE  Describes(op[t])'
<1>1. Sound(op[t])
  BY DEF IInv, OpShape
<1>2. /\ ctr'[op[t].id].name = ctr[op[t].id].name
      /\ ctr'[op[t].id].ref = ctr[op[t].id].ref
      /\ ctr'[op[t].id].digest = ctr[op[t].id].digest
  BY <1>1 DEF Sound, Kept, Renamed, SameImage
<1>3. spent.blind > 0 => spent'.blind > 0
  BY Spends, Counts
<1> QED BY <1>2, <1>3 DEF Describes, FullSnapshot, BlindSnapshot

\* The fields of an operation that goes on.
LEMMA GotoFields ==
  ASSUME IInv, NEW t \in Thread, NEW s, Goto(t, s)
  PROVE  /\ op'[t].pc = s /\ op'[t].kind = op[t].kind /\ op'[t].id = op[t].id
         /\ op'[t].key = op[t].key /\ op'[t].snap = op[t].snap /\ op'[t].newId = op[t].newId
         /\ op'[t].restoring = op[t].restoring
  BY DEF IInv, TypeOK, Goto, Op

\* Nothing is asked of one that is over.
LEMMA ReturnSafe ==
  ASSUME IInv, NEW t \in Thread, Return(t)
  PROVE  OpSafe(t)'
  BY DEF IInv, TypeOK, Return, Idle, OpSafe

\* An operation that is retried has its file, one that is not is over.
LEMMA CreateFailedSafe ==
  ASSUME IInv, SafeInv, NEW t \in Thread, OpMoves(t), CreateFailed(t), UNCHANGED disk, Kept,
         op[t].pc \in {"create", "start"}
  PROVE  OpSafe(t)'
<1>1. CASE Return(t)
  BY <1>1, ReturnSafe
<1>2. CASE ~Return(t)
  <2>1. /\ op[t].kind \in {"update", "rollbackTo"}
        /\ op' = [op EXCEPT ![t] = [@ EXCEPT !.pc = "create", !.newId = 0, !.restoring = TRUE]]
    BY <1>2 DEF CreateFailed
  <2>2. Safe(op[t]) /\ Sound(op[t])
    BY DEF IInv, SafeInv, OpShape, OpSafe
  <2>3. /\ op'[t].pc = "create" /\ op'[t].kind = op[t].kind /\ op'[t].id = op[t].id
        /\ op'[t].snap = op[t].snap
    BY <2>1 DEF IInv, TypeOK, Op
  <2>4. Describes(op[t])'
    BY <2>2, <2>3, SnapshotStays DEF Safe
  <2> QED BY <2>1, <2>2, <2>3, <2>4 DEF OpSafe, Safe, Saved, Beside
<1> QED BY <1>1, <1>2

\* An operation that goes on stays safe if it has its file when it needs one and,
\* for a blue-green update, its old container until that is removed.
LEMMA GotoSafe ==
  ASSUME IInv, SafeInv, NEW t \in Thread, OpMoves(t), Kept,
         NEW s \in Step \ {"idle", "lock", "inspect", "start"}, Goto(t, s),
         op[t].pc \notin {"idle", "lock", "inspect"},
         s \in {"stop", "remove"} \/ (op[t].kind = "update" /\ s = "create") => op[t].snap \in disk',
         op[t].kind = "blueGreen" /\ s # "rename" => ctr'[op[t].id].state # "gone"
  PROVE  OpSafe(t)'
<1>1. /\ op'[t].pc = s /\ op'[t].kind = op[t].kind /\ op'[t].id = op[t].id
      /\ op'[t].key = op[t].key /\ op'[t].snap = op[t].snap
  BY GotoFields
<1>2. Safe(op[t]) /\ op[t].id \in Id
  BY UpdaterAssumption DEF SafeInv, OpSafe, IInv, TypeOK, OpShape, Sound, Id
<1>3. Describes(op[t])'
  BY <1>1, <1>2, SnapshotStays DEF Safe
<1> QED BY <1>1, <1>2, <1>3 DEF OpSafe, Safe, Saved, Beside, Live

\* Each step of an operation leaves it safe.
LEMMA OwnSafe ==
  ASSUME IInv, SafeInv, UpdatesOnly, NEW t \in Thread, OpMoves(t)
  PROVE  OpSafe(t)'
<1>1. ASSUME op[t].pc # "idle"
      PROVE  op[t] \in Op /\ Sound(op[t]) /\ Safe(op[t]) /\ op[t].id \in Id
  BY <1>1, UpdaterAssumption DEF IInv, TypeOK, OpShape, SafeInv, OpSafe, Sound, Id
<1>2. Kept \/ Renamed
  BY FirstSteps, LaterSteps, RenameStep
     DEF OpMoves, OpStep
<1> USE DEF At
<1>3. CASE LockContainer(t)
  <2>1. /\ op'[t].pc = IF op[t].kind = "rollback" THEN "stop" ELSE "inspect"
        /\ op'[t].kind = op[t].kind
    BY <1>3 DEF LockContainer, IInv, TypeOK, Op
  <2> QED BY <1>1, <1>3, <2>1 DEF LockContainer, OpSafe, Safe, Saved, Beside
<1>4. CASE Inspect(t)
  <2>1. op[t].kind \in {"update", "blueGreen"} /\ op[t].pc = "inspect"
    BY <1>1, <1>4 DEF Inspect, Safe
  <2>2. PICK s \in {FullSnapshot(op[t].id), BlindSnapshot(op[t].id)} :
          /\ Live(op[t].id) /\ InspectContainer(op[t].id, s)
          /\ op' = [op EXCEPT ![t] = [@ EXCEPT !.pc = "pull", !.id = op[t].id, !.snap = s,
                                               !.img = ResolveCheckRef(ctr[op[t].id].ref)]]
    BY <1>4, <2>1 DEF Inspect, Found
  <2>3. /\ op'[t].pc = "pull" /\ op'[t].kind = op[t].kind /\ op'[t].id = op[t].id
        /\ op'[t].snap = s
    BY <2>2 DEF IInv, TypeOK, Op
  <2>4. UNCHANGED <<ctr, disk>>
    BY <1>4 DEF Inspect, daemon, store
  <2>5. Describes(op[t])'
    BY <1>1, <2>1, <2>2, <2>3, <2>4, InspectCounts DEF Describes, FullSnapshot, BlindSnapshot
  <2> QED BY <2>1, <2>2, <2>3, <2>4, <2>5 DEF OpSafe, Safe, Saved, Beside, Live
<1>5. CASE InspectRejects(t) \/ PullFails(t) \/ ReinspectFails(t) \/ StartOld(t)
           \/ DiscardRemove(t) \/ Rename(t)
  BY <1>5, ReturnSafe
     DEF InspectRejects, PullFails, ReinspectFails, StartOld, DiscardRemove, Rename
<1>6. CASE PullPinned(t)
  BY <1>1, <1>6 DEF PullPinned, Safe
<1>7. CASE Relock(t)
  <2>1. op[t].pc = "relock" /\ UNCHANGED <<ctr, disk, spent>>
    BY <1>7 DEF Relock, daemon, store
  <2>2. /\ op'[t].pc = "reinspect" /\ op'[t].kind = op[t].kind /\ op'[t].id = op[t].id
        /\ op'[t].snap = op[t].snap
    BY <1>7 DEF Relock, IInv, TypeOK, Op
  <2> QED
    BY <1>1, <2>1, <2>2
       DEF OpSafe, Safe, Saved, Beside, Describes, FullSnapshot, BlindSnapshot
<1>8. CASE Reinspect(t)
  <2>1. op[t].pc = "reinspect" /\ UNCHANGED <<ctr, disk>>
    BY <1>8 DEF Reinspect, daemon, store
  <2>2. PICK s \in {FullSnapshot(op[t].id), BlindSnapshot(op[t].id)} :
          /\ InspectContainer(op[t].id, s)
          /\ op' = [op EXCEPT ![t].pc = "save", ![t].snap = s]
    BY <1>8 DEF Reinspect
  <2>3. /\ op'[t].pc = "save" /\ op'[t].kind = op[t].kind /\ op'[t].id = op[t].id
        /\ op'[t].snap = s
    BY <2>2 DEF IInv, TypeOK, Op
  <2>4. op[t].kind = "update"
    BY <1>1, <2>1 DEF Sound, OnPath
  <2>5. Describes(op[t])'
    BY <1>1, <2>1, <2>2, <2>3, InspectCounts DEF Describes, FullSnapshot, BlindSnapshot
  <2> QED BY <2>3, <2>4, <2>5 DEF OpSafe, Safe, Saved, Beside
<1>9. CASE SaveSnapshotFails(t)
  BY <1>9 DEF SaveSnapshotFails, UpdatesOnly
<1>10. CASE CreateFails(t) \/ StartFails(t)
  <2>1. /\ CreateFailed(t) /\ UNCHANGED disk /\ op[t].pc \in {"create", "start"}
    BY <1>10 DEF CreateFails, StartFails, store
  <2>2. Kept
    BY <1>10, LaterSteps
  <2> QED BY <2>1, <2>2, CreateFailedSafe
<1>11. CASE Create(t)
  <2>1. op[t].pc = "create" /\ NewContainer(CreateName(op[t]), CreateImage(op[t]))
        /\ UNCHANGED <<disk, spent>>
    BY <1>11 DEF Create, store
  <2>2. CreateName(op[t]) \in Names
        /\ (op[t].kind = "update" => CreateName(op[t]) = op[t].key)
    BY <1>1, <2>1 DEF CreateName, Sound, TempName, Names
  <2>3. CreateImage(op[t]) \in Ref
    BY <1>11, CreatesFromRef
  <2>4. /\ ctr'[lastId'].name = CreateName(op[t]) /\ ctr'[lastId'].state = "created"
        /\ \A i \in 1..lastId : ctr'[i] = ctr[i]
    BY <2>1, <2>2, <2>3, NewContainerKeeps DEF IInv
  <2>5. /\ op'[t].pc = "start" /\ op'[t].kind = op[t].kind /\ op'[t].id = op[t].id
        /\ op'[t].key = op[t].key /\ op'[t].snap = op[t].snap /\ op'[t].newId = lastId'
    BY <1>11 DEF Create, IInv, TypeOK, Op
  <2>6. Safe(op[t]) /\ ctr'[op[t].id] = ctr[op[t].id] /\ op[t].id \in Id
    BY <1>1, <2>1, <2>4 DEF Sound
  <2>7. Describes(op[t])'
    BY <2>1, <2>5, <2>6 DEF Safe, Describes, FullSnapshot, BlindSnapshot
  <2>8. op[t].kind = "update" => op[t].snap \in disk'
    BY <2>1, <2>6 DEF Safe, Saved
  <2>9. op[t].kind = "blueGreen" => ctr'[op[t].id].state # "gone"
    BY <2>1, <2>6 DEF Safe, Beside, Live
  <2> QED BY <2>2, <2>4, <2>5, <2>6, <2>7, <2>8, <2>9 DEF OpSafe, Safe, Saved, Beside, Live
<1>12. CASE PortConflict(t)
  <2>1. op'[t].pc = "idle" \/ (op'[t].pc = "lock" /\ op'[t].kind = "update")
    BY <1>12 DEF PortConflict, Idle, IInv, TypeOK
  <2> QED BY <2>1 DEF OpSafe, Safe, Saved, Beside
<1>13. CASE PullTag(t)
  <2>1. op[t].pc = "pull" /\ Goto(t, IF op[t].kind = "update" THEN "relock" ELSE "create")
        /\ UNCHANGED <<ctr, disk>> /\ Kept /\ op[t].kind \in {"update", "blueGreen"}
    BY <1>13, FirstSteps DEF PullTag, daemon, store
  <2> QED BY <1>1, <2>1, GotoSafe DEF Safe, Beside, Live, Step
<1>14. CASE SaveSnapshot(t)
  <2>1. op[t].pc = "save" /\ Goto(t, "stop") /\ op[t].snap \in disk' /\ UNCHANGED ctr /\ Kept
    BY <1>14, LaterSteps DEF SaveSnapshot, daemon
  <2> QED BY <1>1, <2>1, GotoSafe DEF Safe, Beside, Live, Step
<1>15. CASE Stop(t)
  <2>1. op[t].pc = "stop" /\ Goto(t, "remove") /\ UNCHANGED disk /\ Kept
    BY <1>15, LaterSteps DEF Stop, store
  <2>2. ctr'[op[t].id].state # "gone"
    BY <1>1, <1>15 DEF Stop, SetState, Live, IInv, TypeOK, Container
  <2> QED BY <1>1, <2>1, <2>2, GotoSafe DEF Safe, Saved, Step
<1>16. CASE StopFails(t)
  <2>1. op[t].pc = "stop" /\ UNCHANGED <<ctr, disk>> /\ Kept
        /\ IF op[t].kind = "update" THEN Return(t) ELSE Goto(t, "remove")
    BY <1>16, LaterSteps DEF StopFails, daemon, store
  <2> QED BY <1>1, <2>1, GotoSafe, ReturnSafe DEF Safe, Saved, Beside, Live, Step
<1>17. CASE Remove(t)
  <2>1. op[t].pc = "remove" /\ Goto(t, AfterRemove(t)) /\ UNCHANGED disk /\ Kept
    BY <1>17, LaterSteps DEF Remove, store
  <2> QED BY <1>1, <2>1, GotoSafe DEF Safe, Saved, AfterRemove, Step
<1>18. CASE RemoveFails(t)
  <2>1. op[t].pc = "remove" /\ UNCHANGED disk /\ Kept
        /\ Goto(t, IF op[t].kind = "update" THEN "startOld" ELSE AfterRemove(t))
    BY <1>18, LaterSteps DEF RemoveFails, store
  <2> QED BY <1>1, <2>1, GotoSafe DEF Safe, Saved, AfterRemove, Step
<1>22. CASE RemoveTakenForGone(t)
  <2>1. op[t].pc = "remove" /\ UNCHANGED disk /\ Kept /\ Goto(t, AfterRemove(t))
    BY <1>22, LaterSteps DEF RemoveTakenForGone, store
  <2> QED BY <1>1, <2>1, GotoSafe DEF Safe, Saved, AfterRemove, Step
<1>19. CASE Start(t)
  <2>1. op[t].pc = "start" /\ UNCHANGED disk /\ Kept
        /\ IF op[t].kind = "blueGreen" THEN Goto(t, "health") ELSE Return(t)
    BY <1>19, LaterSteps DEF Start, store
  <2>2. op[t].kind = "blueGreen" => ctr'[op[t].id].state # "gone"
    BY <1>1, <1>19, <2>1 DEF Start, SetState, Safe, Beside, Live, IInv, TypeOK, Container
  <2> QED BY <1>1, <2>1, <2>2, GotoSafe, ReturnSafe DEF Step
<1>20. CASE Healthy(t) \/ Unhealthy(t)
  <2>1. op[t].pc = "health" /\ UNCHANGED <<ctr, disk>> /\ Kept
        /\ (Goto(t, "save") \/ Goto(t, "discardStop"))
    BY <1>20, LaterSteps DEF Healthy, Unhealthy, daemon, store
  <2> QED BY <1>1, <2>1, GotoSafe DEF Safe, Beside, Live, Step
<1>21. CASE DiscardStop(t)
  <2>1. op[t].pc = "discardStop" /\ Goto(t, "discardRemove") /\ UNCHANGED disk /\ Kept
    BY <1>21, LaterSteps DEF DiscardStop, store
  <2>2. op[t].kind = "blueGreen" => ctr'[op[t].id].state # "gone"
    BY <1>1, <1>21, <2>1
       DEF DiscardStop, SetState, Safe, Beside, Live, IInv, TypeOK, Container
  <2> QED BY <1>1, <2>1, <2>2, GotoSafe DEF Step
<1> QED
  BY <1>3, <1>4, <1>5, <1>6, <1>7, <1>8, <1>9, <1>10, <1>11, <1>12, <1>13, <1>14, <1>15,
     <1>16, <1>17, <1>18, <1>19, <1>20, <1>21, <1>22 DEF OpMoves, OpStep

\* No step of an operation makes another one unsafe.
LEMMA OthersSafe ==
  ASSUME IInv, SafeInv, NEW u \in Thread, OpMoves(u), NEW t \in Thread \ {u}
  PROVE  OpSafe(t)'
<1>1. op'[t] = op[t] /\ (Kept \/ Renamed)
  <2>1. CASE Rename(u)
    BY <2>1, RenameStep DEF Rename, Return, IInv, TypeOK
  <2>2. CASE ~Rename(u)
    BY <2>2, FirstSteps, LaterSteps DEF OpMoves, OpStep, OpFine, OnlyOp
  <2> QED BY <2>1, <2>2
<1>2. CASE op[t].pc = "idle"
  BY <1>1, <1>2 DEF OpSafe
<1>3. CASE op[t].pc # "idle"
  <2>1. Safe(op[t]) /\ Sound(op[t]) /\ op[t].id \in Id
    BY <1>3, UpdaterAssumption DEF SafeInv, OpSafe, IInv, TypeOK, OpShape, Sound, Id
  <2>2. op[t].pc \notin {"lock", "inspect"} => Describes(op[t])'
    BY <1>1, <1>3, <2>1, SnapshotStays DEF Safe
  <2>3. CASE ~Holds(op[t])
    BY <1>1, <1>3, <2>1, <2>2, <2>3 DEF Holds, OpSafe, Safe, Saved, Beside
  <2>4. CASE Holds(op[t])
    <3>1. /\ \A i \in 1..lastId : ctr[i].name.app = op[t].key.app => ctr'[i] = ctr[i]
          /\ \A s \in disk : s.id = op[t].id => s \in disk'
      BY <1>3, <2>4, Isolated
    <3>2. ctr'[op[t].id] = ctr[op[t].id]
      BY <2>1, <3>1 DEF Sound
    <3>3. Saved(op[t]) => op[t].snap \in disk'
      BY <2>1, <3>1 DEF Safe, Saved, Sound
    <3>4. op[t].kind = "update" /\ op[t].pc = "start" => ctr'[op[t].newId] = ctr[op[t].newId]
      BY <2>1, <3>1 DEF Safe, Sound
    <3>5. Beside(op[t]) => Live(op[t].id)'
      BY <1>1, <2>1, <3>2 DEF Safe, Live
    <3>6. (Saved(op[t]) => Saved(op[t])') /\ (Beside(op[t])' => Beside(op[t]))
          /\ (Saved(op[t])' => Saved(op[t]))
      BY <1>1 DEF Saved, Beside
    <3> QED BY <1>1, <2>1, <2>2, <3>2, <3>3, <3>4, <3>5, <3>6 DEF OpSafe, Safe
  <2> QED BY <2>3, <2>4
<1> QED BY <1>2, <1>3

-----------------------------------------------------------------------------
(* The agent's start.                                                      *)

\* Containers that only change state, short of being removed, keep every name
\* taken.
LEMMA NamesStay ==
  ASSUME IInv, NEW S \in SUBSET Id,
         ctr' = [i \in Id |-> IF i \in S THEN [ctr[i] EXCEPT !.state = "exited"] ELSE ctr[i]]
  PROVE  \A n \in Names : Named(n) \subseteq Named(n)'
  BY DEF IInv, TypeOK, Named, Live, Container

\* RecoverOrphans keeps what it listed, except what it has dealt with.
LEMMA RecoverSafe ==
  ASSUME IInv, SafeInv, Recover
  PROVE  RecSafe'
<1> USE DEF InRecovery
<1>1. /\ RecSafe /\ agent = "recovering" /\ RecShape /\ rec \in Rec
      /\ UNCHANGED store
  BY RecoverSteps DEF SafeInv, IInv, TypeOK
<1>2. snapshots' \subseteq disk'
  BY <1>1 DEF RecSafe, store
<1>3. CASE RecoverList
  <2>1. /\ rec'.pc = "temps" /\ UNCHANGED ctr
        /\ \A n \in rec'.todo \cup rec'.existing : \E i \in Id : Live(i) /\ ctr[i].name = n
    BY <1>1, <1>3 DEF RecoverList, Rec, daemon
  <2> QED BY <1>2, <2>1 DEF RecSafe, Named, Live
<1>4. CASE RecoverListFails \/ RecoverDone
  BY <1>4 DEF RecoverListFails, RecoverDone, RecSafe
<1>5. ASSUME NEW n \in Names, RecoverTempStop(n) PROVE RecSafe'
  <2>1. /\ rec'.pc = "tempRemove" /\ rec'.todo = rec.todo /\ rec'.existing = rec.existing
        /\ rec'.name = n /\ OriginalName(n) \in rec.existing /\ rec.pc = "temps"
    BY <1>1, <1>5 DEF RecoverTempStop, Rec
  <2>2. \A m \in Names : Named(m) \subseteq Named(m)'
    <3>1. CASE UNCHANGED ctr
      BY <3>1 DEF Named, Live
    <3>2. CASE ctr' = [i \in Id |-> IF i \in Named(n) /\ Running(i)
                                   THEN [ctr[i] EXCEPT !.state = "exited"] ELSE ctr[i]]
      <4> DEFINE S == {i \in Named(n) : Running(i)}
      <4>1. ctr' = [i \in Id |-> IF i \in S THEN [ctr[i] EXCEPT !.state = "exited"] ELSE ctr[i]]
        BY <3>2
      <4>2. S \in SUBSET Id
        BY DEF Named
      <4> HIDE DEF S
      <4> QED BY <4>1, <4>2, NamesStay
    <3> QED BY <1>5, <3>1, <3>2 DEF RecoverTempStop
  <2> QED BY <1>1, <1>2, <2>1, <2>2 DEF RecSafe, Rec
<1>6. CASE RecoverTempRemove
  <2>1. /\ rec'.pc = "temps" /\ rec'.todo = rec.todo \ {rec.name} /\ rec'.existing = rec.existing
        /\ rec.pc = "tempRemove" /\ rec.name \in Names /\ rec.name.temp
    BY <1>1, <1>6 DEF RecoverTempRemove, Rec, RecShape
  <2>2. \A m \in Names \ {rec.name} : Named(m) \subseteq Named(m)'
    BY <1>6 DEF RecoverTempRemove, Named, Live, IInv, TypeOK
  <2> QED BY <1>1, <1>2, <2>1, <2>2 DEF RecSafe, Rec
<1>7. ASSUME NEW n \in Names, RecoverTempRename(n) PROVE RecSafe'
  <2>1. n \in rec.todo /\ n.temp /\ rec.pc = "temps" /\ Named(n) # {} /\ OriginalName(n) \in Names
    BY <1>1, <1>7 DEF RecoverTempRename, RecSafe, RecShape, OriginalName, Own, Names
  <2>2. CASE UNCHANGED ctr /\ rec' = [rec EXCEPT !.todo = @ \ {n}]
    <3>1. rec'.pc = "temps" /\ rec'.todo \subseteq rec.todo /\ rec'.existing = rec.existing
      BY <1>1, <2>1, <2>2 DEF Rec
    <3> QED BY <1>1, <1>2, <2>1, <2>2, <3>1 DEF RecSafe, Named, Live
  <2>3. CASE /\ ctr' = [i \in Id |-> IF i \in Named(n)
                                     THEN [ctr[i] EXCEPT !.name = OriginalName(n)]
                                     ELSE ctr[i]]
             /\ rec' = [rec EXCEPT !.todo = @ \ {n}, !.existing = @ \cup {OriginalName(n)}]
    <3>1. /\ rec'.pc = "temps" /\ rec'.todo = rec.todo \ {n}
          /\ rec'.existing = rec.existing \cup {OriginalName(n)}
      BY <1>1, <2>1, <2>3 DEF Rec
    <3>2. \A m \in Names \ {n} : Named(m) \subseteq Named(m)'
      BY <2>3 DEF Named, Live, IInv, TypeOK
    <3>3. Named(OriginalName(n))' # {}
      <4>1. PICK i \in Named(n) : TRUE
        BY <2>1
      <4>2. i \in Id /\ ctr[i] \in Container
        BY <4>1 DEF Named, IInv, TypeOK
      <4>3. ctr'[i].name = OriginalName(n) /\ ctr'[i].state = ctr[i].state
        BY <2>3, <4>1, <4>2 DEF Container
      <4> QED BY <4>1, <4>2, <4>3 DEF Named, Live
    <3>4. n \notin rec'.todo /\ \A m \in rec'.existing : ~m.temp => m # n
      BY <2>1, <3>1
    <3>5. OriginalName(n)' = OriginalName(n)
      BY DEF OriginalName, Own
    <3> QED BY <1>1, <1>2, <2>1, <3>1, <3>2, <3>3, <3>4, <3>5 DEF RecSafe, Rec
  <2> QED BY <1>7, <2>2, <2>3 DEF RecoverTempRename
<1>8. CASE RecoverTempsDone
  <2>1. rec'.pc = "snapshots"
    BY <1>1, <1>8 DEF RecoverTempsDone, Rec
  <2> QED BY <1>2, <2>1 DEF RecSafe
<1>9. ASSUME NEW s \in snapshots, RecoverSkip(s) \/ RecoverCreateFails(s) PROVE RecSafe'
  <2>1. rec'.pc = "snapshots"
    BY <1>1, <1>9 DEF RecoverSkip, RecoverCreateFails, Rec
  <2> QED BY <1>2, <2>1 DEF RecSafe
<1>10. ASSUME NEW s \in snapshots, RecoverCreate(s) PROVE RecSafe'
  <2>1. s.name \in Names /\ RecoveryRef(s) \in Ref
    BY DEF IInv, TypeOK, Snapshot, Ref, RecoveryRef
  <2>2. ctr'[lastId'].name = s.name /\ ctr'[lastId'].state = "created"
    BY <1>10, <2>1, NewContainerKeeps DEF RecoverCreate, IInv
  <2>3. rec'.pc = "start" /\ rec'.newId = lastId'
    BY <1>1, <1>10 DEF RecoverCreate, Rec
  <2>4. s \in disk'
    BY <1>1 DEF RecSafe, store
  <2> QED BY <1>2, <2>2, <2>3, <2>4 DEF RecSafe
<1>11. CASE RecoverStart
  <2>1. rec'.pc = "snapshots"
    BY <1>1, <1>11 DEF RecoverStart, Rec
  <2> QED BY <1>2, <2>1 DEF RecSafe
<1> QED
  BY <1>3, <1>4, <1>5, <1>6, <1>7, <1>8, <1>9, <1>10, <1>11 DEF Recover

-----------------------------------------------------------------------------
(* The invariant.                                                          *)

\* Nothing has been removed at the start.
LEMMA InitSafe == Init => SafeInv
  BY DEF Init, SafeInv, OpSafe, RecSafe, Idle

\* A step that touches neither containers, nor files, nor operations.
LEMMA QuietSafe ==
  ASSUME SafeInv, UNCHANGED <<ctr, store, op, agent, rec, spent>>
  PROVE  SafeInv'
  BY DEF SafeInv, OpSafe, Safe, Saved, Beside, RecSafe, Describes, FullSnapshot, BlindSnapshot,
     Live, Named, store

\* Every step preserves the invariant.
LEMMA StepSafe ==
  ASSUME UpdatesOnly, IInv, SafeInv, [Next]_vars
  PROVE  SafeInv'
<1>1. ASSUME NEW u \in Thread, OpMoves(u) PROVE SafeInv'
  <2>1. \A t \in Thread : OpSafe(t)'
    BY <1>1, OwnSafe, OthersSafe
  <2>2. agent' = "up"
    BY <1>1, FirstSteps, LaterSteps
       DEF OpMoves, OpStep, LockContainer, Relock, Inspect, InspectRejects, PullTag, PullPinned,
           PullFails, Reinspect, ReinspectFails, SaveSnapshot, SaveSnapshotFails, Stop, StopFails,
           Remove, RemoveFails, RemoveTakenForGone, StartOld, Create, CreateFails, Start,
           StartFails, PortConflict, Healthy, Unhealthy, DiscardStop, DiscardRemove, Rename, At
  <2> QED BY <2>1, <2>2 DEF SafeInv, RecSafe
<1>2. ASSUME NEW t \in Thread, NEW k \in Kind, NEW id \in Id, NEW target \in Digest,
             Begin(t, k, id, target)
      PROVE  SafeInv'
  <2>1. /\ UNCHANGED <<ctr, store, agent, rec>> /\ spent'.blind = spent.blind
        /\ op' = [op EXCEPT ![t] = [Idle EXCEPT !.kind = k, !.pc = "lock", !.id = id,
                                                !.key = ctr[id].name, !.want = target]]
    BY <1>2 DEF Begin, Requested, daemon, IInv, TypeOK, Spent
  <2>2. /\ op'[t].pc = "lock" /\ op'[t].kind = k
        /\ \A u \in Thread \ {t} : op'[u] = op[u]
    BY <2>1 DEF Idle, IInv, TypeOK
  <2>3. k \in {"update", "blueGreen"}
    BY DEF UpdatesOnly
  <2>4. OpSafe(t)'
    BY <2>2, <2>3 DEF OpSafe, Safe, Saved, Beside
  <2>5. \A u \in Thread \ {t} : OpSafe(u)'
    BY <2>1, <2>2
       DEF SafeInv, OpSafe, Safe, Saved, Beside, Describes, FullSnapshot, BlindSnapshot, Live,
           store
  <2> QED BY <2>1, <2>4, <2>5 DEF SafeInv, RecSafe, Named, Live, store
<1>3. ASSUME NEW t \in Thread, NEW s \in snapshots, BeginRollback(t, s) PROVE SafeInv'
  BY <1>3 DEF BeginRollback, Requested, UpdatesOnly
<1>4. ASSUME NEW id \in Id, Command(id) PROVE SafeInv'
  BY <1>4 DEF Command, ContainerDelete, ContainerStop, ContainerStart, Requested, UpdatesOnly
<1>5. ASSUME NEW a \in App, Publish(a) PROVE SafeInv'
  BY <1>5, QuietSafe DEF Publish, daemon
<1>6. CASE Crash
  BY <1>6 DEF Crash, SafeInv, OpSafe, RecSafe, Idle
<1>7. CASE Restart
  <2>1. /\ rec'.pc = "list" /\ snapshots' = disk' /\ op' = op
        /\ \A t \in Thread : op[t].pc = "idle"
    BY <1>7 DEF Restart, NoRec, IInv, OpShape
  <2> QED BY <2>1 DEF SafeInv, OpSafe, RecSafe
<1>8. CASE Recover
  <2>1. \A t \in Thread : OpSafe(t)'
    BY <1>8, RecoverSteps DEF OpSafe, IInv, OpShape
  <2> QED BY <1>8, <2>1, RecoverSafe DEF SafeInv
<1>9. CASE Rest \/ UNCHANGED vars
  <2>1. UNCHANGED <<ctr, store, op, agent, rec, spent>>
    BY <1>9 DEF Rest, vars, store
  <2> QED BY <2>1, QuietSafe
<1> QED
  BY <1>1, <1>2, <1>3, <1>4, <1>5, <1>6, <1>7, <1>8, <1>9 DEF Next, OpMoves

-----------------------------------------------------------------------------
(* Removals.                                                               *)

\* An operation removes its old container when the file is written, and its new
\* one when that has not run or the old one is still there.
LEMMA OperationRemoves ==
  ASSUME IInv, SafeInv, NEW u \in Thread, OpMoves(u), NEW id \in Id, NEW a \in App,
         LastRemoved(id, a)
  PROVE  HasFile(id)
<1>1. id \in 1..lastId /\ ctr'[id] # ctr[id] /\ ctr'[id].state = "gone"
  BY DEF LastRemoved, IInv, Born, Live
<1>2. op[u].pc # "idle" => Sound(op[u]) /\ Safe(op[u]) /\ op[u] \in Op
  BY DEF IInv, OpShape, SafeInv, OpSafe, TypeOK
<1>3. CASE Remove(u)
  <2>1. op[u].pc = "remove" /\ id = op[u].id /\ UNCHANGED disk
    BY <1>1, <1>3 DEF Remove, At, SetState, IInv, TypeOK, store
  <2> QED BY <1>2, <2>1 DEF Safe, Saved, Describes, HasFile
<1>4. CASE StartFails(u) \/ PortConflict(u) \/ DiscardRemove(u)
  <2>1. /\ op[u].pc \in {"start", "discardRemove"} /\ id = op[u].newId /\ UNCHANGED disk
        /\ \A i \in Id \ {id} : ctr'[i] = ctr[i]
    BY <1>1, <1>4 DEF StartFails, PortConflict, DiscardRemove, At, SetState, IInv, TypeOK, store
  <2>2. CASE op[u].kind = "update"
    <3>1. op[u].pc = "start"
      BY <1>2, <2>1, <2>2 DEF Sound, OnPath
    <3>2. /\ ctr[id].state = "created" /\ ctr[id].name = op[u].key
          /\ op[u].snap \in disk /\ op[u].snap.name = op[u].key
      BY <1>2, <2>1, <2>2, <3>1 DEF Safe, Saved, Sound
    <3> QED BY <2>1, <3>2 DEF HasFile
  <2>3. CASE op[u].kind = "blueGreen"
    <3>1. Live(op[u].id) /\ ctr[op[u].id].name = op[u].key
          /\ ctr[id].name = TempName(op[u].key) /\ ~op[u].key.temp
      BY <1>2, <2>1, <2>3 DEF Safe, Beside, Sound
    <3>2. op[u].id # id /\ ctr[op[u].id].name.app = ctr[id].name.app
      BY <3>1 DEF TempName
    <3>3. HasContainer(a)'
      BY <2>1, <3>1, <3>2 DEF HasContainer, Live, LastRemoved
    <3> QED BY <3>3 DEF LastRemoved
  <2> QED BY <1>2, <2>1, <2>2, <2>3 DEF Safe
<1>5. CASE Stop(u) \/ StartOld(u) \/ Start(u) \/ DiscardStop(u) \/ Rename(u)
  BY <1>1, <1>5
     DEF Stop, StartOld, Start, DiscardStop, Rename, SetState, LastRemoved, Live, IInv, TypeOK,
         Container
<1>6. CASE Create(u)
  BY <1>1, <1>6 DEF Create, NewContainer, IInv, TypeOK
<1>7. CASE UNCHANGED ctr
  BY <1>1, <1>7
<1> QED
  BY <1>3, <1>4, <1>5, <1>6, <1>7
     DEF OpMoves, OpStep, LockContainer, Relock, Inspect, InspectRejects, PullTag, PullPinned,
         PullFails, Reinspect, ReinspectFails, SaveSnapshot, SaveSnapshotFails, StopFails,
         RemoveFails, RemoveTakenForGone, CreateFails, Healthy, Unhealthy, daemon

\* RecoverOrphans removes a temporary container when the original is there, and
\* one it has just created, and cannot start, when it has a file.
LEMMA RecoveryRemoves ==
  ASSUME IInv, SafeInv, Recover, NEW id \in Id, NEW a \in App, LastRemoved(id, a)
  PROVE  HasFile(id)
<1> USE DEF InRecovery
<1>1. /\ id \in 1..lastId /\ ctr'[id] # ctr[id] /\ ctr'[id].state = "gone" /\ ctr[id].state # "gone"
      /\ ctr[id] \in Container
  BY DEF LastRemoved, IInv, TypeOK, Born, Live
<1>2. RecSafe /\ RecShape /\ agent = "recovering" /\ rec \in Rec /\ UNCHANGED store
  BY RecoverSteps DEF SafeInv, IInv, TypeOK
<1>3. CASE RecoverTempRemove
  <2>1. rec.pc = "tempRemove" /\ rec.name.temp /\ rec.name \in Names
    BY <1>2, <1>3 DEF RecoverTempRemove, RecShape
  <2>2. ctr[id].name = rec.name
    BY <1>1, <1>3 DEF RecoverTempRemove, Named, IInv, TypeOK
  <2>3. ~OriginalName(rec.name).temp /\ OriginalName(rec.name).app = rec.name.app
    BY DEF OriginalName, Own
  <2>4. PICK i \in Id : Live(i) /\ ctr[i].name = OriginalName(rec.name)
    BY <1>2, <2>1, <2>3 DEF RecSafe, Named
  <2>5. ctr'[i] = ctr[i]
    BY <1>3, <2>1, <2>3, <2>4 DEF RecoverTempRemove, Named
  <2>6. HasContainer(a)'
    BY <2>2, <2>3, <2>4, <2>5 DEF HasContainer, Live, LastRemoved
  <2> QED BY <2>6 DEF LastRemoved
<1>4. CASE RecoverStart
  <2>1. id = rec.newId /\ rec.pc = "start"
    BY <1>1, <1>4 DEF RecoverStart, SetState, IInv, TypeOK
  <2> QED BY <1>2, <2>1 DEF RecSafe, HasFile, store
<1>5. ASSUME NEW n \in Names, RecoverTempStop(n) \/ RecoverTempRename(n) PROVE FALSE
  BY <1>1, <1>5 DEF RecoverTempStop, RecoverTempRename, Container
<1>6. ASSUME NEW s \in snapshots, RecoverCreate(s) PROVE FALSE
  BY <1>1, <1>6 DEF RecoverCreate, NewContainer, IInv, TypeOK
<1>7. CASE UNCHANGED ctr
  BY <1>1, <1>7
<1> QED
  BY <1>3, <1>4, <1>5, <1>6, <1>7
     DEF Recover, RecoverList, RecoverListFails, RecoverTempsDone, RecoverSkip,
         RecoverCreateFails, RecoverDone, daemon

\* The invariant holds throughout.
LEMMA SafeInvariant ==
  ASSUME UpdatesOnly
  PROVE  Spec => []SafeInv
<1>1. IInv /\ SafeInv /\ [Next]_vars => SafeInv'
  BY StepSafe
<1> QED BY <1>1, InitSafe, UpdaterInvariant, PTL DEF Spec

\* Whatever updates do to a host, in whatever order, with whatever daemon calls
\* failing and crashes in between: UpdateContainer, BlueGreenUpdate and
\* RecoverOrphans remove an app's last container only when snapshotDir() has the file
\* to bring it back from: with the digest of its image, or without if an inspection
\* has not found one.
THEOREM RemovalsAreRecoverable ==
  ASSUME UpdatesOnly
  PROVE  Spec => RemovalIsRecoverable
<1>1. IInv /\ SafeInv /\ [Next]_vars =>
        [\A id \in Id, a \in App : LastRemoved(id, a) /\ a \notin deleted' => HasFile(id)]_vars
  <2> SUFFICES ASSUME IInv, SafeInv, [Next]_vars, NEW id \in Id, NEW a \in App,
                      LastRemoved(id, a)
               PROVE  HasFile(id)
    OBVIOUS
  <2>1. ~UNCHANGED ctr
    BY DEF LastRemoved, Live
  <2>2. \A i \in Id : ~Command(i)
    BY DEF Command, ContainerDelete, ContainerStop, ContainerStart, Requested, UpdatesOnly
  <2> QED
    BY <2>1, <2>2, OperationRemoves, RecoveryRemoves
       DEF Next, OpMoves, Begin, BeginRollback, Publish, Crash, Restart, Rest, vars, daemon
<1> QED
  BY <1>1, SafeInvariant, UpdaterInvariant, PTL DEF Spec, RemovalIsRecoverable

-----------------------------------------------------------------------------
(* Why blue-green keeps an app in service.                                 *)

\* CONTAINER_STOP and CONTAINER_DELETE may take away the container a blue-green
\* update relies on: the theorem is about all the operations.
OperationsOnly == Kind \cap {"delete", "power"} = {}

\* The container a blue-green update has made does not run before it is tried,
\* and runs from then on until the old one is stopped.
Tried(o) ==
  o.kind = "blueGreen" =>
    /\ o.pc = "start" => ctr[o.newId].state = "created"
    /\ o.pc \in {"save", "stop"} => Running(o.newId)

TriedInv == \A t \in Thread : Tried(op[t])

\* The state of an operation that returns, or that is tried again.
LEMMA ReturnsIdle ==
  ASSUME IInv, NEW t \in Thread, Return(t)
  PROVE  op'[t] = Idle
  BY DEF IInv, TypeOK, Return

LEMMA FailedCreates ==
  ASSUME IInv, NEW t \in Thread, CreateFailed(t)
  PROVE  op'[t] = Idle \/ op'[t] = [op[t] EXCEPT !.pc = "create", !.newId = 0, !.restoring = TRUE]
  BY DEF IInv, TypeOK, CreateFailed, Return

LEMMA CreatesNew ==
  ASSUME IInv, NEW t \in Thread, Create(t)
  PROVE  /\ op[t].pc = "create" /\ agent = "up" /\ Sound(op[t])
         /\ op'[t].pc = "start" /\ op'[t].newId = lastId' /\ op'[t].kind = op[t].kind
         /\ op'[t].id = op[t].id /\ op'[t].key = op[t].key /\ op'[t].snap = op[t].snap
         /\ op'[t].restoring = op[t].restoring
         /\ lastId' = lastId + 1 /\ lastId' \in Id
         /\ ctr'[lastId'].state = "created" /\ ctr'[lastId'].name = CreateName(op[t])
         /\ CreateName(op[t]) = IF op[t].kind = "blueGreen" THEN TempName(op[t].key) ELSE op[t].key
         /\ Named(CreateName(op[t])) = {}
         /\ \A i \in 1..lastId : ctr'[i] = ctr[i]
<1>1. op[t].pc = "create" /\ agent = "up" /\ Sound(op[t]) /\ op[t] \in Op
  BY DEF Create, At, IInv, TypeOK, OpShape
<1>2. /\ CreateName(op[t]) \in Names /\ CreateImage(op[t]) \in Ref
      /\ CreateName(op[t]) = IF op[t].kind = "blueGreen" THEN TempName(op[t].key) ELSE op[t].key
  BY <1>1, CreatesFromRef DEF CreateName, Sound, TempName, Names
<1>3. NewContainer(CreateName(op[t]), CreateImage(op[t]))
  BY DEF Create
<1>4. op' = [op EXCEPT ![t] = [@ EXCEPT !.pc = "start", !.newId = lastId']]
  BY DEF Create
<1>5. /\ op'[t].pc = "start" /\ op'[t].newId = lastId' /\ op'[t].kind = op[t].kind
      /\ op'[t].id = op[t].id /\ op'[t].key = op[t].key /\ op'[t].snap = op[t].snap
      /\ op'[t].restoring = op[t].restoring
  BY <1>1, <1>4 DEF IInv, TypeOK, Op
<1>6. Named(CreateName(op[t])) = {}
  BY <1>3 DEF NewContainer
<1> QED BY <1>1, <1>2, <1>3, <1>5, <1>6, NewContainerKeeps DEF IInv

\* A step of one operation is none of another.
LEMMA OthersStay ==
  ASSUME IInv, NEW u \in Thread, OpMoves(u), NEW t \in Thread \ {u}
  PROVE  op'[t] = op[t]
<1>1. CASE Rename(u)
  BY <1>1 DEF Rename, Return, IInv, TypeOK
<1>2. CASE ~Rename(u)
  BY <1>2, FirstSteps, LaterSteps DEF OpMoves, OpStep, OpFine, OnlyOp
<1> QED BY <1>1, <1>2

LEMMA TriedOwn ==
  ASSUME IInv, TriedInv, NEW t \in Thread, OpMoves(t)
  PROVE  Tried(op[t])'
<1> USE DEF At
<1>1. op[t].pc # "idle" => op[t] \in Op /\ Sound(op[t])
  BY DEF IInv, TypeOK, OpShape
<1>2. ASSUME op'[t].kind = "blueGreen" => op'[t].pc \notin {"start", "save", "stop"}
      PROVE  Tried(op[t])'
  BY <1>2 DEF Tried
<1>3. Idle.pc = "idle"
  BY DEF Idle
<1>4. CASE Create(t)
  BY <1>4, CreatesNew DEF Tried
<1>5. CASE Healthy(t)
  <2>1. op'[t].pc = "save" /\ op'[t].newId = op[t].newId /\ Running(op[t].newId) /\ UNCHANGED ctr
    BY <1>5, GotoFields DEF Healthy, daemon
  <2> QED BY <2>1 DEF Tried, Running
<1>6. CASE SaveSnapshot(t) \/ SaveSnapshotFails(t)
  <2>1. /\ op'[t].pc = "stop" /\ op'[t].newId = op[t].newId /\ op'[t].kind = op[t].kind
        /\ op[t].pc = "save" /\ UNCHANGED ctr
    BY <1>6, GotoFields DEF SaveSnapshot, SaveSnapshotFails, daemon
  <2> QED BY <2>1 DEF Tried, TriedInv, Running
<1>7. CASE LockContainer(t)
  <2>1. op'[t].pc = (IF op[t].kind = "rollback" THEN "stop" ELSE "inspect")
        /\ op'[t].kind = op[t].kind
    BY <1>7 DEF LockContainer, IInv, TypeOK, Op
  <2> QED BY <1>2, <2>1
<1>8. CASE Inspect(t)
  <2>1. op'[t].pc = "pull"
    BY <1>8 DEF Inspect, IInv, TypeOK, Op
  <2> QED BY <1>2, <2>1
<1>9. CASE PullPinned(t) \/ Reinspect(t)
  <2>1. op'[t].kind = op[t].kind
    BY <1>9 DEF PullPinned, Reinspect, IInv, TypeOK, Op
  <2>2. op[t].kind # "blueGreen"
    BY <1>1, <1>9 DEF PullPinned, Reinspect, Sound, OnPath
  <2> QED BY <1>2, <2>1, <2>2
<1>10. CASE Relock(t)
  <2>1. op'[t].pc = "reinspect"
    BY <1>10 DEF Relock, IInv, TypeOK, Op
  <2> QED BY <1>2, <2>1
<1>11. CASE Return(t)
  BY <1>2, <1>3, <1>11, ReturnsIdle
<1>12. ASSUME NEW s \in {"relock", "create", "remove", "rename", "startOld", "health", "discardStop",
                         "discardRemove"}, Goto(t, s)
       PROVE  Tried(op[t])'
  BY <1>2, <1>12, GotoFields
<1>13. CASE CreateFails(t) \/ StartFails(t)
  <2>1. op'[t].pc = "create" \/ op'[t] = Idle
    BY <1>1, <1>13, FailedCreates DEF CreateFails, StartFails, Op
  <2> QED BY <1>2, <1>3, <2>1
<1>14. CASE PortConflict(t)
  <2>1. op'[t].pc = "lock" \/ op'[t] = Idle
    BY <1>14 DEF PortConflict, Idle, IInv, TypeOK
  <2> QED BY <1>2, <1>3, <2>1
<1> QED
  BY <1>4, <1>5, <1>6, <1>7, <1>8, <1>9, <1>10, <1>11, <1>12, <1>13, <1>14
     DEF OpMoves, OpStep, InspectRejects, PullTag, PullFails, ReinspectFails, Stop, StopFails,
         Remove, RemoveFails, RemoveTakenForGone, AfterRemove, StartOld, Start, Unhealthy,
         DiscardStop, DiscardRemove, Rename

LEMMA TriedStep ==
  ASSUME OperationsOnly, IInv, TriedInv, [Next]_vars
  PROVE  TriedInv'
<1>1. ASSUME NEW u \in Thread, OpMoves(u), NEW t \in Thread PROVE Tried(op[t])'
  <2>1. CASE t = u
    BY <1>1, <2>1, TriedOwn
  <2>2. CASE t # u
    <3>1. op'[t] = op[t]
      BY <1>1, <2>2, OthersStay
    <3>2. ASSUME op[t].kind = "blueGreen", op[t].pc \in {"start", "save", "stop"}
          PROVE  ctr'[op[t].newId] = ctr[op[t].newId]
      <4>1. Sound(op[t]) /\ Holds(op[t])
        BY <3>2 DEF IInv, OpShape, Holds
      <4>2. op[t].newId \in 1..lastId /\ ctr[op[t].newId].name.app = op[t].key.app
        <5>1. op[t].newId # 0
          BY <3>2, <4>1 DEF Sound, TriedInv, Tried, Running, Id
        <5> QED BY <3>2, <4>1, <5>1 DEF Sound, TempName
      <4> QED BY <1>1, <2>2, <3>2, <4>1, <4>2, Isolated
    <3> QED BY <3>1, <3>2 DEF TriedInv, Tried, Running
  <2> QED BY <2>1, <2>2
<1>2. ASSUME NEW t \in Thread,
             \/ \E k \in Kind, id \in Id, target \in Digest : Begin(t, k, id, target)
             \/ \E s \in snapshots : BeginRollback(t, s)
      PROVE  TriedInv'
  <2>1. PICK o : o.pc = "lock" /\ op' = [op EXCEPT ![t] = o] /\ UNCHANGED ctr
    BY <1>2 DEF Begin, BeginRollback, daemon, Idle
  <2>2. op'[t].pc = "lock" /\ \A u \in Thread \ {t} : op'[u] = op[u]
    BY <2>1 DEF IInv, TypeOK
  <2> QED BY <2>1, <2>2 DEF TriedInv, Tried, Running
<1>3. ASSUME NEW id \in Id, Command(id) PROVE FALSE
  BY <1>3 DEF Command, ContainerDelete, ContainerStop, ContainerStart, Requested, OperationsOnly
<1>4. CASE (\E a \in App : Publish(a)) \/ Rest \/ UNCHANGED vars
  <2>1. UNCHANGED <<ctr, op>>
    BY <1>4 DEF Publish, Rest, vars, daemon
  <2> QED BY <2>1 DEF TriedInv, Tried, Running
<1>5. CASE Crash \/ Restart \/ Recover
  <2>1. \A t \in Thread : op'[t].pc = "idle"
    BY <1>5, RecoverSteps DEF Crash, Restart, IInv, OpShape, Idle
  <2> QED BY <2>1 DEF TriedInv, Tried
<1> QED BY <1>1, <1>2, <1>3, <1>4, <1>5 DEF Next, OpMoves, TriedInv

\* The step of a blue-green update leaves a server of each app that had one.
LEMMA StaysInService ==
  ASSUME IInv, TriedInv, NEW t \in Thread, OpMoves(t), op[t].kind = "blueGreen",
         NEW a \in App, ServedBeside(t, a)
  PROVE  Serving(a)'
<1> USE DEF At
<1>1. PICK id \in Id : Running(id) /\ ctr[id].name.app = a /\ ~OnTrial(t, id)
  BY DEF ServedBeside
<1>2. ASSUME NEW i \in Id, ctr'[i].state = "running", ctr'[i].name.app = a PROVE Serving(a)'
  BY <1>2 DEF Serving, Running
<1>3. op[t].pc # "idle" => Sound(op[t])
  BY DEF IInv, OpShape
<1>4. CASE ctr'[id] = ctr[id]
  BY <1>1, <1>2, <1>4 DEF Running
<1>5. CASE Stop(t)
  <2>1. /\ Running(op[t].newId) /\ Sound(op[t]) /\ op[t].newId # op[t].id
        /\ ctr[op[t].newId].name.app = op[t].key.app /\ ctr[op[t].id].name.app = op[t].key.app
    <3>1. Running(op[t].newId) /\ Sound(op[t]) /\ op[t].newId # 0
      BY <1>3, <1>5 DEF Stop, TriedInv, Tried, Running, Id
    <3> QED BY <3>1 DEF Sound, TempName
  <2>2. \A i \in Id \ {op[t].id} : ctr'[i] = ctr[i]
    BY <1>5 DEF Stop, SetState, IInv, TypeOK
  <2>3. CASE id = op[t].id
    BY <1>1, <1>2, <2>1, <2>2, <2>3 DEF Running
  <2> QED BY <1>4, <2>2, <2>3
<1>6. CASE Remove(t)
  BY <1>1, <1>4, <1>6 DEF Remove, SetState, Running, IInv, TypeOK
<1>7. CASE StartFails(t) \/ PortConflict(t)
  <2>1. ctr[op[t].newId].state = "created" /\ \A i \in Id \ {op[t].newId} : ctr'[i] = ctr[i]
    BY <1>7 DEF StartFails, PortConflict, SetState, TriedInv, Tried, IInv, TypeOK
  <2> QED BY <1>1, <1>4, <2>1 DEF Running
<1>8. CASE DiscardStop(t) \/ DiscardRemove(t)
  <2>1. \A i \in Id \ {op[t].newId} : ctr'[i] = ctr[i]
    BY <1>8 DEF DiscardStop, DiscardRemove, SetState, IInv, TypeOK
  <2> QED BY <1>1, <1>4, <1>8, <2>1 DEF DiscardStop, DiscardRemove, OnTrial
<1>9. CASE Start(t)
  <2>1. ctr' = [ctr EXCEPT ![op[t].newId].state = "running"]
    BY <1>9 DEF Start, SetState
  <2>2. ctr'[id].state = "running" /\ ctr'[id].name = ctr[id].name
    BY <1>1, <2>1 DEF IInv, TypeOK, Running, Container
  <2> QED BY <1>1, <1>2, <2>2
<1>10. CASE Rename(t)
  <2>1. op[t].pc = "rename" /\ Sound(op[t])
    BY <1>3, <1>10 DEF Rename
  <2>2. CASE Live(op[t].newId) /\ ctr' = [ctr EXCEPT ![op[t].newId].name = op[t].snap.name]
    <3>1. ctr'[id].state = ctr[id].state
      BY <2>2 DEF IInv, TypeOK, Container
    <3>2. id # op[t].newId => ctr'[id] = ctr[id]
      BY <2>2 DEF IInv, TypeOK
    <3>3. id = op[t].newId => ctr'[id].name = op[t].snap.name
      BY <2>2 DEF IInv, TypeOK, Container
    <3>4. id = op[t].newId => ctr[id].name.app = op[t].key.app /\ op[t].snap.name = op[t].key
      BY <2>1 DEF Sound, TempName, Id
    <3> QED BY <1>1, <1>2, <1>4, <3>1, <3>2, <3>3, <3>4 DEF Running
  <2> QED BY <1>4, <1>10, <2>2 DEF Rename
<1>11. CASE Create(t)
  <2>1. id \in 1..lastId
    BY <1>1 DEF IInv, Born, Live, Running
  <2> QED BY <1>4, <1>11, <2>1, CreatesNew
<1>12. CASE StartOld(t)
  BY <1>3, <1>12 DEF StartOld, Sound, OnPath
<1> QED
  BY <1>4, <1>5, <1>6, <1>7, <1>8, <1>9, <1>10, <1>11, <1>12
     DEF OpMoves, OpStep, LockContainer, Relock, Inspect, InspectRejects, PullTag, PullPinned,
         PullFails, Reinspect, ReinspectFails, SaveSnapshot, SaveSnapshotFails, StopFails,
         RemoveFails, RemoveTakenForGone, CreateFails, Healthy, Unhealthy, daemon

\* As long as nobody stops or deletes containers by hand, and whatever else goes on
\* or fails: a step of a blue-green update never ends the last running container of
\* an app, except the one it has on trial.
THEOREM BlueGreenKeepsService ==
  ASSUME OperationsOnly
  PROVE  Spec => BlueGreenNeverDark
<1>1. Init => TriedInv
  BY DEF Init, TriedInv, Tried, Idle
<1>2. IInv /\ TriedInv /\ [Next]_vars =>
        [\A t \in Thread :
           op[t].kind = "blueGreen" /\ op'[t] # op[t] /\ agent' = "up" =>
             \A a \in App : ServedBeside(t, a) => Serving(a)']_vars
  <2> SUFFICES ASSUME IInv, TriedInv, [Next]_vars, NEW t \in Thread,
                      op[t].kind = "blueGreen", op'[t] # op[t], agent' = "up",
                      NEW a \in App, ServedBeside(t, a)
               PROVE  Serving(a)'
    OBVIOUS
  <2>1. CASE UNCHANGED ctr
    BY <2>1 DEF ServedBeside, Serving, Running
  <2>2. ASSUME NEW u \in Thread, OpMoves(u) PROVE Serving(a)'
    <3>1. u = t
      BY <2>2, OthersStay
    <3> QED BY <2>2, <3>1, StaysInService
  <2>3. CASE Recover \/ Crash \/ Restart \/ \E id \in Id : Command(id)
    BY <2>1, <2>3, RecoverSteps
       DEF Crash, Restart, Command, ContainerDelete, ContainerStop, ContainerStart, daemon
  <2> QED
    BY <2>1, <2>2, <2>3
       DEF Next, OpMoves, Begin, BeginRollback, Publish, Rest, vars, daemon
<1>3. IInv /\ TriedInv /\ [Next]_vars => TriedInv'
  BY TriedStep
<1> QED BY <1>1, <1>2, <1>3, UpdaterInvariant, PTL DEF Spec, BlueGreenNeverDark

-----------------------------------------------------------------------------
(* The containers of an app.                                               *)

LiveOf(a) == {i \in Id : Live(i) /\ ctr[i].name.app = a}
Tmp(a) == TempName(Own(a))
NamesUnique == \A n \in Names : \A i, j \in Named(n) : i = j

\* The steps of one kind of container: it changes state, goes, or comes.
LEMMA StateChanges ==
  ASSUME IInv, NEW i \in Id, Live(i), NEW s \in {"running", "exited"}, SetState(i, s)
  PROVE  /\ \A a \in App : LiveOf(a)' = LiveOf(a)
         /\ \A n \in Names : Named(n)' = Named(n)
         /\ \A j \in Id : ctr'[j].name = ctr[j].name /\ (j # i => ctr'[j] = ctr[j])
         /\ ctr'[i].state = s
<1>1. \A j \in Id : /\ ctr'[j].name = ctr[j].name /\ (j # i => ctr'[j] = ctr[j])
                    /\ ctr'[i].state = s
  BY DEF SetState, IInv, TypeOK, Container
<1>2. \A j \in Id : Live(j)' <=> Live(j)
  BY <1>1 DEF Live
<1> QED BY <1>1, <1>2 DEF LiveOf, Named

LEMMA Goes ==
  ASSUME IInv, NEW i \in Id, SetState(i, "gone")
  PROVE  /\ \A a \in App : LiveOf(a)' = LiveOf(a) \ {i}
         /\ \A n \in Names : Named(n)' = Named(n) \ {i}
         /\ \A j \in Id : ctr'[j].name = ctr[j].name /\ (j # i => ctr'[j] = ctr[j])
<1>1. /\ \A j \in Id : ctr'[j].name = ctr[j].name /\ (j # i => ctr'[j] = ctr[j])
      /\ ctr'[i].state = "gone"
  BY DEF SetState, IInv, TypeOK, Container
<1>2. \A j \in Id : Live(j)' <=> Live(j) /\ j # i
  BY <1>1 DEF Live
<1> QED BY <1>1, <1>2 DEF LiveOf, Named

LEMMA Comes ==
  ASSUME IInv, NEW n \in Names, NEW ref \in Ref, NewContainer(n, ref)
  PROVE  /\ \A a \in App : LiveOf(a)' = LiveOf(a) \cup (IF n.app = a THEN {lastId'} ELSE {})
         /\ \A m \in Names : Named(m)' = Named(m) \cup (IF m = n THEN {lastId'} ELSE {})
         /\ \A j \in Id : Live(j) => ctr'[j] = ctr[j] /\ j # lastId'
         /\ Named(n) = {} /\ lastId' \in Id /\ ctr'[lastId'].name = n
<1>1. /\ lastId' = lastId + 1 /\ lastId' \in Id /\ Born'
      /\ ctr'[lastId'].name = n /\ ctr'[lastId'].state = "created"
      /\ \A i \in 1..lastId : ctr'[i] = ctr[i]
  BY NewContainerKeeps DEF IInv, Kept
<1>2. \A j \in Id : Live(j)' <=> Live(j) \/ j = lastId'
  <2>1. lastId \in Nat
    BY UpdaterAssumption DEF IInv, TypeOK
  <2>2. ASSUME NEW j \in Id PROVE Live(j)' <=> Live(j) \/ j = lastId'
    <3>1. CASE j \in 1..lastId
      BY <1>1, <2>1, <3>1 DEF Live
    <3>2. CASE j = lastId'
      BY <1>1, <3>2 DEF Live
    <3>3. CASE j \notin 1..lastId /\ j # lastId'
      <4>1. j \notin 1..lastId'
        BY <1>1, <2>1, <3>3 DEF Id
      <4> QED BY <1>1, <3>3, <4>1 DEF IInv, Born
    <3> QED BY <3>1, <3>2, <3>3
  <2> QED BY <2>2
<1>3. \A j \in Id : Live(j) => ctr'[j] = ctr[j] /\ j # lastId'
  BY <1>1, UpdaterAssumption DEF IInv, Born, TypeOK
<1>4. Named(n) = {}
  BY DEF NewContainer
<1> QED BY <1>1, <1>2, <1>3, <1>4 DEF LiveOf, Named

\* The two names an app's containers can have.
LEMMA TwoNames ==
  ASSUME IInv, NEW a \in App
  PROVE  /\ Own(a) \in Names /\ Tmp(a) \in Names /\ Own(a) # Tmp(a)
         /\ \A n \in Names : n.app = a => n = IF n.temp THEN Tmp(a) ELSE Own(a)
         /\ LiveOf(a) = Named(Own(a)) \cup Named(Tmp(a))
<1>1. Own(a) \in Names /\ Tmp(a) \in Names /\ Own(a) # Tmp(a) /\ Own(a).app = a /\ Tmp(a).app = a
  BY DEF Own, Tmp, TempName, Names
<1>2. \A n \in Names : n.app = a => n = IF n.temp THEN Tmp(a) ELSE Own(a)
  BY DEF Own, Tmp, TempName, Names
<1>3. \A i \in Id : ctr[i].name \in Names
  BY DEF IInv, TypeOK, Container
<1> QED BY <1>1, <1>2, <1>3 DEF LiveOf, Named

\* No operation moves a container to another app, and it touches its own app's only.
LEMMA AppsApart ==
  ASSUME IInv, NEW u \in Thread, OpMoves(u), NEW a \in App,
         ~Holds(op[u]) \/ op[u].key.app # a
  PROVE  /\ LiveOf(a)' = LiveOf(a)
         /\ \A i \in LiveOf(a) : ctr'[i] = ctr[i]
<1>1. ASSUME NEW i \in LiveOf(a) PROVE ctr'[i] = ctr[i]
  BY <1>1, Touches DEF LiveOf, IInv, Born
<1>2. ASSUME NEW i \in Id, Live(i)', ctr'[i].name.app = a PROVE i \in LiveOf(a)
  <2>1. CASE Create(u)
    <3>1. /\ Holds(op[u]) /\ CreateName(op[u]).app = op[u].key.app
          /\ CreateName(op[u]) \in Names /\ CreateImage(op[u]) \in Ref
          /\ NewContainer(CreateName(op[u]), CreateImage(op[u]))
      <4>1. op[u].pc = "create" /\ Sound(op[u]) /\ op[u] \in Op
        BY <2>1, CreatesNew DEF IInv, TypeOK
      <4>2. CreateName(op[u]) = IF op[u].kind = "blueGreen" THEN TempName(op[u].key) ELSE op[u].key
        BY <2>1, CreatesNew
      <4>3. CreateName(op[u]) \in Names /\ CreateImage(op[u]) \in Ref
        BY <2>1, <4>1, <4>2, CreatesFromRef DEF Sound, TempName, Names
      <4> QED BY <2>1, <4>1, <4>2, <4>3 DEF Holds, TempName, Create
    <3>2. CreateName(op[u]).app # a
      BY <3>1
    <3>3. LiveOf(a)' = LiveOf(a) \cup (IF CreateName(op[u]).app = a THEN {lastId'} ELSE {})
      BY <3>1, Comes
    <3>4. LiveOf(a)' = LiveOf(a)
      BY <3>2, <3>3
    <3> QED BY <1>2, <3>4 DEF LiveOf
  <2>2. CASE ~Create(u)
    <3>1. UNCHANGED lastId
      BY <2>2 DEF OpMoves, OpStep, LockContainer, Relock, Inspect, InspectRejects, PullTag,
         PullPinned, PullFails, Reinspect, ReinspectFails, SaveSnapshot, SaveSnapshotFails, Stop,
         StopFails, Remove, RemoveFails, RemoveTakenForGone, StartOld, CreateFails, Start,
         StartFails, PortConflict, Healthy, Unhealthy, DiscardStop, DiscardRemove, Rename, daemon
    <3>2. Born'
      BY StepIInv DEF Next, OpMoves, IInv
    <3>3. i \in 1..lastId
      BY <1>2, <3>1, <3>2 DEF Born
    <3>4. CASE ctr'[i] = ctr[i]
      BY <1>2, <3>4 DEF LiveOf, Live
    <3>5. CASE ctr'[i] # ctr[i]
      <4>1. Holds(op[u]) /\ ctr[i].name.app = op[u].key.app
        BY <3>3, <3>5, Touches
      <4>2. ctr'[i].name.app = ctr[i].name.app
        <5>1. CASE Rename(u)
          <6>1. i = op[u].newId /\ ctr'[i].name = op[u].snap.name
            BY <3>5, <5>1 DEF Rename, IInv, TypeOK, Container
          <6>2. op[u].pc = "rename" /\ Sound(op[u])
            BY <5>1 DEF Rename, At, IInv, OpShape
          <6> QED BY <4>1, <6>1, <6>2 DEF Sound
        <5>2. CASE ~Rename(u)
          BY <3>3, <5>2, FirstSteps, LaterSteps DEF OpMoves, OpStep, Kept
        <5> QED BY <5>1, <5>2
      <4> QED BY <1>2, <4>1, <4>2
    <3> QED BY <3>4, <3>5
  <2> QED BY <2>1, <2>2
<1>3. \A i \in LiveOf(a) : Live(i)' /\ ctr'[i].name.app = a
  BY <1>1 DEF LiveOf, Live
<1>4. \A i \in LiveOf(a)' : i \in Id /\ Live(i)' /\ ctr'[i].name.app = a
  BY DEF LiveOf
<1>5. LiveOf(a)' \subseteq LiveOf(a)
  BY <1>2, <1>4
<1>6. LiveOf(a) \subseteq LiveOf(a)'
  BY <1>3 DEF LiveOf
<1> QED BY <1>1, <1>5, <1>6

\* Operations that hold their locks work on different apps.
LEMMA Exclusive ==
  ASSUME IInv, NEW t \in Thread, NEW u \in Thread \ {t}, Holds(op[t]), Holds(op[u])
  PROVE  op[t].key.app # op[u].key.app
<1>1. Sound(op[t]) /\ Sound(op[u]) /\ LockShape(t) /\ LockShape(u)
  BY DEF IInv, OpShape, Holds
<1> QED BY <1>1 DEF Sound, Names, LockShape

\* The daemon's names stay unique.
LEMMA UniqueMoves ==
  ASSUME IInv, NamesUnique, NEW u \in Thread, OpMoves(u)
  PROVE  NamesUnique'
<1> USE DEF At
<1>1. CASE Create(u)
  <2>1. op[u].pc = "create" /\ Sound(op[u]) /\ op[u] \in Op
    BY <1>1, CreatesNew DEF IInv, TypeOK
  <2>2. CreateName(op[u]) \in Names /\ CreateImage(op[u]) \in Ref
    BY <1>1, <2>1, CreatesFromRef DEF CreateName, Sound, TempName, Names
  <2>3. NewContainer(CreateName(op[u]), CreateImage(op[u]))
    BY <1>1 DEF Create
  <2> QED BY <2>2, <2>3, Comes DEF NamesUnique
<1>2. ASSUME NEW i \in Id, Live(i), NEW s \in {"running", "exited"}, SetState(i, s)
      PROVE  NamesUnique'
  BY <1>2, StateChanges DEF NamesUnique
<1>3. ASSUME NEW i \in Id, SetState(i, "gone") PROVE NamesUnique'
  BY <1>3, Goes DEF NamesUnique
<1>4. CASE UNCHANGED ctr
  BY <1>4 DEF NamesUnique, Named, Live
<1>5. CASE Rename(u)
  <2>1. CASE Named(op[u].snap.name) = {} /\ Live(op[u].newId)
             /\ ctr' = [ctr EXCEPT ![op[u].newId].name = op[u].snap.name]
    <3>1. \A i \in Id : /\ ctr'[i].state = ctr[i].state
                        /\ i # op[u].newId => ctr'[i].name = ctr[i].name
                        /\ i = op[u].newId => ctr'[i].name = op[u].snap.name
      BY <2>1 DEF IInv, TypeOK, Container
    <3>2. \A n \in Names : Named(n)' \subseteq IF n = op[u].snap.name THEN {op[u].newId} ELSE Named(n)
      BY <2>1, <3>1 DEF Named, Live
    <3> QED BY <3>2 DEF NamesUnique
  <2> QED BY <1>4, <1>5, <2>1 DEF Rename
<1>6. CASE Stop(u) \/ StartOld(u) \/ Start(u) \/ DiscardStop(u)
  <2>1. UNCHANGED ctr \/ \E i \in Id, s \in {"running", "exited"} : Live(i) /\ SetState(i, s)
    BY <1>6 DEF Stop, StartOld, Start, DiscardStop, Live, Running
  <2> QED BY <1>2, <1>4, <2>1
<1>7. CASE Remove(u) \/ StartFails(u) \/ PortConflict(u) \/ DiscardRemove(u)
  <2>1. UNCHANGED ctr \/ \E i \in Id : SetState(i, "gone")
    BY <1>7 DEF Remove, StartFails, PortConflict, DiscardRemove, Live
  <2> QED BY <1>3, <1>4, <2>1
<1> QED
  BY <1>1, <1>4, <1>5, <1>6, <1>7
     DEF OpMoves, OpStep, LockContainer, Relock, Inspect, InspectRejects, PullTag, PullPinned,
         PullFails, Reinspect, ReinspectFails, SaveSnapshot, SaveSnapshotFails, StopFails,
         RemoveFails, RemoveTakenForGone, CreateFails, Healthy, Unhealthy, daemon

-----------------------------------------------------------------------------
(* Why one failure leaves every app in service.                            *)

\* Rollbacks replace a container that need not run, and CONTAINER_STOP or
\* CONTAINER_DELETE take one out of service on request: the theorems on service and
\* on names are about the rest.
UpdatesAlone == Kind \subseteq {"update", "blueGreen"}

\* The part of an update during which its app may be without a running container.
Window(o) == o.kind = "update" /\ o.pc \in {"remove", "startOld", "create", "start"}

\* The digest an update would go back to is known, unless an inspection missed it.
Known(o) == o.snap.digest # NoDigest \/ spent.blind > 0

\* What each operation has left of its app. An update turns back, to the old container
\* or to the old image, because of the one failure, and knows that image because no
\* other went wrong; a blue-green update keeps the old container running until the new
\* one has been tried.
Serves(o) ==
  /\ o.kind \in {"update", "blueGreen"}
  /\ o.kind = "update" =>
       /\ o.pc \in {"save", "stop", "remove", "startOld"} => Live(o.id)
       /\ o.pc = "remove" => ~Running(o.id)
       /\ o.pc = "startOld" \/ o.restoring => spent.faults = 1
       /\ o.pc \in {"save", "stop", "remove", "create", "start"} => Known(o)
       /\ o.pc = "create" => Named(o.key) = {}
       /\ o.pc = "start" => Live(o.newId)
  /\ o.kind = "blueGreen" =>
       /\ o.pc \in {"pull", "create"} => Live(o.id)
       /\ o.pc \in {"start", "health", "save", "stop", "discardStop", "discardRemove"} =>
            Running(o.id)
OpServes(t) == op[t].pc # "idle" => Serves(op[t])

\* An app is in service, or an update is about to bring it back.
Provided(t, a) == Serving(a) \/ (Window(op[t]) /\ op[t].key.app = a)

\* The hypothesis of SingleFaultKeepsService, and what holds under it.
OneFault == spent.faults + spent.blind <= 1 /\ spent.swallowed = 0 /\ spent.crashes = 0
ServiceInv ==
  OneFault =>
    /\ agent = "up"
    /\ NamesUnique
    /\ \A t \in Thread : OpServes(t)
    /\ \A a \in App : Serving(a) \/ \E t \in Thread : Provided(t, a)

\* An update.
LEMMA UpdateServes ==
  ASSUME IInv, NamesUnique, OneFault', NEW t \in Thread, OpMoves(t),
         op[t].pc # "idle", op[t].kind = "update", Serves(op[t]),
         NEW a \in App, op[t].key.app = a, Provided(t, a)
  PROVE  OpServes(t)' /\ Provided(t, a)'
<1> USE DEF At
<1>1. op[t] \in Op /\ Sound(op[t]) /\ op[t].id \in Id
  BY UpdaterAssumption DEF IInv, TypeOK, OpShape, Sound, Id
<1>2. UNCHANGED ctr => (Serving(a) => Serving(a)')
  BY DEF Serving, Running
<1>3. Idle.pc = "idle"
  BY DEF Idle
<1>4. PICK k \in Names : k = op[t].key
  BY <1>1 DEF Sound
<1>14. PICK id \in Id, new \in Id \cup {0} : id = op[t].id /\ new = op[t].newId
  BY <1>1 DEF Op
<1>20. /\ OneFault /\ (spent.faults = 1 => spent'.faults = 1) /\ (OneFault => ~Faults(2))
       /\ op'[t].snap = op[t].snap /\ Known(op[t]) => Known(op[t])'
  BY Spends, Counts DEF OneFault, Known
<1>15. \A i \in Id : Live(i) /\ ctr[i].name = k => Named(k) = {i}
  BY DEF NamesUnique, Named
<1>5. CASE LockContainer(t) \/ Inspect(t) \/ InspectRejects(t) \/ PullTag(t) \/ PullFails(t)
           \/ Relock(t) \/ ReinspectFails(t)
  <2>1. op'[t] = Idle \/ /\ op'[t].kind = "update" /\ op'[t].restoring = op[t].restoring
                         /\ op'[t].pc \in {"inspect", "pull", "relock", "reinspect"}
    <3>1. CASE LockContainer(t)
      BY <3>1 DEF LockContainer, IInv, TypeOK, Op
    <3>4. CASE Inspect(t)
      BY <3>4 DEF Inspect, IInv, TypeOK, Op
    <3>5. CASE Relock(t)
      BY <3>5 DEF Relock, IInv, TypeOK, Op
    <3>2. CASE PullTag(t)
      BY <3>2, GotoFields DEF PullTag
    <3>3. CASE InspectRejects(t) \/ PullFails(t) \/ ReinspectFails(t)
      BY <3>3, ReturnsIdle DEF InspectRejects, PullFails, ReinspectFails
    <3> QED BY <1>5, <3>1, <3>2, <3>3, <3>4, <3>5
  <2>2. UNCHANGED ctr /\ ~Window(op[t])
    BY <1>5 DEF LockContainer, Inspect, InspectRejects, PullTag, PullFails, Relock,
       ReinspectFails, daemon, Window
  <2> QED BY <1>2, <1>3, <1>20, <2>1, <2>2 DEF OpServes, Serves, Provided
<1>6. CASE Reinspect(t)
  <2>1. /\ op'[t].kind = "update" /\ op'[t].restoring = op[t].restoring /\ op'[t].pc = "save"
        /\ op'[t].id = op[t].id
    BY <1>6 DEF Reinspect, IInv, TypeOK, Op
  <2>2. UNCHANGED ctr /\ ~Window(op[t]) /\ Live(op[t].id)
    BY <1>6 DEF Reinspect, daemon, Window
  <2>3. Known(op[t])'
    <3>1. PICK s \in {FullSnapshot(id), BlindSnapshot(id)} :
            InspectContainer(id, s) /\ op' = [op EXCEPT ![t].pc = "save", ![t].snap = s]
      BY <1>6, <1>14 DEF Reinspect
    <3>2. op'[t].snap = s
      BY <3>1 DEF IInv, TypeOK, Op
    <3>3. s.digest # NoDigest \/ spent'.blind > 0
      <4>1. ctr[id].digest # NoDigest
        BY <1>14 DEF IInv, TypeOK, Container, Digest, NoDigest
      <4>2. s = FullSnapshot(id) \/ spent'.blind > 0
        BY <1>14, <3>1, InspectCounts
      <4> QED BY <4>1, <4>2 DEF FullSnapshot
    <3> QED BY <3>2, <3>3 DEF Known
  <2> QED BY <1>2, <1>20, <2>1, <2>2, <2>3 DEF OpServes, Serves, Provided, Live
<1>7. CASE SaveSnapshot(t) \/ SaveSnapshotFails(t)
  <2>1. UNCHANGED ctr /\ Goto(t, "stop") /\ op[t].pc = "save"
    BY <1>7 DEF SaveSnapshot, SaveSnapshotFails, daemon
  <2> QED BY <1>2, <1>20, <2>1, GotoFields DEF OpServes, Serves, Provided, Live, Window
<1>8. CASE Stop(t)
  <2>1. /\ op[t].pc = "stop" /\ Goto(t, "remove") /\ Live(id)
        /\ IF Running(id) THEN SetState(id, "exited") ELSE UNCHANGED ctr
    BY <1>8, <1>14 DEF Stop
  <2>2. Live(id)' /\ ~Running(id)'
    <3>1. CASE Running(id)
      BY <2>1, <3>1, StateChanges DEF Live, Running
    <3>2. CASE ~Running(id)
      BY <2>1, <3>2 DEF Live, Running
    <3> QED BY <3>1, <3>2
  <2>3. /\ op'[t].pc = "remove" /\ op'[t].kind = "update" /\ op'[t].id = id
        /\ op'[t].key = op[t].key /\ op'[t].restoring = op[t].restoring
        /\ op'[t].snap = op[t].snap
    BY <1>14, <2>1, GotoFields
  <2> QED
    BY <1>4, <1>20, <2>1, <2>2, <2>3 DEF OpServes, Serves, Provided, Window, Live, Running
<1>9. CASE StopFails(t)
  <2>1. UNCHANGED ctr /\ op'[t] = Idle /\ op[t].pc = "stop"
    BY <1>9, ReturnsIdle DEF StopFails, daemon
  <2> QED BY <1>2, <1>3, <2>1 DEF OpServes, Provided, Window
<1>10. CASE Remove(t)
  <2>1. op[t].pc = "remove" /\ Live(id) /\ Goto(t, "create") /\ SetState(id, "gone")
    BY <1>10, <1>14 DEF Remove, AfterRemove, Serves
  <2>2. Named(k)' = {}
    <3>1. Named(k) = {id}
      BY <1>1, <1>4, <1>14, <1>15, <2>1 DEF Sound
    <3> QED BY <2>1, <3>1, Goes
  <2>3. /\ op'[t].pc = "create" /\ op'[t].kind = "update" /\ op'[t].key = k
        /\ op'[t].restoring = op[t].restoring /\ op'[t].snap = op[t].snap
    BY <1>4, <2>1, GotoFields
  <2> QED
    BY <1>4, <1>20, <2>1, <2>2, <2>3 DEF OpServes, Serves, Provided, Window, Named, Live
<1>11. CASE RemoveFails(t)
  <2>1. /\ op[t].pc = "remove" /\ Live(id) /\ Goto(t, "startOld") /\ UNCHANGED ctr
        /\ Fault
    BY <1>11, <1>14 DEF RemoveFails, Serves, daemon
  <2>2. spent'.faults = 1
    BY <1>20, <2>1, Counts DEF OneFault
  <2>3. /\ op'[t].pc = "startOld" /\ op'[t].kind = "update" /\ op'[t].key = k /\ op'[t].id = id
    BY <1>4, <1>14, <2>1, GotoFields
  <2> QED BY <1>4, <2>1, <2>2, <2>3 DEF OpServes, Serves, Provided, Window, Live
<1>12. CASE StartOld(t)
  <2>1. op[t].pc = "startOld" /\ Live(id) /\ spent.faults = 1 /\ op'[t] = Idle
    BY <1>12, <1>14, ReturnsIdle DEF StartOld, Serves
  <2>2. SetState(id, "running")
    BY <1>12, <1>14, <1>20, <2>1, Counts DEF StartOld, OneFault
  <2>3. ctr'[id].state = "running" /\ ctr'[id].name = ctr[id].name
    BY <2>1, <2>2, StateChanges
  <2>4. Serving(a)'
    BY <1>1, <1>14, <2>3 DEF Serving, Running, Sound
  <2> QED BY <1>3, <2>1, <2>4 DEF OpServes, Provided
<1>13. CASE Create(t)
  <2>1. /\ op[t].pc = "create" /\ op'[t].pc = "start" /\ op'[t].newId = lastId'
        /\ op'[t].kind = "update" /\ op'[t].key = op[t].key
        /\ op'[t].restoring = op[t].restoring /\ op'[t].snap = op[t].snap
        /\ lastId' \in Id /\ ctr'[lastId'].state = "created"
    BY <1>13, CreatesNew DEF Create
  <2> QED BY <1>20, <2>1 DEF OpServes, Serves, Provided, Window, Live
<1>16. ASSUME CreateFailed(t), spent'.faults = 1, ~op[t].restoring, Named(k)' = {}, Known(op[t])
       PROVE  OpServes(t)' /\ Provided(t, a)'
  <2>1. op' = [op EXCEPT ![t] = [@ EXCEPT !.pc = "create", !.newId = 0, !.restoring = TRUE]]
    BY <1>16 DEF CreateFailed
  <2>2. /\ op'[t].pc = "create" /\ op'[t].kind = "update" /\ op'[t].key = k
        /\ op'[t].snap = op[t].snap
    BY <1>1, <1>4, <2>1 DEF IInv, TypeOK, Op
  <2> QED BY <1>4, <1>16, <1>20, <2>2 DEF OpServes, Serves, Provided, Window, Named, Live
<1>17. CASE CreateFails(t)
  <2>1. op[t].pc = "create" /\ Named(k) = {} /\ CreateFailed(t) /\ UNCHANGED ctr
        /\ Known(op[t])
    BY <1>4, <1>17 DEF CreateFails, Serves, daemon
  <2>2. CreateName(op[t]) = k
    BY <1>1, <1>4, <2>1 DEF CreateName, Sound
  <2>6. CreateImage(op[t]) # NoDigest
    <3>1. CASE op[t].restoring
      <4>1. spent.blind = 0
        BY <1>20, <3>1, Counts DEF Serves, OneFault
      <4> QED BY <2>1, <3>1, <4>1 DEF CreateImage, Known
    <3>2. CASE ~op[t].restoring
      BY <1>1, <3>2 DEF CreateImage, Op, Ref, FloatingTag, Digest, NoDigest
    <3> QED BY <3>1, <3>2
  <2>3. Fault
    BY <1>17, <2>1, <2>2, <2>6 DEF CreateFails
  <2>4. spent'.faults = 1 /\ spent.faults = 0
    BY <1>20, <2>3, Counts DEF OneFault
  <2>5. ~op[t].restoring /\ Named(k)' = {}
    BY <2>1, <2>4 DEF Serves, Named, Live
  <2> QED BY <1>16, <2>1, <2>4, <2>5
<1>18. CASE Start(t)
  <2>1. op[t].pc = "start" /\ Live(new) /\ SetState(new, "running") /\ op'[t] = Idle
    BY <1>14, <1>18, ReturnsIdle DEF Start
  <2>2. new \in Id /\ ctr'[new].state = "running" /\ ctr'[new].name = ctr[new].name
    BY <2>1, StateChanges DEF Live
  <2>3. Serving(a)'
    BY <1>1, <1>14, <2>1, <2>2 DEF Serving, Running, Sound
  <2> QED BY <1>3, <2>1, <2>3 DEF OpServes, Provided
<1>19. CASE StartFails(t)
  <2>1. op[t].pc = "start" /\ Live(new) /\ CreateFailed(t) /\ Known(op[t])
    BY <1>14, <1>19 DEF StartFails, Serves
  <2>2. SetState(new, "gone") /\ spent'.faults = 1 /\ spent.faults = 0
    <3>1. \/ Fault /\ SetState(new, "gone")
          \/ Faults(2)
      BY <1>14, <1>19, <2>1 DEF StartFails
    <3> QED BY <1>20, <3>1, Counts DEF OneFault
  <2>3. ~op[t].restoring
    BY <2>1, <2>2 DEF Serves
  <2>4. Named(k) = {new}
    BY <1>1, <1>4, <1>14, <1>15, <2>1 DEF Sound, Live
  <2>5. Named(k)' = {}
    BY <2>1, <2>2, <2>4, Goes DEF Live
  <2> QED BY <1>16, <2>1, <2>2, <2>3, <2>5
<1>21. ASSUME RemoveTakenForGone(t) PROVE FALSE
  BY <1>20, <1>21, TakenForGoneCounts DEF OneFault
<1> QED
  BY <1>1, <1>5, <1>6, <1>7, <1>8, <1>9, <1>10, <1>11, <1>12, <1>13, <1>17, <1>18, <1>19,
     <1>21
     DEF OpMoves, OpStep, PullPinned, PortConflict, Healthy, Unhealthy, DiscardStop,
         DiscardRemove, Rename, Sound, OnPath

\* A blue-green update.
LEMMA BlueGreenServes ==
  ASSUME IInv, TriedInv, NamesUnique, NEW t \in Thread, OpMoves(t),
         op[t].pc # "idle", op[t].kind = "blueGreen", Serves(op[t]),
         NEW a \in App, op[t].key.app = a, Provided(t, a)
  PROVE  OpServes(t)' /\ Provided(t, a)'
<1> USE DEF At
<1>1. op[t] \in Op /\ Sound(op[t]) /\ Serving(a)
  BY DEF IInv, TypeOK, OpShape, Provided, Window
<1>2. PICK k \in Names, id \in Id, new \in Id \cup {0} :
        k = op[t].key /\ id = op[t].id /\ new = op[t].newId
  BY <1>1, UpdaterAssumption DEF Op, Sound, IInv, TypeOK, Id
<1>3. ctr[id].name = k /\ (new # 0 => ctr[new].name # k /\ new # id)
  BY <1>1, <1>2 DEF Sound, TempName
<1>4. Serving(a)'
  <2>1. ServedBeside(t, a)
    <3>1. PICK i \in Id : Running(i) /\ ctr[i].name.app = a
      BY <1>1 DEF Serving
    <3>2. CASE ~OnTrial(t, i)
      BY <3>1, <3>2 DEF ServedBeside
    <3>3. CASE OnTrial(t, i)
      <4>1. Running(id) /\ id # new /\ ctr[id].name.app = a
        BY <1>1, <1>2, <1>3, <3>3 DEF Serves, OnTrial, Sound
      <4> QED BY <1>2, <4>1 DEF ServedBeside, OnTrial
    <3> QED BY <3>2, <3>3
  <2> QED BY <2>1, StaysInService
<1>5. ASSUME op'[t].pc # "idle" => /\ op'[t].kind = "blueGreen" /\ op'[t].id = id
                                   /\ op'[t].pc \notin {"pull", "create"}
                                   /\ op'[t].pc \notin {"inspect", "remove", "rename"} => Running(id)'
      PROVE  OpServes(t)'
  BY <1>5 DEF OpServes, Serves, Running
<1>6. Idle.pc = "idle"
  BY DEF Idle
<1>7. CASE LockContainer(t)
  <2>1. op'[t].pc = "inspect" /\ op'[t].kind = "blueGreen" /\ op'[t].id = op[t].id
    BY <1>7 DEF LockContainer, IInv, TypeOK, Op
  <2> QED BY <1>2, <1>4, <1>5, <2>1 DEF Provided
<1>8. CASE Inspect(t)
  <2>1. PICK s : /\ Live(id) /\ op[t].pc = "inspect" /\ UNCHANGED ctr
                 /\ op' = [op EXCEPT ![t] = [@ EXCEPT !.pc = "pull", !.id = id, !.snap = s,
                                                      !.img = ResolveCheckRef(ctr[id].ref)]]
    BY <1>2, <1>8 DEF Inspect, Found, daemon
  <2>2. op'[t].pc = "pull" /\ op'[t].kind = "blueGreen" /\ op'[t].id = id
    BY <2>1 DEF IInv, TypeOK, Op
  <2> QED BY <1>4, <2>1, <2>2 DEF OpServes, Serves, Provided, Live
<1>9. CASE PullTag(t)
  <2>1. Live(id) /\ UNCHANGED ctr /\ Goto(t, "create")
    BY <1>2, <1>9 DEF PullTag, Serves, daemon
  <2> QED BY <1>2, <1>4, <2>1, GotoFields DEF OpServes, Serves, Provided, Live
<1>10. CASE Return(t)
  BY <1>4, <1>5, <1>6, <1>10, ReturnsIdle DEF Provided
<1>11. CASE Create(t)
  <2>1. /\ op[t].pc = "create" /\ op'[t].pc = "start" /\ op'[t].kind = "blueGreen"
        /\ op'[t].id = id /\ Named(TempName(k)) = {} /\ \A i \in 1..lastId : ctr'[i] = ctr[i]
    BY <1>2, <1>11, CreatesNew
  <2>2. PICK i \in Id : Running(i) /\ ctr[i].name.app = a
    BY <1>1 DEF Serving
  <2>3. ctr[i].name = k
    <3>1. ctr[i].name # TempName(k)
      BY <2>1, <2>2 DEF Named, Live, Running
    <3>2. ctr[i].name \in Names /\ k.app = a /\ ~k.temp
      BY <1>1, <1>2 DEF IInv, TypeOK, Container, Sound
    <3>3. \A n, m \in Names : n.app = m.app /\ n.temp = m.temp => n = m
      BY DEF Names
    <3>4. TempName(k) \in Names /\ TempName(k).app = a /\ TempName(k).temp
      BY <3>2 DEF TempName, Names
    <3>5. ~ctr[i].name.temp
      BY <2>2, <3>1, <3>2, <3>3, <3>4 DEF Names
    <3> QED BY <2>2, <3>2, <3>3, <3>5 DEF Names
  <2>4. Live(id)
    BY <1>2, <2>1 DEF Serves
  <2>5. i = id
    BY <1>3, <2>2, <2>3, <2>4 DEF NamesUnique, Named, Live, Running
  <2>6. Running(id)'
    BY <2>1, <2>2, <2>5 DEF Running, IInv, Born, Live
  <2> QED BY <1>4, <1>5, <2>1, <2>6 DEF Provided
<1>12. ASSUME NEW s \in {"health", "save", "stop", "remove", "discardStop", "discardRemove", "rename"},
              Goto(t, s), s \notin {"remove", "rename"} => Running(id)'
       PROVE  OpServes(t)' /\ Provided(t, a)'
  BY <1>2, <1>4, <1>5, <1>12, GotoFields DEF Provided
<1>13. CASE Start(t)
  <2>1. /\ op[t].pc = "start" /\ Live(new) /\ SetState(new, "running") /\ Goto(t, "health")
        /\ Running(id)
    BY <1>2, <1>13 DEF Start, Serves
  <2>2. ctr'[id] = ctr[id]
    BY <1>3, <2>1 DEF SetState, Live, Id
  <2> QED BY <1>12, <2>1, <2>2 DEF Running
<1>14. CASE StartFails(t)
  BY <1>10, <1>14 DEF StartFails, CreateFailed
<1>15. CASE CreateFails(t)
  BY <1>10, <1>15 DEF CreateFails, CreateFailed
<1>16. CASE PortConflict(t)
  <2>1. op' = [op EXCEPT ![t] = IF Live(id)
                THEN [Idle EXCEPT !.kind = "update", !.pc = "lock", !.id = id, !.key = ctr[id].name]
                ELSE Idle]
    BY <1>2, <1>16 DEF PortConflict
  <2>2. op'[t].pc = "idle" \/ (op'[t].pc = "lock" /\ op'[t].kind = "update" /\ ~op'[t].restoring)
    BY <2>1 DEF IInv, TypeOK, Idle
  <2> QED BY <1>4, <2>2 DEF OpServes, Serves, Provided
<1>17. CASE Healthy(t) \/ Unhealthy(t) \/ SaveSnapshot(t) \/ SaveSnapshotFails(t)
  <2>1. UNCHANGED ctr /\ Running(id) /\ \E s \in {"save", "stop", "discardStop"} : Goto(t, s)
    BY <1>2, <1>17 DEF Healthy, Unhealthy, SaveSnapshot, SaveSnapshotFails, daemon, Serves
  <2> QED BY <1>12, <2>1 DEF Running
<1>18. CASE Stop(t) \/ StopFails(t) \/ Remove(t) \/ RemoveFails(t)
  <2>1. \E s \in {"remove", "rename"} : Goto(t, s)
    BY <1>18 DEF Stop, StopFails, Remove, RemoveFails, AfterRemove
  <2> QED BY <1>12, <2>1
<1>19. CASE DiscardStop(t)
  <2>1. op[t].pc = "discardStop" /\ Running(id) /\ Goto(t, "discardRemove")
        /\ (UNCHANGED ctr \/ SetState(new, "exited"))
    BY <1>2, <1>19 DEF DiscardStop, Serves
  <2>2. ctr'[id] = ctr[id]
    <3>1. new # 0
      BY <1>1, <1>2, <2>1 DEF Sound
    <3> QED BY <1>2, <1>3, <2>1, <3>1 DEF SetState, IInv, TypeOK
  <2> QED BY <1>12, <2>1, <2>2 DEF Running
<1>21. ASSUME RemoveTakenForGone(t) PROVE FALSE
  BY <1>21 DEF RemoveTakenForGone
<1>20. CASE InspectRejects(t) \/ PullFails(t) \/ DiscardRemove(t) \/ Rename(t)
  BY <1>10, <1>20 DEF InspectRejects, PullFails, DiscardRemove, Rename
<1> QED
  BY <1>1, <1>7, <1>8, <1>9, <1>11, <1>13, <1>14, <1>15, <1>16, <1>17, <1>18, <1>19, <1>20,
     <1>21
     DEF OpMoves, OpStep, PullPinned, Relock, Reinspect, ReinspectFails, StartOld, Sound, OnPath

\* What an operation relies on, no other operation takes away.
LEMMA OthersServe ==
  ASSUME IInv, NEW u \in Thread, OpMoves(u), NEW t \in Thread \ {u}, OpServes(t),
         spent.faults = 1 => spent'.faults = 1
  PROVE  OpServes(t)'
<1>1. op'[t] = op[t] /\ (Known(op[t]) => Known(op[t])')
  BY OthersStay, Spends, Counts DEF Known
<1>2. CASE op[t].pc = "idle" \/ ~Holds(op[t])
  BY <1>1, <1>2 DEF OpServes, Serves, Holds
<1>3. CASE op[t].pc # "idle" /\ Holds(op[t])
  <2>1. Sound(op[t]) /\ op[t] \in Op /\ Serves(op[t])
    BY <1>3 DEF IInv, TypeOK, OpShape, OpServes
  <2>2. PICK k \in Names, id \in Id, new \in Id \cup {0} :
          k = op[t].key /\ id = op[t].id /\ new = op[t].newId
    BY <2>1, UpdaterAssumption DEF Op, Sound, IInv, TypeOK, Id
  <2>3. PICK a \in App : a = k.app
    BY DEF Names
  <2>4. ~Holds(op[u]) \/ op[u].key.app # a
    BY <1>3, <2>2, <2>3, Exclusive
  <2>5. LiveOf(a)' = LiveOf(a) /\ \A i \in LiveOf(a) : ctr'[i] = ctr[i]
    BY <2>4, AppsApart
  <2>6. \A i \in Id : Live(i) /\ ctr[i].name.app = a => ctr'[i] = ctr[i]
    BY <2>5 DEF LiveOf
  <2>7. Live(id) => ctr'[id] = ctr[id]
    BY <2>1, <2>2, <2>3, <2>6 DEF Sound
  <2>8. op[t].kind = "update" /\ op[t].pc = "start" /\ Live(new) => ctr'[new] = ctr[new]
    BY <2>1, <2>2, <2>3, <2>6 DEF Sound, Live
  <2>9. Named(k) = {} => Named(k)' = {}
    <3>1. \A i \in Named(k)' : i \in LiveOf(a)'
      BY <2>3 DEF Named, LiveOf
    <3>2. \A i \in Named(k)' : i \in Named(k)
      BY <2>5, <3>1 DEF Named, LiveOf, Live
    <3> QED BY <3>2
  <2>10. Running(id) => Live(id)
    BY DEF Running, Live
  <2>11. Live(id) => (Live(id)' /\ (Running(id)' <=> Running(id)))
    BY <2>7 DEF Live, Running
  <2>12. op[t].kind = "update" /\ op[t].pc = "start" /\ Live(new) => Live(new)'
    BY <2>8 DEF Live
  <2> QED
    BY <1>1, <2>1, <2>2, <2>9, <2>10, <2>11, <2>12 DEF OpServes, Serves, Named, Live, Running
<1> QED BY <1>2, <1>3

\* An operation that waits for its lock, or pulls without it, promises nothing yet.
LEMMA WaitingServes ==
  ASSUME IInv, NEW u \in Thread, OpMoves(u), op[u].pc # "idle", ~Holds(op[u]), Serves(op[u])
  PROVE  OpServes(u)'
<1> USE DEF At
<1>1. Sound(op[u]) /\ op[u] \in Op /\ Idle.pc = "idle"
  BY DEF IInv, TypeOK, OpShape, Idle
<1>2. LockContainer(u) \/ PullTag(u) \/ PullFails(u) \/ Relock(u)
  BY <1>1
     DEF OpMoves, OpStep, Holds, Inspect, InspectRejects, PullPinned, Reinspect, ReinspectFails,
         SaveSnapshot, SaveSnapshotFails, Stop, StopFails, Remove, RemoveFails,
         RemoveTakenForGone, StartOld, Create, CreateFails, Start, StartFails, PortConflict,
         Healthy, Unhealthy, DiscardStop, DiscardRemove, Rename, Sound, OnPath, Serves
<1>3. UNCHANGED spent /\ (op[u].kind = "blueGreen" => LockContainer(u))
  BY <1>1, <1>2 DEF LockContainer, PullTag, PullFails, Relock, Holds, Sound, OnPath
<1>4. op'[u] = Idle \/ /\ op'[u].kind = op[u].kind /\ op'[u].restoring = op[u].restoring
                       /\ op'[u].pc \in {"inspect", "reinspect", "relock"}
  <2>1. CASE LockContainer(u)
    BY <2>1 DEF LockContainer, Serves, IInv, TypeOK, Op
  <2>2. CASE Relock(u)
    BY <2>2 DEF Relock, IInv, TypeOK, Op
  <2>3. CASE PullTag(u)
    BY <1>3, <2>3, GotoFields DEF PullTag, Serves, LockContainer
  <2> QED BY <1>2, <2>1, <2>2, <2>3, ReturnsIdle DEF PullFails
<1> QED BY <1>1, <1>3, <1>4 DEF OpServes, Serves

\* Every step preserves the invariant.
LEMMA StepService ==
  ASSUME UpdatesAlone, IInv, TriedInv, ServiceInv, [Next]_vars
  PROVE  ServiceInv'
<1> SUFFICES ASSUME OneFault' PROVE ServiceInv'
  BY DEF ServiceInv
<1>1. ASSUME NEW u \in Thread, OpMoves(u) PROVE ServiceInv'
  <2>1. OneFault /\ (spent.faults = 1 => spent'.faults = 1) /\ UNCHANGED agent
    BY <1>1, Spends, Counts DEF OneFault
  <2>2. /\ agent = "up" /\ NamesUnique /\ (\A t \in Thread : OpServes(t))
        /\ \A a \in App : Serving(a) \/ \E t \in Thread : Provided(t, a)
    BY <2>1 DEF ServiceInv
  <2>3. NamesUnique'
    BY <1>1, <2>2, UniqueMoves
  <2>4. op[u].pc # "idle"
    BY <1>1 DEF OpMoves, OpStep, LockContainer, Relock, Inspect, InspectRejects, PullTag,
       PullPinned, PullFails, Reinspect, ReinspectFails, SaveSnapshot, SaveSnapshotFails, Stop,
       StopFails, Remove, RemoveFails, RemoveTakenForGone, StartOld, Create, CreateFails, Start,
       StartFails, PortConflict, Healthy, Unhealthy, DiscardStop, DiscardRemove, Rename, At
  <2>5. \A t \in Thread \ {u} : OpServes(t)' /\ op'[t] = op[t]
    BY <1>1, <2>1, <2>2, OthersServe, OthersStay
  <2>6. ASSUME NEW a \in App, ~Holds(op[u]) \/ op[u].key.app # a
        PROVE  (Serving(a) \/ \E t \in Thread : Provided(t, a))'
    <3>1. LiveOf(a)' = LiveOf(a) /\ \A i \in LiveOf(a) : ctr'[i] = ctr[i]
      BY <1>1, <2>6, AppsApart
    <3>2. Serving(a) => Serving(a)'
      BY <3>1 DEF Serving, Running, LiveOf, Live
    <3>3. ASSUME NEW t \in Thread, Window(op[t]), op[t].key.app = a PROVE Provided(t, a)'
      <4>1. t # u
        BY <2>6, <3>3 DEF Window, Holds
      <4> QED BY <2>5, <3>3, <4>1 DEF Provided, Window
    <3> QED BY <2>2, <3>2, <3>3 DEF Provided
  <2>7. CASE ~Holds(op[u])
    BY <1>1, <2>1, <2>2, <2>3, <2>4, <2>5, <2>6, <2>7, WaitingServes DEF ServiceInv, OpServes
  <2>8. CASE Holds(op[u])
    <3>1. PICK b \in App : op[u].key.app = b
      BY <2>4 DEF IInv, OpShape, Sound, Names
    <3>2. Provided(u, b)
      <4>1. ASSUME NEW t \in Thread \ {u}, Window(op[t]), op[t].key.app = b PROVE FALSE
        BY <2>8, <3>1, <4>1, Exclusive DEF Window, Holds
      <4> QED BY <2>2, <4>1 DEF Provided
    <3>3. OpServes(u)' /\ Provided(u, b)'
      <4>1. Serves(op[u])
        BY <2>2, <2>4 DEF OpServes
      <4>2. op[u].kind = "update" \/ op[u].kind = "blueGreen"
        BY <4>1 DEF Serves
      <4> QED
        BY <1>1, <2>2, <2>4, <3>1, <3>2, <4>1, <4>2, UpdateServes, BlueGreenServes DEF OneFault
    <3>4. \A a \in App : (Serving(a) \/ \E t \in Thread : Provided(t, a))'
      BY <2>6, <3>1, <3>3
    <3> QED BY <2>1, <2>2, <2>3, <2>5, <3>3, <3>4 DEF ServiceInv
  <2> QED BY <2>7, <2>8
<1>2. ASSUME NEW t \in Thread, NEW k \in Kind, NEW id \in Id, NEW target \in Digest,
             Begin(t, k, id, target)
      PROVE  ServiceInv'
  <2>1. /\ UNCHANGED <<ctr, agent>> /\ spent'.faults = spent.faults
        /\ spent'.blind = spent.blind /\ spent'.swallowed = spent.swallowed
        /\ spent'.crashes = spent.crashes /\ op[t].pc = "idle"
        /\ op' = [op EXCEPT ![t] = [Idle EXCEPT !.kind = k, !.pc = "lock", !.id = id,
                                                !.key = ctr[id].name, !.want = target]]
    BY <1>2 DEF Begin, Requested, daemon, IInv, TypeOK, Spent
  <2>2. /\ op'[t].pc = "lock" /\ op'[t].kind = k /\ ~op'[t].restoring
        /\ \A u \in Thread \ {t} : op'[u] = op[u]
    BY <2>1 DEF Idle, IInv, TypeOK
  <2>3. OneFault /\ k \in {"update", "blueGreen"}
    BY <2>1 DEF OneFault, UpdatesAlone
  <2>4. OpServes(t)'
    BY <2>2, <2>3 DEF OpServes, Serves
  <2>5. \A u \in Thread \ {t} : OpServes(u)'
    BY <2>1, <2>2, <2>3 DEF ServiceInv, OpServes, Serves, Known, Named, Live, Running
  <2>6. ASSUME NEW a \in App PROVE (Serving(a) \/ \E u \in Thread : Provided(u, a))'
    <3>1. ~Window(op[t])
      BY <2>1 DEF Window
    <3>2. Serving(a) => Serving(a)'
      BY <2>1 DEF Serving, Running
    <3>3. \A u \in Thread \ {t} : Provided(u, a) => Provided(u, a)'
      BY <2>2, <3>2 DEF Provided, Window
    <3> QED BY <2>3, <3>1, <3>2, <3>3 DEF ServiceInv, Provided
  <2>7. NamesUnique'
    BY <2>1, <2>3 DEF ServiceInv, NamesUnique, Named, Live
  <2> QED BY <2>1, <2>3, <2>4, <2>5, <2>6, <2>7 DEF ServiceInv
<1>3. ASSUME NEW t \in Thread, NEW s \in snapshots, BeginRollback(t, s) PROVE FALSE
  BY <1>3 DEF BeginRollback, Requested, UpdatesAlone
<1>4. ASSUME NEW id \in Id, Command(id) PROVE FALSE
  BY <1>4 DEF Command, ContainerDelete, ContainerStop, ContainerStart, Requested, UpdatesAlone
<1>5. CASE (\E a \in App : Publish(a)) \/ Rest \/ UNCHANGED vars
  <2>1. UNCHANGED <<ctr, op, agent, spent>>
    BY <1>5 DEF Publish, Rest, vars, daemon
  <2> QED
    BY <2>1 DEF ServiceInv, OneFault, OpServes, Serves, Known, NamesUnique, Named, Live, Running,
       Serving, Provided, Window
<1>6. ASSUME Crash PROVE FALSE
  BY <1>6 DEF Crash, OneFault, IInv, TypeOK, Spent
<1>7. ASSUME Restart PROVE FALSE
  BY <1>7 DEF Restart, OneFault, ServiceInv
<1>8. ASSUME Recover PROVE FALSE
  <2>1. agent = "recovering" /\ (UNCHANGED spent \/ Fault \/ Faults(2))
    BY <1>8, RecoverSteps
       DEF Recover, RecoverList, RecoverListFails, RecoverTempStop, RecoverTempRename,
           RecoverTempRemove, RecoverTempsDone, RecoverSkip, RecoverCreate, RecoverCreateFails,
           RecoverStart, RecoverDone, NoFault, Fault
  <2>2. /\ spent'.faults >= spent.faults /\ spent'.crashes = spent.crashes
        /\ spent'.blind = spent.blind /\ spent'.swallowed = spent.swallowed
    BY <2>1, Counts
  <2> QED BY <2>1, <2>2, Counts DEF OneFault, ServiceInv
<1> QED
  BY <1>1, <1>2, <1>3, <1>4, <1>5, <1>6, <1>7, <1>8 DEF Next, OpMoves

LEMMA InitService == Init => ServiceInv
<1> SUFFICES ASSUME Init PROVE ServiceInv
  OBVIOUS
<1>1. IInv
  BY InitIInv
<1>2. ASSUME NEW i \in Id, \E a \in App : Deployed[a] = i
      PROVE  \E a \in App : Deployed[a] = i /\ ctr[i].name = Own(a) /\ ctr[i].state = "running"
  <2>1. PICK b : b = CHOOSE a \in App : Deployed[a] = i
    OBVIOUS
  <2>2. b \in App /\ Deployed[b] = i
    BY <1>2, <2>1
  <2>3. ctr[i] = [name |-> Own(b), ref |-> FloatingTag, digest |-> 1, state |-> "running"]
    BY <1>2, <2>1 DEF Init
  <2> QED BY <2>2, <2>3
<1>7. ASSUME NEW i \in Id, Live(i) PROVE \E a \in App : Deployed[a] = i
  BY <1>7 DEF Init, NeverCreated, Live
<1>3. ASSUME NEW a \in App PROVE Serving(a)
  <2>1. Deployed[a] \in Id
    BY UpdaterAssumption DEF Id
  <2>2. PICK b \in App : /\ Deployed[b] = Deployed[a] /\ ctr[Deployed[a]].name = Own(b)
                         /\ ctr[Deployed[a]].state = "running"
    BY <1>2, <2>1
  <2>3. b = a
    BY <2>2, UpdaterAssumption
  <2> QED BY <2>1, <2>2, <2>3 DEF Serving, Running, Own
<1>4. \A a, b \in App : Own(a) = Own(b) => a = b
  BY DEF Own
<1>5. NamesUnique
  BY <1>2, <1>4, <1>7 DEF NamesUnique, Named
<1>6. agent = "up" /\ \A t \in Thread : op[t].pc = "idle"
  BY DEF Init, Idle
<1> QED BY <1>3, <1>5, <1>6 DEF ServiceInv, OpServes

\* UpdateContainer and BlueGreenUpdate with one daemon call or file write that fails, or
\* one image whose digest is not found, wherever that is, and no refused removal taken
\* for "already gone": once they have returned every app has a running container.
THEOREM ServiceSurvivesOneFault ==
  ASSUME UpdatesAlone
  PROVE  Spec => []SingleFaultKeepsService
<1>1. OperationsOnly
  BY DEF UpdatesAlone, OperationsOnly
<1>2. Init => TriedInv
  BY DEF Init, TriedInv, Tried, Idle
<1>3. IInv /\ TriedInv /\ [Next]_vars => TriedInv'
  BY <1>1, TriedStep
<1>4. IInv /\ TriedInv /\ ServiceInv /\ [Next]_vars => ServiceInv'
  BY StepService
<1>5. ServiceInv => SingleFaultKeepsService
  BY DEF ServiceInv, SingleFaultKeepsService, OneFault, AllIdle, Provided, Window
<1> QED BY <1>2, <1>3, <1>4, <1>5, InitService, UpdaterInvariant, PTL DEF Spec

-----------------------------------------------------------------------------
(* Why an update that fails brings back what ran.                          *)

\* What an update has noted of its container is that container's digest, or no digest;
\* what it has recreated is what ran.
Restores(o) ==
  o.kind = "update" =>
    /\ o.pc \in {"save", "stop", "remove", "startOld", "create", "start"} =>
         o.snap.digest \in {ctr[o.id].digest, NoDigest}
    /\ o.pc = "start" /\ o.restoring => ctr[o.newId].digest = ctr[o.id].digest
RestoreInv == \A t \in Thread : Restores(op[t])

LEMMA RestoresOwn ==
  ASSUME IInv, RestoreInv, NEW t \in Thread, OpMoves(t)
  PROVE  Restores(op[t])'
<1> USE DEF At
<1>1. op[t].pc # "idle" => op[t] \in Op /\ Sound(op[t]) /\ op[t].id \in Id
  BY UpdaterAssumption DEF IInv, TypeOK, OpShape, Sound, Id
<1>2. \A i \in 1..lastId : ctr'[i].digest = ctr[i].digest
  BY FirstSteps, LaterSteps, RenameStep DEF OpMoves, OpStep, Kept, Renamed, SameImage
<1>3. ASSUME op'[t].kind = "update" =>
               op'[t].pc \notin {"save", "stop", "remove", "startOld", "create", "start"}
      PROVE  Restores(op[t])'
  BY <1>3 DEF Restores
<1>4. ASSUME op'[t].kind = op[t].kind, op'[t].id = op[t].id, op'[t].snap = op[t].snap,
             op'[t].pc # "start", op[t].pc \in {"save", "stop", "remove", "create", "start"}
      PROVE  Restores(op[t])'
  <2>1. ctr'[op[t].id].digest = ctr[op[t].id].digest /\ Restores(op[t])
    BY <1>1, <1>2, <1>4 DEF Sound, RestoreInv
  <2> QED BY <1>4, <2>1 DEF Restores
<1>5. CASE Reinspect(t)
  <2>1. PICK s \in {FullSnapshot(op[t].id), BlindSnapshot(op[t].id)} :
          op' = [op EXCEPT ![t].pc = "save", ![t].snap = s]
    BY <1>5 DEF Reinspect
  <2>2. op'[t].pc = "save" /\ op'[t].id = op[t].id /\ op'[t].snap = s /\ UNCHANGED ctr
    BY <1>5, <2>1 DEF Reinspect, daemon, IInv, TypeOK, Op
  <2>3. s.digest \in {ctr[op[t].id].digest, NoDigest}
    BY DEF FullSnapshot, BlindSnapshot
  <2> QED BY <2>2, <2>3 DEF Restores
<1>6. CASE Create(t)
  <2>1. /\ op[t].pc = "create" /\ Sound(op[t]) /\ op'[t].newId = lastId'
        /\ op'[t].kind = op[t].kind /\ op'[t].id = op[t].id /\ op'[t].snap = op[t].snap
        /\ op'[t].restoring = op[t].restoring /\ Restores(op[t])
    BY <1>6, CreatesNew DEF RestoreInv
  <2>2. ctr'[op[t].id].digest = ctr[op[t].id].digest
    BY <1>2, <2>1 DEF Sound
  <2>3. ASSUME op[t].kind = "update", op[t].restoring
        PROVE  ctr'[lastId'].digest = ctr[op[t].id].digest
    <3>1. CreateImage(op[t]) = op[t].snap.digest /\ CreateImage(op[t]) # NoDigest
      BY <1>6, <2>3 DEF Create, CreateImage
    <3>2. op[t].snap.digest = ctr[op[t].id].digest
      BY <2>1, <2>3, <3>1 DEF Restores
    <3>3. ctr[op[t].id].digest \in Digest
      BY <1>1, <2>1 DEF IInv, TypeOK, Container
    <3>4. /\ lastId' = lastId + 1 /\ lastId' \in Id
          /\ ctr' = [ctr EXCEPT ![lastId + 1] =
                [name |-> CreateName(op[t]), ref |-> CreateImage(op[t]),
                 digest |-> DigestOf(CreateName(op[t]).app, CreateImage(op[t])),
                 state |-> "created"]]
      BY <1>6, CreatesNew DEF Create, NewContainer
    <3>5. DigestOf(CreateName(op[t]).app, CreateImage(op[t])) = ctr[op[t].id].digest
      BY <3>1, <3>2, <3>3 DEF DigestOf, FloatingTag, Digest
    <3> QED BY <3>4, <3>5 DEF IInv, TypeOK
  <2> QED BY <2>1, <2>2, <2>3 DEF Restores
<1>7. ASSUME NEW s \in {"stop", "remove", "startOld", "create"}, Goto(t, s),
             op[t].pc \in {"save", "stop", "remove"}
      PROVE  Restores(op[t])'
  BY <1>4, <1>7, GotoFields
<1>8. CASE CreateFails(t) \/ StartFails(t)
  <2>1. op[t] \in Op /\ op[t].pc \in {"create", "start"} /\ CreateFailed(t)
    BY <1>1, <1>8 DEF CreateFails, StartFails
  <2>2. op'[t] = Idle \/ /\ op'[t].pc = "create" /\ op'[t].kind = op[t].kind
                         /\ op'[t].id = op[t].id /\ op'[t].snap = op[t].snap
    BY <2>1, FailedCreates DEF Op
  <2> QED BY <1>3, <1>4, <2>1, <2>2 DEF Idle
<1>9. CASE Return(t)
  BY <1>3, <1>9, ReturnsIdle DEF Idle
<1>10. CASE LockContainer(t) \/ Inspect(t) \/ Relock(t) \/ PortConflict(t)
  <2>1. \/ op'[t].pc \in {"inspect", "pull", "reinspect", "lock"} \/ op'[t] = Idle
        \/ op'[t].kind = "rollback"
    <3>1. CASE LockContainer(t)
      BY <3>1 DEF LockContainer, IInv, TypeOK, Op
    <3>2. CASE Inspect(t)
      BY <3>2 DEF Inspect, IInv, TypeOK, Op
    <3>3. CASE Relock(t)
      BY <3>3 DEF Relock, IInv, TypeOK, Op
    <3>4. CASE PortConflict(t)
      BY <3>4 DEF PortConflict, Idle, IInv, TypeOK
    <3> QED BY <1>10, <3>1, <3>2, <3>3, <3>4
  <2> QED BY <1>3, <2>1 DEF Idle
<1>11. CASE PullTag(t)
  <2>1. op'[t].pc = (IF op[t].kind = "update" THEN "relock" ELSE "create")
        /\ op'[t].kind = op[t].kind
    BY <1>11, GotoFields DEF PullTag
  <2> QED BY <1>3, <2>1
<1>12. CASE PullPinned(t)
  <2>1. op'[t].kind = "rollbackTo"
    BY <1>12 DEF PullPinned, IInv, TypeOK, Op
  <2> QED BY <1>3, <2>1
<1>13. ASSUME NEW s \in {"rename", "health", "discardStop", "discardRemove"}, Goto(t, s)
       PROVE  Restores(op[t])'
  BY <1>3, <1>13, GotoFields
<1>14. CASE Healthy(t)
  <2>1. op[t].kind = "blueGreen"
    BY <1>1, <1>14 DEF Healthy, Sound, OnPath
  <2>2. op'[t].kind = op[t].kind
    BY <1>14, GotoFields DEF Healthy
  <2> QED BY <1>3, <2>1, <2>2
<1> QED
  BY <1>5, <1>6, <1>7, <1>8, <1>9, <1>10, <1>11, <1>12, <1>13, <1>14
     DEF OpMoves, OpStep, InspectRejects, PullFails, ReinspectFails, SaveSnapshot,
         SaveSnapshotFails, Stop, StopFails, Remove, RemoveFails, RemoveTakenForGone, AfterRemove,
         StartOld, Start, Unhealthy, DiscardStop, DiscardRemove, Rename

LEMMA RestoresStep ==
  ASSUME IInv, RestoreInv, [Next]_vars
  PROVE  RestoreInv'
<1>1. ASSUME NEW t \in Thread, op'[t] = op[t], op[t].pc # "idle",
             \A i \in 1..lastId : ctr'[i].digest = ctr[i].digest
      PROVE  Restores(op[t])'
  <2>1. Sound(op[t]) /\ Restores(op[t])
    BY <1>1 DEF IInv, OpShape, RestoreInv
  <2>2. ctr'[op[t].id].digest = ctr[op[t].id].digest
    BY <1>1, <2>1 DEF Sound
  <2>3. op[t].pc = "start" => ctr'[op[t].newId].digest = ctr[op[t].newId].digest
    BY <1>1, <2>1 DEF Sound
  <2> QED BY <1>1, <2>1, <2>2, <2>3 DEF Restores
<1>2. ASSUME NEW t \in Thread, op'[t].pc \in {"idle", "lock"} PROVE Restores(op[t])'
  BY <1>2 DEF Restores
<1>3. ASSUME NEW u \in Thread, OpMoves(u), NEW t \in Thread PROVE Restores(op[t])'
  <2>1. CASE t = u
    BY <1>3, <2>1, RestoresOwn
  <2>2. CASE t # u
    <3>1. op'[t] = op[t]
      BY <1>3, <2>2, OthersStay
    <3>2. \A i \in 1..lastId : ctr'[i].digest = ctr[i].digest
      BY <1>3, FirstSteps, LaterSteps, RenameStep DEF OpMoves, OpStep, Kept, Renamed, SameImage
    <3> QED BY <1>1, <1>2, <3>1, <3>2
  <2> QED BY <2>1, <2>2
<1>4. ASSUME NEW u \in Thread,
             \/ \E k \in Kind, id \in Id, target \in Digest : Begin(u, k, id, target)
             \/ \E s \in snapshots : BeginRollback(u, s),
             NEW t \in Thread
      PROVE  Restores(op[t])'
  <2>1. PICK o : o.pc = "lock" /\ op' = [op EXCEPT ![u] = o] /\ UNCHANGED ctr
    BY <1>4 DEF Begin, BeginRollback, daemon, Idle
  <2>2. op'[u].pc = "lock" /\ \A w \in Thread \ {u} : op'[w] = op[w]
    BY <2>1 DEF IInv, TypeOK
  <2> QED BY <1>1, <1>2, <2>1, <2>2
<1>5. ASSUME NEW id \in Id, Command(id), NEW t \in Thread PROVE Restores(op[t])'
  <2>1. UNCHANGED op /\ \E s \in {"gone", "exited", "running"} : SetState(id, s)
    BY <1>5 DEF Command, ContainerDelete, ContainerStop, ContainerStart
  <2>2. \A i \in 1..lastId : ctr'[i].digest = ctr[i].digest
    BY <2>1, UpdaterAssumption DEF SetState, IInv, TypeOK, Container, Id
  <2> QED BY <1>1, <1>2, <2>1, <2>2
<1>6. CASE (\E a \in App : Publish(a)) \/ Rest \/ UNCHANGED vars
  <2>1. UNCHANGED <<ctr, op>>
    BY <1>6 DEF Publish, Rest, vars, daemon
  <2> QED BY <1>1, <1>2, <2>1 DEF RestoreInv
<1>7. CASE Crash \/ Restart \/ Recover
  <2>1. \A t \in Thread : op'[t].pc = "idle"
    BY <1>7, RecoverSteps DEF Crash, Restart, IInv, OpShape, Idle
  <2> QED BY <1>2, <2>1 DEF RestoreInv
<1> QED BY <1>3, <1>4, <1>5, <1>6, <1>7 DEF Next, OpMoves, RestoreInv

\* UpdateContainer recreates the old container from the digest it saw before it stopped
\* it: whatever else goes on, crashes or fails, the container that runs after a failed
\* update has the image of the one that ran before.
THEOREM FailedUpdatesRestoreVersion == Spec => FailedUpdateKeepsVersion
<1>1. Init => RestoreInv
  BY DEF Init, RestoreInv, Restores, Idle
<1>2. IInv /\ RestoreInv /\ [Next]_vars => RestoreInv'
  BY RestoresStep
<1>3. IInv /\ RestoreInv /\ [Next]_vars =>
        [\A t \in Thread :
           At(t, "start") /\ op[t].kind = "update" /\ op[t].restoring
           /\ op'[t].pc = "idle" /\ ctr'[op[t].newId].state = "running" =>
             ctr'[op[t].newId].digest = ctr[op[t].id].digest]_vars
  <2> SUFFICES ASSUME IInv, RestoreInv, [Next]_vars, NEW t \in Thread,
                      At(t, "start"), op[t].kind = "update", op[t].restoring,
                      ctr'[op[t].newId].state = "running", op'[t].pc = "idle"
               PROVE  ctr'[op[t].newId].digest = ctr[op[t].id].digest
    OBVIOUS
  <2>1. ctr[op[t].newId].digest = ctr[op[t].id].digest /\ op[t].newId \in 1..lastId
    BY DEF RestoreInv, Restores, IInv, OpShape, Sound, At
  <2>2. ASSUME NEW u \in Thread, OpMoves(u)
        PROVE  ctr'[op[t].newId].digest = ctr[op[t].newId].digest
    BY <2>1, <2>2, FirstSteps, LaterSteps, RenameStep
       DEF OpMoves, OpStep, Kept, Renamed, SameImage
  <2>3. ASSUME NEW id \in Id, Command(id)
        PROVE  ctr'[op[t].newId].digest = ctr[op[t].newId].digest
    <3>1. \E s \in {"gone", "exited", "running"} : SetState(id, s)
      BY <2>3 DEF Command, ContainerDelete, ContainerStop, ContainerStart
    <3> QED BY <2>1, <3>1, UpdaterAssumption DEF SetState, IInv, TypeOK, Container, Id
  <2>4. CASE UNCHANGED ctr
    BY <2>1, <2>4
  <2>5. ~Recover
    BY RecoverSteps DEF At
  <2> QED
    BY <2>1, <2>2, <2>3, <2>4, <2>5
       DEF Next, OpMoves, Begin, BeginRollback, Publish, Crash, Restart, Rest, vars, daemon
<1> QED BY <1>1, <1>2, <1>3, UpdaterInvariant, PTL DEF Spec, FailedUpdateKeepsVersion

-----------------------------------------------------------------------------
(* Why crashes leave one container under its own name.                     *)

\* An app as it should be, and one there is something left of: a container, under
\* either of its names, or a file.
Settled(a) == \E id \in Id : LiveOf(a) = {id} /\ ctr[id].name = Own(a)
HasSnap(a) == \E s \in disk : s.name = Own(a)
Left(a) == LiveOf(a) # {} \/ HasSnap(a)

\* The parts of an operation during which its app is not settled.
Displaced(o) ==
  \/ o.kind = "update" /\ o.pc = "create"
  \/ o.kind = "blueGreen" /\ o.pc \in {"start", "health", "save", "stop", "remove",
                                      "discardStop", "discardRemove", "rename"}

\* The containers an app has at each step of its operation, when no call has failed: an
\* update removes the old one, whose file it has, before it creates the new one; a
\* blue-green update has both in between.
Secures(o) ==
  /\ o.kind \in {"update", "blueGreen"}
  /\ o.kind = "update" =>
       /\ o.pc # "startOld" /\ ~o.restoring
       /\ o.pc \in {"save", "stop", "remove"} => LiveOf(o.key.app) = {o.id}
       /\ o.pc \in {"stop", "remove", "create"} => HasSnap(o.key.app)
       /\ o.pc = "create" => LiveOf(o.key.app) = {}
       /\ o.pc = "start" => LiveOf(o.key.app) = {o.newId}
  /\ o.kind = "blueGreen" =>
       /\ o.pc \in {"pull", "create"} => LiveOf(o.key.app) = {o.id}
       /\ o.pc \in {"start", "health", "save", "stop", "remove", "discardStop",
                    "discardRemove"} => LiveOf(o.key.app) = {o.id, o.newId}
       /\ o.pc = "discardRemove" => ~Running(o.newId)
       /\ o.pc = "rename" => LiveOf(o.key.app) = {o.newId}
  /\ o.pc = "remove" => ~Running(o.id)
OpSecures(t) == op[t].pc # "idle" => Secures(op[t])
InHand(t, a) == Displaced(op[t]) /\ op[t].key.app = a

\* What RecoverOrphans knows of the names is so: there are no temporary containers left
\* when it turns to the snapshots, and a name it has not seen is free.
RecSettles ==
  /\ snapshots = disk
  /\ rec.pc \in {"list", "temps", "tempRemove"} => rec.seen = {}
  /\ rec.pc \in {"temps", "tempRemove"} =>
       \A n \in Names : Named(n) # {} <=> n \in IF n.temp THEN rec.todo ELSE rec.existing
  /\ rec.pc = "tempRemove" =>
       /\ OriginalName(rec.name) \in rec.existing
       /\ \A i \in Named(rec.name) : ~Running(i)
  /\ rec.pc \in {"snapshots", "start"} =>
       \A n \in Names : Named(n) # {} <=> ~n.temp /\ n \in rec.existing \cup rec.seen
  /\ rec.pc = "start" => Live(rec.newId)

SettleInv ==
  spent.faults = 0 =>
    /\ NamesUnique
    /\ agent = "up" => /\ \A t \in Thread : OpSecures(t)
                       /\ \A a \in App : Settled(a) \/ \E t \in Thread : InHand(t, a)
    /\ agent # "up" => \A a \in App : Left(a)
    /\ agent = "recovering" => RecSettles

\* The name an operation works on is its app's own.
LEMMA KeyIsOwn ==
  ASSUME NEW k \in Names, ~k.temp
  PROVE  k.app \in App /\ k = Own(k.app) /\ TempName(k) = Tmp(k.app)
  BY DEF Own, Tmp, TempName, Names

\* What stays when the containers do.
LEMMA SettledStays ==
  ASSUME NEW a \in App, LiveOf(a)' = LiveOf(a), \A i \in LiveOf(a) : ctr'[i].name = ctr[i].name,
         Settled(a)
  PROVE  Settled(a)'
  BY DEF Settled

\* Files go only to be replaced by another of the same container.
LEMMA FilesStay ==
  ASSUME IInv, NEW u \in Thread, OpMoves(u), spent'.faults = 0, NEW a \in App, HasSnap(a)
  PROVE  HasSnap(a)'
<1> USE DEF At
<1>1. CASE SaveSnapshot(u)
  <2>1. Sound(op[u]) /\ op[u].pc = "save"
    BY <1>1 DEF SaveSnapshot, IInv, OpShape
  <2>2. PICK w \in disk : w.name = Own(a)
    BY DEF HasSnap
  <2>3. w.name = ctr[w.id].name
    BY DEF IInv, SnapshotShape
  <2>4. op[u].snap.name = ctr[op[u].snap.id].name
    BY <2>1 DEF Sound
  <2>5. disk' = OtherThan(disk, op[u].snap.id) \cup {op[u].snap}
    BY <1>1 DEF SaveSnapshot
  <2> QED BY <2>2, <2>3, <2>4, <2>5 DEF HasSnap, OtherThan, Own
<1>2. CASE SaveSnapshotFails(u)
  BY <1>2, Counts DEF SaveSnapshotFails
<1>3. CASE ~SaveSnapshot(u) /\ ~SaveSnapshotFails(u)
  <2>1. UNCHANGED disk
    BY <1>3 DEF OpMoves, OpStep, LockContainer, Relock, Inspect, InspectRejects, PullTag,
       PullPinned, PullFails, Reinspect, ReinspectFails, Stop, StopFails, Remove, RemoveFails,
       RemoveTakenForGone, StartOld, Create, CreateFails, Start, StartFails, PortConflict,
       Healthy, Unhealthy, DiscardStop, DiscardRemove, Rename, store
  <2> QED BY <2>1 DEF HasSnap
<1> QED BY <1>1, <1>2, <1>3

\* An update.
LEMMA UpdateSecures ==
  ASSUME IInv, spent'.faults = 0, NEW t \in Thread, OpMoves(t), Holds(op[t]),
         op[t].kind = "update", Secures(op[t]),
         NEW a \in App, op[t].key.app = a, Settled(a) \/ Displaced(op[t])
  PROVE  OpSecures(t)' /\ (Settled(a) \/ InHand(t, a))'
<1> USE DEF At
<1>1. op[t] \in Op /\ Sound(op[t]) /\ ~Fault /\ ~Faults(2)
  BY Counts DEF IInv, TypeOK, OpShape, Holds
<1>2. PICK k \in Names, id \in Id, new \in Id \cup {0} :
        k = op[t].key /\ id = op[t].id /\ new = op[t].newId
  BY <1>1, UpdaterAssumption DEF Op, Sound, IInv, TypeOK, Id
<1>3. k = Own(a) /\ k.app = a /\ ctr[id].name = k
  BY <1>1, <1>2, KeyIsOwn DEF Sound
<1>4. UNCHANGED ctr => LiveOf(a)' = LiveOf(a) /\ (Settled(a) => Settled(a)')
  BY DEF LiveOf, Live, Settled
<1>5. Idle.pc = "idle"
  BY DEF Idle
<1>6. Settled(a) /\ Live(id) => LiveOf(a) = {id}
  BY <1>3 DEF Settled, LiveOf
<1>7. CASE Inspect(t) \/ InspectRejects(t) \/ ReinspectFails(t)
  <2>1. UNCHANGED ctr /\ ~Displaced(op[t])
    BY <1>7 DEF Inspect, InspectRejects, ReinspectFails, daemon, Displaced
  <2>2. op'[t] = Idle \/ /\ op'[t].kind = "update" /\ op'[t].pc = "pull"
                         /\ op'[t].restoring = op[t].restoring
    <3>1. CASE Inspect(t)
      BY <3>1 DEF Inspect, IInv, TypeOK, Op
    <3> QED BY <1>7, <3>1, ReturnsIdle DEF InspectRejects, ReinspectFails
  <2> QED BY <1>4, <1>5, <2>1, <2>2 DEF OpSecures, Secures
<1>8. CASE Reinspect(t)
  <2>1. UNCHANGED ctr /\ Live(id) /\ ~Displaced(op[t])
    BY <1>2, <1>8 DEF Reinspect, daemon, Displaced
  <2>2. /\ op'[t].kind = "update" /\ op'[t].pc = "save" /\ op'[t].restoring = op[t].restoring
        /\ op'[t].id = id /\ op'[t].key = k
    BY <1>2, <1>8 DEF Reinspect, IInv, TypeOK, Op
  <2>3. LiveOf(a)' = {id} /\ Settled(a)'
    BY <1>4, <1>6, <2>1
  <2> QED BY <1>3, <2>2, <2>3 DEF OpSecures, Secures, LiveOf
<1>9. CASE SaveSnapshot(t)
  <2>1. UNCHANGED ctr /\ op[t].pc = "save" /\ Goto(t, "stop") /\ op[t].snap \in disk'
    BY <1>9 DEF SaveSnapshot, daemon
  <2>2. HasSnap(a)' /\ LiveOf(a)' = {id} /\ Settled(a)'
    BY <1>1, <1>2, <1>3, <1>4, <2>1 DEF HasSnap, Sound, Secures, Displaced, Own
  <2>3. /\ op'[t].kind = "update" /\ op'[t].pc = "stop" /\ op'[t].restoring = op[t].restoring
        /\ op'[t].id = id /\ op'[t].key = k
    BY <1>2, <2>1, GotoFields
  <2> QED BY <1>3, <2>2, <2>3 DEF OpSecures, Secures, LiveOf, HasSnap
<1>10. CASE Stop(t)
  <2>1. /\ op[t].pc = "stop" /\ Goto(t, "remove") /\ Live(id) /\ LiveOf(a) = {id}
        /\ IF Running(id) THEN SetState(id, "exited") ELSE UNCHANGED ctr
    BY <1>2, <1>10 DEF Stop, Secures
  <2>2. LiveOf(a)' = {id} /\ ~Running(id)' /\ ctr'[id].name = k
    <3>1. CASE Running(id)
      BY <1>3, <2>1, <3>1, StateChanges DEF Running
    <3>2. CASE ~Running(id)
      BY <1>3, <1>4, <2>1, <3>2 DEF Running
    <3> QED BY <3>1, <3>2
  <2>3. HasSnap(a)'
    BY <1>10, <2>1, FilesStay DEF Secures
  <2>4. /\ op'[t].kind = "update" /\ op'[t].pc = "remove" /\ op'[t].restoring = op[t].restoring
        /\ op'[t].id = id /\ op'[t].key = k
    BY <1>2, <2>1, GotoFields
  <2>5. Settled(a)'
    BY <1>3, <2>2 DEF Settled, LiveOf
  <2>6. op'[t].key.app = a /\ ~op'[t].restoring
    BY <1>3, <2>1, <2>4 DEF Secures
  <2>7. Secures(op[t])'
    BY <2>2, <2>3, <2>4, <2>6 DEF Secures, LiveOf, HasSnap, Running
  <2> QED BY <2>5, <2>7 DEF OpSecures
<1>11. CASE Remove(t)
  <2>1. /\ op[t].pc = "remove" /\ Goto(t, "create") /\ LiveOf(a) = {id} /\ SetState(id, "gone")
    <3>1. op[t].pc = "remove" /\ Goto(t, "create") /\ LiveOf(a) = {id}
      BY <1>2, <1>11 DEF Remove, AfterRemove, Secures
    <3> QED BY <1>2, <1>11, <3>1 DEF Remove, LiveOf
  <2>2. LiveOf(a)' = {} /\ HasSnap(a)'
    BY <1>11, <2>1, Goes, FilesStay DEF Secures
  <2>3. /\ op'[t].kind = "update" /\ op'[t].pc = "create" /\ op'[t].restoring = op[t].restoring
        /\ op'[t].key = k
    BY <1>2, <2>1, GotoFields
  <2> QED
    BY <1>3, <2>2, <2>3 DEF OpSecures, Secures, LiveOf, HasSnap, InHand, Displaced
<1>12. CASE Create(t)
  <2>1. /\ op[t].pc = "create" /\ CreateName(op[t]) = k /\ LiveOf(a) = {}
        /\ NewContainer(CreateName(op[t]), CreateImage(op[t]))
        /\ op'[t].pc = "start" /\ op'[t].newId = lastId' /\ op'[t].kind = "update"
        /\ op'[t].key = k /\ op'[t].restoring = op[t].restoring
    <3>1. op[t].pc = "create"
      BY <1>12 DEF Create
    <3> QED BY <1>2, <1>3, <1>12, <3>1, CreatesNew DEF Create, Secures
  <2>2. CreateImage(op[t]) \in Ref
    BY <1>12, CreatesFromRef
  <2>3. LiveOf(a)' = {lastId'} /\ lastId' \in Id /\ ctr'[lastId'].name = k
    BY <1>3, <2>1, <2>2, Comes
  <2>4. Settled(a)'
    BY <1>3, <2>3 DEF Settled, Own
  <2> QED BY <1>3, <2>1, <2>3, <2>4 DEF OpSecures, Secures, LiveOf
<1>13. CASE Start(t)
  <2>1. op[t].pc = "start" /\ Live(new) /\ SetState(new, "running") /\ op'[t] = Idle
    BY <1>2, <1>13, ReturnsIdle DEF Start
  <2>2. LiveOf(a) = {new} /\ ctr[new].name = k
    BY <1>1, <1>2, <2>1 DEF Secures, Sound
  <2>3. LiveOf(a)' = {new} /\ ctr'[new].name = k
    BY <2>1, <2>2, StateChanges DEF Live
  <2> QED BY <1>3, <1>5, <2>1, <2>3 DEF OpSecures, Settled, Own, Live
<1>14. ASSUME \/ SaveSnapshotFails(t) \/ StopFails(t) \/ RemoveFails(t)
              \/ RemoveTakenForGone(t) \/ StartOld(t) \/ CreateFails(t) \/ StartFails(t)
       PROVE  FALSE
  <2>1. CASE SaveSnapshotFails(t) \/ StartOld(t)
    BY <1>1, <2>1 DEF SaveSnapshotFails, StartOld, Secures
  <2>2. CASE StopFails(t) \/ RemoveFails(t)
    BY <1>1, <2>2 DEF StopFails, RemoveFails, Secures, LiveOf
  <2>3. CASE CreateFails(t)
    <3>1. op[t].pc = "create" /\ LiveOf(a) = {} /\ CreateName(op[t]) = k
      BY <1>1, <1>2, <2>3 DEF CreateFails, Secures, CreateName, Sound
    <3>2. Named(k) = {}
      BY <1>3, <3>1 DEF Named, LiveOf
    <3>3. CreateImage(op[t]) # NoDigest
      BY <1>1 DEF CreateImage, Secures, Op, Ref, FloatingTag, Digest, NoDigest
    <3> QED BY <1>1, <2>3, <3>1, <3>2, <3>3 DEF CreateFails
  <2>4. CASE StartFails(t)
    BY <1>1, <2>4 DEF StartFails, Secures, LiveOf
  <2>5. CASE RemoveTakenForGone(t)
    BY <2>5, TakenForGoneCounts, Counts
  <2> QED BY <1>14, <2>1, <2>2, <2>3, <2>4, <2>5
<1> QED
  BY <1>1, <1>7, <1>8, <1>9, <1>10, <1>11, <1>12, <1>13, <1>14
     DEF OpMoves, OpStep, LockContainer, Relock, PullTag, PullFails, PullPinned, PortConflict,
         Healthy, Unhealthy, DiscardStop, DiscardRemove, Rename, Holds, Sound, OnPath

\* A blue-green update.
LEMMA BlueGreenSecures ==
  ASSUME IInv, spent'.faults = 0, NEW t \in Thread, OpMoves(t), Holds(op[t]),
         op[t].kind = "blueGreen", Secures(op[t]),
         NEW a \in App, op[t].key.app = a, Settled(a) \/ Displaced(op[t])
  PROVE  OpSecures(t)' /\ (Settled(a) \/ InHand(t, a))'
<1> USE DEF At
<1>1. op[t] \in Op /\ Sound(op[t]) /\ ~Fault /\ ~Faults(2)
  BY Counts DEF IInv, TypeOK, OpShape, Holds
<1>2. PICK k \in Names, id \in Id, new \in Id \cup {0} :
        k = op[t].key /\ id = op[t].id /\ new = op[t].newId
  BY <1>1, UpdaterAssumption DEF Op, Sound, IInv, TypeOK, Id
<1>3. /\ k = Own(a) /\ k.app = a /\ TempName(k) = Tmp(a) /\ Own(a) # Tmp(a)
      /\ ctr[id].name = k /\ (new # 0 => ctr[new].name = Tmp(a) /\ id # new)
  BY <1>1, <1>2, KeyIsOwn, TwoNames DEF Sound
<1>4. UNCHANGED ctr => LiveOf(a)' = LiveOf(a) /\ (Settled(a) => Settled(a)')
  BY DEF LiveOf, Live, Settled
<1>5. Idle.pc = "idle"
  BY DEF Idle
<1>6. Settled(a) /\ Live(id) => LiveOf(a) = {id}
  BY <1>3 DEF Settled, LiveOf
<1>7. ASSUME LiveOf(a)' = {id}, ctr'[id].name = k PROVE Settled(a)'
  BY <1>3, <1>7 DEF Settled, Own
<1>8. ASSUME Return(t), Settled(a)' PROVE OpSecures(t)' /\ (Settled(a) \/ InHand(t, a))'
  BY <1>5, <1>8, ReturnsIdle DEF OpSecures
<1>9. CASE Inspect(t)
  <2>1. PICK s : /\ Live(id) /\ UNCHANGED ctr /\ ~Displaced(op[t])
                 /\ op' = [op EXCEPT ![t] = [@ EXCEPT !.pc = "pull", !.id = id, !.snap = s,
                                                      !.img = ResolveCheckRef(ctr[id].ref)]]
    BY <1>2, <1>9 DEF Inspect, Found, daemon, Displaced
  <2>2. op'[t].pc = "pull" /\ op'[t].kind = "blueGreen" /\ op'[t].id = id /\ op'[t].key = k
    BY <1>2, <2>1 DEF IInv, TypeOK, Op
  <2>3. LiveOf(a)' = {id} /\ Settled(a)'
    BY <1>4, <1>6, <2>1
  <2> QED BY <1>3, <2>2, <2>3 DEF OpSecures, Secures, LiveOf
<1>10. CASE InspectRejects(t) \/ PullFails(t)
  <2>1. UNCHANGED ctr /\ ~Displaced(op[t]) /\ Return(t)
    BY <1>10 DEF InspectRejects, PullFails, daemon, Displaced
  <2> QED BY <1>4, <1>8, <2>1
<1>11. CASE PullTag(t)
  <2>1. UNCHANGED ctr /\ LiveOf(a) = {id} /\ Goto(t, "create") /\ Settled(a)
    BY <1>2, <1>11 DEF PullTag, Secures, daemon, Displaced
  <2>2. op'[t].pc = "create" /\ op'[t].kind = "blueGreen" /\ op'[t].id = id /\ op'[t].key = k
    BY <1>2, <2>1, GotoFields
  <2>3. LiveOf(a)' = {id} /\ Settled(a)'
    BY <1>4, <2>1
  <2> QED BY <1>3, <2>2, <2>3 DEF OpSecures, Secures, LiveOf
<1>12. CASE Create(t)
  <2>1. /\ op[t].pc = "create" /\ CreateName(op[t]) = Tmp(a) /\ LiveOf(a) = {id}
        /\ NewContainer(CreateName(op[t]), CreateImage(op[t]))
        /\ op'[t].pc = "start" /\ op'[t].newId = lastId' /\ op'[t].kind = "blueGreen"
        /\ op'[t].key = k /\ op'[t].id = id
    <3>1. op[t].pc = "create" /\ NewContainer(CreateName(op[t]), CreateImage(op[t]))
      BY <1>12 DEF Create
    <3>2. LiveOf(a) = {id}
      BY <1>2, <3>1 DEF Secures
    <3>3. CreateName(op[t]) = Tmp(a)
      BY <1>1, <1>2, <1>3, <3>1 DEF CreateName, Sound
    <3>4. /\ op'[t].pc = "start" /\ op'[t].newId = lastId' /\ op'[t].kind = "blueGreen"
          /\ op'[t].key = k /\ op'[t].id = id
      BY <1>2, <1>12, CreatesNew
    <3> QED BY <3>1, <3>2, <3>3, <3>4
  <2>2. CreateImage(op[t]) \in Ref /\ Tmp(a) \in Names /\ Tmp(a).app = a
    BY <1>12, TwoNames, CreatesFromRef DEF Tmp, TempName, Own
  <2>3. LiveOf(a)' = {id, lastId'}
    BY <2>1, <2>2, Comes
  <2> QED BY <1>3, <2>1, <2>3 DEF OpSecures, Secures, LiveOf, InHand, Displaced
<1>13. ASSUME NEW s \in {"health", "save", "stop", "remove", "discardStop", "discardRemove"},
              Goto(t, s), LiveOf(a)' = {id, new}, s = "discardRemove" => ~Running(new)',
              s = "remove" => ~Running(id)'
       PROVE  OpSecures(t)' /\ (Settled(a) \/ InHand(t, a))'
  <2>1. /\ op'[t].pc = s /\ op'[t].kind = "blueGreen" /\ op'[t].id = id /\ op'[t].newId = new
        /\ op'[t].key = k
    BY <1>2, <1>13, GotoFields
  <2> QED
    BY <1>3, <1>13, <2>1 DEF OpSecures, Secures, LiveOf, InHand, Displaced, Running
<1>14. op[t].pc \in {"start", "health", "save", "stop", "remove", "discardStop", "discardRemove"}
         => LiveOf(a) = {id, new} /\ Live(id) /\ Live(new) /\ new \in Id /\ id # new
  <2>1. Live(new) => id # new
    BY <1>3 DEF Live, Id
  <2> QED BY <1>2, <2>1 DEF Secures, LiveOf
<1>15. CASE Start(t)
  <2>1. op[t].pc = "start" /\ SetState(new, "running") /\ Goto(t, "health")
    BY <1>2, <1>15 DEF Start
  <2> QED BY <1>13, <1>14, <2>1, StateChanges
<1>16. CASE Healthy(t) \/ Unhealthy(t) \/ SaveSnapshot(t)
  <2>1. /\ UNCHANGED ctr /\ op[t].pc \in {"health", "save"}
        /\ \E s \in {"save", "stop", "discardStop"} : Goto(t, s)
    BY <1>16 DEF Healthy, Unhealthy, SaveSnapshot, daemon
  <2> QED BY <1>4, <1>13, <1>14, <2>1
<1>17. CASE PortConflict(t)
  <2>1. /\ op[t].pc = "start" /\ SetState(new, "gone")
        /\ op' = [op EXCEPT ![t] = IF Live(id)
                THEN [Idle EXCEPT !.kind = "update", !.pc = "lock", !.id = id, !.key = ctr[id].name]
                ELSE Idle]
    BY <1>1, <1>2, <1>17 DEF PortConflict
  <2>2. LiveOf(a)' = {id} /\ ctr'[id].name = k
    BY <1>3, <1>14, <2>1, Goes
  <2>3. op'[t].pc = "lock" /\ op'[t].kind = "update" /\ ~op'[t].restoring
    BY <1>14, <2>1 DEF IInv, TypeOK, Idle
  <2> QED BY <1>7, <2>2, <2>3 DEF OpSecures, Secures
<1>18. CASE Stop(t)
  <2>1. /\ op[t].pc = "stop" /\ Goto(t, "remove")
        /\ IF Running(id) THEN SetState(id, "exited") ELSE UNCHANGED ctr
    BY <1>2, <1>18 DEF Stop, AfterRemove
  <2>2. LiveOf(a)' = {id, new} /\ ~Running(id)'
    <3>1. CASE Running(id)
      BY <1>14, <2>1, <3>1, StateChanges DEF Running
    <3>2. CASE ~Running(id)
      BY <1>4, <1>14, <2>1, <3>2 DEF Running
    <3> QED BY <3>1, <3>2
  <2> QED BY <1>13, <2>1, <2>2
<1>19. CASE Remove(t)
  <2>1. op[t].pc = "remove" /\ SetState(id, "gone") /\ Goto(t, "rename")
    <3>1. op[t].pc = "remove"
      BY <1>19 DEF Remove
    <3> QED BY <1>2, <1>14, <1>19, <3>1 DEF Remove, AfterRemove
  <2>2. LiveOf(a)' = {new}
    BY <1>14, <2>1, Goes
  <2>3. /\ op'[t].pc = "rename" /\ op'[t].kind = "blueGreen" /\ op'[t].newId = new
        /\ op'[t].key = k
    BY <1>2, <2>1, GotoFields
  <2> QED BY <1>3, <2>2, <2>3 DEF OpSecures, Secures, LiveOf, InHand, Displaced
<1>20. CASE Rename(t)
  <2>1. op[t].pc = "rename" /\ LiveOf(a) = {new} /\ op[t].snap.name = k /\ Return(t)
    BY <1>1, <1>2, <1>20 DEF Rename, Sound, Secures
  <2>2. Live(new) /\ new \in Id /\ ctr[new].name = Tmp(a)
    BY <1>3, <2>1 DEF LiveOf, Id
  <2>3. Named(k) = {}
    BY <1>3, <2>1, <2>2 DEF Named, LiveOf
  <2>4. ctr' = [ctr EXCEPT ![new].name = k]
    BY <1>1, <1>2, <1>20, <2>1, <2>2, <2>3 DEF Rename
  <2>5. \A i \in Id : /\ ctr'[i].state = ctr[i].state
                      /\ ctr'[i].name = IF i = new THEN k ELSE ctr[i].name
    BY <2>4 DEF IInv, TypeOK, Container
  <2>6. LiveOf(a)' = {new}
    BY <1>3, <2>1, <2>2, <2>5 DEF LiveOf, Live
  <2>7. Settled(a)'
    BY <1>3, <2>2, <2>5, <2>6 DEF Settled, Own
  <2> QED BY <1>8, <2>1, <2>7
<1>21. CASE DiscardStop(t)
  <2>1. /\ op[t].pc = "discardStop" /\ Goto(t, "discardRemove")
        /\ IF Running(new) THEN SetState(new, "exited") ELSE UNCHANGED ctr
    BY <1>1, <1>2, <1>21 DEF DiscardStop
  <2>2. LiveOf(a)' = {id, new} /\ ~Running(new)'
    <3>1. CASE Running(new)
      BY <1>14, <2>1, <3>1, StateChanges DEF Running
    <3>2. CASE ~Running(new)
      BY <1>4, <1>14, <2>1, <3>2 DEF Running
    <3> QED BY <3>1, <3>2
  <2> QED BY <1>13, <2>1, <2>2
<1>22. CASE DiscardRemove(t)
  <2>1. op[t].pc = "discardRemove" /\ Return(t) /\ SetState(new, "gone")
    <3>1. op[t].pc = "discardRemove" /\ ~Running(new)
      BY <1>2, <1>22 DEF DiscardRemove, Secures
    <3> QED BY <1>1, <1>2, <1>14, <1>22, <3>1 DEF DiscardRemove
  <2>2. LiveOf(a)' = {id} /\ ctr'[id].name = k
    BY <1>3, <1>14, <2>1, Goes
  <2> QED BY <1>7, <1>8, <2>1, <2>2
<1>23. ASSUME SaveSnapshotFails(t) \/ StopFails(t) \/ RemoveFails(t) \/ CreateFails(t) \/ StartFails(t)
       PROVE  FALSE
  <2>1. CASE SaveSnapshotFails(t)
    BY <1>1, <2>1 DEF SaveSnapshotFails
  <2>2. CASE StopFails(t) \/ RemoveFails(t)
    BY <1>1, <1>2, <1>14, <2>2 DEF StopFails, RemoveFails, Secures
  <2>3. CASE CreateFails(t)
    <3>1. op[t].pc = "create" /\ LiveOf(a) = {id} /\ CreateName(op[t]) = Tmp(a)
      BY <1>1, <1>2, <1>3, <2>3 DEF CreateFails, Secures, CreateName, Sound
    <3>2. Named(Tmp(a)) = {}
      BY <1>3, <3>1 DEF Named, LiveOf, Tmp, TempName, Own
    <3>3. CreateImage(op[t]) # NoDigest
      BY <1>1 DEF CreateImage, Op, Ref, FloatingTag, Digest, NoDigest
    <3> QED BY <1>1, <2>3, <3>1, <3>2, <3>3 DEF CreateFails
  <2>4. CASE StartFails(t)
    BY <1>1, <1>2, <1>14, <2>4 DEF StartFails
  <2> QED BY <1>23, <2>1, <2>2, <2>3, <2>4
<1> QED
  BY <1>1, <1>9, <1>10, <1>11, <1>12, <1>15, <1>16, <1>17, <1>18, <1>19, <1>20, <1>21, <1>22, <1>23
     DEF OpMoves, OpStep, RemoveTakenForGone, LockContainer, Relock, PullPinned, Reinspect,
         ReinspectFails, StartOld, Holds, Sound, OnPath

\* An operation that waits for its lock, or pulls without it, has no part in this.
LEMMA WaitingSecures ==
  ASSUME IInv, NEW u \in Thread, OpMoves(u), op[u].pc # "idle", ~Holds(op[u]), Secures(op[u])
  PROVE  OpSecures(u)'
<1> USE DEF At
<1>1. Sound(op[u]) /\ op[u] \in Op /\ Idle.pc = "idle"
  BY DEF IInv, TypeOK, OpShape, Idle
<1>2. LockContainer(u) \/ PullTag(u) \/ PullFails(u) \/ Relock(u)
  BY <1>1
     DEF OpMoves, OpStep, Holds, Inspect, InspectRejects, PullPinned, Reinspect, ReinspectFails,
         SaveSnapshot, SaveSnapshotFails, Stop, StopFails, Remove, RemoveFails,
         RemoveTakenForGone, StartOld, Create, CreateFails, Start, StartFails, PortConflict,
         Healthy, Unhealthy, DiscardStop, DiscardRemove, Rename, Sound, OnPath, Secures
<1>3. op[u].kind = "blueGreen" => LockContainer(u)
  BY <1>1, <1>2 DEF LockContainer, PullTag, PullFails, Relock, Holds, Sound, OnPath
<1>4. op'[u] = Idle \/ /\ op'[u].kind = op[u].kind /\ op'[u].restoring = op[u].restoring
                       /\ op'[u].pc \in {"inspect", "reinspect", "relock"}
  <2>1. CASE LockContainer(u)
    BY <2>1 DEF LockContainer, Secures, IInv, TypeOK, Op
  <2>2. CASE Relock(u)
    BY <2>2 DEF Relock, IInv, TypeOK, Op
  <2>3. CASE PullTag(u)
    BY <1>3, <2>3, GotoFields DEF PullTag, Secures, LockContainer
  <2> QED BY <1>2, <2>1, <2>2, <2>3, ReturnsIdle DEF PullFails
<1> QED BY <1>1, <1>4 DEF OpSecures, Secures

\* What one operation has of its app, no other operation changes.
LEMMA OthersSecure ==
  ASSUME IInv, NEW u \in Thread, OpMoves(u), spent'.faults = 0, NEW t \in Thread \ {u},
         OpSecures(t)
  PROVE  OpSecures(t)'
<1>1. op'[t] = op[t]
  BY OthersStay
<1>2. CASE op[t].pc = "idle" \/ ~Holds(op[t])
  BY <1>1, <1>2 DEF OpSecures, Secures, Holds
<1>3. CASE op[t].pc # "idle" /\ Holds(op[t])
  <2>1. Sound(op[t]) /\ op[t] \in Op /\ Secures(op[t])
    BY <1>3 DEF IInv, TypeOK, OpShape, OpSecures
  <2>2. PICK k \in Names, id \in Id, new \in Id \cup {0} :
          k = op[t].key /\ id = op[t].id /\ new = op[t].newId
    BY <2>1, UpdaterAssumption DEF Op, Sound, IInv, TypeOK, Id
  <2>3. PICK a \in App : a = k.app
    BY DEF Names
  <2>4. ~Holds(op[u]) \/ op[u].key.app # a
    BY <1>3, <2>2, <2>3, Exclusive
  <2>5. LiveOf(a)' = LiveOf(a) /\ \A i \in LiveOf(a) : ctr'[i] = ctr[i]
    BY <2>4, AppsApart
  <2>6. HasSnap(a) => HasSnap(a)'
    BY FilesStay
  <2>7. id \in LiveOf(a) => (Running(id)' <=> Running(id))
    BY <2>5 DEF Running
  <2>8. new \in LiveOf(a) => (Running(new)' <=> Running(new))
    BY <2>5 DEF Running
  <2>9. op[t].pc = "remove" => id \in LiveOf(a)
    BY <2>1, <2>2, <2>3 DEF Secures
  <2>10. op[t].kind = "blueGreen" /\ op[t].pc = "discardRemove" => new \in LiveOf(a)
    BY <2>1, <2>2, <2>3 DEF Secures
  <2>11. PICK o : o = op[t]
    OBVIOUS
  <2>12. o.key.app = a /\ o.id = id /\ o.newId = new /\ op'[t] = o
    BY <1>1, <2>2, <2>3, <2>11
  <2>13. /\ HasSnap(o.key.app) => HasSnap(o.key.app)'
         /\ LiveOf(o.key.app)' = LiveOf(o.key.app)
    BY <2>5, <2>6, <2>12 DEF HasSnap, LiveOf
  <2>14. /\ o.pc = "remove" => (Running(o.id)' <=> Running(o.id))
         /\ o.kind = "blueGreen" /\ o.pc = "discardRemove" => (Running(o.newId)' <=> Running(o.newId))
    BY <2>7, <2>8, <2>9, <2>10, <2>11, <2>12 DEF Running
  <2>15. Secures(o)
    BY <2>1, <2>11
  <2>16. Secures(o)'
    BY <2>13, <2>14, <2>15 DEF Secures, LiveOf, HasSnap, Running
  <2> QED BY <2>12, <2>16 DEF OpSecures, Secures
<1> QED BY <1>2, <1>3

\* Every step of an operation leaves each app settled or in hand.
LEMMA OperationSettles ==
  ASSUME IInv, NamesUnique, NEW u \in Thread, OpMoves(u), spent'.faults = 0,
         \A t \in Thread : OpSecures(t),
         \A a \in App : Settled(a) \/ \E t \in Thread : InHand(t, a)
  PROVE  /\ NamesUnique'
         /\ \A t \in Thread : OpSecures(t)'
         /\ \A a \in App : (Settled(a) \/ \E t \in Thread : InHand(t, a))'
<1>1. op[u].pc # "idle" /\ Secures(op[u])
  BY DEF OpMoves, OpStep, LockContainer, Relock, Inspect, InspectRejects, PullTag, PullPinned,
     PullFails, Reinspect, ReinspectFails, SaveSnapshot, SaveSnapshotFails, Stop, StopFails,
     Remove, RemoveFails, RemoveTakenForGone, StartOld, Create, CreateFails, Start, StartFails,
     PortConflict, Healthy, Unhealthy, DiscardStop, DiscardRemove, Rename, At, OpSecures
<1>2. NamesUnique' /\ \A t \in Thread \ {u} : OpSecures(t)' /\ op'[t] = op[t]
  BY UniqueMoves, OthersSecure, OthersStay
<1>3. ASSUME NEW a \in App, ~Holds(op[u]) \/ op[u].key.app # a
      PROVE  (Settled(a) \/ \E t \in Thread : InHand(t, a))'
  <2>1. LiveOf(a)' = LiveOf(a) /\ \A i \in LiveOf(a) : ctr'[i] = ctr[i]
    BY <1>3, AppsApart
  <2>2. Settled(a) => Settled(a)'
    BY <2>1, SettledStays
  <2>3. ASSUME NEW t \in Thread, InHand(t, a) PROVE InHand(t, a)'
    <3>1. t # u
      BY <1>3, <2>3 DEF InHand, Displaced, Holds
    <3> QED BY <1>2, <2>3, <3>1 DEF InHand, Displaced
  <2> QED BY <2>2, <2>3
<1>4. CASE ~Holds(op[u])
  BY <1>1, <1>2, <1>3, <1>4, WaitingSecures
<1>5. CASE Holds(op[u])
  <2>1. PICK b \in App : op[u].key.app = b
    BY <1>1 DEF IInv, OpShape, Sound, Names
  <2>2. Settled(b) \/ Displaced(op[u])
    <3>1. ASSUME NEW t \in Thread \ {u}, InHand(t, b) PROVE FALSE
      BY <1>5, <2>1, <3>1, Exclusive DEF InHand, Displaced, Holds
    <3> QED BY <3>1 DEF InHand
  <2>3. OpSecures(u)' /\ (Settled(b) \/ InHand(u, b))'
    <3>1. op[u].kind = "update" \/ op[u].kind = "blueGreen"
      BY <1>1 DEF Secures
    <3> QED BY <1>1, <1>5, <2>1, <2>2, <3>1, UpdateSecures, BlueGreenSecures
  <2> QED BY <1>2, <1>3, <2>1, <2>3
<1> QED BY <1>4, <1>5

\* RecoverOrphans undoes, or finishes, what a crash left half done.
LEMMA RecoverySettles ==
  ASSUME IInv, NamesUnique, RecSettles, \A a \in App : Left(a), Recover, spent'.faults = 0
  PROVE  /\ NamesUnique'
         /\ agent' = "up" => \A a \in App : Settled(a)'
         /\ agent' # "up" => \A a \in App : Left(a)'
         /\ agent' = "recovering" => RecSettles'
<1> USE DEF InRecovery
<1>0. /\ agent = "recovering"
      /\ \A n \in Names : OriginalName(n) \in Names /\ OriginalName(n).app = n.app
                           /\ ~OriginalName(n).temp
  <2>1. agent = "recovering"
    BY RecoverSteps
  <2>2. ASSUME NEW n \in Names
        PROVE  /\ OriginalName(n) \in Names
               /\ OriginalName(n).app = n.app /\ ~OriginalName(n).temp
    BY DEF OriginalName, Own, Names
  <2> QED BY <2>1, <2>2
<1>1. /\ rec \in Rec /\ RecShape /\ UNCHANGED store /\ snapshots' = disk' /\ snapshots \in SUBSET Snapshot
      /\ ~Fault /\ ~Faults(2)
  BY RecoverSteps, Counts DEF IInv, TypeOK, RecSettles, store
<1>2. \A a \in App : HasSnap(a) => HasSnap(a)'
  BY <1>1 DEF HasSnap, store
<1>3. \A n, m \in Names : n.app = m.app /\ n.temp = m.temp => n = m
  BY DEF Names
<1>4. ASSUME \A n \in Names : Named(n)' = Named(n)
      PROVE  NamesUnique' /\ \A a \in App : Left(a)'
  <2>1. NamesUnique'
    BY <1>4 DEF NamesUnique
  <2>2. ASSUME NEW a \in App, LiveOf(a) # {} PROVE LiveOf(a)' # {}
    <3>1. PICK i \in Id, n \in Names : i \in Named(n) /\ n.app = a
      BY <2>2 DEF LiveOf, Named, IInv, TypeOK, Container
    <3>2. i \in Named(n)'
      BY <1>4, <3>1
    <3> QED BY <3>1, <3>2 DEF LiveOf, Named
  <2> QED BY <1>2, <2>1, <2>2 DEF Left
<1>5. UNCHANGED ctr => \A n \in Names : Named(n)' = Named(n)
  BY DEF Named, Live
<1>6. CASE RecoverList
  <2>1. /\ rec.pc = "list" /\ UNCHANGED <<ctr, agent>> /\ rec.seen = {}
        /\ rec' = [rec EXCEPT !.pc = "temps",
             !.existing = {ctr[i].name : i \in {j \in Id : Live(j)}},
             !.todo = {n \in {ctr[i].name : i \in {j \in Id : Live(j)}} : n.temp}]
    BY <1>6 DEF RecoverList, daemon, RecSettles
  <2>2. /\ rec'.pc = "temps" /\ rec'.seen = {}
        /\ rec'.existing = {ctr[i].name : i \in {j \in Id : Live(j)}}
        /\ rec'.todo = {n \in {ctr[i].name : i \in {j \in Id : Live(j)}} : n.temp}
    BY <1>1, <2>1 DEF Rec
  <2>3. \A n \in Names : Named(n) # {} <=> n \in {ctr[i].name : i \in {j \in Id : Live(j)}}
    BY DEF Named
  <2>4. \A n \in Names : Named(n)' # {} <=> n \in IF n.temp THEN rec'.todo ELSE rec'.existing
    BY <1>5, <2>1, <2>2, <2>3
  <2>5. RecSettles'
    BY <1>1, <2>2, <2>4 DEF RecSettles
  <2>6. agent' # "up"
    BY <1>0, <2>1
  <2> QED BY <1>4, <1>5, <2>1, <2>5, <2>6
<1>7. ASSUME RecoverListFails PROVE FALSE
  BY <1>1, <1>7 DEF RecoverListFails
<1>8. ASSUME NEW n \in Names, RecoverTempStop(n)
      PROVE  NamesUnique' /\ (\A a \in App : Left(a)') /\ RecSettles' /\ UNCHANGED agent
  <2>1. /\ rec.pc = "temps" /\ OriginalName(n) \in rec.existing /\ UNCHANGED agent
        /\ rec' = [rec EXCEPT !.pc = "tempRemove", !.name = n]
        /\ ctr' = [i \in Id |-> IF i \in Named(n) /\ Running(i)
                                THEN [ctr[i] EXCEPT !.state = "exited"] ELSE ctr[i]]
    BY <1>1, <1>8 DEF RecoverTempStop
  <2>2. /\ rec'.pc = "tempRemove" /\ rec'.name = n /\ rec'.todo = rec.todo
        /\ rec'.existing = rec.existing /\ rec'.seen = rec.seen
    BY <1>1, <2>1 DEF Rec
  <2>3. \A i \in Id : /\ ctr'[i].name = ctr[i].name
                      /\ ctr'[i].state = IF i \in Named(n) /\ Running(i) THEN "exited"
                                        ELSE ctr[i].state
    BY <2>1 DEF IInv, TypeOK, Container
  <2>4. \A m \in Names : Named(m)' = Named(m)
    BY <2>3 DEF Named, Live, Running
  <2>5. \A i \in Named(n)' : ~Running(i)'
    BY <2>3, <2>4 DEF Running
  <2>6. OriginalName(rec.name)' = OriginalName(n) /\ Named(rec.name)' = Named(n)'
    BY <2>2 DEF OriginalName, Named
  <2>7. RecSettles'
    BY <1>1, <2>1, <2>2, <2>4, <2>5, <2>6 DEF RecSettles
  <2> QED BY <1>4, <2>1, <2>4, <2>7
<1>9. CASE RecoverTempRemove
  <2>1. PICK n \in Names : n = rec.name /\ n.temp /\ rec.pc = "tempRemove"
    BY <1>1, <1>9 DEF RecoverTempRemove, RecShape
  <2>2. OriginalName(n) \in rec.existing /\ \A i \in Named(n) : ~Running(i)
    BY <2>1 DEF RecSettles
  <2>3. /\ ctr' = [i \in Id |-> IF i \in Named(n) /\ ~Running(i)
                                THEN [ctr[i] EXCEPT !.state = "gone"] ELSE ctr[i]]
        /\ rec' = [rec EXCEPT !.pc = "temps", !.name = None, !.todo = @ \ {n}]
        /\ UNCHANGED agent
    BY <1>1, <1>9, <2>1 DEF RecoverTempRemove
  <2>4. /\ rec'.pc = "temps" /\ rec'.todo = rec.todo \ {n}
        /\ rec'.existing = rec.existing /\ rec'.seen = rec.seen
    BY <1>1, <2>3 DEF Rec
  <2>5. \A i \in Id : /\ i \in Named(n) => ctr'[i].state = "gone"
                      /\ i \notin Named(n) => ctr'[i] = ctr[i]
    BY <2>2, <2>3 DEF IInv, TypeOK, Container
  <2>6. \A m \in Names : Named(m)' = IF m = n THEN {} ELSE Named(m)
    <3>1. \A i \in Id : ctr'[i].name = ctr[i].name
      BY <2>3 DEF IInv, TypeOK, Container
    <3>2. \A i \in Named(n) : ctr[i].name = n
      BY DEF Named
    <3>3. ASSUME NEW i \in Id, ctr'[i].name = n, ctr'[i].state # "gone" PROVE FALSE
      <4>1. i \notin Named(n)
        BY <2>5, <3>3
      <4> QED BY <2>5, <3>1, <3>3, <4>1 DEF Named, Live
    <3>4. ASSUME NEW m \in Names, m # n PROVE Named(m)' = Named(m)
      <4>1. \A i \in Named(m) : i \notin Named(n)
        BY <3>2, <3>4 DEF Named
      <4>2. \A i \in Named(m)' : i \notin Named(n)
        BY <3>1, <3>2, <3>4 DEF Named
      <4> QED BY <2>5, <4>1, <4>2 DEF Named, Live
    <3>5. Named(n)' = {}
      BY <3>3 DEF Named, Live
    <3> QED BY <3>4, <3>5
  <2>7. NamesUnique'
    BY <2>6 DEF NamesUnique
  <2>8. \A m \in Names : Named(m)' # {} <=> m \in IF m.temp THEN rec'.todo ELSE rec'.existing
    BY <2>1, <2>4, <2>6 DEF RecSettles
  <2>9. RecSettles'
    BY <1>1, <2>1, <2>4, <2>8 DEF RecSettles
  <2>10. ASSUME NEW a \in App, LiveOf(a) # {} PROVE LiveOf(a)' # {}
    <3>1. PICK i \in Id, m \in Names : i \in Named(m) /\ m.app = a
      BY <2>10 DEF LiveOf, Named, IInv, TypeOK, Container
    <3>2. PICK o \in Names : o = OriginalName(n) /\ o.app = n.app /\ ~o.temp
      BY <1>0
    <3>3. Named(o) # {}
      BY <2>1, <2>2, <3>2 DEF RecSettles
    <3>4. PICK j \in Id, p \in Names : j \in Named(p) /\ p.app = a /\ p # n
      BY <2>1, <3>1, <3>2, <3>3 DEF Named
    <3>5. j \in Named(p)'
      BY <2>6, <3>4
    <3> QED BY <3>4, <3>5 DEF LiveOf, Named
  <2>11. agent' # "up"
    BY <1>9, <2>3 DEF RecoverTempRemove
  <2> QED BY <1>2, <2>7, <2>9, <2>10, <2>11 DEF Left
<1>10. ASSUME NEW n \in Names, RecoverTempRename(n)
       PROVE  NamesUnique' /\ (\A a \in App : Left(a)') /\ RecSettles' /\ UNCHANGED agent
  <2>1. /\ rec.pc = "temps" /\ n \in rec.todo /\ n.temp /\ UNCHANGED agent
        /\ OriginalName(n) \notin rec.existing
        /\ ctr' = [i \in Id |-> IF i \in Named(n)
                                THEN [ctr[i] EXCEPT !.name = OriginalName(n)] ELSE ctr[i]]
        /\ rec' = [rec EXCEPT !.todo = @ \ {n}, !.existing = @ \cup {OriginalName(n)}]
    BY <1>1, <1>10 DEF RecoverTempRename, RecShape
  <2>2. PICK o \in Names : o = OriginalName(n) /\ o.app = n.app /\ ~o.temp
    BY <1>0
  <2>3. /\ rec'.pc = "temps" /\ rec'.todo = rec.todo \ {n} /\ rec'.seen = rec.seen
        /\ rec'.existing = rec.existing \cup {o}
    BY <1>1, <2>1, <2>2 DEF Rec
  <2>4. Named(o) = {} /\ Named(n) # {} /\ o # n
    BY <2>1, <2>2 DEF RecSettles
  <2>5. \A i \in Id : /\ ctr'[i].state = ctr[i].state
                      /\ ctr'[i].name = IF i \in Named(n) THEN o ELSE ctr[i].name
    BY <2>1, <2>2 DEF IInv, TypeOK, Container
  <2>6. \A m \in Names : Named(m)' = IF m = n THEN {} ELSE IF m = o THEN Named(n) ELSE Named(m)
    BY <2>4, <2>5 DEF Named, Live
  <2>7. NamesUnique'
    BY <2>6 DEF NamesUnique
  <2>8. \A m \in Names : Named(m)' # {} <=> m \in IF m.temp THEN rec'.todo ELSE rec'.existing
    BY <2>1, <2>2, <2>3, <2>4, <2>6 DEF RecSettles
  <2>9. RecSettles'
    BY <1>1, <2>1, <2>3, <2>8 DEF RecSettles
  <2>10. ASSUME NEW a \in App, LiveOf(a) # {} PROVE LiveOf(a)' # {}
    BY <2>2, <2>5, <2>10 DEF LiveOf, Live, Named
  <2> QED BY <1>2, <2>1, <2>7, <2>9, <2>10 DEF Left
<1>11. CASE RecoverTempsDone
  <2>1. /\ rec.pc = "temps" /\ rec.todo = {} /\ UNCHANGED <<ctr, agent>>
        /\ rec' = [rec EXCEPT !.pc = "snapshots"]
    BY <1>11 DEF RecoverTempsDone, daemon
  <2>2. rec'.pc = "snapshots" /\ rec'.existing = rec.existing /\ rec'.seen = {}
    BY <1>1, <2>1 DEF Rec, RecSettles
  <2>3. \A m \in Names : Named(m)' # {} <=> ~m.temp /\ m \in rec'.existing \cup rec'.seen
    BY <1>5, <2>1, <2>2 DEF RecSettles
  <2>4. RecSettles'
    BY <1>1, <2>2, <2>3 DEF RecSettles
  <2>5. agent' # "up"
    BY <1>11, <2>1 DEF RecoverTempsDone
  <2> QED BY <1>4, <1>5, <2>1, <2>4, <2>5
<1>12. ASSUME NEW s \in snapshots, RecoverSkip(s)
       PROVE  UNCHANGED <<ctr, agent>> /\ RecSettles'
  <2>1. /\ rec.pc = "snapshots" /\ s.name \in rec.existing /\ UNCHANGED <<ctr, agent>>
        /\ rec' = [rec EXCEPT !.seen = @ \cup {s.name}]
    BY <1>12 DEF RecoverSkip, daemon
  <2>2. rec'.pc = "snapshots" /\ rec'.existing = rec.existing /\ rec'.seen = rec.seen \cup {s.name}
    BY <1>1, <2>1 DEF Rec
  <2>3. \A m \in Names : Named(m)' # {} <=> ~m.temp /\ m \in rec'.existing \cup rec'.seen
    BY <1>5, <2>1, <2>2 DEF RecSettles
  <2> QED BY <1>1, <2>1, <2>2, <2>3 DEF RecSettles
<1>13. ASSUME NEW s \in snapshots, RecoverCreate(s)
       PROVE  NamesUnique' /\ (\A a \in App : Left(a)') /\ RecSettles' /\ UNCHANGED agent
  <2>1. /\ rec.pc = "snapshots" /\ UNCHANGED agent /\ NewContainer(s.name, RecoveryRef(s))
        /\ rec' = [rec EXCEPT !.pc = "start", !.seen = @ \cup {s.name}, !.newId = lastId']
    BY <1>13 DEF RecoverCreate
  <2>2. PICK n \in Names : n = s.name /\ ~n.temp /\ RecoveryRef(s) \in Ref
    BY <1>1 DEF Snapshot, IInv, SnapshotShape, Ref, RecoveryRef
  <2>3. /\ \A a \in App : LiveOf(a)' = LiveOf(a) \cup (IF n.app = a THEN {lastId'} ELSE {})
        /\ \A m \in Names : Named(m)' = Named(m) \cup (IF m = n THEN {lastId'} ELSE {})
        /\ Named(n) = {} /\ lastId' \in Id
    BY <2>1, <2>2, Comes
  <2>4. /\ rec'.pc = "start" /\ rec'.existing = rec.existing /\ rec'.seen = rec.seen \cup {n}
        /\ rec'.newId = lastId'
    BY <1>1, <2>1, <2>2 DEF Rec
  <2>5. NamesUnique'
    BY <2>3 DEF NamesUnique
  <2>6. \A m \in Names : Named(m)' # {} <=> ~m.temp /\ m \in rec'.existing \cup rec'.seen
    BY <2>1, <2>2, <2>3, <2>4 DEF RecSettles
  <2>7. ctr'[lastId'].state = "created"
    BY <2>1, <2>2, NewContainerKeeps DEF IInv
  <2>8. RecSettles'
    BY <1>1, <2>3, <2>4, <2>6, <2>7 DEF RecSettles, Live
  <2> QED BY <1>2, <2>1, <2>3, <2>5, <2>8 DEF Left
<1>14. ASSUME NEW s \in snapshots, RecoverCreateFails(s) PROVE FALSE
  <2>1. rec.pc = "snapshots" /\ s.name \notin rec.seen \cup rec.existing /\ s.name \in Names
    BY <1>1, <1>14 DEF RecoverCreateFails, Snapshot
  <2>2. Named(s.name) = {}
    BY <2>1 DEF RecSettles
  <2> QED BY <1>1, <1>14, <2>2 DEF RecoverCreateFails
<1>15. CASE RecoverStart
  <2>1. PICK i \in Id : i = rec.newId
    BY <1>15 DEF RecoverStart, RecSettles, Live
  <2>2. /\ Live(i) /\ rec.pc = "start" /\ SetState(i, "running") /\ UNCHANGED agent
        /\ rec' = [rec EXCEPT !.pc = "snapshots", !.newId = 0]
    BY <1>1, <1>15, <2>1 DEF RecoverStart, RecSettles
  <2>3. rec'.pc = "snapshots" /\ rec'.existing = rec.existing /\ rec'.seen = rec.seen
    BY <1>1, <2>2 DEF Rec
  <2>4. \A m \in Names : Named(m)' = Named(m)
    BY <2>2, StateChanges
  <2>5. RecSettles'
    BY <1>1, <2>2, <2>3, <2>4 DEF RecSettles
  <2>6. agent' # "up"
    BY <1>15, <2>2 DEF RecoverStart
  <2> QED BY <1>4, <2>2, <2>4, <2>5, <2>6
<1>16. CASE RecoverDone
  <2>1. /\ rec.pc = "snapshots" /\ agent' = "up" /\ UNCHANGED ctr
        /\ \A s \in snapshots : s.name \in rec.seen
    BY <1>16 DEF RecoverDone, daemon
  <2>2. ASSUME NEW a \in App PROVE Settled(a)
    <3>1. Own(a) \in Names /\ Tmp(a) \in Names /\ ~Own(a).temp /\ Tmp(a).temp
          /\ LiveOf(a) = Named(Own(a)) \cup Named(Tmp(a))
      BY TwoNames DEF Own, Tmp, TempName
    <3>2. Named(Tmp(a)) = {}
      BY <2>1, <3>1 DEF RecSettles
    <3>3. Named(Own(a)) # {}
      BY <2>1, <3>1, <3>2 DEF RecSettles, Left, HasSnap
    <3>4. PICK i \in Named(Own(a)) : TRUE
      BY <3>3
    <3>5. Named(Own(a)) = {i}
      BY <3>1, <3>4 DEF NamesUnique
    <3> QED BY <3>1, <3>2, <3>4, <3>5 DEF Settled, Named
  <2>3. \A a \in App : Settled(a)'
    BY <2>1, <2>2 DEF Settled, LiveOf, Live
  <2> QED BY <1>4, <1>5, <2>1, <2>3
<1> QED
  BY <1>0, <1>4, <1>5, <1>6, <1>7, <1>8, <1>9, <1>10, <1>11, <1>12, <1>13, <1>14, <1>15, <1>16
     DEF Recover

\* A crash leaves a container of every app, or the file of the one that was removed.
LEMMA CrashLeaves ==
  ASSUME IInv, \A t \in Thread : OpSecures(t), NEW a \in App,
         Settled(a) \/ \E t \in Thread : InHand(t, a)
  PROVE  Left(a)
<1>1. Settled(a) => LiveOf(a) # {}
  BY DEF Settled
<1>2. ASSUME NEW t \in Thread, InHand(t, a) PROVE Left(a)
  <2>1. Secures(op[t]) /\ op[t].key.app = a
    BY <1>2 DEF InHand, Displaced, OpSecures
  <2> QED BY <1>2, <2>1 DEF InHand, Displaced, Secures, Left
<1> QED BY <1>1, <1>2 DEF Left

\* Every step preserves the invariant.
LEMMA StepSettles ==
  ASSUME UpdatesAlone, IInv, SettleInv, [Next]_vars
  PROVE  SettleInv'
<1> SUFFICES ASSUME spent'.faults = 0 PROVE SettleInv'
  BY DEF SettleInv
<1>1. ASSUME NEW u \in Thread, OpMoves(u) PROVE SettleInv'
  <2>1. spent.faults = 0 /\ UNCHANGED agent
    BY <1>1, Spends, Counts
  <2>2. agent = "up"
    BY <1>1 DEF OpMoves, OpStep, LockContainer, Relock, Inspect, InspectRejects, PullTag,
       PullPinned, PullFails, Reinspect, ReinspectFails, SaveSnapshot, SaveSnapshotFails, Stop,
       StopFails, Remove, RemoveFails, RemoveTakenForGone, StartOld, Create, CreateFails, Start,
       StartFails, PortConflict, Healthy, Unhealthy, DiscardStop, DiscardRemove, Rename, At, IInv,
       OpShape
  <2> QED BY <1>1, <2>1, <2>2, OperationSettles DEF SettleInv
<1>2. ASSUME NEW t \in Thread, NEW k \in Kind, NEW id \in Id, NEW target \in Digest,
             Begin(t, k, id, target)
      PROVE  SettleInv'
  <2>1. /\ UNCHANGED <<ctr, disk, agent>> /\ spent'.faults = spent.faults /\ op[t].pc = "idle"
        /\ agent = "up"
        /\ op' = [op EXCEPT ![t] = [Idle EXCEPT !.kind = k, !.pc = "lock", !.id = id,
                                                !.key = ctr[id].name, !.want = target]]
    BY <1>2 DEF Begin, Requested, daemon, store, IInv, TypeOK, Spent
  <2>2. /\ op'[t].pc = "lock" /\ op'[t].kind = k /\ ~op'[t].restoring
        /\ \A u \in Thread \ {t} : op'[u] = op[u]
    BY <2>1 DEF Idle, IInv, TypeOK
  <2>3. spent.faults = 0 /\ k \in {"update", "blueGreen"}
    BY <2>1 DEF UpdatesAlone
  <2>4. /\ NamesUnique /\ \A u \in Thread : OpSecures(u)
        /\ \A a \in App : Settled(a) \/ \E u \in Thread : InHand(u, a)
    BY <2>1, <2>3 DEF SettleInv
  <2>5. OpSecures(t)'
    BY <2>2, <2>3 DEF OpSecures, Secures
  <2>6. \A u \in Thread \ {t} : OpSecures(u)'
    BY <2>1, <2>2, <2>4 DEF OpSecures, Secures, LiveOf, HasSnap, Live, Running
  <2>7. ASSUME NEW a \in App PROVE (Settled(a) \/ \E u \in Thread : InHand(u, a))'
    <3>1. ~InHand(t, a)
      BY <2>1 DEF InHand, Displaced
    <3>2. Settled(a) => Settled(a)'
      BY <2>1 DEF Settled, LiveOf, Live
    <3>3. \A u \in Thread \ {t} : InHand(u, a) => InHand(u, a)'
      BY <2>2 DEF InHand, Displaced
    <3> QED BY <2>4, <3>1, <3>2, <3>3
  <2>8. NamesUnique'
    BY <2>1, <2>4 DEF NamesUnique, Named, Live
  <2> QED BY <2>1, <2>5, <2>6, <2>7, <2>8 DEF SettleInv
<1>3. ASSUME NEW t \in Thread, NEW s \in snapshots, BeginRollback(t, s) PROVE FALSE
  BY <1>3 DEF BeginRollback, Requested, UpdatesAlone
<1>4. ASSUME NEW id \in Id, Command(id) PROVE FALSE
  BY <1>4 DEF Command, ContainerDelete, ContainerStop, ContainerStart, Requested, UpdatesAlone
<1>5. CASE (\E a \in App : Publish(a)) \/ Rest \/ UNCHANGED vars
  <2>1. UNCHANGED <<ctr, disk, snapshots, rec, op, agent, spent>>
    BY <1>5 DEF Publish, Rest, vars, daemon, store
  <2>2. NamesUnique => NamesUnique'
    BY <2>1 DEF NamesUnique, Named, Live
  <2>3. ASSUME NEW t \in Thread PROVE OpSecures(t) => OpSecures(t)'
    BY <2>1 DEF OpSecures, Secures, LiveOf, HasSnap, Live, Running
  <2>4. ASSUME NEW a \in App
        PROVE  /\ Settled(a) => Settled(a)'
               /\ \A t \in Thread : InHand(t, a) => InHand(t, a)'
    BY <2>1 DEF Settled, LiveOf, Live, InHand, Displaced
  <2>5. ASSUME NEW a \in App PROVE Left(a) => Left(a)'
    BY <2>1 DEF Left, LiveOf, HasSnap, Live
  <2>6. RecSettles => RecSettles'
    BY <2>1 DEF RecSettles, Named, Live, Running, OriginalName
  <2> QED BY <2>1, <2>2, <2>3, <2>4, <2>5, <2>6 DEF SettleInv
<1>6. CASE Crash
  <2>1. /\ UNCHANGED <<ctr, disk>> /\ agent' = "down" /\ spent'.faults = spent.faults
        /\ agent # "down"
    BY <1>6 DEF Crash, daemon, IInv, TypeOK, Spent
  <2>2. NamesUnique /\ \A a \in App : Left(a)
    BY <2>1, CrashLeaves DEF SettleInv, IInv, TypeOK
  <2>3. NamesUnique' /\ \A a \in App : Left(a)'
    BY <2>1, <2>2 DEF NamesUnique, Named, Live, Left, LiveOf, HasSnap
  <2> QED BY <2>1, <2>3 DEF SettleInv
<1>7. CASE Restart
  <2>1. /\ UNCHANGED <<ctr, disk, spent>> /\ agent = "down" /\ agent' = "recovering"
        /\ snapshots' = disk /\ rec' = [NoRec EXCEPT !.pc = "list"]
    BY <1>7 DEF Restart, daemon
  <2>2. NamesUnique' /\ \A a \in App : Left(a)'
    BY <2>1 DEF SettleInv, NamesUnique, Named, Live, Left, LiveOf, HasSnap
  <2>3. rec'.pc = "list" /\ rec'.seen = {}
    BY <2>1 DEF NoRec
  <2>4. RecSettles'
    BY <2>1, <2>3 DEF RecSettles
  <2> QED BY <2>1, <2>2, <2>4 DEF SettleInv
<1>8. CASE Recover
  <2>1. agent = "recovering" /\ UNCHANGED op /\ (UNCHANGED spent \/ Fault \/ Faults(2))
    BY <1>8, RecoverSteps
       DEF Recover, RecoverList, RecoverListFails, RecoverTempStop, RecoverTempRename,
           RecoverTempRemove, RecoverTempsDone, RecoverSkip, RecoverCreate, RecoverCreateFails,
           RecoverStart, RecoverDone, NoFault, Fault
  <2>2. spent.faults = 0
    BY <2>1, Counts
  <2>3. NamesUnique /\ RecSettles /\ \A a \in App : Left(a)
    BY <2>1, <2>2 DEF SettleInv
  <2>4. \A t \in Thread : OpSecures(t)'
    BY <2>1 DEF OpSecures, IInv, OpShape
  <2> QED BY <1>8, <2>3, <2>4, RecoverySettles DEF SettleInv
<1> QED
  BY <1>1, <1>2, <1>3, <1>4, <1>5, <1>6, <1>7, <1>8 DEF Next, OpMoves

LEMMA InitSettles == Init => SettleInv
<1> SUFFICES ASSUME Init PROVE SettleInv
  OBVIOUS
<1>1. ASSUME NEW i \in Id, NEW a \in App, Deployed[a] = i
      PROVE  ctr[i].name = Own(a) /\ Live(i)
  <2>1. PICK b : b = CHOOSE c \in App : Deployed[c] = i
    OBVIOUS
  <2>2. b \in App /\ Deployed[b] = i
    BY <1>1, <2>1
  <2>3. ctr[i] = [name |-> Own(b), ref |-> FloatingTag, digest |-> 1, state |-> "running"]
    BY <1>1, <2>1 DEF Init
  <2>4. a = b
    BY <1>1, <2>2, UpdaterAssumption
  <2> QED BY <2>3, <2>4 DEF Live
<1>2. ASSUME NEW i \in Id, Live(i) PROVE \E a \in App : Deployed[a] = i /\ ctr[i].name = Own(a)
  <2>1. \E a \in App : Deployed[a] = i
    BY <1>2 DEF Init, NeverCreated, Live
  <2> QED BY <1>1, <2>1
<1>3. \A a, b \in App : Own(a) = Own(b) => a = b
  BY DEF Own
<1>4. NamesUnique
  BY <1>2, <1>3 DEF NamesUnique, Named
<1>5. ASSUME NEW a \in App PROVE Settled(a)
  <2>1. PICK i \in Id : i = Deployed[a]
    BY UpdaterAssumption DEF Id
  <2>2. ctr[i].name = Own(a) /\ Live(i) /\ Own(a).app = a
    BY <1>1, <2>1 DEF Own
  <2>3. ASSUME NEW j \in LiveOf(a) PROVE j = i
    <3>1. j \in Id /\ Live(j) /\ ctr[j].name.app = a
      BY DEF LiveOf
    <3>2. PICK b \in App : Deployed[b] = j /\ ctr[j].name = Own(b)
      BY <1>2, <3>1
    <3>3. b = a
      BY <3>1, <3>2 DEF Own
    <3> QED BY <2>1, <3>2, <3>3
  <2>4. LiveOf(a) = {i}
    BY <2>1, <2>2, <2>3 DEF LiveOf
  <2> QED BY <2>2, <2>4 DEF Settled
<1>6. agent = "up" /\ \A t \in Thread : op[t].pc = "idle"
  BY DEF Init, Idle
<1> QED BY <1>4, <1>5, <1>6 DEF SettleInv, OpSecures

\* UpdateContainer, BlueGreenUpdate and RecoverOrphans, crashed and restarted at any point
\* when no call has failed: once they are done every app has one container, under its
\* own name.
THEOREM CrashesLeaveOneContainer ==
  ASSUME UpdatesAlone
  PROVE  Spec => []SettlesUnderOwnName
<1>1. IInv /\ SettleInv /\ [Next]_vars => SettleInv'
  BY StepSettles
<1>2. SettleInv => SettlesUnderOwnName
  <2> SUFFICES ASSUME SettleInv, AllIdle, spent.faults = 0, NEW a \in App
               PROVE  \E id \in Named(Own(a)) : \A i \in Id : Live(i) /\ ctr[i].name.app = a => i = id
    BY DEF SettlesUnderOwnName
  <2>1. Settled(a)
    BY DEF SettleInv, AllIdle, InHand, Displaced
  <2> QED BY <2>1 DEF Settled, LiveOf, Named
<1> QED BY <1>1, <1>2, InitSettles, UpdaterInvariant, PTL DEF Spec
=============================================================================
