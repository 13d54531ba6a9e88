---------------------------- MODULE UpdaterProofs ----------------------------
(***************************************************************************)
(* Theorems about Updater for any number of apps, goroutines, requests,    *)
(* faults and crashes, and their proofs.                                   *)
(***************************************************************************)
EXTENDS Updater, TLAPS

-----------------------------------------------------------------------------
(* The strengthening.                                                      *)

\* The steps of each operation.
OnPath(k, s) ==
  \/ s = "lock" /\ k \in {"update", "blueGreen", "rollback", "rollbackTo"}
  \/ s \in {"inspect", "pull"} /\ k \in {"update", "blueGreen", "rollbackTo"}
  \/ s \in {"relock", "reinspect", "startOld"} /\ k = "update"
  \/ s = "save" /\ k \in {"update", "blueGreen"}
  \/ s \in {"stop", "remove", "create", "start"}
     /\ k \in {"update", "blueGreen", "rollback", "rollbackTo"}
  \/ s \in {"health", "discardStop", "discardRemove", "rename"} /\ k = "blueGreen"

\* An operation's container keeps the name the lock is for, and the snapshot has
\* it; the container a blue-green update made has the temporary one, that of any other
\* operation the name itself. Nothing is under way while the agent is down or recovers.
Sound(o) ==
  /\ OnPath(o.kind, o.pc)
  /\ o.id \in 1..lastId
  /\ o.key \in Names /\ ~o.key.temp
  /\ ctr[o.id].name = o.key
  /\ o.kind = "rollback" \/ o.pc \notin {"lock", "inspect"} =>
       o.snap \in Snapshot /\ o.snap.name = o.key /\ o.snap.id = o.id
  /\ o.pc \in {"start", "health", "discardStop", "discardRemove"} => o.newId # 0
  /\ o.kind = "blueGreen" /\ o.newId # 0 =>
       /\ o.newId \in 1..lastId /\ ctr[o.newId].name = TempName(o.key)
       /\ o.pc \notin {"lock", "relock"}
  /\ o.newId \in 0..lastId
  /\ o.kind # "blueGreen" /\ o.pc = "start" => ctr[o.newId].name = o.key
  /\ o.kind = "rollbackTo" => o.want \in Digest

OpShape(t) == op[t].pc # "idle" => agent = "up" /\ Sound(op[t])

\* An operation has its lock, except before it first takes it and, for an
\* update, during the pull.
Holds(o) == o.pc \notin {"idle", "lock", "relock"} /\ (o.kind = "update" => o.pc # "pull")
LockShape(t) == Holds(op[t]) => holder[op[t].key] = t

\* The container a snapshot was taken of keeps the name it had.
SnapshotShape(s) == s.id \in 1..lastId /\ s.name = ctr[s.id].name /\ ~s.name.temp

RecShape ==
  /\ rec.pc # "off" <=> agent = "recovering"
  /\ \A n \in rec.todo : n.temp
  /\ rec.pc = "start" => rec.newId \in 1..lastId
  /\ rec.pc = "tempRemove" => rec.name \in Names /\ rec.name.temp

\* IDs the daemon has not given out name no container.
Born == \A i \in Id : Live(i) => i \in 1..lastId

IInv ==
  /\ TypeOK
  /\ Born
  /\ \A t \in Thread : OpShape(t) /\ LockShape(t)
  /\ \A s \in snapshots \cup disk : SnapshotShape(s)
  /\ RecShape

-----------------------------------------------------------------------------
(* What the building blocks of the actions do.                             *)

\* A container is what it was created from for good.
SameImage(i) == ctr'[i].ref = ctr[i].ref /\ ctr'[i].digest = ctr[i].digest

\* The daemon's containers stay well formed and keep their names.
Kept ==
  /\ ctr' \in [Id -> Container]
  /\ lastId' \in lastId..MaxId
  /\ \A i \in 1..lastId : ctr'[i].name = ctr[i].name /\ SameImage(i)
  /\ Born'

OpTyped == op \in [Thread -> Op] /\ holder \in [Names -> Thread \cup {None}]

\* A step of t touches no other goroutine's state and none of its locks.
OnlyOp(t) ==
  /\ \A u \in Thread \ {t} : op'[u] = op[u]
  /\ \A n \in Names : holder[n] \in Thread \ {t} => holder'[n] = holder[n]

\* All a step of t must establish about operations.
OpFine(t) == OpTyped' /\ OnlyOp(t) /\ OpShape(t)' /\ LockShape(t)'

\* A change of a container's state keeps its name.
LEMMA SetStateKeeps ==
  ASSUME TypeOK, Born, NEW i \in 1..lastId, NEW s \in {"running", "exited", "gone"},
         SetState(i, s), UNCHANGED lastId
  PROVE  Kept
<1>1. i \in Id
  BY UpdaterAssumption DEF TypeOK, Id
<1>2. ctr' \in [Id -> Container]
  BY <1>1 DEF TypeOK, SetState, Container
<1>3. \A j \in Id : ctr'[j].name = ctr[j].name
  BY <1>1 DEF TypeOK, SetState, Container
<1>4. \A j \in Id : ctr'[j].ref = ctr[j].ref /\ ctr'[j].digest = ctr[j].digest
  BY <1>1 DEF TypeOK, SetState, Container
<1>5. \A j \in Id \ {i} : ctr'[j] = ctr[j]
  BY <1>1 DEF TypeOK, SetState
<1>6. Born'
  BY <1>5 DEF Born, Live
<1>7. 1..lastId \subseteq Id /\ lastId' \in lastId..MaxId
  BY UpdaterAssumption DEF TypeOK, Id
<1> QED
  BY <1>2, <1>3, <1>4, <1>6, <1>7 DEF Kept, SameImage

\* So does a call that changes nothing.
LEMMA DaemonKeeps ==
  ASSUME TypeOK, Born, UNCHANGED daemon
  PROVE  Kept
  BY UpdaterAssumption DEF TypeOK, daemon, Kept, Born, Live, SameImage

\* A new container takes a new ID.
LEMMA NewContainerKeeps ==
  ASSUME TypeOK, Born, NEW n \in Names, NEW ref \in Ref, NewContainer(n, ref)
  PROVE  /\ Kept /\ lastId' = lastId + 1 /\ lastId' \in Id
         /\ ctr'[lastId'].name = n /\ ctr'[lastId'].state = "created"
         /\ \A i \in 1..lastId : ctr'[i] = ctr[i]
<1>1. DigestOf(n.app, ref) \in Digest
  BY DEF TypeOK, DigestOf, Names, Ref, FloatingTag
<1> DEFINE c == [name |-> n, ref |-> ref, digest |-> DigestOf(n.app, ref),
                state |-> "created"]
<1>2. c \in Container
  BY <1>1 DEF Container
<1>3. lastId + 1 \in Id /\ lastId' = lastId + 1 /\ ctr' = [ctr EXCEPT ![lastId + 1] = c]
  BY UpdaterAssumption DEF TypeOK, NewContainer, Id
<1>4. c.name = n /\ c.state = "created"
  OBVIOUS
<1> HIDE DEF c
<1>5. Born'
  BY <1>3, UpdaterAssumption DEF TypeOK, Born, Live, Id
<1> QED
  BY <1>2, <1>3, <1>4, <1>5, UpdaterAssumption DEF TypeOK, Kept, Id, SameImage

\* A snapshot says what its container is.
LEMMA SnapshotTyped ==
  ASSUME TypeOK, NEW id \in Id, NEW s \in {FullSnapshot(id), BlindSnapshot(id)}
  PROVE  /\ s \in Snapshot /\ s.id = id /\ s.name = ctr[id].name /\ s.ref = ctr[id].ref
         /\ s = FullSnapshot(id) => s.digest = ctr[id].digest
  BY DEF TypeOK, FullSnapshot, BlindSnapshot, Snapshot, Container

\* An operation that returns leaves nothing behind and gives up its locks only.
LEMMA ReturnFine ==
  ASSUME IInv, NEW t \in Thread, Return(t)
  PROVE  OpFine(t)
<1>1. Idle \in Op
  BY UpdaterAssumption DEF Idle, Op, Step, Ref, FloatingTag, Digest
<1>2. OpTyped' /\ OnlyOp(t)
  BY <1>1, UpdaterAssumption DEF IInv, TypeOK, Return, Released, OpTyped, OnlyOp
<1>3. op'[t].pc = "idle"
  BY DEF IInv, TypeOK, Return, Idle
<1> QED
  BY <1>2, <1>3 DEF OpFine, OpShape, LockShape, Holds

\* An operation that goes on under its lock.
LEMMA GotoFine ==
  ASSUME IInv, NEW t \in Thread, NEW s \in Step, Goto(t, s), Kept, UNCHANGED agent,
         op[t].pc \notin {"idle", "lock", "inspect"},
         s \notin {"idle", "lock", "inspect", "pull", "start"},
         OnPath(op[t].kind, s),
         Holds(op[t]) \/ s = "relock",
         s \in {"health", "discardStop", "discardRemove"} => op[t].newId # 0
  PROVE  OpFine(t)
<1>1. OpTyped' /\ OnlyOp(t)
  BY DEF IInv, TypeOK, Goto, OpTyped, OnlyOp, Op
<1>2. op'[t] = [op[t] EXCEPT !.pc = s]
  BY DEF IInv, TypeOK, Goto, Op
<1>3. op[t] \in Op /\ Sound(op[t]) /\ agent = "up" /\ LockShape(t)
  BY DEF IInv, TypeOK, OpShape
<1>4. Sound(op[t])'
  BY <1>2, <1>3 DEF Sound, Op, Kept, IInv, TypeOK, OnPath
<1>5. LockShape(t)'
  BY <1>2, <1>3 DEF LockShape, Holds, Op, Goto
<1> QED
  BY <1>1, <1>3, <1>4, <1>5 DEF OpFine, OpShape

-----------------------------------------------------------------------------
(* Each step of an operation.                                              *)

\* The steps up to the authoritative inspection, and the second one of an update.
LEMMA FirstSteps ==
  ASSUME IInv, NEW t \in Thread,
         LockContainer(t) \/ Inspect(t) \/ InspectRejects(t) \/ PullTag(t)
           \/ PullPinned(t) \/ PullFails(t) \/ Relock(t) \/ Reinspect(t) \/ ReinspectFails(t)
  PROVE  OpFine(t) /\ Kept
<1>1. Kept /\ UNCHANGED agent
  BY DaemonKeeps DEF IInv, LockContainer, Inspect, InspectRejects, PullTag, PullPinned,
     PullFails, Relock, Reinspect, ReinspectFails, daemon
<1>2. op[t] \in Op /\ OpShape(t) /\ LockShape(t)
  BY DEF IInv, TypeOK
<1>3. CASE LockContainer(t)
  <2>1. OpTyped' /\ OnlyOp(t)
    <3>1. op[t].key \in Names
      BY <1>2, <1>3 DEF LockContainer, At, OpShape, Sound
    <3>2. holder' \in [Names -> Thread \cup {None}]
          /\ \A n \in Names : holder[n] \in Thread \ {t} => holder'[n] = holder[n]
      BY <1>3, <3>1, UpdaterAssumption DEF LockContainer, Lock, IInv, TypeOK
    <3>3. op' \in [Thread -> Op] /\ \A u \in Thread \ {t} : op'[u] = op[u]
      BY <1>3 DEF LockContainer, IInv, TypeOK, Op, Step
    <3> QED BY <3>2, <3>3 DEF OpTyped, OnlyOp
  <2>2. op'[t] = [op[t] EXCEPT !.pc = IF op[t].kind = "rollback" THEN "stop" ELSE "inspect"]
    BY <1>3 DEF LockContainer, IInv, TypeOK, Op
  <2>3. Sound(op[t]) /\ op[t].pc = "lock"
    BY <1>2, <1>3 DEF LockContainer, At, OpShape
  <2>4. OpShape(t)'
    BY <1>1, <1>2, <2>2, <2>3, <1>3
       DEF Sound, OpShape, Op, Kept, IInv, TypeOK, OnPath, LockContainer, At
  <2>5. LockShape(t)'
    BY <1>2, <1>3, <2>2, <2>3 DEF LockShape, Op, LockContainer, Lock, IInv, TypeOK, Sound
  <2> QED BY <1>1, <2>1, <2>4, <2>5 DEF OpFine
<1>4. CASE InspectRejects(t) \/ PullFails(t) \/ ReinspectFails(t)
  BY <1>1, <1>4, ReturnFine DEF InspectRejects, PullFails, ReinspectFails
<1>5. CASE Inspect(t)
  <2> DEFINE img(id) == IF op[t].kind = "rollbackTo" THEN op[t].want
                        ELSE ResolveCheckRef(ctr[id].ref)
             found(id, s) == [op[t] EXCEPT !.pc = "pull", !.id = id, !.snap = s,
                                           !.img = img(id)]
  <2>0. PICK id \in Found(op[t]) : \E s \in {FullSnapshot(id), BlindSnapshot(id)} :
          op' = [op EXCEPT ![t] = found(id, s)]
    BY <1>5 DEF Inspect
  <2>1. PICK s \in {FullSnapshot(id), BlindSnapshot(id)} : op' = [op EXCEPT ![t] = found(id, s)]
    BY <2>0
  <2>2. Sound(op[t]) /\ op[t].pc = "inspect"
    BY <1>2, <1>5 DEF Inspect, At, OpShape
  <2>3. id \in 1..lastId /\ ctr[id].name = op[t].key
    BY <2>0, <2>2 DEF Found, Named, Sound, IInv, Born
  <2>4. s \in Snapshot /\ s.name = op[t].key /\ s.id = id
    BY <2>1, <2>3, SnapshotTyped, UpdaterAssumption DEF IInv, TypeOK, Id
  <2>5. OpTyped' /\ OnlyOp(t)
    <3>1. id \in Id /\ s \in Snapshot
      BY <2>3, <2>4, UpdaterAssumption DEF IInv, TypeOK, Id
    <3>2. img(id) \in Ref
      BY <2>2 DEF Sound, Ref, ResolveCheckRef, FloatingTag
    <3>3. found(id, s) \in Op
      <4> HIDE DEF img
      <4> QED BY <1>2, <3>1, <3>2 DEF Op, Step
    <3> HIDE DEF found
    <3>5. op' \in [Thread -> Op] /\ \A u \in Thread \ {t} : op'[u] = op[u]
      BY <2>1, <3>3 DEF IInv, TypeOK
    <3>4. holder' \in {holder, Released(t)}
      BY <1>5 DEF Inspect
    <3> QED
      BY <3>5, <3>4, UpdaterAssumption DEF IInv, TypeOK, Released, OpTyped, OnlyOp
  <2>6. /\ op'[t].pc = "pull" /\ op'[t].id = id /\ op'[t].snap = s
        /\ op'[t].key = op[t].key /\ op'[t].kind = op[t].kind /\ op'[t].newId = op[t].newId
        /\ op'[t].want = op[t].want
    BY <2>1 DEF IInv, TypeOK, Op
  <2>7. OpShape(t)'
    BY <1>1, <1>2, <1>5, <2>2, <2>3, <2>4, <2>6
       DEF OpShape, Sound, OnPath, Kept, IInv, TypeOK, Inspect, daemon
  <2>8. LockShape(t)'
    BY <1>2, <1>5, <2>2, <2>6 DEF LockShape, Holds, Inspect
  <2> QED BY <1>1, <2>5, <2>7, <2>8 DEF OpFine
<1>6. CASE PullTag(t)
  BY <1>1, <1>2, <1>6, GotoFine
     DEF PullTag, At, OpShape, Sound, OnPath, Holds, Step
<1>7. CASE PullPinned(t)
  <2>2. Sound(op[t]) /\ op[t].pc = "pull" /\ op[t].kind = "rollbackTo"
    BY <1>2, <1>7 DEF PullPinned, At, OpShape
  <2>7. op[t].want \in Ref
    BY <2>2 DEF Sound, Ref
  <2>1. PICK ref \in Ref : op' = [op EXCEPT ![t].pc = "stop", ![t].img = ref]
    BY <1>7, <2>7 DEF PullPinned, Ref
  <2>3. OpTyped' /\ OnlyOp(t)
    BY <1>7, <1>2, <2>1 DEF IInv, TypeOK, PullPinned, OpTyped, OnlyOp, Op, Step
  <2>4. /\ op'[t].pc = "stop" /\ op'[t].kind = op[t].kind /\ op'[t].id = op[t].id
        /\ op'[t].key = op[t].key /\ op'[t].snap = op[t].snap
        /\ op'[t].newId = op[t].newId /\ op'[t].want = op[t].want
    BY <2>1 DEF IInv, TypeOK, Op
  <2>5. OpShape(t)'
    BY <1>1, <1>2, <2>2, <2>4
       DEF Sound, OpShape, Kept, IInv, TypeOK, OnPath
  <2>6. LockShape(t)'
    BY <1>2, <1>7, <2>2, <2>4 DEF LockShape, Holds, PullPinned
  <2> QED BY <1>1, <2>3, <2>5, <2>6 DEF OpFine
<1>8. CASE Relock(t)
  <2>1. OpTyped' /\ OnlyOp(t)
    <3>1. op[t].key \in Names
      BY <1>2, <1>8 DEF Relock, At, OpShape, Sound
    <3>2. holder' \in [Names -> Thread \cup {None}]
          /\ \A n \in Names : holder[n] \in Thread \ {t} => holder'[n] = holder[n]
      BY <1>8, <3>1, UpdaterAssumption DEF Relock, Lock, IInv, TypeOK
    <3>3. op' \in [Thread -> Op] /\ \A u \in Thread \ {t} : op'[u] = op[u]
      BY <1>8 DEF Relock, IInv, TypeOK, Op, Step
    <3> QED BY <3>2, <3>3 DEF OpTyped, OnlyOp
  <2>2. op'[t] = [op[t] EXCEPT !.pc = "reinspect"]
    BY <1>8 DEF Relock, IInv, TypeOK, Op
  <2>3. Sound(op[t]) /\ op[t].pc = "relock"
    BY <1>2, <1>8 DEF Relock, At, OpShape
  <2>4. OpShape(t)'
    BY <1>1, <1>2, <2>2, <2>3, <1>8
       DEF Sound, OpShape, Op, Kept, IInv, TypeOK, OnPath, Relock, At
  <2>5. LockShape(t)'
    BY <1>2, <1>8, <2>2, <2>3 DEF LockShape, Op, Relock, Lock, IInv, TypeOK, Sound
  <2> QED BY <1>1, <2>1, <2>4, <2>5 DEF OpFine
<1>9. CASE Reinspect(t)
  <2>1. Sound(op[t]) /\ op[t].pc = "reinspect" /\ op[t].id \in Id
    BY <1>2, <1>9 DEF Reinspect, At, OpShape, Live
  <2>7. PICK s \in {FullSnapshot(op[t].id), BlindSnapshot(op[t].id)} :
          op' = [op EXCEPT ![t].pc = "save", ![t].snap = s]
    BY <1>9 DEF Reinspect
  <2>2. s \in Snapshot /\ s.name = op[t].key /\ s.id = op[t].id
    BY <2>1, <2>7, SnapshotTyped DEF IInv, Sound
  <2>3. OpTyped' /\ OnlyOp(t)
    BY <1>9, <1>2, <2>2, <2>7 DEF IInv, TypeOK, Reinspect, OpTyped, OnlyOp, Op, Step
  <2>4. op'[t] = [op[t] EXCEPT !.pc = "save", !.snap = s]
    BY <2>7 DEF IInv, TypeOK, Op
  <2>8. /\ op'[t].pc = "save" /\ op'[t].kind = op[t].kind /\ op'[t].id = op[t].id
        /\ op'[t].key = op[t].key /\ op'[t].snap = s
        /\ op'[t].newId = op[t].newId /\ op'[t].want = op[t].want
    BY <1>2, <2>4 DEF Op
  <2>5. OpShape(t)'
    BY <1>1, <1>2, <2>1, <2>2, <2>8 DEF Sound, OpShape, Kept, IInv, TypeOK, OnPath
  <2>6. LockShape(t)'
    <3>1. Holds(op[t]) /\ UNCHANGED holder
      BY <1>9, <2>1 DEF Holds, Reinspect
    <3>2. op'[t].key = op[t].key
      BY <1>2, <2>4 DEF Op
    <3> QED BY <1>2, <3>1, <3>2 DEF LockShape
  <2> QED BY <1>1, <2>3, <2>5, <2>6 DEF OpFine
<1> QED
  BY <1>3, <1>4, <1>5, <1>6, <1>7, <1>8, <1>9

\* A failed creation is tried again with the old image, or ends the operation.
LEMMA CreateFailedFine ==
  ASSUME IInv, NEW t \in Thread, CreateFailed(t), Kept, UNCHANGED agent,
         op[t].pc \in {"create", "start"}
  PROVE  OpFine(t)
<1>1. CASE Return(t)
  BY <1>1, ReturnFine
<1>2. CASE ~Return(t)
  <2>1. op' = [op EXCEPT ![t] = [@ EXCEPT !.pc = "create", !.newId = 0, !.restoring = TRUE]]
        /\ UNCHANGED holder
    BY <1>2 DEF CreateFailed
  <2>2. op[t] \in Op /\ agent = "up" /\ Sound(op[t]) /\ LockShape(t)
    BY DEF IInv, TypeOK, OpShape
  <2> DEFINE o == [op[t] EXCEPT !.pc = "create", !.newId = 0, !.restoring = TRUE]
  <2>3. o \in Op
    BY <2>2 DEF Op, Step
  <2>4. /\ o.pc = "create" /\ o.newId = 0 /\ o.kind = op[t].kind /\ o.id = op[t].id
        /\ o.key = op[t].key /\ o.snap = op[t].snap /\ o.want = op[t].want
    BY <2>2 DEF Op
  <2> HIDE DEF o
  <2>5. op' \in [Thread -> Op] /\ op'[t] = o /\ \A u \in Thread \ {t} : op'[u] = op[u]
    BY <2>1, <2>3 DEF IInv, TypeOK, o
  <2>6. OpShape(t)'
    BY <2>2, <2>4, <2>5 DEF OpShape, Sound, OnPath, Kept, IInv, TypeOK
  <2>7. LockShape(t)'
    BY <2>1, <2>2, <2>4, <2>5 DEF LockShape, Holds
  <2> QED BY <2>1, <2>5, <2>6, <2>7 DEF OpFine, OnlyOp, OpTyped, IInv, TypeOK
<1> QED BY <1>1, <1>2

\* From the snapshot to the return: every step keeps the operation's lock or ends it.
LEMMA LaterSteps ==
  ASSUME IInv, NEW t \in Thread,
         SaveSnapshot(t) \/ SaveSnapshotFails(t) \/ Stop(t) \/ StopFails(t) \/ Remove(t)
           \/ RemoveFails(t) \/ RemoveTakenForGone(t) \/ StartOld(t) \/ Create(t) \/ CreateFails(t)
           \/ Start(t) \/ StartFails(t) \/ PortConflict(t) \/ Healthy(t) \/ Unhealthy(t)
           \/ DiscardStop(t) \/ DiscardRemove(t)
  PROVE  OpFine(t) /\ Kept /\ UNCHANGED agent
<1>1. op[t] \in Op /\ OpShape(t) /\ LockShape(t)
  BY DEF IInv, TypeOK
<1>2. \A i \in Id : Live(i) => i \in 1..lastId
  BY DEF IInv, Born
<1> USE DEF IInv
<1>3. CASE SaveSnapshot(t) \/ SaveSnapshotFails(t)
  <2>1. Kept /\ UNCHANGED agent /\ At(t, "save") /\ Goto(t, "stop")
    BY <1>3, DaemonKeeps DEF SaveSnapshot, SaveSnapshotFails
  <2> QED BY <1>1, <2>1, GotoFine DEF At, OpShape, Sound, OnPath, Holds, Step
<1>4. CASE Stop(t)
  <2>1. Kept
    BY <1>2, <1>4, SetStateKeeps, DaemonKeeps DEF Stop, Live, daemon
  <2> QED BY <1>1, <1>4, <2>1, GotoFine DEF Stop, At, OpShape, Sound, OnPath, Holds, Step
<1>5. CASE StopFails(t)
  <2>1. Kept /\ UNCHANGED agent /\ At(t, "stop")
    BY <1>5, DaemonKeeps DEF StopFails
  <2> QED BY <1>1, <1>5, <2>1, GotoFine, ReturnFine
             DEF StopFails, At, OpShape, Sound, OnPath, Holds, Step
<1>6. CASE Remove(t)
  <2>1. Kept
    BY <1>2, <1>6, SetStateKeeps, DaemonKeeps DEF Remove, Live, daemon
  <2>2. UNCHANGED agent /\ At(t, "remove") /\ Goto(t, AfterRemove(t))
    BY <1>6 DEF Remove
  <2> QED BY <1>1, <2>1, <2>2, GotoFine
             DEF AfterRemove, At, OpShape, Sound, OnPath, Holds, Step
<1>7. CASE RemoveFails(t)
  <2>1. Kept /\ UNCHANGED agent /\ At(t, "remove")
    BY <1>7, DaemonKeeps DEF RemoveFails
  <2>2. Goto(t, IF op[t].kind = "update" THEN "startOld" ELSE AfterRemove(t))
    BY <1>7 DEF RemoveFails
  <2> QED BY <1>1, <2>1, <2>2, GotoFine
             DEF AfterRemove, At, OpShape, Sound, OnPath, Holds, Step
<1>17. CASE RemoveTakenForGone(t)
  <2>1. Kept /\ UNCHANGED agent /\ At(t, "remove") /\ Goto(t, AfterRemove(t))
    BY <1>17, DaemonKeeps DEF RemoveTakenForGone
  <2> QED BY <1>1, <2>1, GotoFine DEF AfterRemove, At, OpShape, Sound, OnPath, Holds, Step
<1>8. CASE StartOld(t)
  <2>1. Kept
    BY <1>2, <1>8, SetStateKeeps, DaemonKeeps DEF StartOld, Live, daemon
  <2> QED BY <1>8, <2>1, ReturnFine DEF StartOld
<1>9. CASE Create(t)
  <2>1. agent = "up" /\ Sound(op[t]) /\ op[t].pc = "create"
    BY <1>1, <1>9 DEF Create, At, OpShape
  <2>2. op[t].snap \in Snapshot /\ op[t].snap.name = op[t].key /\ op[t].key \in Names
    BY <2>1 DEF Sound
  <2>3. CreateName(op[t]) \in Names
        /\ CreateName(op[t]) = IF op[t].kind = "blueGreen" THEN TempName(op[t].key)
                               ELSE op[t].key
    BY <2>2 DEF CreateName, TempName, Names
  <2>4. CreateImage(op[t]) \in Ref
    BY <1>1, <1>9, <2>2 DEF Create, CreateImage, Snapshot, Op, Ref
  <2>5. NewContainer(CreateName(op[t]), CreateImage(op[t])) /\ UNCHANGED <<holder, agent>>
    BY <1>9 DEF Create
  <2>6. /\ Kept /\ lastId' = lastId + 1 /\ lastId' \in Id
        /\ ctr'[lastId'].name = CreateName(op[t])
    BY <2>3, <2>4, <2>5, NewContainerKeeps
  <2> DEFINE o == [op[t] EXCEPT !.pc = "start", !.newId = lastId']
  <2>7. o \in Op
    BY <1>1, <2>6 DEF Op, Step
  <2>8. /\ o.pc = "start" /\ o.newId = lastId' /\ o.kind = op[t].kind /\ o.id = op[t].id
        /\ o.key = op[t].key /\ o.snap = op[t].snap /\ o.want = op[t].want
    BY <1>1 DEF Op
  <2>9. op' = [op EXCEPT ![t] = o]
    BY <1>9 DEF Create
  <2> HIDE DEF o
  <2>10. op' \in [Thread -> Op] /\ op'[t] = o /\ \A u \in Thread \ {t} : op'[u] = op[u]
    BY <2>7, <2>9 DEF TypeOK
  <2>11. OpShape(t)'
    <3>1. /\ op[t].id \in 1..lastId /\ op[t].key \in Names /\ ~op[t].key.temp
          /\ ctr[op[t].id].name = op[t].key
          /\ op[t].snap \in Snapshot /\ op[t].snap.name = op[t].key /\ op[t].snap.id = op[t].id
          /\ op[t].kind = "rollbackTo" => op[t].want \in Digest
      BY <2>1 DEF Sound
    <3>2. lastId \in Nat /\ lastId' \in 1..lastId' /\ lastId' # 0 /\ op[t].id \in 1..lastId'
      BY <2>6, <3>1, UpdaterAssumption DEF TypeOK, Id
    <3>3. ctr'[op[t].id].name = op[t].key
      BY <2>6, <3>1 DEF Kept
    <3>4. PICK w : w = o
      OBVIOUS
    <3>5. OnPath(w.kind, w.pc)
      BY <2>1, <2>8, <3>4 DEF Sound, OnPath
    <3>6. /\ w.pc = "start" /\ w.newId = lastId' /\ w.kind = op[t].kind /\ w.id = op[t].id
          /\ w.key = op[t].key /\ w.snap = op[t].snap /\ w.want = op[t].want
      BY <2>8, <3>4
    <3>7. /\ w.newId \in 0..lastId' /\ w.newId \in 1..lastId'
          /\ ctr'[w.newId].name = IF w.kind = "blueGreen" THEN TempName(w.key) ELSE w.key
      BY <2>3, <2>6, <3>2, <3>6
    <3>8. Sound(w)'
      BY <3>1, <3>2, <3>3, <3>5, <3>6, <3>7 DEF Sound
    <3>9. op'[t] = w /\ agent' = "up"
      BY <2>1, <2>5, <2>10, <3>4
    <3> QED BY <3>8, <3>9 DEF OpShape, Sound
  <2>12. LockShape(t)'
    BY <1>1, <2>1, <2>5, <2>8, <2>10 DEF LockShape, Holds
  <2> QED BY <2>5, <2>6, <2>10, <2>11, <2>12 DEF OpFine, OnlyOp, OpTyped, TypeOK
<1>10. CASE CreateFails(t)
  <2>1. Kept /\ UNCHANGED agent
    BY <1>10, DaemonKeeps DEF CreateFails
  <2> QED BY <1>10, <2>1, CreateFailedFine DEF CreateFails, At
<1>11. CASE Start(t)
  <2>1. Kept
    BY <1>2, <1>11, SetStateKeeps DEF Start, Live
  <2> QED BY <1>1, <1>11, <2>1, GotoFine, ReturnFine
             DEF Start, At, OpShape, Sound, OnPath, Holds, Step
<1>12. CASE StartFails(t)
  <2>1. Kept
    BY <1>2, <1>12, SetStateKeeps, DaemonKeeps DEF StartFails, Live, daemon
  <2> QED BY <1>12, <2>1, CreateFailedFine DEF StartFails, At
<1>13. CASE PortConflict(t)
  <2>1. agent = "up" /\ Sound(op[t]) /\ op[t].pc = "start"
    BY <1>1, <1>13 DEF PortConflict, At, OpShape
  <2>2. Kept /\ UNCHANGED agent
    BY <1>2, <1>13, SetStateKeeps, DaemonKeeps DEF PortConflict, Live, daemon
  <2> DEFINE o == [Idle EXCEPT !.kind = "update", !.pc = "lock", !.id = op[t].id,
                               !.key = ctr[op[t].id].name]
  <2>3. op' = [op EXCEPT ![t] = IF Live(op[t].id) THEN o ELSE Idle]
        /\ holder' = Released(t)
    BY <1>13 DEF PortConflict
  <2>4. Idle \in Op
    BY UpdaterAssumption DEF Idle, Op, Step, Ref, FloatingTag, Digest
  <2>5. o \in Op
    BY <1>1, <2>1, <2>4 DEF Op, Step, AllKinds, Sound
  <2>6. /\ o.pc = "lock" /\ o.kind = "update" /\ o.id = op[t].id /\ o.key = op[t].key
        /\ o.newId = 0
    BY <2>1 DEF Idle, Sound
  <2> HIDE DEF o
  <2>7. /\ op' \in [Thread -> Op] /\ op'[t] \in {o, Idle}
        /\ \A u \in Thread \ {t} : op'[u] = op[u]
    BY <2>3, <2>4, <2>5 DEF TypeOK
  <2>8. OpShape(t)'
    BY <2>1, <2>2, <2>6, <2>7 DEF OpShape, Sound, OnPath, Kept, TypeOK, Idle
  <2>9. LockShape(t)'
    BY <2>6, <2>7 DEF LockShape, Holds, Idle
  <2>10. OnlyOp(t) /\ OpTyped'
    BY <2>3, <2>7, UpdaterAssumption DEF OnlyOp, OpTyped, Released, TypeOK
  <2> QED BY <2>2, <2>8, <2>9, <2>10 DEF OpFine
<1>14. CASE Healthy(t) \/ Unhealthy(t)
  <2>1. Kept /\ UNCHANGED agent /\ At(t, "health")
    BY <1>14, DaemonKeeps DEF Healthy, Unhealthy
  <2> QED BY <1>1, <1>14, <2>1, GotoFine
             DEF Healthy, Unhealthy, At, OpShape, Sound, OnPath, Holds, Step
<1>15. CASE DiscardStop(t)
  <2>1. Kept
    BY <1>2, <1>15, SetStateKeeps, DaemonKeeps DEF DiscardStop, Running, Live, daemon
  <2> QED BY <1>1, <1>15, <2>1, GotoFine
             DEF DiscardStop, At, OpShape, Sound, OnPath, Holds, Step
<1>16. CASE DiscardRemove(t)
  <2>1. Kept
    BY <1>2, <1>16, SetStateKeeps, DaemonKeeps DEF DiscardRemove, Live, daemon
  <2> QED BY <1>16, <2>1, ReturnFine DEF DiscardRemove
<1> QED
  BY <1>3, <1>4, <1>5, <1>6, <1>7, <1>8, <1>9, <1>10, <1>11, <1>12, <1>13, <1>14, <1>15,
     <1>16, <1>17 DEF Stop, StopFails, Remove, RemoveFails, StartOld, Create, CreateFails, Start,
     StartFails, PortConflict, DiscardStop, DiscardRemove

\* Requests start operations on a container that is there.
LEMMA Requests ==
  ASSUME IInv, NEW t \in Thread,
         \/ \E k \in Kind, id \in Id, target \in Digest : Begin(t, k, id, target)
         \/ \E s \in snapshots : BeginRollback(t, s)
  PROVE  OpFine(t) /\ Kept /\ UNCHANGED <<agent, store, rec>>
<1> USE DEF IInv
<1>1. Kept /\ UNCHANGED <<agent, store, rec, holder>> /\ agent = "up" /\ op[t].pc = "idle"
  BY DaemonKeeps DEF Begin, BeginRollback, Requested
<1>2. Idle \in Op
  BY UpdaterAssumption DEF Idle, Op, Step, Ref, FloatingTag, Digest
<1>3. ASSUME NEW k \in Kind, NEW id \in Id, NEW target \in Digest, Begin(t, k, id, target)
      PROVE  OpFine(t)
  <2> DEFINE o == [Idle EXCEPT !.kind = k, !.pc = "lock", !.id = id,
                               !.key = ctr[id].name, !.want = target]
  <2>1. op' = [op EXCEPT ![t] = o]
    BY <1>3 DEF Begin
  <2>2. id \in 1..lastId /\ ~ctr[id].name.temp /\ ctr[id].name \in Names
    BY <1>3 DEF Begin, Born, TypeOK, Container
  <2>3. k \in {"update", "blueGreen", "rollbackTo"}
    BY <1>3 DEF Begin
  <2>5. o \in Op
    BY <1>2, <2>2, <2>3 DEF Op, Step, AllKinds
  <2>6. /\ o.pc = "lock" /\ o.kind = k /\ o.id = id /\ o.key = ctr[id].name /\ o.newId = 0
        /\ o.want \in Digest
    BY DEF Idle
  <2> HIDE DEF o
  <2>7. op' \in [Thread -> Op] /\ op'[t] = o /\ \A u \in Thread \ {t} : op'[u] = op[u]
    BY <2>1, <2>5 DEF TypeOK
  <2>8. OpShape(t)' /\ LockShape(t)'
    BY <1>1, <2>2, <2>3, <2>6, <2>7
       DEF OpShape, Sound, OnPath, Kept, TypeOK, LockShape, Holds
  <2> QED BY <1>1, <2>7, <2>8 DEF OpFine, OnlyOp, OpTyped, TypeOK
<1>4. ASSUME NEW s \in snapshots, BeginRollback(t, s) PROVE OpFine(t)
  <2> DEFINE o == [Idle EXCEPT !.kind = "rollback", !.pc = "lock", !.id = s.id,
                               !.key = s.name, !.snap = s, !.want = s.digest]
  <2>1. op' = [op EXCEPT ![t] = o]
    BY <1>4 DEF BeginRollback
  <2>2. s \in Snapshot /\ SnapshotShape(s)
    BY DEF TypeOK
  <2>3. o \in Op
    BY <1>2, <2>2 DEF Op, Step, AllKinds, Snapshot
  <2>4. /\ o.pc = "lock" /\ o.kind = "rollback" /\ o.id = s.id /\ o.key = s.name
        /\ o.snap = s /\ o.newId = 0
    BY DEF Idle
  <2> HIDE DEF o
  <2>5. op' \in [Thread -> Op] /\ op'[t] = o /\ \A u \in Thread \ {t} : op'[u] = op[u]
    BY <2>1, <2>3 DEF TypeOK
  <2>6. OpShape(t)' /\ LockShape(t)'
    BY <1>1, <2>2, <2>4, <2>5
       DEF OpShape, Sound, OnPath, Kept, TypeOK, LockShape, Holds, SnapshotShape, Snapshot
  <2> QED BY <1>1, <2>5, <2>6 DEF OpFine, OnlyOp, OpTyped, TypeOK
<1> QED BY <1>1, <1>3, <1>4

\* Nobody else's operation or snapshot is disturbed.
LEMMA OthersFine ==
  ASSUME IInv, NEW t \in Thread, OpFine(t), Kept, UNCHANGED agent
  PROVE  OpTyped' /\ \A u \in Thread : OpShape(u)' /\ LockShape(u)'
<1>1. OpTyped' /\ OpShape(t)' /\ LockShape(t)'
  BY DEF OpFine
<1>2. ASSUME NEW u \in Thread \ {t} PROVE OpShape(u)' /\ LockShape(u)'
  <2>1. op'[u] = op[u] /\ OpShape(u) /\ LockShape(u)
    BY DEF OpFine, OnlyOp, IInv
  <2>2. OpShape(u)'
    BY <2>1 DEF OpShape, Sound, Kept, IInv, TypeOK
  <2>3. LockShape(u)'
    BY <2>1 DEF OpFine, OnlyOp, LockShape, OpShape, Sound, Holds
  <2> QED BY <2>2, <2>3
<1> QED BY <1>1, <1>2

-----------------------------------------------------------------------------
(* Steps that change names: the rename of blue-green, and RecoverOrphans.    *)

\* Only temporary names change.
Renamed ==
  /\ ctr' \in [Id -> Container]
  /\ UNCHANGED lastId
  /\ \A i \in 1..lastId : (ctr'[i].name = ctr[i].name \/ ctr[i].name.temp) /\ SameImage(i)
  /\ Born'

\* So snapshots still have the names of their containers.
LEMMA SnapshotsFine ==
  ASSUME IInv, Kept \/ Renamed, NEW s \in snapshots \cup disk
  PROVE  SnapshotShape(s)'
  BY DEF IInv, SnapshotShape, Kept, Renamed, TypeOK

\* The last step of a blue-green update renames its own container and no other
\* operation's: both would have the lock of one name.
LEMMA RenameStep ==
  ASSUME IInv, NEW t \in Thread, Rename(t)
  PROVE  Renamed /\ OpTyped' /\ \A u \in Thread : OpShape(u)' /\ LockShape(u)'
<1> USE DEF IInv
<1>1. op[t] \in Op /\ Sound(op[t]) /\ LockShape(t) /\ agent = "up" /\ agent' = "up"
      /\ op[t].pc = "rename" /\ op[t].kind = "blueGreen"
  BY DEF TypeOK, OpShape, Rename, At, Sound, OnPath
<1>2. UNCHANGED lastId
  BY DEF Rename
<1>3. CASE UNCHANGED ctr
  <2>1. Kept
    BY <1>2, <1>3, DaemonKeeps DEF daemon
  <2>2. Renamed
    BY <2>1, <1>2, <1>3 DEF Renamed, Kept
  <2> QED BY <1>1, <2>1, <2>2, ReturnFine, OthersFine DEF Rename
<1>4. CASE /\ Live(op[t].newId)
           /\ ctr' = [ctr EXCEPT ![op[t].newId].name = op[t].snap.name]
  <2>1. op[t].newId \in Id /\ op[t].newId # 0 /\ ctr[op[t].newId].name = TempName(op[t].key)
    BY <1>1, <1>4, UpdaterAssumption DEF Live, Sound, Id
  <2>2. ctr[op[t].newId].name.temp
    BY <2>1 DEF TempName
  <2>3. ctr' \in [Id -> Container]
    BY <1>1, <1>4, <2>1 DEF TypeOK, Container, Sound, Snapshot
  <2>4. \A i \in Id : /\ i # op[t].newId => ctr'[i].name = ctr[i].name
                      /\ ctr'[i].state = ctr[i].state
    BY <1>4, <2>1 DEF TypeOK, Container
  <2>5. Renamed
    <3>1. \A i \in Id : ctr'[i].ref = ctr[i].ref /\ ctr'[i].digest = ctr[i].digest
      BY <1>4, <2>1 DEF TypeOK, Container
    <3>2. 1..lastId \subseteq Id
      BY UpdaterAssumption DEF TypeOK, Id
    <3>3. Born'
      BY <1>2, <2>4 DEF Born, Live
    <3> QED BY <1>2, <2>2, <2>3, <2>4, <3>1, <3>2, <3>3 DEF Renamed, SameImage
  <2>6. OpFine(t)
    BY ReturnFine DEF Rename
  <2>7. ASSUME NEW u \in Thread \ {t} PROVE OpShape(u)' /\ LockShape(u)'
    <3>1. op'[u] = op[u] /\ op[u] \in Op /\ OpShape(u) /\ LockShape(u)
      BY <2>6 DEF OpFine, OnlyOp, TypeOK
    <3>2. LockShape(u)'
      BY <2>6, <3>1 DEF OpFine, OnlyOp, LockShape, OpShape, Sound, Holds
    <3>3. CASE op[u].pc = "idle"
      BY <3>1, <3>2, <3>3 DEF OpShape
    <3>4. CASE op[u].pc # "idle"
      <4>1. Sound(op[u])
        BY <3>1, <3>4 DEF OpShape
      <4>2. ctr'[op[u].id].name = op[u].key
        BY <2>5, <4>1 DEF Sound, Renamed
      <4>3. ASSUME op[u].kind = "blueGreen", op[u].newId # 0
            PROVE  ctr'[op[u].newId].name = TempName(op[u].key)
        <5>1. Holds(op[u]) /\ Holds(op[t])
          BY <1>1, <3>4, <4>1, <4>3 DEF Holds, Sound
        <5>2. op[u].key # op[t].key
          BY <1>1, <3>1, <5>1 DEF LockShape
        <5>3. op[u].key.app # op[t].key.app
          BY <1>1, <4>1, <5>2 DEF Sound, Names
        <5>4. op[u].newId # op[t].newId
          BY <2>1, <4>1, <4>3, <5>3 DEF Sound, TempName
        <5> QED
          BY <2>4, <4>1, <4>3, <5>4, UpdaterAssumption DEF Sound, TypeOK, Id
      <4>4. ASSUME op[u].kind # "blueGreen", op[u].pc = "start"
            PROVE  ctr'[op[u].newId].name = op[u].key
        BY <2>5, <4>1, <4>4 DEF Sound, Renamed
      <4> QED
        BY <1>1, <1>2, <3>1, <3>2, <4>1, <4>2, <4>3, <4>4 DEF OpShape, Sound
    <3> QED BY <3>3, <3>4
  <2> QED BY <2>5, <2>6, <2>7 DEF OpFine
<1> QED BY <1>3, <1>4 DEF Rename

\* Stopping or removing the containers of a temporary name keeps all names.
LEMMA TempsKeep ==
  ASSUME IInv, NEW S \in SUBSET Id, NEW s \in {"exited", "gone"}, UNCHANGED lastId,
         \A i \in S : Live(i),
         ctr' = [i \in Id |-> IF i \in S THEN [ctr[i] EXCEPT !.state = s] ELSE ctr[i]]
  PROVE  Kept
<1>1. ctr' \in [Id -> Container]
  BY DEF IInv, TypeOK, Container
<1>2. \A i \in Id : /\ ctr'[i].name = ctr[i].name /\ SameImage(i)
                    /\ i \notin S => ctr'[i] = ctr[i]
  BY DEF IInv, TypeOK, Container, SameImage
<1>3. Born'
  BY <1>2 DEF IInv, Born, Live
<1> QED
  BY <1>1, <1>2, <1>3, UpdaterAssumption DEF IInv, TypeOK, Kept, Id, SameImage

\* RecoverOrphans finds and leaves the state well formed.
RecoverFine ==
  /\ Kept \/ Renamed
  /\ rec' \in Rec /\ RecShape'
  /\ agent' \in {"up", "recovering"}
  /\ spent' \in Spent

\* Each of its steps does.
LEMMA RecoverSteps ==
  ASSUME IInv, Recover
  PROVE  RecoverFine /\ UNCHANGED <<images, store, holder, op, deleted>> /\ agent = "recovering"
<1> USE UpdaterAssumption DEF IInv, TypeOK, RecShape, Rec
<1>1. /\ UNCHANGED <<images, store, holder, op, deleted>> /\ agent = "recovering"
      /\ UNCHANGED spent \/ \E n \in {1, 2} : Faults(n)
  BY DEF Recover, RecoverList, RecoverListFails, RecoverTempStop, RecoverTempRename,
     RecoverTempRemove, RecoverTempsDone, RecoverSkip, RecoverCreate, RecoverCreateFails,
     RecoverStart, RecoverDone, InRecovery, NoFault, Fault
<1>2. spent' \in Spent
  BY <1>1 DEF Faults, Spent
<1>3. NoRec \in Rec
  BY DEF NoRec, RecStep
<1>4. CASE RecoverList
  <2>1. Kept
    BY <1>4, DaemonKeeps DEF RecoverList
  <2>2. {ctr[i].name : i \in {j \in Id : Live(j)}} \in SUBSET Names
    BY DEF Container
  <2>3. rec' \in Rec /\ RecShape'
    BY <1>4, <2>2 DEF RecoverList, InRecovery, RecStep
  <2> QED BY <1>1, <1>2, <1>4, <2>1, <2>3 DEF RecoverFine, RecoverList
<1>5. CASE RecoverListFails \/ RecoverDone
  <2>1. Kept /\ agent' = "up" /\ rec' = NoRec
    BY <1>5, DaemonKeeps DEF RecoverListFails, RecoverDone
  <2>2. RecShape'
    BY <2>1 DEF NoRec
  <2> QED BY <1>1, <1>2, <1>3, <2>1, <2>2 DEF RecoverFine
<1>6. ASSUME NEW n \in Names, RecoverTempStop(n) PROVE RecoverFine
  <2>1. Kept
    <3>1. CASE UNCHANGED ctr
      BY <1>6, <3>1, DaemonKeeps DEF RecoverTempStop, daemon
    <3>2. CASE ctr' = [i \in Id |-> IF i \in Named(n) /\ Running(i)
                                   THEN [ctr[i] EXCEPT !.state = "exited"] ELSE ctr[i]]
      <4> DEFINE S == {i \in Named(n) : Running(i)}
      <4>1. ctr' = [i \in Id |-> IF i \in S THEN [ctr[i] EXCEPT !.state = "exited"] ELSE ctr[i]]
        BY <3>2
      <4>2. S \in SUBSET Id /\ \A i \in S : Live(i)
        BY DEF Named, Live, Running
      <4> HIDE DEF S
      <4> QED BY <1>6, <4>1, <4>2, TempsKeep DEF RecoverTempStop
    <3> QED BY <1>6, <3>1, <3>2 DEF RecoverTempStop
  <2>2. rec' \in Rec /\ RecShape'
    BY <1>6, <2>1 DEF RecoverTempStop, InRecovery, RecStep
  <2> QED BY <1>1, <1>2, <1>6, <2>1, <2>2 DEF RecoverFine, RecoverTempStop
<1>7. CASE RecoverTempRemove
  <2>1. Kept
    <3>1. CASE UNCHANGED ctr
      BY <1>7, <3>1, DaemonKeeps DEF RecoverTempRemove, daemon
    <3>2. CASE ctr' = [i \in Id |-> IF i \in Named(rec.name) /\ ~Running(i)
                                   THEN [ctr[i] EXCEPT !.state = "gone"] ELSE ctr[i]]
      <4> DEFINE S == {i \in Named(rec.name) : ~Running(i)}
      <4>1. ctr' = [i \in Id |-> IF i \in S THEN [ctr[i] EXCEPT !.state = "gone"] ELSE ctr[i]]
        BY <3>2
      <4>2. S \in SUBSET Id /\ \A i \in S : Live(i)
        BY DEF Named
      <4> HIDE DEF S
      <4> QED BY <1>7, <4>1, <4>2, TempsKeep DEF RecoverTempRemove
    <3> QED BY <1>7, <3>1, <3>2 DEF RecoverTempRemove
  <2>2. rec' \in Rec /\ RecShape'
    BY <1>7, <2>1 DEF RecoverTempRemove, InRecovery, RecStep
  <2> QED BY <1>1, <1>2, <1>7, <2>1, <2>2 DEF RecoverFine, RecoverTempRemove
<1>8. ASSUME NEW n \in Names, RecoverTempRename(n) PROVE RecoverFine
  <2>1. Renamed
    <3>1. CASE UNCHANGED ctr
      BY <1>8, <3>1 DEF RecoverTempRename, Renamed, Born, Live, SameImage
    <3>2. CASE ctr' = [i \in Id |-> IF i \in Named(n)
                                   THEN [ctr[i] EXCEPT !.name = OriginalName(n)] ELSE ctr[i]]
      <4>1. OriginalName(n) \in Names /\ n.temp
        BY <1>8 DEF OriginalName, Own, Names, RecoverTempRename
      <4>2. ctr' \in [Id -> Container]
        BY <3>2, <4>1 DEF Container
      <4>3. \A i \in Id : /\ ctr'[i].name = ctr[i].name \/ ctr[i].name.temp
                          /\ ctr'[i].state = ctr[i].state /\ SameImage(i)
        BY <3>2, <4>1 DEF Named, Container, SameImage
      <4>4. UNCHANGED lastId
        BY <1>8 DEF RecoverTempRename
      <4>5. Born'
        BY <4>3, <4>4 DEF Born, Live
      <4> QED BY <4>2, <4>3, <4>4, <4>5 DEF Renamed, Id
    <3> QED BY <1>8, <3>1, <3>2 DEF RecoverTempRename
  <2>2. OriginalName(n) \in Names
    BY DEF OriginalName, Own, Names
  <2>3. PICK names \in {rec.existing, rec.existing \cup {OriginalName(n)}} :
          rec' = [rec EXCEPT !.todo = @ \ {n}, !.existing = names]
    BY <1>8 DEF RecoverTempRename
  <2>4. /\ rec' \in Rec /\ rec'.pc = rec.pc /\ rec'.todo \subseteq rec.todo
        /\ rec'.newId = rec.newId /\ rec'.name = rec.name
    BY <2>2, <2>3
  <2>5. RecShape'
    BY <1>1, <1>8, <2>1, <2>4 DEF RecoverTempRename, Renamed
  <2> QED BY <1>1, <1>2, <1>8, <2>1, <2>4, <2>5 DEF RecoverFine, RecoverTempRename
<1>9. CASE RecoverTempsDone
  <2>1. Kept
    BY <1>9, DaemonKeeps DEF RecoverTempsDone
  <2>2. rec' \in Rec /\ RecShape'
    BY <1>9 DEF RecoverTempsDone, InRecovery, RecStep
  <2> QED BY <1>1, <1>2, <1>9, <2>1, <2>2 DEF RecoverFine, RecoverTempsDone
<1>10. ASSUME NEW s \in snapshots, RecoverSkip(s) \/ RecoverCreateFails(s) PROVE RecoverFine
  <2>1. Kept /\ UNCHANGED agent
    BY <1>10, DaemonKeeps DEF RecoverSkip, RecoverCreateFails
  <2>2. rec' = [rec EXCEPT !.seen = @ \cup {s.name}] /\ s.name \in Names
    BY <1>10 DEF RecoverSkip, RecoverCreateFails, Snapshot
  <2>3. rec' \in Rec /\ RecShape'
    BY <2>1, <2>2, <1>10 DEF Kept
  <2> QED BY <1>1, <1>2, <2>1, <2>3 DEF RecoverFine
<1>11. ASSUME NEW s \in snapshots, RecoverCreate(s) PROVE RecoverFine
  <2>1. s.name \in Names /\ RecoveryRef(s) \in Ref
    BY DEF Snapshot, Ref, RecoveryRef
  <2>2. Kept /\ lastId' = lastId + 1 /\ lastId' \in Id
    BY <1>11, <2>1, NewContainerKeeps DEF RecoverCreate
  <2>3. rec' = [rec EXCEPT !.pc = "start", !.seen = @ \cup {s.name}, !.newId = lastId']
        /\ UNCHANGED agent
    BY <1>11 DEF RecoverCreate
  <2>4. /\ rec' \in Rec /\ rec'.pc = "start" /\ rec'.todo = rec.todo
        /\ rec'.newId = lastId'
    BY <2>1, <2>2, <2>3 DEF RecStep
  <2>5. RecShape'
    BY <1>1, <2>2, <2>3, <2>4
  <2> QED BY <1>1, <1>2, <2>2, <2>3, <2>4, <2>5 DEF RecoverFine
<1>12. CASE RecoverStart
  <2>1. Kept
    BY <1>12, SetStateKeeps, DaemonKeeps DEF RecoverStart, InRecovery, daemon
  <2>2. rec' \in Rec /\ RecShape'
    BY <1>12 DEF RecoverStart, InRecovery, RecStep
  <2> QED BY <1>1, <1>2, <1>12, <2>1, <2>2 DEF RecoverFine, RecoverStart
<1> QED
  BY <1>1, <1>4, <1>5, <1>6, <1>7, <1>8, <1>9, <1>10, <1>11, <1>12 DEF Recover

-----------------------------------------------------------------------------
(* The invariant.                                                          *)

\* What the steps of an operation do to the rest of the state.
Plain ==
  /\ UNCHANGED <<registry, deleted, rec>>
  /\ tag' \in [App -> Digest]
  /\ spent' \in Spent
  /\ snapshots' \in SUBSET Snapshot /\ disk' \in SUBSET Snapshot
  /\ \A s \in snapshots' \cup disk' : SnapshotShape(s)

\* A refused removal taken for "already gone" is counted twice, as fault and as such.
LEMMA SwallowedCounts ==
  ASSUME NEW p \in Spent
  PROVE  [p EXCEPT !.faults = @ + 1, !.swallowed = @ + 1] \in Spent
<1>1. [p EXCEPT !.faults = @ + 1] \in Spent
  BY DEF Spent
<1>2. \A q \in Spent : [q EXCEPT !.swallowed = @ + 1] \in Spent
  BY DEF Spent
<1>3. [p EXCEPT !.faults = @ + 1, !.swallowed = @ + 1]
        = [[p EXCEPT !.faults = @ + 1] EXCEPT !.swallowed = @ + 1]
  OBVIOUS
<1> QED BY <1>1, <1>2, <1>3

\* Only saving a snapshot changes the store, by one that is sound.
LEMMA PlainSteps ==
  ASSUME IInv, NEW t \in Thread, LockContainer(t) \/ Relock(t) \/ OpStep(t)
  PROVE  Plain
<1> USE DEF IInv, TypeOK
<1>1. CASE LockContainer(t) \/ Relock(t) \/ Inspect(t) \/ InspectRejects(t)
           \/ PullFails(t) \/ Reinspect(t) \/ ReinspectFails(t)
           \/ Stop(t) \/ Remove(t) \/ Create(t) \/ Start(t) \/ Healthy(t) \/ Unhealthy(t)
  <2>1. UNCHANGED <<tag, registry, store, deleted, rec>>
    BY <1>1 DEF images, store, LockContainer, Relock, Inspect, InspectRejects,
       PullFails, Reinspect, ReinspectFails, Stop, Remove, Create, Start, Healthy, Unhealthy
  <2>2. UNCHANGED spent \/ \E id, s : InspectContainer(id, s)
    BY <1>1 DEF LockContainer, Relock, Inspect, InspectRejects,
       PullFails, Reinspect, ReinspectFails, Stop, Remove, Create, Start, Healthy, Unhealthy
  <2>3. spent' \in Spent
    BY <2>2 DEF InspectContainer, NoFault, Spent
  <2> QED BY <2>1, <2>3 DEF Plain, store
<1>2. CASE StopFails(t) \/ RemoveFails(t) \/ RemoveTakenForGone(t) \/ StartOld(t)
           \/ CreateFails(t) \/ StartFails(t) \/ PortConflict(t) \/ DiscardStop(t)
           \/ DiscardRemove(t) \/ Rename(t)
  <2>1. UNCHANGED <<tag, registry, store, deleted, rec>>
    BY <1>2 DEF images, store, StopFails, RemoveFails, RemoveTakenForGone, StartOld,
       CreateFails, StartFails, PortConflict, DiscardStop, DiscardRemove, Rename
  <2>2. \/ UNCHANGED spent \/ \E n \in {1, 2} : Faults(n)
        \/ spent' = [spent EXCEPT !.faults = @ + 1, !.swallowed = @ + 1]
    BY <1>2 DEF StopFails, RemoveFails, RemoveTakenForGone, StartOld, CreateFails, StartFails,
       PortConflict, DiscardStop, DiscardRemove, Rename, Fault, NoFault
  <2>3. CASE UNCHANGED spent \/ \E n \in {1, 2} : Faults(n)
    BY <2>1, <2>3 DEF Plain, store, Faults, Spent
  <2>4. CASE spent' = [spent EXCEPT !.faults = @ + 1, !.swallowed = @ + 1]
    <3>1. spent' \in Spent
      BY <2>4, SwallowedCounts
    <3> QED BY <2>1, <3>1 DEF Plain, store
  <2> QED BY <2>2, <2>3, <2>4
<1>3. CASE PullTag(t)
  BY <1>3 DEF Plain, store, PullTag
<1>4. CASE SaveSnapshot(t) \/ SaveSnapshotFails(t)
  <2>1. op[t].pc = "save" /\ Sound(op[t])
    BY <1>4 DEF SaveSnapshot, SaveSnapshotFails, At, OpShape
  <2>2. op[t].snap \in Snapshot /\ SnapshotShape(op[t].snap)
    BY <2>1 DEF Sound, SnapshotShape
  <2>3. /\ snapshots' \subseteq snapshots \cup {op[t].snap}
        /\ disk' \subseteq disk \cup {op[t].snap}
    BY <1>4 DEF SaveSnapshot, SaveSnapshotFails, OtherThan
  <2>4. UNCHANGED <<images, deleted, rec>> /\ (UNCHANGED spent \/ Fault)
    BY <1>4 DEF SaveSnapshot, SaveSnapshotFails
  <2> QED BY <2>2, <2>3, <2>4 DEF Plain, images, Fault, Faults, Spent
<1>5. CASE PullPinned(t)
  <2>1. op[t].want \in Digest
    BY <1>5 DEF PullPinned, At, OpShape, Sound
  <2>2. tag' \in [App -> Digest]
    BY <1>5, <2>1 DEF PullPinned
  <2> QED BY <1>5, <2>2 DEF Plain, store, PullPinned
<1> QED BY <1>1, <1>2, <1>3, <1>4, <1>5 DEF OpStep

\* The hosts' initial states satisfy the strengthening.
LEMMA InitIInv == Init => IInv
<1> SUFFICES ASSUME Init PROVE IInv
  OBVIOUS
<1> USE UpdaterAssumption DEF Init
<1>1. Idle \in Op /\ NoRec \in Rec
  BY UpdaterAssumption DEF Idle, Op, Step, Ref, FloatingTag, Digest, NoRec, Rec, RecStep
<1>2. ASSUME NEW i \in Id
      PROVE  ctr[i] \in Container /\ (Live(i) => i \in 1..lastId)
  <2>1. 1 \in Digest /\ FloatingTag \in Ref
    BY DEF Digest, Ref
  <2>2. CASE \E a \in App : Deployed[a] = i
    <3> DEFINE b == CHOOSE a \in App : Deployed[a] = i
    <3>1. b \in App /\ Deployed[b] = i
      BY <2>2
    <3>2. ctr[i] = [name |-> Own(b), ref |-> FloatingTag, digest |-> 1, state |-> "running"]
      BY <2>2
    <3>3. Own(b) \in Names
      BY <3>1 DEF Own, Names
    <3> HIDE DEF b
    <3> QED BY <2>1, <3>1, <3>2, <3>3 DEF Container
  <2>3. CASE ~\E a \in App : Deployed[a] = i
    <3>1. Own(CHOOSE a \in App : TRUE) \in Names
      BY DEF Own, Names
    <3>2. ctr[i] = NeverCreated
      BY <2>3
    <3> QED BY <2>1, <3>1, <3>2 DEF NeverCreated, Container, Live
  <2> QED BY <2>2, <2>3
<1>3. ctr \in [Id -> Container] /\ Born
  BY <1>2 DEF Born
<1>7. spent \in Spent
  BY DEF Spent
<1>4. TypeOK
  BY <1>1, <1>3, <1>7 DEF TypeOK, Digest
<1>5. RecShape
  BY DEF RecShape, NoRec
<1>6. \A t \in Thread : OpShape(t) /\ LockShape(t)
  BY DEF OpShape, LockShape, Holds, Idle
<1> QED BY <1>3, <1>4, <1>5, <1>6 DEF IInv

\* Every step preserves it.
LEMMA StepIInv == IInv /\ [Next]_vars => IInv'
<1> SUFFICES ASSUME IInv, [Next]_vars PROVE IInv'
  OBVIOUS
<1>1. ASSUME NEW t \in Thread, Kept, UNCHANGED agent, OpFine(t), Plain PROVE IInv'
  <2>1. OpTyped' /\ \A u \in Thread : OpShape(u)' /\ LockShape(u)'
    BY <1>1, OthersFine
  <2>2. \A s \in snapshots' \cup disk' : SnapshotShape(s)'
    BY <1>1 DEF Plain, SnapshotShape, Kept, IInv, TypeOK
  <2>3. RecShape'
    BY <1>1 DEF Plain, RecShape, Kept, IInv, TypeOK
  <2> QED BY <1>1, <2>1, <2>2, <2>3 DEF IInv, TypeOK, Plain, Kept, OpTyped
<1>2. ASSUME NEW t \in Thread, LockContainer(t) \/ Relock(t) \/ OpStep(t) PROVE IInv'
  <2>1. Plain
    BY <1>2, PlainSteps
  <2>2. CASE Rename(t)
    <3>1. Renamed /\ OpTyped' /\ \A u \in Thread : OpShape(u)' /\ LockShape(u)'
      BY <2>2, RenameStep
    <3>2. UNCHANGED <<store, agent>>
      BY <2>2 DEF Rename
    <3>3. \A s \in snapshots' \cup disk' : SnapshotShape(s)'
      BY <3>1, <3>2, SnapshotsFine DEF store
    <3>4. RecShape'
      BY <2>1, <3>1, <3>2 DEF Plain, RecShape, Renamed, IInv, TypeOK
    <3> QED BY <2>1, <3>1, <3>2, <3>3, <3>4 DEF IInv, TypeOK, Plain, Renamed, OpTyped
  <2>3. CASE ~Rename(t)
    <3>1. OpFine(t) /\ Kept /\ UNCHANGED agent
      BY <1>2, <2>3, FirstSteps, LaterSteps
         DEF OpStep, LockContainer, Inspect, InspectRejects, PullTag, PullPinned, PullFails,
             Relock, Reinspect, ReinspectFails
    <3> QED BY <1>1, <2>1, <3>1
  <2> QED BY <2>2, <2>3
<1>3. ASSUME NEW t \in Thread,
             \/ \E k \in Kind, id \in Id, target \in Digest : Begin(t, k, id, target)
             \/ \E s \in snapshots : BeginRollback(t, s)
      PROVE IInv'
  <2>1. OpFine(t) /\ Kept /\ UNCHANGED <<agent, store, rec>>
    BY <1>3, Requests
  <2>2. /\ UNCHANGED <<images, deleted>>
        /\ spent' = [spent EXCEPT !.ops = @ + 1]
    BY <1>3 DEF Begin, BeginRollback, Requested
  <2>3. Plain
    BY <2>1, <2>2 DEF Plain, IInv, TypeOK, images, store, Spent
  <2> QED BY <1>1, <2>1, <2>3
<1>4. ASSUME NEW id \in Id, Command(id) PROVE IInv'
  <2>1. /\ Live(id) /\ UNCHANGED <<lastId, images, snapshots, holder, op, agent, rec>>
        /\ disk' \subseteq disk
    BY <1>4 DEF Command, ContainerDelete, ContainerStop, ContainerStart, Running, Live, store,
                OtherThan
  <2>2. Kept
    BY <1>4, <2>1, SetStateKeeps
       DEF Command, ContainerDelete, ContainerStop, ContainerStart, IInv, Born
  <2>3. deleted' \in SUBSET App /\ spent' \in Spent
    <3>1. ctr[id].name.app \in App
      BY <2>1 DEF Live, IInv, TypeOK, Container, Names
    <3>2. deleted' \subseteq deleted \cup {ctr[id].name.app}
          /\ spent' = [spent EXCEPT !.ops = @ + 1]
      BY <1>4 DEF Command, ContainerDelete, ContainerStop, ContainerStart, Requested
    <3> QED BY <3>1, <3>2 DEF IInv, TypeOK, Spent
  <2>4. \A u \in Thread : OpShape(u)' /\ LockShape(u)'
    BY <2>1, <2>2 DEF OpShape, Sound, Kept, LockShape, IInv, TypeOK
  <2>5. \A s \in snapshots' \cup disk' : SnapshotShape(s)'
    BY <2>1, <2>2, SnapshotsFine
  <2>6. RecShape'
    BY <2>1, <2>2 DEF RecShape, Kept, IInv, TypeOK
  <2> QED BY <2>1, <2>2, <2>3, <2>4, <2>5, <2>6 DEF IInv, TypeOK, Kept, images
<1>5. ASSUME NEW a \in App, Publish(a) PROVE IInv'
  <2>1. registry' \in [App -> Digest]
    BY <1>5, UpdaterAssumption DEF Publish, IInv, TypeOK, Digest
  <2> QED BY <1>5, <2>1
             DEF Publish, IInv, TypeOK, Born, Live, OpShape, Sound, LockShape, SnapshotShape,
                 RecShape, daemon, store
<1>6. CASE Crash
  <2>1. Idle \in Op /\ NoRec \in Rec
    BY UpdaterAssumption DEF Idle, Op, Step, Ref, FloatingTag, Digest, NoRec, Rec, RecStep
  <2>2. TypeOK' /\ Born'
    BY <1>6, <2>1, UpdaterAssumption DEF Crash, IInv, TypeOK, Born, Live, daemon, images, Spent
  <2>3. \A u \in Thread : OpShape(u)' /\ LockShape(u)'
    BY <1>6 DEF Crash, OpShape, LockShape, Holds, Idle
  <2>4. RecShape' /\ \A s \in snapshots' \cup disk' : SnapshotShape(s)'
    BY <1>6 DEF Crash, RecShape, NoRec, SnapshotShape, IInv, daemon
  <2> QED BY <2>2, <2>3, <2>4 DEF IInv
<1>7. CASE Restart
  <2>1. NoRec \in Rec
    BY DEF NoRec, Rec, RecStep
  <2>2. TypeOK' /\ Born'
    BY <1>7, <2>1 DEF Restart, IInv, TypeOK, Born, Live, daemon, images, Rec, RecStep
  <2>3. \A u \in Thread : OpShape(u)' /\ LockShape(u)'
    BY <1>7 DEF Restart, OpShape, LockShape, IInv
  <2>4. RecShape' /\ \A s \in snapshots' \cup disk' : SnapshotShape(s)'
    BY <1>7 DEF Restart, RecShape, NoRec, SnapshotShape, IInv, daemon
  <2> QED BY <2>2, <2>3, <2>4 DEF IInv
<1>8. CASE Recover
  <2>1. RecoverFine /\ UNCHANGED <<images, store, holder, op, deleted>> /\ agent = "recovering"
    BY <1>8, RecoverSteps
  <2>2. TypeOK' /\ Born' /\ RecShape'
    BY <2>1 DEF RecoverFine, Kept, Renamed, IInv, TypeOK, images, store
  <2>3. \A u \in Thread : OpShape(u)' /\ LockShape(u)'
    BY <2>1 DEF OpShape, LockShape, Holds, IInv
  <2>4. \A s \in snapshots' \cup disk' : SnapshotShape(s)'
    BY <2>1, SnapshotsFine DEF RecoverFine, store
  <2> QED BY <2>2, <2>3, <2>4 DEF IInv
<1>9. CASE UNCHANGED vars
  BY <1>9 DEF vars, IInv, TypeOK, Born, Live, OpShape, Sound, LockShape, SnapshotShape, RecShape
<1> QED
  BY <1>2, <1>3, <1>4, <1>5, <1>6, <1>7, <1>8, <1>9 DEF Next, Rest

\* The invariant holds throughout.
THEOREM UpdaterInvariant == Spec => []IInv
  BY InitIInv, StepIInv, PTL DEF Spec

\* The state of the engine, of the daemon and of the snapshot store stays well
\* formed: TypeOK in updater.go's and docker.go's terms.
THEOREM TypeCorrect == Spec => []TypeOK
<1>1. IInv => TypeOK
  BY DEF IInv
<1> QED
  BY <1>1, UpdaterInvariant, PTL

\* UpdateContainer, BlueGreenUpdate and both rollbacks never replace one
\* container at once: each holds the lock of the name it works on, though it
\* found that name before it had any lock.
THEOREM ReplacementIsExclusive == Spec => []ExclusiveReplacement
<1>1. IInv => ExclusiveReplacement
  <2> SUFFICES ASSUME IInv, NEW t \in Thread, NEW u \in Thread,
                      Replacing(t), Replacing(u), op[t].snap.name = op[u].snap.name
               PROVE  t = u
    BY DEF ExclusiveReplacement
  <2>1. \A v \in {t, u} : Sound(op[v]) /\ Holds(op[v]) /\ LockShape(v)
    BY DEF IInv, OpShape, Replacing, Holds
  <2> QED BY <2>1 DEF Sound, LockShape, Replacing
<1> QED
  BY <1>1, UpdaterInvariant, PTL

-----------------------------------------------------------------------------
(* The engine and its locks.                                                *)

\* An operation is inside lockContainer.
Waits(o) == o.pc \in {"lock", "relock"}

\* Who has a lock is an operation that goes on under it: none is left behind by a return,
\* and none is kept where another one is asked for.
OwnLock(t) == \A n \in Names : holder[n] = t => Holds(op[t]) /\ op[t].key = n
LocksOwned == \A t \in Thread : OwnLock(t)

\* The locks as NameMutex sees them.
AskingFor == [n \in Names |-> {t \in Thread : Waits(op[t]) /\ op[t].key = n}]
HeldBy == [n \in Names |-> {t \in Thread : holder[n] = t}]
Mutex == INSTANCE NameMutex WITH Name <- Names, wants <- AskingFor, holder <- HeldBy

\* What a step of t's operation, which goes on as p, is to its locks.
Stays(t, p) ==
  /\ UNCHANGED holder /\ p.key = op[t].key
  /\ Waits(p) <=> Waits(op[t])
  /\ Holds(p) <=> Holds(op[t])
Asks(t, p) ==
  /\ UNCHANGED holder
  /\ ~Waits(op[t]) /\ ~Holds(op[t]) /\ Waits(p) /\ p.key \in Names
Gets(t, p) ==
  /\ Waits(op[t]) /\ Holds(p) /\ p.key = op[t].key /\ p.key \in Names
  /\ Lock(t, op[t].key)
GivesBack(t, p) ==
  /\ holder' = Released(t)
  /\ ~Waits(op[t]) /\ ~Waits(p) /\ ~Holds(p)
GivesBackAndAsks(t, p) ==
  /\ holder' = Released(t)
  /\ Holds(op[t]) /\ Waits(p) /\ p.key \in Names
LockMove(t, p) ==
  \/ Stays(t, p) \/ Asks(t, p) \/ Gets(t, p) \/ GivesBack(t, p) \/ GivesBackAndAsks(t, p)

BecomesOp(t, p) == op' = [op EXCEPT ![t] = p] /\ LockMove(t, p)

\* A Release with the Request that follows it: on a port conflict BlueGreenUpdate unlocks
\* and calls UpdateContainer.
ReleaseAndRequest ==
  \E t \in Thread, m, n \in Names :
    /\ t \in HeldBy[m]
    /\ \A o \in Names : t \notin AskingFor[o] /\ (t \in HeldBy[o] => o = m)
    /\ HeldBy' = [HeldBy EXCEPT ![m] = @ \ {t}]
    /\ AskingFor' = [AskingFor EXCEPT ![n] = @ \cup {t}]

EngineNext == Mutex!NameMutexNext \/ ReleaseAndRequest

LEMMA ReturnMoves ==
  ASSUME NEW t \in Thread, Return(t), ~Waits(op[t])
  PROVE  \E p : BecomesOp(t, p)
<1>1. GivesBack(t, Idle)
  BY DEF GivesBack, Return, Waits, Holds, Idle
<1> QED BY <1>1 DEF BecomesOp, LockMove, Return

LEMMA GotoMoves ==
  ASSUME IInv, NEW t \in Thread, NEW s \in Step, Goto(t, s),
         Holds(op[t]), s \notin {"idle", "lock", "pull", "relock"}
  PROVE  \E p : BecomesOp(t, p)
<1>1. PICK p : p = [op[t] EXCEPT !.pc = s]
  OBVIOUS
<1>2. op[t] \in Op /\ op' = [op EXCEPT ![t] = p]
  BY <1>1 DEF IInv, TypeOK, Goto
<1>3. p.pc = s /\ p.key = op[t].key
  BY <1>1, <1>2 DEF Op
<1>4. Stays(t, p)
  BY <1>3 DEF Stays, Waits, Holds, Goto
<1> QED BY <1>2, <1>4 DEF BecomesOp, LockMove

\* Each step of an operation asks, gets, gives back, or leaves its lock alone.
LEMMA OpKeepsProtocol ==
  ASSUME IInv, NEW t \in Thread, LockContainer(t) \/ Relock(t) \/ OpStep(t)
  PROVE  \E p : BecomesOp(t, p)
<1>1. op[t] \in Op /\ (op[t].pc # "idle" => Sound(op[t]))
  BY DEF IInv, TypeOK, OpShape
<1>2. CASE LockContainer(t) \/ Relock(t)
  <2>1. PICK s \in {"stop", "inspect", "reinspect"} :
          op' = [op EXCEPT ![t].pc = s] /\ Lock(t, op[t].key) /\ op[t].pc \in {"lock", "relock"}
    BY <1>2 DEF LockContainer, Relock, At
  <2>2. PICK p : p = [op[t] EXCEPT !.pc = s]
    OBVIOUS
  <2>3. p.pc = s /\ p.key = op[t].key /\ op' = [op EXCEPT ![t] = p]
    BY <1>1, <2>1, <2>2 DEF Op
  <2>4. op[t].key \in Names
    BY <1>1, <2>1 DEF Sound
  <2>5. Gets(t, p)
    BY <2>1, <2>3, <2>4 DEF Gets, Waits, Holds
  <2> QED BY <2>3, <2>5 DEF BecomesOp, LockMove
<1>3. CASE Inspect(t)
  <2>1. PICK id \in Found(op[t]) : \E s \in {FullSnapshot(id), BlindSnapshot(id)} :
          op' = [op EXCEPT ![t] = [@ EXCEPT !.pc = "pull", !.id = id, !.snap = s,
                                            !.img = IF op[t].kind = "rollbackTo" THEN op[t].want
                                                    ELSE ResolveCheckRef(ctr[id].ref)]]
    BY <1>3 DEF Inspect
  <2>2. PICK snap, img : op' = [op EXCEPT ![t] = [op[t] EXCEPT !.pc = "pull", !.id = id,
                                                                !.snap = snap, !.img = img]]
    BY <2>1
  <2>3. PICK p : p = [op[t] EXCEPT !.pc = "pull", !.id = id, !.snap = snap, !.img = img]
    OBVIOUS
  <2>4. p.pc = "pull" /\ p.key = op[t].key /\ p.kind = op[t].kind
    BY <1>1, <2>3 DEF Op
  <2>5. op[t].pc = "inspect" /\ holder' = IF op[t].kind = "update" THEN Released(t) ELSE holder
    BY <1>3 DEF Inspect, At
  <2>6. GivesBack(t, p) \/ Stays(t, p)
    BY <2>4, <2>5 DEF GivesBack, Stays, Waits, Holds
  <2> QED BY <2>2, <2>3, <2>6 DEF BecomesOp, LockMove
<1>4. CASE PullTag(t)
  <2>1. PICK s \in {"relock", "create"} :
          /\ s = IF op[t].kind = "update" THEN "relock" ELSE "create"
          /\ op' = [op EXCEPT ![t].pc = s] /\ UNCHANGED holder /\ op[t].pc = "pull"
    BY <1>4 DEF PullTag, Goto, At
  <2>2. PICK p : p = [op[t] EXCEPT !.pc = s]
    OBVIOUS
  <2>3. p.pc = s /\ p.key = op[t].key /\ p.kind = op[t].kind /\ op' = [op EXCEPT ![t] = p]
    BY <1>1, <2>1, <2>2 DEF Op
  <2>4. op[t].key \in Names
    BY <1>1, <2>1 DEF Sound
  <2>5. Asks(t, p) \/ Stays(t, p)
    BY <2>1, <2>3, <2>4 DEF Asks, Stays, Waits, Holds
  <2> QED BY <2>3, <2>5 DEF BecomesOp, LockMove
<1>5. CASE PullPinned(t)
  <2>1. PICK ref : op' = [op EXCEPT ![t].pc = "stop", ![t].img = ref]
    BY <1>5 DEF PullPinned
  <2>2. PICK p : p = [op[t] EXCEPT !.pc = "stop", !.img = ref]
    OBVIOUS
  <2>3. p.pc = "stop" /\ p.key = op[t].key /\ op' = [op EXCEPT ![t] = p]
    BY <1>1, <2>1, <2>2 DEF Op, IInv, TypeOK
  <2>4. op[t].pc = "pull" /\ op[t].kind = "rollbackTo" /\ UNCHANGED holder
    BY <1>5 DEF PullPinned, At
  <2>5. Stays(t, p)
    BY <2>3, <2>4 DEF Stays, Waits, Holds
  <2> QED BY <2>3, <2>5 DEF BecomesOp, LockMove
<1>6. CASE InspectRejects(t) \/ PullFails(t) \/ ReinspectFails(t) \/ StartOld(t) \/ DiscardRemove(t)
             \/ Rename(t)
  <2>1. Return(t) /\ ~Waits(op[t])
    BY <1>6 DEF InspectRejects, PullFails, ReinspectFails, StartOld, DiscardRemove, Rename, At,
                Waits
  <2> QED BY <2>1, ReturnMoves
<1>7. CASE Reinspect(t) \/ Create(t)
  <2>1. PICK p : /\ op' = [op EXCEPT ![t] = p] /\ p.key = op[t].key
                 /\ p.pc \in {"save", "start"}
    <3>1. CASE Reinspect(t)
      <4>1. PICK snap : op' = [op EXCEPT ![t].pc = "save", ![t].snap = snap]
        BY <3>1 DEF Reinspect
      <4>3. PICK p : p = [op[t] EXCEPT !.pc = "save", !.snap = snap]
        OBVIOUS
      <4>2. op' = [op EXCEPT ![t] = p] /\ p.key = op[t].key /\ p.pc = "save"
        BY <1>1, <4>1, <4>3 DEF Op, IInv, TypeOK
      <4> QED BY <4>2
    <3>2. CASE Create(t)
      <4>1. PICK newId : newId = lastId'
        OBVIOUS
      <4>2. PICK p : p = [op[t] EXCEPT !.pc = "start", !.newId = newId]
        OBVIOUS
      <4>3. op' = [op EXCEPT ![t] = p] /\ p.key = op[t].key /\ p.pc = "start"
        BY <1>1, <3>2, <4>1, <4>2 DEF Create, Op
      <4> QED BY <4>3
    <3> QED BY <1>7, <3>1, <3>2
  <2>2. op[t].pc \in {"reinspect", "create"} /\ UNCHANGED holder
    BY <1>7 DEF Reinspect, Create, At
  <2>3. Stays(t, p)
    BY <2>1, <2>2 DEF Stays, Waits, Holds
  <2> QED BY <2>1, <2>3 DEF BecomesOp, LockMove
<1>8. CASE SaveSnapshot(t) \/ SaveSnapshotFails(t) \/ Stop(t) \/ StopFails(t) \/ Remove(t)
             \/ RemoveFails(t) \/ RemoveTakenForGone(t) \/ Start(t) \/ Healthy(t)
             \/ Unhealthy(t) \/ DiscardStop(t)
  <2>1. op[t].pc \in {"save", "stop", "remove", "start", "health", "discardStop"}
    BY <1>8 DEF SaveSnapshot, SaveSnapshotFails, Stop, StopFails, Remove, RemoveFails,
                RemoveTakenForGone, Start, Healthy, Unhealthy, DiscardStop, At
  <2>2. Holds(op[t]) /\ ~Waits(op[t])
    BY <2>1 DEF Holds, Waits
  <2>3. Return(t) \/ \E s \in {"stop", "remove", "startOld", "create", "rename", "health", "save",
                               "discardStop", "discardRemove"} : Goto(t, s)
    BY <1>8 DEF SaveSnapshot, SaveSnapshotFails, Stop, StopFails, Remove, RemoveFails,
                RemoveTakenForGone, Start, Healthy, Unhealthy, DiscardStop, AfterRemove
  <2> QED BY <2>2, <2>3, ReturnMoves, GotoMoves DEF Step
<1>9. CASE CreateFails(t) \/ StartFails(t)
  <2>1. CreateFailed(t) /\ op[t].pc \in {"create", "start"}
    BY <1>9 DEF CreateFails, StartFails, At
  <2>2. CASE Return(t)
    BY <2>1, <2>2, ReturnMoves DEF Waits
  <2>3. CASE ~Return(t)
    <3>1. PICK p : p = [op[t] EXCEPT !.pc = "create", !.newId = 0, !.restoring = TRUE]
      OBVIOUS
    <3>2. op' = [op EXCEPT ![t] = p] /\ UNCHANGED holder
      BY <2>1, <2>3, <3>1 DEF CreateFailed
    <3>3. p.pc = "create" /\ p.key = op[t].key
      BY <1>1, <3>1 DEF Op
    <3>4. Stays(t, p)
      BY <2>1, <3>2, <3>3 DEF Stays, Waits, Holds
    <3> QED BY <3>2, <3>4 DEF BecomesOp, LockMove
  <2> QED BY <2>2, <2>3
<1>10. CASE PortConflict(t)
  <2>1. op[t].pc = "start" /\ holder' = Released(t)
    BY <1>10 DEF PortConflict, At
  <2>2. CASE Live(op[t].id)
    <3>1. PICK p : p = [Idle EXCEPT !.kind = "update", !.pc = "lock", !.id = op[t].id,
                                    !.key = ctr[op[t].id].name]
      OBVIOUS
    <3>2. op' = [op EXCEPT ![t] = p]
      BY <1>10, <2>2, <3>1 DEF PortConflict
    <3>3. p.pc = "lock" /\ p.key = ctr[op[t].id].name
      BY <3>1 DEF Idle
    <3>4. p.key \in Names
      BY <1>1, <2>1, <3>3 DEF Sound
    <3>5. GivesBackAndAsks(t, p)
      BY <2>1, <3>3, <3>4 DEF GivesBackAndAsks, Waits, Holds
    <3> QED BY <3>2, <3>5 DEF BecomesOp, LockMove
  <2>3. CASE ~Live(op[t].id)
    <3>1. Return(t)
      BY <1>10, <2>3 DEF PortConflict, Return
    <3> QED BY <2>1, <3>1, ReturnMoves DEF Waits
  <2> QED BY <2>2, <2>3
<1> QED BY <1>2, <1>3, <1>4, <1>5, <1>6, <1>7, <1>8, <1>9, <1>10 DEF OpStep

\* A request that begins is inside lockContainer.
LEMMA RequestMoves ==
  ASSUME IInv, NEW t \in Thread,
         \/ \E k \in Kind, id \in Id, target \in Digest : Begin(t, k, id, target)
         \/ \E s \in snapshots : BeginRollback(t, s)
  PROVE  \E p : BecomesOp(t, p)
<1>1. op[t].pc = "idle" /\ UNCHANGED holder
  BY DEF Begin, BeginRollback
<1>2. PICK p : op' = [op EXCEPT ![t] = p] /\ p.pc = "lock" /\ p.key \in Names
  <2>1. ASSUME NEW k \in Kind, NEW id \in Id, NEW target \in Digest, Begin(t, k, id, target)
        PROVE  \E p : op' = [op EXCEPT ![t] = p] /\ p.pc = "lock" /\ p.key \in Names
    <3>1. PICK q : q = [Idle EXCEPT !.kind = k, !.pc = "lock", !.id = id, !.key = ctr[id].name,
                                    !.want = target]
      OBVIOUS
    <3>2. q.pc = "lock" /\ q.key = ctr[id].name
      BY <3>1 DEF Idle
    <3>3. ctr[id].name \in Names
      BY DEF IInv, TypeOK, Container
    <3> QED BY <2>1, <3>1, <3>2, <3>3 DEF Begin
  <2>2. ASSUME NEW s \in snapshots, BeginRollback(t, s)
        PROVE  \E p : op' = [op EXCEPT ![t] = p] /\ p.pc = "lock" /\ p.key \in Names
    <3>1. PICK q : q = [Idle EXCEPT !.kind = "rollback", !.pc = "lock", !.id = s.id,
                                    !.key = s.name, !.snap = s, !.want = s.digest]
      OBVIOUS
    <3>2. q.pc = "lock" /\ q.key = s.name
      BY <3>1 DEF Idle
    <3>3. s.name \in Names
      BY DEF IInv, TypeOK, Snapshot
    <3> QED BY <2>2, <3>1, <3>2, <3>3 DEF BeginRollback
  <2> QED BY <2>1, <2>2
<1>3. Asks(t, p)
  BY <1>1, <1>2 DEF Asks, Waits, Holds
<1> QED BY <1>2, <1>3 DEF BecomesOp, LockMove

\* Every other step leaves operations and locks alone, or is a crash, which ends both.
LEMMA LockSteps ==
  ASSUME IInv, [Next]_vars
  PROVE  (\E t \in Thread : \E p : BecomesOp(t, p)) \/ UNCHANGED <<op, holder>> \/ Crash
<1>1. CASE \E t \in Thread : LockContainer(t) \/ Relock(t) \/ OpStep(t)
  BY <1>1, OpKeepsProtocol
<1>2. CASE \E t \in Thread :
             \/ \E k \in Kind, id \in Id, target \in Digest : Begin(t, k, id, target)
             \/ \E s \in snapshots : BeginRollback(t, s)
  BY <1>2, RequestMoves
<1>3. CASE Recover
  BY <1>3 DEF Recover, RecoverList, RecoverListFails, RecoverTempStop, RecoverTempRename,
              RecoverTempRemove, RecoverTempsDone, RecoverSkip, RecoverCreate,
              RecoverCreateFails, RecoverStart, RecoverDone
<1>4. CASE (\E id \in Id : Command(id)) \/ (\E a \in App : Publish(a)) \/ Restart \/ Rest
             \/ UNCHANGED vars
  BY <1>4 DEF Command, ContainerDelete, ContainerStop, ContainerStart, Publish, Restart, Rest, vars
<1> QED BY <1>1, <1>2, <1>3, <1>4 DEF Next

LEMMA LocksStep ==
  IInv /\ LocksOwned /\ [Next]_vars => LocksOwned'
<1> SUFFICES ASSUME IInv, \A t \in Thread : OwnLock(t), [Next]_vars,
                    NEW u \in Thread, NEW n \in Names, holder'[n] = u
             PROVE  Holds(op'[u]) /\ op'[u].key = n
  BY DEF OwnLock, LocksOwned
<1>1. op \in [Thread -> Op] /\ holder \in [Names -> Thread \cup {None}] /\ None \notin Thread
  BY UpdaterAssumption DEF IInv, TypeOK
<1>2. CASE UNCHANGED <<op, holder>>
  BY <1>2 DEF OwnLock
<1>3. CASE Crash
  BY <1>1, <1>3 DEF Crash
<1>4. ASSUME NEW t \in Thread, NEW p, BecomesOp(t, p) PROVE Holds(op'[u]) /\ op'[u].key = n
  <2>1. op'[t] = p /\ \A v \in Thread \ {t} : op'[v] = op[v]
    BY <1>1, <1>4 DEF BecomesOp
  <2>2. CASE u # t
    <3>1. holder[n] = u
      BY <1>1, <1>4, <2>2 DEF BecomesOp, LockMove, Stays, Asks, Gets, GivesBack, GivesBackAndAsks,
                              Lock, Released
    <3> QED BY <2>1, <2>2, <3>1 DEF OwnLock
  <2>3. CASE u = t
    <3>1. CASE Stays(t, p) \/ Asks(t, p)
      <4>1. holder[n] = t
        BY <2>3, <3>1 DEF Stays, Asks
      <4>2. Holds(op[t]) /\ op[t].key = n
        BY <4>1 DEF OwnLock
      <4> QED BY <2>1, <2>3, <3>1, <4>2 DEF Stays, Asks
    <3>2. CASE Gets(t, p)
      <4>1. ~Holds(op[t]) /\ Holds(p) /\ p.key = op[t].key
        BY <3>2 DEF Gets, Holds, Waits
      <4>2. n # op[t].key => holder[n] = t
        BY <1>1, <2>3, <3>2 DEF Gets, Lock
      <4>3. n = op[t].key
        BY <4>1, <4>2 DEF OwnLock
      <4> QED BY <2>1, <2>3, <4>1, <4>3
    <3>3. CASE GivesBack(t, p) \/ GivesBackAndAsks(t, p)
      BY <1>1, <2>3, <3>3 DEF GivesBack, GivesBackAndAsks, Released
    <3> QED BY <1>4, <3>1, <3>2, <3>3 DEF BecomesOp, LockMove
  <2> QED BY <2>2, <2>3
<1> QED BY <1>2, <1>3, <1>4, LockSteps


\* Nothing is locked on behalf of nobody: a lock that an operation of updater.go took is
\* given back by every way it returns, is given back before the operation asks for another,
\* and is the one of the name the operation works on.
THEOREM LocksAreReturned == Spec => []LocksOwned
<1>1. Init => LocksOwned
  BY UpdaterAssumption DEF Init, OwnLock, LocksOwned
<1> QED BY <1>1, LocksStep, UpdaterInvariant, PTL DEF Spec

\* Taking a thread away from every name takes it away from the one it is at.
LEMMA TakenAway ==
  ASSUME NEW f, NEW g, NEW t, NEW m \in Names,
         f = [n \in Names |-> f[n]], g = [n \in Names |-> f[n] \ {t}],
         \A n \in Names \ {m} : t \notin f[n]
  PROVE  g = [f EXCEPT ![m] = @ \ {t}]
  OBVIOUS

\* A move on a lock is one that NameMutex allows.
LEMMA MovesAreNameMutex ==
  ASSUME IInv, LocksOwned, NEW t \in Thread, NEW p, BecomesOp(t, p)
  PROVE  EngineNext \/ UNCHANGED <<AskingFor, HeldBy>>
<1>1. op \in [Thread -> Op] /\ holder \in [Names -> Thread \cup {None}] /\ None \notin Thread
  BY UpdaterAssumption DEF IInv, TypeOK
<1>2. op'[t] = p /\ \A v \in Thread \ {t} : op'[v] = op[v]
  BY <1>1 DEF BecomesOp
<1>3. AskingFor' = [n \in Names |-> (AskingFor[n] \ {t})
                                    \cup IF Waits(p) /\ p.key = n THEN {t} ELSE {}]
  <2>1. \A n \in Names : {v \in Thread : Waits(op'[v]) /\ op'[v].key = n}
          = ({v \in Thread : Waits(op[v]) /\ op[v].key = n} \ {t})
              \cup IF Waits(p) /\ p.key = n THEN {t} ELSE {}
    BY <1>2
  <2> QED BY <2>1 DEF AskingFor, Waits
<1>4. AskingFor = [n \in Names |-> AskingFor[n]] /\ HeldBy = [n \in Names |-> HeldBy[n]]
  BY DEF AskingFor, HeldBy
<1>5. \A n \in Names : /\ t \in AskingFor[n] <=> Waits(op[t]) /\ op[t].key = n
                       /\ t \in HeldBy[n] <=> holder[n] = t
                       /\ t \in HeldBy[n] => Holds(op[t]) /\ op[t].key = n
  BY DEF AskingFor, HeldBy, OwnLock, LocksOwned
<1>6. UNCHANGED holder => UNCHANGED HeldBy
  BY DEF HeldBy
<1>7. holder' = Released(t) => HeldBy' = [n \in Names |-> HeldBy[n] \ {t}]
  BY <1>1 DEF HeldBy, Released
<1>8. CASE Stays(t, p)
  <2>1. AskingFor' = AskingFor
    BY <1>3, <1>4, <1>5, <1>8 DEF Stays
  <2> QED BY <1>6, <1>8, <2>1 DEF Stays
<1>9. CASE Asks(t, p)
  <2>1. \A m \in Names : t \notin AskingFor[m] \cup HeldBy[m]
    BY <1>5, <1>9 DEF Asks
  <2>2. AskingFor' = [AskingFor EXCEPT ![p.key] = @ \cup {t}]
    BY <1>3, <1>4, <1>9, <2>1 DEF Asks
  <2>3. Mutex!Request(t, p.key)
    BY <1>6, <1>9, <2>1, <2>2 DEF Mutex!Request, Asks
  <2> QED BY <1>9, <2>3 DEF EngineNext, Mutex!NameMutexNext, Asks
<1>10. CASE Gets(t, p)
  <2>1. t \in AskingFor[p.key] /\ ~Waits(p) /\ p.key \in Names
    BY <1>5, <1>10 DEF Gets, Holds, Waits
  <2>2. AskingFor' = [AskingFor EXCEPT ![p.key] = @ \ {t}]
    <3>1. AskingFor' = [n \in Names |-> AskingFor[n] \ {t}]
      BY <1>3, <2>1
    <3>2. \A n \in Names \ {p.key} : t \notin AskingFor[n]
      BY <1>5, <1>10 DEF Gets
    <3> QED BY <1>4, <2>1, <3>1, <3>2, TakenAway
  <2>3. HeldBy[p.key] = {}
    BY <1>1, <1>10 DEF Gets, Lock, HeldBy
  <2>4. HeldBy' = [HeldBy EXCEPT ![p.key] = {t}]
    BY <1>1, <1>10, <2>3 DEF Gets, Lock, HeldBy
  <2>5. Mutex!Acquire(t, p.key)
    BY <2>1, <2>2, <2>3, <2>4 DEF Mutex!Acquire
  <2> QED BY <2>1, <2>5 DEF EngineNext, Mutex!NameMutexNext
<1>11. CASE GivesBack(t, p)
  <2>1. AskingFor' = AskingFor
    BY <1>3, <1>4, <1>5, <1>11 DEF GivesBack
  <2>2. CASE \E n \in Names : t \in HeldBy[n]
    <3>1. PICK m \in Names : t \in HeldBy[m]
      BY <2>2
    <3>2. HeldBy' = [HeldBy EXCEPT ![m] = @ \ {t}]
      <4>1. HeldBy' = [n \in Names |-> HeldBy[n] \ {t}]
        BY <1>7, <1>11 DEF GivesBack
      <4>2. \A n \in Names \ {m} : t \notin HeldBy[n]
        BY <1>5, <3>1
      <4>3. HeldBy' = [n \in Names |-> [HeldBy EXCEPT ![m] = @ \ {t}][n]]
        BY <1>4, <4>1, <4>2
      <4> QED BY <1>4, <4>3
    <3>3. Mutex!Release(t, m)
      BY <2>1, <3>1, <3>2 DEF Mutex!Release
    <3> QED BY <3>1, <3>3 DEF EngineNext, Mutex!NameMutexNext
  <2>3. CASE \A n \in Names : t \notin HeldBy[n]
    BY <1>4, <1>7, <1>11, <2>1, <2>3 DEF GivesBack
  <2> QED BY <2>2, <2>3
<1>12. CASE GivesBackAndAsks(t, p)
  <2>1. PICK m \in Names : m = op[t].key /\ t \in HeldBy[m]
    BY <1>5, <1>12 DEF GivesBackAndAsks, IInv, OpShape, LockShape, Sound, Holds
  <2>2. \A o \in Names : t \notin AskingFor[o] /\ (t \in HeldBy[o] => o = m)
    BY <1>5, <1>12, <2>1 DEF GivesBackAndAsks, Holds, Waits
  <2>3. HeldBy' = [HeldBy EXCEPT ![m] = @ \ {t}]
    <3>1. HeldBy' = [n \in Names |-> HeldBy[n] \ {t}]
      BY <1>7, <1>12 DEF GivesBackAndAsks
    <3>2. \A n \in Names \ {m} : t \notin HeldBy[n]
      BY <2>2
    <3> QED BY <1>4, <2>1, <3>1, <3>2, TakenAway
  <2>4. AskingFor' = [AskingFor EXCEPT ![p.key] = @ \cup {t}]
    BY <1>3, <1>4, <1>12, <2>2 DEF GivesBackAndAsks
  <2> QED BY <1>12, <2>1, <2>2, <2>3, <2>4 DEF EngineNext, ReleaseAndRequest, GivesBackAndAsks
<1> QED BY <1>8, <1>9, <1>10, <1>11, <1>12 DEF BecomesOp, LockMove

\* The engine keeps the protocol of NameMutex, which LockTable implements: an operation asks
\* for one name at a time, has what it was given, and gives it back, and only a crash, which
\* ends every operation, starts the locks anew.
THEOREM EngineUsesNameMutex ==
  Spec => /\ Mutex!NameMutexInit
          /\ [][EngineNext \/ Mutex!NameMutexInit']_<<AskingFor, HeldBy>>
<1>1. Init => Mutex!NameMutexInit
  BY UpdaterAssumption DEF Init, Mutex!NameMutexInit, AskingFor, HeldBy, Waits, Idle
<1>2. IInv /\ LocksOwned /\ [Next]_vars
        => [EngineNext \/ Mutex!NameMutexInit']_<<AskingFor, HeldBy>>
  <2> SUFFICES ASSUME IInv, LocksOwned, [Next]_vars
               PROVE  [EngineNext \/ Mutex!NameMutexInit']_<<AskingFor, HeldBy>>
    OBVIOUS
  <2>1. ASSUME NEW t \in Thread, NEW p, BecomesOp(t, p)
        PROVE  EngineNext \/ UNCHANGED <<AskingFor, HeldBy>>
    BY <2>1, MovesAreNameMutex
  <2>2. CASE UNCHANGED <<op, holder>>
    BY <2>2 DEF AskingFor, HeldBy, Waits
  <2>3. CASE Crash
    <3>1. \A t \in Thread : ~Waits(op'[t])
      BY <2>3 DEF Crash, Idle, Waits
    <3>2. AskingFor' = [n \in Names |-> {}]
      BY <3>1 DEF AskingFor, Waits
    <3>3. HeldBy' = [n \in Names |-> {}]
      BY <2>3, UpdaterAssumption DEF Crash, HeldBy
    <3> QED BY <3>2, <3>3 DEF Mutex!NameMutexInit
  <2> QED BY <2>1, <2>2, <2>3, LockSteps
<1> QED BY <1>1, <1>2, UpdaterInvariant, LocksAreReturned, PTL DEF Spec
=============================================================================
