------------------------------- MODULE Updater -------------------------------
(***************************************************************************)
(* The agent's update engine on one Docker host (agent/updater.go with     *)
(* agent/docker.go and agent/snapshot_store.go): UpdateContainer,          *)
(* BlueGreenUpdate, RollbackContainer and RollbackToImageWithTag run by    *)
(* several goroutines, the unlocked container commands of                  *)
(* agent/managed.go, crashes of the agent at any point, and RecoverOrphans *)
(* when it starts again.                                                   *)
(*                                                                         *)
(* One action is one call to the Docker daemon and the code up to the next *)
(* one. A call that may fail fails without effect, at most MaxFaults times.*)
(* lockContainer is the lock per name of NameMutex, which LockTable        *)
(* implements. The daemon itself is outside the repository: it keeps names *)
(* unique and refuses to remove a running container unless forced.         *)
(***************************************************************************)
EXTENDS Integers

CONSTANTS
  Thread,      \* goroutines running handlers
  App,         \* the services; each has one container under its own name
  Kind,        \* the operations that are requested, out of AllKinds
  Deployed,    \* the container ID each app starts with
  LastDeployed,\* the last of these IDs
  MaxDigest,   \* bound: versions the registry publishes
  MaxId,       \* bound: containers the daemon ever creates
  MaxOps,      \* bound: operations requested
  DiskFails,   \* may writing a snapshot file fail?
  MaxFaults,   \* bound: daemon calls and file writes that fail, and inspections
               \* that find no digest of the image
  MaxCrashes,  \* bound: crashes of the agent
  None         \* no goroutine, no snapshot, no name

AllKinds == {"update", "blueGreen", "rollback", "rollbackTo", "delete", "power"}

ASSUME UpdaterAssumption ==
  /\ App # {}
  /\ DiskFails \in BOOLEAN
  /\ Kind \subseteq AllKinds
  /\ MaxDigest \in Nat \ {0}
  /\ MaxId \in Nat
  /\ LastDeployed \in 0..MaxId
  /\ Deployed \in [App -> 1..LastDeployed]
  /\ \A a, b \in App : Deployed[a] = Deployed[b] => a = b
  /\ MaxOps \in Nat
  /\ MaxFaults \in Nat
  /\ MaxCrashes \in Nat
  /\ None \notin Thread

VARIABLES
  ctr,         \* the daemon's containers by ID
  lastId,      \* the last ID it gave out
  tag,         \* the digest an app's floating tag names on this host
  registry,    \* the digest the registry has for that tag
  snapshots,   \* Updater.snapshots by container ID
  disk,        \* the files of snapshotDir()
  holder,      \* who has the lock of a name
  op,          \* the local state of each goroutine
  agent,       \* "up", "down" or "recovering"
  rec,         \* the local state of RecoverOrphans
  deleted,     \* apps whose container CONTAINER_DELETE removed in between operations
  spent        \* how much of each bound is used up

vars == <<ctr, lastId, tag, registry, snapshots, disk, holder, op, agent, rec,
          deleted, spent>>
daemon == <<ctr, lastId>>
images == <<tag, registry>>
store == <<snapshots, disk>>

-----------------------------------------------------------------------------
(* Values.                                                                 *)

Id == 1..MaxId
Digest == 1..MaxDigest

\* nginx, and nginx-ww-new for the container a blue-green update starts.
Names == [app : App, temp : BOOLEAN]
Own(a) == [app |-> a, temp |-> FALSE]
TempName(n) == [app |-> n.app, temp |-> TRUE]
OriginalName(n) == Own(n.app)

\* An image reference is an app's floating tag or pins a digest.
FloatingTag == 0
Ref == {FloatingTag} \cup Digest
DigestOf(a, ref) == IF ref = FloatingTag THEN tag[a] ELSE ref

\* ImageDigest "": the image could not be inspected or lists no repository
\* digest. It is no reference, the daemon creates nothing from it.
NoDigest == -1

Container ==
  [name : Names, ref : Ref, digest : Digest,
   state : {"created", "running", "exited", "gone"}]
NeverCreated ==
  [name |-> Own(CHOOSE a \in App : TRUE), ref |-> FloatingTag, digest |-> 1, state |-> "gone"]
Snapshot == [id : Id, name : Names, ref : Ref, digest : Digest \cup {NoDigest}]

Live(id) == id \in Id /\ ctr[id].state # "gone"
Running(id) == id \in Id /\ ctr[id].state = "running"
Named(n) == {id \in Id : Live(id) /\ ctr[id].name = n}

\* What an operation knows: want is the version a rollback was asked for (1 for
\* the others, which never look at it), img
\* the reference it creates the new container with, newId that container.
Step == {"idle", "lock", "inspect", "pull", "relock", "reinspect", "save", "stop",
         "remove", "startOld", "create", "start", "health", "discardStop",
         "discardRemove", "rename"}
Op == [kind : AllKinds \cup {None}, pc : Step, id : Id \cup {0},
       key : Names \cup {None}, snap : Snapshot \cup {None},
       want : Digest \cup {NoDigest}, img : Ref, newId : Id \cup {0}, restoring : BOOLEAN]
Idle == [kind |-> None, pc |-> "idle", id |-> 0, key |-> None, snap |-> None,
         want |-> 1, img |-> FloatingTag, newId |-> 0, restoring |-> FALSE]

RecStep == {"off", "list", "temps", "tempRemove", "snapshots", "start"}
Rec == [pc : RecStep, existing : SUBSET Names, todo : SUBSET Names,
        seen : SUBSET Names, name : Names \cup {None}, newId : Id \cup {0}]
NoRec == [pc |-> "off", existing |-> {}, todo |-> {}, seen |-> {}, name |-> None,
          newId |-> 0]

\* What has gone wrong so far; blind counts the inspections that found no digest,
\* swallowed the refused removals taken for "already gone".
Spent == [ops : Nat, faults : Nat, crashes : Nat, blind : Nat, swallowed : Nat]

TypeOK ==
  /\ ctr \in [Id -> Container]
  /\ lastId \in 0..MaxId
  /\ tag \in [App -> Digest]
  /\ registry \in [App -> Digest]
  /\ snapshots \in SUBSET Snapshot
  /\ disk \in SUBSET Snapshot
  /\ holder \in [Names -> Thread \cup {None}]
  /\ op \in [Thread -> Op]
  /\ agent \in {"up", "down", "recovering"}
  /\ rec \in Rec
  /\ deleted \in SUBSET App
  /\ spent \in Spent

-----------------------------------------------------------------------------
(* Faults and locks.                                                       *)

\* A number of daemon calls or file writes go wrong.
Faults(n) ==
  /\ spent.faults + spent.blind + n <= MaxFaults
  /\ spent' = [spent EXCEPT !.faults = @ + n]
Fault == Faults(1)
NoFault == UNCHANGED spent

Lock(t, n) == holder[n] = None /\ holder' = [holder EXCEPT ![n] = t]
Released(t) == [n \in Names |-> IF holder[n] = t THEN None ELSE holder[n]]

\* The deferred entry.mu.Unlock() and the return.
Return(t) ==
  /\ op' = [op EXCEPT ![t] = Idle]
  /\ holder' = Released(t)
Goto(t, step) ==
  /\ op' = [op EXCEPT ![t].pc = step]
  /\ UNCHANGED holder

\* InspectContainer: the container and, by a second call, the digest of its image,
\* which stays empty when that call fails or the image lists none.
FullSnapshot(id) ==
  [id |-> id, name |-> ctr[id].name, ref |-> ctr[id].ref, digest |-> ctr[id].digest]
BlindSnapshot(id) == [FullSnapshot(id) EXCEPT !.digest = NoDigest]

InspectContainer(id, s) ==
  \/ s = FullSnapshot(id) /\ NoFault
  \/ /\ s = BlindSnapshot(id)
     /\ spent.faults + spent.blind < MaxFaults
     /\ spent' = [spent EXCEPT !.blind = @ + 1]

\* resolveCheckRef: whatever reference the container has, an update follows the
\* floating tag it stands for.
ResolveCheckRef(ref) == FloatingTag

\* The daemon creates a container, its ID is new.
NewContainer(name, ref) ==
  /\ lastId < MaxId
  /\ Named(name) = {}
  /\ lastId' = lastId + 1
  /\ ctr' = [ctr EXCEPT ![lastId + 1] =
              [name |-> name, ref |-> ref, digest |-> DigestOf(name.app, ref),
               state |-> "created"]]
SetState(id, s) == ctr' = [ctr EXCEPT ![id].state = s]

-----------------------------------------------------------------------------
\* Every app runs the version its floating tag names.
Init ==
  /\ ctr = [i \in Id |->
              IF \E a \in App : Deployed[a] = i
              THEN [name |-> Own(CHOOSE a \in App : Deployed[a] = i),
                    ref |-> FloatingTag, digest |-> 1, state |-> "running"]
              ELSE NeverCreated]
  /\ lastId = LastDeployed
  /\ tag = [a \in App |-> 1]
  /\ registry = [a \in App |-> 1]
  /\ snapshots = {}
  /\ disk = {}
  /\ holder = [n \in Names |-> None]
  /\ op = [t \in Thread |-> Idle]
  /\ agent = "up"
  /\ rec = NoRec
  /\ deleted = {}
  /\ spent = [ops |-> 0, faults |-> 0, crashes |-> 0, blind |-> 0, swallowed |-> 0]

-----------------------------------------------------------------------------
(* Requests.                                                               *)

Requested(k) ==
  /\ agent = "up"
  /\ k \in Kind
  /\ spent.ops < MaxOps
  /\ spent' = [spent EXCEPT !.ops = @ + 1]

\* UPDATE and ROLLBACK arrive for a container: ResolveContainerID and the
\* inspection outside the lock that yields the lock key. A rollback to an image
\* names a version that exists.
Begin(t, k, id, target) ==
  /\ k \in {"update", "blueGreen", "rollbackTo"}
  /\ Requested(k)
  /\ op[t].pc = "idle"
  /\ Live(id)
  /\ ~ctr[id].name.temp
  /\ IF k = "rollbackTo"
     THEN target \in 1..registry[ctr[id].name.app]
     ELSE target = Idle.want
  /\ op' = [op EXCEPT ![t] = [Idle EXCEPT !.kind = k, !.pc = "lock", !.id = id,
                                          !.key = ctr[id].name, !.want = target]]
  /\ UNCHANGED <<daemon, images, store, holder, agent, rec, deleted>>

\* ROLLBACK without a target image: RollbackContainer finds what it goes back
\* to in the snapshots of this container ID, which is asked for as it is when the
\* daemon knows neither it nor the name.
BeginRollback(t, s) ==
  /\ Requested("rollback")
  /\ op[t].pc = "idle"
  /\ s \in snapshots
  /\ Live(s.id) \/ Named(s.name) = {}
  /\ op' = [op EXCEPT ![t] = [Idle EXCEPT !.kind = "rollback", !.pc = "lock",
                                          !.id = s.id, !.key = s.name, !.snap = s,
                                          !.want = s.digest]]
  /\ UNCHANGED <<daemon, images, store, holder, agent, rec, deleted>>

-----------------------------------------------------------------------------
(* The steps of an operation.                                              *)

At(t, step) == agent = "up" /\ op[t].pc = step

\* The part of an operation between its last look at the container and its return.
Replacing(t) ==
  op[t].pc \in {"save", "stop", "remove", "startOld", "create", "start", "health",
                "discardStop", "discardRemove", "rename"}

\* lockContainer(preSnap.Name)
LockContainer(t) ==
  /\ At(t, "lock")
  /\ Lock(t, op[t].key)
  /\ op' = [op EXCEPT ![t].pc = IF op[t].kind = "rollback" THEN "stop" ELSE "inspect"]
  /\ UNCHANGED <<daemon, images, store, agent, rec, deleted, spent>>

\* The container the operation finds inside the lock: a rollback to an image
\* looks for its successor of the same name if it is gone.
Found(o) ==
  IF Live(o.id) THEN {o.id}
  ELSE IF o.kind = "rollbackTo" THEN Named(o.key) ELSE {}

\* The authoritative inspection. UpdateContainer gives the lock back before it
\* pulls, the other two keep it.
Inspect(t) ==
  /\ At(t, "inspect")
  /\ \E id \in Found(op[t]) : \E s \in {FullSnapshot(id), BlindSnapshot(id)} :
       /\ InspectContainer(id, s)
       /\ op' = [op EXCEPT ![t] = [@ EXCEPT !.pc = "pull", !.id = id, !.snap = s,
                                            !.img = IF op[t].kind = "rollbackTo" THEN op[t].want
                                                    ELSE ResolveCheckRef(ctr[id].ref)]]
  /\ holder' = IF op[t].kind = "update" THEN Released(t) ELSE holder
  /\ UNCHANGED <<daemon, images, store, agent, rec, deleted>>

\* The container is gone, cannot be inspected, or the verifier rejects its image.
InspectRejects(t) ==
  /\ At(t, "inspect")
  /\ op[t].kind = "rollbackTo" => Found(op[t]) = {}
  /\ Return(t)
  /\ UNCHANGED <<daemon, images, store, agent, rec, deleted, spent>>

\* PullImage moves the local tag to what the registry has.
PullTag(t) ==
  /\ At(t, "pull")
  /\ op[t].kind \in {"update", "blueGreen"}
  /\ LET a == op[t].snap.name.app IN tag' = [tag EXCEPT ![a] = registry[a]]
  /\ Goto(t, IF op[t].kind = "update" THEN "relock" ELSE "create")
  /\ UNCHANGED <<daemon, registry, store, agent, rec, deleted, spent>>

\* A pinned image is pulled. tagDigestRef gives it the tag the user picked, or
\* resolveTagForDigestRef replaces the pin by a local tag of the same image: it
\* may be the floating one in both cases.
PullPinned(t) ==
  /\ At(t, "pull")
  /\ op[t].kind = "rollbackTo"
  /\ LET a == op[t].snap.name.app IN
     \E ref \in {op[t].want, FloatingTag} :
       /\ \/ DigestOf(a, ref) = op[t].want /\ UNCHANGED tag
          \/ ref = FloatingTag /\ tag' = [tag EXCEPT ![a] = op[t].want]
       /\ op' = [op EXCEPT ![t].pc = "stop", ![t].img = ref]
  /\ UNCHANGED <<daemon, registry, store, holder, agent, rec, deleted, spent>>

PullFails(t) ==
  /\ At(t, "pull")
  /\ Return(t)
  /\ UNCHANGED <<daemon, images, store, agent, rec, deleted, spent>>

\* Mutant: the lock is not taken again after the pull.
Relock_Forgotten(t) ==
  /\ At(t, "relock")
  /\ op' = [op EXCEPT ![t].pc = "reinspect"]
  /\ UNCHANGED <<daemon, images, store, holder, agent, rec, deleted, spent>>

\* UpdateContainer takes the lock again and looks at the container again.
Relock(t) ==
  /\ At(t, "relock")
  /\ Lock(t, op[t].key)
  /\ op' = [op EXCEPT ![t].pc = "reinspect"]
  /\ UNCHANGED <<daemon, images, store, agent, rec, deleted, spent>>

Reinspect(t) ==
  /\ At(t, "reinspect")
  /\ Live(op[t].id)
  /\ \E s \in {FullSnapshot(op[t].id), BlindSnapshot(op[t].id)} :
       /\ InspectContainer(op[t].id, s)
       /\ op' = [op EXCEPT ![t].pc = "save", ![t].snap = s]
  /\ UNCHANGED <<daemon, images, store, holder, agent, rec, deleted>>

ReinspectFails(t) ==
  /\ At(t, "reinspect")
  /\ Return(t)
  /\ UNCHANGED <<daemon, images, store, agent, rec, deleted, spent>>

\* u.snapshots[containerID] = snapshot; saveSnapshot(containerID, snapshot)
OtherThan(kept, id) == {s \in kept : s.id # id}

\* Mutant: the snapshot stays in memory.
SaveSnapshot_MemoryOnly(t) ==
  /\ At(t, "save")
  /\ snapshots' = OtherThan(snapshots, op[t].snap.id) \cup {op[t].snap}
  /\ Goto(t, "stop")
  /\ UNCHANGED <<daemon, images, disk, agent, rec, deleted, spent>>

SaveSnapshot(t) ==
  /\ At(t, "save")
  /\ LET s == op[t].snap
     IN  /\ snapshots' = OtherThan(snapshots, s.id) \cup {s}
         /\ disk' = OtherThan(disk, s.id) \cup {s}
  /\ Goto(t, "stop")
  /\ UNCHANGED <<daemon, images, agent, rec, deleted, spent>>

\* Opening or writing the file fails, the latter after it was truncated; the
\* error is logged and the operation goes on.
SaveSnapshotFails(t) ==
  /\ DiskFails
  /\ At(t, "save")
  /\ LET s == op[t].snap
     IN  /\ snapshots' = OtherThan(snapshots, s.id) \cup {s}
         /\ disk' \in {disk, OtherThan(disk, s.id)}
  /\ Fault
  /\ Goto(t, "stop")
  /\ UNCHANGED <<daemon, images, agent, rec, deleted>>

\* ContainerStop of the old container.
Stop(t) ==
  /\ At(t, "stop")
  /\ Live(op[t].id)
  /\ IF Running(op[t].id) THEN SetState(op[t].id, "exited") ELSE UNCHANGED ctr
  /\ Goto(t, "remove")
  /\ UNCHANGED <<lastId, images, store, agent, rec, deleted, spent>>

StopFails(t) ==
  /\ At(t, "stop")
  /\ IF Live(op[t].id) THEN Fault ELSE NoFault
  /\ IF op[t].kind = "update" THEN Return(t) ELSE Goto(t, "remove")
  /\ UNCHANGED <<daemon, images, store, agent, rec, deleted>>

\* ContainerRemove of the old container, or it was gone already.
AfterRemove(t) == IF op[t].kind = "blueGreen" THEN "rename" ELSE "create"
Remove(t) ==
  /\ At(t, "remove")
  /\ ~Running(op[t].id)
  /\ IF Live(op[t].id) THEN SetState(op[t].id, "gone") ELSE UNCHANGED ctr
  /\ Goto(t, AfterRemove(t))
  /\ UNCHANGED <<lastId, images, store, agent, rec, deleted, spent>>

\* Only UpdateContainer turns back; the others log the error.
RemoveFails(t) ==
  /\ At(t, "remove")
  /\ Live(op[t].id)
  /\ IF Running(op[t].id) THEN NoFault ELSE Fault
  /\ Goto(t, IF op[t].kind = "update" THEN "startOld" ELSE AfterRemove(t))
  /\ UNCHANGED <<daemon, images, store, agent, rec, deleted>>

\* isNonFatalRemoveErr takes a 409 and "already in progress" for a container that
\* is gone, and the daemon answers so while it still has it: UpdateContainer goes on.
RemoveTakenForGone(t) ==
  /\ At(t, "remove")
  /\ op[t].kind = "update"
  /\ Live(op[t].id)
  /\ spent.faults + spent.blind < MaxFaults
  /\ spent' = [spent EXCEPT !.faults = @ + 1, !.swallowed = @ + 1]
  /\ Goto(t, AfterRemove(t))
  /\ UNCHANGED <<daemon, images, store, agent, rec, deleted>>

\* ContainerStart of the old container, whose error is dropped.
StartOld(t) ==
  /\ At(t, "startOld")
  /\ \/ NoFault /\ IF Live(op[t].id) THEN SetState(op[t].id, "running") ELSE UNCHANGED ctr
     \/ Fault /\ UNCHANGED ctr
  /\ Return(t)
  /\ UNCHANGED <<lastId, images, store, agent, rec, deleted>>

\* Mutant: the old image is asked for by its reference, which the pull has moved.
CreateImage_ByTag(o) ==
  CASE o.kind = "rollback" -> o.snap.ref
    [] o.restoring -> o.snap.ref
    [] OTHER -> o.img

\* RecreateContainer(snapshot, image), RecreateContainerNamed for blue-green: a
\* failed one is tried once more with the old image by update and rollback-to.
CreateName(o) == IF o.kind = "blueGreen" THEN TempName(o.snap.name) ELSE o.snap.name
CreateImage(o) ==
  CASE o.kind = "rollback" -> o.snap.ref
    [] o.restoring /\ o.kind = "update" -> o.snap.digest
    [] o.restoring /\ o.kind = "rollbackTo" -> o.snap.ref
    [] OTHER -> o.img

\* Mutant: nothing is tried with the old image.
CreateFailed_NoRestore(t) == Return(t)

\* Mutant: blue-green goes on without its new container.
CreateFailed_GoesOn(t) == Goto(t, "save")

CreateFailed(t) ==
  IF op[t].kind \in {"update", "rollbackTo"} /\ ~op[t].restoring
  THEN /\ op' = [op EXCEPT ![t] = [@ EXCEPT !.pc = "create", !.newId = 0, !.restoring = TRUE]]
       /\ UNCHANGED holder
  ELSE Return(t)

Create(t) ==
  /\ At(t, "create")
  /\ CreateImage(op[t]) # NoDigest
  /\ NewContainer(CreateName(op[t]), CreateImage(op[t]))
  /\ op' = [op EXCEPT ![t] = [@ EXCEPT !.pc = "start", !.newId = lastId']]
  /\ UNCHANGED <<images, store, holder, agent, rec, deleted, spent>>

CreateFails(t) ==
  /\ At(t, "create")
  /\ IF Named(CreateName(op[t])) # {} \/ CreateImage(op[t]) = NoDigest
     THEN NoFault ELSE Fault
  /\ CreateFailed(t)
  /\ UNCHANGED <<daemon, images, store, agent, rec, deleted>>

\* Networks are connected and the container is started.
Start(t) ==
  /\ At(t, "start")
  /\ Live(op[t].newId)
  /\ SetState(op[t].newId, "running")
  /\ IF op[t].kind = "blueGreen" THEN Goto(t, "health") ELSE Return(t)
  /\ UNCHANGED <<lastId, images, store, agent, rec, deleted, spent>>

\* One of the two fails and the half-made container is removed again, or that
\* fails as well and it stays.
StartFails(t) ==
  /\ At(t, "start")
  /\ IF Live(op[t].newId)
     THEN \/ Fault /\ SetState(op[t].newId, "gone")
          \/ Faults(2) /\ UNCHANGED ctr
     ELSE NoFault /\ UNCHANGED ctr
  /\ CreateFailed(t)
  /\ UNCHANGED <<lastId, images, store, agent, rec, deleted>>

\* Mutant: UpdateContainer is called with the lock still held.
PortConflict_KeepsLock(t) ==
  /\ At(t, "start")
  /\ op[t].kind = "blueGreen"
  /\ Live(op[t].newId)
  /\ SetState(op[t].newId, "gone")
  /\ op' = [op EXCEPT ![t] =
             [Idle EXCEPT !.kind = "update", !.pc = "lock", !.id = op[t].id,
                          !.key = op[t].key]]
  /\ UNCHANGED <<lastId, images, store, holder, agent, rec, deleted, spent>>

\* The new version's ports are taken by the old one: blue-green cleans up, which
\* two calls try, unlocks and becomes an UpdateContainer of the same container.
PortConflict(t) ==
  /\ At(t, "start")
  /\ op[t].kind = "blueGreen"
  /\ Live(op[t].newId)
  /\ \/ NoFault /\ SetState(op[t].newId, "gone")
     \/ Faults(2) /\ UNCHANGED ctr
  /\ holder' = Released(t)
  /\ op' = [op EXCEPT ![t] =
             IF Live(op[t].id)
             THEN [Idle EXCEPT !.kind = "update", !.pc = "lock", !.id = op[t].id,
                               !.key = ctr[op[t].id].name]
             ELSE Idle]
  /\ UNCHANGED <<lastId, images, store, agent, rec, deleted>>

\* waitForHealthy
Healthy(t) ==
  /\ At(t, "health")
  /\ Running(op[t].newId)
  /\ Goto(t, "save")
  /\ UNCHANGED <<daemon, images, store, agent, rec, deleted, spent>>

Unhealthy(t) ==
  /\ At(t, "health")
  /\ Goto(t, "discardStop")
  /\ UNCHANGED <<daemon, images, store, agent, rec, deleted, spent>>

\* The new container is stopped and removed, errors dropped; the old one stays.
DiscardStop(t) ==
  /\ At(t, "discardStop")
  /\ \/ NoFault /\ IF Running(op[t].newId) THEN SetState(op[t].newId, "exited")
                                           ELSE UNCHANGED ctr
     \/ Fault /\ UNCHANGED ctr
  /\ Goto(t, "discardRemove")
  /\ UNCHANGED <<lastId, images, store, agent, rec, deleted>>

DiscardRemove(t) ==
  /\ At(t, "discardRemove")
  /\ \/ NoFault /\ IF Live(op[t].newId) /\ ~Running(op[t].newId)
                   THEN SetState(op[t].newId, "gone") ELSE UNCHANGED ctr
     \/ Fault /\ UNCHANGED ctr
  /\ Return(t)
  /\ UNCHANGED <<lastId, images, store, agent, rec, deleted>>

\* BUG-11: the name must be free; a failed rename is not an error.
Rename(t) ==
  /\ At(t, "rename")
  /\ \/ /\ NoFault
        /\ IF Named(op[t].snap.name) = {} /\ Live(op[t].newId)
           THEN ctr' = [ctr EXCEPT ![op[t].newId].name = op[t].snap.name]
           ELSE UNCHANGED ctr
     \/ Fault /\ UNCHANGED ctr
  /\ Return(t)
  /\ UNCHANGED <<lastId, images, store, agent, rec, deleted>>

-----------------------------------------------------------------------------
(* Container commands of agent/managed.go, which take no lock.             *)

\* CONTAINER_DELETE removes by force. deleteSnapshot removes the file the command's
\* own ID names: none when that is the container's name or the short form of its ID.
ContainerDelete(id) ==
  /\ Requested("delete")
  /\ Live(id)
  /\ SetState(id, "gone")
  /\ deleted' = IF \E t \in Thread : Replacing(t) /\ op[t].snap.name = ctr[id].name
                THEN deleted ELSE deleted \cup {ctr[id].name.app}
  /\ disk' \in {OtherThan(disk, id), disk}
  /\ UNCHANGED <<lastId, images, snapshots, holder, op, agent, rec>>

\* CONTAINER_STOP and CONTAINER_START
ContainerStop(id) ==
  /\ Requested("power")
  /\ Running(id)
  /\ SetState(id, "exited")
  /\ UNCHANGED <<lastId, images, store, holder, op, agent, rec, deleted>>

ContainerStart(id) ==
  /\ Requested("power")
  /\ Live(id)
  /\ ~Running(id)
  /\ SetState(id, "running")
  /\ UNCHANGED <<lastId, images, store, holder, op, agent, rec, deleted>>

\* The publisher pushes a new version under the floating tag.
Publish(a) ==
  /\ registry[a] < MaxDigest
  /\ registry' = [registry EXCEPT ![a] = @ + 1]
  /\ UNCHANGED <<daemon, tag, store, holder, op, agent, rec, deleted, spent>>

-----------------------------------------------------------------------------
(* Crash, restart and RecoverOrphans.                                      *)

Crash ==
  /\ agent # "down"
  /\ spent.crashes < MaxCrashes
  /\ spent' = [spent EXCEPT !.crashes = @ + 1]
  /\ agent' = "down"
  /\ snapshots' = {}
  /\ holder' = [n \in Names |-> None]
  /\ op' = [t \in Thread |-> Idle]
  /\ rec' = NoRec
  /\ UNCHANGED <<daemon, images, disk, deleted>>

\* NewUpdater loads the files; RecoverOrphans runs before any handler can.
Restart ==
  /\ agent = "down"
  /\ agent' = "recovering"
  /\ snapshots' = disk
  /\ rec' = [NoRec EXCEPT !.pc = "list"]
  /\ UNCHANGED <<daemon, images, disk, holder, op, deleted, spent>>

InRecovery(step) == agent = "recovering" /\ rec.pc = step

\* ContainerList, running and stopped.
RecoverList ==
  /\ InRecovery("list")
  /\ LET names == {ctr[i].name : i \in {j \in Id : Live(j)}}
     IN  rec' = [rec EXCEPT !.pc = "temps", !.existing = names,
                            !.todo = {n \in names : n.temp}]
  /\ UNCHANGED <<daemon, images, store, holder, op, agent, deleted, spent>>

RecoverListFails ==
  /\ InRecovery("list")
  /\ Fault
  /\ agent' = "up"
  /\ rec' = NoRec
  /\ UNCHANGED <<daemon, images, store, holder, op, deleted>>

\* First pass: an interrupted blue-green update whose old container survived is
\* undone ...
RecoverTempStop(n) ==
  /\ InRecovery("temps")
  /\ n \in rec.todo
  /\ OriginalName(n) \in rec.existing
  /\ \/ NoFault /\ ctr' = [i \in Id |-> IF i \in Named(n) /\ Running(i)
                                        THEN [ctr[i] EXCEPT !.state = "exited"]
                                        ELSE ctr[i]]
     \/ Fault /\ UNCHANGED ctr
  /\ rec' = [rec EXCEPT !.pc = "tempRemove", !.name = n]
  /\ UNCHANGED <<lastId, images, store, holder, op, agent, deleted>>

\* Mutant: a temporary container that cannot be removed is tried for ever.
RecoverTempRemove_Retries ==
  /\ InRecovery("tempRemove")
  /\ rec' = [rec EXCEPT !.pc = "temps", !.name = None]
  /\ UNCHANGED <<daemon, images, store, holder, op, agent, deleted, spent>>

RecoverTempRemove ==
  /\ InRecovery("tempRemove")
  /\ \/ NoFault /\ ctr' = [i \in Id |-> IF i \in Named(rec.name) /\ ~Running(i)
                                        THEN [ctr[i] EXCEPT !.state = "gone"]
                                        ELSE ctr[i]]
     \/ Fault /\ UNCHANGED ctr
  /\ rec' = [rec EXCEPT !.pc = "temps", !.name = None, !.todo = @ \ {rec.name}]
  /\ UNCHANGED <<lastId, images, store, holder, op, agent, deleted>>

\* Mutant: the interrupted rename is left as it is.
RecoverTempRename_Left(n) ==
  /\ InRecovery("temps")
  /\ n \in rec.todo
  /\ OriginalName(n) \notin rec.existing
  /\ rec' = [rec EXCEPT !.todo = @ \ {n}]
  /\ UNCHANGED <<daemon, images, store, holder, op, agent, deleted, spent>>

\* ... and one whose old container is gone is completed.
RecoverTempRename(n) ==
  /\ InRecovery("temps")
  /\ n \in rec.todo
  /\ OriginalName(n) \notin rec.existing
  /\ \/ /\ NoFault
        /\ ctr' = [i \in Id |-> IF i \in Named(n)
                                THEN [ctr[i] EXCEPT !.name = OriginalName(n)]
                                ELSE ctr[i]]
        /\ rec' = [rec EXCEPT !.todo = @ \ {n}, !.existing = @ \cup {OriginalName(n)}]
     \/ Fault /\ UNCHANGED ctr /\ rec' = [rec EXCEPT !.todo = @ \ {n}]
  /\ UNCHANGED <<lastId, images, store, holder, op, agent, deleted>>

RecoverTempsDone ==
  /\ InRecovery("temps")
  /\ rec.todo = {}
  /\ rec' = [rec EXCEPT !.pc = "snapshots"]
  /\ UNCHANGED <<daemon, images, store, holder, op, agent, deleted, spent>>

\* Second pass: Go's map order picks, of several snapshots of one name, the
\* one that counts. A name that exists needs no recovery.
RecoverSkip(s) ==
  /\ InRecovery("snapshots")
  /\ s \in snapshots
  /\ s.name \notin rec.seen
  /\ s.name \in rec.existing
  /\ rec' = [rec EXCEPT !.seen = @ \cup {s.name}]
  /\ UNCHANGED <<daemon, images, store, holder, op, agent, deleted, spent>>

\* DS-03: a missing one is recreated from the digest it had, if that is known.
RecoveryRef(s) == IF s.digest = NoDigest THEN s.ref ELSE s.digest
RecoverCreate(s) ==
  /\ InRecovery("snapshots")
  /\ s \in snapshots
  /\ s.name \notin rec.seen \cup rec.existing
  /\ NewContainer(s.name, RecoveryRef(s))
  /\ rec' = [rec EXCEPT !.pc = "start", !.seen = @ \cup {s.name}, !.newId = lastId']
  /\ UNCHANGED <<images, store, holder, op, agent, deleted, spent>>

RecoverCreateFails(s) ==
  /\ InRecovery("snapshots")
  /\ s \in snapshots
  /\ s.name \notin rec.seen \cup rec.existing
  /\ IF Named(s.name) # {} THEN NoFault ELSE Fault
  /\ rec' = [rec EXCEPT !.seen = @ \cup {s.name}]
  /\ UNCHANGED <<daemon, images, store, holder, op, agent, deleted>>

RecoverStart ==
  /\ InRecovery("start")
  /\ \/ NoFault /\ SetState(rec.newId, "running")
     \/ Fault /\ SetState(rec.newId, "gone")
     \/ Faults(2) /\ UNCHANGED ctr
  /\ rec' = [rec EXCEPT !.pc = "snapshots", !.newId = 0]
  /\ UNCHANGED <<lastId, images, store, holder, op, agent, deleted>>

RecoverDone ==
  /\ InRecovery("snapshots")
  /\ \A s \in snapshots : s.name \in rec.seen
  /\ agent' = "up"
  /\ rec' = NoRec
  /\ UNCHANGED <<daemon, images, store, holder, op, deleted, spent>>

-----------------------------------------------------------------------------
OpStep(t) ==
  \/ Inspect(t) \/ InspectRejects(t)
  \/ PullTag(t) \/ PullPinned(t) \/ PullFails(t)
  \/ Reinspect(t) \/ ReinspectFails(t)
  \/ SaveSnapshot(t) \/ SaveSnapshotFails(t)
  \/ Stop(t) \/ StopFails(t)
  \/ Remove(t) \/ RemoveFails(t) \/ RemoveTakenForGone(t) \/ StartOld(t)
  \/ Create(t) \/ CreateFails(t)
  \/ Start(t) \/ StartFails(t) \/ PortConflict(t)
  \/ Healthy(t) \/ Unhealthy(t) \/ DiscardStop(t) \/ DiscardRemove(t)
  \/ Rename(t)

Recover ==
  \/ RecoverList \/ RecoverListFails
  \/ \E n \in Names : RecoverTempStop(n) \/ RecoverTempRename(n)
  \/ RecoverTempRemove \/ RecoverTempsDone
  \/ \E s \in snapshots : RecoverSkip(s) \/ RecoverCreate(s) \/ RecoverCreateFails(s)
  \/ RecoverStart \/ RecoverDone

Command(id) == ContainerDelete(id) \/ ContainerStop(id) \/ ContainerStart(id)

\* Nothing is going on and nothing needs to.
Rest == agent = "up" /\ (\A t \in Thread : op[t].pc = "idle") /\ UNCHANGED vars

Next ==
  \/ \E t \in Thread :
       \/ \E k \in Kind, id \in Id, target \in Digest : Begin(t, k, id, target)
       \/ \E s \in snapshots : BeginRollback(t, s)
       \/ LockContainer(t) \/ Relock(t)
       \/ OpStep(t)
  \/ \E id \in Id : Command(id)
  \/ \E a \in App : Publish(a)
  \/ Crash \/ Restart \/ Recover
  \/ Rest

Spec == Init /\ [][Next]_vars

\* Every call to the daemon returns (each has a context with a deadline or is
\* answered), lockContainer serves its longest waiter (LockTable), and a
\* container restart policy brings the agent back.
Fairness ==
  /\ \A t \in Thread :
       /\ WF_vars(OpStep(t))
       /\ SF_vars(LockContainer(t))
       /\ SF_vars(Relock(t))
  /\ WF_vars(Restart)
  /\ WF_vars(Recover)

FairSpec == Spec /\ Fairness

-----------------------------------------------------------------------------
(* What the engine promises.                                               *)

HasContainer(a) == \E id \in Id : Live(id) /\ ctr[id].name.app = a
Serving(a) == \E id \in Id : Running(id) /\ ctr[id].name.app = a
AllIdle == agent = "up" /\ \A t \in Thread : op[t].pc = "idle"

\* Update, rollback and blue-green never replace one app's container at once,
\* though each found the name of its lock before it had any lock, and an update
\* gave it back for the pull.
ExclusiveReplacement ==
  \A t, u \in Thread :
    Replacing(t) /\ Replacing(u) /\ op[t].snap.name = op[u].snap.name => t = u

\* The last container of an app goes only when a file on disk can bring it back,
\* whatever the agent does, or dies doing, next: that very image, or what its
\* reference names if an inspection has found no digest. A half-made container
\* that never ran needs a file for its name only.
LastRemoved(id, a) ==
  Live(id) /\ ctr[id].name.app = a /\ ctr'[id].state = "gone" /\ ~HasContainer(a)'
HasFile(id) ==
  \/ FullSnapshot(id) \in disk'
  \/ spent.blind > 0 /\ BlindSnapshot(id) \in disk'
  \/ ctr[id].state = "created" /\ \E s \in disk' : s.name = ctr[id].name
RemovalIsRecoverable ==
  [][\A id \in Id, a \in App : LastRemoved(id, a) /\ a \notin deleted' => HasFile(id)]_vars

\* One thing that goes wrong, a daemon call that fails or an image without a digest,
\* at any point of any updates, leaves every app with a running container once the
\* updates have returned; a refused removal that is taken for "already gone" may not.
SingleFaultKeepsService ==
  AllIdle /\ spent.faults + spent.blind <= 1 /\ spent.swallowed = 0 /\ spent.crashes = 0 =>
    \A a \in App \ deleted : Serving(a)

\* An update that cannot create or start the new version brings back the one that
\* ran before, though the pull has moved the tag it was created from.
FailedUpdateKeepsVersion ==
  [][\A t \in Thread :
       At(t, "start") /\ op[t].kind = "update" /\ op[t].restoring
       /\ op'[t].pc = "idle" /\ ctr'[op[t].newId].state = "running" =>
         ctr'[op[t].newId].digest = ctr[op[t].id].digest]_vars

\* After crashes anywhere, in RecoverOrphans too, and as long as no daemon call
\* fails, an app is left with one container and that has its own name.
SettlesUnderOwnName ==
  AllIdle /\ spent.faults = 0 =>
    \A a \in App \ deleted :
      \E id \in Named(Own(a)) : \A i \in Id : Live(i) /\ ctr[i].name.app = a => i = id

\* A blue-green update never takes an app out of service: no step of its own
\* ends the last running container, except one that is on trial.
OnTrial(t, id) == id = op[t].newId /\ op[t].pc \in {"health", "discardStop", "discardRemove"}
ServedBeside(t, a) ==
  \E id \in Id : Running(id) /\ ctr[id].name.app = a /\ ~OnTrial(t, id)
BlueGreenNeverDark ==
  [][\A t \in Thread :
       op[t].kind = "blueGreen" /\ op'[t] # op[t] /\ agent' = "up" =>
         \A a \in App : ServedBeside(t, a) => Serving(a)']_vars

\* A rollback that reports success runs the version it was asked to go back to.
RollbackReachesTarget ==
  [][\A t \in Thread :
       At(t, "start") /\ op[t].kind \in {"rollback", "rollbackTo"} /\ ~op[t].restoring
       /\ op[t].want # NoDigest /\ op'[t].pc = "idle" /\ ctr'[op[t].newId].state = "running" =>
         ctr'[op[t].newId].digest = op[t].want]_vars

\* RecoverOrphans brings back the newest version there is a snapshot of.
RecoversLatestSnapshot ==
  [][\A s \in disk :
       InRecovery("snapshots") /\ rec.newId # rec'.newId /\ s.name = ctr'[lastId'].name =>
         \E r \in disk : r.id >= s.id /\ r.name = s.name /\ r.digest = ctr'[lastId'].digest]_vars

\* Every operation returns and gives its lock back; the agent gets through its
\* recovery.
OperationsReturn == \A t \in Thread : (op[t].pc # "idle") ~> (op[t].pc = "idle")
RecoveryEnds == (agent # "up") ~> (agent = "up")
=============================================================================
