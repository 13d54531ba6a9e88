------------------------------ MODULE UpdateOrder ------------------------------
(***************************************************************************)
(* The order in which the containers of one update are recreated:          *)
(* scheduler/orchestrator.ts computes batches from the rows of the         *)
(* containers table and the agent goes through them (UPDATE and            *)
(* UPDATE_SEQUENTIAL of managed.go).                                       *)
(*                                                                         *)
(* topologicalSort is a depth-first search; its recursion is a stack here, *)
(* and a step is a call or a return. Rows come in any order (the SELECT    *)
(* has no ORDER BY), and so do the names of a depends_on list.             *)
(***************************************************************************)
EXTENDS Integers, Sequences, FiniteSets, SequencesExt

CONSTANTS
  Target,           \* the containers of the agent, by name
  Dependency,       \* names that depends_on may have
  Priority,
  DefaultPriority,
  LabelDependsOn,   \* the values a depends_on label may have; {} for no label
  NoSelf            \* the agent runs in none of the containers

ASSUME OrderAssumption ==
  /\ IsFiniteSet(Target)
  /\ Priority \subseteq Nat
  /\ DefaultPriority \in Priority
  /\ LabelDependsOn \subseteq SUBSET Target
  /\ NoSelf \notin Target

VARIABLES
  settings,       \* update_priority, depends_on and label_depends_on of the rows
  selfContainer,  \* updater.selfContainerID
  sorting,        \* topologicalSort
  sequence,       \* the batches sent to the agent, and where it is in them
  recreated       \* the containers the agent has dealt with, in order

orderVars == <<settings, selfContainer, sorting, sequence, recreated>>

-----------------------------------------------------------------------------
Call == [container : Target, deps : SUBSET Dependency]

\* The batches by their priority; a priority without a batch has an empty one.
Batches == [Priority -> Seq(Target)]
NoBatches == [p \in Priority |-> <<>>]

\* Nothing to sort, and nothing sent.
Unsorted == [pc |-> "idle", targets |-> {}, remaining |-> {}, visited |-> {},
             stack |-> <<>>, batches |-> NoBatches]
NothingSent == [batches |-> NoBatches, due |-> {}, position |-> 0, selfPending |-> FALSE]

\* The batches go in ascending priority.
IsNext(p) == p \in sequence.due /\ \A q \in sequence.due : p <= q

OrderTypeOK ==
  /\ settings \in [Target -> [priority : Priority, dependsOn : SUBSET Dependency,
                              labelDependsOn : LabelDependsOn]]
  /\ selfContainer \in Target \cup {NoSelf}
  /\ sorting \in [pc : {"idle", "sorting", "sent"}, targets : SUBSET Target,
                  remaining : SUBSET Target, visited : SUBSET Target,
                  stack : Seq(Call), batches : Batches]
  /\ sorting.remaining \cup sorting.visited \subseteq sorting.targets
  /\ sequence \in [batches : Batches, due : SUBSET Priority, position : Nat,
                   selfPending : BOOLEAN]
  /\ \A p \in sequence.due : IsNext(p) => sequence.position <= Len(sequence.batches[p])
  /\ recreated \in Seq(Target)

\* What PATCH orchestration and the heartbeats have left in the table so far. A container may
\* name any other one, itself included.
OrderInit ==
  /\ settings \in [Target -> [priority : Priority, dependsOn : SUBSET Dependency,
                              labelDependsOn : LabelDependsOn]]
  /\ selfContainer \in Target \cup {NoSelf}
  /\ sorting = Unsorted
  /\ sequence = NothingSent
  /\ recreated = <<>>

-----------------------------------------------------------------------------
(* PATCH /api/agents/:id/containers/:containerId/orchestration.             *)

\* The row's form has no field for what a label declares; the save leaves it as it is.
CanSend(c, dependsOn) ==
  settings[c].labelDependsOn # {} => dependsOn = settings[c].dependsOn

\* An update under way has read its rows.
UpdateContainerOrchestration(c, priority, dependsOn) ==
  /\ sorting.pc = "idle"
  /\ CanSend(c, dependsOn)
  /\ settings' = [settings EXCEPT ![c].priority = priority, ![c].dependsOn = dependsOn]
  /\ UNCHANGED <<selfContainer, sorting, sequence, recreated>>

-----------------------------------------------------------------------------
(* resolveUpdateBatches and topologicalSort.                                *)

\* The labels the code looks for: these are the columns the UI writes.
HasLabels(targets) ==
  \E c \in targets : settings[c].priority # DefaultPriority \/ settings[c].dependsOn # {}

\* Sends the batches: one as UPDATE, several as UPDATE_SEQUENTIAL. Both leave the agent's
\* own container for the end, and an UPDATE waits for nothing.
Sent(targets, batches) ==
  sequence' = [batches |-> batches, due |-> {p \in Priority : batches[p] # <<>>}, position |-> 0,
               selfPending |-> selfContainer \in targets]

\* POST /update with the containers to update.
ResolveUnordered(targets) ==
  /\ sorting.pc = "idle"
  /\ targets # {} /\ ~HasLabels(targets)
  /\ \E order \in SetToSeqs(targets) :
       Sent(targets, [NoBatches EXCEPT ![DefaultPriority] = order])
  /\ sorting' = [sorting EXCEPT !.pc = "sent", !.targets = targets]
  /\ UNCHANGED <<settings, selfContainer, recreated>>

ResolveOrdered(targets) ==
  /\ sorting.pc = "idle"
  /\ HasLabels(targets)
  /\ sorting' = [sorting EXCEPT !.pc = "sorting", !.targets = targets, !.remaining = targets]
  /\ UNCHANGED <<settings, selfContainer, sequence, recreated>>

Visit(c) == Append(sorting.stack, [container |-> c, deps |-> settings[c].dependsOn])

\* The loop over the containers by priority. One that a dependency led to is skipped.
VisitTarget(c) ==
  /\ sorting.pc = "sorting" /\ sorting.stack = <<>>
  /\ c \in sorting.remaining
  /\ \A d \in sorting.remaining : settings[c].priority <= settings[d].priority
  /\ sorting' =
       IF c \in sorting.visited
       THEN [sorting EXCEPT !.remaining = @ \ {c}]
       ELSE [sorting EXCEPT !.remaining = @ \ {c}, !.visited = @ \cup {c}, !.stack = Visit(c)]
  /\ UNCHANGED <<settings, selfContainer, sequence, recreated>>

Top == Last(sorting.stack)
OpenDeps == (Top.deps \cap sorting.targets) \ sorting.visited

\* Dependencies first, those that are not updated and those seen before excepted.
VisitDependency(d) ==
  /\ sorting.stack # <<>>
  /\ d \in OpenDeps
  /\ sorting' = [sorting EXCEPT !.visited = @ \cup {d}, !.stack = Visit(d)]
  /\ UNCHANGED <<settings, selfContainer, sequence, recreated>>

\* Where a container ends up: the result is grouped by priority in its order, so it is in
\* its priority's batch, behind those of the batch the sort has returned from.
PutLast(c) == [sorting.batches EXCEPT ![settings[c].priority] = Append(@, c)]

\* Mutant: a container enters the result before its dependencies.
ReturnFromVisit_Early ==
  /\ sorting.stack # <<>>
  /\ sorting' = [sorting EXCEPT !.stack = Front(@), !.batches = PutLast(Top.container)]
  /\ UNCHANGED <<settings, selfContainer, sequence, recreated>>

ReturnFromVisit ==
  /\ sorting.stack # <<>>
  /\ OpenDeps = {}
  /\ sorting' = [sorting EXCEPT !.stack = Front(@), !.batches = PutLast(Top.container)]
  /\ UNCHANGED <<settings, selfContainer, sequence, recreated>>

\* executeOrchestratedUpdate.
SendBatches ==
  /\ sorting.pc = "sorting" /\ sorting.stack = <<>> /\ sorting.remaining = {}
  /\ Sent(sorting.targets, sorting.batches)
  /\ sorting' = [sorting EXCEPT !.pc = "sent"]
  /\ UNCHANGED <<settings, selfContainer, recreated>>

-----------------------------------------------------------------------------
(* The agent.                                                               *)

SequenceRuns == sorting.pc = "sent" /\ sequence.due # {}
BatchDone(p) == sequence.position = Len(sequence.batches[p])

\* UpdateContainer, or BlueGreenUpdate; that one fails does not stop the others.
RecreateNext(p) ==
  /\ SequenceRuns /\ IsNext(p) /\ ~BatchDone(p)
  /\ LET c == sequence.batches[p][sequence.position + 1] IN
     recreated' = IF c = selfContainer THEN recreated ELSE Append(recreated, c)
  /\ sequence' = [sequence EXCEPT !.position = @ + 1]
  /\ UNCHANGED <<settings, selfContainer, sorting>>

\* Mutant: the index into the batch goes on where it was.
NextBatch_Resumes(p) ==
  /\ SequenceRuns /\ IsNext(p) /\ BatchDone(p)
  /\ sequence' = [sequence EXCEPT !.due = @ \ {p}]
  /\ UNCHANGED <<settings, selfContainer, sorting, recreated>>

\* The wait is a timer: the health of the batch is not looked at.
NextBatch(p) ==
  /\ SequenceRuns /\ IsNext(p) /\ BatchDone(p)
  /\ sequence' = [sequence EXCEPT !.due = @ \ {p}, !.position = 0]
  /\ UNCHANGED <<settings, selfContainer, sorting, recreated>>

\* SelfUpdate, after all the others.
RecreateSelf ==
  /\ sorting.pc = "sent" /\ ~SequenceRuns
  /\ sequence.selfPending
  /\ sequence' = [sequence EXCEPT !.selfPending = FALSE]
  /\ recreated' = Append(recreated, selfContainer)
  /\ UNCHANGED <<settings, selfContainer, sorting>>

\* The 30 minutes of UPDATE_SEQUENTIAL are over while it waits between batches: after
\* each but the last.
SequenceTimesOut(p) ==
  /\ SequenceRuns /\ IsNext(p) /\ BatchDone(p) /\ sequence.due # {p}
  /\ sequence' = [sequence EXCEPT !.due = {}, !.selfPending = FALSE]
  /\ UNCHANGED <<settings, selfContainer, sorting, recreated>>

\* The last UPDATE_RESULT: another update may be asked for.
UpdateEnds ==
  /\ sorting.pc = "sent" /\ ~SequenceRuns /\ ~sequence.selfPending
  /\ sorting' = Unsorted
  /\ sequence' = NothingSent
  /\ recreated' = <<>>
  /\ UNCHANGED <<settings, selfContainer>>

OrderNext ==
  \/ \E c \in Target, p \in Priority, deps \in SUBSET Dependency :
       UpdateContainerOrchestration(c, p, deps)
  \/ \E targets \in SUBSET Target : ResolveUnordered(targets) \/ ResolveOrdered(targets)
  \/ \E c \in Target : VisitTarget(c) \/ VisitDependency(c)
  \/ ReturnFromVisit \/ SendBatches
  \/ \E p \in Priority : RecreateNext(p) \/ NextBatch(p) \/ SequenceTimesOut(p)
  \/ RecreateSelf \/ UpdateEnds

OrderSpec == OrderInit /\ [][OrderNext]_orderVars

-----------------------------------------------------------------------------
\* What c depends on among the containers of the update, directly or not: what is in each
\* set that has its dependencies and those of each of its members.
UpdatedDeps(c) == settings[c].dependsOn \cap sorting.targets
Closed(S) == \A e \in S : UpdatedDeps(e) \subseteq S
Reaches(c) ==
  {e \in sorting.targets :
     \A S \in SUBSET sorting.targets : Closed(S) /\ UpdatedDeps(c) \subseteq S => e \in S}

Before(d, c) ==
  \A i, j \in DOMAIN recreated : recreated[i] = c /\ recreated[j] = d => j < i

\* A container is recreated once, and after each container it depends on that is updated
\* too: unless the two depend on each other, the dependency has the larger priority, or one
\* is the agent's own (topologicalSort, the grouping of resolveUpdateBatches and the loops
\* of UPDATE_SEQUENTIAL together).
UpdatesInOrder ==
  /\ \A i, j \in DOMAIN recreated : recreated[i] = recreated[j] => i = j
  /\ \A i \in DOMAIN recreated : LET c == recreated[i] IN
       \A d \in UpdatedDeps(c) :
         \/ c \in Reaches(d) \/ selfContainer \in {c, d}
         \/ settings[d].priority > settings[c].priority
         \/ d \in ToSet(recreated) /\ Before(d, c)

\* The label wins over what the UI has set.
Declared(c) ==
  IF settings[c].labelDependsOn # {} THEN settings[c].labelDependsOn ELSE settings[c].dependsOn

\* A container waits for those it declares to depend on, by its label when it has one
\* (README: "Docker label values always win"; resolveUpdateBatches reads the other columns).
LabelledDependenciesFirst ==
  \A i \in DOMAIN recreated :
    \A d \in Declared(recreated[i]) \cap sorting.targets :
      \/ recreated[i] \in Declared(d) \/ selfContainer \in {d, recreated[i]}
      \/ d \in ToSet(recreated) /\ Before(d, recreated[i])
=============================================================================
