--------------------------- MODULE AutomationProofs ---------------------------
(***************************************************************************)
(* Proofs about what the controller and the agent do of their own accord.  *)
(* Notifications: timers come and go with their batches, and an available  *)
(* update is announced once, for any agents, containers, channels and      *)
(* results. Updates: what a container depends on is recreated before it,   *)
(* for any containers, priorities and dependencies. Rollbacks: an update   *)
(* is undone automatically once at most, for any containers and requests.  *)
(***************************************************************************)
EXTENDS SessionBatcher, UpdateOrder, HealthMonitor, FiniteSetTheorems, SequenceTheorems, TLAPS

\* What is collected is not reported yet.
CollectedApart == Collected \cap OnTheirWay = {}
Announcing == AnnouncedOnce /\ CollectedApart
BatcherIInv == BatcherTypeOK /\ TimersBelongToBatches /\ Announcing

-----------------------------------------------------------------------------
(* What Send and Replace leave of the dispatches.                            *)

LEMMA BatchesTyped ==
  ASSUME BatcherTypeOK
  PROVE  Announced \in SUBSET Container /\ Collected \in SUBSET UpdateOutcome
BY DEF BatcherTypeOK, Announced, Collected, CheckBatch

\* Dispatches stay apart when sets that are apart from them and from each other are sent.
LEMMA SentApart ==
  ASSUME NEW sets, Send(sets),
         \A d, e \in dispatches : d.items \cap e.items = {} \/ d = e,
         \A s, t \in sets : s \cap t = {} \/ s = t,
         \A s \in sets : s \cap OnTheirWay = {}
  PROVE  /\ \A d, e \in dispatches' : d.items \cap e.items = {} \/ d = e
         /\ OnTheirWay' = OnTheirWay \cup UNION sets
<1> DEFINE new == {[items |-> s, todo |-> Channel, sending |-> {}] : s \in sets \ {{}}}
<1>1. dispatches' = dispatches \cup new
  BY DEF Send
<1>2. \A d \in new : d.items \in sets /\ d = [items |-> d.items, todo |-> Channel, sending |-> {}]
  OBVIOUS
<1>3. ASSUME NEW s \in sets \ {{}} PROVE \E d \in new : d.items = s
  <2>1. [items |-> s, todo |-> Channel, sending |-> {}] \in new
    OBVIOUS
  <2> QED BY <2>1
<1> HIDE DEF new
<1>4. \A d \in dispatches, e \in new : d.items \cap e.items = {}
  BY <1>2 DEF OnTheirWay
<1>5. \A d, e \in new : d.items \cap e.items = {} \/ d = e
  BY <1>2
<1>6. \A d, e \in dispatches' : d.items \cap e.items = {} \/ d = e
  BY <1>1, <1>4, <1>5
<1>7. OnTheirWay' = OnTheirWay \cup UNION sets
  <2>1. \A i : i \in OnTheirWay' <=> \E d \in dispatches' : i \in d.items
    BY DEF OnTheirWay
  <2>2. \A i : i \in OnTheirWay <=> \E d \in dispatches : i \in d.items
    BY DEF OnTheirWay
  <2>3. \A i : i \in UNION sets <=> \E d \in new : i \in d.items
    BY <1>2, <1>3
  <2> QED BY <1>1, <2>1, <2>2, <2>3
<1> QED BY <1>6, <1>7

LEMMA SentTyped ==
  ASSUME NEW sets \in SUBSET SUBSET Items, Send(sets), dispatches \in SUBSET Dispatch
  PROVE  dispatches' \in SUBSET Dispatch
BY DEF Send, Dispatch

\* A dispatch that goes on is about the same items.
LEMMA ReplacedApart ==
  ASSUME NEW d \in dispatches, NEW e, e.items = d.items, Replace(d, e),
         \A x, y \in dispatches : x.items \cap y.items = {} \/ x = y
  PROVE  /\ \A x, y \in dispatches' : x.items \cap y.items = {} \/ x = y
         /\ OnTheirWay' = OnTheirWay
<1>1. dispatches' = (dispatches \ {d}) \cup {e}
  BY DEF Replace
<1>2. OnTheirWay' = OnTheirWay
  <2>1. \A i : i \in OnTheirWay' <=> \E x \in dispatches' : i \in x.items
    BY DEF OnTheirWay
  <2>2. \A i : i \in OnTheirWay <=> \E x \in dispatches : i \in x.items
    BY DEF OnTheirWay
  <2> QED BY <1>1, <2>1, <2>2
<1> QED BY <1>1, <1>2

\* Ending a dispatch takes away what it was about, and nothing else.
LEMMA FewerApart ==
  ASSUME dispatches' \subseteq dispatches,
         \A x, y \in dispatches : x.items \cap y.items = {} \/ x = y
  PROVE  /\ \A x, y \in dispatches' : x.items \cap y.items = {} \/ x = y
         /\ OnTheirWay' \subseteq OnTheirWay
BY DEF OnTheirWay

-----------------------------------------------------------------------------
(* Batches.                                                                  *)

LEMMA NewBatchTyped ==
  ASSUME BatcherTypeOK, NEW a \in Reporter, NEW cs \in SUBSET Container,
         DispatchCheckResults(a, cs)
  PROVE  /\ checkBatch' \in CheckBatch \cup {NoBatch}
         /\ notifiedUpdates' = notifiedUpdates \cup cs
         /\ \/ /\ Send({Announced \cup NewContainers(cs)})
               /\ checkBatch # NoBatch /\ checkBatch' = NoBatch
               /\ checkTimers' = checkTimers - 1
            \/ /\ UNCHANGED dispatches
               /\ checkTimers' = IF checkBatch = NoBatch THEN checkTimers + 1 ELSE checkTimers
               /\ checkBatch' # NoBatch
               /\ checkBatch'.announced = Announced \cup NewContainers(cs)
<1> DEFINE Batch0 == IF checkBatch # NoBatch THEN checkBatch
                    ELSE [expected |-> 0, received |-> {}, announced |-> {}]
           Batch1 == [Batch0 EXCEPT !.received = @ \cup {a},
                                  !.announced = @ \cup NewContainers(cs)]
<1>1. Batch0 \in CheckBatch /\ Batch0.announced = Announced
  <2>1. Cardinality(Reporter) \in Nat
    BY FS_CardinalityType, BatcherAssumption
  <2> QED BY <2>1 DEF BatcherTypeOK, CheckBatch, Announced
<1>2. PICK new : new = Batch1
  OBVIOUS
<1>3. /\ new \in CheckBatch /\ new.announced = Announced \cup NewContainers(cs)
      /\ checkBatch = NoBatch => new.expected = 0
  <2>1. NewContainers(cs) \in SUBSET Container
    BY DEF NewContainers
  <2>2. PICK old : old = Batch0
    OBVIOUS
  <2>3. new = [old EXCEPT !.received = @ \cup {a}, !.announced = @ \cup NewContainers(cs)]
    BY <1>2, <2>2
  <2>4. /\ old \in CheckBatch /\ old.announced = Announced
        /\ checkBatch = NoBatch => old.expected = 0
    BY <1>1, <2>2
  <2> HIDE DEF Batch0
  <2> QED BY <2>1, <2>3, <2>4 DEF CheckBatch
<1>4. new # NoBatch
  BY <1>3, NoBatchAssumption
<1>5. /\ notifiedUpdates' = notifiedUpdates \cup cs
      /\ \/ /\ Send({new.announced}) /\ new.expected > 0
            /\ checkBatch' = NoBatch /\ checkTimers' = checkTimers - 1
         \/ /\ UNCHANGED dispatches /\ checkBatch' = new
            /\ checkTimers' = IF checkBatch = NoBatch THEN checkTimers + 1 ELSE checkTimers
  BY <1>2 DEF DispatchCheckResults
<1> QED BY <1>3, <1>4, <1>5

\* Delivery of notifications leaves the batches alone.
LEMMA OthersKeepBatches ==
  ASSUME \/ \E d \in dispatches :
              \/ NoChannels(d) \/ ChannelDone(d) \/ DispatchReturns(d)
              \/ \E ch \in Channel : TryChannel(d, ch)
         \/ \E ch \in Channel : CoolsDown(ch)
  PROVE  UNCHANGED batches
BY DEF NoChannels, ChannelDone, DispatchReturns, TryChannel, CoolsDown, UNCHANGEDButDispatches

-----------------------------------------------------------------------------
(* Steps.                                                                    *)

LEMMA TimersStep == BatcherIInv /\ [BatcherNext]_batcherVars => TimersBelongToBatches'
<1> SUFFICES ASSUME BatcherIInv, [BatcherNext]_batcherVars PROVE TimersBelongToBatches'
  OBVIOUS
<1> USE DEF BatcherIInv, TimersBelongToBatches
<1>1. ASSUME NEW r \in UpdateOutcome, AddUpdateResult(r) PROVE TimersBelongToBatches'
  <2>1. updateBatch' # NoBatch
    <3>1. Collected \cup {r} \in SUBSET UpdateOutcome
      BY BatchesTyped
    <3> QED BY <1>1, <3>1, NoBatchAssumption DEF AddUpdateResult
  <2> QED BY <1>1, <2>1 DEF AddUpdateResult
<1>2. CASE MaxTimerFires
  BY <1>2 DEF MaxTimerFires, FlushUpdateBatch
<1>3. CASE WindowTimerFires
  BY <1>3 DEF WindowTimerFires, FlushUpdateBatch
<1>4. CASE CheckTimerFires
  BY <1>4 DEF CheckTimerFires
<1>5. ASSUME NEW n \in 1..Cardinality(Reporter), CheckAll(n) PROVE TimersBelongToBatches'
  <2>1. [expected |-> n, received |-> {}, announced |-> {}] \in CheckBatch
    BY FS_CardinalityType, BatcherAssumption DEF CheckBatch
  <2>2. checkBatch' # NoBatch
    BY <1>5, <2>1, NoBatchAssumption DEF CheckAll, ExpectCheckResults
  <2> QED BY <1>5, <2>2 DEF CheckAll, ExpectCheckResults
<1>6. ASSUME NEW a \in Reporter, NEW cs \in SUBSET Container, DispatchCheckResults(a, cs)
      PROVE  TimersBelongToBatches'
  <2>1. UNCHANGED <<updateBatch, windowTimers, maxTimers>>
    BY <1>6 DEF DispatchCheckResults
  <2>2. \/ checkBatch # NoBatch /\ checkBatch' = NoBatch /\ checkTimers' = checkTimers - 1
        \/ /\ checkBatch' # NoBatch
           /\ checkTimers' = IF checkBatch = NoBatch THEN checkTimers + 1 ELSE checkTimers
    BY <1>6, NewBatchTyped
  <2> QED BY <2>1, <2>2
<1>7. CASE UNCHANGED batches
  BY <1>7 DEF batches
<1>8. CASE Shutdown
  BY <1>8 DEF Shutdown
<1>9. CASE ControllerStarts
  BY <1>9 DEF ControllerStarts
<1>10. ASSUME NEW c \in Container, ForgetNotified(c) PROVE TimersBelongToBatches'
  BY <1>10 DEF ForgetNotified
<1> QED BY <1>1, <1>2, <1>3, <1>4, <1>5, <1>6, <1>7, <1>8, <1>9, <1>10, OthersKeepBatches
        DEF BatcherNext, batcherVars

LEMMA TypeStep == BatcherIInv /\ [BatcherNext]_batcherVars => BatcherTypeOK'
<1> SUFFICES ASSUME BatcherIInv, [BatcherNext]_batcherVars PROVE BatcherTypeOK'
  OBVIOUS
<1>a. /\ Announced \in SUBSET Container /\ Collected \in SUBSET UpdateOutcome
      /\ \A c, o \in SUBSET Items : {c, o} \in SUBSET SUBSET Items
      /\ dispatches \in SUBSET Dispatch
  BY BatchesTyped DEF BatcherIInv, BatcherTypeOK
<1>t. {checkTimers', windowTimers', maxTimers'} \subseteq Nat
  BY TimersStep DEF TimersBelongToBatches
<1> USE DEF BatcherIInv, BatcherTypeOK
<1>f. /\ {Collected \ FailedOutcome, Collected \cap FailedOutcome} \in SUBSET SUBSET Items
      /\ {Announced} \in SUBSET SUBSET Items
      /\ {Announced, Collected \ FailedOutcome, Collected \cap FailedOutcome}
           \in SUBSET SUBSET Items
  BY <1>a DEF Items
<1>1. ASSUME NEW r \in UpdateOutcome, AddUpdateResult(r) PROVE BatcherTypeOK'
  BY <1>1, <1>a DEF AddUpdateResult
<1>2. CASE MaxTimerFires
  <2>1. dispatches' \in SUBSET Dispatch
    BY <1>2, <1>a, <1>f, SentTyped DEF MaxTimerFires, FlushUpdateBatch
  <2> QED BY <1>2, <1>t, <2>1 DEF MaxTimerFires, FlushUpdateBatch
<1>3. CASE WindowTimerFires
  <2>1. dispatches' \in SUBSET Dispatch
    BY <1>3, <1>a, <1>f, SentTyped DEF WindowTimerFires, FlushUpdateBatch
  <2> QED BY <1>3, <1>t, <2>1 DEF WindowTimerFires, FlushUpdateBatch
<1>4. CASE CheckTimerFires
  <2>1. dispatches' \in SUBSET Dispatch
    BY <1>4, <1>a, <1>f, SentTyped DEF CheckTimerFires
  <2> QED BY <1>4, <1>t, <2>1 DEF CheckTimerFires
<1>5. ASSUME NEW n \in 1..Cardinality(Reporter), CheckAll(n) PROVE BatcherTypeOK'
  <2>1. checkBatch' \in CheckBatch
    BY <1>5, FS_CardinalityType, BatcherAssumption DEF CheckAll, ExpectCheckResults, CheckBatch
  <2> QED BY <1>5, <1>t, <2>1 DEF CheckAll, ExpectCheckResults
<1>6. ASSUME NEW a \in Reporter, NEW cs \in SUBSET Container, DispatchCheckResults(a, cs)
      PROVE  BatcherTypeOK'
  <2>1. {Announced \cup NewContainers(cs)} \in SUBSET SUBSET Items
    BY <1>a DEF NewContainers, Items
  <2>2. checkBatch' \in CheckBatch \cup {NoBatch} /\ notifiedUpdates' = notifiedUpdates \cup cs
    BY <1>6, NewBatchTyped
  <2>3. dispatches' \in SUBSET Dispatch
    BY <1>6, <1>a, <2>1, NewBatchTyped, SentTyped
  <2> QED BY <1>6, <1>t, <2>2, <2>3 DEF DispatchCheckResults
<1>7. ASSUME NEW c \in Container, ForgetNotified(c) PROVE BatcherTypeOK'
  BY <1>7 DEF ForgetNotified
<1>8. ASSUME NEW d \in dispatches,
             NoChannels(d) \/ ChannelDone(d) \/ DispatchReturns(d)
               \/ \E ch \in Channel : TryChannel(d, ch)
      PROVE  BatcherTypeOK'
  <2>1. UNCHANGED <<batches, derivedKey>>
    BY <1>8, OthersKeepBatches
       DEF NoChannels, ChannelDone, DispatchReturns, TryChannel, UNCHANGEDButDispatches
  <2>2. dispatches' \in SUBSET Dispatch
    <3>1. /\ [d EXCEPT !.sending = {}] \in Dispatch
          /\ \A ch \in Channel : /\ [d EXCEPT !.todo = @ \ {ch}] \in Dispatch
                                 /\ [d EXCEPT !.todo = @ \ {ch}, !.sending = {ch}] \in Dispatch
      BY DEF Dispatch
    <3>2. /\ dispatches \subseteq Dispatch
          /\ \A e \in Dispatch : Replace(d, e) => dispatches' \subseteq Dispatch
      BY DEF Replace
    <3>3. ASSUME NEW ch \in Channel, TryChannel(d, ch) PROVE dispatches' \subseteq Dispatch
      BY <3>1, <3>2, <3>3 DEF TryChannel
    <3> QED BY <1>8, <3>1, <3>2, <3>3 DEF NoChannels, ChannelDone, DispatchReturns, ChannelFailed
  <2>3. coolingDown' \in SUBSET Channel /\ logFaults' \in 0..MaxLogFaults
    <3>1. d.sending \subseteq Channel
      BY DEF Dispatch
    <3>2. CASE NoChannels(d)
      BY <3>2, BatcherAssumption DEF NoChannels
    <3>3. CASE ChannelDone(d)
      BY <3>1, <3>3, BatcherAssumption DEF ChannelDone
    <3>4. CASE DispatchReturns(d) \/ \E ch \in Channel : TryChannel(d, ch)
      BY <3>4 DEF DispatchReturns, TryChannel
    <3> QED BY <1>8, <3>2, <3>3, <3>4
  <2> QED BY <2>1, <2>2, <2>3 DEF batches
<1>9. ASSUME NEW ch \in Channel, CoolsDown(ch) PROVE BatcherTypeOK'
  BY <1>9 DEF CoolsDown, batches
<1>10. CASE Shutdown
  <2>1. dispatches' \in SUBSET Dispatch
    BY <1>10, <1>a, <1>f, SentTyped DEF Shutdown
  <2> QED BY <1>10, <1>t, <2>1 DEF Shutdown
<1>11. CASE ControllerStarts
  BY <1>11 DEF ControllerStarts
<1>12. CASE UNCHANGED batcherVars
  BY <1>12 DEF batcherVars, batches
<1> QED BY <1>1, <1>2, <1>3, <1>4, <1>5, <1>6, <1>7, <1>8, <1>9, <1>10, <1>11, <1>12 DEF BatcherNext

LEMMA AnnounceStep == BatcherIInv /\ [BatcherNext]_batcherVars => Announcing'
<1> SUFFICES ASSUME BatcherIInv, [BatcherNext]_batcherVars PROVE Announcing'
  OBVIOUS
<1>a. /\ Announced \in SUBSET Container /\ Collected \in SUBSET UpdateOutcome
      /\ Container \cap UpdateOutcome = {}
  BY BatchesTyped, BatcherAssumption DEF BatcherIInv
<1>b. /\ \A d, e \in dispatches : d.items \cap e.items = {} \/ d = e
      /\ Announced \cup (OnTheirWay \cap Container) \subseteq notifiedUpdates
      /\ Announced \cap OnTheirWay = {} /\ Collected \cap OnTheirWay = {}
  BY DEF BatcherIInv, Announcing, AnnouncedOnce, CollectedApart
<1> USE DEF Announcing, AnnouncedOnce, CollectedApart
<1>1. ASSUME NEW r \in UpdateOutcome, AddUpdateResult(r) PROVE Announcing'
  <2>1. UNCHANGED <<dispatches, notifiedUpdates, OnTheirWay, Announced>>
    BY <1>1 DEF AddUpdateResult, OnTheirWay, Announced
  <2>2. updateBatch' = Collected \cup {r} /\ r \notin OnTheirWay
    BY <1>1 DEF AddUpdateResult
  <2>3. Collected' \cap OnTheirWay = {}
    BY <1>b, <2>2 DEF Collected
  <2> QED BY <1>b, <2>1, <2>3
<1>2. ASSUME FlushUpdateBatch, UNCHANGED <<checkBatch, notifiedUpdates>> PROVE Announcing'
  <2>1. UNCHANGED Announced /\ Collected' = {}
    BY <1>2 DEF FlushUpdateBatch, Announced, Collected
  <2>2. PICK sets : sets = {Collected \ FailedOutcome, Collected \cap FailedOutcome}
    OBVIOUS
  <2>3. /\ \A x, y \in sets : x \cap y = {} \/ x = y
        /\ \A x \in sets : x \cap OnTheirWay = {}
        /\ UNION sets = Collected
    BY <1>b, <2>2
  <2>4. Send(sets)
    BY <1>2, <2>2 DEF FlushUpdateBatch
  <2>5. /\ \A d, e \in dispatches' : d.items \cap e.items = {} \/ d = e
        /\ OnTheirWay' = OnTheirWay \cup Collected
    BY <1>b, <2>3, <2>4, SentApart
  <2> QED BY <1>2, <1>a, <1>b, <2>1, <2>5
<1>3. ASSUME UNCHANGED <<checkBatch, updateBatch, notifiedUpdates, dispatches>> PROVE Announcing'
  BY <1>b, <1>3 DEF Announced, Collected, OnTheirWay
<1>4. CASE MaxTimerFires \/ WindowTimerFires
  BY <1>2, <1>3, <1>4 DEF MaxTimerFires, WindowTimerFires
<1>5. CASE CheckTimerFires
  <2>1. /\ UNCHANGED <<Collected, notifiedUpdates>> /\ Announced' = {}
        /\ Send({Announced})
    BY <1>5 DEF CheckTimerFires, Announced, Collected
  <2>2. /\ \A d, e \in dispatches' : d.items \cap e.items = {} \/ d = e
        /\ OnTheirWay' = OnTheirWay \cup UNION {Announced}
    BY <1>b, <2>1, SentApart
  <2>3. UNION {Announced} = Announced
    OBVIOUS
  <2> QED BY <1>a, <1>b, <2>1, <2>2, <2>3
<1>6. ASSUME NEW n \in 1..Cardinality(Reporter), CheckAll(n) PROVE Announcing'
  <2>1. UNCHANGED <<Collected, notifiedUpdates, dispatches, OnTheirWay>>
    BY <1>6 DEF CheckAll, Collected, OnTheirWay
  <2>2. Announced' = {}
    BY <1>6 DEF CheckAll, ExpectCheckResults, Announced
  <2> QED BY <1>b, <2>1, <2>2
<1>7. ASSUME NEW a \in Reporter, NEW cs \in SUBSET Container, DispatchCheckResults(a, cs)
      PROVE  Announcing'
  <2>1. UNCHANGED Collected
    BY <1>7 DEF DispatchCheckResults, Collected
  <2>2. PICK new : new = Announced \cup NewContainers(cs)
    OBVIOUS
  <2>3. new \subseteq notifiedUpdates \cup cs /\ new \cap OnTheirWay = {} /\ new \subseteq Container
    BY <1>a, <1>b, <2>2 DEF NewContainers
  <2>4. notifiedUpdates' = notifiedUpdates \cup cs
    BY <1>7, NewBatchTyped DEF BatcherIInv
  <2>5. CASE Send({new}) /\ checkBatch' = NoBatch
    <3>1. /\ \A d, e \in dispatches' : d.items \cap e.items = {} \/ d = e
          /\ OnTheirWay' = OnTheirWay \cup UNION {new}
      BY <1>b, <2>3, <2>5, SentApart
    <3>2. UNION {new} = new /\ Announced' = {}
      BY <2>5 DEF Announced
    <3> QED BY <1>a, <1>b, <2>1, <2>3, <2>4, <3>1, <3>2
  <2>6. CASE UNCHANGED dispatches /\ checkBatch' # NoBatch /\ checkBatch'.announced = new
    <3>1. UNCHANGED OnTheirWay /\ Announced' = new
      BY <2>6 DEF OnTheirWay, Announced
    <3> QED BY <1>b, <2>1, <2>3, <2>4, <2>6, <3>1
  <2> QED BY <1>7, <2>2, <2>5, <2>6, NewBatchTyped DEF BatcherIInv
<1>8. ASSUME NEW c \in Container, ForgetNotified(c) PROVE Announcing'
  <2>1. UNCHANGED <<dispatches, OnTheirWay, Announced, Collected>>
    BY <1>8 DEF ForgetNotified, OnTheirWay, Announced, Collected
  <2> QED BY <1>8, <1>b, <2>1 DEF ForgetNotified
<1>9. ASSUME NEW d \in dispatches,
             NoChannels(d) \/ ChannelDone(d) \/ DispatchReturns(d)
               \/ \E ch \in Channel : TryChannel(d, ch)
      PROVE  Announcing'
  <2>1. UNCHANGED <<Announced, Collected, notifiedUpdates>>
    BY <1>9, OthersKeepBatches DEF batches, Announced, Collected
  <2>2. \/ dispatches' \subseteq dispatches
        \/ \E e : e.items = d.items /\ Replace(d, e)
    <3>1. d \in Dispatch
      BY DEF BatcherIInv, BatcherTypeOK
    <3>2. ASSUME NEW ch \in Channel, TryChannel(d, ch) PROVE \E e : e.items = d.items /\ Replace(d, e)
      BY <3>1, <3>2 DEF TryChannel, Dispatch
    <3>3. [d EXCEPT !.sending = {}].items = d.items
      BY <3>1 DEF Dispatch
    <3> QED BY <1>9, <3>2, <3>3 DEF NoChannels, ChannelDone, DispatchReturns, ChannelFailed
  <2> QED BY <1>b, <2>1, <2>2, ReplacedApart, FewerApart
<1>10. ASSUME NEW ch \in Channel, CoolsDown(ch) PROVE Announcing'
  BY <1>3, <1>10 DEF CoolsDown, batches
<1>11. CASE Shutdown
  <2>1. UNCHANGED notifiedUpdates /\ Announced' = {} /\ Collected' = {}
    BY <1>11 DEF Shutdown, Announced, Collected
  <2>2. PICK sets : sets = {Announced, Collected \ FailedOutcome, Collected \cap FailedOutcome}
    OBVIOUS
  <2>3. /\ \A x, y \in sets : x \cap y = {} \/ x = y
        /\ \A x \in sets : x \cap OnTheirWay = {}
        /\ UNION sets = Announced \cup Collected
    BY <1>a, <1>b, <2>2
  <2>4. Send(sets)
    BY <1>11, <2>2 DEF Shutdown
  <2>5. /\ \A d, e \in dispatches' : d.items \cap e.items = {} \/ d = e
        /\ OnTheirWay' = OnTheirWay \cup Announced \cup Collected
    BY <1>b, <2>3, <2>4, SentApart
  <2> QED BY <1>a, <1>b, <2>1, <2>5
<1>12. CASE ControllerStarts
  BY <1>12 DEF ControllerStarts, Announced, Collected, OnTheirWay
<1>13. CASE UNCHANGED batcherVars
  BY <1>3, <1>13 DEF batcherVars, batches
<1> QED BY <1>1, <1>4, <1>5, <1>6, <1>7, <1>8, <1>9, <1>10, <1>11, <1>12, <1>13 DEF BatcherNext

-----------------------------------------------------------------------------
(* Theorems.                                                                 *)

\* The inductive invariant of the batches (session-batcher.ts) and of what
\* Notifier.dispatch has under way.
THEOREM BatcherInvariant == BatcherSpec => []BatcherIInv
<1>1. BatcherInit => BatcherIInv
  <2> SUFFICES ASSUME BatcherInit PROVE BatcherIInv
    OBVIOUS
  <2>1. BatcherTypeOK
    BY BatcherAssumption DEF BatcherInit, BatcherTypeOK
  <2>2. TimersBelongToBatches
    BY DEF BatcherInit, TimersBelongToBatches
  <2>3. Announcing
    BY DEF BatcherInit, Announcing, AnnouncedOnce, CollectedApart, Announced, Collected, OnTheirWay
  <2> QED BY <2>1, <2>2, <2>3 DEF BatcherIInv
<1>2. BatcherIInv /\ [BatcherNext]_batcherVars => BatcherIInv'
  BY TypeStep, TimersStep, AnnounceStep DEF BatcherIInv
<1> QED BY <1>1, <1>2, PTL DEF BatcherSpec

\* A timer of a batch is armed exactly as long as the batch waits, whatever replaces,
\* fills or flushes it (expectCheckResults, flushUpdateBatch, clearPendingTimers).
THEOREM TimersGoWithBatches == BatcherSpec => []TimersBelongToBatches
<1>1. BatcherIInv => TimersBelongToBatches
  BY DEF BatcherIInv
<1> QED BY <1>1, BatcherInvariant, PTL

\* No available update is in two notifications at a time, however many agents report it
\* again while it waits or is sent (dispatchCheckResults, notifiedUpdates).
THEOREM UpdatesAreAnnouncedOnce == BatcherSpec => []AnnouncedOnce
<1>1. BatcherIInv => AnnouncedOnce
  BY DEF BatcherIInv, Announcing
<1> QED BY <1>1, BatcherInvariant, PTL

-----------------------------------------------------------------------------
(* Why dependencies are updated first.                                     *)

\* A container is in its priority's batch, or on the way to it.
Batched(b, c) == \E k \in DOMAIN b[settings[c].priority] : b[settings[c].priority][k] = c
OnStack(c) == \E i \in DOMAIN sorting.stack : sorting.stack[i].container = c

\* What a container of a batch depends on is in a batch before, or before it in its own,
\* unless its priority is larger or the two depend on each other.
InPlace(b, p, k) ==
  \A d \in UpdatedDeps(b[p][k]) :
    \/ b[p][k] \in Reaches(d)
    \/ settings[d].priority > p
    \/ settings[d].priority = p /\ \E m \in 1 .. k - 1 : b[p][m] = d
    \/ settings[d].priority < p /\ Batched(b, d)

\* Batches hold containers of their priority, each once, and each in its place.
Grouped(b) ==
  \A p \in Priority : \A k \in DOMAIN b[p] :
    /\ b[p][k] \in sorting.targets /\ settings[b[p][k]].priority = p
    /\ \A m \in DOMAIN b[p] : b[p][m] = b[p][k] => m = k
    /\ InPlace(b, p, k)

\* The calls on the stack are different containers, and each depends on those below it.
StackDepends ==
  \A i \in DOMAIN sorting.stack :
    /\ sorting.stack[i].container \in sorting.visited
    /\ sorting.stack[i].deps = settings[sorting.stack[i].container].dependsOn
    /\ ~Batched(sorting.batches, sorting.stack[i].container)
    /\ \A j \in DOMAIN sorting.stack :
         i < j => /\ \A c \in Target : c = sorting.stack[i].container =>
                       sorting.stack[j].container \in Reaches(c)
                  /\ sorting.stack[j].container # sorting.stack[i].container

\* A container was seen if and only if its call is on the stack or has returned.
SeenIsCalled ==
  /\ \A c \in sorting.visited : OnStack(c) \/ Batched(sorting.batches, c)
  /\ \A p \in Priority : \A k \in DOMAIN sorting.batches[p] :
       sorting.batches[p][k] \in sorting.visited

SortInv ==
  /\ sorting.pc = "idle" => sorting = Unsorted
  /\ sorting.pc # "sent" => sequence = NothingSent /\ recreated = <<>>
  /\ sorting.pc = "sorting" => Grouped(sorting.batches) /\ StackDepends /\ SeenIsCalled
  /\ sorting.pc = "sent" => /\ Grouped(sequence.batches) /\ sorting.stack = <<>>
                            /\ sequence.selfPending => selfContainer \in sorting.targets

\* How far the agent is in the batches.
DoneWith(p, k) == p \notin sequence.due \/ (IsNext(p) /\ k <= sequence.position)

\* The agent has recreated what it has handled: all of it, unless it ran out of time.
SentInv ==
  /\ \A i \in DOMAIN recreated :
       recreated[i] # selfContainer =>
         \E p \in Priority : \E k \in DOMAIN sequence.batches[p] :
           sequence.batches[p][k] = recreated[i] /\ DoneWith(p, k)
  /\ sequence.due # {} =>
       \A p \in Priority : \A k \in DOMAIN sequence.batches[p] :
         DoneWith(p, k) /\ sequence.batches[p][k] # selfContainer =>
           \E i \in DOMAIN recreated : recreated[i] = sequence.batches[p][k]
  /\ sequence.due # {} \/ sequence.selfPending =>
       \A i \in DOMAIN recreated : recreated[i] # selfContainer

OrderIInv == OrderTypeOK /\ SortInv /\ SentInv /\ UpdatesInOrder

LEMMA FrontOf ==
  ASSUME NEW S, NEW s \in Seq(S), s # <<>>
  PROVE  /\ Front(s) \in Seq(S) /\ Len(Front(s)) = Len(s) - 1
         /\ \A i \in 1 .. Len(s) - 1 : Front(s)[i] = s[i]
         /\ Last(s) = s[Len(s)] /\ Len(s) \in DOMAIN s
<1>1. Len(s) \in Nat /\ Len(s) # 0 /\ DOMAIN s = 1 .. Len(s) /\ \A i \in 1 .. Len(s) : s[i] \in S
  OBVIOUS
<1>2. /\ SubSeq(s, 1, Len(s) - 1) \in Seq(S) /\ Len(SubSeq(s, 1, Len(s) - 1)) = Len(s) - 1
      /\ \A i \in 1 .. Len(s) - 1 : SubSeq(s, 1, Len(s) - 1)[i] = s[i]
  <2>1. \A i \in 1 .. Len(s) - 1 : s[i] \in S
    BY <1>1
  <2>2. PICK n \in Nat : n = Len(s) - 1
    <3>1. Len(s) - 1 \in Nat
      BY <1>1
    <3> QED BY <3>1
  <2>3. /\ SubSeq(s, 1, n) \in Seq(S) /\ Len(SubSeq(s, 1, n)) = IF 1 <= n THEN n - 1 + 1 ELSE 0
        /\ \A i \in 1 .. n - 1 + 1 : SubSeq(s, 1, n)[i] = s[1 + i - 1]
    BY <2>1, <2>2, SubSeqProperties
  <2>4. \A i \in 1 .. n : SubSeq(s, 1, n)[i] = s[i]
    <3>1. \A i \in 1 .. n : i \in 1 .. n - 1 + 1 /\ 1 + i - 1 = i
      OBVIOUS
    <3> QED BY <2>3, <3>1
  <2>5. Len(SubSeq(s, 1, n)) = n
    BY <2>3
  <2> QED BY <2>2, <2>3, <2>4, <2>5
<1> QED BY <1>1, <1>2 DEF Front, Last

LEMMA AppendOf ==
  ASSUME NEW S, NEW s \in Seq(S), NEW e \in S
  PROVE  /\ Append(s, e) \in Seq(S) /\ Len(Append(s, e)) = Len(s) + 1
         /\ \A i \in DOMAIN s : Append(s, e)[i] = s[i]
         /\ Append(s, e)[Len(s) + 1] = e /\ DOMAIN Append(s, e) = 1 .. Len(s) + 1
         /\ DOMAIN s = 1 .. Len(s)
  OBVIOUS

\* Dependencies are the same as long as rows and targets are.
LEMMA SameDependencies ==
  ASSUME UNCHANGED settings, sorting'.targets = sorting.targets
  PROVE  \A c \in Target : UpdatedDeps(c)' = UpdatedDeps(c) /\ Reaches(c)' = Reaches(c)
<1>1. \A c : settings'[c].dependsOn \cap sorting'.targets = settings[c].dependsOn \cap sorting.targets
  OBVIOUS
<1> QED BY <1>1 DEF Reaches, Closed, UpdatedDeps

\* What c reaches has what c depends on, and what that depends on.
LEMMA ReachesOn ==
  ASSUME NEW c \in Target, NEW d \in UpdatedDeps(c)
  PROVE  /\ d \in Reaches(c)
         /\ \A a \in Target : c \in Reaches(a) => d \in Reaches(a)
  BY DEF Reaches, Closed, UpdatedDeps

\* Batches that stay as they are stay grouped.
LEMMA StaysGrouped ==
  ASSUME OrderTypeOK, NEW b \in Batches, Grouped(b), UNCHANGED settings,
         sorting'.targets = sorting.targets
  PROVE  Grouped(b)'
<1>1. \A c \in Target : UpdatedDeps(c)' = UpdatedDeps(c) /\ Reaches(c)' = Reaches(c)
  BY SameDependencies
<1>2. \A p \in Priority : \A k \in DOMAIN b[p] : b[p][k] \in Target
  BY DEF Batches
<1>3. \A c \in Target : UpdatedDeps(c) \subseteq Target
  BY DEF UpdatedDeps, OrderTypeOK
<1>4. \A p \in Priority : \A k \in DOMAIN b[p] : InPlace(b, p, k) => InPlace(b, p, k)'
  BY <1>1, <1>2, <1>3 DEF InPlace, Batched
<1> QED BY <1>4 DEF Grouped

-----------------------------------------------------------------------------
(* The sort.                                                               *)

\* A call: its container was not seen before, and the one that called it depends on it.
LEMMA CallKeeps ==
  ASSUME OrderTypeOK, SortInv, sorting.pc = "sorting", UNCHANGED settings,
         NEW c \in sorting.targets \ sorting.visited,
         sorting.stack # <<>> => c \in UpdatedDeps(Top.container),
         sorting'.targets = sorting.targets, sorting'.batches = sorting.batches,
         sorting'.visited = sorting.visited \cup {c}, sorting'.stack = Visit(c)
  PROVE  StackDepends' /\ SeenIsCalled' /\ Grouped(sorting.batches)'
<1>1. /\ sorting.stack \in Seq(Call) /\ sorting.visited \subseteq Target /\ c \in Target
      /\ settings[c].dependsOn \in SUBSET Dependency /\ sorting.batches \in Batches
      /\ StackDepends /\ SeenIsCalled /\ Grouped(sorting.batches)
  BY DEF OrderTypeOK, SortInv
<1>2. PICK s, b, e : /\ s = sorting.stack /\ b = sorting.batches
                     /\ e = [container |-> c, deps |-> settings[c].dependsOn]
  OBVIOUS
<1>3. /\ sorting'.stack = Append(s, e) /\ e \in Call /\ e.container = c
      /\ e.deps = settings[c].dependsOn
  BY <1>1, <1>2 DEF Visit, Call
<1>4. /\ s \in Seq(Call) /\ DOMAIN s = 1 .. Len(s) /\ DOMAIN Append(s, e) = 1 .. Len(s) + 1
      /\ \A i \in DOMAIN s : Append(s, e)[i] = s[i]
      /\ Append(s, e)[Len(s) + 1] = e /\ Len(s) \in Nat
  BY <1>1, <1>2, <1>3, AppendOf
<1>5. \A i \in DOMAIN s : s[i].container \in Target
  <2>1. \A i \in DOMAIN s : s[i] \in Call
    BY <1>4
  <2> QED BY <2>1 DEF Call
<1>6. \A a \in Target : Reaches(a)' = Reaches(a) /\ (Batched(b, a)' <=> Batched(b, a))
  BY SameDependencies DEF Batched
<1>7. ~Batched(b, c)
  BY <1>1, <1>2 DEF SeenIsCalled, Batched, OrderTypeOK
<1>8. \A i \in DOMAIN s : c \in Reaches(s[i].container)
  <2>1. SUFFICES ASSUME NEW i \in DOMAIN s PROVE c \in Reaches(s[i].container)
    OBVIOUS
  <2>2. PICK n, t : n = Len(s) /\ t = s[n].container
    OBVIOUS
  <2>3. s # <<>> /\ Top.container = t /\ t \in Target /\ n \in DOMAIN s /\ i <= n
    BY <1>2, <1>4, <1>5, <2>1, <2>2 DEF Top, Last
  <2>4. c \in UpdatedDeps(t)
    BY <1>2, <2>3
  <2>5. i < n => t \in Reaches(s[i].container)
    BY <1>1, <1>2, <2>1, <2>2, <2>3 DEF StackDepends
  <2>6. i = n \/ i < n
    BY <1>4, <2>1, <2>3
  <2> QED BY <1>5, <2>1, <2>2, <2>3, <2>4, <2>5, <2>6, ReachesOn
<1>9. \A i \in DOMAIN s : s[i].container \in sorting.visited /\ s[i].container # c
  BY <1>1, <1>2 DEF StackDepends
<1>10. StackDepends'
  <2>1. SUFFICES ASSUME NEW i \in 1 .. Len(s) + 1
                 PROVE  /\ Append(s, e)[i].container \in sorting'.visited
                        /\ Append(s, e)[i].deps = settings'[Append(s, e)[i].container].dependsOn
                        /\ ~Batched(b, Append(s, e)[i].container)
                        /\ \A j \in 1 .. Len(s) + 1 :
                             i < j => /\ Append(s, e)[j].container \in Reaches(Append(s, e)[i].container)
                                      /\ Append(s, e)[j].container # Append(s, e)[i].container
    <3>1. \A i \in 1 .. Len(s) + 1 : Append(s, e)[i].container \in Target
      BY <1>1, <1>3, <1>4, <1>5
    <3>2. ASSUME NEW i \in 1 .. Len(s) + 1, NEW j \in 1 .. Len(s) + 1, i < j,
                 NEW a \in Target, a = Append(s, e)[i].container
          PROVE  Append(s, e)[j].container \in Reaches(a)'
      BY <1>6, <2>1, <3>2
    <3>3. \A i \in 1 .. Len(s) + 1 : ~Batched(b, Append(s, e)[i].container)
      BY <2>1
    <3>4. DOMAIN sorting'.stack = 1 .. Len(s) + 1 /\ sorting'.stack = Append(s, e) /\ sorting'.batches = b
      BY <1>2, <1>3, <1>4
    <3>5. \A i \in 1 .. Len(s) + 1 :
            /\ Append(s, e)[i].container \in sorting'.visited
            /\ Append(s, e)[i].deps = settings'[Append(s, e)[i].container].dependsOn
            /\ \A j \in 1 .. Len(s) + 1 :
                 i < j => Append(s, e)[j].container # Append(s, e)[i].container
      BY <2>1
    <3>6. ASSUME NEW i \in DOMAIN sorting'.stack
          PROVE  /\ sorting'.stack[i].container \in sorting'.visited
                 /\ sorting'.stack[i].deps = settings'[sorting'.stack[i].container].dependsOn
                 /\ ~\E k \in DOMAIN sorting'.batches[settings'[sorting'.stack[i].container].priority] :
                      sorting'.batches[settings'[sorting'.stack[i].container].priority][k]
                        = sorting'.stack[i].container
      <4>1. PICK x : x = Append(s, e)[i].container
        OBVIOUS
      <4>2. i \in 1 .. Len(s) + 1 /\ sorting'.stack[i] = Append(s, e)[i]
        BY <3>4, <3>6
      <4>3. sorting'.stack[i].container = x
        BY <4>1, <4>2
      <4>4. x \in sorting'.visited /\ sorting'.stack[i].deps = settings'[x].dependsOn
        BY <3>5, <4>1, <4>2
      <4>5. ~Batched(b, x)
        BY <3>3, <4>1, <4>2
      <4>6. ~\E k \in DOMAIN b[settings'[x].priority] : b[settings'[x].priority][k] = x
        BY <4>5 DEF Batched
      <4> QED BY <3>4, <4>3, <4>4, <4>6
    <3>7. ASSUME NEW i \in DOMAIN sorting'.stack, NEW j \in DOMAIN sorting'.stack, i < j
          PROVE  /\ \A a \in Target : a = sorting'.stack[i].container =>
                      sorting'.stack[j].container \in Reaches(a)'
                 /\ sorting'.stack[j].container # sorting'.stack[i].container
      BY <3>2, <3>4, <3>5, <3>7
    <3> QED BY <3>6, <3>7 DEF StackDepends, Batched
  <2>2. CASE i \in DOMAIN s
    <3>1. \A j \in DOMAIN s : i < j => /\ s[j].container \in Reaches(s[i].container)
                                       /\ s[j].container # s[i].container
      BY <1>1, <1>2, <2>2 DEF StackDepends
    <3>2. s[i].deps = settings[s[i].container].dependsOn /\ ~Batched(b, s[i].container)
      BY <1>1, <1>2, <2>2 DEF StackDepends
    <3> QED BY <1>3, <1>4, <1>8, <1>9, <2>2, <3>1, <3>2
  <2>3. CASE i = Len(s) + 1
    BY <1>3, <1>4, <1>7, <2>3
  <2> QED BY <1>4, <2>1, <2>2, <2>3
<1>11. SeenIsCalled'
  <2>1. \A a \in Target : OnStack(a) => OnStack(a)'
    BY <1>2, <1>3, <1>4 DEF OnStack
  <2>2. OnStack(c)'
    BY <1>3, <1>4 DEF OnStack
  <2> QED BY <1>1, <1>2, <1>6, <2>1, <2>2 DEF SeenIsCalled, Batched
<1>12. Grouped(sorting.batches)'
  <2>1. Grouped(b)'
    BY <1>1, <1>2, StaysGrouped
  <2> QED BY <1>2, <2>1 DEF Grouped, InPlace, Batched
<1> QED BY <1>10, <1>11, <1>12

\* A return: what the container depends on was seen, so it is in a batch or below on the
\* stack.
LEMMA ReturnKeeps ==
  ASSUME OrderTypeOK, SortInv, sorting.pc = "sorting", ReturnFromVisit
  PROVE  StackDepends' /\ SeenIsCalled' /\ Grouped(sorting.batches)'
<1>1. /\ sorting.stack \in Seq(Call) /\ sorting.visited \subseteq Target
      /\ sorting.batches \in Batches /\ sorting.targets \subseteq Target
      /\ StackDepends /\ SeenIsCalled /\ Grouped(sorting.batches)
  BY DEF OrderTypeOK, SortInv
<1>2. PICK s, b, n, c, p : /\ s = sorting.stack /\ b = sorting.batches /\ n = Len(s)
                           /\ c = s[n].container /\ p = settings[c].priority
  OBVIOUS
<1>3. /\ s \in Seq(Call) /\ DOMAIN s = 1 .. n /\ n \in DOMAIN s /\ c \in Target /\ p \in Priority
      /\ b \in Batches /\ b[p] \in Seq(Target) /\ Top = s[n]
  <2>1. s \in Seq(Call) /\ s # <<>> /\ DOMAIN s = 1 .. n /\ n \in DOMAIN s /\ Last(s) = s[n]
    <3>1. s # <<>> /\ s \in Seq(Call)
      BY <1>1, <1>2 DEF ReturnFromVisit
    <3>2. DOMAIN s = 1 .. Len(s)
      BY <3>1
    <3>3. Len(s) \in DOMAIN s /\ Last(s) = s[Len(s)]
      BY <3>1, FrontOf
    <3> QED BY <1>2, <3>1, <3>2, <3>3
  <2>2. s[n] \in Call
    BY <2>1
  <2>3. c \in Target /\ p \in Priority
    BY <1>2, <2>2 DEF Call, OrderTypeOK
  <2> QED BY <1>1, <1>2, <2>1, <2>3 DEF Top, Batches
<1>4. PICK r, f : r = Append(b[p], c) /\ f = [b EXCEPT ![p] = r]
  OBVIOUS
<1>5. /\ sorting'.stack = Front(s) /\ sorting'.batches = f /\ sorting'.visited = sorting.visited
      /\ sorting'.targets = sorting.targets /\ UNCHANGED settings /\ OpenDeps = {}
  BY <1>2, <1>3, <1>4 DEF ReturnFromVisit, PutLast, OrderTypeOK
<1>6. /\ Front(s) \in Seq(Call) /\ DOMAIN Front(s) = 1 .. n - 1
      /\ \A i \in 1 .. n - 1 : Front(s)[i] = s[i]
  BY <1>2, <1>3, FrontOf
<1>7. /\ f \in Batches /\ f[p] = r /\ r \in Seq(Target) /\ DOMAIN r = 1 .. Len(b[p]) + 1
      /\ DOMAIN b[p] = 1 .. Len(b[p]) /\ Len(b[p]) \in Nat
      /\ \A k \in DOMAIN b[p] : r[k] = b[p][k]
      /\ r[Len(b[p]) + 1] = c
      /\ \A q \in Priority \ {p} : f[q] = b[q]
  <2>1. /\ r \in Seq(Target) /\ DOMAIN r = 1 .. Len(b[p]) + 1
        /\ DOMAIN b[p] = 1 .. Len(b[p]) /\ Len(b[p]) \in Nat
        /\ \A k \in DOMAIN b[p] : r[k] = b[p][k]
        /\ r[Len(b[p]) + 1] = c
    BY <1>3, <1>4, AppendOf
  <2> QED BY <1>3, <1>4, <2>1 DEF Batches
<1>8. /\ c \in sorting.visited /\ ~Batched(b, c) /\ s[n].deps = settings[c].dependsOn
      /\ \A i \in 1 .. n - 1 : c \in Reaches(s[i].container) /\ s[i].container # c
  BY <1>1, <1>2, <1>3 DEF StackDepends
<1>9. \A a \in Target : /\ Reaches(a)' = Reaches(a) /\ UpdatedDeps(a)' = UpdatedDeps(a)
                        /\ settings[a].priority \in Priority /\ UpdatedDeps(a) \subseteq Target
  BY <1>1, <1>5, SameDependencies DEF UpdatedDeps, OrderTypeOK
<1>10. \A a \in Target : Batched(f, a) <=> Batched(b, a) \/ a = c
  <2>1. ASSUME NEW a \in Target, settings[a].priority # p PROVE Batched(f, a) <=> Batched(b, a)
    BY <1>7, <1>9, <2>1 DEF Batched
  <2>2. ASSUME NEW a \in Target, settings[a].priority = p
        PROVE  Batched(f, a) <=> Batched(b, a) \/ a = c
    <3>1. (\E k \in DOMAIN r : r[k] = a) <=> (\E k \in DOMAIN b[p] : b[p][k] = a) \/ a = c
      <4>1. \A k \in DOMAIN r : k \in DOMAIN b[p] \/ k = Len(b[p]) + 1
        BY <1>7
      <4>2. DOMAIN b[p] \subseteq DOMAIN r /\ Len(b[p]) + 1 \in DOMAIN r
        BY <1>7
      <4> QED BY <1>7, <4>1, <4>2
    <3>2. (\E k \in DOMAIN f[settings[a].priority] : f[settings[a].priority][k] = a)
            <=> (\E k \in DOMAIN b[settings[a].priority] : b[settings[a].priority][k] = a) \/ a = c
      BY <1>7, <2>2, <3>1
    <3> QED BY <3>2 DEF Batched
  <2> QED BY <1>2, <2>1, <2>2
<1>11. StackDepends'
  <2>1. \A i \in 1 .. n - 1 : s[i].container \in Target /\ ~Batched(f, s[i].container)
    <3>1. \A i \in 1 .. n - 1 : s[i].container \in Target /\ ~Batched(b, s[i].container)
      BY <1>1, <1>2, <1>3 DEF StackDepends, Call
    <3> QED BY <1>8, <1>10, <3>1
  <2>2. \A i \in 1 .. n - 1 :
          /\ s[i].container \in sorting.visited
          /\ s[i].deps = settings[s[i].container].dependsOn
          /\ \A j \in 1 .. n - 1 : i < j => /\ s[j].container \in Reaches(s[i].container)
                                            /\ s[j].container # s[i].container
    <3>1. \A i \in 1 .. n - 1 : i \in DOMAIN s
      BY <1>3
    <3> QED BY <1>1, <1>2, <2>1, <3>1 DEF StackDepends
  <2>3. ASSUME NEW i \in 1 .. n - 1, NEW j \in 1 .. n - 1, i < j,
               NEW a \in Target, a = s[i].container
        PROVE  s[j].container \in Reaches(a)'
    BY <1>9, <2>2, <2>3
  <2> QED BY <1>5, <1>6, <2>1, <2>2, <2>3 DEF StackDepends, Batched
<1>12. SeenIsCalled'
  <2>1. ASSUME NEW a \in sorting.visited PROVE OnStack(a)' \/ Batched(f, a)
    <3>1. CASE Batched(b, a) \/ a = c
      BY <1>1, <1>10, <3>1
    <3>2. CASE a # c /\ OnStack(a)
      <4>1. PICK i \in DOMAIN s : s[i].container = a
        BY <1>2, <3>2 DEF OnStack
      <4>2. i \in 1 .. n - 1
        BY <1>2, <1>3, <3>2, <4>1
      <4> QED BY <1>5, <1>6, <4>1, <4>2 DEF OnStack
    <3> QED BY <1>1, <1>2, <3>1, <3>2 DEF SeenIsCalled
  <2>2. \A q \in Priority : \A k \in DOMAIN f[q] : f[q][k] \in sorting.visited
    <3>1. \A q \in Priority : \A k \in DOMAIN b[q] : b[q][k] \in sorting.visited
      BY <1>1, <1>2 DEF SeenIsCalled
    <3>2. ASSUME NEW k \in DOMAIN f[p] PROVE f[p][k] \in sorting.visited
      <4>1. CASE k \in DOMAIN b[p]
        BY <1>3, <1>7, <3>1, <4>1
      <4>2. CASE k = Len(b[p]) + 1
        BY <1>7, <1>8, <4>2
      <4> QED BY <1>7, <3>2, <4>1, <4>2
    <3> QED BY <1>7, <3>1, <3>2
  <2> QED BY <1>5, <2>1, <2>2 DEF SeenIsCalled, Batched
<1>13. \A d \in UpdatedDeps(c) : c \in Reaches(d) \/ Batched(b, d)
  <2>1. SUFFICES ASSUME NEW d \in UpdatedDeps(c) PROVE c \in Reaches(d) \/ Batched(b, d)
    OBVIOUS
  <2>2. d \in sorting.visited
    BY <1>3, <1>5, <1>8, <2>1 DEF OpenDeps, UpdatedDeps
  <2>3. CASE OnStack(d)
    <3>1. PICK i \in DOMAIN s : s[i].container = d
      BY <1>2, <2>3 DEF OnStack
    <3>2. CASE i = n
      BY <1>2, <1>3, <2>1, <3>1, <3>2, ReachesOn
    <3>3. CASE i # n
      BY <1>3, <1>8, <3>1, <3>3
    <3> QED BY <3>2, <3>3
  <2> QED BY <1>1, <1>2, <2>2, <2>3 DEF SeenIsCalled
<1>14. Grouped(f)
  <2>1. SUFFICES ASSUME NEW q \in Priority, NEW k \in DOMAIN f[q]
                 PROVE  /\ f[q][k] \in sorting.targets /\ settings[f[q][k]].priority = q
                        /\ \A m \in DOMAIN f[q] : f[q][m] = f[q][k] => m = k
                        /\ InPlace(f, q, k)
    BY DEF Grouped
  <2>2. CASE k \in DOMAIN b[q]
    <3>1. f[q][k] = b[q][k] /\ \A m \in DOMAIN b[q] : f[q][m] = b[q][m]
      BY <1>7, <2>2
    <3>2. /\ b[q][k] \in sorting.targets /\ settings[b[q][k]].priority = q
          /\ \A m \in DOMAIN b[q] : b[q][m] = b[q][k] => m = k
          /\ InPlace(b, q, k)
      BY <1>1, <1>2, <2>2 DEF Grouped
    <3>3. b[q][k] # c
      BY <1>8, <2>2, <3>2 DEF Batched
    <3>4. \A m \in DOMAIN f[q] : f[q][m] = f[q][k] => m = k
      BY <1>7, <2>2, <3>1, <3>2, <3>3
    <3>5. InPlace(f, q, k)
      <4>1. \A m \in 1 .. k - 1 : m \in DOMAIN b[q] 
        BY <1>3, <2>2 DEF Batches
      <4>2. \A d \in UpdatedDeps(b[q][k]) : Batched(b, d) => Batched(f, d)
        BY <1>1, <1>9, <1>10, <3>2
      <4> QED BY <3>1, <3>2, <4>1, <4>2 DEF InPlace
    <3> QED BY <3>1, <3>2, <3>4, <3>5
  <2>3. CASE k \notin DOMAIN b[q]
    <3>1. q = p /\ k = Len(b[p]) + 1 /\ f[q][k] = c
      BY <1>7, <2>1, <2>3
    <3>2. c \in sorting.targets /\ settings[c].priority = q
      BY <1>2, <1>8, <3>1 DEF OrderTypeOK
    <3>3. \A m \in DOMAIN f[q] : f[q][m] = c => m = k
      <4>1. \A m \in DOMAIN b[p] : f[p][m] # c
        <5>1. \A m \in DOMAIN b[p] : b[p][m] # c
          BY <1>2, <1>8 DEF Batched
        <5> QED BY <1>7, <5>1
      <4> QED BY <1>7, <3>1, <4>1
    <3>4. InPlace(f, q, k)
      <4>1. SUFFICES ASSUME NEW d \in UpdatedDeps(c), c \notin Reaches(d), ~(settings[d].priority > p)
                     PROVE  \/ settings[d].priority = p /\ \E m \in 1 .. k - 1 : f[p][m] = d
                            \/ settings[d].priority < p /\ Batched(f, d)
        BY <3>1 DEF InPlace
      <4>2. Batched(b, d) /\ d \in Target /\ settings[d].priority \in Priority
        BY <1>3, <1>9, <1>13, <4>1
      <4>3. CASE settings[d].priority = p
        <5>1. PICK m \in DOMAIN b[p] : b[p][m] = d
          BY <4>2, <4>3 DEF Batched
        <5>2. m \in 1 .. k - 1 /\ f[p][m] = d
          BY <1>7, <3>1, <5>1
        <5> QED BY <4>3, <5>2
      <4>4. CASE settings[d].priority < p
        BY <1>10, <4>2, <4>4
      <4>5. settings[d].priority \in Nat /\ p \in Nat
        BY <1>3, <4>2, OrderAssumption
      <4> QED BY <4>1, <4>3, <4>4, <4>5
    <3> QED BY <3>1, <3>2, <3>3, <3>4
  <2> QED BY <2>2, <2>3
<1>15. Grouped(f)'
  BY <1>5, <1>7, <1>14, StaysGrouped
<1>16. Grouped(sorting.batches)'
  BY <1>5, <1>15 DEF Grouped, InPlace, Batched
<1> QED BY <1>11, <1>12, <1>16

-----------------------------------------------------------------------------
(* Types.                                                                  *)

LEMMA NextIsOne ==
  ASSUME OrderTypeOK, NEW p \in Priority, NEW q \in Priority, IsNext(p), IsNext(q)
  PROVE  p = q
<1>1. p <= q /\ q <= p /\ p \in Nat /\ q \in Nat
  BY OrderAssumption DEF IsNext
<1> QED BY <1>1

LEMMA TypeOfUnsorted ==
  /\ Unsorted \in [pc : {"idle", "sorting", "sent"}, targets : SUBSET Target,
                   remaining : SUBSET Target, visited : SUBSET Target,
                   stack : Seq(Call), batches : Batches]
  /\ NothingSent \in [batches : Batches, due : SUBSET Priority, position : Nat,
                      selfPending : BOOLEAN]
<1>1. NoBatches \in Batches
  BY DEF NoBatches, Batches
<1> QED BY <1>1 DEF Unsorted, NothingSent

LEMMA StepOrderType ==
  ASSUME OrderTypeOK, SortInv, [OrderNext]_orderVars
  PROVE  OrderTypeOK'
<1> USE DEF OrderTypeOK
<1>1. ASSUME NEW c \in Target, NEW p \in Priority, NEW deps \in SUBSET Dependency,
             UpdateContainerOrchestration(c, p, deps)
      PROVE  OrderTypeOK'
  <2> DEFINE row == [settings[c] EXCEPT !.priority = p, !.dependsOn = deps]
  <2>1. row \in [priority : Priority, dependsOn : SUBSET Dependency, labelDependsOn : LabelDependsOn]
    OBVIOUS
  <2>2. /\ settings' = [settings EXCEPT ![c] = row]
        /\ UNCHANGED <<selfContainer, sorting, sequence, recreated>>
    BY <1>1 DEF UpdateContainerOrchestration
  <2> HIDE DEF row
  <2>3. settings' \in [Target -> [priority : Priority, dependsOn : SUBSET Dependency,
                                  labelDependsOn : LabelDependsOn]]
    BY <2>1, <2>2
  <2>4. \A q \in sequence'.due : IsNext(q)' => sequence'.position <= Len(sequence'.batches[q])
    BY <2>2 DEF IsNext
  <2> QED BY <2>2, <2>3, <2>4
<1>2. ASSUME NEW targets \in SUBSET Target, NEW b \in Batches, Sent(targets, b)
      PROVE  /\ sequence' \in [batches : Batches, due : SUBSET Priority, position : Nat,
                              selfPending : BOOLEAN]
             /\ \A p \in sequence'.due : IsNext(p)' => sequence'.position <= Len(sequence'.batches[p])
  <2>1. \A p \in Priority : Len(b[p]) \in Nat
    BY DEF Batches
  <2> QED BY <1>2, <2>1 DEF Sent
<1>3. ASSUME NEW targets \in SUBSET Target, ResolveUnordered(targets) PROVE OrderTypeOK'
  <2>1. PICK order \in SetToSeqs(targets) :
          Sent(targets, [NoBatches EXCEPT ![DefaultPriority] = order])
    BY <1>3 DEF ResolveUnordered
  <2>2. order \in Seq(Target)
    <3>1. Cardinality(targets) \in Nat
      BY OrderAssumption, FS_Subset, FS_CardinalityType
    <3>2. order \in [1 .. Cardinality(targets) -> Target]
      BY <2>1 DEF SetToSeqs
    <3>3. \A n \in Nat : [1 .. n -> Target] \subseteq Seq(Target)
      OBVIOUS
    <3> QED BY <3>1, <3>2, <3>3
  <2>3. [NoBatches EXCEPT ![DefaultPriority] = order] \in Batches
    <3>1. NoBatches \in Batches
      BY DEF NoBatches, Batches
    <3> QED BY <2>2, <3>1 DEF Batches
  <2>4. /\ sorting' = [sorting EXCEPT !.pc = "sent", !.targets = targets] /\ sorting = Unsorted
        /\ UNCHANGED <<settings, selfContainer, recreated>>
    BY <1>3 DEF ResolveUnordered, SortInv
  <2>5. sorting'.remaining = {} /\ sorting'.visited = {}
    BY <2>4 DEF Unsorted
  <2> QED BY <1>2, <2>1, <2>3, <2>4, <2>5
<1>4. ASSUME NEW targets \in SUBSET Target, ResolveOrdered(targets) PROVE OrderTypeOK'
  <2>1. /\ sorting' = [sorting EXCEPT !.pc = "sorting", !.targets = targets, !.remaining = targets]
        /\ sorting = Unsorted /\ UNCHANGED <<settings, selfContainer, sequence, recreated>>
    BY <1>4 DEF ResolveOrdered, SortInv
  <2>2. sorting'.visited = {} /\ sorting'.remaining = targets /\ sorting'.targets = targets
    BY <2>1 DEF Unsorted
  <2> QED BY <2>1, <2>2 DEF IsNext
<1>5. ASSUME NEW c \in sorting.targets PROVE Visit(c) \in Seq(Call)
  <2>1. [container |-> c, deps |-> settings[c].dependsOn] \in Call
    BY DEF Call
  <2> QED BY <2>1, AppendOf DEF Visit
<1>6. ASSUME NEW c \in Target, VisitTarget(c) PROVE OrderTypeOK'
  BY <1>5, <1>6 DEF VisitTarget, IsNext
<1>7. ASSUME NEW c \in Target, VisitDependency(c) PROVE OrderTypeOK'
  <2>1. c \in sorting.targets
    BY <1>7 DEF VisitDependency, OpenDeps
  <2> QED BY <1>5, <1>7, <2>1 DEF VisitDependency, IsNext
<1>8. CASE ReturnFromVisit
  <2>1. Front(sorting.stack) \in Seq(Call) /\ Top \in Call
    <3>1. sorting.stack \in Seq(Call) /\ sorting.stack # <<>>
      BY <1>8 DEF ReturnFromVisit
    <3>2. Front(sorting.stack) \in Seq(Call) /\ Top = sorting.stack[Len(sorting.stack)]
          /\ Len(sorting.stack) \in DOMAIN sorting.stack
      BY <3>1, FrontOf DEF Top
    <3> QED BY <3>1, <3>2
  <2>2. PutLast(Top.container) \in Batches
    <3>1. PICK c \in Target, p \in Priority : c = Top.container /\ p = settings[c].priority
      BY <2>1 DEF Call
    <3>2. Append(sorting.batches[p], c) \in Seq(Target)
      BY AppendOf DEF Batches
    <3> QED BY <3>1, <3>2 DEF PutLast, Batches
  <2> QED BY <1>8, <2>1, <2>2 DEF ReturnFromVisit, IsNext
<1>9. CASE SendBatches
  <2>1. Sent(sorting.targets, sorting.batches) /\ sorting' = [sorting EXCEPT !.pc = "sent"]
        /\ UNCHANGED <<settings, selfContainer, recreated>>
    BY <1>9 DEF SendBatches
  <2>2. PICK b \in Batches, targets \in SUBSET Target : b = sorting.batches /\ targets = sorting.targets
    OBVIOUS
  <2> QED BY <1>2, <2>1, <2>2
<1>10. ASSUME NEW p \in Priority, RecreateNext(p) PROVE OrderTypeOK'
  <2>1. /\ IsNext(p) /\ sequence' = [sequence EXCEPT !.position = @ + 1]
        /\ sequence.position # Len(sequence.batches[p])
        /\ UNCHANGED <<settings, selfContainer, sorting>>
    BY <1>10 DEF RecreateNext, BatchDone
  <2>2. sequence.position + 1 \in 1 .. Len(sequence.batches[p]) /\ sequence.batches[p] \in Seq(Target)
    <3>1. sequence.batches[p] \in Seq(Target)
      BY DEF Batches
    <3>2. Len(sequence.batches[p]) \in Nat
      BY <3>1
    <3>3. sequence.position <= Len(sequence.batches[p]) /\ sequence.position \in Nat
      BY <2>1 DEF IsNext
    <3> QED BY <2>1, <3>1, <3>2, <3>3
  <2>3. recreated' \in Seq(Target)
    <3>1. sequence.batches[p][sequence.position + 1] \in Target
      BY <2>2
    <3> QED BY <1>10, <3>1, AppendOf DEF RecreateNext
  <2>4. \A q \in Priority : IsNext(q)' => q = p
    BY <2>1, NextIsOne DEF IsNext
  <2>5. /\ sequence'.batches = sequence.batches /\ sequence'.due = sequence.due
        /\ sequence'.position = sequence.position + 1
    BY <2>1
  <2>6. \A q \in sequence'.due : IsNext(q)' => sequence'.position <= Len(sequence'.batches[q])
    BY <2>2, <2>4, <2>5
  <2>7. sequence.position + 1 \in Nat
    BY <2>1
  <2> QED BY <2>1, <2>3, <2>6, <2>7
<1>11. ASSUME NEW p \in Priority, NextBatch(p) PROVE OrderTypeOK'
  <2>1. \A q \in Priority : Len(sequence.batches[q]) \in Nat
    <3>1. \A q \in Priority : sequence.batches[q] \in Seq(Target)
      BY DEF Batches
    <3> QED BY <3>1
  <2>2. /\ sequence' = [sequence EXCEPT !.due = @ \ {p}, !.position = 0]
        /\ UNCHANGED <<settings, selfContainer, sorting, recreated>>
    BY <1>11 DEF NextBatch
  <2>3. /\ sequence'.position = 0 /\ sequence'.due \subseteq Priority
        /\ sequence'.batches = sequence.batches
    BY <2>2
  <2>4. \A q \in sequence'.due : sequence'.position <= Len(sequence'.batches[q])
    BY <2>1, <2>3
  <2> QED BY <2>2, <2>4
<1>12. ASSUME NEW p \in Priority, SequenceTimesOut(p) PROVE OrderTypeOK'
  BY <1>12 DEF SequenceTimesOut
<1>13. CASE RecreateSelf
  <2>1. selfContainer \in Target
    BY <1>13 DEF RecreateSelf, SortInv
  <2> QED BY <1>13, <2>1, AppendOf DEF RecreateSelf, IsNext
<1>14. CASE UpdateEnds
  BY <1>14, TypeOfUnsorted DEF UpdateEnds, Unsorted, NothingSent
<1>15. CASE UNCHANGED orderVars
  BY <1>15 DEF orderVars, IsNext
<1> QED
  BY <1>1, <1>3, <1>4, <1>6, <1>7, <1>8, <1>9, <1>10, <1>11, <1>12, <1>13, <1>14, <1>15 DEF OrderNext

-----------------------------------------------------------------------------
(* The invariant.                                                          *)

\* The sort's part of it, when its stack stays.
LEMMA StaysSorted ==
  ASSUME OrderTypeOK, UNCHANGED settings, sorting'.targets = sorting.targets,
         sorting'.batches = sorting.batches, sorting'.visited = sorting.visited,
         sorting'.stack = sorting.stack,
         Grouped(sorting.batches), StackDepends, SeenIsCalled
  PROVE  Grouped(sorting.batches)' /\ StackDepends' /\ SeenIsCalled'
<1>1. PICK b \in Batches : b = sorting.batches
  BY DEF OrderTypeOK
<1>2. Grouped(b)'
  BY <1>1, StaysGrouped
<1>3. Grouped(sorting.batches)'
  BY <1>1, <1>2 DEF Grouped, InPlace, Batched
<1>4. \A c \in Target : Reaches(c)' = Reaches(c)
  BY SameDependencies
<1>5. StackDepends'
  <2>1. PICK s, v : s = sorting.stack /\ v = sorting.visited
    OBVIOUS
  <2>2. sorting'.stack = s /\ sorting'.visited = v /\ sorting'.batches = b
    BY <1>1, <2>1
  <2>3. ASSUME NEW i \in DOMAIN s
        PROVE  /\ s[i].container \in v
               /\ s[i].deps = settings'[s[i].container].dependsOn
               /\ ~Batched(b, s[i].container)
    BY <1>1, <2>1, <2>3 DEF StackDepends
  <2>4. ASSUME NEW i \in DOMAIN s, NEW j \in DOMAIN s, i < j
        PROVE  /\ \A c \in Target : c = s[i].container => s[j].container \in Reaches(c)'
               /\ s[j].container # s[i].container
    BY <1>4, <2>1, <2>4 DEF StackDepends
  <2>5. \A i \in DOMAIN s :
          ~\E k \in DOMAIN b[settings'[s[i].container].priority] :
             b[settings'[s[i].container].priority][k] = s[i].container
    BY <2>3 DEF Batched
  <2> QED BY <2>2, <2>3, <2>4, <2>5 DEF StackDepends, Batched
<1>6. SeenIsCalled'
  BY DEF SeenIsCalled, OnStack, Batched
<1> QED BY <1>3, <1>5, <1>6

\* What is sent without a sort has no dependencies, and each container once.
LEMMA UnorderedIsGrouped ==
  ASSUME OrderTypeOK, SortInv, NEW targets \in SUBSET Target, ResolveUnordered(targets)
  PROVE  Grouped(sequence.batches)'
<1>1. PICK order \in SetToSeqs(targets) :
        Sent(targets, [NoBatches EXCEPT ![DefaultPriority] = order])
  BY DEF ResolveUnordered
<1>2. PICK b : b = [NoBatches EXCEPT ![DefaultPriority] = order]
  OBVIOUS
<1>3. /\ sequence'.batches = b /\ sorting'.targets = targets /\ UNCHANGED settings
      /\ \A c \in targets : settings[c].priority = DefaultPriority /\ settings[c].dependsOn = {}
  BY <1>1, <1>2 DEF Sent, ResolveUnordered, HasLabels, OrderTypeOK
<1>4. /\ \A i \in DOMAIN order : order[i] \in targets
      /\ \A i, j \in DOMAIN order : order[i] = order[j] => i = j
  BY <1>1 DEF SetToSeqs
<1>5. \A p \in Priority : b[p] = IF p = DefaultPriority THEN order ELSE <<>>
  BY <1>2 DEF NoBatches
<1>6. \A p \in Priority : \A k \in DOMAIN b[p] : p = DefaultPriority /\ b[p] = order
  BY <1>5
<1>7. ASSUME NEW p \in Priority, NEW k \in DOMAIN b[p]
      PROVE  /\ b[p][k] \in sorting'.targets /\ settings'[b[p][k]].priority = p
             /\ \A m \in DOMAIN b[p] : b[p][m] = b[p][k] => m = k
             /\ settings'[b[p][k]].dependsOn = {}
  BY <1>3, <1>4, <1>6, <1>7
<1> QED BY <1>3, <1>7 DEF Grouped, InPlace, UpdatedDeps

LEMMA StepSort ==
  ASSUME OrderTypeOK, SortInv, [OrderNext]_orderVars
  PROVE  SortInv'
<1>1. ASSUME NEW c \in Target, NEW p \in Priority, NEW deps \in SUBSET Dependency,
             UpdateContainerOrchestration(c, p, deps)
      PROVE  SortInv'
  BY <1>1 DEF UpdateContainerOrchestration, SortInv
<1>2. ASSUME NEW targets \in SUBSET Target, ResolveUnordered(targets) PROVE SortInv'
  <2>1. /\ sorting = Unsorted /\ sorting' = [sorting EXCEPT !.pc = "sent", !.targets = targets]
        /\ sequence'.selfPending = (selfContainer \in targets) /\ UNCHANGED selfContainer
    BY <1>2 DEF ResolveUnordered, SortInv, Sent
  <2>2. sorting'.pc = "sent" /\ sorting'.stack = <<>> /\ sorting'.targets = targets
    BY <2>1 DEF Unsorted
  <2> QED BY <1>2, <2>1, <2>2, UnorderedIsGrouped DEF SortInv
<1>3. ASSUME NEW targets \in SUBSET Target, ResolveOrdered(targets) PROVE SortInv'
  <2>1. /\ sorting' = [sorting EXCEPT !.pc = "sorting", !.targets = targets, !.remaining = targets]
        /\ sorting = Unsorted /\ UNCHANGED <<sequence, recreated>>
        /\ sequence = NothingSent /\ recreated = <<>>
    BY <1>3 DEF ResolveOrdered, SortInv
  <2>2. /\ sorting'.pc = "sorting" /\ sorting'.stack = <<>> /\ sorting'.visited = {}
        /\ sorting'.batches = NoBatches
    BY <2>1 DEF Unsorted
  <2>3. \A p \in Priority : DOMAIN NoBatches[p] = {}
    BY DEF NoBatches
  <2>4. Grouped(sorting.batches)'
    BY <2>2, <2>3 DEF Grouped
  <2>5. StackDepends' /\ SeenIsCalled'
    BY <2>2, <2>3 DEF StackDepends, SeenIsCalled
  <2> QED BY <2>1, <2>2, <2>4, <2>5 DEF SortInv, NothingSent
<1>4. sorting.stack # <<>> => sorting.pc = "sorting"
  BY DEF SortInv, Unsorted, OrderTypeOK
<1>5. ASSUME NEW c \in Target, VisitTarget(c) PROVE SortInv'
  <2>1. /\ sorting.pc = "sorting" /\ sorting.stack = <<>> /\ c \in sorting.remaining
        /\ UNCHANGED <<settings, selfContainer, sequence, recreated>>
    BY <1>5 DEF VisitTarget
  <2>2. CASE c \in sorting.visited
    <3>1. /\ sorting'.pc = "sorting" /\ sorting'.stack = sorting.stack
          /\ sorting'.targets = sorting.targets /\ sorting'.batches = sorting.batches
          /\ sorting'.visited = sorting.visited
      BY <1>5, <2>1, <2>2 DEF VisitTarget, OrderTypeOK
    <3> QED BY <2>1, <3>1, StaysSorted DEF SortInv
  <2>3. CASE c \notin sorting.visited
    <3>1. /\ sorting'.pc = "sorting" /\ sorting'.stack = Visit(c)
          /\ sorting'.targets = sorting.targets /\ sorting'.batches = sorting.batches
          /\ sorting'.visited = sorting.visited \cup {c} /\ c \in sorting.targets
      BY <1>5, <2>1, <2>3 DEF VisitTarget, OrderTypeOK
    <3> QED BY <2>1, <2>3, <3>1, CallKeeps DEF SortInv
  <2> QED BY <2>2, <2>3
<1>6. ASSUME NEW c \in Target, VisitDependency(c) PROVE SortInv'
  <2>1. /\ sorting.stack # <<>> /\ sorting.pc = "sorting" /\ c \in OpenDeps
        /\ UNCHANGED <<settings, selfContainer, sequence, recreated>>
    BY <1>4, <1>6 DEF VisitDependency
  <2>2. /\ sorting'.pc = "sorting" /\ sorting'.stack = Visit(c)
        /\ sorting'.targets = sorting.targets /\ sorting'.batches = sorting.batches
        /\ sorting'.visited = sorting.visited \cup {c} /\ c \in sorting.targets \ sorting.visited
    BY <1>6, <2>1 DEF VisitDependency, OpenDeps, OrderTypeOK
  <2>3. c \in UpdatedDeps(Top.container)
    <3>1. PICK n : n = Len(sorting.stack)
      OBVIOUS
    <3>2. n \in DOMAIN sorting.stack /\ Top = sorting.stack[n]
      BY <2>1, <3>1, FrontOf DEF Top, OrderTypeOK
    <3>3. Top.deps = settings[Top.container].dependsOn
      BY <2>1, <3>2 DEF StackDepends, SortInv
    <3> QED BY <2>1, <3>3 DEF OpenDeps, UpdatedDeps
  <2> QED BY <2>1, <2>2, <2>3, CallKeeps DEF SortInv
<1>7. CASE ReturnFromVisit
  <2>1. /\ sorting.pc = "sorting" /\ sorting'.pc = sorting.pc
        /\ UNCHANGED <<sequence, recreated>>
    BY <1>4, <1>7 DEF ReturnFromVisit, OrderTypeOK
  <2> QED BY <1>7, <2>1, ReturnKeeps DEF SortInv
<1>8. CASE SendBatches
  <2>1. /\ sorting'.pc = "sent" /\ sorting'.stack = <<>> /\ sorting'.targets = sorting.targets
        /\ sequence'.batches = sorting.batches /\ sorting.pc = "sorting"
        /\ sequence'.selfPending = (selfContainer \in sorting.targets)
        /\ UNCHANGED <<settings, selfContainer>>
    BY <1>8 DEF SendBatches, Sent, OrderTypeOK
  <2>2. PICK b \in Batches : b = sorting.batches
    BY DEF OrderTypeOK
  <2>3. Grouped(b)'
    BY <2>1, <2>2, StaysGrouped DEF SortInv
  <2>4. Grouped(sequence.batches)'
    BY <2>1, <2>2, <2>3 DEF Grouped, InPlace, Batched
  <2> QED BY <2>1, <2>4 DEF SortInv
<1>9. ASSUME sorting.pc = "sent", sequence'.batches = sequence.batches,
             sequence'.selfPending => sequence.selfPending, UNCHANGED <<settings, selfContainer, sorting>>
      PROVE  SortInv'
  <2>1. PICK b \in Batches : b = sequence.batches
    BY DEF OrderTypeOK
  <2>2. Grouped(b)'
    BY <1>9, <2>1, StaysGrouped DEF SortInv
  <2>3. Grouped(sequence.batches)'
    BY <1>9, <2>1, <2>2 DEF Grouped, InPlace, Batched
  <2> QED BY <1>9, <2>3 DEF SortInv
<1>10. ASSUME NEW p \in Priority, RecreateNext(p) \/ NextBatch(p) \/ SequenceTimesOut(p)
       PROVE  SortInv'
  <2>1. /\ sorting.pc = "sent" /\ sequence'.batches = sequence.batches
        /\ sequence'.selfPending => sequence.selfPending
        /\ UNCHANGED <<settings, selfContainer, sorting>>
    BY <1>10 DEF RecreateNext, NextBatch, SequenceTimesOut, SequenceRuns, OrderTypeOK
  <2> QED BY <1>9, <2>1
<1>11. CASE RecreateSelf
  <2>1. /\ sorting.pc = "sent" /\ sequence'.batches = sequence.batches
        /\ sequence'.selfPending => sequence.selfPending
        /\ UNCHANGED <<settings, selfContainer, sorting>>
    BY <1>11 DEF RecreateSelf, OrderTypeOK
  <2> QED BY <1>9, <2>1
<1>12. CASE UpdateEnds
  BY <1>12 DEF UpdateEnds, SortInv, Unsorted
<1>13. CASE UNCHANGED orderVars
  <2>1. sorting.pc = "sorting" => Grouped(sorting.batches)' /\ StackDepends' /\ SeenIsCalled'
    BY <1>13, StaysSorted DEF SortInv, orderVars
  <2>2. CASE sorting.pc = "sent"
    BY <1>9, <1>13, <2>2 DEF orderVars
  <2> QED BY <1>13, <2>1, <2>2 DEF SortInv, orderVars
<1> QED
  BY <1>1, <1>2, <1>3, <1>5, <1>6, <1>7, <1>8, <1>10, <1>11, <1>12, <1>13 DEF OrderNext

\* A container that is recreated when what it depends on has been, and for the first time.
LEMMA RecreatedInOrder ==
  ASSUME OrderTypeOK, UpdatesInOrder, NEW x \in Target, x \notin ToSet(recreated),
         UNCHANGED <<settings, selfContainer, sorting>>, recreated' = Append(recreated, x),
         \A d \in UpdatedDeps(x) :
           \/ x \in Reaches(d) \/ selfContainer \in {x, d}
           \/ settings[d].priority > settings[x].priority
           \/ d \in ToSet(recreated)
  PROVE  UpdatesInOrder'
<1>1. PICK r, n : r = recreated /\ n = Len(r)
  OBVIOUS
<1>2. /\ recreated' = Append(r, x) /\ r \in Seq(Target) /\ DOMAIN r = 1 .. n /\ n \in Nat
      /\ DOMAIN Append(r, x) = 1 .. n + 1 /\ Append(r, x)[n + 1] = x
      /\ \A i \in DOMAIN r : Append(r, x)[i] = r[i]
  BY <1>1, AppendOf DEF OrderTypeOK
<1>3. \A i \in DOMAIN r : r[i] # x
  BY <1>1 DEF ToSet
<1>4. \A c \in Target : /\ Reaches(c)' = Reaches(c) /\ UpdatedDeps(c)' = UpdatedDeps(c)
                        /\ UpdatedDeps(c) \subseteq Target
  BY SameDependencies DEF UpdatedDeps, OrderTypeOK
<1>5. \A i, j \in 1 .. n + 1 : Append(r, x)[i] = Append(r, x)[j] => i = j
  <2>1. \A i, j \in DOMAIN r : r[i] = r[j] => i = j
    BY <1>1 DEF UpdatesInOrder
  <2> QED BY <1>2, <1>3, <2>1
<1>6. ASSUME NEW i \in 1 .. n + 1, NEW c \in Target, c = Append(r, x)[i],
             NEW d \in UpdatedDeps(c), c \notin Reaches(d), selfContainer \notin {c, d},
             ~(settings[d].priority > settings[c].priority)
      PROVE  /\ \E j \in 1 .. n + 1 : Append(r, x)[j] = d
             /\ \A j, k \in 1 .. n + 1 : Append(r, x)[k] = c /\ Append(r, x)[j] = d => j < k
  <2>1. CASE i = n + 1
    <3>1. PICK m \in DOMAIN r : r[m] = d
      BY <1>1, <1>2, <1>6, <2>1 DEF ToSet
    <3>2. c = x /\ d # x
      BY <1>2, <1>3, <1>6, <2>1, <3>1
    <3>3. \A k \in 1 .. n + 1 : Append(r, x)[k] = x => k = n + 1
      BY <1>2, <1>3
    <3>4. \A k \in 1 .. n + 1 : Append(r, x)[k] = d => k # n + 1
      BY <1>2, <3>2
    <3>5. \A j, k \in 1 .. n + 1 : Append(r, x)[k] = c /\ Append(r, x)[j] = d => j < k
      BY <1>2, <3>2, <3>3, <3>4
    <3> QED BY <1>2, <3>1, <3>5
  <2>2. CASE i \in DOMAIN r
    <3>1. c = r[i] /\ c # x
      BY <1>2, <1>3, <1>6, <2>2
    <3>2. d \in ToSet(r) /\ \A j, k \in DOMAIN r : r[k] = c /\ r[j] = d => j < k
      BY <1>1, <1>6, <2>2, <3>1 DEF UpdatesInOrder, Before
    <3>3. PICK m \in DOMAIN r : r[m] = d
      BY <3>2 DEF ToSet
    <3>4. \A k \in 1 .. n + 1 : Append(r, x)[k] = c \/ Append(r, x)[k] = d => k \in DOMAIN r
      BY <1>2, <1>3, <3>1, <3>3
    <3> QED BY <1>2, <3>2, <3>3, <3>4
  <2> QED BY <1>2, <2>1, <2>2
<1>7. ASSUME NEW i \in DOMAIN recreated', NEW d \in UpdatedDeps(recreated[i])'
      PROVE  \/ recreated'[i] \in Reaches(d)' \/ selfContainer' \in {recreated'[i], d}
             \/ settings'[d].priority > settings'[recreated'[i]].priority
             \/ d \in ToSet(recreated') /\ Before(d, recreated[i])'
  <2>1. PICK c : c = Append(r, x)[i]
    OBVIOUS
  <2>2. c \in Target /\ c = recreated'[i] /\ i \in 1 .. n + 1
    BY <1>2, <1>7, <2>1
  <2>3. d \in UpdatedDeps(c) /\ d \in Target
    <3>1. UpdatedDeps(recreated[i])' = UpdatedDeps(c)
      BY <2>2 DEF UpdatedDeps
    <3> QED BY <1>4, <1>7, <2>2, <3>1
  <2>4. \/ c \in Reaches(d) \/ selfContainer \in {c, d} \/ settings[d].priority > settings[c].priority
        \/ /\ \E j \in 1 .. n + 1 : Append(r, x)[j] = d
           /\ \A j, k \in 1 .. n + 1 : Append(r, x)[k] = c /\ Append(r, x)[j] = d => j < k
    BY <1>6, <2>1, <2>2, <2>3
  <2> QED BY <1>2, <1>4, <2>2, <2>3, <2>4 DEF ToSet, Before
<1> QED BY <1>2, <1>5, <1>7 DEF UpdatesInOrder

\* What the agent turns to next has not been recreated, and what it depends on has.
LEMMA NextInOrder ==
  ASSUME OrderTypeOK, SortInv, SentInv, NEW p \in Priority, RecreateNext(p),
         NEW c \in Target, c = sequence.batches[p][sequence.position + 1], c # selfContainer
  PROVE  /\ c \notin ToSet(recreated)
         /\ \A d \in UpdatedDeps(c) :
              \/ c \in Reaches(d) \/ selfContainer \in {c, d}
              \/ settings[d].priority > settings[c].priority
              \/ d \in ToSet(recreated)
<1>1. PICK b, k : b = sequence.batches /\ k = sequence.position + 1
  OBVIOUS
<1>2. /\ b \in Batches /\ b[p] \in Seq(Target) /\ Grouped(b) /\ IsNext(p) /\ p \in sequence.due
      /\ sequence.position \in Nat
  BY <1>1 DEF RecreateNext, SequenceRuns, SortInv, OrderTypeOK, IsNext, Batches
<1>3. k \in DOMAIN b[p]
  <2>1. sequence.position <= Len(b[p]) /\ sequence.position # Len(b[p])
    BY <1>1, <1>2 DEF OrderTypeOK, RecreateNext, BatchDone
  <2>2. Len(b[p]) \in Nat /\ DOMAIN b[p] = 1 .. Len(b[p])
    BY <1>2
  <2> QED BY <1>1, <1>2, <2>1, <2>2
<1>4. /\ c = b[p][k] /\ c \in sorting.targets /\ settings[c].priority = p /\ InPlace(b, p, k)
      /\ \A m \in DOMAIN b[p] : b[p][m] = c => m = k
  BY <1>1, <1>2, <1>3 DEF Grouped
<1>5. c \notin ToSet(recreated)
  <2>1. SUFFICES ASSUME NEW i \in DOMAIN recreated, recreated[i] = c PROVE FALSE
    BY DEF ToSet
  <2>2. PICK q \in Priority : \E m \in DOMAIN b[q] : b[q][m] = c /\ DoneWith(q, m)
    BY <1>1, <2>1 DEF SentInv
  <2>3. PICK m \in DOMAIN b[q] : b[q][m] = c /\ DoneWith(q, m)
    BY <2>2
  <2>4. q = p /\ m = k
    BY <1>2, <1>4, <2>3 DEF Grouped
  <2> QED BY <1>1, <1>2, <2>3, <2>4 DEF DoneWith
<1>6. ASSUME NEW q \in Priority, NEW m \in DOMAIN b[q], DoneWith(q, m), b[q][m] # selfContainer
      PROVE  b[q][m] \in ToSet(recreated)
  BY <1>1, <1>2, <1>6 DEF SentInv, ToSet
<1>7. ASSUME NEW d \in UpdatedDeps(c), c \notin Reaches(d), selfContainer \notin {c, d},
             ~(settings[d].priority > p)
      PROVE  d \in ToSet(recreated)
  <2>1. \/ settings[d].priority = p /\ \E m \in 1 .. k - 1 : b[p][m] = d
        \/ settings[d].priority < p /\ Batched(b, d)
    BY <1>4, <1>7 DEF InPlace
  <2>2. CASE \E m \in 1 .. k - 1 : b[p][m] = d
    <3>1. PICK m \in 1 .. k - 1 : b[p][m] = d
      BY <2>2
    <3>2. m \in DOMAIN b[p] /\ m <= sequence.position
      <4>1. DOMAIN b[p] = 1 .. Len(b[p]) /\ Len(b[p]) \in Nat
        BY <1>2
      <4> QED BY <1>1, <1>2, <1>3, <3>1, <4>1
    <3>3. DoneWith(p, m)
      BY <1>2, <3>2 DEF DoneWith
    <3> QED BY <1>6, <1>7, <3>1, <3>2, <3>3
  <2>3. CASE settings[d].priority < p /\ Batched(b, d)
    <3>1. PICK q \in Priority : q < p /\ \E m \in DOMAIN b[q] : b[q][m] = d
      BY <2>3 DEF Batched, UpdatedDeps, OrderTypeOK
    <3>2. q \notin sequence.due
      <4>1. q \in Nat /\ p \in Nat
        BY OrderAssumption
      <4> QED BY <1>2, <3>1, <4>1 DEF IsNext
    <3>3. PICK m \in DOMAIN b[q] : b[q][m] = d
      BY <3>1
    <3>4. DoneWith(q, m)
      BY <3>2 DEF DoneWith
    <3> QED BY <1>6, <1>7, <3>3, <3>4
  <2> QED BY <2>1, <2>2, <2>3
<1> QED BY <1>4, <1>5, <1>7

\* The agent recreates what it comes to; the records of what it was through keep up.
LEMMA RecreateKeepsSent ==
  ASSUME OrderTypeOK, SortInv, SentInv, OrderTypeOK', NEW p \in Priority, RecreateNext(p)
  PROVE  SentInv'
<1>1. PICK b, k, r, due : b = sequence.batches /\ k = sequence.position + 1 /\ r = recreated
                          /\ due = sequence.due
  OBVIOUS
<1>2. /\ b \in Batches /\ b[p] \in Seq(Target) /\ Grouped(b) /\ IsNext(p) /\ p \in due
      /\ sequence.position \in Nat /\ r \in Seq(Target)
  BY <1>1 DEF RecreateNext, SequenceRuns, SortInv, OrderTypeOK, IsNext, Batches
<1>3. k \in DOMAIN b[p] /\ k \in Nat
  <2>1. sequence.position <= Len(b[p]) /\ sequence.position # Len(b[p])
    BY <1>1, <1>2 DEF OrderTypeOK, RecreateNext, BatchDone
  <2>2. Len(b[p]) \in Nat /\ DOMAIN b[p] = 1 .. Len(b[p])
    BY <1>2
  <2> QED BY <1>1, <1>2, <2>1, <2>2
<1>4. PICK c \in Target : c = b[p][k]
  BY <1>2, <1>3
<1>5. /\ sequence' = [sequence EXCEPT !.position = @ + 1]
      /\ recreated' = IF c = selfContainer THEN r ELSE Append(r, c)
      /\ UNCHANGED <<settings, selfContainer, sorting>>
  BY <1>1, <1>4 DEF RecreateNext
<1>6. /\ sequence'.batches = b /\ sequence'.due = due /\ sequence'.position = k
      /\ sequence'.selfPending = sequence.selfPending
  BY <1>1, <1>5 DEF OrderTypeOK
<1>7. /\ DOMAIN Append(r, c) = 1 .. Len(r) + 1 /\ Append(r, c)[Len(r) + 1] = c
      /\ \A i \in DOMAIN r : Append(r, c)[i] = r[i]
      /\ DOMAIN r = 1 .. Len(r) /\ Len(r) \in Nat
  BY <1>2, <1>4, AppendOf
<1>8. \A q : IsNext(q) => q = p
  <2>1. \A q \in due : q \in Nat
    BY <1>1, OrderAssumption DEF OrderTypeOK
  <2> QED BY <1>1, <1>2, <2>1 DEF IsNext
<1>9. \A q : IsNext(q)' <=> IsNext(q)
  BY <1>1, <1>6 DEF IsNext
<1>10. \A q \in Priority : \A m \in DOMAIN b[q] :
         DoneWith(q, m)' <=> DoneWith(q, m) \/ (q = p /\ m = k)
  <2>1. SUFFICES ASSUME NEW q \in Priority, NEW m \in DOMAIN b[q]
                 PROVE  DoneWith(q, m)' <=> DoneWith(q, m) \/ (q = p /\ m = k)
    OBVIOUS
  <2>2. m \in Nat
    <3>1. b[q] \in Seq(Target)
      BY <1>2 DEF Batches
    <3> QED BY <3>1
  <2>3. DoneWith(q, m)' <=> q \notin due \/ (IsNext(q) /\ m <= k)
    BY <1>6, <1>9 DEF DoneWith
  <2>4. DoneWith(q, m) <=> q \notin due \/ (IsNext(q) /\ m <= k - 1)
    BY <1>1, <1>2 DEF DoneWith
  <2>5. m <= k <=> m <= k - 1 \/ m = k
    BY <1>3, <2>2
  <2> QED BY <1>2, <1>8, <2>3, <2>4, <2>5
<1>11. DoneWith(p, k)'
  BY <1>3, <1>10
<1>12. \A i \in DOMAIN recreated' : \/ i \in DOMAIN r /\ recreated'[i] = r[i]
                                    \/ recreated'[i] = c /\ c # selfContainer
  <2>1. CASE c = selfContainer
    BY <1>5, <2>1
  <2>2. CASE c # selfContainer
    <3>1. \A i \in 1 .. Len(r) + 1 : i \in DOMAIN r \/ i = Len(r) + 1
      BY <1>7
    <3> QED BY <1>5, <1>7, <2>2, <3>1
  <2> QED BY <2>1, <2>2
<1>13. \A i \in DOMAIN r : i \in DOMAIN recreated' /\ recreated'[i] = r[i]
  BY <1>5, <1>7
<1>14. c # selfContainer => \E i \in DOMAIN recreated' : recreated'[i] = c
  BY <1>5, <1>7
<1>15. ASSUME NEW i \in DOMAIN recreated', recreated'[i] # selfContainer
       PROVE  \E q \in Priority : \E m \in DOMAIN b[q] : b[q][m] = recreated'[i] /\ DoneWith(q, m)'
  <2>1. CASE i \in DOMAIN r /\ recreated'[i] = r[i]
    BY <1>1, <1>10, <1>15, <2>1 DEF SentInv
  <2>2. CASE recreated'[i] = c
    BY <1>3, <1>4, <1>11, <2>2
  <2> QED BY <1>12, <2>1, <2>2
<1>16. ASSUME NEW q \in Priority, NEW m \in DOMAIN b[q], DoneWith(q, m)', b[q][m] # selfContainer
       PROVE  \E i \in DOMAIN recreated' : recreated'[i] = b[q][m]
  <2>1. CASE DoneWith(q, m)
    <3>1. PICK i \in DOMAIN r : r[i] = b[q][m]
      BY <1>1, <1>2, <1>16, <2>1 DEF SentInv
    <3> QED BY <1>13, <3>1
  <2>2. CASE q = p /\ m = k
    BY <1>4, <1>14, <1>16, <2>2
  <2> QED BY <1>10, <1>16, <2>1, <2>2
<1>17. \A i \in DOMAIN recreated' : recreated'[i] # selfContainer
  BY <1>1, <1>2, <1>12 DEF SentInv
<1> QED BY <1>5, <1>6, <1>15, <1>16, <1>17 DEF SentInv

\* The agent is through with a batch: what it has recreated does not change.
LEMMA BatchEndKeepsSent ==
  ASSUME OrderTypeOK, SortInv, SentInv, NEW p \in Priority, NextBatch(p)
  PROVE  SentInv'
<1>1. PICK b, due : b = sequence.batches /\ due = sequence.due
  OBVIOUS
<1>2. /\ b \in Batches /\ IsNext(p) /\ p \in due /\ sequence.position = Len(b[p])
      /\ sequence' = [sequence EXCEPT !.due = @ \ {p}, !.position = 0]
      /\ UNCHANGED <<settings, selfContainer, sorting, recreated>>
  BY <1>1 DEF NextBatch, SequenceRuns, BatchDone, OrderTypeOK, IsNext
<1>3. /\ sequence'.batches = b /\ sequence'.due = due \ {p} /\ sequence'.position = 0
      /\ sequence'.selfPending = sequence.selfPending
  BY <1>1, <1>2 DEF OrderTypeOK
<1>4. \A q : IsNext(q) => q = p
  <2>1. \A q \in due : q \in Nat
    BY <1>1, OrderAssumption DEF OrderTypeOK
  <2> QED BY <1>1, <1>2, <2>1 DEF IsNext
<1>5. \A q \in Priority : \A m \in DOMAIN b[q] : DoneWith(q, m)' <=> DoneWith(q, m)
  <2>1. SUFFICES ASSUME NEW q \in Priority, NEW m \in DOMAIN b[q]
                 PROVE  DoneWith(q, m)' <=> DoneWith(q, m)
    OBVIOUS
  <2>2. m \in Nat /\ m >= 1 /\ m <= Len(b[q])
    <3>1. b[q] \in Seq(Target)
      BY <1>2 DEF Batches
    <3> QED BY <3>1
  <2>3. ~(m <= 0)
    BY <2>2
  <2>4. DoneWith(q, m)' <=> q \notin due \ {p}
    BY <1>3, <2>3 DEF DoneWith
  <2>5. DoneWith(q, m) <=> q \notin due \/ (IsNext(q) /\ m <= Len(b[p]))
    BY <1>1, <1>2 DEF DoneWith
  <2> QED BY <1>2, <1>4, <2>2, <2>4, <2>5
<1>6. ASSUME NEW i \in DOMAIN recreated, recreated[i] # selfContainer
      PROVE  \E q \in Priority : \E m \in DOMAIN b[q] : b[q][m] = recreated[i] /\ DoneWith(q, m)'
  BY <1>1, <1>5, <1>6 DEF SentInv
<1>7. ASSUME NEW q \in Priority, NEW m \in DOMAIN b[q], DoneWith(q, m)', b[q][m] # selfContainer
      PROVE  \E i \in DOMAIN recreated : recreated[i] = b[q][m]
  BY <1>1, <1>2, <1>5, <1>7 DEF SentInv
<1>8. \A i \in DOMAIN recreated : recreated[i] # selfContainer
  BY <1>1, <1>2 DEF SentInv
<1> QED BY <1>2, <1>3, <1>6, <1>7, <1>8 DEF SentInv

\* Nothing is recreated when the batches are sent, and none of what is in them is done.
LEMMA SendingKeepsSent ==
  ASSUME OrderTypeOK', NEW targets, NEW b \in Batches, Sent(targets, b), recreated' = <<>>
  PROVE  SentInv'
<1>1. /\ sequence'.batches = b /\ sequence'.due = {p \in Priority : b[p] # <<>>}
      /\ sequence'.position = 0
  BY DEF Sent
<1>2. ASSUME NEW p \in Priority, NEW k \in DOMAIN b[p] PROVE ~DoneWith(p, k)'
  <2>1. b[p] \in Seq(Target) /\ k \in DOMAIN b[p]
    BY DEF Batches
  <2>2. b[p] # <<>> /\ ~(k <= 0)
    BY <2>1
  <2> QED BY <1>1, <2>2 DEF DoneWith
<1> QED BY <1>1, <1>2 DEF SentInv

LEMMA StepSent ==
  ASSUME OrderTypeOK, SortInv, SentInv, OrderTypeOK', SortInv', [OrderNext]_orderVars
  PROVE  SentInv'
<1>1. ASSUME sequence' = NothingSent, recreated' = <<>> PROVE SentInv'
  <2>1. /\ NoBatches \in Batches
        /\ sequence'.batches = NoBatches /\ sequence'.due = {}
    BY <1>1, TypeOfUnsorted DEF NothingSent
  <2> QED BY <1>1, <2>1 DEF SentInv
<1>2. ASSUME NEW c \in Target, NEW p \in Priority, NEW deps \in SUBSET Dependency,
             UpdateContainerOrchestration(c, p, deps)
      PROVE  SentInv'
  BY <1>1, <1>2 DEF UpdateContainerOrchestration, SortInv
<1>3. ASSUME NEW targets \in SUBSET Target, ResolveUnordered(targets) \/ ResolveOrdered(targets)
      PROVE  SentInv'
  <2>1. CASE ResolveOrdered(targets)
    BY <1>1, <2>1 DEF ResolveOrdered, SortInv
  <2>2. CASE ResolveUnordered(targets)
    <3>1. PICK order \in SetToSeqs(targets) :
            Sent(targets, [NoBatches EXCEPT ![DefaultPriority] = order])
      BY <2>2 DEF ResolveUnordered
    <3>2. PICK b : b = [NoBatches EXCEPT ![DefaultPriority] = order]
      OBVIOUS
    <3>3. b \in Batches
      BY <3>1, <3>2 DEF Sent, OrderTypeOK
    <3>4. recreated' = <<>>
      BY <2>2 DEF ResolveUnordered, SortInv
    <3> QED BY <3>1, <3>2, <3>3, <3>4, SendingKeepsSent
  <2> QED BY <1>3, <2>1, <2>2
<1>4. ASSUME sorting.pc # "sent", UNCHANGED <<sequence, recreated>> PROVE SentInv'
  BY <1>1, <1>4 DEF SortInv
<1>5. sorting.stack # <<>> => sorting.pc = "sorting"
  BY DEF SortInv, Unsorted, OrderTypeOK
<1>6. ASSUME NEW c \in Target, VisitTarget(c) \/ VisitDependency(c) PROVE SentInv'
  BY <1>4, <1>5, <1>6 DEF VisitTarget, VisitDependency
<1>7. CASE ReturnFromVisit
  BY <1>4, <1>5, <1>7 DEF ReturnFromVisit
<1>8. CASE SendBatches
  <2>1. PICK b : b = sorting.batches
    OBVIOUS
  <2>2. b \in Batches /\ Sent(sorting.targets, b) /\ recreated' = <<>>
    BY <1>8, <2>1 DEF SendBatches, SortInv, OrderTypeOK
  <2>3. PICK targets : targets = sorting.targets
    OBVIOUS
  <2> QED BY <2>2, <2>3, SendingKeepsSent
<1>9. ASSUME NEW p \in Priority, RecreateNext(p) PROVE SentInv'
  BY <1>9, RecreateKeepsSent
<1>10. ASSUME NEW p \in Priority, NextBatch(p) PROVE SentInv'
  BY <1>10, BatchEndKeepsSent
<1>11. ASSUME sequence'.due = {}, sequence'.selfPending = FALSE,
              sequence'.batches = sequence.batches, UNCHANGED selfContainer,
              \A i \in DOMAIN recreated' : recreated'[i] # selfContainer =>
                i \in DOMAIN recreated /\ recreated'[i] = recreated[i]
       PROVE  SentInv'
  <2>1. PICK b : b = sequence.batches
    OBVIOUS
  <2>2. \A q \in Priority : \A m : DoneWith(q, m)'
    BY <1>11 DEF DoneWith
  <2>3. ASSUME NEW i \in DOMAIN recreated', recreated'[i] # selfContainer
        PROVE  \E q \in Priority : \E m \in DOMAIN b[q] : b[q][m] = recreated'[i]
    BY <1>11, <2>1, <2>3 DEF SentInv
  <2> QED BY <1>11, <2>1, <2>2, <2>3 DEF SentInv
<1>12. ASSUME NEW p \in Priority, SequenceTimesOut(p) PROVE SentInv'
  <2>1. /\ sequence'.due = {} /\ sequence'.selfPending = FALSE
        /\ sequence'.batches = sequence.batches /\ UNCHANGED <<selfContainer, recreated>>
    BY <1>12 DEF SequenceTimesOut, OrderTypeOK
  <2> QED BY <1>11, <2>1
<1>13. CASE RecreateSelf
  <2>1. /\ sequence'.due = {} /\ sequence'.selfPending = FALSE
        /\ sequence'.batches = sequence.batches /\ UNCHANGED selfContainer
    BY <1>13 DEF RecreateSelf, SequenceRuns, OrderTypeOK
  <2>2. selfContainer \in Target
    BY <1>13 DEF RecreateSelf, SortInv, OrderTypeOK
  <2>3. /\ recreated' = Append(recreated, selfContainer)
        /\ Append(recreated, selfContainer)[Len(recreated) + 1] = selfContainer
        /\ DOMAIN Append(recreated, selfContainer) = 1 .. Len(recreated) + 1
        /\ DOMAIN recreated = 1 .. Len(recreated) /\ Len(recreated) \in Nat
        /\ \A i \in DOMAIN recreated : Append(recreated, selfContainer)[i] = recreated[i]
    BY <1>13, <2>2, AppendOf DEF RecreateSelf, OrderTypeOK
  <2>4. \A i \in 1 .. Len(recreated) + 1 : i \in DOMAIN recreated \/ i = Len(recreated) + 1
    BY <2>3
  <2> QED BY <1>11, <2>1, <2>3, <2>4
<1>14. CASE UpdateEnds
  BY <1>1, <1>14 DEF UpdateEnds
<1>15. CASE UNCHANGED orderVars
  <2>1. UNCHANGED <<sequence, recreated, selfContainer>>
    BY <1>15 DEF orderVars
  <2>2. \A q \in Priority : \A m : DoneWith(q, m)' <=> DoneWith(q, m)
    BY <2>1 DEF DoneWith, IsNext
  <2> QED BY <2>1, <2>2 DEF SentInv
<1> QED
  BY <1>2, <1>3, <1>6, <1>7, <1>8, <1>9, <1>10, <1>12, <1>13, <1>14, <1>15 DEF OrderNext

-----------------------------------------------------------------------------
(* The order of an update.                                                 *)

LEMMA StepInOrder ==
  ASSUME OrderTypeOK, SortInv, SentInv, UpdatesInOrder, [OrderNext]_orderVars
  PROVE  UpdatesInOrder'
<1>1. ASSUME recreated' = <<>> PROVE UpdatesInOrder'
  BY <1>1 DEF UpdatesInOrder
<1>2. ASSUME UNCHANGED <<settings, selfContainer, sorting, recreated>> PROVE UpdatesInOrder'
  BY <1>2 DEF UpdatesInOrder, Before, UpdatedDeps, Reaches, Closed
<1>3. sorting.pc # "sent" => recreated = <<>>
  BY DEF SortInv
<1>4. ASSUME NEW c \in Target, NEW p \in Priority, NEW deps \in SUBSET Dependency,
             UpdateContainerOrchestration(c, p, deps)
      PROVE  UpdatesInOrder'
  BY <1>1, <1>3, <1>4 DEF UpdateContainerOrchestration
<1>5. ASSUME NEW targets \in SUBSET Target, ResolveUnordered(targets) \/ ResolveOrdered(targets)
      PROVE  UpdatesInOrder'
  BY <1>1, <1>3, <1>5 DEF ResolveUnordered, ResolveOrdered
<1>6. sorting.stack # <<>> => sorting.pc = "sorting"
  BY DEF SortInv, Unsorted, OrderTypeOK
<1>7. ASSUME NEW c \in Target, VisitTarget(c) \/ VisitDependency(c) PROVE UpdatesInOrder'
  BY <1>1, <1>3, <1>6, <1>7 DEF VisitTarget, VisitDependency
<1>8. CASE ReturnFromVisit \/ SendBatches
  BY <1>1, <1>3, <1>6, <1>8 DEF ReturnFromVisit, SendBatches
<1>9. ASSUME NEW p \in Priority, RecreateNext(p) PROVE UpdatesInOrder'
  <2>1. PICK c : c = sequence.batches[p][sequence.position + 1]
    OBVIOUS
  <2>2. CASE c = selfContainer
    BY <1>2, <1>9, <2>1, <2>2 DEF RecreateNext
  <2>3. CASE c # selfContainer
    <3>1. c \in Target
      <4>1. /\ sequence.batches \in Batches /\ sequence.position \in Nat
            /\ sequence.position <= Len(sequence.batches[p])
            /\ sequence.position # Len(sequence.batches[p])
        BY <1>9 DEF RecreateNext, SequenceRuns, BatchDone, OrderTypeOK, IsNext
      <4>2. sequence.batches[p] \in Seq(Target)
        BY <4>1 DEF Batches
      <4> QED BY <2>1, <4>1, <4>2
    <3>2. /\ UNCHANGED <<settings, selfContainer, sorting>>
          /\ recreated' = Append(recreated, c)
      BY <1>9, <2>1, <2>3 DEF RecreateNext
    <3>3. /\ c \notin ToSet(recreated)
          /\ \A d \in UpdatedDeps(c) :
               \/ c \in Reaches(d) \/ selfContainer \in {c, d}
               \/ settings[d].priority > settings[c].priority
               \/ d \in ToSet(recreated)
      BY <1>9, <2>1, <2>3, <3>1, NextInOrder
    <3> QED BY <3>1, <3>2, <3>3, RecreatedInOrder
  <2> QED BY <2>2, <2>3
<1>10. ASSUME NEW p \in Priority, NextBatch(p) \/ SequenceTimesOut(p) PROVE UpdatesInOrder'
  BY <1>2, <1>10 DEF NextBatch, SequenceTimesOut
<1>11. CASE RecreateSelf
  <2>1. selfContainer \in Target /\ selfContainer \notin ToSet(recreated)
    BY <1>11 DEF RecreateSelf, SortInv, SentInv, OrderTypeOK, ToSet
  <2>2. /\ UNCHANGED <<settings, selfContainer, sorting>>
        /\ recreated' = Append(recreated, selfContainer)
    BY <1>11 DEF RecreateSelf
  <2>3. PICK x : x = selfContainer
    OBVIOUS
  <2> QED BY <2>1, <2>2, <2>3, RecreatedInOrder
<1>12. CASE UpdateEnds
  BY <1>1, <1>12 DEF UpdateEnds
<1>13. CASE UNCHANGED orderVars
  BY <1>2, <1>13 DEF orderVars
<1> QED
  BY <1>4, <1>5, <1>7, <1>8, <1>9, <1>10, <1>11, <1>12, <1>13 DEF OrderNext

LEMMA InitOrder == OrderInit => OrderIInv
<1> SUFFICES ASSUME OrderInit PROVE OrderIInv
  OBVIOUS
<1>1. /\ sorting = Unsorted /\ sequence = NothingSent /\ recreated = <<>>
      /\ sorting.pc = "idle" /\ sequence.due = {} /\ sorting.remaining \cup sorting.visited = {}
  BY DEF OrderInit, Unsorted, NothingSent
<1>2. OrderTypeOK
  BY <1>1, TypeOfUnsorted DEF OrderInit, OrderTypeOK
<1>3. SortInv /\ SentInv /\ UpdatesInOrder
  BY <1>1 DEF SortInv, SentInv, UpdatesInOrder
<1> QED BY <1>2, <1>3 DEF OrderIInv

\* The inductive invariant of an update's order: the sort has put everything it has returned
\* from in its place, and the agent has recreated what is behind it.
THEOREM OrderInvariant == OrderSpec => []OrderIInv
<1>1. OrderIInv /\ [OrderNext]_orderVars => OrderIInv'
  BY StepOrderType, StepSort, StepSent, StepInOrder DEF OrderIInv
<1> QED BY <1>1, InitOrder, PTL DEF OrderSpec

\* topologicalSort, the grouping of resolveUpdateBatches and the loops of UPDATE_SEQUENTIAL
\* together: every container is recreated once and after what it depends on.
THEOREM DependenciesComeFirst == OrderSpec => []UpdatesInOrder
<1>1. OrderIInv => UpdatesInOrder
  BY DEF OrderIInv
<1> QED BY <1>1, OrderInvariant, PTL

-----------------------------------------------------------------------------
(* Automatic rollbacks.                                                     *)

\* An operation under way is for a container that has been created.
OfCreated ==
  /\ present <= lastCtr
  /\ \A p \in Worker : work[p].pc # "off" => work[p].judged \in 1..lastCtr
  /\ \A p \in Worker : work[p].pc \in {"replacing", "creating"} => work[p].at \in Ctr

\* An automatic operation is a rollback, it has the guard of its container, and it is the
\* only one that has.
Guarded ==
  /\ \A p \in Worker : Automatic(p) /\ work[p].pc # "off" =>
       work[p].kind # "update" /\ work[p].judged \in rolling
  /\ \A p, q \in Worker :
       /\ Automatic(p) /\ Automatic(q)
       /\ work[p].pc # "off" /\ work[q].pc # "off" /\ work[p].judged = work[q].judged
       => p = q

\* Grounds for an automatic rollback come from requests.
ByRequest ==
  /\ withSnapshot \cup rolling \subseteq requestMade
  /\ \A c \in Ctr : monitor[c].pc # "none" => c \in requestMade
  /\ \A c \in Ctr : undone[c] > 0 => c \in requestMade

\* A container that an automatic rollback was carried out for is gone for good.
GoneWhenUndone ==
  \A c \in Ctr : /\ undone[c] <= 1
                 /\ undone[c] > 0 => c <= lastCtr /\ present # c /\ c \notin rolling

HealthIInv == HealthTypeOK /\ OfCreated /\ Guarded /\ ByRequest /\ GoneWhenUndone

USE DEF Ctr, Worker, Automatic, Long

\* A service that nobody has asked anything of.
LEMMA HealthInitIInv == HealthInit => HealthIInv
  BY HealthAssumption DEF HealthInit, HealthIInv, HealthTypeOK, OfCreated, Guarded, ByRequest,
     GoneWhenUndone, NoWork, Work, NoMonitor, Monitor, NotCrashing

-----------------------------------------------------------------------------
\* What a step of the engine does to the operations: p's goes on, for the same container,
\* or is over, and an automatic one then releases its guard.
Moves(p) ==
  /\ work' \in [Worker -> Work]
  /\ \A q \in Worker \ {p} : work'[q] = work[q]
  /\ \/ /\ work'[p].pc # "off" /\ work'[p].judged = work[p].judged /\ work'[p].kind = work[p].kind
        /\ rolling' = rolling
     \/ /\ work'[p].pc = "off"
        /\ rolling' = IF Automatic(p) THEN rolling \ {work[p].judged} ELSE rolling

\* triggerRollbackWithReason releases its guard when it returns, and not before.
LEMMA MovesKeepGuards ==
  ASSUME HealthIInv, NEW p \in Worker, work[p].pc # "off", Moves(p)
  PROVE  Guarded' /\ rolling' \subseteq rolling
<1> USE DEF HealthIInv, HealthTypeOK, Guarded, Moves
<1>1. rolling' \subseteq rolling
  OBVIOUS
<1>2. ASSUME NEW q \in Worker, Automatic(q), work'[q].pc # "off"
      PROVE  work'[q].kind # "update" /\ work'[q].judged \in rolling'
  <2>1. CASE q = p
    BY <1>2, <2>1
  <2>2. CASE q # p
    <3>1. work'[q] = work[q]
      BY <2>2
    <3>2. Automatic(p) => work[q].judged # work[p].judged
      BY <1>2, <2>2, <3>1
    <3> QED
      BY <1>2, <3>1, <3>2
  <2> QED
    BY <2>1, <2>2
<1>3. ASSUME NEW q \in Worker, NEW r \in Worker, Automatic(q), Automatic(r),
             work'[q].pc # "off", work'[r].pc # "off", work'[q].judged = work'[r].judged
      PROVE  q = r
  BY <1>3
<1> QED
  BY <1>1, <1>2, <1>3

\* An operation that returns leaves its worker free.
LEMMA ReturnMoves ==
  ASSUME HealthTypeOK, NEW p \in Worker, work[p].pc # "off", NEW ms \in [Ctr -> Monitor],
         Return(p, ms)
  PROVE  Moves(p) /\ monitor' \in [Ctr -> Monitor]
         /\ \A c \in Ctr : monitor'[c].pc # "none" => ms[c].pc # "none"
<1>1. NoWork \in Work /\ NoMonitor \in Monitor /\ NoMonitor.pc = "none" /\ NoWork.pc = "off"
  BY HealthAssumption DEF NoWork, Work, NoMonitor, Monitor
<1>2. work' = [work EXCEPT ![p] = NoWork]
  BY DEF Return
<1>3. Moves(p)
  BY <1>1, <1>2 DEF Moves, Return, HealthTypeOK
<1>4. monitor' = IF p \in Ctr THEN [ms EXCEPT ![p] = NoMonitor] ELSE ms
  BY DEF Return
<1>5. monitor' \in [Ctr -> Monitor]
  BY <1>1, <1>4
<1>6. \A c \in Ctr : monitor'[c].pc # "none" => ms[c].pc # "none"
  BY <1>1, <1>4
<1> QED
  BY <1>3, <1>5, <1>6

\* An operation that goes on is the same operation.
LEMMA GotoMoves ==
  ASSUME HealthTypeOK, NEW p \in Worker, work[p].pc # "off", NEW w \in Work,
         w.pc # "off", w.judged = work[p].judged, w.kind = work[p].kind, Goto(p, w)
  PROVE  Moves(p)
  BY DEF Goto, Moves, HealthTypeOK

\* A step of the engine that creates nothing keeps everything.
LEMMA QuietStep ==
  ASSUME HealthIInv, NEW p \in Worker, work[p].pc # "off", Moves(p),
         work'[p].pc \in {"replacing", "creating"} => work'[p].at \in Ctr,
         lastCtr' = lastCtr, present' \in {present, 0}, undone' = undone, asked' = asked,
         crashing' = crashing, condition' \in {"fine", "unhealthy", "looping"},
         nameLock' \in SUBSET Worker, NEW S \in SUBSET Ctr,
         withSnapshot' = withSnapshot \cup S, requestMade' = requestMade \cup S,
         monitor' \in [Ctr -> Monitor],
         \A c \in Ctr : monitor'[c].pc # "none" => monitor[c].pc # "none"
  PROVE  HealthIInv'
<1>1. Guarded' /\ rolling' \subseteq rolling
  BY MovesKeepGuards
<1>2. HealthTypeOK'
  BY <1>1, HealthAssumption DEF HealthIInv, HealthTypeOK, Moves
<1>3. OfCreated'
  <2>1. ASSUME NEW q \in Worker
        PROVE  /\ work'[q].pc # "off" => work'[q].judged \in 1..lastCtr'
               /\ work'[q].pc \in {"replacing", "creating"} => work'[q].at \in Ctr
    <3>1. CASE q = p
      BY <3>1 DEF HealthIInv, OfCreated, Moves
    <3>2. CASE q # p
      BY <3>2 DEF HealthIInv, OfCreated, Moves
    <3> QED
      BY <3>1, <3>2
  <2>2. present' <= lastCtr'
    BY HealthAssumption DEF HealthIInv, HealthTypeOK, OfCreated
  <2> QED
    BY <2>1, <2>2 DEF OfCreated
<1>4. ByRequest'
  BY <1>1 DEF HealthIInv, ByRequest
<1>5. GoneWhenUndone'
  BY <1>1 DEF HealthIInv, HealthTypeOK, GoneWhenUndone
<1> QED
  BY <1>1, <1>2, <1>3, <1>4, <1>5 DEF HealthIInv

\* The records of operations and monitors that steps put in place.
LEMMA WorkGoesOn ==
  ASSUME NEW w \in Work, NEW c \in Ctr
  PROVE  [w EXCEPT !.pc = "replacing", !.at = c] \in Work
<1>1. c \in 0..MaxCtr
  BY HealthAssumption
<1> QED
  BY <1>1 DEF Work

LEMMA MonitorsAreTyped ==
  /\ NoMonitor \in Monitor
  /\ \A b \in BOOLEAN : [NoMonitor EXCEPT !.pc = "sent", !.withImage = b] \in Monitor
  /\ \A m \in Monitor : [m EXCEPT !.pc = "watching"] \in Monitor
  /\ \A m \in Monitor, n \in 0..Long : [m EXCEPT !.illFor = n] \in Monitor
<1>1. NoMonitor \in Monitor
  BY DEF NoMonitor, Monitor
<1>2. \A m \in Monitor, b \in BOOLEAN : [m EXCEPT !.pc = "sent", !.withImage = b] \in Monitor
  BY DEF Monitor
<1>3. \A m \in Monitor : [m EXCEPT !.pc = "watching"] \in Monitor
  BY DEF Monitor
<1>4. \A m \in Monitor, n \in 0..Long : [m EXCEPT !.illFor = n] \in Monitor
  BY DEF Monitor
<1> QED
  BY <1>1, <1>2, <1>3, <1>4

\* A step of the engine leaves the service as it is or without a container.
LEMMA EngineKeeps ==
  ASSUME HealthIInv, NEW p \in Worker,
         LookUp(p) \/ TakeLock(p) \/ RemoveOld(p) \/ GiveUp(p) \/ CreationFails(p)
  PROVE  HealthIInv'
<1> USE HealthAssumption DEF daemonVars, ghosts
<1>0. /\ HealthTypeOK /\ work[p] \in Work /\ monitor \in [Ctr -> Monitor]
      /\ present \in 0..MaxCtr /\ nameLock \in SUBSET Worker
      /\ condition \in {"fine", "unhealthy", "looping"}
      /\ withSnapshot = withSnapshot \cup {} /\ requestMade = requestMade \cup {}
  BY DEF HealthIInv, HealthTypeOK
<1>1. CASE LookUp(p)
  <2>1. work[p].pc = "called"
    BY <1>1 DEF LookUp
  <2>2. UNCHANGED <<present, lastCtr, condition, withSnapshot, nameLock, asked, requestMade, undone>>
    BY <1>1 DEF LookUp
  <2>3. CASE Goto(p, [work[p] EXCEPT !.pc = "waiting"])
    <3>1. [work[p] EXCEPT !.pc = "waiting"] \in Work
      BY <1>0 DEF Work
    <3>2. Moves(p) /\ work'[p].pc = "waiting"
      BY <1>0, <2>1, <2>3, <3>1, GotoMoves DEF Goto, HealthTypeOK, Work
    <3> QED
      BY <1>0, <2>1, <2>2, <2>3, <3>2, QuietStep DEF Goto
  <2>4. CASE Return(p, monitor)
    <3>1. Moves(p) /\ monitor' \in [Ctr -> Monitor]
          /\ \A c \in Ctr : monitor'[c].pc # "none" => monitor[c].pc # "none"
      BY <1>0, <2>1, <2>4, ReturnMoves
    <3>2. work'[p].pc = "off"
      BY <1>0, <2>4 DEF Return, NoWork, HealthTypeOK
    <3> QED
      BY <1>0, <2>1, <2>2, <2>4, <3>1, <3>2, QuietStep DEF Return
  <2> QED
    BY <1>1, <2>3, <2>4 DEF LookUp
<1>2. CASE TakeLock(p)
  <2>1. work[p].pc = "waiting"
    BY <1>2 DEF TakeLock
  <2>2. UNCHANGED <<present, lastCtr, condition, withSnapshot, asked, requestMade, undone>>
    BY <1>2 DEF TakeLock
  <2>3. CASE WorksOn(work[p]) # 0
    <3> DEFINE w == [work[p] EXCEPT !.pc = "replacing", !.at = WorksOn(work[p])]
    <3>1. work[p].judged \in 1..lastCtr /\ lastCtr \in Ctr
      BY <2>1 DEF HealthIInv, OfCreated, HealthTypeOK
    <3>2. WorksOn(work[p]) \in Ctr
      BY <1>0, <2>3, <3>1 DEF WorksOn, Work
    <3>3. w \in Work
      BY <1>0, <3>2, WorkGoesOn
    <3>4. Goto(p, w) /\ nameLock' = {p}
      BY <1>2, <2>3 DEF TakeLock
    <3>5. w.pc = "replacing" /\ w.judged = work[p].judged /\ w.kind = work[p].kind
          /\ w.at = WorksOn(work[p])
      BY <1>0 DEF Work
    <3> HIDE DEF w
    <3>6. Moves(p) /\ work'[p] = w
      BY <1>0, <2>1, <3>3, <3>4, <3>5, GotoMoves DEF Goto, HealthTypeOK
    <3> QED
      BY <1>0, <2>1, <2>2, <3>2, <3>4, <3>5, <3>6, QuietStep DEF Goto
  <2>4. CASE WorksOn(work[p]) = 0
    <3>0. Return(p, monitor) /\ UNCHANGED nameLock
      BY <1>2, <2>4 DEF TakeLock
    <3>1. Moves(p) /\ monitor' \in [Ctr -> Monitor]
          /\ \A c \in Ctr : monitor'[c].pc # "none" => monitor[c].pc # "none"
      BY <1>0, <2>1, <3>0, ReturnMoves
    <3>2. work'[p].pc = "off"
      BY <1>0, <3>0 DEF Return, NoWork, HealthTypeOK
    <3> QED
      BY <1>0, <2>1, <2>2, <3>0, <3>1, <3>2, QuietStep DEF Return
  <2> QED
    BY <2>3, <2>4
<1>3. CASE RemoveOld(p)
  <2> DEFINE w == [work[p] EXCEPT !.pc = "creating"]
             saves == IF work[p].kind = "update" THEN {work[p].at} ELSE {}
  <2>1. work[p].pc = "replacing" /\ work[p].at \in Ctr
    BY <1>3 DEF RemoveOld, HealthIInv, OfCreated
  <2>2. /\ w \in Work /\ w.pc = "creating" /\ w.at = work[p].at
        /\ w.judged = work[p].judged /\ w.kind = work[p].kind
    BY <1>0 DEF Work
  <2>3. saves \in SUBSET Ctr
    BY <2>1
  <2>4. /\ Goto(p, w) /\ withSnapshot' = withSnapshot \cup saves
        /\ requestMade' = requestMade \cup saves
        /\ present' \in {present, 0} /\ condition' \in {"fine", condition}
        /\ UNCHANGED <<lastCtr, nameLock, asked, undone>>
    BY <1>3 DEF RemoveOld
  <2> HIDE DEF w, saves
  <2>5. Moves(p) /\ work'[p] = w
    BY <1>0, <2>1, <2>2, <2>4, GotoMoves DEF Goto, HealthTypeOK
  <2> QED
    BY <1>0, <2>1, <2>2, <2>3, <2>4, <2>5, QuietStep DEF Goto
<1>4. CASE GiveUp(p) \/ CreationFails(p)
  <2> DEFINE saves == IF GiveUp(p) /\ work[p].kind = "update" THEN {work[p].at} ELSE {}
  <2>1. work[p].pc \in {"replacing", "creating"} /\ work[p].at \in Ctr
    BY <1>4 DEF GiveUp, CreationFails, HealthIInv, OfCreated
  <2>2. saves \in SUBSET Ctr
    BY <2>1
  <2>3. /\ Return(p, monitor) /\ nameLock' = nameLock \ {p}
        /\ UNCHANGED <<present, lastCtr, condition, asked, undone>>
    BY <1>4 DEF GiveUp, CreationFails
  <2>4. withSnapshot' = withSnapshot \cup saves /\ requestMade' = requestMade \cup saves
    <3>1. CASE GiveUp(p)
      BY <3>1 DEF GiveUp
    <3>2. CASE CreationFails(p) /\ ~GiveUp(p)
      BY <3>2 DEF CreationFails
    <3> QED
      BY <1>4, <3>1, <3>2
  <2> HIDE DEF saves
  <2>5. Moves(p) /\ monitor' \in [Ctr -> Monitor]
        /\ \A c \in Ctr : monitor'[c].pc # "none" => monitor[c].pc # "none"
    BY <1>0, <2>1, <2>3, ReturnMoves
  <2>6. work'[p].pc = "off" /\ crashing' = crashing
    BY <1>0, <2>3 DEF Return, NoWork, HealthTypeOK
  <2> QED
    BY <1>0, <2>1, <2>2, <2>3, <2>4, <2>5, <2>6, QuietStep
<1> QED
  BY <1>1, <1>2, <1>3, <1>4

\* The daemon creates a container nobody has judged yet; an automatic rollback that succeeds
\* is the first of its container, which is gone for good.
LEMMA CreationKeeps ==
  ASSUME HealthIInv, NEW p \in Worker, CreateNew(p)
  PROVE  HealthIInv'
<1> USE HealthAssumption
<1> DEFINE c == lastCtr + 1
           j == work[p].judged
<1>0. /\ HealthTypeOK /\ OfCreated /\ Guarded /\ ByRequest /\ GoneWhenUndone
      /\ work[p].pc = "creating" /\ present = 0 /\ c \in Ctr /\ lastCtr \in Ctr
      /\ j \in 1..lastCtr
  BY DEF HealthIInv, CreateNew, OfCreated, HealthTypeOK
<1>1. /\ present' = c /\ lastCtr' = c /\ condition' = "fine" /\ nameLock' = nameLock \ {p}
      /\ requestMade' = IF Automatic(p) THEN requestMade ELSE requestMade \cup {c}
      /\ withSnapshot' = withSnapshot /\ asked' = asked
  BY DEF CreateNew
<1>2. /\ undone' = undone \/ (Automatic(p) /\ undone' = [undone EXCEPT ![j] = @ + 1])
      /\ \E ms \in {monitor} \cup Monitored(p, c) : Return(p, ms)
  BY DEF CreateNew
<1>3. PICK ms \in {monitor} \cup Monitored(p, c) : Return(p, ms)
  BY <1>2
<1>4. /\ ms \in [Ctr -> Monitor]
      /\ \A d \in Ctr : ms[d].pc # "none" => monitor[d].pc # "none" \/ (d = c /\ ~Automatic(p))
  <2>1. CASE ms = monitor
    BY <1>0, <2>1 DEF HealthTypeOK
  <2>2. CASE ms # monitor
    <3>1. work[p].kind = "update"
      BY <1>3, <2>2 DEF Monitored
    <3>2. ~Automatic(p)
      BY <1>0, <3>1 DEF Guarded
    <3>3. PICK b \in BOOLEAN :
            ms = [monitor EXCEPT ![c] = [NoMonitor EXCEPT !.pc = "sent", !.withImage = b]]
      BY <1>3, <2>2, <3>1 DEF Monitored
    <3>4. [NoMonitor EXCEPT !.pc = "sent", !.withImage = b] \in Monitor
      BY MonitorsAreTyped
    <3> QED
      BY <1>0, <3>2, <3>3, <3>4 DEF HealthTypeOK
  <2> QED
    BY <2>1, <2>2
<1>5. /\ Moves(p) /\ monitor' \in [Ctr -> Monitor]
      /\ \A d \in Ctr : monitor'[d].pc # "none" => ms[d].pc # "none"
  BY <1>0, <1>3, <1>4, ReturnMoves
<1>6. work'[p].pc = "off" /\ crashing' = crashing
      /\ rolling' = IF Automatic(p) THEN rolling \ {j} ELSE rolling
  BY <1>0, <1>3 DEF Return, NoWork, HealthTypeOK
<1>7. Guarded' /\ rolling' \subseteq rolling
  BY <1>0, <1>5, MovesKeepGuards
<1>8. Automatic(p) => j \in rolling /\ undone[j] = 0
  BY <1>0 DEF Guarded, GoneWhenUndone, HealthTypeOK
<1>9. HealthTypeOK'
  <2>1. undone' \in [Ctr -> 0..MaxCtr]
    <3>1. CASE undone' = undone
      BY <1>0, <3>1 DEF HealthTypeOK
    <3>2. CASE Automatic(p) /\ undone' = [undone EXCEPT ![j] = @ + 1]
      BY <1>0, <1>8, <3>2 DEF HealthTypeOK
    <3> QED
      BY <1>2, <3>1, <3>2
  <2>2. present' \in 0..MaxCtr /\ lastCtr' \in Ctr /\ requestMade' \in SUBSET Ctr
    BY <1>0, <1>1 DEF HealthTypeOK
  <2>3. nameLock' \in SUBSET Worker /\ rolling' \in SUBSET Ctr /\ work' \in [Worker -> Work]
    BY <1>0, <1>1, <1>5, <1>7 DEF HealthTypeOK, Moves
  <2>4. /\ condition' \in {"fine", "unhealthy", "looping"} /\ withSnapshot' \in SUBSET Ctr
        /\ crashing' \in [of : 0..MaxCtr, for : 0..Long] /\ asked' \in 0..MaxAsked
    BY <1>0, <1>1, <1>6 DEF HealthTypeOK
  <2> QED
    BY <1>5, <2>1, <2>2, <2>3, <2>4 DEF HealthTypeOK
<1>10. OfCreated'
  <2>1. ASSUME NEW q \in Worker, work'[q].pc # "off"
        PROVE  q # p /\ work'[q] = work[q]
    BY <1>5, <1>6, <2>1 DEF Moves
  <2> QED
    BY <1>0, <1>1, <2>1 DEF OfCreated, HealthTypeOK
<1>11. ByRequest'
  <2>1. \A d \in Ctr : monitor'[d].pc # "none" => d \in requestMade'
    BY <1>0, <1>1, <1>4, <1>5 DEF ByRequest
  <2>2. \A d \in Ctr : undone'[d] > 0 => undone[d] > 0 \/ (Automatic(p) /\ d = j)
    BY <1>0, <1>2 DEF HealthTypeOK
  <2>3. \A d \in Ctr : undone'[d] > 0 => d \in requestMade'
    BY <1>0, <1>1, <1>8, <2>2 DEF ByRequest
  <2> QED
    BY <1>0, <1>1, <1>7, <2>1, <2>3 DEF ByRequest
<1>12. GoneWhenUndone'
  <2> SUFFICES ASSUME NEW d \in Ctr
               PROVE  /\ undone'[d] <= 1
                      /\ undone'[d] > 0 => d <= lastCtr' /\ present' # d /\ d \notin rolling'
    BY DEF GoneWhenUndone
  <2>1. CASE undone'[d] = undone[d]
    BY <1>0, <1>1, <1>7, <2>1 DEF GoneWhenUndone, HealthTypeOK
  <2>2. CASE undone'[d] # undone[d]
    <3>1. Automatic(p) /\ d = j /\ undone'[d] = 1
      BY <1>0, <1>2, <1>8, <2>2 DEF HealthTypeOK
    <3> QED
      BY <1>0, <1>1, <1>6, <3>1
  <2> QED
    BY <2>1, <2>2
<1> QED
  BY <1>7, <1>9, <1>10, <1>11, <1>12 DEF HealthIInv

\* Monitors come from updates and never from one another.
LEMMA MonitorKeeps ==
  ASSUME HealthIInv, NEW c \in Ctr, monitor[c].pc # "none", NEW m \in Monitor,
         MonitorChanges(c, m)
  PROVE  HealthIInv'
<1> USE DEF HealthIInv, MonitorChanges, daemonVars, ghosts
<1>1. HealthTypeOK'
  BY DEF HealthTypeOK
<1>2. OfCreated' /\ Guarded' /\ GoneWhenUndone'
  BY DEF OfCreated, Guarded, GoneWhenUndone
<1>3. ByRequest'
  BY DEF HealthTypeOK, ByRequest
<1> QED
  BY <1>1, <1>2, <1>3

\* What is judged is present and has been there by request, and nobody else has its guard.
LEMMA TriggerKeeps ==
  ASSUME HealthIInv, NEW p \in Worker, Automatic(p), work[p].pc = "off",
         NEW c \in Ctr, present = c, c \in requestMade,
         NEW kind \in {"rollbackTo", "rollback"}, Trigger(p, c, kind),
         crashing' \in [of : 0..MaxCtr, for : 0..Long],
         UNCHANGED <<daemonVars, withSnapshot, nameLock, monitor, asked, ghosts>>
  PROVE  HealthIInv'
<1> USE DEF daemonVars, ghosts
<1> DEFINE w == Operation("called", kind, c)
<1>0. /\ HealthTypeOK /\ OfCreated /\ Guarded /\ ByRequest /\ GoneWhenUndone
      /\ c \notin rolling /\ rolling' = rolling \cup {c}
      /\ work' = [work EXCEPT ![p] = w]
  BY DEF HealthIInv, Trigger, MayRollBack
<1>1. w \in Work /\ w.pc = "called" /\ w.judged = c /\ w.kind = kind
  BY DEF Operation, Work
<1> HIDE DEF w
<1>2. HealthTypeOK'
  BY <1>0, <1>1 DEF HealthTypeOK
<1>3. \A q \in Worker : work'[q] = IF q = p THEN w ELSE work[q]
  BY <1>0 DEF HealthTypeOK
<1>4. OfCreated'
  BY <1>0, <1>1, <1>3 DEF OfCreated, HealthTypeOK
<1>5. \A q \in Worker : Automatic(q) /\ work[q].pc # "off" => work[q].judged # c
  BY <1>0 DEF Guarded
<1>6. Guarded'
  BY <1>0, <1>1, <1>3, <1>5 DEF Guarded
<1>7. ByRequest'
  BY <1>0 DEF ByRequest
<1>8. GoneWhenUndone'
  BY <1>0 DEF GoneWhenUndone, HealthTypeOK
<1> QED
  BY <1>2, <1>4, <1>6, <1>7, <1>8 DEF HealthIInv

\* Every step of the engine, the monitors, the detector and the operators keeps it.
LEMMA HealthStep == HealthIInv /\ [HealthNext]_healthVars => HealthIInv'
<1> SUFFICES ASSUME HealthIInv, [HealthNext]_healthVars PROVE HealthIInv'
  OBVIOUS
<1> USE HealthAssumption DEF daemonVars, ghosts
<1>0. \A c \in Ctr : monitor[c] \in Monitor
  BY DEF HealthIInv, HealthTypeOK
<1>1. ASSUME NEW h \in Handler, NEW kind \in {"update", "rollbackTo", "rollback"}, RequestOperation(h, kind) PROVE HealthIInv'
  <2>1. HealthTypeOK'
    BY <1>1 DEF RequestOperation, Operation, HealthIInv, HealthTypeOK, Work
  <2>2. OfCreated'
    BY <1>1 DEF RequestOperation, Operation, HealthIInv, HealthTypeOK, OfCreated
  <2>3. Guarded'
    BY <1>1 DEF RequestOperation, Operation, HealthIInv, HealthTypeOK, Guarded
  <2>4. ByRequest'
    BY <1>1 DEF RequestOperation, Operation, HealthIInv, ByRequest
  <2>5. GoneWhenUndone'
    BY <1>1 DEF RequestOperation, Operation, HealthIInv, GoneWhenUndone
  <2> QED
    BY <2>1, <2>2, <2>3, <2>4, <2>5 DEF HealthIInv
<1>2. ASSUME DeletePresent PROVE HealthIInv'
  <2>1. HealthTypeOK'
    BY <1>2 DEF DeletePresent, HealthIInv, HealthTypeOK
  <2>2. OfCreated'
    BY <1>2 DEF DeletePresent, HealthIInv, HealthTypeOK, OfCreated
  <2>3. Guarded'
    BY <1>2 DEF DeletePresent, HealthIInv, Guarded
  <2>4. ByRequest'
    BY <1>2 DEF DeletePresent, HealthIInv, ByRequest
  <2>5. GoneWhenUndone'
    BY <1>2 DEF DeletePresent, HealthIInv, GoneWhenUndone, HealthTypeOK
  <2> QED
    BY <2>1, <2>2, <2>3, <2>4, <2>5 DEF HealthIInv
<1>3. ASSUME ConditionChanges PROVE HealthIInv'
  <2>1. HealthTypeOK'
    BY <1>3 DEF ConditionChanges, HealthIInv, HealthTypeOK
  <2>2. OfCreated'
    BY <1>3 DEF ConditionChanges, HealthIInv, HealthTypeOK, OfCreated
  <2>3. Guarded'
    BY <1>3 DEF ConditionChanges, HealthIInv, Guarded
  <2>4. ByRequest'
    BY <1>3 DEF ConditionChanges, HealthIInv, ByRequest
  <2>5. GoneWhenUndone'
    BY <1>3 DEF ConditionChanges, HealthIInv, GoneWhenUndone
  <2> QED
    BY <2>1, <2>2, <2>3, <2>4, <2>5 DEF HealthIInv
<1>4. ASSUME NEW c \in Ctr, StartMonitoring(c) PROVE HealthIInv'
  BY <1>0, <1>4, MonitorKeeps, MonitorsAreTyped DEF StartMonitoring
<1>5. ASSUME NEW c \in Ctr, CheckHealth(c) PROVE HealthIInv'
  <2> DEFINE n == IF condition = "unhealthy" THEN monitor[c].illFor + 1 ELSE 0
             m == IF present = c THEN [monitor[c] EXCEPT !.illFor = n] ELSE NoMonitor
  <2>1. /\ monitor[c].pc = "watching" /\ (present = c => n < Long)
        /\ MonitorChanges(c, m)
    BY <1>5 DEF CheckHealth
  <2>2. monitor[c].illFor \in 0..Long
    BY <1>0 DEF Monitor
  <2>3. m \in Monitor
    <3>1. CASE present = c
      <4>1. n \in 0..Long
        BY <2>1, <2>2, <3>1
      <4> QED
        BY <1>0, <3>1, <4>1, MonitorsAreTyped
    <3>2. CASE present # c
      BY <3>2, MonitorsAreTyped
    <3> QED
      BY <3>1, <3>2
  <2> QED
    BY <2>1, <2>3, MonitorKeeps
<1>6. ASSUME NEW c \in Ctr, StabilityWindowPasses(c) PROVE HealthIInv'
  BY <1>0, <1>6, MonitorKeeps, MonitorsAreTyped DEF StabilityWindowPasses
<1>7. ASSUME NEW c \in Ctr, MonitorTriggers(c) PROVE HealthIInv'
  <2> DEFINE kind == IF monitor[c].withImage THEN "rollbackTo" ELSE "rollback"
  <2>1. /\ monitor[c].pc = "watching" /\ work[c].pc = "off" /\ present = c
        /\ UNCHANGED <<daemonVars, withSnapshot, nameLock, crashing, asked, ghosts>>
    BY <1>7 DEF MonitorTriggers
  <2>2. CASE Trigger(c, c, kind) /\ UNCHANGED monitor
    <3>1. c \in Worker /\ Automatic(c) /\ c \in requestMade
      BY <2>1 DEF HealthIInv, ByRequest
    <3>2. crashing' \in [of : 0..MaxCtr, for : 0..Long]
      BY <2>1 DEF HealthIInv, HealthTypeOK
    <3>3. kind \in {"rollbackTo", "rollback"}
      OBVIOUS
    <3> HIDE DEF kind
    <3> QED
      BY <2>1, <2>2, <3>1, <3>2, <3>3, TriggerKeeps
  <2>3. CASE monitor' = [monitor EXCEPT ![c] = NoMonitor] /\ UNCHANGED <<work, rolling>>
    BY <2>1, <2>3, MonitorKeeps, MonitorsAreTyped DEF MonitorChanges
  <2> QED
    BY <1>7, <2>2, <2>3 DEF MonitorTriggers
<1>8. ASSUME DetectCrashLoops PROVE HealthIInv'
  <2>1. HealthTypeOK'
    BY <1>8 DEF DetectCrashLoops, LoopingFor, HealthIInv, HealthTypeOK
  <2>2. OfCreated'
    BY <1>8 DEF DetectCrashLoops, LoopingFor, HealthIInv, HealthTypeOK, OfCreated
  <2>3. Guarded'
    BY <1>8 DEF DetectCrashLoops, LoopingFor, HealthIInv, Guarded
  <2>4. ByRequest'
    BY <1>8 DEF DetectCrashLoops, LoopingFor, HealthIInv, ByRequest
  <2>5. GoneWhenUndone'
    BY <1>8 DEF DetectCrashLoops, LoopingFor, HealthIInv, GoneWhenUndone
  <2> QED
    BY <2>1, <2>2, <2>3, <2>4, <2>5 DEF HealthIInv
<1>9. ASSUME DetectorTriggers PROVE HealthIInv'
  <2>1. /\ work[Detector].pc = "off" /\ crashing' = NotCrashing
        /\ present \in withSnapshot
        /\ UNCHANGED <<daemonVars, withSnapshot, nameLock, monitor, asked, ghosts>>
    BY <1>9 DEF DetectorTriggers, HasSnapshot
  <2>2. present \in Ctr /\ present \in requestMade
    BY <2>1 DEF HealthIInv, HealthTypeOK, ByRequest
  <2>3. crashing' \in [of : 0..MaxCtr, for : 0..Long]
    BY <2>1 DEF NotCrashing
  <2>4. CASE Trigger(Detector, present, "rollbackTo")
    <3>1. Detector \in Worker /\ Automatic(Detector)
      OBVIOUS
    <3> QED
      BY <2>1, <2>2, <2>3, <2>4, <3>1, TriggerKeeps
  <2>5. CASE UNCHANGED <<work, rolling>>
    BY <2>1, <2>3, <2>5 DEF HealthIInv, HealthTypeOK, OfCreated, Guarded, ByRequest, GoneWhenUndone
  <2> QED
    BY <1>9, <2>4, <2>5 DEF DetectorTriggers
<1>10. ASSUME UNCHANGED healthVars PROVE HealthIInv'
  <2>1. HealthTypeOK'
    BY <1>10 DEF healthVars, HealthIInv, HealthTypeOK
  <2>2. OfCreated'
    BY <1>10 DEF healthVars, HealthIInv, HealthTypeOK, OfCreated
  <2>3. Guarded'
    BY <1>10 DEF healthVars, HealthIInv, Guarded
  <2>4. ByRequest'
    BY <1>10 DEF healthVars, HealthIInv, ByRequest
  <2>5. GoneWhenUndone'
    BY <1>10 DEF healthVars, HealthIInv, GoneWhenUndone
  <2> QED
    BY <2>1, <2>2, <2>3, <2>4, <2>5 DEF HealthIInv
<1>11. ASSUME NEW p \in Worker, EngineStep(p) PROVE HealthIInv'
  BY <1>11, EngineKeeps, CreationKeeps DEF EngineStep
<1> QED
  BY <1>1, <1>2, <1>3, <1>4, <1>5, <1>6, <1>7, <1>8, <1>9, <1>10, <1>11 DEF HealthNext

\* One automatic rollback at most undoes what a request has made: the guard of
\* triggerRollbackWithReason and the look before the lock see to it.
THEOREM RollbacksAreJudgedOnce == HealthSpec => []JudgedOnce
<1>1. HealthIInv => JudgedOnce
  BY DEF HealthIInv, HealthTypeOK, GoneWhenUndone, ByRequest, JudgedOnce
<1> QED
  BY <1>1, HealthInitIInv, HealthStep, PTL DEF HealthSpec

\* The type of the daemon, monitors, handlers and guards, for any containers and requests.
THEOREM HealthIsTyped == HealthSpec => []HealthTypeOK
<1>1. HealthIInv => HealthTypeOK
  BY DEF HealthIInv
<1> QED
  BY <1>1, HealthInitIInv, HealthStep, PTL DEF HealthSpec

HIDE DEF Ctr, Worker, Automatic, Long
=============================================================================
