--------------------------- MODULE SessionBatcher ---------------------------
(***************************************************************************)
(* Notifications of the controller: the batches of                         *)
(* notifications/session-batcher.ts, what fills them (CHECK_RESULT and     *)
(* UPDATE_RESULT of ws/hub.ts, the checks of all agents in                 *)
(* scheduler/engine.ts and api/routes/agents.ts), Notifier.dispatch of     *)
(* notifications/notifier.ts, and the shutdown of index.ts.                *)
(*                                                                         *)
(* A timer is counted, not named: it may fire whenever it is armed. What a *)
(* notification says is the set of containers, or of update results, it is *)
(* about. Update results are tokens, used again once they are reported.    *)
(***************************************************************************)
EXTENDS Naturals, FiniteSets

CONSTANTS
  Reporter,      \* agents
  Container,
  OwnerOf,       \* the agent of a container
  UpdateOutcome, \* tokens for the results of containers that were updated
  FailedOutcome, \* those that say the update failed
  Channel,       \* the enabled channels that are subscribed to everything
  MaxLogFaults,  \* bound: entries of the notification log that cannot be written
  NoBatch

ASSUME BatcherAssumption ==
  /\ OwnerOf \in [Container -> Reporter]
  /\ FailedOutcome \subseteq UpdateOutcome
  /\ Container \cap UpdateOutcome = {}
  /\ IsFiniteSet(Reporter)
  /\ MaxLogFaults \in Nat

VARIABLES
  checkBatch,      \* pendingCheckBatch
  updateBatch,     \* pendingUpdateBatch: its results
  checkTimers,     \* armed timers of check batches
  windowTimers,    \* armed timers of update batches: the sliding window
  maxTimers,       \* and the longest wait
  notifiedUpdates, \* containers whose update counts as announced
  dispatches,      \* runs of Notifier.dispatch
  coolingDown,     \* channels that had an update_available within a minute
  derivedKey,      \* the key channel configurations are decrypted with is there
  logFaults        \* how many log entries could not be written

batches == <<checkBatch, updateBatch, checkTimers, windowTimers, maxTimers, notifiedUpdates>>
batcherVars == <<batches, dispatches, coolingDown, derivedKey, logFaults>>

-----------------------------------------------------------------------------
Items == Container \cup UpdateOutcome
Dispatch == [items : SUBSET Items, todo : SUBSET Channel, sending : SUBSET Channel]
CheckBatch == [expected : 0..Cardinality(Reporter), received : SUBSET Reporter,
               announced : SUBSET Container]

ASSUME NoBatchAssumption == NoBatch \notin CheckBatch /\ \A b \in SUBSET UpdateOutcome : NoBatch # b

BatcherTypeOK ==
  /\ checkBatch \in CheckBatch \cup {NoBatch}
  /\ updateBatch \in (SUBSET UpdateOutcome) \cup {NoBatch}
  /\ {checkTimers, windowTimers, maxTimers} \subseteq Nat
  /\ notifiedUpdates \in SUBSET Container
  /\ dispatches \in SUBSET Dispatch
  /\ coolingDown \in SUBSET Channel
  /\ derivedKey \in BOOLEAN
  /\ logFaults \in 0..MaxLogFaults

BatcherInit ==
  /\ checkBatch = NoBatch
  /\ updateBatch = NoBatch
  /\ checkTimers = 0
  /\ windowTimers = 0
  /\ maxTimers = 0
  /\ notifiedUpdates = {}
  /\ dispatches = {}
  /\ coolingDown = {}
  /\ derivedKey = TRUE
  /\ logFaults = 0

Announced == IF checkBatch = NoBatch THEN {} ELSE checkBatch.announced
Collected == IF updateBatch = NoBatch THEN {} ELSE updateBatch
OnTheirWay == UNION {d.items : d \in dispatches}

-----------------------------------------------------------------------------
(* Update results.                                                           *)

\* dispatch(event) for each set of items that is not empty.
Send(sets) ==
  dispatches' = dispatches \cup
    {[items |-> s, todo |-> Channel, sending |-> {}] : s \in sets \ {{}}}

\* Mutant: the longest wait of a batch goes on when the batch is flushed.
FlushUpdateBatch_KeepsMaxTimer ==
  /\ Send({Collected \ FailedOutcome, Collected \cap FailedOutcome})
  /\ updateBatch' = NoBatch
  /\ windowTimers' = windowTimers - 1
  /\ UNCHANGED maxTimers

\* flushUpdateBatch of a batch that is there. Its timers are stopped; the one that
\* called it has gone off.
FlushUpdateBatch ==
  /\ Send({Collected \ FailedOutcome, Collected \cap FailedOutcome})
  /\ updateBatch' = NoBatch
  /\ windowTimers' = windowTimers - 1
  /\ maxTimers' = maxTimers - 1

\* UPDATE_RESULT: addUpdateResult. The window slides, the longest wait does not.
AddUpdateResult(r) ==
  /\ r \notin Collected \cup OnTheirWay
  /\ updateBatch' = Collected \cup {r}
  /\ IF updateBatch = NoBatch
     THEN windowTimers' = windowTimers + 1 /\ maxTimers' = maxTimers + 1
     ELSE UNCHANGED <<windowTimers, maxTimers>>
  /\ UNCHANGED <<checkBatch, checkTimers, notifiedUpdates, dispatches, coolingDown,
                 derivedKey, logFaults>>

MaxTimerFires ==
  /\ maxTimers > 0
  /\ IF updateBatch = NoBatch
     THEN maxTimers' = maxTimers - 1 /\ UNCHANGED <<updateBatch, windowTimers, dispatches>>
     ELSE FlushUpdateBatch
  /\ UNCHANGED <<checkBatch, checkTimers, notifiedUpdates, coolingDown, derivedKey, logFaults>>

WindowTimerFires ==
  /\ windowTimers > 0
  /\ IF updateBatch = NoBatch
     THEN windowTimers' = windowTimers - 1 /\ UNCHANGED <<updateBatch, maxTimers, dispatches>>
     ELSE FlushUpdateBatch
  /\ UNCHANGED <<checkBatch, checkTimers, notifiedUpdates, coolingDown, derivedKey, logFaults>>

-----------------------------------------------------------------------------
(* Available updates.                                                        *)

\* expectCheckResults: a batch under way is replaced, with what it was to announce.
ExpectCheckResults(n) ==
  /\ checkBatch' = [expected |-> n, received |-> {}, announced |-> {}]
  /\ checkTimers' = (IF checkBatch = NoBatch THEN checkTimers ELSE checkTimers - 1) + 1

\* The global schedule, or POST /api/agents/check-all, reaches n agents.
CheckAll(n) ==
  /\ n > 0
  /\ ExpectCheckResults(n)
  /\ UNCHANGED <<updateBatch, windowTimers, maxTimers, notifiedUpdates, dispatches,
                 coolingDown, derivedKey, logFaults>>

\* Mutant: only what could be told apart within the batch counts as announced.
NewContainers_OfBatch(cs) == cs \ Announced

\* Containers whose update was not announced within a day.
NewContainers(cs) == cs \ notifiedUpdates

\* CHECK_RESULT of an agent that updates nothing by itself: dispatchCheckResults, if
\* there is an update at all. When the batch has heard from as many agents as it
\* expects it is flushed at once.
DispatchCheckResults(a, cs) ==
  /\ cs # {}
  /\ \A c \in cs : OwnerOf[c] = a
  /\ LET old == IF checkBatch # NoBatch THEN checkBatch
                ELSE [expected |-> 0, received |-> {}, announced |-> {}]
         new == [old EXCEPT !.received = @ \cup {a},
                            !.announced = @ \cup NewContainers(cs)]
     IN
       IF new.expected > 0 /\ Cardinality(new.received) >= new.expected
       THEN /\ Send({new.announced})
            /\ checkBatch' = NoBatch
            /\ checkTimers' = checkTimers - 1
       ELSE /\ checkBatch' = new
            /\ checkTimers' = IF checkBatch = NoBatch THEN checkTimers + 1 ELSE checkTimers
            /\ UNCHANGED dispatches
  /\ notifiedUpdates' = notifiedUpdates \cup cs
  /\ UNCHANGED <<updateBatch, windowTimers, maxTimers, coolingDown, derivedKey, logFaults>>

\* flushCheckBatch by its timer; a batch with nothing new is only dropped.
CheckTimerFires ==
  /\ checkTimers > 0
  /\ Send({Announced})
  /\ checkBatch' = NoBatch
  /\ checkTimers' = checkTimers - 1
  /\ UNCHANGED <<updateBatch, windowTimers, maxTimers, notifiedUpdates, coolingDown,
                 derivedKey, logFaults>>

\* pruneNotified: after 24 hours, by when it has long been sent, or because there are
\* more than 10000.
ForgetNotified(c) ==
  /\ c \in notifiedUpdates \ (Announced \cup OnTheirWay)
  /\ notifiedUpdates' = notifiedUpdates \ {c}
  /\ UNCHANGED <<checkBatch, updateBatch, checkTimers, windowTimers, maxTimers, dispatches,
                 coolingDown, derivedKey, logFaults>>

-----------------------------------------------------------------------------
(* Notifier.dispatch: one channel after the other.                           *)

IsAvailable(d) == d.items \subseteq Container
Replace(d, e) == dispatches' = (dispatches \ {d}) \cup {e}
UNCHANGEDButDispatches == UNCHANGED <<batches, derivedKey>>

\* listNotificationChannels fails, and with it the dispatch.
NoChannels(d) ==
  /\ d \in dispatches
  /\ d.todo = Channel /\ d.sending = {}
  /\ logFaults < MaxLogFaults
  /\ logFaults' = logFaults + 1
  /\ dispatches' = dispatches \ {d}
  /\ UNCHANGED coolingDown
  /\ UNCHANGEDButDispatches

\* Only update_available is limited to one a minute and channel.
TryChannel(d, ch) ==
  /\ d \in dispatches
  /\ d.sending = {}
  /\ ch \in d.todo
  /\ Replace(d, IF IsAvailable(d) /\ ch \in coolingDown
                THEN [d EXCEPT !.todo = @ \ {ch}]
                ELSE [d EXCEPT !.todo = @ \ {ch}, !.sending = {ch}])
  /\ UNCHANGED <<coolingDown, logFaults>>
  /\ UNCHANGEDButDispatches

\* Mutant: a channel that fails is tried again at once.
ChannelFailed_Retries(d) == [d EXCEPT !.todo = @ \cup d.sending, !.sending = {}]

\* A failure is logged and the next channel's turn.
ChannelFailed(d) == [d EXCEPT !.sending = {}]

\* sendToChannel, which decrypts the channel's configuration first, and the log.
\* Nothing is sent without the key; a failure to log a failure ends the dispatch.
ChannelDone(d) ==
  /\ d \in dispatches
  /\ d.sending # {}
  /\ \/ /\ derivedKey
        /\ Replace(d, [d EXCEPT !.sending = {}])
        /\ coolingDown' = IF IsAvailable(d) THEN coolingDown \cup d.sending ELSE coolingDown
        /\ UNCHANGED logFaults
     \/ /\ Replace(d, ChannelFailed(d))
        /\ UNCHANGED <<coolingDown, logFaults>>
     \/ /\ logFaults < MaxLogFaults
        /\ logFaults' = logFaults + 1
        /\ dispatches' = dispatches \ {d}
        /\ UNCHANGED coolingDown
  /\ UNCHANGEDButDispatches

DispatchReturns(d) ==
  /\ d \in dispatches
  /\ d.todo = {} /\ d.sending = {}
  /\ dispatches' = dispatches \ {d}
  /\ UNCHANGED <<coolingDown, logFaults>>
  /\ UNCHANGEDButDispatches

CoolsDown(ch) ==
  /\ ch \in coolingDown
  /\ coolingDown' = coolingDown \ {ch}
  /\ UNCHANGED <<batches, dispatches, derivedKey, logFaults>>

-----------------------------------------------------------------------------
\* SIGTERM: clearPendingTimers flushes both batches, resetKey forgets the key. The
\* process lives on for at least a second.
Shutdown ==
  /\ derivedKey
  /\ derivedKey' = FALSE
  /\ Send({Announced, Collected \ FailedOutcome, Collected \cap FailedOutcome})
  /\ checkBatch' = NoBatch
  /\ checkTimers' = IF checkBatch = NoBatch THEN checkTimers ELSE checkTimers - 1
  /\ updateBatch' = NoBatch
  /\ IF updateBatch = NoBatch
     THEN UNCHANGED <<windowTimers, maxTimers>>
     ELSE windowTimers' = windowTimers - 1 /\ maxTimers' = maxTimers - 1
  /\ UNCHANGED <<notifiedUpdates, coolingDown, logFaults>>

\* The process is replaced by a new one.
ControllerStarts ==
  /\ checkBatch' = NoBatch
  /\ updateBatch' = NoBatch
  /\ checkTimers' = 0
  /\ windowTimers' = 0
  /\ maxTimers' = 0
  /\ notifiedUpdates' = {}
  /\ dispatches' = {}
  /\ coolingDown' = {}
  /\ derivedKey' = TRUE
  /\ UNCHANGED logFaults

BatcherNext ==
  \/ \E r \in UpdateOutcome : AddUpdateResult(r)
  \/ MaxTimerFires \/ WindowTimerFires \/ CheckTimerFires
  \/ \E n \in 1..Cardinality(Reporter) : CheckAll(n)
  \/ \E a \in Reporter, cs \in SUBSET Container : DispatchCheckResults(a, cs)
  \/ \E c \in Container : ForgetNotified(c)
  \/ \E d \in dispatches :
       \/ NoChannels(d) \/ ChannelDone(d) \/ DispatchReturns(d)
       \/ \E ch \in Channel : TryChannel(d, ch)
  \/ \E ch \in Channel : CoolsDown(ch)
  \/ Shutdown \/ ControllerStarts

BatcherSpec == BatcherInit /\ [][BatcherNext]_batcherVars

\* Timers go off, and each dispatch goes on by itself: the database and the senders answer
\* or fail.
BatcherFairness ==
  /\ WF_batcherVars(MaxTimerFires)
  /\ \A i \in Items :
       LET about == {d \in dispatches : i \in d.items} IN
       /\ \A ch \in Channel : WF_batcherVars(\E d \in about : TryChannel(d, ch))
       /\ WF_batcherVars(\E d \in about : ChannelDone(d))
       /\ WF_batcherVars(\E d \in about : DispatchReturns(d))

-----------------------------------------------------------------------------
(* What the batches promise.                                                 *)

\* Each batch that waits has its timers, and no timer outlives its batch: none cuts a
\* later batch short (expectCheckResults, flushUpdateBatch, clearPendingTimers).
TimersBelongToBatches ==
  /\ checkTimers = IF checkBatch = NoBatch THEN 0 ELSE 1
  /\ windowTimers = IF updateBatch = NoBatch THEN 0 ELSE 1
  /\ maxTimers = windowTimers

\* An available update is announced once: it is in one batch or notification at a time,
\* and what is in one is marked, whoever reports it again (dispatchCheckResults).
AnnouncedOnce ==
  /\ Announced \cup (OnTheirWay \cap Container) \subseteq notifiedUpdates
  /\ Announced \cap OnTheirWay = {}
  /\ \A d, e \in dispatches : d.items \cap e.items = {} \/ d = e

\* The outcome of an update is reported however many follow it: the longest wait ends
\* the batch, and a channel that fails does not hold up the others (addUpdateResult).
OutcomeReported ==
  \A r \in UpdateOutcome : r \in Collected ~> r \notin Collected \cup OnTheirWay
=============================================================================
