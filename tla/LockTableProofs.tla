--------------------------- MODULE LockTableProofs ---------------------------
(* What the agent's lock table guarantees for any number of goroutines, names and *)
(* entries.                                                                 *)
EXTENDS LockTable, TLAPS

-----------------------------------------------------------------------------
\* The strengthening. A thread past entry.mu.Lock() owns the mutex of its
\* entry; while the janitor is about to drop an entry, it owns that entry's.
OwnsMutex ==
  \A t \in Thread :
    pc[t] \in {"validate", "retry", "held"} => entry[t] \in Entry /\ mu[entry[t]] = t

HasEntry ==
  \A t \in Thread : pc[t] = "lock" => entry[t] \in Entry

JanitorOwns ==
  sweep = "drop" =>
    /\ containerLocks[current] \in Entry
    /\ mu[containerLocks[current]] = Janitor

\* During a sweep no thread can add, find or re-check an entry, so every name
\* still to be visited is in the map.
TodoInTable ==
  sweep # "sleep" =>
    /\ containerLocksMu = Janitor
    /\ \A n \in todo : containerLocks[n] \in Entry

IInv == TypeOK /\ OwnsMutex /\ HasEntry /\ JanitorOwns /\ TodoInTable /\ HeldEntryInTable

-----------------------------------------------------------------------------
\* The initial table satisfies the strengthening (NewUpdater's empty map).
LEMMA InitIInv == Init => IInv
  BY DEF Init, IInv, TypeOK, OwnsMutex, HasEntry, JanitorOwns, TodoInTable,
         HeldEntryInTable

\* Every step of lockContainer, Unlock and the janitor preserves it.
LEMMA StepIInv == IInv /\ [Next]_vars => IInv'
<1> SUFFICES ASSUME IInv, [Next]_vars PROVE IInv'
  OBVIOUS
<1> USE LockTableAssumption DEF IInv, TypeOK, OwnsMutex, HasEntry, JanitorOwns,
        TodoInTable, HeldEntryInTable
<1>1. ASSUME NEW t \in Thread, NEW n \in Name, Call(t, n) PROVE IInv'
  BY <1>1 DEF Call, janitorVars
<1>2. ASSUME NEW t \in Thread, LookupFound(t) PROVE IInv'
  BY <1>2 DEF LookupFound, janitorVars
<1>3. ASSUME NEW t \in Thread, LookupCreate(t) PROVE IInv'
  BY <1>3 DEF LookupCreate, Unreferenced, janitorVars
<1>4. ASSUME NEW t \in Thread, LockEntry(t) PROVE IInv'
  BY <1>4 DEF LockEntry, janitorVars
<1>5. ASSUME NEW t \in Thread, Validate(t) PROVE IInv'
  BY <1>5 DEF Validate, StillValid, janitorVars
<1>6. ASSUME NEW t \in Thread, Retry(t) PROVE IInv'
  BY <1>6 DEF Retry, janitorVars
<1>7. ASSUME NEW t \in Thread, Unlock(t) PROVE IInv'
  BY <1>7 DEF Unlock, janitorVars
<1>8. CASE SweepBegin
  BY <1>8 DEF SweepBegin, threadVars
<1>9. ASSUME NEW n \in Name, SweepTryLock(n) PROVE IInv'
  BY <1>9 DEF SweepTryLock, threadVars
<1>10. ASSUME NEW n \in Name, SweepSkip(n) PROVE IInv'
  BY <1>10 DEF SweepSkip, threadVars
<1>11. CASE SweepDrop
  BY <1>11 DEF SweepDrop, threadVars
<1>12. CASE SweepEnd
  BY <1>12 DEF SweepEnd, threadVars
<1>13. CASE UNCHANGED vars
  BY <1>13 DEF vars
<1>14. QED
  BY <1>1, <1>2, <1>3, <1>4, <1>5, <1>6, <1>7, <1>8, <1>9, <1>10, <1>11, <1>12,
     <1>13 DEF Next, LockContainer, Sweep

\* The strengthening is an invariant of lockContainer and StartLockCleanup.
THEOREM TableInvariant == Spec => []IInv
<1> QED
  BY InitIInv, StepIInv, PTL DEF Spec

\* Every variable of the lock table keeps its type.
THEOREM TypeCorrect == Spec => []TypeOK
<1>1. IInv => TypeOK
  BY DEF IInv
<1> QED
  BY <1>1, TableInvariant, PTL

\* An entry a handler relies on stays in the table, unmarked: StartLockCleanup
\* drops idle entries only.
THEOREM HeldEntriesStay == Spec => []HeldEntryInTable
<1>1. IInv => HeldEntryInTable
  BY DEF IInv
<1> QED
  BY <1>1, TableInvariant, PTL

\* lockContainer gives a name to one goroutine at a time.
THEOREM MutualExclusionHolds == Spec => []MutualExclusion
<1>1. ASSUME IInv PROVE MutualExclusion
  <2> SUFFICES ASSUME NEW t \in Thread, NEW u \in Thread,
                      pc[t] = "held", pc[u] = "held", name[t] = name[u]
               PROVE  t = u
    BY DEF MutualExclusion
  <2>1. entry[t] = containerLocks[name[t]] /\ entry[u] = containerLocks[name[t]]
    BY <1>1 DEF IInv, HeldEntryInTable
  <2>2. mu[entry[t]] = t /\ mu[entry[u]] = u
    BY <1>1 DEF IInv, OwnsMutex
  <2> QED
    BY <2>1, <2>2
<1> QED
  BY <1>1, TableInvariant, PTL

-----------------------------------------------------------------------------
\* The abstract lock that a step of the table is a step of: Call is Request,
\* the successful re-check is Acquire, Unlock is Release, and everything else,
\* the janitor's sweeps and the retries included, is invisible.
WaitingIn == [n \in Name |-> Waiting(n)]
HoldingIn == [n \in Name |-> Holding(n)]

\* A step that moves no thread into or out of lockContainer changes neither view.
LEMMA SameViews ==
  ASSUME name' = name,
         \A t \in Thread :
           (pc'[t] = "held" <=> pc[t] = "held") /\ (pc'[t] = "idle" <=> pc[t] = "idle"),
         TypeOK, TypeOK'
  PROVE  UNCHANGED <<WaitingIn, HoldingIn>>
<1>1. \A n \in Name : Waiting(n)' = Waiting(n)
  BY DEF Waiting, TypeOK
<1>2. \A n \in Name : Holding(n)' = Holding(n)
  BY DEF Holding
<1> QED
  BY <1>1, <1>2 DEF WaitingIn, HoldingIn

\* Each step of the table is a step of the per-name mutex or leaves it alone.
LEMMA StepImplements ==
  IInv /\ IInv' /\ [Next]_vars => [Mutex!NameMutexNext]_(Mutex!mutexVars)
<1> SUFFICES ASSUME IInv, IInv', [Next]_vars
             PROVE  Mutex!NameMutexNext \/ UNCHANGED <<WaitingIn, HoldingIn>>
  BY DEF Mutex!mutexVars, WaitingIn, HoldingIn
<1>0. TypeOK /\ TypeOK'
  BY DEF IInv
<1>1. ASSUME NEW t \in Thread, NEW n \in Name, Call(t, n)
      PROVE  Mutex!NameMutexNext
  <2>1. pc[t] = "idle" /\ pc' = [pc EXCEPT ![t] = "lookup"] /\ name' = [name EXCEPT ![t] = n]
    BY <1>1 DEF Call
  <2>2. \A m \in Name : t \notin WaitingIn[m] \cup HoldingIn[m]
    BY <2>1 DEF WaitingIn, HoldingIn, Waiting, Holding
  <2>3. \A m \in Name : Waiting(m)' = IF m = n THEN Waiting(m) \cup {t} ELSE Waiting(m)
    BY <1>0, <2>1 DEF Waiting, TypeOK
  <2>4. WaitingIn' = [WaitingIn EXCEPT ![n] = @ \cup {t}]
    BY <2>3 DEF WaitingIn
  <2>5. \A m \in Name : Holding(m)' = Holding(m)
    BY <1>0, <2>1 DEF Holding, TypeOK
  <2>6. UNCHANGED HoldingIn
    BY <2>5 DEF HoldingIn
  <2>7. Mutex!Request(t, n)
    BY <2>2, <2>4, <2>6 DEF Mutex!Request, WaitingIn, HoldingIn
  <2> QED
    BY <2>7 DEF Mutex!NameMutexNext
<1>2. ASSUME NEW t \in Thread, LockContainer(t)
      PROVE  Mutex!NameMutexNext \/ UNCHANGED <<WaitingIn, HoldingIn>>
  <2>1. CASE Validate(t) /\ StillValid(t)
    <3> DEFINE n == name[t]
    <3>1. n \in Name /\ name' = name /\ pc[t] = "validate" /\ pc' = [pc EXCEPT ![t] = "held"]
      BY <1>0, <2>1 DEF Validate, TypeOK
    <3>2. t \in WaitingIn[n]
      BY <3>1 DEF WaitingIn, Waiting
    <3>3. HoldingIn[n] = {}
      <4> SUFFICES ASSUME NEW u \in Thread, name[u] = n, pc[u] = "held" PROVE FALSE
        BY <3>1 DEF HoldingIn, Holding
      <4>1. entry[u] = entry[t]
        BY <2>1 DEF IInv, HeldEntryInTable, StillValid
      <4>2. mu[entry[t]] = t /\ mu[entry[u]] = u
        BY <3>1 DEF IInv, OwnsMutex
      <4> QED
        BY <3>1, <4>1, <4>2
    <3>4. \A m \in Name : Waiting(m)' = IF m = n THEN Waiting(m) \ {t} ELSE Waiting(m)
      BY <1>0, <3>1 DEF Waiting, TypeOK
    <3>5. WaitingIn' = [WaitingIn EXCEPT ![n] = @ \ {t}]
      BY <3>4 DEF WaitingIn
    <3>6. \A m \in Name : Holding(m)' = IF m = n THEN {t} ELSE Holding(m)
      <4>1. Holding(n) = {}
        BY <3>1, <3>3 DEF HoldingIn
      <4>2. Holding(n)' = {t}
        BY <1>0, <3>1, <4>1 DEF Holding, TypeOK
      <4>3. \A m \in Name \ {n} : Holding(m)' = Holding(m)
        BY <1>0, <3>1 DEF Holding, TypeOK
      <4> QED
        BY <3>1, <4>2, <4>3 DEF Holding
    <3>7. HoldingIn' = [HoldingIn EXCEPT ![n] = {t}]
      BY <3>6 DEF HoldingIn
    <3>8. Mutex!Acquire(t, n)
      BY <3>2, <3>3, <3>5, <3>7 DEF Mutex!Acquire, WaitingIn, HoldingIn
    <3> QED
      BY <3>1, <3>8 DEF Mutex!NameMutexNext
  <2>2. CASE ~(Validate(t) /\ StillValid(t))
    <3>1. name' = name
      BY <1>2 DEF LockContainer, LookupFound, LookupCreate, LockEntry, Validate, Retry
    <3>2. \A u \in Thread :
            (pc'[u] = "held" <=> pc[u] = "held") /\ (pc'[u] = "idle" <=> pc[u] = "idle")
      BY <1>0, <1>2, <2>2 DEF LockContainer, LookupFound, LookupCreate, LockEntry,
                              Validate, Retry, TypeOK
    <3> QED
      BY <1>0, <3>1, <3>2, SameViews
  <2> QED
    BY <2>1, <2>2
<1>3. ASSUME NEW t \in Thread, Unlock(t)
      PROVE  Mutex!NameMutexNext
  <2> DEFINE n == name[t]
  <2>1. n \in Name /\ name' = name /\ pc[t] = "held" /\ pc' = [pc EXCEPT ![t] = "idle"]
    BY <1>0, <1>3 DEF Unlock, TypeOK
  <2>2. t \in HoldingIn[n]
    BY <2>1 DEF HoldingIn, Holding
  <2>3. \A m \in Name : Holding(m)' = IF m = n THEN Holding(m) \ {t} ELSE Holding(m)
    BY <1>0, <2>1 DEF Holding, TypeOK
  <2>4. HoldingIn' = [HoldingIn EXCEPT ![n] = @ \ {t}]
    BY <2>3 DEF HoldingIn
  <2>5. \A m \in Name : Waiting(m)' = Waiting(m)
    BY <1>0, <2>1 DEF Waiting, TypeOK
  <2>6. UNCHANGED WaitingIn
    BY <2>5 DEF WaitingIn
  <2>7. Mutex!Release(t, n)
    BY <2>2, <2>4, <2>6 DEF Mutex!Release, WaitingIn, HoldingIn
  <2> QED
    BY <2>1, <2>7 DEF Mutex!NameMutexNext
<1>4. CASE Sweep
  <2>1. UNCHANGED <<pc, name>>
    BY <1>4 DEF Sweep, SweepBegin, SweepTryLock, SweepSkip, SweepDrop, SweepEnd, threadVars
  <2> QED
    BY <1>0, <2>1, SameViews
<1>5. CASE UNCHANGED vars
  <2>1. UNCHANGED <<pc, name>>
    BY <1>5 DEF vars
  <2> QED
    BY <1>0, <2>1, SameViews
<1> QED
  BY <1>1, <1>2, <1>3, <1>4, <1>5 DEF Next

\* lockContainer with its janitor implements the lock per name that the
\* updater's operations are written against.
THEOREM TableImplementsNameMutex == Spec => ImplementsNameMutex
<1>1. Init => Mutex!NameMutexInit
  BY DEF Init, Mutex!NameMutexInit, Waiting, Holding
<1> QED
  BY <1>1, StepImplements, TableInvariant, PTL
  DEF Spec, ImplementsNameMutex, Mutex!NameMutexSpec
=============================================================================
