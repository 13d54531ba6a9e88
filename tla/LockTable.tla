------------------------------ MODULE LockTable ------------------------------
(***************************************************************************)
(* The per-container lock table of the agent (agent/updater.go):           *)
(* lockContainer, entry.mu.Unlock() and the janitor StartLockCleanup that  *)
(* drops idle entries from the table every ten minutes.                    *)
(*                                                                         *)
(* A critical section of containerLocksMu that cannot block is one step.   *)
(* The janitor's is not: it holds containerLocksMu for a whole sweep and   *)
(* meets entry mutexes on the way, so it is taken apart.                   *)
(***************************************************************************)
EXTENDS Naturals

CONSTANTS
  Thread,      \* goroutines running handlers
  Name,        \* canonical container names
  Entry,       \* identities of containerLockEntry allocations
  NoEntry,     \* absent from the map, or not looked up yet
  Janitor,     \* the goroutine of StartLockCleanup
  Free         \* a mutex nobody holds

ASSUME LockTableAssumption ==
  /\ NoEntry \notin Entry
  /\ Janitor \notin Thread
  /\ Free \notin Thread \cup {Janitor}

VARIABLES
  containerLocks,    \* Updater.containerLocks: Name -> Entry, NoEntry = absent
  containerLocksMu,  \* held by the janitor across its sweep, else Free
  mu,                \* mu[e]: who holds entry e's sync.Mutex
  deleted,           \* deleted[e]: the entry's flag
  pc,                \* where each thread is in lockContainer
  name,              \* the argument of its call
  entry,             \* its local variable entry
  sweep,             \* what the janitor does next: "sleep", "next", "drop", "release"
  todo,              \* the names its range loop has still to visit
  current            \* the name it is visiting

vars == <<containerLocks, containerLocksMu, mu, deleted, pc, name, entry,
          sweep, todo, current>>
threadVars == <<pc, name, entry>>
janitorVars == <<sweep, todo, current>>

TypeOK ==
  /\ containerLocks \in [Name -> Entry \cup {NoEntry}]
  /\ containerLocksMu \in {Janitor, Free}
  /\ mu \in [Entry -> Thread \cup {Janitor, Free}]
  /\ deleted \in [Entry -> BOOLEAN]
  /\ pc \in [Thread -> {"idle", "lookup", "lock", "validate", "retry", "held"}]
  /\ name \in [Thread -> Name]
  /\ entry \in [Thread -> Entry \cup {NoEntry}]
  /\ sweep \in {"sleep", "next", "drop", "release"}
  /\ todo \in SUBSET Name
  /\ current \in Name

Init ==
  /\ containerLocks = [n \in Name |-> NoEntry]
  /\ containerLocksMu = Free
  /\ mu = [e \in Entry |-> Free]
  /\ deleted = [e \in Entry |-> FALSE]
  /\ pc = [t \in Thread |-> "idle"]
  /\ name \in [Thread -> Name]
  /\ entry = [t \in Thread |-> NoEntry]
  /\ sweep = "sleep"
  /\ todo = {}
  /\ current \in Name

\* An allocation the garbage collector can hand out: neither the map nor a
\* goroutine refers to it. The janitor refers to an entry only while the map
\* does, or until it has unlocked it.
Unreferenced(e) ==
  /\ \A n \in Name : containerLocks[n] # e
  /\ \A t \in Thread : entry[t] # e
  /\ mu[e] = Free

\* A handler calls lockContainer(n).
Call(t, n) ==
  /\ pc[t] = "idle"
  /\ pc' = [pc EXCEPT ![t] = "lookup"]
  /\ name' = [name EXCEPT ![t] = n]
  /\ UNCHANGED <<containerLocks, containerLocksMu, mu, deleted, entry, janitorVars>>

\* The first critical section: find the entry of the name ...
LookupFound(t) ==
  /\ pc[t] = "lookup"
  /\ containerLocksMu = Free
  /\ containerLocks[name[t]] # NoEntry
  /\ entry' = [entry EXCEPT ![t] = containerLocks[name[t]]]
  /\ pc' = [pc EXCEPT ![t] = "lock"]
  /\ UNCHANGED <<containerLocks, containerLocksMu, mu, deleted, name, janitorVars>>

\* ... or add a new one, whose mutex and flag start from their zero values.
LookupCreate(t) ==
  /\ pc[t] = "lookup"
  /\ containerLocksMu = Free
  /\ containerLocks[name[t]] = NoEntry
  /\ \E e \in Entry : Unreferenced(e)
  /\ LET e == CHOOSE e \in Entry : Unreferenced(e)
     IN  /\ entry' = [entry EXCEPT ![t] = e]
         /\ containerLocks' = [containerLocks EXCEPT ![name[t]] = e]
         /\ deleted' = [deleted EXCEPT ![e] = FALSE]
  /\ pc' = [pc EXCEPT ![t] = "lock"]
  /\ UNCHANGED <<containerLocksMu, mu, name, janitorVars>>

\* Mutant: lockContainer never calls entry.mu.Lock().
LockEntry_NoWait(t) ==
  /\ pc[t] = "lock"
  /\ mu' = [mu EXCEPT ![entry[t]] = t]
  /\ pc' = [pc EXCEPT ![t] = "validate"]
  /\ UNCHANGED <<containerLocks, containerLocksMu, deleted, name, entry, janitorVars>>

\* entry.mu.Lock()
LockEntry(t) ==
  /\ pc[t] = "lock"
  /\ mu[entry[t]] = Free
  /\ mu' = [mu EXCEPT ![entry[t]] = t]
  /\ pc' = [pc EXCEPT ![t] = "validate"]
  /\ UNCHANGED <<containerLocks, containerLocksMu, deleted, name, entry, janitorVars>>

\* Mutant: lockContainer as it was before FIX-1.2, trusting the entry it found.
StillValid_NoRecheck(t) == TRUE

\* The re-check: the entry is still the map's and not marked.
StillValid(t) ==
  /\ containerLocks[name[t]] = entry[t]
  /\ ~deleted[entry[t]]

\* The second critical section, which returns the entry or sends the loop back.
Validate(t) ==
  /\ pc[t] = "validate"
  /\ containerLocksMu = Free
  /\ pc' = [pc EXCEPT ![t] = IF StillValid(t) THEN "held" ELSE "retry"]
  /\ UNCHANGED <<containerLocks, containerLocksMu, mu, deleted, name, entry, janitorVars>>

\* Mutant: the loop goes round without entry.mu.Unlock().
Retry_KeepsMutex(t) ==
  /\ pc[t] = "retry"
  /\ entry' = [entry EXCEPT ![t] = NoEntry]
  /\ pc' = [pc EXCEPT ![t] = "lookup"]
  /\ UNCHANGED <<containerLocks, containerLocksMu, mu, deleted, name, janitorVars>>

\* The entry was dropped meanwhile: entry.mu.Unlock() and another round.
Retry(t) ==
  /\ pc[t] = "retry"
  /\ mu' = [mu EXCEPT ![entry[t]] = Free]
  /\ entry' = [entry EXCEPT ![t] = NoEntry]
  /\ pc' = [pc EXCEPT ![t] = "lookup"]
  /\ UNCHANGED <<containerLocks, containerLocksMu, deleted, name, janitorVars>>

\* The caller's entry.mu.Unlock().
Unlock(t) ==
  /\ pc[t] = "held"
  /\ mu' = [mu EXCEPT ![entry[t]] = Free]
  /\ entry' = [entry EXCEPT ![t] = NoEntry]
  /\ pc' = [pc EXCEPT ![t] = "idle"]
  /\ UNCHANGED <<containerLocks, containerLocksMu, deleted, name, janitorVars>>

\* The ticker fires: containerLocksMu.Lock() and the range over the map.
SweepBegin ==
  /\ sweep = "sleep"
  /\ containerLocksMu = Free
  /\ containerLocksMu' = Janitor
  /\ todo' = {n \in Name : containerLocks[n] # NoEntry}
  /\ sweep' = "next"
  /\ UNCHANGED <<containerLocks, mu, deleted, threadVars, current>>

\* Mutant: the janitor drops entries that are in use.
SweepTryLock_Blind(n) ==
  /\ sweep = "next"
  /\ n \in todo
  /\ current' = n
  /\ sweep' = "drop"
  /\ UNCHANGED <<containerLocks, containerLocksMu, mu, deleted, threadVars, todo>>

\* entry.mu.TryLock() succeeds ...
SweepTryLock(n) ==
  /\ sweep = "next"
  /\ n \in todo
  /\ mu[containerLocks[n]] = Free
  /\ mu' = [mu EXCEPT ![containerLocks[n]] = Janitor]
  /\ current' = n
  /\ sweep' = "drop"
  /\ UNCHANGED <<containerLocks, containerLocksMu, deleted, threadVars, todo>>

\* Mutant: Lock() instead of TryLock(): a busy entry is waited for.
SweepSkip_Never(n) == FALSE /\ UNCHANGED vars

\* ... or fails, and the entry is left alone.
SweepSkip(n) ==
  /\ sweep = "next"
  /\ n \in todo
  /\ mu[containerLocks[n]] # Free
  /\ todo' = todo \ {n}
  /\ UNCHANGED <<containerLocks, containerLocksMu, mu, deleted, threadVars, sweep, current>>

\* entry.deleted = true; delete(u.containerLocks, id); entry.mu.Unlock(). The
\* flag and the map are read under containerLocksMu only, which is held here;
\* the unlock is what a thread blocked in LockEntry can see.
SweepDrop ==
  /\ sweep = "drop"
  /\ LET e == containerLocks[current]
     IN  /\ deleted' = [deleted EXCEPT ![e] = TRUE]
         /\ mu' = [mu EXCEPT ![e] = Free]
  /\ containerLocks' = [containerLocks EXCEPT ![current] = NoEntry]
  /\ todo' = todo \ {current}
  /\ sweep' = "next"
  /\ UNCHANGED <<containerLocksMu, threadVars, current>>

SweepEnd ==
  /\ sweep = "next"
  /\ todo = {}
  /\ containerLocksMu' = Free
  /\ sweep' = "sleep"
  /\ UNCHANGED <<containerLocks, mu, deleted, threadVars, todo, current>>

LockContainer(t) ==
  LookupFound(t) \/ LookupCreate(t) \/ LockEntry(t) \/ Validate(t) \/ Retry(t)

Sweep ==
  \/ SweepBegin
  \/ \E n \in Name : SweepTryLock(n) \/ SweepSkip(n)
  \/ SweepDrop
  \/ SweepEnd

Next ==
  \/ \E t \in Thread :
       \/ \E n \in Name : Call(t, n)
       \/ LockContainer(t)
       \/ Unlock(t)
  \/ Sweep

Spec == Init /\ [][Next]_vars

\* Scheduling: goroutines that can run do run; sync.Mutex hands a lock that
\* keeps coming free to its longest waiter (starvation mode), hence SF where a
\* thread waits for a mutex; handlers finish and release (WF on Unlock); a
\* sweep, once begun, is carried through. Nothing obliges the ticker to fire
\* or a handler to be called.
Fairness ==
  /\ \A t \in Thread :
       /\ SF_vars(LookupFound(t) \/ LookupCreate(t))
       /\ SF_vars(LockEntry(t))
       /\ SF_vars(Validate(t))
       /\ WF_vars(Retry(t))
       /\ WF_vars(Unlock(t))
  /\ WF_vars(\E n \in Name : SweepTryLock(n) \/ SweepSkip(n))
  /\ WF_vars(SweepDrop)
  /\ WF_vars(SweepEnd)

FairSpec == Spec /\ Fairness

-----------------------------------------------------------------------------
\* Two handlers are never both inside lockContainer's protection for one name,
\* whatever the janitor did between the lookup and the lock.
MutualExclusion ==
  \A t, u \in Thread :
    pc[t] = "held" /\ pc[u] = "held" /\ name[t] = name[u] => t = u

\* An entry a handler relies on stays the map's entry of that name: a later
\* caller of lockContainer queues behind it and is not handed a fresh mutex.
HeldEntryInTable ==
  \A t \in Thread :
    pc[t] = "held" => containerLocks[name[t]] = entry[t] /\ ~deleted[entry[t]]

\* LockTable implements the lock-per-name that the updater's operations rely on.
Waiting(n) == {t \in Thread : name[t] = n /\ pc[t] \in {"lookup", "lock", "validate", "retry"}}
Holding(n) == {t \in Thread : name[t] = n /\ pc[t] = "held"}

Mutex == INSTANCE NameMutex WITH
           wants <- [n \in Name |-> Waiting(n)],
           holder <- [n \in Name |-> Holding(n)]

ImplementsNameMutex == Mutex!NameMutexSpec

\* A call of lockContainer returns, if the janitor's ten-minute sweeps leave it
\* alone from some point on: each failed re-check was a sweep's doing.
LockContainerReturns ==
  <>[](sweep = "sleep") =>
    \A t \in Thread : pc[t] = "lookup" ~> pc[t] = "held"

\* A sweep ends: it never waits for a handler, though it keeps containerLocksMu
\* from all of them while it runs.
SweepEnds == (sweep # "sleep") ~> (sweep = "sleep")
=============================================================================
