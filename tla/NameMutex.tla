------------------------------ MODULE NameMutex ------------------------------
(***************************************************************************)
(* What agent/updater.go promises its callers about per-container locks:   *)
(* every name has a lock of its own, a thread that asked for a name waits  *)
(* until the lock of that name is free, and gets all of it in one step.    *)
(*                                                                         *)
(* LockTable is the code's implementation of this promise (a map of mutex  *)
(* entries that a janitor empties); Updater uses the promise itself.       *)
(***************************************************************************)
CONSTANTS
  Thread,      \* the goroutines that call lockContainer
  Name         \* the keys of Updater.containerLocks: canonical names

VARIABLES
  wants,       \* wants[n]: the threads that are waiting inside lockContainer(n)
  holder       \* holder[n]: the threads lockContainer(n) has returned to

mutexVars == <<wants, holder>>

NameMutexInit ==
  /\ wants = [n \in Name |-> {}]
  /\ holder = [n \in Name |-> {}]

\* A thread calls lockContainer(n).
Request(t, n) ==
  /\ \A m \in Name : t \notin wants[m] \cup holder[m]
  /\ wants' = [wants EXCEPT ![n] = @ \cup {t}]
  /\ UNCHANGED holder

\* lockContainer(n) returns to a thread that waits for it.
Acquire(t, n) ==
  /\ t \in wants[n]
  /\ holder[n] = {}
  /\ wants' = [wants EXCEPT ![n] = @ \ {t}]
  /\ holder' = [holder EXCEPT ![n] = {t}]

\* The caller's entry.mu.Unlock().
Release(t, n) ==
  /\ t \in holder[n]
  /\ holder' = [holder EXCEPT ![n] = @ \ {t}]
  /\ UNCHANGED wants

NameMutexNext ==
  \E t \in Thread, n \in Name : Request(t, n) \/ Acquire(t, n) \/ Release(t, n)

NameMutexSpec == NameMutexInit /\ [][NameMutexNext]_mutexVars
=============================================================================
