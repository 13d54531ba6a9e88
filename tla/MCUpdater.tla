------------------------------ MODULE MCUpdater ------------------------------
(* Instances of Updater for TLC: the container of the app has ID 1.        *)
EXTENDS Updater, FiniteSets, TLC

CONSTANT a1

OneApp == [a \in {a1} |-> 1]

\* Goroutines are interchangeable; used by runs without a liveness property.
ThreadSymmetry == Permutations(Thread)
=============================================================================
