----------------------------- MODULE MCLockTable -----------------------------
(* The instance of LockTable that TLC checks. At most one entry per thread and *)
(* one per name are referenced at a time, so |Thread| + |Name| identities are  *)
(* as good as an endless heap. No symmetry: the run checks liveness.           *)
EXTENDS LockTable, FiniteSets

ASSUME EnoughEntries == Cardinality(Entry) >= Cardinality(Thread) + Cardinality(Name)
=============================================================================
