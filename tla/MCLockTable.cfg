SPECIFICATION FairSpec
CONSTANTS
  Thread = {t1, t2}
  Name = {n1, n2}
  Entry = {e1, e2, e3, e4}
  NoEntry = NoEntry
  Janitor = Janitor
  Free = Free
INVARIANTS
  MutualExclusion
  HeldEntryInTable
PROPERTIES
  ImplementsNameMutex
  LockContainerReturns
  SweepEnds
