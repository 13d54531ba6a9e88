SPECIFICATION OrderSpec
CONSTANTS
  Target = {n1, n2}
  Dependency = {n1}
  Priority = {100}
  DefaultPriority = 100
  LabelDependsOn = {{}, {n1}}
  NoSelf = NoSelf
INVARIANTS
  LabelledDependenciesFirst
