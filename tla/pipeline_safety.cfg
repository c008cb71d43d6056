SPECIFICATION Spec
CONSTANTS
  Creates = {c1, c2}
  Names = {n1, n2}
  Offered <- Methods
  NamedBy <- Methods
  NoCluster = NoCluster
INVARIANTS
  BackedUpBeforeUse
  StatusTellsOutcome
  HostedOnInstalled
  DirectoriesApart
PROPERTIES
  ImplementsClusterLifecycle
CHECK_DEADLOCK FALSE
