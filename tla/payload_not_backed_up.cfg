SPECIFICATION Spec
CONSTANTS
  Creates = {c1}
  Names = {n1}
  Offered <- AssistedOnly
  NamedBy <- Methods
  NoCluster = NoCluster
INVARIANTS
  PayloadsBackedUp
CHECK_DEADLOCK FALSE
