SPECIFICATION Spec
CONSTANTS
  Creates = {c1}
  Names = {n1}
  Offered <- IpiOnly
  NamedBy <- BundledCatalog
  NoCluster = NoCluster
INVARIANTS
  KubeconfigOnRecord
CHECK_DEADLOCK FALSE
