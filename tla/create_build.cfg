\* The package's catalog and a shared one that has been three things; one update runs.
SPECIFICATION Spec
CONSTANTS
  Trees = {"t0", "t1", "t2", "t3"}
  Bundled = "t0"
  Entry <- Entries
  Lacking = {"t2"}
  Preview <- Previews
  MaxUpdates = 1
INVARIANTS
  AskedSuffices
  ManifestsAsAsked
  NothingWrongBuilt
  PreviewConfirmed
  OneTree
CHECK_DEADLOCK FALSE
