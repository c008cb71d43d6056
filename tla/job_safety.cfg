\* One job under every fault and watched by every command, with all interleavings of
\* launcher, child and commands.
SPECIFICATION ObsSpec
CONSTANTS
  Jobs = {j1}
  MaxLines = 1
  Faults <- FaultKinds
  Watchers <- WatcherKinds
INVARIANTS
  TypeOK
  OutcomeAgreement
  ChildFindsItsJob
  ReportsAreTrue
  ReadAfterSuccessIsComplete
  ListSeesExit
PROPERTIES
  OutcomeKept
  ImplementsLifecycle
CHECK_DEADLOCK FALSE
