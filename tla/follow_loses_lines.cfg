SPECIFICATION ObsSpec
CONSTANTS
  Jobs = {j1}
  MaxLines = 2
  Faults <- NoFaults
  Watchers <- LogsOnly
INVARIANTS
  FollowerSeesAll
CHECK_DEADLOCK FALSE
