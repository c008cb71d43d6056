SPECIFICATION ObsFairSpec
CONSTANTS
  Jobs = {j1}
  MaxLines = 1
  Faults <- TerminalCloses
  Watchers <- LogsAndDoctor
PROPERTIES
  JobSettles
  FollowEnds
  DoctorAnswers
CHECK_DEADLOCK FALSE
