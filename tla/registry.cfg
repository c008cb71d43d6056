\* Two registrations, a third that may begin while another command runs, and a
\* verification, with two users on two ports.
SPECIFICATION Spec
CONSTANTS
  Registers = {r1, r2, r3}
  Verifies = {v1}
  Overlapping = {r3}
  r1 = r1
  r2 = r2
  u1 = u1
  u2 = u2
  p1 = p1
  p2 = p2
  Users = {u1, u2}
  Ports = {p1, p2}
  Passwords <- TwoPasswords
  ByAgent = {}
  ByKeyFile <- KeyFileOnly
  None = None
SYMMETRY InTurn
INVARIANTS
  StaysReachable
  ToolsOfTheAccount
CHECK_DEADLOCK FALSE
