\* AWS: three `set`s, a `delete`, and two jobs.
SPECIFICATION Spec
CONSTANTS
  Sets = {s1, s2, s3}
  Deletes = {d1}
  Jobs = {j1, j2}
  Overlapping = {s2, j2}
  Unlucky = {s1, j2}
  Fields <- AwsFields
  PullSecret = "pull_secret"
  Deletable <- Deleted
  Homes = {h1, h2}
  NoOne = NoOne
SYMMETRY HomesAlike
INVARIANTS
  OneSet
  OwnCredentials
PROPERTIES
  VaultKeepsOthers
CHECK_DEADLOCK FALSE
