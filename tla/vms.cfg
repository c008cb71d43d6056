\* Two UPI jobs that share the template, one of which may overlap the other and be
\* interrupted or held anywhere, and an Agent job, which boots its VMs from its own ISO:
\* any two of them, on both platforms.  Of three VMs of a UPI job the first is the
\* bootstrap VM, the second the control plane, the third a worker.
SPECIFICATION FairSpec
CONSTANTS
  Jobs = {u1, u2, a1}
  IsoJobs = {a1}
  Nodes = 3
  Masters = 1
  Overlapping = {u1}
  Hasty = {u1}
  MaxJobs = 2
  NoImage = NoImage
INVARIANTS
  WholeDisks
  BootstrapServesAll
PROPERTIES
  BootsConfigured
  ProvisioningEnds
CHECK_DEADLOCK FALSE
