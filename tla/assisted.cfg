\* Two self-hosted jobs that share a service, one lossy and one that is refused and
\* may be killed, and a SaaS job whose token expires.
SPECIFICATION FairSpec
CONSTANTS
  Jobs = {h1, h2, s1}
  Saas = {s1}
  Lossy = {h1}
  Refusing = {h2}
  Mortal = {h2}
  Hosts = 2
INVARIANTS
  InstalledIsInstalled
  FailedHasCause
  StrandedHasCause
  HostsBeforeWait
PROPERTIES
  JobEnds
  ImplementsClusterLifecycle
CHECK_DEADLOCK FALSE
