\* Two jobs with an ignition transfer and a third that may overlap them and fail; two
\* image transfers that overlap, one of which may fail inside the try, one outside; an
\* image transfer on the port of the ignition.
SPECIFICATION FairSpec
CONSTANTS
  m1 = m1
  m2 = m2
  m3 = m3
  Transfers = {i1, i2, i3, m1, m2, m3}
  Ignition = {i1, i2, i3}
  ImagePort <- DefaultAndIgnitionPort
  Overlapping = {i3, m1, m2}
  MayError = {i3, m1}
  Exposed = {m2}
  NoOne = NoOne
INVARIANTS
  OwnFile
  ImagePortFreed
PROPERTIES
  StopAfterAllFetched
  TransferEnds
CHECK_DEADLOCK FALSE
