CONSTANTS
  Pods = {p1, p2}
  NoPod = NoPod
  PodAddresses = {a1, a2}
  NoAddress = NoAddress
  MaxEvents = 2
  MaxEdits = 1
  MaxBreaks = 1
SPECIFICATION Spec
INVARIANT TypeOK
INVARIANT MapFollowsPods
PROPERTY PodEventuallyKnown
CHECK_DEADLOCK FALSE
