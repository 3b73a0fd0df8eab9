CONSTANTS
  Requests = {a1, a2, s1, s2}
  Servers = {s1, s2}
  MaxClock = 7
  MaxStarts = 3
SPECIFICATION TlsSpec
CHECK_DEADLOCK FALSE
SYMMETRY Symmetry
INVARIANT TlsTypeOK
INVARIANT OnlyOverlapsLeaveTwo
INVARIANT ManagementCertFresh
PROPERTY NeverBack
PROPERTY ImplementsCaStore
