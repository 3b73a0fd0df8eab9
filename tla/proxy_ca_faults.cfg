CONSTANTS
  Cas = {c1, c2, c3}
  NoCa = NoCa
  Undecryptable = {c3}
  Hosts = {h1}
  Ticks = {k1, k2}
  Jobs = {j1, j2}
  MaxChanges = 2
  MaxCrashes = 1
  Faults = {"early", "db"}
SPECIFICATION LiveSpec
CHECK_DEADLOCK FALSE
INVARIANT ProxyTypeOK
INVARIANT StaleLeafAnnounced
PROPERTY FollowsEverywhere
