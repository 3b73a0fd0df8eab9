CONSTANTS
  Tokens = {t1}
  Reals = {r1, r2}
  Requests = {q1, q2}
  Instances = {i1, i2}
  Proxies = {p1}
  NoReal = NoReal
  NoToken = NoToken
  NoInstance = NoInstance
  Faults = {"call", "evict", "crash"}
  MaxCrashes = 3
SPECIFICATION Spec
SYMMETRY Symmetry
INVARIANT CachedWasStored
INVARIANT Coherent
PROPERTY LookupIsCurrent
PROPERTY RevokedRowOnlyOvertaken
