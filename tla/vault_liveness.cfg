CONSTANTS
  Tokens = {t1}
  Reals = {r1}
  Requests = {q1, q2}
  Instances = {i1, i2}
  Proxies = {}
  NoReal = NoReal
  NoToken = NoToken
  NoInstance = NoInstance
  Faults = {"crash"}
  MaxCrashes = 2
SPECIFICATION LiveSpec
PROPERTY ActiveEventuallyServed
CHECK_DEADLOCK FALSE
