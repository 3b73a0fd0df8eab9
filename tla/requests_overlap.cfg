CONSTANTS
  Users = {u1, m1, m2}
  Managers = {m1, m2}
  Requests = {q1, q2}
  Tokens = {t1, t2}
  Calls = {c1, c2, c3}
  NoUser = NoUser
  NoRequest = NoRequest
  NoToken = NoToken
  Faults = {"fail"}
SPECIFICATION Spec
SYMMETRY Symmetry
INVARIANT LinkedMapping
INVARIANT NoStrayMapping
PROPERTY ApprovedForGood
PROPERTY FinalUnlessShared
