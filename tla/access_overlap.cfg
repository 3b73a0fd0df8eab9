CONSTANTS
  Users = {a1, u1}
  Admins = {a1}
  Managers = {a1, u1}
  Groups = {g1}
  Tokens = {t1}
  Names = {n1}
  GrantTos = {{u1, g1}}
  Calls = {q1, q2}
  NoUser = NoUser
  NoGroup = NoGroup
  NoToken = NoToken
  NoName = NoName
  Gone = Gone
  Faults = {"fail"}
SPECIFICATION Spec
SYMMETRY Symmetry
INVARIANT TypeOK
INVARIANT GrantToHonoured
PROPERTY ImplementsAccessPolicy
