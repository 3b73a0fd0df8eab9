CONSTANTS
  Users = {u1, u2}
  Creds = {c1}
  Calls = {q1, q2}
  Roles = {"viewer", "admin"}
  MaxChallenges = 1
  NoUser = NoUser
  NoCred = NoCred
  NoRole = NoRole
SPECIFICATION Spec
SYMMETRY Symmetry
INVARIANT TypeOK
INVARIANT AdminRemains
INVARIANT UsedOnce
INVARIANT RowsAgree
