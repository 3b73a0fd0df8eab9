------------------------------ MODULE AccessPolicy ------------------------------
(***************************************************************************)
(* What groups and grants promise, apart from the calls that keep them:    *)
(* a user sees the tokens he made, those granted to him and those granted  *)
(* to a group he is in.  Memberships and grants come and go one at a time, *)
(* between parties that exist, and leave with them; a group that was       *)
(* deleted does not come back.                                             *)
(***************************************************************************)
CONSTANTS Users, Groups, Tokens

VARIABLES
  users,    \* users that exist
  groups,   \* groups that exist
  gone,     \* groups that existed
  member,   \* pairs of group and user
  grant,    \* pairs of user or group and token
  maker     \* pairs of user and token

policyVars == <<users, groups, gone, member, grant, maker>>

Principals == users \union groups
Made == {p[2] : p \in maker}

Visible(u) ==
  {t \in Tokens : \/ <<u, t>> \in maker \union grant
                  \/ \E g \in groups : <<g, u>> \in member /\ <<g, t>> \in grant}

Init ==
  /\ users = Users
  /\ groups = {} /\ gone = {} /\ member = {} /\ grant = {} /\ maker = {}

Make(u, t) ==
  /\ u \in users /\ t \notin Made
  /\ maker' = maker \union {<<u, t>>}
  /\ UNCHANGED <<users, groups, gone, member, grant>>

Found(g) ==
  /\ g \notin groups \union gone
  /\ groups' = groups \union {g}
  /\ UNCHANGED <<users, gone, member, grant, maker>>

Join(g, u) ==
  /\ g \in groups /\ u \in users /\ <<g, u>> \notin member
  /\ member' = member \union {<<g, u>>}
  /\ UNCHANGED <<users, groups, gone, grant, maker>>

Leave(g, u) ==
  /\ member' = member \ {<<g, u>>}
  /\ UNCHANGED <<users, groups, gone, grant, maker>>

Allow(p, t) ==
  /\ p \in Principals /\ t \in Made /\ <<p, t>> \notin grant
  /\ grant' = grant \union {<<p, t>>}
  /\ UNCHANGED <<users, groups, gone, member, maker>>

Withdraw(p, t) ==
  /\ grant' = grant \ {<<p, t>>}
  /\ UNCHANGED <<users, groups, gone, member, maker>>

\* A group is deleted with its members and grants.
Disband(g) ==
  /\ g \in groups
  /\ groups' = groups \ {g}
  /\ gone' = gone \union {g}
  /\ member' = {m \in member : m[1] # g}
  /\ grant' = {p \in grant : p[1] # g}
  /\ UNCHANGED <<users, maker>>

\* A user is deleted with his memberships and grants, but not while a token
\* names him as its maker.
Depart(u) ==
  /\ u \in users
  /\ \A p \in maker : p[1] # u
  /\ users' = users \ {u}
  /\ member' = {m \in member : m[2] # u}
  /\ grant' = {p \in grant : p[1] # u}
  /\ UNCHANGED <<groups, gone, maker>>

Next ==
  \/ \E u \in Users, t \in Tokens : Make(u, t)
  \/ \E g \in Groups : Found(g) \/ Disband(g)
  \/ \E g \in Groups, u \in Users : Join(g, u) \/ Leave(g, u)
  \/ \E p \in Users \union Groups, t \in Tokens : Allow(p, t) \/ Withdraw(p, t)
  \/ \E u \in Users : Depart(u)

Spec == Init /\ [][Next]_policyVars
===============================================================================
