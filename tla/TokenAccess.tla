------------------------------ MODULE TokenAccess ------------------------------
(***************************************************************************)
(* Groups, their members, and who may use which token                      *)
(* (packages/api/src/routes/groups.ts and tokens.ts) over the tables       *)
(* groups, group_members, token_access, token_group_access and             *)
(* token_mappings.                                                         *)
(*                                                                         *)
(* A handler asks a few SELECTs whether what it needs is there and then    *)
(* writes; anything may be gone, or there, by then.  Every row names who   *)
(* wrote it, and its columns are foreign keys: those of the parties with   *)
(* ON DELETE CASCADE, those of the writers without.  One action is one SQL *)
(* statement.  A caller acts under a session, which may outlive the user.  *)
(***************************************************************************)
EXTENDS Integers, Sequences, FiniteSets

CONSTANTS
  Users, NoUser,
  Admins, Managers,   \* whose session says admin, and manager or admin
  Groups, NoGroup,
  Tokens, NoToken,
  Names, NoName, Gone,\* names of groups; a group not created yet, or deleted
  GrantTos,           \* the sets of users and groups a token is created with
  Calls,              \* slots for HTTP calls in progress
  Faults              \* {"fail"} if calls may fail, or {}

Principals == Users \union Groups
NoPrincipal == NoUser

ASSUME ConstantsAssumption ==
  /\ NoUser \notin Principals /\ NoGroup \notin Groups /\ NoToken \notin Tokens
  /\ Users \intersect Groups = {}
  /\ NoName \notin Names /\ Gone \notin Names /\ Gone # NoName
  /\ Admins \subseteq Managers /\ Managers \subseteq Users
  /\ GrantTos \subseteq SUBSET Principals

VARIABLES
  users,       \* ids of rows of users
  name,        \* groups: name, NoName before the row exists, Gone after
  creator,     \* groups: created_by
  added,       \* group_members: added_by, NoUser if there is no row
  granted,     \* token_access, token_group_access: granted_by
  owner,       \* token_mappings: created_by
  call,        \* calls in progress
  owed         \* history: grants the creation of a token asked for, but for those
               \* that failed and those taken back since

rows == <<users, name, creator, added, granted, owner>>
vars == <<rows, call, owed>>

Exists(g) == name[g] \in Names
Present(p) == IF p \in Users THEN p \in users ELSE Exists(p)
Made(t) == owner[t] # NoUser
Member(g, u) == added[g][u] # NoUser
Granted(p, t) == granted[p][t] # NoUser

-------------------------------------------------------------------------------
\* A call is the statements it still has to do and what they are about.
Idle == [todo |-> <<>>, actor |-> NoUser, group |-> NoGroup, to |-> NoPrincipal,
         token |-> NoToken, name |-> NoName, rest |-> {}]

Begin(q, c) == call[q] = Idle /\ call' = [call EXCEPT ![q] = c]
At(q, s) == call[q].todo # <<>> /\ Head(call[q].todo) = s
Advance(q) == call' = [call EXCEPT ![q].todo = Tail(@)]
Done(q) == call' = [call EXCEPT ![q] = Idle]

\* SELECTs that only decide whether the handler goes on.
Passes(c, s) ==
  \/ s = "group?" /\ Exists(c.group)
  \/ s = "user?" /\ c.to \in users
  \/ s = "token?" /\ Made(c.token)
  \/ s = "member?" /\ ~Member(c.group, c.to)
  \/ s = "grant?" /\ ~Granted(c.to, c.token)
  \/ s = "name?" /\ \A g \in Groups \ {c.group} : name[g] # c.name

Checks == {"group?", "user?", "token?", "member?", "grant?", "name?"}

check(q) ==
  \E s \in Checks :
    /\ At(q, s)
    /\ IF Passes(call[q], s) THEN Advance(q) ELSE Done(q)
    /\ UNCHANGED <<rows, owed>>

\* The statement a handler ends with: it changes rows, or fails.
Finally(q, s) == At(q, s) /\ Done(q)

-------------------------------------------------------------------------------
\* POST /api/groups
createGroup(q, a, n) ==
  /\ a \in Admins
  /\ Begin(q, [Idle EXCEPT !.todo = <<"name?", "insertGroup">>, !.actor = a, !.name = n])
  /\ UNCHANGED <<rows, owed>>

NameFree(g, n) == \A h \in Groups \ {g} : name[h] # n

\* groups.name is UNIQUE, created_by a foreign key.
Accepted(c) == NameFree(NoGroup, c.name) /\ c.actor \in users

\* Mutant: the columns are swapped.
insertGroupSwapped(q, g) ==
  LET c == call[q] IN
  /\ Finally(q, "insertGroup")
  /\ Accepted(c) /\ name[g] = NoName
  /\ name' = [name EXCEPT ![g] = c.actor]
  /\ creator' = [creator EXCEPT ![g] = c.name]
  /\ UNCHANGED <<users, added, granted, owner, owed>>

insertGroup(q, g) ==
  LET c == call[q] IN
  /\ Finally(q, "insertGroup")
  /\ Accepted(c) /\ name[g] = NoName
  /\ name' = [name EXCEPT ![g] = c.name]
  /\ creator' = [creator EXCEPT ![g] = c.actor]
  /\ UNCHANGED <<users, added, granted, owner, owed>>

insertGroupFails(q) ==
  /\ Finally(q, "insertGroup")
  /\ ~Accepted(call[q])
  /\ UNCHANGED <<rows, owed>>

\* PATCH /api/groups/:id; a new description changes nothing here.
renameGroup(q, a, g, n) ==
  /\ a \in Admins
  /\ Begin(q, [Idle EXCEPT !.todo = <<"name?", "updateGroup">>, !.actor = a,
                           !.group = g, !.name = n])
  /\ UNCHANGED <<rows, owed>>

updateGroup(q) ==
  LET c == call[q] IN
  /\ Finally(q, "updateGroup")
  /\ name' = IF Exists(c.group) /\ NameFree(c.group, c.name)
             THEN [name EXCEPT ![c.group] = c.name] ELSE name
  /\ UNCHANGED <<users, creator, added, granted, owner, owed>>

\* DELETE /api/groups/:id: members and grants go with the row.
deleteGroup(a, g) ==
  /\ a \in Admins
  /\ Exists(g)
  /\ name' = [name EXCEPT ![g] = Gone]
  /\ creator' = [creator EXCEPT ![g] = NoUser]
  /\ added' = [added EXCEPT ![g] = [u \in Users |-> NoUser]]
  /\ granted' = [granted EXCEPT ![g] = [t \in Tokens |-> NoUser]]
  /\ owed' = owed \ ({g} \X Tokens)
  /\ UNCHANGED <<users, owner, call>>

\* POST /api/groups/:id/members
addMember(q, a, g, u) ==
  /\ a \in Admins
  /\ Begin(q, [Idle EXCEPT !.todo = <<"group?", "user?", "member?", "insertMember">>,
                           !.actor = a, !.group = g, !.to = u])
  /\ UNCHANGED <<rows, owed>>

\* Mutant: the earlier SELECTs are trusted.
insertMemberTrusting(q) ==
  LET c == call[q] IN
  /\ Finally(q, "insertMember")
  /\ added' = [added EXCEPT ![c.group][c.to] = c.actor]
  /\ UNCHANGED <<users, name, creator, granted, owner, owed>>

insertMember(q) ==
  LET c == call[q] IN
  /\ Finally(q, "insertMember")
  /\ added' = IF Exists(c.group) /\ {c.to, c.actor} \subseteq users
                   /\ ~Member(c.group, c.to)
              THEN [added EXCEPT ![c.group][c.to] = c.actor] ELSE added
  /\ UNCHANGED <<users, name, creator, granted, owner, owed>>

\* DELETE /api/groups/:id/members/:userId
removeMember(a, g, u) ==
  /\ a \in Admins
  /\ Member(g, u)
  /\ added' = [added EXCEPT ![g][u] = NoUser]
  /\ UNCHANGED <<users, name, creator, granted, owner, call, owed>>

-------------------------------------------------------------------------------
\* POST /api/groups/:id/tokens, and POST /api/tokens/:id/access, which does not
\* mind a grant that is there already.
grantToGroup(q, a, g, t) ==
  /\ a \in Managers
  /\ Begin(q, [Idle EXCEPT !.todo = <<"group?", "token?", "grant?", "insertGrant">>,
                           !.actor = a, !.group = g, !.to = g, !.token = t])
  /\ UNCHANGED <<rows, owed>>

grantAccess(q, a, p, t) ==
  /\ a \in Managers
  /\ Begin(q, [Idle EXCEPT
                 !.todo = <<"token?", IF p \in Users THEN "user?" ELSE "group?", "insertGrant">>,
                 !.actor = a, !.to = p, !.token = t,
                 !.group = IF p \in Groups THEN p ELSE NoGroup])
  /\ UNCHANGED <<rows, owed>>

\* The row that an INSERT adds, unless it is there or a key does not hold.
Grants(p, t, a) ==
  granted' = IF Present(p) /\ a \in users /\ Made(t) /\ ~Granted(p, t)
             THEN [granted EXCEPT ![p][t] = a] ELSE granted

insertGrant(q) ==
  LET c == call[q] IN
  /\ Finally(q, "insertGrant")
  /\ Grants(c.to, c.token, c.actor)
  /\ UNCHANGED <<users, name, creator, added, owner, owed>>

\* DELETE /api/groups/:id/tokens/:tokenId, /api/tokens/:id/access/...
revokeAccess(a, p, t) ==
  /\ a \in Managers
  /\ Granted(p, t)
  /\ granted' = [granted EXCEPT ![p][t] = NoUser]
  /\ owed' = owed \ {<<p, t>>}
  /\ UNCHANGED <<users, name, creator, added, owner, call>>

-------------------------------------------------------------------------------
\* POST /api/tokens with grantTo: the row, the copy in memcached (TokenVault), and
\* one INSERT for each user and group.  Capturing a token out of the log is the
\* same with no grantTo.
createToken(q, a, t, ps) ==
  /\ a \in Managers
  /\ t \notin {call[r].token : r \in Calls}
  /\ ~Made(t)
  /\ Begin(q, [Idle EXCEPT !.todo = <<"insertToken", "sync", "grantTo">>, !.actor = a,
                           !.token = t, !.rest = ps])
  /\ UNCHANGED <<rows, owed>>

capture(q, a, t) == createToken(q, a, t, {})

insertToken(q) ==
  LET c == call[q] IN
  /\ At(q, "insertToken")
  /\ IF c.actor \in users
       THEN /\ owner' = [owner EXCEPT ![c.token] = c.actor]
            /\ owed' = owed \union (c.rest \X {c.token})
            /\ Advance(q)
       ELSE Done(q) /\ UNCHANGED <<owner, owed>>
  /\ UNCHANGED <<users, name, creator, added, granted>>

syncDone(q) ==
  /\ At(q, "sync")
  /\ Advance(q)
  /\ UNCHANGED <<rows, owed>>

\* Mutant: the first grant that fails ends the loop.
grantNextStops(q, p, ok) ==
  LET c == call[q] IN
  /\ At(q, "grantTo")
  /\ p \in c.rest /\ (p \in Groups => c.rest \subseteq Groups)
  /\ IF ok THEN Grants(p, c.token, c.actor) ELSE UNCHANGED granted
  /\ owed' = IF granted'[p][c.token] = NoUser THEN owed \ {<<p, c.token>>} ELSE owed
  /\ call' = [call EXCEPT ![q].rest = IF granted'[p][c.token] = NoUser THEN {} ELSE @ \ {p}]
  /\ UNCHANGED <<users, name, creator, added, owner>>

\* Users first, then groups; a grant that fails, for whatever reason, is passed over.
grantNext(q, p, ok) ==
  LET c == call[q] IN
  /\ At(q, "grantTo")
  /\ p \in c.rest /\ (p \in Groups => c.rest \subseteq Groups)
  /\ IF ok THEN Grants(p, c.token, c.actor) ELSE UNCHANGED granted
  /\ owed' = IF granted'[p][c.token] = NoUser THEN owed \ {<<p, c.token>>} ELSE owed
  /\ call' = [call EXCEPT ![q].rest = @ \ {p}]
  /\ UNCHANGED <<users, name, creator, added, owner>>

answerCreated(q) ==
  /\ At(q, "grantTo")
  /\ call[q].rest = {}
  /\ Done(q)
  /\ UNCHANGED <<rows, owed>>

\* A statement or memcached call throws, or the process ends.  Rows stay.
callFails(q) ==
  /\ "fail" \in Faults
  /\ call[q] # Idle
  /\ Done(q)
  /\ owed' = IF At(q, "sync") \/ At(q, "grantTo")
             THEN owed \ (Principals \X {call[q].token}) ELSE owed
  /\ UNCHANGED rows

\* DELETE /api/users/:id (Accounts): memberships and grants of the user go along;
\* a row that names the user as its writer makes the statement fail.
WroteNothing(u) ==
  /\ \A g \in Groups : creator[g] # u /\ \A v \in Users \ {u} : added[g][v] # u
  /\ \A t \in Tokens : owner[t] # u /\ \A p \in Principals \ {u} : granted[p][t] # u

deleteUser(u) ==
  /\ u \in users
  /\ WroteNothing(u)
  /\ users' = users \ {u}
  /\ added' = [g \in Groups |-> [added[g] EXCEPT ![u] = NoUser]]
  /\ granted' = [granted EXCEPT ![u] = [t \in Tokens |-> NoUser]]
  /\ owed' = owed \ ({u} \X Tokens)
  /\ UNCHANGED <<name, creator, owner, call>>

\* GET /api/tokens, its first query.  What a page shows is the answers of several
\* queries, here all given at one moment: a page may also mix what was true at two.
listTokens(u) ==
  IF u \in Admins THEN {t \in Tokens : Made(t)}
  ELSE {t \in Tokens :
          \/ owner[t] = u
          \/ \E g \in Groups : Granted(g, t) /\ Member(g, u)
          \/ Granted(u, t)}

\* GET /api/tokens, the users and groups beside each token, joined with their rows.
accessibleBy(t) == {p \in Principals : Granted(p, t) /\ Present(p)}

\* GET /api/groups, member_count and token_count, and what GET /api/groups/:id
\* shows of one group, joined with the rows of users and tokens.
counts(g) ==
  <<Cardinality({u \in Users : Member(g, u)}), Cardinality({t \in Tokens : Granted(g, t)})>>
detail(g) == [members |-> {u \in users : Member(g, u)},
              tokens |-> {t \in Tokens : Granted(g, t) /\ Made(t)}]

-------------------------------------------------------------------------------
Init ==
  /\ users = Users
  /\ name = [g \in Groups |-> NoName]
  /\ creator = [g \in Groups |-> NoUser]
  /\ added = [g \in Groups |-> [u \in Users |-> NoUser]]
  /\ granted = [p \in Principals |-> [t \in Tokens |-> NoUser]]
  /\ owner = [t \in Tokens |-> NoUser]
  /\ call = [q \in Calls |-> Idle]
  /\ owed = {}

CallBegins(q, a) ==
  \/ \E n \in Names : createGroup(q, a, n) \/ \E g \in Groups : renameGroup(q, a, g, n)
  \/ \E g \in Groups, u \in Users : addMember(q, a, g, u)
  \/ \E g \in Groups, t \in Tokens : grantToGroup(q, a, g, t)
  \/ \E p \in Principals, t \in Tokens : grantAccess(q, a, p, t)
  \/ \E t \in Tokens : capture(q, a, t) \/ \E ps \in GrantTos : createToken(q, a, t, ps)

CallStep(q) ==
  \/ check(q)
  \/ \E g \in Groups : insertGroup(q, g)
  \/ insertGroupFails(q) \/ updateGroup(q) \/ insertMember(q) \/ insertGrant(q)
  \/ insertToken(q) \/ syncDone(q) \/ answerCreated(q) \/ callFails(q)
  \/ \E p \in Principals, ok \in {TRUE} \union {FALSE : f \in Faults} : grantNext(q, p, ok)

Next ==
  \/ \E q \in Calls : CallStep(q) \/ \E a \in Users : CallBegins(q, a)
  \/ \E a \in Users, g \in Groups :
       deleteGroup(a, g) \/ \E u \in Users : removeMember(a, g, u)
  \/ \E a \in Users, p \in Principals, t \in Tokens : revokeAccess(a, p, t)
  \/ \E u \in Users : deleteUser(u)

Spec == Init /\ [][Next]_vars

-------------------------------------------------------------------------------
Statements == Checks \union {"insertGroup", "updateGroup", "insertMember", "insertGrant",
                             "insertToken", "sync", "grantTo"}

CallRecords ==
  [todo : Seq(Statements),
   actor : Users \union {NoUser}, group : Groups \union {NoGroup},
   to : Principals \union {NoPrincipal}, token : Tokens \union {NoToken},
   name : Names \union {NoName}, rest : SUBSET Principals]

\* The types of rows, calls and history variables.
TypeOK ==
  /\ users \subseteq Users
  /\ name \in [Groups -> Names \union {NoName, Gone}]
  /\ creator \in [Groups -> Users \union {NoUser}]
  /\ added \in [Groups -> [Users -> Users \union {NoUser}]]
  /\ granted \in [Principals -> [Tokens -> Users \union {NoUser}]]
  /\ owner \in [Tokens -> Users \union {NoUser}]
  /\ call \in [Calls -> CallRecords]
  /\ owed \subseteq Principals \X Tokens

\* Whatever is deleted between the SELECTs of a handler and its INSERT, rights
\* come and go one at a time between parties that exist, and leave with them:
\* the foreign keys see to it, where the SELECTs of groups.ts:285-309, 361-385
\* and tokens.ts:387-410 alone would not.
Policy == INSTANCE AccessPolicy WITH
  groups <- {g \in Groups : Exists(g)},
  gone <- {g \in Groups : name[g] = Gone},
  member <- {m \in Groups \X Users : Member(m[1], m[2])},
  grant <- {p \in Principals \X Tokens : Granted(p[1], p[2])},
  maker <- {m \in Users \X Tokens : owner[m[2]] = m[1]}

ImplementsAccessPolicy == Policy!Spec

InCreation(t) == \E q \in Calls : call[q].token = t /\ (At(q, "sync") \/ At(q, "grantTo"))

Holders(p) == IF p \in Users THEN {p} ELSE {u \in Users : Member(p, u)}

\* What the lists show agrees with the policy and with one another: a user sees
\* exactly the tokens of the policy, everybody named beside a token does see it,
\* and a group has as many members and tokens as its page shows.
ViewsAgree ==
  /\ \A u \in Users \ Admins : listTokens(u) = Policy!Visible(u)
  /\ \A t \in Tokens : \A p \in accessibleBy(t) : \A u \in Holders(p) : t \in listTokens(u)
  /\ \A g \in Groups :
       counts(g) = <<Cardinality(detail(g).members), Cardinality(detail(g).tokens)>>

\* The lists agree; and a token whose creation was answered with 201 is seen by
\* every user it was to be granted to, and every member of such a group, unless
\* that grant failed unnoticed (tokens.ts:188) or was taken back since.
GrantToHonoured ==
  /\ ViewsAgree
  /\ \A p \in Principals, t \in Tokens :
       <<p, t>> \in owed /\ ~InCreation(t) =>
         \A u \in Holders(p) : t \in listTokens(u)

-------------------------------------------------------------------------------
\* The strengthening that makes GrantToHonoured inductive and every step one of
\* the policy.

\* What a statement is about is there for every statement a call still has to do.
Operand(c, s) ==
  /\ s \in {"insertGroup", "updateGroup"} => c.name \in Names
  /\ s \in {"updateGroup", "insertMember"} => c.group \in Groups
  /\ s = "insertMember" => c.to \in Users
  /\ s = "insertGrant" => c.to \in Principals
  /\ s \in {"insertGrant", "insertToken", "sync", "grantTo"} => c.token \in Tokens

\* The statements of a creation come in their order, and in no other handler.
InOrder(c, i) ==
  /\ c.todo[i] = "insertToken" => i = 1 /\ Len(c.todo) = 3 /\ c.todo[2] = "sync"
  /\ c.todo[i] = "sync" =>
       /\ i = Len(c.todo) - 1 /\ c.todo[i + 1] = "grantTo"
       /\ i > 1 => c.todo[i - 1] = "insertToken"
  /\ c.todo[i] = "grantTo" => i = Len(c.todo) /\ (i > 1 => c.todo[i - 1] = "sync")

Sensible(c) == \A i \in 1 .. Len(c.todo) : Operand(c, c.todo[i]) /\ InOrder(c, i)

Creating(q) == At(q, "insertToken") \/ At(q, "sync") \/ At(q, "grantTo")

\* Nobody else creates the token that a call creates, and it is not there before.
OneCreator ==
  /\ \A q, r \in Calls :
       Creating(q) /\ Creating(r) /\ call[q].token = call[r].token => q = r
  /\ \A q \in Calls : At(q, "insertToken") => ~Made(call[q].token)

\* Rights are between parties that exist.
RightsBacked ==
  /\ \A g \in Groups, u \in Users : Member(g, u) => Exists(g) /\ u \in users
  /\ \A p \in Principals, t \in Tokens : Granted(p, t) => Present(p) /\ Made(t)

\* Call q has to grant t to p.
ToGrant(q, p, t) ==
  /\ At(q, "sync") \/ At(q, "grantTo")
  /\ call[q].token = t /\ p \in call[q].rest

\* What is owed has been granted, or is about to be.
OwedOrGranted ==
  \A p \in Principals, t \in Tokens :
    <<p, t>> \in owed =>
      Made(t) /\ (Granted(p, t) \/ \E q \in Calls : ToGrant(q, p, t))

Typed == TypeOK /\ \A q \in Calls : Sensible(call[q])

IInv == Typed /\ OneCreator /\ RightsBacked /\ OwedOrGranted
===============================================================================
