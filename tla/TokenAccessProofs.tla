--------------------------- MODULE TokenAccessProofs ---------------------------
(***************************************************************************)
(* Theorems about TokenAccess, for every number of users, groups, tokens   *)
(* and calls.                                                              *)
(***************************************************************************)
EXTENDS TokenAccess, SequenceTheorems, TLAPS

\* What an idle call looks like.
LEMMA IdleCall ==
  /\ Idle \in CallRecords
  /\ Idle.todo = <<>> /\ Idle.rest = {}
BY DEF Idle, CallRecords, NoPrincipal

\* The first statement of a call is one of those it still has to do.
LEMMA First ==
  ASSUME Typed, NEW q \in Calls, NEW s, At(q, s)
  PROVE  /\ call[q].todo \in Seq(Statements) /\ call[q].todo # <<>>
         /\ Len(call[q].todo) \in Nat /\ Len(call[q].todo) >= 1
         /\ call[q].todo[1] = s
         /\ Operand(call[q], s) /\ InOrder(call[q], 1)
<1>1. call[q] \in CallRecords
  BY DEF Typed, TypeOK
<1>2. call[q].todo \in Seq(Statements) /\ call[q].todo # <<>>
  BY <1>1 DEF CallRecords, At
<1>3. Len(call[q].todo) \in Nat /\ Len(call[q].todo) >= 1
  BY <1>2
<1>4. call[q].todo[1] = s
  BY <1>2 DEF At
<1>5. Operand(call[q], call[q].todo[1]) /\ InOrder(call[q], 1)
  BY <1>3 DEF Typed, Sensible
<1>6. QED
  BY <1>2, <1>3, <1>4, <1>5

\* What is left of a sensible call after its first statement is sensible.
LEMMA RestSensible ==
  ASSUME NEW c, NEW d, NEW n \in Nat, n = Len(c.todo), Sensible(c),
         Len(d.todo) = n - 1, \A i \in 1 .. n - 1 : d.todo[i] = c.todo[i + 1],
         d.name = c.name, d.group = c.group, d.to = c.to, d.token = c.token
  PROVE  Sensible(d)
<1> SUFFICES ASSUME NEW i \in 1 .. n - 1
              PROVE  Operand(d, d.todo[i]) /\ InOrder(d, i)
  BY DEF Sensible
<1>1. /\ i + 1 \in 1 .. n /\ d.todo[i] = c.todo[i + 1] /\ Len(d.todo) = n - 1
      /\ i \in Nat /\ i >= 1 /\ i <= n - 1
  OBVIOUS
<1>2. Operand(c, c.todo[i + 1]) /\ InOrder(c, i + 1)
  BY <1>1 DEF Sensible
<1>3. Operand(d, d.todo[i])
  BY <1>1, <1>2 DEF Operand
<1>4. d.todo[i] # "insertToken"
  BY <1>1, <1>2 DEF InOrder
<1>5. d.todo[i] = "sync" => /\ i = Len(d.todo) - 1 /\ d.todo[i + 1] = "grantTo"
                            /\ i > 1 => d.todo[i - 1] = "insertToken"
  <2>1. i + 1 \in 1 .. n - 1 => d.todo[i + 1] = c.todo[i + 2]
    BY <1>1
  <2>2. i > 1 => i - 1 \in 1 .. n - 1 /\ d.todo[i - 1] = c.todo[i]
    BY <1>1
  <2>3. QED
    BY <1>1, <1>2, <2>1, <2>2 DEF InOrder
<1>6. d.todo[i] = "grantTo" => i = Len(d.todo) /\ (i > 1 => d.todo[i - 1] = "sync")
  <2>1. i > 1 => i - 1 \in 1 .. n - 1 /\ d.todo[i - 1] = c.todo[i]
    BY <1>1
  <2>2. QED
    BY <1>1, <1>2, <2>1 DEF InOrder
<1>7. InOrder(d, i)
  BY <1>4, <1>5, <1>6 DEF InOrder
<1>8. QED
  BY <1>3, <1>7

\* What a call still grants makes it no less sensible.
LEMMA SameSensible ==
  ASSUME NEW c, NEW d, Sensible(c),
         d.todo = c.todo, d.name = c.name, d.group = c.group, d.to = c.to,
         d.token = c.token
  PROVE  Sensible(d)
BY DEF Sensible, Operand, InOrder

\* What a call does next, if it goes on.
LEMMA Second ==
  ASSUME Typed, NEW q \in Calls, NEW s, At(q, s), Advance(q)
  PROVE  /\ call' \in [Calls -> CallRecords]
         /\ \A r \in Calls \ {q} : call'[r] = call[r]
         /\ call'[q].token = call[q].token /\ call'[q].rest = call[q].rest
         /\ Sensible(call'[q])
         /\ ~At(q, "insertToken")'
         /\ At(q, "sync")' <=> s = "insertToken"
         /\ At(q, "grantTo")' <=> s = "sync"
<1> DEFINE c == call[q]
           d == call'[q]
           n == Len(c.todo)
<1>1. /\ call \in [Calls -> CallRecords] /\ c \in CallRecords
      /\ c.todo \in Seq(Statements) /\ c.todo # <<>> /\ n \in Nat /\ n >= 1
      /\ c.todo[1] = s /\ InOrder(c, 1)
  BY First DEF Typed, TypeOK
<1>2. \A i \in 1 .. n : Operand(c, c.todo[i]) /\ InOrder(c, i)
  BY DEF Typed, Sensible
<1>3. call' = [call EXCEPT ![q].todo = Tail(@)]
  BY DEF Advance
<1>4. d = [c EXCEPT !.todo = Tail(c.todo)] /\ \A r \in Calls \ {q} : call'[r] = call[r]
  BY <1>1, <1>3
<1>5. /\ Tail(c.todo) \in Seq(Statements) /\ Len(Tail(c.todo)) = n - 1
      /\ \A i \in 1 .. n - 1 : Tail(c.todo)[i] = c.todo[i + 1]
  BY <1>1, HeadTailProperties
<1>6. /\ d \in CallRecords /\ d.todo = Tail(c.todo)
      /\ d.name = c.name /\ d.group = c.group /\ d.to = c.to
      /\ d.token = c.token /\ d.rest = c.rest
  BY <1>1, <1>4, <1>5 DEF CallRecords
<1>7. call' \in [Calls -> CallRecords]
  BY <1>1, <1>3, <1>6, <1>4
<1> HIDE DEF c, d
<1>8. Sensible(d)
  BY <1>1, <1>2, <1>5, <1>6, RestSensible DEF Sensible
<1>9. \A z : At(q, z)' <=> n >= 2 /\ c.todo[2] = z
  <2>1. \A z : At(q, z)' <=> d.todo # <<>> /\ Head(d.todo) = z
    BY DEF At, d
  <2>2. d.todo # <<>> <=> n >= 2
    <3>1. d.todo \in Seq(Statements) /\ Len(d.todo) = n - 1
      BY <1>5, <1>6
    <3>2. d.todo # <<>> <=> Len(d.todo) # 0
      BY <3>1, EmptySeq
    <3>3. QED
      BY <1>1, <3>1, <3>2
  <2>3. n >= 2 => Head(d.todo) = c.todo[2]
    BY <1>1, <1>5, <1>6
  <2>4. QED
    BY <2>1, <2>2, <2>3
<1>10. n >= 2 => InOrder(c, 2)
  BY <1>1, <1>2
<1>11. ~At(q, "insertToken")'
  BY <1>1, <1>9, <1>10 DEF InOrder
<1>12. At(q, "sync")' <=> s = "insertToken"
  BY <1>1, <1>9, <1>10 DEF InOrder
<1>13. At(q, "grantTo")' <=> s = "sync"
  BY <1>1, <1>9, <1>10 DEF InOrder
<1>14. QED
  BY <1>4, <1>6, <1>7, <1>8, <1>11, <1>12, <1>13 DEF c, d

\* A call that is over, answered or not.
LEMMA Ended ==
  ASSUME Typed, NEW q \in Calls, Done(q)
  PROVE  /\ call' \in [Calls -> CallRecords]
         /\ \A r \in Calls \ {q} : call'[r] = call[r]
         /\ call'[q] = Idle
         /\ Sensible(call'[q])
         /\ \A s : ~At(q, s)'
<1>1. /\ call' \in [Calls -> CallRecords] /\ call'[q] = Idle
      /\ \A r \in Calls \ {q} : call'[r] = call[r]
  BY IdleCall DEF Typed, TypeOK, Done
<1>2. Sensible(Idle)
  BY IdleCall DEF Sensible
<1>3. \A s : ~At(q, s)'
  BY <1>1, IdleCall DEF At
<1>4. QED
  BY <1>1, <1>2, <1>3

-------------------------------------------------------------------------------
\* Beginning a call.
Fresh(c) ==
  /\ Head(c.todo) \notin {"sync", "grantTo"}
  /\ Head(c.todo) = "insertToken" =>
       c.token \notin {call[r].token : r \in Calls} /\ ~Made(c.token)

Opens(q, c) ==
  /\ Begin(q, c) /\ Sensible(c) /\ c.todo # <<>> /\ Fresh(c)
  /\ UNCHANGED <<rows, owed>>

\* A handler that creates no token is sensible if it has what it needs.
LEMMA PlainPlan ==
  ASSUME NEW c,
         \A i \in 1 .. Len(c.todo) :
           Operand(c, c.todo[i]) /\ c.todo[i] \notin {"insertToken", "sync", "grantTo"}
  PROVE  Sensible(c)
BY DEF Sensible, InOrder

LEMMA OpensCreateGroup ==
  ASSUME NEW q \in Calls, NEW a \in Users, NEW n \in Names,
         createGroup(q, a, n)
  PROVE  \E c \in CallRecords : Opens(q, c)
<1> DEFINE plan == <<"name?", "insertGroup">>
           c == [Idle EXCEPT !.todo = plan, !.actor = a, !.name = n]
<1>1. plan \in Seq(Statements)
  BY DEF Statements, Checks
<1>2. Begin(q, c) /\ UNCHANGED <<rows, owed>>
  BY DEF createGroup
<1> HIDE DEF plan
<1>3. c \in CallRecords /\ c.todo = plan /\ c.name = n
  BY <1>1, IdleCall DEF CallRecords
<1> HIDE DEF c
<1>4. Sensible(c)
  <2>1. \A i \in 1 .. Len(plan) : plan[i] \in {"name?", "insertGroup"}
    BY DEF plan
  <2>2. QED
    BY <1>3, <2>1, PlainPlan DEF Operand
<1>5. c.todo # <<>> /\ Fresh(c)
  BY <1>3 DEF Fresh, plan
<1>6. QED
  BY <1>2, <1>3, <1>4, <1>5 DEF Opens

LEMMA OpensRenameGroup ==
  ASSUME NEW q \in Calls, NEW a \in Users, NEW g \in Groups, NEW n \in Names,
         renameGroup(q, a, g, n)
  PROVE  \E c \in CallRecords : Opens(q, c)
<1> DEFINE plan == <<"name?", "updateGroup">>
           c == [Idle EXCEPT !.todo = plan, !.actor = a, !.group = g, !.name = n]
<1>1. plan \in Seq(Statements)
  BY DEF Statements, Checks
<1>2. Begin(q, c) /\ UNCHANGED <<rows, owed>>
  BY DEF renameGroup
<1> HIDE DEF plan
<1>3. c \in CallRecords /\ c.todo = plan /\ c.name = n /\ c.group = g
  BY <1>1, IdleCall DEF CallRecords
<1> HIDE DEF c
<1>4. Sensible(c)
  <2>1. \A i \in 1 .. Len(plan) : plan[i] \in {"name?", "updateGroup"}
    BY DEF plan
  <2>2. QED
    BY <1>3, <2>1, PlainPlan DEF Operand
<1>5. c.todo # <<>> /\ Fresh(c)
  BY <1>3 DEF Fresh, plan
<1>6. QED
  BY <1>2, <1>3, <1>4, <1>5 DEF Opens

LEMMA OpensAddMember ==
  ASSUME NEW q \in Calls, NEW a \in Users, NEW g \in Groups, NEW u \in Users,
         addMember(q, a, g, u)
  PROVE  \E c \in CallRecords : Opens(q, c)
<1> DEFINE plan == <<"group?", "user?", "member?", "insertMember">>
           c == [Idle EXCEPT !.todo = plan, !.actor = a, !.group = g, !.to = u]
<1>1. plan \in Seq(Statements)
  BY DEF Statements, Checks
<1>2. Begin(q, c) /\ UNCHANGED <<rows, owed>>
  BY DEF addMember
<1> HIDE DEF plan
<1>3. c \in CallRecords /\ c.todo = plan /\ c.group = g /\ c.to = u
  BY <1>1, IdleCall DEF CallRecords, Principals
<1> HIDE DEF c
<1>4. Sensible(c)
  <2>1. \A i \in 1 .. Len(plan) : plan[i] \in {"group?", "user?", "member?", "insertMember"}
    BY DEF plan
  <2>2. QED
    BY <1>3, <2>1, PlainPlan DEF Operand
<1>5. c.todo # <<>> /\ Fresh(c)
  BY <1>3 DEF Fresh, plan
<1>6. QED
  BY <1>2, <1>3, <1>4, <1>5 DEF Opens

LEMMA OpensGrantToGroup ==
  ASSUME NEW q \in Calls, NEW a \in Users, NEW g \in Groups, NEW t \in Tokens,
         grantToGroup(q, a, g, t)
  PROVE  \E c \in CallRecords : Opens(q, c)
<1> DEFINE plan == <<"group?", "token?", "grant?", "insertGrant">>
           c == [Idle EXCEPT !.todo = plan, !.actor = a, !.group = g, !.to = g,
                              !.token = t]
<1>1. plan \in Seq(Statements)
  BY DEF Statements, Checks
<1>2. Begin(q, c) /\ UNCHANGED <<rows, owed>>
  BY DEF grantToGroup
<1> HIDE DEF plan
<1>3. c \in CallRecords /\ c.todo = plan /\ c.to = g /\ c.token = t
  BY <1>1, IdleCall DEF CallRecords, Principals
<1> HIDE DEF c
<1>4. Sensible(c)
  <2>1. \A i \in 1 .. Len(plan) : plan[i] \in {"group?", "token?", "grant?", "insertGrant"}
    BY DEF plan
  <2>2. QED
    BY <1>3, <2>1, PlainPlan DEF Operand, Principals
<1>5. c.todo # <<>> /\ Fresh(c)
  BY <1>3 DEF Fresh, plan
<1>6. QED
  BY <1>2, <1>3, <1>4, <1>5 DEF Opens

LEMMA OpensGrantAccess ==
  ASSUME NEW q \in Calls, NEW a \in Users, NEW p \in Principals, NEW t \in Tokens,
         grantAccess(q, a, p, t)
  PROVE  \E c \in CallRecords : Opens(q, c)
<1> DEFINE who == IF p \in Users THEN "user?" ELSE "group?"
           plan == <<"token?", who, "insertGrant">>
           g == IF p \in Groups THEN p ELSE NoGroup
           c == [Idle EXCEPT !.todo = plan, !.actor = a, !.to = p, !.token = t, !.group = g]
<1>1. plan \in Seq(Statements) /\ g \in Groups \union {NoGroup}
  BY DEF Statements, Checks
<1>2. Begin(q, c) /\ UNCHANGED <<rows, owed>>
  BY DEF grantAccess
<1> HIDE DEF plan, g
<1>3. c \in CallRecords /\ c.todo = plan /\ c.to = p /\ c.token = t
  BY <1>1, IdleCall DEF CallRecords
<1> HIDE DEF c
<1>4. Sensible(c)
  <2>1. \A i \in 1 .. Len(plan) : plan[i] \in {"token?", "user?", "group?", "insertGrant"}
    BY DEF plan
  <2>2. QED
    BY <1>3, <2>1, PlainPlan DEF Operand
<1>5. c.todo # <<>> /\ Fresh(c)
  BY <1>3 DEF Fresh, plan
<1>6. QED
  BY <1>2, <1>3, <1>4, <1>5 DEF Opens

LEMMA OpensCreateToken ==
  ASSUME NEW q \in Calls, NEW a \in Users, NEW t \in Tokens, NEW ps \in SUBSET Principals,
         createToken(q, a, t, ps)
  PROVE  \E c \in CallRecords : Opens(q, c)
<1> DEFINE plan == <<"insertToken", "sync", "grantTo">>
           c == [Idle EXCEPT !.todo = plan, !.actor = a, !.token = t, !.rest = ps]
<1>1. plan \in Seq(Statements)
  BY DEF Statements, Checks
<1>2. Begin(q, c) /\ UNCHANGED <<rows, owed>>
  BY DEF createToken
<1>3. t \notin {call[r].token : r \in Calls} /\ ~Made(t)
  BY DEF createToken
<1> HIDE DEF plan
<1>4. c \in CallRecords /\ c.todo = plan /\ c.token = t
  BY <1>1, IdleCall DEF CallRecords
<1> HIDE DEF c
<1>5. Sensible(c)
  <2>1. /\ Len(c.todo) = 3
        /\ c.todo[1] = "insertToken" /\ c.todo[2] = "sync" /\ c.todo[3] = "grantTo"
    BY <1>4 DEF plan
  <2> SUFFICES ASSUME NEW i \in {1, 2, 3} PROVE Operand(c, c.todo[i]) /\ InOrder(c, i)
    BY <2>1 DEF Sensible
  <2>2. Operand(c, c.todo[i])
    BY <1>4, <2>1 DEF Operand
  <2>3. InOrder(c, i)
    BY <2>1 DEF InOrder
  <2>4. QED
    BY <2>2, <2>3
<1>6. c.todo # <<>> /\ Fresh(c)
  BY <1>3, <1>4 DEF Fresh, plan
<1>7. QED
  BY <1>2, <1>4, <1>5, <1>6 DEF Opens

LEMMA EveryCallOpens ==
  ASSUME NEW q \in Calls, NEW a \in Users, CallBegins(q, a)
  PROVE  \E c \in CallRecords : Opens(q, c)
<1>1. CASE \E n \in Names : createGroup(q, a, n)
  BY <1>1, OpensCreateGroup
<1>2. CASE \E n \in Names, g \in Groups : renameGroup(q, a, g, n)
  BY <1>2, OpensRenameGroup
<1>3. CASE \E g \in Groups, u \in Users : addMember(q, a, g, u)
  BY <1>3, OpensAddMember
<1>4. CASE \E g \in Groups, t \in Tokens : grantToGroup(q, a, g, t)
  BY <1>4, OpensGrantToGroup
<1>5. CASE \E p \in Principals, t \in Tokens : grantAccess(q, a, p, t)
  BY <1>5, OpensGrantAccess
<1>6. CASE \E t \in Tokens : capture(q, a, t)
  BY <1>6, OpensCreateToken DEF capture
<1>7. CASE \E t \in Tokens, ps \in GrantTos : createToken(q, a, t, ps)
  BY <1>7, OpensCreateToken, ConstantsAssumption
<1>8. QED
  BY <1>1, <1>2, <1>3, <1>4, <1>5, <1>6, <1>7 DEF CallBegins

-------------------------------------------------------------------------------
\* Typed.
CallsTyped == call \in [Calls -> CallRecords] /\ \A q \in Calls : Sensible(call[q])

LEMMA Opened ==
  ASSUME Typed, NEW q \in Calls, NEW c \in CallRecords, Opens(q, c)
  PROVE  /\ call' \in [Calls -> CallRecords]
         /\ \A r \in Calls \ {q} : call'[r] = call[r]
         /\ call'[q] = c /\ Sensible(call'[q])
         /\ call[q] = Idle
BY DEF Opens, Begin, Typed, TypeOK

LEMMA GrantMoves ==
  ASSUME Typed, NEW q \in Calls, NEW p \in Principals, NEW ok \in BOOLEAN,
         grantNext(q, p, ok)
  PROVE  /\ call' \in [Calls -> CallRecords]
         /\ \A r \in Calls \ {q} : call'[r] = call[r]
         /\ call'[q].token = call[q].token /\ call'[q].rest = call[q].rest \ {p}
         /\ call'[q].todo = call[q].todo
         /\ Sensible(call'[q])
<1>1. call \in [Calls -> CallRecords] /\ call[q] \in CallRecords
  BY DEF Typed, TypeOK
<1>2. call' = [call EXCEPT ![q].rest = @ \ {p}]
  BY DEF grantNext
<1>3. /\ call'[q] = [call[q] EXCEPT !.rest = call[q].rest \ {p}]
      /\ \A r \in Calls \ {q} : call'[r] = call[r]
  BY <1>1, <1>2
<1>4. /\ call'[q] \in CallRecords /\ call'[q].todo = call[q].todo
      /\ call'[q].token = call[q].token /\ call'[q].rest = call[q].rest \ {p}
      /\ call'[q].name = call[q].name /\ call'[q].group = call[q].group
      /\ call'[q].to = call[q].to
  BY <1>1, <1>3 DEF CallRecords
<1>5. call' \in [Calls -> CallRecords]
  BY <1>1, <1>2, <1>3, <1>4
<1>6. Sensible(call[q])
  BY DEF Typed
<1>7. Sensible(call'[q])
  BY <1>4, <1>6, SameSensible
<1>8. QED
  BY <1>3, <1>4, <1>5, <1>7

\* What a step does to the calls.
LEMMA CallMoves ==
  ASSUME Next
  PROVE  \/ \E q \in Calls, c \in CallRecords : Opens(q, c)
         \/ \E q \in Calls, s \in Statements : At(q, s) /\ Advance(q)
         \/ \E q \in Calls : Done(q)
         \/ \E q \in Calls, p \in Principals, ok \in BOOLEAN : grantNext(q, p, ok)
         \/ UNCHANGED call
<1>1. CASE \E q \in Calls, a \in Users : CallBegins(q, a)
  BY <1>1, EveryCallOpens
<1>2. ASSUME NEW q \in Calls, CallStep(q)
      PROVE  \/ \E s \in Statements : At(q, s) /\ Advance(q)
             \/ Done(q)
             \/ \E p \in Principals, ok \in BOOLEAN : grantNext(q, p, ok)
  <2>1. CASE check(q)
    BY <2>1 DEF check, Statements
  <2>2. CASE \/ \E g \in Groups : insertGroup(q, g)
             \/ insertGroupFails(q) \/ updateGroup(q) \/ insertMember(q) \/ insertGrant(q)
             \/ answerCreated(q) \/ callFails(q)
    BY <2>2 DEF insertGroup, insertGroupFails, updateGroup, insertMember, insertGrant,
       answerCreated, callFails, Finally
  <2>3. CASE insertToken(q)
    BY <2>3 DEF insertToken, Statements
  <2>4. CASE syncDone(q)
    BY <2>4 DEF syncDone, Statements
  <2>5. CASE \E p \in Principals, ok \in {TRUE} \union {FALSE : f \in Faults} :
               grantNext(q, p, ok)
    BY <2>5
  <2>6. QED
    BY <1>2, <2>1, <2>2, <2>3, <2>4, <2>5 DEF CallStep
<1>3. CASE \/ \E a \in Users, g \in Groups :
                deleteGroup(a, g) \/ \E u \in Users : removeMember(a, g, u)
           \/ \E a \in Users, p \in Principals, t \in Tokens : revokeAccess(a, p, t)
           \/ \E u \in Users : deleteUser(u)
  BY <1>3 DEF deleteGroup, removeMember, revokeAccess, deleteUser
<1>4. QED
  BY <1>1, <1>2, <1>3 DEF Next

LEMMA CallsTypedKeeps ==
  ASSUME Typed, [Next]_vars
  PROVE  CallsTyped'
<1>0. CallsTyped
  BY DEF Typed, TypeOK, CallsTyped
<1>1. ASSUME NEW q \in Calls, NEW c \in CallRecords, Opens(q, c) PROVE CallsTyped'
  BY <1>0, <1>1, Opened DEF CallsTyped
<1>2. ASSUME NEW q \in Calls, NEW s \in Statements, At(q, s), Advance(q) PROVE CallsTyped'
  BY <1>0, <1>2, Second DEF CallsTyped
<1>3. ASSUME NEW q \in Calls, Done(q) PROVE CallsTyped'
  BY <1>0, <1>3, Ended DEF CallsTyped
<1>4. ASSUME NEW q \in Calls, NEW p \in Principals, NEW ok \in BOOLEAN, grantNext(q, p, ok)
      PROVE  CallsTyped'
  BY <1>0, <1>4, GrantMoves DEF CallsTyped
<1>5. CASE UNCHANGED call
  BY <1>0, <1>5 DEF CallsTyped
<1>6. CASE UNCHANGED vars
  BY <1>5, <1>6 DEF vars
<1>7. CASE Next
  BY <1>1, <1>2, <1>3, <1>4, <1>5, <1>7, CallMoves
<1>8. QED
  BY <1>6, <1>7

RowsTyped ==
  /\ users \subseteq Users
  /\ name \in [Groups -> Names \union {NoName, Gone}]
  /\ creator \in [Groups -> Users \union {NoUser}]
  /\ added \in [Groups -> [Users -> Users \union {NoUser}]]
  /\ granted \in [Principals -> [Tokens -> Users \union {NoUser}]]
  /\ owner \in [Tokens -> Users \union {NoUser}]
  /\ owed \subseteq Principals \X Tokens

LEMMA TypedParts == Typed <=> RowsTyped /\ CallsTyped
BY DEF Typed, TypeOK, RowsTyped, CallsTyped

LEMMA TypedPartsNext == Typed' <=> RowsTyped' /\ CallsTyped'
BY DEF Typed, TypeOK, RowsTyped, CallsTyped

\* The fields of a call at a statement that uses them.
LEMMA Fields ==
  ASSUME Typed, NEW q \in Calls
  PROVE  /\ call[q].actor \in Users \union {NoUser} /\ call[q].rest \subseteq Principals
         /\ At(q, "insertGroup") => call[q].name \in Names
         /\ At(q, "updateGroup") => call[q].name \in Names /\ call[q].group \in Groups
         /\ At(q, "insertMember") => call[q].group \in Groups /\ call[q].to \in Users
         /\ At(q, "insertGrant") => call[q].to \in Principals /\ call[q].token \in Tokens
         /\ At(q, "insertToken") \/ At(q, "sync") \/ At(q, "grantTo") =>
              call[q].token \in Tokens
<1>1. call[q].actor \in Users \union {NoUser} /\ call[q].rest \subseteq Principals
  BY DEF Typed, TypeOK, CallRecords
<1>2. ASSUME NEW s, At(q, s) PROVE Operand(call[q], s)
  BY <1>2, First
<1>3. QED
  BY <1>1, <1>2 DEF Operand

\* An INSERT of a grant adds that grant or nothing.
LEMMA GrantsOne ==
  ASSUME RowsTyped, NEW p \in Principals, NEW t \in Tokens,
         NEW a \in Users \union {NoUser}, Grants(p, t, a)
  PROVE  /\ granted' \in [Principals -> [Tokens -> Users \union {NoUser}]]
         /\ \/ UNCHANGED granted
            \/ /\ Present(p) /\ Made(t) /\ ~Granted(p, t)
               /\ \A r \in Principals, s \in Tokens :
                    granted'[r][s] # NoUser <=> (r = p /\ s = t) \/ Granted(r, s)
<1>1. CASE Present(p) /\ a \in users /\ Made(t) /\ ~Granted(p, t)
  <2>1. granted' = [granted EXCEPT ![p][t] = a] /\ a \in Users /\ a # NoUser
    BY <1>1, ConstantsAssumption DEF Grants, RowsTyped, Principals
  <2>2. /\ granted' \in [Principals -> [Tokens -> Users \union {NoUser}]]
        /\ granted'[p][t] = a
        /\ \A r \in Principals, s \in Tokens :
             ~(r = p /\ s = t) => granted'[r][s] = granted[r][s]
    BY <2>1 DEF RowsTyped
  <2>3. QED
    BY <1>1, <2>1, <2>2 DEF Granted
<1>2. CASE ~(Present(p) /\ a \in users /\ Made(t) /\ ~Granted(p, t))
  BY <1>2 DEF Grants, RowsTyped
<1>3. QED
  BY <1>1, <1>2

LEMMA RowsTypedKeeps ==
  ASSUME Typed, [Next]_vars
  PROVE  RowsTyped'
<1>0. RowsTyped
  BY TypedParts
<1>1. CASE UNCHANGED <<rows, owed>>
  BY <1>0, <1>1 DEF RowsTyped, rows
<1>2. ASSUME NEW q \in Calls, CallStep(q) PROVE RowsTyped'
  <2>1. CASE check(q) \/ insertGroupFails(q) \/ syncDone(q) \/ answerCreated(q)
    BY <1>1, <2>1 DEF check, insertGroupFails, syncDone, answerCreated
  <2>2. ASSUME NEW g \in Groups, insertGroup(q, g) PROVE RowsTyped'
    BY <1>0, <2>2, Fields DEF RowsTyped, insertGroup, Finally
  <2>3. CASE updateGroup(q)
    BY <1>0, <2>3, Fields DEF RowsTyped, updateGroup, Finally
  <2>4. CASE insertMember(q)
    BY <1>0, <2>4, Fields DEF RowsTyped, insertMember, Finally
  <2>5. CASE insertGrant(q)
    BY <1>0, <2>5, Fields, GrantsOne DEF RowsTyped, insertGrant, Finally
  <2>6. CASE insertToken(q)
    <3>1. call[q].token \in Tokens /\ call[q].rest \subseteq Principals
      BY <2>6, Fields DEF insertToken
    <3>2. owner' \in [Tokens -> Users \union {NoUser}] /\ owed' \subseteq Principals \X Tokens
      BY <1>0, <2>6, <3>1 DEF RowsTyped, insertToken
    <3>3. QED
      BY <1>0, <2>6, <3>2 DEF RowsTyped, insertToken
  <2>7. CASE callFails(q)
    BY <1>0, <2>7 DEF RowsTyped, callFails, rows
  <2>8. ASSUME NEW p \in Principals, NEW ok \in BOOLEAN, grantNext(q, p, ok) PROVE RowsTyped'
    <3>1. call[q].token \in Tokens
      BY <2>8, Fields DEF grantNext
    <3>2. granted' \in [Principals -> [Tokens -> Users \union {NoUser}]]
      BY <1>0, <2>8, <3>1, Fields, GrantsOne DEF RowsTyped, grantNext
    <3>3. QED
      BY <1>0, <2>8, <3>2 DEF RowsTyped, grantNext
  <2>9. QED
    BY <1>2, <2>1, <2>2, <2>3, <2>4, <2>5, <2>6, <2>7, <2>8 DEF CallStep
<1>3. ASSUME NEW a \in Users, NEW g \in Groups, deleteGroup(a, g) PROVE RowsTyped'
  <2>1. g \in Principals
    BY DEF Principals
  <2>2. QED
    BY <1>0, <1>3, <2>1 DEF RowsTyped, deleteGroup
<1>4. ASSUME NEW a \in Users, NEW g \in Groups, NEW u \in Users, removeMember(a, g, u)
      PROVE  RowsTyped'
  BY <1>0, <1>4 DEF RowsTyped, removeMember
<1>5. ASSUME NEW a \in Users, NEW p \in Principals, NEW t \in Tokens, revokeAccess(a, p, t)
      PROVE  RowsTyped'
  BY <1>0, <1>5 DEF RowsTyped, revokeAccess
<1>6. ASSUME NEW u \in Users, deleteUser(u) PROVE RowsTyped'
  BY <1>0, <1>6 DEF RowsTyped, deleteUser
<1>7. ASSUME NEW q \in Calls, NEW a \in Users, CallBegins(q, a) PROVE RowsTyped'
  BY <1>1, <1>7, EveryCallOpens DEF Opens
<1>8. CASE UNCHANGED vars
  BY <1>1, <1>8 DEF vars
<1>9. CASE Next
  BY <1>2, <1>3, <1>4, <1>5, <1>6, <1>7, <1>9 DEF Next
<1>10. QED
  BY <1>8, <1>9

LEMMA TypedKeeps ==
  ASSUME Typed, [Next]_vars
  PROVE  Typed'
BY CallsTypedKeeps, RowsTypedKeeps, TypedPartsNext

-------------------------------------------------------------------------------
\* OneCreator.
LEMMA OwnerMoves ==
  ASSUME Next
  PROVE  (\E q \in Calls : insertToken(q)) \/ UNCHANGED owner
<1>1. ASSUME NEW q \in Calls, CallStep(q), ~insertToken(q) PROVE UNCHANGED owner
  <2>1. ASSUME NEW p \in Principals, NEW ok \in BOOLEAN, grantNext(q, p, ok)
        PROVE  UNCHANGED owner
    BY <2>1 DEF grantNext
  <2>2. CASE check(q) \/ insertGroupFails(q) \/ syncDone(q) \/ answerCreated(q) \/ callFails(q)
    BY <2>2 DEF check, insertGroupFails, syncDone, answerCreated, callFails, rows
  <2>3. CASE \/ \E g \in Groups : insertGroup(q, g)
             \/ updateGroup(q) \/ insertMember(q) \/ insertGrant(q)
    BY <2>3 DEF insertGroup, updateGroup, insertMember, insertGrant
  <2>4. QED
    BY <1>1, <2>1, <2>2, <2>3 DEF CallStep
<1>2. ASSUME NEW q \in Calls, NEW a \in Users, CallBegins(q, a) PROVE UNCHANGED owner
  BY <1>2, EveryCallOpens DEF Opens, rows
<1>3. CASE \/ \E a \in Users, g \in Groups :
                deleteGroup(a, g) \/ \E u \in Users : removeMember(a, g, u)
           \/ \E a \in Users, p \in Principals, t \in Tokens : revokeAccess(a, p, t)
           \/ \E u \in Users : deleteUser(u)
  BY <1>3 DEF deleteGroup, removeMember, revokeAccess, deleteUser
<1>4. QED
  BY <1>1, <1>2, <1>3 DEF Next

\* A creator has been one, or begins to be one.
Creates(r) ==
  \/ /\ Creating(r) /\ call'[r].token = call[r].token
     /\ At(r, "insertToken")' => At(r, "insertToken")
  \/ \E c \in CallRecords : Opens(r, c) /\ call'[r] = c

LEMMA CreatorMoves ==
  ASSUME Typed, Next, NEW r \in Calls, Creating(r)'
  PROVE  Creates(r)
<1>1. call'[r] = call[r] => Creates(r)
  BY DEF Creating, At, Creates
<1>2. ASSUME NEW q \in Calls, NEW c \in CallRecords, Opens(q, c) PROVE Creates(r)
  BY <1>1, <1>2, Opened DEF Creates
<1>3. ASSUME NEW q \in Calls, NEW s \in Statements, At(q, s), Advance(q) PROVE Creates(r)
  <2>1. CASE r # q
    BY <1>1, <1>3, <2>1, Second
  <2>2. CASE r = q
    <3>1. /\ call'[q].token = call[q].token /\ ~At(q, "insertToken")'
          /\ At(q, "sync")' => s = "insertToken"
          /\ At(q, "grantTo")' => s = "sync"
      BY <1>3, Second
    <3>2. QED
      BY <1>3, <2>2, <3>1 DEF Creating, Creates
  <2>3. QED
    BY <2>1, <2>2
<1>4. ASSUME NEW q \in Calls, Done(q) PROVE Creates(r)
  <2>1. CASE r # q
    BY <1>1, <1>4, <2>1, Ended
  <2>2. CASE r = q
    BY <1>4, <2>2, Ended DEF Creating
  <2>3. QED
    BY <2>1, <2>2
<1>5. ASSUME NEW q \in Calls, NEW p \in Principals, NEW ok \in BOOLEAN, grantNext(q, p, ok)
      PROVE  Creates(r)
  <2>1. CASE r # q
    BY <1>1, <1>5, <2>1, GrantMoves
  <2>2. CASE r = q
    <3>1. call'[q].token = call[q].token /\ call'[q].todo = call[q].todo
      BY <1>5, GrantMoves
    <3>2. QED
      BY <2>2, <3>1 DEF Creating, At, Creates
  <2>3. QED
    BY <2>1, <2>2
<1>6. CASE UNCHANGED call
  BY <1>1, <1>6
<1>7. QED
  BY <1>2, <1>3, <1>4, <1>5, <1>6, CallMoves

LEMMA OneCreatorKeeps ==
  ASSUME Typed, OneCreator, [Next]_vars
  PROVE  OneCreator'
<1>1. CASE UNCHANGED vars
  BY <1>1 DEF vars, rows, OneCreator, Creating, At, Made
<1>2. CASE Next
  <2>1. ASSUME NEW q \in Calls, NEW r \in Calls, Creating(q)', Creating(r)', q # r
        PROVE  call'[q].token # call'[r].token
    <3>1. ASSUME NEW x \in Calls, NEW y \in Calls, x # y, Creating(x)', Creating(y)',
                 NEW c \in CallRecords, Opens(x, c), call'[x] = c
          PROVE  call'[x].token # call'[y].token
      <4>1. call'[y] = call[y]
        BY <3>1, Opened
      <4>2. Head(c.todo) = "insertToken"
        BY <3>1 DEF Opens, Fresh, Creating, At
      <4>3. c.token # call[y].token
        BY <3>1, <4>2 DEF Opens, Fresh
      <4>4. QED
        BY <3>1, <4>1, <4>3
    <3>2. CASE /\ Creating(q) /\ call'[q].token = call[q].token
               /\ Creating(r) /\ call'[r].token = call[r].token
      BY <2>1, <3>2 DEF OneCreator
    <3>3. \/ Creating(q) /\ call'[q].token = call[q].token
          \/ \E c \in CallRecords : Opens(q, c) /\ call'[q] = c
      BY <1>2, <2>1, CreatorMoves DEF Creates
    <3>4. \/ Creating(r) /\ call'[r].token = call[r].token
          \/ \E c \in CallRecords : Opens(r, c) /\ call'[r] = c
      BY <1>2, <2>1, CreatorMoves DEF Creates
    <3>5. QED
      BY <2>1, <3>1, <3>2, <3>3, <3>4
  <2>2. ASSUME NEW r \in Calls, At(r, "insertToken")' 
        PROVE  owner'[call'[r].token] = NoUser
    <3>0. Creating(r)'
      BY <2>2 DEF Creating
    <3>1. ASSUME NEW c \in CallRecords, Opens(r, c), call'[r] = c
          PROVE  owner'[call'[r].token] = NoUser
      <4>1. Head(c.todo) = "insertToken"
        BY <2>2, <3>1 DEF At
      <4>2. ~Made(c.token) /\ UNCHANGED owner
        BY <3>1, <4>1 DEF Opens, Fresh, rows
      <4>3. QED
        BY <3>1, <4>2 DEF Made
    <3>2. CASE At(r, "insertToken") /\ call'[r].token = call[r].token
      <4>1. owner[call[r].token] = NoUser
        BY <3>2 DEF OneCreator, Made
      <4>2. CASE UNCHANGED owner
        BY <3>2, <4>1, <4>2
      <4>3. ASSUME NEW q \in Calls, insertToken(q) PROVE owner'[call[r].token] = NoUser
        <5>1. q # r
          <6>1. ASSUME q = r PROVE FALSE
            <7>1. CASE call[q].actor \in users
              BY <2>2, <4>3, <6>1, <7>1, Second DEF insertToken
            <7>2. CASE call[q].actor \notin users
              BY <2>2, <4>3, <6>1, <7>2, Ended DEF insertToken
            <7>3. QED
              BY <7>1, <7>2
          <6>2. QED
            BY <6>1
        <5>2. call[q].token # call[r].token
          BY <3>2, <4>3, <5>1 DEF OneCreator, Creating, insertToken
        <5>3. owner' = owner \/ owner' = [owner EXCEPT ![call[q].token] = call[q].actor]
          BY <4>3 DEF insertToken
        <5>4. call[r].token \in Tokens /\ owner \in [Tokens -> Users \union {NoUser}]
          BY <3>2, Fields, TypedParts DEF RowsTyped
        <5>5. QED
          BY <4>1, <5>2, <5>3, <5>4
      <4>4. QED
        BY <1>2, <3>2, <4>2, <4>3, OwnerMoves
    <3>3. QED
      BY <1>2, <2>2, <3>0, <3>1, <3>2, CreatorMoves DEF Creates
  <2>3. \A q, r \in Calls :
          Creating(q)' /\ Creating(r)' /\ call'[q].token = call'[r].token => q = r
    BY <2>1
  <2>4. QED
    BY <2>2, <2>3 DEF OneCreator, Made
<1>3. QED
  BY <1>1, <1>2

-------------------------------------------------------------------------------
\* RightsBacked.
\* The two halves of RightsBacked after a step.
MembersBacked ==
  \A g \in Groups, u \in Users : added'[g][u] # NoUser => name'[g] \in Names /\ u \in users'

GrantsBacked ==
  \A p \in Principals, t \in Tokens :
    granted'[p][t] # NoUser =>
      /\ p \in Users => p \in users'
      /\ p \notin Users => name'[p] \in Names
      /\ owner'[t] # NoUser

LEMMA RightsNext ==
  ASSUME MembersBacked, GrantsBacked
  PROVE  RightsBacked'
<1>1. \A p : Present(p)' <=> (p \in Users => p \in users') /\ (p \notin Users => name'[p] \in Names)
  BY DEF Present, Exists
<1>2. \A g \in Groups, u \in Users : Member(g, u)' => Exists(g)' /\ u \in users'
  BY DEF MembersBacked, Member, Exists
<1>3. \A p \in Principals, t \in Tokens : Granted(p, t)' => Present(p)' /\ Made(t)'
  BY <1>1 DEF GrantsBacked, Granted, Made
<1>4. QED
  BY <1>2, <1>3 DEF RightsBacked

LEMMA RightsBackedKeeps ==
  ASSUME Typed, RightsBacked, [Next]_vars
  PROVE  RightsBacked'
<1>0. RowsTyped
  BY TypedParts
<1>2. /\ \A g \in Groups, u \in Users :
           added[g][u] # NoUser => name[g] \in Names /\ u \in users
      /\ \A p \in Principals, t \in Tokens :
           granted[p][t] # NoUser =>
             /\ p \in Users => p \in users
             /\ p \notin Users => name[p] \in Names
             /\ owner[t] # NoUser
  BY DEF RightsBacked, Member, Granted, Exists, Present, Made
<1>3. \A p \in Principals : p \notin Users => p \in Groups
  BY DEF Principals
<1>4. ASSUME UNCHANGED rows PROVE MembersBacked /\ GrantsBacked
  BY <1>2, <1>4 DEF rows, MembersBacked, GrantsBacked
<1>5. ASSUME NEW p \in Principals, NEW t \in Tokens, NEW a \in Users \union {NoUser},
             Grants(p, t, a), UNCHANGED <<users, name, added, owner>>
      PROVE  MembersBacked /\ GrantsBacked
  BY <1>0, <1>2, <1>5, GrantsOne DEF Granted, Present, Exists, Made, MembersBacked,
     GrantsBacked
<1>6. ASSUME NEW q \in Calls, CallStep(q) PROVE MembersBacked /\ GrantsBacked
  <2>1. CASE check(q) \/ insertGroupFails(q) \/ syncDone(q) \/ answerCreated(q) \/ callFails(q)
    BY <1>4, <2>1 DEF check, insertGroupFails, syncDone, answerCreated, callFails
  <2>2. ASSUME NEW g \in Groups, insertGroup(q, g) PROVE MembersBacked /\ GrantsBacked
    <3>1. call[q].name \in Names
      BY <2>2, Fields DEF insertGroup, Finally
    <3>2. name' = [name EXCEPT ![g] = call[q].name] /\ UNCHANGED <<users, added, granted, owner>>
      BY <2>2 DEF insertGroup
    <3>3. \A h \in Groups : name[h] \in Names => name'[h] \in Names
      BY <1>0, <3>1, <3>2 DEF RowsTyped
    <3>4. QED
      BY <1>2, <1>3, <3>2, <3>3 DEF MembersBacked, GrantsBacked
  <2>3. CASE updateGroup(q)
    <3>1. call[q].name \in Names
      BY <2>3, Fields DEF updateGroup, Finally
    <3>2. /\ name' = [name EXCEPT ![call[q].group] = call[q].name] \/ name' = name
          /\ UNCHANGED <<users, added, granted, owner>>
      BY <2>3 DEF updateGroup
    <3>3. \A h \in Groups : name[h] \in Names => name'[h] \in Names
      BY <1>0, <3>1, <3>2 DEF RowsTyped
    <3>4. QED
      BY <1>2, <1>3, <3>2, <3>3 DEF MembersBacked, GrantsBacked
  <2>4. CASE insertMember(q)
    <3>1. call[q].group \in Groups /\ call[q].to \in Users
      BY <2>4, Fields DEF insertMember, Finally
    <3>2. /\ \/ UNCHANGED added
             \/ /\ name[call[q].group] \in Names /\ call[q].to \in users
                /\ added' = [added EXCEPT ![call[q].group][call[q].to] = call[q].actor]
          /\ UNCHANGED <<users, name, granted, owner>>
      BY <2>4 DEF insertMember, Exists
    <3>3. GrantsBacked
      BY <1>2, <3>2 DEF MembersBacked, GrantsBacked
    <3>4. MembersBacked
      BY <1>0, <1>2, <3>1, <3>2 DEF RowsTyped, MembersBacked, GrantsBacked
    <3>5. QED
      BY <3>3, <3>4
  <2>5. CASE insertGrant(q)
    BY <1>5, <2>5, Fields DEF insertGrant, Finally
  <2>6. CASE insertToken(q)
    <3>1. \A t \in Tokens : owner[t] # NoUser => owner'[t] # NoUser
      <4>1. \/ UNCHANGED owner
            \/ /\ call[q].actor \in users
               /\ owner' = [owner EXCEPT ![call[q].token] = call[q].actor]
        BY <2>6 DEF insertToken
      <4>2. call[q].actor \in users => call[q].actor # NoUser
        BY <1>0, ConstantsAssumption DEF RowsTyped, Principals
      <4>3. QED
        BY <1>0, <4>1, <4>2 DEF RowsTyped
    <3>2. UNCHANGED <<users, name, added, granted>>
      BY <2>6 DEF insertToken
    <3>3. QED
      BY <1>2, <3>1, <3>2 DEF MembersBacked, GrantsBacked
  <2>7. ASSUME NEW p \in Principals, NEW ok \in BOOLEAN, grantNext(q, p, ok)
        PROVE  MembersBacked /\ GrantsBacked
    <3>1. CASE ok
      BY <1>5, <2>7, <3>1, Fields DEF grantNext
    <3>2. CASE ~ok
      BY <1>2, <2>7, <3>2 DEF grantNext, MembersBacked, GrantsBacked
    <3>3. QED
      BY <3>1, <3>2
  <2>8. QED
    BY <1>6, <2>1, <2>2, <2>3, <2>4, <2>5, <2>6, <2>7 DEF CallStep
<1>7. ASSUME NEW a \in Users, NEW g \in Groups, deleteGroup(a, g)
      PROVE  MembersBacked /\ GrantsBacked
  <2>1. /\ name' = [name EXCEPT ![g] = Gone]
        /\ added' = [added EXCEPT ![g] = [u \in Users |-> NoUser]]
        /\ granted' = [granted EXCEPT ![g] = [t \in Tokens |-> NoUser]]
        /\ UNCHANGED <<users, owner>>
    BY <1>7 DEF deleteGroup
  <2>2. g \in Principals /\ g \notin Users
    BY ConstantsAssumption DEF Principals
  <2>3. MembersBacked
    BY <1>0, <1>2, <2>1 DEF RowsTyped, MembersBacked, GrantsBacked
  <2>4. GrantsBacked
    BY <1>0, <1>2, <1>3, <2>1, <2>2 DEF RowsTyped, MembersBacked, GrantsBacked
  <2>5. QED
    BY <2>3, <2>4
<1>8. ASSUME NEW a \in Users, NEW g \in Groups, NEW u \in Users, removeMember(a, g, u)
      PROVE  MembersBacked /\ GrantsBacked
  <2>1. /\ added' = [added EXCEPT ![g][u] = NoUser]
        /\ UNCHANGED <<users, name, granted, owner>>
    BY <1>8 DEF removeMember
  <2>2. MembersBacked
    BY <1>0, <1>2, <2>1 DEF RowsTyped, MembersBacked, GrantsBacked
  <2>3. GrantsBacked
    BY <1>2, <2>1 DEF MembersBacked, GrantsBacked
  <2>4. QED
    BY <2>2, <2>3
<1>9. ASSUME NEW a \in Users, NEW p \in Principals, NEW t \in Tokens, revokeAccess(a, p, t)
      PROVE  MembersBacked /\ GrantsBacked
  <2>1. /\ granted' = [granted EXCEPT ![p][t] = NoUser]
        /\ UNCHANGED <<users, name, added, owner>>
    BY <1>9 DEF revokeAccess
  <2>2. GrantsBacked
    BY <1>0, <1>2, <2>1 DEF RowsTyped, MembersBacked, GrantsBacked
  <2>3. MembersBacked
    BY <1>2, <2>1 DEF MembersBacked, GrantsBacked
  <2>4. QED
    BY <2>2, <2>3
<1>10. ASSUME NEW u \in Users, deleteUser(u) PROVE MembersBacked /\ GrantsBacked
  <2>1. /\ users' = users \ {u}
        /\ added' = [g \in Groups |-> [added[g] EXCEPT ![u] = NoUser]]
        /\ granted' = [granted EXCEPT ![u] = [t \in Tokens |-> NoUser]]
        /\ UNCHANGED <<name, owner>>
    BY <1>10 DEF deleteUser
  <2>2. u \in Principals
    BY DEF Principals
  <2>3. MembersBacked
    BY <1>0, <1>2, <2>1 DEF RowsTyped, MembersBacked, GrantsBacked
  <2>4. GrantsBacked
    BY <1>0, <1>2, <2>1, <2>2 DEF RowsTyped, MembersBacked, GrantsBacked
  <2>5. QED
    BY <2>3, <2>4
<1>11. ASSUME NEW q \in Calls, NEW a \in Users, CallBegins(q, a)
       PROVE  MembersBacked /\ GrantsBacked
  BY <1>4, <1>11, EveryCallOpens DEF Opens
<1>12. ASSUME UNCHANGED vars PROVE MembersBacked /\ GrantsBacked
  BY <1>4, <1>12 DEF vars
<1>13. ASSUME Next PROVE MembersBacked /\ GrantsBacked
  BY <1>6, <1>7, <1>8, <1>9, <1>10, <1>11, <1>13 DEF Next
<1>14. QED
  BY <1>12, <1>13, RightsNext

-------------------------------------------------------------------------------
\* OwedOrGranted.
LEMMA OneMoves ==
  ASSUME Typed, NEW q \in Calls, CallStep(q), NEW r \in Calls, r # q
  PROVE  call'[r] = call[r]
<1>1. CASE check(q)
  <2>1. PICK s \in Checks : At(q, s) /\ (Advance(q) \/ Done(q))
    BY <1>1 DEF check
  <2>2. QED
    BY <2>1, Second, Ended
<1>2. CASE \/ \E g \in Groups : insertGroup(q, g)
           \/ insertGroupFails(q) \/ updateGroup(q) \/ insertMember(q) \/ insertGrant(q)
           \/ answerCreated(q) \/ callFails(q)
  <2>1. Done(q)
    BY <1>2 DEF insertGroup, insertGroupFails, updateGroup, insertMember, insertGrant,
       answerCreated, callFails, Finally
  <2>2. QED
    BY <2>1, Ended
<1>3. CASE insertToken(q) \/ syncDone(q)
  <2>1. (At(q, "insertToken") \/ At(q, "sync")) /\ (Advance(q) \/ Done(q))
    BY <1>3 DEF insertToken, syncDone
  <2>2. QED
    BY <2>1, Second, Ended
<1>4. ASSUME NEW p \in Principals, NEW ok \in BOOLEAN, grantNext(q, p, ok)
      PROVE  call'[r] = call[r]
  BY <1>4, GrantMoves
<1>5. QED
  BY <1>1, <1>2, <1>3, <1>4 DEF CallStep

\* A grant that a call has to do stays with it until it is done, or the call fails.
LEMMA ToGrantMoves ==
  ASSUME Typed, Next, NEW r \in Calls, NEW p \in Principals, NEW t \in Tokens,
         ToGrant(r, p, t)
  PROVE  \/ ToGrant(r, p, t)'
         \/ \E ok \in BOOLEAN : grantNext(r, p, ok)
         \/ callFails(r)
<1>1. call'[r] = call[r] => ToGrant(r, p, t)'
  BY DEF ToGrant, At
<1>2. ASSUME NEW q \in Calls, NEW a \in Users, CallBegins(q, a) PROVE call'[r] = call[r]
  <2>1. PICK c \in CallRecords : Opens(q, c)
    BY <1>2, EveryCallOpens
  <2>2. call[q] = Idle /\ \A x \in Calls \ {q} : call'[x] = call[x]
    BY <2>1, Opened
  <2>3. call[r] # Idle
    BY IdleCall DEF ToGrant, At
  <2>4. QED
    BY <2>2, <2>3
<1>3. ASSUME CallStep(r)
      PROVE  \/ ToGrant(r, p, t)'
             \/ \E ok \in BOOLEAN : grantNext(r, p, ok)
             \/ callFails(r)
  <2>1. ASSUME NEW s, At(r, s) PROVE s \in {"sync", "grantTo"}
    BY <2>1 DEF ToGrant, At
  <2>2. ~check(r)
    BY <2>1 DEF check, Checks
  <2>3. \A g : ~insertGroup(r, g)
    BY <2>1 DEF insertGroup, Finally
  <2>4. ~insertGroupFails(r) /\ ~updateGroup(r) /\ ~insertMember(r) /\ ~insertGrant(r)
    BY <2>1 DEF insertGroupFails, updateGroup, insertMember, insertGrant, Finally
  <2>5. ~insertToken(r) /\ ~answerCreated(r)
    BY <2>1 DEF insertToken, answerCreated, ToGrant
  <2>6. CASE syncDone(r)
    BY <2>6, Second DEF syncDone, ToGrant
  <2>7. ASSUME NEW p2 \in Principals, NEW ok \in BOOLEAN, grantNext(r, p2, ok), p2 # p
        PROVE  ToGrant(r, p, t)'
    <3>1. /\ call'[r].token = call[r].token /\ call'[r].rest = call[r].rest \ {p2}
          /\ call'[r].todo = call[r].todo
      BY <2>7, GrantMoves
    <3>2. QED
      BY <2>7, <3>1 DEF ToGrant, At
  <2>8. QED
    BY <1>3, <2>2, <2>3, <2>4, <2>5, <2>6, <2>7 DEF CallStep
<1>4. ASSUME NEW q \in Calls, CallStep(q), q # r PROVE call'[r] = call[r]
  BY <1>4, OneMoves
<1>5. CASE \/ \E a \in Users, g \in Groups :
                deleteGroup(a, g) \/ \E u \in Users : removeMember(a, g, u)
           \/ \E a \in Users, x \in Principals, y \in Tokens : revokeAccess(a, x, y)
           \/ \E u \in Users : deleteUser(u)
  BY <1>1, <1>5 DEF deleteGroup, removeMember, revokeAccess, deleteUser
<1>6. QED
  BY <1>1, <1>2, <1>3, <1>4, <1>5 DEF Next

\* A token that was created stays.
LEMMA MadeStays ==
  ASSUME Typed, Next, NEW t \in Tokens, Made(t)
  PROVE  owner'[t] # NoUser
<1>1. CASE UNCHANGED owner
  BY <1>1 DEF Made
<1>2. ASSUME NEW q \in Calls, insertToken(q) PROVE owner'[t] # NoUser
  <2>1. \/ UNCHANGED owner
        \/ /\ call[q].actor \in users
           /\ owner' = [owner EXCEPT ![call[q].token] = call[q].actor]
    BY <1>2 DEF insertToken
  <2>2. call[q].actor \in users => call[q].actor # NoUser
    BY TypedParts, ConstantsAssumption DEF RowsTyped, Principals
  <2>3. QED
    BY <2>1, <2>2, TypedParts DEF RowsTyped, Made
<1>3. QED
  BY <1>1, <1>2, OwnerMoves

\* What becomes of what is owed and granted.
OwedStays(p, t) ==
  /\ <<p, t>> \in owed
  /\ Granted(p, t) => granted'[p][t] # NoUser

NewlyOwed(p, t) ==
  \E q \in Calls : /\ insertToken(q) /\ call[q].actor \in users
                   /\ p \in call[q].rest /\ t = call[q].token

LEMMA OwedMoves ==
  ASSUME Typed, Next, NEW p \in Principals, NEW t \in Tokens, <<p, t>> \in owed'
  PROVE  OwedStays(p, t) \/ NewlyOwed(p, t)
<1>0. RowsTyped
  BY TypedParts
<1>1. ASSUME UNCHANGED <<granted, owed>> PROVE OwedStays(p, t)
  BY <1>1 DEF OwedStays, Granted
<1>2. ASSUME NEW q \in Calls, CallStep(q) PROVE OwedStays(p, t) \/ NewlyOwed(p, t)
  <2>1. CASE check(q) \/ insertGroupFails(q) \/ syncDone(q) \/ answerCreated(q)
    BY <1>1, <2>1 DEF check, insertGroupFails, syncDone, answerCreated, rows
  <2>2. CASE (\E g \in Groups : insertGroup(q, g)) \/ updateGroup(q) \/ insertMember(q)
    BY <1>1, <2>2 DEF insertGroup, updateGroup, insertMember
  <2>3. CASE insertGrant(q)
    <3>1. /\ call[q].to \in Principals /\ call[q].token \in Tokens
          /\ call[q].actor \in Users \union {NoUser}
      BY <2>3, Fields DEF insertGrant, Finally
    <3>2. Grants(call[q].to, call[q].token, call[q].actor) /\ UNCHANGED owed
      BY <2>3 DEF insertGrant
    <3>3. QED
      BY <1>0, <3>1, <3>2, GrantsOne DEF OwedStays, Granted
  <2>4. CASE insertToken(q)
    <3>1. CASE call[q].actor \in users
      BY <2>4, <3>1 DEF insertToken, OwedStays, NewlyOwed, Granted
    <3>2. CASE call[q].actor \notin users
      BY <1>1, <2>4, <3>2 DEF insertToken
    <3>3. QED
      BY <3>1, <3>2
  <2>5. CASE callFails(q)
    BY <2>5 DEF callFails, rows, OwedStays, Granted
  <2>6. ASSUME NEW x \in Principals, NEW ok \in BOOLEAN, grantNext(q, x, ok)
        PROVE  OwedStays(p, t)
    <3>1. call[q].token \in Tokens /\ call[q].actor \in Users \union {NoUser}
      BY <2>6, Fields DEF grantNext
    <3>2. <<p, t>> \in owed
      BY <2>6 DEF grantNext
    <3>3. Grants(x, call[q].token, call[q].actor) \/ UNCHANGED granted
      BY <2>6 DEF grantNext
    <3>4. QED
      BY <1>0, <3>1, <3>2, <3>3, GrantsOne DEF OwedStays, Granted
  <2>7. QED
    BY <1>2, <2>1, <2>2, <2>3, <2>4, <2>5, <2>6 DEF CallStep
<1>3. ASSUME NEW a \in Users, NEW g \in Groups, deleteGroup(a, g) PROVE OwedStays(p, t)
  <2>1. <<p, t>> \in owed /\ p # g
    BY <1>3 DEF deleteGroup
  <2>2. granted'[p] = granted[p]
    BY <1>0, <1>3, <2>1 DEF deleteGroup, RowsTyped
  <2>3. QED
    BY <2>1, <2>2 DEF OwedStays, Granted
<1>4. ASSUME NEW a \in Users, NEW g \in Groups, NEW u \in Users, removeMember(a, g, u)
      PROVE  OwedStays(p, t)
  BY <1>1, <1>4 DEF removeMember
<1>5. ASSUME NEW a \in Users, NEW x \in Principals, NEW y \in Tokens, revokeAccess(a, x, y)
      PROVE  OwedStays(p, t)
  <2>1. <<p, t>> \in owed /\ ~(p = x /\ t = y)
    BY <1>5 DEF revokeAccess
  <2>2. granted'[p][t] = granted[p][t]
    BY <1>0, <1>5, <2>1 DEF revokeAccess, RowsTyped
  <2>3. QED
    BY <2>1, <2>2 DEF OwedStays, Granted
<1>6. ASSUME NEW u \in Users, deleteUser(u) PROVE OwedStays(p, t)
  <2>1. <<p, t>> \in owed /\ p # u
    BY <1>6 DEF deleteUser
  <2>2. granted'[p] = granted[p]
    BY <1>0, <1>6, <2>1 DEF deleteUser, RowsTyped
  <2>3. QED
    BY <2>1, <2>2 DEF OwedStays, Granted
<1>7. ASSUME NEW q \in Calls, NEW a \in Users, CallBegins(q, a) PROVE OwedStays(p, t)
  BY <1>1, <1>7, EveryCallOpens DEF Opens, rows
<1>8. QED
  BY <1>2, <1>3, <1>4, <1>5, <1>6, <1>7 DEF Next

LEMMA OwedOrGrantedKeeps ==
  ASSUME Typed, OwedOrGranted, [Next]_vars
  PROVE  OwedOrGranted'
<1>1. CASE UNCHANGED vars
  BY <1>1 DEF vars, rows, OwedOrGranted, Made, Granted, ToGrant, At
<1>2. CASE Next
  <2> SUFFICES ASSUME NEW p \in Principals, NEW t \in Tokens, <<p, t>> \in owed'
               PROVE  /\ owner'[t] # NoUser
                      /\ granted'[p][t] # NoUser \/ \E q \in Calls : ToGrant(q, p, t)'
    BY DEF OwedOrGranted, Made, Granted
  <2>1. CASE OwedStays(p, t)
    <3>1. Made(t) /\ (Granted(p, t) \/ \E q \in Calls : ToGrant(q, p, t))
      BY <2>1 DEF OwedOrGranted, OwedStays
    <3>2. owner'[t] # NoUser
      BY <1>2, <3>1, MadeStays
    <3>3. CASE Granted(p, t)
      BY <2>1, <3>2, <3>3 DEF OwedStays
    <3>4. ASSUME NEW q \in Calls, ToGrant(q, p, t)
          PROVE  granted'[p][t] # NoUser \/ ToGrant(q, p, t)'
      <4>1. ASSUME NEW ok \in BOOLEAN, grantNext(q, p, ok) PROVE granted'[p][t] # NoUser
        BY <3>4, <4>1 DEF grantNext, ToGrant
      <4>2. ~callFails(q)
        BY <3>4 DEF callFails, ToGrant
      <4>3. QED
        BY <1>2, <3>4, <4>1, <4>2, ToGrantMoves
    <3>5. QED
      BY <3>1, <3>2, <3>3, <3>4
  <2>2. CASE NewlyOwed(p, t)
    <3>1. PICK q \in Calls : /\ insertToken(q) /\ call[q].actor \in users
                             /\ p \in call[q].rest /\ t = call[q].token
      BY <2>2 DEF NewlyOwed
    <3>2. At(q, "insertToken") /\ Advance(q) /\ owner' = [owner EXCEPT ![t] = call[q].actor]
      BY <3>1 DEF insertToken
    <3>3. owner'[t] # NoUser
      BY <3>1, <3>2, TypedParts, ConstantsAssumption DEF RowsTyped, Principals
    <3>4. ToGrant(q, p, t)'
      BY <3>1, <3>2, Second DEF ToGrant
    <3>5. QED
      BY <3>3, <3>4
  <2>3. QED
    BY <1>2, <2>1, <2>2, OwedMoves
<1>3. QED
  BY <1>1, <1>2

-------------------------------------------------------------------------------
LEMMA InitEstablishes == Init => IInv
<1> SUFFICES ASSUME Init PROVE IInv
  OBVIOUS
<1>1. CallsTyped
  <2>1. Sensible(Idle)
    BY IdleCall DEF Sensible
  <2>2. QED
    BY <2>1, IdleCall DEF Init, CallsTyped
<1>2. RowsTyped
  BY DEF Init, RowsTyped
<1>3. OneCreator
  BY IdleCall DEF Init, OneCreator, Creating, At
<1>4. RightsBacked
  BY DEF Init, RightsBacked, Member, Granted
<1>5. OwedOrGranted
  BY DEF Init, OwedOrGranted
<1>6. QED
  BY <1>1, <1>2, <1>3, <1>4, <1>5, TypedParts DEF IInv

LEMMA StepKeeps == IInv /\ [Next]_vars => IInv'
BY TypedKeeps, OneCreatorKeeps, RightsBackedKeeps, OwedOrGrantedKeeps DEF IInv

-------------------------------------------------------------------------------
\* What the rows say to the policy.
There == {g \in Groups : Exists(g)}
Past == {g \in Groups : name[g] = Gone}
Memberships == {m \in Groups \X Users : Member(m[1], m[2])}
Grantings == {p \in Principals \X Tokens : Granted(p[1], p[2])}
Makers == {m \in Users \X Tokens : owner[m[2]] = m[1]}

\* The lists show what the policy says.
LEMMA ListsAgree ==
  ASSUME Typed, RightsBacked, NEW u \in Users, u \notin Admins
  PROVE  listTokens(u) = Policy!Visible(u)
<1>1. \A t \in Tokens : <<u, t>> \in Makers <=> owner[t] = u
  BY DEF Makers
<1>2. \A p \in Principals, t \in Tokens : <<p, t>> \in Grantings <=> Granted(p, t)
  BY DEF Grantings
<1>3. \A g \in Groups : <<g, u>> \in Memberships <=> Member(g, u)
  BY DEF Memberships
<1>4. u \in Principals /\ Groups \subseteq Principals
  BY DEF Principals
<1>5. \A t \in Tokens :
        (\E g \in Groups : Granted(g, t) /\ Member(g, u)) <=>
        (\E g \in There : <<g, u>> \in Memberships /\ <<g, t>> \in Grantings)
  BY <1>2, <1>3, <1>4 DEF There, RightsBacked
<1>6. listTokens(u) = {t \in Tokens : \/ <<u, t>> \in Makers \union Grantings
                                     \/ \E g \in There : /\ <<g, u>> \in Memberships
                                                          /\ <<g, t>> \in Grantings}
  BY <1>1, <1>2, <1>4, <1>5 DEF listTokens
<1>7. QED
  BY <1>6 DEF Policy!Visible, Makers, Grantings, Memberships, There

LEMMA Views == Typed /\ RightsBacked => ViewsAgree
<1> SUFFICES ASSUME Typed, RightsBacked PROVE ViewsAgree
  OBVIOUS
<1>0. users \subseteq Users
  BY TypedParts DEF RowsTyped
<1>1. \A u \in Users \ Admins : listTokens(u) = Policy!Visible(u)
  BY ListsAgree
<1>2. ASSUME NEW t \in Tokens, NEW p \in accessibleBy(t), NEW u \in Holders(p)
      PROVE  t \in listTokens(u)
  <2>1. p \in Principals /\ Granted(p, t)
    BY <1>2 DEF accessibleBy
  <2>2. Made(t)
    BY <2>1 DEF RightsBacked
  <2>3. p \in Users => u = p
    BY <1>2 DEF Holders
  <2>4. p \notin Users => p \in Groups /\ Member(p, u)
    BY <1>2, <2>1 DEF Holders, Principals
  <2>5. QED
    BY <2>1, <2>2, <2>3, <2>4 DEF listTokens
<1>3. ASSUME NEW g \in Groups
      PROVE  counts(g) = <<Cardinality(detail(g).members), Cardinality(detail(g).tokens)>>
  <2>1. {u \in Users : Member(g, u)} = {u \in users : Member(g, u)}
    BY <1>0 DEF RightsBacked
  <2>2. {t \in Tokens : Granted(g, t)} = {t \in Tokens : Granted(g, t) /\ Made(t)}
    BY DEF RightsBacked, Principals
  <2>3. /\ detail(g).members = {u \in users : Member(g, u)}
        /\ detail(g).tokens = {t \in Tokens : Granted(g, t) /\ Made(t)}
    BY DEF detail
  <2>4. QED
    BY <2>1, <2>2, <2>3 DEF counts
<1>4. QED
  BY <1>1, <1>2, <1>3 DEF ViewsAgree

LEMMA Honoured == IInv => GrantToHonoured
<1> SUFFICES ASSUME IInv PROVE GrantToHonoured
  OBVIOUS
<1>1. Typed /\ RightsBacked /\ OwedOrGranted
  BY DEF IInv
<1>2. ASSUME NEW p \in Principals, NEW t \in Tokens, <<p, t>> \in owed, ~InCreation(t),
             NEW u \in Holders(p)
      PROVE  t \in listTokens(u)
  <2>1. Made(t) /\ Granted(p, t)
    BY <1>1, <1>2 DEF OwedOrGranted, ToGrant, InCreation
  <2>2. p \in Users => u = p
    BY <1>2 DEF Holders
  <2>3. p \notin Users => p \in Groups /\ Member(p, u)
    BY <1>2 DEF Holders, Principals
  <2>4. QED
    BY <2>1, <2>2, <2>3 DEF listTokens
<1>3. ViewsAgree
  BY <1>1, Views
<1>4. QED
  BY <1>2, <1>3 DEF GrantToHonoured

\* The whole inductive invariant: what the calls in progress of groups.ts and tokens.ts
\* still have to do, and the rows they leave (schema.sql: the foreign keys).
THEOREM AccessInvariant == Spec => []IInv
<1>1. QED
  BY InitEstablishes, StepKeeps, PTL DEF Spec

\* The types of rows, calls and history (groups.ts, tokens.ts).
THEOREM TypeCorrect == Spec => []TypeOK
<1>1. IInv => TypeOK
  BY DEF IInv, Typed
<1>2. QED
  BY <1>1, AccessInvariant, PTL

\* The lists agree with one another and with the policy, and show a token to
\* everybody it was created for (tokens.ts:170-201, groups.ts:14-50).
THEOREM GrantsHonoured == Spec => []GrantToHonoured
<1>1. QED
  BY Honoured, AccessInvariant, PTL

-------------------------------------------------------------------------------
\* Every step is one of the policy, or changes nothing there.
PolicyStep == [Policy!Next]_(Policy!policyVars)

SameRights == UNCHANGED <<users, There, Past, Memberships, Grantings, Makers>>

LEMMA Stutters ==
  ASSUME SameRights
  PROVE  PolicyStep
BY DEF SameRights, PolicyStep, Policy!policyVars, There, Past, Memberships, Grantings, Makers

\* The parts of the policy that depend on one table each.
LEMMA Frames ==
  /\ UNCHANGED name => There' = There /\ Past' = Past
  /\ UNCHANGED added => Memberships' = Memberships
  /\ UNCHANGED granted => Grantings' = Grantings
  /\ UNCHANGED owner => Makers' = Makers
BY DEF There, Past, Memberships, Grantings, Makers, Exists, Member, Granted

LEMMA RowsFrame ==
  ASSUME UNCHANGED rows
  PROVE  PolicyStep
BY Frames, Stutters DEF SameRights, rows

LEMMA InsertGroupStep ==
  ASSUME Typed, NEW q \in Calls, NEW g \in Groups, insertGroup(q, g)
  PROVE  PolicyStep
<1>1. call[q].name \in Names
  BY Fields DEF insertGroup, Finally
<1>2. /\ name[g] = NoName /\ name' = [name EXCEPT ![g] = call[q].name]
      /\ UNCHANGED <<users, added, granted, owner>>
  BY DEF insertGroup
<1>3. name'[g] \in Names /\ \A h \in Groups \ {g} : name'[h] = name[h]
  BY <1>1, <1>2, TypedParts DEF RowsTyped
<1>4. g \notin There \union Past
  BY <1>2, ConstantsAssumption DEF There, Past, Exists
<1>5. There' = There \union {g}
  BY <1>3 DEF There, Exists
<1>6. Past' = Past
  BY <1>2, <1>3, ConstantsAssumption DEF Past
<1>7. /\ Memberships' = Memberships /\ Grantings' = Grantings /\ Makers' = Makers
  BY <1>2, Frames
<1>8. Policy!Found(g)
  BY <1>2, <1>4, <1>5, <1>6, <1>7
     DEF Policy!Found, There, Past, Memberships, Grantings, Makers
<1>9. QED
  BY <1>8 DEF PolicyStep, Policy!Next

LEMMA UpdateGroupStep ==
  ASSUME Typed, NEW q \in Calls, updateGroup(q)
  PROVE  PolicyStep
<1>1. call[q].name \in Names /\ call[q].group \in Groups
  BY Fields DEF updateGroup, Finally
<1>2. /\ \/ UNCHANGED name
         \/ Exists(call[q].group) /\ name' = [name EXCEPT ![call[q].group] = call[q].name]
      /\ UNCHANGED <<users, added, granted, owner>>
  BY DEF updateGroup
<1>3. \A h \in Groups : /\ name'[h] \in Names <=> name[h] \in Names
                        /\ name'[h] = Gone <=> name[h] = Gone
  BY <1>1, <1>2, ConstantsAssumption, TypedParts DEF RowsTyped, Exists
<1>4. There' = There /\ Past' = Past
  BY <1>3 DEF There, Past, Exists
<1>5. QED
  BY <1>2, <1>4, Frames, Stutters DEF SameRights

LEMMA DeleteGroupStep ==
  ASSUME Typed, NEW a \in Users, NEW g \in Groups, deleteGroup(a, g)
  PROVE  PolicyStep
<1>0. RowsTyped
  BY TypedParts
<1>1. /\ Exists(g) /\ name' = [name EXCEPT ![g] = Gone]
      /\ added' = [added EXCEPT ![g] = [u \in Users |-> NoUser]]
      /\ granted' = [granted EXCEPT ![g] = [t \in Tokens |-> NoUser]]
      /\ UNCHANGED <<users, owner>>
  BY DEF deleteGroup
<1>2. g \in Principals
  BY DEF Principals
<1>3. g \in There
  BY <1>1 DEF There
<1>4. name'[g] = Gone /\ \A h \in Groups \ {g} : name'[h] = name[h]
  BY <1>0, <1>1 DEF RowsTyped
<1>5. There' = There \ {g} /\ Past' = Past \union {g}
  BY <1>4, ConstantsAssumption DEF There, Past, Exists
<1>6. Memberships' = {m \in Memberships : m[1] # g}
  <2>1. \A h \in Groups, u \in Users : Member(h, u)' <=> h # g /\ Member(h, u)
    BY <1>0, <1>1 DEF RowsTyped, Member
  <2>2. QED
    BY <2>1 DEF Memberships
<1>7. Grantings' = {m \in Grantings : m[1] # g}
  <2>1. \A p \in Principals, t \in Tokens : Granted(p, t)' <=> p # g /\ Granted(p, t)
    BY <1>0, <1>1, <1>2 DEF RowsTyped, Granted
  <2>2. QED
    BY <2>1 DEF Grantings
<1>8. Policy!Disband(g)
  BY <1>1, <1>3, <1>5, <1>6, <1>7, Frames
     DEF Policy!Disband, There, Past, Memberships, Grantings, Makers
<1>9. QED
  BY <1>8 DEF PolicyStep, Policy!Next

LEMMA InsertMemberStep ==
  ASSUME Typed, NEW q \in Calls, insertMember(q)
  PROVE  PolicyStep
<1>0. RowsTyped
  BY TypedParts
<1> DEFINE g == call[q].group
           u == call[q].to
<1>1. g \in Groups /\ u \in Users
  BY Fields DEF insertMember, Finally
<1>2. UNCHANGED <<users, name, granted, owner>>
  BY DEF insertMember
<1>3. CASE UNCHANGED added
  BY <1>2, <1>3, RowsFrame, Frames, Stutters DEF SameRights
<1>4. CASE ~UNCHANGED added
  <2>1. /\ Exists(g) /\ {u, call[q].actor} \subseteq users /\ ~Member(g, u)
        /\ added' = [added EXCEPT ![g][u] = call[q].actor]
    BY <1>4 DEF insertMember
  <2>2. g \in There /\ u \in users /\ <<g, u>> \notin Memberships
    BY <1>1, <2>1 DEF There, Memberships
  <2>3. Memberships' = Memberships \union {<<g, u>>}
    <3>1. call[q].actor \in Users /\ call[q].actor # NoUser
      BY <1>0, <2>1, ConstantsAssumption DEF RowsTyped, Principals
    <3>2. \A h \in Groups, v \in Users : Member(h, v)' <=> (h = g /\ v = u) \/ Member(h, v)
      BY <1>0, <1>1, <2>1, <3>1 DEF RowsTyped, Member
    <3>3. QED
      BY <1>1, <3>2 DEF Memberships
  <2> HIDE DEF g, u
  <2>4. Policy!Join(g, u)
    BY <1>2, <2>2, <2>3, Frames
       DEF Policy!Join, There, Past, Memberships, Grantings, Makers
  <2>5. QED
    BY <1>1, <2>4 DEF PolicyStep, Policy!Next
<1>5. QED
  BY <1>3, <1>4

LEMMA RemoveMemberStep ==
  ASSUME Typed, NEW a \in Users, NEW g \in Groups, NEW u \in Users, removeMember(a, g, u)
  PROVE  PolicyStep
<1>1. /\ added' = [added EXCEPT ![g][u] = NoUser]
      /\ UNCHANGED <<users, name, granted, owner>>
  BY DEF removeMember
<1>2. Memberships' = Memberships \ {<<g, u>>}
  <2>1. \A h \in Groups, v \in Users : Member(h, v)' <=> ~(h = g /\ v = u) /\ Member(h, v)
    BY <1>1, TypedParts DEF RowsTyped, Member
  <2>2. QED
    BY <2>1 DEF Memberships
<1>3. Policy!Leave(g, u)
  BY <1>1, <1>2, Frames DEF Policy!Leave, There, Past, Memberships, Grantings, Makers
<1>4. QED
  BY <1>3 DEF PolicyStep, Policy!Next

LEMMA GrantsStep ==
  ASSUME Typed, NEW p \in Principals, NEW t \in Tokens, NEW a \in Users \union {NoUser},
         Grants(p, t, a), UNCHANGED <<users, name, added, owner>>
  PROVE  PolicyStep
<1>0. RowsTyped
  BY TypedParts
<1>1. CASE UNCHANGED granted
  BY <1>1, Frames, Stutters DEF SameRights
<1>2. CASE ~UNCHANGED granted
  <2>1. /\ Present(p) /\ Made(t) /\ ~Granted(p, t)
        /\ \A r \in Principals, s \in Tokens :
             granted'[r][s] # NoUser <=> (r = p /\ s = t) \/ Granted(r, s)
    BY <1>0, <1>2, GrantsOne
  <2>2. p \in users \union There
    BY <2>1 DEF Present, There, Principals
  <2>3. <<owner[t], t>> \in Makers
    BY <1>0, <2>1 DEF RowsTyped, Makers, Made
  <2>4. t \in {m[2] : m \in Makers}
    BY <2>3
  <2>5. <<p, t>> \notin Grantings
    BY <2>1 DEF Grantings
  <2>6. Grantings' = Grantings \union {<<p, t>>}
    BY <2>1 DEF Grantings, Granted
  <2>7. Policy!Allow(p, t)
    BY <2>2, <2>4, <2>5, <2>6, Frames
       DEF Policy!Allow, Policy!Principals, Policy!Made, There, Past, Memberships, Grantings,
           Makers
  <2>8. QED
    BY <2>7 DEF PolicyStep, Policy!Next, Principals
<1>3. QED
  BY <1>1, <1>2

LEMMA RevokeStep ==
  ASSUME Typed, NEW a \in Users, NEW p \in Principals, NEW t \in Tokens,
         revokeAccess(a, p, t)
  PROVE  PolicyStep
<1>1. /\ granted' = [granted EXCEPT ![p][t] = NoUser]
      /\ UNCHANGED <<users, name, added, owner>>
  BY DEF revokeAccess
<1>2. Grantings' = Grantings \ {<<p, t>>}
  <2>1. \A r \in Principals, s \in Tokens :
          Granted(r, s)' <=> ~(r = p /\ s = t) /\ Granted(r, s)
    BY <1>1, TypedParts DEF RowsTyped, Granted
  <2>2. QED
    BY <2>1 DEF Grantings
<1>3. Policy!Withdraw(p, t)
  BY <1>1, <1>2, Frames DEF Policy!Withdraw, There, Past, Memberships, Grantings, Makers
<1>4. QED
  BY <1>3 DEF PolicyStep, Policy!Next, Principals

LEMMA InsertTokenStep ==
  ASSUME Typed, OneCreator, NEW q \in Calls, insertToken(q)
  PROVE  PolicyStep
<1>0. RowsTyped
  BY TypedParts
<1>1. PICK a, t : a = call[q].actor /\ t = call[q].token
  OBVIOUS
<1>2. t \in Tokens /\ owner[t] = NoUser
  BY <1>1, Fields DEF insertToken, OneCreator, Made
<1>3. UNCHANGED <<users, name, added, granted>>
  BY DEF insertToken
<1>4. CASE a \notin users
  BY <1>1, <1>3, <1>4, Frames, Stutters DEF SameRights, insertToken
<1>5. CASE a \in users
  <2>1. owner' = [owner EXCEPT ![t] = a]
    BY <1>1, <1>5 DEF insertToken
  <2>2. a \in Users /\ a # NoUser /\ NoUser \notin Users
    BY <1>0, <1>5, ConstantsAssumption DEF RowsTyped, Principals
  <2>3. t \notin {m[2] : m \in Makers}
    BY <1>2, <2>2 DEF Makers
  <2>4. Makers' = Makers \union {<<a, t>>}
    <3>1. owner'[t] = a /\ \A s \in Tokens \ {t} : owner'[s] = owner[s]
      BY <1>0, <1>2, <2>1 DEF RowsTyped
    <3>2. QED
      BY <1>2, <2>2, <3>1 DEF Makers
  <2>5. Policy!Make(a, t)
    BY <1>3, <1>5, <2>3, <2>4, Frames
       DEF Policy!Make, Policy!Made, There, Past, Memberships, Grantings, Makers
  <2>6. QED
    BY <1>2, <2>2, <2>5 DEF PolicyStep, Policy!Next
<1>6. QED
  BY <1>4, <1>5

LEMMA DeleteUserStep ==
  ASSUME Typed, NEW u \in Users, deleteUser(u)
  PROVE  PolicyStep
<1>0. RowsTyped
  BY TypedParts
<1>1. /\ u \in users /\ WroteNothing(u) /\ users' = users \ {u}
      /\ added' = [g \in Groups |-> [added[g] EXCEPT ![u] = NoUser]]
      /\ granted' = [granted EXCEPT ![u] = [t \in Tokens |-> NoUser]]
      /\ UNCHANGED <<name, owner>>
  BY DEF deleteUser
<1>2. \A m \in Makers : m[1] # u
  BY <1>1 DEF WroteNothing, Makers
<1>3. Memberships' = {m \in Memberships : m[2] # u}
  <2>1. \A g \in Groups, v \in Users : Member(g, v)' <=> v # u /\ Member(g, v)
    BY <1>0, <1>1 DEF RowsTyped, Member
  <2>2. QED
    BY <2>1 DEF Memberships
<1>4. Grantings' = {m \in Grantings : m[1] # u}
  <2>1. u \in Principals
    BY DEF Principals
  <2>2. \A p \in Principals, t \in Tokens : Granted(p, t)' <=> p # u /\ Granted(p, t)
    BY <1>0, <1>1, <2>1 DEF RowsTyped, Granted
  <2>3. QED
    BY <2>2 DEF Grantings
<1>5. Policy!Depart(u)
  BY <1>1, <1>2, <1>3, <1>4, Frames
     DEF Policy!Depart, There, Past, Memberships, Grantings, Makers
<1>6. QED
  BY <1>5 DEF PolicyStep, Policy!Next

LEMMA StepImplements ==
  ASSUME IInv, [Next]_vars
  PROVE  PolicyStep
<1>0. Typed /\ OneCreator
  BY DEF IInv
<1>1. ASSUME UNCHANGED rows PROVE PolicyStep
  BY <1>1, RowsFrame
<1>2. ASSUME NEW q \in Calls, CallStep(q) PROVE PolicyStep
  <2>1. CASE check(q) \/ insertGroupFails(q) \/ syncDone(q) \/ answerCreated(q) \/ callFails(q)
    BY <1>1, <2>1 DEF check, insertGroupFails, syncDone, answerCreated, callFails
  <2>2. CASE (\E g \in Groups : insertGroup(q, g)) \/ updateGroup(q) \/ insertMember(q)
    BY <1>0, <2>2, InsertGroupStep, UpdateGroupStep, InsertMemberStep
  <2>3. CASE insertGrant(q)
    <3>1. /\ call[q].to \in Principals /\ call[q].token \in Tokens
          /\ call[q].actor \in Users \union {NoUser}
      BY <1>0, <2>3, Fields DEF insertGrant, Finally
    <3>2. QED
      BY <1>0, <2>3, <3>1, GrantsStep DEF insertGrant
  <2>4. CASE insertToken(q)
    BY <1>0, <2>4, InsertTokenStep
  <2>5. ASSUME NEW p \in Principals, NEW ok \in BOOLEAN, grantNext(q, p, ok) PROVE PolicyStep
    <3>1. call[q].token \in Tokens /\ call[q].actor \in Users \union {NoUser}
      BY <1>0, <2>5, Fields DEF grantNext
    <3>2. CASE ok
      BY <1>0, <2>5, <3>1, <3>2, GrantsStep DEF grantNext
    <3>3. CASE ~ok
      BY <1>1, <2>5, <3>3 DEF grantNext, rows
    <3>4. QED
      BY <3>2, <3>3
  <2>6. QED
    BY <1>2, <2>1, <2>2, <2>3, <2>4, <2>5 DEF CallStep
<1>3. ASSUME NEW a \in Users, NEW g \in Groups, deleteGroup(a, g) PROVE PolicyStep
  BY <1>0, <1>3, DeleteGroupStep
<1>4. ASSUME NEW a \in Users, NEW g \in Groups, NEW u \in Users, removeMember(a, g, u)
      PROVE  PolicyStep
  BY <1>0, <1>4, RemoveMemberStep
<1>5. ASSUME NEW a \in Users, NEW p \in Principals, NEW t \in Tokens, revokeAccess(a, p, t)
      PROVE  PolicyStep
  BY <1>0, <1>5, RevokeStep
<1>6. ASSUME NEW u \in Users, deleteUser(u) PROVE PolicyStep
  BY <1>0, <1>6, DeleteUserStep
<1>7. ASSUME NEW q \in Calls, NEW a \in Users, CallBegins(q, a) PROVE PolicyStep
  BY <1>1, <1>7, EveryCallOpens DEF Opens
<1>8. ASSUME UNCHANGED vars PROVE PolicyStep
  BY <1>1, <1>8 DEF vars
<1>9. ASSUME Next PROVE PolicyStep
  BY <1>2, <1>3, <1>4, <1>5, <1>6, <1>7, <1>9 DEF Next
<1>10. QED
  BY <1>8, <1>9

LEMMA InitImplements == Init => Policy!Init
<1> SUFFICES ASSUME Init PROVE Policy!Init
  OBVIOUS
<1>1. There = {} /\ Past = {}
  BY ConstantsAssumption DEF Init, There, Past, Exists
<1>2. Memberships = {} /\ Grantings = {}
  BY DEF Init, Memberships, Grantings, Member, Granted
<1>3. Makers = {}
  BY ConstantsAssumption DEF Init, Makers, Principals
<1>4. users = Users
  BY DEF Init
<1>5. QED
  BY <1>1, <1>2, <1>3, <1>4
     DEF Policy!Init, There, Past, Memberships, Grantings, Makers

\* Every statement of the handlers is a step of AccessPolicy or none at all,
\* whatever is deleted between two of them (groups.ts:285-309, tokens.ts:387-410).
THEOREM Refinement == Spec => ImplementsAccessPolicy
<1>1. Init => Policy!Init
  BY InitImplements
<1>2. IInv /\ [Next]_vars => [Policy!Next]_(Policy!policyVars)
  BY StepImplements DEF PolicyStep
<1>3. QED
  BY <1>1, <1>2, AccessInvariant, PTL DEF Spec, ImplementsAccessPolicy, Policy!Spec
===============================================================================
