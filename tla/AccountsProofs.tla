----------------------------- MODULE AccountsProofs -----------------------------
(***************************************************************************)
(* Theorems about Accounts, for any number of users, authenticators,       *)
(* challenges and calls.                                                   *)
(***************************************************************************)
EXTENDS Accounts, TLAPS

-------------------------------------------------------------------------------
\* Calls as records.

LEMMA IdleFacts ==
  /\ Idle \in CallRecords /\ Ready(Idle)
  /\ Idle.step = "idle" /\ Idle.user = NoUser /\ Idle.chal = 0
BY ConstantsAssumption DEF Idle, CallRecords, Steps, Ready

\* What every step of call q does to the calls.
Moved(q) ==
  /\ call' \in [Calls -> CallRecords]
  /\ Operands'
  /\ \A r \in Calls \ {q} : call'[r] = call[r]

LEMMA BeginMoves ==
  ASSUME Typed, NEW q \in Calls, NEW c \in CallRecords, Ready(c), Begin(q, c)
  PROVE  Moved(q) /\ call[q] = Idle /\ call'[q] = c
BY DEF Typed, TypeOK, Operands, Begin, Moved

LEMMA DoneMoves ==
  ASSUME Typed, NEW q \in Calls, Done(q)
  PROVE  Moved(q) /\ call'[q] = Idle
BY IdleFacts DEF Typed, TypeOK, Operands, Done, Moved

\* A step that only names the next one.
LEMMA StepMoves ==
  ASSUME Typed, NEW q \in Calls, NEW s \in Steps, Step(q, s),
         s \in {"countCredentials", "deleteChallenge", "openSession"} => call[q].user \in Users,
         s = "deleteChallenge" => call[q].chal \in Numbers,
         s \in {"cleanup", "insertChallenge", "countCredentials", "deleteChallenge", "openSession"}
  PROVE  /\ Moved(q) /\ call'[q].step = s
         /\ call'[q].user = call[q].user /\ call'[q].chal = call[q].chal
<1>1. call[q] \in CallRecords /\ call \in [Calls -> CallRecords]
  BY DEF Typed, TypeOK
<1> DEFINE c == [call[q] EXCEPT !.step = s]
<1>2. c \in CallRecords /\ c.step = s /\ c.user = call[q].user /\ c.chal = call[q].chal
  BY <1>1 DEF CallRecords
<1>3. Ready(c)
  BY <1>2 DEF Ready
<1>4. call' = [call EXCEPT ![q] = c]
  BY DEF Step
<1> HIDE DEF c
<1>5. QED
  BY <1>1, <1>2, <1>3, <1>4 DEF Moved, Operands, Typed

\* Where a call holds nothing.
Free == {"idle", "countCredentials", "cleanup", "insertChallenge", "openSession",
         "selectChallenges", "insertUser"}

-------------------------------------------------------------------------------
\* What each statement of a call does to the call.

LEMMA CountUsersMoves ==
  ASSUME Typed, NEW q \in Calls, NEW via \in {"setup", "form"}, countUsers(q, via)
  PROVE  Moved(q) /\ call[q] = Idle /\ call'[q].step = "insertFirst"
<1> DEFINE c == [Idle EXCEPT !.step = "insertFirst", !.via = via]
<1>1. c \in CallRecords /\ Ready(c) /\ c.step = "insertFirst"
  BY IdleFacts, ConstantsAssumption DEF CallRecords, Steps, Ready, Numbers
<1> HIDE DEF c
<1>2. QED
  BY <1>1, BeginMoves DEF countUsers, c

LEMMA InsertFirstMoves ==
  ASSUME Typed, NEW q \in Calls, NEW u \in Users, insertFirst(q, u)
  PROVE  Moved(q) /\ call'[q].step \in {"idle", "cleanup"}
<1>1. CASE call[q].via = "setup"
  BY <1>1, DoneMoves, IdleFacts DEF insertFirst
<1>2. CASE call[q].via # "setup"
  <2> DEFINE c == [call[q] EXCEPT !.step = "cleanup", !.user = u]
  <2>1. call[q] \in CallRecords /\ call \in [Calls -> CallRecords]
    BY DEF Typed, TypeOK
  <2>2. c \in CallRecords /\ Ready(c) /\ c.step = "cleanup"
    BY <2>1 DEF CallRecords, Steps, Ready
  <2>3. call' = [call EXCEPT ![q] = c]
    BY <1>2, <2>1 DEF insertFirst, CallRecords
  <2> HIDE DEF c
  <2>4. QED
    BY <2>1, <2>2, <2>3 DEF Moved, Operands, Typed
<1>3. QED
  BY <1>1, <1>2

LEMMA SelectByNameMoves ==
  ASSUME Typed, NEW q \in Calls, NEW u \in Users, selectByName(q, u)
  PROVE  Moved(q) /\ call[q] = Idle /\ call'[q].step = "countCredentials"
<1> DEFINE c == [Idle EXCEPT !.step = "countCredentials", !.user = u]
<1>1. c \in CallRecords /\ Ready(c) /\ c.step = "countCredentials"
  BY IdleFacts, ConstantsAssumption DEF CallRecords, Steps, Ready, Numbers
<1> HIDE DEF c
<1>2. QED
  BY <1>1, BeginMoves DEF selectByName, c

LEMMA CountCredentialsMoves ==
  ASSUME Typed, NEW q \in Calls, countCredentials(q)
  PROVE  Moved(q) /\ call'[q].step \in {"idle", "cleanup"}
<1>1. CASE HasPasskey(call[q].user)
  BY <1>1, DoneMoves, IdleFacts DEF countCredentials
<1>2. CASE ~HasPasskey(call[q].user)
  BY <1>2, StepMoves DEF countCredentials, Steps
<1>3. QED
  BY <1>1, <1>2

LEMMA RegisterPasskeyMoves ==
  ASSUME Typed, NEW q \in Calls, NEW s \in sessions, registerPasskey(q, s)
  PROVE  Moved(q) /\ call[q] = Idle /\ call'[q].step = "cleanup"
<1> DEFINE c == [Idle EXCEPT !.step = "cleanup", !.user = s.user]
<1>1. s.user \in Users
  BY DEF Typed, TypeOK, Sessions
<1>2. c \in CallRecords /\ Ready(c) /\ c.step = "cleanup"
  BY IdleFacts, <1>1, ConstantsAssumption DEF CallRecords, Steps, Ready, Numbers
<1> HIDE DEF c
<1>3. QED
  BY <1>2, BeginMoves DEF registerPasskey, c

LEMMA LoginOptionsMoves ==
  ASSUME Typed, NEW q \in Calls, loginOptions(q)
  PROVE  Moved(q) /\ call[q] = Idle /\ call'[q].step = "cleanup"
<1> DEFINE c == [Idle EXCEPT !.step = "cleanup"]
<1>1. c \in CallRecords /\ Ready(c) /\ c.step = "cleanup"
  BY IdleFacts, ConstantsAssumption DEF CallRecords, Steps, Ready, Numbers
<1> HIDE DEF c
<1>2. QED
  BY <1>1, BeginMoves DEF loginOptions, c

LEMMA VerifyMoves ==
  ASSUME Typed, NEW q \in Calls, NEW u \in Users, NEW n \in Numbers, NEW c \in Creds,
         NEW via \in {"form", "session"}, verifyRegistration(q, u, n, c, via)
  PROVE  /\ Moved(q) /\ call[q] = Idle
         /\ call'[q].step = "insertCredential" /\ call'[q].chal = n
<1> DEFINE d == [Idle EXCEPT !.step = "insertCredential", !.via = via, !.user = u,
                             !.chal = n, !.cred = c]
<1>1. /\ d \in CallRecords /\ d.step = "insertCredential"
      /\ d.user = u /\ d.chal = n /\ d.cred = c
  <2>1. n \in 0 .. MaxChallenges
    BY ConstantsAssumption DEF Numbers
  <2>2. QED
    BY <2>1, IdleFacts DEF CallRecords, Steps
<1> HIDE DEF d
<1>2. Ready(d)
  BY <1>1 DEF Ready
<1>3. QED
  BY <1>1, <1>2, BeginMoves DEF verifyRegistration, d

LEMMA InsertCredentialMoves ==
  ASSUME Typed, NEW q \in Calls, insertCredential(q)
  PROVE  /\ Moved(q) /\ call[q].chal \in Numbers /\ call[q].user \in Users /\ call[q].cred \in Creds
         /\ IF owner[call[q].cred] = NoUser /\ Exists(call[q].user)
              THEN call'[q].step = "deleteChallenge" /\ call'[q].chal = call[q].chal
              ELSE call'[q] = Idle
<1>1. call[q].chal \in Numbers /\ call[q].user \in Users /\ call[q].cred \in Creds
  BY DEF Typed, Operands, Ready, insertCredential, At
<1>2. CASE owner[call[q].cred] = NoUser /\ Exists(call[q].user)
  <2>1. Step(q, "deleteChallenge")
    BY <1>2 DEF insertCredential
  <2>2. QED
    BY <1>1, <1>2, <2>1, StepMoves DEF Steps
<1>3. CASE ~(owner[call[q].cred] = NoUser /\ Exists(call[q].user))
  BY <1>1, <1>3, DoneMoves DEF insertCredential
<1>4. QED
  BY <1>1, <1>2, <1>3

LEMMA DeleteChallengeMoves ==
  ASSUME Typed, NEW q \in Calls, deleteChallenge(q)
  PROVE  /\ Moved(q) /\ call[q].chal \in Numbers
         /\ call'[q].step \in {"idle", "openSession"}
<1>1. call[q].chal \in Numbers /\ call[q].user \in Users
  BY DEF Typed, Operands, Ready, deleteChallenge, At
<1>2. CASE call[q].via = "session"
  BY <1>1, <1>2, DoneMoves, IdleFacts DEF deleteChallenge
<1>3. CASE call[q].via # "session"
  <2>1. Step(q, "openSession")
    BY <1>3 DEF deleteChallenge
  <2>2. QED
    BY <1>1, <2>1, StepMoves DEF Steps
<1>4. QED
  BY <1>2, <1>3

LEMMA SelectCredentialMoves ==
  ASSUME Typed, NEW q \in Calls, NEW c \in Creds, selectCredential(q, c)
  PROVE  Moved(q) /\ call[q] = Idle /\ call'[q].step = "selectChallenges"
<1> DEFINE d == [Idle EXCEPT !.step = "selectChallenges", !.via = "login",
                             !.user = owner[c], !.cred = c]
<1>1. owner[c] \in Users
  BY DEF Typed, TypeOK, selectCredential
<1>2. d \in CallRecords /\ d.step = "selectChallenges" /\ d.user = owner[c]
  BY IdleFacts, <1>1 DEF CallRecords, Steps
<1> HIDE DEF d
<1>3. Ready(d)
  BY <1>1, <1>2 DEF Ready
<1>4. QED
  BY <1>2, <1>3, BeginMoves DEF selectCredential, d

LEMMA SelectChallengesMoves ==
  ASSUME Typed, NEW q \in Calls, NEW n \in Numbers, selectChallenges(q, n)
  PROVE  Moved(q) /\ call'[q].step = "updateCounter" /\ call'[q].chal = n
<1> DEFINE c == [call[q] EXCEPT !.step = "updateCounter", !.chal = n]
<1>1. call[q] \in CallRecords /\ call \in [Calls -> CallRecords] /\ call[q].user \in Users
  BY DEF Typed, TypeOK, Operands, Ready, selectChallenges, At
<1>2. /\ c \in CallRecords /\ c.step = "updateCounter" /\ c.chal = n
      /\ c.user = call[q].user
  <2>1. n \in 0 .. MaxChallenges
    BY ConstantsAssumption DEF Numbers
  <2>2. QED
    BY <1>1, <2>1 DEF CallRecords, Steps
<1>3. call' = [call EXCEPT ![q] = c]
  BY <1>1 DEF selectChallenges, CallRecords
<1> HIDE DEF c
<1>4. Ready(c)
  BY <1>1, <1>2 DEF Ready
<1>5. QED
  BY <1>1, <1>2, <1>3, <1>4 DEF Moved, Operands, Typed

LEMMA UpdateCounterMoves ==
  ASSUME Typed, NEW q \in Calls, updateCounter(q)
  PROVE  /\ Moved(q) /\ call[q].chal \in Numbers
         /\ call'[q].step = "deleteChallenge" /\ call'[q].chal = call[q].chal
<1>1. call[q].chal \in Numbers /\ call[q].user \in Users
  BY DEF Typed, Operands, Ready, updateCounter, At
<1>2. QED
  BY <1>1, StepMoves DEF updateCounter, Steps

LEMMA CreateUserMoves ==
  ASSUME Typed, NEW q \in Calls, NEW s \in sessions, NEW r \in Roles, createUser(q, s, r)
  PROVE  Moved(q) /\ call[q] = Idle /\ call'[q].step = "insertUser"
<1> DEFINE c == [Idle EXCEPT !.step = "insertUser", !.role = r]
<1>1. c \in CallRecords /\ Ready(c) /\ c.step = "insertUser"
  BY IdleFacts, ConstantsAssumption DEF CallRecords, Steps, Ready, Numbers
<1> HIDE DEF c
<1>2. QED
  BY <1>1, BeginMoves DEF createUser, c

LEMMA InsertUserMoves ==
  ASSUME Typed, NEW q \in Calls, NEW u \in Users, insertUser(q, u)
  PROVE  /\ Moved(q) /\ call[q].role \in Roles
         /\ call'[q].step = "insertInvite" /\ call'[q].user = u
<1> DEFINE c == [call[q] EXCEPT !.step = "insertInvite", !.user = u]
<1>1. call[q] \in CallRecords /\ call \in [Calls -> CallRecords] /\ call[q].role \in Roles
  BY DEF Typed, TypeOK, Operands, Ready, insertUser, At
<1>2. c \in CallRecords /\ Ready(c) /\ c.step = "insertInvite" /\ c.user = u
  BY <1>1 DEF CallRecords, Steps, Ready
<1>3. call' = [call EXCEPT ![q] = c]
  BY <1>1 DEF insertUser, CallRecords
<1> HIDE DEF c
<1>4. QED
  BY <1>1, <1>2, <1>3 DEF Moved, Operands, Typed

LEMMA AcceptInviteMoves ==
  ASSUME Typed, NEW q \in Calls, NEW u \in Users, acceptInvite(q, u)
  PROVE  /\ Moved(q) /\ call[q] = Idle
         /\ call'[q].step = "markUsed" /\ call'[q].user = u
<1> DEFINE c == [Idle EXCEPT !.step = "markUsed", !.user = u, !.role = role[u]]
<1>1. role[u] \in Roles
  BY DEF Typed, TypeOK, acceptInvite, Exists
<1>2. c \in CallRecords /\ Ready(c) /\ c.step = "markUsed" /\ c.user = u
  BY IdleFacts, <1>1, ConstantsAssumption DEF CallRecords, Steps, Ready, Numbers
<1> HIDE DEF c
<1>3. QED
  BY <1>2, BeginMoves DEF acceptInvite, c

LEMMA CleanupMoves ==
  ASSUME Typed, NEW q \in Calls, cleanupExpiredChallenges(q)
  PROVE  Moved(q) /\ call'[q].step = "insertChallenge"
BY StepMoves DEF cleanupExpiredChallenges, Steps

\* The statements after which a call is over.
LEMMA EndMoves ==
  ASSUME Typed, NEW q \in Calls,
         \/ insertChallenge(q) \/ insertLoginChallenge(q) \/ openSession(q)
         \/ insertInvite(q) \/ markUsed(q) \/ callFails(q)
  PROVE  Moved(q) /\ call'[q] = Idle
BY DoneMoves DEF insertChallenge, insertLoginChallenge, openSession, insertInvite,
   markUsed, callFails

LEMMA CallStepMoves ==
  ASSUME Typed, NEW q \in Calls, CallStep(q)
  PROVE  Moved(q)
<1>1. ASSUME NEW via \in {"setup", "form"}, countUsers(q, via) PROVE Moved(q)
  BY <1>1, CountUsersMoves
<1>2. ASSUME NEW u \in Users,
             insertFirst(q, u) \/ selectByName(q, u) \/ insertUser(q, u) \/ acceptInvite(q, u)
      PROVE  Moved(q)
  BY <1>2, InsertFirstMoves, SelectByNameMoves, InsertUserMoves, AcceptInviteMoves
<1>3. ASSUME NEW s \in sessions,
             registerPasskey(q, s) \/ \E r \in Roles : createUser(q, s, r)
      PROVE  Moved(q)
  BY <1>3, RegisterPasskeyMoves, CreateUserMoves
<1>4. ASSUME NEW n \in Numbers, NEW c \in Creds,
             \/ \E u \in Users : register(q, u, n, c)
             \/ \E s \in sessions : registerPasskeyVerify(q, s, n, c)
      PROVE  Moved(q)
  <2>1. \A s \in sessions : s.user \in Users
    BY DEF Typed, TypeOK, Sessions
  <2>2. QED
    BY <1>4, <2>1, VerifyMoves DEF register, registerPasskeyVerify
<1>5. ASSUME NEW c \in Creds, selectCredential(q, c) PROVE Moved(q)
  BY <1>5, SelectCredentialMoves
<1>6. ASSUME NEW n \in Numbers, selectChallenges(q, n) PROVE Moved(q)
  BY <1>6, SelectChallengesMoves
<1>7. ASSUME \/ countCredentials(q) \/ loginOptions(q) \/ cleanupExpiredChallenges(q)
             \/ insertChallenge(q) \/ insertLoginChallenge(q) \/ insertCredential(q)
             \/ deleteChallenge(q) \/ openSession(q) \/ updateCounter(q)
             \/ insertInvite(q) \/ markUsed(q) \/ callFails(q)
      PROVE  Moved(q)
  BY <1>7, CountCredentialsMoves, LoginOptionsMoves, CleanupMoves, InsertCredentialMoves,
     DeleteChallengeMoves, UpdateCounterMoves, EndMoves
<1>8. QED
  BY <1>1, <1>2, <1>3, <1>4, <1>5, <1>6, <1>7 DEF CallStep

-------------------------------------------------------------------------------
\* The types of everything else.
RowsTyped ==
  /\ role \in [Users -> Roles \union {NoRole}]
  /\ invite \in [Users -> {"none", "open", "used", "expired"}]
  /\ owner \in [Creds -> Users \union {NoUser}]
  /\ challenge \in [Numbers -> ChallengeRows]
  /\ sessions \subseteq Sessions
HistoryTyped ==
  /\ deleted \subseteq Users /\ founders \subseteq Users /\ halfMade \subseteq Users
  /\ taken \subseteq Items /\ reused \subseteq Items /\ contended \subseteq Items
  /\ overreach \in BOOLEAN

LEMMA TypeParts == TypeOK <=> RowsTyped /\ HistoryTyped /\ call \in [Calls -> CallRecords]
BY DEF TypeOK, RowsTyped, HistoryTyped

LEMMA TypePartsNext ==
  RowsTyped' /\ HistoryTyped' /\ call' \in [Calls -> CallRecords] => TypeOK'
BY DEF TypeOK, RowsTyped, HistoryTyped

LEMMA ItemTypes ==
  /\ Setup \in Items
  /\ \A u \in Users : InviteOf(u) \in Items
  /\ \A n \in Numbers : Challenge(n) \in Items
BY DEF Items

\* Rows that a new challenge and a session of a present role fit in.
LEMMA NewChallengeType ==
  ASSUME RowsTyped, NEW u \in Users \union {NoUser}, newChallenge(u)
  PROVE  challenge' \in [Numbers -> ChallengeRows]
<1>1. [user |-> u, state |-> "valid"] \in ChallengeRows
  BY DEF ChallengeRows
<1>2. QED
  BY <1>1 DEF RowsTyped, newChallenge

LEMMA SessionType ==
  ASSUME NEW u \in Users, NEW r \in Roles
  PROVE  createSession(u, r) \in Sessions
BY DEF createSession, Sessions

\* Calls that only read, or read what they will use.
LEMMA ReadTypes ==
  ASSUME Typed, UNCHANGED <<rows, sessions, deleted, founders, halfMade, taken, reused, overreach>>,
         contended' = contended \/ \E x \in Items : Contend(x)
  PROVE  RowsTyped' /\ HistoryTyped'
<1>1. RowsTyped /\ HistoryTyped
  BY TypeParts DEF Typed
<1>2. contended' \subseteq Items
  BY <1>1 DEF HistoryTyped, Contend
<1>3. QED
  BY <1>1, <1>2 DEF RowsTyped, HistoryTyped, rows

LEMMA QuietTypes ==
  ASSUME Typed, UNCHANGED <<rows, sessions, history>>
  PROVE  RowsTyped' /\ HistoryTyped'
BY ReadTypes DEF history

LEMMA UserTypes ==
  ASSUME Typed, NEW q \in Calls, NEW u \in Users,
         \/ insertFirst(q, u) \/ insertUser(q, u)
  PROVE  RowsTyped' /\ HistoryTyped'
<1>1. RowsTyped /\ HistoryTyped
  BY TypeParts DEF Typed
<1>2. CASE insertFirst(q, u)
  <2>1. sessions' \subseteq sessions \union {createSession(u, "admin")}
    BY <1>2 DEF insertFirst
  <2>2. role' \in [Users -> Roles \union {NoRole}] /\ sessions' \subseteq Sessions
    BY <1>1, <1>2, <2>1, SessionType, ConstantsAssumption DEF RowsTyped, insertFirst
  <2>3. founders' \subseteq Users /\ reused' \subseteq Items
    BY <1>1, <1>2, ItemTypes DEF HistoryTyped, insertFirst
  <2>4. UNCHANGED <<invite, owner, challenge, deleted, halfMade, taken, contended, overreach>>
    BY <1>2 DEF insertFirst
  <2>5. QED
    BY <1>1, <2>2, <2>3, <2>4 DEF RowsTyped, HistoryTyped
<1>3. CASE insertUser(q, u)
  <2>1. role' \in [Users -> Roles \union {NoRole}]
    BY <1>1, <1>3, InsertUserMoves DEF RowsTyped, insertUser
  <2>2. UNCHANGED <<invite, owner, challenge, sessions, history>>
    BY <1>3 DEF insertUser
  <2>3. QED
    BY <1>1, <2>1, <2>2 DEF RowsTyped, HistoryTyped, history
<1>4. QED
  BY <1>2, <1>3

LEMMA ChallengeTypes ==
  ASSUME Typed, NEW q \in Calls,
         \/ cleanupExpiredChallenges(q) \/ insertChallenge(q)
         \/ insertLoginChallenge(q) \/ deleteChallenge(q)
  PROVE  RowsTyped' /\ HistoryTyped'
<1>1. RowsTyped /\ HistoryTyped
  BY TypeParts DEF Typed
<1>2. UNCHANGED <<role, invite, owner, sessions, history>>
  BY DEF cleanupExpiredChallenges, insertChallenge, insertLoginChallenge, deleteChallenge
<1>3. [user |-> NoUser, state |-> "gone"] \in ChallengeRows
  BY DEF ChallengeRows
<1>4. challenge' \in [Numbers -> ChallengeRows]
  <2>1. CASE cleanupExpiredChallenges(q)
    BY <1>1, <1>3, <2>1 DEF cleanupExpiredChallenges, RowsTyped
  <2>2. CASE insertChallenge(q)
    <3>1. call[q].user \in Users \union {NoUser}
      BY DEF Typed, TypeOK, CallRecords
    <3>2. CASE newChallenge(call[q].user)
      BY <1>1, <3>1, <3>2, NewChallengeType
    <3>3. CASE UNCHANGED challenge
      BY <1>1, <3>3 DEF RowsTyped
    <3>4. QED
      BY <2>2, <3>2, <3>3 DEF insertChallenge
  <2>3. CASE insertLoginChallenge(q)
    BY <1>1, <2>3, NewChallengeType DEF insertLoginChallenge
  <2>4. CASE deleteChallenge(q)
    BY <1>1, <1>3, <2>4 DEF deleteChallenge, RowsTyped
  <2>5. QED
    BY <2>1, <2>2, <2>3, <2>4
<1>5. QED
  BY <1>1, <1>2, <1>4 DEF RowsTyped, HistoryTyped, history

LEMMA UseTypes ==
  ASSUME Typed, NEW q \in Calls, insertCredential(q) \/ updateCounter(q) \/ markUsed(q)
  PROVE  RowsTyped' /\ HistoryTyped'
<1>1. RowsTyped /\ HistoryTyped
  BY TypeParts DEF Typed
<1>2. CASE insertCredential(q)
  <2>1. owner' \in [Creds -> Users \union {NoUser}]
    BY <1>1, <1>2, InsertCredentialMoves DEF RowsTyped, insertCredential
  <2>2. taken' \subseteq Items /\ reused' \subseteq Items
    BY <1>1, <1>2, InsertCredentialMoves, ItemTypes DEF HistoryTyped, insertCredential, Use
  <2>3. UNCHANGED <<role, invite, challenge, sessions, deleted, founders, halfMade,
                    contended, overreach>>
    BY <1>2 DEF insertCredential
  <2>4. QED
    BY <1>1, <2>1, <2>2, <2>3 DEF RowsTyped, HistoryTyped
<1>3. CASE updateCounter(q)
  <2>1. taken' \subseteq Items /\ reused' \subseteq Items
    BY <1>1, <1>3, UpdateCounterMoves, ItemTypes DEF HistoryTyped, updateCounter, Use
  <2>2. UNCHANGED <<rows, sessions, deleted, founders, halfMade, contended, overreach>>
    BY <1>3 DEF updateCounter
  <2>3. QED
    BY <1>1, <2>1, <2>2 DEF RowsTyped, HistoryTyped, rows
<1>4. CASE markUsed(q)
  <2>1. call[q].user \in Users /\ call[q].role \in Roles
    BY <1>4 DEF Typed, Operands, Ready, markUsed, At
  <2>2. invite' \in [Users -> {"none", "open", "used", "expired"}]
    BY <1>1, <1>4 DEF RowsTyped, markUsed
  <2>3. sessions' \subseteq Sessions
    BY <1>1, <1>4, <2>1, SessionType DEF RowsTyped, markUsed
  <2>4. taken' \subseteq Items /\ reused' \subseteq Items
    BY <1>1, <1>4, <2>1, ItemTypes DEF HistoryTyped, markUsed, Use
  <2>5. UNCHANGED <<role, owner, challenge, deleted, founders, halfMade, contended, overreach>>
    BY <1>4 DEF markUsed
  <2>6. QED
    BY <1>1, <2>2, <2>3, <2>4, <2>5 DEF RowsTyped, HistoryTyped
<1>5. QED
  BY <1>2, <1>3, <1>4

LEMMA EndTypes ==
  ASSUME Typed, NEW q \in Calls, openSession(q) \/ insertInvite(q) \/ callFails(q)
  PROVE  RowsTyped' /\ HistoryTyped'
<1>1. RowsTyped /\ HistoryTyped
  BY TypeParts DEF Typed
<1>2. CASE openSession(q)
  <2>1. call[q].user \in Users
    BY <1>2 DEF Typed, Operands, Ready, openSession, At
  <2>2. Exists(call[q].user) => createSession(call[q].user, role[call[q].user]) \in Sessions
    BY <1>1, <2>1, SessionType DEF RowsTyped, Exists
  <2>3. sessions' \subseteq Sessions
    BY <1>1, <1>2, <2>2 DEF RowsTyped, openSession
  <2>4. UNCHANGED <<rows, history>>
    BY <1>2 DEF openSession
  <2>5. QED
    BY <1>1, <2>3, <2>4 DEF RowsTyped, HistoryTyped, rows, history
<1>3. CASE insertInvite(q)
  <2>1. invite' \in [Users -> {"none", "open", "used", "expired"}]
    BY <1>1, <1>3 DEF RowsTyped, insertInvite
  <2>2. UNCHANGED <<role, owner, challenge, sessions, history>>
    BY <1>3 DEF insertInvite
  <2>3. QED
    BY <1>1, <2>1, <2>2 DEF RowsTyped, HistoryTyped, history
<1>4. CASE callFails(q)
  <2>1. halfMade' \subseteq Users
    BY <1>1, <1>4 DEF Typed, Operands, Ready, HistoryTyped, callFails, At
  <2>2. contended' \subseteq Items
    BY <1>1, <1>4, ItemTypes DEF Typed, Operands, Ready, HistoryTyped, callFails, At
  <2>3. UNCHANGED <<rows, sessions, deleted, founders, taken, reused, overreach>>
    BY <1>4 DEF callFails
  <2>4. QED
    BY <1>1, <2>1, <2>2, <2>3 DEF RowsTyped, HistoryTyped, rows
<1>5. QED
  BY <1>2, <1>3, <1>4

LEMMA AdminTypes ==
  ASSUME Typed, NEW s \in sessions, NEW u \in Users,
         deleteUser(s, u) \/ \E r \in Roles : setRole(s, u, r)
  PROVE  RowsTyped' /\ HistoryTyped'
<1>1. RowsTyped /\ HistoryTyped
  BY TypeParts DEF Typed
<1>2. overreach' \in BOOLEAN
  BY <1>1 DEF HistoryTyped, deleteUser, setRole, Overreach
<1>3. CASE deleteUser(s, u)
  <2>1. /\ role' \in [Users -> Roles \union {NoRole}]
        /\ invite' \in [Users -> {"none", "open", "used", "expired"}]
        /\ owner' \in [Creds -> Users \union {NoUser}]
        /\ deleted' \subseteq Users
    BY <1>1, <1>3 DEF RowsTyped, HistoryTyped, deleteUser
  <2>2. UNCHANGED <<challenge, sessions, call, founders, halfMade, taken, reused, contended>>
    BY <1>3 DEF deleteUser
  <2>3. QED
    BY <1>1, <1>2, <2>1, <2>2 DEF RowsTyped, HistoryTyped
<1>4. CASE \E r \in Roles : setRole(s, u, r)
  <2>1. role' \in [Users -> Roles \union {NoRole}]
    BY <1>1, <1>4 DEF RowsTyped, setRole
  <2>2. UNCHANGED <<invite, owner, challenge, sessions, call, deleted, founders,
                    halfMade, taken, reused, contended>>
    BY <1>4 DEF setRole
  <2>3. QED
    BY <1>1, <1>2, <2>1, <2>2 DEF RowsTyped, HistoryTyped
<1>5. QED
  BY <1>3, <1>4

LEMMA TimeTypes ==
  ASSUME Typed,
         \/ \E s \in sessions : endSession(s)
         \/ \E u \in Users : expireInvite(u)
         \/ \E n \in Numbers : expireChallenge(n)
  PROVE  RowsTyped' /\ HistoryTyped'
<1>1. RowsTyped /\ HistoryTyped
  BY TypeParts DEF Typed
<1>2. CASE \E s \in sessions : endSession(s)
  BY <1>1, <1>2 DEF RowsTyped, HistoryTyped, endSession, rows, history
<1>3. CASE \E u \in Users : expireInvite(u)
  BY <1>1, <1>3 DEF RowsTyped, HistoryTyped, expireInvite, history
<1>4. CASE \E n \in Numbers : expireChallenge(n)
  <2>1. challenge' \in [Numbers -> ChallengeRows]
    BY <1>1, <1>4 DEF RowsTyped, ChallengeRows, expireChallenge
  <2>2. QED
    BY <1>1, <1>4, <2>1 DEF RowsTyped, HistoryTyped, expireChallenge, history
<1>5. QED
  BY <1>2, <1>3, <1>4

\* The steps that leave the calls alone.
Idly == \/ \E s \in sessions, u \in Users : deleteUser(s, u) \/ \E r \in Roles : setRole(s, u, r)
        \/ \E s \in sessions : endSession(s)
        \/ \E u \in Users : expireInvite(u)
        \/ \E n \in Numbers : expireChallenge(n)

LEMMA NextSplit == Next <=> (\E q \in Calls : CallStep(q)) \/ Idly
BY DEF Next, Idly

LEMMA IdlySame == Idly => UNCHANGED call
BY DEF Idly, deleteUser, setRole, endSession, expireInvite, expireChallenge

LEMMA CallStepTypes ==
  ASSUME Typed, NEW q \in Calls, CallStep(q)
  PROVE  RowsTyped' /\ HistoryTyped'
<1>1. ASSUME NEW via \in {"setup", "form"}, countUsers(q, via) PROVE RowsTyped' /\ HistoryTyped'
  BY <1>1, ReadTypes, ItemTypes DEF countUsers
<1>2. ASSUME NEW u \in Users, selectByName(q, u) PROVE RowsTyped' /\ HistoryTyped'
  BY <1>2, QuietTypes DEF selectByName
<1>3. ASSUME NEW u \in Users, insertFirst(q, u) \/ insertUser(q, u)
      PROVE  RowsTyped' /\ HistoryTyped'
  BY <1>3, UserTypes
<1>4. ASSUME NEW u \in Users, acceptInvite(q, u) PROVE RowsTyped' /\ HistoryTyped'
  BY <1>4, ReadTypes, ItemTypes DEF acceptInvite
<1>5. ASSUME NEW s \in sessions,
             registerPasskey(q, s) \/ \E r \in Roles : createUser(q, s, r)
      PROVE  RowsTyped' /\ HistoryTyped'
  BY <1>5, QuietTypes DEF registerPasskey, createUser
<1>6. ASSUME NEW n \in Numbers, NEW c \in Creds,
             \/ \E u \in Users : register(q, u, n, c)
             \/ \E s \in sessions : registerPasskeyVerify(q, s, n, c)
      PROVE  RowsTyped' /\ HistoryTyped'
  BY <1>6, ReadTypes, ItemTypes DEF register, registerPasskeyVerify, verifyRegistration
<1>7. ASSUME NEW c \in Creds, selectCredential(q, c) PROVE RowsTyped' /\ HistoryTyped'
  BY <1>7, QuietTypes DEF selectCredential
<1>8. ASSUME NEW n \in Numbers, selectChallenges(q, n) PROVE RowsTyped' /\ HistoryTyped'
  BY <1>8, ReadTypes, ItemTypes DEF selectChallenges
<1>9. ASSUME countCredentials(q) \/ loginOptions(q) PROVE RowsTyped' /\ HistoryTyped'
  BY <1>9, QuietTypes DEF countCredentials, loginOptions
<1>10. QED
  BY <1>1, <1>2, <1>3, <1>4, <1>5, <1>6, <1>7, <1>8, <1>9, ChallengeTypes, UseTypes, EndTypes
     DEF CallStep

LEMMA IdlyTypes == ASSUME Typed, Idly PROVE RowsTyped' /\ HistoryTyped'
BY AdminTypes, TimeTypes DEF Idly

LEMMA TypedKeeps == Typed /\ [Next]_vars => Typed'
<1> SUFFICES ASSUME Typed, [Next]_vars PROVE Typed'
  OBVIOUS
<1>1. CASE \E q \in Calls : CallStep(q)
  <2>1. RowsTyped' /\ HistoryTyped' /\ call' \in [Calls -> CallRecords] /\ Operands'
    BY <1>1, CallStepMoves, CallStepTypes DEF Moved
  <2>2. QED
    BY <2>1, TypePartsNext DEF Typed
<1>2. CASE Idly \/ UNCHANGED vars
  <2>1. RowsTyped' /\ HistoryTyped'
    BY <1>2, IdlyTypes, QuietTypes DEF vars
  <2>2. call' = call
    BY <1>2, IdlySame DEF vars
  <2>3. call' \in [Calls -> CallRecords] /\ Operands'
    BY <2>2 DEF Typed, TypeOK, Operands
  <2>4. QED
    BY <2>1, <2>3, TypePartsNext DEF Typed
<1>3. QED
  BY <1>1, <1>2, NextSplit

LEMMA InitTyped == Init => Typed
<1> SUFFICES ASSUME Init PROVE Typed
  OBVIOUS
<1>1. RowsTyped
  BY ConstantsAssumption DEF Init, RowsTyped, ChallengeRows, Sessions
<1>2. HistoryTyped
  BY DEF Init, HistoryTyped
<1>3. call \in [Calls -> CallRecords] /\ Operands
  BY IdleFacts DEF Init, Operands
<1>4. QED
  BY <1>1, <1>2, <1>3, TypeParts DEF Typed

-------------------------------------------------------------------------------
\* RowsAgree.

\* What stays in agreement if no user comes or goes.
LEMMA RowsFrame ==
  ASSUME Typed, RowsAgree, UNCHANGED <<role, invite, owner>>,
         \A n \in Numbers : challenge'[n].user \in {challenge[n].user, NoUser},
         founders \subseteq founders', halfMade \subseteq halfMade',
         \A u \in Users : (\E q \in Calls : InCreation(q, u)) =>
           u \in halfMade' \/ \E q \in Calls : InCreation(q, u)'
  PROVE  RowsAgree'
<1>1. \A u : Exists(u)' <=> Exists(u)
  BY DEF Exists
<1>2. QED
  BY <1>1 DEF RowsAgree

\* A call that neither begins nor ends the creation of a user.
LEMMA CreationKept ==
  ASSUME NEW q \in Calls, Moved(q), ~At(q, "insertInvite")
  PROVE  \A u : (\E r \in Calls : InCreation(r, u)) => \E r \in Calls : InCreation(r, u)'
BY DEF InCreation, At, Moved

LEMMA RowsQuiet ==
  ASSUME Typed, RowsAgree, NEW q \in Calls, Moved(q), ~At(q, "insertInvite"),
         UNCHANGED <<role, invite, owner, founders, halfMade>>,
         \A n \in Numbers : challenge'[n].user \in {challenge[n].user, NoUser}
  PROVE  RowsAgree'
BY CreationKept, RowsFrame

LEMMA RowsInsertFirst ==
  ASSUME Typed, RowsAgree, NEW q \in Calls, NEW u \in Users, insertFirst(q, u)
  PROVE  RowsAgree'
<1>1. Moved(q) /\ ~At(q, "insertInvite")
  BY InsertFirstMoves DEF insertFirst, At
<1>2. role \in [Users -> Roles \union {NoRole}]
  BY DEF Typed, TypeOK
<1>3. /\ \A v \in Users : Exists(v)' <=> v = u \/ Exists(v)
      /\ u \in founders' /\ founders \subseteq founders'
  BY <1>2, ConstantsAssumption DEF insertFirst, Exists
<1>4. UNCHANGED <<invite, owner, challenge, halfMade>>
  BY DEF insertFirst
<1>5. /\ \A c \in Creds : owner[c] \in Users \union {NoUser}
      /\ \A n \in Numbers : challenge[n].user \in Users \union {NoUser}
  BY DEF Typed, TypeOK, ChallengeRows
<1>6. QED
  BY <1>1, <1>3, <1>4, <1>5, CreationKept DEF RowsAgree

LEMMA RowsInsertUser ==
  ASSUME Typed, RowsAgree, NEW q \in Calls, NEW u \in Users, insertUser(q, u)
  PROVE  RowsAgree'
<1>1. Moved(q) /\ ~At(q, "insertInvite") /\ InCreation(q, u)'
  BY InsertUserMoves DEF insertUser, At, InCreation
<1>2. role \in [Users -> Roles \union {NoRole}] /\ call[q].role \in Roles
  BY InsertUserMoves DEF Typed, TypeOK
<1>3. \A v \in Users : Exists(v)' <=> v = u \/ Exists(v)
  BY <1>2, ConstantsAssumption DEF insertUser, Exists
<1>4. UNCHANGED <<invite, owner, challenge, founders, halfMade>>
  BY DEF insertUser, history
<1>5. /\ \A c \in Creds : owner[c] \in Users \union {NoUser}
      /\ \A n \in Numbers : challenge[n].user \in Users \union {NoUser}
  BY DEF Typed, TypeOK, ChallengeRows
<1>6. QED
  BY <1>1, <1>3, <1>4, <1>5, CreationKept DEF RowsAgree

LEMMA RowsNewChallenge ==
  ASSUME Typed, RowsAgree, NEW q \in Calls, insertChallenge(q) \/ insertLoginChallenge(q)
  PROVE  RowsAgree'
<1>1. Moved(q) /\ ~At(q, "insertInvite")
  BY EndMoves DEF insertChallenge, insertLoginChallenge, At
<1>2. UNCHANGED <<role, invite, owner, founders, halfMade>>
  BY DEF insertChallenge, insertLoginChallenge, history
<1>3. \A n \in Numbers : challenge'[n].user # NoUser => Exists(challenge'[n].user)
  <2>1. challenge \in [Numbers -> ChallengeRows]
    BY DEF Typed, TypeOK
  <2>2. \A n \in Numbers : challenge[n].user # NoUser => Exists(challenge[n].user)
    BY DEF RowsAgree
  <2>3. CASE UNCHANGED challenge
    BY <2>2, <2>3
  <2>4. ASSUME NEW u, newChallenge(u), u # NoUser => Exists(u)
        PROVE  \A n \in Numbers : challenge'[n].user # NoUser => Exists(challenge'[n].user)
    BY <2>1, <2>2, <2>4 DEF newChallenge
  <2>5. QED
    BY <2>3, <2>4 DEF insertChallenge, insertLoginChallenge
<1>4. \A u : Exists(u)' <=> Exists(u)
  BY <1>2 DEF Exists
<1>5. QED
  BY <1>1, <1>2, <1>3, <1>4, CreationKept DEF RowsAgree

LEMMA RowsInsertCredential ==
  ASSUME Typed, RowsAgree, NEW q \in Calls, insertCredential(q)
  PROVE  RowsAgree'
<1>1. Moved(q) /\ ~At(q, "insertInvite")
  BY InsertCredentialMoves DEF insertCredential, At
<1>2. UNCHANGED <<role, invite, challenge, founders, halfMade>>
  BY DEF insertCredential
<1>3. \A c \in Creds : owner'[c] # NoUser => Exists(owner'[c])
  BY DEF insertCredential, RowsAgree, Typed, TypeOK
<1>4. \A u : Exists(u)' <=> Exists(u)
  BY <1>2 DEF Exists
<1>5. QED
  BY <1>1, <1>2, <1>3, <1>4, CreationKept DEF RowsAgree

LEMMA RowsInsertInvite ==
  ASSUME Typed, RowsAgree, NEW q \in Calls, insertInvite(q)
  PROVE  RowsAgree'
<1>1. Moved(q)
  BY EndMoves
<1>2. UNCHANGED <<role, owner, challenge, founders, halfMade>> /\ \A u : Exists(u)' <=> Exists(u)
  BY DEF insertInvite, history, Exists
<1>3. invite \in [Users -> {"none", "open", "used", "expired"}]
  BY DEF Typed, TypeOK
<1>4. ASSUME NEW u \in Users
      PROVE  /\ invite'[u] # "none" => Exists(u)
             /\ Exists(u) /\ invite'[u] = "none" =>
                  /\ invite[u] = "none"
                  /\ ~InCreation(q, u)
  BY <1>3 DEF insertInvite, RowsAgree, InCreation
<1>5. \A u, r : r \in Calls \ {q} /\ InCreation(r, u) => InCreation(r, u)'
  BY <1>1 DEF InCreation, At, Moved
<1>6. QED
  BY <1>2, <1>4, <1>5 DEF RowsAgree

LEMMA RowsInvite ==
  ASSUME Typed, RowsAgree,
         \/ \E q \in Calls : markUsed(q)
         \/ \E u \in Users : expireInvite(u)
  PROVE  RowsAgree'
<1>1. UNCHANGED <<role, owner, challenge, founders, halfMade>> /\ \A u : Exists(u)' <=> Exists(u)
  BY DEF markUsed, expireInvite, history, Exists
<1>2. \A u \in Users : invite'[u] = "none" <=> invite[u] = "none"
  BY DEF markUsed, expireInvite, Typed, TypeOK
<1>3. \A u : (\E r \in Calls : InCreation(r, u)) => \E r \in Calls : InCreation(r, u)'
  <2>1. CASE \E u \in Users : expireInvite(u)
    BY <2>1 DEF expireInvite, InCreation, At
  <2>2. ASSUME NEW q \in Calls, markUsed(q)
        PROVE  \A u : (\E r \in Calls : InCreation(r, u)) => \E r \in Calls : InCreation(r, u)'
    BY <2>2, EndMoves, CreationKept DEF markUsed, At
  <2>3. QED
    BY <2>1, <2>2
<1>4. QED
  BY <1>1, <1>2, <1>3 DEF RowsAgree

LEMMA RowsCallFails ==
  ASSUME Typed, RowsAgree, NEW q \in Calls, callFails(q)
  PROVE  RowsAgree'
<1>1. Moved(q) /\ UNCHANGED <<role, invite, owner, challenge, founders>>
  BY EndMoves DEF callFails, rows
<1>2. halfMade \subseteq halfMade'
  BY DEF callFails
<1>3. ASSUME NEW u \in Users, NEW r \in Calls, InCreation(r, u)
      PROVE  u \in halfMade' \/ InCreation(r, u)'
  <2>1. CASE r = q
    BY <1>3, <2>1 DEF callFails, InCreation, At
  <2>2. CASE r # q
    BY <1>1, <1>3, <2>2 DEF InCreation, At, Moved
  <2>3. QED
    BY <2>1, <2>2
<1>4. QED
  BY <1>1, <1>2, <1>3, RowsFrame

\* What is deleted with a user, and what keeps the statement from succeeding.
LEMMA RowsDeleteUser ==
  ASSUME Typed, RowsAgree, NEW s \in sessions, NEW u \in Users, deleteUser(s, u)
  PROVE  RowsAgree'
<1>1. role \in [Users -> Roles \union {NoRole}]
  BY DEF Typed, TypeOK
<1>2. \A v \in Users : Exists(v)' <=> v # u /\ Exists(v)
  BY <1>1 DEF deleteUser, Exists
<1>3. /\ \A c \in Creds : owner'[c] \in {owner[c], NoUser} \ {u} /\ owner[c] \in Users \union {NoUser}
      /\ \A n \in Numbers : challenge'[n].user = challenge[n].user /\ challenge[n].user # u
                            /\ challenge[n].user \in Users \union {NoUser}
      /\ \A v \in Users : invite'[v] = IF v = u THEN "none" ELSE invite[v]
  BY ConstantsAssumption DEF deleteUser, Typed, TypeOK, ChallengeRows
<1>4. UNCHANGED <<call, founders, halfMade>> /\ \A q, v : InCreation(q, v)' <=> InCreation(q, v)
  BY DEF deleteUser, InCreation, At
<1>5. QED
  BY <1>2, <1>3, <1>4 DEF RowsAgree

LEMMA RowsSetRole ==
  ASSUME Typed, RowsAgree, NEW s \in sessions, NEW u \in Users, NEW r \in Roles, setRole(s, u, r)
  PROVE  RowsAgree'
<1>1. \A v \in Users : Exists(v)' <=> Exists(v)
  BY ConstantsAssumption DEF setRole, Exists, Typed, TypeOK
<1>2. UNCHANGED <<invite, owner, challenge, call, founders, halfMade>>
      /\ \A q, v : InCreation(q, v)' <=> InCreation(q, v)
  BY DEF setRole, InCreation, At
<1>3. /\ \A c \in Creds : owner[c] \in Users \union {NoUser}
      /\ \A n \in Numbers : challenge[n].user \in Users \union {NoUser}
  BY DEF Typed, TypeOK, ChallengeRows
<1>4. QED
  BY <1>1, <1>2, <1>3 DEF RowsAgree

-------------------------------------------------------------------------------
\* The calls by what their next statement does.
QuietCall(q) ==
  \/ countCredentials(q) \/ loginOptions(q)
  \/ \E u \in Users : selectByName(q, u)
  \/ \E s \in sessions : registerPasskey(q, s) \/ \E r \in Roles : createUser(q, s, r)
  \/ \E c \in Creds : selectCredential(q, c)

Verifies(q) ==
  \E u \in Users, n \in Numbers, c \in Creds, via \in {"form", "session"} :
    verifyRegistration(q, u, n, c, via)

ReadCall(q) ==
  \/ \E via \in {"setup", "form"} : countUsers(q, via)
  \/ \E u \in Users : acceptInvite(q, u)
  \/ Verifies(q)
  \/ \E n \in Numbers : selectChallenges(q, n)

WriteCall(q) ==
  \/ \E u \in Users : insertFirst(q, u) \/ insertUser(q, u)
  \/ cleanupExpiredChallenges(q) \/ insertChallenge(q) \/ insertLoginChallenge(q)
  \/ insertCredential(q) \/ deleteChallenge(q) \/ openSession(q) \/ updateCounter(q)
  \/ insertInvite(q) \/ markUsed(q) \/ callFails(q)

LEMMA CallStepSplit ==
  ASSUME Typed, NEW q \in Calls, CallStep(q)
  PROVE  QuietCall(q) \/ ReadCall(q) \/ WriteCall(q)
<1>1. \A s \in sessions : s.user \in Users
  BY DEF Typed, TypeOK, Sessions
<1>2. ASSUME NEW n \in Numbers, NEW c \in Creds,
             \/ \E u \in Users : register(q, u, n, c)
             \/ \E s \in sessions : registerPasskeyVerify(q, s, n, c)
      PROVE  Verifies(q)
  BY <1>1, <1>2 DEF register, registerPasskeyVerify, Verifies
<1>3. QED
  BY <1>2 DEF CallStep, QuietCall, ReadCall, WriteCall

LEMMA QuietFacts ==
  ASSUME Typed, NEW q \in Calls, QuietCall(q)
  PROVE  /\ Moved(q) /\ UNCHANGED <<rows, sessions, history>>
         /\ call[q].step \in Free /\ call'[q].step \in Free
         /\ call'[q].step = "insertUser" => sessions # {}
<1>1. UNCHANGED <<rows, sessions, history>>
  BY DEF QuietCall, countCredentials, loginOptions, selectByName, registerPasskey,
     createUser, selectCredential
<1>2. CASE countCredentials(q)
  BY <1>1, <1>2, CountCredentialsMoves DEF countCredentials, At, Free
<1>3. CASE loginOptions(q)
  BY <1>1, <1>3, LoginOptionsMoves, IdleFacts DEF Free
<1>4. CASE \E u \in Users : selectByName(q, u)
  BY <1>1, <1>4, SelectByNameMoves, IdleFacts DEF Free
<1>5. CASE \E s \in sessions : registerPasskey(q, s)
  BY <1>1, <1>5, RegisterPasskeyMoves, IdleFacts DEF Free
<1>6. CASE \E s \in sessions, r \in Roles : createUser(q, s, r)
  BY <1>1, <1>6, CreateUserMoves, IdleFacts DEF Free
<1>7. CASE \E c \in Creds : selectCredential(q, c)
  BY <1>1, <1>7, SelectCredentialMoves, IdleFacts DEF Free
<1>8. QED
  BY <1>2, <1>3, <1>4, <1>5, <1>6, <1>7 DEF QuietCall

LEMMA ReadFacts ==
  ASSUME Typed, NEW q \in Calls, ReadCall(q)
  PROVE  /\ Moved(q) /\ call[q].step \in Free
         /\ UNCHANGED <<rows, sessions, deleted, founders, halfMade, taken, reused, overreach>>
         /\ contended \subseteq contended'
         /\ call'[q].step \in {"insertFirst", "markUsed", "insertCredential", "updateCounter"}
         /\ call'[q].step = "markUsed" => \E u \in Users : Exists(u)
<1>1. CASE \E via \in {"setup", "form"} : countUsers(q, via)
  BY <1>1, CountUsersMoves, IdleFacts DEF countUsers, Contend, Free
<1>2. CASE \E u \in Users : acceptInvite(q, u)
  BY <1>2, AcceptInviteMoves, IdleFacts DEF acceptInvite, Contend, Free
<1>3. CASE Verifies(q)
  BY <1>3, VerifyMoves, IdleFacts DEF Verifies, verifyRegistration, Contend, Free
<1>4. CASE \E n \in Numbers : selectChallenges(q, n)
  BY <1>4, SelectChallengesMoves DEF selectChallenges, Contend, Free, At
<1>5. QED
  BY <1>1, <1>2, <1>3, <1>4 DEF ReadCall

LEMMA FreeIsFree ==
  ASSUME NEW q, call[q].step \in Free
  PROVE  ~At(q, "insertInvite") /\ ~At(q, "markUsed") /\ ~At(q, "deleteChallenge")
         /\ ~At(q, "insertFirst")
BY DEF Free, At

LEMMA RowsCallStep ==
  ASSUME Typed, RowsAgree, NEW q \in Calls, CallStep(q)
  PROVE  RowsAgree'
<1>1. CASE QuietCall(q)
  BY <1>1, QuietFacts, FreeIsFree, RowsQuiet DEF rows, history
<1>2. CASE ReadCall(q)
  BY <1>2, ReadFacts, FreeIsFree, RowsQuiet DEF rows
<1>3. CASE cleanupExpiredChallenges(q) \/ deleteChallenge(q)
  <2>1. Moved(q) /\ ~At(q, "insertInvite")
    BY <1>3, CleanupMoves, DeleteChallengeMoves DEF cleanupExpiredChallenges, deleteChallenge, At
  <2>2. UNCHANGED <<role, invite, owner, founders, halfMade>>
    BY <1>3 DEF cleanupExpiredChallenges, deleteChallenge, history
  <2>3. \A n \in Numbers : challenge'[n].user \in {challenge[n].user, NoUser}
    BY <1>3 DEF cleanupExpiredChallenges, deleteChallenge, Typed, TypeOK
  <2>4. QED
    BY <2>1, <2>2, <2>3, RowsQuiet
<1>4. CASE openSession(q) \/ updateCounter(q)
  <2>1. Moved(q) /\ ~At(q, "insertInvite")
    BY <1>4, EndMoves, UpdateCounterMoves DEF openSession, updateCounter, At
  <2>2. UNCHANGED <<role, invite, owner, challenge, founders, halfMade>>
    BY <1>4 DEF openSession, updateCounter, rows, history
  <2>3. QED
    BY <2>1, <2>2, RowsQuiet
<1>5. QED
  BY <1>1, <1>2, <1>3, <1>4, CallStepSplit, RowsInsertFirst, RowsInsertUser, RowsNewChallenge,
     RowsInsertCredential, RowsInsertInvite, RowsInvite, RowsCallFails DEF WriteCall

LEMMA RowsKeeps == Typed /\ RowsAgree /\ [Next]_vars => RowsAgree'
<1> SUFFICES ASSUME Typed, RowsAgree, [Next]_vars PROVE RowsAgree'
  OBVIOUS
<1>1. CASE \E q \in Calls : CallStep(q)
  BY <1>1, RowsCallStep
<1>2. CASE \/ UNCHANGED vars
           \/ \E s \in sessions : endSession(s)
           \/ \E n \in Numbers : expireChallenge(n)
  <2>1. UNCHANGED <<role, invite, owner, call, founders, halfMade>>
    BY <1>2 DEF vars, rows, history, endSession, expireChallenge
  <2>2. \A n \in Numbers : challenge'[n].user = challenge[n].user
    BY <1>2 DEF vars, rows, endSession, expireChallenge, Typed, TypeOK, ChallengeRows
  <2>3. \A q, u : InCreation(q, u)' <=> InCreation(q, u)
    BY <2>1 DEF InCreation, At
  <2>4. QED
    BY <2>1, <2>2, <2>3, RowsFrame
<1>3. CASE Idly
  BY <1>2, <1>3, RowsInvite, RowsDeleteUser, RowsSetRole DEF Idly
<1>4. QED
  BY <1>1, <1>2, <1>3, NextSplit

LEMMA InitRows == Init => RowsAgree
<1> SUFFICES ASSUME Init PROVE RowsAgree
  OBVIOUS
<1>1. PICK first \in Users \union {NoUser} :
        /\ role = [u \in Users |-> IF u = first THEN "admin" ELSE NoRole]
        /\ owner = [c \in Creds |-> first]
        /\ founders = {first} \ {NoUser}
  BY DEF Init
<1>2. \A u \in Users : Exists(u) <=> u = first
  BY <1>1, ConstantsAssumption DEF Exists
<1>3. \A c \in Creds : owner[c] # NoUser => Exists(owner[c])
  BY <1>1, <1>2
<1>4. \A u \in Users : Exists(u) => u \in founders
  BY <1>1, <1>2, ConstantsAssumption
<1>5. /\ \A n \in Numbers : challenge[n].user = NoUser
      /\ \A u \in Users : invite[u] = "none"
  BY DEF Init
<1>6. QED
  BY <1>3, <1>4, <1>5 DEF RowsAgree

-------------------------------------------------------------------------------
\* AdminRemains.

LEMMA ExistingFounds == (\E u \in Users : Exists(u)) => Founded
BY DEF Founded, NeedsSetup

\* Where users neither come nor go and roles stay.
LEMMA GovernedFrame ==
  ASSUME Governed, UNCHANGED <<role, deleted>>, overreach => overreach',
         sessions' # {} => Founded,
         \A q \in Calls : call'[q].step \in {"insertUser", "markUsed"} =>
           Founded \/ call[q].step \in {"insertUser", "markUsed"}
  PROVE  Governed'
<1>1. (NeedsSetup <=> NeedsSetup') /\ (Founded <=> Founded')
  BY DEF NeedsSetup, Exists, Founded
<1>2. AdminRemains'
  BY <1>1 DEF Governed, AdminRemains
<1>3. FromUsers'
  BY <1>1 DEF Governed, FromUsers
<1>4. QED
  BY <1>2, <1>3 DEF Governed

LEMMA GovernedEnd ==
  ASSUME Governed, UNCHANGED <<role, deleted, overreach>>, NEW q \in Calls, Moved(q),
         call'[q].step \notin {"insertUser", "markUsed"}, sessions' # {} => Founded
  PROVE  Governed'
<1>1. \A r \in Calls : call'[r].step \in {"insertUser", "markUsed"} =>
        Founded \/ call[r].step \in {"insertUser", "markUsed"}
  BY DEF Moved
<1>2. QED
  BY <1>1, GovernedFrame

LEMMA GovernedRead ==
  ASSUME Typed, Governed, NEW q \in Calls, QuietCall(q) \/ ReadCall(q)
  PROVE  Governed'
<1>1. Moved(q) /\ UNCHANGED <<role, deleted, overreach, sessions>>
  BY QuietFacts, ReadFacts DEF rows, history
<1>2. call'[q].step \in {"insertUser", "markUsed"} => Founded
  BY QuietFacts, ReadFacts, ExistingFounds DEF Free, Governed, FromUsers
<1>3. \A r \in Calls : call'[r].step \in {"insertUser", "markUsed"} =>
        Founded \/ call[r].step \in {"insertUser", "markUsed"}
  BY <1>1, <1>2 DEF Moved
<1>4. QED
  BY <1>1, <1>3, GovernedFrame DEF Governed, FromUsers

LEMMA GovernedInsertFirst ==
  ASSUME Typed, Governed, NEW q \in Calls, NEW u \in Users, insertFirst(q, u)
  PROVE  Governed'
<1>1. role'[u] = "admin" /\ Exists(u)'
  BY ConstantsAssumption DEF insertFirst, Typed, TypeOK, Exists
<1>2. Founded'
  BY <1>1 DEF Founded, NeedsSetup
<1>3. AdminRemains' /\ FromUsers'
  BY <1>1, <1>2 DEF AdminRemains, FromUsers
<1>4. QED
  BY <1>3 DEF Governed

\* Users are only created by a session, and thus after the first one.
LEMMA GovernedInsertUser ==
  ASSUME Typed, Governed, NEW q \in Calls, NEW u \in Users, insertUser(q, u)
  PROVE  Governed'
<1>1. Founded
  BY DEF Governed, FromUsers, insertUser, At
<1>2. overreach \/ \E w \in Users : role[w] = "admin"
  BY <1>1 DEF Governed, AdminRemains, Founded
<1>3. \A w \in Users : role[w] = "admin" => role'[w] = "admin"
  BY ConstantsAssumption DEF insertUser, Fresh, Exists, Typed, TypeOK
<1>4. Exists(u)' /\ overreach' = overreach
  BY InsertUserMoves, ConstantsAssumption DEF insertUser, Exists, Typed, TypeOK, history
<1>5. Founded'
  BY <1>4 DEF Founded, NeedsSetup
<1>6. AdminRemains' /\ FromUsers'
  BY <1>2, <1>3, <1>4, <1>5 DEF AdminRemains, FromUsers
<1>7. QED
  BY <1>6 DEF Governed

\* Who acts under a session of his present role stays an administrator.
LEMMA GovernedAdmin ==
  ASSUME Typed, Governed, NEW s \in sessions, NEW u \in Users,
         deleteUser(s, u) \/ \E r \in Roles : setRole(s, u, r)
  PROVE  Governed'
<1>1. s.user \in Users /\ role \in [Users -> Roles \union {NoRole}] /\ overreach \in BOOLEAN
  BY DEF Typed, TypeOK, Sessions
<1>2. ~overreach' => role[s.user] = "admin"
  BY <1>1 DEF deleteUser, setRole, Overreach
<1>3. role[s.user] = "admin" => role'[s.user] = "admin"
  BY <1>1 DEF deleteUser, setRole
<1>4. AdminRemains'
  BY <1>1, <1>2, <1>3 DEF AdminRemains
<1>5. Founded'
  <2>1. CASE deleteUser(s, u)
    BY <2>1 DEF deleteUser, Founded
  <2>2. CASE \E r \in Roles : setRole(s, u, r)
    <3>1. Exists(u)'
      BY <1>1, <2>2, ConstantsAssumption DEF setRole, Exists
    <3>2. QED
      BY <3>1 DEF Founded, NeedsSetup
  <2>3. QED
    BY <2>1, <2>2
<1>6. QED
  BY <1>4, <1>5 DEF Governed, FromUsers

LEMMA GovernedCallStep ==
  ASSUME Typed, Governed, NEW q \in Calls, WriteCall(q)
  PROVE  Governed'
<1>1. CASE \/ cleanupExpiredChallenges(q) \/ insertChallenge(q) \/ insertLoginChallenge(q)
           \/ insertCredential(q) \/ deleteChallenge(q) \/ updateCounter(q)
           \/ insertInvite(q) \/ callFails(q)
  <2>1. UNCHANGED <<role, deleted, overreach, sessions>>
    BY <1>1 DEF cleanupExpiredChallenges, insertChallenge, insertLoginChallenge,
       insertCredential, deleteChallenge, updateCounter, insertInvite, callFails, rows, history
  <2>2. Moved(q) /\ call'[q].step \notin {"insertUser", "markUsed"}
    BY <1>1, CleanupMoves, InsertCredentialMoves, DeleteChallengeMoves, UpdateCounterMoves,
       EndMoves, IdleFacts
  <2>3. QED
    BY <2>1, <2>2, GovernedEnd DEF Governed, FromUsers
<1>2. CASE openSession(q)
  <2>1. UNCHANGED <<role, deleted, overreach>>
    BY <1>2 DEF openSession, rows, history
  <2>2. call[q].user \in Users
    BY <1>2 DEF Typed, Operands, Ready, openSession, At
  <2>3. sessions' # {} => Founded
    BY <1>2, <2>2, ExistingFounds DEF openSession, Governed, FromUsers
  <2>4. QED
    BY <1>2, <2>1, <2>3, EndMoves, IdleFacts, GovernedEnd
<1>3. CASE markUsed(q)
  <2>1. UNCHANGED <<role, deleted, overreach>> /\ Founded
    BY <1>3 DEF markUsed, Governed, FromUsers, At
  <2>2. QED
    BY <1>3, <2>1, EndMoves, IdleFacts, GovernedEnd
<1>4. QED
  BY <1>1, <1>2, <1>3, GovernedInsertFirst, GovernedInsertUser DEF WriteCall

LEMMA GovernedKeeps == Typed /\ Governed /\ [Next]_vars => Governed'
<1> SUFFICES ASSUME Typed, Governed, [Next]_vars PROVE Governed'
  OBVIOUS
<1>1. CASE \E q \in Calls : CallStep(q)
  BY <1>1, CallStepSplit, GovernedRead, GovernedCallStep
<1>2. CASE \/ UNCHANGED vars
           \/ \E s \in sessions : endSession(s)
           \/ \E u \in Users : expireInvite(u)
           \/ \E n \in Numbers : expireChallenge(n)
  <2>1. UNCHANGED <<role, deleted, overreach, call>> /\ sessions' \subseteq sessions
    BY <1>2 DEF vars, rows, history, endSession, expireInvite, expireChallenge
  <2>2. QED
    BY <2>1, GovernedFrame DEF Governed, FromUsers
<1>3. CASE Idly
  BY <1>2, <1>3, GovernedAdmin DEF Idly
<1>4. QED
  BY <1>1, <1>2, <1>3, NextSplit

LEMMA InitGoverned == Init => Governed
<1> SUFFICES ASSUME Init PROVE Governed
  OBVIOUS
<1>1. PICK first \in Users \union {NoUser} :
        role = [u \in Users |-> IF u = first THEN "admin" ELSE NoRole]
  BY DEF Init
<1>2. NeedsSetup \/ \E u \in Users : role[u] = "admin"
  BY <1>1 DEF NeedsSetup, Exists
<1>3. deleted = {} /\ sessions = {} /\ \A q \in Calls : call[q].step = "idle"
  BY IdleFacts DEF Init
<1>4. QED
  BY <1>2, <1>3 DEF Governed, AdminRemains, FromUsers

-------------------------------------------------------------------------------
\* UsedOnce.

\* Different things that can be used once are different items.
LEMMA Distinct ==
  /\ \A u : InviteOf(u) # Setup
  /\ \A n : Challenge(n) # Setup
  /\ \A u, n : InviteOf(u) # Challenge(n)
  /\ \A u, v : InviteOf(u) = InviteOf(v) => u = v
  /\ \A m, n : Challenge(m) = Challenge(n) => m = n
BY DEF Setup, InviteOf, Challenge

LEMMA FreeHolds ==
  ASSUME NEW q, call[q].step \in Free
  PROVE  \A x : ~Holds(q, x) /\ ~Uses(q, x)
BY DEF Free, Holds, Uses, At

LEMMA FreeHoldsNext ==
  ASSUME NEW q, call'[q].step \in Free
  PROVE  /\ \A x : ~Holds(q, x)' /\ ~Uses(q, x)'
         /\ \A u : ~InCreation(q, u)' /\ ~At(q, "insertFirst")' /\ ~At(q, "markUsed")'
BY DEF Free, Holds, Uses, At, InCreation

LEMMA OthersSame ==
  ASSUME NEW r, call'[r] = call[r]
  PROVE  /\ \A x : (Holds(r, x)' <=> Holds(r, x)) /\ (Uses(r, x)' <=> Uses(r, x))
         /\ \A u : InCreation(r, u)' <=> InCreation(r, u)
         /\ \A s : At(r, s)' <=> At(r, s)
BY DEF Holds, Uses, At, InCreation

\* What is about to be used is held, and what is held is an item.
LEMMA UsedIsHeld ==
  ASSUME Typed, NEW q \in Calls, NEW x, Uses(q, x)
  PROVE  Holds(q, x) /\ x \in Items
<1>1. CASE x = InviteOf(call[q].user) /\ At(q, "markUsed")
  BY <1>1, ItemTypes DEF Typed, Operands, Ready, Holds, At
<1>2. CASE x = Challenge(call[q].chal) /\ call[q].step \in {"insertCredential", "updateCounter"}
  <2>1. call[q].chal \in Numbers /\ call[q].chal # 0
    BY <1>2 DEF Typed, Operands, Ready, Numbers
  <2>2. QED
    BY <1>2, <2>1, ItemTypes DEF Holds
<1>3. QED
  BY <1>1, <1>2 DEF Uses

\* Overlaps outlasts a step of q that holds nothing new, or reads it openly.
LEMMA OverlapsFrame ==
  ASSUME Overlaps, NEW q \in Calls, Moved(q), contended \subseteq contended',
         \A x \in Items : Holds(q, x)' =>
           Holds(q, x) \/ \A r \in Calls \ {q} : Holds(r, x) => x \in contended'
  PROVE  Overlaps'
<1> SUFFICES ASSUME NEW p \in Calls, NEW r \in Calls, NEW x \in Items,
                    p # r, Holds(p, x)', Holds(r, x)'
             PROVE  x \in contended'
  BY DEF Overlaps
<1>1. \A t \in Calls \ {q} : Holds(t, x)' <=> Holds(t, x)
  BY OthersSame DEF Moved
<1>2. CASE p # q /\ r # q
  BY <1>1, <1>2 DEF Overlaps
<1>3. CASE p = q
  BY <1>1, <1>3 DEF Overlaps
<1>4. CASE r = q
  BY <1>1, <1>4 DEF Overlaps
<1>5. QED
  BY <1>2, <1>3, <1>4

\* SecondUse outlasts a step that uses nothing.
LEMMA SecondUseFrame ==
  ASSUME SecondUse, NEW q \in Calls, Moved(q), contended \subseteq contended', taken' = taken,
         \A x \in Items : Uses(q, x)' /\ x \in taken => x \in contended'
  PROVE  SecondUse'
<1> SUFFICES ASSUME NEW p \in Calls, NEW x \in Items, Uses(p, x)', x \in taken'
             PROVE  x \in contended'
  BY DEF SecondUse
<1>1. CASE p = q
  BY <1>1
<1>2. CASE p # q
  BY <1>2, OthersSame DEF SecondUse, Moved
<1>3. QED
  BY <1>1, <1>2

\* It also outlasts a use of y by q, who held it: others who hold it are noted.
LEMMA SecondUseOfHeld ==
  ASSUME Typed, SecondUse, Overlaps, NEW q \in Calls, Moved(q), contended' = contended,
         NEW y \in Items, Holds(q, y), taken' = taken \union {y},
         \A x \in Items : ~Uses(q, x)'
  PROVE  SecondUse'
<1> SUFFICES ASSUME NEW p \in Calls, NEW x \in Items, Uses(p, x)', x \in taken'
             PROVE  x \in contended'
  BY DEF SecondUse
<1>1. p # q /\ Uses(p, x)
  BY OthersSame DEF Moved
<1>2. CASE x = y
  BY <1>1, <1>2, UsedIsHeld DEF Overlaps
<1>3. CASE x # y
  BY <1>1, <1>3 DEF SecondUse
<1>4. QED
  BY <1>2, <1>3

\* The setup, where users do not come.
LEMMA SetupFrame ==
  ASSUME SetupOvertaken, NEW q \in Calls, Moved(q), contended \subseteq contended',
         overreach => overreach', \A u \in Users : Exists(u)' => Exists(u),
         At(q, "insertFirst")' => NeedsSetup
  PROVE  SetupOvertaken'
<1>1. NeedsSetup => NeedsSetup'
  BY DEF NeedsSetup
<1>2. \A r \in Calls \ {q} : At(r, "insertFirst")' => At(r, "insertFirst")
  BY OthersSame DEF Moved
<1>3. QED
  BY <1>1, <1>2 DEF SetupOvertaken

\* Invites, where users do not come nor go and nobody accepts or creates.
LEMMA InvitesFrame ==
  ASSUME InvitesFresh, NEW q \in Calls, Moved(q), UNCHANGED <<role, deleted, invite>>,
         \A u \in Users : InviteOf(u) \in taken' => InviteOf(u) \in taken,
         \A u : ~InCreation(q, u)',
         ~At(q, "markUsed")'
  PROVE  InvitesFresh'
<1>1. \A u \in Users : Fresh(u)' <=> Fresh(u)
  BY DEF Fresh, Exists
<1>2. \A r \in Calls, u \in Users : InCreation(r, u)' => InCreation(r, u)
  BY OthersSame DEF Moved
<1>3. \A r \in Calls : At(r, "markUsed")' => At(r, "markUsed") /\ call'[r].user = call[r].user
  BY OthersSame DEF Moved
<1>4. QED
  BY <1>1, <1>2, <1>3 DEF InvitesFresh

\* Challenges, where none is used and q does not hold a new one.
LEMMA ChallengesFrame ==
  ASSUME ChallengesFresh, NEW q \in Calls, Moved(q), contended \subseteq contended',
         \A n \in Numbers :
           /\ Challenge(n) \in taken' => Challenge(n) \in taken
           /\ challenge'[n].state = "none" => challenge[n].state = "none"
           /\ challenge'[n].state = "valid" => challenge[n].state \in {"valid", "none"}
           /\ Holds(q, Challenge(n))' => Holds(q, Challenge(n)) \/ challenge'[n].state # "none"
           /\ At(q, "deleteChallenge") /\ call[q].chal = n =>
                \/ challenge'[n].state # "valid" \/ Challenge(n) \in contended'
  PROVE  ChallengesFresh'
<1> SUFFICES ASSUME NEW n \in Numbers
             PROVE  /\ challenge'[n].state = "none" =>
                         /\ Challenge(n) \notin taken'
                         /\ \A r \in Calls : ~Holds(r, Challenge(n))'
                    /\ challenge'[n].state = "valid" /\ Challenge(n) \in taken' =>
                         \/ Challenge(n) \in contended'
                         \/ \E r \in Calls : At(r, "deleteChallenge")' /\ call'[r].chal = n
  BY DEF ChallengesFresh
<1>1. \A r \in Calls \ {q} : /\ Holds(r, Challenge(n))' <=> Holds(r, Challenge(n))
                             /\ At(r, "deleteChallenge")' <=> At(r, "deleteChallenge")
                             /\ call'[r] = call[r]
  BY OthersSame DEF Moved
<1>2. ASSUME challenge'[n].state = "none"
      PROVE  Challenge(n) \notin taken' /\ \A r \in Calls : ~Holds(r, Challenge(n))'
  BY <1>1, <1>2 DEF ChallengesFresh
<1>3. ASSUME challenge'[n].state = "valid", Challenge(n) \in taken', Challenge(n) \notin contended'
      PROVE  \E r \in Calls : At(r, "deleteChallenge")' /\ call'[r].chal = n
  <2>1. challenge[n].state = "valid" /\ Challenge(n) \in taken
    BY <1>3 DEF ChallengesFresh
  <2>2. PICK r \in Calls : At(r, "deleteChallenge") /\ call[r].chal = n
    BY <1>3, <2>1 DEF ChallengesFresh
  <2>3. r # q
    BY <1>3, <2>2
  <2>4. QED
    BY <1>1, <2>2, <2>3
<1>4. QED
  BY <1>2, <1>3

\* Challenges come, expire and go; one that is about to be deleted goes, or has
\* been noted.
Ages(q) ==
  \A n \in Numbers :
    /\ challenge'[n].state = "none" => challenge[n].state = "none"
    /\ challenge'[n].state = "valid" => challenge[n].state \in {"valid", "none"}
    /\ At(q, "deleteChallenge") /\ call[q].chal = n =>
         \/ challenge'[n].state # "valid" \/ Challenge(n) \in contended'

LEMMA LetGo ==
  ASSUME Once, NEW q \in Calls, Moved(q), call'[q].step \in Free \union {"insertInvite"},
         contended \subseteq contended', taken' = taken, Ages(q)
  PROVE  Overlaps' /\ SecondUse' /\ ChallengesFresh'
<1>1. \A x : ~Holds(q, x)' /\ ~Uses(q, x)'
  BY DEF Free, Holds, Uses, At
<1>2. Overlaps' /\ SecondUse'
  BY <1>1, OverlapsFrame, SecondUseFrame DEF Once
<1>3. ChallengesFresh'
  BY <1>1, ChallengesFrame DEF Once, Ages
<1>4. QED
  BY <1>2, <1>3

LEMMA UsedOnceFrame ==
  ASSUME UsedOnce, reused' = reused, contended \subseteq contended', overreach => overreach'
  PROVE  UsedOnce'
BY DEF UsedOnce

\* A call that comes to a step where it holds nothing.
LEMMA OnceFree ==
  ASSUME Once, NEW q \in Calls, Moved(q), call'[q].step \in Free,
         UNCHANGED <<role, deleted, invite, taken, reused, overreach>>,
         contended \subseteq contended', Ages(q)
  PROVE  Once'
<1>1. Overlaps' /\ SecondUse' /\ ChallengesFresh'
  BY LetGo
<1>2. \A u : ~InCreation(q, u)' /\ ~At(q, "insertFirst")' /\ ~At(q, "markUsed")'
  BY FreeHoldsNext
<1>3. SetupOvertaken'
  BY <1>2, SetupFrame DEF Once, Exists
<1>4. InvitesFresh'
  BY <1>2, InvitesFrame DEF Once
<1>5. UsedOnce'
  BY UsedOnceFrame DEF Once
<1>6. QED
  BY <1>1, <1>3, <1>4, <1>5 DEF Once

\* The statements that end in such a step.
LEMMA OnceQuiet ==
  ASSUME Typed, Once, NEW q \in Calls, QuietCall(q)
  PROVE  Once'
<1>1. Moved(q) /\ call'[q].step \in Free /\ UNCHANGED <<rows, history>> /\ ~At(q, "deleteChallenge")
  BY QuietFacts, FreeIsFree
<1>2. Ages(q)
  BY <1>1 DEF Ages, rows
<1>3. QED
  BY <1>1, <1>2, OnceFree DEF rows, history

LEMMA OnceChallenges ==
  ASSUME Typed, Once, NEW q \in Calls,
         \/ cleanupExpiredChallenges(q) \/ insertChallenge(q) \/ insertLoginChallenge(q)
         \/ deleteChallenge(q) \/ openSession(q)
  PROVE  Once'
<1>1. Moved(q) /\ call'[q].step \in Free
  BY CleanupMoves, EndMoves, DeleteChallengeMoves, IdleFacts DEF Free
<1>2. UNCHANGED <<role, deleted, invite, history>>
  BY DEF cleanupExpiredChallenges, insertChallenge, insertLoginChallenge, deleteChallenge,
     openSession, rows, history
<1>3. challenge \in [Numbers -> ChallengeRows]
  BY DEF Typed, TypeOK
<1>4. Ages(q)
  <2>1. CASE cleanupExpiredChallenges(q)
    BY <1>3, <2>1 DEF cleanupExpiredChallenges, Ages, At
  <2>2. CASE insertChallenge(q) \/ insertLoginChallenge(q)
    <3>1. (\E u : newChallenge(u)) \/ UNCHANGED challenge
      BY <2>2 DEF insertChallenge, insertLoginChallenge
    <3>2. ~At(q, "deleteChallenge")
      BY <2>2 DEF insertChallenge, insertLoginChallenge, At
    <3>3. QED
      BY <1>3, <3>1, <3>2 DEF newChallenge, Ages
  <2>3. CASE deleteChallenge(q)
    BY <1>3, <2>3, DeleteChallengeMoves DEF deleteChallenge, Ages
  <2>4. CASE openSession(q)
    BY <2>4 DEF openSession, rows, Ages, At
  <2>5. QED
    BY <2>1, <2>2, <2>3, <2>4
<1>5. QED
  BY <1>1, <1>2, <1>4, OnceFree DEF history

LEMMA OnceCallFails ==
  ASSUME Typed, Once, NEW q \in Calls, callFails(q)
  PROVE  Once'
<1>1. Moved(q) /\ call'[q].step \in Free
  BY EndMoves, IdleFacts DEF Free
<1>2. UNCHANGED <<role, deleted, invite, challenge, taken, reused, overreach>>
  BY DEF callFails, rows
<1>3. /\ contended \subseteq contended'
      /\ At(q, "deleteChallenge") => Challenge(call[q].chal) \in contended'
  BY DEF callFails
<1>4. Ages(q)
  BY <1>2, <1>3 DEF Ages
<1>5. QED
  BY <1>1, <1>2, <1>3, <1>4, OnceFree

LEMMA OnceInsertInvite ==
  ASSUME Typed, Once, NEW q \in Calls, insertInvite(q)
  PROVE  Once'
<1>1. Moved(q) /\ call'[q].step \in Free
  BY EndMoves, IdleFacts DEF Free
<1>2. UNCHANGED <<role, owner, challenge, history>> /\ ~At(q, "deleteChallenge")
      /\ call[q].user \in Users
  BY DEF insertInvite, At, Typed, Operands, Ready
<1>3. Ages(q)
  BY <1>2 DEF Ages
<1>4. Overlaps' /\ SecondUse' /\ ChallengesFresh' /\ UsedOnce'
  BY <1>1, <1>2, <1>3, LetGo, UsedOnceFrame DEF Once, history
<1>5. SetupOvertaken'
  BY <1>1, <1>2, FreeHoldsNext, SetupFrame DEF Once, Exists, history
<1>6. InvitesFresh'
  <2>1. ASSUME NEW u \in Users
        PROVE  /\ Fresh(u)' <=> Fresh(u)
               /\ \A r \in Calls : InCreation(r, u)' => r # q /\ InCreation(r, u)
               /\ \A r \in Calls : At(r, "markUsed")' => At(r, "markUsed") /\ call'[r].user = call[r].user
    BY <1>1, <1>2, OthersSame, FreeHoldsNext DEF Fresh, Exists, Moved, history
  <2>2. InCreation(q, call[q].user) /\ InviteOf(call[q].user) \notin taken'
    BY <1>2 DEF Once, InvitesFresh, InCreation, insertInvite, history
  <2>3. \A u \in Users : invite'[u] = IF u = call[q].user /\ Exists(u) THEN "open" ELSE invite[u]
    BY <1>2 DEF insertInvite, Typed, TypeOK
  <2>4. \A u \in Users : Fresh(u) => u # call[q].user
    BY <1>2, <2>2 DEF Once, InvitesFresh
  <2>5. \A u \in Users, r \in Calls : InCreation(r, u)' => u # call[q].user
    BY <2>1, <2>2 DEF Once, InvitesFresh
  <2>6. taken' = taken
    BY <1>2 DEF history
  <2>7. QED
    BY <2>1, <2>2, <2>3, <2>4, <2>5, <2>6 DEF Once, InvitesFresh
<1>7. QED
  BY <1>4, <1>5, <1>6 DEF Once

\* Two calls that have both found no user have been noted.
LEMMA OnceInsertFirst ==
  ASSUME Typed, Once, NEW q \in Calls, NEW u \in Users, insertFirst(q, u)
  PROVE  Once'
<1>1. Moved(q) /\ call'[q].step \in Free
  BY InsertFirstMoves DEF Free
<1>2. UNCHANGED <<invite, challenge, deleted, taken, contended, overreach>>
      /\ ~At(q, "deleteChallenge")
  BY DEF insertFirst, At
<1>3. Ages(q)
  BY <1>2 DEF Ages
<1>4. Overlaps' /\ SecondUse' /\ ChallengesFresh'
  BY <1>1, <1>2, <1>3, LetGo
<1>5. SetupOvertaken'
  <2> SUFFICES ASSUME NEW r \in Calls, At(r, "insertFirst")' PROVE Setup \in contended'
    BY DEF SetupOvertaken
  <2>1. r # q /\ At(r, "insertFirst")
    BY <1>1, FreeHoldsNext, OthersSame DEF Moved
  <2>2. Holds(q, Setup) /\ Holds(r, Setup)
    BY <2>1 DEF Holds, insertFirst
  <2>3. QED
    BY <1>2, <2>1, <2>2, ItemTypes DEF Once, Overlaps
<1>6. InvitesFresh'
  <2>1. ASSUME NEW v \in Users
        PROVE  /\ Fresh(v)' => Fresh(v)
               /\ \A r \in Calls : InCreation(r, v)' => InCreation(r, v)
               /\ \A r \in Calls : At(r, "markUsed")' => At(r, "markUsed") /\ call'[r].user = call[r].user
    <3>1. role[v] = role'[v] \/ role'[v] = "admin"
      BY DEF insertFirst, Typed, TypeOK
    <3>2. Fresh(v)' => Fresh(v)
      BY <1>2, <3>1, ConstantsAssumption DEF Fresh, Exists
    <3>3. QED
      BY <1>1, <3>2, OthersSame, FreeHoldsNext DEF Moved
  <2>2. QED
    BY <1>2, <2>1 DEF Once, InvitesFresh
<1>7. UsedOnce'
  BY <1>2 DEF Once, UsedOnce, SetupOvertaken, insertFirst
<1>8. QED
  BY <1>4, <1>5, <1>6, <1>7 DEF Once

\* A user created beside a setup: there was one before, or there is overreach.
LEMMA OnceInsertUser ==
  ASSUME Typed, Governed, Once, NEW q \in Calls, NEW u \in Users, insertUser(q, u)
  PROVE  Once'
<1>1. Moved(q) /\ call'[q].step = "insertInvite" /\ call'[q].user = u
  BY InsertUserMoves
<1>2. UNCHANGED <<invite, challenge, deleted, taken, reused, contended, overreach>>
      /\ ~At(q, "deleteChallenge") /\ Fresh(u)
  BY DEF insertUser, history, At
<1>3. Ages(q)
  BY <1>2 DEF Ages
<1>4. Overlaps' /\ SecondUse' /\ ChallengesFresh' /\ UsedOnce'
  BY <1>1, <1>2, <1>3, LetGo, UsedOnceFrame DEF Once
<1>5. SetupOvertaken'
  <2> SUFFICES ASSUME NEW r \in Calls, At(r, "insertFirst")'
               PROVE  Setup \in contended \/ overreach
    BY <1>2 DEF SetupOvertaken
  <2>1. At(r, "insertFirst")
    <3>1. r # q
      BY <1>1 DEF At
    <3>2. QED
      BY <1>1, <3>1, OthersSame DEF Moved
  <2>2. CASE ~NeedsSetup
    BY <2>1, <2>2 DEF Once, SetupOvertaken
  <2>3. CASE NeedsSetup
    <3>1. deleted # {}
      BY <2>3 DEF Governed, FromUsers, Founded, insertUser, At
    <3>2. ~ \E w \in Users : role[w] = "admin"
      BY <2>3, ConstantsAssumption DEF NeedsSetup, Exists
    <3>3. QED
      BY <3>1, <3>2 DEF Governed, AdminRemains
  <2>4. QED
    BY <2>2, <2>3
<1>6. InvitesFresh'
  <2>1. /\ \A v \in Users : Fresh(v)' <=> v # u /\ Fresh(v)
    BY <1>2, InsertUserMoves, ConstantsAssumption DEF insertUser, Fresh, Exists, Typed, TypeOK
  <2>2. \A r \in Calls, v \in Users :
          InCreation(r, v)' => IF r = q THEN v = u ELSE InCreation(r, v)
    BY <1>1, OthersSame DEF Moved, InCreation
  <2>3. \A r \in Calls : At(r, "markUsed")' => At(r, "markUsed") /\ call'[r].user = call[r].user
    BY <1>1, OthersSame DEF Moved, At
  <2>4. /\ invite[u] = "none" /\ InviteOf(u) \notin taken
        /\ \A r \in Calls : At(r, "markUsed") => call[r].user # u
        /\ \A r \in Calls : ~InCreation(r, u)
    BY <1>2 DEF Once, InvitesFresh
  <2>5. QED
    BY <1>2, <2>1, <2>2, <2>3, <2>4 DEF Once, InvitesFresh
<1>7. QED
  BY <1>4, <1>5, <1>6 DEF Once

\* A call that reads y to use it.
LEMMA OnceRead ==
  ASSUME Typed, Once, NEW q \in Calls, Moved(q), call[q].step \in Free,
         UNCHANGED <<rows, deleted, taken, reused, overreach>>,
         NEW y \in Items, Contend(y),
         \A x \in Items : Holds(q, x)' => x = y,
         \A x \in Items : Uses(q, x)' /\ x \in taken => x \in contended',
         \A n \in Numbers : y = Challenge(n) => challenge[n].state # "none",
         At(q, "insertFirst")' => NeedsSetup,
         At(q, "markUsed")' => Exists(call'[q].user) /\ invite[call'[q].user] = "open",
         ~At(q, "insertInvite")'
  PROVE  Once'
<1>1. /\ contended \subseteq contended'
      /\ \A r \in Calls : Holds(r, y) => y \in contended'
  BY DEF Contend
<1>2. Overlaps'
  BY <1>1, OverlapsFrame DEF Once
<1>3. SecondUse'
  BY <1>1, SecondUseFrame DEF Once
<1>4. ~At(q, "deleteChallenge")
  BY FreeIsFree
<1>5. ChallengesFresh'
  BY <1>1, <1>4, ItemTypes, ChallengesFrame DEF Once, rows
<1>6. SetupOvertaken'
  BY <1>1, SetupFrame DEF Once, Exists, rows
<1>7. InvitesFresh'
  <2>1. \A v \in Users : Fresh(v)' <=> Fresh(v)
    BY DEF Fresh, Exists, rows
  <2>2. \A r \in Calls, v \in Users : InCreation(r, v)' => InCreation(r, v)
    BY OthersSame DEF Moved, InCreation
  <2>3. \A r \in Calls : At(r, "markUsed")' =>
          \/ At(r, "markUsed") /\ call'[r].user = call[r].user
          \/ Exists(call'[r].user) /\ invite[call'[r].user] = "open"
    BY OthersSame DEF Moved
  <2>4. invite' = invite
    BY DEF rows
  <2>5. \A v \in Users : Fresh(v) => ~Exists(v)
    BY DEF Fresh
  <2>6. QED
    BY <2>1, <2>2, <2>3, <2>4, <2>5 DEF Once, InvitesFresh
<1>8. UsedOnce'
  BY <1>1, UsedOnceFrame DEF Once
<1>9. QED
  BY <1>2, <1>3, <1>5, <1>6, <1>7, <1>8 DEF Once

LEMMA OnceCountUsers ==
  ASSUME Typed, Once, NEW q \in Calls, NEW via \in {"setup", "form"}, countUsers(q, via)
  PROVE  Once'
<1>1. Moved(q) /\ call[q].step \in Free /\ call'[q].step = "insertFirst"
  BY CountUsersMoves, IdleFacts DEF Free
<1>2. \A x : (Holds(q, x)' => x = Setup) /\ ~Uses(q, x)'
  BY <1>1 DEF Holds, Uses, At
<1>3. ~At(q, "markUsed")' /\ ~At(q, "insertInvite")'
  BY <1>1 DEF At
<1>4. Contend(Setup) /\ NeedsSetup /\ UNCHANGED <<rows, deleted, taken, reused, overreach>>
  BY DEF countUsers
<1>5. QED
  BY <1>1, <1>2, <1>3, <1>4, Distinct, ItemTypes, OnceRead

LEMMA OnceAcceptInvite ==
  ASSUME Typed, Once, NEW q \in Calls, NEW u \in Users, acceptInvite(q, u)
  PROVE  Once'
<1>1. /\ Moved(q) /\ call[q].step \in Free
      /\ call'[q].step = "markUsed" /\ call'[q].user = u
  BY AcceptInviteMoves, IdleFacts DEF Free
<1>2. \A x : (Holds(q, x)' => x = InviteOf(u)) /\ (Uses(q, x)' => x = InviteOf(u))
  BY <1>1 DEF Holds, Uses, At
<1>3. ~At(q, "insertFirst")' /\ ~At(q, "insertInvite")'
  BY <1>1 DEF At
<1>4. Contend(InviteOf(u)) /\ Exists(u) /\ invite[u] = "open"
      /\ UNCHANGED <<rows, deleted, taken, reused, overreach>>
  BY DEF acceptInvite
<1>5. InviteOf(u) \notin taken
  BY <1>4 DEF Once, InvitesFresh
<1>6. QED
  BY <1>1, <1>2, <1>3, <1>4, <1>5, Distinct, ItemTypes, OnceRead

\* A challenge that is offered is unused, or about to be deleted, or noted.
LEMMA OnceReadChallenge ==
  ASSUME Typed, Once, NEW q \in Calls, NEW n \in Numbers, Moved(q), call[q].step \in Free,
         call'[q].step \in {"insertCredential", "updateCounter"}, call'[q].chal = n,
         challenge[n].state = "valid", Contend(Challenge(n)),
         UNCHANGED <<rows, deleted, taken, reused, overreach>>
  PROVE  Once'
<1>1. \A x : (Holds(q, x)' => x = Challenge(n)) /\ (Uses(q, x)' => x = Challenge(n))
  BY DEF Holds, Uses, At
<1>2. ~At(q, "insertFirst")' /\ ~At(q, "insertInvite")' /\ ~At(q, "markUsed")'
  BY DEF At
<1>3. Challenge(n) \in taken => Challenge(n) \in contended'
  <2> SUFFICES ASSUME Challenge(n) \in taken, Challenge(n) \notin contended
               PROVE  Challenge(n) \in contended'
    BY DEF Contend
  <2>1. PICK r \in Calls : At(r, "deleteChallenge") /\ call[r].chal = n
    BY DEF Once, ChallengesFresh
  <2>2. Holds(r, Challenge(n))
    BY <2>1 DEF Holds, At, Numbers
  <2>3. QED
    BY <2>2 DEF Contend
<1>4. QED
  BY <1>1, <1>2, <1>3, Distinct, ItemTypes, OnceRead

LEMMA OnceReadCall ==
  ASSUME Typed, Once, NEW q \in Calls, ReadCall(q)
  PROVE  Once'
<1>1. ASSUME NEW u \in Users, NEW n \in Numbers, NEW c \in Creds, NEW via \in {"form", "session"},
             verifyRegistration(q, u, n, c, via)
      PROVE  Once'
  <2>1. /\ Moved(q) /\ call[q].step \in Free
        /\ call'[q].step = "insertCredential" /\ call'[q].chal = n
    BY <1>1, VerifyMoves, IdleFacts DEF Free
  <2>2. /\ challenge[n].state = "valid" /\ Contend(Challenge(n))
        /\ UNCHANGED <<rows, deleted, taken, reused, overreach>>
    BY <1>1 DEF verifyRegistration, Latest, Offered
  <2>3. QED
    BY <2>1, <2>2, OnceReadChallenge
<1>2. ASSUME NEW n \in Numbers, selectChallenges(q, n) PROVE Once'
  <2>1. /\ Moved(q) /\ call[q].step \in Free
        /\ call'[q].step = "updateCounter" /\ call'[q].chal = n
    BY <1>2, SelectChallengesMoves DEF selectChallenges, At, Free
  <2>2. /\ challenge[n].state = "valid" /\ Contend(Challenge(n))
        /\ UNCHANGED <<rows, deleted, taken, reused, overreach>>
    BY <1>2 DEF selectChallenges, Offered
  <2>3. QED
    BY <2>1, <2>2, OnceReadChallenge
<1>3. QED
  BY <1>1, <1>2, OnceCountUsers, OnceAcceptInvite DEF ReadCall, Verifies

\* A use of a challenge; the call goes on to delete it.
LEMMA OnceUseChallenge ==
  ASSUME Typed, Once, NEW q \in Calls, Moved(q), NEW n \in Numbers,
         call[q].step \in {"insertCredential", "updateCounter"}, call[q].chal = n,
         call'[q].step = "deleteChallenge", call'[q].chal = n,
         UNCHANGED <<role, invite, challenge, deleted, contended, overreach>>,
         Use(Challenge(n))
  PROVE  Once'
<1> DEFINE y == Challenge(n)
<1>1. Uses(q, y) /\ Holds(q, y) /\ y \in Items
  BY ItemTypes DEF Uses, Holds, Numbers
<1>2. \A x : (Holds(q, x)' => x = y) /\ ~Uses(q, x)' /\ ~InCreation(q, x)'
  BY DEF Holds, Uses, At, InCreation
<1>3. ~At(q, "insertFirst")' /\ ~At(q, "markUsed")' /\ At(q, "deleteChallenge")'
  BY DEF At
<1>4. taken' = taken \union {y} /\ reused' = IF y \in taken THEN reused \union {y} ELSE reused
  BY DEF Use
<1> HIDE DEF y
<1>5. Overlaps'
  BY <1>1, <1>2, OverlapsFrame DEF Once
<1>6. SecondUse'
  BY <1>1, <1>2, <1>4, SecondUseOfHeld DEF Once
<1>7. SetupOvertaken'
  BY <1>3, SetupFrame DEF Once, Exists
<1>8. InvitesFresh'
  BY <1>2, <1>3, <1>4, Distinct, InvitesFrame DEF Once, y
<1>9. ChallengesFresh'
  <2> SUFFICES ASSUME NEW m \in Numbers
               PROVE  /\ challenge[m].state = "none" =>
                           /\ Challenge(m) \notin taken'
                           /\ \A r \in Calls : ~Holds(r, Challenge(m))'
                      /\ challenge[m].state = "valid" /\ Challenge(m) \in taken' =>
                           \/ Challenge(m) \in contended
                           \/ \E r \in Calls : At(r, "deleteChallenge")' /\ call'[r].chal = m
    BY DEF ChallengesFresh
  <2>1. CASE m = n
    <3>1. challenge[m].state # "none"
      BY <1>1, <2>1 DEF Once, ChallengesFresh, y
    <3>2. QED
      BY <1>3, <2>1, <3>1
  <2>2. CASE m # n
    <3>1. Challenge(m) # y
      BY <2>2, Distinct DEF y
    <3>2. Challenge(m) \in taken' => Challenge(m) \in taken
      BY <1>4, <3>1
    <3>3. \A r \in Calls : Holds(r, Challenge(m))' => Holds(r, Challenge(m))
      BY <1>2, <3>1, OthersSame DEF Moved
    <3>4. \A r \in Calls : At(r, "deleteChallenge") =>
            r # q /\ At(r, "deleteChallenge")' /\ call'[r].chal = call[r].chal
      BY OthersSame DEF Moved, At
    <3>5. QED
      BY <3>2, <3>3, <3>4 DEF Once, ChallengesFresh
  <2>3. QED
    BY <2>1, <2>2
<1>10. UsedOnce'
  BY <1>1, <1>4 DEF Once, UsedOnce, SecondUse
<1>11. QED
  BY <1>5, <1>6, <1>7, <1>8, <1>9, <1>10 DEF Once

LEMMA OnceUseCall ==
  ASSUME Typed, Once, NEW q \in Calls, insertCredential(q) \/ updateCounter(q)
  PROVE  Once'
<1>1. CASE insertCredential(q) /\ owner[call[q].cred] = NoUser /\ Exists(call[q].user)
  BY <1>1, InsertCredentialMoves, OnceUseChallenge DEF insertCredential, At
<1>2. CASE insertCredential(q) /\ ~(owner[call[q].cred] = NoUser /\ Exists(call[q].user))
  <2>1. Moved(q) /\ call'[q].step \in Free
    BY <1>2, InsertCredentialMoves, IdleFacts DEF Free
  <2>2. UNCHANGED <<role, deleted, invite, challenge, taken, reused, contended, overreach>>
        /\ ~At(q, "deleteChallenge")
    BY <1>2 DEF insertCredential, At
  <2>3. Ages(q)
    BY <2>2 DEF Ages
  <2>4. QED
    BY <2>1, <2>2, <2>3, OnceFree
<1>3. CASE updateCounter(q)
  BY <1>3, UpdateCounterMoves, OnceUseChallenge DEF updateCounter, At, rows
<1>4. QED
  BY <1>1, <1>2, <1>3

LEMMA OnceMarkUsed ==
  ASSUME Typed, Once, NEW q \in Calls, markUsed(q)
  PROVE  Once'
<1> DEFINE u == call[q].user
           y == InviteOf(u)
<1>1. Moved(q) /\ call'[q].step \in Free
  BY EndMoves, IdleFacts DEF Free
<1>2. u \in Users /\ y \in Items /\ Uses(q, y) /\ Holds(q, y)
  BY ItemTypes DEF markUsed, At, Typed, Operands, Ready, Uses, Holds
<1>3. UNCHANGED <<role, challenge, deleted, contended, overreach>>
      /\ ~At(q, "deleteChallenge") /\ At(q, "markUsed")
  BY DEF markUsed, At
<1>4. taken' = taken \union {y} /\ reused' = IF y \in taken THEN reused \union {y} ELSE reused
  BY DEF markUsed, Use
<1>5. \A v \in Users : invite'[v] = IF v = u /\ invite[v] # "none" THEN "used" ELSE invite[v]
  BY <1>2 DEF markUsed, Typed, TypeOK
<1>6. \A x : ~Holds(q, x)' /\ ~Uses(q, x)' /\ ~InCreation(q, x)'
  BY <1>1, FreeHoldsNext
<1>7. \A n : Challenge(n) # y
  BY Distinct
<1>8. \A v : InviteOf(v) = y => v = u
  BY Distinct
<1> HIDE DEF u, y
<1>9. Overlaps' /\ SecondUse'
  BY <1>1, <1>2, <1>3, <1>4, <1>6, OverlapsFrame, SecondUseOfHeld DEF Once
<1>10. ChallengesFresh'
  BY <1>1, <1>3, <1>4, <1>6, <1>7, ChallengesFrame DEF Once
<1>11. SetupOvertaken'
  BY <1>1, <1>3, FreeHoldsNext, SetupFrame DEF Once, Exists
<1>12. InvitesFresh'
  <2>1. \A v \in Users : Fresh(v)' <=> Fresh(v)
    BY <1>3 DEF Fresh, Exists
  <2>2. \A r \in Calls, v \in Users : InCreation(r, v)' => InCreation(r, v)
    BY <1>1, <1>6, OthersSame DEF Moved
  <2>3. \A r \in Calls : At(r, "markUsed")' => At(r, "markUsed") /\ call'[r].user = call[r].user
    BY <1>1, FreeHoldsNext, OthersSame DEF Moved
  <2>4. \A v \in Users : Fresh(v) \/ (\E r \in Calls : InCreation(r, v)) => v # u
    BY <1>2, <1>3 DEF Once, InvitesFresh, u
  <2>5. \A v \in Users : v # u => (InviteOf(v) \in taken' <=> InviteOf(v) \in taken)
    BY <1>4, <1>8
  <2>6. invite'[u] # "open"
    BY <1>2, <1>5
  <2>7. QED
    BY <1>5, <2>1, <2>2, <2>3, <2>4, <2>5, <2>6 DEF Once, InvitesFresh
<1>13. UsedOnce'
  BY <1>2, <1>3, <1>4 DEF Once, UsedOnce, SecondUse
<1>14. QED
  BY <1>9, <1>10, <1>11, <1>12, <1>13 DEF Once

-------------------------------------------------------------------------------
\* Steps of nobody's call.
LEMMA OnceIdly ==
  ASSUME Once, UNCHANGED <<call, taken, reused, contended>>, overreach => overreach',
         \A u \in Users : /\ Exists(u)' => Exists(u)
                          /\ Fresh(u)' => Fresh(u)
                          /\ invite'[u] = "open" => invite[u] = "open"
                          /\ invite[u] = "none" => invite'[u] = "none",
         \A n \in Numbers : /\ challenge'[n].state = "none" => challenge[n].state = "none"
                            /\ challenge'[n].state = "valid" => challenge[n].state = "valid"
  PROVE  Once'
<1>1. \A q : /\ \A x : (Holds(q, x)' <=> Holds(q, x)) /\ (Uses(q, x)' <=> Uses(q, x))
             /\ \A u : InCreation(q, u)' <=> InCreation(q, u)
             /\ \A s : At(q, s)' <=> At(q, s)
  BY DEF Holds, Uses, At, InCreation
<1>2. Overlaps' /\ SecondUse'
  BY <1>1 DEF Once, Overlaps, SecondUse
<1>3. ~NeedsSetup' => ~NeedsSetup
  BY DEF NeedsSetup
<1>4. SetupOvertaken'
  BY <1>1, <1>3 DEF Once, SetupOvertaken
<1>5. InvitesFresh'
  BY <1>1 DEF Once, InvitesFresh
<1>6. ChallengesFresh'
  BY <1>1 DEF Once, ChallengesFresh
<1>7. UsedOnce'
  BY DEF Once, UsedOnce
<1>8. QED
  BY <1>2, <1>4, <1>5, <1>6, <1>7 DEF Once

LEMMA OnceIdlyStep ==
  ASSUME Typed, Once, Idly \/ UNCHANGED vars
  PROVE  Once'
<1>1. role \in [Users -> Roles \union {NoRole}] /\ overreach \in BOOLEAN
      /\ challenge \in [Numbers -> ChallengeRows]
      /\ invite \in [Users -> {"none", "open", "used", "expired"}]
  BY DEF Typed, TypeOK
<1>2. ASSUME NEW s \in sessions, NEW u \in Users, deleteUser(s, u) PROVE Once'
  <2>1. UNCHANGED <<call, taken, reused, contended, challenge>> /\ (overreach => overreach')
    BY <1>1, <1>2 DEF deleteUser, Overreach
  <2>2. \A v \in Users : /\ Exists(v)' => Exists(v)
                         /\ Fresh(v)' => Fresh(v)
                         /\ invite'[v] = "open" => invite[v] = "open"
                         /\ invite[v] = "none" => invite'[v] = "none"
    BY <1>1, <1>2 DEF deleteUser, Exists, Fresh
  <2>3. QED
    BY <2>1, <2>2, OnceIdly
<1>3. ASSUME NEW s \in sessions, NEW u \in Users, NEW r \in Roles, setRole(s, u, r) PROVE Once'
  <2>1. UNCHANGED <<call, taken, reused, contended, challenge, invite>> /\ (overreach => overreach')
    BY <1>1, <1>3 DEF setRole, Overreach
  <2>2. \A v \in Users : (Exists(v)' => Exists(v)) /\ (Fresh(v)' => Fresh(v))
    BY <1>1, <1>3, ConstantsAssumption DEF setRole, Exists, Fresh
  <2>3. QED
    BY <2>1, <2>2, OnceIdly
<1>4. CASE (\E s \in sessions : endSession(s)) \/ UNCHANGED vars
  <2>1. UNCHANGED <<call, taken, reused, contended, overreach, role, deleted, invite, challenge>>
    BY <1>4 DEF endSession, vars, rows, history
  <2>2. QED
    BY <2>1, OnceIdly DEF Exists, Fresh
<1>5. CASE \E u \in Users : expireInvite(u)
  <2>1. UNCHANGED <<call, taken, reused, contended, overreach, role, deleted, challenge>>
    BY <1>5 DEF expireInvite, history
  <2>2. \A v \in Users : /\ invite'[v] = "open" => invite[v] = "open"
                         /\ invite[v] = "none" => invite'[v] = "none"
    BY <1>1, <1>5 DEF expireInvite
  <2>3. QED
    BY <2>1, <2>2, OnceIdly DEF Exists, Fresh
<1>6. CASE \E n \in Numbers : expireChallenge(n)
  <2>1. UNCHANGED <<call, taken, reused, contended, overreach, role, deleted, invite>>
    BY <1>6 DEF expireChallenge, history
  <2>2. \A n \in Numbers : /\ challenge'[n].state = "none" => challenge[n].state = "none"
                           /\ challenge'[n].state = "valid" => challenge[n].state = "valid"
    BY <1>1, <1>6 DEF expireChallenge, ChallengeRows
  <2>3. QED
    BY <2>1, <2>2, OnceIdly DEF Exists, Fresh
<1>7. QED
  BY <1>2, <1>3, <1>4, <1>5, <1>6 DEF Idly

LEMMA OnceKeeps == Typed /\ Governed /\ Once /\ [Next]_vars => Once'
<1> SUFFICES ASSUME Typed, Governed, Once, [Next]_vars PROVE Once'
  OBVIOUS
<1>1. ASSUME NEW q \in Calls, CallStep(q) PROVE Once'
  BY <1>1, CallStepSplit, OnceQuiet, OnceReadCall, OnceInsertFirst, OnceInsertUser,
     OnceChallenges, OnceUseCall, OnceInsertInvite, OnceMarkUsed, OnceCallFails DEF WriteCall
<1>2. QED
  BY <1>1, OnceIdlyStep, NextSplit

LEMMA InitOnce == Init => Once
<1> SUFFICES ASSUME Init PROVE Once
  OBVIOUS
<1>1. \A q \in Calls : call[q].step \in Free /\ ~At(q, "insertInvite") /\ ~At(q, "markUsed")
                        /\ ~At(q, "insertFirst")
  BY IdleFacts DEF Init, Free, At
<1>2. \A q \in Calls : \A x : ~Holds(q, x) /\ ~Uses(q, x) /\ ~InCreation(q, x)
  BY <1>1, FreeHolds DEF InCreation
<1>3. taken = {} /\ reused = {} /\ \A u \in Users : invite[u] = "none"
  BY DEF Init
<1>4. QED
  BY <1>1, <1>2, <1>3 DEF Once, SetupOvertaken, Overlaps, SecondUse, InvitesFresh,
     ChallengesFresh, UsedOnce

-------------------------------------------------------------------------------
\* The whole inductive invariant: what every call between two statements has read
\* and may still do, with the four properties among its parts (auth.ts:29-251,
\* users.ts:63-261, passkey.ts:45-241).
THEOREM AccountsInvariant == Spec => []IInv
<1>1. Init => IInv
  BY InitTyped, InitRows, InitGoverned, InitOnce DEF IInv
<1>2. IInv /\ [Next]_vars => IInv'
  BY TypedKeeps, RowsKeeps, GovernedKeeps, OnceKeeps DEF IInv
<1>3. QED
  BY <1>1, <1>2, PTL DEF Spec

\* The types of rows, sessions, calls and history (schema.sql:3).
THEOREM TypeCorrect == Spec => []TypeOK
<1>1. IInv => TypeOK
  BY DEF IInv, Typed
<1>2. QED
  BY <1>1, AccountsInvariant, PTL

\* Only a session that outlived its user's role can take the last administrator
\* away (users.ts:212 and :246).
THEOREM AdminStays == Spec => []AdminRemains
<1>1. IInv => AdminRemains
  BY DEF IInv, Governed
<1>2. QED
  BY <1>1, AccountsInvariant, PTL

\* The setup, invites and challenges serve once, but for overlaps and failures
\* (auth.ts:49, users.ts:185, passkey.ts:144).
THEOREM ServesOnce == Spec => []UsedOnce
<1>1. IInv => UsedOnce
  BY DEF IInv, Once
<1>2. QED
  BY <1>1, AccountsInvariant, PTL

\* Passkeys, invites and challenges belong to users that exist, and users without
\* an invite are accounted for (users.ts:103 and :251).
THEOREM TablesAgree == Spec => []RowsAgree
<1>1. IInv => RowsAgree
  BY DEF IInv
<1>2. QED
  BY <1>1, AccountsInvariant, PTL
===============================================================================
