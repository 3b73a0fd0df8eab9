-------------------------------- MODULE Accounts --------------------------------
(***************************************************************************)
(* Accounts of the management API (packages/api/src/routes/auth.ts and     *)
(* users.ts, packages/api/src/auth): the first administrator, invites,     *)
(* passkeys and their challenges, sessions, roles, deletion.               *)
(*                                                                         *)
(* No handler uses a transaction.  One action is one SQL statement; a call *)
(* keeps what it has read in its record and names the statement that comes *)
(* next.  A handler with one statement is one action.  A session is a      *)
(* signed cookie: it says who and in which role for 8 hours, and nothing   *)
(* in the database can take it back.                                       *)
(***************************************************************************)
EXTENDS Integers

CONSTANTS
  Users,          \* ids of user rows; the id of a deleted row is not used again
  Creds,          \* authenticators that can be registered
  Calls,          \* slots for HTTP calls in progress
  Roles,          \* the roles in use
  MaxChallenges,  \* bound on the challenges issued
  NoUser, NoCred, NoRole

ROLE_HIERARCHY == <<"requester", "viewer", "manager", "admin">>

ASSUME ConstantsAssumption ==
  /\ NoUser \notin Users
  /\ NoCred \notin Creds
  /\ "admin" \in Roles
  /\ Roles \subseteq {"requester", "viewer", "manager", "admin"}
  /\ NoRole \notin Roles
  /\ MaxChallenges \in Nat

VARIABLES
  role,        \* users: their role, NoRole if there is no row
  invite,      \* invite_tokens, one per user at most
  owner,       \* passkey_credentials
  challenge,   \* webauthn_challenges in the order they were created
  sessions,    \* the cookies that browsers hold
  call,        \* calls in progress
  deleted,     \* history: users whose row was deleted
  founders,    \* history: users created as the first one
  halfMade,    \* history: users whose invite could not be inserted
  taken,       \* history: what can be used once and has been
  reused,      \* history: what was used again
  contended,   \* history: what was read while another call was using it, or
               \* was used by a call that failed before marking it
  overreach    \* history: a session has acted beyond its user's present role

rows == <<role, invite, owner, challenge>>
history == <<deleted, founders, halfMade, taken, reused, contended, overreach>>
vars == <<rows, sessions, call, history>>

Numbers == 1 .. MaxChallenges
Exists(u) == role[u] # NoRole
Fresh(u) == ~Exists(u) /\ u \notin deleted

\* SELECT COUNT(*) FROM users = 0, in setup-status and its two users.
NeedsSetup == \A u \in Users : ~Exists(u)

HasPasskey(u) == \E c \in Creds : owner[c] = u

getRoleLevel(r) == CHOOSE i \in DOMAIN ROLE_HIERARCHY : ROLE_HIERARCHY[i] = r

\* The role is the session's, not the row's.
requireRole(s, r) == s \in sessions /\ getRoleLevel(s.role) >= getRoleLevel(r)

createSession(u, r) == [user |-> u, role |-> r]

\* What may be used once.
Setup == <<"setup", NoUser>>
InviteOf(u) == <<"invite", u>>
Challenge(n) == <<"challenge", n>>
Items == {Setup} \union {InviteOf(u) : u \in Users}
                 \union {Challenge(n) : n \in Numbers}

Use(x) ==
  /\ taken' = taken \union {x}
  /\ reused' = IF x \in taken THEN reused \union {x} ELSE reused

Idle == [step |-> "idle", via |-> "none", user |-> NoUser, role |-> NoRole,
         chal |-> 0, cred |-> NoCred]

Begin(q, c) == call[q] = Idle /\ call' = [call EXCEPT ![q] = c]
Step(q, s) == call' = [call EXCEPT ![q].step = s]
Done(q) == call' = [call EXCEPT ![q] = Idle]
At(q, s) == call[q].step = s

\* Call q has read x as unused and has not marked it yet.
Holds(q, x) ==
  \/ x = Setup /\ At(q, "insertFirst")
  \/ x = InviteOf(call[q].user) /\ At(q, "markUsed")
  \/ x = Challenge(call[q].chal) /\ call[q].chal # 0
       /\ call[q].step \in {"insertCredential", "updateCounter", "deleteChallenge"}

Contend(x) ==
  contended' = IF \E q \in Calls : Holds(q, x) THEN contended \union {x}
               ELSE contended

-------------------------------------------------------------------------------
\* The first administrator: POST setup (via "setup") and POST register-options
\* (via "form") count the users and then insert one.
countUsers(q, via) ==
  /\ NeedsSetup
  /\ Begin(q, [Idle EXCEPT !.step = "insertFirst", !.via = via])
  /\ Contend(Setup)
  /\ UNCHANGED <<rows, sessions, deleted, founders, halfMade, taken, reused, overreach>>

\* A setup is used again if it creates an administrator beside other users.
insertFirst(q, u) ==
  /\ At(q, "insertFirst")
  /\ Fresh(u)
  /\ role' = [role EXCEPT ![u] = "admin"]
  /\ founders' = founders \union {u}
  /\ IF call[q].via = "setup"
       THEN /\ sessions' = sessions \union {createSession(u, "admin")}
            /\ Done(q)
       ELSE /\ call' = [call EXCEPT ![q].step = "cleanup", ![q].user = u]
            /\ UNCHANGED sessions
  /\ reused' = IF NeedsSetup THEN reused ELSE reused \union {Setup}
  /\ UNCHANGED <<invite, owner, challenge, deleted, halfMade, taken, contended,
                 overreach>>

\* register-options for a user an administrator has created.
selectByName(q, u) ==
  /\ Exists(u)
  /\ Begin(q, [Idle EXCEPT !.step = "countCredentials", !.user = u])
  /\ UNCHANGED <<rows, sessions, history>>

countCredentials(q) ==
  /\ At(q, "countCredentials")
  /\ IF HasPasskey(call[q].user) THEN Done(q) ELSE Step(q, "cleanup")
  /\ UNCHANGED <<rows, sessions, history>>

\* register-passkey: the session's user, if there still is one.
registerPasskey(q, s) ==
  /\ s \in sessions
  /\ Exists(s.user)
  /\ Begin(q, [Idle EXCEPT !.step = "cleanup", !.user = s.user])
  /\ UNCHANGED <<rows, sessions, history>>

loginOptions(q) ==
  /\ Begin(q, [Idle EXCEPT !.step = "cleanup"])
  /\ UNCHANGED <<rows, sessions, history>>

\* The first statement of generateRegistrationOpts and generateAuthenticationOpts ...
cleanupExpiredChallenges(q) ==
  /\ At(q, "cleanup")
  /\ challenge' = [n \in DOMAIN challenge |->
                     IF challenge[n].state = "expired"
                     THEN [user |-> NoUser, state |-> "gone"] ELSE challenge[n]]
  /\ Step(q, "insertChallenge")
  /\ UNCHANGED <<role, invite, owner, sessions, history>>

\* ... and the last: a challenge for the next free number.
newChallenge(u) ==
  \E n \in Numbers :
    /\ challenge[n].state = "none"
    /\ \A m \in 1 .. (n - 1) : challenge[m].state # "none"
    /\ challenge' = [challenge EXCEPT ![n] = [user |-> u, state |-> "valid"]]

\* It is the user's, and fails if the user is gone ...
insertChallenge(q) ==
  LET u == call[q].user IN
  /\ At(q, "insertChallenge")
  /\ u # NoUser
  /\ IF Exists(u) THEN newChallenge(u) ELSE UNCHANGED challenge
  /\ Done(q)
  /\ UNCHANGED <<role, invite, owner, sessions, history>>

\* ... or nobody's, for a login.
insertLoginChallenge(q) ==
  /\ At(q, "insertChallenge")
  /\ call[q].user = NoUser
  /\ newChallenge(NoUser)
  /\ Done(q)
  /\ UNCHANGED <<role, invite, owner, sessions, history>>

-------------------------------------------------------------------------------
\* verifyRegistration picks the user's latest challenge that has not expired.
Offered(u, n) == challenge[n] = [user |-> u, state |-> "valid"]
Latest(u, n) == Offered(u, n) /\ \A m \in Numbers : Offered(u, m) => m <= n

\* The response of authenticator c answers challenge n.
verifyRegistration(q, u, n, c, via) ==
  /\ Latest(u, n)
  /\ Begin(q, [Idle EXCEPT !.step = "insertCredential", !.via = via, !.user = u,
                           !.chal = n, !.cred = c])
  /\ Contend(Challenge(n))
  /\ UNCHANGED <<rows, sessions, deleted, founders, halfMade, taken, reused, overreach>>

\* POST register, and register-passkey-verify under a session.
register(q, u, n, c) == verifyRegistration(q, u, n, c, "form")

registerPasskeyVerify(q, s, n, c) ==
  /\ s \in sessions
  /\ verifyRegistration(q, s.user, n, c, "session")

\* Fails if the credential is known already or the user is gone.
insertCredential(q) ==
  LET c == call[q].cred
      u == call[q].user IN
  /\ At(q, "insertCredential")
  /\ IF owner[c] = NoUser /\ Exists(u)
       THEN /\ owner' = [owner EXCEPT ![c] = u]
            /\ Use(Challenge(call[q].chal))
            /\ Step(q, "deleteChallenge")
       ELSE /\ Done(q)
            /\ UNCHANGED <<owner, taken, reused>>
  /\ UNCHANGED <<role, invite, challenge, sessions, deleted, founders, halfMade,
                 contended, overreach>>

\* Shared with verifyAuthentication.
deleteChallenge(q) ==
  /\ At(q, "deleteChallenge")
  /\ challenge' = [challenge EXCEPT ![call[q].chal] = [user |-> NoUser, state |-> "gone"]]
  /\ IF call[q].via = "session" THEN Done(q) ELSE Step(q, "openSession")
  /\ UNCHANGED <<role, invite, owner, sessions, history>>

\* Mutant: the user is not looked for again.
openSessionAny(q) ==
  LET u == call[q].user IN
  /\ At(q, "openSession")
  /\ sessions' = sessions \union {createSession(u, role[u])}
  /\ Done(q)
  /\ UNCHANGED <<rows, history>>

\* Both POST register and POST login end with reading the user again, who gets
\* a session unless deleted meanwhile.
openSession(q) ==
  LET u == call[q].user IN
  /\ At(q, "openSession")
  /\ sessions' = IF Exists(u)
                 THEN sessions \union {createSession(u, role[u])} ELSE sessions
  /\ Done(q)
  /\ UNCHANGED <<rows, history>>

\* POST login: the credential, then all valid challenges of logins, of which
\* the response answers n.
selectCredential(q, c) ==
  /\ owner[c] # NoUser
  /\ Begin(q, [Idle EXCEPT !.step = "selectChallenges", !.via = "login",
                           !.user = owner[c], !.cred = c])
  /\ UNCHANGED <<rows, sessions, history>>

selectChallenges(q, n) ==
  /\ At(q, "selectChallenges")
  /\ Offered(NoUser, n)
  /\ call' = [call EXCEPT ![q].step = "updateCounter", ![q].chal = n]
  /\ Contend(Challenge(n))
  /\ UNCHANGED <<rows, sessions, deleted, founders, halfMade, taken, reused, overreach>>

updateCounter(q) ==
  /\ At(q, "updateCounter")
  /\ Use(Challenge(call[q].chal))
  /\ Step(q, "deleteChallenge")
  /\ UNCHANGED <<rows, sessions, deleted, founders, halfMade, contended, overreach>>

-------------------------------------------------------------------------------
\* POST /api/users: the user, then the invite.
createUser(q, s, r) ==
  /\ requireRole(s, "admin")
  /\ Begin(q, [Idle EXCEPT !.step = "insertUser", !.role = r])
  /\ UNCHANGED <<rows, sessions, history>>

insertUser(q, u) ==
  /\ At(q, "insertUser")
  /\ Fresh(u)
  /\ role' = [role EXCEPT ![u] = call[q].role]
  /\ call' = [call EXCEPT ![q].step = "insertInvite", ![q].user = u]
  /\ UNCHANGED <<invite, owner, challenge, sessions, history>>

\* Mutant: the invite does not check that the user is still there.
insertInviteAny(q) ==
  /\ At(q, "insertInvite")
  /\ invite' = [invite EXCEPT ![call[q].user] = "open"]
  /\ Done(q)
  /\ UNCHANGED <<role, owner, challenge, sessions, history>>

insertInvite(q) ==
  LET u == call[q].user IN
  /\ At(q, "insertInvite")
  /\ invite' = IF Exists(u) THEN [invite EXCEPT ![u] = "open"] ELSE invite
  /\ Done(q)
  /\ UNCHANGED <<role, owner, challenge, sessions, history>>

\* Mutant: a used invite is accepted too.
acceptInviteUsed(q, u) ==
  /\ Exists(u) /\ invite[u] \in {"open", "used"}
  /\ Begin(q, [Idle EXCEPT !.step = "markUsed", !.user = u, !.role = role[u]])
  /\ Contend(InviteOf(u))
  /\ UNCHANGED <<rows, sessions, deleted, founders, halfMade, taken, reused, overreach>>

\* POST /api/invite/:token/accept: the invite and the user's role in one query,
\* then the mark.  The session bears the role that was read; the mark does not
\* fail if the row is gone.
acceptInvite(q, u) ==
  /\ Exists(u) /\ invite[u] = "open"
  /\ Begin(q, [Idle EXCEPT !.step = "markUsed", !.user = u, !.role = role[u]])
  /\ Contend(InviteOf(u))
  /\ UNCHANGED <<rows, sessions, deleted, founders, halfMade, taken, reused, overreach>>

markUsed(q) ==
  LET u == call[q].user IN
  /\ At(q, "markUsed")
  /\ invite' = IF invite[u] = "none" THEN invite ELSE [invite EXCEPT ![u] = "used"]
  /\ sessions' = sessions \union {createSession(u, call[q].role)}
  /\ Use(InviteOf(u))
  /\ Done(q)
  /\ UNCHANGED <<role, owner, challenge, deleted, founders, halfMade, contended,
                 overreach>>

-------------------------------------------------------------------------------
\* What a session does although its user is no administrator any more.
Overreach(s) == overreach' = (overreach \/ role[s.user] # "admin")

\* Mutant: administrators may demote themselves.
setRoleOwn(s, u, r) ==
  /\ requireRole(s, "admin")
  /\ Exists(u)
  /\ role' = [role EXCEPT ![u] = r]
  /\ Overreach(s)
  /\ UNCHANGED <<invite, owner, challenge, sessions, call, deleted, founders,
                 halfMade, taken, reused, contended>>

\* PATCH /api/users/:id
setRole(s, u, r) ==
  /\ requireRole(s, "admin")
  /\ u = s.user => r = "admin"
  /\ Exists(u)
  /\ role' = [role EXCEPT ![u] = r]
  /\ Overreach(s)
  /\ UNCHANGED <<invite, owner, challenge, sessions, call, deleted, founders,
                 halfMade, taken, reused, contended>>

\* DELETE /api/users/:id: passkeys and invites go with the user; a challenge of
\* the user, even an expired one, makes the statement fail.
deleteUser(s, u) ==
  /\ requireRole(s, "admin")
  /\ u # s.user
  /\ Exists(u)
  /\ \A n \in Numbers : challenge[n].user # u
  /\ role' = [role EXCEPT ![u] = NoRole]
  /\ invite' = [invite EXCEPT ![u] = "none"]
  /\ owner' = [c \in Creds |-> IF owner[c] = u THEN NoUser ELSE owner[c]]
  /\ deleted' = deleted \union {u}
  /\ Overreach(s)
  /\ UNCHANGED <<challenge, sessions, call, founders, halfMade, taken, reused, contended>>

\* Logout, or the end of the 8 hours.
endSession(s) ==
  /\ s \in sessions
  /\ sessions' = sessions \ {s}
  /\ UNCHANGED <<rows, call, history>>

expireInvite(u) ==
  /\ invite[u] = "open"
  /\ invite' = [invite EXCEPT ![u] = "expired"]
  /\ UNCHANGED <<role, owner, challenge, sessions, call, history>>

expireChallenge(n) ==
  /\ challenge[n].state = "valid"
  /\ challenge' = [challenge EXCEPT ![n].state = "expired"]
  /\ UNCHANGED <<role, invite, owner, sessions, call, history>>

\* A statement throws, or the process ends: the handler undoes nothing.
callFails(q) ==
  /\ call[q] # Idle
  /\ halfMade' = IF At(q, "insertInvite") THEN halfMade \union {call[q].user} ELSE halfMade
  /\ contended' = IF At(q, "deleteChallenge")
                  THEN contended \union {Challenge(call[q].chal)} ELSE contended
  /\ Done(q)
  /\ UNCHANGED <<rows, sessions, deleted, founders, taken, reused, overreach>>

-------------------------------------------------------------------------------
\* The database is empty, or has an administrator, who set it up and registered
\* every authenticator, and no sessions or challenges are left.
Init ==
  /\ \E first \in Users \union {NoUser} :
       /\ role = [u \in Users |-> IF u = first THEN "admin" ELSE NoRole]
       /\ owner = [c \in Creds |-> first]
       /\ founders = {first} \ {NoUser}
  /\ invite = [u \in Users |-> "none"]
  /\ challenge = [n \in Numbers |-> [user |-> NoUser, state |-> "none"]]
  /\ sessions = {}
  /\ call = [q \in Calls |-> Idle]
  /\ deleted = {} /\ halfMade = {}
  /\ taken = {} /\ reused = {} /\ contended = {}
  /\ overreach = FALSE

CallStep(q) ==
  \/ \E via \in {"setup", "form"} : countUsers(q, via)
  \/ \E u \in Users : insertFirst(q, u) \/ selectByName(q, u)
                        \/ insertUser(q, u) \/ acceptInvite(q, u)
  \/ countCredentials(q)
  \/ \E s \in sessions : registerPasskey(q, s)
  \/ loginOptions(q) \/ cleanupExpiredChallenges(q) \/ insertChallenge(q)
  \/ insertLoginChallenge(q)
  \/ \E n \in Numbers, c \in Creds :
       \/ \E u \in Users : register(q, u, n, c)
       \/ \E s \in sessions : registerPasskeyVerify(q, s, n, c)
  \/ insertCredential(q) \/ deleteChallenge(q) \/ openSession(q)
  \/ \E c \in Creds : selectCredential(q, c)
  \/ \E n \in Numbers : selectChallenges(q, n)
  \/ updateCounter(q)
  \/ \E s \in sessions, r \in Roles : createUser(q, s, r)
  \/ insertInvite(q) \/ markUsed(q) \/ callFails(q)

Next ==
  \/ \E q \in Calls : CallStep(q)
  \/ \E s \in sessions, u \in Users : deleteUser(s, u) \/ \E r \in Roles : setRole(s, u, r)
  \/ \E s \in sessions : endSession(s)
  \/ \E u \in Users : expireInvite(u)
  \/ \E n \in Numbers : expireChallenge(n)

Spec == Init /\ [][Next]_vars

-------------------------------------------------------------------------------
Sessions == [user : Users, role : Roles]
ChallengeRows == [user : Users \union {NoUser},
                  state : {"none", "valid", "expired", "gone"}]
Steps == {"idle", "insertFirst", "countCredentials", "cleanup", "insertChallenge",
          "insertCredential", "deleteChallenge", "openSession", "selectChallenges",
          "updateCounter", "insertUser", "insertInvite", "markUsed"}
CallRecords ==
  [step : Steps, via : {"none", "setup", "form", "session", "login"},
   user : Users \union {NoUser}, role : Roles \union {NoRole}, chal : 0 .. MaxChallenges, cred : Creds \union {NoCred}]

\* The types of the rows, sessions, calls and history variables.
TypeOK ==
  /\ role \in [Users -> Roles \union {NoRole}]
  /\ invite \in [Users -> {"none", "open", "used", "expired"}]
  /\ owner \in [Creds -> Users \union {NoUser}]
  /\ challenge \in [Numbers -> ChallengeRows]
  /\ sessions \subseteq Sessions
  /\ call \in [Calls -> CallRecords]
  /\ deleted \subseteq Users /\ founders \subseteq Users /\ halfMade \subseteq Users
  /\ taken \subseteq Items /\ reused \subseteq Items /\ contended \subseteq Items
  /\ overreach \in BOOLEAN

\* Once the first user exists there is an administrator.  None is left only after a
\* session acted that had outlived its user's role, as when two administrators demote
\* or delete each other (users.ts:212 and :246 look at the session, not at the row).
AdminRemains ==
  overreach \/ (NeedsSetup /\ deleted = {}) \/ \E u \in Users : role[u] = "admin"

\* The setup, an invite and a challenge serve once.  They serve twice only if
\* a second call read them before the first had marked them, or if that first
\* call failed before it did; the setup also if administrators who were none any
\* more have deleted everybody, and one of them creates a user beside it.
UsedOnce == reused \subseteq contended \union {x \in {Setup} : overreach}

InCreation(q, u) == At(q, "insertInvite") /\ call[q].user = u

\* Passkeys, invites and registration challenges belong to users that exist,
\* also if the user is deleted while a registration or a creation is under way;
\* and a user without an invite was the first one, or is in the middle of being
\* created, or that failed half-way.
RowsAgree ==
  /\ \A c \in Creds : owner[c] # NoUser => Exists(owner[c])
  /\ \A n \in Numbers : challenge[n].user # NoUser => Exists(challenge[n].user)
  /\ \A u \in Users :
       /\ invite[u] # "none" => Exists(u)
       /\ Exists(u) /\ invite[u] = "none" =>
            \/ u \in founders \union halfMade
            \/ \E q \in Calls : InCreation(q, u)
-------------------------------------------------------------------------------
\* The strengthening that makes AdminRemains, UsedOnce and RowsAgree inductive.

\* What a call has in hand at a step that needs it.
Ready(c) ==
  /\ c.step \in {"countCredentials", "insertCredential", "deleteChallenge", "openSession",
                 "selectChallenges", "updateCounter", "insertInvite", "markUsed"} =>
       c.user \in Users
  /\ c.step \in {"insertCredential", "updateCounter", "deleteChallenge"} => c.chal \in Numbers
  /\ c.step = "insertCredential" => c.cred \in Creds
  /\ c.step \in {"insertUser", "markUsed"} => c.role \in Roles

Operands == \A q \in Calls : Ready(call[q])

\* There is a user, or there was one.
Founded == ~NeedsSetup \/ deleted # {}

\* Sessions, and calls that make users or sessions without looking, come from users.
FromUsers ==
  /\ sessions # {} => Founded
  /\ \A q \in Calls : call[q].step \in {"insertUser", "markUsed"} => Founded

\* A setup that is overtaken was read by two calls.
SetupOvertaken ==
  \A q \in Calls : At(q, "insertFirst") /\ ~NeedsSetup => Setup \in contended \/ overreach

\* What two calls hold at a time, the second one has read while the first held it.
Overlaps ==
  \A q, r \in Calls, x \in Items :
    q # r /\ Holds(q, x) /\ Holds(r, x) => x \in contended

\* Call q is about to use x.
Uses(q, x) ==
  \/ x = InviteOf(call[q].user) /\ At(q, "markUsed")
  \/ x = Challenge(call[q].chal) /\ call[q].step \in {"insertCredential", "updateCounter"}

SecondUse ==
  \A q \in Calls, x \in Items : Uses(q, x) /\ x \in taken => x \in contended

\* A user who is not there yet, or whose invite is not, has no invite in use.
InvitesFresh ==
  \A u \in Users :
    /\ invite[u] = "open" => InviteOf(u) \notin taken
    /\ Fresh(u) \/ (\E q \in Calls : InCreation(q, u)) =>
         /\ invite[u] = "none" /\ InviteOf(u) \notin taken
         /\ \A r \in Calls : At(r, "markUsed") => call[r].user # u
    /\ Fresh(u) => \A q \in Calls : ~InCreation(q, u)
    /\ \A q, r \in Calls : InCreation(q, u) /\ InCreation(r, u) => q = r

\* A challenge that has been used is about to be deleted.
ChallengesFresh ==
  \A n \in Numbers :
    /\ challenge[n].state = "none" =>
         /\ Challenge(n) \notin taken
         /\ \A q \in Calls : ~Holds(q, Challenge(n))
    /\ challenge[n].state = "valid" /\ Challenge(n) \in taken =>
         \/ Challenge(n) \in contended
         \/ \E q \in Calls : At(q, "deleteChallenge") /\ call[q].chal = n

Typed == TypeOK /\ Operands
Governed == AdminRemains /\ FromUsers
Once == /\ SetupOvertaken /\ Overlaps /\ SecondUse /\ InvitesFresh /\ ChallengesFresh
        /\ UsedOnce

IInv == Typed /\ RowsAgree /\ Governed /\ Once
===============================================================================
