----------------------------- MODULE TokenRequests -----------------------------
(***************************************************************************)
(* Requests for tokens (packages/api/src/routes/token-requests.ts): a user *)
(* asks, a manager approves or denies.  An approval is four awaited calls  *)
(* without a transaction: it reads the request, creates a mapping, grants  *)
(* the requester access to it and marks the request.  A denial reads, and  *)
(* then marks what is still pending.                                       *)
(*                                                                         *)
(* One action is one SQL statement.  The memcached calls of createToken    *)
(* are TokenVault's; here they are a way for an approval to fail after the *)
(* mapping was inserted.                                                   *)
(***************************************************************************)
EXTENDS Naturals

CONSTANTS
  Users, NoUser,
  Managers,          \* those whose session says manager or admin
  Requests, NoRequest,
  Tokens, NoToken,   \* mappings that can be created
  Calls,             \* slots for HTTP calls in progress
  Faults             \* {"fail"} if calls may fail, or {}

ASSUME ConstantsAssumption ==
  /\ NoUser \notin Users
  /\ Managers \subseteq Users
  /\ NoRequest \notin Requests
  /\ NoToken \notin Tokens

VARIABLES
  status, user_id, approved_by, token_id,  \* rows of token_requests
  created_by,        \* rows of token_mappings
  access,            \* rows of token_access: user and mapping
  pc, user, req, tok,\* calls: next statement and local variables
  made,              \* history: the request a mapping was created for
  shared,            \* history: requests of which two decisions overlapped
  lost,              \* history: mappings whose approval failed half-way
  withdrawn          \* history: access that a manager removed

rows == <<status, user_id, approved_by, token_id>>
calls == <<pc, user, req, tok>>
vars == <<rows, created_by, access, calls, made, shared, lost, withdrawn>>

Decided(r) == status[r] \in {"approved", "denied"}
ApproveSteps == {"create", "grant", "update"}

\* Call c has read request r and not yet marked it.
Approving(c, r) == pc[c] \in ApproveSteps /\ req[c] = r
Deciding(c, r) == pc[c] # "idle" /\ req[c] = r

-------------------------------------------------------------------------------
\* POST /api/tokens/requests
createRequest(u, r) ==
  /\ status[r] = "absent"
  /\ status' = [status EXCEPT ![r] = "pending"]
  /\ user_id' = [user_id EXCEPT ![r] = u]
  /\ UNCHANGED <<approved_by, token_id, created_by, access, calls, made, shared,
                 lost, withdrawn>>

CallBegins(c, u, r, step) ==
  /\ pc[c] = "idle"
  /\ pc' = [pc EXCEPT ![c] = step]
  /\ user' = [user EXCEPT ![c] = u]
  /\ req' = [req EXCEPT ![c] = r]
  /\ UNCHANGED tok

CallEnds(c) ==
  /\ pc' = [pc EXCEPT ![c] = "idle"]
  /\ user' = [user EXCEPT ![c] = NoUser]
  /\ req' = [req EXCEPT ![c] = NoRequest]
  /\ tok' = [tok EXCEPT ![c] = NoToken]

\* Mutant: a request that is decided already can be approved again.
approveSelectAny(c, u, r) ==
  /\ u \in Managers
  /\ status[r] # "absent"
  /\ user_id[r] # u
  /\ CallBegins(c, u, r, "create")
  /\ shared' = IF \E d \in Calls : Deciding(d, r) THEN shared \union {r} ELSE shared
  /\ UNCHANGED <<rows, created_by, access, made, lost, withdrawn>>

\* POST .../approve reads the request; it answers 404 unless it is pending and
\* 403 if it is the manager's own.
approveSelect(c, u, r) ==
  /\ u \in Managers
  /\ status[r] = "pending"
  /\ user_id[r] # u
  /\ CallBegins(c, u, r, "create")
  /\ shared' = IF \E d \in Calls : Deciding(d, r) THEN shared \union {r} ELSE shared
  /\ UNCHANGED <<rows, created_by, access, made, lost, withdrawn>>

\* createToken inserts a mapping.
createToken(c) ==
  /\ pc[c] = "create"
  /\ \E t \in Tokens :
       /\ created_by[t] = NoUser
       /\ created_by' = [created_by EXCEPT ![t] = user[c]]
       /\ made' = [made EXCEPT ![t] = req[c]]
       /\ tok' = [tok EXCEPT ![c] = t]
  /\ pc' = [pc EXCEPT ![c] = "grant"]
  /\ UNCHANGED <<rows, access, user, req, shared, lost, withdrawn>>

\* INSERT INTO token_access ... ON CONFLICT DO NOTHING, for the requester.
grantAccess(c) ==
  /\ pc[c] = "grant"
  /\ access' = access \union {<<user_id[req[c]], tok[c]>>}
  /\ pc' = [pc EXCEPT ![c] = "update"]
  /\ UNCHANGED <<rows, created_by, user, req, tok, made, shared, lost, withdrawn>>

\* Mutant: a mapping that is linked already stays (token_id = COALESCE(...)).
approveUpdateCoalesce(c) ==
  /\ pc[c] = "update"
  /\ status' = [status EXCEPT ![req[c]] = "approved"]
  /\ approved_by' = [approved_by EXCEPT ![req[c]] = user[c]]
  /\ token_id' = [token_id EXCEPT ![req[c]] = IF @ = NoToken THEN tok[c] ELSE @]
  /\ CallEnds(c)
  /\ UNCHANGED <<user_id, created_by, access, made, shared, lost, withdrawn>>

\* The request is marked, whatever its status is by now.
approveUpdate(c) ==
  /\ pc[c] = "update"
  /\ status' = [status EXCEPT ![req[c]] = "approved"]
  /\ approved_by' = [approved_by EXCEPT ![req[c]] = user[c]]
  /\ token_id' = [token_id EXCEPT ![req[c]] = tok[c]]
  /\ CallEnds(c)
  /\ UNCHANGED <<user_id, created_by, access, made, shared, lost, withdrawn>>

\* POST .../deny reads the request and answers 403 if it is pending and the
\* manager's own; one that is not pending is left to the UPDATE.
denySelect(c, u, r) ==
  /\ u \in Managers
  /\ status[r] # "absent"
  /\ ~(status[r] = "pending" /\ user_id[r] = u)
  /\ CallBegins(c, u, r, "deny")
  /\ shared' = IF \E d \in Calls : Approving(d, r) THEN shared \union {r} ELSE shared
  /\ UNCHANGED <<rows, created_by, access, made, lost, withdrawn>>

\* Mutant: the denial trusts what it has read.
denyUpdateUnchecked(c) ==
  /\ pc[c] = "deny"
  /\ status' = [status EXCEPT ![req[c]] = "denied"]
  /\ approved_by' = [approved_by EXCEPT ![req[c]] = user[c]]
  /\ CallEnds(c)
  /\ UNCHANGED <<user_id, token_id, created_by, access, made, shared, lost, withdrawn>>

\* UPDATE ... WHERE status = 'pending'; without such a row the answer is 404.
denyUpdate(c) ==
  /\ pc[c] = "deny"
  /\ IF status[req[c]] = "pending"
       THEN /\ status' = [status EXCEPT ![req[c]] = "denied"]
            /\ approved_by' = [approved_by EXCEPT ![req[c]] = user[c]]
       ELSE UNCHANGED <<status, approved_by>>
  /\ CallEnds(c)
  /\ UNCHANGED <<user_id, token_id, created_by, access, made, shared, lost, withdrawn>>

\* A statement or a memcached call fails, or the process dies: the handler ends
\* with what it has done so far.  A statement that was carried out although it
\* failed is that statement followed by this.
callFails(c) ==
  /\ "fail" \in Faults
  /\ pc[c] # "idle"
  /\ lost' = IF pc[c] \in {"grant", "update"} THEN lost \union {tok[c]} ELSE lost
  /\ CallEnds(c)
  /\ UNCHANGED <<rows, created_by, access, made, shared, withdrawn>>

\* DELETE /api/tokens/:id/access/users/:userId (routes/tokens.ts).
removeAccess(a) ==
  /\ a \in access
  /\ access' = access \ {a}
  /\ withdrawn' = withdrawn \union {a}
  /\ UNCHANGED <<rows, created_by, calls, made, shared, lost>>

-------------------------------------------------------------------------------
Init ==
  /\ status = [r \in Requests |-> "absent"]
  /\ user_id = [r \in Requests |-> NoUser]
  /\ approved_by = [r \in Requests |-> NoUser]
  /\ token_id = [r \in Requests |-> NoToken]
  /\ created_by = [t \in Tokens |-> NoUser]
  /\ access = {}
  /\ pc = [c \in Calls |-> "idle"]
  /\ user = [c \in Calls |-> NoUser]
  /\ req = [c \in Calls |-> NoRequest]
  /\ tok = [c \in Calls |-> NoToken]
  /\ made = [t \in Tokens |-> NoRequest]
  /\ shared = {}
  /\ lost = {}
  /\ withdrawn = {}

CallNext(c) ==
  \/ \E u \in Users, r \in Requests : approveSelect(c, u, r) \/ denySelect(c, u, r)
  \/ createToken(c)
  \/ grantAccess(c)
  \/ approveUpdate(c)
  \/ denyUpdate(c)
  \/ callFails(c)

Next ==
  \/ \E u \in Users, r \in Requests : createRequest(u, r)
  \/ \E c \in Calls : CallNext(c)
  \/ \E a \in Users \X Tokens : removeAccess(a)

Spec == Init /\ [][Next]_vars

-------------------------------------------------------------------------------
RowTypes ==
  /\ status \in [Requests -> {"absent", "pending", "approved", "denied"}]
  /\ user_id \in [Requests -> Users \union {NoUser}]
  /\ approved_by \in [Requests -> Users \union {NoUser}]
  /\ token_id \in [Requests -> Tokens \union {NoToken}]
  /\ created_by \in [Tokens -> Users \union {NoUser}]
  /\ access \subseteq Users \X Tokens

CallTypes ==
  /\ pc \in [Calls -> ApproveSteps \union {"idle", "deny"}]
  /\ user \in [Calls -> Users \union {NoUser}]
  /\ req \in [Calls -> Requests \union {NoRequest}]
  /\ tok \in [Calls -> Tokens \union {NoToken}]

\* The columns go with the status, whatever overlaps or fails: a requester from
\* the start, an approver once it is decided, a mapping exactly if approved.
Columns ==
  \A r \in Requests :
    /\ user_id[r] = NoUser <=> status[r] = "absent"
    /\ approved_by[r] # NoUser <=> Decided(r)
    /\ token_id[r] # NoToken <=> status[r] = "approved"

\* Rows and calls have their types, and the columns of a row fit together.
TypeOK ==
  /\ RowTypes
  /\ CallTypes
  /\ made \in [Tokens -> Requests \union {NoRequest}]
  /\ shared \subseteq Requests
  /\ lost \subseteq Tokens
  /\ withdrawn \subseteq Users \X Tokens
  /\ Columns

\* Nobody decides on a request of their own: who has marked it is a manager and
\* not the one who asked, although the check and the mark are separate calls.
NoSelfDecision ==
  \A r \in Requests :
    Decided(r) => approved_by[r] \in Managers /\ approved_by[r] # user_id[r]

\* An approved request is linked to a mapping that was created for it by the
\* manager who is named as its approver, and the requester has been granted
\* access to it; also when approvals overlap and overwrite one another.
LinkedMapping ==
  \A r \in Requests : status[r] = "approved" =>
    /\ made[token_id[r]] = r
    /\ created_by[token_id[r]] = approved_by[r]
    /\ <<user_id[r], token_id[r]>> \in access \union withdrawn

\* The approval that created t is still in progress.
InProgress(t) == \E c \in Calls : tok[c] = t

\* Of a request whose decisions did not overlap every mapping is linked, on its
\* way, or of an approval that failed: so at most one that did not fail.
NoStrayMapping ==
  \A t \in Tokens : made[t] \in Requests \ shared =>
    token_id[made[t]] = t \/ InProgress(t) \/ t \in lost

\* An approval is never taken back: no denial, however late, undoes it.
ApprovedForGood ==
  [][\A r \in Requests : status[r] = "approved" => status'[r] = "approved"]_vars

\* A decision is final unless it overlapped with another one.
FinalUnlessShared ==
  [][\A r \in Requests \ shared :
       Decided(r) => /\ status'[r] = status[r]
                     /\ approved_by'[r] = approved_by[r]
                     /\ token_id'[r] = token_id[r]]_vars

-------------------------------------------------------------------------------
\* The strengthening that makes these inductive.

\* A call in progress has its operands, and what made it pass the check on the
\* requester still holds when it marks the request.
Operands ==
  \A c \in Calls : pc[c] # "idle" =>
    /\ user[c] \in Managers
    /\ req[c] \in Requests
    /\ status[req[c]] # "absent"
    /\ user[c] = user_id[req[c]] => pc[c] = "deny" /\ status[req[c]] # "pending"

\* What an approval has made so far: its mapping, and then the access to it.
Produced ==
  \A c \in Calls :
    /\ pc[c] \in {"grant", "update"} => /\ tok[c] \in Tokens
                                       /\ made[tok[c]] = req[c]
                                       /\ created_by[tok[c]] = user[c]
    /\ pc[c] = "update" => <<user_id[req[c]], tok[c]>> \in access \union withdrawn
    /\ pc[c] \notin {"grant", "update"} => tok[c] = NoToken

\* An approval whose request is not in shared is the only call about it and
\* finds it pending.
ApprovesAlone ==
  \A c \in Calls : pc[c] \in ApproveSteps /\ req[c] \notin shared =>
    /\ status[req[c]] = "pending"
    /\ \A d \in Calls : Deciding(d, req[c]) => d = c

IInv ==
  /\ TypeOK
  /\ Operands
  /\ Produced
  /\ ApprovesAlone
  /\ NoSelfDecision
  /\ LinkedMapping
  /\ NoStrayMapping

===============================================================================
