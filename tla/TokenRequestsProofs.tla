-------------------------- MODULE TokenRequestsProofs --------------------------
(***************************************************************************)
(* Theorems about TokenRequests, for every number of users, requests,      *)
(* mappings and calls in progress.                                         *)
(***************************************************************************)
EXTENDS TokenRequests, TLAPS

-------------------------------------------------------------------------------
\* Each action keeps the invariant: one lemma per action, one step per conjunct.

\* A new request has no approver and no mapping, and no call is about it.
LEMMA CreateRequestKeeps ==
  ASSUME IInv, NEW u \in Users, NEW r \in Requests, createRequest(u, r)
  PROVE  IInv'
<1> USE DEF IInv, rows, calls, createRequest
<1>1. TypeOK'
  BY ConstantsAssumption DEF TypeOK, RowTypes, CallTypes, Columns, Decided
<1>2. Operands'
  BY DEF TypeOK, RowTypes, Operands
<1>3. Produced'
  BY DEF TypeOK, RowTypes, Operands, Produced
<1>4. ApprovesAlone'
  BY DEF TypeOK, RowTypes, ApprovesAlone, Deciding
<1>5. NoSelfDecision' /\ LinkedMapping'
  BY DEF TypeOK, RowTypes, NoSelfDecision, LinkedMapping, Decided
<1>6. NoStrayMapping'
  BY DEF NoStrayMapping, InProgress
<1> QED
  BY <1>1, <1>2, <1>3, <1>4, <1>5, <1>6

\* An approval that begins finds the request pending, and if another call is
\* about it the request is shared from here on.
LEMMA ApproveSelectKeeps ==
  ASSUME IInv, NEW c \in Calls, NEW u \in Users, NEW r \in Requests,
         approveSelect(c, u, r)
  PROVE  IInv'
<1> USE DEF IInv, rows, calls, approveSelect, CallBegins
<1>1. TypeOK'
  BY DEF TypeOK, RowTypes, CallTypes, Columns, Decided, ApproveSteps
<1>2. Operands'
  BY DEF TypeOK, CallTypes, Operands
<1>3. Produced'
  BY DEF TypeOK, CallTypes, Produced
<1>4. ApprovesAlone'
  BY DEF TypeOK, CallTypes, ApprovesAlone, Deciding, ApproveSteps
<1>5. NoSelfDecision' /\ LinkedMapping'
  BY DEF NoSelfDecision, LinkedMapping, Decided
<1>6. NoStrayMapping'
  BY DEF TypeOK, NoStrayMapping, InProgress
<1> QED
  BY <1>1, <1>2, <1>3, <1>4, <1>5, <1>6

\* A denial that begins while an approval is under way makes the request shared.
LEMMA DenySelectKeeps ==
  ASSUME IInv, NEW c \in Calls, NEW u \in Users, NEW r \in Requests,
         denySelect(c, u, r)
  PROVE  IInv'
<1> USE DEF IInv, rows, calls, denySelect, CallBegins
<1>1. TypeOK'
  BY DEF TypeOK, RowTypes, CallTypes, Columns, Decided, ApproveSteps
<1>2. Operands'
  BY DEF TypeOK, CallTypes, Operands
<1>3. Produced'
  BY DEF TypeOK, CallTypes, Produced
<1>4. ApprovesAlone'
  BY DEF TypeOK, CallTypes, ApprovesAlone, Deciding, Approving, ApproveSteps
<1>5. NoSelfDecision' /\ LinkedMapping'
  BY DEF NoSelfDecision, LinkedMapping, Decided
<1>6. NoStrayMapping'
  BY DEF TypeOK, NoStrayMapping, InProgress
<1> QED
  BY <1>1, <1>2, <1>3, <1>4, <1>5, <1>6

\* A mapping that is inserted has a new id: those that are linked or on their way
\* have a creator already.
LEMMA CreateTokenKeeps ==
  ASSUME IInv, NEW c \in Calls, createToken(c)
  PROVE  IInv'
<1> USE DEF IInv, rows, calls
<1> PICK t \in Tokens : /\ created_by[t] = NoUser
                        /\ created_by' = [created_by EXCEPT ![t] = user[c]]
                        /\ made' = [made EXCEPT ![t] = req[c]]
                        /\ tok' = [tok EXCEPT ![c] = t]
  BY DEF createToken
<1>a. /\ pc[c] = "create"
      /\ pc' = [pc EXCEPT ![c] = "grant"]
      /\ UNCHANGED <<rows, access, user, req, shared, lost, withdrawn>>
  BY DEF createToken
<1>b. user[c] \in Managers /\ req[c] \in Requests
  BY <1>a DEF Operands
<1>1. TypeOK'
  BY <1>a, <1>b, ConstantsAssumption
  DEF TypeOK, RowTypes, CallTypes, Columns, Decided, ApproveSteps
<1>2. Operands'
  BY <1>a DEF TypeOK, CallTypes, Operands
<1>3. Produced'
  <2> SUFFICES ASSUME NEW d \in Calls
               PROVE  Produced!(d)'
    BY DEF Produced
  <2>1. CASE d = c
    BY <1>a, <2>1 DEF TypeOK, RowTypes, CallTypes
  <2>2. CASE d # c
    <3>1. pc'[d] = pc[d] /\ tok'[d] = tok[d]
      BY <1>a, <2>2 DEF TypeOK, CallTypes
    <3>2. pc[d] \in {"grant", "update"} => tok[d] # t
      BY ConstantsAssumption DEF Produced, Operands
    <3> QED
      BY <1>a, <3>1, <3>2 DEF Produced, TypeOK, RowTypes
  <2> QED
    BY <2>1, <2>2
<1>4. ApprovesAlone'
  BY <1>a DEF TypeOK, CallTypes, ApprovesAlone, Deciding, ApproveSteps
<1>5. NoSelfDecision'
  BY <1>a DEF NoSelfDecision, Decided
<1>6. LinkedMapping'
  <2>1. ASSUME NEW r \in Requests, status[r] = "approved"
        PROVE  token_id[r] \in Tokens /\ token_id[r] # t
    BY <2>1, ConstantsAssumption
    DEF TypeOK, RowTypes, Columns, LinkedMapping, NoSelfDecision, Decided
  <2> QED
    BY <1>a, <2>1 DEF TypeOK, RowTypes, LinkedMapping
<1>7. NoStrayMapping'
  <2> SUFFICES ASSUME NEW s \in Tokens, made'[s] \in Requests \ shared'
               PROVE  token_id'[made'[s]] = s \/ InProgress(s)' \/ s \in lost'
    BY DEF NoStrayMapping
  <2>1. CASE s = t
    BY <2>1 DEF TypeOK, CallTypes, InProgress
  <2>2. CASE s # t
    <3>1. made'[s] = made[s]
      BY <2>2 DEF TypeOK
    <3>2. InProgress(s) => InProgress(s)'
      BY <1>a, ConstantsAssumption DEF TypeOK, CallTypes, InProgress, Produced
    <3> QED
      BY <1>a, <3>1, <3>2 DEF NoStrayMapping
  <2> QED
    BY <2>1, <2>2
<1> QED
  BY <1>1, <1>2, <1>3, <1>4, <1>5, <1>6, <1>7

\* The requester is granted access to the mapping of the call.
LEMMA GrantAccessKeeps ==
  ASSUME IInv, NEW c \in Calls, grantAccess(c)
  PROVE  IInv'
<1> USE DEF IInv, rows, calls, grantAccess
<1>1. TypeOK'
  BY DEF TypeOK, RowTypes, CallTypes, Columns, Decided, ApproveSteps, Operands, Produced
<1>2. Operands'
  BY DEF TypeOK, CallTypes, Operands
<1>3. Produced'
  BY DEF TypeOK, CallTypes, Produced
<1>4. ApprovesAlone'
  BY DEF TypeOK, CallTypes, ApprovesAlone, Deciding, ApproveSteps
<1>5. NoSelfDecision' /\ LinkedMapping'
  BY DEF NoSelfDecision, LinkedMapping, Decided
<1>6. NoStrayMapping'
  BY DEF NoStrayMapping, InProgress
<1> QED
  BY <1>1, <1>2, <1>3, <1>4, <1>5, <1>6

\* The mark: the request gets the approver and the mapping of one and the same
\* call.  If it is not shared, no other call is about it and no other mapping
\* was linked to it.
LEMMA ApproveUpdateKeeps ==
  ASSUME IInv, NEW c \in Calls, approveUpdate(c)
  PROVE  IInv'
<1> USE DEF IInv, rows, calls, approveUpdate, CallEnds
<1>a. /\ req[c] \in Requests /\ user[c] \in Managers /\ tok[c] \in Tokens
      /\ user[c] # user_id[req[c]]
      /\ status[req[c]] # "absent"
  BY DEF Operands, Produced
<1>1. TypeOK'
  <2>1. RowTypes' /\ CallTypes'
    BY <1>a, ConstantsAssumption DEF TypeOK, RowTypes, CallTypes, ApproveSteps
  <2>2. Columns'
    BY <1>a, ConstantsAssumption DEF TypeOK, RowTypes, Columns, Decided
  <2> QED
    BY <2>1, <2>2 DEF TypeOK
<1>2. Operands'
  BY <1>a DEF TypeOK, RowTypes, CallTypes, Operands
<1>3. Produced'
  BY <1>a DEF TypeOK, CallTypes, Produced
<1>4. ApprovesAlone'
  BY <1>a DEF TypeOK, RowTypes, CallTypes, ApprovesAlone, Deciding, ApproveSteps
<1>5. NoSelfDecision'
  BY <1>a DEF TypeOK, RowTypes, NoSelfDecision, Decided
<1>6. LinkedMapping'
  BY <1>a DEF TypeOK, RowTypes, LinkedMapping, Produced
<1>7. NoStrayMapping'
  <2> SUFFICES ASSUME NEW s \in Tokens, made[s] \in Requests \ shared
               PROVE  token_id'[made[s]] = s \/ InProgress(s)' \/ s \in lost
    BY DEF NoStrayMapping
  <2>1. CASE made[s] # req[c]
    <3>1. tok[c] # s
      BY <2>1 DEF Produced
    <3>2. InProgress(s) => InProgress(s)'
      BY <3>1 DEF TypeOK, CallTypes, InProgress
    <3> QED
      BY <2>1, <3>2 DEF NoStrayMapping, TypeOK, RowTypes
  <2>2. CASE made[s] = req[c]
    <3>1. status[req[c]] = "pending"
      BY <2>2 DEF ApprovesAlone, ApproveSteps
    <3>2. token_id[req[c]] # s
      BY <1>a, <3>1, ConstantsAssumption DEF TypeOK, Columns
    <3>3. ASSUME NEW d \in Calls, tok[d] = s
          PROVE  d = c
      <4>1. pc[d] \in {"grant", "update"} /\ req[d] = req[c]
        BY <2>2, <3>3, ConstantsAssumption DEF Produced
      <4> QED
        BY <2>2, <4>1 DEF ApprovesAlone, ApproveSteps, Deciding
    <3> QED
      BY <1>a, <2>2, <3>2, <3>3 DEF NoStrayMapping, InProgress, TypeOK, RowTypes
  <2> QED
    BY <2>1, <2>2
<1> QED
  BY <1>1, <1>2, <1>3, <1>4, <1>5, <1>6, <1>7

\* A denial marks only what is pending, and a manager whose own request is
\* pending did not get this far.
LEMMA DenyUpdateKeeps ==
  ASSUME IInv, NEW c \in Calls, denyUpdate(c)
  PROVE  IInv'
<1> USE DEF IInv, rows, calls, denyUpdate, CallEnds
<1>a. req[c] \in Requests /\ user[c] \in Managers
  BY DEF Operands
<1>1. TypeOK'
  BY <1>a, ConstantsAssumption
  DEF TypeOK, RowTypes, CallTypes, Columns, Decided, ApproveSteps
<1>2. Operands'
  <2>1. ASSUME NEW r \in Requests
        PROVE  /\ status[r] = "absent" <=> status'[r] = "absent"
               /\ status'[r] = "pending" => status[r] = "pending"
    BY DEF TypeOK, RowTypes
  <2> QED
    BY <2>1 DEF TypeOK, CallTypes, Operands
<1>3. Produced'
  BY DEF TypeOK, CallTypes, Produced
<1>4. ApprovesAlone'
  <2>1. /\ \A d \in Calls : d # c => pc'[d] = pc[d] /\ req'[d] = req[d]
        /\ pc'[c] = "idle"
        /\ UNCHANGED shared
    BY DEF TypeOK, CallTypes
  <2>2. ASSUME NEW r \in Requests, r # req[c]
        PROVE  status'[r] = status[r]
    BY <2>2 DEF TypeOK, RowTypes
  <2>3. SUFFICES ASSUME NEW e \in Calls, pc'[e] \in ApproveSteps, req'[e] \notin shared'
                 PROVE  /\ status'[req'[e]] = "pending"
                        /\ \A d \in Calls : Deciding(d, req[e])' => d = e
    BY <2>1 DEF ApprovesAlone, Deciding, ApproveSteps
  <2>4. e # c /\ pc[e] \in ApproveSteps /\ req[e] \notin shared /\ req'[e] = req[e]
    BY <2>1, <2>3 DEF ApproveSteps
  <2>5. req[e] \in Requests /\ status[req[e]] = "pending"
    BY <2>4 DEF ApprovesAlone, Operands, ApproveSteps
  <2>6. req[c] # req[e]
    BY <2>4 DEF ApprovesAlone, Deciding
  <2>7. ASSUME NEW d \in Calls, Deciding(d, req[e])'
        PROVE  d = e
    <3>1. pc'[d] # "idle" /\ req'[d] = req'[e]
      BY <2>7 DEF Deciding
    <3>2. Deciding(d, req[e])
      BY <2>1, <2>4, <3>1 DEF Deciding
    <3> QED
      BY <2>4, <3>2 DEF ApprovesAlone
  <2> QED
    BY <2>2, <2>4, <2>5, <2>6, <2>7
<1>b. status[req[c]] = "pending" => user[c] # user_id[req[c]]
  BY DEF Operands
<1>5. NoSelfDecision'
  BY <1>a, <1>b DEF TypeOK, RowTypes, NoSelfDecision, Decided
<1>6. LinkedMapping'
  BY DEF TypeOK, RowTypes, LinkedMapping, Columns
<1>7. NoStrayMapping'
  <2>1. tok[c] = NoToken
    BY DEF Produced
  <2>2. ASSUME NEW s \in Tokens, InProgress(s)
        PROVE  InProgress(s)'
    BY <2>1, <2>2, ConstantsAssumption DEF TypeOK, CallTypes, InProgress
  <2> QED
    BY <2>2 DEF NoStrayMapping
<1> QED
  BY <1>1, <1>2, <1>3, <1>4, <1>5, <1>6, <1>7

\* A failure leaves the rows alone; the mapping of the call is lost.
LEMMA CallFailsKeeps ==
  ASSUME IInv, NEW c \in Calls, callFails(c)
  PROVE  IInv'
<1> USE DEF IInv, rows, calls, callFails, CallEnds
<1>1. TypeOK'
  <2>1. RowTypes' /\ CallTypes' /\ Columns'
    BY DEF TypeOK, RowTypes, CallTypes, Columns, Decided, ApproveSteps
  <2>2. lost' \subseteq Tokens
    BY DEF TypeOK, Produced
  <2> QED
    BY <2>1, <2>2 DEF TypeOK
<1>2. Operands'
  BY DEF TypeOK, CallTypes, Operands
<1>3. Produced'
  BY DEF TypeOK, CallTypes, Produced
<1>4. ApprovesAlone'
  BY DEF TypeOK, CallTypes, ApprovesAlone, Deciding, ApproveSteps
<1>5. NoSelfDecision' /\ LinkedMapping'
  BY DEF NoSelfDecision, LinkedMapping, Decided
<1>6. NoStrayMapping'
  <2>1. lost \subseteq lost'
    OBVIOUS
  <2>2. ASSUME NEW s \in Tokens, InProgress(s)
        PROVE  InProgress(s)' \/ s \in lost'
    <3>1. PICK d \in Calls : tok[d] = s
      BY <2>2 DEF InProgress
    <3>2. CASE d = c
      BY <3>1, <3>2, ConstantsAssumption DEF Produced
    <3>3. CASE d # c
      BY <3>1, <3>3 DEF TypeOK, CallTypes, InProgress
    <3> QED
      BY <3>2, <3>3
  <2> QED
    BY <2>1, <2>2 DEF NoStrayMapping
<1> QED
  BY <1>1, <1>2, <1>3, <1>4, <1>5, <1>6

\* Access that is removed goes to withdrawn.
LEMMA RemoveAccessKeeps ==
  ASSUME IInv, NEW a \in Users \X Tokens, removeAccess(a)
  PROVE  IInv'
<1> USE DEF IInv, rows, calls, removeAccess
<1>1. TypeOK'
  BY DEF TypeOK, RowTypes, CallTypes, Columns, Decided
<1>2. Operands' /\ Produced'
  BY DEF Operands, Produced
<1>3. ApprovesAlone' /\ NoSelfDecision' /\ LinkedMapping' /\ NoStrayMapping'
  BY DEF ApprovesAlone, Deciding, NoSelfDecision, LinkedMapping, Decided,
         NoStrayMapping, InProgress
<1> QED
  BY <1>1, <1>2, <1>3

-------------------------------------------------------------------------------
LEMMA InitInv == Init => IInv
<1> SUFFICES ASSUME Init PROVE IInv
  OBVIOUS
<1> USE DEF Init
<1>1. TypeOK
  BY ConstantsAssumption DEF TypeOK, RowTypes, CallTypes, Columns, Decided
<1>2. Operands /\ Produced /\ ApprovesAlone
  BY DEF Operands, Produced, ApprovesAlone, ApproveSteps
<1>3. NoSelfDecision /\ LinkedMapping /\ NoStrayMapping
  BY ConstantsAssumption DEF NoSelfDecision, Decided, LinkedMapping, NoStrayMapping
<1> QED
  BY <1>1, <1>2, <1>3 DEF IInv

LEMMA InvStep == IInv /\ [Next]_vars => IInv'
<1> SUFFICES ASSUME IInv, [Next]_vars PROVE IInv'
  OBVIOUS
<1>1. ASSUME NEW u \in Users, NEW r \in Requests, createRequest(u, r)
      PROVE  IInv'
  BY <1>1, CreateRequestKeeps
<1>2. ASSUME NEW c \in Calls, CallNext(c)
      PROVE  IInv'
  <2>1. ASSUME NEW u \in Users, NEW r \in Requests, approveSelect(c, u, r)
        PROVE  IInv'
    BY <2>1, ApproveSelectKeeps
  <2>2. ASSUME NEW u \in Users, NEW r \in Requests, denySelect(c, u, r)
        PROVE  IInv'
    BY <2>2, DenySelectKeeps
  <2>3. CASE createToken(c)
    BY <2>3, CreateTokenKeeps
  <2>4. CASE grantAccess(c)
    BY <2>4, GrantAccessKeeps
  <2>5. CASE approveUpdate(c)
    BY <2>5, ApproveUpdateKeeps
  <2>6. CASE denyUpdate(c)
    BY <2>6, DenyUpdateKeeps
  <2>7. CASE callFails(c)
    BY <2>7, CallFailsKeeps
  <2> QED
    BY <1>2, <2>1, <2>2, <2>3, <2>4, <2>5, <2>6, <2>7 DEF CallNext
<1>3. ASSUME NEW a \in Users \X Tokens, removeAccess(a)
      PROVE  IInv'
  BY <1>3, RemoveAccessKeeps
<1>4. CASE UNCHANGED vars
  BY <1>4
  DEF vars, rows, calls, IInv, TypeOK, RowTypes, CallTypes, Columns, Decided, Operands,
      Produced, ApprovesAlone, Deciding, NoSelfDecision, LinkedMapping,
      NoStrayMapping, InProgress
<1> QED
  BY <1>1, <1>2, <1>3, <1>4 DEF Next

\* What is inductive: the properties, with how far each call in progress has come
\* and that an approval of a request that is not shared is alone with it.
THEOREM InductiveInvariant == Spec => []IInv
BY InitInv, InvStep, PTL DEF Spec

\* The columns of a request go with its status, and rows and calls keep their
\* types, whatever approvals and denials (routes/token-requests.ts) overlap or fail.
THEOREM TypeCorrect == Spec => []TypeOK
<1>1. IInv => TypeOK
  BY DEF IInv
<1> QED
  BY <1>1, InductiveInvariant, PTL

\* Whoever has marked a request is a manager and not its requester, although the
\* handlers check that some statements earlier.
THEOREM OthersDecide == Spec => []NoSelfDecision
<1>1. IInv => NoSelfDecision
  BY DEF IInv
<1> QED
  BY <1>1, InductiveInvariant, PTL

\* An approved request is linked to a mapping that its approver created for it,
\* and the requester was granted access to it.
THEOREM ApprovedIsLinked == Spec => []LinkedMapping
<1>1. IInv => LinkedMapping
  BY DEF IInv
<1> QED
  BY <1>1, InductiveInvariant, PTL

\* Mappings that approvals have created are linked, on their way or of approvals
\* that failed, unless decisions about one request overlapped.
THEOREM MappingsAccounted == Spec => []NoStrayMapping
<1>1. IInv => NoStrayMapping
  BY DEF IInv
<1> QED
  BY <1>1, InductiveInvariant, PTL

-------------------------------------------------------------------------------
\* What a step may do to a decided request.

\* The UPDATE of a denial looks at the status, so no step undoes an approval.
LEMMA ApprovedStays ==
  ASSUME IInv, [Next]_vars, NEW r \in Requests, status[r] = "approved"
  PROVE  status'[r] = "approved"
<1> USE DEF IInv, TypeOK, RowTypes
<1>1. ASSUME NEW u \in Users, NEW q \in Requests, createRequest(u, q)
      PROVE  status'[r] = "approved"
  BY <1>1 DEF createRequest
<1>2. ASSUME NEW c \in Calls, approveUpdate(c)
      PROVE  status'[r] = "approved"
  BY <1>2 DEF approveUpdate
<1>3. ASSUME NEW c \in Calls, denyUpdate(c)
      PROVE  status'[r] = "approved"
  BY <1>3 DEF denyUpdate
<1>4. ASSUME NEW c \in Calls, CallNext(c), ~approveUpdate(c), ~denyUpdate(c)
      PROVE  status' = status
  BY <1>4
  DEF CallNext, approveSelect, denySelect, createToken, grantAccess, callFails, rows
<1>5. ASSUME NEW a \in Users \X Tokens, removeAccess(a)
      PROVE  status' = status
  BY <1>5 DEF removeAccess, rows
<1>6. UNCHANGED vars => status' = status
  BY DEF vars, rows
<1> QED
  BY <1>1, <1>2, <1>3, <1>4, <1>5, <1>6 DEF Next

\* The row of a decided request.
Marks(r) == <<status[r], approved_by[r], token_id[r]>>

\* The UPDATE of an approval does not look at the status, but if it is alone with
\* the request, the request is pending.
LEMMA UnsharedStays ==
  ASSUME IInv, [Next]_vars, NEW r \in Requests \ shared, Decided(r)
  PROVE  Marks(r)' = Marks(r)
<1> USE DEF IInv, TypeOK, RowTypes, Marks
<1>1. ASSUME NEW u \in Users, NEW q \in Requests, createRequest(u, q)
      PROVE  Marks(r)' = Marks(r)
  BY <1>1 DEF createRequest, Decided
<1>2. ASSUME NEW c \in Calls, approveUpdate(c)
      PROVE  Marks(r)' = Marks(r)
  <2>1. req[c] # r
    BY <1>2 DEF approveUpdate, ApprovesAlone, ApproveSteps, Decided
  <2> QED
    BY <1>2, <2>1 DEF approveUpdate
<1>3. ASSUME NEW c \in Calls, denyUpdate(c)
      PROVE  Marks(r)' = Marks(r)
  BY <1>3 DEF denyUpdate, Decided
<1>4. ASSUME NEW c \in Calls, CallNext(c), ~approveUpdate(c), ~denyUpdate(c)
      PROVE  UNCHANGED rows
  BY <1>4
  DEF CallNext, approveSelect, denySelect, createToken, grantAccess, callFails, rows
<1>5. ASSUME NEW a \in Users \X Tokens, removeAccess(a)
      PROVE  UNCHANGED rows
  BY <1>5 DEF removeAccess
<1>6. UNCHANGED vars => UNCHANGED rows
  BY DEF vars
<1>7. UNCHANGED rows => Marks(r)' = Marks(r)
  BY DEF rows
<1> QED
  BY <1>1, <1>2, <1>3, <1>4, <1>5, <1>6, <1>7 DEF Next

\* No denial, however late its UPDATE, takes an approval back.
THEOREM ApprovalFinal == Spec => ApprovedForGood
<1>1. IInv /\ [Next]_vars
        => [\A r \in Requests : status[r] = "approved" => status'[r] = "approved"]_vars
  BY ApprovedStays
<1> QED
  BY <1>1, InductiveInvariant, PTL DEF Spec, ApprovedForGood

\* A decision that overlapped with no other is never changed.
THEOREM DecisionFinal == Spec => FinalUnlessShared
<1>1. IInv /\ [Next]_vars
        => [\A r \in Requests \ shared :
              Decided(r) => /\ status'[r] = status[r]
                            /\ approved_by'[r] = approved_by[r]
                            /\ token_id'[r] = token_id[r]]_vars
  BY UnsharedStays DEF Marks
<1> QED
  BY <1>1, InductiveInvariant, PTL DEF Spec, FinalUnlessShared

===============================================================================
