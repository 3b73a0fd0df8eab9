--------------------------- MODULE TokenVaultProofs ---------------------------
(***************************************************************************)
(* Theorems about TokenVault, for every number of mappings, real tokens,   *)
(* requests, processes, connections and crashes, and every set of faults.  *)
(***************************************************************************)
EXTENDS TokenVault, TLAPS

\* The type invariant with the operands it needs to be inductive.
TypeInv == TypeOK /\ RequestOperands /\ LoopOperands

-------------------------------------------------------------------------------
\* Types of the parts the steps are made of.

\* A request that begins has a mapping and, unless it revokes, a new real token.
LEMMA BeginTypes ==
  ASSUME NEW q \in Requests, NEW i \in Instances, NEW t \in Tokens,
         NEW p \in {"create_set", "revoke_del", "rotate_update"},
         NEW v \in Reals \union {NoReal}, NEW o \in Reals \union {NoReal},
         p # "revoke_del" => v \in Reals,
         RequestTypes, RequestOperands, ProcessTypes, LoopOperands,
         Begin(q, i, t, p, v, o)
  PROVE  RequestTypes' /\ RequestOperands' /\ ProcessTypes' /\ LoopOperands'
BY DEF RequestTypes, RequestOperands, ProcessTypes, LoopOperands, CallPoints,
       Begin, sync, Syncs

\* Requests that end leave the others as they were.
LEMMA EndTypes ==
  ASSUME RequestTypes, RequestOperands, NEW Q \in SUBSET Requests, End(Q)
  PROVE  RequestTypes' /\ RequestOperands'
BY DEF RequestTypes, RequestOperands, CallPoints, End

\* The key and the value of a call are a mapping's and a real token's.
LEMMA CallTypes ==
  ASSUME RequestTypes, RequestOperands, CacheTypes, NEW q \in Requests, Call(q)
  PROVE  CacheTypes'
BY DEF RequestTypes, RequestOperands, CacheTypes, CallPoints, Call, setFakeToken,
       setRealTokenHash, removeFakeToken, removeRealTokenHash

\* The same of the startup loop.
LEMMA RowDoneTypes ==
  ASSUME ProcessTypes, LoopOperands, NEW i \in Instances, NEW t \in Tokens,
         cur[i] \in {NoToken, t}, RowDone(i, t)
  PROVE  ProcessTypes' /\ LoopOperands'
BY ConstantsAssumption DEF ProcessTypes, LoopOperands, RowDone, Syncs

\* Every step keeps the state within its type, because every call that is due
\* has its operands.
LEMMA TypeStep == TypeInv /\ [Next]_vars => TypeInv'
<1> SUFFICES ASSUME TypeInv, [Next]_vars PROVE TypeInv'
  OBVIOUS
<1> USE DEF TypeInv, TypeOK
<1>1. ASSUME NEW q \in Requests, NEW i \in Instances, NEW t \in Tokens,
             NEW v \in Reals, createToken(q, i, t, v)
      PROVE  TypeInv'
  <2>1. RowTypes' /\ CacheTypes' /\ ProxyTypes' /\ UNCHANGED <<crashes, dirty>>
    BY <1>1 DEF createToken, RowTypes, CacheTypes, ProxyTypes, Begin, cache, proxy
  <2>2. RequestTypes' /\ RequestOperands' /\ ProcessTypes' /\ LoopOperands'
    BY <1>1, BeginTypes DEF createToken
  <2>3. QED
    BY <2>1, <2>2
<1>2. ASSUME NEW q \in Requests, NEW i \in Instances, NEW t \in Tokens,
             revokeToken(q, i, t)
      PROVE  TypeInv'
  <2>1. RowTypes' /\ CacheTypes' /\ ProxyTypes' /\ UNCHANGED <<crashes, dirty>>
    BY <1>2 DEF revokeToken, RowTypes, CacheTypes, ProxyTypes, Begin, cache, proxy
  <2>2. RequestTypes' /\ RequestOperands' /\ ProcessTypes' /\ LoopOperands'
    BY <1>2, BeginTypes DEF revokeToken, RowTypes
  <2>3. QED
    BY <2>1, <2>2
<1>3. ASSUME NEW q \in Requests, NEW i \in Instances, NEW t \in Tokens,
             NEW v \in Reals, rotateToken(q, i, t, v)
      PROVE  TypeInv'
  <2>1. RowTypes' /\ CacheTypes' /\ ProxyTypes' /\ UNCHANGED <<crashes, dirty>>
    BY <1>3 DEF rotateToken, RowTypes, CacheTypes, ProxyTypes, Begin, db, cache, proxy
  <2>2. RequestTypes' /\ RequestOperands' /\ ProcessTypes' /\ LoopOperands'
    BY <1>3, BeginTypes DEF rotateToken, RowTypes
  <2>3. QED
    BY <2>1, <2>2
<1>4. ASSUME NEW q \in Requests, rotateUpdate(q) PROVE TypeInv'
  <2>1. RowTypes' /\ RequestTypes' /\ RequestOperands'
    BY <1>4 DEF rotateUpdate, RowTypes, RequestTypes, RequestOperands, CallPoints
  <2>2. /\ CacheTypes' /\ ProcessTypes' /\ LoopOperands' /\ ProxyTypes'
        /\ UNCHANGED <<crashes, dirty>>
    BY <1>4 DEF rotateUpdate, cache, sync, proxy, CacheTypes, ProcessTypes,
                LoopOperands, ProxyTypes, Syncs
  <2>3. QED
    BY <2>1, <2>2
<1>5. ASSUME NEW q \in Requests, callReturns(q) PROVE TypeInv'
  <2>1. CacheTypes'
    BY <1>5, CallTypes DEF callReturns
  <2>2. RequestTypes' /\ RequestOperands'
    BY <1>5 DEF callReturns, After, RequestTypes, RequestOperands, CallPoints
  <2>3. /\ RowTypes' /\ ProcessTypes' /\ LoopOperands' /\ ProxyTypes'
        /\ UNCHANGED <<crashes, dirty>>
    BY <1>5 DEF callReturns, db, sync, proxy, RowTypes, ProcessTypes, LoopOperands,
                ProxyTypes, Syncs
  <2>4. QED
    BY <2>1, <2>2, <2>3
<1>6. ASSUME NEW q \in Requests, requestDone(q) \/ callFails(q) PROVE TypeInv'
  <2>1. CacheTypes'
    BY <1>6, CallTypes DEF requestDone, callFails, cache, CacheTypes
  <2>2. RequestTypes' /\ RequestOperands'
    BY <1>6, EndTypes DEF requestDone, callFails
  <2>3. /\ RowTypes' /\ ProcessTypes' /\ LoopOperands' /\ ProxyTypes'
        /\ UNCHANGED crashes
    BY <1>6 DEF requestDone, callFails, db, sync, proxy, RowTypes, ProcessTypes,
                LoopOperands, ProxyTypes, Syncs
  <2>4. (dirty \subseteq Tokens)'
    <3>1. tok[q] \in Tokens
      BY <1>6 DEF requestDone, callFails, RequestOperands, CallPoints
    <3>2. dirty' \in {dirty \ {tok[q]}, dirty \union {tok[q]}}
      BY <1>6 DEF requestDone, callFails
    <3>3. QED
      BY <3>1, <3>2
  <2>5. QED
    BY <2>1, <2>2, <2>3, <2>4
<1>7. ASSUME NEW i \in Instances,
             startInstance(i) \/ syncSelect(i) \/ syncSelectFails(i) \/ syncDone(i)
      PROVE  TypeInv'
  <2>1. /\ RowTypes' /\ CacheTypes' /\ ProxyTypes' /\ RequestOperands'
        /\ UNCHANGED <<crashes, dirty>>
    BY <1>7 DEF startInstance, syncSelect, syncSelectFails, syncDone, db, cache,
                proxy, request, RowTypes, CacheTypes, ProxyTypes, RequestOperands
  <2>2. RequestTypes'
    BY <1>7 DEF startInstance, syncSelect, syncSelectFails, syncDone, request,
                RequestTypes
  <2>3. ProcessTypes'
    <3>1. CASE syncSelect(i)
      <4>1. /\ \A t \in Tokens : real[t] \in Reals \union {NoReal}
            /\ fresh' \in [Instances -> SUBSET Tokens]
        BY <3>1 DEF syncSelect, RowTypes, ProcessTypes
      <4>2. QED
        BY <3>1, <4>1 DEF syncSelect, ProcessTypes
    <3>2. CASE startInstance(i) \/ syncSelectFails(i) \/ syncDone(i)
      BY <3>2 DEF startInstance, syncSelectFails, syncDone, ProcessTypes
    <3>3. QED
      BY <1>7, <3>1, <3>2
  <2>4. LoopOperands'
    <3>1. cur' = cur /\ (ipc[i] # "syncing" \/ \A t \in Tokens : ~Syncs(i, t))
      BY <1>7 DEF startInstance, syncSelect, syncSelectFails, syncDone
    <3>2. cur[i] # NoToken => cur[i] \in Tokens
      BY DEF ProcessTypes
    <3>3. cur[i] = NoToken
      BY <3>1, <3>2 DEF LoopOperands
    <3>4. CASE syncSelect(i)
      BY <3>3, <3>4 DEF syncSelect, ProcessTypes, LoopOperands, Syncs
    <3>5. CASE startInstance(i) \/ syncSelectFails(i) \/ syncDone(i)
      BY <3>3, <3>5 DEF startInstance, syncSelectFails, syncDone, ProcessTypes,
                        LoopOperands, Syncs
    <3>6. QED
      BY <1>7, <3>4, <3>5
  <2>5. QED
    BY <2>1, <2>2, <2>3, <2>4
<1>8. ASSUME NEW i \in Instances, NEW t \in Tokens, syncFake(i, t) PROVE TypeInv'
  <2>1. CacheTypes' /\ ProcessTypes' /\ LoopOperands'
    BY <1>8 DEF syncFake, setFakeToken, Syncs, CacheTypes, ProcessTypes, LoopOperands
  <2>2. /\ RowTypes' /\ RequestTypes' /\ RequestOperands' /\ ProxyTypes'
        /\ UNCHANGED <<crashes, dirty>>
    BY <1>8 DEF syncFake, db, request, proxy, RowTypes, RequestTypes,
                RequestOperands, ProxyTypes
  <2>3. QED
    BY <2>1, <2>2
<1>9. ASSUME NEW i \in Instances, NEW t \in Tokens,
             syncRowFails(i, t) \/ (t = cur[i] /\ syncHash(i))
      PROVE  TypeInv'
  <2>1. /\ RowDone(i, t)
        /\ cur[i] \in {NoToken, t}
        /\ snap[i][t] \in Reals
    BY <1>9 DEF syncRowFails, syncHash, Syncs, ProcessTypes, LoopOperands
  <2>2. CacheTypes' /\ (dirty \subseteq Tokens)'
    BY <1>9, <2>1 DEF syncRowFails, syncHash, setFakeToken, setRealTokenHash, cache,
                      CacheTypes
  <2>3. ProcessTypes' /\ LoopOperands'
    BY <2>1, RowDoneTypes
  <2>4. RowTypes' /\ RequestTypes' /\ RequestOperands' /\ ProxyTypes' /\ crashes' = crashes
    BY <2>1 DEF RowDone, db, request, proxy, RowTypes, RequestTypes, RequestOperands,
                ProxyTypes
  <2>5. QED
    BY <2>2, <2>3, <2>4
<1>10. ASSUME NEW i \in Instances, crash(i) PROVE TypeInv'
  <2>1. RequestTypes' /\ RequestOperands'
    BY <1>10, EndTypes DEF crash
  <2>2. ProcessTypes' /\ LoopOperands' /\ (dirty \subseteq Tokens)'
    BY <1>10 DEF crash, ProcessTypes, LoopOperands, Syncs
  <2>3. RowTypes' /\ CacheTypes' /\ ProxyTypes'
    BY <1>10 DEF crash, db, cache, proxy, RowTypes, CacheTypes, ProxyTypes
  <2>4. (crashes \in 0..MaxCrashes)'
    BY <1>10, ConstantsAssumption DEF crash
  <2>5. QED
    BY <2>1, <2>2, <2>3, <2>4
<1>11. ASSUME NEW T \in SUBSET Tokens, NEW V \in SUBSET Reals, evict(T, V)
       PROVE  TypeInv'
  BY <1>11 DEF evict, db, request, sync, proxy, RowTypes, CacheTypes, RequestTypes,
               RequestOperands, ProcessTypes, LoopOperands, ProxyTypes, Syncs
<1>12. ASSUME NEW p \in Proxies,
              (\E t \in Tokens : replaceToken(p, t)) \/ forward(p)
       PROVE  TypeInv'
  <2>1. ProxyTypes'
    BY <1>12 DEF replaceToken, forward, ProxyTypes, CacheTypes
  <2>2. QED
    BY <1>12, <2>1 DEF replaceToken, forward, db, cache, request, sync, RowTypes,
         CacheTypes, RequestTypes, RequestOperands, ProcessTypes, LoopOperands, Syncs
<1>13. CASE UNCHANGED vars
  BY <1>13 DEF vars, db, cache, request, sync, proxy, RowTypes, CacheTypes,
       RequestTypes, RequestOperands, ProcessTypes, LoopOperands, ProxyTypes, Syncs
<1>14. ASSUME NEW i \in Instances, syncHash(i) PROVE TypeInv'
  <2>1. cur[i] \in Tokens
    BY <1>14 DEF syncHash, ProcessTypes
  <2>2. QED
    BY <1>9, <1>14, <2>1
<1>15. QED
  BY <1>1, <1>2, <1>3, <1>4, <1>5, <1>6, <1>7, <1>8, <1>9, <1>10, <1>11, <1>12,
     <1>13, <1>14 DEF Next, RequestNext, InstanceNext

\* The state never leaves its type, whatever fails or overlaps.
THEOREM TypeCorrect == Spec => []TypeOK
<1>1. Init => TypeInv
  BY ConstantsAssumption DEF Init, TypeInv, TypeOK, RowTypes, CacheTypes,
       RequestTypes, RequestOperands, ProcessTypes, LoopOperands, ProxyTypes, Syncs
<1>2. TypeInv /\ [Next]_vars => TypeInv'
  BY TypeStep
<1>3. TypeInv => TypeOK
  BY DEF TypeInv
<1>4. QED
  BY <1>1, <1>2, <1>3, PTL DEF Spec

-------------------------------------------------------------------------------
\* Postgres before memcached.

StoredInv == TypeInv /\ CachedWasStored /\ WritesWereStored

\* A memcached call of a request writes what the row has held.
LEMMA CallStored ==
  ASSUME StoredInv, NEW q \in Requests, Call(q)
  PROVE  \A t \in Tokens : fakeCache'[t] \in stored[t] \union {NoReal}
BY DEF StoredInv, TypeInv, TypeOK, CachedWasStored, WritesWereStored, CacheTypes,
       RequestTypes, RequestOperands, Call, CallPoints, setFakeToken,
       setRealTokenHash, removeFakeToken, removeRealTokenHash

LEMMA StoredStep == StoredInv /\ [Next]_vars => CachedWasStored' /\ WritesWereStored'
<1> SUFFICES ASSUME StoredInv, [Next]_vars
             PROVE  CachedWasStored' /\ WritesWereStored'
  OBVIOUS
<1> USE DEF StoredInv, TypeInv, TypeOK, CachedWasStored, WritesWereStored, RowTypes,
            CacheTypes, RequestTypes, RequestOperands, ProcessTypes, LoopOperands,
            ProxyTypes, Syncs, db, cache, request, sync, proxy
<1>1. ASSUME NEW q \in Requests, NEW i \in Instances, NEW t \in Tokens,
             NEW v \in Reals, createToken(q, i, t, v)
      PROVE  CachedWasStored' /\ WritesWereStored'
  BY <1>1 DEF createToken, Begin
<1>2. ASSUME NEW q \in Requests, NEW i \in Instances, NEW t \in Tokens,
             revokeToken(q, i, t)
      PROVE  CachedWasStored' /\ WritesWereStored'
  BY <1>2 DEF revokeToken, Begin
<1>3. ASSUME NEW q \in Requests, NEW i \in Instances, NEW t \in Tokens,
             NEW v \in Reals, rotateToken(q, i, t, v)
      PROVE  CachedWasStored' /\ WritesWereStored'
  BY <1>3 DEF rotateToken, Begin
<1>4. ASSUME NEW q \in Requests, rotateUpdate(q)
      PROVE  CachedWasStored' /\ WritesWereStored'
  BY <1>4 DEF rotateUpdate
<1>5. ASSUME NEW q \in Requests, callReturns(q)
      PROVE  CachedWasStored' /\ WritesWereStored'
  <2>1. CachedWasStored'
    BY <1>5, CallStored DEF callReturns
  <2>2. WritesWereStored'
    BY <1>5 DEF callReturns, After
  <2>3. QED
    BY <2>1, <2>2
<1>6. ASSUME NEW q \in Requests, requestDone(q) \/ callFails(q)
      PROVE  CachedWasStored' /\ WritesWereStored'
  <2>1. CachedWasStored'
    BY <1>6, CallStored DEF requestDone, callFails
  <2>2. WritesWereStored'
    <3>1. End({q}) /\ UNCHANGED <<db, sync>>
      BY <1>6 DEF requestDone, callFails
    <3>2. QED
      BY <3>1 DEF End
  <2>3. QED
    BY <2>1, <2>2
<1>7. ASSUME NEW i \in Instances,
             startInstance(i) \/ syncSelect(i) \/ syncSelectFails(i) \/ syncDone(i)
      PROVE  CachedWasStored' /\ WritesWereStored'
  <2>1. CASE syncSelect(i)
    BY <2>1 DEF syncSelect
  <2>2. CASE startInstance(i) \/ syncSelectFails(i) \/ syncDone(i)
    BY <2>2 DEF startInstance, syncSelectFails, syncDone
  <2>3. QED
    BY <1>7, <2>1, <2>2
<1>8. ASSUME NEW i \in Instances, NEW t \in Tokens,
             syncFake(i, t) \/ syncRowFails(i, t)
      PROVE  CachedWasStored' /\ WritesWereStored'
  <2>1. CachedWasStored'
    <3>1. /\ snap[i][t] \in stored[t]
          /\ fakeCache' \in {fakeCache, [fakeCache EXCEPT ![t] = snap[i][t]]}
          /\ UNCHANGED <<stored, proxy>>
      BY <1>8 DEF syncFake, syncRowFails, RowDone, setFakeToken, setRealTokenHash
    <3>2. QED
      BY <3>1
  <2>2. WritesWereStored'
    BY <1>8 DEF syncFake, syncRowFails, RowDone
  <2>3. QED
    BY <2>1, <2>2
<1>9. ASSUME NEW i \in Instances, syncHash(i)
      PROVE  CachedWasStored' /\ WritesWereStored'
  BY <1>9, ConstantsAssumption DEF syncHash, RowDone, setRealTokenHash
<1>10. ASSUME NEW i \in Instances, crash(i)
       PROVE  CachedWasStored' /\ WritesWereStored'
  BY <1>10, ConstantsAssumption DEF crash, End
<1>11. ASSUME NEW T \in SUBSET Tokens, NEW V \in SUBSET Reals, evict(T, V)
       PROVE  CachedWasStored' /\ WritesWereStored'
  BY <1>11 DEF evict
<1>12. ASSUME NEW p \in Proxies,
              (\E t \in Tokens : replaceToken(p, t)) \/ forward(p)
       PROVE  CachedWasStored' /\ WritesWereStored'
  BY <1>12 DEF replaceToken, forward
<1>13. CASE UNCHANGED vars
  BY <1>13 DEF vars
<1>14. QED
  BY <1>1, <1>2, <1>3, <1>4, <1>5, <1>6, <1>7, <1>8, <1>9, <1>10, <1>11, <1>12,
     <1>13 DEF Next, RequestNext, InstanceNext

-------------------------------------------------------------------------------
\* Who writes what.

\* The three operations begin alike; the fourth kind of first step is a SELECT
\* by a starting process.
LEMMA AloneStep == TypeInv /\ AloneIsAlone /\ [Next]_vars => AloneIsAlone'
<1> SUFFICES ASSUME TypeInv, AloneIsAlone, [Next]_vars PROVE AloneIsAlone'
  OBVIOUS
<1> USE DEF TypeInv, TypeOK, AloneIsAlone, RequestTypes, RequestOperands, ProcessTypes,
            Syncs, Holds
<1>1. ASSUME NEW q \in Requests, NEW i \in Instances, NEW t \in Tokens,
             \/ \E v \in Reals : createToken(q, i, t, v)
             \/ revokeToken(q, i, t)
             \/ \E v \in Reals : rotateToken(q, i, t, v)
      PROVE  AloneIsAlone'
  <2>1. PICK p \in {"create_set", "revoke_del", "rotate_update"},
               v \in Reals \union {NoReal}, o \in Reals \union {NoReal} :
          Begin(q, i, t, p, v, o)
    BY <1>1 DEF createToken, revokeToken, rotateToken, RowTypes
  <2>2. SUFFICES ASSUME NEW r \in Requests, pc'[r] # "idle", alone'[r]
                 PROVE  /\ \A s \in Requests \ {r} : ~Holds(s, tok[r])'
                        /\ \A j \in Instances : ~Syncs(j, tok[r])'
    OBVIOUS
  <2>3. CASE r = q
    <3>1. /\ \A s \in Requests \ {q} : ~Holds(s, t)
          /\ \A j \in Instances : ~Syncs(j, t)
      BY <2>1, <2>2, <2>3 DEF Begin
    <3>2. QED
      BY <2>1, <2>3, <3>1 DEF Begin, sync
  <2>4. CASE r # q
    <3>1. alone[r] /\ ~Holds(r, t) /\ pc[r] # "idle" /\ tok'[r] = tok[r]
      BY <2>1, <2>2, <2>4 DEF Begin
    <3>2. QED
      BY <2>1, <2>4, <3>1 DEF Begin, sync
  <2>5. QED
    BY <2>3, <2>4
<1>2. ASSUME NEW q \in Requests, rotateUpdate(q) PROVE AloneIsAlone'
  BY <1>2 DEF rotateUpdate, sync
<1>3. ASSUME NEW q \in Requests, callReturns(q) PROVE AloneIsAlone'
  BY <1>3 DEF callReturns, After, sync
<1>4. ASSUME NEW Q \in SUBSET Requests, End(Q),
             \A i \in Instances, t \in Tokens : Syncs(i, t)' => Syncs(i, t)
      PROVE  AloneIsAlone'
  BY <1>4 DEF End
<1>5. ASSUME NEW q \in Requests, requestDone(q) \/ callFails(q) PROVE AloneIsAlone'
  <2>1. End({q}) /\ UNCHANGED sync
    BY <1>5 DEF requestDone, callFails
  <2>2. QED
    BY <2>1, <1>4 DEF sync
<1>6. ASSUME NEW i \in Instances, syncSelect(i) PROVE AloneIsAlone'
  BY <1>6 DEF syncSelect, request
<1>7. ASSUME NEW i \in Instances,
             startInstance(i) \/ syncSelectFails(i) \/ syncDone(i)
      PROVE  AloneIsAlone'
  BY <1>7 DEF startInstance, syncSelectFails, syncDone, request
<1>8. ASSUME NEW i \in Instances, NEW t \in Tokens, syncFake(i, t) PROVE AloneIsAlone'
  BY <1>8 DEF syncFake, request
<1>9. ASSUME NEW i \in Instances, NEW t \in Tokens, RowDone(i, t) PROVE AloneIsAlone'
  BY <1>9 DEF RowDone, request
<1>10. ASSUME NEW i \in Instances, crash(i) PROVE AloneIsAlone'
  <2>1. /\ End({q \in Requests : home[q] = i})
        /\ snap' = [snap EXCEPT ![i] = [t \in Tokens |-> NoReal]]
    BY <1>10 DEF crash
  <2>2. QED
    BY <2>1, <1>4
<1>11. ASSUME NEW T \in SUBSET Tokens, NEW V \in SUBSET Reals, evict(T, V)
       PROVE  AloneIsAlone'
  BY <1>11 DEF evict, request, sync
<1>12. ASSUME NEW p \in Proxies,
              (\E t \in Tokens : replaceToken(p, t)) \/ forward(p)
       PROVE  AloneIsAlone'
  BY <1>12 DEF replaceToken, forward, request, sync
<1>13. CASE UNCHANGED vars
  BY <1>13 DEF vars, request, sync
<1>14. ASSUME NEW i \in Instances, syncHash(i) PROVE AloneIsAlone'
  <2>1. cur[i] \in Tokens
    BY <1>14 DEF syncHash
  <2>2. QED
    BY <1>9, <1>14, <2>1 DEF syncHash
<1>15. QED
  BY <1>1, <1>2, <1>3, <1>5, <1>6, <1>7, <1>8, <1>9, <1>10, <1>11, <1>12, <1>13, <1>14
     DEF Next, RequestNext, InstanceNext, syncRowFails

\* A step that starts no work and leaves rows and snapshots alone.
LEMMA FreshKept ==
  ASSUME FreshIsCurrent, ProcessTypes, UNCHANGED <<status, real, snap, fresh>>,
         \A q \in Requests, t \in Tokens : Holds(q, t)' => Holds(q, t)
  PROVE  FreshIsCurrent'
<1>1. SUFFICES ASSUME NEW i \in Instances, NEW t \in fresh[i]
               PROVE  /\ Syncs(i, t)' /\ status'[t] = "active" /\ snap'[i][t] = real'[t]
                      /\ \A q \in Requests : ~Holds(q, t)'
                      /\ \A j \in Instances : Syncs(j, t)' => t \in fresh'[j]
  BY DEF FreshIsCurrent
<1>2. /\ t \in Tokens /\ Syncs(i, t) /\ status[t] = "active" /\ snap[i][t] = real[t]
      /\ \A q \in Requests : ~Holds(q, t)
      /\ \A j \in Instances : Syncs(j, t) => t \in fresh[j]
  BY DEF FreshIsCurrent, ProcessTypes
<1>3. \A j \in Instances : Syncs(j, t)' <=> Syncs(j, t)
  BY DEF Syncs
<1>4. QED
  BY <1>2, <1>3

\* A snapshot row stays fresh until some request begins on its mapping.
LEMMA FreshStep == StoredInv /\ FreshIsCurrent /\ [Next]_vars => FreshIsCurrent'
<1> SUFFICES ASSUME StoredInv, FreshIsCurrent, [Next]_vars PROVE FreshIsCurrent'
  OBVIOUS
<1> USE DEF StoredInv, TypeInv, TypeOK, FreshIsCurrent, RowTypes, RequestTypes,
            RequestOperands, ProcessTypes, LoopOperands, Syncs, Holds
<1>1. ASSUME NEW q \in Requests, NEW i \in Instances, NEW t \in Tokens,
             \/ \E v \in Reals : createToken(q, i, t, v)
             \/ revokeToken(q, i, t)
             \/ \E v \in Reals : rotateToken(q, i, t, v)
      PROVE  FreshIsCurrent'
  <2>1. PICK p \in {"create_set", "revoke_del", "rotate_update"},
               v \in Reals \union {NoReal}, o \in Reals \union {NoReal} :
          Begin(q, i, t, p, v, o)
    BY <1>1 DEF createToken, revokeToken, rotateToken, RowTypes
  <2>2. \A u \in Tokens \ {t} : status'[u] = status[u] /\ real'[u] = real[u]
    BY <1>1 DEF createToken, revokeToken, rotateToken, db
  <2>3. \A j \in Instances : fresh'[j] = fresh[j] \ {t}
    BY <2>1 DEF Begin
  <2>4. \A u \in Tokens \ {t}, r \in Requests : Holds(r, u)' => Holds(r, u)
    BY <2>1 DEF Begin
  <2>5. UNCHANGED <<snap>>
    BY <2>1 DEF Begin, sync
  <2>6. QED
    BY <2>2, <2>3, <2>4, <2>5
<1>2. ASSUME NEW q \in Requests, rotateUpdate(q) PROVE FreshIsCurrent'
  BY <1>2 DEF rotateUpdate, sync
<1>3. ASSUME NEW q \in Requests, callReturns(q) PROVE FreshIsCurrent'
  BY <1>3 DEF callReturns, After, db, sync
<1>4. ASSUME NEW q \in Requests, requestDone(q) \/ callFails(q) PROVE FreshIsCurrent'
  <2>1. End({q}) /\ UNCHANGED <<status, real, snap, fresh>>
    BY <1>4 DEF requestDone, callFails, db, sync
  <2>2. \A r \in Requests, t \in Tokens : Holds(r, t)' => Holds(r, t)
    BY <2>1 DEF End
  <2>3. QED
    BY <2>1, <2>2, FreshKept
<1>5. ASSUME NEW i \in Instances, syncSelect(i) PROVE FreshIsCurrent'
  <2> DEFINE rows == {t \in Tokens : status[t] = "active"}
  <2>1. /\ \A t \in rows : snap'[i][t] = real[t] /\ real[t] # NoReal
        /\ \A t \in Tokens \ rows : snap'[i][t] = NoReal
        /\ \A j \in Instances \ {i} : snap'[j] = snap[j] /\ fresh'[j] = fresh[j]
        /\ UNCHANGED <<status, real, pc, tok>>
    BY <1>5, ConstantsAssumption DEF syncSelect, db, request, WritesWereStored
  <2>2. \A t \in Tokens : ~Syncs(i, t)
    BY <1>5 DEF syncSelect
  <2>3. \A t \in fresh'[i] :
          /\ t \in rows
          /\ \A q \in Requests : ~Holds(q, t)
          /\ \A j \in Instances : Syncs(j, t) => t \in fresh[j]
    BY <1>5 DEF syncSelect
  <2>4. \A t \in rows : (\A q \in Requests : ~Holds(q, t))
                      /\ (\A j \in Instances : Syncs(j, t) => t \in fresh[j])
                         => t \in fresh'[i]
    BY <1>5 DEF syncSelect
  <2>5. ASSUME NEW j \in Instances, NEW t \in fresh'[j]
        PROVE  /\ Syncs(j, t)' /\ status'[t] = "active" /\ snap'[j][t] = real'[t]
               /\ \A q \in Requests : ~Holds(q, t)'
               /\ \A k \in Instances : Syncs(k, t)' => t \in fresh'[k]
    <3>1. CASE j = i
      BY <3>1, <2>1, <2>3
    <3>2. CASE j # i
      <4>1. /\ t \in fresh[j] /\ status[t] = "active" /\ snap[j][t] = real[t]
            /\ Syncs(j, t)
            /\ \A q \in Requests : ~Holds(q, t)
            /\ \A k \in Instances : Syncs(k, t) => t \in fresh[k]
        BY <3>2, <2>1
      <4>2. t \in fresh'[i]
        BY <4>1, <2>4
      <4>3. QED
        BY <3>2, <4>1, <4>2, <2>1
    <3>3. QED
      BY <3>1, <3>2
  <2>6. QED
    BY <2>5
<1>6. ASSUME NEW i \in Instances,
             startInstance(i) \/ syncSelectFails(i) \/ syncDone(i)
      PROVE  FreshIsCurrent'
  BY <1>6 DEF startInstance, syncSelectFails, syncDone, db, request
<1>7. ASSUME NEW i \in Instances, NEW t \in Tokens, syncFake(i, t)
      PROVE  FreshIsCurrent'
  BY <1>7 DEF syncFake, db, request
<1>8. ASSUME NEW i \in Instances, NEW t \in Tokens, RowDone(i, t)
      PROVE  FreshIsCurrent'
  BY <1>8 DEF RowDone, db, request
<1>9. ASSUME NEW i \in Instances, crash(i) PROVE FreshIsCurrent'
  <2>1. \A r \in Requests, t \in Tokens : Holds(r, t)' => Holds(r, t)
    BY <1>9 DEF crash, End
  <2>2. /\ snap' = [snap EXCEPT ![i] = [t \in Tokens |-> NoReal]]
        /\ fresh' = [fresh EXCEPT ![i] = {}]
        /\ UNCHANGED <<status, real>>
    BY <1>9 DEF crash, db
  <2>3. \A j \in Instances : IF j = i
                              THEN fresh'[j] = {} /\ \A t \in Tokens : ~Syncs(j, t)'
                              ELSE fresh'[j] = fresh[j] /\ snap'[j] = snap[j]
    BY <2>2
  <2>4. ASSUME NEW j \in Instances, NEW t \in fresh'[j]
        PROVE  /\ Syncs(j, t)' /\ status'[t] = "active" /\ snap'[j][t] = real'[t]
               /\ \A q \in Requests : ~Holds(q, t)'
               /\ \A k \in Instances : Syncs(k, t)' => t \in fresh'[k]
    <3>1. j # i /\ t \in fresh[j] /\ t \in Tokens
      BY <2>3
    <3>2. /\ status[t] = "active" /\ snap[j][t] = real[t] /\ Syncs(j, t)
          /\ \A q \in Requests : ~Holds(q, t)
          /\ \A k \in Instances : Syncs(k, t) => t \in fresh[k]
      BY <3>1
    <3>3. \A q \in Requests : ~Holds(q, t)'
      BY <2>1, <3>1, <3>2
    <3>4. \A k \in Instances : Syncs(k, t)' => t \in fresh'[k]
      BY <2>3, <3>1, <3>2
    <3>5. QED
      BY <2>2, <2>3, <3>1, <3>2, <3>3, <3>4
  <2>5. QED
    BY <2>4
<1>10. ASSUME NEW T \in SUBSET Tokens, NEW V \in SUBSET Reals, evict(T, V)
       PROVE  FreshIsCurrent'
  BY <1>10 DEF evict, db, request, sync
<1>11. ASSUME NEW p \in Proxies,
              (\E t \in Tokens : replaceToken(p, t)) \/ forward(p)
       PROVE  FreshIsCurrent'
  BY <1>11 DEF replaceToken, forward, db, request, sync
<1>12. CASE UNCHANGED vars
  BY <1>12 DEF vars, db, request, sync
<1>13. ASSUME NEW i \in Instances, syncHash(i) PROVE FreshIsCurrent'
  <2>1. cur[i] \in Tokens
    BY <1>13 DEF syncHash
  <2>2. QED
    BY <1>8, <1>13, <2>1 DEF syncHash
<1>14. QED
  BY <1>1, <1>2, <1>3, <1>4, <1>5, <1>6, <1>7, <1>8, <1>9, <1>10, <1>11, <1>12, <1>13
     DEF Next, RequestNext, InstanceNext, syncRowFails

-------------------------------------------------------------------------------
\* What the writers do to the keys.

\* A step leaves the fake: key of t as it is.
Kept(t) == fakeCache'[t] = fakeCache[t] /\ (t \in evicted' <=> t \in evicted)

\* A request's memcached call touches the fake: key of its own mapping only, and
\* leaves there what the call says.
LEMMA CallEffect ==
  ASSUME TypeInv, NEW q \in Requests, Call(q)
  PROVE  /\ tok[q] \in Tokens
         /\ \A t \in Tokens : t # tok[q] => Kept(t)
         /\ pc[q] \in {"create_set", "rotate_set"} => fakeCache'[tok[q]] = val[q]
         /\ pc[q] = "revoke_del" => fakeCache'[tok[q]] = NoReal
         /\ pc[q] \notin {"create_set", "rotate_set", "revoke_del"} =>
              UNCHANGED <<fakeCache, evicted>>
BY DEF TypeInv, TypeOK, CacheTypes, RequestTypes, RequestOperands, Call, setFakeToken,
       setRealTokenHash, removeFakeToken, removeRealTokenHash, Kept

\* A row written by the startup loop: the key has the row's value or is as before.
LEMMA RowEffect ==
  ASSUME TypeInv, NEW i \in Instances, NEW t \in Tokens,
         syncFake(i, t) \/ syncRowFails(i, t)
  PROVE  /\ \A u \in Tokens : u # t => Kept(u)
         /\ fakeCache'[t] = snap[i][t] \/ Kept(t)
         /\ Syncs(i, t)
         /\ UNCHANGED <<status, real, pc, tok, val, alone>>
         /\ \A j \in Instances : fresh'[j] \subseteq fresh[j]
         /\ \A j \in Instances : cur'[j] \in {NoToken, t, cur[j]}
BY DEF TypeInv, TypeOK, CacheTypes, ProcessTypes, syncFake, syncRowFails, RowDone,
       setFakeToken, setRealTokenHash, cache, db, request, Kept

VaultInv == /\ StoredInv
            /\ AloneIsAlone
            /\ FreshIsCurrent
            /\ LoopServes
            /\ Progress
            /\ Coherent

LEMMA ServesStep == VaultInv /\ [Next]_vars => LoopServes'
<1> SUFFICES ASSUME VaultInv, [Next]_vars PROVE LoopServes'
  OBVIOUS
<1> USE DEF VaultInv, StoredInv, TypeInv, TypeOK, LoopServes
<1>0. \A j \in Instances : /\ fresh[j] \subseteq Tokens
                           /\ cur[j] \in Tokens \union {NoToken}
                           /\ cur[j] # NoToken => Syncs(j, cur[j])
  BY DEF ProcessTypes, LoopOperands
<1>1. ASSUME NEW q \in Requests, NEW i \in Instances, NEW t \in Tokens,
             \/ \E v \in Reals : createToken(q, i, t, v)
             \/ revokeToken(q, i, t)
             \/ \E v \in Reals : rotateToken(q, i, t, v)
      PROVE  LoopServes'
  <2>1. PICK p \in {"create_set", "revoke_del", "rotate_update"},
               v \in Reals \union {NoReal}, o \in Reals \union {NoReal} :
          Begin(q, i, t, p, v, o)
    BY <1>1 DEF createToken, revokeToken, rotateToken, RowTypes
  <2>2. /\ \A u \in Tokens \ {t} : real'[u] = real[u]
        /\ UNCHANGED <<fakeCache, evicted>>
    BY <1>1 DEF createToken, revokeToken, rotateToken, db, cache, RowTypes
  <2>3. UNCHANGED cur /\ \A j \in Instances : fresh'[j] = fresh[j] \ {t}
    BY <2>1 DEF Begin, sync
  <2>4. QED
    BY <1>0, <2>2, <2>3 DEF Served
<1>2. ASSUME NEW q \in Requests, rotateUpdate(q) PROVE LoopServes'
  <2>1. /\ \A t \in Tokens \ {tok[q]} : real'[t] = real[t]
        /\ UNCHANGED <<cur, fresh, fakeCache, evicted>>
        /\ Holds(q, tok[q])
    BY <1>2 DEF rotateUpdate, cache, sync, RowTypes, Holds
  <2>2. QED
    BY <1>0, <2>1 DEF Served, FreshIsCurrent
<1>3. ASSUME NEW q \in Requests, callReturns(q) \/ requestDone(q) \/ callFails(q)
      PROVE  LoopServes'
  <2>1. /\ Call(q) \/ UNCHANGED cache
        /\ UNCHANGED <<real, cur, fresh>>
        /\ Holds(q, tok[q])
    BY <1>3 DEF callReturns, requestDone, callFails, After, CallPoints, db, sync, Holds
  <2>2. \A t \in Tokens : t # tok[q] => Kept(t)
    BY <2>1, CallEffect DEF cache, Kept
  <2>3. QED
    BY <1>0, <2>1, <2>2 DEF Served, FreshIsCurrent, Kept
<1>4. ASSUME NEW i \in Instances, syncSelect(i) PROVE LoopServes'
  <2>1. /\ \A j \in Instances \ {i} : fresh'[j] = fresh[j]
        /\ fresh'[i] \subseteq Tokens
        /\ UNCHANGED <<real, cur, fakeCache, evicted>>
    BY <1>4 DEF syncSelect, ProcessTypes, db, cache
  <2>2. cur[i] = NoToken
    BY <1>0, <1>4 DEF syncSelect, LoopOperands
  <2>3. QED
    BY <2>1, <2>2, ConstantsAssumption DEF Served
<1>5. ASSUME NEW i \in Instances,
             startInstance(i) \/ syncSelectFails(i) \/ syncDone(i)
      PROVE  LoopServes'
  BY <1>5 DEF startInstance, syncSelectFails, syncDone, db, cache, Served
<1>6. ASSUME NEW i \in Instances, NEW t \in Tokens,
             syncFake(i, t) \/ syncRowFails(i, t)
      PROVE  LoopServes'
  <2>1. \A j \in Instances : t \in fresh[j] => snap[i][t] = real[t]
    BY <1>6, RowEffect DEF FreshIsCurrent
  <2>2. ASSUME NEW j \in Instances, cur'[j] \in fresh'[j] PROVE Served(cur[j])'
    <3>1. /\ \A u \in Tokens : u # t => Kept(u)
          /\ fakeCache'[t] = snap[i][t] \/ Kept(t)
          /\ real' = real
          /\ fresh'[j] \subseteq fresh[j]
          /\ cur'[j] \in {NoToken, t, cur[j]}
      BY <1>6, RowEffect
    <3>2. cur'[j] \in Tokens /\ cur'[j] \in fresh[j]
      BY <1>0, <2>2, <3>1
    <3>3. cur'[j] = cur[j] \/ (syncFake(i, t) /\ j = i /\ cur'[j] = t)
      BY <1>6, <3>2, ConstantsAssumption DEF syncFake, syncRowFails, RowDone, ProcessTypes
    <3>4. CASE cur'[j] = cur[j]
      <4>1. Served(cur[j])
        BY <3>2, <3>4
      <4>2. QED
        BY <2>1, <3>1, <3>2, <3>4, <4>1 DEF Served, Kept
    <3>5. CASE syncFake(i, t) /\ j = i /\ cur'[j] = t
      <4>1. fakeCache'[t] = snap[i][t]
        BY <3>5 DEF syncFake, setFakeToken, CacheTypes
      <4>2. QED
        BY <2>1, <3>1, <3>2, <3>5, <4>1 DEF Served
    <3>6. QED
      BY <3>3, <3>4, <3>5
  <2>3. QED
    BY <2>2
<1>7. ASSUME NEW i \in Instances, syncHash(i) PROVE LoopServes'
  <2>1. /\ \A j \in Instances : fresh'[j] \subseteq fresh[j]
        /\ \A j \in Instances : cur'[j] \in {NoToken, cur[j]}
        /\ UNCHANGED <<real, fakeCache, evicted>>
    BY <1>7 DEF syncHash, RowDone, setRealTokenHash, ProcessTypes, db
  <2>2. QED
    BY <1>0, <2>1, ConstantsAssumption DEF Served
<1>8. ASSUME NEW i \in Instances, crash(i) PROVE LoopServes'
  <2>1. /\ \A j \in Instances : fresh'[j] \subseteq fresh[j]
        /\ \A j \in Instances : cur'[j] \in {NoToken, cur[j]}
        /\ UNCHANGED <<real, fakeCache, evicted>>
    BY <1>8 DEF crash, ProcessTypes, db, cache
  <2>2. QED
    BY <1>0, <2>1, ConstantsAssumption DEF Served
<1>9. ASSUME NEW T \in SUBSET Tokens, NEW V \in SUBSET Reals, evict(T, V)
      PROVE  LoopServes'
  BY <1>0, <1>9 DEF evict, db, sync, Served
<1>10. ASSUME NEW p \in Proxies,
              (\E t \in Tokens : replaceToken(p, t)) \/ forward(p)
       PROVE  LoopServes'
  BY <1>10 DEF replaceToken, forward, db, cache, sync, Served
<1>11. CASE UNCHANGED vars
  BY <1>11 DEF vars, db, cache, sync, Served
<1>12. QED
  BY <1>1, <1>2, <1>3, <1>4, <1>5, <1>6, <1>7, <1>8, <1>9, <1>10, <1>11
     DEF Next, RequestNext, InstanceNext

\* What other mappings' steps leave alone keeps a request in step.
LEMMA InStepKept ==
  ASSUME NEW r \in Requests, InStep(r), Kept(tok[r]),
         UNCHANGED <<pc[r], tok[r], val[r]>>,
         status'[tok[r]] = status[tok[r]], real'[tok[r]] = real[tok[r]]
  PROVE  InStep(r)'
BY DEF InStep, Served, Kept

LEMMA ProgressStep == VaultInv /\ [Next]_vars => Progress'
<1> SUFFICES ASSUME VaultInv, [Next]_vars,
                    NEW r \in Requests, pc'[r] # "idle", alone'[r]
             PROVE  InStep(r)'
  BY DEF Progress
<1> USE DEF VaultInv, StoredInv, TypeInv, TypeOK
<1>0. pc[r] # "idle" /\ alone[r] =>
        /\ InStep(r)
        /\ tok[r] \in Tokens
        /\ \A q \in Requests \ {r} : ~Holds(q, tok[r])
        /\ \A i \in Instances : ~Syncs(i, tok[r])
  BY DEF Progress, AloneIsAlone, RequestOperands
<1>1. ASSUME NEW q \in Requests, NEW i \in Instances, NEW t \in Tokens,
             \/ \E v \in Reals : createToken(q, i, t, v)
             \/ revokeToken(q, i, t)
             \/ \E v \in Reals : rotateToken(q, i, t, v)
      PROVE  InStep(r)'
  <2>1. CASE r = q
    <3>1. CASE \E v \in Reals : createToken(q, i, t, v)
      BY <2>1, <3>1 DEF createToken, Begin, RequestTypes, RowTypes, InStep
    <3>2. CASE revokeToken(q, i, t)
      BY <2>1, <3>2 DEF revokeToken, Begin, RequestTypes, RowTypes, InStep
    <3>3. CASE \E v \in Reals : rotateToken(q, i, t, v)
      BY <2>1, <3>3 DEF rotateToken, Begin, RequestTypes, RowTypes, InStep, db
    <3>4. QED
      BY <1>1, <3>1, <3>2, <3>3
  <2>2. CASE r # q
    <3>1. PICK p \in {"create_set", "revoke_del", "rotate_update"},
               v \in Reals \union {NoReal}, o \in Reals \union {NoReal} :
            Begin(q, i, t, p, v, o)
      BY <1>1 DEF createToken, revokeToken, rotateToken, RowTypes
    <3>2. /\ pc[r] # "idle" /\ alone[r] /\ ~Holds(r, t)
          /\ UNCHANGED <<pc[r], tok[r], val[r]>>
      BY <2>2, <3>1 DEF Begin, RequestTypes
    <3>3. tok[r] # t
      BY <3>2 DEF Holds
    <3>4. /\ status'[tok[r]] = status[tok[r]] /\ real'[tok[r]] = real[tok[r]]
          /\ Kept(tok[r])
      BY <1>0, <1>1, <3>2, <3>3
         DEF createToken, revokeToken, rotateToken, db, cache, RowTypes, Kept
    <3>5. QED
      BY <1>0, <3>2, <3>4, InStepKept
  <2>3. QED
    BY <2>1, <2>2
<1>2. ASSUME NEW q \in Requests, rotateUpdate(q) PROVE InStep(r)'
  <2>1. pc[r] # "idle" /\ alone[r] /\ UNCHANGED <<tok[r], val[r], status, cache>>
    BY <1>2 DEF rotateUpdate, RequestTypes
  <2>2. CASE r = q
    BY <1>0, <1>2, <2>1, <2>2 DEF rotateUpdate, InStep, RequestTypes, RowTypes
  <2>3. CASE r # q
    <3>1. tok[r] # tok[q] /\ pc'[r] = pc[r]
      BY <1>0, <1>2, <2>1, <2>3 DEF rotateUpdate, Holds, RequestTypes
    <3>2. real'[tok[r]] = real[tok[r]] /\ Kept(tok[r])
      BY <1>0, <1>2, <2>1, <3>1 DEF rotateUpdate, RowTypes, cache, Kept
    <3>3. QED
      BY <1>0, <2>1, <3>1, <3>2, InStepKept
  <2>4. QED
    BY <2>2, <2>3
<1>3. ASSUME NEW q \in Requests, callReturns(q) PROVE InStep(r)'
  <2>1. /\ pc[r] # "idle" /\ alone[r] /\ UNCHANGED <<tok[r], val[r], status, real>>
        /\ Call(q)
    BY <1>3 DEF callReturns, After, RequestTypes, db
  <2>2. CASE r = q
    BY <1>0, <1>3, <2>1, <2>2, CallEffect
       DEF callReturns, After, InStep, Served, RequestTypes
  <2>3. CASE r # q
    <3>1. tok[r] # tok[q] /\ pc'[r] = pc[r]
      BY <1>0, <1>3, <2>1, <2>3 DEF callReturns, After, Holds, RequestTypes
    <3>2. Kept(tok[r])
      BY <1>0, <2>1, <3>1, CallEffect
    <3>3. QED
      BY <1>0, <2>1, <3>1, <3>2, InStepKept
  <2>4. QED
    BY <2>2, <2>3
<1>4. ASSUME NEW q \in Requests, requestDone(q) \/ callFails(q) PROVE InStep(r)'
  <2>1. /\ End({q})
        /\ UNCHANGED <<status, real>>
        /\ Call(q) \/ UNCHANGED cache
        /\ pc[q] # "idle"
    BY <1>4 DEF requestDone, callFails, CallPoints, db
  <2>2. /\ pc[r] # "idle" /\ alone[r] /\ UNCHANGED <<pc[r], tok[r], val[r]>>
        /\ r # q
    BY <2>1 DEF End
  <2>3. tok[r] # tok[q]
    BY <1>0, <2>1, <2>2 DEF Holds
  <2>4. Kept(tok[r])
    BY <1>0, <2>1, <2>2, <2>3, CallEffect DEF cache, Kept
  <2>5. QED
    BY <1>0, <2>1, <2>2, <2>4, InStepKept
<1>5. ASSUME NEW i \in Instances,
             syncSelect(i) \/ startInstance(i) \/ syncSelectFails(i) \/ syncDone(i)
      PROVE  InStep(r)'
  <2>1. UNCHANGED <<pc, tok, val, status, real, cache>> /\ alone[r]
    BY <1>5 DEF syncSelect, startInstance, syncSelectFails, syncDone, request, db
  <2>2. QED
    BY <1>0, <2>1, InStepKept DEF cache, Kept
<1>6. ASSUME NEW i \in Instances, NEW t \in Tokens,
             syncFake(i, t) \/ syncRowFails(i, t)
      PROVE  InStep(r)'
  <2>1. /\ \A u \in Tokens : u # t => Kept(u)
        /\ Syncs(i, t)
        /\ UNCHANGED <<status, real, pc, tok, val, alone>>
    BY <1>6, RowEffect
  <2>2. tok[r] # t /\ tok[r] \in Tokens
    BY <1>0, <2>1
  <2>3. QED
    BY <1>0, <2>1, <2>2, InStepKept
<1>7. ASSUME NEW i \in Instances, syncHash(i) PROVE InStep(r)'
  <2>1. UNCHANGED <<pc, tok, val, alone, status, real, fakeCache, evicted>>
    BY <1>7 DEF syncHash, RowDone, setRealTokenHash, request, db
  <2>2. QED
    BY <1>0, <2>1, InStepKept DEF Kept
<1>8. ASSUME NEW i \in Instances, crash(i) PROVE InStep(r)'
  <2>1. /\ UNCHANGED <<status, real, cache, pc[r], tok[r], val[r]>>
        /\ pc[r] # "idle" /\ alone[r]
    BY <1>8 DEF crash, End, db
  <2>2. QED
    BY <1>0, <2>1, InStepKept DEF cache, Kept
<1>9. ASSUME NEW T \in SUBSET Tokens, NEW V \in SUBSET Reals, evict(T, V)
      PROVE  InStep(r)'
  <2>1. UNCHANGED <<pc, tok, val, alone, status, real>>
    BY <1>9 DEF evict, request, db
  <2>2. /\ InStep(r) /\ tok[r] \in Tokens
    BY <1>0, <2>1
  <2>3. \/ fakeCache'[tok[r]] = fakeCache[tok[r]] /\ (tok[r] \in evicted => tok[r] \in evicted')
        \/ fakeCache'[tok[r]] = NoReal /\ tok[r] \in evicted'
    BY <1>9, <2>2 DEF evict
  <2>4. QED
    BY <2>1, <2>2, <2>3 DEF InStep, Served
<1>10. ASSUME NEW p \in Proxies,
              (\E t \in Tokens : replaceToken(p, t)) \/ forward(p)
       PROVE  InStep(r)'
  <2>1. UNCHANGED <<pc, tok, val, alone, status, real, cache>>
    BY <1>10 DEF replaceToken, forward, request, db
  <2>2. QED
    BY <1>0, <2>1, InStepKept DEF cache, Kept
<1>11. CASE UNCHANGED vars
  <2>1. UNCHANGED <<pc, tok, val, alone, status, real, cache>>
    BY <1>11 DEF vars, request, db
  <2>2. QED
    BY <1>0, <2>1, InStepKept DEF cache, Kept
<1>12. QED
  BY <1>1, <1>2, <1>3, <1>4, <1>5, <1>6, <1>7, <1>8, <1>9, <1>10, <1>11
     DEF Next, RequestNext, InstanceNext

-------------------------------------------------------------------------------
\* Row and key.

LEMMA RowKept ==
  ASSUME NEW t \in Tokens, InStepWithRow(t), Kept(t), status'[t] = status[t],
         real'[t] = real[t]
  PROVE  InStepWithRow(t)'
BY DEF InStepWithRow, Served, Kept

LEMMA CoherentStep == VaultInv /\ [Next]_vars => Coherent'
<1> SUFFICES ASSUME VaultInv, [Next]_vars,
                    NEW t \in Tokens, Settled(t)', t \notin dirty'
             PROVE  InStepWithRow(t)'
  BY DEF Coherent
<1> USE DEF VaultInv, StoredInv, TypeInv, TypeOK
<1>0. Settled(t) /\ t \notin dirty => InStepWithRow(t)
  BY DEF Coherent
<1>1. ASSUME NEW q \in Requests, NEW i \in Instances, NEW u \in Tokens,
             \/ \E v \in Reals : createToken(q, i, u, v)
             \/ revokeToken(q, i, u)
             \/ \E v \in Reals : rotateToken(q, i, u, v)
      PROVE  InStepWithRow(t)'
  <2>1. PICK p \in {"create_set", "revoke_del", "rotate_update"},
               v \in Reals \union {NoReal}, o \in Reals \union {NoReal} :
          Begin(q, i, u, p, v, o)
    BY <1>1 DEF createToken, revokeToken, rotateToken, RowTypes
  <2>2. pc[q] = "idle" /\ UNCHANGED cache
    BY <1>1 DEF createToken, revokeToken, rotateToken, Idle
  <2>3. t # u
    BY <2>1 DEF Settled, Holds, Begin, RequestTypes
  <2>4. status'[t] = status[t] /\ real'[t] = real[t] /\ Kept(t)
    BY <1>1, <2>2, <2>3 DEF createToken, revokeToken, rotateToken, db, cache, RowTypes, Kept
  <2>5. Settled(t) /\ t \notin dirty
    <3>1. \A r \in Requests : ~Holds(r, t)
      BY <2>1, <2>2 DEF Settled, Holds, Begin, RequestTypes
    <3>2. \A j \in Instances : Syncs(j, t) => t \in fresh[j]
      BY <2>1 DEF Settled, Syncs, Begin, sync
    <3>3. QED
      BY <2>1, <3>1, <3>2 DEF Settled, Begin
  <2>6. QED
    BY <1>0, <2>4, <2>5, RowKept
<1>2. ASSUME NEW q \in Requests, rotateUpdate(q) \/ callReturns(q)
      PROVE  InStepWithRow(t)'
  <2>1. /\ t # tok[q] /\ tok[q] \in Tokens
        /\ Settled(t) /\ t \notin dirty
    <3>1. /\ pc[q] # "idle" /\ pc'[q] # "idle"
          /\ \A r \in Requests \ {q} : pc'[r] = pc[r]
          /\ UNCHANGED <<tok, snap, fresh, dirty>>
      BY <1>2 DEF rotateUpdate, callReturns, After, RequestTypes, sync
    <3>2. QED
      BY <3>1 DEF Settled, Holds, Syncs, RequestOperands
  <2>2. status'[t] = status[t] /\ real'[t] = real[t]
    BY <1>2, <2>1 DEF rotateUpdate, callReturns, db, RowTypes
  <2>3. Kept(t)
    BY <1>2, <2>1, CallEffect DEF rotateUpdate, callReturns, cache, Kept
  <2>4. QED
    BY <1>0, <2>1, <2>2, <2>3, RowKept
<1>3. ASSUME NEW q \in Requests, requestDone(q) \/ callFails(q)
      PROVE  InStepWithRow(t)'
  <2>1. /\ End({q}) /\ UNCHANGED <<status, real, snap, fresh>>
        /\ pc[q] # "idle" /\ tok[q] \in Tokens
        /\ Call(q) \/ UNCHANGED cache
    BY <1>3 DEF requestDone, callFails, CallPoints, db, sync, RequestOperands
  <2>2. CASE t = tok[q]
    <3>1. requestDone(q) /\ alone[q]
      BY <1>3, <2>2 DEF requestDone, callFails
    <3>2. /\ pc[q] \in {"create_hash", "revoke_delhash", "rotate_hash"}
          /\ UNCHANGED <<fakeCache, evicted>>
      BY <3>1, CallEffect DEF requestDone, CallPoints, After
    <3>3. InStep(q)
      BY <2>1, <3>1 DEF Progress
    <3>4. QED
      BY <2>1, <2>2, <3>2, <3>3 DEF InStep, InStepWithRow, Served
  <2>3. CASE t # tok[q]
    <3>1. Settled(t)
      BY <2>1, <2>3 DEF Settled, Holds, Syncs, End
    <3>2. t \notin dirty
      BY <1>3, <2>3 DEF requestDone, callFails
    <3>3. Kept(t)
      BY <2>1, <2>3, CallEffect DEF cache, Kept
    <3>4. QED
      BY <1>0, <2>1, <3>1, <3>2, <3>3, RowKept
  <2>4. QED
    BY <2>2, <2>3
<1>4. ASSUME NEW i \in Instances, syncSelect(i) PROVE InStepWithRow(t)'
  <2>1. /\ UNCHANGED <<status, real, cache, dirty, pc, tok>>
        /\ \A j \in Instances \ {i} : snap'[j] = snap[j] /\ fresh'[j] = fresh[j]
    BY <1>4 DEF syncSelect, db, request, ProcessTypes
  <2>2. ~Syncs(i, t)
    BY <1>4 DEF syncSelect, LoopOperands
  <2>3. Settled(t)
    BY <2>1, <2>2 DEF Settled, Holds, Syncs
  <2>4. QED
    BY <1>0, <2>1, <2>3, RowKept DEF cache, Kept
<1>5. ASSUME NEW i \in Instances,
             startInstance(i) \/ syncSelectFails(i) \/ syncDone(i)
      PROVE  InStepWithRow(t)'
  <2>1. UNCHANGED <<status, real, cache, dirty, pc, tok, snap, fresh>>
    BY <1>5 DEF startInstance, syncSelectFails, syncDone, db, request
  <2>2. Settled(t)
    BY <2>1 DEF Settled, Holds, Syncs
  <2>3. QED
    BY <1>0, <2>1, <2>2, RowKept DEF cache, Kept
<1>6. ASSUME NEW i \in Instances, NEW u \in Tokens,
             syncFake(i, u) \/ syncRowFails(i, u)
      PROVE  InStepWithRow(t)'
  <2>1. /\ t # u => Kept(t)
        /\ fakeCache'[u] = snap[i][u] \/ Kept(u)
        /\ Syncs(i, u)
        /\ UNCHANGED <<status, real, pc, tok>>
    BY <1>6, RowEffect
  <2>2. /\ snap' = snap \/ (u \notin fresh[i] => u \in dirty')
        /\ \A k \in Tokens : k # u => snap'[i][k] = snap[i][k]
        /\ \A j \in Instances \ {i} : snap'[j] = snap[j]
        /\ \A j \in Instances : fresh'[j] \subseteq fresh[j]
        /\ dirty \subseteq dirty'
    BY <1>6 DEF syncFake, syncRowFails, RowDone, ProcessTypes
  <2>3. t \notin dirty
    BY <2>2
  <2>4. \A q \in Requests : ~Holds(q, t)
    BY <2>1 DEF Settled, Holds
  <2>5. Settled(t)
    <3>1. ASSUME NEW j \in Instances, Syncs(j, t) PROVE t \in fresh[j]
      <4>1. CASE j = i /\ t = u
        BY <4>1, <2>1, <2>2 DEF Settled, Syncs
      <4>2. CASE ~(j = i /\ t = u)
        BY <4>2, <3>1, <2>2 DEF Settled, Syncs
      <4>3. QED
        BY <4>1, <4>2
    <3>2. QED
      BY <2>4, <3>1 DEF Settled
  <2>6. InStepWithRow(t)
    BY <1>0, <2>3, <2>5
  <2>7. CASE Kept(t)
    BY <2>1, <2>6, <2>7, RowKept
  <2>8. CASE t = u /\ fakeCache'[u] = snap[i][u]
    <3>1. status[t] = "active" /\ snap[i][t] = real[t]
      BY <2>1, <2>5, <2>8 DEF Settled, FreshIsCurrent
    <3>2. QED
      BY <2>1, <2>8, <3>1 DEF InStepWithRow, Served
  <2>9. QED
    BY <2>1, <2>7, <2>8
<1>7. ASSUME NEW i \in Instances, syncHash(i) PROVE InStepWithRow(t)'
  <2> DEFINE u == cur[i]
  <2>1. /\ u \in Tokens /\ Syncs(i, u)
        /\ UNCHANGED <<status, real, pc, tok, fakeCache, evicted>>
        /\ dirty' = IF u \in fresh[i] THEN dirty \ {u} ELSE dirty \union {u}
        /\ \A k \in Tokens : k # u => snap'[i][k] = snap[i][k]
        /\ \A j \in Instances \ {i} : snap'[j] = snap[j]
        /\ \A j \in Instances : fresh'[j] \subseteq fresh[j]
    BY <1>7 DEF syncHash, RowDone, setRealTokenHash, db, request, ProcessTypes,
                LoopOperands
  <2>2. CASE t = u
    <3>1. u \in fresh[i]
      BY <2>1, <2>2
    <3>2. status[u] = "active" /\ Served(u)
      BY <3>1 DEF FreshIsCurrent, LoopServes
    <3>3. QED
      BY <2>1, <2>2, <3>2 DEF InStepWithRow, Served
  <2>3. CASE t # u
    <3>1. t \notin dirty
      BY <2>1, <2>3
    <3>2. Settled(t)
      BY <2>1, <2>3 DEF Settled, Holds, Syncs
    <3>3. QED
      BY <1>0, <2>1, <3>1, <3>2, RowKept DEF Kept
  <2>4. QED
    BY <2>2, <2>3
<1>8. ASSUME NEW i \in Instances, crash(i) PROVE InStepWithRow(t)'
  <2> DEFINE killed == {q \in Requests : home[q] = i}
  <2>1. /\ UNCHANGED <<status, real, cache>>
        /\ End(killed)
        /\ \A j \in Instances \ {i} : snap'[j] = snap[j] /\ fresh'[j] = fresh[j]
    BY <1>8 DEF crash, db, ProcessTypes
  <2>2. /\ t \notin dirty
        /\ \A q \in killed : ~Holds(q, t)
        /\ Syncs(i, t) => t \in fresh[i]
    BY <1>8 DEF crash
  <2>3. \A q \in Requests : ~Holds(q, t)
    BY <2>1, <2>2 DEF Settled, Holds, End
  <2>4. \A j \in Instances : Syncs(j, t) => t \in fresh[j]
    BY <2>1, <2>2 DEF Settled, Syncs
  <2>5. QED
    BY <1>0, <2>1, <2>2, <2>3, <2>4, RowKept DEF Settled, cache, Kept
<1>9. ASSUME NEW T \in SUBSET Tokens, NEW V \in SUBSET Reals, evict(T, V)
      PROVE  InStepWithRow(t)'
  <2>1. UNCHANGED <<status, real, pc, tok, snap, fresh, dirty>>
    BY <1>9 DEF evict, db, request, sync
  <2>2. InStepWithRow(t)
    BY <1>0, <2>1 DEF Settled, Holds, Syncs
  <2>3. \/ fakeCache'[t] = fakeCache[t] /\ (t \in evicted => t \in evicted')
        \/ fakeCache'[t] = NoReal /\ t \in evicted'
    BY <1>9 DEF evict
  <2>4. QED
    BY <2>1, <2>2, <2>3 DEF InStepWithRow, Served
<1>10. ASSUME NEW p \in Proxies,
              (\E u \in Tokens : replaceToken(p, u)) \/ forward(p)
       PROVE  InStepWithRow(t)'
  <2>1. UNCHANGED <<status, real, cache, pc, tok, snap, fresh, dirty>>
    BY <1>10 DEF replaceToken, forward, db, request, sync
  <2>2. Settled(t)
    BY <2>1 DEF Settled, Holds, Syncs
  <2>3. QED
    BY <1>0, <2>1, <2>2, RowKept DEF cache, Kept
<1>11. CASE UNCHANGED vars
  <2>1. UNCHANGED <<status, real, cache, pc, tok, snap, fresh, dirty>>
    BY <1>11 DEF vars, db, request, sync
  <2>2. Settled(t)
    BY <2>1 DEF Settled, Holds, Syncs
  <2>3. QED
    BY <1>0, <2>1, <2>2, RowKept DEF cache, Kept
<1>12. QED
  BY <1>1, <1>2, <1>3, <1>4, <1>5, <1>6, <1>7, <1>8, <1>9, <1>10, <1>11
     DEF Next, RequestNext, InstanceNext

-------------------------------------------------------------------------------
\* The theorems.

\* All the steps together, for the temporal theorems below.
LEMMA VaultInvariant == Spec => []VaultInv
<1>1. Init => VaultInv
  BY ConstantsAssumption DEF Init, VaultInv, StoredInv, TypeInv, TypeOK, RowTypes,
     CacheTypes, RequestTypes, RequestOperands, ProcessTypes, LoopOperands, ProxyTypes,
     Syncs, Holds, CachedWasStored, WritesWereStored, AloneIsAlone, FreshIsCurrent,
     LoopServes, Progress, Coherent, InStepWithRow
<1>2. VaultInv /\ [Next]_vars => VaultInv'
  BY TypeStep, StoredStep, AloneStep, FreshStep, ServesStep, ProgressStep, CoherentStep
     DEF VaultInv, StoredInv
<1>3. QED
  BY <1>1, <1>2, PTL DEF Spec

\* What is in memcached, or in a request the proxy sends, was in the mapping's row
\* before, however the API's writers interleave and whatever fails.
THEOREM CacheProvenance == Spec => []CachedWasStored
<1>1. VaultInv => CachedWasStored
  BY DEF VaultInv, StoredInv
<1>2. QED
  BY <1>1, VaultInvariant, PTL

\* Writers of one mapping that do not overlap or fail keep its row and its key in
\* step, whatever happens to the other mappings.
THEOREM Coherence == Spec => []Coherent
<1>1. VaultInv => Coherent
  BY DEF VaultInv
<1>2. QED
  BY <1>1, VaultInvariant, PTL

\* The invariant the runs check is this proof's, for every instance.
THEOREM InductiveInvariant == Spec => []IInv
<1>1. VaultInv => IInv
  BY DEF VaultInv, StoredInv, TypeInv, IInv
<1>2. QED
  BY <1>1, VaultInvariant, PTL

\* Only a rotation that a revocation overtook writes to a revoked row.
THEOREM RevokedRowFinal == Spec => RevokedRowOnlyOvertaken
<1>1. VaultInv /\ [Next]_vars =>
        [\A t \in Tokens : status[t] = "revoked" /\ real'[t] # real[t] =>
           \E q \in Requests : pc[q] = "rotate_update" /\ tok[q] = t /\ ~alone[q]]_vars
  <2>1. SUFFICES ASSUME VaultInv, Next, NEW t \in Tokens, status[t] = "revoked",
                        real'[t] # real[t]
                 PROVE  \E q \in Requests :
                          pc[q] = "rotate_update" /\ tok[q] = t /\ ~alone[q]
    OBVIOUS
  <2> USE DEF VaultInv, StoredInv, TypeInv, TypeOK
  <2>2. PICK q \in Requests : RequestNext(q)
    <3>1. \A i \in Instances : InstanceNext(i) => UNCHANGED real
      BY DEF InstanceNext, startInstance, syncSelect, syncSelectFails, syncFake,
             syncRowFails, syncHash, RowDone, syncDone, crash, db
    <3>2. /\ \A T \in SUBSET Tokens, V \in SUBSET Reals : evict(T, V) => UNCHANGED real
          /\ \A p \in Proxies : forward(p) => UNCHANGED real
          /\ \A p \in Proxies, u \in Tokens : replaceToken(p, u) => UNCHANGED real
      BY DEF evict, forward, replaceToken, db
    <3>3. QED
      BY <2>1, <3>1, <3>2 DEF Next
  <2>3. ~(callReturns(q) \/ requestDone(q) \/ callFails(q))
    BY <2>1 DEF callReturns, requestDone, callFails, db
  <2>4. \A i \in Instances, u \in Tokens :
          /\ ~revokeToken(q, i, u)
          /\ \A v \in Reals : ~rotateToken(q, i, u, v) /\ ~createToken(q, i, u, v)
    BY <2>1 DEF createToken, revokeToken, rotateToken, db, RowTypes
  <2>5. rotateUpdate(q)
    BY <2>2, <2>3, <2>4 DEF RequestNext
  <2>6. pc[q] = "rotate_update" /\ tok[q] = t
    BY <2>1, <2>5 DEF rotateUpdate, RowTypes
  <2>7. ASSUME alone[q] PROVE status[t] = "active"
    <3>1. pc[q] # "idle"
      BY <2>6
    <3>2. InStep(q)
      BY <2>1, <2>7, <3>1 DEF Progress
    <3>3. QED
      BY <2>6, <3>2 DEF InStep
  <2>8. QED
    BY <2>1, <2>6, <2>7
<1>2. QED
  BY <1>1, VaultInvariant, PTL DEF Spec, RevokedRowOnlyOvertaken

\* A proxy lookup of a settled mapping sees the row as it is.
THEOREM LookupsAreCurrent == Spec => LookupIsCurrent
<1>1. VaultInv /\ [Next]_vars =>
        [\A p \in Proxies :
           LET t == ptok'[p] IN
           ppc[p] = "idle" /\ ppc'[p] = "fake" /\ Settled(t) /\ t \notin dirty
             => status[t] = "active" /\ pval'[p] = real[t]]_vars
  <2>1. SUFFICES ASSUME VaultInv, Next, NEW p \in Proxies, ppc[p] = "idle",
                        ppc'[p] = "fake", Settled(ptok'[p]), ptok'[p] \notin dirty
                 PROVE  status[ptok'[p]] = "active" /\ pval'[p] = real[ptok'[p]]
    OBVIOUS
  <2> USE DEF VaultInv, StoredInv, TypeInv, TypeOK
  <2>2. PICK u \in Tokens : replaceToken(p, u)
    <3>1. ASSUME NEW q \in Requests, RequestNext(q) PROVE UNCHANGED ppc
      <4>1. \A i \in Instances, t \in Tokens, v \in Reals :
              createToken(q, i, t, v) \/ revokeToken(q, i, t) \/ rotateToken(q, i, t, v)
                => UNCHANGED ppc
        BY DEF createToken, revokeToken, rotateToken, Begin, proxy
      <4>2. \A i \in Instances, t \in Tokens : revokeToken(q, i, t) => UNCHANGED ppc
        BY DEF revokeToken, Begin, proxy
      <4>3. rotateUpdate(q) \/ callReturns(q) \/ requestDone(q) \/ callFails(q)
              => UNCHANGED ppc
        BY DEF rotateUpdate, callReturns, requestDone, callFails, proxy
      <4>4. QED
        BY <3>1, <4>1, <4>2, <4>3 DEF RequestNext
    <3>2. \A i \in Instances : InstanceNext(i) => UNCHANGED ppc
      BY DEF InstanceNext, startInstance, syncSelect, syncSelectFails, syncFake,
             syncRowFails, syncHash, RowDone, syncDone, crash, proxy
    <3>3. \A T \in SUBSET Tokens, V \in SUBSET Reals : evict(T, V) => UNCHANGED ppc
      BY DEF evict, proxy
    <3>4. PICK r \in Proxies : (\E u \in Tokens : replaceToken(r, u)) \/ forward(r)
      BY <2>1, <3>1, <3>2, <3>3 DEF Next
    <3>5. r = p /\ ~forward(p)
      BY <2>1, <3>4 DEF replaceToken, forward, ProxyTypes
    <3>6. QED
      BY <3>4, <3>5
  <2>3. ptok'[p] = u /\ pval'[p] = fakeCache[u] /\ fakeCache[u] # NoReal
    BY <2>1, <2>2 DEF replaceToken, ProxyTypes
  <2>4. InStepWithRow(u)
    BY <2>1, <2>3 DEF Coherent
  <2>5. QED
    BY <2>3, <2>4 DEF InStepWithRow, Served
<1>2. QED
  BY <1>1, VaultInvariant, PTL DEF Spec, LookupIsCurrent

===============================================================================
