------------------------------ MODULE TokenVault ------------------------------
(***************************************************************************)
(* The token vault: the token_mappings table, the memcached copy the proxy *)
(* reads, and the API operations that keep the two in step                 *)
(* (packages/api/src/services/token-service.ts, memcached-sync.ts).        *)
(*                                                                         *)
(* Every operation is a few awaited calls: one or two on Postgres, then up *)
(* to three on memcached.  A step of the model is one such call, taken at  *)
(* the moment it takes effect, so other requests, a second API instance    *)
(* during a rolling update, a crash, a failed memcached call or an         *)
(* eviction may come between any two of them.                              *)
(***************************************************************************)
EXTENDS Naturals

CONSTANTS
  Tokens,      \* token mappings, each with its own (random) fake token
  Reals,       \* real tokens; two mappings may hold the same one
  Requests,    \* slots for API requests in flight
  Instances,   \* API processes (a rolling update overlaps two)
  Proxies,     \* proxy connections that look tokens up
  NoReal, NoToken, NoInstance,
  Faults,      \* the faults that may happen, a subset of AllFaults
  MaxCrashes   \* bound on the number of crashes of API processes

AllFaults == {"crash", "call", "evict"}

ASSUME ConstantsAssumption ==
  /\ NoReal \notin Reals
  /\ NoToken \notin Tokens
  /\ NoInstance \notin Instances
  /\ Faults \subseteq AllFaults
  /\ MaxCrashes \in Nat

VARIABLES
  status,      \* row of token_mappings: absent, active or revoked
  real,        \* the real token of the row (real_token_encrypted / _hash)
  fakeCache,   \* memcached keys fake:<hash>, NoReal when the key is missing
  realCache,   \* memcached keys real:<hash> that are present
  pc,          \* the next awaited call of each request
  tok, val, old, home,   \* its mapping, new real token, old one, API process
  ipc,         \* API processes: down, starting, syncing or serving
  snap,        \* rows of the startup SELECT still to be written, per process
  cur,         \* the row of snap whose fake: key has been written
  crashes,     \* crashes so far
  ppc, ptok, pval,       \* proxy connections: looked-up token and its result
  stored,      \* history: the real tokens the row of a mapping ever held
  alone,       \* history: no other writer of the mapping since q began
  fresh,       \* history: rows of snap no request has touched since the SELECT
  dirty,       \* history: mappings whose last writers overlapped or failed
  evicted      \* history: mappings whose fake: key memcached dropped

db == <<status, real, stored>>
cache == <<fakeCache, realCache, evicted>>
request == <<pc, tok, val, old, home>>
sync == <<ipc, snap, cur>>
proxy == <<ppc, ptok, pval>>
vars == <<db, cache, request, sync, proxy, crashes, alone, fresh, dirty>>

-------------------------------------------------------------------------------
\* memcached-sync.ts: one operator per call on memcached.

\* SET fake:<hash>, for the mapping's fake token.
setFakeToken(t, v) ==
  /\ fakeCache' = [fakeCache EXCEPT ![t] = v]
  /\ evicted' = evicted \ {t}
  /\ UNCHANGED realCache

\* SET real:<hash>.
setRealTokenHash(v) ==
  /\ realCache' = realCache \union {v}
  /\ UNCHANGED <<fakeCache, evicted>>

\* Mutant: the key is left to its TTL.
removeFakeTokenByTtl(t) == UNCHANGED <<fakeCache, realCache, evicted>>

\* DEL fake:<hash>.
removeFakeToken(t) ==
  /\ fakeCache' = [fakeCache EXCEPT ![t] = NoReal]
  /\ UNCHANGED <<realCache, evicted>>

\* DEL real:<hash>.
removeRealTokenHash(v) ==
  /\ realCache' = realCache \ {v}
  /\ UNCHANGED <<fakeCache, evicted>>

-------------------------------------------------------------------------------
\* A request is a writer of the mapping it works on from its first call to its
\* last; a starting process is a writer of every row it has yet to write.
Holds(q, t) == pc[q] # "idle" /\ tok[q] = t
Syncs(i, t) == snap[i][t] # NoReal

\* A request starts work on mapping t with a first database call.
Begin(q, i, t, p, v, o) ==
  /\ pc' = [pc EXCEPT ![q] = p]
  /\ tok' = [tok EXCEPT ![q] = t]
  /\ val' = [val EXCEPT ![q] = v]
  /\ old' = [old EXCEPT ![q] = o]
  /\ home' = [home EXCEPT ![q] = i]
  /\ alone' = [r \in Requests |->
       IF r = q THEN /\ \A s \in Requests \ {q} : ~Holds(s, t)
                     /\ \A j \in Instances : ~Syncs(j, t)
       ELSE alone[r] /\ ~Holds(r, t)]
  /\ fresh' = [j \in Instances |-> fresh[j] \ {t}]
  /\ UNCHANGED <<sync, proxy, crashes, dirty>>

\* The requests in set Q are over and the process forgets them.
End(Q) ==
  /\ pc' = [q \in Requests |-> IF q \in Q THEN "idle" ELSE pc[q]]
  /\ tok' = [q \in Requests |-> IF q \in Q THEN NoToken ELSE tok[q]]
  /\ val' = [q \in Requests |-> IF q \in Q THEN NoReal ELSE val[q]]
  /\ old' = [q \in Requests |-> IF q \in Q THEN NoReal ELSE old[q]]
  /\ home' = [q \in Requests |-> IF q \in Q THEN NoInstance ELSE home[q]]
  /\ alone' = [q \in Requests |-> IF q \in Q THEN TRUE ELSE alone[q]]

Idle(q, i) == pc[q] = "idle" /\ ipc[i] = "serving"

\* createToken: INSERT of a row with a new fake token.
createToken(q, i, t, v) ==
  /\ Idle(q, i)
  /\ status[t] = "absent"
  /\ status' = [status EXCEPT ![t] = "active"]
  /\ real' = [real EXCEPT ![t] = v]
  /\ stored' = [stored EXCEPT ![t] = @ \union {v}]
  /\ Begin(q, i, t, "create_set", v, NoReal)
  /\ UNCHANGED cache

\* revokeToken: UPDATE ... WHERE id AND NOT revoked RETURNING the hashes.  On
\* any other row it throws and nothing has changed.
revokeToken(q, i, t) ==
  /\ Idle(q, i)
  /\ status[t] = "active"
  /\ status' = [status EXCEPT ![t] = "revoked"]
  /\ Begin(q, i, t, "revoke_del", NoReal, real[t])
  /\ UNCHANGED <<real, stored, cache>>

\* Mutant: memcached first, the row later.
rotateTokenCacheFirst(q, i, t, v) ==
  /\ Idle(q, i)
  /\ status[t] = "active"
  /\ Begin(q, i, t, "rotate_set", v, real[t])
  /\ UNCHANGED <<db, cache>>

\* Mutant: SELECT ... WHERE id.
rotateTokenAnyRow(q, i, t, v) ==
  /\ Idle(q, i)
  /\ status[t] # "absent"
  /\ Begin(q, i, t, "rotate_update", v, real[t])
  /\ UNCHANGED <<db, cache>>

\* rotateToken, first call: SELECT ... WHERE id AND NOT revoked.
rotateToken(q, i, t, v) ==
  /\ Idle(q, i)
  /\ status[t] = "active"
  /\ Begin(q, i, t, "rotate_update", v, real[t])
  /\ UNCHANGED <<db, cache>>

\* rotateToken, second call: UPDATE ... WHERE id, whatever the row is by now.
rotateUpdate(q) ==
  /\ pc[q] = "rotate_update"
  /\ real' = [real EXCEPT ![tok[q]] = val[q]]
  /\ stored' = [stored EXCEPT ![tok[q]] = @ \union {val[q]}]
  /\ pc' = [pc EXCEPT ![q] = "rotate_set"]
  /\ UNCHANGED <<status, cache, tok, val, old, home, sync, proxy, crashes,
                 alone, fresh, dirty>>

\* Mutant: a rotation writes the row it selected back to memcached.
CallWithSelectedRow(q) ==
  \/ /\ pc[q] = "create_set"
     /\ setFakeToken(tok[q], val[q])
  \/ /\ pc[q] = "rotate_set"
     /\ setFakeToken(tok[q], old[q])
  \/ /\ pc[q] \in {"create_hash", "rotate_hash"}
     /\ setRealTokenHash(val[q])
  \/ /\ pc[q] = "revoke_del"
     /\ removeFakeToken(tok[q])
  \/ /\ pc[q] \in {"revoke_delhash", "rotate_delhash"}
     /\ removeRealTokenHash(old[q])

\* The memcached call the request is at, in the order of the three services.
Call(q) ==
  \/ /\ pc[q] \in {"create_set", "rotate_set"}
     /\ setFakeToken(tok[q], val[q])
  \/ /\ pc[q] \in {"create_hash", "rotate_hash"}
     /\ setRealTokenHash(val[q])
  \/ /\ pc[q] = "revoke_del"
     /\ removeFakeToken(tok[q])
  \/ /\ pc[q] \in {"revoke_delhash", "rotate_delhash"}
     /\ removeRealTokenHash(old[q])

CallPoints == {"create_set", "create_hash", "revoke_del", "revoke_delhash",
               "rotate_set", "rotate_delhash", "rotate_hash"}

\* The call after a memcached call; a request whose last call returns is over.
After == [p \in {"create_set", "revoke_del", "rotate_set", "rotate_delhash"} |->
            CASE p = "create_set" -> "create_hash"
              [] p = "revoke_del" -> "revoke_delhash"
              [] p = "rotate_set" -> "rotate_delhash"
              [] p = "rotate_delhash" -> "rotate_hash"]

callReturns(q) ==
  /\ pc[q] \in DOMAIN After
  /\ Call(q)
  /\ pc' = [pc EXCEPT ![q] = After[pc[q]]]
  /\ UNCHANGED <<db, tok, val, old, home, sync, proxy, crashes, alone, fresh,
                 dirty>>

\* The last call returns and the route answers with success.
requestDone(q) ==
  /\ pc[q] \in CallPoints \ DOMAIN After
  /\ Call(q)
  /\ End({q})
  /\ dirty' = IF alone[q] THEN dirty \ {tok[q]} ELSE dirty \union {tok[q]}
  /\ UNCHANGED <<db, sync, proxy, crashes, fresh>>

\* A call throws (a timeout or a lost connection: it may have been carried out
\* all the same) and the route answers with an error.  Nothing is rolled back.
callFails(q) ==
  /\ "call" \in Faults
  /\ pc[q] # "idle"
  /\ Call(q) \/ UNCHANGED cache
  /\ End({q})
  /\ dirty' = dirty \union {tok[q]}
  /\ UNCHANGED <<db, sync, proxy, crashes, fresh>>

-------------------------------------------------------------------------------
\* An API process: main() and syncAllTokensToMemcached.

\* Mutant: the process listens without the sync.
startInstanceNoSync(i) ==
  /\ ipc[i] = "down"
  /\ ipc' = [ipc EXCEPT ![i] = "serving"]
  /\ UNCHANGED <<db, cache, request, snap, cur, proxy, crashes, alone, fresh,
                 dirty>>

startInstance(i) ==
  /\ ipc[i] = "down"
  /\ ipc' = [ipc EXCEPT ![i] = "starting"]
  /\ UNCHANGED <<db, cache, request, snap, cur, proxy, crashes, alone, fresh,
                 dirty>>

\* SELECT of the rows that are not revoked.
syncSelect(i) ==
  /\ ipc[i] = "starting"
  /\ ipc' = [ipc EXCEPT ![i] = "syncing"]
  /\ LET rows == {t \in Tokens : status[t] = "active"}
         held == {t \in rows : \/ \E q \in Requests : Holds(q, t)
                               \/ \E j \in Instances : Syncs(j, t) /\ t \notin fresh[j]}
     IN  /\ snap' = [snap EXCEPT ![i] =
                       [t \in Tokens |-> IF t \in rows THEN real[t] ELSE NoReal]]
         /\ fresh' = [fresh EXCEPT ![i] = rows \ held]
         /\ alone' = [q \in Requests |-> alone[q] /\ tok[q] \notin rows]
  /\ UNCHANGED <<db, cache, request, cur, proxy, crashes, dirty>>

\* The SELECT fails: main() logs it and goes on to listen.
syncSelectFails(i) ==
  /\ "call" \in Faults
  /\ ipc[i] = "starting"
  /\ ipc' = [ipc EXCEPT ![i] = "serving"]
  /\ UNCHANGED <<db, cache, request, snap, cur, proxy, crashes, alone, fresh,
                 dirty>>

\* The loop body, first call: the fake: key of the next row.
syncFake(i, t) ==
  /\ ipc[i] = "syncing"
  /\ cur[i] = NoToken
  /\ Syncs(i, t)
  /\ setFakeToken(t, snap[i][t])
  /\ cur' = [cur EXCEPT ![i] = t]
  /\ UNCHANGED <<db, request, ipc, snap, proxy, crashes, alone, fresh, dirty>>

\* Row t of the snapshot is dealt with and leaves the loop.
RowDone(i, t) ==
  /\ snap' = [snap EXCEPT ![i][t] = NoReal]
  /\ fresh' = [fresh EXCEPT ![i] = @ \ {t}]
  /\ cur' = [cur EXCEPT ![i] = NoToken]
  /\ UNCHANGED <<db, request, ipc, proxy, crashes, alone>>

\* The loop body, second call: the real: key of the row.
syncHash(i) ==
  /\ cur[i] # NoToken
  /\ setRealTokenHash(snap[i][cur[i]])
  /\ dirty' = IF cur[i] \in fresh[i] THEN dirty \ {cur[i]}
                                     ELSE dirty \union {cur[i]}
  /\ RowDone(i, cur[i])

\* A call of the loop body throws: the row is logged and skipped.
syncRowFails(i, t) ==
  /\ "call" \in Faults
  /\ ipc[i] = "syncing"
  /\ Syncs(i, t)
  /\ \/ /\ cur[i] = NoToken
        /\ setFakeToken(t, snap[i][t]) \/ UNCHANGED cache
     \/ /\ cur[i] = t
        /\ setRealTokenHash(snap[i][t]) \/ UNCHANGED cache
  /\ dirty' = IF t \in fresh[i] THEN dirty ELSE dirty \union {t}
  /\ RowDone(i, t)

\* The loop is over: the process listens.
syncDone(i) ==
  /\ ipc[i] = "syncing"
  /\ \A t \in Tokens : ~Syncs(i, t)
  /\ ipc' = [ipc EXCEPT ![i] = "serving"]
  /\ UNCHANGED <<db, cache, request, snap, cur, proxy, crashes, alone, fresh,
                 dirty>>

\* The process dies, and with it every request it was serving.
crash(i) ==
  /\ "crash" \in Faults
  /\ crashes < MaxCrashes
  /\ ipc[i] # "down"
  /\ crashes' = crashes + 1
  /\ ipc' = [ipc EXCEPT ![i] = "down"]
  /\ snap' = [snap EXCEPT ![i] = [t \in Tokens |-> NoReal]]
  /\ cur' = [cur EXCEPT ![i] = NoToken]
  /\ fresh' = [fresh EXCEPT ![i] = {}]
  /\ LET killed == {q \in Requests : home[q] = i}
     IN  /\ End(killed)
         /\ dirty' = dirty \union {t \in Tokens :
                       \/ \E q \in killed : Holds(q, t)
                       \/ Syncs(i, t) /\ t \notin fresh[i]}
  /\ UNCHANGED <<db, cache, proxy>>

-------------------------------------------------------------------------------
\* memcached drops keys: memory limit, 30-day TTL, or (all of them) a restart.
evict(T, V) ==
  /\ "evict" \in Faults
  /\ fakeCache' = [t \in Tokens |-> IF t \in T THEN NoReal ELSE fakeCache[t]]
  /\ realCache' = realCache \ V
  /\ evicted' = evicted \union T
  /\ UNCHANGED <<db, request, sync, proxy, crashes, alone, fresh, dirty>>

\* replaceToken: the proxy looks the fake token up.  With a value it replaces
\* the token; without one it takes it for a real token used directly.
replaceToken(p, t) ==
  /\ ppc[p] = "idle"
  /\ status[t] # "absent"
  /\ ppc' = [ppc EXCEPT ![p] = IF fakeCache[t] # NoReal THEN "fake"
                                                        ELSE "real_direct"]
  /\ ptok' = [ptok EXCEPT ![p] = t]
  /\ pval' = [pval EXCEPT ![p] = fakeCache[t]]
  /\ UNCHANGED <<db, cache, request, sync, crashes, alone, fresh, dirty>>

\* The request goes upstream after the connection to it is set up.
forward(p) ==
  /\ ppc[p] # "idle"
  /\ ppc' = [ppc EXCEPT ![p] = "idle"]
  /\ ptok' = [ptok EXCEPT ![p] = NoToken]
  /\ pval' = [pval EXCEPT ![p] = NoReal]
  /\ UNCHANGED <<db, cache, request, sync, crashes, alone, fresh, dirty>>

-------------------------------------------------------------------------------
Init ==
  /\ status = [t \in Tokens |-> "absent"]
  /\ real = [t \in Tokens |-> NoReal]
  /\ stored = [t \in Tokens |-> {}]
  /\ fakeCache = [t \in Tokens |-> NoReal]
  /\ realCache = {}
  /\ evicted = {}
  /\ pc = [q \in Requests |-> "idle"]
  /\ tok = [q \in Requests |-> NoToken]
  /\ val = [q \in Requests |-> NoReal]
  /\ old = [q \in Requests |-> NoReal]
  /\ home = [q \in Requests |-> NoInstance]
  /\ ipc = [i \in Instances |-> "down"]
  /\ snap = [i \in Instances |-> [t \in Tokens |-> NoReal]]
  /\ cur = [i \in Instances |-> NoToken]
  /\ crashes = 0
  /\ ppc = [p \in Proxies |-> "idle"]
  /\ ptok = [p \in Proxies |-> NoToken]
  /\ pval = [p \in Proxies |-> NoReal]
  /\ alone = [q \in Requests |-> TRUE]
  /\ fresh = [i \in Instances |-> {}]
  /\ dirty = {}

RequestNext(q) ==
  \/ \E i \in Instances, t \in Tokens :
       \/ \E v \in Reals : createToken(q, i, t, v)
       \/ revokeToken(q, i, t)
       \/ \E v \in Reals : rotateToken(q, i, t, v)
  \/ rotateUpdate(q)
  \/ callReturns(q)
  \/ requestDone(q)
  \/ callFails(q)

InstanceNext(i) ==
  \/ startInstance(i)
  \/ syncSelect(i)
  \/ syncSelectFails(i)
  \/ \E t \in Tokens : syncFake(i, t) \/ syncRowFails(i, t)
  \/ syncHash(i)
  \/ syncDone(i)
  \/ crash(i)

Next ==
  \/ \E q \in Requests : RequestNext(q)
  \/ \E i \in Instances : InstanceNext(i)
  \/ \E T \in SUBSET Tokens, V \in SUBSET Reals : evict(T, V)
  \/ \E p \in Proxies : (\E t \in Tokens : replaceToken(p, t)) \/ forward(p)

Spec == Init /\ [][Next]_vars

\* The runtime and the clients' timeouts keep every started call moving, and
\* the deployment restarts a process that died.  Nobody is obliged to crash,
\* evict, fail or send a request.
Fairness ==
  /\ \A q \in Requests : WF_vars(rotateUpdate(q) \/ callReturns(q) \/ requestDone(q))
  /\ \A i \in Instances :
       WF_vars(\/ startInstance(i) \/ syncSelect(i) \/ syncHash(i) \/ syncDone(i)
               \/ \E t \in Tokens : syncFake(i, t))

LiveSpec == Spec /\ Fairness

-------------------------------------------------------------------------------
RowTypes ==
  /\ status \in [Tokens -> {"absent", "active", "revoked"}]
  /\ real \in [Tokens -> Reals \union {NoReal}]
  /\ stored \in [Tokens -> SUBSET Reals]

CacheTypes ==
  /\ fakeCache \in [Tokens -> Reals \union {NoReal}]
  /\ realCache \subseteq Reals
  /\ evicted \subseteq Tokens

RequestTypes ==
  /\ pc \in [Requests -> {"idle", "rotate_update"} \union CallPoints]
  /\ tok \in [Requests -> Tokens \union {NoToken}]
  /\ val \in [Requests -> Reals \union {NoReal}]
  /\ old \in [Requests -> Reals \union {NoReal}]
  /\ home \in [Requests -> Instances \union {NoInstance}]
  /\ alone \in [Requests -> BOOLEAN]

ProcessTypes ==
  /\ ipc \in [Instances -> {"down", "starting", "syncing", "serving"}]
  /\ snap \in [Instances -> [Tokens -> Reals \union {NoReal}]]
  /\ cur \in [Instances -> Tokens \union {NoToken}]
  /\ fresh \in [Instances -> SUBSET Tokens]

ProxyTypes ==
  /\ ppc \in [Proxies -> {"idle", "fake", "real_direct"}]
  /\ ptok \in [Proxies -> Tokens \union {NoToken}]
  /\ pval \in [Proxies -> Reals \union {NoReal}]

\* The program counters, rows, keys and snapshots range over what the code
\* puts there.
TypeOK ==
  /\ RowTypes
  /\ CacheTypes
  /\ RequestTypes
  /\ ProcessTypes
  /\ ProxyTypes
  /\ crashes \in 0..MaxCrashes
  /\ dirty \subseteq Tokens

\* Postgres is written before memcached, on every path: whatever is in the
\* fake: key of a mapping, and whatever the proxy puts in a request, is a real
\* token that the row of that very mapping held at some time.  The race of a
\* rotation with a revocation or a restart does not break it.
CachedWasStored ==
  /\ \A t \in Tokens : fakeCache[t] \in stored[t] \union {NoReal}
  /\ \A p \in Proxies : ppc[p] = "fake" => pval[p] \in stored[ptok[p]]

\* No request is at work on t, and no starting process holds a row of t that a
\* request has outdated.
Settled(t) ==
  /\ \A q \in Requests : ~Holds(q, t)
  /\ \A i \in Instances : Syncs(i, t) => t \in fresh[i]

\* The key has the row's real token, or memcached has dropped it since.
Served(t) == fakeCache[t] = real[t] \/ (fakeCache[t] = NoReal /\ t \in evicted)

InStepWithRow(t) == IF status[t] = "active" THEN Served(t) ELSE fakeCache[t] = NoReal

\* The services keep memcached in step with Postgres as long as the writers of
\* one mapping neither overlap nor fail, and any later writer that meets neither
\* misfortune repairs what an earlier one left: then the key of a revoked
\* mapping is gone and the key of an active one is the row's real token, or
\* is missing because memcached dropped it.  Other mappings may be in any
\* state meanwhile.
Coherent ==
  \A t \in Tokens : Settled(t) /\ t \notin dirty => InStepWithRow(t)

\* What the proxy makes of it: a lookup of a settled mapping that finds a value
\* finds the real token the mapping has now, and never one for a revoked
\* mapping (replaceToken, replacer.ts:56-69).
LookupIsCurrent ==
  [][\A p \in Proxies :
       LET t == ptok'[p] IN
       ppc[p] = "idle" /\ ppc'[p] = "fake" /\ Settled(t) /\ t \notin dirty
         => status[t] = "active" /\ pval'[p] = real[t]]_vars

\* A revoked row is final but for one window: only a rotation that selected it
\* while it was still active, and was overtaken by the revocation, writes to it.
RevokedRowOnlyOvertaken ==
  [][\A t \in Tokens : status[t] = "revoked" /\ real'[t] # real[t] =>
       \E q \in Requests : pc[q] = "rotate_update" /\ tok[q] = t /\ ~alone[q]]_vars

\* A crash between the INSERT and the memcached calls loses nothing for good:
\* the restart's sync brings every active mapping back to the proxy.
ActiveEventuallyServed ==
  \A t \in Tokens : status[t] = "active" ~>
                       (fakeCache[t] # NoReal \/ status[t] = "revoked")

-------------------------------------------------------------------------------
\* The strengthening that makes Coherent inductive.

\* A call that is due has its operands.
RequestOperands ==
  \A q \in Requests :
    /\ pc[q] # "idle" => tok[q] \in Tokens
    /\ pc[q] \notin {"idle", "revoke_del", "revoke_delhash"} => val[q] \in Reals

LoopOperands ==
  \A i \in Instances :
    /\ cur[i] # NoToken => Syncs(i, cur[i])
    /\ \A t \in Tokens : Syncs(i, t) => ipc[i] = "syncing"

\* What is about to be written to a fake: key was stored first.
WritesWereStored ==
  /\ \A t \in Tokens : status[t] # "absent" => real[t] \in stored[t]
  /\ \A q \in Requests :
       pc[q] \in {"create_set", "rotate_set"} => val[q] \in stored[tok[q]]
  /\ \A i \in Instances, t \in Tokens : Syncs(i, t) => snap[i][t] \in stored[t]

\* A request whose history says so is indeed the only writer of its mapping.
AloneIsAlone ==
  \A q \in Requests : pc[q] # "idle" /\ alone[q] =>
    /\ \A r \in Requests \ {q} : ~Holds(r, tok[q])
    /\ \A i \in Instances : ~Syncs(i, tok[q])

\* A fresh row is still what Postgres has, and every writer of it agrees.
FreshIsCurrent ==
  \A i \in Instances : \A t \in fresh[i] :
    /\ Syncs(i, t)
    /\ status[t] = "active"
    /\ snap[i][t] = real[t]
    /\ \A q \in Requests : ~Holds(q, t)
    /\ \A j \in Instances : Syncs(j, t) => t \in fresh[j]

\* A fresh row whose fake: key the loop has written is served.
LoopServes ==
  \A i \in Instances : cur[i] \in fresh[i] => Served(cur[i])

\* How far a request that is the only writer of its mapping has come.
InStep(q) ==
  LET t == tok[q] IN
  /\ pc[q] \in {"create_set", "rotate_set"} => real[t] = val[q]
  /\ pc[q] \in {"create_hash", "rotate_delhash", "rotate_hash"} => Served(t)
  /\ pc[q] = "revoke_delhash" => fakeCache[t] = NoReal
  /\ status[t] = IF pc[q] \in {"revoke_del", "revoke_delhash"} THEN "revoked"
                                                             ELSE "active"

Progress == \A q \in Requests : pc[q] # "idle" /\ alone[q] => InStep(q)

\* Why Coherent holds: at every moment the one undisturbed writer of a mapping
\* knows what it has done to the row and to the key.
IInv ==
  /\ TypeOK
  /\ RequestOperands
  /\ LoopOperands
  /\ CachedWasStored
  /\ WritesWereStored
  /\ AloneIsAlone
  /\ FreshIsCurrent
  /\ LoopServes
  /\ Progress
  /\ Coherent

===============================================================================
