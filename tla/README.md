# Overbearer: models, checks and proofs

Overbearer lets services use harmless *fake* tokens: an API server keeps the real
tokens in Postgres and copies them to memcached, and a MITM proxy replaces a fake
token by the real one in every request on its way out, and logs it.  This directory
holds TLA+ models of the parts whose correctness depends on the order in which
things happen, the TLC runs that check them, and TLAPS proofs of every safety property that
a run checks.  All paths below are relative to the repository.

## 1. Inventory

| Component | State | Operations | Hard part |
|---|---|---|---|
| **Token vault** `packages/api/src/services/{token-service,memcached-sync}.ts` | `token_mappings` rows; memcached keys `fake:<hash>` (encrypted real token) and `real:<hash>` | create, revoke, rotate (each one or two SQL calls, then two or three memcached calls); sync of all active rows at start | no transaction spans the two stores; calls interleave, fail half-way, and a rolling update runs two processes |
| **Token replacement** `packages/proxy/src/token/*` | none | look the token of a request up, replace it | reads a copy that may be stale |
| **Log shipper** `packages/proxy/src/logging/clickhouse.ts` | `buffer`, `flushing`, the client | `log`, a 1 s timer, `flush`, `shutdownClickHouse` | sends that fail after having worked, shutdown beside a send, the cap |
| **CA registry** `packages/api/src/services/ca.ts`, `routes/ca.ts` | `ca_certificates`, one active row | generate, upload, generate-if-missing | READ COMMITTED transactions that overlap |
| **CA in the proxy** `packages/proxy/src/tls/{ca,cert-cache}.ts`, listener in `proxy.ts` | `caCert`, `caKey`, `lastCaCertPem`, certificate cache, `tlsServer`, table `service_certificates` | 1 s poll, callback on change, signing per host, listener job | polls and jobs overlap; two queries per poll |
| **Proxy process** `packages/proxy/src/{index,proxy}.ts` | sockets, connection count | CONNECT and plain HTTP handlers, shutdown | what is logged when something fails half-way |
| **Interception and framing** `packages/proxy/src/tls/mitm.ts` | what has been read off a socket | read a request, replace its token, forward it, read the answer | messages come in packets cut anywhere; lengths are stated in several ways or not at all |
| **API process** `packages/api/src/index.ts` | its certificate, two listeners | start (sync, CA, certificate, listen), stop | processes share one stored certificate, and CAs change |
| **Source ACL** `packages/proxy/src/acl/source-acl.ts`, `packages/api/src/routes/proxy-acls.ts` | the list of rules | 30 s poll, match | address arithmetic, stale rules |
| **Kubernetes identity** `packages/proxy/src/k8s/service-id.ts` | pods by address | watch events, lookup, wait for a name | addresses are reused, events are late |
| **Token requests** `packages/api/src/routes/token-requests.ts` | `token_requests` | create, approve, deny | approve is four calls without a transaction |
| **Accounts** `packages/api/src/auth/*`, `routes/{auth,users}.ts` | users, invites, passkeys, challenges, sessions | setup, invite, register, log in, change role, delete | check-then-act; roles live in sessions |
| **Groups and access** `packages/api/src/routes/{groups,tokens}.ts` | groups, members, grants | add, remove, grant, revoke, list | several ways to the same access |
| **Web UI** `packages/ui/src` | forms, open dialogs, fetched lists | calls to the API | loads that overlap, dialogs that keep their inputs; not modelled (section 6) |
| Encryption, log and service queries, deployment, end-to-end tests | - | - | no protocol; not modelled (PROJECT.json says why for each) |

How they interact.  The API and the proxy share no calls.  They meet in memcached
(written by the vault, read by the proxy), in Postgres (`ca_certificates`,
`proxy_acls` and `service_certificates`, polled by the proxy) and in ClickHouse
(written by the proxy, queried by the API).  Inside the proxy the connection
handlers ask the Kubernetes identity for a client's name and the source ACL for leave,
call the log shipper and use the certificates of the CA module; the CA module calls
back into `startProxy`'s listener code.  Inside the API the accounts, the groups, the
requests and the vault share Postgres' tables and their foreign keys, and an API process
that starts uses the CA registry.  `setup.sh` deploys one API
replica with rolling updates (so two processes overlap for a while), 3 to 50 proxy
replicas, and one memcached with a memory limit.

What makes each part correct: the vault, that the copy in memcached says what the
row says; the shipper, that every exchange gets its row once and in order, or is
accounted for; the registry, that readers always find one CA; the proxy, that it
ends up signing with that CA and presents nothing signed by an older one; requests
and accounts, that what is approved, invited or revoked happens once; groups and
access, that rights exist only between parties that exist and lists show them; the ACL
and the identity, that a client is let in exactly if the table says so of its pod; the
relay, that whole messages are passed on and recognised.  The hazards that could break
this are listed with their lines in PROJECT.json.

## 2. Plan

| Order | Module | What | State |
|---|---|---|---|
| 1 | `TokenVault` (+ proofs) | rows, memcached, requests, processes, lookups | done |
| 2 | `AuditLog`, `LogShipper` (+ proofs) | abstract log and the buffer that implements it | done |
| 3 | `CaStore`, `CaRegistry`, `ManagementTls` (+ proofs) | the CA readers find, the transactions that implement it, and the API processes that use it as they start | done |
| 4 | `ProxyCa` (+ proofs) | polls, cache and listener of one proxy, built on `CaStore` | done |
| 5 | `TokenRequests` (+ proofs) | approve and deny as interleaved calls | done |
| 6 | `ProxyConnection` (+ proofs) | exchanges from arrival to log entry, and the shutdown | done |
| 7 | `Accounts` (+ proofs) | setup, invites, challenges, sessions, deletion | done |
| 8 | `AccessPolicy`, `TokenAccess` (+ proofs) | what grants and groups promise, and the handlers that implement it | done |
| 9 | `SourceAcl`, `ServiceIdentity`, and `ClientPolicy`, which composes them (+ proofs) | rules and their matching; pods by address; who is let in | done |
| 10 | `HttpRelay` (+ proofs) | requests and answers in packets, in every way a length is stated | done |

Every invariant and action property of the runs and every refinement is proved (section
5).  Still worth having: an abstract specification of one tunnelled exchange that
`ProxyConnection` and `HttpRelay` both implement.

## 3. Modules and how they correspond to the code

**`TokenVault`**.  A row of `token_mappings` is `status`, `real` for one mapping; its
fake token is random and unique, so the mapping stands for the key `fake:<hash>`, and
a real token for its own hash.  A request has a program counter naming the *next*
awaited call, and its local variables `tok`, `val`, `old`.  One action is one awaited
call at the moment it takes effect: `createToken`, `revokeToken`, `rotateToken` are
the first SQL calls, `rotateUpdate` the second one of a rotation, `callReturns` and
`requestDone` the memcached calls.  `callFails` is a call that throws, whether or not
it was carried out; the handler has no compensation, so nothing else changes.  A
process is `startInstance`, `syncSelect`, `syncFake`/`syncHash` per row, `syncDone`.
`crash` ends a process with the requests it serves.  `evict` is memcached's memory
limit, TTL or restart.  `replaceToken` and `forward` are the proxy's use of what it
found.  History variables (`stored`, `alone`, `fresh`, `dirty`, `evicted`) record what
the properties are about and influence nothing.

**`AuditLog`** says what a log promises, knowing only the entries: each is pending,
in the table, or given up.  **`LogShipper`** is the code: `buffer`, `flushing`, the
batches that are on their way (`inflight`, by slots), the timer, the client that may not
be there yet, the shutdown with its own `flush`, and the sink, which may insert a batch
and report an error all the same.  `attemptFails` is that error met by the Kafka client,
which sends again by itself.  An entry is its number in the order of `log()`.
`Audit == INSTANCE AuditLog` with the refinement mapping is the property
`ImplementsAuditLog`.

**`CaStore`** is the interface between API and proxies: one CA that all readers find,
replaced in one step, never absent again.  **`CaRegistry`** is the three-statement
transaction of `generateCa` and of the upload route as Postgres runs it at READ
COMMITTED: the UPDATE works on the rows committed when it starts, waits for rows
another transaction has updated, and checks them again.  A row is its `created_at`,
which is the time of BEGIN.  **`ManagementTls`** extends it by the API processes
(`main()` in `index.ts`): `startServer`; `caEnsured`, or a generation of its own if it
finds no CA (two processes may both do that); `selectCa`; then `reuseStoredCert`, or
`signCert` and `storeCert`, as `service_certificates` stands when it is asked.
`getTlsFails` leaves the process without HTTPS for as long as it lives.  `met` records
the CAs there were while it started: the certificate is of one of them, and stays so
until the process ends, as nothing watches the CA after that.

**`ProxyCa`** is one proxy process.  A poll (`reloadIfChanged`) is five steps, each
ending at an await: its query, the comparison, `loadCA`'s query, the assignment of
`caCert` and `caKey`, and the callbacks.  A listener job is its query, the signature,
the upsert and `listen`.  Polls and jobs run side by side.  A pair `<<c, k>>` is a
certificate issued in the name of CA `c` and signed with the key of CA `k`.  Replicas
of the proxy meet only in `service_certificates`; one process and its restarts are
modelled.

**`TokenRequests`** has the rows of `token_requests`, `token_mappings` and
`token_access` that an approval writes, and calls with their local variables.  An
action is one SQL statement: `approveSelect`, `createToken`, `grantAccess`,
`approveUpdate`; `denySelect`, `denyUpdate`.  `callFails` ends a call between any two
of them (a failing statement, a failing memcached call of `createToken`, the end of the
process).  `shared` remembers the requests of which two decisions overlapped, `lost`
the mappings whose approval failed, `withdrawn` the access that a manager removed.

**`ProxyConnection`** is one proxy process and its exchanges, all from one address, so
that they can take each other's names.  An action is what a handler does between two
awaits: `handleConnect` (up to the handshake), `handshake`, `readHttpRequest`,
`lookupFakeToken`, `connectUpstream`, `readFullResponse`; the plain HTTP path enters at
`handleHttpProxy` and shares the later ones, with its own finally block (the count goes
down when the request is passed on), its own error callback (a 502 that is not logged,
where a tunnel's 503 is) and a name that is resolved from the start instead of after
the answer.  `refuse` and `Deny` are the early returns.  `resolveForLog` is its loop:
at once for a known address, later for an unknown one, after 5 s with the bare address.
`isServiceAllowed` may answer either way, as the rules may change between any two
exchanges.  `clientLeaves` closes a connection before its answer, which ends no handler;
`packet` and `pause` say whether the server of a tunnel is sending: as long as it is
(`talking`), the socket's timer starts over.  `shutdown`, `drained`/`drainTimesOut` and
`exit` are the shutdown.  `drained` waits for connections, as `server.close()` does, not
for handlers: those whose client has left, or was answered before its name was known,
are `left` behind.  Where the shutdown calls `shutdownClickHouse`, `LogShipper` takes
over, and what is logged after that is `late`.  A log row holds `response_status`: the model's status tells the proxy's own 403
and 503 from an answer, which the row does not if the server answers 503 itself.

**`Accounts`** has the rows of `users`, `invite_tokens`, `passkey_credentials` and
`webauthn_challenges`, the cookies that browsers hold, and calls.  A handler of several
statements is a sequence of actions (`countUsers`, `insertFirst`; `insertUser`,
`insertInvite`; `acceptInvite`, `markUsed`; `cleanupExpiredChallenges`,
`insertChallenge`; `verifyRegistration`, `insertCredential`, `deleteChallenge`,
`openSession`, and the same for a login); one of a single statement is one action
(`setRole`, `deleteUser`).  `callFails` ends a call between any two.  The foreign keys
are guards or effects of `deleteUser` and of the INSERTs.  A session outlives its user's
row and role; `overreach` remembers that one has acted beyond its user's present role.
Signature counters are left out; a row is never given a deleted user's id.

**`AccessPolicy`** says what memberships and grants promise, knowing no calls: they come
and go one at a time between parties that exist.  **`TokenAccess`** is the handlers of
`routes/groups.ts` and `routes/tokens.ts`: a call is the list of statements it still has
to do, the SELECTs that only decide (`check`) and the one that writes.  Between any two
the group, the user or the membership may be deleted; the foreign keys and UNIQUE
columns are in the INSERTs.  `createToken` is the row, the copy in memcached and one
INSERT per grant, whose failures are swallowed (`owed` remembers what was asked for).
`capture` never meets its own "already managed" answer, as only the random
`fake_token_hash` is unique.  `listTokens`, `accessibleBy`, `counts` and `detail` are the
queries behind the pages; a page shows the answers of several, which the handlers ask one
after the other and the model at one moment.

**`SourceAcl`** is the matching of an address and a name against a rule, with the shift
of `ipInCidr` on `Width` bits and its count taken modulo the width, and the loads: the
interval fires whether or not the last load is done, and a pool of one client answers
them one by one.  A pattern is a record: base and prefix, and the texts it matches as a
glob (a prefix beyond the width makes it one).  No rule means everybody, and there is
none before the first load that succeeds.  A rule is a row, so one pattern may be there
twice and be deleted once.  **`ServiceIdentity`** is the map from addresses
to pods: `indexPod` and `removePod` of `service-id.ts`, driven by a cluster that gives an
address to a pod and takes it back before, or without, the pod's object saying so, and by
the informer of `@kubernetes/client-node`, which lists and then watches, may break off
and is started again once (`restart`, `restartFails`).  A list deletes what it no longer
finds, using the object it had.  **`ClientPolicy`** runs both, as the check at the start
of both handlers of `proxy.ts` uses them (`PolicyNext`: a step of one or of the other).

**`HttpRelay`** is one exchange inside a tunnel, packet by packet.  A message is a
sequence of symbols (lines of the head, the empty line, parts of the body); a packet is
any number of them.  `requestData`, `responseData` are the two `onData` handlers, with
the searches they make in everything that has come so far; `requestEnd`, `responseEnd`
and `responseTimeout` the other ways out; `forward` writes the request with or without
its token replaced, and in `unreachable` there is no server to write it to.
`replaceTokenInBuffer` decodes the head as ASCII and encodes it again (`Decoded`, for a
line with bytes above 127), and puts in the real token with `String.replace`, which takes
some tokens for a pattern.  The messages
are any that state their length truly (`RelayAssumption`): a request with a body has a
length line or is chunked, an answer that is neither, nor without a body, ends with its
connection, and a last chunk is last.  It leaves out an interim answer (1xx) before the
answer proper and a `Transfer-Encoding` with further codings (`gzip, chunked`).

The `MC...` modules add the symmetry sets and, for `HttpRelay` and `ClientPolicy`, the
messages and rules.  Operators marked *Mutant* stand next to the definition they
distort; no specification uses them.

## 4. Runs

| Run | Checks | Shows |
|---|---|---|
| `vault_instances` | `CachedWasStored`, `Coherent`, `LookupIsCurrent`, `RevokedRowOnlyOvertaken` | two processes, their syncs, crashes, failures, evictions and lookups: the copy never holds a token of another row, and is in step once undisturbed writers are done |
| `vault_liveness` | `ActiveEventuallyServed` | crashes between the calls are made up for by the restart |
| `shipper_faults` | `InLogOrder`, `ImplementsAuditLog`, `EntriesSettle` | all faults and the shutdown; every entry ends in the table, dropped or lost with the process |
| `registry_overlap` | `TlsTypeOK`, `OnlyOverlapsLeaveTwo`, `ManagementCertFresh`, `NeverBack`, `ImplementsCaStore` | generations and uploads at once, with rollbacks, beside two API processes that start, restart and die: readers see one CA, replaced in one step, and a process serves a certificate of a CA that was active while it started |
| `proxy_ca_faults` | `ProxyTypeOK`, `StaleLeafAnnounced`, `FollowsEverywhere` | overlapping polls and jobs, failing queries, a key that cannot be decrypted, crashes: what is stale is about to be cleared, and an untroubled process ends up with the active CA everywhere |
| `requests_overlap` | `LinkedMapping`, `NoStrayMapping`, `ApprovedForGood`, `FinalUnlessShared` | three approvals and denials of two requests at once, failing anywhere |
| `connection_faults` | `EntriesAreTrue`, `EntryNamesClient`, `TokenUseLogged`, `TunnelEnds`, `ShutdownEnds` | two exchanges, failures at every await, clients that leave, servers that send on and on, a changing name, the shutdown and the kill: which uses of a token escape the log, that entries are true, and that tunnels (unless their server never stops sending) and the shutdown end |
| `accounts_overlap` | `TypeOK`, `AdminRemains`, `UsedOnce`, `RowsAgree` | two calls at once, on an empty database or beside an administrator, failing anywhere, with sessions that outlive their users: the last administrator stays, what can be used once is, the tables agree |
| `access_overlap` | `TypeOK`, `ImplementsAccessPolicy`, `GrantToHonoured` | two calls at once beside deletions: the tables implement the policy, the lists agree with it, a token's creation delivers its grants |
| `pod_identity` | `TypeOK`, `MapFollowsPods`, `PodEventuallyKnown` | addresses that go from pod to pod, late events, broken connections: the map follows the pods |
| `client_policy` | `SettledVerdict`, `RulesNeverBack`, `TableEnforced` | overlapping, failing loads beside changing addresses: who is let in once both have settled (a finished pod's address included), and that the table is enforced in the end |
| `relay_packets` | `WholeMessages`, `RecognisedAtOnce` | every way to state a length and to cut a message into packets; what of a request the replacement of its token changes |

What is proved for every instance (section 5) is not checked again where it adds no
question: the type invariants of `TokenVault`, `LogShipper`, `TokenRequests` and
`ProxyConnection`, and the invariants that only support another.

**Exceptions.**  Where a property above has an exception, it is one of these; many are
disagreements between the code and a sentence of its own documentation or comments.

- A revocation can be overtaken: `rotateToken` (and `createToken`) writes the `fake:` key
  after `revokeToken` has deleted it (`token-service.ts:117`), and the revoked mapping is
  served until memcached drops the key.  `MANUAL.md:119` says "Revoked tokens are no
  longer replaced by the proxy."
- A revocation whose memcached call fails (`token-service.ts:86`) cannot be repeated: the
  second one finds no active row and answers 404, and the sync only writes.
  `MANUAL.md:130` says that it is removed from the cache.
- Polls of the CA overlap when a query takes longer than a second.  If the older load is
  assigned last, the proxy keeps an old CA and never looks again (`tls/ca.ts:157`), where
  `tls/ca.ts:103` says "Reloads if the CA changes".
- A second listener job that starts before the first has listened meets a port in use, and
  nobody handles that error event (`proxy.ts:111`), where `tls/ca.ts:161` says "don't let a
  listener crash the watcher".
- A token that is used leaves no row (`TokenUseLogged`, `Escapes`), where `README.md:125`
  says "All token usage logged", if the upstream breaks off after it was sent the request
  (`tls/mitm.ts:87`); if the process is killed or its drain times out; or if the shutdown
  does not wait for the handler.  `server.close` (`proxy.ts:504`) waits for connections
  only.  When a client leaves during the lookup, the connecting or the wait, or when the
  answer comes before the client's name, the connection is closed, the last flush and
  `process.exit(0)` (`index.ts:106-131`) can follow, and the entry comes after them or
  never.
- A tunnel does not end while its server sends (`TunnelEnds`, `talking`): the 10 s and 30 s
  of `tls/mitm.ts:176` and `:311` are times without a packet, and nothing bounds the whole.
- A startup sync that fails is not repeated (`index.ts:132-135`: "tokens can be synced
  later"; nothing does), until a process starts again.  `vault_liveness` has crashes and no
  failing calls, so `ActiveEventuallyServed` says nothing of the mappings such a sync leaves
  out.
- Where the client library of the log cannot be loaded, entries stay in memory without a
  limit (`client = "failed"` in `EntriesSettle`): the cap is only looked at when a send fails
  (`logging/clickhouse.ts:176`).
- Two transactions that overlap leave two active CAs (`OnlyOverlapsLeaveTwo`), where
  `services/ca.ts:7` says "Deactivates all existing CAs"; readers find the newer one.  A
  failed call while an API process starts leaves it without HTTPS (`failed` in
  `ManagementCertFresh`).
- A query or a decryption that fails in the proxy, or a change of the CA before its first
  poll, may leave it with an old pair or with certificates of one (`missed` in
  `StaleLeafAnnounced`, `trouble` in `FollowsEverywhere`).
- Two decisions about one request that overlap can overwrite one another and leave a mapping
  that no request is linked to (`shared` in `TokenRequests`), and so does an approval that
  fails half-way (`lost`).
- Two calls that read an invite, a challenge or the empty table of users before either has
  marked it both go through (`contended` in `Accounts`): `UsedOnce` is about every other
  way to use them twice.
- Two administrators can demote or delete each other and leave none, as the guards look at
  the session's role and not at the row's (`users.ts:212`, `:246`).  `overreach` remembers
  it, and `AdminRemains` is about every other way to lose the last one.
- A creation of a user that fails before its invite is inserted leaves a user who can never
  register (`halfMade` in `RowsAgree`).
- A grant that fails in `POST /api/tokens` is swallowed and answered with 201
  (`routes/tokens.ts:188`); `GrantToHonoured` is about those that did not fail.
- While two pods' objects claim one address, or one pod's object changes its address, the
  map keeps the pod of the event that came last (`unclear` in `ServiceIdentity`);
  `MapFollowsPods` and `SettledVerdict` leave such an address out.  An informer whose
  restart fails stays dead (`PodEventuallyKnown`).
- The event that says that a pod has finished is ignored (`k8s/service-id.ts:139`), so its
  entry stays until the object is deleted, and a client of its address is let in by its name,
  where the comment of `:138` says "Only index pods that could be sending traffic".
  `NamesOf` in `ClientPolicy` counts that name among those the address may have.
- `HttpRelay`'s exceptions: the body of a chunked request is left out; a chunked answer
  whose head ends in 0 or whose data end in `0` and two line ends is cut there; any header
  whose name ends in `content-length` is taken for the length; an answer without a body
  to a HEAD, or with trailers, is only recognised after 30 s, as an error.  When a token is
  replaced, bytes above 127 anywhere in the head lose a bit (`token/replacer.ts:38`,
  `:102`), a real token with a `$` pattern in it is expanded (`:93`, `:98`), and one with
  characters of more than a byte is cut (`:102`).

**Bounds.**  `MaxCrashes` (3, or 2 with liveness) lets a crash hit a request, the
process started after it, and its sync.  Two requests and two processes are what a race needs; a
third writer of one mapping meets the same pairs of calls.  Two real tokens are enough
to tell the row's from another one.  There is one mapping: mappings share only the
`real:` hashes, and the proofs cover any number of them.  In the shipper `BatchSize` 2, `Cap` 2 and
`MaxEntries` 4 let a batch fill, a failed one be put back in front of newer entries,
and a failed one find no room; three flights are one more than can ever be used
(`SendDiscipline`).  In the registry a clock of 7 gives three transactions: two that overlap and one that
finds what they left.  Two processes and three starts let one restart while the other
runs, or two start at once; two further operations change the CA meanwhile.  In `ProxyCa` two polls
and two jobs are the smallest number that overlap; with more, a callback that finds no
free job slot waits, which real code does not do, so `Jobs` also bounds how many
listener jobs are looked at.  Two replacements out of three CAs let one happen before,
during or after a poll, and by a CA whose key cannot be decrypted.  A CA that has been
replaced does not come back in the model; in the code an admin can upload the same
certificate again, and a poll that compared one CA and loaded the next can then take it
for no change.

In `Accounts` two users' ids, one passkey and one challenge (spent on a registration, or
on a login where the database starts with an administrator who has the passkey) are enough for two setups, a
creation beside a deletion, two uses of one challenge, and two administrators who demote
each other; `Calls` (two) bounds what overlaps, and two of the four roles stand for what
is and is not an administrator.  In `TokenAccess` one group, token and name are what a
membership and a grant need, the two users are an administrator and a manager, and
`GrantTos` lets a creation grant to a user and to a group; a group's name is taken again
only after a deletion.  In `ServiceIdentity` two pods and two addresses let addresses be
handed over and swapped, with two events under way, an object that changes in other ways
and one broken connection (`MaxEvents`, `MaxEdits`, `MaxBreaks`); in `ClientPolicy`
three-bit addresses make every prefix length occur, one change of the table under two
loads is what could be undone, and after a second one a rule for a pod's name may be the
only one, so that the name decides; two of the rules are rows with one pattern.  `HttpRelay` has no bound but its messages.

In `TokenRequests` three calls let two approvals and a denial meet, and two mappings are
what overlapping approvals create; with all mappings used up an approval waits, which
bounds how many are looked at.

In `ProxyConnection` two exchanges are what the count and a name shared between
exchanges need; one name and one change of it let a name come, go, or come late.

**Fairness.**  Weak fairness on the calls of a started request, process, poll or job:
the runtime resumes an await when its promise settles, the clients' timeouts settle
it, and the container is restarted when it died.  In `LogShipper` also that a sink
that refuses does not refuse for ever.  In `ProxyConnection` the lookups and the wait for a
name are fair, because they have a timeout (memcached's, 5 s), and so are the shutdown's
30 s.  The timers of a tunnel's upstream (10 s to connect, 30 s to answer) run only while
nothing comes; its steps are fair only while the server is not `talking`, and the
server is not obliged to stop.  The handshake, the reading of a request and a plain HTTP
exchange have no timer, and get no fairness.  In `ServiceIdentity` an event
under way is delivered although connections break (strong fairness: the informer resumes),
the first list comes and the 5 s timer fires; in `ClientPolicy` the interval fires, and a
load that is tried for ever succeeds some time.  Nobody is obliged to send a request, to crash, to evict or to
replace a CA.

**Deadlock** is not checked where the system may stop: when the bounded counters are used
up (`registry_overlap`, `proxy_ca_faults`, `pod_identity`, `client_policy`), when
a process has been shut down or killed (`shipper_faults`, `connection_faults`), when
everything a liveness run may do is done (`vault_liveness`), and after the one exchange of
`relay_packets`.

## 5. Proofs

**`TokenVaultProofs`** proves for any number of mappings, real tokens, requests,
processes and connections, and any set of faults: `TypeOK`, `CachedWasStored`,
`IInv`, `Coherent`, `LookupIsCurrent`, `RevokedRowOnlyOvertaken`, from
`ConstantsAssumption` alone.  `Coherent` is about settled mappings only and so is
not inductive: nothing in it says what a request in the middle of its calls has done.
`IInv` adds that: `Progress` and `LoopServes` say how far the only writer of a mapping
has come with row and key, `FreshIsCurrent` that an untouched row of a sync is still
Postgres's, `AloneIsAlone` and `WritesWereStored` that the history variables mean what
they say.  The proof has one lemma per action and, under it, one step per conjunct the
action can disturb.

**`LogShipperProofs`** proves for any number of entries, batches, cap and faults:
`TypeOK`, `SendDiscipline`, `BatchesDisjoint`, `InLogOrder`, the step simulation of
`AuditLog` (`ImplementsAuditLog`) and what it gives, `EveryEntryAccounted` and
`NoDuplicateRows`.  The invariant `IInv` says which entries are where: buffer and
batches are disjoint, ascending (while the process is up), and together with the sink
and the dropped ones they are all the entries logged; a flight is in progress exactly
when the flag says so, except after the shutdown has cleared it.

**`TokenRequestsProofs`** proves the properties of `requests_overlap`, `TypeOK` and
`NoSelfDecision`, for any number of users, requests, mappings and calls.  `IInv` adds to them what a call in progress has
read and made so far (`Operands`, `Produced`) and that an approval of a request that is
not shared is the only call about it and finds it pending (`ApprovesAlone`), without
which nothing would forbid that approval to overwrite a decision.

**`ProxyConnectionProofs`** proves the invariants of `connection_faults`, `TypeOK` and
`CountIsHandlers` (the count of connections is the number of handlers at work) for any number of exchanges and names.  `IInv` adds what a handler knows and has done at each
point (`Phases`), that the entry is the last thing it does (`EntryLast`), that the
present name is among the names of whatever is running (`NamesCurrent`), and that after a
drain that did not time out only handlers without a connection are at work, and those are
`left` (`DrainComplete`): that is why what is logged after the last flush, or not at all,
was either left behind or had outlived the drain.  One lemma (`LocalStepKeeps`) is the frame of every step of an exchange; the
count is proved through the cardinality of the set of handlers at work.

**`CaProofs`** proves for any finite number of operations and any clock that the
transactions of `CaRegistry` keep the invariant of the registry, that a row readers no
longer find is never found again, and the step simulation of `CaStore`; for `ManagementTls`
the properties of `registry_overlap` for any number of processes and starts; and for
`ProxyCa`, for any number of polls, listener jobs, hosts and CAs, `ProxyTypeOK` and
`StaleLeafAnnounced`.
`OnlyOverlapsLeaveTwo` compares two committed rows and says nothing of a transaction
half-way, so `IInv` adds that the rows an UPDATE leaves alone were committed after its
snapshot (`Snapshots`), that a row readers have found was committed before every newer one that is still
active (`FoundFirst`), that ticks are not used twice (`Times`), and that a begin
leaves room for its commit (`Budget`, about the bound on the clock only).  That readers
find one row rests on a lemma that a set of rows has a newest one (`NewestRow`).
For the processes `TlsIInv` adds that whoever is past `ensureCaExists` found a CA, and that
the CA it has read was there meanwhile (`ReadsWhatWas`).
For the proxy `ProxyTypeOK` says more than types: a poll or a job has its operands exactly
while it is in progress, and a process that is down has neither jobs nor certificates.
With that (and `RetryWhileRunning`) `StaleLeafAnnounced` is inductive, as each load that
changes the pair either is going to announce it or records that it does not (`missed`).

**`ClientPolicyProofs`** proves for any pods, addresses, polls and rules, any bounds on
what happens to them and any width of an address the invariants of `pod_identity` and
`client_policy` and `RulesNeverBack`.  `MapFollowsPods` speaks of the
moments when no event is under way.  `IdentIInv` follows three versions of a pod: its
object, those in the events under way, and the one the informer has.  Its last event is its
object (`LastIsObject`); an address that is not `unclear` has one claimant
(`OneClaimant`) and is in every later version of the pod that has it (`AddressKept`); before
it is announced for another pod an event takes it away (`TakenFirst`); and the map says what
the informer has (`MapIsCache`), through watch events, lists and restarts.  For the rules,
`AclIInv` says that one load reads at a time, because the pool has one client, and that what
it has read lies between the rules in force and the table.  `SettledVerdict` compares the code's
mask and shift with the words of the rule: two addresses have the same first bits if they
have the same quotient by a power of 2.  `CidrIsPrefix` proves that they agree for every
width, prefix length and address, the shift by 32 (which is a shift by 0) included.  It goes
by induction on the number of bits, through the least counterexample, as the library's
induction theorems cannot be used here.

**Relay** (in `ProxyConnectionProofs`): `WholeMessages` and `RecognisedAtOnce` for every
set of messages that meet `RelayAssumption`, and every way to cut them into packets.  Neither
says what a reader knows half-way; `RelayIInv` adds that what has been read is a part of the
message that is not complete in the reader's eyes (`RequestUnread`, `AnswerUnread`) and that
what is about to be forwarded is the request (`RequestTaken`).  The proof rests on lemmas about
the readers' searches in the first n symbols of a message: nothing is found before the
head's end has come (`EndFound`), and afterwards the same, however much of the body follows
(`Readers`); so a reader's idea of the length is the message's (`StatedIsLength`).  That the
replacement changes the token alone is `PlainReplaced`, for heads without bytes above 127 and
tokens that are taken as they are.

**`AccountsProofs`** proves the properties of `accounts_overlap` for any number of
users, passkeys, challenges and calls.  `IInv` adds what a call has in hand at each
statement (`Operands`), that nobody has a session, and no call creates a user, before there
was a user (`FromUsers`), and, for what serves once, that two calls hold a thing at a time
only if the second read it while the first held it (`Overlaps`), that a use of what was
used already is of such a thing (`SecondUse`), and that a user or challenge that comes
into being has nothing used in its name (`InvitesFresh`, `ChallengesFresh`).  The setup is
overtaken by another setup, or (`SetupOvertaken`) after sessions that outlived their
users' roles have deleted everybody, by a user one of them then creates.  This needs more users
than the run has; the exception in `UsedOnce` is there because the proof met the case.

**`TokenAccessProofs`** proves the properties of `access_overlap` for any number of users,
groups, tokens, names and calls and any `GrantTos`, the refinement of `AccessPolicy` among
them.  A statement may run long after the SELECTs that let it, so `IInv` says nothing of
what they saw.  It says that a call has what each statement it still has to do is about and
that the three statements of a creation come in their order (`Sensible`), that a token has
one creator and no row before its INSERT (`OneCreator`), that rights are between parties
that exist (`RightsBacked`: the foreign keys), and that what is owed is granted or is still
in the list of the call that creates the token (`OwedOrGranted`).  The refinement has one lemma per
statement that writes, naming the step of the policy it is.

Assumptions.  A module that assumes anything of its constants says so in one named
`ASSUME`, which TLC evaluates in every run that reaches it.  They say that bounds are
numbers, that some sets are finite or parts of others, and that a value like `NoPod` is not a
pod; only `RelayAssumption` is about data: it says what well-formed messages are.

Not proved, only model-checked: the liveness properties (`ActiveEventuallyServed`,
`EntriesSettle`, `FollowsEverywhere`, `TunnelEnds`, `ShutdownEnds`, `PodEventuallyKnown`,
`TableEnforced`).  They rest on fairness, and the prover does not reason about ENABLED.

## 6. Not modelled

The components marked so in PROJECT.json, with the reason.  The largest is the web UI
(`packages/ui/src`): it keeps forms, dialogs and fetched lists, and it has races of its own
(a slow list that arrives after a newer one, a dialog that keeps a typed token after Cancel,
an answer that closes a dialog opened meanwhile).  Nothing in the API relies on the pages, so
the invariants here hold whatever they do; a module of one page composed with
`TokenRequests` exceeds what TLC can search at useful bounds.  Inside the modelled
components: the encryption (an injective function), the random fake
tokens (assumed distinct; the column is UNIQUE), time other than as an order, the
text of log rows, Postgres' connection pool but for the single client of the ACL, the other
replicas of the proxy where they share nothing with the one that is modelled, a certificate
file that an operator mounts for the API, the redirect from HTTP to HTTPS, signature counters
of authenticators, and which texts a glob matches.
