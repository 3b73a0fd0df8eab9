-------------------------------- MODULE ProxyCa --------------------------------
(***************************************************************************)
(* How one proxy process follows the CA: the poll that reloads it          *)
(* (packages/proxy/src/tls/ca.ts), the per-host certificates it signs      *)
(* (tls/cert-cache.ts) and its HTTPS listener, whose own certificate is    *)
(* kept in the table service_certificates (proxy.ts).                      *)
(*                                                                         *)
(* The poll runs every second and does not wait for the one before, so     *)
(* several may be in progress; the same holds for the jobs that fetch or   *)
(* generate the listener's certificate.  A step ends at an await.          *)
(***************************************************************************)
EXTENDS Naturals, FiniteSets

CONSTANTS
  Cas, NoCa,     \* certificate authorities
  Undecryptable, \* CAs whose key this proxy's master key does not decrypt
  Hosts,         \* hosts the services connect to
  Ticks, Jobs,   \* slots for polls and listener jobs in progress
  MaxChanges,    \* bound on the replacements of the CA
  MaxCrashes,    \* bound on the crashes that are not the listener's doing
  Faults         \* what may go wrong, a subset of AllFaults

\* "early": the CA is replaced while the proxy starts; "db": a query fails.
AllFaults == {"early", "db"}

ASSUME ProxyAssumption ==
  /\ NoCa \notin Cas
  /\ Undecryptable \subseteq Cas
  /\ MaxChanges \in Nat
  /\ MaxCrashes \in Nat
  /\ Faults \subseteq AllFaults

VARIABLES
  current,       \* the CA a reader of ca_certificates finds
  used,          \* history: the CAs there have been
  certRow,       \* row of service_certificates: the CA hashed, the pair it is of
  phase,         \* of the process: down, loaded or running
  caCert, caKey, \* the loaded certificate and key, by the CA they are of
  lastCaCertPem, \* the certificate the poll saw last
  tick, newPem, row, initial,    \* polls: next step and their local variables
  leaf,          \* per-host certificates in the cache, by the pair that signed
  retry,         \* startTlsListener's retry interval is set
  job, hash, pair,               \* listener jobs: next step, caHash, creds
  tlsServer,     \* the pair of the certificate the HTTPS port presents
  missed,        \* history: since the cache was cleared last, a load changed the
                 \* pair and told nobody
  trouble,       \* history: a fault happened or two polls overlapped
  crashes        \* crashes so far

db == <<current, used, certRow>>
ca == <<caCert, caKey, lastCaCertPem>>
polls == <<tick, newPem, row, initial>>
jobs == <<job, hash, pair>>
proxyVars == <<db, phase, ca, polls, leaf, retry, jobs, tlsServer, missed,
               trouble, crashes>>

Pairs == (Cas \union {NoCa}) \X (Cas \union {NoCa})
NoPair == <<NoCa, NoCa>>

isCALoaded == caCert # NoCa /\ caKey # NoCa

Table == INSTANCE CaStore

-------------------------------------------------------------------------------
\* The process has started and its poll has not yet seen a CA.
Early == phase # "down" /\ lastCaCertPem = NoCa

\* An admin replaces the CA (CaRegistry is how) by one that is new.
replaceCa ==
  /\ Cardinality(used) < MaxChanges
  /\ Table!Replace
  /\ current' \notin used
  /\ Early => "early" \in Faults
  /\ trouble' = (trouble \/ Early)
  /\ used' = used \union {current'}
  /\ UNCHANGED <<certRow, phase, ca, polls, leaf, retry, jobs, tlsServer,
                 missed, crashes>>

\* main() calls loadCA, which may find no row or fail; it goes on either way.
startProcess ==
  /\ phase = "down"
  /\ phase' = "loaded"
  /\ \/ /\ caCert' = current
        /\ caKey' = IF current \in Undecryptable THEN NoCa ELSE current
     \/ "db" \in Faults /\ UNCHANGED <<caCert, caKey>>
  /\ UNCHANGED <<db, lastCaCertPem, polls, leaf, retry, jobs, tlsServer,
                 missed, trouble, crashes>>

\* startTlsListener: the server in tlsServer is closed; with a CA a job gets a
\* certificate for the next one, without a CA an interval tries again.
startTlsListener ==
  /\ tlsServer' = NoPair
  /\ IF isCALoaded
       THEN /\ \E j \in Jobs :
                 /\ job[j] = "idle"
                 /\ job' = [job EXCEPT ![j] = "select"]
                 /\ hash' = [hash EXCEPT ![j] = caCert]
            /\ UNCHANGED <<pair, retry>>
       ELSE retry' = TRUE /\ UNCHANGED jobs

\* The end of main(): startCAWatcher and startProxy.
startProxy ==
  /\ phase = "loaded"
  /\ phase' = "running"
  /\ startTlsListener
  /\ UNCHANGED <<db, ca, polls, leaf, missed, trouble, crashes>>

\* The retry interval of startTlsListener fires and finds a CA.
retryFires ==
  /\ retry
  /\ isCALoaded
  /\ tlsServer' = NoPair
  /\ \E j \in Jobs :
       /\ job[j] = "idle"
       /\ job' = [job EXCEPT ![j] = "select"]
       /\ hash' = [hash EXCEPT ![j] = caCert]
  /\ retry' = FALSE
  /\ UNCHANGED <<db, phase, ca, polls, leaf, pair, missed, trouble, crashes>>

-------------------------------------------------------------------------------
\* Mutant: the watcher starts before the rest of main().
reloadIfChangedEarly(k) ==
  /\ phase # "down"
  /\ tick[k] = "idle"
  /\ current # NoCa
  /\ tick' = [tick EXCEPT ![k] = "selected"]
  /\ newPem' = [newPem EXCEPT ![k] = current]
  /\ trouble' = (trouble \/ \E l \in Ticks : tick[l] # "idle")
  /\ UNCHANGED <<db, phase, ca, row, initial, leaf, retry, jobs, tlsServer,
                 missed, crashes>>

\* reloadIfChanged, up to the result of its query.  Without a row it returns.
reloadIfChanged(k) ==
  /\ phase = "running"
  /\ tick[k] = "idle"
  /\ current # NoCa
  /\ tick' = [tick EXCEPT ![k] = "selected"]
  /\ newPem' = [newPem EXCEPT ![k] = current]
  /\ trouble' = (trouble \/ \E l \in Ticks : tick[l] # "idle")
  /\ UNCHANGED <<db, phase, ca, row, initial, leaf, retry, jobs, tlsServer,
                 missed, crashes>>

\* The poll is over, with nothing left of its local variables.
TickEnds(k) ==
  /\ tick' = [tick EXCEPT ![k] = "idle"]
  /\ newPem' = [newPem EXCEPT ![k] = NoCa]
  /\ row' = [row EXCEPT ![k] = NoCa]
  /\ initial' = [initial EXCEPT ![k] = FALSE]

\* It compares; with a certificate it knows it returns, else it calls loadCA.
compare(k) ==
  /\ tick[k] = "selected"
  /\ IF newPem[k] = lastCaCertPem
       THEN TickEnds(k)
       ELSE /\ tick' = [tick EXCEPT ![k] = "load"]
            /\ initial' = [initial EXCEPT ![k] = lastCaCertPem = NoCa]
            /\ UNCHANGED <<newPem, row>>
  /\ UNCHANGED <<db, phase, ca, leaf, retry, jobs, tlsServer, missed, trouble, crashes>>

\* loadCA's own query.
loadSelect(k) ==
  /\ tick[k] = "load"
  /\ tick' = [tick EXCEPT ![k] = "assign"]
  /\ row' = [row EXCEPT ![k] = current]
  /\ UNCHANGED <<db, phase, ca, newPem, initial, leaf, retry, jobs, tlsServer,
                 missed, trouble, crashes>>

\* No callback will follow the load of poll k.
Untold(k) == initial[k] \/ row[k] \in Undecryptable

\* loadCA takes the row over: the certificate, then the key.  When the key
\* cannot be decrypted it throws in between and the poll is over.
loadCA(k) ==
  /\ tick[k] = "assign"
  /\ caCert' = row[k]
  /\ IF row[k] \in Undecryptable
       THEN UNCHANGED caKey /\ TickEnds(k)
       ELSE /\ caKey' = row[k]
            /\ tick' = [tick EXCEPT ![k] = "notify"]
            /\ UNCHANGED <<newPem, row, initial>>
  /\ missed' = (missed \/ (Untold(k) /\ <<caCert', caKey'>> # <<caCert, caKey>>))
  /\ trouble' = (trouble \/ row[k] \in Undecryptable)
  /\ UNCHANGED <<db, phase, lastCaCertPem, leaf, retry, jobs, tlsServer, crashes>>

\* Mutant: the callback leaves the cache alone.
tellListenersKeepingCache(k) ==
  /\ tick[k] = "notify"
  /\ lastCaCertPem' = newPem[k]
  /\ TickEnds(k)
  /\ UNCHANGED leaf
  /\ IF initial[k] THEN UNCHANGED <<retry, jobs, tlsServer>> ELSE startTlsListener
  /\ UNCHANGED <<db, phase, caCert, caKey, missed, trouble, crashes>>

\* After loadCA the poll remembers the certificate it compared and, unless it
\* was the first, calls the callback of startProxy.
tellListeners(k) ==
  /\ tick[k] = "notify"
  /\ lastCaCertPem' = newPem[k]
  /\ TickEnds(k)
  /\ IF initial[k]
       THEN UNCHANGED <<leaf, retry, jobs, tlsServer, missed>>
       ELSE /\ leaf' = [h \in Hosts |-> NoPair]
            /\ missed' = FALSE
            /\ startTlsListener
  /\ UNCHANGED <<db, phase, caCert, caKey, trouble, crashes>>

\* loadCA's query fails: the poll is over, silently.
loadFails(k) ==
  /\ "db" \in Faults
  /\ tick[k] = "load"
  /\ TickEnds(k)
  /\ trouble' = TRUE
  /\ UNCHANGED <<db, phase, ca, leaf, retry, jobs, tlsServer, missed, crashes>>

-------------------------------------------------------------------------------
\* getCertForHost signs with the loaded pair and caches.
getCertForHost(h) ==
  /\ phase = "running"
  /\ isCALoaded
  /\ leaf[h] = NoPair
  /\ leaf' = [leaf EXCEPT ![h] = <<caCert, caKey>>]
  /\ UNCHANGED <<db, phase, ca, polls, retry, jobs, tlsServer, missed, trouble, crashes>>

\* The cache drops a certificate that is a day old or one of too many.
dropLeaf(h) ==
  /\ leaf[h] # NoPair
  /\ leaf' = [leaf EXCEPT ![h] = NoPair]
  /\ UNCHANGED <<db, phase, ca, polls, retry, jobs, tlsServer, missed, trouble, crashes>>

-------------------------------------------------------------------------------
\* Mutant: the row is used whatever CA it is of.
selectServiceCertAny(j) ==
  /\ job[j] = "select"
  /\ IF certRow.hash # NoCa
       THEN /\ pair' = [pair EXCEPT ![j] = certRow.pair]
            /\ job' = [job EXCEPT ![j] = "listen"]
       ELSE /\ job' = [job EXCEPT ![j] = "generate"]
            /\ UNCHANGED pair
  /\ UNCHANGED <<db, phase, ca, polls, leaf, retry, hash, tlsServer, missed, trouble, crashes>>

\* loadOrGenerateServiceCert's query: a row of the hashed CA is used unless it
\* expires within a week; otherwise a new certificate is due.
selectServiceCert(j) ==
  /\ job[j] = "select"
  /\ \/ /\ certRow.hash = hash[j]
        /\ pair' = [pair EXCEPT ![j] = certRow.pair]
        /\ job' = [job EXCEPT ![j] = "listen"]
     \/ /\ job' = [job EXCEPT ![j] = "generate"]
        /\ UNCHANGED pair
  /\ UNCHANGED <<db, phase, ca, polls, leaf, retry, hash, tlsServer, missed, trouble, crashes>>

\* It is signed with the pair that is loaded by now.
generateServiceCert(j) ==
  /\ job[j] = "generate"
  /\ pair' = [pair EXCEPT ![j] = <<caCert, caKey>>]
  /\ job' = [job EXCEPT ![j] = "store"]
  /\ UNCHANGED <<db, phase, ca, polls, leaf, retry, hash, tlsServer, missed, trouble, crashes>>

\* INSERT ... ON CONFLICT DO UPDATE.
storeServiceCert(j) ==
  /\ job[j] = "store"
  /\ certRow' = [hash |-> hash[j], pair |-> pair[j]]
  /\ job' = [job EXCEPT ![j] = "listen"]
  /\ UNCHANGED <<current, used, phase, ca, polls, leaf, retry, hash,
                 pair, tlsServer, missed, trouble, crashes>>

JobEnds(j) ==
  /\ job' = [job EXCEPT ![j] = "idle"]
  /\ hash' = [hash EXCEPT ![j] = NoCa]
  /\ pair' = [pair EXCEPT ![j] = NoPair]

\* The job's certificate is there and the port is free: a new server listens.
listen(j) ==
  /\ job[j] = "listen"
  /\ tlsServer = NoPair
  /\ tlsServer' = pair[j]
  /\ JobEnds(j)
  /\ UNCHANGED <<db, phase, ca, polls, leaf, retry, missed, trouble, crashes>>

\* A query of the job fails: it is logged, and there is no listener.
jobFails(j) ==
  /\ "db" \in Faults
  /\ job[j] \in {"select", "store"}
  /\ JobEnds(j)
  /\ trouble' = TRUE
  /\ UNCHANGED <<db, phase, ca, polls, leaf, retry, tlsServer, missed, crashes>>

\* The stored certificate is not of the CA it is stored under.
Misfiled == certRow.pair # <<certRow.hash, certRow.hash>>

\* All that the process has in memory is gone, and with it what troubled it
\* unless a misfiled certificate is left.
ProcessGone ==
  /\ phase' = "down"
  /\ caCert' = NoCa /\ caKey' = NoCa /\ lastCaCertPem' = NoCa
  /\ tick' = [k \in Ticks |-> "idle"]
  /\ newPem' = [k \in Ticks |-> NoCa]
  /\ row' = [k \in Ticks |-> NoCa]
  /\ initial' = [k \in Ticks |-> FALSE]
  /\ leaf' = [h \in Hosts |-> NoPair]
  /\ retry' = FALSE
  /\ job' = [j \in Jobs |-> "idle"]
  /\ hash' = [j \in Jobs |-> NoCa]
  /\ pair' = [j \in Jobs |-> NoPair]
  /\ tlsServer' = NoPair
  /\ missed' = FALSE
  /\ trouble' = (trouble /\ Misfiled)

\* The port is taken by the server of another job: the new server's error
\* event has no handler, and the process dies of it.
listenFails(j) ==
  /\ job[j] = "listen"
  /\ tlsServer # NoPair
  /\ ProcessGone
  /\ UNCHANGED <<db, crashes>>

\* The process dies of something else.
crash ==
  /\ phase # "down"
  /\ crashes < MaxCrashes
  /\ crashes' = crashes + 1
  /\ ProcessGone
  /\ UNCHANGED db

-------------------------------------------------------------------------------
ProxyInit ==
  /\ current = NoCa
  /\ used = {}
  /\ certRow = [hash |-> NoCa, pair |-> NoPair]
  /\ phase = "down"
  /\ caCert = NoCa /\ caKey = NoCa /\ lastCaCertPem = NoCa
  /\ tick = [k \in Ticks |-> "idle"]
  /\ newPem = [k \in Ticks |-> NoCa]
  /\ row = [k \in Ticks |-> NoCa]
  /\ initial = [k \in Ticks |-> FALSE]
  /\ leaf = [h \in Hosts |-> NoPair]
  /\ retry = FALSE
  /\ job = [j \in Jobs |-> "idle"]
  /\ hash = [j \in Jobs |-> NoCa]
  /\ pair = [j \in Jobs |-> NoPair]
  /\ tlsServer = NoPair
  /\ missed = FALSE
  /\ trouble = FALSE
  /\ crashes = 0

TickNext(k) ==
  \/ reloadIfChanged(k)
  \/ compare(k)
  \/ loadSelect(k)
  \/ loadCA(k)
  \/ tellListeners(k)
  \/ loadFails(k)

JobNext(j) ==
  \/ selectServiceCert(j)
  \/ generateServiceCert(j)
  \/ storeServiceCert(j)
  \/ listen(j)
  \/ listenFails(j)
  \/ jobFails(j)

ProxyNext ==
  \/ replaceCa
  \/ startProcess
  \/ startProxy
  \/ retryFires
  \/ \E k \in Ticks : TickNext(k)
  \/ \E h \in Hosts : getCertForHost(h) \/ dropLeaf(h)
  \/ \E j \in Jobs : JobNext(j)
  \/ crash

ProxySpec == ProxyInit /\ [][ProxyNext]_proxyVars

\* While the process is up its timers fire, its queries return and the
\* deployment restarts it when it died.  Nobody has to replace the CA, connect
\* or crash.
Fairness ==
  /\ WF_proxyVars(startProcess)
  /\ WF_proxyVars(startProxy)
  /\ WF_proxyVars(retryFires)
  /\ \A k \in Ticks :
       WF_proxyVars(reloadIfChanged(k) \/ compare(k) \/ loadSelect(k) \/ loadCA(k)
                 \/ tellListeners(k))
  /\ \A j \in Jobs :
       WF_proxyVars(selectServiceCert(j) \/ generateServiceCert(j) \/ storeServiceCert(j)
                 \/ listen(j) \/ listenFails(j))

LiveSpec == ProxySpec /\ Fairness

-------------------------------------------------------------------------------
TableTypes ==
  /\ current \in Cas \union {NoCa}
  /\ used \subseteq Cas
  /\ certRow \in [hash : Cas \union {NoCa}, pair : Pairs]

ProcessTypes ==
  /\ phase \in {"down", "loaded", "running"}
  /\ caCert \in Cas \union {NoCa}
  /\ caKey \in (Cas \ Undecryptable) \union {NoCa}
  /\ lastCaCertPem \in Cas \union {NoCa}
  /\ leaf \in [Hosts -> Pairs]
  /\ retry \in BOOLEAN
  /\ tlsServer \in Pairs

PollTypes ==
  /\ tick \in [Ticks -> {"idle", "selected", "load", "assign", "notify"}]
  /\ newPem \in [Ticks -> Cas \union {NoCa}]
  /\ row \in [Ticks -> Cas \union {NoCa}]
  /\ initial \in [Ticks -> BOOLEAN]

JobTypes ==
  /\ job \in [Jobs -> {"idle", "select", "generate", "store", "listen"}]
  /\ hash \in [Jobs -> Cas \union {NoCa}]
  /\ pair \in [Jobs -> Pairs]

HistoryTypes ==
  /\ missed \in BOOLEAN
  /\ trouble \in BOOLEAN
  /\ crashes \in 0..MaxCrashes

\* A poll or a job has its operand exactly while it is in progress.
Operands ==
  /\ \A k \in Ticks : tick[k] # "idle" <=> newPem[k] # NoCa
  /\ \A j \in Jobs : job[j] # "idle" <=> hash[j] # NoCa

\* Polls, jobs and certificates are those of a process that is up.
OnlyWhileRunning ==
  phase # "running" =>
    /\ \A k \in Ticks : tick[k] = "idle"
    /\ \A j \in Jobs : job[j] = "idle"
    /\ \A h \in Hosts : leaf[h] = NoPair

\* Certificates and keys are of known CAs, a poll or job in progress has its
\* operands, and a process that is down has nothing.
ProxyTypeOK ==
  /\ TableTypes
  /\ ProcessTypes
  /\ PollTypes
  /\ JobTypes
  /\ HistoryTypes
  /\ Operands
  /\ OnlyWhileRunning

\* A poll has loaded a pair and will call the callback for it.
Announced == \E k \in Ticks : tick[k] = "notify" /\ ~initial[k]

\* The cache holds certificates of another pair than the loaded one only until
\* the callback that clears it, however many polls overlap and whatever fails,
\* unless the pair was changed without one (MANUAL.md:395, a new CA
\* "invalidates all existing per-host certificates").
StaleLeafAnnounced ==
  \A h \in Hosts :
    leaf[h] \notin {NoPair, <<caCert, caKey>>} => Announced \/ missed

\* The retry interval is set by a listener that was to start.
RetryWhileRunning == retry => phase = "running"

\* The invariant of the proofs: the properties and what keeps them.
ProxyIInv == ProxyTypeOK /\ StaleLeafAnnounced /\ RetryWhileRunning

\* What the services meet once the CA is left alone: the pair that signs, the
\* certificates in the cache and the one of the HTTPS port are all of the CA
\* that the admins see.  The process keeps that through crashes, those of its
\* own listener jobs included; it does not when, since it started, polls
\* overlapped, a query or a decryption failed or the CA changed before the first
\* poll, nor when that left a misfiled listener certificate behind.
FollowsEverywhere ==
  <>[](\/ current = NoCa
       \/ trouble
       \/ /\ caCert = current /\ caKey = current
          /\ \A h \in Hosts : leaf[h] \in {NoPair, <<current, current>>}
          /\ tlsServer = <<current, current>>)

===============================================================================
