---------------------------- MODULE ProxyConnection ----------------------------
(***************************************************************************)
(* The exchanges of one proxy process: CONNECT tunnels that the proxy      *)
(* opens (packages/proxy/src/proxy.ts, tls/mitm.ts) and plain HTTP         *)
(* requests (proxy.ts), from the arrival to the log entry, with the name   *)
(* of the client that the pod informer supplies (k8s/service-id.ts) and    *)
(* the graceful shutdown (index.ts).                                       *)
(*                                                                         *)
(* The process is single-threaded: an action is what runs between two      *)
(* awaits.  All clients have one address, the case in which exchanges can  *)
(* take each other's names.  What log() does with an entry is LogShipper's *)
(* matter; here it counts whether it got there before the last flush.      *)
(***************************************************************************)
EXTENDS Naturals, FiniteSets

CONSTANTS
  Exchanges,
  Services,     \* names the client's address can have
  NoService,    \* the informer does not know the address: it is its own name
  Unset,        \* the name for the log is not known yet
  NoEntry,
  MaxChanges,   \* bound on the changes of the address' name
  Faults        \* what may go wrong, a subset of AllFaults

\* "client": bad targets, failing handshakes, clients that leave; "lookup":
\* memcached or the decryption fails; "upstream": servers that cannot be reached,
\* do not answer, break off or send without end; "kill": the process is killed.
AllFaults == {"client", "lookup", "upstream", "kill"}

Names == Services \union {NoService}

Entries ==
  [type : {"acl_denied", "fake", "real_direct"}, service : Names,
   status : {"denied", "unreached", "relayed"}]

ASSUME ConstantsAssumption ==
  /\ IsFiniteSet(Exchanges)
  /\ NoService \notin Services
  /\ Unset \notin Names
  /\ NoEntry \notin Entries
  /\ MaxChanges \in Nat
  /\ Faults \subseteq AllFaults

VARIABLES
  caLoaded,     \* isCALoaded()
  waits,        \* resolveForLog waits for this address: it is private, and
                \* Kubernetes is there
  service,      \* what ipMap says of the client's address
  changes,      \* number of its changes
  stage,        \* up, draining, flushed or exited
  pc,           \* where each exchange is
  path,         \* connect or http
  token,        \* tokenResult.type, or tokenType
  who,          \* logIdentity
  sent,         \* the request has been written to the upstream
  entry,        \* the exchange's log entry
  concurrentConnections,
  gone,         \* the client has closed its connection before its answer
  talking,      \* the server of the tunnel sends, packet after packet
  names, cut, left, late, timedOut, killed   \* history, see below

connection == <<pc, gone, talking>>
exchange == <<connection, path, token, who, sent, entry>>
address == <<service, changes>>
history == <<names, cut, left, late>>
shutdownState == <<stage, timedOut, killed>>
vars == <<caLoaded, waits, address, exchange, concurrentConnections, history,
          shutdownState>>

\* names[c]: what the address was called during the exchange.  cut: the upstream
\* failed after it had been sent the request.  left: the shutdown went on without
\* waiting for this handler.  late: the entry was logged after the last flush.
\* timedOut: the drain ran into its 30 s.

\* The proxy still has to answer: the client's connection is open, unless the
\* client has closed it.
Unanswered == {"handshake", "reading", "lookup", "connecting", "waiting"}

Running == Unanswered \union {"resolving"}

\* The counted part of a handler: all of handleConnect, but of handleHttpProxy
\* only what comes before the request is passed on.
Handled(c) ==
  \/ path[c] = "connect" /\ pc[c] \in Running
  \/ path[c] = "http" /\ pc[c] = "lookup"

\* A request can arrive: on a new connection, or on one that stays open.
Accepting == stage \in {"up", "draining"} \/ (stage = "flushed" /\ timedOut)

Entry(type, name, status) == [type |-> type, service |-> name, status |-> status]

EnterLog(c, e) ==
  /\ entry' = [entry EXCEPT ![c] = e]
  /\ late' = IF stage = "flushed" THEN late \union {c} ELSE late

\* The handler goes on.  Packets that it awaited have come or are awaited no more,
\* and once it has answered it does not matter how the connection ended.
Go(c, to) ==
  /\ pc' = [pc EXCEPT ![c] = to]
  /\ gone' = IF to \in Unanswered THEN gone ELSE gone \ {c}
  /\ talking' = talking \ {c}

\* The finally blocks, and the two returns of handleConnect that do it themselves.
Uncount(c) ==
  IF Handled(c) THEN concurrentConnections' = concurrentConnections - 1
                ELSE UNCHANGED concurrentConnections

\* The exchange ends without a log entry, and no name is asked for any more.
GiveUp(c) ==
  /\ Go(c, "done")
  /\ Uncount(c)
  /\ who' = [who EXCEPT ![c] = Unset]
  /\ names' = [names EXCEPT ![c] = {}]
  /\ UNCHANGED <<path, token, entry, late>>

-------------------------------------------------------------------------------
\* identifyService(): what the informer knows at this moment.
identifyService == service

\* Mutant: addresses outside the cluster's ranges are sorted out before the look
\* into the map.
ResolvedPrivateFirst == IF waits THEN Unset ELSE NoService

\* resolveForLog(), as far as it gets without waiting.
ResolvedAtOnce ==
  IF service # NoService THEN service ELSE IF waits THEN Unset ELSE NoService

Arrive(c, kind) ==
  /\ Accepting
  /\ pc[c] = "idle"
  /\ path' = [path EXCEPT ![c] = kind]
  /\ names' = [names EXCEPT ![c] = {service}]
  /\ UNCHANGED <<caLoaded, waits, address, token, sent, cut, left, shutdownState>>

\* isServiceAllowed() says no: an entry, and the end.
Deny(c) ==
  /\ Go(c, "done")
  /\ EnterLog(c, Entry("acl_denied", identifyService, "denied"))
  /\ UNCHANGED <<who, concurrentConnections>>

\* 400 for a bad target, 503 as long as there is no CA.
refuse(c) ==
  /\ ~caLoaded \/ "client" \in Faults
  /\ Go(c, "done")
  /\ UNCHANGED <<who, concurrentConnections, entry, late>>

\* handleConnect() up to its first await, in tlsServerWrap().  The rules change at
\* any time, so that isServiceAllowed() may say either.
handleConnect(c) ==
  /\ Arrive(c, "connect")
  /\ \/ refuse(c)
     \/ caLoaded /\ Deny(c)
     \/ /\ caLoaded
        /\ Go(c, "handshake")
        /\ concurrentConnections' = concurrentConnections + 1
        /\ UNCHANGED <<who, entry, late>>

\* The forged certificate is presented; getCertForHost and the handshake may fail,
\* or the handshake may go on for ever.
handshake(c) ==
  /\ pc[c] = "handshake"
  /\ \/ Go(c, "reading") /\ UNCHANGED <<path, token, who, entry, names, late,
                                        concurrentConnections>>
     \/ "client" \in Faults /\ GiveUp(c)
  /\ UNCHANGED <<caLoaded, waits, address, sent, cut, left, shutdownState>>

\* readHttpRequest(), and replaceToken() up to the lookup.
readHttpRequest(c) ==
  /\ pc[c] = "reading"
  /\ \/ /\ \E to \in {"lookup", "connecting"} : Go(c, to)
        /\ UNCHANGED <<path, token, who, entry, names, late, concurrentConnections>>
     \/ "client" \in Faults /\ GiveUp(c)
  /\ UNCHANGED <<caLoaded, waits, address, sent, cut, left, shutdownState>>

\* handleHttpProxy() up to its first await, or to its end for a request without a
\* token: then the finally block has already counted it out.
handleHttpProxy(c) ==
  /\ Arrive(c, "http")
  /\ \/ /\ "client" \in Faults
        /\ Go(c, "done")
        /\ UNCHANGED <<who, concurrentConnections, entry, late>>
     \/ Deny(c)
     \/ /\ who' = [who EXCEPT ![c] = ResolvedAtOnce]
        /\ \/ Go(c, "lookup") /\ concurrentConnections' = concurrentConnections + 1
           \/ Go(c, "connecting") /\ UNCHANGED concurrentConnections
        /\ UNCHANGED <<entry, late>>

\* lookupFakeToken() answers: a fake token is replaced, any other is taken for a
\* real one.  In handleHttpProxy this is the end of the counted part.
lookupFakeToken(c) ==
  /\ pc[c] = "lookup"
  /\ \E type \in {"fake", "real_direct"} : token' = [token EXCEPT ![c] = type]
  /\ Go(c, "connecting")
  /\ IF path[c] = "http" THEN concurrentConnections' = concurrentConnections - 1
                         ELSE UNCHANGED concurrentConnections
  /\ UNCHANGED <<caLoaded, waits, address, path, who, sent, entry, history, shutdownState>>

\* The handlers catch it, answer 502 and log nothing.
lookupFails(c) ==
  /\ "lookup" \in Faults
  /\ pc[c] = "lookup"
  /\ GiveUp(c)
  /\ UNCHANGED <<caLoaded, waits, address, sent, cut, left, shutdownState>>

\* An exchange with a token of the types given is logged: at once if the name is
\* known, after resolveForLog() otherwise.  handleHttpProxy began to resolve when
\* the request arrived, handleConnect does so now.
LogIdentified(c, status, types) ==
  LET name == IF path[c] = "http" THEN who[c] ELSE ResolvedAtOnce IN
  /\ who' = [who EXCEPT ![c] = name]
  /\ IF name = Unset
     THEN /\ Go(c, "resolving")
          /\ UNCHANGED <<entry, late, concurrentConnections>>
     ELSE /\ Go(c, "done")
          /\ Uncount(c)
          /\ IF token[c] \in types THEN EnterLog(c, Entry(token[c], name, status))
                                   ELSE UNCHANGED <<entry, late>>
  /\ UNCHANGED <<path, token, names>>

\* Mutant: direct uses of real tokens are only warned about.
FinishFakeOnly(c, status) ==
  IF token[c] = "none" THEN GiveUp(c) ELSE LogIdentified(c, status, {"fake"})

\* The client has its answer; only requests that carry a token are logged.
Finish(c, status) ==
  IF token[c] = "none" THEN GiveUp(c)
                       ELSE LogIdentified(c, status, {"fake", "real_direct"})

\* connectUpstream() returns and the request is written.
connectUpstream(c) ==
  /\ pc[c] = "connecting"
  /\ Go(c, "waiting")
  /\ sent' = [sent EXCEPT ![c] = TRUE]
  /\ UNCHANGED <<caLoaded, waits, address, path, token, who, entry,
                 concurrentConnections, history, shutdownState>>

\* Mutant: the request is written before the server's certificate is checked.
connectFailsWritten(c) ==
  /\ "upstream" \in Faults
  /\ pc[c] = "connecting"
  /\ sent' = [sent EXCEPT ![c] = TRUE]
  /\ IF path[c] = "connect" THEN Finish(c, "unreached") ELSE GiveUp(c)
  /\ UNCHANGED <<caLoaded, waits, address, cut, left, shutdownState>>

\* The server cannot be reached, sends nothing for 10 s or is not whom it says:
\* performMitm returns a 503 like any other answer, handleHttpProxy's error
\* callback sends a 502 and logs nothing.
connectFails(c) ==
  /\ "upstream" \in Faults
  /\ pc[c] = "connecting"
  /\ IF path[c] = "connect" THEN Finish(c, "unreached") ELSE GiveUp(c)
  /\ UNCHANGED <<caLoaded, waits, address, sent, cut, left, shutdownState>>

\* readFullResponse() returns; the headers of a plain HTTP response arrive.
readFullResponse(c) ==
  /\ pc[c] = "waiting"
  /\ Finish(c, "relayed")
  /\ UNCHANGED <<caLoaded, waits, address, sent, cut, left, shutdownState>>

\* The server breaks off, or a tunnel's server has sent nothing for 30 s.
upstreamFails(c) ==
  /\ "upstream" \in Faults
  /\ pc[c] = "waiting"
  /\ cut' = cut \union {c}
  /\ GiveUp(c)
  /\ UNCHANGED <<caLoaded, waits, address, sent, left, shutdownState>>

\* The 10 s of connectUpstream() and the 30 s of readFullResponse() are times
\* without a packet: a server whose packets come faster holds the tunnel, for as
\* long as it likes.
packet(c) ==
  /\ "upstream" \in Faults
  /\ path[c] = "connect" /\ pc[c] \in {"connecting", "waiting"}
  /\ c \notin talking
  /\ talking' = talking \union {c}
  /\ UNCHANGED <<caLoaded, waits, address, pc, gone, path, token, who, sent, entry,
                 concurrentConnections, history, shutdownState>>

\* The server sends no more, and the timer runs.
pause(c) ==
  /\ c \in talking
  /\ talking' = talking \ {c}
  /\ UNCHANGED <<caLoaded, waits, address, pc, gone, path, token, who, sent, entry,
                 concurrentConnections, history, shutdownState>>

Resolving(c) ==
  /\ who[c] = Unset
  /\ pc[c] = "resolving" \/ (path[c] = "http" /\ pc[c] \in Running)

\* resolveForLog() has a name, and the entry is logged if it only waited for that.
Resolve(c, name) ==
  /\ who' = [who EXCEPT ![c] = name]
  /\ IF pc[c] = "resolving"
     THEN /\ Go(c, "done")
          /\ EnterLog(c, Entry(token[c], name, IF sent[c] THEN "relayed" ELSE "unreached"))
          /\ Uncount(c)
     ELSE UNCHANGED <<connection, entry, late, concurrentConnections>>
  /\ UNCHANGED <<caLoaded, waits, address, path, token, sent, names, cut, left, shutdownState>>

\* Mutant: the wait ends with the next event only.
resolveWithoutTimeout(c) == Resolving(c) /\ service # NoService /\ Resolve(c, service)

\* resolveForLog() looks after each sleep, and gives up after 5 s if the address is
\* still unknown then.
resolveForLog(c) == Resolving(c) /\ Resolve(c, service)

-------------------------------------------------------------------------------
\* The CA is loaded; it is replaced later, never unloaded.
loadCA ==
  /\ stage # "exited"
  /\ ~caLoaded
  /\ caLoaded' = TRUE
  /\ UNCHANGED <<waits, address, exchange, concurrentConnections, history, shutdownState>>

\* The informer learns that the address has a pod, another one, or none.
podEvent ==
  /\ stage # "exited"
  /\ changes < MaxChanges
  /\ changes' = changes + 1
  /\ service' \in Names \ {service}
  /\ names' = [c \in Exchanges |-> IF pc[c] \in Running THEN names[c] \union {service'}
                                                      ELSE names[c]]
  /\ UNCHANGED <<caLoaded, waits, exchange, concurrentConnections, cut, left, late,
                 shutdownState>>

\* The client closes its connection before it is answered.  At most the error is
\* logged: the handler goes on, and comes to an end of its own.
clientLeaves(c) ==
  /\ "client" \in Faults
  /\ pc[c] \in Unanswered
  /\ c \notin gone
  /\ gone' = gone \union {c}
  /\ UNCHANGED <<caLoaded, waits, address, pc, talking, path, token, who, sent, entry,
                 concurrentConnections, history, shutdownState>>

\* SIGTERM: shutdownProxy() stops listening.
shutdown ==
  /\ stage = "up"
  /\ stage' = "draining"
  /\ UNCHANGED <<caLoaded, waits, address, exchange, concurrentConnections, history,
                 timedOut, killed>>

\* All connections are closed, answered or not: server.close() waits for
\* connections, not for handlers.  shutdownClickHouse() takes what is in the buffer.
drained ==
  /\ stage = "draining"
  /\ \A c \in Exchanges : pc[c] \in Unanswered => c \in gone
  /\ stage' = "flushed"
  /\ left' = left \union {c \in Exchanges : pc[c] = "resolving" \/ c \in gone}
  /\ UNCHANGED <<caLoaded, waits, address, exchange, concurrentConnections, names, cut,
                 late, timedOut, killed>>

\* Mutant: close() without a timer.
drainWithoutTimer == FALSE

\* closeServer()'s 30 s are over.
drainTimesOut ==
  /\ stage = "draining"
  /\ stage' = "flushed"
  /\ timedOut' = TRUE
  /\ UNCHANGED <<caLoaded, waits, address, exchange, concurrentConnections, history,
                 killed>>

\* The handlers that are still at work are lost, and what the process knew with
\* them.  What an exchange has sent, and as what, stays for the properties.
ProcessEnds ==
  /\ stage' = "exited"
  /\ pc' = [c \in Exchanges |-> IF pc[c] \in Running THEN "lost" ELSE pc[c]]
  /\ caLoaded' = FALSE
  /\ service' = NoService
  /\ path' = [c \in Exchanges |-> "none"]
  /\ who' = [c \in Exchanges |-> Unset]
  /\ concurrentConnections' = 0
  /\ gone' = {}
  /\ talking' = {}
  /\ UNCHANGED <<waits, changes, token, sent, entry, history, timedOut>>

\* process.exit(0).
exit == stage = "flushed" /\ ProcessEnds /\ UNCHANGED killed

\* SIGKILL, out of memory, or the grace period runs out.
kill == "kill" \in Faults /\ stage # "exited" /\ ProcessEnds /\ killed' = TRUE

-------------------------------------------------------------------------------
Init ==
  /\ caLoaded \in BOOLEAN
  /\ waits \in BOOLEAN
  /\ service \in Names
  /\ changes = 0
  /\ stage = "up"
  /\ pc = [c \in Exchanges |-> "idle"]
  /\ path = [c \in Exchanges |-> "none"]
  /\ token = [c \in Exchanges |-> "none"]
  /\ who = [c \in Exchanges |-> Unset]
  /\ sent = [c \in Exchanges |-> FALSE]
  /\ entry = [c \in Exchanges |-> NoEntry]
  /\ concurrentConnections = 0
  /\ gone = {}
  /\ talking = {}
  /\ names = [c \in Exchanges |-> {}]
  /\ cut = {}
  /\ left = {}
  /\ late = {}
  /\ timedOut = FALSE
  /\ killed = FALSE

Step(c) ==
  \/ handleConnect(c)
  \/ handshake(c)
  \/ readHttpRequest(c)
  \/ handleHttpProxy(c)
  \/ lookupFakeToken(c)
  \/ lookupFails(c)
  \/ connectUpstream(c)
  \/ connectFails(c)
  \/ readFullResponse(c)
  \/ upstreamFails(c)
  \/ packet(c)
  \/ pause(c)
  \/ resolveForLog(c)
  \/ clientLeaves(c)

Next ==
  \/ \E c \in Exchanges : Step(c)
  \/ loadCA
  \/ podEvent
  \/ shutdown
  \/ drained
  \/ drainTimesOut
  \/ exit
  \/ kill

Spec == Init /\ [][Next]_vars

\* The steps that a timeout brings about if nothing else does: memcached's client and
\* resolveForLog have theirs; the sockets of a tunnel have timers that run while the
\* server sends nothing.  No timer ends a plain HTTP request.
TimedStep(c) ==
  \/ lookupFakeToken(c) \/ lookupFails(c)
  \/ /\ path[c] = "connect" /\ c \notin talking
     /\ \/ connectUpstream(c) \/ connectFails(c)
        \/ readFullResponse(c) \/ upstreamFails(c)
  \/ resolveForLog(c)

\* The drain has its timeout, too.  Clients owe the proxy nothing.
Fairness ==
  /\ \A c \in Exchanges : WF_vars(TimedStep(c))
  /\ WF_vars(drainTimesOut \/ exit)

LiveSpec == Spec /\ Fairness

-------------------------------------------------------------------------------
\* The handlers' local variables and the count are the code's.
TypeOK ==
  /\ caLoaded \in BOOLEAN
  /\ waits \in BOOLEAN
  /\ service \in Names
  /\ changes \in 0..MaxChanges
  /\ stage \in {"up", "draining", "flushed", "exited"}
  /\ pc \in [Exchanges -> Running \union {"idle", "done", "lost"}]
  /\ path \in [Exchanges -> {"none", "connect", "http"}]
  /\ token \in [Exchanges -> {"none", "fake", "real_direct"}]
  /\ who \in [Exchanges -> Names \union {Unset}]
  /\ sent \in [Exchanges -> BOOLEAN]
  /\ entry \in [Exchanges -> Entries \union {NoEntry}]
  /\ concurrentConnections \in 0..Cardinality(Exchanges)
  /\ gone \subseteq Exchanges
  /\ talking \subseteq Exchanges
  /\ names \in [Exchanges -> SUBSET Names]
  /\ cut \subseteq Exchanges
  /\ left \subseteq Exchanges
  /\ late \subseteq Exchanges
  /\ timedOut \in BOOLEAN
  /\ killed \in BOOLEAN

\* Every path through the two handlers counts an exchange out as often as it has
\* counted it in, the early returns included: the number that /healthz and the
\* shutdown report is that of the handlers at work.
CountIsHandlers ==
  concurrentConnections = Cardinality({c \in Exchanges : Handled(c)})

\* An entry tells what happened, whichever upstream failure, timeout or wait for a
\* name came between: a token is on the wire if and only if its entry is that of an
\* answer, and not the 403 or the 503 of the proxy itself (a row does not show
\* whether the server or the proxy answered 503).
EntriesAreTrue ==
  \A c \in Exchanges : entry[c] # NoEntry =>
    /\ sent[c] <=> entry[c].status = "relayed"
    /\ entry[c].type = IF entry[c].status = "denied" THEN "acl_denied" ELSE token[c]

\* An entry bears a name that the client's address had during this exchange, and
\* the bare address only if it had none at some time of it, although pods come and
\* go while the exchange runs and others of the same address are named.
EntryNamesClient ==
  \A c \in Exchanges : entry[c] # NoEntry => entry[c].service \in names[c]

\* The ways in which the use of a token escapes the log: the upstream failed after
\* it had the request; the process was killed or its drain timed out; or the shutdown
\* did not wait for the handler, because its connection was closed: the answer had
\* come before the client's name, or the client had left before the answer.
Escapes(c) ==
  \/ c \in cut
  \/ killed
  \/ timedOut
  \/ c \in left

\* There are no others: any other exchange that has put a token on the wire and is
\* over was logged in time for the last flush.
TokenUseLogged ==
  \A c \in Exchanges :
    /\ sent[c] /\ token[c] # "none"
    /\ pc[c] \notin Running
    /\ ~Escapes(c)
    => entry[c] # NoEntry /\ c \notin late

\* A tunnel whose request has been read comes to its end, whatever its client and
\* the informer do, unless packets from its server restart the timer again and again:
\* nothing bounds the time that a server which goes on sending may take.
TunnelEnds ==
  \A c \in Exchanges :
    path[c] = "connect" /\ pc[c] \in {"lookup", "connecting", "waiting", "resolving"}
      ~> pc[c] \in {"done", "lost"} \/ c \in talking

\* A shutdown ends although a client that neither speaks nor leaves holds up the
\* drain.
ShutdownEnds == stage = "draining" ~> stage = "exited"

-------------------------------------------------------------------------------
\* The strengthening that makes the invariants inductive.

\* An exchange that has not begun has left no trace.
Fresh ==
  \A c \in Exchanges : pc[c] = "idle" =>
    who[c] = Unset /\ token[c] = "none" /\ ~sent[c] /\ entry[c] = NoEntry

\* What a handler knows and has done at each point.
Phases ==
  \A c \in Exchanges :
    /\ pc[c] \in {"handshake", "reading"} => path[c] = "connect"
    /\ pc[c] \in {"handshake", "reading", "lookup"} => token[c] = "none"
    /\ pc[c] \in {"handshake", "reading", "lookup", "connecting"} => ~sent[c]
    /\ pc[c] = "waiting" => sent[c]
    /\ pc[c] = "resolving" => token[c] # "none"

\* The entry is the last thing a handler does.
EntryLast ==
  \A c \in Exchanges :
    /\ entry[c] # NoEntry => pc[c] = "done"
    /\ c \in late => entry[c] # NoEntry

\* The address' present name is among the names of whatever is running.
NamesCurrent ==
  \A c \in Exchanges :
    /\ pc[c] \in Running => service \in names[c]
    /\ who[c] # Unset => who[c] \in names[c]

\* A drain that did not time out leaves only the handlers it did not wait for, and
\* the end leaves none.
DrainComplete ==
  /\ stage = "flushed" /\ ~timedOut =>
       \A c \in Exchanges : pc[c] \in Running => c \in left
  /\ stage = "exited" => \A c \in Exchanges : pc[c] \notin Running

IInv ==
  /\ TypeOK
  /\ Fresh
  /\ Phases
  /\ EntryLast
  /\ NamesCurrent
  /\ DrainComplete
  /\ CountIsHandlers
  /\ EntriesAreTrue
  /\ EntryNamesClient
  /\ TokenUseLogged

===============================================================================
