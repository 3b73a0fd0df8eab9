------------------------- MODULE ProxyConnectionProofs -------------------------
(***************************************************************************)
(* Theorems about ProxyConnection, for every number of exchanges and names *)
(* and every set of faults, and about HttpRelay, for every set of messages *)
(* that state their length truly and every way to cut them into packets.   *)
(***************************************************************************)
EXTENDS ProxyConnection, HttpRelay, FiniteSetTheorems, SequenceTheorems, TLAPS

\* What IInv says of one exchange.
Good(d) ==
  /\ Fresh!(d)
  /\ Phases!(d)
  /\ EntryLast!(d)
  /\ NamesCurrent!(d)
  /\ EntriesAreTrue!(d)
  /\ EntryNamesClient!(d)
  /\ TokenUseLogged!(d)

\* A step of exchange c: it touches neither the others nor what they share.
Local(c) ==
  /\ UNCHANGED <<waits, address, left, shutdownState>>
  /\ \A d \in Exchanges \ {c} :
       /\ UNCHANGED <<pc[d], path[d], token[d], who[d], sent[d], entry[d], names[d]>>
       /\ d \in cut' <=> d \in cut
       /\ d \in late' <=> d \in late

HandledSet == {d \in Exchanges : Handled(d)}

\* The count goes with the set of handlers at work.
CountsAlong(c) ==
  \/ Handled(c)' = Handled(c) /\ concurrentConnections' = concurrentConnections
  \/ ~Handled(c) /\ Handled(c)' /\ concurrentConnections' = concurrentConnections + 1
  \/ Handled(c) /\ ~Handled(c)' /\ concurrentConnections' = concurrentConnections - 1

-------------------------------------------------------------------------------
LEMMA InvariantSplits ==
  IInv <=> TypeOK /\ DrainComplete /\ CountIsHandlers /\ \A d \in Exchanges : Good(d)
BY DEF IInv, Good, Fresh, Phases, EntryLast, NamesCurrent, EntriesAreTrue,
       EntryNamesClient, TokenUseLogged

LEMMA InvariantSplitsPrimed ==
  IInv' <=> TypeOK' /\ DrainComplete' /\ CountIsHandlers' /\ \A d \in Exchanges : Good(d)'
BY DEF IInv, Good, Fresh, Phases, EntryLast, NamesCurrent, EntriesAreTrue,
       EntryNamesClient, TokenUseLogged

LEMMA OthersStayGood ==
  ASSUME NEW c \in Exchanges, Local(c), \A d \in Exchanges : Good(d)
  PROVE  \A d \in Exchanges \ {c} : Good(d)'
<1> SUFFICES ASSUME NEW d \in Exchanges, d # c
             PROVE  Good(d)'
  OBVIOUS
<1> USE DEF Local, address, shutdownState
<1>1. (Fresh!(d))' /\ (Phases!(d))' /\ (EntryLast!(d))'
  BY DEF Good
<1>2. (NamesCurrent!(d))' /\ (EntriesAreTrue!(d))' /\ (EntryNamesClient!(d))'
  BY DEF Good
<1>3. (TokenUseLogged!(d))'
  BY DEF Good, Escapes
<1> QED
  BY <1>1, <1>2, <1>3 DEF Good

LEMMA CountKept ==
  ASSUME TypeOK, CountIsHandlers, stage # "exited", NEW c \in Exchanges, Local(c),
         CountsAlong(c)
  PROVE  CountIsHandlers' /\ concurrentConnections' \in 0..Cardinality(Exchanges)
<1>1. IsFiniteSet(Exchanges) /\ IsFiniteSet(HandledSet) /\ IsFiniteSet(HandledSet')
  BY ConstantsAssumption, FS_Subset DEF HandledSet
<1>2. concurrentConnections = Cardinality(HandledSet)
  BY DEF CountIsHandlers, HandledSet
<1>3. \A d \in Exchanges \ {c} : Handled(d)' = Handled(d)
  BY DEF Local, Handled
<1>4. concurrentConnections' = Cardinality(HandledSet')
  <2>1. CASE Handled(c)' = Handled(c) /\ concurrentConnections' = concurrentConnections
    <3>1. HandledSet' = HandledSet
      BY <1>3, <2>1 DEF HandledSet
    <3> QED
      BY <1>2, <2>1, <3>1
  <2>2. CASE ~Handled(c) /\ Handled(c)' /\ concurrentConnections' = concurrentConnections + 1
    <3>1. HandledSet' = HandledSet \union {c} /\ c \notin HandledSet
      BY <1>3, <2>2 DEF HandledSet
    <3>2. Cardinality(HandledSet \union {c}) = Cardinality(HandledSet) + 1
      BY <1>1, <3>1, FS_AddElement
    <3> QED
      BY <1>2, <2>2, <3>1, <3>2
  <2>3. CASE Handled(c) /\ ~Handled(c)' /\ concurrentConnections' = concurrentConnections - 1
    <3>1. HandledSet' = HandledSet \ {c} /\ c \in HandledSet
      BY <1>3, <2>3 DEF HandledSet
    <3>2. Cardinality(HandledSet \ {c}) = Cardinality(HandledSet) - 1
      BY <1>1, <3>1, FS_RemoveElement
    <3> QED
      BY <1>2, <2>3, <3>1, <3>2
  <2> QED
    BY <2>1, <2>2, <2>3 DEF CountsAlong
<1>5. Cardinality(HandledSet') \in Nat /\ Cardinality(HandledSet') <= Cardinality(Exchanges)
  BY <1>1, FS_Subset, FS_CardinalityType DEF HandledSet
<1>6. CountIsHandlers'
  BY <1>4 DEF CountIsHandlers, HandledSet
<1>7. Cardinality(Exchanges) \in Nat
  BY <1>1, FS_CardinalityType
<1> QED
  BY <1>4, <1>5, <1>6, <1>7

\* The frame of every step of an exchange: what is left to show of it is its types,
\* its count and what the invariant says of that exchange.
LEMMA LocalStepKeeps ==
  ASSUME IInv, NEW c \in Exchanges, Local(c), CountsAlong(c),
         pc[c] \in Running \/ Accepting,
         pc'[c] \in Unanswered => pc[c] \in Unanswered \/ Accepting,
         concurrentConnections' \in 0..Cardinality(Exchanges) => TypeOK',
         Good(c)'
  PROVE  IInv'
<1>1. TypeOK /\ CountIsHandlers /\ DrainComplete /\ \A d \in Exchanges : Good(d)
  BY InvariantSplits
<1>2. stage # "exited"
  BY <1>1 DEF DrainComplete, Accepting
<1>3. CountIsHandlers' /\ TypeOK'
  BY <1>1, <1>2, CountKept
<1>4. \A d \in Exchanges : Good(d)'
  BY <1>1, OthersStayGood
<1>5. DrainComplete'
  BY <1>1, <1>2 DEF DrainComplete, Accepting, Local, shutdownState
<1> QED
  BY <1>3, <1>4, <1>5, InvariantSplitsPrimed

-------------------------------------------------------------------------------
\* What an entry says, and that it is one.
LEMMA EntryFields ==
  ASSUME NEW type, NEW name, NEW status
  PROVE  /\ Entry(type, name, status).type = type
         /\ Entry(type, name, status).service = name
         /\ Entry(type, name, status).status = status
BY DEF Entry

LEMMA EntryTyped ==
  ASSUME NEW type \in {"acl_denied", "fake", "real_direct"}, NEW name \in Names,
         NEW status \in {"denied", "unreached", "relayed"}
  PROVE  Entry(type, name, status) \in Entries /\ Entry(type, name, status) # NoEntry
<1>1. Entry(type, name, status) \in Entries
  BY DEF Entry, Entries
<1> QED
  BY <1>1, ConstantsAssumption

-------------------------------------------------------------------------------
\* One lemma per step of an exchange.

\* A handler that gives up has not sent anything.
LEMMA HandshakeKeeps ==
  ASSUME IInv, NEW c \in Exchanges, handshake(c)
  PROVE  IInv'
<1> USE DEF handshake, Go, GiveUp, Uncount
<1>1. Good(c) /\ DrainComplete
  BY InvariantSplits
<1>2. Local(c)
  BY DEF IInv, TypeOK, Local, address, history, shutdownState
<1>3. CountsAlong(c)
  BY <1>1 DEF IInv, TypeOK, Good, CountsAlong, Handled, Running, Unanswered
<1>4. concurrentConnections' \in 0..Cardinality(Exchanges) => TypeOK'
  BY DEF IInv, TypeOK, Running, Unanswered, address, history, shutdownState
<1>5. Good(c)'
  BY <1>1 DEF IInv, TypeOK, Good, Running, Unanswered, Escapes, address, history,
              shutdownState
<1> QED
  BY <1>2, <1>3, <1>4, <1>5, LocalStepKeeps DEF Running, Unanswered

\* The request has been read, or the handler gives up.
LEMMA ReadHttpRequestKeeps ==
  ASSUME IInv, NEW c \in Exchanges, readHttpRequest(c)
  PROVE  IInv'
<1> USE DEF readHttpRequest, Go, GiveUp, Uncount
<1>1. Good(c) /\ DrainComplete
  BY InvariantSplits
<1>2. Local(c)
  BY DEF IInv, TypeOK, Local, address, history, shutdownState
<1>3. CountsAlong(c)
  BY <1>1 DEF IInv, TypeOK, Good, CountsAlong, Handled, Running, Unanswered
<1>4. concurrentConnections' \in 0..Cardinality(Exchanges) => TypeOK'
  BY DEF IInv, TypeOK, Running, Unanswered, address, history, shutdownState
<1>5. Good(c)'
  BY <1>1 DEF IInv, TypeOK, Good, Running, Unanswered, Escapes, address, history,
              shutdownState
<1> QED
  BY <1>2, <1>3, <1>4, <1>5, LocalStepKeeps DEF Running, Unanswered

\* The type of the token is known; a plain HTTP request is counted out.
LEMMA LookupFakeTokenKeeps ==
  ASSUME IInv, NEW c \in Exchanges, lookupFakeToken(c)
  PROVE  IInv'
<1> USE DEF lookupFakeToken, Go
<1>1. Good(c) /\ DrainComplete
  BY InvariantSplits
<1>2. Local(c)
  BY DEF IInv, TypeOK, Local, address, history, shutdownState
<1>3. CountsAlong(c)
  BY <1>1 DEF IInv, TypeOK, Good, CountsAlong, Handled, Running, Unanswered
<1>4. concurrentConnections' \in 0..Cardinality(Exchanges) => TypeOK'
  BY DEF IInv, TypeOK, Running, Unanswered, address, history, shutdownState
<1>5. Good(c)'
  BY <1>1 DEF IInv, TypeOK, Good, Running, Unanswered, Escapes, address, history,
              shutdownState
<1> QED
  BY <1>2, <1>3, <1>4, <1>5, LocalStepKeeps DEF Running, Unanswered

\* Nothing has been sent when the lookup fails.
LEMMA LookupFailsKeeps ==
  ASSUME IInv, NEW c \in Exchanges, lookupFails(c)
  PROVE  IInv'
<1> USE DEF lookupFails, Go, GiveUp, Uncount
<1>1. Good(c) /\ DrainComplete
  BY InvariantSplits
<1>2. Local(c)
  BY DEF IInv, TypeOK, Local, address, history, shutdownState
<1>3. CountsAlong(c)
  BY <1>1 DEF IInv, TypeOK, Good, CountsAlong, Handled, Running, Unanswered
<1>4. concurrentConnections' \in 0..Cardinality(Exchanges) => TypeOK'
  BY DEF IInv, TypeOK, Running, Unanswered, address, history, shutdownState
<1>5. Good(c)'
  BY <1>1 DEF IInv, TypeOK, Good, Running, Unanswered, Escapes, address, history,
              shutdownState
<1> QED
  BY <1>2, <1>3, <1>4, <1>5, LocalStepKeeps DEF Running, Unanswered

\* The request is on the wire.
LEMMA ConnectUpstreamKeeps ==
  ASSUME IInv, NEW c \in Exchanges, connectUpstream(c)
  PROVE  IInv'
<1> USE DEF connectUpstream, Go
<1>1. Good(c) /\ DrainComplete
  BY InvariantSplits
<1>2. Local(c)
  BY DEF IInv, TypeOK, Local, address, history, shutdownState
<1>3. CountsAlong(c)
  BY <1>1 DEF IInv, TypeOK, Good, CountsAlong, Handled, Running, Unanswered
<1>4. concurrentConnections' \in 0..Cardinality(Exchanges) => TypeOK'
  BY DEF IInv, TypeOK, Running, Unanswered, address, history, shutdownState
<1>5. Good(c)'
  BY <1>1 DEF IInv, TypeOK, Good, Running, Unanswered, Escapes, address, history,
              shutdownState
<1> QED
  BY <1>2, <1>3, <1>4, <1>5, LocalStepKeeps DEF Running, Unanswered

\* What was sent escapes the log, as cut says.
LEMMA UpstreamFailsKeeps ==
  ASSUME IInv, NEW c \in Exchanges, upstreamFails(c)
  PROVE  IInv'
<1> USE DEF upstreamFails, Go, GiveUp, Uncount
<1>1. Good(c) /\ DrainComplete
  BY InvariantSplits
<1>2. Local(c)
  BY DEF IInv, TypeOK, Local, address, history, shutdownState
<1>3. CountsAlong(c)
  BY <1>1 DEF IInv, TypeOK, Good, CountsAlong, Handled, Running, Unanswered
<1>4. concurrentConnections' \in 0..Cardinality(Exchanges) => TypeOK'
  BY DEF IInv, TypeOK, Running, Unanswered, address, history, shutdownState
<1>5. Good(c)'
  BY <1>1 DEF IInv, TypeOK, Good, Running, Unanswered, Escapes, address, history,
              shutdownState
<1> QED
  BY <1>2, <1>3, <1>4, <1>5, LocalStepKeeps DEF Running, Unanswered

LEMMA EntryEntered ==
  ASSUME TypeOK, NEW c \in Exchanges,
         NEW type \in {"acl_denied", "fake", "real_direct"}, NEW name \in Names,
         NEW status \in {"denied", "unreached", "relayed"},
         EnterLog(c, Entry(type, name, status))
  PROVE  /\ entry' \in [Exchanges -> Entries \union {NoEntry}]
         /\ \A d \in Exchanges \ {c} : entry'[d] = entry[d] /\ (d \in late' <=> d \in late)
         /\ late' \subseteq Exchanges
         /\ stage # "flushed" => late' = late
         /\ entry'[c] # NoEntry
         /\ entry'[c].type = type /\ entry'[c].service = name /\ entry'[c].status = status
<1>1. /\ Entry(type, name, status) \in Entries
      /\ Entry(type, name, status) # NoEntry
  BY EntryTyped
<1>2. entry' = [entry EXCEPT ![c] = Entry(type, name, status)]
  BY DEF EnterLog
<1>3. entry'[c] = Entry(type, name, status)
  BY <1>2 DEF TypeOK
<1>4. late' = late \/ late' = late \union {c}
  BY DEF EnterLog
<1>5. stage # "flushed" => late' = late
  BY DEF EnterLog
<1>6. entry' \in [Exchanges -> Entries \union {NoEntry}]
  BY <1>1, <1>2 DEF TypeOK
<1>7. \A d \in Exchanges \ {c} : entry'[d] = entry[d]
  BY <1>2 DEF TypeOK
<1>8. late' \subseteq Exchanges
  BY <1>4 DEF TypeOK
<1> QED
  BY <1>1, <1>3, <1>4, <1>5, <1>6, <1>7, <1>8, EntryFields

\* A denied exchange is over at once; its entry bears the present name.
LEMMA DenyKeeps ==
  ASSUME IInv, NEW c \in Exchanges, NEW kind \in {"connect", "http"},
         Arrive(c, kind), Deny(c)
  PROVE  IInv'
<1> USE DEF Arrive, Deny, Go
<1>1. Good(c) /\ DrainComplete /\ TypeOK
  BY InvariantSplits DEF IInv
<1>2. /\ entry' \in [Exchanges -> Entries \union {NoEntry}]
      /\ \A d \in Exchanges \ {c} : entry'[d] = entry[d] /\ (d \in late' <=> d \in late)
      /\ late' \subseteq Exchanges
      /\ entry'[c] # NoEntry
      /\ entry'[c].type = "acl_denied" /\ entry'[c].service = service
      /\ entry'[c].status = "denied"
  BY <1>1, EntryEntered DEF TypeOK, identifyService
<1>3. Local(c)
  BY <1>1, <1>2 DEF TypeOK, Local, address, shutdownState
<1>4. CountsAlong(c)
  BY <1>1 DEF TypeOK, CountsAlong, Handled, Running, Unanswered
<1>5. concurrentConnections' \in 0..Cardinality(Exchanges) => TypeOK'
  BY <1>1, <1>2 DEF TypeOK, Running, Unanswered, address, shutdownState
<1>6. /\ pc'[c] = "done" /\ ~sent'[c] /\ names'[c] = {service} /\ who'[c] = Unset
      /\ token'[c] = "none"
  BY <1>1 DEF TypeOK, Good
<1>7. Good(c)'
  BY <1>2, <1>6 DEF Good, Running, Unanswered
<1> QED
  BY <1>3, <1>4, <1>5, <1>6, <1>7, LocalStepKeeps DEF Running, Unanswered

\* A tunnel is refused, denied, or let in.
LEMMA HandleConnectKeeps ==
  ASSUME IInv, NEW c \in Exchanges, handleConnect(c)
  PROVE  IInv'
<1>1. Good(c) /\ DrainComplete /\ TypeOK
  BY InvariantSplits DEF IInv
<1>2. CASE Deny(c)
  BY <1>2, DenyKeeps DEF handleConnect
<1>3. CASE ~Deny(c)
  <2>1. /\ Arrive(c, "connect")
        /\ UNCHANGED <<who, entry, late>>
        /\ \/ Go(c, "done") /\ UNCHANGED concurrentConnections
           \/ Go(c, "handshake") /\ concurrentConnections' = concurrentConnections + 1
    BY <1>3 DEF handleConnect, refuse
  <2> USE <2>1 DEF Arrive, Go
  <2>2. Local(c)
    BY <1>1 DEF TypeOK, Local, address, shutdownState
  <2>3. CountsAlong(c)
    BY <1>1 DEF TypeOK, CountsAlong, Handled, Running, Unanswered
  <2>4. concurrentConnections' \in 0..Cardinality(Exchanges) => TypeOK'
    BY <1>1 DEF TypeOK, Running, Unanswered, address, shutdownState
  <2>5. Good(c)'
    BY <1>1 DEF TypeOK, Good, Running, Unanswered, Escapes, address, shutdownState
  <2> QED
    BY <2>2, <2>3, <2>4, <2>5, LocalStepKeeps
<1> QED
  BY <1>2, <1>3

\* A plain HTTP request is refused, denied, or taken on.
LEMMA HandleHttpProxyKeeps ==
  ASSUME IInv, NEW c \in Exchanges, handleHttpProxy(c)
  PROVE  IInv'
<1>1. Good(c) /\ DrainComplete /\ TypeOK
  BY InvariantSplits DEF IInv
<1>2. CASE Deny(c)
  BY <1>2, DenyKeeps DEF handleHttpProxy
<1>3. CASE ~Deny(c)
  <2>1. /\ Arrive(c, "http")
        /\ UNCHANGED <<entry, late>>
        /\ who' = who \/ who' = [who EXCEPT ![c] = ResolvedAtOnce]
        /\ \/ Go(c, "done") /\ UNCHANGED <<who, concurrentConnections>>
           \/ Go(c, "lookup") /\ concurrentConnections' = concurrentConnections + 1
           \/ Go(c, "connecting") /\ UNCHANGED concurrentConnections
    BY <1>3 DEF handleHttpProxy
  <2>2. ResolvedAtOnce \in {service, Unset}
    BY DEF ResolvedAtOnce
  <2> USE <2>1 DEF Arrive, Go
  <2>3. Local(c)
    BY <1>1 DEF TypeOK, Local, address, shutdownState
  <2>4. CountsAlong(c)
    BY <1>1 DEF TypeOK, CountsAlong, Handled, Running, Unanswered
  <2>5. concurrentConnections' \in 0..Cardinality(Exchanges) => TypeOK'
    BY <1>1, <2>2 DEF TypeOK, Running, Unanswered, address, shutdownState
  <2>6. Good(c)'
    BY <1>1, <2>2 DEF TypeOK, Good, Running, Unanswered, Escapes, address, shutdownState
  <2> QED
    BY <2>3, <2>4, <2>5, <2>6, LocalStepKeeps
<1> QED
  BY <1>2, <1>3

\* An answered exchange is logged in time, unless it waits for its name, or the
\* shutdown did not wait for it.
LEMMA FinishKeeps ==
  ASSUME IInv, NEW c \in Exchanges, pc[c] \in {"connecting", "waiting"},
         NEW status \in {"unreached", "relayed"}, sent[c] <=> status = "relayed",
         Finish(c, status),
         UNCHANGED <<caLoaded, waits, address, sent, cut, left, shutdownState>>
  PROVE  IInv'
<1>1. Good(c) /\ DrainComplete /\ TypeOK
  BY InvariantSplits DEF IInv
<1>2. CASE token[c] = "none"
  <2> USE <1>2 DEF Finish, GiveUp, Uncount, Go
  <2>1. Local(c)
    BY <1>1 DEF TypeOK, Local, address, shutdownState
  <2>2. CountsAlong(c)
    BY <1>1 DEF TypeOK, CountsAlong, Handled, Running, Unanswered
  <2>3. concurrentConnections' \in 0..Cardinality(Exchanges) => TypeOK'
    BY <1>1 DEF TypeOK, Running, Unanswered, address, shutdownState
  <2>4. Good(c)'
    BY <1>1 DEF TypeOK, Good, Running, Unanswered, address, shutdownState
  <2> QED
    BY <2>1, <2>2, <2>3, <2>4, LocalStepKeeps DEF Running, Unanswered
<1>3. CASE token[c] # "none"
  <2> DEFINE name == IF path[c] = "http" THEN who[c] ELSE ResolvedAtOnce
  <2>1. /\ who' = [who EXCEPT ![c] = name]
        /\ UNCHANGED <<path, token, names>>
        /\ IF name = Unset
           THEN /\ Go(c, "resolving")
                /\ UNCHANGED <<entry, late, concurrentConnections>>
           ELSE /\ Go(c, "done")
                /\ Uncount(c)
                /\ EnterLog(c, Entry(token[c], name, status))
    BY <1>1, <1>3 DEF Finish, LogIdentified, TypeOK
  <2>2. name \in names[c] \union {Unset} /\ name \in Names \union {Unset}
    BY <1>1 DEF Good, ResolvedAtOnce, TypeOK, Running, Unanswered
  <2>3. Unset \notin Names
    BY ConstantsAssumption
  <2>4. CASE name = Unset
    <3>1. /\ Go(c, "resolving")
          /\ UNCHANGED <<entry, late, concurrentConnections>>
      BY <2>1, <2>4
    <3> HIDE DEF name
    <3>2. Local(c)
      BY <1>1, <2>1, <3>1 DEF TypeOK, Local, Go, address, shutdownState
    <3>3. CountsAlong(c)
      BY <1>1, <2>1, <3>1 DEF TypeOK, CountsAlong, Handled, Running, Unanswered, Go
    <3>4. concurrentConnections' \in 0..Cardinality(Exchanges) => TypeOK'
      BY <1>1, <2>1, <2>2, <3>1 DEF TypeOK, Running, Unanswered, Go, address, shutdownState
    <3>5. Good(c)'
      BY <1>1, <1>3, <2>1, <2>2, <2>3, <2>4, <3>1
      DEF TypeOK, Good, Running, Unanswered, Go, address, shutdownState
    <3> QED
      BY <3>2, <3>3, <3>4, <3>5, <3>1, <1>1, LocalStepKeeps
      DEF Running, Unanswered, Go, TypeOK
  <2>5. CASE name # Unset
    <3>1. /\ Go(c, "done")
          /\ Uncount(c)
          /\ EnterLog(c, Entry(token[c], name, status))
      BY <2>1, <2>5
    <3>2. token[c] \in {"acl_denied", "fake", "real_direct"} /\ name \in Names
          /\ name \in names[c]
      BY <1>1, <1>3, <2>2, <2>5 DEF TypeOK
    <3> HIDE DEF name
    <3>3. /\ entry' \in [Exchanges -> Entries \union {NoEntry}]
          /\ \A d \in Exchanges \ {c} : entry'[d] = entry[d] /\ (d \in late' <=> d \in late)
          /\ late' \subseteq Exchanges
          /\ stage # "flushed" => late' = late
          /\ entry'[c] # NoEntry
          /\ entry'[c].type = token[c] /\ entry'[c].service = name
          /\ entry'[c].status = status
      BY <1>1, <3>1, <3>2, EntryEntered
    <3>4. Local(c)
      BY <1>1, <2>1, <3>1, <3>3 DEF TypeOK, Local, Go, address, shutdownState
    <3>5. CountsAlong(c)
      BY <1>1, <2>1, <3>1 DEF TypeOK, CountsAlong, Handled, Running, Unanswered, Go, Uncount
    <3>6. concurrentConnections' \in 0..Cardinality(Exchanges) => TypeOK'
      BY <1>1, <2>1, <3>1, <3>2, <3>3
      DEF TypeOK, Running, Unanswered, Go, address, shutdownState
    <3>7. /\ pc'[c] = "done" /\ who'[c] = name /\ names'[c] = names[c]
          /\ sent'[c] = sent[c] /\ token'[c] = token[c]
      BY <1>1, <2>1, <3>1 DEF TypeOK, Go
    <3>8. stage = "flushed" => timedOut' \/ c \in left'
      BY <1>1 DEF DrainComplete, Running, Unanswered, shutdownState
    <3>9. c \in late' => stage = "flushed"
      BY <1>1, <3>3 DEF Good
    <3>10. Good(c)'
      BY <2>5, <3>2, <3>3, <3>7, <3>8, <3>9 DEF Good, Running, Unanswered, Escapes
    <3> QED
      BY <3>4, <3>5, <3>6, <3>7, <3>10, LocalStepKeeps DEF Running, Unanswered
  <2> QED
    BY <2>4, <2>5
<1> QED
  BY <1>2, <1>3

\* Nothing has been sent, and the entry of a tunnel says so.
LEMMA ConnectFailsKeeps ==
  ASSUME IInv, NEW c \in Exchanges, connectFails(c)
  PROVE  IInv'
<1>1. Good(c) /\ DrainComplete /\ TypeOK
  BY InvariantSplits DEF IInv
<1>2. ~sent[c]
  BY <1>1 DEF Good, connectFails
<1>3. CASE path[c] = "connect"
  BY <1>2, <1>3, FinishKeeps DEF connectFails
<1>4. CASE path[c] # "connect"
  <2> USE <1>4 DEF connectFails, GiveUp, Uncount, Go
  <2>1. Local(c)
    BY <1>1 DEF TypeOK, Local, address, shutdownState
  <2>2. CountsAlong(c)
    BY <1>1 DEF TypeOK, CountsAlong, Handled, Running, Unanswered
  <2>3. concurrentConnections' \in 0..Cardinality(Exchanges) => TypeOK'
    BY <1>1 DEF TypeOK, Running, Unanswered, address, shutdownState
  <2>4. Good(c)'
    BY <1>1 DEF TypeOK, Good, Running, Unanswered, address, shutdownState
  <2> QED
    BY <2>1, <2>2, <2>3, <2>4, LocalStepKeeps DEF Running, Unanswered
<1> QED
  BY <1>3, <1>4

LEMMA ReadFullResponseKeeps ==
  ASSUME IInv, NEW c \in Exchanges, readFullResponse(c)
  PROVE  IInv'
<1>1. sent[c]
  BY InvariantSplits DEF Good, readFullResponse
<1> QED
  BY <1>1, FinishKeeps DEF readFullResponse

\* The name is the address' present one, and a wait that ends after the last flush
\* is that of a handler that the shutdown did not wait for.
LEMMA ResolveForLogKeeps ==
  ASSUME IInv, NEW c \in Exchanges, resolveForLog(c)
  PROVE  IInv'
<1>1. Good(c) /\ DrainComplete /\ TypeOK
  BY InvariantSplits DEF IInv
<1>2. /\ pc[c] \in Running
      /\ who' = [who EXCEPT ![c] = service]
      /\ UNCHANGED <<caLoaded, waits, address, path, token, sent, names, cut, left,
                     shutdownState>>
  BY DEF resolveForLog, Resolving, Resolve, Running
<1>3. service \in names[c] /\ service \in Names /\ service # Unset
  BY <1>1, <1>2, ConstantsAssumption DEF Good, TypeOK
<1>4. CASE pc[c] # "resolving"
  <2>1. UNCHANGED <<pc, gone, talking, entry, late, concurrentConnections>>
    BY <1>4 DEF resolveForLog, Resolve, connection
  <2>2. Local(c)
    BY <1>1, <1>2, <2>1 DEF TypeOK, Local, address, shutdownState
  <2>3. CountsAlong(c)
    BY <1>1, <1>2, <2>1 DEF TypeOK, CountsAlong, Handled
  <2>4. concurrentConnections' \in 0..Cardinality(Exchanges) => TypeOK'
    BY <1>1, <1>2, <1>3, <2>1 DEF TypeOK, address, shutdownState
  <2>5. Good(c)'
    BY <1>1, <1>2, <1>3, <2>1 DEF TypeOK, Good, Escapes, Running, Unanswered, address, shutdownState
  <2> QED
    BY <1>2, <2>1, <2>2, <2>3, <2>4, <2>5, LocalStepKeeps
<1>5. CASE pc[c] = "resolving"
  <2> DEFINE status == IF sent[c] THEN "relayed" ELSE "unreached"
  <2>1. /\ Go(c, "done")
        /\ Uncount(c)
        /\ EnterLog(c, Entry(token[c], service, status))
    BY <1>5 DEF resolveForLog, Resolve
  <2>2. token[c] \in {"acl_denied", "fake", "real_direct"} /\ token[c] # "acl_denied"
    BY <1>1, <1>5 DEF Good, TypeOK
  <2>3. status \in {"denied", "unreached", "relayed"} /\ status # "denied"
        /\ (sent[c] <=> status = "relayed")
    OBVIOUS
  <2> HIDE DEF status
  <2>4. /\ entry' \in [Exchanges -> Entries \union {NoEntry}]
        /\ \A d \in Exchanges \ {c} : entry'[d] = entry[d] /\ (d \in late' <=> d \in late)
        /\ late' \subseteq Exchanges
        /\ stage # "flushed" => late' = late
        /\ entry'[c] # NoEntry
        /\ entry'[c].type = token[c] /\ entry'[c].service = service
        /\ entry'[c].status = status
    BY <1>1, <1>3, <2>1, <2>2, <2>3, EntryEntered
  <2>5. Local(c)
    BY <1>1, <1>2, <2>1, <2>4 DEF TypeOK, Local, Go, address, shutdownState
  <2>6. CountsAlong(c)
    BY <1>1, <1>2, <2>1 DEF TypeOK, CountsAlong, Handled, Running, Unanswered, Go, Uncount
  <2>7. concurrentConnections' \in 0..Cardinality(Exchanges) => TypeOK'
    BY <1>1, <1>2, <1>3, <2>1, <2>4
    DEF TypeOK, Running, Unanswered, Go, address, shutdownState
  <2>8. /\ pc'[c] = "done" /\ who'[c] = service /\ names'[c] = names[c]
        /\ sent'[c] = sent[c] /\ token'[c] = token[c]
    BY <1>1, <1>2, <2>1 DEF TypeOK, Go
  <2>9. c \in late' => timedOut' \/ c \in left'
    BY <1>1, <1>2, <1>5, <2>4 DEF Good, DrainComplete, shutdownState
  <2>10. Good(c)'
    BY <1>3, <2>2, <2>3, <2>4, <2>8, <2>9 DEF Good, Running, Unanswered, Escapes
  <2> QED
    BY <1>2, <2>5, <2>6, <2>7, <2>8, <2>10, LocalStepKeeps DEF Running, Unanswered
<1> QED
  BY <1>4, <1>5

-------------------------------------------------------------------------------
\* One lemma per step of the process.

LEMMA LoadCAKeeps ==
  ASSUME IInv, loadCA
  PROVE  IInv'
BY DEF loadCA, IInv, TypeOK, Fresh, Phases, EntryLast, NamesCurrent, DrainComplete,
       CountIsHandlers, Handled, EntriesAreTrue, EntryNamesClient, TokenUseLogged, Escapes,
       address, connection, exchange, history, shutdownState

\* A client that has left changes nothing for its handler but what waits for it.
LEMMA ClientLeavesKeeps ==
  ASSUME IInv, NEW c \in Exchanges, clientLeaves(c)
  PROVE  IInv'
<1> USE DEF clientLeaves, IInv, address, history, shutdownState
<1>1. TypeOK'
  BY DEF TypeOK
<1>2. Fresh' /\ Phases' /\ EntryLast' /\ NamesCurrent' /\ DrainComplete'
  BY DEF Fresh, Phases, EntryLast, NamesCurrent, DrainComplete
<1>3. CountIsHandlers' /\ EntriesAreTrue' /\ EntryNamesClient' /\ TokenUseLogged'
  BY DEF CountIsHandlers, Handled, EntriesAreTrue, EntryNamesClient, TokenUseLogged, Escapes
<1> QED
  BY <1>1, <1>2, <1>3

\* Packets move timers only.
LEMMA PacketKeeps ==
  ASSUME IInv, NEW c \in Exchanges, packet(c) \/ pause(c)
  PROVE  IInv'
<1> USE DEF IInv, address, history, shutdownState
<1>1. /\ UNCHANGED <<caLoaded, waits, address, pc, gone, path, token, who, sent, entry,
                     concurrentConnections, history, shutdownState>>
      /\ talking' = talking \union {c} \/ talking' = talking \ {c}
  BY DEF packet, pause
<1>2. TypeOK'
  BY <1>1 DEF TypeOK
<1>3. Fresh' /\ Phases' /\ EntryLast' /\ NamesCurrent' /\ DrainComplete'
  BY <1>1 DEF Fresh, Phases, EntryLast, NamesCurrent, DrainComplete
<1>4. CountIsHandlers' /\ EntriesAreTrue' /\ EntryNamesClient' /\ TokenUseLogged'
  BY <1>1 DEF CountIsHandlers, Handled, EntriesAreTrue, EntryNamesClient, TokenUseLogged,
              Escapes
<1> QED
  BY <1>2, <1>3, <1>4

\* A new name is added to those of whatever is running.
LEMMA PodEventKeeps ==
  ASSUME IInv, podEvent
  PROVE  IInv'
<1> USE DEF podEvent, connection, exchange, shutdownState
<1>1. TypeOK /\ DrainComplete /\ CountIsHandlers /\ \A d \in Exchanges : Good(d)
  BY InvariantSplits
<1>2. TypeOK'
  BY <1>1, ConstantsAssumption DEF TypeOK
<1>3. DrainComplete' /\ CountIsHandlers'
  BY <1>1 DEF DrainComplete, CountIsHandlers, Handled
<1>4. ASSUME NEW d \in Exchanges
      PROVE  Good(d)'
  <2>1. names[d] \subseteq names'[d] /\ (pc[d] \in Running => service' \in names'[d])
    BY DEF Names
  <2> QED
    BY <1>1, <2>1 DEF Good, Escapes
<1> QED
  BY <1>2, <1>3, <1>4, InvariantSplitsPrimed

\* The stages of a shutdown: what was logged in time stays so, and what was not is
\* excused by more.
LEMMA ShutdownKeeps ==
  ASSUME IInv, shutdown \/ drained \/ drainTimesOut
  PROVE  IInv'
<1> USE DEF shutdown, drained, drainTimesOut, address, connection, exchange, history
<1>1. TypeOK /\ DrainComplete /\ CountIsHandlers /\ \A d \in Exchanges : Good(d)
  BY InvariantSplits
<1>2. TypeOK'
  BY <1>1 DEF TypeOK
<1>3. DrainComplete'
  BY <1>1 DEF DrainComplete, Running
<1>4. CountIsHandlers'
  BY <1>1 DEF CountIsHandlers, Handled
<1>5. \A d \in Exchanges : Good(d)'
  BY <1>1 DEF Good, Escapes
<1> QED
  BY <1>2, <1>3, <1>4, <1>5, InvariantSplitsPrimed

\* After a complete drain only handlers that it did not wait for are lost.
LEMMA ProcessEndsKeeps ==
  ASSUME IInv, exit \/ kill
  PROVE  IInv'
<1> USE DEF exit, kill, ProcessEnds, history
<1>1. TypeOK /\ DrainComplete /\ CountIsHandlers /\ \A d \in Exchanges : Good(d)
  BY InvariantSplits
<1>2. TypeOK'
  <2>1. concurrentConnections' \in 0..Cardinality(Exchanges)
    <3>1. Cardinality(Exchanges) \in Nat
      BY ConstantsAssumption, FS_CardinalityType
    <3>2. concurrentConnections' = 0
      OBVIOUS
    <3> HIDE DEF exit, kill, ProcessEnds
    <3> QED
      BY <3>1, <3>2
  <2>2. /\ pc' \in [Exchanges -> Running \union {"idle", "done", "lost"}]
        /\ path' \in [Exchanges -> {"none", "connect", "http"}]
        /\ who' \in [Exchanges -> Names \union {Unset}]
        /\ service' \in Names
    BY <1>1 DEF TypeOK, Names
  <2>3. /\ UNCHANGED <<waits, changes, token, sent, entry, names, cut, left, late, timedOut>>
        /\ caLoaded' \in BOOLEAN /\ stage' = "exited" /\ gone' = {} /\ talking' = {}
    OBVIOUS
  <2>4. killed' = killed \/ killed' = TRUE
    OBVIOUS
  <2> HIDE DEF exit, kill, ProcessEnds, history
  <2> QED
    BY <1>1, <2>1, <2>2, <2>3, <2>4 DEF TypeOK
<1>3. DrainComplete'
  BY DEF DrainComplete, Running, Unanswered
<1>5. CountIsHandlers'
  <2>1. {c \in Exchanges : Handled(c)}' = {}
    BY DEF Handled, Running, Unanswered
  <2> QED
    BY <2>1, FS_EmptySet DEF CountIsHandlers
<1>4. ASSUME NEW d \in Exchanges
      PROVE  Good(d)'
  <2>1. Good(d)
    BY <1>1
  <2>2. pc[d] \in Running => pc'[d] = "lost"
    OBVIOUS
  <2>3. pc[d] \notin Running => pc'[d] = pc[d]
    OBVIOUS
  <2>4. pc[d] \in Running => killed' \/ timedOut' \/ d \in left'
    BY <1>1 DEF DrainComplete
  <2>5. pc[d] \in Running => entry[d] = NoEntry
    BY <2>1 DEF Good, Running, Unanswered
  <2>6. (TokenUseLogged!(d))'
    BY <2>1, <2>2, <2>3, <2>4 DEF Good, Escapes
  <2> QED
    BY <2>1, <2>2, <2>3, <2>5, <2>6 DEF Good, Running, Unanswered
<1> QED
  BY <1>2, <1>3, <1>4, <1>5, InvariantSplitsPrimed

-------------------------------------------------------------------------------
LEMMA InitEstablishes ==
  ASSUME Init
  PROVE  IInv
<1> USE DEF Init
<1>1. {c \in Exchanges : Handled(c)} = {}
  BY DEF Handled, Running, Unanswered
<1>2. CountIsHandlers
  BY <1>1, FS_EmptySet DEF CountIsHandlers
<1>3. Cardinality(Exchanges) \in Nat
  BY ConstantsAssumption, FS_CardinalityType
<1>4. TypeOK
  <2>1. changes \in 0..MaxChanges /\ concurrentConnections \in 0..Cardinality(Exchanges)
    BY <1>3, ConstantsAssumption
  <2>2. /\ pc \in [Exchanges -> Running \union {"idle", "done", "lost"}]
        /\ path \in [Exchanges -> {"none", "connect", "http"}]
        /\ token \in [Exchanges -> {"none", "fake", "real_direct"}]
        /\ who \in [Exchanges -> Names \union {Unset}]
        /\ sent \in [Exchanges -> BOOLEAN]
    OBVIOUS
  <2>3. /\ entry \in [Exchanges -> Entries \union {NoEntry}]
        /\ names \in [Exchanges -> SUBSET Names]
    OBVIOUS
  <2> QED
    BY <2>1, <2>2, <2>3 DEF TypeOK
<1>5. DrainComplete
  BY DEF DrainComplete
<1>6. \A d \in Exchanges : Good(d)
  BY DEF Good, Running, Unanswered
<1> QED
  BY <1>2, <1>4, <1>5, <1>6, InvariantSplits

LEMMA StepKeeps ==
  ASSUME IInv, [Next]_vars
  PROVE  IInv'
<1>1. ASSUME NEW c \in Exchanges, Step(c)
      PROVE  IInv'
  BY <1>1, HandleConnectKeeps, HandshakeKeeps, ReadHttpRequestKeeps, HandleHttpProxyKeeps,
     LookupFakeTokenKeeps, LookupFailsKeeps, ConnectUpstreamKeeps, ConnectFailsKeeps,
     ReadFullResponseKeeps, UpstreamFailsKeeps, PacketKeeps, ResolveForLogKeeps,
     ClientLeavesKeeps DEF Step
<1>2. CASE UNCHANGED vars
  BY <1>2 DEF vars, IInv, TypeOK, Fresh, Phases, EntryLast, NamesCurrent, DrainComplete,
              CountIsHandlers, Handled, EntriesAreTrue, EntryNamesClient, TokenUseLogged,
              Escapes, address, connection, exchange, history, shutdownState
<1> QED
  BY <1>1, <1>2, LoadCAKeeps, PodEventKeeps, ShutdownKeeps, ProcessEndsKeeps DEF Next

LEMMA Inductive == Spec => []IInv
BY InitEstablishes, StepKeeps, PTL DEF Spec

\* The handlers' variables and the count stay within their types.
THEOREM TypeCorrect == Spec => []TypeOK
<1>1. IInv => TypeOK
  BY DEF IInv
<1> QED
  BY <1>1, Inductive, PTL

\* concurrentConnections is the number of handlers at work, whichever of the returns and finally blocks of proxy.ts they take.
THEOREM CountCorrect == Spec => []CountIsHandlers
<1>1. IInv => CountIsHandlers
  BY DEF IInv
<1> QED
  BY <1>1, Inductive, PTL

\* An entry says of a token that it is on the wire exactly if it is.
THEOREM EntriesTrue == Spec => []EntriesAreTrue
<1>1. IInv => EntriesAreTrue
  BY DEF IInv
<1> QED
  BY <1>1, Inductive, PTL

\* An entry bears a name that its client had during the exchange.
THEOREM NamesTrue == Spec => []EntryNamesClient
<1>1. IInv => EntryNamesClient
  BY DEF IInv
<1> QED
  BY <1>1, Inductive, PTL

\* No token leaves unlogged, but for the escapes that are listed.
THEOREM UseLogged == Spec => []TokenUseLogged
<1>1. IInv => TokenUseLogged
  BY DEF IInv
<1> QED
  BY <1>1, Inductive, PTL

-------------------------------------------------------------------------------
\* A set of numbers has a least one.
LEMMA LeastOf ==
  ASSUME NEW S, S \subseteq Nat, S # {}
  PROVE  Min(S) \in S /\ \A x \in S : Min(S) <= x
<1> DEFINE Below(m) == {s \in S : s < m}
           Lowers == {Below(m) : m \in S}
<1>1. Lowers \subseteq FiniteSubsetsOf(S)
  <2>1. ASSUME NEW m \in S PROVE IsFiniteSet(Below(m))
    <3>1. m \in Int /\ Below(m) \subseteq 0 .. m
      <4>1. m \in Nat
        OBVIOUS
      <4>2. \A s \in S : s \in Nat
        OBVIOUS
      <4>3. \A s \in Below(m) : s \in Nat /\ s < m
        BY <4>2
      <4> HIDE DEF Below
      <4>4. Below(m) \subseteq 0 .. m
        BY <4>1, <4>3
      <4> QED
        BY <4>1, <4>4
    <3>2. IsFiniteSet(0 .. m)
      BY <3>1, FS_Interval
    <3> QED
      BY <3>1, <3>2, FS_Subset
  <2> QED
    BY <2>1 DEF FiniteSubsetsOf
<1>2. PICK u \in Lowers : \A v \in Lowers : <<v, u>> \notin StrictSubsetOrdering(S)
  <2>1. Lowers # {}
    OBVIOUS
  <2> HIDE DEF Lowers
  <2>2. IsWellFoundedOn(StrictSubsetOrdering(S), FiniteSubsetsOf(S))
    BY FS_StrictSubsetOrderingWellFounded
  <2> QED
    BY <1>1, <2>1, <2>2, WFMin
<1>3. PICK m \in S : u = Below(m)
  OBVIOUS
<1>4. ASSUME NEW x \in S, x < m PROVE FALSE
  <2>1. x \in Nat /\ m \in Nat
    OBVIOUS
  <2>2. x \in Below(m) /\ x \notin Below(x)
    BY <1>4, <2>1
  <2>3. \A s \in S : s < x => s < m
    BY <1>4, <2>1
  <2>4. Below(x) \subseteq Below(m) /\ Below(x) # Below(m)
    BY <2>2, <2>3
  <2>5. <<Below(x), u>> \in StrictSubsetOrdering(S)
    BY <1>3, <2>4 DEF StrictSubsetOrdering
  <2> QED
    BY <1>2, <2>5
<1>5. \A x \in S : m <= x
  BY <1>4
<1> HIDE DEF Below, Lowers
<1> QED
  BY <1>5 DEF Min

\* The least of one.
LEMMA LeastOfOne ==
  ASSUME NEW x \in Nat
  PROVE  Min({x}) = x
<1>1. {x} \subseteq Nat /\ {x} # {}
  OBVIOUS
<1>2. Min({x}) \in {x}
  BY <1>1, LeastOf
<1> QED
  BY <1>2

\* Numbers only: places in a head of h lines, the end and a body of b parts.
LEMMA BodyIndex ==
  ASSUME NEW h \in Nat, NEW b \in Nat, NEW i \in (h + 2) .. (h + 1 + b)
  PROVE  i - (h + 1) \in 1 .. b /\ i \in 1 .. (h + 1) + b /\ ~(i <= h + 1)
OBVIOUS

\* The end of the head lies within the message.
LEMMA EndWithin ==
  ASSUME NEW h \in Nat, NEW b \in Nat, NEW l, l = h + 1 + b
  PROVE  /\ l \in Nat /\ l \in 0 .. l /\ l > h
         /\ h + 1 \in 0 .. l /\ (b = 0 => l = h + 1)
OBVIOUS

\* A place is in the head, the end or in the body.
LEMMA Thirds ==
  ASSUME NEW h \in Nat, NEW b \in Nat, NEW i \in 1 .. (h + 1 + b)
  PROVE  i <= h \/ i = h + 1 \/ i \in (h + 2) .. (h + 1 + b)
OBVIOUS

\* The place before the end is the head's last.
LEMMA CutAfterHead ==
  ASSUME NEW h \in Nat \ {0}, NEW n, n = h + 1
  PROVE  n - 1 = h /\ h \in 1 .. n /\ h \in 1 .. h
OBVIOUS

\* A stated length that is not exceeded by the head alone is 0.
LEMMA NoMoreStated ==
  ASSUME NEW h \in Nat, NEW k \in Nat, h + 1 >= h + 1 + k
  PROVE  h + 1 + k = h + 1
OBVIOUS

AllSymbols == HeadSymbols \union BodySymbols \union {Sym("end")}

\* The symbols of a message, one by one.
LEMMA SymbolsOf ==
  ASSUME NEW m, WellFormed(m)
  PROVE  /\ Len(m.head) \in Nat \ {0} /\ Len(m.body) \in Nat
         /\ Symbols(m) \in Seq(AllSymbols)
         /\ Len(Symbols(m)) = Len(m.head) + 1 + Len(m.body)
         /\ \A i \in 1 .. Len(m.head) :
              Symbols(m)[i] = m.head[i] /\ m.head[i] \in HeadSymbols
         /\ Symbols(m)[Len(m.head) + 1] = Sym("end")
         /\ \A i \in (Len(m.head) + 2) .. Len(Symbols(m)) :
              /\ i - (Len(m.head) + 1) \in 1 .. Len(m.body)
              /\ Symbols(m)[i] = m.body[i - (Len(m.head) + 1)] /\ Symbols(m)[i] \in BodySymbols
<1>1. /\ m.head \in Seq(AllSymbols) /\ m.body \in Seq(AllSymbols)
      /\ <<Sym("end")>> \in Seq(AllSymbols)
      /\ m.head \in Seq(HeadSymbols) /\ m.body \in Seq(BodySymbols)
      /\ Len(m.head) \in Nat \ {0} /\ Len(m.body) \in Nat
  BY DEF WellFormed, AllSymbols
<1> DEFINE t == m.head \o <<Sym("end")>>
<1>2. /\ t \in Seq(AllSymbols) /\ Len(t) = Len(m.head) + 1
      /\ \A i \in 1 .. Len(m.head) : t[i] = m.head[i]
      /\ t[Len(m.head) + 1] = Sym("end")
  BY <1>1, ConcatProperties
<1>3. Symbols(m) = t \o m.body
  BY DEF Symbols
<1> HIDE DEF t
<1>4. /\ t \o m.body \in Seq(AllSymbols) /\ Len(t \o m.body) = Len(t) + Len(m.body)
      /\ \A i \in 1 .. Len(t) + Len(m.body) :
           (t \o m.body)[i] = IF i <= Len(t) THEN t[i] ELSE m.body[i - Len(t)]
  <2>1. t \in Seq(AllSymbols) /\ m.body \in Seq(AllSymbols)
    BY <1>1, <1>2
  <2> QED
    BY <2>1, ConcatProperties
<1>5. /\ \A i \in 1 .. Len(m.head) : m.head[i] \in HeadSymbols
      /\ \A i \in 1 .. Len(m.body) : m.body[i] \in BodySymbols
  BY <1>1
<1>6. Symbols(m) \in Seq(AllSymbols) /\ Len(Symbols(m)) = Len(m.head) + 1 + Len(m.body)
  BY <1>2, <1>3, <1>4
<1>7. ASSUME NEW i \in 1 .. Len(m.head)
      PROVE  Symbols(m)[i] = m.head[i] /\ m.head[i] \in HeadSymbols
  BY <1>1, <1>2, <1>3, <1>4, <1>5
<1>8. Symbols(m)[Len(m.head) + 1] = Sym("end")
  BY <1>1, <1>2, <1>3, <1>4
<1>9. ASSUME NEW i \in (Len(m.head) + 2) .. Len(Symbols(m))
      PROVE  /\ i - (Len(m.head) + 1) \in 1 .. Len(m.body)
             /\ Symbols(m)[i] = m.body[i - (Len(m.head) + 1)] /\ Symbols(m)[i] \in BodySymbols
  <2>1. /\ Len(m.head) \in Nat /\ Len(m.body) \in Nat /\ Len(t) = Len(m.head) + 1
        /\ i \in (Len(m.head) + 2) .. (Len(m.head) + 1 + Len(m.body))
    BY <1>1, <1>2, <1>6
  <2>3. i - (Len(m.head) + 1) \in 1 .. Len(m.body)
    BY <2>1, BodyIndex
  <2>4. i \in 1 .. Len(t) + Len(m.body) /\ ~(i <= Len(t)) /\ i - Len(t) = i - (Len(m.head) + 1)
    BY <2>1, BodyIndex
  <2>2. Symbols(m)[i] = m.body[i - (Len(m.head) + 1)]
    BY <1>3, <1>4, <2>4
  <2> QED
    BY <1>5, <2>2, <2>3
<1> QED
  BY <1>1, <1>6, <1>7, <1>8, <1>9

\* The empty line is the one between head and body.
LEMMA OneEnd ==
  ASSUME NEW m, WellFormed(m), NEW i \in 1 .. Len(Symbols(m))
  PROVE  /\ i <= Len(m.head) => Symbols(m)[i] = m.head[i] /\ m.head[i] \in HeadSymbols
         /\ Symbols(m)[i].kind = "end" <=> i = Len(m.head) + 1
<1>0. /\ Len(m.head) \in Nat \ {0} /\ Len(m.body) \in Nat
      /\ Len(Symbols(m)) = Len(m.head) + 1 + Len(m.body)
  BY SymbolsOf
<1>1. CASE i <= Len(m.head)
  <2>1. i \in 1 .. Len(m.head) /\ i # Len(m.head) + 1
    BY <1>0, <1>1
  <2>2. Symbols(m)[i] = m.head[i] /\ m.head[i] \in HeadSymbols
    BY <2>1, SymbolsOf
  <2> QED
    BY <2>1, <2>2 DEF HeadSymbols
<1>2. CASE i = Len(m.head) + 1
  <2>1. ~(i <= Len(m.head))
    BY <1>0, <1>2
  <2>2. Symbols(m)[i] = Sym("end")
    BY <1>2, SymbolsOf
  <2> QED
    BY <1>2, <2>1, <2>2 DEF Sym
<1>3. CASE i \in (Len(m.head) + 2) .. Len(Symbols(m))
  <2>1. i # Len(m.head) + 1 /\ ~(i <= Len(m.head))
    BY <1>0, <1>3
  <2>2. Symbols(m)[i] \in BodySymbols
    BY <1>3, SymbolsOf
  <2> QED
    BY <2>1, <2>2 DEF BodySymbols
<1>4. i <= Len(m.head) \/ i = Len(m.head) + 1 \/ i \in (Len(m.head) + 2) .. Len(Symbols(m))
  BY <1>0, Thirds
<1> QED
  BY <1>1, <1>2, <1>3, <1>4

\* The first n symbols; the head and the empty line.
Part(m, n) == SubSeq(Symbols(m), 1, n)
HeadOf(m) == Part(m, Len(m.head) + 1)

\* The first n symbols are n of the message's.
LEMMA PartSymbols ==
  ASSUME NEW m, WellFormed(m), NEW n \in 0 .. Len(Symbols(m))
  PROVE  /\ Part(m, n) \in Seq(AllSymbols) /\ Len(Part(m, n)) = n
         /\ \A i \in 1 .. n : Part(m, n)[i] = Symbols(m)[i]
         /\ n = Len(Symbols(m)) => Part(m, n) = Symbols(m)
<1>1. Symbols(m) \in Seq(AllSymbols)
  BY SymbolsOf
<1>2. \A i \in 1 .. n : Symbols(m)[i] \in AllSymbols
  BY <1>1
<1>3. /\ Part(m, n) \in Seq(AllSymbols)
      /\ Len(Part(m, n)) = IF 1 <= n THEN n - 1 + 1 ELSE 0
      /\ \A i \in 1 .. n - 1 + 1 : Part(m, n)[i] = Symbols(m)[1 + i - 1]
  BY <1>2, SubSeqProperties DEF Part
<1> QED
  BY <1>1, <1>3, SubSeqFull DEF Part

\* The empty line is found as soon as it is there.
LEMMA EndFound ==
  ASSUME NEW m, WellFormed(m), NEW n \in 0 .. Len(Symbols(m))
  PROVE  headerEnd(Part(m, n)) = IF n > Len(m.head) THEN Len(m.head) + 1 ELSE 0
<1> DEFINE s == Part(m, n)
           h == Len(m.head)
           I == {i \in 1 .. Len(s) : s[i].kind = "end"}
<1>1. Len(s) = n /\ \A i \in 1 .. n : s[i] = Symbols(m)[i]
  BY PartSymbols
<1>2. \A i \in 1 .. n : s[i].kind = "end" <=> i = h + 1
  <2> TAKE i \in 1 .. n
  <2>1. i \in 1 .. Len(Symbols(m))
    OBVIOUS
  <2> QED
    BY <1>1, <2>1, OneEnd
<1>3. DOMAIN s = 1 .. Len(s)
  BY PartSymbols
<1>4. h \in Nat
  BY SymbolsOf
<1>5. CASE n > h
  <2>1. I = {h + 1}
    BY <1>1, <1>2, <1>4, <1>5
  <2>2. Min(I) = h + 1
    <3>1. h + 1 \in Nat
      BY <1>4
    <3> HIDE DEF I, h
    <3> QED
      BY <2>1, <3>1, LeastOfOne
  <2>3. Has(s, "end")
    BY <1>3, <2>1 DEF Has
  <2>4. headerEnd(s) = Min(I)
    BY <2>1, <2>3 DEF headerEnd, SelectInSeq
  <2> QED
    BY <1>5, <2>1, <2>2, <2>4
<1>6. CASE ~(n > h)
  <2>1. ~Has(s, "end")
    BY <1>1, <1>2, <1>3, <1>4, <1>6 DEF Has
  <2> QED
    BY <1>6, <2>1 DEF headerEnd
<1> QED
  BY <1>5, <1>6

\* What precedes it is the head.
LEMMA HeadFound ==
  ASSUME NEW m, WellFormed(m), NEW n \in 0 .. Len(Symbols(m)), n > Len(m.head)
  PROVE  SubSeq(Part(m, n), 1, headerEnd(Part(m, n))) = HeadOf(m)
<1>1. /\ headerEnd(Part(m, n)) = Len(m.head) + 1
      /\ Len(m.head) + 1 \in 1 .. n /\ n \in 1 .. Len(Symbols(m))
  BY EndFound, SymbolsOf
<1>2. Symbols(m) \in Seq(AllSymbols) /\ 1 \in 1 .. Len(Symbols(m))
  <2>1. Symbols(m) \in Seq(AllSymbols)
    BY SymbolsOf
  <2>2. Len(Symbols(m)) \in Nat
    BY <2>1
  <2> QED
    BY <1>1, <2>1, <2>2
<1>3. SubSeq(SubSeq(Symbols(m), 1, n), 1, Len(m.head) + 1)
        = SubSeq(Symbols(m), 1 + 1 - 1, 1 + (Len(m.head) + 1) - 1)
  <2>1. 1 \in 1 .. n - 1 + 1 /\ Len(m.head) + 1 \in 1 .. n - 1 + 1
    BY <1>1
  <2> QED
    BY <1>1, <1>2, <2>1, SubSeqOfSubSeq
<1>4. 1 + 1 - 1 = 1 /\ 1 + (Len(m.head) + 1) - 1 = Len(m.head) + 1
  BY SymbolsOf
<1> QED
  BY <1>1, <1>3, <1>4 DEF Part, HeadOf

\* The length line and the coding are found in the head, whatever follows it.
LEMMA FoundInHead ==
  ASSUME NEW m, WellFormed(m), NEW n \in 0 .. Len(Symbols(m)), n > Len(m.head)
  PROVE  /\ clMatch(Part(m, n)) = SelectInSeq(HeadOf(m), IsLength)
         /\ isChunked(Part(m, n)) <=> Has(m.head, "chunked")
<1>1. clMatch(Part(m, n)) = SelectInSeq(HeadOf(m), IsLength)
  BY HeadFound DEF clMatch
<1>2. isChunked(Part(m, n)) <=> Has(HeadOf(m), "chunked")
  BY HeadFound DEF isChunked
<1>3. Has(HeadOf(m), "chunked") <=> Has(m.head, "chunked")
  <2>1. /\ Len(m.head) \in Nat /\ Len(m.head) + 1 \in 0 .. Len(Symbols(m))
        /\ m.head \in Seq(HeadSymbols)
    BY SymbolsOf DEF WellFormed
  <2>2. HeadOf(m) \in Seq(AllSymbols) /\ Len(HeadOf(m)) = Len(m.head) + 1
    BY <2>1, PartSymbols DEF HeadOf
  <2>3. DOMAIN m.head = 1 .. Len(m.head) /\ DOMAIN HeadOf(m) = 1 .. Len(m.head) + 1
    BY <2>1, <2>2
  <2>4. ASSUME NEW i \in 1 .. Len(m.head) PROVE HeadOf(m)[i] = m.head[i]
    <3>1. i \in 1 .. Len(m.head) + 1
      BY <2>1
    <3>2. HeadOf(m)[i] = Symbols(m)[i]
      BY <2>1, <3>1, PartSymbols DEF HeadOf
    <3> QED
      BY <3>2, SymbolsOf
  <2>5. HeadOf(m)[Len(m.head) + 1].kind # "chunked"
    <3>1. Len(m.head) + 1 \in 1 .. Len(m.head) + 1
      BY <2>1
    <3>2. HeadOf(m)[Len(m.head) + 1] = Symbols(m)[Len(m.head) + 1]
      BY <2>1, <3>1, PartSymbols DEF HeadOf
    <3>3. Symbols(m)[Len(m.head) + 1] = Sym("end")
      BY SymbolsOf
    <3> QED
      BY <3>2, <3>3 DEF Sym
  <2>6. ASSUME NEW i \in 1 .. Len(m.head) + 1, HeadOf(m)[i].kind = "chunked"
        PROVE  i \in 1 .. Len(m.head)
    BY <2>1, <2>5, <2>6
  <2>7. \A i \in 1 .. Len(m.head) : i \in 1 .. Len(m.head) + 1
    BY <2>1
  <2> QED
    BY <2>3, <2>4, <2>6, <2>7 DEF Has
<1> QED
  BY <1>1, <1>2, <1>3

\* The line taken for the length is one of the head's, if there is any.
LEMMA LengthLine ==
  ASSUME NEW m, WellFormed(m)
  PROVE  /\ clMatch(Symbols(m)) = SelectInSeq(HeadOf(m), IsLength)
         /\ clMatch(Symbols(m)) = 0 => \A i \in 1 .. Len(m.head) : ~IsLength(m.head[i])
         /\ clMatch(Symbols(m)) # 0 =>
              /\ clMatch(Symbols(m)) \in 1 .. Len(m.head)
              /\ IsLength(m.head[clMatch(Symbols(m))])
<1> DEFINE I == {i \in 1 .. Len(HeadOf(m)) : IsLength(HeadOf(m)[i])}
           c == clMatch(Symbols(m))
<1>1. /\ Len(m.head) \in Nat /\ Len(m.head) + 1 \in 0 .. Len(Symbols(m))
      /\ Len(Symbols(m)) \in 0 .. Len(Symbols(m)) /\ Len(Symbols(m)) > Len(m.head)
  <2>1. /\ Len(m.head) \in Nat /\ Len(m.body) \in Nat
        /\ Len(Symbols(m)) = Len(m.head) + 1 + Len(m.body)
    BY SymbolsOf
  <2> QED
    BY <2>1, EndWithin
<1>2. c = SelectInSeq(HeadOf(m), IsLength)
  BY <1>1, FoundInHead, PartSymbols
<1>3. Len(HeadOf(m)) = Len(m.head) + 1
  BY <1>1, PartSymbols DEF HeadOf
<1>4. ASSUME NEW i \in 1 .. Len(m.head) PROVE i \in 1 .. Len(HeadOf(m)) /\ HeadOf(m)[i] = m.head[i]
  <2>1. i \in 1 .. Len(m.head) + 1
    BY <1>1
  <2>2. HeadOf(m)[i] = Symbols(m)[i]
    BY <1>1, <2>1, PartSymbols DEF HeadOf
  <2> QED
    BY <1>3, <2>1, <2>2, SymbolsOf
<1>5. ~IsLength(HeadOf(m)[Len(m.head) + 1])
  <2>1. Len(m.head) + 1 \in 1 .. Len(m.head) + 1
    BY <1>1
  <2>2. HeadOf(m)[Len(m.head) + 1] = Symbols(m)[Len(m.head) + 1]
    BY <1>1, <2>1, PartSymbols DEF HeadOf
  <2>3. Symbols(m)[Len(m.head) + 1] = Sym("end")
    BY SymbolsOf
  <2> QED
    BY <2>2, <2>3 DEF Sym, IsLength
<1>6. I \subseteq 1 .. Len(m.head)
  <2> SUFFICES ASSUME NEW i \in I PROVE i \in 1 .. Len(m.head)
    OBVIOUS
  <2>1. i \in 1 .. Len(m.head) + 1 /\ i # Len(m.head) + 1
    BY <1>3, <1>5
  <2> QED
    BY <1>1, <2>1
<1>7. c = IF I # {} THEN Min(I) ELSE 0
  BY <1>2 DEF SelectInSeq
<1>8. CASE I = {}
  <2>1. c = 0
    BY <1>7, <1>8
  <2>2. \A i \in 1 .. Len(m.head) : ~IsLength(m.head[i])
    BY <1>4, <1>8
  <2> QED
    BY <1>2, <2>1, <2>2
<1>9. CASE I # {}
  <2>1. I \subseteq Nat
    BY <1>1, <1>6
  <2>2. c = Min(I) /\ Min(I) \in I
    <3> HIDE DEF I
    <3> QED
      BY <1>7, <1>9, <2>1, LeastOf
  <2>3. c \in 1 .. Len(m.head) /\ IsLength(HeadOf(m)[c])
    BY <1>6, <2>2
  <2>4. c # 0 /\ IsLength(m.head[c])
    BY <1>1, <1>4, <2>3
  <2> QED
    BY <1>2, <2>3, <2>4
<1> QED
  BY <1>8, <1>9

\* What the readers take for a whole message, in terms of the message.
Stated(m) == Len(m.head) + 1 + m.head[clMatch(Symbols(m))].n

\* So the readers find nothing before the end of the head, and afterwards what
\* the head says, however much of the body has come.
LEMMA Readers ==
  ASSUME NEW m, WellFormed(m), NEW n \in 0 .. Len(Symbols(m))
  PROVE  /\ n <= Len(m.head) => headerEnd(Part(m, n)) = 0
         /\ n > Len(m.head) =>
              /\ headerEnd(Part(m, n)) = Len(m.head) + 1
              /\ clMatch(Part(m, n)) = clMatch(Symbols(m))
              /\ isChunked(Part(m, n)) <=> Has(m.head, "chunked")
              /\ clMatch(Symbols(m)) # 0 => expectedLength(Part(m, n)) = Stated(m)
<1>1. Len(m.head) \in Nat /\ n \in Nat
  BY SymbolsOf
<1>2. CASE n <= Len(m.head)
  <2>1. ~(n > Len(m.head))
    BY <1>1, <1>2
  <2> QED
    BY <1>2, <2>1, EndFound
<1>3. CASE n > Len(m.head)
  <2>1. ~(n <= Len(m.head))
    BY <1>1, <1>3
  <2>2. headerEnd(Part(m, n)) = Len(m.head) + 1
    BY <1>3, EndFound
  <2>3. clMatch(Part(m, n)) = clMatch(Symbols(m))
    BY <1>3, FoundInHead, LengthLine
  <2>4. isChunked(Part(m, n)) <=> Has(m.head, "chunked")
    BY <1>3, FoundInHead
  <2>5. ASSUME clMatch(Symbols(m)) # 0 PROVE expectedLength(Part(m, n)) = Stated(m)
    <3>1. PICK c : c = clMatch(Symbols(m))
      OBVIOUS
    <3>2. c \in 1 .. Len(m.head)
      BY <2>5, <3>1, LengthLine
    <3>3. c \in 1 .. n
      BY <1>1, <1>3, <3>2
    <3>4. Part(m, n)[c] = m.head[c]
      <4>1. Part(m, n)[c] = Symbols(m)[c]
        BY <3>3, PartSymbols
      <4> QED
        BY <3>2, <4>1, SymbolsOf
    <3> QED
      BY <2>2, <2>3, <3>1, <3>4 DEF expectedLength, Stated
  <2> QED
    BY <2>1, <2>2, <2>3, <2>4, <2>5
<1> QED
  BY <1>1, <1>2, <1>3

\* A length line that is not another header's states the length of the message,
\* unless the body is left out.
LEMMA StatedIsLength ==
  ASSUME NEW m, WellFormed(m), clMatch(Symbols(m)) # 0, ~OtherLength(m)
  PROVE  Stated(m) = Len(Symbols(m)) \/ (m.bare /\ m.body = <<>>)
<1>1. PICK c : c = clMatch(Symbols(m))
  OBVIOUS
<1>2. /\ c \in 1 .. Len(m.head) /\ IsLength(m.head[c])
      /\ Symbols(m)[c] = m.head[c] /\ Len(Symbols(m)) = Len(m.head) + 1 + Len(m.body)
  BY <1>1, LengthLine, SymbolsOf
<1>3. DOMAIN m.head = 1 .. Len(m.head)
  BY DEF WellFormed
<1>4. m.head[c].kind = "length"
  BY <1>1, <1>2, <1>3 DEF OtherLength, Has, IsLength
<1>5. m.head[c].n = Len(m.body) \/ (m.bare /\ m.body = <<>>)
  BY <1>2, <1>3, <1>4 DEF WellFormed
<1> QED
  BY <1>1, <1>2, <1>5 DEF Stated

\* The lengths of a message and its parts.
LEMMA LengthOfParts ==
  ASSUME NEW m, WellFormed(m)
  PROVE  /\ Len(m.head) \in Nat \ {0} /\ Len(m.body) \in Nat
         /\ Len(Symbols(m)) \in Nat /\ Len(Symbols(m)) \in 0 .. Len(Symbols(m))
         /\ Len(Symbols(m)) > Len(m.head)
         /\ Len(Symbols(m)) = Len(m.head) + 1 + Len(m.body)
         /\ m.body = <<>> => Len(Symbols(m)) = Len(m.head) + 1
         /\ Part(m, Len(Symbols(m))) = Symbols(m)
         /\ SubSeq(Symbols(m), 1, Len(Symbols(m))) = Symbols(m)
<1>1. /\ Len(m.head) \in Nat \ {0} /\ Len(m.body) \in Nat
      /\ Len(Symbols(m)) = Len(m.head) + 1 + Len(m.body) /\ Symbols(m) \in Seq(AllSymbols)
  BY SymbolsOf
<1>2. /\ Len(Symbols(m)) \in Nat /\ Len(Symbols(m)) \in 0 .. Len(Symbols(m))
      /\ Len(Symbols(m)) > Len(m.head)
      /\ Len(m.body) = 0 => Len(Symbols(m)) = Len(m.head) + 1
  BY <1>1, EndWithin
<1>3. m.body = <<>> => Len(m.body) = 0
  OBVIOUS
<1>4. SubSeq(Symbols(m), 1, Len(Symbols(m))) = Symbols(m)
  BY <1>1, SubSeqFull
<1> QED
  BY <1>1, <1>2, <1>3, <1>4 DEF Part

\* Where n symbols of a message can end.
LEMMA CutsOf ==
  ASSUME NEW m, WellFormed(m), NEW n \in 0 .. Len(Symbols(m))
  PROVE  /\ n \in Nat /\ n <= Len(Symbols(m)) /\ n >= n
         /\ n >= Len(Symbols(m)) => n = Len(Symbols(m))
         /\ ~(n <= Len(m.head)) => n > Len(m.head)
         /\ n > Len(m.head) =>
              /\ n \in 1 .. n /\ n \in 1 .. Len(Symbols(m)) /\ n - 1 \in 0 .. n
              /\ n >= Len(m.head) + 1
         /\ n > Len(m.head) /\ n # Len(m.head) + 1 => n \in (Len(m.head) + 2) .. Len(Symbols(m))
         /\ n - (Len(m.head) + 1) = Len(m.body) => n = Len(Symbols(m))
         /\ n = Len(Symbols(m)) => n - (Len(m.head) + 1) = Len(m.body)
         /\ n = Len(Symbols(m)) /\ Len(m.body) # 0 => n \in (Len(m.head) + 2) .. Len(Symbols(m))
         /\ Len(m.head) + 1 # 0
<1>1. PICK h \in Nat : h = Len(m.head)
  BY LengthOfParts
<1>2. PICK b \in Nat : b = Len(m.body)
  BY LengthOfParts
<1>3. PICK l : l = Len(Symbols(m))
  OBVIOUS
<1>4. l = h + 1 + b
  BY <1>1, <1>2, <1>3, LengthOfParts
<1>5. n \in 0 .. l
  BY <1>3
<1>6. /\ n \in Nat /\ n <= l /\ n >= n /\ (n >= l => n = l)
      /\ ~(n <= h) => n > h
      /\ n > h => n \in 1 .. n /\ n \in 1 .. l /\ n - 1 \in 0 .. n /\ n >= h + 1
      /\ n > h /\ n # h + 1 => n \in (h + 2) .. l
      /\ n - (h + 1) = b => n = l
      /\ n = l => n - (h + 1) = b
      /\ n = l /\ b # 0 => n \in (h + 2) .. l
      /\ h + 1 # 0
  BY <1>4, <1>5
<1> QED
  BY <1>1, <1>2, <1>3, <1>6

\* A message without a length line has none that says "length".
LEMMA NoLength ==
  ASSUME NEW m, WellFormed(m), clMatch(Symbols(m)) = 0
  PROVE  ~Has(m.head, "length")
<1>1. \A i \in 1 .. Len(m.head) : ~IsLength(m.head[i])
  BY LengthLine
<1>2. DOMAIN m.head = 1 .. Len(m.head)
  BY DEF WellFormed
<1> QED
  BY <1>1, <1>2 DEF Has, IsLength

\* What a request's reader takes for its length is that, unless another header's
\* number or a chunked body is in play.
LEMMA RequestLengthIs ==
  ASSUME NEW m \in Requests, NEW n \in 0 .. Len(Symbols(m)), n > Len(m.head), ~OtherLength(m)
  PROVE  /\ requestLength(Part(m, n)) =
              IF clMatch(Symbols(m)) = 0 THEN Len(m.head) + 1 ELSE Len(Symbols(m))
         /\ clMatch(Symbols(m)) = 0 /\ ~Has(m.head, "chunked")
              => Len(Symbols(m)) = Len(m.head) + 1
<1>1. WellFormed(m) /\ ~m.bare
  BY RelayAssumption DEF RelayAssumption
<1>2. CASE clMatch(Symbols(m)) = 0
  <2>1. requestLength(Part(m, n)) = Len(m.head) + 1
    BY <1>1, <1>2, Readers DEF requestLength
  <2>2. ~Has(m.head, "length")
    BY <1>1, <1>2, NoLength
  <2>3. ~Has(m.head, "chunked") => m.body = <<>>
    BY <2>2, RelayAssumption DEF RelayAssumption
  <2> QED
    BY <1>1, <1>2, <2>1, <2>3, LengthOfParts
<1>3. CASE clMatch(Symbols(m)) # 0
  <2>1. requestLength(Part(m, n)) = Stated(m)
    BY <1>1, <1>3, Readers DEF requestLength
  <2>2. Stated(m) = Len(Symbols(m))
    BY <1>1, <1>3, StatedIsLength
  <2> QED
    BY <1>3, <2>1, <2>2
<1> QED
  BY <1>2, <1>3

\* What is read as a request is all of it.
LEMMA RequestWhole ==
  ASSUME NEW m \in Requests, NEW n \in 0 .. Len(Symbols(m)), requestComplete(Part(m, n)),
         ~OtherLength(m), ~Has(m.head, "chunked")
  PROVE  SubSeq(Part(m, n), 1, requestLength(Part(m, n))) = Symbols(m)
<1>1. WellFormed(m)
  BY RelayAssumption DEF RelayAssumption
<1>2. n > Len(m.head)
  <2>1. ~(n <= Len(m.head))
    BY <1>1, Readers DEF requestComplete
  <2>2. n \in Int /\ Len(m.head) \in Int
    BY <1>1, LengthOfParts
  <2> QED
    BY <2>1, <2>2
<1>3. requestLength(Part(m, n)) = Len(Symbols(m))
  BY <1>2, RequestLengthIs
<1>4. n >= Len(Symbols(m))
  BY <1>1, <1>3, PartSymbols DEF requestComplete
<1>5. n = Len(Symbols(m))
  <2>1. n \in 0 .. Len(Symbols(m)) /\ Len(Symbols(m)) \in Nat
    BY <1>1, LengthOfParts
  <2> QED
    BY <1>4, <2>1
<1> QED
  BY <1>1, <1>3, <1>5, LengthOfParts

\* A whole request is seen to be one.
LEMMA RequestSeen ==
  ASSUME NEW m \in Requests, ~requestComplete(Symbols(m))
  PROVE  OtherLength(m)
<1> SUFFICES ASSUME ~OtherLength(m) PROVE FALSE
  OBVIOUS
<1>1. WellFormed(m)
  BY RelayAssumption DEF RelayAssumption
<1>2. PICK n : n = Len(Symbols(m))
  OBVIOUS
<1>3. /\ n \in 0 .. Len(Symbols(m)) /\ n > Len(m.head) /\ Part(m, n) = Symbols(m)
      /\ n >= n /\ n >= Len(m.head) + 1 /\ Len(m.head) + 1 # 0
  <2>1. /\ Len(Symbols(m)) \in 0 .. Len(Symbols(m)) /\ Len(Symbols(m)) > Len(m.head)
        /\ Part(m, Len(Symbols(m))) = Symbols(m)
        /\ Len(m.head) \in Nat /\ Len(m.body) \in Nat
        /\ Len(Symbols(m)) = Len(m.head) + 1 + Len(m.body)
    BY <1>1, LengthOfParts
  <2> QED
    BY <1>1, <1>2, <2>1, CutsOf
<1>4. headerEnd(Symbols(m)) # 0
  BY <1>1, <1>3, Readers
<1>5. requestLength(Symbols(m)) = Len(m.head) + 1 \/ requestLength(Symbols(m)) = n
  BY <1>2, <1>3, RequestLengthIs
<1> QED
  BY <1>2, <1>3, <1>4, <1>5 DEF requestComplete

\* So are those of an answer, unless its coding is chunked and its end seems to
\* come early; what of it counts as the answer is all of it.
LEMMA AnswerWhole ==
  ASSUME NEW m \in Responses, NEW n \in 0 .. Len(Symbols(m)), responseComplete(Part(m, n)),
         ~OtherLength(m), ~(Has(m.head, "chunked") /\ EarlyEnd(m))
  PROVE  responseOf(Part(m, n)) = Symbols(m)
<1>1. WellFormed(m)
  BY RelayAssumption DEF RelayAssumption
<1>2. /\ Len(m.head) \in Nat \ {0} /\ Len(m.body) \in Nat /\ Len(Symbols(m)) \in Nat
      /\ Len(Symbols(m)) = Len(m.head) + 1 + Len(m.body)
      /\ m.body = <<>> => Len(Symbols(m)) = Len(m.head) + 1
  BY <1>1, LengthOfParts
<1>3. n > Len(m.head)
  <2>1. ~(n <= Len(m.head))
    BY <1>1, Readers DEF responseComplete
  <2> QED
    BY <1>1, <2>1, CutsOf
<1>4. /\ n <= Len(Symbols(m)) /\ Len(Part(m, n)) = n
      /\ n >= Len(Symbols(m)) => n = Len(Symbols(m))
  BY <1>1, PartSymbols, CutsOf
<1>5. CASE clMatch(Symbols(m)) # 0
  <2>1. clMatch(Part(m, n)) # 0 /\ expectedLength(Part(m, n)) = Stated(m)
    BY <1>1, <1>3, <1>5, Readers
  <2>2. n >= Stated(m)
    BY <1>4, <2>1 DEF responseComplete
  <2>3. n = Len(Symbols(m)) /\ Stated(m) = Len(Symbols(m))
    <3>1. CASE Stated(m) = Len(Symbols(m))
      BY <1>4, <2>2, <3>1
    <3>2. CASE m.body = <<>>
      <4>1. Len(Symbols(m)) = Len(m.head) + 1
        BY <1>2, <3>2
      <4>2. n = Len(m.head) + 1
        BY <1>1, <1>3, <4>1, CutsOf
      <4>3. m.head[clMatch(Symbols(m))].n \in Nat
        <5>1. clMatch(Symbols(m)) \in 1 .. Len(m.head)
          BY <1>1, <1>5, LengthLine
        <5>2. m.head[clMatch(Symbols(m))] \in HeadSymbols
          BY <1>1, <5>1, SymbolsOf
        <5> QED
          BY <5>2 DEF HeadSymbols
      <4>4. PICK k \in Nat : k = m.head[clMatch(Symbols(m))].n
        BY <4>3
      <4>5. Stated(m) = Len(m.head) + 1 + k
        BY <4>4 DEF Stated
      <4>6. Stated(m) = Len(m.head) + 1
        BY <1>2, <2>2, <4>2, <4>4, <4>5, NoMoreStated
      <4> QED
        BY <4>1, <4>2, <4>6
    <3> QED
      BY <1>1, <1>5, <3>1, <3>2, StatedIsLength
  <2> QED
    BY <1>1, <2>1, <2>3, LengthOfParts DEF responseOf
<1>6. CASE clMatch(Symbols(m)) = 0
  <2>1. clMatch(Part(m, n)) = 0 /\ (isChunked(Part(m, n)) <=> Has(m.head, "chunked"))
    BY <1>1, <1>3, <1>6, Readers
  <2>2. Has(m.head, "chunked") /\ EndsLikeLastChunk(Part(m, n))
    BY <2>1 DEF responseComplete
  <2>3. ~EarlyEnd(m)
    BY <2>2
  <2>4. n \in 1 .. n /\ n \in 1 .. Len(Symbols(m)) /\ n - 1 \in 0 .. n
    BY <1>1, <1>3, CutsOf
  <2>5. Last(Part(m, n)) = Symbols(m)[n]
    BY <1>1, <1>4, <2>4, PartSymbols DEF Last
  <2>6. CASE n = Len(m.head) + 1
    <3>1. Symbols(m)[n].kind = "end"
      BY <1>1, <2>4, <2>6, OneEnd
    <3>2. Part(m, n)[n - 1].kind = "zeroline"
      BY <1>4, <2>2, <2>5, <3>1 DEF EndsLikeLastChunk
    <3>3. n - 1 = Len(m.head) /\ n - 1 \in 1 .. n /\ n - 1 \in 1 .. Len(m.head)
      BY <1>2, <2>6, CutAfterHead
    <3>4. Part(m, n)[n - 1] = Symbols(m)[n - 1] /\ Symbols(m)[n - 1] = m.head[n - 1]
      BY <1>1, <3>3, PartSymbols, SymbolsOf
    <3>5. Last(m.head).kind = "zeroline"
      BY <3>2, <3>3, <3>4 DEF Last
    <3> QED
      BY <2>3, <3>5 DEF EarlyEnd
  <2>7. CASE n # Len(m.head) + 1
    <3>1. Symbols(m)[n].kind # "end"
      BY <1>1, <2>4, <2>7, OneEnd
    <3>2. n \in (Len(m.head) + 2) .. Len(Symbols(m))
      BY <1>1, <1>3, <2>7, CutsOf
    <3>3. /\ n - (Len(m.head) + 1) \in 1 .. Len(m.body)
          /\ Symbols(m)[n] = m.body[n - (Len(m.head) + 1)]
      BY <1>1, <3>2, SymbolsOf
    <3>4. DOMAIN m.body = 1 .. Len(m.body)
      BY <1>1 DEF WellFormed
    <3>5. Symbols(m)[n].kind # "zerodata"
      BY <2>3, <3>3, <3>4 DEF EarlyEnd, Has
    <3>6. Symbols(m)[n].kind = "last"
      BY <2>2, <2>5, <3>1, <3>5 DEF EndsLikeLastChunk
    <3>7. n - (Len(m.head) + 1) = Len(m.body)
      BY <1>1, <3>3, <3>4, <3>6 DEF WellFormed
    <3>8. n = Len(Symbols(m))
      BY <1>1, <3>7, CutsOf
    <3> QED
      BY <1>1, <2>1, <3>8, LengthOfParts DEF responseOf
  <2> QED
    BY <2>6, <2>7
<1> QED
  BY <1>5, <1>6

\* A whole answer is seen to be one, if it shows its end.
LEMMA AnswerSeen ==
  ASSUME NEW m \in Responses, ~responseComplete(Symbols(m))
  PROVE  m.closed \/ OtherLength(m) \/ m.bare \/ Has(m.body, "trailer")
<1> SUFFICES ASSUME ~m.closed, ~OtherLength(m), ~m.bare, ~Has(m.body, "trailer") PROVE FALSE
  OBVIOUS
<1>1. WellFormed(m)
  BY RelayAssumption DEF RelayAssumption
<1>2. PICK n : n = Len(Symbols(m))
  OBVIOUS
<1>3. /\ n \in 0 .. Len(Symbols(m)) /\ n > Len(m.head) /\ Part(m, n) = Symbols(m)
      /\ n >= n /\ Len(m.head) \in Nat /\ Len(m.body) \in Nat
      /\ n = Len(m.head) + 1 + Len(m.body) /\ Len(m.head) + 1 # 0
  <2>1. /\ Len(Symbols(m)) \in 0 .. Len(Symbols(m)) /\ Len(Symbols(m)) > Len(m.head)
        /\ Part(m, Len(Symbols(m))) = Symbols(m)
        /\ Len(m.head) \in Nat /\ Len(m.body) \in Nat
        /\ Len(Symbols(m)) = Len(m.head) + 1 + Len(m.body)
    BY <1>1, LengthOfParts
  <2> QED
    BY <1>1, <1>2, <2>1, CutsOf
<1>4. headerEnd(Symbols(m)) # 0
  BY <1>1, <1>3, Readers
<1>5. CASE clMatch(Symbols(m)) # 0
  <2>1. expectedLength(Symbols(m)) = Stated(m)
    BY <1>1, <1>3, <1>5, Readers
  <2>2. Stated(m) = n
    BY <1>1, <1>2, <1>5, StatedIsLength
  <2> QED
    BY <1>2, <1>3, <1>4, <1>5, <2>1, <2>2 DEF responseComplete
<1>6. CASE clMatch(Symbols(m)) = 0
  <2>1. ~Has(m.head, "length")
    BY <1>1, <1>6, NoLength
  <2>2. Has(m.head, "chunked") /\ m.body # <<>> /\ Last(m.body).kind \in {"last", "trailer"}
    BY <2>1, RelayAssumption DEF RelayAssumption
  <2>3. isChunked(Symbols(m))
    BY <1>1, <1>3, <2>2, Readers
  <2>4. Len(m.body) \in 1 .. Len(m.body) /\ DOMAIN m.body = 1 .. Len(m.body) /\ Len(m.body) # 0
    <3>1. m.body \in Seq(BodySymbols)
      BY <1>1 DEF WellFormed
    <3>2. Len(m.body) \in Nat \ {0}
      BY <2>2, <3>1
    <3> QED
      BY <3>1, <3>2
  <2>5. Last(m.body).kind = "last"
    BY <2>2, <2>4 DEF Last, Has
  <2>6. n \in (Len(m.head) + 2) .. Len(Symbols(m)) /\ n - (Len(m.head) + 1) = Len(m.body)
    BY <1>1, <1>2, <1>3, <2>4, CutsOf
  <2>7. Symbols(m)[n] = m.body[Len(m.body)]
    BY <1>1, <2>6, SymbolsOf
  <2>8. Last(Symbols(m)).kind = "last"
    BY <1>2, <2>5, <2>7 DEF Last
  <2> QED
    BY <1>4, <1>6, <2>3, <2>8 DEF responseComplete, EndsLikeLastChunk
<1> QED
  BY <1>5, <1>6

-------------------------------------------------------------------------------
\* The assumption, for both kinds of message.
LEMMA InputsWellFormed ==
  /\ \A m \in Requests : WellFormed(m)
  /\ \A m \in Responses : WellFormed(m)
BY RelayAssumption DEF RelayAssumption

\* Before the first packet nothing is complete.
LEMMA NothingRead ==
  ASSUME NEW m, WellFormed(m)
  PROVE  PartOf(m, <<>>) /\ ~requestComplete(<<>>) /\ ~responseComplete(<<>>)
<1>1. 0 \in 0 .. Len(Symbols(m)) /\ 0 <= Len(m.head)
  <2>1. Len(Symbols(m)) \in Nat /\ Len(m.head) \in Nat
    BY LengthOfParts
  <2> QED
    BY <2>1
<1>2. Part(m, 0) = <<>>
  <2>1. Part(m, 0) \in Seq(AllSymbols) /\ Len(Part(m, 0)) = 0
    BY <1>1, PartSymbols
  <2> QED
    BY <2>1, EmptySeq
<1>3. headerEnd(<<>>) = 0
  BY <1>1, <1>2, Readers
<1> QED
  BY <1>1, <1>2, <1>3 DEF PartOf, Part, requestComplete, responseComplete

\* One more packet makes a longer part.
LEMMA LongerPart ==
  ASSUME NEW m, WellFormed(m), PartOf(m, got), NEW k, Arrives(m, k)
  PROVE  \E n \in 0 .. Len(Symbols(m)) : With(m, k) = Part(m, n)
<1>1. PICK n \in 0 .. Len(Symbols(m)) : got = Part(m, n)
  BY DEF PartOf, Part
<1>2. Len(got) = n
  BY <1>1, PartSymbols
<1>3. PICK l \in Nat : l = Len(Symbols(m))
  BY LengthOfParts
<1>4. n \in 0 .. l /\ k \in 1 .. (l - n)
  BY <1>2, <1>3 DEF Arrives
<1>5. n + k \in 0 .. l
  BY <1>4
<1>6. With(m, k) = Part(m, n + k)
  BY <1>2 DEF With, Part
<1> QED
  BY <1>3, <1>5, <1>6

\* Nothing has been read or sent yet.
LEMMA RelayInitially ==
  ASSUME RelayInit
  PROVE  RelayIInv
<1>1. FromInputs
  BY DEF RelayInit, FromInputs
<1>2. WellFormed(req)
  BY <1>1, InputsWellFormed DEF FromInputs
<1>3. RequestUnread
  BY <1>2, NothingRead DEF RelayInit, RequestUnread
<1>4. RequestTaken /\ AnswerUnread /\ WholeMessages
  BY DEF RelayInit, RequestTaken, AnswerUnread, WholeMessages
<1> QED
  BY <1>1, <1>3, <1>4 DEF RelayIInv

\* What the readers take for a message is it; what they leave is not complete.
LEMMA RelayRequestData ==
  ASSUME RelayIInv, NEW k, requestData(k)
  PROVE  RelayIInv'
<1> DEFINE s == With(req, k)
<1>1. FromInputs' /\ req' = req /\ WellFormed(req) /\ req \in Requests
  BY InputsWellFormed DEF RelayIInv, FromInputs, requestData
<1>2. PICK n \in 0 .. Len(Symbols(req)) : s = Part(req, n)
  <2>1. PartOf(req, got) /\ Arrives(req, k)
    BY DEF RelayIInv, RequestUnread, requestData
  <2> QED
    BY <1>1, <2>1, LongerPart
<1>3. WholeMessages'
  BY DEF RelayIInv, WholeMessages, Intended, Altered, requestData
<1>4. CASE requestComplete(s)
  <2>1. step' = "replace" /\ got' = SubSeq(s, 1, requestLength(s))
    BY <1>4 DEF requestData
  <2>2. OtherLength(req) \/ Has(req.head, "chunked") \/ got' = Symbols(req)
    BY <1>1, <1>2, <1>4, <2>1, RequestWhole
  <2>3. RequestTaken'
    BY <1>1, <2>1, <2>2 DEF RequestTaken
  <2>4. RequestUnread' /\ AnswerUnread'
    BY <2>1 DEF RequestUnread, AnswerUnread
  <2> QED
    BY <1>1, <1>3, <2>3, <2>4 DEF RelayIInv
<1>5. CASE ~requestComplete(s)
  <2>1. step' = "request" /\ got' = s
    BY <1>5 DEF requestData
  <2>2. PartOf(req, s)
    BY <1>2 DEF PartOf, Part
  <2>3. RequestUnread'
    BY <1>1, <1>5, <2>1, <2>2 DEF RequestUnread
  <2>4. RequestTaken' /\ AnswerUnread'
    BY <2>1 DEF RequestTaken, AnswerUnread
  <2> QED
    BY <1>1, <1>3, <2>3, <2>4 DEF RelayIInv
<1> QED
  BY <1>4, <1>5

\* An end of the connection is either early or after the whole request.
LEMMA RelayRequestEnd ==
  ASSUME RelayIInv, requestEnd
  PROVE  RelayIInv'
<1>1. /\ FromInputs' /\ req' = req /\ res' = res /\ got' = got /\ mapping' = mapping
      /\ forwarded' = forwarded
  BY DEF RelayIInv, FromInputs, requestEnd
<1>2. step' \in {"replace", "done"}
  BY DEF requestEnd, Fail
<1>3. RequestUnread' /\ AnswerUnread'
  BY <1>2 DEF RequestUnread, AnswerUnread
<1>4. closedEarly' \/ (~closedEarly /\ got = Symbols(req))
  BY DEF requestEnd
<1>5. RequestTaken'
  BY <1>1, <1>4 DEF RequestTaken
<1>6. answer' = answer \/ answer' = Error
  BY DEF requestEnd, Fail
<1>7. WholeMessages'
  BY <1>1, <1>4, <1>6 DEF RelayIInv, WholeMessages, Intended, Altered
<1> QED
  BY <1>1, <1>3, <1>5, <1>7 DEF RelayIInv

\* The empty line alone makes a message longer than its head.
LEMMA LongerThanHead ==
  ASSUME NEW h \in Nat, NEW b \in Nat, NEW l, l = h + 1 + b
  PROVE  l \in Nat /\ l > h
OBVIOUS

\* In a head without bytes above 127 a plain replacement changes the token alone.
LEMMA PlainReplaced ==
  ASSUME NEW m, WellFormed(m), ~Has(m.head, "eightbit")
  PROVE  replaceTokenInBuffer(Symbols(m), "plain")
           = [Symbols(m) EXCEPT ![TokenLine(Symbols(m))].kind = "real"]
<1> DEFINE s == Symbols(m)
           t == TokenLine(s)
<1>0. s \in Seq(AllSymbols)
  BY SymbolsOf
<1>1. DOMAIN s = 1 .. Len(s)
  <2> HIDE DEF s
  <2> QED
    BY <1>0
<1>2. /\ Len(m.head) \in Nat /\ DOMAIN m.head = 1 .. Len(m.head) /\ Len(s) \in Nat
      /\ Len(s) > Len(m.head)
  <2>1. /\ Len(m.head) \in Nat /\ Len(m.body) \in Nat
        /\ Len(s) = Len(m.head) + 1 + Len(m.body)
    BY SymbolsOf
  <2>2. m.head \in Seq(HeadSymbols)
    BY DEF WellFormed
  <2>3. DOMAIN m.head = 1 .. Len(m.head)
    BY <2>2
  <2>4. Len(s) \in Nat /\ Len(s) > Len(m.head)
    BY <2>1, LongerThanHead
  <2> QED
    BY <2>1, <2>3, <2>4
<1>3. headerEnd(s) = Len(m.head) + 1
  <2>1. PICK n \in 0 .. Len(s) : n = Len(s) /\ n > Len(m.head)
    <3> HIDE DEF s
    <3> QED
      BY <1>2
  <2>2. Part(m, n) = s
    BY <2>1, PartSymbols
  <2>3. headerEnd(Part(m, n)) = Len(m.head) + 1
    BY <2>1, EndFound
  <2> QED
    BY <2>2, <2>3
<1>4. ASSUME NEW i \in 1 .. Len(s), i < headerEnd(s) PROVE Decoded(s[i]) = s[i]
  <2>1. i \in 1 .. Len(m.head) /\ i <= Len(m.head)
    BY <1>2, <1>3, <1>4
  <2>2. s[i] = m.head[i] /\ m.head[i].kind # "eightbit"
    BY <1>2, <2>1, OneEnd DEF Has
  <2> QED
    BY <2>2 DEF Decoded
<1>5. replaceTokenInBuffer(s, "plain") =
        [i \in 1 .. Len(s) |-> IF i = t THEN [s[i] EXCEPT !.kind = "real"] ELSE s[i]]
  <2> HIDE DEF t
  <2>1. replaceTokenInBuffer(s, "plain") =
          [i \in 1 .. Len(s) |-> IF i = t THEN [s[i] EXCEPT !.kind = "real"]
                                ELSE IF i < headerEnd(s) THEN Decoded(s[i]) ELSE s[i]]
    BY <1>1 DEF replaceTokenInBuffer, t
  <2> HIDE DEF s
  <2> QED
    BY <1>4, <2>1
<1>6. [s EXCEPT ![t].kind = "real"] =
        [i \in 1 .. Len(s) |-> IF i = t THEN [s[i] EXCEPT !.kind = "real"] ELSE s[i]]
  <2> HIDE DEF s, t
  <2> QED
    BY <1>1
<1> QED
  BY <1>5, <1>6

\* What is forwarded is what was taken for the request.
LEMMA RelayForward ==
  ASSUME RelayIInv, forward
  PROVE  RelayIInv'
<1>1. /\ FromInputs' /\ req' = req /\ res' = res /\ answer' = answer
      /\ closedEarly' = closedEarly /\ WellFormed(req) /\ WellFormed(res)
  BY InputsWellFormed DEF RelayIInv, FromInputs, forward
<1>2. step' = "response" /\ got' = <<>> /\ step = "replace"
  BY DEF forward
<1>3. RequestUnread' /\ RequestTaken'
  BY <1>2 DEF RequestUnread, RequestTaken
<1>4. AnswerUnread'
  BY <1>1, <1>2, NothingRead DEF AnswerUnread
<1>5. forwarded' = replaceToken(got, mapping') /\ mapping' \in Mappings
  BY DEF forward, Mappings
<1>6. closedEarly \/ got = Symbols(req) \/ OtherLength(req) \/ Has(req.head, "chunked")
  BY <1>2 DEF RelayIInv, RequestTaken
<1>7. closedEarly \/ forwarded' = Intended' \/ Altered' \/ OtherLength(req)
        \/ Has(req.head, "chunked")
  <2> SUFFICES ASSUME got = Symbols(req), ~Altered' PROVE forwarded' = Intended'
    BY <1>6
  <2>1. CASE mapping' = "none"
    BY <1>1, <1>5, <2>1 DEF replaceToken, Intended
  <2>2. CASE mapping' = "plain"
    <3>1. ~Has(req.head, "eightbit")
      BY <1>1, <2>2 DEF Altered
    <3>2. forwarded' = replaceTokenInBuffer(Symbols(req), "plain")
      BY <1>5, <2>2 DEF replaceToken
    <3>3. Intended' = [Symbols(req) EXCEPT ![TokenLine(Symbols(req))].kind = "real"]
      BY <1>1, <2>2 DEF Intended
    <3> QED
      BY <1>1, <3>1, <3>2, <3>3, PlainReplaced
  <2> QED
    BY <1>5, <2>1, <2>2 DEF Mappings, Altered
<1>8. WholeMessages'
  BY <1>1, <1>7 DEF RelayIInv, WholeMessages, Intended, Altered
<1> QED
  BY <1>1, <1>3, <1>4, <1>8 DEF RelayIInv

\* An error answers nothing of the message.
LEMMA RelayFails ==
  ASSUME RelayIInv, unreachable \/ responseTimeout
  PROVE  RelayIInv'
<1>1. /\ FromInputs' /\ req' = req /\ res' = res /\ mapping' = mapping /\ forwarded' = forwarded
      /\ closedEarly' = closedEarly /\ step' = "done" /\ answer' = Error
  BY DEF RelayIInv, FromInputs, unreachable, responseTimeout, Fail
<1>2. RequestUnread' /\ RequestTaken' /\ AnswerUnread'
  BY <1>1 DEF RequestUnread, RequestTaken, AnswerUnread
<1>3. WholeMessages'
  BY <1>1 DEF RelayIInv, WholeMessages, Intended, Altered
<1> QED
  BY <1>1, <1>2, <1>3 DEF RelayIInv

\* What is read as an answer is one; what is not goes on being read.
LEMMA RelayResponseData ==
  ASSUME RelayIInv, NEW k, responseData(k)
  PROVE  RelayIInv'
<1> DEFINE s == With(res, k)
<1>1. /\ FromInputs' /\ req' = req /\ res' = res /\ mapping' = mapping /\ forwarded' = forwarded
      /\ closedEarly' = closedEarly /\ WellFormed(res) /\ res \in Responses
      /\ step = "response" /\ got' = s
  BY InputsWellFormed DEF RelayIInv, FromInputs, responseData
<1>2. PICK n \in 0 .. Len(Symbols(res)) : s = Part(res, n)
  <2>1. PartOf(res, got) /\ Arrives(res, k)
    BY DEF RelayIInv, AnswerUnread, responseData
  <2> QED
    BY <1>1, <2>1, LongerPart
<1>3. CASE responseComplete(s)
  <2>1. step' = "done" /\ answer' = responseOf(s)
    BY <1>3 DEF responseData
  <2>2. answer' = Symbols(res) \/ OtherLength(res) \/ (Has(res.head, "chunked") /\ EarlyEnd(res))
    BY <1>1, <1>2, <1>3, <2>1, AnswerWhole
  <2>3. WholeMessages'
    BY <1>1, <2>2 DEF RelayIInv, WholeMessages, Intended, Altered
  <2>4. RequestUnread' /\ RequestTaken' /\ AnswerUnread'
    BY <2>1 DEF RequestUnread, RequestTaken, AnswerUnread
  <2> QED
    BY <1>1, <2>3, <2>4 DEF RelayIInv
<1>4. CASE ~responseComplete(s)
  <2>1. step' = "response" /\ answer' = answer
    BY <1>1, <1>4 DEF responseData
  <2>2. WholeMessages'
    BY <1>1, <2>1 DEF RelayIInv, WholeMessages, Intended, Altered
  <2>3. PartOf(res, s)
    BY <1>2 DEF PartOf, Part
  <2>4. AnswerUnread'
    BY <1>1, <1>4, <2>3 DEF AnswerUnread
  <2>5. RequestUnread' /\ RequestTaken'
    BY <2>1 DEF RequestUnread, RequestTaken
  <2> QED
    BY <1>1, <2>2, <2>4, <2>5 DEF RelayIInv
<1> QED
  BY <1>3, <1>4

\* So is the end of the server's connection.
LEMMA RelayResponseEnd ==
  ASSUME RelayIInv, responseEnd
  PROVE  RelayIInv'
<1>1. /\ FromInputs' /\ req' = req /\ res' = res /\ mapping' = mapping /\ forwarded' = forwarded
      /\ step' = "done" /\ answer' = got
  BY DEF RelayIInv, FromInputs, responseEnd
<1>2. closedEarly' \/ (~closedEarly /\ got = Symbols(res))
  BY DEF responseEnd
<1>3. WholeMessages'
  BY <1>1, <1>2 DEF RelayIInv, WholeMessages, Intended, Altered
<1>4. RequestUnread' /\ RequestTaken' /\ AnswerUnread'
  BY <1>1 DEF RequestUnread, RequestTaken, AnswerUnread
<1> QED
  BY <1>1, <1>3, <1>4 DEF RelayIInv

\* While a message is read it is not complete, and what was taken for one is one:
\* the packets and their sizes make no difference.
THEOREM RelayInvariant == RelaySpec => []RelayIInv
<1>1. RelayInit => RelayIInv
  BY RelayInitially
<1>2. RelayIInv /\ [RelayNext]_relayVars => RelayIInv'
  <2> SUFFICES ASSUME RelayIInv, [RelayNext]_relayVars PROVE RelayIInv'
    OBVIOUS
  <2>1. ASSUME NEW k, requestData(k) PROVE RelayIInv'
    BY <2>1, RelayRequestData
  <2>2. CASE requestEnd
    BY <2>2, RelayRequestEnd
  <2>3. CASE forward
    BY <2>3, RelayForward
  <2>4. CASE unreachable \/ responseTimeout
    BY <2>4, RelayFails
  <2>5. ASSUME NEW k, responseData(k) PROVE RelayIInv'
    BY <2>5, RelayResponseData
  <2>6. CASE responseEnd
    BY <2>6, RelayResponseEnd
  <2>7. CASE UNCHANGED relayVars
    BY <2>7 DEF relayVars, RelayIInv, FromInputs, RequestUnread, RequestTaken,
                AnswerUnread, WholeMessages, Intended, Altered, PartOf
  <2> QED
    BY <2>1, <2>2, <2>3, <2>4, <2>5, <2>6, <2>7 DEF RelayNext
<1> QED
  BY <1>1, <1>2, PTL DEF RelaySpec

\* However the packets of an exchange fall, what is sent on is the whole message
\* and no more: an answer as it was, a request as it was but for its token
\* (mitm.ts:204-211, :262-286); except for the messages the readers do not
\* understand (OtherLength, EarlyEnd, a chunked request) and the heads that come
\* out wrong when a token is replaced in them (Altered; replacer.ts:38, :93-102).
THEOREM MessagesSentWhole == RelaySpec => []WholeMessages
<1>1. RelayIInv => WholeMessages
  BY DEF RelayIInv
<1> QED
  BY <1>1, RelayInvariant, PTL

\* A message that has come as a whole is recognised with its last packet, and does
\* not wait for the connection to close or for the 30 seconds (mitm.ts:197-216,
\* :255-289).
THEOREM MessagesRecognised == RelaySpec => []RecognisedAtOnce
<1>1. ASSUME RelayIInv PROVE RecognisedAtOnce
  <2>1. req \in Requests /\ res \in Responses
    BY <1>1 DEF RelayIInv, FromInputs
  <2>2. ASSUME step = "request", got = Symbols(req) PROVE OtherLength(req)
    <3>1. ~requestComplete(Symbols(req))
      BY <1>1, <2>2 DEF RelayIInv, RequestUnread
    <3> QED
      BY <2>1, <3>1, RequestSeen
  <2>3. ASSUME step = "response", got = Symbols(res)
        PROVE  res.closed \/ OtherLength(res) \/ res.bare \/ Has(res.body, "trailer")
    <3>1. ~responseComplete(Symbols(res))
      BY <1>1, <2>3 DEF RelayIInv, AnswerUnread
    <3> QED
      BY <2>1, <3>1, AnswerSeen
  <2> QED
    BY <2>2, <2>3 DEF RecognisedAtOnce
<1>2. RelayIInv => RecognisedAtOnce
  BY <1>1
<1> QED
  BY <1>2, RelayInvariant, PTL
===============================================================================
