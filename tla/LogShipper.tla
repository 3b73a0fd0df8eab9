------------------------------ MODULE LogShipper ------------------------------
(***************************************************************************)
(* Log shipping of one proxy process (packages/proxy/src/logging/          *)
(* clickhouse.ts): log() appends to a buffer, flush() sends the whole      *)
(* buffer to Kafka or ClickHouse, and shutdownClickHouse() sends what is   *)
(* left before the process exits.                                          *)
(*                                                                         *)
(* The process is single-threaded: a step is what runs between two awaits. *)
(* The sink is external; a send may be answered at any later time.         *)
(***************************************************************************)
EXTENDS Naturals, Sequences

CONSTANTS
  Flights,      \* slots for sends in progress
  NoFlight,
  BatchSize,    \* FLUSH_BATCH_SIZE
  Cap,          \* the 10_000 of the retry
  MaxEntries,   \* bound on the number of log() calls
  Faults        \* what may go wrong, a subset of AllFaults

\* "refuse": a send fails and left no row; "doubt": a send, or an attempt of one,
\* fails although rows were inserted; "load": a client library cannot be loaded; "kill": the process
\* is killed.
AllFaults == {"refuse", "doubt", "load", "kill"}

ASSUME ConstantsAssumption ==
  /\ NoFlight \notin Flights
  /\ BatchSize \in Nat \ {0}
  /\ Cap \in Nat
  /\ MaxEntries \in Nat
  /\ Faults \subseteq AllFaults

VARIABLES
  logged,     \* number of log() calls; entries are numbered in their order
  buffer,     \* entries waiting, oldest first
  flushing,   \* the flag that keeps flush() from running twice
  inflight,   \* the batch of each send in progress, empty for a free slot
  mode,       \* kafka or clickhouse
  client,     \* kafkaProducer or chClient: loading, ready, failed or closed
  timer,      \* the flush interval is armed
  stage,      \* up, flushing, closing, closed or exited
  awaited,    \* the send shutdownClickHouse is awaiting
  rows, doubled,         \* the table: entries with a row, with several
  doubtful, gone         \* history, as in AuditLog

memory == <<buffer, flushing, inflight>>
lifecycle == <<mode, client, timer, stage, awaited>>
table == <<rows, doubled, doubtful, gone>>
vars == <<logged, memory, lifecycle, table>>

Elems(s) == {s[k] : k \in 1..Len(s)}

Sent == UNION {Elems(inflight[f]) : f \in Flights}

Busy(f) == inflight[f] # <<>>

-------------------------------------------------------------------------------
\* flush() up to its await, called with the buffer b: it returns at once while
\* another flush is running, has nothing to do for an empty buffer, and puts the
\* batch back while there is no client.
flushSends(b) == ~flushing /\ b # <<>> /\ client = "ready"

flushReturns(b) ==
  /\ ~flushSends(b)
  /\ buffer' = b
  /\ UNCHANGED <<flushing, inflight>>

startSend(b, f) ==
  /\ ~Busy(f)
  /\ inflight' = [inflight EXCEPT ![f] = b]
  /\ buffer' = <<>>
  /\ flushing' = TRUE

flush(b, f) == flushSends(b) /\ startSend(b, f)

\* log(): append, and flush when the batch is full.
log ==
  /\ stage # "exited"
  /\ logged < MaxEntries
  /\ logged' = logged + 1
  /\ LET b == Append(buffer, logged + 1) IN
       IF Len(b) >= BatchSize
       THEN flushReturns(b) \/ \E f \in Flights : flush(b, f)
       ELSE buffer' = b /\ UNCHANGED <<flushing, inflight>>
  /\ UNCHANGED <<lifecycle, table>>

\* Mutant: the interval, like log(), waits for a full batch.
tickFullOnly ==
  /\ timer
  /\ Len(buffer) >= BatchSize
  /\ \E f \in Flights : flush(buffer, f)
  /\ UNCHANGED <<logged, lifecycle, table>>

\* The interval fires; where flush() would return at once nothing happens.
tick ==
  /\ timer
  /\ \E f \in Flights : flush(buffer, f)
  /\ UNCHANGED <<logged, lifecycle, table>>

\* The entries of D get a row each.
Insert(D) ==
  /\ rows' = rows \union D
  /\ doubled' = doubled \union (D \intersect rows)

\* flush() after its await: the finally block and the slot, and for the last
\* flush of the shutdown the continuation of shutdownClickHouse.
FlushEnds(f) ==
  /\ inflight' = [inflight EXCEPT ![f] = <<>>]
  /\ flushing' = FALSE
  /\ IF awaited = f THEN stage' = "closing" /\ awaited' = NoFlight
                    ELSE UNCHANGED <<stage, awaited>>
  /\ UNCHANGED <<logged, mode, client, timer>>

sendReturns(f) ==
  /\ Busy(f)
  /\ Insert(Elems(inflight[f]))
  /\ FlushEnds(f)
  /\ UNCHANGED <<buffer, doubtful, gone>>

\* What a send that reports an error may have inserted: nothing, the whole
\* block (ClickHouse) or the messages of some partitions (Kafka).
InsertedAnyway(f) ==
  (IF "refuse" \in Faults THEN {{}} ELSE {}) \union
  (IF "doubt" \in Faults
   THEN IF mode = "kafka" THEN SUBSET Elems(inflight[f]) ELSE {Elems(inflight[f])}
   ELSE {})

\* An attempt of a send through Kafka fails although the broker took some of its
\* messages.  The client tries again by itself (retries: 3) and is not idempotent;
\* nobody here notices.
attemptFails(f) ==
  /\ "doubt" \in Faults
  /\ mode = "kafka" /\ Busy(f)
  /\ \E D \in SUBSET Elems(inflight[f]) \ {{}} : Insert(D) /\ doubtful' = doubtful \union D
  /\ UNCHANGED <<logged, memory, lifecycle, gone>>

\* Mutant: the batch goes back behind what was logged meanwhile.
sendFailsBehind(f) ==
  /\ Busy(f)
  /\ \E D \in InsertedAnyway(f) : Insert(D) /\ doubtful' = doubtful \union D
  /\ IF Len(buffer) + Len(inflight[f]) <= Cap
     THEN buffer' = buffer \o inflight[f] /\ UNCHANGED gone
     ELSE gone' = gone \union Elems(inflight[f]) /\ UNCHANGED buffer
  /\ FlushEnds(f)

\* Mutant: the catch block only logs.
sendFailsForgets(f) ==
  /\ Busy(f)
  /\ \E D \in InsertedAnyway(f) : Insert(D) /\ doubtful' = doubtful \union D
  /\ FlushEnds(f)
  /\ UNCHANGED <<buffer, gone>>

\* The catch block: the batch goes back in front of what was logged meanwhile,
\* unless the two together exceed the cap.
sendFails(f) ==
  /\ Busy(f)
  /\ \E D \in InsertedAnyway(f) : Insert(D) /\ doubtful' = doubtful \union D
  /\ IF Len(buffer) + Len(inflight[f]) <= Cap
     THEN buffer' = inflight[f] \o buffer /\ UNCHANGED gone
     ELSE gone' = gone \union Elems(inflight[f]) /\ UNCHANGED buffer
  /\ FlushEnds(f)

-------------------------------------------------------------------------------
\* initClickHouse: the client library is loaded in the background.
clientLoads ==
  /\ client = "loading"
  /\ stage # "exited"
  /\ client' = "ready"
  /\ UNCHANGED <<logged, memory, mode, timer, stage, awaited, table>>

\* initKafka falls back to ClickHouse; initDirectClickHouse gives up.
clientLoadFails ==
  /\ "load" \in Faults
  /\ client = "loading"
  /\ stage # "exited"
  /\ IF mode = "kafka" THEN mode' = "clickhouse" /\ UNCHANGED client
                       ELSE client' = "failed" /\ UNCHANGED mode
  /\ UNCHANGED <<logged, memory, timer, stage, awaited, table>>

\* shutdownClickHouse up to `await flush()`: the flag is cleared first, whether
\* or not a send is in progress.
shutdownClickHouse ==
  /\ stage = "up"
  /\ timer' = FALSE
  /\ \/ /\ buffer # <<>> /\ client = "ready"
        /\ \E f \in Flights : startSend(buffer, f) /\ awaited' = f
        /\ stage' = "flushing"
     \/ /\ buffer = <<>> \/ client # "ready"
        /\ flushing' = FALSE
        /\ stage' = "closing"
        /\ UNCHANGED <<buffer, inflight, awaited>>
  /\ UNCHANGED <<logged, mode, client, table>>

\* The client is disconnected; an error of that is only logged (index.ts).
closeClient ==
  /\ stage = "closing"
  /\ stage' = "closed"
  /\ \/ client = "ready" /\ client' = "closed"
     \/ UNCHANGED client
  /\ UNCHANGED <<logged, memory, mode, timer, awaited, table>>

\* The process is over: what it had in memory is lost, but for the rows that
\* sends in progress had inserted.
ProcessEnds ==
  /\ \E D \in SUBSET Sent : Insert(D) /\ doubtful' = doubtful \union D
  /\ gone' = gone \union Elems(buffer) \union Sent
  /\ stage' = "exited"
  /\ buffer' = <<>>
  /\ inflight' = [f \in Flights |-> <<>>]
  /\ flushing' = FALSE
  /\ timer' = FALSE
  /\ awaited' = NoFlight
  /\ UNCHANGED <<logged, mode, client>>

\* process.exit(0) at the end of main()'s shutdown.
exit == stage = "closed" /\ ProcessEnds

\* SIGKILL, out of memory, or the grace period runs out.
kill == "kill" \in Faults /\ stage # "exited" /\ ProcessEnds

-------------------------------------------------------------------------------
Init ==
  /\ logged = 0
  /\ buffer = <<>>
  /\ flushing = FALSE
  /\ inflight = [f \in Flights |-> <<>>]
  /\ mode \in {"kafka", "clickhouse"}
  /\ client = "loading"
  /\ timer = TRUE
  /\ stage = "up"
  /\ awaited = NoFlight
  /\ rows = {}
  /\ doubled = {}
  /\ doubtful = {}
  /\ gone = {}

Next ==
  \/ log
  \/ tick
  \/ \E f \in Flights : sendReturns(f) \/ attemptFails(f) \/ sendFails(f)
  \/ clientLoads
  \/ clientLoadFails
  \/ shutdownClickHouse
  \/ closeClient
  \/ exit
  \/ kill

Spec == Init /\ [][Next]_vars

\* The event loop runs the timer and the continuations, the library is loaded,
\* every send is answered and the sink does not refuse for ever.  Nobody is
\* obliged to log, to shut down or to kill.
Fairness ==
  /\ WF_vars(tick)
  /\ WF_vars(clientLoads)
  /\ \A f \in Flights : SF_vars(sendReturns(f))
  /\ WF_vars(closeClient)
  /\ WF_vars(exit)

LiveSpec == Spec /\ Fairness

-------------------------------------------------------------------------------
\* Buffer and batches hold logged entries, and the flags and stages are the
\* code's.
TypeOK ==
  /\ logged \in 0..MaxEntries
  /\ buffer \in Seq(1..logged)
  /\ flushing \in BOOLEAN
  /\ inflight \in [Flights -> Seq(1..logged)]
  /\ mode \in {"kafka", "clickhouse"}
  /\ client \in {"loading", "ready", "failed", "closed"}
  /\ timer \in BOOLEAN
  /\ stage \in {"up", "flushing", "closing", "closed", "exited"}
  /\ awaited \in Flights \union {NoFlight}
  /\ rows \subseteq 1..logged
  /\ doubled \subseteq 1..logged
  /\ doubtful \subseteq 1..logged
  /\ gone \subseteq 1..logged

\* The flag does its job although shutdownClickHouse overrides it: while the
\* process is up it is set exactly during a send and there is one send at a time;
\* afterwards there are at most two, and it is still never left set with no send
\* in progress, which would stop shipping for good.
SendDiscipline ==
  /\ flushing => \E f \in Flights : Busy(f)
  /\ stage = "up" => \A f \in Flights : Busy(f) => flushing
  /\ \A f, g \in Flights : Busy(f) /\ Busy(g) /\ f # g => flushing /\ stage # "up"
  /\ \A f, g, h \in Flights : Busy(f) /\ Busy(g) /\ Busy(h) => f = g \/ g = h \/ f = h

\* No entry is in two batches, or in a batch and in the buffer, even while the
\* two sends of a shutdown overlap.
BatchesDisjoint ==
  /\ \A f \in Flights : Elems(buffer) \intersect Elems(inflight[f]) = {}
  /\ \A f, g \in Flights : f # g => Elems(inflight[f]) \intersect Elems(inflight[g]) = {}

Increasing(s) == \A j, k \in 1..Len(s) : j < k => s[j] < s[k]

\* Failures do not reorder: while the process is up the batch in progress and
\* the buffer after it are in the order of the log() calls, so that a batch
\* dropped at the cap is always the oldest one.
InLogOrder ==
  stage = "up" => \A f \in Flights : Increasing(inflight[f] \o buffer)

\* The inductive invariant of the code's own state.
IInv == TypeOK /\ SendDiscipline /\ BatchesDisjoint /\ InLogOrder

\* Entries in memory.
Open == Elems(buffer) \union Sent

\* The shipper keeps the promises of AuditLog.
Audit == INSTANCE AuditLog WITH
           Entries <- 1..MaxEntries,
           accepted <- 1..logged,
           open <- Open

ImplementsAuditLog == Audit!Spec

\* No failure, overlap, drop or exit makes an entry vanish without a trace.
EveryEntryAccounted == Audit!Accounted

\* A row is never inserted twice by retries alone: only if a send, or a first
\* attempt of it, that ended in an error had inserted it after all.
NoDuplicateRows == Audit!DoubledWereDoubtful

\* Every entry logged gets its row, is dropped at the cap or is lost with the
\* process; none stays in memory for ever, whatever sends fail and however the
\* shutdown meets them, unless the client could not be loaded.
EntriesSettle ==
  \A e \in 1..MaxEntries :
    e <= logged ~> e \in rows \union gone \/ client = "failed"

===============================================================================
