--------------------------- MODULE LogShipperProofs ---------------------------
(***************************************************************************)
(* Theorems about AuditLog and LogShipper, for every batch size, cap,      *)
(* number of entries and of send slots, and every set of faults.           *)
(***************************************************************************)
EXTENDS LogShipper, TLAPS

-------------------------------------------------------------------------------
\* The abstract log.

AuditInv == Audit!Accounted /\ Audit!DoubledWereDoubtful /\ Audit!OpenRowsAreDoubtful

\* The promises of AuditLog follow from its steps: every accepted entry is open,
\* has a row or was given up, and a second row means a send in doubt.
THEOREM AuditLogPromises == Audit!Spec => []AuditInv
<1>1. Audit!Init => AuditInv
  BY DEF Audit!Init, AuditInv, Audit!Accounted, Audit!DoubledWereDoubtful,
         Audit!OpenRowsAreDoubtful
<1>2. AuditInv /\ [Audit!Next]_(Audit!vars) => AuditInv'
  BY DEF AuditInv, Audit!Accounted, Audit!DoubledWereDoubtful,
         Audit!OpenRowsAreDoubtful, Audit!Next, Audit!vars, Audit!Accept,
         Audit!Settle, Audit!Fail, Audit!Insert
<1>3. QED
  BY <1>1, <1>2, PTL DEF Audit!Spec

-------------------------------------------------------------------------------
\* Sequences of entries.

LEMMA ElemsEmpty == Elems(<<>>) = {}
BY DEF Elems

LEMMA ElemsAppend ==
  ASSUME NEW S, NEW s \in Seq(S), NEW x
  PROVE  Elems(Append(s, x)) = Elems(s) \union {x}
<1>1. Len(Append(s, x)) = Len(s) + 1 /\ Len(s) \in Nat
  OBVIOUS
<1>2. \A k \in 1..Len(s) : Append(s, x)[k] = s[k]
  OBVIOUS
<1>3. Append(s, x)[Len(s) + 1] = x
  OBVIOUS
<1>4. \A e : e \in Elems(Append(s, x)) => e \in Elems(s) \union {x}
  <2> SUFFICES ASSUME NEW k \in 1..Len(s) + 1
               PROVE  Append(s, x)[k] \in Elems(s) \union {x}
    BY <1>1 DEF Elems
  <2>1. k \in 1..Len(s) \/ k = Len(s) + 1
    BY <1>1
  <2>2. QED
    BY <1>2, <1>3, <2>1 DEF Elems
<1>5. \A e : e \in Elems(s) \union {x} => e \in Elems(Append(s, x))
  <2>1. 1..Len(s) \subseteq 1..Len(s) + 1 /\ Len(s) + 1 \in 1..Len(s) + 1
    BY <1>1
  <2>2. QED
    BY <1>1, <1>2, <1>3, <2>1 DEF Elems
<1>6. QED
  BY <1>4, <1>5

LEMMA ElemsConcat ==
  ASSUME NEW S, NEW s \in Seq(S), NEW t \in Seq(S)
  PROVE  Elems(s \o t) = Elems(s) \union Elems(t)
<1>1. Len(s \o t) = Len(s) + Len(t) /\ Len(s) \in Nat /\ Len(t) \in Nat
  OBVIOUS
<1>2. \A k \in 1..Len(s) : (s \o t)[k] = s[k]
  OBVIOUS
<1>3. \A k \in 1..Len(t) : (s \o t)[Len(s) + k] = t[k]
  OBVIOUS
<1>4. ASSUME NEW k \in 1..Len(s) + Len(t)
      PROVE  (s \o t)[k] \in Elems(s) \union Elems(t)
  <2>1. CASE k \in 1..Len(s)
    BY <1>2, <2>1 DEF Elems
  <2>2. CASE k \notin 1..Len(s)
    <3>1. k - Len(s) \in 1..Len(t) /\ k = Len(s) + (k - Len(s))
      BY <1>1, <2>2
    <3>2. QED
      BY <1>3, <3>1 DEF Elems
  <2>3. QED
    BY <2>1, <2>2
<1>5. ASSUME NEW k \in 1..Len(s) PROVE s[k] \in Elems(s \o t)
  BY <1>1, <1>2 DEF Elems
<1>6. ASSUME NEW k \in 1..Len(t) PROVE t[k] \in Elems(s \o t)
  <2>1. Len(s) + k \in 1..Len(s \o t)
    BY <1>1
  <2>2. QED
    BY <1>3, <2>1 DEF Elems
<1>7. QED
  BY <1>1, <1>4, <1>5, <1>6 DEF Elems

\* A suffix of an increasing sequence is increasing.
LEMMA IncreasingSuffix ==
  ASSUME NEW n \in Nat, NEW s \in Seq(1..n), NEW t \in Seq(1..n), Increasing(s \o t)
  PROVE  Increasing(t)
<1>1. Len(s \o t) = Len(s) + Len(t) /\ Len(s) \in Nat /\ Len(t) \in Nat
  OBVIOUS
<1>2. \A k \in 1..Len(t) : (s \o t)[Len(s) + k] = t[k]
  OBVIOUS
<1>3. SUFFICES ASSUME NEW j \in 1..Len(t), NEW k \in 1..Len(t), j < k
               PROVE  t[j] < t[k]
  BY DEF Increasing
<1>4. /\ Len(s) + j \in 1..Len(s \o t)
      /\ Len(s) + k \in 1..Len(s \o t)
      /\ Len(s) + j < Len(s) + k
  BY <1>1, <1>3
<1>5. QED
  BY <1>2, <1>4 DEF Increasing

\* The next entry is above all the others.
LEMMA IncreasingAppend ==
  ASSUME NEW n \in Nat, NEW s \in Seq(1..n), Increasing(s)
  PROVE  Increasing(Append(s, n + 1))
<1>1. Len(Append(s, n + 1)) = Len(s) + 1 /\ Len(s) \in Nat
  OBVIOUS
<1>2. \A k \in 1..Len(s) : Append(s, n + 1)[k] = s[k] /\ s[k] \in 1..n
  OBVIOUS
<1>3. Append(s, n + 1)[Len(s) + 1] = n + 1
  OBVIOUS
<1>4. SUFFICES ASSUME NEW j \in 1..Len(s) + 1, NEW k \in 1..Len(s) + 1, j < k
               PROVE  Append(s, n + 1)[j] < Append(s, n + 1)[k]
  BY <1>1 DEF Increasing
<1>5. j \in 1..Len(s)
  BY <1>1, <1>4
<1>6. CASE k \in 1..Len(s)
  BY <1>2, <1>4, <1>5, <1>6 DEF Increasing
<1>7. CASE k = Len(s) + 1
  <2>1. Append(s, n + 1)[j] \in 1..n
    BY <1>2, <1>5
  <2>2. QED
    BY <1>3, <1>7, <2>1
<1>8. QED
  BY <1>1, <1>4, <1>6, <1>7

LEMMA ElemsIn ==
  ASSUME NEW S, NEW s \in Seq(S)
  PROVE  Elems(s) \subseteq S
BY DEF Elems

-------------------------------------------------------------------------------
\* The type invariant.

\* What is in memory consists of logged entries.
LEMMA MemoryTypes ==
  ASSUME TypeOK
  PROVE  Open \subseteq 1..logged /\ Sent \subseteq 1..logged
<1>1. Elems(buffer) \subseteq 1..logged
  BY ElemsIn DEF TypeOK
<1>2. \A f \in Flights : Elems(inflight[f]) \subseteq 1..logged
  BY ElemsIn DEF TypeOK
<1>3. QED
  BY <1>1, <1>2 DEF Open, Sent

\* The table of rows keeps its type when logged entries are inserted.
LEMMA InsertTypes ==
  ASSUME NEW D, D \subseteq 1..logged, Insert(D), TypeOK, logged' = logged
  PROVE  rows' \subseteq 1..logged' /\ doubled' \subseteq 1..logged'
BY DEF Insert, TypeOK

LEMMA FlushEndsTypes ==
  ASSUME NEW f \in Flights, FlushEnds(f), TypeOK
  PROVE  /\ logged' = logged
         /\ inflight' \in [Flights -> Seq(1..logged)]
         /\ flushing' \in BOOLEAN
         /\ mode' \in {"kafka", "clickhouse"}
         /\ client' \in {"loading", "ready", "failed", "closed"}
         /\ timer' \in BOOLEAN
         /\ stage' \in {"up", "flushing", "closing", "closed", "exited"}
         /\ awaited' \in Flights \union {NoFlight}
<1>1. <<>> \in Seq(1..logged)
  OBVIOUS
<1>2. stage' \in {stage, "closing"} /\ awaited' \in {awaited, NoFlight}
  BY DEF FlushEnds
<1>3. QED
  BY <1>1, <1>2 DEF FlushEnds, TypeOK

\* A failed send inserts some of its own batch.
LEMMA InsertedAnywayInBatch ==
  ASSUME NEW f \in Flights, NEW D \in InsertedAnyway(f)
  PROVE  D \subseteq Elems(inflight[f])
BY DEF InsertedAnyway

\* An attempt that fails leaves everything but the rows where it is.
LEMMA AttemptFrame ==
  ASSUME NEW f \in Flights, attemptFails(f)
  PROVE  /\ logged' = logged /\ buffer' = buffer /\ flushing' = flushing
         /\ inflight' = inflight /\ stage' = stage /\ gone' = gone
BY DEF attemptFails, memory, lifecycle

LEMMA TypeStep == TypeOK /\ [Next]_vars => TypeOK'
<1> SUFFICES ASSUME TypeOK, [Next]_vars PROVE TypeOK'
  OBVIOUS
<1> USE DEF TypeOK
<1>1. CASE log
  <2>1. logged' = logged + 1 /\ logged' \in 0..MaxEntries
    BY <1>1, ConstantsAssumption DEF log
  <2>2. Seq(1..logged) \subseteq Seq(1..logged')
    BY <2>1
  <2>3. Append(buffer, logged + 1) \in Seq(1..logged') /\ <<>> \in Seq(1..logged')
    BY <2>1, <2>2
  <2>4. /\ buffer' \in {Append(buffer, logged + 1), <<>>}
        /\ flushing' \in BOOLEAN
        /\ \/ inflight' = inflight
           \/ \E f \in Flights :
                inflight' = [inflight EXCEPT ![f] = Append(buffer, logged + 1)]
    BY <1>1 DEF log, flush, flushReturns, startSend
  <2>5. inflight' \in [Flights -> Seq(1..logged')]
    BY <2>2, <2>3, <2>4
  <2>6. UNCHANGED <<lifecycle, table>> /\ 1..logged \subseteq 1..logged'
    BY <1>1, <2>1 DEF log
  <2>7. QED
    BY <2>1, <2>3, <2>4, <2>5, <2>6 DEF lifecycle, table
<1>2. CASE tick
  <2>1. PICK f \in Flights : startSend(buffer, f)
    BY <1>2 DEF tick, flush
  <2>2. <<>> \in Seq(1..logged)
    OBVIOUS
  <2>3. QED
    BY <1>2, <2>1, <2>2 DEF tick, startSend, lifecycle, table
<1>3. ASSUME NEW f \in Flights, sendReturns(f) PROVE TypeOK'
  <2>1. FlushEnds(f) /\ Insert(Elems(inflight[f])) /\ UNCHANGED <<buffer, doubtful, gone>>
    BY <1>3 DEF sendReturns
  <2>2. Elems(inflight[f]) \subseteq 1..logged
    BY ElemsIn
  <2>3. QED
    BY <2>1, <2>2, FlushEndsTypes, InsertTypes
<1>4. ASSUME NEW f \in Flights, sendFails(f) PROVE TypeOK'
  <2>1. PICK D \in InsertedAnyway(f) : Insert(D) /\ doubtful' = doubtful \union D
    BY <1>4 DEF sendFails
  <2>2. FlushEnds(f)
    BY <1>4 DEF sendFails
  <2>3. Elems(inflight[f]) \subseteq 1..logged /\ D \subseteq 1..logged
    BY ElemsIn, InsertedAnywayInBatch
  <2>4. inflight[f] \o buffer \in Seq(1..logged)
    OBVIOUS
  <2>5. buffer' \in Seq(1..logged) /\ gone' \subseteq 1..logged
    BY <1>4, <2>3, <2>4 DEF sendFails
  <2>6. QED
    BY <2>1, <2>2, <2>3, <2>5, FlushEndsTypes, InsertTypes
<1>5. CASE clientLoads
  BY <1>5 DEF clientLoads, memory, table
<1>6. CASE clientLoadFails
  BY <1>6 DEF clientLoadFails, memory, table
<1>7. CASE shutdownClickHouse
  <2>1. /\ timer' = FALSE
        /\ stage' \in {"flushing", "closing"}
        /\ UNCHANGED <<logged, mode, client, table>>
    BY <1>7 DEF shutdownClickHouse
  <2>2. /\ buffer' \in Seq(1..logged)
        /\ inflight' \in [Flights -> Seq(1..logged)]
        /\ flushing' \in BOOLEAN
        /\ awaited' \in Flights \union {NoFlight}
    <3>1. CASE UNCHANGED <<buffer, inflight, awaited>> /\ flushing' = FALSE
      BY <3>1
    <3>2. CASE \E f \in Flights : startSend(buffer, f) /\ awaited' = f
      <4>1. <<>> \in Seq(1..logged)
        OBVIOUS
      <4>2. QED
        BY <3>2, <4>1 DEF startSend
    <3>3. QED
      BY <1>7, <3>1, <3>2 DEF shutdownClickHouse
  <2>3. QED
    BY <2>1, <2>2 DEF table
<1>8. CASE closeClient
  BY <1>8 DEF closeClient, memory, table
<1>9. CASE ProcessEnds
  <2>1. PICK D \in SUBSET Sent : Insert(D) /\ doubtful' = doubtful \union D
    BY <1>9 DEF ProcessEnds
  <2>2. D \subseteq 1..logged /\ Elems(buffer) \union Sent \subseteq 1..logged
    BY MemoryTypes DEF Open
  <2>3. gone' \subseteq 1..logged /\ logged' = logged
    BY <1>9, <2>2 DEF ProcessEnds
  <2>4. <<>> \in Seq(1..logged)
    OBVIOUS
  <2>5. /\ buffer' \in Seq(1..logged)
        /\ inflight' \in [Flights -> Seq(1..logged)]
    BY <1>9, <2>4 DEF ProcessEnds
  <2>6. QED
    BY <1>9, <2>1, <2>2, <2>3, <2>5, InsertTypes DEF ProcessEnds
<1>10. ASSUME NEW f \in Flights, attemptFails(f) PROVE TypeOK'
  <2>1. PICK D \in SUBSET Elems(inflight[f]) : Insert(D) /\ doubtful' = doubtful \union D
    BY <1>10 DEF attemptFails
  <2>2. D \subseteq 1..logged /\ UNCHANGED <<logged, memory, lifecycle, gone>>
    BY <1>10, ElemsIn DEF attemptFails
  <2>3. QED
    BY <2>1, <2>2, InsertTypes DEF memory, lifecycle
<1>11. CASE UNCHANGED vars
  BY <1>11 DEF vars, memory, lifecycle, table
<1>12. QED
  BY <1>1, <1>2, <1>3, <1>4, <1>5, <1>6, <1>7, <1>8, <1>9, <1>10, <1>11 DEF Next, exit, kill

LEMMA TypeInit == Init => TypeOK
<1> SUFFICES ASSUME Init PROVE TypeOK
  OBVIOUS
<1>1. <<>> \in Seq(1..logged)
  OBVIOUS
<1>2. buffer \in Seq(1..logged) /\ inflight \in [Flights -> Seq(1..logged)]
  BY <1>1 DEF Init
<1>3. logged \in 0..MaxEntries
  BY ConstantsAssumption DEF Init
<1>4. /\ rows \subseteq 1..logged /\ doubled \subseteq 1..logged
      /\ doubtful \subseteq 1..logged /\ gone \subseteq 1..logged
  BY DEF Init
<1>5. QED
  BY <1>2, <1>3, <1>4 DEF Init, TypeOK

\* Buffer and batches hold logged entries and the flags are the code's.
THEOREM TypeCorrect == Spec => []TypeOK
BY TypeInit, TypeStep, PTL DEF Spec

-------------------------------------------------------------------------------
\* The steps as far as the buffer and the batches are concerned: which entries
\* move, by what the slots hold before and after.

\* Only slot f changes, to the batch b.
Slot(f, b) == inflight' = [inflight EXCEPT ![f] = b]

LEMMA SlotValues ==
  ASSUME TypeOK, NEW f \in Flights, NEW b, Slot(f, b)
  PROVE  inflight'[f] = b /\ \A g \in Flights \ {f} : inflight'[g] = inflight[g]
BY DEF Slot, TypeOK

\* A batch with no entry in common with the others may be sent.
LEMMA StartDisjoint ==
  ASSUME TypeOK, BatchesDisjoint, NEW f \in Flights, NEW b, startSend(b, f),
         \A g \in Flights : Elems(b) \intersect Elems(inflight[g]) = {}
  PROVE  BatchesDisjoint'
<1>1. inflight'[f] = b /\ \A g \in Flights \ {f} : inflight'[g] = inflight[g]
  BY SlotValues DEF startSend, Slot
<1>2. Elems(buffer') = {}
  BY ElemsEmpty DEF startSend
<1>3. ASSUME NEW g \in Flights, NEW h \in Flights, g # h
      PROVE  Elems(inflight'[g]) \intersect Elems(inflight'[h]) = {}
  BY <1>1, <1>3 DEF BatchesDisjoint
<1>4. QED
  BY <1>2, <1>3 DEF BatchesDisjoint

\* The batch of a free slot is empty.
LEMMA FreeSlot ==
  ASSUME NEW f \in Flights, ~Busy(f)
  PROVE  inflight[f] = <<>> /\ Elems(inflight[f]) = {}
BY ElemsEmpty DEF Busy

LEMMA DisjointStep == TypeOK /\ BatchesDisjoint /\ [Next]_vars => BatchesDisjoint'
<1> SUFFICES ASSUME TypeOK, BatchesDisjoint, [Next]_vars PROVE BatchesDisjoint'
  OBVIOUS
<1>1. CASE log
  <2> DEFINE b == Append(buffer, logged + 1)
  <2>1. Elems(b) = Elems(buffer) \union {logged + 1}
    BY ElemsAppend DEF TypeOK
  <2>2. \A g \in Flights : logged + 1 \notin Elems(inflight[g])
    <3>1. \A g \in Flights : Elems(inflight[g]) \subseteq 1..logged
      BY ElemsIn DEF TypeOK
    <3>2. logged + 1 \notin 1..logged
      BY DEF TypeOK
    <3>3. QED
      BY <3>1, <3>2
  <2>3. \A g \in Flights : Elems(b) \intersect Elems(inflight[g]) = {}
    BY <2>1, <2>2 DEF BatchesDisjoint
  <2>4. CASE buffer' = b /\ inflight' = inflight
    BY <2>3, <2>4 DEF BatchesDisjoint
  <2>5. CASE \E f \in Flights : startSend(b, f)
    BY <2>3, <2>5, StartDisjoint
  <2>6. QED
    BY <1>1, <2>4, <2>5 DEF log, flush, flushReturns
<1>2. CASE tick
  <2>1. PICK f \in Flights : startSend(buffer, f)
    BY <1>2 DEF tick, flush
  <2>2. QED
    BY <2>1, StartDisjoint DEF BatchesDisjoint
<1>3. ASSUME NEW f \in Flights, sendReturns(f) PROVE BatchesDisjoint'
  <2>1. inflight'[f] = <<>> /\ \A g \in Flights \ {f} : inflight'[g] = inflight[g]
    BY <1>3, SlotValues DEF sendReturns, FlushEnds, Slot
  <2>2. buffer' = buffer
    BY <1>3 DEF sendReturns
  <2>3. QED
    BY <2>1, <2>2, ElemsEmpty DEF BatchesDisjoint
<1>4. ASSUME NEW f \in Flights, sendFails(f) PROVE BatchesDisjoint'
  <2>1. inflight'[f] = <<>> /\ \A g \in Flights \ {f} : inflight'[g] = inflight[g]
    BY <1>4, SlotValues DEF sendFails, FlushEnds, Slot
  <2>2. Elems(inflight[f] \o buffer) = Elems(inflight[f]) \union Elems(buffer)
    BY ElemsConcat DEF TypeOK
  <2>3. buffer' = buffer \/ buffer' = inflight[f] \o buffer
    BY <1>4 DEF sendFails
  <2>4. QED
    BY <2>1, <2>2, <2>3, ElemsEmpty DEF BatchesDisjoint
<1>5. CASE shutdownClickHouse
  <2>1. CASE \E f \in Flights : startSend(buffer, f)
    BY <2>1, StartDisjoint DEF BatchesDisjoint
  <2>2. CASE UNCHANGED <<buffer, inflight>>
    BY <2>2 DEF BatchesDisjoint
  <2>3. QED
    BY <1>5, <2>1, <2>2 DEF shutdownClickHouse
<1>6. CASE ProcessEnds
  <2>1. buffer' = <<>> /\ \A f \in Flights : inflight'[f] = <<>>
    BY <1>6 DEF ProcessEnds
  <2>2. QED
    BY <2>1, ElemsEmpty DEF BatchesDisjoint
<1>7. CASE UNCHANGED <<buffer, inflight>>
  BY <1>7 DEF BatchesDisjoint
<1>8. ASSUME NEW f \in Flights, attemptFails(f) PROVE BatchesDisjoint'
  BY <1>7, <1>8, AttemptFrame
<1>9. QED
  BY <1>1, <1>2, <1>3, <1>4, <1>5, <1>6, <1>7, <1>8 DEF Next, exit, kill, clientLoads,
     clientLoadFails, closeClient, memory, vars

-------------------------------------------------------------------------------
\* The flag.

LEMMA DisciplineStep == TypeOK /\ SendDiscipline /\ [Next]_vars => SendDiscipline'
<1> SUFFICES ASSUME TypeOK, SendDiscipline, [Next]_vars PROVE SendDiscipline'
  OBVIOUS
\* A send starts when at most one is in progress, and while the process is up
\* when none is.
<1>1. ASSUME NEW f \in Flights, NEW b, startSend(b, f), b # <<>>,
             ~flushing \/ stage = "up",
             stage' = "up" => stage = "up" /\ ~flushing
      PROVE  SendDiscipline'
  <2>1. inflight'[f] = b /\ \A g \in Flights \ {f} : inflight'[g] = inflight[g]
    BY <1>1, SlotValues DEF startSend, Slot
  <2>2. \A g \in Flights : (inflight'[g] # <<>>) <=> (g = f \/ Busy(g))
    BY <1>1, <2>1 DEF Busy
  <2>3. flushing' = TRUE
    BY <1>1 DEF startSend
  <2>4. \A g, h \in Flights : Busy(g) /\ Busy(h) => g = h
    BY <1>1 DEF SendDiscipline
  <2>5. stage' = "up" => \A g \in Flights : ~Busy(g)
    BY <1>1 DEF SendDiscipline
  <2>6. QED
    BY <2>2, <2>3, <2>4, <2>5 DEF SendDiscipline, Busy
\* A send that ends leaves at most one.
<1>2. ASSUME NEW f \in Flights, FlushEnds(f), Busy(f) PROVE SendDiscipline'
  <2>1. inflight'[f] = <<>> /\ \A g \in Flights \ {f} : inflight'[g] = inflight[g]
    BY <1>2, SlotValues DEF FlushEnds, Slot
  <2>2. \A g \in Flights : (inflight'[g] # <<>>) <=> (g # f /\ Busy(g))
    BY <2>1 DEF Busy
  <2>3. flushing' = FALSE /\ (stage' = "up" => stage = "up")
    BY <1>2 DEF FlushEnds
  <2>4. \A g, h \in Flights : g # f /\ h # f /\ Busy(g) /\ Busy(h) => g = h
    BY <1>2 DEF SendDiscipline
  <2>5. stage = "up" => \A g \in Flights : Busy(g) => g = f
    BY <1>2 DEF SendDiscipline
  <2>6. QED
    BY <2>2, <2>3, <2>4, <2>5 DEF SendDiscipline, Busy
<1>3. CASE log
  <2> DEFINE b == Append(buffer, logged + 1)
  <2>1. stage' = stage
    BY <1>3 DEF log, lifecycle
  <2>2. CASE UNCHANGED <<inflight, flushing>>
    BY <2>1, <2>2 DEF SendDiscipline, Busy
  <2>3. CASE \E f \in Flights : flush(b, f)
    <3>1. PICK f \in Flights : flush(b, f)
      BY <2>3
    <3>2. startSend(b, f) /\ b # <<>> /\ ~flushing
      BY <3>1 DEF flush, flushSends
    <3>3. QED
      BY <1>1, <2>1, <3>2
  <2>4. QED
    BY <1>3, <2>2, <2>3 DEF log, flushReturns
<1>4. CASE tick
  <2>1. PICK f \in Flights : flush(buffer, f)
    BY <1>4 DEF tick
  <2>2. startSend(buffer, f) /\ buffer # <<>> /\ ~flushing /\ stage' = stage
    BY <1>4, <2>1 DEF flush, flushSends, tick, lifecycle
  <2>3. QED
    BY <1>1, <2>2
<1>5. CASE shutdownClickHouse
  <2>1. stage = "up" /\ stage' # "up"
    BY <1>5 DEF shutdownClickHouse
  <2>2. CASE buffer # <<>> /\ \E f \in Flights : startSend(buffer, f)
    BY <1>1, <2>1, <2>2
  <2>3. CASE UNCHANGED inflight /\ flushing' = FALSE
    BY <2>1, <2>3 DEF SendDiscipline, Busy
  <2>4. QED
    BY <1>5, <2>2, <2>3 DEF shutdownClickHouse
<1>6. CASE ProcessEnds
  <2>1. flushing' = FALSE /\ \A f \in Flights : inflight'[f] = <<>>
    BY <1>6 DEF ProcessEnds
  <2>2. QED
    BY <2>1 DEF SendDiscipline, Busy
<1>7. CASE UNCHANGED <<inflight, flushing>> /\ (stage' = "up" => stage = "up")
  BY <1>7 DEF SendDiscipline, Busy
<1>8. ASSUME NEW f \in Flights, sendReturns(f) \/ sendFails(f) PROVE SendDiscipline'
  BY <1>2, <1>8 DEF sendReturns, sendFails
<1>9. CASE clientLoads \/ clientLoadFails \/ closeClient
  BY <1>7, <1>9 DEF clientLoads, clientLoadFails, closeClient, memory
<1>10. ASSUME NEW f \in Flights, attemptFails(f) PROVE SendDiscipline'
  BY <1>7, <1>10, AttemptFrame
<1>11. CASE UNCHANGED vars
  BY <1>7, <1>11 DEF vars, memory, lifecycle
<1>12. QED
  BY <1>3, <1>4, <1>5, <1>6, <1>8, <1>9, <1>10, <1>11 DEF Next, exit, kill

-------------------------------------------------------------------------------
\* The order.

LEMMA EmptyConcat ==
  ASSUME NEW S, NEW s \in Seq(S)
  PROVE  <<>> \o s = s /\ s \o <<>> = s
OBVIOUS

LEMMA ConcatAppend ==
  ASSUME NEW S, NEW s \in Seq(S), NEW t \in Seq(S), NEW x
  PROVE  s \o Append(t, x) = Append(s \o t, x)
<1>1. s \in Seq(S \union {x}) /\ t \in Seq(S \union {x}) /\ x \in S \union {x}
  OBVIOUS
<1>2. QED
  BY <1>1

LEMMA OrderStep == IInv /\ [Next]_vars => InLogOrder'
<1> SUFFICES ASSUME TypeOK, SendDiscipline, InLogOrder, [Next]_vars, stage' = "up"
             PROVE  \A f \in Flights : Increasing(inflight'[f] \o buffer')
  BY DEF IInv, InLogOrder
<1>a. Increasing(<<>>)
  BY DEF Increasing
\* With the process up, the slots are free but one, and all are when the flag is
\* clear.
<1>b. ASSUME stage = "up", ~flushing, NEW f \in Flights, NEW b \in Seq(1..logged'),
             startSend(b, f), Increasing(b), logged' \in Nat
      PROVE  \A g \in Flights : Increasing(inflight'[g] \o buffer')
  <2>1. inflight'[f] = b /\ \A g \in Flights \ {f} : inflight'[g] = inflight[g]
    BY <1>b, SlotValues DEF startSend, Slot
  <2>2. \A g \in Flights \ {f} : inflight'[g] = <<>>
    BY <1>b, <2>1 DEF SendDiscipline, Busy
  <2>3. buffer' = <<>>
    BY <1>b DEF startSend
  <2>4. b \o <<>> = b /\ <<>> \o <<>> = <<>>
    BY <1>b, EmptyConcat
  <2>5. QED
    BY <1>a, <1>b, <2>1, <2>2, <2>3, <2>4
<1>c. ASSUME stage = "up", NEW f \in Flights, Busy(f), FlushEnds(f),
             Increasing(buffer'), buffer' \in Seq(1..logged)
      PROVE  \A g \in Flights : Increasing(inflight'[g] \o buffer')
  <2>1. inflight'[f] = <<>> /\ \A g \in Flights \ {f} : inflight'[g] = inflight[g]
    BY <1>c, SlotValues DEF FlushEnds, Slot
  <2>2. \A g \in Flights : inflight'[g] = <<>>
    BY <1>c, <2>1 DEF SendDiscipline, Busy
  <2>3. <<>> \o buffer' = buffer'
    BY <1>c, EmptyConcat
  <2>4. QED
    BY <1>c, <2>2, <2>3
<1>1. CASE log
  <2> DEFINE b == Append(buffer, logged + 1)
  <2>1. stage = "up" /\ logged' = logged + 1 /\ logged \in Nat /\ logged' \in Nat
    BY <1>1, ConstantsAssumption DEF log, lifecycle, TypeOK
  <2>2. Seq(1..logged) \subseteq Seq(1..logged')
    BY <2>1
  <2>3. b \in Seq(1..logged')
    BY <2>1, <2>2 DEF TypeOK
  <2>4. ASSUME NEW f \in Flights PROVE Increasing(inflight[f] \o b)
    <3>1. Increasing(inflight[f] \o buffer)
      BY <2>1 DEF InLogOrder
    <3>2. inflight[f] \o buffer \in Seq(1..logged)
      BY DEF TypeOK
    <3>3. inflight[f] \o b = Append(inflight[f] \o buffer, logged + 1)
      BY ConcatAppend DEF TypeOK
    <3>4. QED
      BY <2>1, <3>1, <3>2, <3>3, IncreasingAppend
  <2>5. CASE buffer' = b /\ inflight' = inflight
    BY <2>4, <2>5
  <2>6. CASE \E f \in Flights : flush(b, f)
    <3>1. PICK f \in Flights : flush(b, f)
      BY <2>6
    <3>2. startSend(b, f) /\ ~flushing
      BY <3>1 DEF flush, flushSends
    <3>3. Increasing(b)
      <4>1. inflight[f] = <<>>
        BY <3>2 DEF startSend, Busy
      <4>2. <<>> \o b = b
        BY <2>3, EmptyConcat
      <4>3. QED
        BY <2>4, <4>1, <4>2
    <3>4. QED
      BY <1>b, <2>1, <2>3, <3>2, <3>3
  <2>7. QED
    BY <1>1, <2>5, <2>6 DEF log, flushReturns
<1>2. CASE tick
  <2>1. PICK f \in Flights : flush(buffer, f)
    BY <1>2 DEF tick
  <2>2. startSend(buffer, f) /\ ~flushing /\ stage = "up" /\ logged' = logged
    BY <1>2, <2>1 DEF flush, flushSends, tick, lifecycle
  <2>3. Increasing(buffer)
    <3>1. inflight[f] = <<>>
      BY <2>2 DEF startSend, Busy
    <3>2. <<>> \o buffer = buffer
      BY EmptyConcat DEF TypeOK
    <3>3. QED
      BY <2>2, <3>1, <3>2 DEF InLogOrder
  <2>4. QED
    BY <1>b, <2>2, <2>3, ConstantsAssumption DEF TypeOK
<1>3. ASSUME NEW f \in Flights, sendReturns(f)
      PROVE  \A g \in Flights : Increasing(inflight'[g] \o buffer')
  <2>1. Busy(f) /\ FlushEnds(f) /\ buffer' = buffer /\ stage = "up"
    BY <1>3 DEF sendReturns, FlushEnds
  <2>2. Increasing(inflight[f] \o buffer) /\ logged \in Nat
    BY <2>1, ConstantsAssumption DEF InLogOrder, TypeOK
  <2>3. Increasing(buffer)
    BY <2>2, IncreasingSuffix DEF TypeOK
  <2>4. QED
    BY <1>c, <2>1, <2>3 DEF TypeOK
<1>4. ASSUME NEW f \in Flights, sendFails(f)
      PROVE  \A g \in Flights : Increasing(inflight'[g] \o buffer')
  <2>1. Busy(f) /\ FlushEnds(f) /\ stage = "up"
    BY <1>4 DEF sendFails, FlushEnds
  <2>2. Increasing(inflight[f] \o buffer) /\ logged \in Nat
    BY <2>1, ConstantsAssumption DEF InLogOrder, TypeOK
  <2>3. Increasing(buffer) /\ inflight[f] \o buffer \in Seq(1..logged)
    BY <2>2, IncreasingSuffix DEF TypeOK
  <2>4. buffer' \in {buffer, inflight[f] \o buffer}
    BY <1>4 DEF sendFails
  <2>5. QED
    BY <1>c, <2>1, <2>2, <2>3, <2>4 DEF TypeOK
<1>5. CASE shutdownClickHouse
  BY <1>5 DEF shutdownClickHouse
<1>6. CASE ProcessEnds
  BY <1>6 DEF ProcessEnds
<1>7. CASE UNCHANGED <<buffer, inflight, stage>>
  BY <1>7 DEF InLogOrder
<1>8. CASE closeClient
  BY <1>8 DEF closeClient
<1>9. ASSUME NEW f \in Flights, attemptFails(f)
      PROVE  \A g \in Flights : Increasing(inflight'[g] \o buffer')
  BY <1>7, <1>9, AttemptFrame
<1>10. QED
  BY <1>1, <1>2, <1>3, <1>4, <1>5, <1>6, <1>7, <1>8, <1>9 DEF Next, exit, kill, clientLoads,
     clientLoadFails, memory, vars, lifecycle

-------------------------------------------------------------------------------
\* The invariant, and what the runs check of it.

\* Every step keeps the flag honest, the batches apart and the order.
THEOREM ShipperInvariant == Spec => []IInv
<1>1. Init => IInv
  <2> SUFFICES ASSUME Init PROVE IInv
    OBVIOUS
  <2>1. buffer = <<>> /\ \A f \in Flights : inflight[f] = <<>>
    BY DEF Init
  <2>2. BatchesDisjoint
    BY <2>1, ElemsEmpty DEF BatchesDisjoint
  <2>3. InLogOrder
    <3>1. <<>> \o <<>> = <<>>
      OBVIOUS
    <3>2. Increasing(<<>>)
      BY DEF Increasing
    <3>3. QED
      BY <2>1, <3>1, <3>2 DEF InLogOrder
  <2>4. SendDiscipline
    BY <2>1 DEF Init, SendDiscipline, Busy
  <2>5. QED
    BY <2>2, <2>3, <2>4, TypeInit DEF IInv
<1>2. IInv /\ [Next]_vars => IInv'
  BY TypeStep, DisjointStep, DisciplineStep, OrderStep DEF IInv
<1>3. QED
  BY <1>1, <1>2, PTL DEF Spec

\* The flag keeps sends apart while the process is up, allows at most two at the
\* end, and is never stuck.
THEOREM Discipline == Spec => []SendDiscipline
<1>1. IInv => SendDiscipline
  BY DEF IInv
<1>2. QED
  BY <1>1, ShipperInvariant, PTL

\* No entry is ever in two places in memory.
THEOREM Disjointness == Spec => []BatchesDisjoint
<1>1. IInv => BatchesDisjoint
  BY DEF IInv
<1>2. QED
  BY <1>1, ShipperInvariant, PTL

\* No failure reorders the entries while the process is up.
THEOREM LogOrder == Spec => []InLogOrder
<1>1. IInv => InLogOrder
  BY DEF IInv
<1>2. QED
  BY <1>1, ShipperInvariant, PTL

-------------------------------------------------------------------------------
\* The refinement: what a step does to the set of open entries.

LEMMA StartKeepsSent ==
  ASSUME TypeOK, NEW f \in Flights, NEW b, startSend(b, f)
  PROVE  Open' = Elems(b) \union Sent
<1>1. inflight'[f] = b /\ \A g \in Flights \ {f} : inflight'[g] = inflight[g]
  BY SlotValues DEF startSend, Slot
<1>2. Elems(inflight[f]) = {}
  BY FreeSlot DEF startSend
<1>3. Elems(buffer') = {}
  BY ElemsEmpty DEF startSend
<1>4. Sent' = UNION {Elems(inflight'[g]) : g \in Flights}
  BY DEF Sent
<1>5. ASSUME NEW e, e \in Sent' PROVE e \in Elems(b) \union Sent
  <2>1. PICK g \in Flights : e \in Elems(inflight'[g])
    BY <1>4, <1>5
  <2>2. QED
    BY <1>1, <2>1 DEF Sent
<1>6. ASSUME NEW e, e \in Elems(b) \union Sent PROVE e \in Sent'
  <2>1. CASE e \in Elems(b)
    BY <1>1, <1>4, <2>1
  <2>2. CASE e \in Sent
    <3>1. PICK g \in Flights : e \in Elems(inflight[g])
      BY <2>2 DEF Sent
    <3>2. g # f
      BY <1>2, <3>1
    <3>3. QED
      BY <1>1, <1>4, <3>1, <3>2
  <2>3. QED
    BY <1>6, <2>1, <2>2
<1>7. Sent' = Elems(b) \union Sent
  BY <1>5, <1>6
<1>8. Open' = Elems(buffer') \union Sent'
  BY DEF Open
<1>9. QED
  BY <1>3, <1>7, <1>8

LEMMA EndsLeavesSent ==
  ASSUME TypeOK, BatchesDisjoint, NEW f \in Flights, FlushEnds(f)
  PROVE  /\ Sent' = Sent \ Elems(inflight[f])
         /\ Elems(inflight[f]) \subseteq Open
         /\ Elems(buffer) \intersect Elems(inflight[f]) = {}
<1>1. inflight'[f] = <<>> /\ \A g \in Flights \ {f} : inflight'[g] = inflight[g]
  BY SlotValues DEF FlushEnds, Slot
<1>2. Elems(inflight'[f]) = {}
  BY <1>1, ElemsEmpty
<1>3. Sent' = UNION {Elems(inflight'[g]) : g \in Flights}
  BY DEF Sent
<1>4. ASSUME NEW e, e \in Sent' PROVE e \in Sent /\ e \notin Elems(inflight[f])
  <2>1. PICK g \in Flights : e \in Elems(inflight'[g])
    BY <1>3, <1>4
  <2>2. g # f
    BY <1>2, <2>1
  <2>3. QED
    BY <1>1, <2>1, <2>2 DEF Sent, BatchesDisjoint
<1>5. ASSUME NEW e, e \in Sent, e \notin Elems(inflight[f]) PROVE e \in Sent'
  <2>1. PICK g \in Flights : e \in Elems(inflight[g])
    BY <1>5 DEF Sent
  <2>2. g # f
    BY <1>5, <2>1
  <2>3. QED
    BY <1>1, <1>3, <2>1, <2>2
<1>6. Sent' = Sent \ Elems(inflight[f])
  BY <1>4, <1>5
<1>7. QED
  BY <1>6 DEF Open, Sent, BatchesDisjoint

LEMMA RefinementInit == Init => Audit!Init
<1> SUFFICES ASSUME Init PROVE Audit!Init
  OBVIOUS
<1>1. Elems(buffer) = {}
  BY ElemsEmpty DEF Init
<1>2. \A f \in Flights : Elems(inflight[f]) = {}
  BY ElemsEmpty DEF Init
<1>3. Open = {}
  BY <1>1, <1>2 DEF Open, Sent
<1>4. 1..logged = {}
  BY DEF Init
<1>5. QED
  BY <1>3, <1>4 DEF Init, Audit!Init

\* log() is an Accept, a send acknowledged a Settle, a failed send and the end of
\* the process a Fail; every other step leaves the abstract log alone.
LEMMA RefinementStep == IInv /\ [Next]_vars => [Audit!Next]_(Audit!vars)
<1> SUFFICES ASSUME TypeOK, BatchesDisjoint, [Next]_vars
             PROVE  Audit!Next \/ UNCHANGED Audit!vars
  BY DEF IInv
\* Sends start without a trace.
<1>a. ASSUME NEW f \in Flights, startSend(buffer, f), logged' = logged, UNCHANGED table
      PROVE  UNCHANGED Audit!vars
  <2>1. Open' = Open
    BY <1>a, StartKeepsSent DEF Open
  <2>2. QED
    BY <1>a, <2>1 DEF table, Audit!vars
<1>b. ASSUME UNCHANGED <<logged, buffer, inflight, table>> PROVE UNCHANGED Audit!vars
  <2>1. Open' = Open
    BY <1>b DEF Open, Sent
  <2>2. QED
    BY <1>b, <2>1 DEF table, Audit!vars
<1>1. CASE log
  <2> DEFINE b == Append(buffer, logged + 1)
  <2>1. Elems(b) = Elems(buffer) \union {logged + 1}
    BY ElemsAppend DEF TypeOK
  <2>2. Open' = Open \union {logged + 1}
    <3>1. CASE buffer' = b /\ inflight' = inflight
      BY <2>1, <3>1 DEF Open, Sent
    <3>2. CASE \E f \in Flights : startSend(b, f)
      BY <2>1, <3>2, StartKeepsSent DEF Open
    <3>3. QED
      BY <1>1, <3>1, <3>2 DEF log, flush, flushReturns
  <2>3. /\ logged + 1 \in 1..MaxEntries
        /\ logged + 1 \notin 1..logged
        /\ 1..logged' = (1..logged) \union {logged + 1}
    BY <1>1, ConstantsAssumption DEF log, TypeOK
  <2>4. UNCHANGED <<rows, doubled, doubtful, gone>>
    BY <1>1 DEF log, table
  <2>5. Audit!Accept(logged + 1)
    BY <2>2, <2>3, <2>4 DEF Audit!Accept
  <2>6. QED
    BY <2>3, <2>5 DEF Audit!Next
<1>2. CASE tick
  <2>1. PICK f \in Flights : startSend(buffer, f)
    BY <1>2 DEF tick, flush
  <2>2. QED
    BY <1>2, <1>a, <2>1 DEF tick
<1>3. ASSUME NEW f \in Flights, sendReturns(f) PROVE Audit!Next
  <2> DEFINE S == Elems(inflight[f])
  <2>1. FlushEnds(f) /\ Insert(S) /\ UNCHANGED <<buffer, doubtful, gone>> /\ logged' = logged
    BY <1>3 DEF sendReturns, FlushEnds
  <2>2. S \subseteq Open /\ Open' = Open \ S
    <3>1. Open' = Elems(buffer') \union Sent'
      BY DEF Open
    <3>2. QED
      BY <2>1, <3>1, EndsLeavesSent DEF Open
  <2>3. Audit!Settle(S)
    BY <2>1, <2>2 DEF Audit!Settle, Audit!Insert, Insert
  <2>4. QED
    BY <2>2, <2>3 DEF Audit!Next
<1>4. ASSUME NEW f \in Flights, sendFails(f) PROVE Audit!Next
  <2> DEFINE S == Elems(inflight[f])
  <2>1. PICK D \in InsertedAnyway(f) : Insert(D) /\ doubtful' = doubtful \union D
    BY <1>4 DEF sendFails
  <2>2. FlushEnds(f) /\ logged' = logged
    BY <1>4 DEF sendFails, FlushEnds
  <2>3. D \subseteq S /\ S \subseteq Open /\ Sent' = Sent \ S /\ S \subseteq Sent
    BY <2>2, InsertedAnywayInBatch, EndsLeavesSent DEF Sent
  <2>4. Open' = Elems(buffer') \union Sent'
    BY DEF Open
  <2>5. CASE buffer' = inflight[f] \o buffer /\ gone' = gone
    <3>1. Elems(buffer') = S \union Elems(buffer)
      BY <2>5, ElemsConcat DEF TypeOK
    <3>2. Open' = Open \ {} /\ gone' = gone \union {}
      BY <2>3, <2>4, <2>5, <3>1 DEF Open
    <3>3. Audit!Fail(D, {})
      BY <2>1, <2>2, <3>2 DEF Audit!Fail, Audit!Insert, Insert
    <3>4. QED
      BY <2>3, <3>3 DEF Audit!Next
  <2>6. CASE buffer' = buffer /\ gone' = gone \union S
    <3>1. Open' = Open \ S
      BY <2>2, <2>3, <2>4, <2>6, EndsLeavesSent DEF Open
    <3>2. Audit!Fail(D, S)
      BY <2>1, <2>2, <2>6, <3>1 DEF Audit!Fail, Audit!Insert, Insert
    <3>3. QED
      BY <2>3, <3>2 DEF Audit!Next
  <2>7. QED
    BY <1>4, <2>5, <2>6 DEF sendFails
<1>5. CASE shutdownClickHouse
  <2>1. logged' = logged /\ UNCHANGED table
    BY <1>5 DEF shutdownClickHouse
  <2>2. QED
    BY <1>5, <1>a, <1>b, <2>1 DEF shutdownClickHouse
<1>6. CASE ProcessEnds
  <2>1. PICK D \in SUBSET Sent : Insert(D) /\ doubtful' = doubtful \union D
    BY <1>6 DEF ProcessEnds
  <2>2. gone' = gone \union Open /\ logged' = logged
    BY <1>6 DEF ProcessEnds, Open
  <2>3. Elems(buffer') = {} /\ \A f \in Flights : Elems(inflight'[f]) = {}
    BY <1>6, ElemsEmpty DEF ProcessEnds
  <2>4. Open' = Open \ Open
    <3>1. Sent' = {}
      BY <2>3 DEF Sent
    <3>2. Open' = Elems(buffer') \union Sent'
      BY DEF Open
    <3>3. QED
      BY <2>3, <3>1, <3>2
  <2>5. Audit!Fail(D, Open)
    BY <2>1, <2>2, <2>4 DEF Audit!Fail, Audit!Insert, Insert
  <2>6. D \subseteq Open
    BY DEF Open
  <2>7. QED
    BY <2>5, <2>6 DEF Audit!Next
<1>7. CASE clientLoads \/ clientLoadFails \/ closeClient \/ UNCHANGED vars
  BY <1>7, <1>b DEF clientLoads, clientLoadFails, closeClient, vars, memory
<1>8. ASSUME NEW f \in Flights, attemptFails(f) PROVE Audit!Next
  <2>1. PICK D \in SUBSET Elems(inflight[f]) : Insert(D) /\ doubtful' = doubtful \union D
    BY <1>8 DEF attemptFails
  <2>2. Open' = Open \ {} /\ gone' = gone \union {} /\ logged' = logged
    BY <1>8, AttemptFrame DEF Open, Sent
  <2>3. Audit!Fail(D, {})
    BY <2>1, <2>2 DEF Audit!Fail, Audit!Insert, Insert
  <2>4. D \subseteq Open
    BY DEF Open, Sent
  <2>5. QED
    BY <2>3, <2>4 DEF Audit!Next
<1>9. QED
  BY <1>1, <1>2, <1>3, <1>4, <1>5, <1>6, <1>7, <1>8 DEF Next, exit, kill

\* The shipper implements AuditLog.
THEOREM Refinement == Spec => ImplementsAuditLog
<1>1. QED
  BY RefinementInit, RefinementStep, ShipperInvariant, PTL
     DEF Spec, ImplementsAuditLog, Audit!Spec

\* Every entry is in memory, in the table, or given up.
THEOREM EntriesAccounted == Spec => []EveryEntryAccounted
<1>1. AuditInv => EveryEntryAccounted
  BY DEF AuditInv, EveryEntryAccounted
<1>2. QED
  BY <1>1, Refinement, AuditLogPromises, PTL DEF ImplementsAuditLog

\* Only a send that failed after inserting makes a second row possible.
THEOREM RowsNotDuplicated == Spec => []NoDuplicateRows
<1>1. AuditInv => NoDuplicateRows
  BY DEF AuditInv, NoDuplicateRows
<1>2. QED
  BY <1>1, Refinement, AuditLogPromises, PTL DEF ImplementsAuditLog

===============================================================================
