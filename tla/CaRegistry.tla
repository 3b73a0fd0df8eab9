------------------------------ MODULE CaRegistry ------------------------------
(***************************************************************************)
(* The table ca_certificates and the API operations that write it:         *)
(* generateCa and the upload route (packages/api/src/services/ca.ts,       *)
(* routes/ca.ts) and ensureCaExists at the start of an API process.        *)
(*                                                                         *)
(* Each is a READ COMMITTED transaction: BEGIN, an UPDATE that deactivates *)
(* the active rows, an INSERT, COMMIT.  The UPDATE works on the rows that  *)
(* are committed when it starts, waits for rows another transaction has    *)
(* already updated, and looks at those again before it writes them.        *)
(***************************************************************************)
EXTENDS Naturals, FiniteSets, FiniteSetsExt

CONSTANTS
  Requests,    \* operations in flight, of any number of API processes
  MaxClock     \* bound on the begins and commits

ASSUME ConstantsAssumption == MaxClock \in Nat /\ IsFiniteSet(Requests)

VARIABLES
  clock,       \* the database's clock, one tick per begin and commit
  pc,          \* idle, generate, begun, deactivating or deactivated
  began,       \* when its transaction began: created_at of the row it inserts
  seen,        \* the active rows its UPDATE started with
  locked,      \* the rows it has deactivated but not committed
  active,      \* committed rows with is_active; a row is its created_at
  done,        \* when a row was committed, 0 if it never was
  past         \* history: what readers have found so far

vars == <<clock, pc, began, seen, locked, active, done, past>>

Rows == 1..MaxClock

\* SELECT ... WHERE is_active ORDER BY created_at DESC LIMIT 1, 0 for no row.
Current == IF active = {} THEN 0 ELSE Max(active)

InFlight == {a \in Requests : pc[a] \notin {"idle", "generate"}}

-------------------------------------------------------------------------------
\* ensureCaExists: without an active row it goes on to generate one.
ensureCaExists(a) ==
  /\ pc[a] = "idle"
  /\ active = {}
  /\ pc' = [pc EXCEPT ![a] = "generate"]
  /\ UNCHANGED <<clock, began, seen, locked, active, done, past>>

\* BEGIN: of generateCa or of the upload route, whose transactions are alike.
generateCa(a) ==
  /\ pc[a] \in {"idle", "generate"}
  /\ clock + Cardinality(InFlight) + 2 <= MaxClock
  /\ clock' = clock + 1
  /\ began' = [began EXCEPT ![a] = clock']
  /\ pc' = [pc EXCEPT ![a] = "begun"]
  /\ UNCHANGED <<seen, locked, active, done, past>>

\* The UPDATE starts: its snapshot are the rows committed by now.
deactivate(a) ==
  /\ pc[a] = "begun"
  /\ seen' = [seen EXCEPT ![a] = active]
  /\ pc' = [pc EXCEPT ![a] = "deactivating"]
  /\ UNCHANGED <<clock, began, locked, active, done, past>>

\* Mutant: only the newest row is deactivated.
locksGrantedNewest(a) ==
  /\ pc[a] = "deactivating"
  /\ \A b \in Requests \ {a} : locked[b] \intersect seen[a] = {}
  /\ locked' = [locked EXCEPT ![a] = {r \in seen[a] \intersect active : r = Current}]
  /\ pc' = [pc EXCEPT ![a] = "deactivated"]
  /\ UNCHANGED <<clock, began, seen, active, done, past>>

\* Mutant: the UPDATE is not part of the transaction.
locksGrantedAutocommit(a) ==
  /\ pc[a] = "deactivating"
  /\ \A b \in Requests \ {a} : locked[b] \intersect seen[a] = {}
  /\ active' = active \ seen[a]
  /\ pc' = [pc EXCEPT ![a] = "deactivated"]
  /\ UNCHANGED <<clock, began, seen, locked, done, past>>

\* It gets its row locks once no other transaction holds one of them, and
\* deactivates the rows that are still active then.
locksGranted(a) ==
  /\ pc[a] = "deactivating"
  /\ \A b \in Requests \ {a} : locked[b] \intersect seen[a] = {}
  /\ locked' = [locked EXCEPT ![a] = seen[a] \intersect active]
  /\ pc' = [pc EXCEPT ![a] = "deactivated"]
  /\ UNCHANGED <<clock, began, seen, active, done, past>>

\* Mutant: the connection is released with its transaction still open.
ReleasedOpen(a) ==
  /\ pc' = [pc EXCEPT ![a] = "idle"]
  /\ began' = [began EXCEPT ![a] = 0]
  /\ seen' = [seen EXCEPT ![a] = {}]
  /\ UNCHANGED locked

\* The transaction is over and its connection is free.
Released(a) ==
  /\ pc' = [pc EXCEPT ![a] = "idle"]
  /\ began' = [began EXCEPT ![a] = 0]
  /\ seen' = [seen EXCEPT ![a] = {}]
  /\ locked' = [locked EXCEPT ![a] = {}]

\* INSERT, which nobody sees before the COMMIT, and COMMIT.
commit(a) ==
  /\ pc[a] = "deactivated"
  /\ clock' = clock + 1
  /\ active' = (active \ locked[a]) \union {began[a]}
  /\ done' = [done EXCEPT ![began[a]] = clock']
  /\ past' = past \union {Max(active')}
  /\ Released(a)

\* A call fails or the process dies: the transaction is rolled back.
rollback(a) ==
  /\ pc[a] # "idle"
  /\ Released(a)
  /\ UNCHANGED <<clock, active, done, past>>

Init ==
  /\ clock = 0
  /\ pc = [a \in Requests |-> "idle"]
  /\ began = [a \in Requests |-> 0]
  /\ seen = [a \in Requests |-> {}]
  /\ locked = [a \in Requests |-> {}]
  /\ active = {}
  /\ done = [r \in Rows |-> 0]
  /\ past = {0}

Next ==
  \E a \in Requests :
    \/ ensureCaExists(a)
    \/ generateCa(a)
    \/ deactivate(a)
    \/ locksGranted(a)
    \/ commit(a)
    \/ rollback(a)

Spec == Init /\ [][Next]_vars

-------------------------------------------------------------------------------
\* Counters and rows are in range, and only an operation inside a transaction
\* has a begin, a snapshot and locks.
TypeOK ==
  /\ clock \in 0..MaxClock
  /\ pc \in [Requests -> {"idle", "generate", "begun", "deactivating", "deactivated"}]
  /\ began \in [Requests -> 0..MaxClock]
  /\ seen \in [Requests -> SUBSET Rows]
  /\ locked \in [Requests -> SUBSET Rows]
  /\ active \subseteq {r \in Rows : done[r] # 0}
  /\ done \in [Rows -> 0..MaxClock]
  /\ past \subseteq 0..MaxClock
  /\ \A a \in Requests :
       /\ (began[a] # 0) <=> a \in InFlight
       /\ pc[a] # "deactivated" => locked[a] = {}

\* Two rows stay active together only when the transactions that inserted them
\* overlapped: a generation or upload that begins after another has returned
\* always deactivates what that one left (ca.ts:7, "Deactivates all existing
\* CAs", as far as it goes).
OnlyOverlapsLeaveTwo ==
  \A r, s \in active : r < s => s < done[r]

\* What the proxies' watcher takes for granted when it compares the certificate
\* with the last one it saw (proxy/src/tls/ca.ts:153): a row that readers no
\* longer find is never found again, whatever the order of commits.
NeverBack == [][Current' # Current => Current' \notin past]_vars

\* Seen from outside the table is a CaStore: replaced in one step, never empty
\* again, although it is emptied and refilled inside every transaction.
Store == INSTANCE CaStore WITH current <- Current, Cas <- Rows, NoCa <- 0

ImplementsCaStore == Store!Spec

-------------------------------------------------------------------------------
\* The strengthening that makes the properties inductive.

\* Every begin has left room for its commit.
Budget == clock + Cardinality(InFlight) <= MaxClock

\* Nothing is younger than the clock; an operation in progress has a row of its
\* own, not committed yet, and readers only find what has been.
Times ==
  /\ \A a \in InFlight : began[a] \in 1..clock /\ done[began[a]] = 0
  /\ \A a, b \in InFlight : began[a] = began[b] => a = b
  /\ \A r \in Rows : done[r] <= clock /\ (done[r] # 0 => r <= clock)
  /\ past \subseteq {0} \union {r \in Rows : done[r] # 0}

\* The rows an UPDATE works on, before it has its locks and after.
Held(a) == IF pc[a] = "deactivating" THEN seen[a] ELSE locked[a]

\* A row that an UPDATE leaves alone was committed after its snapshot: after its
\* BEGIN, and after every row that it works on.
Snapshots ==
  \A a \in Requests : pc[a] \in {"deactivating", "deactivated"} =>
    /\ \A m \in Held(a) : done[m] # 0
    /\ \A r \in active \ Held(a) :
         /\ began[a] < done[r]
         /\ \A m \in Held(a) : done[m] < done[r]

\* A row that readers have found was committed before every newer row that is
\* still active.
FoundFirst == \A r, m \in active : r \in past /\ r < m => done[r] < done[m]

IInv == TypeOK /\ Budget /\ Times /\ Snapshots /\ FoundFirst /\ OnlyOverlapsLeaveTwo

===============================================================================
