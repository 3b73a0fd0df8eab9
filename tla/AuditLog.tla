------------------------------- MODULE AuditLog -------------------------------
(***************************************************************************)
(* What the proxy's logging promises, whatever buffers, flushes and        *)
(* retries it is made of: an accepted entry stays open until a send of it  *)
(* is acknowledged or it is given up, it is never silently forgotten, and  *)
(* only a send whose outcome is in doubt can give it a second row.         *)
(***************************************************************************)
CONSTANT Entries

VARIABLES
  accepted,   \* entries handed to log()
  open,       \* entries neither acknowledged nor given up
  rows,       \* entries with a row in proxy_logs
  doubled,    \* entries with more than one row
  doubtful,   \* entries that got a row from a send that reported an error
  gone        \* entries given up: dropped at the cap, or lost with the process

vars == <<accepted, open, rows, doubled, doubtful, gone>>

Init ==
  /\ accepted = {}
  /\ open = {}
  /\ rows = {}
  /\ doubled = {}
  /\ doubtful = {}
  /\ gone = {}

Accept(e) ==
  /\ e \notin accepted
  /\ accepted' = accepted \union {e}
  /\ open' = open \union {e}
  /\ UNCHANGED <<rows, doubled, doubtful, gone>>

\* The entries of D get a row each.
Insert(D) ==
  /\ rows' = rows \union D
  /\ doubled' = doubled \union (D \intersect rows)

\* A send of the entries of S is acknowledged.
Settle(S) ==
  /\ Insert(S)
  /\ open' = open \ S
  /\ UNCHANGED <<accepted, doubtful, gone>>

\* A send or an attempt of one ends in an error, or the process does, after the
\* entries of D got their rows; those of G will not be sent again.
Fail(D, G) ==
  /\ Insert(D)
  /\ open' = open \ G
  /\ doubtful' = doubtful \union D
  /\ gone' = gone \union G
  /\ UNCHANGED accepted

Next ==
  \/ \E e \in Entries : Accept(e)
  \/ \E S \in SUBSET open : Settle(S)
  \/ \E D, G \in SUBSET open : Fail(D, G)

Spec == Init /\ [][Next]_vars

-------------------------------------------------------------------------------
\* Every accepted entry is accounted for.
Accounted == accepted = open \union rows \union gone

\* An acknowledged row is the only one, unless a send of it was in doubt.
DoubledWereDoubtful == doubled \subseteq doubtful

\* What makes the latter inductive: an open entry has a row only if it is in
\* doubt.
OpenRowsAreDoubtful == open \intersect rows \subseteq doubtful

===============================================================================
