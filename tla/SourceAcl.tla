------------------------------- MODULE SourceAcl -------------------------------
(***************************************************************************)
(* Which clients may use the proxy (packages/proxy/src/acl/source-acl.ts): *)
(* the rules of table proxy_acls, which the API edits one row at a time    *)
(* (packages/api/src/routes/proxy-acls.ts) and the proxy reads every 30    *)
(* seconds through a pool of one client, and the matching of a client's    *)
(* name and address against them.                                          *)
(*                                                                         *)
(* An address is a number of Width bits, or not IPv4.  A rule is a row: an *)
(* id, since two rows may have one pattern, and the pattern, a text that   *)
(* may have the form of an address and a prefix length, and that, as a     *)
(* glob, matches some names and addresses: its hits.                       *)
(***************************************************************************)
EXTENDS Integers, FiniteSets

CONSTANTS
  Width,           \* bits of an address and of an integer that is shifted; 32
  OtherAddresses,  \* addresses that are not IPv4
  Rules,           \* the rows administrators may add
  Polls,           \* slots for loads in progress
  MaxChanges       \* bound on the changes of the table

IPv4 == 0 .. (2^Width - 1)
Addresses == IPv4 \union OtherAddresses

VARIABLES
  table,     \* proxy_acls
  version,   \* history: how often the table has changed
  rules,     \* the proxy's rules
  inForce,   \* history: the version of the table the rules were, -1 before
  load,      \* loads in progress
  phase      \* "loading" before the first load ended, "polling", "stopped"

-------------------------------------------------------------------------------
Bit(x, i) == (x \div 2^i) % 2

\* x << k on Width bits: the hardware takes the count modulo the width.
ShiftLeft(x, k) == (x * 2^(k % Width)) % 2^Width
Ones == 2^Width - 1

\* Are a and b the same under the mask?
SameUnder(mask, a, b) ==
  \A i \in 0 .. (Width - 1) : Bit(mask, i) = 1 => Bit(a, i) = Bit(b, i)

\* Mutant: no prefix length is special.
ipInCidrShift(a, base, p) ==
  a \in IPv4 /\ SameUnder(ShiftLeft(Ones, Width - p), a, base)

ipInCidr(a, base, p) ==
  a \in IPv4 /\ (p = 0 \/ SameUnder(ShiftLeft(Ones, Width - p), a, base))

\* The prefix length must be one: 10.0.0.0/33 is a glob like any other text.
isCidrPattern(r) == r.base \in IPv4 /\ r.prefix \in 0 .. Width

\* globToRegex: what the anchored expression matches, the name or the address.
globMatches(r, name, a) == {name, a} \intersect r.hits # {}

isServiceAllowed(name, a) ==
  \/ rules = {}
  \/ \E r \in rules :
       IF isCidrPattern(r) THEN ipInCidr(a, r.base, r.prefix) ELSE globMatches(r, name, a)

-------------------------------------------------------------------------------
Idle == [step |-> "idle", rows |-> {}, version |-> -1]
Waiting == [Idle EXCEPT !.step = "waiting"]

\* POST and DELETE /api/proxy-acls
changeTable(t) ==
  /\ version < MaxChanges
  /\ table' = t
  /\ version' = version + 1
  /\ UNCHANGED <<rules, inForce, load, phase>>

createRule(r) == r \notin table /\ changeTable(table \union {r})
deleteRule(r) == r \in table /\ changeTable(table \ {r})

\* setInterval, which does not ask whether the last load is done.
pollFires(i) ==
  /\ phase = "polling"
  /\ load[i] = Idle
  /\ load' = [load EXCEPT ![i] = Waiting]
  /\ UNCHANGED <<table, version, rules, inForce, phase>>

Reading(i) == load[i].step = "reading"

\* Mutant: as with a pool of several clients.
selectRulesAnyClient(i) ==
  /\ load[i] = Waiting
  /\ load' = [load EXCEPT ![i] = [step |-> "reading", rows |-> table, version |-> version]]
  /\ UNCHANGED <<table, version, rules, inForce, phase>>

\* The pool has one client: a query waits until the last one is answered.
selectRules(i) ==
  /\ load[i] = Waiting
  /\ phase # "stopped"
  /\ \A k \in Polls : ~Reading(k)
  /\ load' = [load EXCEPT ![i] = [step |-> "reading", rows |-> table, version |-> version]]
  /\ UNCHANGED <<table, version, rules, inForce, phase>>

LoadEnds(i) ==
  /\ load' = [load EXCEPT ![i] = Idle]
  /\ phase' = IF phase = "loading" THEN "polling" ELSE phase

applyRules(i) ==
  /\ Reading(i)
  /\ rules' = load[i].rows
  /\ inForce' = load[i].version
  /\ LoadEnds(i)
  /\ UNCHANGED <<table, version>>

\* Mutant: a first load that fails ends initSourceAcls before the interval starts.
loadFailsUnstarted(i) ==
  /\ load[i] # Idle
  /\ load' = [load EXCEPT ![i] = Idle]
  /\ UNCHANGED <<table, version, rules, inForce, phase>>

\* A query fails, or waits too long for the client: the rules stay as they are.
loadFails(i) ==
  /\ load[i] # Idle
  /\ LoadEnds(i)
  /\ UNCHANGED <<table, version, rules, inForce>>

shutdownSourceAcls ==
  /\ phase = "polling"
  /\ phase' = "stopped"
  /\ UNCHANGED <<table, version, rules, inForce, load>>

-------------------------------------------------------------------------------
\* Init for a given first table; the first load is awaited by main().
Init(t, first) ==
  /\ table = t /\ version = 0
  /\ rules = {} /\ inForce = -1
  /\ load = [i \in Polls |-> IF i = first THEN Waiting ELSE Idle]
  /\ phase = "loading"

Next ==
  \/ \E r \in Rules : createRule(r) \/ deleteRule(r)
  \/ \E i \in Polls : pollFires(i) \/ selectRules(i) \/ applyRules(i) \/ loadFails(i)
  \/ shutdownSourceAcls

-------------------------------------------------------------------------------
\* The types of the table, the proxy's rules and its loads.
TypeOK ==
  /\ table \subseteq Rules /\ rules \subseteq Rules
  /\ version \in 0 .. MaxChanges /\ inForce \in -1 .. MaxChanges
  /\ load \in [Polls -> [step : {"idle", "waiting", "reading"},
                         rows : SUBSET Rules, version : -1 .. MaxChanges]]
  /\ phase \in {"loading", "polling", "stopped"}

\* The invariant behind RulesNeverBack (ClientPolicy): one load reads at a time,
\* its rows and the rules are those of a version of the table, and its version is
\* not older than that of the rules.
OneReads == \A i, k \in Polls : Reading(i) /\ Reading(k) => i = k
InForceBehind == inForce <= version /\ (inForce = version => rules = table)
ReadBetween ==
  \A i \in Polls :
    Reading(i) => /\ inForce <= load[i].version /\ load[i].version <= version
                  /\ load[i].version = version => load[i].rows = table

AclIInv == TypeOK /\ OneReads /\ InForceBehind /\ ReadBetween

\* What the table says of a client: the first p bits of its address agree with
\* those of a rule, or a glob matches; an empty table lets everybody in.
Admits(t, name, a) ==
  \/ t = {}
  \/ \E r \in t :
       IF r.base \in IPv4 /\ r.prefix \in 0 .. Width
         THEN a \in IPv4 /\ a \div 2^(Width - r.prefix) = r.base \div 2^(Width - r.prefix)
         ELSE name \in r.hits \/ a \in r.hits
===============================================================================
