------------------------------ MODULE ClientPolicy ------------------------------
(***************************************************************************)
(* The check at the start of handleHttpProxy and handleConnect             *)
(* (packages/proxy/src/proxy.ts): the name that ServiceIdentity has for a  *)
(* client's address, tried with that address against the rules SourceAcl   *)
(* has loaded.  Both follow a source of truth elsewhere, independently of  *)
(* each other.                                                             *)
(***************************************************************************)
EXTENDS ServiceIdentity

CONSTANTS
  Width, OtherAddresses, Rules, Polls, MaxChanges,
  FirstPoll, FirstTable   \* the load main() awaits, the table it finds

ASSUME PolicyAssumption ==
  /\ Width \in Nat \ {0} /\ MaxChanges \in Nat
  /\ FirstPoll \in Polls /\ FirstTable \subseteq Rules

VARIABLES table, version, rules, inForce, load, phase

Acl == INSTANCE SourceAcl

aclVars == <<table, version, rules, inForce, load, phase>>
policyVars == <<aclVars, identVars>>

\* Denied or not; the entry is that of the client's address at that moment.
Allowed(a) == Acl!isServiceAllowed(identifyService(a), a)

PolicyInit == Acl!Init(FirstTable, FirstPoll) /\ Init

PolicyNext ==
  \/ Acl!Next /\ UNCHANGED identVars
  \/ Next /\ UNCHANGED aclVars

\* The interval fires, and a query that is repeated for ever is answered some time.
PolicyFairness ==
  \A i \in Polls : /\ WF_policyVars(Acl!pollFires(i) /\ UNCHANGED identVars)
                  /\ SF_policyVars(Acl!selectRules(i) /\ UNCHANGED identVars)
                  /\ SF_policyVars(Acl!applyRules(i) /\ UNCHANGED identVars)

PolicySpec == PolicyInit /\ [][PolicyNext]_policyVars /\ PolicyFairness

-------------------------------------------------------------------------------
\* The rules in force are never replaced by those of an older table, although
\* polls overlap (source-acl.ts:123): the pool has one client.
RulesNeverBack == [][inForce' >= inForce]_policyVars

\* The names a client of this address may have once the informer has caught up: that
\* of the pod that claims the address, or else the bare address.  Or that of a pod
\* that has finished there: indexPod() ignores the event that says so
\* (service-id.ts:139), and its entry stays until the object is deleted.
Finished(a) == {p \in Pods : object[p].phase = "done" /\ object[p].addr = a}

NamesOf(a) ==
  IF a \notin PodAddresses THEN {a}
  ELSE IF Claimants(a) # {} THEN Claimants(a) ELSE {a} \union Finished(a)

\* When both have caught up, a client is let in exactly if the table admits such a
\* name with its address (proxy.ts:254 and :417): whatever the prefix length, and
\* for addresses that are not IPv4.
SettledVerdict ==
  (inForce = version /\ CaughtUp) =>
    \A a \in Acl!Addresses \ unclear :
      \E name \in NamesOf(a) : Allowed(a) = Acl!Admits(table, name, a)

\* The invariant behind both.
PolicyIInv == IdentIInv /\ Acl!AclIInv

\* A proxy that goes on polling comes to enforce the table as it is.
TableEnforced == <>(phase = "stopped") \/ <>[](inForce = version /\ rules = table)
===============================================================================
