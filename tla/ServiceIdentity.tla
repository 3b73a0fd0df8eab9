---------------------------- MODULE ServiceIdentity ----------------------------
(***************************************************************************)
(* Which pod has which address (packages/proxy/src/k8s/service-id.ts): the *)
(* map that an informer keeps from the events of the cluster's pods.       *)
(*                                                                         *)
(* The cluster (external) gives an address to a pod and takes it back when *)
(* the pod's sandbox ends, but the pod's object says so only later, or     *)
(* never before it is deleted.  The informer (external, from               *)
(* @kubernetes/client-node) lists the pods and then receives every change  *)
(* of an object in order; if its connection breaks it is started again     *)
(* after 5 seconds, where it was or with a new list.                       *)
(***************************************************************************)
EXTENDS Integers, Sequences, FiniteSets

CONSTANTS
  Pods, NoPod,
  PodAddresses, NoAddress,
  MaxEvents,   \* bound on the events under way
  MaxEdits,    \* bound on the changes that touch neither address nor phase
  MaxBreaks    \* bound on broken connections

ASSUME IdentAssumption ==
  /\ NoPod \notin Pods
  /\ NoAddress \notin PodAddresses
  /\ MaxEdits \in Nat
  /\ MaxBreaks \in Nat

VARIABLES
  object,    \* the pods' objects: phase and address, and a count of edits
  holder,    \* the pod that has an address
  events,    \* on their way to the informer
  cache,     \* the objects the informer knows
  informer,  \* "new", "watching", "broken", "dead" or "off"
  breaks,    \* broken connections so far
  ipMap,     \* the proxy's map, to pods instead of names
  unclear    \* history: addresses two objects have claimed at once, and those
             \* a pod has exchanged for another

NoObject == [phase |-> "none", addr |-> NoAddress, edits |-> 0]
Exists(p) == object[p].phase \notin {"none", "deleted"}

\* Only pods that could send traffic.
Indexed(o) == o.phase = "running" /\ o.addr # NoAddress
Claims(p, a) == Indexed(object[p]) /\ object[p].addr = a
Claimants(a) == {p \in Pods : Claims(p, a)}

-------------------------------------------------------------------------------
\* Every change of an object is an event once the informer watches.
Tell(type, p, o) ==
  events' = IF informer \in {"watching", "broken"}
            THEN Append(events, [type |-> type, pod |-> p, object |-> o]) ELSE events

Change(p, o) ==
  /\ Len(events) < MaxEvents
  /\ object' = [object EXCEPT ![p] = o]
  /\ Tell("update", p, o)
  /\ UNCHANGED <<cache, informer, breaks, ipMap>>

createPod(p) ==
  /\ object[p] = NoObject
  /\ Change(p, [NoObject EXCEPT !.phase = "pending"])
  /\ UNCHANGED <<holder, unclear>>

\* A pod's sandbox gets an address that no pod has any more: the pod's first
\* one, or another one when the sandbox had to be made again.
runPod(p, a) ==
  /\ object[p].phase \in {"pending", "running"}
  /\ \A b \in PodAddresses : holder[b] # p
  /\ holder[a] = NoPod
  /\ holder' = [holder EXCEPT ![a] = p]
  /\ Change(p, [object[p] EXCEPT !.phase = "running", !.addr = a])
  /\ unclear' = unclear \union {b \in PodAddresses :
                                  \/ b = a /\ Claimants(a) \ {p} # {}
                                  \/ b # a /\ Claims(p, b)}

\* The sandbox ends; the object is not told yet.
release(p) ==
  /\ \E a \in PodAddresses : holder[a] = p
  /\ holder' = [a \in PodAddresses |-> IF holder[a] = p THEN NoPod ELSE holder[a]]
  /\ UNCHANGED <<object, events, cache, informer, breaks, ipMap, unclear>>

\* A label or a condition.
editPod(p) ==
  /\ Exists(p) /\ object[p].edits < MaxEdits
  /\ Change(p, [object[p] EXCEPT !.edits = @ + 1])
  /\ UNCHANGED <<holder, unclear>>

\* Succeeded or Failed; the address stays in the object.
finishPod(p) ==
  /\ object[p].phase = "running"
  /\ \A a \in PodAddresses : holder[a] # p
  /\ Change(p, [object[p] EXCEPT !.phase = "done"])
  /\ UNCHANGED <<holder, unclear>>

deletePod(p) ==
  /\ Exists(p)
  /\ \A a \in PodAddresses : holder[a] # p
  /\ Len(events) < MaxEvents
  /\ object' = [object EXCEPT ![p].phase = "deleted"]
  /\ Tell("delete", p, object[p])
  /\ UNCHANGED <<holder, cache, informer, breaks, ipMap, unclear>>

-------------------------------------------------------------------------------
indexPod(m, p, o) == IF Indexed(o) THEN [m EXCEPT ![o.addr] = p] ELSE m

\* Mutant: whoever has the entry.
removePodAny(m, p, o) ==
  IF o.addr # NoAddress THEN [m EXCEPT ![o.addr] = NoPod] ELSE m

\* Mutant: the entry is emptied with the wrong nothing.
removePodWrong(m, p, o) ==
  IF o.addr # NoAddress /\ m[o.addr] = p THEN [m EXCEPT ![o.addr] = NoAddress] ELSE m

\* Only if the entry is still this pod's.
removePod(m, p, o) ==
  IF o.addr # NoAddress /\ m[o.addr] = p THEN [m EXCEPT ![o.addr] = NoPod] ELSE m

deliver ==
  LET e == Head(events) IN
  /\ informer = "watching"
  /\ events # <<>>
  /\ events' = Tail(events)
  /\ IF e.type = "update"
       THEN /\ ipMap' = indexPod(ipMap, e.pod, e.object)
            /\ cache' = [cache EXCEPT ![e.pod] = e.object]
       ELSE /\ ipMap' = removePod(ipMap, e.pod, e.object)
            /\ cache' = [cache EXCEPT ![e.pod] = NoObject]
  /\ UNCHANGED <<object, holder, informer, breaks, unclear>>

\* A list: known pods that are gone are removed, as they were known, and what
\* is new or has changed is indexed, in the order of the list.
Listed == {p \in Pods : Exists(p) /\ object[p] # cache[p] /\ Indexed(object[p])}

Lost(a) == \E p \in Pods : ~Exists(p) /\ cache[p].addr = a /\ ipMap[a] = p

list(m) ==
  /\ \A a \in PodAddresses :
       LET new == {p \in Listed : object[p].addr = a} IN
       IF new # {} THEN m[a] \in new
       ELSE m[a] = IF Lost(a) THEN NoPod ELSE ipMap[a]
  /\ ipMap' = m
  /\ cache' = [p \in Pods |-> IF Exists(p) THEN object[p] ELSE NoObject]
  /\ events' = <<>>
  /\ informer' = "watching"
  /\ UNCHANGED <<object, holder, breaks, unclear>>

\* initK8s: a first list, or no identification at all.
initK8s ==
  /\ informer = "new"
  /\ \E m \in [PodAddresses -> Pods \union {NoPod}] : list(m)

initFails ==
  /\ informer = "new"
  /\ informer' = "off"
  /\ UNCHANGED <<object, holder, events, cache, breaks, ipMap, unclear>>

connectionBreaks ==
  /\ informer = "watching"
  /\ breaks < MaxBreaks
  /\ breaks' = breaks + 1
  /\ informer' = "broken"
  /\ UNCHANGED <<object, holder, events, cache, ipMap, unclear>>

\* Mutant: the watch starts at the present, without a list.
restartLosing ==
  /\ informer = "broken"
  /\ informer' = "watching"
  /\ events' = <<>>
  /\ UNCHANGED <<object, holder, cache, breaks, ipMap, unclear>>

\* start() in the error callback: it goes on from the last version, or lists
\* again if the server does not know that version any more ...
restart ==
  /\ informer = "broken"
  /\ \/ informer' = "watching"
          /\ UNCHANGED <<object, holder, events, cache, breaks, ipMap, unclear>>
     \/ \E m \in [PodAddresses -> Pods \union {NoPod}] : list(m)

\* ... and if that fails too there is a warning and no further attempt.
restartFails ==
  /\ informer = "broken"
  /\ informer' = "dead"
  /\ events' = <<>>
  /\ UNCHANGED <<object, holder, cache, breaks, ipMap, unclear>>

\* The name of a client: its pod's, or else its address.
identifyService(a) ==
  IF informer # "off" /\ a \in PodAddresses /\ ipMap[a] # NoPod THEN ipMap[a] ELSE a

-------------------------------------------------------------------------------
Init ==
  /\ object = [p \in Pods |-> NoObject]
  /\ holder = [a \in PodAddresses |-> NoPod]
  /\ events = <<>>
  /\ cache = [p \in Pods |-> NoObject]
  /\ informer = "new"
  /\ breaks = 0
  /\ ipMap = [a \in PodAddresses |-> NoPod]
  /\ unclear = {}

Next ==
  \/ \E p \in Pods :
       \/ createPod(p) \/ release(p) \/ editPod(p) \/ finishPod(p) \/ deletePod(p)
       \/ \E a \in PodAddresses : runPod(p, a)
  \/ deliver \/ initK8s \/ initFails \/ connectionBreaks \/ restart \/ restartFails

identVars == <<object, holder, events, cache, informer, breaks, ipMap, unclear>>

\* Events arrive between one broken connection and the next, and the callback's
\* timer fires.
Fairness == SF_identVars(deliver) /\ WF_identVars(initK8s) /\ WF_identVars(restart)

Spec == Init /\ [][Next]_identVars /\ Fairness

-------------------------------------------------------------------------------
Objects == [phase : {"none", "pending", "running", "done", "deleted"},
            addr : PodAddresses \union {NoAddress}, edits : 0 .. MaxEdits]

Events == [type : {"update", "delete"}, pod : Pods, object : Objects]

\* The types of the cluster's, the informer's and the proxy's variables.
TypeOK ==
  /\ object \in [Pods -> Objects] /\ cache \in [Pods -> Objects]
  /\ holder \in [PodAddresses -> Pods \union {NoPod}]
  /\ events \in Seq(Events)
  /\ informer \in {"new", "watching", "broken", "dead", "off"}
  /\ breaks \in 0 .. MaxBreaks
  /\ ipMap \in [PodAddresses -> Pods \union {NoPod}]
  /\ unclear \subseteq PodAddresses

\* The informer watches and has received every event.
CaughtUp == informer = "watching" /\ events = <<>>

\* Once the informer has caught up, an address that some object claims is mapped
\* to that pod, and one that is mapped to a pod is in that pod's object; unless
\* two objects claimed it at once, or its pod has moved (service-id.ts:136-170).
MapFollowsPods ==
  CaughtUp =>
    \A a \in PodAddresses \ unclear :
      /\ Claimants(a) # {} => ipMap[a] \in Claimants(a)
      /\ ipMap[a] # NoPod => Exists(ipMap[a]) /\ object[ipMap[a]].addr = a

-------------------------------------------------------------------------------
\* The invariant behind MapFollowsPods, in terms of three versions of a pod: its
\* object, those in the events under way, and the one the informer knows.
Following == informer \in {"watching", "broken"}
Points(o, a) == Indexed(o) /\ o.addr = a
Announces(e, p, a) == e.type = "update" /\ e.pod = p /\ Points(e.object, a)
Retracts(e, p, a) == e.pod = p /\ ~Announces(e, p, a)

\* What the informer knows of a pod once it has every event.
Known(p) == IF Exists(p) THEN object[p] ELSE NoObject
After(e) == IF e.type = "update" THEN e.object ELSE NoObject

\* Only a pod that has run has an address; only objects that exist are told of.
AddressesOfRun ==
  \A p \in Pods : object[p].addr # NoAddress => object[p].phase \in {"running", "done", "deleted"}
UpdatesOfPods ==
  \A i \in 1 .. Len(events) :
    events[i].type = "update" => events[i].object.phase \in {"pending", "running", "done"}
EventsFollowed == ~Following => events = <<>>

\* An address that is not unclear has one claimant, and who has had it keeps it.
OneClaimant ==
  \A a \in PodAddresses \ unclear, p, q \in Pods : Claims(p, a) /\ Claims(q, a) => p = q
AddressKept ==
  /\ \A p \in Pods :
       cache[p].addr \notin {NoAddress} \union unclear =>
         /\ object[p].addr = cache[p].addr
         /\ \A i \in 1 .. Len(events) :
              events[i].pod = p => events[i].object.addr = cache[p].addr
  /\ \A i \in 1 .. Len(events) :
       events[i].object.addr \notin {NoAddress} \union unclear =>
         /\ object[events[i].pod].addr = events[i].object.addr
         /\ \A j \in i .. Len(events) :
              events[j].pod = events[i].pod => events[j].object.addr = events[i].object.addr

\* The last event of a pod is its object; a pod without one is known as it is.
LastIsObject ==
  Following =>
    \A p \in Pods :
      \/ /\ \A i \in 1 .. Len(events) : events[i].pod # p
         /\ cache[p] = Known(p)
      \/ \E i \in 1 .. Len(events) :
           /\ events[i].pod = p /\ After(events[i]) = Known(p)
           /\ \A j \in (i + 1) .. Len(events) : events[j].pod # p

\* Before an address goes to another pod, an event has taken it from its pod.
TakenFirst ==
  \A a \in PodAddresses \ unclear, p, q \in Pods :
    p # q =>
      /\ Points(cache[p], a) =>
           \A k \in 1 .. Len(events) :
             Announces(events[k], q, a) => \E j \in 1 .. (k - 1) : Retracts(events[j], p, a)
      /\ \A i, k \in 1 .. Len(events) :
           i < k /\ Announces(events[i], p, a) /\ Announces(events[k], q, a) =>
             \E j \in (i + 1) .. (k - 1) : Retracts(events[j], p, a)

\* The map says what the informer knows.
MapIsCache ==
  \A a \in PodAddresses \ unclear :
    /\ \A p \in Pods : Points(cache[p], a) => ipMap[a] = p
    /\ ipMap[a] # NoPod => /\ cache[ipMap[a]].phase \notin {"none", "deleted"}
                          /\ cache[ipMap[a]].addr = a

IdentIInv ==
  /\ TypeOK /\ AddressesOfRun /\ UpdatesOfPods /\ EventsFollowed /\ OneClaimant
  /\ AddressKept /\ LastIsObject /\ TakenFirst /\ MapIsCache

\* A pod that keeps its address is known in the end, whatever breaks meanwhile,
\* unless the informer never started or could not be started again
\* (service-id.ts:44-52, :56-62).
PodEventuallyKnown ==
  \A p \in Pods, a \in PodAddresses :
    (Claims(p, a) /\ a \notin unclear)
      ~> \/ ipMap[a] = p
         \/ ~Claims(p, a) \/ a \in unclear
         \/ informer \in {"dead", "off"}
===============================================================================
