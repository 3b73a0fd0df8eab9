---------------------------- MODULE ClientPolicyProofs ----------------------------
(***************************************************************************)
(* Theorems about the client policy: about ServiceIdentity, for every      *)
(* number of pods, addresses, events, edits and broken connections, and    *)
(* about ClientPolicy with SourceAcl, for every width of an address, every *)
(* set of rules and every number of loads in progress.                     *)
(***************************************************************************)
EXTENDS ClientPolicy, FiniteSetTheorems, TLAPS

-------------------------------------------------------------------------------
(***************************************************************************)
(* Which pod has which address.                                            *)
(***************************************************************************)



\* What Append and Tail leave where.
LEMMA Appended ==
  ASSUME NEW S, NEW s \in Seq(S), NEW e \in S
  PROVE  /\ Append(s, e) \in Seq(S)
         /\ Len(Append(s, e)) = Len(s) + 1
         /\ \A i \in 1 .. Len(s) : Append(s, e)[i] = s[i]
         /\ Append(s, e)[Len(s) + 1] = e
OBVIOUS

LEMMA Rest ==
  ASSUME NEW S, NEW s \in Seq(S), s # <<>>
  PROVE  /\ Tail(s) \in Seq(S)
         /\ Len(s) \in Nat \ {0} /\ Len(Tail(s)) = Len(s) - 1
         /\ Head(s) = s[1] /\ s[1] \in S
         /\ \A i \in 1 .. Len(Tail(s)) : Tail(s)[i] = s[i + 1]
OBVIOUS

LEMMA NoEvents == <<>> \in Seq(Events) /\ Len(<<>>) = 0
OBVIOUS

\* A pod that does not exist has no address.
LEMMA NoObjectType == NoObject \in Objects /\ NoObject.addr = NoAddress /\ NoObject.phase = "none"
BY IdentAssumption DEF IdentAssumption, NoObject, Objects

\* Before the informer starts there is nothing to tell of any pod.
LEMMA IdentStarts == Init => IdentIInv
<1> SUFFICES ASSUME Init PROVE IdentIInv
  OBVIOUS
<1>1. TypeOK
  BY NoObjectType, IdentAssumption DEF IdentAssumption, Init, TypeOK
<1>2. \A p \in Pods : object[p] = NoObject /\ cache[p] = NoObject
  BY DEF Init
<1>3. events = <<>> /\ Len(events) = 0 /\ ~Following
  BY DEF Init, Following
<1>4. AddressesOfRun /\ UpdatesOfPods /\ EventsFollowed /\ LastIsObject
  BY <1>2, <1>3, NoObjectType DEF AddressesOfRun, UpdatesOfPods, EventsFollowed, LastIsObject
<1>5. OneClaimant
  BY <1>2, NoObjectType DEF OneClaimant, Claims, Indexed
<1>6. AddressKept /\ TakenFirst
  BY <1>2, <1>3, NoObjectType DEF AddressKept, TakenFirst, Points, Indexed
<1>7. MapIsCache
  BY <1>2, NoObjectType DEF Init, MapIsCache, Points, Indexed
<1> QED
  BY <1>1, <1>4, <1>5, <1>6, <1>7 DEF IdentIInv

-------------------------------------------------------------------------------
\* The object of p becomes n, and if the informer follows it will hear e.
Tells(p, n, e) ==
  /\ object' = [object EXCEPT ![p] = n]
  /\ events' = IF Following THEN Append(events, e) ELSE events
  /\ UNCHANGED <<cache, informer, breaks, ipMap>>

\* What makes that a change the invariant survives: e says what n is, and n has
\* the address of the old object and no address of another pod, if it is clear.
Sound(p, n, e) ==
  /\ n \in Objects /\ e \in Events /\ e.pod = p
  /\ After(e) = IF n.phase \notin {"none", "deleted"} THEN n ELSE NoObject
  /\ e.type = "update" => e.object.phase \in {"pending", "running", "done"}
  /\ n.addr # NoAddress => n.phase \in {"running", "done", "deleted"}
  /\ e.object.addr = n.addr
  /\ unclear \subseteq unclear' /\ unclear' \subseteq PodAddresses
  /\ object[p].addr \notin {NoAddress} \union unclear' => n.addr = object[p].addr
  /\ \A a \in PodAddresses \ unclear', q \in Pods \ {p} : Points(n, a) => ~Claims(q, a)
  /\ holder' \in [PodAddresses -> Pods \union {NoPod}]

\* A change of an object, part by part of the invariant: the types ...
LEMMA ChangeTypes ==
  ASSUME IdentIInv, NEW p \in Pods, NEW n, NEW e, Tells(p, n, e), Sound(p, n, e)
  PROVE  TypeOK'
<1>1. object' \in [Pods -> Objects] /\ cache' \in [Pods -> Objects]
  BY DEF IdentIInv, TypeOK, Tells, Sound
<1>2. events' \in Seq(Events)
  BY Appended DEF IdentIInv, TypeOK, Tells, Sound
<1> QED
  BY <1>1, <1>2 DEF IdentIInv, TypeOK, Tells, Sound

\* The other objects and the events so far stay; e is the last event, if any.
LEMMA ChangeEffect ==
  ASSUME IdentIInv, NEW p \in Pods, NEW n, NEW e, Tells(p, n, e), Sound(p, n, e)
  PROVE  /\ object'[p] = n
         /\ \A q \in Pods \ {p} : object'[q] = object[q]
         /\ Len(events) \in Nat /\ Len(events') \in Nat
         /\ Len(events') = IF Following THEN Len(events) + 1 ELSE Len(events)
         /\ \A i \in 1 .. Len(events) : events'[i] = events[i] /\ events[i] \in Events
         /\ Following => events'[Len(events')] = e
         /\ ~Following => Len(events') = 0 /\ events' = <<>>
         /\ Following' <=> Following
         /\ cache' = cache /\ ipMap' = ipMap
<1>1. events \in Seq(Events) /\ object \in [Pods -> Objects]
  BY DEF IdentIInv, TypeOK
<1>2. e \in Events
  BY DEF Sound
<1>3. \A i \in 1 .. Len(events) : events[i] \in Events
  BY <1>1
<1>4. Len(events) \in Nat
  BY <1>1
<1>5. CASE Following
  <2>1. events' = Append(events, e)
    BY <1>5 DEF Tells
  <2>2. /\ Len(events') = Len(events) + 1
        /\ \A i \in 1 .. Len(events) : events'[i] = events[i]
        /\ events'[Len(events) + 1] = e
    BY <1>1, <1>2, <2>1, Appended
  <2> QED
    BY <1>1, <1>3, <1>4, <1>5, <2>2 DEF Tells, Following
<1>6. CASE ~Following
  <2>1. events' = events /\ events = <<>>
    BY <1>6 DEF Tells, IdentIInv, EventsFollowed
  <2> QED
    BY <1>1, <1>3, <1>4, <1>6, <2>1 DEF Tells, Following
<1> QED
  BY <1>5, <1>6

\* If the informer knows p by an address that p's object does not claim, or an
\* event announces it, then a later event of p retracts it.
LEMMA RetractionComes ==
  ASSUME IdentIInv, Following, NEW p \in Pods, NEW a \in PodAddresses, ~Claims(p, a)
  PROVE  /\ Points(cache[p], a) => \E j \in 1 .. Len(events) : Retracts(events[j], p, a)
         /\ \A i \in 1 .. Len(events) :
              Announces(events[i], p, a) =>
                \E j \in (i + 1) .. Len(events) : Retracts(events[j], p, a)
<1>1. ~Points(Known(p), a)
  BY NoObjectType, IdentAssumption DEF IdentAssumption, Known, Points, Claims, Indexed
<1>2. ASSUME NEW j \in 1 .. Len(events), events[j].pod = p, After(events[j]) = Known(p)
      PROVE  Retracts(events[j], p, a)
  BY <1>1, <1>2 DEF Retracts, Announces, After
<1>3. Len(events) \in Nat
  BY DEF IdentIInv, TypeOK
<1>4. CASE (\A i \in 1 .. Len(events) : events[i].pod # p) /\ cache[p] = Known(p)
  BY <1>1, <1>4 DEF Announces
<1>5. ASSUME NEW j \in 1 .. Len(events), events[j].pod = p, After(events[j]) = Known(p),
             \A k \in (j + 1) .. Len(events) : events[k].pod # p
      PROVE  \A i \in 1 .. Len(events) :
               Announces(events[i], p, a) =>
                 \E k \in (i + 1) .. Len(events) : Retracts(events[k], p, a)
  <2> SUFFICES ASSUME NEW i \in 1 .. Len(events), Announces(events[i], p, a)
               PROVE  \E k \in (i + 1) .. Len(events) : Retracts(events[k], p, a)
    OBVIOUS
  <2>1. Retracts(events[j], p, a)
    BY <1>2, <1>5
  <2>2. events[i].pod = p
    BY DEF Announces
  <2>3. ~(i > j)
    BY <1>3, <1>5, <2>2
  <2>4. i # j
    BY <2>1 DEF Retracts
  <2> QED
    BY <1>3, <2>1, <2>3, <2>4
<1> QED
  BY <1>2, <1>4, <1>5 DEF IdentIInv, LastIsObject

\* ... who has which address: the new event says what the new object says ...
LEMMA ChangeKeepsAddresses ==
  ASSUME IdentIInv, NEW p \in Pods, NEW n, NEW e, Tells(p, n, e), Sound(p, n, e)
  PROVE  AddressesOfRun' /\ UpdatesOfPods' /\ EventsFollowed' /\ OneClaimant' /\ AddressKept'
<1> USE ChangeEffect
<1>1. AddressesOfRun'
  BY DEF IdentIInv, AddressesOfRun, Sound
<1>2. UpdatesOfPods'
  BY DEF IdentIInv, UpdatesOfPods, Sound
<1>3. EventsFollowed'
  BY DEF EventsFollowed
<1>4. OneClaimant'
  <2>1. \A a \in PodAddresses : Claims(p, a)' <=> Points(n, a)
    BY DEF Claims, Points
  <2>2. \A q \in Pods \ {p}, a \in PodAddresses : Claims(q, a)' <=> Claims(q, a)
    BY DEF Claims
  <2> QED
    BY <2>1, <2>2 DEF IdentIInv, OneClaimant, Sound
<1>5. AddressKept'
  <2>1. ASSUME NEW q \in Pods, cache[q].addr \notin {NoAddress} \union unclear'
        PROVE  /\ object'[q].addr = cache[q].addr
               /\ \A i \in 1 .. Len(events') :
                    events'[i].pod = q => events'[i].object.addr = cache[q].addr
    <3>1. /\ object[q].addr = cache[q].addr
          /\ \A i \in 1 .. Len(events) : events[i].pod = q => events[i].object.addr = cache[q].addr
      BY <2>1 DEF IdentIInv, AddressKept, Sound
    <3>2. object'[q].addr = cache[q].addr
      BY <2>1, <3>1 DEF Sound
    <3>3. e.pod = q => e.object.addr = cache[q].addr
      BY <2>1, <3>1 DEF Sound
    <3> QED
      BY <3>1, <3>2, <3>3
  <2>2. ASSUME NEW i \in 1 .. Len(events'),
               events'[i].object.addr \notin {NoAddress} \union unclear'
        PROVE  /\ object'[events'[i].pod].addr = events'[i].object.addr
               /\ \A j \in i .. Len(events') :
                    events'[j].pod = events'[i].pod => events'[j].object.addr = events'[i].object.addr
    <3>1. CASE i \in 1 .. Len(events)
      <4>1. events'[i] = events[i] /\ events[i].pod \in Pods
        BY <3>1 DEF Events
      <4>2. /\ object[events[i].pod].addr = events[i].object.addr
            /\ \A j \in i .. Len(events) :
                 events[j].pod = events[i].pod => events[j].object.addr = events[i].object.addr
        BY <2>2, <3>1, <4>1 DEF IdentIInv, AddressKept, Sound
      <4>3. object'[events[i].pod].addr = events[i].object.addr
        <5>1. CASE events[i].pod = p
          BY <2>2, <4>1, <4>2, <5>1 DEF Sound
        <5>2. CASE events[i].pod # p
          BY <4>1, <4>2, <5>2
        <5> QED
          BY <5>1, <5>2
      <4>4. e.pod = events[i].pod => e.object.addr = events[i].object.addr
        BY <2>2, <4>1, <4>2 DEF Sound
      <4>5. ASSUME NEW j \in i .. Len(events'), events'[j].pod = events[i].pod
            PROVE  events'[j].object.addr = events[i].object.addr
        <5>1. CASE j \in 1 .. Len(events)
          BY <3>1, <4>2, <4>5, <5>1
        <5>2. CASE j \notin 1 .. Len(events)
          <6>1. Following /\ j = Len(events')
            BY <3>1, <5>2
          <6> QED
            BY <4>4, <4>5, <6>1
        <5> QED
          BY <5>1, <5>2
      <4> QED
        BY <4>1, <4>3, <4>5
    <3>2. CASE i \notin 1 .. Len(events)
      <4>1. Following /\ i = Len(events') /\ events'[i] = e
        BY <3>2
      <4> QED
        BY <4>1 DEF Sound
    <3> QED
      BY <3>1, <3>2
  <2> QED
    BY <2>1, <2>2 DEF AddressKept
<1> QED
  BY <1>1, <1>2, <1>3, <1>4, <1>5

\* ... the last event of the pod is the new one ...
LEMMA ChangeKeepsLast ==
  ASSUME IdentIInv, NEW p \in Pods, NEW n, NEW e, Tells(p, n, e), Sound(p, n, e)
  PROVE  LastIsObject'
<1> USE ChangeEffect
<1>1. SUFFICES ASSUME Following, NEW q \in Pods
               PROVE  (\/ /\ \A i \in 1 .. Len(events) : events[i].pod # q
                          /\ cache[q] = Known(q)
                       \/ \E i \in 1 .. Len(events) :
                            /\ events[i].pod = q /\ After(events[i]) = Known(q)
                            /\ \A j \in (i + 1) .. Len(events) : events[j].pod # q)'
  BY DEF LastIsObject
<1>2. CASE q = p
  <2>1. events'[Len(events')] = e /\ Len(events') \in 1 .. Len(events')
    BY <1>1
  <2>2. Known(p)' = After(e)
    BY DEF Known, Exists, Sound
  <2> QED
    BY <1>2, <2>1, <2>2 DEF Sound
<1>3. CASE q # p
  <2>1. Known(q)' = Known(q)
    BY <1>3 DEF Known, Exists
  <2>2. e.pod # q
    BY <1>3 DEF Sound
  <2>3. CASE (\A i \in 1 .. Len(events) : events[i].pod # q) /\ cache[q] = Known(q)
    <3>1. \A i \in 1 .. Len(events') : events'[i].pod # q
      BY <1>1, <2>2, <2>3
    <3> QED
      BY <2>1, <2>3, <3>1
  <2>4. ASSUME NEW i \in 1 .. Len(events), events[i].pod = q, After(events[i]) = Known(q),
               \A j \in (i + 1) .. Len(events) : events[j].pod # q
        PROVE  (\E m \in 1 .. Len(events) :
                  /\ events[m].pod = q /\ After(events[m]) = Known(q)
                  /\ \A j \in (m + 1) .. Len(events) : events[j].pod # q)'
    <3>1. i \in 1 .. Len(events') /\ events'[i] = events[i]
      BY <1>1, <2>4
    <3>2. \A j \in (i + 1) .. Len(events') : events'[j].pod # q
      BY <1>1, <2>2, <2>4
    <3> QED
      BY <2>1, <2>4, <3>1, <3>2
  <2> QED
    BY <1>1, <2>3, <2>4 DEF IdentIInv, LastIsObject
<1> QED
  BY <1>2, <1>3

\* ... and a new claimant of an address comes after the event that has taken it
\* from the old one, which cannot claim it any more.
LEMMA ChangeKeepsTaken ==
  ASSUME IdentIInv, NEW p \in Pods, NEW n, NEW e, Tells(p, n, e), Sound(p, n, e)
  PROVE  TakenFirst'
<1> USE ChangeEffect
<1>1. SUFFICES ASSUME NEW a \in PodAddresses \ unclear', NEW r \in Pods, NEW q \in Pods, r # q
               PROVE  /\ Points(cache[r], a) =>
                           \A k \in 1 .. Len(events') :
                             Announces(events'[k], q, a) =>
                               \E j \in 1 .. (k - 1) : Retracts(events'[j], r, a)
                      /\ \A i, k \in 1 .. Len(events') :
                           i < k /\ Announces(events'[i], r, a) /\ Announces(events'[k], q, a) =>
                             \E j \in (i + 1) .. (k - 1) : Retracts(events'[j], r, a)
  BY DEF TakenFirst
<1>2. a \in PodAddresses \ unclear
  BY DEF Sound
<1>3. ASSUME Following, Announces(e, q, a)
      PROVE  /\ Points(cache[r], a) => \E j \in 1 .. Len(events) : Retracts(events[j], r, a)
             /\ \A i \in 1 .. Len(events) :
                  Announces(events[i], r, a) =>
                    \E j \in (i + 1) .. Len(events) : Retracts(events[j], r, a)
  <2>1. q = p /\ Points(n, a)
    BY <1>3, NoObjectType, IdentAssumption DEF IdentAssumption, Sound, Announces, After, Points, Indexed
  <2>2. ~Claims(r, a)
    BY <1>1, <2>1 DEF Sound
  <2> QED
    BY <1>2, <1>3, <2>2, RetractionComes
<1>4. ASSUME NEW k \in 1 .. Len(events'), Announces(events'[k], q, a), Points(cache[r], a)
      PROVE  \E j \in 1 .. (k - 1) : Retracts(events'[j], r, a)
  <2>1. CASE k \in 1 .. Len(events)
    BY <1>1, <1>2, <1>4, <2>1 DEF IdentIInv, TakenFirst
  <2>2. CASE k \notin 1 .. Len(events)
    <3>1. Following /\ k = Len(events) + 1 /\ events'[k] = e
      BY <2>2
    <3>2. PICK j \in 1 .. Len(events) : Retracts(events[j], r, a)
      BY <1>3, <1>4, <3>1
    <3> QED
      BY <3>1, <3>2
  <2> QED
    BY <2>1, <2>2
<1>5. ASSUME NEW i \in 1 .. Len(events'), NEW k \in 1 .. Len(events'), i < k,
             Announces(events'[i], r, a), Announces(events'[k], q, a)
      PROVE  \E j \in (i + 1) .. (k - 1) : Retracts(events'[j], r, a)
  <2>1. CASE k \in 1 .. Len(events)
    <3>1. i \in 1 .. Len(events)
      BY <1>5, <2>1
    <3>2. PICK j \in (i + 1) .. (k - 1) : Retracts(events[j], r, a)
      BY <1>1, <1>2, <1>5, <2>1, <3>1 DEF IdentIInv, TakenFirst
    <3> QED
      BY <2>1, <3>1, <3>2
  <2>2. CASE k \notin 1 .. Len(events)
    <3>1. Following /\ k = Len(events) + 1 /\ events'[k] = e /\ i \in 1 .. Len(events)
      BY <1>5, <2>2
    <3>2. PICK j \in (i + 1) .. Len(events) : Retracts(events[j], r, a)
      BY <1>3, <1>5, <3>1
    <3> QED
      BY <3>1, <3>2
  <2> QED
    BY <2>1, <2>2
<1> QED
  BY <1>4, <1>5

\* So every sound change keeps the invariant.
LEMMA ChangeKeeps ==
  ASSUME IdentIInv, NEW p \in Pods, NEW n, NEW e, Tells(p, n, e), Sound(p, n, e)
  PROVE  IdentIInv'
<1>1. TypeOK'
  BY ChangeTypes
<1>2. AddressesOfRun' /\ UpdatesOfPods' /\ EventsFollowed' /\ OneClaimant' /\ AddressKept'
  BY ChangeKeepsAddresses
<1>3. LastIsObject' /\ TakenFirst'
  BY ChangeKeepsLast, ChangeKeepsTaken
<1>4. MapIsCache'
  BY DEF IdentIInv, MapIsCache, Tells, Sound
<1> QED
  BY <1>1, <1>2, <1>3, <1>4 DEF IdentIInv

-------------------------------------------------------------------------------
\* The fields of an object.
LEMMA PodFields ==
  ASSUME IdentIInv, NEW p \in Pods
  PROVE  /\ object[p] \in Objects
         /\ object[p].phase \in {"none", "pending", "running", "done", "deleted"}
         /\ object[p].addr \in PodAddresses \union {NoAddress}
         /\ object[p].edits \in 0 .. MaxEdits
         /\ object[p].addr # NoAddress => object[p].phase \in {"running", "done", "deleted"}
BY DEF IdentIInv, TypeOK, AddressesOfRun, Objects

\* A change of the code's form is one of those above.
LEMMA UpdateTells ==
  ASSUME NEW p \in Pods, NEW n \in Objects, Change(p, n)
  PROVE  \E e : /\ Tells(p, n, e) /\ e \in Events
               /\ e.type = "update" /\ e.pod = p /\ e.object = n
<1>1. PICK e : e = [type |-> "update", pod |-> p, object |-> n]
  OBVIOUS
<1>2. e \in Events /\ e.type = "update" /\ e.pod = p /\ e.object = n
  BY <1>1 DEF Events
<1>3. Tells(p, n, e)
  BY <1>1 DEF Change, Tell, Tells, Following
<1> QED
  BY <1>2, <1>3

\* An update whose object exists and keeps to the address is sound.
LEMMA UpdateKeeps ==
  ASSUME IdentIInv, NEW p \in Pods, NEW n \in Objects, Change(p, n),
         n.phase \in {"pending", "running", "done"},
         n.addr # NoAddress => n.phase # "pending",
         unclear \subseteq unclear', unclear' \subseteq PodAddresses,
         holder' \in [PodAddresses -> Pods \union {NoPod}],
         object[p].addr \notin {NoAddress} \union unclear' => n.addr = object[p].addr,
         \A a \in PodAddresses \ unclear', q \in Pods \ {p} : Points(n, a) => ~Claims(q, a)
  PROVE  IdentIInv'
<1>1. PICK e : /\ Tells(p, n, e) /\ e \in Events
               /\ e.type = "update" /\ e.pod = p /\ e.object = n
  BY UpdateTells
<1>2. Sound(p, n, e)
  BY <1>1 DEF Sound, After
<1> QED
  BY <1>1, <1>2, ChangeKeeps

\* Each action of the cluster is such a change: a new pod has no address,
LEMMA CreateKeeps == ASSUME IdentIInv, NEW p \in Pods, createPod(p) PROVE IdentIInv'
<1>1. PICK n : n = [NoObject EXCEPT !.phase = "pending"]
  OBVIOUS
<1>2. n \in Objects /\ n.phase = "pending" /\ n.addr = NoAddress
  BY <1>1, IdentAssumption DEF IdentAssumption, NoObject, Objects
<1>3. Change(p, n) /\ UNCHANGED <<holder, unclear>> /\ object[p].addr = NoAddress
  BY <1>1, NoObjectType DEF createPod
<1>4. \A a \in PodAddresses : ~Points(n, a)
  BY <1>2 DEF Points, Indexed
<1> QED
  BY <1>2, <1>3, <1>4, UpdateKeeps DEF IdentIInv, TypeOK

\* A new address has no other claimant, or it is unclear from now on; so is one
\* that the pod gives up.
LEMMA RunKeeps ==
  ASSUME IdentIInv, NEW p \in Pods, NEW a \in PodAddresses, runPod(p, a)
  PROVE  IdentIInv'
<1>1. PICK n : n = [object[p] EXCEPT !.phase = "running", !.addr = a]
  OBVIOUS
<1>2. n \in Objects /\ n.phase = "running" /\ n.addr = a
  BY <1>1, PodFields DEF Objects
<1>3. Change(p, n)
  BY <1>1 DEF runPod
<1>4. unclear \subseteq unclear' /\ unclear' \subseteq PodAddresses
  BY DEF runPod, IdentIInv, TypeOK
<1>5. holder' \in [PodAddresses -> Pods \union {NoPod}]
  BY DEF runPod, IdentIInv, TypeOK
<1>6. object[p].addr \notin {NoAddress} \union unclear' => n.addr = object[p].addr
  <2> SUFFICES ASSUME object[p].addr \notin {NoAddress} \union unclear', object[p].addr # a
               PROVE  FALSE
    BY <1>2
  <2>1. object[p].addr \in PodAddresses /\ object[p].phase = "running"
    BY PodFields DEF runPod
  <2>2. Claims(p, object[p].addr)
    BY <2>1, IdentAssumption DEF IdentAssumption, Claims, Indexed
  <2> QED
    BY <2>1, <2>2 DEF runPod
<1>7. \A b \in PodAddresses \ unclear', q \in Pods \ {p} : Points(n, b) => ~Claims(q, b)
  BY <1>2 DEF runPod, Points, Claimants
<1> QED
  BY <1>2, <1>3, <1>4, <1>5, <1>6, <1>7, UpdateKeeps

\* an edit touches neither address nor phase,
LEMMA EditKeeps == ASSUME IdentIInv, NEW p \in Pods, editPod(p) PROVE IdentIInv'
<1>1. PICK n : n = [object[p] EXCEPT !.edits = @ + 1]
  OBVIOUS
<1>2. n \in Objects /\ n.phase = object[p].phase /\ n.addr = object[p].addr
  BY <1>1, PodFields, IdentAssumption DEF IdentAssumption, editPod, Objects
<1>3. Change(p, n) /\ UNCHANGED <<holder, unclear>> /\ Exists(p)
  BY <1>1 DEF editPod
<1>4. n.phase \in {"pending", "running", "done"}
  BY <1>2, <1>3, PodFields DEF Exists
<1>5. \A a \in PodAddresses : Points(n, a) => Claims(p, a)
  BY <1>2 DEF Points, Claims, Indexed
<1>6. \A a \in PodAddresses \ unclear', q \in Pods \ {p} : Points(n, a) => ~Claims(q, a)
  BY <1>3, <1>5 DEF IdentIInv, OneClaimant
<1> QED
  BY <1>2, <1>3, <1>4, <1>6, PodFields, UpdateKeeps DEF IdentIInv, TypeOK

\* a finished pod keeps its address but no longer claims it,
LEMMA FinishKeeps == ASSUME IdentIInv, NEW p \in Pods, finishPod(p) PROVE IdentIInv'
<1>1. PICK n : n = [object[p] EXCEPT !.phase = "done"]
  OBVIOUS
<1>2. n \in Objects /\ n.phase = "done" /\ n.addr = object[p].addr
  BY <1>1, PodFields DEF Objects
<1>3. Change(p, n) /\ UNCHANGED <<holder, unclear>>
  BY <1>1 DEF finishPod
<1>4. \A a \in PodAddresses : ~Points(n, a)
  BY <1>2 DEF Points, Indexed
<1> QED
  BY <1>2, <1>3, <1>4, UpdateKeeps DEF IdentIInv, TypeOK

\* and a deleted one is told of by its last object.
LEMMA DeleteKeeps == ASSUME IdentIInv, NEW p \in Pods, deletePod(p) PROVE IdentIInv'
<1>1. PICK n, e : /\ n = [object[p] EXCEPT !.phase = "deleted"]
                  /\ e = [type |-> "delete", pod |-> p, object |-> object[p]]
  OBVIOUS
<1>2. n \in Objects /\ n.phase = "deleted" /\ n.addr = object[p].addr
  BY <1>1, PodFields DEF Objects
<1>3. e \in Events /\ e.type = "delete" /\ e.pod = p /\ e.object = object[p]
  BY <1>1, PodFields DEF Events
<1>4. object' = [object EXCEPT ![p] = n]
  BY <1>1 DEF deletePod, IdentIInv, TypeOK
<1>5. Tells(p, n, e)
  BY <1>1, <1>4 DEF deletePod, Tell, Tells, Following
<1>6. \A a \in PodAddresses : ~Points(n, a)
  BY <1>2 DEF Points, Indexed
<1>7. Sound(p, n, e)
  BY <1>2, <1>3, <1>6 DEF Sound, After, deletePod, IdentIInv, TypeOK
<1> QED
  BY <1>5, <1>7, ChangeKeeps

-------------------------------------------------------------------------------
\* The first event is taken and becomes what the informer knows of its pod.
LEMMA DeliverEffect ==
  ASSUME IdentIInv, deliver
  PROVE  /\ Len(events) \in Nat \ {0} /\ Len(events') = Len(events) - 1
         /\ \A i \in 1 .. Len(events) : events[i] \in Events
         /\ \A i \in 1 .. Len(events') : events'[i] = events[i + 1]
         /\ events' \in Seq(Events)
         /\ cache'[events[1].pod] = After(events[1])
         /\ \A p \in Pods \ {events[1].pod} : cache'[p] = cache[p]
         /\ cache' \in [Pods -> Objects]
         /\ informer = "watching"
         /\ UNCHANGED <<object, holder, informer, breaks, unclear>>
<1>1. events \in Seq(Events) /\ events # <<>>
  BY DEF deliver, IdentIInv, TypeOK
<1>2. /\ Len(events) \in Nat \ {0} /\ Len(Tail(events)) = Len(events) - 1
      /\ Tail(events) \in Seq(Events) /\ Head(events) = events[1]
      /\ \A i \in 1 .. Len(Tail(events)) : Tail(events)[i] = events[i + 1]
  BY <1>1, Rest
<1>3. \A i \in 1 .. Len(events) : events[i] \in Events
  BY <1>1
<1>4. events[1].pod \in Pods /\ events[1].object \in Objects /\ events[1].type \in {"update", "delete"}
  BY <1>2, <1>3 DEF Events
<1>5. cache' = [cache EXCEPT ![events[1].pod] = After(events[1])]
  BY <1>2, <1>4 DEF deliver, After
<1> QED
  BY <1>2, <1>3, <1>4, <1>5, NoObjectType DEF deliver, After, IdentIInv, TypeOK

\* What the map becomes: the pod of an update has its address, that of a
\* deletion has none.
LEMMA DeliverMap ==
  ASSUME IdentIInv, deliver
  PROVE  /\ ipMap' \in [PodAddresses -> Pods \union {NoPod}]
         /\ \A a \in PodAddresses :
              /\ Announces(events[1], events[1].pod, a) => ipMap'[a] = events[1].pod
              /\ ~Announces(events[1], events[1].pod, a) => ipMap'[a] \in {ipMap[a], NoPod}
              /\ ipMap[a] # events[1].pod /\ ~Announces(events[1], events[1].pod, a)
                   => ipMap'[a] = ipMap[a]
              /\ events[1].type = "delete" /\ events[1].object.addr = a
                   => ipMap'[a] # events[1].pod
<1>1. events \in Seq(Events) /\ events # <<>> /\ Head(events) = events[1] /\ events[1] \in Events
  BY Rest DEF deliver, IdentIInv, TypeOK
<1>2. events[1].pod \in Pods /\ events[1].object \in Objects /\ events[1].type \in {"update", "delete"}
  BY <1>1 DEF Events
<1>3. events[1].object.addr \in PodAddresses \union {NoAddress}
  BY <1>2 DEF Objects
<1>4. ipMap \in [PodAddresses -> Pods \union {NoPod}]
  BY DEF IdentIInv, TypeOK
<1>5. CASE events[1].type = "update"
  <2>1. ipMap' = indexPod(ipMap, events[1].pod, events[1].object)
    BY <1>1, <1>5 DEF deliver
  <2> QED
    BY <1>2, <1>3, <1>4, <1>5, <2>1 DEF indexPod, Announces, Points, Indexed
<1>6. CASE events[1].type = "delete"
  <2>1. ipMap' = removePod(ipMap, events[1].pod, events[1].object)
    BY <1>1, <1>6 DEF deliver
  <2> QED
    BY <1>2, <1>3, <1>4, <1>6, <2>1, IdentAssumption DEF IdentAssumption, removePod, Announces
<1> QED
  BY <1>2, <1>5, <1>6

\* Delivery of the first event, part by part: what is known of its pod becomes
\* what the event says, and addresses are kept along the events;
LEMMA DeliverKeepsAddresses ==
  ASSUME IdentIInv, deliver
  PROVE  AddressesOfRun' /\ UpdatesOfPods' /\ EventsFollowed' /\ OneClaimant' /\ AddressKept'
<1> USE DeliverEffect
<1>1. AddressesOfRun'
  BY DEF IdentIInv, AddressesOfRun
<1>2. UpdatesOfPods'
  BY DEF IdentIInv, UpdatesOfPods
<1>3. EventsFollowed'
  BY DEF EventsFollowed, Following
<1>4. OneClaimant'
  BY DEF IdentIInv, OneClaimant, Claims
<1>5. ASSUME NEW q \in Pods, cache'[q].addr \notin {NoAddress} \union unclear
      PROVE  /\ object[q].addr = cache'[q].addr
             /\ \A i \in 1 .. Len(events') :
                  events'[i].pod = q => events'[i].object.addr = cache'[q].addr
  <2>1. CASE q = events[1].pod
    <3>1. cache'[q] = events[1].object
      BY <1>5, <2>1, NoObjectType DEF After
    <3>2. 1 \in 1 .. Len(events)
      OBVIOUS
    <3>3. /\ object[q].addr = cache'[q].addr
          /\ \A j \in 1 .. Len(events) : events[j].pod = q => events[j].object.addr = cache'[q].addr
      BY <1>5, <2>1, <3>1, <3>2 DEF IdentIInv, AddressKept
    <3> QED
      BY <3>3
  <2>2. CASE q # events[1].pod
    BY <1>5, <2>2 DEF IdentIInv, AddressKept
  <2> QED
    BY <2>1, <2>2
<1>6. ASSUME NEW i \in 1 .. Len(events'), events'[i].object.addr \notin {NoAddress} \union unclear
      PROVE  /\ object[events'[i].pod].addr = events'[i].object.addr
             /\ \A j \in i .. Len(events') :
                  events'[j].pod = events'[i].pod => events'[j].object.addr = events'[i].object.addr
  <2>1. i + 1 \in 1 .. Len(events) /\ events'[i] = events[i + 1]
    OBVIOUS
  <2>2. /\ object[events[i + 1].pod].addr = events[i + 1].object.addr
        /\ \A j \in (i + 1) .. Len(events) :
             events[j].pod = events[i + 1].pod => events[j].object.addr = events[i + 1].object.addr
    BY <1>6, <2>1 DEF IdentIInv, AddressKept
  <2>3. ASSUME NEW j \in i .. Len(events'), events'[j].pod = events'[i].pod
        PROVE  events'[j].object.addr = events'[i].object.addr
    <3>1. j + 1 \in (i + 1) .. Len(events) /\ events'[j] = events[j + 1]
      OBVIOUS
    <3> QED
      BY <2>1, <2>2, <2>3, <3>1
  <2> QED
    BY <2>1, <2>2, <2>3
<1>7. AddressKept'
  BY <1>5, <1>6 DEF AddressKept
<1> QED
  BY <1>1, <1>2, <1>3, <1>4, <1>7

\* the last event of a pod is still under way, or is the one delivered;
LEMMA DeliverKeepsLast ==
  ASSUME IdentIInv, deliver
  PROVE  LastIsObject'
<1> USE DeliverEffect
<1>1. Following /\ Following' /\ \A p \in Pods : Known(p)' = Known(p)
  BY DEF Following, Known, Exists
<1>2. ASSUME NEW q \in Pods, \A i \in 1 .. Len(events') : events'[i].pod # q
      PROVE  cache'[q] = Known(q)
  <2>1. \A i \in 2 .. Len(events) : events[i].pod # q
    <3> SUFFICES ASSUME NEW i \in 2 .. Len(events), events[i].pod = q PROVE FALSE
      OBVIOUS
    <3>1. i - 1 \in 1 .. Len(events') /\ events'[i - 1] = events[i]
      OBVIOUS
    <3> QED
      BY <1>2, <3>1
  <2>2. CASE events[1].pod = q
    <3>1. PICK i \in 1 .. Len(events) : events[i].pod = q /\ After(events[i]) = Known(q)
      BY <1>1, <2>2 DEF IdentIInv, LastIsObject
    <3>2. i = 1
      BY <2>1, <3>1
    <3> QED
      BY <2>2, <3>1, <3>2
  <2>3. CASE events[1].pod # q
    <3>1. \A i \in 1 .. Len(events) : events[i].pod # q
      BY <2>1, <2>3
    <3>2. cache[q] = Known(q)
      BY <1>1, <3>1 DEF IdentIInv, LastIsObject
    <3> QED
      BY <2>3, <3>2
  <2> QED
    BY <2>2, <2>3
<1>3. ASSUME NEW q \in Pods, NEW k \in 1 .. Len(events'), events'[k].pod = q
      PROVE  \E i \in 1 .. Len(events') :
               /\ events'[i].pod = q /\ After(events'[i]) = Known(q)
               /\ \A j \in (i + 1) .. Len(events') : events'[j].pod # q
  <2>1. k + 1 \in 1 .. Len(events) /\ events[k + 1].pod = q
    BY <1>3
  <2>2. PICK i \in 1 .. Len(events) :
          /\ events[i].pod = q /\ After(events[i]) = Known(q)
          /\ \A j \in (i + 1) .. Len(events) : events[j].pod # q
    BY <1>1, <2>1 DEF IdentIInv, LastIsObject
  <2>3. k + 1 <= i
    <3>1. k + 1 \notin (i + 1) .. Len(events)
      BY <2>1, <2>2
    <3> QED
      BY <2>1, <2>2, <3>1
  <2>4. i - 1 \in 1 .. Len(events') /\ (i - 1) + 1 = i
    BY <2>3
  <2>5. events'[i - 1] = events[i]
    BY <2>4
  <2>6. ASSUME NEW j \in i .. Len(events') PROVE events'[j].pod # q
    <3>1. j + 1 \in (i + 1) .. Len(events) /\ events'[j] = events[j + 1]
      BY <2>4
    <3> QED
      BY <2>2, <3>1
  <2> QED
    BY <2>2, <2>4, <2>5, <2>6
<1>4. ASSUME NEW q \in Pods
      PROVE  \/ /\ \A i \in 1 .. Len(events') : events'[i].pod # q
                /\ cache'[q] = Known(q)'
             \/ \E i \in 1 .. Len(events') :
                  /\ events'[i].pod = q /\ After(events'[i]) = Known(q)'
                  /\ \A j \in (i + 1) .. Len(events') : events'[j].pod # q
  <2>1. Known(q)' = Known(q)
    BY <1>1
  <2>2. CASE \A i \in 1 .. Len(events') : events'[i].pod # q
    BY <1>2, <2>1, <2>2
  <2>3. CASE \E i \in 1 .. Len(events') : events'[i].pod = q
    BY <1>3, <2>1, <2>3
  <2> QED
    BY <2>2, <2>3
<1> QED
  BY <1>4 DEF LastIsObject

\* and what has to be taken from a pod is taken by a later event.
LEMMA DeliverKeepsTaken ==
  ASSUME IdentIInv, deliver
  PROVE  TakenFirst'
<1> USE DeliverEffect
<1>1. SUFFICES ASSUME NEW a \in PodAddresses \ unclear, NEW r \in Pods, NEW q \in Pods, r # q
               PROVE  /\ Points(cache'[r], a) =>
                           \A k \in 1 .. Len(events') :
                             Announces(events'[k], q, a) =>
                               \E j \in 1 .. (k - 1) : Retracts(events'[j], r, a)
                      /\ \A i, k \in 1 .. Len(events') :
                           i < k /\ Announces(events'[i], r, a) /\ Announces(events'[k], q, a) =>
                             \E j \in (i + 1) .. (k - 1) : Retracts(events'[j], r, a)
  BY DEF TakenFirst
<1>2. ASSUME NEW k \in 1 .. Len(events'), Announces(events'[k], q, a), Points(cache'[r], a)
      PROVE  \E j \in 1 .. (k - 1) : Retracts(events'[j], r, a)
  <2>1. k + 1 \in 1 .. Len(events) /\ Announces(events[k + 1], q, a)
    BY <1>2
  <2>2. \E j \in 2 .. k : Retracts(events[j], r, a)
    <3>1. CASE r = events[1].pod
      <4>1. Announces(events[1], r, a)
        BY <1>1, <1>2, <3>1, NoObjectType DEF Announces, After, Points, Indexed
      <4>2. 1 \in 1 .. Len(events) /\ 1 < k + 1
        OBVIOUS
      <4>3. \E j \in (1 + 1) .. ((k + 1) - 1) : Retracts(events[j], r, a)
        BY <1>1, <2>1, <4>1, <4>2 DEF IdentIInv, TakenFirst
      <4> QED
        BY <4>3
    <3>2. CASE r # events[1].pod
      <4>1. \E j \in 1 .. ((k + 1) - 1) : Retracts(events[j], r, a)
        BY <1>1, <1>2, <2>1, <3>2 DEF IdentIInv, TakenFirst
      <4>2. ~Retracts(events[1], r, a)
        BY <3>2 DEF Retracts
      <4> QED
        BY <4>1, <4>2
    <3> QED
      BY <3>1, <3>2
  <2>3. PICK j \in 2 .. k : Retracts(events[j], r, a)
    BY <2>2
  <2>4. j - 1 \in 1 .. (k - 1) /\ events'[j - 1] = events[j]
    OBVIOUS
  <2> QED
    BY <2>3, <2>4
<1>3. ASSUME NEW i \in 1 .. Len(events'), NEW k \in 1 .. Len(events'), i < k,
             Announces(events'[i], r, a), Announces(events'[k], q, a)
      PROVE  \E j \in (i + 1) .. (k - 1) : Retracts(events'[j], r, a)
  <2>1. /\ i + 1 \in 1 .. Len(events) /\ k + 1 \in 1 .. Len(events) /\ i + 1 < k + 1
        /\ Announces(events[i + 1], r, a) /\ Announces(events[k + 1], q, a)
    BY <1>3
  <2>2. PICK j \in ((i + 1) + 1) .. ((k + 1) - 1) : Retracts(events[j], r, a)
    BY <1>1, <2>1 DEF IdentIInv, TakenFirst
  <2>3. j - 1 \in (i + 1) .. (k - 1) /\ events'[j - 1] = events[j]
    OBVIOUS
  <2> QED
    BY <2>2, <2>3
<1> QED
  BY <1>2, <1>3

\* An event that gives an address to a pod finds no other pod known by it, and
\* one that deletes a pod knows the address by which the pod is known.
LEMMA DeliverKeepsMap ==
  ASSUME IdentIInv, deliver
  PROVE  MapIsCache'
<1> USE DeliverEffect
<1>1. SUFFICES ASSUME NEW a \in PodAddresses \ unclear
               PROVE  /\ \A p \in Pods : Points(cache'[p], a) => ipMap'[a] = p
                      /\ ipMap'[a] # NoPod => /\ cache'[ipMap'[a]].phase \notin {"none", "deleted"}
                                             /\ cache'[ipMap'[a]].addr = a
  BY DEF MapIsCache
<1>2. 1 \in 1 .. Len(events) /\ events[1].pod \in Pods /\ events[1].type \in {"update", "delete"}
  BY DEF Events
<1>3. /\ \A p \in Pods : Points(cache[p], a) => ipMap[a] = p
      /\ ipMap[a] # NoPod => /\ cache[ipMap[a]].phase \notin {"none", "deleted"}
                            /\ cache[ipMap[a]].addr = a
  BY <1>1 DEF IdentIInv, MapIsCache
<1>4. ASSUME NEW p \in Pods, Points(cache'[p], a)
      PROVE  ipMap'[a] = p
  <2>1. CASE p = events[1].pod
    <3>1. Announces(events[1], p, a)
      BY <1>2, <1>4, <2>1, NoObjectType DEF Announces, After, Points, Indexed
    <3> QED
      BY <1>1, <2>1, <3>1, DeliverMap
  <2>2. CASE p # events[1].pod
    <3>1. Points(cache[p], a) /\ ipMap[a] = p
      BY <1>3, <1>4, <2>2
    <3>2. ~Announces(events[1], events[1].pod, a)
      <4> SUFFICES ASSUME Announces(events[1], events[1].pod, a) PROVE FALSE
        OBVIOUS
      <4>1. \E j \in 1 .. (1 - 1) : Retracts(events[j], p, a)
        BY <1>1, <1>2, <2>2, <3>1 DEF IdentIInv, TakenFirst
      <4> QED
        BY <4>1
    <3> QED
      BY <1>1, <2>2, <3>1, <3>2, DeliverMap
  <2> QED
    BY <2>1, <2>2
<1>5. ASSUME ipMap'[a] # NoPod
      PROVE  cache'[ipMap'[a]].phase \notin {"none", "deleted"} /\ cache'[ipMap'[a]].addr = a
  <2>1. CASE Announces(events[1], events[1].pod, a)
    <3>1. ipMap'[a] = events[1].pod /\ cache'[ipMap'[a]] = events[1].object
      BY <1>1, <2>1, DeliverMap DEF Announces, After
    <3> QED
      BY <2>1, <3>1 DEF Announces, Points, Indexed
  <2>2. CASE ~Announces(events[1], events[1].pod, a)
    <3>1. ipMap'[a] = ipMap[a] /\ ipMap[a] \in Pods
      BY <1>1, <1>5, <2>2, DeliverMap DEF IdentIInv, TypeOK
    <3>2. CASE ipMap[a] # events[1].pod
      BY <1>3, <1>5, <3>1, <3>2
    <3>3. CASE ipMap[a] = events[1].pod
      <4>1. cache[events[1].pod].addr = a
        BY <1>3, <1>5, <3>1, <3>3
      <4>2. events[1].object.addr = a
        BY <1>1, <1>2, <4>1, IdentAssumption DEF IdentAssumption, IdentIInv, AddressKept
      <4>3. events[1].type = "update"
        BY <1>1, <1>2, <3>1, <3>3, <4>2, DeliverMap
      <4>4. events[1].object.phase \in {"pending", "running", "done"}
        BY <1>2, <4>3 DEF IdentIInv, UpdatesOfPods
      <4> QED
        BY <3>1, <3>3, <4>2, <4>3, <4>4 DEF After
    <3> QED
      BY <3>2, <3>3
  <2> QED
    BY <2>1, <2>2
<1> QED
  BY <1>4, <1>5

\* Delivery keeps the invariant (service-id.ts:36-43).
LEMMA DeliverKeeps == ASSUME IdentIInv, deliver PROVE IdentIInv'
<1>1. TypeOK'
  BY DeliverEffect, DeliverMap DEF IdentIInv, TypeOK
<1> QED
  BY <1>1, DeliverKeepsAddresses, DeliverKeepsLast, DeliverKeepsTaken, DeliverKeepsMap
     DEF IdentIInv

-------------------------------------------------------------------------------
\* What a list leaves: nothing under way, every pod known as it is, and of each
\* address what the code makes of it.
LEMMA ListEffect ==
  ASSUME IdentIInv, NEW m \in [PodAddresses -> Pods \union {NoPod}], list(m)
  PROVE  /\ events' = <<>> /\ Len(events') = 0 /\ informer' = "watching"
         /\ cache' \in [Pods -> Objects]
         /\ \A p \in Pods : cache'[p] = Known(p)
         /\ ipMap' = m
         /\ UNCHANGED <<object, holder, breaks, unclear>>
BY NoObjectType DEF list, Known, IdentIInv, TypeOK

\* A list leaves a map that says what is listed, in whatever order the pods come.
LEMMA ListKeepsMap ==
  ASSUME IdentIInv, NEW m \in [PodAddresses -> Pods \union {NoPod}], list(m)
  PROVE  MapIsCache'
<1> USE ListEffect
<1>1. SUFFICES ASSUME NEW a \in PodAddresses \ unclear
               PROVE  /\ \A p \in Pods : Points(Known(p), a) => m[a] = p
                      /\ m[a] # NoPod => /\ Known(m[a]).phase \notin {"none", "deleted"}
                                        /\ Known(m[a]).addr = a
  BY DEF MapIsCache
<1>2. PICK new \in SUBSET Pods :
        /\ new = {p \in Listed : object[p].addr = a}
        /\ new # {} => m[a] \in new
        /\ new = {} => m[a] = IF Lost(a) THEN NoPod ELSE ipMap[a]
  <2>1. {p \in Listed : object[p].addr = a} \in SUBSET Pods
    BY DEF Listed
  <2> QED
    BY <1>1, <2>1 DEF list
<1>3. \A p \in Pods : p \in new <=> Exists(p) /\ object[p] # cache[p] /\ Claims(p, a)
  BY <1>2 DEF Listed, Claims
<1>4. /\ \A p \in Pods : Points(cache[p], a) => ipMap[a] = p
      /\ ipMap[a] # NoPod => /\ cache[ipMap[a]].phase \notin {"none", "deleted"}
                            /\ cache[ipMap[a]].addr = a
  BY <1>1 DEF IdentIInv, MapIsCache
<1>5. ASSUME NEW p \in Pods, Points(Known(p), a)
      PROVE  m[a] = p
  <2>1. Exists(p) /\ Claims(p, a) /\ Points(object[p], a)
    BY <1>5, NoObjectType DEF Known, Points, Indexed, Claims
  <2>2. new \subseteq {p}
    BY <1>1, <1>3, <2>1 DEF IdentIInv, OneClaimant
  <2>3. CASE p \in new
    BY <1>2, <2>2, <2>3
  <2>4. CASE p \notin new
    <3>1. ipMap[a] = p
      BY <1>3, <1>4, <2>1, <2>4
    <3>2. ~Lost(a)
      BY <2>1, <3>1 DEF Lost
    <3> QED
      BY <1>2, <2>2, <2>4, <3>1, <3>2
  <2> QED
    BY <2>3, <2>4
<1>6. ASSUME m[a] # NoPod
      PROVE  Known(m[a]).phase \notin {"none", "deleted"} /\ Known(m[a]).addr = a
  <2>1. CASE new # {}
    <3>1. Exists(m[a]) /\ object[m[a]].addr = a
      BY <1>2, <1>3, <2>1 DEF Claims
    <3> QED
      BY <3>1 DEF Known, Exists
  <2>2. CASE new = {}
    <3>1. m[a] = ipMap[a] /\ ~Lost(a) /\ ipMap[a] \in Pods
      BY <1>1, <1>2, <1>6, <2>2
    <3>2. cache[m[a]].addr = a
      BY <1>4, <1>6, <3>1
    <3>3. Exists(m[a])
      BY <3>1, <3>2 DEF Lost
    <3>4. object[m[a]].addr = a
      BY <1>1, <3>1, <3>2, IdentAssumption DEF IdentAssumption, IdentIInv, AddressKept
    <3> QED
      BY <3>3, <3>4 DEF Known, Exists
  <2> QED
    BY <2>1, <2>2
<1> QED
  BY <1>5, <1>6

\* A list keeps the invariant (service-id.ts:54).
LEMMA ListKeeps ==
  ASSUME IdentIInv, NEW m \in [PodAddresses -> Pods \union {NoPod}], list(m)
  PROVE  IdentIInv'
<1> USE ListEffect
<1>1. TypeOK'
  BY NoEvents DEF IdentIInv, TypeOK
<1>2. AddressesOfRun' /\ UpdatesOfPods' /\ EventsFollowed'
  BY DEF IdentIInv, AddressesOfRun, UpdatesOfPods, EventsFollowed
<1>3. OneClaimant'
  BY DEF IdentIInv, OneClaimant, Claims
<1>4. AddressKept'
  <2>1. \A p \in Pods : Known(p).addr # NoAddress => Known(p).addr = object[p].addr
    BY NoObjectType DEF Known
  <2> QED
    BY <2>1 DEF AddressKept
<1>5. LastIsObject'
  <2>1. \A p \in Pods : Known(p)' = Known(p)
    BY DEF Known, Exists
  <2> QED
    BY <2>1 DEF LastIsObject
<1>6. TakenFirst'
  BY DEF TakenFirst
<1> QED
  BY <1>1, <1>2, <1>3, <1>4, <1>5, <1>6, ListKeepsMap DEF IdentIInv

\* Nothing that the invariant speaks of changes, but that a lost informer has no
\* events and another one keeps them.
LEMMA QuietKeeps ==
  ASSUME IdentIInv, UNCHANGED <<object, cache, ipMap, unclear>>,
         holder' \in [PodAddresses -> Pods \union {NoPod}],
         informer' \in {"new", "watching", "broken", "dead", "off"},
         breaks' \in 0 .. MaxBreaks,
         \/ events' = events /\ (Following' <=> Following)
         \/ events' = <<>> /\ ~Following'
  PROVE  IdentIInv'
<1>1. \A p \in Pods, a \in PodAddresses : (Claims(p, a)' <=> Claims(p, a)) /\ Known(p)' = Known(p)
  BY DEF Claims, Known, Exists
<1>2. TypeOK' /\ AddressesOfRun' /\ OneClaimant' /\ MapIsCache'
  <2>1. TypeOK'
    <3>1. events' \in Seq(Events)
      BY NoEvents DEF IdentIInv, TypeOK
    <3> QED
      BY <3>1 DEF IdentIInv, TypeOK
  <2>2. AddressesOfRun' /\ MapIsCache'
    BY DEF IdentIInv, AddressesOfRun, MapIsCache
  <2>3. OneClaimant'
    BY DEF IdentIInv, OneClaimant, Claims
  <2> QED
    BY <2>1, <2>2, <2>3
<1>3. CASE events' = events /\ (Following' <=> Following)
  <2>1. UpdatesOfPods' /\ EventsFollowed'
    BY <1>3 DEF IdentIInv, UpdatesOfPods, EventsFollowed
  <2>2. AddressKept'
    BY <1>3 DEF IdentIInv, AddressKept
  <2>3. LastIsObject'
    BY <1>3 DEF IdentIInv, LastIsObject, Known, Exists
  <2>4. TakenFirst'
    BY <1>3 DEF IdentIInv, TakenFirst
  <2> QED
    BY <1>2, <2>1, <2>2, <2>3, <2>4 DEF IdentIInv
<1>4. CASE events' = <<>> /\ ~Following'
  <2>1. Len(events') = 0
    BY <1>4
  <2>2. UpdatesOfPods' /\ EventsFollowed' /\ LastIsObject' /\ TakenFirst'
    BY <1>4, <2>1 DEF UpdatesOfPods, EventsFollowed, LastIsObject, TakenFirst
  <2>3. AddressKept'
    BY <2>1 DEF IdentIInv, AddressKept
  <2> QED
    BY <1>2, <2>2, <2>3 DEF IdentIInv
<1> QED
  BY <1>3, <1>4

\* Every step of the cluster, the informer and the proxy keeps the invariant.
LEMMA IdentStepKeeps == IdentIInv /\ [Next]_identVars => IdentIInv'
<1> SUFFICES ASSUME IdentIInv, [Next]_identVars PROVE IdentIInv'
  OBVIOUS
<1>1. ASSUME NEW p \in Pods,
             \/ createPod(p) \/ editPod(p) \/ finishPod(p) \/ deletePod(p)
             \/ \E a \in PodAddresses : runPod(p, a)
      PROVE  IdentIInv'
  BY <1>1, CreateKeeps, EditKeeps, FinishKeeps, DeleteKeeps, RunKeeps
<1>2. ASSUME NEW p \in Pods, release(p) PROVE IdentIInv'
  <2>1. holder' \in [PodAddresses -> Pods \union {NoPod}]
    BY <1>2 DEF release, IdentIInv, TypeOK
  <2> QED
    BY <1>2, <2>1, QuietKeeps DEF release, IdentIInv, TypeOK, Following
<1>3. CASE deliver
  BY <1>3, DeliverKeeps
<1>4. CASE initK8s
  BY <1>4, ListKeeps DEF initK8s
<1>5. CASE initFails
  BY <1>5, QuietKeeps DEF initFails, IdentIInv, TypeOK, Following
<1>6. CASE connectionBreaks
  <2>1. breaks' \in 0 .. MaxBreaks
    BY <1>6, IdentAssumption DEF IdentAssumption, connectionBreaks, IdentIInv, TypeOK
  <2> QED
    BY <1>6, <2>1, QuietKeeps DEF connectionBreaks, IdentIInv, TypeOK, Following
<1>7. CASE restart
  BY <1>7, ListKeeps, QuietKeeps DEF restart, IdentIInv, TypeOK, Following
<1>8. CASE restartFails
  BY <1>8, QuietKeeps DEF restartFails, IdentIInv, TypeOK, Following
<1>9. CASE UNCHANGED identVars
  BY <1>9, QuietKeeps DEF identVars, IdentIInv, TypeOK, Following
<1> QED
  BY <1>1, <1>2, <1>3, <1>4, <1>5, <1>6, <1>7, <1>8, <1>9 DEF Next

\* Without events under way, what the informer knows of a pod is its object.
LEMMA IdentFollows == IdentIInv => MapFollowsPods
<1> SUFFICES ASSUME IdentIInv, informer = "watching", events = <<>>,
                    NEW a \in PodAddresses \ unclear
             PROVE  /\ Claimants(a) # {} => ipMap[a] \in Claimants(a)
                    /\ ipMap[a] # NoPod => Exists(ipMap[a]) /\ object[ipMap[a]].addr = a
  BY DEF MapFollowsPods, CaughtUp
<1>1. \A p \in Pods : cache[p] = Known(p)
  BY DEF IdentIInv, LastIsObject, Following
<1>2. /\ \A p \in Pods : Points(cache[p], a) => ipMap[a] = p
      /\ ipMap[a] # NoPod => /\ cache[ipMap[a]].phase \notin {"none", "deleted"}
                            /\ cache[ipMap[a]].addr = a
  BY DEF IdentIInv, MapIsCache
<1>3. ASSUME NEW p \in Pods, Claims(p, a) PROVE ipMap[a] = p
  <2>1. Points(Known(p), a)
    BY <1>3 DEF Claims, Points, Known, Exists, Indexed
  <2> QED
    BY <1>1, <1>2, <2>1
<1>4. ASSUME ipMap[a] # NoPod PROVE Exists(ipMap[a]) /\ object[ipMap[a]].addr = a
  <2>1. ipMap[a] \in Pods
    BY <1>4 DEF IdentIInv, TypeOK
  <2> QED
    BY <1>1, <1>2, <1>4, <2>1, NoObjectType DEF Known
<1> QED
  BY <1>3, <1>4 DEF Claimants

\* The map says what the informer knows, and the events under way lead from that to
\* the objects, in every behaviour: for any number of pods, addresses and events.
THEOREM IdentInvariant == Spec => []IdentIInv
BY IdentStarts, IdentStepKeeps, PTL DEF Spec

\* Every variable of the identification keeps its type.
THEOREM IdentTypeCorrect == Spec => []TypeOK
<1>1. IdentIInv => TypeOK
  BY DEF IdentIInv
<1> QED
  BY <1>1, IdentInvariant, PTL

\* Once the informer has caught up, the map is right about every address that was
\* never claimed twice (service-id.ts:136-170).
THEOREM FollowsPods == Spec => []MapFollowsPods
BY IdentFollows, IdentInvariant, PTL


-------------------------------------------------------------------------------
(***************************************************************************)
(* Powers of two, and quotients by them.                                   *)
(***************************************************************************)

\* A set of numbers has a least one.
LEMMA LeastOf ==
  ASSUME NEW S, S \subseteq Nat, S # {}
  PROVE  \E m \in S : \A x \in S : m <= x
<1> DEFINE Below(m) == {s \in S : s < m}
           Lowers == {Below(m) : m \in S}
<1>1. Lowers \subseteq FiniteSubsetsOf(S)
  <2>1. ASSUME NEW m \in S PROVE IsFiniteSet(Below(m))
    <3>1. m \in Int /\ Below(m) \subseteq 0 .. m
      <4>1. m \in Nat
        OBVIOUS
      <4>2. \A s \in S : s \in Nat
        OBVIOUS
      <4>3. \A s \in Below(m) : s \in Nat /\ s < m
        BY <4>2
      <4> HIDE DEF Below
      <4>4. Below(m) \subseteq 0 .. m
        BY <4>1, <4>3
      <4> QED
        BY <4>1, <4>4
    <3>2. IsFiniteSet(0 .. m)
      BY <3>1, FS_Interval
    <3> QED
      BY <3>1, <3>2, FS_Subset
  <2> QED
    BY <2>1 DEF FiniteSubsetsOf
<1>2. PICK u \in Lowers : \A v \in Lowers : <<v, u>> \notin StrictSubsetOrdering(S)
  <2>1. Lowers # {}
    OBVIOUS
  <2> HIDE DEF Lowers
  <2>2. IsWellFoundedOn(StrictSubsetOrdering(S), FiniteSubsetsOf(S))
    BY FS_StrictSubsetOrderingWellFounded
  <2> QED
    BY <1>1, <2>1, <2>2, WFMin
<1>3. PICK m \in S : u = Below(m)
  OBVIOUS
<1>4. ASSUME NEW x \in S, x < m PROVE FALSE
  <2>1. x \in Nat /\ m \in Nat
    OBVIOUS
  <2>2. x \in Below(m) /\ x \notin Below(x)
    BY <1>4, <2>1
  <2>3. \A s \in S : s < x => s < m
    BY <1>4, <2>1
  <2>4. Below(x) \subseteq Below(m) /\ Below(x) # Below(m)
    BY <2>2, <2>3
  <2>5. <<Below(x), u>> \in StrictSubsetOrdering(S)
    BY <1>3, <2>4 DEF StrictSubsetOrdering
  <2> QED
    BY <1>2, <2>5
<1> QED
  BY <1>4

\* What is true of 0 and of n + 1 when it is of n has no number of which it is not.
LEMMA InductionOver ==
  ASSUME NEW S, S \subseteq Nat, 0 \in S, \A n \in Nat : n \in S => n + 1 \in S
  PROVE  S = Nat
<1> SUFFICES ASSUME Nat \ S # {} PROVE FALSE
  OBVIOUS
<1>1. PICK m \in Nat \ S : \A x \in Nat \ S : m <= x
  BY LeastOf
<1>2. m - 1 \in Nat /\ m - 1 \in S
  BY <1>1
<1> QED
  BY <1>1, <1>2

\* The powers of two, which the provers know nothing of, are the numbers of the
\* subsets of 1 .. n.
LEMMA PowersOf2 ==
  /\ 2^0 = 1
  /\ \A n \in Nat : 2^n \in Nat \ {0} /\ 2^(n + 1) = 2 * 2^n
<1>1. ASSUME NEW n \in Nat
      PROVE  IsFiniteSet(SUBSET (1 .. n)) /\ Cardinality(SUBSET (1 .. n)) = 2^n /\ 2^n \in Nat \ {0}
  <2>1. IsFiniteSet(1 .. n) /\ Cardinality(1 .. n) = n
    BY FS_Interval
  <2>2. IsFiniteSet(SUBSET (1 .. n)) /\ Cardinality(SUBSET (1 .. n)) = 2^n
    BY <2>1, FS_SUBSET
  <2>3. Cardinality(SUBSET (1 .. n)) \in Nat
    BY <2>2, FS_CardinalityType
  <2>4. Cardinality(SUBSET (1 .. n)) # 0
    BY <2>2, FS_EmptySet
  <2> QED
    BY <2>2, <2>3, <2>4
<1>2. ASSUME NEW n \in Nat PROVE 2^(n + 1) = 2 * 2^n
  <2> DEFINE Old == SUBSET (1 .. n)
             New == {s \union {n + 1} : s \in Old}
             f == [s \in Old |-> s \union {n + 1}]
  <2>1. ExistsBijection(Old, New)
    <3>1. f \in [Old -> New]
      OBVIOUS
    <3>2. \A s, t \in Old : f[s] = f[t] => s = t
      <4> SUFFICES ASSUME NEW s \in Old, NEW t \in Old, f[s] = f[t] PROVE s = t
        OBVIOUS
      <4>1. n + 1 \notin s /\ n + 1 \notin t
        OBVIOUS
      <4>2. s \union {n + 1} = t \union {n + 1}
        OBVIOUS
      <4> QED
        BY <4>1, <4>2
    <3>3. \A u \in New : \E s \in Old : f[s] = u
      OBVIOUS
    <3>4. f \in Bijection(Old, New)
      BY <3>1, <3>2, <3>3 DEF Bijection, Injection, Surjection, IsInjective
    <3> QED
      BY <3>4 DEF ExistsBijection
  <2>2. IsFiniteSet(New) /\ Cardinality(New) = Cardinality(Old)
    BY <1>1, <2>1, FS_Bijection
  <2>3. SUBSET (1 .. n + 1) = Old \union New
    <3>1. ASSUME NEW u \in SUBSET (1 .. n + 1), u \notin Old PROVE u \in New
      <4>1. n + 1 \in u
        BY <3>1
      <4>2. u \ {n + 1} \in Old /\ u = (u \ {n + 1}) \union {n + 1}
        BY <3>1, <4>1
      <4> QED
        BY <4>2
    <3>2. Old \subseteq SUBSET (1 .. n + 1) /\ New \subseteq SUBSET (1 .. n + 1)
      <4>1. 1 .. n \subseteq 1 .. n + 1 /\ n + 1 \in 1 .. n + 1
        OBVIOUS
      <4>2. Old \subseteq SUBSET (1 .. n + 1)
        BY <4>1
      <4>3. ASSUME NEW s \in Old PROVE s \union {n + 1} \in SUBSET (1 .. n + 1)
        BY <4>1, <4>2
      <4>4. ASSUME NEW t \in New PROVE t \in SUBSET (1 .. n + 1)
        <5>1. PICK s \in Old : t = s \union {n + 1}
          OBVIOUS
        <5> HIDE DEF Old, New
        <5> QED
          BY <4>3, <5>1
      <4> HIDE DEF Old, New
      <4> QED
        BY <4>2, <4>4
    <3> QED
      BY <3>1, <3>2
  <2>4. Old \intersect New = {}
    <3>1. \A s \in Old : n + 1 \notin s
      <4>1. n + 1 \notin 1 .. n
        OBVIOUS
      <4> QED
        BY <4>1
    <3>2. \A s \in New : n + 1 \in s
      OBVIOUS
    <3> QED
      BY <3>1, <3>2
  <2> HIDE DEF Old, New
  <2>5. Cardinality(Old) = 2^n /\ IsFiniteSet(Old)
    BY <1>1 DEF Old
  <2>6. Cardinality(Old \union New) = Cardinality(Old) + Cardinality(New) - Cardinality({})
    BY <2>2, <2>4, <2>5, FS_Union
  <2>7. Cardinality(SUBSET (1 .. n + 1)) = 2^(n + 1)
    BY <1>1, n + 1 \in Nat
  <2>8. Cardinality({}) = 0
    BY FS_EmptySet
  <2>9. 2^n \in Nat
    BY <1>1
  <2>10. Cardinality(Old \union New) = 2^n + 2^n - 0
    BY <2>2, <2>5, <2>6, <2>8
  <2>11. 2^(n + 1) = 2^n + 2^n - 0
    BY <2>3, <2>7, <2>10
  <2> QED
    BY <2>9, <2>11
<1>3. 2^0 = 1
  OBVIOUS
<1> QED
  BY <1>1, <1>2, <1>3


\* Division, which the provers know little of.
LEMMA Quotient ==
  ASSUME NEW x \in Int, NEW d \in Nat \ {0}, NEW q \in Int, q * d <= x, x < (q + 1) * d
  PROVE  x \div d = q
OBVIOUS

LEMMA Remainder ==
  ASSUME NEW x \in Int, NEW d \in Nat \ {0}, NEW q \in Int, NEW r \in 0 .. (d - 1), x = q * d + r
  PROVE  x % d = r
OBVIOUS

LEMMA Half ==
  ASSUME NEW y \in Nat
  PROVE  y \div 2 \in Nat /\ y = 2 * (y \div 2) + (y % 2)
<1>1. y \div 2 \in Nat
  OBVIOUS
<1>2. y = 2 * (y \div 2) + (y % 2)
  OBVIOUS
<1> QED
  BY <1>1, <1>2

LEMMA SameHalf ==
  ASSUME NEW y \in Int, NEW v \in Int, NEW w \in Int, NEW r \in Int,
         y = 2 * v + r, y = 2 * w + r
  PROVE  v = w
OBVIOUS

LEMMA Halved ==
  ASSUME NEW x \in Nat, NEW d \in Nat \ {0}
  PROVE  /\ x \div d \in Nat /\ x \div (2 * d) \in Nat
         /\ x \div d = 2 * (x \div (2 * d)) + ((x \div d) % 2)
<1>1. x \div d \in Nat
  OBVIOUS
<1>2. x \div (2 * d) = (x \div d) \div 2
  OBVIOUS
<1> QED
  BY <1>1, <1>2, Half

\* Two numbers with the same bits from k on, and no bits from w on, have the same
\* quotient by 2^k, and the other way round.
LEMMA SameQuotient ==
  ASSUME NEW w \in Nat, NEW k \in 0 .. w, NEW a \in Nat, NEW b \in Nat,
         a \div 2^w = b \div 2^w
  PROVE  (\A i \in k .. (w - 1) : (a \div 2^i) % 2 = (b \div 2^i) % 2)
           <=> a \div 2^k = b \div 2^k
<1> DEFINE P == [i \in Nat |-> 2^i]
           A(i) == a \div P[i]
           B(i) == b \div P[i]
<1>1. \A i \in Nat : P[i] = 2^i /\ P[i] \in Nat \ {0} /\ P[i + 1] = 2 * P[i]
  <2> TAKE i \in Nat
  <2>1. i + 1 \in Nat /\ P[i] = 2^i /\ P[i + 1] = 2^(i + 1)
    OBVIOUS
  <2> HIDE DEF P
  <2> QED
    BY <2>1, PowersOf2
<1> HIDE DEF P
<1>2. \A i \in Nat : /\ A(i) \in Nat /\ B(i) \in Nat
                     /\ A(i) = 2 * A(i + 1) + (A(i) % 2)
                     /\ B(i) = 2 * B(i + 1) + (B(i) % 2)
  BY <1>1, Halved
<1>3. SUFFICES (\A i \in k .. (w - 1) : A(i) % 2 = B(i) % 2) <=> A(k) = B(k)
  <2>1. \A i \in Nat : A(i) = a \div 2^i /\ B(i) = b \div 2^i
    BY <1>1
  <2>2. k \in Nat /\ \A i \in k .. (w - 1) : i \in Nat
    OBVIOUS
  <2> HIDE DEF A, B
  <2> QED
    BY <2>1, <2>2
<1>4. A(w) = B(w)
  BY <1>1
<1> HIDE DEF A, B
<1>5. ASSUME \A i \in k .. (w - 1) : A(i) % 2 = B(i) % 2, A(k) # B(k) PROVE FALSE
  <2> DEFINE S == {j \in Nat : j <= w - k /\ A(w - j) # B(w - j)}
  <2>1. w - k \in S
    BY <1>5
  <2>2. PICK m \in S : \A j \in S : m <= j
    <3>1. S \subseteq Nat /\ S # {}
      BY <2>1
    <3> QED
      BY <3>1, LeastOf
  <2>3. m # 0
    BY <1>4, <2>2
  <2>4. w - m \in k .. (w - 1) /\ w - m \in Nat /\ (w - m) + 1 = w - (m - 1)
    BY <2>3
  <2>5. A((w - m) + 1) = B((w - m) + 1)
    BY <2>2, <2>3, <2>4
  <2>6. A(w - m) % 2 = B(w - m) % 2
    BY <1>5, <2>4
  <2>7. A(w - m) = B(w - m)
    BY <1>2, <2>4, <2>5, <2>6
  <2> QED
    BY <2>7
<1>6. ASSUME A(k) = B(k), NEW i \in k .. (w - 1), A(i) % 2 # B(i) % 2 PROVE FALSE
  <2> DEFINE S == {j \in Nat : k <= j /\ A(j) # B(j)}
  <2>1. i \in S
    BY <1>6
  <2>2. PICK m \in S : \A j \in S : m <= j
    <3>1. S \subseteq Nat /\ S # {}
      BY <2>1
    <3> QED
      BY <3>1, LeastOf
  <2>3. m # k /\ m - 1 \in Nat /\ (m - 1) + 1 = m /\ k <= m - 1
    BY <1>6, <2>2
  <2>4. A(m - 1) = B(m - 1)
    BY <2>2, <2>3
  <2>5. A((m - 1) + 1) = B((m - 1) + 1)
    <3>1. A(m - 1) % 2 = B(m - 1) % 2
      BY <2>4
    <3>2. /\ A(m - 1) = 2 * A((m - 1) + 1) + (A(m - 1) % 2)
          /\ B(m - 1) = 2 * B((m - 1) + 1) + (B(m - 1) % 2)
      BY <1>2, <2>3
    <3>3. A((m - 1) + 1) \in Nat /\ B((m - 1) + 1) \in Nat
      BY <1>2, <2>3
    <3>4. A(m - 1) \in Nat /\ A(m - 1) % 2 \in Int
      <4>1. A(m - 1) \in Nat
        BY <1>2, <2>3
      <4>2. \A x \in Nat : x % 2 \in Int
        OBVIOUS
      <4> QED
        BY <4>1, <4>2
    <3>5. A(m - 1) = 2 * B((m - 1) + 1) + (A(m - 1) % 2)
      BY <2>4, <3>1, <3>2
    <3> QED
      BY <3>2, <3>3, <3>4, <3>5, SameHalf
  <2> QED
    BY <2>2, <2>3, <2>5
<1> QED
  BY <1>5, <1>6

\* A power of two is an even multiple of every smaller one.
LEMMA EvenMultiple ==
  ASSUME NEW i \in Nat, NEW j \in Nat, i < j
  PROVE  \E q \in Nat \ {0} : 2^j = (2 * q) * 2^i
<1> DEFINE S == {n \in Nat : \E q \in Nat \ {0} : 2^(i + (n + 1)) = (2 * q) * 2^i}
<1>1. 0 \in S
  <2>1. 2^(i + 1) = (2 * 1) * 2^i /\ i + (0 + 1) = i + 1
    BY PowersOf2
  <2> QED
    BY <2>1
<1>2. ASSUME NEW n \in Nat, n \in S PROVE n + 1 \in S
  <2>1. PICK q \in Nat \ {0} : 2^(i + (n + 1)) = (2 * q) * 2^i
    BY <1>2
  <2>2. 2^((i + (n + 1)) + 1) = 2 * 2^(i + (n + 1)) /\ 2^i \in Nat
    <3>1. i + (n + 1) \in Nat
      OBVIOUS
    <3> QED
      BY <3>1, PowersOf2
  <2>3. 2 * ((2 * q) * 2^i) = (2 * (2 * q)) * 2^i
    BY <2>2
  <2>4. (i + (n + 1)) + 1 = i + ((n + 1) + 1) /\ 2 * q \in Nat \ {0}
    OBVIOUS
  <2>5. 2^(i + ((n + 1) + 1)) = (2 * (2 * q)) * 2^i
    BY <2>1, <2>2, <2>3, <2>4
  <2>6. \E r \in Nat \ {0} : 2^(i + ((n + 1) + 1)) = (2 * r) * 2^i
    BY <2>4, <2>5
  <2>7. n + 1 \in Nat
    OBVIOUS
  <2> QED
    BY <2>6, <2>7
<1>3. S = Nat
  <2> HIDE DEF S
  <2>1. S \subseteq Nat
    BY DEF S
  <2> QED
    BY <1>1, <1>2, <2>1, InductionOver
<1>4. j - i - 1 \in Nat /\ i + ((j - i - 1) + 1) = j
  OBVIOUS
<1>5. j - i - 1 \in S
  <2> HIDE DEF S
  <2> QED
    BY <1>3, <1>4
<1> QED
  BY <1>4, <1>5

-------------------------------------------------------------------------------
(***************************************************************************)
(* The mask of ipInCidr.                                                   *)
(***************************************************************************)

\* The code's mask for all bits from k on, which the shift leaves of Width ones.
LEMMA MaskOf ==
  ASSUME NEW k \in 0 .. (Width - 1)
  PROVE  Acl!ShiftLeft(Acl!Ones, k) = 2^Width - 2^k
<1>1. Width \in Nat /\ k \in Nat /\ k < Width
  BY PolicyAssumption DEF PolicyAssumption
<1>2. k % Width = k
  BY <1>1, 0 * Width + k = k, k \in 0 .. (Width - 1), Width \in Nat \ {0}, Remainder
<1>3. PICK q \in Nat \ {0} : 2^Width = (2 * q) * 2^k
  BY <1>1, EvenMultiple
<1>4. 2^Width \in Nat \ {0} /\ 2^k \in Nat \ {0}
  BY <1>1, PowersOf2
<1> DEFINE W == 2^Width
           K == 2^k
<1> HIDE DEF W, K
<1>5. W \in Nat \ {0} /\ K \in Nat \ {0} /\ W = (2 * q) * K
  BY <1>3, <1>4 DEF W, K
<1>6. K <= W
  BY <1>5
<1>7. (W - 1) * K = (K - 1) * W + (W - K)
  BY <1>5
<1>8. ((W - 1) * K) % W = W - K
  <2>1. W - K \in 0 .. (W - 1) /\ K - 1 \in Int /\ (W - 1) * K \in Int
    BY <1>5, <1>6
  <2> QED
    BY <1>5, <1>7, <2>1, Remainder
<1> QED
  BY <1>2, <1>8 DEF Acl!ShiftLeft, Acl!Ones, W, K

\* Bit i of the mask is set exactly from k on.
LEMMA MaskBits ==
  ASSUME NEW k \in 0 .. (Width - 1), NEW i \in 0 .. (Width - 1)
  PROVE  Acl!Bit(2^Width - 2^k, i) = IF k <= i THEN 1 ELSE 0
<1>1. Width \in Nat /\ k \in Nat /\ i \in Nat /\ k < Width /\ i < Width
  BY PolicyAssumption DEF PolicyAssumption
<1> DEFINE W == 2^Width
           K == 2^k
           I == 2^i
<1>2. W \in Nat \ {0} /\ K \in Nat \ {0} /\ I \in Nat \ {0}
  BY <1>1, PowersOf2
<1>3. PICK q \in Nat \ {0} : W = (2 * q) * I
  BY <1>1, EvenMultiple
<1>4. Acl!Bit(2^Width - 2^k, i) = ((W - K) \div I) % 2
  BY DEF Acl!Bit
<1>5. CASE k <= i
  <2>1. K <= I
    <3>1. CASE k = i
      BY <1>2, <3>1
    <3>2. CASE k < i
      <4>1. PICK r \in Nat \ {0} : I = (2 * r) * K
        BY <1>1, <3>2, EvenMultiple
      <4> HIDE DEF I, K
      <4> QED
        BY <1>2, <4>1
    <3> QED
      BY <1>1, <1>5, <3>1, <3>2
  <2> HIDE DEF W, K, I
  <2>2. (2 * q - 1) * I <= W - K /\ W - K < ((2 * q - 1) + 1) * I
    BY <1>2, <1>3, <2>1
  <2>3. (W - K) \div I = 2 * q - 1
    BY <1>2, <2>2, W - K \in Int, 2 * q - 1 \in Int, Quotient
  <2>4. (2 * q - 1) % 2 = 1
    OBVIOUS
  <2> QED
    BY <1>4, <1>5, <2>3, <2>4
<1>6. CASE i < k
  <2>1. PICK r \in Nat \ {0} : K = (2 * r) * I
    BY <1>1, <1>6, EvenMultiple
  <2> HIDE DEF W, K, I
  <2>2. W - K = (2 * (q - r)) * I
    BY <1>2, <1>3, <2>1
  <2>3. (2 * (q - r)) * I <= W - K /\ W - K < ((2 * (q - r)) + 1) * I
    BY <1>2, <2>2
  <2>4. (W - K) \div I = 2 * (q - r)
    BY <1>2, <2>3, W - K \in Int, 2 * (q - r) \in Int, Quotient
  <2>5. (2 * (q - r)) % 2 = 0
    OBVIOUS
  <2>6. ~(k <= i)
    BY <1>1, <1>6
  <2> QED
    BY <1>4, <2>4, <2>5, <2>6
<1> QED
  BY <1>1, <1>5, <1>6

\* The code's test of an address is that of its first p bits, for every prefix
\* length and every width.
LEMMA CidrIsPrefix ==
  ASSUME NEW a, NEW base \in Acl!IPv4, NEW p \in 0 .. Width
  PROVE  Acl!ipInCidr(a, base, p)
           <=> a \in Acl!IPv4 /\ a \div 2^(Width - p) = base \div 2^(Width - p)
<1> SUFFICES ASSUME a \in Acl!IPv4
             PROVE  Acl!ipInCidr(a, base, p) <=> a \div 2^(Width - p) = base \div 2^(Width - p)
  BY DEF Acl!ipInCidr
<1>1. Width \in Nat \ {0} /\ 2^Width \in Nat \ {0}
  BY PolicyAssumption, PowersOf2 DEF PolicyAssumption
<1>2. a \in Nat /\ base \in Nat /\ a < 2^Width /\ base < 2^Width
  BY <1>1 DEF Acl!IPv4
<1>3. a \div 2^Width = 0 /\ base \div 2^Width = 0
  <2> DEFINE W == 2^Width
  <2> HIDE DEF W
  <2>1. W \in Nat \ {0} /\ a < W /\ base < W
    BY <1>1, <1>2 DEF W
  <2>2. 0 * W <= a /\ a < (0 + 1) * W /\ 0 * W <= base /\ base < (0 + 1) * W
    BY <1>2, <2>1
  <2>3. a \div W = 0 /\ base \div W = 0
    BY <1>2, <2>1, <2>2, Quotient
  <2> QED
    BY <2>3 DEF W
<1>4. CASE p = 0
  <2>1. Width - p = Width
    BY <1>1, <1>4
  <2> QED
    BY <1>3, <1>4, <2>1 DEF Acl!ipInCidr
<1>5. CASE p # 0
  <2>1. Width - p \in 0 .. (Width - 1) /\ Width - p \in 0 .. Width
    BY <1>1, <1>5
  <2>2. Acl!ShiftLeft(Acl!Ones, Width - p) = 2^Width - 2^(Width - p)
    BY <2>1, MaskOf
  <2>3. \A i \in 0 .. (Width - 1) :
          Acl!Bit(2^Width - 2^(Width - p), i) = 1 <=> i \in (Width - p) .. (Width - 1)
    <3> TAKE i \in 0 .. (Width - 1)
    <3>1. Acl!Bit(2^Width - 2^(Width - p), i) = IF Width - p <= i THEN 1 ELSE 0
      BY <2>1, MaskBits
    <3>2. (Width - p <= i) <=> i \in (Width - p) .. (Width - 1)
      BY <1>1, <2>1
    <3> QED
      BY <3>1, <3>2
  <2>4. Acl!ipInCidr(a, base, p)
          <=> \A i \in 0 .. (Width - 1) :
                i \in (Width - p) .. (Width - 1) => Acl!Bit(a, i) = Acl!Bit(base, i)
    BY <1>5, <2>2, <2>3 DEF Acl!ipInCidr, Acl!SameUnder
  <2>5. (\A i \in 0 .. (Width - 1) :
           i \in (Width - p) .. (Width - 1) => Acl!Bit(a, i) = Acl!Bit(base, i))
          <=> \A i \in (Width - p) .. (Width - 1) : (a \div 2^i) % 2 = (base \div 2^i) % 2
    <3>1. \A i \in (Width - p) .. (Width - 1) : i \in 0 .. (Width - 1)
      BY <1>1, <2>1
    <3> QED
      BY <3>1 DEF Acl!Bit
  <2>6. (\A i \in (Width - p) .. (Width - 1) : (a \div 2^i) % 2 = (base \div 2^i) % 2)
          <=> a \div 2^(Width - p) = base \div 2^(Width - p)
    BY <1>1, <1>2, <1>3, <2>1, SameQuotient
  <2> QED
    BY <2>4, <2>5, <2>6
<1> QED
  BY <1>4, <1>5

-------------------------------------------------------------------------------
(***************************************************************************)
(* The rules in force.                                                     *)
(***************************************************************************)

\* A load that does not read.
LEMMA LoadFields ==
  /\ Acl!Idle.step = "idle" /\ Acl!Waiting.step = "waiting"
  /\ {Acl!Idle, Acl!Waiting} \subseteq [step : {"idle", "waiting", "reading"},
                                       rows : SUBSET Rules, version : -1 .. MaxChanges]
<1>1. -1 \in -1 .. MaxChanges
  BY PolicyAssumption DEF PolicyAssumption
<1> QED
  BY <1>1 DEF Acl!Idle, Acl!Waiting

\* The first load waits, and no rules are in force.
LEMMA AclStarts == Acl!Init(FirstTable, FirstPoll) => Acl!AclIInv
<1> SUFFICES ASSUME Acl!Init(FirstTable, FirstPoll) PROVE Acl!AclIInv
  OBVIOUS
<1>1. Acl!TypeOK
  <2>1. 0 \in 0 .. MaxChanges /\ -1 \in -1 .. MaxChanges
    BY PolicyAssumption DEF PolicyAssumption
  <2> QED
    BY <2>1, PolicyAssumption, LoadFields DEF PolicyAssumption, Acl!Init, Acl!TypeOK
<1>2. \A i \in Polls : ~Acl!Reading(i)
  BY LoadFields DEF Acl!Init, Acl!Reading
<1>3. Acl!InForceBehind
  BY DEF Acl!Init, Acl!InForceBehind
<1> QED
  BY <1>1, <1>2, <1>3 DEF Acl!AclIInv, Acl!OneReads, Acl!ReadBetween

\* An unchanged load, or one that no longer reads, is as it was for the invariant:
\* here for the steps that leave the table and the rules alone.
LEMMA LoadKeeps ==
  ASSUME Acl!AclIInv, NEW i \in Polls, NEW l,
         l \in [step : {"idle", "waiting", "reading"},
                rows : SUBSET Rules, version : -1 .. MaxChanges],
         l.step = "reading" => /\ \A k \in Polls : ~Acl!Reading(k)
                               /\ l.version = version /\ l.rows = table,
         load' = [load EXCEPT ![i] = l],
         phase' \in {"loading", "polling", "stopped"},
         UNCHANGED <<table, version, rules, inForce>>
  PROVE  Acl!AclIInv'
<1>1. Acl!TypeOK'
  BY DEF Acl!AclIInv, Acl!TypeOK
<1>2. load'[i] = l /\ \A k \in Polls \ {i} : load'[k] = load[k]
  BY DEF Acl!AclIInv, Acl!TypeOK
<1>3. Acl!InForceBehind'
  BY DEF Acl!AclIInv, Acl!InForceBehind
<1>4. Acl!OneReads'
  BY <1>2 DEF Acl!AclIInv, Acl!OneReads, Acl!Reading
<1>5. version \in Int /\ inForce \in Int /\ inForce <= version
  BY PolicyAssumption DEF PolicyAssumption, Acl!AclIInv, Acl!TypeOK, Acl!InForceBehind
<1>6. Acl!ReadBetween'
  BY <1>2, <1>5 DEF Acl!AclIInv, Acl!ReadBetween, Acl!Reading
<1> QED
  BY <1>1, <1>3, <1>4, <1>6 DEF Acl!AclIInv

\* A change of the table leaves every load and the rules behind the new version.
LEMMA TableKeeps ==
  ASSUME Acl!AclIInv, NEW t \in SUBSET Rules, Acl!changeTable(t)
  PROVE  Acl!AclIInv'
<1>1. Acl!TypeOK'
  BY PolicyAssumption DEF PolicyAssumption, Acl!AclIInv, Acl!TypeOK, Acl!changeTable
<1>2. Acl!OneReads'
  BY DEF Acl!AclIInv, Acl!OneReads, Acl!Reading, Acl!changeTable
<1>3. version \in Int /\ inForce \in Int /\ \A i \in Polls : load[i].version \in Int
  BY PolicyAssumption DEF PolicyAssumption, Acl!AclIInv, Acl!TypeOK
<1>4. Acl!InForceBehind'
  BY <1>3 DEF Acl!AclIInv, Acl!InForceBehind, Acl!changeTable
<1>5. Acl!ReadBetween'
  BY <1>3 DEF Acl!AclIInv, Acl!ReadBetween, Acl!Reading, Acl!changeTable
<1> QED
  BY <1>1, <1>2, <1>4, <1>5 DEF Acl!AclIInv

\* The one load that reads brings rules that are not older than those in force.
LEMMA ApplyKeeps ==
  ASSUME Acl!AclIInv, NEW i \in Polls, Acl!applyRules(i)
  PROVE  Acl!AclIInv' /\ inForce' >= inForce
<1>1. /\ load[i].rows \subseteq Rules /\ load[i].version \in -1 .. MaxChanges
      /\ \A k \in Polls : load[k].version \in Int
      /\ version \in Int /\ inForce \in Int
  BY PolicyAssumption DEF PolicyAssumption, Acl!AclIInv, Acl!TypeOK
<1>2. load'[i] = Acl!Idle /\ \A k \in Polls \ {i} : load'[k] = load[k]
  BY DEF Acl!applyRules, Acl!LoadEnds, Acl!AclIInv, Acl!TypeOK
<1>3. \A k \in Polls : ~Acl!Reading(k)'
  BY <1>2, LoadFields DEF Acl!applyRules, Acl!Reading, Acl!AclIInv, Acl!OneReads
<1>4. Acl!TypeOK'
  BY <1>1, LoadFields DEF Acl!applyRules, Acl!LoadEnds, Acl!AclIInv, Acl!TypeOK
<1>5. /\ inForce <= load[i].version /\ load[i].version <= version
      /\ load[i].version = version => load[i].rows = table
  BY DEF Acl!applyRules, Acl!AclIInv, Acl!ReadBetween
<1>6. Acl!InForceBehind' /\ inForce' >= inForce
  BY <1>1, <1>5 DEF Acl!applyRules, Acl!InForceBehind
<1>7. Acl!OneReads' /\ Acl!ReadBetween'
  BY <1>3 DEF Acl!OneReads, Acl!ReadBetween
<1> QED
  BY <1>4, <1>6, <1>7 DEF Acl!AclIInv

\* Every step of the rules' part keeps its invariant, and takes the rules to a
\* version that is not older.
LEMMA AclStepKeeps ==
  ASSUME Acl!AclIInv, Acl!Next \/ UNCHANGED aclVars
  PROVE  Acl!AclIInv' /\ inForce' >= inForce
<1>1. inForce \in Int
  BY PolicyAssumption DEF PolicyAssumption, Acl!AclIInv, Acl!TypeOK
<1>2. ASSUME NEW r \in Rules, Acl!createRule(r) \/ Acl!deleteRule(r)
      PROVE  Acl!AclIInv' /\ inForce' >= inForce
  <2>1. /\ table \union {r} \in SUBSET Rules /\ table \ {r} \in SUBSET Rules
    BY DEF Acl!AclIInv, Acl!TypeOK
  <2>2. inForce' = inForce
    BY <1>2 DEF Acl!createRule, Acl!deleteRule, Acl!changeTable
  <2> QED
    BY <1>1, <1>2, <2>1, <2>2, TableKeeps DEF Acl!createRule, Acl!deleteRule
<1>3. ASSUME NEW i \in Polls, Acl!pollFires(i)
      PROVE  Acl!AclIInv' /\ inForce' >= inForce
  <2> DEFINE l == Acl!Waiting
  <2>1. /\ load' = [load EXCEPT ![i] = l]
        /\ UNCHANGED <<table, version, rules, inForce>>
        /\ phase' \in {"loading", "polling", "stopped"}
    BY <1>3 DEF Acl!pollFires, Acl!AclIInv, Acl!TypeOK
  <2>2. /\ l \in [step : {"idle", "waiting", "reading"},
                  rows : SUBSET Rules, version : -1 .. MaxChanges]
        /\ l.step # "reading"
    BY LoadFields
  <2> HIDE DEF l
  <2>3. Acl!AclIInv'
    BY <2>1, <2>2, LoadKeeps
  <2> QED
    BY <1>1, <2>1, <2>3
<1>4. ASSUME NEW i \in Polls, Acl!selectRules(i)
      PROVE  Acl!AclIInv' /\ inForce' >= inForce
  <2> DEFINE l == [step |-> "reading", rows |-> table, version |-> version]
  <2>1. version \in -1 .. MaxChanges /\ table \in SUBSET Rules
    BY PolicyAssumption DEF PolicyAssumption, Acl!AclIInv, Acl!TypeOK
  <2>2. /\ l \in [step : {"idle", "waiting", "reading"},
                  rows : SUBSET Rules, version : -1 .. MaxChanges]
        /\ l.version = version /\ l.rows = table
    BY <2>1
  <2>3. /\ load' = [load EXCEPT ![i] = l] /\ \A k \in Polls : ~Acl!Reading(k)
        /\ UNCHANGED <<table, version, rules, inForce, phase>>
    BY <1>4 DEF Acl!selectRules
  <2>4. phase' \in {"loading", "polling", "stopped"}
    BY <2>3 DEF Acl!AclIInv, Acl!TypeOK
  <2> HIDE DEF l
  <2>5. Acl!AclIInv'
    BY <2>2, <2>3, <2>4, LoadKeeps
  <2> QED
    BY <1>1, <2>3, <2>5
<1>5. ASSUME NEW i \in Polls, Acl!loadFails(i)
      PROVE  Acl!AclIInv' /\ inForce' >= inForce
  <2> DEFINE l == Acl!Idle
  <2>1. /\ load' = [load EXCEPT ![i] = l]
        /\ UNCHANGED <<table, version, rules, inForce>>
        /\ phase' \in {"loading", "polling", "stopped"}
    BY <1>5 DEF Acl!loadFails, Acl!LoadEnds, Acl!AclIInv, Acl!TypeOK
  <2>2. /\ l \in [step : {"idle", "waiting", "reading"},
                  rows : SUBSET Rules, version : -1 .. MaxChanges]
        /\ l.step # "reading"
    BY LoadFields
  <2> HIDE DEF l
  <2>3. Acl!AclIInv'
    BY <2>1, <2>2, LoadKeeps
  <2> QED
    BY <1>1, <2>1, <2>3
<1>6. CASE Acl!shutdownSourceAcls
  BY <1>1, <1>6 DEF Acl!shutdownSourceAcls, Acl!AclIInv, Acl!TypeOK, Acl!OneReads, Acl!Reading,
                   Acl!InForceBehind, Acl!ReadBetween
<1>7. CASE UNCHANGED aclVars
  BY <1>1, <1>7 DEF aclVars, Acl!AclIInv, Acl!TypeOK, Acl!OneReads, Acl!Reading,
                   Acl!InForceBehind, Acl!ReadBetween
<1> QED
  BY <1>2, <1>3, <1>4, <1>5, <1>6, <1>7, ApplyKeeps DEF Acl!Next

-------------------------------------------------------------------------------
(***************************************************************************)
(* Who is let in.                                                          *)
(***************************************************************************)

\* The code's verdict on a name and an address is what the rules say of them.
LEMMA VerdictOfRules ==
  ASSUME NEW name, NEW a
  PROVE  Acl!isServiceAllowed(name, a) = Acl!Admits(rules, name, a)
<1>1. ASSUME NEW r
      PROVE  (IF Acl!isCidrPattern(r) THEN Acl!ipInCidr(a, r.base, r.prefix)
                                      ELSE Acl!globMatches(r, name, a))
             <=> (IF r.base \in Acl!IPv4 /\ r.prefix \in 0 .. Width
                    THEN /\ a \in Acl!IPv4
                         /\ a \div 2^(Width - r.prefix) = r.base \div 2^(Width - r.prefix)
                    ELSE name \in r.hits \/ a \in r.hits)
  <2>1. CASE Acl!isCidrPattern(r)
    <3>1. r.base \in Acl!IPv4 /\ r.prefix \in 0 .. Width
      BY <2>1 DEF Acl!isCidrPattern
    <3> QED
      BY <2>1, <3>1, CidrIsPrefix
  <2>2. CASE ~Acl!isCidrPattern(r)
    <3>1. Acl!globMatches(r, name, a) <=> name \in r.hits \/ a \in r.hits
      BY DEF Acl!globMatches
    <3> QED
      BY <2>2, <3>1 DEF Acl!isCidrPattern
  <2> QED
    BY <2>1, <2>2
<1> QED
  BY <1>1 DEF Acl!isServiceAllowed, Acl!Admits

\* With the table's rules in force and the informer caught up, the code's verdict is
\* that of the table on the pod that claims the address, or else on the bare address
\* or on a pod that has finished there.
LEMMA VerdictSettles == PolicyIInv => SettledVerdict
<1> SUFFICES ASSUME PolicyIInv, inForce = version, CaughtUp,
                    NEW a \in Acl!Addresses \ unclear
             PROVE  \E name \in NamesOf(a) : Allowed(a) = Acl!Admits(table, name, a)
  BY DEF SettledVerdict
<1>1. rules = table
  BY DEF PolicyIInv, Acl!AclIInv, Acl!InForceBehind
<1>2. Allowed(a) = Acl!Admits(table, identifyService(a), a)
  BY <1>1, VerdictOfRules DEF Allowed
<1>3. CASE a \notin PodAddresses
  <2>1. identifyService(a) = a
    BY <1>3 DEF identifyService
  <2> QED
    BY <1>2, <1>3, <2>1 DEF NamesOf
<1>4. CASE a \in PodAddresses /\ Claimants(a) # {}
  <2>1. ipMap[a] \in Claimants(a)
    BY <1>4, IdentFollows DEF PolicyIInv, MapFollowsPods
  <2>2. ipMap[a] # NoPod
    BY <2>1, IdentAssumption DEF IdentAssumption, Claimants
  <2>3. identifyService(a) = ipMap[a]
    BY <1>4, <2>2 DEF identifyService, CaughtUp
  <2> QED
    BY <1>2, <1>4, <2>1, <2>3 DEF NamesOf
<1>5. CASE a \in PodAddresses /\ Claimants(a) = {}
  <2>1. CASE ipMap[a] = NoPod
    <3>1. identifyService(a) = a
      BY <2>1 DEF identifyService
    <3> QED
      BY <1>2, <1>5, <3>1 DEF NamesOf
  <2>2. CASE ipMap[a] # NoPod
    <3> DEFINE p == ipMap[a]
    <3>1. p \in Pods
      BY <1>5, <2>2 DEF PolicyIInv, IdentIInv, TypeOK
    <3>2. Exists(p) /\ object[p].addr = a
      BY <1>5, <2>2, IdentFollows DEF PolicyIInv, MapFollowsPods
    <3>3. a # NoAddress
      BY <1>5, IdentAssumption DEF IdentAssumption
    <3>4. object[p].phase \in {"running", "done", "deleted"}
      BY <3>1, <3>2, <3>3 DEF PolicyIInv, IdentIInv, AddressesOfRun
    <3>5. object[p].phase = "done"
      BY <1>5, <3>1, <3>2, <3>3, <3>4 DEF Exists, Claimants, Claims, Indexed
    <3>6. identifyService(a) = p
      BY <1>5, <2>2 DEF identifyService, CaughtUp
    <3> QED
      BY <1>2, <1>5, <3>1, <3>2, <3>5, <3>6 DEF NamesOf, Finished
  <2> QED
    BY <2>1, <2>2
<1> QED
  BY <1>3, <1>4, <1>5

\* The composition starts in, and keeps, the invariants of its two parts.
LEMMA PolicyStarts == PolicyInit => PolicyIInv
BY AclStarts, IdentStarts DEF PolicyInit, PolicyIInv

LEMMA PolicyStepKeeps ==
  PolicyIInv /\ [PolicyNext]_policyVars => PolicyIInv' /\ inForce' >= inForce
<1> SUFFICES ASSUME PolicyIInv, [PolicyNext]_policyVars
             PROVE  PolicyIInv' /\ inForce' >= inForce
  OBVIOUS
<1>1. /\ Acl!Next \/ UNCHANGED aclVars
      /\ Next \/ UNCHANGED identVars
  BY DEF PolicyNext, policyVars
<1>2. Acl!AclIInv' /\ inForce' >= inForce
  BY <1>1, AclStepKeeps DEF PolicyIInv
<1>3. IdentIInv'
  BY <1>1, IdentStepKeeps DEF PolicyIInv
<1> QED
  BY <1>2, <1>3 DEF PolicyIInv

\* The rules in force are those of one version of the table and the map says what
\* the informer knows, whatever the two do meanwhile.
THEOREM PolicyInvariant == PolicySpec => []PolicyIInv
BY PolicyStarts, PolicyStepKeeps, PTL DEF PolicySpec

\* Loads that overlap, wait and fail never put older rules in the place of newer
\* ones (source-acl.ts:123).
THEOREM RulesKeepUp == PolicySpec => RulesNeverBack
<1>1. PolicyIInv /\ [PolicyNext]_policyVars => [inForce' >= inForce]_policyVars
  BY PolicyStepKeeps
<1> QED
  BY <1>1, PolicyInvariant, PTL DEF PolicySpec, RulesNeverBack

\* When rules and map have caught up, a client is let in exactly if the table admits
\* the pod that claims its address, or else the bare address or a pod that has
\* finished there, for every width of address and every prefix length (proxy.ts:254).
THEOREM VerdictIsTheTables == PolicySpec => []SettledVerdict
BY VerdictSettles, PolicyInvariant, PTL
===============================================================================
