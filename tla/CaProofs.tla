-------------------------------- MODULE CaProofs --------------------------------
(***************************************************************************)
(* Theorems about the CA on both sides of the table ca_certificates: about *)
(* CaRegistry, for every number of operations in progress and of rows,     *)
(* about ManagementTls, for every number of processes and starts, and      *)
(* about ProxyCa, for every number of polls, listener jobs, hosts and CAs. *)
(***************************************************************************)
EXTENDS ManagementTls, ProxyCa, FiniteSetTheorems, TLAPS

\* Among any rows there is a newest one: that of which the fewest are newer.
LEMMA NewestRow ==
  ASSUME NEW A \in SUBSET Rows, A # {}
  PROVE  /\ Max(A) \in A
         /\ \A r \in A : r <= Max(A)
<1> DEFINE Newer(r) == {s \in A : s > r}
           Uppers == {Newer(r) : r \in A}
<1>1. IsFiniteSet(A)
  <2>1. IsFiniteSet(1..MaxClock)
    BY ConstantsAssumption, FS_Interval
  <2>2. QED
    BY <2>1, FS_Subset DEF Rows
<1>2. Uppers \subseteq FiniteSubsetsOf(A)
  <2>1. \A r \in A : IsFiniteSet(Newer(r))
    BY <1>1, FS_Subset
  <2>2. QED
    BY <2>1 DEF FiniteSubsetsOf
<1>3. PICK u \in Uppers : \A v \in Uppers : <<v, u>> \notin StrictSubsetOrdering(A)
  <2>1. Uppers # {}
    OBVIOUS
  <2> HIDE DEF Uppers
  <2>2. IsWellFoundedOn(StrictSubsetOrdering(A), FiniteSubsetsOf(A))
    BY FS_StrictSubsetOrderingWellFounded
  <2>3. QED
    BY <1>2, <2>1, <2>2, WFMin
<1>4. PICK m \in A : u = Newer(m)
  OBVIOUS
<1>5. \A r \in A : r <= m
  <2> SUFFICES ASSUME NEW r \in A, r > m PROVE FALSE
    BY ConstantsAssumption DEF Rows
  <2>0. A \subseteq Nat
    BY ConstantsAssumption DEF Rows
  <2>1. Newer(r) \subseteq Newer(m)
    <3> SUFFICES ASSUME NEW s \in A, s > r PROVE s > m
      OBVIOUS
    <3>1. r \in Nat /\ m \in Nat /\ s \in Nat
      BY <2>0
    <3>2. QED
      BY <3>1
  <2>2. r \in Newer(m) /\ r \notin Newer(r)
    BY <2>0
  <2>3. <<Newer(r), Newer(m)>> \in StrictSubsetOrdering(A)
    BY <2>1, <2>2 DEF StrictSubsetOrdering
  <2>4. QED
    BY <1>3, <1>4, <2>3
<1>6. \E n \in A : \A r \in A : n >= r
  BY <1>5, ConstantsAssumption DEF Rows
<1>7. QED
  <2> DEFINE Newest(n) == \A r \in A : n >= r
  <2>1. Max(A) \in A /\ Newest(Max(A))
    BY <1>6 DEF Max
  <2>2. QED
    BY <2>1, ConstantsAssumption DEF Rows

\* What readers find is an active row, unless there is none.
LEMMA CurrentRow ==
  ASSUME TypeOK
  PROVE  /\ active = {} => Current = 0
         /\ active # {} => Current \in active /\ \A r \in active : r <= Current
<1>1. active \in SUBSET Rows
  BY DEF TypeOK
<1>2. QED
  BY <1>1, NewestRow DEF Current

LEMMA InitEstablishes == Init => IInv
<1> SUFFICES ASSUME Init PROVE IInv
  OBVIOUS
<1>1. InFlight = {}
  BY DEF Init, InFlight
<1>2. TypeOK
  BY <1>1, ConstantsAssumption DEF Init, TypeOK, Rows, InFlight
<1>3. Budget
  BY <1>1, FS_EmptySet, ConstantsAssumption DEF Init, Budget
<1>4. Times
  BY <1>1 DEF Init, Times, Rows
<1>5. Snapshots /\ FoundFirst /\ OnlyOverlapsLeaveTwo
  BY DEF Init, Snapshots, FoundFirst, OnlyOverlapsLeaveTwo
<1>6. QED
  BY <1>2, <1>3, <1>4, <1>5 DEF IInv

-------------------------------------------------------------------------------
\* Each action keeps the invariant.

\* Steps before the transaction and inside it change neither clock nor rows.
LEMMA BudgetUnchanged ==
  ASSUME Budget, clock' = clock, InFlight' = InFlight
  PROVE  Budget'
BY DEF Budget

LEMMA EnsureKeeps ==
  ASSUME IInv, NEW a \in Requests, ensureCaExists(a)
  PROVE  IInv'
<1> USE DEF IInv, ensureCaExists
<1>1. InFlight' = InFlight
  BY DEF TypeOK, InFlight
<1>2. TypeOK'
  BY <1>1 DEF TypeOK, Rows
<1>3. Budget'
  BY <1>1, BudgetUnchanged
<1>4. Times'
  BY <1>1 DEF Times, Rows
<1>5. Snapshots'
  BY DEF TypeOK, Snapshots, Held
<1>6. FoundFirst' /\ OnlyOverlapsLeaveTwo'
  BY DEF FoundFirst, OnlyOverlapsLeaveTwo
<1>7. QED
  BY <1>2, <1>3, <1>4, <1>5, <1>6

\* A begin takes the next tick, which no row and no other operation bears.
LEMMA GenerateKeeps ==
  ASSUME IInv, NEW a \in Requests, generateCa(a)
  PROVE  IInv'
<1> USE DEF IInv, generateCa
<1>1. InFlight' = InFlight \union {a} /\ a \notin InFlight
  BY DEF TypeOK, InFlight
<1>2. IsFiniteSet(InFlight) /\ Cardinality(InFlight) \in Nat
  BY ConstantsAssumption, FS_Subset, FS_CardinalityType DEF InFlight
<1>3. clock \in Nat /\ clock' = clock + 1 /\ clock' \in 1..MaxClock
  BY <1>2, ConstantsAssumption DEF TypeOK
<1>4. began' = [began EXCEPT ![a] = clock + 1] /\ began \in [Requests -> 0..MaxClock]
  BY <1>3 DEF TypeOK
<1>5. TypeOK'
  <2>1. pc' \in [Requests -> {"idle", "generate", "begun", "deactivating", "deactivated"}]
    BY DEF TypeOK
  <2>2. clock' \in 0..MaxClock /\ began' \in [Requests -> 0..MaxClock]
    BY <1>3, <1>4
  <2>3. \A b \in Requests : /\ (began'[b] # 0) <=> b \in InFlight'
                            /\ pc'[b] # "deactivated" => locked'[b] = {}
    BY <1>1, <1>3, <1>4 DEF TypeOK
  <2>4. QED
    BY <2>1, <2>2, <2>3 DEF TypeOK, Rows
<1>6. Budget'
  <2>1. Cardinality(InFlight') = Cardinality(InFlight) + 1
    BY <1>1, <1>2, FS_AddElement
  <2>2. clock + Cardinality(InFlight) + 2 <= MaxClock
    OBVIOUS
  <2>3. QED
    BY <1>2, <1>3, <2>1, <2>2, ConstantsAssumption DEF Budget
<1>7. Times'
  <2>1. \A b \in InFlight' : began'[b] \in 1..clock' /\ done'[began'[b]] = 0
    <3>1. done[clock + 1] = 0
      BY <1>3, ConstantsAssumption DEF Times, TypeOK, Rows
    <3>2. QED
      BY <1>1, <1>3, <1>4, <3>1 DEF Times, InFlight
  <2>2. \A b, c \in InFlight' : began'[b] = began'[c] => b = c
    BY <1>1, <1>3, <1>4 DEF Times, InFlight
  <2>3. \A r \in Rows : done'[r] <= clock' /\ (done'[r] # 0 => r <= clock')
    BY <1>3, ConstantsAssumption DEF Times, TypeOK, Rows
  <2>4. QED
    BY <2>1, <2>2, <2>3 DEF Times, Rows
<1>8. Snapshots'
  BY <1>4 DEF TypeOK, Snapshots, Held
<1>9. FoundFirst' /\ OnlyOverlapsLeaveTwo'
  BY DEF FoundFirst, OnlyOverlapsLeaveTwo
<1>10. QED
  BY <1>5, <1>6, <1>7, <1>8, <1>9

\* The snapshot holds all active rows.
LEMMA DeactivateKeeps ==
  ASSUME IInv, NEW a \in Requests, deactivate(a)
  PROVE  IInv'
<1> USE DEF IInv, deactivate
<1>1. InFlight' = InFlight
  BY DEF TypeOK, InFlight
<1>2. TypeOK'
  BY <1>1 DEF TypeOK, Rows
<1>3. Budget'
  BY <1>1, BudgetUnchanged
<1>4. Times'
  BY <1>1 DEF Times, Rows
<1>5. Snapshots'
  <2>1. Held(a)' = active /\ \A m \in active : done[m] # 0
    BY DEF TypeOK, Held
  <2>2. \A b \in Requests \ {a} : pc'[b] = pc[b] /\ Held(b)' = Held(b)
    BY DEF TypeOK, Held
  <2>3. QED
    BY <2>1, <2>2 DEF Snapshots
<1>6. FoundFirst' /\ OnlyOverlapsLeaveTwo'
  BY DEF FoundFirst, OnlyOverlapsLeaveTwo
<1>7. QED
  BY <1>2, <1>3, <1>4, <1>5, <1>6

\* Rows of the snapshot that are not active any more are left alone.
LEMMA LocksGrantedKeeps ==
  ASSUME IInv, NEW a \in Requests, locksGranted(a)
  PROVE  IInv'
<1> USE DEF IInv, locksGranted
<1>1. InFlight' = InFlight
  BY DEF TypeOK, InFlight
<1>2. TypeOK'
  BY <1>1 DEF TypeOK, Rows
<1>3. Budget'
  BY <1>1, BudgetUnchanged
<1>4. Times'
  BY <1>1 DEF Times, Rows
<1>5. Snapshots'
  <2>1. Held(a) = seen[a] /\ Held(a)' = seen[a] \intersect active
    BY DEF TypeOK, Held
  <2>2. active \ Held(a)' = active \ Held(a) /\ Held(a)' \subseteq Held(a)
    BY <2>1
  <2>3. \A b \in Requests \ {a} : pc'[b] = pc[b] /\ Held(b)' = Held(b)
    BY DEF TypeOK, Held
  <2>4. QED
    BY <2>2, <2>3 DEF Snapshots
<1>6. FoundFirst' /\ OnlyOverlapsLeaveTwo'
  BY DEF FoundFirst, OnlyOverlapsLeaveTwo
<1>7. QED
  BY <1>2, <1>3, <1>4, <1>5, <1>6

\* What the end of a transaction leaves of the operation.
LEMMA ReleasedLeaves ==
  ASSUME IInv, NEW a \in Requests, Released(a)
  PROVE  /\ InFlight' = InFlight \ {a}
         /\ Cardinality(InFlight') <= Cardinality(InFlight)
         /\ a \in InFlight => Cardinality(InFlight') = Cardinality(InFlight) - 1
         /\ Cardinality(InFlight) \in Nat
         /\ \A b \in Requests \ {a} : /\ pc'[b] = pc[b] /\ began'[b] = began[b]
                                      /\ Held(b)' = Held(b)
         /\ pc'[a] = "idle" /\ began'[a] = 0 /\ locked'[a] = {}
         /\ pc' \in [Requests -> {"idle", "generate", "begun", "deactivating", "deactivated"}]
         /\ began' \in [Requests -> 0..MaxClock]
         /\ seen' \in [Requests -> SUBSET Rows]
         /\ locked' \in [Requests -> SUBSET Rows]
<1> USE DEF IInv, Released
<1>1. InFlight' = InFlight \ {a}
  BY DEF TypeOK, InFlight
<1>2. IsFiniteSet(InFlight) /\ Cardinality(InFlight) \in Nat
  BY ConstantsAssumption, FS_Subset, FS_CardinalityType DEF InFlight
<1>3. /\ Cardinality(InFlight') <= Cardinality(InFlight)
      /\ a \in InFlight => Cardinality(InFlight') = Cardinality(InFlight) - 1
  <2>1. CASE a \in InFlight
    <3>1. Cardinality(InFlight \ {a}) = Cardinality(InFlight) - 1
      BY <1>2, <2>1, FS_RemoveElement
    <3>2. QED
      BY <1>1, <1>2, <3>1
  <2>2. CASE a \notin InFlight
    <3>1. InFlight' = InFlight
      BY <1>1, <2>2
    <3>2. QED
      BY <1>2, <2>2, <3>1
  <2>3. QED
    BY <2>1, <2>2
<1>4. \A b \in Requests \ {a} : /\ pc'[b] = pc[b] /\ began'[b] = began[b]
                                /\ Held(b)' = Held(b)
  BY DEF TypeOK, Held
<1>5. /\ pc'[a] = "idle" /\ began'[a] = 0 /\ locked'[a] = {}
      /\ pc' \in [Requests -> {"idle", "generate", "begun", "deactivating", "deactivated"}]
      /\ began' \in [Requests -> 0..MaxClock]
  BY ConstantsAssumption DEF TypeOK
<1>6. seen' \in [Requests -> SUBSET Rows] /\ locked' \in [Requests -> SUBSET Rows]
  BY DEF TypeOK
<1>7. QED
  BY <1>1, <1>2, <1>3, <1>4, <1>5, <1>6

\* A rollback leaves the rows as they are.
LEMMA RollbackKeeps ==
  ASSUME IInv, NEW a \in Requests, rollback(a)
  PROVE  IInv'
<1> USE DEF IInv, rollback
<1>1. Released(a)
  OBVIOUS
<1>2. \A b \in Requests : b # a => pc'[b] = pc[b] /\ began'[b] = began[b] /\ locked'[b] = locked[b]
  BY DEF Released, TypeOK
<1>3. TypeOK'
  <2>1. \A b \in Requests : /\ (began'[b] # 0) <=> b \in InFlight'
                            /\ pc'[b] # "deactivated" => locked'[b] = {}
    BY <1>1, <1>2, ReleasedLeaves DEF TypeOK
  <2>2. QED
    BY <1>1, <2>1, ReleasedLeaves DEF TypeOK, Rows
<1>4. Budget'
  <2>1. Cardinality(InFlight) \in Nat /\ Cardinality(InFlight') <= Cardinality(InFlight)
    BY <1>1, ReleasedLeaves
  <2>2. clock' = clock /\ clock \in Nat /\ clock + Cardinality(InFlight) <= MaxClock
    BY ConstantsAssumption DEF TypeOK, Budget
  <2>3. Cardinality(InFlight') \in Nat
    <3>1. IsFiniteSet(InFlight')
      BY ConstantsAssumption, FS_Subset DEF InFlight
    <3>2. QED
      BY <3>1, FS_CardinalityType
  <2>4. QED
    BY <2>1, <2>2, <2>3, ConstantsAssumption DEF Budget
<1>5. Times'
  <2>1. InFlight' = InFlight \ {a} /\ InFlight \subseteq Requests
    BY <1>1, ReleasedLeaves DEF InFlight
  <2>2. \A b \in InFlight' : began'[b] = began[b]
    BY <1>2, <2>1
  <2>3. Times /\ clock' = clock /\ done' = done /\ past' = past
    OBVIOUS
  <2> HIDE DEF IInv, rollback
  <2>4. QED
    BY <2>1, <2>2, <2>3 DEF Times, Rows
<1>6. Snapshots'
  BY <1>1, ReleasedLeaves DEF Snapshots
<1>7. FoundFirst' /\ OnlyOverlapsLeaveTwo'
  BY DEF FoundFirst, OnlyOverlapsLeaveTwo
<1>8. QED
  BY <1>3, <1>4, <1>5, <1>6, <1>7

\* The new row, the clock and the rows after a commit.
LEMMA CommitEffect ==
  ASSUME IInv, NEW a \in Requests, commit(a)
  PROVE  /\ began[a] \in Rows /\ began[a] <= clock /\ done[began[a]] = 0
         /\ began[a] \notin active /\ a \in InFlight
         /\ clock \in Nat /\ clock' = clock + 1 /\ clock' \in 1..MaxClock
         /\ active' = (active \ locked[a]) \union {began[a]}
         /\ active' \in SUBSET Rows /\ active' # {}
         /\ done'[began[a]] = clock + 1
         /\ \A r \in Rows : r # began[a] => done'[r] = done[r]
         /\ done' \in [Rows -> 0..MaxClock]
         /\ Current' = Max(active') /\ past' = past \union {Current'}
         /\ Current' \in active' /\ \A r \in active' : r <= Current'
<1> USE DEF IInv, commit
<1>1. a \in InFlight /\ Released(a)
  BY DEF InFlight
<1>2. Cardinality(InFlight) \in Nat /\ Cardinality(InFlight) # 0
  <2>1. IsFiniteSet(InFlight)
    BY ConstantsAssumption, FS_Subset DEF InFlight
  <2>2. QED
    BY <1>1, <2>1, FS_CardinalityType, FS_EmptySet
<1>3. clock \in Nat /\ clock' = clock + 1 /\ clock' \in 1..MaxClock
  BY <1>2, ConstantsAssumption DEF TypeOK, Budget
<1>4. began[a] \in Rows /\ began[a] <= clock /\ done[began[a]] = 0
  BY <1>1, <1>3, ConstantsAssumption DEF TypeOK, Times, Rows, InFlight
<1>5. began[a] \notin active
  BY <1>4 DEF TypeOK
<1>6. active' = (active \ locked[a]) \union {began[a]} /\ active' \in SUBSET Rows /\ active' # {}
  BY <1>4 DEF TypeOK
<1>7. /\ done'[began[a]] = clock + 1
      /\ \A r \in Rows : r # began[a] => done'[r] = done[r]
      /\ done' \in [Rows -> 0..MaxClock]
  BY <1>3, <1>4 DEF TypeOK
<1>8. Current' = Max(active') /\ past' = past \union {Current'}
  BY <1>6 DEF Current
<1>9. Current' \in active' /\ \A r \in active' : r <= Current'
  BY <1>6, <1>8, NewestRow
<1>10. QED
  BY <1>1, <1>3, <1>4, <1>5, <1>6, <1>7, <1>8, <1>9

\* The row of a commit is the last one to be committed; those that the
\* transaction did not deactivate were committed after its BEGIN.
LEMMA CommitKeeps ==
  ASSUME IInv, NEW a \in Requests, commit(a)
  PROVE  IInv'
<1> DEFINE own == began[a]
<1>1. Released(a) /\ pc[a] = "deactivated"
  BY DEF commit
<1>2. /\ own \in Rows /\ own <= clock /\ done[own] = 0
      /\ own \notin active /\ a \in InFlight
      /\ clock \in Nat /\ clock' = clock + 1 /\ clock' \in 1..MaxClock
      /\ active' = (active \ locked[a]) \union {own}
      /\ active' \in SUBSET Rows
      /\ done'[own] = clock + 1
      /\ \A r \in Rows : r # own => done'[r] = done[r]
      /\ done' \in [Rows -> 0..MaxClock]
      /\ past' = past \union {Current'}
      /\ Current' \in active' /\ \A r \in active' : r <= Current'
  BY CommitEffect
<1>3. /\ active \subseteq Rows /\ \A r \in active : done[r] # 0
      /\ \A r \in Rows : /\ r \in Nat /\ done[r] \in Nat /\ done[r] <= clock
                         /\ done[r] # 0 => r <= clock
  BY DEF IInv, TypeOK, Times, Rows
<1>4. \A b \in InFlight \ {a} : began[b] # own /\ began[b] \in Rows
  BY <1>2, ConstantsAssumption DEF IInv, TypeOK, Times, Rows, InFlight
<1>5. \A b \in Requests : b # a => pc'[b] = pc[b] /\ began'[b] = began[b] /\ locked'[b] = locked[b]
  BY <1>1 DEF IInv, Released, TypeOK
<1> HIDE DEF own
<1>6. TypeOK'
  <2>1. \A b \in Requests : /\ (began'[b] # 0) <=> b \in InFlight'
                            /\ pc'[b] # "deactivated" => locked'[b] = {}
    BY <1>1, <1>5, ReleasedLeaves DEF IInv, TypeOK
  <2>2. active' \subseteq {r \in Rows : done'[r] # 0}
    BY <1>2, <1>3
  <2>3. past' \subseteq 0..MaxClock
    BY <1>2, ConstantsAssumption DEF IInv, TypeOK, Rows
  <2>4. QED
    BY <1>1, <1>2, <2>1, <2>2, <2>3, ReleasedLeaves DEF TypeOK
<1>7. Budget'
  BY <1>1, <1>2, ReleasedLeaves, ConstantsAssumption DEF IInv, Budget
<1>8. Times'
  <2>1. InFlight' = InFlight \ {a}
    BY <1>1, ReleasedLeaves
  <2>2. \A b \in InFlight' : began'[b] \in 1..clock' /\ done'[began'[b]] = 0
    BY <1>2, <1>4, <1>5, <2>1 DEF IInv, Times, InFlight
  <2>3. \A b, c \in InFlight' : began'[b] = began'[c] => b = c
    BY <1>5, <2>1 DEF IInv, Times, InFlight
  <2>4. \A r \in Rows : done'[r] <= clock' /\ (done'[r] # 0 => r <= clock')
    BY <1>2, <1>3
  <2>5. past' \subseteq {0} \union {r \in Rows : done'[r] # 0}
    <3>1. past \subseteq {0} \union {r \in Rows : done[r] # 0}
      BY DEF IInv, Times
    <3>2. \A r \in Rows : done[r] # 0 => done'[r] # 0
      BY <1>2, <1>3
    <3>3. Current' \in Rows /\ done'[Current'] # 0
      BY <1>2, <1>3
    <3>4. QED
      BY <1>2, <3>1, <3>2, <3>3
  <2>6. QED
    BY <2>2, <2>3, <2>4, <2>5 DEF Times, Rows
<1>9. Snapshots'
  <2> SUFFICES ASSUME NEW b \in Requests, pc'[b] \in {"deactivating", "deactivated"}
               PROVE  /\ \A m \in Held(b)' : done'[m] # 0
                      /\ \A r \in active' \ Held(b)' :
                           /\ began'[b] < done'[r]
                           /\ \A m \in Held(b)' : done'[m] < done'[r]
    BY DEF Snapshots
  <2>1. b # a
    BY <1>1, ReleasedLeaves
  <2>2. pc'[b] = pc[b] /\ began'[b] = began[b] /\ Held(b)' = Held(b)
    BY <1>1, <2>1, ReleasedLeaves
  <2>3. Held(b) \subseteq Rows /\ b \in InFlight
    BY <2>2 DEF IInv, TypeOK, Held, InFlight
  <2>4. /\ \A m \in Held(b) : done[m] # 0
        /\ \A r \in active \ Held(b) :
             /\ began[b] < done[r]
             /\ \A m \in Held(b) : done[m] < done[r]
    BY <2>2 DEF IInv, Snapshots
  <2>5. \A m \in Held(b) : m # own /\ done'[m] = done[m] /\ done[m] <= clock
    BY <1>2, <1>3, <2>3, <2>4
  <2>6. began[b] <= clock /\ began[b] \in Nat
    BY <1>2, <2>3 DEF IInv, Times
  <2>7. QED
    BY <1>2, <1>3, <2>2, <2>3, <2>4, <2>5, <2>6
<1>10. FoundFirst'
  <2> SUFFICES ASSUME NEW r \in active', NEW m \in active', r \in past', r < m
               PROVE  done'[r] < done'[m]
    BY DEF FoundFirst
  <2>1. r # Current'
    BY <1>2, <1>3
  <2>2. r \in past /\ r # own
    BY <1>2, <1>3, <2>1 DEF IInv, Times, Rows
  <2>3. QED
    BY <1>2, <1>3, <2>2 DEF IInv, FoundFirst
<1>11. OnlyOverlapsLeaveTwo'
  <2> SUFFICES ASSUME NEW r \in active', NEW s \in active', r < s
               PROVE  s < done'[r]
    BY DEF OnlyOverlapsLeaveTwo
  <2>1. CASE r = own
    BY <1>2, <1>3, <2>1
  <2>2. CASE r # own /\ s = own
    <3>1. Held(a) = locked[a] /\ r \in active \ Held(a)
      BY <1>1, <1>2, <2>2 DEF Held
    <3>2. began[a] < done[r]
      BY <1>1, <3>1 DEF IInv, Snapshots
    <3>3. QED
      BY <1>2, <1>3, <2>2, <3>1, <3>2 DEF own
  <2>3. CASE r # own /\ s # own
    BY <1>2, <1>3, <2>3 DEF IInv, OnlyOverlapsLeaveTwo
  <2>4. QED
    BY <2>1, <2>2, <2>3
<1>12. QED
  BY <1>6, <1>7, <1>8, <1>9, <1>10, <1>11 DEF IInv

\* Every step keeps the invariant.
LEMMA StepKeeps == IInv /\ [Next]_vars => IInv'
<1> SUFFICES ASSUME IInv, [Next]_vars PROVE IInv'
  OBVIOUS
<1>1. CASE UNCHANGED vars
  <2>1. InFlight' = InFlight
    BY <1>1 DEF vars, InFlight
  <2>2. TypeOK' /\ Budget' /\ Times'
    BY <1>1, <2>1 DEF IInv, vars, TypeOK, Budget, Times, Rows
  <2>3. Snapshots' /\ FoundFirst' /\ OnlyOverlapsLeaveTwo'
    BY <1>1 DEF IInv, vars, Snapshots, Held, FoundFirst, OnlyOverlapsLeaveTwo
  <2>4. QED
    BY <2>2, <2>3 DEF IInv
<1>2. CASE Next
  BY <1>2, EnsureKeeps, GenerateKeeps, DeactivateKeeps, LocksGrantedKeeps, CommitKeeps,
     RollbackKeeps DEF Next
<1>3. QED
  BY <1>1, <1>2

-------------------------------------------------------------------------------
\* What a step shows of the table: it only changes at a commit, to a row that
\* readers have never found.
LEMMA StepShows ==
  ASSUME IInv, [Next]_vars, Current' # Current
  PROVE  Current' \in Rows /\ Current' \notin past
<1>1. PICK a \in Requests : commit(a)
  BY DEF Next, vars, Current, ensureCaExists, generateCa, deactivate, locksGranted, rollback
<1>2. /\ began[a] \in Rows /\ done[began[a]] = 0
      /\ active' = (active \ locked[a]) \union {began[a]}
      /\ active' \in SUBSET Rows
      /\ Current' \in active' /\ \A r \in active' : r <= Current'
  BY <1>1, CommitEffect
<1>3. CASE Current' = began[a]
  BY <1>2, <1>3 DEF IInv, Times, Rows
<1>4. CASE Current' # began[a]
  <2>1. Current' \in active \ locked[a]
    BY <1>2, <1>4
  <2>2. Current \in active /\ Current' <= Current /\ Current' # Current
    BY <2>1, CurrentRow DEF IInv
  <2>3. Current \in Rows /\ Current' \in Rows
    BY <2>1, <2>2 DEF IInv, TypeOK
  <2>4. Current' < Current
    BY <2>2, <2>3 DEF Rows
  <2>5. Current \notin active'
    BY <1>2, <2>3, <2>4 DEF Rows
  <2>6. Current \in locked[a]
    BY <1>2, <2>2, <2>5
  <2>7. Held(a) = locked[a] /\ pc[a] = "deactivated"
    BY <1>1 DEF commit, Held
  <2>8. done[Current] < done[Current']
    BY <2>1, <2>6, <2>7 DEF IInv, Snapshots
  <2>9. Current' \in past => done[Current'] < done[Current]
    BY <2>1, <2>2, <2>4 DEF IInv, FoundFirst
  <2>10. done[Current] \in Nat /\ done[Current'] \in Nat
    BY <2>3 DEF IInv, TypeOK
  <2>11. QED
    BY <2>3, <2>8, <2>9, <2>10
<1>5. QED
  BY <1>3, <1>4

\* Counters and rows stay in range, and only a transaction in progress holds
\* anything (ca.ts:43-59).
THEOREM RegistryInvariant == Spec => []IInv
<1>1. QED
  BY InitEstablishes, StepKeeps, PTL DEF Spec

\* The steps of the table are steps of a CaStore.
LEMMA StoreInit == Init => Store!Init
BY DEF Init, Store!Init, Current

LEMMA StoreStep == IInv /\ [Next]_vars => [Store!Replace]_Current
BY StepShows DEF Store!Replace

\* A row that readers no longer find is never found again (ca.ts:47-53).
THEOREM RowsNeverBack == Spec => NeverBack
<1>1. IInv /\ [Next]_vars => [Current' # Current => Current' \notin past]_vars
  BY StepShows
<1>2. QED
  BY <1>1, RegistryInvariant, PTL DEF Spec, NeverBack

-------------------------------------------------------------------------------
\* The registry sees its own steps only.
LEMMA RegistrySteps == [TlsNext]_allVars => [Next]_vars
<1> SUFFICES ASSUME TlsNext PROVE [Next]_vars
  BY DEF allVars, vars
<1>1. ASSUME NEW s \in Servers, stopServer(s) \/ ensureFails(s) PROVE [Next]_vars
  BY <1>1, ServersAssumption DEF stopServer, ensureFails, Next
<1>2. ASSUME NEW s \in Servers,
             \/ startServer(s) \/ caEnsured(s) \/ selectCa(s) \/ reuseStoredCert(s)
             \/ signCert(s) \/ storeCert(s) \/ getTlsFails(s)
      PROVE  UNCHANGED vars
  BY <1>2 DEF startServer, caEnsured, selectCa, reuseStoredCert, signCert, storeCert, getTlsFails
<1>3. ASSUME NEW a \in Requests, RegistryStep(a) PROVE Next
  BY <1>3 DEF RegistryStep, Next
<1>4. QED
  BY <1>1, <1>2, <1>3 DEF TlsNext

\* A process keeps its operation slot to itself.
LEMMA SlotsKept ==
  ASSUME IInv, TlsNext, NEW t \in Servers, pc'[t] # pc[t]
  PROVE  \/ server[t] = "ensure" /\ UNCHANGED server
         \/ pc'[t] = "idle"
<1>1. ASSUME NEW a \in Requests, RegistryStep(a)
      PROVE  a = t /\ server[t] = "ensure" /\ UNCHANGED server
  <2>1. pc' = [pc EXCEPT ![a] = pc'[a]]
    BY <1>1 DEF RegistryStep, ensureCaExists, generateCa, deactivate, locksGranted, commit,
         rollback, Released, IInv, TypeOK
  <2>2. a = t
    BY <2>1, ServersAssumption DEF IInv, TypeOK
  <2>3. QED
    BY <1>1, <2>2 DEF RegistryStep, memory
<1>2. ASSUME NEW s \in Servers, stopServer(s) \/ ensureFails(s) PROVE pc'[t] = "idle"
  <2>1. pc' = [pc EXCEPT ![s] = "idle"]
    BY <1>2, ServersAssumption DEF stopServer, ensureFails, rollback, Released, vars, IInv, TypeOK
  <2>2. QED
    BY <2>1, ServersAssumption DEF IInv, TypeOK
<1>3. ASSUME NEW s \in Servers,
             \/ startServer(s) \/ caEnsured(s) \/ selectCa(s) \/ reuseStoredCert(s)
             \/ signCert(s) \/ storeCert(s) \/ getTlsFails(s)
      PROVE  FALSE
  BY <1>3 DEF startServer, caEnsured, selectCa, reuseStoredCert, signCert, storeCert,
       getTlsFails, vars
<1>4. QED
  BY <1>1, <1>2, <1>3 DEF TlsNext

\* Once there is a CA there always is one.
LEMMA ActiveStays ==
  ASSUME IInv, [Next]_vars, active # {}
  PROVE  active' # {}
<1>1. CASE \E a \in Requests : commit(a)
  BY <1>1, CommitEffect
<1>2. CASE ~ \E a \in Requests : commit(a)
  BY <1>2 DEF Next, vars, ensureCaExists, generateCa, deactivate, locksGranted, rollback
<1>3. QED
  BY <1>1, <1>2

-------------------------------------------------------------------------------
\* What the invariant says of one process.
Orderly(s) ==
  /\ caRow[s] # 0 <=> server[s] \in {"cert", "store"}
  /\ creds[s] # 0 => server[s] = "up"
  /\ pc[s] # "idle" => server[s] = "ensure"
  /\ server[s] \notin {"down", "ensure"} => active # {}
  /\ caRow[s] # 0 => caRow[s] \in met[s]
  /\ server[s] = "up" => IF creds[s] = 0 THEN failed[s] ELSE creds[s] \in met[s]

\* The types of the processes' variables.
Memories ==
  /\ server \in [Servers -> {"down", "ensure", "ca", "cert", "store", "up"}]
  /\ caRow \in [Servers -> 0..MaxClock]
  /\ creds \in [Servers -> 0..MaxClock]
  /\ service \in [hash : 0..MaxClock, signer : 0..MaxClock]
  /\ service.hash = service.signer
  /\ failed \in [Servers -> BOOLEAN]
  /\ starts \in 0..MaxStarts

LEMMA Parts ==
  TlsIInv <=> /\ IInv /\ Memories
              /\ met \in [Servers -> SUBSET (0..MaxClock)]
              /\ \A s \in Servers : Orderly(s)
BY DEF TlsIInv, IInv, TlsTypeOK, Memories, ReadsWhatWas, ManagementCertFresh, Orderly

LEMMA PartsNext ==
  ASSUME IInv', Memories', met' \in [Servers -> SUBSET (0..MaxClock)],
         \A s \in Servers : Orderly(s)'
  PROVE  TlsIInv'
BY DEF TlsIInv, IInv, TlsTypeOK, Memories, ReadsWhatWas, ManagementCertFresh, Orderly

\* A process whose memory a step leaves alone stays in order.
LEMMA OthersOrderly ==
  ASSUME IInv, [Next]_vars, TlsNext, NEW t \in Servers, Orderly(t),
         server'[t] = server[t], caRow'[t] = caRow[t], creds'[t] = creds[t],
         failed'[t] = failed[t]
  PROVE  Orderly(t)'
<1>1. met'[t] = CASE server[t] = "down" -> {}
                  [] server[t] = "up"   -> met[t] \intersect {creds[t]}
                  [] OTHER              -> met[t] \union {Current, Current'}
  BY DEF TlsNext, Meets
<1>2. active # {} => active' # {}
  BY ActiveStays
<1>3. pc'[t] # "idle" => server'[t] = "ensure"
  BY SlotsKept DEF Orderly
<1>4. caRow'[t] # 0 => caRow'[t] \in met'[t]
  <2>1. caRow'[t] # 0 => server[t] \in {"cert", "store"}
    BY DEF Orderly
  <2>2. server[t] \in {"cert", "store"} => met'[t] = met[t] \union {Current, Current'}
    BY <1>1
  <2>3. QED
    BY <2>1, <2>2 DEF Orderly
<1>5. server'[t] = "up" => IF creds'[t] = 0 THEN failed'[t] ELSE creds'[t] \in met'[t]
  <2>1. server[t] = "up" => met'[t] = met[t] \intersect {creds[t]}
    BY <1>1
  <2>2. QED
    BY <2>1 DEF Orderly
<1>6. QED
  BY <1>2, <1>3, <1>4, <1>5 DEF Orderly

\* What a process has met after a step of its own.
LEMMA MetAfter ==
  ASSUME TlsNext, NEW s \in Servers
  PROVE  /\ server'[s] = "up" => met'[s] = met[s] \intersect {creds'[s]}
         /\ server'[s] \in {"cert", "store"} => met'[s] = met[s] \union {Current, Current'}
<1>1. met'[s] = CASE server'[s] = "down" -> {}
                  [] server'[s] = "up"   -> met[s] \intersect {creds'[s]}
                  [] OTHER               -> met[s] \union {Current, Current'}
  BY DEF TlsNext, Meets
<1>2. QED
  BY <1>1

\* A step of process s changes nothing of the others.
LEMMA OwnMemory ==
  ASSUME Memories, NEW s \in Servers, NEW t \in Servers, t # s,
         \/ startServer(s) \/ caEnsured(s) \/ selectCa(s) \/ reuseStoredCert(s)
         \/ signCert(s) \/ storeCert(s) \/ getTlsFails(s) \/ stopServer(s) \/ ensureFails(s)
  PROVE  /\ server'[t] = server[t] /\ caRow'[t] = caRow[t]
         /\ creds'[t] = creds[t] /\ failed'[t] = failed[t]
BY DEF Memories, startServer, caEnsured, selectCa, reuseStoredCert, signCert, storeCert,
   getTlsFails, stopServer, ensureFails, Up, Exits

\* What readers find is a row, if there is one.
LEMMA CurrentType == IInv => Current \in 0..MaxClock /\ (active # {} => Current # 0)
<1> SUFFICES ASSUME IInv PROVE Current \in 0..MaxClock /\ (active # {} => Current # 0)
  OBVIOUS
<1>1. active \subseteq 1..MaxClock
  BY DEF IInv, TypeOK, Rows
<1>2. active = {} => Current = 0
  BY CurrentRow DEF IInv
<1>3. active # {} => Current \in 1..MaxClock
  BY <1>1, CurrentRow DEF IInv
<1>4. QED
  BY <1>2, <1>3, ConstantsAssumption

LEMMA CurrentTypeNext == IInv' => Current' \in 0..MaxClock
<1> SUFFICES ASSUME IInv' PROVE Current' \in 0..MaxClock
  OBVIOUS
<1>1. active' \in SUBSET Rows
  BY DEF IInv, TypeOK
<1>2. active' = {} => Current' = 0
  BY DEF Current
<1>3. active' # {} => Current' \in Rows
  BY <1>1, NewestRow DEF Current
<1>4. QED
  BY <1>2, <1>3, ConstantsAssumption DEF Rows

\* The steps before there is a certificate.
LEMMA StartKeeps ==
  ASSUME TlsIInv, TlsNext, [Next]_vars, NEW s \in Servers,
         startServer(s) \/ caEnsured(s) \/ signCert(s)
  PROVE  Memories' /\ Orderly(s)'
<1> USE DEF Memories
<1>1. Memories /\ Orderly(s) /\ IInv
  BY Parts
<1>2. CASE startServer(s)
  BY <1>1, <1>2, ServersAssumption DEF startServer, Orderly, vars
<1>3. CASE caEnsured(s)
  BY <1>1, <1>3, ServersAssumption DEF caEnsured, Orderly, vars
<1>4. CASE signCert(s)
  BY <1>1, <1>4, MetAfter, ServersAssumption DEF signCert, Orderly, vars
<1>5. QED
  BY <1>2, <1>3, <1>4

LEMMA SelectKeeps ==
  ASSUME TlsIInv, TlsNext, NEW s \in Servers, selectCa(s)
  PROVE  Memories' /\ Orderly(s)'
<1>1. Memories /\ Orderly(s) /\ IInv
  BY Parts
<1>2. active # {} /\ Current \in 0..MaxClock /\ Current # 0
  BY <1>1, CurrentType DEF selectCa, Orderly
<1>3. /\ caRow' = [caRow EXCEPT ![s] = Current] /\ server' = [server EXCEPT ![s] = "cert"]
      /\ UNCHANGED <<creds, failed, service, starts, vars>>
  BY <1>2 DEF selectCa
<1>4. Current \in met'[s]
  BY <1>1, <1>3, MetAfter DEF Memories
<1>5. QED
  BY <1>1, <1>2, <1>3, <1>4 DEF Orderly, Memories, vars, selectCa

\* A certificate of the CA that was read.
LEMMA UpKeeps ==
  ASSUME TlsIInv, TlsNext, NEW s \in Servers,
         reuseStoredCert(s) \/ storeCert(s) \/ getTlsFails(s)
  PROVE  Memories' /\ Orderly(s)'
<1>1. Memories /\ Orderly(s) /\ IInv
  BY Parts
<1>2. CASE reuseStoredCert(s) \/ storeCert(s)
  <2>1. caRow[s] # 0 /\ caRow[s] \in met[s] /\ caRow[s] \in 0..MaxClock /\ active # {}
    BY <1>1, <1>2 DEF reuseStoredCert, storeCert, Orderly, Memories
  <2>2. Up(s, caRow[s]) /\ UNCHANGED <<vars, failed, starts>>
    BY <1>1, <1>2 DEF reuseStoredCert, storeCert, Memories
  <2>3. service' \in [hash : 0..MaxClock, signer : 0..MaxClock] /\ service'.hash = service'.signer
    BY <1>1, <1>2, <2>1 DEF reuseStoredCert, storeCert, Memories
  <2>4. server'[s] = "up" /\ creds'[s] = caRow[s] /\ caRow'[s] = 0 /\ pc'[s] = "idle"
    BY <1>1, <1>2, <2>2 DEF Up, Memories, vars, Orderly, reuseStoredCert, storeCert
  <2>5. creds'[s] \in met'[s]
    BY <2>1, <2>4, MetAfter
  <2>6. Memories'
    BY <1>1, <2>1, <2>2, <2>3, ConstantsAssumption DEF Memories, Up
  <2>7. QED
    BY <2>1, <2>2, <2>4, <2>5, <2>6 DEF Orderly, vars
<1>3. CASE getTlsFails(s)
  <2>1. Memories'
    BY <1>1, <1>3, ConstantsAssumption DEF Memories, Up, getTlsFails
  <2>2. QED
    BY <1>1, <1>3, <2>1 DEF Memories, Up, getTlsFails, Orderly, vars
<1>4. QED
  BY <1>2, <1>3

LEMMA StopKeeps ==
  ASSUME TlsIInv, TlsNext, NEW s \in Servers, stopServer(s) \/ ensureFails(s)
  PROVE  Memories' /\ Orderly(s)'
<1>1. Memories /\ Orderly(s) /\ IInv
  BY Parts
<1>2. Exits(s) /\ UNCHANGED <<service, starts>>
  BY DEF stopServer, ensureFails
<1>3. pc'[s] = "idle"
  BY <1>1, ServersAssumption DEF stopServer, ensureFails, rollback, Released, vars, IInv, TypeOK
<1>4. QED
  BY <1>1, <1>2, <1>3, ConstantsAssumption DEF Memories, Exits, Orderly

\* Every step keeps the invariant.
LEMMA TlsStepKeeps == TlsIInv /\ [TlsNext]_allVars => TlsIInv'
<1> SUFFICES ASSUME TlsIInv, [TlsNext]_allVars PROVE TlsIInv'
  OBVIOUS
<1>1. IInv /\ IInv' /\ [Next]_vars /\ Memories /\ \A s \in Servers : Orderly(s)
  BY RegistrySteps, StepKeeps, Parts
<1>2. CASE UNCHANGED allVars
  <2>1. Memories' /\ met' \in [Servers -> SUBSET (0..MaxClock)]
    BY <1>1, <1>2, Parts DEF allVars, memory, Memories
  <2>2. \A s \in Servers : Orderly(s)'
    BY <1>1, <1>2 DEF allVars, memory, vars, Orderly
  <2>3. QED
    BY <1>1, <2>1, <2>2, PartsNext
<1>3. CASE TlsNext
  <2>1. met' \in [Servers -> SUBSET (0..MaxClock)]
    <3>1. Current \in 0..MaxClock /\ Current' \in 0..MaxClock
      BY <1>1, CurrentType, CurrentTypeNext
    <3>2. met \in [Servers -> SUBSET (0..MaxClock)]
      BY Parts
    <3>3. QED
      BY <1>3, <3>1, <3>2 DEF TlsNext, Meets
  <2>2. ASSUME NEW s \in Servers,
               \/ startServer(s) \/ caEnsured(s) \/ selectCa(s) \/ reuseStoredCert(s)
               \/ signCert(s) \/ storeCert(s) \/ getTlsFails(s) \/ stopServer(s) \/ ensureFails(s)
        PROVE  Memories' /\ \A t \in Servers : Orderly(t)'
    <3>1. Memories' /\ Orderly(s)'
      BY <1>1, <1>3, <2>2, StartKeeps, SelectKeeps, UpKeeps, StopKeeps
    <3>2. \A t \in Servers \ {s} : Orderly(t)'
      BY <1>1, <1>3, <2>2, OwnMemory, OthersOrderly
    <3>3. QED
      BY <3>1, <3>2
  <2>3. ASSUME NEW a \in Requests, RegistryStep(a)
        PROVE  Memories' /\ \A t \in Servers : Orderly(t)'
    <3>1. UNCHANGED <<server, caRow, creds, failed, service, starts>>
      BY <2>3 DEF RegistryStep, memory
    <3>2. Memories'
      BY <1>1, <3>1 DEF Memories
    <3>3. QED
      BY <1>1, <1>3, <3>1, <3>2, OthersOrderly
  <2>4. QED
    <3>1. Memories' /\ \A s \in Servers : Orderly(s)'
      BY <1>3, <2>2, <2>3 DEF TlsNext
    <3>2. QED
      BY <1>1, <2>1, <3>1, PartsNext
<1>4. QED
  BY <1>2, <1>3

LEMMA TlsInitEstablishes == TlsInit => TlsIInv
<1> SUFFICES ASSUME TlsInit PROVE TlsIInv
  OBVIOUS
<1>1. IInv
  BY InitEstablishes DEF TlsInit
<1>2. Memories /\ met \in [Servers -> SUBSET (0..MaxClock)]
  BY ConstantsAssumption, ServersAssumption DEF TlsInit, Memories
<1>3. \A s \in Servers : Orderly(s)
  BY ServersAssumption DEF TlsInit, Init, Orderly
<1>4. QED
  BY <1>1, <1>2, <1>3, Parts

-------------------------------------------------------------------------------
\* The whole inductive invariant: the registry's rows, what a starting process has
\* read of them and the certificate it serves (ca.ts:43-59, index.ts:200-313).
THEOREM TlsInvariant == TlsSpec => []TlsIInv
<1>1. QED
  BY TlsInitEstablishes, TlsStepKeeps, PTL DEF TlsSpec

\* The types, and who holds what, of the registry and of the processes.
THEOREM TypeCorrect == TlsSpec => []TlsTypeOK
<1>1. TlsIInv => TlsTypeOK
  BY DEF TlsIInv
<1>2. QED
  BY <1>1, TlsInvariant, PTL

\* Two active rows are of transactions that overlapped (ca.ts:47).
THEOREM OverlapsOnly == TlsSpec => []OnlyOverlapsLeaveTwo
<1>1. TlsIInv => OnlyOverlapsLeaveTwo
  BY DEF TlsIInv, IInv
<1>2. QED
  BY <1>1, TlsInvariant, PTL

\* A process serves a certificate of a CA that was active while it started, or
\* none because a call failed (index.ts:200-313).
THEOREM CertificateFresh == TlsSpec => []ManagementCertFresh
<1>1. TlsIInv => ManagementCertFresh
  BY DEF TlsIInv
<1>2. QED
  BY <1>1, TlsInvariant, PTL

\* The processes use the registry as its specification says.
THEOREM RegistryRespected == TlsSpec => Spec
<1>1. TlsInit => Init
  BY DEF TlsInit
<1>2. QED
  BY <1>1, RegistrySteps, PTL DEF TlsSpec, Spec

\* A row that readers no longer find is never found again (ca.ts:47-53).
THEOREM NeverFoundAgain == TlsSpec => NeverBack
BY RegistryRespected, RowsNeverBack, PTL

\* To its readers the table is a CaStore.
THEOREM Refinement == TlsSpec => ImplementsCaStore
BY RegistryRespected, RegistryInvariant, StoreInit, StoreStep, PTL
   DEF Spec, ImplementsCaStore, Store!Spec

-------------------------------------------------------------------------------
\* What the pairs are made of.
LEMMA PairTypes ==
  /\ NoPair \in Pairs
  /\ \A c, d \in Cas \union {NoCa} : <<c, d>> \in Pairs
BY DEF NoPair, Pairs

\* A process that is down, with an empty table, satisfies the invariant.
LEMMA ProxyStarts == ProxyInit => ProxyIInv
<1> SUFFICES ASSUME ProxyInit PROVE ProxyIInv
  OBVIOUS
<1>1. TableTypes
  BY PairTypes DEF ProxyInit, TableTypes
<1>2. ProcessTypes
  BY PairTypes DEF ProxyInit, ProcessTypes
<1>3. PollTypes
  BY DEF ProxyInit, PollTypes
<1>4. JobTypes
  BY PairTypes DEF ProxyInit, JobTypes
<1>5. HistoryTypes
  <2>1. missed \in BOOLEAN /\ trouble \in BOOLEAN
    BY DEF ProxyInit
  <2>2. crashes \in 0..MaxCrashes
    BY ProxyAssumption DEF ProxyAssumption, ProxyInit
  <2> QED
    BY <2>1, <2>2 DEF HistoryTypes
<1>6. Operands /\ OnlyWhileRunning /\ RetryWhileRunning /\ StaleLeafAnnounced
  BY DEF ProxyInit, Operands, OnlyWhileRunning, RetryWhileRunning, StaleLeafAnnounced
<1> QED
  BY <1>1, <1>2, <1>3, <1>4, <1>5, <1>6 DEF ProxyIInv, ProxyTypeOK

\* The table's CA changes under a process that knows another one.
LEMMA ReplaceKeeps ==
  ASSUME ProxyIInv, replaceCa
  PROVE  ProxyIInv'
<1>1. TableTypes' /\ ProcessTypes' /\ PollTypes' /\ JobTypes' /\ HistoryTypes' /\
     Operands' /\ OnlyWhileRunning' /\ StaleLeafAnnounced' /\ RetryWhileRunning'
  BY DEF ProxyIInv, ProxyTypeOK, replaceCa, Table!Replace, db, ca, polls, jobs,
         TableTypes, ProcessTypes, PollTypes, JobTypes, HistoryTypes, Operands,
         OnlyWhileRunning, StaleLeafAnnounced, Announced, RetryWhileRunning
<1> QED
  BY <1>1 DEF ProxyIInv, ProxyTypeOK

\* A process that starts has an empty cache.
LEMMA StartProcessKeeps ==
  ASSUME ProxyIInv, startProcess
  PROVE  ProxyIInv'
<1>1. ProcessTypes'
  BY ProxyAssumption DEF ProxyAssumption, ProxyIInv, ProxyTypeOK, startProcess, db,
         ca, polls, jobs, ProcessTypes, TableTypes
<1>2. StaleLeafAnnounced'
  BY DEF ProxyIInv, ProxyTypeOK, startProcess, db, ca, polls, jobs,
         StaleLeafAnnounced, Announced, OnlyWhileRunning
<1>3. TableTypes' /\ PollTypes' /\ JobTypes' /\ HistoryTypes' /\ Operands' /\
     OnlyWhileRunning' /\ RetryWhileRunning'
  BY DEF ProxyIInv, ProxyTypeOK, startProcess, db, ca, polls, jobs, TableTypes,
         PollTypes, JobTypes, HistoryTypes, Operands, OnlyWhileRunning,
         RetryWhileRunning
<1> QED
  BY <1>1, <1>2, <1>3 DEF ProxyIInv, ProxyTypeOK

\* Certificates and timers begin with the process that runs.
LEMMA StartProxyKeeps ==
  ASSUME ProxyIInv, startProxy
  PROVE  ProxyIInv'
<1>1. ProcessTypes'
  BY PairTypes DEF ProxyIInv, ProxyTypeOK, startProxy, startTlsListener, isCALoaded,
         db, ca, polls, jobs, ProcessTypes, TableTypes
<1>2. JobTypes'
  BY DEF ProxyIInv, ProxyTypeOK, startProxy, startTlsListener, isCALoaded, db, ca,
         polls, jobs, JobTypes, ProcessTypes
<1>3. Operands'
  BY DEF ProxyIInv, ProxyTypeOK, startProxy, startTlsListener, isCALoaded, db, ca,
         polls, jobs, Operands, PollTypes, JobTypes
<1>4. TableTypes' /\ PollTypes' /\ HistoryTypes' /\ OnlyWhileRunning' /\
     StaleLeafAnnounced' /\ RetryWhileRunning'
  BY DEF ProxyIInv, ProxyTypeOK, startProxy, startTlsListener, isCALoaded, db, ca,
         polls, jobs, TableTypes, PollTypes, HistoryTypes, OnlyWhileRunning,
         StaleLeafAnnounced, Announced, RetryWhileRunning
<1> QED
  BY <1>1, <1>2, <1>3, <1>4 DEF ProxyIInv, ProxyTypeOK

\* The retry interval belongs to a process that runs.
LEMMA RetryKeeps ==
  ASSUME ProxyIInv, retryFires
  PROVE  ProxyIInv'
<1>1. ProcessTypes'
  BY PairTypes DEF ProxyIInv, ProxyTypeOK, retryFires, isCALoaded, db, ca, polls,
         jobs, ProcessTypes, TableTypes
<1>2. JobTypes'
  BY DEF ProxyIInv, ProxyTypeOK, retryFires, isCALoaded, db, ca, polls, jobs,
         JobTypes, ProcessTypes
<1>3. Operands'
  BY DEF ProxyIInv, ProxyTypeOK, retryFires, isCALoaded, db, ca, polls, jobs,
         Operands, PollTypes, JobTypes
<1>4. OnlyWhileRunning'
  BY DEF ProxyIInv, ProxyTypeOK, retryFires, isCALoaded, db, ca, polls, jobs,
         OnlyWhileRunning, RetryWhileRunning, ProcessTypes, JobTypes
<1>5. TableTypes' /\ PollTypes' /\ HistoryTypes' /\ StaleLeafAnnounced' /\
     RetryWhileRunning'
  BY DEF ProxyIInv, ProxyTypeOK, retryFires, isCALoaded, db, ca, polls, jobs,
         TableTypes, PollTypes, HistoryTypes, StaleLeafAnnounced, Announced,
         RetryWhileRunning
<1> QED
  BY <1>1, <1>2, <1>3, <1>4, <1>5 DEF ProxyIInv, ProxyTypeOK

\* A poll begins with what the table holds.
LEMMA PollKeeps ==
  ASSUME ProxyIInv, NEW k \in Ticks, reloadIfChanged(k)
  PROVE  ProxyIInv'
<1>1. PollTypes'
  BY DEF ProxyIInv, ProxyTypeOK, reloadIfChanged, db, ca, polls, jobs, PollTypes,
         TableTypes
<1>2. HistoryTypes'
  BY DEF ProxyIInv, ProxyTypeOK, reloadIfChanged, db, ca, polls, jobs, HistoryTypes
<1>3. Operands'
  BY DEF ProxyIInv, ProxyTypeOK, reloadIfChanged, db, ca, polls, jobs, Operands,
         PollTypes, JobTypes
<1>4. OnlyWhileRunning'
  BY DEF ProxyIInv, ProxyTypeOK, reloadIfChanged, db, ca, polls, jobs,
         OnlyWhileRunning
<1>5. StaleLeafAnnounced'
  BY DEF ProxyIInv, ProxyTypeOK, reloadIfChanged, db, ca, polls, jobs,
         StaleLeafAnnounced, Announced, PollTypes
<1>6. TableTypes' /\ ProcessTypes' /\ JobTypes' /\ RetryWhileRunning'
  BY DEF ProxyIInv, ProxyTypeOK, reloadIfChanged, db, ca, polls, jobs, TableTypes,
         ProcessTypes, JobTypes, RetryWhileRunning
<1> QED
  BY <1>1, <1>2, <1>3, <1>4, <1>5, <1>6 DEF ProxyIInv, ProxyTypeOK

\* Only a poll in the state notify announces, and this one is not.
LEMMA CompareKeeps ==
  ASSUME ProxyIInv, NEW k \in Ticks, compare(k)
  PROVE  ProxyIInv'
<1>1. Operands'
  BY DEF ProxyIInv, ProxyTypeOK, compare, TickEnds, db, ca, polls, jobs, Operands,
         PollTypes, JobTypes
<1>2. OnlyWhileRunning'
  BY DEF ProxyIInv, ProxyTypeOK, compare, TickEnds, db, ca, polls, jobs,
         OnlyWhileRunning, PollTypes
<1>3. StaleLeafAnnounced'
  BY DEF ProxyIInv, ProxyTypeOK, compare, TickEnds, db, ca, polls, jobs,
         StaleLeafAnnounced, Announced, PollTypes
<1>4. TableTypes' /\ ProcessTypes' /\ PollTypes' /\ JobTypes' /\ HistoryTypes' /\
     RetryWhileRunning'
  BY DEF ProxyIInv, ProxyTypeOK, compare, TickEnds, db, ca, polls, jobs, TableTypes,
         ProcessTypes, PollTypes, JobTypes, HistoryTypes, RetryWhileRunning
<1> QED
  BY <1>1, <1>2, <1>3, <1>4 DEF ProxyIInv, ProxyTypeOK

\* The row that loadCA takes over is the table's.
LEMMA LoadSelectKeeps ==
  ASSUME ProxyIInv, NEW k \in Ticks, loadSelect(k)
  PROVE  ProxyIInv'
<1>1. PollTypes'
  BY DEF ProxyIInv, ProxyTypeOK, loadSelect, db, ca, polls, jobs, PollTypes,
         TableTypes
<1>2. Operands'
  BY DEF ProxyIInv, ProxyTypeOK, loadSelect, db, ca, polls, jobs, Operands, PollTypes,
         JobTypes
<1>3. OnlyWhileRunning'
  BY DEF ProxyIInv, ProxyTypeOK, loadSelect, db, ca, polls, jobs, OnlyWhileRunning,
         PollTypes
<1>4. StaleLeafAnnounced'
  BY DEF ProxyIInv, ProxyTypeOK, loadSelect, db, ca, polls, jobs, StaleLeafAnnounced,
         Announced, PollTypes
<1>5. TableTypes' /\ ProcessTypes' /\ JobTypes' /\ HistoryTypes' /\ RetryWhileRunning'
  BY DEF ProxyIInv, ProxyTypeOK, loadSelect, db, ca, polls, jobs, TableTypes,
         ProcessTypes, JobTypes, HistoryTypes, RetryWhileRunning
<1> QED
  BY <1>1, <1>2, <1>3, <1>4, <1>5 DEF ProxyIInv, ProxyTypeOK

\* A load that changes the pair announces it or is recorded as missed; the
\* announcement of another poll is not this poll's.
LEMMA LoadKeeps ==
  ASSUME ProxyIInv, NEW k \in Ticks, loadCA(k)
  PROVE  ProxyIInv'
<1>1. ProcessTypes'
  BY DEF ProxyIInv, ProxyTypeOK, loadCA, Untold, TickEnds, db, ca, polls, jobs,
         ProcessTypes, TableTypes, PollTypes
<1>2. HistoryTypes'
  BY DEF ProxyIInv, ProxyTypeOK, loadCA, Untold, TickEnds, db, ca, polls, jobs,
         HistoryTypes
<1>3. Operands'
  BY DEF ProxyIInv, ProxyTypeOK, loadCA, Untold, TickEnds, db, ca, polls, jobs,
         Operands, PollTypes, JobTypes
<1>4. OnlyWhileRunning'
  BY DEF ProxyIInv, ProxyTypeOK, loadCA, Untold, TickEnds, db, ca, polls, jobs,
         OnlyWhileRunning, PollTypes
<1>5. StaleLeafAnnounced'
  BY DEF ProxyIInv, ProxyTypeOK, loadCA, Untold, TickEnds, db, ca, polls, jobs,
         StaleLeafAnnounced, Announced, PollTypes
<1>6. TableTypes' /\ PollTypes' /\ JobTypes' /\ RetryWhileRunning'
  BY DEF ProxyIInv, ProxyTypeOK, loadCA, Untold, TickEnds, db, ca, polls, jobs,
         TableTypes, PollTypes, JobTypes, RetryWhileRunning
<1> QED
  BY <1>1, <1>2, <1>3, <1>4, <1>5, <1>6 DEF ProxyIInv, ProxyTypeOK

\* The callback empties the cache; a first poll, which has no callback, was no
\* announcement.
LEMMA TellKeeps ==
  ASSUME ProxyIInv, NEW k \in Ticks, tellListeners(k)
  PROVE  ProxyIInv'
<1>1. ProcessTypes'
  BY PairTypes DEF ProxyIInv, ProxyTypeOK, tellListeners, TickEnds, startTlsListener,
         isCALoaded, db, ca, polls, jobs, ProcessTypes, TableTypes, PollTypes
<1>2. JobTypes'
  BY DEF ProxyIInv, ProxyTypeOK, tellListeners, TickEnds, startTlsListener,
         isCALoaded, db, ca, polls, jobs, JobTypes, ProcessTypes
<1>3. Operands'
  BY DEF ProxyIInv, ProxyTypeOK, tellListeners, TickEnds, startTlsListener,
         isCALoaded, db, ca, polls, jobs, Operands, PollTypes, JobTypes
<1>4. OnlyWhileRunning'
  BY PairTypes DEF ProxyIInv, ProxyTypeOK, tellListeners, TickEnds, startTlsListener,
         isCALoaded, db, ca, polls, jobs, OnlyWhileRunning, PollTypes
<1>5. StaleLeafAnnounced'
  BY PairTypes DEF ProxyIInv, ProxyTypeOK, tellListeners, TickEnds, startTlsListener,
         isCALoaded, db, ca, polls, jobs, StaleLeafAnnounced, Announced, PollTypes
<1>6. RetryWhileRunning'
  BY DEF ProxyIInv, ProxyTypeOK, tellListeners, TickEnds, startTlsListener,
         isCALoaded, db, ca, polls, jobs, RetryWhileRunning, OnlyWhileRunning
<1>7. TableTypes' /\ PollTypes' /\ HistoryTypes'
  BY DEF ProxyIInv, ProxyTypeOK, tellListeners, TickEnds, startTlsListener,
         isCALoaded, db, ca, polls, jobs, TableTypes, PollTypes, HistoryTypes
<1> QED
  BY <1>1, <1>2, <1>3, <1>4, <1>5, <1>6, <1>7 DEF ProxyIInv, ProxyTypeOK

\* A poll that fails in its query has announced nothing.
LEMMA LoadFailureKeeps ==
  ASSUME ProxyIInv, NEW k \in Ticks, loadFails(k)
  PROVE  ProxyIInv'
<1>1. Operands'
  BY DEF ProxyIInv, ProxyTypeOK, loadFails, TickEnds, db, ca, polls, jobs, Operands,
         PollTypes, JobTypes
<1>2. OnlyWhileRunning'
  BY DEF ProxyIInv, ProxyTypeOK, loadFails, TickEnds, db, ca, polls, jobs,
         OnlyWhileRunning, PollTypes
<1>3. StaleLeafAnnounced'
  BY DEF ProxyIInv, ProxyTypeOK, loadFails, TickEnds, db, ca, polls, jobs,
         StaleLeafAnnounced, Announced, PollTypes
<1>4. TableTypes' /\ ProcessTypes' /\ PollTypes' /\ JobTypes' /\ HistoryTypes' /\
     RetryWhileRunning'
  BY DEF ProxyIInv, ProxyTypeOK, loadFails, TickEnds, db, ca, polls, jobs, TableTypes,
         ProcessTypes, PollTypes, JobTypes, HistoryTypes, RetryWhileRunning
<1> QED
  BY <1>1, <1>2, <1>3, <1>4 DEF ProxyIInv, ProxyTypeOK

\* What getCertForHost caches is of the loaded pair.
LEMMA LeafKeeps ==
  ASSUME ProxyIInv, NEW h \in Hosts, getCertForHost(h) \/ dropLeaf(h)
  PROVE  ProxyIInv'
<1>1. ProcessTypes'
  BY PairTypes DEF ProxyIInv, ProxyTypeOK, getCertForHost, dropLeaf, isCALoaded, db,
         ca, polls, jobs, ProcessTypes, TableTypes
<1>2. OnlyWhileRunning'
  BY DEF ProxyIInv, ProxyTypeOK, getCertForHost, dropLeaf, isCALoaded, db, ca, polls,
         jobs, OnlyWhileRunning, ProcessTypes
<1>3. StaleLeafAnnounced'
  BY DEF ProxyIInv, ProxyTypeOK, getCertForHost, dropLeaf, isCALoaded, db, ca, polls,
         jobs, StaleLeafAnnounced, Announced, ProcessTypes
<1>4. TableTypes' /\ PollTypes' /\ JobTypes' /\ HistoryTypes' /\ Operands' /\
     RetryWhileRunning'
  BY DEF ProxyIInv, ProxyTypeOK, getCertForHost, dropLeaf, isCALoaded, db, ca, polls,
         jobs, TableTypes, PollTypes, JobTypes, HistoryTypes, Operands,
         RetryWhileRunning
<1> QED
  BY <1>1, <1>2, <1>3, <1>4 DEF ProxyIInv, ProxyTypeOK

\* The jobs of the listener change neither the cache nor the pair.
LEMMA SelectCertKeeps ==
  ASSUME ProxyIInv, NEW j \in Jobs, selectServiceCert(j)
  PROVE  ProxyIInv'
<1>1. JobTypes'
  BY PairTypes DEF ProxyIInv, ProxyTypeOK, selectServiceCert, db, ca, polls, jobs,
         JobTypes, TableTypes
<1>2. Operands'
  BY DEF ProxyIInv, ProxyTypeOK, selectServiceCert, db, ca, polls, jobs, Operands,
         PollTypes, JobTypes
<1>3. OnlyWhileRunning'
  BY DEF ProxyIInv, ProxyTypeOK, selectServiceCert, db, ca, polls, jobs,
         OnlyWhileRunning, JobTypes
<1>4. TableTypes' /\ ProcessTypes' /\ PollTypes' /\ HistoryTypes' /\
     StaleLeafAnnounced' /\ RetryWhileRunning'
  BY DEF ProxyIInv, ProxyTypeOK, selectServiceCert, db, ca, polls, jobs, TableTypes,
         ProcessTypes, PollTypes, HistoryTypes, StaleLeafAnnounced, Announced,
         RetryWhileRunning
<1> QED
  BY <1>1, <1>2, <1>3, <1>4 DEF ProxyIInv, ProxyTypeOK

LEMMA GenerateCertKeeps ==
  ASSUME ProxyIInv, NEW j \in Jobs, generateServiceCert(j)
  PROVE  ProxyIInv'
<1>1. JobTypes'
  BY PairTypes DEF ProxyIInv, ProxyTypeOK, generateServiceCert, db, ca, polls, jobs,
         JobTypes, ProcessTypes
<1>2. Operands'
  BY DEF ProxyIInv, ProxyTypeOK, generateServiceCert, db, ca, polls, jobs, Operands,
         PollTypes, JobTypes
<1>3. OnlyWhileRunning'
  BY DEF ProxyIInv, ProxyTypeOK, generateServiceCert, db, ca, polls, jobs,
         OnlyWhileRunning, JobTypes
<1>4. TableTypes' /\ ProcessTypes' /\ PollTypes' /\ HistoryTypes' /\
     StaleLeafAnnounced' /\ RetryWhileRunning'
  BY DEF ProxyIInv, ProxyTypeOK, generateServiceCert, db, ca, polls, jobs, TableTypes,
         ProcessTypes, PollTypes, HistoryTypes, StaleLeafAnnounced, Announced,
         RetryWhileRunning
<1> QED
  BY <1>1, <1>2, <1>3, <1>4 DEF ProxyIInv, ProxyTypeOK

LEMMA StoreCertKeeps ==
  ASSUME ProxyIInv, NEW j \in Jobs, storeServiceCert(j)
  PROVE  ProxyIInv'
<1>1. TableTypes'
  BY DEF ProxyIInv, ProxyTypeOK, storeServiceCert, db, ca, polls, jobs, TableTypes,
         JobTypes
<1>2. Operands'
  BY DEF ProxyIInv, ProxyTypeOK, storeServiceCert, db, ca, polls, jobs, Operands,
         PollTypes, JobTypes
<1>3. OnlyWhileRunning'
  BY DEF ProxyIInv, ProxyTypeOK, storeServiceCert, db, ca, polls, jobs,
         OnlyWhileRunning, JobTypes
<1>4. ProcessTypes' /\ PollTypes' /\ JobTypes' /\ HistoryTypes' /\ StaleLeafAnnounced'
     /\ RetryWhileRunning'
  BY DEF ProxyIInv, ProxyTypeOK, storeServiceCert, db, ca, polls, jobs, ProcessTypes,
         PollTypes, JobTypes, HistoryTypes, StaleLeafAnnounced, Announced,
         RetryWhileRunning
<1> QED
  BY <1>1, <1>2, <1>3, <1>4 DEF ProxyIInv, ProxyTypeOK

LEMMA ListenKeeps ==
  ASSUME ProxyIInv, NEW j \in Jobs, listen(j)
  PROVE  ProxyIInv'
<1>1. ProcessTypes'
  BY DEF ProxyIInv, ProxyTypeOK, listen, JobEnds, db, ca, polls, jobs, ProcessTypes,
         TableTypes, JobTypes
<1>2. JobTypes'
  BY PairTypes DEF ProxyIInv, ProxyTypeOK, listen, JobEnds, db, ca, polls, jobs,
         JobTypes
<1>3. Operands'
  BY DEF ProxyIInv, ProxyTypeOK, listen, JobEnds, db, ca, polls, jobs, Operands,
         PollTypes, JobTypes
<1>4. OnlyWhileRunning'
  BY DEF ProxyIInv, ProxyTypeOK, listen, JobEnds, db, ca, polls, jobs,
         OnlyWhileRunning, JobTypes
<1>5. TableTypes' /\ PollTypes' /\ HistoryTypes' /\ StaleLeafAnnounced' /\
     RetryWhileRunning'
  BY DEF ProxyIInv, ProxyTypeOK, listen, JobEnds, db, ca, polls, jobs, TableTypes,
         PollTypes, HistoryTypes, StaleLeafAnnounced, Announced, RetryWhileRunning
<1> QED
  BY <1>1, <1>2, <1>3, <1>4, <1>5 DEF ProxyIInv, ProxyTypeOK

LEMMA JobFailureKeeps ==
  ASSUME ProxyIInv, NEW j \in Jobs, jobFails(j)
  PROVE  ProxyIInv'
<1>1. JobTypes'
  BY PairTypes DEF ProxyIInv, ProxyTypeOK, jobFails, JobEnds, db, ca, polls, jobs,
         JobTypes
<1>2. Operands'
  BY DEF ProxyIInv, ProxyTypeOK, jobFails, JobEnds, db, ca, polls, jobs, Operands,
         PollTypes, JobTypes
<1>3. OnlyWhileRunning'
  BY DEF ProxyIInv, ProxyTypeOK, jobFails, JobEnds, db, ca, polls, jobs,
         OnlyWhileRunning, JobTypes
<1>4. TableTypes' /\ ProcessTypes' /\ PollTypes' /\ HistoryTypes' /\
     StaleLeafAnnounced' /\ RetryWhileRunning'
  BY DEF ProxyIInv, ProxyTypeOK, jobFails, JobEnds, db, ca, polls, jobs, TableTypes,
         ProcessTypes, PollTypes, HistoryTypes, StaleLeafAnnounced, Announced,
         RetryWhileRunning
<1> QED
  BY <1>1, <1>2, <1>3, <1>4 DEF ProxyIInv, ProxyTypeOK

\* The end of the process takes all it had along.
LEMMA DeathKeeps ==
  ASSUME ProxyIInv, crash \/ \E j \in Jobs : listenFails(j)
  PROVE  ProxyIInv'
<1>1. ProcessGone /\ UNCHANGED db
  BY DEF crash, listenFails
<1>2. TableTypes' /\ ProcessTypes'
  BY <1>1, PairTypes DEF ProxyIInv, ProxyTypeOK, ProcessGone, db, TableTypes, ProcessTypes
<1>3. PollTypes' /\ JobTypes'
  BY <1>1, PairTypes DEF ProcessGone, PollTypes, JobTypes
<1>4. HistoryTypes'
  <2>1. missed' \in BOOLEAN /\ trouble' \in BOOLEAN
    BY <1>1 DEF ProcessGone, ProxyIInv, ProxyTypeOK, HistoryTypes
  <2>2. crashes' \in 0..MaxCrashes
    BY ProxyAssumption DEF ProxyAssumption, crash, listenFails, ProxyIInv, ProxyTypeOK, HistoryTypes
  <2> QED
    BY <2>1, <2>2 DEF HistoryTypes
<1>5. Operands' /\ OnlyWhileRunning' /\ RetryWhileRunning' /\ StaleLeafAnnounced'
  BY <1>1 DEF ProcessGone, Operands, OnlyWhileRunning, RetryWhileRunning, StaleLeafAnnounced
<1> QED
  BY <1>2, <1>3, <1>4, <1>5 DEF ProxyIInv, ProxyTypeOK

\* Steps outside the process and the table keep everything.
LEMMA NothingKeeps == ProxyIInv /\ UNCHANGED proxyVars => ProxyIInv'
BY DEF proxyVars, db, ca, polls, jobs, ProxyIInv, ProxyTypeOK, TableTypes, ProcessTypes,
       PollTypes, JobTypes, HistoryTypes, Operands, OnlyWhileRunning, RetryWhileRunning,
       StaleLeafAnnounced, Announced

\* Every step of the process keeps the invariant.
LEMMA ProxyStepKeeps == ProxyIInv /\ [ProxyNext]_proxyVars => ProxyIInv'
<1> SUFFICES ASSUME ProxyIInv, [ProxyNext]_proxyVars PROVE ProxyIInv'
  OBVIOUS
<1>1. CASE replaceCa \/ startProcess \/ startProxy \/ retryFires
  BY <1>1, ReplaceKeeps, StartProcessKeeps, StartProxyKeeps, RetryKeeps
<1>2. ASSUME NEW k \in Ticks, TickNext(k) PROVE ProxyIInv'
  BY <1>2, PollKeeps, CompareKeeps, LoadSelectKeeps, LoadKeeps, TellKeeps, LoadFailureKeeps
     DEF TickNext
<1>3. ASSUME NEW h \in Hosts, getCertForHost(h) \/ dropLeaf(h) PROVE ProxyIInv'
  BY <1>3, LeafKeeps
<1>4. ASSUME NEW j \in Jobs, JobNext(j) PROVE ProxyIInv'
  BY <1>4, SelectCertKeeps, GenerateCertKeeps, StoreCertKeeps, ListenKeeps,
     JobFailureKeeps, DeathKeeps DEF JobNext
<1>5. CASE crash
  BY <1>5, DeathKeeps
<1>6. CASE UNCHANGED proxyVars
  BY <1>6, NothingKeeps
<1> QED
  BY <1>1, <1>2, <1>3, <1>4, <1>5, <1>6 DEF ProxyNext

\* The strengthened invariant of one proxy process, for any number of polls,
\* listener jobs, hosts and CAs.
THEOREM ProxyInvariant == ProxySpec => []ProxyIInv
BY ProxyStarts, ProxyStepKeeps, PTL DEF ProxySpec

\* Certificates and keys are of known CAs, a poll or job in progress has its
\* operands (reloadIfChanged, loadOrGenerateServiceCert), and a process that is down
\* has nothing.
THEOREM ProxyTypeCorrect == ProxySpec => []ProxyTypeOK
<1>1. ProxyIInv => ProxyTypeOK
  BY DEF ProxyIInv
<1> QED
  BY <1>1, ProxyInvariant, PTL

\* However many polls overlap, fail or meet a key they cannot decrypt, a per-host
\* certificate of another pair than the loaded one stays in the cache only while
\* the callback that clears it is due (startCAWatcher), or after a load that told
\* nobody.
THEOREM StaleCleared == ProxySpec => []StaleLeafAnnounced
<1>1. ProxyIInv => StaleLeafAnnounced
  BY DEF ProxyIInv
<1> QED
  BY <1>1, ProxyInvariant, PTL

=================================================================================
