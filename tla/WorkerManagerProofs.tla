------------------------ MODULE WorkerManagerProofs ------------------------
(***************************************************************************)
(* Proofs about ModelPool, for any number of clients and providers, any    *)
(* capacities and any priorities; and about WorkerManager, which uses it,  *)
(* for any set of tasks, any ids and number of threads, and any other      *)
(* users of the pool.                                                      *)
(***************************************************************************)
EXTENDS WorkerManager, FiniteSetTheorems, SequenceTheorems, TLAPS
-----------------------------------------------------------------------------
\* The slot list after add_slot's insert at place k.
LEMMA InsertedSlots ==
    ASSUME TypeOK, NEW p \in Provider, NEW k \in 1..(Len(slots) + 1)
    PROVE  /\ InsertAt(slots, k, p) \in Seq(Provider)
           /\ Len(InsertAt(slots, k, p)) = Len(slots) + 1
           /\ \A i \in 1..(Len(slots) + 1) :
                 InsertAt(slots, k, p)[i] = IF i < k THEN slots[i]
                                        ELSE IF i = k THEN p ELSE slots[i - 1]
<1> DEFINE left == SubSeq(slots, 1, k - 1)
           right == SubSeq(slots, k, Len(slots))
<1>0. slots \in Seq(Provider)
  BY DEF TypeOK
<1>1. /\ left \in Seq(Provider) /\ Len(left) = k - 1
      /\ \A i \in 1..(k - 1) : left[i] = slots[i]
  BY <1>0
<1>2. /\ right \in Seq(Provider) /\ Len(right) = Len(slots) - k + 1
      /\ \A i \in 1..(Len(slots) - k + 1) : right[i] = slots[k + i - 1]
  BY <1>0
<1>3. InsertAt(slots, k, p) = (left \o <<p>>) \o right
  BY DEF InsertAt
<1>4. /\ left \o <<p>> \in Seq(Provider) /\ Len(left \o <<p>>) = k
      /\ \A i \in 1..k : (left \o <<p>>)[i] = IF i < k THEN slots[i] ELSE p
  <2>1. <<p>> \in Seq(Provider) /\ Len(<<p>>) = 1 /\ <<p>>[1] = p
    OBVIOUS
  <2> HIDE DEF left
  <2>2. QED
    BY <1>1, <2>1, ConcatProperties
<1> DEFINE front == left \o <<p>>
<1> HIDE DEF left, right, front
<1>5. /\ front \o right \in Seq(Provider)
      /\ Len(front \o right) = Len(front) + Len(right)
      /\ \A i \in 1..(Len(front) + Len(right)) :
            (front \o right)[i] = IF i <= Len(front) THEN front[i]
                                  ELSE right[i - Len(front)]
  <2>1. front \in Seq(Provider) /\ right \in Seq(Provider)
    BY <1>2, <1>4 DEF front
  <2>2. QED
    BY <2>1, ConcatProperties
<1>6. /\ InsertAt(slots, k, p) = front \o right
      /\ Len(front) = k /\ Len(right) = Len(slots) - k + 1
      /\ Len(slots) \in Nat
  BY <1>0, <1>2, <1>3, <1>4 DEF front
<1>7. ASSUME NEW i \in 1..(Len(slots) + 1)
      PROVE  InsertAt(slots, k, p)[i] = IF i < k THEN slots[i]
                                    ELSE IF i = k THEN p ELSE slots[i - 1]
  <2>1. CASE i <= k
    BY <2>1, <1>4, <1>5, <1>6 DEF front
  <2>2. CASE i > k
    <3>1. InsertAt(slots, k, p)[i] = right[i - k]
      BY <2>2, <1>5, <1>6
    <3>2. i - k \in 1..(Len(slots) - k + 1) /\ k + (i - k) - 1 = i - 1
      BY <2>2, <1>6
    <3>3. QED
      BY <3>1, <3>2, <2>2, <1>2
  <2>3. QED
    BY <2>1, <2>2, <1>6
<1>8. Len(InsertAt(slots, k, p)) = Len(slots) + 1
  BY <1>5, <1>6
<1>9. QED
  BY <1>5, <1>6, <1>7, <1>8

LEMMA HoldersFinite ==
    ASSUME NEW i PROVE IsFiniteSet(HoldersOf(i)) /\ Cardinality(HoldersOf(i)) \in Nat
<1>1. HoldersOf(i) \subseteq Client
  BY DEF HoldersOf
<1>2. QED
  BY <1>1, PoolAssumption, FS_Subset, FS_CardinalityType

LEMMA UsersFinite ==
    ASSUME NEW p PROVE IsFiniteSet(UsersOf(p)) /\ Cardinality(UsersOf(p)) \in Nat
<1>1. UsersOf(p) \subseteq Client
  BY DEF UsersOf
<1>2. QED
  BY <1>1, PoolAssumption, FS_Subset, FS_CardinalityType

LEMMA AddSlotType ==
    ASSUME TypeOK, NEW p \in Provider, AddSlot(p)
    PROVE  TypeOK' /\ slots' # <<>> /\ Len(slots') = Len(slots) + 1
<1>1. PICK k \in 1..(Len(slots) + 1) : slots' = InsertAt(slots, k, p)
  BY DEF AddSlot
<1>2. /\ slots' \in Seq(Provider)
      /\ Len(slots') = Len(slots) + 1
      /\ \A i \in 1..(Len(slots) + 1) :
            slots'[i] = IF i < k THEN slots[i] ELSE IF i = k THEN p ELSE slots[i - 1]
  <2>1. /\ InsertAt(slots, k, p) \in Seq(Provider)
        /\ Len(InsertAt(slots, k, p)) = Len(slots) + 1
        /\ \A i \in 1..(Len(slots) + 1) :
              InsertAt(slots, k, p)[i] = IF i < k THEN slots[i]
                                         ELSE IF i = k THEN p ELSE slots[i - 1]
    BY InsertedSlots
  <2>2. QED
    BY <1>1, <2>1
<1>3. \A i \in 1..Len(slots) : slots[i] # p
  BY LenProperties DEF AddSlot, ToSet, TypeOK
<1>4. ASSUME NEW i \in Index', NEW j \in Index', slots'[i] = slots'[j]
      PROVE  i = j
  <2>1. /\ i \in 1..(Len(slots) + 1) /\ j \in 1..(Len(slots) + 1)
        /\ Len(slots) \in Nat
    BY <1>2, <1>4 DEF Index, TypeOK
  <2>2. \A m, n \in 1..Len(slots) : slots[m] = slots[n] => m = n
    BY DEF TypeOK, Index
  <2> DEFINE old(m) == IF m < k THEN m ELSE m - 1
  <2>3. \A m \in 1..(Len(slots) + 1) : m # k =>
           /\ slots'[m] = slots[old(m)]
           /\ old(m) \in 1..Len(slots)
    BY <1>2, <2>1
  <2>4. i = k <=> j = k
    BY <1>2, <1>3, <1>4, <2>1, <2>3
  <2>5. CASE i # k /\ j # k
    <3>1. old(i) = old(j)
      BY <2>1, <2>2, <2>3, <2>5, <1>4
    <3>2. QED
      BY <3>1, <2>1, <2>5
  <2>6. QED
    BY <2>4, <2>5
<1>5. active' \in [Index' -> Nat]
  BY <1>2 DEF AddSlot, Index
<1>6. \A c \in Client : (Holds(c) => lease[c].slot \in Index)'
  BY <1>2 DEF AddSlot, Holds, Index, TypeOK
<1>7. QED
  BY <1>2, <1>4, <1>5, <1>6 DEF AddSlot, TypeOK

LEMMA RouteType == ASSUME TypeOK, NEW c \in Client, Route(c) PROVE TypeOK'
<1>1. PICK i \in Index : /\ active' = [active EXCEPT ![i] = @ + 1]
                         /\ lease' = [lease EXCEPT ![c] = [provider |-> slots[i], slot |-> i]]
  BY DEF Route
<1>2. slots' = slots /\ Index' = Index /\ refused' \subseteq Client
  BY DEF Route, Index, TypeOK
<1>3. slots[i] \in Provider /\ i \in Nat \ {0}
  BY DEF TypeOK, Index
<1>4. active' \in [Index' -> Nat]
  BY <1>1, <1>2 DEF TypeOK
<1>5. lease' \in [Client -> Lease \cup {NoLease}]
  BY <1>1, <1>3 DEF TypeOK, Lease
<1>6. \A d \in Client : (Holds(d) => lease[d].slot \in Index)'
  BY <1>1, <1>2 DEF TypeOK, Holds
<1>7. QED
  BY <1>2, <1>4, <1>5, <1>6 DEF TypeOK

LEMMA ReleaseType == ASSUME TypeOK, NEW c \in Client, Release(c) PROVE TypeOK'
<1>1. lease[c].slot \in Index
  BY DEF Release, TypeOK
<1>2. slots' = slots /\ Index' = Index /\ refused' = refused
  BY DEF Release, Index
<1>3. active' \in [Index' -> Nat]
  BY <1>1, <1>2 DEF Release, TypeOK
<1>4. lease' \in [Client -> Lease \cup {NoLease}]
  BY DEF Release, TypeOK
<1>5. \A d \in Client : (Holds(d) => lease[d].slot \in Index)'
  BY <1>2 DEF TypeOK, Holds, Release
<1>6. QED
  BY <1>2, <1>3, <1>4, <1>5 DEF TypeOK

LEMMA InitType == PoolInit => TypeOK
  BY DEF PoolInit, TypeOK, Index, Holds

LEMMA StepType == TypeOK /\ [PoolNext]_poolVars => TypeOK'
<1> SUFFICES ASSUME TypeOK, [PoolNext]_poolVars PROVE TypeOK'
  OBVIOUS
<1>1. ASSUME NEW p \in Provider, AddSlot(p) PROVE TypeOK'
  BY <1>1, AddSlotType
<1>2. ASSUME NEW c \in Client, Route(c) PROVE TypeOK'
  BY <1>2, RouteType
<1>3. ASSUME NEW c \in Client, Refuse(c) PROVE TypeOK'
  BY <1>3 DEF Refuse, TypeOK, Index, Holds
<1>4. ASSUME NEW c \in Client, Release(c) PROVE TypeOK'
  BY <1>4, ReleaseType
<1>5. CASE UNCHANGED poolVars
  BY <1>5 DEF poolVars, TypeOK, Index, Holds
<1>6. QED
  BY <1>1, <1>2, <1>3, <1>4, <1>5 DEF PoolNext, UseStep

LEMMA ConfiguredIsPool == [ConfiguredNext]_poolVars => [PoolNext]_poolVars
  BY DEF ConfiguredNext, PoolNext

\* The pool's variables keep their types and no lease names a slot that is
\* not there, even when slots are added at any time.
THEOREM PoolTypeCorrect == PoolSpec => []TypeOK
  BY InitType, StepType, PTL DEF PoolSpec

\* The same for the pool as the code base configures it.
THEOREM ConfiguredTypeCorrect == ConfiguredSpec => []TypeOK
  BY InitType, StepType, ConfiguredIsPool, PTL DEF ConfiguredSpec
-----------------------------------------------------------------------------
\* Who will release slot j after a route to slot i: the new holder joins slot
\* i, every other slot keeps its holders.
LEMMA RouteHolders ==
    ASSUME TypeOK, NEW c \in Client, ~Holds(c), NEW i \in Index,
           lease' = [lease EXCEPT ![c] = [provider |-> slots[i], slot |-> i]],
           NEW j \in Index
    PROVE  Cardinality(HoldersOf(j)') =
              IF i = j THEN Cardinality(HoldersOf(j)) + 1
                       ELSE Cardinality(HoldersOf(j))
<1>1. [provider |-> slots[i], slot |-> i] # NoLease
  <2>1. slots[i] \in Provider /\ i \in Nat \ {0}
    BY DEF TypeOK, Index
  <2>2. QED
    BY <2>1, PoolAssumption DEF Lease
<1>2. \A d \in Client : /\ Holds(d)' <=> (Holds(d) \/ d = c)
                        /\ d # c => lease'[d] = lease[d]
                        /\ d = c => lease'[d].slot = i
  BY <1>1 DEF TypeOK, Holds
<1>3. HoldersOf(j)' = IF i = j THEN HoldersOf(j) \cup {c} ELSE HoldersOf(j)
  BY <1>2 DEF HoldersOf
<1>4. c \notin HoldersOf(j)
  BY DEF HoldersOf
<1>5. QED
  BY <1>3, <1>4, HoldersFinite, FS_AddElement

\* Who will release slot j after client c has released its lease.
LEMMA ReleaseHolders ==
    ASSUME TypeOK, NEW c \in Client, Release(c), NEW j \in Index
    PROVE  Cardinality(HoldersOf(j)') =
              IF lease[c].slot = j THEN Cardinality(HoldersOf(j)) - 1
                                   ELSE Cardinality(HoldersOf(j))
<1>1. \A d \in Client : /\ Holds(d)' <=> (Holds(d) /\ d # c)
                        /\ d # c => lease'[d] = lease[d]
  BY DEF TypeOK, Holds, Release
<1>2. HoldersOf(j)' = HoldersOf(j) \ {c}
  BY <1>1 DEF HoldersOf
<1>3. c \in HoldersOf(j) <=> lease[c].slot = j
  BY DEF HoldersOf, Release
<1>4. QED
  BY <1>2, <1>3, HoldersFinite, FS_RemoveElement

LEMMA StepLeak == TypeOK /\ NoLeakedCapacity /\ [PoolNext]_poolVars => NoLeakedCapacity'
<1> SUFFICES ASSUME TypeOK, NoLeakedCapacity, [PoolNext]_poolVars
             PROVE  NoLeakedCapacity'
  OBVIOUS
<1> USE HoldersFinite, PoolAssumption
<1>1. ASSUME NEW p \in Provider, AddSlot(p) PROVE NoLeakedCapacity'
  <2>1. TypeOK' /\ Len(slots') = Len(slots) + 1
    BY <1>1, AddSlotType
  <2>2. \A i \in Index' : active'[i] = 0 /\ MaxConcurrent[slots'[i]] \in Nat
    BY <1>1, <2>1 DEF AddSlot, TypeOK, Index
  <2>3. \A i \in Index' : HoldersOf(i)' = HoldersOf(i)
    BY <1>1 DEF AddSlot, HoldersOf, Holds
  <2>4. QED
    BY <2>2, <2>3 DEF NoLeakedCapacity
<1>2. ASSUME NEW c \in Client, Route(c) PROVE NoLeakedCapacity'
  <2>1. PICK i \in Index : /\ HasCapacity(i)
                           /\ active' = [active EXCEPT ![i] = @ + 1]
                           /\ lease' = [lease EXCEPT ![c] = [provider |-> slots[i], slot |-> i]]
    BY <1>2 DEF Route
  <2>2. slots' = slots /\ Index' = Index /\ ~Holds(c)
    BY <1>2 DEF Route, Index
  <2>3. ASSUME NEW j \in Index
        PROVE  /\ active'[j] <= Cardinality(HoldersOf(j)')
               /\ active'[j] <= MaxConcurrent[slots[j]]
    <3>1. Cardinality(HoldersOf(j)') = IF i = j THEN Cardinality(HoldersOf(j)) + 1
                                               ELSE Cardinality(HoldersOf(j))
      BY <2>1, <2>2, RouteHolders
    <3>2. /\ active[j] \in Nat /\ active[j] <= Cardinality(HoldersOf(j))
          /\ active[j] <= MaxConcurrent[slots[j]] /\ MaxConcurrent[slots[j]] \in Nat
          /\ active'[j] = IF i = j THEN active[j] + 1 ELSE active[j]
      <4>1. /\ slots[j] \in Provider /\ active \in [Index -> Nat]
            /\ \A k \in Index : /\ active[k] <= Cardinality(HoldersOf(k))
                                /\ active[k] <= MaxConcurrent[slots[k]]
        BY DEF NoLeakedCapacity, TypeOK, Index
      <4>2. QED
        BY <2>1, <4>1
    <3>3. i = j => active[j] < MaxConcurrent[slots[j]]
      BY <2>1 DEF HasCapacity
    <3>4. QED
      BY <3>1, <3>2, <3>3
  <2>4. QED
    BY <2>2, <2>3 DEF NoLeakedCapacity
<1>3. ASSUME NEW c \in Client, Refuse(c) PROVE NoLeakedCapacity'
  BY <1>3 DEF Refuse, NoLeakedCapacity, Index, HoldersOf, Holds
<1>4. ASSUME NEW c \in Client, Release(c) PROVE NoLeakedCapacity'
  <2>1. slots' = slots /\ Index' = Index
    BY <1>4 DEF Release, Index
  <2>2. ASSUME NEW j \in Index
        PROVE  /\ active'[j] <= Cardinality(HoldersOf(j)')
               /\ active'[j] <= MaxConcurrent[slots[j]]
    <3>1. Cardinality(HoldersOf(j)') = IF lease[c].slot = j
                                       THEN Cardinality(HoldersOf(j)) - 1
                                       ELSE Cardinality(HoldersOf(j))
      BY <1>4, ReleaseHolders
    <3>2. /\ active[j] \in Nat /\ active[j] <= Cardinality(HoldersOf(j))
          /\ active[j] <= MaxConcurrent[slots[j]] /\ MaxConcurrent[slots[j]] \in Nat
      BY DEF NoLeakedCapacity, TypeOK, Index
    <3>3. active'[j] = IF lease[c].slot = j /\ active[j] > 0 THEN active[j] - 1
                                                             ELSE active[j]
      BY <1>4, <3>2 DEF Release, TypeOK
    <3>4. lease[c].slot = j => Cardinality(HoldersOf(j)) >= 1
      <4>1. Cardinality(HoldersOf(j)') \in Nat
        <5>1. HoldersOf(j)' \subseteq Client
          BY DEF HoldersOf
        <5>2. QED
          BY <5>1, FS_Subset, FS_CardinalityType
      <4>2. QED
        BY <3>1, <4>1
    <3>5. QED
      BY <3>1, <3>2, <3>3, <3>4
  <2>3. QED
    BY <2>1, <2>2 DEF NoLeakedCapacity
<1>5. CASE UNCHANGED poolVars
  BY <1>5 DEF poolVars, NoLeakedCapacity, Index, HoldersOf, Holds
<1>6. QED
  BY <1>1, <1>2, <1>3, <1>4, <1>5 DEF PoolNext, UseStep

LEMMA InitLeak == PoolInit => NoLeakedCapacity
  BY DEF PoolInit, NoLeakedCapacity, Index

\* However slots are added, a slot never counts more than the leases that
\* can still be released to it, nor more than its capacity: no sequence of
\* adds, routes and releases leaves the pool smaller than it was.
THEOREM PoolLeaksNothing == PoolSpec => []NoLeakedCapacity
<1>1. PoolInit => TypeOK /\ NoLeakedCapacity
  BY InitType, InitLeak
<1>2. TypeOK /\ NoLeakedCapacity /\ [PoolNext]_poolVars
         => TypeOK' /\ NoLeakedCapacity'
  BY StepType, StepLeak
<1>3. QED
  BY <1>1, <1>2, PTL DEF PoolSpec
-----------------------------------------------------------------------------
(***************************************************************************)
(* The configured pool.  Inductive: the counters are exact, because slots  *)
(* are added only when all of them are zero anyway; and a counter never    *)
(* passes its capacity (half of NoLeakedCapacity).                         *)
(***************************************************************************)
ConfiguredInv == TypeOK /\ NoLeakedCapacity /\ CapacityAccounting

LEMMA InitAccounting == PoolInit => CapacityAccounting
  BY DEF PoolInit, CapacityAccounting, Index, Holds

LEMMA AddSlotAccounting ==
    ASSUME TypeOK, Idle, NEW p \in Provider, AddSlot(p)
    PROVE  CapacityAccounting'
<1>1. TypeOK' /\ Len(slots') = Len(slots) + 1
  BY AddSlotType
<1>2. \A c \in Client : Holds(c)' = FALSE
  BY DEF AddSlot, Idle, Holds
<1>3. \A i \in Index' : active'[i] = 0
  BY <1>1 DEF AddSlot, Index
<1>4. \A i \in Index' : HoldersOf(i)' = {}
  BY <1>2 DEF HoldersOf
<1>5. QED
  BY <1>2, <1>3, <1>4, FS_EmptySet DEF CapacityAccounting

LEMMA RouteAccounting ==
    ASSUME TypeOK, CapacityAccounting, NEW c \in Client, Route(c)
    PROVE  CapacityAccounting'
<1>1. PICK i \in Index :
         /\ active' = [active EXCEPT ![i] = @ + 1]
         /\ lease' = [lease EXCEPT ![c] = [provider |-> slots[i], slot |-> i]]
  BY DEF Route
<1>2. slots' = slots /\ Index' = Index /\ ~Holds(c)
  BY DEF Route, Index
<1>3. ASSUME NEW d \in Client, Holds(d)'
      PROVE  slots'[lease'[d].slot] = lease'[d].provider
  <2>1. CASE d = c
    BY <2>1, <1>1, <1>2 DEF TypeOK
  <2>2. CASE d # c
    <3>1. lease'[d] = lease[d] /\ Holds(d)
      BY <2>2, <1>1, <1>3 DEF TypeOK, Holds
    <3>2. QED
      BY <3>1, <1>2 DEF CapacityAccounting
  <2>3. QED
    BY <2>1, <2>2
<1>4. ASSUME NEW j \in Index PROVE active'[j] = Cardinality(HoldersOf(j)')
  <2>1. Cardinality(HoldersOf(j)') = IF i = j THEN Cardinality(HoldersOf(j)) + 1
                                             ELSE Cardinality(HoldersOf(j))
    BY <1>1, <1>2, RouteHolders
  <2>2. active[j] = Cardinality(HoldersOf(j)) /\ active \in [Index -> Nat]
    BY DEF CapacityAccounting, TypeOK
  <2>3. QED
    BY <1>1, <2>1, <2>2
<1>5. QED
  BY <1>2, <1>3, <1>4 DEF CapacityAccounting

LEMMA ReleaseAccounting ==
    ASSUME TypeOK, CapacityAccounting, NEW c \in Client, Release(c)
    PROVE  CapacityAccounting'
<1>1. slots' = slots /\ Index' = Index
  BY DEF Release, Index
<1>2. ASSUME NEW d \in Client, Holds(d)'
      PROVE  slots'[lease'[d].slot] = lease'[d].provider
  <2>1. lease'[d] = lease[d] /\ Holds(d)
    BY <1>2 DEF Release, TypeOK, Holds
  <2>2. QED
    BY <2>1, <1>1 DEF CapacityAccounting
<1>3. ASSUME NEW j \in Index PROVE active'[j] = Cardinality(HoldersOf(j)')
  <2>1. Cardinality(HoldersOf(j)') = IF lease[c].slot = j
                                     THEN Cardinality(HoldersOf(j)) - 1
                                     ELSE Cardinality(HoldersOf(j))
    BY ReleaseHolders
  <2>2. active[j] = Cardinality(HoldersOf(j)) /\ active \in [Index -> Nat]
    BY DEF CapacityAccounting, TypeOK
  <2>3. lease[c].slot = j => active[j] > 0
    <3>1. HoldersOf(j)' \subseteq Client
      BY DEF HoldersOf
    <3>2. Cardinality(HoldersOf(j)') \in Nat
      BY <3>1, PoolAssumption, FS_Subset, FS_CardinalityType
    <3>3. QED
      BY <2>1, <2>2, <3>2
  <2>4. active'[j] = IF lease[c].slot = j THEN active[j] - 1 ELSE active[j]
    BY <2>2, <2>3 DEF Release
  <2>5. QED
    BY <2>1, <2>2, <2>4
<1>4. QED
  BY <1>1, <1>2, <1>3 DEF CapacityAccounting

LEMMA StepAccounting ==
    TypeOK /\ CapacityAccounting /\ [ConfiguredNext]_poolVars => CapacityAccounting'
<1> SUFFICES ASSUME TypeOK, CapacityAccounting, [ConfiguredNext]_poolVars
             PROVE  CapacityAccounting'
  OBVIOUS
<1>1. ASSUME Idle, NEW p \in Provider, AddSlot(p) PROVE CapacityAccounting'
  BY <1>1, AddSlotAccounting
<1>2. ASSUME NEW c \in Client, Route(c) PROVE CapacityAccounting'
  BY <1>2, RouteAccounting
<1>3. ASSUME NEW c \in Client, Refuse(c) PROVE CapacityAccounting'
  BY <1>3 DEF Refuse, CapacityAccounting, Index, HoldersOf, Holds
<1>4. ASSUME NEW c \in Client, Release(c) PROVE CapacityAccounting'
  BY <1>4, ReleaseAccounting
<1>5. CASE UNCHANGED poolVars
  BY <1>5 DEF poolVars, CapacityAccounting, Index, HoldersOf, Holds
<1>6. QED
  BY <1>1, <1>2, <1>3, <1>4, <1>5 DEF ConfiguredNext, UseStep

LEMMA ConfiguredInvariant == ConfiguredSpec => []ConfiguredInv
<1>1. PoolInit => ConfiguredInv
  BY InitType, InitLeak, InitAccounting DEF ConfiguredInv
<1>2. ConfiguredInv /\ [ConfiguredNext]_poolVars => ConfiguredInv'
  BY StepType, StepLeak, StepAccounting, ConfiguredIsPool DEF ConfiguredInv
<1>3. QED
  BY <1>1, <1>2, PTL DEF ConfiguredSpec

\* A release always returns the unit its route took, and the counters are the
\* leases that are out.
THEOREM AccountingIsExact == ConfiguredSpec => []CapacityAccounting
<1>1. ConfiguredInv => CapacityAccounting
  BY DEF ConfiguredInv
<1>2. QED
  BY <1>1, ConfiguredInvariant, PTL

\* The users of the provider in slot i are the holders of slot i.
LEMMA UsersAreHolders ==
    ASSUME ConfiguredInv, NEW i \in Index
    PROVE  UsersOf(slots[i]) = HoldersOf(i)
<1>1. \A c \in Client : Holds(c) => /\ lease[c].slot \in Index
                                    /\ slots[lease[c].slot] = lease[c].provider
  BY DEF ConfiguredInv, TypeOK, CapacityAccounting
<1>2. \A j \in Index : slots[j] = slots[i] => j = i
  BY DEF ConfiguredInv, TypeOK
<1>3. QED
  BY <1>1, <1>2 DEF UsersOf, HoldersOf

LEMMA OfferedIndex ==
    ASSUME TypeOK, NEW p
    PROVE  p \in ToSet(slots) <=> \E i \in Index : slots[i] = p
  BY LenProperties DEF ToSet, Index, TypeOK

LEMMA CapacityFollows == ConfiguredInv => CapacityRespected
<1> SUFFICES ASSUME ConfiguredInv, NEW p \in Provider
             PROVE  Cardinality(UsersOf(p)) <= MaxConcurrent[p]
  BY DEF CapacityRespected
<1>1. CASE \E i \in Index : slots[i] = p
  <2>1. PICK i \in Index : slots[i] = p
    BY <1>1
  <2>2. UsersOf(p) = HoldersOf(i)
    BY <2>1, UsersAreHolders
  <2>3. active[i] = Cardinality(HoldersOf(i)) /\ active[i] <= MaxConcurrent[p]
    BY <2>1 DEF ConfiguredInv, CapacityAccounting, NoLeakedCapacity
  <2>4. QED
    BY <2>2, <2>3
<1>2. CASE ~\E i \in Index : slots[i] = p
  <2>1. UsersOf(p) = {}
    BY <1>2 DEF UsersOf, ConfiguredInv, TypeOK, CapacityAccounting
  <2>2. QED
    BY <2>1, FS_EmptySet, PoolAssumption
<1>3. QED
  BY <1>1, <1>2

\* No provider ever serves more clients than it was configured for.
THEOREM CapacityIsRespected == ConfiguredSpec => []CapacityRespected
  BY ConfiguredInvariant, CapacityFollows, PTL
-----------------------------------------------------------------------------
\* A finite set of at least m elements has room for 1..m.
LEMMA RoomFor ==
    ASSUME NEW S, IsFiniteSet(S), NEW m \in Nat, m <= Cardinality(S)
    PROVE  \E f \in [1..m -> S] : \A j, k \in 1..m : f[j] = f[k] => j = k
<1> DEFINE n == Cardinality(S)
<1>1. n \in Nat /\ ExistsBijection(1..n, S)
  BY FS_CardinalityType
<1>2. PICK b \in [1..n -> S] : \A j, k \in 1..n : b[j] = b[k] => j = k
  BY <1>1 DEF ExistsBijection, Bijection, Injection, IsInjective
<1>3. \A j \in 1..m : j \in 1..n
  BY <1>1
<1> HIDE DEF n
<1> DEFINE f == [j \in 1..m |-> b[j]]
<1>4. f \in [1..m -> S] /\ \A j, k \in 1..m : f[j] = f[k] => j = k
  BY <1>2, <1>3
<1> QED
  BY <1>4

\* When no slot has capacity every unit of the pool is with a client.
LEMMA FullPool ==
    ASSUME TypeOK, CapacityAccounting, \A i \in Index : ~HasCapacity(i)
    PROVE  TotalCapacity \in Nat /\ TotalCapacity <= Cardinality({c \in Client : Holds(c)})
<1> DEFINE H == {c \in Client : Holds(c)}
           room(i) == 1..MaxConcurrent[slots[i]]
           fits(i, f) == /\ f \in [room(i) -> HoldersOf(i)]
                         /\ \A j, k \in room(i) : f[j] = f[k] => j = k
           at(i) == CHOOSE f : fits(i, f)
           F == [x \in Units |-> at(x[1])[x[2]]]
<1>1. ASSUME NEW i \in Index PROVE \E f : fits(i, f)
  <2>1. slots[i] \in Provider /\ active[i] \in Nat
    BY DEF TypeOK, Index
  <2>2. MaxConcurrent[slots[i]] \in Nat
    BY <2>1, PoolAssumption
  <2>3. MaxConcurrent[slots[i]] <= Cardinality(HoldersOf(i))
    BY <2>1, <2>2 DEF CapacityAccounting, HasCapacity
  <2> QED
    BY <2>2, <2>3, HoldersFinite, RoomFor
<1>2. \A i \in Index : fits(i, at(i))
  BY <1>1
<1>3. \A x \in Units : /\ x[1] \in Index /\ x[2] \in room(x[1])
                       /\ x = <<x[1], x[2]>>
  BY DEF Units
<1>4. \A i \in Index : \A c \in HoldersOf(i) : c \in H /\ lease[c].slot = i
  BY DEF HoldersOf
<1> HIDE DEF room, at, H
<1>5. \A x \in Units : F[x] \in HoldersOf(x[1])
  BY <1>2, <1>3
<1>6. F \in [Units -> H]
  BY <1>3, <1>4, <1>5
<1>7. ASSUME NEW x \in Units, NEW y \in Units, F[x] = F[y] PROVE x = y
  <2>1. x[1] = y[1]
    BY <1>3, <1>4, <1>5, <1>7
  <2>2. x[2] = y[2]
    BY <1>2, <1>3, <1>7, <2>1
  <2> QED
    BY <1>3, <2>1, <2>2
<1> HIDE DEF F
<1>8. F \in Injection(Units, H)
  BY <1>6, <1>7 DEF Injection, IsInjective
<1>9. IsFiniteSet(H)
  BY PoolAssumption, FS_Subset DEF H
<1>10. Cardinality(Units) <= Cardinality(H) /\ Cardinality(Units) \in Nat
  BY <1>8, <1>9, FS_Injection, FS_CardinalityType
<1> QED
  BY <1>10 DEF TotalCapacity, H
-----------------------------------------------------------------------------
(***************************************************************************)
(* The refinement of ProviderLeases.  held is the refinement mapping of    *)
(* "holding".                                                              *)
(***************************************************************************)
held == [c \in Client |-> IF Holds(c) THEN lease[c].provider ELSE NoLease]

LEMMA HeldFacts ==
    ASSUME TypeOK, NEW c \in Client
    PROVE  /\ Holds(c) => lease[c].provider \in Provider /\ lease[c].provider # NoLease
           /\ held[c] = NoLease <=> ~Holds(c)
<1>1. Holds(c) => lease[c] \in Lease
  BY DEF TypeOK, Holds
<1>2. Holds(c) => lease[c].provider \in Provider
  BY <1>1 DEF Lease
<1>3. QED
  BY <1>2, PoolAssumption DEF held

LEMMA HeldUsers ==
    ASSUME NEW p \in Provider PROVE {c \in Client : held[c] = p} = UsersOf(p)
  BY PoolAssumption DEF held, UsersOf

\* The instance counts with the same operator.
LEMMA LeasesCount ==
    ASSUME NEW S PROVE Leases!Cardinality(S) = Cardinality(S)
  BY DEF Leases!Cardinality, Cardinality

\* A slot has capacity exactly when its provider has room.
LEMMA RoomIsCapacity ==
    ASSUME ConfiguredInv, NEW i \in Index
    PROVE  Leases!HasRoom(slots[i]) <=> HasCapacity(i)
<1>1. slots[i] \in Provider
  BY DEF ConfiguredInv, TypeOK, Index
<1>2. Leases!Holders(slots[i]) = UsersOf(slots[i])
  BY <1>1, HeldUsers DEF Leases!Holders, held
<1>3. active[i] = Cardinality(HoldersOf(i))
  BY DEF ConfiguredInv, CapacityAccounting
<1>4. QED
  BY <1>2, <1>3, UsersAreHolders, LeasesCount DEF Leases!HasRoom, HasCapacity

\* The list is in order of priority, so "the first slot with capacity" is
\* "the cheapest provider with room".
Sorted == \A i, j \in Index : i < j => Priority[slots[i]] <= Priority[slots[j]]

LEMMA AddSlotSorted ==
    ASSUME TypeOK, Sorted, NEW p \in Provider, AddSlot(p)
    PROVE  Sorted'
<1>1. PICK k \in 1..(Len(slots) + 1) : /\ InsertsAt(p, k)
                                       /\ slots' = InsertAt(slots, k, p)
  BY DEF AddSlot
<1>2. slots \in Seq(Provider) /\ Len(slots) \in Nat
  BY DEF TypeOK
<1>3. /\ Len(InsertAt(slots, k, p)) = Len(slots) + 1
      /\ \A i \in 1..(Len(slots) + 1) :
            InsertAt(slots, k, p)[i] = IF i < k THEN slots[i]
                                       ELSE IF i = k THEN p ELSE slots[i - 1]
  BY InsertedSlots
<1>4. /\ \A i \in Index : Priority[slots[i]] \in Int
      /\ Priority[p] \in Int
      /\ \A i \in Index : i < k => Priority[slots[i]] <= Priority[p]
      /\ k \in Index => Priority[p] < Priority[slots[k]]
  <2>1. \A i \in Index : slots[i] \in Provider
    BY <1>2 DEF Index
  <2>2. QED
    BY <1>1, <1>2, <2>1, PoolAssumption DEF InsertsAt, Index
<1>5. \A i \in Index : i >= k => Priority[p] <= Priority[slots[i]]
  BY <1>2, <1>4 DEF Sorted, Index
<1>6. ASSUME NEW i \in 1..(Len(slots) + 1), NEW j \in 1..(Len(slots) + 1), i < j
      PROVE  Priority[slots'[i]] <= Priority[slots'[j]]
  <2>1. CASE j < k
    BY <2>1, <1>1, <1>2, <1>3, <1>6 DEF Sorted, Index
  <2>2. CASE j = k
    BY <2>2, <1>1, <1>2, <1>3, <1>4, <1>6 DEF Index
  <2>3. CASE j > k
    <3>1. slots'[j] = slots[j - 1] /\ j - 1 \in Index
      BY <2>3, <1>1, <1>2, <1>3 DEF Index
    <3>2. CASE i < k
      BY <3>1, <3>2, <2>3, <1>1, <1>2, <1>3 DEF Sorted, Index
    <3>3. CASE i = k
      BY <3>1, <3>3, <2>3, <1>1, <1>2, <1>3, <1>5 DEF Index
    <3>4. CASE i > k
      <4>1. slots'[i] = slots[i - 1] /\ i - 1 \in Index /\ i - 1 < j - 1
        BY <3>4, <1>1, <1>2, <1>3, <1>6 DEF Index
      <4>2. QED
        BY <3>1, <4>1 DEF Sorted
    <3>5. QED
      BY <3>2, <3>3, <3>4, <1>6
  <2>4. QED
    BY <2>1, <2>2, <2>3
<1>7. QED
  BY <1>1, <1>3, <1>6 DEF Sorted, Index

LEMMA StepSorted == TypeOK /\ Sorted /\ [ConfiguredNext]_poolVars => Sorted'
<1> SUFFICES ASSUME TypeOK, Sorted, [ConfiguredNext]_poolVars PROVE Sorted'
  OBVIOUS
<1>1. ASSUME NEW p \in Provider, AddSlot(p) PROVE Sorted'
  BY <1>1, AddSlotSorted
<1>2. CASE slots' = slots
  BY <1>2 DEF Sorted, Index
<1>3. QED
  BY <1>1, <1>2 DEF ConfiguredNext, UseStep, Route, Refuse, Release, poolVars

LEMMA ConfiguredSorted == ConfiguredSpec => []Sorted
<1>1. PoolInit => Sorted
  BY DEF PoolInit, Sorted, Index
<1>2. ConfiguredInv => TypeOK
  BY DEF ConfiguredInv
<1>3. QED
  BY <1>1, <1>2, StepSorted, ConfiguredInvariant, PTL DEF ConfiguredSpec

LEMMA OfferRefined ==
    ASSUME ConfiguredInv, Idle, NEW p \in Provider, AddSlot(p)
    PROVE  Leases!Offer(p)
<1>1. PICK k \in 1..(Len(slots) + 1) : slots' = InsertAt(slots, k, p)
  BY DEF AddSlot
<1>2. slots \in Seq(Provider) /\ Len(slots) \in Nat
  BY DEF ConfiguredInv, TypeOK
<1>3. /\ InsertAt(slots, k, p) \in Seq(Provider)
      /\ Len(InsertAt(slots, k, p)) = Len(slots) + 1
      /\ \A i \in 1..(Len(slots) + 1) :
            InsertAt(slots, k, p)[i] = IF i < k THEN slots[i]
                                       ELSE IF i = k THEN p ELSE slots[i - 1]
  BY InsertedSlots DEF ConfiguredInv
<1>4. DOMAIN slots = 1..Len(slots) /\ DOMAIN slots' = 1..(Len(slots) + 1)
  BY <1>1, <1>2, <1>3, LenProperties
<1>5. ToSet(slots') = ToSet(slots) \cup {p}
  <2>1. ASSUME NEW i \in 1..(Len(slots) + 1)
        PROVE  slots'[i] = p \/ \E j \in 1..Len(slots) : slots'[i] = slots[j]
    <3>1. CASE i < k
      BY <3>1, <1>1, <1>2, <1>3
    <3>2. CASE i = k
      BY <3>2, <1>1, <1>3
    <3>3. CASE i > k
      <4>1. i - 1 \in 1..Len(slots) /\ slots'[i] = slots[i - 1]
        BY <3>3, <1>1, <1>2, <1>3
      <4>2. QED
        BY <4>1
    <3>4. QED
      BY <3>1, <3>2, <3>3, <1>2
  <2>2. ASSUME NEW j \in 1..Len(slots)
        PROVE  \E i \in 1..(Len(slots) + 1) : slots'[i] = slots[j]
    <3>1. CASE j < k
      BY <3>1, <1>1, <1>2, <1>3
    <3>2. CASE j >= k
      <4>1. j + 1 \in 1..(Len(slots) + 1) /\ slots'[j + 1] = slots[j]
        BY <3>2, <1>1, <1>2, <1>3
      <4>2. QED
        BY <4>1
    <3>3. QED
      BY <3>1, <3>2, <1>2
  <2>3. slots'[k] = p
    BY <1>1, <1>3
  <2>4. ToSet(slots) = {slots[j] : j \in 1..Len(slots)}
    BY <1>4 DEF ToSet
  <2>5. ToSet(slots') = {slots'[i] : i \in 1..(Len(slots) + 1)}
    BY <1>4 DEF ToSet
  <2> HIDE DEF ToSet
  <2>6. QED
    BY <2>1, <2>2, <2>3, <2>4, <2>5
<1>6. held' = held
  BY DEF AddSlot, held, Holds
<1>7. \A c \in Client : held[c] = NoLease
  BY DEF Idle, held
<1>8. QED
  BY <1>5, <1>6, <1>7 DEF Leases!Offer, held, AddSlot

LEMMA AcquireRefined ==
    ASSUME ConfiguredInv, Sorted, NEW c \in Client, Route(c)
    PROVE  \E p \in Provider : Leases!Acquire(c, p)
<1>1. PICK i \in Index :
         /\ HasCapacity(i)
         /\ \A j \in 1..(i-1) : ~HasCapacity(j)
         /\ lease' = [lease EXCEPT ![c] = [provider |-> slots[i], slot |-> i]]
  BY DEF Route
<1>2. slots[i] \in Provider
  BY DEF ConfiguredInv, TypeOK, Index
<1>3. held[c] = NoLease
  BY DEF Route, held
<1>4. slots[i] \in ToSet(slots)
  BY <1>1, OfferedIndex DEF ConfiguredInv
<1>5. Leases!HasRoom(slots[i])
  BY <1>1, RoomIsCapacity
<1>6. ASSUME NEW q \in ToSet(slots), Priority[q] < Priority[slots[i]]
      PROVE  ~Leases!HasRoom(q)
  <2>1. PICK j \in Index : slots[j] = q
    BY OfferedIndex DEF ConfiguredInv
  <2>2. q \in Provider /\ Priority[q] \in Int /\ Priority[slots[i]] \in Int
    BY <1>2, <2>1, PoolAssumption DEF ConfiguredInv, TypeOK, Index
  <2>3. i \in Nat /\ j \in Nat /\ ~(i <= j)
    BY <1>6, <2>1, <2>2 DEF Sorted, Index
  <2>4. ~HasCapacity(j)
    BY <1>1, <2>1, <2>3 DEF Index
  <2>5. QED
    BY <2>1, <2>4, RoomIsCapacity
<1>7. held' = [held EXCEPT ![c] = slots[i]]
  <2>1. [provider |-> slots[i], slot |-> i] # NoLease
    BY <1>2, PoolAssumption DEF Lease, Index
  <2>2. \A d \in Client : lease'[d] = IF d = c THEN [provider |-> slots[i], slot |-> i]
                                              ELSE lease[d]
    BY <1>1 DEF ConfiguredInv, TypeOK
  <2>3. \A d \in Client : Holds(d)' <=> (Holds(d) \/ d = c)
    BY <2>1, <2>2 DEF Holds
  <2>4. \A d \in Client : held'[d] = IF d = c THEN slots[i] ELSE held[d]
    BY <2>2, <2>3 DEF held
  <2>5. DOMAIN held = Client /\ DOMAIN held' = Client
    BY DEF held
  <2>6. held' = [d \in Client |-> IF d = c THEN slots[i] ELSE held[d]]
    BY <2>4, <2>5 DEF held
  <2>7. QED
    BY <2>6 DEF held
<1>8. PICK p \in Provider : p = slots[i]
  BY <1>2
<1>9. Leases!Acquire(c, p)
  BY <1>3, <1>4, <1>5, <1>6, <1>7, <1>8 DEF Leases!Acquire, held, Route
<1>10. QED
  BY <1>9

LEMMA DenyRefined ==
    ASSUME ConfiguredInv, NEW c \in Client, Refuse(c)
    PROVE  Leases!Deny(c)
<1>1. held[c] = NoLease /\ held' = held
  BY DEF Refuse, held, Holds
<1>2. \A q \in ToSet(slots) : ~Leases!HasRoom(q)
  BY OfferedIndex, RoomIsCapacity DEF Refuse, ConfiguredInv
<1>3. QED
  BY <1>1, <1>2 DEF Leases!Deny, held, Refuse

LEMMA ReturnRefined ==
    ASSUME ConfiguredInv, NEW c \in Client, Release(c)
    PROVE  Leases!Return(c)
<1>1. held[c] # NoLease
  BY HeldFacts DEF Release, ConfiguredInv
<1>2. held' = [held EXCEPT ![c] = NoLease]
  BY DEF Release, held, Holds, ConfiguredInv, TypeOK
<1>3. QED
  BY <1>1, <1>2 DEF Leases!Return, held, Release

\* The pool with its sorted list, indices and counters implements the
\* abstract lender: every route is an Acquire of a cheapest provider with
\* room, every ValueError a Deny with all providers full.
THEOREM PoolImplementsLeases == ConfiguredSpec => ImplementsLeases
<1>1. PoolInit => Leases!Init
  BY DEF PoolInit, Leases!Init, ToSet, Holds
<1>2. ConfiguredInv /\ Sorted /\ [ConfiguredNext]_poolVars
         => [Leases!Next]_(Leases!leaseVars)
  <2> SUFFICES ASSUME ConfiguredInv, Sorted, [ConfiguredNext]_poolVars
               PROVE  [Leases!Next]_(Leases!leaseVars)
    OBVIOUS
  <2>1. ASSUME Idle, NEW p \in Provider, AddSlot(p) PROVE Leases!Next
    BY <2>1, OfferRefined DEF Leases!Next
  <2>2. ASSUME NEW c \in Client, Route(c) PROVE Leases!Next
    BY <2>2, AcquireRefined DEF Leases!Next
  <2>3. ASSUME NEW c \in Client, Refuse(c) PROVE Leases!Next
    BY <2>3, DenyRefined DEF Leases!Next
  <2>4. ASSUME NEW c \in Client, Release(c) PROVE Leases!Next
    BY <2>4, ReturnRefined DEF Leases!Next
  <2>5. CASE UNCHANGED poolVars
    BY <2>5 DEF poolVars, Leases!leaseVars, Holds
  <2>6. QED
    BY <2>1, <2>2, <2>3, <2>4, <2>5 DEF ConfiguredNext, UseStep
<1>3. QED
  BY <1>1, <1>2, ConfiguredInvariant, ConfiguredSorted, PTL
     DEF ConfiguredSpec, ImplementsLeases, Leases!Spec
-----------------------------------------------------------------------------
(***************************************************************************)
(* The manager as a user of the pool.                                      *)
(***************************************************************************)
LEMMA Clients ==
    /\ Task \subseteq Client /\ Outsider \subseteq Client
    /\ IsFiniteSet(Task) /\ IsFiniteSet(Outsider)
  BY ManagerAssumption, PoolAssumption, FS_Subset

\* A thread that routes, is refused or releases takes a step of the pool.
LEMMA UseIsPoolStep ==
    ASSUME NEW c \in Client, Route(c) \/ Refuse(c) \/ Release(c)
    PROVE  ConfiguredNext
  BY DEF ConfiguredNext, UseStep

LEMMA StepIsPoolStep == [Next]_vars => [ConfiguredNext]_poolVars
<1> SUFFICES ASSUME [Next]_vars PROVE [ConfiguredNext]_poolVars
  OBVIOUS
<1>1. ASSUME NEW p \in Provider, Configure(p) PROVE ConfiguredNext
  BY <1>1 DEF Configure, ConfiguredNext
<1>2. ASSUME NEW T \in SUBSET Task, Execute(T) PROVE UNCHANGED poolVars
  BY <1>2 DEF Execute, poolVars
<1>3. ASSUME MainStep PROVE UNCHANGED poolVars
  BY <1>3 DEF MainStep, Submit, Collect, Return, poolVars
<1>4. ASSUME NEW t \in Task, WorkerStep(t)
      PROVE  ConfiguredNext \/ UNCHANGED poolVars
  <2>1. CASE Start(t) \/ Finish(t)
    BY <2>1 DEF Start, Finish, poolVars
  <2>2. CASE Routed(t) \/ Refused(t) \/ GiveBack(t)
    BY <2>2, UseIsPoolStep, Clients DEF Routed, Refused, GiveBack
  <2>3. QED
    BY <1>4, <2>1, <2>2 DEF WorkerStep
<1>5. ASSUME NEW o \in Outsider, OutsiderStep(o) PROVE ConfiguredNext
  BY <1>5, UseIsPoolStep, Clients DEF OutsiderStep
<1>6. CASE UNCHANGED vars
  BY <1>6 DEF vars, poolVars
<1>7. QED
  BY <1>1, <1>2, <1>3, <1>4, <1>5, <1>6 DEF Next

\* The manager, its workers and the outsiders use the pool as it asks: slots
\* are added only while no lease is out.
THEOREM ManagerUsesConfiguredPool == Spec => UsesConfiguredPool
<1>1. Init => PoolInit
  BY DEF Init
<1>2. QED
  BY <1>1, StepIsPoolStep, PTL DEF Spec, UsesConfiguredPool, ConfiguredSpec

-----------------------------------------------------------------------------
(***************************************************************************)
(* The inductive invariant.  A batch is in one place at a time: its tasks  *)
(* are in unsent, then in the queue, then at work, then done; collecting   *)
(* begins when unsent is empty and ends when every task is collected,      *)
(* which only a done task can be.                                          *)
(***************************************************************************)
PoolTyped ==
    /\ slots \in Seq(Provider)
    /\ lease \in [Client -> Lease \cup {NoLease}]

\* The elements of a work list are distinct tasks at that stage.
ListOf(list, st) ==
    /\ list \in Seq(Task)
    /\ \A i \in 1..Len(list) : stage[list[i]] = st
    /\ \A i, j \in 1..Len(list) : list[i] = list[j] => i = j

IInv ==
    /\ PoolTyped
    /\ LeaseWhileRunning
    /\ stage \in [Task -> Stage]
    /\ ListOf(unsent, "unsent") /\ ListOf(queue, "queued")
    /\ \A t \in Task : stage[t] \notin {"new", "done"} => t \in batch
    /\ \A t \in collected : stage[t] = "done"
    /\ caller \in {"idle", "submitting", "collecting"}
    /\ caller = "collecting" => unsent = <<>>
    /\ caller = "idle" => unsent = <<>> /\ \A t \in Task : stage[t] \in {"new", "done"}

\* add_slot keeps a list of providers a list of providers.
LEMMA AddSlotTyped ==
    ASSUME PoolTyped, NEW p \in Provider, AddSlot(p)
    PROVE  PoolTyped'
<1>1. PICK k \in 1..(Len(slots) + 1) : slots' = InsertAt(slots, k, p)
  BY DEF AddSlot
<1>2. /\ SubSeq(slots, 1, k - 1) \in Seq(Provider)
      /\ SubSeq(slots, k, Len(slots)) \in Seq(Provider)
      /\ <<p>> \in Seq(Provider)
  BY DEF PoolTyped
<1>3. slots' \in Seq(Provider)
  BY <1>1, <1>2, ConcatProperties DEF InsertAt
<1>4. QED
  BY <1>3 DEF AddSlot, PoolTyped

\* A route gives its caller a lease and leaves the other leases alone.
LEMMA RouteLease ==
    ASSUME PoolTyped, NEW c \in Client, Route(c)
    PROVE  /\ PoolTyped' /\ Holds(c)'
           /\ \A d \in Client : d # c => lease'[d] = lease[d]
<1>1. PICK i \in Index :
        /\ lease' = [lease EXCEPT ![c] = [provider |-> slots[i], slot |-> i]]
        /\ slots' = slots
  BY DEF Route
<1>2. [provider |-> slots[i], slot |-> i] \in Lease
  BY DEF Index, Lease, PoolTyped
<1>3. NoLease \notin Lease
  BY PoolAssumption DEF PoolAssumption
<1>4. QED
  BY <1>1, <1>2, <1>3 DEF PoolTyped, Holds

LEMMA RefuseLease ==
    ASSUME PoolTyped, NEW c \in Client, Refuse(c)
    PROVE  PoolTyped' /\ lease' = lease /\ ~Holds(c)
  BY DEF PoolTyped, Refuse

LEMMA ReleaseLease ==
    ASSUME PoolTyped, NEW c \in Client, Release(c)
    PROVE  /\ PoolTyped' /\ ~Holds(c)'
           /\ \A d \in Client : d # c => lease'[d] = lease[d]
  BY DEF PoolTyped, Release, Holds
-----------------------------------------------------------------------------
LEMMA InitInv == Init => IInv
<1> SUFFICES ASSUME Init PROVE IInv
  OBVIOUS
<1>1. PoolTyped
  BY DEF Init, PoolInit, PoolTyped
<1>2. \A t \in Task : ~Holds(t)
  BY Clients DEF Init, PoolInit, Holds
<1>3. QED
  BY <1>1, <1>2 DEF Init, IInv, LeaseWhileRunning, ListOf, Stage

\* A task that is in neither list may change its stage.
LEMMA ListsKept ==
    ASSUME IInv, NEW t \in Task, NEW st, stage' = [stage EXCEPT ![t] = st],
           stage[t] \notin {"unsent", "queued"}, UNCHANGED <<unsent, queue>>
    PROVE  ListOf(unsent, "unsent")' /\ ListOf(queue, "queued")'
<1>1. /\ \A i \in 1..Len(unsent) : unsent[i] \in Task /\ stage'[unsent[i]] = "unsent"
      /\ \A i \in 1..Len(queue) : queue[i] \in Task /\ stage'[queue[i]] = "queued"
  BY DEF IInv, ListOf
<1>2. QED
  BY <1>1 DEF IInv, ListOf

\* Where nothing is at work, nothing is queued.
LEMMA IdleQueue == IInv /\ caller = "idle" => queue = <<>>
<1> SUFFICES ASSUME IInv, caller = "idle", queue # <<>> PROVE FALSE
  OBVIOUS
<1>1. queue \in Seq(Task) /\ 1 \in 1..Len(queue)
  BY DEF IInv, ListOf
<1>2. stage[queue[1]] = "queued" /\ queue[1] \in Task
  BY <1>1 DEF IInv, ListOf
<1>3. QED
  BY <1>2 DEF IInv

LEMMA ConfigureInv == ASSUME IInv, NEW p \in Provider, Configure(p) PROVE IInv'
<1>1. PoolTyped' /\ lease' = lease
  BY AddSlotTyped DEF Configure, AddSlot, IInv
<1>2. QED
  BY <1>1 DEF IInv, LeaseWhileRunning, Holds, Configure, mainVars, workVars, ListOf

LEMMA ExecuteInv == ASSUME IInv, NEW T \in SUBSET Task, Execute(T) PROVE IInv'
<1>1. Cardinality(T) \in Nat
  BY FS_Subset, FS_CardinalityType, Clients
<1>2. /\ unsent' \in [1..Cardinality(T) -> T]
      /\ \A i, j \in 1..Cardinality(T) : i < j => unsent'[i] # unsent'[j]
  BY DEF Execute, SortedLists
<1>3. unsent' \in Seq(Task) /\ Len(unsent') = Cardinality(T)
  BY <1>1, <1>2
<1>4. stage' \in [Task -> Stage] /\ \A t \in T : stage'[t] = "unsent"
  BY DEF Execute, IInv, Stage
<1>5. \A i, j \in 1..Len(unsent') : unsent'[i] = unsent'[j] => i = j
  <2> SUFFICES ASSUME NEW i \in 1..Len(unsent'), NEW j \in 1..Len(unsent'), i # j
               PROVE  unsent'[i] # unsent'[j]
    OBVIOUS
  <2>1. i < j \/ j < i
    BY <1>1, <1>3
  <2>2. QED
    BY <1>2, <1>3, <2>1
<1>6. ListOf(unsent, "unsent")'
  BY <1>2, <1>3, <1>4, <1>5 DEF ListOf
<1>7. ListOf(queue, "queued")'
  <2>1. queue' = <<>>
    BY IdleQueue DEF Execute
  <2>2. QED
    BY <2>1 DEF ListOf
<1>8. \A t \in Task : stage'[t] = IF t \in T THEN "unsent" ELSE stage[t]
  BY DEF Execute
<1>9. PoolTyped' /\ LeaseWhileRunning'
  BY <1>8 DEF Execute, IInv, PoolTyped, LeaseWhileRunning, Holds, poolVars
<1>10. QED
  BY <1>4, <1>6, <1>7, <1>8, <1>9 DEF Execute, IInv

LEMMA SubmitInv == ASSUME IInv, Submit PROVE IInv'
<1> DEFINE h == Head(unsent)
<1>1. /\ unsent \in Seq(Task) /\ Len(unsent) >= 1 /\ h = unsent[1] /\ h \in Task
      /\ stage[h] = "unsent" /\ h \in batch
  <2>1. unsent \in Seq(Task) /\ unsent # <<>>
    BY DEF Submit, IInv, ListOf
  <2>2. Len(unsent) >= 1 /\ h = unsent[1] /\ h \in Task
    BY <2>1
  <2>3. QED
    BY <2>1, <2>2 DEF IInv, ListOf
<1>2. /\ queue' = Append(queue, h) /\ unsent' = Tail(unsent)
      /\ stage' = [stage EXCEPT ![h] = "queued"]
      /\ caller' = IF Len(unsent) = 1 THEN "collecting" ELSE caller
      /\ caller = "submitting"
      /\ UNCHANGED <<poolVars, batch, collected>>
  BY DEF Submit
<1> HIDE DEF h
<1>3. /\ unsent' \in Seq(Task) /\ Len(unsent') = Len(unsent) - 1
      /\ \A i \in 1..Len(unsent') : unsent'[i] = unsent[i + 1] /\ i + 1 \in 1..Len(unsent)
  BY <1>1, <1>2
<1>4. ListOf(unsent, "unsent")'
  <2>1. \A i \in 1..Len(unsent') : unsent'[i] # h
    BY <1>1, <1>3 DEF IInv, ListOf
  <2>2. \A i \in 1..Len(unsent') : unsent'[i] \in Task /\ stage[unsent'[i]] = "unsent"
    <3>1. \A j \in 1..Len(unsent) : unsent[j] \in Task /\ stage[unsent[j]] = "unsent"
      BY <1>1 DEF IInv, ListOf
    <3> QED
      BY <1>3, <3>1
  <2>3. \A i, j \in 1..Len(unsent') : unsent'[i] = unsent'[j] => i = j
    BY <1>1, <1>3 DEF IInv, ListOf
  <2>4. QED
    BY <1>2, <1>3, <2>1, <2>2, <2>3 DEF ListOf, IInv
<1>5. queue \in Seq(Task) /\ \A i \in 1..Len(queue) : queue[i] \in Task /\ queue[i] # h
  BY <1>1 DEF IInv, ListOf
<1>6. /\ queue' \in Seq(Task) /\ Len(queue') = Len(queue) + 1
      /\ \A i \in 1..Len(queue') : queue'[i] = IF i <= Len(queue) THEN queue[i] ELSE h
  BY <1>1, <1>2, <1>5
<1>7. ListOf(queue, "queued")'
  <2>1. \A i \in 1..Len(queue') : stage'[queue'[i]] = "queued"
    BY <1>1, <1>2, <1>5, <1>6 DEF IInv, ListOf
  <2>2. \A i, j \in 1..Len(queue') : queue'[i] = queue'[j] => i = j
    BY <1>5, <1>6 DEF IInv, ListOf
  <2>3. QED
    BY <1>6, <2>1, <2>2 DEF ListOf
<1>8. \A t \in Task : stage'[t] = IF t = h THEN "queued" ELSE stage[t]
  BY <1>1, <1>2 DEF IInv
<1>9. PoolTyped' /\ LeaseWhileRunning' /\ stage' \in [Task -> Stage]
  BY <1>1, <1>2, <1>8 DEF IInv, PoolTyped, LeaseWhileRunning, Holds, poolVars, Stage
<1>10. caller' = "collecting" => unsent' = <<>>
  <2>1. caller' = "collecting" => Len(unsent) = 1
    BY <1>2
  <2>2. Len(unsent) = 1 => Len(unsent') = 0
    BY <1>3
  <2>3. Len(unsent') = 0 => unsent' = <<>>
    BY <1>3, EmptySeq
  <2> QED
    BY <2>1, <2>2, <2>3
<1>11. \A t \in collected' : stage'[t] = "done"
  BY <1>1, <1>2 DEF IInv
<1>12. \A t \in Task : stage'[t] \notin {"new", "done"} => t \in batch'
  BY <1>1, <1>2, <1>8 DEF IInv
<1>13. caller' \in {"submitting", "collecting"}
  BY <1>2
<1>14. QED
  BY <1>4, <1>7, <1>9, <1>10, <1>11, <1>12, <1>13 DEF IInv

LEMMA StartInv == ASSUME IInv, NEW t \in Task, Start(t) PROVE IInv'
<1>1. /\ queue \in Seq(Task) /\ Len(queue) >= 1 /\ t = queue[1]
      /\ stage[t] = "queued" /\ t \in batch
  <2>1. queue \in Seq(Task) /\ queue # <<>> /\ t = Head(queue)
    BY DEF Start, IInv, ListOf
  <2>2. Len(queue) >= 1 /\ t = queue[1]
    BY <2>1
  <2>3. QED
    BY <2>1, <2>2 DEF IInv, ListOf
<1>2. /\ queue' = Tail(queue) /\ stage' = [stage EXCEPT ![t] = "routing"]
      /\ UNCHANGED <<poolVars, mainVars>>
  BY DEF Start
<1>3. /\ queue' \in Seq(Task) /\ Len(queue') = Len(queue) - 1
      /\ \A i \in 1..Len(queue') : queue'[i] = queue[i + 1] /\ i + 1 \in 1..Len(queue)
  BY <1>1, <1>2
<1>4. ListOf(queue, "queued")'
  <2>1. \A i \in 1..Len(queue') : queue'[i] # t
    BY <1>1, <1>3 DEF IInv, ListOf
  <2>2. \A i \in 1..Len(queue') : queue'[i] \in Task /\ stage[queue'[i]] = "queued"
    BY <1>1, <1>3 DEF IInv, ListOf
  <2>3. \A i, j \in 1..Len(queue') : queue'[i] = queue'[j] => i = j
    BY <1>1, <1>3 DEF IInv, ListOf
  <2>4. QED
    BY <1>2, <1>3, <2>1, <2>2, <2>3 DEF ListOf, IInv
<1>5. ListOf(unsent, "unsent")'
  <2>1. \A i \in 1..Len(unsent) : unsent[i] # t
    BY <1>1 DEF IInv, ListOf
  <2>2. QED
    BY <1>2, <2>1 DEF ListOf, IInv, mainVars
<1>6. PoolTyped' /\ LeaseWhileRunning' /\ stage' \in [Task -> Stage]
  BY <1>1, <1>2 DEF IInv, PoolTyped, LeaseWhileRunning, Holds, poolVars, Stage
<1>7. QED
  BY <1>1, <1>2, <1>4, <1>5, <1>6 DEF IInv, mainVars

\* A worker that changes its own stage from "routing", "running" or "releasing"
\* and its own lease accordingly.
LEMMA WorkInv ==
    ASSUME IInv, NEW t \in Task, NEW st \in Stage \ {"new", "unsent", "queued"},
           stage[t] \in {"routing", "running", "releasing"},
           stage' = [stage EXCEPT ![t] = st],
           UNCHANGED <<queue, mainVars>>, PoolTyped',
           Holds(t)' <=> st \in {"running", "releasing"},
           \A d \in Task : d # t => lease'[d] = lease[d]
    PROVE  IInv'
<1>1. ListOf(unsent, "unsent")' /\ ListOf(queue, "queued")'
  BY ListsKept DEF mainVars
<1>2. LeaseWhileRunning'
  BY DEF IInv, LeaseWhileRunning, Holds
<1>3. t \in batch /\ caller # "idle"
  BY DEF IInv
<1>4. QED
  BY <1>1, <1>2, <1>3 DEF IInv, mainVars

LEMMA WorkerInv == ASSUME IInv, NEW t \in Task, WorkerStep(t) PROVE IInv'
<1>0. PoolTyped /\ (Holds(t) <=> stage[t] \in {"running", "releasing"})
  BY DEF IInv, LeaseWhileRunning
<1>1. CASE Start(t)
  BY <1>1, StartInv
<1>2. CASE Routed(t)
  BY <1>0, <1>2, RouteLease, WorkInv, Clients DEF Routed, Stage
<1>3. CASE Refused(t)
  <2>1. PoolTyped' /\ lease' = lease /\ ~Holds(t)'
    BY <1>0, <1>3, RefuseLease, Clients DEF Refused, Holds
  <2>2. QED
    BY <1>3, <2>1, WorkInv DEF Refused, Stage
<1>4. CASE Finish(t)
  <2>1. PoolTyped' /\ lease' = lease /\ Holds(t)'
    BY <1>0, <1>4 DEF Finish, Holds, poolVars, PoolTyped
  <2>2. QED
    BY <1>4, <2>1, WorkInv DEF Finish, Stage
<1>5. CASE GiveBack(t)
  BY <1>0, <1>5, ReleaseLease, WorkInv, Clients DEF GiveBack, Stage
<1>6. QED
  BY <1>1, <1>2, <1>3, <1>4, <1>5 DEF WorkerStep

LEMMA CollectInv == ASSUME IInv, NEW t \in Task, Collect(t) PROVE IInv'
  BY DEF IInv, PoolTyped, LeaseWhileRunning, ListOf, Holds, Collect, poolVars, workVars

LEMMA ReturnInv == ASSUME IInv, Return PROVE IInv'
<1>1. /\ unsent = <<>> /\ \A t \in Task : stage[t] \in {"new", "done"}
  BY DEF IInv, Return
<1>2. QED
  BY <1>1 DEF IInv, PoolTyped, LeaseWhileRunning, ListOf, Holds, Return, poolVars, workVars

LEMMA OutsiderInv == ASSUME IInv, NEW o \in Outsider, OutsiderStep(o) PROVE IInv'
<1>1. PoolTyped' /\ \A d \in Client : d # o => lease'[d] = lease[d]
  BY RouteLease, RefuseLease, ReleaseLease, Clients DEF IInv, OutsiderStep
<1>2. \A d \in Task : lease'[d] = lease[d]
  BY <1>1, ManagerAssumption, Clients
<1>3. UNCHANGED <<mainVars, workVars>>
  BY DEF OutsiderStep
<1>4. QED
  BY <1>1, <1>2, <1>3 DEF IInv, LeaseWhileRunning, ListOf, Holds, mainVars, workVars

LEMMA StepInv == IInv /\ [Next]_vars => IInv'
<1> SUFFICES ASSUME IInv, [Next]_vars PROVE IInv'
  OBVIOUS
<1>1. CASE UNCHANGED vars
  BY <1>1 DEF vars, poolVars, mainVars, workVars, IInv, PoolTyped, LeaseWhileRunning, ListOf,
              Holds
<1>2. CASE Next
  BY <1>2, ConfigureInv, ExecuteInv, SubmitInv, CollectInv, ReturnInv, WorkerInv, OutsiderInv
     DEF Next, MainStep
<1>3. QED
  BY <1>1, <1>2

LEMMA Invariant == Spec => []IInv
  BY InitInv, StepInv, PTL DEF Spec
-----------------------------------------------------------------------------
\* A worker holds a provider exactly while it runs its loop, however many run
\* at once, are refused or raise (_execute_worker's finally clause).
THEOREM WorkersHoldLeases == Spec => []LeaseWhileRunning
<1>1. IInv => LeaseWhileRunning
  BY DEF IInv
<1>2. QED
  BY <1>1, Invariant, PTL

LEMMA IdleLeavesNothing == IInv => NothingLeftBehind
<1> SUFFICES ASSUME IInv, caller = "idle"
             PROVE  queue = <<>> /\ Working = {} /\ \A t \in Task : ~Holds(t)
  BY DEF NothingLeftBehind
<1>1. queue = <<>>
  BY IdleQueue
<1>2. \A t \in Task : stage[t] \in {"new", "done"}
  BY DEF IInv
<1>3. QED
  BY <1>1, <1>2 DEF Working, IInv, LeaseWhileRunning

\* Whenever no execute() is under way no task is queued, no worker is at work
\* and none holds a provider.
THEOREM ExecuteLeavesNothing == Spec => []NothingLeftBehind
  BY Invariant, IdleLeavesNothing, PTL
-----------------------------------------------------------------------------
\* The place of a number in a set of them, counted from below.
UpTo(D, i) == {j \in D : j <= i}

LEMMA PlacesIncrease ==
    ASSUME NEW D \in SUBSET Nat, IsFiniteSet(D), NEW i \in D, NEW j \in D, i < j
    PROVE  Cardinality(UpTo(D, i)) < Cardinality(UpTo(D, j))
<1>1. UpTo(D, i) \subseteq UpTo(D, j) /\ j \in UpTo(D, j) /\ j \notin UpTo(D, i)
  <2>1. i \in Nat /\ j \in Nat /\ \A m \in D : m \in Nat
    OBVIOUS
  <2>2. \A m \in D : m <= i => m <= j
    BY <2>1
  <2>3. j <= j /\ ~(j <= i)
    BY <2>1
  <2> QED
    BY <2>2, <2>3 DEF UpTo
<1>2. IsFiniteSet(UpTo(D, i)) /\ IsFiniteSet(UpTo(D, j))
  <2>1. UpTo(D, i) \subseteq D /\ UpTo(D, j) \subseteq D
    BY DEF UpTo
  <2> QED
    BY <2>1, FS_Subset
<1>3. /\ Cardinality(UpTo(D, i)) <= Cardinality(UpTo(D, j))
      /\ Cardinality(UpTo(D, i)) # Cardinality(UpTo(D, j))
  BY <1>1, <1>2, FS_Subset
<1>4. Cardinality(UpTo(D, i)) \in Nat /\ Cardinality(UpTo(D, j)) \in Nat
  BY <1>2, FS_CardinalityType
<1> QED
  BY <1>3, <1>4

LEMMA PlaceTyped ==
    ASSUME NEW D \in SUBSET Nat, IsFiniteSet(D), NEW i \in D
    PROVE  Cardinality(UpTo(D, i)) \in 1..Cardinality(D)
<1>1. UpTo(D, i) \subseteq D /\ i \in UpTo(D, i)
  BY DEF UpTo
<1>2. IsFiniteSet(UpTo(D, i)) /\ Cardinality(UpTo(D, i)) <= Cardinality(D)
  BY <1>1, FS_Subset
<1>3. Cardinality(UpTo(D, i)) # 0
  BY <1>1, <1>2, FS_EmptySet
<1>4. Cardinality(UpTo(D, i)) \in Nat /\ Cardinality(D) \in Nat
  BY <1>2, FS_CardinalityType
<1> QED
  BY <1>2, <1>3, <1>4

LEMMA PlacesAreDistinct ==
    ASSUME NEW D \in SUBSET Nat, IsFiniteSet(D), NEW i \in D, NEW j \in D,
           Cardinality(UpTo(D, i)) = Cardinality(UpTo(D, j))
    PROVE  i = j
<1> SUFFICES ASSUME i # j PROVE FALSE
  OBVIOUS
<1>1. i < j \/ j < i
  OBVIOUS
<1>2. Cardinality(UpTo(D, i)) \in Nat /\ Cardinality(UpTo(D, j)) \in Nat
  BY PlaceTyped, FS_CardinalityType
<1> QED
  BY <1>1, <1>2, PlacesIncrease

\* Every place is taken, there being as many numbers as places.
LEMMA PlacesAreTaken ==
    ASSUME NEW D \in SUBSET Nat, IsFiniteSet(D), NEW k \in 1..Cardinality(D)
    PROVE  \E i \in D : Cardinality(UpTo(D, i)) = k
<1> DEFINE n == Cardinality(D)
           f == [i \in D |-> Cardinality(UpTo(D, i))]
           T == {f[i] : i \in D}
<1>1. n \in Nat
  BY FS_CardinalityType
<1>2. f \in [D -> T] /\ \A i, j \in D : f[i] = f[j] => i = j
  BY PlacesAreDistinct
<1>3. f \in Surjection(D, T) /\ f \in Injection(D, T)
  <2>1. \A t \in T : \E i \in D : f[i] = t
    OBVIOUS
  <2> QED
    BY <1>2, <2>1 DEF Surjection, Injection, IsInjective
<1>4. Cardinality(T) = n
  BY <1>3, FS_Surjection
<1>5. T \subseteq 1..n
  BY PlaceTyped
<1>6. IsFiniteSet(1..n) /\ Cardinality(1..n) = n
  BY <1>1, FS_Interval
<1>7. T = 1..n
  BY <1>4, <1>5, <1>6, FS_Subset
<1> QED
  BY <1>7
-----------------------------------------------------------------------------
\* What the manager knows of a batch while it works on it: a worker that gives
\* its provider back has a result, and the dict holds, under every id of a
\* collected task, a collected task with that id.
Filed ==
    /\ batch \subseteq Task /\ collected \subseteq batch
    /\ DOMAIN outcome = Task
    /\ \A t \in Task : stage[t] \in {"releasing", "done"} => outcome[t] # "none"
    /\ DOMAIN results = Ids(collected)
    /\ \A i \in DOMAIN results : results[i] \in collected /\ TaskId[results[i]] = i

LEMMA WorkerFiled == ASSUME IInv, Filed, NEW t \in Task, WorkerStep(t) PROVE Filed'
<1>1. stage \in [Task -> Stage]
  BY DEF IInv
<1>2. UNCHANGED <<batch, collected, results>>
  BY DEF WorkerStep, Start, Routed, Refused, Finish, GiveBack, mainVars
<1>3. DOMAIN outcome' = Task /\ \A u \in Task :
          stage'[u] \in {"releasing", "done"} => outcome'[u] # "none"
  <2>1. CASE Start(t)
    BY <1>1, <2>1 DEF Start, Filed
  <2>2. CASE Routed(t)
    BY <1>1, <2>2 DEF Routed, Filed
  <2>3. CASE Refused(t)
    BY <1>1, <2>3 DEF Refused, Filed
  <2>4. CASE Finish(t)
    BY <1>1, <2>4 DEF Finish, Filed
  <2>5. CASE GiveBack(t)
    BY <1>1, <2>5 DEF GiveBack, Filed
  <2> QED
    BY <2>1, <2>2, <2>3, <2>4, <2>5 DEF WorkerStep
<1> QED
  BY <1>2, <1>3 DEF Filed, Ids

LEMMA CollectFiled == ASSUME Filed, NEW t \in Task, Collect(t) PROVE Filed'
<1>1. /\ collected' = collected \cup {t} /\ t \in batch
      /\ results' = [i \in DOMAIN results \cup {TaskId[t]} |->
                        IF i = TaskId[t] THEN t ELSE results[i]]
      /\ UNCHANGED <<batch, stage, outcome>>
  BY DEF Collect, workVars
<1>2. DOMAIN results' = Ids(collected')
  BY <1>1 DEF Filed, Ids
<1>3. \A i \in DOMAIN results' : results'[i] \in collected' /\ TaskId[results'[i]] = i
  BY <1>1 DEF Filed
<1> QED
  BY <1>1, <1>2, <1>3 DEF Filed

LEMMA ExecuteFiled == ASSUME Filed, NEW T \in SUBSET Task, Execute(T) PROVE Filed'
<1>1. /\ batch' = T /\ collected' = {} /\ results' = <<>> /\ outcome' = outcome
      /\ stage' = [t \in Task |-> IF t \in T THEN "unsent" ELSE stage[t]]
  BY DEF Execute
<1>2. DOMAIN results' = {} /\ Ids(collected') = {}
  BY <1>1 DEF Ids
<1> QED
  BY <1>1, <1>2 DEF Filed

LEMMA SubmitFiled == ASSUME IInv, Filed, Submit PROVE Filed'
<1>1. /\ stage' = [stage EXCEPT ![Head(unsent)] = "queued"]
      /\ UNCHANGED <<batch, collected, results, outcome>>
  BY DEF Submit
<1>2. \A t \in Task : stage'[t] \in {"releasing", "done"} => stage'[t] = stage[t]
  BY <1>1 DEF IInv
<1> QED
  BY <1>1, <1>2 DEF Filed, Ids

LEMMA FiledStep == IInv /\ Filed /\ [Next]_vars => Filed'
<1> SUFFICES ASSUME IInv, Filed, [Next]_vars PROVE Filed'
  OBVIOUS
<1>1. CASE UNCHANGED <<batch, collected, results, outcome, stage>>
  BY <1>1 DEF Filed, Ids
<1>2. CASE UNCHANGED vars
  BY <1>1, <1>2 DEF vars, mainVars, workVars
<1>3. ASSUME NEW p \in Provider, Configure(p) PROVE Filed'
  BY <1>1, <1>3 DEF Configure, mainVars, workVars
<1>4. ASSUME NEW o \in Outsider, OutsiderStep(o) PROVE Filed'
  BY <1>1, <1>4 DEF OutsiderStep, mainVars, workVars
<1>5. CASE Return
  BY <1>1, <1>5 DEF Return, workVars
<1> QED
  BY <1>2, <1>3, <1>4, <1>5, ExecuteFiled, SubmitFiled, CollectFiled, WorkerFiled
     DEF Next, MainStep

\* The list that execute() returns: one result for every id, in order of ids.
LEMMA ReturnAccounts == ASSUME IInv, Filed, Return PROVE EveryTaskAccounted'
<1> DEFINE D == DOMAIN results
           n == Cardinality(D)
           at(k) == CHOOSE i \in D : Cardinality(UpTo(D, i)) = k
<1>1. /\ collected = batch
      /\ returned' = [k \in 1..n |-> results[at(k)]]
      /\ UNCHANGED <<batch, stage, outcome>>
  BY DEF Return, workVars, UpTo
<1>2. /\ batch \subseteq Task /\ D = Ids(batch)
      /\ \A i \in D : results[i] \in batch /\ TaskId[results[i]] = i
  BY <1>1 DEF Filed
<1>3. D \in SUBSET Nat
  BY <1>2, ManagerAssumption DEF Ids
<1>4. IsFiniteSet(D)
  <2>1. IsFiniteSet(batch)
    BY <1>2, Clients, FS_Subset
  <2>2. [t \in batch |-> TaskId[t]] \in Surjection(batch, D)
    BY <1>2 DEF Surjection, Ids
  <2> QED
    BY <2>1, <2>2, FS_Surjection
<1>5. \A t \in batch : stage[t] = "done" /\ outcome[t] # "none"
  BY <1>1, <1>2 DEF IInv, Filed
<1> HIDE DEF D
<1>6. \A k \in 1..n : at(k) \in D /\ Cardinality(UpTo(D, at(k))) = k
  BY <1>3, <1>4, PlacesAreTaken
<1>7. \A i \in D : Cardinality(UpTo(D, i)) \in 1..n
  BY <1>3, <1>4, PlaceTyped
<1> HIDE DEF at
<1>8. \A i \in D : at(Cardinality(UpTo(D, i))) = i
  <2>1. \A i, j \in D : Cardinality(UpTo(D, i)) = Cardinality(UpTo(D, j)) => i = j
    BY <1>3, <1>4, PlacesAreDistinct
  <2>2. ASSUME NEW i \in D PROVE at(Cardinality(UpTo(D, i))) = i
    <3> DEFINE c == Cardinality(UpTo(D, i))
    <3>1. c \in 1..n
      BY <1>7
    <3> HIDE DEF c
    <3>2. at(c) \in D /\ Cardinality(UpTo(D, at(c))) = c
      BY <3>1, <1>6
    <3>3. Cardinality(UpTo(D, at(c))) = Cardinality(UpTo(D, i))
      BY <3>2 DEF c
    <3>4. at(c) = i
      BY <3>2, <3>3, <2>1
    <3> QED
      BY <3>4 DEF c
  <2> QED
    BY <2>2
<1>9. DOMAIN returned' = 1..n /\ \A k \in 1..n : returned'[k] = results[at(k)]
  BY <1>1
<1>10. \A k \in 1..n : returned'[k] \in batch /\ TaskId[returned'[k]] = at(k)
  BY <1>2, <1>6, <1>9
<1>11. \A t \in batch : \E k \in 1..n : TaskId[returned'[k]] = TaskId[t]
  <2> TAKE t \in batch
  <2>1. TaskId[t] \in D
    BY <1>2 DEF Ids
  <2>2. Cardinality(UpTo(D, TaskId[t])) \in 1..n
    BY <2>1, <1>7
  <2>3. at(Cardinality(UpTo(D, TaskId[t]))) = TaskId[t]
    BY <2>1, <1>8
  <2> QED
    BY <2>2, <2>3, <1>10
<1>12. \A k, l \in 1..n : k < l => at(k) < at(l)
  <2> SUFFICES ASSUME NEW k \in 1..n, NEW l \in 1..n, k < l PROVE at(k) < at(l)
    OBVIOUS
  <2>0. at(k) \in D /\ at(l) \in D
    BY <1>6
  <2>1. at(k) \in Nat /\ at(l) \in Nat /\ k \in Int /\ l \in Int
    <3>1. n \in Nat
      BY <1>4, FS_CardinalityType
    <3> HIDE DEF n
    <3>2. k \in Int /\ l \in Int
      BY <3>1
    <3> QED
      BY <3>2, <2>0, <1>3
  <2>2. at(l) < at(k) => Cardinality(UpTo(D, at(l))) < Cardinality(UpTo(D, at(k)))
    BY <2>0, <1>3, <1>4, PlacesIncrease
  <2>4. at(l) < at(k) => l < k
    BY <2>2, <1>6
  <2>3. at(k) # at(l)
    BY <1>6, <2>1
  <2> QED
    BY <2>1, <2>4, <2>3
<1> QED
  BY <1>1, <1>5, <1>9, <1>10, <1>11, <1>12 DEF EveryTaskAccounted

\* Between two calls of execute() nothing it returned is disturbed.
LEMMA AccountStep ==
    IInv /\ Filed /\ EveryTaskAccounted /\ [Next]_vars => EveryTaskAccounted'
<1> SUFFICES ASSUME IInv, Filed, EveryTaskAccounted, [Next]_vars PROVE EveryTaskAccounted'
  OBVIOUS
<1>1. CASE UNCHANGED <<caller, batch, returned, stage, outcome>>
  BY <1>1 DEF EveryTaskAccounted
<1>2. CASE caller' # "idle"
  BY <1>2 DEF EveryTaskAccounted
<1>3. CASE UNCHANGED vars
  BY <1>1, <1>3 DEF vars, mainVars, workVars
<1>4. ASSUME NEW p \in Provider, Configure(p) PROVE EveryTaskAccounted'
  BY <1>1, <1>4 DEF Configure, mainVars, workVars
<1>5. ASSUME NEW o \in Outsider, OutsiderStep(o) PROVE EveryTaskAccounted'
  BY <1>1, <1>5 DEF OutsiderStep, mainVars, workVars
<1>6. ASSUME NEW T \in SUBSET Task, Execute(T) PROVE EveryTaskAccounted'
  BY <1>2, <1>6 DEF Execute
<1>7. CASE Submit
  BY <1>2, <1>7 DEF Submit
<1>8. ASSUME NEW t \in Task, Collect(t) PROVE EveryTaskAccounted'
  BY <1>2, <1>8 DEF Collect
<1>9. ASSUME NEW t \in Task, WorkerStep(t) PROVE EveryTaskAccounted'
  <2>1. caller' = caller
    BY <1>9 DEF WorkerStep, Start, Routed, Refused, Finish, GiveBack, mainVars
  <2>2. CASE caller = "idle"
    <3>1. queue = <<>> /\ stage[t] \in {"new", "done"}
      BY <2>2, IdleQueue DEF IInv
    <3> QED
      BY <3>1, <1>9 DEF WorkerStep, Start, Routed, Refused, Finish, GiveBack
  <2> QED
    BY <2>1, <2>2, <1>2
<1> QED
  BY <1>3, <1>4, <1>5, <1>6, <1>7, <1>8, <1>9, ReturnAccounts DEF Next, MainStep

\* What execute() returns between two batches is one finished task of the last
\* batch for every id in it, in increasing order of ids (worker_manager.py's
\* results dict and the list made of it).
THEOREM TasksAreAccounted == Spec => []EveryTaskAccounted
<1>1. Init => Filed /\ EveryTaskAccounted
  BY DEF Init, Filed, EveryTaskAccounted, Ids
<1>2. IInv /\ Filed /\ EveryTaskAccounted /\ [Next]_vars => (Filed /\ EveryTaskAccounted)'
  BY FiledStep, AccountStep
<1> QED
  BY <1>1, <1>2, Invariant, PTL DEF Spec
-----------------------------------------------------------------------------
(***************************************************************************)
(* Why a worker is refused.  Every unit of the pool is then with a client  *)
(* (FullPool): with an outsider, or with a worker other than the refused   *)
(* one, and the executor has no more of those than threads.                *)
(***************************************************************************)
FewAtWork == Cardinality(Working) <= MaxParallel

LEMMA WorkingFinite == IsFiniteSet(Working) /\ Cardinality(Working) \in Nat
<1>1. Working \in SUBSET Task
  BY DEF Working
<1> QED
  BY <1>1, Clients, FS_Subset, FS_CardinalityType

LEMMA ThreadsBounded ==
    ASSUME Filed
    PROVE  /\ Threads \in Nat /\ Threads <= MaxParallel
           /\ \A n \in Nat : n <= MaxParallel /\ n <= Cardinality(batch) => n <= Threads
<1>1. batch \in SUBSET Task
  BY DEF Filed
<1>2. Cardinality(batch) \in Nat
  BY <1>1, Clients, FS_Subset, FS_CardinalityType
<1> QED
  BY <1>2, ManagerAssumption DEF Threads

\* Only Start puts a worker to work, and only while a thread is free.
LEMMA FewStep ==
    IInv /\ Filed /\ FewAtWork /\ [Next]_vars => FewAtWork'
<1> SUFFICES ASSUME IInv, Filed, FewAtWork, [Next]_vars PROVE FewAtWork'
  OBVIOUS
<1>1. stage \in [Task -> Stage] /\ MaxParallel \in Nat
  BY ManagerAssumption DEF IInv
<1>2. ASSUME NEW t \in Task, Start(t) PROVE FewAtWork'
  <2>1. Working' = Working \cup {t}
    BY <1>1, <1>2 DEF Start, Working
  <2>2. Cardinality(Working \cup {t}) <= Cardinality(Working) + 1
    <3>1. Cardinality(Working \cup {t}) = IF t \in Working THEN Cardinality(Working)
                                                           ELSE Cardinality(Working) + 1
      BY WorkingFinite, FS_AddElement
    <3> QED
      BY <3>1, WorkingFinite
  <2>3. Cardinality(Working) < Threads
    BY <1>2 DEF Start
  <2>4. Cardinality(Working \cup {t}) \in Nat
    BY WorkingFinite, FS_AddElement, FS_CardinalityType
  <2> QED
    BY <1>1, <2>1, <2>2, <2>3, <2>4, WorkingFinite, ThreadsBounded DEF FewAtWork
<1>3. CASE Working' \subseteq Working
  <2>1. Cardinality(Working') <= Cardinality(Working) /\ Cardinality(Working') \in Nat
    BY <1>3, WorkingFinite, FS_Subset, FS_CardinalityType
  <2> QED
    BY <1>1, <2>1, WorkingFinite DEF FewAtWork
<1>4. \/ \E t \in Task : Start(t)
      \/ Working' \subseteq Working
  <2>1. CASE UNCHANGED vars
    BY <2>1 DEF vars, workVars, Working
  <2>2. ASSUME NEW t \in Task, WorkerStep(t), ~Start(t) PROVE Working' \subseteq Working
    BY <1>1, <2>2 DEF WorkerStep, Routed, Refused, Finish, GiveBack, Working
  <2>3. ASSUME NEW T \in SUBSET Task, Execute(T) PROVE Working' \subseteq Working
    BY <1>1, <2>3 DEF Execute, Working
  <2>4. CASE MainStep
    <3>1. stage' = stage \/ \E t \in Task : stage' = [stage EXCEPT ![t] = "queued"]
      <4>1. CASE Submit
        <5>1. Head(unsent) \in Task
          BY <4>1, EmptySeq DEF Submit, IInv, ListOf
        <5> QED
          BY <4>1, <5>1 DEF Submit
      <4> QED
        BY <2>4, <4>1 DEF MainStep, Collect, Return, workVars
    <3> QED
      BY <1>1, <3>1 DEF Working
  <2>5. ASSUME NEW p \in Provider, Configure(p) PROVE Working' \subseteq Working
    BY <2>5 DEF Configure, workVars, Working
  <2>6. ASSUME NEW o \in Outsider, OutsiderStep(o) PROVE Working' \subseteq Working
    BY <2>6 DEF OutsiderStep, workVars, Working
  <2> QED
    BY <2>1, <2>2, <2>3, <2>4, <2>5, <2>6 DEF Next
<1> QED
  BY <1>2, <1>3, <1>4

\* The clients that hold a provider while t is refused.
LEMMA HoldersAreFew ==
    ASSUME IInv, Filed, FewAtWork, NEW t \in Task, stage[t] = "routing"
    PROVE  LET O == {o \in Outsider : Holds(o)}
           IN  /\ Cardinality(O) \in Nat
               /\ Cardinality({c \in Client : Holds(c)}) < Threads + Cardinality(O)
<1> DEFINE O == {o \in Outsider : Holds(o)}
           W == Working \ {t}
           H == {c \in Client : Holds(c)}
<1>1. O \in SUBSET Outsider /\ t \in Working
  BY DEF Working
<1>2. H \subseteq W \cup O
  <2>1. \A u \in Task : Holds(u) => stage[u] \in {"running", "releasing"}
    BY DEF IInv, LeaseWhileRunning
  <2> QED
    BY <2>1, ManagerAssumption DEF Working
<1>3. Working \subseteq batch
  BY DEF IInv, Working
<1>4. IsFiniteSet(batch)
  BY Clients, FS_Subset DEF Filed
<1> HIDE DEF O, H
<1>5. Cardinality(W) = Cardinality(Working) - 1 /\ IsFiniteSet(W)
  BY <1>1, WorkingFinite, FS_RemoveElement
<1>6. IsFiniteSet(O) /\ Cardinality(O) \in Nat
  BY <1>1, Clients, FS_Subset, FS_CardinalityType
<1> HIDE DEF W
<1>7. IsFiniteSet(W \cup O) /\ Cardinality(W \cup O) <= Cardinality(W) + Cardinality(O)
  <2>1. W \cap O \in SUBSET W
    OBVIOUS
  <2>2. Cardinality(W) \in Nat /\ Cardinality(W \cap O) \in Nat
    BY <1>5, <2>1, FS_Subset, FS_CardinalityType
  <2>3. /\ IsFiniteSet(W \cup O)
        /\ Cardinality(W \cup O) = Cardinality(W) + Cardinality(O) - Cardinality(W \cap O)
    BY <1>5, <1>6, FS_Union
  <2> QED
    BY <1>6, <2>2, <2>3
<1>8. /\ Cardinality(H) <= Cardinality(W \cup O)
      /\ Cardinality(H) \in Nat /\ Cardinality(W \cup O) \in Nat
  BY <1>2, <1>7, FS_Subset, FS_CardinalityType
<1>9. Cardinality(Working) <= Threads
  <2>1. Cardinality(Working) <= Cardinality(batch)
    BY <1>3, <1>4, FS_Subset
  <2> QED
    BY <2>1, WorkingFinite, ThreadsBounded DEF FewAtWork
<1>10. Cardinality(H) < Threads + Cardinality(O)
  BY <1>5, <1>6, <1>7, <1>8, <1>9, WorkingFinite, ThreadsBounded
<1> QED
  BY <1>6, <1>10 DEF O, H

\* A worker is refused only when the other workers and the outsiders leave no
\* room in the pool's total capacity (_execute_worker's route(), which raises).
THEOREM RefusalsHaveAReason == Spec => RefusedOnlyWhenOversubscribed
<1> DEFINE Reason == \A t \in Task :
                       (outcome'[t] = "refused" /\ outcome[t] # "refused") =>
                          TotalCapacity < Threads + Cardinality({o \in Outsider : Holds(o)})
<1>1. Init => Filed /\ FewAtWork
  <2> SUFFICES ASSUME Init PROVE Filed /\ FewAtWork
    OBVIOUS
  <2>1. Filed
    BY DEF Init, Filed, Ids
  <2>2. Working = {}
    BY DEF Init, Working
  <2> QED
    BY <2>1, <2>2, FS_EmptySet, ManagerAssumption DEF FewAtWork
<1>2. IInv /\ Filed /\ FewAtWork /\ [Next]_vars => (Filed /\ FewAtWork)'
  BY FiledStep, FewStep
<1>3. IInv /\ Filed /\ FewAtWork /\ ConfiguredInv /\ [Next]_vars => [Reason]_vars
  <2> SUFFICES ASSUME IInv, Filed, FewAtWork, ConfiguredInv, Next,
                      NEW t \in Task, outcome'[t] = "refused", outcome[t] # "refused"
               PROVE  TotalCapacity < Threads + Cardinality({o \in Outsider : Holds(o)})
    OBVIOUS
  <2>1. Refused(t)
    <3>1. PICK u \in Task : WorkerStep(u)
      BY DEF Next, MainStep, Configure, Execute, Submit, Collect, Return, OutsiderStep, workVars
    <3>2. Refused(u) /\ t = u
      BY <3>1 DEF WorkerStep, Start, Routed, Refused, Finish, GiveBack, Filed
    <3> QED
      BY <3>2
  <2>2. stage[t] = "routing" /\ \A i \in Index : ~HasCapacity(i)
    BY <2>1 DEF Refused, Refuse
  <2>3. TotalCapacity \in Nat /\ TotalCapacity <= Cardinality({c \in Client : Holds(c)})
    BY <2>2, FullPool DEF ConfiguredInv
  <2>4. /\ Cardinality({o \in Outsider : Holds(o)}) \in Nat
        /\ Cardinality({c \in Client : Holds(c)})
              < Threads + Cardinality({o \in Outsider : Holds(o)})
    BY <2>2, HoldersAreFew
  <2>5. Cardinality({c \in Client : Holds(c)}) \in Nat /\ Threads \in Nat
    BY PoolAssumption, FS_Subset, FS_CardinalityType, ThreadsBounded
  <2> QED
    BY <2>3, <2>4, <2>5
<1>4. Spec => []ConfiguredInv
  BY ManagerUsesConfiguredPool, ConfiguredInvariant, PTL DEF UsesConfiguredPool
<1> QED
  BY <1>1, <1>2, <1>3, <1>4, Invariant, PTL DEF Spec, RefusedOnlyWhenOversubscribed
=============================================================================
