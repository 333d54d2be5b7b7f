----------------------- MODULE ResourceManagerProofs ------------------------
(***************************************************************************)
(* Proofs about ResourceManager, for any finite set of ids and any types   *)
(* and capacities.                                                         *)
(***************************************************************************)
EXTENDS ResourceManager, FiniteSetTheorems, TLAPS

\* The inductive invariant: the capacity of a pool bounds its index entry, and
\* the entry is exactly the resources of the type as long as the pool was last
\* declared on an unused type.
IInv == TypeOK /\ IndexSound /\ IndexComplete /\ UsageWithinCapacity

\* A set of ids is finite, so its size is a number and one more id adds one.
LEMMA IdSets ==
  ASSUME NEW S \in SUBSET Ids
  PROVE  /\ IsFiniteSet(S)
         /\ Cardinality(S) \in Nat
         /\ \A r \in Ids \ S : Cardinality(S \cup {r}) = Cardinality(S) + 1
         /\ \A T \in SUBSET S : Cardinality(T) <= Cardinality(S)
<1>1. IsFiniteSet(S)
  BY IdsAssumption, FS_Subset
<1>2. Cardinality(S) \in Nat
  BY <1>1, FS_CardinalityType
<1>3. \A r \in Ids \ S : Cardinality(S \cup {r}) = Cardinality(S) + 1
  BY <1>1, FS_AddElement
<1>4. \A T \in SUBSET S : Cardinality(T) <= Cardinality(S)
  BY <1>1, FS_Subset
<1> QED BY <1>1, <1>2, <1>3, <1>4

LEMMA InitIInv == Init => IInv
<1> SUFFICES ASSUME Init PROVE IInv
  OBVIOUS
<1>1. TypeOK
  BY DEF Init, TypeOK
<1>2. IndexSound
  BY DEF Init, IndexSound
<1>3. IndexComplete
  BY TypesAssumption DEF Init, IndexComplete, Live
<1>4. UsageWithinCapacity
  BY DEF Init, UsageWithinCapacity
<1> QED BY <1>1, <1>2, <1>3, <1>4 DEF IInv

\* allocateResource adds a new id to one index entry, after the check.
LEMMA AllocateIInv ==
  ASSUME IInv, NEW r \in Ids, NEW t \in Types, AllocateResource(r, t)
  PROVE  IInv'
<1> USE DEF AllocateResource, IndexWith
<1>1. TypeOK'
  BY DEF IInv, TypeOK
<1>2. IndexSound'
  BY TypesAssumption DEF IInv, TypeOK, IndexSound
<1>3. IndexComplete'
  BY DEF IInv, TypeOK, IndexComplete, Live
<1>4. UsageWithinCapacity'
  <2> SUFFICES ASSUME NEW s \in Types, pools[s] # NoPool
               PROVE  Cardinality(index'[s]) <= pools[s]
    BY DEF UsageWithinCapacity
  <2>1. CASE s = t
    <3>1. r \notin index[t]
      BY TypesAssumption DEF IInv, IndexSound
    <3>2. index'[t] = index[t] \cup {r} /\ index[t] \in SUBSET Ids
      BY DEF IInv, TypeOK
    <3>3. Cardinality(index'[t]) = Cardinality(index[t]) + 1 /\ Cardinality(index[t]) \in Nat
      BY <3>1, <3>2, IdSets
    <3>4. pools[t] \in Nat
      BY <2>1, CapacitiesAssumption DEF IInv, TypeOK
    <3> QED BY <2>1, <3>3, <3>4 DEF HasRoom
  <2>2. CASE s # t
    BY <2>2 DEF IInv, TypeOK, UsageWithinCapacity
  <2> QED BY <2>1, <2>2
<1> QED BY <1>1, <1>2, <1>3, <1>4 DEF IInv

\* releaseResource takes the id out of the map and out of its own entry.
LEMMA ReleaseIInv ==
  ASSUME IInv, NEW r \in Ids, ReleaseResource(r)
  PROVE  IInv'
<1> USE DEF ReleaseResource, IndexWithout
<1>1. TypeOK'
  BY DEF IInv, TypeOK
<1>2. IndexSound'
  BY DEF IInv, TypeOK, IndexSound
<1>3. IndexComplete'
  BY TypesAssumption DEF IInv, TypeOK, IndexComplete, Live
<1>4. UsageWithinCapacity'
  <2> SUFFICES ASSUME NEW s \in Types, pools[s] # NoPool
               PROVE  Cardinality(index'[s]) <= pools[s]
    BY DEF UsageWithinCapacity
  <2>1. index'[s] \subseteq index[s] /\ index[s] \in SUBSET Ids
    BY DEF IInv, TypeOK
  <2>2. Cardinality(index'[s]) \in Nat /\ Cardinality(index[s]) \in Nat
        /\ Cardinality(index'[s]) <= Cardinality(index[s])
    BY <2>1, IdSets
  <2>3. pools[s] \in Nat /\ Cardinality(index[s]) <= pools[s]
    BY CapacitiesAssumption DEF IInv, TypeOK, UsageWithinCapacity
  <2> QED BY <2>2, <2>3
<1> QED BY <1>1, <1>2, <1>3, <1>4 DEF IInv

\* addResourcePool empties one entry; the type becomes disturbed if that
\* forgets resources.
LEMMA AddPoolIInv ==
  ASSUME IInv, NEW t \in Types, NEW capacity \in Capacities, AddResourcePool(t, capacity)
  PROVE  IInv'
<1> USE DEF AddResourcePool
<1>1. TypeOK'
  BY DEF IInv, TypeOK
<1>2. IndexSound'
  BY DEF IInv, TypeOK, IndexSound
<1>3. IndexComplete'
  BY DEF IInv, TypeOK, IndexComplete, Live
<1>4. UsageWithinCapacity'
  <2> SUFFICES ASSUME NEW s \in Types, pools'[s] # NoPool
               PROVE  Cardinality(index'[s]) <= pools'[s]
    BY DEF UsageWithinCapacity
  <2>1. CASE s = t
    <3>1. index'[s] = {} /\ pools'[s] = capacity
      BY <2>1 DEF IInv, TypeOK
    <3> QED BY <3>1, FS_EmptySet, CapacitiesAssumption
  <2>2. CASE s # t
    BY <2>2 DEF IInv, TypeOK, UsageWithinCapacity
  <2> QED BY <2>1, <2>2
<1> QED BY <1>1, <1>2, <1>3, <1>4 DEF IInv

\* removeResourcePool frees the entry's resources, which are of that type only.
LEMMA RemovePoolIInv ==
  ASSUME IInv, NEW t \in Types, RemoveResourcePool(t)
  PROVE  IInv'
<1> USE DEF RemoveResourcePool, FreedByPool
<1>1. TypeOK'
  BY DEF IInv, TypeOK
<1>2. IndexSound'
  BY DEF IInv, TypeOK, IndexSound
<1>3. IndexComplete'
  BY TypesAssumption DEF IInv, TypeOK, IndexComplete, IndexSound, Live
<1>4. UsageWithinCapacity'
  BY DEF IInv, TypeOK, UsageWithinCapacity
<1> QED BY <1>1, <1>2, <1>3, <1>4 DEF IInv

THEOREM InvariantHolds == Spec => []IInv
<1>1. IInv /\ [Next]_vars => IInv'
  <2> SUFFICES ASSUME IInv, [Next]_vars PROVE IInv'
    OBVIOUS
  <2>1. ASSUME NEW r \in Ids, NEW t \in Types, AllocateResource(r, t) PROVE IInv'
    BY <2>1, AllocateIInv
  <2>2. ASSUME NEW r \in Ids, ReleaseResource(r) PROVE IInv'
    BY <2>2, ReleaseIInv
  <2>3. ASSUME NEW t \in Types, NEW capacity \in Capacities, AddResourcePool(t, capacity)
        PROVE  IInv'
    BY <2>3, AddPoolIInv
  <2>4. ASSUME NEW t \in Types, RemoveResourcePool(t) PROVE IInv'
    BY <2>4, RemovePoolIInv
  <2>5. CASE UNCHANGED vars
    BY <2>5 DEF vars, IInv, TypeOK, IndexSound, IndexComplete, UsageWithinCapacity, Live
  <2> QED BY <2>1, <2>2, <2>3, <2>4, <2>5 DEF Next
<1> QED BY InitIInv, <1>1, PTL DEF Spec

\* The map, the index and the pools keep their types.
THEOREM TypesHold == Spec => []TypeOK
<1>1. IInv => TypeOK
  BY DEF IInv
<1> QED BY InvariantHolds, <1>1, PTL

\* The index lists neither an id that was freed nor one of another type.
THEOREM IndexLists == Spec => []IndexSound
<1>1. IInv => IndexSound
  BY DEF IInv
<1> QED BY InvariantHolds, <1>1, PTL

\* The index misses a resource only after addResourcePool on a type in use.
THEOREM IndexMissesNothing == Spec => []IndexComplete
<1>1. IInv => IndexComplete
  BY DEF IInv
<1> QED BY InvariantHolds, <1>1, PTL

\* What allocateResource believes to be in use fits every pool.
THEOREM UsageBounded == Spec => []UsageWithinCapacity
<1>1. IInv => UsageWithinCapacity
  BY DEF IInv
<1> QED BY InvariantHolds, <1>1, PTL

\* What is really in use fits every pool declared on an unused type, since
\* there the index entry contains every resource of the type.
THEOREM CapacityRespected == Spec => []CapacityHolds
<1>1. IInv => CapacityHolds
  <2> SUFFICES ASSUME IInv, NEW t \in Types \ disturbed, pools[t] # NoPool
               PROVE  Cardinality(Live(t)) <= pools[t]
    BY DEF CapacityHolds
  <2>1. Live(t) \subseteq index[t] /\ index[t] \in SUBSET Ids
    BY DEF IInv, IndexComplete, TypeOK
  <2>2. Cardinality(Live(t)) \in Nat /\ Cardinality(index[t]) \in Nat
        /\ Cardinality(Live(t)) <= Cardinality(index[t])
    BY <2>1, IdSets
  <2>3. pools[t] \in Nat /\ Cardinality(index[t]) <= pools[t]
    BY CapacitiesAssumption DEF IInv, TypeOK, UsageWithinCapacity
  <2> QED BY <2>2, <2>3
<1> QED BY InvariantHolds, <1>1, PTL

\* No operation touches the resources of two types.
THEOREM OneTypeTouched == Spec => OneTypeAtATime
<1>1. IInv /\ [Next]_vars =>
        [\A s, t \in Types : (Live(s)' # Live(s) /\ Live(t)' # Live(t)) => s = t]_vars
  <2> SUFFICES ASSUME IInv, Next, NEW s \in Types, NEW t \in Types,
                      Live(s)' # Live(s), Live(t)' # Live(t)
               PROVE  s = t
    OBVIOUS
  <2>1. ASSUME NEW r \in Ids, NEW u \in Types, AllocateResource(r, u) PROVE s = t
    BY <2>1, TypesAssumption DEF AllocateResource, Live, IInv, TypeOK
  <2>2. ASSUME NEW r \in Ids, ReleaseResource(r) PROVE s = t
    BY <2>2, TypesAssumption DEF ReleaseResource, Live, IInv, TypeOK
  <2>3. ASSUME NEW u \in Types, NEW capacity \in Capacities, AddResourcePool(u, capacity)
        PROVE  s = t
    BY <2>3 DEF AddResourcePool, Live
  <2>4. ASSUME NEW u \in Types, RemoveResourcePool(u) PROVE s = t
    BY <2>4, TypesAssumption DEF RemoveResourcePool, FreedByPool, Live, IInv, TypeOK, IndexSound
  <2> QED BY <2>1, <2>2, <2>3, <2>4 DEF Next
<1> QED BY InvariantHolds, <1>1, PTL DEF Spec, OneTypeAtATime
=============================================================================
