-------------------------- MODULE ResourceManager ---------------------------
(***************************************************************************)
(* cloud::ResourceManager (core/resource_manager.cpp): three maps under    *)
(* one mutex that have to agree: the resources, the capacity of each pool, *)
(* and the index from a type to the resources of that type, whose sizes    *)
(* the capacity check uses.  Each operation is one critical section.       *)
(*                                                                         *)
(* Every resource in the map is "allocated" (no operation gives it another *)
(* status), so cleanupUnusedResources, which spares allocated resources,   *)
(* changes nothing and is left out; so are the counters of metrics_.       *)
(***************************************************************************)
EXTENDS Naturals, FiniteSets

CONSTANTS
  Ids,         \* resource ids: random, so an id in use is never drawn again
  Types,       \* valid resource types
  Capacities,  \* the capacities given to addResourcePool
  NoType,      \* the id names no resource
  NoPool       \* the type has no pool

ASSUME IdsAssumption == IsFiniteSet(Ids)
ASSUME TypesAssumption == NoType \notin Types
ASSUME CapacitiesAssumption == Capacities \subseteq Nat /\ NoPool \notin Capacities

VARIABLES
  resources,  \* resources_, by the type of each resource
  pools,      \* resource_pools_
  index,      \* type_to_resources_ (no entry and an empty set are alike)
  disturbed   \* history: types whose pool was last declared while they had resources

vars == <<resources, pools, index, disturbed>>

TypeOK ==
  /\ resources \in [Ids -> Types \cup {NoType}]
  /\ pools \in [Types -> Capacities \cup {NoPool}]
  /\ index \in [Types -> SUBSET Ids]
  /\ disturbed \subseteq Types

\* The resources of a type.
Live(t) == {r \in Ids : resources[r] = t}

Init ==
  /\ resources = [r \in Ids |-> NoType]
  /\ pools = [t \in Types |-> NoPool]
  /\ index = [t \in Types |-> {}]
  /\ disturbed = {}

-----------------------------------------------------------------------------
\* Mutant: the pool may hold one resource too many.
HasRoomForOneMore(t) == pools[t] # NoPool => Cardinality(index[t]) <= pools[t]

\* The check of allocateResource: a type without a pool is unlimited.
HasRoom(t) == pools[t] # NoPool => Cardinality(index[t]) < pools[t]

\* Mutant: the index is not told of the new resource.
IndexUntold(r, t) == index

IndexWith(r, t) == [index EXCEPT ![t] = @ \cup {r}]

AllocateResource(r, t) ==
  /\ resources[r] = NoType
  /\ HasRoom(t)
  /\ resources' = [resources EXCEPT ![r] = t]
  /\ index' = IndexWith(r, t)
  /\ UNCHANGED <<pools, disturbed>>

\* Mutant: the released resource is left in the index.
IndexKept(r) == index

IndexWithout(r) == [index EXCEPT ![resources[r]] = @ \ {r}]

ReleaseResource(r) ==
  /\ resources[r] # NoType
  /\ index' = IndexWithout(r)
  /\ resources' = [resources EXCEPT ![r] = NoType]
  /\ UNCHANGED <<pools, disturbed>>

\* addResourcePool replaces the index entry by an empty set, whatever it held.
AddResourcePool(t, capacity) ==
  /\ pools' = [pools EXCEPT ![t] = capacity]
  /\ index' = [index EXCEPT ![t] = {}]
  /\ disturbed' = IF Live(t) # {} THEN disturbed \cup {t} ELSE disturbed \ {t}
  /\ UNCHANGED resources

\* removeResourcePool frees what the index lists.
FreedByPool(t) == [r \in Ids |-> IF r \in index[t] THEN NoType ELSE resources[r]]

RemoveResourcePool(t) ==
  /\ resources' = FreedByPool(t)
  /\ pools' = [pools EXCEPT ![t] = NoPool]
  /\ index' = [index EXCEPT ![t] = {}]
  /\ UNCHANGED disturbed

Next == \/ \E r \in Ids, t \in Types : AllocateResource(r, t)
        \/ \E r \in Ids : ReleaseResource(r)
        \/ \E t \in Types, capacity \in Capacities : AddResourcePool(t, capacity)
        \/ \E t \in Types : RemoveResourcePool(t)

Spec == Init /\ [][Next]_vars

-----------------------------------------------------------------------------
(* Properties.                                                             *)

\* The index lists only resources that exist and have that type: no order of
\* releases, pool declarations and removals leaves a stale id that would later
\* count against a pool or free somebody else's resource.
IndexSound == \A t \in Types : \A r \in index[t] : resources[r] = t

\* The index misses a resource only of a type whose pool was last declared while
\* the type had resources: addResourcePool forgets them.
IndexComplete == \A t \in Types \ disturbed : Live(t) \subseteq index[t]

\* A pool never holds more than its capacity, provided it was last declared while
\* its type was unused (addResourcePool neither checks nor keeps what is in use).
CapacityHolds ==
  \A t \in Types \ disturbed : pools[t] # NoPool => Cardinality(Live(t)) <= pools[t]

\* The capacity check itself is never behind: the indexed resources fit the pool
\* even after the pool was declared anew with a smaller capacity.
UsageWithinCapacity == \A t \in Types : pools[t] # NoPool => Cardinality(index[t]) <= pools[t]

\* An operation on one type leaves the resources of the other types alone.
OneTypeAtATime ==
  [][\A s, t \in Types : (Live(s)' # Live(s) /\ Live(t)' # Live(t)) => s = t]_vars

\* removeResourcePool frees all resources of the type ("we free all resources
\* of the given type", resource_manager.cpp).
RemoveFreesAll ==
  [][\A t \in Types : (pools[t] # NoPool /\ pools'[t] = NoPool) => Live(t)' = {}]_vars
=============================================================================
