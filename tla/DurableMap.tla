----------------------------- MODULE DurableMap -----------------------------
(***************************************************************************)
(* What DataStorage promises about the survival of its items: a map in     *)
(* memory and the map a restart would find.  It says when the two agree    *)
(* and by which events they part; DataStorage implements it with a log.    *)
(***************************************************************************)
CONSTANTS Ids, Items, Absent  \* Absent is no item

VARIABLES
  up,        \* the storage object exists
  mem, disk, \* the map in memory, the map a restart finds
  writable,  \* the storage file can be opened for writing
  poisoned   \* a crash tore a record: nothing written later can be found

vars == <<up, mem, disk, writable, poisoned>>

Map   == [Ids -> Items \cup {Absent}]
Empty == [i \in Ids |-> Absent]

Init == up = FALSE /\ mem = Empty /\ disk = Empty /\ writable = TRUE /\ poisoned = FALSE

\* Every change of an item is durable when the call returns.
Write(i, v) ==
  /\ up
  /\ mem' = [mem EXCEPT ![i] = v]
  /\ disk' = IF writable /\ ~poisoned THEN [disk EXCEPT ![i] = v] ELSE disk
  /\ UNCHANGED <<up, writable, poisoned>>

\* Deletion is not durable: a restart brings the items back.
Forget(S) ==
  /\ up
  /\ mem' = [i \in Ids |-> IF i \in S THEN Absent ELSE mem[i]]
  /\ UNCHANGED <<up, disk, writable, poisoned>>

\* Compaction first rewrites the items in memory, then loses everything.
Flush ==
  /\ up /\ writable
  /\ disk' = IF poisoned THEN disk
             ELSE [i \in Ids |-> IF mem[i] = Absent THEN disk[i] ELSE mem[i]]
  /\ UNCHANGED <<up, mem, writable, poisoned>>

Wipe ==
  /\ up /\ writable
  /\ disk' = Empty /\ poisoned' = FALSE
  /\ \/ UNCHANGED <<up, mem>>
     \/ up' = FALSE /\ mem' = Empty
  /\ UNCHANGED writable

\* The process ends, by a crash or by an exit that could not compact.
Crash ==
  /\ up /\ up' = FALSE /\ mem' = Empty
  /\ poisoned' \in {poisoned, writable}
  /\ poisoned => poisoned'
  /\ UNCHANGED <<disk, writable>>

\* A restart finds the map on disk; behind a torn record it may also misread
\* one item.
Restart ==
  /\ ~up /\ up' = TRUE
  /\ \/ mem' = disk
     \/ poisoned /\ \E i \in Ids, v \in Items : mem' = [disk EXCEPT ![i] = v]
  /\ UNCHANGED <<disk, writable, poisoned>>

Environment == writable' = ~writable /\ UNCHANGED <<up, mem, disk, poisoned>>

Next == \/ \E i \in Ids, v \in Items : Write(i, v)
        \/ \E S \in SUBSET Ids : Forget(S)
        \/ Flush \/ Wipe \/ Crash \/ Restart \/ Environment

Spec == Init /\ [][Next]_vars
=============================================================================
