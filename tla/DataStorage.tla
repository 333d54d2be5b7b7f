---------------------------- MODULE DataStorage -----------------------------
(***************************************************************************)
(* cloud::DataStorage (core/data_storage.cpp): items in memory, persisted  *)
(* as an append-only file of records that the constructor replays and the  *)
(* destructor "compacts".  Every operation holds storage_mutex_, so an     *)
(* operation is one step; a crash of the process may hit it in the middle  *)
(* of a record (a record longer than the stream buffer is several writes). *)
(*                                                                         *)
(* An item is abstracted to the size of its data and its metadata keys.    *)
(* The file is `log', the records before the first torn one; the torn      *)
(* record; and whether anything was appended behind it.                    *)
(***************************************************************************)
EXTENDS Naturals, Sequences, FiniteSets, FiniteSetsExt

CONSTANTS
  Ids,         \* the ids generateItemId can return
  Keys,        \* metadata keys
  Sizes,       \* sizes of the data clients store
  MaxStorage,  \* max_storage_size_
  MaxRecords,  \* bound: the log is at most this long before an operation
  Absent,      \* no item
  NoRecord     \* no torn record

ASSUME SizesAssumption == Sizes \subseteq Nat /\ MaxStorage \in Nat

Items   == [size : Sizes, meta : SUBSET Keys]
Records == [id : Ids, item : Items]

ASSUME SentinelAssumption == Absent \notin Items /\ NoRecord \notin Records

VARIABLES
  pc,                     \* "down", "up", or between the two halves of compactStorage
  items,                  \* data_items_
  totalItems, totalSize,  \* metrics_
  log, torn, after,       \* the storage file
  writable                \* environment: the file can be opened for writing

memVars  == <<items, totalItems, totalSize>>
fileVars == <<log, torn, after>>
vars == <<pc, memVars, fileVars, writable>>

NoItems == [i \in Ids |-> Absent]
Stored  == {i \in Ids : items[i] # Absent}

\* The ids generateItemId may return: random, so never one still in use.
OnFile == {log[n].id : n \in 1..Len(log)} \cup {r.id : r \in {torn} \ {NoRecord}}
Fresh  == Ids \ (Stored \cup OnFile)

TypeOK ==
  /\ pc \in {"down", "up", "compact", "close"}
  /\ items \in [Ids -> Items \cup {Absent}]
  /\ totalItems \in Int /\ totalSize \in Int
  /\ log \in Seq(Records) /\ torn \in Records \cup {NoRecord} /\ after \in BOOLEAN
  /\ writable \in BOOLEAN

Init ==
  /\ pc = "down"
  /\ items = NoItems /\ totalItems = 0 /\ totalSize = 0
  /\ log = <<>> /\ torn = NoRecord /\ after = FALSE
  /\ writable = TRUE

-----------------------------------------------------------------------------
(* The file.                                                               *)

\* persistData appends; a file that cannot be opened is only logged.
PersistAll(records) ==
  /\ log' = IF writable /\ torn = NoRecord THEN log \o records ELSE log
  /\ after' = (after \/ (writable /\ torn # NoRecord /\ records # <<>>))
  /\ UNCHANGED torn

\* Mutant: the record is written from the map before the item is put there.
PersistBefore(i, item) == PersistAll(<<[id |-> i, item |-> items[i]]>>)

Persist(i, item) == PersistAll(<<[id |-> i, item |-> item]>>)

\* Mutant: an earlier record of an item hides the later ones.
ReplayFirst(records) ==
  [i \in Ids |->
     LET of == {n \in 1..Len(records) : records[n].id = i}
     IN  IF of = {} THEN Absent ELSE records[Min(of)].item]

\* loadDataFromStorage: a later record of an item replaces an earlier one.
Replay(records) ==
  [i \in Ids |->
     LET of == {n \in 1..Len(records) : records[n].id = i}
     IN  IF of = {} THEN Absent ELSE records[Max(of)].item]

\* What a record cut short can be read as.  At the end of the file: nothing,
\* or, when the cut is inside the metadata, an item with part of it.  With
\* records behind it: nothing, or an item made of bytes of what follows.
\* (Reading a wrong length may also throw, and the storage stays down.)
Misread ==
  IF torn = NoRecord THEN {}
  ELSE IF after THEN [id : {torn.id}, item : Items]
  ELSE [id : {torn.id}, item : [size : {torn.item.size}, meta : SUBSET torn.item.meta]]

Load(records) ==
  /\ items' = Replay(records)
  /\ totalItems' = Len(records)
  /\ totalSize' = SumFunction([n \in 1..Len(records) |-> records[n].item.size])

Restart ==
  /\ pc = "down"
  /\ pc' = "up"
  /\ \/ Load(log)
     \/ \E r \in Misread : Load(Append(log, r))
  /\ UNCHANGED <<fileVars, writable>>

\* The process dies: between operations, before the record of the running one
\* is written, or in the middle of it (compactStorage included).
Crash ==
  /\ pc # "down"
  /\ pc' = "down"
  /\ items' = NoItems /\ totalItems' = 0 /\ totalSize' = 0
  /\ \/ UNCHANGED fileVars
     \/ /\ writable /\ torn = NoRecord /\ Len(log) < MaxRecords
        /\ torn' \in {r \in Records : r.id \in Stored \cup Fresh}
        /\ UNCHANGED <<log, after>>
  /\ UNCHANGED writable

ChangeWritable ==
  /\ pc \in {"up", "down"}
  /\ writable' = ~writable
  /\ UNCHANGED <<pc, memVars, fileVars>>

-----------------------------------------------------------------------------
(* Operations.                                                             *)

MayPersist == pc = "up" /\ Len(log) < MaxRecords

\* validateData and the capacity check of storeData.
Fits(size) == size > 0 /\ size <= MaxStorage /\ totalSize + size <= MaxStorage

StoreData(i, item) ==
  /\ MayPersist /\ i \in Fresh /\ Fits(item.size)
  /\ items' = [items EXCEPT ![i] = item]
  /\ totalItems' = totalItems + 1
  /\ totalSize' = totalSize + item.size
  /\ Persist(i, item)
  /\ UNCHANGED <<pc, writable>>

\* Mutant: the old size is subtracted twice.
ResizedTwice(i, size) == totalSize - 2 * items[i].size + size

Resized(i, size) == totalSize - items[i].size + size

UpdateData(i, size) ==
  /\ MayPersist /\ items[i] # Absent /\ size > 0 /\ size <= MaxStorage
  /\ items' = [items EXCEPT ![i].size = size]
  /\ totalSize' = Resized(i, size)
  /\ Persist(i, items'[i])
  /\ UNCHANGED <<pc, totalItems, writable>>

\* deleteData and cleanupOldData write nothing to the file.
Erase(S) ==
  /\ pc = "up" /\ S # {} /\ S \subseteq Stored
  /\ items' = [i \in Ids |-> IF i \in S THEN Absent ELSE items[i]]
  /\ totalItems' = totalItems - Cardinality(S)
  /\ totalSize' = totalSize - SumFunction([i \in S |-> items[i].size])
  /\ UNCHANGED <<pc, fileVars, writable>>

DeleteData(i) == Erase({i})

CleanupOldData(old) == Erase(old)

SetMetadata(i, meta) ==
  /\ MayPersist /\ items[i] # Absent
  /\ items' = [items EXCEPT ![i].meta = meta]
  /\ Persist(i, items'[i])
  /\ UNCHANGED <<pc, totalItems, totalSize, writable>>

AddMetadata(i, k) == SetMetadata(i, items[i].meta \cup {k})

RemoveMetadata(i, k) == k \in items[i].meta /\ SetMetadata(i, items[i].meta \ {k})

\* compactStorage, first half: the temporary file is created, and every item
\* goes through persistData, that is to the end of the storage file.  next is
\* "compact" for a call and "close" for the destructor.
CompactWrite(next) ==
  /\ pc = "up" /\ writable /\ Len(log) <= MaxRecords
  /\ pc' = next
  /\ \E order \in [1..Cardinality(Stored) -> Stored] :
       /\ \A i \in Stored : \E n \in DOMAIN order : order[n] = i
       /\ PersistAll([n \in DOMAIN order |-> [id |-> order[n], item |-> items[order[n]]]])
  /\ UNCHANGED <<memVars, writable>>

\* Second half: the storage file is removed and the empty temporary file
\* takes its name.  In the destructor the object is then gone.
CompactReplace ==
  /\ pc \in {"compact", "close"}
  /\ log' = <<>> /\ torn' = NoRecord /\ after' = FALSE
  /\ IF pc = "compact"
       THEN pc' = "up" /\ UNCHANGED memVars
       ELSE pc' = "down" /\ items' = NoItems /\ totalItems' = 0 /\ totalSize' = 0
  /\ UNCHANGED writable

\* The destructor when the temporary file cannot be created.
CloseUnwritable ==
  /\ pc = "up" /\ ~writable
  /\ pc' = "down" /\ items' = NoItems /\ totalItems' = 0 /\ totalSize' = 0
  /\ UNCHANGED <<fileVars, writable>>

-----------------------------------------------------------------------------
Next == \/ \E i \in Ids, item \in Items : StoreData(i, item)
        \/ \E i \in Ids, size \in Sizes : UpdateData(i, size)
        \/ \E i \in Ids : DeleteData(i)
        \/ \E S \in SUBSET Ids : CleanupOldData(S)
        \/ \E i \in Stored, k \in Keys : AddMetadata(i, k) \/ RemoveMetadata(i, k)
        \/ \E next \in {"compact", "close"} : CompactWrite(next)
        \/ CompactReplace \/ CloseUnwritable
        \/ Restart \/ Crash \/ ChangeWritable

Spec == Init /\ [][Next]_vars

-----------------------------------------------------------------------------
(* Properties.                                                             *)

SizeStored == SumFunction([i \in Stored |-> items[i].size])

\* The counters may count an item several times after a reload (once per
\* record) but never miss one, so the unsigned subtractions of updateData,
\* deleteData and cleanupOldData never wrap around.
CountersNeverUnder == totalItems >= Cardinality(Stored) /\ totalSize >= SizeStored

\* The log implements the durable map: every change of an item survives a crash
\* unless the file was unwritable or torn, deletions do not survive, and
\* compaction loses everything.
Durable == INSTANCE DurableMap WITH
  up <- pc # "down", mem <- items, disk <- Replay(log), poisoned <- torn # NoRecord

ImplementsDurableMap == Durable!Spec

\* compactStorage keeps the data: "we write all data to the temporary file" and
\* "we replace the old file by the new one" (data_storage.cpp).
CompactKeepsData ==
  [][(pc \in {"compact", "close"} /\ log' # log)
       => (\A i \in Stored : Replay(log')[i] = items[i])]_vars
=============================================================================
