--------------------------- MODULE CircularBuffer ---------------------------
(***************************************************************************)
(* cloud::sync::ThreadSafeCircularBuffer (core/sync_utils.hpp): an array   *)
(* of Size slots with a head, a tail and a count, one mutex, and the two   *)
(* condition variables not_full_ and not_empty_.  push and pop hold the    *)
(* mutex from the wait to the notification, so what follows a wait is one  *)
(* step; a thread that finds its predicate false sleeps.                   *)
(***************************************************************************)
EXTENDS Naturals, Sequences, FiniteSets

CONSTANTS
  Values,     \* what is pushed
  Producers,  \* the threads that push
  Consumers,  \* the threads that pop
  Size,       \* the template parameter
  Nothing     \* an empty slot, an idle producer, a consumer that got nothing yet

ASSUME SizeAssumption == Size \in Nat \ {0}
ASSUME ThreadsAssumption == IsFiniteSet(Producers) /\ IsFiniteSet(Consumers)
ASSUME NothingAssumption == Nothing \notin Values

VARIABLES
  buffer, head, tail, count,  \* buffer_, head_, tail_, count_
  prod, cons,                 \* where each thread is: "idle", in the call, asleep
  item,                       \* the argument of each producer's push
  got                         \* the value the last pop of each consumer returned

ringVars == <<buffer, head, tail, count>>
vars == <<ringVars, prod, cons, item, got>>

PC == {"idle", "run", "wait"}

TypeOK ==
  /\ buffer \in [0..Size - 1 -> Values \cup {Nothing}]
  /\ head \in 0..Size - 1 /\ tail \in 0..Size - 1 /\ count \in 0..Size
  /\ prod \in [Producers -> PC] /\ cons \in [Consumers -> PC]
  /\ item \in [Producers -> Values \cup {Nothing}]
  /\ got \in [Consumers -> Values \cup {Nothing}]

At(pc, state) == {t \in DOMAIN pc : pc[t] = state}

Init ==
  /\ buffer = [i \in 0..Size - 1 |-> Nothing]
  /\ head = 0 /\ tail = 0 /\ count = 0
  /\ prod = [p \in Producers |-> "idle"] /\ cons = [c \in Consumers |-> "idle"]
  /\ item = [p \in Producers |-> Nothing]
  /\ got = [c \in Consumers |-> Nothing]

NextSlot(i) == (i + 1) % Size

\* Mutant: nobody is notified.
NotifyNobody(pc) == {pc}

\* What notify_one() may do to the threads with these program counters.
NotifyOne(pc) ==
  IF At(pc, "wait") = {} THEN {pc} ELSE {[pc EXCEPT ![t] = "run"] : t \in At(pc, "wait")}

\* Mutant: the predicate of not_full_ lets one value too many in.
HasRoomForOneMore == count <= Size

HasRoom == count < Size

CallPush(p, v) ==
  /\ prod[p] = "idle"
  /\ prod' = [prod EXCEPT ![p] = "run"]
  /\ item' = [item EXCEPT ![p] = v]
  /\ UNCHANGED <<ringVars, cons, got>>

Push(p) ==
  /\ prod[p] = "run" /\ HasRoom
  /\ buffer' = [buffer EXCEPT ![head] = item[p]]
  /\ head' = NextSlot(head)
  /\ count' = count + 1
  /\ prod' = [prod EXCEPT ![p] = "idle"]
  /\ item' = [item EXCEPT ![p] = Nothing]
  /\ cons' \in NotifyOne(cons)
  /\ UNCHANGED <<tail, got>>

WaitNotFull(p) ==
  /\ prod[p] = "run" /\ ~HasRoom
  /\ prod' = [prod EXCEPT ![p] = "wait"]
  /\ UNCHANGED <<ringVars, cons, item, got>>

CallPop(c) ==
  /\ cons[c] = "idle"
  /\ cons' = [cons EXCEPT ![c] = "run"]
  /\ UNCHANGED <<ringVars, prod, item, got>>

\* The slot keeps its (moved-from) value until it is overwritten.
Pop(c) ==
  /\ cons[c] = "run" /\ count > 0
  /\ got' = [got EXCEPT ![c] = buffer[tail]]
  /\ tail' = NextSlot(tail)
  /\ count' = count - 1
  /\ cons' = [cons EXCEPT ![c] = "idle"]
  /\ prod' \in NotifyOne(prod)
  /\ UNCHANGED <<buffer, head, item>>

WaitNotEmpty(c) ==
  /\ cons[c] = "run" /\ count = 0
  /\ cons' = [cons EXCEPT ![c] = "wait"]
  /\ UNCHANGED <<ringVars, prod, item, got>>

SpuriousWakeup ==
  /\ \/ \E p \in At(prod, "wait") : prod' = [prod EXCEPT ![p] = "run"] /\ UNCHANGED cons
     \/ \E c \in At(cons, "wait") : cons' = [cons EXCEPT ![c] = "run"] /\ UNCHANGED prod
  /\ UNCHANGED <<ringVars, item, got>>

Producer(p) == Push(p) \/ WaitNotFull(p)
Consumer(c) == Pop(c) \/ WaitNotEmpty(c)

Next == \/ \E p \in Producers : Producer(p) \/ \E v \in Values : CallPush(p, v)
        \/ \E c \in Consumers : Consumer(c) \/ CallPop(c)
        \/ SpuriousWakeup

Spec == Init /\ [][Next]_vars

-----------------------------------------------------------------------------
(* Properties.                                                             *)

\* The ring implements a bounded first-in first-out queue: no value is lost,
\* duplicated or overtaken when the indices wrap around.
Contents == [n \in 1..count |-> buffer[(tail + n - 1) % Size]]

Fifo == INSTANCE BoundedFifo WITH fifo <- Contents

ImplementsBoundedFifo == Fifo!Spec

\* Every free slot has an awake producer, if any producer sleeps, and every
\* value has an awake consumer, if any consumer sleeps: one notify_one per push
\* and per pop is enough although woken threads race with new ones for the mutex.
NoLostSignal ==
  /\ At(prod, "wait") # {} => Cardinality(At(prod, "run")) >= Size - count
  /\ At(cons, "wait") # {} => Cardinality(At(cons, "run")) >= count
=============================================================================
