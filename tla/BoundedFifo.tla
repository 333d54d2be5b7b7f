----------------------------- MODULE BoundedFifo ----------------------------
(***************************************************************************)
(* What a bounded blocking buffer promises: a first-in first-out queue of  *)
(* at most Size values, shared by producers and consumers.                 *)
(***************************************************************************)
EXTENDS Naturals, Sequences

CONSTANTS Values, Consumers, Size, Nothing

VARIABLES
  fifo,  \* the values in the buffer, oldest first
  got    \* the value the last pop of each consumer returned

Init == fifo = <<>> /\ got = [c \in Consumers |-> Nothing]

Put(v) ==
  /\ Len(fifo) < Size
  /\ fifo' = Append(fifo, v)
  /\ UNCHANGED got

Get(c) ==
  /\ fifo # <<>>
  /\ got' = [got EXCEPT ![c] = Head(fifo)]
  /\ fifo' = Tail(fifo)

Next == (\E v \in Values : Put(v)) \/ (\E c \in Consumers : Get(c))

Spec == Init /\ [][Next]_<<fifo, got>>
=============================================================================
