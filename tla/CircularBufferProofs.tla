------------------------ MODULE CircularBufferProofs ------------------------
(***************************************************************************)
(* For every size and any number of producers and consumers: the ring      *)
(* implements the bounded queue, and one notification per operation is     *)
(* enough.                                                                 *)
(***************************************************************************)
EXTENDS CircularBuffer, FiniteSetTheorems, SequenceTheorems, TLAPS

\* The head is where the next value goes: count slots after the tail.
RingInv == head = (tail + count) % Size

\* The slots in use hold values, and a producer in push holds one.
ValuesInv ==
  /\ \A n \in 1..count : buffer[(tail + n - 1) % Size] \in Values
  /\ \A p \in Producers : prod[p] # "idle" => item[p] \in Values

IInv == TypeOK /\ RingInv /\ ValuesInv

USE SizeAssumption, NothingAssumption

-----------------------------------------------------------------------------
(* Indices modulo Size.                                                    *)

LEMMA ModSmall == ASSUME NEW x \in 0..Size - 1 PROVE x % Size = x
  BY SMT

LEMMA ModOnce == ASSUME NEW x \in Nat, x >= Size, x < Size + Size PROVE x % Size = x - Size
  BY SMT

\* The slots of a full turn of the ring differ.
LEMMA SlotsDiffer ==
  ASSUME NEW t \in 0..Size - 1, NEW m \in 0..Size - 1, NEW n \in 0..Size - 1, m # n
  PROVE  (t + m) % Size # (t + n) % Size
<1>1. \A k \in 0..Size - 1 :
        (t + k) % Size = IF t + k < Size THEN t + k ELSE t + k - Size
  BY ModSmall, ModOnce
<1>2. QED  BY <1>1

LEMMA SlotInRange ==
  ASSUME NEW t \in 0..Size - 1, NEW n \in 0..Size
  PROVE  (t + n) % Size \in 0..Size - 1
<1>1. CASE t + n < Size
  BY <1>1, ModSmall
<1>2. CASE t + n >= Size
  BY <1>2, ModOnce
<1>3. QED  BY <1>1, <1>2

\* One slot further on commutes with counting from the tail.
LEMMA SlotAfter ==
  ASSUME NEW t \in 0..Size - 1, NEW n \in 0..Size - 1
  PROVE  /\ (((t + n) % Size) + 1) % Size = (t + n + 1) % Size
         /\ (((t + 1) % Size) + n) % Size = (t + n + 1) % Size
<1>1. CASE t + n + 1 < Size
  BY <1>1, ModSmall
<1>2. CASE t + n + 1 = Size
  <2>1. (t + n) % Size = Size - 1 /\ (t + n + 1) % Size = 0
    BY <1>2, ModSmall, ModOnce
  <2>2. Size % Size = 0
    BY ModOnce
  <2>3. (((t + 1) % Size) + n) % Size = 0
    <3>1. CASE t + 1 < Size
      BY <3>1, <1>2, <2>2, ModSmall
    <3>2. CASE t + 1 = Size
      BY <3>2, <1>2, <2>2, ModSmall
    <3>3. QED  BY <3>1, <3>2
  <2>4. QED  BY <2>1, <2>2, <2>3
<1>3. CASE t + n + 1 > Size
  <2>1. (t + n) % Size = t + n - Size /\ (t + n + 1) % Size = t + n + 1 - Size
    BY <1>3, ModOnce
  <2>2. (((t + n) % Size) + 1) % Size = t + n + 1 - Size
    BY <2>1, <1>3, ModSmall
  <2>3. (((t + 1) % Size) + n) % Size = t + n + 1 - Size
    <3>1. CASE t + 1 < Size
      BY <3>1, <1>3, ModSmall, ModOnce
    <3>2. CASE t + 1 = Size
      <4>1. (t + 1) % Size = 0
        BY <3>2, ModOnce
      <4>2. QED  BY <4>1, <3>2, ModSmall
    <3>3. QED  BY <3>1, <3>2
  <2>4. QED  BY <2>1, <2>2, <2>3
<1>4. QED  BY <1>1, <1>2, <1>3

-----------------------------------------------------------------------------
(* The inductive invariant.                                                *)

LEMMA InitIInv == Init => IInv
<1>1. (0 + 0) % Size = 0
  BY ModSmall
<1>2. QED  BY <1>1 DEF Init, IInv, TypeOK, RingInv, ValuesInv, PC

\* Whatever thread a notification wakes, the program counters keep their type.
LEMMA NotifyType ==
  ASSUME NEW S, NEW pc \in [S -> PC], NEW next \in NotifyOne(pc)
  PROVE  /\ next \in [S -> PC]
         /\ \A t \in S : next[t] = "idle" <=> pc[t] = "idle"
  BY DEF NotifyOne, At, PC

\* push writes the slot behind the last value.
LEMMA PushRing ==
  ASSUME IInv, NEW p \in Producers, Push(p)
  PROVE  /\ \A n \in 1..count : buffer'[(tail + n - 1) % Size] = buffer[(tail + n - 1) % Size]
         /\ buffer'[(tail + count) % Size] = item[p]
         /\ IInv'
<1> USE DEF IInv, TypeOK
<1>1. count \in 0..Size - 1 /\ tail' = tail /\ count' = count + 1
  BY DEF Push, HasRoom
<1>2. head' = (tail + count + 1) % Size
  BY <1>1, SlotAfter DEF Push, NextSlot, RingInv
<1>3. buffer' = [buffer EXCEPT ![(tail + count) % Size] = item[p]]
  BY DEF Push, RingInv
<1>4. \A n \in 1..count : /\ n - 1 \in 0..Size - 1
                          /\ tail + (n - 1) = tail + n - 1
                          /\ (tail + n - 1) % Size \in 0..Size - 1
                          /\ (tail + n - 1) % Size # (tail + count) % Size
  <2>1. TAKE n \in 1..count
  <2>2. n - 1 \in 0..Size - 1 /\ n - 1 # count /\ tail + (n - 1) = tail + n - 1
    BY <1>1
  <2>3. (tail + (n - 1)) % Size # (tail + count) % Size
    BY <1>1, <2>2, SlotsDiffer
  <2>4. (tail + (n - 1)) % Size \in 0..Size - 1
    BY <2>2, SlotInRange
  <2>5. QED  BY <2>2, <2>3, <2>4
<1>5. (tail + count) % Size \in 0..Size - 1
  BY <1>1, SlotInRange
<1>6. \A n \in 1..count : buffer'[(tail + n - 1) % Size] = buffer[(tail + n - 1) % Size]
  BY <1>3, <1>4
<1>7. buffer'[(tail + count) % Size] = item[p]
  BY <1>3, <1>5
<1>8. item[p] \in Values
  BY DEF Push, ValuesInv
<1>9. TypeOK'
  <2>1. head' \in 0..Size - 1
    BY <1>1, <1>2, SlotInRange
  <2>2. prod' \in [Producers -> PC] /\ cons' \in [Consumers -> PC]
    BY NotifyType DEF Push, PC
  <2>3. buffer' \in [0..Size - 1 -> Values \cup {Nothing}]
    BY <1>3, <1>8
  <2>4. item' \in [Producers -> Values \cup {Nothing}] /\ got' = got
    BY DEF Push
  <2>5. QED  BY <1>1, <2>1, <2>2, <2>3, <2>4
<1>10. RingInv'
  BY <1>1, <1>2 DEF RingInv
<1>11. ValuesInv'
  <2>1. \A n \in 1..count' : n \in 1..count \/ (n = count + 1 /\ tail + n - 1 = tail + count)
    BY <1>1
  <2>2. \A n \in 1..count' : buffer'[(tail' + n - 1) % Size] \in Values
    BY <1>1, <1>6, <1>7, <1>8, <2>1 DEF ValuesInv
  <2>3. \A q \in Producers : prod'[q] # "idle" => item'[q] \in Values
    BY DEF Push, ValuesInv
  <2>4. QED  BY <2>2, <2>3 DEF ValuesInv
<1>12. QED  BY <1>6, <1>7, <1>9, <1>10, <1>11

\* pop reads the slot at the tail and leaves the others where they are.
LEMMA PopRing ==
  ASSUME IInv, NEW c \in Consumers, Pop(c)
  PROVE  /\ buffer[tail] = buffer[(tail + 1 - 1) % Size] /\ buffer[tail] \in Values
         /\ \A n \in 1..count - 1 : (tail' + n - 1) % Size = (tail + (n + 1) - 1) % Size
         /\ IInv'
<1> USE DEF IInv, TypeOK
<1>1. count \in 1..Size /\ count' = count - 1 /\ buffer' = buffer /\ head' = head
  BY DEF Pop
<1>2. tail' = (tail + 1) % Size
  BY DEF Pop, NextSlot
<1>3. \A n \in 1..count : (tail' + n - 1) % Size = (tail + (n + 1) - 1) % Size
  <2>1. TAKE n \in 1..count
  <2>2. n - 1 \in 0..Size - 1 /\ tail + (n + 1) - 1 = tail + (n - 1) + 1
    BY <1>1
  <2>3. (((tail + 1) % Size) + (n - 1)) % Size = (tail + (n - 1) + 1) % Size
    BY <2>2, SlotAfter
  <2>4. tail' \in 0..Size - 1
    BY <1>2, SlotInRange
  <2>5. tail' + n - 1 = ((tail + 1) % Size) + (n - 1)
    BY <1>2, <2>4
  <2>6. QED  BY <2>2, <2>3, <2>5
<1>4. buffer[tail] = buffer[(tail + 1 - 1) % Size]
  BY ModSmall
<1>5. buffer[tail] \in Values
  BY <1>1, <1>4 DEF ValuesInv
<1>6. TypeOK'
  <2>1. tail' \in 0..Size - 1
    BY <1>2, SlotInRange
  <2>2. prod' \in [Producers -> PC] /\ cons' \in [Consumers -> PC]
    BY NotifyType DEF Pop, PC
  <2>3. got' \in [Consumers -> Values \cup {Nothing}] /\ item' = item
    BY <1>5 DEF Pop
  <2>4. QED  BY <1>1, <2>1, <2>2, <2>3
<1>7. RingInv'
  <2>1. (tail' + count - 1) % Size = (tail + (count + 1) - 1) % Size
    BY <1>1, <1>3
  <2>2. tail' \in 0..Size - 1
    BY <1>2, SlotInRange
  <2>3. tail' + count' = tail' + count - 1 /\ tail + (count + 1) - 1 = tail + count
    BY <1>1, <2>2
  <2>4. QED  BY <1>1, <2>1, <2>3 DEF RingInv
<1>8. ValuesInv'
  <2>1. \A n \in 1..count' : n \in 1..count /\ n + 1 \in 1..count
    BY <1>1
  <2>2. \A n \in 1..count' : buffer'[(tail' + n - 1) % Size] \in Values
    BY <1>1, <1>3, <2>1 DEF ValuesInv
  <2>3. \A p \in Producers : prod'[p] = "idle" <=> prod[p] = "idle"
    BY NotifyType DEF Pop
  <2>4. \A p \in Producers : prod'[p] # "idle" => item'[p] \in Values
    BY <2>3 DEF Pop, ValuesInv
  <2>5. QED  BY <2>2, <2>4 DEF ValuesInv
<1>9. \A n \in 1..count - 1 : n \in 1..count
  BY <1>1
<1>10. QED  BY <1>3, <1>4, <1>5, <1>6, <1>7, <1>8, <1>9

\* The other steps leave the ring alone.
Quiet == \/ \E p \in Producers : WaitNotFull(p) \/ \E v \in Values : CallPush(p, v)
         \/ \E c \in Consumers : WaitNotEmpty(c) \/ CallPop(c)
         \/ SpuriousWakeup
         \/ UNCHANGED vars

LEMMA QuietIInv == IInv /\ Quiet => IInv' /\ UNCHANGED <<ringVars, got>>
<1> SUFFICES ASSUME IInv, Quiet PROVE IInv' /\ UNCHANGED <<ringVars, got>>
  OBVIOUS
<1>1. UNCHANGED <<ringVars, got>>
  BY DEF Quiet, WaitNotFull, CallPush, WaitNotEmpty, CallPop, SpuriousWakeup, vars
<1> DEFINE Kept == /\ prod' \in [Producers -> PC] /\ cons' \in [Consumers -> PC]
                   /\ item' \in [Producers -> Values \cup {Nothing}]
                   /\ \A p \in Producers : prod'[p] # "idle" => item'[p] \in Values
<1>2. Kept
  <2> USE DEF IInv, TypeOK, ValuesInv, PC, At
  <2>1. CASE \E p \in Producers : WaitNotFull(p)
    BY <2>1 DEF WaitNotFull
  <2>2. CASE \E p \in Producers, v \in Values : CallPush(p, v)
    BY <2>2 DEF CallPush
  <2>3. CASE \E c \in Consumers : WaitNotEmpty(c) \/ CallPop(c)
    BY <2>3 DEF WaitNotEmpty, CallPop
  <2>4. CASE SpuriousWakeup
    BY <2>4 DEF SpuriousWakeup
  <2>5. CASE UNCHANGED vars
    BY <2>5 DEF vars
  <2>6. QED  BY <2>1, <2>2, <2>3, <2>4, <2>5 DEF Quiet
<1>3. buffer' = buffer /\ head' = head /\ tail' = tail /\ count' = count /\ got' = got
  BY <1>1 DEF ringVars
<1>4. TypeOK'
  BY <1>2, <1>3 DEF IInv, TypeOK
<1>5. RingInv' /\ ValuesInv'
  <2>1. RingInv'
    BY <1>3 DEF IInv, RingInv
  <2>2. \A n \in 1..count' : buffer'[(tail' + n - 1) % Size] \in Values
    BY <1>3, Zenon DEF IInv, ValuesInv
  <2>3. QED  BY <1>2, <2>1, <2>2 DEF ValuesInv
<1>6. QED  BY <1>1, <1>4, <1>5 DEF IInv

LEMMA NextCases ==
  [Next]_vars => \/ Quiet
                 \/ \E p \in Producers : Push(p)
                 \/ \E c \in Consumers : Pop(c)
  BY DEF Next, Producer, Consumer, Quiet

LEMMA StepIInv == IInv /\ [Next]_vars => IInv'
  BY PushRing, PopRing, QuietIInv, NextCases

\* The type invariant holds for a ring of any size, and the head is always count
\* slots after the tail.
THEOREM RingConsistent == Spec => [](TypeOK /\ RingInv)
<1>1. IInv => TypeOK /\ RingInv
  BY DEF IInv
<1>2. QED  BY <1>1, InitIInv, StepIInv, PTL DEF Spec

-----------------------------------------------------------------------------
(* The ring implements the bounded queue.                                  *)

\* The values of k slots from t on, when all of them are values.
LEMMA SlotsSeq ==
  ASSUME NEW b, NEW t, NEW k \in Nat, \A n \in 1..k : b[(t + n - 1) % Size] \in Values,
         NEW C, C = [n \in 1..k |-> b[(t + n - 1) % Size]]
  PROVE  /\ C \in Seq(Values) /\ Len(C) = k
         /\ \A n \in 1..k : C[n] = b[(t + n - 1) % Size]
  OBVIOUS

LEMMA ContentsSeq ==
  ASSUME IInv
  PROVE  /\ Contents \in Seq(Values) /\ Len(Contents) = count
         /\ \A n \in 1..count : Contents[n] = buffer[(tail + n - 1) % Size]
<1>1. count \in Nat /\ \A n \in 1..count : buffer[(tail + n - 1) % Size] \in Values
  BY DEF IInv, TypeOK, ValuesInv
<1>2. Contents = [n \in 1..count |-> buffer[(tail + n - 1) % Size]]
  BY DEF Contents
<1>3. QED  BY <1>1, <1>2, SlotsSeq

LEMMA ContentsSeqAfter ==
  ASSUME IInv'
  PROVE  /\ Contents' \in Seq(Values) /\ Len(Contents') = count'
         /\ \A n \in 1..count' : Contents'[n] = buffer'[(tail' + n - 1) % Size]
<1>1. count' \in Nat /\ \A n \in 1..count' : buffer'[(tail' + n - 1) % Size] \in Values
  <2>1. count' \in Nat
    BY DEF IInv, TypeOK
  <2>2. \A n \in 1..count' : buffer'[(tail' + n - 1) % Size] \in Values
    BY Zenon DEF IInv, ValuesInv
  <2>3. QED  BY <2>1, <2>2
<1>2. Contents' = [n \in 1..count' |-> buffer'[(tail' + n - 1) % Size]]
  BY DEF Contents
<1>3. QED  BY <1>1, <1>2, SlotsSeq

LEMMA PushRefines ==
  ASSUME IInv, NEW p \in Producers, Push(p)
  PROVE  Fifo!Put(item[p]) /\ item[p] \in Values
<1>1. IInv' /\ count' = count + 1 /\ tail' = tail /\ got' = got
  BY PushRing DEF Push
<1>2. item[p] \in Values /\ count \in 0..Size - 1
  BY DEF Push, HasRoom, IInv, TypeOK, ValuesInv
<1>3. /\ Contents \in Seq(Values) /\ Len(Contents) = count
      /\ \A n \in 1..count : Contents[n] = buffer[(tail + n - 1) % Size]
  BY ContentsSeq
<1>4. /\ Contents' \in Seq(Values) /\ Len(Contents') = count + 1
      /\ \A n \in 1..count + 1 : Contents'[n] = buffer'[(tail + n - 1) % Size]
  BY <1>1, ContentsSeqAfter
<1> DEFINE a == Append(Contents, item[p])
<1>5. /\ a \in Seq(Values) /\ Len(a) = count + 1
      /\ \A n \in 1..count : a[n] = Contents[n]
      /\ a[count + 1] = item[p]
  BY <1>2, <1>3, AppendProperties
<1>6. \A n \in 1..count + 1 : Contents'[n] = a[n]
  <2>1. ASSUME NEW n \in 1..count
        PROVE  Contents'[n] = a[n]
    <3>1. n \in 1..count + 1
      BY <1>2
    <3>2. buffer'[(tail + n - 1) % Size] = buffer[(tail + n - 1) % Size]
      BY PushRing
    <3>3. QED  BY <3>1, <3>2, <1>3, <1>4, <1>5
  <2>2. Contents'[count + 1] = a[count + 1]
    <3>1. tail + (count + 1) - 1 = tail + count /\ count + 1 \in 1..count + 1
      BY <1>2 DEF IInv, TypeOK
    <3>2. buffer'[(tail + count) % Size] = item[p]
      BY PushRing
    <3>3. QED  BY <3>1, <3>2, <1>4, <1>5
  <2>3. \A n \in 1..count + 1 : n \in 1..count \/ n = count + 1
    BY <1>2
  <2>4. QED  BY <2>1, <2>2, <2>3
<1> HIDE DEF a
<1>7. Contents' = a
  BY <1>4, <1>5, <1>6, SeqEqual
<1>8. QED  BY <1>1, <1>2, <1>3, <1>7 DEF Fifo!Put, a

LEMMA PopRefines ==
  ASSUME IInv, NEW c \in Consumers, Pop(c)
  PROVE  Fifo!Get(c)
<1>1. IInv' /\ count' = count - 1 /\ buffer' = buffer /\ count \in 1..Size
  <2>1. IInv'
    BY PopRing
  <2>2. QED  BY <2>1 DEF Pop, IInv, TypeOK
<1>2. /\ Contents \in Seq(Values) /\ Len(Contents) = count
      /\ \A n \in 1..count : Contents[n] = buffer[(tail + n - 1) % Size]
  BY ContentsSeq
<1>3. /\ Contents' \in Seq(Values) /\ Len(Contents') = count - 1
      /\ \A n \in 1..count - 1 : Contents'[n] = buffer[(tail' + n - 1) % Size]
  BY <1>1, ContentsSeqAfter
<1>4. Contents # <<>>
  BY <1>1, <1>2, EmptySeq
<1>5. /\ Tail(Contents) \in Seq(Values) /\ Len(Tail(Contents)) = count - 1
      /\ \A n \in 1..count - 1 : Tail(Contents)[n] = Contents[n + 1]
  BY <1>2, <1>4, HeadTailProperties
<1>6. \A n \in 1..count - 1 : Contents'[n] = Tail(Contents)[n]
  <2>1. TAKE n \in 1..count - 1
  <2>2. n + 1 \in 1..count
    BY <1>1
  <2>3. (tail' + n - 1) % Size = (tail + (n + 1) - 1) % Size
    BY PopRing
  <2>4. QED  BY <2>2, <2>3, <1>2, <1>3, <1>5
<1>7. Contents' = Tail(Contents)
  BY <1>3, <1>5, <1>6, SeqEqual
<1>8. Head(Contents) = buffer[tail]
  <2>1. 1 \in 1..count /\ Head(Contents) = Contents[1]
    BY <1>1, <1>2, <1>4
  <2>2. QED  BY <2>1, <1>2, PopRing
<1>9. QED  BY <1>4, <1>7, <1>8 DEF Fifo!Get, Pop

LEMMA QuietRefines ==
  ASSUME IInv, Quiet
  PROVE  Contents' = Contents /\ got' = got
<1>1. buffer' = buffer /\ head' = head /\ tail' = tail /\ count' = count /\ got' = got
  BY QuietIInv DEF ringVars
<1>2. QED  BY <1>1 DEF Contents

\* The ring implements the bounded first-in first-out queue, for every size and
\* any number of producers and consumers.
THEOREM RefinesBoundedFifo == Spec => ImplementsBoundedFifo
<1>1. Init => Fifo!Init
  BY DEF Init, Fifo!Init, Contents
<1>2. IInv /\ [Next]_vars => [Fifo!Next]_<<Contents, got>>
  BY PushRefines, PopRefines, QuietRefines, NextCases DEF Fifo!Next
<1>3. QED
  BY <1>1, <1>2, InitIInv, StepIInv, PTL DEF Spec, ImplementsBoundedFifo, Fifo!Spec

-----------------------------------------------------------------------------
(* One notification per operation is enough.                               *)

\* The waiting threads of one side are covered by awake ones.
Covered(pc, need) == At(pc, "wait") # {} => Cardinality(At(pc, "run")) >= need

LEMMA AwakeFinite ==
  ASSUME NEW S, IsFiniteSet(S), NEW pc \in [S -> PC]
  PROVE  IsFiniteSet(At(pc, "run")) /\ Cardinality(At(pc, "run")) \in Nat
<1>1. At(pc, "run") \in SUBSET S
  BY DEF At
<1>2. QED  BY <1>1, FS_Subset, FS_CardinalityType

\* A thread that leaves the running ones takes one of them away.
LEMMA LeaveRun ==
  ASSUME NEW S, IsFiniteSet(S), NEW pc \in [S -> PC], NEW t \in S, pc[t] = "run",
         NEW state \in {"idle", "wait"}
  PROVE  Cardinality(At([pc EXCEPT ![t] = state], "run")) = Cardinality(At(pc, "run")) - 1
<1>1. At([pc EXCEPT ![t] = state], "run") = At(pc, "run") \ {t} /\ t \in At(pc, "run")
  BY DEF At
<1>2. QED  BY <1>1, AwakeFinite, FS_RemoveElement

\* A thread that begins to run or is woken adds one.
LEMMA JoinRun ==
  ASSUME NEW S, IsFiniteSet(S), NEW pc \in [S -> PC], NEW t \in S, pc[t] # "run"
  PROVE  /\ Cardinality(At([pc EXCEPT ![t] = "run"], "run")) = Cardinality(At(pc, "run")) + 1
         /\ At([pc EXCEPT ![t] = "run"], "wait") \subseteq At(pc, "wait")
<1>1. /\ At([pc EXCEPT ![t] = "run"], "run") = At(pc, "run") \cup {t}
      /\ t \notin At(pc, "run")
      /\ At([pc EXCEPT ![t] = "run"], "wait") \subseteq At(pc, "wait")
  BY DEF At
<1>2. QED  BY <1>1, AwakeFinite, FS_AddElement

\* After a notification one thing more is covered.
LEMMA NotifyCovers ==
  ASSUME NEW S, IsFiniteSet(S), NEW pc \in [S -> PC], NEW next \in NotifyOne(pc),
         NEW need \in Nat, Covered(pc, need)
  PROVE  Covered(next, need + 1)
<1>1. CASE At(pc, "wait") = {}
  BY <1>1 DEF NotifyOne, Covered
<1>2. CASE At(pc, "wait") # {}
  <2>1. PICK t \in At(pc, "wait") : next = [pc EXCEPT ![t] = "run"]
    BY <1>2 DEF NotifyOne
  <2>2. t \in S /\ pc[t] # "run"
    BY <2>1 DEF At
  <2>3. Cardinality(At(next, "run")) = Cardinality(At(pc, "run")) + 1
    BY <2>1, <2>2, JoinRun
  <2>4. QED  BY <1>2, <2>3, AwakeFinite DEF Covered
<1>3. QED  BY <1>1, <1>2

\* After an operation one thing less has to be covered by the others.
LEMMA DoneCovers ==
  ASSUME NEW S, IsFiniteSet(S), NEW pc \in [S -> PC], NEW t \in S, pc[t] = "run",
         NEW need \in Nat \ {0}, Covered(pc, need)
  PROVE  Covered([pc EXCEPT ![t] = "idle"], need - 1)
<1> DEFINE next == [pc EXCEPT ![t] = "idle"]
<1>1. At(next, "wait") = At(pc, "wait")
  BY DEF At
<1>2. Cardinality(At(next, "run")) = Cardinality(At(pc, "run")) - 1
  BY LeaveRun
<1>3. Cardinality(At(pc, "run")) \in Nat
  BY AwakeFinite
<1> HIDE DEF next
<1>4. Covered(next, need - 1)
  BY <1>1, <1>2, <1>3 DEF Covered
<1>5. QED  BY <1>4 DEF next

\* A thread that begins to run, or is woken for no reason, uncovers nothing.
LEMMA JoinCovers ==
  ASSUME NEW S, IsFiniteSet(S), NEW pc \in [S -> PC], NEW t \in S, pc[t] # "run",
         NEW need \in Nat, Covered(pc, need)
  PROVE  Covered([pc EXCEPT ![t] = "run"], need)
<1> DEFINE next == [pc EXCEPT ![t] = "run"]
<1>1. /\ Cardinality(At(next, "run")) = Cardinality(At(pc, "run")) + 1
      /\ At(next, "wait") \subseteq At(pc, "wait")
  BY JoinRun
<1>2. Cardinality(At(pc, "run")) \in Nat
  BY AwakeFinite
<1> HIDE DEF next
<1>3. Covered(next, need)
  BY <1>1, <1>2 DEF Covered
<1>4. QED  BY <1>3 DEF next

LEMMA StepSignal == IInv /\ NoLostSignal /\ [Next]_vars => NoLostSignal'
<1> SUFFICES ASSUME IInv, NoLostSignal, [Next]_vars PROVE NoLostSignal'
  OBVIOUS
<1> USE ThreadsAssumption
<1> DEFINE Free == Size - count
<1>1. /\ count \in 0..Size /\ Free \in Nat /\ count \in Nat
      /\ prod \in [Producers -> PC] /\ cons \in [Consumers -> PC]
  BY DEF IInv, TypeOK
<1>2. Covered(prod, Free) /\ Covered(cons, count)
  BY DEF NoLostSignal, Covered
<1>3. SUFFICES Covered(prod', Free') /\ Covered(cons', count')
  BY DEF NoLostSignal, Covered
<1>4. ASSUME NEW p \in Producers, Push(p)
      PROVE  Covered(prod', Free') /\ Covered(cons', count')
  <2>1. /\ prod[p] = "run" /\ prod' = [prod EXCEPT ![p] = "idle"]
        /\ cons' \in NotifyOne(cons) /\ count' = count + 1
        /\ Free \in Nat \ {0} /\ Free' = Free - 1
    BY <1>1, <1>4 DEF Push, HasRoom
  <2>2. Covered(prod', Free')
    BY <1>1, <1>2, <2>1, DoneCovers
  <2>3. Covered(cons', count')
    BY <1>1, <1>2, <2>1, NotifyCovers
  <2>4. QED  BY <2>2, <2>3
<1>5. ASSUME NEW c \in Consumers, Pop(c)
      PROVE  Covered(prod', Free') /\ Covered(cons', count')
  <2>1. /\ cons[c] = "run" /\ cons' = [cons EXCEPT ![c] = "idle"]
        /\ prod' \in NotifyOne(prod) /\ count' = count - 1
        /\ count \in Nat \ {0} /\ Free' = Free + 1
    BY <1>1, <1>5 DEF Pop
  <2>2. Covered(cons', count')
    BY <1>1, <1>2, <2>1, DoneCovers
  <2>3. Covered(prod', Free')
    BY <1>1, <1>2, <2>1, NotifyCovers
  <2>4. QED  BY <2>2, <2>3
<1>6. CASE Quiet
  <2>1. count' = count /\ Free' = Free
    BY <1>6, QuietIInv DEF ringVars
  <2>2. ASSUME NEW p \in Producers, WaitNotFull(p)
        PROVE  Covered(prod', Free') /\ Covered(cons', count')
    <3>1. Free = 0 /\ cons' = cons /\ prod' = [prod EXCEPT ![p] = "wait"]
      BY <1>1, <2>2 DEF WaitNotFull, HasRoom
    <3>2. prod' \in [Producers -> PC]
      BY <1>1, <3>1 DEF PC
    <3>3. Cardinality(At(prod', "run")) \in Nat
      BY <3>2, AwakeFinite
    <3>4. QED  BY <1>2, <2>1, <3>1, <3>3 DEF Covered
  <2>3. ASSUME NEW c \in Consumers, WaitNotEmpty(c)
        PROVE  Covered(prod', Free') /\ Covered(cons', count')
    <3>1. count = 0 /\ prod' = prod /\ cons' = [cons EXCEPT ![c] = "wait"]
      BY <2>3 DEF WaitNotEmpty
    <3>2. cons' \in [Consumers -> PC]
      BY <1>1, <3>1 DEF PC
    <3>3. Cardinality(At(cons', "run")) \in Nat
      BY <3>2, AwakeFinite
    <3>4. QED  BY <1>2, <2>1, <3>1, <3>3 DEF Covered
  <2>4. ASSUME NEW p \in Producers, prod[p] # "run",
               prod' = [prod EXCEPT ![p] = "run"], cons' = cons
        PROVE  Covered(prod', Free') /\ Covered(cons', count')
    BY <1>1, <1>2, <2>1, <2>4, JoinCovers
  <2>5. ASSUME NEW c \in Consumers, cons[c] # "run",
               cons' = [cons EXCEPT ![c] = "run"], prod' = prod
        PROVE  Covered(prod', Free') /\ Covered(cons', count')
    BY <1>1, <1>2, <2>1, <2>5, JoinCovers
  <2>6. CASE UNCHANGED vars
    BY <1>2, <2>1, <2>6 DEF vars
  <2>7. ASSUME NEW p \in Producers, NEW v \in Values, CallPush(p, v)
        PROVE  Covered(prod', Free') /\ Covered(cons', count')
    BY <2>4, <2>7 DEF CallPush
  <2>8. ASSUME NEW c \in Consumers, CallPop(c)
        PROVE  Covered(prod', Free') /\ Covered(cons', count')
    BY <2>5, <2>8 DEF CallPop
  <2>9. CASE SpuriousWakeup
    <3>1. CASE \E p \in At(prod, "wait") : prod' = [prod EXCEPT ![p] = "run"] /\ UNCHANGED cons
      BY <1>1, <2>4, <3>1 DEF At
    <3>2. CASE \E c \in At(cons, "wait") : cons' = [cons EXCEPT ![c] = "run"] /\ UNCHANGED prod
      BY <1>1, <2>5, <3>2 DEF At
    <3>3. QED  BY <2>9, <3>1, <3>2 DEF SpuriousWakeup
  <2>10. QED  BY <1>6, <2>2, <2>3, <2>6, <2>7, <2>8, <2>9 DEF Quiet
<1>7. QED  BY <1>4, <1>5, <1>6, NextCases

\* No notification is lost: sleeping producers never face a free slot, nor
\* sleeping consumers a value, without an awake thread for it.
THEOREM SignalsSuffice == Spec => []NoLostSignal
<1>1. Init => NoLostSignal
  BY DEF Init, NoLostSignal, At
<1>2. QED  BY <1>1, InitIInv, StepIInv, StepSignal, PTL DEF Spec
=============================================================================
