-------------------------- MODULE TaskManagerProofs -------------------------
(***************************************************************************)
(* Proofs about TaskManager, for any number of clients, processors and     *)
(* tasks: a task is in one place, an assigned task is never discarded, the *)
(* counters match the maps, settled tasks keep their outcome and waiting   *)
(* tasks their order.                                                      *)
(***************************************************************************)
EXTENDS TaskManager, FiniteSetTheorems, SequenceTheorems, TLAPS

USE NoKernelAssumption, NothingAssumption

-----------------------------------------------------------------------------
(* Queues of entries.                                                       *)

IdsOf(s)  == {s[n].id : n \in DOMAIN s}
Unique(s) == \A m, n \in DOMAIN s : s[m].id = s[n].id => m = n

\* The entries that are in both queues wait in the same order.
OrderKept(s, w) ==
  \A m, n \in DOMAIN s, i, j \in DOMAIN w :
    (m < n /\ s[m].id = w[i].id /\ s[n].id = w[j].id) => i < j

\* w is s without the entry at position n.
Shortened(s, n, w) ==
  /\ w \in Seq(Entry) /\ Len(w) = Len(s) - 1
  /\ \A k \in 1..Len(w) : w[k] = s[IF k < n THEN k ELSE k + 1]

LEMMA AppendKeeps ==
  ASSUME NEW s \in Seq(Entry), Unique(s), NEW e \in Entry, e.id \notin IdsOf(s)
  PROVE  LET w == Append(s, e)
         IN  /\ w \in Seq(Entry) /\ Unique(w) /\ OrderKept(s, w)
             /\ IdsOf(w) = IdsOf(s) \cup {e.id}
             /\ \A n \in DOMAIN w : w[n] = e \/ (n \in DOMAIN s /\ w[n] = s[n])
<1> DEFINE w == Append(s, e)
<1>1. /\ w \in Seq(Entry) /\ Len(s) \in Nat /\ Len(w) = Len(s) + 1
      /\ \A n \in 1..Len(s) : w[n] = s[n]
      /\ w[Len(s) + 1] = e
  BY AppendProperties
<1>2. DOMAIN s = 1..Len(s) /\ DOMAIN w = 1..Len(w)  BY <1>1
<1> HIDE DEF w
<1>3. \A n \in DOMAIN w : (n = Len(s) + 1 /\ w[n] = e) \/ (n \in DOMAIN s /\ w[n] = s[n])
  BY <1>1, <1>2
<1>4. DOMAIN s \subseteq DOMAIN w /\ Len(s) + 1 \in DOMAIN w  BY <1>1, <1>2
<1>5. \A n \in DOMAIN s : s[n].id # e.id  BY DEF IdsOf
<1>6. Unique(w)  BY <1>3, <1>5 DEF Unique
<1>7. IdsOf(w) = IdsOf(s) \cup {e.id}  BY <1>1, <1>2, <1>3, <1>4 DEF IdsOf
<1>8. OrderKept(s, w)
  <2> SUFFICES ASSUME NEW m \in DOMAIN s, NEW n \in DOMAIN s, NEW i \in DOMAIN w, NEW j \in DOMAIN w,
                      m < n, s[m].id = w[i].id, s[n].id = w[j].id
               PROVE  i < j
    BY DEF OrderKept
  <2>1. i \in DOMAIN s /\ w[i] = s[i] /\ j \in DOMAIN s /\ w[j] = s[j]  BY <1>3, <1>5
  <2>2. i = m /\ j = n  BY <2>1 DEF Unique
  <2> QED  BY <2>2
<1> QED  BY <1>1, <1>3, <1>6, <1>7, <1>8 DEF w

LEMMA ShortenedKeeps ==
  ASSUME NEW s \in Seq(Entry), Unique(s), NEW n \in DOMAIN s, NEW w, Shortened(s, n, w)
  PROVE  /\ w \in Seq(Entry) /\ Unique(w) /\ OrderKept(s, w)
         /\ IdsOf(w) = IdsOf(s) \ {s[n].id}
         /\ \A k \in DOMAIN w : \E m \in DOMAIN s : w[k] = s[m]
<1> DEFINE from(k) == IF k < n THEN k ELSE k + 1
<1>1. /\ w \in Seq(Entry) /\ Len(s) \in Nat /\ Len(w) = Len(s) - 1
      /\ DOMAIN s = 1..Len(s) /\ DOMAIN w = 1..Len(w) /\ n \in 1..Len(s)
      /\ \A k \in DOMAIN w : w[k] = s[from(k)]
  BY DEF Shortened
<1>2. \A k \in DOMAIN w : from(k) \in DOMAIN s \ {n}  BY <1>1
<1>3. \A k, l \in DOMAIN w : (k < l <=> from(k) < from(l)) /\ (from(k) = from(l) => k = l)
  BY <1>1
<1>4. \A m \in DOMAIN s \ {n} : \E k \in DOMAIN w : from(k) = m
  <2> TAKE m \in DOMAIN s \ {n}
  <2>1. CASE m < n  BY <1>1, <2>1
  <2>2. CASE ~ m < n
    <3>1. m - 1 \in DOMAIN w /\ from(m - 1) = m  BY <1>1, <2>2
    <3> QED  BY <3>1
  <2> QED  BY <2>1, <2>2
<1> HIDE DEF from
<1>5. Unique(w)
  <2> SUFFICES ASSUME NEW k \in DOMAIN w, NEW l \in DOMAIN w, w[k].id = w[l].id
               PROVE  k = l
    BY DEF Unique
  <2>1. from(k) \in DOMAIN s /\ from(l) \in DOMAIN s /\ s[from(k)].id = s[from(l)].id
    BY <1>1, <1>2
  <2>2. from(k) = from(l)  BY <2>1 DEF Unique
  <2> QED  BY <1>3, <2>2
<1>6. IdsOf(w) = IdsOf(s) \ {s[n].id}
  <2>1. ASSUME NEW k \in DOMAIN w
        PROVE  w[k].id \in IdsOf(s) /\ w[k].id # s[n].id
    <3>1. from(k) \in DOMAIN s /\ from(k) # n /\ w[k] = s[from(k)]  BY <1>1, <1>2
    <3> QED  BY <3>1 DEF Unique, IdsOf
  <2>2. ASSUME NEW m \in DOMAIN s, s[m].id # s[n].id
        PROVE  s[m].id \in IdsOf(w)
    <3>1. PICK k \in DOMAIN w : from(k) = m  BY <1>4, <2>2
    <3> QED  BY <1>1, <3>1 DEF IdsOf
  <2> QED  BY <2>1, <2>2 DEF IdsOf
<1>7. OrderKept(s, w)
  <2> SUFFICES ASSUME NEW l \in DOMAIN s, NEW m \in DOMAIN s, NEW i \in DOMAIN w, NEW j \in DOMAIN w,
                      l < m, s[l].id = w[i].id, s[m].id = w[j].id
               PROVE  i < j
    BY DEF OrderKept
  <2>1. from(i) \in DOMAIN s /\ w[i] = s[from(i)] /\ from(j) \in DOMAIN s /\ w[j] = s[from(j)]
    BY <1>1, <1>2
  <2>2. from(i) = l /\ from(j) = m  BY <2>1 DEF Unique
  <2> QED  BY <1>3, <2>2
<1> QED  BY <1>1, <1>2, <1>5, <1>6, <1>7

\* Counted from the n-th place, an index behind the first n - 1 places is one of
\* the places that are left.
LEMMA IndexBehind ==
  ASSUME NEW k \in Int, NEW n \in Int, NEW l \in Int,
         k \in 1..(n - 1) + (l - n), ~ k <= n - 1
  PROVE  k - (n - 1) \in 1..(l - n)
OBVIOUS

LEMMA RemoveAtShortens ==
  ASSUME NEW s \in Seq(Entry), NEW n \in DOMAIN s
  PROVE  Shortened(s, n, RemoveAt(s, n))
<1> DEFINE a == SubSeq(s, 1, n - 1)
           b == SubSeq(s, n + 1, Len(s))
<1>1. Len(s) \in Nat /\ n \in 1..Len(s) /\ \A k \in 1..Len(s) : s[k] \in Entry
  BY ElementOfSeq
<1>2. /\ a \in Seq(Entry) /\ Len(a) = n - 1
      /\ \A k \in 1..(n - 1) : a[k] = s[k]
  <2>1. \A k \in 1..(n - 1) : s[k] \in Entry  BY <1>1
  <2>2. /\ a \in Seq(Entry) /\ Len(a) = IF 1 <= n - 1 THEN n - 1 - 1 + 1 ELSE 0
        /\ \A k \in 1..(n - 1 - 1 + 1) : a[k] = s[1 + k - 1]
    <3> HIDE DEF a
    <3>1. 1 \in Int /\ n - 1 \in Int  BY <1>1
    <3> QED  BY <2>1, <3>1, SubSeqProperties DEF a
  <2> HIDE DEF a
  <2> QED  BY <1>1, <2>2
<1>3. /\ b \in Seq(Entry) /\ Len(b) = Len(s) - n
      /\ \A k \in 1..(Len(s) - n) : b[k] = s[n + k]
  <2>1. \A k \in (n + 1)..Len(s) : s[k] \in Entry  BY <1>1
  <2>2. /\ b \in Seq(Entry) /\ Len(b) = IF n + 1 <= Len(s) THEN Len(s) - (n + 1) + 1 ELSE 0
        /\ \A k \in 1..(Len(s) - (n + 1) + 1) : b[k] = s[n + 1 + k - 1]
    <3>1. n + 1 \in Int /\ Len(s) \in Int  BY <1>1
    <3> QED  BY <2>1, <3>1, SubSeqProperties
  <2> HIDE DEF b
  <2> QED  BY <1>1, <2>2
<1> HIDE DEF a, b
<1>4. /\ a \o b \in Seq(Entry) /\ Len(a \o b) = Len(a) + Len(b)
      /\ \A k \in 1..Len(a) + Len(b) : (a \o b)[k] = IF k <= Len(a) THEN a[k] ELSE b[k - Len(a)]
  <2>1. a \in Seq(Entry)  BY <1>2
  <2>2. b \in Seq(Entry)  BY <1>3
  <2> QED  BY ONLY <2>1, <2>2
<1>5. \A k \in 1..Len(a) + Len(b) : (a \o b)[k] = s[IF k < n THEN k ELSE k + 1]
  <2> TAKE k \in 1..Len(a) + Len(b)
  <2>1. CASE k < n  BY <1>1, <1>2, <1>3, <1>4, <2>1
  <2>2. CASE ~ k < n
    <3>0. k \in 1..Len(a) + Len(b) /\ Len(a) = n - 1 /\ Len(b) = Len(s) - n /\ ~ k <= n - 1 /\ k \in Int
      BY <1>1, <1>2, <1>3, <2>2
    <3>1. (a \o b)[k] = b[k - (n - 1)] /\ k - (n - 1) \in 1..(Len(s) - n)
      <4>1. (a \o b)[k] = IF k <= Len(a) THEN a[k] ELSE b[k - Len(a)]  BY ONLY <1>4
      <4>2. k - (n - 1) \in 1..(Len(s) - n)
        <5>1. n \in Int /\ Len(s) \in Int  BY <1>1
        <5>2. k \in 1..(n - 1) + (Len(s) - n)  BY ONLY <3>0
        <5> QED  BY ONLY <3>0, <5>1, <5>2, IndexBehind
      <4>3. ~ k <= Len(a)  BY ONLY <3>0
      <4>4. b[k - Len(a)] = b[k - (n - 1)]  BY ONLY <3>0
      <4> QED  BY ONLY <4>1, <4>2, <4>3, <4>4
    <3>2. b[k - (n - 1)] = s[n + (k - (n - 1))]  BY <1>3, <3>1
    <3>3. n + (k - (n - 1)) = k + 1  BY <1>1
    <3> QED  BY <2>2, <3>1, <3>2, <3>3
  <2> QED  BY <2>1, <2>2
<1>6. RemoveAt(s, n) = a \o b  BY DEF RemoveAt, a, b
<1>7. Len(a \o b) = Len(s) - 1  BY <1>1, <1>2, <1>3, <1>4
<1> QED  BY <1>4, <1>5, <1>6, <1>7 DEF Shortened

LEMMA TailShortens ==
  ASSUME NEW s \in Seq(Entry), s # <<>>
  PROVE  /\ 1 \in DOMAIN s /\ Head(s) = s[1] /\ Head(s) \in Entry
         /\ Shortened(s, 1, Tail(s))
<1>1. /\ Head(s) \in Entry /\ Tail(s) \in Seq(Entry) /\ Len(Tail(s)) = Len(s) - 1
      /\ \A k \in 1..Len(Tail(s)) : Tail(s)[k] = s[k + 1]
  BY HeadTailProperties
<1>2. Len(s) \in Nat /\ Len(s) # 0  BY EmptySeq
<1>3. 1 \in DOMAIN s /\ Head(s) = s[1]  BY <1>2
<1> QED  BY <1>1, <1>2, <1>3 DEF Shortened

-----------------------------------------------------------------------------
(* The hands of the processors, and the two maps as sets of entries.        *)

HandIds(h)    == {h[p].id : p \in {q \in Processors : h[q] # Nothing}}
HandUnique(h) == \A p, q \in Processors :
                   (h[p] # Nothing /\ h[q] # Nothing /\ h[p].id = h[q].id) => p = q

LEMMA HandTakes ==
  ASSUME NEW h \in [Processors -> Entry \cup {Nothing}], HandUnique(h),
         NEW p \in Processors, h[p] = Nothing,
         NEW e \in Entry, e.id \notin HandIds(h)
  PROVE  LET w == [h EXCEPT ![p] = e]
         IN  /\ w \in [Processors -> Entry \cup {Nothing}] /\ HandUnique(w)
             /\ HandIds(w) = HandIds(h) \cup {e.id}
<1> DEFINE w == [h EXCEPT ![p] = e]
<1>1. w \in [Processors -> Entry \cup {Nothing}] /\ w[p] = e
      /\ \A q \in Processors \ {p} : w[q] = h[q]
  OBVIOUS
<1>2. e # Nothing  BY DEF Entry
<1> HIDE DEF w
<1>3. \A q \in Processors : h[q] # Nothing => h[q].id # e.id  BY DEF HandIds
<1>4. HandUnique(w)  BY <1>1, <1>3 DEF HandUnique
<1>5. HandIds(w) = HandIds(h) \cup {e.id}
  <2>1. \A q \in Processors : w[q] # Nothing => w[q].id \in HandIds(h) \cup {e.id}
    BY <1>1 DEF HandIds
  <2>2. \A q \in Processors : h[q] # Nothing => h[q].id \in HandIds(w)
    <3>1. \A q \in Processors : h[q] # Nothing => q # p /\ w[q] = h[q]  BY <1>1
    <3> QED  BY <3>1 DEF HandIds
  <2>3. e.id \in HandIds(w)  BY <1>1, <1>2 DEF HandIds
  <2> QED  BY <2>1, <2>2, <2>3 DEF HandIds
<1> QED  BY <1>1, <1>4, <1>5 DEF w

LEMMA HandGives ==
  ASSUME NEW h \in [Processors -> Entry \cup {Nothing}], HandUnique(h),
         NEW p \in Processors, h[p] # Nothing
  PROVE  LET w == [h EXCEPT ![p] = Nothing]
         IN  /\ w \in [Processors -> Entry \cup {Nothing}] /\ HandUnique(w)
             /\ HandIds(w) = HandIds(h) \ {h[p].id}
<1> DEFINE w == [h EXCEPT ![p] = Nothing]
<1>1. w \in [Processors -> Entry \cup {Nothing}] /\ w[p] = Nothing
      /\ \A q \in Processors \ {p} : w[q] = h[q]
  OBVIOUS
<1> HIDE DEF w
<1>2. HandUnique(w)  BY <1>1 DEF HandUnique
<1>3. HandIds(w) = HandIds(h) \ {h[p].id}
  <2>1. \A q \in Processors : w[q] # Nothing => w[q].id \in HandIds(h) /\ w[q].id # h[p].id
    BY <1>1 DEF HandIds, HandUnique
  <2>2. \A q \in Processors : h[q] # Nothing /\ h[q].id # h[p].id => h[q].id \in HandIds(w)
    <3>1. \A q \in Processors : h[q] # Nothing /\ h[q].id # h[p].id => q # p /\ w[q] = h[q]
      BY <1>1
    <3> QED  BY <3>1 DEF HandIds
  <2> QED  BY <2>1, <2>2 DEF HandIds
<1> QED  BY <1>1, <1>2, <1>3 DEF w

SetUnique(S) == \A e, f \in S : e.id = f.id => e = f

LEMMA SetAdds ==
  ASSUME NEW S, SetUnique(S), NEW e, e.id \notin Ids(S)
  PROVE  SetUnique(S \cup {e}) /\ Ids(S \cup {e}) = Ids(S) \cup {e.id} /\ e \notin S
BY DEF SetUnique, Ids

LEMMA SetRemoves ==
  ASSUME NEW S, SetUnique(S), NEW e \in S
  PROVE  SetUnique(S \ {e}) /\ Ids(S \ {e}) = Ids(S) \ {e.id} /\ e.id \in Ids(S)
BY DEF SetUnique, Ids

\* The overwrite of an entry under an id that the map does not have.
LEMMA PutAdds ==
  ASSUME NEW S, NEW e, e.id \notin Ids(S)
  PROVE  Put(S, e) = S \cup {e}
BY DEF Put, Ids

Done(S) == {e \in S : e.status = "completed"}

\* What settling a task that was not settled does to the map and its counts.
LEMMA SettleAdds ==
  ASSUME completed \subseteq Settled, IsFiniteSet(completed), SetUnique(completed),
         NEW e \in Entry, e.id \notin Ids(completed),
         NEW status \in Outcomes \cup {"cancelled"}, Settle(e, status)
  PROVE  /\ completed \subseteq completed'
         /\ completed' \subseteq Settled /\ IsFiniteSet(completed') /\ SetUnique(completed')
         /\ Ids(completed') = Ids(completed) \cup {e.id}
         /\ Cardinality(completed') = Cardinality(completed) + 1
         /\ Cardinality(Done(completed')) =
              IF status = "completed" THEN Cardinality(Done(completed)) + 1
                                      ELSE Cardinality(Done(completed))
<1> DEFINE f == [id |-> e.id, kernel |-> e.kernel, status |-> status]
<1>1. f \in Settled /\ f.id = e.id /\ f.status = status  BY DEF Settled, Entry
<1>2. completed' = completed \cup {f}
  <2>1. completed' = Put(completed, f)  BY DEF Settle
  <2> QED  BY <1>1, <2>1, PutAdds
<1> HIDE DEF f
<1>3. /\ SetUnique(completed') /\ Ids(completed') = Ids(completed) \cup {e.id}
      /\ f \notin completed
  BY <1>1, <1>2, SetAdds
<1>4. IsFiniteSet(completed') /\ Cardinality(completed') = Cardinality(completed) + 1
  BY <1>2, <1>3, FS_AddElement
<1>5. IsFiniteSet(Done(completed))  BY FS_Subset DEF Done
<1>6. CASE status = "completed"
  <2>1. Done(completed') = Done(completed) \cup {f} /\ f \notin Done(completed)
    BY <1>1, <1>2, <1>3, <1>6 DEF Done
  <2> QED  BY <1>1, <1>2, <1>3, <1>4, <1>5, <1>6, <2>1, FS_AddElement
<1>7. CASE status # "completed"
  <2>1. Done(completed') = Done(completed)  BY <1>1, <1>2, <1>7 DEF Done
  <2> QED  BY <1>1, <1>2, <1>3, <1>4, <1>7, <2>1
<1> QED  BY <1>6, <1>7

-----------------------------------------------------------------------------
(* The inductive invariant.                                                 *)

\* The five places are disjoint and hold all the submitted tasks.
Places(P, H, R, C, D, S) ==
  /\ P \cap (H \cup R \cup C \cup D) = {} /\ H \cap (R \cup C \cup D) = {}
  /\ R \cap (C \cup D) = {} /\ C \cap D = {}
  /\ P \cup H \cup R \cup C \cup D = S

LEMMA TaskMoves ==
  ASSUME NEW P, NEW H, NEW R, NEW C, NEW D, NEW S, Places(P, H, R, C, D, S), NEW t
  PROVE  /\ t \in P => /\ Places(P \ {t}, H \cup {t}, R, C, D, S)
                       /\ Places(P \ {t}, H, R, C \cup {t}, D, S)
         /\ t \in H => /\ Places(P, H \ {t}, R \cup {t}, C, D, S)
                       /\ Places(P, H \ {t}, R, C, D \cup {t}, S)
         /\ t \in R => Places(P, H, R \ {t}, C \cup {t}, D, S)
<1>1. t \in P => /\ Places(P \ {t}, H \cup {t}, R, C, D, S)
                /\ Places(P \ {t}, H, R, C \cup {t}, D, S)
  BY Zenon DEF Places
<1>2. t \in H => /\ Places(P, H \ {t}, R \cup {t}, C, D, S)
                /\ Places(P, H \ {t}, R, C, D \cup {t}, S)
  BY Zenon DEF Places
<1>3. t \in R => Places(P, H, R \ {t}, C \cup {t}, D, S)  BY Zenon DEF Places
<1> QED  BY <1>1, <1>2, <1>3

OneInv ==
  /\ Unique(pending) /\ HandUnique(hand) /\ SetUnique(running) /\ SetUnique(completed)
  /\ Places(IdsOf(pending), HandIds(hand), Ids(running), Ids(completed), dropped, submitted)

\* The kernel written by assignTask travels with the task.
KernelInv ==
  /\ \A n \in DOMAIN pending : pending[n].id \in assigned => pending[n].kernel # NoKernel
  /\ \A p \in Processors : (hand[p] # Nothing /\ hand[p].id \in assigned)
                               => hand[p].kernel # NoKernel
  /\ assigned \cap dropped = {} /\ assigned \subseteq submitted

\* What a client read of total_tasks is behind the tasks submitted since.
CountInv ==
  /\ IsFiniteSet(completed) /\ IsFiniteSet(submitted)
  /\ completedTasks + failedTasks = Cardinality(completed)
  /\ completedTasks = Cardinality(Done(completed))
  /\ totalTasks <= Cardinality(submitted)
  /\ \A c \in Clients : seen[c] # Nothing => seen[c] + 1 <= Cardinality(submitted)

IInv == TypeOK /\ OneInv /\ KernelInv /\ CountInv

LEMMA PlacesMeaning ==
  Pending = IdsOf(pending) /\ InHand = HandIds(hand)
  /\ Running = Ids(running) /\ Completed = Ids(completed)
BY DEF Pending, InHand, Running, Completed, IdsOf, HandIds, Ids, ToSet

LEMMA InitIInv == Init => IInv
<1> SUFFICES ASSUME Init PROVE IInv  OBVIOUS
<1>1. <<>> \in Seq(Entry) /\ DOMAIN <<>> = {}  OBVIOUS
<1>2. TypeOK  BY <1>1 DEF Init, TypeOK
<1>3. OneInv
  <2>1. IdsOf(pending) = {} /\ Unique(pending)  BY <1>1 DEF Init, IdsOf, Unique
  <2>2. HandIds(hand) = {} /\ HandUnique(hand)  BY DEF Init, HandIds, HandUnique
  <2>3. Ids(running) = {} /\ Ids(completed) = {} /\ SetUnique(running) /\ SetUnique(completed)
    BY DEF Init, Ids, SetUnique
  <2> QED  BY <2>1, <2>2, <2>3 DEF Init, OneInv, Places
<1>4. KernelInv  BY <1>1 DEF Init, KernelInv
<1>5. CountInv
  <2>1. Done(completed) = {}  BY DEF Init, Done
  <2>2. IsFiniteSet({}) /\ Cardinality({}) = 0  BY FS_EmptySet
  <2>3. \A c \in Clients : seen[c] = Nothing  BY DEF Init
  <2>4. completed = {} /\ submitted = {} /\ completedTasks = 0 /\ failedTasks = 0 /\ totalTasks = 0
    BY DEF Init
  <2> QED  BY <2>1, <2>2, <2>3, <2>4 DEF CountInv
<1> QED  BY <1>2, <1>3, <1>4, <1>5 DEF IInv

\* The parts of the invariant say nothing of the variables a step leaves alone.
LEMMA Unchanged ==
  /\ OneInv /\ UNCHANGED <<pending, hand, running, completed, dropped, submitted>> => OneInv'
  /\ KernelInv /\ UNCHANGED <<pending, hand, dropped, assigned, submitted>> => KernelInv'
  /\ CountInv /\ UNCHANGED <<completed, submitted, metricVars>> => CountInv'
BY DEF OneInv, KernelInv, CountInv, metricVars

LEMMA SubmitKeeps ==
  ASSUME IInv, NEW c \in Clients, NEW t \in Tasks, SubmitTask(c, t)
  PROVE  IInv' /\ OrderKept(pending, pending')
<1> DEFINE e == [id |-> t, kernel |-> NoKernel]
<1>i. TypeOK /\ OneInv /\ KernelInv /\ CountInv  BY DEF IInv
<1>1. e \in Entry /\ e.id = t  BY DEF Entry
<1>2. /\ pending' = Append(pending, e) /\ submitted' = submitted \cup {t} /\ t \notin submitted
      /\ seen' = [seen EXCEPT ![c] = totalTasks]
      /\ UNCHANGED <<hand, asleep, running, completed, totalTasks, completedTasks, failedTasks, assigned, dropped>>
  BY DEF SubmitTask
<1>3. t \notin IdsOf(pending)  BY <1>i, <1>2 DEF OneInv, Places
<1>4. /\ pending' \in Seq(Entry) /\ Unique(pending') /\ OrderKept(pending, pending')
      /\ IdsOf(pending') = IdsOf(pending) \cup {t}
      /\ \A n \in DOMAIN pending' : pending'[n] = e \/ (n \in DOMAIN pending /\ pending'[n] = pending[n])
  <2>1. pending \in Seq(Entry) /\ Unique(pending)  BY <1>i DEF TypeOK, OneInv
  <2> HIDE DEF e
  <2> QED  BY <1>1, <1>2, <1>3, <2>1, AppendKeeps
<1> HIDE DEF e
<1>5. TypeOK'  BY <1>i, <1>2, <1>4 DEF TypeOK
<1>6. OneInv'  BY <1>i, <1>2, <1>4 DEF OneInv, Places
<1>7. KernelInv'
  <2>1. t \notin assigned  BY <1>i, <1>2 DEF KernelInv
  <2> QED  BY <1>i, <1>1, <1>2, <1>4, <2>1 DEF KernelInv
<1>8. CountInv'
  <2>1. /\ IsFiniteSet(submitted') /\ Cardinality(submitted') = Cardinality(submitted) + 1
        /\ Cardinality(submitted) \in Nat
    BY <1>i, <1>2, FS_AddElement, FS_CardinalityType DEF CountInv
  <2>2. \A d \in Clients : seen'[d] # Nothing => seen'[d] + 1 <= Cardinality(submitted')
    <3> TAKE d \in Clients
    <3>1. seen'[d] = IF d = c THEN totalTasks ELSE seen[d]  BY <1>i, <1>2 DEF TypeOK
    <3>2. totalTasks \in Nat /\ (seen[d] # Nothing => seen[d] \in Nat)  BY <1>i DEF TypeOK
    <3> QED  BY <1>i, <2>1, <3>1, <3>2 DEF CountInv
  <2>3. totalTasks' <= Cardinality(submitted')  BY <1>i, <1>2, <2>1 DEF CountInv, TypeOK
  <2> QED  BY <1>i, <1>2, <2>1, <2>2, <2>3 DEF CountInv
<1> QED  BY <1>4, <1>5, <1>6, <1>7, <1>8 DEF IInv

LEMMA CountSubmittedKeeps ==
  ASSUME IInv, NEW c \in Clients, CountSubmitted(c)
  PROVE  IInv'
<1>i. TypeOK /\ OneInv /\ KernelInv /\ CountInv  BY DEF IInv
<1>1. /\ seen[c] # Nothing /\ totalTasks' = seen[c] + 1 /\ seen' = [seen EXCEPT ![c] = Nothing]
      /\ UNCHANGED <<pending, hand, running, completed, completedTasks, failedTasks, histVars>>
  BY DEF CountSubmitted
<1>2. asleep' \subseteq asleep  BY DEF CountSubmitted, NotifyOne
<1>3. seen[c] \in Nat  BY <1>i, <1>1 DEF TypeOK
<1>4. \A d \in Clients : seen'[d] # Nothing => seen'[d] = seen[d]  BY <1>i, <1>1 DEF TypeOK
<1>5. TypeOK'  BY <1>i, <1>1, <1>2, <1>3 DEF TypeOK, histVars
<1>6. OneInv' /\ KernelInv'  BY <1>i, <1>1, Unchanged DEF histVars
<1>7. CountInv'  BY <1>i, <1>1, <1>3, <1>4 DEF CountInv, histVars
<1> QED  BY <1>5, <1>6, <1>7 DEF IInv

LEMMA SettleRunningKeeps ==
  ASSUME IInv, NEW e \in running, NEW status \in Outcomes \cup {"cancelled"},
         Settle(e, status), running' = running \ {e},
         IF status = "completed" THEN completedTasks' = completedTasks + 1 /\ UNCHANGED failedTasks
                                 ELSE failedTasks' = failedTasks + 1 /\ UNCHANGED completedTasks,
         UNCHANGED <<pending, hand, asleep, totalTasks, seen, histVars>>
  PROVE  IInv' /\ completed \subseteq completed'
<1>i. TypeOK /\ OneInv /\ KernelInv /\ CountInv  BY DEF IInv
<1>1. e \in Entry  BY <1>i DEF TypeOK
<1>2. /\ SetUnique(running') /\ Ids(running') = Ids(running) \ {e.id} /\ e.id \in Ids(running)
  BY <1>i, SetRemoves DEF OneInv
<1>3. e.id \notin Ids(completed)  BY <1>i, <1>2 DEF OneInv, Places
<1>4. /\ completed \subseteq completed'
      /\ completed' \subseteq Settled /\ IsFiniteSet(completed') /\ SetUnique(completed')
      /\ Ids(completed') = Ids(completed) \cup {e.id}
      /\ Cardinality(completed') = Cardinality(completed) + 1
      /\ Cardinality(Done(completed')) =
           IF status = "completed" THEN Cardinality(Done(completed)) + 1
                                   ELSE Cardinality(Done(completed))
  BY <1>i, <1>1, <1>3, SettleAdds DEF TypeOK, OneInv, CountInv
<1>5. TypeOK'  BY <1>i, <1>4 DEF TypeOK, histVars
<1>6. OneInv'
  <2>1. Places(IdsOf(pending), HandIds(hand), Ids(running'), Ids(completed'), dropped, submitted)
    <3>1. Places(IdsOf(pending), HandIds(hand), Ids(running), Ids(completed), dropped, submitted)
      BY <1>i DEF OneInv
    <3>2. Places(IdsOf(pending), HandIds(hand), Ids(running) \ {e.id}, Ids(completed) \cup {e.id}, dropped, submitted)
      BY <3>1, <1>2, TaskMoves, Zenon
    <3> QED  BY <3>2, <1>2, <1>4
  <2> QED  BY <1>i, <1>2, <1>4, <2>1 DEF OneInv, histVars
<1>7. KernelInv'  BY <1>i, Unchanged DEF histVars
<1>8. CountInv'
  <2>1. completedTasks \in Nat /\ failedTasks \in Nat  BY <1>i DEF TypeOK
  <2>2. completedTasks' + failedTasks' = Cardinality(completed')
        /\ completedTasks' = Cardinality(Done(completed'))
    BY <1>i, <1>4, <2>1 DEF CountInv
  <2> QED  BY <1>i, <1>4, <2>2 DEF CountInv, histVars
<1> QED  BY <1>4, <1>5, <1>6, <1>7, <1>8 DEF IInv

LEMMA CancelPendingKeeps ==
  ASSUME IInv, NEW n \in DOMAIN pending, CancelPending(n)
  PROVE  IInv' /\ OrderKept(pending, pending') /\ completed \subseteq completed'
<1> DEFINE e == pending[n]
<1>i. TypeOK /\ OneInv /\ KernelInv /\ CountInv  BY DEF IInv
<1>1. pending \in Seq(Entry) /\ Unique(pending)  BY <1>i DEF TypeOK, OneInv
<1>2. e \in Entry /\ e.id \in IdsOf(pending)  BY <1>1 DEF IdsOf
<1>3. /\ Settle(e, "cancelled") /\ failedTasks' = failedTasks + 1
      /\ UNCHANGED <<hand, asleep, running, totalTasks, completedTasks, seen, histVars>>
  BY DEF CancelPending
<1>4. /\ pending' \in Seq(Entry) /\ Unique(pending') /\ OrderKept(pending, pending')
      /\ IdsOf(pending') = IdsOf(pending) \ {e.id}
      /\ \A k \in DOMAIN pending' : \E m \in DOMAIN pending : pending'[k] = pending[m]
  <2>1. Shortened(pending, n, pending')  BY <1>1, RemoveAtShortens DEF CancelPending
  <2> QED  BY <1>1, <2>1, ShortenedKeeps
<1> HIDE DEF e
<1>5. e.id \notin Ids(completed)  BY <1>i, <1>2 DEF OneInv, Places
<1>6. /\ completed \subseteq completed'
      /\ completed' \subseteq Settled /\ IsFiniteSet(completed') /\ SetUnique(completed')
      /\ Ids(completed') = Ids(completed) \cup {e.id}
      /\ Cardinality(completed') = Cardinality(completed) + 1
      /\ Cardinality(Done(completed')) = Cardinality(Done(completed))
  BY <1>i, <1>2, <1>3, <1>5, SettleAdds DEF TypeOK, OneInv, CountInv
<1>7. TypeOK'  BY <1>i, <1>3, <1>4, <1>6 DEF TypeOK, histVars
<1>8. OneInv'
  <2>1. Places(IdsOf(pending'), HandIds(hand), Ids(running), Ids(completed'), dropped, submitted)
    <3>1. Places(IdsOf(pending), HandIds(hand), Ids(running), Ids(completed), dropped, submitted)
      BY <1>i DEF OneInv
    <3>2. Places(IdsOf(pending) \ {e.id}, HandIds(hand), Ids(running), Ids(completed) \cup {e.id}, dropped, submitted)
      BY <3>1, <1>2, TaskMoves, Zenon
    <3> QED  BY <3>2, <1>4, <1>6
  <2> QED  BY <1>i, <1>3, <1>4, <1>6, <2>1 DEF OneInv, histVars
<1>9. KernelInv'  BY <1>i, <1>3, <1>4 DEF KernelInv, histVars
<1>10. CountInv'
  <2>1. completedTasks \in Nat /\ failedTasks \in Nat  BY <1>i DEF TypeOK
  <2>2. completedTasks' + failedTasks' = Cardinality(completed')  BY <1>i, <1>3, <1>6, <2>1 DEF CountInv
  <2> QED  BY <1>i, <1>3, <1>6, <2>2 DEF CountInv, histVars
<1> QED  BY <1>4, <1>6, <1>7, <1>8, <1>9, <1>10 DEF IInv

LEMMA AssignRunningKeeps ==
  ASSUME IInv, NEW e \in running, NEW k \in Kernels, AssignRunning(e, k)
  PROVE  IInv'
<1> DEFINE f == [e EXCEPT !.kernel = k]
<1>i. TypeOK /\ OneInv /\ KernelInv /\ CountInv  BY DEF IInv
<1>1. f \in Entry /\ f.id = e.id  BY <1>i DEF TypeOK, Entry
<1>2. running' = (running \ {e}) \cup {f}
  <2>1. running' = Put(running, f)  BY DEF AssignRunning
  <2>2. {x \in running : x.id # f.id} = running \ {e}
    <3> HIDE DEF f
    <3> QED  BY <1>i, <1>1 DEF OneInv, SetUnique
  <2> QED  BY <2>1, <2>2 DEF Put
<1>3. UNCHANGED <<pending, hand, asleep, completed, metricVars, histVars>>  BY DEF AssignRunning
<1> HIDE DEF f
<1>4. SetUnique(running \ {e}) /\ Ids(running \ {e}) = Ids(running) \ {e.id} /\ e.id \in Ids(running)
  BY <1>i, SetRemoves DEF OneInv
<1>5. SetUnique(running') /\ Ids(running') = Ids(running)
  <2>1. f.id \notin Ids(running \ {e})  BY <1>1, <1>4
  <2>2. SetUnique(running') /\ Ids(running') = Ids(running \ {e}) \cup {f.id}
    BY <1>2, <1>4, <2>1, SetAdds
  <2> QED  BY <1>1, <1>4, <2>2
<1>6. TypeOK'  BY <1>i, <1>1, <1>2, <1>3 DEF TypeOK, metricVars, histVars
<1>7. OneInv'  BY <1>i, <1>3, <1>5 DEF OneInv, histVars
<1>8. KernelInv' /\ CountInv'  BY <1>i, <1>3, Unchanged DEF histVars
<1> QED  BY <1>6, <1>7, <1>8 DEF IInv

LEMMA AssignPendingKeeps ==
  ASSUME IInv, NEW t \in Tasks, NEW k \in Kernels, AssignPending(t, k)
  PROVE  IInv' /\ OrderKept(pending, pending')
<1>i. TypeOK /\ OneInv /\ KernelInv /\ CountInv  BY DEF IInv
<1>1. pending \in Seq(Entry) /\ Unique(pending)  BY <1>i DEF TypeOK, OneInv
<1>2. /\ pending' = Requeued(t, k) /\ assigned' = assigned \cup {t}
      /\ t \in IdsOf(pending)
      /\ UNCHANGED <<hand, asleep, running, completed, metricVars, submitted, dropped>>
  BY PlacesMeaning DEF AssignPending
<1>3. \A n \in DOMAIN pending : pending[n] \in Entry  BY <1>1
<1>4. /\ DOMAIN pending' = DOMAIN pending
      /\ \A n \in DOMAIN pending :
           /\ pending'[n] \in Entry /\ pending'[n].id = pending[n].id
           /\ pending[n].id = t => pending'[n].kernel = k
           /\ pending[n].id # t => pending'[n] = pending[n]
  BY <1>2, <1>3 DEF Requeued, Entry
<1>5. pending' \in Seq(Entry)
  <2>1. DOMAIN pending = 1..Len(pending) /\ Len(pending) \in Nat  BY <1>1, LenProperties
  <2>2. pending' = [n \in 1..Len(pending) |-> pending'[n]]  BY <1>2, <2>1 DEF Requeued
  <2>3. \A n \in 1..Len(pending) : pending'[n] \in Entry  BY <1>4, <2>1
  <2> HIDE DEF Entry
  <2>4. pending' \in [1..Len(pending) -> Entry]  BY <2>2, <2>3
  <2> QED  BY ONLY <2>1, <2>4, SeqDef
<1>6. Unique(pending') /\ IdsOf(pending') = IdsOf(pending)  BY <1>1, <1>4 DEF Unique, IdsOf
<1>7. OrderKept(pending, pending')  BY <1>1, <1>4 DEF OrderKept, Unique
<1>8. TypeOK'  BY <1>i, <1>2, <1>5 DEF TypeOK, metricVars
<1>9. OneInv'  BY <1>i, <1>2, <1>6 DEF OneInv
<1>10. t \notin HandIds(hand) /\ t \notin dropped /\ t \in submitted
  BY <1>i, <1>2 DEF OneInv, Places
<1>11. KernelInv'
  <2>1. ASSUME NEW n \in DOMAIN pending', pending'[n].id \in assigned'
        PROVE  pending'[n].kernel # NoKernel
    BY <1>i, <1>2, <1>4, <2>1 DEF KernelInv
  <2>2. ASSUME NEW p \in Processors, hand'[p] # Nothing, hand'[p].id \in assigned'
        PROVE  hand'[p].kernel # NoKernel
    <3>1. hand[p].id # t  BY <1>2, <1>10, <2>2 DEF HandIds
    <3> QED  BY <1>i, <1>2, <2>2, <3>1 DEF KernelInv
  <2> QED  BY <1>i, <1>2, <1>10, <2>1, <2>2 DEF KernelInv
<1>12. CountInv'  BY <1>i, <1>2, Unchanged
<1> QED  BY <1>7, <1>8, <1>9, <1>11, <1>12 DEF IInv

LEMMA PopKeeps ==
  ASSUME IInv, NEW p \in Processors, Pop(p)
  PROVE  IInv' /\ OrderKept(pending, pending')
<1> DEFINE e == Head(pending)
<1>i. TypeOK /\ OneInv /\ KernelInv /\ CountInv  BY DEF IInv
<1>1. /\ pending \in Seq(Entry) /\ Unique(pending) /\ pending # <<>>
      /\ hand \in [Processors -> Entry \cup {Nothing}] /\ HandUnique(hand) /\ hand[p] = Nothing
  BY <1>i DEF TypeOK, OneInv, Pop
<1>2. /\ pending' = Tail(pending) /\ hand' = [hand EXCEPT ![p] = e]
      /\ UNCHANGED <<asleep, running, completed, metricVars, histVars>>
  BY DEF Pop
<1>3. 1 \in DOMAIN pending /\ e = pending[1] /\ e \in Entry /\ Shortened(pending, 1, pending')
  BY <1>1, <1>2, TailShortens
<1> HIDE DEF e
<1>4. /\ pending' \in Seq(Entry) /\ Unique(pending') /\ OrderKept(pending, pending')
      /\ IdsOf(pending') = IdsOf(pending) \ {e.id}
      /\ \A k \in DOMAIN pending' : \E m \in DOMAIN pending : pending'[k] = pending[m]
  BY <1>1, <1>3, ShortenedKeeps
<1>5. e.id \in IdsOf(pending)  BY <1>3 DEF IdsOf
<1>6. e.id \notin HandIds(hand)  BY <1>i, <1>5 DEF OneInv, Places
<1>7. /\ hand' \in [Processors -> Entry \cup {Nothing}] /\ HandUnique(hand')
      /\ HandIds(hand') = HandIds(hand) \cup {e.id}
  BY <1>1, <1>2, <1>3, <1>6, HandTakes
<1>8. TypeOK'  BY <1>i, <1>2, <1>4, <1>7 DEF TypeOK, metricVars, histVars
<1>9. OneInv'
  <2>1. Places(IdsOf(pending'), HandIds(hand'), Ids(running), Ids(completed), dropped, submitted)
    <3>1. Places(IdsOf(pending), HandIds(hand), Ids(running), Ids(completed), dropped, submitted)
      BY <1>i DEF OneInv
    <3>2. Places(IdsOf(pending) \ {e.id}, HandIds(hand) \cup {e.id}, Ids(running), Ids(completed), dropped, submitted)
      BY <3>1, <1>5, TaskMoves, Zenon
    <3> QED  BY <3>2, <1>4, <1>7
  <2> QED  BY <1>i, <1>2, <1>4, <1>7, <2>1 DEF OneInv, histVars
<1>10. KernelInv'
  <2>1. \A q \in Processors : hand'[q] = IF q = p THEN e ELSE hand[q]  BY <1>1, <1>2
  <2> QED  BY <1>i, <1>2, <1>3, <1>4, <2>1 DEF KernelInv, histVars
<1>11. CountInv'  BY <1>i, <1>2, Unchanged DEF histVars
<1> QED  BY <1>4, <1>8, <1>9, <1>10, <1>11 DEF IInv

LEMMA PlaceKeeps ==
  ASSUME IInv, NEW p \in Processors, Place(p)
  PROVE  IInv'
<1> DEFINE e == hand[p]
<1>i. TypeOK /\ OneInv /\ KernelInv /\ CountInv  BY DEF IInv
<1>1. /\ hand \in [Processors -> Entry \cup {Nothing}] /\ HandUnique(hand) /\ hand[p] # Nothing
      /\ SetUnique(running) /\ e \in Entry
  BY <1>i DEF TypeOK, OneInv, Place
<1>2. /\ hand' = [hand EXCEPT ![p] = Nothing]
      /\ UNCHANGED <<pending, asleep, completed, metricVars, submitted, assigned>>
  BY DEF Place
<1>3. /\ hand' \in [Processors -> Entry \cup {Nothing}] /\ HandUnique(hand')
      /\ HandIds(hand') = HandIds(hand) \ {e.id}
  BY <1>1, <1>2, HandGives
<1>4. e.id \in HandIds(hand)  BY <1>1 DEF HandIds
<1>5. e.id \notin Ids(running) /\ e.id \in submitted  BY <1>i, <1>4 DEF OneInv, Places
<1>6. \A q \in Processors : hand'[q] = IF q = p THEN Nothing ELSE hand[q]  BY <1>1, <1>2
<1>7. CountInv'  BY <1>i, <1>2, Unchanged
<1>8. CASE e.kernel # NoKernel
  <2>1. running' = running \cup {e} /\ dropped' = dropped
    <3>1. running' = Put(running, e) /\ dropped' = dropped  BY <1>8 DEF Place
    <3> HIDE DEF e
    <3> QED  BY <1>5, <3>1, PutAdds
  <2>2. SetUnique(running') /\ Ids(running') = Ids(running) \cup {e.id}
    <3> HIDE DEF e
    <3> QED  BY <1>1, <1>5, <2>1, SetAdds
  <2>3. TypeOK'  BY <1>i, <1>1, <1>2, <1>3, <2>1 DEF TypeOK, metricVars
  <2>4. OneInv'
    <3> HIDE DEF e
    <3>1. Places(IdsOf(pending), HandIds(hand'), Ids(running'), Ids(completed), dropped, submitted)
      <4>1. Places(IdsOf(pending), HandIds(hand), Ids(running), Ids(completed), dropped, submitted)
        BY <1>i DEF OneInv
      <4>2. Places(IdsOf(pending), HandIds(hand) \ {e.id}, Ids(running) \cup {e.id}, Ids(completed), dropped, submitted)
        BY <4>1, <1>4, TaskMoves, Zenon
      <4> QED  BY <4>2, <1>3, <2>2
    <3> QED  BY <1>i, <1>2, <1>3, <2>1, <2>2, <3>1 DEF OneInv
  <2>5. KernelInv'  BY <1>i, <1>2, <1>6, <2>1 DEF KernelInv
  <2> QED  BY <1>7, <2>3, <2>4, <2>5 DEF IInv
<1>9. CASE e.kernel = NoKernel
  <2>1. running' = running /\ dropped' = dropped \cup {e.id}  BY <1>9 DEF Place
  <2>2. TypeOK'
    <3>1. e.id \in Tasks  BY <1>1 DEF Entry
    <3> QED  BY <1>i, <1>2, <1>3, <2>1, <3>1 DEF TypeOK, metricVars
  <2>3. OneInv'
    <3> HIDE DEF e
    <3>1. Places(IdsOf(pending), HandIds(hand'), Ids(running), Ids(completed), dropped', submitted)
      <4>1. Places(IdsOf(pending), HandIds(hand), Ids(running), Ids(completed), dropped, submitted)
        BY <1>i DEF OneInv
      <4>2. Places(IdsOf(pending), HandIds(hand) \ {e.id}, Ids(running), Ids(completed), dropped \cup {e.id}, submitted)
        BY <4>1, <1>4, TaskMoves, Zenon
      <4> QED  BY <4>2, <1>3, <2>1
    <3> QED  BY <1>i, <1>2, <1>3, <2>1, <3>1 DEF OneInv
  <2>4. KernelInv'
    <3>1. e.id \notin assigned  BY <1>i, <1>1, <1>9 DEF KernelInv
    <3> QED  BY <1>i, <1>2, <1>6, <2>1, <3>1 DEF KernelInv
  <2> QED  BY <1>7, <2>2, <2>3, <2>4 DEF IInv
<1> QED  BY <1>8, <1>9

\* Every step keeps the invariant and the order of the queue, and takes no
\* settled task away.
LEMMA NextKeeps ==
  ASSUME IInv, [Next]_vars
  PROVE  IInv' /\ OrderKept(pending, pending') /\ completed \subseteq completed'
<1>i. TypeOK /\ OneInv /\ KernelInv /\ CountInv  BY DEF IInv
<1>u. pending' = pending => OrderKept(pending, pending')
  BY <1>i DEF OneInv, Unique, OrderKept
<1>1. ASSUME NEW c \in Clients, CountSubmitted(c)
      PROVE  IInv' /\ pending' = pending /\ completed' = completed
  BY <1>1, CountSubmittedKeeps DEF CountSubmitted
<1>2. ASSUME NEW c \in Clients, NEW t \in Tasks, SubmitTask(c, t)
      PROVE  IInv' /\ OrderKept(pending, pending') /\ completed' = completed
  BY <1>2, SubmitKeeps DEF SubmitTask
<1>3. ASSUME NEW e \in running, CancelRunning(e)
      PROVE  IInv' /\ pending' = pending /\ completed \subseteq completed'
  <2>1. Settle(e, "cancelled") /\ running' = running \ {e}
    BY <1>3 DEF CancelRunning, WithoutRunning
  <2>2. IInv' /\ completed \subseteq completed'
    BY <1>3, <2>1, SettleRunningKeeps DEF CancelRunning
  <2> QED  BY <1>3, <2>2 DEF CancelRunning
<1>4. ASSUME NEW n \in DOMAIN pending, CancelPending(n)
      PROVE  IInv' /\ OrderKept(pending, pending') /\ completed \subseteq completed'
  BY <1>4, CancelPendingKeeps
<1>5. ASSUME NEW e \in running, NEW k \in Kernels, AssignRunning(e, k)
      PROVE  IInv' /\ pending' = pending /\ completed' = completed
  BY <1>5, AssignRunningKeeps DEF AssignRunning
<1>6. ASSUME NEW t \in Tasks, NEW k \in Kernels, AssignPending(t, k)
      PROVE  IInv' /\ OrderKept(pending, pending') /\ completed' = completed
  BY <1>6, AssignPendingKeeps DEF AssignPending
<1>7. ASSUME NEW p \in Processors, Sleep(p) \/ SpuriousWakeup(p)
      PROVE  IInv' /\ pending' = pending /\ completed' = completed
  <2>1. asleep' \subseteq Processors /\ UNCHANGED <<pending, hand, running, completed, metricVars, histVars>>
    BY <1>i, <1>7 DEF Sleep, SpuriousWakeup, TypeOK
  <2>2. TypeOK'  BY <1>i, <2>1 DEF TypeOK, metricVars, histVars
  <2>3. OneInv' /\ KernelInv' /\ CountInv'  BY <1>i, <2>1, Unchanged DEF histVars
  <2> QED  BY <2>1, <2>2, <2>3 DEF IInv
<1>8. ASSUME NEW p \in Processors, Pop(p)
      PROVE  IInv' /\ OrderKept(pending, pending') /\ completed' = completed
  BY <1>8, PopKeeps DEF Pop
<1>9. ASSUME NEW p \in Processors, Place(p)
      PROVE  IInv' /\ pending' = pending /\ completed' = completed
  BY <1>9, PlaceKeeps DEF Place
<1>10. ASSUME NEW e \in running, NEW status \in Outcomes, UpdateTaskStatus(e, status)
       PROVE  IInv' /\ pending' = pending /\ completed \subseteq completed'
  <2>1. Settle(e, status) /\ running' = running \ {e} /\ CountOutcome(status)
        /\ UNCHANGED <<pending, hand, asleep, totalTasks, seen, histVars>>
    BY <1>10 DEF UpdateTaskStatus
  <2>2. IInv' /\ completed \subseteq completed'
    BY <2>1, SettleRunningKeeps DEF CountOutcome
  <2> QED  BY <2>1, <2>2
<1>11. CASE UNCHANGED vars
  <2>1. TypeOK'  BY <1>i, <1>11 DEF vars, TypeOK, metricVars, histVars
  <2>2. OneInv' /\ KernelInv' /\ CountInv'  BY <1>i, <1>11, Unchanged DEF vars, histVars
  <2> QED  BY <1>u, <1>11, <2>1, <2>2 DEF IInv, vars
<1>n. CASE Next
  BY <1>n, <1>u, <1>1, <1>2, <1>3, <1>4, <1>5, <1>6, <1>7, <1>8, <1>9, <1>10
  DEF Next, Processor
<1> QED  BY <1>11, <1>n

LEMMA Invariance == Spec => []IInv
<1>1. IInv /\ [Next]_vars => IInv'  BY NextKeeps
<1> QED  BY <1>1, InitIInv, PTL DEF Spec

-----------------------------------------------------------------------------
(* The theorems.                                                            *)

\* The variables have their types: the unlocked total_tasks++ included.
THEOREM TypesHold == Spec => []TypeOK
<1>1. IInv => TypeOK  BY DEF IInv
<1> QED  BY <1>1, Invariance, PTL

\* A task is in one place: no interleaving of submitTask, processTaskQueue,
\* cancelTask, assignTask and the reports duplicates or loses one.
THEOREM TasksInOnePlace == Spec => []OnePlace
<1>1. IInv => OnePlace
  <2> SUFFICES ASSUME IInv PROVE OnePlace  OBVIOUS
  <2>i. OneInv  BY DEF IInv
  <2>1. /\ \A m, n \in DOMAIN pending : pending[m].id = pending[n].id => m = n
        /\ \A p, q \in Processors : hand[p] # Nothing /\ hand[q] # Nothing /\ p # q
                                       => hand[p].id # hand[q].id
        /\ \A e, f \in running : e.id = f.id => e = f
        /\ \A e, f \in completed : e.id = f.id => e = f
    BY <2>i DEF OneInv, Unique, HandUnique, SetUnique
  <2>2. Places(Pending, InHand, Running, Completed, dropped, submitted)
    BY <2>i, PlacesMeaning DEF OneInv
  <2>3. ASSUME NEW t \in submitted
        PROVE  Cardinality({place \in {"p", "h", "r", "c", "d"} :
                      \/ place = "p" /\ t \in Pending
                      \/ place = "h" /\ t \in InHand
                      \/ place = "r" /\ t \in Running
                      \/ place = "c" /\ t \in Completed
                      \/ place = "d" /\ t \in dropped}) = 1
    <3> DEFINE here == {place \in {"p", "h", "r", "c", "d"} :
                      \/ place = "p" /\ t \in Pending
                      \/ place = "h" /\ t \in InHand
                      \/ place = "r" /\ t \in Running
                      \/ place = "c" /\ t \in Completed
                      \/ place = "d" /\ t \in dropped}
    <3>1. \E place : here = {place}
      <4>1. CASE t \in Pending
        <5>1. t \notin InHand /\ t \notin Running /\ t \notin Completed /\ t \notin dropped
          BY <2>2, <4>1 DEF Places
        <5>2. here = {"p"}  BY <4>1, <5>1
        <5> QED  BY <5>2
      <4>2. CASE t \in InHand
        <5>1. t \notin Pending /\ t \notin Running /\ t \notin Completed /\ t \notin dropped
          BY <2>2, <4>2 DEF Places
        <5>2. here = {"h"}  BY <4>2, <5>1
        <5> QED  BY <5>2
      <4>3. CASE t \in Running
        <5>1. t \notin Pending /\ t \notin InHand /\ t \notin Completed /\ t \notin dropped
          BY <2>2, <4>3 DEF Places
        <5>2. here = {"r"}  BY <4>3, <5>1
        <5> QED  BY <5>2
      <4>4. CASE t \in Completed
        <5>1. t \notin Pending /\ t \notin InHand /\ t \notin Running /\ t \notin dropped
          BY <2>2, <4>4 DEF Places
        <5>2. here = {"c"}  BY <4>4, <5>1
        <5> QED  BY <5>2
      <4>5. CASE t \in dropped
        <5>1. t \notin Pending /\ t \notin InHand /\ t \notin Running /\ t \notin Completed
          BY <2>2, <4>5 DEF Places
        <5>2. here = {"d"}  BY <4>5, <5>1
        <5> QED  BY <5>2
      <4> QED  BY <2>2, <4>1, <4>2, <4>3, <4>4, <4>5 DEF Places
    <3> HIDE DEF here
    <3>2. Cardinality(here) = 1  BY <3>1, FS_Singleton
    <3> QED  BY <3>2 DEF here
  <2>4. Pending \cup InHand \cup Running \cup Completed \cup dropped = submitted
    BY <2>2 DEF Places
  <2> QED  BY <2>1, <2>3, <2>4 DEF OnePlace
<1> QED  BY <1>1, Invariance, PTL

\* A task that assignTask found in the queue is never discarded by a processor.
THEOREM AssignedKept == Spec => []AssignedNeverDropped
<1>1. IInv => AssignedNeverDropped  BY DEF IInv, KernelInv, AssignedNeverDropped
<1> QED  BY <1>1, Invariance, PTL

\* The counters of settled tasks are exact and total_tasks never invents a task,
\* although its increment is not locked.
THEOREM CountersExact == Spec => []CountersMatch
<1>1. IInv => CountersMatch  BY DEF IInv, CountInv, Done, CountersMatch
<1> QED  BY <1>1, Invariance, PTL

\* The first outcome of a task is final: cancelTask and the reports overwrite
\* completed_tasks_[id], but never under an id that the map has already, since
\* a task is in one place.
THEOREM OutcomesKept == Spec => SettledForever
<1>1. IInv /\ [Next]_vars => [completed \subseteq completed']_vars  BY NextKeeps
<1> QED  BY <1>1, Invariance, PTL DEF Spec, SettledForever

\* The queues that cancelTask and assignTask rebuild keep the waiting order.
THEOREM OrderHolds == Spec => PendingOrderKept
<1>1. IInv /\ [Next]_vars =>
        [\A m, n \in DOMAIN pending, i, j \in DOMAIN pending' :
           (m < n /\ pending[m].id = pending'[i].id /\ pending[n].id = pending'[j].id) => i < j]_vars
  BY NextKeeps DEF OrderKept
<1> QED  BY <1>1, Invariance, PTL DEF Spec, PendingOrderKept
=============================================================================
