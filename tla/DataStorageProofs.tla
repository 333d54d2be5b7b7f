------------------------- MODULE DataStorageProofs --------------------------
(***************************************************************************)
(* Proofs about DataStorage: its types, that its counters never miss an    *)
(* item, and that the log implements the durable map, for all ids, keys,   *)
(* sizes and bounds, and for any number of ids.                            *)
(*                                                                         *)
(* The first part is about the operators of the model: least elements,     *)
(* sums over a finite set, and what Replay finds in a longer log.          *)
(***************************************************************************)
EXTENDS DataStorage, WellFoundedInduction, FiniteSetTheorems, TLAPS

\* Every non-empty set of naturals has a least element.
LEMMA LeastNatural ==
  ASSUME NEW S \in SUBSET Nat, S # {}
  PROVE  \E n \in S : \A m \in S : n <= m
<1> DEFINE R == OpToRel(<, Nat)
<1>1. IsWellFoundedOn(R, Nat)  BY NatLessThanWellFounded
<1>2. \A x, y \in Nat : <<y, x>> \in R <=> y < x  BY DEF OpToRel
<1> HIDE DEF R
<1>3. PICK x \in S : \A y \in S : <<y, x>> \notin R  BY <1>1, WFMin
<1>4. \A y \in S : ~ (y < x)  BY <1>2, <1>3
<1> QED  BY <1>4

\* Induction over the subsets of a finite set: a set of subsets that is not
\* empty has a member none of whose proper subsets is in it.
LEMMA MinimalSubset ==
  ASSUME NEW U, IsFiniteSet(U), NEW B \in SUBSET SUBSET U, B # {}
  PROVE  \E s \in B : \A t \in SUBSET s : t # s => t \notin B
<1> DEFINE N == {n \in Nat : \E s \in B : Cardinality(s) = n}
<1>1. \A s \in SUBSET U : IsFiniteSet(s) /\ Cardinality(s) \in Nat
  BY FS_Subset, FS_CardinalityType
<1>2. N # {}  BY <1>1
<1>3. PICK n \in N : \A m \in N : n <= m
  <2> HIDE DEF N
  <2>1. N \in SUBSET Nat  BY DEF N
  <2> QED  BY <1>2, <2>1, LeastNatural
<1>4. PICK s \in B : Cardinality(s) = n  OBVIOUS
<1>5. ASSUME NEW t \in SUBSET s, t # s, t \in B
      PROVE  FALSE
  <2>1. IsFiniteSet(s) /\ Cardinality(s) \in Nat /\ Cardinality(t) \in Nat  BY <1>1, <1>5
  <2>2. Cardinality(t) <= Cardinality(s) /\ Cardinality(t) # Cardinality(s)
    BY <2>1, <1>5, FS_Subset
  <2>3. Cardinality(t) \in N  BY <2>1, <1>5
  <2> QED  BY <1>3, <1>4, <2>1, <2>2, <2>3
<1> QED  BY <1>4, <1>5

-----------------------------------------------------------------------------
(* Sums over a finite set.  SumFunctionOnSet takes its elements one by one  *)
(* in an order that CHOOSE fixes; the lemmas show what does not depend on   *)
(* that order.                                                              *)

Pick(s) == CHOOSE x \in s : TRUE

\* The equation of the recursive function that SumFunctionOnSet is made of.
Sums(f, s, h) == IF s = {} THEN 0 ELSE f[Pick(s)] + h[s \ {Pick(s)}]

PartialSums(f, S) == CHOOSE h : h = [s \in SUBSET S |-> Sums(f, s, h)]

LEMMA SumIsPartialSum ==
  ASSUME NEW f, NEW S
  PROVE  SumFunctionOnSet(f, S) = PartialSums(f, S)[S]
BY DEF SumFunctionOnSet, FoldFunctionOnSet, MapThenFoldSet, PartialSums, Sums, Pick

\* The recursion has a solution: it is built by the size of the subset.
LEMMA SumsExist ==
  ASSUME NEW f, NEW S, IsFiniteSet(S)
  PROVE  \E h : h = [s \in SUBSET S |-> Sums(f, s, h)]
<1> DEFINE Upto(n, h) == /\ h = [s \in SUBSET S |-> h[s]]
                         /\ \A s \in SUBSET S : Cardinality(s) <= n => h[s] = Sums(f, s, h)
           Bad == {n \in Nat : ~ \E h : Upto(n, h)}
<1>1. \A s \in SUBSET S : IsFiniteSet(s) /\ Cardinality(s) \in Nat
                          /\ Cardinality(s) <= Cardinality(S)
  BY FS_Subset, FS_CardinalityType
<1>2. 0 \notin Bad
  <2> DEFINE h == [s \in SUBSET S |-> 0]
  <2>1. ASSUME NEW s \in SUBSET S, Cardinality(s) <= 0
        PROVE  h[s] = Sums(f, s, h)
    <3>1. s = {}  BY <1>1, <2>1, FS_EmptySet
    <3> QED  BY <3>1 DEF Sums
  <2>2. h = [s \in SUBSET S |-> h[s]]  OBVIOUS
  <2>3. Upto(0, h)  BY <2>1, <2>2
  <2> QED  BY <2>3
<1>3. ASSUME NEW n \in Nat, n \notin Bad
      PROVE  n + 1 \notin Bad
  <2>1. PICK h : Upto(n, h)  BY <1>3
  <2> DEFINE g == [s \in SUBSET S |-> IF Cardinality(s) <= n THEN h[s] ELSE Sums(f, s, h)]
  <2>2. ASSUME NEW s \in SUBSET S, Cardinality(s) <= n + 1
        PROVE  g[s] = Sums(f, s, g)
    <3>1. g[s] = Sums(f, s, h)  BY <2>1
    <3>2. CASE s = {}  BY <3>1, <3>2 DEF Sums
    <3>3. CASE s # {}
      <4> DEFINE r == s \ {Pick(s)}
      <4>1. Pick(s) \in s  BY <3>3 DEF Pick
      <4>2. Cardinality(r) = Cardinality(s) - 1  BY <4>1, <1>1, FS_RemoveElement
      <4>3. Cardinality(r) <= n /\ r \in SUBSET S  BY <4>2, <2>2, <1>1
      <4>4. g[r] = h[r]  BY <4>3
      <4> QED  BY <3>1, <3>3, <4>4 DEF Sums
    <3> QED  BY <3>2, <3>3
  <2>3. g = [s \in SUBSET S |-> g[s]]  OBVIOUS
  <2>4. Upto(n + 1, g)  BY <2>2, <2>3
  <2> QED  BY <2>4
<1>4. Bad = {}
  <2> HIDE DEF Bad
  <2>1. Bad \in SUBSET Nat  BY DEF Bad
  <2>2. SUFFICES ASSUME Bad # {} PROVE FALSE  OBVIOUS
  <2>3. PICK n \in Bad : \A m \in Bad : n <= m  BY <2>1, <2>2, LeastNatural
  <2>4. n # 0 /\ n \in Nat  BY <2>1, <1>2
  <2>5. n - 1 \in Nat /\ n - 1 \notin Bad  BY <2>1, <2>3, <2>4
  <2>6. (n - 1) + 1 \notin Bad  BY <2>5, <1>3
  <2>7. (n - 1) + 1 = n  BY <2>4
  <2> QED  BY <2>6, <2>7
<1>5. Cardinality(S) \notin Bad /\ Cardinality(S) \in Nat  BY <1>1, <1>4
<1>6. PICK h : Upto(Cardinality(S), h)  BY <1>5
<1>7. h = [s \in SUBSET S |-> Sums(f, s, h)]  BY <1>1, <1>6
<1> QED  BY <1>7

LEMMA PartialSumsEquation ==
  ASSUME NEW f, NEW S, IsFiniteSet(S)
  PROVE  /\ PartialSums(f, S) = [s \in SUBSET S |-> Sums(f, s, PartialSums(f, S))]
         /\ \A s \in SUBSET S : PartialSums(f, S)[s] = Sums(f, s, PartialSums(f, S))
<1>1. PartialSums(f, S) = [s \in SUBSET S |-> Sums(f, s, PartialSums(f, S))]
  BY SumsExist DEF PartialSums
<1> QED  BY <1>1

\* Two functions that agree on a set have the same partial sums there, also
\* when one table was made for a larger set.
LEMMA PartialSumsAgree ==
  ASSUME NEW f, NEW g, NEW S, NEW T, IsFiniteSet(S), T \subseteq S,
         \A x \in T : f[x] = g[x]
  PROVE  PartialSums(f, S)[T] = PartialSums(g, T)[T]
<1> DEFINE p == PartialSums(f, S)
           q == PartialSums(g, T)
           B == {s \in SUBSET T : p[s] # q[s]}
<1>1. IsFiniteSet(T)  BY FS_Subset
<1>2. \A s \in SUBSET T : p[s] = Sums(f, s, p) /\ q[s] = Sums(g, s, q)
  BY <1>1, PartialSumsEquation
<1> HIDE DEF p, q
<1>3. ASSUME NEW s \in B, \A t \in SUBSET s : t # s => t \notin B
      PROVE  FALSE
  <2>1. s # {}  BY <1>2 DEF Sums
  <2>2. Pick(s) \in s  BY <2>1 DEF Pick
  <2>3. p[s \ {Pick(s)}] = q[s \ {Pick(s)}]  BY <1>3, <2>2
  <2>4. f[Pick(s)] = g[Pick(s)]  BY <2>2
  <2> QED  BY <1>2, <2>1, <2>3, <2>4 DEF Sums
<1>4. B = {}
  <2> HIDE DEF B
  <2>1. B \in SUBSET SUBSET T  BY DEF B
  <2> QED  BY <1>1, <1>3, <2>1, MinimalSubset
<1> QED  BY <1>4 DEF p, q

LEMMA SumAgree ==
  ASSUME NEW f, NEW g, NEW S, IsFiniteSet(S), \A x \in S : f[x] = g[x]
  PROVE  SumFunctionOnSet(f, S) = SumFunctionOnSet(g, S)
BY SumIsPartialSum, PartialSumsAgree

LEMMA SumEmpty ==
  ASSUME NEW f
  PROVE  SumFunctionOnSet(f, {}) = 0
BY SumIsPartialSum, PartialSumsEquation, FS_EmptySet DEF Sums

LEMMA SumUnfold ==
  ASSUME NEW f, NEW S, IsFiniteSet(S), S # {}
  PROVE  SumFunctionOnSet(f, S) = f[Pick(S)] + SumFunctionOnSet(f, S \ {Pick(S)})
<1>1. PartialSums(f, S)[S] = f[Pick(S)] + PartialSums(f, S)[S \ {Pick(S)}]
  <2>1. S \in SUBSET S  OBVIOUS
  <2>2. PartialSums(f, S)[S] = Sums(f, S, PartialSums(f, S))  BY <2>1, PartialSumsEquation
  <2> QED  BY <2>2 DEF Sums
<1>2. PartialSums(f, S)[S \ {Pick(S)}] = PartialSums(f, S \ {Pick(S)})[S \ {Pick(S)}]
  BY PartialSumsAgree
<1> QED  BY <1>1, <1>2, SumIsPartialSum

LEMMA SumIsNat ==
  ASSUME NEW f, NEW S, IsFiniteSet(S), \A x \in S : f[x] \in Nat
  PROVE  SumFunctionOnSet(f, S) \in Nat
<1> DEFINE B == {s \in SUBSET S : SumFunctionOnSet(f, s) \notin Nat}
<1>1. ASSUME NEW s \in B, \A t \in SUBSET s : t # s => t \notin B
      PROVE  FALSE
  <2>1. s # {}  BY SumEmpty
  <2>2. Pick(s) \in s  BY <2>1 DEF Pick
  <2>3. SumFunctionOnSet(f, s \ {Pick(s)}) \in Nat  BY <1>1, <2>2
  <2>4. IsFiniteSet(s)  BY FS_Subset
  <2>5. SumFunctionOnSet(f, s) = f[Pick(s)] + SumFunctionOnSet(f, s \ {Pick(s)})
    BY <2>1, <2>4, SumUnfold
  <2>6. f[Pick(s)] \in Nat  BY <2>2
  <2> QED  BY <2>3, <2>5, <2>6
<1>2. B = {}
  <2> HIDE DEF B
  <2>1. B \in SUBSET SUBSET S  BY DEF B
  <2> QED  BY <1>1, <2>1, MinimalSubset
<1> QED  BY <1>2

\* Any element can be taken out, not only the one CHOOSE takes first.
LEMMA SumRemove ==
  ASSUME NEW f, NEW S, IsFiniteSet(S), \A x \in S : f[x] \in Nat, NEW x \in S
  PROVE  SumFunctionOnSet(f, S) = f[x] + SumFunctionOnSet(f, S \ {x})
<1> DEFINE Sum(s) == SumFunctionOnSet(f, s)
           B == {s \in SUBSET S : \E y \in s : Sum(s) # f[y] + Sum(s \ {y})}
<1>1. ASSUME NEW s \in SUBSET S
      PROVE  /\ IsFiniteSet(s) /\ Sum(s) \in Nat
             /\ s # {} => Pick(s) \in s /\ Sum(s) = f[Pick(s)] + Sum(s \ {Pick(s)})
  <2>1. IsFiniteSet(s)  BY FS_Subset
  <2>2. s # {} => Pick(s) \in s  BY DEF Pick
  <2> QED  BY <2>1, <2>2, SumIsNat, SumUnfold
<1> HIDE DEF Sum
<1>2. ASSUME NEW s \in B, \A t \in SUBSET s : t # s => t \notin B
      PROVE  FALSE
  <2>1. PICK y \in s : Sum(s) # f[y] + Sum(s \ {y})  OBVIOUS
  <2> DEFINE c == Pick(s)
  <2>2. s \in SUBSET S /\ c \in s /\ Sum(s) = f[c] + Sum(s \ {c})  BY <1>1
  <2> HIDE DEF c
  <2>3. y # c  BY <2>1, <2>2
  <2>4. y \in s \ {c} /\ c \in s \ {y}  BY <2>2, <2>3
  <2>5. s \ {c} \notin B /\ s \ {y} \notin B  BY <1>2, <2>2
  <2>6. Sum(s \ {c}) = f[y] + Sum((s \ {c}) \ {y})  BY <2>2, <2>4, <2>5
  <2>7. Sum(s \ {y}) = f[c] + Sum((s \ {y}) \ {c})  BY <2>2, <2>4, <2>5
  <2>8. Sum((s \ {c}) \ {y}) = Sum((s \ {y}) \ {c})
    <3>1. (s \ {c}) \ {y} = (s \ {y}) \ {c}  OBVIOUS
    <3> QED  BY <3>1
  <2>9. f[y] \in Nat /\ f[c] \in Nat /\ Sum((s \ {y}) \ {c}) \in Nat  BY <1>1, <2>2
  <2> QED  BY <2>1, <2>2, <2>6, <2>7, <2>8, <2>9
<1>3. B = {}
  <2> HIDE DEF B
  <2>1. B \in SUBSET SUBSET S  BY DEF B
  <2> QED  BY <1>2, <2>1, MinimalSubset
<1>4. Sum(S) = f[x] + Sum(S \ {x})  BY <1>3
<1> QED  BY <1>4 DEF Sum

LEMMA SumSplit ==
  ASSUME NEW f, NEW S, IsFiniteSet(S), \A x \in S : f[x] \in Nat, NEW T \in SUBSET S
  PROVE  SumFunctionOnSet(f, S) = SumFunctionOnSet(f, T) + SumFunctionOnSet(f, S \ T)
<1> DEFINE Sum(s) == SumFunctionOnSet(f, s)
           B == {t \in SUBSET T : Sum(S) # Sum(t) + Sum(S \ t)}
<1>1. \A s \in SUBSET S : Sum(s) \in Nat /\ \A y \in s : Sum(s) = f[y] + Sum(s \ {y})
  BY FS_Subset, SumIsNat, SumRemove
<1>2. Sum({}) = 0  BY SumEmpty
<1> HIDE DEF Sum
<1>3. ASSUME NEW t \in B, \A r \in SUBSET t : r # t => r \notin B
      PROVE  FALSE
  <2>1. t # {}
    <3>1. S \ {} = S /\ S \in SUBSET S  OBVIOUS
    <3>2. Sum(S \ {}) = Sum(S)  BY <3>1
    <3>3. Sum(S) = Sum({}) + Sum(S \ {})  BY <1>1, <1>2, <3>1, <3>2
    <3> QED  BY <3>3
  <2>2. PICK y \in t : TRUE  BY <2>1
  <2> DEFINE r == t \ {y}
  <2>3. Sum(S) = Sum(r) + Sum(S \ r)  BY <1>3, <2>2
  <2>4. Sum(t) = f[y] + Sum(r)  BY <1>1, <2>2
  <2>5. y \in S \ r /\ (S \ r) \ {y} = S \ t  BY <2>2
  <2>6. Sum(S \ r) = f[y] + Sum(S \ t)
    <3>1. S \ r \in SUBSET S  OBVIOUS
    <3>2. Sum(S \ r) = f[y] + Sum((S \ r) \ {y})  BY <1>1, <2>5, <3>1
    <3>3. Sum((S \ r) \ {y}) = Sum(S \ t)  BY <2>5
    <3> QED  BY <3>2, <3>3
  <2>7. f[y] \in Nat /\ Sum(r) \in Nat /\ Sum(S \ t) \in Nat  BY <1>1, <2>2
  <2> HIDE DEF r
  <2>8. Sum(S) # Sum(t) + Sum(S \ t)  OBVIOUS
  <2> QED  BY <2>3, <2>4, <2>6, <2>7, <2>8
<1>4. B = {}
  <2> HIDE DEF B
  <2>1. B \in SUBSET SUBSET T  BY DEF B
  <2>2. IsFiniteSet(T)  BY FS_Subset
  <2> QED  BY <1>3, <2>1, <2>2, MinimalSubset
<1>5. Sum(S) = Sum(T) + Sum(S \ T)  BY <1>4
<1> QED  BY <1>5 DEF Sum

\* A sum is no larger than another one that has its terms among its own.
LEMMA SumInjection ==
  ASSUME NEW f, NEW g, NEW S, NEW T, IsFiniteSet(S), IsFiniteSet(T),
         \A y \in T : f[y] \in Nat,
         NEW j \in [S -> T], \A x, y \in S : j[x] = j[y] => x = y,
         \A x \in S : g[x] = f[j[x]]
  PROVE  SumFunctionOnSet(g, S) <= SumFunctionOnSet(f, T)
<1> DEFINE F(s) == SumFunctionOnSet(f, s)
           G(s) == SumFunctionOnSet(g, s)
           Image(s) == {j[x] : x \in s}
           B == {s \in SUBSET S : ~ G(s) <= F(Image(s))}
<1>1. \A t \in SUBSET T : F(t) \in Nat /\ \A y \in t : F(t) = f[y] + F(t \ {y})
  BY FS_Subset, SumIsNat, SumRemove
<1>2. \A x \in S : g[x] \in Nat  OBVIOUS
<1>3. \A s \in SUBSET S : G(s) \in Nat /\ \A y \in s : G(s) = g[y] + G(s \ {y})
  BY <1>2, FS_Subset, SumIsNat, SumRemove
<1>4. G({}) = 0 /\ F({}) = 0  BY SumEmpty
<1>5. F(T) = F(Image(S)) + F(T \ Image(S))
  <2>1. Image(S) \in SUBSET T  OBVIOUS
  <2> HIDE DEF Image
  <2> QED  BY <2>1, SumSplit
<1> HIDE DEF F, G
<1>6. ASSUME NEW s \in B, \A r \in SUBSET s : r # s => r \notin B
      PROVE  FALSE
  <2>1. s # {}
    <3>1. Image({}) = {}  OBVIOUS
    <3>2. G({}) <= F(Image({}))  BY <1>4, <3>1
    <3> QED  BY <3>2
  <2>2. PICK x \in s : TRUE  BY <2>1
  <2>3. Image(s \ {x}) = Image(s) \ {j[x]}  OBVIOUS
  <2>4. G(s \ {x}) <= F(Image(s \ {x}))  BY <1>6, <2>2
  <2>5. Image(s) \in SUBSET T /\ j[x] \in Image(s)  OBVIOUS
  <2>6. s \in SUBSET S /\ ~ G(s) <= F(Image(s))  OBVIOUS
  <2> HIDE DEF Image
  <2>7. F(Image(s)) = f[j[x]] + F(Image(s) \ {j[x]})  BY <1>1, <2>5
  <2>8. G(s) = g[x] + G(s \ {x})  BY <1>3
  <2>9. g[x] = f[j[x]] /\ g[x] \in Nat  BY <1>2
  <2>10. F(Image(s) \ {j[x]}) \in Nat /\ G(s \ {x}) \in Nat  BY <1>1, <1>3, <2>5, <2>6
  <2> QED  BY <2>3, <2>4, <2>6, <2>7, <2>8, <2>9, <2>10
<1>7. B = {}
  <2> HIDE DEF B
  <2>1. B \in SUBSET SUBSET S  BY DEF B
  <2> QED  BY <1>6, <2>1, MinimalSubset
<1>8. G(S) <= F(Image(S))  BY <1>7
<1>9. Image(S) \in SUBSET T  OBVIOUS
<1> HIDE DEF Image
<1>10. F(T \ Image(S)) \in Nat /\ F(Image(S)) \in Nat /\ G(S) \in Nat  BY <1>1, <1>3, <1>9
<1>11. G(S) <= F(T)  BY <1>5, <1>8, <1>10
<1> QED  BY <1>11 DEF F, G

-----------------------------------------------------------------------------
(* The records of the file.                                                 *)

\* Position n holds the last record of item i.
LastOf(r, i, n) == /\ n \in 1..Len(r) /\ r[n].id = i
                   /\ \A m \in 1..Len(r) : r[m].id = i => m <= n

LEMMA LastExists ==
  ASSUME NEW r \in Seq(Records), NEW i, \E n \in 1..Len(r) : r[n].id = i
  PROVE  \E n : LastOf(r, i, n)
<1> DEFINE D == {d \in Nat : \E n \in 1..Len(r) : r[n].id = i /\ d = Len(r) - n}
<1>1. D \in SUBSET Nat /\ D # {}
  <2>1. PICK n \in 1..Len(r) : r[n].id = i  OBVIOUS
  <2>2. Len(r) \in Nat /\ Len(r) - n \in Nat  OBVIOUS
  <2>3. Len(r) - n \in D  BY <2>1, <2>2
  <2> QED  BY <2>3
<1> HIDE DEF D
<1>2. PICK d \in D : \A e \in D : d <= e  BY <1>1, LeastNatural
<1>3. PICK n \in 1..Len(r) : r[n].id = i /\ d = Len(r) - n  BY DEF D
<1>4. ASSUME NEW m \in 1..Len(r), r[m].id = i
      PROVE  m <= n
  <2>1. Len(r) - m \in D  BY <1>4 DEF D
  <2>2. d <= Len(r) - m  BY <1>2, <2>1
  <2> QED  BY <1>3, <2>2
<1>5. LastOf(r, i, n)  BY <1>3, <1>4 DEF LastOf
<1> QED  BY <1>5

\* Replay finds the last record of an item, or nothing when there is none.
LEMMA ReplayLast ==
  ASSUME NEW r \in Seq(Records), NEW i \in Ids
  PROVE  /\ \A n : LastOf(r, i, n) => Replay(r)[i] = r[n].item
         /\ (\A n \in 1..Len(r) : r[n].id # i) => Replay(r)[i] = Absent
<1> DEFINE of == {n \in 1..Len(r) : r[n].id = i}
<1>1. Replay(r)[i] = IF of = {} THEN Absent ELSE r[Max(of)].item  BY DEF Replay
<1>2. ASSUME NEW n, LastOf(r, i, n)
      PROVE  Max(of) = n
  <2>1. n \in of /\ \A m \in of : n >= m  BY <1>2 DEF LastOf
  <2>2. \A m \in of : (\A k \in of : m >= k) => m = n  BY <2>1
  <2> HIDE DEF of
  <2> QED  BY <2>1, <2>2 DEF Max
<1>3. ASSUME NEW n, LastOf(r, i, n)
      PROVE  of # {}
  BY <1>3 DEF LastOf
<1> HIDE DEF of
<1>4. \A n : LastOf(r, i, n) => Replay(r)[i] = r[n].item  BY <1>1, <1>2, <1>3
<1>5. (\A n \in 1..Len(r) : r[n].id # i) => of = {}  BY DEF of
<1> QED  BY <1>1, <1>4, <1>5

\* Replay is a map of items, and the item it finds is that of some record.
LEMMA ReplayType ==
  ASSUME NEW r \in Seq(Records)
  PROVE  /\ Replay(r) \in [Ids -> Items \cup {Absent}]
         /\ \A i \in Ids : Replay(r)[i] # Absent =>
              \E n \in 1..Len(r) : r[n].id = i /\ Replay(r)[i] = r[n].item
<1>1. ASSUME NEW i \in Ids
      PROVE  \/ Replay(r)[i] = Absent
             \/ \E n \in 1..Len(r) : r[n].id = i /\ Replay(r)[i] = r[n].item
  <2>1. CASE \A n \in 1..Len(r) : r[n].id # i  BY <2>1, ReplayLast
  <2>2. CASE \E n \in 1..Len(r) : r[n].id = i
    <3>1. PICK n : LastOf(r, i, n)  BY <2>2, LastExists
    <3>2. Replay(r)[i] = r[n].item  BY <3>1, ReplayLast
    <3> QED  BY <3>1, <3>2 DEF LastOf
  <2> QED  BY <2>1, <2>2
<1>2. Replay(r) = [i \in Ids |-> Replay(r)[i]]  BY DEF Replay
<1>3. \A n \in 1..Len(r) : r[n].item \in Items
  <2>1. \A n \in 1..Len(r) : r[n] \in Records  OBVIOUS
  <2> QED  BY <2>1 DEF Records
<1>4. \A i \in Ids : Replay(r)[i] \in Items \cup {Absent}  BY <1>1, <1>3
<1> HIDE DEF Replay
<1> QED  BY <1>1, <1>2, <1>4

\* What is appended hides what was there, item by item.
LEMMA ReplayConcat ==
  ASSUME NEW a \in Seq(Records), NEW b \in Seq(Records), NEW i \in Ids
  PROVE  Replay(a \o b)[i] = IF \E n \in 1..Len(b) : b[n].id = i
                             THEN Replay(b)[i] ELSE Replay(a)[i]
<1> DEFINE c == a \o b
<1>1. /\ c \in Seq(Records) /\ Len(c) = Len(a) + Len(b)
      /\ Len(a) \in Nat /\ Len(b) \in Nat
      /\ \A n \in 1..Len(a) : c[n] = a[n]
      /\ \A n \in 1..Len(b) : c[Len(a) + n] = b[n]
  OBVIOUS
<1>2. \A n \in 1..Len(c) : n \in 1..Len(a) \/ n - Len(a) \in 1..Len(b)
  BY <1>1
<1> HIDE DEF c
<1>3. \A n \in 1..Len(c) : n \notin 1..Len(a) => c[n] = b[n - Len(a)]
  <2> TAKE n \in 1..Len(c)
  <2>1. n \notin 1..Len(a) => n - Len(a) \in 1..Len(b) /\ Len(a) + (n - Len(a)) = n
    BY <1>1, <1>2
  <2> QED  BY <1>1, <2>1
<1>4. CASE \E n \in 1..Len(b) : b[n].id = i
  <2>1. PICK n : LastOf(b, i, n)  BY <1>4, LastExists
  <2>2. Len(a) + n \in 1..Len(c) /\ c[Len(a) + n] = b[n] /\ b[n].id = i
    BY <1>1, <2>1 DEF LastOf
  <2>3. ASSUME NEW m \in 1..Len(c), c[m].id = i
        PROVE  m <= Len(a) + n
    <3>1. CASE m \in 1..Len(a)  BY <1>1, <2>1, <3>1 DEF LastOf
    <3>2. CASE m \notin 1..Len(a)
      <4>1. m - Len(a) \in 1..Len(b) /\ b[m - Len(a)].id = i  BY <1>2, <1>3, <2>3, <3>2
      <4>2. m - Len(a) <= n  BY <2>1, <4>1 DEF LastOf
      <4> QED  BY <1>1, <2>1, <4>2 DEF LastOf
    <3> QED  BY <3>1, <3>2
  <2>4. LastOf(c, i, Len(a) + n)  BY <2>2, <2>3 DEF LastOf
  <2>5. Replay(c)[i] = c[Len(a) + n].item  BY <1>1, <2>4, ReplayLast
  <2>6. Replay(b)[i] = b[n].item  BY <2>1, ReplayLast
  <2> QED  BY <1>4, <2>2, <2>5, <2>6 DEF c
<1>5. CASE ~ \E n \in 1..Len(b) : b[n].id = i
  <2>1. ASSUME NEW m \in 1..Len(c), c[m].id = i
        PROVE  m \in 1..Len(a) /\ a[m].id = i
    BY <1>1, <1>2, <1>3, <1>5, <2>1
  <2>2. CASE \A n \in 1..Len(a) : a[n].id # i
    <3>1. \A n \in 1..Len(c) : c[n].id # i  BY <2>1, <2>2
    <3>2. Replay(c)[i] = Absent /\ Replay(a)[i] = Absent  BY <1>1, <2>2, <3>1, ReplayLast
    <3> QED  BY <1>5, <3>2 DEF c
  <2>3. CASE \E n \in 1..Len(a) : a[n].id = i
    <3>1. PICK n : LastOf(a, i, n)  BY <2>3, LastExists
    <3>2. n \in 1..Len(c) /\ c[n] = a[n] /\ c[n].id = i  BY <1>1, <3>1 DEF LastOf
    <3>3. LastOf(c, i, n)  BY <2>1, <3>1, <3>2 DEF LastOf
    <3>4. Replay(c)[i] = a[n].item /\ Replay(a)[i] = a[n].item
      BY <1>1, <3>1, <3>2, <3>3, ReplayLast
    <3> QED  BY <1>5, <3>4 DEF c
  <2> QED  BY <2>2, <2>3
<1> QED  BY <1>4, <1>5

LEMMA ReplayAppend ==
  ASSUME NEW a \in Seq(Records), NEW r \in Records
  PROVE  /\ Replay(a \o <<r>>) = [Replay(a) EXCEPT ![r.id] = r.item]
         /\ Append(a, r) = a \o <<r>>
<1>1. <<r>> \in Seq(Records) /\ Len(<<r>>) = 1 /\ <<r>>[1] = r  OBVIOUS
<1>2. LastOf(<<r>>, r.id, 1)  BY <1>1 DEF LastOf
<1>3. r.id \in Ids  BY DEF Records
<1>4. Replay(<<r>>)[r.id] = r.item  BY <1>1, <1>2, <1>3, ReplayLast
<1>5. \A i \in Ids : Replay(a \o <<r>>)[i] = IF i = r.id THEN r.item ELSE Replay(a)[i]
  <2> TAKE i \in Ids
  <2>1. (\E n \in 1..Len(<<r>>) : <<r>>[n].id = i) <=> i = r.id  BY <1>1
  <2>2. Replay(a \o <<r>>)[i] = IF \E n \in 1..Len(<<r>>) : <<r>>[n].id = i
                               THEN Replay(<<r>>)[i] ELSE Replay(a)[i]
    BY <1>1, ReplayConcat
  <2> QED  BY <1>4, <2>1, <2>2
<1>6. a \o <<r>> \in Seq(Records)  BY <1>1
<1>7. Replay(a \o <<r>>) \in [Ids -> Items \cup {Absent}] /\ Replay(a) \in [Ids -> Items \cup {Absent}]
  BY <1>6, ReplayType
<1>8. Replay(a \o <<r>>) = [Replay(a) EXCEPT ![r.id] = r.item]  BY <1>5, <1>7
<1>9. Append(a, r) = a \o <<r>>  OBVIOUS
<1> QED  BY <1>8, <1>9

LEMMA ReplayEmpty == Replay(<<>>) = NoItems
<1>1. <<>> \in Seq(Records) /\ \A n \in 1..Len(<<>>) : FALSE  OBVIOUS
<1>2. ASSUME NEW i \in Ids
      PROVE  Replay(<<>>)[i] = Absent
  <2>1. \A n \in 1..Len(<<>>) : <<>>[n].id # i  BY <1>1
  <2> QED  BY <1>1, <2>1, ReplayLast
<1>3. Replay(<<>>) = [i \in Ids |-> Replay(<<>>)[i]]  BY DEF Replay
<1> QED  BY <1>2, <1>3 DEF NoItems

-----------------------------------------------------------------------------
(* The number of items of a map and their total size.                       *)

Maps   == [Ids -> Items \cup {Absent}]
In(m)  == {i \in Ids : m[i] # Absent}
Size(m) == SumFunction([i \in In(m) |-> m[i].size])

LEMMA ItemSizes ==
  ASSUME NEW m \in Maps
  PROVE  /\ \A i \in In(m) : m[i] \in Items /\ m[i].size \in Nat
         /\ Size(m) = SumFunctionOnSet([i \in In(m) |-> m[i].size], In(m))
<1>1. \A i \in In(m) : m[i] \in Items  BY DEF Maps, In
<1>2. \A v \in Items : v.size \in Nat  BY SizesAssumption DEF Items
<1>3. DOMAIN [i \in In(m) |-> m[i].size] = In(m)  OBVIOUS
<1> QED  BY <1>1, <1>2, <1>3 DEF Size, SumFunction

LEMMA SizeIsNat ==
  ASSUME NEW m \in Maps, IsFiniteSet(In(m))
  PROVE  Size(m) \in Nat
<1>1. \A i \in In(m) : [k \in In(m) |-> m[k].size][i] \in Nat  BY ItemSizes
<1> HIDE DEF In
<1> QED  BY <1>1, ItemSizes, SumIsNat

\* The items other than i, whose sizes a change of i leaves alone.
LEMMA SizeWithout ==
  ASSUME NEW m \in Maps, IsFiniteSet(In(m)), NEW i \in In(m)
  PROVE  Size(m) = m[i].size + SumFunctionOnSet([k \in In(m) \ {i} |-> m[k].size], In(m) \ {i})
<1> DEFINE f == [k \in In(m) |-> m[k].size]
           g == [k \in In(m) \ {i} |-> m[k].size]
<1>1. \A k \in In(m) : f[k] \in Nat  BY ItemSizes
<1>2. f[i] = m[i].size  OBVIOUS
<1>3. \A k \in In(m) \ {i} : f[k] = g[k]  OBVIOUS
<1>4. Size(m) = SumFunctionOnSet(f, In(m))  BY ItemSizes
<1>5. IsFiniteSet(In(m) \ {i})  BY FS_RemoveElement
<1> HIDE DEF f, g
<1>6. SumFunctionOnSet(f, In(m)) = f[i] + SumFunctionOnSet(f, In(m) \ {i})
  BY <1>1, SumRemove
<1>7. SumFunctionOnSet(f, In(m) \ {i}) = SumFunctionOnSet(g, In(m) \ {i})
  BY <1>3, <1>5, SumAgree
<1> QED  BY <1>2, <1>4, <1>6, <1>7 DEF g

LEMMA PutNew ==
  ASSUME NEW m \in Maps, IsFiniteSet(In(m)), NEW i \in Ids, m[i] = Absent, NEW v \in Items
  PROVE  LET w == [m EXCEPT ![i] = v]
         IN  /\ w \in Maps
             /\ IsFiniteSet(In(w)) /\ Cardinality(In(w)) = Cardinality(In(m)) + 1
             /\ Size(w) = Size(m) + v.size
<1> DEFINE w == [m EXCEPT ![i] = v]
<1>1. w \in Maps /\ w[i] = v /\ \A k \in Ids \ {i} : w[k] = m[k]  BY DEF Maps
<1>2. i \notin In(m) /\ In(w) = In(m) \cup {i}  BY <1>1, SentinelAssumption DEF In
<1>3. IsFiniteSet(In(w)) /\ Cardinality(In(w)) = Cardinality(In(m)) + 1
  BY <1>2, FS_AddElement
<1>4. In(w) \ {i} = In(m) /\ i \in In(w)  BY <1>2
<1>5. Size(w) = v.size + SumFunctionOnSet([k \in In(w) \ {i} |-> w[k].size], In(w) \ {i})
  BY <1>1, <1>3, <1>4, SizeWithout
<1>6. [k \in In(w) \ {i} |-> w[k].size] = [k \in In(m) |-> m[k].size]
  BY <1>1, <1>2, <1>4 DEF In
<1>7. Size(w) = v.size + Size(m)  BY <1>4, <1>5, <1>6, ItemSizes
<1>8. v.size \in Nat /\ Size(m) \in Nat  BY SizesAssumption, SizeIsNat DEF Items
<1> QED  BY <1>1, <1>3, <1>7, <1>8

LEMMA PutOver ==
  ASSUME NEW m \in Maps, IsFiniteSet(In(m)), NEW i \in In(m), NEW v \in Items
  PROVE  LET w == [m EXCEPT ![i] = v]
         IN  /\ w \in Maps
             /\ In(w) = In(m)
             /\ Size(w) = Size(m) - m[i].size + v.size
<1> DEFINE w == [m EXCEPT ![i] = v]
           rest == SumFunctionOnSet([k \in In(m) \ {i} |-> m[k].size], In(m) \ {i})
<1>1. i \in Ids /\ w \in Maps /\ w[i] = v /\ \A k \in Ids \ {i} : w[k] = m[k]  BY DEF Maps, In
<1>2. In(w) = In(m)  BY <1>1, SentinelAssumption DEF In
<1>3. [k \in In(w) \ {i} |-> w[k].size] = [k \in In(m) \ {i} |-> m[k].size]
  BY <1>1, <1>2 DEF In
<1>4. Size(w) = v.size + rest
  <2>1. Size(w) = w[i].size + SumFunctionOnSet([k \in In(w) \ {i} |-> w[k].size], In(w) \ {i})
    BY <1>1, <1>2, SizeWithout
  <2> QED  BY <1>1, <1>2, <1>3, <2>1
<1>5. Size(m) = m[i].size + rest  BY SizeWithout
<1>6. rest \in Nat
  <2>1. \A k \in In(m) \ {i} : [x \in In(m) \ {i} |-> m[x].size][k] \in Nat  BY ItemSizes
  <2>2. IsFiniteSet(In(m) \ {i})  BY FS_RemoveElement
  <2> QED  BY <2>1, <2>2, SumIsNat
<1>7. v.size \in Nat /\ m[i].size \in Nat  BY SizesAssumption, ItemSizes DEF Items
<1> HIDE DEF rest
<1>8. Size(w) = Size(m) - m[i].size + v.size  BY <1>4, <1>5, <1>6, <1>7
<1> QED  BY <1>1, <1>2, <1>8

LEMMA Erased ==
  ASSUME NEW m \in Maps, IsFiniteSet(In(m)), NEW S \in SUBSET In(m)
  PROVE  LET w == [i \in Ids |-> IF i \in S THEN Absent ELSE m[i]]
         IN  /\ w \in Maps
             /\ IsFiniteSet(In(w))
             /\ Cardinality(In(w)) = Cardinality(In(m)) - Cardinality(S)
             /\ Size(w) = Size(m) - SumFunction([i \in S |-> m[i].size])
<1> DEFINE w == [i \in Ids |-> IF i \in S THEN Absent ELSE m[i]]
           f == [i \in In(m) |-> m[i].size]
           g == [i \in S |-> m[i].size]
           h == [i \in In(w) |-> w[i].size]
<1>1. w \in Maps /\ In(w) = In(m) \ S  BY DEF Maps, In
<1>2. IsFiniteSet(In(w)) /\ IsFiniteSet(S) /\ In(m) \cap S = S
  BY <1>1, FS_Difference, FS_Subset
<1>3. Cardinality(In(w)) = Cardinality(In(m)) - Cardinality(S)
  BY <1>1, <1>2, FS_Difference
<1>4. \A i \in In(m) : f[i] \in Nat  BY ItemSizes
<1>5. Size(m) = SumFunctionOnSet(f, In(m)) /\ Size(w) = SumFunctionOnSet(h, In(w))
  BY <1>1, ItemSizes
<1>6. SumFunction(g) = SumFunctionOnSet(g, S)
  <2>1. DOMAIN g = S  OBVIOUS
  <2> QED  BY <2>1 DEF SumFunction
<1>7. \A i \in S : g[i] = f[i]  OBVIOUS
<1>8. \A i \in In(m) \ S : h[i] = f[i]  BY <1>1 DEF In
<1> HIDE DEF f, g, h, w
<1>9. SumFunctionOnSet(f, In(m)) = SumFunctionOnSet(f, S) + SumFunctionOnSet(f, In(m) \ S)
  BY <1>4, SumSplit
<1>10. SumFunctionOnSet(g, S) = SumFunctionOnSet(f, S)  BY <1>2, <1>7, SumAgree
<1>11. SumFunctionOnSet(h, In(m) \ S) = SumFunctionOnSet(f, In(m) \ S)
  BY <1>1, <1>2, <1>8, SumAgree
<1>12. SumFunctionOnSet(f, S) \in Nat /\ SumFunctionOnSet(f, In(m) \ S) \in Nat
  BY <1>1, <1>2, <1>4, SumIsNat
<1>13. Size(w) = Size(m) - SumFunction(g)
  BY <1>1, <1>5, <1>6, <1>9, <1>10, <1>11, <1>12
<1> QED  BY <1>1, <1>2, <1>3, <1>13 DEF w, g

LEMMA NoItemsEmpty ==
  NoItems \in Maps /\ IsFiniteSet(In(NoItems)) /\ Cardinality(In(NoItems)) = 0 /\ Size(NoItems) = 0
<1>1. NoItems \in Maps /\ In(NoItems) = {}  BY DEF NoItems, Maps, In
<1>2. Size(NoItems) = 0  BY <1>1, ItemSizes, SumEmpty
<1> QED  BY <1>1, <1>2, FS_EmptySet

\* A replayed file has at least one record for each item it yields.
LEMMA Replayed ==
  ASSUME NEW r \in Seq(Records)
  PROVE  /\ Replay(r) \in Maps
         /\ IsFiniteSet(In(Replay(r))) /\ Cardinality(In(Replay(r))) <= Len(r)
         /\ Size(Replay(r)) <= SumFunction([n \in 1..Len(r) |-> r[n].item.size])
         /\ SumFunction([n \in 1..Len(r) |-> r[n].item.size]) \in Nat
<1> DEFINE m == Replay(r)
           T == 1..Len(r)
           j == [i \in In(m) |-> CHOOSE n \in T : r[n].id = i /\ m[i] = r[n].item]
           f == [n \in T |-> r[n].item.size]
           g == [i \in In(m) |-> m[i].size]
<1>1. m \in Maps  BY ReplayType DEF Maps
<1>2. \A i \in In(m) : j[i] \in T /\ r[j[i]].id = i /\ m[i] = r[j[i]].item
  <2> HIDE DEF m, T
  <2>1. \A i \in In(m) : \E n \in T : r[n].id = i /\ m[i] = r[n].item
    BY ReplayType DEF m, T, In
  <2> QED  BY <2>1
<1>3. IsFiniteSet(T) /\ Cardinality(T) = Len(r)
  <2>1. Len(r) \in Nat  OBVIOUS
  <2> QED  BY <2>1, FS_Interval
<1>4. \A n \in T : f[n] \in Nat
  <2>1. \A n \in T : r[n] \in Records  OBVIOUS
  <2> QED  BY <2>1, SizesAssumption DEF Records, Items
<1>5. \A i \in In(m) : g[i] = f[j[i]]  BY <1>2
<1>6. SumFunction(f) = SumFunctionOnSet(f, T) /\ Size(m) = SumFunctionOnSet(g, In(m))
  <2>1. DOMAIN f = T  OBVIOUS
  <2> HIDE DEF m
  <2>2. Size(m) = SumFunctionOnSet(g, In(m))  BY <1>1, ItemSizes
  <2> QED  BY <2>1, <2>2 DEF SumFunction
<1>7. j \in [In(m) -> T] /\ \A x, y \in In(m) : j[x] = j[y] => x = y  BY <1>2
<1> HIDE DEF m, T, j, f, g
<1>8. j \in Injection(In(m), T)  BY <1>7 DEF Injection, IsInjective
<1>9. IsFiniteSet(In(m)) /\ Cardinality(In(m)) <= Len(r)  BY <1>3, <1>8, FS_Injection
<1>10. SumFunctionOnSet(g, In(m)) <= SumFunctionOnSet(f, T)
  BY <1>3, <1>4, <1>5, <1>7, <1>9, SumInjection
<1>11. SumFunctionOnSet(f, T) \in Nat  BY <1>3, <1>4, SumIsNat
<1> QED  BY <1>1, <1>6, <1>9, <1>10, <1>11 DEF m, T, f

-----------------------------------------------------------------------------
(* The inductive invariant.                                                 *)

StoredFinite == IsFiniteSet(Stored)

\* compactStorage created its temporary file, so the storage file is writable.
CompactingWritable == pc \in {"compact", "close"} => writable

\* CountersNeverUnder and StoredFinite in terms of the map.
Counted(m, n, size) ==
  /\ m \in Maps /\ IsFiniteSet(In(m))
  /\ n \in Int /\ size \in Int
  /\ n >= Cardinality(In(m)) /\ size >= Size(m)

IInv == TypeOK /\ StoredFinite /\ CountersNeverUnder /\ CompactingWritable

LEMMA CountedIs ==
  /\ TypeOK /\ StoredFinite /\ CountersNeverUnder => Counted(items, totalItems, totalSize)
  /\ Counted(items, totalItems, totalSize) => StoredFinite /\ CountersNeverUnder
<1>1. Stored = In(items) /\ SizeStored = Size(items)
  BY DEF Stored, In, SizeStored, Size
<1> QED  BY <1>1 DEF Counted, TypeOK, Maps, StoredFinite, CountersNeverUnder

LEMMA InitIInv == Init => IInv
<1> SUFFICES ASSUME Init PROVE IInv  OBVIOUS
<1>1. TypeOK
  <2>1. <<>> \in Seq(Records)  OBVIOUS
  <2>2. items \in [Ids -> Items \cup {Absent}]  BY NoItemsEmpty DEF Init, Maps
  <2>3. log \in Seq(Records) /\ torn \in Records \cup {NoRecord} /\ after \in BOOLEAN
    BY <2>1 DEF Init
  <2>4. pc \in {"down", "up", "compact", "close"} /\ writable \in BOOLEAN
        /\ totalItems \in Int /\ totalSize \in Int
    BY DEF Init
  <2> QED  BY <2>2, <2>3, <2>4 DEF TypeOK
<1>2. Counted(items, totalItems, totalSize)  BY NoItemsEmpty DEF Init, Counted
<1> QED  BY <1>1, <1>2, CountedIs DEF IInv, Init, CompactingWritable

\* persistAll keeps the file a sequence of records.
LEMMA PersistAllType ==
  ASSUME TypeOK, NEW records \in Seq(Records), PersistAll(records)
  PROVE  log' \in Seq(Records) /\ torn' \in Records \cup {NoRecord} /\ after' \in BOOLEAN
BY DEF TypeOK, PersistAll

LEMMA RecordsOfItems ==
  ASSUME NEW i \in Ids, NEW item \in Items
  PROVE  [id |-> i, item |-> item] \in Records /\ <<[id |-> i, item |-> item]>> \in Seq(Records)
<1>1. [id |-> i, item |-> item] \in Records  BY DEF Records
<1> QED  BY <1>1

\* What compactStorage appends: one record for every stored item.
LEMMA RecordsOfMap ==
  ASSUME TypeOK, StoredFinite, NEW order \in [1..Cardinality(Stored) -> Stored]
  PROVE  [n \in DOMAIN order |-> [id |-> order[n], item |-> items[order[n]]]] \in Seq(Records)
<1>1. Cardinality(Stored) \in Nat  BY FS_CardinalityType DEF StoredFinite
<1>2. \A i \in Stored : [id |-> i, item |-> items[i]] \in Records
  BY DEF Stored, TypeOK, Records
<1> HIDE DEF Stored, Records
<1>3. DOMAIN order = 1..Cardinality(Stored) /\ \A n \in DOMAIN order : order[n] \in Stored
  OBVIOUS
<1> QED  BY <1>1, <1>2, <1>3

LEMMA MisreadRecords ==
  ASSUME TypeOK
  PROVE  Misread \subseteq Records
<1>1. CASE torn = NoRecord  BY <1>1 DEF Misread
<1>2. CASE torn # NoRecord
  <2>1. torn \in Records  BY <1>2 DEF TypeOK
  <2> QED  BY <1>2, <2>1 DEF Misread, Records, Items
<1> QED  BY <1>1, <1>2

LEMMA LoadCounted ==
  ASSUME NEW r \in Seq(Records), Load(r)
  PROVE  Counted(items', totalItems', totalSize')
<1>1. Len(r) \in Nat  OBVIOUS
<1>2. Cardinality(In(Replay(r))) \in Nat /\ Size(Replay(r)) \in Nat
  BY Replayed, FS_CardinalityType, SizeIsNat
<1> QED  BY <1>1, <1>2, Replayed DEF Load, Counted

\* Every step keeps the invariant: the types, and the counters of the map.
LEMMA NextIInv == IInv /\ [Next]_vars => IInv'
<1> SUFFICES ASSUME IInv, [Next]_vars PROVE IInv'  OBVIOUS
<1>i. TypeOK /\ Counted(items, totalItems, totalSize) /\ CompactingWritable /\ StoredFinite
  BY CountedIs DEF IInv
<1>c. Cardinality(In(items)) \in Nat /\ Size(items) \in Nat
  BY <1>i, FS_CardinalityType, SizeIsNat DEF Counted
<1>s. Stored = In(items)  BY DEF Stored, In
<1>t. /\ pc' \in {"down", "up", "compact", "close"}
      /\ log' \in Seq(Records) /\ torn' \in Records \cup {NoRecord} /\ after' \in BOOLEAN
      /\ writable' \in BOOLEAN
      /\ Counted(items', totalItems', totalSize')
      /\ CompactingWritable'
      => IInv'
  <2>1. Counted(items', totalItems', totalSize') =>
          items' \in [Ids -> Items \cup {Absent}] /\ totalItems' \in Int /\ totalSize' \in Int
    BY DEF Counted, Maps
  <2>2. Counted(items', totalItems', totalSize') => (StoredFinite /\ CountersNeverUnder)'
    <3>1. Stored' = In(items') /\ SizeStored' = Size(items')
      BY DEF Stored, In, SizeStored, Size
    <3> QED  BY <3>1 DEF Counted, StoredFinite, CountersNeverUnder
  <2> QED  BY <2>1, <2>2 DEF IInv, TypeOK
<1>1. ASSUME NEW i \in Ids, NEW item \in Items, StoreData(i, item)
      PROVE  IInv'
  <2>1. items[i] = Absent  BY <1>1 DEF StoreData, Fresh, Stored
  <2>2. items' = [items EXCEPT ![i] = item]  BY <1>1 DEF StoreData
  <2>3. /\ items' \in Maps /\ IsFiniteSet(In(items'))
        /\ Cardinality(In(items')) = Cardinality(In(items)) + 1
        /\ Size(items') = Size(items) + item.size
    BY <1>i, <2>1, <2>2, PutNew DEF Counted
  <2>4. item.size \in Nat  BY SizesAssumption DEF Items
  <2>5. Counted(items', totalItems', totalSize')
    BY <1>1, <1>i, <1>c, <2>3, <2>4 DEF Counted, StoreData
  <2>6. PersistAll(<<[id |-> i, item |-> item]>>)  BY <1>1 DEF StoreData, Persist
  <2>7. log' \in Seq(Records) /\ torn' \in Records \cup {NoRecord} /\ after' \in BOOLEAN
    BY <1>i, <2>6, RecordsOfItems, PersistAllType
  <2> QED  BY <1>1, <1>i, <1>t, <2>5, <2>7 DEF StoreData, TypeOK, CompactingWritable
<1>2. ASSUME NEW i \in Ids, NEW size \in Sizes, UpdateData(i, size)
      PROVE  IInv'
  <2> DEFINE v == [items[i] EXCEPT !.size = size]
  <2>1. i \in In(items) /\ items[i] \in Items  BY <1>2, <1>i DEF UpdateData, In, Counted, Maps
  <2>2. v \in Items /\ v.size = size  BY <2>1 DEF Items
  <2>3. items' = [items EXCEPT ![i] = v] /\ items'[i] = v
    BY <1>2, <1>i, <2>1 DEF UpdateData, Counted, Maps, In
  <2>4. /\ items' \in Maps /\ In(items') = In(items)
        /\ Size(items') = Size(items) - items[i].size + v.size
    BY <1>i, <2>1, <2>2, <2>3, PutOver DEF Counted
  <2>5. size \in Nat /\ items[i].size \in Nat  BY <2>1, SizesAssumption DEF Items
  <2>6. Counted(items', totalItems', totalSize')
    BY <1>2, <1>i, <1>c, <2>2, <2>4, <2>5 DEF Counted, UpdateData, Resized
  <2>7. PersistAll(<<[id |-> i, item |-> v]>>)  BY <1>2, <2>3 DEF UpdateData, Persist
  <2>8. log' \in Seq(Records) /\ torn' \in Records \cup {NoRecord} /\ after' \in BOOLEAN
    BY <1>i, <2>2, <2>7, RecordsOfItems, PersistAllType
  <2> QED  BY <1>2, <1>i, <1>t, <2>6, <2>8 DEF UpdateData, TypeOK, CompactingWritable
<1>3. ASSUME NEW S \in SUBSET Ids, Erase(S)
      PROVE  IInv'
  <2>1. S \in SUBSET In(items)  BY <1>3, <1>s DEF Erase
  <2>2. items' = [i \in Ids |-> IF i \in S THEN Absent ELSE items[i]]  BY <1>3 DEF Erase
  <2>3. /\ items' \in Maps /\ IsFiniteSet(In(items'))
        /\ Cardinality(In(items')) = Cardinality(In(items)) - Cardinality(S)
        /\ Size(items') = Size(items) - SumFunction([i \in S |-> items[i].size])
    BY <1>i, <2>1, <2>2, Erased DEF Counted
  <2>4. Cardinality(S) \in Nat  BY <1>i, <2>1, FS_Subset, FS_CardinalityType DEF Counted
  <2>5. SumFunction([i \in S |-> items[i].size]) \in Nat
    <3> DEFINE f == [i \in S |-> items[i].size]
    <3>1. IsFiniteSet(S)  BY <1>i, <2>1, FS_Subset DEF Counted
    <3>2. \A i \in S : f[i] \in Nat  BY <1>i, <2>1, ItemSizes DEF Counted
    <3>3. DOMAIN f = S  OBVIOUS
    <3> HIDE DEF f
    <3>4. SumFunction(f) \in Nat  BY <3>1, <3>2, <3>3, SumIsNat DEF SumFunction
    <3> QED  BY <3>4 DEF f
  <2>6. totalItems' = totalItems - Cardinality(S)
        /\ totalSize' = totalSize - SumFunction([i \in S |-> items[i].size])
    BY <1>3 DEF Erase
  <2>7. Counted(items', totalItems', totalSize')
    BY <1>i, <1>c, <2>3, <2>4, <2>5, <2>6 DEF Counted
  <2> QED  BY <1>3, <1>i, <1>t, <2>7 DEF Erase, TypeOK, CompactingWritable, fileVars
<1>4. ASSUME NEW i \in Ids, NEW meta \in SUBSET Keys, SetMetadata(i, meta)
      PROVE  IInv'
  <2> DEFINE v == [items[i] EXCEPT !.meta = meta]
  <2>1. i \in In(items) /\ items[i] \in Items  BY <1>4, <1>i DEF SetMetadata, In, Counted, Maps
  <2>2. v \in Items /\ v.size = items[i].size  BY <2>1 DEF Items
  <2>3. items' = [items EXCEPT ![i] = v] /\ items'[i] = v
    BY <1>4, <1>i, <2>1 DEF SetMetadata, Counted, Maps, In
  <2>4. /\ items' \in Maps /\ In(items') = In(items)
        /\ Size(items') = Size(items) - items[i].size + v.size
    BY <1>i, <2>1, <2>2, <2>3, PutOver DEF Counted
  <2>5. items[i].size \in Nat  BY <2>1, SizesAssumption DEF Items
  <2>6. Counted(items', totalItems', totalSize')
    BY <1>4, <1>i, <1>c, <2>2, <2>4, <2>5 DEF Counted, SetMetadata
  <2>7. PersistAll(<<[id |-> i, item |-> v]>>)  BY <1>4, <2>3 DEF SetMetadata, Persist
  <2>8. log' \in Seq(Records) /\ torn' \in Records \cup {NoRecord} /\ after' \in BOOLEAN
    BY <1>i, <2>2, <2>7, RecordsOfItems, PersistAllType
  <2> QED  BY <1>4, <1>i, <1>t, <2>6, <2>8 DEF SetMetadata, TypeOK, CompactingWritable
<1>5. ASSUME NEW i \in Stored, NEW k \in Keys, AddMetadata(i, k) \/ RemoveMetadata(i, k)
      PROVE  IInv'
  <2>1. i \in Ids /\ items[i] \in Items  BY <1>i DEF Stored, Counted, Maps
  <2>2. items[i].meta \cup {k} \in SUBSET Keys /\ items[i].meta \ {k} \in SUBSET Keys
    BY <2>1 DEF Items
  <2> QED  BY <1>4, <1>5, <2>1, <2>2 DEF AddMetadata, RemoveMetadata
<1>6. ASSUME NEW next \in {"compact", "close"}, CompactWrite(next)
      PROVE  IInv'
  <2>1. PICK order \in [1..Cardinality(Stored) -> Stored] :
          PersistAll([n \in DOMAIN order |-> [id |-> order[n], item |-> items[order[n]]]])
    BY <1>6 DEF CompactWrite
  <2>2. log' \in Seq(Records) /\ torn' \in Records \cup {NoRecord} /\ after' \in BOOLEAN
    BY <1>i, <2>1, RecordsOfMap, PersistAllType
  <2> QED  BY <1>6, <1>i, <1>t, <2>2 DEF CompactWrite, TypeOK, CompactingWritable, memVars
<1>7. CASE CompactReplace
  <2>1. Counted(items', totalItems', totalSize')
    BY <1>7, <1>i, NoItemsEmpty DEF CompactReplace, memVars, Counted
  <2>2. log' \in Seq(Records) /\ torn' \in Records \cup {NoRecord} /\ after' \in BOOLEAN
    <3>1. <<>> \in Seq(Records)  OBVIOUS
    <3> QED  BY <1>7, <3>1 DEF CompactReplace
  <2> QED  BY <1>7, <1>i, <1>t, <2>1, <2>2 DEF CompactReplace, TypeOK, CompactingWritable
<1>8. CASE CloseUnwritable
  <2>1. Counted(items', totalItems', totalSize')
    BY <1>8, NoItemsEmpty DEF CloseUnwritable, Counted
  <2> QED  BY <1>8, <1>i, <1>t, <2>1 DEF CloseUnwritable, TypeOK, CompactingWritable, fileVars
<1>9. CASE Restart
  <2>1. PICK r \in Seq(Records) : Load(r)
    <3>1. log \in Seq(Records)  BY <1>i DEF TypeOK
    <3>2. \A r \in Misread : Append(log, r) \in Seq(Records)  BY <1>i, <3>1, MisreadRecords
    <3> QED  BY <1>9, <3>1, <3>2 DEF Restart
  <2>2. Counted(items', totalItems', totalSize')  BY <2>1, LoadCounted
  <2> QED  BY <1>9, <1>i, <1>t, <2>2 DEF Restart, TypeOK, CompactingWritable, fileVars
<1>10. CASE Crash
  <2>1. Counted(items', totalItems', totalSize')  BY <1>10, NoItemsEmpty DEF Crash, Counted
  <2>2. log' \in Seq(Records) /\ torn' \in Records \cup {NoRecord} /\ after' \in BOOLEAN
    BY <1>10, <1>i DEF Crash, TypeOK, fileVars
  <2> QED  BY <1>10, <1>i, <1>t, <2>1, <2>2 DEF Crash, TypeOK, CompactingWritable
<1>11. CASE ChangeWritable
  BY <1>11, <1>i, <1>t DEF ChangeWritable, TypeOK, CompactingWritable, memVars, fileVars
<1>12. CASE UNCHANGED vars
  BY <1>12, <1>i, <1>t DEF vars, TypeOK, CompactingWritable, memVars, fileVars
<1> QED
  BY <1>1, <1>2, <1>3, <1>5, <1>6, <1>7, <1>8, <1>9, <1>10, <1>11, <1>12
  DEF Next, DeleteData, CleanupOldData

-----------------------------------------------------------------------------
\* The variables have their types, whatever record a crash tore and however a
\* torn record is read.
THEOREM TypesHold == Spec => []TypeOK
<1>1. Spec => []IInv  BY InitIInv, NextIInv, PTL DEF Spec
<1>2. IInv => TypeOK  BY DEF IInv
<1> QED  BY <1>1, <1>2, PTL

\* The unsigned counters of metrics_ never wrap around in updateData,
\* deleteData and cleanupOldData, for any number of ids and any history of
\* crashes, torn records and reloads.
THEOREM CountersHold == Spec => []CountersNeverUnder
<1>1. Spec => []IInv  BY InitIInv, NextIInv, PTL DEF Spec
<1>2. IInv => CountersNeverUnder  BY DEF IInv
<1> QED  BY <1>1, <1>2, PTL

-----------------------------------------------------------------------------
(* The refinement.                                                          *)

\* A change of one item is durable unless the file is unwritable or torn.
LEMMA PersistWrites ==
  ASSUME TypeOK, NEW i \in Ids, NEW v \in Items, Persist(i, v)
  PROVE  /\ Replay(log)' = IF writable /\ torn = NoRecord
                           THEN [Replay(log) EXCEPT ![i] = v] ELSE Replay(log)
         /\ torn' = torn
<1> DEFINE r == [id |-> i, item |-> v]
<1>1. log \in Seq(Records)  BY DEF TypeOK
<1>2. r \in Records /\ r.id = i /\ r.item = v  BY RecordsOfItems
<1>3. Replay(log \o <<r>>) = [Replay(log) EXCEPT ![r.id] = r.item]  BY <1>1, <1>2, ReplayAppend
<1>4. Replay(log)' = Replay(log')  OBVIOUS
<1>5. log' = (IF writable /\ torn = NoRecord THEN log \o <<r>> ELSE log) /\ torn' = torn
  BY DEF Persist, PersistAll
<1> HIDE DEF r
<1> QED  BY <1>2, <1>3, <1>4, <1>5

\* The rewriting half of compactStorage makes the map in memory durable.
LEMMA FlushWrites ==
  ASSUME TypeOK, StoredFinite, torn = NoRecord, writable,
         NEW order \in [1..Cardinality(Stored) -> Stored],
         \A i \in Stored : \E n \in DOMAIN order : order[n] = i,
         PersistAll([n \in DOMAIN order |-> [id |-> order[n], item |-> items[order[n]]]])
  PROVE  Replay(log)' = [i \in Ids |-> IF items[i] = Absent THEN Replay(log)[i] ELSE items[i]]
<1> DEFINE r == [n \in DOMAIN order |-> [id |-> order[n], item |-> items[order[n]]]]
<1>1. log \in Seq(Records) /\ r \in Seq(Records)  BY RecordsOfMap DEF TypeOK
<1>2. Cardinality(Stored) \in Nat  BY FS_CardinalityType DEF StoredFinite
<1>3. Len(r) = Cardinality(Stored) /\ 1..Len(r) = DOMAIN order  BY <1>2
<1>4. \A n \in 1..Len(r) : r[n].id = order[n] /\ r[n].item = items[order[n]] /\ order[n] \in Stored
  BY <1>3
<1>5. log' = log \o r  BY DEF PersistAll
<1> HIDE DEF r
<1>6. ASSUME NEW i \in Ids
      PROVE  Replay(log')[i] = IF items[i] = Absent THEN Replay(log)[i] ELSE items[i]
  <2>1. Replay(log')[i] = IF \E n \in 1..Len(r) : r[n].id = i
                          THEN Replay(r)[i] ELSE Replay(log)[i]
    BY <1>1, <1>5, ReplayConcat
  <2>2. CASE items[i] = Absent
    <3>1. i \notin Stored  BY <2>2 DEF Stored
    <3>2. \A n \in 1..Len(r) : r[n].id # i  BY <1>4, <3>1
    <3> QED  BY <2>1, <2>2, <3>2
  <2>3. CASE items[i] # Absent
    <3>1. i \in Stored  BY <2>3 DEF Stored
    <3>2. \E n \in 1..Len(r) : r[n].id = i  BY <1>3, <1>4, <3>1
    <3>3. PICK n : LastOf(r, i, n)  BY <1>1, <3>2, LastExists
    <3>4. Replay(r)[i] = r[n].item  BY <1>1, <3>3, ReplayLast
    <3>5. r[n].item = items[i]  BY <1>4, <3>3 DEF LastOf
    <3> QED  BY <2>1, <2>3, <3>2, <3>4, <3>5
  <2> QED  BY <2>2, <2>3
<1>7. Replay(log') = [i \in Ids |-> Replay(log')[i]]  BY DEF Replay
<1>8. Replay(log)' = Replay(log')  OBVIOUS
<1> QED  BY <1>6, <1>7, <1>8

\* The initial state and every step, crashes and torn records included, are
\* those of the durable map.
THEOREM LogImplementsMap == Spec => ImplementsDurableMap
<1> USE DEF Durable!Environment, Durable!Empty
<1>1. Init => Durable!Init
  BY ReplayEmpty DEF Init, Durable!Init, NoItems
<1>2. IInv /\ [Next]_vars => [Durable!Next]_(Durable!vars)
  <2> SUFFICES ASSUME IInv, [Next]_vars PROVE [Durable!Next]_(Durable!vars)  OBVIOUS
  <2>i. TypeOK /\ StoredFinite /\ CompactingWritable  BY DEF IInv
  <2>1. ASSUME NEW i \in Ids, NEW item \in Items, StoreData(i, item)
        PROVE  Durable!Write(i, item)
    <3>1. Persist(i, item)  BY <2>1 DEF StoreData
    <3> QED
      BY <2>1, <2>i, <3>1, PersistWrites DEF StoreData, Durable!Write, MayPersist
  <2>2. ASSUME NEW i \in Ids, NEW size \in Sizes, UpdateData(i, size)
        PROVE  \E v \in Items : Durable!Write(i, v)
    <3> DEFINE v == [items[i] EXCEPT !.size = size]
    <3>1. items[i] \in Items  BY <2>2, <2>i DEF UpdateData, TypeOK
    <3>2. v \in Items  BY <3>1 DEF Items
    <3>3. items' = [items EXCEPT ![i] = v] /\ items'[i] = v
      BY <2>2, <2>i DEF UpdateData, TypeOK
    <3>4. Persist(i, v)  BY <2>2, <3>3 DEF UpdateData
    <3>5. Durable!Write(i, v)
      BY <2>2, <2>i, <3>2, <3>3, <3>4, PersistWrites DEF UpdateData, Durable!Write, MayPersist
    <3> QED  BY <3>2, <3>5
  <2>3. ASSUME NEW S \in SUBSET Ids, Erase(S)
        PROVE  Durable!Forget(S)
    BY <2>3 DEF Erase, Durable!Forget, fileVars
  <2>4. ASSUME NEW i \in Ids, NEW meta \in SUBSET Keys, SetMetadata(i, meta)
        PROVE  \E v \in Items : Durable!Write(i, v)
    <3> DEFINE v == [items[i] EXCEPT !.meta = meta]
    <3>1. items[i] \in Items  BY <2>4, <2>i DEF SetMetadata, TypeOK
    <3>2. v \in Items  BY <3>1 DEF Items
    <3>3. items' = [items EXCEPT ![i] = v] /\ items'[i] = v
      BY <2>4, <2>i DEF SetMetadata, TypeOK
    <3>4. Persist(i, v)  BY <2>4, <3>3 DEF SetMetadata
    <3>5. Durable!Write(i, v)
      BY <2>4, <2>i, <3>2, <3>3, <3>4, PersistWrites DEF SetMetadata, Durable!Write, MayPersist
    <3> QED  BY <3>2, <3>5
  <2>5. ASSUME NEW i \in Stored, NEW k \in Keys, AddMetadata(i, k) \/ RemoveMetadata(i, k)
        PROVE  \E v \in Items : Durable!Write(i, v)
    <3>1. i \in Ids /\ items[i] \in Items  BY <2>i DEF Stored, TypeOK
    <3>2. items[i].meta \cup {k} \in SUBSET Keys /\ items[i].meta \ {k} \in SUBSET Keys
      BY <3>1 DEF Items
    <3> QED  BY <2>4, <2>5, <3>1, <3>2 DEF AddMetadata, RemoveMetadata
  <2>6. ASSUME NEW next \in {"compact", "close"}, CompactWrite(next)
        PROVE  Durable!Flush
    <3>1. PICK order \in [1..Cardinality(Stored) -> Stored] :
            /\ \A i \in Stored : \E n \in DOMAIN order : order[n] = i
            /\ PersistAll([n \in DOMAIN order |-> [id |-> order[n], item |-> items[order[n]]]])
      BY <2>6 DEF CompactWrite
    <3>2. torn' = torn  BY <3>1 DEF PersistAll
    <3>3. CASE torn = NoRecord
      <4>1. Replay(log)' = [i \in Ids |-> IF items[i] = Absent THEN Replay(log)[i] ELSE items[i]]
        BY <2>6, <2>i, <3>1, <3>3, FlushWrites DEF CompactWrite
      <4> QED  BY <2>6, <3>2, <3>3, <4>1 DEF CompactWrite, Durable!Flush, memVars
    <3>4. CASE torn # NoRecord
      <4>1. log' = log  BY <3>1, <3>4 DEF PersistAll
      <4> QED  BY <2>6, <3>2, <3>4, <4>1 DEF CompactWrite, Durable!Flush, memVars
    <3> QED  BY <3>3, <3>4
  <2>7. ASSUME CompactReplace
        PROVE  Durable!Wipe
    BY <2>7, <2>i, ReplayEmpty
    DEF CompactReplace, CompactingWritable, Durable!Wipe, memVars, NoItems
  <2>8. ASSUME CloseUnwritable
        PROVE  Durable!Crash
    BY <2>8, <2>i DEF CloseUnwritable, Durable!Crash, fileVars, NoItems, TypeOK
  <2>9. ASSUME Restart
        PROVE  Durable!Restart
    <3>1. /\ pc = "down" /\ pc' = "up"
          /\ log' = log /\ torn' = torn /\ writable' = writable
      BY <2>9 DEF Restart, fileVars
    <3>2. Load(log) => Durable!Restart
      BY <3>1 DEF Load, Durable!Restart
    <3>3. ASSUME NEW r \in Misread, Load(Append(log, r))
          PROVE  Durable!Restart
      <4>1. r \in Records /\ torn # NoRecord  BY <2>i, MisreadRecords DEF Misread
      <4>2. r.id \in Ids /\ r.item \in Items  BY <4>1 DEF Records
      <4>3. log \in Seq(Records)  BY <2>i DEF TypeOK
      <4>4. Replay(Append(log, r)) = [Replay(log) EXCEPT ![r.id] = r.item]
        BY <4>1, <4>3, ReplayAppend
      <4>5. items' = [Replay(log) EXCEPT ![r.id] = r.item]  BY <3>3, <4>4 DEF Load
      <4> QED  BY <3>1, <4>1, <4>2, <4>5 DEF Durable!Restart
    <3> QED  BY <2>9, <3>2, <3>3 DEF Restart
  <2>10. ASSUME Crash
         PROVE  Durable!Crash
    <3>1. pc # "down" /\ pc' = "down" /\ items' = NoItems /\ log' = log /\ writable' = writable
      BY <2>10 DEF Crash, fileVars
    <3>2. torn' = torn \/ (writable /\ torn = NoRecord /\ torn' # NoRecord)
      BY <2>10, SentinelAssumption DEF Crash, fileVars
    <3> QED  BY <2>i, <3>1, <3>2 DEF Durable!Crash, NoItems, TypeOK
  <2>11. ASSUME ChangeWritable
         PROVE  Durable!Environment
    BY <2>11 DEF ChangeWritable, memVars, fileVars
  <2>12. CASE UNCHANGED vars
    BY <2>12 DEF vars, memVars, fileVars, Durable!vars
  <2>n. Next => Durable!Next \/ UNCHANGED vars
    <3> SUFFICES ASSUME Next PROVE Durable!Next  OBVIOUS
    <3>1. CASE \E i \in Ids, item \in Items : StoreData(i, item)
      BY <2>1, <3>1 DEF Durable!Next
    <3>2. CASE \E i \in Ids, size \in Sizes : UpdateData(i, size)
      BY <2>2, <3>2 DEF Durable!Next
    <3>3. CASE \E S \in SUBSET Ids : Erase(S)
      BY <2>3, <3>3 DEF Durable!Next
    <3>4. CASE \E i \in Stored, k \in Keys : AddMetadata(i, k) \/ RemoveMetadata(i, k)
      <4>1. \A i \in Stored : i \in Ids  BY DEF Stored
      <4> QED  BY <2>5, <3>4, <4>1 DEF Durable!Next
    <3>5. CASE \E next \in {"compact", "close"} : CompactWrite(next)
      BY <2>6, <3>5 DEF Durable!Next
    <3>6. CASE CompactReplace \/ CloseUnwritable \/ Restart \/ Crash \/ ChangeWritable
      BY <2>7, <2>8, <2>9, <2>10, <2>11, <3>6 DEF Durable!Next
    <3> QED
      BY <3>1, <3>2, <3>3, <3>4, <3>5, <3>6 DEF Next, DeleteData, CleanupOldData
  <2> QED  BY <2>12, <2>n
<1>3. Spec => []IInv  BY InitIInv, NextIInv, PTL DEF Spec
<1> QED  BY <1>1, <1>2, <1>3, PTL DEF Spec, ImplementsDurableMap, Durable!Spec
=============================================================================
