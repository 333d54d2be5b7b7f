------------------------------ MODULE TreeProofs ------------------------------
(***************************************************************************)
(* What is proved of the tree of kernels, for any names, clients and       *)
(* bounds: what a change of a flag does to the limits of a KernelBase, the *)
(* order in which ParentKernel and KernelManager take their mutexes, that  *)
(* KernelManager leaves no registration half done, and that the children   *)
(* ParentKernel marks active run.                                          *)
(***************************************************************************)
EXTENDS MCTree, FiniteSets, FiniteSetTheorems, SequenceTheorems, WellFoundedInduction, TLAPS

-----------------------------------------------------------------------------
(* KernelLimits, for every number of processors, every width of size_t and  *)
(* every load.                                                              *)

\* Limits are numbers that are never negative.
LimitSet == [threads : Nat, queue : Nat, timeout : Nat]

IInv == limits \in LimitSet

-----------------------------------------------------------------------------
(* The helpers.                                                            *)

\* Of two numbers, Lower is one that is not above the first.
LEMMA LowerBounds ==
  ASSUME NEW a \in Nat, NEW b \in Nat
  PROVE  Lower(a, b) \in Nat /\ Lower(a, b) <= a
BY DEF Lower

\* Every branch of applyOptimizations lowers the number of threads or keeps it.
LEMMA LimitedThreadsFall ==
  ASSUME Cores \in Nat, NEW opts, NEW dirs, NEW missing, NEW n \in Nat
  PROVE  /\ LimitedThreads(opts, dirs, missing, n) \in Nat
         /\ LimitedThreads(opts, dirs, missing, n) <= n
<1> DEFINE cpu == IF "CPU" \notin opts THEN n
                  ELSE IF "AVX" \in dirs THEN Lower(n, Cores * 2)
                  ELSE IF "SSE" \in dirs THEN Lower(n, (Cores * 3) \div 2) ELSE n
           net == IF "NETWORK" \in opts /\ Reached("NETWORK", missing) THEN Lower(cpu, Cores \div 2) ELSE cpu
           disk == IF "DISK" \in opts /\ Reached("DISK", missing) THEN Lower(net, Cores \div 4) ELSE net
           power == IF "POWER" \in opts \cap custom /\ Reached("POWER", missing)
                    THEN (disk * 8) \div 10 ELSE disk
<1>1. /\ Cores * 2 \in Nat /\ (Cores * 3) \div 2 \in Nat
      /\ Cores \div 2 \in Nat /\ Cores \div 4 \in Nat
  OBVIOUS
<1>2. cpu \in Nat /\ cpu <= n
  BY <1>1, LowerBounds
<1>3. net \in Nat /\ net <= cpu
  <2> HIDE DEF cpu
  <2> QED BY <1>1, <1>2, LowerBounds
<1>4. disk \in Nat /\ disk <= net
  <2> HIDE DEF net
  <2> QED BY <1>1, <1>3, LowerBounds
<1>5. power \in Nat /\ power <= disk
  <2> HIDE DEF disk
  <2> QED BY <1>4
<1>6. LimitedThreads(opts, dirs, missing, n) = power
  BY DEF LimitedThreads
<1> HIDE DEF cpu, net, disk, power
<1> QED BY <1>2, <1>3, <1>4, <1>5, <1>6

\* And so for the queue.
LEMMA LimitedQueueFalls ==
  ASSUME NEW opts, NEW missing, NEW q \in Nat
  PROVE  /\ LimitedQueue(opts, missing, q) \in Nat
         /\ LimitedQueue(opts, missing, q) <= q
<1> DEFINE pooled == IF "MEMORY" \in opts /\ Reached("MEMORY", missing) THEN Lower(q, 4 \div 1024) ELSE q
           power == IF "POWER" \in opts \cap custom /\ Reached("POWER", missing)
                    THEN (pooled * 7) \div 10 ELSE pooled
<1>1. 4 \div 1024 \in Nat
  OBVIOUS
<1>2. pooled \in Nat /\ pooled <= q
  BY <1>1, LowerBounds
<1>3. power \in Nat /\ power <= pooled
  <2> HIDE DEF pooled
  <2> QED BY <1>2
<1>4. LimitedQueue(opts, missing, q) = power
  BY DEF LimitedQueue
<1> HIDE DEF pooled, power
<1> QED BY <1>2, <1>3, <1>4

\* applyOptimizations never raises a limit, whatever the flags say and
\* wherever an unset custom flag stops it.
LEMMA AppliedFalls ==
  ASSUME Cores \in Nat, NEW opts, NEW dirs, NEW lim \in LimitSet
  PROVE  /\ Applied(opts, dirs, lim) \in LimitSet
         /\ Applied(opts, dirs, lim).threads <= lim.threads
         /\ Applied(opts, dirs, lim).queue <= lim.queue
<1>1. lim.threads \in Nat /\ lim.queue \in Nat
  BY DEF LimitSet
<1> DEFINE n == LimitedThreads(opts, dirs, Missing(opts), lim.threads)
           q == LimitedQueue(opts, Missing(opts), lim.queue)
<1>2. n \in Nat /\ n <= lim.threads
  BY <1>1, LimitedThreadsFall
<1>3. q \in Nat /\ q <= lim.queue
  BY <1>1, LimitedQueueFalls
<1>4. Applied(opts, dirs, lim) = [lim EXCEPT !.threads = n, !.queue = q]
  BY DEF Applied, LimitSet
<1> HIDE DEF n, q
<1> QED BY <1>2, <1>3, <1>4 DEF LimitSet

\* The adaptation keeps limits natural; the processor usage, NaN, leaves the
\* threads alone.
LEMMA AdaptedType ==
  ASSUME Word \in Nat \ {0}, NEW lim \in LimitSet
  PROVE  Scaled(lim) \in LimitSet /\ Adapted(lim) \in LimitSet
<1>1. lim.threads \in Nat /\ lim.queue \in Nat /\ lim.timeout \in Nat
  BY DEF LimitSet
<1>2. AdaptedThreads(lim.threads) = lim.threads
  BY DEF AdaptedThreads, CpuUsage, Above, Below
<1>3. lim.queue \div 2 \in Nat /\ (lim.queue * 2) % Word \in Nat
  BY <1>1
<1>4. AdaptedQueue(lim.threads, lim.queue) \in Nat
  BY <1>1, <1>3 DEF AdaptedQueue
<1>5. AdaptedTimeout(lim.timeout) \in Nat
  BY <1>1 DEF AdaptedTimeout
<1>6. Scaled(lim) \in LimitSet
  BY <1>1, <1>2, <1>4, <1>5 DEF Scaled, LimitSet
<1> QED BY <1>6 DEF Adapted

\* The limits an optimised kernel starts from.
LEMMA OptimalType ==
  ASSUME Cores \in Nat, Word \in Nat \ {0}
  PROVE  Optimal \in LimitSet
<1>1. (Cores * 100) % Word \in Nat
  OBVIOUS
<1> QED BY <1>1 DEF Optimal, LimitSet

-----------------------------------------------------------------------------
\* A client's setters.
LEMMA SetLimitStep ==
  ASSUME Cores \in Nat, Word \in Nat \ {0}, IInv, SetLimit
  PROVE  IInv'
<1>1. Word \div 2 \in Nat
  OBVIOUS
<1>2. \A n \in Nat : [limits EXCEPT !.threads = n] \in LimitSet
  BY DEF IInv, LimitSet
<1>3. \A q \in Nat : [limits EXCEPT !.queue = q] \in LimitSet
  BY DEF IInv, LimitSet
<1>4. [limits EXCEPT !.timeout = 30000] \in LimitSet
  BY DEF IInv, LimitSet
<1>5. PICK lim \in LimitSet : limits' = Adapted(lim)
  BY <1>1, <1>2, <1>3, <1>4 DEF SetLimit
<1> QED BY <1>5, AdaptedType DEF IInv

\* optimizeKernel: three setters and at most three changes of flags.
LEMMA OptimizeStep ==
  ASSUME Cores \in Nat, Word \in Nat \ {0}, IInv, Optimize
  PROVE  IInv'
<1> DEFINE first == Adapted([limits EXCEPT !.threads = Optimal.threads])
           second == Adapted([first EXCEPT !.queue = Optimal.queue])
           third == Adapted([second EXCEPT !.timeout = Optimal.timeout])
           dir == IF "AVX" \in Features THEN {"AVX"} ELSE Features \cap {"SSE"}
           dirs == directives \cup dir
           base == IF dir = {} THEN third ELSE Applied(flags, dirs, third)
<1>1. Optimal.threads \in Nat /\ Optimal.queue \in Nat /\ Optimal.timeout \in Nat
  BY OptimalType DEF LimitSet
<1>2. first \in LimitSet
  <2>1. [limits EXCEPT !.threads = Optimal.threads] \in LimitSet
    BY <1>1 DEF IInv, LimitSet
  <2> QED BY <2>1, AdaptedType
<1>3. second \in LimitSet
  <2> HIDE DEF first
  <2>1. [first EXCEPT !.queue = Optimal.queue] \in LimitSet
    BY <1>1, <1>2 DEF LimitSet
  <2> QED BY <2>1, AdaptedType
<1>4. third \in LimitSet
  <2> HIDE DEF second
  <2>1. [second EXCEPT !.timeout = Optimal.timeout] \in LimitSet
    BY <1>1, <1>3 DEF LimitSet
  <2> QED BY <2>1, AdaptedType
<1>5. base \in LimitSet
  <2> HIDE DEF third, dirs
  <2> QED BY <1>4, AppliedFalls
<1>6. PICK wanted \in {{}, {"MEMORY"}, {"NETWORK"}, {"MEMORY", "NETWORK"}} :
        LET memory == flags \cup (wanted \cap {"MEMORY"})
            pooled == IF "MEMORY" \in wanted THEN Applied(memory, dirs, base) ELSE base
            stopped == (dir # {} /\ Missing(flags) # {})
            halfway == "MEMORY" \in wanted /\ Missing(memory) # {}
            network == flags \cup wanted
        IN  limits' = IF stopped THEN base
                      ELSE IF halfway \/ "NETWORK" \notin wanted THEN pooled
                      ELSE Applied(network, dirs, pooled)
  BY DEF Optimize
<1> DEFINE memory == flags \cup (wanted \cap {"MEMORY"})
           pooled == IF "MEMORY" \in wanted THEN Applied(memory, dirs, base) ELSE base
<1> HIDE DEF base, dirs, dir
<1>7. pooled \in LimitSet
  <2> HIDE DEF memory
  <2> QED BY <1>5, AppliedFalls
<1>8. limits' \in {base, pooled, Applied(flags \cup wanted, dirs, pooled)}
  BY <1>6
<1> HIDE DEF pooled
<1>9. Applied(flags \cup wanted, dirs, pooled) \in LimitSet
  BY <1>7, AppliedFalls
<1> QED BY <1>5, <1>7, <1>8, <1>9 DEF IInv

LEMMA NextInv ==
  ASSUME Cores \in Nat, Word \in Nat \ {0}, IInv, [Next]_vars
  PROVE  IInv'
<1>1. CASE Create
  BY <1>1, OptimalType, AppliedFalls DEF Create, IInv
<1>2. CASE ChangeFlag
  BY <1>2, AppliedFalls DEF ChangeFlag, IInv
<1>3. CASE SetLimit
  BY <1>3, SetLimitStep
<1>4. CASE SetAdaptive
  BY <1>4, AdaptedType DEF SetAdaptive, IInv
<1>5. CASE Optimize
  BY <1>5, OptimizeStep
<1>6. CASE Start \/ PauseOrResume \/ SendMessage
  <2>1. limits' \in {limits, Adapted(limits)}
    BY <1>6 DEF Start, PauseOrResume, SendMessage, MetricsUpdated
  <2> QED BY <2>1, AdaptedType DEF IInv
<1>7. CASE Refresh \/ OptimizeForSystem \/ SetConfiguration \/ Destroy \/ Stop \/ RegisterMessageHandler
  BY <1>7 DEF Refresh, OptimizeForSystem, SetConfiguration, Destroy, Stop, RegisterMessageHandler, IInv
<1>8. CASE UNCHANGED vars
  BY <1>8 DEF vars, IInv
<1> QED BY <1>1, <1>2, <1>3, <1>4, <1>5, <1>6, <1>7, <1>8 DEF Next

\* The limits of a kernel are never negative, through adaptation, flags and
\* optimisation in any order.
THEOREM LimitsNatural ==
  ASSUME Cores \in Nat, Word \in Nat \ {0}
  PROVE  Spec => []IInv
<1>1. Init => IInv
  BY OptimalType DEF Init, IInv
<1>2. IInv /\ [Next]_vars => IInv'
  BY NextInv
<1> QED BY <1>1, <1>2, PTL DEF Spec

\* No change of a flag or a directive raises max_threads_ or max_queue_size_:
\* what setting an option of KernelFlags took, clearing it does not give back.
THEOREM FlagsLower ==
  ASSUME Cores \in Nat, Word \in Nat \ {0}
  PROVE  Spec => FlagsOnlyLower
<1>1. IInv /\ [Next]_vars => [LimitsFall]_vars
  <2> SUFFICES ASSUME IInv, ChangeFlag
               PROVE  limits'.queue <= limits.queue /\ limits'.threads <= limits.threads
    BY DEF LimitsFall
  <2> QED BY AppliedFalls DEF ChangeFlag, IInv
<1> QED BY <1>1, LimitsNatural, PTL DEF Spec, FlagsOnlyLower
-----------------------------------------------------------------------------
(* Sequences, whatever their elements.                                      *)

IsSeq(s) == \E S : s \in Seq(S)

\* What a thread does after its first k items.
After(s, k) == SubSeq(s, k + 1, Len(s))

LEMMA SeqFacts ==
  ASSUME NEW s, IsSeq(s)
  PROVE  /\ Len(s) \in Nat /\ DOMAIN s = 1..Len(s)
         /\ s # <<>> => Len(s) >= 1 /\ Head(s) = s[1] /\ Tail(s) = After(s, 1)
         /\ s = <<>> <=> Len(s) = 0
<1>1. PICK S : s \in Seq(S)  BY DEF IsSeq
<1>2. Len(s) \in Nat /\ DOMAIN s = 1..Len(s)  BY <1>1
<1>3. s = <<>> <=> Len(s) = 0  BY <1>1
<1>4. ASSUME s # <<>> PROVE Len(s) >= 1 /\ Head(s) = s[1] /\ Tail(s) = After(s, 1)
  <2>1. Tail(s) = SubSeq(s, 2, Len(s))  BY <1>1, <1>4, TailIsSubSeq
  <2>2. After(s, 1) = SubSeq(s, 2, Len(s))  BY <1>2 DEF After
  <2> QED  BY <1>1, <1>2, <1>3, <1>4, <2>1, <2>2
<1> QED  BY <1>2, <1>3, <1>4

LEMMA OneItem ==
  ASSUME NEW i
  PROVE  IsSeq(<<i>>) /\ Len(<<i>>) = 1 /\ <<i>>[1] = i
<1>1. <<i>> \in Seq({i})  OBVIOUS
<1> QED  BY <1>1 DEF IsSeq

LEMMA NoItem == IsSeq(<<>>) /\ Len(<<>>) = 0
<1>1. <<>> \in Seq({})  OBVIOUS
<1> QED  BY <1>1 DEF IsSeq

LEMMA Together ==
  ASSUME NEW a, NEW b, IsSeq(a), IsSeq(b)
  PROVE  \E S : a \in Seq(S) /\ b \in Seq(S)
<1>1. PICK S : a \in Seq(S)  BY DEF IsSeq
<1>2. PICK T : b \in Seq(T)  BY DEF IsSeq
<1>3. a \in Seq(S \cup T)  BY <1>1, SeqMonotonic
<1>4. b \in Seq(S \cup T)  BY <1>2, SeqMonotonic
<1> QED  BY <1>3, <1>4

LEMMA Joined ==
  ASSUME NEW a, NEW b, IsSeq(a), IsSeq(b)
  PROVE  /\ IsSeq(a \o b) /\ Len(a \o b) = Len(a) + Len(b)
         /\ \A n \in 1..Len(a) : (a \o b)[n] = a[n]
         /\ \A n \in 1..Len(b) : (a \o b)[Len(a) + n] = b[n]
<1>1. PICK S : a \in Seq(S) /\ b \in Seq(S)  BY Together
<1>2. /\ a \o b \in Seq(S) /\ Len(a \o b) = Len(a) + Len(b)
      /\ \A i \in 1..(Len(a) + Len(b)) : (a \o b)[i] = IF i <= Len(a) THEN a[i] ELSE b[i - Len(a)]
  BY <1>1, ConcatProperties
<1>3. Len(a) \in Nat /\ Len(b) \in Nat  BY <1>1
<1>4. ASSUME NEW n \in 1..Len(a) PROVE (a \o b)[n] = a[n]
  BY <1>2, <1>3, <1>4
<1>5. ASSUME NEW n \in 1..Len(b) PROVE (a \o b)[Len(a) + n] = b[n]
  <2>1. Len(a) + n \in 1..(Len(a) + Len(b)) /\ ~(Len(a) + n <= Len(a)) /\ Len(a) + n - Len(a) = n
    BY <1>3, <1>5
  <2> QED  BY <1>2, <2>1
<1> QED  BY <1>2, <1>4, <1>5 DEF IsSeq

LEMMA JoinedThree ==
  ASSUME NEW a, NEW b, NEW c, IsSeq(a), IsSeq(b), IsSeq(c)
  PROVE  (a \o b) \o c = a \o (b \o c)
<1>1. PICK S : a \in Seq(S) /\ b \in Seq(S)  BY Together
<1>2. PICK T : c \in Seq(T)  BY DEF IsSeq
<1>3. a \in Seq(S \cup T) /\ b \in Seq(S \cup T)  BY <1>1, SeqMonotonic
<1>4. c \in Seq(S \cup T)  BY <1>2, SeqMonotonic
<1> QED  BY <1>3, <1>4, ConcatAssociative

LEMMA AfterFacts ==
  ASSUME NEW s, IsSeq(s), NEW k \in 0..Len(s)
  PROVE  /\ IsSeq(After(s, k)) /\ Len(After(s, k)) = Len(s) - k
         /\ \A n \in 1..(Len(s) - k) : After(s, k)[n] = s[k + n]
<1>1. PICK S : s \in Seq(S)  BY DEF IsSeq
<1>2. Len(s) \in Nat /\ \A i \in 1..Len(s) : s[i] \in S  BY <1>1
<1>3. \A i \in (k + 1)..Len(s) : s[i] \in S  BY <1>2
<1>4. /\ SubSeq(s, k + 1, Len(s)) \in Seq(S)
      /\ Len(SubSeq(s, k + 1, Len(s))) = IF k + 1 <= Len(s) THEN Len(s) - (k + 1) + 1 ELSE 0
      /\ \A i \in 1..(Len(s) - (k + 1) + 1) : SubSeq(s, k + 1, Len(s))[i] = s[(k + 1) + i - 1]
  <2>1. k + 1 \in Int /\ Len(s) \in Int  BY <1>2
  <2> QED  BY <1>3, <2>1, SubSeqProperties
<1>5. Len(After(s, k)) = Len(s) - k  BY <1>2, <1>4 DEF After
<1>6. ASSUME NEW n \in 1..(Len(s) - k) PROVE After(s, k)[n] = s[k + n]
  <2>1. n \in 1..(Len(s) - (k + 1) + 1) /\ (k + 1) + n - 1 = k + n  BY <1>2, <1>6
  <2> QED  BY <1>4, <2>1 DEF After
<1> QED  BY <1>4, <1>5, <1>6 DEF After, IsSeq

LEMMA SameSeq ==
  ASSUME NEW a, NEW b, IsSeq(a), IsSeq(b), Len(a) = Len(b), \A n \in 1..Len(a) : a[n] = b[n]
  PROVE  a = b
<1>1. PICK S : a \in Seq(S) /\ b \in Seq(S)  BY Together
<1> QED  BY <1>1, SeqEqual

LEMMA AfterAfter ==
  ASSUME NEW s, IsSeq(s), NEW k \in 0..Len(s), NEW n \in 0..(Len(s) - k)
  PROVE  After(After(s, k), n) = After(s, k + n)
<1>1. Len(s) \in Nat  BY SeqFacts
<1>2. IsSeq(After(s, k)) /\ Len(After(s, k)) = Len(s) - k  BY AfterFacts
<1>3. k + n \in 0..Len(s) /\ n \in 0..Len(After(s, k))  BY <1>1, <1>2
<1>4. IsSeq(After(s, k + n)) /\ Len(After(s, k + n)) = Len(s) - (k + n)  BY <1>3, AfterFacts
<1>5. IsSeq(After(After(s, k), n)) /\ Len(After(After(s, k), n)) = Len(s) - k - n
  BY <1>2, <1>3, AfterFacts
<1>6. ASSUME NEW j \in 1..(Len(s) - k - n)
      PROVE  After(After(s, k), n)[j] = After(s, k + n)[j]
  <2>1. j \in 1..(Len(After(s, k)) - n) /\ n + j \in 1..(Len(s) - k) /\ j \in 1..(Len(s) - (k + n))
    BY <1>1, <1>2, <1>6
  <2>2. After(After(s, k), n)[j] = After(s, k)[n + j]  BY <1>2, <1>3, <2>1, AfterFacts
  <2>3. After(s, k)[n + j] = s[k + (n + j)]  BY <2>1, AfterFacts
  <2>4. After(s, k + n)[j] = s[(k + n) + j]  BY <1>3, <2>1, AfterFacts
  <2>5. k + (n + j) = (k + n) + j  BY <1>1, <1>6
  <2> QED  BY <2>2, <2>3, <2>4, <2>5
<1>7. Len(s) - (k + n) = Len(s) - k - n  BY <1>1
<1> QED  BY <1>4, <1>5, <1>6, <1>7, SameSeq

LEMMA AfterBoth ==
  ASSUME NEW a, NEW b, NEW c, IsSeq(a), IsSeq(b), IsSeq(c), Len(c) = Len(a) + Len(b),
         \A n \in 1..Len(a) : c[n] = a[n], \A n \in 1..Len(b) : c[Len(a) + n] = b[n]
  PROVE  /\ \A n \in 0..Len(a) : After(c, n) = After(a, n) \o b
         /\ \A n \in 0..Len(b) : After(c, Len(a) + n) = After(b, n)
         /\ After(c, Len(a)) = b
<1>1. Len(a) \in Nat /\ Len(b) \in Nat  BY SeqFacts
<1>2. IsSeq(c) /\ Len(c) = Len(a) + Len(b)  OBVIOUS
<1>3. ASSUME NEW n \in 0..Len(a) PROVE After(c, n) = After(a, n) \o b
  <2>1. n \in 0..Len(c)  BY <1>1, <1>2, <1>3
  <2>2. IsSeq(After(c, n)) /\ Len(After(c, n)) = Len(a) + Len(b) - n
    BY <1>1, <1>2, <1>3, <2>1, AfterFacts
  <2>3. IsSeq(After(a, n)) /\ Len(After(a, n)) = Len(a) - n  BY <1>3, AfterFacts
  <2>4. IsSeq(After(a, n) \o b) /\ Len(After(a, n) \o b) = (Len(a) - n) + Len(b)  BY <2>3, Joined
  <2>5. ASSUME NEW j \in 1..(Len(a) + Len(b) - n)
        PROVE  After(c, n)[j] = (After(a, n) \o b)[j]
    <3>1. After(c, n)[j] = c[n + j]
      <4>1. j \in 1..(Len(c) - n)  BY <1>1, <1>2, <1>3, <2>5
      <4> QED  BY <1>2, <2>1, <4>1, AfterFacts
    <3>2. ASSUME j <= Len(a) - n PROVE After(c, n)[j] = (After(a, n) \o b)[j]
      <4>1. n + j \in 1..Len(a) /\ j \in 1..Len(After(a, n)) /\ j \in 1..(Len(a) - n)
        BY <1>1, <1>3, <2>3, <2>5, <3>2
      <4>2. c[n + j] = a[n + j]  BY <4>1
      <4>3. (After(a, n) \o b)[j] = After(a, n)[j]  BY <2>3, <4>1, Joined
      <4>4. After(a, n)[j] = a[n + j]  BY <1>3, <4>1, AfterFacts
      <4> QED  BY <3>1, <4>2, <4>3, <4>4
    <3>3. ASSUME ~(j <= Len(a) - n) PROVE After(c, n)[j] = (After(a, n) \o b)[j]
      <4> DEFINE i == n + j - Len(a)
      <4>1. i \in 1..Len(b) /\ n + j = Len(a) + i /\ j = Len(After(a, n)) + i
        BY <1>1, <1>3, <2>3, <2>5, <3>3
      <4> HIDE DEF i
      <4>2. c[n + j] = b[i]  BY <4>1
      <4>3. (After(a, n) \o b)[j] = b[i]  BY <2>3, <4>1, Joined
      <4> QED  BY <3>1, <4>2, <4>3
    <3> QED  BY <3>2, <3>3
  <2>6. Len(a) + Len(b) - n = (Len(a) - n) + Len(b)  BY <1>1, <1>3
  <2> QED  BY <2>2, <2>4, <2>5, <2>6, SameSeq
<1>4. ASSUME NEW n \in 0..Len(b) PROVE After(c, Len(a) + n) = After(b, n)
  <2>1. Len(a) + n \in 0..Len(c)  BY <1>1, <1>2, <1>4
  <2>2. IsSeq(After(c, Len(a) + n)) /\ Len(After(c, Len(a) + n)) = Len(b) - n
    BY <1>1, <1>2, <1>4, <2>1, AfterFacts
  <2>3. IsSeq(After(b, n)) /\ Len(After(b, n)) = Len(b) - n  BY <1>4, AfterFacts
  <2>4. ASSUME NEW j \in 1..(Len(b) - n) PROVE After(c, Len(a) + n)[j] = After(b, n)[j]
    <3>1. n + j \in 1..Len(b) /\ j \in 1..(Len(c) - (Len(a) + n))
          /\ (Len(a) + n) + j = Len(a) + (n + j)
      BY <1>1, <1>2, <1>4, <2>4
    <3>2. After(c, Len(a) + n)[j] = c[Len(a) + (n + j)]
      <4>1. After(c, Len(a) + n)[j] = c[(Len(a) + n) + j]  BY <1>2, <2>1, <3>1, AfterFacts
      <4> QED  BY <3>1, <4>1
    <3>3. c[Len(a) + (n + j)] = b[n + j]  BY <3>1
    <3>4. After(b, n)[j] = b[n + j]  BY <1>4, <2>4, AfterFacts
    <3> QED  BY <3>2, <3>3, <3>4
  <2> QED  BY <2>2, <2>3, <2>4, SameSeq
<1>5. After(c, Len(a)) = b
  <2>1. 0 \in 0..Len(b) /\ Len(a) + 0 = Len(a)  BY <1>1
  <2>2. After(c, Len(a) + 0) = After(b, 0)  BY <1>4, <2>1
  <2>3. After(b, 0) = b
    <3>1. IsSeq(After(b, 0)) /\ Len(After(b, 0)) = Len(b) /\ \A n \in 1..Len(b) : After(b, 0)[n] = b[0 + n]
      BY <1>1, <2>1, AfterFacts
    <3> QED  BY <1>1, <3>1, SameSeq
  <2> QED  BY <2>1, <2>2, <2>3
<1> QED  BY <1>3, <1>4, <1>5
LEMMA AfterJoined ==
  ASSUME NEW a, NEW b, IsSeq(a), IsSeq(b)
  PROVE  /\ \A n \in 0..Len(a) : After(a \o b, n) = After(a, n) \o b
         /\ \A n \in 0..Len(b) : After(a \o b, Len(a) + n) = After(b, n)
         /\ After(a \o b, Len(a)) = b
<1> DEFINE c == a \o b
<1>1. /\ IsSeq(c) /\ Len(c) = Len(a) + Len(b)
      /\ \A n \in 1..Len(a) : c[n] = a[n]
      /\ \A n \in 1..Len(b) : c[Len(a) + n] = b[n]
  BY Joined
<1> HIDE DEF c
<1>2. /\ \A n \in 0..Len(a) : After(c, n) = After(a, n) \o b
      /\ \A n \in 0..Len(b) : After(c, Len(a) + n) = After(b, n)
      /\ After(c, Len(a)) = b
  BY <1>1, AfterBoth
<1> QED  BY <1>2 DEF c

-----------------------------------------------------------------------------
\* The places of the first k items at which m is unlocked.
Unlocks(s, k, m) == {n \in 1..k : s[n].do = "unlock" /\ s[n].m = m}

LEMMA UnlocksFinite ==
  ASSUME NEW s, NEW k \in Nat, NEW m
  PROVE  IsFiniteSet(Unlocks(s, k, m)) /\ Cardinality(Unlocks(s, k, m)) \in Nat
<1>1. IsFiniteSet(1..k)  BY FS_Interval
<1>2. Unlocks(s, k, m) \in SUBSET (1..k)  BY DEF Unlocks
<1>3. IsFiniteSet(Unlocks(s, k, m))  BY <1>1, <1>2, FS_Subset
<1> QED  BY <1>3, FS_CardinalityType

LEMMA CountSplits ==
  ASSUME NEW s, IsSeq(s), NEW k \in 0..Len(s), NEW m
  PROVE  Cardinality(Unlocks(s, Len(s), m))
           = Cardinality(Unlocks(s, k, m)) + Cardinality(Unlocks(After(s, k), Len(s) - k, m))
<1> DEFINE A == Unlocks(s, k, m)
           C == Unlocks(After(s, k), Len(s) - k, m)
           B == {n \in (k + 1)..Len(s) : s[n].do = "unlock" /\ s[n].m = m}
           f == [n \in C |-> k + n]
<1>0. Len(s) \in Nat /\ k \in Nat /\ Len(s) - k \in Nat  BY SeqFacts
<1>1. IsFiniteSet(A) /\ Cardinality(A) \in Nat /\ IsFiniteSet(C) /\ Cardinality(C) \in Nat
  BY <1>0, UnlocksFinite
<1>2. ASSUME NEW n \in C PROVE n \in 1..(Len(s) - k) /\ k + n \in B
  <2>1. n \in 1..(Len(s) - k) /\ After(s, k)[n].do = "unlock" /\ After(s, k)[n].m = m
    BY <1>2 DEF Unlocks
  <2>2. After(s, k)[n] = s[k + n]  BY <2>1, AfterFacts
  <2>3. k + n \in (k + 1)..Len(s)  BY <1>0, <2>1
  <2> QED  BY <2>1, <2>2, <2>3
<1>3. ASSUME NEW n \in B PROVE \E j \in C : k + j = n
  <2>1. n - k \in 1..(Len(s) - k) /\ k + (n - k) = n  BY <1>0, <1>3
  <2>2. After(s, k)[n - k] = s[k + (n - k)]  BY <2>1, AfterFacts
  <2>3. After(s, k)[n - k] = s[n]  BY <2>1, <2>2
  <2>4. n - k \in C  BY <1>3, <2>1, <2>3 DEF Unlocks
  <2> QED  BY <2>1, <2>4
<1>4. ExistsBijection(C, B)
  <2> HIDE DEF C, B
  <2>1. f \in [C -> B]  BY <1>2
  <2>2. \A n, j \in C : f[n] = f[j] => n = j  BY <1>0, <1>2
  <2>3. \A n \in B : \E j \in C : f[j] = n  BY <1>3
  <2>4. f \in Bijection(C, B)  BY <2>1, <2>2, <2>3 DEF Bijection, Injection, Surjection, IsInjective
  <2> QED  BY <2>4 DEF ExistsBijection
<1>5. IsFiniteSet(B) /\ Cardinality(B) = Cardinality(C)
  <2> HIDE DEF B, C
  <2> QED  BY <1>1, <1>4, FS_Bijection
<1>6. Unlocks(s, Len(s), m) = A \cup B /\ A \cap B = {}
  BY <1>0 DEF Unlocks
<1>7. Cardinality(A \cup B) = Cardinality(A) + Cardinality(B) - Cardinality(A \cap B)
  <2> HIDE DEF A, B
  <2> QED  BY <1>1, <1>5, FS_Union
<1>8. Cardinality({}) = 0  BY FS_EmptySet
<1>9. Cardinality(A \cup B) = Cardinality(A) + Cardinality(C)
  <2>1. A \cap B = {}  BY <1>6
  <2> HIDE DEF A, B, C
  <2>2. Cardinality(A \cap B) = 0  BY <1>8, <2>1
  <2> QED  BY <1>1, <1>5, <1>7, <2>2
<1>10. Cardinality(Unlocks(s, Len(s), m)) = Cardinality(A \cup B)  BY <1>6
<1> QED  BY <1>9, <1>10

\* How often a thread that has s to do will unlock m.
Count(s, m) == Cardinality(Unlocks(s, Len(s), m))

\* The mutexes it will unlock: those it holds.
Held(s) == {m \in {s[n].m : n \in 1..Len(s)} : \E n \in 1..Len(s) : s[n].do = "unlock" /\ s[n].m = m}

LEMMA CountFacts ==
  ASSUME NEW s, IsSeq(s), NEW m
  PROVE  Count(s, m) \in Nat /\ (m \in Held(s) <=> Count(s, m) # 0)
<1>1. Len(s) \in Nat  BY SeqFacts
<1>2. IsFiniteSet(Unlocks(s, Len(s), m)) /\ Count(s, m) \in Nat  BY <1>1, UnlocksFinite DEF Count
<1>3. Count(s, m) = 0 <=> Unlocks(s, Len(s), m) = {}  BY <1>2, FS_EmptySet DEF Count
<1>4. m \in Held(s) <=> Unlocks(s, Len(s), m) # {}  BY DEF Held, Unlocks
<1> QED  BY <1>2, <1>3, <1>4

\* Items without an unlock change neither.
Plain(b) == IsSeq(b) /\ \A n \in 1..Len(b) : b[n].do # "unlock"

LEMMA CountAfter ==
  ASSUME NEW s, IsSeq(s), NEW k \in 0..Len(s), NEW m
  PROVE  Count(s, m) = Cardinality(Unlocks(s, k, m)) + Count(After(s, k), m)
BY CountSplits, AfterFacts DEF Count

LEMMA CountJoined ==
  ASSUME NEW b, NEW s, Plain(b), IsSeq(s)
  PROVE  /\ \A m : Count(b \o s, m) = Count(s, m)
         /\ Held(b \o s) = Held(s)
<1> DEFINE c == b \o s
<1>1. IsSeq(b)  BY DEF Plain
<1>2. /\ IsSeq(c) /\ Len(c) = Len(b) + Len(s) /\ Len(b) \in Nat /\ Len(s) \in Nat
      /\ \A n \in 1..Len(b) : c[n] = b[n]
      /\ After(c, Len(b)) = s
  BY <1>1, Joined, AfterJoined, SeqFacts
<1> HIDE DEF c
<1>3. ASSUME NEW m PROVE Count(c, m) = Count(s, m)
  <2>1. Unlocks(c, Len(b), m) = {}  BY <1>2 DEF Unlocks, Plain
  <2>2. Count(c, m) = Cardinality(Unlocks(c, Len(b), m)) + Count(After(c, Len(b)), m)
    BY <1>2, CountAfter
  <2>3. Cardinality({}) = 0 /\ Count(s, m) \in Nat  BY FS_EmptySet, CountFacts
  <2>4. Cardinality(Unlocks(c, Len(b), m)) = 0  BY <2>1, <2>3
  <2>5. Count(After(c, Len(b)), m) = Count(s, m)  BY <1>2
  <2> QED  BY <2>2, <2>3, <2>4, <2>5
<1>4. Held(c) = Held(s)
  <2>1. \A m : m \in Held(c) <=> m \in Held(s)
    <3> TAKE m
    <3>1. m \in Held(c) <=> Count(c, m) # 0  BY <1>2, CountFacts
    <3>2. m \in Held(s) <=> Count(s, m) # 0  BY CountFacts
    <3> QED  BY <1>3, <3>1, <3>2
  <2> QED  BY <2>1
<1> QED  BY <1>3, <1>4 DEF c

LEMMA CountFirst ==
  ASSUME NEW i, NEW s, IsSeq(s)
  PROVE  /\ IsSeq(<<i>> \o s)
         /\ i.do = "unlock" => /\ \A m : Count(<<i>> \o s, m) = Count(s, m) + (IF m = i.m THEN 1 ELSE 0)
                               /\ Held(<<i>> \o s) = Held(s) \cup {i.m}
<1> DEFINE c == <<i>> \o s
<1>1. IsSeq(<<i>>) /\ Len(<<i>>) = 1 /\ <<i>>[1] = i  BY OneItem
<1> DEFINE o == <<i>>
<1>2. /\ IsSeq(c) /\ c[1] = i /\ After(c, 1) = s /\ Len(c) = 1 + Len(s) /\ Len(s) \in Nat
  <2> HIDE DEF o
  <2>1. 1 \in 1..Len(o)  BY <1>1 DEF o
  <2> QED  BY <1>1, <2>1, Joined, AfterJoined, SeqFacts DEF o
<1> HIDE DEF c, o
<1>3. ASSUME i.do = "unlock", NEW m PROVE Count(c, m) = Count(s, m) + (IF m = i.m THEN 1 ELSE 0)
  <2>1. Count(c, m) = Cardinality(Unlocks(c, 1, m)) + Count(After(c, 1), m)
    <3>1. 1 \in 0..Len(c)  BY <1>2
    <3> QED  BY <1>2, <3>1, CountAfter
  <2>2. Unlocks(c, 1, m) = IF m = i.m THEN {1} ELSE {}  BY <1>2, <1>3 DEF Unlocks
  <2>3. Cardinality({}) = 0 /\ Cardinality({1}) = 1 /\ Count(s, m) \in Nat
    BY FS_EmptySet, FS_Singleton, CountFacts
  <2>4. Cardinality(Unlocks(c, 1, m)) = IF m = i.m THEN 1 ELSE 0  BY <2>2, <2>3
  <2>5. Count(After(c, 1), m) = Count(s, m)  BY <1>2
  <2> QED  BY <2>1, <2>3, <2>4, <2>5
<1>4. ASSUME i.do = "unlock" PROVE Held(c) = Held(s) \cup {i.m}
  <2>1. \A m : m \in Held(c) <=> m \in Held(s) \/ m = i.m
    <3> TAKE m
    <3>1. m \in Held(c) <=> Count(c, m) # 0  BY <1>2, CountFacts
    <3>2. Count(s, m) \in Nat /\ (m \in Held(s) <=> Count(s, m) # 0)  BY CountFacts
    <3>3. Count(c, m) = Count(s, m) + (IF m = i.m THEN 1 ELSE 0)  BY <1>3, <1>4
    <3> QED  BY <3>1, <3>2, <3>3
  <2> QED  BY <2>1
<1> QED  BY <1>2, <1>3, <1>4 DEF c

-----------------------------------------------------------------------------
(* Which items are in order when certain mutexes are held.  A class is      *)
(* described by a record K: its mutexes; the order, pairs of a mutex and a  *)
(* set of mutexes with which it may be locked; the steps that unfold into   *)
(* more locks, which need that no more than the base is held; the loops     *)
(* known; and the steps that occur only in a public call.                   *)

\* The items of b are in G, with h held, and none ends a scope.
Within(K, b, h, G) ==
  /\ IsSeq(b)
  /\ \A n \in 1..Len(b) : b[n].do \notin K.outer /\ <<b[n], h>> \in G

Local(K, i, h, G) ==
  /\ i.do = "unlock" => i.m \in K.mutexes
  /\ i.do = "lock" => <<i.m, h>> \in K.order /\ Within(K, i.body, h \cup {i.m}, G)
  /\ i.do = "try" => Within(K, i.body, h, G) /\ Within(K, i.handler, h, G)
  /\ i.do = "end" => Within(K, i.handler, h, G)
  /\ i.do \in K.wide => h \subseteq K.base
  /\ i.do = "each" => i.arg \in K.loops

Closed(K, G) == \A p \in G : Local(K, p[1], p[2], G)

\* An item fits the held mutexes when some set of pairs that is closed under
\* what it contains has it.
Fits(K, i, h) == \E G : Closed(K, G) /\ <<i, h>> \in G

\* What may replace an item: a sequence that leaves no scope and fits.
New(K, b, h) ==
  IsSeq(b) /\ \A n \in 1..Len(b) : b[n].do \notin K.outer /\ Fits(K, b[n], h)

LocalNew(K, i, h) ==
  /\ i.do = "unlock" => i.m \in K.mutexes
  /\ i.do = "lock" => <<i.m, h>> \in K.order /\ New(K, i.body, h \cup {i.m})
  /\ i.do = "try" => New(K, i.body, h) /\ New(K, i.handler, h)
  /\ i.do = "end" => New(K, i.handler, h)
  /\ i.do \in K.wide => h \subseteq K.base
  /\ i.do = "each" => i.arg \in K.loops

LEMMA WithinGrows ==
  ASSUME NEW K, NEW b, NEW h, NEW G, NEW H, G \subseteq H, Within(K, b, h, G)
  PROVE  Within(K, b, h, H)
BY DEF Within

LEMMA LocalGrows ==
  ASSUME NEW K, NEW i, NEW h, NEW G, NEW H, G \subseteq H, Local(K, i, h, G)
  PROVE  Local(K, i, h, H)
<1>1. \A b, g : Within(K, b, g, G) => Within(K, b, g, H)  BY WithinGrows
<1> QED  BY <1>1 DEF Local

LEMMA ClosedUnion ==
  ASSUME NEW K, NEW F, \A G \in F : Closed(K, G)
  PROVE  Closed(K, UNION F)
<1> SUFFICES ASSUME NEW p \in UNION F PROVE Local(K, p[1], p[2], UNION F)  BY DEF Closed
<1>1. PICK G \in F : p \in G  OBVIOUS
<1>2. Local(K, p[1], p[2], G)  BY <1>1 DEF Closed
<1>3. G \subseteq UNION F  OBVIOUS
<1> QED  BY <1>2, <1>3, LocalGrows

LEMMA Gathered ==
  ASSUME NEW K, NEW b, NEW h, New(K, b, h)
  PROVE  \E G : Closed(K, G) /\ Within(K, b, h, G)
<1> DEFINE g(n) == CHOOSE G : Closed(K, G) /\ <<b[n], h>> \in G
           F == {g(n) : n \in 1..Len(b)}
<1>1. ASSUME NEW n \in 1..Len(b) PROVE Closed(K, g(n)) /\ <<b[n], h>> \in g(n)
  <2>1. \E G : Closed(K, G) /\ <<b[n], h>> \in G  BY DEF New, Fits
  <2> QED  BY <2>1
<1> HIDE DEF g
<1>2. Closed(K, UNION F)
  <2>1. \A G \in F : Closed(K, G)  BY <1>1
  <2> HIDE DEF F
  <2> QED  BY <2>1, ClosedUnion
<1>3. Within(K, b, h, UNION F)
  <2>1. \A n \in 1..Len(b) : <<b[n], h>> \in UNION F  BY <1>1
  <2> HIDE DEF F
  <2> QED  BY <2>1 DEF Within, New
<1> HIDE DEF F
<1> QED  BY <1>2, <1>3

LEMMA WithinNew ==
  ASSUME NEW K, NEW b, NEW h, NEW G, Closed(K, G), Within(K, b, h, G)
  PROVE  New(K, b, h)
BY DEF Within, New, Fits

\* An item fits exactly when what it contains does.
LEMMA FitsUnfolds ==
  ASSUME NEW K, NEW i, NEW h, Fits(K, i, h)
  PROVE  LocalNew(K, i, h)
<1>1. PICK G : Closed(K, G) /\ <<i, h>> \in G  BY DEF Fits
<1>2. Local(K, i, h, G)
  <2>1. \A p \in G : Local(K, p[1], p[2], G)  BY <1>1 DEF Closed
  <2>2. Local(K, <<i, h>>[1], <<i, h>>[2], G)  BY <1>1, <2>1
  <2>3. <<i, h>>[1] = i /\ <<i, h>>[2] = h  OBVIOUS
  <2> QED  BY <2>2, <2>3
<1>3. \A b, g : Within(K, b, g, G) => New(K, b, g)  BY <1>1, WithinNew
<1> QED  BY <1>2, <1>3 DEF Local, LocalNew

LEMMA FitsWhen ==
  ASSUME NEW K, NEW i, NEW h, NEW G, Closed(K, G), Local(K, i, h, G)
  PROVE  Fits(K, i, h)
<1> DEFINE H == G \cup {<<i, h>>}
<1>1. ASSUME NEW p \in H PROVE Local(K, p[1], p[2], H)
  <2>1. G \subseteq H  OBVIOUS
  <2> HIDE DEF H
  <2>2. ASSUME p \in G PROVE Local(K, p[1], p[2], H)
    <3>1. Local(K, p[1], p[2], G)  BY <2>2 DEF Closed
    <3> QED  BY <2>1, <3>1, LocalGrows
  <2>3. ASSUME p = <<i, h>> PROVE Local(K, p[1], p[2], H)
    <3>1. Local(K, i, h, H)  BY <2>1, LocalGrows
    <3>2. p[1] = i /\ p[2] = h  BY <2>3
    <3> QED  BY <3>1, <3>2
  <2> QED  BY <1>1, <2>2, <2>3 DEF H
<1>2. Closed(K, H)
  <2> HIDE DEF H
  <2> QED  BY <1>1 DEF Closed
<1>3. <<i, h>> \in H  OBVIOUS
<1> HIDE DEF H
<1> QED  BY <1>2, <1>3 DEF Fits

LEMMA FitsFolds ==
  ASSUME NEW K, NEW i, NEW h, LocalNew(K, i, h)
  PROVE  Fits(K, i, h)
<1>0. ASSUME NEW A, NEW B, Closed(K, A), Closed(K, B)
      PROVE  Closed(K, A \cup B) /\ A \subseteq A \cup B /\ B \subseteq A \cup B
  <2>1. \A G \in {A, B} : Closed(K, G)  BY <1>0
  <2>2. Closed(K, UNION {A, B})  BY <2>1, ClosedUnion
  <2>3. UNION {A, B} = A \cup B  OBVIOUS
  <2> QED  BY <2>2, <2>3
<1>1. CASE i.do = "lock"
  <2>1. PICK G : Closed(K, G) /\ Within(K, i.body, h \cup {i.m}, G)
    BY <1>1, Gathered DEF LocalNew
  <2>2. Local(K, i, h, G)  BY <1>1, <2>1 DEF Local, LocalNew
  <2> QED  BY <2>1, <2>2, FitsWhen
<1>2. CASE i.do = "try"
  <2>1. PICK A : Closed(K, A) /\ Within(K, i.body, h, A)  BY <1>2, Gathered DEF LocalNew
  <2>2. PICK B : Closed(K, B) /\ Within(K, i.handler, h, B)  BY <1>2, Gathered DEF LocalNew
  <2>3. Closed(K, A \cup B) /\ Within(K, i.body, h, A \cup B) /\ Within(K, i.handler, h, A \cup B)
    BY <1>0, <2>1, <2>2, WithinGrows
  <2>4. Local(K, i, h, A \cup B)  BY <1>2, <2>3 DEF Local, LocalNew
  <2> QED  BY <2>3, <2>4, FitsWhen
<1>3. CASE i.do = "end"
  <2>1. PICK G : Closed(K, G) /\ Within(K, i.handler, h, G)  BY <1>3, Gathered DEF LocalNew
  <2>2. Local(K, i, h, G)  BY <1>3, <2>1 DEF Local, LocalNew
  <2> QED  BY <2>1, <2>2, FitsWhen
<1>4. CASE i.do \notin {"lock", "try", "end"}
  <2>1. Closed(K, {})  BY DEF Closed
  <2>2. Local(K, i, h, {})  BY <1>4 DEF Local, LocalNew
  <2> QED  BY <2>1, <2>2, FitsWhen
<1> QED  BY <1>1, <1>2, <1>3, <1>4

-----------------------------------------------------------------------------
(* How the sequences of new items are made.                                 *)

LEMMA NewEmpty == ASSUME NEW K, NEW h PROVE New(K, <<>>, h)
BY NoItem DEF New

LEMMA NewOne ==
  ASSUME NEW K, NEW i, NEW h, i.do \notin K.outer, LocalNew(K, i, h)
  PROVE  New(K, <<i>>, h)
<1>1. Fits(K, i, h)  BY FitsFolds
<1>2. IsSeq(<<i>>) /\ Len(<<i>>) = 1 /\ <<i>>[1] = i  BY OneItem
<1>3. ASSUME NEW n \in 1..Len(<<i>>) PROVE <<i>>[n] = i  BY <1>2, <1>3
<1> DEFINE s == <<i>>
<1> HIDE DEF s
<1> QED  BY <1>1, <1>2, <1>3 DEF New, s

LEMMA NewJoined ==
  ASSUME NEW K, NEW h, NEW a, NEW b, New(K, a, h), New(K, b, h)
  PROVE  New(K, a \o b, h)
<1> DEFINE c == a \o b
<1>1. IsSeq(a) /\ IsSeq(b)  BY DEF New
<1>2. /\ IsSeq(c) /\ Len(c) = Len(a) + Len(b) /\ Len(a) \in Nat /\ Len(b) \in Nat
      /\ \A n \in 1..Len(a) : c[n] = a[n]
      /\ \A n \in 1..Len(b) : c[Len(a) + n] = b[n]
  BY <1>1, Joined, SeqFacts
<1> HIDE DEF c
<1>3. ASSUME NEW n \in 1..Len(c) PROVE c[n].do \notin K.outer /\ Fits(K, c[n], h)
  <2>1. CASE n <= Len(a)
    <3>1. n \in 1..Len(a) /\ c[n] = a[n]  BY <1>2, <2>1
    <3> QED  BY <3>1 DEF New
  <2>2. CASE ~(n <= Len(a))
    <3>1. n - Len(a) \in 1..Len(b) /\ Len(a) + (n - Len(a)) = n  BY <1>2, <2>2
    <3>2. c[n] = b[n - Len(a)]  BY <1>2, <3>1
    <3> QED  BY <3>1, <3>2 DEF New
  <2> QED  BY <2>1, <2>2
<1> QED  BY <1>2, <1>3 DEF New, c

\* A step that unfolds into nothing.
LEMMA NewStep ==
  ASSUME NEW K, NEW d, NEW arg, NEW h,
         d \notin K.outer, d \notin K.wide, d \notin {"lock", "try", "each", "end", "unlock"}
  PROVE  New(K, <<[do |-> d, arg |-> arg]>>, h)
<1> DEFINE i == [do |-> d, arg |-> arg]
<1>1. i.do = d  OBVIOUS
<1> HIDE DEF i
<1>2. LocalNew(K, i, h)  BY <1>1 DEF LocalNew
<1>3. New(K, <<i>>, h)  BY <1>1, <1>2, NewOne
<1> QED  BY <1>3 DEF i

LEMMA NewWide ==
  ASSUME NEW K, NEW d, NEW arg, NEW h,
         d \notin K.outer, h \subseteq K.base, d = "each" => arg \in K.loops,
         d \notin {"lock", "try", "end", "unlock"}
  PROVE  New(K, <<[do |-> d, arg |-> arg]>>, h)
<1> DEFINE i == [do |-> d, arg |-> arg]
<1>1. i.do = d /\ i.arg = arg  OBVIOUS
<1> HIDE DEF i
<1>2. LocalNew(K, i, h)  BY <1>1 DEF LocalNew
<1>3. New(K, <<i>>, h)  BY <1>1, <1>2, NewOne
<1> QED  BY <1>3 DEF i

LEMMA NewLocked ==
  ASSUME NEW K, NEW m, NEW body, NEW h,
         "lock" \notin K.outer, "lock" \notin K.wide, <<m, h>> \in K.order,
         New(K, body, h \cup {m})
  PROVE  New(K, <<[do |-> "lock", m |-> m, body |-> body]>>, h)
<1> DEFINE i == [do |-> "lock", m |-> m, body |-> body]
<1>1. i.do = "lock" /\ i.m = m /\ i.body = body  OBVIOUS
<1> HIDE DEF i
<1>2. LocalNew(K, i, h)  BY <1>1 DEF LocalNew
<1>3. New(K, <<i>>, h)  BY <1>1, <1>2, NewOne
<1> QED  BY <1>3 DEF i

LEMMA NewTry ==
  ASSUME NEW K, NEW body, NEW handler, NEW h,
         "try" \notin K.outer, "try" \notin K.wide, New(K, body, h), New(K, handler, h)
  PROVE  New(K, <<[do |-> "try", body |-> body, handler |-> handler]>>, h)
<1> DEFINE i == [do |-> "try", body |-> body, handler |-> handler]
<1>1. i.do = "try" /\ i.body = body /\ i.handler = handler  OBVIOUS
<1> HIDE DEF i
<1>2. LocalNew(K, i, h)  BY <1>1 DEF LocalNew
<1>3. New(K, <<i>>, h)  BY <1>1, <1>2, NewOne
<1> QED  BY <1>3 DEF i

-----------------------------------------------------------------------------
(* The invariant of threads that run calls: what each has to do fits the    *)
(* mutexes it holds when it comes to it, and it will unlock what it holds   *)
(* as often as it locked it.                                                *)

Good(K, s) == IsSeq(s) /\ \A n \in 1..Len(s) : Fits(K, s[n], Held(After(s, n)))

Kind(K) ==
  /\ {"unlock", "end"} \subseteq K.outer
  /\ \A d \in {"lock", "try", "unlock", "end"} : d \notin K.wide
  /\ "lock" \notin K.outer /\ "try" \notin K.outer
  /\ \A p \in K.order : p[1] \in K.mutexes

Calls(K, T, h, d, td) ==
  /\ td = [u \in K.threads |-> td[u]] /\ T \subseteq K.threads
  /\ h = [l \in K.mutexes |-> h[l]] /\ d \in [K.mutexes -> Nat]
  /\ \A m \in K.mutexes : h[m] = Free <=> d[m] = 0
  /\ \A t \in T : Good(K, td[t])
  /\ \A t \in T : \A m \in K.mutexes : Count(td[t], m) = IF h[m] = t THEN d[m] ELSE 0

LEMMA GoodAfter ==
  ASSUME NEW K, NEW s, Good(K, s), NEW k \in 0..Len(s)
  PROVE  /\ Good(K, After(s, k))
         /\ k # 0 => Fits(K, s[k], Held(After(s, k)))
<1>1. IsSeq(s) /\ Len(s) \in Nat  BY SeqFacts DEF Good
<1>2. IsSeq(After(s, k)) /\ Len(After(s, k)) = Len(s) - k  BY <1>1, AfterFacts
<1>3. ASSUME NEW n \in 1..Len(After(s, k))
      PROVE  Fits(K, After(s, k)[n], Held(After(After(s, k), n)))
  <2>1. n \in 1..(Len(s) - k) /\ n \in 0..(Len(s) - k) /\ k + n \in 1..Len(s)
    BY <1>1, <1>2, <1>3
  <2>2. After(s, k)[n] = s[k + n]  BY <1>1, <2>1, AfterFacts
  <2>3. After(After(s, k), n) = After(s, k + n)  BY <1>1, <2>1, AfterAfter
  <2>4. Fits(K, s[k + n], Held(After(s, k + n)))  BY <2>1 DEF Good
  <2> QED  BY <2>2, <2>3, <2>4
<1>4. ASSUME k # 0 PROVE Fits(K, s[k], Held(After(s, k)))
  <2>1. k \in 1..Len(s)  BY <1>1, <1>4
  <2> QED  BY <2>1 DEF Good
<1> QED  BY <1>2, <1>3, <1>4 DEF Good

LEMMA NewIsPlain ==
  ASSUME NEW K, Kind(K), NEW b, NEW h, New(K, b, h)
  PROVE  Plain(b)
BY DEF New, Plain, Kind

LEMMA GoodJoined ==
  ASSUME NEW K, Kind(K), NEW s, Good(K, s), NEW b, New(K, b, Held(s))
  PROVE  Good(K, b \o s)
<1> DEFINE c == b \o s
<1>1. IsSeq(b) /\ IsSeq(s) /\ Plain(b)  BY NewIsPlain DEF New, Good
<1>2. /\ IsSeq(c) /\ Len(c) = Len(b) + Len(s) /\ Len(b) \in Nat /\ Len(s) \in Nat
      /\ \A n \in 1..Len(b) : c[n] = b[n]
      /\ \A n \in 1..Len(s) : c[Len(b) + n] = s[n]
      /\ \A n \in 0..Len(b) : After(c, n) = After(b, n) \o s
      /\ \A n \in 0..Len(s) : After(c, Len(b) + n) = After(s, n)
  BY <1>1, Joined, AfterJoined, SeqFacts
<1> HIDE DEF c
<1>3. ASSUME NEW n \in 1..Len(c) PROVE Fits(K, c[n], Held(After(c, n)))
  <2>1. ASSUME n <= Len(b) PROVE Fits(K, c[n], Held(After(c, n)))
    <3>1. n \in 1..Len(b) /\ n \in 0..Len(b)  BY <1>2, <2>1
    <3>2. Plain(After(b, n))
      <4>1. IsSeq(After(b, n)) /\ Len(After(b, n)) = Len(b) - n
            /\ \A j \in 1..(Len(b) - n) : After(b, n)[j] = b[n + j]
        BY <1>1, <3>1, AfterFacts
      <4>2. \A j \in 1..(Len(b) - n) : n + j \in 1..Len(b)  BY <1>2, <3>1
      <4> QED  BY <1>1, <4>1, <4>2 DEF Plain
    <3>3. Held(After(b, n) \o s) = Held(s)  BY <1>1, <3>2, CountJoined
    <3>4. Held(After(c, n)) = Held(s)  BY <1>2, <3>1, <3>3
    <3>5. Fits(K, b[n], Held(s))  BY <3>1 DEF New
    <3>6. c[n] = b[n]  BY <1>2, <3>1
    <3> QED  BY <3>4, <3>5, <3>6
  <2>2. ASSUME ~(n <= Len(b)) PROVE Fits(K, c[n], Held(After(c, n)))
    <3>1. PICK j \in 1..Len(s) : n = Len(b) + j
      <4>1. n - Len(b) \in 1..Len(s) /\ n = Len(b) + (n - Len(b))  BY <1>2, <2>2
      <4> QED  BY <4>1
    <3>2. c[n] = s[j]  BY <1>2, <3>1
    <3>3. After(c, n) = After(s, j)  BY <1>2, <3>1
    <3>4. Fits(K, s[j], Held(After(s, j)))  BY DEF Good
    <3> QED  BY <3>2, <3>3, <3>4
  <2> QED  BY <2>1, <2>2
<1>4. Good(K, c)  BY <1>2, <1>3 DEF Good
<1> QED  BY <1>4 DEF c

LEMMA GoodFirst ==
  ASSUME NEW K, NEW s, Good(K, s), NEW i, Fits(K, i, Held(s))
  PROVE  Good(K, <<i>> \o s)
<1> DEFINE o == <<i>>
           c == o \o s
<1>1. IsSeq(s) /\ Len(s) \in Nat  BY SeqFacts DEF Good
<1>2. /\ IsSeq(o) /\ Len(o) = 1 /\ o[1] = i  BY OneItem
<1> HIDE DEF o
<1>3. /\ IsSeq(c) /\ Len(c) = 1 + Len(s)
      /\ \A n \in 1..Len(o) : c[n] = o[n]
      /\ \A n \in 1..Len(s) : c[1 + n] = s[n]
      /\ \A n \in 0..Len(s) : After(c, 1 + n) = After(s, n)
      /\ After(c, 1) = s
  <2>0. IsSeq(o)  BY <1>2
  <2>1. /\ IsSeq(c) /\ Len(c) = Len(o) + Len(s)
        /\ \A n \in 1..Len(o) : c[n] = o[n]
        /\ \A n \in 1..Len(s) : c[Len(o) + n] = s[n]
    BY <1>1, <2>0, Joined
  <2>2. /\ \A n \in 0..Len(s) : After(c, Len(o) + n) = After(s, n)
        /\ After(c, Len(o)) = s
    BY <1>1, <2>0, AfterJoined
  <2> HIDE DEF c
  <2> QED  BY <1>2, <2>1, <2>2
<1> HIDE DEF c
<1>4. ASSUME NEW n \in 1..Len(c) PROVE Fits(K, c[n], Held(After(c, n)))
  <2>1. ASSUME n = 1 PROVE Fits(K, c[n], Held(After(c, n)))
    <3>1. c[n] = i /\ After(c, n) = s  BY <1>2, <1>3, <2>1
    <3> QED  BY <3>1
  <2>2. ASSUME n # 1 PROVE Fits(K, c[n], Held(After(c, n)))
    <3>1. PICK j \in 1..Len(s) : n = 1 + j
      <4>1. n - 1 \in 1..Len(s) /\ n = 1 + (n - 1)  BY <1>1, <1>3, <2>2
      <4> QED  BY <4>1
    <3>2. c[n] = s[j] /\ After(c, n) = After(s, j)  BY <1>1, <1>3, <3>1
    <3>3. Fits(K, s[j], Held(After(s, j)))  BY DEF Good
    <3> QED  BY <3>2, <3>3
  <2> QED  BY <2>1, <2>2
<1>5. Good(K, c)  BY <1>3, <1>4 DEF Good
<1> QED  BY <1>5 DEF c, o

\* A thread that has something to do, split into the first item and the rest.
LEMMA FirstItem ==
  ASSUME NEW K, NEW s, Good(K, s), s # <<>>
  PROVE  /\ IsSeq(Tail(s)) /\ Good(K, Tail(s)) /\ LocalNew(K, Head(s), Held(Tail(s)))
         /\ Head(s) = s[1]
         /\ Head(s).do # "unlock" => \A m : Count(s, m) = Count(Tail(s), m)
         /\ Head(s).do = "unlock" =>
              \A m : Count(s, m) = Count(Tail(s), m) + (IF m = Head(s).m THEN 1 ELSE 0)
<1>1. IsSeq(s) /\ Len(s) \in Nat  BY SeqFacts DEF Good
<1>2. Len(s) >= 1 /\ Head(s) = s[1] /\ Tail(s) = After(s, 1)  BY <1>1, SeqFacts
<1>3. 1 \in 0..Len(s) /\ 1 \in 1..Len(s)  BY <1>1, <1>2
<1>4. Good(K, Tail(s)) /\ Fits(K, Head(s), Held(Tail(s)))
  <2>1. Good(K, After(s, 1)) /\ Fits(K, s[1], Held(After(s, 1)))  BY <1>3, GoodAfter
  <2> QED  BY <1>2, <2>1
<1>5. LocalNew(K, Head(s), Held(Tail(s)))  BY <1>4, FitsUnfolds
<1>6. ASSUME NEW m
      PROVE  Count(s, m) = Count(Tail(s), m)
               + (IF Head(s).do = "unlock" /\ m = Head(s).m THEN 1 ELSE 0)
  <2>1. Count(s, m) = Cardinality(Unlocks(s, 1, m)) + Count(Tail(s), m)
    <3>1. Count(s, m) = Cardinality(Unlocks(s, 1, m)) + Count(After(s, 1), m)
      BY <1>1, <1>3, CountAfter
    <3> QED  BY <1>2, <3>1
  <2>2. Unlocks(s, 1, m) = IF Head(s).do = "unlock" /\ m = Head(s).m THEN {1} ELSE {}
    BY <1>2 DEF Unlocks
  <2>3. Cardinality({}) = 0 /\ Cardinality({1}) = 1  BY FS_EmptySet, FS_Singleton
  <2>4. Cardinality(Unlocks(s, 1, m)) = IF Head(s).do = "unlock" /\ m = Head(s).m THEN 1 ELSE 0
    BY <2>2, <2>3
  <2>5. Count(Tail(s), m) \in Nat  BY <1>4, CountFacts DEF Good
  <2> QED  BY <2>1, <2>4, <2>5
<1>7. IsSeq(Tail(s))  BY <1>4 DEF Good
<1>8. ASSUME NEW m PROVE Count(Tail(s), m) \in Nat  BY <1>7, CountFacts
<1> QED  BY <1>2, <1>4, <1>5, <1>6, <1>7, <1>8

\* A thread t moves on to s2 and changes only locks that are free or its own.
Moves(K, T, t, h, d, td, s2, h2, d2, td2) ==
  /\ td2 = [td EXCEPT ![t] = s2] /\ Good(K, s2)
  /\ h2 = [l \in K.mutexes |-> h2[l]] /\ d2 \in [K.mutexes -> Nat]
  /\ \A m \in K.mutexes : h2[m] = Free <=> d2[m] = 0
  /\ \A m \in K.mutexes : Count(s2, m) = IF h2[m] = t THEN d2[m] ELSE 0
  /\ \A m \in K.mutexes : \/ h2[m] = h[m] /\ (h[m] = t \/ d2[m] = d[m])
                          \/ h[m] \in {t, Free} /\ h2[m] \in {t, Free}

LEMMA ThreadMoves ==
  ASSUME NEW K, NEW T, Free \notin T, NEW t \in T, NEW h, NEW d, NEW td,
         NEW s2, NEW h2, NEW d2, NEW td2,
         Calls(K, T, h, d, td), Moves(K, T, t, h, d, td, s2, h2, d2, td2)
  PROVE  Calls(K, T, h2, d2, td2)
<1>0. /\ td2 = [td EXCEPT ![t] = s2] /\ Good(K, s2)
      /\ h2 = [l \in K.mutexes |-> h2[l]] /\ d2 \in [K.mutexes -> Nat]
      /\ \A m \in K.mutexes : h2[m] = Free <=> d2[m] = 0
      /\ \A m \in K.mutexes : Count(s2, m) = IF h2[m] = t THEN d2[m] ELSE 0
      /\ \A m \in K.mutexes : \/ h2[m] = h[m] /\ (h[m] = t \/ d2[m] = d[m])
                              \/ h[m] \in {t, Free} /\ h2[m] \in {t, Free}
  BY DEF Moves
<1>1. td = [u \in K.threads |-> td[u]] /\ T \subseteq K.threads  BY DEF Calls
<1>2. /\ td2 = [u \in K.threads |-> td2[u]] /\ td2[t] = s2
      /\ \A u \in T : u # t => td2[u] = td[u]
  BY <1>0, <1>1
<1>3. ASSUME NEW u \in T PROVE Good(K, td2[u])
  BY <1>0, <1>2 DEF Calls
<1>4. ASSUME NEW u \in T, NEW m \in K.mutexes
      PROVE  Count(td2[u], m) = IF h2[m] = u THEN d2[m] ELSE 0
  <2>1. CASE u = t
    <3>1. td2[u] = s2  BY <1>2, <2>1
    <3>2. Count(td2[u], m) = Count(s2, m)  BY <3>1
    <3> QED  BY <1>0, <2>1, <3>2
  <2>2. CASE u # t
    <3>1. td2[u] = td[u]  BY <1>2, <2>2
    <3>2. Count(td2[u], m) = Count(td[u], m)  BY <3>1
    <3>3. Count(td[u], m) = IF h[m] = u THEN d[m] ELSE 0  BY DEF Calls
    <3> QED  BY <1>0, <2>2, <3>2, <3>3
  <2> QED  BY <2>1, <2>2
<1> QED  BY <1>0, <1>2, <1>3, <1>4 DEF Calls

\* A step that changes no lock is replaced by others.
LEMMA Replaced ==
  ASSUME NEW K, Kind(K), NEW T, Free \notin T, NEW h, NEW d, NEW td, Calls(K, T, h, d, td),
         NEW t \in T, td[t] # <<>>, Head(td[t]).do # "unlock",
         NEW b, New(K, b, Held(Tail(td[t]))),
         NEW td2, td2 = [td EXCEPT ![t] = b \o Tail(@)]
  PROVE  Calls(K, T, h, d, td2)
<1> DEFINE s == td[t]
           s2 == b \o Tail(s)
<1>1. Good(K, s) /\ s # <<>>  BY DEF Calls
<1>2. td2 = [td EXCEPT ![t] = s2]  BY DEF Calls
<1>3. \A m \in K.mutexes : Count(s, m) = IF h[m] = t THEN d[m] ELSE 0  BY DEF Calls
<1> HIDE DEF s
<1>4. /\ IsSeq(Tail(s)) /\ Good(K, Tail(s))
      /\ Head(s).do # "unlock" => \A m : Count(s, m) = Count(Tail(s), m)
  BY <1>1, FirstItem
<1>5. Head(s).do # "unlock" /\ New(K, b, Held(Tail(s))) /\ Plain(b)  BY NewIsPlain DEF s
<1>6. Good(K, s2) /\ \A m : Count(s2, m) = Count(Tail(s), m)
  BY <1>4, <1>5, GoodJoined, CountJoined
<1> HIDE DEF s2
<1>7. \A m \in K.mutexes : Count(s2, m) = IF h[m] = t THEN d[m] ELSE 0
  BY <1>3, <1>4, <1>5, <1>6
<1>8. h = [l \in K.mutexes |-> h[l]] /\ d \in [K.mutexes -> Nat]
      /\ \A m \in K.mutexes : h[m] = Free <=> d[m] = 0
  BY DEF Calls
<1>m. Moves(K, T, t, h, d, td, s2, h, d, td2)  BY <1>2, <1>6, <1>7, <1>8 DEF Moves
<1>c. Calls(K, T, h, d, td)  OBVIOUS
<1> QED  BY <1>m, <1>c, ThreadMoves

\* A try block is entered.
LEMMA Entered ==
  ASSUME NEW K, Kind(K), NEW T, Free \notin T, NEW h, NEW d, NEW td, Calls(K, T, h, d, td),
         NEW t \in T, td[t] # <<>>, Head(td[t]).do = "try",
         NEW td2, td2 = [td EXCEPT ![t] = (Head(td[t]).body
                            \o <<[do |-> "end", handler |-> Head(td[t]).handler]>>) \o Tail(@)]
  PROVE  Calls(K, T, h, d, td2)
<1> DEFINE s == td[t]
           e == [do |-> "end", handler |-> Head(s).handler]
           r == <<e>> \o Tail(s)
           s2 == Head(s).body \o r
<1>1. Good(K, s) /\ s # <<>>  BY DEF Calls
<1>2. td2 = [td EXCEPT ![t] = (Head(s).body \o <<e>>) \o Tail(s)]  BY DEF Calls
<1>3. \A m \in K.mutexes : Count(s, m) = IF h[m] = t THEN d[m] ELSE 0  BY DEF Calls
<1>4. Head(s).do = "try"  OBVIOUS
<1> HIDE DEF s
<1>5. /\ IsSeq(Tail(s)) /\ Good(K, Tail(s)) /\ LocalNew(K, Head(s), Held(Tail(s)))
      /\ \A m : Count(s, m) = Count(Tail(s), m)
  BY <1>1, <1>4, FirstItem
<1>6. New(K, Head(s).body, Held(Tail(s))) /\ New(K, Head(s).handler, Held(Tail(s)))
  BY <1>4, <1>5 DEF LocalNew
<1>7. e.do = "end" /\ e.handler = Head(s).handler  OBVIOUS
<1> HIDE DEF e
<1>8. Fits(K, e, Held(Tail(s)))
  <2>1. LocalNew(K, e, Held(Tail(s)))  BY <1>6, <1>7 DEF LocalNew, Kind
  <2> QED  BY <2>1, FitsFolds
<1>9. IsSeq(<<e>>) /\ Len(<<e>>) = 1 /\ <<e>>[1] = e  BY OneItem
<1>10. Plain(<<e>>)
  <2> DEFINE o == <<e>>
  <2> HIDE DEF o
  <2>1. IsSeq(o) /\ Len(o) = 1 /\ o[1] = e  BY <1>9 DEF o
  <2>2. Plain(o)  BY <1>7, <2>1 DEF Plain
  <2> QED  BY <2>2 DEF o
<1>11. /\ Good(K, r) /\ Held(r) = Held(Tail(s))
       /\ \A m : Count(r, m) = Count(Tail(s), m)
  BY <1>5, <1>8, <1>10, GoodFirst, CountJoined
<1>12. IsSeq(Head(s).body) /\ Plain(Head(s).body)  BY <1>6, NewIsPlain DEF New
<1>13. (Head(s).body \o <<e>>) \o Tail(s) = s2
  <2> DEFINE a == Head(s).body
             o == <<e>>
             z == Tail(s)
  <2>1. IsSeq(a) /\ IsSeq(o) /\ IsSeq(z)  BY <1>5, <1>9, <1>12
  <2> HIDE DEF a, o, z
  <2>2. (a \o o) \o z = a \o (o \o z)  BY <2>1, JoinedThree
  <2> QED  BY <2>2 DEF a, o, z
<1> HIDE DEF r
<1>14. New(K, Head(s).body, Held(r))  BY <1>6, <1>11
<1>15. Good(K, s2) /\ \A m : Count(s2, m) = Count(r, m)
  <2>1. IsSeq(r)  BY <1>11 DEF Good
  <2> QED  BY <1>11, <1>12, <1>14, <2>1, GoodJoined, CountJoined
<1> HIDE DEF s2
<1>16. \A m \in K.mutexes : Count(s2, m) = IF h[m] = t THEN d[m] ELSE 0
  BY <1>3, <1>5, <1>11, <1>15
<1>17. h = [l \in K.mutexes |-> h[l]] /\ d \in [K.mutexes -> Nat]
       /\ \A m \in K.mutexes : h[m] = Free <=> d[m] = 0
  BY DEF Calls
<1>18. td2 = [td EXCEPT ![t] = s2]  BY <1>2, <1>13
<1>m. Moves(K, T, t, h, d, td, s2, h, d, td2)  BY <1>15, <1>16, <1>17, <1>18 DEF Moves
<1>c. Calls(K, T, h, d, td)  OBVIOUS
<1> QED  BY <1>m, <1>c, ThreadMoves

\* A mutex is locked.
LEMMA Acquired ==
  ASSUME NEW K, Kind(K), NEW T, Free \notin T, NEW h, NEW d, NEW td, Calls(K, T, h, d, td),
         NEW t \in T, td[t] # <<>>, Head(td[t]).do = "lock",
         NEW m, m = Head(td[t]).m, h[m] = Free \/ h[m] = t,
         NEW h2, h2 = [h EXCEPT ![m] = t], NEW d2, d2 = [d EXCEPT ![m] = @ + 1],
         NEW td2, td2 = [td EXCEPT ![t] = (Head(td[t]).body \o <<[do |-> "unlock", m |-> m]>>) \o Tail(@)]
  PROVE  Calls(K, T, h2, d2, td2)
<1> DEFINE s == td[t]
           e == [do |-> "unlock", m |-> m]
           r == <<e>> \o Tail(s)
           s2 == Head(s).body \o r
<1>1. Good(K, s) /\ s # <<>>  BY DEF Calls
<1>2. td2 = [td EXCEPT ![t] = (Head(s).body \o <<e>>) \o Tail(s)]  BY DEF Calls
<1>3. \A l \in K.mutexes : Count(s, l) = IF h[l] = t THEN d[l] ELSE 0  BY DEF Calls
<1>4. Head(s).do = "lock" /\ m = Head(s).m  OBVIOUS
<1> HIDE DEF s
<1>5. /\ IsSeq(Tail(s)) /\ Good(K, Tail(s)) /\ LocalNew(K, Head(s), Held(Tail(s)))
      /\ \A l : Count(s, l) = Count(Tail(s), l)
  BY <1>1, <1>4, FirstItem
<1>6. New(K, Head(s).body, Held(Tail(s)) \cup {m}) /\ m \in K.mutexes
  <2>1. <<m, Held(Tail(s))>> \in K.order  BY <1>4, <1>5 DEF LocalNew
  <2>2. <<m, Held(Tail(s))>>[1] \in K.mutexes  BY <2>1 DEF Kind
  <2>3. New(K, Head(s).body, Held(Tail(s)) \cup {m})  BY <1>4, <1>5 DEF LocalNew
  <2> QED  BY <2>2, <2>3
<1>7. e.do = "unlock" /\ e.m = m  OBVIOUS
<1> HIDE DEF e
<1>8. Fits(K, e, Held(Tail(s)))
  <2>1. LocalNew(K, e, Held(Tail(s)))  BY <1>6, <1>7 DEF LocalNew, Kind
  <2> QED  BY <2>1, FitsFolds
<1>9. IsSeq(<<e>>)  BY OneItem
<1>10. /\ Good(K, r) /\ Held(r) = Held(Tail(s)) \cup {m}
       /\ \A l : Count(r, l) = Count(Tail(s), l) + (IF l = m THEN 1 ELSE 0)
  BY <1>5, <1>7, <1>8, GoodFirst, CountFirst
<1>11. IsSeq(Head(s).body) /\ Plain(Head(s).body)  BY <1>6, NewIsPlain DEF New
<1>12. (Head(s).body \o <<e>>) \o Tail(s) = s2
  <2> DEFINE a == Head(s).body
             o == <<e>>
             z == Tail(s)
  <2>1. IsSeq(a) /\ IsSeq(o) /\ IsSeq(z)  BY <1>5, <1>9, <1>11
  <2> HIDE DEF a, o, z
  <2>2. (a \o o) \o z = a \o (o \o z)  BY <2>1, JoinedThree
  <2> QED  BY <2>2 DEF a, o, z
<1> HIDE DEF r
<1>13. New(K, Head(s).body, Held(r))  BY <1>6, <1>10
<1>14. Good(K, s2) /\ \A l : Count(s2, l) = Count(r, l)
  <2>1. IsSeq(r)  BY <1>10 DEF Good
  <2> QED  BY <1>10, <1>11, <1>13, <2>1, GoodJoined, CountJoined
<1> HIDE DEF s2
<1>15. /\ h = [l \in K.mutexes |-> h[l]] /\ d \in [K.mutexes -> Nat]
       /\ \A l \in K.mutexes : h[l] = Free <=> d[l] = 0
  BY DEF Calls
<1>h. /\ h2 = [l \in K.mutexes |-> h2[l]]
      /\ \A l \in K.mutexes : h2[l] = IF l = m THEN t ELSE h[l]
  <2>1. h = [l \in K.mutexes |-> h[l]]  BY <1>15
  <2> QED  BY <1>6, <2>1
<1>d. /\ d2 \in [K.mutexes -> Nat]
      /\ \A l \in K.mutexes : d2[l] = IF l = m THEN d[l] + 1 ELSE d[l]
  <2>1. d \in [K.mutexes -> Nat]  BY <1>15
  <2> QED  BY <1>6, <2>1
<1>16. /\ h2 = [l \in K.mutexes |-> h2[l]] /\ d2 \in [K.mutexes -> Nat]
       /\ \A l \in K.mutexes : h2[l] = IF l = m THEN t ELSE h[l]
       /\ \A l \in K.mutexes : d2[l] = IF l = m THEN d[l] + 1 ELSE d[l]
  BY <1>h, <1>d
<1>17. \A l \in K.mutexes : h2[l] = Free <=> d2[l] = 0
  <2> TAKE l \in K.mutexes
  <2>1. d[l] \in Nat /\ (h[l] = Free <=> d[l] = 0) /\ t # Free  BY <1>15
  <2> QED  BY <1>16, <2>1
<1>18. \A l \in K.mutexes : Count(s2, l) = IF h2[l] = t THEN d2[l] ELSE 0
  <2> TAKE l \in K.mutexes
  <2>1. Count(s2, l) = (IF h[l] = t THEN d[l] ELSE 0) + (IF l = m THEN 1 ELSE 0)
    BY <1>3, <1>5, <1>10, <1>14
  <2>2. d[m] \in Nat /\ (h[m] # t => d[m] = 0)  BY <1>6, <1>15
  <2> QED  BY <1>15, <1>16, <2>1, <2>2
<1>19. \A l \in K.mutexes : \/ h2[l] = h[l] /\ (h[l] = t \/ d2[l] = d[l])
                            \/ h[l] \in {t, Free} /\ h2[l] \in {t, Free}
  BY <1>16
<1>20. td2 = [td EXCEPT ![t] = s2]  BY <1>2, <1>12
<1>m. Moves(K, T, t, h, d, td, s2, h2, d2, td2)  BY <1>14, <1>16, <1>17, <1>18, <1>19, <1>20 DEF Moves
<1>c. Calls(K, T, h, d, td)  OBVIOUS
<1> QED  BY <1>m, <1>c, ThreadMoves

\* A mutex is unlocked.
LEMMA Released ==
  ASSUME NEW K, Kind(K), NEW T, Free \notin T, NEW h, NEW d, NEW td, Calls(K, T, h, d, td),
         NEW t \in T, td[t] # <<>>, Head(td[t]).do = "unlock",
         NEW m, m = Head(td[t]).m,
         NEW h2, h2 = [h EXCEPT ![m] = IF d[m] = 1 THEN Free ELSE @],
         NEW d2, d2 = [d EXCEPT ![m] = @ - 1],
         NEW td2, td2 = [td EXCEPT ![t] = <<>> \o Tail(@)]
  PROVE  Calls(K, T, h2, d2, td2)
<1> DEFINE s == td[t]
           s2 == Tail(s)
<1>1. Good(K, s) /\ s # <<>>  BY DEF Calls
<1>2. td2 = [td EXCEPT ![t] = <<>> \o s2]  BY DEF Calls
<1>3. \A l \in K.mutexes : Count(s, l) = IF h[l] = t THEN d[l] ELSE 0  BY DEF Calls
<1>4. Head(s).do = "unlock" /\ m = Head(s).m  OBVIOUS
<1> HIDE DEF s
<1>5. /\ IsSeq(s2) /\ Good(K, s2) /\ LocalNew(K, Head(s), Held(s2))
      /\ \A l : Count(s, l) = Count(s2, l) + (IF l = m THEN 1 ELSE 0)
  BY <1>1, <1>4, FirstItem
<1>6. m \in K.mutexes  BY <1>4, <1>5 DEF LocalNew
<1> HIDE DEF s2
<1>7. <<>> \o s2 = s2
  <2>1. PICK S : s2 \in Seq(S)  BY <1>5 DEF IsSeq
  <2> QED  BY <2>1, ConcatEmptySeq
<1>8. \A l : Count(s2, l) \in Nat  BY <1>5, CountFacts
<1>9. /\ h = [l \in K.mutexes |-> h[l]] /\ d \in [K.mutexes -> Nat]
      /\ \A l \in K.mutexes : h[l] = Free <=> d[l] = 0
  BY DEF Calls
<1>10. h[m] = t /\ d[m] = Count(s2, m) + 1
  <2>1. Count(s, m) = Count(s2, m) + 1  BY <1>5
  <2>2. Count(s, m) = IF h[m] = t THEN d[m] ELSE 0  BY <1>3, <1>6
  <2>3. Count(s2, m) \in Nat  BY <1>8
  <2> QED  BY <2>1, <2>2, <2>3
<1>11. /\ h2 = [l \in K.mutexes |-> h2[l]]
       /\ \A l \in K.mutexes : h2[l] = IF l = m /\ d[m] = 1 THEN Free ELSE h[l]
  BY <1>6, <1>9
<1>12. /\ d2 \in [K.mutexes -> Nat]
       /\ \A l \in K.mutexes : d2[l] = IF l = m THEN d[l] - 1 ELSE d[l]
  <2>1. d[m] - 1 \in Nat  BY <1>8, <1>10
  <2> QED  BY <1>6, <1>9, <2>1
<1>13. \A l \in K.mutexes : h2[l] = Free <=> d2[l] = 0
  <2> TAKE l \in K.mutexes
  <2>1. d[l] \in Nat /\ (h[l] = Free <=> d[l] = 0)  BY <1>9
  <2> QED  BY <1>10, <1>11, <1>12, <2>1
<1>14. \A l \in K.mutexes : Count(s2, l) = IF h2[l] = t THEN d2[l] ELSE 0
  <2> TAKE l \in K.mutexes
  <2>1. CASE l = m
    <3>1. Count(s2, l) = d[m] - 1 /\ d2[l] = d[m] - 1  BY <1>8, <1>10, <1>12, <2>1
    <3>2. h2[l] = IF d[m] = 1 THEN Free ELSE t  BY <1>10, <1>11, <2>1
    <3> QED  BY <3>1, <3>2
  <2>2. CASE l # m
    <3>1. Count(s2, l) = Count(s, l)  BY <1>5, <1>8, <2>2
    <3>2. h2[l] = h[l] /\ d2[l] = d[l]  BY <1>11, <1>12, <2>2
    <3> QED  BY <1>3, <3>1, <3>2
  <2> QED  BY <2>1, <2>2
<1>15. \A l \in K.mutexes : \/ h2[l] = h[l] /\ (h[l] = t \/ d2[l] = d[l])
                            \/ h[l] \in {t, Free} /\ h2[l] \in {t, Free}
  BY <1>10, <1>11, <1>12
<1>16. td2 = [td EXCEPT ![t] = s2]  BY <1>2, <1>7
<1>m. Moves(K, T, t, h, d, td, s2, h2, d2, td2)  BY <1>5, <1>11, <1>12, <1>13, <1>14, <1>15, <1>16 DEF Moves
<1>c. Calls(K, T, h, d, td)  OBVIOUS
<1> QED  BY <1>m, <1>c, ThreadMoves

\* The stack is unwound over the first k items, and b comes before the rest.
Unwinds(K, t, k, b, h, d, td, h2, d2, td2) ==
  /\ k \in 0..Len(td[t]) /\ New(K, b, Held(After(td[t], k)))
  /\ d2 = [m \in K.mutexes |-> d[m] - Cardinality(Unlocks(td[t], k, m))]
  /\ h2 = [m \in K.mutexes |-> IF d2[m] = 0 THEN Free ELSE h[m]]
  /\ td2 = [td EXCEPT ![t] = b \o After(td[t], k)]

LEMMA Unwound ==
  ASSUME NEW K, NEW T, NEW h, NEW d, NEW td, NEW t, NEW k, NEW b, NEW h2, NEW d2, NEW td2,
         Kind(K), Free \notin T, t \in T, Calls(K, T, h, d, td),
         Unwinds(K, t, k, b, h, d, td, h2, d2, td2)
  PROVE  Calls(K, T, h2, d2, td2)
<1> DEFINE s == td[t]
           r == After(s, k)
           s2 == b \o r
<1>1. Good(K, s)  BY DEF Calls
<1>2. td2 = [td EXCEPT ![t] = s2]  BY DEF Unwinds
<1>3. \A l \in K.mutexes : Count(s, l) = IF h[l] = t THEN d[l] ELSE 0  BY DEF Calls
<1>4. New(K, b, Held(r)) /\ k \in 0..Len(s)  BY DEF Unwinds
<1>5. \A m \in K.mutexes : d2[m] = d[m] - Cardinality(Unlocks(s, k, m))  BY DEF Unwinds
<1> HIDE DEF s
<1>6. IsSeq(s) /\ k \in Nat  BY <1>1, <1>4, SeqFacts DEF Good
<1>7. Good(K, r) /\ IsSeq(r)  BY <1>1, <1>4, GoodAfter DEF Good
<1>8. \A m : Count(s, m) = Cardinality(Unlocks(s, k, m)) + Count(r, m)
  BY <1>4, <1>6, CountAfter
<1> HIDE DEF r
<1>9. Good(K, s2) /\ \A m : Count(s2, m) = Count(r, m)
  BY <1>4, <1>7, NewIsPlain, GoodJoined, CountJoined
<1> HIDE DEF s2
<1>10. \A m : Count(r, m) \in Nat /\ Cardinality(Unlocks(s, k, m)) \in Nat
  BY <1>6, <1>7, CountFacts, UnlocksFinite
<1>11. /\ h = [l \in K.mutexes |-> h[l]] /\ d \in [K.mutexes -> Nat]
       /\ \A l \in K.mutexes : h[l] = Free <=> d[l] = 0
  BY DEF Calls
<1>12. ASSUME NEW m \in K.mutexes
       PROVE  /\ d2[m] \in Nat
              /\ h[m] = t => d2[m] = Count(r, m)
              /\ h[m] # t => d2[m] = d[m] /\ Count(r, m) = 0
  <2>1. Count(s, m) = IF h[m] = t THEN d[m] ELSE 0  BY <1>3
  <2>2. Count(s, m) = Cardinality(Unlocks(s, k, m)) + Count(r, m)  BY <1>8
  <2>3. Count(r, m) \in Nat /\ Cardinality(Unlocks(s, k, m)) \in Nat /\ d[m] \in Nat  BY <1>10, <1>11
  <2>4. d2[m] = d[m] - Cardinality(Unlocks(s, k, m))  BY <1>5
  <2> QED  BY <2>1, <2>2, <2>3, <2>4
<1>d. d2 = [m \in K.mutexes |-> d2[m]]  BY DEF Unwinds
<1>13. d2 \in [K.mutexes -> Nat]  BY <1>12, <1>d
<1>e. h2 = [m \in K.mutexes |-> IF d2[m] = 0 THEN Free ELSE h[m]]  BY DEF Unwinds
<1>14. /\ h2 = [l \in K.mutexes |-> h2[l]]
       /\ \A m \in K.mutexes : h2[m] = IF d2[m] = 0 THEN Free ELSE h[m]
  BY <1>11, <1>e
<1>15. \A m \in K.mutexes : h2[m] = Free <=> d2[m] = 0
  <2> TAKE m \in K.mutexes
  <2>1. h[m] = Free => d2[m] = 0  BY <1>11, <1>12
  <2> QED  BY <1>14, <2>1
<1>16. \A m \in K.mutexes : Count(s2, m) = IF h2[m] = t THEN d2[m] ELSE 0
  <2> TAKE m \in K.mutexes
  <2>1. Count(s2, m) = Count(r, m)  BY <1>9
  <2> QED  BY <1>12, <1>14, <2>1
<1>17. \A m \in K.mutexes : \/ h2[m] = h[m] /\ (h[m] = t \/ d2[m] = d[m])
                            \/ h[m] \in {t, Free} /\ h2[m] \in {t, Free}
  <2> TAKE m \in K.mutexes
  <2>1. CASE h[m] = t  BY <1>14, <2>1
  <2>2. CASE h[m] # t
    <3>1. d2[m] = d[m]  BY <1>12, <2>2
    <3>2. h2[m] = h[m]  BY <1>11, <1>14, <3>1
    <3> QED  BY <3>1, <3>2
  <2> QED  BY <2>1, <2>2
<1>m. Moves(K, T, t, h, d, td, s2, h2, d2, td2)  BY <1>2, <1>9, <1>13, <1>14, <1>15, <1>16, <1>17 DEF Moves
<1>c. Calls(K, T, h, d, td)  OBVIOUS
<1> QED  BY <1>m, <1>c, ThreadMoves

\* An idle thread is called.
LEMMA Called ==
  ASSUME NEW K, Kind(K), NEW T, Free \notin T, NEW h, NEW d, NEW td, Calls(K, T, h, d, td),
         NEW t \in T, td[t] = <<>>, NEW s2, Good(K, s2), Plain(s2),
         NEW td2, td2 = [td EXCEPT ![t] = s2]
  PROVE  Calls(K, T, h, d, td2)
<1>1. \A m : Count(<<>>, m) = 0
  <2>1. \A m : Unlocks(<<>>, Len(<<>>), m) = {}  BY NoItem DEF Unlocks
  <2> QED  BY <2>1, FS_EmptySet DEF Count
<1>2. \A m : Count(s2, m) = 0
  <2>1. \A m : Unlocks(s2, Len(s2), m) = {}  BY DEF Plain, Unlocks
  <2> QED  BY <2>1, FS_EmptySet DEF Count
<1>3. \A m \in K.mutexes : Count(s2, m) = IF h[m] = t THEN d[m] ELSE 0
  BY <1>1, <1>2 DEF Calls
<1>4. h = [l \in K.mutexes |-> h[l]] /\ d \in [K.mutexes -> Nat]
      /\ \A m \in K.mutexes : h[m] = Free <=> d[m] = 0
  BY DEF Calls
<1>m. Moves(K, T, t, h, d, td, s2, h, d, td2)  BY <1>3, <1>4 DEF Moves
<1>c. Calls(K, T, h, d, td)  OBVIOUS
<1> QED  BY <1>m, <1>c, ThreadMoves

-----------------------------------------------------------------------------
(* Loops over the kernels.                                                  *)

LEMMA LeastNatural ==
  ASSUME NEW S \in SUBSET Nat, S # {}
  PROVE  \E n \in S : \A m \in S : n <= m
<1> DEFINE R == OpToRel(<, Nat)
<1>1. IsWellFoundedOn(R, Nat)  BY NatLessThanWellFounded
<1>2. \A x, y \in Nat : <<y, x>> \in R <=> y < x  BY DEF OpToRel
<1> HIDE DEF R
<1>3. PICK x \in S : \A y \in S : <<y, x>> \notin R  BY <1>1, WFMin
<1>4. \A y \in S : ~ (y < x)  BY <1>2, <1>3
<1> QED  BY <1>4

\* FlattenSeq of the community modules, the same in every instance.
Flatten(seqs) ==
  IF Len(seqs) = 0 THEN seqs ELSE
    LET flatten[i \in 1..Len(seqs)] ==
          IF i = 1 THEN seqs[i] ELSE flatten[i-1] \o seqs[i]
    IN flatten[Len(seqs)]

\* The equation of its recursive function, up to k.
Upto(seqs, k, f) == f = [i \in 1..k |-> IF i = 1 THEN seqs[i] ELSE f[i-1] \o seqs[i]]

LEMMA FlattenExists ==
  ASSUME NEW seqs, NEW k \in Nat
  PROVE  \E f : Upto(seqs, k, f)
<1> DEFINE Bad == {n \in Nat : ~ \E f : Upto(seqs, n, f)}
<1>1. \E f : Upto(seqs, 0, f)
  <2>1. [i \in 1..0 |-> 0] = [i \in 1..0 |-> IF i = 1 THEN seqs[i] ELSE [j \in 1..0 |-> 0][i-1] \o seqs[i]]
    OBVIOUS
  <2> QED  BY <2>1 DEF Upto
<1>2. ASSUME NEW n \in Nat, NEW f, Upto(seqs, n, f)
      PROVE  \E g : Upto(seqs, n + 1, g)
  <2> DEFINE x == IF n + 1 = 1 THEN seqs[n + 1] ELSE f[n] \o seqs[n + 1]
             g == [i \in 1..(n + 1) |-> IF i = n + 1 THEN x ELSE f[i]]
  <2>1. DOMAIN f = 1..n /\ \A i \in 1..n : f[i] = IF i = 1 THEN seqs[i] ELSE f[i-1] \o seqs[i]
    <3>1. f = [i \in 1..n |-> IF i = 1 THEN seqs[i] ELSE f[i-1] \o seqs[i]]  BY <1>2 DEF Upto
    <3> QED  BY ONLY <3>1
  <2>2. ASSUME NEW i \in 1..(n + 1)
        PROVE  g[i] = IF i = 1 THEN seqs[i] ELSE g[i-1] \o seqs[i]
    <3>1. CASE i = n + 1
      <4>1. g[i] = x  BY <3>1
      <4>2. i # 1 => g[i-1] = f[n]  BY <3>1
      <4> HIDE DEF g
      <4> QED  BY <3>1, <4>1, <4>2
    <3>2. CASE i # n + 1
      <4>1. g[i] = f[i] /\ i \in 1..n  BY <3>2
      <4>2. i # 1 => g[i-1] = f[i-1]  BY <3>2
      <4> HIDE DEF g
      <4> QED  BY <2>1, <4>1, <4>2
    <3> QED  BY <3>1, <3>2
  <2>3. g = [i \in 1..(n + 1) |-> g[i]]  OBVIOUS
  <2> HIDE DEF g
  <2>4. g = [i \in 1..(n + 1) |-> IF i = 1 THEN seqs[i] ELSE g[i-1] \o seqs[i]]  BY <2>2, <2>3
  <2> QED  BY <2>4 DEF Upto
<1>3. Bad = {}
  <2>1. SUFFICES ASSUME Bad # {} PROVE FALSE  OBVIOUS
  <2>2. Bad \in SUBSET Nat  OBVIOUS
  <2>3. 0 \notin Bad  BY <1>1
  <2>4. \A n \in Nat : n \notin Bad => n + 1 \notin Bad  BY <1>2
  <2> HIDE DEF Bad
  <2>5. PICK n \in Bad : \A m \in Bad : n <= m  BY <2>1, <2>2, LeastNatural
  <2>6. n \in Nat /\ n # 0  BY <2>2, <2>3
  <2>7. n - 1 \in Nat /\ n - 1 \notin Bad  BY <2>2, <2>5, <2>6
  <2>8. (n - 1) + 1 \notin Bad  BY <2>4, <2>7
  <2>9. (n - 1) + 1 = n  BY <2>6
  <2> QED  BY <2>8, <2>9
<1> QED  BY <1>3

\* A loop whose rounds are in order is in order.
LEMMA NewLoop ==
  ASSUME NEW K, NEW h, NEW seqs, NEW N \in Nat, Len(seqs) = N,
         \A i \in 1..N : New(K, seqs[i], h), N = 0 => seqs = <<>>
  PROVE  New(K, Flatten(seqs), h)
<1> DEFINE f == CHOOSE g : Upto(seqs, N, g)
<1>1. Upto(seqs, N, f)  BY FlattenExists
<1>2. N # 0 => Flatten(seqs) = f[N]
  <2>1. \A g : Upto(seqs, N, g) <=> g = [i \in 1..Len(seqs) |-> IF i = 1 THEN seqs[i] ELSE g[i-1] \o seqs[i]]
    BY DEF Upto
  <2>2. f = CHOOSE g : g = [i \in 1..Len(seqs) |-> IF i = 1 THEN seqs[i] ELSE g[i-1] \o seqs[i]]
    BY DEF Upto
  <2> HIDE DEF f
  <2> QED  BY <2>2 DEF Flatten
<1> HIDE DEF f
<1>3. \A i \in 1..N : f[i] = IF i = 1 THEN seqs[i] ELSE f[i-1] \o seqs[i]
  <2>1. f = [i \in 1..N |-> IF i = 1 THEN seqs[i] ELSE f[i-1] \o seqs[i]]  BY <1>1 DEF Upto
  <2> QED  BY ONLY <2>1
<1>4. ASSUME N # 0 PROVE New(K, f[N], h)
  <2> DEFINE Bad == {i \in 1..N : ~New(K, f[i], h)}
  <2>1. SUFFICES ASSUME Bad # {} PROVE FALSE  BY <1>4
  <2>2. Bad \in SUBSET Nat  OBVIOUS
  <2>3. 1 \notin Bad  BY <1>3, <1>4
  <2>4. ASSUME NEW i \in 1..N, i # 1, i - 1 \notin Bad PROVE i \notin Bad
    <3>1. i - 1 \in 1..N  BY <2>4
    <3>2. New(K, f[i-1], h) /\ New(K, seqs[i], h)  BY <2>4, <3>1
    <3>3. New(K, f[i-1] \o seqs[i], h)  BY <3>2, NewJoined
    <3> QED  BY <1>3, <2>4, <3>3
  <2>5. Bad \subseteq 1..N  OBVIOUS
  <2> HIDE DEF Bad
  <2>6. PICK i \in Bad : \A j \in Bad : i <= j  BY <2>1, <2>2, LeastNatural
  <2>7. i \in 1..N /\ i # 1  BY <2>3, <2>5
  <2>8. i - 1 \notin Bad  BY <2>2, <2>6, <2>7
  <2> QED  BY <2>4, <2>6, <2>7, <2>8
<1>5. N = 0 => Flatten(seqs) = <<>>  BY DEF Flatten
<1> QED  BY <1>2, <1>4, <1>5, NewEmpty
-----------------------------------------------------------------------------
(* The steps of LockedCalls, for the threads T of a class of kind K.        *)

\* What every step of a thread comes to, unless it ends the process: some of
\* its first items are replaced, and the invariant of the calls holds.
Goes(K, T, t) ==
  \/ dead'
  \/ /\ Calls(K, T, holder', depth', todo')
     /\ \E k \in 1..Len(todo[t]) : \E b :
          /\ todo' = [todo EXCEPT ![t] = b \o After(todo[t], k)]
          /\ IsSeq(b) /\ \A n \in 1..Len(b) : b[n].do \in {"unlock", "end"} \/ b[n].do \notin K.outer
          /\ k = 1 \/ todo'[t] = <<>> \/ todo[t][k].do = "end"

\* The threads are T, none has ended the process, and t has something to do.
Busy(K, T, t) ==
  /\ Kind(K) /\ Free \notin T /\ t \in T
  /\ Calls(K, T, holder, depth, todo) /\ todo[t] # <<>>

LEMMA BusyFirst ==
  ASSUME NEW K, NEW T, NEW t, Busy(K, T, t)
  PROVE  /\ IsSeq(todo[t]) /\ Len(todo[t]) \in Nat /\ 1 \in 1..Len(todo[t])
         /\ Head(todo[t]) = todo[t][1] /\ Tail(todo[t]) = After(todo[t], 1)
         /\ IsSeq(Tail(todo[t])) /\ LocalNew(K, Head(todo[t]), Held(Tail(todo[t])))
         /\ todo = [u \in K.threads |-> todo[u]] /\ T \subseteq K.threads
<1>1. Good(K, todo[t]) /\ todo[t] # <<>>  BY DEF Busy, Calls
<1>2. IsSeq(todo[t])  BY <1>1 DEF Good
<1>3. Len(todo[t]) \in Nat /\ Len(todo[t]) >= 1  BY <1>1, <1>2, SeqFacts
<1>4. Head(todo[t]) = todo[t][1] /\ Tail(todo[t]) = After(todo[t], 1)  BY <1>1, <1>2, SeqFacts
<1>5. IsSeq(Tail(todo[t])) /\ LocalNew(K, Head(todo[t]), Held(Tail(todo[t])))  BY <1>1, FirstItem
<1>6. todo = [u \in K.threads |-> todo[u]] /\ T \subseteq K.threads  BY DEF Busy, Calls
<1> QED  BY <1>2, <1>3, <1>4, <1>5, <1>6

\* The form of a step that takes the first item.
LEMMA GoesOn ==
  ASSUME NEW K, NEW T, NEW t, Busy(K, T, t), NEW b,
         todo' = [todo EXCEPT ![t] = b \o Tail(@)],
         IsSeq(b), \A n \in 1..Len(b) : b[n].do \in {"unlock", "end"} \/ b[n].do \notin K.outer,
         Calls(K, T, holder', depth', todo')
  PROVE  Goes(K, T, t)
<1>1. 1 \in 1..Len(todo[t]) /\ Tail(todo[t]) = After(todo[t], 1)
      /\ todo = [u \in K.threads |-> todo[u]] /\ T \subseteq K.threads
  BY BusyFirst
<1>2. todo' = [todo EXCEPT ![t] = b \o After(todo[t], 1)]
  <2>1. todo' = [todo EXCEPT ![t] = b \o Tail(todo[t])]  BY <1>1 DEF Busy
  <2> QED  BY <1>1, <2>1
<1> QED  BY <1>1, <1>2 DEF Goes

\* A sequence with one item more that ends a scope.
LEMMA WithEnd ==
  ASSUME NEW K, NEW b, NEW h, New(K, b, h), NEW i, i.do \in {"unlock", "end"}
  PROVE  /\ IsSeq(b \o <<i>>)
         /\ \A n \in 1..Len(b \o <<i>>) :
              (b \o <<i>>)[n].do \in {"unlock", "end"} \/ (b \o <<i>>)[n].do \notin K.outer
<1> DEFINE o == <<i>>
           c == b \o o
<1>1. IsSeq(o) /\ Len(o) = 1 /\ o[1] = i  BY OneItem
<1> HIDE DEF o
<1>2. IsSeq(b) /\ Len(b) \in Nat /\ \A n \in 1..Len(b) : b[n].do \notin K.outer
  BY SeqFacts DEF New
<1>3. /\ IsSeq(c) /\ Len(c) = Len(b) + Len(o)
      /\ \A n \in 1..Len(b) : c[n] = b[n]
      /\ \A n \in 1..Len(o) : c[Len(b) + n] = o[n]
  <2>1. IsSeq(b) /\ IsSeq(o)  BY <1>1, <1>2
  <2> QED  BY <2>1, Joined
<1> HIDE DEF c
<1>4. ASSUME NEW n \in 1..Len(c) PROVE c[n].do \in {"unlock", "end"} \/ c[n].do \notin K.outer
  <2>1. CASE n \in 1..Len(b)  BY <1>2, <1>3, <2>1
  <2>2. CASE n \notin 1..Len(b)
    <3>1. n = Len(b) + 1 /\ 1 \in 1..Len(o)  BY <1>1, <1>2, <1>3, <2>2
    <3>2. c[n] = i  BY <1>1, <1>3, <3>1
    <3> QED  BY <3>2
  <2> QED  BY <2>1, <2>2
<1> QED  BY <1>3, <1>4 DEF c, o

LEMMA ReplacedGoes ==
  ASSUME NEW K, NEW T, NEW t, Busy(K, T, t), Head(todo[t]).do # "unlock",
         NEW b, New(K, b, Held(Tail(todo[t]))),
         todo' = [todo EXCEPT ![t] = b \o Tail(@)], UNCHANGED <<holder, depth>>
  PROVE  Goes(K, T, t)
<1>1. Calls(K, T, holder, depth, todo')
  BY Replaced DEF Busy
<1>2. Calls(K, T, holder', depth', todo')  BY <1>1
<1>3. IsSeq(b) /\ \A n \in 1..Len(b) : b[n].do \in {"unlock", "end"} \/ b[n].do \notin K.outer
  BY DEF New
<1> QED  BY <1>2, <1>3, GoesOn

\* The steps on locks and try blocks, as LockedCalls has them.
LEMMA AcquireGoes ==
  ASSUME NEW K, NEW T, NEW t, Busy(K, T, t), Head(todo[t]).do = "lock",
         NEW m, m = Head(todo[t]).m, holder[m] = Free \/ holder[m] = t,
         holder' = [holder EXCEPT ![m] = t], depth' = [depth EXCEPT ![m] = @ + 1],
         todo' = [todo EXCEPT ![t] =
                    (Head(todo[t]).body \o <<[do |-> "unlock", m |-> m]>>) \o Tail(@)]
  PROVE  Goes(K, T, t)
<1>1. Calls(K, T, holder', depth', todo')  BY Acquired DEF Busy
<1> DEFINE i == [do |-> "unlock", m |-> m]
           b == Head(todo[t]).body \o <<i>>
<1>2. IsSeq(b) /\ \A n \in 1..Len(b) : b[n].do \in {"unlock", "end"} \/ b[n].do \notin K.outer
  <2>1. New(K, Head(todo[t]).body, Held(Tail(todo[t])) \cup {m})
    BY BusyFirst DEF LocalNew
  <2>2. i.do \in {"unlock", "end"}  OBVIOUS
  <2> HIDE DEF i
  <2> QED  BY <2>1, <2>2, WithEnd
<1>3. todo' = [todo EXCEPT ![t] = b \o Tail(@)]  OBVIOUS
<1> HIDE DEF b
<1> QED  BY <1>1, <1>2, <1>3, GoesOn

LEMMA ReleaseGoes ==
  ASSUME NEW K, NEW T, NEW t, Busy(K, T, t), Head(todo[t]).do = "unlock",
         NEW m, m = Head(todo[t]).m,
         holder' = [holder EXCEPT ![m] = IF depth[m] = 1 THEN Free ELSE @],
         depth' = [depth EXCEPT ![m] = @ - 1],
         todo' = [todo EXCEPT ![t] = <<>> \o Tail(@)]
  PROVE  Goes(K, T, t)
<1>1. Calls(K, T, holder', depth', todo')  BY Released DEF Busy
<1> DEFINE b == <<>>
<1>2. IsSeq(b) /\ \A n \in 1..Len(b) : b[n].do \in {"unlock", "end"} \/ b[n].do \notin K.outer
  BY NoItem
<1>3. todo' = [todo EXCEPT ![t] = b \o Tail(@)]  OBVIOUS
<1> HIDE DEF b
<1> QED  BY <1>1, <1>2, <1>3, GoesOn

LEMMA EnterGoes ==
  ASSUME NEW K, NEW T, NEW t, Busy(K, T, t), Head(todo[t]).do = "try",
         UNCHANGED <<holder, depth>>,
         todo' = [todo EXCEPT ![t] =
           (Head(todo[t]).body \o <<[do |-> "end", handler |-> Head(todo[t]).handler]>>) \o Tail(@)]
  PROVE  Goes(K, T, t)
<1>1. Calls(K, T, holder, depth, todo')  BY Entered DEF Busy
<1>2. Calls(K, T, holder', depth', todo')  BY <1>1
<1> DEFINE i == [do |-> "end", handler |-> Head(todo[t]).handler]
           b == Head(todo[t]).body \o <<i>>
<1>3. IsSeq(b) /\ \A n \in 1..Len(b) : b[n].do \in {"unlock", "end"} \/ b[n].do \notin K.outer
  <2>1. New(K, Head(todo[t]).body, Held(Tail(todo[t])))
    BY BusyFirst DEF LocalNew
  <2>2. i.do \in {"unlock", "end"}  OBVIOUS
  <2> HIDE DEF i
  <2> QED  BY <2>1, <2>2, WithEnd
<1>4. todo' = [todo EXCEPT ![t] = b \o Tail(@)]  OBVIOUS
<1> HIDE DEF b
<1> QED  BY <1>2, <1>3, <1>4, GoesOn

\* Throw of LockedCalls.
Throws(T, Sv, M, t) ==
  LET rest == todo[t]
      ends == {n \in DOMAIN rest : rest[n].do = "end"}
      last == IF ends = {} THEN Len(rest)
              ELSE CHOOSE n \in ends : \A j \in ends : n <= j
      left == [m \in M |->
                 depth[m] - Cardinality({n \in 1..last : rest[n].do = "unlock" /\ rest[n].m = m})]
      kept == SubSeq(rest, last + 1, Len(rest))
  IN  IF ends = {} /\ t \in Sv
      THEN dead' = TRUE
      ELSE /\ todo' = [todo EXCEPT ![t] =
                         IF ends = {} THEN <<>> ELSE rest[last].handler \o kept]
           /\ depth' = left
           /\ holder' = [m \in M |-> IF left[m] = 0 THEN Free ELSE holder[m]]

LEMMA ThrowGoes ==
  ASSUME NEW K, NEW T, NEW t, Busy(K, T, t), NEW Sv, Throws(T, Sv, K.mutexes, t)
  PROVE  Goes(K, T, t)
<1> DEFINE rest == todo[t]
           ends == {n \in DOMAIN rest : rest[n].do = "end"}
           last == IF ends = {} THEN Len(rest)
                   ELSE CHOOSE n \in ends : \A j \in ends : n <= j
           left == [m \in K.mutexes |-> depth[m] - Cardinality(Unlocks(rest, last, m))]
           b == IF ends = {} THEN <<>> ELSE rest[last].handler
<1>1. /\ IsSeq(rest) /\ Len(rest) \in Nat /\ DOMAIN rest = 1..Len(rest) /\ Len(rest) >= 1
      /\ Good(K, rest)
      /\ todo = [u \in K.threads |-> todo[u]] /\ T \subseteq K.threads
  BY BusyFirst, SeqFacts DEF Busy, Calls
<1>2. CASE dead'  BY <1>2 DEF Goes
<1>3. ASSUME ~dead'
      PROVE  /\ todo' = [todo EXCEPT ![t] = IF ends = {} THEN <<>>
                                          ELSE rest[last].handler \o After(rest, last)]
             /\ depth' = left
             /\ holder' = [m \in K.mutexes |-> IF left[m] = 0 THEN Free ELSE holder[m]]
  BY <1>3 DEF Throws, After, Unlocks
<1>4. last \in 1..Len(rest) /\ (ends # {} => rest[last].do = "end")
  <2>1. CASE ends = {}  BY <1>1, <2>1
  <2>2. CASE ends # {}
    <3>1. ends \in SUBSET Nat  BY <1>1
    <3>2. \E n \in ends : \A j \in ends : n <= j
      <4> HIDE DEF ends
      <4> QED  BY <2>2, <3>1, LeastNatural
    <3>3. last \in ends
      <4> HIDE DEF ends
      <4> QED  BY <2>2, <3>2
    <3> HIDE DEF last
    <3> QED  BY <1>1, <3>3
  <2> QED  BY <2>1, <2>2
<1> HIDE DEF last
<1>f. last \in 0..Len(rest) /\ last # 0  BY <1>1, <1>4
<1>5. New(K, b, Held(After(rest, last)))
  <2>1. CASE ends = {}  BY <2>1, NewEmpty
  <2>2. CASE ends # {}
    <3> HIDE DEF rest
    <3>1. Fits(K, rest[last], Held(After(rest, last)))  BY <1>1, <1>f, GoodAfter
    <3>2. LocalNew(K, rest[last], Held(After(rest, last)))  BY <3>1, FitsUnfolds
    <3>3. New(K, rest[last].handler, Held(After(rest, last)))
      <4> HIDE DEF ends
      <4> QED  BY <1>4, <2>2, <3>2 DEF LocalNew
    <3>4. b = rest[last].handler  BY <2>2
    <3> HIDE DEF b
    <3> QED  BY <3>3, <3>4
  <2> QED  BY <2>1, <2>2
<1>6. ends = {} => b \o After(rest, last) = <<>>
  <2>1. SUFFICES ASSUME ends = {} PROVE <<>> \o After(rest, Len(rest)) = <<>>
    BY DEF last
  <2>2. After(rest, Len(rest)) = <<>>
    <3>1. Len(rest) \in 0..Len(rest) /\ Len(rest) - Len(rest) = 0  BY <1>1
    <3> HIDE DEF rest
    <3>2. IsSeq(After(rest, Len(rest))) /\ Len(After(rest, Len(rest))) = 0  BY <1>1, <3>1, AfterFacts
    <3> QED  BY <3>2, SeqFacts
  <2>3. <<>> \in Seq({})  OBVIOUS
  <2>4. <<>> \o <<>> = <<>>  BY <2>3, ConcatEmptySeq
  <2> QED  BY <2>2, <2>4
<1>7. ASSUME ~dead' PROVE todo' = [todo EXCEPT ![t] = b \o After(rest, last)]
  <2>1. CASE ends = {}
    <3>1. todo' = [todo EXCEPT ![t] = <<>>]  BY <1>3, <1>7, <2>1
    <3> HIDE DEF b, ends
    <3> QED  BY <1>6, <2>1, <3>1
  <2>2. CASE ends # {}
    <3>1. todo' = [todo EXCEPT ![t] = rest[last].handler \o After(rest, last)]  BY <1>3, <1>7, <2>2
    <3>2. b = rest[last].handler  BY <2>2
    <3> HIDE DEF b
    <3> QED  BY <3>1, <3>2
  <2> QED  BY <2>1, <2>2
<1>8. ASSUME ~dead' PROVE Calls(K, T, holder', depth', todo')
  <2>1. last \in 0..Len(todo[t])  BY <1>f
  <2>2. todo' = [todo EXCEPT ![t] = b \o After(todo[t], last)]  BY <1>7, <1>8
  <2>3. New(K, b, Held(After(todo[t], last)))  BY <1>5
  <2>4. depth' = [m \in K.mutexes |-> depth[m] - Cardinality(Unlocks(todo[t], last, m))]
    BY <1>3, <1>8
  <2>5. holder' = [m \in K.mutexes |-> IF depth'[m] = 0 THEN Free ELSE holder[m]]
    BY <1>3, <1>8
  <2>6. /\ Kind(K) /\ Free \notin T /\ t \in T /\ Calls(K, T, holder, depth, todo)
    BY DEF Busy
  <2> HIDE DEF b, left, rest, ends
  <2>7. Unwinds(K, t, last, b, holder, depth, todo, holder', depth', todo')
    BY <2>1, <2>2, <2>3, <2>4, <2>5 DEF Unwinds
  <2> QED  BY <2>6, <2>7, Unwound
<1>9. IsSeq(b) /\ \A n \in 1..Len(b) : b[n].do \in {"unlock", "end"} \/ b[n].do \notin K.outer
  <2> HIDE DEF b, rest
  <2> QED  BY <1>5 DEF New
<1>10. ASSUME ~dead' PROVE todo'[t] = <<>> \/ todo[t][last].do = "end"
  <2>1. CASE ends = {}
    <3>1. todo' = [todo EXCEPT ![t] = <<>>]  BY <1>3, <1>10, <2>1
    <3> QED  BY <1>1, <3>1 DEF Busy
  <2>2. CASE ends # {}
    <3> HIDE DEF ends
    <3> QED  BY <1>4, <2>2
  <2> QED  BY <2>1, <2>2
<1>11. last \in 1..Len(todo[t])  BY <1>4
<1> HIDE DEF b, left, ends
<1>12. todo' = [todo EXCEPT ![t] = b \o After(todo[t], last)] \/ dead'  BY <1>7
<1> HIDE DEF rest
<1> QED  BY <1>8, <1>9, <1>10, <1>11, <1>12 DEF Goes

-----------------------------------------------------------------------------
(* What an idle thread may be called with: items that leave no scope and    *)
(* fit where nothing is held.                                               *)

Loose(K, s) == IsSeq(s) /\ \A n \in 1..Len(s) : s[n].do # "unlock" /\ Fits(K, s[n], {})

LEMMA LooseOne ==
  ASSUME NEW K, NEW i, i.do # "unlock", LocalNew(K, i, {})
  PROVE  Loose(K, <<i>>)
<1>1. Fits(K, i, {})  BY FitsFolds
<1> DEFINE s == <<i>>
<1>2. IsSeq(s) /\ Len(s) = 1 /\ s[1] = i  BY OneItem
<1> HIDE DEF s
<1>3. ASSUME NEW n \in 1..Len(s) PROVE s[n] = i  BY <1>2, <1>3
<1> QED  BY <1>1, <1>2, <1>3 DEF Loose, s

LEMMA LooseNew ==
  ASSUME NEW K, Kind(K), NEW b, New(K, b, {})
  PROVE  Loose(K, b)
BY DEF Loose, New, Kind

LEMMA LooseJoined ==
  ASSUME NEW K, NEW a, NEW b, Loose(K, a), Loose(K, b)
  PROVE  Loose(K, a \o b)
<1> DEFINE c == a \o b
<1>1. IsSeq(a) /\ IsSeq(b)  BY DEF Loose
<1>2. /\ IsSeq(c) /\ Len(c) = Len(a) + Len(b) /\ Len(a) \in Nat /\ Len(b) \in Nat
      /\ \A n \in 1..Len(a) : c[n] = a[n]
      /\ \A n \in 1..Len(b) : c[Len(a) + n] = b[n]
  BY <1>1, Joined, SeqFacts
<1> HIDE DEF c
<1>3. ASSUME NEW n \in 1..Len(c) PROVE c[n].do # "unlock" /\ Fits(K, c[n], {})
  <2>1. CASE n \in 1..Len(a)  BY <1>2, <2>1 DEF Loose
  <2>2. CASE n \notin 1..Len(a)
    <3>1. n - Len(a) \in 1..Len(b) /\ n = Len(a) + (n - Len(a))  BY <1>2, <2>2
    <3>2. c[n] = b[n - Len(a)]  BY <1>2, <3>1
    <3> QED  BY <3>1, <3>2 DEF Loose
  <2> QED  BY <2>1, <2>2
<1> QED  BY <1>2, <1>3 DEF Loose, c

LEMMA LooseGood ==
  ASSUME NEW K, NEW s, Loose(K, s)
  PROVE  Good(K, s) /\ Plain(s)
<1>1. IsSeq(s) /\ Len(s) \in Nat  BY SeqFacts DEF Loose
<1>2. ASSUME NEW n \in 1..Len(s) PROVE Held(After(s, n)) = {}
  <2>1. n \in 0..Len(s)  BY <1>1
  <2>2. Len(After(s, n)) = Len(s) - n /\ \A j \in 1..(Len(s) - n) : After(s, n)[j] = s[n + j]
    BY <1>1, <2>1, AfterFacts
  <2>3. \A j \in 1..(Len(s) - n) : n + j \in 1..Len(s)  BY <1>1
  <2>4. \A j \in 1..Len(After(s, n)) : After(s, n)[j].do # "unlock"  BY <2>2, <2>3 DEF Loose
  <2> QED  BY <2>4 DEF Held
<1> QED  BY <1>1, <1>2 DEF Good, Plain, Loose

\* An idle thread is called, in the form of Goes.
LEMMA CallsAgain ==
  ASSUME NEW K, NEW T, NEW h, NEW d, NEW td, NEW t, NEW s2,
         Kind(K), Free \notin T, t \in T, Calls(K, T, h, d, td), td[t] = <<>>, Loose(K, s2)
  PROVE  Calls(K, T, h, d, [td EXCEPT ![t] = s2])
<1>1. Good(K, s2) /\ Plain(s2)  BY LooseGood
<1> DEFINE td2 == [td EXCEPT ![t] = s2]
<1>2. td2 = [td EXCEPT ![t] = s2]  OBVIOUS
<1> HIDE DEF td2
<1>3. Calls(K, T, h, d, td2)  BY <1>1, <1>2, Called
<1> QED  BY <1>3 DEF td2

-----------------------------------------------------------------------------
(* The methods of ParentKernel.                                             *)

ParentThreads == Clients \cup {Monitor, Worker}

\* child_kernels_mutex_ comes first, then any other; the distributions also
\* come after the quotas (cleanupChildKernel).
ParentK == [
  threads |-> ParentThreads,
  mutexes |-> {"children", "quotas", "distributions", "metrics"},
  order |-> ({"children", "quotas", "metrics"} \X SUBSET {"children"})
              \cup ({"distributions"} \X SUBSET {"children", "quotas"}),
  wide |-> {"each", "check", "round"},
  base |-> {"children"},
  loops |-> {"start", "stop", "pause", "resume", "optimize", "check", "usage", "message"},
  outer |-> {"unlock", "end", "join", "running"}]

ParentPlain ==
  {"find", "insert", "findQuota", "quota", "share", "eraseQuota", "eraseShare", "erase", "active",
   "inactive", "start", "stop", "pause", "resume", "message", "flags", "collect", "paused", "quiet",
   "await"}

LEMMA ParentKind ==
  /\ Kind(ParentK)
  /\ "lock" \notin ParentK.outer /\ "try" \notin ParentK.outer
  /\ "lock" \notin ParentK.wide /\ "try" \notin ParentK.wide
<1>1. \A p \in ParentK.order : p[1] \in ParentK.mutexes
  BY DEF ParentK
<1>2. /\ {"unlock", "end"} \subseteq ParentK.outer
      /\ \A d \in {"lock", "try", "unlock", "end"} : d \notin ParentK.wide
      /\ "lock" \notin ParentK.outer /\ "try" \notin ParentK.outer
  BY DEF ParentK
<1> QED  BY <1>1, <1>2 DEF Kind

LEMMA ParentOrder ==
  ASSUME NEW h, h \subseteq {"children"}
  PROVE  /\ \A m \in ParentK.mutexes : <<m, h>> \in ParentK.order
         /\ <<"distributions", h \cup {"quotas"}>> \in ParentK.order
BY DEF ParentK

LEMMA ParentDo ==
  ASSUME NEW d \in ParentPlain, NEW arg, NEW h
  PROVE  New(ParentK, Parent!Do(d, arg), h)
<1>1. /\ d \notin ParentK.outer /\ d \notin ParentK.wide
      /\ d \notin {"lock", "try", "each", "end", "unlock"}
  BY DEF ParentPlain, ParentK
<1>2. New(ParentK, <<[do |-> d, arg |-> arg]>>, h)  BY <1>1, NewStep
<1> QED  BY <1>2 DEF Parent!Do

LEMMA ParentWide ==
  ASSUME NEW d \in {"each", "check", "round"}, NEW arg, NEW h, h \subseteq {"children"},
         d = "each" => arg \in ParentK.loops
  PROVE  New(ParentK, Parent!Do(d, arg), h)
<1>1. /\ d \notin ParentK.outer /\ h \subseteq ParentK.base
      /\ d \notin {"lock", "try", "end", "unlock"}
  BY DEF ParentK
<1>2. New(ParentK, <<[do |-> d, arg |-> arg]>>, h)  BY <1>1, NewWide
<1> QED  BY <1>2 DEF Parent!Do

LEMMA ParentLocked ==
  ASSUME NEW m, NEW body, NEW h, <<m, h>> \in ParentK.order, New(ParentK, body, h \cup {m})
  PROVE  New(ParentK, Parent!Locked(m, body), h)
<1>1. New(ParentK, <<[do |-> "lock", m |-> m, body |-> body]>>, h)  BY ParentKind, NewLocked
<1> QED  BY <1>1 DEF Parent!Locked

LEMMA ParentTry ==
  ASSUME NEW body, NEW handler, NEW h, New(ParentK, body, h), New(ParentK, handler, h)
  PROVE  New(ParentK, Parent!Try(body, handler), h)
<1>1. New(ParentK, <<[do |-> "try", body |-> body, handler |-> handler]>>, h)  BY ParentKind, NewTry
<1> QED  BY <1>1 DEF Parent!Try

\* The methods that are called with child_kernels_mutex_ held and without it.
LEMMA ParentMethods ==
  ASSUME NEW h, h \subseteq {"children"}, NEW n
  PROVE  /\ New(ParentK, Parent!OptimizeChildKernel(n), h)
         /\ New(ParentK, Parent!GetChildKernel(n), h)
         /\ New(ParentK, Parent!SetResourceQuota(n), h)
         /\ New(ParentK, Parent!GetResourceQuota(n), h)
         /\ New(ParentK, Parent!SetTaskDistribution(n), h)
         /\ New(ParentK, Parent!HandleChildError(n), h)
         /\ New(ParentK, Parent!InitializeChildKernel(n), h)
         /\ New(ParentK, Parent!CleanupChildKernel(n), h)
         /\ New(ParentK, Parent!UpdateMetrics, h)
<1>1. \A m \in ParentK.mutexes : <<m, h>> \in ParentK.order  BY ParentOrder
<1>2. {"children", "quotas", "distributions", "metrics"} = ParentK.mutexes  BY DEF ParentK
<1>3. \A d \in {"find", "insert", "findQuota", "quota", "share", "eraseQuota", "eraseShare", "inactive",
                "flags", "collect"} : d \in ParentPlain
  BY DEF ParentPlain
<1>4. New(ParentK, Parent!GetChildKernel(n), h)
  BY <1>1, <1>2, <1>3, ParentDo, ParentLocked DEF Parent!GetChildKernel
<1>5. New(ParentK, Parent!OptimizeChildKernel(n), h)
  BY <1>3, <1>4, ParentDo, NewJoined DEF Parent!OptimizeChildKernel
<1>6. New(ParentK, Parent!SetResourceQuota(n), h)
  BY <1>1, <1>2, <1>3, ParentDo, ParentLocked DEF Parent!SetResourceQuota
<1>7. New(ParentK, Parent!GetResourceQuota(n), h)
  BY <1>1, <1>2, <1>3, ParentDo, ParentLocked DEF Parent!GetResourceQuota
<1>8. New(ParentK, Parent!SetTaskDistribution(n), h)
  BY <1>1, <1>2, <1>3, ParentDo, ParentLocked DEF Parent!SetTaskDistribution
<1>9. New(ParentK, Parent!HandleChildError(n), h)
  BY <1>1, <1>2, <1>3, ParentDo, ParentLocked DEF Parent!HandleChildError, Parent!UpdateChildStatus
<1>10. New(ParentK, Parent!UpdateMetrics, h)
  BY <1>1, <1>2, <1>3, ParentDo, ParentLocked DEF Parent!UpdateMetrics
<1>11. New(ParentK, Parent!InitializeChildKernel(n), h)
  BY <1>4, <1>5, <1>6, <1>8, NewJoined DEF Parent!InitializeChildKernel
<1>12. New(ParentK, Parent!CleanupChildKernel(n), h)
  <2>1. New(ParentK, Parent!Locked("distributions", Parent!Do("eraseShare", n)), h \cup {"quotas"})
    BY <1>3, ParentOrder, ParentDo, ParentLocked
  <2>2. New(ParentK, Parent!Do("eraseQuota", n), h \cup {"quotas"})  BY <1>3, ParentDo
  <2>3. New(ParentK, Parent!Do("eraseQuota", n) \o Parent!Locked("distributions", Parent!Do("eraseShare", n)),
            h \cup {"quotas"})
    BY <2>1, <2>2, NewJoined
  <2> QED  BY <1>1, <1>2, <2>3, ParentLocked DEF Parent!CleanupChildKernel
<1> QED  BY <1>4, <1>5, <1>6, <1>7, <1>8, <1>9, <1>10, <1>11, <1>12

\* What a loop does with one child.
LEMMA ParentEach ==
  ASSUME NEW h, h \subseteq {"children"}, NEW step \in ParentK.loops, NEW n
  PROVE  New(ParentK, Parent!EachBody(step, n), h)
<1>1. /\ New(ParentK, Parent!OptimizeChildKernel(n), h)
      /\ New(ParentK, Parent!GetResourceQuota(n), h)
      /\ New(ParentK, Parent!HandleChildError(n), h)
  BY ParentMethods
<1>2. \A d \in {"start", "stop", "pause", "resume", "message", "active", "inactive"} :
        New(ParentK, Parent!Do(d, n), h)
  BY ParentDo DEF ParentPlain
<1>3. New(ParentK, Parent!Do("check", n), h)  BY ParentWide
<1>4. CASE step = "start"
  <2>1. New(ParentK, Parent!Do("start", n) \o Parent!Do("active", n), h)  BY <1>2, NewJoined
  <2>2. New(ParentK, Parent!StartChild(n), h)  BY <1>1, <2>1, ParentTry DEF Parent!StartChild
  <2> QED  BY <1>4, <2>2 DEF Parent!EachBody
<1>5. CASE step = "stop"
  <2>1. New(ParentK, Parent!Do("stop", n) \o Parent!Do("inactive", n), h)  BY <1>2, NewJoined
  <2>2. New(ParentK, Parent!Try(Parent!Do("stop", n) \o Parent!Do("inactive", n), Parent!HandleChildError(n)), h)
    BY <1>1, <2>1, ParentTry
  <2> QED  BY <1>5, <2>2 DEF Parent!EachBody
<1>6. CASE step \in {"pause", "resume"}
  <2>1. New(ParentK, Parent!Try(Parent!Do(step, n), Parent!HandleChildError(n)), h)
    BY <1>1, <1>2, <1>6, ParentTry
  <2> QED  BY <1>6, <2>1 DEF Parent!EachBody
<1>7. CASE step = "optimize"  BY <1>1, <1>7 DEF Parent!EachBody
<1>8. CASE step = "check"
  <2>1. New(ParentK, Parent!Do("inactive", n) \o Parent!HandleChildError(n), h)  BY <1>1, <1>2, NewJoined
  <2>2. New(ParentK, Parent!Try(Parent!Do("check", n), Parent!Do("inactive", n) \o Parent!HandleChildError(n)), h)
    BY <1>3, <2>1, ParentTry
  <2> QED  BY <1>8, <2>2 DEF Parent!EachBody
<1>9. CASE step = "usage"
  <2>1. New(ParentK, Parent!Try(Parent!GetResourceQuota(n), Parent!HandleChildError(n)), h)
    BY <1>1, ParentTry
  <2> QED  BY <1>9, <2>1, NewEmpty DEF Parent!EachBody
<1>10. CASE step = "message"
  <2>1. New(ParentK, Parent!Try(Parent!Do("message", n), Parent!HandleChildError(n)), h)
    BY <1>1, <1>2, ParentTry
  <2> QED  BY <1>10, <2>1, NewEmpty DEF Parent!EachBody
<1> QED  BY <1>4, <1>5, <1>6, <1>7, <1>8, <1>9, <1>10 DEF ParentK

LEMMA ParentAll ==
  ASSUME NEW h, h \subseteq {"children"}, NEW step \in ParentK.loops
  PROVE  New(ParentK, Parent!AllChildren(step), h)
<1>1. <<"children", h>> \in ParentK.order /\ h \cup {"children"} \subseteq {"children"}
  BY ParentOrder DEF ParentK
<1>2. New(ParentK, Parent!Do("each", step), h \cup {"children"})  BY <1>1, ParentWide
<1> QED  BY <1>1, <1>2, ParentLocked DEF Parent!AllChildren

\* One round of the monitoring thread, and the recovery of a child.
LEMMA ParentRounds ==
  ASSUME NEW h, h \subseteq {"children"}
  PROVE  /\ New(ParentK, Parent!MonitorRound, h)
         /\ \A n : New(ParentK, Parent!RecoverChild(n), h)
<1>1. <<"children", h>> \in ParentK.order /\ h \cup {"children"} \subseteq {"children"}
      /\ "check" \in ParentK.loops /\ "usage" \in ParentK.loops
  BY ParentOrder DEF ParentK
<1>2. New(ParentK, Parent!MonitorRound, h)
  <2> DEFINE g == h \cup {"children"}
  <2>1. New(ParentK, Parent!Do("each", "check"), g)  BY <1>1, ParentWide
  <2>2. New(ParentK, Parent!MonitorResourceUsage, g)  BY <1>1, ParentAll DEF Parent!MonitorResourceUsage
  <2>3. New(ParentK, Parent!UpdateMetrics, g)  BY <1>1, ParentMethods
  <2>4. New(ParentK, Parent!Do("each", "check") \o Parent!MonitorResourceUsage \o Parent!UpdateMetrics, g)
    <3> HIDE DEF g
    <3> QED  BY <2>1, <2>2, <2>3, NewJoined
  <2>5. New(ParentK, Parent!Locked("children",
              Parent!Do("each", "check") \o Parent!MonitorResourceUsage \o Parent!UpdateMetrics), h)
    BY <1>1, <2>4, ParentLocked
  <2>6. New(ParentK, Parent!Do("round", 0), h)  BY ParentWide
  <2> QED  BY <2>5, <2>6, NewJoined DEF Parent!MonitorRound
<1>3. ASSUME NEW n PROVE New(ParentK, Parent!RecoverChild(n), h)
  <2>1. \A d \in {"start", "stop", "active"} : New(ParentK, Parent!Do(d, n), h)
    BY ParentDo DEF ParentPlain
  <2>2. New(ParentK, Parent!OptimizeChildKernel(n), h) /\ New(ParentK, Parent!HandleChildError(n), h)
    BY ParentMethods
  <2>3. New(ParentK, Parent!Do("stop", n) \o Parent!Do("start", n) \o Parent!Do("active", n)
                       \o Parent!OptimizeChildKernel(n), h)
    BY <2>1, <2>2, NewJoined
  <2> QED  BY <2>2, <2>3, ParentTry DEF Parent!RecoverChild
<1> QED  BY <1>2, <1>3

-----------------------------------------------------------------------------
(* The steps of ParentKernel's threads.                                     *)

ParentRuns == Calls(ParentK, ParentThreads, holder, depth, todo) /\ IsFiniteSet(children)

\* A thread at one of these steps: it is busy and no mutex is unlocked.
LEMMA ParentBusy ==
  ASSUME Free \notin ParentThreads, ParentRuns, NEW t \in ParentThreads,
         NEW step, Parent!At(t, step)
  PROVE  Busy(ParentK, ParentThreads, t) /\ Head(todo[t]).do = step /\ ~dead
BY ParentKind DEF Parent!At, Busy, ParentRuns

LEMMA ParentProceed ==
  ASSUME NEW t, Busy(ParentK, ParentThreads, t), Head(todo[t]).do # "unlock",
         NEW b, New(ParentK, b, Held(Tail(todo[t]))), Parent!Proceed(t, b)
  PROVE  Goes(ParentK, ParentThreads, t)
<1>1. todo' = [todo EXCEPT ![t] = b \o Tail(@)] /\ UNCHANGED <<holder, depth>>
  BY DEF Parent!Proceed, Parent!Becomes
<1> QED  BY <1>1, ReplacedGoes

LEMMA ParentDone ==
  ASSUME NEW t, Busy(ParentK, ParentThreads, t), Head(todo[t]).do # "unlock", Parent!Done(t)
  PROVE  Goes(ParentK, ParentThreads, t)
BY NewEmpty, ParentProceed DEF Parent!Done

LEMMA ParentThrow ==
  ASSUME NEW t, Busy(ParentK, ParentThreads, t), Parent!Throw(t)
  PROVE  Goes(ParentK, ParentThreads, t)
<1>1. ParentK.mutexes = {"children", "quotas", "distributions", "metrics"}  BY DEF ParentK
<1>2. Throws(ParentThreads, {Monitor, Worker}, ParentK.mutexes, t)
  <2> HIDE DEF ParentK
  <2> QED  BY <1>1 DEF Parent!Throw, Parent!Min, Parent!EndProcess, Throws, Parent!Cardinality, Cardinality
<1> QED  BY <1>2, ThrowGoes

\* What every step leads to that leaves the flags and joins nobody.
ParentGoes(t) ==
  /\ Goes(ParentK, ParentThreads, t) /\ ~dead
  /\ Head(todo[t]).do \notin {"join", "running"}
  /\ todo[t] # <<>>

LEMMA ParentLockStep ==
  ASSUME Free \notin ParentThreads, ParentRuns, NEW t \in ParentThreads, Parent!LockStep(t)
  PROVE  ParentGoes(t)
<1>1. CASE Parent!Acquire(t)
  <2>1. Busy(ParentK, ParentThreads, t) /\ Head(todo[t]).do = "lock" /\ ~dead
    BY <1>1, ParentBusy DEF Parent!Acquire
  <2> DEFINE m == Head(todo[t]).m
  <2>2. /\ holder[m] = Free \/ holder[m] = t
        /\ holder' = [holder EXCEPT ![m] = t] /\ depth' = [depth EXCEPT ![m] = @ + 1]
        /\ todo' = [todo EXCEPT ![t] = (Head(todo[t]).body \o <<[do |-> "unlock", m |-> m]>>) \o Tail(@)]
    BY <1>1 DEF Parent!Acquire, Parent!Now, Parent!Becomes
  <2>3. Goes(ParentK, ParentThreads, t)  BY <2>1, <2>2, AcquireGoes
  <2> QED  BY <2>1, <2>3 DEF ParentGoes, Busy
<1>2. CASE Parent!RelockThrows(t)
  <2>1. Busy(ParentK, ParentThreads, t) /\ Head(todo[t]).do = "lock" /\ ~dead
    BY <1>2, ParentBusy DEF Parent!RelockThrows
  <2>2. Goes(ParentK, ParentThreads, t)  BY <1>2, <2>1, ParentThrow DEF Parent!RelockThrows
  <2> QED  BY <2>1, <2>2 DEF ParentGoes, Busy
<1>3. CASE Parent!Release(t)
  <2>1. Busy(ParentK, ParentThreads, t) /\ Head(todo[t]).do = "unlock" /\ ~dead
    BY <1>3, ParentBusy DEF Parent!Release
  <2> DEFINE m == Head(todo[t]).m
  <2>2. /\ holder' = [holder EXCEPT ![m] = IF depth[m] = 1 THEN Free ELSE @]
        /\ depth' = [depth EXCEPT ![m] = @ - 1]
        /\ todo' = [todo EXCEPT ![t] = <<>> \o Tail(@)]
    BY <1>3 DEF Parent!Release, Parent!Now, Parent!Advance, Parent!Becomes
  <2>3. Goes(ParentK, ParentThreads, t)  BY <2>1, <2>2, ReleaseGoes
  <2> QED  BY <2>1, <2>3 DEF ParentGoes, Busy
<1>4. CASE Parent!EnterTry(t)
  <2>1. Busy(ParentK, ParentThreads, t) /\ Head(todo[t]).do = "try" /\ ~dead
    BY <1>4, ParentBusy DEF Parent!EnterTry
  <2>2. /\ UNCHANGED <<holder, depth>>
        /\ todo' = [todo EXCEPT ![t] =
             (Head(todo[t]).body \o <<[do |-> "end", handler |-> Head(todo[t]).handler]>>) \o Tail(@)]
    BY <1>4 DEF Parent!EnterTry, Parent!Now, Parent!Proceed, Parent!Becomes
  <2>3. Goes(ParentK, ParentThreads, t)  BY <2>1, <2>2, EnterGoes
  <2> QED  BY <2>1, <2>3 DEF ParentGoes, Busy
<1>5. CASE Parent!LeaveTry(t)
  <2>1. Busy(ParentK, ParentThreads, t) /\ Head(todo[t]).do = "end" /\ ~dead
    BY <1>5, ParentBusy DEF Parent!LeaveTry
  <2>2. Goes(ParentK, ParentThreads, t)  BY <1>5, <2>1, ParentDone DEF Parent!LeaveTry
  <2> QED  BY <2>1, <2>2 DEF ParentGoes, Busy
<1> QED  BY <1>1, <1>2, <1>3, <1>4, <1>5 DEF Parent!LockStep

\* The steps that reach a method of the class and change no flag.
ParentPlainStep(t) ==
  \/ Parent!LockStep(t) \/ Parent!Find(t) \/ Parent!Table(t) \/ Parent!Activity(t)
  \/ Parent!ChildCall(t) \/ Parent!Each(t) \/ Parent!Check(t) \/ Parent!Collect(t)
  \/ Parent!Round(t) \/ Parent!LeaveQueue(t)

LEMMA ParentDoneAt ==
  ASSUME Free \notin ParentThreads, ParentRuns, NEW t \in ParentThreads,
         NEW step, Parent!At(t, step), step \notin {"unlock", "join", "running"},
         Parent!Done(t) \/ Parent!Throw(t)
  PROVE  ParentGoes(t)
<1>1. Busy(ParentK, ParentThreads, t) /\ Head(todo[t]).do = step /\ ~dead  BY ParentBusy
<1>2. Goes(ParentK, ParentThreads, t)  BY <1>1, ParentDone, ParentThrow
<1> QED  BY <1>1, <1>2 DEF ParentGoes, Busy

LEMMA ParentProceedAt ==
  ASSUME Free \notin ParentThreads, ParentRuns, NEW t \in ParentThreads,
         NEW step, Parent!At(t, step), step \notin {"unlock", "join", "running"},
         NEW b, New(ParentK, b, Held(Tail(todo[t]))), Parent!Proceed(t, b)
  PROVE  ParentGoes(t)
<1>1. Busy(ParentK, ParentThreads, t) /\ Head(todo[t]).do = step /\ ~dead  BY ParentBusy
<1>2. Goes(ParentK, ParentThreads, t)  BY <1>1, ParentProceed
<1> QED  BY <1>1, <1>2 DEF ParentGoes, Busy

\* At a step that unfolds into locks no more than child_kernels_mutex_ is held.
LEMMA ParentAtWide ==
  ASSUME Free \notin ParentThreads, ParentRuns, NEW t \in ParentThreads,
         NEW step \in {"each", "check", "round"}, Parent!At(t, step)
  PROVE  /\ Held(Tail(todo[t])) \subseteq {"children"}
         /\ step = "each" => Head(todo[t]).arg \in ParentK.loops
<1>1. Busy(ParentK, ParentThreads, t) /\ Head(todo[t]).do = step  BY ParentBusy
<1>2. LocalNew(ParentK, Head(todo[t]), Held(Tail(todo[t])))  BY <1>1, BusyFirst
<1>3. ParentK.wide = {"each", "check", "round"} /\ ParentK.base = {"children"}  BY DEF ParentK
<1> HIDE DEF ParentK
<1> QED  BY <1>1, <1>2, <1>3 DEF LocalNew

LEMMA ParentEachStep ==
  ASSUME Free \notin ParentThreads, ParentRuns, NEW t \in ParentThreads, Parent!Each(t)
  PROVE  ParentGoes(t)
<1> DEFINE N == Cardinality(children)
           seqs == [i \in 1..N |-> Parent!EachBody(Head(todo[t]).arg, Parent!SetToSeq(children)[i])]
           h == Held(Tail(todo[t]))
<1>1. Parent!At(t, "each")  BY DEF Parent!Each
<1>2. h \subseteq {"children"} /\ Head(todo[t]).arg \in ParentK.loops  BY <1>1, ParentAtWide
<1>3. N \in Nat  BY FS_CardinalityType DEF ParentRuns
<1>4. Parent!Proceed(t, Flatten(seqs))
  <2>1. N = Parent!Cardinality(children)  BY DEF Parent!Cardinality, Cardinality
  <2> HIDE DEF N
  <2>2. Parent!Proceed(t, Parent!FlattenSeq(seqs))  BY <2>1 DEF Parent!Each, Parent!Now
  <2>3. Parent!FlattenSeq(seqs) = Flatten(seqs)  BY DEF Parent!FlattenSeq, Flatten
  <2> QED  BY <2>2, <2>3
<1> HIDE DEF N
<1>5. \A i \in 1..N : New(ParentK, seqs[i], h)  BY <1>2, ParentEach
<1>6. Len(seqs) = N /\ (N = 0 => seqs = <<>>)
  <2>1. \E S : seqs \in Seq(S)
    <3> DEFINE S == {seqs[i] : i \in 1..N}
    <3>1. seqs \in [1..N -> S]  OBVIOUS
    <3> HIDE DEF seqs, S
    <3>2. seqs \in Seq(S)  BY <1>3, <3>1, SeqDef
    <3> QED  BY <3>2
  <2>2. DOMAIN seqs = 1..N  OBVIOUS
  <2> HIDE DEF seqs
  <2>3. Len(seqs) = N  BY <1>3, <2>1, <2>2, LenProperties
  <2> QED  BY <2>1, <2>3, SeqFacts DEF IsSeq
<1> HIDE DEF seqs, h
<1>7. New(ParentK, Flatten(seqs), h)  BY <1>3, <1>5, <1>6, NewLoop
<1> QED  BY <1>1, <1>4, <1>7, ParentProceedAt DEF h

LEMMA ParentPlainGoes ==
  ASSUME Free \notin ParentThreads, ParentRuns, NEW t \in ParentThreads, ParentPlainStep(t)
  PROVE  ParentGoes(t)
<1>1. CASE Parent!LockStep(t)  BY <1>1, ParentLockStep
<1>2. CASE Parent!Find(t)
  <2>1. PICK step \in {"find", "insert", "findQuota"} : Parent!At(t, step)  BY <1>2 DEF Parent!Find
  <2>2. Parent!Done(t) \/ Parent!Throw(t)  BY <1>2 DEF Parent!Find
  <2> QED  BY <2>1, <2>2, ParentDoneAt
<1>3. CASE Parent!Table(t)
  <2>1. PICK step \in {"quota", "share", "eraseQuota", "eraseShare", "erase"} : Parent!At(t, step)
    BY <1>3 DEF Parent!Table
  <2>2. Parent!Done(t)  BY <1>3 DEF Parent!Table
  <2> QED  BY <2>1, <2>2, ParentDoneAt
<1>4. CASE Parent!Activity(t)
  <2>1. PICK step \in {"active", "inactive"} : Parent!At(t, step)  BY <1>4 DEF Parent!Activity
  <2>2. Parent!Done(t)  BY <1>4 DEF Parent!Activity
  <2> QED  BY <2>1, <2>2, ParentDoneAt
<1>5. CASE Parent!ChildCall(t)
  <2>1. PICK step \in {"start", "stop", "pause", "resume", "message", "flags"} : Parent!At(t, step)
    BY <1>5 DEF Parent!ChildCall
  <2>2. Parent!Done(t) \/ Parent!Throw(t)  BY <1>5 DEF Parent!ChildCall
  <2> QED  BY <2>1, <2>2, ParentDoneAt
<1>6. CASE Parent!Each(t)  BY <1>6, ParentEachStep
<1>7. CASE Parent!Check(t)
  <2>1. Parent!At(t, "check")  BY <1>7 DEF Parent!Check
  <2>2. Held(Tail(todo[t])) \subseteq {"children"}  BY <2>1, ParentAtWide
  <2>3. PICK b : Parent!Proceed(t, b) /\ (b = <<>> \/ \E n : b = Parent!RecoverChild(n))
    BY <1>7 DEF Parent!Check
  <2>4. New(ParentK, b, Held(Tail(todo[t])))  BY <2>2, <2>3, NewEmpty, ParentRounds
  <2> QED  BY <2>1, <2>3, <2>4, ParentProceedAt
<1>8. CASE Parent!Collect(t)
  <2>1. Parent!At(t, "collect") /\ Parent!Done(t)  BY <1>8 DEF Parent!Collect
  <2> QED  BY <2>1, ParentDoneAt
<1>9. CASE Parent!Round(t)
  <2>1. Parent!At(t, "round")  BY <1>9 DEF Parent!Round
  <2>2. Held(Tail(todo[t])) \subseteq {"children"}  BY <2>1, ParentAtWide
  <2>3. PICK b : Parent!Proceed(t, b) /\ (b = <<>> \/ b = Parent!MonitorRound)
    BY <1>9 DEF Parent!Round
  <2>4. New(ParentK, b, Held(Tail(todo[t])))  BY <2>2, <2>3, NewEmpty, ParentRounds
  <2> QED  BY <2>1, <2>3, <2>4, ParentProceedAt
<1>10. CASE Parent!LeaveQueue(t)
  <2>1. Parent!At(t, "await") /\ Parent!Done(t)  BY <1>10 DEF Parent!LeaveQueue
  <2> QED  BY <2>1, ParentDoneAt
<1> QED  BY <1>1, <1>2, <1>3, <1>4, <1>5, <1>6, <1>7, <1>8, <1>9, <1>10 DEF ParentPlainStep

-----------------------------------------------------------------------------
(* start() creates the two threads only when the last stop() joined them.   *)

\* In what remains of start() and stop(), running_ is written once: set first,
\* when it is not set; reset after a join of every thread awake.
Flow(s, r, W) ==
  /\ \A n \in 1..Len(s) : s[n].do = "running" =>
       /\ s[n].arg \in BOOLEAN
       /\ s[n].arg = TRUE => n = 1 /\ ~r
       /\ s[n].arg = FALSE => \A u \in W : \E k \in 1..(n - 1) : s[k].do = "join" /\ s[k].arg = u
       /\ \A k \in 1..Len(s) : s[k].do = "running" => k = n
  /\ \A n, k \in 1..Len(s) : s[n].do = "end" /\ s[k].do = "join" => n < k

\* What remains of any other method.
Quiet(s) == \A n \in 1..Len(s) : s[n].do \notin {"running", "join"}

LEMMA QuietFlow ==
  ASSUME NEW s, Quiet(s), NEW r, NEW W
  PROVE  Flow(s, r, W)
BY DEF Quiet, Flow

\* What Goes does to a sequence: its first k items are replaced by b.
Splices(b, s, k) ==
  /\ IsSeq(s) /\ k \in 1..Len(s) /\ IsSeq(b)
  /\ \A n \in 1..Len(b) : b[n].do \notin {"running", "join"}

\* And what c, the result, looks like.
Spliced(b, s, k, c) ==
  /\ IsSeq(c) /\ Len(c) = Len(b) + (Len(s) - k) /\ Len(b) \in Nat /\ Len(s) \in Nat
  /\ \A n \in 1..Len(c) : \/ n <= Len(b) /\ c[n].do \notin {"running", "join"}
                          \/ n > Len(b) /\ c[n] = s[n - Len(b) + k]

LEMMA SpliceFacts ==
  ASSUME NEW b, NEW s, NEW k, Splices(b, s, k)
  PROVE  Spliced(b, s, k, b \o After(s, k))
<1> DEFINE c == b \o After(s, k)
<1> DEFINE a == After(s, k)
<1>1. k \in 0..Len(s) /\ IsSeq(s) /\ IsSeq(b) /\ Len(s) \in Nat /\ Len(b) \in Nat
  BY SeqFacts DEF Splices
<1>2. IsSeq(a) /\ Len(a) = Len(s) - k /\ \A n \in 1..(Len(s) - k) : a[n] = s[k + n]
  BY <1>1, AfterFacts
<1>3. c = b \o a  OBVIOUS
<1> HIDE DEF a, c
<1>4. /\ IsSeq(c) /\ Len(c) = Len(b) + Len(a)
      /\ \A n \in 1..Len(b) : c[n] = b[n]
      /\ \A n \in 1..Len(a) : c[Len(b) + n] = a[n]
  <2>1. IsSeq(b) /\ IsSeq(a)  BY <1>1, <1>2
  <2>2. /\ IsSeq(b \o a) /\ Len(b \o a) = Len(b) + Len(a)
        /\ \A n \in 1..Len(b) : (b \o a)[n] = b[n]
        /\ \A n \in 1..Len(a) : (b \o a)[Len(b) + n] = a[n]
    BY <2>1, Joined
  <2> QED  BY <1>3, <2>2
<1>5. ASSUME NEW n \in 1..Len(c)
      PROVE  \/ n <= Len(b) /\ c[n].do \notin {"running", "join"}
             \/ n > Len(b) /\ c[n] = s[n - Len(b) + k]
  <2>1. CASE n <= Len(b)
    <3>1. n \in 1..Len(b)  BY <1>1, <1>5, <2>1
    <3> QED  BY <1>4, <2>1, <3>1 DEF Splices
  <2>2. CASE ~(n <= Len(b))
    <3> DEFINE j == n - Len(b)
    <3>1. j \in 1..(Len(s) - k) /\ n = Len(b) + j /\ k + j = n - Len(b) + k /\ n > Len(b)
      BY <1>1, <1>2, <1>4, <1>5, <2>2
    <3>2. c[Len(b) + j] = s[k + j]
      <4> HIDE DEF j
      <4> QED  BY <1>2, <1>4, <3>1
    <3> HIDE DEF j
    <3> QED  BY <3>1, <3>2
  <2> QED  BY <2>1, <2>2
<1> QED  BY <1>1, <1>2, <1>4, <1>5 DEF Spliced, c

LEMMA QuietSplice ==
  ASSUME NEW b, NEW s, NEW k, Splices(b, s, k), Quiet(s)
  PROVE  Quiet(b \o After(s, k))
<1> DEFINE c == b \o After(s, k)
<1>0. Spliced(b, s, k, c)  BY SpliceFacts
<1> HIDE DEF c
<1>1. /\ IsSeq(c) /\ Len(c) = Len(b) + (Len(s) - k) /\ Len(b) \in Nat /\ Len(s) \in Nat
      /\ \A n \in 1..Len(c) : \/ n <= Len(b) /\ c[n].do \notin {"running", "join"}
                              \/ n > Len(b) /\ c[n] = s[n - Len(b) + k]
  BY <1>0 DEF Spliced
<1>2. k \in 1..Len(s)  BY DEF Splices
<1>3. ASSUME NEW n \in 1..Len(c), n > Len(b) PROVE n - Len(b) + k \in 1..Len(s)
  BY <1>1, <1>2, <1>3
<1>4. \A n \in 1..Len(c) : c[n].do \notin {"running", "join"}  BY <1>1, <1>3 DEF Quiet
<1> QED  BY <1>4 DEF Quiet, c

\* The joins come after every open try block, so that no exception drops one.
LEMMA FlowSplice ==
  ASSUME NEW b, NEW s, NEW k, Splices(b, s, k), NEW r, NEW W, Flow(s, r, W),
         NEW W2, W2 \subseteq W,
         \/ s[k].do = "end"
         \/ k = 1 /\ (s[1].do = "join" => s[1].arg \notin W2)
  PROVE  Flow(b \o After(s, k), r, W2)
<1> DEFINE c == b \o After(s, k)
<1>0. Spliced(b, s, k, c)  BY SpliceFacts
<1> HIDE DEF c
<1>1. /\ IsSeq(c) /\ Len(c) = Len(b) + (Len(s) - k) /\ Len(b) \in Nat /\ Len(s) \in Nat
      /\ \A n \in 1..Len(c) : \/ n <= Len(b) /\ c[n].do \notin {"running", "join"}
                              \/ n > Len(b) /\ c[n] = s[n - Len(b) + k]
  BY <1>0 DEF Spliced
<1>2. k \in 1..Len(s)  BY DEF Splices
<1>3. \A u \in W2 : \A j \in 1..Len(s) : s[j].do = "join" /\ s[j].arg = u => j > k
  <2> TAKE u \in W2
  <2> TAKE j \in 1..Len(s)
  <2> HAVE s[j].do = "join" /\ s[j].arg = u
  <2>1. CASE s[k].do = "end"  BY <1>1, <1>2, <2>1 DEF Flow
  <2>2. CASE k = 1 /\ (s[1].do = "join" => s[1].arg \notin W2)
    <3>1. j # 1  BY <2>2
    <3> QED  BY <1>1, <2>2, <3>1
  <2> QED  BY <2>1, <2>2
<1>4. ASSUME NEW n \in 1..Len(c), n > Len(b)
      PROVE  n - Len(b) + k \in 1..Len(s) /\ n - Len(b) + k # 1 /\ n \in Nat /\ k \in Nat
  BY <1>1, <1>2, <1>4
<1>5. ASSUME NEW n \in 1..Len(c), c[n].do \in {"running", "join"}
      PROVE  n > Len(b) /\ c[n] = s[n - Len(b) + k]
  BY <1>1, <1>5
<1>6. ASSUME NEW n \in 1..Len(c), c[n].do = "running"
      PROVE  /\ c[n].arg \in BOOLEAN
             /\ c[n].arg = TRUE => n = 1 /\ ~r
             /\ c[n].arg = FALSE => \A u \in W2 : \E j \in 1..(n - 1) : c[j].do = "join" /\ c[j].arg = u
             /\ \A j \in 1..Len(c) : c[j].do = "running" => j = n
  <2> DEFINE i == n - Len(b) + k
  <2>1. n > Len(b) /\ c[n] = s[i]  BY <1>5, <1>6
  <2>2. i \in 1..Len(s) /\ i # 1 /\ i \in Nat /\ k \in Nat  BY <1>4, <2>1
  <2>i. i = n - Len(b) + k  OBVIOUS
  <2> HIDE DEF i
  <2>3. /\ s[i].arg \in BOOLEAN /\ s[i].arg # TRUE
        /\ s[i].arg = FALSE => \A u \in W : \E j \in 1..(i - 1) : s[j].do = "join" /\ s[j].arg = u
        /\ \A j \in 1..Len(s) : s[j].do = "running" => j = i
    BY <1>6, <2>1, <2>2 DEF Flow
  <2>4. ASSUME c[n].arg = FALSE, NEW u \in W2
        PROVE  \E j \in 1..(n - 1) : c[j].do = "join" /\ c[j].arg = u
    <3>1. PICK j \in 1..(i - 1) : s[j].do = "join" /\ s[j].arg = u  BY <2>1, <2>3, <2>4
    <3>2. j \in 1..Len(s)  BY <1>1, <2>2, <3>1
    <3>3. j > k  BY <1>3, <3>1, <3>2
    <3> DEFINE p == j - k + Len(b)
    <3>4. p \in 1..(n - 1) /\ p \in 1..Len(c) /\ p > Len(b) /\ p - Len(b) + k = j
      <4> DEFINE x == Len(b)
                 y == Len(c)
      <4>1. /\ x \in Nat /\ y \in Nat /\ k \in Nat /\ n \in 1..y /\ j \in Nat /\ j > k
            /\ i = n - x + k /\ j <= i - 1 /\ p = j - k + x
        BY <1>1, <1>2, <2>i, <2>2, <3>1, <3>2, <3>3
      <4> HIDE DEF x, y, p
      <4>2. p \in Int /\ p > x /\ p <= n - 1 /\ p <= y /\ p - x + k = j  BY <4>1
      <4>3. p \in 1..(n - 1) /\ p \in 1..y  BY <4>1, <4>2
      <4> QED  BY <4>2, <4>3 DEF x, y
    <3> HIDE DEF p
    <3>5. c[p] = s[j]  BY <1>1, <3>4
    <3> QED  BY <3>1, <3>4, <3>5
  <2>5. ASSUME NEW j \in 1..Len(c), c[j].do = "running" PROVE j = n
    <3>1. j > Len(b) /\ c[j] = s[j - Len(b) + k]  BY <1>5, <2>5
    <3>2. j - Len(b) + k \in 1..Len(s)  BY <1>4, <3>1
    <3>3. j - Len(b) + k = i  BY <2>3, <2>5, <3>1, <3>2
    <3> QED  BY <1>1, <1>2, <2>i, <3>3
  <2> QED  BY <2>1, <2>3, <2>4, <2>5
<1>7. ASSUME NEW n \in 1..Len(c), NEW j \in 1..Len(c), c[n].do = "end", c[j].do = "join"
      PROVE  n < j
  <2>1. j > Len(b) /\ c[j] = s[j - Len(b) + k]  BY <1>5, <1>7
  <2>2. CASE n <= Len(b)  BY <1>1, <2>1, <2>2
  <2>3. CASE ~(n <= Len(b))
    <3>1. n > Len(b) /\ c[n] = s[n - Len(b) + k]  BY <1>1, <2>3
    <3>2. n - Len(b) + k \in 1..Len(s) /\ j - Len(b) + k \in 1..Len(s)  BY <1>4, <2>1, <3>1
    <3>3. n - Len(b) + k < j - Len(b) + k  BY <1>7, <2>1, <3>1, <3>2 DEF Flow
    <3> QED  BY <1>1, <1>2, <3>3
  <2> QED  BY <2>2, <2>3
<1>8. Flow(c, r, W2)
  BY <1>6, <1>7 DEF Flow
<1> QED  BY <1>8 DEF c

\* The tail of a sequence, as a splice.
LEMMA TailSplice ==
  ASSUME NEW s, IsSeq(s), s # <<>>
  PROVE  Splices(<<>>, s, 1) /\ <<>> \o After(s, 1) = Tail(s) /\ IsSeq(Tail(s)) /\ 1 \in 1..Len(s)
<1>1. Len(s) \in Nat /\ Len(s) >= 1 /\ Tail(s) = After(s, 1)  BY SeqFacts
<1>2. 1 \in 0..Len(s) /\ 1 \in 1..Len(s)  BY <1>1
<1>3. Splices(<<>>, s, 1)  BY <1>2, NoItem DEF Splices
<1>4. IsSeq(Tail(s))  BY <1>1, <1>2, AfterFacts
<1>5. <<>> \o Tail(s) = Tail(s)
  <2>1. PICK S : Tail(s) \in Seq(S)  BY <1>4 DEF IsSeq
  <2> QED  BY <2>1, ConcatEmptySeq
<1> QED  BY <1>1, <1>2, <1>3, <1>4, <1>5

-----------------------------------------------------------------------------
(* The invariant of ParentKernel, and that every step keeps it.             *)

\* The threads of the class that run.
Awake == {u \in {Monitor, Worker} : todo[u] # <<>>}

ParentFlow ==
  /\ running \in BOOLEAN /\ (~running => Awake = {})
  /\ \A t \in ParentThreads : Flow(todo[t], running, Awake) /\ (t # Parent!Owner => Quiet(todo[t]))

ParentInv == dead \/ (ParentRuns /\ ParentFlow)

LEMMA ParentThreadFacts ==
  /\ Free \notin ParentThreads /\ Monitor # Worker
  /\ Monitor \in ParentThreads /\ Worker \in ParentThreads /\ Clients \subseteq ParentThreads
  /\ Monitor \notin Clients /\ Worker \notin Clients
BY ThreadsAssumption DEF ParentThreads

LEMMA ParentTodo ==
  ASSUME ParentRuns, NEW t \in ParentThreads, NEW s2, todo' = [todo EXCEPT ![t] = s2]
  PROVE  todo'[t] = s2 /\ \A u \in ParentThreads : u # t => todo'[u] = todo[u]
BY DEF ParentRuns, Calls

LEMMA AwakeShrinks ==
  ASSUME ParentRuns, NEW t \in ParentThreads, todo[t] # <<>>,
         NEW s2, todo' = [todo EXCEPT ![t] = s2]
  PROVE  Awake' \subseteq Awake
BY ParentTodo, ParentThreadFacts DEF Awake

LEMMA FlowShrinks ==
  ASSUME NEW s, NEW r, NEW W, Flow(s, r, W), NEW W2, W2 \subseteq W
  PROVE  Flow(s, r, W2)
BY DEF Flow

\* One thread moves on and running_ stays.
LEMMA MoveFlow ==
  ASSUME ParentRuns, ParentFlow, NEW t \in ParentThreads, todo[t] # <<>>, running' = running,
         NEW s2, todo' = [todo EXCEPT ![t] = s2],
         Flow(s2, running, Awake'), t # Parent!Owner => Quiet(s2)
  PROVE  ParentFlow'
<1>1. todo'[t] = s2 /\ \A u \in ParentThreads : u # t => todo'[u] = todo[u]  BY ParentTodo
<1>2. Awake' \subseteq Awake  BY AwakeShrinks
<1>3. ASSUME NEW u \in ParentThreads
      PROVE  Flow(todo'[u], running', Awake') /\ (u # Parent!Owner => Quiet(todo'[u]))
  <2>1. CASE u = t  BY <1>1, <2>1
  <2>2. CASE u # t
    <3>1. Flow(todo[u], running, Awake) /\ (u # Parent!Owner => Quiet(todo[u]))  BY DEF ParentFlow
    <3>2. Flow(todo[u], running, Awake')  BY <1>2, <3>1, FlowShrinks
    <3> QED  BY <1>1, <2>2, <3>1, <3>2
  <2> QED  BY <2>1, <2>2
<1>4. running' \in BOOLEAN /\ (~running' => Awake' = {})  BY <1>2 DEF ParentFlow
<1> QED  BY <1>3, <1>4 DEF ParentFlow

\* The steps of ParentGoes.
LEMMA GoesFlow ==
  ASSUME ParentRuns, ParentFlow, NEW t \in ParentThreads, ParentGoes(t), running' = running
  PROVE  dead' \/ (Calls(ParentK, ParentThreads, holder', depth', todo') /\ ParentFlow')
<1> SUFFICES ASSUME ~dead'
             PROVE  Calls(ParentK, ParentThreads, holder', depth', todo') /\ ParentFlow'
  OBVIOUS
<1> DEFINE s == todo[t]
<1>k. PICK k \in 1..Len(s) : \E b :
        /\ todo' = [todo EXCEPT ![t] = b \o After(s, k)]
        /\ IsSeq(b) /\ \A n \in 1..Len(b) : b[n].do \in {"unlock", "end"} \/ b[n].do \notin ParentK.outer
        /\ k = 1 \/ todo'[t] = <<>> \/ s[k].do = "end"
  BY DEF ParentGoes, Goes
<1>1. PICK b :
        /\ todo' = [todo EXCEPT ![t] = b \o After(s, k)]
        /\ IsSeq(b) /\ \A n \in 1..Len(b) : b[n].do \in {"unlock", "end"} \/ b[n].do \notin ParentK.outer
        /\ k = 1 \/ todo'[t] = <<>> \/ s[k].do = "end"
  BY <1>k
<1>2. Calls(ParentK, ParentThreads, holder', depth', todo')  BY DEF ParentGoes, Goes
<1>3. s # <<>> /\ Head(s).do \notin {"join", "running"}  BY DEF ParentGoes
<1>4. IsSeq(s)  BY DEF ParentRuns, Calls, Good
<1>5. s[1].do \notin {"join", "running"}  BY <1>3, <1>4, SeqFacts
<1>6. Splices(b, s, k)
  <2>1. \A n \in 1..Len(b) : b[n].do \notin {"running", "join"}  BY <1>1 DEF ParentK
  <2> QED  BY <1>1, <1>4, <2>1 DEF Splices
<1> DEFINE s2 == b \o After(s, k)
<1>7. todo' = [todo EXCEPT ![t] = s2]  BY <1>1
<1>8. Flow(s, running, Awake) /\ (t # Parent!Owner => Quiet(s))  BY DEF ParentFlow
<1>a. todo[t] # <<>>  BY <1>3
<1> HIDE DEF s
<1>9. Awake' \subseteq Awake
  <2> HIDE DEF s2
  <2> QED  BY <1>7, <1>a, AwakeShrinks
<1>10. todo'[t] = s2
  <2> HIDE DEF s2
  <2> QED  BY <1>7, ParentTodo
<1>11. Flow(s2, running, Awake') /\ (t # Parent!Owner => Quiet(s2))
  <2>1. CASE todo'[t] = <<>>
    <3>1. Quiet(<<>>)  BY NoItem DEF Quiet
    <3> QED  BY <1>10, <2>1, <3>1, QuietFlow
  <2>2. CASE k = 1 \/ s[k].do = "end"
    <3>1. s[k].do = "end" \/ (k = 1 /\ (s[1].do = "join" => s[1].arg \notin Awake'))  BY <1>5, <2>2
    <3>2. Flow(s2, running, Awake')  BY <1>6, <1>8, <1>9, <3>1, FlowSplice
    <3>3. t # Parent!Owner => Quiet(s2)  BY <1>6, <1>8, QuietSplice
    <3> QED  BY <3>2, <3>3
  <2> QED  BY <1>1, <2>1, <2>2
<1> HIDE DEF s2
<1>12. ParentFlow'  BY <1>7, <1>11, <1>a, MoveFlow
<1> QED  BY <1>2, <1>12

\* Steps that only take the first item, also those that join.
LEMMA TailFlow ==
  ASSUME ParentRuns, ParentFlow, NEW t \in ParentThreads, todo[t] # <<>>, running' = running,
         todo' = [todo EXCEPT ![t] = Tail(@)],
         Head(todo[t]).do = "join" => Head(todo[t]).arg \notin Awake
  PROVE  ParentFlow'
<1> DEFINE s == todo[t]
<1>1. IsSeq(s) /\ s # <<>>  BY DEF ParentRuns, Calls, Good
<1>2. todo' = [todo EXCEPT ![t] = Tail(s)]  BY DEF ParentRuns, Calls
<1>3. Flow(s, running, Awake) /\ (t # Parent!Owner => Quiet(s))  BY DEF ParentFlow
<1>4. Awake' \subseteq Awake  BY <1>2, AwakeShrinks
<1>5. Head(s).do = "join" => Head(s).arg \notin Awake  OBVIOUS
<1> HIDE DEF s
<1>6. Splices(<<>>, s, 1) /\ <<>> \o After(s, 1) = Tail(s)  BY <1>1, TailSplice
<1>7. s[1].do = "join" => s[1].arg \notin Awake'  BY <1>1, <1>4, <1>5, SeqFacts
<1>8. Flow(<<>> \o After(s, 1), running, Awake')  BY <1>3, <1>4, <1>6, <1>7, FlowSplice
<1>9. t # Parent!Owner => Quiet(<<>> \o After(s, 1))  BY <1>3, <1>6, QuietSplice
<1>10. Flow(Tail(s), running, Awake') /\ (t # Parent!Owner => Quiet(Tail(s)))  BY <1>6, <1>8, <1>9
<1> QED  BY <1>2, <1>10, MoveFlow

\* The step that writes running_.
LEMMA LastRunning ==
  ASSUME NEW s, IsSeq(s), s # <<>>, NEW r, NEW W, Flow(s, r, W), Head(s).do = "running",
         NEW r2, NEW W2
  PROVE  Flow(Tail(s), r2, W2)
<1>1. s[1].do = "running" /\ Len(s) \in Nat /\ Len(s) >= 1 /\ Tail(s) = After(s, 1)
  BY SeqFacts
<1>2. 1 \in 0..Len(s) /\ 1 \in 1..Len(s)  BY <1>1
<1> DEFINE z == Tail(s)
<1>3. IsSeq(z) /\ Len(z) = Len(s) - 1 /\ \A n \in 1..(Len(s) - 1) : z[n] = s[1 + n]
  <2>1. z = After(s, 1)  BY <1>1
  <2>2. /\ IsSeq(After(s, 1)) /\ Len(After(s, 1)) = Len(s) - 1
        /\ \A n \in 1..(Len(s) - 1) : After(s, 1)[n] = s[1 + n]
    BY <1>2, AfterFacts
  <2> HIDE DEF z
  <2> QED  BY <2>1, <2>2
<1> HIDE DEF z
<1>4. ASSUME NEW n \in 1..Len(z) PROVE z[n] = s[1 + n] /\ 1 + n \in 1..Len(s) /\ 1 + n # 1
  BY <1>1, <1>3, <1>4
<1>5. ASSUME NEW n \in 1..Len(z) PROVE z[n].do # "running"
  BY <1>1, <1>2, <1>4 DEF Flow
<1>6. ASSUME NEW n \in 1..Len(z), NEW k \in 1..Len(z), z[n].do = "end", z[k].do = "join"
      PROVE  n < k
  <2>1. 1 + n < 1 + k  BY <1>4, <1>6 DEF Flow
  <2> QED  BY <2>1
<1> QED  BY <1>5, <1>6 DEF Flow, z

LEMMA SetFlagsStep ==
  ASSUME ParentRuns, ParentFlow, NEW t \in ParentThreads, Parent!SetFlags(t)
  PROVE  Calls(ParentK, ParentThreads, holder', depth', todo') /\ ParentFlow'
<1> DEFINE s == todo[t]
           step == Head(s).do
           on == Head(s).arg
<1>1. PICK d \in {"running", "paused", "quiet"} : Parent!At(t, d)  BY DEF Parent!SetFlags
<1>2. Busy(ParentK, ParentThreads, t) /\ step = d  BY <1>1, ParentBusy, ParentThreadFacts
<1>3. s # <<>> /\ IsSeq(s)  BY <1>2, BusyFirst DEF Busy
<1>4. /\ running' = IF step = "running" THEN on ELSE running
      /\ UNCHANGED <<holder, depth>>
      /\ todo' = [u \in ParentThreads |->
                    IF u = t THEN Tail(todo[u])
                    ELSE IF step = "running" /\ on /\ u = Monitor THEN Parent!Do("round", 0)
                    ELSE IF step = "running" /\ on /\ u = Worker THEN Parent!Do("await", 0)
                    ELSE todo[u]]
  BY DEF Parent!SetFlags, Parent!Now, ParentThreads
<1>5. todo = [u \in ParentThreads |-> todo[u]]  BY DEF ParentRuns, Calls, ParentK
<1> DEFINE td == [todo EXCEPT ![t] = Tail(s)]
<1>6. Calls(ParentK, ParentThreads, holder, depth, td)
  <2>1. Tail(s) = <<>> \o Tail(s)  BY <1>3, TailSplice, SeqFacts
  <2>2. td = [todo EXCEPT ![t] = <<>> \o Tail(@)]  BY <1>5, <2>1
  <2>3. Head(todo[t]).do # "unlock"  BY <1>2
  <2>4. New(ParentK, <<>>, Held(Tail(todo[t])))  BY NewEmpty
  <2>5. Calls(ParentK, ParentThreads, holder, depth, todo) /\ todo[t] # <<>>  BY <1>3 DEF ParentRuns
  <2> HIDE DEF td
  <2> QED  BY <2>2, <2>3, <2>4, <2>5, ParentKind, ParentThreadFacts, Replaced
<1>7. Flow(s, running, Awake) /\ (t # Parent!Owner => Quiet(s))  BY DEF ParentFlow
<1>8. 1 \in 1..Len(s) /\ s[1] = Head(s)  BY <1>3, SeqFacts, TailSplice
<1>9. CASE step # "running"
  <2>1. todo' = td /\ running' = running  BY <1>4, <1>5, <1>9
  <2>2. todo' = [todo EXCEPT ![t] = Tail(@)]  BY <1>5, <2>1
  <2>3. Head(todo[t]).do # "join"  BY <1>2
  <2>4. todo[t] # <<>>  BY <1>3
  <2> HIDE DEF td, step, s
  <2>5. ParentFlow'  BY <2>1, <2>2, <2>3, <2>4, TailFlow
  <2>6. holder' = holder /\ depth' = depth  BY <1>4
  <2> QED  BY <1>6, <2>1, <2>5, <2>6
<1>10. ASSUME step = "running"
       PROVE  /\ on \in BOOLEAN /\ t = Parent!Owner
              /\ on = TRUE => ~running
              /\ on = FALSE => Awake = {}
  <2>1. s[1].do = "running" /\ s[1].arg = on  BY <1>8, <1>10
  <2>2. ~Quiet(s)  BY <1>8, <2>1 DEF Quiet
  <2>3. \A k : k \notin 1..(1 - 1)  OBVIOUS
  <2> HIDE DEF s, on, step
  <2> QED  BY <1>7, <1>8, <2>1, <2>2, <2>3 DEF Flow
<1>11. ASSUME step = "running", NEW r, NEW W PROVE Flow(Tail(s), r, W)
  <2> HIDE DEF s
  <2> QED  BY <1>3, <1>7, <1>11, LastRunning
<1>12. ASSUME NEW u \in ParentThreads, u # Parent!Owner, NEW r, NEW W
       PROVE  Flow(todo[u], r, W) /\ Quiet(todo[u])
  BY <1>12, QuietFlow DEF ParentFlow
<1>13. CASE step = "running" /\ on = FALSE
  <2>1. todo' = td /\ running' = FALSE  BY <1>4, <1>5, <1>13
  <2>2. Awake' = {}
    <3>1. Awake' \subseteq Awake  BY <1>3, <2>1, AwakeShrinks
    <3> QED  BY <1>10, <1>13, <3>1
  <2>3. /\ todo'[t] = Tail(s) /\ \A u \in ParentThreads : u # t => todo'[u] = todo[u]
    BY <2>1, ParentTodo
  <2> HIDE DEF td
  <2>4. ASSUME NEW u \in ParentThreads
        PROVE  Flow(todo'[u], running', Awake') /\ (u # Parent!Owner => Quiet(todo'[u]))
    <3>1. CASE u = t  BY <1>10, <1>11, <1>13, <2>3, <3>1
    <3>2. CASE u # t  BY <1>10, <1>12, <1>13, <2>3, <3>2
    <3> QED  BY <3>1, <3>2
  <2>5. ParentFlow'  BY <2>1, <2>2, <2>4 DEF ParentFlow
  <2>6. holder' = holder /\ depth' = depth  BY <1>4
  <2> QED  BY <1>6, <2>1, <2>5, <2>6
<1>14. CASE step = "running" /\ on = TRUE
  <2> DEFINE round == Parent!Do("round", 0)
             await == Parent!Do("await", 0)
             td2 == [td EXCEPT ![Monitor] = round]
             td3 == [td2 EXCEPT ![Worker] = await]
  <2>1. todo[Monitor] = <<>> /\ todo[Worker] = <<>> /\ t # Monitor /\ t # Worker
    <3>1. Awake = {}  BY <1>10, <1>14 DEF ParentFlow
    <3> QED  BY <1>3, <3>1 DEF Awake
  <2>2. td[Monitor] = <<>> /\ td2[Worker] = <<>>
    BY <1>5, <2>1, ParentThreadFacts
  <2>3. Loose(ParentK, round) /\ Loose(ParentK, await) /\ Quiet(round) /\ Quiet(await)
    <3>1. New(ParentK, round, {})  BY ParentWide
    <3>2. New(ParentK, await, {})  BY ParentDo DEF ParentPlain
    <3> HIDE DEF round, await
    <3>3. Quiet(round) /\ Quiet(await)  BY <3>1, <3>2 DEF New, Quiet, ParentK
    <3> QED  BY <3>1, <3>2, <3>3, ParentKind, LooseNew
  <2>4. todo' = td3
    BY <1>4, <1>5, <1>14, <2>1, ParentThreadFacts
  <2>5. running' = TRUE  BY <1>4, <1>14
  <2> HIDE DEF round, await
  <2>6. Calls(ParentK, ParentThreads, holder, depth, td2)
    <3> HIDE DEF td
    <3> QED  BY <1>6, <2>2, <2>3, ParentKind, ParentThreadFacts, CallsAgain
  <2>7. Calls(ParentK, ParentThreads, holder, depth, td3)
    <3> HIDE DEF td2
    <3> QED  BY <2>2, <2>3, <2>6, ParentKind, ParentThreadFacts, CallsAgain
  <2>8. ASSUME NEW u \in ParentThreads
        PROVE  todo'[u] = IF u = t THEN Tail(s) ELSE IF u = Monitor THEN round
                          ELSE IF u = Worker THEN await ELSE todo[u]
    BY <1>5, <2>1, <2>4, ParentThreadFacts
  <2> HIDE DEF td, td2, td3
  <2>9. ASSUME NEW u \in ParentThreads
        PROVE  Flow(todo'[u], running', Awake') /\ (u # Parent!Owner => Quiet(todo'[u]))
    <3>1. CASE u = t  BY <1>10, <1>11, <1>14, <2>8, <3>1
    <3>2. CASE u # t /\ u \in {Monitor, Worker}  BY <2>3, <2>8, <3>2, QuietFlow
    <3>3. CASE u # t /\ u \notin {Monitor, Worker}  BY <1>10, <1>12, <1>14, <2>8, <3>3
    <3> QED  BY <3>1, <3>2, <3>3
  <2>10. ParentFlow'  BY <2>5, <2>9 DEF ParentFlow
  <2>11. holder' = holder /\ depth' = depth  BY <1>4
  <2> QED  BY <2>4, <2>7, <2>10, <2>11
<1> QED  BY <1>9, <1>10, <1>13, <1>14

\* A join returns when the thread it waits for has nothing left to do.
LEMMA JoinStep ==
  ASSUME ParentRuns, ParentFlow, NEW t \in ParentThreads, Parent!Join(t)
  PROVE  /\ dead' \/ Calls(ParentK, ParentThreads, holder', depth', todo')
         /\ ParentFlow'
<1>1. Parent!At(t, "join") /\ Parent!Done(t) /\ running' = running /\ todo[Head(todo[t]).arg] = <<>>
  BY DEF Parent!Join, Parent!Idle, Parent!Now, Parent!parent
<1>2. Busy(ParentK, ParentThreads, t) /\ Head(todo[t]).do = "join"  BY <1>1, ParentBusy, ParentThreadFacts
<1>3. Goes(ParentK, ParentThreads, t)  BY <1>1, <1>2, ParentDone
<1>4. dead' \/ Calls(ParentK, ParentThreads, holder', depth', todo')  BY <1>3 DEF Goes
<1>5. todo' = [todo EXCEPT ![t] = Tail(@)]
  <2>1. IsSeq(todo[t]) /\ todo[t] # <<>> /\ todo = [u \in ParentThreads |-> todo[u]]
    BY <1>2, BusyFirst DEF Busy, ParentK
  <2>2. <<>> \o Tail(todo[t]) = Tail(todo[t])  BY <2>1, TailSplice, SeqFacts
  <2>3. todo' = [todo EXCEPT ![t] = <<>> \o Tail(@)]  BY <1>1 DEF Parent!Done, Parent!Proceed, Parent!Becomes
  <2> QED  BY <2>1, <2>2, <2>3
<1>6. Head(todo[t]).arg \notin Awake  BY <1>1 DEF Awake
<1>7. todo[t] # <<>>  BY <1>2 DEF Busy
<1>8. ParentFlow'  BY <1>1, <1>5, <1>6, <1>7, TailFlow
<1> QED  BY <1>4, <1>8

-----------------------------------------------------------------------------
\* One more item at the end.
Longer(s, i, c) ==
  /\ IsSeq(c) /\ Len(c) = Len(s) + 1 /\ Len(s) \in Nat
  /\ c[Len(s) + 1] = i /\ \A n \in 1..Len(s) : c[n] = s[n]

LEMMA Appended ==
  ASSUME NEW s, IsSeq(s), NEW i
  PROVE  Longer(s, i, s \o <<i>>)
<1> DEFINE o == <<i>>
<1>1. IsSeq(o) /\ Len(o) = 1 /\ o[1] = i  BY OneItem
<1> HIDE DEF o
<1>2. IsSeq(s) /\ IsSeq(o) /\ Len(s) \in Nat /\ 1 \in 1..Len(o)  BY <1>1, SeqFacts
<1> DEFINE c == s \o o
<1>3. /\ IsSeq(c) /\ Len(c) = Len(s) + Len(o)
      /\ \A n \in 1..Len(s) : c[n] = s[n]
      /\ \A n \in 1..Len(o) : c[Len(s) + n] = o[n]
  <2>1. IsSeq(s) /\ IsSeq(o)  BY <1>2
  <2> QED  BY <2>1, Joined
<1> HIDE DEF c
<1>4. Longer(s, i, c)  BY <1>1, <1>2, <1>3 DEF Longer
<1> QED  BY <1>4 DEF c, o

\* start() writes running_ first.
LEMMA StartFlow ==
  ASSUME NEW W
  PROVE  Flow(Parent!Start, FALSE, W) /\ Loose(ParentK, Parent!Start)
<1> DEFINE a == [do |-> "running", arg |-> TRUE]
           b == [do |-> "lock", m |-> "children", body |-> Parent!Do("each", "start")]
           s1 == <<a>>
           s2 == s1 \o <<b>>
<1>1. Parent!Start = s2
  BY DEF Parent!Start, Parent!AllChildren, Parent!Do, Parent!Locked
<1>2. a.do = "running" /\ a.arg = TRUE /\ b.do = "lock"  OBVIOUS
<1>3. Loose(ParentK, Parent!Start)
  <2>1. LocalNew(ParentK, a, {})
    <3> HIDE DEF a
    <3> QED  BY <1>2 DEF LocalNew, ParentK
  <2>2. Loose(ParentK, s1)
    <3> HIDE DEF a
    <3> QED  BY <1>2, <2>1, LooseOne
  <2>3. Loose(ParentK, Parent!AllChildren("start"))
    <3>1. "start" \in ParentK.loops  BY DEF ParentK
    <3> QED  BY <3>1, ParentAll, ParentKind, LooseNew
  <2>4. Parent!Start = s1 \o Parent!AllChildren("start")  BY DEF Parent!Start, Parent!Do
  <2> HIDE DEF s1
  <2> QED  BY <2>2, <2>3, <2>4, LooseJoined
<1> HIDE DEF a, b
<1>4. IsSeq(s1) /\ Len(s1) = 1 /\ s1[1] = a  BY OneItem
<1> HIDE DEF s1
<1>5. Longer(s1, b, s2)  BY <1>4, Appended
<1> HIDE DEF s2
<1>6. Len(s2) = 2 /\ s2[1] = a /\ s2[2] = b  BY <1>4, <1>5 DEF Longer
<1>7. \A n \in 1..Len(s2) : n \in {1, 2}  BY <1>6
<1>8. Flow(s2, FALSE, W)
  <2>1. ASSUME NEW n \in 1..Len(s2), s2[n].do = "running"
        PROVE  n = 1 /\ s2[n].arg = TRUE
    BY <1>2, <1>6, <1>7, <2>1
  <2>2. ASSUME NEW n \in 1..Len(s2) PROVE s2[n].do # "join"
    BY <1>2, <1>6, <1>7, <2>2
  <2> QED  BY <2>1, <2>2 DEF Flow
<1> QED  BY <1>1, <1>3, <1>8

\* stop() joins both threads before it resets running_.
LEMMA StopFlow ==
  ASSUME NEW W, W \subseteq {Monitor, Worker}
  PROVE  Flow(Parent!Stop, TRUE, W) /\ Loose(ParentK, Parent!Stop)
<1> DEFINE a == [do |-> "quiet", arg |-> FALSE]
           b == [do |-> "join", arg |-> Worker]
           c == [do |-> "join", arg |-> Monitor]
           d == [do |-> "lock", m |-> "children", body |-> Parent!Do("each", "stop")]
           e == [do |-> "running", arg |-> FALSE]
           s1 == <<a>>
           s2 == s1 \o <<b>>
           s3 == s2 \o <<c>>
           s4 == s3 \o <<d>>
           s5 == s4 \o <<e>>
<1>1. Parent!Stop = s5
  BY DEF Parent!Stop, Parent!AllChildren, Parent!Do, Parent!Locked
<1>2. /\ a.do = "quiet" /\ b.do = "join" /\ b.arg = Worker /\ c.do = "join" /\ c.arg = Monitor
      /\ d.do = "lock" /\ e.do = "running" /\ e.arg = FALSE
  OBVIOUS
<1>3. Loose(ParentK, s5)
  <2>1. LocalNew(ParentK, a, {}) /\ LocalNew(ParentK, b, {}) /\ LocalNew(ParentK, c, {}) /\ LocalNew(ParentK, e, {})
    <3> HIDE DEF a, b, c, d, e
    <3> QED  BY <1>2 DEF LocalNew, ParentK
  <2>2. Loose(ParentK, <<d>>)
    <3>1. "stop" \in ParentK.loops  BY DEF ParentK
    <3>2. Loose(ParentK, Parent!AllChildren("stop"))  BY <3>1, ParentAll, ParentKind, LooseNew
    <3> QED  BY <3>2 DEF Parent!AllChildren, Parent!Locked
  <2> HIDE DEF a, b, c, d, e
  <2>3. /\ Loose(ParentK, <<a>>) /\ Loose(ParentK, <<b>>) /\ Loose(ParentK, <<c>>)
        /\ Loose(ParentK, <<e>>)
    BY <1>2, <2>1, LooseOne
  <2>4. Loose(ParentK, s2)
    <3>1. Loose(ParentK, s1)  BY <2>3
    <3> HIDE DEF s1
    <3> QED  BY <2>3, <3>1, LooseJoined
  <2>5. Loose(ParentK, s3)
    <3> HIDE DEF s2
    <3> QED  BY <2>3, <2>4, LooseJoined
  <2>6. Loose(ParentK, s4)
    <3> HIDE DEF s3
    <3> QED  BY <2>2, <2>5, LooseJoined
  <2> HIDE DEF s4
  <2> QED  BY <2>3, <2>6, LooseJoined
<1> HIDE DEF a, b, c, d, e
<1>4. IsSeq(s1) /\ Len(s1) = 1 /\ s1[1] = a  BY OneItem
<1> HIDE DEF s1
<1>5. Longer(s1, b, s2)  BY <1>4, Appended
<1> HIDE DEF s2
<1>6. IsSeq(s2) /\ Len(s2) = 2 /\ s2[1] = a /\ s2[2] = b  BY <1>4, <1>5 DEF Longer
<1>7. Longer(s2, c, s3)  BY <1>6, Appended
<1> HIDE DEF s3
<1>8. IsSeq(s3) /\ Len(s3) = 3 /\ s3[1] = a /\ s3[2] = b /\ s3[3] = c  BY <1>6, <1>7 DEF Longer
<1>9. Longer(s3, d, s4)  BY <1>8, Appended
<1> HIDE DEF s4
<1>10. IsSeq(s4) /\ Len(s4) = 4 /\ s4[1] = a /\ s4[2] = b /\ s4[3] = c /\ s4[4] = d
  BY <1>8, <1>9 DEF Longer
<1>11. Longer(s4, e, s5)  BY <1>10, Appended
<1> HIDE DEF s5
<1>12. Len(s5) = 5 /\ s5[1] = a /\ s5[2] = b /\ s5[3] = c /\ s5[4] = d /\ s5[5] = e
  BY <1>10, <1>11 DEF Longer
<1>13. \A n \in 1..Len(s5) : n \in {1, 2, 3, 4, 5}  BY <1>12
<1>14. ASSUME NEW n \in 1..Len(s5), s5[n].do = "running" PROVE n = 5 /\ s5[n].arg = FALSE
  BY <1>2, <1>12, <1>13, <1>14
<1>15. ASSUME NEW n \in 1..Len(s5) PROVE s5[n].do # "end"
  BY <1>2, <1>12, <1>13, <1>15
<1>16. ASSUME NEW u \in W PROVE \E k \in 1..(5 - 1) : s5[k].do = "join" /\ s5[k].arg = u
  <2>1. 2 \in 1..(5 - 1) /\ 3 \in 1..(5 - 1)  OBVIOUS
  <2>2. u = Worker \/ u = Monitor  OBVIOUS
  <2> QED  BY <1>2, <1>12, <2>1, <2>2
<1>17. Flow(s5, TRUE, W)
  <2>1. ASSUME NEW n \in 1..Len(s5), s5[n].do = "running"
        PROVE  /\ s5[n].arg \in BOOLEAN /\ s5[n].arg # TRUE
               /\ \A u \in W : \E k \in 1..(n - 1) : s5[k].do = "join" /\ s5[k].arg = u
               /\ \A k \in 1..Len(s5) : s5[k].do = "running" => k = n
    <3>1. n = 5 /\ s5[n].arg = FALSE  BY <1>14, <2>1
    <3>2. \A k \in 1..Len(s5) : s5[k].do = "running" => k = 5  BY <1>14
    <3> QED  BY <1>16, <3>1, <3>2
  <2> QED  BY <1>15, <2>1 DEF Flow
<1> QED  BY <1>1, <1>3, <1>17

\* The public methods that leave the flags alone.
LEMMA ParentPublic ==
  ASSUME NEW n, NEW step \in {"optimize", "message"},
         NEW steps \in {Parent!Pause, Parent!Resume, Parent!RegisterChildKernel(n),
           Parent!UnregisterChildKernel(n), Parent!SendMessage(n), Parent!OptimizeChildKernel(n),
           Parent!SetResourceQuota(n), Parent!SetTaskDistribution(n), Parent!BalanceTasks,
           Parent!UpdateMetrics, Parent!MonitorResourceUsage, Parent!AllChildren(step)}
  PROVE  New(ParentK, steps, {})
<1> DEFINE h == {"children"}
<1>1. ParentK.loops = {"start", "stop", "pause", "resume", "optimize", "check", "usage", "message"}
  BY DEF ParentK
<1>2. \A loop \in ParentK.loops : New(ParentK, Parent!AllChildren(loop), {})  BY ParentAll
<1>3. \A d \in {"quiet", "paused", "insert", "find", "erase", "message", "collect"} : d \in ParentPlain
  BY DEF ParentPlain
<1>4. \A d \in {"quiet", "paused", "insert", "find", "erase", "message", "collect"} : \A arg, g :
        New(ParentK, Parent!Do(d, arg), g)
  BY <1>3, ParentDo
<1>5. <<"children", {}>> \in ParentK.order /\ {} \cup {"children"} = h  BY ParentOrder DEF ParentK
<1>6. \A body : New(ParentK, body, h) => New(ParentK, Parent!Locked("children", body), {})
  BY <1>5, ParentLocked
<1>7. New(ParentK, Parent!Pause, {})
  <2>1. /\ New(ParentK, Parent!Do("quiet", FALSE), {}) /\ New(ParentK, Parent!Do("paused", TRUE), {})
        /\ New(ParentK, Parent!AllChildren("pause"), {})
    BY <1>1, <1>2, <1>4
  <2> QED  BY <2>1, NewJoined DEF Parent!Pause
<1>8. New(ParentK, Parent!Resume, {})
  <2>1. /\ New(ParentK, Parent!Do("quiet", TRUE), {}) /\ New(ParentK, Parent!Do("paused", FALSE), {})
        /\ New(ParentK, Parent!AllChildren("resume"), {})
    BY <1>1, <1>2, <1>4
  <2> QED  BY <2>1, NewJoined DEF Parent!Resume
<1>9. New(ParentK, Parent!RegisterChildKernel(n), {})
  <2>1. New(ParentK, Parent!Do("insert", n), h) /\ New(ParentK, Parent!InitializeChildKernel(n), h)
    BY <1>4, ParentMethods
  <2>2. New(ParentK, Parent!Do("insert", n) \o Parent!InitializeChildKernel(n), h)  BY <2>1, NewJoined
  <2> QED  BY <1>6, <2>2 DEF Parent!RegisterChildKernel
<1>10. New(ParentK, Parent!UnregisterChildKernel(n), {})
  <2>1. /\ New(ParentK, Parent!Do("find", n), h) /\ New(ParentK, Parent!CleanupChildKernel(n), h)
        /\ New(ParentK, Parent!Do("erase", n), h)
    BY <1>4, ParentMethods
  <2>2. New(ParentK, Parent!Do("find", n) \o Parent!CleanupChildKernel(n) \o Parent!Do("erase", n), h)
    BY <2>1, NewJoined
  <2> QED  BY <1>6, <2>2 DEF Parent!UnregisterChildKernel
<1>11. New(ParentK, Parent!SendMessage(n), {})
  <2>1. /\ New(ParentK, Parent!GetChildKernel(n), {}) /\ New(ParentK, Parent!HandleChildError(n), {})
        /\ New(ParentK, Parent!Do("message", n), {})
    BY <1>4, ParentMethods
  <2>2. New(ParentK, Parent!Try(Parent!Do("message", n), Parent!HandleChildError(n)), {})
    BY <2>1, ParentTry
  <2> QED  BY <2>1, <2>2, NewJoined DEF Parent!SendMessage
<1>12. New(ParentK, Parent!BalanceTasks, {})  BY <1>4, <1>6 DEF Parent!BalanceTasks
<1>13. New(ParentK, Parent!MonitorResourceUsage, {})  BY <1>1, <1>2 DEF Parent!MonitorResourceUsage
<1>14. New(ParentK, Parent!AllChildren(step), {})  BY <1>1, <1>2
<1>15. /\ New(ParentK, Parent!OptimizeChildKernel(n), {}) /\ New(ParentK, Parent!SetResourceQuota(n), {})
       /\ New(ParentK, Parent!SetTaskDistribution(n), {}) /\ New(ParentK, Parent!UpdateMetrics, {})
  BY ParentMethods
<1> QED  BY <1>7, <1>8, <1>9, <1>10, <1>11, <1>12, <1>13, <1>14, <1>15

\* An idle client calls.
LEMMA CallFlow ==
  ASSUME ParentRuns, ParentFlow, NEW t \in Clients, NEW steps, Parent!Call(t, steps),
         running' = running, Loose(ParentK, steps), Flow(steps, running, Awake),
         t # Parent!Owner => Quiet(steps)
  PROVE  Calls(ParentK, ParentThreads, holder', depth', todo') /\ ParentFlow'
<1>1. t \in ParentThreads /\ t # Monitor /\ t # Worker  BY ParentThreadFacts
<1>2. todo[t] = <<>> /\ todo' = [todo EXCEPT ![t] = steps] /\ UNCHANGED <<holder, depth>>
  BY DEF Parent!Call, Parent!Idle
<1>3. Calls(ParentK, ParentThreads, holder, depth, todo')
  BY <1>1, <1>2, ParentKind, ParentThreadFacts, CallsAgain DEF ParentRuns
<1>4. todo'[t] = steps /\ \A u \in ParentThreads : u # t => todo'[u] = todo[u]
  BY <1>1, <1>2, ParentTodo
<1>5. Awake' = Awake  BY <1>1, <1>4, ParentThreadFacts DEF Awake
<1>6. ASSUME NEW u \in ParentThreads
      PROVE  Flow(todo'[u], running', Awake') /\ (u # Parent!Owner => Quiet(todo'[u]))
  <2>1. CASE u = t  BY <1>4, <1>5, <2>1
  <2>2. CASE u # t  BY <1>4, <1>5, <2>2 DEF ParentFlow
  <2> QED  BY <2>1, <2>2
<1>7. ParentFlow'  BY <1>5, <1>6 DEF ParentFlow
<1> QED  BY <1>2, <1>3, <1>7

LEMMA ParentInvoke ==
  ASSUME ParentRuns, ParentFlow, NEW t, Parent!Invoke(t)
  PROVE  /\ Calls(ParentK, ParentThreads, holder', depth', todo') /\ ParentFlow'
         /\ children' = children
<1>1. t \in Clients /\ running' = running /\ children' = children  BY DEF Parent!Invoke, Parent!parent
<1>2. Awake \subseteq {Monitor, Worker} /\ running \in BOOLEAN  BY DEF Awake, ParentFlow
<1>3. CASE t = Parent!Owner /\ ~running /\ Parent!Call(t, Parent!Start)
  <2>1. running = FALSE  BY <1>2, <1>3
  <2>2. Flow(Parent!Start, running, Awake) /\ Loose(ParentK, Parent!Start)  BY <2>1, StartFlow
  <2> QED  BY <1>1, <1>3, <2>2, CallFlow
<1>4. CASE t = Parent!Owner /\ running /\ Parent!Call(t, Parent!Stop)
  <2>1. running = TRUE  BY <1>2, <1>4
  <2>2. Flow(Parent!Stop, running, Awake) /\ Loose(ParentK, Parent!Stop)  BY <1>2, <2>1, StopFlow
  <2> QED  BY <1>1, <1>4, <2>2, CallFlow
<1>5. ASSUME NEW n, NEW step \in {"optimize", "message"},
         NEW steps \in {Parent!Pause, Parent!Resume, Parent!RegisterChildKernel(n),
           Parent!UnregisterChildKernel(n), Parent!SendMessage(n), Parent!OptimizeChildKernel(n),
           Parent!SetResourceQuota(n), Parent!SetTaskDistribution(n), Parent!BalanceTasks,
           Parent!UpdateMetrics, Parent!MonitorResourceUsage, Parent!AllChildren(step)},
         Parent!Call(t, steps)
      PROVE  Calls(ParentK, ParentThreads, holder', depth', todo') /\ ParentFlow'
  <2>1. New(ParentK, steps, {})  BY <1>5, ParentPublic
  <2>2. Loose(ParentK, steps) /\ Quiet(steps)
    <3>1. ParentK.outer = {"unlock", "end", "join", "running"}  BY DEF ParentK
    <3> QED  BY <2>1, <3>1, ParentKind, LooseNew DEF New, Quiet
  <2> QED  BY <1>1, <1>5, <2>2, QuietFlow, CallFlow
<1>6. \/ t = Parent!Owner /\ ~running /\ Parent!Call(t, Parent!Start)
      \/ t = Parent!Owner /\ running /\ Parent!Call(t, Parent!Stop)
      \/ \E n : \E step \in {"optimize", "message"} :
         \E steps \in {Parent!Pause, Parent!Resume, Parent!RegisterChildKernel(n),
           Parent!UnregisterChildKernel(n), Parent!SendMessage(n), Parent!OptimizeChildKernel(n),
           Parent!SetResourceQuota(n), Parent!SetTaskDistribution(n), Parent!BalanceTasks,
           Parent!UpdateMetrics, Parent!MonitorResourceUsage, Parent!AllChildren(step)} :
           Parent!Call(t, steps)
  BY DEF Parent!Invoke
<1> QED  BY <1>1, <1>3, <1>4, <1>5, <1>6

LEMMA ParentChildren ==
  ASSUME IsFiniteSet(children), NEW t, Parent!Invoke(t) \/ Parent!ThreadStep(t)
  PROVE  IsFiniteSet(children')
<1>1. children' \subseteq children \cup {Head(todo[t]).arg}
  <2>1. CASE Parent!Invoke(t)  BY <2>1 DEF Parent!Invoke, Parent!parent
  <2>2. CASE Parent!Find(t)  BY <2>2 DEF Parent!Find, Parent!Now
  <2>3. CASE Parent!Table(t)  BY <2>3 DEF Parent!Table
  <2>4. CASE Parent!LockStep(t) /\ UNCHANGED <<Parent!parent, calls, faults>>
    BY <2>4 DEF Parent!parent
  <2>5. CASE Parent!Activity(t) \/ Parent!ChildCall(t) \/ Parent!Check(t) \/ Parent!SetFlags(t)
    BY <2>5 DEF Parent!Activity, Parent!ChildCall, Parent!Check, Parent!SetFlags
  <2>6. CASE Parent!Each(t) \/ Parent!Collect(t) \/ Parent!Round(t) \/ Parent!LeaveQueue(t) \/ Parent!Join(t)
    BY <2>6 DEF Parent!Each, Parent!Collect, Parent!Round, Parent!LeaveQueue, Parent!Join, Parent!parent
  <2> QED  BY <2>1, <2>2, <2>3, <2>4, <2>5, <2>6 DEF Parent!ThreadStep
<1>2. IsFiniteSet(children \cup {Head(todo[t]).arg})  BY FS_AddElement
<1> QED  BY <1>1, <1>2, FS_Subset

\* Nothing happens in a process that has ended.
LEMMA ParentAlive ==
  ASSUME NEW t, Parent!Invoke(t) \/ Parent!ThreadStep(t)
  PROVE  ~dead
<1>1. CASE Parent!Invoke(t)  BY <1>1 DEF Parent!Invoke, Parent!Call, Parent!Idle
<1>2. CASE Parent!LockStep(t)
  BY <1>2 DEF Parent!LockStep, Parent!Acquire, Parent!RelockThrows, Parent!Release, Parent!EnterTry,
              Parent!LeaveTry, Parent!At
<1>3. CASE Parent!Find(t) \/ Parent!Table(t) \/ Parent!Activity(t) \/ Parent!ChildCall(t) \/ Parent!SetFlags(t)
  BY <1>3 DEF Parent!Find, Parent!Table, Parent!Activity, Parent!ChildCall, Parent!SetFlags, Parent!At
<1>4. CASE Parent!Each(t) \/ Parent!Check(t) \/ Parent!Collect(t) \/ Parent!Round(t) \/ Parent!LeaveQueue(t) \/ Parent!Join(t)
  BY <1>4 DEF Parent!Each, Parent!Check, Parent!Collect, Parent!Round, Parent!LeaveQueue, Parent!Join, Parent!At
<1> QED  BY <1>1, <1>2, <1>3, <1>4 DEF Parent!ThreadStep

LEMMA ParentPlainRunning ==
  ASSUME NEW t, Parent!ThreadStep(t), ~Parent!SetFlags(t), ~Parent!Join(t)
  PROVE  ParentPlainStep(t) /\ running' = running
<1>1. CASE Parent!LockStep(t) /\ UNCHANGED <<Parent!parent, calls, faults>>
  BY <1>1 DEF Parent!parent, ParentPlainStep
<1>2. CASE Parent!Find(t) \/ Parent!Table(t) \/ Parent!Activity(t) \/ Parent!ChildCall(t) \/ Parent!Check(t)
  BY <1>2 DEF Parent!Find, Parent!Table, Parent!Activity, Parent!ChildCall, Parent!Check, ParentPlainStep
<1>3. CASE Parent!Each(t) \/ Parent!Collect(t) \/ Parent!Round(t) \/ Parent!LeaveQueue(t)
  BY <1>3 DEF Parent!Each, Parent!Collect, Parent!Round, Parent!LeaveQueue, Parent!parent, ParentPlainStep
<1> QED  BY <1>1, <1>2, <1>3 DEF Parent!ThreadStep

LEMMA ParentNextInv ==
  ASSUME ParentInv, Parent!Next
  PROVE  ParentInv'
<1>1. PICK t \in ParentThreads : Parent!Invoke(t) \/ Parent!ThreadStep(t)
  BY DEF Parent!Next, ParentThreads
<1>2. ParentRuns /\ ParentFlow  BY <1>1, ParentAlive DEF ParentInv
<1>3. IsFiniteSet(children')  BY <1>1, <1>2, ParentChildren DEF ParentRuns
<1>4. dead' \/ (Calls(ParentK, ParentThreads, holder', depth', todo') /\ ParentFlow')
  <2>1. CASE Parent!Invoke(t)  BY <1>2, <2>1, ParentInvoke
  <2>2. CASE Parent!SetFlags(t)  BY <1>2, <2>2, SetFlagsStep
  <2>3. CASE Parent!Join(t)  BY <1>2, <2>3, JoinStep
  <2>4. CASE Parent!ThreadStep(t) /\ ~Parent!SetFlags(t) /\ ~Parent!Join(t)
    <3>1. ParentPlainStep(t) /\ running' = running  BY <2>4, ParentPlainRunning
    <3>2. ParentGoes(t)  BY <1>2, <3>1, ParentPlainGoes, ParentThreadFacts
    <3> QED  BY <1>2, <3>1, <3>2, GoesFlow
  <2> QED  BY <1>1, <2>1, <2>2, <2>3, <2>4
<1> QED  BY <1>3, <1>4 DEF ParentInv, ParentRuns

\* Threads that hold nothing and have these items to do.
LEMMA CallsBegin ==
  ASSUME NEW K, NEW T, NEW h, NEW d, NEW td,
         h = [m \in K.mutexes |-> Free], d = [m \in K.mutexes |-> 0], Free \notin T,
         T = K.threads,
         td = [t \in T |-> td[t]], \A t \in T : Loose(K, td[t])
  PROVE  Calls(K, T, h, d, td)
<1>1. \A t \in T : Good(K, td[t]) /\ Plain(td[t])  BY LooseGood
<1>2. ASSUME NEW t \in T, NEW m PROVE Count(td[t], m) = 0
  <2>1. Unlocks(td[t], Len(td[t]), m) = {}  BY <1>1 DEF Plain, Unlocks
  <2> QED  BY <2>1, FS_EmptySet DEF Count
<1>3. \A t \in T : \A m \in K.mutexes : Count(td[t], m) = IF h[m] = t THEN d[m] ELSE 0
  BY <1>2
<1>4. /\ h = [l \in K.mutexes |-> h[l]] /\ d \in [K.mutexes -> Nat]
      /\ \A m \in K.mutexes : h[m] = Free <=> d[m] = 0
  OBVIOUS
<1> QED  BY <1>1, <1>3, <1>4 DEF Calls

LEMMA LooseEmpty == ASSUME NEW K PROVE Loose(K, <<>>)
BY NoItem DEF Loose

LEMMA ParentInitInv ==
  ASSUME Parent!Init
  PROVE  ParentInv
<1>1. /\ holder = [m \in ParentK.mutexes |-> Free] /\ depth = [m \in ParentK.mutexes |-> 0]
      /\ todo = [t \in ParentThreads |-> <<>>] /\ running = FALSE /\ children = {}
  BY DEF Parent!Init, Parent!CallsInit, ParentK, ParentThreads
<1>2. Calls(ParentK, ParentThreads, holder, depth, todo)
  <2>1. \A t \in ParentThreads : Loose(ParentK, todo[t])  BY <1>1, LooseEmpty
  <2>2. todo = [t \in ParentThreads |-> todo[t]] /\ ParentThreads = ParentK.threads  BY <1>1 DEF ParentK
  <2> HIDE DEF ParentK
  <2> QED  BY <1>1, <2>1, <2>2, CallsBegin, ParentThreadFacts
<1>3. ParentFlow
  <2>1. Quiet(<<>>)  BY NoItem DEF Quiet
  <2>2. \A t \in ParentThreads : Flow(todo[t], running, Awake) /\ Quiet(todo[t])
    BY <1>1, <2>1, QuietFlow
  <2>3. Awake = {}  BY <1>1, ParentThreadFacts DEF Awake
  <2> QED  BY <1>1, <2>2, <2>3 DEF ParentFlow
<1>4. IsFiniteSet(children)  BY <1>1, FS_EmptySet
<1> QED  BY <1>2, <1>3, <1>4 DEF ParentInv, ParentRuns

-----------------------------------------------------------------------------
\* What a thread holds when it comes to a lock, and that it may lock it then.
LEMMA WantsHeld ==
  ASSUME NEW K, NEW T, NEW t, Busy(K, T, t), Head(todo[t]).do = "lock"
  PROVE  \E h : /\ <<Head(todo[t]).m, h>> \in K.order
                /\ \A l \in K.mutexes : holder[l] = t <=> l \in h
<1> DEFINE s == todo[t]
           h == Held(Tail(s))
<1>1. Good(K, s) /\ s # <<>> /\ Head(s).do = "lock"  BY DEF Busy, Calls
<1>2. \A l \in K.mutexes : Count(s, l) = IF holder[l] = t THEN depth[l] ELSE 0
  BY DEF Busy, Calls
<1>3. /\ depth \in [K.mutexes -> Nat] /\ t # Free
      /\ \A l \in K.mutexes : holder[l] = Free <=> depth[l] = 0
  BY DEF Busy, Calls
<1> HIDE DEF s
<1>4. /\ IsSeq(Tail(s)) /\ LocalNew(K, Head(s), Held(Tail(s)))
      /\ \A l : Count(s, l) = Count(Tail(s), l)
  BY <1>1, FirstItem
<1>5. \A l : l \in h <=> Count(Tail(s), l) # 0  BY <1>4, CountFacts
<1>6. <<Head(s).m, h>> \in K.order  BY <1>1, <1>4 DEF LocalNew
<1>7. ASSUME NEW l \in K.mutexes PROVE holder[l] = t <=> l \in h
  BY <1>2, <1>3, <1>4, <1>5
<1> HIDE DEF h
<1> QED  BY <1>6, <1>7 DEF s

\* The mutexes of a ParentKernel are taken in one order.
LEMMA ParentNoCycle ==
  ASSUME ParentInv
  PROVE  Parent!NoLockCycle
<1> SUFFICES ASSUME NEW S \in SUBSET ParentThreads, Parent!Entangled(S) PROVE FALSE
  BY DEF Parent!NoLockCycle, ParentThreads
<1> DEFINE want(t) == Head(todo[t]).m
<1>1. S # {} /\ \A t \in S : Parent!At(t, "lock") /\ holder[want(t)] \in S \ {t}
  BY DEF Parent!Entangled, Parent!Wants, Parent!Now
<1>2. ParentRuns
  <2>1. ~dead  BY <1>1 DEF Parent!At
  <2> QED  BY <2>1 DEF ParentInv
<1>3. ASSUME NEW t \in S
      PROVE  \E h : /\ <<want(t), h>> \in ParentK.order
                    /\ \A l \in ParentK.mutexes : holder[l] = t <=> l \in h
  <2>1. Parent!At(t, "lock") /\ t \in ParentThreads  BY <1>1
  <2>2. Busy(ParentK, ParentThreads, t) /\ Head(todo[t]).do = "lock"
    BY <1>2, <2>1, ParentBusy, ParentThreadFacts
  <2> QED  BY <2>2, WantsHeld
<1>4. ASSUME NEW t \in S
      PROVE  /\ want(t) \in {"children", "quotas", "distributions", "metrics"}
             /\ holder["metrics"] # t /\ holder["distributions"] # t
             /\ holder["quotas"] = t => want(t) = "distributions"
  <2>1. PICK h : /\ <<want(t), h>> \in ParentK.order
                 /\ \A l \in ParentK.mutexes : holder[l] = t <=> l \in h
    BY <1>3
  <2> HIDE DEF want
  <2>2. /\ want(t) \in {"children", "quotas", "distributions", "metrics"}
        /\ h \subseteq {"children", "quotas"}
        /\ "quotas" \in h => want(t) = "distributions"
    BY <2>1 DEF ParentK
  <2>3. \A l \in {"quotas", "distributions", "metrics"} : holder[l] = t <=> l \in h
    BY <2>1 DEF ParentK
  <2> QED  BY <2>2, <2>3
<1> HIDE DEF want
<1>5. \A t \in S : want(t) # "metrics" /\ want(t) # "distributions"  BY <1>1, <1>4
<1>6. \A t \in S : want(t) # "quotas"  BY <1>1, <1>4, <1>5
<1>7. \A t \in S : want(t) = "children"  BY <1>4, <1>5, <1>6
<1>8. PICK t \in S : TRUE  BY <1>1
<1>9. holder["children"] \in S  BY <1>1, <1>7, <1>8
<1>10. holder[want(holder["children"])] # holder["children"]  BY <1>1, <1>9
<1> QED  BY <1>7, <1>9, <1>10

-----------------------------------------------------------------------------
(* The methods of KernelManager.                                            *)

ManagerThreads == Clients \cup {Monitor}

\* kernels_mutex_ comes before the configurations and the statuses, but
\* setKernelConfig takes the configurations first; a thread that has
\* kernels_mutex_ may ask for it again anywhere.
ManagerK == [
  threads |-> ManagerThreads,
  mutexes |-> {"kernels", "configs", "statuses"},
  order |-> ({"kernels"} \X SUBSET {"configs"})
              \cup ({"kernels"} \X ((SUBSET {"kernels", "configs", "statuses"}) \ (SUBSET {"configs", "statuses"})))
              \cup ({"configs"} \X SUBSET {"kernels"})
              \cup ({"statuses"} \X SUBSET {"kernels", "configs"}),
  wide |-> {"each", "handle", "recover", "round"},
  base |-> {"kernels"},
  loops |-> {"start", "stop", "pause", "resume", "optimize", "check"},
  outer |-> {"unlock", "end"}]

\* The steps that only registerKernel and unregisterKernel take.
Entering == {"insert", "newStatus", "eraseConfig", "eraseStatus", "erase"}

\* What all other methods do: no such step.
TameK == [
  threads |-> ManagerK.threads, mutexes |-> ManagerK.mutexes, order |-> ManagerK.order,
  wide |-> ManagerK.wide, base |-> ManagerK.base, loops |-> ManagerK.loops,
  outer |-> ManagerK.outer \cup Entering]

ManagerKinds == {ManagerK, TameK}

ManagerPlain ==
  {"find", "config", "skip", "start", "stop", "pause", "resume", "flags", "check", "count",
   "stopMonitoring", "join"}

LEMMA ManagerFields ==
  ASSUME NEW K \in ManagerKinds
  PROVE  /\ K.threads = ManagerThreads
         /\ K.mutexes = {"kernels", "configs", "statuses"} /\ K.order = ManagerK.order
         /\ K.wide = {"each", "handle", "recover", "round"} /\ K.base = {"kernels"}
         /\ K.loops = {"start", "stop", "pause", "resume", "optimize", "check"}
         /\ {"unlock", "end"} \subseteq K.outer /\ K.outer \subseteq {"unlock", "end"} \cup Entering
         /\ K = ManagerK => K.outer = {"unlock", "end"}
BY DEF ManagerKinds, ManagerK, TameK

LEMMA ManagerKind ==
  ASSUME NEW K \in ManagerKinds
  PROVE  /\ Kind(K)
         /\ "lock" \notin K.outer /\ "try" \notin K.outer
         /\ "lock" \notin K.wide /\ "try" \notin K.wide
<1>1. \A p \in K.order : p[1] \in K.mutexes
  <2>1. \A p \in ManagerK.order : p[1] \in {"kernels", "configs", "statuses"}  BY DEF ManagerK
  <2> QED  BY <2>1, ManagerFields
<1>2. /\ {"unlock", "end"} \subseteq K.outer
      /\ \A d \in {"lock", "try", "unlock", "end"} : d \notin K.wide
      /\ "lock" \notin K.outer /\ "try" \notin K.outer
  BY ManagerFields DEF Entering
<1> QED  BY <1>1, <1>2 DEF Kind

LEMMA ManagerPairs ==
  /\ \A h : h \subseteq {"configs"} => <<"kernels", h>> \in ManagerK.order
  /\ \A h : h \subseteq {"kernels", "configs", "statuses"} /\ "kernels" \in h => <<"kernels", h>> \in ManagerK.order
  /\ \A h : h \subseteq {"kernels"} => <<"configs", h>> \in ManagerK.order
  /\ \A h : h \subseteq {"kernels", "configs"} => <<"statuses", h>> \in ManagerK.order
<1>1. ASSUME NEW h, h \subseteq {"configs"} PROVE <<"kernels", h>> \in ManagerK.order
  <2>1. h \in SUBSET {"configs"}  BY <1>1
  <2> QED  BY <2>1 DEF ManagerK
<1>2. ASSUME NEW h, h \subseteq {"kernels", "configs", "statuses"}, "kernels" \in h
      PROVE  <<"kernels", h>> \in ManagerK.order
  <2>1. h \in (SUBSET {"kernels", "configs", "statuses"}) \ (SUBSET {"configs", "statuses"})
    <3>1. "kernels" \notin {"configs", "statuses"}  OBVIOUS
    <3> QED  BY <1>2, <3>1
  <2> QED  BY <2>1 DEF ManagerK
<1>3. ASSUME NEW h, h \subseteq {"kernels"} PROVE <<"configs", h>> \in ManagerK.order
  <2>1. h \in SUBSET {"kernels"}  BY <1>3
  <2> QED  BY <2>1 DEF ManagerK
<1>4. ASSUME NEW h, h \subseteq {"kernels", "configs"} PROVE <<"statuses", h>> \in ManagerK.order
  <2>1. h \in SUBSET {"kernels", "configs"}  BY <1>4
  <2> QED  BY <2>1 DEF ManagerK
<1> QED  BY <1>1, <1>2, <1>3, <1>4

LEMMA ManagerOrder ==
  ASSUME NEW K \in ManagerKinds, NEW h, h \subseteq {"kernels"}
  PROVE  /\ <<"kernels", h>> \in K.order /\ <<"configs", h>> \in K.order
         /\ <<"statuses", h>> \in K.order
         /\ <<"kernels", h \cup {"configs"}>> \in K.order
         /\ <<"statuses", h \cup {"configs"}>> \in K.order
<1>1. h \subseteq {"configs"} \/ (h \subseteq {"kernels", "configs", "statuses"} /\ "kernels" \in h)
  OBVIOUS
<1> DEFINE g == h \cup {"configs"}
<1>2. /\ g \subseteq {"kernels", "configs"}
      /\ g \subseteq {"configs"} \/ (g \subseteq {"kernels", "configs", "statuses"} /\ "kernels" \in g)
      /\ h \subseteq {"kernels", "configs"}
  OBVIOUS
<1> HIDE DEF g
<1>3. <<"kernels", g>> \in K.order /\ <<"statuses", g>> \in K.order  BY <1>2, ManagerPairs, ManagerFields
<1>4. /\ <<"kernels", h>> \in K.order /\ <<"configs", h>> \in K.order
      /\ <<"statuses", h>> \in K.order
  BY <1>1, <1>2, ManagerPairs, ManagerFields
<1> QED  BY <1>3, <1>4 DEF g

LEMMA ManagerDo ==
  ASSUME NEW K \in ManagerKinds, NEW d, NEW arg, NEW h,
         d \in ManagerPlain \/ (d \in Entering /\ K = ManagerK)
  PROVE  New(K, Manager!Do(d, arg), h)
<1>1. /\ d \notin K.outer /\ d \notin K.wide
      /\ d \notin {"lock", "try", "each", "end", "unlock"}
  BY ManagerFields DEF ManagerPlain, Entering
<1>2. New(K, <<[do |-> d, arg |-> arg]>>, h)  BY <1>1, NewStep
<1> QED  BY <1>2 DEF Manager!Do

LEMMA ManagerWide ==
  ASSUME NEW K \in ManagerKinds, NEW d \in {"each", "handle", "recover", "round"}, NEW arg,
         NEW h, h \subseteq {"kernels"}, d = "each" => arg \in K.loops
  PROVE  New(K, Manager!Do(d, arg), h)
<1>1. /\ d \notin K.outer /\ h \subseteq K.base
      /\ d \notin {"lock", "try", "end", "unlock"}
  BY ManagerFields DEF Entering
<1>2. New(K, <<[do |-> d, arg |-> arg]>>, h)  BY <1>1, NewWide
<1> QED  BY <1>2 DEF Manager!Do

LEMMA ManagerLocked ==
  ASSUME NEW K \in ManagerKinds, NEW m, NEW body, NEW h, <<m, h>> \in K.order, New(K, body, h \cup {m})
  PROVE  New(K, Manager!Locked(m, body), h)
<1>1. New(K, <<[do |-> "lock", m |-> m, body |-> body]>>, h)  BY ManagerKind, NewLocked
<1> QED  BY <1>1 DEF Manager!Locked

LEMMA ManagerTry ==
  ASSUME NEW K \in ManagerKinds, NEW body, NEW handler, NEW h, New(K, body, h), New(K, handler, h)
  PROVE  New(K, Manager!Try(body, handler), h)
<1>1. New(K, <<[do |-> "try", body |-> body, handler |-> handler]>>, h)  BY ManagerKind, NewTry
<1> QED  BY <1>1 DEF Manager!Try

\* getKernel may also be called with kernels_mutex_ and others held.
LEMMA ManagerGetKernel ==
  ASSUME NEW K \in ManagerKinds, NEW h, NEW n, <<"kernels", h>> \in K.order
  PROVE  New(K, Manager!GetKernel(n), h) /\ New(K, Manager!OptimizeKernel(n), h)
<1>1. New(K, Manager!GetKernel(n), h)
  <2>1. New(K, Manager!Do("find", n), h \cup {"kernels"})  BY ManagerDo DEF ManagerPlain
  <2> QED  BY <2>1, ManagerLocked DEF Manager!GetKernel
<1>2. New(K, Manager!Do("flags", n), h)  BY ManagerDo DEF ManagerPlain
<1> QED  BY <1>1, <1>2, NewJoined DEF Manager!OptimizeKernel

\* The methods that are called with kernels_mutex_ held and without it.
LEMMA ManagerMethods ==
  ASSUME NEW K \in ManagerKinds, NEW h, h \subseteq {"kernels"}, NEW n
  PROVE  /\ New(K, Manager!GetKernel(n), h)
         /\ New(K, Manager!OptimizeKernel(n), h)
         /\ New(K, Manager!SetKernelConfig(n), h)
         /\ New(K, Manager!UpdateStatus(n), h)
         /\ New(K, Manager!StartKernel(n), h)
         /\ New(K, Manager!StopKernel(n), h)
         /\ New(K, Manager!PauseKernel(n), h)
         /\ New(K, Manager!ResumeKernel(n), h)
<1>1. /\ <<"kernels", h>> \in K.order /\ <<"configs", h>> \in K.order
      /\ <<"statuses", h>> \in K.order
      /\ <<"kernels", h \cup {"configs"}>> \in K.order
      /\ <<"statuses", h \cup {"configs"}>> \in K.order
  BY ManagerOrder
<1>2. \A d \in {"config", "skip", "start", "stop", "pause", "resume"} :
        \A g : New(K, Manager!Do(d, n), g)
  BY ManagerDo DEF ManagerPlain
<1>3. New(K, Manager!Do("handle", n), h)  BY ManagerWide
<1>4. New(K, Manager!GetKernel(n), h) /\ New(K, Manager!OptimizeKernel(n), h)
  BY <1>1, ManagerGetKernel
<1>5. New(K, Manager!SetKernelConfig(n), h)
  <2>1. New(K, Manager!GetKernel(n), h \cup {"configs"})  BY <1>1, ManagerGetKernel
  <2>2. New(K, Manager!Do("config", n), h \cup {"configs"})  BY <1>2
  <2>3. New(K, Manager!Do("config", n) \o Manager!GetKernel(n), h \cup {"configs"})
    BY <2>1, <2>2, NewJoined
  <2> QED  BY <1>1, <2>3, ManagerLocked DEF Manager!SetKernelConfig
<1>6. New(K, Manager!UpdateStatus(n), h)
  <2>1. New(K, Manager!Do("skip", n), h \cup {"statuses"})  BY <1>2
  <2> QED  BY <1>1, <2>1, ManagerLocked DEF Manager!UpdateStatus
<1>8. ASSUME NEW d \in {"start", "stop", "pause", "resume"}
      PROVE  /\ New(K, Manager!Try(Manager!Do(d, n), Manager!Do("handle", n)), h)
             /\ New(K, Manager!Try(Manager!Do(d, n) \o Manager!UpdateStatus(n), Manager!Do("handle", n)), h)
  <2>1. New(K, Manager!Do(d, n), h)  BY <1>2
  <2>2. New(K, Manager!Do(d, n) \o Manager!UpdateStatus(n), h)  BY <1>6, <2>1, NewJoined
  <2> QED  BY <1>3, <2>1, <2>2, ManagerTry
<1>9. New(K, Manager!StartKernel(n), h)  BY <1>4, <1>8, NewJoined DEF Manager!StartKernel
<1>10. New(K, Manager!StopKernel(n), h)  BY <1>4, <1>8, NewJoined DEF Manager!StopKernel
<1>11. New(K, Manager!PauseKernel(n), h)  BY <1>4, <1>8, NewJoined DEF Manager!PauseKernel
<1>12. New(K, Manager!ResumeKernel(n), h)  BY <1>4, <1>8, NewJoined DEF Manager!ResumeKernel
<1> QED  BY <1>4, <1>5, <1>6, <1>9, <1>10, <1>11, <1>12

\* What a loop does with one kernel, and the body of recoverKernel.
LEMMA ManagerEach ==
  ASSUME NEW K \in ManagerKinds, NEW h, h \subseteq {"kernels"}, NEW n
  PROVE  /\ \A step \in K.loops : New(K, Manager!EachBody(step, n), h)
         /\ New(K, Manager!Restart(n), h)
<1>1. /\ New(K, Manager!OptimizeKernel(n), h) /\ New(K, Manager!GetKernel(n), h)
      /\ New(K, Manager!UpdateStatus(n), h)
      /\ New(K, Manager!StartKernel(n), h) /\ New(K, Manager!StopKernel(n), h)
  BY ManagerMethods
<1>2. \A d \in {"start", "stop", "pause", "resume", "check", "count"} : New(K, Manager!Do(d, n), h)
  BY ManagerDo DEF ManagerPlain
<1>3. New(K, Manager!Do("handle", n), h)  BY ManagerWide
<1>4. ASSUME NEW step \in K.loops PROVE New(K, Manager!EachBody(step, n), h)
  <2>1. CASE step \in {"start", "stop"}
    <3>1. New(K, Manager!Do(step, n) \o Manager!UpdateStatus(n), h)  BY <1>1, <1>2, <2>1, NewJoined
    <3>2. New(K, Manager!Try(Manager!Do(step, n) \o Manager!UpdateStatus(n), Manager!Do("handle", n)), h)
      BY <1>3, <3>1, ManagerTry
    <3> QED  BY <2>1, <3>2 DEF Manager!EachBody
  <2>2. CASE step \in {"pause", "resume"}
    <3>1. New(K, Manager!Try(Manager!Do(step, n), Manager!Do("handle", n)), h)
      BY <1>2, <1>3, <2>2, ManagerTry
    <3> QED  BY <2>2, <3>1 DEF Manager!EachBody
  <2>3. CASE step = "optimize"  BY <1>1, <2>3 DEF Manager!EachBody
  <2>4. CASE step = "check"
    <3>1. New(K, Manager!GetKernel(n) \o Manager!Do("check", n), h)  BY <1>1, <1>2, NewJoined
    <3> QED  BY <2>4, <3>1 DEF Manager!EachBody
  <2> QED  BY <2>1, <2>2, <2>3, <2>4, ManagerFields
<1>5. New(K, Manager!Restart(n), h)
  <2>1. New(K, Manager!StopKernel(n) \o Manager!StartKernel(n) \o Manager!Do("count", n), h)
    BY <1>1, <1>2, NewJoined
  <2> QED  BY <1>3, <2>1, ManagerTry DEF Manager!Restart
<1> QED  BY <1>4, <1>5

\* A round of the monitoring thread.
LEMMA ManagerMonitorRound ==
  ASSUME NEW K \in ManagerKinds, NEW h, h \subseteq {"kernels"}
  PROVE  New(K, Manager!MonitorRound, h)
<1>1. "check" \in K.loops  BY ManagerFields
<1>2. h \cup {"kernels"} \subseteq {"kernels"} /\ <<"kernels", h>> \in K.order  BY ManagerOrder
<1>3. New(K, Manager!Do("each", "check"), h \cup {"kernels"})  BY <1>1, <1>2, ManagerWide
<1>4. New(K, Manager!Do("round", 0), h)  BY ManagerWide
<1>5. New(K, Manager!Locked("kernels", Manager!Do("each", "check")), h)  BY <1>2, <1>3, ManagerLocked
<1> QED  BY <1>4, <1>5, NewJoined DEF Manager!MonitorRound

\* The public methods that register nothing, called with nothing held, and the
\* monitoring thread.
Calm(n) ==
  {Manager!SetKernelConfig(n), Manager!StartKernel(n), Manager!StopKernel(n),
   Manager!PauseKernel(n), Manager!ResumeKernel(n), Manager!Do("handle", n)}

LEMMA ManagerCalm ==
  ASSUME NEW K \in ManagerKinds, NEW n
  PROVE  /\ \A steps \in Calm(n) : New(K, steps, {})
         /\ \A step \in K.loops : New(K, Manager!All(step), {})
         /\ New(K, Manager!Destructor, {}) /\ New(K, Manager!MonitorRound, {})
<1> DEFINE h == {"kernels"}
<1>1. /\ New(K, Manager!SetKernelConfig(n), {})
      /\ New(K, Manager!StartKernel(n), {}) /\ New(K, Manager!StopKernel(n), {})
      /\ New(K, Manager!PauseKernel(n), {}) /\ New(K, Manager!ResumeKernel(n), {})
  BY ManagerMethods
<1>2. New(K, Manager!Do("handle", n), {})  BY ManagerWide
<1>3. /\ <<"kernels", {}>> \in K.order /\ {} \cup {"kernels"} = h
  BY ManagerOrder
<1>4. \A body : New(K, body, h) => New(K, Manager!Locked("kernels", body), {})
  BY <1>3, ManagerLocked
<1>5. \A d \in {"stopMonitoring", "join"} : \A arg, g :
        New(K, Manager!Do(d, arg), g)
  BY ManagerDo DEF ManagerPlain
<1>9. ASSUME NEW step \in K.loops PROVE New(K, Manager!All(step), {})
  <2>1. New(K, Manager!Do("each", step), h)  BY ManagerWide
  <2> QED  BY <1>4, <2>1 DEF Manager!All
<1>10. "stop" \in K.loops /\ "check" \in K.loops  BY ManagerFields
<1>11. New(K, Manager!Destructor, {})
  <2>1. /\ New(K, Manager!All("stop"), {}) /\ New(K, Manager!Do("stopMonitoring", 0), {})
        /\ New(K, Manager!Do("join", 0), {})
    BY <1>5, <1>9, <1>10
  <2> QED  BY <2>1, NewJoined DEF Manager!Destructor
<1>12. New(K, Manager!MonitorRound, {})  BY ManagerMonitorRound
<1> QED  BY <1>1, <1>2, <1>9, <1>11, <1>12 DEF Calm

\* registerKernel and unregisterKernel.
LEMMA ManagerPublic ==
  ASSUME NEW n
  PROVE  /\ New(ManagerK, Manager!RegisterKernel(n), {}) /\ New(ManagerK, Manager!UnregisterKernel(n), {})
         /\ \A steps \in Manager!Public(n) :
              steps \in Calm(n) \cup {Manager!RegisterKernel(n), Manager!UnregisterKernel(n)}
<1> DEFINE h == {"kernels"}
           K == ManagerK
<1>0. K \in ManagerKinds  BY DEF ManagerKinds
<1>1. /\ <<"kernels", {}>> \in K.order /\ {} \cup {"kernels"} = h
      /\ <<"kernels", h>> \in K.order /\ <<"configs", h>> \in K.order /\ <<"statuses", h>> \in K.order
      /\ <<"statuses", h \cup {"configs"}>> \in K.order
  BY <1>0, ManagerOrder
<1>2. \A d \in Entering \cup {"find"} : \A arg, g : New(K, Manager!Do(d, arg), g)
  BY <1>0, ManagerDo DEF ManagerPlain
<1>3. "insert" \in Entering /\ "newStatus" \in Entering /\ "erase" \in Entering
      /\ "eraseConfig" \in Entering /\ "eraseStatus" \in Entering
  BY DEF Entering
<1> HIDE DEF K
<1>4. \A body : New(K, body, h) => New(K, Manager!Locked("kernels", body), {})
  BY <1>0, <1>1, ManagerLocked
<1>6. New(K, Manager!InitializeKernel(n), h)
  <2>1. <<"kernels", h \cup {"statuses"}>> \in K.order
    <3>1. h \cup {"statuses"} \subseteq {"kernels", "configs", "statuses"} /\ "kernels" \in h \cup {"statuses"}
      OBVIOUS
    <3> HIDE DEF h
    <3> QED  BY <3>1, ManagerPairs DEF K
  <2>2. New(K, Manager!OptimizeKernel(n), h \cup {"statuses"})  BY <1>0, <2>1, ManagerGetKernel
  <2>3. New(K, Manager!Do("newStatus", n), h \cup {"statuses"})  BY <1>2, <1>3
  <2>4. New(K, Manager!Do("newStatus", n) \o Manager!OptimizeKernel(n), h \cup {"statuses"})
    BY <2>2, <2>3, NewJoined
  <2>5. New(K, Manager!Locked("statuses", Manager!Do("newStatus", n) \o Manager!OptimizeKernel(n)), h)
    BY <1>0, <1>1, <2>4, ManagerLocked
  <2>6. New(K, Manager!GetKernel(n), h) /\ New(K, Manager!SetKernelConfig(n), h)
    BY <1>0, ManagerMethods
  <2> QED  BY <2>5, <2>6, NewJoined DEF Manager!InitializeKernel
<1>7. New(K, Manager!CleanupKernel(n), h)
  <2> DEFINE g == h \cup {"configs"}
  <2>1. New(K, Manager!Do("eraseStatus", n), g \cup {"statuses"})  BY <1>2, <1>3
  <2>2. <<"statuses", g>> \in K.order  BY <1>1
  <2>3. New(K, Manager!Do("eraseConfig", n), g)  BY <1>2, <1>3
  <2> HIDE DEF g
  <2>4. New(K, Manager!Locked("statuses", Manager!Do("eraseStatus", n)), g)
    BY <1>0, <2>1, <2>2, ManagerLocked
  <2>5. New(K, Manager!Do("eraseConfig", n) \o Manager!Locked("statuses", Manager!Do("eraseStatus", n)), g)
    BY <2>3, <2>4, NewJoined
  <2>6. New(K, Manager!Do("eraseConfig", n) \o Manager!Locked("statuses", Manager!Do("eraseStatus", n)),
            h \cup {"configs"})
    BY <2>5 DEF g
  <2> QED  BY <1>0, <1>1, <2>6, ManagerLocked DEF Manager!CleanupKernel
<1>8. New(K, Manager!RegisterKernel(n), {})
  <2>1. New(K, Manager!Do("insert", n) \o Manager!InitializeKernel(n), h)
    BY <1>2, <1>3, <1>6, NewJoined
  <2> QED  BY <1>4, <2>1 DEF Manager!RegisterKernel
<1>9. New(K, Manager!UnregisterKernel(n), {})
  <2>1. New(K, Manager!Do("find", n), h) /\ New(K, Manager!Do("erase", n), h)
    BY <1>2, <1>3
  <2>2. New(K, Manager!Do("find", n) \o Manager!CleanupKernel(n) \o Manager!Do("erase", n), h)
    BY <1>7, <2>1, NewJoined
  <2> QED  BY <1>4, <2>2 DEF Manager!UnregisterKernel
<1> QED  BY <1>8, <1>9 DEF K, Manager!Public, Calm

\* Sequences written out, joined and begun.
LEMMA JoinIs ==
  ASSUME NEW x, NEW y, NEW z, IsSeq(x), IsSeq(y), IsSeq(z), Len(z) = Len(x) + Len(y),
         \A n \in 1..Len(x) : z[n] = x[n], \A n \in 1..Len(y) : z[Len(x) + n] = y[n]
  PROVE  x \o y = z
<1> DEFINE c == x \o y
<1>1. /\ IsSeq(c) /\ Len(c) = Len(x) + Len(y)
      /\ \A n \in 1..Len(x) : c[n] = x[n]
      /\ \A n \in 1..Len(y) : c[Len(x) + n] = y[n]
  BY Joined
<1>2. Len(x) \in Nat /\ Len(y) \in Nat  BY SeqFacts
<1> HIDE DEF c
<1>3. ASSUME NEW n \in 1..Len(c) PROVE c[n] = z[n]
  <2>1. CASE n \in 1..Len(x)  BY <1>1, <2>1
  <2>2. CASE n \notin 1..Len(x)
    <3>1. n - Len(x) \in 1..Len(y) /\ Len(x) + (n - Len(x)) = n  BY <1>1, <1>2, <2>2
    <3>2. c[Len(x) + (n - Len(x))] = y[n - Len(x)] /\ z[Len(x) + (n - Len(x))] = y[n - Len(x)]
      BY <1>1, <3>1
    <3> QED  BY <3>1, <3>2
  <2> QED  BY <2>1, <2>2
<1>4. c = z  BY <1>1, <1>3, SameSeq
<1> QED  BY <1>4 DEF c

LEMMA TupleSeqs ==
  ASSUME NEW a, NEW b, NEW c, NEW d, NEW e
  PROVE  IsSeq(<<a>>) /\ IsSeq(<<a, b>>) /\ IsSeq(<<a, b, c>>) /\ IsSeq(<<a, b, c, d>>) /\ IsSeq(<<a, b, c, d, e>>)
<1>1. <<a>> \in Seq({a})  OBVIOUS
<1>2. <<a, b>> \in Seq({a, b})  OBVIOUS
<1>3. <<a, b, c>> \in Seq({a, b, c})  OBVIOUS
<1>4. <<a, b, c, d>> \in Seq({a, b, c, d})  OBVIOUS
<1>5. <<a, b, c, d, e>> \in Seq({a, b, c, d, e})  OBVIOUS
<1> QED  BY <1>1, <1>2, <1>3, <1>4, <1>5 DEF IsSeq

LEMMA Pairs ==
  ASSUME NEW a, NEW b
  PROVE  <<a>> \o <<b>> = <<a, b>>
<1>1. <<a>> \o <<b>> = <<a, b>>
  <2> DEFINE x == <<a>>
             y == <<b>>
             z == <<a, b>>
  <2>1. IsSeq(x) /\ IsSeq(y) /\ IsSeq(z)  BY TupleSeqs
  <2>2. Len(x) = 1 /\ x[1] = a  OBVIOUS
  <2>3. Len(y) = 1 /\ y[1] = b  OBVIOUS
  <2>4. Len(z) = 2 /\ z[1] = a /\ z[2] = b  OBVIOUS
  <2> HIDE DEF x, y, z
  <2>5. Len(z) = Len(x) + Len(y)  BY <2>2, <2>3, <2>4
  <2>6. \A n \in 1..Len(x) : z[n] = x[n]  BY <2>2, <2>4
  <2>7. \A n \in 1..Len(y) : z[Len(x) + n] = y[n]  BY <2>2, <2>3, <2>4
  <2>8. x \o y = z  BY <2>1, <2>5, <2>6, <2>7, JoinIs
  <2> QED  BY <2>8 DEF x, y, z
<1> QED  BY <1>1

LEMMA Triples ==
  ASSUME NEW a, NEW b, NEW c
  PROVE  /\ <<a>> \o <<b, c>> = <<a, b, c>>
         /\ <<a, b>> \o <<c>> = <<a, b, c>>
<1>1. <<a>> \o <<b, c>> = <<a, b, c>>
  <2> DEFINE x == <<a>>
             y == <<b, c>>
             z == <<a, b, c>>
  <2>1. IsSeq(x) /\ IsSeq(y) /\ IsSeq(z)  BY TupleSeqs
  <2>2. Len(x) = 1 /\ x[1] = a  OBVIOUS
  <2>3. Len(y) = 2 /\ y[1] = b /\ y[2] = c  OBVIOUS
  <2>4. Len(z) = 3 /\ z[1] = a /\ z[2] = b /\ z[3] = c  OBVIOUS
  <2> HIDE DEF x, y, z
  <2>5. Len(z) = Len(x) + Len(y)  BY <2>2, <2>3, <2>4
  <2>6. \A n \in 1..Len(x) : z[n] = x[n]  BY <2>2, <2>4
  <2>7. \A n \in 1..Len(y) : z[Len(x) + n] = y[n]  BY <2>2, <2>3, <2>4
  <2>8. x \o y = z  BY <2>1, <2>5, <2>6, <2>7, JoinIs
  <2> QED  BY <2>8 DEF x, y, z
<1>2. <<a, b>> \o <<c>> = <<a, b, c>>
  <2> DEFINE x == <<a, b>>
             y == <<c>>
             z == <<a, b, c>>
  <2>1. IsSeq(x) /\ IsSeq(y) /\ IsSeq(z)  BY TupleSeqs
  <2>2. Len(x) = 2 /\ x[1] = a /\ x[2] = b  OBVIOUS
  <2>3. Len(y) = 1 /\ y[1] = c  OBVIOUS
  <2>4. Len(z) = 3 /\ z[1] = a /\ z[2] = b /\ z[3] = c  OBVIOUS
  <2> HIDE DEF x, y, z
  <2>5. Len(z) = Len(x) + Len(y)  BY <2>2, <2>3, <2>4
  <2>6. \A n \in 1..Len(x) : z[n] = x[n]  BY <2>2, <2>4
  <2>7. \A n \in 1..Len(y) : z[Len(x) + n] = y[n]  BY <2>2, <2>3, <2>4
  <2>8. x \o y = z  BY <2>1, <2>5, <2>6, <2>7, JoinIs
  <2> QED  BY <2>8 DEF x, y, z
<1> QED  BY <1>1, <1>2

LEMMA Fours ==
  ASSUME NEW a, NEW b, NEW c, NEW d
  PROVE  /\ <<a>> \o <<b, c, d>> = <<a, b, c, d>>
         /\ <<a, b>> \o <<c, d>> = <<a, b, c, d>>
         /\ <<a, b, c>> \o <<d>> = <<a, b, c, d>>
<1>1. <<a>> \o <<b, c, d>> = <<a, b, c, d>>
  <2> DEFINE x == <<a>>
             y == <<b, c, d>>
             z == <<a, b, c, d>>
  <2>1. IsSeq(x) /\ IsSeq(y) /\ IsSeq(z)  BY TupleSeqs
  <2>2. Len(x) = 1 /\ x[1] = a  OBVIOUS
  <2>3. Len(y) = 3 /\ y[1] = b /\ y[2] = c /\ y[3] = d  OBVIOUS
  <2>4. Len(z) = 4 /\ z[1] = a /\ z[2] = b /\ z[3] = c /\ z[4] = d  OBVIOUS
  <2> HIDE DEF x, y, z
  <2>5. Len(z) = Len(x) + Len(y)  BY <2>2, <2>3, <2>4
  <2>6. \A n \in 1..Len(x) : z[n] = x[n]  BY <2>2, <2>4
  <2>7. \A n \in 1..Len(y) : z[Len(x) + n] = y[n]  BY <2>2, <2>3, <2>4
  <2>8. x \o y = z  BY <2>1, <2>5, <2>6, <2>7, JoinIs
  <2> QED  BY <2>8 DEF x, y, z
<1>2. <<a, b>> \o <<c, d>> = <<a, b, c, d>>
  <2> DEFINE x == <<a, b>>
             y == <<c, d>>
             z == <<a, b, c, d>>
  <2>1. IsSeq(x) /\ IsSeq(y) /\ IsSeq(z)  BY TupleSeqs
  <2>2. Len(x) = 2 /\ x[1] = a /\ x[2] = b  OBVIOUS
  <2>3. Len(y) = 2 /\ y[1] = c /\ y[2] = d  OBVIOUS
  <2>4. Len(z) = 4 /\ z[1] = a /\ z[2] = b /\ z[3] = c /\ z[4] = d  OBVIOUS
  <2> HIDE DEF x, y, z
  <2>5. Len(z) = Len(x) + Len(y)  BY <2>2, <2>3, <2>4
  <2>6. \A n \in 1..Len(x) : z[n] = x[n]  BY <2>2, <2>4
  <2>7. \A n \in 1..Len(y) : z[Len(x) + n] = y[n]  BY <2>2, <2>3, <2>4
  <2>8. x \o y = z  BY <2>1, <2>5, <2>6, <2>7, JoinIs
  <2> QED  BY <2>8 DEF x, y, z
<1>3. <<a, b, c>> \o <<d>> = <<a, b, c, d>>
  <2> DEFINE x == <<a, b, c>>
             y == <<d>>
             z == <<a, b, c, d>>
  <2>1. IsSeq(x) /\ IsSeq(y) /\ IsSeq(z)  BY TupleSeqs
  <2>2. Len(x) = 3 /\ x[1] = a /\ x[2] = b /\ x[3] = c  OBVIOUS
  <2>3. Len(y) = 1 /\ y[1] = d  OBVIOUS
  <2>4. Len(z) = 4 /\ z[1] = a /\ z[2] = b /\ z[3] = c /\ z[4] = d  OBVIOUS
  <2> HIDE DEF x, y, z
  <2>5. Len(z) = Len(x) + Len(y)  BY <2>2, <2>3, <2>4
  <2>6. \A n \in 1..Len(x) : z[n] = x[n]  BY <2>2, <2>4
  <2>7. \A n \in 1..Len(y) : z[Len(x) + n] = y[n]  BY <2>2, <2>3, <2>4
  <2>8. x \o y = z  BY <2>1, <2>5, <2>6, <2>7, JoinIs
  <2> QED  BY <2>8 DEF x, y, z
<1> QED  BY <1>1, <1>2, <1>3

LEMMA TwoThree ==
  ASSUME NEW a, NEW b, NEW c, NEW d, NEW e
  PROVE  <<a, b>> \o <<c, d, e>> = <<a, b, c, d, e>>
<1> DEFINE x == <<a, b>>
           y == <<c, d, e>>
           z == <<a, b, c, d, e>>
<1>1. IsSeq(x) /\ IsSeq(y) /\ IsSeq(z)  BY TupleSeqs
<1>2. Len(x) = 2 /\ x[1] = a /\ x[2] = b  OBVIOUS
<1>3. Len(y) = 3 /\ y[1] = c /\ y[2] = d /\ y[3] = e  OBVIOUS
<1>4. Len(z) = 5 /\ z[1] = a /\ z[2] = b /\ z[3] = c /\ z[4] = d /\ z[5] = e  OBVIOUS
<1> HIDE DEF x, y, z
<1>5. Len(z) = Len(x) + Len(y)  BY <1>2, <1>3, <1>4
<1>6. \A n \in 1..Len(x) : z[n] = x[n]  BY <1>2, <1>4
<1>7. \A n \in 1..Len(y) : z[Len(x) + n] = y[n]  BY <1>2, <1>3, <1>4
<1>8. x \o y = z  BY <1>1, <1>5, <1>6, <1>7, JoinIs
<1> QED  BY <1>8 DEF x, y, z

LEMMA ThreeTwo ==
  ASSUME NEW a, NEW b, NEW c, NEW d, NEW e
  PROVE  <<a, b, c>> \o <<d, e>> = <<a, b, c, d, e>>
<1> DEFINE x == <<a, b, c>>
           y == <<d, e>>
           z == <<a, b, c, d, e>>
<1>1. IsSeq(x) /\ IsSeq(y) /\ IsSeq(z)  BY TupleSeqs
<1>2. Len(x) = 3 /\ x[1] = a /\ x[2] = b /\ x[3] = c  OBVIOUS
<1>3. Len(y) = 2 /\ y[1] = d /\ y[2] = e  OBVIOUS
<1>4. Len(z) = 5 /\ z[1] = a /\ z[2] = b /\ z[3] = c /\ z[4] = d /\ z[5] = e  OBVIOUS
<1> HIDE DEF x, y, z
<1>5. Len(z) = Len(x) + Len(y)  BY <1>2, <1>3, <1>4
<1>6. \A n \in 1..Len(x) : z[n] = x[n]  BY <1>2, <1>4
<1>7. \A n \in 1..Len(y) : z[Len(x) + n] = y[n]  BY <1>2, <1>3, <1>4
<1>8. x \o y = z  BY <1>1, <1>5, <1>6, <1>7, JoinIs
<1> QED  BY <1>8 DEF x, y, z

LEMMA FourOne ==
  ASSUME NEW a, NEW b, NEW c, NEW d, NEW e
  PROVE  <<a, b, c, d>> \o <<e>> = <<a, b, c, d, e>>
<1> DEFINE x == <<a, b, c, d>>
           y == <<e>>
           z == <<a, b, c, d, e>>
<1>1. IsSeq(x) /\ IsSeq(y) /\ IsSeq(z)  BY TupleSeqs
<1>2. Len(x) = 4 /\ x[1] = a /\ x[2] = b /\ x[3] = c /\ x[4] = d  OBVIOUS
<1>3. Len(y) = 1 /\ y[1] = e  OBVIOUS
<1>4. Len(z) = 5 /\ z[1] = a /\ z[2] = b /\ z[3] = c /\ z[4] = d /\ z[5] = e  OBVIOUS
<1> HIDE DEF x, y, z
<1>5. Len(z) = Len(x) + Len(y)  BY <1>2, <1>3, <1>4
<1>6. \A n \in 1..Len(x) : z[n] = x[n]  BY <1>2, <1>4
<1>7. \A n \in 1..Len(y) : z[Len(x) + n] = y[n]  BY <1>2, <1>3, <1>4
<1>8. x \o y = z  BY <1>1, <1>5, <1>6, <1>7, JoinIs
<1> QED  BY <1>8 DEF x, y, z

\* The empty sequence at one end of a sequence that is written out.
LEMMA EmptyEnds ==
  ASSUME NEW s, IsSeq(s)
  PROVE  <<>> \o s = s /\ s \o <<>> = s
<1>1. PICK S : s \in Seq(S)  BY DEF IsSeq
<1> QED  BY <1>1, ConcatEmptySeq

LEMMA TupleStarts ==
  /\ <<>> \o <<>> = <<>>
  /\ \A a : <<>> \o <<a>> = <<a>>
  /\ \A a, b : <<>> \o <<a, b>> = <<a, b>>
  /\ \A a, b, c : <<>> \o <<a, b, c>> = <<a, b, c>>
  /\ \A a, b, c, d : <<>> \o <<a, b, c, d>> = <<a, b, c, d>>
<1>1. <<>> \o <<>> = <<>>  BY NoItem, EmptyEnds
<1>2. ASSUME NEW a, NEW b, NEW c, NEW d
      PROVE  /\ <<>> \o <<a>> = <<a>> /\ <<>> \o <<a, b>> = <<a, b>>
             /\ <<>> \o <<a, b, c>> = <<a, b, c>> /\ <<>> \o <<a, b, c, d>> = <<a, b, c, d>>
  <2> DEFINE p == <<a>>
             q == <<a, b>>
             r == <<a, b, c>>
             s == <<a, b, c, d>>
  <2>1. IsSeq(p) /\ IsSeq(q) /\ IsSeq(r) /\ IsSeq(s)
    BY TupleSeqs
  <2> HIDE DEF p, q, r, s
  <2>2. <<>> \o p = p /\ <<>> \o q = q /\ <<>> \o r = r /\ <<>> \o s = s  BY <2>1, EmptyEnds
  <2> QED  BY <2>2 DEF p, q, r, s
<1> QED  BY <1>1, <1>2

LEMMA TupleEnds ==
  /\ \A a, b, c, d : <<a, b, c, d>> \o <<>> = <<a, b, c, d>>
  /\ \A a, b, c, d, e : <<a, b, c, d, e>> \o <<>> = <<a, b, c, d, e>>
<1>1. ASSUME NEW a, NEW b, NEW c, NEW d, NEW e
      PROVE  <<a, b, c, d>> \o <<>> = <<a, b, c, d>> /\ <<a, b, c, d, e>> \o <<>> = <<a, b, c, d, e>>
  <2> DEFINE r == <<a, b, c, d>>
             s == <<a, b, c, d, e>>
  <2>1. IsSeq(r) /\ IsSeq(s)  BY TupleSeqs
  <2> HIDE DEF r, s
  <2>2. r \o <<>> = r /\ s \o <<>> = s  BY <2>1, EmptyEnds
  <2> QED  BY <2>2 DEF r, s
<1> QED  BY <1>1

-----------------------------------------------------------------------------
(* The steps of KernelManager's threads.                                     *)

ManagerRuns == Calls(ManagerK, ManagerThreads, holder, depth, todo) /\ IsFiniteSet(kernels)

\* A step of a thread that is in a method.
ManagerStep(t) ==
  \/ Manager!LockStep(t) /\ UNCHANGED <<Manager!managed, calls, faults>>
  \/ Manager!Find(t) \/ Manager!Skip(t) \/ Manager!Erase(t)
  \/ Manager!SetStatus(t) \/ Manager!KernelCall(t) \/ Manager!Each(t) \/ Manager!Check(t)
  \/ Manager!Handle(t) \/ Manager!Recover(t) \/ Manager!Count(t) \/ Manager!Store(t)
  \/ Manager!Round(t) \/ Manager!StopMonitoring(t)

\* What the steps of a thread of T are read from: all threads as ManagerK has
\* them, or one that registers nothing as TameK has it.
ManagerSide(K, T) ==
  K \in ManagerKinds /\ Free \notin T /\ Calls(K, T, holder, depth, todo) /\ IsFiniteSet(kernels)

\* A thread at one of these steps: it is busy and no mutex is unlocked.
LEMMA ManagerBusy ==
  ASSUME NEW K \in ManagerKinds, NEW T, ManagerSide(K, T), NEW t \in T,
         NEW step, Manager!At(t, step)
  PROVE  Busy(K, T, t) /\ Head(todo[t]).do = step /\ ~dead
BY ManagerKind DEF Manager!At, Busy, ManagerSide

LEMMA ManagerProceed ==
  ASSUME NEW K \in ManagerKinds, NEW T, NEW t, Busy(K, T, t), Head(todo[t]).do # "unlock",
         NEW b, New(K, b, Held(Tail(todo[t]))), Manager!Proceed(t, b)
  PROVE  Goes(K, T, t)
<1>1. todo' = [todo EXCEPT ![t] = b \o Tail(@)] /\ UNCHANGED <<holder, depth>>
  BY DEF Manager!Proceed, Manager!Becomes
<1> QED  BY <1>1, ReplacedGoes

LEMMA ManagerDone ==
  ASSUME NEW K \in ManagerKinds, NEW T, NEW t, Busy(K, T, t), Head(todo[t]).do # "unlock", Manager!Done(t)
  PROVE  Goes(K, T, t)
BY NewEmpty, ManagerProceed DEF Manager!Done

LEMMA ManagerThrow ==
  ASSUME NEW K \in ManagerKinds, NEW T, NEW t, Busy(K, T, t), Manager!Throw(t)
  PROVE  Goes(K, T, t)
<1>1. K.mutexes = {"kernels", "configs", "statuses"}  BY ManagerFields
<1>2. Throws(T, {Monitor}, K.mutexes, t)
  <2> QED  BY <1>1 DEF Manager!Throw, Manager!Min, Manager!EndProcess, Throws, Manager!Cardinality, Cardinality
<1> QED  BY <1>2, ThrowGoes

LEMMA ManagerLockStep ==
  ASSUME NEW K \in ManagerKinds, NEW T, ManagerSide(K, T), NEW t \in T, Manager!LockStep(t)
  PROVE  Goes(K, T, t)
<1>1. CASE Manager!Acquire(t)
  <2>1. Busy(K, T, t) /\ Head(todo[t]).do = "lock" /\ ~dead
    BY <1>1, ManagerBusy DEF Manager!Acquire
  <2> DEFINE m == Head(todo[t]).m
  <2>2. /\ holder[m] = Free \/ holder[m] = t
        /\ holder' = [holder EXCEPT ![m] = t] /\ depth' = [depth EXCEPT ![m] = @ + 1]
        /\ todo' = [todo EXCEPT ![t] = (Head(todo[t]).body \o <<[do |-> "unlock", m |-> m]>>) \o Tail(@)]
    BY <1>1 DEF Manager!Acquire, Manager!Now, Manager!Becomes
  <2>3. Goes(K, T, t)  BY <2>1, <2>2, AcquireGoes
  <2> QED  BY <2>3
<1>2. CASE Manager!RelockThrows(t)
  <2>1. Busy(K, T, t) /\ Head(todo[t]).do = "lock" /\ ~dead
    BY <1>2, ManagerBusy DEF Manager!RelockThrows
  <2>2. Goes(K, T, t)  BY <1>2, <2>1, ManagerThrow DEF Manager!RelockThrows
  <2> QED  BY <2>2
<1>3. CASE Manager!Release(t)
  <2>1. Busy(K, T, t) /\ Head(todo[t]).do = "unlock" /\ ~dead
    BY <1>3, ManagerBusy DEF Manager!Release
  <2> DEFINE m == Head(todo[t]).m
  <2>2. /\ holder' = [holder EXCEPT ![m] = IF depth[m] = 1 THEN Free ELSE @]
        /\ depth' = [depth EXCEPT ![m] = @ - 1]
        /\ todo' = [todo EXCEPT ![t] = <<>> \o Tail(@)]
    BY <1>3 DEF Manager!Release, Manager!Now, Manager!Advance, Manager!Becomes
  <2>3. Goes(K, T, t)  BY <2>1, <2>2, ReleaseGoes
  <2> QED  BY <2>3
<1>4. CASE Manager!EnterTry(t)
  <2>1. Busy(K, T, t) /\ Head(todo[t]).do = "try" /\ ~dead
    BY <1>4, ManagerBusy DEF Manager!EnterTry
  <2>2. /\ UNCHANGED <<holder, depth>>
        /\ todo' = [todo EXCEPT ![t] =
             (Head(todo[t]).body \o <<[do |-> "end", handler |-> Head(todo[t]).handler]>>) \o Tail(@)]
    BY <1>4 DEF Manager!EnterTry, Manager!Now, Manager!Proceed, Manager!Becomes
  <2>3. Goes(K, T, t)  BY <2>1, <2>2, EnterGoes
  <2> QED  BY <2>3
<1>5. CASE Manager!LeaveTry(t)
  <2>1. Busy(K, T, t) /\ Head(todo[t]).do = "end" /\ ~dead
    BY <1>5, ManagerBusy DEF Manager!LeaveTry
  <2>2. Goes(K, T, t)  BY <1>5, <2>1, ManagerDone DEF Manager!LeaveTry
  <2> QED  BY <2>2
<1> QED  BY <1>1, <1>2, <1>3, <1>4, <1>5 DEF Manager!LockStep

LEMMA ManagerDoneAt ==
  ASSUME NEW K \in ManagerKinds, NEW T, ManagerSide(K, T), NEW t \in T,
         NEW step, Manager!At(t, step), step # "unlock",
         Manager!Done(t) \/ Manager!Throw(t)
  PROVE  Goes(K, T, t)
<1>1. Busy(K, T, t) /\ Head(todo[t]).do = step /\ ~dead  BY ManagerBusy
<1>2. Goes(K, T, t)  BY <1>1, ManagerDone, ManagerThrow
<1> QED  BY <1>2

LEMMA ManagerProceedAt ==
  ASSUME NEW K \in ManagerKinds, NEW T, ManagerSide(K, T), NEW t \in T,
         NEW step, Manager!At(t, step), step # "unlock",
         NEW b, New(K, b, Held(Tail(todo[t]))), Manager!Proceed(t, b)
  PROVE  Goes(K, T, t)
<1>1. Busy(K, T, t) /\ Head(todo[t]).do = step /\ ~dead  BY ManagerBusy
<1>2. Goes(K, T, t)  BY <1>1, ManagerProceed
<1> QED  BY <1>2

\* At a step that unfolds into locks no more than kernels_mutex_ is held.
LEMMA ManagerAtWide ==
  ASSUME NEW K \in ManagerKinds, NEW T, ManagerSide(K, T), NEW t \in T,
         NEW step \in {"each", "handle", "recover", "round"}, Manager!At(t, step)
  PROVE  /\ Held(Tail(todo[t])) \subseteq {"kernels"}
         /\ step = "each" => Head(todo[t]).arg \in K.loops
<1>1. Busy(K, T, t) /\ Head(todo[t]).do = step  BY ManagerBusy
<1>2. LocalNew(K, Head(todo[t]), Held(Tail(todo[t])))  BY <1>1, BusyFirst
<1>3. K.wide = {"each", "handle", "recover", "round"} /\ K.base = {"kernels"}  BY ManagerFields
<1> QED  BY <1>1, <1>2, <1>3 DEF LocalNew

LEMMA ManagerEachStep ==
  ASSUME NEW K \in ManagerKinds, NEW T, ManagerSide(K, T), NEW t \in T, Manager!Each(t)
  PROVE  Goes(K, T, t)
<1> DEFINE N == Cardinality(kernels)
           seqs == [i \in 1..N |-> Manager!EachBody(Head(todo[t]).arg, Manager!SetToSeq(kernels)[i])]
           h == Held(Tail(todo[t]))
<1>1. Manager!At(t, "each")  BY DEF Manager!Each
<1>2. h \subseteq {"kernels"} /\ Head(todo[t]).arg \in K.loops  BY <1>1, ManagerAtWide
<1>3. N \in Nat  BY FS_CardinalityType DEF ManagerSide
<1>4. Manager!Proceed(t, Flatten(seqs))
  <2>1. N = Manager!Cardinality(kernels)  BY DEF Manager!Cardinality, Cardinality
  <2> HIDE DEF N
  <2>2. Manager!Proceed(t, Manager!FlattenSeq(seqs))  BY <2>1 DEF Manager!Each, Manager!Now
  <2>3. Manager!FlattenSeq(seqs) = Flatten(seqs)  BY DEF Manager!FlattenSeq, Flatten
  <2> QED  BY <2>2, <2>3
<1> HIDE DEF N
<1>5. \A i \in 1..N : New(K, seqs[i], h)  BY <1>2, ManagerEach
<1>6. Len(seqs) = N /\ (N = 0 => seqs = <<>>)
  <2>1. \E S : seqs \in Seq(S)
    <3> DEFINE S == {seqs[i] : i \in 1..N}
    <3>1. seqs \in [1..N -> S]  OBVIOUS
    <3> HIDE DEF seqs, S
    <3>2. seqs \in Seq(S)  BY <1>3, <3>1, SeqDef
    <3> QED  BY <3>2
  <2>2. DOMAIN seqs = 1..N  OBVIOUS
  <2> HIDE DEF seqs
  <2>3. Len(seqs) = N  BY <1>3, <2>1, <2>2, LenProperties
  <2> QED  BY <2>1, <2>3, SeqFacts DEF IsSeq
<1> HIDE DEF seqs, h
<1>7. New(K, Flatten(seqs), h)  BY <1>3, <1>5, <1>6, NewLoop
<1> QED  BY <1>1, <1>4, <1>7, ManagerProceedAt DEF h

LEMMA ManagerStepKeeps ==
  ASSUME NEW K \in ManagerKinds, NEW T, ManagerSide(K, T), NEW t \in T, ManagerStep(t)
  PROVE  Goes(K, T, t)
<1>1. CASE Manager!LockStep(t)  BY <1>1, ManagerLockStep
<1>2. CASE Manager!Find(t)
  <2>1. PICK step \in {"find", "insert"} : Manager!At(t, step)  BY <1>2 DEF Manager!Find
  <2>2. Manager!Done(t) \/ Manager!Throw(t)  BY <1>2 DEF Manager!Find
  <2> QED  BY <2>1, <2>2, ManagerDoneAt
<1>3. CASE Manager!Skip(t)
  <2>1. Manager!At(t, "skip") /\ Manager!Done(t)  BY <1>3 DEF Manager!Skip
  <2> QED  BY <2>1, ManagerDoneAt
<1>4. CASE Manager!Erase(t)
  <2>1. PICK step \in {"erase", "eraseConfig", "config"} : Manager!At(t, step)  BY <1>4 DEF Manager!Erase
  <2>2. Manager!Done(t)  BY <1>4 DEF Manager!Erase
  <2> QED  BY <2>1, <2>2, ManagerDoneAt
<1>5. CASE Manager!SetStatus(t)
  <2>1. PICK step \in {"newStatus", "eraseStatus"} : Manager!At(t, step)  BY <1>5 DEF Manager!SetStatus
  <2>2. Manager!Done(t)  BY <1>5 DEF Manager!SetStatus
  <2> QED  BY <2>1, <2>2, ManagerDoneAt
<1>6. CASE Manager!KernelCall(t)
  <2>1. PICK step \in {"start", "stop", "pause", "resume", "flags"} : Manager!At(t, step)
    BY <1>6 DEF Manager!KernelCall
  <2>2. Manager!Done(t) \/ Manager!Throw(t)  BY <1>6 DEF Manager!KernelCall
  <2> QED  BY <2>1, <2>2, ManagerDoneAt
<1>7. CASE Manager!Each(t)  BY <1>7, ManagerEachStep
<1>8. CASE Manager!Check(t)
  <2>1. Manager!At(t, "check") /\ Manager!Done(t)  BY <1>8 DEF Manager!Check
  <2> QED  BY <2>1, ManagerDoneAt
<1>9. CASE Manager!Handle(t)
  <2>1. Manager!At(t, "handle")  BY <1>9 DEF Manager!Handle
  <2>2. Held(Tail(todo[t])) \subseteq {"kernels"}  BY <2>1, ManagerAtWide
  <2>3. PICK b : Manager!Proceed(t, b) /\ (b = <<>> \/ \E n : b = Manager!Do("recover", n))
    BY <1>9 DEF Manager!Handle
  <2>4. New(K, b, Held(Tail(todo[t])))  BY <2>2, <2>3, NewEmpty, ManagerWide
  <2> QED  BY <2>1, <2>3, <2>4, ManagerProceedAt
<1>10. CASE Manager!Recover(t)
  <2>1. Manager!At(t, "recover")  BY <1>10 DEF Manager!Recover
  <2>2. Held(Tail(todo[t])) \subseteq {"kernels"}  BY <2>1, ManagerAtWide
  <2>3. \/ \E b : Manager!Proceed(t, b) /\ \E n : b = Manager!Restart(n) \/ b = Manager!Do("handle", n)
        \/ dead'
    BY <1>10 DEF Manager!Recover, Manager!EndProcess
  <2>4. ASSUME NEW b, Manager!Proceed(t, b), \E n : b = Manager!Restart(n) \/ b = Manager!Do("handle", n)
        PROVE  Goes(K, T, t)
    <3>1. New(K, b, Held(Tail(todo[t])))  BY <2>2, <2>4, ManagerEach, ManagerWide
    <3> QED  BY <2>1, <2>4, <3>1, ManagerProceedAt
  <2> QED  BY <2>3, <2>4 DEF Goes
<1>11. CASE Manager!Count(t)
  <2>1. Manager!At(t, "count")  BY <1>11 DEF Manager!Count
  <2>2. PICK i : i.do = "store" /\ Manager!Proceed(t, <<i>>)  BY <1>11 DEF Manager!Count
  <2>3. i.do \notin K.outer /\ LocalNew(K, i, Held(Tail(todo[t])))
    BY <2>2, ManagerFields DEF LocalNew, Entering
  <2>4. New(K, <<i>>, Held(Tail(todo[t])))  BY <2>3, NewOne
  <2> QED  BY <2>1, <2>2, <2>4, ManagerProceedAt
<1>12. CASE Manager!Store(t)
  <2>1. Manager!At(t, "store") /\ Manager!Done(t)  BY <1>12 DEF Manager!Store
  <2> QED  BY <2>1, ManagerDoneAt
<1>13. CASE Manager!Round(t)
  <2>1. Manager!At(t, "round")  BY <1>13 DEF Manager!Round
  <2>2. PICK b : Manager!Proceed(t, b) /\ (b = <<>> \/ b = Manager!MonitorRound)
    BY <1>13 DEF Manager!Round
  <2>3. New(K, b, Held(Tail(todo[t])))
    <3>1. Held(Tail(todo[t])) \subseteq {"kernels"}  BY <2>1, ManagerAtWide
    <3>2. New(K, Manager!MonitorRound, Held(Tail(todo[t])))  BY <3>1, ManagerMonitorRound
    <3> QED  BY <2>2, <3>2, NewEmpty
  <2> QED  BY <2>1, <2>2, <2>3, ManagerProceedAt
<1>14. CASE Manager!StopMonitoring(t)
  <2>1. PICK step \in {"stopMonitoring", "join"} : Manager!At(t, step)  BY <1>14 DEF Manager!StopMonitoring
  <2>2. Manager!Done(t)  BY <1>14 DEF Manager!StopMonitoring
  <2> QED  BY <2>1, <2>2, ManagerDoneAt
<1> QED
  BY <1>1, <1>2, <1>3, <1>4, <1>5, <1>6, <1>7, <1>8, <1>9, <1>10, <1>11, <1>12, <1>13, <1>14 DEF ManagerStep

LEMMA ManagerKernels ==
  ASSUME IsFiniteSet(kernels), NEW t, Manager!Invoke(t) \/ ManagerStep(t)
  PROVE  IsFiniteSet(kernels')
<1>1. kernels' \subseteq kernels \cup {Head(todo[t]).arg}
  <2>1. CASE Manager!Invoke(t)  BY <2>1 DEF Manager!Invoke, Manager!managed
  <2>2. CASE Manager!Find(t)  BY <2>2 DEF Manager!Find, Manager!Now
  <2>3. CASE Manager!Erase(t)  BY <2>3 DEF Manager!Erase
  <2>4. CASE Manager!LockStep(t) /\ UNCHANGED <<Manager!managed, calls, faults>>
    BY <2>4 DEF Manager!managed
  <2>5. CASE Manager!SetStatus(t) \/ Manager!KernelCall(t) \/ Manager!Check(t) \/ Manager!Recover(t)
             \/ Manager!Store(t) \/ Manager!StopMonitoring(t)
    BY <2>5 DEF Manager!SetStatus, Manager!KernelCall, Manager!Check, Manager!Recover,
                Manager!Store, Manager!StopMonitoring
  <2>6. CASE Manager!Skip(t) \/ Manager!Each(t) \/ Manager!Handle(t) \/ Manager!Count(t) \/ Manager!Round(t)
    BY <2>6 DEF Manager!Skip, Manager!Each, Manager!Handle, Manager!Count, Manager!Round, Manager!managed
  <2> QED  BY <2>1, <2>2, <2>3, <2>4, <2>5, <2>6 DEF ManagerStep
<1>2. IsFiniteSet(kernels \cup {Head(todo[t]).arg})  BY FS_AddElement
<1> QED  BY <1>1, <1>2, FS_Subset

LEMMA ManagerAlive ==
  ASSUME NEW t, Manager!Invoke(t) \/ ManagerStep(t)
  PROVE  ~dead
<1>1. CASE Manager!Invoke(t)  BY <1>1 DEF Manager!Invoke, Manager!Call, Manager!Idle
<1>2. CASE Manager!LockStep(t)
  BY <1>2 DEF Manager!LockStep, Manager!Acquire, Manager!RelockThrows, Manager!Release, Manager!EnterTry,
              Manager!LeaveTry, Manager!At
<1>3. CASE Manager!Find(t) \/ Manager!Erase(t) \/ Manager!SetStatus(t) \/ Manager!KernelCall(t)
           \/ Manager!Check(t) \/ Manager!Recover(t) \/ Manager!Store(t) \/ Manager!StopMonitoring(t)
  BY <1>3 DEF Manager!Find, Manager!Erase, Manager!SetStatus, Manager!KernelCall, Manager!Check,
              Manager!Recover, Manager!Store, Manager!StopMonitoring, Manager!At
<1>4. CASE Manager!Skip(t) \/ Manager!Each(t) \/ Manager!Handle(t) \/ Manager!Count(t) \/ Manager!Round(t)
  BY <1>4 DEF Manager!Skip, Manager!Each, Manager!Handle, Manager!Count, Manager!Round, Manager!At
<1> QED  BY <1>1, <1>2, <1>3, <1>4 DEF ManagerStep

-----------------------------------------------------------------------------
(* The invariant of KernelManager, and that every step keeps it.            *)

ManagerInv == dead \/ ManagerRuns

LEMMA ManagerThreadFacts ==
  Free \notin ManagerThreads /\ Monitor \in ManagerThreads /\ Clients \subseteq ManagerThreads
BY ThreadsAssumption DEF ManagerThreads

ManagerKeeps == dead' \/ Calls(ManagerK, ManagerThreads, holder', depth', todo')

LEMMA ManagerKIsOne == ManagerK \in ManagerKinds /\ TameK \in ManagerKinds
BY DEF ManagerKinds

LEMMA ManagerInvoke ==
  ASSUME ManagerRuns, NEW t, Manager!Invoke(t)
  PROVE  ManagerKeeps
<1>1. t \in Clients /\ t \in ManagerThreads  BY ManagerThreadFacts DEF Manager!Invoke
<1>2. PICK steps : Manager!Call(t, steps) /\ New(ManagerK, steps, {})
  <2>1. CASE \E n \in Names : \E steps \in Manager!Public(n) : Manager!Call(t, steps)
    <3>1. PICK n \in Names : \E steps \in Manager!Public(n) : Manager!Call(t, steps)  BY <2>1
    <3>2. PICK steps \in Manager!Public(n) : Manager!Call(t, steps)  BY <3>1
    <3>3. New(ManagerK, steps, {})  BY ManagerPublic, ManagerCalm, ManagerKIsOne
    <3> QED  BY <3>2, <3>3
  <2>2. CASE \E step \in {"start", "stop", "pause", "resume", "optimize"} : Manager!Call(t, Manager!All(step))
    <3>1. \A step \in {"start", "stop", "pause", "resume", "optimize"} : step \in ManagerK.loops
      BY DEF ManagerK
    <3> QED  BY <2>2, <3>1, ManagerCalm, ManagerKIsOne
  <2>3. CASE Manager!Call(t, Manager!Destructor)  BY <2>3, ManagerCalm, ManagerKIsOne
  <2>4. CASE \A u \in Clients : Manager!Idle(u) /\ Manager!Call(t, Manager!Destructor)
    BY <1>1, <2>3, <2>4
  <2> QED  BY <2>1, <2>2, <2>4 DEF Manager!Invoke
<1>3. Loose(ManagerK, steps)  BY <1>2, ManagerKind, ManagerKIsOne, LooseNew
<1>4. todo[t] = <<>> /\ todo' = [todo EXCEPT ![t] = steps] /\ UNCHANGED <<holder, depth>>
  BY <1>2 DEF Manager!Call, Manager!Idle
<1>5. Calls(ManagerK, ManagerThreads, holder, depth, todo')
  BY <1>1, <1>3, <1>4, ManagerKind, ManagerKIsOne, ManagerThreadFacts, CallsAgain DEF ManagerRuns
<1> QED  BY <1>4, <1>5 DEF ManagerKeeps

LEMMA ManagerNextInv ==
  ASSUME ManagerInv, Manager!Next
  PROVE  ManagerInv'
<1>1. CASE Manager!SetAutoRecovery
  BY <1>1 DEF Manager!SetAutoRecovery, Manager!callVars, ManagerInv, ManagerRuns
<1>2. CASE ~Manager!SetAutoRecovery
  <2>1. PICK t \in ManagerThreads : Manager!Invoke(t) \/ ManagerStep(t)
    BY <1>2 DEF Manager!Next, ManagerThreads, ManagerStep
  <2>2. IsFiniteSet(kernels) \/ dead  BY DEF ManagerInv, ManagerRuns
  <2>3. ASSUME IsFiniteSet(kernels) PROVE IsFiniteSet(kernels')  BY <2>1, <2>3, ManagerKernels
  <2>4. ~dead  BY <2>1, ManagerAlive
  <2>5. ManagerRuns /\ IsFiniteSet(kernels')  BY <2>2, <2>3, <2>4 DEF ManagerInv
  <2>6. ManagerKeeps
    <3>1. CASE Manager!Invoke(t)  BY <2>5, <3>1, ManagerInvoke
    <3>2. CASE ManagerStep(t)
      <4>1. ManagerSide(ManagerK, ManagerThreads)
        BY <2>5, ManagerKIsOne, ManagerThreadFacts DEF ManagerSide, ManagerRuns
      <4>2. Goes(ManagerK, ManagerThreads, t)  BY <3>2, <4>1, ManagerKIsOne, ManagerStepKeeps
      <4> QED  BY <4>2 DEF ManagerKeeps, Goes
    <3> QED  BY <2>1, <3>1, <3>2
  <2> QED  BY <2>5, <2>6 DEF ManagerInv, ManagerRuns, ManagerKeeps
<1> QED  BY <1>1, <1>2

LEMMA ManagerInitInv ==
  ASSUME Manager!Init
  PROVE  ManagerInv
<1>1. /\ holder = [m \in ManagerK.mutexes |-> Free] /\ depth = [m \in ManagerK.mutexes |-> 0]
      /\ todo = [t \in ManagerThreads |-> IF t = Monitor THEN Manager!Do("round", 0) ELSE <<>>]
      /\ kernels = {}
  BY DEF Manager!Init, Manager!CallsInit, ManagerK, ManagerThreads
<1>2. Loose(ManagerK, Manager!Do("round", 0))
  <2>1. New(ManagerK, Manager!Do("round", 0), {})  BY ManagerWide, ManagerKIsOne
  <2> QED  BY <2>1, ManagerKind, ManagerKIsOne, LooseNew
<1>3. \A t \in ManagerThreads : Loose(ManagerK, todo[t])  BY <1>1, <1>2, LooseEmpty
<1>4. todo = [t \in ManagerThreads |-> todo[t]] /\ ManagerThreads = ManagerK.threads  BY <1>1 DEF ManagerK
<1>5. Calls(ManagerK, ManagerThreads, holder, depth, todo)
  <2> HIDE DEF ManagerK
  <2> QED  BY <1>1, <1>3, <1>4, CallsBegin, ManagerThreadFacts
<1>6. IsFiniteSet(kernels)  BY <1>1, FS_EmptySet
<1> QED  BY <1>5, <1>6 DEF ManagerInv, ManagerRuns

\* The mutexes of a KernelManager are taken in one order, but for a thread that
\* has the configurations and asks for the kernels.
LEMMA ManagerCycle ==
  ASSUME ManagerInv
  PROVE  Manager!OnlyConfigCycle
<1> SUFFICES ASSUME NEW S \in SUBSET ManagerThreads, Manager!Entangled(S),
                    \A t \in S : ~(holder["configs"] = t /\ Manager!Wants(t) = {"kernels"})
             PROVE  FALSE
  BY DEF Manager!OnlyConfigCycle, ManagerThreads
<1> DEFINE want(t) == Head(todo[t]).m
<1>1. S # {} /\ \A t \in S : Manager!At(t, "lock") /\ holder[want(t)] \in S \ {t}
  BY DEF Manager!Entangled, Manager!Wants, Manager!Now
<1>2. \A t \in S : holder["configs"] = t => want(t) # "kernels"
  BY <1>1 DEF Manager!Wants, Manager!Now
<1>3. ManagerRuns
  <2>1. ~dead  BY <1>1 DEF Manager!At
  <2> QED  BY <2>1 DEF ManagerInv
<1>4. ASSUME NEW t \in S
      PROVE  \E h : /\ <<want(t), h>> \in ManagerK.order
                    /\ \A l \in ManagerK.mutexes : holder[l] = t <=> l \in h
  <2>1. Manager!At(t, "lock") /\ t \in ManagerThreads  BY <1>1
  <2>2. Busy(ManagerK, ManagerThreads, t) /\ Head(todo[t]).do = "lock"
    <3>1. ManagerSide(ManagerK, ManagerThreads)
      BY <1>3, ManagerKIsOne, ManagerThreadFacts DEF ManagerSide, ManagerRuns
    <3> QED  BY <2>1, <3>1, ManagerKIsOne, ManagerBusy
  <2> QED  BY <2>2, WantsHeld
<1>5. ASSUME NEW t \in S
      PROVE  /\ want(t) \in {"kernels", "configs", "statuses"}
             /\ holder["statuses"] = t => (want(t) = "kernels" /\ holder["kernels"] = t)
             /\ holder["configs"] = t => want(t) # "configs"
  <2>1. PICK h : /\ <<want(t), h>> \in ManagerK.order
                 /\ \A l \in ManagerK.mutexes : holder[l] = t <=> l \in h
    BY <1>4
  <2> HIDE DEF want
  <2>2. /\ want(t) \in {"kernels", "configs", "statuses"}
        /\ "statuses" \in h => (want(t) = "kernels" /\ "kernels" \in h)
        /\ "configs" \in h => want(t) # "configs"
    BY <2>1 DEF ManagerK
  <2>3. \A l \in {"kernels", "configs", "statuses"} : holder[l] = t <=> l \in h
    BY <2>1 DEF ManagerK
  <2> QED  BY <2>2, <2>3
<1> HIDE DEF want
<1>6. \A t \in S : want(t) # "statuses"
  <2>1. ASSUME NEW t \in S, want(t) = "statuses" PROVE FALSE
    <3>1. PICK u \in S : holder["statuses"] = u  BY <1>1, <2>1
    <3>2. want(u) = "kernels" /\ holder["kernels"] = u  BY <1>5, <3>1
    <3> QED  BY <1>1, <3>2
  <2> QED  BY <2>1
<1>7. \A t \in S : want(t) # "configs"
  <2>1. ASSUME NEW t \in S, want(t) = "configs" PROVE FALSE
    <3>1. PICK u \in S : holder["configs"] = u  BY <1>1, <2>1
    <3> QED  BY <1>2, <1>5, <1>6, <3>1
  <2> QED  BY <2>1
<1>8. \A t \in S : want(t) = "kernels"  BY <1>5, <1>6, <1>7
<1>9. PICK t \in S : TRUE  BY <1>1
<1>10. holder["kernels"] \in S  BY <1>1, <1>8, <1>9
<1>11. holder[want(holder["kernels"])] # holder["kernels"]  BY <1>1, <1>10
<1> QED  BY <1>8, <1>10, <1>11

-----------------------------------------------------------------------------
(* The paths through registerKernel and unregisterKernel: what a thread     *)
(* still has to do, item by item.                                           *)

Item(step, n) == [do |-> step, arg |-> n]
LockItem(m, body) == [do |-> "lock", m |-> m, body |-> body]
UnlockItem(m) == [do |-> "unlock", m |-> m]

LookItem(n) == LockItem("kernels", <<Item("find", n)>>)
ConfigItem(n) == LockItem("configs", <<Item("config", n), LookItem(n)>>)
StatusItem(n) == LockItem("statuses", <<Item("newStatus", n), LookItem(n), Item("flags", n)>>)
WipeItem(n) == LockItem("statuses", <<Item("eraseStatus", n)>>)
CleanItem(n) == LockItem("configs", <<Item("eraseConfig", n), WipeItem(n)>>)

Path(k, n) ==
  CASE k = 1 -> <<LockItem("kernels", <<Item("insert", n), LookItem(n), ConfigItem(n), StatusItem(n)>>)>>
    [] k = 2 -> <<Item("insert", n), LookItem(n), ConfigItem(n), StatusItem(n), UnlockItem("kernels")>>
    [] k = 3 -> <<LookItem(n), ConfigItem(n), StatusItem(n), UnlockItem("kernels")>>
    [] k = 4 -> <<Item("find", n), UnlockItem("kernels"), ConfigItem(n), StatusItem(n), UnlockItem("kernels")>>
    [] k = 5 -> <<UnlockItem("kernels"), ConfigItem(n), StatusItem(n), UnlockItem("kernels")>>
    [] k = 6 -> <<ConfigItem(n), StatusItem(n), UnlockItem("kernels")>>
    [] k = 7 -> <<Item("config", n), LookItem(n), UnlockItem("configs"), StatusItem(n), UnlockItem("kernels")>>
    [] k = 8 -> <<LookItem(n), UnlockItem("configs"), StatusItem(n), UnlockItem("kernels")>>
    [] k = 9 -> <<Item("find", n), UnlockItem("kernels"), UnlockItem("configs"), StatusItem(n),
                  UnlockItem("kernels")>>
    [] k = 10 -> <<UnlockItem("kernels"), UnlockItem("configs"), StatusItem(n), UnlockItem("kernels")>>
    [] k = 11 -> <<UnlockItem("configs"), StatusItem(n), UnlockItem("kernels")>>
    [] k = 12 -> <<StatusItem(n), UnlockItem("kernels")>>
    [] k = 13 -> <<Item("newStatus", n), LookItem(n), Item("flags", n), UnlockItem("statuses"),
                   UnlockItem("kernels")>>
    [] k = 14 -> <<LockItem("kernels", <<Item("find", n), CleanItem(n), Item("erase", n)>>)>>
    [] k = 15 -> <<Item("find", n), CleanItem(n), Item("erase", n), UnlockItem("kernels")>>
    [] k = 16 -> <<CleanItem(n), Item("erase", n), UnlockItem("kernels")>>
    [] k = 17 -> <<Item("eraseConfig", n), WipeItem(n), UnlockItem("configs"), Item("erase", n),
                   UnlockItem("kernels")>>
    [] k = 18 -> <<WipeItem(n), UnlockItem("configs"), Item("erase", n), UnlockItem("kernels")>>
    [] k = 19 -> <<Item("eraseStatus", n), UnlockItem("statuses"), UnlockItem("configs"), Item("erase", n),
                   UnlockItem("kernels")>>
    [] k = 20 -> <<UnlockItem("statuses"), UnlockItem("configs"), Item("erase", n), UnlockItem("kernels")>>
    [] k = 21 -> <<UnlockItem("configs"), Item("erase", n), UnlockItem("kernels")>>
    [] k = 22 -> <<Item("erase", n), UnlockItem("kernels")>>

\* What comes after a path: the rest registers nothing.
Finish(k, n) ==
  IF k = 13 THEN <<LookItem(n), Item("flags", n), UnlockItem("statuses"), UnlockItem("kernels")>>
            ELSE <<UnlockItem("kernels")>>

\* The two methods are the two paths.
LEMMA PathBegins ==
  ASSUME NEW n
  PROVE  Manager!RegisterKernel(n) = Path(1, n) /\ Manager!UnregisterKernel(n) = Path(14, n)
<1>1. \A step : Manager!Do(step, n) = <<Item(step, n)>>  BY DEF Manager!Do, Item
<1>2. \A m, body : Manager!Locked(m, body) = <<LockItem(m, body)>>  BY DEF Manager!Locked, LockItem
<1> DEFINE insert == Item("insert", n)
           find == Item("find", n)
           cf == Item("config", n)
           newStatus == Item("newStatus", n)
           fl == Item("flags", n)
           erase == Item("erase", n)
           eraseConfig == Item("eraseConfig", n)
           look == LookItem(n)
           cfg == ConfigItem(n)
           st == StatusItem(n)
           wipe == WipeItem(n)
           clean == CleanItem(n)
<1>3. Manager!GetKernel(n) = <<look>>  BY <1>1, <1>2 DEF Manager!GetKernel, LookItem
<1>4. Manager!SetKernelConfig(n) = <<cfg>>
  <2>1. Manager!SetKernelConfig(n) = <<LockItem("configs", <<cf>> \o <<look>>)>>
    BY <1>1, <1>2, <1>3 DEF Manager!SetKernelConfig
  <2>2. cfg = LockItem("configs", <<cf, look>>)  BY DEF ConfigItem
  <2> HIDE DEF cf, look, cfg
  <2>3. <<cf>> \o <<look>> = <<cf, look>>  BY Pairs
  <2> QED  BY <2>1, <2>2, <2>3
<1>5. Manager!Locked("statuses", Manager!Do("newStatus", n) \o Manager!OptimizeKernel(n)) = <<st>>
  <2>1. Manager!OptimizeKernel(n) = <<look>> \o <<fl>>  BY <1>1, <1>3 DEF Manager!OptimizeKernel
  <2>2. st = LockItem("statuses", <<newStatus, look, fl>>)  BY DEF StatusItem
  <2>3. Manager!Do("newStatus", n) = <<newStatus>>  BY <1>1
  <2> HIDE DEF newStatus, look, fl, st
  <2>4. <<look>> \o <<fl>> = <<look, fl>>  BY Pairs
  <2>5. <<newStatus>> \o <<look, fl>> = <<newStatus, look, fl>>  BY Triples
  <2> QED  BY <1>2, <2>1, <2>2, <2>3, <2>4, <2>5
<1>6. Manager!RegisterKernel(n) = <<LockItem("kernels", <<insert, look, cfg, st>>)>>
  <2>1. Manager!InitializeKernel(n) = (<<look>> \o <<cfg>>) \o <<st>>
    BY <1>3, <1>4, <1>5 DEF Manager!InitializeKernel
  <2>2. Manager!RegisterKernel(n) = <<LockItem("kernels", <<insert>> \o Manager!InitializeKernel(n))>>
    BY <1>1, <1>2 DEF Manager!RegisterKernel
  <2> HIDE DEF insert, look, cfg, st
  <2>3. <<look>> \o <<cfg>> = <<look, cfg>>  BY Pairs
  <2>4. <<look, cfg>> \o <<st>> = <<look, cfg, st>>  BY Triples
  <2>5. <<insert>> \o <<look, cfg, st>> = <<insert, look, cfg, st>>  BY Fours
  <2> QED  BY <2>1, <2>2, <2>3, <2>4, <2>5
<1>7. Manager!CleanupKernel(n) = <<clean>>
  <2>1. Manager!Locked("statuses", Manager!Do("eraseStatus", n)) = <<wipe>>  BY <1>1, <1>2 DEF WipeItem
  <2>2. Manager!CleanupKernel(n) = <<LockItem("configs", <<eraseConfig>> \o <<wipe>>)>>
    BY <1>1, <1>2, <2>1 DEF Manager!CleanupKernel
  <2>3. clean = LockItem("configs", <<eraseConfig, wipe>>)  BY DEF CleanItem
  <2> HIDE DEF eraseConfig, wipe, clean
  <2>4. <<eraseConfig>> \o <<wipe>> = <<eraseConfig, wipe>>  BY Pairs
  <2> QED  BY <2>2, <2>3, <2>4
<1>8. Manager!UnregisterKernel(n) = <<LockItem("kernels", <<find, clean, erase>>)>>
  <2>1. Manager!UnregisterKernel(n) = <<LockItem("kernels", (<<find>> \o <<clean>>) \o <<erase>>)>>
    BY <1>1, <1>2, <1>7 DEF Manager!UnregisterKernel
  <2> HIDE DEF find, clean, erase
  <2>2. <<find>> \o <<clean>> = <<find, clean>>  BY Pairs
  <2>3. <<find, clean>> \o <<erase>> = <<find, clean, erase>>  BY Triples
  <2> QED  BY <2>1, <2>2, <2>3
<1> QED  BY <1>6, <1>8 DEF Path

-----------------------------------------------------------------------------
(* The steps along the paths.                                               *)

LEMMA ItemFacts ==
  /\ \A d, n : Item(d, n).do = d /\ Item(d, n).arg = n
  /\ \A m, body : LockItem(m, body).do = "lock" /\ LockItem(m, body).m = m /\ LockItem(m, body).body = body
  /\ \A m : UnlockItem(m).do = "unlock" /\ UnlockItem(m).m = m
  /\ \A n : /\ LookItem(n).do = "lock" /\ ConfigItem(n).do = "lock" /\ StatusItem(n).do = "lock"
            /\ WipeItem(n).do = "lock" /\ CleanItem(n).do = "lock"
BY DEF Item, LockItem, UnlockItem, LookItem, ConfigItem, StatusItem, WipeItem, CleanItem

\* Which step it is follows from the first item.
LEMMA ManagerTakes ==
  ASSUME NEW t, ManagerStep(t)
  PROVE  /\ ~dead /\ todo[t] # <<>>
         /\ Head(todo[t]).do = "lock" => Manager!Acquire(t) \/ Manager!RelockThrows(t)
         /\ Head(todo[t]).do = "unlock" => Manager!Release(t)
         /\ Head(todo[t]).do \in {"lock", "unlock"} => UNCHANGED <<Manager!managed, calls, faults>>
         /\ Head(todo[t]).do \in {"find", "insert"} => Manager!Find(t)
         /\ Head(todo[t]).do \in {"erase", "eraseConfig", "config"} => Manager!Erase(t)
         /\ Head(todo[t]).do \in {"newStatus", "eraseStatus"} => Manager!SetStatus(t)
<1> DEFINE d == Head(todo[t]).do
<1>1. CASE Manager!LockStep(t) /\ UNCHANGED <<Manager!managed, calls, faults>>
  <2>1. CASE Manager!Acquire(t) \/ Manager!RelockThrows(t)
    <3>1. d = "lock" /\ ~dead /\ todo[t] # <<>>
      BY <2>1 DEF Manager!Acquire, Manager!RelockThrows, Manager!At
    <3> QED  BY <1>1, <2>1, <3>1
  <2>2. CASE Manager!Release(t)
    <3>1. d = "unlock" /\ ~dead /\ todo[t] # <<>>  BY <2>2 DEF Manager!Release, Manager!At
    <3> QED  BY <1>1, <2>2, <3>1
  <2>3. CASE Manager!EnterTry(t) \/ Manager!LeaveTry(t)
    <3>1. d \in {"try", "end"} /\ ~dead /\ todo[t] # <<>>
      BY <2>3 DEF Manager!EnterTry, Manager!LeaveTry, Manager!At
    <3> QED  BY <3>1
  <2> QED  BY <1>1, <2>1, <2>2, <2>3 DEF Manager!LockStep
<1>2. CASE Manager!Find(t)
  <2>1. d \in {"find", "insert"} /\ ~dead /\ todo[t] # <<>>  BY <1>2 DEF Manager!Find, Manager!At
  <2> QED  BY <1>2, <2>1
<1>3. CASE Manager!Erase(t)
  <2>1. d \in {"erase", "eraseConfig", "config"} /\ ~dead /\ todo[t] # <<>>
    BY <1>3 DEF Manager!Erase, Manager!At
  <2> QED  BY <1>3, <2>1
<1>4. CASE Manager!SetStatus(t)
  <2>1. d \in {"newStatus", "eraseStatus"} /\ ~dead /\ todo[t] # <<>>
    BY <1>4 DEF Manager!SetStatus, Manager!At
  <2> QED  BY <1>4, <2>1
<1>5. CASE Manager!Skip(t) \/ Manager!KernelCall(t) \/ Manager!Each(t) \/ Manager!Check(t)
  <2>1. /\ d \in {"skip", "start", "stop", "pause", "resume", "flags", "each", "check"}
        /\ ~dead /\ todo[t] # <<>>
    BY <1>5 DEF Manager!Skip, Manager!KernelCall, Manager!Each, Manager!Check, Manager!At
  <2> QED  BY <2>1
<1>6. CASE Manager!Handle(t) \/ Manager!Recover(t) \/ Manager!Count(t) \/ Manager!Store(t)
           \/ Manager!Round(t) \/ Manager!StopMonitoring(t)
  <2>1. /\ d \in {"handle", "recover", "count", "store", "round", "stopMonitoring", "join"}
        /\ ~dead /\ todo[t] # <<>>
    BY <1>6 DEF Manager!Handle, Manager!Recover, Manager!Count, Manager!Store, Manager!Round,
                Manager!StopMonitoring, Manager!At
  <2> QED  BY <2>1
<1> QED  BY <1>1, <1>2, <1>3, <1>4, <1>5, <1>6 DEF ManagerStep

\* What a step does to a path that begins with item and goes on with rest.
Along(t, item, rest) ==
  /\ todo = [u \in ManagerThreads |-> todo[u]] /\ t \in ManagerThreads
  /\ todo[t] # <<>> /\ Head(todo[t]) = item /\ Tail(todo[t]) = rest /\ platform = "counts"

LEMMA AlongLock ==
  ASSUME NEW t, NEW m, NEW body, NEW rest, Along(t, LockItem(m, body), rest), ManagerStep(t)
  PROVE  /\ todo'[t] = (body \o <<UnlockItem(m)>>) \o rest
         /\ UNCHANGED <<kernels, configs, status>>
<1>1. Head(todo[t]).do = "lock" /\ Head(todo[t]).m = m /\ Head(todo[t]).body = body
  BY ItemFacts DEF Along
<1>2. Manager!Acquire(t) /\ UNCHANGED <<kernels, configs, status>>
  BY <1>1, ManagerTakes DEF Manager!RelockThrows, Along, Manager!managed
<1>3. todo' = [todo EXCEPT ![t] = (Head(todo[t]).body \o <<[do |-> "unlock", m |-> Head(todo[t]).m]>>) \o Tail(@)]
  BY <1>2 DEF Manager!Acquire, Manager!Now, Manager!Becomes
<1>4. todo'[t] = (Head(todo[t]).body \o <<[do |-> "unlock", m |-> Head(todo[t]).m]>>) \o Tail(todo[t])
  BY <1>3 DEF Along
<1>5. UnlockItem(m) = [do |-> "unlock", m |-> Head(todo[t]).m]  BY <1>1 DEF UnlockItem
<1>6. todo'[t] = (body \o <<UnlockItem(m)>>) \o Tail(todo[t])  BY <1>1, <1>4, <1>5
<1> QED  BY <1>2, <1>6 DEF Along

LEMMA AlongUnlock ==
  ASSUME NEW t, NEW m, NEW rest, Along(t, UnlockItem(m), rest), ManagerStep(t)
  PROVE  todo'[t] = <<>> \o rest /\ UNCHANGED <<kernels, configs, status>>
<1>1. Head(todo[t]).do = "unlock"  BY ItemFacts DEF Along
<1>2. Manager!Release(t) /\ UNCHANGED <<kernels, configs, status>>
  BY <1>1, ManagerTakes DEF Manager!managed
<1>3. todo' = [todo EXCEPT ![t] = <<>> \o Tail(@)]
  BY <1>2 DEF Manager!Release, Manager!Advance, Manager!Becomes
<1> QED  BY <1>2, <1>3 DEF Along

\* A lookup or an insertion; where it throws, no handler waits.
LEMMA AlongFind ==
  ASSUME NEW t, NEW d \in {"find", "insert"}, NEW n, NEW rest, Along(t, Item(d, n), rest), ManagerStep(t),
         \A i \in DOMAIN todo[t] : todo[t][i].do # "end"
  PROVE  /\ UNCHANGED <<configs, status>>
         /\ \/ /\ (n \in kernels) = (d = "find")
               /\ kernels' = kernels \cup {n} /\ todo'[t] = <<>> \o rest
            \/ /\ (n \in kernels) # (d = "find")
               /\ kernels' = kernels /\ (dead' \/ todo'[t] = <<>>)
<1>1. Head(todo[t]).do = d /\ Head(todo[t]).arg = n  BY ItemFacts DEF Along
<1>2. Manager!Find(t)  BY <1>1, ManagerTakes
<1>3. CASE (n \in kernels) = (d = "find")
  <2>1. kernels' = kernels \cup {n} /\ Manager!Done(t) /\ UNCHANGED <<configs, status>>
    BY <1>1, <1>2, <1>3 DEF Manager!Find, Manager!Now
  <2>2. todo' = [todo EXCEPT ![t] = <<>> \o Tail(@)]
    BY <2>1 DEF Manager!Done, Manager!Proceed, Manager!Becomes
  <2> QED  BY <1>3, <2>1, <2>2 DEF Along
<1>4. CASE (n \in kernels) # (d = "find")
  <2>1. kernels' = kernels /\ Manager!Throw(t) /\ UNCHANGED <<configs, status>>
    BY <1>1, <1>2, <1>4 DEF Manager!Find, Manager!Now
  <2>2. {i \in DOMAIN todo[t] : todo[t][i].do = "end"} = {}  OBVIOUS
  <2>3. dead' \/ todo' = [todo EXCEPT ![t] = <<>>]
    BY <2>1, <2>2 DEF Manager!Throw, Manager!EndProcess
  <2> QED  BY <1>4, <2>1, <2>3 DEF Along
<1> QED  BY <1>3, <1>4

LEMMA AlongErase ==
  ASSUME NEW t, NEW d \in {"erase", "eraseConfig", "config"}, NEW n, NEW rest, Along(t, Item(d, n), rest),
         ManagerStep(t)
  PROVE  /\ todo'[t] = <<>> \o rest /\ status' = status
         /\ kernels' = IF d = "erase" THEN kernels \ {n} ELSE kernels
         /\ configs' = IF d = "eraseConfig" THEN configs \ {n}
                       ELSE IF d = "config" THEN configs \cup {n} ELSE configs
<1>1. Head(todo[t]).do = d /\ Head(todo[t]).arg = n  BY ItemFacts DEF Along
<1>2. Manager!Erase(t)  BY <1>1, ManagerTakes
<1>3. todo' = [todo EXCEPT ![t] = <<>> \o Tail(@)]
  BY <1>2 DEF Manager!Erase, Manager!Done, Manager!Proceed, Manager!Becomes
<1>4. /\ status' = status
      /\ kernels' = IF d = "erase" THEN kernels \ {n} ELSE kernels
      /\ configs' = IF d = "eraseConfig" THEN configs \ {n}
                    ELSE IF d = "config" THEN configs \cup {n} ELSE configs
  BY <1>1, <1>2 DEF Manager!Erase, Manager!Now
<1> QED  BY <1>3, <1>4 DEF Along

LEMMA AlongStatus ==
  ASSUME NEW t, NEW d \in {"newStatus", "eraseStatus"}, NEW n, NEW rest, Along(t, Item(d, n), rest),
         ManagerStep(t)
  PROVE  /\ todo'[t] = <<>> \o rest /\ UNCHANGED <<kernels, configs>>
         /\ status' = [status EXCEPT ![n] = IF d = "newStatus" THEN Manager!NewStatus ELSE Manager!NoStatus]
<1>1. Head(todo[t]).do = d /\ Head(todo[t]).arg = n  BY ItemFacts DEF Along
<1>2. Manager!SetStatus(t)  BY <1>1, ManagerTakes
<1>3. todo' = [todo EXCEPT ![t] = <<>> \o Tail(@)]
  BY <1>2 DEF Manager!SetStatus, Manager!Done, Manager!Proceed, Manager!Becomes
<1>4. /\ UNCHANGED <<kernels, configs>>
      /\ status' = [status EXCEPT ![n] = IF d = "newStatus" THEN Manager!NewStatus ELSE Manager!NoStatus]
  BY <1>1, <1>2 DEF Manager!SetStatus, Manager!Now
<1> QED  BY <1>3, <1>4 DEF Along

\* What a step does to a thread on a path: it goes to the next place, unless a
\* lookup or an insertion throws, and changes what the place says.
PathNext(k, n) == IF k \in {13, 22} THEN Finish(k, n) ELSE Path(k + 1, n)

PathEffect(k, n) ==
  /\ kernels' = IF k = 2 THEN kernels \cup {n} ELSE IF k = 22 THEN kernels \ {n} ELSE kernels
  /\ configs' = IF k = 7 THEN configs \cup {n} ELSE IF k = 17 THEN configs \ {n} ELSE configs
  /\ status' = IF k = 13 THEN [status EXCEPT ![n] = Manager!NewStatus]
               ELSE IF k = 19 THEN [status EXCEPT ![n] = Manager!NoStatus] ELSE status

PathMoves(t, k, n) ==
  \/ dead'
  \/ /\ todo'[t] = <<>> /\ UNCHANGED <<kernels, configs, status>>
     /\ k = 2 \/ n \notin kernels
  \/ todo'[t] = PathNext(k, n) /\ PathEffect(k, n)

\* A thread is at a place of a path.
OnPath(t, k, n) ==
  /\ todo = [u \in ManagerThreads |-> todo[u]] /\ t \in ManagerThreads
  /\ todo[t] = Path(k, n) /\ platform = "counts"

LEMMA PathLocks ==
  ASSUME NEW t, NEW k \in {1, 3, 6, 8}, NEW n, OnPath(t, k, n), ManagerStep(t)
  PROVE  PathMoves(t, k, n)
<1> DEFINE insert == Item("insert", n)
           find == Item("find", n)
           cf == Item("config", n)
           look == LookItem(n)
           cfg == ConfigItem(n)
           st == StatusItem(n)
           uk == UnlockItem("kernels")
           uc == UnlockItem("configs")
<1>1. CASE k = 1
  <2>0. todo[t] = <<LockItem("kernels", <<insert, look, cfg, st>>)>>  BY <1>1 DEF OnPath, Path
  <2>1. todo[t] # <<>> /\ Head(todo[t]) = LockItem("kernels", <<insert, look, cfg, st>>) /\ Tail(todo[t]) = <<>>  BY <2>0
  <2>2. Along(t, LockItem("kernels", <<insert, look, cfg, st>>), <<>>)  BY <2>1 DEF OnPath, Along
  <2>3. PathNext(1, n) = <<insert, look, cfg, st, uk>>  BY DEF PathNext, Path
  <2>4. todo'[t] = (<<insert, look, cfg, st>> \o <<uk>>) \o <<>> /\ UNCHANGED <<kernels, configs, status>>
    BY <2>2, AlongLock
  <2> HIDE DEF insert, find, cf, look, cfg, st, uk, uc
  <2>5. <<insert, look, cfg, st>> \o <<uk>> = <<insert, look, cfg, st, uk>>
    BY FourOne
  <2>6. <<insert, look, cfg, st, uk>> \o <<>> = <<insert, look, cfg, st, uk>>
    BY TupleEnds
  <2> QED  BY <1>1, <2>3, <2>4, <2>5, <2>6 DEF PathMoves, PathEffect
<1>3. CASE k = 3
  <2>0. todo[t] = <<look, cfg, st, uk>>  BY <1>3 DEF OnPath, Path
  <2>1. todo[t] # <<>> /\ Head(todo[t]) = look /\ Tail(todo[t]) = <<cfg, st, uk>>  BY <2>0
  <2>2. Along(t, LockItem("kernels", <<find>>), <<cfg, st, uk>>)  BY <2>1 DEF OnPath, Along, LookItem
  <2>3. PathNext(3, n) = <<find, uk, cfg, st, uk>>  BY DEF PathNext, Path
  <2>4. todo'[t] = (<<find>> \o <<uk>>) \o <<cfg, st, uk>> /\ UNCHANGED <<kernels, configs, status>>
    BY <2>2, AlongLock
  <2> HIDE DEF insert, find, cf, look, cfg, st, uk, uc
  <2>5. <<find>> \o <<uk>> = <<find, uk>>
    BY Pairs
  <2>6. <<find, uk>> \o <<cfg, st, uk>> = <<find, uk, cfg, st, uk>>
    BY TwoThree
  <2> QED  BY <1>3, <2>3, <2>4, <2>5, <2>6 DEF PathMoves, PathEffect
<1>6. CASE k = 6
  <2>0. todo[t] = <<cfg, st, uk>>  BY <1>6 DEF OnPath, Path
  <2>1. todo[t] # <<>> /\ Head(todo[t]) = cfg /\ Tail(todo[t]) = <<st, uk>>  BY <2>0
  <2>2. Along(t, LockItem("configs", <<cf, look>>), <<st, uk>>)  BY <2>1 DEF OnPath, Along, ConfigItem
  <2>3. PathNext(6, n) = <<cf, look, uc, st, uk>>  BY DEF PathNext, Path
  <2>4. todo'[t] = (<<cf, look>> \o <<uc>>) \o <<st, uk>> /\ UNCHANGED <<kernels, configs, status>>
    BY <2>2, AlongLock
  <2> HIDE DEF insert, find, cf, look, cfg, st, uk, uc
  <2>5. <<cf, look>> \o <<uc>> = <<cf, look, uc>>
    BY Triples
  <2>6. <<cf, look, uc>> \o <<st, uk>> = <<cf, look, uc, st, uk>>
    BY ThreeTwo
  <2> QED  BY <1>6, <2>3, <2>4, <2>5, <2>6 DEF PathMoves, PathEffect
<1>8. CASE k = 8
  <2>0. todo[t] = <<look, uc, st, uk>>  BY <1>8 DEF OnPath, Path
  <2>1. todo[t] # <<>> /\ Head(todo[t]) = look /\ Tail(todo[t]) = <<uc, st, uk>>  BY <2>0
  <2>2. Along(t, LockItem("kernels", <<find>>), <<uc, st, uk>>)  BY <2>1 DEF OnPath, Along, LookItem
  <2>3. PathNext(8, n) = <<find, uk, uc, st, uk>>  BY DEF PathNext, Path
  <2>4. todo'[t] = (<<find>> \o <<uk>>) \o <<uc, st, uk>> /\ UNCHANGED <<kernels, configs, status>>
    BY <2>2, AlongLock
  <2> HIDE DEF insert, find, cf, look, cfg, st, uk, uc
  <2>5. <<find>> \o <<uk>> = <<find, uk>>
    BY Pairs
  <2>6. <<find, uk>> \o <<uc, st, uk>> = <<find, uk, uc, st, uk>>
    BY TwoThree
  <2> QED  BY <1>8, <2>3, <2>4, <2>5, <2>6 DEF PathMoves, PathEffect
<1> QED  BY <1>1, <1>3, <1>6, <1>8

LEMMA PathLocksOn ==
  ASSUME NEW t, NEW k \in {12, 14, 16, 18}, NEW n, OnPath(t, k, n), ManagerStep(t)
  PROVE  PathMoves(t, k, n)
<1> DEFINE find == Item("find", n)
           newStatus == Item("newStatus", n)
           fl == Item("flags", n)
           erase == Item("erase", n)
           eraseConfig == Item("eraseConfig", n)
           eraseStatus == Item("eraseStatus", n)
           look == LookItem(n)
           st == StatusItem(n)
           wipe == WipeItem(n)
           clean == CleanItem(n)
           uk == UnlockItem("kernels")
           uc == UnlockItem("configs")
           us == UnlockItem("statuses")
<1>12. CASE k = 12
  <2>0. todo[t] = <<st, uk>>  BY <1>12 DEF OnPath, Path
  <2>1. todo[t] # <<>> /\ Head(todo[t]) = st /\ Tail(todo[t]) = <<uk>>  BY <2>0
  <2>2. Along(t, LockItem("statuses", <<newStatus, look, fl>>), <<uk>>)  BY <2>1 DEF OnPath, Along, StatusItem
  <2>3. PathNext(12, n) = <<newStatus, look, fl, us, uk>>  BY DEF PathNext, Path
  <2>4. todo'[t] = (<<newStatus, look, fl>> \o <<us>>) \o <<uk>> /\ UNCHANGED <<kernels, configs, status>>
    BY <2>2, AlongLock
  <2> HIDE DEF find, newStatus, fl, erase, eraseConfig, eraseStatus, look, st, wipe, clean, uk, uc, us
  <2>5. <<newStatus, look, fl>> \o <<us>> = <<newStatus, look, fl, us>>
    BY Fours
  <2>6. <<newStatus, look, fl, us>> \o <<uk>> = <<newStatus, look, fl, us, uk>>
    BY FourOne
  <2> QED  BY <1>12, <2>3, <2>4, <2>5, <2>6 DEF PathMoves, PathEffect
<1>14. CASE k = 14
  <2>0. todo[t] = <<LockItem("kernels", <<find, clean, erase>>)>>  BY <1>14 DEF OnPath, Path
  <2>1. todo[t] # <<>> /\ Head(todo[t]) = LockItem("kernels", <<find, clean, erase>>) /\ Tail(todo[t]) = <<>>  BY <2>0
  <2>2. Along(t, LockItem("kernels", <<find, clean, erase>>), <<>>)  BY <2>1 DEF OnPath, Along
  <2>3. PathNext(14, n) = <<find, clean, erase, uk>>  BY DEF PathNext, Path
  <2>4. todo'[t] = (<<find, clean, erase>> \o <<uk>>) \o <<>> /\ UNCHANGED <<kernels, configs, status>>
    BY <2>2, AlongLock
  <2> HIDE DEF find, newStatus, fl, erase, eraseConfig, eraseStatus, look, st, wipe, clean, uk, uc, us
  <2>5. <<find, clean, erase>> \o <<uk>> = <<find, clean, erase, uk>>
    BY Fours
  <2>6. <<find, clean, erase, uk>> \o <<>> = <<find, clean, erase, uk>>
    BY TupleEnds
  <2> QED  BY <1>14, <2>3, <2>4, <2>5, <2>6 DEF PathMoves, PathEffect
<1>16. CASE k = 16
  <2>0. todo[t] = <<clean, erase, uk>>  BY <1>16 DEF OnPath, Path
  <2>1. todo[t] # <<>> /\ Head(todo[t]) = clean /\ Tail(todo[t]) = <<erase, uk>>  BY <2>0
  <2>2. Along(t, LockItem("configs", <<eraseConfig, wipe>>), <<erase, uk>>)  BY <2>1 DEF OnPath, Along, CleanItem
  <2>3. PathNext(16, n) = <<eraseConfig, wipe, uc, erase, uk>>  BY DEF PathNext, Path
  <2>4. todo'[t] = (<<eraseConfig, wipe>> \o <<uc>>) \o <<erase, uk>> /\ UNCHANGED <<kernels, configs, status>>
    BY <2>2, AlongLock
  <2> HIDE DEF find, newStatus, fl, erase, eraseConfig, eraseStatus, look, st, wipe, clean, uk, uc, us
  <2>5. <<eraseConfig, wipe>> \o <<uc>> = <<eraseConfig, wipe, uc>>
    BY Triples
  <2>6. <<eraseConfig, wipe, uc>> \o <<erase, uk>> = <<eraseConfig, wipe, uc, erase, uk>>
    BY ThreeTwo
  <2> QED  BY <1>16, <2>3, <2>4, <2>5, <2>6 DEF PathMoves, PathEffect
<1>18. CASE k = 18
  <2>0. todo[t] = <<wipe, uc, erase, uk>>  BY <1>18 DEF OnPath, Path
  <2>1. todo[t] # <<>> /\ Head(todo[t]) = wipe /\ Tail(todo[t]) = <<uc, erase, uk>>  BY <2>0
  <2>2. Along(t, LockItem("statuses", <<eraseStatus>>), <<uc, erase, uk>>)  BY <2>1 DEF OnPath, Along, WipeItem
  <2>3. PathNext(18, n) = <<eraseStatus, us, uc, erase, uk>>  BY DEF PathNext, Path
  <2>4. todo'[t] = (<<eraseStatus>> \o <<us>>) \o <<uc, erase, uk>> /\ UNCHANGED <<kernels, configs, status>>
    BY <2>2, AlongLock
  <2> HIDE DEF find, newStatus, fl, erase, eraseConfig, eraseStatus, look, st, wipe, clean, uk, uc, us
  <2>5. <<eraseStatus>> \o <<us>> = <<eraseStatus, us>>
    BY Pairs
  <2>6. <<eraseStatus, us>> \o <<uc, erase, uk>> = <<eraseStatus, us, uc, erase, uk>>
    BY TwoThree
  <2> QED  BY <1>18, <2>3, <2>4, <2>5, <2>6 DEF PathMoves, PathEffect
<1> QED  BY <1>12, <1>14, <1>16, <1>18

LEMMA PathUnlocks ==
  ASSUME NEW t, NEW k \in {5, 10, 11, 20, 21}, NEW n, OnPath(t, k, n), ManagerStep(t)
  PROVE  PathMoves(t, k, n)
<1> DEFINE erase == Item("erase", n)
           cfg == ConfigItem(n)
           st == StatusItem(n)
           uk == UnlockItem("kernels")
           uc == UnlockItem("configs")
           us == UnlockItem("statuses")
<1>5. CASE k = 5
  <2>0. todo[t] = <<uk, cfg, st, uk>>  BY <1>5 DEF OnPath, Path
  <2>1. todo[t] # <<>> /\ Head(todo[t]) = uk /\ Tail(todo[t]) = <<cfg, st, uk>>  BY <2>0
  <2>2. Along(t, uk, <<cfg, st, uk>>)  BY <2>1 DEF OnPath, Along
  <2>3. todo'[t] = <<>> \o <<cfg, st, uk>> /\ UNCHANGED <<kernels, configs, status>>  BY <2>2, AlongUnlock
  <2>4. <<>> \o <<cfg, st, uk>> = <<cfg, st, uk>>  BY TupleStarts
  <2>5. PathNext(5, n) = <<cfg, st, uk>>  BY DEF PathNext, Path
  <2> QED  BY <1>5, <2>3, <2>4, <2>5 DEF PathMoves, PathEffect
<1>10. CASE k = 10
  <2>0. todo[t] = <<uk, uc, st, uk>>  BY <1>10 DEF OnPath, Path
  <2>1. todo[t] # <<>> /\ Head(todo[t]) = uk /\ Tail(todo[t]) = <<uc, st, uk>>  BY <2>0
  <2>2. Along(t, uk, <<uc, st, uk>>)  BY <2>1 DEF OnPath, Along
  <2>3. todo'[t] = <<>> \o <<uc, st, uk>> /\ UNCHANGED <<kernels, configs, status>>  BY <2>2, AlongUnlock
  <2>4. <<>> \o <<uc, st, uk>> = <<uc, st, uk>>  BY TupleStarts
  <2>5. PathNext(10, n) = <<uc, st, uk>>  BY DEF PathNext, Path
  <2> QED  BY <1>10, <2>3, <2>4, <2>5 DEF PathMoves, PathEffect
<1>11. CASE k = 11
  <2>0. todo[t] = <<uc, st, uk>>  BY <1>11 DEF OnPath, Path
  <2>1. todo[t] # <<>> /\ Head(todo[t]) = uc /\ Tail(todo[t]) = <<st, uk>>  BY <2>0
  <2>2. Along(t, uc, <<st, uk>>)  BY <2>1 DEF OnPath, Along
  <2>3. todo'[t] = <<>> \o <<st, uk>> /\ UNCHANGED <<kernels, configs, status>>  BY <2>2, AlongUnlock
  <2>4. <<>> \o <<st, uk>> = <<st, uk>>  BY TupleStarts
  <2>5. PathNext(11, n) = <<st, uk>>  BY DEF PathNext, Path
  <2> QED  BY <1>11, <2>3, <2>4, <2>5 DEF PathMoves, PathEffect
<1>20. CASE k = 20
  <2>0. todo[t] = <<us, uc, erase, uk>>  BY <1>20 DEF OnPath, Path
  <2>1. todo[t] # <<>> /\ Head(todo[t]) = us /\ Tail(todo[t]) = <<uc, erase, uk>>  BY <2>0
  <2>2. Along(t, us, <<uc, erase, uk>>)  BY <2>1 DEF OnPath, Along
  <2>3. todo'[t] = <<>> \o <<uc, erase, uk>> /\ UNCHANGED <<kernels, configs, status>>  BY <2>2, AlongUnlock
  <2>4. <<>> \o <<uc, erase, uk>> = <<uc, erase, uk>>  BY TupleStarts
  <2>5. PathNext(20, n) = <<uc, erase, uk>>  BY DEF PathNext, Path
  <2> QED  BY <1>20, <2>3, <2>4, <2>5 DEF PathMoves, PathEffect
<1>21. CASE k = 21
  <2>0. todo[t] = <<uc, erase, uk>>  BY <1>21 DEF OnPath, Path
  <2>1. todo[t] # <<>> /\ Head(todo[t]) = uc /\ Tail(todo[t]) = <<erase, uk>>  BY <2>0
  <2>2. Along(t, uc, <<erase, uk>>)  BY <2>1 DEF OnPath, Along
  <2>3. todo'[t] = <<>> \o <<erase, uk>> /\ UNCHANGED <<kernels, configs, status>>  BY <2>2, AlongUnlock
  <2>4. <<>> \o <<erase, uk>> = <<erase, uk>>  BY TupleStarts
  <2>5. PathNext(21, n) = <<erase, uk>>  BY DEF PathNext, Path
  <2> QED  BY <1>21, <2>3, <2>4, <2>5 DEF PathMoves, PathEffect
<1> QED  BY <1>5, <1>10, <1>11, <1>20, <1>21

LEMMA PathFinds ==
  ASSUME NEW t, NEW k \in {2, 4, 9, 15}, NEW n, OnPath(t, k, n), ManagerStep(t)
  PROVE  PathMoves(t, k, n)
<1> DEFINE insert == Item("insert", n)
           find == Item("find", n)
           erase == Item("erase", n)
           look == LookItem(n)
           cfg == ConfigItem(n)
           st == StatusItem(n)
           clean == CleanItem(n)
           uk == UnlockItem("kernels")
           uc == UnlockItem("configs")
<1>2. CASE k = 2
  <2>0. todo[t] = <<insert, look, cfg, st, uk>>  BY <1>2 DEF OnPath, Path
  <2>1. todo[t] # <<>> /\ Head(todo[t]) = insert /\ Tail(todo[t]) = <<look, cfg, st, uk>>  BY <2>0
  <2>2. Along(t, insert, <<look, cfg, st, uk>>)  BY <2>1 DEF OnPath, Along
  <2>3. \A i \in DOMAIN todo[t] : todo[t][i].do # "end"  BY <2>0, ItemFacts
  <2>4. /\ UNCHANGED <<configs, status>>
        /\ \/ (n \in kernels) = ("insert" = "find") /\ kernels' = kernels \cup {n}
              /\ todo'[t] = <<>> \o <<look, cfg, st, uk>>
           \/ (n \in kernels) # ("insert" = "find") /\ kernels' = kernels /\ (dead' \/ todo'[t] = <<>>)
    BY <2>2, <2>3, AlongFind
  <2>5. <<>> \o <<look, cfg, st, uk>> = <<look, cfg, st, uk>>  BY TupleStarts
  <2>6. PathNext(2, n) = <<look, cfg, st, uk>>  BY DEF PathNext, Path
  <2>7. "insert" # "find"  OBVIOUS
  <2> QED  BY <1>2, <2>4, <2>5, <2>6, <2>7 DEF PathMoves, PathEffect
<1>4. CASE k = 4
  <2>0. todo[t] = <<find, uk, cfg, st, uk>>  BY <1>4 DEF OnPath, Path
  <2>1. todo[t] # <<>> /\ Head(todo[t]) = find /\ Tail(todo[t]) = <<uk, cfg, st, uk>>  BY <2>0
  <2>2. Along(t, find, <<uk, cfg, st, uk>>)  BY <2>1 DEF OnPath, Along
  <2>3. \A i \in DOMAIN todo[t] : todo[t][i].do # "end"  BY <2>0, ItemFacts
  <2>4. /\ UNCHANGED <<configs, status>>
        /\ \/ (n \in kernels) = ("find" = "find") /\ kernels' = kernels \cup {n}
              /\ todo'[t] = <<>> \o <<uk, cfg, st, uk>>
           \/ (n \in kernels) # ("find" = "find") /\ kernels' = kernels /\ (dead' \/ todo'[t] = <<>>)
    BY <2>2, <2>3, AlongFind
  <2>5. <<>> \o <<uk, cfg, st, uk>> = <<uk, cfg, st, uk>>  BY TupleStarts
  <2>6. PathNext(4, n) = <<uk, cfg, st, uk>>  BY DEF PathNext, Path
  <2>7. "find" = "find" /\ (n \in kernels => kernels \cup {n} = kernels)  OBVIOUS
  <2>8. \/ kernels' = kernels /\ todo'[t] = <<uk, cfg, st, uk>>
        \/ n \notin kernels /\ kernels' = kernels /\ (dead' \/ todo'[t] = <<>>)
    BY <2>4, <2>5, <2>7
  <2> QED  BY <1>4, <2>4, <2>6, <2>8 DEF PathMoves, PathEffect
<1>9. CASE k = 9
  <2>0. todo[t] = <<find, uk, uc, st, uk>>  BY <1>9 DEF OnPath, Path
  <2>1. todo[t] # <<>> /\ Head(todo[t]) = find /\ Tail(todo[t]) = <<uk, uc, st, uk>>  BY <2>0
  <2>2. Along(t, find, <<uk, uc, st, uk>>)  BY <2>1 DEF OnPath, Along
  <2>3. \A i \in DOMAIN todo[t] : todo[t][i].do # "end"  BY <2>0, ItemFacts
  <2>4. /\ UNCHANGED <<configs, status>>
        /\ \/ (n \in kernels) = ("find" = "find") /\ kernels' = kernels \cup {n}
              /\ todo'[t] = <<>> \o <<uk, uc, st, uk>>
           \/ (n \in kernels) # ("find" = "find") /\ kernels' = kernels /\ (dead' \/ todo'[t] = <<>>)
    BY <2>2, <2>3, AlongFind
  <2>5. <<>> \o <<uk, uc, st, uk>> = <<uk, uc, st, uk>>  BY TupleStarts
  <2>6. PathNext(9, n) = <<uk, uc, st, uk>>  BY DEF PathNext, Path
  <2>7. "find" = "find" /\ (n \in kernels => kernels \cup {n} = kernels)  OBVIOUS
  <2>8. \/ kernels' = kernels /\ todo'[t] = <<uk, uc, st, uk>>
        \/ n \notin kernels /\ kernels' = kernels /\ (dead' \/ todo'[t] = <<>>)
    BY <2>4, <2>5, <2>7
  <2> QED  BY <1>9, <2>4, <2>6, <2>8 DEF PathMoves, PathEffect
<1>15. CASE k = 15
  <2>0. todo[t] = <<find, clean, erase, uk>>  BY <1>15 DEF OnPath, Path
  <2>1. todo[t] # <<>> /\ Head(todo[t]) = find /\ Tail(todo[t]) = <<clean, erase, uk>>  BY <2>0
  <2>2. Along(t, find, <<clean, erase, uk>>)  BY <2>1 DEF OnPath, Along
  <2>3. \A i \in DOMAIN todo[t] : todo[t][i].do # "end"  BY <2>0, ItemFacts
  <2>4. /\ UNCHANGED <<configs, status>>
        /\ \/ (n \in kernels) = ("find" = "find") /\ kernels' = kernels \cup {n}
              /\ todo'[t] = <<>> \o <<clean, erase, uk>>
           \/ (n \in kernels) # ("find" = "find") /\ kernels' = kernels /\ (dead' \/ todo'[t] = <<>>)
    BY <2>2, <2>3, AlongFind
  <2>5. <<>> \o <<clean, erase, uk>> = <<clean, erase, uk>>  BY TupleStarts
  <2>6. PathNext(15, n) = <<clean, erase, uk>>  BY DEF PathNext, Path
  <2>7. "find" = "find" /\ (n \in kernels => kernels \cup {n} = kernels)  OBVIOUS
  <2>8. \/ kernels' = kernels /\ todo'[t] = <<clean, erase, uk>>
        \/ n \notin kernels /\ kernels' = kernels /\ (dead' \/ todo'[t] = <<>>)
    BY <2>4, <2>5, <2>7
  <2> QED  BY <1>15, <2>4, <2>6, <2>8 DEF PathMoves, PathEffect
<1> QED  BY <1>2, <1>4, <1>9, <1>15

LEMMA PathWrites ==
  ASSUME NEW t, NEW k \in {7, 13, 17, 19, 22}, NEW n, OnPath(t, k, n), ManagerStep(t)
  PROVE  PathMoves(t, k, n)
<1> DEFINE cf == Item("config", n)
           newStatus == Item("newStatus", n)
           fl == Item("flags", n)
           erase == Item("erase", n)
           eraseConfig == Item("eraseConfig", n)
           eraseStatus == Item("eraseStatus", n)
           look == LookItem(n)
           st == StatusItem(n)
           wipe == WipeItem(n)
           uk == UnlockItem("kernels")
           uc == UnlockItem("configs")
           us == UnlockItem("statuses")
<1>7. CASE k = 7
  <2>0. todo[t] = <<cf, look, uc, st, uk>>  BY <1>7 DEF OnPath, Path
  <2>1. todo[t] # <<>> /\ Head(todo[t]) = cf /\ Tail(todo[t]) = <<look, uc, st, uk>>  BY <2>0
  <2>2. Along(t, cf, <<look, uc, st, uk>>)  BY <2>1 DEF OnPath, Along
  <2>3. /\ todo'[t] = <<>> \o <<look, uc, st, uk>> /\ status' = status
        /\ kernels' = IF "config" = "erase" THEN kernels \ {n} ELSE kernels
        /\ configs' = IF "config" = "eraseConfig" THEN configs \ {n}
                      ELSE IF "config" = "config" THEN configs \cup {n} ELSE configs
    BY <2>2, AlongErase
  <2>6. kernels' = kernels /\ configs' = configs \cup {n} /\ status' = status  BY <2>3
  <2>4. <<>> \o <<look, uc, st, uk>> = <<look, uc, st, uk>>  BY TupleStarts
  <2>5. PathNext(7, n) = <<look, uc, st, uk>>  BY DEF PathNext, Path
  <2> QED  BY <1>7, <2>3, <2>6, <2>4, <2>5 DEF PathMoves, PathEffect
<1>13. CASE k = 13
  <2>0. todo[t] = <<newStatus, look, fl, us, uk>>  BY <1>13 DEF OnPath, Path
  <2>1. todo[t] # <<>> /\ Head(todo[t]) = newStatus /\ Tail(todo[t]) = <<look, fl, us, uk>>  BY <2>0
  <2>2. Along(t, newStatus, <<look, fl, us, uk>>)  BY <2>1 DEF OnPath, Along
  <2>3. /\ todo'[t] = <<>> \o <<look, fl, us, uk>> /\ UNCHANGED <<kernels, configs>>
        /\ status' = [status EXCEPT ![n] = IF "newStatus" = "newStatus" THEN Manager!NewStatus ELSE Manager!NoStatus]
    BY <2>2, AlongStatus
  <2>6. UNCHANGED <<kernels, configs>> /\ status' = [status EXCEPT ![n] = Manager!NewStatus]  BY <2>3
  <2>4. <<>> \o <<look, fl, us, uk>> = <<look, fl, us, uk>>  BY TupleStarts
  <2>5. PathNext(13, n) = <<look, fl, us, uk>>  BY DEF PathNext, Finish
  <2> QED  BY <1>13, <2>3, <2>6, <2>4, <2>5 DEF PathMoves, PathEffect
<1>17. CASE k = 17
  <2>0. todo[t] = <<eraseConfig, wipe, uc, erase, uk>>  BY <1>17 DEF OnPath, Path
  <2>1. todo[t] # <<>> /\ Head(todo[t]) = eraseConfig /\ Tail(todo[t]) = <<wipe, uc, erase, uk>>  BY <2>0
  <2>2. Along(t, eraseConfig, <<wipe, uc, erase, uk>>)  BY <2>1 DEF OnPath, Along
  <2>3. /\ todo'[t] = <<>> \o <<wipe, uc, erase, uk>> /\ status' = status
        /\ kernels' = IF "eraseConfig" = "erase" THEN kernels \ {n} ELSE kernels
        /\ configs' = IF "eraseConfig" = "eraseConfig" THEN configs \ {n}
                      ELSE IF "eraseConfig" = "config" THEN configs \cup {n} ELSE configs
    BY <2>2, AlongErase
  <2>6. kernels' = kernels /\ configs' = configs \ {n} /\ status' = status  BY <2>3
  <2>4. <<>> \o <<wipe, uc, erase, uk>> = <<wipe, uc, erase, uk>>  BY TupleStarts
  <2>5. PathNext(17, n) = <<wipe, uc, erase, uk>>  BY DEF PathNext, Path
  <2> QED  BY <1>17, <2>3, <2>6, <2>4, <2>5 DEF PathMoves, PathEffect
<1>19. CASE k = 19
  <2>0. todo[t] = <<eraseStatus, us, uc, erase, uk>>  BY <1>19 DEF OnPath, Path
  <2>1. todo[t] # <<>> /\ Head(todo[t]) = eraseStatus /\ Tail(todo[t]) = <<us, uc, erase, uk>>  BY <2>0
  <2>2. Along(t, eraseStatus, <<us, uc, erase, uk>>)  BY <2>1 DEF OnPath, Along
  <2>3. /\ todo'[t] = <<>> \o <<us, uc, erase, uk>> /\ UNCHANGED <<kernels, configs>>
        /\ status' = [status EXCEPT ![n] = IF "eraseStatus" = "newStatus" THEN Manager!NewStatus ELSE Manager!NoStatus]
    BY <2>2, AlongStatus
  <2>6. UNCHANGED <<kernels, configs>> /\ status' = [status EXCEPT ![n] = Manager!NoStatus]  BY <2>3
  <2>4. <<>> \o <<us, uc, erase, uk>> = <<us, uc, erase, uk>>  BY TupleStarts
  <2>5. PathNext(19, n) = <<us, uc, erase, uk>>  BY DEF PathNext, Path
  <2> QED  BY <1>19, <2>3, <2>6, <2>4, <2>5 DEF PathMoves, PathEffect
<1>22. CASE k = 22
  <2>0. todo[t] = <<erase, uk>>  BY <1>22 DEF OnPath, Path
  <2>1. todo[t] # <<>> /\ Head(todo[t]) = erase /\ Tail(todo[t]) = <<uk>>  BY <2>0
  <2>2. Along(t, erase, <<uk>>)  BY <2>1 DEF OnPath, Along
  <2>3. /\ todo'[t] = <<>> \o <<uk>> /\ status' = status
        /\ kernels' = IF "erase" = "erase" THEN kernels \ {n} ELSE kernels
        /\ configs' = IF "erase" = "eraseConfig" THEN configs \ {n}
                      ELSE IF "erase" = "config" THEN configs \cup {n} ELSE configs
    BY <2>2, AlongErase
  <2>6. kernels' = kernels \ {n} /\ configs' = configs /\ status' = status  BY <2>3
  <2>4. <<>> \o <<uk>> = <<uk>>  BY TupleStarts
  <2>5. PathNext(22, n) = <<uk>>  BY DEF PathNext, Finish
  <2> QED  BY <1>22, <2>3, <2>6, <2>4, <2>5 DEF PathMoves, PathEffect
<1> QED  BY <1>7, <1>13, <1>17, <1>19, <1>22

LEMMA PathGoes ==
  ASSUME NEW t, NEW k \in 1..22, NEW n, OnPath(t, k, n), ManagerStep(t)
  PROVE  PathMoves(t, k, n)
<1>1. \/ k \in {1, 3, 6, 8} \/ k \in {12, 14, 16, 18} \/ k \in {5, 10, 11, 20, 21}
      \/ k \in {2, 4, 9, 15} \/ k \in {7, 13, 17, 19, 22}
  OBVIOUS
<1> QED  BY <1>1, PathLocks, PathLocksOn, PathUnlocks, PathFinds, PathWrites
-----------------------------------------------------------------------------
(* Threads that register nothing, as TameK has them.                        *)

Tame(s) == Good(TameK, s) /\ \A i \in 1..Len(s) : s[i].do \notin Entering

LEMMA TameNew ==
  ASSUME NEW b, New(TameK, b, {})
  PROVE  Tame(b)
<1>1. Loose(TameK, b)  BY ManagerKind, ManagerKIsOne, LooseNew
<1>2. Good(TameK, b)  BY <1>1, LooseGood
<1>3. Entering \subseteq TameK.outer  BY DEF TameK
<1> QED  BY <1>2, <1>3 DEF Tame, New

LEMMA TameEmpty == Tame(<<>>)
<1>1. New(TameK, <<>>, {})  BY NewEmpty
<1> QED  BY <1>1, TameNew

\* What is left of a registration after its status is written.
LEMMA TameFinish ==
  ASSUME NEW k, NEW n
  PROVE  Tame(Finish(k, n))
<1> DEFINE uk == UnlockItem("kernels")
           us == UnlockItem("statuses")
           look == LookItem(n)
           fl == Item("flags", n)
<1>1. uk.do = "unlock" /\ uk.m = "kernels" /\ us.do = "unlock" /\ us.m = "statuses"  BY ItemFacts
<1>2. look.do \notin Entering /\ fl.do \notin Entering  BY ItemFacts DEF Entering
<1>3. Manager!OptimizeKernel(n) = <<look>> \o <<fl>>
  <2>1. \A step : Manager!Do(step, n) = <<Item(step, n)>>  BY DEF Manager!Do, Item
  <2>2. \A m, body : Manager!Locked(m, body) = <<LockItem(m, body)>>  BY DEF Manager!Locked, LockItem
  <2>3. Manager!GetKernel(n) = <<look>>  BY <2>1, <2>2 DEF Manager!GetKernel, LookItem
  <2> QED  BY <2>1, <2>3 DEF Manager!OptimizeKernel
<1>4. Finish(k, n) = <<uk>> \/ Finish(k, n) = <<look, fl, us, uk>>  BY DEF Finish
<1> HIDE DEF uk, us, look, fl
<1>5. \A h : \A i \in {uk, us} : Fits(TameK, i, h)
  <2> SUFFICES ASSUME NEW h, NEW i \in {uk, us} PROVE Fits(TameK, i, h)
    OBVIOUS
  <2>1. LocalNew(TameK, i, h)
    <3>1. TameK.wide = {"each", "handle", "recover", "round"} /\ TameK.mutexes = {"kernels", "configs", "statuses"}
      BY ManagerFields, ManagerKIsOne
    <3> QED  BY <1>1, <3>1 DEF LocalNew
  <2> QED  BY <2>1, FitsFolds
<1>6. Good(TameK, <<>>) /\ IsSeq(<<>>)  BY TameEmpty, NoItem DEF Tame
<1>7. Good(TameK, <<uk>>) /\ Held(<<uk>>) = {"kernels"}
  <2>1. <<uk>> \o <<>> = <<uk>>
    <3>1. IsSeq(<<uk>>)  BY OneItem
    <3> QED  BY <3>1, EmptyEnds
  <2>2. Fits(TameK, uk, Held(<<>>))  BY <1>5
  <2>3. Good(TameK, <<uk>> \o <<>>)  BY <1>6, <2>2, GoodFirst
  <2>4. Held(<<uk>> \o <<>>) = Held(<<>>) \cup {"kernels"}  BY <1>1, <1>6, CountFirst
  <2>5. Held(<<>>) = {}  BY NoItem DEF Held
  <2> QED  BY <2>1, <2>3, <2>4, <2>5
<1>8. Good(TameK, <<us, uk>>) /\ Held(<<us, uk>>) = {"kernels", "statuses"}
  <2>1. <<us>> \o <<uk>> = <<us, uk>>  BY Pairs
  <2>2. Fits(TameK, us, Held(<<uk>>))  BY <1>5
  <2>3. Good(TameK, <<us>> \o <<uk>>)  BY <1>7, <2>2, GoodFirst
  <2>4. Held(<<us>> \o <<uk>>) = Held(<<uk>>) \cup {"statuses"}
    <3>1. IsSeq(<<uk>>)  BY OneItem
    <3> QED  BY <1>1, <3>1, CountFirst
  <2> QED  BY <1>7, <2>1, <2>3, <2>4
<1>9. Good(TameK, <<look, fl, us, uk>>)
  <2> DEFINE h == {"kernels", "statuses"}
  <2>1. <<"kernels", h>> \in TameK.order
    <3>1. <<"kernels", h>> \in ManagerK.order  BY ManagerPairs
    <3> QED  BY <3>1, ManagerFields, ManagerKIsOne
  <2> HIDE DEF h
  <2>2. New(TameK, Manager!OptimizeKernel(n), h)  BY <2>1, ManagerKIsOne, ManagerGetKernel
  <2>3. <<look>> \o <<fl>> = <<look, fl>>  BY Pairs
  <2>4. New(TameK, <<look, fl>>, Held(<<us, uk>>))
    <3>1. Held(<<us, uk>>) = h  BY <1>8 DEF h
    <3> QED  BY <1>3, <2>2, <2>3, <3>1
  <2>5. Good(TameK, <<look, fl>> \o <<us, uk>>)  BY <1>8, <2>4, ManagerKind, ManagerKIsOne, GoodJoined
  <2>6. <<look, fl>> \o <<us, uk>> = <<look, fl, us, uk>>  BY Fours
  <2> QED  BY <2>5, <2>6
<1>10. "unlock" \notin Entering  BY DEF Entering
<1>11. \A i \in 1..Len(<<uk>>) : <<uk>>[i].do \notin Entering
  <2>1. \A i \in 1..Len(<<uk>>) : <<uk>>[i] = uk  BY OneItem
  <2> QED  BY <1>1, <1>10, <2>1
<1>12. \A i \in 1..Len(<<look, fl, us, uk>>) : <<look, fl, us, uk>>[i].do \notin Entering
  <2>1. \A i \in 1..Len(<<look, fl, us, uk>>) : <<look, fl, us, uk>>[i] \in {look, fl, us, uk}
    OBVIOUS
  <2> QED  BY <1>1, <1>2, <1>10, <2>1
<1>13. Tame(<<uk>>)  BY <1>7, <1>11 DEF Tame
<1>14. Tame(<<look, fl, us, uk>>)  BY <1>9, <1>12 DEF Tame
<1> QED  BY <1>4, <1>13, <1>14

\* Whatever a step of such a thread is, the thread stays one.
LEMMA TameGoes ==
  ASSUME ManagerRuns, NEW t \in ManagerThreads, Tame(todo[t]), ManagerStep(t)
  PROVE  dead' \/ Tame(todo'[t])
<1>1. ManagerSide(TameK, {t})
  <2>1. /\ TameK.threads = ManagerK.threads /\ TameK.mutexes = ManagerK.mutexes
        /\ {t} \subseteq ManagerK.threads
    <3>1. ManagerK.threads = ManagerThreads  BY ManagerFields, ManagerKIsOne
    <3>2. TameK.threads = ManagerK.threads /\ TameK.mutexes = ManagerK.mutexes  BY DEF TameK
    <3> QED  BY <3>1, <3>2
  <2>2. Calls(TameK, {t}, holder, depth, todo)
    <3> HIDE DEF ManagerK, TameK
    <3> QED  BY <2>1 DEF ManagerRuns, Calls, Tame
  <2>3. Free \notin {t}  BY ManagerThreadFacts
  <2> QED  BY <2>2, <2>3, ManagerKIsOne DEF ManagerSide, ManagerRuns
<1>2. Goes(TameK, {t}, t)
  <2>1. t \in {t}  OBVIOUS
  <2> QED  BY <1>1, <2>1, ManagerKIsOne, ManagerStepKeeps
<1>3. CASE ~dead'
  <2>1. PICK k \in 1..Len(todo[t]) : \E b :
          /\ Calls(TameK, {t}, holder', depth', todo')
          /\ todo' = [todo EXCEPT ![t] = b \o After(todo[t], k)]
          /\ IsSeq(b) /\ \A n \in 1..Len(b) : b[n].do \in {"unlock", "end"} \/ b[n].do \notin TameK.outer
    BY <1>2, <1>3 DEF Goes
  <2>2. PICK b :
          /\ Calls(TameK, {t}, holder', depth', todo')
          /\ todo' = [todo EXCEPT ![t] = b \o After(todo[t], k)]
          /\ IsSeq(b) /\ \A n \in 1..Len(b) : b[n].do \in {"unlock", "end"} \/ b[n].do \notin TameK.outer
    BY <2>1
  <2>3. todo = [u \in ManagerThreads |-> todo[u]]
    <3>1. ManagerK.threads = ManagerThreads  BY ManagerFields, ManagerKIsOne
    <3> QED  BY <3>1 DEF ManagerRuns, Calls
  <2> DEFINE s == todo[t]
             r == After(s, k)
             c == b \o r
  <2>4. todo'[t] = c  BY <2>2, <2>3
  <2>5. Good(TameK, todo'[t])  BY <2>2 DEF Calls
  <2>6. IsSeq(s) /\ \A i \in 1..Len(s) : s[i].do \notin Entering  BY DEF Tame, Good
  <2>7. k \in 1..Len(s)  OBVIOUS
  <2> HIDE DEF s
  <2>8. Len(s) \in Nat /\ k \in 0..Len(s)  BY <2>6, <2>7, SeqFacts
  <2>9. IsSeq(r) /\ Len(r) = Len(s) - k /\ \A i \in 1..(Len(s) - k) : r[i] = s[k + i]
    BY <2>6, <2>8, AfterFacts
  <2>10. \A i \in 1..Len(r) : r[i].do \notin Entering
    <3>1. \A i \in 1..(Len(s) - k) : k + i \in 1..Len(s)  BY <2>7, <2>8
    <3> QED  BY <2>6, <2>9, <3>1
  <2>11. \A i \in 1..Len(b) : b[i].do \notin Entering
    <3>1. Entering \subseteq TameK.outer /\ "unlock" \notin Entering /\ "end" \notin Entering
      BY DEF TameK, Entering
    <3> QED  BY <2>2, <3>1
  <2> HIDE DEF r
  <2>12. Len(b) \in Nat /\ Len(r) \in Nat  BY <2>2, <2>9, SeqFacts
  <2>13. /\ Len(c) = Len(b) + Len(r)
         /\ \A i \in 1..Len(b) : c[i] = b[i]
         /\ \A i \in 1..Len(r) : c[Len(b) + i] = r[i]
    <3>1. IsSeq(b) /\ IsSeq(r)  BY <2>2, <2>9
    <3> QED  BY <3>1, Joined
  <2> HIDE DEF c
  <2>14. ASSUME NEW i \in 1..Len(c) PROVE c[i].do \notin Entering
    <3>1. CASE i \in 1..Len(b)  BY <2>11, <2>13, <3>1
    <3>2. CASE i \notin 1..Len(b)
      <4>1. i - Len(b) \in 1..Len(r) /\ Len(b) + (i - Len(b)) = i  BY <2>12, <2>13, <3>2
      <4>2. c[i] = r[i - Len(b)]  BY <2>13, <4>1
      <4> QED  BY <2>10, <4>1, <4>2
    <3> QED  BY <3>1, <3>2
  <2> QED  BY <2>4, <2>5, <2>14 DEF Tame
<1> QED  BY <1>3
\* What such a step does to the registry: no kernel is added or loses its
\* configuration or its status.
Statuses ==
  /\ status = [n \in Names |-> status[n]]
  /\ \A n \in Names : "healthy" \in DOMAIN status[n]

TameChange ==
  /\ kernels' \subseteq kernels /\ configs \subseteq configs'
  /\ \A n \in Names : status[n] # Manager!NoStatus => status'[n] # Manager!NoStatus

LEMMA StatusSet ==
  ASSUME Statuses, NEW n, NEW r, "healthy" \in DOMAIN r, status' = [status EXCEPT ![n] = r]
  PROVE  /\ Statuses'
         /\ \A m \in Names : status'[m] = IF m = n THEN r ELSE status[m]
<1>1. \A m \in Names : status'[m] = IF m = n THEN r ELSE status[m]  BY DEF Statuses
<1>2. status' = [m \in Names |-> status'[m]]  BY DEF Statuses
<1> QED  BY <1>1, <1>2 DEF Statuses

LEMMA StatusKept ==
  ASSUME Statuses, UNCHANGED status
  PROVE  Statuses' /\ \A m \in Names : status'[m] = status[m]
BY DEF Statuses

LEMMA StatusFacts ==
  /\ "healthy" \in DOMAIN Manager!NewStatus /\ "healthy" \in DOMAIN Manager!NoStatus
  /\ Manager!NewStatus # Manager!NoStatus
  /\ \A b, r : "healthy" \in DOMAIN [healthy |-> b, restarts |-> r]
  /\ \A r : [healthy |-> TRUE, restarts |-> r] # Manager!NoStatus
  /\ [healthy |-> FALSE, restarts |-> 0] # Manager!NoStatus
  /\ \A s : "healthy" \in DOMAIN s =>
       "healthy" \in DOMAIN [s EXCEPT !.healthy = TRUE] /\ [s EXCEPT !.healthy = TRUE] # Manager!NoStatus
<1>1. /\ "healthy" \in DOMAIN Manager!NewStatus /\ "healthy" \in DOMAIN Manager!NoStatus
      /\ \A b, r : "healthy" \in DOMAIN [healthy |-> b, restarts |-> r]
  BY DEF Manager!NewStatus, Manager!NoStatus
<1>2. Manager!NewStatus # Manager!NoStatus  BY DEF Manager!NewStatus, Manager!NoStatus
<1>3. Manager!NoStatus.healthy = FALSE /\ Manager!NoStatus.restarts = -1  BY DEF Manager!NoStatus
<1>4. \A r : [healthy |-> TRUE, restarts |-> r] # Manager!NoStatus
  <2>1. \A r : [healthy |-> TRUE, restarts |-> r].healthy = TRUE  OBVIOUS
  <2> QED  BY <1>3, <2>1
<1>5. [healthy |-> FALSE, restarts |-> 0] # Manager!NoStatus
  <2>1. [healthy |-> FALSE, restarts |-> 0].restarts = 0  OBVIOUS
  <2> QED  BY <1>3, <2>1
<1>6. ASSUME NEW s, "healthy" \in DOMAIN s
      PROVE  "healthy" \in DOMAIN [s EXCEPT !.healthy = TRUE] /\ [s EXCEPT !.healthy = TRUE] # Manager!NoStatus
  <2>1. [s EXCEPT !.healthy = TRUE].healthy = TRUE  BY <1>6
  <2>2. "healthy" \in DOMAIN [s EXCEPT !.healthy = TRUE]  BY <1>6
  <2> QED  BY <1>3, <2>1, <2>2
<1> QED  BY <1>1, <1>2, <1>4, <1>5, <1>6

\* A status that is set to one of a kernel that has one.
LEMMA StatusStays ==
  ASSUME Statuses, NEW n, NEW r, "healthy" \in DOMAIN r,
         status[n] # Manager!NoStatus => r # Manager!NoStatus, status' = [status EXCEPT ![n] = r],
         UNCHANGED <<kernels, configs>>
  PROVE  TameChange /\ Statuses'
<1>1. Statuses' /\ \A m \in Names : status'[m] = IF m = n THEN r ELSE status[m]  BY StatusSet
<1> QED  BY <1>1 DEF TameChange

LEMMA TameEffect ==
  ASSUME Statuses, NEW t, ManagerStep(t), Head(todo[t]).do \notin Entering
  PROVE  TameChange /\ Statuses'
<1> DEFINE d == Head(todo[t]).do
           n == Head(todo[t]).arg
<1>1. CASE UNCHANGED <<kernels, configs, status>>  BY <1>1, StatusKept DEF TameChange
<1>2. CASE Manager!Find(t)
  <2>1. d = "find"  BY <1>2 DEF Manager!Find, Manager!At, Entering
  <2>2. kernels' \subseteq kernels /\ UNCHANGED <<configs, status>>
    BY <1>2, <2>1 DEF Manager!Find, Manager!Now
  <2> QED  BY <2>2, StatusKept DEF TameChange
<1>3. CASE Manager!Erase(t)
  <2>1. d = "config"  BY <1>3 DEF Manager!Erase, Manager!At, Entering
  <2>2. kernels' = kernels /\ configs \subseteq configs' /\ UNCHANGED status
    BY <1>3, <2>1 DEF Manager!Erase, Manager!Now
  <2> QED  BY <2>2, StatusKept DEF TameChange
<1>4. CASE Manager!SetStatus(t)  BY <1>4 DEF Manager!SetStatus, Manager!At, Entering
<1>5. CASE Manager!Check(t)
  <2> DEFINE r == IF status[n] = Manager!NoStatus THEN Manager!NewStatus ELSE [status[n] EXCEPT !.healthy = TRUE]
  <2>1. status' = [status EXCEPT ![n] = r] /\ UNCHANGED <<kernels, configs>>
    BY <1>5 DEF Manager!Check, Manager!Now, Statuses
  <2>2. CASE n \in Names
    <3>1. "healthy" \in DOMAIN r /\ r # Manager!NoStatus
      <4>1. "healthy" \in DOMAIN status[n]  BY <2>2 DEF Statuses
      <4> QED  BY <4>1, StatusFacts
    <3> HIDE DEF r, n
    <3> QED  BY <2>1, <3>1, StatusStays
  <2>3. CASE n \notin Names
    <3>1. status' = status  BY <2>1, <2>3 DEF Statuses
    <3> QED  BY <2>1, <3>1, StatusKept DEF TameChange
  <2> QED  BY <2>2, <2>3
<1>6. CASE Manager!Recover(t)
  <2>1. /\ UNCHANGED <<kernels, configs>>
        /\ \/ status' = status
           \/ status' = [status EXCEPT ![n] = [healthy |-> FALSE, restarts |-> 0]]
    BY <1>6 DEF Manager!Recover, Manager!Now
  <2>2. CASE status' = status  BY <2>1, <2>2, StatusKept DEF TameChange
  <2>3. CASE status' = [status EXCEPT ![n] = [healthy |-> FALSE, restarts |-> 0]]
    <3> DEFINE r == [healthy |-> FALSE, restarts |-> 0]
    <3>1. "healthy" \in DOMAIN r /\ r # Manager!NoStatus  BY StatusFacts
    <3>2. status' = [status EXCEPT ![n] = r]  BY <2>3
    <3> HIDE DEF r, n
    <3> QED  BY <2>1, <3>1, <3>2, StatusStays
  <2> QED  BY <2>1, <2>2, <2>3
<1>7. CASE Manager!Store(t)
  <2> DEFINE r == IF status[n] = Manager!NoStatus THEN status[n]
                  ELSE [healthy |-> TRUE, restarts |-> Head(todo[t]).seen + 1]
  <2>1. status' = [status EXCEPT ![n] = r] /\ UNCHANGED <<kernels, configs>>
    BY <1>7 DEF Manager!Store, Manager!Now, Statuses
  <2>2. "healthy" \in DOMAIN r /\ (status[n] # Manager!NoStatus => r # Manager!NoStatus)
    BY StatusFacts
  <2> HIDE DEF r, n
  <2> QED  BY <2>1, <2>2, StatusStays
<1>8. CASE Manager!LockStep(t) /\ UNCHANGED <<Manager!managed, calls, faults>>
  BY <1>1, <1>8 DEF Manager!managed
<1>9. CASE Manager!KernelCall(t) \/ Manager!StopMonitoring(t)
  BY <1>1, <1>9 DEF Manager!KernelCall, Manager!StopMonitoring
<1>10. CASE Manager!Skip(t) \/ Manager!Each(t) \/ Manager!Handle(t) \/ Manager!Count(t) \/ Manager!Round(t)
  <2>1. UNCHANGED <<kernels, configs, status>>
    BY <1>10 DEF Manager!Skip, Manager!Each, Manager!Handle, Manager!Count, Manager!Round, Manager!managed
  <2> QED  BY <1>1, <2>1
<1> QED  BY <1>2, <1>3, <1>4, <1>5, <1>6, <1>7, <1>8, <1>9, <1>10 DEF ManagerStep

\* What locking a mutex twice does stays what it is.
LEMMA ManagerPlatform ==
  ASSUME NEW t, Manager!Invoke(t) \/ ManagerStep(t)
  PROVE  platform' = platform
<1>1. \A s : Manager!Proceed(t, s) => platform' = platform  BY DEF Manager!Proceed
<1>2. Manager!Done(t) => platform' = platform  BY <1>1 DEF Manager!Done
<1>3. Manager!Throw(t) \/ Manager!EndProcess => platform' = platform  BY DEF Manager!Throw, Manager!EndProcess
<1>4. CASE Manager!Invoke(t)
  <2>1. \E s : Manager!Call(t, s)  BY <1>4 DEF Manager!Invoke
  <2> QED  BY <2>1 DEF Manager!Call
<1>5. CASE Manager!LockStep(t)
  <2>1. CASE Manager!Acquire(t) \/ Manager!Release(t)  BY <2>1 DEF Manager!Acquire, Manager!Release
  <2>2. CASE Manager!RelockThrows(t)  BY <1>3, <2>2 DEF Manager!RelockThrows
  <2>3. CASE Manager!EnterTry(t)
    <3>1. \E s : Manager!Proceed(t, s)  BY <2>3 DEF Manager!EnterTry
    <3> QED  BY <1>1, <3>1
  <2>4. CASE Manager!LeaveTry(t)  BY <1>2, <2>4 DEF Manager!LeaveTry
  <2> QED  BY <1>5, <2>1, <2>2, <2>3, <2>4 DEF Manager!LockStep
<1>6. CASE Manager!Find(t) \/ Manager!Skip(t) \/ Manager!Erase(t) \/ Manager!SetStatus(t) \/ Manager!KernelCall(t)
  <2>1. Manager!Done(t) \/ Manager!Throw(t)
    BY <1>6 DEF Manager!Find, Manager!Skip, Manager!Erase, Manager!SetStatus, Manager!KernelCall
  <2> QED  BY <1>2, <1>3, <2>1
<1>7. CASE Manager!Check(t) \/ Manager!Store(t) \/ Manager!StopMonitoring(t)
  BY <1>2, <1>7 DEF Manager!Check, Manager!Store, Manager!StopMonitoring
<1>8. CASE Manager!Each(t) \/ Manager!Handle(t) \/ Manager!Count(t) \/ Manager!Round(t)
  <2>1. \E s : Manager!Proceed(t, s)
    BY <1>8 DEF Manager!Each, Manager!Handle, Manager!Count, Manager!Round
  <2> QED  BY <1>1, <2>1
<1>9. CASE Manager!Recover(t)
  <2>1. (\E s : Manager!Proceed(t, s)) \/ Manager!EndProcess  BY <1>9 DEF Manager!Recover
  <2> QED  BY <1>1, <1>3, <2>1
<1> QED  BY <1>4, <1>5, <1>6, <1>7, <1>8, <1>9 DEF ManagerStep
-----------------------------------------------------------------------------
(* The registry: a kernel lacks its configuration or its status only while  *)
(* a thread is at a place of a path that holds kernels_mutex_.              *)

\* The places where the registry has the kernel and it is not yet, or no more,
\* configured; and where it has no status.
NoConfig == 3..7 \cup 18..22
NoStatusYet == 3..13 \cup 20..22

OnWay(places, n) == \E t \in ManagerThreads : \E k \in places : todo[t] = Path(k, n)

Registering(t) == \E k \in 1..22 : \E n \in Names : todo[t] = Path(k, n)

Registry ==
  /\ kernels \subseteq Names /\ Statuses
  /\ \A t \in ManagerThreads : Tame(todo[t]) \/ Registering(t)
  /\ \A n \in kernels : n \in configs \/ OnWay(NoConfig, n)
  /\ \A n \in kernels : status[n] # Manager!NoStatus \/ OnWay(NoStatusYet, n)

RegistryInv == (platform = "counts" /\ ~dead) => ManagerRuns /\ Registry

\* Two states of the threads that differ in what t has to do.
OnlyOne(t) ==
  /\ todo = [u \in ManagerThreads |-> todo[u]] /\ t \in ManagerThreads
  /\ \A u \in ManagerThreads \ {t} : todo'[u] = todo[u]

\* A kernel that stays registered while a thread is on its way: the thread goes
\* on, and leaves when it wrote the configuration, or the status.
LEMMA WayGoesOn ==
  ASSUME platform = "counts", ~dead', NEW t, OnlyOne(t), ManagerStep(t),
         NEW n, n \in kernels, n \in kernels', Statuses, n \in Names
  PROVE  /\ OnWay(NoConfig, n) => (n \in configs' \/ OnWay(NoConfig, n)')
         /\ OnWay(NoStatusYet, n) => (status'[n] # Manager!NoStatus \/ OnWay(NoStatusYet, n)')
<1>1. ASSUME NEW k \in 1..22, todo[t] = Path(k, n), k \in NoConfig \cup NoStatusYet
      PROVE  todo'[t] = PathNext(k, n) /\ PathEffect(k, n) /\ k # 22
  <2>1. PathMoves(t, k, n)  BY <1>1, PathGoes DEF OnPath, OnlyOne
  <2>2. k # 2  BY <1>1 DEF NoConfig, NoStatusYet
  <2>3. todo'[t] = PathNext(k, n) /\ PathEffect(k, n)  BY <2>1, <2>2 DEF PathMoves
  <2>4. ASSUME k = 22 PROVE FALSE
    <3>1. kernels' = kernels \ {n}  BY <2>3, <2>4 DEF PathEffect
    <3> QED  BY <3>1
  <2> QED  BY <2>3, <2>4
<1>2. ASSUME OnWay(NoConfig, n) PROVE n \in configs' \/ OnWay(NoConfig, n)'
  <2>1. PICK u \in ManagerThreads : \E k \in NoConfig : todo[u] = Path(k, n)  BY <1>2 DEF OnWay
  <2>2. PICK k \in NoConfig : todo[u] = Path(k, n)  BY <2>1
  <2>3. CASE u # t
    <3>1. todo'[u] = Path(k, n)  BY <2>2, <2>3 DEF OnlyOne
    <3> QED  BY <3>1 DEF OnWay
  <2>4. CASE u = t
    <3>1. k \in 1..22 /\ k \in NoConfig \cup NoStatusYet  BY DEF NoConfig
    <3>2. todo'[t] = PathNext(k, n) /\ PathEffect(k, n) /\ k # 22  BY <1>1, <2>2, <2>4, <3>1
    <3>3. CASE k = 7
      <4>1. configs' = configs \cup {n}  BY <3>2, <3>3 DEF PathEffect
      <4> QED  BY <4>1
    <3>4. CASE k # 7
      <4>1. k + 1 \in NoConfig /\ k \notin {13, 22}  BY <3>2, <3>4 DEF NoConfig
      <4>2. todo'[t] = Path(k + 1, n)  BY <3>2, <4>1 DEF PathNext
      <4> QED  BY <2>4, <4>1, <4>2 DEF OnWay
    <3> QED  BY <3>3, <3>4
  <2> QED  BY <2>3, <2>4
<1>3. ASSUME OnWay(NoStatusYet, n) PROVE status'[n] # Manager!NoStatus \/ OnWay(NoStatusYet, n)'
  <2>1. PICK u \in ManagerThreads : \E k \in NoStatusYet : todo[u] = Path(k, n)  BY <1>3 DEF OnWay
  <2>2. PICK k \in NoStatusYet : todo[u] = Path(k, n)  BY <2>1
  <2>3. CASE u # t
    <3>1. todo'[u] = Path(k, n)  BY <2>2, <2>3 DEF OnlyOne
    <3> QED  BY <3>1 DEF OnWay
  <2>4. CASE u = t
    <3>1. k \in 1..22 /\ k \in NoConfig \cup NoStatusYet  BY DEF NoStatusYet
    <3>2. todo'[t] = PathNext(k, n) /\ PathEffect(k, n) /\ k # 22  BY <1>1, <2>2, <2>4, <3>1
    <3>3. CASE k = 13
      <4>1. status' = [status EXCEPT ![n] = Manager!NewStatus]  BY <3>2, <3>3 DEF PathEffect
      <4>2. status'[n] = Manager!NewStatus  BY <4>1 DEF Statuses
      <4> QED  BY <4>2, StatusFacts
    <3>4. CASE k # 13
      <4>1. k + 1 \in NoStatusYet /\ k \notin {13, 22}  BY <3>2, <3>4 DEF NoStatusYet
      <4>2. todo'[t] = Path(k + 1, n)  BY <3>2, <4>1 DEF PathNext
      <4> QED  BY <2>4, <4>1, <4>2 DEF OnWay
    <3> QED  BY <3>3, <3>4
  <2> QED  BY <2>3, <2>4
<1> QED  BY <1>2, <1>3

\* What a step of a thread on a path comes to.
LEMMA PathChange ==
  ASSUME platform = "counts", ~dead', NEW t, OnlyOne(t), ManagerStep(t), Statuses,
         NEW k \in 1..22, NEW n \in Names, todo[t] = Path(k, n)
  PROVE  /\ Tame(todo'[t]) \/ \E i \in 1..22 : todo'[t] = Path(i, n)
         /\ kernels' \subseteq kernels \cup {n} /\ Statuses'
         /\ \A m \in kernels' \ kernels : todo'[t] = Path(3, m)
         /\ \A m \in configs \ configs' : todo'[t] = Path(18, m)
         /\ \A m \in Names : status[m] # Manager!NoStatus =>
              (status'[m] # Manager!NoStatus \/ todo'[t] = Path(20, m))
<1>1. PathMoves(t, k, n)  BY PathGoes DEF OnPath, OnlyOne
<1>2. CASE todo'[t] = <<>> /\ UNCHANGED <<kernels, configs, status>>
  <2>1. Statuses' /\ Tame(todo'[t])  BY <1>2, StatusKept, TameEmpty
  <2> QED  BY <1>2, <2>1
<1>3. CASE todo'[t] = PathNext(k, n) /\ PathEffect(k, n)
  <2>1. Tame(todo'[t]) \/ \E i \in 1..22 : todo'[t] = Path(i, n)
    <3>1. CASE k \in {13, 22}  BY <1>3, <3>1, TameFinish DEF PathNext
    <3>2. CASE k \notin {13, 22}
      <4>1. k + 1 \in 1..22 /\ todo'[t] = Path(k + 1, n)  BY <1>3, <3>2 DEF PathNext
      <4> QED  BY <4>1
    <3> QED  BY <3>1, <3>2
  <2>2. kernels' \subseteq kernels \cup {n} /\ \A m \in kernels' \ kernels : todo'[t] = Path(3, m)
    <3>1. CASE k = 2
      <4>1. kernels' = kernels \cup {n} /\ todo'[t] = Path(2 + 1, n)  BY <1>3, <3>1 DEF PathEffect, PathNext
      <4> QED  BY <4>1
    <3>2. CASE k # 2
      <4>1. kernels' \subseteq kernels  BY <1>3, <3>2 DEF PathEffect
      <4> QED  BY <4>1
    <3> QED  BY <3>1, <3>2
  <2>3. \A m \in configs \ configs' : todo'[t] = Path(18, m)
    <3>1. CASE k = 17
      <4>1. configs' = configs \ {n} /\ todo'[t] = Path(17 + 1, n)  BY <1>3, <3>1 DEF PathEffect, PathNext
      <4> QED  BY <4>1
    <3>2. CASE k # 17
      <4>1. configs \subseteq configs'  BY <1>3, <3>2 DEF PathEffect
      <4> QED  BY <4>1
    <3> QED  BY <3>1, <3>2
  <2>4. /\ Statuses'
        /\ \A m \in Names : status[m] # Manager!NoStatus =>
             (status'[m] # Manager!NoStatus \/ todo'[t] = Path(20, m))
    <3>1. CASE k = 13
      <4>1. status' = [status EXCEPT ![n] = Manager!NewStatus]  BY <1>3, <3>1 DEF PathEffect
      <4>2. Statuses' /\ \A m \in Names : status'[m] = IF m = n THEN Manager!NewStatus ELSE status[m]
        <5>1. "healthy" \in DOMAIN Manager!NewStatus  BY StatusFacts
        <5> QED  BY <4>1, <5>1, StatusSet
      <4> QED  BY <4>2, StatusFacts
    <3>2. CASE k = 19
      <4>1. status' = [status EXCEPT ![n] = Manager!NoStatus]  BY <1>3, <3>2 DEF PathEffect
      <4>2. todo'[t] = Path(19 + 1, n)  BY <1>3, <3>2 DEF PathNext
      <4>3. Statuses' /\ \A m \in Names : status'[m] = IF m = n THEN Manager!NoStatus ELSE status[m]
        <5>1. "healthy" \in DOMAIN Manager!NoStatus  BY StatusFacts
        <5> QED  BY <4>1, <5>1, StatusSet
      <4> QED  BY <4>2, <4>3
    <3>3. CASE k \notin {13, 19}
      <4>1. UNCHANGED status  BY <1>3, <3>3 DEF PathEffect
      <4> QED  BY <4>1, StatusKept
    <3> QED  BY <3>1, <3>2, <3>3
  <2> QED  BY <2>1, <2>2, <2>3, <2>4
<1> QED  BY <1>1, <1>2, <1>3 DEF PathMoves

LEMMA RegistryStep ==
  ASSUME platform = "counts", ~dead', ManagerRuns, Registry,
         NEW t, OnlyOne(t), ManagerStep(t)
  PROVE  Registry'
<1>1. /\ Tame(todo'[t]) \/ Registering(t)'
      /\ kernels' \subseteq Names /\ Statuses'
      /\ \A m \in kernels' \ kernels : todo'[t] = Path(3, m)
      /\ \A m \in configs \ configs' : todo'[t] = Path(18, m)
      /\ \A m \in Names : status[m] # Manager!NoStatus =>
           (status'[m] # Manager!NoStatus \/ todo'[t] = Path(20, m))
  <2>1. CASE Tame(todo[t])
    <3>1. Tame(todo'[t])  BY <2>1, TameGoes DEF OnlyOne
    <3>2. Head(todo[t]).do \notin Entering
      <4>1. todo[t] # <<>>  BY ManagerTakes
      <4>2. 1 \in 1..Len(todo[t]) /\ Head(todo[t]) = todo[t][1]
        <5>1. IsSeq(todo[t])  BY <2>1 DEF Tame, Good
        <5> QED  BY <4>1, <5>1, SeqFacts
      <4> QED  BY <2>1, <4>2 DEF Tame
    <3>3. TameChange /\ Statuses'  BY <3>2, TameEffect DEF Registry
    <3> QED  BY <3>1, <3>3 DEF TameChange, Registry
  <2>2. CASE Registering(t)
    <3>1. PICK k \in 1..22 : \E n \in Names : todo[t] = Path(k, n)  BY <2>2 DEF Registering
    <3>2. PICK n \in Names : todo[t] = Path(k, n)  BY <3>1
    <3>3. /\ Tame(todo'[t]) \/ \E i \in 1..22 : todo'[t] = Path(i, n)
          /\ kernels' \subseteq kernels \cup {n} /\ Statuses'
          /\ \A m \in kernels' \ kernels : todo'[t] = Path(3, m)
          /\ \A m \in configs \ configs' : todo'[t] = Path(18, m)
          /\ \A m \in Names : status[m] # Manager!NoStatus =>
               (status'[m] # Manager!NoStatus \/ todo'[t] = Path(20, m))
      BY <3>2, PathChange DEF Registry
    <3> QED  BY <3>3 DEF Registry, Registering
  <2> QED  BY <2>1, <2>2 DEF Registry, OnlyOne
<1>2. \A u \in ManagerThreads : Tame(todo'[u]) \/ Registering(u)'
  <2> SUFFICES ASSUME NEW u \in ManagerThreads, u # t PROVE Tame(todo'[u]) \/ Registering(u)'
    BY <1>1
  <2>1. todo'[u] = todo[u]  BY DEF OnlyOne
  <2> QED  BY <2>1 DEF Registry, Registering
<1>3. 3 \in NoConfig /\ 18 \in NoConfig /\ 3 \in NoStatusYet /\ 20 \in NoStatusYet  BY DEF NoConfig, NoStatusYet
<1>4. ASSUME NEW n, NEW k, todo'[t] = Path(k, n)
      PROVE  /\ k \in NoConfig => OnWay(NoConfig, n)'
             /\ k \in NoStatusYet => OnWay(NoStatusYet, n)'
  BY <1>4 DEF OnWay, OnlyOne
<1>5. ASSUME NEW n \in kernels' PROVE n \in configs' \/ OnWay(NoConfig, n)'
  <2>1. CASE n \notin kernels  BY <1>1, <1>3, <1>4, <2>1
  <2>2. CASE n \in kernels /\ n \in configs  BY <1>1, <1>3, <1>4, <2>2
  <2>3. CASE n \in kernels /\ n \notin configs
    <3>1. OnWay(NoConfig, n) /\ n \in Names /\ Statuses  BY <2>3 DEF Registry
    <3> QED  BY <2>3, <3>1, WayGoesOn
  <2> QED  BY <2>1, <2>2, <2>3
<1>6. ASSUME NEW n \in kernels' PROVE status'[n] # Manager!NoStatus \/ OnWay(NoStatusYet, n)'
  <2>1. CASE n \notin kernels  BY <1>1, <1>3, <1>4, <2>1
  <2>2. CASE n \in kernels /\ status[n] # Manager!NoStatus
    <3>1. n \in Names  BY <1>1
    <3> QED  BY <1>1, <1>3, <1>4, <2>2, <3>1
  <2>3. CASE n \in kernels /\ status[n] = Manager!NoStatus
    <3>1. OnWay(NoStatusYet, n) /\ n \in Names /\ Statuses  BY <2>3 DEF Registry
    <3> QED  BY <2>3, <3>1, WayGoesOn
  <2> QED  BY <2>1, <2>2, <2>3
<1> QED  BY <1>1, <1>2, <1>5, <1>6 DEF Registry

LEMMA PathNonEmpty ==
  ASSUME NEW k \in 1..22, NEW n
  PROVE  Path(k, n) # <<>>
<1>1. CASE k \in 1..8  BY <1>1 DEF Path
<1>2. CASE k \in 9..16  BY <1>2 DEF Path
<1>3. CASE k \in 17..22  BY <1>3 DEF Path
<1> QED  BY <1>1, <1>2, <1>3

\* A call starts a path, or a method that registers nothing.
LEMMA RegistryInvoke ==
  ASSUME ManagerRuns, Registry, NEW t, Manager!Invoke(t)
  PROVE  Registry'
<1>1. t \in Clients /\ t \in ManagerThreads  BY ManagerThreadFacts DEF Manager!Invoke
<1>2. PICK steps : /\ Manager!Call(t, steps)
                   /\ Tame(steps) \/ \E k \in 1..22 : \E n \in Names : steps = Path(k, n)
  <2>1. CASE \E n \in Names : \E steps \in Manager!Public(n) : Manager!Call(t, steps)
    <3>1. PICK n \in Names : \E steps \in Manager!Public(n) : Manager!Call(t, steps)  BY <2>1
    <3>2. PICK steps \in Manager!Public(n) : Manager!Call(t, steps)  BY <3>1
    <3>3. CASE steps \in Calm(n)
      <4>1. New(TameK, steps, {})  BY <3>3, ManagerCalm, ManagerKIsOne
      <4> QED  BY <3>2, <4>1, TameNew
    <3>4. CASE steps \in {Manager!RegisterKernel(n), Manager!UnregisterKernel(n)}
      <4>1. 1 \in 1..22 /\ 14 \in 1..22 /\ (steps = Path(1, n) \/ steps = Path(14, n))  BY <3>4, PathBegins
      <4> QED  BY <3>2, <4>1
    <3> QED  BY <3>3, <3>4, ManagerPublic
  <2>2. CASE \E step \in {"start", "stop", "pause", "resume", "optimize"} : Manager!Call(t, Manager!All(step))
    <3>1. \A step \in {"start", "stop", "pause", "resume", "optimize"} : step \in TameK.loops
      BY ManagerFields, ManagerKIsOne
    <3>2. \A step \in TameK.loops : New(TameK, Manager!All(step), {})  BY ManagerCalm, ManagerKIsOne
    <3> QED  BY <2>2, <3>1, <3>2, TameNew
  <2>3. CASE Manager!Call(t, Manager!Destructor)
    <3>1. New(TameK, Manager!Destructor, {})  BY ManagerCalm, ManagerKIsOne
    <3> QED  BY <2>3, <3>1, TameNew
  <2>4. CASE \A u \in Clients : Manager!Idle(u) /\ Manager!Call(t, Manager!Destructor)
    BY <1>1, <2>3, <2>4
  <2> QED  BY <2>1, <2>2, <2>4 DEF Manager!Invoke
<1>3. todo[t] = <<>> /\ todo' = [todo EXCEPT ![t] = steps] /\ UNCHANGED <<kernels, configs, status>>
  BY <1>2 DEF Manager!Call, Manager!Idle, Manager!Invoke, Manager!managed
<1>4. todo = [u \in ManagerThreads |-> todo[u]]
  <2>1. ManagerK.threads = ManagerThreads  BY ManagerFields, ManagerKIsOne
  <2> QED  BY <2>1 DEF ManagerRuns, Calls
<1>5. todo'[t] = steps /\ \A u \in ManagerThreads \ {t} : todo'[u] = todo[u]  BY <1>1, <1>3, <1>4
<1>6. \A places : \A n : places \subseteq 1..22 /\ OnWay(places, n) => OnWay(places, n)'
  <2> SUFFICES ASSUME NEW places, NEW n, places \subseteq 1..22, OnWay(places, n) PROVE OnWay(places, n)'
    OBVIOUS
  <2>1. PICK u \in ManagerThreads : \E k \in places : todo[u] = Path(k, n)  BY DEF OnWay
  <2>2. u # t  BY <1>3, <2>1, PathNonEmpty
  <2> QED  BY <1>5, <2>1, <2>2 DEF OnWay
<1>7. \A u \in ManagerThreads : Tame(todo'[u]) \/ Registering(u)'
  <2> SUFFICES ASSUME NEW u \in ManagerThreads PROVE Tame(todo'[u]) \/ Registering(u)'
    OBVIOUS
  <2>1. CASE u = t  BY <1>2, <1>5, <2>1 DEF Registering
  <2>2. CASE u # t
    <3>1. todo'[u] = todo[u]  BY <1>5, <2>2
    <3> QED  BY <3>1 DEF Registry, Registering
  <2> QED  BY <2>1, <2>2
<1>8. NoConfig \subseteq 1..22 /\ NoStatusYet \subseteq 1..22  BY DEF NoConfig, NoStatusYet
<1>9. Statuses'  BY <1>3, StatusKept DEF Registry
<1> QED  BY <1>3, <1>6, <1>7, <1>8, <1>9 DEF Registry

\* A thread at such a place will unlock kernels_mutex_.
LEMMA PathHolds ==
  ASSUME NEW k \in NoConfig \cup NoStatusYet, NEW n
  PROVE  \E i \in 1..Len(Path(k, n)) : Path(k, n)[i] = UnlockItem("kernels")
<1> DEFINE Last(j, i) == Len(Path(j, n)) = i /\ Path(j, n)[i] = UnlockItem("kernels")
<1>1. Last(4, 5)  BY DEF Path
<1>2. Last(7, 5)  BY DEF Path
<1>3. Last(9, 5)  BY DEF Path
<1>4. Last(13, 5)  BY DEF Path
<1>5. Last(17, 5)  BY DEF Path
<1>6. Last(19, 5)  BY DEF Path
<1>7. Last(3, 4)  BY DEF Path
<1>8. Last(5, 4)  BY DEF Path
<1>9. Last(8, 4)  BY DEF Path
<1>10. Last(10, 4)  BY DEF Path
<1>11. Last(18, 4)  BY DEF Path
<1>12. Last(20, 4)  BY DEF Path
<1>13. Last(6, 3)  BY DEF Path
<1>14. Last(11, 3)  BY DEF Path
<1>15. Last(21, 3)  BY DEF Path
<1>16. Last(12, 2)  BY DEF Path
<1>17. Last(22, 2)  BY DEF Path
<1> HIDE DEF Last
<1>18. \E i \in {2, 3, 4, 5} : Last(k, i)
  BY <1>1, <1>2, <1>3, <1>4, <1>5, <1>6, <1>7, <1>8, <1>9,
     <1>10, <1>11, <1>12, <1>13, <1>14, <1>15, <1>16, <1>17 DEF NoConfig, NoStatusYet
<1> QED  BY <1>18 DEF Last

LEMMA WayHolds ==
  ASSUME ManagerRuns, NEW n, OnWay(NoConfig, n) \/ OnWay(NoStatusYet, n)
  PROVE  holder["kernels"] # Free
<1>1. PICK t \in ManagerThreads : \E k \in NoConfig \cup NoStatusYet : todo[t] = Path(k, n)  BY DEF OnWay
<1>2. PICK i \in 1..Len(todo[t]) : todo[t][i] = UnlockItem("kernels")  BY <1>1, PathHolds
<1>3. todo[t][i].do = "unlock" /\ todo[t][i].m = "kernels"  BY <1>2, ItemFacts
<1>4. "kernels" \in Held(todo[t])  BY <1>3 DEF Held
<1>5. "kernels" \in ManagerK.mutexes  BY DEF ManagerK
<1>6. IsSeq(todo[t]) /\ Count(todo[t], "kernels") = IF holder["kernels"] = t THEN depth["kernels"] ELSE 0
  <2> HIDE DEF ManagerK
  <2> QED  BY <1>5 DEF ManagerRuns, Calls, Good
<1>7. Count(todo[t], "kernels") # 0  BY <1>4, <1>6, CountFacts
<1> QED  BY <1>6, <1>7, ManagerThreadFacts

LEMMA RegistryNextInv ==
  ASSUME RegistryInv, Manager!Next
  PROVE  RegistryInv'
<1> SUFFICES ASSUME platform' = "counts", ~dead' PROVE ManagerRuns' /\ Registry'
  BY DEF RegistryInv
<1>1. CASE Manager!SetAutoRecovery
  <2>1. /\ holder' = holder /\ depth' = depth /\ todo' = todo /\ dead' = dead /\ platform' = platform
        /\ kernels' = kernels /\ configs' = configs /\ status' = status
    BY <1>1 DEF Manager!SetAutoRecovery, Manager!callVars
  <2>2. ManagerRuns /\ Registry  BY <2>1 DEF RegistryInv
  <2>3. ManagerRuns'  BY <2>1, <2>2 DEF ManagerRuns
  <2>4. Registry'
    <3>1. \A places : \A n : OnWay(places, n)' <=> OnWay(places, n)  BY <2>1 DEF OnWay
    <3>2. \A t : Registering(t)' <=> Registering(t)  BY <2>1 DEF Registering
    <3>3. Statuses'  BY <2>1, <2>2, StatusKept DEF Registry
    <3> QED  BY <2>1, <2>2, <3>1, <3>2, <3>3 DEF Registry
  <2> QED  BY <2>3, <2>4
<1>2. CASE ~Manager!SetAutoRecovery
  <2>1. PICK t \in ManagerThreads : Manager!Invoke(t) \/ ManagerStep(t)
    BY <1>2 DEF Manager!Next, ManagerThreads, ManagerStep
  <2>2. ~dead /\ platform = "counts"  BY <2>1, ManagerAlive, ManagerPlatform
  <2>3. ManagerRuns /\ Registry  BY <2>2 DEF RegistryInv
  <2>4. ManagerRuns'  BY <2>3, ManagerNextInv DEF ManagerInv
  <2>5. CASE Manager!Invoke(t)  BY <2>3, <2>4, <2>5, RegistryInvoke
  <2>6. CASE ManagerStep(t)
    <3>1. OnlyOne(t)
      <4>1. ManagerSide(ManagerK, ManagerThreads)
        BY <2>3, ManagerKIsOne, ManagerThreadFacts DEF ManagerSide, ManagerRuns
      <4>2. Goes(ManagerK, ManagerThreads, t)  BY <2>6, <4>1, ManagerKIsOne, ManagerStepKeeps
      <4>3. \E s : todo' = [todo EXCEPT ![t] = s]  BY <4>2 DEF Goes
      <4>4. todo = [u \in ManagerThreads |-> todo[u]]
        <5>1. ManagerK.threads = ManagerThreads  BY ManagerFields, ManagerKIsOne
        <5> QED  BY <2>3, <5>1 DEF ManagerRuns, Calls
      <4> QED  BY <4>3, <4>4 DEF OnlyOne
    <3>2. Registry'  BY <2>2, <2>3, <2>6, <3>1, RegistryStep
    <3> QED  BY <2>4, <3>2
  <2> QED  BY <2>1, <2>5, <2>6
<1> QED  BY <1>1, <1>2

LEMMA RegistryInitInv ==
  ASSUME Manager!Init
  PROVE  RegistryInv
<1>1. /\ todo = [t \in ManagerThreads |-> IF t = Monitor THEN Manager!Do("round", 0) ELSE <<>>]
      /\ kernels = {} /\ status = [n \in Names |-> Manager!NoStatus] /\ dead = FALSE
  BY DEF Manager!Init, Manager!CallsInit, ManagerThreads
<1>2. ManagerRuns
  <2>1. ManagerInv  BY ManagerInitInv
  <2> QED  BY <1>1, <2>1 DEF ManagerInv
<1>3. Tame(Manager!Do("round", 0))
  <2>1. New(TameK, Manager!Do("round", 0), {})  BY ManagerWide, ManagerKIsOne
  <2> QED  BY <2>1, TameNew
<1>4. \A t \in ManagerThreads : Tame(todo[t])  BY <1>1, <1>3, TameEmpty
<1>5. Statuses  BY <1>1, StatusFacts DEF Statuses
<1> QED  BY <1>1, <1>2, <1>4, <1>5 DEF RegistryInv, Registry

LEMMA RegistryComplete ==
  ASSUME RegistryInv
  PROVE  Manager!RegisteredComplete
<1> SUFFICES ASSUME platform = "counts", ~dead, holder["kernels"] = Free, NEW n \in kernels
             PROVE  n \in configs /\ status[n] # Manager!NoStatus
  BY DEF Manager!RegisteredComplete
<1>1. ManagerRuns /\ Registry  BY DEF RegistryInv
<1>2. ~OnWay(NoConfig, n) /\ ~OnWay(NoStatusYet, n)  BY <1>1, WayHolds
<1> QED  BY <1>1, <1>2 DEF Registry
-----------------------------------------------------------------------------
(* Which steps of ParentKernel may part a child's flag from its state, and  *)
(* the methods that make none of them.                                      *)

\* The steps that start or stop a child, mark it active, or change which
\* children there are, and those that lead to them.
Sharp == {"start", "stop", "active", "check", "erase", "insert", "round", "running", "join"}

MildK == [
  threads |-> ParentThreads,
  mutexes |-> ParentK.mutexes,
  order |-> ParentK.mutexes \X SUBSET ParentK.mutexes,
  wide |-> {},
  base |-> ParentK.mutexes,
  loops |-> {"pause", "resume", "optimize", "usage", "message"},
  outer |-> {"unlock", "end"} \cup Sharp]

\* An item that holds none of them, at any depth.
Mild(i) == i.do \notin Sharp /\ \E h : Fits(MildK, i, h)

Milds(b) == IsSeq(b) /\ \A n \in 1..Len(b) : Mild(b[n])

\* A method without any, whatever is held.
Gentle(b) == \A h \in SUBSET ParentK.mutexes : New(MildK, b, h)

LEMMA NewMilds ==
  ASSUME NEW b, NEW h, New(MildK, b, h)
  PROVE  Milds(b)
<1>1. Sharp \subseteq MildK.outer  BY DEF MildK
<1> QED  BY <1>1 DEF New, Milds, Mild

LEMMA GentleMilds ==
  ASSUME NEW b, Gentle(b)
  PROVE  Milds(b)
<1>1. New(MildK, b, {})  BY DEF Gentle
<1> QED  BY <1>1, NewMilds

LEMMA MildUnlock ==
  ASSUME NEW m \in ParentK.mutexes
  PROVE  Mild(UnlockItem(m))
<1> DEFINE i == UnlockItem(m)
<1>1. i.do = "unlock" /\ i.m = m  BY DEF UnlockItem
<1> HIDE DEF i
<1>2. LocalNew(MildK, i, {})  BY <1>1 DEF LocalNew, MildK
<1>3. Mild(i)  BY <1>1, <1>2, FitsFolds DEF Mild, Sharp
<1> QED  BY <1>3 DEF i

EndItem(handler) == [do |-> "end", handler |-> handler]

LEMMA MildEnd ==
  ASSUME NEW handler, NEW h, New(MildK, handler, h)
  PROVE  Mild(EndItem(handler))
<1> DEFINE i == EndItem(handler)
<1>1. i.do = "end" /\ i.handler = handler  BY DEF EndItem
<1> HIDE DEF i
<1>2. LocalNew(MildK, i, h)  BY <1>1 DEF LocalNew, MildK
<1>3. Mild(i)  BY <1>1, <1>2, FitsFolds DEF Mild, Sharp
<1> QED  BY <1>3 DEF i

\* What a mild item unfolds into is mild.
LEMMA MildFacts ==
  ASSUME NEW i, Mild(i)
  PROVE  /\ i.do \notin Sharp
         /\ i.do = "lock" => i.m \in ParentK.mutexes /\ Milds(i.body)
         /\ i.do = "try" => Milds(i.body) /\ Mild(EndItem(i.handler))
         /\ i.do = "end" => Milds(i.handler)
         /\ i.do = "each" => i.arg \in MildK.loops
<1>1. PICK h : Fits(MildK, i, h)  BY DEF Mild
<1>2. LocalNew(MildK, i, h)  BY <1>1, FitsUnfolds
<1>3. \A b, g : New(MildK, b, g) => Milds(b) /\ Mild(EndItem(b))  BY NewMilds, MildEnd
<1>4. \A m, g : <<m, g>> \in MildK.order => m \in ParentK.mutexes  BY DEF MildK
<1> QED  BY <1>2, <1>3, <1>4 DEF LocalNew, Mild

LEMMA GentleDo ==
  ASSUME NEW d \in ParentPlain, d \notin Sharp, NEW arg
  PROVE  Gentle(Parent!Do(d, arg))
<1>1. /\ d \notin MildK.outer /\ d \notin MildK.wide
      /\ d \notin {"lock", "try", "each", "end", "unlock"}
  BY DEF ParentPlain, MildK
<1>2. \A h : New(MildK, <<[do |-> d, arg |-> arg]>>, h)  BY <1>1, NewStep
<1> QED  BY <1>2 DEF Parent!Do, Gentle

LEMMA GentleEach ==
  ASSUME NEW arg \in MildK.loops
  PROVE  Gentle(Parent!Do("each", arg))
<1> SUFFICES ASSUME NEW h \in SUBSET ParentK.mutexes PROVE New(MildK, Parent!Do("each", arg), h)
  BY DEF Gentle
<1>1. "each" \notin MildK.outer /\ h \subseteq MildK.base  BY DEF MildK, Sharp
<1>2. New(MildK, <<[do |-> "each", arg |-> arg]>>, h)  BY <1>1, NewWide
<1> QED  BY <1>2 DEF Parent!Do

LEMMA GentleLocked ==
  ASSUME NEW m \in ParentK.mutexes, NEW body, Gentle(body)
  PROVE  Gentle(Parent!Locked(m, body))
<1> SUFFICES ASSUME NEW h \in SUBSET ParentK.mutexes PROVE New(MildK, Parent!Locked(m, body), h)
  BY DEF Gentle
<1>1. "lock" \notin MildK.outer /\ "lock" \notin MildK.wide /\ <<m, h>> \in MildK.order
  BY DEF MildK, Sharp
<1>2. New(MildK, body, h \cup {m})  BY DEF Gentle
<1>3. New(MildK, <<[do |-> "lock", m |-> m, body |-> body]>>, h)  BY <1>1, <1>2, NewLocked
<1> QED  BY <1>3 DEF Parent!Locked

LEMMA GentleTry ==
  ASSUME NEW body, NEW handler, Gentle(body), Gentle(handler)
  PROVE  Gentle(Parent!Try(body, handler))
<1> SUFFICES ASSUME NEW h \in SUBSET ParentK.mutexes PROVE New(MildK, Parent!Try(body, handler), h)
  BY DEF Gentle
<1>1. "try" \notin MildK.outer /\ "try" \notin MildK.wide  BY DEF MildK, Sharp
<1>2. New(MildK, body, h) /\ New(MildK, handler, h)  BY DEF Gentle
<1>3. New(MildK, <<[do |-> "try", body |-> body, handler |-> handler]>>, h)  BY <1>1, <1>2, NewTry
<1> QED  BY <1>3 DEF Parent!Try

LEMMA GentleJoined ==
  ASSUME NEW a, NEW b, Gentle(a), Gentle(b)
  PROVE  Gentle(a \o b)
BY NewJoined DEF Gentle

LEMMA GentleEmpty == Gentle(<<>>)
BY NewEmpty DEF Gentle

LEMMA GentleMethods ==
  ASSUME NEW n
  PROVE  /\ Gentle(Parent!OptimizeChildKernel(n))
         /\ Gentle(Parent!SetResourceQuota(n)) /\ Gentle(Parent!GetResourceQuota(n))
         /\ Gentle(Parent!SetTaskDistribution(n)) /\ Gentle(Parent!HandleChildError(n))
         /\ Gentle(Parent!InitializeChildKernel(n)) /\ Gentle(Parent!CleanupChildKernel(n))
         /\ Gentle(Parent!UpdateMetrics) /\ Gentle(Parent!BalanceTasks)
         /\ Gentle(Parent!SendMessage(n))
<1>1. "children" \in ParentK.mutexes /\ "quotas" \in ParentK.mutexes /\ "distributions" \in ParentK.mutexes
      /\ "metrics" \in ParentK.mutexes
  BY DEF ParentK
<1>2. \A d \in {"find", "findQuota", "quota", "share", "eraseQuota", "eraseShare", "inactive",
                "flags", "collect", "message"} : d \in ParentPlain /\ d \notin Sharp
  BY DEF ParentPlain, Sharp
<1>3. \A d \in {"find", "findQuota", "quota", "share", "eraseQuota", "eraseShare", "inactive",
                "flags", "collect", "message"} : \A arg : Gentle(Parent!Do(d, arg))
  BY <1>2, GentleDo
<1>4. Gentle(Parent!GetChildKernel(n))  BY <1>1, <1>3, GentleLocked DEF Parent!GetChildKernel
<1>5. Gentle(Parent!OptimizeChildKernel(n))
  BY <1>3, <1>4, GentleJoined DEF Parent!OptimizeChildKernel
<1>6. Gentle(Parent!SetResourceQuota(n))  BY <1>1, <1>3, GentleLocked DEF Parent!SetResourceQuota
<1>7. Gentle(Parent!GetResourceQuota(n))  BY <1>1, <1>3, GentleLocked DEF Parent!GetResourceQuota
<1>8. Gentle(Parent!SetTaskDistribution(n))  BY <1>1, <1>3, GentleLocked DEF Parent!SetTaskDistribution
<1>9. Gentle(Parent!HandleChildError(n))
  BY <1>1, <1>3, GentleLocked DEF Parent!HandleChildError, Parent!UpdateChildStatus
<1>10. Gentle(Parent!UpdateMetrics) /\ Gentle(Parent!BalanceTasks)
  BY <1>1, <1>3, GentleLocked DEF Parent!UpdateMetrics, Parent!BalanceTasks
<1>11. Gentle(Parent!InitializeChildKernel(n))
  BY <1>4, <1>5, <1>6, <1>8, GentleJoined DEF Parent!InitializeChildKernel
<1>12. Gentle(Parent!CleanupChildKernel(n))
  <2>1. Gentle(Parent!Locked("distributions", Parent!Do("eraseShare", n)))  BY <1>1, <1>3, GentleLocked
  <2>2. Gentle(Parent!Do("eraseQuota", n) \o Parent!Locked("distributions", Parent!Do("eraseShare", n)))
    BY <1>3, <2>1, GentleJoined
  <2> QED  BY <1>1, <2>2, GentleLocked DEF Parent!CleanupChildKernel
<1>13. Gentle(Parent!SendMessage(n))
  <2>1. Gentle(Parent!Try(Parent!Do("message", n), Parent!HandleChildError(n)))
    BY <1>3, <1>9, GentleTry
  <2> QED  BY <1>4, <2>1, GentleJoined DEF Parent!SendMessage
<1> QED  BY <1>5, <1>6, <1>7, <1>8, <1>9, <1>10, <1>11, <1>12, <1>13

\* The loops over the children that start and stop none.
LEMMA GentleLoops ==
  ASSUME NEW step \in MildK.loops
  PROVE  /\ Gentle(Parent!AllChildren(step))
         /\ \A n : Gentle(Parent!EachBody(step, n))
<1>1. Gentle(Parent!AllChildren(step))
  <2>1. "children" \in ParentK.mutexes  BY DEF ParentK
  <2> QED  BY <2>1, GentleEach, GentleLocked DEF Parent!AllChildren
<1>2. ASSUME NEW n PROVE Gentle(Parent!EachBody(step, n))
  <2>1. /\ Gentle(Parent!OptimizeChildKernel(n)) /\ Gentle(Parent!GetResourceQuota(n))
        /\ Gentle(Parent!HandleChildError(n))
    BY GentleMethods
  <2>2. \A d \in {"pause", "resume", "message"} : d \in ParentPlain /\ d \notin Sharp
    BY DEF ParentPlain, Sharp
  <2>3. \A d \in {"pause", "resume", "message"} : Gentle(Parent!Try(Parent!Do(d, n), Parent!HandleChildError(n)))
    BY <2>1, <2>2, GentleDo, GentleTry
  <2>4. CASE step \in {"pause", "resume"}  BY <2>3, <2>4 DEF Parent!EachBody
  <2>5. CASE step = "optimize"  BY <2>1, <2>5 DEF Parent!EachBody
  <2>6. CASE step = "usage"
    <3>1. Gentle(Parent!Try(Parent!GetResourceQuota(n), Parent!HandleChildError(n)))  BY <2>1, GentleTry
    <3> QED  BY <2>6, <3>1, GentleEmpty DEF Parent!EachBody
  <2>7. CASE step = "message"  BY <2>3, <2>7, GentleEmpty DEF Parent!EachBody
  <2> QED  BY <2>4, <2>5, <2>6, <2>7 DEF MildK
<1> QED  BY <1>1, <1>2

\* The public methods of these kinds.
LEMMA GentlePublic ==
  ASSUME NEW n, NEW step \in {"optimize", "message"},
         NEW steps \in {Parent!Pause, Parent!Resume, Parent!SendMessage(n), Parent!OptimizeChildKernel(n),
           Parent!SetResourceQuota(n), Parent!SetTaskDistribution(n), Parent!BalanceTasks,
           Parent!UpdateMetrics, Parent!MonitorResourceUsage, Parent!AllChildren(step)}
  PROVE  Gentle(steps)
<1>1. \A loop \in {"pause", "resume", "optimize", "usage", "message"} : Gentle(Parent!AllChildren(loop))
  BY GentleLoops DEF MildK
<1>2. \A d \in {"quiet", "paused"} : d \in ParentPlain /\ d \notin Sharp  BY DEF ParentPlain, Sharp
<1>3. \A d \in {"quiet", "paused"} : \A arg : Gentle(Parent!Do(d, arg))  BY <1>2, GentleDo
<1>4. Gentle(Parent!Pause)  BY <1>1, <1>3, GentleJoined DEF Parent!Pause
<1>5. Gentle(Parent!Resume)  BY <1>1, <1>3, GentleJoined DEF Parent!Resume
<1>6. Gentle(Parent!MonitorResourceUsage)  BY <1>1 DEF Parent!MonitorResourceUsage
<1> QED  BY <1>1, <1>4, <1>5, <1>6, GentleMethods
-----------------------------------------------------------------------------
(* What a thread still has to do, when some of its items are of a set X and *)
(* the others mild.  Loops over the children, try blocks around a child and *)
(* the removal of a child occur only with child_kernels_mutex_ held.        *)

\* child_kernels_mutex_ is unlocked after the first k items.
Closes(s, k) == \E j \in (k + 1)..Len(s) : s[j].do = "unlock" /\ s[j].m = "children"

Guarded == {"each", "try", "erase"}

\* Beyond the first c items; held, when the mutex is held throughout.
Rest(X, s, c, held) ==
  /\ IsSeq(s)
  /\ \A k \in (c + 1)..Len(s) :
       Mild(s[k]) \/ (s[k] \in X /\ (s[k].do \in Guarded => held \/ Closes(s, k)))

\* s2 is b followed by what comes after the first k items of s.
Grafted(s2, b, s, k) ==
  /\ IsSeq(s2) /\ Len(s2) = Len(b) + (Len(s) - k) /\ Len(b) \in Nat /\ Len(s) \in Nat
  /\ \A n \in 1..Len(b) : s2[n] = b[n]
  /\ \A j \in 1..(Len(s) - k) : s2[Len(b) + j] = s[k + j]

LEMMA GraftedFacts ==
  ASSUME NEW b, NEW s, IsSeq(b), IsSeq(s), NEW k \in 0..Len(s)
  PROVE  Grafted(b \o After(s, k), b, s, k)
<1> DEFINE a == After(s, k)
<1>1. IsSeq(a) /\ Len(a) = Len(s) - k /\ \A j \in 1..(Len(s) - k) : a[j] = s[k + j]
  BY AfterFacts
<1> HIDE DEF a
<1>2. IsSeq(b) /\ IsSeq(a)  BY <1>1
<1>3. /\ IsSeq(b \o a) /\ Len(b \o a) = Len(b) + Len(a)
      /\ \A n \in 1..Len(b) : (b \o a)[n] = b[n]
      /\ \A n \in 1..Len(a) : (b \o a)[Len(b) + n] = a[n]
  BY <1>2, Joined
<1>4. Len(b) \in Nat /\ Len(s) \in Nat  BY SeqFacts
<1>5. \A j \in 1..(Len(s) - k) : (b \o a)[Len(b) + j] = s[k + j]  BY <1>1, <1>3
<1>6. Grafted(b \o a, b, s, k)  BY <1>1, <1>3, <1>4, <1>5 DEF Grafted
<1> QED  BY <1>6 DEF a

LEMMA ClosesGrafted ==
  ASSUME NEW s2, NEW b, NEW s, NEW k \in 0..Len(s), Grafted(s2, b, s, k)
  PROVE  /\ \A n \in 0..Len(b) : Closes(b, n) \/ Closes(s, k) => Closes(s2, n)
         /\ \A j \in 0..(Len(s) - k) : Closes(s, k + j) => Closes(s2, Len(b) + j)
<1>1. /\ Len(s2) = Len(b) + (Len(s) - k) /\ Len(b) \in Nat /\ Len(s) \in Nat
      /\ \A n \in 1..Len(b) : s2[n] = b[n]
      /\ \A j \in 1..(Len(s) - k) : s2[Len(b) + j] = s[k + j]
  BY DEF Grafted
<1>2. ASSUME NEW n \in 0..Len(b), Closes(b, n) PROVE Closes(s2, n)
  <2>1. PICK j \in (n + 1)..Len(b) : b[j].do = "unlock" /\ b[j].m = "children"  BY <1>2 DEF Closes
  <2>2. j \in 1..Len(b) /\ j \in (n + 1)..Len(s2)  BY <1>1, <2>1
  <2>3. s2[j] = b[j]  BY <1>1, <2>2
  <2> QED  BY <2>1, <2>2, <2>3 DEF Closes
<1>3. ASSUME NEW j \in 0..(Len(s) - k), Closes(s, k + j) PROVE Closes(s2, Len(b) + j)
  <2>1. PICK i \in (k + j + 1)..Len(s) : s[i].do = "unlock" /\ s[i].m = "children"  BY <1>3 DEF Closes
  <2>2. i - k \in 1..(Len(s) - k) /\ k + (i - k) = i /\ Len(b) + (i - k) \in (Len(b) + j + 1)..Len(s2)
    BY <1>1, <2>1
  <2>3. s2[Len(b) + (i - k)] = s[i]  BY <1>1, <2>2
  <2> QED  BY <2>1, <2>2, <2>3 DEF Closes
<1>4. ASSUME NEW n \in 0..Len(b), Closes(s, k) PROVE Closes(s2, n)
  <2>1. 0 \in 0..(Len(s) - k) /\ k + 0 = k /\ Len(b) + 0 = Len(b)  BY <1>1
  <2>2. Closes(s2, Len(b))  BY <1>3, <1>4, <2>1
  <2>3. PICK i \in (Len(b) + 1)..Len(s2) : s2[i].do = "unlock" /\ s2[i].m = "children"
    BY <2>2 DEF Closes
  <2>4. i \in (n + 1)..Len(s2)  BY <1>1, <2>3
  <2> QED  BY <2>3, <2>4 DEF Closes
<1> QED  BY <1>2, <1>3, <1>4

\* The hypotheses of RestGraft: s has been in order beyond c, and b is beyond c2.
Grafts(X, b, c2, held, s, c, g, k) ==
  /\ Rest(X, s, c, g) /\ c \in Nat /\ k \in 0..Len(s) /\ c <= k
  /\ Rest(X, b, c2, held) /\ c2 \in 0..Len(b) /\ (held => g \/ Closes(s, k))

LEMMA RestGraft ==
  ASSUME NEW X, NEW b, NEW c2, NEW held, NEW s, NEW c, NEW g, NEW k, Grafts(X, b, c2, held, s, c, g, k)
  PROVE  /\ Rest(X, b \o After(s, k), c2, g)
         /\ Closes(s, k) => Closes(b \o After(s, k), c2)
         /\ Len(b \o After(s, k)) >= Len(b)
         /\ \A n \in 1..Len(b) : (b \o After(s, k))[n] = b[n]
<1> DEFINE s2 == b \o After(s, k)
<1>0. /\ Rest(X, s, c, g) /\ c \in Nat /\ k \in 0..Len(s) /\ c <= k
      /\ Rest(X, b, c2, held) /\ c2 \in 0..Len(b) /\ (held => g \/ Closes(s, k))
  BY DEF Grafts
<1>1. Grafted(s2, b, s, k)  BY <1>0, GraftedFacts DEF Rest
<1> HIDE DEF s2
<1>2. /\ IsSeq(s2) /\ Len(s2) = Len(b) + (Len(s) - k) /\ Len(b) \in Nat /\ Len(s) \in Nat
      /\ \A n \in 1..Len(b) : s2[n] = b[n]
      /\ \A j \in 1..(Len(s) - k) : s2[Len(b) + j] = s[k + j]
  BY <1>1 DEF Grafted
<1>3. /\ \A n \in 0..Len(b) : Closes(b, n) \/ Closes(s, k) => Closes(s2, n)
      /\ \A j \in 0..(Len(s) - k) : Closes(s, k + j) => Closes(s2, Len(b) + j)
  BY <1>0, <1>1, ClosesGrafted
<1>4. ASSUME NEW n \in (c2 + 1)..Len(s2)
      PROVE  Mild(s2[n]) \/ (s2[n] \in X /\ (s2[n].do \in Guarded => g \/ Closes(s2, n)))
  <2>1. CASE n <= Len(b)
    <3>1. n \in 1..Len(b) /\ n \in (c2 + 1)..Len(b) /\ n \in 0..Len(b)  BY <1>0, <1>2, <1>4, <2>1
    <3>2. Mild(b[n]) \/ (b[n] \in X /\ (b[n].do \in Guarded => held \/ Closes(b, n)))
      BY <1>0, <3>1 DEF Rest
    <3> QED  BY <1>0, <1>2, <1>3, <3>1, <3>2
  <2>2. CASE ~(n <= Len(b))
    <3> DEFINE j == n - Len(b)
    <3>1. /\ j \in 1..(Len(s) - k) /\ j \in 0..(Len(s) - k) /\ Len(b) + j = n
          /\ k + j \in (c + 1)..Len(s)
      BY <1>0, <1>2, <1>4, <2>2
    <3> HIDE DEF j
    <3>2. Mild(s[k + j]) \/ (s[k + j] \in X /\ (s[k + j].do \in Guarded => g \/ Closes(s, k + j)))
      BY <1>0, <3>1 DEF Rest
    <3>3. s2[n] = s[k + j]  BY <1>2, <3>1
    <3> QED  BY <1>3, <3>1, <3>2, <3>3
  <2> QED  BY <2>1, <2>2
<1>5. Rest(X, s2, c2, g)  BY <1>2, <1>4 DEF Rest
<1>6. Closes(s, k) => Closes(s2, c2)  BY <1>0, <1>3
<1>7. Len(s2) >= Len(b)  BY <1>0, <1>2
<1> QED  BY <1>2, <1>5, <1>6, <1>7 DEF s2

LEMMA AfterNone ==
  ASSUME NEW s, IsSeq(s)
  PROVE  After(s, 0) = s
<1>1. 0 \in 0..Len(s) /\ Len(s) - 0 = Len(s)  BY SeqFacts
<1>2. IsSeq(After(s, 0)) /\ Len(After(s, 0)) = Len(s) - 0 /\ \A n \in 1..(Len(s) - 0) : After(s, 0)[n] = s[0 + n]
  BY <1>1, AfterFacts
<1>3. \A n \in 1..Len(s) : After(s, 0)[n] = s[n]  BY <1>1, <1>2
<1>4. Len(After(s, 0)) = Len(s) /\ IsSeq(After(s, 0))  BY <1>1, <1>2
<1> QED  BY <1>3, <1>4, SameSeq

LEMMA RestJoined ==
  ASSUME NEW X, NEW a, NEW b, Rest(X, a, 0, TRUE), Rest(X, b, 0, TRUE)
  PROVE  Rest(X, a \o b, 0, TRUE)
<1>1. IsSeq(a) /\ IsSeq(b) /\ Len(a) \in Nat /\ Len(b) \in Nat  BY SeqFacts DEF Rest
<1>2. Grafts(X, a, 0, TRUE, b, 0, TRUE, 0)
  <2>1. 0 \in 0..Len(a) /\ 0 \in 0..Len(b) /\ 0 \in Nat /\ 0 <= 0  BY <1>1
  <2> QED  BY <2>1, Zenon DEF Grafts
<1>3. Rest(X, a \o After(b, 0), 0, TRUE)  BY <1>2, RestGraft
<1> QED  BY <1>1, <1>3, AfterNone

LEMMA RestMilds ==
  ASSUME NEW b, Milds(b), NEW X, NEW held
  PROVE  Rest(X, b, 0, held)
BY DEF Milds, Rest

LEMMA RestOne ==
  ASSUME NEW X, NEW i \in X, NEW held, i.do \in Guarded => held
  PROVE  Rest(X, <<i>>, 0, held)
<1> DEFINE s == <<i>>
<1>1. IsSeq(s) /\ Len(s) = 1 /\ s[1] = i  BY OneItem
<1> HIDE DEF s
<1>2. Rest(X, s, 0, held)  BY <1>1 DEF Rest
<1> QED  BY <1>2 DEF s

\* The body of a scope of child_kernels_mutex_, with its end.
LEMMA RestScope ==
  ASSUME NEW X, NEW b, Rest(X, b, 0, TRUE)
  PROVE  Rest(X, b \o <<UnlockItem("children")>>, 0, FALSE)
<1> DEFINE i == UnlockItem("children")
           s == <<i>>
<1>1. i.do = "unlock" /\ i.m = "children" /\ Mild(i)
  BY MildUnlock DEF UnlockItem, ParentK
<1> HIDE DEF i
<1>2. IsSeq(s) /\ Len(s) = 1 /\ s[1] = i  BY OneItem
<1> HIDE DEF s
<1>3. Rest(X, s, 0, FALSE) /\ Closes(s, 0)  BY <1>1, <1>2 DEF Rest, Closes
<1>4. IsSeq(b) /\ Len(b) \in Nat  BY SeqFacts DEF Rest
<1>5. Grafts(X, b, 0, TRUE, s, 0, FALSE, 0)
  <2>1. 0 \in 0..Len(b) /\ 0 \in 0..Len(s) /\ 0 \in Nat /\ 0 <= 0  BY <1>2, <1>4
  <2> QED  BY <1>3, <2>1, Zenon DEF Grafts
<1>6. Rest(X, b \o After(s, 0), 0, FALSE)  BY <1>5, RestGraft
<1>7. Rest(X, b \o s, 0, FALSE)  BY <1>2, <1>6, AfterNone
<1> QED  BY <1>7 DEF s, i

\* A mutex held by a thread is one it will unlock, and the other way round.
LEMMA ClosesHolds ==
  ASSUME ParentRuns, NEW t \in ParentThreads
  PROVE  Closes(todo[t], 0) <=> holder["children"] = t
<1>1. IsSeq(todo[t])  BY DEF ParentRuns, Calls, Good
<1>2. "children" \in ParentK.mutexes  BY DEF ParentK
<1>3. Count(todo[t], "children") = IF holder["children"] = t THEN depth["children"] ELSE 0
  BY <1>2 DEF ParentRuns, Calls
<1>4. "children" \in Held(todo[t]) <=> Count(todo[t], "children") # 0  BY <1>1, CountFacts
<1>5. "children" \in Held(todo[t]) <=> Closes(todo[t], 0)  BY DEF Held, Closes
<1>6. holder["children"] = t => depth["children"] # 0
  BY <1>2, ParentThreadFacts DEF ParentRuns, Calls
<1> QED  BY <1>3, <1>4, <1>5, <1>6
-----------------------------------------------------------------------------
(* The items that are not mild: those of a registration, RegisterSet, and   *)
(* those of a loop over the children that are registered, LoopSet.          *)

TryItem(body, handler) == [do |-> "try", body |-> body, handler |-> handler]

RegisterBody(n) == Parent!Do("insert", n) \o Parent!InitializeChildKernel(n)
UnregisterBody(n) == Parent!Do("find", n) \o Parent!CleanupChildKernel(n) \o Parent!Do("erase", n)

RegisterSet ==
  {Item("insert", n) : n \in Names} \cup {Item("erase", n) : n \in Names}
    \cup {LockItem("children", RegisterBody(n)) : n \in Names}
    \cup {LockItem("children", UnregisterBody(n)) : n \in Names}

StartItem(n) == TryItem(Parent!Do("start", n) \o Parent!Do("active", n), Parent!HandleChildError(n))
CheckItem(n) == TryItem(Parent!Do("check", n), Parent!Do("inactive", n) \o Parent!HandleChildError(n))
RecoverItem(n) ==
  TryItem(Parent!Do("stop", n) \o Parent!Do("start", n) \o Parent!Do("active", n)
            \o Parent!OptimizeChildKernel(n),
          Parent!HandleChildError(n))

StartScope == LockItem("children", Parent!Do("each", "start"))
RoundScope ==
  LockItem("children", Parent!Do("each", "check") \o Parent!MonitorResourceUsage \o Parent!UpdateMetrics)

LoopSet(ch) ==
  {StartScope, RoundScope, Item("round", 0), Item("running", TRUE),
   Item("each", "start"), Item("each", "check")}
    \cup {StartItem(n) : n \in ch} \cup {CheckItem(n) : n \in ch}

LEMMA TryFacts ==
  ASSUME NEW b, NEW h
  PROVE  TryItem(b, h).do = "try" /\ TryItem(b, h).body = b /\ TryItem(b, h).handler = h
BY DEF TryItem

LEMMA RegisterKinds ==
  ASSUME NEW i \in RegisterSet
  PROVE  \/ \E n \in Names : i = Item("insert", n) /\ i.do = "insert" /\ i.arg = n
         \/ \E n \in Names : i = Item("erase", n) /\ i.do = "erase" /\ i.arg = n
         \/ i.do = "lock" /\ i.m = "children" /\ Rest(RegisterSet, i.body, 0, TRUE)
<1>1. /\ \A d, n : Item(d, n).do = d /\ Item(d, n).arg = n
      /\ \A b : LockItem("children", b).do = "lock" /\ LockItem("children", b).m = "children"
                /\ LockItem("children", b).body = b
  BY DEF Item, LockItem
<1>2. \A n : /\ Parent!Do("insert", n) = <<Item("insert", n)>>
             /\ Parent!Do("erase", n) = <<Item("erase", n)>>
  BY DEF Parent!Do, Item
<1>3. ASSUME NEW n \in Names
      PROVE  Rest(RegisterSet, RegisterBody(n), 0, TRUE) /\ Rest(RegisterSet, UnregisterBody(n), 0, TRUE)
  <2>1. Item("insert", n) \in RegisterSet /\ Item("erase", n) \in RegisterSet  BY DEF RegisterSet
  <2>2. Rest(RegisterSet, <<Item("insert", n)>>, 0, TRUE) /\ Rest(RegisterSet, <<Item("erase", n)>>, 0, TRUE)
    BY <2>1, RestOne
  <2>3. "find" \in ParentPlain /\ "find" \notin Sharp  BY DEF ParentPlain, Sharp
  <2>4. Gentle(Parent!InitializeChildKernel(n)) /\ Gentle(Parent!CleanupChildKernel(n)) /\ Gentle(Parent!Do("find", n))
    BY <2>3, GentleMethods, GentleDo
  <2>5. /\ Rest(RegisterSet, Parent!InitializeChildKernel(n), 0, TRUE)
        /\ Rest(RegisterSet, Parent!CleanupChildKernel(n), 0, TRUE)
        /\ Rest(RegisterSet, Parent!Do("find", n), 0, TRUE)
    BY <2>4, GentleMilds, RestMilds
  <2>6. Rest(RegisterSet, RegisterBody(n), 0, TRUE)  BY <1>2, <2>2, <2>5, RestJoined DEF RegisterBody
  <2>7. Rest(RegisterSet, Parent!Do("find", n) \o Parent!CleanupChildKernel(n), 0, TRUE)
    BY <2>5, RestJoined
  <2>8. Rest(RegisterSet, UnregisterBody(n), 0, TRUE)  BY <1>2, <2>2, <2>7, RestJoined DEF UnregisterBody
  <2> QED  BY <2>6, <2>8
<1>4. \/ \E n \in Names : i = Item("insert", n) \/ i = Item("erase", n)
      \/ \E n \in Names : i = LockItem("children", RegisterBody(n)) \/ i = LockItem("children", UnregisterBody(n))
  BY DEF RegisterSet
<1>5. ASSUME NEW n \in Names, i = Item("insert", n) \/ i = Item("erase", n)
      PROVE  \/ i = Item("insert", n) /\ i.do = "insert" /\ i.arg = n
             \/ i = Item("erase", n) /\ i.do = "erase" /\ i.arg = n
  BY <1>1, <1>5
<1>6. ASSUME NEW b, i = LockItem("children", b), Rest(RegisterSet, b, 0, TRUE)
      PROVE  i.do = "lock" /\ i.m = "children" /\ Rest(RegisterSet, i.body, 0, TRUE)
  BY <1>1, <1>6
<1> QED  BY <1>3, <1>4, <1>5, <1>6, Zenon

LEMMA LoopKinds ==
  ASSUME NEW ch, NEW i \in LoopSet(ch)
  PROVE  \/ i.do = "round" \/ (i.do = "running" /\ i.arg = TRUE)
         \/ i.do = "each" /\ i.arg \in {"start", "check"}
         \/ i.do = "try" /\ \E n \in ch : i \in {StartItem(n), CheckItem(n)}
         \/ i.do = "lock" /\ i.m = "children" /\ Rest(LoopSet(ch), i.body, 0, TRUE)
<1>1. /\ \A d, n : Item(d, n).do = d /\ Item(d, n).arg = n
      /\ \A b : LockItem("children", b).do = "lock" /\ LockItem("children", b).m = "children"
                /\ LockItem("children", b).body = b
  BY DEF Item, LockItem
<1>2. \A n : Parent!Do("each", n) = <<Item("each", n)>>  BY DEF Parent!Do, Item
<1> DEFINE X == LoopSet(ch)
<1>3. Item("each", "start") \in X /\ Item("each", "check") \in X  BY DEF LoopSet
<1> HIDE DEF X
<1>4. Rest(X, Parent!Do("each", "start"), 0, TRUE) /\ Rest(X, Parent!Do("each", "check"), 0, TRUE)
  BY <1>2, <1>3, RestOne
<1>5. Gentle(Parent!MonitorResourceUsage) /\ Gentle(Parent!UpdateMetrics)  BY GentlePublic
<1>6. Rest(X, Parent!MonitorResourceUsage, 0, TRUE) /\ Rest(X, Parent!UpdateMetrics, 0, TRUE)
  BY <1>5, GentleMilds, RestMilds
<1>7. Rest(X, Parent!Do("each", "check") \o Parent!MonitorResourceUsage \o Parent!UpdateMetrics, 0, TRUE)
  BY <1>4, <1>6, RestJoined
<1>8. i \in {StartScope, RoundScope} => i.do = "lock" /\ i.m = "children" /\ Rest(X, i.body, 0, TRUE)
  <2>1. ASSUME NEW b, i = LockItem("children", b), Rest(X, b, 0, TRUE)
        PROVE  i.do = "lock" /\ i.m = "children" /\ Rest(X, i.body, 0, TRUE)
    BY <1>1, <2>1
  <2> QED  BY <1>4, <1>7, <2>1, Zenon DEF StartScope, RoundScope
<1>9. ASSUME NEW n, i \in {StartItem(n), CheckItem(n)} PROVE i.do = "try"
  BY <1>9, TryFacts DEF StartItem, CheckItem
<1>10. \/ i \in {StartScope, RoundScope}
       \/ i \in {Item("round", 0), Item("running", TRUE)}
       \/ \E n \in {"start", "check"} : i = Item("each", n)
       \/ \E n \in ch : i \in {StartItem(n), CheckItem(n)}
  BY DEF LoopSet
<1>11. i \in {Item("round", 0), Item("running", TRUE)} => i.do = "round" \/ (i.do = "running" /\ i.arg = TRUE)
  BY <1>1
<1>12. (\E n \in {"start", "check"} : i = Item("each", n)) => i.do = "each" /\ i.arg \in {"start", "check"}
  BY <1>1
<1>13. (\E n \in ch : i \in {StartItem(n), CheckItem(n)}) => i.do = "try"  BY <1>9
<1>14. X = LoopSet(ch)  BY DEF X
<1> QED  BY <1>8, <1>10, <1>11, <1>12, <1>13, <1>14

\* What the set of children adds to LoopSet are guarded items.
LEMMA LoopGrows ==
  ASSUME NEW ch, NEW i \in LoopSet(ch), NEW ch2, ch \subseteq ch2 \/ i.do \notin Guarded
  PROVE  i \in LoopSet(ch2)
<1>1. ASSUME NEW n, i \in {StartItem(n), CheckItem(n)} PROVE i.do \in Guarded
  BY <1>1, TryFacts DEF StartItem, CheckItem, Guarded
<1>2. \/ i \in LoopSet(ch2)
      \/ \E n \in ch : i \in {StartItem(n), CheckItem(n)}
  BY DEF LoopSet
<1>3. ASSUME NEW n \in ch2, i \in {StartItem(n), CheckItem(n)} PROVE i \in LoopSet(ch2)
  BY <1>3 DEF LoopSet
<1>4. CASE ch \subseteq ch2  BY <1>2, <1>3, <1>4
<1>5. CASE i.do \notin Guarded  BY <1>1, <1>2, <1>5
<1> QED  BY <1>4, <1>5

-----------------------------------------------------------------------------
(* The loops over the children.                                             *)

\* Every item of a flattened sequence is an item of one of its sequences.
LEMMA FlattenItems ==
  ASSUME NEW seqs, NEW N \in Nat, Len(seqs) = N,
         \A i \in 1..N : IsSeq(seqs[i]), N = 0 => seqs = <<>>
  PROVE  /\ IsSeq(Flatten(seqs))
         /\ \A k \in 1..Len(Flatten(seqs)) : \E i \in 1..N : \E j \in 1..Len(seqs[i]) :
              Flatten(seqs)[k] = seqs[i][j]
<1> DEFINE f == CHOOSE g : Upto(seqs, N, g)
           From(s) == IsSeq(s) /\ \A k \in 1..Len(s) : \E i \in 1..N : \E j \in 1..Len(seqs[i]) :
                        s[k] = seqs[i][j]
<1>1. Upto(seqs, N, f)  BY FlattenExists
<1>2. N # 0 => Flatten(seqs) = f[N]
  <2>1. \A g : Upto(seqs, N, g) <=> g = [i \in 1..Len(seqs) |-> IF i = 1 THEN seqs[i] ELSE g[i-1] \o seqs[i]]
    BY DEF Upto
  <2>2. f = CHOOSE g : g = [i \in 1..Len(seqs) |-> IF i = 1 THEN seqs[i] ELSE g[i-1] \o seqs[i]]
    BY DEF Upto
  <2> HIDE DEF f
  <2> QED  BY <2>2 DEF Flatten
<1> HIDE DEF f
<1>3. \A i \in 1..N : f[i] = IF i = 1 THEN seqs[i] ELSE f[i-1] \o seqs[i]
  <2>1. f = [i \in 1..N |-> IF i = 1 THEN seqs[i] ELSE f[i-1] \o seqs[i]]  BY <1>1 DEF Upto
  <2> QED  BY ONLY <2>1
<1>4. ASSUME NEW a, NEW b, From(a), From(b) PROVE From(a \o b)
  <2> DEFINE c == a \o b
  <2>1. IsSeq(a) /\ IsSeq(b)  BY <1>4
  <2>2. /\ IsSeq(c) /\ Len(c) = Len(a) + Len(b) /\ Len(a) \in Nat /\ Len(b) \in Nat
        /\ \A n \in 1..Len(a) : c[n] = a[n]
        /\ \A n \in 1..Len(b) : c[Len(a) + n] = b[n]
    BY <2>1, Joined, SeqFacts
  <2> HIDE DEF c
  <2>3. ASSUME NEW n \in 1..Len(c)
        PROVE  \E i \in 1..N : \E j \in 1..Len(seqs[i]) : c[n] = seqs[i][j]
    <3>1. CASE n <= Len(a)
      <4>1. n \in 1..Len(a) /\ c[n] = a[n]  BY <2>2, <3>1
      <4> QED  BY <1>4, <4>1
    <3>2. CASE ~(n <= Len(a))
      <4>1. n - Len(a) \in 1..Len(b) /\ Len(a) + (n - Len(a)) = n  BY <2>2, <3>2
      <4>2. c[n] = b[n - Len(a)]  BY <2>2, <4>1
      <4>3. \E i \in 1..N : \E j \in 1..Len(seqs[i]) : b[n - Len(a)] = seqs[i][j]  BY <1>4, <4>1, Zenon
      <4> QED  BY <4>2, <4>3
    <3> QED  BY <3>1, <3>2
  <2>4. From(c)  BY <2>2, <2>3
  <2> QED  BY <2>4 DEF c
<1>5. \A i \in 1..N : From(seqs[i])  OBVIOUS
<1>6. From(<<>>)  BY NoItem
<1> HIDE DEF From
<1>7. ASSUME N # 0 PROVE From(f[N])
  <2> DEFINE Bad == {i \in 1..N : ~From(f[i])}
  <2>1. SUFFICES ASSUME Bad # {} PROVE FALSE  BY <1>7
  <2>2. Bad \in SUBSET Nat  OBVIOUS
  <2>3. 1 \notin Bad  BY <1>3, <1>5, <1>7
  <2>4. ASSUME NEW i \in 1..N, i # 1, i - 1 \notin Bad PROVE i \notin Bad
    <3>1. i - 1 \in 1..N  BY <2>4
    <3>2. From(f[i-1]) /\ From(seqs[i])  BY <1>5, <2>4, <3>1
    <3>3. From(f[i-1] \o seqs[i])  BY <1>4, <3>2
    <3> QED  BY <1>3, <2>4, <3>3
  <2>5. Bad \subseteq 1..N  OBVIOUS
  <2> HIDE DEF Bad
  <2>6. PICK i \in Bad : \A j \in Bad : i <= j  BY <2>1, <2>2, LeastNatural
  <2>7. i \in 1..N /\ i # 1  BY <2>3, <2>5
  <2>8. i - 1 \notin Bad  BY <2>2, <2>6, <2>7
  <2> QED  BY <2>4, <2>6, <2>7, <2>8
<1>8. N = 0 => Flatten(seqs) = <<>>  BY DEF Flatten
<1>9. From(Flatten(seqs))  BY <1>2, <1>6, <1>7, <1>8
<1> QED  BY <1>9 DEF From

\* The order in which a loop takes the children is one of them.
LEMMA ChildrenListed ==
  ASSUME NEW S, IsFiniteSet(S), NEW i \in 1..Cardinality(S)
  PROVE  Parent!SetToSeq(S)[i] \in S
<1> DEFINE N == Cardinality(S)
           F == {f \in [1..N -> S] : \A a, b \in DOMAIN f : f[a] = f[b] => a = b}
<1>1. ExistsBijection(1..N, S)  BY FS_CardinalityType
<1>2. PICK f : f \in Bijection(1..N, S)  BY <1>1 DEF ExistsBijection
<1>3. f \in [1..N -> S] /\ \A a, b \in DOMAIN f : f[a] = f[b] => a = b
  BY <1>2 DEF Bijection, Injection, IsInjective
<1>4. Parent!SetToSeq(S) = CHOOSE g \in [1..N -> S] : \A a, b \in DOMAIN g : g[a] = g[b] => a = b
  BY DEF Parent!SetToSeq, Parent!IsInjective, Parent!Cardinality, Cardinality
<1>5. (CHOOSE g \in [1..N -> S] : \A a, b \in DOMAIN g : g[a] = g[b] => a = b) \in [1..N -> S]
  BY <1>3
<1>6. Parent!SetToSeq(S) \in [1..N -> S]  BY <1>4, <1>5
<1> QED  BY <1>6

-----------------------------------------------------------------------------
(* What the threads of a ParentKernel have to do when the children that are *)
(* marked active run.                                                       *)

\* A thread that registers or unregisters children.
Enrolling(s) == Rest(RegisterSet, s, 0, FALSE)

\* The items with which a thread is at work on the child n: c of them.
Work(s, c, n, ac, mo) ==
  \/ c = 2 /\ s[1] = Item("start", n) /\ s[2] = Item("active", n)
  \/ c = 1 /\ s[1] = Item("active", n) /\ mo[n] # "stopped"
  \/ c = 1 /\ s[1] = Item("check", n)
  \/ c = 1 /\ s[1] = RecoverItem(n) /\ n \notin ac
  \/ c = 3 /\ s[1] = Item("stop", n) /\ s[2] = Item("start", n) /\ s[3] = Item("active", n)
       /\ n \notin ac

\* They need that n is registered and the mutex of the children held.
Front(s, c, ch, ac, mo) ==
  c # 0 => c <= Len(s) /\ Closes(s, c) /\ \E n \in ch : Work(s, c, n, ac, mo)

\* A thread in a loop over the children.
Looping(s, ch, ac, mo) ==
  \E c \in 0..3 : Rest(LoopSet(ch), s, c, FALSE) /\ Front(s, c, ch, ac, mo)

\* stop(), before it has joined the monitoring thread.
Halting(s) ==
  /\ IsSeq(s)
  /\ \E c \in 1..3 :
       /\ c <= Len(s) /\ s[c] = Item("join", Monitor)
       /\ c >= 2 => s[c - 1] = Item("join", Worker)
       /\ c = 3 => s[1] = Item("quiet", FALSE)

Lives(s, ch, ac, mo, ru) == Enrolling(s) \/ Looping(s, ch, ac, mo) \/ (ru /\ Halting(s))

LEMMA ClosesEarlier ==
  ASSUME NEW s, IsSeq(s), NEW k \in Nat, Closes(s, k), NEW j \in Nat, j <= k
  PROVE  Closes(s, j)
<1>1. Len(s) \in Nat  BY SeqFacts
<1> QED  BY <1>1 DEF Closes

\* What other threads do to the children does not matter to a thread: they mark
\* and start none that it needs stopped, or have the mutex that it has not.
Calmer(ch, ac, mo, ch2, ac2, mo2) ==
  ch \subseteq ch2 /\ ac2 \subseteq ac /\ \A n \in ch : mo[n] # "stopped" => mo2[n] # "stopped"

LEMMA LoopingStays ==
  ASSUME NEW s, NEW ch, NEW ac, NEW mo, Looping(s, ch, ac, mo),
         NEW ch2, NEW ac2, NEW mo2,
         Calmer(ch, ac, mo, ch2, ac2, mo2) \/ ~Closes(s, 0)
  PROVE  Looping(s, ch2, ac2, mo2)
<1>1. PICK c \in 0..3 : Rest(LoopSet(ch), s, c, FALSE) /\ Front(s, c, ch, ac, mo)  BY DEF Looping
<1>2. IsSeq(s) /\ Len(s) \in Nat  BY <1>1, SeqFacts DEF Rest
<1>3. ASSUME ~Closes(s, 0), NEW k \in Nat PROVE ~Closes(s, k)
  <2>1. 0 <= k  BY <1>3
  <2> QED  BY <1>2, <1>3, <2>1, ClosesEarlier
<1>4. ASSUME NEW k \in (c + 1)..Len(s), s[k] \in LoopSet(ch), s[k].do \in Guarded => Closes(s, k)
      PROVE  s[k] \in LoopSet(ch2)
  <2>1. ch \subseteq ch2 \/ s[k].do \notin Guarded  BY <1>2, <1>3, <1>4 DEF Calmer
  <2> QED  BY <1>4, <2>1, LoopGrows
<1>5. Rest(LoopSet(ch2), s, c, FALSE)  BY <1>1, <1>4 DEF Rest
<1>6. Front(s, c, ch2, ac2, mo2)
  <2>1. CASE ~Closes(s, 0)
    <3>1. ~Closes(s, c)  BY <1>3, <2>1
    <3> QED  BY <1>1, <3>1 DEF Front
  <2>2. CASE Calmer(ch, ac, mo, ch2, ac2, mo2)
    <3>1. ch \subseteq ch2 /\ ac2 \subseteq ac /\ \A n \in ch : mo[n] # "stopped" => mo2[n] # "stopped"
      BY <2>2 DEF Calmer
    <3> QED  BY <1>1, <3>1 DEF Front, Work
  <2> QED  BY <2>1, <2>2
<1> QED  BY <1>5, <1>6 DEF Looping

\* What a thread may come to.
LEMMA FirstOf ==
  ASSUME NEW s, NEW ch, NEW ac, NEW mo, NEW ru, Lives(s, ch, ac, mo, ru), s # <<>>
  PROVE  \/ Mild(s[1])
         \/ \E n \in Names : s[1].do = "insert" /\ s[1].arg = n
         \/ s[1].do = "erase" /\ Closes(s, 1)
         \/ s[1].do \in {"round", "each", "lock", "try", "join"}
         \/ s[1].do = "running" /\ s[1].arg = TRUE
         \/ Halting(s) /\ s[1].do = "quiet"
         \/ /\ Closes(s, 1) /\ s[1].arg \in ch
            /\ \/ s[1].do \in {"start", "check"}
               \/ s[1].do = "active" /\ mo[s[1].arg] # "stopped"
               \/ s[1].do = "stop" /\ s[1].arg \notin ac
<1>0. IsSeq(s)  BY DEF Lives, Enrolling, Looping, Halting, Rest
<1>1. Len(s) \in Nat /\ Len(s) >= 1 /\ 1 \in (0 + 1)..Len(s)  BY <1>0, SeqFacts
<1>i. \A d, n : Item(d, n).do = d /\ Item(d, n).arg = n  BY ItemFacts
<1>2. CASE Enrolling(s)
  <2>1. Mild(s[1]) \/ (s[1] \in RegisterSet /\ (s[1].do \in Guarded => Closes(s, 1)))
    BY <1>1, <1>2 DEF Enrolling, Rest
  <2>2. s[1] \in RegisterSet =>
          \/ \E n \in Names : s[1].do = "insert" /\ s[1].arg = n
          \/ s[1].do = "erase"
          \/ s[1].do = "lock"
    BY RegisterKinds
  <2>3. "erase" \in Guarded  BY DEF Guarded
  <2> QED  BY <2>1, <2>2, <2>3
<1>3. CASE Looping(s, ch, ac, mo)
  <2>1. PICK c \in 0..3 : Rest(LoopSet(ch), s, c, FALSE) /\ Front(s, c, ch, ac, mo)  BY <1>3 DEF Looping
  <2>2. CASE c = 0
    <3>1. Mild(s[1]) \/ s[1] \in LoopSet(ch)  BY <1>1, <2>1, <2>2 DEF Rest
    <3>2. s[1] \in LoopSet(ch) =>
            s[1].do \in {"round", "each", "lock", "try"} \/ (s[1].do = "running" /\ s[1].arg = TRUE)
      BY LoopKinds
    <3> QED  BY <3>1, <3>2
  <2>3. CASE c # 0
    <3>1. PICK n \in ch :
            \/ s[1] = Item("start", n)
            \/ s[1] = Item("active", n) /\ mo[n] # "stopped"
            \/ s[1] = Item("check", n)
            \/ s[1] = RecoverItem(n)
            \/ s[1] = Item("stop", n) /\ n \notin ac
      BY <2>1, <2>3 DEF Front, Work
    <3>2. Closes(s, 1)
      <4>1. Closes(s, c) /\ c \in Nat /\ 1 <= c /\ 1 \in Nat  BY <2>1, <2>3 DEF Front
      <4> QED  BY <1>0, <4>1, ClosesEarlier
    <3>3. s[1] = RecoverItem(n) => s[1].do = "try"  BY TryFacts DEF RecoverItem
    <3> QED  BY <1>i, <3>1, <3>2, <3>3
  <2> QED  BY <2>2, <2>3
<1>4. CASE Halting(s)
  <2>1. s[1] \in {Item("join", Monitor), Item("join", Worker), Item("quiet", FALSE)}
    <3>1. PICK c \in 1..3 :
            /\ c <= Len(s) /\ s[c] = Item("join", Monitor)
            /\ c >= 2 => s[c - 1] = Item("join", Worker)
            /\ c = 3 => s[1] = Item("quiet", FALSE)
      BY <1>4 DEF Halting
    <3>2. CASE c = 1  BY <3>1, <3>2
    <3>3. CASE c = 2
      <4>1. c - 1 = 1 /\ c >= 2  BY <3>3
      <4> QED  BY <3>1, <4>1
    <3>4. CASE c = 3  BY <3>1, <3>4
    <3>5. c = 1 \/ c = 2 \/ c = 3  OBVIOUS
    <3> QED  BY <3>2, <3>3, <3>4, <3>5, Zenon
  <2>2. s[1].do \in {"join", "quiet"}  BY <1>i, <2>1
  <2> QED  BY <1>4, <2>2
<1> QED  BY <1>2, <1>3, <1>4 DEF Lives

-----------------------------------------------------------------------------
(* What a step does to the children.                                        *)

ChildrenRight ==
  /\ children \subseteq Names /\ mode = [n \in Names |-> mode[n]]
  /\ \A n \in active : n \in children /\ mode[n] # "stopped"

Quietly ==
  /\ Calmer(children, active, mode, children', active', mode')

LEMMA MovedFacts ==
  /\ \A m : Parent!Moved("start", m) # "stopped"
  /\ \A m : m # "stopped" =>
       \A step \in {"pause", "resume", "message", "flags"} : Parent!Moved(step, m) # "stopped"
BY DEF Parent!Moved

LEMMA StepState ==
  ASSUME ParentRuns, ChildrenRight, NEW t \in ParentThreads, Parent!ThreadStep(t),
         Lives(todo[t], children, active, mode, running)
  PROVE  /\ ChildrenRight' /\ (running => running')
         /\ Quietly \/ Closes(todo[t], 0)
<1> DEFINE s == todo[t]
           n == s[1].arg
<1>1. IsSeq(s)  BY DEF ParentRuns, Calls, Good
<1>2. s # <<>> => Head(s) = s[1]  BY <1>1, SeqFacts
<1>3. \A d : Parent!At(t, d) => s # <<>> /\ s[1].do = d  BY <1>2 DEF Parent!At
<1>4. s # <<>> =>
         \/ Mild(s[1])
         \/ \E x \in Names : s[1].do = "insert" /\ s[1].arg = x
         \/ s[1].do = "erase" /\ Closes(s, 1)
         \/ s[1].do \in {"round", "each", "lock", "try", "join"}
         \/ s[1].do = "running" /\ s[1].arg = TRUE
         \/ Halting(s) /\ s[1].do = "quiet"
         \/ /\ Closes(s, 1) /\ s[1].arg \in children
            /\ \/ s[1].do \in {"start", "check"}
               \/ s[1].do = "active" /\ mode[s[1].arg] # "stopped"
               \/ s[1].do = "stop" /\ s[1].arg \notin active
  BY FirstOf
<1>5. Mild(s[1]) => s[1].do \notin {"start","stop","active","check","erase","insert","round","running","join"}
  BY MildFacts DEF Sharp
<1>6. Closes(s, 1) => Closes(s, 0)
  <2>1. 1 \in Nat /\ 0 \in Nat /\ 0 <= 1  OBVIOUS
  <2> HIDE DEF s
  <2> QED  BY <1>1, <2>1, ClosesEarlier
<1>7. /\ children \subseteq Names /\ mode = [x \in Names |-> mode[x]]
      /\ \A x \in active : x \in children /\ mode[x] # "stopped"
  BY DEF ChildrenRight
<1>a. s # <<>> => Parent!Now(t) = s[1]  BY <1>2 DEF Parent!Now
<1> SUFFICES ChildrenRight' /\ (running => running') /\ (Quietly \/ Closes(s, 0))  OBVIOUS
<1> HIDE DEF s
<1>8. ASSUME children' = children, active' = active, mode' = mode, running' = running
      PROVE  ChildrenRight' /\ (running => running') /\ Quietly
  BY <1>7, <1>8 DEF ChildrenRight, Quietly, Calmer
<1>r. ASSUME children' \subseteq Names, mode' = mode,
             \A x \in active' : x \in children' /\ mode[x] # "stopped"
      PROVE  ChildrenRight'
  BY <1>7, <1>r DEF ChildrenRight
<1>9. CASE \/ Parent!LockStep(t) /\ UNCHANGED <<Parent!parent, calls, faults>>
           \/ Parent!Each(t) \/ Parent!Collect(t) \/ Parent!Round(t) \/ Parent!LeaveQueue(t) \/ Parent!Join(t)
  <2>1. children' = children /\ active' = active /\ mode' = mode /\ running' = running
    BY <1>9 DEF Parent!Each, Parent!Collect, Parent!Round, Parent!LeaveQueue, Parent!Join, Parent!parent
  <2> QED  BY <1>8, <2>1
<1>10. CASE Parent!Find(t)
  <2>1. /\ s # <<>> /\ s[1].do \in {"find", "insert", "findQuota"} /\ mode' = mode /\ running' = running
        /\ children' = children \/ (s[1].do = "insert" /\ children' = children \cup {n})
        /\ active' \subseteq active
    BY <1>3, <1>a, <1>10 DEF Parent!Find
  <2>2. s[1].do = "insert" => n \in Names  BY <1>4, <1>5, <2>1
  <2>3. children \subseteq children' /\ children' \subseteq Names  BY <1>7, <2>1, <2>2
  <2> QED  BY <1>7, <2>1, <2>3 DEF ChildrenRight, Quietly, Calmer
<1>11. CASE Parent!Table(t)
  <2>1. /\ s # <<>> /\ mode' = mode /\ running' = running
        /\ IF s[1].do = "erase" THEN children' = children \ {n} /\ active' = active \ {n}
                                ELSE children' = children /\ active' = active
    BY <1>3, <1>a, <1>11 DEF Parent!Table
  <2>2. s[1].do = "erase" => Closes(s, 0)  BY <1>4, <1>5, <1>6, <2>1
  <2>3. CASE s[1].do = "erase"
    <3>1. children' = children \ {n} /\ active' = active \ {n}  BY <2>1, <2>3
    <3>2. ChildrenRight'  BY <1>7, <1>r, <2>1, <3>1
    <3> QED  BY <2>1, <2>2, <2>3, <3>2
  <2>4. CASE s[1].do # "erase"  BY <1>8, <2>1, <2>4
  <2> QED  BY <2>3, <2>4
<1>12. CASE Parent!Activity(t)
  <2>1. /\ s # <<>> /\ mode' = mode /\ running' = running /\ children' = children
        /\ s[1].do \in {"active", "inactive"}
        /\ active' = IF s[1].do = "active" THEN active \cup {n} ELSE active \ {n}
    BY <1>3, <1>a, <1>12 DEF Parent!Activity
  <2>2. s[1].do = "active" => Closes(s, 0) /\ n \in children /\ mode[n] # "stopped"
    BY <1>4, <1>5, <1>6, <2>1
  <2>3. CASE s[1].do = "active"
    <3>1. active' = active \cup {n}  BY <2>1, <2>3
    <3>2. ChildrenRight'  BY <1>7, <1>r, <2>1, <2>2, <2>3, <3>1
    <3> QED  BY <2>1, <2>2, <2>3, <3>2
  <2>4. CASE s[1].do # "active"  BY <1>7, <2>1, <2>4 DEF ChildrenRight, Quietly, Calmer
  <2> QED  BY <2>3, <2>4
<1>13. CASE Parent!ChildCall(t)
  <2> DEFINE step == s[1].do
  <2>1. /\ s # <<>> /\ running' = running /\ children' = children /\ active' = active
        /\ step \in {"start", "stop", "pause", "resume", "message", "flags"}
        /\ \/ mode' = [mode EXCEPT ![n] = Parent!Moved(step, @)]
           \/ mode' = [mode EXCEPT ![n] = IF step = "start" THEN @ ELSE Parent!Moved(step, @)]
    BY <1>3, <1>a, <1>13 DEF Parent!ChildCall
  <2> HIDE DEF step
  <2>2. /\ mode' = [x \in Names |-> mode'[x]]
        /\ \A x \in Names : x # n => mode'[x] = mode[x]
        /\ n \in Names => mode'[n] \in {mode[n], Parent!Moved(step, mode[n])}
    BY <1>7, <2>1
  <2>3. CASE step = "stop"
    <3>1. Closes(s, 0) /\ n \notin active  BY <1>4, <1>5, <1>6, <2>1, <2>3 DEF step
    <3>2. ASSUME NEW x \in active PROVE x \in children' /\ mode'[x] # "stopped"
      BY <1>7, <2>1, <2>2, <3>1, <3>2
    <3>3. active' = active  BY <2>1
    <3>4. \A x \in active' : x \in children' /\ mode'[x] # "stopped"  BY <3>2, <3>3
    <3>5. children' \subseteq Names /\ mode' = [x \in Names |-> mode'[x]]  BY <1>7, <2>1, <2>2
    <3>6. ChildrenRight'  BY <3>4, <3>5 DEF ChildrenRight
    <3> QED  BY <2>1, <3>1, <3>6
  <2>4. CASE step # "stop"
    <3>1. ASSUME NEW x \in Names, mode[x] # "stopped" PROVE mode'[x] # "stopped"
      BY <2>1, <2>2, <2>4, <3>1, MovedFacts
    <3> QED  BY <1>7, <2>1, <2>2, <3>1 DEF ChildrenRight, Quietly, Calmer
  <2> QED  BY <2>3, <2>4
<1>14. CASE Parent!Check(t)
  <2>1. /\ s # <<>> /\ s[1].do = "check" /\ mode' = mode /\ running' = running /\ children' = children
        /\ active' = IF mode[n] # "stopped" THEN active \cup {n} ELSE active \ {n}
    BY <1>3, <1>a, <1>14 DEF Parent!Check
  <2>2. Closes(s, 0) /\ n \in children  BY <1>4, <1>5, <1>6, <2>1
  <2>3. \A x \in active' : x \in children' /\ mode[x] # "stopped"
    <3>1. CASE mode[n] # "stopped"
      <4>1. active' = active \cup {n}  BY <2>1, <3>1
      <4> QED  BY <1>7, <2>1, <2>2, <3>1, <4>1
    <3>2. CASE mode[n] = "stopped"
      <4>1. active' = active \ {n}  BY <2>1, <3>2
      <4> QED  BY <1>7, <2>1, <4>1
    <3> QED  BY <3>1, <3>2
  <2>4. ChildrenRight'  BY <1>7, <1>r, <2>1, <2>3
  <2> QED  BY <2>1, <2>2, <2>4
<1>15. CASE Parent!SetFlags(t)
  <2>1. /\ s # <<>> /\ children' = children /\ active' = active /\ mode' = mode
        /\ running' = IF s[1].do = "running" THEN n ELSE running
    BY <1>3, <1>a, <1>15 DEF Parent!SetFlags
  <2>2. s[1].do = "running" => n = TRUE  BY <1>4, <1>5, <2>1
  <2> QED  BY <1>7, <2>1, <2>2 DEF ChildrenRight, Quietly, Calmer
<1> QED  BY <1>9, <1>10, <1>11, <1>12, <1>13, <1>14, <1>15 DEF Parent!ThreadStep

-----------------------------------------------------------------------------
(* What a step leaves a thread to do.                                       *)

\* The first k items are replaced by b: the first alone, or up to a handler.
Replaces(t, b, k) ==
  /\ k \in 1..Len(todo[t]) /\ IsSeq(b) /\ todo'[t] = b \o After(todo[t], k)
  /\ \/ todo[t][k].do = "end"
     \/ k = 1 /\ (todo[t][1].do = "round" => (running => b = Parent!MonitorRound))

Survives(t) ==
  \/ dead'
  \/ todo'[t] = <<>> /\ t \notin {Monitor, Worker}
  \/ /\ Lives(todo'[t], children', active', mode', running')
     /\ \E b, k : Replaces(t, b, k)

\* The items that may occur where the thread is.
Place(X) == X = RegisterSet \/ (X = LoopSet(children) /\ children' = children)

LEMMA PlaceKinds ==
  ASSUME NEW X, Place(X), NEW i \in X
  PROVE  /\ i.do \notin {"end", "unlock"}
         /\ i.do = "lock" => i.m = "children" /\ Rest(X, i.body, 0, TRUE)
<1>1. CASE X = RegisterSet
  <2>1. \/ i.do \in {"insert", "erase"}
        \/ i.do = "lock" /\ i.m = "children" /\ Rest(RegisterSet, i.body, 0, TRUE)
    BY <1>1, RegisterKinds
  <2> QED  BY <1>1, <2>1
<1>2. CASE X = LoopSet(children)
  <2>1. \/ i.do \in {"round", "running", "each", "try"}
        \/ i.do = "lock" /\ i.m = "children" /\ Rest(LoopSet(children), i.body, 0, TRUE)
    BY <1>2, LoopKinds
  <2> QED  BY <1>2, <2>1
<1> QED  BY <1>1, <1>2 DEF Place

LEMMA PlaceLives ==
  ASSUME NEW X, Place(X), NEW s, Rest(X, s, 0, FALSE)
  PROVE  Lives(s, children', active', mode', running')
<1>1. CASE X = RegisterSet  BY <1>1 DEF Lives, Enrolling
<1>2. CASE X = LoopSet(children) /\ children' = children
  <2>1. Rest(LoopSet(children'), s, 0, FALSE)  BY <1>2
  <2>2. 0 \in 0..3 /\ Front(s, 0, children', active', mode')  BY DEF Front
  <2>3. Looping(s, children', active', mode')  BY <2>1, <2>2 DEF Looping
  <2> QED  BY <2>3 DEF Lives
<1> QED  BY <1>1, <1>2 DEF Place

\* An exception that leaves the thread: it ends, or is caught.
LEMMA ThrowCaught ==
  ASSUME ParentRuns, NEW t \in ParentThreads, todo[t] # <<>>, Parent!Throw(t)
  PROVE  \/ dead'
         \/ todo'[t] = <<>> /\ t \notin {Monitor, Worker}
         \/ \E k \in 1..Len(todo[t]) :
              todo[t][k].do = "end" /\ todo'[t] = todo[t][k].handler \o After(todo[t], k)
<1> DEFINE s == todo[t]
           ends == {n \in DOMAIN s : s[n].do = "end"}
           last == IF ends = {} THEN Len(s) ELSE CHOOSE n \in ends : \A j \in ends : n <= j
<1>1. IsSeq(s)  BY DEF ParentRuns, Calls, Good
<1>2. DOMAIN s = 1..Len(s)  BY <1>1, SeqFacts
<1>3. IF ends = {} /\ t \in {Monitor, Worker} THEN dead' = TRUE
      ELSE todo' = [todo EXCEPT ![t] = IF ends = {} THEN <<>> ELSE s[last].handler \o SubSeq(s, last + 1, Len(s))]
  BY DEF Parent!Throw, Parent!Min, Parent!EndProcess
<1>4. CASE ends = {} /\ t \in {Monitor, Worker}  BY <1>3, <1>4
<1>5. CASE ends = {} /\ t \notin {Monitor, Worker}
  <2>1. todo' = [todo EXCEPT ![t] = <<>>]  BY <1>3, <1>5
  <2>2. todo'[t] = <<>>  BY <2>1, ParentTodo
  <2> QED  BY <1>5, <2>2
<1>6. CASE ends # {}
  <2>1. ends \in SUBSET Nat  BY <1>2
  <2>2. \E n \in ends : \A j \in ends : n <= j
    <3> HIDE DEF ends
    <3> QED  BY <1>6, <2>1, LeastNatural
  <2>3. last \in ends
    <3> HIDE DEF ends
    <3> QED  BY <1>6, <2>2
  <2>4. todo' = [todo EXCEPT ![t] = s[last].handler \o After(s, last)]
    <3> HIDE DEF ends, last
    <3> QED  BY <1>3, <1>6 DEF After
  <2> HIDE DEF last
  <2>5. last \in 1..Len(s) /\ s[last].do = "end"  BY <1>2, <2>3
  <2> DEFINE x == s[last].handler \o After(s, last)
  <2>6. todo'[t] = x
    <3>1. todo' = [todo EXCEPT ![t] = x]  BY <2>4
    <3> HIDE DEF x
    <3> QED  BY <3>1, ParentTodo
  <2> QED  BY <2>5, <2>6
<1> QED  BY <1>4, <1>5, <1>6

\* Whatever was under way before the handler is forgotten.
LEMMA ThrowSurvives ==
  ASSUME ParentRuns, NEW t \in ParentThreads, todo[t] # <<>>, Parent!Throw(t),
         NEW X, Place(X), NEW c \in Nat, Rest(X, todo[t], c, FALSE),
         \A j \in 1..c : todo[t][j].do # "end"
  PROVE  Survives(t)
<1> DEFINE s == todo[t]
<1>0. Rest(X, s, c, FALSE) /\ \A j \in 1..c : s[j].do # "end"  OBVIOUS
<1>1. IsSeq(s) /\ Len(s) \in Nat  BY SeqFacts DEF Rest
<1>2. ASSUME NEW k \in 1..Len(s), s[k].do = "end", todo'[t] = s[k].handler \o After(s, k)
      PROVE  Survives(t)
  <2> HIDE DEF s
  <2>1. k \in (c + 1)..Len(s) /\ c <= k /\ k \in 0..Len(s)  BY <1>0, <1>1, <1>2
  <2>2. Mild(s[k])  BY <1>0, <1>2, <2>1, PlaceKinds DEF Rest
  <2>3. Milds(s[k].handler)  BY <1>2, <2>2, MildFacts
  <2>4. Rest(X, s[k].handler, 0, FALSE) /\ IsSeq(s[k].handler)  BY <2>3, RestMilds DEF Milds
  <2>5. 0 \in 0..Len(s[k].handler)  BY <2>4, SeqFacts
  <2>6. Grafts(X, s[k].handler, 0, FALSE, s, c, FALSE, k)  BY <1>0, <2>1, <2>4, <2>5, Zenon DEF Grafts
  <2>h. Rest(X, s[k].handler \o After(s, k), 0, FALSE)  BY <2>6, RestGraft
  <2>7. Rest(X, todo'[t], 0, FALSE)  BY <1>2, <2>h
  <2>8. Lives(todo'[t], children', active', mode', running')  BY <2>7, PlaceLives
  <2>9. Replaces(t, s[k].handler, k)  BY <1>2, <2>4 DEF Replaces, s
  <2> QED  BY <2>8, <2>9 DEF Survives
<1> QED  BY <1>2, ThrowCaught DEF Survives

\* The first item is replaced by b.
Ahead(t, X, c, b, c2, held) ==
  /\ todo' = [todo EXCEPT ![t] = b \o Tail(@)] /\ todo[t] # <<>>
  /\ c \in 0..1 /\ Rest(X, todo[t], c, FALSE)
  /\ c2 \in 0..Len(b) /\ Rest(X, b, c2, held) /\ (held => Closes(todo[t], 1))

\* What the thread then has to do.
Headed(t, X, b, c2) ==
  /\ Rest(X, todo'[t], c2, FALSE)
  /\ Closes(todo[t], 1) => Closes(todo'[t], c2)
  /\ Len(todo'[t]) >= Len(b) /\ \A n \in 1..Len(b) : todo'[t][n] = b[n]
  /\ todo'[t] = b \o After(todo[t], 1) /\ IsSeq(b) /\ 1 \in 1..Len(todo[t])

LEMMA AheadFacts ==
  ASSUME ParentRuns, NEW t \in ParentThreads,
         NEW X, NEW c, NEW b, NEW c2, NEW held, Ahead(t, X, c, b, c2, held)
  PROVE  Headed(t, X, b, c2)
<1> DEFINE s == todo[t]
<1>1. IsSeq(s) /\ s # <<>> /\ IsSeq(b)  BY DEF Ahead, Rest
<1>2. Len(s) \in Nat /\ Len(s) >= 1 /\ Tail(s) = After(s, 1)  BY <1>1, SeqFacts
<1>3. todo' = [todo EXCEPT ![t] = b \o After(s, 1)]  BY <1>2 DEF Ahead
<1>4. todo'[t] = b \o After(s, 1)  BY <1>3, ParentTodo
<1>5. Grafts(X, b, c2, held, s, c, FALSE, 1)
  <2>1. c \in Nat /\ c <= 1 /\ 1 \in 0..Len(s)  BY <1>2 DEF Ahead
  <2> QED  BY <2>1, Zenon DEF Grafts, Ahead
<1> HIDE DEF s
<1>a. Rest(X, b \o After(s, 1), c2, FALSE)  BY <1>5, RestGraft
<1>b. Closes(s, 1) => Closes(b \o After(s, 1), c2)  BY <1>5, RestGraft
<1>c. Len(b \o After(s, 1)) >= Len(b)  BY <1>5, RestGraft
<1>d. \A n \in 1..Len(b) : (b \o After(s, 1))[n] = b[n]  BY <1>5, RestGraft
<1>6. /\ Rest(X, b \o After(s, 1), c2, FALSE)
      /\ Closes(s, 1) => Closes(b \o After(s, 1), c2)
      /\ Len(b \o After(s, 1)) >= Len(b)
      /\ \A n \in 1..Len(b) : (b \o After(s, 1))[n] = b[n]
  BY <1>a, <1>b, <1>c, <1>d
<1>7. 1 \in 1..Len(s)  BY <1>2
<1> QED  BY <1>1, <1>4, <1>6, <1>7 DEF s, Headed

LEMMA AheadSurvives ==
  ASSUME ParentRuns, NEW t \in ParentThreads,
         NEW X, NEW c, NEW b, NEW held, Ahead(t, X, c, b, 0, held), Place(X),
         todo[t][1].do = "round" => (running => b = Parent!MonitorRound)
  PROVE  Survives(t)
<1>h. Headed(t, X, b, 0)  BY AheadFacts
<1>1. Rest(X, todo'[t], 0, FALSE)  BY <1>h DEF Headed
<1>2. todo'[t] = b \o After(todo[t], 1) /\ IsSeq(b) /\ 1 \in 1..Len(todo[t])  BY <1>h DEF Headed
<1>3. Lives(todo'[t], children', active', mode', running')  BY <1>1, PlaceLives
<1>4. Replaces(t, b, 1)  BY <1>2 DEF Replaces
<1> QED  BY <1>3, <1>4 DEF Survives

LEMMA MildsEmpty == Milds(<<>>)
BY NoItem DEF Milds

LEMMA DoneSurvives ==
  ASSUME ParentRuns, NEW t \in ParentThreads, todo[t] # <<>>, todo[t][1].do # "round",
         NEW X, NEW c \in 0..1, Rest(X, todo[t], c, FALSE), Place(X),
         todo' = [todo EXCEPT ![t] = <<>> \o Tail(@)]
  PROVE  Survives(t)
<1>1. Rest(X, <<>>, 0, FALSE)  BY MildsEmpty, RestMilds
<1>e. 0 \in 0..Len(<<>>)  BY NoItem
<1>2. Ahead(t, X, c, <<>>, 0, FALSE)  BY <1>1, <1>e, Zenon DEF Ahead
<1> QED  BY <1>2, AheadSurvives

LEMMA MildsOne ==
  ASSUME NEW i, Mild(i)
  PROVE  Milds(<<i>>)
<1> DEFINE s == <<i>>
<1>1. IsSeq(s) /\ Len(s) = 1 /\ s[1] = i  BY OneItem
<1> HIDE DEF s
<1>2. Milds(s)  BY <1>1 DEF Milds
<1> QED  BY <1>2 DEF s

LEMMA MildsJoined ==
  ASSUME NEW a, NEW b, Milds(a), Milds(b)
  PROVE  Milds(a \o b)
<1>1. Rest({}, a, 0, TRUE) /\ Rest({}, b, 0, TRUE)  BY RestMilds
<1>2. Rest({}, a \o b, 0, TRUE)  BY <1>1, RestJoined
<1>3. \A k \in 1..Len(a \o b) : k \in (0 + 1)..Len(a \o b)  OBVIOUS
<1> QED  BY <1>2, <1>3 DEF Rest, Milds

-----------------------------------------------------------------------------
(* The form of every step, whatever the thread has to do.                   *)

Takes(t, b) == todo' = [todo EXCEPT ![t] = b \o Tail(@)]

Rounds(step) ==
  [n \in 1..Cardinality(children) |-> Parent!EachBody(step, Parent!SetToSeq(children)[n])]

\* What comes in place of an item that is done.
Unfolding(i) ==
  CASE i.do = "lock" -> i.body \o <<UnlockItem(i.m)>>
    [] i.do = "try" -> i.body \o <<EndItem(i.handler)>>
    [] i.do = "each" -> Flatten(Rounds(i.arg))
    [] i.do = "check" -> IF mode[i.arg] # "stopped" THEN <<>> ELSE Parent!RecoverChild(i.arg)
    [] i.do = "round" -> IF running THEN Parent!MonitorRound ELSE <<>>
    [] OTHER -> <<>>

LEMMA UnfoldingFacts ==
  ASSUME NEW i
  PROVE  /\ i.do = "lock" => Unfolding(i) = i.body \o <<UnlockItem(i.m)>>
         /\ i.do = "try" => Unfolding(i) = i.body \o <<EndItem(i.handler)>>
         /\ i.do = "each" => Unfolding(i) = Flatten(Rounds(i.arg))
         /\ i.do = "check" =>
              Unfolding(i) = IF mode[i.arg] # "stopped" THEN <<>> ELSE Parent!RecoverChild(i.arg)
         /\ i.do = "round" => Unfolding(i) = IF running THEN Parent!MonitorRound ELSE <<>>
         /\ i.do \notin {"lock", "try", "each", "check", "round"} => Unfolding(i) = <<>>
<1>1. ASSUME i.do = "lock" PROVE Unfolding(i) = i.body \o <<UnlockItem(i.m)>>  BY <1>1, Zenon DEF Unfolding
<1>2. ASSUME i.do = "try" PROVE Unfolding(i) = i.body \o <<EndItem(i.handler)>>  BY <1>2, Zenon DEF Unfolding
<1>3. ASSUME i.do = "each" PROVE Unfolding(i) = Flatten(Rounds(i.arg))  BY <1>3 DEF Unfolding
<1>4. ASSUME i.do = "check"
      PROVE  Unfolding(i) = IF mode[i.arg] # "stopped" THEN <<>> ELSE Parent!RecoverChild(i.arg)
  BY <1>4 DEF Unfolding
<1>5. ASSUME i.do = "round" PROVE Unfolding(i) = IF running THEN Parent!MonitorRound ELSE <<>>
  BY <1>5 DEF Unfolding
<1>6. ASSUME i.do \notin {"lock", "try", "each", "check", "round"} PROVE Unfolding(i) = <<>>
  BY <1>6 DEF Unfolding
<1> QED  BY <1>1, <1>2, <1>3, <1>4, <1>5, <1>6

Unfolded == {"lock", "try", "each", "check", "round"}
Throwing == {"lock", "find", "insert", "findQuota", "start", "stop", "pause", "resume", "message", "flags"}

LEMMA StepForms ==
  ASSUME ParentRuns, NEW t \in ParentThreads, Parent!ThreadStep(t)
  PROVE  /\ todo[t] # <<>>
         /\ \/ todo[t][1].do = "running"
            \/ Takes(t, Unfolding(todo[t][1]))
            \/ todo[t][1].do \in Throwing /\ Parent!Throw(t)
<1> DEFINE i == todo[t][1]
<1>1. IsSeq(todo[t])  BY DEF ParentRuns, Calls, Good
<1>2. \A d : Parent!At(t, d) => todo[t] # <<>> /\ i.do = d /\ Parent!Now(t) = i
  BY <1>1, SeqFacts DEF Parent!At, Parent!Now
<1>3. i.do \notin Unfolded => Unfolding(i) = <<>>  BY UnfoldingFacts DEF Unfolded
<1>4. \A b : Parent!Becomes(t, b) \/ Parent!Proceed(t, b) => Takes(t, b)
  BY DEF Parent!Becomes, Parent!Proceed, Takes
<1>5. Parent!Done(t) \/ Parent!Advance(t) => Takes(t, <<>>)
  BY DEF Parent!Done, Parent!Advance, Parent!Becomes, Parent!Proceed, Takes
<1> DEFINE Form == \/ i.do = "running" \/ Takes(t, Unfolding(i))
                   \/ i.do \in Throwing /\ Parent!Throw(t)
<1> SUFFICES todo[t] # <<>> /\ Form  OBVIOUS
<1>6. CASE Parent!Acquire(t)
  <2>1. Parent!At(t, "lock") /\ Parent!Becomes(t, Parent!Now(t).body \o <<UnlockItem(Parent!Now(t).m)>>)
    BY <1>6 DEF Parent!Acquire, UnlockItem
  <2>2. Unfolding(i) = i.body \o <<UnlockItem(i.m)>>  BY <1>2, <2>1, UnfoldingFacts
  <2> QED  BY <1>2, <1>4, <2>1, <2>2
<1>7. CASE Parent!RelockThrows(t)  BY <1>2, <1>7 DEF Parent!RelockThrows, Throwing
<1>8. CASE Parent!Release(t)
  <2>1. Parent!At(t, "unlock") /\ Parent!Advance(t)  BY <1>8 DEF Parent!Release
  <2> QED  BY <1>2, <1>3, <1>5, <2>1 DEF Unfolded
<1>9. CASE Parent!EnterTry(t)
  <2>1. Parent!At(t, "try") /\ Parent!Proceed(t, Parent!Now(t).body \o <<EndItem(Parent!Now(t).handler)>>)
    BY <1>9 DEF Parent!EnterTry, EndItem
  <2>2. Unfolding(i) = i.body \o <<EndItem(i.handler)>>  BY <1>2, <2>1, UnfoldingFacts
  <2> QED  BY <1>2, <1>4, <2>1, <2>2
<1>10. CASE Parent!LeaveTry(t)
  <2>1. Parent!At(t, "end") /\ Parent!Done(t)  BY <1>10 DEF Parent!LeaveTry
  <2> QED  BY <1>2, <1>3, <1>5, <2>1 DEF Unfolded
<1>11. CASE Parent!Find(t)
  <2>1. PICK step \in {"find", "insert", "findQuota"} : Parent!At(t, step)  BY <1>11 DEF Parent!Find
  <2>2. Parent!Done(t) \/ Parent!Throw(t)  BY <1>11 DEF Parent!Find
  <2> QED  BY <1>2, <1>3, <1>5, <2>1, <2>2 DEF Unfolded, Throwing
<1>12. CASE Parent!Table(t)
  <2>1. PICK step \in {"quota", "share", "eraseQuota", "eraseShare", "erase"} : Parent!At(t, step)
    BY <1>12 DEF Parent!Table
  <2>2. Parent!Done(t)  BY <1>12 DEF Parent!Table
  <2> QED  BY <1>2, <1>3, <1>5, <2>1, <2>2 DEF Unfolded
<1>13. CASE Parent!Activity(t)
  <2>1. PICK step \in {"active", "inactive"} : Parent!At(t, step)  BY <1>13 DEF Parent!Activity
  <2>2. Parent!Done(t)  BY <1>13 DEF Parent!Activity
  <2> QED  BY <1>2, <1>3, <1>5, <2>1, <2>2 DEF Unfolded
<1>14. CASE Parent!ChildCall(t)
  <2>1. PICK step \in {"start", "stop", "pause", "resume", "message", "flags"} : Parent!At(t, step)
    BY <1>14 DEF Parent!ChildCall
  <2>2. Parent!Done(t) \/ Parent!Throw(t)  BY <1>14 DEF Parent!ChildCall
  <2> QED  BY <1>2, <1>3, <1>5, <2>1, <2>2 DEF Unfolded, Throwing
<1>15. CASE Parent!Each(t)
  <2>1. Parent!At(t, "each")  BY <1>15 DEF Parent!Each
  <2>2. Parent!Proceed(t, Flatten(Rounds(i.arg)))
    <3>1. Parent!Now(t) = i  BY <1>2, <2>1
    <3> HIDE DEF i
    <3>2. Parent!Cardinality(children) = Cardinality(children)  BY DEF Parent!Cardinality, Cardinality
    <3> DEFINE N == Cardinality(children)
    <3>a. N = Parent!Cardinality(children)  BY <3>2
    <3> HIDE DEF N
    <3> DEFINE seqs == [n \in 1..N |-> Parent!EachBody(i.arg, Parent!SetToSeq(children)[n])]
    <3>3. Parent!Proceed(t, Parent!FlattenSeq(seqs))  BY <1>15, <3>1, <3>a DEF Parent!Each
    <3>4. seqs = Rounds(i.arg)  BY DEF Rounds, N
    <3> HIDE DEF seqs
    <3>5. Parent!FlattenSeq(seqs) = Flatten(seqs)  BY DEF Parent!FlattenSeq, Flatten
    <3> QED  BY <3>3, <3>4, <3>5
  <2>3. Unfolding(i) = Flatten(Rounds(i.arg))  BY <1>2, <2>1, UnfoldingFacts
  <2> QED  BY <1>2, <1>4, <2>1, <2>2, <2>3
<1>16. CASE Parent!Check(t)
  <2>1. /\ Parent!At(t, "check")
        /\ Parent!Proceed(t, IF mode[Parent!Now(t).arg] # "stopped" THEN <<>> ELSE Parent!RecoverChild(Parent!Now(t).arg))
    BY <1>16 DEF Parent!Check
  <2>2. Unfolding(i) = IF mode[i.arg] # "stopped" THEN <<>> ELSE Parent!RecoverChild(i.arg)
    BY <1>2, <2>1, UnfoldingFacts
  <2> QED  BY <1>2, <1>4, <2>1, <2>2
<1>17. CASE Parent!Collect(t)
  <2>1. Parent!At(t, "collect") /\ Parent!Done(t)  BY <1>17 DEF Parent!Collect
  <2> QED  BY <1>2, <1>3, <1>5, <2>1 DEF Unfolded
<1>18. CASE Parent!SetFlags(t)
  <2>1. PICK d \in {"running", "paused", "quiet"} : Parent!At(t, d)  BY <1>18 DEF Parent!SetFlags
  <2>2. /\ todo[t] # <<>> /\ i.do = d /\ Parent!Now(t) = i  BY <1>2, <2>1
  <2>3. CASE d = "running"  BY <2>2, <2>3
  <2>4. CASE d # "running"
    <3>1. todo' = [u \in ParentThreads |-> IF u = t THEN Tail(todo[u]) ELSE todo[u]]
      BY <1>18, <2>2, <2>4 DEF Parent!SetFlags, ParentThreads
    <3>2. <<>> \o Tail(todo[t]) = Tail(todo[t])  BY <1>1, <2>2, TailSplice, SeqFacts
    <3>3. todo = [u \in ParentThreads |-> todo[u]]  BY DEF ParentRuns, Calls, ParentK
    <3>4. todo' = [todo EXCEPT ![t] = <<>> \o Tail(@)]  BY <3>1, <3>2, <3>3
    <3> QED  BY <1>3, <2>1, <2>2, <2>4, <3>4 DEF Takes, Unfolded
  <2> QED  BY <2>3, <2>4
<1>19. CASE Parent!Round(t)
  <2>1. Parent!At(t, "round") /\ Parent!Proceed(t, IF running THEN Parent!MonitorRound ELSE <<>>)
    BY <1>19 DEF Parent!Round
  <2>2. Unfolding(i) = IF running THEN Parent!MonitorRound ELSE <<>>  BY <1>2, <2>1, UnfoldingFacts
  <2> QED  BY <1>2, <1>4, <2>1, <2>2
<1>20. CASE Parent!LeaveQueue(t) \/ Parent!Join(t)
  <2>1. PICK step \in {"await", "join"} : Parent!At(t, step)
    BY <1>20 DEF Parent!LeaveQueue, Parent!Join
  <2>2. Parent!Done(t)  BY <1>20 DEF Parent!LeaveQueue, Parent!Join
  <2> QED  BY <1>2, <1>3, <1>5, <2>1, <2>2 DEF Unfolded
<1> QED  BY <1>6, <1>7, <1>8, <1>9, <1>10, <1>11, <1>12, <1>13, <1>14, <1>15, <1>16, <1>17, <1>18, <1>19, <1>20
         DEF Parent!ThreadStep, Parent!LockStep

\* And what the steps do to the children.
LEMMA StepEffects ==
  ASSUME ParentRuns, NEW t \in ParentThreads, Parent!ThreadStep(t), NEW i, i = todo[t][1]
  PROVE  /\ i.do \notin {"insert", "erase"} => children' = children
         /\ i.do # "running" => running' = running
         /\ i.do \in {"try", "start", "stop"} => active' = active
         /\ i.do = "try" => mode' = mode
         /\ i.do = "start" => Parent!Throw(t) \/ mode' = [mode EXCEPT ![i.arg] = Parent!Moved("start", @)]
         /\ i.do = "check" => active' = IF mode[i.arg] # "stopped" THEN active \cup {i.arg} ELSE active \ {i.arg}
         /\ i.do = "join" => todo[i.arg] = <<>>
<1>1. IsSeq(todo[t])  BY DEF ParentRuns, Calls, Good
<1>2. \A d : Parent!At(t, d) => i.do = d /\ Parent!Now(t) = i
  BY <1>1, SeqFacts DEF Parent!At, Parent!Now
<1>3. CASE Parent!LockStep(t) /\ UNCHANGED <<Parent!parent, calls, faults>>
  <2>1. \E d \in {"lock", "unlock", "try", "end"} : Parent!At(t, d)
    BY <1>3 DEF Parent!LockStep, Parent!Acquire, Parent!RelockThrows, Parent!Release, Parent!EnterTry, Parent!LeaveTry
  <2> QED  BY <1>2, <1>3, <2>1 DEF Parent!parent
<1>4. CASE Parent!Find(t)
  <2>1. PICK step \in {"find", "insert", "findQuota"} : Parent!At(t, step)  BY <1>4 DEF Parent!Find
  <2>2. i.do = step /\ Parent!Now(t) = i  BY <1>2, <2>1
  <2>3. running' = running /\ (i.do # "insert" => children' = children)
    BY <1>4, <2>2 DEF Parent!Find
  <2> QED  BY <2>1, <2>2, <2>3
<1>5. CASE Parent!Table(t)  BY <1>2, <1>5 DEF Parent!Table
<1>6. CASE Parent!Activity(t)  BY <1>2, <1>6 DEF Parent!Activity
<1>7. CASE Parent!ChildCall(t)
  <2>1. PICK step \in {"start", "stop", "pause", "resume", "message", "flags"} : Parent!At(t, step)
    BY <1>7 DEF Parent!ChildCall
  <2>2. /\ running' = running /\ children' = children /\ active' = active
        /\ Parent!Throw(t) \/ mode' = [mode EXCEPT ![i.arg] = Parent!Moved(i.do, @)]
    BY <1>2, <1>7, <2>1 DEF Parent!ChildCall
  <2> QED  BY <1>2, <2>1, <2>2
<1>8. CASE Parent!Check(t)
  <2>1. Parent!At(t, "check")  BY <1>8 DEF Parent!Check
  <2>2. i.do = "check" /\ Parent!Now(t) = i  BY <1>2, <2>1
  <2>3. /\ running' = running /\ children' = children
        /\ active' = IF mode[i.arg] # "stopped" THEN active \cup {i.arg} ELSE active \ {i.arg}
    BY <1>8, <2>2 DEF Parent!Check
  <2> QED  BY <2>2, <2>3
<1>9. CASE Parent!SetFlags(t)  BY <1>2, <1>9 DEF Parent!SetFlags
<1>10. CASE Parent!Each(t) \/ Parent!Collect(t) \/ Parent!Round(t) \/ Parent!LeaveQueue(t) \/ Parent!Join(t)
  BY <1>2, <1>10 DEF Parent!Each, Parent!Collect, Parent!Round, Parent!LeaveQueue, Parent!Join, Parent!parent, Parent!Idle
<1> QED  BY <1>3, <1>4, <1>5, <1>6, <1>7, <1>8, <1>9, <1>10 DEF Parent!ThreadStep

-----------------------------------------------------------------------------
(* Steps at an item that is not in the middle of the work on a child.       *)

LEMMA RoundsFacts ==
  ASSUME IsFiniteSet(children), NEW step, NEW N, N = Cardinality(children)
  PROVE  /\ N \in Nat /\ Len(Rounds(step)) = N /\ (N = 0 => Rounds(step) = <<>>)
         /\ \A k \in 1..N : \E n \in children : Rounds(step)[k] = Parent!EachBody(step, n)
<1> DEFINE seqs == [n \in 1..N |-> Parent!EachBody(step, Parent!SetToSeq(children)[n])]
<1>1. N \in Nat  BY FS_CardinalityType
<1>2. Rounds(step) = seqs  BY DEF Rounds
<1>3. \E S : seqs \in Seq(S)
  <2> DEFINE S == {seqs[k] : k \in 1..N}
  <2>1. seqs \in [1..N -> S]  OBVIOUS
  <2> HIDE DEF seqs, S
  <2>2. seqs \in Seq(S)  BY <1>1, <2>1, SeqDef
  <2> QED  BY <2>2
<1>4. DOMAIN seqs = 1..N  OBVIOUS
<1>5. ASSUME NEW k \in 1..N PROVE \E n \in children : seqs[k] = Parent!EachBody(step, n)
  <2>1. Parent!SetToSeq(children)[k] \in children  BY ChildrenListed
  <2>2. seqs[k] = Parent!EachBody(step, Parent!SetToSeq(children)[k])  OBVIOUS
  <2> HIDE DEF seqs
  <2> QED  BY <2>1, <2>2
<1> HIDE DEF seqs
<1>6. Len(seqs) = N  BY <1>1, <1>3, <1>4, LenProperties
<1>7. N = 0 => seqs = <<>>  BY <1>3, <1>6, SeqFacts DEF IsSeq
<1> QED  BY <1>1, <1>2, <1>5, <1>6, <1>7

\* A loop over the children whose rounds are in order is in order.
LEMMA RestLoop ==
  ASSUME IsFiniteSet(children), NEW X, NEW step,
         \A n \in children : Rest(X, Parent!EachBody(step, n), 0, TRUE)
  PROVE  Rest(X, Flatten(Rounds(step)), 0, TRUE)
<1> DEFINE N == Cardinality(children)
           seqs == Rounds(step)
           f == Flatten(seqs)
<1>1. /\ N \in Nat /\ Len(seqs) = N /\ (N = 0 => seqs = <<>>)
      /\ \A k \in 1..N : \E n \in children : seqs[k] = Parent!EachBody(step, n)
  <2> HIDE DEF N, seqs
  <2>1. N = Cardinality(children) /\ seqs = Rounds(step)  BY DEF N, seqs
  <2> QED  BY <2>1, RoundsFacts
<1> HIDE DEF N, seqs
<1>2. \A k \in 1..N : Rest(X, seqs[k], 0, TRUE)  BY <1>1
<1>3. \A k \in 1..N : IsSeq(seqs[k])  BY <1>2 DEF Rest
<1>4. /\ IsSeq(f)
      /\ \A k \in 1..Len(f) : \E n \in 1..N : \E j \in 1..Len(seqs[n]) : f[k] = seqs[n][j]
  BY <1>1, <1>3, FlattenItems
<1> HIDE DEF f
<1>5. ASSUME NEW k \in (0 + 1)..Len(f)
      PROVE  Mild(f[k]) \/ (f[k] \in X /\ (f[k].do \in Guarded => TRUE \/ Closes(f, k)))
  <2>1. k \in 1..Len(f)  OBVIOUS
  <2>n. PICK n \in 1..N : \E j \in 1..Len(seqs[n]) : f[k] = seqs[n][j]  BY <1>4, <2>1
  <2>2. PICK j \in 1..Len(seqs[n]) : f[k] = seqs[n][j]  BY <2>n
  <2>r. Rest(X, seqs[n], 0, TRUE)  BY <1>2
  <2>3. 0 + 1 = 1  OBVIOUS
  <2>i. j \in (0 + 1)..Len(seqs[n])  BY ONLY <2>2, <2>3
  <2>4. Mild(seqs[n][j]) \/ seqs[n][j] \in X  BY <2>r, <2>i DEF Rest
  <2> QED  BY <2>2, <2>4
<1>6. Rest(X, f, 0, TRUE)  BY <1>4, <1>5 DEF Rest
<1> QED  BY <1>6 DEF f, seqs

LEMMA RestNone ==
  ASSUME NEW b
  PROVE  Rest({}, b, 0, TRUE) <=> Milds(b)
<1>1. \A k \in 1..Len(b) : k \in (0 + 1)..Len(b)  OBVIOUS
<1>2. \A k \in (0 + 1)..Len(b) : k \in 1..Len(b)  OBVIOUS
<1> QED  BY <1>1, <1>2 DEF Rest, Milds

\* A mild item is replaced by mild items.
LEMMA MildUnfolds ==
  ASSUME IsFiniteSet(children), NEW i, Mild(i)
  PROVE  Milds(Unfolding(i))
<1>1. i.do \notin {"check", "round"}  BY MildFacts DEF Sharp
<1>2. CASE i.do = "lock"
  <2>1. i.m \in ParentK.mutexes /\ Milds(i.body)  BY <1>2, MildFacts
  <2>2. Milds(<<UnlockItem(i.m)>>)  BY <2>1, MildUnlock, MildsOne
  <2>3. Milds(i.body \o <<UnlockItem(i.m)>>)  BY <2>1, <2>2, MildsJoined
  <2> QED  BY <1>2, <2>3, UnfoldingFacts
<1>3. CASE i.do = "try"
  <2>1. Milds(i.body) /\ Mild(EndItem(i.handler))  BY <1>3, MildFacts
  <2>2. Milds(<<EndItem(i.handler)>>)  BY <2>1, MildsOne
  <2>3. Milds(i.body \o <<EndItem(i.handler)>>)  BY <2>1, <2>2, MildsJoined
  <2> QED  BY <1>3, <2>3, UnfoldingFacts
<1>4. CASE i.do = "each"
  <2>1. i.arg \in MildK.loops  BY <1>4, MildFacts
  <2>2. \A n \in children : Rest({}, Parent!EachBody(i.arg, n), 0, TRUE)
    BY <2>1, GentleLoops, GentleMilds, RestNone
  <2>3. Milds(Flatten(Rounds(i.arg)))  BY <2>2, RestLoop, RestNone
  <2> QED  BY <1>4, <2>3, UnfoldingFacts
<1>5. CASE i.do \notin {"lock", "try", "each"}
  <2>1. Unfolding(i) = <<>>  BY <1>1, <1>5, UnfoldingFacts
  <2> QED  BY <2>1, MildsEmpty
<1> QED  BY <1>2, <1>3, <1>4, <1>5

\* The step of a thread, as StepForms has it.
Steps(t) ==
  /\ todo[t] # <<>>
  /\ \/ Takes(t, Unfolding(todo[t][1]))
     \/ todo[t][1].do \in Throwing /\ Parent!Throw(t)

LEMMA TakesAhead ==
  ASSUME NEW t, NEW X, NEW b, NEW held, todo[t] # <<>>, Takes(t, b),
         Rest(X, todo[t], 0, FALSE), Rest(X, b, 0, held), held => Closes(todo[t], 1)
  PROVE  Ahead(t, X, 0, b, 0, held)
<1>1. IsSeq(b) /\ Len(b) \in Nat  BY SeqFacts DEF Rest
<1>2. 0 \in 0..1 /\ 0 \in 0..Len(b)  BY <1>1
<1> QED  BY <1>2, Zenon DEF Ahead, Takes

\* An exception where nothing has been done yet.
LEMMA ThrowFirst ==
  ASSUME ParentRuns, NEW t \in ParentThreads, todo[t] # <<>>, Parent!Throw(t),
         NEW X, Place(X), Rest(X, todo[t], 0, FALSE)
  PROVE  Survives(t)
<1>1. \A j \in 1..0 : todo[t][j].do # "end"  OBVIOUS
<1>2. 0 \in Nat  OBVIOUS
<1> QED  BY <1>1, <1>2, ThrowSurvives

LEMMA MildSurvives ==
  ASSUME ParentRuns, NEW t \in ParentThreads, Steps(t), Mild(todo[t][1]),
         NEW X, Place(X), Rest(X, todo[t], 0, FALSE)
  PROVE  Survives(t)
<1> DEFINE b == Unfolding(todo[t][1])
<1>1. CASE Takes(t, b)
  <2>1. Milds(b)  BY MildUnfolds DEF ParentRuns
  <2>2. Rest(X, b, 0, FALSE)  BY <2>1, RestMilds
  <2>3. todo[t] # <<>>  BY DEF Steps
  <2>4. todo[t][1].do # "round"  BY MildFacts DEF Sharp
  <2> HIDE DEF b
  <2>5. Ahead(t, X, 0, b, 0, FALSE)  BY <1>1, <2>2, <2>3, TakesAhead
  <2> QED  BY <2>4, <2>5, AheadSurvives
<1>2. CASE Parent!Throw(t)  BY <1>2, ThrowFirst DEF Steps
<1> QED  BY <1>1, <1>2 DEF Steps

\* A thread that enters the scope of child_kernels_mutex_.
LEMMA LockSurvives ==
  ASSUME ParentRuns, NEW t \in ParentThreads, Steps(t),
         NEW X, Place(X), Rest(X, todo[t], 0, FALSE), todo[t][1] \in X, todo[t][1].do = "lock"
  PROVE  Survives(t)
<1> DEFINE i == todo[t][1]
           b == Unfolding(i)
<1>1. CASE Takes(t, b)
  <2>1. i.m = "children" /\ Rest(X, i.body, 0, TRUE)  BY PlaceKinds
  <2>2. b = i.body \o <<UnlockItem("children")>>  BY <2>1, UnfoldingFacts
  <2>3. Rest(X, b, 0, FALSE)  BY <2>1, <2>2, RestScope
  <2>4. todo[t] # <<>> /\ i.do # "round"  BY DEF Steps
  <2> HIDE DEF b
  <2>5. Ahead(t, X, 0, b, 0, FALSE)  BY <1>1, <2>3, <2>4, TakesAhead
  <2> QED  BY <2>4, <2>5, AheadSurvives
<1>2. CASE Parent!Throw(t)  BY <1>2, ThrowFirst DEF Steps
<1> QED  BY <1>1, <1>2 DEF Steps

\* The other items of a registration.
LEMMA RegisterSurvives ==
  ASSUME ParentRuns, NEW t \in ParentThreads, Steps(t), Rest(RegisterSet, todo[t], 0, FALSE),
         ~Mild(todo[t][1])
  PROVE  Survives(t)
<1> DEFINE i == todo[t][1]
<1>0. Place(RegisterSet)  BY DEF Place
<1>1. i \in RegisterSet
  <2>1. IsSeq(todo[t]) /\ todo[t] # <<>>  BY DEF Rest, Steps
  <2>2. 1 \in (0 + 1)..Len(todo[t])  BY <2>1, SeqFacts
  <2> QED  BY <2>2 DEF Rest
<1>2. CASE i.do = "lock"  BY <1>0, <1>1, <1>2, LockSurvives
<1>3. CASE i.do # "lock"
  <2>1. i.do \in {"insert", "erase"}  BY <1>1, <1>3, RegisterKinds
  <2>2. CASE Takes(t, Unfolding(i))
    <3>1. Takes(t, <<>>)  BY <2>1, <2>2, UnfoldingFacts
    <3>2. todo[t] # <<>> /\ 0 \in 0..1  BY DEF Steps
    <3> QED  BY <1>0, <2>1, <3>1, <3>2, DoneSurvives DEF Takes
  <2>3. CASE Parent!Throw(t)  BY <1>0, <2>3, ThrowFirst DEF Steps
  <2> QED  BY <2>2, <2>3 DEF Steps
<1> QED  BY <1>2, <1>3

-----------------------------------------------------------------------------
(* Steps of a loop over the children.                                       *)

\* What begins with a and goes on with mild items.
LEMMA BlockFacts ==
  ASSUME NEW a, NEW b, IsSeq(a), Milds(b)
  PROVE  /\ \A X, held : Rest(X, a \o b, Len(a), held)
         /\ Len(a) \in 0..Len(a \o b) /\ \A k \in 1..Len(a) : (a \o b)[k] = a[k]
<1> DEFINE c == a \o b
<1>1. IsSeq(a) /\ IsSeq(b) /\ Len(a) \in Nat /\ Len(b) \in Nat  BY SeqFacts DEF Milds
<1>2. /\ IsSeq(c) /\ Len(c) = Len(a) + Len(b)
      /\ \A n \in 1..Len(a) : c[n] = a[n]
      /\ \A n \in 1..Len(b) : c[Len(a) + n] = b[n]
  BY <1>1, Joined
<1> HIDE DEF c
<1>3. ASSUME NEW k \in (Len(a) + 1)..Len(c) PROVE Mild(c[k])
  <2>1. k - Len(a) \in 1..Len(b) /\ Len(a) + (k - Len(a)) = k  BY <1>1, <1>2
  <2>2. c[k] = b[k - Len(a)]  BY <1>2, <2>1
  <2> QED  BY <2>1, <2>2 DEF Milds
<1>4. \A X, held : Rest(X, c, Len(a), held)  BY <1>2, <1>3 DEF Rest
<1>5. Len(a) \in 0..Len(c)  BY <1>1, <1>2
<1> QED  BY <1>2, <1>4, <1>5 DEF c

\* The work that a try block around a child consists of.
Begins(b, c, n, ac, mo) ==
  /\ \A X, held : Rest(X, b, c, held)
  /\ c \in 1..3 /\ c \in 0..Len(b) /\ Work(b, c, n, ac, mo)

LEMMA DoIs ==
  ASSUME NEW d, NEW n
  PROVE  IsSeq(Parent!Do(d, n)) /\ Len(Parent!Do(d, n)) = 1 /\ Parent!Do(d, n)[1] = Item(d, n)
<1>1. Parent!Do(d, n) = <<Item(d, n)>>  BY DEF Parent!Do, Item
<1>2. IsSeq(<<Item(d, n)>>) /\ Len(<<Item(d, n)>>) = 1 /\ <<Item(d, n)>>[1] = Item(d, n)  BY OneItem
<1> QED  BY <1>1, <1>2

LEMMA EndsMild ==
  ASSUME NEW n
  PROVE  /\ Milds(<<EndItem(Parent!HandleChildError(n))>>)
         /\ Milds(<<EndItem(Parent!Do("inactive", n) \o Parent!HandleChildError(n))>>)
         /\ Milds(Parent!OptimizeChildKernel(n) \o <<EndItem(Parent!HandleChildError(n))>>)
<1>1. Gentle(Parent!HandleChildError(n)) /\ Gentle(Parent!OptimizeChildKernel(n))  BY GentleMethods
<1>2. "inactive" \in ParentPlain /\ "inactive" \notin Sharp  BY DEF ParentPlain, Sharp
<1>3. Gentle(Parent!Do("inactive", n) \o Parent!HandleChildError(n))
  BY <1>1, <1>2, GentleDo, GentleJoined
<1>4. \A h : Gentle(h) => New(MildK, h, {})  BY DEF Gentle
<1>5. \A h : Gentle(h) => Milds(<<EndItem(h)>>)  BY <1>4, MildEnd, MildsOne
<1>6. Milds(Parent!OptimizeChildKernel(n))  BY <1>1, GentleMilds
<1> QED  BY <1>1, <1>3, <1>5, <1>6, MildsJoined

LEMMA TryUnfolds ==
  ASSUME NEW b, NEW h
  PROVE  Unfolding(TryItem(b, h)) = b \o <<EndItem(h)>>
<1> DEFINE i == TryItem(b, h)
<1>1. i.do = "try" /\ i.body = b /\ i.handler = h  BY TryFacts
<1> HIDE DEF i
<1>2. Unfolding(i) = b \o <<EndItem(h)>>  BY <1>1, UnfoldingFacts
<1> QED  BY <1>2 DEF i

LEMMA StartBegins ==
  ASSUME NEW n, NEW ac, NEW mo
  PROVE  Begins(Unfolding(StartItem(n)), 2, n, ac, mo)
<1> DEFINE x == Parent!Do("start", n)
           y == Parent!Do("active", n)
           a == x \o y
           e == <<EndItem(Parent!HandleChildError(n))>>
<1>1. IsSeq(x) /\ IsSeq(y) /\ Len(x) = 1 /\ Len(y) = 1 /\ x[1] = Item("start", n) /\ y[1] = Item("active", n)
  BY DoIs
<1>2. Unfolding(StartItem(n)) = a \o e  BY TryUnfolds DEF StartItem
<1>3. Milds(e)  BY EndsMild
<1> HIDE DEF x, y, e
<1>4. IsSeq(a) /\ Len(a) = 2 /\ a[1] = x[1] /\ a[2] = y[1]
  <2>s. IsSeq(x) /\ IsSeq(y)  BY <1>1
  <2>1. /\ IsSeq(a) /\ Len(a) = Len(x) + Len(y)
        /\ \A k \in 1..Len(x) : a[k] = x[k]
        /\ \A k \in 1..Len(y) : a[Len(x) + k] = y[k]
    BY <2>s, Joined
  <2> HIDE DEF a
  <2>2. 1 \in 1..Len(x) /\ 1 \in 1..Len(y) /\ Len(x) + 1 = 2  BY <1>1
  <2> QED  BY <1>1, <2>1, <2>2
<1> HIDE DEF a
<1> DEFINE b == a \o e
<1>s. IsSeq(a) /\ Milds(e)  BY <1>3, <1>4
<1>t. (\A X, held : Rest(X, b, Len(a), held)) /\ Len(a) \in 0..Len(b) /\ \A k \in 1..Len(a) : b[k] = a[k]
  BY <1>s, BlockFacts
<1> HIDE DEF b
<1>5. (\A X, held : Rest(X, b, 2, held)) /\ 2 \in 0..Len(b) /\ \A k \in 1..2 : b[k] = a[k]
  BY <1>4, <1>t
<1>6. b[1] = Item("start", n) /\ b[2] = Item("active", n)  BY <1>1, <1>4, <1>5
<1>7. Begins(b, 2, n, ac, mo)  BY <1>5, <1>6 DEF Begins, Work
<1> QED  BY <1>2, <1>7 DEF b

LEMMA CheckBegins ==
  ASSUME NEW n, NEW ac, NEW mo
  PROVE  Begins(Unfolding(CheckItem(n)), 1, n, ac, mo)
<1> DEFINE a == Parent!Do("check", n)
           e == <<EndItem(Parent!Do("inactive", n) \o Parent!HandleChildError(n))>>
<1>1. IsSeq(a) /\ Len(a) = 1 /\ a[1] = Item("check", n)  BY DoIs
<1>2. Unfolding(CheckItem(n)) = a \o e  BY TryUnfolds DEF CheckItem
<1>3. Milds(e)  BY EndsMild
<1> HIDE DEF a, e
<1> DEFINE b == a \o e
<1>5. (\A X, held : Rest(X, b, 1, held)) /\ 1 \in 0..Len(b) /\ \A k \in 1..1 : b[k] = a[k]
  BY <1>1, <1>3, BlockFacts
<1> HIDE DEF b
<1>6. b[1] = Item("check", n)  BY <1>1, <1>5
<1>7. Begins(b, 1, n, ac, mo)  BY <1>5, <1>6 DEF Begins, Work
<1> QED  BY <1>2, <1>7 DEF b

LEMMA RecoverBegins ==
  ASSUME NEW n, NEW ac, n \notin ac, NEW mo
  PROVE  Begins(Unfolding(RecoverItem(n)), 3, n, ac, mo)
<1> DEFINE x == Parent!Do("stop", n)
           y == Parent!Do("start", n)
           z == Parent!Do("active", n)
           a == x \o y \o z
           o == Parent!OptimizeChildKernel(n)
           e == <<EndItem(Parent!HandleChildError(n))>>
<1>1. /\ IsSeq(x) /\ Len(x) = 1 /\ x[1] = Item("stop", n)
      /\ IsSeq(y) /\ Len(y) = 1 /\ y[1] = Item("start", n)
      /\ IsSeq(z) /\ Len(z) = 1 /\ z[1] = Item("active", n)
  BY DoIs
<1>2. Unfolding(RecoverItem(n)) = (a \o o) \o e  BY TryUnfolds DEF RecoverItem
<1>3. Milds(o \o e)  BY EndsMild
<1>o. IsSeq(o) /\ IsSeq(e)
  <2>1. Milds(o) /\ Milds(e)  BY EndsMild, GentleMethods, GentleMilds
  <2> QED  BY <2>1 DEF Milds
<1> HIDE DEF x, y, z, o, e
<1>4. IsSeq(a) /\ Len(a) = 3 /\ a[1] = x[1] /\ a[2] = y[1] /\ a[3] = z[1]
  <2> DEFINE c == x \o y
  <2>x. IsSeq(x) /\ IsSeq(y)  BY <1>1
  <2>1. /\ IsSeq(c) /\ Len(c) = Len(x) + Len(y)
        /\ \A k \in 1..Len(x) : c[k] = x[k]
        /\ \A k \in 1..Len(y) : c[Len(x) + k] = y[k]
    BY <2>x, Joined
  <2>2. a = c \o z  OBVIOUS
  <2> HIDE DEF a, c
  <2>3. 1 \in 1..Len(x) /\ 1 \in 1..Len(y) /\ Len(x) + 1 = 2  BY <1>1
  <2>4. IsSeq(c) /\ Len(c) = 2 /\ c[1] = x[1] /\ c[2] = y[1]  BY <1>1, <2>1, <2>3
  <2>s. IsSeq(c) /\ IsSeq(z)  BY <1>1, <2>4
  <2>5. /\ IsSeq(a) /\ Len(a) = Len(c) + Len(z)
        /\ \A k \in 1..Len(c) : a[k] = c[k]
        /\ \A k \in 1..Len(z) : a[Len(c) + k] = z[k]
    BY <2>2, <2>s, Joined
  <2>6. 1 \in 1..Len(c) /\ 2 \in 1..Len(c) /\ 1 \in 1..Len(z) /\ Len(c) + 1 = 3  BY <1>1, <2>4
  <2> QED  BY <1>1, <2>4, <2>5, <2>6
<1> HIDE DEF a
<1>6. (a \o o) \o e = a \o (o \o e)  BY <1>4, <1>o, JoinedThree
<1> DEFINE b == a \o (o \o e)
<1>s. IsSeq(a) /\ Milds((o \o e))  BY <1>3, <1>4
<1>t. (\A X, held : Rest(X, b, Len(a), held)) /\ Len(a) \in 0..Len(b) /\ \A k \in 1..Len(a) : b[k] = a[k]
  BY <1>s, BlockFacts
<1> HIDE DEF b
<1>7. (\A X, held : Rest(X, b, 3, held)) /\ 3 \in 0..Len(b) /\ \A k \in 1..3 : b[k] = a[k]
  BY <1>4, <1>t
<1>8. b[1] = Item("stop", n) /\ b[2] = Item("start", n) /\ b[3] = Item("active", n)
  BY <1>1, <1>4, <1>7
<1>9. Begins(b, 3, n, ac, mo)  BY <1>7, <1>8 DEF Begins, Work
<1> QED  BY <1>2, <1>6, <1>9 DEF b

-----------------------------------------------------------------------------
\* A thread comes to work on a child.
LEMMA WorkAhead ==
  ASSUME ParentRuns, NEW t \in ParentThreads, children' = children,
         NEW c, NEW b, NEW c2, Ahead(t, LoopSet(children), c, b, c2, FALSE),
         Closes(todo[t], 1), todo[t][1].do # "round",
         NEW n \in children, Begins(b, c2, n, active', mode')
  PROVE  Survives(t)
<1> DEFINE s == todo'[t]
<1>h. Headed(t, LoopSet(children), b, c2)  BY AheadFacts
<1>1. Rest(LoopSet(children), s, c2, FALSE)  BY <1>h DEF Headed
<1>2. Closes(s, c2)  BY <1>h DEF Headed
<1>3. Len(s) >= Len(b) /\ \A k \in 1..Len(b) : s[k] = b[k]  BY <1>h DEF Headed
<1>4. todo'[t] = b \o After(todo[t], 1) /\ IsSeq(b) /\ 1 \in 1..Len(todo[t])  BY <1>h DEF Headed
<1>5. Replaces(t, b, 1)  BY <1>4 DEF Replaces
<1>6. c2 \in 1..3 /\ c2 \in 0..Len(b) /\ Work(b, c2, n, active', mode')  BY DEF Begins
<1>7. Len(b) \in Nat /\ Len(s) \in Nat  BY <1>1, <1>4, SeqFacts DEF Rest
<1> HIDE DEF s
<1>8. \A k \in 1..c2 : s[k] = b[k]  BY <1>3, <1>6, <1>7
<1>9. Work(s, c2, n, active', mode')
  <2>1. c2 = 1 => s[1] = b[1]  BY <1>8
  <2>2. c2 = 2 => s[1] = b[1] /\ s[2] = b[2]  BY <1>8
  <2>3. c2 = 3 => s[1] = b[1] /\ s[2] = b[2] /\ s[3] = b[3]  BY <1>8
  <2> QED  BY <1>6, <2>1, <2>2, <2>3 DEF Work
<1>10. c2 <= Len(s)  BY <1>3, <1>6, <1>7
<1>11. Front(s, c2, children, active', mode')  BY <1>2, <1>9, <1>10 DEF Front
<1>12. c2 \in 0..3  BY <1>6
<1>13. Looping(s, children, active', mode')  BY <1>1, <1>11, <1>12 DEF Looping
<1>14. Lives(s, children', active', mode', running')  BY <1>13 DEF Lives
<1> QED  BY <1>5, <1>14 DEF Survives, s

\* The items of a loop.
LEMMA LoopSurvives ==
  ASSUME ParentRuns, NEW t \in ParentThreads, Steps(t), children' = children,
         Rest(LoopSet(children), todo[t], 0, FALSE), ~Mild(todo[t][1]), todo[t][1].do # "running"
  PROVE  Survives(t)
<1> DEFINE i == todo[t][1]
           b == Unfolding(i)
           X == LoopSet(children)
<1>0. Place(X)  BY DEF Place
<1>1. i \in X /\ (i.do \in Guarded => Closes(todo[t], 1)) /\ todo[t] # <<>>
  <2>1. IsSeq(todo[t]) /\ todo[t] # <<>>  BY DEF Rest, Steps
  <2>2. 1 \in (0 + 1)..Len(todo[t])  BY <2>1, SeqFacts
  <2> QED  BY <2>1, <2>2 DEF Rest
<1>2. \/ i.do = "round"
      \/ i.do = "each" /\ i.arg \in {"start", "check"}
      \/ i.do = "try" /\ \E n \in children : i \in {StartItem(n), CheckItem(n)}
      \/ i.do = "lock"
  BY <1>1, LoopKinds
<1>3. i.do \in Throwing => i.do = "lock"  BY <1>2 DEF Throwing
<1>4. CASE i.do = "lock"
  <2> HIDE DEF X
  <2> QED  BY <1>0, <1>1, <1>4, LockSurvives DEF X
<1>5. i.do # "lock" => Takes(t, b)  BY <1>3 DEF Steps
<1>6. CASE i.do = "round"
  <2>1. b = IF running THEN Parent!MonitorRound ELSE <<>>  BY <1>6, UnfoldingFacts
  <2>2. Rest(X, b, 0, FALSE)
    <3>1. CASE ~running
      <4>1. b = <<>>  BY <2>1, <3>1
      <4> QED  BY <4>1, MildsEmpty, RestMilds
    <3>2. CASE running
      <4> DEFINE r == Item("round", 0)
                 a == <<RoundScope>>
                 e == <<r>>
                 c == a \o e
      <4>1. b = c
        <5>1. b = Parent!MonitorRound  BY <2>1, <3>2
        <5> QED  BY <5>1 DEF Parent!MonitorRound, Parent!Locked, Parent!Do, RoundScope, LockItem, Item
      <4>2. RoundScope \in X /\ RoundScope.do \notin Guarded /\ r \in X /\ r.do \notin Guarded
        BY DEF LoopSet, RoundScope, LockItem, Item, Guarded
      <4>3. IsSeq(a) /\ Len(a) = 1 /\ a[1] = RoundScope /\ IsSeq(e) /\ Len(e) = 1 /\ e[1] = r  BY OneItem
      <4>4. IsSeq(a) /\ IsSeq(e)  BY <4>3
      <4> HIDE DEF a, e, r, X
      <4>5. /\ IsSeq(c) /\ Len(c) = Len(a) + Len(e)
            /\ \A n \in 1..Len(a) : c[n] = a[n]
            /\ \A n \in 1..Len(e) : c[Len(a) + n] = e[n]
        BY <4>4, Joined
      <4> HIDE DEF c
      <4>6. Len(c) = 2 /\ c[1] = RoundScope /\ c[2] = r  BY <4>3, <4>5
      <4>k. ASSUME NEW k \in (0 + 1)..Len(c) PROVE c[k] \in X /\ c[k].do \notin Guarded
        <5>1. k = 1 \/ k = 2  BY <4>6, <4>k
        <5> QED  BY <4>2, <4>6, <5>1
      <4>7. Rest(X, c, 0, FALSE)  BY <4>5, <4>k DEF Rest
      <4> QED  BY <4>1, <4>7
    <3> QED  BY <3>1, <3>2
  <2>3. Takes(t, b) /\ todo[t] # <<>>  BY <1>1, <1>5, <1>6
  <2>4. running => b = Parent!MonitorRound  BY <2>1
  <2> HIDE DEF b, X
  <2>5. Rest(X, todo[t], 0, FALSE)  BY DEF X
  <2>6. Ahead(t, X, 0, b, 0, FALSE)  BY <2>2, <2>3, <2>5, TakesAhead
  <2> QED  BY <1>0, <2>4, <2>6, AheadSurvives
<1>7. CASE i.do = "each"
  <2>1. ASSUME NEW n \in children PROVE Rest(X, Parent!EachBody(i.arg, n), 0, TRUE)
    <3>1. Parent!EachBody("start", n) = <<StartItem(n)>>
      BY DEF Parent!EachBody, Parent!StartChild, Parent!Try, StartItem, TryItem
    <3>2. Parent!EachBody("check", n) = <<CheckItem(n)>>
      BY DEF Parent!EachBody, Parent!Try, CheckItem, TryItem
    <3>3. StartItem(n) \in X /\ CheckItem(n) \in X  BY DEF LoopSet
    <3> HIDE DEF X
    <3>4. Rest(X, <<StartItem(n)>>, 0, TRUE) /\ Rest(X, <<CheckItem(n)>>, 0, TRUE)  BY <3>3, RestOne
    <3> QED  BY <1>2, <1>7, <3>1, <3>2, <3>4
  <2>2. b = Flatten(Rounds(i.arg))  BY <1>7, UnfoldingFacts
  <2> DEFINE step == i.arg
  <2>3. Rest(X, b, 0, TRUE)
    <3>1. \A n \in children : Rest(X, Parent!EachBody(step, n), 0, TRUE)  BY <2>1
    <3>2. IsFiniteSet(children) /\ b = Flatten(Rounds(step))  BY <2>2 DEF ParentRuns
    <3> HIDE DEF X, b, step
    <3> QED  BY <3>1, <3>2, RestLoop
  <2>4. Takes(t, b) /\ todo[t] # <<>> /\ Closes(todo[t], 1) /\ i.do # "round"
    BY <1>1, <1>5, <1>7 DEF Guarded
  <2> HIDE DEF b, X
  <2>5. Rest(X, todo[t], 0, FALSE)  BY DEF X
  <2>6. Ahead(t, X, 0, b, 0, TRUE)  BY <2>3, <2>4, <2>5, TakesAhead
  <2> QED  BY <1>0, <2>4, <2>6, AheadSurvives
<1>8. CASE i.do = "try"
  <2>1. PICK n \in children : i \in {StartItem(n), CheckItem(n)}  BY <1>2, <1>8
  <2>2. PICK c2 : Begins(b, c2, n, active', mode')
    <3>1. CASE i = StartItem(n)  BY <3>1, StartBegins
    <3>2. CASE i = CheckItem(n)  BY <3>2, CheckBegins
    <3> QED  BY <2>1, <3>1, <3>2
  <2>3. Takes(t, b) /\ todo[t] # <<>> /\ Closes(todo[t], 1) /\ i.do # "round"
    BY <1>1, <1>5, <1>8 DEF Guarded
  <2> HIDE DEF b, X
  <2>4. Rest(X, b, c2, FALSE) /\ c2 \in 0..Len(b)  BY <2>2 DEF Begins
  <2>5. Rest(X, todo[t], 0, FALSE)  BY DEF X
  <2>z. 0 \in 0..1  OBVIOUS
  <2>6. Ahead(t, X, 0, b, c2, FALSE)  BY <2>3, <2>4, <2>5, <2>z, Zenon DEF Ahead, Takes
  <2>7. Ahead(t, LoopSet(children), 0, b, c2, FALSE)  BY <2>6 DEF X
  <2> QED  BY <2>2, <2>3, <2>7, WorkAhead
<1> QED  BY <1>2, <1>4, <1>6, <1>7, <1>8

\* The first item is done and gone.
LEMMA ShiftFacts ==
  ASSUME ParentRuns, NEW t \in ParentThreads, todo[t] # <<>>, Takes(t, <<>>), todo[t][1].do # "round"
  PROVE  /\ Replaces(t, <<>>, 1) /\ IsSeq(todo'[t])
         /\ Len(todo[t]) \in Nat /\ Len(todo'[t]) = Len(todo[t]) - 1
         /\ \A k \in 1..(Len(todo[t]) - 1) : todo'[t][k] = todo[t][k + 1]
<1> DEFINE s == todo[t]
<1>1. IsSeq(s) /\ s # <<>>  BY DEF ParentRuns, Calls, Good
<1>2. todo' = [todo EXCEPT ![t] = <<>> \o Tail(s)]  BY DEF Takes
<1>3. todo'[t] = <<>> \o Tail(s)  BY <1>2, ParentTodo
<1>4. s[1].do # "round"  OBVIOUS
<1> HIDE DEF s
<1>5. <<>> \o After(s, 1) = Tail(s) /\ Tail(s) = After(s, 1) /\ 1 \in 1..Len(s) /\ Len(s) \in Nat
  BY <1>1, TailSplice, SeqFacts
<1>6. todo'[t] = <<>> \o After(s, 1) /\ todo'[t] = After(s, 1)  BY <1>3, <1>5
<1>7. 1 \in 0..Len(s)  BY <1>5
<1>8. IsSeq(After(s, 1)) /\ Len(After(s, 1)) = Len(s) - 1
      /\ \A n \in 1..(Len(s) - 1) : After(s, 1)[n] = s[1 + n]
  BY <1>1, <1>7, AfterFacts
<1>9. \A k \in 1..(Len(s) - 1) : todo'[t][k] = s[k + 1]
  <2>1. \A k \in 1..(Len(s) - 1) : 1 + k = k + 1  BY <1>5
  <2> QED  BY <1>6, <1>8, <2>1
<1>10. IsSeq(<<>>)  BY NoItem
<1>11. Replaces(t, <<>>, 1)  BY <1>4, <1>5, <1>6, <1>10 DEF Replaces, s
<1> QED  BY <1>5, <1>6, <1>8, <1>9, <1>11 DEF s

LEMMA RestShift ==
  ASSUME ParentRuns, NEW t \in ParentThreads, todo[t] # <<>>, Takes(t, <<>>), todo[t][1].do # "round",
         NEW X, NEW c \in 1..3, c <= Len(todo[t]), Rest(X, todo[t], c, FALSE), Closes(todo[t], c)
  PROVE  Rest(X, todo'[t], c - 1, FALSE) /\ Closes(todo'[t], c - 1)
<1> DEFINE s == todo[t]
           z == todo'[t]
<1>1. /\ IsSeq(z) /\ Len(s) \in Nat /\ Len(z) = Len(s) - 1
      /\ \A k \in 1..(Len(s) - 1) : z[k] = s[k + 1]
  BY ShiftFacts
<1>2. c <= Len(s) /\ Rest(X, s, c, FALSE) /\ Closes(s, c)  OBVIOUS
<1> HIDE DEF s, z
<1>3. ASSUME NEW k \in Nat, k <= Len(s) - 1, Closes(s, k + 1) PROVE Closes(z, k)
  <2>1. PICK j \in (k + 2)..Len(s) : s[j].do = "unlock" /\ s[j].m = "children"
    <3>1. k + 1 + 1 = k + 2  OBVIOUS
    <3> QED  BY <1>3, <3>1 DEF Closes
  <2>2. j - 1 \in (k + 1)..Len(z) /\ j - 1 \in 1..(Len(s) - 1) /\ (j - 1) + 1 = j  BY <1>1, <1>3, <2>1
  <2>3. z[j - 1] = s[j]  BY <1>1, <2>2
  <2> QED  BY <2>1, <2>2, <2>3 DEF Closes
<1>4. ASSUME NEW k \in ((c - 1) + 1)..Len(z)
      PROVE  Mild(z[k]) \/ (z[k] \in X /\ (z[k].do \in Guarded => FALSE \/ Closes(z, k)))
  <2>1. k + 1 \in (c + 1)..Len(s) /\ k \in 1..(Len(s) - 1) /\ k \in Nat /\ k <= Len(s) - 1
    BY <1>1, <1>4
  <2>2. z[k] = s[k + 1]  BY <1>1, <2>1
  <2>3. Mild(s[k + 1]) \/ (s[k + 1] \in X /\ (s[k + 1].do \in Guarded => Closes(s, k + 1)))
    BY <1>2, <2>1 DEF Rest
  <2> QED  BY <1>3, <2>1, <2>2, <2>3
<1>5. Rest(X, z, c - 1, FALSE)  BY <1>1, <1>4 DEF Rest
<1>6. Closes(z, c - 1)
  <2>1. c - 1 \in Nat /\ c - 1 <= Len(s) - 1 /\ (c - 1) + 1 = c  BY <1>1, <1>2
  <2>2. Closes(s, (c - 1) + 1)  BY <1>2, <2>1
  <2> QED  BY <1>3, <2>1, <2>2
<1> QED  BY <1>5, <1>6 DEF z

-----------------------------------------------------------------------------
(* Steps in the middle of the work on a child.                              *)

\* A thread at work on the child n.
AtWork(t, c, n) ==
  /\ Rest(LoopSet(children), todo[t], c, FALSE) /\ Closes(todo[t], c)
  /\ c \in 1..3 /\ c <= Len(todo[t]) /\ n \in children /\ Work(todo[t], c, n, active, mode)

LEMMA ShiftSurvives ==
  ASSUME ParentRuns, NEW t \in ParentThreads, todo[t] # <<>>, Takes(t, <<>>), todo[t][1].do # "round",
         children' = children, NEW c, NEW n, AtWork(t, c, n),
         c # 1 => Work(todo'[t], c - 1, n, active', mode')
  PROVE  Survives(t)
<1> DEFINE s == todo'[t]
           X == LoopSet(children)
<1>1. c \in 1..3 /\ c <= Len(todo[t]) /\ n \in children  BY DEF AtWork
<1>2. Rest(X, s, c - 1, FALSE) /\ Closes(s, c - 1)
  <2>1. Rest(X, todo[t], c, FALSE) /\ Closes(todo[t], c)  BY DEF AtWork
  <2> HIDE DEF X
  <2> QED  BY <1>1, <2>1, RestShift
<1>3. Replaces(t, <<>>, 1)  BY ShiftFacts
<1>4. Len(todo[t]) \in Nat /\ Len(s) = Len(todo[t]) - 1  BY ShiftFacts
<1>5. c # 1 => Work(s, c - 1, n, active', mode')  OBVIOUS
<1> HIDE DEF s
<1>6. c - 1 <= Len(s) /\ c - 1 \in 0..3 /\ (c = 1 => c - 1 = 0)  BY <1>1, <1>4
<1>7. Front(s, c - 1, children, active', mode')  BY <1>1, <1>2, <1>5, <1>6 DEF Front
<1>8. Looping(s, children, active', mode')  BY <1>2, <1>6, <1>7 DEF Looping
<1>9. Lives(s, children', active', mode', running')  BY <1>8 DEF Lives
<1> QED  BY <1>3, <1>9 DEF Survives, s

LEMMA WorkThrows ==
  ASSUME ParentRuns, NEW t \in ParentThreads, todo[t] # <<>>, Parent!Throw(t),
         children' = children, NEW c, NEW n, AtWork(t, c, n)
  PROVE  Survives(t)
<1> DEFINE X == LoopSet(children)
           s == todo[t]
<1>1. Place(X)  BY DEF Place
<1>2. c \in 1..3 /\ Rest(X, s, c, FALSE)  BY DEF AtWork
<1>3. ASSUME NEW j \in 1..c PROVE s[j].do # "end"
  <2>1. Work(s, c, n, active, mode)  BY DEF AtWork
  <2>2. \A d, x : Item(d, x).do = d  BY ItemFacts
  <2>3. RecoverItem(n).do = "try"  BY TryFacts DEF RecoverItem
  <2> HIDE DEF s
  <2>4. j = 1 \/ (j = 2 /\ c # 1) \/ (j = 3 /\ c = 3)  BY <1>2, <1>3
  <2> QED  BY <2>1, <2>2, <2>3, <2>4 DEF Work
<1>4. c \in Nat  BY <1>2
<1> HIDE DEF X
<1> QED  BY <1>1, <1>2, <1>3, <1>4, ThrowSurvives

LEMMA WorkSurvives ==
  ASSUME ParentRuns, ChildrenRight, NEW t \in ParentThreads, Parent!ThreadStep(t), Steps(t),
         NEW c, NEW n, AtWork(t, c, n)
  PROVE  Survives(t)
<1> DEFINE s == todo[t]
           i == s[1]
           X == LoopSet(children)
<1>1. c \in 1..3 /\ c <= Len(s) /\ n \in children /\ Work(s, c, n, active, mode)
      /\ Rest(X, s, c, FALSE) /\ Closes(s, c)
  BY DEF AtWork
<1>2. \A d, x : Item(d, x).do = d /\ Item(d, x).arg = x  BY ItemFacts
<1>3. RecoverItem(n).do = "try"  BY TryFacts DEF RecoverItem
<1>4. s # <<>> /\ (Takes(t, Unfolding(i)) \/ (i.do \in Throwing /\ Parent!Throw(t)))  BY DEF Steps
<1>5. /\ i.do \notin {"insert", "erase"} => children' = children
      /\ i.do \in {"try", "start", "stop"} => active' = active
      /\ i.do = "start" => Parent!Throw(t) \/ mode' = [mode EXCEPT ![i.arg] = Parent!Moved("start", @)]
      /\ i.do = "check" => active' = IF mode[i.arg] # "stopped" THEN active \cup {i.arg} ELSE active \ {i.arg}
  BY StepEffects
<1>6. IsSeq(s) /\ Len(s) \in Nat /\ Closes(s, 1)
  <2>1. IsSeq(s) /\ Len(s) \in Nat  BY <1>1, SeqFacts DEF Rest
  <2>2. c \in Nat /\ 1 \in Nat /\ 1 <= c  BY <1>1
  <2> HIDE DEF s, X
  <2> QED  BY <1>1, <2>1, <2>2, ClosesEarlier
<1>7. Takes(t, <<>>) /\ i.do # "round" =>
        /\ Len(todo'[t]) = Len(s) - 1
        /\ \A k \in 1..(Len(s) - 1) : todo'[t][k] = s[k + 1]
  BY <1>4, ShiftFacts
<1>8. CASE c = 2 /\ s[1] = Item("start", n) /\ s[2] = Item("active", n)
  <2>1. i.do = "start" /\ i.arg = n  BY <1>2, <1>8
  <2>2. children' = children  BY <1>5, <2>1
  <2>3. CASE Parent!Throw(t)  BY <1>4, <2>2, <2>3, WorkThrows
  <2>4. CASE ~Parent!Throw(t)
    <3>1. Takes(t, <<>>)  BY <1>4, <2>1, <2>4, UnfoldingFacts
    <3>2. mode' = [mode EXCEPT ![n] = Parent!Moved("start", @)]  BY <1>5, <2>1, <2>4
    <3>3. mode'[n] # "stopped"
      <4>1. children \subseteq Names /\ mode = [x \in Names |-> mode[x]]  BY DEF ChildrenRight
      <4>2. mode'[n] = Parent!Moved("start", mode[n])  BY <1>1, <3>2, <4>1
      <4> QED  BY <4>2, MovedFacts
    <3>4. todo'[t][1] = Item("active", n)
      <4>1. 1 \in 1..(Len(s) - 1)  BY <1>1, <1>6, <1>8
      <4>2. todo'[t][1] = s[1 + 1]  BY <1>7, <2>1, <3>1, <4>1
      <4> QED  BY <1>8, <4>2
    <3>5. Work(todo'[t], 1, n, active', mode')  BY <3>3, <3>4 DEF Work
    <3>6. c - 1 = 1 /\ i.do # "round"  BY <1>8, <2>1
    <3> QED  BY <1>4, <2>2, <3>1, <3>5, <3>6, ShiftSurvives
  <2> QED  BY <2>3, <2>4
<1>9. CASE c = 1 /\ s[1] = Item("active", n) /\ mode[n] # "stopped"
  <2>1. i.do = "active"  BY <1>2, <1>9
  <2>2. children' = children /\ Takes(t, <<>>) /\ i.do # "round"
    BY <1>4, <1>5, <2>1, UnfoldingFacts DEF Throwing
  <2> QED  BY <1>4, <1>9, <2>2, ShiftSurvives
<1>10. CASE c = 1 /\ s[1] = Item("check", n)
  <2>1. i.do = "check" /\ i.arg = n  BY <1>2, <1>10
  <2>2. children' = children /\ Takes(t, Unfolding(i)) /\ i.do # "round"
    BY <1>4, <1>5, <2>1 DEF Throwing
  <2>3. Unfolding(i) = IF mode[n] # "stopped" THEN <<>> ELSE Parent!RecoverChild(n)
    BY <2>1, UnfoldingFacts
  <2>4. CASE mode[n] # "stopped"
    <3>1. Takes(t, <<>>)  BY <2>2, <2>3, <2>4
    <3> QED  BY <1>4, <1>10, <2>2, <3>1, ShiftSurvives
  <2>5. CASE mode[n] = "stopped"
    <3> DEFINE r == RecoverItem(n)
               b == <<r>>
    <3>1. Unfolding(i) = b
      BY <2>3, <2>5 DEF Parent!RecoverChild, Parent!Try, RecoverItem, TryItem
    <3>2. n \notin active'  BY <1>5, <2>1, <2>5
    <3>3. IsSeq(b) /\ Len(b) = 1 /\ b[1] = r  BY OneItem
    <3>4. r = RecoverItem(n)  OBVIOUS
    <3>5. Takes(t, b)  BY <2>2, <3>1
    <3> HIDE DEF b, r
    <3>6. \A Y, held : Rest(Y, b, 1, held)  BY <3>3 DEF Rest
    <3>7. Begins(b, 1, n, active', mode')  BY <3>2, <3>3, <3>4, <3>6 DEF Begins, Work
    <3>8. 1 \in 0..1 /\ 1 \in 0..Len(b)  BY <3>3
    <3>9. Rest(X, b, 1, FALSE) /\ Rest(X, s, 1, FALSE)  BY <1>1, <1>10, <3>6
    <3>10. Ahead(t, X, 1, b, 1, FALSE)  BY <1>4, <3>5, <3>8, <3>9, Zenon DEF Ahead, Takes
    <3> QED  BY <1>1, <1>6, <2>2, <3>7, <3>10, WorkAhead
  <2> QED  BY <2>4, <2>5
<1>11. CASE c = 1 /\ s[1] = RecoverItem(n) /\ n \notin active
  <2> DEFINE b == Unfolding(i)
  <2>1. i.do = "try" /\ i = RecoverItem(n)  BY <1>3, <1>11
  <2>2. children' = children /\ Takes(t, b) /\ i.do # "round" /\ active' = active
    BY <1>4, <1>5, <2>1 DEF Throwing
  <2>3. Begins(b, 3, n, active', mode')  BY <1>11, <2>1, <2>2, RecoverBegins
  <2> HIDE DEF b
  <2>4. Rest(X, b, 3, FALSE) /\ 3 \in 0..Len(b) /\ Rest(X, s, 1, FALSE)
    BY <1>1, <1>11, <2>3 DEF Begins
  <2>5. 1 \in 0..1  OBVIOUS
  <2>6. Ahead(t, X, 1, b, 3, FALSE)  BY <1>4, <2>2, <2>4, <2>5, Zenon DEF Ahead, Takes
  <2> QED  BY <1>1, <1>6, <2>2, <2>3, <2>6, WorkAhead
<1>12. CASE /\ c = 3 /\ s[1] = Item("stop", n) /\ s[2] = Item("start", n) /\ s[3] = Item("active", n)
            /\ n \notin active
  <2>1. i.do = "stop" /\ i.arg = n  BY <1>2, <1>12
  <2>2. children' = children /\ active' = active  BY <1>5, <2>1
  <2>3. CASE Parent!Throw(t)  BY <1>4, <2>2, <2>3, WorkThrows
  <2>4. CASE ~Parent!Throw(t)
    <3>1. Takes(t, <<>>) /\ i.do # "round"  BY <1>4, <2>1, <2>4, UnfoldingFacts
    <3>2. 1 \in 1..(Len(s) - 1) /\ 2 \in 1..(Len(s) - 1)  BY <1>1, <1>6, <1>12
    <3>3. todo'[t][1] = s[1 + 1] /\ todo'[t][2] = s[2 + 1]  BY <1>7, <3>1, <3>2
    <3>4. Work(todo'[t], 2, n, active', mode')  BY <1>12, <3>3 DEF Work
    <3>5. c - 1 = 2  BY <1>12
    <3> QED  BY <1>4, <2>2, <3>1, <3>4, <3>5, ShiftSurvives
  <2> QED  BY <2>3, <2>4
<1> QED  BY <1>1, <1>8, <1>9, <1>10, <1>11, <1>12 DEF Work

-----------------------------------------------------------------------------
(* Every step of a thread, and what it leaves to the others.                *)

\* What the monitoring thread has to do at last, while the parent runs.
Rounding(s) == s # <<>> /\ s[Len(s)].do = "round"

\* stop() does not come past its join of the monitoring thread.
LEMMA HaltSurvives ==
  ASSUME ParentRuns, NEW t \in ParentThreads, Parent!ThreadStep(t), Steps(t),
         running, Rounding(todo[Monitor]), Halting(todo[t])
  PROVE  Survives(t)
<1> DEFINE s == todo[t]
           i == s[1]
           z == todo'[t]
<1>1. PICK c \in 1..3 :
        /\ c <= Len(s) /\ s[c] = Item("join", Monitor)
        /\ c >= 2 => s[c - 1] = Item("join", Worker)
        /\ c = 3 => s[1] = Item("quiet", FALSE)
  BY DEF Halting
<1>2. \A d, x : Item(d, x).do = d /\ Item(d, x).arg = x  BY ItemFacts
<1>3. /\ i.do # "running" => running' = running
      /\ i.do = "join" => todo[i.arg] = <<>>
  BY StepEffects
<1>4. c # 1
  <2>1. SUFFICES ASSUME c = 1 PROVE FALSE  OBVIOUS
  <2>2. i.do = "join" /\ i.arg = Monitor  BY <1>1, <1>2, <2>1
  <2> QED  BY <1>3, <2>2 DEF Rounding
<1>5. i.do \in {"join", "quiet"}
  <2>1. c = 2 \/ c = 3  BY <1>4
  <2>2. c = 2 => i = Item("join", Worker)
    <3>1. SUFFICES ASSUME c = 2 PROVE i = Item("join", Worker)  OBVIOUS
    <3>2. c >= 2 /\ c - 1 = 1  BY <3>1
    <3> QED  BY <1>1, <3>2
  <2>3. c = 3 => i = Item("quiet", FALSE)  BY <1>1
  <2> QED  BY <1>2, <2>1, <2>2, <2>3
<1>6. s # <<>> /\ Takes(t, <<>>) /\ i.do # "round"
  BY <1>5, UnfoldingFacts DEF Steps, Throwing
<1>7. /\ Replaces(t, <<>>, 1) /\ IsSeq(z) /\ Len(s) \in Nat /\ Len(z) = Len(s) - 1
      /\ \A k \in 1..(Len(s) - 1) : z[k] = s[k + 1]
  BY <1>6, ShiftFacts
<1>8. Halting(z)
  <2> DEFINE e == c - 1
  <2>1. e \in 1..3 /\ e \in 1..(Len(s) - 1) /\ e <= Len(z) /\ e + 1 = c /\ e # 3  BY <1>1, <1>4, <1>7
  <2>2. z[e] = Item("join", Monitor)  BY <1>1, <1>7, <2>1
  <2>3. ASSUME e >= 2 PROVE z[e - 1] = Item("join", Worker)
    <3>1. e = 2 /\ e - 1 = 1 /\ c = 3  BY <1>4, <2>1, <2>3
    <3>2. c - 1 = 2 /\ c >= 2 /\ 1 + 1 = 2  BY <3>1
    <3>3. 1 \in 1..(Len(s) - 1)
      <4>1. 3 <= Len(s)  BY <1>1, <3>1
      <4> HIDE DEF s
      <4> QED  BY <1>7, <4>1
    <3>4. z[1] = s[2] /\ s[2] = Item("join", Worker)  BY <1>1, <1>7, <3>2, <3>3
    <3> QED  BY <3>1, <3>4
  <2> HIDE DEF e
  <2> QED  BY <1>7, <2>1, <2>2, <2>3 DEF Halting
<1>9. running'  BY <1>3, <1>5
<1>10. Lives(z, children', active', mode', running')  BY <1>8, <1>9 DEF Lives
<1> QED  BY <1>7, <1>10 DEF Survives

LEMMA StepSurvives ==
  ASSUME ParentRuns, ChildrenRight, NEW t \in ParentThreads, Parent!ThreadStep(t),
         todo[t][1].do # "running", Lives(todo[t], children, active, mode, running),
         running => Rounding(todo[Monitor])
  PROVE  Survives(t) /\ Steps(t)
<1> DEFINE s == todo[t]
           i == s[1]
           X == LoopSet(children)
<1>1. Steps(t)  BY StepForms DEF Steps
<1>2. i.do \notin {"insert", "erase"} => children' = children  BY StepEffects
<1>3. CASE Enrolling(s)
  <2>1. Rest(RegisterSet, s, 0, FALSE)  BY <1>3 DEF Enrolling
  <2>2. Place(RegisterSet)  BY DEF Place
  <2>3. CASE Mild(i)  BY <1>1, <2>1, <2>2, <2>3, MildSurvives
  <2>4. CASE ~Mild(i)  BY <1>1, <2>1, <2>4, RegisterSurvives
  <2> QED  BY <1>1, <2>3, <2>4
<1>4. CASE Looping(s, children, active, mode)
  <2>1. PICK c \in 0..3 : Rest(X, s, c, FALSE) /\ Front(s, c, children, active, mode)
    BY <1>4 DEF Looping
  <2>2. CASE c = 0
    <3>1. IsSeq(s) /\ s # <<>> /\ Rest(X, s, 0, FALSE)  BY <1>1, <2>1, <2>2 DEF Rest, Steps
    <3>2. 1 \in (0 + 1)..Len(s)  BY <3>1, SeqFacts
    <3>3. CASE Mild(i)
      <4>1. children' = children  BY <1>2, <3>3, MildFacts DEF Sharp
      <4>2. Place(X)  BY <4>1 DEF Place
      <4> HIDE DEF X
      <4> QED  BY <1>1, <3>1, <3>3, <4>2, MildSurvives
    <3>4. CASE ~Mild(i)
      <4>1. i \in X  BY <3>1, <3>2, <3>4 DEF Rest
      <4>2. i.do \in {"round", "running", "each", "try", "lock"}  BY <4>1, LoopKinds
      <4>3. children' = children  BY <1>2, <4>2
      <4> QED  BY <1>1, <3>1, <3>4, <4>3, LoopSurvives
    <3> QED  BY <1>1, <3>3, <3>4
  <2>3. CASE c # 0
    <3>1. c \in 1..3  BY <2>3
    <3>2. PICK n \in children : Work(s, c, n, active, mode)  BY <2>1, <2>3 DEF Front
    <3>3. c <= Len(s) /\ Closes(s, c)  BY <2>1, <2>3 DEF Front
    <3>4. AtWork(t, c, n)  BY <2>1, <3>1, <3>2, <3>3 DEF AtWork
    <3> QED  BY <1>1, <3>4, WorkSurvives
  <2> QED  BY <2>2, <2>3
<1>5. CASE running /\ Halting(s)  BY <1>1, <1>5, HaltSurvives
<1> QED  BY <1>1, <1>3, <1>4, <1>5 DEF Lives

LEMMA RoundingStays ==
  ASSUME ParentRuns, running, Rounding(todo[Monitor]), NEW b, NEW k, Replaces(Monitor, b, k)
  PROVE  Rounding(todo'[Monitor])
<1> DEFINE s == todo[Monitor]
           z == b \o After(s, k)
<1>1. /\ k \in 1..Len(s) /\ IsSeq(b) /\ todo'[Monitor] = z
      /\ s[k].do = "end" \/ (k = 1 /\ (s[1].do = "round" => b = Parent!MonitorRound))
      /\ s # <<>> /\ s[Len(s)].do = "round"
  BY DEF Replaces, Rounding
<1>2. IsSeq(s)  BY ParentThreadFacts DEF ParentRuns, Calls, Good
<1>3. k \in 0..Len(s)  BY <1>1
<1> HIDE DEF s, z
<1>4. Grafted(z, b, s, k)  BY <1>1, <1>2, <1>3, GraftedFacts DEF z
<1>5. /\ IsSeq(z) /\ Len(z) = Len(b) + (Len(s) - k) /\ Len(b) \in Nat /\ Len(s) \in Nat
      /\ \A n \in 1..Len(b) : z[n] = b[n]
      /\ \A j \in 1..(Len(s) - k) : z[Len(b) + j] = s[k + j]
  BY <1>4 DEF Grafted
<1>6. CASE k < Len(s)
  <2> DEFINE j == Len(s) - k
  <2>1. j \in 1..(Len(s) - k) /\ k + j = Len(s) /\ Len(b) + j = Len(z) /\ Len(z) > 0  BY <1>1, <1>5, <1>6
  <2> HIDE DEF j
  <2>2. z[Len(z)] = s[Len(s)]  BY <1>5, <2>1
  <2>3. z # <<>>  BY <2>1, NoItem
  <2> QED  BY <1>1, <2>2, <2>3 DEF Rounding
<1>7. CASE ~(k < Len(s))
  <2>1. k = Len(s)  BY <1>1, <1>5, <1>7
  <2>2. b = Parent!MonitorRound  BY <1>1, <2>1
  <2> DEFINE r == Item("round", 0)
             a == <<RoundScope>>
             e == <<r>>
  <2>3. b = a \o e
    BY <2>2 DEF Parent!MonitorRound, Parent!Locked, Parent!Do, RoundScope, LockItem, Item
  <2>4. IsSeq(a) /\ Len(a) = 1 /\ IsSeq(e) /\ Len(e) = 1 /\ e[1] = r  BY OneItem
  <2>5. r.do = "round"  BY ItemFacts
  <2>6. IsSeq(a) /\ IsSeq(e)  BY <2>4
  <2> HIDE DEF a, e, r
  <2>7. Len(b) = Len(a) + Len(e) /\ \A n \in 1..Len(e) : b[Len(a) + n] = e[n]  BY <2>3, <2>6, Joined
  <2>8. 1 \in 1..Len(e) /\ Len(a) + 1 = 2 /\ Len(b) = 2  BY <2>4, <2>7
  <2>9. b[2] = r  BY <2>4, <2>7, <2>8
  <2>10. Len(z) = 2 /\ 2 \in 1..Len(b)  BY <1>5, <2>1, <2>8
  <2>11. z[2] = r  BY <1>5, <2>9, <2>10
  <2>12. z # <<>>  BY ONLY <2>10, NoItem
  <2> QED  BY <1>1, <2>5, <2>10, <2>11, <2>12 DEF Rounding
<1> QED  BY <1>6, <1>7

LEMMA OthersStay ==
  ASSUME ParentRuns, NEW t \in ParentThreads, Steps(t)
  PROVE  dead' \/ \A u \in ParentThreads : u # t => todo'[u] = todo[u]
<1> DEFINE s == todo[t]
<1>1. ASSUME NEW s2, todo' = [todo EXCEPT ![t] = s2]
      PROVE  \A u \in ParentThreads : u # t => todo'[u] = todo[u]
  BY <1>1, ParentTodo
<1>2. CASE Takes(t, Unfolding(s[1]))
  <2>1. todo' = [todo EXCEPT ![t] = Unfolding(s[1]) \o Tail(s)]  BY <1>2 DEF Takes
  <2> QED  BY <1>1, <2>1
<1>3. CASE Parent!Throw(t)
  <2>1. dead' \/ \E s2 : todo' = [todo EXCEPT ![t] = s2]
    BY <1>3 DEF Parent!Throw, Parent!EndProcess
  <2> QED  BY <1>1, <2>1
<1> QED  BY <1>2, <1>3 DEF Steps

\* What a step changes does not matter to the other threads.
LEMMA OthersLive ==
  ASSUME NEW s, Lives(s, children, active, mode, running), running => running',
         Quietly \/ ~Closes(s, 0)
  PROVE  Lives(s, children', active', mode', running')
<1>1. CASE Enrolling(s)  BY <1>1 DEF Lives
<1>2. CASE Looping(s, children, active, mode)
  <2>1. Looping(s, children', active', mode')
    <3>1. Calmer(children, active, mode, children', active', mode') \/ ~Closes(s, 0)  BY DEF Quietly
    <3> QED  BY <1>2, <3>1, LoopingStays
  <2> QED  BY <2>1 DEF Lives
<1>3. CASE running /\ Halting(s)  BY <1>3 DEF Lives
<1> QED  BY <1>1, <1>2, <1>3 DEF Lives

LEMMA OneCloses ==
  ASSUME ParentRuns, NEW t \in ParentThreads, NEW u \in ParentThreads, u # t,
         Closes(todo[t], 0)
  PROVE  ~Closes(todo[u], 0)
BY ClosesHolds

-----------------------------------------------------------------------------
(* The invariant for the children marked active, and that every step and    *)
(* every call keeps it.                                                     *)

LiveParts ==
  /\ ChildrenRight
  /\ \A t \in ParentThreads : Lives(todo[t], children, active, mode, running)
  /\ running => Rounding(todo[Monitor])

LiveInv == dead \/ (ParentRuns /\ ParentFlow /\ LiveParts)

LEMMA LoopLives ==
  ASSUME NEW s, NEW ch, NEW ac, NEW mo, NEW ru, Rest(LoopSet(ch), s, 0, FALSE)
  PROVE  Lives(s, ch, ac, mo, ru)
<1>1. 0 \in 0..3 /\ Front(s, 0, ch, ac, mo)  BY DEF Front
<1>2. Looping(s, ch, ac, mo)  BY <1>1 DEF Looping
<1> QED  BY <1>2 DEF Lives

\* start() sets running_ and creates the two threads.
LEMMA RunningStep ==
  ASSUME ParentRuns, ParentFlow, LiveParts, NEW t \in ParentThreads, Parent!ThreadStep(t),
         todo[t] # <<>>, todo[t][1].do = "running"
  PROVE  LiveParts'
<1> DEFINE s == todo[t]
           i == s[1]
           X == LoopSet(children)
           round == Parent!Do("round", 0)
           await == Parent!Do("await", 0)
<1>1. IsSeq(s)  BY DEF ParentRuns, Calls, Good
<1>2. Head(s) = i /\ 1 \in 1..Len(s) /\ 1 \in (0 + 1)..Len(s) /\ Len(s) \in Nat  BY <1>1, SeqFacts
<1>3. \A d : Parent!At(t, d) => i.do = d /\ Parent!Now(t) = i  BY <1>2 DEF Parent!At, Parent!Now
<1>4. Parent!SetFlags(t)
  <2>1. ~Parent!LockStep(t)
    BY <1>3 DEF Parent!LockStep, Parent!Acquire, Parent!RelockThrows, Parent!Release, Parent!EnterTry, Parent!LeaveTry
  <2>2. ~Parent!Find(t) /\ ~Parent!Table(t) /\ ~Parent!Activity(t) /\ ~Parent!ChildCall(t)
    BY <1>3 DEF Parent!Find, Parent!Table, Parent!Activity, Parent!ChildCall
  <2>3. ~Parent!Each(t) /\ ~Parent!Check(t) /\ ~Parent!Collect(t) /\ ~Parent!Round(t)
        /\ ~Parent!LeaveQueue(t) /\ ~Parent!Join(t)
    BY <1>3 DEF Parent!Each, Parent!Check, Parent!Collect, Parent!Round, Parent!LeaveQueue, Parent!Join
  <2> QED  BY <2>1, <2>2, <2>3 DEF Parent!ThreadStep
<1>5. Lives(s, children, active, mode, running)  BY DEF LiveParts
<1>6. i.arg = TRUE
  <2>1. Mild(i) => i.do # "running"  BY MildFacts DEF Sharp
  <2> HIDE DEF i
  <2>2. \/ Mild(i)
        \/ i.do \in {"insert", "erase", "round", "each", "lock", "try", "join", "quiet"}
        \/ i.do = "running" /\ i.arg = TRUE
        \/ i.do \in {"start", "check", "active", "stop"}
    BY <1>5, FirstOf DEF i
  <2>3. i.do = "running"  BY DEF i
  <2> QED  BY <2>1, <2>2, <2>3
<1>7. Parent!Now(t) = i  BY <1>2 DEF Parent!Now
<1>8. /\ children' = children /\ active' = active /\ mode' = mode /\ running' = TRUE
      /\ todo' = [u \in ParentThreads |->
                    IF u = t THEN Tail(todo[u])
                    ELSE IF u = Monitor THEN round ELSE IF u = Worker THEN await ELSE todo[u]]
  BY <1>4, <1>6, <1>7 DEF Parent!SetFlags, ParentThreads
<1>9. ~running /\ t # Monitor
  <2>1. Flow(s, running, Awake) /\ (~running => Awake = {})  BY DEF ParentFlow
  <2>2. ~running  BY <1>2, <1>6, <2>1 DEF Flow
  <2> QED  BY <2>1, <2>2 DEF Awake
<1>10. Rest(X, s, 0, FALSE)
  <2>1. ~Enrolling(s)
    <3>1. SUFFICES ASSUME Enrolling(s) PROVE FALSE  OBVIOUS
    <3>2. Mild(i) \/ i \in RegisterSet  BY <1>2, <3>1 DEF Enrolling, Rest
    <3>3. i \in RegisterSet => i.do \in {"insert", "erase", "lock"}  BY RegisterKinds
    <3> QED  BY <3>2, <3>3, MildFacts DEF Sharp
  <2>2. Looping(s, children, active, mode)  BY <1>5, <1>9, <2>1 DEF Lives
  <2>3. PICK c \in 0..3 : Rest(X, s, c, FALSE) /\ Front(s, c, children, active, mode)
    BY <2>2 DEF Looping
  <2>4. ASSUME c # 0 PROVE FALSE
    <3>1. PICK n \in children : Work(s, c, n, active, mode)  BY <2>3, <2>4 DEF Front
    <3>2. i \in {Item("start", n), Item("active", n), Item("check", n), RecoverItem(n), Item("stop", n)}
      BY <3>1 DEF Work
    <3>3. RecoverItem(n).do = "try"  BY TryFacts DEF RecoverItem
    <3> QED  BY <3>2, <3>3, ItemFacts
  <2> QED  BY <2>3, <2>4
<1>11. Rest(X, Tail(s), 0, FALSE)
  <2>1. s # <<>>  OBVIOUS
  <2> HIDE DEF s, X
  <2>2. <<>> \o After(s, 1) = Tail(s)  BY <1>1, <2>1, TailSplice
  <2>3. Rest(X, <<>>, 0, FALSE)  BY MildsEmpty, RestMilds
  <2>4. 0 \in 0..Len(<<>>) /\ 1 \in 0..Len(s) /\ 0 \in Nat /\ 0 <= 1  BY <1>2, NoItem
  <2>5. Grafts(X, <<>>, 0, FALSE, s, 0, FALSE, 1)  BY <1>10, <2>3, <2>4, Zenon DEF Grafts
  <2>6. Rest(X, <<>> \o After(s, 1), 0, FALSE)  BY <2>5, RestGraft
  <2> QED  BY <2>2, <2>6
<1>12. Rest(X, round, 0, FALSE)
  <2> DEFINE r == Item("round", 0)
  <2>1. round = <<r>>  BY DEF Parent!Do, Item
  <2>2. r \in X /\ r.do \notin Guarded  BY ItemFacts DEF LoopSet, Guarded
  <2> HIDE DEF r, X, round
  <2>3. Rest(X, <<r>>, 0, FALSE)  BY <2>2, RestOne
  <2> QED  BY <2>1, <2>3
<1>13. Milds(await)
  <2>1. "await" \in ParentPlain /\ "await" \notin Sharp  BY DEF ParentPlain, Sharp
  <2> QED  BY <2>1, GentleDo, GentleMilds
<1>14. Rounding(round)
  <2> DEFINE r == Item("round", 0)
             o == <<r>>
  <2>1. round = o /\ r.do = "round"  BY ItemFacts DEF Parent!Do, Item
  <2>2. Len(o) = 1 /\ o[1] = r  BY OneItem
  <2> HIDE DEF r, o
  <2>3. o # <<>>  BY <2>2, NoItem
  <2> QED  BY <2>1, <2>2, <2>3 DEF Rounding
<1> HIDE DEF s, X, round, await
<1>15. Monitor \in ParentThreads  BY ParentThreadFacts
<1>16. todo'[Monitor] = round  BY <1>8, <1>9, <1>15
<1>17. ASSUME NEW u \in ParentThreads PROVE Lives(todo'[u], children', active', mode', running')
  <2>1. CASE u = t
    <3>1. todo'[u] = Tail(s)  BY <1>8, <2>1 DEF s
    <3>2. Rest(LoopSet(children'), todo'[u], 0, FALSE)  BY <1>8, <1>11, <3>1 DEF X
    <3> QED  BY <3>2, LoopLives
  <2>2. CASE u = Monitor
    <3>1. Rest(LoopSet(children'), todo'[u], 0, FALSE)  BY <1>8, <1>12, <1>16, <2>2 DEF X
    <3> QED  BY <3>1, LoopLives
  <2>3. CASE u # t /\ u # Monitor /\ u = Worker
    <3>1. todo'[u] = await  BY <1>8, <2>3
    <3>2. Enrolling(todo'[u])  BY <1>13, <3>1, RestMilds DEF Enrolling
    <3> QED  BY <3>2 DEF Lives
  <2>4. CASE u # t /\ u # Monitor /\ u # Worker
    <3>1. todo'[u] = todo[u]  BY <1>8, <2>4
    <3>2. Lives(todo[u], children, active, mode, running)  BY DEF LiveParts
    <3>3. Lives(todo[u], children', active', mode', running')  BY <1>8, <1>9, <3>2 DEF Lives
    <3> QED  BY <3>1, <3>3
  <2> QED  BY <2>1, <2>2, <2>3, <2>4
<1>18. ChildrenRight'  BY <1>8 DEF LiveParts, ChildrenRight
<1> QED  BY <1>14, <1>16, <1>17, <1>18 DEF LiveParts

LEMMA LiveStep ==
  ASSUME ParentRuns, ParentFlow, LiveParts, NEW t \in ParentThreads, Parent!ThreadStep(t)
  PROVE  dead' \/ LiveParts'
<1>1. todo[t] # <<>>  BY StepForms
<1>2. CASE todo[t][1].do = "running"  BY <1>1, <1>2, RunningStep
<1>3. CASE todo[t][1].do # "running"
  <2>1. /\ ChildrenRight /\ Lives(todo[t], children, active, mode, running)
        /\ running => Rounding(todo[Monitor])
    BY DEF LiveParts
  <2>2. Survives(t) /\ Steps(t)  BY <1>3, <2>1, StepSurvives
  <2>3. ChildrenRight' /\ (running => running') /\ (Quietly \/ Closes(todo[t], 0))
    BY <2>1, StepState
  <2>4. running' = running  BY <1>3, StepEffects
  <2>5. SUFFICES ASSUME ~dead' PROVE LiveParts'  OBVIOUS
  <2>6. \A u \in ParentThreads : u # t => todo'[u] = todo[u]  BY <2>2, <2>5, OthersStay
  <2>7. ASSUME NEW u \in ParentThreads PROVE Lives(todo'[u], children', active', mode', running')
    <3>1. CASE u = t
      <4>1. CASE todo'[t] = <<>>
        <5>1. Enrolling(<<>>)  BY MildsEmpty, RestMilds DEF Enrolling
        <5> QED  BY <3>1, <4>1, <5>1 DEF Lives
      <4>2. CASE todo'[t] # <<>>  BY <2>2, <2>5, <3>1, <4>2 DEF Survives
      <4> QED  BY <4>1, <4>2
    <3>2. CASE u # t
      <4>1. Quietly \/ ~Closes(todo[u], 0)  BY <2>3, <3>2, OneCloses
      <4>2. Lives(todo[u], children, active, mode, running)  BY DEF LiveParts
      <4>3. Lives(todo[u], children', active', mode', running')  BY <2>3, <4>1, <4>2, OthersLive
      <4> QED  BY <2>6, <3>2, <4>3
    <3> QED  BY <3>1, <3>2
  <2>8. running' => Rounding(todo'[Monitor])
    <3>1. SUFFICES ASSUME running PROVE Rounding(todo'[Monitor])  BY <2>4
    <3>2. Rounding(todo[Monitor])  BY <2>1, <3>1
    <3>3. CASE t = Monitor
      <4>1. \E b, k : Replaces(Monitor, b, k)  BY <2>2, <2>5, <3>3 DEF Survives
      <4> QED  BY <3>1, <3>2, <4>1, RoundingStays
    <3>4. CASE t # Monitor
      <4>1. todo'[Monitor] = todo[Monitor]  BY <2>6, <3>4, ParentThreadFacts
      <4> QED  BY <3>2, <4>1
    <3> QED  BY <3>3, <3>4
  <2> QED  BY <2>3, <2>7, <2>8 DEF LiveParts
<1> QED  BY <1>2, <1>3

\* start() and stop(), as they are called.
LEMMA StartRest ==
  ASSUME NEW ch
  PROVE  Rest(LoopSet(ch), Parent!Start, 0, FALSE)
<1> DEFINE X == LoopSet(ch)
           i == Item("running", TRUE)
           a == <<i>>
           b == <<StartScope>>
<1>1. Parent!Start = a \o b
  BY DEF Parent!Start, Parent!AllChildren, Parent!Do, Parent!Locked, StartScope, LockItem, Item
<1>2. i \in X /\ i.do \notin Guarded /\ StartScope \in X /\ StartScope.do \notin Guarded
  BY DEF LoopSet, Item, StartScope, LockItem, Guarded
<1>3. IsSeq(a) /\ Len(a) = 1 /\ IsSeq(b) /\ Len(b) = 1  BY OneItem
<1> HIDE DEF i
<1>4. Rest(X, a, 0, FALSE) /\ Rest(X, b, 0, FALSE)  BY <1>2, RestOne
<1> HIDE DEF X, a, b
<1>5. 0 \in 0..Len(a) /\ 0 \in 0..Len(b) /\ 0 \in Nat /\ 0 <= 0  BY <1>3
<1>6. Grafts(X, a, 0, FALSE, b, 0, FALSE, 0)  BY <1>4, <1>5, Zenon DEF Grafts
<1>7. Rest(X, a \o After(b, 0), 0, FALSE)  BY <1>6, RestGraft
<1>8. Rest(X, a \o b, 0, FALSE)  BY <1>3, <1>7, AfterNone
<1> QED  BY <1>1, <1>8 DEF X

LEMMA StopHalts == Halting(Parent!Stop)
<1> DEFINE a == Item("quiet", FALSE)
           b == Item("join", Worker)
           c == Item("join", Monitor)
           d == LockItem("children", Parent!Do("each", "stop"))
           e == Item("running", FALSE)
           s1 == <<a>>
           s2 == s1 \o <<b>>
           s3 == s2 \o <<c>>
           s4 == s3 \o <<d>>
           s5 == s4 \o <<e>>
<1>1. Parent!Stop = s5
  BY DEF Parent!Stop, Parent!AllChildren, Parent!Do, Parent!Locked, Item, LockItem
<1> HIDE DEF a, b, c, d, e
<1>4. IsSeq(s1) /\ Len(s1) = 1 /\ s1[1] = a  BY OneItem
<1> HIDE DEF s1
<1>5. Longer(s1, b, s2)  BY <1>4, Appended
<1> HIDE DEF s2
<1>6. IsSeq(s2) /\ Len(s2) = 2 /\ s2[1] = a /\ s2[2] = b  BY <1>4, <1>5 DEF Longer
<1>7. Longer(s2, c, s3)  BY <1>6, Appended
<1> HIDE DEF s3
<1>8. IsSeq(s3) /\ Len(s3) = 3 /\ s3[1] = a /\ s3[2] = b /\ s3[3] = c  BY <1>6, <1>7 DEF Longer
<1>9. Longer(s3, d, s4)  BY <1>8, Appended
<1> HIDE DEF s4
<1>10. IsSeq(s4) /\ Len(s4) = 4 /\ s4[1] = a /\ s4[2] = b /\ s4[3] = c  BY <1>8, <1>9 DEF Longer
<1>11. Longer(s4, e, s5)  BY <1>10, Appended
<1> HIDE DEF s5
<1>12. IsSeq(s5) /\ Len(s5) = 5 /\ s5[1] = a /\ s5[2] = b /\ s5[3] = c  BY <1>10, <1>11 DEF Longer
<1>13. 3 \in 1..3 /\ 3 <= Len(s5) /\ 3 - 1 = 2  BY <1>12
<1>14. Halting(s5)  BY <1>12, <1>13 DEF Halting, a, b, c
<1> QED  BY <1>1, <1>14

\* Every call begins as one of the three.
LEMMA LiveInvoke ==
  ASSUME ParentRuns, LiveParts, NEW t, Parent!Invoke(t)
  PROVE  LiveParts'
<1>1. /\ t \in Clients /\ t \in ParentThreads /\ t # Monitor
      /\ running' = running /\ children' = children /\ active' = active /\ mode' = mode
  BY ParentThreadFacts DEF Parent!Invoke, Parent!parent
<1>2. PICK steps : Parent!Call(t, steps) /\ Lives(steps, children, active, mode, running)
  <2>1. ASSUME Parent!Call(t, Parent!Start) PROVE Lives(Parent!Start, children, active, mode, running)
    BY StartRest, LoopLives
  <2>2. ASSUME running PROVE Lives(Parent!Stop, children, active, mode, running)
    BY <2>2, StopHalts DEF Lives
  <2>3. ASSUME NEW n \in Names, NEW steps \in {Parent!RegisterChildKernel(n), Parent!UnregisterChildKernel(n)}
        PROVE  Lives(steps, children, active, mode, running)
    <3> DEFINE i == LockItem("children", RegisterBody(n))
               j == LockItem("children", UnregisterBody(n))
    <3>1. Parent!RegisterChildKernel(n) = <<i>> /\ Parent!UnregisterChildKernel(n) = <<j>>
      BY DEF Parent!RegisterChildKernel, Parent!UnregisterChildKernel, Parent!Locked, LockItem,
             RegisterBody, UnregisterBody
    <3>2. i \in RegisterSet /\ j \in RegisterSet  BY DEF RegisterSet
    <3>3. i.do \notin Guarded /\ j.do \notin Guarded  BY DEF LockItem, Guarded
    <3> HIDE DEF i, j
    <3>4. Enrolling(<<i>>) /\ Enrolling(<<j>>)  BY <3>2, <3>3, RestOne DEF Enrolling
    <3> QED  BY <3>1, <3>4 DEF Lives
  <2>4. ASSUME NEW n, NEW step \in {"optimize", "message"},
         NEW steps \in {Parent!Pause, Parent!Resume, Parent!SendMessage(n), Parent!OptimizeChildKernel(n),
           Parent!SetResourceQuota(n), Parent!SetTaskDistribution(n), Parent!BalanceTasks,
           Parent!UpdateMetrics, Parent!MonitorResourceUsage, Parent!AllChildren(step)}
        PROVE  Lives(steps, children, active, mode, running)
    <3>1. Milds(steps)  BY GentlePublic, GentleMilds
    <3> QED  BY <3>1, RestMilds DEF Lives, Enrolling
  <2>5. \/ Parent!Call(t, Parent!Start)
        \/ running /\ Parent!Call(t, Parent!Stop)
        \/ \E n \in Names : \E steps \in {Parent!RegisterChildKernel(n), Parent!UnregisterChildKernel(n)} :
             Parent!Call(t, steps)
        \/ \E n : \E step \in {"optimize", "message"} :
           \E steps \in {Parent!Pause, Parent!Resume, Parent!SendMessage(n), Parent!OptimizeChildKernel(n),
             Parent!SetResourceQuota(n), Parent!SetTaskDistribution(n), Parent!BalanceTasks,
             Parent!UpdateMetrics, Parent!MonitorResourceUsage, Parent!AllChildren(step)} :
             Parent!Call(t, steps)
    BY DEF Parent!Invoke
  <2> QED  BY <2>1, <2>2, <2>3, <2>4, <2>5
<1>3. todo' = [todo EXCEPT ![t] = steps]  BY <1>2 DEF Parent!Call
<1>4. todo'[t] = steps /\ \A u \in ParentThreads : u # t => todo'[u] = todo[u]
  BY <1>1, <1>3, ParentTodo
<1>5. ASSUME NEW u \in ParentThreads PROVE Lives(todo'[u], children', active', mode', running')
  <2>1. CASE u = t  BY <1>1, <1>2, <1>4, <2>1
  <2>2. CASE u # t  BY <1>1, <1>4, <2>2 DEF LiveParts
  <2> QED  BY <2>1, <2>2
<1>6. running' => Rounding(todo'[Monitor])
  <2>1. todo'[Monitor] = todo[Monitor]  BY <1>1, <1>4, ParentThreadFacts
  <2> QED  BY <1>1, <2>1 DEF LiveParts
<1>7. ChildrenRight'  BY <1>1 DEF LiveParts, ChildrenRight
<1> QED  BY <1>5, <1>6, <1>7 DEF LiveParts

LEMMA LiveNextInv ==
  ASSUME LiveInv, Parent!Next
  PROVE  LiveInv'
<1>1. PICK t \in ParentThreads : Parent!Invoke(t) \/ Parent!ThreadStep(t)
  BY DEF Parent!Next, ParentThreads
<1>2. ParentRuns /\ ParentFlow /\ LiveParts  BY <1>1, ParentAlive DEF LiveInv
<1>3. dead' \/ (ParentRuns' /\ ParentFlow')  BY <1>2, ParentNextInv DEF ParentInv
<1>4. dead' \/ LiveParts'  BY <1>1, <1>2, LiveStep, LiveInvoke
<1> QED  BY <1>3, <1>4 DEF LiveInv

LEMMA LiveInitInv ==
  ASSUME Parent!Init
  PROVE  LiveInv
<1>1. /\ todo = [t \in ParentThreads |-> <<>>] /\ running = FALSE /\ children = {} /\ active = {}
      /\ mode = [n \in Names |-> "stopped"]
  BY DEF Parent!Init, ParentThreads
<1>2. Enrolling(<<>>)  BY MildsEmpty, RestMilds DEF Enrolling
<1>3. \A t \in ParentThreads : Lives(todo[t], children, active, mode, running)  BY <1>1, <1>2 DEF Lives
<1>4. ChildrenRight  BY <1>1 DEF ChildrenRight
<1>5. LiveParts  BY <1>1, <1>3, <1>4 DEF LiveParts
<1>6. dead \/ (ParentRuns /\ ParentFlow)  BY ParentInitInv DEF ParentInv
<1> QED  BY <1>5, <1>6 DEF LiveInv

LEMMA LiveChildren ==
  ASSUME LiveInv
  PROVE  Parent!ActiveChildrenRun
BY DEF LiveInv, LiveParts, ChildrenRight, Parent!ActiveChildrenRun
-----------------------------------------------------------------------------
(* The two managers together.                                              *)

TreeInv ==
  /\ focus = "manager" => ManagerInv
  /\ focus = "parent" => ParentInv

LEMMA TreeInitInv == MCInit => TreeInv
<1>1. CASE focus = "manager" /\ Manager!Init  BY <1>1, ManagerInitInv DEF TreeInv
<1>2. CASE focus = "parent" /\ Parent!Init  BY <1>2, ParentInitInv DEF TreeInv
<1>3. CASE focus = "limits"  BY <1>3 DEF TreeInv
<1> QED  BY <1>1, <1>2, <1>3 DEF MCInit

LEMMA TreeNextInv == TreeInv /\ [MCNext]_allVars => TreeInv'
<1> SUFFICES ASSUME TreeInv, [MCNext]_allVars PROVE TreeInv'
  OBVIOUS
<1>1. CASE focus = "manager" /\ Manager!Next /\ focus' = focus
  <2>1. ManagerInv'  BY <1>1, ManagerNextInv DEF TreeInv
  <2> QED  BY <1>1, <2>1 DEF TreeInv
<1>2. CASE focus = "parent" /\ Parent!Next /\ focus' = focus
  <2>1. ParentInv'  BY <1>2, ParentNextInv DEF TreeInv
  <2> QED  BY <1>2, <2>1 DEF TreeInv
<1>3. CASE focus = "limits" /\ focus' = focus  BY <1>3 DEF TreeInv
<1>4. CASE UNCHANGED allVars
  <2>1. /\ focus' = focus /\ holder' = holder /\ depth' = depth /\ todo' = todo /\ dead' = dead
        /\ kernels' = kernels /\ children' = children /\ running' = running
    BY <1>4 DEF allVars, callers, manager, parent
  <2>2. ManagerInv' <=> ManagerInv  BY <2>1 DEF ManagerInv, ManagerRuns
  <2>3. ParentInv' <=> ParentInv
    <3>1. Awake' = Awake  BY <2>1 DEF Awake
    <3> QED  BY <2>1, <3>1 DEF ParentInv, ParentRuns, ParentFlow
  <2> QED  BY <2>1, <2>2, <2>3 DEF TreeInv
<1> QED  BY <1>1, <1>2, <1>3, <1>4 DEF MCNext

\* Threads that wait for one another's mutexes exist only where a KernelManager's
\* thread has the configurations and asks for the kernels, as setKernelConfig does,
\* and never among a ParentKernel's threads, however many clients and kernels there are.
THEOREM LocksAreOrdered == MCSpec => []LocksOrdered
<1>1. MCInit => TreeInv  BY TreeInitInv
<1>2. TreeInv /\ [MCNext]_allVars => TreeInv'  BY TreeNextInv
<1>3. TreeInv => LocksOrdered  BY ManagerCycle, ParentNoCycle DEF TreeInv, LocksOrdered
<1> QED  BY <1>1, <1>2, <1>3, PTL DEF MCSpec

TreeRegistry == focus = "manager" => RegistryInv

LEMMA TreeRegistryInit == MCInit => TreeRegistry
BY RegistryInitInv DEF MCInit, TreeRegistry

LEMMA TreeRegistryNext == TreeRegistry /\ [MCNext]_allVars => TreeRegistry'
<1> SUFFICES ASSUME TreeRegistry, [MCNext]_allVars, focus' = "manager" PROVE RegistryInv'
  BY DEF TreeRegistry
<1>1. CASE focus = "manager" /\ Manager!Next  BY <1>1, RegistryNextInv DEF TreeRegistry
<1>2. CASE focus \in {"parent", "limits"} /\ focus' = focus  BY <1>2
<1>3. CASE UNCHANGED allVars
  <2>1. /\ focus' = focus /\ holder' = holder /\ depth' = depth /\ todo' = todo /\ dead' = dead
        /\ platform' = platform /\ kernels' = kernels /\ configs' = configs /\ status' = status
    BY <1>3 DEF allVars, callers, manager
  <2>2. RegistryInv  BY <2>1 DEF TreeRegistry
  <2>3. ManagerRuns' <=> ManagerRuns  BY <2>1 DEF ManagerRuns
  <2>4. Registry => Registry'
    <3>1. \A places : \A n : OnWay(places, n)' <=> OnWay(places, n)  BY <2>1 DEF OnWay
    <3>2. \A t : Registering(t)' <=> Registering(t)  BY <2>1 DEF Registering
    <3>3. Statuses => Statuses'  BY <2>1, StatusKept
    <3> QED  BY <2>1, <3>1, <3>2, <3>3 DEF Registry
  <2> QED  BY <2>1, <2>2, <2>3, <2>4 DEF RegistryInv
<1> QED  BY <1>1, <1>2, <1>3 DEF MCNext

\* Whenever kernels_mutex_ is free, every registered kernel has its
\* configuration and its status: registerKernel, unregisterKernel, the loops and
\* the monitoring thread leave nothing half done, however many clients there are.
THEOREM RegistrationsComplete == MCSpec => []RegisteredComplete
<1>1. MCInit => TreeRegistry  BY TreeRegistryInit
<1>2. TreeRegistry /\ [MCNext]_allVars => TreeRegistry'  BY TreeRegistryNext
<1>3. TreeRegistry => RegisteredComplete  BY RegistryComplete DEF TreeRegistry, RegisteredComplete
<1> QED  BY <1>1, <1>2, <1>3, PTL DEF MCSpec

TreeLive == focus = "parent" => LiveInv

LEMMA TreeLiveInit == MCInit => TreeLive
BY LiveInitInv DEF MCInit, TreeLive

LEMMA TreeLiveNext == TreeLive /\ [MCNext]_allVars => TreeLive'
<1> SUFFICES ASSUME TreeLive, [MCNext]_allVars, focus' = "parent" PROVE LiveInv'
  BY DEF TreeLive
<1>1. CASE focus = "parent" /\ Parent!Next  BY <1>1, LiveNextInv DEF TreeLive
<1>2. CASE focus \in {"manager", "limits"} /\ focus' = focus  BY <1>2
<1>3. CASE UNCHANGED allVars
  <2>1. /\ focus' = focus /\ holder' = holder /\ depth' = depth /\ todo' = todo /\ dead' = dead
        /\ mode' = mode /\ children' = children /\ active' = active /\ running' = running
    BY <1>3 DEF allVars, callers, parent
  <2>2. LiveInv  BY <2>1 DEF TreeLive
  <2>3. ParentRuns => ParentRuns'  BY <2>1 DEF ParentRuns
  <2>4. ParentFlow => ParentFlow'
    <3>1. Awake' = Awake  BY <2>1 DEF Awake
    <3> QED  BY <2>1, <3>1 DEF ParentFlow
  <2>5. LiveParts => LiveParts'  BY <2>1 DEF LiveParts, ChildrenRight
  <2> QED  BY <2>1, <2>2, <2>3, <2>4, <2>5 DEF LiveInv
<1> QED  BY <1>1, <1>2, <1>3 DEF MCNext

\* Whenever child_kernels_mutex_ is free, a child of a ParentKernel that is marked
\* active is registered and runs: the loops of start() and of the monitoring thread,
\* registrations and exceptions in between leave no flag behind, on each platform and
\* however many clients and children there are.
THEOREM ChildrenMarkedRun == MCSpec => []ActiveChildrenRun
<1>1. MCInit => TreeLive  BY TreeLiveInit
<1>2. TreeLive /\ [MCNext]_allVars => TreeLive'  BY TreeLiveNext
<1>3. TreeLive => ActiveChildrenRun  BY LiveChildren DEF TreeLive, ActiveChildrenRun
<1> QED  BY <1>1, <1>2, <1>3, PTL DEF MCSpec

\* running_ is not reset.
RunsOn == focus = "parent" /\ running => running'

LEMMA TreeRunsOn == TreeLive /\ [MCNext]_allVars => [RunsOn]_allVars
<1> SUFFICES ASSUME TreeLive, MCNext, focus = "parent", running PROVE running'
  BY DEF RunsOn
<1>1. Parent!Next  BY DEF MCNext
<1>2. PICK t \in ParentThreads : Parent!Invoke(t) \/ Parent!ThreadStep(t)
  BY <1>1 DEF Parent!Next, ParentThreads
<1>3. ParentRuns /\ ParentFlow /\ LiveParts  BY <1>2, ParentAlive DEF TreeLive, LiveInv
<1>4. CASE Parent!Invoke(t)  BY <1>4 DEF Parent!Invoke, Parent!parent
<1>5. CASE Parent!ThreadStep(t)
  <2>1. ChildrenRight /\ Lives(todo[t], children, active, mode, running)  BY <1>3 DEF LiveParts
  <2> QED  BY <1>3, <1>5, <2>1, StepState
<1> QED  BY <1>2, <1>4, <1>5

\* stop() never returns from a started ParentKernel: the monitoring thread it joins
\* leaves only when running_ is reset, and stop() resets it after the join, so that
\* nothing ever does.
THEOREM StopNeverReturns == MCSpec => [][RunsOn]_allVars
<1>1. MCInit => TreeLive  BY TreeLiveInit
<1>2. TreeLive /\ [MCNext]_allVars => TreeLive'  BY TreeLiveNext
<1>3. TreeLive /\ [MCNext]_allVars => [RunsOn]_allVars  BY TreeRunsOn
<1> QED  BY <1>1, <1>2, <1>3, PTL DEF MCSpec
=============================================================================
