---------------------------- MODULE LockedCalls ----------------------------
(***************************************************************************)
(* Threads that run calls made of lock scopes, try blocks and steps, for   *)
(* the classes whose methods call one another, often with mutexes held:    *)
(* the managers of kernels, containers and instances, the engines, the     *)
(* program.  What a thread still has to do is a sequence, so that an       *)
(* exception can unwind it the way C++ does: up to the handler of the      *)
(* innermost try block, unlocking on the way.                              *)
(*                                                                         *)
(* Several of them lock a std::mutex they hold.  That is undefined;        *)
(* platform says what the library makes of it: it hangs (glibc), it throws *)
(* (where the owner is checked), or it counts the owner's locks (release   *)
(* builds of MSVC).                                                        *)
(***************************************************************************)
EXTENDS Integers, Sequences, SequencesExt, FiniteSetsExt

CONSTANTS
  Threads,    \* the clients and the threads of the class
  Services,   \* the threads of the class: an exception they do not catch ends the process
  Mutexes,
  Free        \* the holder of a mutex nobody holds

VARIABLES
  platform,  \* what locking one's own mutex does
  holder,    \* who holds each mutex
  depth,     \* how often
  todo,      \* what each thread still has to do
  dead       \* std::terminate or a stack overflow ended the process

callVars == <<platform, holder, depth, todo, dead>>

Locked(m, body) == <<[do |-> "lock", m |-> m, body |-> body]>>
Try(body, handler) == <<[do |-> "try", body |-> body, handler |-> handler]>>
Do(step, arg) == <<[do |-> step, arg |-> arg]>>
Just(step) == <<[do |-> step]>>

CallsTypeOK ==
  /\ platform \in {"hangs", "throws", "counts"} /\ dead \in BOOLEAN
  /\ holder \in [Mutexes -> Threads \cup {Free}] /\ depth \in [Mutexes -> Nat]
  /\ \A m \in Mutexes : holder[m] = Free <=> depth[m] = 0
  /\ \A t \in Threads : \A m \in Mutexes :
       Cardinality({n \in DOMAIN todo[t] : todo[t][n].do = "unlock" /\ todo[t][n].m = m})
         = IF holder[m] = t /\ ~dead THEN depth[m] ELSE 0

CallsInit ==
  /\ platform \in {"hangs", "throws", "counts"}
  /\ holder = [m \in Mutexes |-> Free] /\ depth = [m \in Mutexes |-> 0]
  /\ dead = FALSE

Idle(t) == ~dead /\ todo[t] = <<>>
At(t, step) == ~dead /\ todo[t] # <<>> /\ Head(todo[t]).do = step
Now(t) == Head(todo[t])

\* The thread replaces its present step by others.
Becomes(t, steps) == todo' = [todo EXCEPT ![t] = steps \o Tail(@)]
Advance(t) == Becomes(t, <<>>)

Call(t, steps) ==
  /\ Idle(t)
  /\ todo' = [todo EXCEPT ![t] = steps]
  /\ UNCHANGED <<platform, holder, depth, dead>>

\* A step that changes no lock goes on, possibly with other steps.
Proceed(t, steps) == Becomes(t, steps) /\ UNCHANGED <<platform, holder, depth, dead>>
Done(t) == Proceed(t, <<>>)

\* std::terminate, or the end of the stack.
EndProcess ==
  /\ dead' = TRUE /\ todo' = [u \in Threads |-> <<>>]
  /\ UNCHANGED <<platform, holder, depth>>

\* Mutant: mutexes are locked and unlocked by hand, which no unwinding makes up for.
ThrowHolding(t) ==
  LET handlers == {n \in DOMAIN todo[t] : todo[t][n].do = "end"}
  IN  IF handlers = {} /\ t \in Services
      THEN EndProcess
      ELSE /\ todo' = [todo EXCEPT ![t] =
                         IF handlers = {} THEN <<>>
                         ELSE @[Min(handlers)].handler \o SubSeq(@, Min(handlers) + 1, Len(@))]
           /\ UNCHANGED <<platform, holder, depth, dead>>

\* The stack is unwound: the scopes that are left unlock.
Throw(t) ==
  LET rest == todo[t]
      handlers == {n \in DOMAIN rest : rest[n].do = "end"}
      last == IF handlers = {} THEN Len(rest) ELSE Min(handlers)
      left == [m \in Mutexes |->
                 depth[m] - Cardinality({n \in 1..last : rest[n].do = "unlock" /\ rest[n].m = m})]
      kept == SubSeq(rest, last + 1, Len(rest))
  IN  IF handlers = {} /\ t \in Services
      THEN EndProcess
      ELSE /\ todo' = [todo EXCEPT ![t] =
                         IF handlers = {} THEN <<>> ELSE rest[last].handler \o kept]
           /\ depth' = left
           /\ holder' = [m \in Mutexes |-> IF left[m] = 0 THEN Free ELSE holder[m]]
           /\ UNCHANGED <<platform, dead>>

-----------------------------------------------------------------------------
Acquire(t) ==
  /\ At(t, "lock")
  /\ LET m == Now(t).m
     IN  /\ holder[m] = Free \/ (holder[m] = t /\ platform = "counts")
         /\ holder' = [holder EXCEPT ![m] = t]
         /\ depth' = [depth EXCEPT ![m] = @ + 1]
         /\ Becomes(t, Now(t).body \o <<[do |-> "unlock", m |-> m]>>)
  /\ UNCHANGED <<platform, dead>>

RelockThrows(t) ==
  /\ At(t, "lock") /\ holder[Now(t).m] = t /\ platform = "throws"
  /\ Throw(t)

Release(t) ==
  /\ At(t, "unlock")
  /\ LET m == Now(t).m
     IN  /\ depth' = [depth EXCEPT ![m] = @ - 1]
         /\ holder' = [holder EXCEPT ![m] = IF depth[m] = 1 THEN Free ELSE @]
  /\ Advance(t)
  /\ UNCHANGED <<platform, dead>>

EnterTry(t) ==
  /\ At(t, "try")
  /\ Proceed(t, Now(t).body \o <<[do |-> "end", handler |-> Now(t).handler]>>)

LeaveTry(t) == At(t, "end") /\ Done(t)

LockStep(t) == Acquire(t) \/ RelockThrows(t) \/ Release(t) \/ EnterTry(t) \/ LeaveTry(t)

-----------------------------------------------------------------------------
(* What a set of threads that wait for one another's mutexes looks like;   *)
(* threads that are joined are not counted.                                *)

Wants(t) == IF At(t, "lock") THEN {Now(t).m} ELSE {}

Entangled(S) == S # {} /\ \A t \in S : \E m \in Wants(t) : holder[m] \in S \ {t}
=============================================================================
