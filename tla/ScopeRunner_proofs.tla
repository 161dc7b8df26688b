------------------------- MODULE ScopeRunner_proofs -------------------------
(* Proofs about ScopeRunner: for any finite set of handler threads and any     *)
(* set of callers of stop().                                                  *)
EXTENDS ScopeRunner, FiniteSetTheorems, TLAPS

\* The strengthening that is inductive: the count is right, and a stop() that has
\* returned has left -1 behind, or found it.
IInv ==
    /\ TypeOK
    /\ CountsLocks
    /\ \A s \in Stoppers : stopper[s] = "stopped" => count = -1

\* The threads inside are a finite set, no larger than that of all threads.
LEMMA InsideFinite ==
    /\ IsFiniteSet(Inside)
    /\ Cardinality(Inside) \in Nat
    /\ Cardinality(Inside) =< Cardinality(Threads)
    /\ Cardinality(Threads) \in Nat
    /\ Inside = {} <=> Cardinality(Inside) = 0
  <1>1. Inside \subseteq Threads
    BY DEF Inside
  <1> QED BY <1>1, ThreadsAssumption, FS_Subset, FS_CardinalityType, FS_EmptySet

\* The same in the next state.
LEMMA InsideFiniteNext ==
    /\ Cardinality(Inside') =< Cardinality(Threads)
    /\ Cardinality(Inside') \in Nat
  <1>1. Inside' \subseteq Threads
    BY DEF Inside
  <1> QED BY <1>1, ThreadsAssumption, FS_Subset, FS_CardinalityType

\* The three ways in which an action can leave the threads inside: as they are,
\* with one more, with one fewer.
LEMMA InsideSame ==
    ASSUME TypeOK, UNCHANGED handler
    PROVE  Inside' = Inside
  BY DEF Inside

LEMMA InsideGrows ==
    ASSUME TypeOK, NEW t \in Threads, Lock(t)
    PROVE  /\ t \notin Inside
           /\ Inside' = Inside \cup {t}
           /\ Cardinality(Inside') = Cardinality(Inside) + 1
  <1>1. t \notin Inside /\ Inside' = Inside \cup {t}
    BY DEF Inside, Lock, TypeOK
  <1> QED BY <1>1, InsideFinite, FS_AddElement

LEMMA InsideShrinks ==
    ASSUME TypeOK, NEW t \in Threads, Unlock(t)
    PROVE  /\ t \in Inside
           /\ Inside' = Inside \ {t}
           /\ Cardinality(Inside') = Cardinality(Inside) - 1
  <1>1. t \in Inside /\ Inside' = Inside \ {t}
    BY DEF Inside, Unlock, TypeOK
  <1> QED BY <1>1, InsideFinite, FS_RemoveElement

LEMMA InsideNotLoaded ==
    ASSUME TypeOK, NEW t \in Threads, Load(t) \/ Refused(t)
    PROVE  Inside' = Inside
  BY DEF Inside, Load, Refused, TypeOK

\* The invariant holds in the initial state.
LEMMA InitInv == Init => IInv
  <1> SUFFICES ASSUME Init PROVE IInv
    OBVIOUS
  <1>1. Inside = {}
    BY DEF Init, Inside
  <1>2. Cardinality(Inside) = 0
    BY <1>1, InsideFinite
  <1>3. TypeOK
    BY InsideFinite DEF Init, TypeOK
  <1>4. CountsLocks
    BY <1>2 DEF Init, CountsLocks
  <1> QED BY <1>3, <1>4 DEF Init, IInv

\* Every step keeps it: the exchange in Lock compares with the count, so neither
\* a lock nor stop()'s -1 is overwritten.
LEMMA NextInv == IInv /\ [Next]_vars => IInv'
  <1> SUFFICES ASSUME IInv, [Next]_vars PROVE IInv'
    OBVIOUS
  <1> USE DEF IInv
  <1>1. CASE \E t \in Threads : Load(t) \/ Retry(t) \/ Refused(t)
    <2> PICK t \in Threads : Load(t) \/ Retry(t) \/ Refused(t)
      BY <1>1
    <2>1. TypeOK'
      BY DEF TypeOK, Load, Retry, Refused
    <2>2. Inside' = Inside
      BY InsideSame, InsideNotLoaded DEF Retry
    <2>3. CountsLocks'
      BY <2>2 DEF CountsLocks, Load, Retry, Refused
    <2> QED BY <2>1, <2>3 DEF Load, Retry, Refused
  <1>2. CASE \E t \in Threads : Lock(t)
    <2> PICK t \in Threads : Lock(t)
      BY <1>2
    <2>1. count >= 0 /\ count' = count + 1 /\ stopper' = stopper
      BY DEF Lock, Compared, TypeOK
    <2>2. count' = Cardinality(Inside')
      BY <2>1, InsideGrows, InsideFinite DEF CountsLocks
    <2>3. TypeOK'
      BY <2>1, <2>2, InsideFiniteNext DEF TypeOK, Lock
    <2> QED BY <2>1, <2>2, <2>3 DEF CountsLocks
  <1>3. CASE \E t \in Threads : Unlock(t)
    <2> PICK t \in Threads : Unlock(t)
      BY <1>3
    <2>1. count' = count - 1 /\ stopper' = stopper
      BY DEF Unlock, Released
    <2>2. count = Cardinality(Inside) /\ Cardinality(Inside) >= 1
      BY InsideShrinks, InsideFinite DEF CountsLocks
    <2>3. count' = Cardinality(Inside')
      BY <2>1, <2>2, InsideShrinks, InsideFinite
    <2>4. TypeOK'
      BY <2>3, InsideFiniteNext DEF TypeOK, Unlock
    <2>5. count # -1
      BY <2>2, InsideFinite
    <2> QED BY <2>1, <2>3, <2>4, <2>5 DEF CountsLocks
  <1>4. CASE \E s \in Stoppers : Stop(s) \/ Shut(s) \/ AlreadyShut(s)
    <2> PICK s \in Stoppers : Stop(s) \/ Shut(s) \/ AlreadyShut(s)
      BY <1>4
    <2>1. Inside' = Inside
      BY InsideSame DEF Stop, Shut, AlreadyShut
    <2>2. CASE Stop(s)
      BY <2>1, <2>2 DEF Stop, TypeOK, CountsLocks
    <2>3. CASE Shut(s)
      <3>1. Inside = {}
        BY <2>3, InsideFinite DEF Shut, Free, CountsLocks
      <3>2. TypeOK'
        BY <2>3, InsideFinite DEF Shut, TypeOK
      <3>3. CountsLocks'
        BY <2>1, <2>3, <3>1 DEF Shut, CountsLocks
      <3> QED BY <2>3, <3>2, <3>3 DEF Shut
    <2>4. CASE AlreadyShut(s)
      <3>1. count = -1
        BY <2>4 DEF AlreadyShut, TypeOK
      <3>2. TypeOK'
        BY <2>4 DEF AlreadyShut, TypeOK
      <3>3. CountsLocks'
        BY <2>1, <2>4 DEF AlreadyShut, CountsLocks
      <3> QED BY <2>4, <3>1, <3>2, <3>3 DEF AlreadyShut
    <2> QED BY <2>2, <2>3, <2>4
  <1>5. CASE UNCHANGED vars
    <2>1. Inside' = Inside
      BY <1>5, InsideSame DEF vars
    <2> QED BY <1>5, <2>1 DEF vars, TypeOK, CountsLocks
  <1> QED BY <1>1, <1>2, <1>3, <1>4, <1>5 DEF Next

LEMMA Invariance == Spec => []IInv
  BY InitInv, NextInv, PTL DEF Spec

\* The variables keep their types.
THEOREM TypeCorrect == Spec => []TypeOK
  <1>1. IInv => TypeOK
    BY DEF IInv
  <1> QED BY Invariance, <1>1, PTL

\* No update of the count is lost, whatever the number of threads.
THEOREM CountCorrect == Spec => []CountsLocks
  <1>1. IInv => CountsLocks
    BY DEF IInv
  <1> QED BY Invariance, <1>1, PTL

\* After stop() no handler is inside, neither an old one nor a new one.
THEOREM StopCorrect == Spec => []StopExcludes
  <1>1. IInv => StopExcludes
    <2> SUFFICES ASSUME IInv, NEW s \in Stoppers, stopper[s] = "stopped"
                 PROVE  Inside = {}
      BY DEF StopExcludes
    <2>1. count = -1
      BY DEF IInv
    <2>2. Cardinality(Inside) # -1
      BY InsideFinite
    <2> QED BY <2>1, <2>2 DEF IInv, CountsLocks
  <1> QED BY Invariance, <1>1, PTL

\* The counter implements the gate: each step is a step of Gate or a stutter.
THEOREM Refinement == Spec => ImplementsGate
  <1>1. Init => G!Init
    BY DEF Init, G!Init, Inside
  <1>2. IInv /\ [Next]_vars => [G!Next]_G!vars
    <2> SUFFICES ASSUME IInv, [Next]_vars PROVE [G!Next]_G!vars
      OBVIOUS
    <2> USE DEF IInv
    <2>1. CASE \E t \in Threads : Load(t) \/ Retry(t) \/ Refused(t)
      BY <2>1, InsideSame, InsideNotLoaded DEF Load, Retry, Refused, G!vars
    <2>2. CASE \E t \in Threads : Lock(t)
      <3> PICK t \in Threads : Lock(t)
        BY <2>2
      <3>1. count # -1 /\ count' # -1
        BY DEF Lock, Compared, TypeOK
      <3>2. G!Enter(t)
        BY <3>1, InsideGrows DEF G!Enter
      <3> QED BY <3>2 DEF G!Next
    <2>3. CASE \E t \in Threads : Unlock(t)
      <3> PICK t \in Threads : Unlock(t)
        BY <2>3
      <3>1. t \in Inside /\ Cardinality(Inside) # 0
        BY InsideShrinks, InsideFinite
      <3>2. count # -1 /\ count' # -1
        BY <3>1, InsideFinite DEF CountsLocks, Unlock, Released
      <3>3. G!Leave(t)
        BY <3>2, InsideShrinks DEF G!Leave
      <3> QED BY <3>3 DEF G!Next
    <2>4. CASE \E s \in Stoppers : Stop(s) \/ AlreadyShut(s)
      BY <2>4, InsideSame DEF Stop, AlreadyShut, G!vars
    <2>5. CASE \E s \in Stoppers : Shut(s)
      <3> PICK s \in Stoppers : Shut(s)
        BY <2>5
      <3>1. Inside = {}
        BY InsideFinite DEF Shut, Free, CountsLocks
      <3>2. Inside' = Inside /\ count' = -1
        BY InsideSame DEF Shut
      <3>3. G!Shut
        BY <3>1, <3>2 DEF G!Shut
      <3> QED BY <3>3 DEF G!Next
    <2>6. CASE UNCHANGED vars
      BY <2>6, InsideSame DEF vars, G!vars
    <2> QED BY <2>1, <2>2, <2>3, <2>4, <2>5, <2>6 DEF Next
  <1> QED BY Invariance, <1>1, <1>2, PTL DEF Spec, ImplementsGate, G!Spec
=============================================================================
