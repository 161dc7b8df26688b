--------------------------- MODULE SequenceFacts ---------------------------
(***************************************************************************)
(* Facts about sequences that the proofs of this project cite: the set of  *)
(* elements of a sequence under Append, Tail and concatenation, and how    *)
(* these operations commute.                                               *)
(***************************************************************************)
EXTENDS SequencesExt, SequenceTheorems, TLAPS

\* A function on an initial segment of the naturals is a sequence.
LEMMA FunctionIsSeq ==
    ASSUME NEW S, NEW n \in Nat, NEW f \in [1 .. n -> S]
    PROVE  f \in Seq(S)
  BY SMT

\* So is a tuple of one element.
LEMMA SingletonIsSeq ==
    ASSUME NEW S, NEW x \in S
    PROVE  <<x>> \in Seq(S)
  OBVIOUS

\* Appending adds one element to the set of a sequence's elements.
LEMMA AppendToSet ==
    ASSUME NEW S, NEW s \in Seq(S), NEW x \in S
    PROVE  /\ Append(s, x) \in Seq(S)
           /\ Append(s, x) # <<>>
           /\ ToSet(Append(s, x)) = ToSet(s) \cup {x}
  <1>1. /\ Append(s, x) \in Seq(S)
        /\ DOMAIN s = 1 .. Len(s)
        /\ DOMAIN Append(s, x) = 1 .. Len(s) + 1
        /\ Append(s, x)[Len(s) + 1] = x
        /\ \A i \in 1 .. Len(s) : Append(s, x)[i] = s[i]
        /\ Len(s) \in Nat
    BY AppendProperties, LenProperties
  <1>2. Append(s, x) # <<>>
    BY AppendProperties
  <1>3. 1 .. Len(s) + 1 = 1 .. Len(s) \cup {Len(s) + 1}
    BY <1>1
  <1>4. ToSet(Append(s, x)) = ToSet(s) \cup {x}
    BY <1>1, <1>3 DEF ToSet
  <1> QED BY <1>1, <1>2, <1>4

\* The head of a nonempty sequence is one of its elements, and so is every
\* element of its tail.
LEMMA HeadTailToSet ==
    ASSUME NEW S, NEW s \in Seq(S), s # <<>>
    PROVE  /\ Head(s) \in S
           /\ Tail(s) \in Seq(S)
           /\ ToSet(s) = {Head(s)} \cup ToSet(Tail(s))
  <1>1. /\ Head(s) \in S
        /\ Tail(s) \in Seq(S)
        /\ Len(Tail(s)) = Len(s) - 1
        /\ \A i \in 1 .. Len(Tail(s)) : Tail(s)[i] = s[i + 1]
        /\ Head(s) = s[1]
        /\ Len(s) \in Nat /\ Len(s) >= 1
        /\ DOMAIN s = 1 .. Len(s)
        /\ DOMAIN Tail(s) = 1 .. Len(Tail(s))
    BY HeadTailProperties, LenProperties, EmptySeq
  <1>2. \A y \in ToSet(s) : y \in {Head(s)} \cup ToSet(Tail(s))
    <2> TAKE y \in ToSet(s)
    <2>1. PICK i \in 1 .. Len(s) : y = s[i]
      BY <1>1 DEF ToSet
    <2>2. CASE i = 1
      BY <2>1, <2>2, <1>1
    <2>3. CASE i # 1
      <3>1. i - 1 \in 1 .. Len(Tail(s)) /\ (i - 1) + 1 = i
        BY <2>3, <1>1
      <3>2. y = Tail(s)[i - 1]
        BY <3>1, <2>1, <1>1
      <3> QED BY <3>1, <3>2, <1>1 DEF ToSet
    <2> QED BY <2>2, <2>3
  <1>3. \A y \in {Head(s)} \cup ToSet(Tail(s)) : y \in ToSet(s)
    <2> TAKE y \in {Head(s)} \cup ToSet(Tail(s))
    <2>1. CASE y = Head(s)
      BY <2>1, <1>1 DEF ToSet
    <2>2. CASE y \in ToSet(Tail(s))
      <3>1. PICK i \in 1 .. Len(Tail(s)) : y = Tail(s)[i]
        BY <2>2, <1>1 DEF ToSet
      <3>2. i + 1 \in 1 .. Len(s) /\ y = s[i + 1]
        BY <3>1, <1>1
      <3> QED BY <3>2, <1>1 DEF ToSet
    <2> QED BY <2>1, <2>2
  <1> QED BY <1>1, <1>2, <1>3

\* The elements of a concatenation.
LEMMA ConcatToSet ==
    ASSUME NEW S, NEW s \in Seq(S), NEW t \in Seq(S)
    PROVE  /\ s \o t \in Seq(S)
           /\ ToSet(s \o t) = ToSet(s) \cup ToSet(t)
  <1>1. /\ s \o t \in Seq(S)
        /\ Len(s \o t) = Len(s) + Len(t)
        /\ \A i \in 1 .. Len(s) + Len(t) :
              (s \o t)[i] = IF i <= Len(s) THEN s[i] ELSE t[i - Len(s)]
        /\ DOMAIN s = 1 .. Len(s) /\ Len(s) \in Nat
        /\ DOMAIN t = 1 .. Len(t) /\ Len(t) \in Nat
        /\ DOMAIN (s \o t) = 1 .. Len(s) + Len(t)
    BY ConcatProperties, LenProperties
  <1>2. \A y \in ToSet(s \o t) : y \in ToSet(s) \cup ToSet(t)
    <2> TAKE y \in ToSet(s \o t)
    <2>1. PICK i \in 1 .. Len(s) + Len(t) : y = (s \o t)[i]
      BY <1>1 DEF ToSet
    <2>2. CASE i <= Len(s)
      BY <2>1, <2>2, <1>1 DEF ToSet
    <2>3. CASE ~(i <= Len(s))
      <3>1. i - Len(s) \in 1 .. Len(t) /\ y = t[i - Len(s)]
        BY <2>1, <2>3, <1>1
      <3> QED BY <3>1, <1>1 DEF ToSet
    <2> QED BY <2>2, <2>3
  <1>3. \A y \in ToSet(s) \cup ToSet(t) : y \in ToSet(s \o t)
    <2> TAKE y \in ToSet(s) \cup ToSet(t)
    <2>1. CASE y \in ToSet(s)
      <3>1. PICK i \in 1 .. Len(s) : y = s[i]
        BY <2>1, <1>1 DEF ToSet
      <3>2. i \in 1 .. Len(s) + Len(t) /\ y = (s \o t)[i]
        BY <3>1, <1>1
      <3> QED BY <3>2, <1>1 DEF ToSet
    <2>2. CASE y \in ToSet(t)
      <3>1. PICK i \in 1 .. Len(t) : y = t[i]
        BY <2>2, <1>1 DEF ToSet
      <3>2. i + Len(s) \in 1 .. Len(s) + Len(t) /\ ~(i + Len(s) <= Len(s))
            /\ (i + Len(s)) - Len(s) = i
        BY <3>1, <1>1
      <3>3. y = (s \o t)[i + Len(s)]
        BY <3>1, <3>2, <1>1
      <3> QED BY <3>2, <3>3, <1>1 DEF ToSet
    <2> QED BY <2>1, <2>2
  <1> QED BY <1>1, <1>2, <1>3

\* Moving the head of the right side to the end of the left one.
LEMMA ConcatMoveHead ==
    ASSUME NEW S, NEW s \in Seq(S), NEW t \in Seq(S), t # <<>>
    PROVE  Append(s, Head(t)) \o Tail(t) = s \o t
  <1>1. Head(t) \in S /\ Tail(t) \in Seq(S) /\ <<Head(t)>> \in Seq(S)
    BY HeadTailProperties
  <1>2. t = <<Head(t)>> \o Tail(t)
    BY HeadTailProperties
  <1>3. Append(s, Head(t)) = s \o <<Head(t)>>
    BY <1>1, AppendIsConcat
  <1> QED BY <1>1, <1>2, <1>3, ConcatAssociative

\* Prefixes: a sequence is a prefix of what is appended to it, and stays one
\* when the longer sequence grows.
LEMMA PrefixFacts ==
    ASSUME NEW S, NEW s \in Seq(S), NEW t \in Seq(S), NEW x \in S
    PROVE  /\ IsPrefix(s, s \o t)
           /\ IsPrefix(s, t) => IsPrefix(s, Append(t, x))
  <1>0. Len(s) \in Nat /\ Len(t) \in Nat
    BY LenProperties
  <1>1. IsPrefix(s, s \o t)
    <2>1. s \o t \in Seq(S) /\ Len(s \o t) = Len(s) + Len(t)
      BY ConcatProperties
    <2>2. SubSeq(s, 1, Len(s)) = s
      BY SubSeqFull
    <2>3. SubSeq(s \o t, 1, Len(s)) = s
      BY SubSeqOfConcat1, SubSeqFull, <1>0
    <2> QED BY <1>0, <2>1, <2>2, <2>3 DEF IsPrefix
  <1>2. ASSUME IsPrefix(s, t)
        PROVE  IsPrefix(s, Append(t, x))
    <2>1. /\ Append(t, x) \in Seq(S)
          /\ Len(Append(t, x)) = Len(t) + 1
          /\ \A i \in 1 .. Len(t) : Append(t, x)[i] = t[i]
      BY AppendProperties
    <2>2. Len(s) <= Len(t)
      BY <1>2 DEF IsPrefix
    <2>3. SubSeq(Append(t, x), 1, Len(s)) = SubSeq(t, 1, Len(s))
      BY <1>0, <2>1, <2>2
    <2> QED BY <1>0, <1>2, <2>1, <2>2, <2>3 DEF IsPrefix
  <1> QED BY <1>1, <1>2

\* A sequence without repetition keeps that under Tail and under Append of a
\* new element, and its head is not in its tail.
LEMMA InjectiveFacts ==
    ASSUME NEW S, NEW s \in Seq(S), NEW x \in S, IsInjective(s)
    PROVE  /\ s # <<>> => IsInjective(Tail(s)) /\ Head(s) \notin ToSet(Tail(s))
           /\ x \notin ToSet(s) => IsInjective(Append(s, x))
  <1>0. Len(s) \in Nat /\ DOMAIN s = 1 .. Len(s)
    BY LenProperties
  <1>1. ASSUME s # <<>>
        PROVE  IsInjective(Tail(s)) /\ Head(s) \notin ToSet(Tail(s))
    <2>1. /\ Tail(s) \in Seq(S)
          /\ Len(Tail(s)) = Len(s) - 1
          /\ \A i \in 1 .. Len(Tail(s)) : Tail(s)[i] = s[i + 1]
          /\ Head(s) = s[1]
          /\ DOMAIN Tail(s) = 1 .. Len(Tail(s))
          /\ Len(s) >= 1
      BY <1>1, HeadTailProperties, LenProperties, EmptySeq
    <2>2. \A i \in 1 .. Len(Tail(s)) : i + 1 \in 1 .. Len(s) /\ i + 1 # 1
      BY <1>0, <2>1
    <2>3. IsInjective(Tail(s))
      BY <1>0, <2>1, <2>2 DEF IsInjective
    <2>4. \A i \in 1 .. Len(Tail(s)) : Tail(s)[i] # Head(s)
      BY <1>0, <2>1, <2>2 DEF IsInjective
    <2> QED BY <2>1, <2>3, <2>4 DEF ToSet
  <1>2. ASSUME x \notin ToSet(s)
        PROVE  IsInjective(Append(s, x))
    <2>1. /\ DOMAIN Append(s, x) = 1 .. Len(s) + 1
          /\ \A i \in 1 .. Len(s) : Append(s, x)[i] = s[i]
          /\ Append(s, x)[Len(s) + 1] = x
      BY AppendProperties, LenProperties
    <2>2. \A i \in 1 .. Len(s) : s[i] # x
      BY <1>0, <1>2 DEF ToSet
    <2> QED BY <1>0, <2>1, <2>2 DEF IsInjective
  <1> QED BY <1>1, <1>2
=============================================================================
