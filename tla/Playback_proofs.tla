-------------------------- MODULE Playback_proofs --------------------------
(***************************************************************************)
(* The playback path for every resampling ratio, period and size of chunk: *)
(* type correctness, no sample lost between the two threads, and the       *)
(* spacing of the samples taken.                                           *)
(***************************************************************************)
EXTENDS Playback, SequenceTheorems, TLAPS

USE PlaybackAssumption

----------------------------------------------------------------------------
(* The resampler *)

\* Integer division, which the provers know from these facts alone.
LEMMA DivFacts ==
    ASSUME NEW n \in Nat, NEW r \in Nat \ {0}
    PROVE  /\ n \div r \in Nat
           /\ (n \div r) * r =< n
           /\ n < (n \div r) * r + r
  OBVIOUS

\* One step of a product.
LEMMA Succ ==
    ASSUME NEW a \in Nat, NEW b \in Nat, a < b
    PROVE  a * Ratio + Ratio =< b * Ratio
  <1>1. PICK d \in Nat : b = a + 1 + d
    <2> b - a - 1 \in Nat
      OBVIOUS
    <2> QED OBVIOUS
  <1>2. b * Ratio = a * Ratio + Ratio + d * Ratio
    BY <1>1
  <1>3. d * Ratio \in Nat /\ a * Ratio \in Nat
    OBVIOUS
  <1> QED BY <1>2, <1>3

\* What Convert does with a chunk of n samples: the last sample it takes is in the
\* chunk, the next one keeps its distance from it, and the resampler is never more
\* than one ratio away from its next output.
LEMMA ConvertFacts ==
    ASSUME NEW n \in Nat \ {0}, wait \in 1 .. Ratio
    PROVE  /\ Produced(n) \in Nat
           /\ WaitAfter(n) \in 1 .. Ratio
           /\ Produced(n) = 0 => n + WaitAfter(n) = wait
           /\ Produced(n) # 0 =>
                 LET last == wait + (Produced(n) - 1) * Ratio
                 IN /\ last \in 1 .. n
                    /\ n + WaitAfter(n) - last \in Ratio .. 2 * Ratio - 2
  <1> DEFINE q == n \div Ratio
             d == (n - wait) \div Ratio
  <1>1. q \in Nat /\ q * Ratio =< n /\ n < q * Ratio + Ratio /\ q * Ratio \in Nat
    BY DivFacts
  <1>2. Room(n) = q + 1
    BY DEF Room
  <1>3. CASE n < wait
    <2>1. Produced(n) = 0 /\ Consumed(n) = n
      BY <1>1, <1>2, <1>3 DEF Produced, Consumed, Due
    <2>2. WaitAfter(n) = wait - n
      BY <2>1 DEF WaitAfter
    <2> QED BY <2>1, <2>2, <1>3
  <1>4. CASE wait =< n
    <2>1. d \in Nat /\ d * Ratio =< n - wait /\ n - wait < d * Ratio + Ratio
          /\ d * Ratio \in Nat
      <3> n - wait \in Nat
        BY <1>4
      <3> QED BY DivFacts
    <2>2. Due(n) = d + 1
      BY <1>4 DEF Due
    <2>3. d =< q
      <3>1. SUFFICES ASSUME q < d
                     PROVE  FALSE
        BY <1>1, <2>1
      <3>2. q * Ratio + Ratio =< d * Ratio
        BY <3>1, <1>1, <2>1, Succ
      <3> QED BY <3>2, <1>1, <2>1
    <2>4. Produced(n) = d + 1
      BY <1>1, <1>2, <2>1, <2>2, <2>3 DEF Produced
    <2>5. (d + 1 - 1) * Ratio = d * Ratio /\ (d + 1) * Ratio = d * Ratio + Ratio
      BY <2>1
    <2>6. CASE d = q
      <3>1. Consumed(n) = wait + q * Ratio
        BY <2>6, <1>1, <1>2, <2>4, <2>5 DEF Consumed
      <3>2. WaitAfter(n) = Ratio
        BY <3>1, <2>4, <2>5, <2>6, <2>1 DEF WaitAfter
      <3>3. n - (q * Ratio) - wait =< Ratio - 2
        BY <1>1
      <3>4. n + Ratio - (wait + d * Ratio) \in Ratio .. 2 * Ratio - 2
        BY <3>3, <2>1, <2>6
      <3> QED BY <3>2, <3>4, <2>1, <2>4, <2>5
    <2>7. CASE d < q
      <3>1. Consumed(n) = n
        BY <2>7, <1>1, <1>2, <2>1, <2>4 DEF Consumed
      <3>2. WaitAfter(n) = wait + d * Ratio + Ratio - n
        BY <3>1, <2>4, <2>5, <2>1 DEF WaitAfter
      <3>3. n + WaitAfter(n) - (wait + d * Ratio) = Ratio
        BY <3>2, <2>1
      <3> QED BY <3>2, <3>3, <2>1, <2>4, <2>5
    <2> QED BY <2>3, <2>6, <2>7, <1>1, <2>1
  <1> QED BY <1>3, <1>4

----------------------------------------------------------------------------
(* Types *)

\* The samples Convert returns are positions of the chunk, a ratio apart.
LEMMA SamplesFacts ==
    ASSUME NEW n \in ChunkSizes, TypeOK, received + n =< MaxInput
    PROVE  /\ Samples(n) \in Seq(Positions)
           /\ Len(Samples(n)) = Produced(n)
           /\ Produced(n) \in Nat
           /\ \A k \in 1 .. Produced(n) :
                 Samples(n)[k] = received + wait + (k - 1) * Ratio
  <1>1. /\ Produced(n) \in Nat /\ wait \in 1 .. Ratio /\ received \in Nat
        /\ Produced(n) # 0 => wait + (Produced(n) - 1) * Ratio \in 1 .. n
    BY ConvertFacts DEF TypeOK
  <1>2. ASSUME NEW k \in 1 .. Produced(n)
        PROVE  received + wait + (k - 1) * Ratio \in Positions
    <2>1. (k - 1) * Ratio \in Nat /\ (k - 1) * Ratio =< (Produced(n) - 1) * Ratio
      <3>1. k - 1 \in Nat /\ Produced(n) - 1 \in Nat
        BY <1>1
      <3>2. (k - 1) * Ratio \in Nat /\ (Produced(n) - 1) * Ratio \in Nat
        BY <3>1
      <3>3. k - 1 < Produced(n) - 1 => (k - 1) * Ratio + Ratio =< (Produced(n) - 1) * Ratio
        BY <3>1, Succ
      <3> QED BY <1>1, <3>2, <3>3
    <2>2. wait + (Produced(n) - 1) * Ratio =< n
      BY <1>1
    <2>3. (Produced(n) - 1) * Ratio \in Int
      BY <1>1
    <2> QED BY <1>1, <2>1, <2>2, <2>3 DEF Positions
  <1>3. Samples(n) \in [1 .. Produced(n) -> Positions]
    BY <1>2 DEF Samples
  <1>4. Samples(n) \in Seq(Positions) /\ Len(Samples(n)) = Produced(n)
    BY <1>1, <1>3, SMT
  <1> QED BY <1>1, <1>4 DEF Samples

\* The types and the queue between the threads hold at the start.
LEMMA InitOK == Init => TypeOK /\ QueueInv
  <1>1. \A S : <<>> \in Seq(S)
    BY EmptySeq
  <1>2. <<>> = <<>> \o <<>> \o <<>>
    BY EmptySeq, ConcatEmptySeq
  <1>3. Init => TypeOK
    <2>1. <<>> \in Seq(Positions) /\ <<>> \in Seq(Callbacks)
      BY <1>1
    <2>2. 0 \in 0 .. MaxInput /\ 1 \in 1 .. Ratio
      OBVIOUS
    <2> QED BY <2>1, <2>2, Zenon DEF Init, TypeOK
  <1>4. Init => PlayedInOrder
    BY <1>2 DEF Init, PlayedInOrder
  <1> QED BY <1>3, <1>4 DEF Init, QueueInv

\* Every step keeps the types.
LEMMA NextType == TypeOK /\ QueueInv /\ [Next]_vars => TypeOK'
  <1> SUFFICES ASSUME TypeOK, QueueInv, [Next]_vars
               PROVE  TypeOK'
    OBVIOUS
  <1> USE DEF TypeOK, convVars
  <1>1. ASSUME NEW cb \in Callbacks, AddCb(cb)
        PROVE  cbs' \in Seq(Callbacks) /\ crashed' \in BOOLEAN
    <2>1. cbs' \in Seq(Callbacks)
      BY <1>1, AppendProperties DEF AddCb
    <2>2. crashed' \in BOOLEAN
      BY <1>1 DEF AddCb
    <2> QED BY <2>1, <2>2
  <1>2. CASE Open
    BY <1>1, <1>2 DEF Open, AddCb, Callbacks
  <1>3. CASE Construct
    BY <1>1, <1>3 DEF Construct, AddCb, Callbacks
  <1>4. ASSUME NEW n \in ChunkSizes, Receive(n)
        PROVE  TypeOK'
    <2>1. Samples(n) \in Seq(Positions)
      BY <1>4, SamplesFacts DEF Receive
    <2>2. converted' \in Seq(Positions)
      BY <1>4, <2>1, ConcatProperties DEF Receive
    <2>3. wait' \in 1 .. Ratio
      BY <1>4, ConvertFacts DEF Receive
    <2>4. received' \in 0 .. MaxInput
      BY <1>4 DEF Receive
    <2> QED BY <1>4, <2>1, <2>2, <2>3, <2>4 DEF Receive
  <1>5. CASE Push
    <2>1. queue' \in Seq(Positions) /\ buffer' \in Seq(Positions)
      BY <1>5, ConcatProperties, EmptySeq DEF Push
    <2> QED BY <1>5, <2>1 DEF Push
  <1>6. CASE BeginPeriod
    BY <1>6 DEF BeginPeriod
  <1>7. CASE RunPlayCb
    <2>1. running' \in Seq(Callbacks)
      BY <1>7, HeadTailProperties DEF RunPlayCb
    <2> QED BY <1>7, <2>1 DEF RunPlayCb
  <1>8. CASE PopCopy
    <2>1. popped' \in Seq(Positions)
      <3>1. PopSize \in 0 .. Len(queue) /\ Len(queue) \in Nat
        BY LenProperties DEF PopSize
      <3>2. \A i \in 1 .. PopSize : queue[i] \in Positions
        BY <3>1, ElementOfSeq
      <3> QED BY <1>8, <3>1, <3>2, SubSeqProperties DEF PopCopy
    <2> QED BY <1>8, <2>1 DEF PopCopy
  <1>9. CASE PopErase
    <2>1. queue' \in Seq(Positions)
      <3>1. Len(popped) \in Nat /\ Len(queue) \in Nat
        BY LenProperties
      <3>2. \A i \in Len(popped) + 1 .. Len(queue) : queue[i] \in Positions
        BY <3>1, ElementOfSeq
      <3> QED BY <1>9, <3>1, <3>2, SubSeqProperties DEF PopErase, Erased
    <2>2. heard' \in Seq(Positions) /\ popped' \in Seq(Positions)
      BY <1>9, ConcatProperties, EmptySeq DEF PopErase
    <2>3. running' \in Seq(Callbacks)
      BY <1>9, HeadTailProperties DEF PopErase, QueueInv
    <2> QED BY <1>9, <2>1, <2>2, <2>3 DEF PopErase
  <1>10. CASE UNCHANGED vars
    BY <1>10 DEF vars
  <1> QED BY <1>2, <1>3, <1>4, <1>5, <1>6, <1>7, <1>8, <1>9, <1>10
          DEF Next, MainStep, DeviceStep

\* Every step keeps the queue between the threads whole.
LEMMA QueueInvStep == TypeOK /\ QueueInv /\ [Next]_vars => QueueInv'
  <1> SUFFICES ASSUME TypeOK, QueueInv, [Next]_vars
               PROVE  QueueInv'
    OBVIOUS
  <1> USE DEF TypeOK, QueueInv, PlayedInOrder, convVars
  <1>1. CASE Open
    BY <1>1 DEF Open, AddCb, PopSize
  <1>2. CASE Construct
    BY <1>2 DEF Construct, AddCb, PopSize
  <1>3. ASSUME NEW n \in ChunkSizes, Receive(n)
        PROVE  QueueInv'
    <2>1. Samples(n) \in Seq(Positions) /\ buffer = <<>>
      BY <1>3, SamplesFacts DEF Receive
    <2>2. heard \o queue \in Seq(Positions)
      BY ConcatProperties
    <2>3. converted = heard \o queue
      BY <2>1, <2>2, ConcatEmptySeq
    <2>4. PlayedInOrder'
      BY <1>3, <2>3 DEF Receive
    <2> QED BY <1>3, <2>4 DEF Receive, PopSize
  <1>4. CASE Push
    <2>1. queue \o buffer \in Seq(Positions)
      BY ConcatProperties
    <2>2. (heard \o queue) \o buffer = heard \o (queue \o buffer)
      <3>1. /\ heard \in Seq(Positions)
            /\ queue \in Seq(Positions)
            /\ buffer \in Seq(Positions)
        OBVIOUS
      <3> HIDE DEF TypeOK, QueueInv, PlayedInOrder
      <3> QED BY <3>1, ConcatAssociative
    <2>3. heard \o (queue \o buffer) = (heard \o (queue \o buffer)) \o <<>>
      BY <2>1, ConcatProperties, ConcatEmptySeq
    <2>4. PlayedInOrder'
      BY <1>4, <2>2, <2>3 DEF Push
    <2> QED BY <1>4, <2>4 DEF Push
  <1>5. CASE BeginPeriod
    BY <1>5 DEF BeginPeriod, PopSize
  <1>6. CASE RunPlayCb
    BY <1>6 DEF RunPlayCb, PopSize
  <1>7. CASE PopCopy
    BY <1>7 DEF PopCopy, PopSize
  <1>8. CASE PopErase
    <2> DEFINE k == PopSize
    <2>1. k \in 0 .. Len(queue) /\ Len(queue) \in Nat
      BY LenProperties DEF PopSize
    <2>2. popped = SubSeq(queue, 1, k)
      BY <1>8 DEF PopErase
    <2>3. Len(popped) = k
      <3>1. \A i \in 1 .. k : queue[i] \in Positions
        BY <2>1, ElementOfSeq
      <3> HIDE DEF k
      <3>2. Len(SubSeq(queue, 1, k)) = IF 1 =< k THEN k - 1 + 1 ELSE 0
        BY <2>1, <3>1, SubSeqProperties
      <3> QED BY <2>1, <2>2, <3>2
    <2>4. popped \o queue' = queue
      <3> HIDE DEF k
      <3>1. queue' = SubSeq(queue, k + 1, Len(queue))
        BY <1>8, <2>3 DEF PopErase, Erased
      <3>2. SubSeq(queue, 1, k) \o SubSeq(queue, k + 1, Len(queue)) = SubSeq(queue, 1, Len(queue))
        <4>1. /\ queue \in Seq(Positions)
              /\ 1 \in 1 .. Len(queue) + 1
              /\ k \in 1 - 1 .. Len(queue)
              /\ Len(queue) \in k .. Len(queue)
          BY <2>1
        <4> QED BY <4>1, ConcatAdjacentSubSeq, Zenon
      <3>3. SubSeq(queue, 1, Len(queue)) = queue
        BY SubSeqFull
      <3> QED BY <2>2, <3>1, <3>2, <3>3
    <2>5. queue' \in Seq(Positions)
      BY <1>8, NextType DEF Next, DeviceStep
    <2>6. (heard \o popped) \o queue' = heard \o (popped \o queue')
      BY <2>5, ConcatAssociative
    <2>7. PlayedInOrder'
      BY <1>8, <2>4, <2>6 DEF PopErase
    <2> QED BY <1>8, <2>7 DEF PopErase
  <1>9. CASE UNCHANGED vars
    BY <1>9 DEF vars, PopSize
  <1> QED BY <1>1, <1>2, <1>3, <1>4, <1>5, <1>6, <1>7, <1>8, <1>9
          DEF Next, MainStep, DeviceStep

\* The types and the queue between the threads, together.
LEMMA QueueInductive == Spec => [](TypeOK /\ QueueInv)
  <1>1. Init => TypeOK /\ QueueInv
    BY InitOK
  <1>2. TypeOK /\ QueueInv /\ [Next]_vars => (TypeOK /\ QueueInv)'
    BY NextType, QueueInvStep
  <1> QED BY <1>1, <1>2, PTL DEF Spec

\* Every variable keeps its type, for every ratio, period and set of chunk sizes.
THEOREM TypeCorrect == Spec => []TypeOK
  BY QueueInductive, PTL

\* No sample is lost, repeated or reordered between Convert, Main's push() and
\* the device thread's pop_front(), however the two threads interleave.
THEOREM OrderCorrect == Spec => []PlayedInOrder
  <1>1. TypeOK /\ QueueInv => PlayedInOrder
    BY DEF QueueInv
  <1> QED BY <1>1, QueueInductive, PTL

----------------------------------------------------------------------------
(* The samples taken *)

\* The distances between neighbours of a concatenation.
LEMMA ConcatSpacing ==
    ASSUME NEW c \in Seq(Int), NEW s \in Seq(Int), s # <<>>, NEW D \in SUBSET Int,
           \A i \in 1 .. Len(c) - 1 : c[i + 1] - c[i] \in D,
           \A i \in 1 .. Len(s) - 1 : s[i + 1] - s[i] \in D,
           c # <<>> => s[1] - c[Len(c)] \in D
    PROVE  \A i \in 1 .. Len(c \o s) - 1 : (c \o s)[i + 1] - (c \o s)[i] \in D
  <1> DEFINE t == c \o s
             m == Len(c)
             l == Len(s)
  <1>1. /\ m \in Nat /\ l \in Nat \ {0}
        /\ Len(t) = m + l
        /\ \A i \in 1 .. m + l : t[i] = IF i =< m THEN c[i] ELSE s[i - m]
    BY ConcatProperties, LenProperties, EmptySeq
  <1>2. m # 0 => c # <<>>
    BY EmptySeq
  <1>3. m # 0 => s[1] - c[m] \in D
    BY <1>2
  <1>4. \A i \in 1 .. m - 1 : c[i + 1] - c[i] \in D
    OBVIOUS
  <1>5. \A i \in 1 .. l - 1 : s[i + 1] - s[i] \in D
    OBVIOUS
  <1> HIDE DEF t, m, l
  <1>6. ASSUME NEW i \in 1 .. m + l - 1
        PROVE  t[i + 1] - t[i] \in D
    <2>1. i \in 1 .. m + l /\ i + 1 \in 1 .. m + l
      BY <1>1
    <2>2. CASE i < m
      <3>1. t[i] = c[i] /\ t[i + 1] = c[i + 1] /\ i \in 1 .. m - 1
        BY <1>1, <2>1, <2>2
      <3> QED BY <1>4, <3>1
    <2>3. CASE i = m
      <3>1. t[i] = c[m] /\ t[i + 1] = s[1] /\ m # 0
        BY <1>1, <2>1, <2>3
      <3> QED BY <1>3, <3>1
    <2>4. CASE i > m
      <3>1. /\ t[i] = s[i - m] /\ t[i + 1] = s[(i - m) + 1]
            /\ i - m \in 1 .. l - 1
        BY <1>1, <2>1, <2>4
      <3> QED BY <1>5, <3>1
    <2> QED BY <1>1, <2>1, <2>2, <2>3, <2>4
  <1>7. \A i \in 1 .. Len(t) - 1 : t[i + 1] - t[i] \in D
    BY <1>1, <1>6
  <1> QED BY <1>7, Zenon DEF t

\* A chunk keeps the distance of the samples and of the next one.
LEMMA SpacingStep == TypeOK /\ SpacingInv /\ [Next]_vars => SpacingInv'
  <1> SUFFICES ASSUME TypeOK, SpacingInv, [Next]_vars
               PROVE  SpacingInv'
    OBVIOUS
  <1>1. CASE UNCHANGED convVars
    BY <1>1 DEF convVars, SpacingInv, SampleSpacing
  <1>2. ASSUME NEW n \in ChunkSizes, NEW s, s = Samples(n), NEW p, p = Produced(n),
               Receive(n)
        PROVE  SpacingInv'
    <2>1. /\ s \in Seq(Positions) /\ Len(s) = p /\ p \in Nat
          /\ \A k \in 1 .. p : s[k] = (received + wait) + (k - 1) * Ratio
      BY <1>2, SamplesFacts DEF Receive
    <2>2. /\ converted \in Seq(Positions)
          /\ received \in Nat /\ wait \in 1 .. Ratio /\ n \in Nat \ {0}
      BY <1>2 DEF TypeOK
    <2>3. converted' = converted \o s /\ received' = received + n /\ wait' = WaitAfter(n)
      BY <1>2 DEF Receive
    <2>4. /\ WaitAfter(n) \in 1 .. Ratio
          /\ p = 0 => n + WaitAfter(n) = wait
          /\ p # 0 => n + WaitAfter(n) - (wait + (p - 1) * Ratio) \in Spacing
      BY <1>2, <2>2, ConvertFacts DEF Spacing
    <2>5. /\ \A i \in 1 .. Len(converted) - 1 : converted[i + 1] - converted[i] \in Spacing
          /\ converted # <<>> => (received + wait) - converted[Len(converted)] \in Spacing
      BY Zenon DEF SpacingInv, SampleSpacing
    <2>6. CASE p = 0
      <3>1. s = <<>>
        BY <2>1, <2>6, EmptySeq
      <3>2. converted' = converted
        BY <1>2, <2>2, <2>3, <3>1, ConcatEmptySeq
      <3>3. received' + wait' = (received + wait)
        <4>1. received' + wait' = received + n + WaitAfter(n)
          BY <2>3
        <4>2. n + WaitAfter(n) = wait /\ WaitAfter(n) \in Nat 
          BY <1>2, <2>4, <2>6
        <4> QED BY <2>2, <4>1, <4>2
      <3>5. /\ \A i \in 1 .. Len(converted) - 1 : converted[i + 1] - converted[i] \in Spacing
            /\ converted # <<>> => (received' + wait') - converted[Len(converted)] \in Spacing
        BY <2>5, <3>3, Zenon
      <3> QED BY <3>2, <3>5 DEF SpacingInv, SampleSpacing
    <2>7. CASE p # 0
      <3>1. /\ s \in Seq(Int) /\ converted \in Seq(Int) /\ s # <<>>
            /\ Spacing \in SUBSET Int
        <4>1. Positions \subseteq Int
          BY DEF Positions
        <4>2. s \in Seq(Int) /\ converted \in Seq(Int)
          BY <2>1, <2>2, <4>1, SeqMonotonic
        <4>3. s # <<>>
          BY <2>1, <2>7, EmptySeq
        <4>4. Spacing \in SUBSET Int
          BY DEF Spacing
        <4> QED BY <4>2, <4>3, <4>4
      <3>2. \A i \in 1 .. Len(s) - 1 : s[i + 1] - s[i] \in Spacing
        <4>1. ASSUME NEW i \in 1 .. p - 1
              PROVE  s[i + 1] - s[i] = Ratio
          <5>1. s[i] = (received + wait) + (i - 1) * Ratio /\ s[i + 1] = (received + wait) + i * Ratio
            BY <2>1
          <5>2. i * Ratio = (i - 1) * Ratio + Ratio /\ (i - 1) * Ratio \in Int
            BY <2>1
          <5> QED BY <2>2, <5>1, <5>2
        <4>2. Ratio \in Spacing
          BY DEF Spacing
        <4> QED BY <2>1, <4>1, <4>2
      <3>3. converted # <<>> => s[1] - converted[Len(converted)] \in Spacing
        <4>1. s[1] = (received + wait)
          BY <2>1, <2>2, <2>7
        <4> QED BY <2>5, <4>1
      <3>4. \A i \in 1 .. Len(converted \o s) - 1 : (converted \o s)[i + 1] - (converted \o s)[i] \in Spacing
        <4> QED BY <2>5, <3>1, <3>2, <3>3, ConcatSpacing
      <3>5. (converted \o s)[Len(converted \o s)] = (received + wait) + (p - 1) * Ratio
        <4>1. Len(converted \o s) = Len(converted) + p /\ Len(converted) \in Nat
          BY <2>1, <2>2, ConcatProperties, LenProperties
        <4>2. (converted \o s)[Len(converted) + p] = s[p]
          BY <2>1, <2>2, <2>7, <4>1, ConcatProperties
        <4>3. s[p] = (received + wait) + (p - 1) * Ratio
          BY <2>1, <2>7
        <4> QED BY <4>1, <4>2, <4>3
      <3>6. ((received + n) + WaitAfter(n)) - ((received + wait) + (p - 1) * Ratio) \in Spacing
        <4>1. (p - 1) * Ratio \in Int
          BY <2>1
        <4> QED BY <1>2, <2>2, <2>4, <2>7, <4>1 DEF Spacing
      <3>7. (received' + wait') - converted'[Len(converted')] \in Spacing
        BY <2>3, <3>5, <3>6, Zenon
      <3> QED BY <2>3, <3>4, <3>7 DEF SpacingInv, SampleSpacing
    <2> QED BY <2>6, <2>7
  <1> QED BY <1>1, <1>2 DEF Next, MainStep, DeviceStep, Open, Construct, AddCb, Push,
          BeginPeriod, RunPlayCb, PopCopy, PopErase, convVars, vars

\* Across chunk boundaries too, the resampler takes samples at least Ratio and at
\* most 2 * Ratio - 2 apart, whatever the sizes of the chunks.
THEOREM SpacingCorrect == Spec => []SampleSpacing
  <1>1. Init => SpacingInv
    BY EmptySeq DEF Init, SpacingInv, SampleSpacing
  <1>2. TypeOK /\ SpacingInv /\ [Next]_vars => SpacingInv'
    BY SpacingStep
  <1>3. SpacingInv => SampleSpacing
    BY DEF SpacingInv
  <1> QED BY <1>1, <1>2, <1>3, TypeCorrect, PTL DEF Spec

----------------------------------------------------------------------------
(* What the device takes *)

Registered == <<"PlayCb", "engine">>

\* Samples are converted only when the callback that plays them is registered, and
\* however Open() and the engine's AddCb race with the device's loop, a period runs
\* it once at most: the queue is not emptied at twice the speed.
PlayedOnce ==
    /\ converted # <<>> => cbs = Registered
    /\ running \in {<<>>, <<"PlayCb">>, <<"engine">>, Registered}

\* The callbacks that are registered are the ones Main has added so far.
CallbackInv ==
    /\ mainPc = "open" => cbs = <<>>
    /\ mainPc = "construct" => cbs = <<"PlayCb">>
    /\ mainPc \in {"poll", "push"} => cbs = Registered
    /\ mainPc \in {"open", "construct"} => converted = <<>>
    /\ PlayedOnce

\* The lists of callbacks that occur.
LEMMA PairFacts ==
    ASSUME NEW S, NEW a \in S, NEW b \in S
    PROVE  /\ Append(<<>>, a) = <<a>> /\ Append(<<a>>, b) = <<a, b>>
           /\ Tail(<<a>>) = <<>> /\ Tail(<<a, b>>) = <<b>>
  <1>1. Append(<<>>, a) = <<a>>
    OBVIOUS
  <1>2. Append(<<a>>, b) = <<a, b>>
    <2>1. /\ <<a>> \in Seq(S) /\ <<a, b>> \in Seq(S)
          /\ Len(<<a, b>>) = 2 /\ Len(<<a>>) = 1
      OBVIOUS
    <2>2. /\ Append(<<a>>, b) \in Seq(S) /\ Len(Append(<<a>>, b)) = 2
          /\ Append(<<a>>, b)[1] = <<a>>[1] /\ Append(<<a>>, b)[2] = b
      BY <2>1, AppendProperties
    <2>3. <<a, b>>[1] = a /\ <<a, b>>[2] = b /\ <<a>>[1] = a
      OBVIOUS
    <2>4. \A i \in 1 .. 2 : Append(<<a>>, b)[i] = <<a, b>>[i]
      BY <2>2, <2>3
    <2> QED BY <2>1, <2>2, <2>4, SeqEqual
  <1>3. Tail(<<a>>) = <<>> /\ Tail(<<a, b>>) = <<b>>
    OBVIOUS
  <1> QED BY <1>1, <1>2, <1>3

\* Each step of Main adds the next callback, each one of the device walks on.
LEMMA CallbackStep == TypeOK /\ QueueInv /\ CallbackInv /\ [Next]_vars => CallbackInv'
  <1> SUFFICES ASSUME TypeOK, QueueInv, CallbackInv, [Next]_vars
               PROVE  CallbackInv'
    OBVIOUS
  <1>1. /\ Append(<<>>, "PlayCb") = <<"PlayCb">> /\ Append(<<"PlayCb">>, "engine") = Registered
        /\ Tail(<<"PlayCb">>) = <<>> /\ Tail(<<"engine">>) = <<>> /\ Tail(Registered) = <<"engine">>
    <2>1. "PlayCb" \in Callbacks /\ "engine" \in Callbacks
      BY DEF Callbacks
    <2>2. /\ Append(<<>>, "PlayCb") = <<"PlayCb">> /\ Append(<<"PlayCb">>, "engine") = Registered
          /\ Tail(<<"PlayCb">>) = <<>> /\ Tail(Registered) = <<"engine">>
      BY <2>1, PairFacts, Zenon DEF Registered
    <2>3. Tail(<<"engine">>) = <<>>
      BY <2>1, PairFacts, Zenon
    <2> QED BY <2>2, <2>3
  <1> HIDE DEF Registered
  <1>2. CASE Open
    BY <1>1, <1>2 DEF Open, AddCb, convVars, CallbackInv, PlayedOnce
  <1>3. CASE Construct
    BY <1>1, <1>3 DEF Construct, AddCb, convVars, CallbackInv, PlayedOnce
  <1>4. ASSUME NEW n \in ChunkSizes, Receive(n)
        PROVE  CallbackInv'
    <2>1. mainPc = "poll" /\ mainPc' \in {"poll", "push"} /\ cbs' = cbs /\ running' = running
      BY <1>4 DEF Receive
    <2>2. cbs' = Registered
      BY <2>1 DEF CallbackInv
    <2>3. PlayedOnce'
      BY <2>1, <2>2 DEF CallbackInv, PlayedOnce
    <2>4. mainPc' # "open" /\ mainPc' # "construct"
      BY <2>1
    <2> QED BY <2>2, <2>3, <2>4 DEF CallbackInv
  <1>5. CASE Push
    <2>1. /\ mainPc = "push" /\ mainPc' = "poll" /\ cbs' = cbs /\ running' = running
      BY <1>5 DEF Push
    <2>2. cbs' = Registered
      BY <2>1 DEF CallbackInv
    <2> QED BY <2>1, <2>2 DEF CallbackInv, PlayedOnce
  <1>6. CASE BeginPeriod
    <2>1. UNCHANGED <<mainPc, cbs, converted>> /\ running' = cbs
      BY <1>6 DEF BeginPeriod, convVars
    <2>2. mainPc \in {"open", "construct", "poll", "push"}
      BY DEF TypeOK
    <2>3. cbs \in {<<>>, <<"PlayCb">>, Registered}
      BY <2>2 DEF CallbackInv
    <2> QED BY <2>1, <2>3 DEF CallbackInv, PlayedOnce
  <1>7. CASE RunPlayCb
    <2>1. UNCHANGED <<mainPc, cbs, converted>> /\ running # <<>> /\ running' = Tail(running)
      BY <1>7 DEF RunPlayCb, convVars
    <2> QED BY <1>1, <2>1 DEF CallbackInv, PlayedOnce
  <1>8. CASE PopErase
    <2>1. UNCHANGED <<mainPc, cbs, converted>> /\ running # <<>> /\ running' = Tail(running)
      BY <1>8 DEF PopErase, convVars, QueueInv
    <2> QED BY <1>1, <2>1 DEF CallbackInv, PlayedOnce
  <1>9. CASE PopCopy \/ UNCHANGED vars
    BY <1>9 DEF PopCopy, convVars, vars, CallbackInv, PlayedOnce
  <1> QED BY <1>2, <1>3, <1>4, <1>5, <1>6, <1>7, <1>8, <1>9 DEF Next, MainStep, DeviceStep

\* The callback that plays is there before anything is to be played and runs once in
\* a period (SoundDev::AudioCallback, AddCb, PlayDev::Open).
THEOREM OnceCorrect == Spec => []PlayedOnce
  <1>1. Init => CallbackInv
    BY DEF Init, CallbackInv, PlayedOnce
  <1>2. CallbackInv => PlayedOnce
    BY DEF CallbackInv
  <1> QED BY <1>1, <1>2, CallbackStep, QueueInductive, PTL DEF Spec

\* When the device has taken samples out, it has played a full period, or all there
\* was in the queue: a queue that is not empty shrinks in each of its calls.
TakesItsShare ==
    [][locked /\ ~locked' =>
          Len(heard') = Len(heard) + (IF Len(queue) < Period THEN Len(queue) ELSE Period)]_vars

\* pop_front() cuts its size to what is there, and nothing is pushed between its copy
\* and its erase: the last samples of a reply, which do not fill a period, are played
\* as well.  With PlayedOnce this is what EveryFrameHeard needs besides fairness.
THEOREM ShareCorrect == Spec => TakesItsShare
  <1>1. TypeOK /\ QueueInv /\ [Next]_vars =>
           [locked /\ ~locked' =>
               Len(heard') = Len(heard) + (IF Len(queue) < Period THEN Len(queue) ELSE Period)]_vars
    <2> SUFFICES ASSUME TypeOK, QueueInv, [Next]_vars, locked, ~locked'
                 PROVE  Len(heard') = Len(heard) + (IF Len(queue) < Period THEN Len(queue) ELSE Period)
      OBVIOUS
    <2>1. PopErase
      BY DEF Next, MainStep, DeviceStep, Open, Construct, AddCb, Receive, Push, BeginPeriod,
             RunPlayCb, PopCopy, convVars, vars
    <2>2. /\ queue \in Seq(Positions) /\ heard \in Seq(Positions) /\ popped \in Seq(Positions)
          /\ popped = SubSeq(queue, 1, PopSize)
      BY DEF TypeOK, QueueInv
    <2>3. PopSize \in 0 .. Len(queue) /\ Len(queue) \in Nat
      BY <2>2, LenProperties DEF PopSize
    <2>4. Len(popped) = PopSize
      <3> DEFINE k == PopSize
      <3>1. \A i \in 1 .. k : queue[i] \in Positions
        BY <2>2, <2>3, ElementOfSeq
      <3>2. k \in 0 .. Len(queue) /\ popped = SubSeq(queue, 1, k)
        BY <2>2, <2>3
      <3> HIDE DEF k
      <3>3. Len(SubSeq(queue, 1, k)) = IF 1 =< k THEN k - 1 + 1 ELSE 0
        BY <2>2, <2>3, <3>1, <3>2, SubSeqProperties
      <3>4. Len(popped) = k
        BY <2>3, <3>2, <3>3
      <3> QED BY <3>4 DEF k
    <2>5. Len(heard') = Len(heard) + Len(popped)
      BY <2>1, <2>2, ConcatProperties DEF PopErase
    <2> QED BY <2>4, <2>5 DEF PopSize
  <1> QED BY <1>1, QueueInductive, PTL DEF Spec, TakesItsShare
=============================================================================
