-------------------------- MODULE WsReader_proofs --------------------------
(***************************************************************************)
(* The reader for any frames: until it takes other bytes for a frame, its  *)
(* messages are whole and pings are answered once.  It keeps its place in  *)
(* the stream, and then all it does is right, when what comes with the     *)
(* upgrade response ends between frames and no content is one byte long.   *)
(***************************************************************************)
EXTENDS WsReader, SequenceFacts

USE ReaderAssumption

Frames == [kind : Kinds, length : Lengths, at : Nat]

----------------------------------------------------------------------------
(* The inductive invariant *)

\* Where frame k ends in the stream.
End(k) == IF k = 0 THEN 0 ELSE frames[k].at + FrameSize(frames[k].length)

\* Frames are laid end to end.
PosInv ==
    /\ Len(frames) <= MaxFrames
    /\ \A k \in 0 .. Len(frames) - 1 : frames[k + 1].at = End(k)
    /\ \A i, j \in 0 .. Len(frames) : i < j => End(i) + 2 <= End(j)
    /\ total = End(Len(frames))

\* Where the streambuf begins follows from what is read next.
ReadInv ==
    /\ pc = "upgrade" => current = 0
    /\ pc \in {"upgrade", "header"} => low = End(current)
    /\ pc \in {"length", "content"} => current # 0
    /\ pc = "length" => /\ low = frames[current].at + 2
                        /\ Extension(frames[current].length) > 0
    /\ pc = "content" => low = frames[current].at + 2 + Extension(frames[current].length)

Active == pc \notin {"lost", "garbled"}

\* The frames the reader has finished with, and the last one it gave away.
Done == IF pc \in {"length", "content"} THEN current - 1 ELSE current
Handed == IF delivered = <<>> THEN 0 ELSE Last(Last(delivered))

DataFrames(a, b) == {k \in a + 1 .. b : frames[k].kind \in Data}

PongsAnswered ==
    /\ Ascending(pongs)
    /\ \A k \in ToSet(pongs) :
          k \in DOMAIN frames /\ k \in Pings(k) /\ Pings(k) \subseteq ToSet(pongs)

\* What was read is delivered, kept as a fragment, answered or without a trace.
DataInv ==
    /\ AllWhole
    /\ PongsAnswered
    /\ Active =>
          /\ Handed <= Done
          /\ Ascending(fragments)
          /\ ToSet(fragments) = DataFrames(Handed, Done)
          /\ \A k \in ToSet(fragments) : frames[k].kind = "fragment"
          /\ ToSet(pongs) = Pings(Done)

\* A reader that took other bytes for a frame may have done anything.
RightInv == misreads = 0 => DataInv

IInv == TypeOK /\ PosInv /\ ReadInv /\ RightInv

----------------------------------------------------------------------------
(* Sequences of frame numbers *)

\* A larger number can be appended to an ascending sequence; it is then the last.
LEMMA AscendingFacts ==
    ASSUME NEW S, S \subseteq Nat, NEW s \in Seq(S), NEW x \in S, Ascending(s),
           \A y \in ToSet(s) : y < x
    PROVE  /\ Ascending(Append(s, x))
           /\ Last(Append(s, x)) = x
  <1>1. /\ DOMAIN Append(s, x) = 1 .. Len(s) + 1 /\ Len(Append(s, x)) = Len(s) + 1
        /\ \A i \in 1 .. Len(s) : Append(s, x)[i] = s[i]
        /\ Append(s, x)[Len(s) + 1] = x
        /\ Len(s) \in Nat /\ DOMAIN s = 1 .. Len(s)
    BY AppendProperties, LenProperties
  <1>2. \A i \in 1 .. Len(s) : s[i] < x
    BY <1>1 DEF ToSet
  <1>3. ASSUME NEW i \in 1 .. Len(s) + 1, NEW j \in 1 .. Len(s) + 1, i < j
        PROVE  Append(s, x)[i] < Append(s, x)[j]
    <2>1. i \in 1 .. Len(s) /\ Append(s, x)[i] = s[i]
      BY <1>1, <1>3
    <2>2. CASE j = Len(s) + 1
      BY <1>1, <1>2, <2>1, <2>2
    <2>3. CASE j # Len(s) + 1
      <3>1. j \in 1 .. Len(s) /\ Append(s, x)[j] = s[j]
        BY <1>1, <2>3
      <3> QED BY <1>1, <1>3, <2>1, <3>1 DEF Ascending
    <2> QED BY <2>2, <2>3
  <1> QED BY <1>1, <1>3 DEF Ascending, Last

----------------------------------------------------------------------------
(* Types and places *)

\* A frame takes up its header and its content.
LEMMA SizeFacts ==
    ASSUME NEW n \in Nat
    PROVE  /\ Extension(n) \in Nat /\ FrameSize(n) \in Nat
           /\ FrameSize(n) = 2 + Extension(n) + n
  BY DEF Extension, FrameSize

\* A frame ends somewhere.
LEMMA EndType ==
    ASSUME TypeOK, NEW i \in 0 .. Len(frames)
    PROVE  End(i) \in Nat
  <1>0. frames \in Seq(Frames) /\ Len(frames) \in Nat
    BY LenProperties DEF TypeOK, Frames
  <1>1. CASE i = 0
    BY <1>1 DEF End
  <1>2. CASE i # 0
    <2>1. frames[i] \in Frames
      BY <1>0, <1>2, ElementOfSeq
    <2>2. frames[i].at \in Nat /\ frames[i].length \in Nat
      BY <2>1 DEF Frames
    <2>3. FrameSize(frames[i].length) \in Nat
      BY <2>2, SizeFacts
    <2> QED BY <1>2, <2>2, <2>3 DEF End
  <1> QED BY <1>1, <1>2

\* Before anything was sent.
LEMMA InitInv == Init => IInv
  <1> SUFFICES ASSUME Init PROVE IInv
    OBVIOUS
  <1>1. /\ \A S : <<>> \in Seq(S)
        /\ Len(<<>>) = 0 /\ DOMAIN <<>> = {} /\ ToSet(<<>>) = {}
    BY EmptySeq DEF ToSet
  <1>2. TypeOK
    <2>1. /\ frames \in Seq([kind : Kinds, length : Lengths, at : Nat])
          /\ fragments \in Seq(Taken) /\ pongs \in Seq(Taken)
          /\ delivered \in Seq(Seq(Taken)) /\ losses \in Seq({"error", "close"})
      BY <1>1 DEF Init
    <2>2. /\ total \in Nat /\ additional \in Nat /\ low \in 0 .. high /\ high \in 0 .. total
          /\ misreads \in 0 .. MaxMisreads
      BY DEF Init
    <2>5. partial \in BOOLEAN
      BY DEF Init
    <2>3. /\ closeSent \in BOOLEAN
          /\ pc \in {"upgrade", "header", "length", "content", "lost", "garbled"}
      BY DEF Init
    <2>4. current \in 0 .. Len(frames)
      BY <1>1 DEF Init
    <2> QED BY <2>1, <2>2, <2>3, <2>4, <2>5 DEF TypeOK
  <1>3. PosInv /\ ReadInv
    BY <1>1 DEF Init, PosInv, ReadInv, End
  <1>4. DataInv
    BY <1>1 DEF Init, DataInv, AllWhole, PongsAnswered, Ascending, Handed, Done, Active,
                DataFrames, Pings
  <1> QED BY <1>2, <1>3, <1>4 DEF IInv, RightInv

\* The frames sent stay, and end where they did.
LEMMA FramesKept ==
    ASSUME TypeOK, [Next]_vars
    PROVE  /\ \/ frames' = frames /\ total' = total
              \/ \E kind \in Kinds, length \in Lengths : ServerSends(kind, length)
           /\ Len(frames) \in Nat /\ Len(frames') \in Nat /\ Len(frames) <= Len(frames')
           /\ DOMAIN frames = 1 .. Len(frames) /\ DOMAIN frames' = 1 .. Len(frames')
           /\ \A k \in DOMAIN frames : frames'[k] = frames[k]
           /\ \A k \in 0 .. Len(frames) : End(k)' = End(k)
  <1>0. frames \in Seq(Frames) /\ Len(frames) \in Nat /\ DOMAIN frames = 1 .. Len(frames)
    BY LenProperties DEF TypeOK, Frames
  <1>1. \/ frames' = frames /\ total' = total
        \/ \E kind \in Kinds, length \in Lengths : ServerSends(kind, length)
    BY DEF Next, Upgrade, Read, ReadHeader, ReadLength, ReadContent, Fail, Misread, vars, streamVars
  <1>2. CASE frames' = frames
    BY <1>0, <1>1, <1>2 DEF End
  <1>3. ASSUME NEW kind \in Kinds, NEW length \in Lengths, ServerSends(kind, length)
        PROVE  /\ Len(frames') = Len(frames) + 1
               /\ DOMAIN frames' = 1 .. Len(frames')
               /\ \A k \in DOMAIN frames : frames'[k] = frames[k]
    <2> DEFINE f == [kind |-> kind, length |-> length, at |-> total]
    <2>1. f \in Frames /\ frames' = Append(frames, f)
      BY <1>3 DEF ServerSends, TypeOK, Frames
    <2> HIDE DEF f
    <2> QED BY <1>0, <2>1, AppendProperties, LenProperties
  <1> QED BY <1>0, <1>1, <1>2, <1>3 DEF End

\* A header is parsed at the beginning of the next frame, when the streambuf was
\* not found empty.
LEMMA HeaderFacts ==
    ASSUME TypeOK, PosInv, ReadInv, ReadHeader
    PROVE  /\ UNCHANGED <<frames, total, fragments, delivered, pongs>>
           /\ \/ /\ high = low /\ additional >= 2 /\ additional' = 0
                 /\ UNCHANGED <<pc, low, high, current, closeSent, losses>>
              \/ /\ current' = current + 1 /\ current + 1 \in DOMAIN frames
                 /\ frames[current + 1].at = low
                 /\ Size(2) >= 2
                 /\ low' = low + 2 /\ high' = high + Missing(2) /\ additional' = high - low
                 /\ AfterHeader(current + 1)
              \/ /\ ~Rereads(2)
                 /\ Size(2) < 2 \/ low = total
                 /\ Garbled
  <1>0. /\ frames \in Seq(Frames) /\ Len(frames) \in Nat /\ DOMAIN frames = 1 .. Len(frames)
        /\ low \in Nat /\ high \in Nat /\ low <= high /\ additional \in Nat
        /\ current \in 0 .. Len(frames) /\ total \in Nat
    BY LenProperties DEF TypeOK, Frames
  <1>1. low = End(current)
    BY DEF ReadInv, ReadHeader
  <1>2. UNCHANGED <<frames, total, fragments, delivered, pongs>>
    BY DEF ReadHeader, streamVars, outVars
  <1>3. CASE Rereads(2) /\ additional' = 0 /\ UNCHANGED <<pc, low, high, current, lossVars>>
    BY <1>0, <1>2, <1>3 DEF Rereads, Missing, Size, lossVars
  <1>4. ASSUME NEW k \in DOMAIN frames, frames[k].at = low
        PROVE  k = current + 1
    <2>1. End(k - 1) = End(current) /\ k - 1 \in 0 .. Len(frames)
      BY <1>0, <1>1, <1>4 DEF PosInv
    <2>2. \A i \in 0 .. Len(frames) : End(i) \in Nat
      BY EndType
    <2>3. \A i, j \in 0 .. Len(frames) : i < j => End(i) + 2 <= End(j)
      BY DEF PosInv
    <2>4. ASSUME NEW m \in 0 .. Len(frames), End(m) = End(current)
          PROVE  m = current
      <3>1. End(m) \in Nat
        BY <2>2
      <3>2. CASE m < current
        <4>1. End(m) + 2 <= End(current)
          BY <1>0, <2>3, <3>2
        <4> QED BY <2>4, <3>1, <4>1
      <3>3. CASE current < m
        <4>1. End(current) + 2 <= End(m)
          BY <1>0, <2>3, <3>3
        <4> QED BY <2>4, <3>1, <4>1
      <3> QED BY <1>0, <3>2, <3>3
    <2>5. k - 1 = current
      BY <2>1, <2>4
    <2> QED BY <1>0, <2>5
  <1>5. ASSUME NEW k \in DOMAIN frames, ~Rereads(2), frames[k].at = low, Size(2) >= 2,
               current' = k, low' = low + 2, high' = high + Missing(2),
               additional' = AdditionalAfter(2), AfterHeader(k)
        PROVE  /\ current' = current + 1 /\ current + 1 \in DOMAIN frames
               /\ frames[current + 1].at = low
               /\ Size(2) >= 2
               /\ low' = low + 2 /\ high' = high + Missing(2) /\ additional' = high - low
               /\ AfterHeader(current + 1)
    <2>1. k = current + 1
      BY <1>4, <1>5
    <2>2. Missing(2) \in Nat /\ AdditionalAfter(2) = high - low
      BY <1>0 DEF Missing, AdditionalAfter, Size
    <2> QED BY <1>5, <2>1, <2>2
  <1>6. ASSUME Size(2) < 2 \/ \A k \in DOMAIN frames : frames[k].at # low, Garbled
        PROVE  Size(2) < 2 \/ low = total
    <2>1. CASE current + 1 \in DOMAIN frames
      <3>1. frames[current + 1].at = End(current)
        <4>1. current \in 0 .. Len(frames) - 1
          BY <1>0, <2>1
        <4> QED BY <4>1 DEF PosInv
      <3> QED BY <1>1, <1>6, <2>1, <3>1
    <2>2. CASE current + 1 \notin DOMAIN frames
      BY <1>0, <1>1, <2>2 DEF PosInv
    <2> QED BY <2>1, <2>2
  <1> QED BY <1>2, <1>3, <1>5, <1>6 DEF ReadHeader

\* How much a read of n bytes leaves in the streambuf.
LEMMA ReadAmounts ==
    ASSUME TypeOK, NEW n \in Nat, Arrived(n)
    PROVE  /\ Missing(n) \in Nat /\ high + Missing(n) <= total
           /\ Missing(n) = IF additional > n THEN 0 ELSE n - additional
           /\ Size(n) = high - low + Missing(n)
           /\ AdditionalAfter(n) = high - low /\ high - low \in Nat
  BY DEF TypeOK, Arrived, Missing, Size, AdditionalAfter

\* The frame being read.
LEMMA FrameFacts ==
    ASSUME TypeOK, ReadInv, pc \in {"length", "content"}
    PROVE  /\ current \in DOMAIN frames /\ current \in 1 .. Len(frames)
           /\ Frame = frames[current]
           /\ Frame \in Frames /\ Frame.length \in Nat /\ Frame.at \in Nat
           /\ Extension(Frame.length) \in Nat
           /\ End(current) = Frame.at + 2 + Extension(Frame.length) + Frame.length
  <1>1. /\ frames \in Seq(Frames) /\ Len(frames) \in Nat /\ DOMAIN frames = 1 .. Len(frames)
        /\ current \in 0 .. Len(frames) /\ current # 0
    BY LenProperties DEF TypeOK, Frames, ReadInv
  <1>2. current \in DOMAIN frames
    BY <1>1
  <1>3. Frame \in Frames /\ Frame = frames[current]
    BY <1>1, <1>2, ElementOfSeq DEF Frame
  <1>4. Frame.length \in Nat /\ Frame.at \in Nat
    BY <1>3 DEF Frames
  <1>5. FrameSize(Frame.length) = 2 + Extension(Frame.length) + Frame.length
        /\ Extension(Frame.length) \in Nat
    BY <1>4, SizeFacts
  <1>6. current \in 1 .. Len(frames) /\ current # 0
    BY <1>1
  <1>7. End(current) = Frame.at + FrameSize(Frame.length)
    BY <1>3, <1>6 DEF End
  <1>8. End(current) = Frame.at + 2 + Extension(Frame.length) + Frame.length
    BY <1>4, <1>5, <1>7
  <1> QED BY <1>2, <1>3, <1>4, <1>5, <1>6, <1>8

\* No step gives a variable a value of another type, and low and high stay within
\* what was sent.
LEMMA TypeStep == TypeOK /\ PosInv /\ ReadInv /\ [Next]_vars => TypeOK'
  <1> SUFFICES ASSUME TypeOK, PosInv, ReadInv, [Next]_vars
               PROVE  TypeOK'
    OBVIOUS
  <1> DEFINE Calls == Seq({"error", "close"})
             Pcs == {"upgrade", "header", "length", "content", "lost", "garbled"}
             Buffer == /\ low \in Nat /\ high \in Nat /\ low <= high /\ high <= total
                       /\ additional \in Nat /\ current \in 0 .. Len(frames)
             Out == /\ fragments \in Seq(Taken) /\ delivered \in Seq(Seq(Taken))
                    /\ pongs \in Seq(Taken)
             Loss == closeSent \in BOOLEAN /\ losses \in Calls
             Count == partial \in BOOLEAN /\ misreads \in 0 .. MaxMisreads
  <1>1. /\ frames \in Seq(Frames) /\ total \in Nat /\ pc \in Pcs /\ Buffer /\ Out /\ Loss /\ Count
        /\ Len(frames) \in Nat /\ DOMAIN frames = 1 .. Len(frames)
    BY LenProperties DEF TypeOK, Frames
  <1>14. Count'
    <2>1. CASE UNCHANGED placeVars
      BY <1>1, <2>1 DEF placeVars
    <2>2. CASE Misread
      BY <1>1, <2>2 DEF Misread
    <2>3. CASE \E extra \in 0 .. total : Upgrade(extra)
      BY <1>1, <2>3 DEF Upgrade
    <2>4. CASE UNCHANGED vars
      BY <1>1, <2>4 DEF vars
    <2> QED
      BY <2>1, <2>2, <2>3, <2>4 DEF Next, Read, ServerSends, ReadHeader, ReadLength,
                                    ReadContent, Fail
  <1> SUFFICES frames' \in Seq(Frames) /\ total' \in Nat /\ pc' \in Pcs /\ Buffer' /\ Out' /\ Loss'
    BY <1>14 DEF TypeOK, Frames
  <1>0. /\ low \in Nat /\ high \in Nat /\ low <= high /\ high <= total /\ total \in Nat
        /\ current \in 0 .. Len(frames)
    BY <1>1
  <1>2. \A k \in DOMAIN frames : k \in Taken
    BY <1>1 DEF Taken, Indices, PosInv
  <1>3. ASSUME NEW calls \in Calls, Lose(calls)
        PROVE  losses' \in Calls /\ pc' \in Pcs
    BY <1>1, <1>3, ConcatProperties DEF Lose
  <1>4. <<"close">> \in Calls /\ <<"error">> \in Calls /\ <<"error", "close">> \in Calls
    OBVIOUS
  <1>5. ASSUME NEW k, StartContent(k)
        PROVE  pc' \in Pcs /\ Loss'
    <2>1. CASE Lose(<<"error", "close">>) /\ closeSent' = TRUE
      BY <1>3, <1>4, <2>1
    <2>2. CASE pc' = "content" /\ UNCHANGED lossVars
      BY <1>1, <2>2 DEF lossVars
    <2> QED BY <1>5, <2>1, <2>2 DEF StartContent
  <1>6. ASSUME NEW kind \in Kinds, NEW length \in Lengths, ServerSends(kind, length)
        PROVE  frames' \in Seq(Frames) /\ total' \in Nat /\ pc' \in Pcs /\ Buffer' /\ Out' /\ Loss'
    <2> DEFINE f == [kind |-> kind, length |-> length, at |-> total]
    <2>1. f \in Frames /\ frames' = Append(frames, f)
      BY <1>1, <1>6 DEF ServerSends, Frames
    <2> HIDE DEF f
    <2>2. frames' \in Seq(Frames) /\ Len(frames') = Len(frames) + 1
      BY <1>1, <2>1, AppendProperties
    <2>3. total' \in Nat /\ total <= total'
      <3>1. length \in Nat /\ FrameSize(length) \in Nat
        BY SizeFacts
      <3> QED BY <1>1, <1>6, <3>1 DEF ServerSends
    <2>4. UNCHANGED <<pc, low, high, additional, current, fragments, delivered, pongs, closeSent, losses>>
      BY <1>6 DEF ServerSends, bufVars, outVars, lossVars
    <2> QED BY <1>1, <2>2, <2>3, <2>4
  <1>7. ASSUME NEW extra \in 0 .. total, Upgrade(extra)
        PROVE  frames' \in Seq(Frames) /\ total' \in Nat /\ pc' \in Pcs /\ Buffer' /\ Out' /\ Loss'
    <2>1. /\ UNCHANGED <<frames, total, low, current, fragments, delivered, pongs, closeSent, losses>>
          /\ high' = extra /\ additional' = extra /\ pc' = "header"
      BY <1>7 DEF Upgrade, streamVars, outVars, lossVars
    <2>2. low = 0
      BY <1>7 DEF Upgrade, ReadInv, End
    <2> QED BY <1>1, <2>1, <2>2
  <1>8. CASE Garbled /\ UNCHANGED <<frames, total>>
    <2>1. /\ UNCHANGED <<frames, total, low, high, additional, current, fragments, delivered, pongs,
                         closeSent, losses>>
          /\ pc' \in Pcs
      BY <1>8 DEF Garbled, bufVars, outVars, lossVars
    <2> QED BY <1>1, <2>1
  <1>9. CASE ReadHeader
    <2>1. UNCHANGED <<frames, total, fragments, delivered, pongs>>
      BY <1>9, HeaderFacts
    <2>2. CASE /\ high = low /\ additional >= 2 /\ additional' = 0
               /\ UNCHANGED <<pc, low, high, current, closeSent, losses>>
      BY <1>1, <2>1, <2>2
    <2>3. CASE /\ current' = current + 1 /\ current + 1 \in DOMAIN frames
               /\ frames[current + 1].at = low
               /\ Size(2) >= 2
               /\ low' = low + 2 /\ high' = high + Missing(2) /\ additional' = high - low
               /\ AfterHeader(current + 1)
      <3>1. Arrived(2)
        BY <1>9 DEF ReadHeader
      <3>2. Buffer'
        <4>1. /\ Missing(2) \in Nat /\ high + Missing(2) <= total
              /\ Size(2) = high - low + Missing(2)
          BY <3>1, ReadAmounts
        <4>2. current' \in 0 .. Len(frames')
          BY <1>1, <2>1, <2>3
        <4>3. /\ low' \in Nat /\ high' \in Nat /\ low' <= high' /\ high' <= total
              /\ additional' \in Nat
          <5>1. /\ low' = low + 2 /\ high' = high + Missing(2) /\ additional' = high - low
                /\ Size(2) >= 2
            BY <2>3
          <5>2. low \in Nat /\ high \in Nat /\ low <= high
            BY <1>1
          <5>3. low' <= high'
            BY <4>1, <5>1, <5>2
          <5> QED BY <4>1, <5>1, <5>2, <5>3
        <4> QED BY <2>1, <4>2, <4>3, SMTT(60)
      <3>3. pc' \in Pcs /\ Loss'
        <4>1. CASE Lose(<<"close">>) /\ closeSent' = TRUE
          BY <1>3, <1>4, <4>1
        <4>2. CASE pc' = "length" /\ UNCHANGED lossVars
          BY <1>1, <4>2 DEF lossVars
        <4>3. CASE StartContent(current + 1)
          BY <1>5, <4>3
        <4> QED BY <2>3, <4>1, <4>2, <4>3 DEF AfterHeader
      <3> QED BY <1>1, <2>1, <3>2, <3>3
    <2>4. CASE Garbled
      BY <1>8, <2>1, <2>4
    <2> QED BY <1>9, <2>2, <2>3, <2>4, HeaderFacts
  <1>10. CASE ReadLength
    <2> DEFINE n == Extension(Frame.length)
    <2>1. /\ n \in Nat /\ Arrived(n) /\ UNCHANGED <<frames, total, fragments, delivered, pongs>>
      BY <1>10, FrameFacts DEF ReadLength, streamVars, outVars
    <2> HIDE DEF n
    <2>2. CASE /\ Size(n) >= n
               /\ low' = low + n /\ high' = high + Missing(n) /\ additional' = AdditionalAfter(n)
               /\ StartContent(current) /\ UNCHANGED current
      <3>1. Buffer'
        <4>1. /\ Missing(n) \in Nat /\ high + Missing(n) <= total
              /\ Size(n) = high - low + Missing(n) /\ AdditionalAfter(n) = high - low
          BY <2>1, ReadAmounts
        <4>2. current' \in 0 .. Len(frames')
          BY <1>0, <2>1, <2>2
        <4>3. /\ low' \in Nat /\ high' \in Nat /\ low' <= high' /\ high' <= total
              /\ additional' \in Nat
          BY <1>0, <2>1, <2>2, <4>1
        <4> QED BY <2>1, <4>2, <4>3, SMTT(60)
      <3> QED BY <1>1, <1>5, <2>1, <2>2, <3>1
    <2>3. CASE Garbled
      BY <1>8, <2>1, <2>3
    <2> QED BY <1>10, <2>2, <2>3 DEF ReadLength, n
  <1>11. CASE ReadContent
    <2> DEFINE n == Frame.length
    <2>1. /\ n \in Nat /\ Arrived(n) /\ UNCHANGED <<frames, total>> /\ current \in Taken
      BY <1>2, <1>11, FrameFacts DEF ReadContent, streamVars
    <2> HIDE DEF n
    <2>2. CASE /\ Size(n) >= n
               /\ low' = IF AdditionalAfter(n) > 0 THEN low + n ELSE high + Missing(n)
               /\ high' = high + Missing(n) /\ additional' = AdditionalAfter(n)
               /\ UNCHANGED current
               /\ OnClose \/ OnPing \/ OnPong \/ OnFragment \/ OnFinal
      <3>1. Buffer'
        <4>1. /\ Missing(n) \in Nat /\ high + Missing(n) <= total
              /\ Size(n) = high - low + Missing(n) /\ AdditionalAfter(n) = high - low
          BY <2>1, ReadAmounts
        <4>2. current' \in 0 .. Len(frames')
          BY <1>0, <2>1, <2>2
        <4>3. /\ low' \in Nat /\ high' \in Nat /\ low' <= high' /\ high' <= total
              /\ additional' \in Nat
          BY <1>0, <2>1, <2>2, <4>1
        <4> QED BY <2>1, <4>2, <4>3, SMTT(60)
      <3>2. CASE OnClose
        <4>1. closeSent' = TRUE /\ Lose(<<"close">>) /\ UNCHANGED <<fragments, delivered, pongs>>
          BY <3>2 DEF OnClose, outVars
        <4>2. Loss' /\ pc' \in Pcs
          BY <1>3, <1>4, <4>1
        <4> QED BY <1>1, <2>1, <3>1, <4>1, <4>2
      <3>3. CASE OnPing \/ OnPong \/ OnFragment \/ OnFinal
        <4>1. pc' = "header" /\ UNCHANGED <<closeSent, losses>>
          BY <3>3 DEF OnPing, OnPong, OnFragment, OnFinal, NextFrame, lossVars
        <4>2. pongs' \in Seq(Taken)
          <5>1. pongs' \in {pongs, pongs \o <<current>>}
            BY <3>3 DEF OnPing, OnPong, OnFragment, OnFinal, Pong, outVars
          <5>2. <<current>> \in Seq(Taken)
            BY <2>1, SingletonIsSeq
          <5>3. pongs \in Seq(Taken)
            BY <1>1
          <5>4. pongs \o <<current>> \in Seq(Taken)
            BY <5>2, <5>3, ConcatProperties
          <5> QED BY <5>1, <5>3, <5>4
        <4>3. Append(fragments, current) \in Seq(Taken)
          BY <1>1, <2>1, AppendProperties
        <4>4. fragments' \in Seq(Taken)
          <5>1. fragments' \in {fragments, Append(fragments, current), <<>>}
            BY <3>3 DEF OnPing, OnPong, OnFragment, OnFinal, outVars, ResetFragments
          <5> QED BY <1>1, <4>3, <5>1, EmptySeq
        <4>5. delivered' \in Seq(Seq(Taken))
          <5>1. delivered' \in {delivered, Append(delivered, Append(fragments, current))}
            BY <3>3 DEF OnPing, OnPong, OnFragment, OnFinal, outVars
          <5>2. Append(delivered, Append(fragments, current)) \in Seq(Seq(Taken))
            BY <1>1, <4>3, AppendProperties
          <5> QED BY <1>1, <5>1, <5>2
        <4> QED BY <1>1, <2>1, <3>1, <4>1, <4>2, <4>4, <4>5
      <3> QED BY <2>2, <3>2, <3>3
    <2>3. CASE Garbled
      BY <1>8, <2>1, <2>3
    <2> QED BY <1>11, <2>2, <2>3 DEF ReadContent, n
  <1>12. CASE Fail
    <2>1. /\ UNCHANGED <<frames, total, low, high, additional, current, fragments, delivered, pongs,
                         closeSent>>
          /\ Lose(<<"error">>)
      BY <1>12 DEF Fail, streamVars, bufVars, outVars
    <2>2. pc' \in Pcs /\ losses' \in Calls
      BY <1>3, <1>4, <2>1
    <2> QED BY <1>1, <2>1, <2>2
  <1>13. CASE UNCHANGED vars
    BY <1>1, <1>13 DEF vars
  <1>15. CASE Misread
    <2>1. UNCHANGED <<frames, total, low, high, additional, current>> /\ pc = "garbled"
      BY <1>15 DEF Misread, streamVars, bufVars
    <2>2. PICK k \in {NoFrame} :
             \/ /\ delivered' = Append(delivered, Append(fragments, k))
                /\ fragments' = <<>> /\ UNCHANGED <<pc, pongs, closeSent, losses>>
             \/ /\ fragments' = Append(fragments, k)
                /\ UNCHANGED <<pc, delivered, pongs, closeSent, losses>>
             \/ /\ pongs' = Append(pongs, k)
                /\ UNCHANGED <<pc, fragments, delivered, closeSent, losses>>
             \/ UNCHANGED <<pc, fragments, delivered, pongs, closeSent, losses>>
             \/ /\ Lose(<<"close">>) \/ Lose(<<"error", "close">>)
                /\ closeSent' = TRUE /\ UNCHANGED <<fragments, delivered, pongs>>
      BY <1>15 DEF Misread, lossVars, outVars, ResetFragments
    <2>3. /\ Append(fragments, k) \in Seq(Taken) /\ Append(pongs, k) \in Seq(Taken)
          /\ <<>> \in Seq(Taken)
      <3>1. k \in Taken
        BY DEF Taken
      <3> QED BY <1>1, <3>1, AppendProperties, EmptySeq
    <2>4. Append(delivered, Append(fragments, k)) \in Seq(Seq(Taken))
      BY <1>1, <2>3, AppendProperties
    <2>5. Out'
      BY <1>1, <2>2, <2>3, <2>4
    <2>6. pc' \in Pcs /\ Loss'
      BY <1>1, <1>3, <1>4, <2>2
    <2> QED BY <1>1, <2>1, <2>5, <2>6
  <1> QED
    BY <1>6, <1>7, <1>9, <1>10, <1>11, <1>12, <1>13, <1>15 DEF Next, Read

\* A frame is sent behind the last one.
LEMMA PosStep == TypeOK /\ PosInv /\ [Next]_vars => PosInv'
  <1> SUFFICES ASSUME TypeOK, PosInv, [Next]_vars
               PROVE  PosInv'
    OBVIOUS
  <1>1. /\ Len(frames) \in Nat /\ frames \in Seq(Frames) /\ total \in Nat
        /\ \A k \in DOMAIN frames : frames'[k] = frames[k]
        /\ \A k \in 0 .. Len(frames) : End(k)' = End(k)
        /\ DOMAIN frames = 1 .. Len(frames)
    BY FramesKept DEF TypeOK, Frames
  <1>2. CASE frames' = frames /\ total' = total
    BY <1>1, <1>2 DEF PosInv
  <1>3. ASSUME NEW kind \in Kinds, NEW length \in Lengths, ServerSends(kind, length)
        PROVE  PosInv'
    <2> DEFINE f == [kind |-> kind, length |-> length, at |-> total]
    <2>0. PICK n \in Nat : n = Len(frames)
      BY <1>1
    <2>1. f \in Frames /\ frames' = Append(frames, f)
      BY <1>1, <1>3 DEF ServerSends, Frames
    <2>2. f.at = total /\ f.length = length
      OBVIOUS
    <2>3. length \in Nat /\ FrameSize(length) \in Nat /\ FrameSize(length) >= 2
      BY SizeFacts
    <2> HIDE DEF f
    <2>4. Len(frames') = n + 1 /\ frames'[n + 1] = f
      BY <1>1, <2>0, <2>1, AppendProperties
    <2>5. frames'[n + 1].at = total /\ End(n + 1)' = total + FrameSize(length)
      BY <2>2, <2>4 DEF End
    <2>6. total' = End(n + 1)'
      BY <1>3, <2>5 DEF ServerSends
    <2>7. ASSUME NEW k \in 0 .. n
          PROVE  frames'[k + 1].at = End(k)'
      <3>1. CASE k = n
        BY <1>1, <2>0, <2>5, <3>1 DEF PosInv
      <3>2. CASE k # n
        <4>1. k \in 0 .. n - 1 /\ k + 1 \in 1 .. n
          BY <3>2
        <4> QED BY <1>1, <2>0, <4>1 DEF PosInv
      <3> QED BY <3>1, <3>2
    <2>8. ASSUME NEW i \in 0 .. n + 1, NEW j \in 0 .. n + 1, i < j
          PROVE  End(i)' + 2 <= End(j)'
      <3>1. i \in 0 .. n /\ End(i)' = End(i)
        BY <1>1, <2>0, <2>8
      <3>2. CASE j # n + 1
        <4>1. j \in 0 .. n /\ End(j)' = End(j)
          BY <1>1, <2>0, <3>2
        <4> QED BY <2>0, <2>8, <3>1, <4>1 DEF PosInv
      <3>3. CASE j = n + 1
        <4>1. End(i) <= End(n) /\ End(i) \in Int
          <5>1. End(n) \in Nat
            BY <1>1, <2>0 DEF PosInv
          <5>2. CASE i = n
            BY <5>1, <5>2
          <5>3. CASE i # n
            <6>1. i < n /\ n \in 0 .. n
              BY <3>1, <5>3
            <6>2. End(i) + 2 <= End(n)
              BY <2>0, <3>1, <6>1 DEF PosInv
            <6>3. End(i) \in Nat
              BY <2>0, <3>1, EndType
            <6> QED BY <5>1, <6>2, <6>3
          <5> QED BY <5>2, <5>3
        <4>2. End(n) = total
          BY <2>0 DEF PosInv
        <4> QED BY <1>1, <2>3, <2>5, <3>1, <3>3, <4>1, <4>2
      <3> QED BY <3>2, <3>3
    <2>9. n + 1 <= MaxFrames
      BY <1>3, <2>0 DEF ServerSends
    <2> QED BY <2>4, <2>6, <2>7, <2>8, <2>9 DEF PosInv
  <1> QED BY <1>2, <1>3, FramesKept

\* The header of frame k is followed by its longer length, or by its content, or by
\* nothing.
LEMMA AfterHeaderFacts ==
    ASSUME NEW k, AfterHeader(k)
    PROVE  \/ pc' = "lost"
           \/ pc' = "length" /\ Extension(frames[k].length) > 0
           \/ pc' = "content" /\ Extension(frames[k].length) = 0
  BY DEF AfterHeader, StartContent, Lose

\* A frame's content has been read when the reader was not garbled: it stands before
\* the next frame.
LEMMA ContentFacts ==
    ASSUME TypeOK, ReadInv, ReadContent
    PROVE  /\ UNCHANGED <<frames, total, current>>
           /\ \/ /\ low' = End(current)
                 /\ high' = high + Missing(Frame.length)
                 /\ additional' = high - low
                 /\ Size(Frame.length) >= Frame.length
                 /\ OnClose \/ OnPing \/ OnPong \/ OnFragment \/ OnFinal
              \/ Size(Frame.length) < Frame.length /\ Garbled
  <1> DEFINE n == Frame.length
  <1>0. pc = "content" /\ Arrived(n) /\ UNCHANGED <<frames, total>>
    BY DEF ReadContent, streamVars
  <1>1. /\ n \in Nat /\ Extension(n) \in Nat
        /\ low = Frame.at + 2 + Extension(n) /\ End(current) = low + n
    BY <1>0, FrameFacts DEF ReadInv
  <1>2. low \in Nat /\ high \in Nat /\ additional \in Nat
    BY DEF TypeOK
  <1> HIDE DEF n
  <1>3. /\ Missing(n) \in Nat /\ Missing(n) <= n
        /\ Size(n) = high - low + Missing(n)
        /\ AdditionalAfter(n) = high - low /\ high - low \in Nat
    BY <1>0, <1>1, <1>2, ReadAmounts
  <1>4. CASE /\ Size(n) >= n
             /\ low' = IF AdditionalAfter(n) > 0 THEN low + n ELSE high + Missing(n)
             /\ high' = high + Missing(n) /\ additional' = AdditionalAfter(n)
             /\ UNCHANGED current
             /\ OnClose \/ OnPing \/ OnPong \/ OnFragment \/ OnFinal
    <2>1. low' = low + n
      BY <1>1, <1>2, <1>3, <1>4
    <2> QED BY <1>0, <1>1, <1>3, <1>4, <2>1 DEF n
  <1>5. CASE Size(n) < n /\ Garbled
    BY <1>0, <1>5 DEF Garbled, bufVars, n
  <1>6. Size(n) \in Int
    BY <1>2, <1>3
  <1> QED BY <1>1, <1>4, <1>5, <1>6 DEF ReadContent, n

\* The place in the stream follows the frames.
LEMMA ReadStep == TypeOK /\ PosInv /\ ReadInv /\ [Next]_vars => ReadInv'
  <1> SUFFICES ASSUME TypeOK, PosInv, ReadInv, [Next]_vars
               PROVE  ReadInv'
    OBVIOUS
  <1>1. /\ Len(frames) \in Nat /\ current \in 0 .. Len(frames) /\ low \in Nat
        /\ \A k \in 1 .. Len(frames) : frames'[k] = frames[k]
        /\ \A k \in 0 .. Len(frames) : End(k)' = End(k)
    <2>1. /\ Len(frames) \in Nat /\ DOMAIN frames = 1 .. Len(frames)
          /\ \A k \in DOMAIN frames : frames'[k] = frames[k]
          /\ \A k \in 0 .. Len(frames) : End(k)' = End(k)
      BY FramesKept
    <2>2. current \in 0 .. Len(frames) /\ low \in Nat
      BY DEF TypeOK
    <2> QED BY <2>1, <2>2
  <1>2. CASE UNCHANGED <<pc, low, current>>
    BY <1>1, <1>2 DEF ReadInv
  <1>3. CASE pc' \in {"lost", "garbled"}
    BY <1>3 DEF ReadInv
  <1>4. ASSUME NEW kind \in Kinds, NEW length \in Lengths, ServerSends(kind, length)
        PROVE  ReadInv'
    BY <1>2, <1>4 DEF ServerSends, bufVars
  <1>5. ASSUME NEW extra \in 0 .. total, Upgrade(extra)
        PROVE  ReadInv'
    BY <1>1, <1>5 DEF Upgrade, ReadInv
  <1>6. CASE ReadHeader
    <2>1. CASE /\ current' = current + 1 /\ current + 1 \in DOMAIN frames
               /\ frames[current + 1].at = low
               /\ low' = low + 2
               /\ AfterHeader(current + 1)
      <3>1. UNCHANGED frames
        BY <1>6, HeaderFacts
      <3>2. /\ low' = frames'[current'].at + 2 /\ current' # 0
        BY <1>1, <2>1, <3>1
      <3>3. CASE pc' = "length" /\ Extension(frames[current + 1].length) > 0
        BY <2>1, <3>1, <3>2, <3>3 DEF ReadInv
      <3>4. CASE pc' = "content" /\ Extension(frames[current + 1].length) = 0
        <4>1. /\ low' = frames'[current'].at + 2 + Extension(frames'[current'].length)
          BY <1>1, <2>1, <3>1, <3>4
        <4> QED BY <3>2, <3>4, <4>1 DEF ReadInv
      <3> QED BY <1>3, <2>1, <3>3, <3>4, AfterHeaderFacts
    <2>2. CASE Garbled
      BY <1>3, <2>2 DEF Garbled
    <2> QED BY <1>2, <1>6, <2>1, <2>2, HeaderFacts
  <1>7. CASE ReadLength
    <2> DEFINE n == Extension(Frame.length)
    <2>1. /\ low = Frame.at + 2 /\ current # 0 /\ Frame = frames[current] /\ UNCHANGED frames
      BY <1>7 DEF ReadLength, ReadInv, Frame, streamVars
    <2>2. CASE low' = low + n /\ UNCHANGED current /\ StartContent(current)
      <3>1. CASE pc' = "content"
        BY <2>1, <2>2, <3>1 DEF ReadInv
      <3> QED BY <1>3, <2>2, <3>1 DEF StartContent, Lose
    <2>3. CASE Garbled
      BY <1>3, <2>3 DEF Garbled
    <2> QED BY <1>7, <2>2, <2>3 DEF ReadLength
  <1>8. CASE ReadContent
    <2>1. UNCHANGED <<frames, current>>
      BY <1>8, ContentFacts
    <2>2. CASE low' = End(current) /\ (OnClose \/ OnPing \/ OnPong \/ OnFragment \/ OnFinal)
      <3>1. pc' \in {"header", "lost"}
        BY <2>2 DEF OnClose, OnPing, OnPong, OnFragment, OnFinal, NextFrame, Lose
      <3>2. low' = End(current)'
        BY <1>1, <2>1, <2>2
      <3> QED BY <3>1, <3>2 DEF ReadInv
    <2>3. CASE Garbled
      BY <1>3, <2>3 DEF Garbled
    <2> QED BY <1>8, <2>2, <2>3, ContentFacts
  <1>9. CASE Fail
    BY <1>3, <1>9 DEF Fail, Lose
  <1>10. CASE Misread
    BY <1>3, <1>10 DEF Misread, Lose
  <1> QED
    BY <1>2, <1>4, <1>5, <1>6, <1>7, <1>8, <1>9, <1>10 DEF Next, Read, vars
----------------------------------------------------------------------------
(* Messages and pings *)

\* m is the message the data frames after frame a make.
Whole(m, a) ==
    /\ m # <<>> /\ Last(m) \in DOMAIN frames
    /\ Ascending(m)
    /\ ToSet(m) = DataFrames(a, Last(m))
    /\ \A k \in ToSet(m) : frames[k].kind = "final" <=> k = Last(m)

LEMMA WholeMessages ==
    AllWhole <=> \A i \in DOMAIN delivered : Whole(delivered[i], From(i))
  BY DEF AllWhole, Whole, DataFrames

\* What was handed out last ends where the next message begins.
LEMMA HandedFacts ==
    ASSUME TypeOK, AllWhole
    PROVE  /\ Len(delivered) \in Nat /\ DOMAIN delivered = 1 .. Len(delivered)
           /\ \A i \in 1 .. Len(delivered) + 1 : From(i) \in 0 .. Len(frames)
           /\ Handed = From(Len(delivered) + 1)
  <1>1. /\ Len(delivered) \in Nat /\ DOMAIN delivered = 1 .. Len(delivered)
        /\ Len(frames) \in Nat /\ DOMAIN frames = 1 .. Len(frames)
    BY LenProperties DEF TypeOK
  <1>2. delivered = <<>> <=> Len(delivered) = 0
    BY EmptySeq DEF TypeOK
  <1>3. ASSUME NEW i \in 1 .. Len(delivered) + 1, i # 1
        PROVE  From(i) \in 0 .. Len(frames)
    <2>1. i - 1 \in DOMAIN delivered
      BY <1>1, <1>3
    <2>2. Last(delivered[i - 1]) \in DOMAIN frames
      BY <2>1 DEF AllWhole
    <2> QED BY <1>1, <1>3, <2>2 DEF From
  <1>4. From(1) = 0
    BY DEF From
  <1>5. Handed = From(Len(delivered) + 1)
    <2>1. CASE delivered = <<>>
      BY <1>2, <1>4, <2>1 DEF Handed
    <2>2. CASE delivered # <<>>
      <3>1. Len(delivered) + 1 # 1 /\ (Len(delivered) + 1) - 1 = Len(delivered)
        BY <1>1, <1>2, <2>2
      <3> QED BY <2>2, <3>1 DEF Handed, From, Last
    <2> QED BY <2>1, <2>2
  <1> QED BY <1>1, <1>3, <1>4, <1>5

\* The reader has finished with frames that were sent.
LEMMA DoneType ==
    ASSUME TypeOK, ReadInv
    PROVE  Done \in 0 .. Len(frames)
  <1>1. current \in 0 .. Len(frames) /\ Len(frames) \in Nat
    BY LenProperties DEF TypeOK
  <1>2. pc \in {"length", "content"} => current # 0
    BY DEF ReadInv
  <1> QED BY <1>1, <1>2 DEF Done

\* Frames that have been sent are of one kind for ever.
LEMMA KindsKept ==
    ASSUME TypeOK, [Next]_vars, NEW b \in 0 .. Len(frames)
    PROVE  /\ \A a \in Nat : DataFrames(a, b)' = DataFrames(a, b)
           /\ Pings(b)' = Pings(b)
  <1>1. \A k \in 1 .. b : frames'[k] = frames[k]
    BY FramesKept
  <1> QED BY <1>1 DEF DataFrames, Pings

\* A whole message stays whole.
LEMMA WholeKept ==
    ASSUME TypeOK, [Next]_vars, NEW m, NEW a \in Nat, Whole(m, a)
    PROVE  Whole(m, a)'
  <1>1. /\ DOMAIN frames = 1 .. Len(frames) /\ DOMAIN frames' = 1 .. Len(frames')
        /\ Len(frames) \in Nat /\ Len(frames') \in Nat /\ Len(frames) <= Len(frames')
        /\ \A k \in DOMAIN frames : frames'[k] = frames[k]
    BY FramesKept
  <1>2. PICK z \in DOMAIN frames : z = Last(m)
    BY DEF Whole
  <1>3. DataFrames(a, z)' = DataFrames(a, z)
    BY <1>1, KindsKept
  <1>4. ToSet(m) = DataFrames(a, z) /\ DataFrames(a, z) \subseteq DOMAIN frames
    BY <1>1, <1>2 DEF Whole, DataFrames
  <1>5. m # <<>> /\ Ascending(m) /\ z \in DOMAIN frames'
    BY <1>1 DEF Whole
  <1>6. \A k \in ToSet(m) : frames'[k].kind = "final" <=> k = z
    BY <1>1, <1>2, <1>4 DEF Whole
  <1> QED BY <1>2, <1>3, <1>4, <1>5, <1>6 DEF Whole, DataFrames

\* Pings that were answered stay answered.
LEMMA AnswersKept ==
    ASSUME TypeOK, [Next]_vars, PongsAnswered, UNCHANGED pongs
    PROVE  PongsAnswered'
  <1>1. /\ DOMAIN frames = 1 .. Len(frames) /\ DOMAIN frames' = 1 .. Len(frames')
        /\ Len(frames) \in Nat /\ Len(frames') \in Nat /\ Len(frames) <= Len(frames')
    BY FramesKept
  <1>2. \A k \in ToSet(pongs) : k \in 0 .. Len(frames) /\ k \in DOMAIN frames'
    BY <1>1 DEF PongsAnswered
  <1>3. \A k \in ToSet(pongs) : Pings(k)' = Pings(k)
    BY <1>2, KindsKept
  <1> QED BY <1>2, <1>3 DEF PongsAnswered

\* Messages that were delivered stay whole.
LEMMA MessagesKept ==
    ASSUME TypeOK, AllWhole, [Next]_vars, UNCHANGED delivered
    PROVE  AllWhole'
  <1>1. ASSUME NEW i \in DOMAIN delivered, NEW m, m = delivered[i], NEW a, a = From(i)
        PROVE  Whole(m, a)'
    <2>1. Whole(m, a)
      BY <1>1, WholeMessages
    <2>2. a \in Nat
      <3>1. i \in 1 .. Len(delivered) + 1 /\ a \in 0 .. Len(frames)
        BY <1>1, HandedFacts
      <3> QED BY <3>1
    <2> QED BY <2>1, <2>2, WholeKept
  <1>2. \A i \in DOMAIN delivered : From(i)' = From(i)
    BY DEF From
  <1>3. \A i \in DOMAIN delivered' : Whole(delivered[i], From(i))'
    BY <1>1, <1>2 DEF Whole, DataFrames
  <1> QED BY <1>3 DEF AllWhole, Whole, DataFrames

\* Nothing happens to what was read while the next frame is being looked for.
LEMMA DataKept ==
    ASSUME TypeOK, ReadInv, DataInv, [Next]_vars, UNCHANGED <<fragments, delivered, pongs>>,
           Active' => Active /\ Done' = Done
    PROVE  DataInv'
  <1>1. AllWhole'
    BY MessagesKept DEF DataInv
  <1>2. PongsAnswered'
    BY AnswersKept DEF DataInv
  <1>3. ASSUME Active'
        PROVE  /\ Handed' <= Done'
               /\ Ascending(fragments)'
               /\ (ToSet(fragments) = DataFrames(Handed, Done))'
               /\ (\A k \in ToSet(fragments) : frames[k].kind = "fragment")'
               /\ (ToSet(pongs) = Pings(Done))'
    <2>1. PICK h \in 0 .. Len(frames) : h = Handed
      BY HandedFacts DEF DataInv
    <2>2. PICK d \in 0 .. Len(frames) : d = Done
      BY DoneType
    <2>3. Active /\ Done' = d /\ Handed' = h
      BY <1>3, <2>1, <2>2 DEF Handed
    <2>4. /\ h <= d /\ Ascending(fragments) /\ ToSet(fragments) = DataFrames(h, d)
          /\ \A k \in ToSet(fragments) : frames[k].kind = "fragment"
          /\ ToSet(pongs) = Pings(d)
      BY <2>1, <2>2, <2>3 DEF DataInv
    <2>5. DataFrames(h, d)' = DataFrames(h, d) /\ Pings(d)' = Pings(d)
      BY KindsKept
    <2>6. \A k \in ToSet(fragments) : frames'[k] = frames[k]
      <3>1. ToSet(fragments) \subseteq DOMAIN frames
        BY <2>4, FramesKept DEF DataFrames
      <3> QED BY <3>1, FramesKept
    <2>7. DataFrames(Handed, Done)' = DataFrames(h, d) /\ Pings(Done)' = Pings(d)
      BY <2>3, <2>5 DEF DataFrames, Pings
    <2> QED BY <2>3, <2>4, <2>6, <2>7 DEF Ascending
  <1> QED BY <1>1, <1>2, <1>3 DEF DataInv

\* One more frame is one more data frame, one more ping or neither.
LEMMA OneMoreFrame ==
    ASSUME NEW h \in Nat, NEW c \in Nat, h < c
    PROVE  /\ DataFrames(h, c) =
                 DataFrames(h, c - 1) \cup (IF frames[c].kind \in Data THEN {c} ELSE {})
           /\ Pings(c) = Pings(c - 1) \cup (IF frames[c].kind = "ping" THEN {c} ELSE {})
           /\ \A k \in DataFrames(h, c - 1) \cup Pings(c - 1) : k < c
           /\ DataFrames(c, c) = {}
  BY DEF DataFrames, Pings

\* The content of a frame becomes a message, a fragment, a pong or nothing.
LEMMA ContentStep ==
    ASSUME TypeOK, PosInv, ReadInv, DataInv, ReadContent,
           OnPing \/ OnPong \/ OnFragment \/ OnFinal, UNCHANGED <<frames, current>>
    PROVE  DataInv'
  <1>0. pc = "content" /\ pc' = "header"
    BY DEF ReadContent, OnPing, OnPong, OnFragment, OnFinal, NextFrame
  <1>1. [Next]_vars
    BY DEF Next, Read
  <1>2. PICK c \in 1 .. Len(frames) : c = current
    BY <1>0, FrameFacts
  <1>3. PICK h \in 0 .. Len(frames) : h = Handed
    BY HandedFacts DEF DataInv
  <1>4. /\ DOMAIN frames = 1 .. Len(frames) /\ Len(frames) \in Nat /\ Frame = frames[c]
        /\ fragments \in Seq(Taken) /\ delivered \in Seq(Seq(Taken))
        /\ pongs \in Seq(Taken) /\ Taken \subseteq Nat
    BY <1>2, LenProperties DEF TypeOK, Frame, Taken, NoFrame, Indices
  <1>5. /\ h <= c - 1
        /\ Ascending(fragments) /\ ToSet(fragments) = DataFrames(h, c - 1)
        /\ \A k \in ToSet(fragments) : frames[k].kind = "fragment"
        /\ ToSet(pongs) = Pings(c - 1)
    BY <1>0, <1>2, <1>3 DEF DataInv, Active, Done
  <1>6. /\ DataFrames(h, c) =
              DataFrames(h, c - 1) \cup (IF frames[c].kind \in Data THEN {c} ELSE {})
        /\ Pings(c) = Pings(c - 1) \cup (IF frames[c].kind = "ping" THEN {c} ELSE {})
        /\ \A k \in DataFrames(h, c - 1) \cup Pings(c - 1) : k < c
        /\ DataFrames(c, c) = {}
    <2>1. h \in Nat /\ c \in Nat /\ h < c
      BY <1>4, <1>5
    <2> QED BY <2>1, OneMoreFrame
  <1>7. c \in Taken
    BY <1>2, <1>4 DEF Taken, Indices, PosInv
  <1>8. ASSUME NEW g \in Nat, g <= c, Handed' = g, Ascending(fragments'),
               ToSet(fragments') = DataFrames(g, c),
               \A k \in ToSet(fragments') : frames[k].kind = "fragment",
               AllWhole', PongsAnswered', ToSet(pongs') = Pings(c)
        PROVE  DataInv'
    <2>1. Done' = c
      BY <1>0, <1>2 DEF Done
    <2>2. DataFrames(Handed, Done)' = DataFrames(g, c) /\ Pings(Done)' = Pings(c)
      BY <1>8, <2>1 DEF DataFrames, Pings
    <2> QED BY <1>8, <2>1, <2>2 DEF DataInv, Ascending
  <1>9. PongsAnswered' /\ ToSet(pongs') = Pings(c)
    <2>1. CASE OnPing
      <3>1. pongs' = Append(pongs, c) /\ frames[c].kind = "ping"
        <4>1. pongs' = pongs \o <<c>> /\ frames[c].kind = "ping"
          BY <1>2, <1>4, <2>1 DEF OnPing, Pong
        <4>2. Append(pongs, c) = pongs \o <<c>>
          BY <1>4, <1>7, AppendIsConcat
        <4> QED BY <4>1, <4>2
      <3>2. Pings(c) = Pings(c - 1) \cup {c}
        BY <1>6, <3>1
      <3>3. ToSet(pongs') = Pings(c)
        BY <1>4, <1>5, <1>7, <3>1, <3>2, AppendToSet
      <3>4. Ascending(pongs')
        <4>1. \A k \in ToSet(pongs) : k < c
          BY <1>5, <1>6
        <4>2. Ascending(pongs)
          BY DEF DataInv, PongsAnswered
        <4> QED BY <1>4, <1>7, <3>1, <4>1, <4>2, AscendingFacts
      <3>5. \A k \in ToSet(pongs') :
               k \in DOMAIN frames /\ k \in Pings(k) /\ Pings(k) \subseteq ToSet(pongs')
        <4>1. ASSUME NEW k \in Pings(c - 1)
              PROVE  k \in DOMAIN frames /\ k \in Pings(k) /\ Pings(k) \subseteq ToSet(pongs')
          <5>1. k \in ToSet(pongs)
            BY <1>5, <4>1
          <5>2. k \in DOMAIN frames /\ k \in Pings(k) /\ Pings(k) \subseteq ToSet(pongs)
            BY <5>1 DEF DataInv, PongsAnswered
          <5> QED BY <1>5, <3>2, <3>3, <5>2
        <4>2. c \in DOMAIN frames /\ c \in Pings(c) /\ Pings(c) \subseteq ToSet(pongs')
          BY <1>2, <1>4, <3>2, <3>3
        <4> QED BY <3>2, <3>3, <4>1, <4>2
      <3>6. Ascending(pongs)' /\ \A k \in ToSet(pongs') : Pings(k)' = Pings(k)
        BY <3>4 DEF Ascending, Pings
      <3> QED BY <3>3, <3>5, <3>6 DEF PongsAnswered
    <2>2. CASE OnPong \/ OnFragment \/ OnFinal
      <3>1. pongs' = pongs /\ frames[c].kind # "ping"
        BY <1>2, <1>4, <2>2 DEF OnPong, OnFragment, OnFinal, outVars
      <3> QED BY <1>1, <1>5, <1>6, <3>1, AnswersKept DEF DataInv
    <2> QED BY <2>1, <2>2
  <1>10. CASE OnPing \/ OnPong \/ OnFragment
    <2>1. delivered' = delivered /\ Handed' = h
      BY <1>3, <1>10 DEF OnPing, OnPong, OnFragment, outVars, Handed
    <2>2. AllWhole'
      BY <1>1, <2>1, MessagesKept DEF DataInv
    <2>3. /\ Ascending(fragments') /\ ToSet(fragments') = DataFrames(h, c)
          /\ \A k \in ToSet(fragments') : frames[k].kind = "fragment"
      <3>1. CASE OnPing \/ OnPong
        <4>1. fragments' = fragments /\ frames[c].kind \notin Data
          BY <1>2, <1>4, <3>1 DEF OnPing, OnPong, outVars, Data
        <4> QED BY <1>5, <1>6, <4>1
      <3>2. CASE OnFragment
        <4>1. fragments' = Append(fragments, c) /\ frames[c].kind = "fragment"
          BY <1>2, <1>4, <3>2 DEF OnFragment
        <4>2. ToSet(fragments') = ToSet(fragments) \cup {c}
          BY <1>4, <1>7, <4>1, AppendToSet
        <4>3. \A k \in ToSet(fragments) : k < c
          BY <1>5, <1>6
        <4>4. Ascending(fragments')
          BY <1>4, <1>5, <1>7, <4>1, <4>3, AscendingFacts
        <4> QED BY <1>5, <1>6, <4>1, <4>2, <4>4 DEF Data
      <3> QED BY <1>10, <3>1, <3>2
    <2>4. h \in Nat /\ h <= c
      BY <1>4, <1>5
    <2> QED BY <1>8, <1>9, <2>1, <2>2, <2>3, <2>4
  <1>11. CASE OnFinal
    <2> DEFINE m == Append(fragments, c)
    <2>1. /\ delivered' = Append(delivered, m) /\ fragments' = <<>> /\ frames[c].kind = "final"
      BY <1>2, <1>4, <1>11 DEF OnFinal, ResetFragments
    <2>2. m \in Seq(Taken) /\ m # <<>> /\ ToSet(m) = ToSet(fragments) \cup {c}
      <3>1. fragments \in Seq(Taken)
        BY <1>4
      <3>2. /\ Append(fragments, c) \in Seq(Taken) /\ Append(fragments, c) # <<>>
            /\ ToSet(Append(fragments, c)) = ToSet(fragments) \cup {c}
        BY <1>7, <3>1, AppendToSet
      <3> QED BY <3>2
    <2>3. Ascending(m) /\ Last(m) = c
      <3>1. \A k \in ToSet(fragments) : k < c
        BY <1>5, <1>6
      <3> QED BY <1>4, <1>5, <1>7, <3>1, AscendingFacts
    <2> HIDE DEF m
    <2>4. Whole(m, h)
      <3>1. ToSet(m) = DataFrames(h, c)
        BY <1>5, <1>6, <2>1, <2>2 DEF Data
      <3>2. \A k \in ToSet(m) : frames[k].kind = "final" <=> k = c
        <4>1. c \notin ToSet(fragments)
          BY <1>4, <1>5, <1>6
        <4> QED BY <1>5, <2>1, <2>2, <4>1
      <3>3. c \in DOMAIN frames
        BY <1>4
      <3> QED BY <2>2, <2>3, <3>1, <3>2, <3>3 DEF Whole
    <2>5. PICK n \in Nat : n = Len(delivered)
      BY <1>4, LenProperties
    <2>6. /\ Len(delivered') = n + 1 /\ DOMAIN delivered' = 1 .. n + 1
          /\ \A i \in 1 .. n : delivered'[i] = delivered[i]
          /\ delivered'[n + 1] = m /\ delivered' # <<>>
      <3>0. PICK S : S = Seq(Taken)
        OBVIOUS
      <3>1. delivered \in Seq(S) /\ m \in S
        BY <1>4, <2>2, <3>0
      <3>2. /\ Append(delivered, m) \in Seq(S) /\ Append(delivered, m) # <<>>
            /\ Len(Append(delivered, m)) = Len(delivered) + 1
            /\ \A i \in 1 .. Len(delivered) : Append(delivered, m)[i] = delivered[i]
            /\ Append(delivered, m)[Len(delivered) + 1] = m
        BY <3>1, AppendProperties
      <3>3. DOMAIN Append(delivered, m) = 1 .. Len(Append(delivered, m))
        BY <3>2, LenProperties
      <3> QED BY <2>1, <2>5, <3>2, <3>3
    <2>7. \A i \in 1 .. n + 1 : From(i)' = From(i)
      <3>1. \A i \in 1 .. n + 1 : i # 1 => i - 1 \in 1 .. n
        OBVIOUS
      <3> QED BY <2>6, <3>1 DEF From
    <2>8. AllWhole'
      <3>1. ASSUME NEW i \in 1 .. n + 1
            PROVE  Whole(delivered'[i], From(i))
        <4>1. CASE i = n + 1
          BY <1>3, <2>4, <2>5, <2>6, <4>1, HandedFacts DEF DataInv
        <4>2. CASE i # n + 1
          <5>1. i \in DOMAIN delivered /\ delivered'[i] = delivered[i]
            <6>1. i \in 1 .. n
              BY <4>2
            <6>2. DOMAIN delivered = 1 .. n
              BY <1>4, <2>5, LenProperties
            <6> QED BY <2>6, <6>1, <6>2
          <5>2. AllWhole
            BY DEF DataInv
          <5>3. Whole(delivered[i], From(i))
            BY <5>1, <5>2, WholeMessages
          <5> QED BY <5>1, <5>3
        <4> QED BY <4>1, <4>2
      <3>2. \A i \in DOMAIN delivered' : Whole(delivered[i], From(i))'
        BY <2>6, <2>7, <3>1 DEF Whole, DataFrames, Ascending
      <3> QED BY <3>2 DEF AllWhole, Whole, DataFrames
    <2>9. Handed' = c
      BY <2>3, <2>6 DEF Handed, Last
    <2>10. /\ Ascending(fragments') /\ ToSet(fragments') = DataFrames(c, c)
           /\ \A k \in ToSet(fragments') : frames[k].kind = "fragment"
      BY <1>6, <2>1 DEF Ascending, ToSet
    <2>11. c \in Nat /\ c <= c
      BY <1>4
    <2> QED BY <1>8, <1>9, <2>8, <2>9, <2>10, <2>11
  <1> QED BY <1>10, <1>11

\* Only a garbled reader takes other bytes for a frame, and each time is counted.
LEMMA MisreadsCount ==
    ASSUME TypeOK, [Next]_vars
    PROVE  \/ Misread /\ misreads' # 0
           \/ ~Misread /\ misreads' = misreads
  <1>1. CASE Misread
    <2>1. misreads \in Nat
      BY DEF TypeOK
    <2>2. misreads' = misreads + 1
      BY <1>1 DEF Misread
    <2>3. misreads' # 0
      BY <2>1, <2>2
    <2> QED BY <1>1, <2>3
  <1>2. CASE ~Misread
    BY <1>2 DEF Next, Read, ServerSends, Upgrade, ReadHeader, ReadLength, ReadContent, Fail, vars,
                placeVars
  <1> QED BY <1>1, <1>2

\* Every step keeps what was read whole, but for one that takes other bytes for a frame.
LEMMA DataStep == TypeOK /\ PosInv /\ ReadInv /\ RightInv /\ [Next]_vars => RightInv'
  <1> SUFFICES ASSUME TypeOK, PosInv, ReadInv, DataInv, [Next]_vars, ~Misread
               PROVE  DataInv'
    BY MisreadsCount DEF RightInv
  <1>0. current \in Nat
    BY LenProperties DEF TypeOK
  <1>1. CASE UNCHANGED <<fragments, delivered, pongs, pc, current>>
    <2>1. Active' = Active /\ Done' = Done
      BY <1>1 DEF Active, Done
    <2> QED BY <1>1, <2>1, DataKept
  <1>2. CASE UNCHANGED <<fragments, delivered, pongs>> /\ pc' \in {"lost", "garbled"}
    <2>1. ~Active'
      BY <1>2 DEF Active
    <2> QED BY <1>2, <2>1, DataKept
  <1>3. ASSUME NEW kind \in Kinds, NEW length \in Lengths, ServerSends(kind, length)
        PROVE  DataInv'
    BY <1>1, <1>3 DEF ServerSends, bufVars, outVars
  <1>4. ASSUME NEW extra \in 0 .. total, Upgrade(extra)
        PROVE  DataInv'
    <2>1. /\ UNCHANGED <<fragments, delivered, pongs, current>>
          /\ pc = "upgrade" /\ pc' = "header"
      BY <1>4 DEF Upgrade, outVars
    <2>2. Active /\ Done' = Done
      BY <2>1 DEF Active, Done
    <2> QED BY <2>1, <2>2, DataKept
  <1>5. CASE ReadHeader
    <2>1. UNCHANGED <<fragments, delivered, pongs>> /\ pc = "header"
      BY <1>5, HeaderFacts DEF ReadHeader
    <2>2. CASE current' = current + 1 /\ AfterHeader(current + 1)
      <3>1. CASE pc' \in {"length", "content"}
        <4>1. Active /\ Done' = Done
          BY <1>0, <2>1, <2>2, <3>1 DEF Active, Done
        <4> QED BY <2>1, <4>1, DataKept
      <3> QED BY <1>2, <2>1, <2>2, <3>1, AfterHeaderFacts
    <2>3. CASE Garbled
      BY <1>2, <2>1, <2>3 DEF Garbled
    <2> QED BY <1>1, <1>5, <2>1, <2>2, <2>3, HeaderFacts
  <1>6. CASE ReadLength
    <2>1. UNCHANGED <<fragments, delivered, pongs>> /\ pc = "length"
      BY <1>6 DEF ReadLength, outVars
    <2>2. CASE UNCHANGED current /\ StartContent(current)
      <3>1. CASE pc' = "content"
        <4>1. Active /\ Done' = Done
          BY <2>1, <2>2, <3>1 DEF Active, Done
        <4> QED BY <2>1, <4>1, DataKept
      <3> QED BY <1>2, <2>1, <2>2, <3>1 DEF StartContent, Lose
    <2>3. CASE Garbled
      BY <1>2, <2>1, <2>3 DEF Garbled
    <2> QED BY <1>6, <2>2, <2>3 DEF ReadLength
  <1>7. CASE ReadContent
    <2>1. UNCHANGED <<frames, total, current>>
      BY <1>7, ContentFacts
    <2>2. CASE OnClose
      BY <1>2, <2>2 DEF OnClose, Lose, outVars
    <2>3. CASE OnPing \/ OnPong \/ OnFragment \/ OnFinal
      BY <1>7, <2>1, <2>3, ContentStep
    <2>4. CASE Garbled
      BY <1>2, <2>4 DEF Garbled, outVars
    <2> QED BY <1>7, <2>2, <2>3, <2>4, ContentFacts
  <1>8. CASE Fail
    BY <1>2, <1>8 DEF Fail, Lose, outVars
  <1>9. CASE UNCHANGED vars
    BY <1>1, <1>9 DEF vars
  <1> QED
    BY <1>3, <1>4, <1>5, <1>6, <1>7, <1>8, <1>9 DEF Next, Read

----------------------------------------------------------------------------
(* The place in the stream *)

\* Where frames end, and how the streambuf and num_additional_bytes stand to one
\* another when the next read begins at the end of a frame that was received whole.
Boundary == {End(k) : k \in 0 .. Len(frames)}

Aligned(from) ==
    \/ additional = 0 /\ high = low
    \/ additional >= high - low /\ high \in Boundary /\ high >= from

PlaceInv ==
    /\ pc # "garbled"
    /\ pc = "header" => Aligned(low) /\ additional # 1
    /\ pc \in {"length", "content"} => Aligned(End(current))

\* Frames end at least two bytes apart, and where the last of several frames ends
\* the next one has ended.
LEMMA EndsApart ==
    ASSUME TypeOK, PosInv, NEW i \in 0 .. Len(frames), NEW x \in Boundary, x >= End(i)
    PROVE  \/ x = End(i)
           \/ x >= End(i) + 2 /\ i + 1 \in 0 .. Len(frames) /\ x >= End(i + 1)
  <1>1. PICK j \in 0 .. Len(frames) : x = End(j)
    BY DEF Boundary
  <1>2. Len(frames) \in Nat /\ End(i) \in Nat /\ End(j) \in Nat
    BY EndType, LenProperties DEF TypeOK
  <1>3. CASE j < i
    <2>1. End(j) + 2 <= End(i)
      BY <1>3 DEF PosInv
    <2> QED BY <1>1, <1>2, <2>1
  <1>4. CASE j > i
    <2>1. End(i) + 2 <= End(j)
      BY <1>4 DEF PosInv
    <2>2. i + 1 \in 0 .. Len(frames)
      BY <1>2, <1>4
    <2>3. CASE j = i + 1
      BY <1>1, <1>2, <2>1, <2>2, <2>3
    <2>4. CASE j # i + 1
      <3>1. i + 1 < j
        BY <1>4, <2>4
      <3>2. End(i + 1) + 2 <= End(j)
        BY <2>2, <3>1 DEF PosInv
      <3>3. End(i + 1) \in Nat
        BY <2>2, EndType
      <3> QED BY <1>1, <1>2, <2>1, <2>2, <3>2, <3>3
    <2> QED BY <2>3, <2>4
  <1> QED BY <1>1, <1>3, <1>4

\* Frames go on ending where they did.
LEMMA BoundaryKept ==
    ASSUME TypeOK, [Next]_vars
    PROVE  Boundary \subseteq Boundary'
  <1>1. /\ Len(frames) \in Nat /\ Len(frames') \in Nat /\ Len(frames) <= Len(frames')
        /\ \A k \in 0 .. Len(frames) : End(k)' = End(k)
    BY FramesKept
  <1> QED BY <1>1 DEF Boundary

\* A read within a frame that was received whole, or of which nothing was received
\* yet, gets what it asks for.
LEMMA AlignedRead ==
    ASSUME TypeOK, NEW n \in Nat, Arrived(n), NEW e \in Nat, Aligned(e), e >= low + n
    PROVE  /\ Size(n) >= n
           /\ \/ high + Missing(n) = low + n /\ AdditionalAfter(n) = 0 /\ high = low
              \/ /\ Missing(n) = 0 /\ AdditionalAfter(n) = high - low
                 /\ high \in Boundary /\ high >= e
  <1>1. /\ Missing(n) \in Nat
        /\ Missing(n) = IF additional > n THEN 0 ELSE n - additional
        /\ Size(n) = high - low + Missing(n)
        /\ AdditionalAfter(n) = high - low
    BY ReadAmounts
  <1>2. low \in Nat /\ high \in Nat /\ low <= high /\ additional \in Nat
    BY DEF TypeOK
  <1>3. CASE additional = 0 /\ high = low
    BY <1>1, <1>2, <1>3
  <1>4. CASE additional >= high - low /\ high \in Boundary /\ high >= e
    BY <1>1, <1>2, <1>4
  <1> QED BY <1>3, <1>4 DEF Aligned

\* Only the upgrade says whether the first bytes end inside a frame.
LEMMA UpgradeOnce ==
    ASSUME [Next]_vars
    PROVE  \/ UNCHANGED partial /\ (pc' = "upgrade" => pc = "upgrade")
           \/ /\ \E extra \in 0 .. total : Upgrade(extra)
              /\ pc = "upgrade" /\ pc' = "header"
  <1>1. ASSUME NEW k, AfterHeader(k)
        PROVE  pc' # "upgrade"
    BY <1>1, AfterHeaderFacts
  <1>2. ASSUME StartContent(current)
        PROVE  pc' # "upgrade"
    BY <1>2 DEF StartContent, Lose
  <1>3. CASE ReadHeader
    BY <1>1, <1>3 DEF ReadHeader, placeVars, Garbled
  <1>4. CASE ReadLength
    BY <1>2, <1>4 DEF ReadLength, placeVars, Garbled
  <1>5. CASE ReadContent
    BY <1>5 DEF ReadContent, placeVars, Garbled, OnClose, OnPing, OnPong, OnFragment,
                OnFinal, NextFrame, Lose
  <1>6. CASE Fail \/ Misread
    BY <1>6 DEF Fail, Misread, placeVars, Lose
  <1>7. CASE \E kind \in Kinds, length \in Lengths : ServerSends(kind, length)
    BY <1>7 DEF ServerSends, placeVars
  <1>8. CASE \E extra \in 0 .. total : Upgrade(extra)
    BY <1>8 DEF Upgrade
  <1> QED BY <1>3, <1>4, <1>5, <1>6, <1>7, <1>8 DEF Next, Read, vars

\* When the first bytes end between two frames and no content is one byte long, the
\* surplus is never one byte, and the reader does not mistake it.
LEMMA PlaceStep ==
    ASSUME ~partial', 1 \notin Lengths, TypeOK, PosInv, ReadInv, PlaceInv, [Next]_vars
    PROVE  PlaceInv'
  <1>1. /\ low \in Nat /\ high \in Nat /\ low <= high /\ high <= total
        /\ additional \in Nat /\ total \in Nat
        /\ Len(frames) \in Nat /\ DOMAIN frames = 1 .. Len(frames)
        /\ current \in 0 .. Len(frames)
    BY LenProperties DEF TypeOK
  <1>2. \A k \in 0 .. Len(frames) : End(k)' = End(k) /\ End(k) \in Nat
    BY FramesKept, EndType
  <1>3. Boundary \subseteq Boundary'
    BY BoundaryKept
  <1>4. CASE UNCHANGED <<pc, low, high, additional, current>>
    BY <1>1, <1>2, <1>3, <1>4 DEF PlaceInv, Aligned
  <1>5. CASE pc' = "lost"
    BY <1>5 DEF PlaceInv
  <1>6. ASSUME NEW kind \in Kinds, NEW length \in Lengths, ServerSends(kind, length)
        PROVE  PlaceInv'
    BY <1>4, <1>6 DEF ServerSends, bufVars
  <1>7. ASSUME NEW extra \in 0 .. total, Upgrade(extra)
        PROVE  PlaceInv'
    <2>1. /\ extra \in {total} \cup {frames[k].at : k \in DOMAIN frames}
          /\ high' = extra /\ additional' = extra /\ pc' = "header"
          /\ UNCHANGED <<frames, total, low, current>>
      BY <1>7 DEF Upgrade, streamVars
    <2>2. low = 0 /\ End(0) = 0
      BY <1>7 DEF Upgrade, ReadInv, End
    <2>3. extra \in Boundary
      <3>1. CASE extra = total
        BY <1>1, <3>1 DEF PosInv, Boundary
      <3>2. ASSUME NEW k \in DOMAIN frames, extra = frames[k].at
            PROVE  extra \in Boundary
        <4>1. k - 1 \in 0 .. Len(frames) - 1 /\ (k - 1) + 1 = k /\ k - 1 \in 0 .. Len(frames)
          BY <1>1
        <4>2. frames[(k - 1) + 1].at = End(k - 1)
          BY <4>1 DEF PosInv
        <4> QED BY <3>2, <4>1, <4>2 DEF Boundary
      <3> QED BY <2>1, <3>1, <3>2
    <2>4. extra = 0 \/ extra >= 2
      <3>1. extra >= End(0) /\ 0 \in 0 .. Len(frames)
        BY <1>1, <2>2
      <3> QED BY <2>2, <2>3, <3>1, EndsApart
    <2>5. extra \in Boundary' /\ extra >= low' /\ extra >= extra - low'
      BY <1>3, <2>1, <2>2, <2>3
    <2> QED BY <2>1, <2>4, <2>5 DEF PlaceInv, Aligned
  <1>8. CASE ReadHeader
    <2>1. /\ UNCHANGED <<frames, total>> /\ pc = "header" /\ Arrived(2)
          /\ low = End(current) /\ Aligned(low) /\ additional # 1
      BY <1>8, HeaderFacts DEF ReadHeader, ReadInv, PlaceInv
    <2>2. /\ Missing(2) = IF additional > 2 THEN 0 ELSE 2 - additional
          /\ Size(2) = high - low + Missing(2) /\ high + Missing(2) <= total
      BY <2>1, ReadAmounts
    <2>3. \/ additional = 0 /\ high = low /\ Missing(2) = 2
          \/ additional >= 2 /\ high = low /\ Missing(2) = 0
          \/ /\ additional >= 2 /\ Missing(2) = 0 /\ high >= low + 2
             /\ current + 1 \in 0 .. Len(frames) /\ high >= End(current + 1)
             /\ high \in Boundary
      <3>1. CASE additional = 0
        BY <1>1, <2>1, <2>2, <3>1 DEF Aligned
      <3>2. CASE additional >= 2
        <4>1. Missing(2) = 0 /\ high \in Boundary /\ high >= End(current)
          BY <1>1, <2>1, <2>2, <3>2 DEF Aligned
        <4>2. \/ high = End(current)
              \/ /\ high >= End(current) + 2
                 /\ current + 1 \in 0 .. Len(frames) /\ high >= End(current + 1)
          BY <1>1, <4>1, EndsApart
        <4> QED BY <2>1, <3>2, <4>1, <4>2
      <3> QED BY <1>1, <2>1, <3>1, <3>2
    <2>4. CASE /\ high = low /\ additional' = 0
               /\ UNCHANGED <<pc, low, high, current>>
      BY <2>1, <2>4 DEF PlaceInv, Aligned
    <2>5. CASE /\ current' = current + 1 /\ current + 1 \in DOMAIN frames
               /\ Size(2) >= 2
               /\ low' = low + 2 /\ high' = high + Missing(2) /\ additional' = high - low
               /\ AfterHeader(current + 1)
      <3>1. pc' \in {"lost", "length", "content"}
        BY <2>5, AfterHeaderFacts
      <3>2. Aligned(End(current))'
        <4>1. End(current)' = End(current + 1)
          <5>1. current + 1 \in 0 .. Len(frames)
            BY <1>1, <2>5
          <5>2. PICK c \in 0 .. Len(frames) : c = current + 1
            BY <5>1
          <5>3. End(c)' = End(c)
            BY <1>2
          <5>4. End(current)' = End(c)'
            BY <2>5, <5>2 DEF End
          <5> QED BY <5>2, <5>3, <5>4
        <4>2. CASE additional = 0 /\ high = low /\ Missing(2) = 2
          BY <1>1, <2>5, <4>2 DEF Aligned
        <4>3. CASE /\ Missing(2) = 0 /\ high >= End(current + 1) /\ high \in Boundary
          BY <1>1, <1>3, <2>5, <4>1, <4>3 DEF Aligned
        <4>4. ~(high = low /\ Missing(2) = 0)
          BY <1>1, <2>2, <2>5
        <4> QED BY <2>3, <4>2, <4>3, <4>4
      <3> QED BY <3>1, <3>2 DEF PlaceInv
    <2>6. CASE ~Rereads(2) /\ (Size(2) < 2 \/ low = total)
      <3>1. ~(Missing(2) = 0 /\ high = low)
        BY <1>1, <2>2, <2>6 DEF Rereads
      <3> QED BY <1>1, <2>2, <2>3, <2>6, <3>1
    <2> QED BY <1>8, <2>4, <2>5, <2>6, HeaderFacts
  <1>9. CASE ReadLength
    <2> DEFINE n == Extension(Frame.length)
    <2>1. /\ n \in Nat /\ Arrived(n) /\ Aligned(End(current)) /\ End(current) \in Nat
          /\ End(current) >= low + n
      <3>1. pc = "length" /\ Arrived(n)
        BY <1>9 DEF ReadLength
      <3>2. low = Frame.at + 2 /\ Aligned(End(current))
        BY <3>1 DEF ReadInv, PlaceInv, Frame
      <3>3. /\ Extension(Frame.length) \in Nat /\ Frame.length \in Nat /\ Frame.at \in Nat
            /\ End(current) = Frame.at + 2 + Extension(Frame.length) + Frame.length
        BY <3>1, FrameFacts
      <3> QED BY <3>1, <3>2, <3>3
    <2>2. PICK z \in Nat : z = n
      BY <2>1
    <2> HIDE DEF n
    <2>3. /\ Size(z) >= z
          /\ \/ high + Missing(z) = low + z /\ AdditionalAfter(z) = 0 /\ high = low
             \/ /\ Missing(z) = 0 /\ AdditionalAfter(z) = high - low
                /\ high \in Boundary /\ high >= End(current)
      BY <2>1, <2>2, AlignedRead
    <2>4. /\ low' = low + z /\ high' = high + Missing(z) /\ additional' = AdditionalAfter(z)
          /\ StartContent(current) /\ UNCHANGED <<frames, current>>
      BY <1>9, <2>2, <2>3 DEF ReadLength, n, streamVars
    <2>5. pc' \in {"lost", "content"}
      BY <2>4 DEF StartContent, Lose
    <2>6. End(current)' = End(current)
      BY <2>4 DEF End
    <2>7. \/ additional' = 0 /\ high' = low'
          \/ additional' >= high' - low' /\ high' \in Boundary' /\ high' >= End(current)
      <3>1. CASE high + Missing(z) = low + z /\ AdditionalAfter(z) = 0
        BY <2>4, <3>1
      <3>2. CASE /\ Missing(z) = 0 /\ AdditionalAfter(z) = high - low
                 /\ high \in Boundary /\ high >= End(current)
        <4>1. high' = high /\ additional' >= high' - low'
          BY <1>1, <2>4, <3>2
        <4> QED BY <1>3, <3>2, <4>1
      <3> QED BY <2>3, <3>1, <3>2
    <2>8. Aligned(End(current))'
      BY <2>6, <2>7 DEF Aligned
    <2> QED BY <2>5, <2>8 DEF PlaceInv
  <1>10. CASE ReadContent
    <2> DEFINE n == Frame.length
    <2>1. /\ n \in Nat /\ n # 1 /\ Arrived(n) /\ Aligned(End(current)) /\ End(current) \in Nat
          /\ End(current) = low + n
      <3>1. pc = "content" /\ Arrived(n)
        BY <1>10 DEF ReadContent
      <3>2. Frame \in Frames /\ Frame.length \in Lengths
        BY <3>1, FrameFacts DEF Frames
      <3>3. /\ low = Frame.at + 2 + Extension(Frame.length) /\ Aligned(End(current))
        BY <3>1 DEF ReadInv, PlaceInv, Frame
      <3> QED BY <1>1, <1>2, <3>1, <3>2, <3>3, FrameFacts
    <2>2. PICK z \in Nat : z = n
      BY <2>1
    <2> HIDE DEF n
    <2>3. /\ Size(z) >= z
          /\ \/ high + Missing(z) = low + z /\ AdditionalAfter(z) = 0 /\ high = low
             \/ /\ Missing(z) = 0 /\ AdditionalAfter(z) = high - low
                /\ high \in Boundary /\ high >= End(current)
      BY <1>1, <2>1, <2>2, AlignedRead
    <2>4. /\ UNCHANGED <<frames, total, current>>
          /\ low' = End(current) /\ high' = high + Missing(z) /\ additional' = high - low
          /\ OnClose \/ OnPing \/ OnPong \/ OnFragment \/ OnFinal
      <3>1. n = Frame.length /\ n \in Nat /\ Size(n) >= n
        BY <2>1, <2>2, <2>3 DEF n
      <3>2. Size(n) \in Int
        BY <1>1, <2>1, ReadAmounts
      <3> QED BY <1>10, <2>2, <3>1, <3>2, ContentFacts
    <2>5. pc' \in {"header", "lost"}
      BY <2>4 DEF OnClose, OnPing, OnPong, OnFragment, OnFinal, NextFrame, Lose
    <2>6. CASE high + Missing(z) = low + z /\ high = low
      BY <1>1, <2>1, <2>2, <2>4, <2>5, <2>6 DEF PlaceInv, Aligned
    <2>7. CASE Missing(z) = 0 /\ high \in Boundary /\ high >= End(current)
      <3>1. high = End(current) \/ high >= End(current) + 2
        BY <1>1, <2>7, EndsApart
      <3>2. additional' = (high - End(current)) + z /\ additional' # 1
        BY <1>1, <2>1, <2>2, <2>4, <3>1
      <3>3. Aligned(low)'
        BY <1>1, <1>3, <2>1, <2>4, <2>7, <3>2 DEF Aligned
      <3> QED BY <2>5, <3>2, <3>3 DEF PlaceInv
    <2> QED BY <2>3, <2>6, <2>7
  <1>11. CASE Fail
    BY <1>5, <1>11 DEF Fail, Lose
  <1>12. ~Misread
    BY DEF Misread, PlaceInv
  <1> QED
    BY <1>4, <1>6, <1>7, <1>8, <1>9, <1>10, <1>11, <1>12 DEF Next, Read, vars

----------------------------------------------------------------------------
(* The theorems *)

LEMMA SpecIInv == Spec => []IInv
  <1>1. IInv /\ [Next]_vars => IInv'
    BY TypeStep, PosStep, ReadStep, DataStep DEF IInv
  <1> QED BY InitInv, <1>1, PTL DEF Spec

\* The fields and histories keep their types, and the streambuf stays within what
\* the server sent: what is consumed was received, whatever num_additional_bytes is.
THEOREM TypeCorrect == Spec => []TypeOK
  <1>1. IInv => TypeOK
    BY DEF IInv
  <1> QED BY SpecIInv, <1>1, PTL

\* Until the reader takes other bytes for a frame, what it has handed out and what it
\* has answered is all right.
LEMMA RightFacts ==
    ASSUME IInv, misreads = 0
    PROVE  AllWhole /\ AllAnswered
  <1>0. DataInv
    BY DEF IInv, RightInv
  <1>1. AllWhole /\ PongsAnswered
    BY <1>0 DEF DataInv
  <1>2. ASSUME pc = "header", NEW k \in DOMAIN frames,
               frames[k].kind = "ping", frames[k].at < low
        PROVE  k \in ToSet(pongs)
    <2>1. /\ low = End(current) /\ ToSet(pongs) = Pings(current)
          /\ current \in 0 .. Len(frames)
      BY <1>0, <1>2 DEF IInv, ReadInv, DataInv, TypeOK, Active, Done
    <2>2. /\ k \in 1 .. Len(frames) /\ k - 1 \in 0 .. Len(frames) - 1
          /\ (k - 1) + 1 = k /\ k - 1 \in 0 .. Len(frames) /\ Len(frames) \in Nat
      <3>1. Len(frames) \in Nat /\ DOMAIN frames = 1 .. Len(frames)
        BY LenProperties DEF IInv, TypeOK
      <3> QED BY <1>2, <3>1
    <2>3. End(k - 1) < End(current)
      <3>1. frames[(k - 1) + 1].at = End(k - 1)
        BY <2>2 DEF IInv, PosInv
      <3> QED BY <1>2, <2>1, <2>2, <3>1
    <2>4. ~(current < k - 1)
      <3>1. ASSUME current < k - 1
            PROVE  FALSE
        <4>1. End(current) + 2 <= End(k - 1)
          BY <2>1, <2>2, <3>1 DEF IInv, PosInv
        <4>2. End(current) \in Nat /\ End(k - 1) \in Nat
          BY <2>1, <2>2, EndType DEF IInv
        <4> QED BY <2>3, <4>1, <4>2
      <3> QED BY <3>1
    <2>5. current # k - 1
      <3>1. End(k - 1) \in Nat
        BY <2>2, EndType DEF IInv
      <3> QED BY <2>3, <3>1
    <2>6. k \in 1 .. current
      BY <2>1, <2>2, <2>4, <2>5
    <2> QED BY <1>2, <2>1, <2>6 DEF Pings
  <1> QED BY <1>1, <1>2 DEF PongsAnswered, AllAnswered

\* Until it takes other bytes for a frame the reader hands out messages that are whole,
\* in order and once: for any frames, with control frames between the fragments, and
\* wherever the first bytes end.
THEOREM WholeCorrect == Spec => []MessagesWhole
  <1>1. IInv => MessagesWhole
    BY RightFacts DEF MessagesWhole
  <1> QED BY SpecIInv, <1>1, PTL

\* Until then pings are answered once, in order, and none is left out.
THEOREM PongsCorrect == Spec => []PongsInOrder
  <1>1. IInv => PongsInOrder
    BY RightFacts DEF PongsInOrder
  <1> QED BY SpecIInv, <1>1, PTL

\* Whether the first bytes end inside a frame shows at the upgrade; a reader for which
\* they do not has its place and never lost it.
Placed ==
    /\ pc = "upgrade" => ~partial
    /\ ~partial => PlaceInv /\ misreads = 0

\* The two conditions that the code's arithmetic with num_additional_bytes needs and
\* does not check: the bytes that come with the upgrade response are whole frames, and
\* no content is one byte long.  Then the reader never takes other bytes for a frame.
LEMMA SpecPlace ==
    ASSUME 1 \notin Lengths
    PROVE  Spec => []Placed
  <1>1. Init => Placed
    BY DEF Init, PlaceInv, Placed
  <1>2. IInv /\ Placed /\ [Next]_vars => Placed'
    <2> SUFFICES ASSUME IInv, Placed, [Next]_vars
                 PROVE  Placed'
      OBVIOUS
    <2>1. pc' = "upgrade" => ~partial'
      BY UpgradeOnce DEF Placed
    <2>2. ASSUME ~partial'
          PROVE  PlaceInv' /\ misreads' = 0
      <3>1. ~partial
        BY <2>2, UpgradeOnce DEF Placed
      <3>2. PlaceInv'
        BY <2>2, <3>1, PlaceStep DEF IInv, Placed
      <3>3. misreads' = misreads
        BY <3>1, MisreadsCount DEF IInv, Placed, PlaceInv, Misread
      <3> QED BY <3>1, <3>2, <3>3 DEF Placed
    <2> QED BY <2>1, <2>2 DEF Placed
  <1> QED BY SpecIInv, <1>1, <1>2, PTL DEF Spec

\* When no content is one byte long, a reader whose first bytes end between two frames
\* never loses its place.
THEOREM PlaceCorrect ==
    ASSUME 1 \notin Lengths
    PROVE  Spec => []PlaceKept
  <1>1. Placed => PlaceKept
    BY DEF Placed, PlaceInv, PlaceKept
  <1> QED BY SpecPlace, <1>1, PTL

----------------------------------------------------------------------------
(* Reads that wait *)

\* num_additional_bytes never says less than the streambuf holds.
SurplusInv == additional >= high - low

\* Each read takes out no more than it asked for beyond the surplus it counted on.
LEMMA SurplusStep == TypeOK /\ PosInv /\ ReadInv /\ SurplusInv /\ [Next]_vars => SurplusInv'
  <1> SUFFICES ASSUME TypeOK, PosInv, ReadInv, SurplusInv, [Next]_vars
               PROVE  SurplusInv'
    OBVIOUS
  <1>0. low \in Nat /\ high \in Nat /\ low <= high /\ additional \in Nat /\ total \in Nat
    BY DEF TypeOK
  <1>1. CASE UNCHANGED bufVars
    BY <1>1 DEF SurplusInv, bufVars
  <1>2. ASSUME NEW n \in Nat, Arrived(n), additional' = high - low, high' = high + Missing(n),
               low' = low + n \/ low' = high'
        PROVE  SurplusInv'
    <2>1. Missing(n) \in Nat /\ Missing(n) <= n
      BY <1>0 DEF Missing
    <2>2. high' - low' <= high - low
      BY <1>0, <1>2, <2>1
    <2> QED BY <1>2, <2>2 DEF SurplusInv
  <1>3. ASSUME NEW extra \in 0 .. total, Upgrade(extra)
        PROVE  SurplusInv'
    <2>1. low' = 0 /\ high' = extra /\ additional' = extra
      BY <1>3 DEF Upgrade, ReadInv, End
    <2> QED BY <1>0, <2>1 DEF SurplusInv
  <1>4. CASE ReadHeader
    <2>1. Arrived(2)
      BY <1>4 DEF ReadHeader
    <2>2. CASE high = low /\ additional' = 0 /\ UNCHANGED <<low, high>>
      BY <1>0, <2>2 DEF SurplusInv
    <2>3. CASE low' = low + 2 /\ high' = high + Missing(2) /\ additional' = high - low
      BY <1>2, <2>1, <2>3
    <2>4. CASE Garbled
      BY <1>1, <2>4 DEF Garbled
    <2> QED BY <1>4, <2>2, <2>3, <2>4, HeaderFacts
  <1>5. CASE ReadLength
    <2> DEFINE n == Extension(Frame.length)
    <2>1. n \in Nat /\ Arrived(n)
      BY <1>5, FrameFacts DEF ReadLength
    <2> HIDE DEF n
    <2>2. CASE low' = low + n /\ high' = high + Missing(n) /\ additional' = AdditionalAfter(n)
      <3>1. AdditionalAfter(n) = high - low
        BY <2>1, ReadAmounts
      <3> QED BY <1>2, <2>1, <2>2, <3>1
    <2>3. CASE Garbled
      BY <1>1, <2>3 DEF Garbled
    <2> QED BY <1>5, <2>2, <2>3 DEF ReadLength, n
  <1>6. CASE ReadContent
    <2> DEFINE n == Frame.length
    <2>1. n \in Nat /\ Arrived(n)
      BY <1>6, FrameFacts DEF ReadContent
    <2> HIDE DEF n
    <2>2. CASE /\ low' = IF AdditionalAfter(n) > 0 THEN low + n ELSE high + Missing(n)
               /\ high' = high + Missing(n) /\ additional' = AdditionalAfter(n)
      <3>1. AdditionalAfter(n) = high - low
        BY <2>1, ReadAmounts
      <3>2. low' = low + n \/ low' = high'
        BY <2>2
      <3> QED BY <1>2, <2>1, <2>2, <3>1, <3>2
    <2>3. CASE Garbled
      BY <1>1, <2>3 DEF Garbled
    <2> QED BY <1>6, <2>2, <2>3 DEF ReadContent, n
  <1>7. CASE Fail \/ Misread \/ UNCHANGED vars
    BY <1>1, <1>7 DEF Fail, Misread, vars, bufVars
  <1>8. ASSUME NEW kind \in Kinds, NEW length \in Lengths, ServerSends(kind, length)
        PROVE  SurplusInv'
    BY <1>1, <1>8 DEF ServerSends
  <1> QED
    BY <1>3, <1>4, <1>5, <1>6, <1>7, <1>8 DEF Next, Read

\* No frame ends behind what was sent.
LEMMA EndWithinTotal ==
    ASSUME TypeOK, PosInv, NEW k \in 0 .. Len(frames)
    PROVE  End(k) \in Nat /\ End(k) <= total
  <1>0. Len(frames) \in Nat /\ total = End(Len(frames)) /\ total \in Nat
    BY LenProperties DEF PosInv, TypeOK
  <1>1. End(k) \in Nat
    BY EndType
  <1>2. CASE k = Len(frames)
    BY <1>0, <1>1, <1>2
  <1>3. CASE k # Len(frames)
    <2>1. k < Len(frames) /\ Len(frames) \in 0 .. Len(frames)
      BY <1>0, <1>3
    <2>2. End(k) + 2 <= End(Len(frames))
      BY <2>1 DEF PosInv
    <2> QED BY <1>0, <1>1, <2>2
  <1> QED BY <1>2, <1>3

\* A read whose bytes were sent does not wait for more than they are.
LEMMA NoWait ==
    ASSUME TypeOK, SurplusInv, NEW n \in Nat, low + n <= total,
           pc \in {"header", "length", "content"}
    PROVE  Arrived(n)
  <1>0. /\ low \in Nat /\ high \in Nat /\ low <= high /\ high <= total
        /\ additional \in Nat /\ total \in Nat /\ additional >= high - low
    BY DEF TypeOK, SurplusInv
  <1>1. CASE additional > n
    BY <1>0, <1>1 DEF Arrived, Missing
  <1>2. CASE ~(additional > n)
    <2>1. Missing(n) = n - additional
      BY <1>2 DEF Missing
    <2>2. high + (n - additional) <= low + n
      BY <1>0
    <2>3. total >= high + Missing(n)
      BY <1>0, <2>1, <2>2
    <2> QED BY <2>3 DEF Arrived
  <1> QED BY <1>1, <1>2

\* The parts of a frame that ends in time end in time.
LEMMA PartsWithin ==
    ASSUME NEW start \in Nat, NEW extension \in Nat, NEW size \in Nat, NEW end \in Nat,
           start + 2 + extension + size <= end
    PROVE  (start + 2) + extension <= end /\ (start + 2 + extension) + size <= end
  OBVIOUS

\* A reader never waits for bytes it has or was sent while it has its place, and it
\* keeps the place when the first bytes end between frames and no content is one byte
\* long: whatever the reads before it left in the streambuf, a read's bytes are those
\* of a frame that was sent.
THEOREM StarvesCorrect ==
    ASSUME 1 \notin Lengths
    PROVE  Spec => [](NeverStarves /\ PlaceKept)
  <1>1. Init => SurplusInv
    BY DEF Init, SurplusInv
  <1>2. IInv /\ SurplusInv /\ [Next]_vars => SurplusInv'
    BY SurplusStep DEF IInv
  <1>3. IInv /\ SurplusInv => NeverStarves
    <2> SUFFICES ASSUME TypeOK, PosInv, ReadInv, SurplusInv
                 PROVE  NeverStarves
      BY DEF IInv
    <2>0. /\ Len(frames) \in Nat /\ current \in 0 .. Len(frames) /\ total \in Nat
          /\ low \in Nat
      BY LenProperties DEF TypeOK
    <2>1. ASSUME pc = "header", current < Len(frames)
          PROVE  Arrived(2)
      <3>1. current + 1 \in 0 .. Len(frames) /\ current < current + 1
        BY <2>0, <2>1
      <3>2. End(current) + 2 <= End(current + 1)
        BY <2>0, <3>1 DEF PosInv
      <3>3. End(current + 1) \in Nat /\ End(current + 1) <= total
        BY <3>1, EndWithinTotal
      <3>4. low = End(current)
        BY <2>1 DEF ReadInv
      <3>5. low + 2 <= total
        BY <2>0, <3>2, <3>3, <3>4
      <3> QED BY <2>1, <3>5, NoWait
    <2>2. ASSUME pc \in {"length", "content"}
          PROVE  /\ Frame.length \in Nat /\ Extension(Frame.length) \in Nat /\ Frame.at \in Nat
                 /\ Frame.at + 2 + Extension(Frame.length) + Frame.length <= total
      <3>1. End(current) <= total
        BY <2>0, EndWithinTotal
      <3> QED BY <2>2, <3>1, FrameFacts
    <2>3. ASSUME pc = "length"
          PROVE  Arrived(Extension(Frame.length))
      <3>1. low = Frame.at + 2
        BY <2>3 DEF ReadInv, Frame
      <3> DEFINE n == Frame.length
      <3>2. /\ n \in Nat /\ Extension(n) \in Nat /\ Frame.at \in Nat
            /\ Frame.at + 2 + Extension(n) + n <= total
        BY <2>2, <2>3
      <3> HIDE DEF n
      <3>3. (Frame.at + 2) + Extension(n) <= total
        BY <2>0, <3>2, PartsWithin
      <3>4. low + Extension(n) <= total
        BY <3>1, <3>3
      <3>5. Arrived(Extension(n))
        BY <2>3, <3>2, <3>4, NoWait
      <3> QED BY <3>5 DEF n
    <2>4. ASSUME pc = "content"
          PROVE  Arrived(Frame.length)
      <3>1. low = Frame.at + 2 + Extension(Frame.length)
        BY <2>4 DEF ReadInv, Frame
      <3>2. Frame.length \in Nat /\ low + Frame.length <= total
        <4>1. (Frame.at + 2 + Extension(Frame.length)) + Frame.length <= total
          BY <2>0, <2>2, <2>4, PartsWithin
        <4> QED BY <2>2, <2>4, <3>1, <4>1
      <3> QED BY <2>4, <3>2, NoWait
    <2> QED BY <2>1, <2>3, <2>4 DEF NeverStarves
  <1> QED BY <1>1, <1>2, <1>3, SpecIInv, PlaceCorrect, PTL DEF Spec

----------------------------------------------------------------------------
(* Refinement *)

KindsOf(s) == [k \in DOMAIN s |-> s[k].kind]

\* The kinds of some frames are a sequence, as long as that of the frames.
LEMMA KindsFacts ==
    ASSUME NEW s \in Seq(Frames)
    PROVE  /\ KindsOf(s) \in Seq(Kinds) /\ Len(KindsOf(s)) = Len(s)
           /\ \A k \in 1 .. Len(s) : KindsOf(s)[k] = s[k].kind
  <1>0. Len(s) \in Nat /\ DOMAIN s = 1 .. Len(s)
    BY LenProperties
  <1>1. \A k \in 1 .. Len(s) : s[k].kind \in Kinds
    <2> TAKE k \in 1 .. Len(s)
    <2>1. s[k] \in Frames
      BY <1>0, ElementOfSeq
    <2> QED BY <2>1 DEF Frames
  <1>2. KindsOf(s) \in [1 .. Len(s) -> Kinds]
    BY <1>0, <1>1 DEF KindsOf
  <1>3. KindsOf(s) \in Seq(Kinds)
    BY <1>0, <1>2, FunctionIsSeq
  <1>4. Len(KindsOf(s)) = Len(s)
    BY <1>0, <1>2, <1>3, LenProperties
  <1> QED BY <1>0, <1>3, <1>4 DEF KindsOf

\* A frame sent is one more kind.
LEMMA SendsIsSent ==
    ASSUME TypeOK, NEW kind \in Kinds, NEW length \in Lengths, ServerSends(kind, length)
    PROVE  Reader!Sent(kind)
  <1> DEFINE f == [kind |-> kind, length |-> length, at |-> total]
             n == Len(frames)
             before == KindsOf(frames)
             after == KindsOf(Append(frames, f))
  <1>1. frames \in Seq(Frames) /\ f \in Frames /\ frames' = Append(frames, f) /\ f.kind = kind
    BY DEF ServerSends, TypeOK, Frames
  <1> HIDE DEF f
  <1>2. /\ n \in Nat /\ Append(frames, f) \in Seq(Frames) /\ Len(Append(frames, f)) = n + 1
        /\ Append(frames, f)[n + 1] = f
        /\ \A k \in 1 .. n : Append(frames, f)[k] = frames[k]
    BY <1>1, AppendProperties, LenProperties
  <1>3. /\ before \in Seq(Kinds) /\ Len(before) = n
        /\ \A k \in 1 .. n : before[k] = frames[k].kind
    BY <1>1, KindsFacts
  <1>4. /\ after \in Seq(Kinds) /\ Len(after) = n + 1
        /\ \A k \in 1 .. n + 1 : after[k] = Append(frames, f)[k].kind
    BY <1>2, KindsFacts
  <1> HIDE DEF n, before, after
  <1>5. /\ Append(before, kind) \in Seq(Kinds) /\ Len(Append(before, kind)) = n + 1
        /\ Append(before, kind)[n + 1] = kind
        /\ \A k \in 1 .. n : Append(before, kind)[k] = before[k]
    BY <1>3, AppendProperties
  <1>6. \A k \in 1 .. n + 1 : after[k] = Append(before, kind)[k]
    <2> TAKE k \in 1 .. n + 1
    <2>1. CASE k = n + 1
      BY <1>1, <1>2, <1>4, <1>5, <2>1
    <2>2. CASE k # n + 1
      <3>1. k \in 1 .. n
        BY <1>2, <2>2
      <3> QED BY <1>2, <1>3, <1>4, <1>5, <3>1
    <2> QED BY <2>1, <2>2
  <1>7. after = Append(before, kind)
    BY <1>4, <1>5, <1>6, SeqEqual
  <1>8. KindsOf(frames') = Append(KindsOf(frames), kind)
    BY <1>1, <1>7 DEF before, after
  <1>9. UNCHANGED <<pc, current, fragments, delivered, pongs, partial>>
    BY DEF ServerSends, bufVars, outVars, placeVars
  <1> QED BY <1>8, <1>9 DEF Reader!Sent, KindsOf

\* A step that sends, hands out and finishes nothing leaves the reader's promise alone.
LEMMA ReaderStutters ==
    ASSUME UNCHANGED <<frames, fragments, delivered, pongs, partial>>, Done' = Done,
           Active' = Active, pc # "garbled", pc' # "garbled"
    PROVE  UNCHANGED Reader!frVars
  BY DEF Reader!frVars, Done, Active

\* What ends the reading, at most one frame is finished by it.
LEMMA ReaderEnds ==
    ASSUME UNCHANGED <<frames, fragments, delivered, pongs, partial>>, pc' = "lost", Active,
           current' \in {Done, Done + 1}
    PROVE  Reader!Lost
  <1>1. Active' = FALSE /\ Done' = current' /\ Active = TRUE
    BY DEF Active, Done
  <1> QED BY <1>1 DEF Reader!Lost, Done, Active

\* A content that was read takes its frame.
LEMMA ContentTakes ==
    ASSUME TypeOK, ReadInv, pc = "content", pc' = "header",
           UNCHANGED <<frames, current, partial>>
    PROVE  /\ Reader!Takes(Frame.kind)
           /\ Done + 1 = current
  <1>1. current \in 1 .. Len(frames) /\ Frame = frames[current] /\ Len(frames) \in Nat
    BY FrameFacts, LenProperties DEF TypeOK
  <1>2. Done = current - 1 /\ Done' = current /\ Active /\ Active'
    BY DEF Done, Active
  <1>3. Done + 1 = current /\ Done' = Done + 1 /\ Done < Len(frames)
    BY <1>1, <1>2
  <1>4. KindsOf(frames') = KindsOf(frames)
    OBVIOUS
  <1>5. Len(KindsOf(frames)) = Len(frames) /\ KindsOf(frames)[Done + 1] = Frame.kind
    <2>1. frames \in Seq(Frames)
      BY DEF TypeOK, Frames
    <2> QED BY <1>1, <1>3, <2>1, KindsFacts
  <1>6. Done < Len(KindsOf(frames))
    BY <1>3, <1>5
  <1>7. Active' = Active
    BY <1>2 DEF Active
  <1> QED BY <1>2, <1>3, <1>4, <1>5, <1>6, <1>7 DEF Reader!Takes, KindsOf, Done, Active

\* A step of a reader that is bound to its promise and stays so keeps the promise:
\* every read of a header or of a longer length leaves no trace, or ends the reading;
\* every content read has the effect of its frame.
LEMMA BoundStep ==
    ASSUME IInv, [Next]_vars, UNCHANGED partial, pc # "garbled", pc' # "garbled"
    PROVE  Reader!Next \/ UNCHANGED Reader!frVars
  <1>0. TypeOK /\ PosInv /\ ReadInv /\ current \in Nat
    BY LenProperties DEF IInv, TypeOK
  <1>1. ASSUME NEW kind \in Kinds, NEW length \in Lengths, ServerSends(kind, length)
        PROVE  Reader!Next
    BY <1>0, <1>1, SendsIsSent DEF Reader!Next
  <1>2. ASSUME NEW extra \in 0 .. total, Upgrade(extra)
        PROVE  UNCHANGED Reader!frVars
    <2>1. /\ UNCHANGED <<frames, fragments, delivered, pongs, current>>
          /\ pc = "upgrade" /\ pc' = "header"
      BY <1>2 DEF Upgrade, streamVars, outVars
    <2>2. Done' = Done /\ Active' = Active
      BY <2>1 DEF Done, Active
    <2> QED BY <2>1, <2>2, ReaderStutters
  <1>3. CASE ReadHeader
    <2>1. UNCHANGED <<frames, fragments, delivered, pongs>> /\ pc = "header"
      BY <1>0, <1>3, HeaderFacts DEF ReadHeader
    <2>2. Active /\ Done = current
      BY <2>1 DEF Active, Done
    <2>3. CASE UNCHANGED <<pc, current>>
      <3>1. Done' = Done /\ Active' = Active
        BY <2>3 DEF Done, Active
      <3> QED BY <2>1, <3>1, ReaderStutters
    <2>4. CASE current' = current + 1 /\ AfterHeader(current + 1)
      <3>1. CASE pc' \in {"length", "content"}
        <4>1. Done' = Done
          BY <1>0, <2>2, <2>4, <3>1 DEF Done
        <4>2. Active' = Active
          BY <2>1, <3>1 DEF Active
        <4> QED BY <2>1, <4>1, <4>2, ReaderStutters
      <3>2. CASE pc' = "lost"
        BY <2>1, <2>2, <2>4, <3>2, ReaderEnds DEF Reader!Next
      <3> QED BY <2>4, <3>1, <3>2, AfterHeaderFacts
    <2> QED BY <1>0, <1>3, <2>3, <2>4, HeaderFacts DEF Garbled
  <1>4. CASE ReadLength
    <2>1. UNCHANGED <<frames, fragments, delivered, pongs, current>> /\ pc = "length"
      BY <1>4 DEF ReadLength, streamVars, outVars, Garbled, bufVars
    <2>2. Active /\ Done + 1 = current
      BY <1>0, <2>1 DEF Active, Done
    <2>3. CASE StartContent(current)
      <3>1. CASE pc' = "content"
        <4>1. Done' = Done /\ Active' = Active
          BY <2>1, <3>1 DEF Done, Active
        <4> QED BY <2>1, <4>1, ReaderStutters
      <3>2. CASE pc' = "lost"
        BY <2>1, <2>2, <3>2, ReaderEnds DEF Reader!Next
      <3> QED BY <2>3, <3>1, <3>2 DEF StartContent, Lose
    <2> QED BY <1>4, <2>3 DEF ReadLength, Garbled
  <1>5. CASE ReadContent
    <2>1. UNCHANGED <<frames, current>> /\ pc = "content"
      BY <1>0, <1>5, ContentFacts DEF ReadContent
    <2>2. Active /\ Done + 1 = current
      BY <1>0, <2>1 DEF Active, Done
    <2>3. ASSUME pc' = "header"
          PROVE  Reader!Takes(Frame.kind)
      BY <1>0, <2>1, <2>3, ContentTakes
    <2>4. CASE OnClose
      <3>1. pc' = "lost" /\ UNCHANGED <<fragments, delivered, pongs>>
        BY <2>4 DEF OnClose, Lose, outVars
      <3> QED BY <2>1, <2>2, <3>1, ReaderEnds DEF Reader!Next
    <2>5. CASE OnPing
      <3>1. /\ Frame.kind = "ping" /\ pc' = "header" /\ pongs' = pongs \o <<current>>
            /\ UNCHANGED <<fragments, delivered>>
        BY <2>5 DEF OnPing, NextFrame, Pong
      <3>2. pongs' = Append(pongs, Done + 1)
        <4>1. pongs \in Seq(Taken) /\ current \in Taken
          <5>1. current \in 1 .. Len(frames) /\ Len(frames) <= MaxFrames
            BY <1>0, <2>1, FrameFacts DEF PosInv
          <5>2. Len(frames) \in Nat
            BY <1>0, LenProperties DEF TypeOK
          <5> QED BY <1>0, <5>1, <5>2 DEF TypeOK, Taken, Indices
        <4>2. Append(pongs, current) = pongs \o <<current>>
          BY <4>1, AppendIsConcat
        <4> QED BY <2>2, <3>1, <4>2
      <3>3. Reader!Ping
        BY <2>3, <3>1, <3>2 DEF Reader!Ping, Done
      <3> QED BY <3>3 DEF Reader!Next
    <2>6. CASE OnPong
      <3>1. Frame.kind = "pong" /\ pc' = "header" /\ UNCHANGED <<fragments, delivered, pongs>>
        BY <2>6 DEF OnPong, NextFrame, outVars
      <3>2. Reader!Pong
        BY <2>3, <3>1 DEF Reader!Pong
      <3> QED BY <3>2 DEF Reader!Next
    <2>7. CASE OnFragment
      <3>1. /\ Frame.kind = "fragment" /\ pc' = "header"
            /\ fragments' = Append(fragments, Done + 1)
            /\ UNCHANGED <<delivered, pongs>>
        BY <2>2, <2>7 DEF OnFragment, NextFrame
      <3>2. Reader!Fragment
        BY <2>3, <3>1 DEF Reader!Fragment, Done
      <3> QED BY <3>2 DEF Reader!Next
    <2>8. CASE OnFinal
      <3>1. /\ Frame.kind = "final" /\ pc' = "header"
            /\ delivered' = Append(delivered, Append(fragments, Done + 1))
            /\ fragments' = <<>> /\ UNCHANGED pongs
        BY <2>2, <2>8 DEF OnFinal, NextFrame, ResetFragments
      <3>2. Reader!Final
        BY <2>3, <3>1 DEF Reader!Final, Done
      <3> QED BY <3>2 DEF Reader!Next
    <2> QED BY <1>0, <1>5, <2>4, <2>5, <2>6, <2>7, <2>8, ContentFacts DEF Garbled
  <1>6. CASE Fail
    <2>1. /\ UNCHANGED <<frames, fragments, delivered, pongs, current>> /\ Active /\ pc' = "lost"
      BY <1>6 DEF Fail, Lose, streamVars, bufVars, outVars, Active
    <2>2. current \in {Done, Done + 1}
      BY <1>0 DEF Done
    <2> QED BY <2>1, <2>2, ReaderEnds DEF Reader!Next
  <1>7. CASE UNCHANGED vars
    <2>1. UNCHANGED <<frames, fragments, delivered, pongs>> /\ Done' = Done /\ Active' = Active
      BY <1>7 DEF vars, Done, Active
    <2> QED BY <2>1, ReaderStutters
  <1> QED BY <1>1, <1>2, <1>3, <1>4, <1>5, <1>6, <1>7 DEF Next, Read, Misread

\* However the stream's bytes come, the reader takes the frames one after another when
\* no content is one byte long; it is released from this only at the upgrade, before it
\* took any, by first bytes that end inside a frame.
THEOREM Refinement ==
    ASSUME 1 \notin Lengths
    PROVE  Spec => ImplementsFrameReader
  <1>1. Init => Reader!Init
    <2> SUFFICES ASSUME Init PROVE Reader!Init
      OBVIOUS
    <2>1. [k \in DOMAIN frames |-> frames[k].kind] = <<>>
      BY DEF Init
    <2> QED BY <2>1 DEF Init, Reader!Init
  <1>2. IInv /\ Placed /\ Placed' /\ [Next]_vars => [Reader!Next]_(Reader!frVars)
    <2> SUFFICES ASSUME IInv, Placed, Placed', [Next]_vars
                 PROVE  Reader!Next \/ UNCHANGED Reader!frVars
      OBVIOUS
    <2>0. partial \in BOOLEAN /\ (partial => partial')
      BY UpgradeOnce DEF IInv, TypeOK, Placed
    <2>1. CASE ~partial /\ ~partial'
      <3>1. partial \in BOOLEAN /\ partial' \in BOOLEAN
        BY TypeStep DEF IInv, TypeOK
      <3>2. pc # "garbled" /\ pc' # "garbled"
        BY <2>1 DEF Placed, PlaceInv
      <3> QED BY <2>1, <3>1, <3>2, BoundStep
    <2>2. CASE ~partial /\ partial'
      <3>1. PICK extra \in 0 .. total : Upgrade(extra)
        BY <2>2, UpgradeOnce
      <3>2. /\ pc = "upgrade" /\ pc' = "header" /\ partial' = TRUE
            /\ UNCHANGED <<frames, fragments, delivered, pongs, current>>
        BY <2>2, <3>1 DEF Upgrade, streamVars, outVars
      <3>3. current = 0
        BY <3>2 DEF IInv, ReadInv
      <3>4. Reader!Released
        BY <2>2, <3>2, <3>3 DEF Reader!Released
      <3> QED BY <3>4 DEF Reader!Next
    <2>3. CASE partial /\ partial'
      BY <2>3 DEF Reader!Next, Reader!Anything
    <2> QED BY <2>0, <2>1, <2>2, <2>3
  <1> QED BY <1>1, <1>2, SpecIInv, SpecPlace, PTL DEF Spec, ImplementsFrameReader, Reader!Spec
=============================================================================
