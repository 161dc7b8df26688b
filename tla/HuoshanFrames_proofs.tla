------------------------ MODULE HuoshanFrames_proofs ------------------------
(***************************************************************************)
(* Theorems about HuoshanFrames, for every length that fits in memory, all *)
(* flags, and both kinds of char.  First what the arithmetic of bytes      *)
(* does, then lengths in websocket headers, requests, responses, and the   *)
(* connection.                                                             *)
(***************************************************************************)
EXTENDS HuoshanFrames, SequenceTheorems, TLAPS

Uint32 == {d \in Nat : d < Shift24 * 256}

\* Quotient and remainder of a division by 256.
LEMMA Div256 ==
    ASSUME NEW d \in Nat
    PROVE  /\ d \div 256 \in Nat
           /\ d % 256 \in Byte
           /\ d = 256 * (d \div 256) + (d % 256)
  BY DEF Byte

\* The shifts by 16 and 24 are repeated shifts by 8.
LEMMA DivTwice ==
    ASSUME NEW d \in Nat
    PROVE  /\ d \div Shift16 = (d \div 256) \div 256
           /\ d \div Shift24 = ((d \div 256) \div 256) \div 256
  BY SMT DEF Shift16, Shift24

\* A quotient is bounded by the dividend's bound.
LEMMA DivLess ==
    ASSUME NEW d \in Nat, NEW m \in Nat, d < m * 256
    PROVE  d \div 256 < m
<1>1. /\ d \div 256 \in Nat /\ d % 256 \in Byte
      /\ d = 256 * (d \div 256) + (d % 256)
  BY Div256
<1> QED BY <1>1 DEF Byte

\* to_bytesb() gives four bytes, and the number is read back from them.
LEMMA BytesOf ==
    ASSUME NEW d \in Uint32
    PROVE  /\ to_bytesb(d) \in Word
           /\ Number(to_bytesb(d)) = d
<1> DEFINE q1 == d \div 256
           q2 == q1 \div 256
           q3 == q2 \div 256
<1>0. d \in Nat /\ d < 256 * 256 * 256 * 256
  BY Zenon DEF Uint32, Shift24
<1>1. /\ q1 \in Nat /\ d % 256 \in Byte /\ d = 256 * q1 + (d % 256)
  <2>1. d \in Nat
    BY <1>0
  <2> QED BY <2>1, Div256, SMTT(60)
<1>2. /\ q2 \in Nat /\ q1 % 256 \in Byte /\ q1 = 256 * q2 + (q1 % 256)
  <2>1. q1 \in Nat
    BY <1>1
  <2> HIDE DEF q1
  <2> QED BY <2>1, Div256, SMTT(60)
<1>3. /\ q3 \in Nat /\ q2 % 256 \in Byte /\ q2 = 256 * q3 + (q2 % 256)
  <2>1. q2 \in Nat
    BY <1>2
  <2> HIDE DEF q2
  <2> QED BY <2>1, Div256, SMTT(60)
<1>4. q3 < 256
  <2>1. q1 < 256 * 256 * 256
    <3>1. 256 * 256 * 256 \in Nat
      OBVIOUS
    <3> QED BY <1>0, <3>1, DivLess, SMTT(60)
  <2>2. q2 < 256 * 256
    <3>1. 256 * 256 \in Nat
      OBVIOUS
    <3> QED BY <1>1, <2>1, <3>1, DivLess, SMTT(60)
  <2> QED BY <1>2, <2>2, DivLess
<1>5. q3 % 256 = q3 /\ q3 \in Byte
  <2>1. \A x \in Nat : x < 256 => x % 256 = x
    OBVIOUS
  <2>2. q3 \in Nat /\ q3 < 256
    BY <1>3, <1>4
  <2> HIDE DEF q3
  <2>3. q3 \in Byte
    BY <2>2 DEF Byte
  <2> QED BY <2>1, <2>2, <2>3, Zenon
<1>6. to_bytesb(d) = <<q3, q2 % 256, q1 % 256, d % 256>>
  <2>1. d \div Shift16 = q2 /\ d \div Shift24 = q3
    BY <1>0, DivTwice
  <2> HIDE DEF q2, q3
  <2> QED BY <1>5, <2>1 DEF to_bytesb
<1> HIDE DEF q1, q2, q3
<1> QED
  BY <1>1, <1>2, <1>3, <1>5, <1>6 DEF Number, Word, Byte, Shift16, Shift24

\* What a sequence is that has the right length and elements.
LEMMA Concatenation ==
    ASSUME NEW S, NEW s \in Seq(S), NEW t \in Seq(S), NEW u \in Seq(S),
           Len(u) = Len(s) + Len(t),
           \A i \in 1 .. Len(s) : u[i] = s[i],
           \A i \in 1 .. Len(t) : u[Len(s) + i] = t[i]
    PROVE  s \o t = u
<1>1. s \o t \in Seq(S) /\ Len(s \o t) = Len(u)
  BY ConcatProperties
<1>2. ASSUME NEW i \in 1 .. Len(u) PROVE (s \o t)[i] = u[i]
  <2>1. CASE i <= Len(s)
    BY <2>1, ConcatProperties
  <2>2. CASE i > Len(s)
    <3>1. i - Len(s) \in 1 .. Len(t) /\ i = Len(s) + (i - Len(s))
      BY <2>2
    <3>2. u[i] = t[i - Len(s)]
      BY <3>1
    <3> QED BY <2>2, <3>2, ConcatProperties
  <2> QED BY <2>1, <2>2
<1> QED BY <1>1, <1>2, SeqEqual

\* Concatenations of the short tuples that frames are made of.
LEMMA Tuples ==
    /\ \A a, b : <<>> \o <<a, b>> = <<a, b>>
    /\ \A a : <<a>> \o <<>> = <<a>>
    /\ \A a : <<>> \o <<a>> = <<a>>
    /\ <<>> \o <<>> = <<>>
    /\ \A a, b : <<a>> \o <<b>> = <<a, b>>
    /\ \A a, b, c : <<a>> \o <<b, c>> = <<a, b, c>>
    /\ \A a, b, c, d : <<a, b>> \o <<c, d>> = <<a, b, c, d>>
    /\ \A a, b, c, d, e : <<a, b, c>> \o <<d, e>> = <<a, b, c, d, e>>
    /\ \A a, b, c, d, e, f : <<a, b, c, d>> \o <<e, f>> = <<a, b, c, d, e, f>>
<1>0. ASSUME NEW a, NEW b
      PROVE  /\ <<>> \o <<a, b>> = <<a, b>> /\ <<a>> \o <<>> = <<a>>
             /\ <<>> \o <<a>> = <<a>> /\ <<>> \o <<>> = <<>>
  <2> DEFINE S == {a, b}
  <2> <<>> \in Seq(S) /\ <<a, b>> \in Seq(S) /\ <<a>> \in Seq(S)
    OBVIOUS
  <2> QED BY ConcatEmptySeq
<1>1. ASSUME NEW a, NEW b
      PROVE  <<a>> \o <<b>> = <<a, b>>
  <2> DEFINE S == {a, b}
             s == <<a>>
             t == <<b>>
             u == <<a, b>>
  <2>1. s \in Seq(S) /\ t \in Seq(S) /\ u \in Seq(S)
    OBVIOUS
  <2>2. /\ Len(u) = Len(s) + Len(t)
        /\ \A i \in 1 .. Len(s) : u[i] = s[i]
        /\ \A i \in 1 .. Len(t) : u[Len(s) + i] = t[i]
    <3>1. /\ Len(s) = 1 /\ Len(t) = 1 /\ Len(u) = 2
          /\ s[1] = a /\ t[1] = b /\ u[1] = a /\ u[2] = b
      OBVIOUS
    <3>2. \A i \in 1 .. 1 : i = 1
      OBVIOUS
    <3> HIDE DEF s, t, u
    <3> QED BY <3>1, <3>2
  <2> HIDE DEF s, t, u, S
  <2>3. s \o t = u
    BY <2>1, <2>2, Concatenation
  <2> QED BY <2>3 DEF s, t, u
<1>2. ASSUME NEW a, NEW b, NEW c
      PROVE  <<a>> \o <<b, c>> = <<a, b, c>>
  <2> DEFINE S == {a, b, c}
             s == <<a>>
             t == <<b, c>>
             u == <<a, b, c>>
  <2>1. s \in Seq(S) /\ t \in Seq(S) /\ u \in Seq(S)
    OBVIOUS
  <2>2. /\ Len(u) = Len(s) + Len(t)
        /\ \A i \in 1 .. Len(s) : u[i] = s[i]
        /\ \A i \in 1 .. Len(t) : u[Len(s) + i] = t[i]
    OBVIOUS
  <2> HIDE DEF s, t, u, S
  <2>3. s \o t = u
    BY <2>1, <2>2, Concatenation
  <2> QED BY <2>3 DEF s, t, u
<1>3. ASSUME NEW a, NEW b, NEW c, NEW d
      PROVE  <<a, b>> \o <<c, d>> = <<a, b, c, d>>
  <2> DEFINE S == {a, b, c, d}
             s == <<a, b>>
             t == <<c, d>>
             u == <<a, b, c, d>>
  <2>1. s \in Seq(S) /\ t \in Seq(S) /\ u \in Seq(S)
    OBVIOUS
  <2>2. /\ Len(u) = Len(s) + Len(t)
        /\ \A i \in 1 .. Len(s) : u[i] = s[i]
        /\ \A i \in 1 .. Len(t) : u[Len(s) + i] = t[i]
    OBVIOUS
  <2> HIDE DEF s, t, u, S
  <2>3. s \o t = u
    BY <2>1, <2>2, Concatenation
  <2> QED BY <2>3 DEF s, t, u
<1>4. ASSUME NEW a, NEW b, NEW c, NEW d, NEW e
      PROVE  <<a, b, c>> \o <<d, e>> = <<a, b, c, d, e>>
  <2> DEFINE S == {a, b, c, d, e}
             s == <<a, b, c>>
             t == <<d, e>>
             u == <<a, b, c, d, e>>
  <2>1. s \in Seq(S) /\ t \in Seq(S) /\ u \in Seq(S)
    OBVIOUS
  <2>2. /\ Len(u) = Len(s) + Len(t)
        /\ \A i \in 1 .. Len(s) : u[i] = s[i]
        /\ \A i \in 1 .. Len(t) : u[Len(s) + i] = t[i]
    OBVIOUS
  <2> HIDE DEF s, t, u, S
  <2>3. s \o t = u
    BY <2>1, <2>2, Concatenation
  <2> QED BY <2>3 DEF s, t, u
<1>5. ASSUME NEW a, NEW b, NEW c, NEW d, NEW e, NEW f
      PROVE  <<a, b, c, d>> \o <<e, f>> = <<a, b, c, d, e, f>>
  <2> DEFINE S == {a, b, c, d, e, f}
             s == <<a, b, c, d>>
             t == <<e, f>>
             u == <<a, b, c, d, e, f>>
  <2>1. s \in Seq(S) /\ t \in Seq(S) /\ u \in Seq(S)
    OBVIOUS
  <2>2. /\ Len(u) = Len(s) + Len(t)
        /\ \A i \in 1 .. Len(s) : u[i] = s[i]
        /\ \A i \in 1 .. Len(t) : u[Len(s) + i] = t[i]
    OBVIOUS
  <2> HIDE DEF s, t, u, S
  <2>3. s \o t = u
    BY <2>1, <2>2, Concatenation
  <2> QED BY <2>3 DEF s, t, u
<1> QED BY <1>0, <1>1, <1>2, <1>3, <1>4, <1>5, Zenon

----------------------------------------------------------------------------
(* Bytes read back *)

\* from_byteb() gives the integers back that are Kept.
LEMMA Signed ==
    ASSUME NEW b \in Word
    PROVE  from_byteb(b) = b <=> Kept(b)
<1>1. PICK b1, b2, b3, b4 \in Byte : b = <<b1, b2, b3, b4>>
  BY DEF Word
<1>2. from_byteb(b) = <<from_byteb(b)[1], from_byteb(b)[2], from_byteb(b)[3], from_byteb(b)[4]>>
  BY DEF from_byteb
<1> QED
  BY <1>1, <1>2 DEF from_byteb, Kept, Word, Byte

\* A word is a sequence of four bytes.
LEMMA WordSeq ==
    ASSUME NEW w \in Word
    PROVE  /\ w \in Seq(Byte) /\ Len(w) = 4
           /\ w[1] \in Byte /\ w[2] \in Byte /\ w[3] \in Byte /\ w[4] \in Byte
<1>1. PICK b1, b2, b3, b4 \in Byte : w = <<b1, b2, b3, b4>>
  BY DEF Word
<1> QED BY <1>1

\* The nine bytes of a long header, and the number in the last four.
LEMMA EightBytes ==
    ASSUME NEW w \in Word, NEW h \in Byte
    PROVE  LET s == <<h, 0, 0, 0, 0>> \o w
           IN /\ Len(s) = 9 /\ s[1] = h /\ s[2] = 0
              /\ Number(SubSeq(s, 6, 9)) = Number(w)
<1> DEFINE t == <<h, 0, 0, 0, 0>>
           s == t \o w
<1>1. /\ t \in Seq(Byte) /\ Len(t) = 5 /\ t[1] = h /\ t[2] = 0
  BY DEF Byte
<1>2. w \in Seq(Byte) /\ Len(w) = 4
  BY WordSeq
<1> HIDE DEF t
<1>3. s \in Seq(Byte) /\ Len(s) = Len(t) + Len(w)
      /\ \A i \in 1 .. Len(t) + Len(w) : s[i] = IF i <= Len(t) THEN t[i] ELSE w[i - Len(t)]
  BY <1>1, <1>2, ConcatProperties, Zenon
<1>4. s \in Seq(Byte) /\ Len(s) = 9
      /\ \A i \in 1 .. 9 : s[i] = IF i <= 5 THEN t[i] ELSE w[i - 5]
  BY <1>1, <1>2, <1>3
<1> HIDE DEF s
<1>5. s \in Seq(Byte) /\ Len(s) = 9 /\ s[1] = h /\ s[2] = 0
  BY <1>1, <1>4
<1>6. s[6] = w[1] /\ s[7] = w[2] /\ s[8] = w[3] /\ s[9] = w[4]
  BY <1>4
<1>7. \A i \in 1 .. 4 : SubSeq(s, 6, 9)[i] = s[6 + i - 1]
  BY <1>5, SubSeqProperties
<1>8. SubSeq(s, 6, 9)[1] = w[1] /\ SubSeq(s, 6, 9)[2] = w[2]
      /\ SubSeq(s, 6, 9)[3] = w[3] /\ SubSeq(s, 6, 9)[4] = w[4]
  BY <1>6, <1>7
<1>9. Number(SubSeq(s, 6, 9)) = Number(w)
  BY <1>8 DEF Number
<1> QED BY <1>5, <1>9 DEF s, t

\* The two bytes of a medium length.
LEMMA TwoBytes ==
    ASSUME NEW n \in Nat, n <= Max16
    PROVE  /\ n \div 256 \in Byte
           /\ (n \div 256) % 256 = n \div 256
           /\ n % 256 \in Byte
           /\ (n \div 256) * 256 + (n % 256) = n
<1>1. n < 256 * 256 /\ 256 \in Nat
  BY DEF Max16, Shift16
<1>2. n \div 256 < 256
  BY <1>1, DivLess
<1>3. n \div 256 \in Nat /\ n % 256 \in Byte /\ n = 256 * (n \div 256) + (n % 256)
  BY Div256
<1>4. n \div 256 \in Byte /\ (n \div 256) * 256 + (n % 256) = n
  BY <1>2, <1>3 DEF Byte
<1>5. \A x \in Nat : x < 256 => x % 256 = x
  OBVIOUS
<1> QED BY <1>2, <1>3, <1>4, <1>5, Zenon

----------------------------------------------------------------------------
(* The length in a websocket header *)

\* For every size a 32-bit size_t can have, and at both boundaries, the cloud reads
\* the length that send() writes.
THEOREM LengthToCloud ==
    ASSUME NEW n \in Uint32
    PROVE  CloudLength(LengthHeader(n)) = n
<1>0. n \in Nat
  BY Zenon DEF Uint32
<1>1. CASE ~Medium(n)
  <2>1. LengthHeader(n) = <<n + 128>> /\ n + 128 < 254
    BY <1>0, <1>1 DEF LengthHeader, Medium
  <2> QED BY <1>0, <2>1 DEF CloudLength
<1>2. CASE Medium(n) /\ ~Long(n)
  <2>1. n <= Max16
    BY <1>0, <1>2 DEF Long, Max16, Shift16
  <2>2. LengthHeader(n) = <<254, (n \div 256) % 256, n % 256>>
    BY <1>2 DEF LengthHeader
  <2> QED BY <1>0, <2>1, <2>2, TwoBytes DEF CloudLength
<1>3. CASE Medium(n) /\ Long(n)
  <2>1. LengthHeader(n) = <<255, 0, 0, 0, 0>> \o to_bytesb(n)
    BY <1>3 DEF LengthHeader
  <2>2. to_bytesb(n) \in Word /\ Number(to_bytesb(n)) = n /\ 255 \in Byte
    BY BytesOf DEF Byte
  <2> QED BY <2>1, <2>2, EightBytes DEF CloudLength
<1>4. Medium(n) \/ ~Medium(n)
  OBVIOUS
<1> QED BY <1>1, <1>2, <1>3, <1>4

\* read_message() reads the length that the cloud writes.
THEOREM LengthFromCloud ==
    ASSUME NEW n \in Uint32
    PROVE  ReadLength(CloudHeader(n)) = n
<1>0. n \in Nat
  BY Zenon DEF Uint32
<1>1. CASE n <= 125
  <2>1. CloudHeader(n) = <<n>> /\ n % 128 = n
    BY <1>0, <1>1 DEF CloudHeader
  <2> QED BY <1>0, <1>1, <2>1 DEF ReadLength
<1>2. CASE n > 125 /\ n <= Max16
  <2>1. CloudHeader(n) = <<126, n \div 256, n % 256>> /\ 126 % 128 = 126
    BY <1>0, <1>2 DEF CloudHeader
  <2> QED BY <1>0, <1>2, <2>1, TwoBytes DEF ReadLength
<1>3. CASE n > 125 /\ ~(n <= Max16)
  <2>1. CloudHeader(n) = <<127, 0, 0, 0, 0>> \o to_bytesb(n) /\ 127 % 128 = 127
    BY <1>0, <1>3 DEF CloudHeader
  <2>2. to_bytesb(n) \in Word /\ Number(to_bytesb(n)) = n /\ 127 \in Byte
    BY BytesOf DEF Byte
  <2> QED BY <2>1, <2>2, EightBytes DEF ReadLength
<1> QED BY <1>0, <1>1, <1>2, <1>3

----------------------------------------------------------------------------
(* Requests *)

Sizes == 0 .. MaxLength

\* The lengths of two texts and what goes with them fit in a size_t.
LEMMA SizesFit ==
    ASSUME NEW a \in Sizes, NEW b \in Sizes, NEW c \in 0 .. 64
    PROVE  a + b + c \in Uint32 /\ a + c \in Uint32 /\ a \in Uint32 /\ a \in Nat
<1>1. Shift24 \in Nat /\ 64 <= Shift24
  BY SMT DEF Shift24
<1> QED BY <1>1 DEF Sizes, Uint32, MaxLength

\* The length of a frame, by the shape of what it consists of.
LEMMA Items ==
    ASSUME NEW u \in Word, NEW v \in Word, NEW w \in Word, NEW x \in Word,
           NEW a \in Sizes, NEW b \in Sizes, NEW items
    PROVE  /\ items = <<u, v, <<a>>>> => FrameLength(items) = a + 12
           /\ items = <<u, <<a>>, v, <<b>>>> => FrameLength(items) = a + b + 12
           /\ items = <<u, v, <<a>>, w, <<b>>>> => FrameLength(items) = a + b + 16
           /\ items = <<u, v, w, <<a>>, x, <<b>>>> => FrameLength(items) = a + b + 20
<1>1. ItemLength(u) = 4 /\ ItemLength(v) = 4 /\ ItemLength(w) = 4 /\ ItemLength(x) = 4
  BY WordSeq DEF ItemLength
<1>2. ItemLength(<<a>>) = a /\ ItemLength(<<b>>) = b /\ a \in Nat /\ b \in Nat
  BY DEF ItemLength, Sizes
<1>3. ASSUME items = <<u, v, <<a>>>> PROVE FrameLength(items) = a + 12
  <2>1. /\ Len(items) = 3
        /\ items[1] = u /\ items[2] = v /\ items[3] = <<a>>
    BY <1>3
  <2> QED BY <1>1, <1>2, <2>1 DEF FrameLength
<1>4. ASSUME items = <<u, <<a>>, v, <<b>>>> PROVE FrameLength(items) = a + b + 12
  <2>1. /\ Len(items) = 4
        /\ items[1] = u /\ items[2] = <<a>> /\ items[3] = v /\ items[4] = <<b>>
    BY <1>4
  <2> QED BY <1>1, <1>2, <2>1 DEF FrameLength
<1>5. ASSUME items = <<u, v, <<a>>, w, <<b>>>> PROVE FrameLength(items) = a + b + 16
  <2>1. /\ Len(items) = 5
        /\ items[1] = u /\ items[2] = v /\ items[3] = <<a>> /\ items[4] = w /\ items[5] = <<b>>
    BY <1>5
  <2> QED BY <1>1, <1>2, <2>1 DEF FrameLength
<1>6. ASSUME items = <<u, v, w, <<a>>, x, <<b>>>> PROVE FrameLength(items) = a + b + 20
  <2>1. /\ Len(items) = 6
        /\ items[1] = u /\ items[2] = v /\ items[3] = w /\ items[4] = <<a>> /\ items[5] = x /\ items[6] = <<b>>
    BY <1>6
  <2> QED BY <1>1, <1>2, <2>1 DEF FrameLength
<1> QED BY <1>3, <1>4, <1>5, <1>6, Zenon

\* The items of a request within a session.
LEMMA FiveItems ==
    ASSUME NEW e, NEW s, NEW p
    PROVE  SessionItems(e, s, p) = <<to_bytesb(e), to_bytesb(s), <<s>>, to_bytesb(p), <<p>>>>
<1> DEFINE a == to_bytesb(e)
           b == to_bytesb(s)
           c == to_bytesb(p)
<1>1. Sized(s) = <<b, <<s>>>> /\ Sized(p) = <<c, <<p>>>>
  BY DEF Sized
<1>2. SessionItems(e, s, p) = (<<a>> \o <<b, <<s>>>>) \o <<c, <<p>>>>
  BY <1>1 DEF SessionItems
<1>3. \A x, y, z : <<x>> \o <<y, z>> = <<x, y, z>>
  BY Tuples
<1>4. \A u, v, w, x, y : <<u, v, w>> \o <<x, y>> = <<u, v, w, x, y>>
  BY Tuples
<1> HIDE DEF a, b, c
<1>5. <<a>> \o <<b, <<s>>>> = <<a, b, <<s>>>>
  BY <1>3
<1>6. <<a, b, <<s>>>> \o <<c, <<p>>>> = <<a, b, <<s>>, c, <<p>>>>
  BY <1>4
<1> QED BY <1>2, <1>5, <1>6 DEF a, b, c

\* What every request consists of.
LEMMA RequestShape ==
    ASSUME NEW s \in Sessions, NEW r \in Requests(s), NEW v \in Reserved
    PROVE  LET f == Built(r, v)
           IN /\ f.head = <<17, (IF r.event = 200 THEN 2 ELSE 1) * 16 + 4,
                            (IF r.event = 200 THEN 0 ELSE 1) * 16, v>>
              /\ r.event \in {1, 2, 100, 102, 200, 300, 500}
              /\ r.payload \in Sizes
              /\ r.event \in {1, 2} =>
                    f.items = <<to_bytesb(r.event), to_bytesb(r.payload), <<r.payload>>>>
              /\ r.event \notin {1, 2} =>
                    /\ r.session \in Sizes
                    /\ f.items = <<to_bytesb(r.event), to_bytesb(r.session), <<r.session>>,
                                   to_bytesb(r.payload), <<r.payload>>>>
<1>0. 2 \in Sizes /\ Sessions \subseteq Sizes /\ Payloads \subseteq Sizes
  <2>1. MaxLength \in Nat /\ 2 <= MaxLength
    BY SMT DEF MaxLength, Shift24
  <2> QED BY <2>1, FramesAssumption DEF Sizes
<1>1. ASSUME NEW a, NEW b PROVE <<a>> \o Sized(b) = <<a, to_bytesb(b), <<b>>>>
  <2>1. \A x, y : <<a>> \o <<x, y>> = <<a, x, y>>
    BY Tuples
  <2> QED BY <2>1 DEF Sized
<1>2. \A x, y, z : SessionItems(x, y, z) = <<to_bytesb(x), to_bytesb(y), <<y>>, to_bytesb(z), <<z>>>>
  BY FiveItems
<1>3. CASE r \in [event : {1, 2}, session : {Absent}, payload : {2}]
  <2>1. r.event \in {1, 2} /\ r.payload = 2
    BY <1>3
  <2> QED BY <1>0, <1>1, <2>1 DEF Built, StartConnect, FinishConnect, Frame, genrate_header,
             FULL_CLIENT_REQ, JSON, MSG_WITH_EVENT
<1>4. CASE r \in [event : {102}, session : {s}, payload : {2}]
  <2>1. r.event = 102 /\ r.session \in Sizes /\ r.payload \in Sizes
    BY <1>0, <1>4
  <2>8. Built(r, v).items = SessionItems(r.event, r.session, r.payload)
    BY <2>1 DEF Built, SessionRequest, Frame
  <2>9. Built(r, v).items = <<to_bytesb(r.event), to_bytesb(r.session), <<r.session>>,
                                to_bytesb(r.payload), <<r.payload>>>>
    BY <1>2, <2>8
  <2>10. Built(r, v).head = <<17, (IF r.event = 200 THEN 2 ELSE 1) * 16 + 4,
                                (IF r.event = 200 THEN 0 ELSE 1) * 16, v>>
    BY <2>1 DEF Built, SessionRequest, Frame, genrate_header, FULL_CLIENT_REQ, JSON, MSG_WITH_EVENT
  <2> QED BY <2>1, <2>9, <2>10
<1>5. CASE r \in [event : {100, 200, 300, 500}, session : {s}, payload : Payloads]
  <2>1. r.event \in {100, 200, 300, 500} /\ r.session \in Sizes /\ r.payload \in Sizes
    BY <1>0, <1>5
  <2>2. CASE r.event = 200
    <3>1. Built(r, v) = TaskRequest(r.session, r.payload, v)
      BY <2>2 DEF Built
    <3>8. Built(r, v).items = SessionItems(200, r.session, r.payload)
      BY <2>2, <3>1 DEF TaskRequest, Frame
    <3>9. Built(r, v).items = <<to_bytesb(200), to_bytesb(r.session), <<r.session>>,
                                  to_bytesb(r.payload), <<r.payload>>>>
      BY <1>2, <3>8
    <3>10. Built(r, v).head = <<17, (IF r.event = 200 THEN 2 ELSE 1) * 16 + 4,
                                  (IF r.event = 200 THEN 0 ELSE 1) * 16, v>>
      BY <2>2, <3>1 DEF TaskRequest, Frame, genrate_header, AUDIO_ONLY_REQ, NO_SERIALIZATION, MSG_WITH_EVENT
    <3> QED BY <2>1, <2>2, <3>9, <3>10
  <2>3. CASE r.event # 200
    <3>1. Built(r, v) = SessionRequest(r.event, r.session, r.payload, v)
      BY <2>1, <2>3 DEF Built
    <3>8. Built(r, v).items = SessionItems(r.event, r.session, r.payload)
      BY <2>3, <3>1 DEF SessionRequest, Frame
    <3>9. Built(r, v).items = <<to_bytesb(r.event), to_bytesb(r.session), <<r.session>>,
                                  to_bytesb(r.payload), <<r.payload>>>>
      BY <1>2, <3>8
    <3>10. Built(r, v).head = <<17, (IF r.event = 200 THEN 2 ELSE 1) * 16 + 4,
                                  (IF r.event = 200 THEN 0 ELSE 1) * 16, v>>
      BY <2>3, <3>1 DEF SessionRequest, Frame, genrate_header, FULL_CLIENT_REQ, JSON, MSG_WITH_EVENT
    <3> QED BY <2>1, <2>3, <3>9, <3>10
  <2> QED BY <2>2, <2>3
<1> QED BY <1>3, <1>4, <1>5 DEF Requests

\* Event IDs fit in a word.
LEMMA SmallInts == \A d \in 0 .. 600 : to_bytesb(d) \in Word
<1> TAKE d \in 0 .. 600
<1>1. d \in Uint32
  BY SMT DEF Uint32, Shift24
<1> QED BY <1>1, BytesOf

\* Texts read as the cloud reads them.
LEMMA CloudFinds ==
    ASSUME NEW items, NEW i \in Nat \ {0}, NEW n, i < Len(items),
           items[i] = to_bytesb(n), items[i + 1] = <<n>>
    PROVE  CloudText(items, i) = n
<1>1. Len(items[i + 1]) = 1 /\ items[i + 1][1] = n
  OBVIOUS
<1> QED BY <1>1 DEF CloudText

\* A request, as built, is understood.
LEMMA BuiltUnderstood ==
    ASSUME NEW s \in Sessions, NEW r \in Requests(s), NEW v \in Reserved,
           NEW f, f = Built(r, v)
    PROVE  CloudUnderstands(r, LengthHeader(FrameLength(f.items)), f)
<1> DEFINE n == FrameLength(f.items)
<1>1. /\ r.event \in {1, 2, 100, 102, 200, 300, 500}
      /\ r.payload \in Sizes
      /\ f.head = <<17, (IF r.event = 200 THEN 2 ELSE 1) * 16 + 4,
                    (IF r.event = 200 THEN 0 ELSE 1) * 16, v>>
  BY RequestShape
<1>2. /\ MessageType(f.head) = IF r.event = 200 THEN 2 ELSE 1
      /\ MessageFlags(f.head) = 4
  BY <1>1 DEF MessageType, MessageFlags
<1>3. to_bytesb(r.event) \in Word /\ to_bytesb(r.payload) \in Word
  BY <1>1, SmallInts, BytesOf, SizesFit
<1>4. CASE r.event \in {1, 2}
  <2>1. f.items = <<to_bytesb(r.event), to_bytesb(r.payload), <<r.payload>>>>
    BY <1>4, RequestShape
  <2>2. n = r.payload + 12 /\ n \in Uint32
    <3>1. n = r.payload + 12
      BY <1>1, <1>3, <2>1, Items
    <3>2. r.payload + 12 \in Uint32
      BY <1>1, SizesFit
    <3> QED BY <3>1, <3>2
  <2>3. CloudLength(LengthHeader(n)) = n
    BY <2>2, LengthToCloud
  <2>4. CloudText(f.items, 2) = r.payload
    BY <2>1, CloudFinds
  <2>5. f.items[1] = to_bytesb(r.event)
    BY <2>1
  <2> QED BY <1>2, <1>4, <2>3, <2>4, <2>5
          DEF CloudUnderstands, AUDIO_ONLY_REQ, FULL_CLIENT_REQ, MSG_WITH_EVENT
<1>5. CASE r.event \notin {1, 2}
  <2>1. /\ r.session \in Sizes
        /\ f.items = <<to_bytesb(r.event), to_bytesb(r.session), <<r.session>>,
                       to_bytesb(r.payload), <<r.payload>>>>
    BY <1>5, RequestShape
  <2>2. to_bytesb(r.session) \in Word
    BY <2>1, BytesOf, SizesFit
  <2>3. n = r.session + r.payload + 16 /\ n \in Uint32
    <3>1. n = r.session + r.payload + 16
      BY <1>1, <1>3, <2>1, <2>2, Items
    <3>2. r.session + r.payload + 16 \in Uint32
      BY <1>1, <2>1, SizesFit
    <3> QED BY <3>1, <3>2
  <2>4. CloudLength(LengthHeader(n)) = n
    BY <2>3, LengthToCloud
  <2>5. CloudText(f.items, 2) = r.session /\ CloudText(f.items, 4) = r.payload
    BY <2>1, CloudFinds
  <2>6. f.items[1] = to_bytesb(r.event)
    BY <2>1
  <2> QED BY <1>2, <1>5, <2>4, <2>5, <2>6
          DEF CloudUnderstands, AUDIO_ONLY_REQ, FULL_CLIENT_REQ, MSG_WITH_EVENT
<1> QED BY <1>4, <1>5

----------------------------------------------------------------------------
(* Responses *)

\* parse() and the comments of MessageFlags agree on the flags 0, 3, 4 and 7 and
\* those with 8 added, and on no others: it misses the number of POS_SEQUENCE (1)
\* and reads one for NEG_SEQUENCE (2), which has none.
THEOREM FlagsAgree ==
    ASSUME NEW f \in 0 .. 15
    PROVE  Agreed(f) <=> ReadsSequence(f) = HasSequence(f)
<1>1. PICK a \in 0 .. 3, b \in 0 .. 3 : f = 4 * a + b
  BY SMT
<1>2. f % 4 = b
  BY <1>1
<1>3. (f \div 2) % 2 = IF b \in {2, 3} THEN 1 ELSE 0
  BY <1>1
<1> QED BY <1>2, <1>3 DEF ReadsSequence, HasSequence, Agreed

\* Where an integer is, parse() finds it unless a signed char spoils it.
LEMMA ClientInteger ==
    ASSUME NEW items, NEW i \in Nat \ {0}, i <= Len(items), NEW w \in Word, items[i] = w
    PROVE  Integer(items, i) = w <=> Kept(w)
<1>1. Len(items[i]) = 4
  BY WordSeq
<1>2. Integer(items, i) = from_byteb(w)
  BY <1>1 DEF Integer
<1> QED BY <1>2, Signed

\* Where a length and a text are, parse() finds the text unless a signed char spoils the length.
LEMMA ClientText ==
    ASSUME NEW items, NEW i \in Nat \ {0}, i < Len(items), NEW n \in Sizes,
           items[i] = to_bytesb(n), items[i + 1] = <<n>>
    PROVE  Text(items, i) = n <=> Kept(to_bytesb(n))
<1>1. to_bytesb(n) \in Word /\ n \in Nat
  BY BytesOf, SizesFit
<1>2. Len(items[i]) = 4 /\ Len(items[i + 1]) = 1 /\ items[i + 1][1] = n
  BY <1>1, WordSeq
<1>3. n # Garbled
  BY <1>1 DEF Garbled
<1>4. Text(items, i) = n <=> from_byteb(to_bytesb(n)) = to_bytesb(n)
  BY <1>2, <1>3 DEF Text
<1> QED BY <1>1, <1>4, Signed

\* What the fields of a response may be.
LEMMA ResponseFields ==
    ASSUME NEW r \in Responses
    PROVE  /\ r = [type |-> r.type, flags |-> r.flags, seq |-> r.seq, event |-> r.event,
                   code |-> r.code, session |-> r.session, payload |-> r.payload]
           /\ r.flags \in Flags
           /\ r.payload \in Sizes
           /\ \/ /\ r.type = 15 /\ r.seq = Unset /\ r.event = Unset
                 /\ r.code \in Word /\ r.session = Absent
              \/ /\ r.type \in {9, 11} /\ r.code = Unset /\ r.session \in Sizes
                 /\ IF HasSequence(r.flags) THEN r.seq \in Word ELSE r.seq = Unset
                 /\ IF HasEvent(r.flags) THEN r.event \in Events ELSE r.event = Unset
<1>0. Sessions \subseteq Sizes /\ Payloads \subseteq Sizes /\ Numbers \subseteq Word
  BY FramesAssumption DEF Sizes
<1>1. CASE r \in [type : {ERROR_INFO}, flags : Flags, seq : {Unset}, event : {Unset},
                  code : Numbers, session : {Absent}, payload : Payloads]
  BY <1>0, <1>1 DEF ERROR_INFO
<1>2. ASSUME NEW f \in Flags,
             r \in [type : {FULL_SERVER_RSP, AUDIO_ONLY_RSP}, flags : {f},
                    seq : Optionally(HasSequence(f), Numbers),
                    event : Optionally(HasEvent(f), Events),
                    code : {Unset}, session : Sessions, payload : Payloads]
      PROVE  /\ r = [type |-> r.type, flags |-> r.flags, seq |-> r.seq, event |-> r.event,
                     code |-> r.code, session |-> r.session, payload |-> r.payload]
             /\ r.flags \in Flags
             /\ r.payload \in Sizes
             /\ r.type \in {9, 11} /\ r.code = Unset /\ r.session \in Sizes
             /\ IF HasSequence(r.flags) THEN r.seq \in Word ELSE r.seq = Unset
             /\ IF HasEvent(r.flags) THEN r.event \in Events ELSE r.event = Unset
  BY <1>0, <1>2 DEF FULL_SERVER_RSP, AUDIO_ONLY_RSP, Optionally
<1> QED BY <1>1, <1>2 DEF Responses

\* parse() reads type and flags as the cloud writes them.
LEMMA CloudHead ==
    ASSUME NEW r \in Responses, NEW f, f = CloudFrame(r)
    PROVE  /\ f.items = CloudItems(r)
           /\ MessageType(f.head) = r.type
           /\ MessageFlags(f.head) = r.flags
<1>1. f.items = CloudItems(r) /\ f.head = <<17, r.type * 16 + r.flags, 16, 0>>
  BY DEF CloudFrame, Frame
<1>2. r.type \in {9, 11, 15} /\ r.flags \in 0 .. 15
  BY ResponseFields, FramesAssumption
<1>3. \A t \in {9, 11, 15}, x \in 0 .. 15 : (t * 16 + x) \div 16 = t /\ (t * 16 + x) % 16 = x
  BY SMT
<1>4. f.head[2] = r.type * 16 + r.flags
  BY <1>1
<1> QED BY <1>1, <1>2, <1>3, <1>4 DEF MessageType, MessageFlags

\* What a response consists of: an error code and a text; or a number, an event,
\* both or neither, and two texts.
LEMMA CloudItemsShape ==
    ASSUME NEW r \in Responses
    PROVE  LET a == to_bytesb(r.session)
               b == to_bytesb(r.payload)
           IN /\ r.type = 15 => CloudItems(r) = <<r.code, b, <<r.payload>>>>
              /\ r.type # 15 =>
                 /\ ~HasSequence(r.flags) /\ ~HasEvent(r.flags) =>
                       CloudItems(r) = <<a, <<r.session>>, b, <<r.payload>>>>
                 /\ HasSequence(r.flags) /\ ~HasEvent(r.flags) =>
                       CloudItems(r) = <<r.seq, a, <<r.session>>, b, <<r.payload>>>>
                 /\ ~HasSequence(r.flags) /\ HasEvent(r.flags) =>
                       CloudItems(r) = <<r.event, a, <<r.session>>, b, <<r.payload>>>>
                 /\ HasSequence(r.flags) /\ HasEvent(r.flags) =>
                       CloudItems(r) = <<r.seq, r.event, a, <<r.session>>, b, <<r.payload>>>>
<1> DEFINE a == to_bytesb(r.session)
           b == to_bytesb(r.payload)
           s == <<r.session>>
           p == <<r.payload>>
           q == r.seq
           e == r.event
<1>1. Sized(r.session) = <<a, s>> /\ Sized(r.payload) = <<b, p>>
  BY DEF Sized
<1>2. r.type = 15 => CloudItems(r) = <<r.code>> \o <<b, p>>
  BY <1>1 DEF CloudItems, ERROR_INFO
<1>3. r.type # 15 =>
        CloudItems(r) = (((IF HasSequence(r.flags) THEN <<q>> ELSE <<>>)
                         \o (IF HasEvent(r.flags) THEN <<e>> ELSE <<>>)) \o <<a, s>>) \o <<b, p>>
  BY <1>1 DEF CloudItems, ERROR_INFO
<1> HIDE DEF a, b, s, p, q, e
<1>4. <<r.code>> \o <<b, p>> = <<r.code, b, p>>
  BY Tuples
<1>5. /\ <<>> \o <<>> = <<>> /\ <<>> \o <<a, s>> = <<a, s>> /\ <<a, s>> \o <<b, p>> = <<a, s, b, p>>
  BY Tuples
<1>6. /\ <<q>> \o <<>> = <<q>> /\ <<q>> \o <<a, s>> = <<q, a, s>>
      /\ <<q, a, s>> \o <<b, p>> = <<q, a, s, b, p>>
  BY Tuples
<1>7. /\ <<>> \o <<e>> = <<e>> /\ <<e>> \o <<a, s>> = <<e, a, s>>
      /\ <<e, a, s>> \o <<b, p>> = <<e, a, s, b, p>>
  BY Tuples
<1>8. /\ <<q>> \o <<e>> = <<q, e>> /\ <<q, e>> \o <<a, s>> = <<q, e, a, s>>
      /\ <<q, e, a, s>> \o <<b, p>> = <<q, e, a, s, b, p>>
  BY Tuples
<1>9. r.type = 15 => CloudItems(r) = <<r.code, b, p>>
  BY <1>2, <1>4
<1>10. r.type # 15 /\ ~HasSequence(r.flags) /\ ~HasEvent(r.flags) => CloudItems(r) = <<a, s, b, p>>
  BY <1>3, <1>5
<1>11. r.type # 15 /\ HasSequence(r.flags) /\ ~HasEvent(r.flags) => CloudItems(r) = <<q, a, s, b, p>>
  BY <1>3, <1>6
<1>12. r.type # 15 /\ ~HasSequence(r.flags) /\ HasEvent(r.flags) => CloudItems(r) = <<e, a, s, b, p>>
  BY <1>3, <1>7
<1>13. r.type # 15 /\ HasSequence(r.flags) /\ HasEvent(r.flags) => CloudItems(r) = <<q, e, a, s, b, p>>
  BY <1>3, <1>8
<1> QED BY <1>9, <1>10, <1>11, <1>12, <1>13 DEF a, b, s, p, q, e

\* Event IDs of responses are words.
LEMMA EventsAreWords == Events \subseteq Word
  BY SmallInts DEF Events, Started, Finished

\* Integers and texts, in one of the shapes that requests and responses have.
Shaped(items) == \E u, v, w, x \in Word, a, b \in Sizes :
    \/ items = <<u, v, <<a>>>>
    \/ items = <<u, <<a>>, v, <<b>>>>
    \/ items = <<u, v, <<a>>, w, <<b>>>>
    \/ items = <<u, v, w, <<a>>, x, <<b>>>>

\* Items of these shapes have a length that fits in a size_t.
LEMMA ShapedLength == ASSUME NEW items, Shaped(items) PROVE FrameLength(items) \in Uint32
<1>1. PICK u, v, w, x \in Word, a, b \in Sizes :
           \/ items = <<u, v, <<a>>>>
           \/ items = <<u, <<a>>, v, <<b>>>>
           \/ items = <<u, v, <<a>>, w, <<b>>>>
           \/ items = <<u, v, w, <<a>>, x, <<b>>>>
  BY DEF Shaped
<1>2. \/ FrameLength(items) = a + 12
      \/ \E c \in {12, 16, 20} : FrameLength(items) = a + b + c
  BY <1>1, Items
<1>3. a + 12 \in Uint32 /\ \A c \in {12, 16, 20} : a + b + c \in Uint32
  BY SizesFit
<1> QED BY <1>2, <1>3

\* Items of these shapes are integers and texts.
LEMMA ShapedItems ==
    ASSUME NEW items, Shaped(items)
    PROVE  \A i \in DOMAIN items : Item(items[i])
<1>1. PICK u, v, w, x \in Word, a, b \in Sizes :
           \/ items = <<u, v, <<a>>>>
           \/ items = <<u, <<a>>, v, <<b>>>>
           \/ items = <<u, v, <<a>>, w, <<b>>>>
           \/ items = <<u, v, w, <<a>>, x, <<b>>>>
  BY DEF Shaped
<1>2. Item(u) /\ Item(v) /\ Item(w) /\ Item(x)
  BY DEF Item
<1>3. a \in Nat /\ b \in Nat
  BY SizesFit
<1>4. Item(<<a>>) /\ Item(<<b>>)
  BY <1>3 DEF Item
<1> QED BY <1>1, <1>2, <1>4

\* A response has one of these shapes.
LEMMA ResponseShaped == ASSUME NEW r \in Responses PROVE Shaped(CloudItems(r))
<1> DEFINE a == to_bytesb(r.session)
           b == to_bytesb(r.payload)
           items == CloudItems(r)
<1>1. r.payload \in Sizes /\ b \in Word
  <2>1. r.payload \in Sizes
    BY ResponseFields
  <2>2. r.payload \in Uint32
    BY <2>1, SizesFit
  <2> QED BY <2>1, <2>2, BytesOf
<1>2. CASE r.type = 15
  <2>1. items = <<r.code, b, <<r.payload>>>> /\ r.code \in Word
    BY <1>2, ResponseFields, CloudItemsShape
  <2> HIDE DEF b, items
  <2>2. Shaped(items)
    BY <1>1, <2>1 DEF Shaped
  <2> QED BY <2>2 DEF items
<1>3. CASE r.type # 15
  <2>1. /\ r.session \in Sizes
        /\ HasSequence(r.flags) => r.seq \in Word
        /\ HasEvent(r.flags) => r.event \in Word
    BY <1>3, ResponseFields, EventsAreWords
  <2>2. r.session \in Uint32
    BY <2>1, SizesFit
  <2>3. a \in Word
    BY <2>2, BytesOf
  <2>4. /\ ~HasSequence(r.flags) /\ ~HasEvent(r.flags) =>
              items = <<a, <<r.session>>, b, <<r.payload>>>>
        /\ HasSequence(r.flags) /\ ~HasEvent(r.flags) =>
              items = <<r.seq, a, <<r.session>>, b, <<r.payload>>>>
        /\ ~HasSequence(r.flags) /\ HasEvent(r.flags) =>
              items = <<r.event, a, <<r.session>>, b, <<r.payload>>>>
        /\ HasSequence(r.flags) /\ HasEvent(r.flags) =>
              items = <<r.seq, r.event, a, <<r.session>>, b, <<r.payload>>>>
    BY <1>3, CloudItemsShape
  <2> HIDE DEF a, b, items
  <2>5. Shaped(items)
    <3>1. CASE ~HasSequence(r.flags) /\ ~HasEvent(r.flags)
      BY <1>1, <2>1, <2>3, <2>4, <3>1 DEF Shaped
    <3>2. CASE HasSequence(r.flags) /\ ~HasEvent(r.flags)
      BY <1>1, <2>1, <2>3, <2>4, <3>2 DEF Shaped
    <3>3. CASE ~HasSequence(r.flags) /\ HasEvent(r.flags)
      BY <1>1, <2>1, <2>3, <2>4, <3>3 DEF Shaped
    <3>4. CASE HasSequence(r.flags) /\ HasEvent(r.flags)
      BY <1>1, <2>1, <2>3, <2>4, <3>4 DEF Shaped
    <3> QED BY <3>1, <3>2, <3>3, <3>4
  <2> QED BY <2>5 DEF items
<1> QED BY <1>2, <1>3

\* read_message() finds the whole of every response.
LEMMA WholeResponse ==
    ASSUME NEW r \in Responses, NEW f, f = CloudFrame(r)
    PROVE  ReadLength(CloudHeader(FrameLength(f.items))) = FrameLength(f.items)
<1>1. Shaped(f.items)
  BY CloudHead, ResponseShaped
<1> QED BY <1>1, ShapedLength, LengthFromCloud

\* What parse() makes of a regular response, from what its items are.
LEMMA ParsedBack ==
    ASSUME NEW r \in Responses, Regular(r), NEW f, f = CloudFrame(r)
    PROVE  AllKept(f.items) <=> parse(f) = r
<1> DEFINE a == to_bytesb(r.session)
           b == to_bytesb(r.payload)
           s == <<r.session>>
           p == <<r.payload>>
           items == f.items
<1>1. /\ items = CloudItems(r) /\ MessageType(f.head) = r.type /\ MessageFlags(f.head) = r.flags
  BY CloudHead
<1>2. /\ r = [type |-> r.type, flags |-> r.flags, seq |-> r.seq, event |-> r.event,
              code |-> r.code, session |-> r.session, payload |-> r.payload]
      /\ r.flags \in Flags
      /\ r.payload \in Sizes
  BY ResponseFields
<1>3. /\ r.type # 15 => ReadsSequence(r.flags) = HasSequence(r.flags)
      /\ ReadsEvent(r.flags) = HasEvent(r.flags)
  BY <1>2, FramesAssumption, FlagsAgree DEF Regular, ERROR_INFO, ReadsEvent, HasEvent
<1>4. b \in Word /\ Len(b) = 4 /\ Len(p) = 1 /\ Len(s) = 1
  <2>1. r.payload \in Uint32
    BY <1>2, SizesFit
  <2>2. b \in Word
    BY <2>1, BytesOf
  <2>3. Len(p) = 1 /\ Len(s) = 1
    OBVIOUS
  <2> HIDE DEF b, p, s
  <2> QED BY <2>2, <2>3, WordSeq
<1>6. CASE r.type = 15
  <2>1. /\ items = <<r.code, b, p>> /\ r.code \in Word /\ Len(r.code) = 4
        /\ r.seq = Unset /\ r.event = Unset /\ r.session = Absent
    BY <1>1, <1>6, ResponseFields, CloudItemsShape, WordSeq
  <2>2. /\ Len(items) = 3 /\ DOMAIN items = 1 .. 3
        /\ items[1] = r.code /\ items[2] = b /\ items[3] = p
    BY <2>1
  <2>4. /\ Integer(items, 1) = r.code <=> Kept(r.code)
        /\ Text(items, 2) = r.payload <=> Kept(b)
    <3>1. a = to_bytesb(r.session) /\ s = <<r.session>> /\ b = to_bytesb(r.payload) /\ p = <<r.payload>>
      OBVIOUS
    <3> HIDE DEF a, b, s, p, items
    <3>2. Integer(items, 1) = r.code <=> Kept(r.code)
      BY <2>1, <2>2, ClientInteger
    <3>3. Text(items, 2) = r.payload <=> Kept(b)
      <4>1. 2 < Len(items) /\ items[2] = to_bytesb(r.payload) /\ items[2 + 1] = <<r.payload>>
        BY <2>2, <3>1
      <4>2. 2 \in Nat \ {0} /\ r.payload \in Sizes
        BY <1>2, <2>1
      <4>3. Text(items, 2) = r.payload <=> Kept(to_bytesb(r.payload))
        BY <4>1, <4>2, ClientText
      <4> QED BY <3>1, <4>3
    <3> QED BY <3>2, <3>3
  <2>5. AllKept(items) <=> Kept(r.code) /\ Kept(b)
    BY <1>4, <2>1, <2>2 DEF AllKept
  <2>6. parse(f) = [type |-> r.type, flags |-> r.flags, seq |-> Unset, event |-> Unset,
                     code |-> Integer(items, 1), session |-> Absent,
                     payload |-> Text(items, 2)]
    BY <1>1, <1>3, <1>6, <2>1 DEF parse, FULL_SERVER_RSP, AUDIO_ONLY_RSP, ERROR_INFO
  <2>7. parse(f) = r <=> Integer(items, 1) = r.code /\ Text(items, 2) = r.payload
    <3> HIDE DEF items
    <3> QED BY <1>2, <2>1, <2>6
  <2> QED BY <2>4, <2>5, <2>7
<1>7. CASE r.type # 15
  <2> DEFINE j == AfterSequence(r.flags)
             k == AfterEvent(r.flags)
  <2>1. /\ r.type \in {9, 11} /\ r.code = Unset /\ r.session \in Sizes
        /\ IF HasSequence(r.flags) THEN r.seq \in Word ELSE r.seq = Unset
        /\ IF HasEvent(r.flags) THEN r.event \in Word ELSE r.event = Unset
    BY <1>7, ResponseFields, EventsAreWords
  <2>2. a \in Word /\ Len(a) = 4
    <3>1. r.session \in Uint32
      BY <2>1, SizesFit
    <3>2. a \in Word
      BY <3>1, BytesOf
    <3> HIDE DEF a
    <3> QED BY <3>2, WordSeq
  <2>3. /\ ~HasSequence(r.flags) /\ ~HasEvent(r.flags) => j = 1 /\ k = 1 /\ items = <<a, s, b, p>>
        /\ HasSequence(r.flags) /\ ~HasEvent(r.flags) => j = 2 /\ k = 2 /\ items = <<r.seq, a, s, b, p>>
        /\ ~HasSequence(r.flags) /\ HasEvent(r.flags) => j = 1 /\ k = 2 /\ items = <<r.event, a, s, b, p>>
        /\ HasSequence(r.flags) /\ HasEvent(r.flags) =>
              j = 2 /\ k = 3 /\ items = <<r.seq, r.event, a, s, b, p>>
    <3>1. j = IF HasSequence(r.flags) THEN 2 ELSE 1
      BY <1>3, <1>7 DEF AfterSequence
    <3>2. k = j + (IF HasEvent(r.flags) THEN 1 ELSE 0)
      BY <1>3 DEF AfterEvent
    <3>3. /\ ~HasSequence(r.flags) /\ ~HasEvent(r.flags) => CloudItems(r) = <<a, s, b, p>>
          /\ HasSequence(r.flags) /\ ~HasEvent(r.flags) => CloudItems(r) = <<r.seq, a, s, b, p>>
          /\ ~HasSequence(r.flags) /\ HasEvent(r.flags) => CloudItems(r) = <<r.event, a, s, b, p>>
          /\ HasSequence(r.flags) /\ HasEvent(r.flags) => CloudItems(r) = <<r.seq, r.event, a, s, b, p>>
      BY <1>7, CloudItemsShape
    <3> HIDE DEF a, b, s, p, j, k, items
    <3> QED BY <1>1, <3>1, <3>2, <3>3
  <2>4. /\ j \in 1 .. 2 /\ k \in 1 .. 3 /\ Len(items) = k + 3 /\ DOMAIN items = 1 .. k + 3
        /\ items[k] = a /\ items[k + 1] = s /\ items[k + 2] = b /\ items[k + 3] = p
        /\ HasSequence(r.flags) => j = 2 /\ items[1] = r.seq
        /\ HasEvent(r.flags) => k = j + 1 /\ items[j] = r.event
        /\ ~HasSequence(r.flags) => j = 1
        /\ ~HasEvent(r.flags) => k = j
    <3> HIDE DEF a, b, s, p, j, k, items
    <3>1. CASE ~HasSequence(r.flags) /\ ~HasEvent(r.flags)
      BY <2>3, <3>1
    <3>2. CASE HasSequence(r.flags) /\ ~HasEvent(r.flags)
      BY <2>3, <3>2
    <3>3. CASE ~HasSequence(r.flags) /\ HasEvent(r.flags)
      BY <2>3, <3>3
    <3>4. CASE HasSequence(r.flags) /\ HasEvent(r.flags)
      BY <2>3, <3>4
    <3> QED BY <3>1, <3>2, <3>3, <3>4
  <2>5. /\ HasSequence(r.flags) => (Integer(items, 1) = r.seq <=> Kept(r.seq))
        /\ HasEvent(r.flags) => (Integer(items, j) = r.event <=> Kept(r.event))
    <3> HIDE DEF a, b, s, p, j, k, items
    <3>1. 1 <= Len(items) /\ j <= Len(items) /\ j \in Nat \ {0}
      BY <2>4
    <3> QED BY <2>1, <2>4, <3>1, ClientInteger
  <2>6. /\ Text(items, k) = r.session <=> Kept(a)
        /\ Text(items, k + 2) = r.payload <=> Kept(b)
    <3> HIDE DEF j, k, items
    <3>1. k < Len(items) /\ k + 2 < Len(items) /\ k \in Nat \ {0} /\ k + 2 \in Nat \ {0} /\ (k + 2) + 1 = k + 3
      BY <2>4
    <3>2. items[k] = a /\ items[k + 1] = s /\ items[k + 2] = b /\ items[(k + 2) + 1] = p
      BY <2>4, <3>1
    <3>3. Text(items, k) = r.session <=> Kept(a)
      BY <2>1, <3>1, <3>2, ClientText
    <3>4. Text(items, k + 2) = r.payload <=> Kept(b)
      BY <1>2, <3>1, <3>2, ClientText
    <3> QED BY <3>3, <3>4
  <2>7. AllKept(items) <=> /\ HasSequence(r.flags) => Kept(r.seq)
                           /\ HasEvent(r.flags) => Kept(r.event)
                           /\ Kept(a) /\ Kept(b)
    <3> HIDE DEF a, b, s, p, j, k, items
    <3>1. \A i \in DOMAIN items : \/ i \in {k, k + 1, k + 2, k + 3}
                                  \/ HasSequence(r.flags) /\ i = 1
                                  \/ HasEvent(r.flags) /\ i = j
      BY <2>4
    <3>2. HasSequence(r.flags) => 1 \in DOMAIN items /\ Len(items[1]) = 4
      BY <2>1, <2>4, WordSeq
    <3>3. HasEvent(r.flags) => j \in DOMAIN items /\ Len(items[j]) = 4
      BY <2>1, <2>4, WordSeq
    <3>4. k \in DOMAIN items /\ k + 2 \in DOMAIN items
      BY <2>4
    <3>5. Len(items[k]) = 4 /\ Len(items[k + 2]) = 4 /\ Len(items[k + 1]) = 1 /\ Len(items[k + 3]) = 1
      BY <1>4, <2>2, <2>4
    <3>6. ASSUME AllKept(items)
          PROVE  /\ HasSequence(r.flags) => Kept(r.seq)
                 /\ HasEvent(r.flags) => Kept(r.event)
                 /\ Kept(a) /\ Kept(b)
      <4>1. \A i \in DOMAIN items : Len(items[i]) = 4 => Kept(items[i])
        BY <3>6 DEF AllKept
      <4> QED BY <2>4, <3>2, <3>3, <3>4, <3>5, <4>1
    <3>7. ASSUME HasSequence(r.flags) => Kept(r.seq), HasEvent(r.flags) => Kept(r.event),
                 Kept(a), Kept(b),
                 NEW i \in DOMAIN items, Len(items[i]) = 4
          PROVE  Kept(items[i])
      <4>1. CASE i \in {k, k + 1, k + 2, k + 3}
        BY <2>4, <3>5, <3>7, <4>1
      <4>2. CASE HasSequence(r.flags) /\ i = 1
        BY <2>4, <3>7, <4>2
      <4>3. CASE HasEvent(r.flags) /\ i = j
        BY <2>4, <3>7, <4>3
      <4> QED BY <3>1, <4>1, <4>2, <4>3
    <3> QED BY <3>6, <3>7 DEF AllKept
  <2>8. parse(f) = [type |-> r.type, flags |-> r.flags,
                     seq |-> IF HasSequence(r.flags) THEN Integer(items, 1) ELSE Unset,
                     event |-> IF HasEvent(r.flags) THEN Integer(items, j) ELSE Unset,
                     code |-> Unset, session |-> Text(items, k), payload |-> Text(items, k + 2)]
    BY <1>1, <1>3, <1>7, <2>1 DEF parse, FULL_SERVER_RSP, AUDIO_ONLY_RSP
  <2>9. parse(f) = r <=> /\ HasSequence(r.flags) => Integer(items, 1) = r.seq
                         /\ HasEvent(r.flags) => Integer(items, j) = r.event
                         /\ Text(items, k) = r.session /\ Text(items, k + 2) = r.payload
    <3> HIDE DEF items, j, k
    <3> QED BY <1>2, <2>1, <2>8
  <2> QED BY <2>5, <2>6, <2>7, <2>9
<1> QED BY <1>6, <1>7

\* A response whose flags parse() reads otherwise is misread: it has a number that
\* parse() does not set, or none where parse() sets one.
LEMMA Misread ==
    ASSUME NEW r \in Responses, ~Regular(r), NEW f, f = CloudFrame(r)
    PROVE  parse(f) # r
<1>1. /\ MessageType(f.head) = r.type /\ MessageFlags(f.head) = r.flags
  BY CloudHead
<1>2. /\ r.type \in {9, 11} /\ r.flags \in Flags
      /\ IF HasSequence(r.flags) THEN r.seq \in Word ELSE r.seq = Unset
  BY ResponseFields DEF Regular, ERROR_INFO
<1>3. ReadsSequence(r.flags) # HasSequence(r.flags)
  BY <1>2, FramesAssumption, FlagsAgree DEF Regular
<1>4. parse(f).seq = IF ReadsSequence(r.flags) THEN Integer(f.items, 1) ELSE Unset
  BY <1>1, <1>2 DEF parse, FULL_SERVER_RSP, AUDIO_ONLY_RSP
<1>5. Integer(f.items, 1) # Unset
  BY DEF Integer, from_byteb, Unset
<1>6. \A w \in Word : w # Unset
  BY DEF Word, Unset
<1> QED BY <1>2, <1>3, <1>4, <1>5, <1>6 DEF ReadsSequence, HasSequence

----------------------------------------------------------------------------
(* The connection *)

\* What is under way is a request or a response as its maker left it.
Sent(m) == \E r \in Requests(session), v \in Reserved : \E f :
    /\ f = Built(r, v)
    /\ m = Message("cloud", r, LengthHeader(FrameLength(f.items)), f)

Answered(m) == \E r \in Responses : \E f :
    /\ f = CloudFrame(r)
    /\ m = Message("client", r, CloudHeader(FrameLength(f.items)), f)

WireInv ==
    /\ session \in Sessions
    /\ wire = <<>> \/ \E m : wire = <<m>> /\ (Sent(m) \/ Answered(m))

\* The message under way is as its maker left it, always.
LEMMA WireInvariant == Spec => []WireInv
<1>1. Init => WireInv
  BY DEF Init, WireInv
<1>2. WireInv /\ [Next]_vars => WireInv'
  <2> SUFFICES ASSUME WireInv, [Next]_vars PROVE WireInv'
    OBVIOUS
  <2> USE DEF WireInv
  <2>1. ASSUME NEW r \in Requests(session), NEW v \in Reserved, ClientSends(r, v)
        PROVE  WireInv'
    <3> DEFINE f == Built(r, v)
               m == Message("cloud", r, LengthHeader(FrameLength(f.items)), f)
    <3>1. wire' = <<m>> /\ session' = session
      BY <2>1 DEF ClientSends
    <3>2. Sent(m)'
      BY <3>1 DEF Sent
    <3> HIDE DEF m
    <3> QED BY <3>1, <3>2
  <2>2. CASE CloudReads
    BY <2>2 DEF CloudReads
  <2>3. ASSUME NEW r \in Responses, CloudSends(r)
        PROVE  WireInv'
    <3> DEFINE f == CloudFrame(r)
               m == Message("client", r, CloudHeader(FrameLength(f.items)), f)
    <3>1. wire' = <<m>> /\ session' = session
      BY <2>3 DEF CloudSends
    <3>2. Answered(m)'
      BY DEF Answered
    <3> HIDE DEF m
    <3> QED BY <3>1, <3>2
  <2>4. CASE ClientReads
    BY <2>4 DEF ClientReads
  <2>5. CASE UNCHANGED vars
    BY <2>5 DEF vars, Sent, Answered
  <2> QED BY <2>1, <2>2, <2>3, <2>4, <2>5 DEF Next
<1> QED BY <1>1, <1>2, PTL DEF Spec

\* Who a message is to tells who made it.
LEMMA WhoSent ==
    ASSUME WireInv
    PROVE  /\ Under("cloud") => wire = <<wire[1]>> /\ Sent(wire[1])
           /\ Under("client") => wire = <<wire[1]>> /\ Answered(wire[1])
           /\ wire # <<>> => Under("cloud") \/ Under("client")
<1>1. CASE wire = <<>>
  BY <1>1 DEF Under
<1>2. ASSUME NEW m, wire = <<m>>, Sent(m) \/ Answered(m)
      PROVE  /\ Under("cloud") => wire = <<wire[1]>> /\ Sent(wire[1])
             /\ Under("client") => wire = <<wire[1]>> /\ Answered(wire[1])
             /\ wire # <<>> => Under("cloud") \/ Under("client")
  <2>1. wire[1] = m
    BY <1>2
  <2>2. Sent(m) => m.to = "cloud"
    BY DEF Sent, Message
  <2>3. Answered(m) => m.to = "client"
    BY DEF Answered, Message
  <2>4. ~(m.to = "cloud" /\ m.to = "client")
    OBVIOUS
  <2> QED BY <1>2, <2>1, <2>2, <2>3, <2>4 DEF Under
<1> QED BY <1>1, <1>2 DEF WireInv

\* Every request is understood, for every length of session ID and payload that
\* fits in memory and whatever the uninitialised byte holds.
THEOREM RequestsCorrect == Spec => []RequestsUnderstood
<1>1. WireInv => RequestsUnderstood
  <2> SUFFICES ASSUME WireInv, Under("cloud")
               PROVE  CloudUnderstands(wire[1].meant, wire[1].length, wire[1].frame)
    BY DEF RequestsUnderstood
  <2>1. Sent(wire[1]) /\ session \in Sessions
    BY WhoSent DEF WireInv
  <2>r. PICK r \in Requests(session), v \in Reserved : \E f :
             /\ f = Built(r, v)
             /\ wire[1] = Message("cloud", r, LengthHeader(FrameLength(f.items)), f)
    BY <2>1 DEF Sent
  <2>2. PICK f :
             /\ f = Built(r, v)
             /\ wire[1] = Message("cloud", r, LengthHeader(FrameLength(f.items)), f)
    BY <2>r
  <2>3. /\ wire[1].meant = r /\ wire[1].frame = f
        /\ wire[1].length = LengthHeader(FrameLength(f.items))
    BY <2>2 DEF Message
  <2>4. CloudUnderstands(r, LengthHeader(FrameLength(f.items)), f)
    BY <2>1, <2>r, <2>2, BuiltUnderstood
  <2> QED BY <2>3, <2>4
<1> QED BY <1>1, WireInvariant, PTL

\* For all flags, numbers and lengths, on platforms with signed and with unsigned
\* chars: read_message() finds the whole response, and parse() returns what was
\* sent exactly when the flags are agreed and no char spoils an integer.
THEOREM ResponsesCorrect == Spec => []ResponsesUnderstood
<1>1. WireInv => ResponsesUnderstood
  <2> SUFFICES ASSUME WireInv, Under("client")
               PROVE  /\ ReadLength(wire[1].length) = FrameLength(wire[1].frame.items)
                      /\ Regular(wire[1].meant) /\ AllKept(wire[1].frame.items)
                            <=> parse(wire[1].frame) = wire[1].meant
    BY DEF ResponsesUnderstood
  <2>r. PICK r \in Responses : \E f :
             /\ f = CloudFrame(r)
             /\ wire[1] = Message("client", r, CloudHeader(FrameLength(f.items)), f)
    BY WhoSent DEF Answered
  <2>1. PICK f :
             /\ f = CloudFrame(r)
             /\ wire[1] = Message("client", r, CloudHeader(FrameLength(f.items)), f)
    BY <2>r
  <2>2. /\ wire[1].meant = r /\ wire[1].frame = f
        /\ wire[1].length = CloudHeader(FrameLength(f.items))
    BY <2>1 DEF Message
  <2>3. /\ ReadLength(CloudHeader(FrameLength(f.items))) = FrameLength(f.items)
        /\ Regular(r) /\ AllKept(f.items) <=> parse(f) = r
    BY <2>r, <2>1, WholeResponse, ParsedBack, Misread
  <2> QED BY <2>2, <2>3
<1> QED BY <1>1, WireInvariant, PTL

\* The events of a session are four bytes, each its own.
LEMMA SessionEvents ==
    /\ to_bytesb(Started) # to_bytesb(Finished)
    /\ to_bytesb(Started) # Unset /\ to_bytesb(Finished) # Unset
<1>1. to_bytesb(Started)[4] = 150 /\ to_bytesb(Finished)[4] = 152
  BY DEF to_bytesb, Started, Finished
<1>2. to_bytesb(Started) # <<>> /\ to_bytesb(Finished) # <<>>
  BY DEF to_bytesb
<1> QED BY <1>1, <1>2 DEF Unset

\* What holds of is_ready while a response with the event e is under way: what the
\* cloud has said of the session is_ready is about to follow.
Awaits(e) ==
    /\ e = to_bytesb(Started) => inSession
    /\ e = to_bytesb(Finished) => ~inSession
    /\ e \notin {to_bytesb(Started), to_bytesb(Finished)} => (inSession => isReady)
    /\ e \notin {to_bytesb(Started), to_bytesb(Finished), Unset} =>
          (isReady => inSession \/ unsaid)
    /\ e = Unset => unsaid

Follows == (inSession => isReady) /\ (isReady => inSession \/ unsaid)

\* After regular responses is_ready follows the session, or will when the response
\* under way is read.
ReadyInv == regular =>
    /\ ~Under("client") => Follows
    /\ Under("client") => /\ Awaits(wire[1].meant.event)
                          /\ Regular(wire[1].meant) /\ AllKept(wire[1].frame.items)

\* ReadyInv is inductive, given that regular responses are understood.
LEMMA ReadyInductive == Spec => []ReadyInv
<1>1. Init => ReadyInv
  BY DEF Init, ReadyInv, Under, Follows
<1>2. ResponsesUnderstood /\ ReadyInv /\ [Next]_vars => ReadyInv'
  <2> SUFFICES ASSUME ResponsesUnderstood, ReadyInv, [Next]_vars PROVE ReadyInv'
    OBVIOUS
  <2>1. ASSUME NEW r \in Requests(session), NEW v \in Reserved, ClientSends(r, v)
        PROVE  ReadyInv'
    <3>1. wire = <<>> /\ UNCHANGED <<isReady, inSession, unsaid, regular>>
      BY <2>1 DEF ClientSends
    <3>2. wire'[1].to = "cloud"
      BY <2>1 DEF ClientSends, Message
    <3>3. ~Under("client") /\ ~Under("client")'
      BY <3>1, <3>2 DEF Under
    <3> QED BY <3>1, <3>3 DEF ReadyInv, Follows
  <2>2. CASE CloudReads
    <3>1. /\ ~Under("client") /\ ~Under("client")'
          /\ UNCHANGED <<isReady, inSession, unsaid, regular>>
      BY <2>2 DEF CloudReads, Under
    <3> QED BY <3>1 DEF ReadyInv, Follows
  <2>3. ASSUME NEW r \in Responses, CloudSends(r)
        PROVE  ReadyInv'
    <3>1. /\ wire = <<>> /\ isReady' = isReady
          /\ regular' = (regular /\ Regular(r) /\ AllKept(CloudFrame(r).items))
      BY <2>3 DEF CloudSends
    <3>2. wire' # <<>> /\ wire'[1].to = "client" /\ wire'[1].meant = r
          /\ wire'[1].frame = CloudFrame(r)
      BY <2>3 DEF CloudSends, Message
    <3>3. ~Under("client") /\ Under("client")'
      BY <3>1, <3>2 DEF Under
    <3>4. SUFFICES ASSUME regular' PROVE /\ Awaits(r.event)'
                                        /\ Regular(r) /\ AllKept(CloudFrame(r).items)
      BY <3>1, <3>2, <3>3 DEF ReadyInv, Awaits, Regular, AllKept
    <3>5. Follows
      BY <3>1, <3>3, <3>4 DEF ReadyInv
    <3>6. Awaits(r.event)'
      BY <2>3, <3>1, <3>5, SessionEvents DEF CloudSends, Awaits, Follows
    <3> QED BY <3>1, <3>4, <3>6
  <2>4. CASE ClientReads
    <3>1. Under("client") /\ wire' = <<>> /\ UNCHANGED <<inSession, unsaid, regular>>
      BY <2>4 DEF ClientReads, Under
    <3>2. ~Under("client")'
      BY <3>1 DEF Under
    <3>3. SUFFICES ASSUME regular PROVE Follows'
      BY <3>1, <3>2 DEF ReadyInv
    <3> DEFINE e == wire[1].meant.event
    <3>4. parse(wire[1].frame) = wire[1].meant /\ Awaits(e)
      BY <3>1, <3>3 DEF ReadyInv, ResponsesUnderstood
    <3>5. PICK seen \in EventsSeen(e) : isReady' = ReadyAfter(e, seen)
      BY <2>4, <3>4 DEF ClientReads
    <3> HIDE DEF e
    <3>6. seen = e \/ e = Unset
      BY <3>5 DEF EventsSeen
    <3> QED BY <3>1, <3>4, <3>5, <3>6, SessionEvents DEF Follows, Awaits, ReadyAfter
  <2>5. CASE UNCHANGED vars
    BY <2>5 DEF vars, ReadyInv, Under, Follows, Awaits, Regular, AllKept
  <2> QED BY <2>1, <2>2, <2>3, <2>4, <2>5 DEF Next
<1> QED BY <1>1, <1>2, ResponsesCorrect, PTL DEF Spec

\* However long the connection lives: while responses are regular, is_ready is set
\* during a session, and without one only by a frame that lacks an event.
THEOREM ReadyCorrect == Spec => []ReadyFollowsSession
<1>1. ReadyInv => ReadyFollowsSession
  BY DEF ReadyInv, ReadyFollowsSession, Follows
<1> QED BY <1>1, ReadyInductive, PTL

----------------------------------------------------------------------------
(* Types *)

\* Both sides' headers are bytes.
LEMMA HeaderBytes ==
    ASSUME NEW n \in Uint32
    PROVE  /\ \A i \in DOMAIN LengthHeader(n) : LengthHeader(n)[i] \in Byte
           /\ \A i \in DOMAIN CloudHeader(n) : CloudHeader(n)[i] \in Byte
<1>1. n \in Nat /\ to_bytesb(n) \in Seq(Byte)
  <2>1. n \in Nat
    BY Zenon DEF Uint32
  <2>2. to_bytesb(n) \in Word
    BY BytesOf
  <2> QED BY <2>1, <2>2, WordSeq
<1>2. \A x \in Byte : <<x, 0, 0, 0, 0>> \in Seq(Byte)
  BY DEF Byte
<1>3. \A x \in Byte : <<x, 0, 0, 0, 0>> \o to_bytesb(n) \in Seq(Byte)
  <2> TAKE x \in Byte
  <2> DEFINE t == <<x, 0, 0, 0, 0>>
             w == to_bytesb(n)
  <2>1. t \in Seq(Byte) /\ w \in Seq(Byte)
    BY <1>1, <1>2
  <2> HIDE DEF t, w
  <2>2. t \o w \in Seq(Byte)
    BY <2>1, ConcatProperties
  <2> QED BY <2>2 DEF t, w
<1>4. \A s \in Seq(Byte) : \A i \in DOMAIN s : s[i] \in Byte
  OBVIOUS
<1>5. LengthHeader(n) \in Seq(Byte)
  <2>1. CASE ~Medium(n)
    BY <1>1, <2>1 DEF LengthHeader, Medium, Byte
  <2>2. CASE Medium(n) /\ ~Long(n)
    <3>1. (n \div 256) % 256 \in Byte /\ n % 256 \in Byte /\ 126 + 128 \in Byte
      BY <1>1, <2>2, TwoBytes DEF Long, Byte, Max16, Shift16
    <3> QED BY <2>2, <3>1 DEF LengthHeader
  <2>3. CASE Medium(n) /\ Long(n)
    <3>1. 127 + 128 \in Byte
      BY DEF Byte
    <3> QED BY <1>3, <2>3, <3>1 DEF LengthHeader
  <2> QED BY <2>1, <2>2, <2>3
<1>6. CloudHeader(n) \in Seq(Byte)
  <2>1. CASE n <= 125
    BY <1>1, <2>1 DEF CloudHeader, Byte
  <2>2. CASE ~(n <= 125) /\ n <= Max16
    <3>1. n \div 256 \in Byte /\ n % 256 \in Byte /\ 126 \in Byte
      BY <1>1, <2>2, TwoBytes DEF Byte
    <3> QED BY <2>2, <3>1 DEF CloudHeader
  <2>3. CASE ~(n <= 125) /\ ~(n <= Max16)
    <3>1. 127 \in Byte
      BY DEF Byte
    <3> QED BY <1>3, <2>3, <3>1 DEF CloudHeader
  <2> QED BY <2>1, <2>2, <2>3
<1> QED BY <1>4, <1>5, <1>6

\* What a message on the wire is made of.
Typed(m) ==
    /\ m.to \in {"cloud", "client"}
    /\ \A i \in DOMAIN m.length : m.length[i] \in Byte
    /\ m.frame.head \in Word
    /\ \A i \in DOMAIN m.frame.items : Item(m.frame.items[i])

\* A request is typed.
LEMMA RequestTyped ==
    ASSUME NEW s \in Sessions, NEW r \in Requests(s), NEW v \in Reserved,
           NEW f, f = Built(r, v)
    PROVE  Typed(Message("cloud", r, LengthHeader(FrameLength(f.items)), f))
<1> DEFINE n == FrameLength(f.items)
           a == to_bytesb(r.event)
           b == to_bytesb(r.session)
           c == to_bytesb(r.payload)
<1>1. /\ f.head = <<17, (IF r.event = 200 THEN 2 ELSE 1) * 16 + 4,
                    (IF r.event = 200 THEN 0 ELSE 1) * 16, v>>
      /\ r.event \in {1, 2, 100, 102, 200, 300, 500}
      /\ r.payload \in Sizes
      /\ r.event \in {1, 2} => f.items = <<a, c, <<r.payload>>>>
      /\ r.event \notin {1, 2} =>
            r.session \in Sizes /\ f.items = <<a, b, <<r.session>>, c, <<r.payload>>>>
  BY RequestShape
<1>2. a \in Word
  BY <1>1, SmallInts
<1>3. r.payload \in Uint32 /\ r.payload \in Nat
  BY <1>1, SizesFit
<1>4. c \in Word
  BY <1>3, BytesOf
<1>5. f.head \in Word
  <2>1. v \in Byte
    BY FramesAssumption
  <2> QED BY <1>1, <2>1 DEF Word, Byte
<1>6. Shaped(f.items)
  <2>1. CASE r.event \in {1, 2}
    <3> HIDE DEF a, b, c
    <3> QED BY <1>1, <1>2, <1>4, <2>1 DEF Shaped
  <2>2. CASE r.event \notin {1, 2}
    <3>1. r.session \in Uint32 /\ r.session \in Sizes
      BY <1>1, <2>2, SizesFit
    <3>2. b \in Word
      BY <3>1, BytesOf
    <3> HIDE DEF a, b, c
    <3> QED BY <1>1, <1>2, <1>4, <2>2, <3>1, <3>2 DEF Shaped
  <2> QED BY <2>1, <2>2
<1>7. n \in Uint32 /\ \A i \in DOMAIN f.items : Item(f.items[i])
  BY <1>6, ShapedLength, ShapedItems
<1> QED BY <1>5, <1>7, HeaderBytes DEF Typed, Message

\* A response is typed.
LEMMA ResponseTyped ==
    ASSUME NEW r \in Responses, NEW f, f = CloudFrame(r)
    PROVE  Typed(Message("client", r, CloudHeader(FrameLength(f.items)), f))
<1>1. Shaped(f.items)
  BY CloudHead, ResponseShaped
<1>2. FrameLength(f.items) \in Uint32 /\ \A i \in DOMAIN f.items : Item(f.items[i])
  BY <1>1, ShapedLength, ShapedItems
<1>3. f.head \in Word
  <2>1. r.type \in {9, 11, 15} /\ r.flags \in 0 .. 15
    BY ResponseFields, FramesAssumption
  <2>2. r.type * 16 + r.flags \in Byte
    BY <2>1 DEF Byte
  <2>3. f.head = <<17, r.type * 16 + r.flags, 16, 0>>
    BY DEF CloudFrame, Frame
  <2> QED BY <2>2, <2>3 DEF Word, Byte
<1> QED BY <1>2, <1>3, HeaderBytes DEF Typed, Message

\* The Boolean variables are Booleans.
LEMMA FlagsTyped == Spec => [](isReady \in BOOLEAN /\ {inSession, unsaid, regular} \subseteq BOOLEAN)
<1> DEFINE Flagged == isReady \in BOOLEAN /\ {inSession, unsaid, regular} \subseteq BOOLEAN
<1>1. Init => Flagged
  BY DEF Init
<1>2. Flagged /\ [Next]_vars => Flagged'
  BY DEF Next, vars, ClientSends, CloudReads, CloudSends, ClientReads, ReadyAfter, Regular, AllKept
<1> QED BY <1>1, <1>2, PTL DEF Spec

\* Every request and response of every length is bytes on the wire, and every
\* variable keeps its type.
THEOREM TypeCorrect == Spec => []TypeOK
<1>1. WireInv /\ (isReady \in BOOLEAN /\ {inSession, unsaid, regular} \subseteq BOOLEAN) => TypeOK
  <2> SUFFICES ASSUME WireInv, isReady \in BOOLEAN /\ {inSession, unsaid, regular} \subseteq BOOLEAN
               PROVE  TypeOK
    OBVIOUS
  <2>1. session \in Sessions
    BY DEF WireInv
  <2>2. ASSUME NEW m, Sent(m)
        PROVE  m.meant \in Requests(session) /\ Typed(m)
    <3>r. PICK r \in Requests(session), v \in Reserved : \E f :
               /\ f = Built(r, v)
               /\ m = Message("cloud", r, LengthHeader(FrameLength(f.items)), f)
      BY <2>2 DEF Sent
    <3>1. PICK f :
               /\ f = Built(r, v)
               /\ m = Message("cloud", r, LengthHeader(FrameLength(f.items)), f)
      BY <3>r
    <3>2. m.meant = r
      BY <3>1 DEF Message
    <3> QED BY <2>1, <3>r, <3>1, <3>2, RequestTyped
  <2>3. ASSUME NEW m, Answered(m)
        PROVE  m.meant \in Responses /\ Typed(m)
    <3>r. PICK r \in Responses : \E f :
               /\ f = CloudFrame(r)
               /\ m = Message("client", r, CloudHeader(FrameLength(f.items)), f)
      BY <2>3 DEF Answered
    <3>1. PICK f :
               /\ f = CloudFrame(r)
               /\ m = Message("client", r, CloudHeader(FrameLength(f.items)), f)
      BY <3>r
    <3>2. m.meant = r
      BY <3>1 DEF Message
    <3> QED BY <3>1, <3>2, ResponseTyped
  <2>4. Under("cloud") => wire[1].meant \in Requests(session)
    BY <2>2, WhoSent
  <2>5. Under("client") => wire[1].meant \in Responses
    BY <2>3, WhoSent
  <2>6. Len(wire) <= 1 /\ \A k \in DOMAIN wire : k = 1 /\ wire # <<>>
    <3>1. PICK m : wire = <<>> \/ wire = <<m>>
      BY DEF WireInv
    <3>2. <<m>> # <<>> /\ DOMAIN <<m>> = 1 .. 1 /\ Len(<<m>>) = 1
      OBVIOUS
    <3>3. CASE wire = <<>>
      BY <3>3
    <3>4. CASE wire = <<m>>
      BY <3>2, <3>4
    <3> QED BY <3>1, <3>3, <3>4
  <2>7. \A k \in DOMAIN wire : Typed(wire[k])
    BY <2>2, <2>3, <2>6, WhoSent
  <2> QED BY <2>1, <2>4, <2>5, <2>6, <2>7 DEF TypeOK, Typed
<1> QED BY <1>1, WireInvariant, FlagsTyped, PTL
=============================================================================
