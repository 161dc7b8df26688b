------------------------ MODULE HuoshanDialog_proofs ------------------------
(***************************************************************************)
(* The dialog for any transcripts, action file and number of utterances,   *)
(* when every frame of the server carries its event: the robot gets the    *)
(* action of the latest transcript once for an utterance, local replies    *)
(* are heard, and the answers they replace are not.                        *)
(***************************************************************************)
EXTENDS HuoshanDialog, SequenceFacts, WellFoundedInduction

----------------------------------------------------------------------------
(* The inductive invariant *)

\* No frame without an event ID comes.
Regular == "none" \notin OtherFrames

Frames == [event : Events \cup {"none"}, utt : 0 .. MaxUtterances,
           origin : {Hello, Cloud, Local}, text : Texts \cup {NoText}]

\* The user has finished with utterance u: no transcript of it is to come.
Over(u) == u \in 1 .. spoken /\ (u = spoken => ~listening)

Ended(f) == f.event = "ASREnded"
Transcript(f) == f.event = "ASRResponse"

\* When i - 1 of the frames on their way have been handled, asrText is text.
Heard(i, text) ==
    \/ asrText = text /\ \A j \in 1 .. i - 1 : ~Transcript(inbox[j])
    \/ \E j \in 1 .. i - 1 :
          /\ Transcript(inbox[j]) /\ inbox[j].text = text
          /\ \A k \in j + 1 .. i - 1 : ~Transcript(inbox[k])

\* The text is a transcript of one of the first u utterances and, when it is to be
\* exact, the last of them all.
Said(tr, u, exact, text) ==
    \/ text = NoText
    \/ \E w \in 1 .. u :
          /\ text \in ToSet(tr[w])
          /\ exact => text = Last(tr[w]) /\ \A v \in w + 1 .. u : tr[v] = <<>>

\* The text is what the end of utterance u may find.
Final(tr, lost, u, text) == Said(tr, u, tr[u] # <<>> \/ lost = 0, text)

EndedInv ==
    \A i \in DOMAIN inbox :
        /\ inbox[i].event # "none"
        /\ Ended(inbox[i]) =>
              /\ Over(inbox[i].utt)
              /\ \E text : Heard(i, text) /\ Final(transcripts, losses, inbox[i].utt, text)

\* What has been said may still be on its way.
KnownInv ==
    /\ Said(transcripts, spoken, FALSE, asrText)
    /\ \A i \in DOMAIN inbox :
          Transcript(inbox[i]) => Said(transcripts, spoken, FALSE, inbox[i].text)

\* A loss may have thrown transcripts away, but none of the utterance in progress.
Current == (listening /\ transcripts[spoken] # <<>>) \/ losses = 0

LatestInv ==
    \E text : Heard(Len(inbox) + 1, text) /\ Said(transcripts, spoken, Current, text)

\* Transcripts arrive in order, and before the end of their utterance.
HeardInv ==
    /\ EndedInv /\ KnownInv
    /\ listening => spoken # 0
    /\ \A u \in Utterances : u > spoken => transcripts[u] = <<>>
    /\ LatestInv

\* A call is of an action for a text that the end of its utterance may find.
Right(tr, lost, call) ==
    \E u \in 1 .. call.utt : \E text \in ToSet(tr[u]) :
        /\ FirstFor(text, call.action)
        /\ tr[call.utt] # <<>> \/ lost = 0 =>
              text = Last(tr[u]) /\ \A v \in u + 1 .. call.utt : tr[v] = <<>>

\* Utterances end in order, each once, and commands follow that order.
OrderInv ==
    /\ \A i, j \in DOMAIN commanded : i < j => commanded[i].utt < commanded[j].utt
    /\ \A i, j \in DOMAIN inbox :
          i < j /\ Ended(inbox[i]) /\ Ended(inbox[j]) => inbox[i].utt < inbox[j].utt
    /\ \A i \in DOMAIN commanded, j \in DOMAIN inbox :
          Ended(inbox[j]) => commanded[i].utt < inbox[j].utt
    /\ \A i \in DOMAIN commanded : Over(commanded[i].utt)
    /\ \A i \in DOMAIN commanded : Right(transcripts, losses, commanded[i])

\* A local reply is asked for, spoken and received after the call that causes it.
Answered(u) ==
    \E i \in DOMAIN commanded :
        commanded[i].utt = u /\ (calling # NoCall => u < calling.utt)
Superseded(u) == \E i \in DOMAIN commanded : commanded[i].utt > u

ReplyStart(f) == f.event = "TTSSentenceStart" /\ f.origin = Local

ReplyInv ==
    /\ calling # NoCall => \E i \in DOMAIN commanded : commanded[i].utt = calling.utt
    /\ calling # NoCall => \A i \in DOMAIN commanded : commanded[i].utt <= calling.utt
    /\ \A i \in DOMAIN chats : Answered(chats[i])
    /\ \A i \in DOMAIN todo : todo[i].origin = Local => Answered(todo[i].utt)
    /\ \A i \in DOMAIN inbox : inbox[i].origin = Local => Answered(inbox[i].utt)
    /\ todo = <<>> => step = 0

\* While the mute is on, the audio of a local reply is preceded by a start that
\* lifts it, unless another command came after it.
MuteInv ==
    /\ disabledRemote =>
          /\ \A i \in DOMAIN inbox :
                inbox[i].event = "TTSResponse" /\ inbox[i].origin = Local =>
                    \/ Superseded(inbox[i].utt)
                    \/ \E j \in 1 .. i - 1 : ReplyStart(inbox[j])
          /\ step > 0 /\ todo[1].origin = Local =>
                \/ Superseded(todo[1].utt)
                \/ \E j \in DOMAIN inbox : ReplyStart(inbox[j])
    /\ \A d \in dropped :
          /\ d.commands <= Len(commanded)
          /\ d.audio.origin = Local => \E i \in 1 .. d.commands : commanded[i].utt > d.audio.utt

\* Without barge-in the answer is the first thing the server speaks, and what lifts
\* the mute comes after all of its audio.
Unmutes(f) == f.event = "TTSEnded" \/ ReplyStart(f)
AnswerAudio(f) == f.event = "TTSResponse" /\ f.origin = Cloud

\* The cloud's answer to u, or a part of it, is still to be handled.
Owed(u) ==
    \/ \E i \in DOMAIN inbox : AnswerAudio(inbox[i]) /\ inbox[i].utt = u
    \/ \E i \in DOMAIN todo : todo[i].origin = Cloud /\ todo[i].utt = u

\* While the user speaks, all else is quiet.
ListenInv ==
    listening => /\ todo = <<>> /\ chats = <<>> /\ calling = NoCall
                 /\ \A i \in DOMAIN inbox : inbox[i].event \in {"ASRResponse", "ChatResponse"}

AnswerFirst ==
    \A i \in DOMAIN todo :
        todo[i].origin = Cloud => i = 1 /\ \A j \in DOMAIN inbox : ~Unmutes(inbox[j])
AudioFirst ==
    \A i \in DOMAIN inbox :
        AnswerAudio(inbox[i]) => \A j \in 1 .. i - 1 : ~Unmutes(inbox[j])

\* The end of an utterance comes before its answer.
EndFirst ==
    \A i \in DOMAIN inbox, j \in DOMAIN inbox :
        AnswerAudio(inbox[i]) /\ Ended(inbox[j]) /\ inbox[i].utt = inbox[j].utt => j < i
OwedOver == \A u \in 0 .. MaxUtterances : Owed(u) => Over(u)

\* As long as an answer to a command is owed, the mute is on.
Commanded(u) == \E i \in DOMAIN commanded : commanded[i].utt = u
OwedMuted ==
    \A u \in 0 .. MaxUtterances :
        Owed(u) /\ Commanded(u) /\ u \notin unspoken /\ (calling # NoCall => u # calling.utt)
            => disabledRemote

\* What was played answers an utterance that causes no command, or no reply.
PlayedInv ==
    \A audio \in queued :
        audio.origin = Cloud =>
            /\ Over(audio.utt) /\ (Commanded(audio.utt) => audio.utt \in unspoken)
            /\ \A i \in DOMAIN inbox : Ended(inbox[i]) => inbox[i].utt # audio.utt

AnswerInv == /\ ListenInv /\ AnswerFirst /\ AudioFirst /\ EndFirst
             /\ OwedOver /\ OwedMuted /\ PlayedInv

SilenceInv == ~bargeIn => AnswerInv

IInv == TypeOK /\ HeardInv /\ OrderInv /\ ReplyInv /\ MuteInv /\ SilenceInv

----------------------------------------------------------------------------
(* Sequences *)

LEMMA AppendAt ==
    ASSUME NEW S, NEW s \in Seq(S), NEW x \in S
    PROVE  /\ Append(s, x) \in Seq(S) /\ Append(s, x) # <<>>
           /\ Len(s) \in Nat /\ DOMAIN s = 1 .. Len(s)
           /\ Len(Append(s, x)) = Len(s) + 1 /\ DOMAIN Append(s, x) = 1 .. Len(s) + 1
           /\ \A i \in 1 .. Len(s) : Append(s, x)[i] = s[i]
           /\ Append(s, x)[Len(s) + 1] = x
  BY AppendProperties, LenProperties

LEMMA TailAt ==
    ASSUME NEW S, NEW s \in Seq(S), s # <<>>
    PROVE  /\ Tail(s) \in Seq(S)
           /\ Len(s) \in Nat /\ Len(s) >= 1 /\ DOMAIN s = 1 .. Len(s)
           /\ Len(Tail(s)) = Len(s) - 1 /\ DOMAIN Tail(s) = 1 .. Len(s) - 1
           /\ \A i \in 1 .. Len(s) - 1 : Tail(s)[i] = s[i + 1]
           /\ Head(s) = s[1] /\ s[1] \in S
  <1>1. Len(s) \in Nat /\ Len(s) # 0 /\ DOMAIN s = 1 .. Len(s)
    BY LenProperties, EmptySeq
  <1>2. /\ Tail(s) \in Seq(S) /\ Len(Tail(s)) = Len(s) - 1
        /\ \A i \in 1 .. Len(Tail(s)) : Tail(s)[i] = s[i + 1]
    BY HeadTailProperties
  <1>3. DOMAIN Tail(s) = 1 .. Len(Tail(s))
    BY <1>2, LenProperties
  <1>4. Head(s) = s[1] /\ s[1] \in S
    BY <1>1, ElementOfSeq
  <1> QED BY <1>1, <1>2, <1>3, <1>4

\* A part of a sequence.
LEMMA SubSeqAt ==
    ASSUME NEW S, NEW s \in Seq(S), NEW m \in Nat, NEW n \in Nat, m >= 1, n <= Len(s)
    PROVE  /\ SubSeq(s, m, n) \in Seq(S)
           /\ Len(SubSeq(s, m, n)) = IF m <= n THEN n - m + 1 ELSE 0
           /\ \A i \in 1 .. n - m + 1 : SubSeq(s, m, n)[i] = s[m + i - 1]
  <1>1. Len(s) \in Nat /\ \A i \in 1 .. Len(s) : s[i] \in S
    BY LenProperties, ElementOfSeq
  <1>2. m \in Int /\ n \in Int /\ \A i \in m .. n : s[i] \in S
    BY <1>1
  <1> QED BY <1>2, SubSeqProperties

\* Removing an element moves those behind it.
LEMMA RemoveAtFacts ==
    ASSUME NEW S, NEW s \in Seq(S), NEW i \in 1 .. Len(s)
    PROVE  /\ RemoveAt(s, i) \in Seq(S)
           /\ Len(RemoveAt(s, i)) = Len(s) - 1
           /\ \A j \in 1 .. Len(s) - 1 :
                 RemoveAt(s, i)[j] = IF j < i THEN s[j] ELSE s[j + 1]
  <1>1. PICK n \in Nat : n = Len(s)
    BY LenProperties
  <1>2. i \in 1 .. n /\ i \in Nat
    BY <1>1, LenProperties
  <1>3. PICK a \in Seq(S) : /\ a = SubSeq(s, 1, i - 1) /\ Len(a) = i - 1
                            /\ \A j \in 1 .. i - 1 : a[j] = s[j]
    <2>1. PICK m \in Nat : m = i - 1
      BY <1>2
    <2>2. m <= Len(s) /\ 1 \in Nat
      BY <1>1, <1>2, <2>1
    <2>3. /\ SubSeq(s, 1, m) \in Seq(S)
          /\ Len(SubSeq(s, 1, m)) = IF 1 <= m THEN m - 1 + 1 ELSE 0
          /\ \A j \in 1 .. m - 1 + 1 : SubSeq(s, 1, m)[j] = s[1 + j - 1]
      BY <2>2, SubSeqAt
    <2>4. Len(SubSeq(s, 1, m)) = m
      BY <2>3
    <2>5. \A j \in 1 .. m : 1 + j - 1 = j /\ j \in 1 .. m - 1 + 1
      OBVIOUS
    <2>6. \A j \in 1 .. m : SubSeq(s, 1, m)[j] = s[j]
      BY <2>3, <2>5
    <2> QED BY <2>1, <2>3, <2>4, <2>6
  <1>4. PICK b \in Seq(S) : /\ b = SubSeq(s, i + 1, n) /\ Len(b) = n - i
                            /\ \A j \in 1 .. n - i : b[j] = s[i + j]
    <2>1. PICK m \in Nat : m = i + 1
      BY <1>2
    <2>2. m >= 1 /\ n <= Len(s)
      BY <1>1, <1>2, <2>1
    <2>3. /\ SubSeq(s, m, n) \in Seq(S)
          /\ Len(SubSeq(s, m, n)) = IF m <= n THEN n - m + 1 ELSE 0
          /\ \A j \in 1 .. n - m + 1 : SubSeq(s, m, n)[j] = s[m + j - 1]
      BY <2>2, SubSeqAt
    <2>4. Len(SubSeq(s, m, n)) = n - i
      BY <1>2, <2>1, <2>3
    <2>6. ASSUME NEW j \in 1 .. n - i
          PROVE  SubSeq(s, m, n)[j] = s[i + j]
      <3>1. m + j - 1 = i + j /\ j \in 1 .. n - m + 1
        <4>1. i \in Int /\ j \in Int /\ n \in Int /\ 1 <= j /\ j <= n - i
          BY <1>2
        <4> QED BY <2>1, <4>1
      <3>2. SubSeq(s, m, n)[j] = s[m + j - 1]
        BY <2>3, <3>1
      <3> QED BY <3>1, <3>2
    <2> QED BY <2>1, <2>3, <2>4, <2>6
  <1>5. RemoveAt(s, i) = a \o b
    BY <1>1, <1>3, <1>4 DEF RemoveAt
  <1>6. /\ a \o b \in Seq(S) /\ Len(a \o b) = Len(a) + Len(b)
        /\ \A j \in 1 .. Len(a) + Len(b) :
              (a \o b)[j] = IF j <= Len(a) THEN a[j] ELSE b[j - Len(a)]
    BY ConcatProperties
  <1>7. Len(a) + Len(b) = n - 1
    BY <1>2, <1>3, <1>4
  <1>8. ASSUME NEW j \in 1 .. n - 1
        PROVE  (a \o b)[j] = IF j < i THEN s[j] ELSE s[j + 1]
    <2>1. CASE j < i
      <3>1. j <= Len(a) /\ j \in 1 .. i - 1
        BY <1>2, <1>3, <2>1
      <3> QED BY <1>3, <1>6, <1>7, <2>1, <3>1
    <2>2. CASE ~(j < i)
      <3>1. PICK k \in Nat : k = Len(a) /\ k = i - 1
        BY <1>2, <1>3
      <3>2. ~(j <= k) /\ j - k \in 1 .. n - i /\ i + (j - k) = j + 1
        BY <1>1, <1>2, <2>2, <3>1
      <3>3. (a \o b)[j] = b[j - k]
        BY <1>6, <1>7, <3>1, <3>2
      <3>4. b[j - k] = s[i + (j - k)]
        BY <1>4, <3>2
      <3> QED BY <2>2, <3>2, <3>3, <3>4
    <2> QED BY <2>1, <2>2
  <1> QED BY <1>1, <1>5, <1>6, <1>7, <1>8

----------------------------------------------------------------------------
(* The action of a transcript *)

LEMMA LeastFacts ==
    ASSUME NEW S, S \subseteq Nat, S # {}
    PROVE  Min(S) \in S /\ \A y \in S : Min(S) <= y
  <1> DEFINE R == {ss \in Nat \X Nat : ss[1] < ss[2]}
  <1>1. IsWellFoundedOn(R, Nat)
    BY NatLessThanWellFounded DEF OpToRel
  <1>2. PICK x \in S : \A y \in S : ~(<<y, x>> \in R)
    <2> HIDE DEF R
    <2> QED BY <1>1, WFMin
  <1>3. ASSUME NEW y \in S
        PROVE  x <= y
    <2>1. <<y, x>> \in Nat \X Nat /\ <<y, x>>[1] = y /\ <<y, x>>[2] = x
      OBVIOUS
    <2>2. ~(y < x)
      BY <1>2, <2>1
    <2> QED BY <2>2
  <1> QED BY <1>3 DEF Min

\* The actions that were loaded are the first ones of the file.
LEMMA LoadFacts ==
    /\ DOMAIN actions \subseteq DOMAIN ActionFile
    /\ \A i \in DOMAIN actions :
          /\ actions[i] = ActionFile[i]
          /\ \A j \in 1 .. i : j \in DOMAIN actions /\ ~ActionFile[j].malformed
  <1> DEFINE malformed == {i \in DOMAIN ActionFile : ActionFile[i].malformed}
  <1>1. /\ Len(ActionFile) \in Nat /\ DOMAIN ActionFile = 1 .. Len(ActionFile)
        /\ ActionFile \in Seq(ToSet(ActionFile))
    BY DialogAssumption, LenProperties
  <1>2. CASE malformed = {}
    <2>1. actions = ActionFile
      BY <1>2 DEF actions, LoadAction
    <2> QED BY <1>1, <1>2, <2>1
  <1>3. CASE malformed # {}
    <2>1. PICK n : n = Min(malformed)
      OBVIOUS
    <2>2. n \in malformed /\ \A i \in malformed : n <= i
      <3>1. malformed \subseteq Nat
        BY <1>1
      <3> QED BY <1>3, <2>1, <3>1, LeastFacts
    <2>3. actions = SubSeq(ActionFile, 1, n - 1)
      BY <1>3, <2>1 DEF actions, LoadAction
    <2>4. n \in 1 .. Len(ActionFile)
      BY <1>1, <2>2
    <2>5. PICK m \in Nat : m = n - 1
      BY <2>4
    <2>6. /\ SubSeq(ActionFile, 1, m) \in Seq(ToSet(ActionFile))
          /\ Len(SubSeq(ActionFile, 1, m)) = IF 1 <= m THEN m - 1 + 1 ELSE 0
          /\ \A j \in 1 .. m - 1 + 1 : SubSeq(ActionFile, 1, m)[j] = ActionFile[1 + j - 1]
      <3>1. m <= Len(ActionFile) /\ 1 \in Nat
        BY <1>1, <2>4, <2>5
      <3> QED BY <1>1, <3>1, SubSeqAt
    <2>7. DOMAIN actions = 1 .. m
      <3>1. Len(SubSeq(ActionFile, 1, m)) = m
        BY <2>6
      <3> QED BY <2>3, <2>5, <2>6, <3>1, LenProperties
    <2>8. \A j \in 1 .. m : actions[j] = ActionFile[j]
      <3>1. \A j \in 1 .. m : 1 + j - 1 = j /\ j \in 1 .. m - 1 + 1
        OBVIOUS
      <3> QED BY <2>3, <2>5, <2>6, <3>1
    <2>9. \A i \in 1 .. m : \A j \in 1 .. i : j \in 1 .. m /\ j \in DOMAIN ActionFile /\ ~(n <= j)
      BY <1>1, <2>4, <2>5
    <2> QED BY <2>2, <2>7, <2>8, <2>9
  <1> QED BY <1>2, <1>3

\* The action matched is in the file, and the first for the transcript.
LEMMA MatchedFacts ==
    ASSUME NEW action \in Matched
    PROVE  /\ \E i \in DOMAIN ActionFile : action = ActionFile[i]
           /\ FirstFor(asrText, action.name)
  <1> DEFINE stops == {i \in DOMAIN actions : \/ Matches(actions[i], asrText)
                                              \/ Throws(actions[i], asrText)}
  <1>1. action \in MatchAction(actions, asrText)
    BY DEF Matched
  <1>2. PICK i \in stops :
           i = Min(stops) /\ Matches(actions[i], asrText) /\ action = actions[i]
    BY <1>1 DEF MatchAction
  <1>3. DOMAIN ActionFile = 1 .. Len(ActionFile)
    BY DialogAssumption, LenProperties
  <1>4. \A j \in stops : i <= j
    <2>1. stops \subseteq Nat
      BY <1>3, LoadFacts
    <2> QED BY <1>2, <2>1, LeastFacts
  <1>5. /\ i \in DOMAIN ActionFile /\ action = ActionFile[i] /\ ~ActionFile[i].malformed
        /\ i \in 1 .. i
    BY <1>2, <1>3, LoadFacts
  <1>6. ASSUME NEW j \in 1 .. i - 1
        PROVE  ~(\/ asrText \in ActionFile[j].matches
                 \/ ActionFile[j].broken
                 \/ ActionFile[j].malformed)
    <2>1. j \in 1 .. i /\ ~(i <= j)
      BY <1>3, <1>5
    <2>2. j \in DOMAIN actions /\ actions[j] = ActionFile[j] /\ ~ActionFile[j].malformed
      BY <1>2, <2>1, LoadFacts
    <2> QED BY <1>4, <2>1, <2>2 DEF Matches, Throws
  <1>7. asrText \in ActionFile[i].matches
    BY <1>2, <1>5 DEF Matches
  <1> QED BY <1>5, <1>6, <1>7 DEF FirstFor

----------------------------------------------------------------------------
(* Types *)

LEMMA BoundFacts ==
    /\ MaxUtterances \in Nat /\ AudioFrames \in Nat /\ MaxOthers \in Nat /\ MaxLosses \in Nat
    /\ OtherFrames \subseteq {"ChatResponse", "none"} /\ NoText \notin Texts
  BY DialogAssumption

\* What the handler of the next frame does to the client.
LEMMA MessageFacts ==
    ASSUME TypeOK, HeardInv, NEW f \in ToSet(inbox), NEW e \in Events, OnMessage(f, e)
    PROVE  /\ calling = NoCall /\ inbox # <<>> /\ inbox' = Tail(inbox)
           /\ 1 \in DOMAIN inbox /\ f = inbox[1] /\ f \in Frames
           /\ UNCHANGED <<chats, unspoken, bargeIn, spoken, transcripts, listening, todo, step,
                          others, losses>>
           /\ asrText' = IF Transcript(f) THEN f.text ELSE asrText
           /\ \/ UNCHANGED <<calling, commanded>>
              \/ /\ Ended(f)
                 /\ \E action \in Matched :
                       /\ calling' = [utt |-> f.utt, action |-> action.name]
                       /\ commanded' =
                             Append(commanded, [utt |-> f.utt, action |-> action.name])
           /\ disabledRemote' = IF Unmutes(f) THEN FALSE ELSE disabledRemote
           /\ queued' = IF f.event = "TTSResponse" /\ ~disabledRemote
                        THEN queued \cup {[origin |-> f.origin, utt |-> f.utt]} ELSE queued
           /\ dropped' = IF f.event = "TTSResponse" /\ disabledRemote
                         THEN dropped \cup {[audio |-> [origin |-> f.origin, utt |-> f.utt],
                                             commands |-> Len(commanded)]}
                         ELSE dropped
  <1>1. /\ calling = NoCall /\ inbox # <<>> /\ inbox' = Tail(inbox) /\ f = Head(inbox)
        /\ UNCHANGED <<chats, unspoken, bargeIn, spoken, transcripts, listening, todo, step, others,
                       losses>>
    BY DEF OnMessage, serverVars
  <1>2. 1 \in DOMAIN inbox /\ f = inbox[1] /\ f \in Frames
    <2>1. inbox \in Seq(Frames)
      BY DEF TypeOK, Frames
    <2> QED BY <1>1, <2>1, TailAt
  <1>3. f.event # "none" /\ e = f.event
    BY <1>2 DEF HeardInv, EndedInv, OnMessage, EventsSeen
  <1>4. disabledRemote \in BOOLEAN
    BY DEF TypeOK
  <1>5. CASE e = "TTSSentenceStart" /\ OnSentenceStart(f)
    <2>1. /\ UNCHANGED <<asrText, calling, commanded, queued, dropped>>
          /\ disabledRemote' = (disabledRemote /\ StillMuted(f))
          /\ f.event = "TTSSentenceStart"
      BY <1>3, <1>5 DEF OnSentenceStart
    <2>2. disabledRemote' = IF Unmutes(f) THEN FALSE ELSE disabledRemote
      BY <1>4, <2>1 DEF Unmutes, ReplyStart, StillMuted
    <2> QED BY <1>1, <1>2, <2>1, <2>2 DEF Transcript
  <1>6. CASE e = "ASRResponse" /\ OnASRResponse(f)
    BY <1>1, <1>2, <1>3, <1>6 DEF OnASRResponse, NewText, Transcript, Unmutes, ReplyStart
  <1>7. CASE e = "ASREnded" /\ OnASREnded(f)
    BY <1>1, <1>2, <1>3, <1>7 DEF OnASREnded, Transcript, Unmutes, ReplyStart, Ended
  <1>8. CASE e = "TTSEnded" /\ OnTTSEnded
    BY <1>1, <1>2, <1>3, <1>8 DEF OnTTSEnded, MuteAfterEnd, Transcript, Unmutes
  <1>9. CASE f.event = "TTSResponse" /\ OnAudio(f)
    <2>1. UNCHANGED <<asrText, calling, commanded, disabledRemote>>
      BY <1>9 DEF OnAudio
    <2>2. ~Unmutes(f) /\ ~Transcript(f)
      BY <1>9 DEF Unmutes, ReplyStart, Transcript
    <2>3. /\ queued' = IF f.event = "TTSResponse" /\ ~disabledRemote
                       THEN queued \cup {[origin |-> f.origin, utt |-> f.utt]} ELSE queued
          /\ dropped' = IF f.event = "TTSResponse" /\ disabledRemote
                        THEN dropped \cup {[audio |-> [origin |-> f.origin, utt |-> f.utt],
                                            commands |-> Len(commanded)]}
                        ELSE dropped
      BY <1>4, <1>9 DEF OnAudio
    <2> QED BY <1>1, <1>2, <2>1, <2>2, <2>3
  <1>10. CASE /\ e \in {"ChatResponse", "TTSResponse"} /\ f.event # "TTSResponse" /\ OnOther
    BY <1>1, <1>2, <1>3, <1>10 DEF OnOther, Transcript, Unmutes, ReplyStart
  <1> QED BY <1>5, <1>6, <1>7, <1>8, <1>9, <1>10 DEF OnMessage

\* A frame that is sent is put behind the others.
LEMMA SentFacts ==
    ASSUME TypeOK, NEW f \in Frames, ServerSends(f)
    PROVE  /\ inbox' = Append(inbox, f) /\ inbox' \in Seq(Frames)
           /\ Len(inbox) \in Nat /\ DOMAIN inbox = 1 .. Len(inbox)
           /\ Len(inbox') = Len(inbox) + 1 /\ DOMAIN inbox' = 1 .. Len(inbox) + 1
           /\ \A i \in 1 .. Len(inbox) : inbox'[i] = inbox[i]
           /\ inbox'[Len(inbox) + 1] = f
  <1>1. inbox \in Seq(Frames)
    BY DEF TypeOK, Frames
  <1>2. inbox' = Append(inbox, f)
    BY DEF ServerSends
  <1> QED BY <1>1, <1>2, AppendAt

\* The frames of the server.
LEMMA FrameTypes ==
    ASSUME TypeOK
    PROVE  /\ \A text \in Texts : Frame("ASRResponse", spoken, Cloud, text) \in Frames
           /\ Frame("ASREnded", spoken, Cloud, NoText) \in Frames
           /\ \A event \in {"ChatResponse", "none"} : Frame(event, spoken, Cloud, NoText) \in Frames
           /\ todo # <<>> =>
                 /\ todo[1] \in Audio /\ Head(todo) = todo[1]
                 /\ Frame(StreamEvent(step), todo[1].utt, todo[1].origin, NoText) \in Frames
  <1>1. spoken \in 0 .. MaxUtterances /\ todo \in Seq(Audio)
    BY DEF TypeOK
  <1>2. /\ \A text \in Texts : Frame("ASRResponse", spoken, Cloud, text) \in Frames
        /\ Frame("ASREnded", spoken, Cloud, NoText) \in Frames
        /\ \A event \in {"ChatResponse", "none"} : Frame(event, spoken, Cloud, NoText) \in Frames
    BY <1>1 DEF Frame, Frames, Events, Cloud
  <1>3. ASSUME todo # <<>>
        PROVE  /\ todo[1] \in Audio /\ Head(todo) = todo[1]
               /\ Frame(StreamEvent(step), todo[1].utt, todo[1].origin, NoText) \in Frames
    <2>1. todo[1] \in Audio /\ Head(todo) = todo[1]
      BY <1>1, <1>3, TailAt
    <2>2. StreamEvent(step) \in Events
      BY DEF StreamEvent, Events
    <2> QED BY <2>1, <2>2 DEF Frame, Frames, Audio
  <1> QED BY <1>2, <1>3

\* A reply takes its place behind the streams to speak; an answer may leave.
LEMMA TakeFacts ==
    ASSUME TypeOK, TakeChat
    PROVE  /\ chats # <<>> /\ chats[1] \in Utterances /\ chats' = Tail(chats)
           /\ todo' \in Seq(Audio) /\ todo' # <<>> /\ Len(todo) \in Nat
           /\ \/ /\ todo' = Append(todo, [origin |-> Local, utt |-> chats[1]]) /\ step' = step
                 /\ Len(todo') = Len(todo) + 1
                 /\ \A j \in 1 .. Len(todo) : todo'[j] = todo[j]
                 /\ todo'[Len(todo) + 1] = [origin |-> Local, utt |-> chats[1]]
              \/ \E i \in 1 .. Len(todo) :
                 /\ todo[i] = [origin |-> Cloud, utt |-> chats[1]]
                 /\ step' = IF i = 1 THEN 0 ELSE step
                 /\ Len(todo') = Len(todo)
                 /\ \A j \in 1 .. Len(todo) - 1 :
                       todo'[j] = IF j < i THEN todo[j] ELSE todo[j + 1]
                 /\ todo'[Len(todo)] = [origin |-> Local, utt |-> chats[1]]
           /\ UNCHANGED <<clientVars, inbox, bargeIn, spoken, transcripts, listening, others, losses>>
  <1>1. /\ chats \in Seq(Utterances) /\ todo \in Seq(Audio)
        /\ Len(todo) \in Nat /\ DOMAIN todo = 1 .. Len(todo)
    BY LenProperties DEF TypeOK
  <1>2. chats # <<>> /\ chats' = Tail(chats) /\ chats[1] \in Utterances /\ Head(chats) = chats[1]
    BY <1>1, TailAt DEF TakeChat
  <1>3. PICK r \in Audio : r = [origin |-> Local, utt |-> chats[1]]
    <2>1. chats[1] \in 0 .. MaxUtterances
      BY <1>2, BoundFacts DEF Utterances
    <2> QED BY <2>1 DEF Audio
  <1>4. CASE todo' = Append(todo, r) /\ step' = step
    <2>1. /\ todo' \in Seq(Audio) /\ todo' # <<>> /\ Len(todo') = Len(todo) + 1
          /\ \A j \in 1 .. Len(todo) : todo'[j] = todo[j]
          /\ todo'[Len(todo) + 1] = r
      BY <1>1, <1>4, AppendAt
    <2> QED BY <1>1, <1>2, <1>3, <1>4, <2>1 DEF TakeChat
  <1>5. ASSUME NEW i \in DOMAIN todo, todo[i] = [origin |-> Cloud, utt |-> chats[1]],
               todo' = Append(RemoveAt(todo, i), r), step' = IF i = 1 THEN 0 ELSE step
        PROVE  /\ i \in 1 .. Len(todo)
               /\ todo' \in Seq(Audio) /\ todo' # <<>> /\ Len(todo') = Len(todo)
               /\ \A j \in 1 .. Len(todo) - 1 :
                     todo'[j] = IF j < i THEN todo[j] ELSE todo[j + 1]
               /\ todo'[Len(todo)] = r
    <2>1. PICK s : s = RemoveAt(todo, i)
      OBVIOUS
    <2>2. PICK n \in Nat : n = Len(todo) /\ n >= 1
      <3>1. i \in 1 .. Len(todo)
        BY <1>1
      <3>2. Len(todo) \in Nat /\ Len(todo) >= 1
        BY <1>1, <3>1
      <3> QED BY <3>2
    <2>3. /\ s \in Seq(Audio) /\ Len(s) = n - 1
          /\ \A j \in 1 .. n - 1 : s[j] = IF j < i THEN todo[j] ELSE todo[j + 1]
      BY <1>1, <2>1, <2>2, RemoveAtFacts
    <2>4. /\ Append(s, r) \in Seq(Audio) /\ Append(s, r) # <<>>
          /\ Len(Append(s, r)) = Len(s) + 1
          /\ \A j \in 1 .. Len(s) : Append(s, r)[j] = s[j]
          /\ Append(s, r)[Len(s) + 1] = r
      BY <2>3, AppendAt
    <2>5. Len(s) + 1 = n
      BY <2>2, <2>3
    <2> QED BY <1>1, <1>5, <2>1, <2>2, <2>3, <2>4, <2>5
  <1>6. \/ todo' = Append(todo, r) /\ step' = step
        \/ \E i \in DOMAIN todo :
              /\ todo[i] = [origin |-> Cloud, utt |-> chats[1]]
              /\ todo' = Append(RemoveAt(todo, i), r)
              /\ step' = IF i = 1 THEN 0 ELSE step
    <2>1. PICK u : u = chats[1]
      OBVIOUS
    <2>2. Head(chats) = u /\ r = [origin |-> Local, utt |-> u]
      BY <1>2, <1>3, <2>1
    <2> QED BY <2>1, <2>2 DEF TakeChat
  <1>7. UNCHANGED <<clientVars, inbox, bargeIn, spoken, transcripts, listening, others, losses>>
    BY DEF TakeChat
  <1>8. CASE \E i \in DOMAIN todo :
                /\ todo[i] = [origin |-> Cloud, utt |-> chats[1]]
                /\ todo' = Append(RemoveAt(todo, i), r)
                /\ step' = IF i = 1 THEN 0 ELSE step
    BY <1>1, <1>2, <1>3, <1>5, <1>7, <1>8
  <1> QED BY <1>4, <1>6, <1>8

\* No step gives a variable a value of another type.
LEMMA TypeStep == Regular /\ TypeOK /\ HeardInv /\ [Next]_vars => TypeOK'
  <1> SUFFICES ASSUME Regular, TypeOK, HeardInv, [Next]_vars
               PROVE  TypeOK'
    OBVIOUS
  <1> DEFINE Heads == /\ asrText \in Texts \cup {NoText} /\ disabledRemote \in BOOLEAN
                      /\ unspoken \subseteq Utterances
             Robot == calling \in Calls \cup {NoCall} /\ commanded \in Seq(Calls)
             Sound == queued \subseteq Audio /\ dropped \subseteq [audio : Audio, commands : Nat]
             User == /\ bargeIn \in BOOLEAN /\ spoken \in 0 .. MaxUtterances
                     /\ transcripts \in [Utterances -> Seq(Texts)] /\ listening \in BOOLEAN
             Streams == todo \in Seq(Audio) /\ step \in 0 .. AudioFrames + 1
             Counts == others \in 0 .. MaxOthers /\ losses \in 0 .. MaxLosses
  <1>1. /\ Heads /\ Robot /\ Sound /\ User /\ Streams /\ Counts
        /\ inbox \in Seq(Frames) /\ chats \in Seq(Utterances)
    BY DEF TypeOK, Frames
  <1>2. SUFFICES /\ Heads' /\ Robot' /\ Sound' /\ User' /\ Streams' /\ Counts'
                 /\ inbox' \in Seq(Frames) /\ chats' \in Seq(Utterances)
    BY DEF TypeOK, Frames
  <1>3. /\ MaxUtterances \in Nat /\ AudioFrames \in Nat /\ MaxOthers \in Nat /\ MaxLosses \in Nat
        /\ Utterances = 1 .. MaxUtterances
    BY BoundFacts DEF Utterances
  <1>4. CASE Speak
    <2>1. /\ UNCHANGED <<clientVars, inbox, chats, bargeIn, transcripts, todo, step, others, losses>>
          /\ spoken' = spoken + 1 /\ listening' = TRUE /\ spoken < MaxUtterances
      BY <1>4 DEF Speak
    <2>2. User'
      BY <1>1, <1>3, <2>1
    <2> QED BY <1>1, <2>1, <2>2 DEF clientVars
  <1>5. ASSUME NEW text \in Texts, Transcribe(text)
        PROVE  /\ Heads' /\ Robot' /\ Sound' /\ User' /\ Streams' /\ Counts'
               /\ inbox' \in Seq(Frames) /\ chats' \in Seq(Utterances)
    <2>1. /\ UNCHANGED <<clientVars, chats, bargeIn, spoken, listening, todo, step, others, losses>>
          /\ transcripts' = [transcripts EXCEPT ![spoken] = Append(@, text)]
          /\ ServerSends(Frame("ASRResponse", spoken, Cloud, text))
      BY <1>5 DEF Transcribe
    <2>2. transcripts' \in [Utterances -> Seq(Texts)]
      <3>1. \A u \in Utterances : Append(transcripts[u], text) \in Seq(Texts)
        BY <1>1, AppendProperties
      <3> QED BY <1>1, <2>1, <3>1
    <2>3. inbox' \in Seq(Frames)
      BY <2>1, FrameTypes, SentFacts
    <2> QED BY <1>1, <2>1, <2>2, <2>3 DEF clientVars
  <1>6. CASE EndSpeech
    <2>1. /\ UNCHANGED <<clientVars, chats, bargeIn, spoken, transcripts, step, others, losses>>
          /\ listening' = FALSE
          /\ ServerSends(Frame("ASREnded", spoken, Cloud, NoText))
          /\ todo' = Append(todo, [origin |-> Cloud, utt |-> spoken]) \/ todo' = todo
      BY <1>6 DEF EndSpeech
    <2>2. todo' \in Seq(Audio)
      <3>1. PICK a \in Audio : a = [origin |-> Cloud, utt |-> spoken]
        BY <1>1 DEF Audio
      <3>2. todo' = Append(todo, a) \/ todo' = todo
        BY <2>1, <3>1
      <3>3. Append(todo, a) \in Seq(Audio)
        BY <1>1, AppendProperties
      <3> QED BY <1>1, <3>2, <3>3
    <2>3. inbox' \in Seq(Frames)
      BY <2>1, FrameTypes, SentFacts
    <2> QED BY <1>1, <2>1, <2>2, <2>3 DEF clientVars
  <1>7. CASE Stream
    <2>1. /\ UNCHANGED <<clientVars, chats, bargeIn, spoken, transcripts, listening, others, losses>>
          /\ todo # <<>>
          /\ ServerSends(Frame(StreamEvent(step), Head(todo).utt, Head(todo).origin, NoText))
          /\ IF step = AudioFrames + 1
             THEN todo' = Tail(todo) /\ step' = 0
             ELSE todo' = todo /\ step' = step + 1
      BY <1>7 DEF Stream
    <2>2. Streams'
      <3>1. Tail(todo) \in Seq(Audio)
        BY <1>1, <2>1, TailAt
      <3>2. step' \in 0 .. AudioFrames + 1
        BY <1>1, <1>3, <2>1
      <3> QED BY <1>1, <2>1, <3>1, <3>2
    <2>3. inbox' \in Seq(Frames)
      <3>1. ServerSends(Frame(StreamEvent(step), todo[1].utt, todo[1].origin, NoText))
        BY <2>1, FrameTypes
      <3> QED BY <2>1, <3>1, FrameTypes, SentFacts
    <2> QED BY <1>1, <2>1, <2>2, <2>3 DEF clientVars
  <1>8. CASE TakeChat
    <2>1. /\ UNCHANGED <<clientVars, inbox, bargeIn, spoken, transcripts, listening, others, losses>>
          /\ chats' = Tail(chats) /\ chats # <<>> /\ todo' \in Seq(Audio)
          /\ step' \in {step, 0}
      BY <1>8, TakeFacts
    <2>2. Streams' /\ chats' \in Seq(Utterances)
      <3>1. Tail(chats) \in Seq(Utterances)
        BY <1>1, <2>1, TailAt
      <3>2. step' \in 0 .. AudioFrames + 1
        BY <1>1, <1>3, <2>1
      <3> QED BY <2>1, <3>1, <3>2
    <2> QED BY <1>1, <2>1, <2>2 DEF clientVars
  <1>9. ASSUME NEW event \in OtherFrames, SendOther(event)
        PROVE  /\ Heads' /\ Robot' /\ Sound' /\ User' /\ Streams' /\ Counts'
               /\ inbox' \in Seq(Frames) /\ chats' \in Seq(Utterances)
    <2>1. /\ UNCHANGED <<clientVars, chats, bargeIn, spoken, transcripts, listening, todo, step, losses>>
          /\ others < MaxOthers /\ others' = others + 1
          /\ ServerSends(Frame(event, spoken, Cloud, NoText))
      BY <1>9 DEF SendOther
    <2>2. inbox' \in Seq(Frames)
      <3>1. event \in {"ChatResponse", "none"}
        BY BoundFacts
      <3> QED BY <2>1, <3>1, FrameTypes, SentFacts
    <2>3. Counts'
      BY <1>1, <1>3, <2>1
    <2> QED BY <1>1, <2>1, <2>2, <2>3 DEF clientVars
  <1>10. CASE LcmReturns
    <2>1. /\ UNCHANGED <<asrText, commanded, queued, dropped, unspoken, inbox, serverVars, losses>>
          /\ calling # NoCall /\ chats' = Append(chats, calling.utt)
          /\ disabledRemote' = TRUE /\ calling' = NoCall
      BY <1>10 DEF LcmReturns, ChatTTSText, MuteOn
    <2>2. chats' \in Seq(Utterances)
      <3>1. calling.utt \in Utterances
        BY <1>1, <2>1 DEF Calls
      <3> QED BY <1>1, <2>1, <3>1, AppendProperties
    <2> QED BY <1>1, <2>1, <2>2 DEF serverVars
  <1>11. ASSUME NEW f \in ToSet(inbox), NEW e \in Events, OnMessage(f, e)
         PROVE  /\ Heads' /\ Robot' /\ Sound' /\ User' /\ Streams' /\ Counts'
                /\ inbox' \in Seq(Frames) /\ chats' \in Seq(Utterances)
    <2>1. /\ inbox # <<>> /\ inbox' = Tail(inbox) /\ f \in Frames
          /\ 1 \in DOMAIN inbox /\ f = inbox[1]
          /\ UNCHANGED <<chats, unspoken, bargeIn, spoken, transcripts, listening, todo, step,
                         others, losses>>
      BY <1>11, MessageFacts
    <2>2. inbox' \in Seq(Frames)
      BY <1>1, <2>1, TailAt
    <2>3. Heads'
      <3>1. f.text \in Texts \cup {NoText}
        BY <2>1 DEF Frames
      <3>2. asrText' \in {f.text, asrText} /\ disabledRemote' \in {FALSE, disabledRemote}
        BY <1>11, MessageFacts
      <3>3. asrText' \in Texts \cup {NoText}
        BY <1>1, <3>1, <3>2
      <3>4. disabledRemote' \in BOOLEAN
        BY <1>1, <3>2
      <3> QED BY <1>1, <2>1, <3>3, <3>4
    <2>4. Robot'
      <3>1. ASSUME NEW action \in Matched, Ended(f)
            PROVE  /\ [utt |-> f.utt, action |-> action.name] \in Calls
                   /\ Append(commanded, [utt |-> f.utt, action |-> action.name]) \in Seq(Calls)
        <4>1. action.name \in {ActionFile[i].name : i \in DOMAIN ActionFile}
          BY <3>1, MatchedFacts
        <4>2. f.utt \in Utterances
          <5>1. Over(f.utt)
            BY <2>1, <3>1 DEF HeardInv, EndedInv
          <5> QED BY <1>1, <1>3, <5>1 DEF Over
        <4>3. PICK call \in Calls : call = [utt |-> f.utt, action |-> action.name]
          BY <4>1, <4>2 DEF Calls
        <4> QED BY <1>1, <4>3, AppendProperties
      <3>2. \/ UNCHANGED <<calling, commanded>>
            \/ /\ Ended(f)
               /\ \E action \in Matched :
                     /\ calling' = [utt |-> f.utt, action |-> action.name]
                     /\ commanded' = Append(commanded, [utt |-> f.utt, action |-> action.name])
        BY <1>11, MessageFacts
      <3> QED BY <1>1, <3>1, <3>2
    <2>5. Sound'
      <3>1. PICK a \in Audio : a = [origin |-> f.origin, utt |-> f.utt]
        BY <2>1 DEF Frames, Audio
      <3>2. PICK n \in Nat : n = Len(commanded)
        BY <1>1, LenProperties
      <3>3. queued' \in {queued, queued \cup {a}}
        BY <1>11, <3>1, MessageFacts
      <3>4. dropped' \in {dropped, dropped \cup {[audio |-> a, commands |-> n]}}
        BY <1>11, <3>1, <3>2, MessageFacts
      <3> QED BY <1>1, <3>3, <3>4
    <2> QED BY <1>1, <2>1, <2>2, <2>3, <2>4, <2>5
  <1>12. CASE Reconnect
    <2>1. /\ UNCHANGED <<clientVars, bargeIn, spoken, transcripts, others>>
          /\ losses < MaxLosses /\ losses' = losses + 1 /\ inbox' = <<>> /\ chats' = <<>>
          /\ listening' = FALSE /\ todo' = <<Greeting>> /\ step' = 0
      BY <1>12 DEF Reconnect
    <2>2. inbox' \in Seq(Frames) /\ chats' \in Seq(Utterances)
      BY <2>1, EmptySeq
    <2>3. todo' \in Seq(Audio)
      <3>1. Greeting \in Audio
        BY <1>3 DEF Greeting, Audio
      <3> QED BY <2>1, <3>1, SingletonIsSeq
    <2>4. Counts' /\ step' \in 0 .. AudioFrames + 1
      BY <1>1, <1>3, <2>1
    <2> QED BY <1>1, <2>1, <2>2, <2>3, <2>4 DEF clientVars
  <1>13. CASE ReplyThrows
    <2>1. /\ UNCHANGED <<asrText, disabledRemote, commanded, queued, dropped, inbox, chats,
                         serverVars, losses>>
          /\ calling # NoCall /\ calling' = NoCall /\ unspoken' = unspoken \cup {calling.utt}
      BY <1>13 DEF ReplyThrows
    <2>2. calling.utt \in Utterances
      BY <1>1, <2>1 DEF Calls
    <2> QED BY <1>1, <2>1, <2>2 DEF serverVars
  <1>14. CASE UNCHANGED vars
    BY <1>1, <1>14 DEF vars
  <1> QED
    BY <1>4, <1>5, <1>6, <1>7, <1>8, <1>9, <1>10, <1>11, <1>12, <1>13, <1>14 DEF Next, MainStep

----------------------------------------------------------------------------
(* Transcripts *)

\* An utterance stays over, and its transcripts what they are.
LEMMA OverKept ==
    ASSUME TypeOK, [Next]_vars, NEW u, Over(u)
    PROVE  /\ Over(u)' /\ transcripts'[u] = transcripts[u] /\ u \in Utterances
           /\ u \in 1 .. spoken
  <1>1. /\ spoken \in 0 .. MaxUtterances /\ MaxUtterances \in Nat /\ u \in 1 .. spoken
        /\ u = spoken => ~listening
        /\ transcripts \in [Utterances -> Seq(Texts)] /\ Utterances = 1 .. MaxUtterances
    BY BoundFacts DEF TypeOK, Over, Utterances
  <1>2. CASE Speak
    <2>1. spoken' = spoken + 1 /\ transcripts' = transcripts
      BY <1>2 DEF Speak
    <2>2. u \in 1 .. spoken' /\ u # spoken'
      BY <1>1, <2>1
    <2> QED BY <1>1, <2>1, <2>2 DEF Over
  <1>3. ASSUME NEW text \in Texts, Transcribe(text)
        PROVE  Over(u)' /\ transcripts'[u] = transcripts[u]
    <2>1. /\ UNCHANGED <<spoken, listening>> /\ listening
          /\ transcripts' = [transcripts EXCEPT ![spoken] = Append(@, text)]
      BY <1>3 DEF Transcribe
    <2> QED BY <1>1, <2>1 DEF Over
  <1>4. CASE EndSpeech \/ Reconnect
    <2>1. UNCHANGED <<spoken, transcripts>> /\ listening' = FALSE
      BY <1>4 DEF EndSpeech, Reconnect
    <2> QED BY <1>1, <2>1 DEF Over
  <1>5. CASE UNCHANGED <<spoken, listening, transcripts>>
    BY <1>1, <1>5 DEF Over
  <1> QED
    BY <1>1, <1>2, <1>3, <1>4, <1>5
    DEF Next, MainStep, LcmReturns, ReplyThrows, OnMessage, Stream, TakeChat, SendOther, vars,
        serverVars

\* No step takes a loss back.
LEMMA LossesGrow ==
    ASSUME TypeOK, [Next]_vars
    PROVE  losses' = 0 => losses = 0
  <1>1. losses \in Nat
    BY BoundFacts DEF TypeOK
  <1>2. losses' = losses \/ losses' = losses + 1
    BY DEF Next, MainStep, Speak, Transcribe, EndSpeech, Stream, TakeChat, SendOther, LcmReturns,
           ReplyThrows, OnMessage, Reconnect, vars
  <1> QED BY <1>1, <1>2

\* What was said depends on the transcripts of its utterances alone.
LEMMA SaidSame ==
    ASSUME NEW r, NEW s, NEW u \in Nat, NEW a, NEW b, NEW t,
           \A w \in 1 .. u : r[w] = s[w], b => a, Said(r, u, a, t)
    PROVE  Said(s, u, b, t)
  <1>1. ASSUME NEW w \in 1 .. u, t \in ToSet(r[w]),
               a => t = Last(r[w]) /\ \A v \in w + 1 .. u : r[v] = <<>>
        PROVE  Said(s, u, b, t)
    <2>1. r[w] = s[w] /\ \A v \in w + 1 .. u : r[v] = s[v]
      <3>1. \A v \in w + 1 .. u : v \in 1 .. u
        OBVIOUS
      <3> QED BY <3>1
    <2>2. t \in ToSet(s[w])
      BY <1>1, <2>1
    <2>3. b => t = Last(s[w]) /\ \A v \in w + 1 .. u : s[v] = <<>>
      BY <1>1, <2>1
    <2> QED BY <2>2, <2>3 DEF Said
  <1>2. CASE t = NoText
    BY <1>2 DEF Said
  <1> QED BY <1>1, <1>2 DEF Said

\* The next utterance begins without a transcript.
LEMMA SaidNext ==
    ASSUME NEW r, NEW u \in Nat, NEW a, NEW t, r[u + 1] = <<>>, Said(r, u, a, t)
    PROVE  Said(r, u + 1, a, t)
  <1>1. ASSUME NEW w \in 1 .. u, t \in ToSet(r[w]),
               a => t = Last(r[w]) /\ \A v \in w + 1 .. u : r[v] = <<>>
        PROVE  Said(r, u + 1, a, t)
    <2>1. w \in 1 .. u + 1 /\ \A v \in w + 1 .. u + 1 : v \in w + 1 .. u \/ v = u + 1
      OBVIOUS
    <2>2. a => t = Last(r[w]) /\ \A v \in w + 1 .. u + 1 : r[v] = <<>>
      BY <1>1, <2>1
    <2> QED BY <1>1, <2>1, <2>2 DEF Said
  <1>2. CASE t = NoText
    BY <1>2 DEF Said
  <1> QED BY <1>1, <1>2 DEF Said

\* A new transcript of the latest utterance is the last, and takes nothing back.
LEMMA SaidNew ==
    ASSUME NEW u \in Nat \ {0}, NEW r, NEW s, NEW x \in Texts,
           \A w \in 1 .. u : r[w] \in Seq(Texts),
           s[u] = Append(r[u], x), \A w \in 1 .. u - 1 : s[w] = r[w]
    PROVE  /\ Said(s, u, TRUE, x)
           /\ \A t : Said(r, u, FALSE, t) => Said(s, u, FALSE, t)
  <1>1. u \in 1 .. u
    OBVIOUS
  <1>2. PICK k \in Nat : k = Len(r[u])
    BY <1>1, LenProperties
  <1>3. /\ Len(s[u]) = k + 1 /\ DOMAIN s[u] = 1 .. k + 1 /\ s[u][k + 1] = x
        /\ \A j \in 1 .. k : s[u][j] = r[u][j]
        /\ DOMAIN r[u] = 1 .. k
    BY <1>1, <1>2, AppendAt, LenProperties
  <1>4. x \in ToSet(s[u]) /\ Last(s[u]) = x
    <2>1. k + 1 \in DOMAIN s[u]
      BY <1>3
    <2> QED BY <1>3, <2>1 DEF ToSet, Last
  <1>5. Said(s, u, TRUE, x)
    <2>1. \A v \in u + 1 .. u : s[v] = <<>>
      OBVIOUS
    <2> QED BY <1>1, <1>4, <2>1 DEF Said
  <1>6. ASSUME NEW w \in 1 .. u
        PROVE  ToSet(r[w]) \subseteq ToSet(s[w])
    <2>1. CASE w = u
      <3>1. \A j \in DOMAIN r[u] : j \in DOMAIN s[u] /\ s[u][j] = r[u][j]
        BY <1>3
      <3> QED BY <2>1, <3>1 DEF ToSet
    <2>2. CASE w # u
      <3>1. w \in 1 .. u - 1
        BY <2>2
      <3> QED BY <3>1
    <2> QED BY <2>1, <2>2
  <1>7. ASSUME NEW t, Said(r, u, FALSE, t)
        PROVE  Said(s, u, FALSE, t)
    BY <1>6, <1>7 DEF Said
  <1> QED BY <1>5, <1>7

\* The texts of the utterances before one that is over stay.
LEMMA SaidKept ==
    ASSUME TypeOK, [Next]_vars, NEW u, Over(u)
    PROVE  u \in Nat /\ \A w \in 1 .. u : transcripts[w] = transcripts'[w]
  <1>1. u \in 1 .. spoken /\ spoken \in Nat /\ (u = spoken => ~listening)
    BY BoundFacts DEF Over, TypeOK
  <1>2. ASSUME NEW w \in 1 .. u
        PROVE  transcripts[w] = transcripts'[w]
    <2>1. Over(w)
      BY <1>1 DEF Over
    <2> QED BY <2>1, OverKept
  <1> QED BY <1>1, <1>2

LEMMA FinalKept ==
    ASSUME TypeOK, [Next]_vars, NEW u, Over(u), NEW t, Final(transcripts, losses, u, t)
    PROVE  Final(transcripts', losses', u, t)
  <1>1. u \in Nat /\ \A w \in 1 .. u : transcripts[w] = transcripts'[w]
    BY SaidKept
  <1>2. transcripts'[u] = transcripts[u]
    BY OverKept
  <1>3. transcripts'[u] # <<>> \/ losses' = 0 => transcripts[u] # <<>> \/ losses = 0
    BY <1>2, LossesGrow
  <1> QED BY <1>1, <1>3, SaidSame DEF Final

\* What asrText will be does not depend on what is sent later.
LEMMA HeardSent ==
    ASSUME TypeOK, NEW f \in Frames, ServerSends(f), asrText' = asrText,
           NEW n \in Nat, n = Len(inbox), NEW i \in 1 .. n + 1, NEW t, Heard(i, t)
    PROVE  /\ Heard(i, t)'
           /\ i = n + 1 /\ ~Transcript(f) => Heard(n + 2, t)'
  <1>1. /\ \A j \in 1 .. n : inbox'[j] = inbox[j]
        /\ inbox'[n + 1] = f
    BY SentFacts
  <1>2. \A j \in 1 .. i - 1 : j \in 1 .. n
    OBVIOUS
  <1>3. Heard(i, t)'
    BY <1>1, <1>2 DEF Heard, Transcript
  <1>4. ASSUME i = n + 1, ~Transcript(f)
        PROVE  Heard(n + 2, t)'
    <2>1. \A j \in 1 .. n + 2 - 1 : j \in 1 .. n + 1 - 1 \/ j = n + 1
      OBVIOUS
    <2>2. \A j \in 1 .. n + 1 - 1 : j \in 1 .. n + 2 - 1
      OBVIOUS
    <2>3. Heard(n + 1, t)' /\ ~Transcript(inbox'[n + 1])
      BY <1>1, <1>3, <1>4
    <2>4. CASE asrText' = t /\ \A j \in 1 .. n + 1 - 1 : ~Transcript(inbox'[j])
      BY <2>1, <2>3, <2>4 DEF Heard, Transcript
    <2>5. ASSUME NEW j \in 1 .. n + 1 - 1, Transcript(inbox'[j]), inbox'[j].text = t,
                 \A k \in j + 1 .. n + 1 - 1 : ~Transcript(inbox'[k])
          PROVE  Heard(n + 2, t)'
      <3>1. \A k \in j + 1 .. n + 2 - 1 : k \in j + 1 .. n + 1 - 1 \/ k = n + 1
        OBVIOUS
      <3>2. j \in 1 .. n + 2 - 1
        BY <2>2
      <3>3. \A k \in j + 1 .. n + 2 - 1 : ~Transcript(inbox'[k])
        BY <2>3, <2>5, <3>1
      <3>4. PICK p : p = n + 2
        OBVIOUS
      <3>5. /\ j \in 1 .. p - 1 /\ inbox'[j].event = "ASRResponse" /\ inbox'[j].text = t
            /\ \A k \in j + 1 .. p - 1 : ~(inbox'[k].event = "ASRResponse")
        BY <2>5, <3>2, <3>3, <3>4 DEF Transcript
      <3>6. Heard(p, t)'
        BY <3>5 DEF Heard, Transcript
      <3> QED BY <3>4, <3>6
    <2> QED BY <2>3, <2>4, <2>5 DEF Heard, Transcript
  <1> QED BY <1>3, <1>4

\* When the first frame has been handled, the others are one place nearer.
LEMMA HeardTail ==
    ASSUME TypeOK, HeardInv, NEW f \in ToSet(inbox), NEW e \in Events, OnMessage(f, e),
           NEW i \in 2 .. Len(inbox) + 1, NEW t, Heard(i, t)
    PROVE  Heard(i - 1, t)'
  <1>1. PICK n \in Nat : n = Len(inbox)
    BY LenProperties DEF TypeOK
  <1>2. /\ inbox # <<>> /\ inbox' = Tail(inbox) /\ f = inbox[1]
        /\ asrText' = IF Transcript(f) THEN f.text ELSE asrText
    BY MessageFacts
  <1>3. \A j \in 1 .. n - 1 : inbox'[j] = inbox[j + 1]
    <2>1. inbox \in Seq(Frames)
      BY DEF TypeOK, Frames
    <2> QED BY <1>1, <1>2, <2>1, TailAt
  <1>4. CASE asrText = t /\ \A j \in 1 .. i - 1 : ~Transcript(inbox[j])
    <2>1. asrText' = t
      <3>1. 1 \in 1 .. i - 1
        BY <1>1
      <3> QED BY <1>2, <1>4, <3>1
    <2>2. ASSUME NEW j \in 1 .. (i - 1) - 1
          PROVE  ~Transcript(inbox'[j])
      <3>1. j \in 1 .. n - 1 /\ j + 1 \in 1 .. i - 1
        BY <1>1
      <3> QED BY <1>3, <1>4, <3>1
    <2> QED BY <2>1, <2>2 DEF Heard, Transcript
  <1>5. ASSUME NEW j \in 1 .. i - 1, Transcript(inbox[j]), inbox[j].text = t,
               \A k \in j + 1 .. i - 1 : ~Transcript(inbox[k])
        PROVE  Heard(i - 1, t)'
    <2>1. ASSUME NEW k \in j .. (i - 1) - 1, k >= 1
          PROVE  ~Transcript(inbox'[k])
      <3>1. k \in 1 .. n - 1 /\ k + 1 \in j + 1 .. i - 1
        BY <1>1, <2>1
      <3> QED BY <1>3, <1>5, <3>1
    <2>2. CASE j = 1
      <3>1. asrText' = t
        BY <1>2, <1>5, <2>2
      <3>2. \A k \in 1 .. (i - 1) - 1 : ~Transcript(inbox'[k])
        BY <2>1, <2>2
      <3> QED BY <3>1, <3>2 DEF Heard, Transcript
    <2>3. CASE j # 1
      <3>1. PICK m \in 1 .. (i - 1) - 1 : m = j - 1 /\ m + 1 = j
        BY <2>3
      <3>2. m \in 1 .. n - 1
        BY <1>1, <3>1
      <3>3. Transcript(inbox'[m]) /\ inbox'[m].text = t
        BY <1>3, <1>5, <3>1, <3>2
      <3>4. \A k \in m + 1 .. (i - 1) - 1 : k \in j .. (i - 1) - 1 /\ k >= 1
        BY <3>1
      <3> QED BY <2>1, <3>3, <3>4 DEF Heard, Transcript
    <2> QED BY <2>2, <2>3
  <1> QED BY <1>4, <1>5 DEF Heard

\* The invariant of the next state, frame by frame.
LEMMA EndedNext ==
    ASSUME NEW m, DOMAIN inbox' = 1 .. m,
           \A i \in 1 .. m : \A g : g = inbox'[i] =>
              /\ g.event # "none"
              /\ Ended(g) => /\ Over(g.utt)'
                             /\ \E t : Heard(i, t)' /\ Final(transcripts', losses', g.utt, t)
    PROVE  EndedInv'
  <1> DEFINE Fits(i) == /\ inbox[i].event # "none"
                        /\ Ended(inbox[i]) =>
                              /\ Over(inbox[i].utt)
                              /\ \E t : /\ Heard(i, t)
                                       /\ Final(transcripts, losses, inbox[i].utt, t)
  <1>1. ASSUME NEW i \in 1 .. m
        PROVE  Fits(i)'
    <2>1. PICK g : g = inbox'[i]
      OBVIOUS
    <2>2. /\ g.event # "none"
          /\ Ended(g) => /\ Over(g.utt)'
                         /\ \E t : Heard(i, t)' /\ Final(transcripts', losses', g.utt, t)
      BY <1>1, <2>1
    <2>3. ASSUME Ended(g)
          PROVE  Fits(i)'
      <3>1. PICK t : Heard(i, t)' /\ Final(transcripts', losses', g.utt, t)
        BY <2>2, <2>3
      <3>2. (Heard(i, t) /\ Final(transcripts, losses, inbox[i].utt, t))'
        BY <2>1, <3>1
      <3>3. Over(inbox[i].utt)' /\ inbox'[i].event # "none"
        BY <2>1, <2>2, <2>3 DEF Over
      <3> QED BY <3>2, <3>3
    <2>4. CASE ~Ended(g)
      BY <2>1, <2>2, <2>4 DEF Ended
    <2> QED BY <2>3, <2>4
  <1>2. EndedInv' <=> \A i \in DOMAIN inbox' : Fits(i)'
    BY DEF EndedInv
  <1> HIDE DEF Fits
  <1> QED BY <1>1, <1>2

LEMMA EndedSent ==
    ASSUME TypeOK, HeardInv, [Next]_vars, NEW f \in Frames, ServerSends(f), asrText' = asrText,
           NEW n \in Nat, n = Len(inbox), f.event # "none",
           Ended(f) => /\ Over(f.utt)'
                       /\ \E t : Heard(n + 1, t) /\ Final(transcripts', losses', f.utt, t)
    PROVE  EndedInv'
  <1>1. /\ DOMAIN inbox = 1 .. n /\ DOMAIN inbox' = 1 .. n + 1
        /\ \A i \in 1 .. n : inbox'[i] = inbox[i]
        /\ inbox'[n + 1] = f
    BY SentFacts
  <1>2. ASSUME NEW i \in 1 .. n + 1, NEW g, g = inbox'[i]
        PROVE  /\ g.event # "none"
               /\ Ended(g) => /\ Over(g.utt)'
                              /\ \E t : Heard(i, t)' /\ Final(transcripts', losses', g.utt, t)
    <2>1. CASE i = n + 1
      <3>1. ASSUME Ended(g)
            PROVE  \E t : Heard(i, t)' /\ Final(transcripts', losses', g.utt, t)
        <4>1. PICK t : Heard(n + 1, t) /\ Final(transcripts', losses', g.utt, t)
          BY <1>1, <1>2, <2>1, <3>1
        <4>2. Heard(n + 1, t)'
          <5>1. n + 1 \in 1 .. n + 1
            OBVIOUS
          <5> QED BY <4>1, <5>1, HeardSent
        <4> QED BY <2>1, <4>1, <4>2
      <3> QED BY <1>1, <1>2, <2>1, <3>1
    <2>2. CASE i # n + 1
      <3>1. i \in 1 .. n /\ i \in DOMAIN inbox /\ g = inbox[i] /\ g.event # "none"
        BY <1>1, <1>2, <2>2 DEF HeardInv, EndedInv
      <3>2. ASSUME Ended(g)
            PROVE  /\ Over(g.utt)'
                   /\ \E t : Heard(i, t)' /\ Final(transcripts', losses', g.utt, t)
        <4>1. PICK t : Heard(i, t) /\ Final(transcripts, losses, g.utt, t)
          BY <3>1, <3>2 DEF HeardInv, EndedInv
        <4>2. Over(g.utt)
          BY <3>1, <3>2 DEF HeardInv, EndedInv
        <4>3. Over(g.utt)' /\ Final(transcripts', losses', g.utt, t)
          BY <4>1, <4>2, OverKept, FinalKept
        <4>4. Heard(i, t)'
          <5>1. i \in 1 .. n + 1
            BY <3>1
          <5> QED BY <4>1, <5>1, HeardSent
        <4> QED BY <4>3, <4>4
      <3> QED BY <3>1, <3>2
    <2> QED BY <2>1, <2>2
  <1>3. PICK m : m = n + 1
    OBVIOUS
  <1> QED BY <1>1, <1>2, <1>3, EndedNext

\* A frame that is sent adds its text to those that are known.
LEMMA KnownSent ==
    ASSUME TypeOK, KnownInv, NEW f \in Frames, ServerSends(f), asrText' = asrText,
           \A t : Said(transcripts, spoken, FALSE, t) => Said(transcripts', spoken', FALSE, t),
           Transcript(f) => Said(transcripts', spoken', FALSE, f.text)
    PROVE  KnownInv'
  <1>1. PICK n \in Nat : n = Len(inbox)
    BY LenProperties DEF TypeOK
  <1>2. /\ DOMAIN inbox = 1 .. n /\ DOMAIN inbox' = 1 .. n + 1
        /\ \A i \in 1 .. n : inbox'[i] = inbox[i]
        /\ inbox'[n + 1] = f
    BY <1>1, SentFacts
  <1>3. ASSUME NEW i \in 1 .. n + 1, NEW g, g = inbox'[i], Transcript(g)
        PROVE  Said(transcripts', spoken', FALSE, g.text)
    <2>1. CASE i = n + 1
      BY <1>2, <1>3, <2>1
    <2>2. CASE i # n + 1
      <3>1. i \in DOMAIN inbox /\ g = inbox[i]
        BY <1>2, <1>3, <2>2
      <3>2. Said(transcripts, spoken, FALSE, g.text)
        BY <1>3, <3>1 DEF KnownInv
      <3> QED BY <3>2
    <2> QED BY <2>1, <2>2
  <1>4. Said(transcripts', spoken', FALSE, asrText')
    BY DEF KnownInv
  <1>5. \A i \in DOMAIN inbox' : Transcript(inbox'[i]) => Said(transcripts', spoken', FALSE, inbox'[i].text)
    BY <1>2, <1>3
  <1> QED BY <1>4, <1>5 DEF KnownInv, Said, Transcript

\* What asrText will be last is what it was, when no transcript is sent.
LEMMA LatestSent ==
    ASSUME TypeOK, LatestInv, NEW f \in Frames, ServerSends(f), asrText' = asrText,
           ~Transcript(f), UNCHANGED <<spoken, transcripts>>, Current' => Current
    PROVE  LatestInv'
  <1>1. PICK n \in Nat : n = Len(inbox)
    BY LenProperties DEF TypeOK
  <1>2. PICK t : Heard(n + 1, t) /\ Said(transcripts, spoken, Current, t)
    BY <1>1 DEF LatestInv
  <1>3. Heard(n + 2, t)'
    <2>1. n + 1 \in 1 .. n + 1
      BY <1>1
    <2> QED BY <1>1, <1>2, <2>1, HeardSent
  <1>4. Len(inbox') + 1 = n + 2
    BY <1>1, SentFacts
  <1>5. spoken \in Nat
    BY BoundFacts DEF TypeOK
  <1>6. Said(transcripts', spoken', Current', t)
    BY <1>2, <1>5, SaidSame
  <1>7. Heard(Len(inbox) + 1, t)'
    BY <1>3, <1>4 DEF Heard, Transcript
  <1> QED BY <1>6, <1>7 DEF LatestInv, Said

\* Whatever is sent, lost or handled, the end of an utterance finds the latest
\* transcript in asrText.
LEMMA HeardStep == Regular /\ TypeOK /\ HeardInv /\ [Next]_vars => HeardInv'
  <1> SUFFICES ASSUME Regular, TypeOK, HeardInv, [Next]_vars
               PROVE  HeardInv'
    OBVIOUS
  <1>0. PICK n \in Nat : n = Len(inbox)
    BY LenProperties DEF TypeOK
  <1>1. /\ spoken \in 0 .. MaxUtterances /\ MaxUtterances \in Nat /\ Utterances = 1 .. MaxUtterances
        /\ transcripts \in [Utterances -> Seq(Texts)] /\ listening \in BOOLEAN /\ spoken \in Nat
    BY BoundFacts DEF TypeOK, Utterances
  <1>h. EndedInv /\ KnownInv /\ LatestInv
    BY DEF HeardInv
  <1>2. CASE Speak
    <2>1. /\ UNCHANGED <<asrText, inbox, transcripts, losses>>
          /\ listening' = TRUE /\ spoken' = spoken + 1 /\ spoken < MaxUtterances
      BY <1>2 DEF Speak, clientVars
    <2>2. transcripts[spoken + 1] = <<>> /\ transcripts'[spoken'] = <<>> /\ spoken' # 0
      <3>1. spoken + 1 \in Utterances /\ spoken + 1 > spoken
        BY <1>1, <2>1
      <3> QED BY <1>1, <2>1, <3>1 DEF HeardInv
    <2>3. \A u \in Utterances : u > spoken' => transcripts'[u] = <<>>
      <3>1. \A u \in Utterances : u > spoken' => u > spoken
        BY <1>1, <2>1
      <3> QED BY <2>1, <3>1 DEF HeardInv
    <2>4. EndedInv'
      <3>1. DOMAIN inbox' = 1 .. n
        BY <1>0, <2>1, LenProperties DEF TypeOK
      <3>2. ASSUME NEW i \in 1 .. n, NEW g, g = inbox'[i]
            PROVE  /\ g.event # "none"
                   /\ Ended(g) => /\ Over(g.utt)'
                                  /\ \E t : Heard(i, t)' /\ Final(transcripts', losses', g.utt, t)
        <4>1. i \in DOMAIN inbox /\ g = inbox[i] /\ g.event # "none"
          BY <1>h, <2>1, <3>1, <3>2 DEF EndedInv
        <4>2. ASSUME Ended(g)
              PROVE  /\ Over(g.utt)'
                     /\ \E t : Heard(i, t)' /\ Final(transcripts', losses', g.utt, t)
          <5>1. PICK t : Heard(i, t) /\ Final(transcripts, losses, g.utt, t)
            BY <1>h, <4>1, <4>2 DEF EndedInv
          <5>2. Over(g.utt)
            BY <1>h, <4>1, <4>2 DEF EndedInv
          <5>3. Over(g.utt)'
            BY <5>2, OverKept
          <5>4. Heard(i, t)'
            BY <2>1, <5>1 DEF Heard, Transcript
          <5>5. Final(transcripts', losses', g.utt, t)
            BY <2>1, <5>1
          <5> QED BY <5>3, <5>4, <5>5
        <4> QED BY <4>1, <4>2
      <3> QED BY <3>1, <3>2, EndedNext
    <2>5. \A a, t : Said(transcripts, spoken, a, t) => Said(transcripts', spoken', a, t)
      <3>1. ASSUME NEW a, NEW t, Said(transcripts, spoken, a, t)
            PROVE  Said(transcripts, spoken + 1, a, t)
        BY <1>1, <2>2, <3>1, SaidNext
      <3> QED BY <2>1, <3>1
    <2>6. KnownInv'
      <3>1. Said(transcripts', spoken', FALSE, asrText')
        BY <1>h, <2>1, <2>5 DEF KnownInv
      <3>2. \A i \in DOMAIN inbox' :
               Transcript(inbox'[i]) => Said(transcripts', spoken', FALSE, inbox'[i].text)
        BY <1>h, <2>1, <2>5 DEF KnownInv
      <3> QED BY <3>1, <3>2 DEF KnownInv, Said, Transcript
    <2>7. LatestInv'
      <3>1. PICK t : Heard(Len(inbox) + 1, t) /\ Said(transcripts, spoken, Current, t)
        BY <1>h DEF LatestInv
      <3>2. Said(transcripts', spoken', Current, t)
        BY <2>5, <3>1
      <3>3. Current' => Current
        BY <2>1, <2>2 DEF Current
      <3>4. spoken' \in Nat
        BY <1>1, <2>1
      <3>5. Said(transcripts', spoken', Current', t)
        BY <3>2, <3>3, <3>4, SaidSame
      <3>6. Heard(Len(inbox) + 1, t)'
        BY <2>1, <3>1 DEF Heard, Transcript
      <3> QED BY <3>5, <3>6 DEF LatestInv, Said
    <2> QED BY <2>2, <2>3, <2>4, <2>6, <2>7 DEF HeardInv
  <1>3. ASSUME NEW text \in Texts, Transcribe(text)
        PROVE  HeardInv'
    <2> DEFINE f == Frame("ASRResponse", spoken, Cloud, text)
    <2>1. /\ ServerSends(f) /\ UNCHANGED <<asrText, spoken, listening, losses>> /\ listening
          /\ transcripts' = [transcripts EXCEPT ![spoken] = Append(@, text)]
      BY <1>3 DEF Transcribe, clientVars
    <2>2. PICK g \in Frames : g = f
      BY FrameTypes
    <2>3. Transcript(g) /\ ~Ended(g) /\ g.event # "none" /\ g.text = text
      BY <2>2 DEF Frame, Transcript, Ended
    <2> HIDE DEF f
    <2>4. spoken \in Utterances /\ spoken # 0
      BY <1>1, <2>1 DEF HeardInv
    <2>5. EndedInv'
      BY <1>0, <2>1, <2>2, <2>3, EndedSent
    <2>6. /\ Said(transcripts', spoken, TRUE, text)
          /\ \A t : Said(transcripts, spoken, FALSE, t) => Said(transcripts', spoken, FALSE, t)
      <3>1. /\ spoken \in Nat \ {0} /\ transcripts'[spoken] = Append(transcripts[spoken], text)
            /\ \A w \in 1 .. spoken : transcripts[w] \in Seq(Texts)
            /\ \A w \in 1 .. spoken - 1 : transcripts'[w] = transcripts[w]
        <4>1. \A w \in 1 .. spoken : w \in Utterances
          BY <1>1
        <4>2. \A w \in 1 .. spoken - 1 : w \in Utterances /\ w # spoken
          BY <1>1
        <4> QED BY <1>1, <2>1, <2>4, <4>1, <4>2
      <3> QED BY <3>1, SaidNew
    <2>7. KnownInv'
      <3>1. Said(transcripts', spoken, FALSE, text)
        BY <1>1, <2>6, SaidSame
      <3> QED BY <1>h, <2>1, <2>2, <2>3, <2>6, <3>1, KnownSent
    <2>8. LatestInv'
      <3>1. Len(inbox') = n + 1 /\ inbox'[n + 1] = g
        BY <1>0, <2>1, <2>2, SentFacts
      <3>2. /\ n + 1 \in 1 .. (n + 2) - 1
            /\ \A k \in n + 1 + 1 .. (n + 2) - 1 : FALSE
        BY <1>0
      <3>3. Heard(n + 2, text)'
        BY <2>3, <3>1, <3>2 DEF Heard, Transcript
      <3>4. Len(inbox') + 1 = n + 2
        BY <1>0, <3>1
      <3>5. Heard(Len(inbox) + 1, text)'
        BY <3>3, <3>4 DEF Heard, Transcript
      <3>6. Said(transcripts', spoken', Current', text)
        <4>1. Said(transcripts', spoken, Current', text)
          BY <1>1, <2>6, SaidSame
        <4> QED BY <2>1, <4>1
      <3> QED BY <3>5, <3>6 DEF LatestInv, Said
    <2>9. \A u \in Utterances : u > spoken' => transcripts'[u] = <<>>
      <3>1. \A u \in Utterances : u > spoken => u # spoken /\ transcripts[u] = <<>>
        BY <1>1 DEF HeardInv
      <3> QED BY <1>1, <2>1, <3>1
    <2> QED BY <2>1, <2>4, <2>5, <2>7, <2>8, <2>9 DEF HeardInv
  <1>4. CASE EndSpeech
    <2> DEFINE f == Frame("ASREnded", spoken, Cloud, NoText)
    <2>1. /\ ServerSends(f) /\ UNCHANGED <<asrText, spoken, transcripts, losses>> /\ listening
          /\ listening' = FALSE
      BY <1>4 DEF EndSpeech, clientVars
    <2>2. PICK g \in Frames : g = f
      BY FrameTypes
    <2>3. g.event # "none" /\ g.utt = spoken /\ ~Transcript(g)
      BY <2>2 DEF Frame, Transcript
    <2> HIDE DEF f
    <2>4. spoken # 0 /\ \E t : Heard(n + 1, t) /\ Final(transcripts', losses', g.utt, t)
      <3>1. PICK t : Heard(n + 1, t) /\ Said(transcripts, spoken, Current, t)
        BY <1>0, <1>h DEF LatestInv
      <3>2. transcripts'[spoken] # <<>> \/ losses' = 0 => Current
        BY <2>1 DEF Current
      <3>3. Final(transcripts', losses', g.utt, t)
        BY <1>1, <2>1, <2>3, <3>1, <3>2, SaidSame DEF Final
      <3> QED BY <2>1, <3>1, <3>3 DEF HeardInv
    <2>5. Over(g.utt)'
      <3>1. spoken \in 1 .. spoken
        BY <1>1, <2>4
      <3> QED BY <2>1, <2>3, <3>1 DEF Over
    <2>6. EndedInv'
      BY <1>0, <2>1, <2>2, <2>3, <2>4, <2>5, EndedSent
    <2>7. KnownInv'
      BY <1>h, <2>1, <2>2, <2>3, KnownSent
    <2>8. LatestInv'
      <3>1. Current' => Current
        BY <2>1 DEF Current
      <3> QED BY <1>h, <2>1, <2>2, <2>3, <3>1, LatestSent
    <2> QED BY <2>1, <2>6, <2>7, <2>8 DEF HeardInv
  <1>5. ASSUME NEW f \in Frames, ServerSends(f),
               UNCHANGED <<asrText, spoken, listening, transcripts, losses>>,
               ~Ended(f), ~Transcript(f), f.event # "none"
        PROVE  HeardInv'
    <2>1. EndedInv'
      BY <1>0, <1>5, EndedSent
    <2>2. KnownInv'
      BY <1>h, <1>5, KnownSent
    <2>3. LatestInv'
      <3>1. Current' => Current
        BY <1>5 DEF Current
      <3> QED BY <1>h, <1>5, <3>1, LatestSent
    <2> QED BY <1>5, <2>1, <2>2, <2>3 DEF HeardInv
  <1>6. CASE Stream
    <2>1. /\ todo # <<>>
          /\ ServerSends(Frame(StreamEvent(step), Head(todo).utt, Head(todo).origin, NoText))
          /\ UNCHANGED <<asrText, spoken, listening, transcripts, losses>>
      BY <1>6 DEF Stream, clientVars
    <2>2. PICK f \in Frames :
             f = Frame(StreamEvent(step), Head(todo).utt, Head(todo).origin, NoText)
      BY <2>1, FrameTypes
    <2>3. ~Ended(f) /\ ~Transcript(f) /\ f.event # "none"
      BY <2>2 DEF Frame, StreamEvent, Ended, Transcript
    <2> QED BY <1>5, <2>1, <2>2, <2>3
  <1>7. ASSUME NEW event \in OtherFrames, SendOther(event)
        PROVE  HeardInv'
    <2>1. /\ ServerSends(Frame(event, spoken, Cloud, NoText)) /\ event = "ChatResponse"
          /\ UNCHANGED <<asrText, spoken, listening, transcripts, losses>>
      BY <1>7, BoundFacts DEF SendOther, Regular, clientVars
    <2>2. PICK f \in Frames : f = Frame(event, spoken, Cloud, NoText)
      BY <2>1, FrameTypes
    <2>3. ~Ended(f) /\ ~Transcript(f) /\ f.event # "none"
      BY <2>1, <2>2 DEF Frame, Ended, Transcript
    <2> QED BY <1>5, <2>1, <2>2, <2>3
  <1>8. CASE UNCHANGED <<asrText, inbox, spoken, listening, transcripts, losses>>
    <2>1. DOMAIN inbox' = 1 .. n
      BY <1>0, <1>8, LenProperties DEF TypeOK
    <2>2. ASSUME NEW i \in 1 .. n, NEW g, g = inbox'[i]
          PROVE  /\ g.event # "none"
                 /\ Ended(g) => /\ Over(g.utt)'
                                /\ \E t : Heard(i, t)' /\ Final(transcripts', losses', g.utt, t)
      <3>1. i \in DOMAIN inbox /\ g = inbox[i] /\ g.event # "none"
        BY <1>8, <1>h, <2>1, <2>2 DEF EndedInv
      <3>2. ASSUME Ended(g)
            PROVE  /\ Over(g.utt)'
                   /\ \E t : Heard(i, t)' /\ Final(transcripts', losses', g.utt, t)
        <4>1. PICK t : Heard(i, t) /\ Final(transcripts, losses, g.utt, t)
          BY <1>h, <3>1, <3>2 DEF EndedInv
        <4>2. Over(g.utt)'
          BY <1>8, <1>h, <3>1, <3>2 DEF EndedInv, Over
        <4>3. Heard(i, t)'
          BY <1>8, <4>1 DEF Heard, Transcript
        <4>4. Final(transcripts', losses', g.utt, t)
          BY <1>8, <4>1
        <4> QED BY <4>2, <4>3, <4>4
      <3> QED BY <3>1, <3>2
    <2>3. EndedInv'
      BY <2>1, <2>2, EndedNext
    <2>4. KnownInv'
      BY <1>8, <1>h DEF KnownInv, Said, Transcript
    <2>5. LatestInv'
      <3>1. PICK t : Heard(Len(inbox) + 1, t) /\ Said(transcripts, spoken, Current, t)
        BY <1>h DEF LatestInv
      <3>2. Current' <=> Current
        BY <1>8 DEF Current
      <3>3. Said(transcripts', spoken', Current', t)
        BY <1>1, <1>8, <3>1, <3>2, SaidSame
      <3>4. Heard(Len(inbox) + 1, t)'
        BY <1>8, <3>1 DEF Heard, Transcript
      <3> QED BY <3>3, <3>4 DEF LatestInv, Said
    <2> QED BY <1>8, <2>3, <2>4, <2>5 DEF HeardInv
  <1>9. ASSUME NEW f \in ToSet(inbox), NEW e \in Events, OnMessage(f, e)
        PROVE  HeardInv'
    <2>1. /\ inbox # <<>> /\ inbox' = Tail(inbox) /\ inbox \in Seq(Frames)
          /\ UNCHANGED <<spoken, listening, transcripts, losses>>
          /\ 1 \in DOMAIN inbox /\ f = inbox[1]
          /\ asrText' = IF Transcript(f) THEN f.text ELSE asrText
      BY <1>9, MessageFacts DEF TypeOK, Frames
    <2>2. /\ n >= 1 /\ Len(inbox') = n - 1 /\ DOMAIN inbox' = 1 .. n - 1 /\ DOMAIN inbox = 1 .. n
          /\ \A i \in 1 .. n - 1 : inbox'[i] = inbox[i + 1]
      BY <1>0, <2>1, TailAt
    <2>3. ASSUME NEW i \in 1 .. n - 1, NEW g, g = inbox'[i]
          PROVE  /\ g.event # "none"
                 /\ Ended(g) => /\ Over(g.utt)'
                                /\ \E t : Heard(i, t)' /\ Final(transcripts', losses', g.utt, t)
      <3>1. PICK j \in 2 .. n : j = i + 1 /\ i = j - 1
        <4>1. i + 1 \in 2 .. n /\ i = (i + 1) - 1
          BY <1>0
        <4> QED BY <4>1
      <3>2. j \in DOMAIN inbox /\ g = inbox[j] /\ g.event # "none"
        BY <1>h, <2>2, <2>3, <3>1 DEF EndedInv
      <3>3. ASSUME Ended(g)
            PROVE  /\ Over(g.utt)'
                   /\ \E t : Heard(i, t)' /\ Final(transcripts', losses', g.utt, t)
        <4>1. PICK t : Heard(j, t) /\ Final(transcripts, losses, g.utt, t)
          BY <1>h, <3>2, <3>3 DEF EndedInv
        <4>2. Over(g.utt)
          BY <1>h, <3>2, <3>3 DEF EndedInv
        <4>3. Heard(j - 1, t)'
          <5>1. j \in 2 .. Len(inbox) + 1
            BY <1>0, <3>1
          <5> QED BY <1>9, <4>1, <5>1, HeardTail
        <4>4. Over(g.utt)'
          BY <4>2, OverKept
        <4> QED BY <2>1, <3>1, <4>1, <4>3, <4>4
      <3> QED BY <3>2, <3>3
    <2>4. EndedInv'
      <3>1. PICK m : m = n - 1
        OBVIOUS
      <3> QED BY <2>2, <2>3, <3>1, EndedNext
    <2>5. LatestInv'
      <3>1. PICK t : Heard(n + 1, t) /\ Said(transcripts, spoken, Current, t)
        BY <1>0, <1>h DEF LatestInv
      <3>2. Heard((n + 1) - 1, t)'
        <4>1. n + 1 \in 2 .. Len(inbox) + 1
          BY <1>0, <2>2
        <4> QED BY <1>9, <3>1, <4>1, HeardTail
      <3>3. Len(inbox') + 1 = (n + 1) - 1
        BY <1>0, <2>2
      <3>4. Heard(Len(inbox) + 1, t)'
        BY <3>2, <3>3 DEF Heard, Transcript
      <3>5. Said(transcripts', spoken', Current', t)
        BY <2>1, <3>1 DEF Current
      <3> QED BY <3>4, <3>5 DEF LatestInv, Said
    <2>6. KnownInv'
      <3>1. Said(transcripts', spoken', FALSE, asrText')
        BY <1>h, <2>1 DEF KnownInv
      <3>2. ASSUME NEW i \in DOMAIN inbox', Transcript(inbox'[i])
            PROVE  Said(transcripts', spoken', FALSE, inbox'[i].text)
        <4>1. i + 1 \in DOMAIN inbox /\ inbox'[i] = inbox[i + 1]
          BY <2>2
        <4> QED BY <1>h, <2>1, <3>2, <4>1 DEF KnownInv
      <3> QED BY <3>1, <3>2 DEF KnownInv, Said, Transcript
    <2> QED BY <2>1, <2>4, <2>5, <2>6 DEF HeardInv
  <1>10. CASE Reconnect
    <2>1. /\ inbox' = <<>> /\ listening' = FALSE /\ UNCHANGED <<spoken, transcripts, asrText>>
          /\ losses' = losses + 1 /\ losses \in Nat
      BY <1>10, BoundFacts DEF Reconnect, clientVars, TypeOK
    <2>2. DOMAIN inbox' = {} /\ Len(inbox') = 0
      BY <2>1
    <2>3. Said(transcripts', spoken', FALSE, asrText')
      BY <1>h, <2>1 DEF KnownInv
    <2>4. LatestInv'
      <3>1. ~Current'
        BY <2>1 DEF Current
      <3>2. Heard(Len(inbox) + 1, asrText)'
        <4>1. \A j \in 1 .. 0 + 1 - 1 : FALSE
          OBVIOUS
        <4> QED BY <2>2, <4>1 DEF Heard
      <3>3. Said(transcripts', spoken', Current', asrText')
        <4>1. spoken' \in Nat
          BY <1>1, <2>1
        <4> QED BY <2>3, <3>1, <4>1, SaidSame
      <3> QED BY <3>2, <3>3 DEF LatestInv, Said
    <2>5. KnownInv'
      BY <2>2, <2>3 DEF KnownInv, Said
    <2> QED BY <2>1, <2>2, <2>4, <2>5 DEF HeardInv, EndedInv
  <1> QED
    BY <1>2, <1>3, <1>4, <1>6, <1>7, <1>8, <1>9, <1>10
    DEF Next, MainStep, LcmReturns, ReplyThrows, TakeChat, vars, serverVars, clientVars

----------------------------------------------------------------------------
(* Commands *)

\* A call stays right, once its utterance is over.
LEMMA RightKept ==
    ASSUME TypeOK, [Next]_vars, NEW c, Over(c.utt), Right(transcripts, losses, c)
    PROVE  Right(transcripts', losses', c)
  <1>1. c.utt \in Nat /\ \A w \in 1 .. c.utt : transcripts[w] = transcripts'[w]
    BY SaidKept
  <1>2. transcripts'[c.utt] # <<>> \/ losses' = 0 => transcripts[c.utt] # <<>> \/ losses = 0
    BY LossesGrow, OverKept
  <1>u. PICK u \in 1 .. c.utt : \E text \in ToSet(transcripts[u]) :
           /\ FirstFor(text, c.action)
           /\ transcripts[c.utt] # <<>> \/ losses = 0 =>
                 text = Last(transcripts[u]) /\ \A v \in u + 1 .. c.utt : transcripts[v] = <<>>
    BY DEF Right
  <1>3. PICK text \in ToSet(transcripts[u]) :
           /\ FirstFor(text, c.action)
           /\ transcripts[c.utt] # <<>> \/ losses = 0 =>
                 text = Last(transcripts[u]) /\ \A v \in u + 1 .. c.utt : transcripts[v] = <<>>
    BY <1>u
  <1>4. transcripts'[u] = transcripts[u] /\ \A v \in u + 1 .. c.utt : transcripts'[v] = transcripts[v]
    <2>1. \A v \in u + 1 .. c.utt : v \in 1 .. c.utt
      BY <1>1
    <2> QED BY <1>1, <2>1
  <1>5. text \in ToSet(transcripts'[u])
    BY <1>4
  <1>6. transcripts'[c.utt] # <<>> \/ losses' = 0 =>
           text = Last(transcripts'[u]) /\ \A v \in u + 1 .. c.utt : transcripts'[v] = <<>>
    BY <1>2, <1>3, <1>4
  <1> QED BY <1>3, <1>5, <1>6 DEF Right

\* The robot is commanded at the end of an utterance, for the latest transcript.
LEMMA CommandFacts ==
    ASSUME Regular, TypeOK, HeardInv, [Next]_vars
    PROVE  \/ commanded' = commanded /\ (calling' = calling \/ calling' = NoCall)
           \/ \E c \in Calls :
                 /\ commanded' = Append(commanded, c) /\ calling' = c /\ calling = NoCall
                 /\ inbox # <<>> /\ inbox' = Tail(inbox) /\ Ended(inbox[1])
                 /\ c.utt = inbox[1].utt /\ Over(c.utt)
                 /\ Right(transcripts, losses, c)
  <1>1. ASSUME NEW f \in ToSet(inbox), NEW e \in Events, OnMessage(f, e)
        PROVE  \/ UNCHANGED <<calling, commanded>>
               \/ \E c \in Calls :
                     /\ commanded' = Append(commanded, c) /\ calling' = c /\ calling = NoCall
                     /\ inbox # <<>> /\ inbox' = Tail(inbox) /\ Ended(inbox[1])
                     /\ c.utt = inbox[1].utt /\ Over(c.utt)
                     /\ Right(transcripts, losses, c)
    <2>1. /\ calling = NoCall /\ inbox # <<>> /\ inbox' = Tail(inbox)
          /\ 1 \in DOMAIN inbox /\ f = inbox[1]
          /\ \/ UNCHANGED <<calling, commanded>>
             \/ /\ Ended(f)
                /\ \E action \in Matched :
                      /\ calling' = [utt |-> f.utt, action |-> action.name]
                      /\ commanded' = Append(commanded, [utt |-> f.utt, action |-> action.name])
      BY <1>1, MessageFacts
    <2>2. ASSUME Ended(f), NEW action \in Matched,
                 calling' = [utt |-> f.utt, action |-> action.name],
                 commanded' = Append(commanded, [utt |-> f.utt, action |-> action.name])
          PROVE  \E c \in Calls :
                     /\ commanded' = Append(commanded, c) /\ calling' = c /\ calling = NoCall
                     /\ inbox # <<>> /\ inbox' = Tail(inbox) /\ Ended(inbox[1])
                     /\ c.utt = inbox[1].utt /\ Over(c.utt)
                     /\ Right(transcripts, losses, c)
      <3>1. Over(f.utt) /\ \E t : Heard(1, t) /\ Final(transcripts, losses, f.utt, t)
        BY <2>1, <2>2 DEF HeardInv, EndedInv
      <3>2. Final(transcripts, losses, f.utt, asrText)
        <4>1. PICK t : Heard(1, t) /\ Final(transcripts, losses, f.utt, t)
          BY <3>1
        <4>2. t = asrText
          BY <4>1 DEF Heard
        <4> QED BY <4>1, <4>2
      <3>3. f.utt \in Utterances
        BY <3>1, OverKept
      <3>4. action.name \in {ActionFile[i].name : i \in DOMAIN ActionFile}
        BY <2>2, MatchedFacts
      <3>5. FirstFor(asrText, action.name)
        BY <2>2, MatchedFacts
      <3>6. PICK c \in Calls : c = [utt |-> f.utt, action |-> action.name]
        BY <3>3, <3>4 DEF Calls
      <3>7. c.utt = f.utt /\ c.action = action.name
        BY <3>6
      <3>8. asrText # NoText
        BY <2>2, BoundFacts DEF Matched
      <3>9. Right(transcripts, losses, c)
        BY <3>2, <3>5, <3>7, <3>8 DEF Final, Said, Right
      <3> QED BY <2>1, <2>2, <3>1, <3>6, <3>7, <3>9
    <2> QED BY <2>1, <2>2
  <1> QED
    BY <1>1
    DEF Next, MainStep, Speak, Transcribe, EndSpeech, Stream, TakeChat, SendOther, Reconnect,
        LcmReturns, ReplyThrows, vars, clientVars

\* The end of an utterance is sent while the user speaks, and is the last frame.
LEMMA EndFacts ==
    ASSUME TypeOK, EndSpeech
    PROVE  /\ \E f \in Frames : /\ ServerSends(f) /\ f.event = "ASREnded" /\ f.utt = spoken
                                /\ f.origin = Cloud
           /\ listening /\ listening' = FALSE
           /\ UNCHANGED <<clientVars, chats, bargeIn, spoken, transcripts, step, others, losses>>
           /\ Len(todo) \in Nat
           /\ \/ todo' = todo
              \/ /\ Len(todo') = Len(todo) + 1
                 /\ \A i \in 1 .. Len(todo) : todo'[i] = todo[i]
                 /\ todo'[Len(todo) + 1] = [origin |-> Cloud, utt |-> spoken]
  <1>1. /\ listening /\ listening' = FALSE
        /\ UNCHANGED <<clientVars, chats, bargeIn, spoken, transcripts, step, others, losses>>
        /\ ServerSends(Frame("ASREnded", spoken, Cloud, NoText))
        /\ todo' = Append(todo, [origin |-> Cloud, utt |-> spoken]) \/ todo' = todo
    BY DEF EndSpeech
  <1>2. PICK a \in Audio : a = [origin |-> Cloud, utt |-> spoken]
    BY DEF Audio, TypeOK
  <1>3. todo \in Seq(Audio)
    BY DEF TypeOK
  <1>4. /\ Len(todo) \in Nat
        /\ \/ todo' = todo
           \/ /\ Len(todo') = Len(todo) + 1
              /\ \A i \in 1 .. Len(todo) : todo'[i] = todo[i]
              /\ todo'[Len(todo) + 1] = a
    BY <1>1, <1>2, <1>3, AppendAt, LenProperties
  <1>5. PICK f \in Frames : f = Frame("ASREnded", spoken, Cloud, NoText)
    BY FrameTypes
  <1>6. f.event = "ASREnded" /\ f.utt = spoken /\ f.origin = Cloud
    BY <1>5 DEF Frame
  <1> QED BY <1>1, <1>2, <1>4, <1>5, <1>6

\* The next frame of the first stream.
LEMMA StreamFacts ==
    ASSUME TypeOK, Stream
    PROVE  /\ todo # <<>> /\ todo[1] \in Audio /\ Len(todo) \in Nat /\ Len(todo) >= 1
           /\ \E f \in Frames : /\ ServerSends(f) /\ f.event = StreamEvent(step)
                                /\ f.utt = todo[1].utt /\ f.origin = todo[1].origin
           /\ UNCHANGED <<clientVars, chats, bargeIn, spoken, transcripts, listening, others, losses>>
           /\ \/ /\ step = AudioFrames + 1 /\ step' = 0 /\ Len(todo') = Len(todo) - 1
                 /\ \A i \in 1 .. Len(todo) - 1 : todo'[i] = todo[i + 1]
              \/ step # AudioFrames + 1 /\ step' = step + 1 /\ todo' = todo
  <1>1. /\ todo # <<>>
        /\ UNCHANGED <<clientVars, chats, bargeIn, spoken, transcripts, listening, others, losses>>
        /\ ServerSends(Frame(StreamEvent(step), Head(todo).utt, Head(todo).origin, NoText))
        /\ IF step = AudioFrames + 1
           THEN todo' = Tail(todo) /\ step' = 0
           ELSE todo' = todo /\ step' = step + 1
    BY DEF Stream
  <1>2. todo \in Seq(Audio)
    BY DEF TypeOK
  <1>3. /\ todo[1] \in Audio /\ Len(todo) \in Nat /\ Len(todo) >= 1 /\ Head(todo) = todo[1]
        /\ Len(Tail(todo)) = Len(todo) - 1
        /\ \A i \in 1 .. Len(todo) - 1 : Tail(todo)[i] = todo[i + 1]
    BY <1>1, <1>2, TailAt
  <1>4. PICK f \in Frames : f = Frame(StreamEvent(step), todo[1].utt, todo[1].origin, NoText)
    BY <1>1, FrameTypes
  <1>5. f.event = StreamEvent(step) /\ f.utt = todo[1].utt /\ f.origin = todo[1].origin
    BY <1>4 DEF Frame
  <1> QED BY <1>1, <1>3, <1>4, <1>5

\* What becomes of the frames on their way.
LEMMA InboxFacts ==
    ASSUME Regular, TypeOK, HeardInv, [Next]_vars
    PROVE  \/ inbox' = inbox /\ commanded' = commanded
           \/ inbox' = <<>> /\ commanded' = commanded
           \/ inbox # <<>> /\ inbox' = Tail(inbox)
           \/ \E f \in Frames : /\ ServerSends(f) /\ commanded' = commanded
                                /\ Ended(f) => f.utt = spoken /\ listening
  <1>1. ASSUME NEW text \in Texts, Transcribe(text)
        PROVE  \E f \in Frames : ServerSends(f) /\ commanded' = commanded /\ ~Ended(f)
    <2>1. ServerSends(Frame("ASRResponse", spoken, Cloud, text)) /\ commanded' = commanded
      BY <1>1 DEF Transcribe, clientVars
    <2>2. PICK f \in Frames : f = Frame("ASRResponse", spoken, Cloud, text)
      BY FrameTypes
    <2> QED BY <2>1, <2>2 DEF Frame, Ended
  <1>2. CASE EndSpeech
    BY <1>2, EndFacts DEF clientVars
  <1>3. CASE Stream
    <2>1. PICK f \in Frames : ServerSends(f) /\ f.event = StreamEvent(step)
      BY <1>3, StreamFacts
    <2> QED BY <1>3, <2>1, StreamFacts DEF StreamEvent, Ended, clientVars
  <1>4. ASSUME NEW event \in OtherFrames, SendOther(event)
        PROVE  \E f \in Frames : ServerSends(f) /\ commanded' = commanded /\ ~Ended(f)
    <2>1. /\ ServerSends(Frame(event, spoken, Cloud, NoText)) /\ commanded' = commanded
          /\ event \in {"ChatResponse", "none"}
      BY <1>4, BoundFacts DEF SendOther, clientVars
    <2>2. PICK f \in Frames : f = Frame(event, spoken, Cloud, NoText)
      BY <2>1, FrameTypes
    <2> QED BY <2>1, <2>2 DEF Frame, Ended
  <1>5. ASSUME NEW f \in ToSet(inbox), NEW e \in Events, OnMessage(f, e)
        PROVE  inbox # <<>> /\ inbox' = Tail(inbox)
    BY <1>5, MessageFacts
  <1> QED
    BY <1>1, <1>2, <1>3, <1>4, <1>5
    DEF Next, MainStep, Speak, TakeChat, Reconnect, LcmReturns, ReplyThrows, vars, clientVars

\* Commands keep their order, and stay right.
LEMMA CommandsStep ==
    ASSUME Regular, TypeOK, HeardInv, OrderInv, [Next]_vars
    PROVE  /\ \A i, j \in DOMAIN commanded' : i < j => commanded'[i].utt < commanded'[j].utt
           /\ \A i \in DOMAIN commanded' : Over(commanded[i].utt)'
           /\ \A i \in DOMAIN commanded' : Right(transcripts', losses', commanded'[i])
  <1>1. PICK m \in Nat : m = Len(commanded) /\ DOMAIN commanded = 1 .. m /\ commanded \in Seq(Calls)
    BY LenProperties DEF TypeOK
  <1>2. ASSUME NEW c, Over(c.utt), Right(transcripts, losses, c)
        PROVE  Over(c.utt)' /\ Right(transcripts', losses', c)
    BY <1>2, OverKept, RightKept
  <1>3. ASSUME NEW i \in 1 .. m, NEW c, c = commanded[i]
        PROVE  Over(c.utt)' /\ Right(transcripts', losses', c)
    BY <1>1, <1>2, <1>3 DEF OrderInv
  <1>4. SUFFICES /\ \A i, j \in DOMAIN commanded' : i < j => commanded'[i].utt < commanded'[j].utt
                 /\ \A i \in DOMAIN commanded' : \A c : c = commanded'[i] =>
                       Over(c.utt)' /\ Right(transcripts', losses', c)
    <2>1. ASSUME NEW i \in DOMAIN commanded', NEW c, c = commanded'[i],
                 Over(c.utt)', Right(transcripts', losses', c)
          PROVE  /\ Over(commanded[i].utt)'
                 /\ Right(transcripts', losses', commanded'[i])
      BY <2>1 DEF Over, Right
    <2> QED BY <2>1
  <1>5. CASE commanded' = commanded
    BY <1>1, <1>3, <1>5 DEF OrderInv
  <1>6. ASSUME NEW c \in Calls, commanded' = Append(commanded, c),
               inbox # <<>>, Ended(inbox[1]), c.utt = inbox[1].utt, Over(c.utt),
               Right(transcripts, losses, c)
        PROVE  /\ \A i, j \in DOMAIN commanded' : i < j => commanded'[i].utt < commanded'[j].utt
               /\ \A i \in DOMAIN commanded' : \A d : d = commanded'[i] =>
                       Over(d.utt)' /\ Right(transcripts', losses', d)
    <2>1. /\ DOMAIN commanded' = 1 .. m + 1
          /\ \A i \in 1 .. m : commanded'[i] = commanded[i]
          /\ commanded'[m + 1] = c
      BY <1>1, <1>6, AppendAt
    <2>2. \A i \in 1 .. m : commanded[i].utt < c.utt
      <3>1. 1 \in DOMAIN inbox
        <4>1. inbox \in Seq(Frames)
          BY DEF TypeOK, Frames
        <4> QED BY <1>6, <4>1, TailAt
      <3> QED BY <1>1, <1>6, <3>1 DEF OrderInv
    <2>3. ASSUME NEW i \in 1 .. m + 1, NEW j \in 1 .. m + 1, i < j
          PROVE  commanded'[i].utt < commanded'[j].utt
      <3>1. i \in 1 .. m
        BY <2>3
      <3>2. CASE j = m + 1
        BY <2>1, <2>2, <3>1, <3>2
      <3>3. CASE j # m + 1
        <4>1. j \in 1 .. m
          BY <3>3
        <4> QED BY <1>1, <2>1, <2>3, <3>1, <4>1 DEF OrderInv
      <3> QED BY <3>2, <3>3
    <2>4. ASSUME NEW i \in 1 .. m + 1, NEW d, d = commanded'[i]
          PROVE  Over(d.utt)' /\ Right(transcripts', losses', d)
      <3>1. CASE i = m + 1
        BY <1>2, <1>6, <2>1, <2>4, <3>1
      <3>2. CASE i # m + 1
        <4>1. i \in 1 .. m
          BY <3>2
        <4> QED BY <1>3, <2>1, <2>4, <4>1
      <3> QED BY <3>1, <3>2
    <2> QED BY <2>1, <2>3, <2>4
  <1> QED BY <1>5, <1>6, CommandFacts

\* Ends of utterances keep their order, and stay behind the commands.
LEMMA EndsStep ==
    ASSUME Regular, TypeOK, HeardInv, OrderInv, [Next]_vars
    PROVE  /\ \A i, j \in DOMAIN inbox' :
                 i < j /\ Ended(inbox'[i]) /\ Ended(inbox'[j]) => inbox'[i].utt < inbox'[j].utt
           /\ \A i \in DOMAIN commanded', j \in DOMAIN inbox' :
                 Ended(inbox'[j]) => commanded'[i].utt < inbox'[j].utt
  <1>1. PICK m \in Nat : m = Len(commanded) /\ DOMAIN commanded = 1 .. m /\ commanded \in Seq(Calls)
    BY LenProperties DEF TypeOK
  <1>2. PICK n \in Nat : n = Len(inbox) /\ DOMAIN inbox = 1 .. n /\ inbox \in Seq(Frames)
    BY LenProperties DEF TypeOK, Frames
  <1>3. CASE inbox' = inbox /\ commanded' = commanded
    BY <1>3 DEF OrderInv
  <1>4. CASE inbox' = <<>>
    <2>1. DOMAIN inbox' = {}
      BY <1>4
    <2> QED BY <2>1
  <1>5. ASSUME NEW f \in Frames, ServerSends(f), commanded' = commanded,
               Ended(f) => f.utt = spoken /\ listening
        PROVE  /\ \A i, j \in DOMAIN inbox' :
                     i < j /\ Ended(inbox'[i]) /\ Ended(inbox'[j]) => inbox'[i].utt < inbox'[j].utt
               /\ \A i \in DOMAIN commanded', j \in DOMAIN inbox' :
                     Ended(inbox'[j]) => commanded'[i].utt < inbox'[j].utt
    <2>1. /\ DOMAIN inbox' = 1 .. n + 1 /\ \A i \in 1 .. n : inbox'[i] = inbox[i]
          /\ inbox'[n + 1] = f
      BY <1>2, <1>5, SentFacts
    <2>2. ASSUME Ended(f), NEW u, Over(u)
          PROVE  u < f.utt
      BY <1>5, <2>2 DEF Over, TypeOK
    <2>3. ASSUME NEW i \in 1 .. n + 1, NEW j \in 1 .. n + 1, i < j, Ended(inbox'[i]), Ended(inbox'[j])
          PROVE  inbox'[i].utt < inbox'[j].utt
      <3>1. i \in 1 .. n
        BY <2>3
      <3>2. CASE j = n + 1
        <4>1. Over(inbox[i].utt)
          BY <1>2, <2>1, <2>3, <3>1 DEF HeardInv, EndedInv
        <4> QED BY <2>1, <2>2, <2>3, <3>1, <3>2, <4>1
      <3>3. CASE j # n + 1
        <4>1. j \in 1 .. n
          BY <3>3
        <4> QED BY <1>2, <2>1, <2>3, <3>1, <4>1 DEF OrderInv
      <3> QED BY <3>2, <3>3
    <2>4. ASSUME NEW i \in 1 .. m, NEW j \in 1 .. n + 1, Ended(inbox'[j])
          PROVE  commanded[i].utt < inbox'[j].utt
      <3>1. CASE j = n + 1
        <4>1. Over(commanded[i].utt)
          BY <1>1 DEF OrderInv
        <4> QED BY <2>1, <2>2, <2>4, <3>1, <4>1
      <3>2. CASE j # n + 1
        <4>1. j \in 1 .. n
          BY <3>2
        <4> QED BY <1>1, <1>2, <2>1, <2>4, <4>1 DEF OrderInv
      <3> QED BY <3>1, <3>2
    <2> QED BY <1>1, <1>5, <2>1, <2>3, <2>4
  <1>6. CASE inbox # <<>> /\ inbox' = Tail(inbox)
    <2>1. /\ n >= 1 /\ DOMAIN inbox' = 1 .. n - 1
          /\ \A i \in 1 .. n - 1 : inbox'[i] = inbox[i + 1]
      BY <1>2, <1>6, TailAt
    <2>2. \A i \in 1 .. n - 1 : i + 1 \in 1 .. n /\ 1 < i + 1
      BY <1>2
    <2>3. ASSUME NEW i \in 1 .. n - 1, NEW j \in 1 .. n - 1, i < j, Ended(inbox'[i]), Ended(inbox'[j])
          PROVE  inbox'[i].utt < inbox'[j].utt
      <3>1. i + 1 < j + 1
        BY <2>3
      <3> QED BY <1>2, <2>1, <2>2, <2>3, <3>1 DEF OrderInv
    <2>4. CASE commanded' = commanded
      BY <1>2, <2>1, <2>2, <2>3, <2>4 DEF OrderInv
    <2>5. ASSUME NEW c \in Calls, commanded' = Append(commanded, c), Ended(inbox[1]),
                 c.utt = inbox[1].utt
          PROVE  \A i \in DOMAIN commanded', j \in DOMAIN inbox' :
                     Ended(inbox'[j]) => commanded'[i].utt < inbox'[j].utt
      <3>1. /\ DOMAIN commanded' = 1 .. m + 1
            /\ \A i \in 1 .. m : commanded'[i] = commanded[i]
            /\ commanded'[m + 1] = c
        BY <1>1, <2>5, AppendAt
      <3>2. ASSUME NEW i \in 1 .. m + 1, NEW j \in 1 .. n - 1, Ended(inbox'[j])
            PROVE  commanded'[i].utt < inbox'[j].utt
        <4>1. j + 1 \in DOMAIN inbox /\ inbox'[j] = inbox[j + 1] /\ 1 < j + 1 /\ 1 \in DOMAIN inbox
          BY <1>2, <2>1, <2>2
        <4>2. CASE i = m + 1
          BY <2>5, <3>1, <3>2, <4>1, <4>2 DEF OrderInv
        <4>3. CASE i # m + 1
          <5>1. i \in 1 .. m
            BY <4>3
          <5> QED BY <1>1, <3>1, <3>2, <4>1, <5>1 DEF OrderInv
        <4> QED BY <4>2, <4>3
      <3> QED BY <2>1, <3>1, <3>2
    <2> QED BY <2>1, <2>3, <2>4, <2>5, CommandFacts
  <1> QED BY <1>3, <1>4, <1>5, <1>6, InboxFacts

LEMMA OrderStep ==
    ASSUME Regular, TypeOK, HeardInv, OrderInv, [Next]_vars
    PROVE  OrderInv'
  BY CommandsStep, EndsStep DEF OrderInv, Ended, Right

----------------------------------------------------------------------------
(* Local replies *)

\* What a command settled stays settled.
LEMMA AnsweredKept ==
    ASSUME Regular, TypeOK, HeardInv, OrderInv, [Next]_vars, NEW u
    PROVE  /\ Answered(u) => Answered(u)'
           /\ Superseded(u) => Superseded(u)'
  <1>1. PICK m \in Nat : m = Len(commanded) /\ DOMAIN commanded = 1 .. m /\ commanded \in Seq(Calls)
    BY LenProperties DEF TypeOK
  <1>2. CASE commanded' = commanded /\ (calling' = calling \/ calling' = NoCall)
    BY <1>2 DEF Answered, Superseded
  <1>3. ASSUME NEW c \in Calls, commanded' = Append(commanded, c), calling' = c,
               inbox # <<>>, Ended(inbox[1]), c.utt = inbox[1].utt
        PROVE  /\ Answered(u) => Answered(u)'
               /\ Superseded(u) => Superseded(u)'
    <2>1. /\ DOMAIN commanded' = 1 .. m + 1
          /\ \A i \in 1 .. m : i \in 1 .. m + 1 /\ commanded'[i] = commanded[i]
      BY <1>1, <1>3, AppendAt
    <2>2. \A i \in 1 .. m : commanded[i].utt < c.utt
      <3>1. 1 \in DOMAIN inbox
        <4>1. inbox \in Seq(Frames)
          BY DEF TypeOK, Frames
        <4> QED BY <1>3, <4>1, TailAt
      <3> QED BY <1>1, <1>3, <3>1 DEF OrderInv
    <2>3. ASSUME Answered(u)
          PROVE  Answered(u)'
      <3>1. PICK i \in 1 .. m : commanded[i].utt = u
        BY <1>1, <2>3 DEF Answered
      <3>2. i \in DOMAIN commanded' /\ commanded'[i].utt = u /\ u < calling'.utt
        BY <1>3, <2>1, <2>2, <3>1
      <3> QED BY <3>2 DEF Answered
    <2>4. ASSUME Superseded(u)
          PROVE  Superseded(u)'
      <3>1. PICK i \in 1 .. m : commanded[i].utt > u
        BY <1>1, <2>4 DEF Superseded
      <3>2. i \in DOMAIN commanded' /\ commanded'[i].utt > u
        BY <2>1, <3>1
      <3> QED BY <3>2 DEF Superseded
    <2> QED BY <2>3, <2>4
  <1> QED BY <1>2, <1>3, CommandFacts

\* Where the streams to speak come from.
LEMMA TodoFacts ==
    ASSUME TypeOK, HeardInv, [Next]_vars, NEW i \in 1 .. Len(todo')
    PROVE  \/ \E j \in 1 .. Len(todo) : todo'[i] = todo[j]
           \/ todo'[i].origin # Local
           \/ chats # <<>> /\ todo'[i].utt = chats[1]
  <1>1. PICK n \in Nat : n = Len(todo) /\ todo \in Seq(Audio)
    BY LenProperties DEF TypeOK
  <1>2. CASE EndSpeech /\ todo' # todo
    <2>1. /\ Len(todo') = n + 1 /\ \A j \in 1 .. n : todo'[j] = todo[j]
          /\ todo'[n + 1] = [origin |-> Cloud, utt |-> spoken]
      BY <1>1, <1>2, EndFacts
    <2>2. i \in 1 .. n \/ i = n + 1
      BY <1>1, <2>1
    <2>3. CASE i = n + 1
      BY <2>1, <2>3 DEF Cloud, Local
    <2> QED BY <1>1, <2>1, <2>2, <2>3
  <1>3. CASE Stream
    <2>1. \/ Len(todo') = n - 1 /\ \A j \in 1 .. n - 1 : todo'[j] = todo[j + 1]
          \/ todo' = todo
      BY <1>1, <1>3, StreamFacts
    <2>2. CASE Len(todo') = n - 1 /\ \A j \in 1 .. n - 1 : todo'[j] = todo[j + 1]
      <3>1. i \in 1 .. n - 1 /\ i + 1 \in 1 .. n
        BY <1>1, <2>2
      <3> QED BY <1>1, <2>2, <3>1
    <2> QED BY <2>1, <2>2
  <1>4. CASE TakeChat
    <2>1. /\ chats # <<>>
          /\ \/ /\ Len(todo') = n + 1 /\ \A j \in 1 .. n : todo'[j] = todo[j]
                /\ todo'[n + 1] = [origin |-> Local, utt |-> chats[1]]
             \/ \E k \in 1 .. n :
                /\ Len(todo') = n
                /\ \A j \in 1 .. n - 1 : todo'[j] = IF j < k THEN todo[j] ELSE todo[j + 1]
                /\ todo'[n] = [origin |-> Local, utt |-> chats[1]]
      BY <1>1, <1>4, TakeFacts
    <2>2. CASE /\ Len(todo') = n + 1 /\ \A j \in 1 .. n : todo'[j] = todo[j]
               /\ todo'[n + 1] = [origin |-> Local, utt |-> chats[1]]
      <3>1. i \in 1 .. n \/ i = n + 1
        BY <1>1, <2>2
      <3> QED BY <1>1, <2>1, <2>2, <3>1
    <2>3. ASSUME NEW k \in 1 .. n, Len(todo') = n,
                 \A j \in 1 .. n - 1 : todo'[j] = IF j < k THEN todo[j] ELSE todo[j + 1],
                 todo'[n] = [origin |-> Local, utt |-> chats[1]]
          PROVE  \/ \E j \in 1 .. Len(todo) : todo'[i] = todo[j]
                 \/ chats # <<>> /\ todo'[i].utt = chats[1]
      <3>1. CASE i = n
        BY <2>1, <2>3, <3>1
      <3>2. CASE i # n
        <4>1. i \in 1 .. n - 1 /\ i \in 1 .. n /\ i + 1 \in 1 .. n
          BY <1>1, <2>3, <3>2
        <4> QED BY <1>1, <2>3, <4>1
      <3> QED BY <3>1, <3>2
    <2> QED BY <2>1, <2>2, <2>3
  <1>5. CASE Reconnect
    <2>1. todo' = <<Greeting>>
      BY <1>5 DEF Reconnect
    <2>2. i = 1 /\ todo'[1] = Greeting
      BY <2>1
    <2> QED BY <2>2 DEF Greeting, Hello, Local
  <1>6. CASE todo' = todo
    BY <1>6
  <1>7. ASSUME NEW f \in ToSet(inbox), NEW e \in Events, OnMessage(f, e)
        PROVE  todo' = todo
    BY <1>7, MessageFacts
  <1> QED
    BY <1>2, <1>3, <1>4, <1>5, <1>6, <1>7
    DEF Next, MainStep, Speak, Transcribe, SendOther, LcmReturns, ReplyThrows, serverVars, vars

\* Where the frames on their way come from.
LEMMA FrameFacts ==
    ASSUME TypeOK, HeardInv, [Next]_vars, NEW i \in 1 .. Len(inbox')
    PROVE  \/ \E j \in 1 .. Len(inbox) : inbox'[i] = inbox[j]
           \/ inbox'[i].origin # Local
           \/ 1 \in 1 .. Len(todo) /\ inbox'[i].origin = todo[1].origin /\ inbox'[i].utt = todo[1].utt
  <1>1. PICK n \in Nat : n = Len(inbox) /\ inbox \in Seq(Frames)
    BY LenProperties DEF TypeOK, Frames
  <1>2. ASSUME NEW f \in Frames, ServerSends(f)
        PROVE  (\E j \in 1 .. n : inbox'[i] = inbox[j]) \/ inbox'[i] = f
    <2>1. /\ Len(inbox') = n + 1 /\ \A j \in 1 .. n : inbox'[j] = inbox[j]
          /\ inbox'[n + 1] = f
      BY <1>1, <1>2, SentFacts
    <2>2. i \in 1 .. n \/ i = n + 1
      BY <1>1, <2>1
    <2> QED BY <2>1, <2>2
  <1>3. ASSUME NEW text \in Texts, Transcribe(text)
        PROVE  (\E j \in 1 .. n : inbox'[i] = inbox[j]) \/ inbox'[i].origin # Local
    <2>1. ServerSends(Frame("ASRResponse", spoken, Cloud, text))
      BY <1>3 DEF Transcribe
    <2>2. PICK f \in Frames : f = Frame("ASRResponse", spoken, Cloud, text)
      BY FrameTypes
    <2> QED BY <1>2, <2>1, <2>2 DEF Frame, Cloud, Local
  <1>4. CASE EndSpeech
    <2>1. PICK f \in Frames : ServerSends(f) /\ f.origin = Cloud
      BY <1>4, EndFacts
    <2> QED BY <1>1, <1>2, <2>1 DEF Cloud, Local
  <1>5. CASE Stream
    <2>1. PICK f \in Frames : ServerSends(f) /\ f.utt = todo[1].utt /\ f.origin = todo[1].origin
      BY <1>5, StreamFacts
    <2>2. 1 \in 1 .. Len(todo)
      BY <1>5, StreamFacts
    <2> QED BY <1>1, <1>2, <2>1, <2>2
  <1>6. ASSUME NEW event \in OtherFrames, SendOther(event)
        PROVE  (\E j \in 1 .. n : inbox'[i] = inbox[j]) \/ inbox'[i].origin # Local
    <2>1. ServerSends(Frame(event, spoken, Cloud, NoText)) /\ event \in {"ChatResponse", "none"}
      BY <1>6, BoundFacts DEF SendOther
    <2>2. PICK f \in Frames : f = Frame(event, spoken, Cloud, NoText)
      BY <2>1, FrameTypes
    <2> QED BY <1>2, <2>1, <2>2 DEF Frame, Cloud, Local
  <1>7. ASSUME NEW f \in ToSet(inbox), NEW e \in Events, OnMessage(f, e)
        PROVE  \E j \in 1 .. n : inbox'[i] = inbox[j]
    <2>1. inbox # <<>> /\ inbox' = Tail(inbox)
      BY <1>7, MessageFacts
    <2>2. Len(inbox') = n - 1 /\ \A j \in 1 .. n - 1 : inbox'[j] = inbox[j + 1]
      BY <1>1, <2>1, TailAt
    <2>3. i \in 1 .. n - 1 /\ i + 1 \in 1 .. n
      BY <1>1, <2>2
    <2> QED BY <2>2, <2>3
  <1>8. CASE inbox' = inbox
    BY <1>8
  <1>9. CASE Reconnect
    <2>1. inbox' = <<>>
      BY <1>9 DEF Reconnect
    <2>2. Len(inbox') = 0
      BY <2>1
    <2> QED BY <2>2
  <1> QED
    BY <1>1, <1>3, <1>4, <1>5, <1>6, <1>7, <1>8, <1>9
    DEF Next, MainStep, Speak, TakeChat, LcmReturns, ReplyThrows, vars

\* A local reply is asked for, spoken and heard after its command only.
LEMMA ReplyStep ==
    ASSUME Regular, TypeOK, HeardInv, OrderInv, ReplyInv, TypeOK', [Next]_vars
    PROVE  ReplyInv'
  <1>1. PICK m \in Nat : m = Len(commanded) /\ DOMAIN commanded = 1 .. m /\ commanded \in Seq(Calls)
    BY LenProperties DEF TypeOK
  <1>2. \A u : Answered(u) => Answered(u)'
    BY AnsweredKept
  <1>3. calling' # NoCall => /\ \E i \in DOMAIN commanded' : commanded'[i].utt = calling'.utt
                             /\ \A i \in DOMAIN commanded' : commanded'[i].utt <= calling'.utt
    <2>1. CASE commanded' = commanded /\ (calling' = calling \/ calling' = NoCall)
      BY <2>1 DEF ReplyInv
    <2>2. ASSUME NEW c \in Calls, commanded' = Append(commanded, c), calling' = c,
                 inbox # <<>>, Ended(inbox[1]), c.utt = inbox[1].utt
          PROVE  /\ \E i \in DOMAIN commanded' : commanded'[i].utt = calling'.utt
                 /\ \A i \in DOMAIN commanded' : commanded'[i].utt <= calling'.utt
      <3>1. /\ DOMAIN commanded' = 1 .. m + 1 /\ commanded'[m + 1] = c
            /\ \A i \in 1 .. m : commanded'[i] = commanded[i]
        BY <1>1, <2>2, AppendAt
      <3>2. \A i \in 1 .. m : commanded[i].utt < c.utt
        <4>1. 1 \in DOMAIN inbox
          <5>1. inbox \in Seq(Frames)
            BY DEF TypeOK, Frames
          <5> QED BY <2>2, <5>1, TailAt
        <4> QED BY <1>1, <2>2, <4>1 DEF OrderInv
      <3>3. ASSUME NEW i \in 1 .. m + 1
            PROVE  commanded'[i].utt <= c.utt
        <4>1. c.utt \in Int /\ \A j \in 1 .. m : commanded[j].utt \in Int
          <5>1. \A d \in Calls : d.utt \in Int
            BY BoundFacts DEF Calls, Utterances
          <5>2. \A j \in 1 .. m : commanded[j] \in Calls
            BY <1>1, ElementOfSeq
          <5> QED BY <5>1, <5>2
        <4>2. CASE i = m + 1
          BY <3>1, <4>1, <4>2
        <4>3. CASE i # m + 1
          <5>1. i \in 1 .. m
            BY <4>3
          <5> QED BY <3>1, <3>2, <4>1, <5>1
        <4> QED BY <4>2, <4>3
      <3>4. m + 1 \in DOMAIN commanded'
        BY <1>1, <3>1
      <3> QED BY <2>2, <3>1, <3>3, <3>4
    <2> QED BY <2>1, <2>2, CommandFacts
  <1>4. ASSUME NEW i \in DOMAIN chats', NEW u, u = chats'[i]
        PROVE  Answered(u)'
    <2>1. PICK n \in Nat : n = Len(chats) /\ DOMAIN chats = 1 .. n /\ chats \in Seq(Utterances)
      BY LenProperties DEF TypeOK
    <2>2. \A j \in 1 .. n : Answered(chats[j])
      BY <2>1 DEF ReplyInv
    <2>3. CASE chats' = chats
      BY <1>2, <1>4, <2>1, <2>2, <2>3
    <2>4. CASE TakeChat
      <3>1. chats # <<>> /\ chats' = Tail(chats)
        BY <2>4, TakeFacts
      <3>2. i \in 1 .. n - 1 /\ u = chats[i + 1] /\ i + 1 \in 1 .. n
        BY <1>4, <2>1, <3>1, TailAt
      <3> QED BY <1>2, <2>2, <3>2
    <2>5. CASE LcmReturns
      <3>1. /\ calling # NoCall /\ calling' = NoCall /\ commanded' = commanded
            /\ chats' = Append(chats, calling.utt)
        BY <2>5 DEF LcmReturns, ChatTTSText
      <3>2. calling.utt \in Utterances
        BY <3>1 DEF TypeOK, Calls
      <3>3. /\ DOMAIN chats' = 1 .. n + 1 /\ \A j \in 1 .. n : chats'[j] = chats[j]
            /\ chats'[n + 1] = calling.utt
        BY <2>1, <3>1, <3>2, AppendAt
      <3>4. CASE i = n + 1
        <4>1. u = calling.utt /\ \E j \in DOMAIN commanded : commanded[j].utt = u
          BY <1>4, <3>1, <3>3, <3>4 DEF ReplyInv
        <4> QED BY <3>1, <4>1 DEF Answered
      <3>5. CASE i # n + 1
        <4>1. i \in 1 .. n
          BY <2>1, <3>3, <3>5
        <4> QED BY <1>2, <1>4, <2>2, <3>3, <4>1
      <3> QED BY <3>4, <3>5
    <2>6. CASE Reconnect
      <3>1. chats' = <<>>
        BY <2>6 DEF Reconnect
      <3>2. DOMAIN chats' = {}
        BY <3>1
      <3> QED BY <3>2
    <2>7. ASSUME NEW f \in ToSet(inbox), NEW e \in Events, OnMessage(f, e)
          PROVE  chats' = chats
      BY <2>7, MessageFacts
    <2> QED
      BY <2>3, <2>4, <2>5, <2>6, <2>7
      DEF Next, MainStep, Speak, Transcribe, EndSpeech, Stream, SendOther, ReplyThrows, vars
  <1>5. ASSUME NEW i \in DOMAIN todo', NEW s, s = todo'[i], s.origin = Local
        PROVE  Answered(s.utt)'
    <2>1. i \in 1 .. Len(todo') /\ DOMAIN todo = 1 .. Len(todo)
      BY LenProperties DEF TypeOK
    <2>2. CASE \E j \in 1 .. Len(todo) : todo'[i] = todo[j]
      BY <1>2, <1>5, <2>1, <2>2 DEF ReplyInv
    <2>3. CASE chats # <<>> /\ todo'[i].utt = chats[1]
      <3>1. 1 \in DOMAIN chats
        <4>1. chats \in Seq(Utterances)
          BY DEF TypeOK
        <4> QED BY <2>3, <4>1, TailAt
      <3> QED BY <1>2, <1>5, <2>3, <3>1 DEF ReplyInv
    <2> QED BY <1>5, <2>1, <2>2, <2>3, TodoFacts
  <1>6. ASSUME NEW i \in DOMAIN inbox', NEW f, f = inbox'[i], f.origin = Local
        PROVE  Answered(f.utt)'
    <2>1. i \in 1 .. Len(inbox') /\ DOMAIN inbox = 1 .. Len(inbox) /\ DOMAIN todo = 1 .. Len(todo)
      BY LenProperties DEF TypeOK
    <2>2. CASE \E j \in 1 .. Len(inbox) : inbox'[i] = inbox[j]
      BY <1>2, <1>6, <2>1, <2>2 DEF ReplyInv
    <2>3. CASE /\ 1 \in 1 .. Len(todo) /\ inbox'[i].origin = todo[1].origin
               /\ inbox'[i].utt = todo[1].utt
      BY <1>2, <1>6, <2>1, <2>3 DEF ReplyInv
    <2> QED BY <1>6, <2>1, <2>2, <2>3, FrameFacts
  <1>7. todo' = <<>> => step' = 0
    <2>1. CASE UNCHANGED <<todo, step>>
      BY <2>1 DEF ReplyInv
    <2>2. CASE EndSpeech /\ todo' # todo
      <3>1. Len(todo') \in Nat /\ Len(todo') # 0
        BY <2>2, EndFacts
      <3>2. todo' \in Seq(Audio)
        BY DEF TypeOK
      <3> QED BY <3>1, <3>2, EmptySeq
    <2>3. CASE Stream
      BY <2>3, StreamFacts
    <2>4. CASE TakeChat
      BY <2>4, TakeFacts
    <2>5. CASE Reconnect
      BY <2>5 DEF Reconnect
    <2>6. ASSUME NEW f \in ToSet(inbox), NEW e \in Events, OnMessage(f, e)
          PROVE  UNCHANGED <<todo, step>>
      BY <2>6, MessageFacts
    <2>7. EndSpeech => step' = step
      BY DEF EndSpeech
    <2> QED
      BY <2>1, <2>2, <2>3, <2>4, <2>5, <2>6, <2>7
      DEF Next, MainStep, Speak, Transcribe, SendOther, LcmReturns, ReplyThrows, serverVars, vars
  <1>8. /\ \A i \in DOMAIN chats' : Answered(chats[i])'
        /\ \A i \in DOMAIN todo' : todo'[i].origin = Local => Answered(todo[i].utt)'
        /\ \A i \in DOMAIN inbox' : inbox'[i].origin = Local => Answered(inbox[i].utt)'
    BY <1>4, <1>5, <1>6 DEF Answered
  <1> QED BY <1>3, <1>7, <1>8 DEF ReplyInv

----------------------------------------------------------------------------
(* The mute *)

\* A transcript or another frame of the cloud.
LEMMA QuietFacts ==
    ASSUME Regular, TypeOK,
           (\E text \in Texts : Transcribe(text)) \/ \E event \in OtherFrames : SendOther(event)
    PROVE  /\ \E f \in Frames : ServerSends(f) /\ f.event \in {"ASRResponse", "ChatResponse"}
           /\ UNCHANGED <<clientVars, chats, bargeIn, spoken, listening, todo, step>>
  <1>1. ASSUME NEW text \in Texts, Transcribe(text)
        PROVE  /\ \E f \in Frames : ServerSends(f) /\ f.event \in {"ASRResponse", "ChatResponse"}
               /\ UNCHANGED <<clientVars, chats, bargeIn, spoken, listening, todo, step>>
    <2>1. /\ ServerSends(Frame("ASRResponse", spoken, Cloud, text))
          /\ UNCHANGED <<clientVars, chats, bargeIn, spoken, listening, todo, step>>
      BY <1>1 DEF Transcribe
    <2>2. PICK f \in Frames : f = Frame("ASRResponse", spoken, Cloud, text)
      BY FrameTypes
    <2> QED BY <2>1, <2>2 DEF Frame
  <1>2. ASSUME NEW event \in OtherFrames, SendOther(event)
        PROVE  /\ \E f \in Frames : ServerSends(f) /\ f.event \in {"ASRResponse", "ChatResponse"}
               /\ UNCHANGED <<clientVars, chats, bargeIn, spoken, listening, todo, step>>
    <2>1. /\ ServerSends(Frame(event, spoken, Cloud, NoText)) /\ event = "ChatResponse"
          /\ UNCHANGED <<clientVars, chats, bargeIn, spoken, listening, todo, step>>
      BY <1>2, BoundFacts DEF SendOther, Regular
    <2>2. PICK f \in Frames : f = Frame(event, spoken, Cloud, NoText)
      BY <2>1, FrameTypes
    <2> QED BY <2>1, <2>2 DEF Frame
  <1> QED BY <1>1, <1>2

\* The audio of a reply on its way comes behind the start of the reply.
LEMMA ReplyAudioStep ==
    ASSUME Regular, TypeOK, HeardInv, OrderInv, ReplyInv, MuteInv, [Next]_vars,
           disabledRemote', NEW i \in 1 .. Len(inbox'), NEW g, g = inbox'[i],
           g.event = "TTSResponse", g.origin = Local
    PROVE  Superseded(g.utt)' \/ \E j \in 1 .. i - 1 : ReplyStart(inbox'[j])
  <1>1. PICK n \in Nat : n = Len(inbox) /\ DOMAIN inbox = 1 .. n /\ inbox \in Seq(Frames)
    BY LenProperties DEF TypeOK, Frames
  <1>2. \A u : Superseded(u) => Superseded(u)'
    BY AnsweredKept
  <1>3. ASSUME disabledRemote, NEW k \in 1 .. n, g = inbox[k]
        PROVE  Superseded(g.utt) \/ \E j \in 1 .. k - 1 : ReplyStart(inbox[j])
    BY <1>1, <1>3 DEF MuteInv
  <1>4. CASE UNCHANGED <<inbox, disabledRemote>>
    BY <1>1, <1>2, <1>3, <1>4
  <1>5. ASSUME NEW f \in Frames, ServerSends(f), disabledRemote' = disabledRemote, i # n + 1
        PROVE  Superseded(g.utt)' \/ \E j \in 1 .. i - 1 : ReplyStart(inbox'[j])
    <2>1. Len(inbox') = n + 1 /\ \A j \in 1 .. n : inbox'[j] = inbox[j]
      BY <1>1, <1>5, SentFacts
    <2>2. i \in 1 .. n /\ \A j \in 1 .. i - 1 : j \in 1 .. n
      BY <1>1, <1>5, <2>1
    <2>3. CASE Superseded(g.utt)
      BY <1>2, <2>3
    <2>4. CASE \E j \in 1 .. i - 1 : ReplyStart(inbox[j])
      <3>1. PICK j \in 1 .. i - 1 : ReplyStart(inbox[j])
        BY <2>4
      <3> QED BY <2>1, <2>2, <3>1
    <2> QED BY <1>3, <1>5, <2>1, <2>2, <2>3, <2>4
  <1>6. ASSUME NEW f \in Frames, ServerSends(f), f.event # "TTSResponse",
               disabledRemote' = disabledRemote
        PROVE  Superseded(g.utt)' \/ \E j \in 1 .. i - 1 : ReplyStart(inbox'[j])
    <2>1. inbox'[n + 1] = f
      BY <1>1, <1>6, SentFacts
    <2> QED BY <1>5, <1>6, <2>1
  <1>7. CASE Stream
    <2>1. PICK f \in Frames : /\ ServerSends(f) /\ f.event = StreamEvent(step)
                              /\ f.utt = todo[1].utt /\ f.origin = todo[1].origin
      BY <1>7, StreamFacts
    <2>2. disabledRemote' = disabledRemote
      BY <1>7, StreamFacts DEF clientVars
    <2>3. CASE i = n + 1
      <3>1. g = f /\ \A j \in 1 .. n : inbox'[j] = inbox[j]
        BY <1>1, <2>1, <2>3, SentFacts
      <3>2. step # 0
        BY <2>1, <3>1 DEF StreamEvent
      <3>3. step > 0
        BY <3>2, BoundFacts DEF TypeOK
      <3>4. \/ Superseded(todo[1].utt)
            \/ \E j \in DOMAIN inbox : ReplyStart(inbox[j])
        BY <2>1, <2>2, <3>1, <3>3 DEF MuteInv
      <3>5. CASE Superseded(todo[1].utt)
        BY <1>2, <2>1, <3>1, <3>5
      <3>6. ASSUME NEW j \in 1 .. n, ReplyStart(inbox[j])
            PROVE  \E k \in 1 .. i - 1 : ReplyStart(inbox'[k])
        <4>1. j \in 1 .. i - 1
          BY <2>3
        <4> QED BY <3>1, <3>6, <4>1
      <3> QED BY <1>1, <3>4, <3>5, <3>6
    <2> QED BY <1>5, <2>1, <2>2, <2>3
  <1>8. CASE EndSpeech
    <2>1. PICK f \in Frames : ServerSends(f) /\ f.event = "ASREnded"
      BY <1>8, EndFacts
    <2> QED BY <1>6, <1>8, <2>1, EndFacts DEF clientVars
  <1>9. CASE (\E text \in Texts : Transcribe(text)) \/ \E event \in OtherFrames : SendOther(event)
    <2>1. PICK f \in Frames : ServerSends(f) /\ f.event \in {"ASRResponse", "ChatResponse"}
      BY <1>9, QuietFacts
    <2>2. disabledRemote' = disabledRemote
      BY <1>9, QuietFacts DEF clientVars
    <2> QED BY <1>6, <2>1, <2>2
  <1>10. CASE LcmReturns
    <2>1. inbox' = inbox /\ calling # NoCall
      BY <1>10 DEF LcmReturns
    <2>2. Answered(g.utt)
      BY <1>1, <2>1 DEF ReplyInv
    <2>3. Superseded(g.utt)
      <3>1. g.utt < calling.utt
        BY <2>1, <2>2 DEF Answered
      <3>2. PICK k \in DOMAIN commanded : commanded[k].utt = calling.utt
        BY <2>1 DEF ReplyInv
      <3>3. commanded[k].utt > g.utt
        <4>1. calling.utt \in Int
          BY <2>1, BoundFacts DEF TypeOK, Calls, Utterances
        <4>2. g.utt \in Int
          <5>1. g \in Frames
            BY <1>1, <2>1, ElementOfSeq
          <5> QED BY <5>1, BoundFacts DEF Frames
        <4> QED BY <3>1, <3>2, <4>1, <4>2
      <3> QED BY <3>3 DEF Superseded
    <2> QED BY <1>2, <2>3
  <1>11. CASE Reconnect
    <2>1. inbox' = <<>>
      BY <1>11 DEF Reconnect
    <2> QED BY <2>1
  <1>12. ASSUME NEW f \in ToSet(inbox), NEW e \in Events, OnMessage(f, e)
         PROVE  Superseded(g.utt)' \/ \E j \in 1 .. i - 1 : ReplyStart(inbox'[j])
    <2>1. /\ inbox # <<>> /\ inbox' = Tail(inbox) /\ f = inbox[1]
          /\ disabledRemote' = IF Unmutes(f) THEN FALSE ELSE disabledRemote
      BY <1>12, MessageFacts
    <2>2. Len(inbox') = n - 1 /\ \A j \in 1 .. n - 1 : inbox'[j] = inbox[j + 1]
      BY <1>1, <2>1, TailAt
    <2>3. disabledRemote /\ ~ReplyStart(inbox[1])
      BY <2>1 DEF Unmutes
    <2>4. PICK k \in 2 .. n : k = i + 1 /\ i = k - 1
      <3>1. i + 1 \in 2 .. n /\ i = (i + 1) - 1
        BY <1>1, <2>2
      <3> QED BY <3>1
    <2>5. k \in 1 .. n /\ g = inbox[k]
      <3>1. i \in 1 .. n - 1
        BY <1>1, <2>2
      <3> QED BY <1>1, <2>2, <2>4, <3>1
    <2>6. ASSUME NEW j \in 1 .. k - 1, ReplyStart(inbox[j])
          PROVE  \E p \in 1 .. i - 1 : ReplyStart(inbox'[p])
      <3>1. j # 1
        BY <2>3, <2>6
      <3>2. PICK p \in 1 .. i - 1 : p = j - 1 /\ p + 1 = j /\ p \in 1 .. n - 1
        <4>1. j - 1 \in 1 .. i - 1 /\ j - 1 \in 1 .. n - 1 /\ (j - 1) + 1 = j
          BY <1>1, <2>4, <3>1
        <4> QED BY <4>1
      <3> QED BY <2>2, <2>6, <3>2
    <2> QED BY <1>2, <1>3, <2>3, <2>5, <2>6
  <1> QED
    BY <1>4, <1>7, <1>8, <1>9, <1>10, <1>11, <1>12
    DEF Next, MainStep, Speak, TakeChat, ReplyThrows, vars, clientVars

\* The rest of a reply that is being spoken comes behind its start.
LEMMA ReplyStreamStep ==
    ASSUME Regular, TypeOK, HeardInv, OrderInv, ReplyInv, MuteInv, TypeOK', [Next]_vars,
           disabledRemote', step' > 0, NEW s, s = todo'[1], s.origin = Local
    PROVE  Superseded(s.utt)' \/ \E j \in DOMAIN inbox' : ReplyStart(inbox'[j])
  <1>1. PICK n \in Nat : n = Len(inbox) /\ DOMAIN inbox = 1 .. n /\ inbox \in Seq(Frames)
    BY LenProperties DEF TypeOK, Frames
  <1>2. \A u : Superseded(u) => Superseded(u)'
    BY AnsweredKept
  <1>3. step \in 0 .. AudioFrames + 1 /\ step' \in 0 .. AudioFrames + 1 /\ AudioFrames \in Nat
    BY BoundFacts DEF TypeOK
  <1>4. ASSUME step > 0
        PROVE  Len(todo) \in Nat /\ Len(todo) >= 1 /\ DOMAIN todo = 1 .. Len(todo) /\ 1 \in DOMAIN todo
    <2>1. todo # <<>> /\ todo \in Seq(Audio)
      BY <1>4 DEF ReplyInv, TypeOK
    <2>2. Len(todo) \in Nat /\ Len(todo) >= 1 /\ DOMAIN todo = 1 .. Len(todo)
      BY <2>1, TailAt
    <2> QED BY <2>2
  <1>5. ASSUME disabledRemote, step > 0, s = todo[1],
               \A j \in DOMAIN inbox : j \in DOMAIN inbox' /\ inbox'[j] = inbox[j]
        PROVE  Superseded(s.utt)' \/ \E j \in DOMAIN inbox' : ReplyStart(inbox'[j])
    BY <1>2, <1>5 DEF MuteInv
  <1>6. CASE UNCHANGED <<todo, step, disabledRemote, inbox>>
    BY <1>5, <1>6
  <1>7. ASSUME NEW f \in Frames, ServerSends(f)
        PROVE  /\ \A j \in DOMAIN inbox : j \in DOMAIN inbox' /\ inbox'[j] = inbox[j]
               /\ n + 1 \in DOMAIN inbox' /\ inbox'[n + 1] = f
    BY <1>1, <1>7, SentFacts
  <1>8. CASE (\E text \in Texts : Transcribe(text)) \/ \E event \in OtherFrames : SendOther(event)
    <2>1. PICK f \in Frames : ServerSends(f)
      BY <1>8, QuietFacts
    <2>2. UNCHANGED <<todo, step, disabledRemote>>
      BY <1>8, QuietFacts DEF clientVars
    <2> QED BY <1>5, <1>7, <2>1, <2>2
  <1>9. CASE EndSpeech
    <2>1. PICK f \in Frames : ServerSends(f)
      BY <1>9, EndFacts
    <2>2. /\ UNCHANGED <<step, disabledRemote>>
          /\ \A i \in 1 .. Len(todo) : todo'[i] = todo[i]
      <3>1. /\ UNCHANGED <<step, disabledRemote>>
            /\ todo' = todo \/ \A i \in 1 .. Len(todo) : todo'[i] = todo[i]
        BY <1>9, EndFacts DEF clientVars
      <3> QED BY <3>1
    <2>3. 1 \in 1 .. Len(todo)
      BY <1>4, <2>2
    <2> QED BY <1>5, <1>7, <2>1, <2>2, <2>3
  <1>10. CASE Stream
    <2>1. PICK f \in Frames : /\ ServerSends(f) /\ f.event = StreamEvent(step)
                              /\ f.utt = todo[1].utt /\ f.origin = todo[1].origin
      BY <1>10, StreamFacts
    <2>2. disabledRemote' = disabledRemote /\ step' = step + 1 /\ todo' = todo
      <3>1. step' # 0
        BY <1>3
      <3> QED BY <1>10, <3>1, StreamFacts DEF clientVars
    <2>3. CASE step = 0
      <3>1. f.event = "TTSSentenceStart"
        <4>1. step # AudioFrames + 1
          BY <1>3, <2>3
        <4> QED BY <2>1, <2>3, <4>1 DEF StreamEvent
      <3>2. f.origin = Local
        BY <2>1, <2>2
      <3>3. ReplyStart(f)
        BY <3>1, <3>2 DEF ReplyStart
      <3> QED BY <1>7, <2>1, <3>3
    <2>4. CASE step # 0
      <3>1. step > 0
        BY <1>3, <2>4
      <3> QED BY <1>5, <1>7, <2>1, <2>2, <3>1
    <2> QED BY <2>3, <2>4
  <1>11. CASE TakeChat
    <2>1. UNCHANGED <<inbox, disabledRemote>>
      BY <1>11, TakeFacts DEF clientVars
    <2>2. step' = step /\ step > 0
      BY <1>3, <1>11, TakeFacts
    <2>3. todo'[1] = todo[1]
      <3>1. 1 \in 1 .. Len(todo)
        BY <1>4, <2>2
      <3>2. ASSUME NEW i \in 1 .. Len(todo), step' = IF i = 1 THEN 0 ELSE step,
                   \A j \in 1 .. Len(todo) - 1 :
                       todo'[j] = IF j < i THEN todo[j] ELSE todo[j + 1]
            PROVE  todo'[1] = todo[1]
        <4>1. i # 1
          BY <2>2, <3>2
        <4>2. 1 < i /\ 1 \in 1 .. Len(todo) - 1
          BY <1>4, <2>2, <4>1
        <4> QED BY <3>2, <4>2
      <3> QED BY <1>11, <3>1, <3>2, TakeFacts
    <2> QED BY <1>5, <2>1, <2>2, <2>3
  <1>12. CASE LcmReturns
    <2>1. UNCHANGED <<todo, step>> /\ calling # NoCall
      BY <1>12 DEF LcmReturns, serverVars
    <2>2. 1 \in DOMAIN todo
      BY <1>4, <2>1
    <2>3. Answered(s.utt)
      BY <2>1, <2>2 DEF ReplyInv
    <2>4. Superseded(s.utt)
      <3>1. s.utt < calling.utt
        BY <2>1, <2>3 DEF Answered
      <3>2. PICK k \in DOMAIN commanded : commanded[k].utt = calling.utt
        BY <2>1 DEF ReplyInv
      <3>3. commanded[k].utt > s.utt
        <4>1. calling.utt \in Int
          BY <2>1, BoundFacts DEF TypeOK, Calls, Utterances
        <4>2. s.utt \in Int
          <5>1. s \in Audio
            BY <2>1, <2>2, <1>4, ElementOfSeq DEF TypeOK
          <5> QED BY <5>1, BoundFacts DEF Audio
        <4> QED BY <3>1, <3>2, <4>1, <4>2
      <3> QED BY <3>3 DEF Superseded
    <2> QED BY <1>2, <2>4
  <1>13. CASE Reconnect
    BY <1>13 DEF Reconnect
  <1>14. ASSUME NEW f \in ToSet(inbox), NEW e \in Events, OnMessage(f, e)
         PROVE  Superseded(s.utt)' \/ \E j \in DOMAIN inbox' : ReplyStart(inbox'[j])
    <2>1. /\ inbox # <<>> /\ inbox' = Tail(inbox) /\ f = inbox[1]
          /\ disabledRemote' = IF Unmutes(f) THEN FALSE ELSE disabledRemote
          /\ UNCHANGED <<todo, step>>
      BY <1>14, MessageFacts
    <2>2. DOMAIN inbox' = 1 .. n - 1 /\ \A j \in 1 .. n - 1 : inbox'[j] = inbox[j + 1]
      BY <1>1, <2>1, TailAt
    <2>3. disabledRemote /\ ~ReplyStart(inbox[1])
      BY <2>1 DEF Unmutes
    <2>4. Superseded(s.utt) \/ \E j \in 1 .. n : ReplyStart(inbox[j])
      BY <1>1, <2>1, <2>3 DEF MuteInv
    <2>5. ASSUME NEW j \in 1 .. n, ReplyStart(inbox[j])
          PROVE  \E p \in 1 .. n - 1 : ReplyStart(inbox'[p])
      <3>1. j # 1
        BY <2>3, <2>5
      <3>2. PICK p \in 1 .. n - 1 : p + 1 = j
        <4>1. j - 1 \in 1 .. n - 1 /\ (j - 1) + 1 = j
          BY <3>1
        <4> QED BY <4>1
      <3> QED BY <2>2, <2>5, <3>2
    <2> QED BY <1>2, <2>2, <2>4, <2>5
  <1> QED
    BY <1>6, <1>8, <1>9, <1>10, <1>11, <1>12, <1>13, <1>14
    DEF Next, MainStep, Speak, ReplyThrows, vars, clientVars, serverVars

\* Audio of a reply that was dropped had been superseded by then.
LEMMA DroppedStep ==
    ASSUME Regular, TypeOK, HeardInv, MuteInv, [Next]_vars, NEW d \in dropped'
    PROVE  /\ d.commands <= Len(commanded')
           /\ d.audio.origin = Local =>
                 \E i \in 1 .. d.commands : commanded'[i].utt > d.audio.utt
  <1>1. PICK m \in Nat : m = Len(commanded) /\ DOMAIN commanded = 1 .. m /\ commanded \in Seq(Calls)
    BY LenProperties DEF TypeOK
  <1>2. /\ Len(commanded') \in Nat /\ m <= Len(commanded')
        /\ \A i \in 1 .. m : commanded'[i] = commanded[i]
    <2>1. CASE commanded' = commanded
      BY <1>1, <2>1
    <2>2. ASSUME NEW c \in Calls, commanded' = Append(commanded, c)
          PROVE  /\ Len(commanded') \in Nat /\ m <= Len(commanded')
                 /\ \A i \in 1 .. m : commanded'[i] = commanded[i]
      <3>1. Len(commanded') = m + 1 /\ \A i \in 1 .. m : commanded'[i] = commanded[i]
        BY <1>1, <2>2, AppendAt
      <3> QED BY <3>1
    <2> QED BY <2>1, <2>2, CommandFacts
  <1>3. ASSUME d.commands \in Nat, d.commands <= m,
               d.audio.origin = Local => \E i \in 1 .. d.commands : commanded[i].utt > d.audio.utt
        PROVE  /\ d.commands <= Len(commanded')
               /\ d.audio.origin = Local =>
                     \E i \in 1 .. d.commands : commanded'[i].utt > d.audio.utt
    <2>1. d.commands <= Len(commanded')
      BY <1>2, <1>3
    <2>2. \A i \in 1 .. d.commands : i \in 1 .. m
      BY <1>3
    <2> QED BY <1>2, <1>3, <2>1, <2>2
  <1>4. CASE d \in dropped
    <2>1. d.commands \in Nat
      BY <1>4 DEF TypeOK
    <2> QED BY <1>1, <1>3, <1>4, <2>1 DEF MuteInv
  <1>5. ASSUME NEW f \in ToSet(inbox), NEW e \in Events, OnMessage(f, e), d \notin dropped
        PROVE  /\ d.commands <= Len(commanded')
               /\ d.audio.origin = Local =>
                     \E i \in 1 .. d.commands : commanded'[i].utt > d.audio.utt
    <2>1. /\ f = inbox[1] /\ 1 \in DOMAIN inbox
          /\ f.event = "TTSResponse" /\ disabledRemote
          /\ d = [audio |-> [origin |-> f.origin, utt |-> f.utt], commands |-> Len(commanded)]
      BY <1>5, MessageFacts
    <2>2. d.commands = m /\ d.audio.origin = f.origin /\ d.audio.utt = f.utt
      BY <1>1, <2>1
    <2>3. ASSUME f.origin = Local
          PROVE  \E i \in 1 .. m : commanded[i].utt > f.utt
      <3>1. Superseded(f.utt) \/ \E j \in 1 .. 1 - 1 : ReplyStart(inbox[j])
        BY <2>1, <2>3 DEF MuteInv
      <3> QED BY <1>1, <3>1 DEF Superseded
    <2> QED BY <1>3, <2>2, <2>3
  <1>6. CASE dropped' = dropped
    BY <1>4, <1>6
  <1> QED
    BY <1>4, <1>5, <1>6, EndFacts, StreamFacts, TakeFacts
    DEF Next, MainStep, Speak, Transcribe, EndSpeech, Stream, TakeChat, SendOther, LcmReturns,
        ReplyThrows, Reconnect, vars, clientVars

LEMMA MuteStep ==
    ASSUME Regular, TypeOK, HeardInv, OrderInv, ReplyInv, MuteInv, TypeOK', [Next]_vars
    PROVE  MuteInv'
  <1>1. ASSUME disabledRemote', NEW i \in DOMAIN inbox',
               inbox'[i].event = "TTSResponse", inbox'[i].origin = Local
        PROVE  Superseded(inbox[i].utt)' \/ \E j \in 1 .. i - 1 : ReplyStart(inbox'[j])
    <2>1. i \in 1 .. Len(inbox')
      BY LenProperties DEF TypeOK
    <2>2. PICK g : g = inbox'[i]
      OBVIOUS
    <2>3. Superseded(g.utt)' \/ \E j \in 1 .. i - 1 : ReplyStart(inbox'[j])
      BY <1>1, <2>1, <2>2, ReplyAudioStep
    <2> QED BY <2>2, <2>3 DEF Superseded
  <1>2. ASSUME disabledRemote', step' > 0, todo'[1].origin = Local
        PROVE  Superseded(todo[1].utt)' \/ \E j \in DOMAIN inbox' : ReplyStart(inbox'[j])
    <2>1. PICK s : s = todo'[1]
      OBVIOUS
    <2>2. Superseded(s.utt)' \/ \E j \in DOMAIN inbox' : ReplyStart(inbox'[j])
      BY <1>2, <2>1, ReplyStreamStep
    <2> QED BY <2>1, <2>2 DEF Superseded
  <1>3. \A d \in dropped' : /\ d.commands <= Len(commanded')
                            /\ d.audio.origin = Local =>
                                  \E i \in 1 .. d.commands : commanded'[i].utt > d.audio.utt
    BY DroppedStep
  <1> QED BY <1>1, <1>2, <1>3 DEF MuteInv, ReplyStart

----------------------------------------------------------------------------
(* The answer to a command *)

\* A reply that could not be sent stays so.
LEMMA UnspokenGrows ==
    ASSUME TypeOK, [Next]_vars
    PROVE  unspoken \subseteq unspoken'
  <1>1. ASSUME NEW f \in ToSet(inbox), NEW e \in Events, OnMessage(f, e)
        PROVE  unspoken' = unspoken
    BY <1>1 DEF OnMessage
  <1>2. ReplyThrows => unspoken \subseteq unspoken'
    BY DEF ReplyThrows
  <1> QED
    BY <1>1, <1>2
    DEF Next, MainStep, Speak, Transcribe, EndSpeech, Stream, TakeChat, SendOther, LcmReturns,
        Reconnect, vars, clientVars

\* Nothing is on its way, and no answer is owed.
LEMMA SilenceEmpty ==
    ASSUME TypeOK, [Next]_vars, PlayedInv, ListenInv', UNCHANGED <<commanded, queued>>,
           DOMAIN inbox' = {}, \A i \in DOMAIN todo' : todo'[i].origin # Cloud
    PROVE  AnswerInv'
  <1>1. \A u : ~Owed(u)'
    BY DEF Owed
  <1>2. AnswerFirst' /\ AudioFirst' /\ EndFirst'
    BY DEF AnswerFirst, AudioFirst, EndFirst
  <1>3. OwedOver' /\ OwedMuted'
    BY <1>1 DEF OwedOver, OwedMuted
  <1>4. PlayedInv'
    <2>1. \A u : Over(u) => Over(u)'
      BY OverKept
    <2>2. \A u : Commanded(u)' = Commanded(u)
      BY DEF Commanded
    <2>3. ASSUME NEW audio \in queued', audio.origin = Cloud
          PROVE  /\ Over(audio.utt)' /\ (Commanded(audio.utt)' => audio.utt \in unspoken')
                 /\ \A i \in DOMAIN inbox' : Ended(inbox'[i]) => inbox'[i].utt # audio.utt
      BY <2>1, <2>2, <2>3, UnspokenGrows DEF PlayedInv
    <2> QED BY <2>3 DEF PlayedInv, Ended, Over, Commanded
  <1> QED BY <1>2, <1>3, <1>4 DEF AnswerInv

\* Nothing moves, but a local reply may take the place of an answer.
LEMMA SilenceSame ==
    ASSUME TypeOK, [Next]_vars, AnswerInv, ListenInv', UNCHANGED <<commanded, queued, inbox>>,
           \/ disabledRemote' = TRUE
           \/ UNCHANGED <<disabledRemote, calling>>
           \/ UNCHANGED disabledRemote /\ calling.utt \in unspoken',
           \A i \in DOMAIN todo' : todo'[i].origin = Cloud => i \in DOMAIN todo /\ todo'[i] = todo[i]
    PROVE  AnswerInv'
  <1>1. \A u : Owed(u)' => Owed(u)
    BY DEF Owed, AnswerAudio
  <1>2. \A u : Over(u) => Over(u)'
    BY OverKept
  <1>3. \A u : Commanded(u)' = Commanded(u)
    BY DEF Commanded
  <1>4. AnswerFirst' /\ AudioFirst' /\ EndFirst'
    BY DEF AnswerInv, AnswerFirst, AudioFirst, EndFirst, Unmutes, ReplyStart, AnswerAudio, Ended
  <1>5. OwedOver'
    BY <1>1, <1>2 DEF AnswerInv, OwedOver
  <1>6. OwedMuted'
    <2>1. ASSUME NEW u \in 0 .. MaxUtterances, Owed(u)', Commanded(u)', u \notin unspoken',
                 calling' # NoCall => u # calling'.utt
          PROVE  disabledRemote'
      <3>1. Owed(u) /\ Commanded(u) /\ u \notin unspoken
        BY <1>1, <1>3, <2>1, UnspokenGrows
      <3>2. CASE disabledRemote' = TRUE
        BY <3>2
      <3>3. CASE disabledRemote' = disabledRemote /\ (calling # NoCall => u # calling.utt)
        BY <3>1, <3>3 DEF AnswerInv, OwedMuted
      <3> QED BY <2>1, <3>2, <3>3
    <2> QED BY <2>1 DEF OwedMuted
  <1>7. PlayedInv'
    <2>1. ASSUME NEW audio \in queued', audio.origin = Cloud
          PROVE  /\ Over(audio.utt)' /\ (Commanded(audio.utt)' => audio.utt \in unspoken')
                 /\ \A i \in DOMAIN inbox' : Ended(inbox'[i]) => inbox'[i].utt # audio.utt
      BY <1>2, <1>3, <2>1, UnspokenGrows DEF AnswerInv, PlayedInv
    <2> QED BY <2>1 DEF PlayedInv, Ended, Over, Commanded
  <1> QED BY <1>4, <1>5, <1>6, <1>7 DEF AnswerInv

\* A frame is sent, of the answer or of something else.
LEMMA SilenceSent ==
    ASSUME TypeOK, [Next]_vars, AnswerInv, ListenInv', UNCHANGED clientVars,
           NEW f \in Frames, ServerSends(f), ~Ended(f),
           AnswerAudio(f) => /\ 1 \in DOMAIN todo /\ todo[1].origin = Cloud
                             /\ todo[1].utt = f.utt,
           \A i \in DOMAIN todo' : todo'[i].origin = Cloud =>
              i \in DOMAIN todo /\ todo'[i] = todo[i] /\ ~Unmutes(f)
    PROVE  AnswerInv'
  <1>1. PICK n \in Nat : n = Len(inbox) /\ DOMAIN inbox = 1 .. n /\ inbox \in Seq(Frames)
    BY LenProperties DEF TypeOK, Frames
  <1>2. /\ DOMAIN inbox' = 1 .. n + 1 /\ \A i \in 1 .. n : inbox'[i] = inbox[i]
        /\ inbox'[n + 1] = f
    BY <1>1, SentFacts
  <1>3. \A i \in 1 .. n + 1 : i \in 1 .. n \/ i = n + 1
    OBVIOUS
  <1>4. \A u : Owed(u)' => Owed(u)
    <2>1. ASSUME NEW u, NEW i \in DOMAIN inbox', AnswerAudio(inbox'[i]), inbox'[i].utt = u
          PROVE  Owed(u)
      BY <1>1, <1>2, <1>3, <2>1 DEF Owed
    <2>2. ASSUME NEW u, NEW i \in DOMAIN todo', todo'[i].origin = Cloud, todo'[i].utt = u
          PROVE  Owed(u)
      BY <2>2 DEF Owed
    <2> QED BY <2>1, <2>2 DEF Owed, AnswerAudio
  <1>5. \A u : Over(u) => Over(u)'
    BY OverKept
  <1>6. UNCHANGED <<disabledRemote, calling, commanded, queued, unspoken>>
    BY DEF clientVars
  <1>7. \A u : Commanded(u)' = Commanded(u)
    BY <1>6 DEF Commanded
  <1>8. AnswerFirst'
    <2>1. ASSUME NEW i \in DOMAIN todo', todo'[i].origin = Cloud
          PROVE  i = 1 /\ \A j \in DOMAIN inbox' : ~Unmutes(inbox'[j])
      BY <1>1, <1>2, <1>3, <2>1 DEF AnswerInv, AnswerFirst
    <2> QED BY <2>1 DEF AnswerFirst, Unmutes, ReplyStart
  <1>9. AudioFirst'
    <2>1. ASSUME NEW i \in 1 .. n + 1, AnswerAudio(inbox'[i]), NEW j \in 1 .. i - 1
          PROVE  ~Unmutes(inbox'[j])
      <3>1. j \in 1 .. n
        OBVIOUS
      <3>2. CASE i = n + 1
        BY <1>1, <1>2, <2>1, <3>1, <3>2 DEF AnswerInv, AnswerFirst
      <3>3. CASE i \in 1 .. n
        BY <1>1, <1>2, <2>1, <3>1, <3>3 DEF AnswerInv, AudioFirst
      <3> QED BY <1>3, <3>2, <3>3
    <2> QED BY <1>2, <2>1 DEF AudioFirst, AnswerAudio, Unmutes, ReplyStart
  <1>10. EndFirst'
    <2>1. ASSUME NEW i \in 1 .. n + 1, NEW j \in 1 .. n + 1, AnswerAudio(inbox'[i]),
                 Ended(inbox'[j]), inbox'[i].utt = inbox'[j].utt
          PROVE  j < i
      <3>1. j \in 1 .. n
        BY <1>2, <1>3, <2>1
      <3>2. CASE i = n + 1
        BY <3>1, <3>2
      <3>3. CASE i \in 1 .. n
        BY <1>1, <1>2, <2>1, <3>1, <3>3 DEF AnswerInv, EndFirst
      <3> QED BY <1>3, <3>2, <3>3
    <2> QED BY <1>2, <2>1 DEF EndFirst, AnswerAudio, Ended
  <1>11. OwedOver'
    BY <1>4, <1>5 DEF AnswerInv, OwedOver
  <1>12. OwedMuted'
    BY <1>4, <1>6, <1>7 DEF AnswerInv, OwedMuted
  <1>13. PlayedInv'
    <2>1. ASSUME NEW audio \in queued', audio.origin = Cloud
          PROVE  /\ Over(audio.utt)' /\ (Commanded(audio.utt)' => audio.utt \in unspoken')
                 /\ \A i \in DOMAIN inbox' : Ended(inbox'[i]) => inbox'[i].utt # audio.utt
      BY <1>1, <1>2, <1>3, <1>5, <1>6, <1>7, <2>1 DEF AnswerInv, PlayedInv
    <2> QED BY <2>1 DEF PlayedInv, Ended, Over, Commanded
  <1> QED BY <1>8, <1>9, <1>10, <1>11, <1>12, <1>13 DEF AnswerInv

\* The server will answer an utterance that no command is for yet.
LEMMA SilenceEnd ==
    ASSUME TypeOK, HeardInv, OrderInv, TypeOK', [Next]_vars, AnswerInv, EndSpeech
    PROVE  AnswerInv'
  <1>1. PICK n \in Nat : n = Len(inbox) /\ DOMAIN inbox = 1 .. n /\ inbox \in Seq(Frames)
    BY LenProperties DEF TypeOK, Frames
  <1>2. PICK f \in Frames : ServerSends(f) /\ f.event = "ASREnded" /\ f.utt = spoken
    BY EndFacts
  <1>3. /\ DOMAIN inbox' = 1 .. n + 1 /\ \A i \in 1 .. n : inbox'[i] = inbox[i]
        /\ inbox'[n + 1] = f
    BY <1>1, <1>2, SentFacts
  <1>4. /\ UNCHANGED <<disabledRemote, calling, commanded, queued, unspoken, spoken>>
        /\ listening /\ listening' = FALSE
    BY EndFacts DEF clientVars
  <1>5. \A i \in 1 .. n + 1 : inbox'[i].event \in {"ASRResponse", "ChatResponse", "ASREnded"}
    <2>1. \A i \in 1 .. n + 1 : i \in 1 .. n \/ i = n + 1
      OBVIOUS
    <2> QED BY <1>1, <1>2, <1>3, <1>4, <2>1 DEF AnswerInv, ListenInv
  <1>6. \A i \in 1 .. n + 1 : ~Unmutes(inbox'[i]) /\ ~AnswerAudio(inbox'[i])
    BY <1>5 DEF Unmutes, ReplyStart, AnswerAudio
  <1>7. \A i \in DOMAIN todo' : i = 1 /\ todo'[i] = [origin |-> Cloud, utt |-> spoken]
    <2>1. todo = <<>> /\ Len(todo) = 0
      BY <1>4 DEF AnswerInv, ListenInv
    <2>2. \/ todo' = <<>>
          \/ Len(todo') = 1 /\ todo'[1] = [origin |-> Cloud, utt |-> spoken]
      BY <2>1, EndFacts
    <2>3. DOMAIN todo' = 1 .. Len(todo')
      BY LenProperties DEF TypeOK
    <2> QED BY <2>2, <2>3
  <1>8. \A u : Owed(u)' => u = spoken
    BY <1>3, <1>6, <1>7 DEF Owed, AnswerAudio
  <1>9. \A u : Over(u) => Over(u)' /\ u # spoken
    BY <1>4, OverKept DEF Over
  <1>10. \A u : Commanded(u)' => Over(u)
    BY <1>4 DEF Commanded, OrderInv
  <1>11. ListenInv' /\ AnswerFirst' /\ AudioFirst' /\ EndFirst'
    <2>1. ListenInv'
      BY <1>4 DEF ListenInv
    <2>2. AnswerFirst'
      BY <1>3, <1>6, <1>7 DEF AnswerFirst, Unmutes, ReplyStart
    <2>3. AudioFirst' /\ EndFirst'
      BY <1>3, <1>6 DEF AudioFirst, EndFirst, AnswerAudio
    <2> QED BY <2>1, <2>2, <2>3
  <1>12. OwedOver'
    <2>1. Over(spoken)'
      <3>1. spoken' \in 1 .. spoken'
        <4>1. spoken \in Nat /\ spoken # 0
          <5>1. spoken \in Nat
            BY BoundFacts DEF TypeOK
          <5> QED BY <1>4, <5>1 DEF HeardInv
        <4> QED BY <1>4, <4>1
      <3> QED BY <1>4, <3>1 DEF Over
    <2> QED BY <1>4, <1>8, <2>1 DEF OwedOver, Over
  <1>13. OwedMuted'
    BY <1>8, <1>9, <1>10 DEF OwedMuted
  <1>14. PlayedInv'
    <2>1. ASSUME NEW audio \in queued', audio.origin = Cloud
          PROVE  /\ Over(audio.utt)' /\ (Commanded(audio.utt)' => audio.utt \in unspoken')
                 /\ \A i \in DOMAIN inbox' : Ended(inbox'[i]) => inbox'[i].utt # audio.utt
      <3>1. /\ Over(audio.utt) /\ (Commanded(audio.utt) => audio.utt \in unspoken)
            /\ \A i \in DOMAIN inbox : Ended(inbox[i]) => inbox[i].utt # audio.utt
        BY <1>4, <2>1 DEF AnswerInv, PlayedInv
      <3>2. Commanded(audio.utt)' => audio.utt \in unspoken'
        BY <1>4, <3>1 DEF Commanded
      <3>3. \A i \in 1 .. n + 1 : i \in 1 .. n \/ i = n + 1
        OBVIOUS
      <3> QED BY <1>1, <1>2, <1>3, <1>9, <3>1, <3>2, <3>3
    <2> QED BY <2>1 DEF PlayedInv, Ended, Over, Commanded
  <1> QED BY <1>11, <1>12, <1>13, <1>14 DEF AnswerInv

\* The next frame is handled: nothing that is owed is played, unless it answers an
\* utterance without a command.
LEMMA SilenceHandled ==
    ASSUME Regular, TypeOK, HeardInv, OrderInv, TypeOK', [Next]_vars, AnswerInv,
           NEW f \in ToSet(inbox), NEW e \in Events, OnMessage(f, e)
    PROVE  AnswerInv'
  <1>1. PICK n \in Nat : n = Len(inbox) /\ DOMAIN inbox = 1 .. n /\ inbox \in Seq(Frames)
    BY LenProperties DEF TypeOK, Frames
  <1>2. /\ calling = NoCall /\ inbox # <<>> /\ inbox' = Tail(inbox)
        /\ 1 \in DOMAIN inbox /\ f = inbox[1] /\ f \in Frames
        /\ UNCHANGED <<chats, unspoken, listening, todo>>
        /\ disabledRemote' = IF Unmutes(f) THEN FALSE ELSE disabledRemote
        /\ queued' = IF f.event = "TTSResponse" /\ ~disabledRemote
                     THEN queued \cup {[origin |-> f.origin, utt |-> f.utt]} ELSE queued
    BY MessageFacts
  <1>3. DOMAIN inbox' = 1 .. n - 1 /\ \A i \in 1 .. n - 1 : inbox'[i] = inbox[i + 1]
    BY <1>1, <1>2, TailAt
  <1>4. \A i \in 1 .. n - 1 : i + 1 \in 1 .. n /\ 1 \in 1 .. (i + 1) - 1
    BY <1>1
  <1>5. \A u : Owed(u)' => Owed(u)
    <2>1. ASSUME NEW u, NEW i \in 1 .. n - 1, AnswerAudio(inbox'[i]), inbox'[i].utt = u
          PROVE  Owed(u)
      BY <1>1, <1>3, <1>4, <2>1 DEF Owed
    <2> QED BY <1>2, <1>3, <2>1 DEF Owed, AnswerAudio
  <1>6. \A u : Over(u) => Over(u)'
    BY OverKept
  <1>7. \A u : Owed(u)' => ~Unmutes(f)
    <2>1. ASSUME NEW i \in 1 .. n - 1, AnswerAudio(inbox'[i])
          PROVE  ~Unmutes(f)
      BY <1>1, <1>2, <1>3, <1>4, <2>1 DEF AnswerInv, AudioFirst
    <2>2. ASSUME NEW i \in DOMAIN todo, todo[i].origin = Cloud
          PROVE  ~Unmutes(f)
      BY <1>2, <2>2 DEF AnswerInv, AnswerFirst
    <2> QED BY <1>2, <1>3, <2>1, <2>2 DEF Owed, AnswerAudio
  <1>8. \/ commanded' = commanded /\ calling' = NoCall
        \/ \E c \in Calls : /\ commanded' = Append(commanded, c) /\ calling' = c
                            /\ Ended(f) /\ c.utt = f.utt
    BY <1>2, CommandFacts
  <1>9. \A u : Commanded(u)' => \/ Commanded(u)
                                \/ Ended(f) /\ u = f.utt /\ calling' # NoCall /\ u = calling'.utt
    <2>1. CASE commanded' = commanded
      BY <2>1 DEF Commanded
    <2>2. ASSUME NEW c \in Calls, commanded' = Append(commanded, c), calling' = c,
                 Ended(f), c.utt = f.utt,
                 NEW u, NEW i \in DOMAIN commanded', commanded'[i].utt = u
          PROVE  \/ Commanded(u)
                 \/ Ended(f) /\ u = f.utt /\ calling' # NoCall /\ u = calling'.utt
      <3>1. PICK m \in Nat : /\ m = Len(commanded) /\ DOMAIN commanded = 1 .. m
                             /\ commanded \in Seq(Calls)
        BY LenProperties DEF TypeOK
      <3>2. /\ DOMAIN commanded' = 1 .. m + 1 /\ commanded'[m + 1] = c
            /\ \A j \in 1 .. m : commanded'[j] = commanded[j]
        BY <2>2, <3>1, AppendAt
      <3>3. CASE i = m + 1
        <4>1. c.utt # NoCall.utt
          BY BoundFacts DEF Calls, Utterances, NoCall
        <4> QED BY <2>2, <3>2, <3>3, <4>1
      <3>4. CASE i # m + 1
        <4>1. i \in 1 .. m
          BY <3>2, <3>4
        <4> QED BY <2>2, <3>1, <3>2, <4>1 DEF Commanded
      <3> QED BY <3>3, <3>4
    <2> QED BY <1>8, <2>1, <2>2 DEF Commanded
  <1>10. ListenInv'
    <2>1. ASSUME listening'
          PROVE  /\ todo' = <<>> /\ chats' = <<>> /\ calling' = NoCall
                 /\ \A i \in 1 .. n - 1 : inbox'[i].event \in {"ASRResponse", "ChatResponse"}
      <3>1. /\ todo = <<>> /\ chats = <<>>
            /\ \A i \in 1 .. n : inbox[i].event \in {"ASRResponse", "ChatResponse"}
        BY <1>1, <1>2, <2>1 DEF AnswerInv, ListenInv
      <3>2. ~Ended(f)
        BY <1>1, <1>2, <3>1 DEF Ended
      <3> QED BY <1>2, <1>3, <1>4, <1>8, <3>1, <3>2
    <2> QED BY <1>3, <2>1 DEF ListenInv
  <1>11. AnswerFirst'
    <2>1. ASSUME NEW i \in DOMAIN todo', todo'[i].origin = Cloud
          PROVE  i = 1 /\ \A j \in 1 .. n - 1 : ~Unmutes(inbox'[j])
      BY <1>1, <1>2, <1>3, <1>4, <2>1 DEF AnswerInv, AnswerFirst
    <2> QED BY <1>3, <2>1 DEF AnswerFirst, Unmutes, ReplyStart
  <1>12. AudioFirst'
    <2>1. ASSUME NEW i \in 1 .. n - 1, AnswerAudio(inbox'[i]), NEW j \in 1 .. i - 1
          PROVE  ~Unmutes(inbox'[j])
      <3>1. j \in 1 .. n - 1 /\ j + 1 \in 1 .. (i + 1) - 1
        BY <1>1
      <3> QED BY <1>1, <1>3, <1>4, <2>1, <3>1 DEF AnswerInv, AudioFirst
    <2> QED BY <1>3, <2>1 DEF AudioFirst, AnswerAudio, Unmutes, ReplyStart
  <1>13. EndFirst'
    <2>1. ASSUME NEW i \in 1 .. n - 1, NEW j \in 1 .. n - 1, AnswerAudio(inbox'[i]),
                 Ended(inbox'[j]), inbox'[i].utt = inbox'[j].utt
          PROVE  j < i
      <3>1. j + 1 < i + 1
        BY <1>1, <1>3, <1>4, <2>1 DEF AnswerInv, EndFirst
      <3> QED BY <3>1
    <2> QED BY <1>3, <2>1 DEF EndFirst, AnswerAudio, Ended
  <1>14. OwedOver'
    BY <1>5, <1>6 DEF AnswerInv, OwedOver
  <1>15. OwedMuted'
    <2>1. ASSUME NEW u \in 0 .. MaxUtterances, Owed(u)', Commanded(u)', u \notin unspoken',
                 calling' # NoCall => u # calling'.utt
          PROVE  disabledRemote'
      <3>1. Owed(u) /\ Commanded(u) /\ u \notin unspoken /\ ~Unmutes(f)
        BY <1>2, <1>5, <1>7, <1>9, <2>1
      <3>2. disabledRemote
        BY <1>2, <3>1 DEF AnswerInv, OwedMuted
      <3> QED BY <1>2, <3>1, <3>2
    <2> QED BY <2>1 DEF OwedMuted
  <1>16. PlayedInv'
    <2>1. ASSUME NEW audio \in queued, audio.origin = Cloud
          PROVE  /\ Over(audio.utt)' /\ (Commanded(audio.utt)' => audio.utt \in unspoken')
                 /\ \A i \in 1 .. n - 1 : Ended(inbox'[i]) => inbox'[i].utt # audio.utt
      <3>1. /\ Over(audio.utt) /\ (Commanded(audio.utt) => audio.utt \in unspoken)
            /\ \A i \in 1 .. n : Ended(inbox[i]) => inbox[i].utt # audio.utt
        BY <1>1, <2>1 DEF AnswerInv, PlayedInv
      <3>2. ~(Ended(f) /\ audio.utt = f.utt)
        BY <1>1, <1>2, <3>1
      <3> QED BY <1>2, <1>3, <1>4, <1>6, <1>9, <3>1, <3>2
    <2>2. ASSUME AnswerAudio(f), ~disabledRemote, NEW u, u = f.utt
          PROVE  /\ Over(u)' /\ (Commanded(u)' => u \in unspoken')
                 /\ \A i \in 1 .. n - 1 : Ended(inbox'[i]) => inbox'[i].utt # u
      <3>1. u \in 0 .. MaxUtterances /\ Owed(u)
        BY <1>2, <2>2 DEF Frames, Owed
      <3>2. Over(u)
        BY <3>1 DEF AnswerInv, OwedOver
      <3>3. Commanded(u) => u \in unspoken
        BY <1>2, <2>2, <3>1 DEF AnswerInv, OwedMuted
      <3>4. ~Ended(f)
        BY <2>2 DEF AnswerAudio, Ended
      <3>5. ASSUME NEW i \in 1 .. n - 1, Ended(inbox'[i])
            PROVE  inbox'[i].utt # u
        <4>1. i + 1 \in DOMAIN inbox /\ inbox'[i] = inbox[i + 1] /\ ~(i + 1 < 1)
          BY <1>1, <1>3, <1>4
        <4> QED BY <1>2, <2>2, <3>5, <4>1 DEF AnswerInv, EndFirst
      <3> QED BY <1>2, <1>6, <1>9, <3>2, <3>3, <3>4, <3>5
    <2>3. ASSUME NEW audio \in queued', audio.origin = Cloud
          PROVE  /\ Over(audio.utt)' /\ (Commanded(audio.utt)' => audio.utt \in unspoken')
                 /\ \A i \in 1 .. n - 1 : Ended(inbox'[i]) => inbox'[i].utt # audio.utt
      <3>1. CASE audio \in queued
        BY <2>1, <2>3, <3>1
      <3>2. CASE audio \notin queued
        <4>1. /\ f.event = "TTSResponse" /\ ~disabledRemote
              /\ audio = [origin |-> f.origin, utt |-> f.utt]
          BY <1>2, <2>3, <3>2
        <4>2. AnswerAudio(f) /\ audio.utt = f.utt
          BY <2>3, <4>1 DEF AnswerAudio
        <4> QED BY <2>2, <4>1, <4>2
      <3> QED BY <3>1, <3>2
    <2> QED BY <1>3, <2>3 DEF PlayedInv, Ended, Over, Commanded
  <1> QED BY <1>10, <1>11, <1>12, <1>13, <1>14, <1>15, <1>16 DEF AnswerInv

LEMMA SilenceStep ==
    ASSUME Regular, TypeOK, HeardInv, OrderInv, SilenceInv, TypeOK', [Next]_vars
    PROVE  SilenceInv'
  <1>1. bargeIn' = bargeIn
    <2>1. ASSUME NEW f \in ToSet(inbox), NEW e \in Events, OnMessage(f, e)
          PROVE  bargeIn' = bargeIn
      BY <2>1, MessageFacts
    <2> QED
      BY <2>1, EndFacts, StreamFacts, TakeFacts
      DEF Next, MainStep, Speak, Transcribe, SendOther, LcmReturns, ReplyThrows, Reconnect,
          serverVars, vars
  <1> SUFFICES ASSUME ~bargeIn, AnswerInv
               PROVE  AnswerInv'
    BY <1>1 DEF SilenceInv
  <1>2. CASE Speak
    <2>1. /\ todo = <<>> /\ chats = <<>> /\ inbox = <<>> /\ calling = NoCall
          /\ UNCHANGED <<commanded, queued, inbox, chats, todo, calling>>
      BY <1>2 DEF Speak, clientVars
    <2>2. DOMAIN inbox' = {} /\ DOMAIN todo' = {}
      BY <2>1
    <2>3. ListenInv'
      BY <2>1, <2>2 DEF ListenInv
    <2> QED BY <2>1, <2>2, <2>3, SilenceEmpty DEF AnswerInv
  <1>3. CASE (\E text \in Texts : Transcribe(text)) \/ \E event \in OtherFrames : SendOther(event)
    <2>1. PICK f \in Frames : ServerSends(f) /\ f.event \in {"ASRResponse", "ChatResponse"}
      BY <1>3, QuietFacts
    <2>2. UNCHANGED <<clientVars, chats, listening, todo>>
      BY <1>3, QuietFacts
    <2>3. ~Ended(f) /\ ~AnswerAudio(f) /\ ~Unmutes(f)
      BY <2>1 DEF Ended, AnswerAudio, Unmutes, ReplyStart
    <2>4. ListenInv'
      <3>1. PICK n \in Nat : n = Len(inbox) /\ DOMAIN inbox = 1 .. n
        BY LenProperties DEF TypeOK
      <3>2. /\ DOMAIN inbox' = 1 .. n + 1 /\ inbox'[n + 1] = f
            /\ \A i \in 1 .. n : inbox'[i] = inbox[i]
        BY <2>1, <3>1, SentFacts
      <3>3. \A i \in 1 .. n + 1 : i \in 1 .. n \/ i = n + 1
        OBVIOUS
      <3>4. calling' = calling
        BY <2>2 DEF clientVars
      <3> QED BY <2>1, <2>2, <3>1, <3>2, <3>3, <3>4 DEF AnswerInv, ListenInv
    <2> QED BY <2>1, <2>2, <2>3, <2>4, SilenceSent
  <1>4. CASE EndSpeech
    BY <1>4, SilenceEnd
  <1>5. CASE Stream
    <2>1. PICK f \in Frames : /\ ServerSends(f) /\ f.event = StreamEvent(step)
                              /\ f.utt = todo[1].utt /\ f.origin = todo[1].origin
      BY <1>5, StreamFacts
    <2>2. /\ UNCHANGED <<clientVars, listening>> /\ todo # <<>>
          /\ Len(todo) \in Nat /\ Len(todo) >= 1
          /\ \/ step = AudioFrames + 1 /\ Len(todo') = Len(todo) - 1
                /\ \A i \in 1 .. Len(todo) - 1 : todo'[i] = todo[i + 1]
             \/ step # AudioFrames + 1 /\ todo' = todo
      BY <1>5, StreamFacts
    <2>3. /\ DOMAIN todo = 1 .. Len(todo) /\ DOMAIN todo' = 1 .. Len(todo') /\ 1 \in DOMAIN todo
      <3>1. DOMAIN todo = 1 .. Len(todo) /\ DOMAIN todo' = 1 .. Len(todo')
        BY LenProperties DEF TypeOK
      <3>2. PICK n \in Nat : n = Len(todo) /\ n >= 1
        BY <2>2
      <3>3. 1 \in 1 .. n
        BY <3>2
      <3> QED BY <3>1, <3>2, <3>3
    <2>4. ~Ended(f)
      BY <2>1 DEF StreamEvent, Ended
    <2>5. ~listening'
      BY <2>2 DEF AnswerInv, ListenInv
    <2>6. AnswerAudio(f) => todo[1].origin = Cloud
      BY <2>1 DEF AnswerAudio
    <2>7. ASSUME NEW i \in DOMAIN todo', todo'[i].origin = Cloud
          PROVE  i \in DOMAIN todo /\ todo'[i] = todo[i] /\ ~Unmutes(f)
      <3>1. CASE Len(todo') = Len(todo) - 1 /\ \A j \in 1 .. Len(todo) - 1 : todo'[j] = todo[j + 1]
        <4>1. i \in 1 .. Len(todo) - 1 /\ i + 1 \in DOMAIN todo /\ i + 1 # 1
          BY <2>2, <2>3, <3>1
        <4> QED BY <2>7, <3>1, <4>1 DEF AnswerInv, AnswerFirst
      <3>2. CASE step # AudioFrames + 1 /\ todo' = todo
        <4>1. i \in DOMAIN todo /\ i = 1
          BY <2>7, <3>2 DEF AnswerInv, AnswerFirst
        <4>2. f.origin = Cloud /\ f.event # "TTSEnded"
          <5>1. StreamEvent(step) # "TTSEnded"
            BY <3>2 DEF StreamEvent
          <5> QED BY <2>1, <2>7, <3>2, <4>1, <5>1
        <4>3. ~Unmutes(f)
          BY <4>2 DEF Unmutes, ReplyStart, Cloud, Local
        <4> QED BY <3>2, <4>1, <4>3
      <3> QED BY <2>2, <3>1, <3>2
    <2>8. ListenInv'
      BY <2>5 DEF ListenInv
    <2> QED BY <2>1, <2>2, <2>3, <2>4, <2>6, <2>7, <2>8, SilenceSent
  <1>6. CASE TakeChat
    <2>1. /\ chats # <<>>
          /\ \/ /\ Len(todo') = Len(todo) + 1
                /\ \A j \in 1 .. Len(todo) : todo'[j] = todo[j]
                /\ todo'[Len(todo) + 1] = [origin |-> Local, utt |-> chats[1]]
             \/ \E k \in 1 .. Len(todo) :
                /\ todo[k] = [origin |-> Cloud, utt |-> chats[1]]
                /\ Len(todo') = Len(todo)
                /\ \A j \in 1 .. Len(todo) - 1 :
                      todo'[j] = IF j < k THEN todo[j] ELSE todo[j + 1]
                /\ todo'[Len(todo)] = [origin |-> Local, utt |-> chats[1]]
      BY <1>6, TakeFacts
    <2>2. UNCHANGED <<commanded, queued, inbox, disabledRemote, calling, listening>>
      BY <1>6, TakeFacts DEF clientVars
    <2>3. PICK n \in Nat : n = Len(todo) /\ DOMAIN todo = 1 .. n /\ DOMAIN todo' = 1 .. Len(todo')
      BY LenProperties DEF TypeOK
    <2>4. ListenInv'
      BY <2>1, <2>2 DEF AnswerInv, ListenInv
    <2>5. ASSUME NEW i \in DOMAIN todo', todo'[i].origin = Cloud
          PROVE  i \in DOMAIN todo /\ todo'[i] = todo[i]
      <3>1. CASE /\ Len(todo') = n + 1 /\ \A j \in 1 .. n : todo'[j] = todo[j]
                 /\ todo'[n + 1] = [origin |-> Local, utt |-> chats[1]]
        <4>1. i # n + 1
          BY <2>5, <3>1 DEF Cloud, Local
        <4>2. i \in 1 .. n
          BY <2>3, <3>1, <4>1
        <4> QED BY <2>3, <3>1, <4>2
      <3>2. ASSUME NEW k \in 1 .. n, todo[k] = [origin |-> Cloud, utt |-> chats[1]], Len(todo') = n,
                   \A j \in 1 .. n - 1 : todo'[j] = IF j < k THEN todo[j] ELSE todo[j + 1],
                   todo'[n] = [origin |-> Local, utt |-> chats[1]]
            PROVE  FALSE
        <4>1. k = 1
          BY <2>3, <3>2 DEF AnswerInv, AnswerFirst
        <4>2. i # n
          BY <2>5, <3>2 DEF Cloud, Local
        <4>3. i \in 1 .. n - 1 /\ ~(i < k) /\ i + 1 \in 1 .. n /\ i + 1 # 1
          BY <2>3, <3>2, <4>1, <4>2
        <4>4. todo[i + 1].origin = Cloud
          BY <2>5, <3>2, <4>3
        <4> QED BY <2>3, <4>3, <4>4 DEF AnswerInv, AnswerFirst
      <3> QED BY <2>1, <2>3, <3>1, <3>2
    <2> QED BY <2>2, <2>4, <2>5, SilenceSame
  <1>7. CASE LcmReturns
    <2>1. /\ UNCHANGED <<commanded, queued, inbox, listening, todo>>
          /\ disabledRemote' = TRUE /\ calling # NoCall
      BY <1>7 DEF LcmReturns, MuteOn, serverVars
    <2>2. ListenInv'
      BY <2>1 DEF AnswerInv, ListenInv
    <2> QED BY <2>1, <2>2, SilenceSame
  <1>11. CASE ReplyThrows
    <2>1. /\ UNCHANGED <<disabledRemote, commanded, queued, inbox, listening, todo>>
          /\ calling # NoCall /\ calling.utt \in unspoken'
      BY <1>11 DEF ReplyThrows, serverVars
    <2>2. ListenInv'
      BY <2>1 DEF AnswerInv, ListenInv
    <2> QED BY <2>1, <2>2, SilenceSame
  <1>8. CASE UNCHANGED vars
    <2>1. UNCHANGED <<commanded, queued, inbox, listening, todo, chats, calling, disabledRemote>>
      BY <1>8 DEF vars
    <2>2. ListenInv'
      BY <2>1 DEF AnswerInv, ListenInv
    <2> QED BY <2>1, <2>2, SilenceSame
  <1>9. CASE Reconnect
    <2>1. /\ UNCHANGED <<commanded, queued>> /\ inbox' = <<>> /\ listening' = FALSE
          /\ todo' = <<Greeting>>
      BY <1>9 DEF Reconnect, clientVars
    <2>2. DOMAIN inbox' = {} /\ ListenInv'
      BY <2>1 DEF ListenInv
    <2>3. \A i \in DOMAIN todo' : todo'[i].origin # Cloud
      BY <2>1 DEF Greeting, Hello, Cloud
    <2> QED BY <2>1, <2>2, <2>3, SilenceEmpty DEF AnswerInv
  <1>10. ASSUME NEW f \in ToSet(inbox), NEW e \in Events, OnMessage(f, e)
         PROVE  AnswerInv'
    BY <1>10, SilenceHandled
  <1> QED
    BY <1>2, <1>3, <1>4, <1>5, <1>6, <1>7, <1>8, <1>9, <1>10, <1>11 DEF Next, MainStep

----------------------------------------------------------------------------
(* The invariant *)

LEMMA InitInv == Init => IInv
  <1> SUFFICES ASSUME Init
               PROVE  IInv
    OBVIOUS
  <1>1. /\ asrText = NoText /\ disabledRemote = FALSE /\ calling = NoCall /\ commanded = <<>>
        /\ queued = {} /\ dropped = {} /\ unspoken = {} /\ inbox = <<>> /\ chats = <<>>
        /\ bargeIn \in BOOLEAN /\ spoken = 0 /\ transcripts = [u \in Utterances |-> <<>>] /\ listening = FALSE
        /\ todo = <<Greeting>> /\ step = 0 /\ others = 0 /\ losses = 0
    BY DEF Init
  <1>2. DOMAIN commanded = {} /\ DOMAIN inbox = {} /\ DOMAIN chats = {}
    BY <1>1
  <1>3. DOMAIN todo = {1} /\ todo[1].origin = Hello /\ todo # <<>>
    BY <1>1 DEF Greeting
  <1>4. TypeOK
    <2>1. /\ commanded \in Seq(Calls) /\ chats \in Seq(Utterances)
          /\ \A S : <<>> \in Seq(S)
      BY <1>1, EmptySeq
    <2>2. inbox \in Seq(Frames)
      BY <1>1, <2>1
    <2>3. Greeting \in Audio
      BY BoundFacts DEF Greeting, Audio
    <2>4. todo \in Seq(Audio)
      BY <1>1, <2>3, SingletonIsSeq
    <2>5. transcripts \in [Utterances -> Seq(Texts)]
      BY <1>1, <2>1
    <2>6. /\ spoken \in 0 .. MaxUtterances /\ step \in 0 .. AudioFrames + 1
          /\ others \in 0 .. MaxOthers /\ losses \in 0 .. MaxLosses
      BY <1>1, BoundFacts
    <2> QED BY <1>1, <2>1, <2>2, <2>4, <2>5, <2>6 DEF TypeOK, Frames
  <1>5. HeardInv
    <2>1. \A u \in Utterances : transcripts[u] = <<>>
      BY <1>1
    <2>2. Heard(Len(inbox) + 1, NoText)
      <3>1. \A j \in 1 .. Len(inbox) + 1 - 1 : FALSE
        BY <1>1
      <3> QED BY <1>1, <3>1 DEF Heard
    <2>3. LatestInv
      BY <2>2 DEF LatestInv, Said
    <2>4. KnownInv
      BY <1>1, <1>2 DEF KnownInv, Said
    <2> QED BY <1>1, <1>2, <2>1, <2>3, <2>4 DEF HeardInv, EndedInv
  <1>6. OrderInv
    BY <1>2 DEF OrderInv
  <1>7. ReplyInv
    BY <1>1, <1>2, <1>3 DEF ReplyInv, Hello, Local
  <1>8. MuteInv
    BY <1>1 DEF MuteInv
  <1>9. SilenceInv
    <2>1. \A u : ~Owed(u)
      BY <1>2, <1>3 DEF Owed, Hello, Cloud
    <2>2. ListenInv /\ AnswerFirst /\ AudioFirst /\ EndFirst
      BY <1>1, <1>2, <1>3 DEF ListenInv, AnswerFirst, AudioFirst, EndFirst, Hello, Cloud
    <2> QED BY <1>1, <2>1, <2>2 DEF SilenceInv, AnswerInv, OwedOver, OwedMuted, PlayedInv
  <1> QED BY <1>4, <1>5, <1>6, <1>7, <1>8, <1>9 DEF IInv

LEMMA NextInv == ASSUME Regular PROVE IInv /\ [Next]_vars => IInv'
  <1> SUFFICES ASSUME IInv, [Next]_vars
               PROVE  IInv'
    OBVIOUS
  <1>1. TypeOK /\ HeardInv /\ OrderInv /\ ReplyInv /\ MuteInv /\ SilenceInv
    BY DEF IInv
  <1>2. TypeOK' /\ HeardInv'
    BY <1>1, TypeStep, HeardStep
  <1>3. OrderInv'
    BY <1>1, OrderStep
  <1>4. ReplyInv'
    BY <1>1, <1>2, ReplyStep
  <1>5. MuteInv'
    BY <1>1, <1>2, MuteStep
  <1>6. SilenceInv'
    BY <1>1, <1>2, SilenceStep
  <1> QED BY <1>2, <1>3, <1>4, <1>5, <1>6 DEF IInv

\* When every frame carries its event, the invariant holds in every state.
THEOREM Invariant == ASSUME Regular PROVE Spec => []IInv
  BY InitInv, NextInv, PTL DEF Spec

\* Every variable keeps its type, in every dialog whose frames carry their event.
THEOREM TypeCorrect == ASSUME Regular PROVE Spec => []TypeOK
  <1>1. IInv => TypeOK
    BY DEF IInv
  <1> QED BY <1>1, Invariant, PTL

\* The robot is commanded once per utterance, with the first action of the file for
\* its last transcript or, if it has none, for the latest one before
\* (HuoshanEngine::HandleResponse, MatchAction).
THEOREM FinalCorrect == ASSUME Regular PROVE Spec => []CommandIsFinal
  <1>1. IInv => CommandIsFinal
    <2> SUFFICES ASSUME IInv
                 PROVE  CommandIsFinal
      OBVIOUS
    <2>1. /\ \A i, j \in DOMAIN commanded : i < j => commanded[i].utt < commanded[j].utt
          /\ \A i \in DOMAIN commanded : Right(transcripts, losses, commanded[i])
      BY DEF IInv, OrderInv
    <2>2. \A i \in DOMAIN commanded : i \in Int /\ commanded[i].utt \in Int
      <3>1. commanded \in Seq(Calls)
        BY DEF IInv, TypeOK
      <3>2. \A c \in Calls : c.utt \in Int
        BY BoundFacts DEF Calls, Utterances
      <3>3. DOMAIN commanded = 1 .. Len(commanded) /\ Len(commanded) \in Nat
        BY <3>1, LenProperties
      <3>4. \A i \in 1 .. Len(commanded) : commanded[i] \in Calls
        BY <3>1, ElementOfSeq
      <3> QED BY <3>2, <3>3, <3>4
    <2>3. ASSUME NEW i \in DOMAIN commanded, NEW j \in DOMAIN commanded, i # j
          PROVE  commanded[i].utt # commanded[j].utt
      <3>1. i < j \/ j < i
        BY <2>2, <2>3
      <3> QED BY <2>1, <2>2, <3>1
    <2> QED BY <2>1, <2>3 DEF CommandIsFinal, ActsOn, Right
  <1> QED BY <1>1, Invariant, PTL

\* Audio of a local reply is dropped only after another command: the start of the
\* reply lifts the mute before (HuoshanProto::parse, disabled_remote).
THEOREM ReplyHeardCorrect == ASSUME Regular PROVE Spec => []LocalReplyHeard
  <1>1. IInv => LocalReplyHeard
    BY DEF IInv, MuteInv, LocalReplyHeard
  <1> QED BY <1>1, Invariant, PTL

\* When the user waits for the replies, the cloud's own answer to a command is
\* never played.
THEOREM SilencedCorrect == ASSUME Regular PROVE Spec => []CloudAnswerSilenced
  <1>1. IInv => CloudAnswerSilenced
    BY DEF IInv, SilenceInv, AnswerInv, PlayedInv, Commanded, CloudAnswerSilenced
  <1> QED BY <1>1, Invariant, PTL

----------------------------------------------------------------------------
(* The mute does not outlast what lifts it *)

\* Whenever the mute is on, what will lift it exists: a local reply is asked for,
\* a stream is to be spoken to its end, or the end of one is on its way.  No loss,
\* cancelled answer or overtaking reply leaves the mute on with nothing to come.
MuteIsOwed ==
    disabledRemote =>
        \/ chats # <<>>
        \/ todo # <<>>
        \/ \E i \in DOMAIN inbox : inbox[i].event = "TTSEnded"

\* The end of a stream is not passed over by a frame that is sent behind it.
LEMMA OwedSent ==
    ASSUME TypeOK, NEW f \in Frames, ServerSends(f)
    PROVE  /\ (\E i \in DOMAIN inbox : inbox[i].event = "TTSEnded") =>
                 \E i \in DOMAIN inbox' : inbox'[i].event = "TTSEnded"
           /\ f.event = "TTSEnded" => \E i \in DOMAIN inbox' : inbox'[i].event = "TTSEnded"
  <1>1. /\ Len(inbox) \in Nat /\ DOMAIN inbox = 1 .. Len(inbox)
        /\ DOMAIN inbox' = 1 .. Len(inbox) + 1
        /\ \A i \in 1 .. Len(inbox) : inbox'[i] = inbox[i]
        /\ inbox'[Len(inbox) + 1] = f
    BY SentFacts
  <1>2. Len(inbox) + 1 \in DOMAIN inbox' /\ DOMAIN inbox \subseteq DOMAIN inbox'
    BY <1>1
  <1> QED BY <1>1, <1>2

\* Each step that takes away what would lift the mute puts the next in its place,
\* or lifts it.
LEMMA OwedStep == IInv /\ MuteIsOwed /\ [Next]_vars => MuteIsOwed'
  <1> SUFFICES ASSUME IInv, MuteIsOwed, [Next]_vars
               PROVE  MuteIsOwed'
    OBVIOUS
  <1>0. TypeOK /\ HeardInv
    BY DEF IInv
  <1>1. /\ chats \in Seq(Utterances) /\ todo \in Seq(Audio) /\ calling \in Calls \cup {NoCall}
        /\ inbox \in Seq(Frames) /\ disabledRemote \in BOOLEAN
    BY <1>0 DEF TypeOK, Frames
  <1>2. CASE UNCHANGED vars \/ Speak
    BY <1>2 DEF MuteIsOwed, vars, Speak, clientVars
  <1>3. CASE LcmReturns
    <2>1. calling.utt \in Utterances /\ chats' = Append(chats, calling.utt)
      BY <1>1, <1>3 DEF LcmReturns, ChatTTSText, Calls
    <2>2. chats' # <<>>
      BY <1>1, <2>1, AppendAt
    <2> QED BY <2>2 DEF MuteIsOwed
  <1>4. ASSUME NEW f \in ToSet(inbox), NEW e \in Events, OnMessage(f, e)
        PROVE  MuteIsOwed'
    <2>1. /\ inbox # <<>> /\ inbox' = Tail(inbox) /\ f = inbox[1]
          /\ UNCHANGED <<chats, todo>>
          /\ disabledRemote' = IF Unmutes(f) THEN FALSE ELSE disabledRemote
      BY <1>0, <1>4, MessageFacts
    <2>2. CASE Unmutes(f)
      BY <2>1, <2>2 DEF MuteIsOwed
    <2>3. CASE ~Unmutes(f)
      <3>1. f.event # "TTSEnded"
        BY <2>3 DEF Unmutes
      <3>2. /\ Len(inbox) \in Nat /\ DOMAIN inbox = 1 .. Len(inbox)
            /\ DOMAIN inbox' = 1 .. Len(inbox) - 1
            /\ \A i \in 1 .. Len(inbox) - 1 : inbox'[i] = inbox[i + 1]
        BY <1>1, <2>1, TailAt
      <3>3. ASSUME NEW i \in DOMAIN inbox, inbox[i].event = "TTSEnded"
            PROVE  \E j \in DOMAIN inbox' : inbox'[j].event = "TTSEnded"
        <4>1. i # 1
          BY <2>1, <3>1, <3>3
        <4>2. i - 1 \in 1 .. Len(inbox) - 1 /\ (i - 1) + 1 = i
          BY <3>2, <4>1
        <4>3. inbox'[i - 1] = inbox[(i - 1) + 1]
          BY <3>2, <4>2
        <4>4. inbox'[i - 1] = inbox[i]
          BY <4>2, <4>3
        <4> QED BY <3>2, <3>3, <4>2, <4>4
      <3> QED BY <2>1, <2>3, <3>3 DEF MuteIsOwed
    <2> QED BY <2>2, <2>3
  <1>5. ASSUME NEW text \in Texts, Transcribe(text)
        PROVE  MuteIsOwed'
    <2>1. ServerSends(Frame("ASRResponse", spoken, Cloud, text))
      BY <1>5 DEF Transcribe
    <2>2. Frame("ASRResponse", spoken, Cloud, text) \in Frames
      BY <1>0, FrameTypes
    <2>3. UNCHANGED <<disabledRemote, chats, todo>>
      BY <1>5 DEF Transcribe, clientVars
    <2> QED BY <1>0, <2>1, <2>2, <2>3, OwedSent DEF MuteIsOwed
  <1>6. CASE EndSpeech
    <2>1. /\ ServerSends(Frame("ASREnded", spoken, Cloud, NoText))
          /\ UNCHANGED <<disabledRemote, chats>>
          /\ todo' = Append(todo, [origin |-> Cloud, utt |-> spoken]) \/ todo' = todo
      BY <1>6 DEF EndSpeech, clientVars
    <2>2. PICK a \in Audio : a = [origin |-> Cloud, utt |-> spoken]
      BY <1>0 DEF Audio, TypeOK
    <2>3. todo' # <<>> \/ todo' = todo
      BY <1>1, <2>1, <2>2, AppendAt
    <2>4. Frame("ASREnded", spoken, Cloud, NoText) \in Frames
      BY <1>0, FrameTypes
    <2> QED BY <1>0, <2>1, <2>3, <2>4, OwedSent DEF MuteIsOwed
  <1>7. CASE Stream
    <2>1. /\ ServerSends(Frame(StreamEvent(step), Head(todo).utt, Head(todo).origin, NoText))
          /\ todo # <<>> /\ UNCHANGED <<disabledRemote, chats>>
          /\ step # AudioFrames + 1 => todo' = todo
      BY <1>7 DEF Stream, clientVars
    <2>2. Frame(StreamEvent(step), Head(todo).utt, Head(todo).origin, NoText) \in Frames
      BY <1>0, <2>1, FrameTypes
    <2>3. CASE step # AudioFrames + 1
      BY <2>1, <2>3 DEF MuteIsOwed
    <2>4. CASE step = AudioFrames + 1
      <3>1. StreamEvent(step) = "TTSEnded"
        BY <2>4, BoundFacts DEF StreamEvent
      <3>2. Frame(StreamEvent(step), Head(todo).utt, Head(todo).origin, NoText).event = "TTSEnded"
        BY <3>1 DEF Frame
      <3>3. \E i \in DOMAIN inbox' : inbox'[i].event = "TTSEnded"
        BY <1>0, <2>1, <2>2, <3>2, OwedSent
      <3> QED BY <3>3 DEF MuteIsOwed
    <2> QED BY <2>3, <2>4
  <1>8. CASE TakeChat
    <2>1. todo' # <<>>
      BY <1>0, <1>8, TakeFacts
    <2> QED BY <2>1 DEF MuteIsOwed
  <1>9. ASSUME NEW event \in OtherFrames, SendOther(event)
        PROVE  MuteIsOwed'
    <2>1. ServerSends(Frame(event, spoken, Cloud, NoText))
      BY <1>9 DEF SendOther
    <2>2. Frame(event, spoken, Cloud, NoText) \in Frames
      BY <1>0, FrameTypes, BoundFacts
    <2>3. UNCHANGED <<disabledRemote, chats, todo>>
      BY <1>9 DEF SendOther, clientVars
    <2> QED BY <1>0, <2>1, <2>2, <2>3, OwedSent DEF MuteIsOwed
  <1>10. CASE Reconnect
    BY <1>10 DEF Reconnect, MuteIsOwed
  <1>11. CASE ReplyThrows
    BY <1>11 DEF ReplyThrows, MuteIsOwed, serverVars
  <1> QED
    BY <1>2, <1>3, <1>4, <1>5, <1>6, <1>7, <1>8, <1>9, <1>10, <1>11 DEF Next, MainStep

\* While disabled_remote is set, a reply that will end is asked for, to be spoken or
\* on its way, also after a loss (on_close leaves disabled_remote alone, and the next
\* session's greeting ends it): what MuteLifted needs besides fairness.
THEOREM OwedCorrect == ASSUME Regular PROVE Spec => []MuteIsOwed
  <1>1. Init => MuteIsOwed
    BY DEF Init, MuteIsOwed
  <1> QED BY <1>1, OwedStep, Invariant, PTL DEF Spec
=============================================================================
