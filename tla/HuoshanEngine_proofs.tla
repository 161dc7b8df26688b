------------------------ MODULE HuoshanEngine_proofs ------------------------
(***************************************************************************)
(* The control side of the engine for any number of connections and audio  *)
(* chunks: one chain of handlers, the handshake in order on every          *)
(* connection, is_ready only in a session, and one stale chunk at most     *)
(* past each boundary of a session.                                        *)
(*                                                                         *)
(* What the capture thread may rely on follows from what Main knows, and   *)
(* that from what the server was asked: an event is an answer to a frame   *)
(* the server took (AnswerInv), hence comes once, and after a session's    *)
(* end nothing that is still on the way begins it again (EndInv).          *)
(***************************************************************************)
EXTENDS HuoshanEngine, SequenceFacts

USE BoundsAssumption

----------------------------------------------------------------------------
(* The inductive invariant *)

\* The chain that has not ended is that of the last connection, and connect()
\* finds a number for the next one.
ChainInv ==
    /\ \A c \in Conns : Live(c) => c = connection /\ mainPc \notin {"start", "assign"}
    /\ \A c \in Conns : c > connection => stage[c] = "none"
    /\ mainPc = "start" => connection = NoConn
    /\ mainPc = "assign" => connection < MaxConn

\* What Main handles came from a connection that is open.
HandlingInv ==
    /\ handling.event # "none" => mainPc = "handle"
    /\ mainPc = "handle" => handling.conn \in Conns /\ stage[handling.conn] = "open"

Sent(c, frame) == frame \in ToSet(sent[c])

\* e occurs once in s at most; b does not occur in s after a.
Once(s, e) == \A i, j \in DOMAIN s : s[i] = e /\ s[j] = e => i = j
NotAfter(s, b, a) == \A i, j \in DOMAIN s : s[i] = a /\ i < j => s[j] # b

Asked == [ConnectionStarted |-> "StartConnect", SessionStarted |-> "StartSession"]

\* The server takes what was sent; a connection that never opened sent nothing of
\* the handshake and received nothing.
WireInv ==
    \A c \in Conns :
        /\ taken[c] <= Len(sent[c])
        /\ stage[c] \notin {"open", "dead"} =>
              /\ inbox[c] = <<>> /\ taken[c] = 0 /\ phase[c] = "before"
              /\ \A f \in Handshake : ~Sent(c, f)

\* An event that Main answers was asked for and is on its way once; until it has
\* been handled its answer has not been sent.
AnswerInv ==
    \A c \in Conns : \A e \in DOMAIN Answers :
        /\ Waits(c, e) \/ Handles(c, e) => ServerTook(c, Asked[e]) /\ ~Sent(c, Answers[e])
        /\ Handles(c, e) => ~Waits(c, e)
        /\ Once(inbox[c], e)

\* A session ends after it has begun, and does not begin again.
EndInv ==
    \A c \in Conns :
        /\ server[c] = "session" => ServerTook(c, "StartSession")
        /\ Waits(c, "SessionFinished") => ServerTook(c, "StartSession")
        /\ NotAfter(inbox[c], "SessionStarted", "SessionFinished")
        /\ stage[c] = "open" /\ phase[c] = "after" =>
              ServerTook(c, "StartSession") /\ ~Waits(c, "SessionStarted")

\* HandleResponse sets is_ready, which parse() has set before.
ReadyInv == ReadyMeansSession /\ (handling.event = "SessionStarted" => isReady)

\* The connection the chunk under construction will go to, as things stand.
Aim == IF capturePc = "build" THEN connection ELSE target

\* A stale chunk lies behind: at a boundary that was passed, and not the one the
\* chunk under construction can still meet.
Old(x) == x[1] <= connection /\ x[2] # "in" /\ (x[2] = "after" => phase[x[1]] = "after")
Behind(x) == x[1] < Aim \/ (x[1] = Aim /\ x[2] = "before" /\ phase[x[1]] # "before")

StaleInv ==
    /\ OneStaleChunk
    /\ target <= connection
    /\ \A x \in ToSet(stale) : Old(x) /\ (capturePc \in {"build", "send"} => Behind(x))

IInv == TypeOK /\ ChainInv /\ HandlingInv /\ WireInv /\ HandshakeInOrder /\ AnswerInv
           /\ EndInv /\ ReadyInv /\ StaleInv
----------------------------------------------------------------------------
(* Types and the chain of handlers *)

\* The invariant holds before Main has started.
LEMMA InitInv == Init => IInv
  <1> SUFFICES ASSUME Init PROVE IInv
    OBVIOUS
  <1>1. \A S : <<>> \in Seq(S)
    BY EmptySeq
  <1>2. TypeOK
    <2>1. /\ sent \in [Conns -> Seq(Frames)]
          /\ inbox \in [Conns -> Seq(Events)]
          /\ stale \in Seq(Conns \X Phases)
      BY <1>1 DEF Init
    <2>2. chunks \in 0 .. MaxChunks /\ taken \in [Conns -> Nat]
      BY DEF Init
    <2>3. /\ stage \in [Conns -> Stages] /\ phase \in [Conns -> Phases]
          /\ handling \in [event : Events \cup {"none"}, conn : Conns \cup {NoConn}]
      BY DEF Init, Stages, Phases, NoEvent
    <2> QED BY <2>1, <2>2, <2>3 DEF Init, TypeOK
  <1>3. ChainInv /\ HandlingInv
    BY DEF Init, ChainInv, HandlingInv, Live, NoEvent
  <1>4. \A c \in Conns : sent[c] = <<>> /\ inbox[c] = <<>> /\ taken[c] = 0
    BY DEF Init
  <1>5. WireInv
    BY <1>4 DEF WireInv, Sent, ToSet, Init
  <1>6. HandshakeInOrder
    BY <1>4 DEF HandshakeInOrder
  <1>7. AnswerInv
    BY <1>4 DEF AnswerInv, Waits, Handles, Init, NoEvent, Answers, ToSet, Once
  <1>8. EndInv
    BY <1>4 DEF EndInv, Waits, Init, ToSet, NotAfter
  <1>9. ReadyInv /\ StaleInv
    BY DEF ReadyInv, ReadyMeansSession, StaleInv, OneStaleChunk, IsInjective, ToSet, Init,
           NoEvent, NoConn
  <1> QED BY <1>2, <1>3, <1>5, <1>6, <1>7, <1>8, <1>9 DEF IInv

\* No step gives a variable a value of another type; connect() needs a number.
LEMMA TypeStep == TypeOK /\ ChainInv /\ [Next]_vars => TypeOK'
  <1> SUFFICES ASSUME TypeOK, ChainInv, [Next]_vars
               PROVE  TypeOK'
    OBVIOUS
  <1> USE DEF TypeOK, clientVars, protoVars, mainVars, captureVars, serverVars
  <1>1. CASE Start
    BY <1>1 DEF Start
  <1>2. CASE Assign
    <2>1. connection < MaxConn /\ connection \in Nat /\ connection + 1 \in Conns
      BY <1>2 DEF Assign, ChainInv, Conns, NoConn
    <2>2. stage' \in [Conns -> Stages]
      BY <1>2 DEF Assign, Stages
    <2> QED BY <1>2, <2>1, <2>2 DEF Assign
  <1>3. ASSUME NEW c \in Conns, Advance(c)
        PROVE  TypeOK'
    <2>1. NextStage[stage[c]] \in Stages
      BY <1>3 DEF Advance, NextStage, Stages
    <2>2. stage' \in [Conns -> Stages]
      BY <1>3, <2>1 DEF Advance
    <2>3. UNCHANGED <<autoReconnect, connection, freed, sent, protoVars, mainVars,
                      captureVars, crashed, serverVars>>
      BY <1>3 DEF Advance
    <2> QED BY <2>2, <2>3, SMTT(60)
  <1>4. ASSUME NEW c \in Conns, NEW f \in Frames, MainSends(c, f)
        PROVE  sent' \in [Conns -> Seq(Frames)]
    BY <1>4, AppendProperties DEF MainSends
  <1>5. ASSUME NEW c \in Conns, Open(c)
        PROVE  TypeOK'
    <2>1. sent' \in [Conns -> Seq(Frames)]
      BY <1>4, <1>5 DEF Open, Frames
    <2>2. stage' \in [Conns -> Stages]
      BY <1>5 DEF Open, Stages
    <2>3. UNCHANGED <<autoReconnect, connection, freed, protoVars, mainVars, captureVars,
                      crashed, serverVars>>
      BY <1>5 DEF Open
    <2> QED BY <2>1, <2>2, <2>3, SMTT(60)
  <1>6. ASSUME NEW c \in Conns, Lose(c)
        PROVE  /\ isReady' \in BOOLEAN /\ phase' \in [Conns -> Phases]
               /\ stage' \in [Conns -> Stages]
               /\ mainPc' \in {"assign", "poll"}
               /\ handling' \in [event : Events \cup {"none"}, conn : Conns \cup {NoConn}]
    BY <1>6 DEF Lose, ReadyAfterLoss, StageAfterLoss, Phases, Stages, NoEvent
  <1>7. ASSUME NEW c \in Conns, Error(c)
        PROVE  TypeOK'
    BY <1>6, <1>7 DEF Error
  <1>8. ASSUME NEW c \in Conns, inbox[c] # <<>>
        PROVE  /\ Head(inbox[c]) \in Events
               /\ [inbox EXCEPT ![c] = Tail(@)] \in [Conns -> Seq(Events)]
    BY <1>8, HeadTailProperties
  <1>9. ASSUME NEW c \in Conns, Closed(c)
        PROVE  TypeOK'
    <2>1. sent' \in [Conns -> Seq(Frames)]
      BY <1>4, <1>9 DEF Closed, Frames
    <2> QED BY <1>6, <1>8, <1>9, <2>1 DEF Closed
  <1>10. ASSUME NEW c \in Conns, Parse(c)
         PROVE  TypeOK'
    <2>1. /\ inbox' \in [Conns -> Seq(Events)]
          /\ handling' \in [event : Events \cup {"none"}, conn : Conns \cup {NoConn}]
      BY <1>8, <1>10 DEF Parse
    <2>2. isReady' \in BOOLEAN
      BY <1>10 DEF Parse
    <2>3. phase' \in [Conns -> Phases]
      BY <1>10 DEF Parse, Phases
    <2> QED BY <1>10, <2>1, <2>2, <2>3 DEF Parse
  <1>11. CASE Handle
    <2>1. sent' \in [Conns -> Seq(Frames)]
      <3>1. CASE handling.event \in DOMAIN Answers
        <4>1. Answers[handling.event] \in Frames
          BY <3>1 DEF Answers, Frames
        <4>2. sent' = [sent EXCEPT ![handling.conn] = Append(@, Answers[handling.event])]
          BY <1>11, <3>1 DEF Handle, MainSends
        <4>3. CASE handling.conn \in Conns
          BY <4>1, <4>2, <4>3, AppendProperties
        <4>4. CASE handling.conn \notin Conns
          <5>1. sent' = sent
            BY <4>2, <4>4
          <5> QED BY <5>1
        <4> QED BY <4>3, <4>4
      <3>2. CASE handling.event \notin DOMAIN Answers
        BY <1>11, <3>2 DEF Handle
      <3> QED BY <3>1, <3>2
    <2>2. handling' \in [event : Events \cup {"none"}, conn : Conns \cup {NoConn}]
      BY <1>11 DEF Handle
    <2>3. isReady' \in BOOLEAN
      BY <1>11 DEF Handle
    <2> QED BY <1>11, <2>1, <2>2, <2>3 DEF Handle
  <1>12. CASE ReadNext
    BY <1>12 DEF ReadNext, NoEvent
  <1>13. ASSUME NEW c \in Conns, Release(c)
         PROVE  TypeOK'
    BY <1>13 DEF Release
  <1>14. CASE Check
    BY <1>14 DEF Check
  <1>15. CASE Read
    BY <1>15 DEF Read
  <1>16. CASE SendChunk
    <2>1. CASE target \in freed \cup {NoConn}
      BY <1>16, <2>1 DEF SendChunk
    <2>2. CASE target \notin freed \cup {NoConn}
      <3>1. target \in Conns
        BY <2>2
      <3>2. Append(sent[target], "TaskRequest") \in Seq(Frames)
        BY <3>1, AppendProperties DEF Frames
      <3>3. sent' \in [Conns -> Seq(Frames)]
        BY <1>16, <2>2, <3>1, <3>2 DEF SendChunk
      <3>4. Append(stale, <<target, phase[target]>>) \in Seq(Conns \X Phases)
        BY <3>1, AppendProperties
      <3>5. stale' \in Seq(Conns \X Phases)
        BY <1>16, <2>2, <3>4 DEF SendChunk
      <3>6. capturePc' \in {"idle", "write"} /\ target' \in Conns \cup {NoConn} /\ crashed' = crashed
        BY <1>16, <2>2, <3>1 DEF SendChunk
      <3> QED BY <1>16, <3>3, <3>5, <3>6 DEF SendChunk
    <2> QED BY <2>1, <2>2
  <1>17. CASE StartWrite
    BY <1>17 DEF StartWrite
  <1>18. ASSUME NEW c \in Conns, NEW e \in Events, ServerSays(c, e)
         PROVE  inbox' \in [Conns -> Seq(Events)]
    BY <1>18, AppendProperties DEF ServerSays
  <1>19. ASSUME NEW c \in Conns, Take(c)
         PROVE  TypeOK'
    <2>1. inbox' \in [Conns -> Seq(Events)]
      BY <1>18, <1>19 DEF Take, Events
    <2>2. taken' \in [Conns -> Nat]
      BY <1>19 DEF Take
    <2>3. server' \in [Conns -> {"new", "connected", "session", "over", "refused", "closed"}]
      BY <1>19 DEF Take
    <2> QED BY <1>19, <2>1, <2>2, <2>3 DEF Take, serverUnchanged
  <1>20. ASSUME NEW c \in Conns, Finish(c)
         PROVE  TypeOK'
    <2>1. inbox' \in [Conns -> Seq(Events)]
      BY <1>18, <1>20 DEF Finish, Events
    <2>2. server' \in [Conns -> {"new", "connected", "session", "over", "refused", "closed"}]
      BY <1>20 DEF Finish
    <2>3. UNCHANGED <<taken, serverUnchanged>>
      BY <1>20 DEF Finish
    <2> QED BY <2>1, <2>2, <2>3, SMTT(60) DEF serverUnchanged
  <1>21. ASSUME NEW c \in Conns, Close(c)
         PROVE  TypeOK'
    <2>1. inbox' \in [Conns -> Seq(Events)]
      BY <1>18, <1>21 DEF Close, Events
    <2>2. server' \in [Conns -> {"new", "connected", "session", "over", "refused", "closed"}]
      BY <1>21 DEF Close
    <2>3. UNCHANGED <<taken, serverUnchanged>>
      BY <1>21 DEF Close
    <2> QED BY <2>1, <2>2, <2>3, SMTT(60) DEF serverUnchanged
  <1>22. CASE UNCHANGED vars
    BY <1>22 DEF vars
  <1> QED
    BY <1>1, <1>2, <1>3, <1>5, <1>7, <1>9, <1>10, <1>11, <1>12, <1>13, <1>14, <1>15,
       <1>16, <1>17, <1>19, <1>20, <1>21, <1>22 DEF Next, MainStep, CaptureStep

\* Only Assign begins a chain, and it runs after a loss, which ended the last one.
LEMMA ChainStep ==
    TypeOK /\ ChainInv /\ HandlingInv /\ [Next]_vars => ChainInv' /\ HandlingInv'
  <1> SUFFICES ASSUME TypeOK, ChainInv, HandlingInv, [Next]_vars
               PROVE  ChainInv' /\ HandlingInv'
    OBVIOUS
  <1> USE DEF ChainInv, HandlingInv, Live, clientVars, protoVars, mainVars, captureVars, serverVars
  <1>0. /\ connection \in Conns \cup {NoConn} /\ stage \in [Conns -> Stages]
        /\ Conns = 1 .. MaxConn /\ NoConn = 0 /\ connection \in Nat
        /\ autoReconnect \in BOOLEAN
    BY DEF TypeOK, Conns, NoConn
  <1>1. CASE Start
    BY <1>0, <1>1 DEF Start
  <1>2. CASE Assign
    <2>0. \A c \in Conns : c > connection + 1 => c > connection
      BY <1>0
    <2>1. /\ connection' = connection + 1 /\ connection + 1 \in Conns
          /\ stage' = [stage EXCEPT ![connection + 1] = "resolve"]
          /\ mainPc = "assign" /\ mainPc' = "poll" /\ handling' = handling
      BY <1>0, <1>2 DEF Assign
    <2>2. \A c \in Conns : stage'[c] \notin {"none", "dead"} => c = connection'
      BY <1>0, <2>1
    <2>3. \A c \in Conns : c > connection' => stage'[c] = "none"
      BY <1>0, <2>0, <2>1
    <2> QED BY <2>1, <2>2, <2>3
  <1>3. ASSUME NEW c \in Conns, Advance(c)
        PROVE  ChainInv' /\ HandlingInv'
    BY <1>0, <1>3 DEF Advance, NextStage, Polling
  <1>4. ASSUME NEW c \in Conns, Open(c)
        PROVE  ChainInv' /\ HandlingInv'
    BY <1>0, <1>4 DEF Open, Polling
  <1>5. ASSUME NEW c \in Conns, Polling, Live(c), MayFail(c), Lose(c),
               UNCHANGED <<autoReconnect, connection>>
        PROVE  ChainInv' /\ HandlingInv'
    <2>1. /\ stage' = [stage EXCEPT ![c] = "dead"] /\ handling' = NoEvent
          /\ mainPc' = IF autoReconnect THEN "assign" ELSE "poll"
      BY <1>5 DEF Lose, StageAfterLoss, Reconnects
    <2>2. c = connection /\ mainPc = "poll"
      BY <1>5 DEF Polling
    <2>3. \A d \in Conns : stage'[d] \in {"none", "dead"}
      BY <1>0, <2>1, <2>2
    <2>4. mainPc' = "assign" => connection < MaxConn
      BY <1>0, <1>5, <2>1, <2>2 DEF MayFail
    <2> QED BY <1>5, <2>1, <2>3, <2>4 DEF NoEvent
  <1>6. ASSUME NEW c \in Conns, Error(c)
        PROVE  ChainInv' /\ HandlingInv'
    BY <1>5, <1>6 DEF Error
  <1>7. ASSUME NEW c \in Conns, Closed(c)
        PROVE  ChainInv' /\ HandlingInv'
    BY <1>5, <1>7 DEF Closed
  <1>8. ASSUME NEW c \in Conns, Parse(c)
        PROVE  ChainInv' /\ HandlingInv'
    BY <1>0, <1>8 DEF Parse, Polling
  <1>9. CASE Handle
    BY <1>0, <1>9 DEF Handle
  <1>10. CASE ReadNext
    BY <1>0, <1>10 DEF ReadNext, NoEvent
  <1>11. ASSUME UNCHANGED <<connection, stage, mainPc, handling>>
         PROVE  ChainInv' /\ HandlingInv'
    BY <1>11
  <1>12. ASSUME NEW c \in Conns, Release(c) \/ Take(c) \/ Finish(c) \/ Close(c)
         PROVE  ChainInv' /\ HandlingInv'
    BY <1>11, <1>12 DEF Release, Take, Finish, Close, serverUnchanged
  <1>13. CASE CaptureStep \/ UNCHANGED vars
    BY <1>11, <1>13 DEF CaptureStep, Check, Read, SendChunk, StartWrite, vars
  <1> QED
    BY <1>1, <1>2, <1>3, <1>4, <1>6, <1>7, <1>8, <1>9, <1>10, <1>12, <1>13
       DEF Next, MainStep

\* A reconnect never leaves two chains of handlers running.
THEOREM OneChainCorrect == Spec => []OneChain
  <1>1. Init => TypeOK /\ ChainInv /\ HandlingInv
    BY InitInv DEF IInv
  <1>2. TypeOK /\ ChainInv /\ HandlingInv /\ [Next]_vars => (TypeOK /\ ChainInv /\ HandlingInv)'
    BY TypeStep, ChainStep
  <1>3. ChainInv => OneChain
    BY DEF ChainInv, OneChain
  <1> QED BY <1>1, <1>2, <1>3, PTL DEF Spec

----------------------------------------------------------------------------
(* Sequences with an element that occurs once, or not after another *)

\* What occurs once still does when another element, or a new one, is appended, and
\* is gone when it was the head.
LEMMA OnceFacts ==
    ASSUME NEW S, NEW s \in Seq(S), NEW x \in S, NEW e, Once(s, e)
    PROVE  /\ (x = e => e \notin ToSet(s)) => Once(Append(s, x), e)
           /\ s # <<>> => Once(Tail(s), e) /\ (Head(s) = e => e \notin ToSet(Tail(s)))
  <1>0. Len(s) \in Nat /\ DOMAIN s = 1 .. Len(s)
    BY LenProperties
  <1>1. ASSUME x = e => e \notin ToSet(s)
        PROVE  Once(Append(s, x), e)
    <2>1. /\ DOMAIN Append(s, x) = 1 .. Len(s) + 1
          /\ Append(s, x)[Len(s) + 1] = x
          /\ \A i \in 1 .. Len(s) : Append(s, x)[i] = s[i]
      BY AppendProperties
    <2>2. ASSUME x = e
          PROVE  \A i \in 1 .. Len(s) : s[i] # e
      BY <1>0, <1>1, <2>2 DEF ToSet
    <2>3. ASSUME NEW i \in 1 .. Len(s) + 1, NEW j \in 1 .. Len(s) + 1,
                 Append(s, x)[i] = e, Append(s, x)[j] = e
          PROVE  i = j
      <3>1. CASE i \in 1 .. Len(s) /\ j \in 1 .. Len(s)
        BY <1>0, <2>1, <2>3, <3>1 DEF Once
      <3>2. CASE i = Len(s) + 1 \/ j = Len(s) + 1
        BY <1>0, <2>1, <2>2, <2>3, <3>2
      <3> QED BY <1>0, <3>1, <3>2
    <2> QED BY <2>1, <2>3 DEF Once
  <1>2. ASSUME s # <<>>
        PROVE  Once(Tail(s), e) /\ (Head(s) = e => e \notin ToSet(Tail(s)))
    <2>1. /\ Len(Tail(s)) = Len(s) - 1 /\ DOMAIN Tail(s) = 1 .. Len(s) - 1
          /\ \A i \in 1 .. Len(s) - 1 : Tail(s)[i] = s[i + 1]
          /\ Head(s) = s[1] /\ Len(s) >= 1
      BY <1>0, <1>2, HeadTailProperties
    <2>2. \A i \in 1 .. Len(s) - 1 : i + 1 \in DOMAIN s /\ 1 \in DOMAIN s
      BY <1>0, <2>1
    <2>3. Once(Tail(s), e)
      <3> SUFFICES ASSUME NEW i \in 1 .. Len(s) - 1, NEW j \in 1 .. Len(s) - 1,
                          s[i + 1] = e, s[j + 1] = e
                   PROVE  i = j
        BY <2>1 DEF Once
      <3>1. i + 1 = j + 1
        BY <2>2 DEF Once
      <3> QED BY <1>0, <3>1
    <2>4. ASSUME Head(s) = e, NEW i \in 1 .. Len(s) - 1, Tail(s)[i] = e
          PROVE  FALSE
      <3>1. 1 = i + 1
        BY <2>1, <2>2, <2>4 DEF Once
      <3> QED BY <1>0, <3>1
    <2> QED BY <2>1, <2>3, <2>4 DEF ToSet
  <1> QED BY <1>1, <1>2

\* b stays out of what follows a when b is only appended to sequences without a.
LEMMA NotAfterFacts ==
    ASSUME NEW S, NEW s \in Seq(S), NEW x \in S, NEW a, NEW b, NotAfter(s, b, a)
    PROVE  /\ (x = b => a \notin ToSet(s)) => NotAfter(Append(s, x), b, a)
           /\ s # <<>> => NotAfter(Tail(s), b, a) /\ (Head(s) = a => b \notin ToSet(Tail(s)))
  <1>0. Len(s) \in Nat /\ DOMAIN s = 1 .. Len(s)
    BY LenProperties
  <1>1. ASSUME x = b => a \notin ToSet(s)
        PROVE  NotAfter(Append(s, x), b, a)
    <2>1. /\ DOMAIN Append(s, x) = 1 .. Len(s) + 1
          /\ Append(s, x)[Len(s) + 1] = x
          /\ \A i \in 1 .. Len(s) : Append(s, x)[i] = s[i]
      BY AppendProperties
    <2>2. ASSUME x = b
          PROVE  \A i \in 1 .. Len(s) : s[i] # a
      BY <1>0, <1>1, <2>2 DEF ToSet
    <2>3. ASSUME NEW i \in 1 .. Len(s) + 1, NEW j \in 1 .. Len(s) + 1,
                 Append(s, x)[i] = a, i < j, Append(s, x)[j] = b
          PROVE  FALSE
      <3>0. i \in 1 .. Len(s) /\ s[i] = a
        BY <1>0, <2>1, <2>3
      <3>1. CASE j \in 1 .. Len(s)
        <4>1. s[j] = b
          BY <2>1, <2>3, <3>1
        <4> QED BY <1>0, <2>3, <3>0, <3>1, <4>1 DEF NotAfter
      <3>2. CASE j = Len(s) + 1
        BY <2>1, <2>2, <2>3, <3>0, <3>2
      <3> QED BY <1>0, <3>1, <3>2
    <2> QED BY <2>1, <2>3 DEF NotAfter
  <1>2. ASSUME s # <<>>
        PROVE  NotAfter(Tail(s), b, a) /\ (Head(s) = a => b \notin ToSet(Tail(s)))
    <2>1. /\ Len(Tail(s)) = Len(s) - 1 /\ DOMAIN Tail(s) = 1 .. Len(s) - 1
          /\ \A i \in 1 .. Len(s) - 1 : Tail(s)[i] = s[i + 1]
          /\ Head(s) = s[1] /\ Len(s) >= 1
      BY <1>0, <1>2, HeadTailProperties
    <2>2. \A i \in 1 .. Len(s) - 1 : i + 1 \in DOMAIN s /\ 1 \in DOMAIN s /\ 1 < i + 1
      BY <1>0, <2>1
    <2>3. NotAfter(Tail(s), b, a)
      <3> SUFFICES ASSUME NEW i \in 1 .. Len(s) - 1, NEW j \in 1 .. Len(s) - 1,
                          s[i + 1] = a, i < j
                   PROVE  s[j + 1] # b
        BY <2>1 DEF NotAfter
      <3>1. i + 1 < j + 1
        BY <1>0
      <3> QED BY <2>2, <3>1 DEF NotAfter
    <2>4. ASSUME Head(s) = a, NEW i \in 1 .. Len(s) - 1
          PROVE  Tail(s)[i] # b
      BY <2>1, <2>2, <2>4 DEF NotAfter
    <2> QED BY <2>1, <2>3, <2>4 DEF ToSet
  <1> QED BY <1>1, <1>2

----------------------------------------------------------------------------
(* What a step does to the frames and events of a connection *)

\* Frames are only added, and the server only takes more of them.
LEMMA Growth ==
    ASSUME TypeOK, WireInv, [Next]_vars, NEW c \in Conns
    PROVE  /\ \A i \in 1 .. Len(sent[c]) : sent'[c][i] = sent[c][i]
           /\ Len(sent[c]) <= Len(sent'[c])
           /\ taken'[c] \in Nat /\ taken[c] <= taken'[c] /\ taken'[c] <= Len(sent'[c])
           /\ \A f : ServerTook(c, f) => ServerTook(c, f)'
  <1>0. /\ sent \in [Conns -> Seq(Frames)] /\ sent[c] \in Seq(Frames)
        /\ taken \in [Conns -> Nat] /\ taken[c] \in Nat /\ Len(sent[c]) \in Nat
        /\ taken[c] <= Len(sent[c])
    BY LenProperties DEF TypeOK, WireInv
  <1>1. ASSUME NEW s, s = sent[c] \/ \E f \in Frames : s = Append(sent[c], f)
        PROVE  \A i \in 1 .. Len(sent[c]) : s[i] = sent[c][i] /\ Len(sent[c]) <= Len(s)
    BY <1>0, <1>1, AppendProperties
  <1> DEFINE Grows == /\ \/ sent'[c] = sent[c]
                         \/ \E f \in Frames : sent'[c] = Append(sent[c], f)
                      /\ \/ taken'[c] = taken[c]
                         \/ /\ taken'[c] = taken[c] + 1 /\ taken[c] < Len(sent[c])
                            /\ sent' = sent
  <1>2. Grows
    <2> USE DEF clientVars, protoVars, mainVars, captureVars, serverVars
    <2>1. CASE UNCHANGED <<sent, taken>>
      BY <2>1
    <2>2. ASSUME NEW d, NEW f \in Frames, MainSends(d, f), UNCHANGED taken
          PROVE  Grows
      BY <1>0, <2>2 DEF MainSends
    <2>3. CASE Start \/ Assign \/ ReadNext \/ Check \/ Read \/ StartWrite \/ UNCHANGED vars
      BY <2>1, <2>3 DEF Start, Assign, ReadNext, Check, Read, StartWrite, vars
    <2>4. ASSUME NEW d \in Conns, Advance(d) \/ Error(d) \/ Parse(d) \/ Release(d)
                                  \/ Finish(d) \/ Close(d)
          PROVE  Grows
      BY <2>1, <2>4 DEF Advance, Error, Parse, Release, Finish, Close, serverUnchanged
    <2>5. ASSUME NEW d \in Conns, Open(d)
          PROVE  Grows
      BY <2>2, <2>5 DEF Open, Frames
    <2>6. ASSUME NEW d \in Conns, Closed(d)
          PROVE  Grows
      BY <2>2, <2>6 DEF Closed, Frames
    <2>7. CASE Handle
      <3>1. Answers[handling.event] \in Frames \/ handling.event \notin DOMAIN Answers
        BY DEF Answers, Frames
      <3> QED BY <2>1, <2>2, <2>7, <3>1 DEF Handle
    <2>8. CASE SendChunk
      <3>1. "TaskRequest" \in Frames
        BY DEF Frames
      <3>2. \/ sent' = sent
            \/ sent' = [sent EXCEPT ![target] = Append(@, "TaskRequest")]
        BY <2>8 DEF SendChunk
      <3> QED BY <1>0, <2>8, <3>1, <3>2 DEF SendChunk
    <2>9. ASSUME NEW d \in Conns, Take(d)
          PROVE  Grows
      BY <1>0, <2>9 DEF Take, serverUnchanged
    <2> QED BY <2>3, <2>4, <2>5, <2>6, <2>7, <2>8, <2>9 DEF Next, MainStep, CaptureStep
  <1>3. /\ \A i \in 1 .. Len(sent[c]) : sent'[c][i] = sent[c][i]
        /\ Len(sent[c]) <= Len(sent'[c]) /\ Len(sent'[c]) \in Nat
    BY <1>0, <1>2, AppendProperties
  <1>4. taken[c] <= taken'[c] /\ taken'[c] <= Len(sent'[c]) /\ taken'[c] \in Nat
    BY <1>0, <1>2, <1>3
  <1>5. ASSUME NEW f, ServerTook(c, f)
        PROVE  ServerTook(c, f)'
    <2>1. PICK i \in 1 .. taken[c] : sent[c][i] = f
      BY <1>5 DEF ServerTook
    <2>2. i \in 1 .. taken'[c] /\ sent'[c][i] = f
      BY <1>0, <1>3, <1>4, <2>1
    <2> QED BY <2>2 DEF ServerTook
  <1> QED BY <1>3, <1>4, <1>5

\* A frame is sent on one connection.
LEMMA SendFacts ==
    ASSUME TypeOK, NEW c \in Conns, NEW f \in Frames,
           sent' = [sent EXCEPT ![c] = Append(@, f)]
    PROVE  /\ \A d \in Conns \ {c} : sent'[d] = sent[d]
           /\ sent'[c] = Append(sent[c], f)
           /\ \A g : Sent(c, g)' <=> Sent(c, g) \/ g = f
           /\ \A g : \A d \in Conns \ {c} : Sent(d, g)' <=> Sent(d, g)
  <1>1. sent[c] \in Seq(Frames) /\ sent \in [Conns -> Seq(Frames)]
    BY DEF TypeOK
  <1>2. ToSet(Append(sent[c], f)) = ToSet(sent[c]) \cup {f}
    BY <1>1, AppendToSet
  <1> QED BY <1>1, <1>2 DEF Sent

\* An event comes in on one connection.
LEMMA SayFacts ==
    ASSUME TypeOK, NEW c \in Conns, NEW e \in Events, ServerSays(c, e)
    PROVE  /\ \A d \in Conns \ {c} : inbox'[d] = inbox[d]
           /\ inbox'[c] = Append(inbox[c], e)
           /\ \A g : Waits(c, g)' <=> Waits(c, g) \/ g = e
           /\ \A g : \A d \in Conns \ {c} : Waits(d, g)' <=> Waits(d, g)
  <1>1. inbox[c] \in Seq(Events) /\ inbox \in [Conns -> Seq(Events)]
    BY DEF TypeOK
  <1>2. ToSet(Append(inbox[c], e)) = ToSet(inbox[c]) \cup {e}
    BY <1>1, AppendToSet
  <1> QED BY <1>1, <1>2 DEF ServerSays, Waits

\* An event is taken out of one inbox.
LEMMA ReadFacts ==
    ASSUME TypeOK, NEW c \in Conns, inbox[c] # <<>>, inbox' = [inbox EXCEPT ![c] = Tail(@)]
    PROVE  /\ \A d \in Conns \ {c} : inbox'[d] = inbox[d]
           /\ inbox'[c] = Tail(inbox[c])
           /\ Head(inbox[c]) \in Events
           /\ \A g : Waits(c, g) <=> Waits(c, g)' \/ g = Head(inbox[c])
           /\ \A g : \A d \in Conns \ {c} : Waits(d, g)' <=> Waits(d, g)
  <1>1. inbox[c] \in Seq(Events) /\ inbox \in [Conns -> Seq(Events)]
    BY DEF TypeOK
  <1>2. /\ ToSet(inbox[c]) = {Head(inbox[c])} \cup ToSet(Tail(inbox[c]))
        /\ Head(inbox[c]) \in Events
    BY <1>1, HeadTailToSet
  <1> QED BY <1>1, <1>2 DEF Waits

----------------------------------------------------------------------------
(* The wire and the handshake *)

\* The first frame is sent by Open, and events are put in the inbox of an open
\* connection only.
LEMMA WireStep ==
    TypeOK /\ ChainInv /\ HandlingInv /\ WireInv /\ [Next]_vars => WireInv'
  <1> SUFFICES ASSUME TypeOK, ChainInv, HandlingInv, WireInv, [Next]_vars,
                      NEW c \in Conns
               PROVE  /\ taken'[c] <= Len(sent'[c])
                      /\ stage'[c] \notin {"open", "dead"} =>
                            /\ inbox'[c] = <<>> /\ taken'[c] = 0 /\ phase'[c] = "before"
                            /\ \A f \in Handshake : ~Sent(c, f)'
    BY DEF WireInv
  <1>0. taken'[c] <= Len(sent'[c])
    BY Growth
  <1> DEFINE Early(d) == stage[d] \notin {"open", "dead"}
             Fresh(d) == /\ inbox[d] = <<>> /\ taken[d] = 0 /\ phase[d] = "before"
                         /\ \A f \in Handshake : ~Sent(d, f)
  <1> SUFFICES Early(c)' => Fresh(c)'
    BY <1>0
  <1>1. Early(c) => Fresh(c)
    BY DEF WireInv
  <1>2. /\ stage \in [Conns -> Stages] /\ phase \in [Conns -> Phases]
        /\ inbox \in [Conns -> Seq(Events)] /\ taken \in [Conns -> Nat]
    BY DEF TypeOK
  <1>3. ASSUME UNCHANGED <<sent, inbox, taken>>, Early(c)' => Early(c),
               Early(c)' => phase'[c] = phase[c]
        PROVE  Early(c)' => Fresh(c)'
    BY <1>1, <1>3 DEF Sent
  <1>4. ASSUME ~Early(c)'
        PROVE  Early(c)' => Fresh(c)'
    BY <1>4
  <1> USE DEF clientVars, protoVars, mainVars, captureVars, serverVars
  <1>5. CASE Start \/ ReadNext \/ Check \/ Read \/ StartWrite \/ UNCHANGED vars
    BY <1>3, <1>5 DEF Start, ReadNext, Check, Read, StartWrite, vars
  <1>6. CASE Assign
    <2>1. stage[connection + 1] = "none"
      <3>1. connection + 1 \in Conns /\ connection + 1 > connection
        BY <1>6 DEF Assign, ChainInv, TypeOK, Conns, NoConn
      <3> QED BY <3>1 DEF ChainInv
    <2>2. stage'[c] = stage[c] \/ c = connection + 1
      BY <1>2, <1>6 DEF Assign
    <2> QED BY <1>3, <1>6, <2>1, <2>2 DEF Assign
  <1>7. ASSUME NEW d \in Conns, Advance(d) \/ Release(d)
        PROVE  Early(c)' => Fresh(c)'
    <2>1. Early(c)' => Early(c)
      BY <1>2, <1>7 DEF Advance, Release, NextStage
    <2> QED BY <1>3, <1>7, <2>1 DEF Advance, Release
  <1>8. ASSUME NEW d \in Conns, NEW f \in Frames, MainSends(d, f),
               UNCHANGED <<taken, phase>>, stage'[d] \in {"open", "dead"},
               \A b \in Conns \ {d} : stage'[b] = stage[b] /\ inbox'[b] = inbox[b]
        PROVE  Early(c)' => Fresh(c)'
    <2>1. CASE c = d
      BY <1>4, <1>8, <2>1
    <2>2. CASE c # d
      <3>1. \A g : Sent(c, g)' <=> Sent(c, g)
        BY <1>8, <2>2, SendFacts DEF MainSends
      <3> QED BY <1>1, <1>8, <2>2, <3>1
    <2> QED BY <2>1, <2>2
  <1>9. ASSUME NEW d \in Conns, Open(d)
        PROVE  Early(c)' => Fresh(c)'
    <2>1. stage' = [stage EXCEPT ![d] = "open"] /\ inbox' = inbox
      BY <1>9 DEF Open
    <2>2. stage'[d] \in {"open", "dead"} /\ \A b \in Conns \ {d} : stage'[b] = stage[b]
      BY <1>2, <2>1
    <2> QED BY <1>8, <1>9, <2>1, <2>2 DEF Open, Frames
  <1>10. ASSUME NEW d \in Conns, Lose(d)
         PROVE  /\ stage'[d] = "dead"
                /\ \A b \in Conns \ {d} : stage'[b] = stage[b] /\ phase'[b] = phase[b]
    BY <1>2, <1>10 DEF Lose, StageAfterLoss
  <1>11. ASSUME NEW d \in Conns, Error(d)
         PROVE  Early(c)' => Fresh(c)'
    BY <1>1, <1>3, <1>4, <1>10, <1>11 DEF Error
  <1>12. ASSUME NEW d \in Conns, Closed(d)
         PROVE  Early(c)' => Fresh(c)'
    <2>1. \A b \in Conns \ {d} : inbox'[b] = inbox[b]
      BY <1>2, <1>12 DEF Closed
    <2>2. CASE c = d
      BY <1>4, <1>10, <1>12, <2>2 DEF Closed
    <2>3. CASE c # d
      <3>1. \A g : Sent(c, g)' <=> Sent(c, g)
        BY <1>12, <2>3, SendFacts DEF MainSends, Closed, Frames
      <3>2. stage'[c] = stage[c] /\ phase'[c] = phase[c]
        BY <1>10, <1>12, <2>3 DEF Closed
      <3> QED BY <1>1, <1>12, <2>1, <2>3, <3>1, <3>2 DEF Closed
    <2> QED BY <2>2, <2>3
  <1>13. ASSUME NEW d \in Conns, Parse(d)
         PROVE  Early(c)' => Fresh(c)'
    <2>1. CASE c = d
      BY <1>4, <1>13, <2>1 DEF Parse
    <2>2. CASE c # d
      BY <1>1, <1>2, <1>13, <2>2 DEF Parse, Sent
    <2> QED BY <2>1, <2>2
  <1>14. CASE Handle
    <2>1. handling.conn \in Conns /\ stage'[handling.conn] = "open"
      BY <1>14 DEF Handle, HandlingInv
    <2>2. Answers[handling.event] \in Frames \/ handling.event \notin DOMAIN Answers
      BY DEF Answers, Frames
    <2>3. CASE handling.event \in DOMAIN Answers
      BY <1>8, <1>14, <2>1, <2>2, <2>3 DEF Handle
    <2>4. CASE handling.event \notin DOMAIN Answers
      BY <1>3, <1>14, <2>4 DEF Handle
    <2> QED BY <2>3, <2>4
  <1>15. CASE SendChunk
    <2>1. CASE target \in freed \cup {NoConn}
      BY <1>3, <1>15, <2>1 DEF SendChunk
    <2>2. CASE target \notin freed \cup {NoConn}
      <3>1. target \in Conns /\ "TaskRequest" \in Frames /\ "TaskRequest" \notin Handshake
        BY <2>2 DEF TypeOK, Frames, Handshake
      <3>2. sent' = [sent EXCEPT ![target] = Append(@, "TaskRequest")]
        BY <1>15, <2>2 DEF SendChunk
      <3>3. \A g \in Handshake : Sent(c, g)' <=> Sent(c, g)
        <4>1. CASE c = target
          BY <3>1, <3>2, <4>1, SendFacts
        <4>2. CASE c # target
          BY <3>1, <3>2, <4>2, SendFacts
        <4> QED BY <4>1, <4>2
      <3> QED BY <1>1, <1>15, <3>3 DEF SendChunk
    <2> QED BY <2>1, <2>2
  <1>16. ASSUME NEW d \in Conns, stage[d] = "open", UNCHANGED <<stage, phase, sent>>,
                \A b \in Conns \ {d} : taken'[b] = taken[b] /\ inbox'[b] = inbox[b]
         PROVE  Early(c)' => Fresh(c)'
    BY <1>1, <1>4, <1>16 DEF Sent
  <1>17. ASSUME NEW d \in Conns, Take(d) \/ Finish(d) \/ Close(d)
         PROVE  Early(c)' => Fresh(c)'
    <2>1. \A b \in Conns \ {d} : taken'[b] = taken[b] /\ inbox'[b] = inbox[b]
      BY <1>2, <1>17 DEF Take, Finish, Close, ServerSays
    <2> QED BY <1>16, <1>17, <2>1 DEF Take, Finish, Close, serverUnchanged
  <1> QED
    BY <1>5, <1>6, <1>7, <1>9, <1>11, <1>12, <1>13, <1>14, <1>15, <1>17
       DEF Next, MainStep, CaptureStep


\* What HandshakeInOrder says of one connection.
InOrder(c) ==
    \A i \in DOMAIN sent[c] :
        /\ sent[c][i] \in Handshake =>
              \A j \in DOMAIN sent[c] : sent[c][j] = sent[c][i] => j = i
        /\ sent[c][i] \in DOMAIN Before =>
              \E j \in 1 .. taken[c] : j < i /\ sent[c][j] = Before[sent[c][i]]

\* A frame may be sent when it is none of the handshake, or the next one of it.
LEMMA OrderKept ==
    ASSUME TypeOK, WireInv, [Next]_vars, NEW c \in Conns, InOrder(c), NEW f \in Frames,
           sent'[c] = Append(sent[c], f),
           f \in Handshake => ~Sent(c, f),
           f \in DOMAIN Before => ServerTook(c, Before[f])
    PROVE  InOrder(c)'
  <1>0. /\ sent[c] \in Seq(Frames) /\ Len(sent[c]) \in Nat /\ DOMAIN sent[c] = 1 .. Len(sent[c])
        /\ taken[c] \in Nat /\ taken[c] <= Len(sent[c])
    BY LenProperties DEF TypeOK, WireInv
  <1>1. /\ DOMAIN sent'[c] = 1 .. Len(sent[c]) + 1
        /\ sent'[c][Len(sent[c]) + 1] = f
        /\ \A i \in 1 .. Len(sent[c]) : sent'[c][i] = sent[c][i]
    BY <1>0, AppendProperties
  <1>2. taken[c] <= taken'[c] /\ taken'[c] <= Len(sent'[c]) /\ taken'[c] \in Nat
    BY <1>0, Growth
  <1>3. taken'[c] \in Int
    BY <1>2
  <1> SUFFICES ASSUME NEW i \in 1 .. Len(sent[c]) + 1
               PROVE  /\ sent'[c][i] \in Handshake =>
                            \A j \in 1 .. Len(sent[c]) + 1 : sent'[c][j] = sent'[c][i] => j = i
                      /\ sent'[c][i] \in DOMAIN Before =>
                            \E j \in 1 .. taken'[c] : j < i /\ sent'[c][j] = Before[sent'[c][i]]
    BY <1>1 DEF InOrder
  <1>4. ASSUME f \in Handshake
        PROVE  \A j \in 1 .. Len(sent[c]) : sent[c][j] # f
    BY <1>0, <1>4 DEF Sent, ToSet
  <1>5. CASE i \in 1 .. Len(sent[c])
    <2>1. sent'[c][i] = sent[c][i] /\ i # Len(sent[c]) + 1
      BY <1>0, <1>1, <1>5
    <2>2. ASSUME sent[c][i] \in Handshake, NEW j \in 1 .. Len(sent[c]) + 1,
                 sent'[c][j] = sent[c][i]
          PROVE  j = i
      <3>1. CASE j = Len(sent[c]) + 1
        BY <1>1, <1>4, <1>5, <2>2, <3>1
      <3>2. CASE j \in 1 .. Len(sent[c])
        <4>1. sent[c][j] = sent[c][i]
          BY <1>1, <2>2, <3>2
        <4>2. \A k \in 1 .. Len(sent[c]) : sent[c][k] = sent[c][i] => k = i
          BY <1>0, <1>5, <2>2 DEF InOrder
        <4> QED BY <3>2, <4>1, <4>2
      <3> QED BY <1>0, <3>1, <3>2
    <2>3. ASSUME sent[c][i] \in DOMAIN Before
          PROVE  \E j \in 1 .. taken'[c] : j < i /\ sent'[c][j] = Before[sent[c][i]]
      <3>1. PICK j \in 1 .. taken[c] : j < i /\ sent[c][j] = Before[sent[c][i]]
        BY <1>0, <1>5, <2>3 DEF InOrder
      <3>2. j \in 1 .. taken'[c] /\ j \in 1 .. Len(sent[c])
        BY <1>0, <1>2, <3>1
      <3> QED BY <1>1, <3>1, <3>2
    <2> QED BY <2>1, <2>2, <2>3
  <1>6. CASE i = Len(sent[c]) + 1
    <2>1. sent'[c][i] = f
      BY <1>1, <1>6
    <2>2. ASSUME f \in Handshake, NEW j \in 1 .. Len(sent[c]) + 1, sent'[c][j] = f
          PROVE  j = i
      BY <1>0, <1>1, <1>4, <1>6, <2>2
    <2>3. ASSUME f \in DOMAIN Before
          PROVE  \E j \in 1 .. taken'[c] : j < i /\ sent'[c][j] = Before[f]
      <3>1. PICK j \in 1 .. taken[c] : sent[c][j] = Before[f]
        BY <2>3 DEF ServerTook
      <3>2. j \in 1 .. taken'[c] /\ j \in 1 .. Len(sent[c]) /\ j < i
        BY <1>0, <1>2, <1>6, <3>1
      <3> QED BY <1>1, <3>1, <3>2
    <2> QED BY <2>1, <2>2, <2>3
  <1> QED BY <1>0, <1>5, <1>6

\* Steps that send nothing on a connection leave its handshake in order.
LEMMA OrderUntouched ==
    ASSUME TypeOK, WireInv, [Next]_vars, NEW c \in Conns, InOrder(c), sent'[c] = sent[c]
    PROVE  InOrder(c)'
  <1>1. taken[c] <= taken'[c] /\ taken[c] \in Nat /\ taken'[c] \in Nat
    BY Growth DEF TypeOK
  <1>2. \A j \in 1 .. taken[c] : j \in 1 .. taken'[c]
    BY <1>1
  <1> QED BY <1>2 DEF InOrder

\* Main sends a frame of the handshake in answer to an event, hence once and after
\* the server has taken the frame before it.
LEMMA OrderStep ==
    /\ TypeOK /\ ChainInv /\ HandlingInv /\ WireInv /\ AnswerInv
    /\ HandshakeInOrder /\ [Next]_vars
    => HandshakeInOrder'
  <1> SUFFICES ASSUME TypeOK, ChainInv, HandlingInv, WireInv, AnswerInv, HandshakeInOrder,
                      [Next]_vars, NEW c \in Conns
               PROVE  InOrder(c)'
    BY DEF HandshakeInOrder, InOrder
  <1>1. InOrder(c)
    BY DEF HandshakeInOrder, InOrder
  <1>2. ASSUME sent'[c] = sent[c]
        PROVE  InOrder(c)'
    BY <1>1, <1>2, OrderUntouched
  <1>3. ASSUME NEW d \in Conns, NEW f \in Frames, sent' = [sent EXCEPT ![d] = Append(@, f)],
               f \in Handshake => ~Sent(d, f),
               f \in DOMAIN Before => ServerTook(d, Before[f])
        PROVE  InOrder(c)'
    <2>1. CASE c = d
      <3>1. sent'[c] = Append(sent[c], f)
        BY <1>3, <2>1, SendFacts
      <3> QED BY <1>1, <1>3, <2>1, <3>1, OrderKept
    <2>2. CASE c # d
      BY <1>2, <1>3, <2>2, SendFacts
    <2> QED BY <2>1, <2>2
  <1> USE DEF clientVars, protoVars, mainVars, captureVars, serverVars
  <1>4. CASE Start \/ Assign \/ ReadNext \/ Check \/ Read \/ StartWrite \/ UNCHANGED vars
    BY <1>2, <1>4 DEF Start, Assign, ReadNext, Check, Read, StartWrite, vars
  <1>5. ASSUME NEW d \in Conns, \/ Advance(d) \/ Error(d) \/ Parse(d) \/ Release(d)
                                \/ Take(d) \/ Finish(d) \/ Close(d)
        PROVE  InOrder(c)'
    BY <1>2, <1>5 DEF Advance, Error, Parse, Release, Take, Finish, Close, serverUnchanged
  <1>6. ASSUME NEW d \in Conns, Open(d)
        PROVE  InOrder(c)'
    <2>1. "StartConnect" \in Frames /\ "StartConnect" \notin DOMAIN Before
      BY DEF Frames, Before
    <2>2. ~Sent(d, "StartConnect")
      BY <1>6 DEF Open, WireInv, Handshake
    <2> QED BY <1>3, <1>6, <2>1, <2>2 DEF Open, MainSends
  <1>7. ASSUME NEW d \in Conns, Closed(d)
        PROVE  InOrder(c)'
    <2>1. "Close" \in Frames /\ "Close" \notin DOMAIN Before /\ "Close" \notin Handshake
      BY DEF Frames, Before, Handshake
    <2> QED BY <1>3, <1>7, <2>1 DEF Closed, MainSends
  <1>8. CASE Handle
    <2>1. CASE handling.event \in DOMAIN Answers
      <3>1. handling.conn \in Conns
        BY <1>8 DEF Handle, HandlingInv
      <3>2. /\ ServerTook(handling.conn, Asked[handling.event])
            /\ ~Sent(handling.conn, Answers[handling.event])
        BY <2>1, <3>1 DEF AnswerInv, Handles
      <3>3. /\ Answers[handling.event] \in Frames
            /\ Before[Answers[handling.event]] = Asked[handling.event]
        BY <2>1 DEF Answers, Frames, Before, Asked
      <3>4. sent' = [sent EXCEPT ![handling.conn] = Append(@, Answers[handling.event])]
        BY <1>8, <2>1 DEF Handle, MainSends
      <3>5. ServerTook(handling.conn, Before[Answers[handling.event]])
        BY <3>2, <3>3
      <3> HIDE DEF Handshake
      <3> DEFINE f == Answers[handling.event]
                 d == handling.conn
      <3>6. /\ f \in Frames /\ ServerTook(d, Before[f]) /\ ~Sent(d, f) /\ d \in Conns
            /\ sent' = [sent EXCEPT ![d] = Append(@, f)]
        BY <3>1, <3>2, <3>3, <3>4, <3>5
      <3> HIDE DEF f, d
      <3> QED BY <1>3, <3>6
    <2>2. CASE handling.event \notin DOMAIN Answers
      BY <1>2, <1>8, <2>2 DEF Handle
    <2> QED BY <2>1, <2>2
  <1>9. CASE SendChunk
    <2>1. CASE target \in freed \cup {NoConn}
      BY <1>2, <1>9, <2>1 DEF SendChunk
    <2>2. CASE target \notin freed \cup {NoConn}
      <3>1. /\ target \in Conns /\ "TaskRequest" \in Frames
            /\ "TaskRequest" \notin Handshake /\ "TaskRequest" \notin DOMAIN Before
        BY <2>2 DEF TypeOK, Frames, Handshake, Before
      <3>2. sent' = [sent EXCEPT ![target] = Append(@, "TaskRequest")]
        BY <1>9, <2>2 DEF SendChunk
      <3> QED BY <1>3, <3>1, <3>2
    <2> QED BY <2>1, <2>2
  <1> QED
    BY <1>4, <1>5, <1>6, <1>7, <1>8, <1>9 DEF Next, MainStep, CaptureStep

----------------------------------------------------------------------------
(* Questions and answers *)

\* The frame the server takes next was not taken before.
LEMMA TakenOnce ==
    ASSUME TypeOK, WireInv, HandshakeInOrder, NEW c \in Conns, Take(c),
           NEW frame \in Handshake, sent[c][taken[c] + 1] = frame
    PROVE  /\ ~ServerTook(c, frame)
           /\ ServerTook(c, frame)'
           /\ \A f \in DOMAIN Before : Before[f] = frame => ~Sent(c, f)
  <1> DEFINE n == taken[c] + 1
  <1>0. /\ sent[c] \in Seq(Frames) /\ Len(sent[c]) \in Nat /\ DOMAIN sent[c] = 1 .. Len(sent[c])
        /\ taken \in [Conns -> Nat] /\ taken[c] \in Nat /\ taken[c] < Len(sent[c])
        /\ sent' = sent /\ taken'[c] = n
    BY LenProperties DEF TypeOK, WireInv, Take, serverUnchanged
  <1>1. n \in DOMAIN sent[c] /\ \A j \in 1 .. taken[c] : j \in DOMAIN sent[c] /\ j # n
    BY <1>0
  <1>2. \A j \in 1 .. taken[c] : sent[c][j] # frame
    BY <1>1 DEF HandshakeInOrder
  <1>3. ~ServerTook(c, frame)
    BY <1>2 DEF ServerTook
  <1>4. ServerTook(c, frame)'
    <2>1. n \in 1 .. taken'[c]
      BY <1>0
    <2> QED BY <1>0, <2>1 DEF ServerTook
  <1>5. ASSUME NEW f \in DOMAIN Before, Before[f] = frame, Sent(c, f)
        PROVE  FALSE
    <2>1. PICK i \in DOMAIN sent[c] : sent[c][i] = f
      BY <1>5 DEF Sent, ToSet
    <2>2. PICK j \in 1 .. taken[c] : sent[c][j] = Before[f]
      BY <1>5, <2>1 DEF HandshakeInOrder
    <2> QED BY <1>2, <1>5, <2>2
  <1> QED BY <1>3, <1>4, <1>5

\* The server answers a frame when it takes it, which happens once; handling the
\* event sends its answer and uses the event up.
LEMMA AnswerStep ==
    /\ TypeOK /\ ChainInv /\ HandlingInv /\ WireInv /\ HandshakeInOrder /\ AnswerInv
    /\ [Next]_vars
    => AnswerInv'
  <1> DEFINE Asking(c, e) ==
                /\ Waits(c, e) \/ Handles(c, e) => ServerTook(c, Asked[e]) /\ ~Sent(c, Answers[e])
                /\ Handles(c, e) => ~Waits(c, e)
                /\ Once(inbox[c], e)
  <1> SUFFICES ASSUME TypeOK, ChainInv, HandlingInv, WireInv, HandshakeInOrder, AnswerInv,
                      [Next]_vars, NEW c \in Conns, NEW e \in DOMAIN Answers
               PROVE  Asking(c, e)'
    BY DEF AnswerInv, Answers
  <1>0. /\ inbox \in [Conns -> Seq(Events)] /\ inbox[c] \in Seq(Events)
        /\ e \in {"ConnectionStarted", "SessionStarted"} /\ e # "none" /\ e \in Events
        /\ Asked[e] \in Handshake /\ Before[Answers[e]] = Asked[e] /\ Answers[e] \in DOMAIN Before
    BY DEF TypeOK, Answers, Events, Asked, Handshake, Before
  <1>1. Asking(c, e)
    BY DEF AnswerInv
  <1>2. ServerTook(c, Asked[e]) => ServerTook(c, Asked[e])'
    BY Growth
  <1>3. ASSUME inbox'[c] = inbox[c], Handles(c, e)' => Handles(c, e),
               Sent(c, Answers[e])' => Sent(c, Answers[e])
        PROVE  Asking(c, e)'
    BY <1>1, <1>2, <1>3 DEF Waits
  <1>4. handling.event = "none" => ~Handles(c, e)
    BY <1>0 DEF Handles
  <1>5. ASSUME handling' = handling
        PROVE  Handles(c, e)' => Handles(c, e)
    BY <1>5 DEF Handles
  <1>6. ASSUME handling' = NoEvent
        PROVE  ~Handles(c, e)'
    BY <1>0, <1>6 DEF Handles, NoEvent
  <1>7. ASSUME sent'[c] = sent[c]
        PROVE  \A f : Sent(c, f)' => Sent(c, f)
    BY <1>7 DEF Sent
  <1> USE DEF clientVars, protoVars, mainVars, captureVars, serverVars
  <1>8. CASE Start \/ Assign \/ Check \/ Read \/ StartWrite \/ UNCHANGED vars
    BY <1>3, <1>5, <1>7, <1>8 DEF Start, Assign, Check, Read, StartWrite, vars
  <1>9. ASSUME NEW d \in Conns, Advance(d) \/ Release(d)
        PROVE  Asking(c, e)'
    BY <1>3, <1>5, <1>7, <1>9 DEF Advance, Release
  <1>10. CASE ReadNext
    BY <1>3, <1>6, <1>7, <1>10 DEF ReadNext
  <1>11. ASSUME NEW d \in Conns, Error(d)
         PROVE  Asking(c, e)'
    BY <1>3, <1>6, <1>7, <1>11 DEF Error, Lose
  <1>12. ASSUME NEW d \in Conns, NEW f \in Frames, f # Answers[e],
                sent' = [sent EXCEPT ![d] = Append(@, f)]
         PROVE  Sent(c, Answers[e])' => Sent(c, Answers[e])
    BY <1>12, SendFacts
  <1>13. ASSUME NEW d \in Conns, Open(d)
         PROVE  Asking(c, e)'
    <2>1. "StartConnect" \in Frames /\ "StartConnect" # Answers[e]
      BY DEF Frames, Answers
    <2> QED BY <1>3, <1>5, <1>12, <1>13, <2>1 DEF Open, MainSends
  <1>14. ASSUME NEW d \in Conns, inbox[d] # <<>>, inbox' = [inbox EXCEPT ![d] = Tail(@)]
         PROVE  /\ Waits(c, e)' => Waits(c, e)
                /\ Once(inbox'[c], e)
                /\ c = d /\ Head(inbox[c]) = e => Waits(c, e) /\ ~Waits(c, e)'
    <2>1. CASE c = d
      <3>1. /\ inbox'[c] = Tail(inbox[c])
            /\ Waits(c, e) <=> Waits(c, e)' \/ e = Head(inbox[c])
        BY <1>14, <2>1, ReadFacts
      <3>2. /\ Once(Tail(inbox[c]), e)
            /\ Head(inbox[c]) = e => e \notin ToSet(Tail(inbox[c]))
        BY <1>0, <1>1, <1>14, <2>1, OnceFacts
      <3> QED BY <3>1, <3>2 DEF Waits
    <2>2. CASE c # d
      BY <1>1, <1>14, <2>2, ReadFacts
    <2> QED BY <2>1, <2>2
  <1>15. ASSUME NEW d \in Conns, Closed(d)
         PROVE  Asking(c, e)'
    <2>1. "Close" \in Frames /\ "Close" # Answers[e]
      BY DEF Frames, Answers
    <2>2. Sent(c, Answers[e])' => Sent(c, Answers[e])
      BY <1>12, <1>15, <2>1 DEF Closed, MainSends
    <2>3. ~Handles(c, e)'
      BY <1>6, <1>15 DEF Closed, Lose
    <2>4. (Waits(c, e)' => Waits(c, e)) /\ Once(inbox'[c], e)
      BY <1>14, <1>15 DEF Closed
    <2> QED BY <1>1, <1>2, <2>2, <2>3, <2>4
  <1>16. ASSUME NEW d \in Conns, Parse(d)
         PROVE  Asking(c, e)'
    <2>1. /\ inbox[d] # <<>> /\ inbox' = [inbox EXCEPT ![d] = Tail(@)] /\ sent' = sent
          /\ handling' = [event |-> Head(inbox[d]), conn |-> d] /\ mainPc = "poll"
      BY <1>16 DEF Parse, Polling
    <2>2. Handles(c, e)' <=> c = d /\ Head(inbox[c]) = e
      BY <2>1 DEF Handles
    <2>3. /\ Waits(c, e)' => Waits(c, e)
          /\ Once(inbox'[c], e)
          /\ Handles(c, e)' => Waits(c, e) /\ ~Waits(c, e)'
      BY <1>14, <2>1, <2>2
    <2> QED BY <1>1, <1>2, <1>7, <2>1, <2>3
  <1>17. CASE Handle
    <2>1. /\ handling.conn \in Conns /\ inbox' = inbox /\ ~Handles(c, e)'
      BY <1>0, <1>17 DEF Handle, HandlingInv, TypeOK, Handles
    <2>2. CASE handling.event \notin DOMAIN Answers
      BY <1>3, <1>7, <1>17, <2>1, <2>2 DEF Handle
    <2>3. CASE handling.event \in DOMAIN Answers
      <3>1. sent' = [sent EXCEPT ![handling.conn] = Append(@, Answers[handling.event])]
        BY <1>17, <2>3 DEF Handle, MainSends
      <3>2. Answers[handling.event] \in Frames
        BY <2>3 DEF Answers, Frames
      <3>3. CASE handling.event = e /\ handling.conn = c
        <4>1. ~Waits(c, e)
          BY <1>1, <3>3 DEF Handles
        <4> QED BY <1>1, <2>1, <4>1 DEF Waits
      <3>4. CASE handling.event # e
        <4>1. Answers[handling.event] # Answers[e]
          BY <2>3, <3>4 DEF Answers
        <4>2. Sent(c, Answers[e])' => Sent(c, Answers[e])
          BY <1>12, <2>1, <3>1, <3>2, <4>1
        <4> QED BY <1>3, <2>1, <4>2
      <3>5. CASE handling.conn # c
        <4>1. sent'[c] = sent[c]
          BY <2>1, <3>1, <3>2, <3>5, SendFacts
        <4> QED BY <1>3, <1>7, <2>1, <4>1
      <3> QED BY <3>3, <3>4, <3>5
    <2> QED BY <2>2, <2>3
  <1>18. CASE SendChunk
    <2>1. CASE target \in freed \cup {NoConn}
      BY <1>3, <1>5, <1>7, <1>18, <2>1 DEF SendChunk
    <2>2. CASE target \notin freed \cup {NoConn}
      <3>1. target \in Conns /\ "TaskRequest" \in Frames /\ "TaskRequest" # Answers[e]
        BY <2>2 DEF TypeOK, Frames, Answers
      <3>2. sent' = [sent EXCEPT ![target] = Append(@, "TaskRequest")]
        BY <1>18, <2>2 DEF SendChunk
      <3>3. Sent(c, Answers[e])' => Sent(c, Answers[e])
        BY <1>12, <3>1, <3>2
      <3> QED BY <1>3, <1>5, <1>18, <3>3 DEF SendChunk
    <2> QED BY <2>1, <2>2
  <1>19. ASSUME NEW d \in Conns, NEW f \in Events, f # e \/ c # d, ServerSays(d, f),
                UNCHANGED <<sent, handling>>
         PROVE  Asking(c, e)'
    <2>1. CASE c = d
      <3>1. /\ inbox'[c] = Append(inbox[c], f)
            /\ Waits(c, e)' <=> Waits(c, e)
        BY <1>19, <2>1, SayFacts
      <3>2. Once(Append(inbox[c], f), e)
        BY <1>0, <1>1, <1>19, <2>1, OnceFacts
      <3> QED BY <1>1, <1>2, <1>5, <1>7, <1>19, <3>1, <3>2
    <2>2. CASE c # d
      BY <1>3, <1>5, <1>7, <1>19, <2>2, SayFacts
    <2> QED BY <2>1, <2>2
  <1>20. ASSUME Take(c), sent[c][taken[c] + 1] = Asked[e], ServerSays(c, e)
         PROVE  Asking(c, e)'
    <2>1. /\ ~ServerTook(c, Asked[e]) /\ ServerTook(c, Asked[e])' /\ ~Sent(c, Answers[e])
      BY <1>0, <1>20, TakenOnce
    <2>2. ~Waits(c, e) /\ ~Handles(c, e)
      BY <1>1, <2>1
    <2>3. inbox'[c] = Append(inbox[c], e)
      BY <1>0, <1>20, SayFacts
    <2>4. Once(inbox'[c], e)
      BY <1>0, <1>1, <2>2, <2>3, OnceFacts DEF Waits
    <2>5. ~Handles(c, e)' /\ ~Sent(c, Answers[e])'
      BY <1>5, <1>7, <1>20, <2>1, <2>2 DEF Take, serverUnchanged
    <2> QED BY <2>1, <2>4, <2>5
  <1>21. ASSUME NEW d \in Conns, Take(d)
         PROVE  Asking(c, e)'
    <2>1. sent' = sent /\ handling' = handling
      BY <1>21 DEF Take, serverUnchanged
    <2>2. \/ inbox' = inbox
          \/ /\ sent[d][taken[d] + 1] = "StartConnect"
             /\ ServerSays(d, "ConnectionStarted") \/ ServerSays(d, "ConnectionFailed")
          \/ /\ sent[d][taken[d] + 1] = "StartSession"
             /\ ServerSays(d, "SessionStarted") \/ ServerSays(d, "SessionFailed")
      BY <1>21 DEF Take
    <2>3. CASE inbox' = inbox
      BY <1>3, <1>5, <1>7, <2>1, <2>3
    <2>4. ASSUME NEW f \in Events, ServerSays(d, f),
                 f \in DOMAIN Asked => sent[d][taken[d] + 1] = Asked[f]
          PROVE  Asking(c, e)'
      <3>1. CASE f = e /\ c = d
        BY <1>0, <1>20, <1>21, <2>4, <3>1 DEF Asked
      <3>2. CASE f # e \/ c # d
        BY <1>19, <2>1, <2>4, <3>2
      <3> QED BY <3>1, <3>2
    <2>5. /\ {"ConnectionStarted", "ConnectionFailed", "SessionStarted", "SessionFailed"} \subseteq Events
          /\ Asked["ConnectionStarted"] = "StartConnect" /\ Asked["SessionStarted"] = "StartSession"
          /\ "ConnectionFailed" \notin DOMAIN Asked /\ "SessionFailed" \notin DOMAIN Asked
      BY DEF Events, Asked
    <2> QED BY <2>2, <2>3, <2>4, <2>5
  <1>22. ASSUME NEW d \in Conns, Finish(d) \/ Close(d)
         PROVE  Asking(c, e)'
    <2>1. {"SessionFinished", "Close"} \subseteq Events /\ e \notin {"SessionFinished", "Close"}
      BY <1>0 DEF Events
    <2> QED BY <1>19, <1>22, <2>1 DEF Finish, Close, serverUnchanged
  <1> QED
    BY <1>8, <1>9, <1>10, <1>11, <1>13, <1>15, <1>16, <1>17, <1>18, <1>21, <1>22
       DEF Next, MainStep, CaptureStep

----------------------------------------------------------------------------
(* The end of a session *)

\* SessionFinished follows SessionStarted in the inbox, and Main reads in order.
LEMMA EndStep ==
    /\ TypeOK /\ ChainInv /\ HandlingInv /\ WireInv /\ HandshakeInOrder /\ EndInv
    /\ [Next]_vars
    => EndInv'
  <1> DEFINE SS == "SessionStarted"
             SF == "SessionFinished"
             Took(c) == ServerTook(c, "StartSession")
             Ending(c) ==
                /\ server[c] = "session" => Took(c)
                /\ Waits(c, SF) => Took(c)
                /\ NotAfter(inbox[c], SS, SF)
                /\ stage[c] = "open" /\ phase[c] = "after" => Took(c) /\ ~Waits(c, SS)
  <1> SUFFICES ASSUME TypeOK, ChainInv, HandlingInv, WireInv, HandshakeInOrder, EndInv,
                      [Next]_vars, NEW c \in Conns
               PROVE  Ending(c)'
    BY DEF EndInv
  <1>0. /\ inbox \in [Conns -> Seq(Events)] /\ inbox[c] \in Seq(Events)
        /\ {SS, SF, "Close", "ConnectionStarted", "ConnectionFailed", "SessionFailed"} \subseteq Events
        /\ stage \in [Conns -> Stages] /\ phase \in [Conns -> Phases] /\ DOMAIN server = Conns
    BY DEF TypeOK, Events
  <1>1. Ending(c)
    BY DEF EndInv
  <1>2. Took(c) => Took(c)'
    BY Growth
  <1> HIDE DEF Took
  <1>3. ASSUME inbox'[c] = inbox[c], server'[c] = server[c],
               stage'[c] = "open" /\ phase'[c] = "after" => stage[c] = "open" /\ phase[c] = "after"
        PROVE  Ending(c)'
    BY <1>1, <1>2, <1>3 DEF Waits
  <1> USE DEF clientVars, protoVars, mainVars, captureVars, serverVars
  <1>4. CASE Start \/ ReadNext \/ Handle \/ CaptureStep \/ UNCHANGED vars
    BY <1>3, <1>4 DEF Start, ReadNext, Handle, CaptureStep, Check, Read, SendChunk, StartWrite, vars
  <1>5. CASE Assign
    BY <1>0, <1>3, <1>5 DEF Assign
  <1>6. ASSUME NEW d \in Conns, Advance(d) \/ Release(d)
        PROVE  Ending(c)'
    BY <1>0, <1>3, <1>6 DEF Advance, Release, NextStage
  <1>7. ASSUME NEW d \in Conns, Open(d)
        PROVE  Ending(c)'
    <2>1. CASE c = d
      <3>1. phase[c] = "before"
        BY <1>7, <2>1 DEF Open, WireInv
      <3> QED BY <1>3, <1>7, <3>1 DEF Open
    <2>2. CASE c # d
      BY <1>0, <1>3, <1>7, <2>2 DEF Open
    <2> QED BY <2>1, <2>2
  <1>8. ASSUME NEW d \in Conns, Lose(d)
        PROVE  stage'[c] = "open" => c # d /\ stage[c] = "open" /\ phase'[c] = phase[c]
    BY <1>0, <1>8 DEF Lose, StageAfterLoss
  <1>9. ASSUME NEW d \in Conns, Error(d)
        PROVE  Ending(c)'
    BY <1>3, <1>8, <1>9 DEF Error
  <1>10. ASSUME NEW d \in Conns, inbox[d] # <<>>, inbox' = [inbox EXCEPT ![d] = Tail(@)]
         PROVE  /\ \A e : Waits(c, e)' => Waits(c, e)
                /\ NotAfter(inbox'[c], SS, SF)
                /\ c = d /\ Head(inbox[c]) = SF => Waits(c, SF) /\ ~Waits(c, SS)'
    <2>1. CASE c = d
      <3>1. /\ inbox'[c] = Tail(inbox[c])
            /\ \A e : Waits(c, e) <=> Waits(c, e)' \/ e = Head(inbox[c])
        BY <1>10, <2>1, ReadFacts
      <3>2. /\ NotAfter(Tail(inbox[c]), SS, SF)
            /\ Head(inbox[c]) = SF => SS \notin ToSet(Tail(inbox[c]))
        BY <1>0, <1>1, <1>10, <2>1, NotAfterFacts
      <3> QED BY <3>1, <3>2 DEF Waits
    <2>2. CASE c # d
      BY <1>1, <1>10, <2>2, ReadFacts
    <2> QED BY <2>1, <2>2
  <1>11. ASSUME NEW d \in Conns, Closed(d)
         PROVE  Ending(c)'
    <2>1. /\ \A e : Waits(c, e)' => Waits(c, e)
          /\ NotAfter(inbox'[c], SS, SF)
      BY <1>10, <1>11 DEF Closed
    <2>2. stage'[c] = "open" => stage[c] = "open" /\ phase'[c] = phase[c]
      BY <1>8, <1>11 DEF Closed
    <2>3. server' = server
      BY <1>11 DEF Closed
    <2> QED BY <1>1, <1>2, <2>1, <2>2, <2>3
  <1>12. ASSUME NEW d \in Conns, Parse(d)
         PROVE  Ending(c)'
    <2>1. /\ inbox[d] # <<>> /\ inbox' = [inbox EXCEPT ![d] = Tail(@)]
          /\ server' = server /\ stage' = stage
      BY <1>12 DEF Parse
    <2>2. /\ \A e : Waits(c, e)' => Waits(c, e)
          /\ NotAfter(inbox'[c], SS, SF)
          /\ c = d /\ Head(inbox[c]) = SF => Waits(c, SF) /\ ~Waits(c, SS)'
      BY <1>10, <2>1
    <2>3. phase'[c] = "after" => phase[c] = "after" \/ (c = d /\ Head(inbox[c]) = SF)
      BY <1>0, <1>12 DEF Parse
    <2> QED BY <1>1, <1>2, <2>1, <2>2, <2>3
  <1>13. ASSUME NEW d \in Conns, NEW f \in Events, ServerSays(d, f), c # d,
                server'[c] = server[c], UNCHANGED <<stage, phase>>
         PROVE  Ending(c)'
    BY <1>3, <1>13, SayFacts
  <1>14. ASSUME NEW f \in Events, ServerSays(c, f), UNCHANGED <<stage, phase>>,
                server'[c] = "session" => Took(c)', f = SF => Took(c)',
                f = SS => ~Took(c)
         PROVE  Ending(c)'
    <2>1. /\ inbox'[c] = Append(inbox[c], f)
          /\ \A e : Waits(c, e)' <=> Waits(c, e) \/ e = f
      BY <1>14, SayFacts
    <2>2. f = SS => SF \notin ToSet(inbox[c])
      BY <1>1, <1>14 DEF Waits
    <2>3. NotAfter(inbox'[c], SS, SF)
      BY <1>0, <1>1, <2>1, <2>2, NotAfterFacts
    <2> QED BY <1>1, <1>2, <1>14, <2>1, <2>3
  <1>15. ASSUME NEW d \in Conns, Take(d)
         PROVE  Ending(c)'
    <2>1. UNCHANGED <<stage, phase>> /\ (c # d => server'[c] = server[c])
      BY <1>0, <1>15 DEF Take, serverUnchanged
    <2>2. \/ inbox' = inbox /\ server' = server
          \/ ServerSays(d, "ConnectionStarted") /\ server' = [server EXCEPT ![d] = "connected"]
          \/ ServerSays(d, "ConnectionFailed") /\ server' = [server EXCEPT ![d] = "refused"]
          \/ /\ sent[d][taken[d] + 1] = "StartSession"
             /\ ServerSays(d, "SessionStarted") /\ server' = [server EXCEPT ![d] = "session"]
          \/ ServerSays(d, "SessionFailed") /\ server' = [server EXCEPT ![d] = "refused"]
      BY <1>15 DEF Take
    <2>3. CASE c # d
      BY <1>0, <1>3, <1>13, <2>1, <2>2, <2>3
    <2>4. CASE c = d
      <3>1. CASE inbox' = inbox /\ server' = server
        BY <1>3, <2>1, <3>1
      <3>2. CASE ServerSays(c, "ConnectionStarted") /\ server' = [server EXCEPT ![c] = "connected"]
        BY <1>0, <1>14, <2>1, <3>2
      <3>3. CASE ServerSays(c, "ConnectionFailed") /\ server' = [server EXCEPT ![c] = "refused"]
        BY <1>0, <1>14, <2>1, <3>3
      <3>4. CASE /\ sent[c][taken[c] + 1] = "StartSession"
                 /\ ServerSays(c, "SessionStarted") /\ server' = [server EXCEPT ![c] = "session"]
        <4>1. ~Took(c) /\ Took(c)'
          BY <1>15, <2>4, <3>4, TakenOnce DEF Handshake, Took
        <4> QED BY <1>0, <1>14, <2>1, <3>4, <4>1
      <3>5. CASE ServerSays(c, "SessionFailed") /\ server' = [server EXCEPT ![c] = "refused"]
        BY <1>0, <1>14, <2>1, <3>5
      <3> QED BY <2>2, <2>4, <3>1, <3>2, <3>3, <3>4, <3>5
    <2> QED BY <2>3, <2>4
  <1>16. ASSUME NEW d \in Conns, Finish(d)
         PROVE  Ending(c)'
    <2>1. /\ UNCHANGED <<stage, phase>> /\ ServerSays(d, SF) /\ server[d] = "session"
          /\ server' = [server EXCEPT ![d] = "over"]
      BY <1>16 DEF Finish, serverUnchanged
    <2>2. CASE c # d
      BY <1>0, <1>13, <2>1, <2>2
    <2>3. CASE c = d
      BY <1>0, <1>1, <1>2, <1>14, <2>1, <2>3
    <2> QED BY <2>2, <2>3
  <1>17. ASSUME NEW d \in Conns, Close(d)
         PROVE  Ending(c)'
    <2>1. /\ UNCHANGED <<stage, phase>> /\ ServerSays(d, "Close")
          /\ server' = [server EXCEPT ![d] = "closed"]
      BY <1>17 DEF Close, serverUnchanged
    <2>2. CASE c # d
      BY <1>0, <1>13, <2>1, <2>2
    <2>3. CASE c = d
      BY <1>0, <1>14, <2>1, <2>3
    <2> QED BY <2>2, <2>3
  <1> QED
    BY <1>4, <1>5, <1>6, <1>7, <1>9, <1>11, <1>12, <1>15, <1>16, <1>17 DEF Next, MainStep

----------------------------------------------------------------------------
(* is_ready *)

\* is_ready is set by SessionStarted of the current connection, and cleared by
\* whatever ends the session or the connection.
LEMMA ReadyStep ==
    /\ TypeOK /\ ChainInv /\ HandlingInv /\ WireInv /\ AnswerInv /\ ReadyInv /\ [Next]_vars
    => ReadyInv'
  <1> SUFFICES ASSUME TypeOK, ChainInv, HandlingInv, WireInv, AnswerInv, ReadyInv, [Next]_vars
               PROVE  ReadyInv'
    OBVIOUS
  <1> DEFINE Took(c) == ServerTook(c, "StartSession")
             InSession == /\ connection \in Conns /\ stage[connection] = "open"
                          /\ Took(connection) /\ phase[connection] = "in"
             Ready == (isReady => InSession) /\ (handling.event = "SessionStarted" => isReady)
  <1>0. /\ connection \in Conns \cup {NoConn} /\ NoConn \notin Conns /\ isReady \in BOOLEAN
        /\ stage \in [Conns -> Stages] /\ phase \in [Conns -> Phases]
        /\ connection' \in Conns \cup {NoConn}
    <2>1. TypeOK'
      BY TypeStep
    <2> QED BY <2>1 DEF TypeOK, Conns, NoConn
  <1>1. Ready
    BY <1>0 DEF ReadyInv, ReadyMeansSession
  <1> SUFFICES Ready'
    BY <1>0 DEF ReadyInv, ReadyMeansSession
  <1>2. \A c \in Conns : Took(c) => Took(c)'
    BY Growth
  <1> HIDE DEF Took
  <1>3. ASSUME UNCHANGED <<connection, isReady, stage, phase>>,
               handling'.event = "SessionStarted" => handling.event = "SessionStarted"
        PROVE  Ready'
    BY <1>1, <1>2, <1>3
  <1>4. ASSUME isReady => stage[connection] # "open" \/ mainPc = "assign",
               mainPc # "handle", UNCHANGED <<isReady, handling>>
        PROVE  Ready'
    <2>1. ~isReady
      BY <1>1, <1>4 DEF ChainInv, Live
    <2>2. handling.event = "none"
      BY <1>4 DEF HandlingInv
    <2> QED BY <1>4, <2>1, <2>2
  <1>5. ASSUME isReady' = FALSE, handling' = NoEvent
        PROVE  Ready'
    BY <1>5 DEF NoEvent
  <1> USE DEF clientVars, protoVars, mainVars, captureVars, serverVars
  <1>6. CASE Start \/ CaptureStep \/ UNCHANGED vars
    BY <1>3, <1>6 DEF Start, CaptureStep, Check, Read, SendChunk, StartWrite, vars
  <1>7. CASE Assign
    BY <1>4, <1>7 DEF Assign
  <1>8. ASSUME NEW c \in Conns, Advance(c) \/ Open(c)
        PROVE  Ready'
    <2>1. stage[c] \notin {"none", "dead", "open"} /\ mainPc = "poll" /\ UNCHANGED <<isReady, handling>>
      BY <1>8 DEF Advance, Open, NextStage, Polling
    <2>2. c = connection
      BY <2>1 DEF ChainInv, Live
    <2> QED BY <1>4, <2>1, <2>2
  <1>9. ASSUME NEW c \in Conns, Error(c) \/ Closed(c)
        PROVE  Ready'
    BY <1>5, <1>9 DEF Error, Closed, Lose, ReadyAfterLoss
  <1>10. ASSUME NEW c \in Conns, Parse(c)
         PROVE  Ready'
    <2> DEFINE e == Head(inbox[c])
    <2>1. /\ stage[c] = "open" /\ inbox[c] # <<>> /\ UNCHANGED <<connection, stage>>
          /\ isReady' = CASE e = "SessionStarted" -> TRUE
                          [] e = "SessionFinished" -> FALSE
                          [] OTHER -> isReady
          /\ phase' = [phase EXCEPT ![c] = CASE e = "SessionStarted" -> "in"
                                             [] e = "SessionFinished" -> "after"
                                             [] OTHER -> @]
          /\ handling' = [event |-> e, conn |-> c]
      BY <1>10 DEF Parse
    <2>2. c = connection
      BY <2>1 DEF ChainInv, Live
    <2> HIDE DEF e
    <2>3. CASE e = "SessionStarted"
      <3>1. Waits(c, "SessionStarted")
        <4>1. inbox[c] \in Seq(Events)
          BY DEF TypeOK
        <4> QED BY <2>1, <2>3, <4>1, HeadTailToSet DEF Waits, e
      <3>2. Took(c)
        BY <3>1 DEF AnswerInv, Answers, Asked, Took
      <3>3. isReady' /\ phase'[c] = "in"
        BY <1>0, <2>1, <2>3
      <3> QED BY <1>2, <2>1, <2>2, <3>2, <3>3
    <2>4. CASE e = "SessionFinished"
      BY <2>1, <2>4
    <2>5. CASE e \notin {"SessionStarted", "SessionFinished"}
      <3>1. isReady' = isReady /\ phase' = phase
        BY <1>0, <2>1, <2>5
      <3> QED BY <1>1, <1>2, <2>1, <2>5, <3>1
    <2> QED BY <2>3, <2>4, <2>5
  <1>11. CASE Handle
    <2>1. isReady' = isReady
      BY <1>0, <1>1, <1>11 DEF Handle
    <2>2. handling'.event = "none"
      BY <1>11 DEF Handle, TypeOK
    <2> QED BY <1>3, <1>11, <2>1, <2>2 DEF Handle
  <1>12. CASE ReadNext
    BY <1>3, <1>12 DEF ReadNext, NoEvent
  <1>13. ASSUME NEW c \in Conns, Release(c) \/ Take(c) \/ Finish(c) \/ Close(c)
         PROVE  Ready'
    BY <1>3, <1>13 DEF Release, Take, Finish, Close, serverUnchanged
  <1> QED
    BY <1>6, <1>7, <1>8, <1>9, <1>10, <1>11, <1>12, <1>13 DEF Next, MainStep

----------------------------------------------------------------------------
(* Stale chunks *)

\* Main sees a session begin and end, never the other way round.
LEMMA PhaseStep ==
    /\ TypeOK /\ EndInv /\ [Next]_vars
    => \A c \in Conns : /\ phase[c] = "after" => phase'[c] = "after"
                        /\ phase[c] # "before" => phase'[c] # "before"
  <1> SUFFICES ASSUME TypeOK, EndInv, [Next]_vars, NEW c \in Conns
               PROVE  /\ phase[c] = "after" => phase'[c] = "after"
                      /\ phase[c] # "before" => phase'[c] # "before"
    OBVIOUS
  <1>0. phase \in [Conns -> Phases] /\ inbox \in [Conns -> Seq(Events)]
    BY DEF TypeOK
  <1> USE DEF clientVars, protoVars, mainVars, captureVars, serverVars, serverUnchanged
  <1>1. CASE UNCHANGED phase
    BY <1>1
  <1>2. ASSUME NEW d \in Conns, Lose(d)
        PROVE  /\ phase[c] = "after" => phase'[c] = "after"
               /\ phase[c] # "before" => phase'[c] # "before"
    BY <1>0, <1>2 DEF Lose
  <1>3. ASSUME NEW d \in Conns, Parse(d)
        PROVE  /\ phase[c] = "after" => phase'[c] = "after"
               /\ phase[c] # "before" => phase'[c] # "before"
    <2>1. c # d => phase'[c] = phase[c]
      BY <1>0, <1>3 DEF Parse
    <2>2. /\ stage[d] = "open" /\ inbox[d] # <<>>
          /\ phase'[d] \in {"in", "after", phase[d]}
          /\ phase'[d] = "in" => Head(inbox[d]) = "SessionStarted" \/ phase[d] = "in"
      BY <1>0, <1>3 DEF Parse
    <2>3. Head(inbox[d]) \in ToSet(inbox[d])
      BY <1>0, <2>2, HeadTailToSet
    <2>4. phase[d] = "after" => phase'[d] # "in"
      BY <2>2, <2>3 DEF EndInv, Waits
    <2> QED BY <2>1, <2>2, <2>4
  <1>4. CASE UNCHANGED vars \/ Start \/ Assign \/ Handle \/ ReadNext \/ CaptureStep
    BY <1>1, <1>4 DEF vars, Start, Assign, Handle, ReadNext, CaptureStep, Check, Read,
                      SendChunk, StartWrite
  <1>5. ASSUME NEW d \in Conns,
               Advance(d) \/ Open(d) \/ Release(d) \/ Take(d) \/ Finish(d) \/ Close(d)
        PROVE  UNCHANGED phase
    BY <1>5 DEF Advance, Open, Release, Take, Finish, Close
  <1>6. ASSUME NEW d \in Conns, Error(d) \/ Closed(d)
        PROVE  Lose(d)
    BY <1>6 DEF Error, Closed
  <1> QED BY <1>1, <1>2, <1>3, <1>4, <1>5, <1>6 DEF Next, MainStep

\* A chunk that passes the test of is_ready aims at a session that has begun and not
\* ended: whatever boundary it misses, no earlier chunk has missed.
LEMMA StaleStep ==
    TypeOK /\ ChainInv /\ EndInv /\ ReadyInv /\ StaleInv /\ [Next]_vars => StaleInv'
  <1> SUFFICES ASSUME TypeOK, ChainInv, EndInv, ReadyInv, StaleInv, [Next]_vars
               PROVE  StaleInv'
    OBVIOUS
  <1> DEFINE Building == capturePc \in {"build", "send"}
  <1>0. /\ connection \in Conns \cup {NoConn} /\ target \in Conns \cup {NoConn}
        /\ phase \in [Conns -> Phases] /\ stale \in Seq(Conns \X Phases)
        /\ Conns \subseteq Nat /\ NoConn = 0
    BY DEF TypeOK, Conns, NoConn
  <1>1. \A x \in ToSet(stale) : x[1] \in Conns /\ x[2] \in Phases
    BY <1>0, LenProperties DEF ToSet
  <1>2. \A c \in Conns : /\ phase[c] = "after" => phase'[c] = "after"
                         /\ phase[c] # "before" => phase'[c] # "before"
    BY PhaseStep
  <1>3. ASSUME UNCHANGED <<capturePc, target, stale>>, connection' \in Nat,
               connection <= connection'
        PROVE  StaleInv'
    <2>1. OneStaleChunk' /\ target' <= connection'
      BY <1>0, <1>3 DEF StaleInv, OneStaleChunk
    <2>2. ASSUME NEW x \in ToSet(stale)
          PROVE  Old(x)' /\ (Building' => Behind(x)')
      <3>1. x[1] \in Conns /\ x[1] \in Nat /\ Old(x) /\ (Building => Behind(x))
        BY <1>0, <1>1, <2>2 DEF StaleInv
      <3>2. Old(x)'
        BY <1>0, <1>2, <1>3, <3>1 DEF Old
      <3>3. ASSUME Building
            PROVE  Behind(x)'
        <4>1. Aim \in Nat /\ Aim' \in Nat /\ Aim <= Aim'
          BY <1>0, <1>3 DEF Aim
        <4>2. CASE x[1] < Aim'
          BY <4>2 DEF Behind
        <4>3. CASE ~(x[1] < Aim')
          <5>1. x[1] = Aim' /\ x[1] = Aim /\ x[2] = "before" /\ phase[x[1]] # "before"
            BY <3>1, <3>3, <4>1, <4>3 DEF Behind
          <5> QED BY <1>2, <3>1, <5>1 DEF Behind
        <4> QED BY <4>2, <4>3
      <3> QED BY <1>3, <3>2, <3>3
    <2> QED BY <1>3, <2>1, <2>2 DEF StaleInv
  <1>4. ASSUME ~Building', UNCHANGED <<connection, phase, stale>>, target' \in {NoConn, target}
        PROVE  StaleInv'
    BY <1>0, <1>4 DEF StaleInv, OneStaleChunk, Old
  <1> USE DEF clientVars, protoVars, mainVars, captureVars, serverVars, serverUnchanged
  <1>5. CASE Assign
    BY <1>0, <1>3, <1>5 DEF Assign
  <1>6. CASE UNCHANGED vars \/ Start \/ Handle \/ ReadNext
    BY <1>0, <1>3, <1>6 DEF vars, Start, Handle, ReadNext
  <1>7. ASSUME NEW c \in Conns,
               \/ Advance(c) \/ Open(c) \/ Closed(c) \/ Parse(c) \/ Error(c)
               \/ Release(c) \/ Take(c) \/ Finish(c) \/ Close(c)
        PROVE  StaleInv'
    <2>1. UNCHANGED <<capturePc, target, stale, connection>>
      BY <1>7 DEF Advance, Open, Closed, Parse, Error, Release, Take, Finish, Close
    <2> QED BY <1>0, <1>3, <2>1
  <1>8. CASE Check
    <2>1. /\ UNCHANGED <<connection, phase, stale, target>> /\ capturePc' = "build"
          /\ phase[connection] = "in"
      BY <1>8 DEF Check, ReadyInv, ReadyMeansSession
    <2>2. ASSUME NEW x \in ToSet(stale)
          PROVE  Old(x)' /\ Behind(x)'
      <3>1. x[1] \in Conns /\ x[2] \in Phases /\ Old(x) /\ Aim' = connection
        BY <1>1, <2>1, <2>2 DEF StaleInv, Aim
      <3>2. Old(x)'
        BY <2>1, <3>1 DEF Old
      <3>3. CASE x[1] = connection
        <4>1. x[2] = "before"
          BY <2>1, <3>1, <3>3 DEF Old, Phases
        <4> QED BY <2>1, <3>1, <3>2, <3>3, <4>1 DEF Behind
      <3>4. CASE x[1] # connection
        <4>0. x[1] \in Nat /\ connection \in Nat /\ x[1] <= connection
          <5>1. x[1] <= connection
            BY <3>1 DEF Old
          <5>2. connection \in Nat
            BY <1>0
          <5>3. x[1] \in Nat
            BY <1>0, <3>1
          <5> QED BY <5>1, <5>2, <5>3
        <4>1. x[1] < connection
          BY <3>4, <4>0
        <4> QED BY <3>1, <3>2, <4>1 DEF Behind
      <3> QED BY <3>3, <3>4
    <2> QED BY <2>1, <2>2 DEF StaleInv, OneStaleChunk
  <1>9. CASE Read
    <2>1. /\ UNCHANGED <<connection, phase, stale>> /\ target' = connection
          /\ capturePc = "build" /\ capturePc' = "send"
      BY <1>9 DEF Read
    <2>2. \A x \in ToSet(stale) : Old(x)' /\ Behind(x)'
      BY <2>1 DEF StaleInv, Old, Behind, Aim
    <2>3. OneStaleChunk'
      BY <2>1 DEF StaleInv, OneStaleChunk
    <2>4. connection' \in Nat /\ target' <= connection'
      BY <1>0, <2>1
    <2> QED BY <2>1, <2>2, <2>3, <2>4 DEF StaleInv
  <1>10. CASE SendChunk
    <2>1. /\ UNCHANGED <<connection, phase>> /\ capturePc = "send"
          /\ ~Building' /\ target' \in {NoConn, target}
      BY <1>10 DEF SendChunk
    <2>2. CASE stale' = stale
      BY <1>4, <2>1, <2>2
    <2>3. CASE stale' # stale
      <3> DEFINE new == <<target, phase[target]>>
      <3>1. /\ target \in Conns /\ phase[target] # "in" /\ stale' = Append(stale, new)
        BY <1>0, <1>10, <2>3 DEF SendChunk
      <3>2. new \in Conns \X Phases
        BY <1>0, <3>1
      <3>3. ToSet(stale') = ToSet(stale) \cup {new}
        <4> HIDE DEF new
        <4>1. ToSet(Append(stale, new)) = ToSet(stale) \cup {new}
          BY <1>0, <3>2, AppendToSet
        <4> QED BY <3>1, <4>1
      <3>4. ASSUME NEW x \in ToSet(stale)
            PROVE  x # new
        <4>1. Behind(x) /\ Aim = target
          BY <2>1, <3>4 DEF StaleInv, Aim
        <4>2. x[1] < target \/ x[2] # phase[target]
          BY <4>1 DEF Behind
        <4>3. target \in Nat
          BY <1>0, <3>1
        <4>4. ~(target < target)
          BY <4>3
        <4>5. ASSUME x = new
              PROVE  FALSE
          <5>1. x[1] = target /\ x[2] = phase[target]
            BY <4>5
          <5> QED BY <4>2, <4>4, <5>1
        <4> QED BY <4>5
      <3>5. OneStaleChunk'
        <4>1. IsInjective(stale) /\ new \notin ToSet(stale)
          BY <3>4 DEF StaleInv, OneStaleChunk
        <4> HIDE DEF new
        <4>2. IsInjective(Append(stale, new))
          BY <1>0, <3>2, <4>1, InjectiveFacts
        <4> QED BY <3>1, <4>2 DEF OneStaleChunk
      <3>6. Old(new)
        BY <3>1 DEF StaleInv, Old
      <3>7. \A x \in ToSet(stale') : Old(x)'
        BY <2>1, <3>3, <3>6 DEF StaleInv, Old
      <3>8. target' <= connection'
        BY <1>0, <2>1 DEF StaleInv
      <3> QED BY <2>1, <3>5, <3>7, <3>8 DEF StaleInv
    <2> QED BY <2>2, <2>3
  <1>11. CASE StartWrite
    BY <1>4, <1>11 DEF StartWrite
  <1> QED BY <1>5, <1>6, <1>7, <1>8, <1>9, <1>10, <1>11 DEF Next, MainStep, CaptureStep

----------------------------------------------------------------------------
(* Nobody waits for what nobody does *)

\* b occurs in s after a only.
OnlyAfter(s, b, a) == \A j \in DOMAIN s : s[j] = b => \E i \in DOMAIN s : i < j /\ s[i] = a

\* Only a client that does not reconnect is without a connection while it polls.
LinkInv ==
    autoReconnect /\ mainPc \notin {"start", "assign"} => connection # NoConn /\ Live(connection)

\* A session Main is in is on an open connection, lets the voice through and is
\* greeted, or is about to be.
VoiceInv ==
    \A c \in Conns : phase[c] = "in" =>
        /\ stage[c] = "open" /\ isReady
        /\ Sent(c, "SayHello") \/ Handles(c, "SessionStarted")

\* How far the server is tells where the next step of the handshake is.
TurnInv ==
    \A c \in Conns :
        /\ stage[c] \notin {"open", "dead"} => server[c] = "new"
        /\ stage[c] = "open" =>
              /\ server[c] = "new" => Underway(c, "StartConnect")
              /\ server[c] = "connected" =>
                    \/ Underway(c, "StartSession")
                    \/ Waits(c, "ConnectionStarted") \/ Handles(c, "ConnectionStarted")
              /\ server[c] \in {"session", "over"} /\ phase[c] = "before" =>
                    Waits(c, "SessionStarted")
              /\ server[c] = "closed" => Waits(c, "Close")

\* Main reads of the end of a session after it has read of its beginning.
FinishInv ==
    \A c \in Conns : stage[c] = "open" /\ phase[c] = "before" =>
        OnlyAfter(inbox[c], "SessionFinished", "SessionStarted")

OwedInv == LinkInv /\ VoiceInv /\ TurnInv /\ FinishInv

\* What comes only after another still does when it is appended to a sequence that
\* has the other, and when a head that is not the other is taken.
LEMMA OnlyAfterFacts ==
    ASSUME NEW S, NEW s \in Seq(S), NEW x \in S, NEW a, NEW b, OnlyAfter(s, b, a)
    PROVE  /\ (x = b => a \in ToSet(s)) => OnlyAfter(Append(s, x), b, a)
           /\ s # <<>> => (Head(s) # a => OnlyAfter(Tail(s), b, a)) /\ Head(s) # b
  <1>0. Len(s) \in Nat /\ DOMAIN s = 1 .. Len(s)
    BY LenProperties
  <1>1. ASSUME x = b => a \in ToSet(s)
        PROVE  OnlyAfter(Append(s, x), b, a)
    <2>1. /\ DOMAIN Append(s, x) = 1 .. Len(s) + 1
          /\ Append(s, x)[Len(s) + 1] = x
          /\ \A i \in 1 .. Len(s) : Append(s, x)[i] = s[i]
      BY AppendProperties
    <2>2. ASSUME NEW j \in 1 .. Len(s) + 1, Append(s, x)[j] = b
          PROVE  \E i \in 1 .. Len(s) : i < j /\ s[i] = a
      <3>1. CASE j \in 1 .. Len(s)
        <4>1. s[j] = b
          BY <2>1, <2>2, <3>1
        <4> QED BY <1>0, <3>1, <4>1 DEF OnlyAfter
      <3>2. CASE j = Len(s) + 1
        <4>1. PICK i \in 1 .. Len(s) : s[i] = a
          BY <1>0, <1>1, <2>1, <2>2, <3>2 DEF ToSet
        <4> QED BY <1>0, <3>2, <4>1
      <3> QED BY <1>0, <3>1, <3>2
    <2>3. ASSUME NEW j \in 1 .. Len(s) + 1, Append(s, x)[j] = b
          PROVE  \E i \in 1 .. Len(s) + 1 : i < j /\ Append(s, x)[i] = a
      <3>1. PICK i \in 1 .. Len(s) : i < j /\ s[i] = a
        BY <2>2, <2>3
      <3>2. i \in 1 .. Len(s) + 1 /\ Append(s, x)[i] = a
        BY <1>0, <2>1, <3>1
      <3> QED BY <3>1, <3>2
    <2> QED BY <2>1, <2>3 DEF OnlyAfter
  <1>2. ASSUME s # <<>>
        PROVE  (Head(s) # a => OnlyAfter(Tail(s), b, a)) /\ Head(s) # b
    <2>1. /\ Len(Tail(s)) = Len(s) - 1 /\ DOMAIN Tail(s) = 1 .. Len(s) - 1
          /\ \A i \in 1 .. Len(s) - 1 : Tail(s)[i] = s[i + 1]
          /\ Head(s) = s[1] /\ Len(s) >= 1
      BY <1>0, <1>2, HeadTailProperties
    <2>2. \A i \in 1 .. Len(s) : ~(i < 1)
      BY <1>0
    <2>3. 1 \in DOMAIN s
      BY <1>0, <2>1
    <2>4. Head(s) # b
      BY <1>0, <2>1, <2>2, <2>3 DEF OnlyAfter
    <2>5. ASSUME Head(s) # a, NEW j \in 1 .. Len(s) - 1, Tail(s)[j] = b
          PROVE  \E i \in 1 .. Len(s) - 1 : i < j /\ Tail(s)[i] = a
      <3>1. j + 1 \in DOMAIN s /\ s[j + 1] = b
        BY <1>0, <2>1, <2>5
      <3>2. PICK i \in 1 .. Len(s) : i < j + 1 /\ s[i] = a
        BY <1>0, <3>1 DEF OnlyAfter
      <3>3. i # 1
        BY <2>1, <2>5, <3>2
      <3>4. i - 1 \in 1 .. Len(s) - 1 /\ i - 1 < j /\ (i - 1) + 1 = i
        BY <1>0, <3>2, <3>3
      <3>5. Tail(s)[i - 1] = a
        BY <2>1, <3>2, <3>4
      <3> QED BY <3>4, <3>5
    <2>6. Head(s) # a => OnlyAfter(Tail(s), b, a)
      BY <2>1, <2>5 DEF OnlyAfter
    <2> QED BY <2>4, <2>6
  <1> QED BY <1>1, <1>2

\* Nothing is owed before Main has started.
LEMMA InitOwed == Init => OwedInv
  <1> SUFFICES ASSUME Init PROVE OwedInv
    OBVIOUS
  <1>1. \A c \in Conns : stage[c] = "none" /\ server[c] = "new" /\ phase[c] = "before"
    BY DEF Init
  <1>2. mainPc = "start"
    BY DEF Init
  <1> QED BY <1>1, <1>2 DEF OwedInv, LinkInv, VoiceInv, TurnInv, FinishInv

\* A loss is followed by connect() when the client reconnects, and by nothing else.
LEMMA LinkStep == TypeOK /\ ChainInv /\ LinkInv /\ [Next]_vars => LinkInv'
  <1> SUFFICES ASSUME TypeOK, ChainInv, LinkInv, [Next]_vars
               PROVE  LinkInv'
    OBVIOUS
  <1> USE DEF LinkInv, Live, clientVars, protoVars, mainVars, captureVars, serverVars
  <1>0. /\ connection \in Conns \cup {NoConn} /\ stage \in [Conns -> Stages]
        /\ Conns = 1 .. MaxConn /\ NoConn = 0 /\ autoReconnect \in BOOLEAN
    BY DEF TypeOK, Conns, NoConn
  <1>1. ASSUME UNCHANGED <<autoReconnect, connection, stage>>,
               mainPc' \in {"start", "assign"} \/ mainPc \notin {"start", "assign"}
        PROVE  LinkInv'
    BY <1>1
  <1>2. CASE Start \/ Handle \/ ReadNext \/ CaptureStep \/ UNCHANGED vars
    BY <1>1, <1>2 DEF Start, Handle, ReadNext, CaptureStep, Check, Read, SendChunk, StartWrite, vars
  <1>3. CASE Assign
    <2>1. /\ connection' = connection + 1 /\ connection + 1 \in Conns
          /\ stage' = [stage EXCEPT ![connection + 1] = "resolve"]
      BY <1>0, <1>3 DEF Assign, ChainInv
    <2> QED BY <1>0, <2>1
  <1>4. ASSUME NEW c \in Conns, Advance(c) \/ Open(c)
        PROVE  LinkInv'
    <2>1. /\ mainPc = "poll" /\ UNCHANGED <<autoReconnect, connection, mainPc>>
          /\ \E new \in {"connect", "handshake", "upgrade", "open"} : stage' = [stage EXCEPT ![c] = new]
      BY <1>4 DEF Advance, Open, NextStage, Polling
    <2> QED BY <1>0, <2>1
  <1>5. ASSUME NEW c \in Conns, Error(c) \/ Closed(c)
        PROVE  LinkInv'
    BY <1>5 DEF Error, Closed, Lose, Reconnects
  <1>6. ASSUME NEW c \in Conns, Parse(c) \/ Release(c) \/ Take(c) \/ Finish(c) \/ Close(c)
        PROVE  LinkInv'
    BY <1>1, <1>6 DEF Parse, Release, Take, Finish, Close, serverUnchanged, Polling
  <1> QED BY <1>2, <1>3, <1>4, <1>5, <1>6 DEF Next, MainStep

\* Only one connection is open, so what clears is_ready ends the session it stood
\* for; Main greets a session when it handles SessionStarted.
LEMMA VoiceStep ==
    /\ TypeOK /\ ChainInv /\ HandlingInv /\ WireInv /\ ReadyInv /\ VoiceInv /\ [Next]_vars
    => VoiceInv'
  <1> DEFINE Greeted(c) == Sent(c, "SayHello") \/ Handles(c, "SessionStarted")
  <1> SUFFICES ASSUME TypeOK, ChainInv, HandlingInv, WireInv, ReadyInv, VoiceInv, [Next]_vars,
                      NEW c \in Conns, phase'[c] = "in"
               PROVE  stage'[c] = "open" /\ isReady' /\ Greeted(c)'
    BY DEF VoiceInv
  <1>0. /\ stage \in [Conns -> Stages] /\ phase \in [Conns -> Phases]
        /\ isReady \in BOOLEAN /\ Len(sent[c]) \in Nat /\ sent \in [Conns -> Seq(Frames)]
    <2>1. sent[c] \in Seq(Frames)
      BY DEF TypeOK
    <2>2. Len(sent[c]) \in Nat
      BY <2>1, LenProperties
    <2> QED BY <2>2 DEF TypeOK
  <1>1. phase[c] = "in" => stage[c] = "open" /\ isReady /\ Greeted(c)
    BY DEF VoiceInv
  <1>2. Sent(c, "SayHello") => Sent(c, "SayHello")'
    <2>1. /\ \A i \in 1 .. Len(sent[c]) : sent'[c][i] = sent[c][i]
          /\ Len(sent[c]) <= Len(sent'[c])
      BY Growth
    <2>2. sent[c] \in Seq(Frames) /\ sent'[c] \in Seq(Frames)
      <3>1. TypeOK'
        BY TypeStep
      <3> QED BY <3>1 DEF TypeOK
    <2>3. /\ DOMAIN sent[c] = 1 .. Len(sent[c]) /\ DOMAIN sent'[c] = 1 .. Len(sent'[c])
          /\ Len(sent'[c]) \in Nat
      BY <2>2, LenProperties
    <2>4. ASSUME NEW i \in DOMAIN sent[c], sent[c][i] = "SayHello"
          PROVE  i \in DOMAIN sent'[c] /\ sent'[c][i] = "SayHello"
      BY <1>0, <2>1, <2>3, <2>4
    <2> QED BY <2>4 DEF Sent, ToSet
  <1>3. ASSUME phase[c] = "in", stage'[c] = stage[c], isReady' = isReady,
               Handles(c, "SessionStarted") => Handles(c, "SessionStarted")'
        PROVE  stage'[c] = "open" /\ isReady' /\ Greeted(c)'
    BY <1>1, <1>2, <1>3
  <1>4. mainPc # "handle" => ~Handles(c, "SessionStarted")
    BY DEF HandlingInv, Handles
  <1> USE DEF clientVars, protoVars, mainVars, captureVars, serverVars
  <1>5. CASE Start \/ ReadNext \/ CaptureStep \/ UNCHANGED vars
    <2>1. UNCHANGED <<phase, stage, isReady>> /\ (UNCHANGED handling \/ mainPc # "handle")
      BY <1>5 DEF Start, ReadNext, CaptureStep, Check, Read, SendChunk, StartWrite, vars
    <2> QED BY <1>3, <1>4, <2>1 DEF Handles
  <1>6. CASE Assign
    <2>1. connection + 1 \in Conns => stage[connection + 1] = "none"
      <3>1. connection + 1 > connection
        BY DEF TypeOK, Conns, NoConn
      <3> QED BY <3>1 DEF ChainInv
    <2>2. phase[c] = "in" /\ stage[c] = "open"
      BY <1>1, <1>6 DEF Assign
    <2>3. stage'[c] = stage[c]
      BY <1>0, <1>6, <2>1, <2>2 DEF Assign
    <2> QED BY <1>3, <1>6, <2>2, <2>3 DEF Assign, Handles
  <1>7. ASSUME NEW d \in Conns, Advance(d) \/ Open(d)
        PROVE  stage'[c] = "open" /\ isReady' /\ Greeted(c)'
    <2>1. /\ stage[d] # "open" /\ UNCHANGED <<phase, isReady, handling>>
          /\ \A b \in Conns \ {d} : stage'[b] = stage[b]
      BY <1>0, <1>7 DEF Advance, Open, NextStage
    <2>2. phase[c] = "in" /\ c # d
      BY <1>1, <2>1
    <2> QED BY <1>3, <2>1, <2>2 DEF Handles
  <1>8. ASSUME NEW d \in Conns, Error(d) \/ Closed(d)
        PROVE  stage'[c] = "open" /\ isReady' /\ Greeted(c)'
    <2>1. phase' = [phase EXCEPT ![d] = "after"] /\ Live(d)
      BY <1>8 DEF Error, Closed, Lose, Live
    <2>2. c # d /\ phase[c] = "in"
      BY <1>0, <2>1
    <2>3. Live(c)
      BY <1>1, <2>2 DEF Live
    <2> QED BY <2>1, <2>2, <2>3 DEF ChainInv
  <1>9. ASSUME NEW d \in Conns, Parse(d)
        PROVE  stage'[c] = "open" /\ isReady' /\ Greeted(c)'
    <2> DEFINE e == Head(inbox[d])
    <2>1. /\ stage[d] = "open" /\ mainPc = "poll" /\ stage' = stage
          /\ isReady' = CASE e = "SessionStarted" -> TRUE
                          [] e = "SessionFinished" -> FALSE
                          [] OTHER -> isReady
          /\ phase' = [phase EXCEPT ![d] = CASE e = "SessionStarted" -> "in"
                                             [] e = "SessionFinished" -> "after"
                                             [] OTHER -> @]
          /\ handling' = [event |-> e, conn |-> d]
      BY <1>9 DEF Parse, Polling
    <2> HIDE DEF e
    <2>2. CASE c = d /\ e = "SessionStarted"
      BY <2>1, <2>2 DEF Handles
    <2>3. CASE c = d /\ e # "SessionStarted"
      <3>1. e # "SessionFinished" /\ phase[c] = "in"
        BY <1>0, <2>1, <2>3
      <3>2. isReady' = isReady
        BY <2>1, <2>3, <3>1
      <3> QED BY <1>3, <1>4, <2>1, <3>1, <3>2
    <2>4. CASE c # d
      <3>1. phase[c] = "in"
        BY <1>0, <2>1, <2>4
      <3>2. Live(c) /\ Live(d)
        BY <1>1, <2>1, <3>1 DEF Live
      <3> QED BY <2>4, <3>2 DEF ChainInv
    <2> QED BY <2>2, <2>3, <2>4
  <1>10. CASE Handle
    <2>1. /\ phase[c] = "in" /\ stage'[c] = stage[c] /\ isReady' = isReady
      BY <1>0, <1>10 DEF Handle, ReadyInv
    <2>2. CASE Handles(c, "SessionStarted")
      <3>1. sent' = [sent EXCEPT ![c] = Append(@, "SayHello")]
        BY <1>10, <2>2 DEF Handle, Handles, MainSends, Answers
      <3>2. Sent(c, "SayHello")'
        BY <3>1, SendFacts DEF Frames
      <3> QED BY <1>1, <2>1, <3>2
    <2>3. CASE ~Handles(c, "SessionStarted")
      BY <1>3, <2>1, <2>3
    <2> QED BY <2>2, <2>3
  <1>11. ASSUME NEW d \in Conns, Release(d) \/ Take(d) \/ Finish(d) \/ Close(d)
         PROVE  stage'[c] = "open" /\ isReady' /\ Greeted(c)'
    <2>1. UNCHANGED <<phase, stage, isReady, handling>>
      BY <1>11 DEF Release, Take, Finish, Close, serverUnchanged
    <2> QED BY <1>3, <2>1 DEF Handles
  <1> QED
    BY <1>5, <1>6, <1>7, <1>8, <1>9, <1>10, <1>11 DEF Next, MainStep

\* A frame stays on its way until the server takes it.
LEMMA UnderwayKept ==
    ASSUME TypeOK, ChainInv, WireInv, [Next]_vars, NEW c \in Conns, NEW f, Underway(c, f),
           \/ taken'[c] = taken[c]
           \/ taken'[c] = taken[c] + 1 /\ sent[c][taken[c] + 1] # f
    PROVE  Underway(c, f)'
  <1>0. taken[c] \in Nat /\ Len(sent[c]) \in Nat
    <2>1. taken[c] \in Nat /\ sent[c] \in Seq(Frames)
      BY DEF TypeOK
    <2> QED BY <2>1, LenProperties
  <1>1. /\ \A i \in 1 .. Len(sent[c]) : sent'[c][i] = sent[c][i]
        /\ Len(sent[c]) <= Len(sent'[c])
    BY Growth
  <1>2. Len(sent'[c]) \in Nat
    <2>1. sent'[c] \in Seq(Frames)
      BY TypeStep DEF TypeOK
    <2> QED BY <2>1, LenProperties
  <1>3. PICK i \in taken[c] + 1 .. Len(sent[c]) : sent[c][i] = f
    BY DEF Underway
  <1>4. i \in taken'[c] + 1 .. Len(sent'[c]) /\ i \in 1 .. Len(sent[c])
    BY <1>0, <1>1, <1>2, <1>3
  <1> QED BY <1>1, <1>3, <1>4 DEF Underway

\* A frame just sent is on its way.
LEMMA UnderwaySent ==
    ASSUME TypeOK, WireInv, NEW c \in Conns, NEW f \in Frames,
           sent' = [sent EXCEPT ![c] = Append(@, f)], taken' = taken
    PROVE  Underway(c, f)'
  <1>0. /\ sent \in [Conns -> Seq(Frames)] /\ sent[c] \in Seq(Frames) /\ Len(sent[c]) \in Nat
        /\ taken[c] \in Nat /\ taken[c] <= Len(sent[c])
    BY LenProperties DEF TypeOK, WireInv
  <1>1. sent'[c] = Append(sent[c], f)
    BY <1>0
  <1>2. Len(sent'[c]) = Len(sent[c]) + 1 /\ sent'[c][Len(sent[c]) + 1] = f
    BY <1>0, <1>1, AppendProperties
  <1>3. Len(sent[c]) + 1 \in taken'[c] + 1 .. Len(sent'[c])
    BY <1>0, <1>2
  <1> QED BY <1>2, <1>3 DEF Underway

\* Each turn of the handshake ends with the next one begun: what Main answers leaves
\* a frame on its way, and what the server takes an event.
LEMMA TurnStep ==
    /\ TypeOK /\ ChainInv /\ HandlingInv /\ WireInv /\ TurnInv /\ [Next]_vars
    => TurnInv'
  <1> DEFINE CS == "ConnectionStarted"
             SS == "SessionStarted"
             Fresh(c) == stage[c] \notin {"open", "dead"} => server[c] = "new"
             Asking(c) == server[c] = "new" => Underway(c, "StartConnect")
             Connected(c) == server[c] = "connected" =>
                                Underway(c, "StartSession") \/ Waits(c, CS) \/ Handles(c, CS)
             Begun(c) == server[c] \in {"session", "over"} /\ phase[c] = "before" => Waits(c, SS)
             Closing(c) == server[c] = "closed" => Waits(c, "Close")
             Turn(c) == Asking(c) /\ Connected(c) /\ Begun(c) /\ Closing(c)
  <1> SUFFICES ASSUME TypeOK, ChainInv, HandlingInv, WireInv, TurnInv, [Next]_vars,
                      NEW c \in Conns
               PROVE  Fresh(c)' /\ (stage'[c] = "open" => Turn(c)')
    BY DEF TurnInv
  <1>0. /\ stage \in [Conns -> Stages] /\ phase \in [Conns -> Phases]
        /\ inbox \in [Conns -> Seq(Events)] /\ taken \in [Conns -> Nat]
        /\ server \in [Conns -> {"new", "connected", "session", "over", "refused", "closed"}]
    BY DEF TypeOK
  <1>1. Fresh(c) /\ (stage[c] = "open" => Turn(c))
    BY DEF TurnInv
  <1>2. ASSUME taken'[c] = taken[c]
        PROVE  /\ Underway(c, "StartConnect") => Underway(c, "StartConnect")'
               /\ Underway(c, "StartSession") => Underway(c, "StartSession")'
    BY <1>2, UnderwayKept
  <1>3. ASSUME stage'[c] = "open" => stage[c] = "open",
               stage'[c] \notin {"open", "dead"} => stage[c] \notin {"open", "dead"},
               phase'[c] = "before" => phase[c] = "before",
               server'[c] = server[c], inbox'[c] = inbox[c], taken'[c] = taken[c],
               Handles(c, CS) => Handles(c, CS)'
        PROVE  Fresh(c)' /\ (stage'[c] = "open" => Turn(c)')
    <2>1. Fresh(c)'
      BY <1>1, <1>3
    <2>2. \A e : Waits(c, e)' <=> Waits(c, e)
      BY <1>3 DEF Waits
    <2>3. ASSUME stage'[c] = "open"
          PROVE  Turn(c)'
      <3>1. Asking(c)' /\ Connected(c)'
        BY <1>1, <1>2, <1>3, <2>2, <2>3
      <3>2. Begun(c)' /\ Closing(c)'
        BY <1>1, <1>3, <2>2, <2>3
      <3> QED BY <3>1, <3>2
    <2> QED BY <2>1, <2>3
  <1>4. mainPc # "handle" => ~Handles(c, CS)
    BY DEF HandlingInv, Handles
  <1>5. UNCHANGED handling => (Handles(c, CS) => Handles(c, CS)')
    BY DEF Handles
  <1> USE DEF clientVars, protoVars, mainVars, captureVars, serverVars
  <1>6. CASE Start \/ ReadNext \/ CaptureStep \/ UNCHANGED vars
    <2>1. /\ UNCHANGED <<stage, phase, server, inbox, taken>>
          /\ UNCHANGED handling \/ mainPc # "handle"
      BY <1>6 DEF Start, ReadNext, CaptureStep, Check, Read, SendChunk, StartWrite, vars
    <2> QED BY <1>3, <1>4, <1>5, <2>1
  <1>7. CASE Assign
    <2>1. connection + 1 \in Conns => stage[connection + 1] = "none"
      <3>1. connection + 1 > connection
        BY DEF TypeOK, Conns, NoConn
      <3> QED BY <3>1 DEF ChainInv
    <2>2. /\ stage'[c] = "open" => stage[c] = "open"
          /\ stage'[c] \notin {"open", "dead"} => stage[c] \notin {"open", "dead"}
      BY <1>0, <1>7, <2>1 DEF Assign
    <2>3. UNCHANGED <<phase, server, inbox, taken, handling>>
      BY <1>7 DEF Assign
    <2> QED BY <1>3, <1>5, <2>2, <2>3
  <1>8. ASSUME NEW d \in Conns, Advance(d) \/ Release(d)
        PROVE  Fresh(c)' /\ (stage'[c] = "open" => Turn(c)')
    <2>1. /\ stage'[c] = "open" => stage[c] = "open"
          /\ stage'[c] \notin {"open", "dead"} => stage[c] \notin {"open", "dead"}
      BY <1>0, <1>8 DEF Advance, Release, NextStage
    <2>2. UNCHANGED <<phase, server, inbox, taken, handling>>
      BY <1>8 DEF Advance, Release
    <2> QED BY <1>3, <1>5, <2>1, <2>2
  <1>9. ASSUME NEW d \in Conns, Open(d)
        PROVE  Fresh(c)' /\ (stage'[c] = "open" => Turn(c)')
    <2>1. /\ UNCHANGED <<phase, server, inbox, taken, handling>>
          /\ stage' = [stage EXCEPT ![d] = "open"] /\ stage[d] = "upgrade"
          /\ sent' = [sent EXCEPT ![d] = Append(@, "StartConnect")]
      BY <1>9 DEF Open, MainSends
    <2>2. CASE c = d
      <3>1. server'[c] = "new" /\ stage'[c] = "open"
        BY <1>0, <1>1, <2>1, <2>2
      <3>2. Underway(c, "StartConnect")'
        BY <2>1, <2>2, UnderwaySent DEF Frames
      <3> QED BY <3>1, <3>2
    <2>3. CASE c # d
      BY <1>0, <1>3, <1>5, <2>1, <2>3
    <2> QED BY <2>2, <2>3
  <1>10. ASSUME NEW d \in Conns, Error(d) \/ Closed(d)
         PROVE  Fresh(c)' /\ (stage'[c] = "open" => Turn(c)')
    <2>1. /\ stage' = [stage EXCEPT ![d] = "dead"] /\ mainPc = "poll"
          /\ UNCHANGED <<server, taken>>
      BY <1>10 DEF Error, Closed, Lose, StageAfterLoss, Polling
    <2>2. CASE c = d
      BY <1>0, <2>1, <2>2
    <2>3. CASE c # d
      <3>1. stage'[c] = stage[c] /\ phase'[c] = phase[c] /\ inbox'[c] = inbox[c]
        BY <1>0, <1>10, <2>1, <2>3 DEF Error, Closed, Lose
      <3> QED BY <1>3, <1>4, <2>1, <3>1
    <2> QED BY <2>2, <2>3
  <1>11. ASSUME NEW d \in Conns, Parse(d)
         PROVE  Fresh(c)' /\ (stage'[c] = "open" => Turn(c)')
    <2> DEFINE e == Head(inbox[d])
    <2>1. /\ UNCHANGED <<stage, server, taken>> /\ mainPc = "poll" /\ stage[d] = "open"
          /\ inbox[d] # <<>> /\ e # "Close" /\ inbox' = [inbox EXCEPT ![d] = Tail(@)]
          /\ phase' = [phase EXCEPT ![d] = CASE e = "SessionStarted" -> "in"
                                             [] e = "SessionFinished" -> "after"
                                             [] OTHER -> @]
          /\ handling' = [event |-> e, conn |-> d]
      BY <1>11 DEF Parse, Polling
    <2>2. CASE c # d
      BY <1>0, <1>3, <1>4, <2>1, <2>2
    <2>3. CASE c = d
      <3>1. \A g : Waits(c, g) <=> Waits(c, g)' \/ g = e
        BY <2>1, <2>3, ReadFacts
      <3>2. phase'[c] = "before" => phase[c] = "before" /\ e # SS
        BY <1>0, <2>1, <2>3
      <3>3. ~Handles(c, CS) /\ (e = CS => Handles(c, CS)')
        BY <1>4, <2>1, <2>3 DEF Handles
      <3>4. Turn(c) /\ server'[c] = server[c] /\ stage'[c] = stage[c]
        BY <1>1, <2>1, <2>3
      <3> HIDE DEF e
      <3>5. Asking(c)' /\ Connected(c)'
        BY <1>2, <2>1, <3>1, <3>3, <3>4
      <3>6. Begun(c)' /\ Closing(c)'
        BY <2>1, <3>1, <3>2, <3>4
      <3> QED BY <1>1, <3>4, <3>5, <3>6
    <2> QED BY <2>2, <2>3
  <1>12. CASE Handle
    <2>1. UNCHANGED <<stage, phase, server, inbox, taken>>
      BY <1>12 DEF Handle
    <2>2. CASE Handles(c, CS)
      <3>1. sent' = [sent EXCEPT ![c] = Append(@, "StartSession")]
        BY <1>12, <2>2 DEF Handle, Handles, MainSends, Answers
      <3>2. Underway(c, "StartSession")'
        BY <2>1, <3>1, UnderwaySent DEF Frames
      <3>3. \A e : Waits(c, e)' <=> Waits(c, e)
        BY <2>1 DEF Waits
      <3> QED BY <1>1, <1>2, <2>1, <3>2, <3>3
    <2>3. CASE ~Handles(c, CS)
      BY <1>3, <2>1, <2>3
    <2> QED BY <2>2, <2>3
  <1>13. ASSUME NEW d \in Conns, c # d, NEW e \in Events, ServerSays(d, e) \/ inbox' = inbox,
                UNCHANGED <<stage, phase, handling>>, server'[c] = server[c], taken'[c] = taken[c]
         PROVE  Fresh(c)' /\ (stage'[c] = "open" => Turn(c)')
    <2>1. inbox'[c] = inbox[c]
      BY <1>0, <1>13 DEF ServerSays
    <2> QED BY <1>3, <1>5, <1>13, <2>1
  <1>14. ASSUME NEW d \in Conns, Take(d)
         PROVE  Fresh(c)' /\ (stage'[c] = "open" => Turn(c)')
    <2> DEFINE frame == sent[d][taken[d] + 1]
    <2>1. /\ UNCHANGED <<stage, phase, handling>> /\ stage[d] = "open"
          /\ taken' = [taken EXCEPT ![d] = @ + 1]
      BY <1>14 DEF Take, serverUnchanged
    <2>2. \/ /\ frame = "StartConnect"
             /\ \/ ServerSays(d, CS) /\ server' = [server EXCEPT ![d] = "connected"]
                \/ ServerSays(d, "ConnectionFailed") /\ server' = [server EXCEPT ![d] = "refused"]
          \/ /\ frame = "StartSession"
             /\ \/ ServerSays(d, SS) /\ server' = [server EXCEPT ![d] = "session"]
                \/ ServerSays(d, "SessionFailed") /\ server' = [server EXCEPT ![d] = "refused"]
          \/ /\ frame \notin {"StartConnect", "StartSession"}
             /\ UNCHANGED <<inbox, server>>
      BY <1>14 DEF Take
    <2>3. {CS, SS, "ConnectionFailed", "SessionFailed"} \subseteq Events
      BY DEF Events
    <2> HIDE DEF frame
    <2>4. CASE c # d
      <3>1. server'[c] = server[c] /\ taken'[c] = taken[c]
        BY <1>0, <2>1, <2>2, <2>4
      <3>2. \E e \in Events : ServerSays(d, e) \/ inbox' = inbox
        BY <2>2, <2>3
      <3> QED BY <1>13, <2>1, <2>4, <3>1, <3>2
    <2>5. CASE c = d
      <3>1. Turn(c) /\ Fresh(c)'
        BY <1>1, <2>1, <2>5
      <3>2. CASE ServerSays(c, CS) /\ server' = [server EXCEPT ![c] = "connected"]
        <4>1. Waits(c, CS)' /\ server'[c] = "connected"
          BY <1>0, <2>3, <3>2, SayFacts
        <4> QED BY <3>1, <4>1
      <3>3. CASE server' = [server EXCEPT ![c] = "refused"]
        <4>1. server'[c] = "refused"
          BY <1>0, <3>3
        <4> QED BY <3>1, <4>1
      <3>4. CASE ServerSays(c, SS) /\ server' = [server EXCEPT ![c] = "session"]
        <4>1. Waits(c, SS)' /\ server'[c] = "session"
          BY <1>0, <2>3, <3>4, SayFacts
        <4> QED BY <3>1, <4>1
      <3>5. CASE frame \notin {"StartConnect", "StartSession"} /\ UNCHANGED <<inbox, server>>
        <4>1. taken'[c] = taken[c] + 1
          BY <1>0, <2>1, <2>5
        <4>2. frame = sent[c][taken[c] + 1]
          BY <2>5 DEF frame
        <4>3. /\ Underway(c, "StartConnect") => Underway(c, "StartConnect")'
              /\ Underway(c, "StartSession") => Underway(c, "StartSession")'
          BY <3>5, <4>1, <4>2, UnderwayKept
        <4>4. (\A e : Waits(c, e)' <=> Waits(c, e)) /\ server'[c] = server[c] /\ phase'[c] = phase[c]
          BY <2>1, <3>5 DEF Waits
        <4>5. Handles(c, CS) => Handles(c, CS)'
          BY <1>5, <2>1
        <4> QED BY <3>1, <4>3, <4>4, <4>5
      <3> QED BY <2>2, <2>5, <3>2, <3>3, <3>4, <3>5
    <2> QED BY <2>4, <2>5
  <1>15. ASSUME NEW d \in Conns, Finish(d)
         PROVE  Fresh(c)' /\ (stage'[c] = "open" => Turn(c)')
    <2>1. /\ UNCHANGED <<stage, phase, handling, taken>> /\ stage[d] = "open"
          /\ server[d] = "session" /\ server' = [server EXCEPT ![d] = "over"]
          /\ ServerSays(d, "SessionFinished") /\ "SessionFinished" \in Events
      BY <1>15 DEF Finish, serverUnchanged, Events
    <2>2. CASE c # d
      BY <1>0, <1>13, <2>1, <2>2
    <2>3. CASE c = d
      <3>1. server'[c] = "over" /\ stage'[c] = "open" /\ Begun(c)
        BY <1>0, <1>1, <2>1, <2>3
      <3>2. Waits(c, SS) => Waits(c, SS)'
        BY <2>1, <2>3, SayFacts
      <3> QED BY <2>1, <2>3, <3>1, <3>2
    <2> QED BY <2>2, <2>3
  <1>16. ASSUME NEW d \in Conns, Close(d)
         PROVE  Fresh(c)' /\ (stage'[c] = "open" => Turn(c)')
    <2>1. /\ UNCHANGED <<stage, phase, handling, taken>> /\ stage[d] = "open"
          /\ server' = [server EXCEPT ![d] = "closed"]
          /\ ServerSays(d, "Close") /\ "Close" \in Events
      BY <1>16 DEF Close, serverUnchanged, Events
    <2>2. CASE c # d
      BY <1>0, <1>13, <2>1, <2>2
    <2>3. CASE c = d
      <3>1. server'[c] = "closed" /\ stage'[c] = "open"
        BY <1>0, <2>1, <2>3
      <3>2. Waits(c, "Close")'
        BY <2>1, <2>3, SayFacts
      <3> QED BY <3>1, <3>2
    <2> QED BY <2>2, <2>3
  <1> QED
    BY <1>6, <1>7, <1>8, <1>9, <1>10, <1>11, <1>12, <1>14, <1>15, <1>16 DEF Next, MainStep

\* The server ends a session it has begun; of the two events Main reads the first
\* first.
LEMMA FinishStep ==
    /\ TypeOK /\ ChainInv /\ WireInv /\ EndInv /\ TurnInv /\ FinishInv /\ [Next]_vars
    => FinishInv'
  <1> DEFINE SS == "SessionStarted"
             SF == "SessionFinished"
  <1> SUFFICES ASSUME TypeOK, ChainInv, WireInv, EndInv, TurnInv, FinishInv, [Next]_vars,
                      NEW c \in Conns, stage'[c] = "open", phase'[c] = "before"
               PROVE  OnlyAfter(inbox'[c], SF, SS)
    BY DEF FinishInv
  <1>0. /\ stage \in [Conns -> Stages] /\ phase \in [Conns -> Phases]
        /\ inbox \in [Conns -> Seq(Events)] /\ inbox[c] \in Seq(Events)
        /\ server \in [Conns -> {"new", "connected", "session", "over", "refused", "closed"}]
        /\ SS \in Events /\ SF \in Events
    BY DEF TypeOK, Events
  <1>1. phase[c] = "before"
    <2>1. phase[c] # "before" => phase'[c] # "before"
      BY PhaseStep
    <2> QED BY <2>1
  <1>2. stage[c] = "open" => OnlyAfter(inbox[c], SF, SS)
    BY <1>1 DEF FinishInv
  <1>3. ASSUME stage[c] = "open", inbox'[c] = inbox[c]
        PROVE  OnlyAfter(inbox'[c], SF, SS)
    BY <1>2, <1>3
  <1>4. ASSUME stage[c] = "open", NEW d \in Conns, NEW e \in Events, ServerSays(d, e),
               c = d /\ e = SF => Waits(c, SS)
        PROVE  OnlyAfter(inbox'[c], SF, SS)
    <2>1. CASE c # d
      BY <1>3, <1>4, <2>1, SayFacts
    <2>2. CASE c = d
      <3>1. inbox'[c] = Append(inbox[c], e)
        BY <1>4, <2>2, SayFacts
      <3>2. OnlyAfter(Append(inbox[c], e), SF, SS)
        BY <1>0, <1>2, <1>4, <2>2, OnlyAfterFacts DEF Waits
      <3> QED BY <3>1, <3>2
    <2> QED BY <2>1, <2>2
  <1> USE DEF clientVars, protoVars, mainVars, captureVars, serverVars
  <1>5. CASE Start \/ Handle \/ ReadNext \/ CaptureStep \/ UNCHANGED vars
    BY <1>3, <1>5 DEF Start, Handle, ReadNext, CaptureStep, Check, Read, SendChunk, StartWrite, vars
  <1>6. CASE Assign
    <2>1. stage[c] = "open"
      BY <1>0, <1>6 DEF Assign
    <2> QED BY <1>3, <1>6, <2>1 DEF Assign
  <1>7. ASSUME NEW d \in Conns, Advance(d) \/ Release(d)
        PROVE  OnlyAfter(inbox'[c], SF, SS)
    <2>1. stage[c] = "open" /\ inbox' = inbox
      BY <1>0, <1>7 DEF Advance, Release, NextStage
    <2> QED BY <1>3, <2>1
  <1>8. ASSUME NEW d \in Conns, Open(d)
        PROVE  OnlyAfter(inbox'[c], SF, SS)
    <2>1. CASE c = d
      <3>1. inbox'[c] = <<>>
        BY <1>8, <2>1 DEF Open, WireInv
      <3> QED BY <3>1 DEF OnlyAfter
    <2>2. CASE c # d
      BY <1>0, <1>3, <1>8, <2>2 DEF Open
    <2> QED BY <2>1, <2>2
  <1>9. ASSUME NEW d \in Conns, Error(d) \/ Closed(d)
        PROVE  OnlyAfter(inbox'[c], SF, SS)
    <2>1. stage' = [stage EXCEPT ![d] = "dead"]
      BY <1>9 DEF Error, Closed, Lose, StageAfterLoss
    <2>2. c # d /\ stage[c] = "open"
      BY <1>0, <2>1
    <2>3. inbox'[c] = inbox[c]
      BY <1>0, <1>9, <2>2 DEF Error, Closed
    <2> QED BY <1>3, <2>2, <2>3
  <1>10. ASSUME NEW d \in Conns, Parse(d)
         PROVE  OnlyAfter(inbox'[c], SF, SS)
    <2>1. /\ stage' = stage /\ inbox[d] # <<>> /\ inbox' = [inbox EXCEPT ![d] = Tail(@)]
          /\ phase'[d] = "before" => Head(inbox[d]) # SS
      BY <1>0, <1>10 DEF Parse
    <2>2. CASE c # d
      BY <1>3, <2>1, <2>2, ReadFacts
    <2>3. CASE c = d
      <3>1. inbox'[c] = Tail(inbox[c]) /\ Head(inbox[c]) # SS /\ stage[c] = "open"
        BY <2>1, <2>3, ReadFacts
      <3>2. OnlyAfter(Tail(inbox[c]), SF, SS)
        BY <1>0, <1>2, <2>1, <2>3, <3>1, OnlyAfterFacts
      <3> QED BY <3>1, <3>2
    <2> QED BY <2>2, <2>3
  <1>11. ASSUME NEW d \in Conns, Take(d)
         PROVE  OnlyAfter(inbox'[c], SF, SS)
    <2>1. stage[c] = "open"
      BY <1>11 DEF Take, serverUnchanged
    <2>2. \/ inbox' = inbox
          \/ \E e \in {"ConnectionStarted", "ConnectionFailed", SS, "SessionFailed"} : ServerSays(d, e)
      BY <1>11 DEF Take
    <2>3. /\ {"ConnectionStarted", "ConnectionFailed", SS, "SessionFailed"} \subseteq Events
          /\ SF \notin {"ConnectionStarted", "ConnectionFailed", SS, "SessionFailed"}
      BY DEF Events
    <2> QED BY <1>3, <1>4, <2>1, <2>2, <2>3
  <1>12. ASSUME NEW d \in Conns, Finish(d)
         PROVE  OnlyAfter(inbox'[c], SF, SS)
    <2>1. stage[c] = "open" /\ ServerSays(d, SF) /\ server[d] = "session"
      BY <1>12 DEF Finish, serverUnchanged
    <2>2. c = d => Waits(c, SS)
      BY <1>1, <2>1 DEF TurnInv
    <2> QED BY <1>0, <1>4, <2>1, <2>2
  <1>13. ASSUME NEW d \in Conns, Close(d)
         PROVE  OnlyAfter(inbox'[c], SF, SS)
    <2>1. stage[c] = "open" /\ ServerSays(d, "Close") /\ "Close" \in Events /\ "Close" # SF
      BY <1>13 DEF Close, serverUnchanged, Events
    <2> QED BY <1>4, <2>1
  <1> QED
    BY <1>5, <1>6, <1>7, <1>8, <1>9, <1>10, <1>11, <1>12, <1>13 DEF Next, MainStep

----------------------------------------------------------------------------
(* The theorems *)

\* The invariant holds of every behaviour: each lemma above preserves its part.
LEMMA Inductive == Spec => []IInv
  <1>1. IInv /\ [Next]_vars => IInv'
    <2> SUFFICES ASSUME IInv, [Next]_vars
                 PROVE  IInv'
      OBVIOUS
    <2>0. /\ TypeOK /\ ChainInv /\ HandlingInv /\ WireInv /\ HandshakeInOrder /\ AnswerInv
          /\ EndInv /\ ReadyInv /\ StaleInv
      BY DEF IInv
    <2>1. TypeOK' /\ ChainInv' /\ HandlingInv'
      BY <2>0, TypeStep, ChainStep
    <2>2. WireInv' /\ HandshakeInOrder' /\ AnswerInv'
      BY <2>0, WireStep, OrderStep, AnswerStep
    <2>3. EndInv' /\ ReadyInv' /\ StaleInv'
      BY <2>0, EndStep, ReadyStep, StaleStep
    <2> QED BY <2>1, <2>2, <2>3 DEF IInv
  <1> QED BY <1>1, InitInv, PTL DEF Spec

\* Every variable keeps the type of the field or history it stands for.
THEOREM TypeCorrect == Spec => []TypeOK
  <1>1. IInv => TypeOK
    BY DEF IInv
  <1> QED BY <1>1, Inductive, PTL

\* While is_ready is true the current connection is open and in a session: the
\* flag is never left over from an earlier connection.
THEOREM ReadyCorrect == Spec => []ReadyMeansSession
  <1>1. IInv => ReadyMeansSession
    BY DEF IInv, ReadyInv
  <1> QED BY <1>1, Inductive, PTL

\* On every connection, whatever was lost before it, the handshake is sent once
\* and in order.
THEOREM OrderCorrect == Spec => []HandshakeInOrder
  <1>1. IInv => HandshakeInOrder
    BY DEF IInv
  <1> QED BY <1>1, Inductive, PTL

\* Between the test of is_ready and the send, one chunk at most slips past each
\* boundary of a session.
THEOREM StaleCorrect == Spec => []OneStaleChunk
  <1>1. IInv => OneStaleChunk
    BY DEF IInv, StaleInv
  <1> QED BY <1>1, Inductive, PTL

\* What is owed is owed in every behaviour.
LEMMA OwedInductive == Spec => [](IInv /\ OwedInv)
  <1>1. IInv /\ OwedInv /\ [Next]_vars => OwedInv'
    <2> SUFFICES ASSUME IInv, OwedInv, [Next]_vars
                 PROVE  OwedInv'
      OBVIOUS
    <2>0. /\ TypeOK /\ ChainInv /\ HandlingInv /\ WireInv /\ EndInv /\ ReadyInv
          /\ LinkInv /\ VoiceInv /\ TurnInv /\ FinishInv
      BY DEF IInv, OwedInv
    <2>1. LinkInv' /\ VoiceInv'
      BY <2>0, LinkStep, VoiceStep
    <2>2. TurnInv' /\ FinishInv'
      BY <2>0, TurnStep, FinishStep
    <2> QED BY <2>1, <2>2 DEF OwedInv
  <1> QED BY <1>1, InitOwed, Inductive, PTL DEF Spec

\* Nobody waits for a step that nobody will take: a client that reconnects has a
\* connection or makes one, the handshake of an open connection is somebody's to go
\* on with, and a session Main is in has the voice let through.
THEOREM StrandedCorrect == Spec => []NeverStranded
  <1>1. IInv /\ OwedInv => NeverStranded
    <2> SUFFICES ASSUME TypeOK, LinkInv, VoiceInv, TurnInv
                 PROVE  NeverStranded
      BY DEF IInv, OwedInv
    <2>1. ASSUME NEW c \in Conns, stage[c] = "open", phase[c] = "before"
          PROVE  HandshakeOwed(c)
      <3>1. server[c] \in {"new", "connected", "session", "over", "refused", "closed"}
        BY DEF TypeOK
      <3> QED BY <2>1, <3>1 DEF TurnInv, HandshakeOwed
    <2>2. \A c \in Conns : phase[c] = "in" =>
              isReady /\ ("SayHello" \in ToSet(sent[c]) \/ Handles(c, "SessionStarted"))
      BY DEF VoiceInv, Sent
    <2> QED BY <2>1, <2>2 DEF NeverStranded, LinkInv
  <1> QED BY <1>1, OwedInductive, PTL

----------------------------------------------------------------------------
(* Without auto_reconnect *)

\* A client that does not reconnect has one Connection in its life, which is never
\* replaced under the capture thread and never destroyed.
LoneInv ==
    ~autoReconnect =>
        /\ ~crashed
        /\ connection \in {NoConn, 1} /\ freed = {}
        /\ mainPc \in {"start", "assign"} => connection = NoConn
        /\ capturePc # "idle" => connection = 1
        /\ capturePc = "send" => target = 1

\* The capture thread's unlocked read of client.connection is a race, and can end the
\* process, only in a client that reconnects.
OnlyReconnectEndangers == ~autoReconnect => ConnectionGuarded /\ ~crashed

\* No step of such a client gives it a second Connection.
LEMMA LoneStep == TypeOK /\ ChainInv /\ ReadyInv /\ LoneInv /\ [Next]_vars => LoneInv'
  <1> SUFFICES ASSUME TypeOK, ChainInv, ReadyInv, LoneInv, [Next]_vars, ~autoReconnect'
               PROVE  LoneInv'
    BY DEF LoneInv
  <1>1. autoReconnect' = autoReconnect
    BY DEF Next, MainStep, CaptureStep, Start, Assign, Advance, Open, Closed, Parse, Handle,
           ReadNext, Error, Release, Check, Read, SendChunk, StartWrite, Take, Finish, Close,
           clientVars, serverUnchanged, vars
  <1>2. /\ ~crashed /\ connection \in {NoConn, 1} /\ freed = {}
        /\ mainPc \in {"start", "assign"} => connection = NoConn
        /\ capturePc # "idle" => connection = 1
        /\ capturePc = "send" => target = 1
    BY <1>1 DEF LoneInv
  <1>3. CASE UNCHANGED vars
    BY <1>3 DEF vars, LoneInv
  <1>4. CASE Start \/ Assign
    <2>1. connection = NoConn /\ capturePc = "idle"
      BY <1>2, <1>4 DEF Start, Assign, NoConn
    <2>2. UNCHANGED <<crashed, freed, capturePc, target>>
      BY <1>4 DEF Start, Assign, clientVars, captureVars
    <2>3. CASE Start
      BY <1>2, <2>1, <2>2, <2>3 DEF Start, clientVars, LoneInv
    <2>4. CASE Assign
      <3>1. connection' = 1 /\ mainPc' = "poll"
        BY <2>1, <2>4 DEF Assign, NoConn
      <3> QED BY <1>2, <2>1, <2>2, <3>1 DEF LoneInv
    <2> QED BY <1>4, <2>3, <2>4
  <1>5. ASSUME NEW c \in Conns, Error(c) \/ Closed(c)
        PROVE  LoneInv'
    <2>1. UNCHANGED <<connection, freed, capturePc, target, crashed>>
      BY <1>5 DEF Error, Closed, captureVars
    <2>2. mainPc' = "poll"
      BY <1>1, <1>5 DEF Error, Closed, Lose, Reconnects
    <2> QED BY <1>2, <2>1, <2>2 DEF LoneInv
  <1>6. ASSUME NEW c \in Conns, Release(c)
        PROVE  FALSE
    <2>1. stage[c] = "dead" /\ c # connection
      BY <1>6 DEF Release
    <2>2. c \in Nat /\ c >= 1
      BY DEF Conns
    <2>3. c > connection
      BY <1>2, <2>1, <2>2 DEF NoConn
    <2> QED BY <2>1, <2>3 DEF ChainInv
  <1>7. CASE Check
    <2>1. connection # NoConn
      BY <1>7 DEF Check, ReadyInv, ReadyMeansSession
    <2>2. UNCHANGED <<connection, freed, mainPc, crashed>> /\ capturePc' = "build"
      BY <1>7 DEF Check, clientVars, mainVars
    <2> QED BY <1>2, <2>1, <2>2 DEF LoneInv
  <1>8. CASE Read
    <2>1. UNCHANGED <<connection, freed, mainPc, crashed>> /\ target' = connection /\ connection = 1
      BY <1>2, <1>8 DEF Read, clientVars, mainVars
    <2> QED BY <1>2, <2>1 DEF LoneInv
  <1>9. CASE SendChunk
    <2>1. target \notin freed \cup {NoConn} /\ connection = 1
      BY <1>2, <1>9 DEF SendChunk, NoConn
    <2>2. UNCHANGED <<connection, freed, mainPc, crashed>> /\ capturePc' \in {"idle", "write"}
      BY <1>9, <2>1 DEF SendChunk, clientVars, mainVars
    <2> QED BY <1>2, <2>1, <2>2 DEF LoneInv
  <1>10. CASE StartWrite
    BY <1>2, <1>10 DEF StartWrite, clientVars, mainVars, LoneInv
  <1>11. CASE Handle \/ ReadNext
    <2>1. UNCHANGED <<connection, freed, capturePc, target, crashed>> /\ mainPc' \in {"read", "poll"}
      BY <1>11 DEF Handle, ReadNext, clientVars, captureVars
    <2> QED BY <1>2, <2>1 DEF LoneInv
  <1>12. ASSUME NEW c \in Conns, Advance(c) \/ Open(c) \/ Parse(c)
         PROVE  LoneInv'
    <2>1. UNCHANGED <<connection, freed, capturePc, target, crashed>>
      BY <1>12 DEF Advance, Open, Parse, clientVars, captureVars
    <2>2. mainPc = "poll" /\ mainPc' \in {"poll", "handle"}
      BY <1>12 DEF Advance, Open, Parse, Polling, mainVars
    <2> QED BY <1>2, <2>1, <2>2 DEF LoneInv
  <1>13. ASSUME NEW c \in Conns, Take(c) \/ Finish(c) \/ Close(c)
         PROVE  LoneInv'
    <2>1. UNCHANGED <<connection, freed, capturePc, target, crashed, mainPc>>
      BY <1>13 DEF Take, Finish, Close, serverUnchanged, clientVars, captureVars, mainVars
    <2> QED BY <1>2, <2>1 DEF LoneInv
  <1> QED
    BY <1>3, <1>4, <1>5, <1>6, <1>7, <1>8, <1>9, <1>10, <1>11, <1>12, <1>13
       DEF Next, MainStep, CaptureStep

\* While auto_reconnect happens to be false, as nobody initialises it, the capture
\* thread never reads connection while connect() replaces it, and never sends on a
\* null or destroyed Connection: the violation of ConnectionGuarded needs a reconnect.
THEOREM LoneCorrect == Spec => []OnlyReconnectEndangers
  <1>1. Init => LoneInv
    BY DEF Init, LoneInv
  <1>2. IInv /\ LoneInv /\ [Next]_vars => LoneInv'
    BY LoneStep DEF IInv
  <1>3. LoneInv => OnlyReconnectEndangers
    BY DEF LoneInv, OnlyReconnectEndangers, ConnectionGuarded, NoConn
  <1> QED BY <1>1, <1>2, <1>3, Inductive, PTL DEF Spec

----------------------------------------------------------------------------
(* Refinement *)

\* Steps that leave the chain, the session and is_ready alone.
LEMMA StutterFacts ==
    ASSUME TypeOK, UNCHANGED <<connection, phase, isReady>>,
           \A c \in Conns : Live(c)' <=> Live(c)
    PROVE  UNCHANGED Promise!ssVars
  <1>1. connection \in Conns \cup {NoConn}
    BY DEF TypeOK
  <1>2. Up' <=> Up
    BY <1>1 DEF Up
  <1>3. Up \in BOOLEAN /\ Up' \in BOOLEAN
    BY DEF Up, Live
  <1>4. Up' = Up
    BY <1>2, <1>3
  <1> QED BY <1>4 DEF Promise!ssVars

\* A loss ends the current session, whatever it was.
LEMMA LoseIsDown ==
    ASSUME TypeOK, ChainInv, NEW c \in Conns, Live(c), Lose(c), connection' = connection
    PROVE  Promise!Down
  <1>1. c = connection /\ c # NoConn
    BY DEF ChainInv, Conns, NoConn
  <1>2. stage'[c] = "dead"
    BY DEF Lose, StageAfterLoss, TypeOK
  <1>3. Up /\ ~Up'
    BY <1>1, <1>2 DEF Up, Live
  <1>4. Up' = FALSE
    BY <1>3 DEF Up
  <1> QED BY <1>1, <1>3, <1>4 DEF Promise!Down, Lose, ReadyAfterLoss

\* The engine keeps sessions: connect() makes the next one's connection when there is
\* none, SessionStarted begins it and SessionFinished or a loss ends it; whatever else
\* Main, the capture thread and the server do leaves the sessions alone.
THEOREM Refinement == Spec => ImplementsSessions
  <1>1. Init => Promise!Init
    <2> SUFFICES ASSUME Init PROVE Promise!Init
      OBVIOUS
    <2>1. connection = 0 /\ Up = FALSE
      BY DEF Init, Up, NoConn
    <2> QED BY <2>1 DEF Init, Promise!Init
  <1>2. IInv /\ OwedInv /\ [Next]_vars => [Promise!Next]_(Promise!ssVars)
    <2> SUFFICES ASSUME IInv, OwedInv, [Next]_vars
                 PROVE  Promise!Next \/ UNCHANGED Promise!ssVars
      OBVIOUS
    <2>0. /\ TypeOK /\ ChainInv /\ HandlingInv /\ WireInv /\ EndInv /\ ReadyInv
          /\ VoiceInv /\ FinishInv
      BY DEF IInv, OwedInv
    <2>1. /\ connection \in Conns \cup {NoConn} /\ NoConn \notin Conns /\ isReady \in BOOLEAN
          /\ stage \in [Conns -> Stages] /\ phase \in [Conns -> Phases]
          /\ inbox \in [Conns -> Seq(Events)]
      BY <2>0 DEF TypeOK, Conns, NoConn
    <2> USE DEF clientVars, protoVars, mainVars, captureVars, serverVars, serverUnchanged
    <2>2. ASSUME UNCHANGED <<connection, phase, isReady, stage>>
          PROVE  UNCHANGED Promise!ssVars
      BY <2>0, <2>2, StutterFacts DEF Live
    <2>3. CASE Start \/ ReadNext \/ CaptureStep \/ UNCHANGED vars
      BY <2>2, <2>3 DEF Start, ReadNext, CaptureStep, Check, Read, SendChunk, StartWrite, vars
    <2>4. ASSUME NEW c \in Conns, Release(c) \/ Take(c) \/ Finish(c) \/ Close(c)
          PROVE  UNCHANGED Promise!ssVars
      BY <2>2, <2>4 DEF Release, Take, Finish, Close
    <2>5. CASE Assign
      <3>1. /\ mainPc = "assign" /\ connection' = connection + 1 /\ connection + 1 \in Conns
            /\ stage' = [stage EXCEPT ![connection + 1] = "resolve"]
            /\ UNCHANGED <<phase, isReady>>
        BY <2>0, <2>1, <2>5 DEF Assign, ChainInv, Conns, NoConn
      <3>2. ~Up
        BY <2>0, <2>1, <3>1 DEF Up, ChainInv
      <3>3. connection' # NoConn /\ stage'[connection'] \notin {"none", "dead"}
        BY <2>1, <3>1
      <3>4. Up' = TRUE
        BY <3>3 DEF Up, Live
      <3>5. Promise!Connect
        BY <3>1, <3>2, <3>4 DEF Promise!Connect
      <3> QED BY <3>5 DEF Promise!Next
    <2>6. ASSUME NEW c \in Conns, Advance(c) \/ Open(c)
          PROVE  UNCHANGED Promise!ssVars
      <3>1. /\ UNCHANGED <<connection, phase, isReady>> /\ stage[c] \notin {"none", "dead"}
            /\ \E new \in {"connect", "handshake", "upgrade", "open"} : stage' = [stage EXCEPT ![c] = new]
        BY <2>6 DEF Advance, Open, NextStage
      <3>2. \A d \in Conns : Live(d)' <=> Live(d)
        BY <2>1, <3>1 DEF Live
      <3> QED BY <2>0, <3>1, <3>2, StutterFacts
    <2>7. ASSUME NEW c \in Conns, Error(c) \/ Closed(c)
          PROVE  Promise!Next
      <3>1. Live(c) /\ Lose(c) /\ connection' = connection
        BY <2>7 DEF Error, Closed, Live
      <3> QED BY <2>0, <3>1, LoseIsDown DEF Promise!Next
    <2>8. CASE Handle
      <3>1. isReady' = isReady
        BY <2>0, <2>1, <2>8 DEF Handle, ReadyInv
      <3> QED BY <2>2, <2>8, <3>1 DEF Handle
    <2>9. ASSUME NEW c \in Conns, Parse(c)
          PROVE  Promise!Next \/ UNCHANGED Promise!ssVars
      <3> DEFINE e == Head(inbox[c])
      <3>1. /\ stage[c] = "open" /\ inbox[c] # <<>> /\ UNCHANGED <<connection, stage>>
            /\ isReady' = CASE e = "SessionStarted" -> TRUE
                            [] e = "SessionFinished" -> FALSE
                            [] OTHER -> isReady
            /\ phase' = [phase EXCEPT ![c] = CASE e = "SessionStarted" -> "in"
                                               [] e = "SessionFinished" -> "after"
                                               [] OTHER -> @]
        BY <2>9 DEF Parse
      <3>2. c = connection /\ Up /\ Up' = Up
        <4>1. Live(c) /\ c # NoConn
          BY <2>1, <3>1 DEF Live
        <4>2. c = connection
          BY <2>0, <4>1 DEF ChainInv
        <4>3. Up'
          BY <3>1, <4>1, <4>2 DEF Up, Live
        <4> QED BY <4>1, <4>2, <4>3 DEF Up, Live
      <3>3. e \in ToSet(inbox[c])
        BY <2>1, <3>1, HeadTailToSet
      <3>4. phase[c] \in {"before", "in", "after"}
        BY <2>1 DEF Phases
      <3>5. phase[c] = "before" => e # "SessionFinished"
        <4>1. ASSUME phase[c] = "before"
              PROVE  OnlyAfter(inbox[c], "SessionFinished", "SessionStarted")
          BY <2>0, <3>1, <4>1 DEF FinishInv
        <4>2. inbox[c] \in Seq(Events) /\ "Close" \in Events
          BY <2>1 DEF Events
        <4> QED BY <3>1, <4>1, <4>2, OnlyAfterFacts
      <3>6. phase[c] = "after" => e # "SessionStarted" /\ ~isReady
        BY <2>0, <3>1, <3>2, <3>3 DEF EndInv, Waits, ReadyInv, ReadyMeansSession
      <3>7. phase[c] = "in" => isReady
        BY <2>0 DEF VoiceInv
      <3> HIDE DEF e
      <3>8. CASE e = "SessionStarted"
        <4>1. isReady' = TRUE /\ phase' = [phase EXCEPT ![c] = "in"]
          BY <3>1, <3>8
        <4>2. CASE phase[c] = "before"
          BY <3>1, <3>2, <4>1, <4>2 DEF Promise!Begin, Promise!Next
        <4>3. CASE phase[c] = "in"
          <5>1. phase' = phase /\ isReady' = isReady
            BY <2>1, <3>7, <4>1, <4>3
          <5> QED BY <2>2, <3>1, <5>1
        <4> QED BY <3>4, <3>6, <3>8, <4>2, <4>3
      <3>9. CASE e = "SessionFinished"
        <4>1. isReady' = FALSE /\ phase' = [phase EXCEPT ![c] = "after"]
          BY <3>1, <3>9
        <4>2. CASE phase[c] = "in"
          BY <3>1, <3>2, <4>1, <4>2 DEF Promise!End, Promise!Next
        <4>3. CASE phase[c] = "after"
          <5>1. phase' = phase /\ isReady' = isReady
            BY <2>1, <3>6, <4>1, <4>3
          <5> QED BY <2>2, <3>1, <5>1
        <4> QED BY <3>4, <3>5, <3>9, <4>2, <4>3
      <3>10. CASE e \notin {"SessionStarted", "SessionFinished"}
        <4>1. isReady' = isReady /\ phase' = phase
          BY <2>1, <3>1, <3>10
        <4> QED BY <2>2, <3>1, <4>1
      <3> QED BY <3>8, <3>9, <3>10
    <2> QED
      BY <2>3, <2>4, <2>5, <2>6, <2>7, <2>8, <2>9 DEF Next, MainStep
  <1> QED BY <1>1, <1>2, OwedInductive, PTL DEF Spec, ImplementsSessions, Promise!Spec
=============================================================================
