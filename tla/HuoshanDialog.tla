--------------------------- MODULE HuoshanDialog ---------------------------
(***************************************************************************)
(* The dialog that HuoshanProto::parse and HuoshanEngine::HandleResponse   *)
(* hold with the cloud, one session after another.  Main handles the       *)
(* frames of the server in order.  The transcript of an utterance arrives  *)
(* as ASRResponse frames and ends with ASREnded; when it matches a local   *)
(* action, Main calls the robot through LCM, asks the cloud to speak a     *)
(* local reply (ChatTTSText) and mutes the cloud's own reply with          *)
(* disabled_remote, until the local reply starts or a reply ends.          *)
(*                                                                         *)
(* The cloud is external: it answers every utterance with a stream of its  *)
(* own, speaks the local replies it is asked for, one stream at a time and *)
(* in order, may cancel its own answer when a local reply is asked for,    *)
(* and greets in every new session.                                        *)
(***************************************************************************)
EXTENDS LocalAi

CONSTANTS
    Texts,         \* transcripts
    Garbled,       \* those that are not the JSON the handler expects
    ActionFile,    \* the actions of localai.json, in order
    NoAction,      \* no action's name
    OtherFrames,   \* other frames the server sends: "ChatResponse", or "none" for
                   \* one without an event ID
    MaxInbox,      \* bound: frames on their way to the client
    MaxOthers,     \* bound: how many of them
    MaxUtterances, \* bound: utterances
    MaxTranscripts,\* bound: transcripts of an utterance
    MaxLosses,     \* bound: connections lost
    AudioFrames    \* audio frames in a stream

NoText == "no text"              \* asrText before the first ASRResponse

ASSUME DialogAssumption ==
    /\ Garbled \subseteq Texts
    /\ NoText \notin Texts
    /\ ActionFile \in Seq(ToSet(ActionFile))
    /\ \A i \in DOMAIN ActionFile :
          /\ ActionFile[i].matches \cup ActionFile[i].phrases \subseteq Texts
          /\ ActionFile[i].name # NoAction
          /\ {ActionFile[i].broken, ActionFile[i].malformed} \subseteq BOOLEAN
    /\ OtherFrames \subseteq {"ChatResponse", "none"}
    /\ {MaxInbox, MaxOthers, MaxUtterances, MaxTranscripts, MaxLosses, AudioFrames} \subseteq Nat

Utterances == 1 .. MaxUtterances

\* local_ai, loaded before the engine is made.
actions == LoadAction(ActionFile)

NoCall == [utt |-> 0, action |-> NoAction]
Hello == "hello"                 \* the stream of the greeting
Cloud == "cloud"                 \* a stream of the cloud's own answer
Local == "local"                 \* a stream of a local reply ("chat_tts_text")

Events == {"ChatResponse", "ASRResponse", "ASREnded", "TTSSentenceStart", "TTSResponse", "TTSEnded"}

VARIABLES
    asrText,       \* HuoshanProto::asrText
    disabledRemote,\* HuoshanProto::disabled_remote
    calling,       \* the LCM call Main waits for, or NoCall
    commanded,     \* history: LCM calls, as [utt, action]
    queued,        \* history: audio pushed to apool
    dropped,       \* history: audio that was not pushed, with the commands until then
    unspoken,      \* history: utterances whose reply could not be put in a frame
    inbox,         \* frames sent by the server and not yet handled
    chats,         \* utterances whose two ChatTTSText frames the server has not taken
    bargeIn,       \* the user speaks while replies are outstanding
    spoken,        \* how many utterances the user has begun
    transcripts,   \* utterance -> the transcripts sent, the latest one last
    listening,     \* the server is transcribing an utterance
    todo,          \* streams the server has to speak, the first one in progress
    step,          \* frames of the first stream already sent
    others,        \* other frames sent so far
    losses         \* connections lost so far

clientVars == <<asrText, disabledRemote, calling, commanded, queued, dropped, unspoken>>
serverVars == <<bargeIn, spoken, transcripts, listening, todo, step, others>>
vars == <<asrText, disabledRemote, calling, commanded, queued, dropped, unspoken, inbox,
          chats, bargeIn, spoken, transcripts, listening, todo, step, others, losses>>

Greeting == [origin |-> Hello, utt |-> 0]

Init ==
    /\ asrText = NoText
    /\ disabledRemote = FALSE
    /\ calling = NoCall
    /\ commanded = <<>>
    /\ queued = {}
    /\ dropped = {}
    /\ unspoken = {}
    /\ inbox = <<>>
    /\ chats = <<>>
    /\ bargeIn \in BOOLEAN
    /\ spoken = 0
    /\ transcripts = [u \in Utterances |-> <<>>]
    /\ listening = FALSE
    /\ todo = <<Greeting>>
    /\ step = 0
    /\ others = 0
    /\ losses = 0

----------------------------------------------------------------------------
(* The server (external) *)

Frame(event, utt, origin, text) ==
    [event |-> event, utt |-> utt, origin |-> origin, text |-> text]

ServerSends(f) == Len(inbox) < MaxInbox /\ inbox' = Append(inbox, f)

\* The user begins the next utterance; without barge-in, once all is quiet.
Speak ==
    /\ ~listening
    /\ spoken < MaxUtterances
    /\ bargeIn \/ (todo = <<>> /\ chats = <<>> /\ inbox = <<>> /\ calling = NoCall)
    /\ listening' = TRUE
    /\ spoken' = spoken + 1
    /\ UNCHANGED <<clientVars, inbox, chats, bargeIn, transcripts, todo, step, others, losses>>

\* A transcript, the first or a better one, is sent.
Transcribe(text) ==
    /\ listening
    /\ Len(transcripts[spoken]) < MaxTranscripts
    /\ transcripts' = [transcripts EXCEPT ![spoken] = Append(@, text)]
    /\ ServerSends(Frame("ASRResponse", spoken, Cloud, text))
    /\ UNCHANGED <<clientVars, chats, bargeIn, spoken, listening, todo, step, others, losses>>

\* The utterance is over; the server will answer it, but perhaps not one in which it
\* made out no words.
EndSpeech ==
    /\ listening
    /\ listening' = FALSE
    /\ ServerSends(Frame("ASREnded", spoken, Cloud, NoText))
    /\ \/ todo' = Append(todo, [origin |-> Cloud, utt |-> spoken])
       \/ transcripts[spoken] = <<>> /\ todo' = todo
    /\ UNCHANGED <<clientVars, chats, bargeIn, spoken, transcripts, step, others, losses>>

\* The next frame of the stream in progress: start, audio, end.
StreamEvent(n) == CASE n = 0 -> "TTSSentenceStart"
                    [] n = AudioFrames + 1 -> "TTSEnded"
                    [] OTHER -> "TTSResponse"

Stream ==
    /\ todo # <<>>
    /\ ServerSends(Frame(StreamEvent(step), Head(todo).utt, Head(todo).origin, NoText))
    /\ IF step = AudioFrames + 1
       THEN todo' = Tail(todo) /\ step' = 0
       ELSE todo' = todo /\ step' = step + 1
    /\ UNCHANGED <<clientVars, chats, bargeIn, spoken, transcripts, listening, others, losses>>

\* The server takes a ChatTTSText request; it may cancel its own answer to that
\* utterance, even in the middle.
TakeChat ==
    LET u == Head(chats)
        answer == [origin |-> Cloud, utt |-> u]
        reply == [origin |-> Local, utt |-> u]
    IN /\ chats # <<>>
       /\ chats' = Tail(chats)
       /\ \/ /\ todo' = Append(todo, reply)
             /\ step' = step
          \/ \E i \in DOMAIN todo :
                /\ todo[i] = answer
                /\ todo' = Append(RemoveAt(todo, i), reply)
                /\ step' = IF i = 1 THEN 0 ELSE step
       /\ UNCHANGED <<clientVars, inbox, bargeIn, spoken, transcripts, listening, others, losses>>

\* A frame HandleResponse has no use for, or an error report or another frame
\* without MSG_WITH_EVENT.
SendOther(event) ==
    /\ others < MaxOthers
    /\ others' = others + 1
    /\ ServerSends(Frame(event, spoken, Cloud, NoText))
    /\ UNCHANGED <<clientVars, chats, bargeIn, spoken, transcripts, listening, todo, step, losses>>

----------------------------------------------------------------------------
(* Main *)

\* parse() fills optional.event only when the frame carries one, and the local
\* HuoshanProto does not initialise it: what is in it else is any value.
EventsSeen(f) == IF f.event = "none" THEN Events ELSE {f.event}

StillMutedAlways(f) == TRUE      \* mutant: the local reply does not unmute
StillMutedNever(f) == FALSE      \* mutant: tts_type is not looked at
StillMuted(f) == f.origin # Local

\* parse(): TTSSentenceStart of a "chat_tts_text" ends the mute.
OnSentenceStart(f) ==
    /\ disabledRemote' = (disabledRemote /\ StillMuted(f))
    /\ UNCHANGED <<asrText, calling, commanded, queued, dropped>>

\* HandleResponse(): the latest transcript replaces the one before.
FirstText(f) == IF asrText = NoText THEN f.text ELSE asrText    \* mutant: kept
NewText(f) == f.text

OnASRResponse(f) ==
    /\ asrText' = NewText(f)
    /\ UNCHANGED <<disabledRemote, calling, commanded, queued, dropped>>

\* ASREnded: parse the transcript and match; with a match, call the robot.  The
\* call blocks Main for up to 500 ms.  A garbled transcript and a broken pattern
\* throw, and the exception is caught.
MatchedEmpty ==                  \* mutant: the test of the empty name is dropped
    LET hit == MatchAction(actions, asrText)
    IN IF asrText \in Texts \ Garbled /\ hit = {} THEN {[name |-> NoAction]} ELSE hit
Matched == IF asrText \in Texts \ Garbled THEN MatchAction(actions, asrText) ELSE {}

OnASREnded(f) ==
    /\ IF Matched # {}
       THEN \E action \in Matched :
              /\ calling' = [utt |-> f.utt, action |-> action.name]
              /\ commanded' = Append(commanded, [utt |-> f.utt, action |-> action.name])
       ELSE UNCHANGED <<calling, commanded>>
    /\ UNCHANGED <<asrText, disabledRemote, queued, dropped>>

\* LCM answered (with or without a text) or not: in each case a reply is spoken
\* in two ChatTTSText frames, and the cloud's answer is muted.
MuteOn == TRUE

\* The start and the end frame of a reply, sent together, count as one request.
ChatTTSText(u) == chats' = Append(chats, u)

LcmReturns ==
    /\ calling # NoCall
    /\ ChatTTSText(calling.utt)
    /\ disabledRemote' = MuteOn
    /\ calling' = NoCall
    /\ UNCHANGED <<asrText, commanded, queued, dropped, unspoken, inbox, serverVars, losses>>

\* The robot answered with a text that is not UTF-8: ChatTTSText throws, and the
\* exception is caught behind the mute.
ReplyThrows ==
    /\ calling # NoCall
    /\ unspoken' = unspoken \cup {calling.utt}
    /\ calling' = NoCall
    /\ UNCHANGED <<asrText, disabledRemote, commanded, queued, dropped, inbox, chats,
                   serverVars, losses>>

NotUnmuted == disabledRemote     \* mutant: TTSEnded does not unmute
MuteAfterEnd == FALSE

OnTTSEnded ==
    /\ disabledRemote' = MuteAfterEnd
    /\ UNCHANGED <<asrText, calling, commanded, queued, dropped>>

\* An AUDIO_ONLY_RSP frame is converted and pushed unless muted.
OnAudio(f) ==
    LET audio == [origin |-> f.origin, utt |-> f.utt]
    IN /\ IF disabledRemote
          THEN /\ dropped' = dropped \cup {[audio |-> audio, commands |-> Len(commanded)]}
               /\ UNCHANGED queued
          ELSE /\ queued' = queued \cup {audio}
               /\ UNCHANGED dropped
       /\ UNCHANGED <<asrText, disabledRemote, calling, commanded>>

OnOther == UNCHANGED <<asrText, disabledRemote, calling, commanded, queued, dropped>>

\* on_message: parse() and HandleResponse() on the next frame.
OnMessage(f, e) ==
    /\ calling = NoCall
    /\ inbox # <<>> /\ f = Head(inbox)
    /\ e \in EventsSeen(f)
    /\ inbox' = Tail(inbox)
    /\ \/ e = "TTSSentenceStart" /\ OnSentenceStart(f)
       \/ e = "ASRResponse" /\ OnASRResponse(f)
       \/ e = "ASREnded" /\ OnASREnded(f)
       \/ e = "TTSEnded" /\ OnTTSEnded
       \/ f.event = "TTSResponse" /\ OnAudio(f)
       \/ e \in {"ChatResponse", "TTSResponse"} /\ f.event # "TTSResponse" /\ OnOther
    /\ UNCHANGED <<chats, unspoken, serverVars, losses>>

\* The connection is lost and a new session begins: on_close and on_error touch
\* is_ready alone, so asrText and disabled_remote live on.
Reconnect ==
    /\ losses < MaxLosses
    /\ calling = NoCall
    /\ losses' = losses + 1
    /\ inbox' = <<>>
    /\ chats' = <<>>
    /\ listening' = FALSE
    /\ todo' = <<Greeting>>
    /\ step' = 0
    /\ UNCHANGED <<clientVars, bargeIn, spoken, transcripts, others>>

----------------------------------------------------------------------------

MainStep == LcmReturns \/ ReplyThrows \/ \E f \in ToSet(inbox), e \in Events : OnMessage(f, e)

Next ==
    \/ MainStep
    \/ Speak
    \/ \E text \in Texts : Transcribe(text)
    \/ EndSpeech
    \/ Stream
    \/ TakeChat
    \/ \E event \in OtherFrames : SendOther(event)
    \/ Reconnect

\* Main polls, the LCM call returns within its timeout, and the server speaks the
\* streams it owes.
Fairness == WF_vars(MainStep) /\ WF_vars(Stream) /\ WF_vars(TakeChat)

Spec == Init /\ [][Next]_vars

FairSpec == Spec /\ Fairness

----------------------------------------------------------------------------
(* Properties *)

Audio == [origin : {Hello, Cloud, Local}, utt : 0 .. MaxUtterances]
Calls == [utt : Utterances, action : {ActionFile[i].name : i \in DOMAIN ActionFile}]

\* Every variable keeps the type of the field or history it stands for.
TypeOK ==
    /\ asrText \in Texts \cup {NoText}
    /\ disabledRemote \in BOOLEAN
    /\ calling \in Calls \cup {NoCall}
    /\ commanded \in Seq(Calls)
    /\ queued \subseteq Audio
    /\ dropped \subseteq [audio : Audio, commands : Nat]
    /\ unspoken \subseteq Utterances
    /\ inbox \in Seq([event : Events \cup {"none"}, utt : 0 .. MaxUtterances,
                      origin : {Hello, Cloud, Local}, text : Texts \cup {NoText}])
    /\ chats \in Seq(Utterances)
    /\ bargeIn \in BOOLEAN
    /\ spoken \in 0 .. MaxUtterances
    /\ transcripts \in [Utterances -> Seq(Texts)]
    /\ listening \in BOOLEAN
    /\ todo \in Seq(Audio)
    /\ step \in 0 .. AudioFrames + 1
    /\ others \in 0 .. MaxOthers
    /\ losses \in 0 .. MaxLosses

\* The first action of the file that has a pattern for the text, when nothing
\* before it is malformed or broken.
FirstFor(text, name) ==
    \E i \in DOMAIN ActionFile :
        /\ ActionFile[i].name = name /\ ~ActionFile[i].malformed
        /\ text \in ActionFile[i].matches
        /\ \A j \in 1 .. i - 1 : ~(\/ text \in ActionFile[j].matches
                                    \/ ActionFile[j].broken
                                    \/ ActionFile[j].malformed)

\* A command is the first action of the file for a text of utterance u: the last
\* text of its own utterance or, if that one has none, of the latest that has one.
\* If a connection has been lost, that may be any text of an earlier utterance.
ActsOn(call, u, text) ==
    /\ FirstFor(text, call.action)
    /\ transcripts[call.utt] # <<>> \/ losses = 0 =>
          /\ text = Last(transcripts[u])
          /\ \A v \in u + 1 .. call.utt : transcripts[v] = <<>>

\* The robot is commanded once per utterance at most, with the action of the last
\* transcript and not of an earlier guess, whatever the user says next.  An
\* utterance without a transcript commands it again with what was said before:
\* asrText is never cleared, not even for a new session.
CommandIsFinal ==
    /\ \A i \in DOMAIN commanded :
          \E u \in 1 .. commanded[i].utt : \E text \in ToSet(transcripts[u]) :
              ActsOn(commanded[i], u, text)
    /\ \A i, j \in DOMAIN commanded : i # j => commanded[i].utt # commanded[j].utt

\* localai.json: a phrase is written down as a pattern of the action it is to
\* cause (".*停止前进.*" of the action that stops the robot): no other action is
\* sent to the robot for it.
CommandIsMeant ==
    \A i \in DOMAIN commanded, k \in DOMAIN ActionFile :
        LET texts == transcripts[commanded[i].utt]
        IN texts # <<>> /\ Last(texts) \in ActionFile[k].phrases
               => commanded[i].action = ActionFile[k].name

\* Of a local reply nothing is lost to the mute, unless the user has commanded
\* something else meanwhile: the start of the reply always comes before its audio
\* and lifts the mute.
LocalReplyHeard ==
    \A d \in dropped :
        d.audio.origin = Local =>
            \E i \in 1 .. d.commands : commanded[i].utt > d.audio.utt

\* When the user waits for the replies, the cloud's own answer to an utterance the
\* robot acted on is never played, neither before nor after the local reply; it is
\* only if there is no such reply, because ChatTTSText has thrown.
CloudAnswerSilenced ==
    ~bargeIn =>
        \A audio \in queued, j \in DOMAIN commanded :
            audio.origin = Cloud /\ audio.utt = commanded[j].utt => audio.utt \in unspoken

\* The mute is always lifted again, also when the connection is lost while it is
\* on: a reply or, in the next session, the greeting ends.
MuteLifted == disabledRemote ~> ~disabledRemote

\* Only a frame with the flag MSG_WITH_EVENT carries an event ID: the robot is
\* commanded when a frame carrying ASREnded is handled, and by no other frame.
CommandIsCarried == [][commanded' # commanded => Head(inbox).event = "ASREnded"]_vars
=============================================================================
