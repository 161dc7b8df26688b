--------------------------- MODULE HuoshanEngine ---------------------------
(***************************************************************************)
(* The control side of HuoshanEngine and of the websocket client it owns.  *)
(*                                                                         *)
(* Main polls the io_context: it walks a Connection through resolve,       *)
(* connect, TLS handshake and HTTP upgrade, answers the server's session   *)
(* events, and on a loss clears is_ready and, when auto_reconnect is set,  *)
(* calls connect(), which replaces client.connection under                 *)
(* connection_mutex.  The capture device's thread runs the callback of     *)
(* recordDev: it tests is_ready, builds a TaskRequest, reads               *)
(* client.connection without the mutex and sends.                          *)
(*                                                                         *)
(* Connections are numbered in the order of the calls of connect().  By    *)
(* SendQueue's refinement of Channel a connection is the sequence of the   *)
(* frames it accepted.  The network and the server are the environment.    *)
(***************************************************************************)
EXTENDS SequencesExt

CONSTANTS
    MaxConn,       \* bound: connections made in a behaviour
    MaxChunks      \* bound: audio chunks that pass the test of is_ready

ASSUME BoundsAssumption == MaxConn \in Nat \ {0} /\ MaxChunks \in Nat

Conns == 1 .. MaxConn

NoConn == 0                      \* client.connection is null

Stages == {"none", "resolve", "connect", "handshake", "upgrade", "open", "dead"}
Frames == {"StartConnect", "StartSession", "SayHello", "TaskRequest", "Close"}
Phases == {"before", "in", "after"}

Events == {"ConnectionStarted", "ConnectionFailed", "SessionStarted",
           "SessionFailed", "SessionFinished", "Close"}

VARIABLES
    autoReconnect, \* SocketClientBase::auto_reconnect, which no one initialises
    connection,    \* SocketClientBase::connection
    stage,         \* connection -> how far its chain of handlers has come
    freed,         \* the Connection objects that have been destroyed
    sent,          \* connection -> frames it accepted
    isReady,       \* HuoshanProto::is_ready
    mainPc,        \* where Main is: "start", "poll", "assign", "handle", "read"
    handling,      \* the event Main is handling, and its connection
    capturePc,     \* where the capture thread is: "idle", "build", "send", "write"
    target,        \* the Connection the capture thread read
    crashed,       \* the process died: use of a destroyed or null Connection
    inbox,         \* connection -> events the server sent, not yet read
    server,        \* connection -> what the server has done
    taken,         \* connection -> how many frames the server has taken
    phase,         \* history: connection -> its session as Main saw it
    stale,         \* history: chunks sent outside a session, as <<connection, phase>>
    chunks         \* chunks so far

clientVars == <<autoReconnect, connection, stage, freed>>
protoVars == <<isReady, phase>>
mainVars == <<mainPc, handling>>
captureVars == <<capturePc, target, chunks, stale>>
serverVars == <<inbox, server, taken>>

vars == <<autoReconnect, connection, stage, freed, sent, isReady, mainPc, handling,
          capturePc, target, crashed, inbox, server, taken, phase, stale, chunks>>

NoEvent == [event |-> "none", conn |-> NoConn]

Init ==
    /\ autoReconnect \in BOOLEAN
    /\ connection = NoConn
    /\ stage = [c \in Conns |-> "none"]
    /\ freed = {}
    /\ sent = [c \in Conns |-> <<>>]
    /\ isReady = FALSE
    /\ mainPc = "start"
    /\ handling = NoEvent
    /\ capturePc = "idle"
    /\ target = NoConn
    /\ crashed = FALSE
    /\ inbox = [c \in Conns |-> <<>>]
    /\ server = [c \in Conns |-> "new"]
    /\ taken = [c \in Conns |-> 0]
    /\ phase = [c \in Conns |-> "before"]
    /\ stale = <<>>
    /\ chunks = 0

----------------------------------------------------------------------------
(* Main: connecting *)

Polling == mainPc = "poll" /\ ~crashed

Live(c) == stage[c] \notin {"none", "dead"}

\* The bound on connections: the last one cannot fail when it would be replaced.
MayFail(c) == autoReconnect => c < MaxConn

\* Connect(false) -> start_nonblock() -> connect().
Start ==
    /\ mainPc = "start"
    /\ mainPc' = "assign"
    /\ UNCHANGED <<clientVars, sent, protoVars, handling, captureVars, crashed, serverVars>>

\* connect(): with connection_mutex held, a new Connection replaces the old one;
\* after the unlock its resolve is started.
Assign ==
    /\ mainPc = "assign"
    /\ ~crashed
    /\ connection' = connection + 1
    /\ stage' = [stage EXCEPT ![connection + 1] = "resolve"]
    /\ mainPc' = "poll"
    /\ UNCHANGED <<autoReconnect, freed, sent, protoVars, handling, captureVars,
                   crashed, serverVars>>

NextStage == [resolve |-> "connect", connect |-> "handshake", handshake |-> "upgrade"]

\* A handler of the chain ran without error and started the next operation.
Advance(c) ==
    /\ Polling
    /\ stage[c] \in DOMAIN NextStage
    /\ stage' = [stage EXCEPT ![c] = NextStage[stage[c]]]
    /\ UNCHANGED <<autoReconnect, connection, freed, sent, protoVars, mainVars,
                   captureVars, crashed, serverVars>>

\* send() on a Connection that Main's handler owns.
MainSends(c, frame) == sent' = [sent EXCEPT ![c] = Append(@, frame)]

\* The server accepted the upgrade: connection_open(), on_open(), read_message().
Open(c) ==
    /\ Polling
    /\ stage[c] = "upgrade"
    /\ stage' = [stage EXCEPT ![c] = "open"]
    /\ MainSends(c, "StartConnect")
    /\ UNCHANGED <<autoReconnect, connection, freed, protoVars, mainVars,
                   captureVars, crashed, serverVars>>

\* The old Connection is destroyed once neither the client, nor Main's handler,
\* nor a write that was in progress refers to it.
Release(c) ==
    /\ Polling
    /\ stage[c] = "dead"
    /\ c # connection
    /\ c \notin freed
    /\ ~(capturePc = "write" /\ target = c)
    /\ freed' = freed \cup {c}
    /\ UNCHANGED <<autoReconnect, connection, stage, sent, protoVars, mainVars,
                   captureVars, crashed, serverVars>>

----------------------------------------------------------------------------
(* Main: losing the connection *)

ReadyKept == isReady             \* mutant: on_close and on_error keep is_ready
ReadyAfterLoss == FALSE

ReconnectAlways == TRUE          \* mutant: connect() without the test
ReconnectNever == FALSE          \* mutant: auto_reconnect is not looked at
Reconnects == autoReconnect

StageKept(c) == stage[c]         \* mutant: the failed handler goes on
StageAfterLoss(c) == "dead"

\* on_close or on_error has returned; then auto_reconnect is tested.
Lose(c) ==
    /\ isReady' = ReadyAfterLoss
    /\ phase' = [phase EXCEPT ![c] = "after"]
    /\ stage' = [stage EXCEPT ![c] = StageAfterLoss(c)]
    /\ mainPc' = IF Reconnects THEN "assign" ELSE "poll"
    /\ handling' = NoEvent

\* connection_error(): any operation of the chain, or the reader, failed.
Error(c) ==
    /\ Polling
    /\ Live(c)
    /\ MayFail(c)
    /\ Lose(c)
    /\ UNCHANGED <<autoReconnect, connection, freed, sent, captureVars, crashed, serverVars>>

\* The reader met a close frame: send_close(), then connection_close().
Closed(c) ==
    /\ Polling
    /\ stage[c] = "open"
    /\ inbox[c] # <<>> /\ Head(inbox[c]) = "Close"
    /\ MayFail(c)
    /\ MainSends(c, "Close")
    /\ inbox' = [inbox EXCEPT ![c] = Tail(@)]
    /\ Lose(c)
    /\ UNCHANGED <<autoReconnect, connection, freed, captureVars, crashed, server, taken>>

----------------------------------------------------------------------------
(* Main: on_message *)

\* HuoshanProto::parse(): the session events switch is_ready.
Parse(c) ==
    LET e == Head(inbox[c])
    IN /\ Polling
       /\ stage[c] = "open"
       /\ inbox[c] # <<>> /\ e # "Close"
       /\ inbox' = [inbox EXCEPT ![c] = Tail(@)]
       /\ isReady' = CASE e = "SessionStarted" -> TRUE
                       [] e = "SessionFinished" -> FALSE
                       [] OTHER -> isReady
       /\ phase' = [phase EXCEPT ![c] =
                       CASE e = "SessionStarted" -> "in"
                         [] e = "SessionFinished" -> "after"
                         [] OTHER -> @]
       /\ mainPc' = "handle"
       /\ handling' = [event |-> e, conn |-> c]
       /\ UNCHANGED <<clientVars, sent, captureVars, crashed, server, taken>>

\* mutant: the greeting is sent as soon as the connection is accepted
AnswersSwapped == [ConnectionStarted |-> "SayHello", SessionStarted |-> "StartSession"]
Answers == [ConnectionStarted |-> "StartSession", SessionStarted |-> "SayHello"]

\* HandleResponse(): the answer to the event goes to the connection it came from.
\* Then read_message() is called.
Handle ==
    LET e == handling.event
        c == handling.conn
    IN /\ mainPc = "handle"
       /\ ~crashed
       /\ IF e \in DOMAIN Answers THEN MainSends(c, Answers[e]) ELSE UNCHANGED sent
       /\ isReady' = (isReady \/ e = "SessionStarted")
       /\ mainPc' = "read"
       /\ handling' = [handling EXCEPT !.event = "none"]
       /\ UNCHANGED <<clientVars, phase, captureVars, crashed, serverVars>>

\* read_message() works on the connection's ssl stream in Main, to start the read
\* of the next frame, and returns.
ReadNext ==
    /\ mainPc = "read"
    /\ ~crashed
    /\ mainPc' = "poll"
    /\ handling' = NoEvent
    /\ UNCHANGED <<clientVars, sent, protoVars, captureVars, crashed, serverVars>>

----------------------------------------------------------------------------
(* The capture thread: the callback of recordDev *)

Check ==
    /\ capturePc = "idle"
    /\ ~crashed
    /\ chunks < MaxChunks
    /\ isReady
    /\ capturePc' = "build"
    /\ chunks' = chunks + 1
    /\ UNCHANGED <<clientVars, sent, protoVars, mainVars, target, stale, crashed, serverVars>>

\* client.send() reads connection, with no lock: while Main is in connect() it
\* may find the old pointer or the new one.
Read ==
    /\ capturePc = "build"
    /\ ~crashed
    /\ target' = connection
    /\ capturePc' = "send"
    /\ UNCHANGED <<clientVars, sent, protoVars, mainVars, chunks, stale, crashed, serverVars>>

\* connection->send(TaskRequest) puts the chunk in the queue; when the queue was
\* empty, send_from_queue() also starts the write in this thread.  A null or
\* destroyed Connection kills the process, or the chunk goes nowhere.
SendChunk ==
    /\ capturePc = "send"
    /\ ~crashed
    /\ IF target \in freed \cup {NoConn}
       THEN /\ crashed' \in BOOLEAN
            /\ capturePc' = "idle"
            /\ target' = NoConn
            /\ UNCHANGED <<sent, stale>>
       ELSE /\ sent' = [sent EXCEPT ![target] = Append(@, "TaskRequest")]
            /\ stale' = IF phase[target] = "in" THEN stale
                        ELSE Append(stale, <<target, phase[target]>>)
            /\ \/ capturePc' = "idle" /\ target' = NoConn
               \/ capturePc' = "write" /\ UNCHANGED target
            /\ UNCHANGED crashed
    /\ UNCHANGED <<clientVars, protoVars, mainVars, chunks, serverVars>>

\* async_write() has worked on the connection's ssl stream, and returns.
StartWrite ==
    /\ capturePc = "write"
    /\ ~crashed
    /\ capturePc' = "idle"
    /\ target' = NoConn
    /\ UNCHANGED <<clientVars, sent, protoVars, mainVars, chunks, stale, crashed, serverVars>>

----------------------------------------------------------------------------
(* The server: it takes the frames of an open connection in order *)

ServerSays(c, e) == inbox' = [inbox EXCEPT ![c] = Append(@, e)]

serverUnchanged == <<clientVars, sent, protoVars, mainVars, captureVars, crashed>>

Take(c) ==
    LET frame == sent[c][taken[c] + 1]
    IN /\ stage[c] = "open"
       /\ server[c] # "closed"
       /\ taken[c] < Len(sent[c])
       /\ taken' = [taken EXCEPT ![c] = @ + 1]
       /\ \/ /\ frame = "StartConnect"
             /\ \/ ServerSays(c, "ConnectionStarted") /\ server' = [server EXCEPT ![c] = "connected"]
                \/ ServerSays(c, "ConnectionFailed") /\ server' = [server EXCEPT ![c] = "refused"]
          \/ /\ frame = "StartSession"
             /\ \/ ServerSays(c, "SessionStarted") /\ server' = [server EXCEPT ![c] = "session"]
                \/ ServerSays(c, "SessionFailed") /\ server' = [server EXCEPT ![c] = "refused"]
          \/ /\ frame \notin {"StartConnect", "StartSession"}
             /\ UNCHANGED <<inbox, server>>
       /\ UNCHANGED serverUnchanged

\* The server ends the session, or closes the connection.
Finish(c) ==
    /\ stage[c] = "open"
    /\ server[c] = "session"
    /\ ServerSays(c, "SessionFinished")
    /\ server' = [server EXCEPT ![c] = "over"]
    /\ UNCHANGED <<taken, serverUnchanged>>

Close(c) ==
    /\ stage[c] = "open"
    /\ server[c] # "closed"
    /\ MayFail(c)
    /\ ServerSays(c, "Close")
    /\ server' = [server EXCEPT ![c] = "closed"]
    /\ UNCHANGED <<taken, serverUnchanged>>

----------------------------------------------------------------------------

MainStep ==
    \/ Start
    \/ Assign
    \/ \E c \in Conns : Advance(c) \/ Open(c) \/ Closed(c) \/ Parse(c)
    \/ Handle \/ ReadNext

CaptureStep == Check \/ Read \/ SendChunk \/ StartWrite

Next ==
    \/ MainStep
    \/ \E c \in Conns : Error(c) \/ Release(c)
    \/ CaptureStep
    \/ \E c \in Conns : Take(c) \/ Finish(c) \/ Close(c)

\* Main polls every 10 ms, a chunk once begun is sent, and the network and the
\* server answer what reached them.
Fairness ==
    /\ WF_vars(MainStep)
    /\ WF_vars(Read) /\ WF_vars(SendChunk) /\ WF_vars(StartWrite)
    /\ \A c \in Conns : WF_vars(Take(c))

Spec == Init /\ [][Next]_vars

FairSpec == Spec /\ Fairness

----------------------------------------------------------------------------
(* Properties *)

\* Every variable keeps the type of the field or history it stands for.
TypeOK ==
    /\ autoReconnect \in BOOLEAN
    /\ connection \in Conns \cup {NoConn}
    /\ stage \in [Conns -> Stages]
    /\ freed \subseteq Conns
    /\ sent \in [Conns -> Seq(Frames)]
    /\ isReady \in BOOLEAN
    /\ mainPc \in {"start", "poll", "assign", "handle", "read"}
    /\ handling \in [event : Events \cup {"none"}, conn : Conns \cup {NoConn}]
    /\ capturePc \in {"idle", "build", "send", "write"}
    /\ target \in Conns \cup {NoConn}
    /\ crashed \in BOOLEAN
    /\ inbox \in [Conns -> Seq(Events)]
    /\ server \in [Conns -> {"new", "connected", "session", "over", "refused", "closed"}]
    /\ taken \in [Conns -> Nat]
    /\ phase \in [Conns -> Phases]
    /\ stale \in Seq(Conns \X Phases)
    /\ chunks \in 0 .. MaxChunks

\* A reconnect never leaves the handlers of two connections running: the chain
\* that has not ended belongs to client.connection, and there is none while
\* connect() replaces it.
OneChain ==
    \A c \in Conns : Live(c) => c = connection /\ mainPc # "assign"

ServerTook(c, frame) == \E i \in 1 .. taken[c] : sent[c][i] = frame

\* What the capture thread relies on when is_ready is true: there is a current
\* connection, it is open, and its server has begun the session and Main has
\* seen no end of it.  A flag left over from an earlier connection would break
\* this.
ReadyMeansSession ==
    isReady => /\ connection # NoConn
               /\ stage[connection] = "open"
               /\ ServerTook(connection, "StartSession")
               /\ phase[connection] = "in"

Handshake == {"StartConnect", "StartSession", "SayHello"}
Before == [StartSession |-> "StartConnect", SayHello |-> "StartSession"]

\* On every connection, the first as well as the one after a loss in the middle
\* of the handshake, each frame of the handshake is sent once at most, and only
\* after the server has taken the one before it.
HandshakeInOrder ==
    \A c \in Conns : \A i \in DOMAIN sent[c] :
        /\ sent[c][i] \in Handshake =>
              \A j \in DOMAIN sent[c] : sent[c][j] = sent[c][i] => j = i
        /\ sent[c][i] \in DOMAIN Before =>
              \E j \in 1 .. taken[c] : j < i /\ sent[c][j] = Before[sent[c][i]]

\* The capture thread tests is_ready and sends later, and Main may end the session
\* or replace the connection in between.  That slips one chunk at most past each
\* boundary: one into a connection before its session, one after its end.
OneStaleChunk == IsInjective(stale)

\* A frame that is on its way to the server; an event that is on its way to Main,
\* or with it.
Underway(c, frame) == \E i \in taken[c] + 1 .. Len(sent[c]) : sent[c][i] = frame
Waits(c, e) == e \in ToSet(inbox[c])
Handles(c, e) == handling.event = e /\ handling.conn = c

\* The next step of c's handshake is somebody's to take, or the server ends it.
HandshakeOwed(c) ==
    \/ Underway(c, "StartConnect") \/ Underway(c, "StartSession")
    \/ Waits(c, "ConnectionStarted") \/ Handles(c, "ConnectionStarted")
    \/ Waits(c, "SessionStarted")
    \/ server[c] = "refused" \/ Waits(c, "Close")

\* Nobody waits for a step that nobody will take: a client that reconnects always
\* has a connection or is about to make one; on an open connection the handshake
\* never stalls between Main and the server, wherever the capture thread's chunks
\* or an earlier loss come in between; and a session that Main has seen begin and
\* not end lets the voice through and is greeted.
NeverStranded ==
    /\ autoReconnect /\ mainPc \notin {"start", "assign"} =>
          connection # NoConn /\ Live(connection)
    /\ \A c \in Conns : stage[c] = "open" /\ phase[c] = "before" => HandshakeOwed(c)
    /\ \A c \in Conns : phase[c] = "in" =>
          isReady /\ ("SayHello" \in ToSet(sent[c]) \/ Handles(c, "SessionStarted"))

\* A client that reconnects and lost a connection gets a session again, or is
\* refused by the server, unless the capture thread's stale Connection killed
\* the process.
SessionAgain ==
    \A c \in 1 .. MaxConn - 1 :
        (autoReconnect /\ stage[c] = "dead")
            ~> (crashed \/ \E d \in c + 1 .. MaxConn :
                            phase[d] # "before" \/ server[d] \in {"refused", "closed"})

\* connection is declared GUARDED_BY(connection_mutex): no thread reads it while
\* connect() holds the mutex and replaces it.
ConnectionGuarded == ~(capturePc = "build" /\ mainPc = "assign")

\* asio says of an ssl stream as a shared object: unsafe, all its asynchronous
\* operations belong to one strand.  Two threads never work on the stream of one
\* connection.
StreamAlone ==
    (capturePc = "write" /\ mainPc = "read") => target # handling.conn

----------------------------------------------------------------------------
(* The engine keeps sessions. *)

Up == connection # NoConn /\ Live(connection)

Promise == INSTANCE Sessions WITH current <- connection, up <- Up, session <- phase,
                                  ready <- isReady

\* Every step of Main, of the capture thread and of the server is a step of the
\* sessions or leaves them alone, although is_ready, connection and the session
\* events change at different moments: is_ready changes together with the session
\* it stands for, only the last connection's session moves, and it moves on.
ImplementsSessions == Promise!Spec
=============================================================================
