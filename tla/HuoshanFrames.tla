--------------------------- MODULE HuoshanFrames ---------------------------
(***************************************************************************)
(* The frames HuoshanProto and the cloud exchange: genrate_header(), the   *)
(* builders of requests, parse(), and the length in a websocket header as  *)
(* Connection::send() writes it and read_message() reads it.               *)
(*                                                                         *)
(* An integer of the format is its four bytes.  A text or a piece of audio *)
(* is abstracted to its length, and written <<length>>: it is garbled when *)
(* another number of bytes, or another place, is read for it.  What the    *)
(* cloud writes and reads is the format the enumerations of HuoshanProto   *)
(* describe.                                                               *)
(***************************************************************************)
EXTENDS Integers, Sequences

CONSTANTS
    CharSigned,    \* is char a signed type? no on ARM, the target of the build
    Sessions,      \* lengths of session_id
    Payloads,      \* lengths of payloads
    Flags,         \* message_flags in the cloud's frames
    Numbers,       \* what it uses for sequence numbers and error codes
    Reserved       \* what an uninitialised byte may hold

Shift16 == 256 * 256
Shift24 == 256 * 256 * 256
Max16 == Shift16 - 1             \* 0xffff

Byte == 0 .. 255
Word == Byte \X Byte \X Byte \X Byte

MaxLength == 64 * Shift24        \* a text that fits in the memory of the target

ASSUME FramesAssumption ==
    /\ CharSigned \in BOOLEAN
    /\ Sessions \subseteq 0 .. MaxLength /\ Sessions # {}
    /\ Payloads \subseteq 0 .. MaxLength
    /\ Flags \subseteq 0 .. 15
    /\ Numbers \subseteq Word
    /\ Reserved \subseteq Byte

----------------------------------------------------------------------------
(* Integers *)

\* mutant: the shifted values are not cut to a byte
Uncut(d) == <<d \div Shift24, d \div Shift16, d \div 256, d>>
to_bytesb(d) == <<(d \div Shift24) % 256, (d \div Shift16) % 256, (d \div 256) % 256, d % 256>>

\* The bytes are or-ed together as chars: a negative one sets all bits above it.
from_byteb(bytes) ==
    [i \in 1 .. 4 |-> IF CharSigned /\ \E j \in i + 1 .. 4 : bytes[j] >= 128
                      THEN 255 ELSE bytes[i]]

----------------------------------------------------------------------------
(* Headers *)

FULL_CLIENT_REQ == 1
AUDIO_ONLY_REQ == 2
FULL_SERVER_RSP == 9
AUDIO_ONLY_RSP == 11
ERROR_INFO == 15

MSG_WITH_EVENT == 4
NO_SERIALIZATION == 0
JSON == 1

\* reserved is not initialised: it may be any byte.
genrate_header(type, serialization, reserved) ==
    <<1 * 16 + 1, type * 16 + MSG_WITH_EVENT, serialization * 16, reserved>>

MessageType(head) == head[2] \div 16
MessageFlags(head) == head[2] % 16

----------------------------------------------------------------------------
(* Requests.  A frame is a header and what follows it. *)

Frame(head, items) == [head |-> head, items |-> items]

Sized(length) == <<to_bytesb(length), <<length>>>>

StartConnect(reserved) ==
    Frame(genrate_header(FULL_CLIENT_REQ, JSON, reserved), <<to_bytesb(1)>> \o Sized(2))

FinishConnect(reserved) ==
    Frame(genrate_header(FULL_CLIENT_REQ, JSON, reserved), <<to_bytesb(2)>> \o Sized(2))

SessionItems(event, session, payload) ==
    <<to_bytesb(event)>> \o Sized(session) \o Sized(payload)

\* StartSession (100) with the prompt, FinishSession (102) with {}, SayHello (300)
\* and ChatTTSText (500) with a JSON text.
SessionRequest(event, session, payload, reserved) ==
    Frame(genrate_header(FULL_CLIENT_REQ, JSON, reserved),
          SessionItems(event, session, payload))

TaskRequest(session, length, reserved) ==
    Frame(genrate_header(AUDIO_ONLY_REQ, NO_SERIALIZATION, reserved),
          SessionItems(200, session, length))

Absent == -1                     \* a text that a frame does not have

Requests(session) ==
    [event : {1, 2}, session : {Absent}, payload : {2}]
    \cup [event : {102}, session : {session}, payload : {2}]
    \cup [event : {100, 200, 300, 500}, session : {session}, payload : Payloads]

Built(r, reserved) ==
    CASE r.event = 1 -> StartConnect(reserved)
      [] r.event = 2 -> FinishConnect(reserved)
      [] r.event = 200 -> TaskRequest(r.session, r.payload, reserved)
      [] OTHER -> SessionRequest(r.event, r.session, r.payload, reserved)

----------------------------------------------------------------------------
(* The length of a frame, in the header of the websocket message *)

ItemLength(item) == IF Len(item) = 4 THEN 4 ELSE item[1]

\* A frame has 4 bytes of header, and six items at most.
FrameLength(items) ==
    LET at(i) == IF i <= Len(items) THEN ItemLength(items[i]) ELSE 0
    IN 4 + at(1) + at(2) + at(3) + at(4) + at(5) + at(6)

\* mutants: a boundary is missed by one
MediumLate(length) == length > 126
LongLate(length) == length > Shift16
Medium(length) == length >= 126
Long(length) == length > Max16

\* send(): the length in 7 bits, in 2 bytes or in 8, and 128 for the mask.
LengthHeader(length) ==
    IF ~Medium(length) THEN <<length + 128>>
    ELSE IF ~Long(length) THEN <<126 + 128, (length \div 256) % 256, length % 256>>
    ELSE <<127 + 128, 0, 0, 0, 0>> \o to_bytesb(length)

\* size_t has 32 bits: what is shifted above them is lost.
Number(bytes) == bytes[1] * Shift24 + bytes[2] * Shift16 + bytes[3] * 256 + bytes[4]

\* read_message(), which refuses a masked frame before it comes to this.
ReadLength(bytes) ==
    LET length == bytes[1] % 128
    IN IF length = 126 THEN bytes[2] * 256 + bytes[3]
       ELSE IF length = 127 THEN Number(SubSeq(bytes, 6, 9))
       ELSE length

----------------------------------------------------------------------------
(* The cloud (external): a message is preceded by the shortest form of its *)
(* length, masked by the client and not by the cloud; flags say what a     *)
(* response has.                                                           *)

Garbled == -2                    \* for a text or a length
Unset == <<>>                    \* an integer that a frame does not have

CloudHeader(length) ==
    IF length <= 125 THEN <<length>>
    ELSE IF length <= Max16 THEN <<126, length \div 256, length % 256>>
    ELSE <<127, 0, 0, 0, 0>> \o to_bytesb(length)

CloudLength(bytes) ==
    IF bytes[1] < 254 /\ Len(bytes) = 1 THEN bytes[1] - 128
    ELSE IF bytes[1] = 254 /\ Len(bytes) = 3 THEN bytes[2] * 256 + bytes[3]
    ELSE IF bytes[1] = 255 /\ Len(bytes) = 9 /\ bytes[2] = 0 THEN Number(SubSeq(bytes, 6, 9))
    ELSE Garbled

\* A text the cloud finds at place i.
CloudText(items, i) ==
    IF i < Len(items) /\ Len(items[i + 1]) = 1 /\ items[i] = to_bytesb(items[i + 1][1])
    THEN items[i + 1][1] ELSE Garbled

\* The cloud understands a request: its events 1 and 2 are about no session.
CloudUnderstands(r, bytes, f) ==
    /\ CloudLength(bytes) = FrameLength(f.items)
    /\ MessageType(f.head) = IF r.event = 200 THEN AUDIO_ONLY_REQ ELSE FULL_CLIENT_REQ
    /\ MessageFlags(f.head) = MSG_WITH_EVENT
    /\ f.items[1] = to_bytesb(r.event)
    /\ IF r.event \in {1, 2}
       THEN CloudText(f.items, 2) = r.payload
       ELSE /\ CloudText(f.items, 2) = r.session
            /\ CloudText(f.items, 4) = r.payload

\* 1: a sequence number above 0; 2: the last packet, without one; 3: the last
\* packet, with a number below 0.
HasSequence(flags) == flags % 4 \in {1, 3}
HasEvent(flags) == (flags \div 4) % 2 = 1

Started == 150                   \* SessionStarted
Finished == 152                  \* SessionFinished

Events == {to_bytesb(e) : e \in {50, 51, 52, Started, Finished, 153, 350, 351, 352, 359,
                                 450, 451, 459, 550, 559}}

Optionally(present, values) == IF present THEN values ELSE {Unset}

Responses ==
    [type : {ERROR_INFO}, flags : Flags, seq : {Unset}, event : {Unset},
     code : Numbers, session : {Absent}, payload : Payloads]
    \cup UNION {[type : {FULL_SERVER_RSP, AUDIO_ONLY_RSP}, flags : {f},
                 seq : Optionally(HasSequence(f), Numbers),
                 event : Optionally(HasEvent(f), Events),
                 code : {Unset}, session : Sessions, payload : Payloads] : f \in Flags}

CloudItems(r) ==
    IF r.type = ERROR_INFO THEN <<r.code>> \o Sized(r.payload)
    ELSE (IF HasSequence(r.flags) THEN <<r.seq>> ELSE <<>>)
         \o (IF HasEvent(r.flags) THEN <<r.event>> ELSE <<>>)
         \o Sized(r.session) \o Sized(r.payload)

CloudFrame(r) == Frame(<<17, r.type * 16 + r.flags, 16, 0>>, CloudItems(r))

\* Flags that mean the same to parse() and to the cloud: it misses the number that
\* goes with 1 and reads one with 2.
Agreed(flags) == flags % 4 \in {0, 3}
Regular(r) == r.type = ERROR_INFO \/ Agreed(r.flags)

\* An integer that from_byteb() gives back as it was sent: on a platform with
\* signed chars one without bytes above 127, or a small negative one.
Kept(bytes) ==
    CharSigned => \A j \in 2 .. 4 : bytes[j] >= 128 => \A i \in 1 .. j - 1 : bytes[i] = 255

AllKept(items) == \A i \in DOMAIN items : Len(items[i]) = 4 => Kept(items[i])

----------------------------------------------------------------------------
(* parse().  A field that it does not read stays uninitialised. *)

Integer(items, i) ==
    IF i <= Len(items) /\ Len(items[i]) = 4 THEN from_byteb(items[i]) ELSE <<Garbled>>

Text(items, i) ==
    IF i < Len(items) /\ Len(items[i]) = 4 /\ Len(items[i + 1]) = 1
       /\ from_byteb(items[i]) = to_bytesb(items[i + 1][1])
    THEN items[i + 1][1] ELSE Garbled

SequenceExact(flags) == flags = 3      \* mutant: flags are values, not bits
ReadsSequence(flags) == (flags \div 2) % 2 = 1
ReadsEvent(flags) == (flags \div 4) % 2 = 1

NotSkipped(flags) == 1                 \* mutant: start is not moved
AfterSequence(flags) == IF ReadsSequence(flags) THEN 2 ELSE 1
AfterEvent(flags) == AfterSequence(flags) + (IF ReadsEvent(flags) THEN 1 ELSE 0)

parse(f) ==
    LET type == MessageType(f.head)
        flags == MessageFlags(f.head)
    IN IF type \in {FULL_SERVER_RSP, AUDIO_ONLY_RSP}
       THEN [type |-> type, flags |-> flags,
             seq |-> IF ReadsSequence(flags) THEN Integer(f.items, 1) ELSE Unset,
             event |-> IF ReadsEvent(flags) THEN Integer(f.items, AfterSequence(flags)) ELSE Unset,
             code |-> Unset,
             session |-> Text(f.items, AfterEvent(flags)),
             payload |-> Text(f.items, AfterEvent(flags) + 2)]
       ELSE [type |-> type, flags |-> flags, seq |-> Unset, event |-> Unset,
             code |-> IF type = ERROR_INFO THEN Integer(f.items, 1) ELSE Unset,
             session |-> Absent,
             payload |-> IF type = ERROR_INFO THEN Text(f.items, 2) ELSE Absent]

----------------------------------------------------------------------------
(* HandleResponse() compares the event of every message, also of one in     *)
(* which parse() found none: that event may be any number, and what matters *)
(* here is whether it happens to be SessionStarted.                         *)

EventsSeen(event) == {event} \cup (IF event = Unset THEN {to_bytesb(Started)} ELSE {})

----------------------------------------------------------------------------
(* A connection: messages go to and fro, one at a time *)

VARIABLES
    session,       \* the length of session_id
    wire,          \* the message under way, in a sequence of one, or none: what is
                   \* meant, the length in its websocket header, and the frame
    isReady,       \* HuoshanProto::is_ready
    inSession,     \* history: what the cloud has said of the session
    unsaid,        \* history: it has sent a response without an event since then
    regular        \* history: it has sent nothing but regular responses

vars == <<session, wire, isReady, inSession, unsaid, regular>>

Init ==
    /\ session \in Sessions
    /\ wire = <<>>
    /\ isReady = FALSE
    /\ inSession = FALSE
    /\ unsaid = FALSE
    /\ regular = TRUE

Message(to, meant, header, f) ==
    [to |-> to, meant |-> meant, length |-> header, frame |-> f]

\* A request is built and given to send().
ClientSends(r, reserved) ==
    LET f == Built(r, reserved)
    IN /\ wire = <<>>
       /\ wire' = <<Message("cloud", r, LengthHeader(FrameLength(f.items)), f)>>
       /\ UNCHANGED <<session, isReady, inSession, unsaid, regular>>

CloudReads ==
    /\ wire # <<>> /\ wire[1].to = "cloud"
    /\ wire' = <<>>
    /\ UNCHANGED <<session, isReady, inSession, unsaid, regular>>

CloudSends(r) ==
    LET f == CloudFrame(r)
    IN /\ wire = <<>>
       /\ wire' = <<Message("client", r, CloudHeader(FrameLength(f.items)), f)>>
       /\ inSession' = \/ r.event = to_bytesb(Started)
                       \/ inSession /\ r.event # to_bytesb(Finished)
       /\ unsaid' = \/ r.event = Unset
                    \/ unsaid /\ r.event \notin {to_bytesb(Started), to_bytesb(Finished)}
       /\ regular' = (regular /\ Regular(r) /\ AllKept(f.items))
       /\ UNCHANGED <<session, isReady>>

\* parse() switches is_ready for an event that it reads, and HandleResponse() sets
\* it for the one that it sees.
ReadyAfter(event, seen) ==
    \/ to_bytesb(Started) \in {event, seen}
    \/ isReady /\ event # to_bytesb(Finished)

\* read_message(), and HandleResponse() with parse() in it.
ClientReads ==
    /\ wire # <<>> /\ wire[1].to = "client"
    /\ LET event == parse(wire[1].frame).event
       IN \E seen \in EventsSeen(event) : isReady' = ReadyAfter(event, seen)
    /\ wire' = <<>>
    /\ UNCHANGED <<session, inSession, unsaid, regular>>

Next ==
    \/ \E r \in Requests(session), reserved \in Reserved : ClientSends(r, reserved)
    \/ CloudReads
    \/ \E r \in Responses : CloudSends(r)
    \/ ClientReads

Spec == Init /\ [][Next]_vars

----------------------------------------------------------------------------
(* Properties *)

Under(to) == wire # <<>> /\ wire[1].to = to

Item(item) == item \in Word \/ (Len(item) = 1 /\ item[1] \in Nat)

\* Every variable keeps the type of the field or message it stands for; what goes
\* over the wire as bytes is bytes.
TypeOK ==
    /\ session \in Sessions
    /\ Len(wire) <= 1
    /\ Under("cloud") => wire[1].meant \in Requests(session)
    /\ Under("client") => wire[1].meant \in Responses
    /\ \A k \in DOMAIN wire :
          LET m == wire[k]
          IN /\ m.to \in {"cloud", "client"}
             /\ \A i \in DOMAIN m.length : m.length[i] \in Byte
             /\ m.frame.head \in Word
             /\ \A i \in DOMAIN m.frame.items : Item(m.frame.items[i])
    /\ isReady \in BOOLEAN
    /\ {inSession, unsaid, regular} \subseteq BOOLEAN

\* Whatever the lengths of session ID and payload, the cloud takes a request for a
\* whole message, and finds in it the event, session ID and payload that were put
\* in.
RequestsUnderstood ==
    Under("cloud") => CloudUnderstands(wire[1].meant, wire[1].length, wire[1].frame)

\* read_message() finds the whole of a response.  parse() finds in it what the cloud
\* put in, with no field read in another's place, if its flags mean the same to both
\* and no integer is spoilt by signed chars; it is misread in all other cases.
ResponsesUnderstood ==
    Under("client") =>
        LET f == wire[1].frame
        IN /\ ReadLength(wire[1].length) = FrameLength(f.items)
           /\ Regular(wire[1].meant) /\ AllKept(f.items) <=> parse(f) = wire[1].meant

\* After regular responses is_ready follows the events SessionStarted and
\* SessionFinished: no sequence number, error code or length that looks like one of
\* them switches it, and nothing resets it during a session.  It may be set without
\* a session, but only if the cloud has sent a frame without an event since it last
\* spoke of the session: an error, or a response without MSG_WITH_EVENT.
ReadyFollowsSession ==
    ~Under("client") /\ regular =>
        /\ inSession => isReady
        /\ isReady => inSession \/ unsaid
=============================================================================
