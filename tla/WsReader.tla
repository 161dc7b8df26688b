------------------------------ MODULE WsReader ------------------------------
(***************************************************************************)
(* The incoming side of one websocket Connection (ws_client.hpp): after    *)
(* the HTTP upgrade, read_message() and read_message_content() cut the     *)
(* byte stream into frames, put fragments together and hand out messages.  *)
(*                                                                         *)
(* The stream is the frames the server sent, laid end to end, and a byte   *)
(* is its position in it: the connection's streambuf holds the bytes at    *)
(* low + 1 .. high.  What the code keeps of this is num_additional_bytes,  *)
(* its idea of how much of the streambuf is ahead of it.  A reader that    *)
(* takes other bytes for a header or for a message's content is garbled:   *)
(* it goes on reading, and what it makes of the bytes may be anything.     *)
(***************************************************************************)
EXTENDS SequencesExt

CONSTANTS
    Lengths,       \* lengths of a frame's content (without 1 whole frames are read
                   \* correctly; with it additional may be 1, and half a header parsed)
    Medium,        \* from this length on, 2 more bytes of header (126)
    Long,          \* from this length on, 8 more (0x10000)
    MaxMessage,    \* config.max_message_size
    MaxFrames,     \* bound: frames the server sends
    MaxMisreads    \* bound: frames a garbled reader takes

ASSUME ReaderAssumption ==
    /\ Lengths \subseteq Nat
    /\ {Medium, Long, MaxMessage, MaxFrames, MaxMisreads} \subseteq Nat
    /\ Medium < Long

Control == {"ping", "pong", "close"}
Kinds == {"fragment", "final", "masked"} \cup Control

VARIABLES
    frames,        \* the frames sent, as [kind, length, at]: the first starts at 0
    total,         \* bytes sent
    pc,            \* what is being read
    low, high,     \* the streambuf
    additional,    \* num_additional_bytes
    current,       \* the frame whose header was read last
    fragments,     \* fragmented_in_message, as the frames it is made of
    delivered,     \* history: messages given to on_message
    pongs,         \* history: pings answered
    closeSent,     \* send_close() was called
    losses,        \* calls of connection_error and connection_close
    partial,       \* history: the upgrade response's bytes ended inside a frame
    misreads       \* history: frames taken while garbled

streamVars == <<frames, total>>
bufVars == <<low, high, additional, current>>
outVars == <<fragments, delivered, pongs>>
lossVars == <<closeSent, losses>>
placeVars == <<partial, misreads>>

vars == <<frames, total, pc, low, high, additional, current, fragments, delivered,
          pongs, closeSent, losses, partial, misreads>>

Init ==
    /\ frames = <<>>
    /\ total = 0
    /\ pc = "upgrade"
    /\ low = 0
    /\ high = 0
    /\ additional = 0
    /\ current = 0
    /\ fragments = <<>>
    /\ delivered = <<>>
    /\ pongs = <<>>
    /\ closeSent = FALSE
    /\ losses = <<>>
    /\ partial = FALSE
    /\ misreads = 0

----------------------------------------------------------------------------
(* The server (external): a control frame is a short one. *)

Extension(length) == IF length < Medium THEN 0 ELSE IF length < Long THEN 2 ELSE 8

FrameSize(length) == 2 + Extension(length) + length

ServerSends(kind, length) ==
    /\ Len(frames) < MaxFrames
    /\ kind \in Control => length < Medium
    /\ frames' = Append(frames, [kind |-> kind, length |-> length, at |-> total])
    /\ total' = total + FrameSize(length)
    /\ UNCHANGED <<pc, bufVars, outVars, lossVars, placeVars>>

----------------------------------------------------------------------------
(* The reader *)

\* upgrade(): the response came with the first bytes of the stream.
Upgrade(extra) ==
    /\ pc = "upgrade"
    /\ partial' = (extra \notin {total} \cup {frames[k].at : k \in DOMAIN frames})
    /\ high' = extra
    /\ additional' = extra
    /\ pc' = "header"
    /\ UNCHANGED <<streamVars, low, current, outVars, lossVars, misreads>>

\* transfer_exactly(num_additional_bytes > n ? 0 : n - num_additional_bytes).
Missing(n) == IF additional > n THEN 0 ELSE n - additional

\* The handler of an async_read that was to leave n bytes in the streambuf.
Arrived(n) == pc \notin {"upgrade", "lost", "garbled"} /\ total >= high + Missing(n)
Size(n) == (high - low) + Missing(n)

\* Before what it parses is taken out, the streambuf holds what the read before
\* this one left.
AdditionalNone(n) == 0           \* mutant: the surplus is forgotten
AdditionalLess(n) == Size(n) - Missing(n) - n   \* mutant: size_t below zero
AdditionalAfter(n) == Size(n) - Missing(n)

Frame == frames[current]

\* connection_error() or connection_close() is called, and nothing more is read.
Lose(calls) ==
    /\ losses' = losses \o calls
    /\ pc' = "lost"

Garbled ==
    /\ pc' = "garbled"
    /\ UNCHANGED <<bufVars, outVars, lossVars>>

\* Where the frames in fragmented_in_message end.
FragmentsLength == FoldLeft(LAMBDA sum, k : sum + frames[k].length, 0, fragments)

\* read_message_content(): a message that is too big is lost twice.
StartContent(k) ==
    IF frames[k].length + FragmentsLength > MaxMessage
    THEN Lose(<<"error", "close">>) /\ closeSent' = TRUE
    ELSE pc' = "content" /\ UNCHANGED lossVars

\* A masked frame is a protocol error; a longer length stands in the next bytes.
AfterHeader(k) ==
    \/ /\ frames[k].kind = "masked"
       /\ Lose(<<"close">>) /\ closeSent' = TRUE
    \/ /\ frames[k].kind # "masked"
       /\ Extension(frames[k].length) > 0
       /\ pc' = "length" /\ UNCHANGED lossVars
    \/ /\ frames[k].kind # "masked"
       /\ Extension(frames[k].length) = 0
       /\ StartContent(k)

RereadsNever(n) == FALSE         \* mutant: an empty streambuf is parsed
Rereads(n) == Missing(n) = 0 /\ Size(n) = 0

\* read_message(): the first two bytes of a frame.
ReadHeader ==
    /\ pc = "header"
    /\ Arrived(2)
    /\ UNCHANGED <<streamVars, outVars, placeVars>>
    /\ \/ /\ Rereads(2)
          /\ additional' = 0
          /\ UNCHANGED <<pc, low, high, current, lossVars>>
       \/ \E k \in DOMAIN frames :
             /\ ~Rereads(2)
             /\ frames[k].at = low /\ Size(2) >= 2
             /\ current' = k
             /\ low' = low + 2
             /\ high' = high + Missing(2)
             /\ additional' = AdditionalAfter(2)
             /\ AfterHeader(k)
       \/ /\ ~Rereads(2)
          /\ Size(2) < 2 \/ \A k \in DOMAIN frames : frames[k].at # low
          /\ Garbled

\* The 2 or 8 bytes of a longer length.
ReadLength ==
    LET n == Extension(Frame.length)
    IN /\ pc = "length"
       /\ Arrived(n)
       /\ UNCHANGED <<streamVars, outVars, placeVars>>
       /\ IF Size(n) >= n
          THEN /\ low' = low + n
               /\ high' = high + Missing(n)
               /\ additional' = AdditionalAfter(n)
               /\ StartContent(current)
               /\ UNCHANGED current
          ELSE Garbled

----------------------------------------------------------------------------
(* The frame's content *)

\* "Only reset fragmented_message for non-control frames."
KeepFragments == fragments       \* mutant: the next message starts with the old one
ResetFragments == <<>>

AnswerTwice == <<current, current>>    \* mutant: a ping is answered twice
Pong == <<current>>

NextFrame == pc' = "header" /\ UNCHANGED lossVars

OnClose ==
    /\ Frame.kind = "close"
    /\ closeSent' = TRUE
    /\ Lose(<<"close">>)
    /\ UNCHANGED outVars

OnPing ==
    /\ Frame.kind = "ping"
    /\ pongs' = pongs \o Pong
    /\ NextFrame
    /\ UNCHANGED <<fragments, delivered>>

OnPong ==
    /\ Frame.kind = "pong"
    /\ NextFrame
    /\ UNCHANGED outVars

OnFragment ==
    /\ Frame.kind = "fragment"
    /\ fragments' = Append(fragments, current)
    /\ NextFrame
    /\ UNCHANGED <<delivered, pongs>>

OnFinal ==
    /\ Frame.kind = "final"
    /\ delivered' = Append(delivered, Append(fragments, current))
    /\ fragments' = ResetFragments
    /\ NextFrame
    /\ UNCHANGED pongs

\* read_message_content(): without a surplus the whole streambuf is the content;
\* with one, length bytes are taken out of it.
ReadContent ==
    LET n == Frame.length
    IN /\ pc = "content"
       /\ Arrived(n)
       /\ UNCHANGED <<streamVars, placeVars>>
       /\ IF Size(n) >= n
          THEN /\ low' = IF AdditionalAfter(n) > 0 THEN low + n ELSE high + Missing(n)
               /\ high' = high + Missing(n)
               /\ additional' = AdditionalAfter(n)
               /\ UNCHANGED current
               /\ OnClose \/ OnPing \/ OnPong \/ OnFragment \/ OnFinal
          ELSE Garbled

\* Any of the reads, or the upgrade, failed.
Fail ==
    /\ pc # "lost"
    /\ Lose(<<"error">>)
    /\ UNCHANGED <<streamVars, bufVars, outVars, closeSent, placeVars>>

----------------------------------------------------------------------------
(* The reader that lost its place *)

NoFrame == 0                     \* what it takes for a frame: not told apart

\* The read handlers run on with the bytes at hand, or with what is in an array that
\* none were read into.  They take them for a message, a fragment, a ping, a pong or
\* close, for one that is masked or too big, or come upon a frame that was sent.
Misread ==
    /\ pc = "garbled"
    /\ misreads < MaxMisreads
    /\ misreads' = misreads + 1
    /\ UNCHANGED <<streamVars, bufVars, partial>>
    /\ \/ /\ delivered' = Append(delivered, Append(fragments, NoFrame))
          /\ fragments' = ResetFragments
          /\ UNCHANGED <<pc, pongs, lossVars>>
       \/ /\ fragments' = Append(fragments, NoFrame)
          /\ UNCHANGED <<pc, delivered, pongs, lossVars>>
       \/ /\ pongs' = Append(pongs, NoFrame)
          /\ UNCHANGED <<pc, fragments, delivered, lossVars>>
       \/ UNCHANGED <<pc, outVars, lossVars>>
       \/ /\ \E calls \in {<<"close">>, <<"error", "close">>} : Lose(calls)
          /\ closeSent' = TRUE
          /\ UNCHANGED outVars

----------------------------------------------------------------------------

Read == ReadHeader \/ ReadLength \/ ReadContent

Next ==
    \/ \E kind \in Kinds, length \in Lengths : ServerSends(kind, length)
    \/ \E extra \in 0 .. total : Upgrade(extra)
    \/ Read
    \/ Fail
    \/ Misread

\* Main polls, and what the server sent arrives.
Fairness ==
    /\ WF_vars(\E extra \in 0 .. total : Upgrade(extra))
    /\ WF_vars(Read)

Spec == Init /\ [][Next]_vars

FairSpec == Spec /\ Fairness

----------------------------------------------------------------------------
(* Properties *)

Indices == 1 .. MaxFrames
Taken == Indices \cup {NoFrame}

\* Every variable keeps the type of the field or history it stands for, and the
\* streambuf is a part of what was sent.
TypeOK ==
    /\ frames \in Seq([kind : Kinds, length : Lengths, at : Nat])
    /\ total \in Nat
    /\ pc \in {"upgrade", "header", "length", "content", "lost", "garbled"}
    /\ low \in 0 .. high /\ high \in 0 .. total
    /\ additional \in Nat
    /\ current \in 0 .. Len(frames)
    /\ fragments \in Seq(Taken)
    /\ delivered \in Seq(Seq(Taken))
    /\ pongs \in Seq(Taken)
    /\ closeSent \in BOOLEAN
    /\ losses \in Seq({"error", "close"})
    /\ partial \in BOOLEAN
    /\ misreads \in 0 .. MaxMisreads

Data == {"fragment", "final"}

Ascending(s) == \A i, j \in DOMAIN s : i < j => s[i] < s[j]

\* Where the message before the i-th delivered one ended.
From(i) == IF i = 1 THEN 0 ELSE Last(delivered[i - 1])

\* The messages given to on_message are the ones the server sent, each one whole, in
\* order and once: the data frames since the message before, up to the first final one.
AllWhole ==
    \A i \in DOMAIN delivered :
        LET m == delivered[i]
        IN /\ m # <<>> /\ Last(m) \in DOMAIN frames
           /\ Ascending(m)
           /\ ToSet(m) = {k \in From(i) + 1 .. Last(m) : frames[k].kind \in Data}
           /\ \A k \in ToSet(m) : frames[k].kind = "final" <=> k = Last(m)

Pings(n) == {k \in 1 .. n : frames[k].kind = "ping"}

\* None before a ping that was answered is left out, nor before the frame the reader
\* is at.
AllAnswered ==
    /\ Ascending(pongs)
    /\ \A k \in ToSet(pongs) : k \in DOMAIN frames /\ k \in Pings(k) /\ Pings(k) \subseteq ToSet(pongs)
    /\ pc = "header" => \A k \in DOMAIN frames :
          frames[k].kind = "ping" /\ frames[k].at < low => k \in ToSet(pongs)

\* on_message gets the messages the server sent, although control frames come between
\* the fragments of a message, until the reader takes other bytes for a frame: also
\* where it has just lost its place, what it has handed out is right.
MessagesWhole == misreads = 0 => AllWhole

\* Until then every ping is answered once and in order, also inside a message.
PongsInOrder == misreads = 0 => AllAnswered

\* When the bytes that come with the upgrade response end between two frames, the
\* reader never loses its place in the stream: num_additional_bytes covers them.
PlaceKept == ~partial => pc # "garbled"

\* upgrade(): "What is left of the streambuf (maybe some bytes of a message) is
\* appended to in the next async_read-function": bytes that come with the upgrade
\* response do not make the reader lose its place in the stream.
LeftoverAppended == pc # "garbled"

\* A reader that has its place never waits for bytes that are there: the bytes a read
\* asks for are those of a frame that was sent, and the surplus in the streambuf
\* counts towards them, at whatever byte the reads before have ended.
NeverStarves ==
    /\ pc = "header" /\ current < Len(frames) => Arrived(2)
    /\ pc = "length" => Arrived(Extension(Frame.length))
    /\ pc = "content" => Arrived(Frame.length)

\* A message the server sent whole is eventually delivered, unless the connection
\* or the place in the stream is lost first; the reader never waits for bytes it has.
EveryMessageDelivered ==
    \A k \in Indices :
        (k \in DOMAIN frames /\ frames[k].kind = "final")
            ~> (losses # <<>> \/ pc = "garbled" \/ \E i \in DOMAIN delivered : k \in ToSet(delivered[i]))

----------------------------------------------------------------------------
(* The reader takes frames. *)

Reader == INSTANCE FrameReader WITH
        kinds <- [k \in DOMAIN frames |-> frames[k].kind],
        next <- IF pc \in {"length", "content"} THEN current - 1 ELSE current,
        parts <- fragments, messages <- delivered, answers <- pongs,
        open <- pc # "lost", bound <- ~partial

\* Cutting the stream into reads of 2, 8 or any number of bytes with a surplus in
\* the streambuf, the reader takes whole frames in order: a header and a longer
\* length leave no trace, the content has the effect of its frame, and after a
\* close, a refused frame or an error nothing more is taken.  Only the bytes that came
\* with the upgrade response, when they end inside a frame, release it from this.
ImplementsFrameReader == Reader!Spec
=============================================================================
