----------------------------- MODULE FrameReader -----------------------------
(***************************************************************************)
(* What the reader of a websocket Connection promises (RFC 6455, as        *)
(* read_message() has it): it takes the server's frames whole, one after   *)
(* another, in whatever pieces their bytes arrive.  A final frame hands    *)
(* out the fragments before it as one message, a ping is answered, and     *)
(* nothing is taken any more once the connection is lost.  Only when the   *)
(* bytes that come with the upgrade response end inside a frame does it    *)
(* promise nothing.                                                        *)
(***************************************************************************)
EXTENDS Sequences, Integers

CONSTANT Kinds         \* the kinds of frames

VARIABLES kinds,       \* the kinds of the frames sent
          next,        \* how many of them were taken
          parts,       \* the fragments of the message that has not ended
          messages,    \* the messages handed out, as the frames they are made of
          answers,     \* the pings answered
          open,        \* the connection was not lost
          bound        \* the reader is bound to its promise

frVars == <<kinds, next, parts, messages, answers, open, bound>>

Init ==
    /\ kinds = <<>>
    /\ next = 0
    /\ parts = <<>>
    /\ messages = <<>>
    /\ answers = <<>>
    /\ open = TRUE
    /\ bound = TRUE

Sent(kind) ==
    /\ kinds' = Append(kinds, kind)
    /\ UNCHANGED <<next, parts, messages, answers, open, bound>>

\* The next frame is there and is of this kind.
Takes(kind) ==
    /\ open
    /\ next < Len(kinds)
    /\ kinds[next + 1] = kind
    /\ next' = next + 1
    /\ UNCHANGED <<kinds, open, bound>>

Fragment ==
    /\ Takes("fragment")
    /\ parts' = Append(parts, next + 1)
    /\ UNCHANGED <<messages, answers>>

Final ==
    /\ Takes("final")
    /\ messages' = Append(messages, Append(parts, next + 1))
    /\ parts' = <<>>
    /\ UNCHANGED answers

Ping ==
    /\ Takes("ping")
    /\ answers' = Append(answers, next + 1)
    /\ UNCHANGED <<parts, messages>>

Pong ==
    /\ Takes("pong")
    /\ UNCHANGED <<parts, messages, answers>>

\* A close frame, a frame that is refused, or an error between or inside frames.
Lost ==
    /\ open
    /\ open' = FALSE
    /\ next' \in {next, next + 1}
    /\ UNCHANGED <<kinds, parts, messages, answers, bound>>

\* Before any frame was taken: the first bytes end inside one.
Released ==
    /\ bound
    /\ next = 0
    /\ bound' = FALSE
    /\ UNCHANGED <<kinds, next, parts, messages, answers, open>>

\* From there on the reader may do anything.
Anything == ~bound /\ bound' = FALSE

Next ==
    \/ \E kind \in Kinds : Sent(kind)
    \/ Fragment \/ Final \/ Ping \/ Pong
    \/ Lost
    \/ Released \/ Anything

Spec == Init /\ [][Next]_frVars
=============================================================================
