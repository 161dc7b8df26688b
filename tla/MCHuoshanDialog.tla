-------------------------- MODULE MCHuoshanDialog --------------------------
(* The transcripts of the instances, and the action files they are matched     *)
(* with.                                                                      *)
EXTENDS HuoshanDialog

CONSTANTS forward, backward, stop, dance, none

Entry(name, matches) ==
    [name |-> name, matches |-> matches, phrases |-> matches, broken |-> FALSE,
     malformed |-> FALSE]

\* A command, and one that is not served.
TalkTexts == {"go", "turn"}
NoTexts == {}
\* The action for "turn" stands behind one with a broken pattern and one that is
\* malformed.
TalkFile ==
    <<Entry(forward, {"go"}),
      [Entry(dance, {}) EXCEPT !.broken = TRUE],
      [Entry(dance, {}) EXCEPT !.malformed = TRUE],
      Entry(backward, {"turn"})>>

\* Three actions of localai.json: the pattern ".*前进.*" of the first also matches
\* the phrase "停止前进" (stop going) of the third, and ".*后退.*" of the second
\* its phrase "停止后退".
StopTexts == {"go", "back", "stop", "stop going", "stop backing", "garbled"}
MCGarbled == {"garbled"}
StopFile ==
    <<[Entry(forward, {"go"}) EXCEPT !.matches = @ \cup {"stop going"}],
      [Entry(backward, {"back"}) EXCEPT !.matches = @ \cup {"stop backing"}],
      Entry(stop, {"stop", "stop going", "stop backing"})>>

IgnoredFrames == {"ChatResponse"}
FramesWithoutEvent == {"none"}
=============================================================================
