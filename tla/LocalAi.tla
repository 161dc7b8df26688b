------------------------------ MODULE LocalAi ------------------------------
(***************************************************************************)
(* LocalAi (HuoshanEngine.hpp): the local actions of localai.json and how  *)
(* a transcript is matched with them.  An action of the file is a record:  *)
(*   name       its name                                                   *)
(*   matches    the transcripts that one of its patterns matches, up to    *)
(*              its first pattern that is no regular expression            *)
(*   phrases    the transcripts its patterns were written for              *)
(*   broken     it has a pattern that is no regular expression             *)
(*   malformed  a field is missing or has the wrong type                   *)
(***************************************************************************)
EXTENDS SequencesExt

\* LoadAction(): the exception of the first malformed action ends the loop; the
\* actions before it stay loaded.
LoadAction(file) ==
    LET malformed == {i \in DOMAIN file : file[i].malformed}
    IN IF malformed = {} THEN file ELSE SubSeq(file, 1, Min(malformed) - 1)

\* LocalAction::Match(): true, false, or an exception from the regex constructor.
Matches(action, text) == text \in action.matches
Throws(action, text) == ~Matches(action, text) /\ action.broken

\* MatchAction(): the actions are tried in the order of the file.  The result is
\* the set of the one that matches, empty when there is none or an action before
\* it throws.
MatchAction(actions, text) ==
    LET stops == {i \in DOMAIN actions : Matches(actions[i], text) \/ Throws(actions[i], text)}
    IN {actions[i] : i \in {j \in stops : j = Min(stops) /\ Matches(actions[j], text)}}
=============================================================================
