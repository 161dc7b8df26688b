-------------------------------- MODULE Gate --------------------------------
(***************************************************************************)
(* What a ScopeRunner promises (utility.hpp): scopes come and go until the *)
(* gate is shut; it is shut when nobody is inside, and nobody enters after *)
(* that.                                                                   *)
(***************************************************************************)
CONSTANT Threads

VARIABLES
    inside,   \* the threads that hold a SharedLock
    shut      \* stop() has taken effect

vars == <<inside, shut>>

Init == inside = {} /\ shut = FALSE

Enter(t) ==
    /\ ~shut
    /\ t \notin inside
    /\ inside' = inside \cup {t}
    /\ UNCHANGED shut

Leave(t) ==
    /\ t \in inside
    /\ inside' = inside \ {t}
    /\ UNCHANGED shut

Shut ==
    /\ inside = {}
    /\ shut' = TRUE
    /\ UNCHANGED inside

Next == (\E t \in Threads : Enter(t) \/ Leave(t)) \/ Shut

Spec == Init /\ [][Next]_vars
=============================================================================
