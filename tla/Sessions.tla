------------------------------ MODULE Sessions ------------------------------
(***************************************************************************)
(* What HuoshanEngine promises the rest of the program: sessions that come *)
(* one after another, each on a connection of its own.  A new connection   *)
(* is made when the one before is gone; on each a session begins once at   *)
(* most and, once ended, stays ended; the voice is let through (is_ready)  *)
(* from the moment a session begins until it ends, and at no other time.   *)
(***************************************************************************)
EXTENDS Integers

CONSTANT Conns         \* the numbers of the connections, from 1

VARIABLES current,     \* the number of the last connection
          up,          \* it is being made, or open
          session,     \* connection -> "before", "in" or "after" its session
          ready        \* the voice is let through

ssVars == <<current, up, session, ready>>

Init ==
    /\ current = 0
    /\ up = FALSE
    /\ session = [c \in Conns |-> "before"]
    /\ ready = FALSE

Connect ==
    /\ ~up
    /\ current + 1 \in Conns
    /\ current' = current + 1
    /\ up' = TRUE
    /\ UNCHANGED <<session, ready>>

Begin ==
    /\ up
    /\ session[current] = "before"
    /\ session' = [session EXCEPT ![current] = "in"]
    /\ ready' = TRUE
    /\ UNCHANGED <<current, up>>

End ==
    /\ up
    /\ session[current] = "in"
    /\ session' = [session EXCEPT ![current] = "after"]
    /\ ready' = FALSE
    /\ UNCHANGED <<current, up>>

\* The connection is gone, in whatever state the session was.
Down ==
    /\ up
    /\ up' = FALSE
    /\ session' = [session EXCEPT ![current] = "after"]
    /\ ready' = FALSE
    /\ UNCHANGED current

Next == Connect \/ Begin \/ End \/ Down

Spec == Init /\ [][Next]_ssVars
=============================================================================
