------------------------------ MODULE Channel ------------------------------
(***************************************************************************)
(* What Connection::send promises its callers: a channel that accepts      *)
(* messages from any thread, puts them on the wire in the order in which   *)
(* it accepted them, and, once a write has failed, puts nothing more on    *)
(* the wire and gives up what it still holds.                              *)
(***************************************************************************)
EXTENDS Sequences

CONSTANT Msgs          \* the messages ever sent

VARIABLES pending,     \* accepted, neither on the wire nor given up
          wire,        \* what the peer is sent
          up           \* no write has failed yet

chVars == <<pending, wire, up>>

Init ==
    /\ pending = <<>>
    /\ wire = <<>>
    /\ up = TRUE

Accept(m) ==
    /\ pending' = Append(pending, m)
    /\ UNCHANGED <<wire, up>>

Deliver ==
    /\ up
    /\ pending # <<>>
    /\ wire' = Append(wire, Head(pending))
    /\ pending' = Tail(pending)
    /\ UNCHANGED up

\* The first failure needs a write, hence a message to write.
Fail ==
    /\ pending # <<>>
    /\ up' = FALSE
    /\ UNCHANGED <<pending, wire>>

GiveUp ==
    /\ ~up
    /\ pending' = <<>>
    /\ UNCHANGED <<wire, up>>

Next ==
    \/ \E m \in Msgs : Accept(m)
    \/ Deliver
    \/ Fail
    \/ GiveUp

Spec == Init /\ [][Next]_chVars
=============================================================================
