----------------------------- MODULE Admission -----------------------------
(***************************************************************************)
(* What the server promises about admission, whatever its threads do: a    *)
(* client that arrives waits, is served while fewer than MaxClients are,   *)
(* or is turned away; whoever is served leaves in the end of its own       *)
(* accord or because the server closes the connection.  EpollServer        *)
(* implements this specification.                                          *)
(***************************************************************************)
EXTENDS Integers, FiniteSets

CONSTANTS
    Conns,      \* connections
    MaxClients  \* how many may be served at once

VARIABLE state  \* [Conns -> {"away", "waiting", "served"}]

Init == state = [c \in Conns |-> "away"]

InState(s) == {c \in Conns : state[c] = s}

Move(c, from, to) == state[c] = from /\ state' = [state EXCEPT ![c] = to]

Arrive(c) == Move(c, "away", "waiting")

Serve(c) ==
    /\ Cardinality(InState("served")) < MaxClients
    /\ Move(c, "waiting", "served")

TurnAway(c) == Move(c, "waiting", "away")

Leave(c) == Move(c, "served", "away")

Next == \E c \in Conns : Arrive(c) \/ Serve(c) \/ TurnAway(c) \/ Leave(c)

Spec == Init /\ [][Next]_state
=============================================================================
