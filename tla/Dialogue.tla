------------------------------ MODULE Dialogue ------------------------------
(***************************************************************************)
(* What a server and the repository's test client promise each other: they *)
(* talk in turns.  The server speaks first, each side answers exactly one  *)
(* message, nobody speaks out of turn, and the talk goes on until one side *)
(* hangs up or the kernel takes a message in pieces, after which nothing   *)
(* is promised.  Module Conversation implements it.                        *)
(***************************************************************************)

VARIABLE turn    \* who holds the word, where a message is, or "over"

Successor ==
    [server |-> "toClient", toClient |-> "client",
     client |-> "toServer", toServer |-> "server"]

Init == turn \in {"server", "over"}

\* A side has spoken, or has taken in all that the other one said.
Speak == turn \in DOMAIN Successor /\ turn' = Successor[turn]

HangUp == turn' = "over"

Next == Speak \/ HangUp

\* Whoever has the word uses it.
Spec == Init /\ [][Next]_turn /\ WF_turn(Speak)
=============================================================================
