----------------------------- MODULE Placement ------------------------------
(***************************************************************************)
(* The other half of admission: EpollServer never serves too many, and     *)
(* this module says when it may turn a client away, and to whom it gives   *)
(* the clients it keeps.  AssignTask decides on counters it read some time *)
(* ago, so the connections of that moment need not be there any more.      *)
(* History variables remember what it saw; they do not affect the server.  *)
(***************************************************************************)
EXTENDS EpollServer

VARIABLES
    taken,    \* the places that were taken at the last accept()
    left      \* whether a worker has closed a connection yet

\* A place is taken until its worker has counted the connection off.
PlacesTaken ==
    Cardinality(Served) + Cardinality({w \in Workers : wpc[w] = "dec"})

HInit == Init /\ taken = 0 /\ left = FALSE

HNext ==
    /\ Next
    /\ taken' = IF lpc = "accept" /\ lpc' = "sum" THEN PlacesTaken
                ELSE IF lpc' \in {"accept", "inc"} THEN 0 ELSE taken
    /\ left' = (left \/ \E c \in Served : home'[c] = NoWorker)

HSpec == HInit /\ [][HNext]_<<vars, taken, left>>

\* A client is turned away only if, when it was accepted, all maxclients places
\* were taken.  AssignTask reads the counters one after the other and each of
\* them twice while the workers count down; it may refuse for connections that
\* have gone since, never for some that never were (ListenThread.cpp:127-151).
RefusedOnlyWhenFull == lpc = "decide" /\ Full => taken >= MaxClients

\* As long as no client leaves, AssignTask keeps the workers' shares within one
\* of each other (ListenThread.cpp:129-141: "target" is a least loaded worker).
Balanced ==
    left \/ \A w, v \in Workers :
                Cardinality(Homed(w)) <= Cardinality(Homed(v)) + 1
=============================================================================
