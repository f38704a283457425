-------------------------- MODULE AdmissionProofs --------------------------
(***************************************************************************)
(* EpollServer implements Admission: every step of a client, the listener  *)
(* or a worker is one step of Admission or changes nothing Admission sees. *)
(* Then the two properties of Placement: when AssignTask turns a client    *)
(* away, and to whom it gives the others.                                  *)
(***************************************************************************)
EXTENDS Placement, EpollServerProofs

USE ConnsAssumption, ConfigAssumption, BoundsAssumption

-----------------------------------------------------------------------------
(* The refinement of Admission. *)

\* A connection whose state is not touched.
LEMMA SameState ==
    ASSUME UNCHANGED home,
           \A c \in Conns : sock'[c] \in {"backlog", "open"}
                              <=> sock[c] \in {"backlog", "open"}
    PROVE  UNCHANGED connState
BY DEF connState

\* connState changes at one connection only.
LEMMA OneMoves ==
    ASSUME NEW c \in Conns, NEW s,
           \A d \in Conns \ {c} : connState'[d] = connState[d],
           connState'[c] = s
    PROVE  connState' = [connState EXCEPT ![c] = s]
BY DEF connState

\* A client's step.
LEMMA ClientImplements ==
    ASSUME IInv, NEW c \in Conns, Client(c)
    PROVE  A!Next \/ UNCHANGED connState
<1>1. CASE Connect(c)
    <2>1. /\ sock[c] \in {"none", "closed"} /\ home[c] = NoWorker
          /\ \A d \in Conns : sock'[d] = IF d = c THEN "backlog" ELSE sock[d]
          /\ home' = home
        BY <1>1 DEF Connect, epollVars, IInv, TypeOK, OpenServed
    <2>2. connState[c] = "away" /\ connState'[c] = "waiting"
        BY <2>1 DEF connState
    <2>3. \A d \in Conns \ {c} : connState'[d] = connState[d]
        BY <2>1 DEF connState
    <2>4. A!Arrive(c)
        BY <2>2, <2>3, OneMoves DEF A!Arrive, A!Move
    <2> QED BY <2>4 DEF A!Next
<1>2. CASE Send(c) \/ Drain(c) \/ Fin(c) \/ Reset(c)
    BY <1>2, SameState DEF Send, Drain, Fin, Reset
<1> QED BY <1>1, <1>2 DEF Client

\* Refuse turns the new connection away.
LEMMA RefuseImplements == ASSUME IInv, Refuse PROVE A!Next
<1> DEFINE c == fdtab[lfd]
<1>1. lfd \in Fds /\ c \in Conns /\ home[c] = NoWorker /\ sock[c] = "open"
    BY DEF Refuse, IInv, ListenerHolds, FdsLinked, Placing
<1>2. \A d \in Conns : /\ sock'[d] = IF d = c THEN "closed" ELSE sock[d]
                       /\ home'[d] = IF d = c THEN NoWorker ELSE home[d]
    BY <1>1, CloseFdEffect DEF Refuse, IInv
<1>3. connState[c] = "waiting" /\ connState'[c] = "away"
    BY <1>1, <1>2 DEF connState
<1>4. \A d \in Conns \ {c} : connState'[d] = connState[d]
    BY <1>2 DEF connState
<1>5. A!TurnAway(c)
    BY <1>1, <1>3, <1>4, OneMoves DEF A!TurnAway, A!Move
<1> QED BY <1>1, <1>5 DEF A!Next

\* EPOLL_CTL_ADD is the moment a connection begins to be served, and there is
\* room for it then.
LEMMA AddImplements == ASSUME IInv, i_epoll_add PROVE A!Next
<1> DEFINE c == fdtab[lfd]
<1>1. lfd \in Fds /\ c \in Conns /\ home[c] = NoWorker /\ sock[c] = "open"
      /\ target \in Workers /\ target # NoWorker
    BY DEF i_epoll_add, IInv, ListenerHolds, FdsLinked, Placing, Workers, NoWorker
<1>2. \A d \in Conns : /\ sock'[d] = sock[d]
                       /\ home'[d] = IF d = c THEN target ELSE home[d]
    BY <1>1 DEF i_epoll_add, kernelVars, IInv, TypeOK
<1>3. connState[c] = "waiting" /\ connState'[c] = "served"
    BY <1>1, <1>2 DEF connState
<1>4. \A d \in Conns \ {c} : connState'[d] = connState[d]
    BY <1>2 DEF connState
<1>5. A!InState("served") = Served
    BY DEF A!InState, connState, Served
<1>6. Cardinality(Served) < MaxClients
    <2>1. activeConns >= 1 + Cardinality(Served)
        BY SeenAll DEF i_epoll_add, IInv, ScanBound, Placing, Counted
    <2>2. activeConns \in Int /\ activeConns <= MaxClients
        BY DEF i_epoll_add, Full, IInv, TypeOK
    <2>3. Cardinality(Served) \in Nat
        BY Parts DEF Served
    <2> QED BY <2>1, <2>2, <2>3
<1>7. A!Move(c, "waiting", "served")
    BY <1>1, <1>3, <1>4, OneMoves DEF A!Move
<1>8. A!Cardinality(A!InState("served")) < MaxClients
    <2>1. A!Cardinality(Served) = Cardinality(Served)
        BY DEF A!Cardinality, Cardinality
    <2> QED BY <1>5, <1>6, <2>1
<1>9. A!Serve(c)
    BY <1>7, <1>8 DEF A!Serve
<1> QED BY <1>1, <1>9 DEF A!Next

\* A step of the ListenThread.
LEMMA ListenThreadImplements ==
    ASSUME IInv, ListenThread PROVE A!Next \/ UNCHANGED connState
<1>1. CASE SumConns \/ ReadLoad \/ CompareLoad \/ CompareWild \/ AddFails
           \/ AddCrashes \/ IncrementActiveConns
    BY <1>1, SameState
    DEF SumConns, ReadLoad, CompareLoad, CompareWild, AddFails, AddCrashes,
        IncrementActiveConns, kernelVars, epollVars
<1>2. ASSUME NEW c \in Conns, NEW f \in Fds, Listen(c, f)
      PROVE  UNCHANGED connState
    <2>1. /\ sock[c] = "backlog" /\ home' = home
          /\ \A d \in Conns : sock'[d] = IF d = c THEN "open" ELSE sock[d]
        BY <1>2 DEF Listen, epollVars, IInv, TypeOK
    <2> QED BY <2>1, SameState
<1> QED BY <1>1, <1>2, RefuseImplements, AddImplements DEF ListenThread, AssignTask

\* A step of a TaskThread: only close() is seen, and lets a connection go.
LEMMA TaskThreadImplements ==
    ASSUME IInv, NEW w \in Workers, TaskThread(w)
    PROVE  A!Next \/ UNCHANGED connState
<1>1. CASE CloseStep(w, "close", "dec")
    <2> DEFINE f == cur[w].fd
               c == fdtab[f]
    <2>1. f \in Fds /\ c \in Conns /\ home[c] = w /\ w # NoWorker
        BY <1>1 DEF CloseStep, IInv, EventsDistinct, FdStable, Holding, InHand, Event,
                    Workers, NoWorker
    <2>2. \A d \in Conns : /\ sock'[d] = IF d = c THEN "closed" ELSE sock[d]
                           /\ home'[d] = IF d = c THEN NoWorker ELSE home[d]
        BY <1>1, <2>1, CloseFdEffect DEF CloseStep, IInv
    <2>3. connState[c] = "served" /\ connState'[c] = "away"
        BY <2>1, <2>2 DEF connState
    <2>4. \A d \in Conns \ {c} : connState'[d] = connState[d]
        BY <2>2 DEF connState
    <2>5. A!Leave(c)
        BY <2>1, <2>3, <2>4, OneMoves DEF A!Leave, A!Move
    <2> QED BY <2>1, <2>5 DEF A!Next
<1>2. CASE ~CloseStep(w, "close", "dec")
    <2>1. UNCHANGED <<sock, home>>
        BY <1>2 DEF TaskThread, ServesOn, Interrupted, i_epoll_wait, iRead, iWrite, iError,
                    i_epoll_change_mode, Close, iClose, DelStep, DecStep,
                    kernelVars, epollVars
    <2> QED BY <2>1, SameState
<1> QED BY <1>1, <1>2

\* The listener's separate reads of the workers' counters, and its late
\* increment, amount to one test of the number of connections being served, at
\* the moment of EPOLL_CTL_ADD (ListenThread.cpp:127-162).
THEOREM Implements == Spec => AdmissionSpec
<1>1. Init => A!Init
    BY DEF Init, A!Init, connState
<1>2. IInv /\ [Next]_vars => [A!Next]_connState
    <2> SUFFICES ASSUME IInv, [Next]_vars PROVE A!Next \/ UNCHANGED connState
        OBVIOUS
    <2>1. CASE UNCHANGED vars
        BY <2>1, SameState DEF vars, kernelVars, epollVars
    <2>2. CASE Next
        BY <2>2, ClientImplements, ListenThreadImplements, TaskThreadImplements DEF Next
    <2> QED BY <2>1, <2>2
<1> QED BY <1>1, <1>2, Inductive, PTL DEF Spec, AdmissionSpec, A!Spec

-----------------------------------------------------------------------------
(* The history variables do not affect the server. *)

hvars == <<vars, taken, left>>

LEMMA HistoryOnly == HSpec => Spec
<1>1. HInit => Init
    BY DEF HInit
<1>2. [HNext]_hvars => [Next]_vars
    BY DEF HNext, hvars
<1> QED BY <1>1, <1>2, PTL DEF HSpec, Spec, hvars

-----------------------------------------------------------------------------
(* When a client is turned away. *)

\* The places taken on the workers from k on: their connections, and those that
\* they have closed and not yet counted off.
Ahead(k) == {c \in Conns : home[c] >= k}
Closing(k) == {w \in Workers : w >= k /\ wpc[w] = "dec"}
PlacesFrom(k) == Cardinality(Ahead(k)) + Cardinality(Closing(k))

\* activeConns is never too high: what it has summed, with the places taken on
\* the workers still to come, is no more than was taken at the accept.
ScanCeiling == Placing => activeConns + PlacesFrom(Counted) <= 1 + taken

LEMMA WorkersFinite ==
    ASSUME NEW S \in SUBSET Workers
    PROVE  IsFiniteSet(S) /\ Cardinality(S) \in Nat
<1>1. IsFiniteSet(Workers)
    BY FS_Interval DEF Workers
<1>2. IsFiniteSet(S)
    BY <1>1, FS_Subset
<1> QED BY <1>2, FS_CardinalityType

LEMMA PlacesType ==
    ASSUME NEW k
    PROVE  /\ Ahead(k) \in SUBSET Conns /\ Closing(k) \in SUBSET Workers
           /\ Cardinality(Ahead(k)) \in Nat /\ Cardinality(Closing(k)) \in Nat
           /\ PlacesFrom(k) \in Nat
<1>1. Ahead(k) \in SUBSET Conns /\ Closing(k) \in SUBSET Workers
    BY DEF Ahead, Closing
<1>2. Cardinality(Ahead(k)) \in Nat /\ Cardinality(Closing(k)) \in Nat
    BY <1>1, Parts, WorkersFinite
<1> QED BY <1>1, <1>2 DEF PlacesFrom

\* The counter of the next worker is the number of its places.
LEMMA PlacesNext ==
    ASSUME IInv, lpc # "inc", NEW k \in Workers
    PROVE  PlacesFrom(k) = PlacesFrom(k + 1) + counter[k]
<1>1. /\ Ahead(k) = Ahead(k + 1) \cup Homed(k) /\ Ahead(k + 1) \cap Homed(k) = {}
      /\ Ahead(k + 1) \in SUBSET Conns /\ Homed(k) \in SUBSET Conns
    <2>1. \A c \in Conns : home[c] \in Int
        BY DEF IInv, TypeOK, Workers, NoWorker
    <2>2. k \in Int
        BY DEF Workers
    <2>3. \A c \in Conns : /\ home[c] >= k <=> home[c] >= k + 1 \/ home[c] = k
                           /\ ~(home[c] >= k + 1 /\ home[c] = k)
        BY <2>1, <2>2
    <2> QED BY <2>3 DEF Ahead, Homed
<1>2. Cardinality(Ahead(k)) = Cardinality(Ahead(k + 1)) + Cardinality(Homed(k))
    <2>1. Cardinality(Ahead(k + 1) \cup Homed(k))
            = Cardinality(Ahead(k + 1)) + Cardinality(Homed(k))
              - Cardinality(Ahead(k + 1) \cap Homed(k))
        BY <1>1, Parts, FS_Union
    <2>2. Cardinality(Ahead(k + 1) \cap Homed(k)) = 0
        BY <1>1, FS_EmptySet
    <2>3. Cardinality(Ahead(k + 1)) \in Nat /\ Cardinality(Homed(k)) \in Nat
        BY <1>1, Parts
    <2>4. Cardinality(Ahead(k)) = Cardinality(Ahead(k + 1) \cup Homed(k))
        BY <1>1
    <2> QED BY <2>1, <2>2, <2>3, <2>4
<1>3. Cardinality(Closing(k))
        = Cardinality(Closing(k + 1)) + (IF wpc[k] = "dec" THEN 1 ELSE 0)
    <2>1. k \notin Closing(k + 1) /\ Closing(k + 1) \in SUBSET Workers
        BY DEF Closing, Workers
    <2>2. Closing(k) = IF wpc[k] = "dec" THEN Closing(k + 1) \cup {k} ELSE Closing(k + 1)
        BY DEF Closing, Workers
    <2>3. Cardinality(Closing(k + 1) \cup {k}) = Cardinality(Closing(k + 1)) + 1
        BY <2>1, WorkersFinite, FS_AddElement
    <2>4. Cardinality(Closing(k + 1)) \in Nat
        BY <2>1, WorkersFinite
    <2> QED BY <2>2, <2>3, <2>4
<1>4. counter[k] = Cardinality(Homed(k)) + (IF wpc[k] = "dec" THEN 1 ELSE 0)
    <2>1. Cardinality(Homed(k)) \in Nat
        BY <1>1, Parts
    <2> QED BY <2>1 DEF IInv, CounterExact
<1>5. Cardinality(Homed(k)) \in Nat
    BY <1>1, Parts
<1>6. k + 1 \in Nat
    BY DEF Workers
<1>7. /\ Cardinality(Ahead(k + 1)) \in Nat /\ Cardinality(Closing(k + 1)) \in Nat
    BY PlacesType
<1> QED BY <1>2, <1>3, <1>4, <1>5, <1>7 DEF PlacesFrom

\* At the accept the workers hold what is taken.
LEMMA PlacesAll == ASSUME TypeOK PROVE PlacesFrom(0) = PlacesTaken
<1>1. Ahead(0) = Served
    BY DEF Ahead, Served, TypeOK, Workers, NoWorker
<1>2. Closing(0) = {w \in Workers : wpc[w] = "dec"}
    BY DEF Closing, Workers
<1> QED BY <1>1, <1>2 DEF PlacesFrom, PlacesTaken

\* Only after close() is a worker about to count down.
LEMMA OnlyCloseCounts ==
    ASSUME TypeOK, NEW w \in Workers, TaskThread(w), ~CloseStep(w, "close", "dec")
    PROVE  \A v \in Workers : wpc'[v] = "dec" => wpc[v] = "dec"
<1> DEFINE Moves == {"wait", "loop", "spin", "toRead", "toWrite", "del", "close"}
<1>1. ASSUME NEW e, NEW r, Finish(w, e, r)
      PROVE  \E p \in Moves : wpc' = [wpc EXCEPT ![w] = p]
    BY <1>1 DEF Finish, Resume
<1>2. ASSUME NEW e, NEW p \in Moves, Busy(w, e, p)
      PROVE  wpc' = [wpc EXCEPT ![w] = p]
    BY <1>2 DEF Busy
<1>3. \/ UNCHANGED wpc
      \/ \E p \in Moves : wpc' = [wpc EXCEPT ![w] = p]
    <2>1. CASE Interrupted(w)
        BY <2>1 DEF Interrupted
    <2>2. ASSUME NEW e \in batch[w], iRead(w, e) \/ iWrite(w, e) \/ iError(w, e)
          PROVE  \E p \in Moves : wpc' = [wpc EXCEPT ![w] = p]
        BY <1>1, <1>2, <2>2 DEF iRead, iWrite, iError, ToChangeMode
    <2>3. CASE i_epoll_wait(w) \/ i_epoll_change_mode(w) \/ Close(w)
        BY <1>1, <2>3 DEF i_epoll_wait, i_epoll_change_mode, Close, iClose, DelStep,
                          DecStep, Resume
    <2> QED BY <2>1, <2>2, <2>3 DEF TaskThread, ServesOn
<1> QED BY <1>3 DEF TypeOK

\* No step of a client or a worker takes a place: a close hands one from the
\* connections to the closings, and the count-down gives it back.
LEMMA PlacesShrink ==
    ASSUME IInv, NEW k \in Nat,
           \/ \E c \in Conns : Client(c)
           \/ \E w \in Workers : TaskThread(w)
    PROVE  PlacesFrom(k)' <= PlacesFrom(k)
<1>0. /\ Cardinality(Ahead(k)) \in Nat /\ Cardinality(Closing(k)) \in Nat
    BY PlacesType
<1>1. ASSUME UNCHANGED home, \A v \in Workers : wpc'[v] = "dec" => wpc[v] = "dec"
      PROVE  PlacesFrom(k)' <= PlacesFrom(k)
    <2>1. Ahead(k)' = Ahead(k) /\ Closing(k)' \in SUBSET Closing(k)
        BY <1>1 DEF Ahead, Closing
    <2>2. Cardinality(Closing(k)') <= Cardinality(Closing(k)) /\ Cardinality(Closing(k)') \in Nat
        BY <2>1, PlacesType, WorkersFinite, FS_Subset
    <2> QED BY <1>0, <2>1, <2>2 DEF PlacesFrom
<1>2. ASSUME NEW c \in Conns, Client(c) PROVE PlacesFrom(k)' <= PlacesFrom(k)
    <2>1. UNCHANGED <<home, wpc>>
        BY <1>2 DEF Client, Connect, Send, Drain, Fin, Reset, epollVars, workerVars
    <2> QED BY <1>1, <2>1
<1>3. ASSUME NEW w \in Workers, CloseStep(w, "close", "dec")
      PROVE  PlacesFrom(k)' <= PlacesFrom(k)
    <2>1. PICK f \in Fds : f = cur[w].fd
        BY <1>3 DEF CloseStep, IInv, EventsDistinct, Holding, Event
    <2>2. PICK c \in Conns : c = fdtab[f] /\ home[c] = w
        BY <1>3, <2>1 DEF CloseStep, IInv, FdStable, EventsDistinct, Holding, InHand, Event
    <2>3. \A d \in Conns : home'[d] = IF d = c THEN NoWorker ELSE home[d]
        BY <1>3, <2>1, <2>2, CloseFdEffect DEF CloseStep, IInv
    <2>4. wpc[w] = "close" /\ wpc'[w] = "dec" /\ \A v \in Workers \ {w} : wpc'[v] = wpc[v]
        BY <1>3 DEF CloseStep, IInv, TypeOK
    <2>5. CASE w >= k
        <3>1. c \in Ahead(k) /\ Ahead(k)' = Ahead(k) \ {c}
            BY <2>2, <2>3, <2>5 DEF Ahead, NoWorker
        <3>2. w \notin Closing(k) /\ Closing(k)' = Closing(k) \cup {w}
            BY <2>4, <2>5 DEF Closing
        <3>3. Cardinality(Ahead(k) \ {c}) = Cardinality(Ahead(k)) - 1
            BY <3>1, PlacesType, Parts, FS_RemoveElement
        <3>4. Cardinality(Closing(k) \cup {w}) = Cardinality(Closing(k)) + 1
            BY <3>2, PlacesType, WorkersFinite, FS_AddElement
        <3> QED BY <1>0, <3>1, <3>2, <3>3, <3>4 DEF PlacesFrom
    <2>6. CASE ~(w >= k)
        <3>1. Ahead(k)' = Ahead(k) /\ Closing(k)' = Closing(k)
            BY <2>2, <2>3, <2>4, <2>6 DEF Ahead, Closing, NoWorker
        <3> QED BY <1>0, <3>1 DEF PlacesFrom
    <2> QED BY <2>5, <2>6
<1>4. ASSUME NEW w \in Workers, TaskThread(w), ~CloseStep(w, "close", "dec")
      PROVE  PlacesFrom(k)' <= PlacesFrom(k)
    <2>1. UNCHANGED home
        BY <1>4 DEF TaskThread, ServesOn, Interrupted, i_epoll_wait, iRead, iWrite, iError,
                    i_epoll_change_mode, Close, iClose, DelStep, DecStep, epollVars
    <2>2. \A v \in Workers : wpc'[v] = "dec" => wpc[v] = "dec"
        BY <1>4, OnlyCloseCounts DEF IInv
    <2> QED BY <1>1, <2>1, <2>2
<1> QED BY <1>2, <1>3, <1>4

\* A step that does not move the listener on.
LEMMA ScanStays ==
    ASSUME TypeOK, ScanCeiling, NEW k \in Nat, k = Counted, taken \in Nat,
           Placing' => Placing /\ taken' = taken,
           Placing' => Counted' = k /\ activeConns' = activeConns,
           PlacesFrom(k)' <= PlacesFrom(k)
    PROVE  ScanCeiling'
<1> SUFFICES ASSUME Placing' PROVE (activeConns + PlacesFrom(Counted) <= 1 + taken)'
    BY DEF ScanCeiling
<1>1. PlacesFrom(Counted)' = PlacesFrom(k)'
    BY DEF PlacesFrom, Ahead, Closing
<1>2. PlacesFrom(k) \in Nat /\ PlacesFrom(k)' \in Nat
    <2>1. PlacesFrom(k) \in Nat
        BY PlacesType
    <2>2. Ahead(k)' \in SUBSET Conns /\ Closing(k)' \in SUBSET Workers
        BY DEF Ahead, Closing
    <2>3. Cardinality(Ahead(k)') \in Nat /\ Cardinality(Closing(k)') \in Nat
        BY <2>2, Parts, WorkersFinite
    <2> QED BY <2>1, <2>3 DEF PlacesFrom
<1>3. activeConns + PlacesFrom(k) <= 1 + taken
    BY DEF ScanCeiling
<1>4. activeConns \in Int
    BY DEF TypeOK
<1> QED BY <1>1, <1>2, <1>3, <1>4

\* taken is set at the accept and kept until the listener has decided.
LEMMA TakenKept ==
    ASSUME TypeOK, HNext
    PROVE  /\ Placing /\ Placing' => taken' = taken
           /\ lpc = "accept" /\ lpc' = "sum" => taken' = PlacesTaken
           /\ taken' \in {PlacesTaken, 0, taken}
BY DEF HNext, Placing

LEMMA CountedType == ASSUME TypeOK PROVE Counted \in Nat
BY DEF TypeOK, Counted

LEMMA ListenerCeiling ==
    ASSUME IInv, TypeOK', ScanCeiling, taken \in Nat, HNext, ListenThread
    PROVE  ScanCeiling'
<1>1. PICK k \in Nat : k = Counted
    BY CountedType DEF IInv
<1>2. ASSUME UNCHANGED <<home, wpc>> PROVE PlacesFrom(k)' <= PlacesFrom(k)
    <2>1. PlacesFrom(k)' = PlacesFrom(k)
        BY <1>2 DEF PlacesFrom, Ahead, Closing
    <2> QED BY <2>1, PlacesType
<1>3. CASE SumConns
    <2>1. /\ lpc = "sum" /\ lpc' = "read" /\ li' = li /\ li \in Workers
          /\ activeConns' = activeConns + counter[li] /\ UNCHANGED <<home, wpc>>
        BY <1>3 DEF SumConns, epollVars, workerVars, IInv, TypeOK
    <2>2. taken' = taken
        BY <2>1, TakenKept DEF Placing, IInv
    <2>3. activeConns + PlacesFrom(li) <= 1 + taken
        BY <2>1 DEF ScanCeiling, Placing, Counted
    <2>4. PlacesFrom(li) = PlacesFrom(li + 1) + counter[li]
        BY <2>1, PlacesNext
    <2>5. PlacesFrom(Counted)' = PlacesFrom(li + 1)
        BY <2>1 DEF PlacesFrom, Ahead, Closing, Counted
    <2>6. /\ activeConns \in Int /\ counter[li] \in Int
          /\ PlacesFrom(li) \in Nat /\ PlacesFrom(li + 1) \in Nat
        BY <2>1, PlacesType DEF IInv, TypeOK
    <2>7. activeConns' + PlacesFrom(Counted)' <= 1 + taken'
        BY <2>1, <2>2, <2>3, <2>4, <2>5, <2>6
    <2> QED BY <2>7 DEF ScanCeiling
<1>4. CASE ReadLoad
    <2>1. /\ lpc = "read" /\ lpc' = "cmp" /\ UNCHANGED <<li, activeConns, home, wpc>>
        BY <1>4 DEF ReadLoad, epollVars, workerVars
    <2>2. taken' = taken /\ Counted' = Counted /\ Placing
        BY <2>1, TakenKept DEF Placing, Counted, IInv
    <2> QED BY <1>1, <1>2, <2>1, <2>2, ScanStays DEF IInv
<1>5. CASE CompareLoad \/ (CompareWild /\ NextIndex /\ UNCHANGED <<lfd, lval, activeConns>>)
    <2>1. lpc = "cmp" /\ NextIndex /\ UNCHANGED <<activeConns, home, wpc>>
        BY <1>5 DEF CompareLoad, CompareWild, epollVars, workerVars
    <2>2. /\ li' = li + 1 /\ lpc' \in {"sum", "decide"}
          /\ lpc' = "decide" => li' = MaxThreads
        BY <2>1, NextIndexType DEF IInv
    <2>3. taken' = taken /\ Counted' = Counted /\ Placing
        BY <2>1, <2>2, TakenKept DEF Placing, Counted, IInv
    <2> QED BY <1>1, <1>2, <2>1, <2>3, ScanStays DEF IInv
<1>6. CASE AddCrashes \/ (CompareWild /\ UNCHANGED listenVars)
    <2>1. /\ lpc \in {"decide", "cmp"} /\ UNCHANGED <<lpc, li, activeConns, home, wpc>>
        BY <1>6 DEF AddCrashes, CompareWild, listenVars, epollVars, workerVars
    <2>2. taken' = taken /\ Counted' = Counted /\ Placing
        BY <2>1, TakenKept DEF Placing, Counted, IInv
    <2> QED BY <1>1, <1>2, <2>1, <2>2, ScanStays DEF IInv
<1>7. CASE Refuse \/ i_epoll_add \/ AddFails \/ IncrementActiveConns
    BY <1>7 DEF Refuse, i_epoll_add, AddFails, IncrementActiveConns, ScanCeiling, Placing
<1>8. ASSUME NEW c \in Conns, NEW f \in Fds, Listen(c, f) PROVE ScanCeiling'
    <2>1. /\ lpc = "accept" /\ lpc' = "sum" /\ li' = 0 /\ activeConns' = 1
          /\ UNCHANGED <<home, wpc>>
        BY <1>8 DEF Listen, epollVars, workerVars
    <2>2. taken' = PlacesTaken
        BY <2>1, TakenKept DEF IInv
    <2>3. PlacesFrom(Counted)' = PlacesFrom(0)
        BY <2>1 DEF PlacesFrom, Ahead, Closing, Counted
    <2>4. PlacesFrom(0) = PlacesTaken /\ PlacesFrom(0) \in Nat
        BY PlacesAll, PlacesType DEF IInv
    <2>5. activeConns' + PlacesFrom(Counted)' <= 1 + taken'
        BY <2>1, <2>2, <2>3, <2>4
    <2> QED BY <2>5 DEF ScanCeiling
<1>9. CompareWild =>
          \/ UNCHANGED listenVars
          \/ NextIndex /\ UNCHANGED <<lfd, lval, activeConns>>
    BY DEF CompareWild
<1> QED BY <1>3, <1>4, <1>5, <1>6, <1>7, <1>8, <1>9 DEF ListenThread, AssignTask

LEMMA CeilingStep ==
    ASSUME IInv, TypeOK', ScanCeiling, taken \in Nat, [HNext]_hvars
    PROVE  ScanCeiling' /\ taken' \in Nat
<1>1. PICK k \in Nat : k = Counted
    BY CountedType DEF IInv
<1>2. CASE UNCHANGED hvars
    <2>1. UNCHANGED <<taken, lpc, li, activeConns, home, wpc>>
        BY <1>2 DEF hvars, vars, listenVars, epollVars, workerVars
    <2> QED BY <2>1 DEF ScanCeiling, Placing, Counted, PlacesFrom, Ahead, Closing
<1>3. CASE HNext
    <2>1. taken' \in Nat
        <3>1. PlacesTaken \in Nat
            BY PlacesAll, PlacesType DEF IInv
        <3> QED BY <1>3, <3>1, TakenKept DEF IInv
    <2>2. CASE ListenThread
        BY <1>3, <2>1, <2>2, ListenerCeiling
    <2>3. CASE \/ \E c \in Conns : Client(c)
               \/ \E w \in Workers : TaskThread(w)
        <3>1. UNCHANGED <<lpc, li, activeConns>>
            BY <2>3 DEF Client, Connect, Send, Drain, Fin, Reset, TaskThread, ServesOn,
               Interrupted, i_epoll_wait, iRead, iWrite, iError, i_epoll_change_mode, Close,
               listenVars
        <3>2. PlacesFrom(k)' <= PlacesFrom(k)
            BY <2>3, PlacesShrink
        <3>3. Placing' => Placing /\ taken' = taken
            BY <1>3, <3>1, TakenKept DEF IInv, Placing
        <3>4. Counted' = Counted
            BY <3>1 DEF Counted
        <3> QED BY <1>1, <2>1, <3>1, <3>2, <3>3, <3>4, ScanStays DEF IInv
    <2> QED BY <1>3, <2>1, <2>2, <2>3 DEF HNext, Next
<1> QED BY <1>2, <1>3

\* A client is turned away only if all places were taken when it was accepted,
\* although AssignTask sums counters that workers decrease meanwhile and reads
\* each of them twice (ListenThread.cpp:127-151).
THEOREM RefusesOnlyWhenFull == HSpec => []RefusedOnlyWhenFull
<1>1. HInit => ScanCeiling /\ taken \in Nat
    BY DEF HInit, Init, ScanCeiling, Placing
<1>2. IInv /\ IInv' /\ ScanCeiling /\ taken \in Nat /\ [HNext]_hvars
        => ScanCeiling' /\ (taken \in Nat)'
    BY CeilingStep DEF IInv
<1>3. IInv /\ ScanCeiling /\ taken \in Nat => RefusedOnlyWhenFull
    <2> SUFFICES ASSUME IInv, ScanCeiling, taken \in Nat, lpc = "decide", Full
                 PROVE  taken >= MaxClients
        BY DEF RefusedOnlyWhenFull
    <2>1. activeConns + PlacesFrom(MaxThreads) <= 1 + taken
        BY DEF ScanCeiling, Placing, Counted
    <2>2. PlacesFrom(MaxThreads) \in Nat
        BY PlacesType
    <2>3. activeConns > MaxClients /\ activeConns \in Int
        BY DEF Full, IInv, TypeOK
    <2> QED BY <2>1, <2>2, <2>3
<1>4. HSpec => []IInv
    BY HistoryOnly, Inductive, PTL
<1> QED BY <1>1, <1>2, <1>3, <1>4, PTL DEF HSpec, hvars

-----------------------------------------------------------------------------
(* To whom a client is given. *)

\* As long as no client has left, no worker is counting one off, and the counters
\* AssignTask reads stay what they are until it has placed its client: target is
\* a least loaded one of the workers compared so far.
NoneClosing == \A w \in Workers : wpc[w] # "dec"

Compared == IF lpc = "decide" THEN MaxThreads ELSE li

TargetLeast ==
    Placing =>
        /\ lpc = "cmp" => lval = Cardinality(Homed(li))
        /\ target \in Workers =>
              \A w \in Workers : w < Compared =>
                  Cardinality(Homed(target)) <= Cardinality(Homed(w))

Even == \A w, v \in Workers : Cardinality(Homed(w)) <= Cardinality(Homed(v)) + 1

BInv == left \in BOOLEAN /\ (left \/ (NoneClosing /\ TargetLeast /\ Even))

\* Until a client leaves, a counter read while a client is being placed is exact.
LEMMA LoadExact ==
    ASSUME IInv, NoneClosing, Placing, NEW w \in Workers
    PROVE  counter[w] = Cardinality(Homed(w)) /\ Cardinality(Homed(w)) \in Nat
<1>1. Cardinality(Homed(w)) \in Nat
    BY Parts DEF Homed
<1> QED BY <1>1 DEF IInv, CounterExact, NoneClosing, Placing

\* A step after which still nobody has left closes nothing that was served.
LEMMA NobodyLeaves ==
    ASSUME IInv, NoneClosing, HNext, ~left', left \in BOOLEAN
    PROVE  /\ ~left
           /\ NoneClosing'
           /\ i_epoll_add \/ UNCHANGED home
           /\ ListenThread \/ UNCHANGED listenVars
<1>1. ~left /\ ~(\E c \in Served : home'[c] = NoWorker)
    BY DEF HNext
<1>2. ASSUME NEW c \in Conns, Client(c)
      PROVE  UNCHANGED <<home, wpc, listenVars>>
    BY <1>2 DEF Client, Connect, Send, Drain, Fin, Reset, epollVars, workerVars
<1>3. ASSUME NEW w \in Workers, TaskThread(w)
      PROVE  NoneClosing' /\ UNCHANGED <<home, listenVars>>
    <2>1. ~CloseStep(w, "close", "dec")
        <3> SUFFICES ASSUME CloseStep(w, "close", "dec") PROVE FALSE
            OBVIOUS
        <3>1. PICK f \in Fds : f = cur[w].fd
            BY DEF CloseStep, IInv, EventsDistinct, Holding, Event
        <3>2. PICK c \in Conns : c = fdtab[f] /\ home[c] = w
            BY <3>1 DEF CloseStep, IInv, FdStable, EventsDistinct, Holding, InHand, Event
        <3>3. home'[c] = NoWorker
            BY <3>1, <3>2, CloseFdEffect DEF CloseStep, IInv
        <3> QED BY <1>1, <3>2, <3>3 DEF Served, Workers, NoWorker
    <2>2. UNCHANGED <<home, listenVars>>
        BY <1>3, <2>1 DEF TaskThread, ServesOn, Interrupted, i_epoll_wait, iRead, iWrite, iError,
                          i_epoll_change_mode, Close, iClose, DelStep, DecStep, epollVars
    <2>3. NoneClosing'
        BY <1>3, <2>1, OnlyCloseCounts DEF IInv, NoneClosing
    <2> QED BY <2>2, <2>3
<1>4. ASSUME ListenThread PROVE NoneClosing' /\ (i_epoll_add \/ UNCHANGED home)
    <2>1. UNCHANGED wpc
        BY <1>4 DEF ListenThread, Listen, AssignTask, SumConns, ReadLoad, CompareLoad,
                    CompareWild, Refuse, i_epoll_add, AddFails, AddCrashes,
                    IncrementActiveConns, workerVars
    <2>2. CASE Refuse
        <3>1. home[fdtab[lfd]] = NoWorker /\ fdtab[lfd] \in Conns
            BY <2>2 DEF Refuse, IInv, ListenerHolds, Placing
        <3>2. home' = home
            BY <2>2, <3>1 DEF Refuse, CloseFd, IInv, TypeOK
        <3> QED BY <2>1, <3>2 DEF NoneClosing
    <2>3. CASE ~Refuse
        BY <1>4, <2>1, <2>3
        DEF ListenThread, Listen, AssignTask, SumConns, ReadLoad, CompareLoad, CompareWild,
            AddFails, AddCrashes, IncrementActiveConns, epollVars, NoneClosing
    <2> QED BY <2>2, <2>3
<1> QED BY <1>1, <1>2, <1>3, <1>4 DEF HNext, Next, NoneClosing

\* The comparison keeps the least.
LEMMA CompareLeast ==
    ASSUME IInv, TypeOK', NoneClosing, TargetLeast, UNCHANGED home,
           CompareLoad \/ CompareWild
    PROVE  TargetLeast'
<1>1. \A w : Homed(w)' = Homed(w)
    BY DEF Homed
<1>2. lpc = "cmp" /\ li \in Workers /\ Placing
    BY DEF CompareLoad, CompareWild, IInv, TypeOK, Placing
<1>3. lval = Cardinality(Homed(li)) /\ Cardinality(Homed(li)) \in Nat
    BY <1>2, LoadExact DEF TargetLeast
<1>4. \A w \in Workers : Cardinality(Homed(w)) \in Nat
    BY Parts DEF Homed
<1>5. NextIndex => /\ lpc' \in {"sum", "decide"} /\ Compared' = li + 1
                   /\ lpc' # "cmp"
    BY <1>2, NextIndexType DEF IInv, Compared
<1>6. CASE CompareLoad
    <2>1. /\ target \in Workers /\ NextIndex
          /\ target' = IF lval < counter[target] THEN li ELSE target
        BY <1>6 DEF CompareLoad, LighterThan
    <2>2. counter[target] = Cardinality(Homed(target))
        BY <1>2, <2>1, LoadExact
    <2>3. \A w \in Workers : w < li => Cardinality(Homed(target)) <= Cardinality(Homed(w))
        BY <1>2, <2>1 DEF TargetLeast, Compared
    <2>4. target' \in Workers
        BY <1>2, <2>1
    <2>5. ASSUME NEW w \in Workers, w < li + 1
          PROVE  Cardinality(Homed(target')) <= Cardinality(Homed(w))
        <3>1. w < li \/ w = li
            BY <1>2, <2>5 DEF Workers
        <3>2. Cardinality(Homed(w)) \in Nat /\ Cardinality(Homed(target)) \in Nat
            BY <1>4, <2>1
        <3>3. CASE lval < counter[target]
            BY <1>3, <2>1, <2>2, <2>3, <3>1, <3>2, <3>3
        <3>4. CASE ~(lval < counter[target])
            BY <1>3, <2>1, <2>2, <2>3, <3>1, <3>2, <3>4
        <3> QED BY <3>3, <3>4
    <2> QED BY <1>1, <1>5, <2>1, <2>5 DEF TargetLeast, Homed
<1>7. CASE CompareWild /\ UNCHANGED listenVars
    BY <1>1, <1>7 DEF TargetLeast, listenVars, Placing, Compared, Homed
<1>8. CASE CompareWild /\ NextIndex
    <2>1. Workers = {0}
        BY <1>8 DEF CompareWild, IInv, TypeOK, Workers
    <2>2. \A w, v \in Workers : Cardinality(Homed(v)) <= Cardinality(Homed(w))
        BY <1>4, <2>1
    <2> QED BY <1>5, <1>8, <1>1, <2>2 DEF TargetLeast, Homed
<1> QED BY <1>6, <1>7, <1>8 DEF CompareWild

\* Every other step of the listener leaves what it knows as it is, or begins anew.
LEMMA ScanLeast ==
    ASSUME IInv, TypeOK', NoneClosing, TargetLeast, UNCHANGED home, ListenThread
    PROVE  TargetLeast'
<1>1. \A w : Homed(w)' = Homed(w)
    BY DEF Homed
<1>2. CASE CompareLoad \/ CompareWild
    BY <1>2, CompareLeast
<1>3. CASE SumConns \/ AddCrashes
    <2>1. /\ lpc \in {"sum", "decide"} /\ lpc' # "cmp" /\ Placing
          /\ target' = target /\ Compared' = Compared
        BY <1>3 DEF SumConns, AddCrashes, listenVars, Placing, Compared
    <2> QED BY <1>1, <2>1 DEF TargetLeast, Homed
<1>4. CASE ReadLoad
    <2>1. /\ lpc = "read" /\ lpc' = "cmp" /\ Placing /\ li \in Workers
          /\ lval' = counter[li] /\ UNCHANGED <<li, target>>
        BY <1>4 DEF ReadLoad, Placing, IInv, TypeOK
    <2>2. lval' = Cardinality(Homed(li)) /\ Compared' = Compared
        BY <2>1, LoadExact DEF Compared
    <2> QED BY <1>1, <2>1, <2>2 DEF TargetLeast, Homed
<1>5. CASE Refuse \/ i_epoll_add \/ AddFails \/ IncrementActiveConns
    BY <1>5 DEF Refuse, i_epoll_add, AddFails, IncrementActiveConns, TargetLeast, Placing
<1>6. ASSUME NEW c \in Conns, NEW f \in Fds, Listen(c, f) PROVE TargetLeast'
    <2>1. lpc' = "sum" /\ Compared' = 0
        BY <1>6 DEF Listen, Compared
    <2> QED BY <2>1 DEF TargetLeast, Workers
<1> QED BY <1>2, <1>3, <1>4, <1>5, <1>6 DEF ListenThread, AssignTask

\* One more connection for a least loaded worker keeps the shares even.
LEMMA AddEven ==
    ASSUME IInv, NoneClosing, TargetLeast, Even, i_epoll_add
    PROVE  Even'
<1>1. PICK c \in Conns : c = fdtab[lfd] /\ home[c] = NoWorker
    BY DEF i_epoll_add, IInv, ListenerHolds, Placing
<1>2. target \in Workers /\ lpc = "decide" /\ Placing
    BY DEF i_epoll_add, Placing
<1>3. \A d \in Conns : home'[d] = IF d = c THEN target ELSE home[d]
    BY <1>1 DEF i_epoll_add, IInv, TypeOK
<1>4. \A w \in Workers : Homed(w) \in SUBSET Conns /\ c \notin Homed(w)
    BY <1>1 DEF Homed, Workers, NoWorker
<1>5. \A w \in Workers :
          Homed(w)' = IF w = target THEN Homed(w) \cup {c} ELSE Homed(w)
    BY <1>1, <1>2, <1>3 DEF Homed, Workers, NoWorker
<1>6. \A w \in Workers : Cardinality(Homed(w)) \in Nat
    BY <1>4, Parts
<1>7. Cardinality(Homed(target) \cup {c}) = Cardinality(Homed(target)) + 1
    BY <1>2, <1>4, Parts, FS_AddElement
<1>8. \A w \in Workers :
          Cardinality(Homed(w)') = Cardinality(Homed(w)) + (IF w = target THEN 1 ELSE 0)
    <2> SUFFICES ASSUME NEW w \in Workers
                 PROVE  Cardinality(Homed(w)')
                          = Cardinality(Homed(w)) + (IF w = target THEN 1 ELSE 0)
        OBVIOUS
    <2>1. CASE w = target
        <3>1. Homed(w)' = Homed(target) \cup {c}
            BY <1>5, <2>1
        <3>2. Cardinality(Homed(w)') = Cardinality(Homed(target) \cup {c})
            BY <3>1
        <3> QED BY <1>7, <2>1, <3>2
    <2>2. CASE w # target
        <3>1. Homed(w)' = Homed(w)
            BY <1>5, <2>2
        <3> QED BY <1>6, <2>2, <3>1
    <2> QED BY <2>1, <2>2
<1>9. \A w \in Workers : Cardinality(Homed(target)) <= Cardinality(Homed(w))
    BY <1>2 DEF TargetLeast, Compared, Workers
<1> HIDE DEF Homed
<1> SUFFICES ASSUME NEW w \in Workers, NEW v \in Workers
             PROVE  Cardinality(Homed(w)') <= Cardinality(Homed(v)') + 1
    BY DEF Even
<1>10. Cardinality(Homed(w)) <= Cardinality(Homed(v)) + 1
    BY DEF Even
<1> QED BY <1>2, <1>6, <1>8, <1>9, <1>10

LEMMA BalanceStep ==
    ASSUME IInv, TypeOK', BInv, [HNext]_hvars
    PROVE  BInv'
<1>1. left' \in BOOLEAN /\ (left => left')
    BY DEF HNext, hvars, BInv
<1>2. ASSUME ~left' PROVE NoneClosing' /\ TargetLeast' /\ Even'
    <2>1. NoneClosing /\ TargetLeast /\ Even
        BY <1>1, <1>2 DEF BInv
    <2>2. CASE UNCHANGED hvars
        BY <2>1, <2>2
        DEF hvars, vars, epollVars, workerVars, listenVars, NoneClosing, TargetLeast,
            Even, Homed, Placing, Compared
    <2>3. CASE HNext
        <3>1. /\ NoneClosing'
              /\ i_epoll_add \/ UNCHANGED home
              /\ ListenThread \/ UNCHANGED listenVars
            BY <1>2, <2>1, <2>3, NobodyLeaves DEF BInv
        <3>2. CASE i_epoll_add
            <4>1. TargetLeast'
                BY <3>2 DEF i_epoll_add, TargetLeast, Placing
            <4> QED BY <2>1, <3>1, <3>2, <4>1, AddEven
        <3>3. CASE UNCHANGED home
            <4>1. Even'
                BY <2>1, <3>3 DEF Even, Homed
            <4>2. CASE ListenThread
                BY <2>1, <3>1, <3>3, <4>1, <4>2, ScanLeast
            <4>3. CASE UNCHANGED listenVars
                BY <2>1, <3>1, <3>3, <4>1, <4>3
                DEF listenVars, TargetLeast, Placing, Compared, Homed
            <4> QED BY <3>1, <4>2, <4>3
        <3> QED BY <3>1, <3>2, <3>3
    <2> QED BY <2>2, <2>3
<1> QED BY <1>1, <1>2 DEF BInv

\* Until a client leaves, AssignTask keeps the shares of the workers within one
\* of each other: the counters it compares, one after the other, are exact while
\* it places a client (ListenThread.cpp:129-141).
THEOREM KeepsBalance == HSpec => []Balanced
<1>1. HInit => BInv
    <2> SUFFICES ASSUME HInit PROVE BInv
        OBVIOUS
    <2>1. NoneClosing /\ TargetLeast /\ left = FALSE
        BY DEF HInit, Init, NoneClosing, TargetLeast, Placing
    <2>2. \A w \in Workers : Homed(w) = {}
        BY DEF HInit, Init, Homed, Workers, NoWorker
    <2>3. \A w \in Workers : Cardinality(Homed(w)) = 0
        BY <2>2, FS_EmptySet
    <2>4. Even
        BY <2>3 DEF Even
    <2> QED BY <2>1, <2>4 DEF BInv
<1>2. IInv /\ IInv' /\ BInv /\ [HNext]_hvars => BInv'
    BY BalanceStep DEF IInv
<1>3. BInv => Balanced
    BY DEF BInv, Balanced, Even
<1>4. HSpec => []IInv
    BY HistoryOnly, Inductive, PTL
<1> QED BY <1>1, <1>2, <1>3, <1>4, PTL DEF HSpec, hvars
=============================================================================
