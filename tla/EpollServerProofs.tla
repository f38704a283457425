------------------------- MODULE EpollServerProofs -------------------------
(***************************************************************************)
(* Theorems about EpollServer, for every number of connections,            *)
(* descriptors, workers and clients: types, the exactness of the           *)
(* m_ActiveConns counters, the stability of the descriptors in the         *)
(* workers' hands, the admission limit, and that the server implements     *)
(* Admission.                                                              *)
(***************************************************************************)
EXTENDS EpollServer, FiniteSetTheorems, TLAPS

USE ConnsAssumption, ConfigAssumption, BoundsAssumption

-----------------------------------------------------------------------------
(* Types. *)

\* Changing a function at one point keeps its type.
LEMMA ExceptType ==
    ASSUME NEW S, NEW T, NEW g \in [S -> T], NEW x, NEW v, x \in S => v \in T
    PROVE  [g EXCEPT ![x] = v] \in [S -> T]
OBVIOUS

\* What poll() reports is a set of events.
LEMMA PollableType ==
    \A m, h, r, o, p : Pollable(m, h, r, o, p) \in SUBSET {"IN", "OUT", "ERR"}
BY DEF Pollable

\* close() keeps the types of what it changes.
LEMMA CloseFdType ==
    ASSUME TypeOK, NEW f, CloseFd(f)
    PROVE  /\ sock' \in [Conns -> {"none", "backlog", "open", "closed"}]
           /\ peer' \in [Conns -> {"up", "fin", "rst", "finrst"}]
           /\ rcv' \in [Conns -> 0 .. RcvMax]
           /\ out' \in [Conns -> 0 .. SndMax]
           /\ fdtab' \in [Fds -> Conns \cup {None}]
           /\ home' \in [Conns -> Workers \cup {NoWorker}]
           /\ inset' \in [Conns -> BOOLEAN]
           /\ mode' \in [Conns -> {"READ", "WRITE"}]
           /\ rdhup' \in [Conns -> BOOLEAN]
           /\ ready' \in [Conns -> BOOLEAN]
<1> DEFINE c == fdtab[f]
<1>1. fdtab' = [fdtab EXCEPT ![f] = None] /\ home' = [home EXCEPT ![c] = NoWorker]
    BY DEF CloseFd
<1>2. /\ sock' = [sock EXCEPT ![c] = "closed"]
      /\ rcv' = [rcv EXCEPT ![c] = 0]
      /\ out' = [out EXCEPT ![c] = 0]
      /\ peer' = [peer EXCEPT ![c] = "up"]
    BY DEF CloseFd
<1>3. /\ inset' = [inset EXCEPT ![c] = FALSE]
      /\ mode' = [mode EXCEPT ![c] = "WRITE"]
      /\ rdhup' = [rdhup EXCEPT ![c] = FALSE]
      /\ ready' = [ready EXCEPT ![c] = FALSE]
    BY DEF CloseFd
<1> HIDE DEF c
<1>4. fdtab' \in [Fds -> Conns \cup {None}] /\ home' \in [Conns -> Workers \cup {NoWorker}]
    BY <1>1, ExceptType DEF TypeOK
<1>5. sock' \in [Conns -> {"none", "backlog", "open", "closed"}]
    BY <1>2, ExceptType DEF TypeOK
<1>6. 0 \in 0 .. RcvMax /\ 0 \in 0 .. SndMax
    OBVIOUS
<1>7. rcv' \in [Conns -> 0 .. RcvMax] /\ out' \in [Conns -> 0 .. SndMax]
    BY <1>2, <1>6, ExceptType DEF TypeOK
<1>8. peer' \in [Conns -> {"up", "fin", "rst", "finrst"}]
    BY <1>2, ExceptType DEF TypeOK
<1>9. inset' \in [Conns -> BOOLEAN] /\ rdhup' \in [Conns -> BOOLEAN]
      /\ ready' \in [Conns -> BOOLEAN]
    BY <1>3, ExceptType DEF TypeOK
<1>10. mode' \in [Conns -> {"READ", "WRITE"}]
    BY <1>3, ExceptType DEF TypeOK
<1> QED BY <1>4, <1>5, <1>7, <1>8, <1>9, <1>10

\* A client's step keeps the types.
LEMMA ClientType ==
    ASSUME TypeOK, NEW c \in Conns, Client(c) PROVE TypeOK'
<1>1. CASE Connect(c)
    BY <1>1 DEF TypeOK, Connect, epollVars, workerVars, listenVars
<1>2. CASE Send(c)
    BY <1>2 DEF TypeOK, Send, Edge, workerVars, listenVars
<1>3. CASE Drain(c)
    BY <1>3 DEF TypeOK, Drain, Edge, workerVars, listenVars
<1>4. CASE Fin(c)
    BY <1>4 DEF TypeOK, Fin, Edge, workerVars, listenVars
<1>5. CASE Reset(c)
    BY <1>5 DEF TypeOK, Reset, Edge, workerVars, listenVars
<1> QED BY <1>1, <1>2, <1>3, <1>4, <1>5 DEF Client

\* The next loop index is an index of a worker, or the loop is over.
LEMMA NextIndexType ==
    ASSUME TypeOK, lpc = "cmp", NextIndex
    PROVE  /\ li' \in 0 .. MaxThreads
           /\ lpc' \in {"sum", "decide"}
           /\ lpc' = "sum" => li' \in Workers
           /\ lpc' = "decide" => li' = MaxThreads
           /\ li' = li + 1
BY DEF TypeOK, NextIndex, Workers

\* A step of the ListenThread keeps the types.
LEMMA ListenThreadType ==
    ASSUME TypeOK, ListenThread PROVE TypeOK'
<1>1. CASE SumConns
    BY <1>1 DEF TypeOK, SumConns, kernelVars, epollVars, workerVars
<1>2. CASE ReadLoad
    BY <1>2 DEF TypeOK, ReadLoad, kernelVars, epollVars, workerVars
<1>3. CASE CompareLoad
    <2>1. target' \in Workers \cup {1}
        BY <1>3 DEF TypeOK, CompareLoad
    <2> QED BY <1>3, <2>1, NextIndexType
            DEF TypeOK, CompareLoad, kernelVars, epollVars, workerVars
<1>4. CASE CompareWild
    <2>1. CASE UNCHANGED listenVars
        BY <1>4, <2>1
        DEF TypeOK, CompareWild, kernelVars, epollVars, workerVars, listenVars
    <2>2. CASE /\ up' = up /\ target' \in {li, target} /\ NextIndex
               /\ UNCHANGED <<lfd, lval, activeConns>>
        BY <1>4, <2>2, NextIndexType
        DEF TypeOK, CompareWild, kernelVars, epollVars, workerVars
    <2> QED BY <1>4, <2>1, <2>2 DEF CompareWild
<1>5. CASE Refuse
    BY <1>5, CloseFdType DEF TypeOK, Refuse, workerVars
<1>6. CASE i_epoll_add
    BY <1>6, PollableType
    DEF TypeOK, i_epoll_add, InitMode, kernelVars, workerVars
<1>7. CASE AddFails
    BY <1>7 DEF TypeOK, AddFails, kernelVars, epollVars, workerVars
<1>8. CASE AddCrashes
    BY <1>8 DEF TypeOK, AddCrashes, kernelVars, epollVars, workerVars, listenVars
<1>9. CASE IncrementActiveConns
    <2>1. counter' = [counter EXCEPT ![target] = counter[target] + 1]
        BY <1>9 DEF IncrementActiveConns, atomic_inc
    <2>2. target \in Workers => counter[target] + 1 \in Int
        BY DEF TypeOK
    <2>3. counter' \in [Workers -> Int]
        BY <2>1, <2>2, ExceptType DEF TypeOK
    <2> QED BY <1>9, <2>3
            DEF TypeOK, IncrementActiveConns, kernelVars, epollVars
<1>10. ASSUME NEW c \in Conns, NEW f \in Fds, Listen(c, f) PROVE TypeOK'
    <2>1. 0 \in Workers
        BY DEF Workers
    <2> QED BY <1>10, <2>1 DEF TypeOK, Listen, epollVars, workerVars
<1> QED BY <1>1, <1>2, <1>3, <1>4, <1>5, <1>6, <1>7, <1>8, <1>9, <1>10
        DEF ListenThread, AssignTask

\* What is left of a batch, and the end of a handler, keep the types.
LEMMA FinishType ==
    ASSUME TypeOK, NEW w \in Workers, NEW e \in Event \cup {None}, NEW r \in {-1, 0},
           Finish(w, e, r)
    PROVE  /\ nRet' \in [Workers -> {-1, 0}]
           /\ wpc' \in [Workers -> {"wait", "loop", "spin", "toRead", "toWrite", "del",
                                    "close", "dec"}]
           /\ batch' \in [Workers -> SUBSET Event]
           /\ cur' \in [Workers -> Event \cup {None}]
BY DEF TypeOK, Finish, Returned, Resume

\* So does a handler that goes on with its event.
LEMMA BusyType ==
    ASSUME TypeOK, NEW w \in Workers, NEW e \in Event \cup {None},
           NEW pc \in {"spin", "toRead", "toWrite"}, Busy(w, e, pc)
    PROVE  /\ nRet' \in [Workers -> {-1, 0}]
           /\ wpc' \in [Workers -> {"wait", "loop", "spin", "toRead", "toWrite", "del",
                                    "close", "dec"}]
           /\ batch' \in [Workers -> SUBSET Event]
           /\ cur' \in [Workers -> Event \cup {None}]
BY DEF TypeOK, Busy

\* A step of a TaskThread keeps the types.
LEMMA TaskThreadType ==
    ASSUME TypeOK, NEW w \in Workers, TaskThread(w) PROVE TypeOK'
<1>1. CASE i_epoll_wait(w)
    <2>1. PICK F \in SUBSET ReadyFds(w) :
             /\ batch' = [batch EXCEPT ![w] =
                   {[fd |-> f, conn |-> fdtab[f], ev |-> Events(fdtab[f])] : f \in F}]
             /\ ready' = [c \in Conns |-> ready[c] /\ \A f \in F : fdtab[f] # c]
        BY <1>1 DEF i_epoll_wait
    <2>2. \A f \in F : [fd |-> f, conn |-> fdtab[f], ev |-> Events(fdtab[f])] \in Event
        BY PollableType DEF TypeOK, ReadyFds, Event, Events
    <2>3. batch' \in [Workers -> SUBSET Event]
        BY <2>1, <2>2 DEF TypeOK
    <2>4. ready' \in [Conns -> BOOLEAN]
        BY <2>1
    <2> QED BY <1>1, <2>3, <2>4 DEF TypeOK, i_epoll_wait, kernelVars, listenVars
<1>2. ASSUME NEW e \in batch[w], iRead(w, e) PROVE TypeOK'
    <2>1. e \in Event
        BY <1>2 DEF TypeOK
    <2> DEFINE c == fdtab[e.fd]
    <2>2. rcv' \in [Conns -> 0 .. RcvMax]
        <3>1. rcv' = [rcv EXCEPT ![c] = rcv[c] - recvn(c)]
            BY <1>2 DEF iRead
        <3>2. c \in Conns => rcv[c] - recvn(c) \in 0 .. RcvMax
            BY DEF TypeOK, recvn
        <3> QED BY <3>1, <3>2, ExceptType DEF TypeOK
    <2>3. \/ Finish(w, e, -1)
          \/ \E pc \in {"spin", "toRead", "toWrite"} : Busy(w, e, pc)
        BY <1>2 DEF iRead, ToChangeMode
    <2>4. errno' \in [Workers -> {"EINTR", "other"}]
        BY <1>2 DEF iRead, TypeOK, AfterRecv
    <2> QED BY <1>2, <2>1, <2>2, <2>3, <2>4, FinishType, BusyType
            DEF TypeOK, iRead, epollVars, listenVars
<1>3. ASSUME NEW e \in batch[w], iWrite(w, e) PROVE TypeOK'
    <2>1. e \in Event
        BY <1>3 DEF TypeOK
    <2> DEFINE c == fdtab[e.fd]
    <2>2. PICK s \in sendn(c) :
             /\ out' = [out EXCEPT ![c] = out[c] + s.took]
             /\ errno' = [errno EXCEPT ![w] = IF Failed(s.ret) THEN "other" ELSE errno[w]]
             /\ Finish(w, e, -1) \/ ToChangeMode(w, e, "toRead")
        BY <1>3 DEF iWrite
    <2>3. out' \in [Conns -> 0 .. SndMax]
        <3>1. s.took = 0 \/ (s.took = 1 /\ out[c] < SndMax)
            BY DEF sendn
        <3>2. c \in Conns => out[c] + s.took \in 0 .. SndMax
            BY <3>1 DEF TypeOK
        <3>3. PICK o : o = out[c] + s.took
            OBVIOUS
        <3>4. out' = [out EXCEPT ![c] = o] /\ (c \in Conns => o \in 0 .. SndMax)
            BY <2>2, <3>2, <3>3
        <3> QED BY <3>4, ExceptType DEF TypeOK
    <2>4. errno' \in [Workers -> {"EINTR", "other"}]
        BY <2>2 DEF TypeOK
    <2>5. \/ Finish(w, e, -1)
          \/ \E pc \in {"spin", "toRead", "toWrite"} : Busy(w, e, pc)
        BY <2>2 DEF ToChangeMode
    <2> QED BY <1>3, <2>1, <2>3, <2>4, <2>5, FinishType, BusyType
            DEF TypeOK, iWrite, epollVars, listenVars
<1>4. ASSUME NEW e \in batch[w], iError(w, e) PROVE TypeOK'
    <2>1. e \in Event /\ nRet[w] \in {-1, 0}
        BY <1>4 DEF TypeOK
    <2> QED BY <1>4, <2>1, FinishType
            DEF TypeOK, iError, kernelVars, epollVars, listenVars
<1>5. CASE i_epoll_change_mode(w)
    <2>1. Finish(w, cur[w], 0) /\ cur[w] \in Event \cup {None}
        BY <1>5 DEF i_epoll_change_mode, TypeOK
    <2>2. /\ mode' \in [Conns -> {"READ", "WRITE"}]
          /\ rdhup' \in [Conns -> BOOLEAN]
          /\ ready' \in [Conns -> BOOLEAN]
        BY <1>5 DEF i_epoll_change_mode, TypeOK
    <2> QED BY <1>5, <2>1, <2>2, FinishType
            DEF TypeOK, i_epoll_change_mode, kernelVars, listenVars
<1>6. CASE Close(w)
    <2>1. CASE DelStep(w, "del", "close")
        BY <1>6, <2>1 DEF TypeOK, Close, DelStep, EpollDel, kernelVars, listenVars
    <2>2. CASE CloseStep(w, "close", "dec")
        BY <1>6, <2>2, CloseFdType DEF TypeOK, Close, CloseStep, listenVars
    <2>3. CASE DecStep(w)
        BY <1>6, <2>3
        DEF TypeOK, Close, DecStep, Resume, atomic_dec, kernelVars, epollVars,
            listenVars
    <2> QED BY <1>6, <2>1, <2>2, <2>3 DEF Close, iClose
<1>7. CASE Interrupted(w)
    BY <1>7 DEF TypeOK, Interrupted, kernelVars, epollVars, listenVars
<1> QED BY <1>1, <1>2, <1>3, <1>4, <1>5, <1>6, <1>7 DEF TaskThread, ServesOn

\* Every step keeps the types.
LEMMA TypeStep == ASSUME TypeOK, [Next]_vars PROVE TypeOK'
<1>1. CASE UNCHANGED vars
    BY <1>1 DEF TypeOK, vars, kernelVars, epollVars, workerVars, listenVars
<1>2. CASE Next
    BY <1>2, ClientType, ListenThreadType, TaskThreadType DEF Next
<1> QED BY <1>1, <1>2

\* Type correctness: every variable of the threads and of the kernel keeps its
\* type, and AssignTask's loop index stays within m_taskthread.
THEOREM TypeCorrect == Spec => []TypeOK
<1>1. Init => TypeOK
    BY DEF Init, TypeOK, Workers
<1>2. TypeOK /\ [Next]_vars => TypeOK'
    BY TypeStep
<1> QED BY <1>1, <1>2, PTL DEF Spec

-----------------------------------------------------------------------------
(* The inductive invariant. *)

Holding(w) == wpc[w] \in {"spin", "toRead", "toWrite", "del", "close"}

\* A connection has one descriptor at most, and while it has one it is open.
FdsLinked ==
    /\ \A f, g \in Fds : fdtab[f] = fdtab[g] /\ fdtab[f] # None => f = g
    /\ \A f \in Fds : fdtab[f] # None => sock[fdtab[f]] = "open"

\* Only open connections are in an epoll set.
OpenServed == \A c \in Conns : home[c] # NoWorker => sock[c] = "open"

\* While the listener decides on a descriptor, that descriptor is open and no
\* worker knows of it; once it is placed, target is a worker.
ListenerHolds ==
    /\ Placing => /\ lfd \in Fds /\ fdtab[lfd] \in Conns
                  /\ home[fdtab[lfd]] = NoWorker
    /\ lpc = "inc" => target \in Workers

\* The events in a worker's hands are about different descriptors.
EventsDistinct ==
    \A w \in Workers :
        /\ \A d, e \in batch[w] : d.fd = e.fd => d = e
        /\ Holding(w) => cur[w] \in Event /\ \A e \in batch[w] : e.fd # cur[w].fd

\* The connections on the first k workers.
Seen(k) == {c \in Conns : home[c] \in 0 .. k - 1}

\* How many workers AssignTask has counted.
Counted == CASE lpc \in {"read", "cmp"} -> li + 1
             [] lpc = "decide" -> MaxThreads
             [] OTHER -> li

\* activeConns is never too low: it starts at 1 for the new connection, and the
\* workers already counted can only have lost connections since.
ScanBound == Placing => activeConns >= 1 + Cardinality(Seen(Counted))

IInv == /\ TypeOK /\ FdsLinked /\ OpenServed /\ ListenerHolds /\ FdStable
        /\ EventsDistinct /\ CounterExact /\ ScanBound /\ AdmissionLimit

-----------------------------------------------------------------------------
(* Facts about the sets the invariant counts. *)

LEMMA Parts ==
    ASSUME NEW S \in SUBSET Conns
    PROVE  IsFiniteSet(S) /\ Cardinality(S) \in Nat
BY FS_Subset, FS_CardinalityType

\* A smaller set of connections has no more elements.
LEMMA Fewer ==
    ASSUME NEW S \in SUBSET Conns, NEW T \in SUBSET S
    PROVE  Cardinality(T) <= Cardinality(S)
BY Parts, FS_Subset

\* One worker more: its connections join those seen before.
LEMMA SeenNext ==
    ASSUME NEW k \in Workers
    PROVE  Cardinality(Seen(k + 1)) <= Cardinality(Seen(k)) + Cardinality(Homed(k))
<1>1. k + 1 \in Nat /\ Seen(k + 1) = Seen(k) \cup Homed(k)
    BY DEF Seen, Homed, Workers
<1>2. /\ Seen(k) \in SUBSET Conns /\ Homed(k) \in SUBSET Conns
      /\ Seen(k) \cap Homed(k) \in SUBSET Conns
    BY DEF Seen, Homed
<1>3. Cardinality(Seen(k) \cup Homed(k))
        = Cardinality(Seen(k)) + Cardinality(Homed(k))
          - Cardinality(Seen(k) \cap Homed(k))
    BY <1>2, Parts, FS_Union
<1>4. /\ Cardinality(Seen(k)) \in Nat /\ Cardinality(Homed(k)) \in Nat
      /\ Cardinality(Seen(k) \cap Homed(k)) \in Nat
    BY <1>2, Parts
<1>5. Cardinality(Seen(k + 1)) = Cardinality(Seen(k) \cup Homed(k))
    BY <1>1
<1> HIDE DEF Seen, Homed
<1> QED BY <1>3, <1>4, <1>5

\* All workers: the connections seen are those served.
LEMMA SeenAll == ASSUME TypeOK PROVE Seen(MaxThreads) = Served
BY DEF Seen, Served, TypeOK, Workers, NoWorker

\* The counter of a worker is never below the number of its connections while
\* the listener is not about to increment it.
LEMMA CounterLow ==
    ASSUME IInv, lpc # "inc", NEW w \in Workers
    PROVE  counter[w] >= Cardinality(Homed(w))
<1>1. Cardinality(Homed(w)) \in Nat
    BY Parts DEF Homed
<1> QED BY <1>1 DEF IInv, CounterExact

-----------------------------------------------------------------------------
(* The inductive invariant holds initially. *)

LEMMA InitIInv == Init => IInv
<1> SUFFICES ASSUME Init PROVE IInv
    OBVIOUS
<1>1. TypeOK
    BY DEF Init, TypeOK, Workers
<1>2. FdsLinked /\ OpenServed /\ ListenerHolds /\ ScanBound
    BY DEF Init, FdsLinked, OpenServed, ListenerHolds, ScanBound, Placing
<1>3. FdStable /\ EventsDistinct
    BY DEF Init, FdStable, EventsDistinct, InHand, Holding
<1>4. Served = {} /\ \A w \in Workers : Homed(w) = {}
    BY DEF Init, Served, Homed, NoWorker, Workers
<1>5. CounterExact
    <2>1. \A w \in Workers : Cardinality(Homed(w)) = 0
        BY <1>4, FS_EmptySet
    <2>2. \A w \in Workers : counter[w] = 0 /\ wpc[w] # "dec" /\ lpc # "inc"
        BY DEF Init
    <2> QED BY <2>1, <2>2 DEF CounterExact
<1>6. AdmissionLimit
    BY <1>4, FS_EmptySet DEF AdmissionLimit
<1> QED BY <1>1, <1>2, <1>3, <1>5, <1>6 DEF IInv

-----------------------------------------------------------------------------
(* Steps that leave most of what the invariant is about alone. *)

\* A step that touches none of it.
LEMMA Unaffected ==
    ASSUME IInv, TypeOK',
           UNCHANGED <<sock, fdtab, home, counter, wpc, batch, cur>>,
           UNCHANGED <<lpc, lfd, li, target, activeConns>>
    PROVE  IInv'
<1>1. FdsLinked' /\ OpenServed'
    BY DEF IInv, FdsLinked, OpenServed
<1>2. ListenerHolds' /\ ScanBound'
    BY DEF IInv, ListenerHolds, ScanBound, Placing, Seen, Counted
<1>3. FdStable' /\ EventsDistinct'
    BY DEF IInv, FdStable, EventsDistinct, InHand, Holding
<1>4. CounterExact' /\ AdmissionLimit'
    BY DEF IInv, CounterExact, AdmissionLimit, Homed, Served
<1> QED BY <1>1, <1>2, <1>3, <1>4 DEF IInv

\* A step of the listener that neither closes nor places a descriptor.
LEMMA ListenerOnly ==
    ASSUME IInv, UNCHANGED <<sock, fdtab, home, wpc, batch, cur>>
    PROVE  /\ FdsLinked' /\ OpenServed' /\ FdStable' /\ EventsDistinct'
           /\ AdmissionLimit'
<1>1. FdsLinked' /\ OpenServed'
    BY DEF IInv, FdsLinked, OpenServed
<1>2. FdStable' /\ EventsDistinct'
    BY DEF IInv, FdStable, EventsDistinct, InHand, Holding
<1>3. AdmissionLimit'
    BY DEF IInv, AdmissionLimit, Served
<1> QED BY <1>1, <1>2, <1>3

\* A step of a worker that closes nothing, after which no worker has an event
\* in its hands that it did not have before.
LEMMA WorkerOnly ==
    ASSUME IInv, TypeOK',
           UNCHANGED <<sock, fdtab, home>>,
           UNCHANGED <<lpc, lfd, li, target, activeConns>>,
           FdStable', EventsDistinct', CounterExact'
    PROVE  IInv'
<1>1. FdsLinked' /\ OpenServed'
    BY DEF IInv, FdsLinked, OpenServed
<1>2. ListenerHolds' /\ ScanBound'
    BY DEF IInv, ListenerHolds, ScanBound, Placing, Seen, Counted
<1>3. AdmissionLimit'
    BY DEF IInv, AdmissionLimit, Served
<1> QED BY <1>1, <1>2, <1>3 DEF IInv

\* A counter that does not change stays exact if neither the worker's "dec" nor
\* the listener's "inc" is entered or left.
LEMMA CounterKept ==
    ASSUME IInv, UNCHANGED <<home, counter>>,
           \/ UNCHANGED <<lpc, target>>
           \/ lpc # "inc" /\ lpc' # "inc",
           \A w \in Workers : wpc'[w] = "dec" <=> wpc[w] = "dec"
    PROVE  CounterExact'
<1> SUFFICES ASSUME NEW w \in Workers
             PROVE  counter'[w] = Cardinality(Homed(w)')
                                  + (IF wpc'[w] = "dec" THEN 1 ELSE 0)
                                  - (IF lpc' = "inc" /\ target' = w THEN 1 ELSE 0)
    BY DEF CounterExact
<1>1. Homed(w)' = Homed(w)
    BY DEF Homed
<1> QED BY <1>1 DEF IInv, CounterExact

\* What a handler leaves in a worker's hands was there before.
LEMMA HandsShrink ==
    ASSUME IInv, TypeOK', NEW w \in Workers, NEW e,
           \/ wpc[w] = "loop" /\ e \in batch[w]
           \/ wpc[w] \in {"toRead", "toWrite"} /\ e = cur[w],
           \/ \E r \in {-1, 0} : Finish(w, e, r)
           \/ \E pc \in {"spin", "toRead", "toWrite"} : Busy(w, e, pc)
    PROVE  /\ \A v \in Workers : InHand(v)' \subseteq InHand(v)
           /\ \A v \in Workers : wpc'[v] = "dec" <=> wpc[v] = "dec"
           /\ EventsDistinct'
<1>1. e \in Event /\ e \in InHand(w)
    BY DEF IInv, TypeOK, EventsDistinct, Holding, InHand
<1>2. \/ /\ wpc' = [wpc EXCEPT ![w] = "del"]
         /\ cur' = [cur EXCEPT ![w] = e]
         /\ batch' = [batch EXCEPT ![w] = @ \ {e}]
      \/ /\ \E pc \in {"spin", "toRead", "toWrite"} : wpc' = [wpc EXCEPT ![w] = pc]
         /\ cur' = [cur EXCEPT ![w] = e]
         /\ batch' = [batch EXCEPT ![w] = @ \ {e}]
      \/ /\ \E pc \in {"wait", "loop"} : wpc' = [wpc EXCEPT ![w] = pc]
         /\ cur' = [cur EXCEPT ![w] = None]
         /\ batch' = [batch EXCEPT ![w] = @ \ {e}]
    BY DEF Finish, Busy, Resume
<1>3. \A v \in Workers \ {w} : wpc'[v] = wpc[v] /\ cur'[v] = cur[v] /\ batch'[v] = batch[v]
    BY <1>2 DEF IInv, TypeOK
<1>4. /\ batch'[w] = batch[w] \ {e}
      /\ \/ wpc'[w] \in {"spin", "toRead", "toWrite", "del"} /\ cur'[w] = e
         \/ wpc'[w] \in {"wait", "loop"}
    BY <1>2 DEF IInv, TypeOK
<1>5. \A v \in Workers : InHand(v)' \subseteq InHand(v)
    BY <1>1, <1>3, <1>4 DEF InHand
<1>6. \A v \in Workers : wpc'[v] = "dec" <=> wpc[v] = "dec"
    BY <1>3, <1>4
<1>7. \A d \in batch[w] \ {e} : d.fd # e.fd
    BY DEF IInv, EventsDistinct, Holding
<1>8. EventsDistinct'
    <2> SUFFICES ASSUME NEW v \in Workers
                 PROVE  /\ \A d, g \in batch'[v] : d.fd = g.fd => d = g
                        /\ Holding(v)' => /\ cur'[v] \in Event
                                          /\ \A g \in batch'[v] : g.fd # cur'[v].fd
        BY DEF EventsDistinct
    <2>1. CASE v = w
        BY <1>1, <1>4, <1>7, <2>1 DEF IInv, EventsDistinct, Holding
    <2>2. CASE v # w
        BY <1>3, <2>2 DEF IInv, EventsDistinct, Holding
    <2> QED BY <2>1, <2>2
<1> QED BY <1>5, <1>6, <1>8

\* Descriptors stay stable if the hands shrink and nothing is opened or closed.
LEMMA StillStable ==
    ASSUME IInv, UNCHANGED <<fdtab, home>>,
           \A v \in Workers : InHand(v)' \subseteq InHand(v)
    PROVE  FdStable'
BY DEF IInv, FdStable

-----------------------------------------------------------------------------
(* The clients and the listener preserve the inductive invariant. *)

LEMMA ClientKeeps ==
    ASSUME IInv, TypeOK', NEW c \in Conns, Client(c) PROVE IInv'
<1>1. CASE Connect(c)
    <2> USE <1>1 DEF Connect, epollVars, workerVars, listenVars
    <2>1. sock' = [sock EXCEPT ![c] = "backlog"] /\ sock[c] # "open"
        OBVIOUS
    <2>2. FdsLinked' /\ OpenServed'
        BY <2>1 DEF IInv, TypeOK, FdsLinked, OpenServed
    <2>3. ListenerHolds' /\ ScanBound'
        BY DEF IInv, ListenerHolds, ScanBound, Placing, Seen, Counted
    <2>4. FdStable' /\ EventsDistinct'
        BY DEF IInv, FdStable, EventsDistinct, InHand, Holding
    <2>5. CounterExact' /\ AdmissionLimit'
        BY DEF IInv, CounterExact, AdmissionLimit, Homed, Served
    <2> QED BY <2>2, <2>3, <2>4, <2>5 DEF IInv
<1>2. CASE Send(c) \/ Drain(c) \/ Fin(c) \/ Reset(c)
    BY <1>2, Unaffected
    DEF Send, Drain, Fin, Reset, workerVars, listenVars
<1> QED BY <1>1, <1>2 DEF Client

\* The loop of AssignTask goes on, or leaves every worker counted.
LEMMA NextIndexBound ==
    ASSUME IInv, TypeOK', lpc = "cmp", NextIndex,
           UNCHANGED <<home, fdtab, lfd, activeConns>>
    PROVE  ScanBound' /\ ListenerHolds'
<1>1. /\ li' = li + 1 /\ lpc' \in {"sum", "decide"}
      /\ lpc' = "decide" => li' = MaxThreads
    BY NextIndexType DEF IInv
<1>2. Counted = li + 1 /\ Counted' = Counted
    BY <1>1 DEF Counted
<1>3. Seen(Counted)' = Seen(Counted)
    BY <1>2 DEF Seen
<1>4. ScanBound'
    BY <1>3 DEF IInv, ScanBound, Placing
<1>5. ListenerHolds'
    BY <1>1 DEF IInv, ListenerHolds, Placing
<1> QED BY <1>4, <1>5

LEMMA ScanKeeps ==
    ASSUME IInv, TypeOK', SumConns \/ ReadLoad \/ CompareLoad \/ CompareWild
    PROVE  IInv'
<1>1. CASE SumConns
    <2> USE <1>1 DEF SumConns, kernelVars, epollVars, workerVars
    <2>1. CounterExact'
        BY CounterKept
    <2>2. ListenerHolds'
        BY DEF IInv, ListenerHolds, Placing
    <2>3. li \in Workers /\ activeConns \in Int /\ counter[li] \in Int
        BY DEF IInv, TypeOK
    <2>4. Seen(li) \in SUBSET Conns /\ Homed(li) \in SUBSET Conns
          /\ Seen(li + 1) \in SUBSET Conns
        BY DEF Seen, Homed
    <2>5. /\ Cardinality(Seen(li)) \in Nat /\ Cardinality(Homed(li)) \in Nat
          /\ Cardinality(Seen(li + 1)) \in Nat
        BY <2>4, Parts
    <2>6. activeConns >= 1 + Cardinality(Seen(li))
        BY DEF IInv, ScanBound, Placing, Counted
    <2>7. counter[li] >= Cardinality(Homed(li))
        BY <2>3, CounterLow
    <2>8. Cardinality(Seen(li + 1)) <= Cardinality(Seen(li)) + Cardinality(Homed(li))
        BY <2>3, SeenNext
    <2>9. activeConns' >= 1 + Cardinality(Seen(li + 1))
        BY <2>3, <2>5, <2>6, <2>7, <2>8
    <2>10. Seen(Counted)' = Seen(li + 1)
        BY DEF Seen, Counted
    <2>11. ScanBound'
        BY <2>9, <2>10 DEF ScanBound
    <2> QED BY <2>1, <2>2, <2>11, ListenerOnly DEF IInv
<1>2. CASE ReadLoad
    <2> USE <1>2 DEF ReadLoad, kernelVars, epollVars, workerVars
    <2>1. CounterExact'
        BY CounterKept
    <2>2. ListenerHolds' /\ ScanBound'
        BY DEF IInv, ListenerHolds, ScanBound, Placing, Seen, Counted
    <2> QED BY <2>1, <2>2, ListenerOnly DEF IInv
<1>3. CASE CompareLoad
    <2> USE <1>3 DEF CompareLoad, kernelVars, epollVars, workerVars
    <2>1. ListenerHolds' /\ ScanBound'
        BY NextIndexBound
    <2>2. lpc' \in {"sum", "decide"}
        BY NextIndexType DEF IInv
    <2>3. CounterExact'
        BY <2>2, CounterKept
    <2> QED BY <2>1, <2>3, ListenerOnly DEF IInv
<1>4. CASE CompareWild
    <2> USE <1>4 DEF CompareWild, kernelVars, epollVars, workerVars
    <2>1. CASE UNCHANGED listenVars
        BY <2>1, Unaffected DEF listenVars
    <2>2. CASE NextIndex /\ UNCHANGED <<lfd, lval, activeConns>>
        <3>1. ListenerHolds' /\ ScanBound'
            BY <2>2, NextIndexBound
        <3>2. lpc' \in {"sum", "decide"}
            BY <2>2, NextIndexType DEF IInv
        <3>3. CounterExact'
            BY <3>2, CounterKept
        <3> QED BY <3>1, <3>3, ListenerOnly DEF IInv
    <2> QED BY <2>1, <2>2
<1> QED BY <1>1, <1>2, <1>3, <1>4

\* close(f) of a connection's descriptor: that descriptor and that connection
\* are gone, all else is as before.
LEMMA CloseFdEffect ==
    ASSUME TypeOK, NEW f \in Fds, fdtab[f] \in Conns, CloseFd(f)
    PROVE  /\ \A g \in Fds : fdtab'[g] = IF g = f THEN None ELSE fdtab[g]
           /\ \A d \in Conns :
                 /\ sock'[d] = IF d = fdtab[f] THEN "closed" ELSE sock[d]
                 /\ home'[d] = IF d = fdtab[f] THEN NoWorker ELSE home[d]
BY DEF TypeOK, CloseFd

\* What close(f) preserves, whoever calls it.
LEMMA CloseFdKeeps ==
    ASSUME IInv, NEW f \in Fds, fdtab[f] \in Conns, CloseFd(f)
    PROVE  FdsLinked' /\ OpenServed' /\ AdmissionLimit'
<1>0. /\ \A g \in Fds : fdtab'[g] = IF g = f THEN None ELSE fdtab[g]
      /\ \A d \in Conns :
            /\ sock'[d] = IF d = fdtab[f] THEN "closed" ELSE sock[d]
            /\ home'[d] = IF d = fdtab[f] THEN NoWorker ELSE home[d]
    BY CloseFdEffect DEF IInv
<1>1. FdsLinked' /\ OpenServed'
    <2>1. \A g, h \in Fds : fdtab'[g] = fdtab'[h] /\ fdtab'[g] # None => g = h
        BY <1>0 DEF IInv, FdsLinked
    <2>2. \A g \in Fds : fdtab'[g] # None => sock'[fdtab'[g]] = "open"
        <3> SUFFICES ASSUME NEW g \in Fds, fdtab'[g] # None
                     PROVE  sock'[fdtab'[g]] = "open"
            OBVIOUS
        <3>1. g # f /\ fdtab'[g] = fdtab[g] /\ fdtab[g] \in Conns
            BY <1>0 DEF IInv, TypeOK
        <3>2. fdtab[g] # fdtab[f]
            BY <3>1 DEF IInv, FdsLinked
        <3> QED BY <1>0, <3>1, <3>2 DEF IInv, FdsLinked
    <2>3. OpenServed'
        BY <1>0 DEF IInv, OpenServed
    <2> QED BY <2>1, <2>2, <2>3 DEF FdsLinked
<1>2. Served' \in SUBSET Served /\ Served \in SUBSET Conns
    BY CloseFdEffect DEF IInv, Served
<1>3. Cardinality(Served') <= Cardinality(Served)
    BY <1>2, Fewer
<1>4. /\ Cardinality(Served') \in Nat /\ Cardinality(Served) \in Nat
      /\ Cardinality(Served) <= MaxClients
    BY <1>2, Parts DEF IInv, AdmissionLimit
<1>5. AdmissionLimit'
    BY <1>3, <1>4 DEF AdmissionLimit
<1> QED BY <1>1, <1>5

LEMMA RefuseKeeps == ASSUME IInv, TypeOK', Refuse PROVE IInv'
<1> USE DEF Refuse, workerVars
<1>1. lfd \in Fds /\ fdtab[lfd] \in Conns /\ home[fdtab[lfd]] = NoWorker
    BY DEF IInv, ListenerHolds, Placing
<1>2. FdsLinked' /\ OpenServed' /\ AdmissionLimit'
    BY <1>1, CloseFdKeeps
<1>3. home' = home
    BY <1>1 DEF CloseFd, IInv, TypeOK
<1>4. ListenerHolds' /\ ScanBound'
    BY DEF ListenerHolds, ScanBound, Placing
<1>5. FdStable'
    <2> SUFFICES ASSUME NEW w \in Workers, NEW e \in InHand(w)
                 PROVE  fdtab'[e.fd] = e.conn /\ home'[e.conn] = w
        BY DEF FdStable, InHand
    <2>1. e \in Event /\ fdtab[e.fd] = e.conn /\ home[e.conn] = w
        BY DEF IInv, TypeOK, FdStable, EventsDistinct, InHand, Holding
    <2>2. e.fd \in Fds /\ e.fd # lfd
        BY <1>1, <2>1 DEF Event, NoWorker, Workers
    <2> QED BY <1>1, <1>3, <2>1, <2>2, CloseFdEffect DEF IInv
<1>6. EventsDistinct'
    BY DEF IInv, EventsDistinct, Holding
<1>7. CounterExact'
    BY <1>3, CounterKept
<1> QED BY <1>2, <1>4, <1>5, <1>6, <1>7 DEF IInv

LEMMA AddKeeps == ASSUME IInv, TypeOK', i_epoll_add PROVE IInv'
<1> DEFINE c == fdtab[lfd]
<1> USE DEF i_epoll_add, kernelVars, workerVars
<1>1. c \in Conns /\ home[c] = NoWorker /\ lfd \in Fds /\ sock[c] = "open"
      /\ target \in Workers
    BY DEF IInv, ListenerHolds, FdsLinked, Placing
<1>2. \A d \in Conns : home'[d] = IF d = c THEN target ELSE home[d]
    BY <1>1 DEF IInv, TypeOK
<1>3. FdsLinked' /\ OpenServed'
    BY <1>1, <1>2 DEF IInv, FdsLinked, OpenServed
<1>4. ListenerHolds' /\ ScanBound'
    BY <1>1 DEF ListenerHolds, ScanBound, Placing
<1>5. FdStable'
    BY <1>1, <1>2 DEF IInv, TypeOK, FdStable, InHand, NoWorker, Workers
<1>6. EventsDistinct'
    BY DEF IInv, EventsDistinct, Holding
<1>7. CounterExact'
    <2> SUFFICES ASSUME NEW w \in Workers
                 PROVE  counter'[w] = Cardinality(Homed(w)')
                                      + (IF wpc'[w] = "dec" THEN 1 ELSE 0)
                                      - (IF lpc' = "inc" /\ target' = w THEN 1 ELSE 0)
        BY DEF CounterExact
    <2>1. Homed(w) \in SUBSET Conns /\ c \notin Homed(w)
        BY <1>1 DEF Homed, NoWorker, Workers
    <2>2. Homed(w)' = IF w = target THEN Homed(w) \cup {c} ELSE Homed(w)
        BY <1>1, <1>2 DEF Homed, NoWorker, Workers
    <2>3. Cardinality(Homed(w) \cup {c}) = Cardinality(Homed(w)) + 1
        BY <2>1, Parts, FS_AddElement
    <2>4. Cardinality(Homed(w)') = Cardinality(Homed(w)) + (IF w = target THEN 1 ELSE 0)
        BY <2>1, <2>2, <2>3, Parts
    <2>5. counter[w] = Cardinality(Homed(w)) + (IF wpc[w] = "dec" THEN 1 ELSE 0)
        BY <2>1, Parts DEF IInv, CounterExact
    <2> QED BY <2>1, <2>4, <2>5, Parts
<1>8. AdmissionLimit'
    <2>1. Served \in SUBSET Conns /\ Served' = Served \cup {c}
        BY <1>1, <1>2 DEF Served, NoWorker, Workers
    <2>2. Cardinality(Served \cup {c}) <= Cardinality(Served) + 1
        <3>1. IsFiniteSet(Served) /\ Cardinality(Served) \in Nat
            BY <2>1, Parts
        <3>2. Cardinality(Served \cup {c})
                = IF c \in Served THEN Cardinality(Served) ELSE Cardinality(Served) + 1
            BY <3>1, FS_AddElement
        <3> HIDE DEF c
        <3> QED BY <3>1, <3>2
    <2>3. activeConns >= 1 + Cardinality(Served)
        BY SeenAll DEF IInv, ScanBound, Placing, Counted
    <2>4. activeConns \in Int /\ activeConns <= MaxClients
        BY DEF Full, IInv, TypeOK
    <2>5. Cardinality(Served) \in Nat /\ Cardinality(Served \cup {c}) \in Nat
        BY <1>1, <2>1, Parts
    <2>6. Cardinality(Served \cup {c}) <= MaxClients
        BY <2>2, <2>3, <2>4, <2>5
    <2> QED BY <2>1, <2>6 DEF AdmissionLimit
<1> QED BY <1>3, <1>4, <1>5, <1>6, <1>7, <1>8 DEF IInv

LEMMA ListenKeeps ==
    ASSUME IInv, TypeOK', NEW c \in Conns, NEW f \in Fds, Listen(c, f)
    PROVE  IInv'
<1> USE DEF Listen, epollVars, workerVars
<1>1. /\ sock[c] = "backlog" /\ home[c] = NoWorker /\ fdtab[f] = None
      /\ \A g \in Fds : fdtab[g] # c
    BY DEF IInv, OpenServed, FdsLinked
<1>2. /\ \A g \in Fds : fdtab'[g] = IF g = f THEN c ELSE fdtab[g]
      /\ \A d \in Conns : sock'[d] = IF d = c THEN "open" ELSE sock[d]
    BY DEF IInv, TypeOK
<1>3. FdsLinked' /\ OpenServed'
    BY <1>1, <1>2 DEF IInv, TypeOK, FdsLinked, OpenServed
<1>4. ListenerHolds'
    BY <1>1, <1>2 DEF ListenerHolds, Placing
<1>5. ScanBound'
    <2>1. Seen(Counted)' = {}
        BY DEF Seen, Counted
    <2> QED BY <2>1, FS_EmptySet DEF ScanBound
<1>6. FdStable'
    BY <1>1, <1>2 DEF IInv, TypeOK, FdStable, InHand, Event, EventsDistinct, Holding
<1>7. EventsDistinct'
    BY DEF IInv, EventsDistinct, Holding
<1>8. CounterExact'
    BY CounterKept
<1>9. AdmissionLimit'
    BY DEF IInv, AdmissionLimit, Served
<1> QED BY <1>3, <1>4, <1>5, <1>6, <1>7, <1>8, <1>9 DEF IInv

LEMMA IncrementKeeps == ASSUME IInv, TypeOK', IncrementActiveConns PROVE IInv'
<1> USE DEF IncrementActiveConns, kernelVars, epollVars
<1>1. target \in Workers
    BY DEF IInv, ListenerHolds
<1>2. ListenerHolds' /\ ScanBound'
    BY DEF ListenerHolds, ScanBound, Placing
<1>3. CounterExact'
    <2> SUFFICES ASSUME NEW w \in Workers
                 PROVE  counter'[w] = Cardinality(Homed(w)')
                                      + (IF wpc'[w] = "dec" THEN 1 ELSE 0)
                                      - (IF lpc' = "inc" /\ target' = w THEN 1 ELSE 0)
        BY DEF CounterExact
    <2>1. Homed(w)' = Homed(w) /\ Homed(w) \in SUBSET Conns
        BY DEF Homed
    <2>2. Cardinality(Homed(w)) \in Nat
        BY <2>1, Parts
    <2>3. counter'[w] = counter[w] + (IF target = w THEN 1 ELSE 0)
        BY <1>1 DEF IInv, TypeOK, atomic_inc
    <2>4. counter[w] = Cardinality(Homed(w)) + (IF wpc[w] = "dec" THEN 1 ELSE 0)
                       - (IF target = w THEN 1 ELSE 0)
        BY DEF IInv, CounterExact
    <2> QED BY <2>1, <2>2, <2>3, <2>4
<1> QED BY <1>2, <1>3, ListenerOnly DEF IInv

\* A step of the ListenThread preserves the inductive invariant.
LEMMA ListenThreadKeeps == ASSUME IInv, TypeOK', ListenThread PROVE IInv'
<1>1. CASE AddFails
    <2>1. ListenerHolds' /\ ScanBound'
        BY <1>1 DEF AddFails, ListenerHolds, ScanBound, Placing
    <2>2. CounterExact'
        BY <1>1, CounterKept DEF AddFails, epollVars, workerVars
    <2> QED BY <1>1, <2>1, <2>2, ListenerOnly
            DEF AddFails, kernelVars, epollVars, workerVars, IInv
<1>2. CASE AddCrashes
    BY <1>2, Unaffected
    DEF AddCrashes, kernelVars, epollVars, workerVars, listenVars
<1> QED BY <1>1, <1>2, ScanKeeps, RefuseKeeps, AddKeeps, IncrementKeeps, ListenKeeps
        DEF ListenThread, AssignTask

-----------------------------------------------------------------------------
(* The workers preserve the inductive invariant. *)

LEMMA WaitKeeps ==
    ASSUME IInv, TypeOK', NEW w \in Workers, i_epoll_wait(w) PROVE IInv'
<1> USE DEF i_epoll_wait, kernelVars, listenVars
<1>1. PICK F \in SUBSET ReadyFds(w) :
         batch' = [batch EXCEPT ![w] =
             {[fd |-> f, conn |-> fdtab[f], ev |-> Events(fdtab[f])] : f \in F}]
    OBVIOUS
<1>2. /\ batch'[w] = {[fd |-> f, conn |-> fdtab[f], ev |-> Events(fdtab[f])] : f \in F}
      /\ \A v \in Workers \ {w} : batch'[v] = batch[v] /\ wpc'[v] = wpc[v]
      /\ wpc'[w] = "loop" /\ wpc[w] = "wait"
    BY <1>1 DEF IInv, TypeOK
<1>3. FdStable'
    <2> SUFFICES ASSUME NEW v \in Workers, NEW e \in InHand(v)'
                 PROVE  fdtab[e.fd] = e.conn /\ home[e.conn] = v
        BY DEF FdStable, InHand
    <2>1. CASE v = w
        BY <1>2, <2>1 DEF InHand, ReadyFds
    <2>2. CASE v # w
        BY <1>2, <2>2 DEF IInv, FdStable, InHand
    <2> QED BY <2>1, <2>2
<1>4. EventsDistinct'
    BY <1>2 DEF IInv, EventsDistinct, Holding
<1>5. CounterExact'
    BY <1>2, CounterKept
<1> QED BY <1>3, <1>4, <1>5, WorkerOnly

\* The handlers up to the moment they know whether the connection is to go.
LEMMA HandlersKeep ==
    ASSUME IInv, TypeOK', NEW w \in Workers,
           \/ \E e \in batch[w] : iRead(w, e) \/ iWrite(w, e) \/ iError(w, e)
           \/ i_epoll_change_mode(w)
    PROVE  IInv'
<1>1. PICK e : /\ \/ wpc[w] = "loop" /\ e \in batch[w]
                  \/ wpc[w] \in {"toRead", "toWrite"} /\ e = cur[w]
               /\ \/ \E r \in {-1, 0} : Finish(w, e, r)
                  \/ \E pc \in {"spin", "toRead", "toWrite"} : Busy(w, e, pc)
    <2>1. ASSUME NEW d \in batch[w], iRead(w, d) \/ iWrite(w, d)
          PROVE  /\ wpc[w] = "loop"
                 /\ \/ Finish(w, d, -1)
                    \/ \E pc \in {"spin", "toRead", "toWrite"} : Busy(w, d, pc)
        BY <2>1 DEF iRead, iWrite, ToChangeMode
    <2>2. ASSUME NEW d \in batch[w], iError(w, d)
          PROVE  wpc[w] = "loop" /\ \E r \in {-1, 0} : Finish(w, d, r)
        <3>1. nRet[w] \in {-1, 0}
            BY DEF IInv, TypeOK
        <3> QED BY <2>2, <3>1 DEF iError
    <2>3. CASE i_epoll_change_mode(w)
        BY <2>3 DEF i_epoll_change_mode
    <2> QED BY <2>1, <2>2, <2>3
<1>2. UNCHANGED <<sock, fdtab, home, counter, listenVars>>
    BY DEF iRead, iWrite, iError, i_epoll_change_mode, kernelVars, epollVars
<1>3. /\ \A v \in Workers : InHand(v)' \subseteq InHand(v)
      /\ \A v \in Workers : wpc'[v] = "dec" <=> wpc[v] = "dec"
      /\ EventsDistinct'
    BY <1>1, HandsShrink
<1>4. FdStable' /\ CounterExact'
    BY <1>2, <1>3, StillStable, CounterKept DEF listenVars
<1> QED BY <1>2, <1>3, <1>4, WorkerOnly DEF listenVars

LEMMA DelKeeps ==
    ASSUME IInv, TypeOK', NEW w \in Workers, DelStep(w, "del", "close"),
           UNCHANGED listenVars
    PROVE  IInv'
<1> USE DEF DelStep, kernelVars, listenVars
<1>1. /\ wpc[w] = "del" /\ wpc'[w] = "close"
      /\ \A v \in Workers \ {w} : wpc'[v] = wpc[v]
    BY DEF IInv, TypeOK
<1>2. \A v \in Workers : InHand(v)' = InHand(v) /\ (Holding(v)' <=> Holding(v))
    BY <1>1 DEF InHand, Holding
<1>3. FdStable' /\ EventsDistinct'
    BY <1>2, StillStable DEF IInv, EventsDistinct
<1>4. CounterExact'
    BY <1>1, CounterKept
<1> QED BY <1>3, <1>4, WorkerOnly

LEMMA DecKeeps ==
    ASSUME IInv, TypeOK', NEW w \in Workers, DecStep(w), UNCHANGED listenVars
    PROVE  IInv'
<1> USE DEF DecStep, Resume, kernelVars, epollVars, listenVars
<1>1. /\ wpc[w] = "dec" /\ wpc'[w] \in {"wait", "loop"}
      /\ \A v \in Workers \ {w} : wpc'[v] = wpc[v] /\ cur'[v] = cur[v]
      /\ \A v \in Workers : batch'[v] = batch[v]
      /\ \A v \in Workers : counter'[v] = counter[v] - (IF v = w THEN 1 ELSE 0)
    BY DEF IInv, TypeOK, atomic_dec
<1>2. \A v \in Workers : InHand(v)' = InHand(v)
    BY <1>1 DEF InHand
<1>3. EventsDistinct'
    BY <1>1 DEF IInv, EventsDistinct, Holding
<1>4. CounterExact'
    <2> SUFFICES ASSUME NEW v \in Workers
                 PROVE  counter'[v] = Cardinality(Homed(v)')
                                      + (IF wpc'[v] = "dec" THEN 1 ELSE 0)
                                      - (IF lpc' = "inc" /\ target' = v THEN 1 ELSE 0)
        BY DEF CounterExact
    <2>1. Homed(v)' = Homed(v) /\ Homed(v) \in SUBSET Conns
        BY DEF Homed
    <2>2. Cardinality(Homed(v)) \in Nat
        BY <2>1, Parts
    <2>3. counter[v] = Cardinality(Homed(v)) + (IF wpc[v] = "dec" THEN 1 ELSE 0)
                       - (IF lpc = "inc" /\ target = v THEN 1 ELSE 0)
        BY DEF IInv, CounterExact
    <2> QED BY <1>1, <2>1, <2>2, <2>3
<1> QED BY <1>2, <1>3, <1>4, StillStable, WorkerOnly

LEMMA CloseKeeps ==
    ASSUME IInv, TypeOK', NEW w \in Workers, CloseStep(w, "close", "dec"),
           UNCHANGED listenVars
    PROVE  IInv'
<1> DEFINE f == cur[w].fd
           c == fdtab[f]
<1> USE DEF CloseStep, listenVars
<1>1. /\ wpc[w] = "close" /\ wpc'[w] = "dec"
      /\ \A v \in Workers \ {w} : wpc'[v] = wpc[v]
    BY DEF IInv, TypeOK
<1>2. cur[w] \in Event /\ cur[w] \in InHand(w)
    BY <1>1 DEF IInv, EventsDistinct, Holding, InHand
<1>3. f \in Fds /\ c \in Conns /\ c = cur[w].conn /\ home[c] = w
    BY <1>2 DEF IInv, FdStable, Event
<1>4. FdsLinked' /\ OpenServed' /\ AdmissionLimit'
    BY <1>3, CloseFdKeeps
<1>5. /\ \A g \in Fds : fdtab'[g] = IF g = f THEN None ELSE fdtab[g]
      /\ \A d \in Conns : home'[d] = IF d = c THEN NoWorker ELSE home[d]
    BY <1>3, CloseFdEffect DEF IInv
<1>6. ListenerHolds'
    BY <1>3, <1>5 DEF IInv, ListenerHolds, Placing, NoWorker, Workers
<1>7. FdStable'
    <2> SUFFICES ASSUME NEW v \in Workers, NEW e \in InHand(v)'
                 PROVE  fdtab'[e.fd] = e.conn /\ home'[e.conn] = v
        BY DEF FdStable
    <2>1. e \in InHand(v) /\ (v = w => e \in batch[w])
        BY <1>1 DEF InHand
    <2>2. e \in Event /\ fdtab[e.fd] = e.conn /\ home[e.conn] = v
        BY <2>1 DEF IInv, TypeOK, FdStable, EventsDistinct, InHand, Holding
    <2>3. e.fd \in Fds /\ e.conn \in Conns
        BY <2>2 DEF Event
    <2>4. e.fd # f
        <3>1. CASE v = w
            BY <1>1, <2>1, <3>1 DEF IInv, EventsDistinct, Holding
        <3>2. CASE v # w
            BY <1>3, <2>2, <3>2
        <3> QED BY <3>1, <3>2
    <2>5. e.conn # c
        BY <1>3, <2>2, <2>3, <2>4 DEF IInv, FdsLinked
    <2> QED BY <1>5, <2>2, <2>3, <2>4, <2>5
<1>8. EventsDistinct'
    BY <1>1 DEF IInv, EventsDistinct, Holding
<1>9. CounterExact'
    <2> SUFFICES ASSUME NEW v \in Workers
                 PROVE  counter'[v] = Cardinality(Homed(v)')
                                      + (IF wpc'[v] = "dec" THEN 1 ELSE 0)
                                      - (IF lpc' = "inc" /\ target' = v THEN 1 ELSE 0)
        BY DEF CounterExact
    <2>1. Homed(v)' = IF v = w THEN Homed(v) \ {c} ELSE Homed(v)
        BY <1>3, <1>5 DEF Homed, NoWorker, Workers
    <2>2. IsFiniteSet(Homed(v)) /\ Cardinality(Homed(v)) \in Nat
        BY Parts DEF Homed
    <2>3. v = w => Cardinality(Homed(v) \ {c}) = Cardinality(Homed(v)) - 1
        <3>1. Cardinality(Homed(v) \ {c})
                = IF c \in Homed(v) THEN Cardinality(Homed(v)) - 1
                  ELSE Cardinality(Homed(v))
            BY <2>2, FS_RemoveElement
        <3>2. v = w => c \in Homed(v)
            BY <1>3 DEF Homed
        <3> HIDE DEF c
        <3> QED BY <3>1, <3>2
    <2>4. Cardinality(Homed(v)') = Cardinality(Homed(v)) - (IF v = w THEN 1 ELSE 0)
        BY <2>1, <2>2, <2>3
    <2>5. counter[v] = Cardinality(Homed(v)) + (IF wpc[v] = "dec" THEN 1 ELSE 0)
                       - (IF lpc = "inc" /\ target = v THEN 1 ELSE 0)
        BY DEF IInv, CounterExact
    <2> QED BY <1>1, <2>2, <2>4, <2>5
<1>10. ScanBound'
    <2>1. Seen(Counted)' \in SUBSET Seen(Counted) /\ Seen(Counted) \in SUBSET Conns
        BY <1>5 DEF Seen, Counted, IInv, TypeOK, NoWorker
    <2>2. Cardinality(Seen(Counted)') <= Cardinality(Seen(Counted))
        BY <2>1, Fewer
    <2>3. Cardinality(Seen(Counted)') \in Nat /\ Cardinality(Seen(Counted)) \in Nat
        BY <2>1, Parts
    <2>4. Placing => activeConns >= 1 + Cardinality(Seen(Counted))
        BY DEF IInv, ScanBound
    <2>5. activeConns \in Int /\ activeConns' = activeConns /\ (Placing' <=> Placing)
        BY DEF IInv, TypeOK, Placing
    <2> QED BY <2>2, <2>3, <2>4, <2>5 DEF ScanBound
<1> QED BY <1>4, <1>6, <1>7, <1>8, <1>9, <1>10 DEF IInv

\* A step of a TaskThread preserves the inductive invariant.
LEMMA TaskThreadKeeps ==
    ASSUME IInv, TypeOK', NEW w \in Workers, TaskThread(w) PROVE IInv'
<1>1. CASE Close(w)
    BY <1>1, DelKeeps, CloseKeeps, DecKeeps DEF Close, iClose
<1>2. CASE Interrupted(w)
    BY <1>2, Unaffected DEF Interrupted, kernelVars, epollVars, listenVars
<1> QED BY <1>1, <1>2, WaitKeeps, HandlersKeep DEF TaskThread, ServesOn

-----------------------------------------------------------------------------
(* The theorems. *)

\* The invariant holds throughout.
THEOREM Inductive == Spec => []IInv
<1>1. IInv /\ [Next]_vars => IInv'
    <2> SUFFICES ASSUME IInv, [Next]_vars PROVE IInv'
        OBVIOUS
    <2>1. TypeOK'
        BY TypeStep DEF IInv
    <2>2. CASE UNCHANGED vars
        BY <2>1, <2>2, Unaffected
        DEF vars, kernelVars, epollVars, workerVars, listenVars
    <2>3. CASE Next
        BY <2>1, <2>3, ClientKeeps, ListenThreadKeeps, TaskThreadKeeps DEF Next
    <2> QED BY <2>2, <2>3
<1> QED BY <1>1, InitIInv, PTL DEF Spec

\* The workers never serve more than maxclients connections, whatever the order
\* of the listener's reads and the workers' decrements (ListenThread.cpp:132-159).
THEOREM AdmissionLimited == Spec => []AdmissionLimit
<1>1. IInv => AdmissionLimit
    BY DEF IInv
<1> QED BY <1>1, Inductive, PTL

\* m_ActiveConns is exact but for the close or the add under way
\* (TaskThread.cpp:36-39, 89-103).
THEOREM CountersExact == Spec => []CounterExact
<1>1. IInv => CounterExact
    BY DEF IInv
<1> QED BY <1>1, Inductive, PTL

\* No descriptor changes its meaning under a worker's hands (iEpoll.cpp:60-88).
THEOREM FdsStable == Spec => []FdStable
<1>1. IInv => FdStable
    BY DEF IInv
<1> QED BY <1>1, Inductive, PTL

\* With more than one worker, and as long as epoll_ctl(EPOLL_CTL_ADD) does not
\* fail, no descriptor is lost: AssignTask closes or places every one
\* (ListenThread.cpp:127-162).
THEOREM FdsAccounted ==
    ASSUME ~AddMayFail, MaxThreads > 1 PROVE Spec => []FdAccounted
<1>1. Init => FdAccounted
    BY DEF Init, FdAccounted
<1>2. IInv /\ FdAccounted /\ [Next]_vars => FdAccounted'
    <2> SUFFICES ASSUME IInv, FdAccounted, [Next]_vars PROVE FdAccounted'
        OBVIOUS
    <2>1. CASE UNCHANGED <<fdtab, home, lfd>> /\ (Placing' <=> Placing)
        BY <2>1 DEF FdAccounted
    <2>2. CASE Refuse
        <3>1. lfd \in Fds /\ fdtab[lfd] \in Conns /\ home[fdtab[lfd]] = NoWorker
            BY <2>2 DEF Refuse, IInv, ListenerHolds, Placing
        <3>2. home' = home
            BY <2>2, <3>1 DEF Refuse, CloseFd, IInv, TypeOK
        <3> QED BY <2>2, <3>1, <3>2, CloseFdEffect
                DEF Refuse, IInv, FdAccounted, Placing
    <2>3. CASE i_epoll_add
        <3> DEFINE c == fdtab[lfd]
        <3>1. c \in Conns /\ lfd \in Fds /\ target \in Workers /\ target # NoWorker
            BY <2>3 DEF i_epoll_add, IInv, ListenerHolds, Placing, NoWorker, Workers
        <3>2. /\ fdtab' = fdtab /\ lfd' = lfd
              /\ \A d \in Conns : home'[d] = IF d = c THEN target ELSE home[d]
            BY <2>3, <3>1 DEF i_epoll_add, kernelVars, IInv, TypeOK
        <3> QED BY <3>1, <3>2 DEF FdAccounted, IInv, TypeOK
    <2>4. ASSUME NEW c \in Conns, NEW f \in Fds, Listen(c, f) PROVE FdAccounted'
        <3>1. /\ \A g \in Fds : fdtab'[g] = IF g = f THEN c ELSE fdtab[g]
              /\ home' = home /\ lfd' = f /\ Placing' /\ ~Placing
            BY <2>4 DEF Listen, epollVars, Placing, IInv, TypeOK
        <3> QED BY <3>1 DEF FdAccounted
    <2>5. ASSUME NEW w \in Workers, CloseStep(w, "close", "dec"),
                 UNCHANGED listenVars
          PROVE  FdAccounted'
        <3> DEFINE f == cur[w].fd
        <3>1. f \in Fds /\ fdtab[f] \in Conns
            BY <2>5 DEF CloseStep, IInv, EventsDistinct, FdStable, Holding, InHand, Event
        <3>2. /\ \A g \in Fds : fdtab'[g] = IF g = f THEN None ELSE fdtab[g]
              /\ \A d \in Conns : home'[d] = IF d = fdtab[f] THEN NoWorker ELSE home[d]
            BY <2>5, <3>1, CloseFdEffect DEF CloseStep, IInv
        <3>3. \A g \in Fds : g # f /\ fdtab[g] # None =>
                  fdtab[g] # fdtab[f] /\ fdtab[g] \in Conns
            BY <3>1 DEF IInv, FdsLinked, TypeOK
        <3>4. UNCHANGED <<lfd, lpc>>
            BY <2>5 DEF listenVars
        <3> QED BY <3>1, <3>2, <3>3, <3>4 DEF FdAccounted, Placing
    <2>6. ~AddFails
        BY DEF AddFails, IInv, TypeOK, Workers
    <2>7. CASE SumConns \/ ReadLoad \/ CompareLoad \/ CompareWild \/ AddCrashes
               \/ IncrementActiveConns
        <3>1. UNCHANGED <<fdtab, home, lfd>>
            BY <2>7 DEF SumConns, ReadLoad, CompareLoad, CompareWild, AddCrashes,
                        IncrementActiveConns, kernelVars, epollVars, listenVars
        <3>2. CompareWild => lpc' \in {"cmp", "sum", "decide"}
            BY DEF CompareWild, NextIndex, listenVars
        <3>3. Placing' <=> Placing
            BY <2>7, <3>2 DEF SumConns, ReadLoad, CompareLoad, NextIndex, CompareWild,
                              AddCrashes, IncrementActiveConns, listenVars, Placing
        <3> QED BY <2>1, <3>1, <3>3
    <2>8. ASSUME NEW c \in Conns, Client(c) PROVE FdAccounted'
        <3>1. UNCHANGED <<fdtab, home, lfd, lpc>>
            BY <2>8 DEF Client, Connect, Send, Drain, Fin, Reset, epollVars, listenVars
        <3> QED BY <2>1, <3>1 DEF Placing
    <2>9. ASSUME NEW w \in Workers, TaskThread(w) PROVE FdAccounted'
        <3>1. CASE CloseStep(w, "close", "dec") /\ UNCHANGED listenVars
            BY <2>5, <3>1
        <3>2. CASE ~(CloseStep(w, "close", "dec") /\ UNCHANGED listenVars)
            <4>1. UNCHANGED <<fdtab, home, lfd, lpc>>
                BY <2>9, <3>2
                DEF TaskThread, ServesOn, Interrupted, i_epoll_wait, iRead, iWrite, iError,
                    i_epoll_change_mode, Close, iClose, DelStep, DecStep,
                    kernelVars, epollVars, listenVars
            <4> QED BY <2>1, <4>1 DEF Placing
        <3> QED BY <3>1, <3>2
    <2>10. CASE UNCHANGED vars
        <3>1. UNCHANGED <<fdtab, home, lfd, lpc>>
            BY <2>10 DEF vars, kernelVars, epollVars, listenVars
        <3> QED BY <2>1, <3>1 DEF Placing
    <2> QED BY <2>2, <2>3, <2>4, <2>6, <2>7, <2>8, <2>9, <2>10
            DEF Next, ListenThread, AssignTask
<1> QED BY <1>1, <1>2, Inductive, PTL DEF Spec

\* An open connection has a descriptor.
OpenHasFd == \A c \in Conns : sock[c] = "open" => \E f \in Fds : fdtab[f] = c

\* close(f) takes the descriptor of one connection, which is closed then.
LEMMA CloseFdOpen ==
    ASSUME IInv, OpenHasFd, NEW f \in Fds, fdtab[f] # None, CloseFd(f)
    PROVE  OpenHasFd'
<1>1. PICK c \in Conns : c = fdtab[f]
    BY DEF IInv, TypeOK
<1>2. /\ \A g \in Fds : fdtab'[g] = IF g = f THEN None ELSE fdtab[g]
      /\ \A d \in Conns : sock'[d] = IF d = c THEN "closed" ELSE sock[d]
    BY <1>1, CloseFdEffect DEF IInv
<1> SUFFICES ASSUME NEW d \in Conns, sock'[d] = "open"
             PROVE  \E g \in Fds : fdtab'[g] = d
    BY DEF OpenHasFd
<1>3. d # c /\ sock[d] = "open"
    BY <1>2
<1>4. PICK g \in Fds : fdtab[g] = d
    BY <1>3 DEF OpenHasFd
<1> QED BY <1>1, <1>2, <1>3, <1>4

LEMMA OpenStep ==
    ASSUME IInv, OpenHasFd, [Next]_vars
    PROVE  OpenHasFd'
<1>1. CASE UNCHANGED <<sock, fdtab>>
    BY <1>1 DEF OpenHasFd
<1>2. CASE Refuse
    <2>1. lfd \in Fds /\ fdtab[lfd] # None /\ CloseFd(lfd)
        BY <1>2 DEF Refuse, IInv, ListenerHolds, Placing
    <2> QED BY <2>1, CloseFdOpen
<1>3. ASSUME NEW c \in Conns, NEW f \in Fds, Listen(c, f) PROVE OpenHasFd'
    <2>1. /\ fdtab[f] = None /\ None \notin Conns
          /\ \A g \in Fds : fdtab'[g] = IF g = f THEN c ELSE fdtab[g]
          /\ \A d \in Conns : sock'[d] = IF d = c THEN "open" ELSE sock[d]
        BY <1>3 DEF Listen, IInv, TypeOK
    <2> QED BY <2>1 DEF OpenHasFd
<1>4. ASSUME NEW w \in Workers, CloseStep(w, "close", "dec") PROVE OpenHasFd'
    <2>1. PICK f \in Fds : f = cur[w].fd /\ fdtab[f] \in Conns
        BY <1>4 DEF CloseStep, IInv, EventsDistinct, FdStable, Holding, InHand, Event
    <2> QED BY <1>4, <2>1, CloseFdOpen DEF CloseStep
<1>5. ASSUME NEW c \in Conns, Client(c) PROVE OpenHasFd'
    <2>1. CASE Connect(c)
        BY <1>5, <2>1 DEF Connect, IInv, TypeOK, OpenHasFd
    <2>2. CASE ~Connect(c)
        BY <1>1, <1>5, <2>2 DEF Client, Send, Drain, Fin, Reset
    <2> QED BY <2>1, <2>2
<1>6. ASSUME NEW w \in Workers, TaskThread(w), ~CloseStep(w, "close", "dec")
      PROVE  OpenHasFd'
    BY <1>1, <1>6 DEF TaskThread, ServesOn, Interrupted, i_epoll_wait, iRead, iWrite, iError,
                      i_epoll_change_mode, Close, iClose, DelStep, DecStep, kernelVars
<1>7. CASE AssignTask /\ ~Refuse
    BY <1>1, <1>7 DEF AssignTask, SumConns, ReadLoad, CompareLoad, CompareWild,
                      i_epoll_add, AddFails, AddCrashes, IncrementActiveConns, kernelVars
<1>8. CASE UNCHANGED vars
    BY <1>1, <1>8 DEF vars, kernelVars
<1> QED BY <1>2, <1>3, <1>4, <1>5, <1>6, <1>7, <1>8 DEF Next, ListenThread

\* A failing epoll_ctl, or a pool of one worker, is the only way to have more
\* than maxclients clients connected: without either, every accepted connection
\* is served, refused or still being decided on, so that myepoll.conf:40 holds
\* (ListenThread.cpp:127-162).
THEOREM MaxClientsKept ==
    ASSUME ~AddMayFail, MaxThreads > 1 PROVE Spec => []MaxClientsHonoured
<1>1. Init => OpenHasFd
    BY DEF Init, OpenHasFd
<1>2. IInv /\ OpenHasFd /\ [Next]_vars => OpenHasFd'
    BY OpenStep
<1>3. IInv /\ OpenHasFd /\ FdAccounted => MaxClientsHonoured
    <2> SUFFICES ASSUME IInv, OpenHasFd, FdAccounted PROVE MaxClientsHonoured
        OBVIOUS
    <2> DEFINE S == {c \in Conns : sock[c] = "open" /\ ~(Placing /\ c = fdtab[lfd])}
    <2>1. ASSUME NEW c \in S PROVE c \in Served
        <3>1. PICK f \in Fds : fdtab[f] = c
            BY DEF OpenHasFd
        <3> QED BY <3>1 DEF FdAccounted, Served
    <2>2. S \in SUBSET Served /\ Served \in SUBSET Conns
        BY <2>1 DEF Served
    <2>3. Cardinality(S) <= Cardinality(Served)
        BY <2>2, Fewer
    <2>4. /\ Cardinality(S) \in Nat /\ Cardinality(Served) \in Nat
          /\ Cardinality(Served) <= MaxClients
        BY <2>2, Parts DEF IInv, AdmissionLimit
    <2>5. Cardinality(S) <= MaxClients
        BY <2>3, <2>4
    <2> QED BY <2>5 DEF MaxClientsHonoured
<1>4. Spec => []FdAccounted
    BY FdsAccounted
<1> QED BY <1>1, <1>2, <1>3, <1>4, Inductive, PTL DEF Spec
=============================================================================
