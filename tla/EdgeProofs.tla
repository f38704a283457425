----------------------------- MODULE EdgeProofs -----------------------------
(***************************************************************************)
(* Theorems about the edge-triggered loop of EpollServer, for every number *)
(* of connections, descriptors and workers, every batch and every buffer:  *)
(* no edge is lost, and no worker goes to close a connection whose client  *)
(* is there unless sendn has failed.  They stand on the inductive          *)
(* invariant of EpollServerProofs.                                         *)
(***************************************************************************)
EXTENDS EpollServerProofs

USE ConnsAssumption, ConfigAssumption, BoundsAssumption

\* Only connections that a worker serves are in an epoll set.
InsetServed == \A c \in Conns : inset[c] => home[c] \in Workers

\* A worker that waits has handled its batch.
HandsEmpty == \A w \in Workers : wpc[w] = "wait" => batch[w] = {}

\* What an event was reported for is still so when its handler is called: the
\* rest of the batch is a snapshot, but only the handler itself takes bytes or
\* fills the send buffer.
StillThere ==
    \A w \in Workers : \A e \in batch[w] :
        /\ e.ev # {}
        /\ "IN" \in e.ev => rcv[e.conn] > 0 \/ peer[e.conn] # "up"
        /\ "OUT" \in e.ev => out[e.conn] < SndMax \/ peer[e.conn] # "up"

\* An error was reported of a client that has gone.
ForTheGone ==
    \A w \in Workers : \A e \in InHand(w) : "ERR" \in e.ev => peer[e.conn] # "up"

EInv == InsetServed /\ HandsEmpty /\ StillThere /\ ForTheGone /\ NoLostEdge

-----------------------------------------------------------------------------
(* Facts about the events in hand and about what poll() reports. *)

\* An event in hand is about an open connection of the worker.
LEMMA HandsServed ==
    ASSUME IInv, NEW w \in Workers, NEW e \in InHand(w)
    PROVE  /\ e \in Event /\ e.fd \in Fds /\ e.conn \in Conns
           /\ fdtab[e.fd] = e.conn /\ home[e.conn] = w
<1>1. e \in Event
    BY DEF IInv, TypeOK, EventsDistinct, Holding, InHand
<1> QED BY <1>1 DEF IInv, FdStable, Event

\* No two events in a worker's hands are about one connection.
LEMMA OnePerConn ==
    ASSUME IInv, NEW w \in Workers, NEW d \in InHand(w), NEW e \in InHand(w),
           d.conn = e.conn
    PROVE  d = e
<1>1. d.fd \in Fds /\ e.fd \in Fds /\ fdtab[d.fd] = fdtab[e.fd] /\ fdtab[d.fd] # None
    BY HandsServed
<1>2. d.fd = e.fd
    BY <1>1 DEF IInv, FdsLinked
<1> QED BY <1>2 DEF IInv, EventsDistinct, InHand, Holding

\* More to read, more room and a client further gone are reported wherever less
\* was; and what is reported needs one of the three.
LEMMA PollableLess ==
    ASSUME NEW m, NEW h, NEW p, NEW r \in Int, NEW o \in Int, NEW r1 \in Int, NEW o1 \in Int,
           r1 <= r, o <= o1, Pollable(m, h, r1, o1, p) # {}
    PROVE  Pollable(m, h, r, o, p) # {}
BY DEF Pollable

\* What epoll_wait reports is so.
LEMMA ReportTrue ==
    ASSUME TypeOK, NEW c \in Conns
    PROVE  /\ "IN" \in Events(c) => rcv[c] > 0 \/ peer[c] # "up"
           /\ "OUT" \in Events(c) => out[c] < SndMax \/ peer[c] # "up"
           /\ "ERR" \in Events(c) => peer[c] # "up"
           /\ \A e \in Events(c) : e \in {"IN", "OUT", "ERR"}
BY DEF Events, Pollable, IsReset, TypeOK

\* An edge survives a step that leaves it on the ready list or in hand.
LEMMA EdgeKept ==
    ASSUME NoLostEdge,
           \A d \in Conns :
               inset'[d] /\ Events(d)' # {} =>
                  \/ ready'[d]
                  \/ /\ inset[d] /\ Events(d) # {} /\ home'[d] = home[d]
                     /\ ready[d] => ready'[d]
                     /\ \A e \in InHand(home[d]) : e.conn = d => e \in InHand(home[d])'
    PROVE  NoLostEdge'
<1> SUFFICES ASSUME NEW d \in Conns, inset'[d], Events(d)' # {}, ~ready'[d]
             PROVE  \E e \in InHand(home[d])' : e.conn = d
    BY DEF NoLostEdge
<1>1. /\ inset[d] /\ Events(d) # {} /\ ~ready[d]
      /\ \A e \in InHand(home[d]) : e.conn = d => e \in InHand(home[d])'
    OBVIOUS
<1>2. PICK e \in InHand(home[d]) : e.conn = d
    BY <1>1 DEF NoLostEdge
<1> QED BY <1>1, <1>2

\* Events stay true if no new ones come and their connections lose neither data
\* nor room.
LEMMA TruthKept ==
    ASSUME StillThere, \A w \in Workers : batch'[w] \subseteq batch[w],
           \A w \in Workers : \A e \in batch'[w] :
               /\ rcv'[e.conn] = rcv[e.conn] \/ (rcv[e.conn] > 0 => rcv'[e.conn] > 0)
               /\ out[e.conn] < SndMax => out'[e.conn] < SndMax
               /\ peer[e.conn] # "up" => peer'[e.conn] # "up"
    PROVE  StillThere'
BY DEF StillThere

LEMMA EInvInit == Init => EInv
<1> SUFFICES ASSUME Init PROVE EInv
    OBVIOUS
<1>1. InsetServed /\ NoLostEdge
    BY DEF Init, InsetServed, NoLostEdge
<1>2. HandsEmpty /\ StillThere /\ ForTheGone
    BY DEF Init, HandsEmpty, StillThere, ForTheGone, InHand
<1> QED BY <1>1, <1>2 DEF EInv

-----------------------------------------------------------------------------
(* The clients. *)

\* An edge: whatever a client's step gives poll() to report is on the ready list.
LEMMA ClientEdges ==
    ASSUME IInv, NEW c \in Conns, Client(c)
    PROVE  /\ UNCHANGED <<fdtab, home, inset, mode, rdhup>>
           /\ UNCHANGED <<workerVars, listenVars>>
           /\ \A d \in Conns :
                 /\ rcv[d] > 0 => rcv'[d] > 0
                 /\ out[d] < SndMax => out'[d] < SndMax
                 /\ peer[d] # "up" => peer'[d] # "up"
                 /\ ready[d] => ready'[d]
                 /\ inset[d] /\ Events(d)' # {} => ready'[d] \/ Events(d) # {}
<1> USE DEF IInv, TypeOK, Edge
<1>1. CASE Connect(c)
    BY <1>1 DEF Connect, epollVars, workerVars, listenVars, Events
<1>2. CASE Send(c)
    <2>1. /\ rcv' = [rcv EXCEPT ![c] = rcv[c] + 1]
          /\ ready' = [ready EXCEPT ![c] = ready[c] \/ (inset[c] /\ mode[c] = "READ")]
          /\ UNCHANGED <<sock, peer, out, fdtab, home, inset, mode, rdhup>>
          /\ UNCHANGED <<workerVars, listenVars>>
        BY <1>2 DEF Send
    <2>2. \A d \in Conns : rcv'[d] = IF d = c THEN rcv[c] + 1 ELSE rcv[d]
        BY <2>1
    <2>3. \A d \in Conns :
              ready'[d] = IF d = c THEN ready[c] \/ (inset[c] /\ mode[c] = "READ")
                          ELSE ready[d]
        BY <2>1, Zenon
    <2>4. \A d \in Conns : inset[d] /\ Events(d)' # {} => ready'[d] \/ Events(d) # {}
        BY <2>1, <2>2, <2>3 DEF Events, Pollable, IsReset
    <2> QED BY <2>1, <2>2, <2>3, <2>4
<1>3. CASE Drain(c)
    <2>1. /\ out' = [out EXCEPT ![c] = out[c] - 1]
          /\ ready' = [ready EXCEPT ![c] =
                          ready[c] \/ (inset[c] /\ mode[c] = "WRITE" /\ out[c] = SndMax)]
          /\ UNCHANGED <<sock, peer, rcv, fdtab, home, inset, mode, rdhup>>
          /\ UNCHANGED <<workerVars, listenVars>>
        BY <1>3 DEF Drain
    <2>2. \A d \in Conns : out'[d] = IF d = c THEN out[c] - 1 ELSE out[d]
        BY <2>1
    <2>3. \A d \in Conns :
              ready'[d] = IF d = c
                          THEN ready[c] \/ (inset[c] /\ mode[c] = "WRITE" /\ out[c] = SndMax)
                          ELSE ready[d]
        BY <2>1, Zenon
    <2>4. \A d \in Conns : inset[d] /\ Events(d)' # {} => ready'[d] \/ Events(d) # {}
        BY <2>1, <2>2, <2>3 DEF Events, Pollable, IsReset
    <2> QED BY <2>1, <2>2, <2>3, <2>4
<1>4. CASE Fin(c)
    <2>1. /\ peer' = [peer EXCEPT ![c] = "fin"] /\ peer[c] = "up"
          /\ ready' = [ready EXCEPT ![c] =
                          ready[c] \/ (inset[c] /\ (mode[c] = "READ" \/ rdhup[c]))]
          /\ UNCHANGED <<sock, rcv, out, fdtab, home, inset, mode, rdhup>>
          /\ UNCHANGED <<workerVars, listenVars>>
        BY <1>4 DEF Fin
    <2>2. \A d \in Conns : peer'[d] = IF d = c THEN "fin" ELSE peer[d]
        BY <2>1
    <2>3. \A d \in Conns :
              ready'[d] = IF d = c
                          THEN ready[c] \/ (inset[c] /\ (mode[c] = "READ" \/ rdhup[c]))
                          ELSE ready[d]
        BY <2>1, Zenon
    <2>4. \A d \in Conns : inset[d] /\ Events(d)' # {} => ready'[d] \/ Events(d) # {}
        BY <2>1, <2>2, <2>3 DEF Events, Pollable, IsReset
    <2> QED BY <2>1, <2>2, <2>3, <2>4
<1>5. CASE Reset(c)
    <2>1. /\ peer' = [peer EXCEPT ![c] = IF peer[c] = "fin" THEN "finrst" ELSE "rst"]
          /\ ready' = [ready EXCEPT ![c] = ready[c] \/ inset[c]]
          /\ UNCHANGED <<sock, rcv, out, fdtab, home, inset, mode, rdhup>>
          /\ UNCHANGED <<workerVars, listenVars>>
        BY <1>5, Zenon DEF Reset
    <2>2. peer'[c] # "up" /\ \A d \in Conns \ {c} : peer'[d] = peer[d]
        BY <2>1
    <2>3. \A d \in Conns : ready'[d] = IF d = c THEN ready[c] \/ inset[c] ELSE ready[d]
        BY <2>1, Zenon
    <2>4. \A d \in Conns : inset[d] /\ Events(d)' # {} => ready'[d] \/ Events(d) # {}
        BY <2>1, <2>2, <2>3 DEF Events, Pollable, IsReset
    <2> QED BY <2>1, <2>2, <2>3, <2>4
<1> QED BY <1>1, <1>2, <1>3, <1>4, <1>5 DEF Client

LEMMA ClientEdge ==
    ASSUME IInv, EInv, NEW c \in Conns, Client(c) PROVE EInv'
<1>1. /\ UNCHANGED <<fdtab, home, inset, mode, rdhup>>
      /\ UNCHANGED <<workerVars, listenVars>>
      /\ \A d \in Conns :
            /\ rcv[d] > 0 => rcv'[d] > 0
            /\ out[d] < SndMax => out'[d] < SndMax
            /\ peer[d] # "up" => peer'[d] # "up"
            /\ ready[d] => ready'[d]
            /\ inset[d] /\ Events(d)' # {} => ready'[d] \/ Events(d) # {}
    BY ClientEdges
<1>2. UNCHANGED <<batch, cur, wpc>> /\ \A w : InHand(w)' = InHand(w)
    BY <1>1 DEF workerVars, InHand
<1>3. InsetServed' /\ HandsEmpty'
    BY <1>1, <1>2 DEF EInv, InsetServed, HandsEmpty
<1>4. \A w \in Workers : batch[w] \subseteq InHand(w)
    BY DEF InHand
<1>5. StillThere'
    BY <1>1, <1>2, <1>4, HandsServed, TruthKept DEF EInv
<1>6. ForTheGone'
    BY <1>1, <1>2, HandsServed DEF EInv, ForTheGone
<1>7. NoLostEdge'
    <2>1. \A d \in Conns :
              inset'[d] /\ Events(d)' # {} =>
                 \/ ready'[d]
                 \/ /\ inset[d] /\ Events(d) # {} /\ home'[d] = home[d]
                    /\ ready[d] => ready'[d]
                    /\ \A e \in InHand(home[d]) : e.conn = d => e \in InHand(home[d])'
        BY <1>1, <1>2 DEF InHand
    <2> QED BY <2>1, EdgeKept DEF EInv
<1> QED BY <1>3, <1>5, <1>6, <1>7 DEF EInv

-----------------------------------------------------------------------------
(* The listener. *)

\* close(f) takes one connection out of the sets and leaves the others alone.
LEMMA CloseFdEdges ==
    ASSUME TypeOK, NEW f \in Fds, fdtab[f] \in Conns, CloseFd(f)
    PROVE  /\ \A d \in Conns \ {fdtab[f]} :
                 /\ UNCHANGED <<home[d], inset[d], mode[d], rdhup[d], ready[d]>>
                 /\ UNCHANGED <<rcv[d], out[d], peer[d]>>
                 /\ Events(d)' = Events(d)
           /\ ~inset'[fdtab[f]]
<1> DEFINE c == fdtab[f]
<1>1. /\ home' = [home EXCEPT ![c] = NoWorker]
      /\ rcv' = [rcv EXCEPT ![c] = 0]
      /\ out' = [out EXCEPT ![c] = 0]
      /\ peer' = [peer EXCEPT ![c] = "up"]
      /\ inset' = [inset EXCEPT ![c] = FALSE]
      /\ mode' = [mode EXCEPT ![c] = "WRITE"]
      /\ rdhup' = [rdhup EXCEPT ![c] = FALSE]
      /\ ready' = [ready EXCEPT ![c] = FALSE]
    BY DEF CloseFd
<1> HIDE DEF c
<1>2. \A d \in Conns \ {c} :
          /\ UNCHANGED <<home[d], inset[d], mode[d], rdhup[d], ready[d]>>
          /\ UNCHANGED <<rcv[d], out[d], peer[d]>>
    BY <1>1 DEF TypeOK
<1>3. \A d \in Conns \ {c} : Events(d)' = Events(d)
    BY <1>2 DEF Events
<1>4. c \in Conns => ~inset'[c]
    BY <1>1, Zenon DEF TypeOK
<1> QED BY <1>2, <1>3, <1>4 DEF c

\* Whoever closes, the connections left keep their edges, and their events in
\* hand stay true.
LEMMA CloseFdEdge ==
    ASSUME IInv, EInv, NEW f \in Fds, fdtab[f] \in Conns, CloseFd(f),
           UNCHANGED <<batch, cur>>,
           \A w \in Workers : wpc'[w] = "wait" => wpc[w] = "wait",
           \A w \in Workers :
               /\ \A e \in InHand(w)' : e \in InHand(w) /\ e.conn # fdtab[f]
               /\ \A e \in InHand(w) : e.conn # fdtab[f] => e \in InHand(w)'
    PROVE  EInv'
<1>1. /\ \A d \in Conns \ {fdtab[f]} :
            /\ UNCHANGED <<home[d], inset[d], mode[d], rdhup[d], ready[d]>>
            /\ UNCHANGED <<rcv[d], out[d], peer[d]>>
            /\ Events(d)' = Events(d)
      /\ ~inset'[fdtab[f]]
    BY CloseFdEdges DEF IInv
<1>2. InsetServed' /\ HandsEmpty'
    BY <1>1 DEF EInv, InsetServed, HandsEmpty
<1>3. \A w \in Workers : \A e \in InHand(w)' :
          /\ e \in InHand(w) /\ e.conn \in Conns
          /\ UNCHANGED <<rcv[e.conn], out[e.conn], peer[e.conn]>>
    BY <1>1, HandsServed
<1>4. \A w \in Workers : batch[w] \subseteq InHand(w)'
    BY DEF InHand
<1>5. StillThere'
    BY <1>3, <1>4, TruthKept DEF EInv
<1>6. ForTheGone'
    BY <1>3 DEF EInv, ForTheGone
<1>7. NoLostEdge'
    <2>1. ASSUME NEW d \in Conns, inset'[d], Events(d)' # {}
          PROVE  \/ ready'[d]
                 \/ /\ inset[d] /\ Events(d) # {} /\ home'[d] = home[d]
                    /\ ready[d] => ready'[d]
                    /\ \A e \in InHand(home[d]) : e.conn = d => e \in InHand(home[d])'
        <3>1. d # fdtab[f] /\ inset[d] /\ Events(d) # {} /\ home'[d] = home[d]
              /\ (ready[d] => ready'[d])
            BY <1>1, <2>1
        <3>2. PICK w \in Workers : w = home[d]
            BY <3>1 DEF EInv, InsetServed
        <3>3. InHand(home[d])' = InHand(w)' /\ InHand(home[d]) = InHand(w)
            BY <3>1, <3>2 DEF InHand
        <3>4. \A e \in InHand(w) : e.conn = d => e \in InHand(w)'
            BY <3>1
        <3> QED BY <3>1, <3>3, <3>4
    <2> QED BY <2>1, EdgeKept DEF EInv
<1> QED BY <1>2, <1>5, <1>6, <1>7 DEF EInv

LEMMA RefuseEdge == ASSUME IInv, EInv, Refuse PROVE EInv'
<1>1. lfd \in Fds /\ fdtab[lfd] \in Conns /\ home[fdtab[lfd]] = NoWorker
    BY DEF Refuse, IInv, ListenerHolds, Placing
<1>2. CloseFd(lfd) /\ UNCHANGED workerVars
    BY DEF Refuse
<1>3. \A w \in Workers : InHand(w)' = InHand(w)
    BY <1>2 DEF InHand, workerVars
<1>4. \A w \in Workers : \A e \in InHand(w) : e.conn # fdtab[lfd]
    BY <1>1, HandsServed DEF NoWorker, Workers
<1> QED BY <1>1, <1>2, <1>3, <1>4, CloseFdEdge DEF workerVars

\* The new connection is ready if there is anything to report of it.
LEMMA AddEdge == ASSUME IInv, EInv, i_epoll_add PROVE EInv'
<1>1. PICK c \in Conns : c = fdtab[lfd] /\ home[c] = NoWorker /\ target \in Workers
    BY DEF i_epoll_add, IInv, ListenerHolds, Placing
<1>2. /\ home' = [home EXCEPT ![c] = target]
      /\ inset' = [inset EXCEPT ![c] = TRUE]
      /\ mode' = [mode EXCEPT ![c] = "WRITE"]
      /\ rdhup' = [rdhup EXCEPT ![c] = TRUE]
      /\ ready' = [ready EXCEPT ![c] =
                      Pollable("WRITE", TRUE, rcv[c], out[c], peer[c]) # {}]
      /\ UNCHANGED <<kernelVars, workerVars>>
    BY <1>1 DEF i_epoll_add, InitMode
<1>3. /\ home'[c] = target /\ mode'[c] = "WRITE" /\ rdhup'[c] = TRUE
      /\ ready'[c] = (Pollable("WRITE", TRUE, rcv[c], out[c], peer[c]) # {})
    BY <1>1, <1>2, Zenon DEF IInv, TypeOK
<1>4. \A d \in Conns \ {c} :
          UNCHANGED <<home[d], inset[d], mode[d], rdhup[d], ready[d]>>
    BY <1>2 DEF IInv, TypeOK
<1>5. UNCHANGED <<rcv, out, peer, batch, cur, wpc>> /\ \A w : InHand(w)' = InHand(w)
    BY <1>2 DEF InHand, kernelVars, workerVars
<1>6. InsetServed'
    BY <1>1, <1>3, <1>4 DEF EInv, InsetServed
<1>7. HandsEmpty' /\ StillThere' /\ ForTheGone'
    BY <1>5 DEF EInv, HandsEmpty, StillThere, ForTheGone
<1>8. NoLostEdge'
    <2>1. Events(c)' = Pollable("WRITE", TRUE, rcv[c], out[c], peer[c])
        BY <1>3, <1>5 DEF Events
    <2>2. \A d \in Conns \ {c} : Events(d)' = Events(d)
        BY <1>4, <1>5 DEF Events
    <2>3. \A d \in Conns :
              inset'[d] /\ Events(d)' # {} =>
                 \/ ready'[d]
                 \/ /\ inset[d] /\ Events(d) # {} /\ home'[d] = home[d]
                    /\ ready[d] => ready'[d]
                    /\ \A e \in InHand(home[d]) : e.conn = d => e \in InHand(home[d])'
        <3> SUFFICES ASSUME NEW d \in Conns, inset'[d], Events(d)' # {}, d # c
                     PROVE  /\ inset[d] /\ Events(d) # {} /\ home'[d] = home[d]
                            /\ ready[d] => ready'[d]
                            /\ \A e \in InHand(home[d]) : e.conn = d => e \in InHand(home[d])'
            BY <1>3, <2>1
        <3> QED BY <1>4, <1>5, <2>2 DEF InHand
    <2> QED BY <2>3, EdgeKept DEF EInv
<1> QED BY <1>6, <1>7, <1>8 DEF EInv

\* Nothing the invariant is about changes.
LEMMA NoEdge ==
    ASSUME EInv, UNCHANGED <<epollVars, rcv, out, peer, batch, cur, wpc>>
    PROVE  EInv'
<1>1. \A w : InHand(w)' = InHand(w)
    BY DEF InHand
<1>2. InsetServed' /\ HandsEmpty' /\ StillThere' /\ ForTheGone'
    BY <1>1 DEF EInv, InsetServed, HandsEmpty, StillThere, ForTheGone, epollVars
<1>3. \A d : Events(d)' = Events(d)
    BY DEF Events, epollVars
<1>4. NoLostEdge'
    BY <1>3 DEF EInv, NoLostEdge, InHand, epollVars
<1> QED BY <1>2, <1>4 DEF EInv

LEMMA ListenThreadEdge == ASSUME IInv, EInv, ListenThread PROVE EInv'
<1>1. CASE SumConns \/ ReadLoad \/ CompareLoad \/ CompareWild \/ AddFails
           \/ AddCrashes \/ IncrementActiveConns
    BY <1>1, NoEdge
    DEF SumConns, ReadLoad, CompareLoad, CompareWild, AddFails, AddCrashes,
        IncrementActiveConns, kernelVars, workerVars
<1>2. ASSUME NEW c \in Conns, NEW f \in Fds, Listen(c, f) PROVE EInv'
    BY <1>2, NoEdge DEF Listen, workerVars
<1> QED BY <1>1, <1>2, RefuseEdge, AddEdge DEF ListenThread, AssignTask

-----------------------------------------------------------------------------
(* The workers. *)

\* epoll_wait hands out what is so, and what leaves the ready list is in hand.
LEMMA WaitEdge ==
    ASSUME IInv, EInv, NEW w \in Workers, i_epoll_wait(w) PROVE EInv'
<1>1. PICK F \in SUBSET ReadyFds(w) :
         /\ batch' = [batch EXCEPT ![w] =
               {[fd |-> f, conn |-> fdtab[f], ev |-> Events(fdtab[f])] : f \in F}]
         /\ ready' = [c \in Conns |-> ready[c] /\ \A f \in F : fdtab[f] # c]
    BY DEF i_epoll_wait
<1>2. /\ wpc[w] = "wait" /\ wpc' = [wpc EXCEPT ![w] = "loop"]
      /\ UNCHANGED <<kernelVars, home, inset, mode, rdhup, cur>>
    BY DEF i_epoll_wait
<1>3. /\ batch'[w] = {[fd |-> f, conn |-> fdtab[f], ev |-> Events(fdtab[f])] : f \in F}
      /\ wpc'[w] = "loop"
      /\ \A v \in Workers \ {w} : batch'[v] = batch[v] /\ wpc'[v] = wpc[v] /\ cur'[v] = cur[v]
    BY <1>1, <1>2 DEF IInv, TypeOK
<1>4. /\ InHand(w) = {} /\ InHand(w)' = batch'[w]
      /\ \A v \in Workers \ {w} : InHand(v)' = InHand(v)
    BY <1>2, <1>3 DEF EInv, HandsEmpty, InHand
<1>5. \A e \in batch'[w] :
          \E f \in F : e.conn = fdtab[f] /\ e.ev = Events(fdtab[f])
    BY <1>3
<1>6. \A f \in F : fdtab[f] \in Conns /\ Events(fdtab[f]) # {}
    BY DEF ReadyFds, IInv, TypeOK
<1>7. InsetServed' /\ HandsEmpty'
    BY <1>2, <1>3 DEF EInv, InsetServed, HandsEmpty
<1>8. StillThere'
    <2> SUFFICES ASSUME NEW v \in Workers, NEW e \in batch'[v]
                 PROVE  /\ e.ev # {}
                        /\ "IN" \in e.ev => rcv[e.conn] > 0 \/ peer[e.conn] # "up"
                        /\ "OUT" \in e.ev => out[e.conn] < SndMax \/ peer[e.conn] # "up"
        BY <1>2 DEF StillThere, kernelVars
    <2>1. CASE v = w
        <3>1. PICK f \in F : e.conn = fdtab[f] /\ e.ev = Events(fdtab[f])
            BY <1>5, <2>1
        <3> QED BY <1>6, <3>1, ReportTrue DEF IInv
    <2>2. CASE v # w
        BY <1>3, <2>2 DEF EInv, StillThere
    <2> QED BY <2>1, <2>2
<1>9. ForTheGone'
    <2> SUFFICES ASSUME NEW v \in Workers, NEW e \in InHand(v)', "ERR" \in e.ev
                 PROVE  peer[e.conn] # "up"
        BY <1>2 DEF ForTheGone, kernelVars
    <2>1. CASE v = w
        BY <1>4, <1>5, <1>6, <2>1, ReportTrue DEF IInv
    <2>2. CASE v # w
        BY <1>4, <2>2 DEF EInv, ForTheGone
    <2> QED BY <2>1, <2>2
<1>10. NoLostEdge'
    <2>1. \A d : Events(d)' = Events(d)
        BY <1>2 DEF Events, kernelVars
    <2> SUFFICES ASSUME NEW d \in Conns, inset[d], Events(d) # {}, ~ready'[d]
                 PROVE  \E e \in InHand(home[d])' : e.conn = d
        BY <1>2, <2>1 DEF NoLostEdge
    <2>2. PICK v \in Workers : v = home[d]
        BY DEF EInv, InsetServed
    <2>3. InHand(home[d])' = InHand(v)' /\ InHand(home[d]) = InHand(v)
        BY <1>2, <2>2 DEF InHand
    <2>4. CASE ready[d]
        <3>1. PICK f \in F : fdtab[f] = d
            BY <1>1, <2>4, Zenon
        <3>2. v = w
            BY <2>2, <3>1 DEF ReadyFds
        <3>3. [fd |-> f, conn |-> fdtab[f], ev |-> Events(fdtab[f])] \in batch'[w]
            BY <1>3
        <3> QED BY <1>4, <2>3, <3>1, <3>2, <3>3
    <2>5. CASE ~ready[d]
        <3>1. PICK e \in InHand(v) : e.conn = d
            BY <2>3, <2>5 DEF EInv, NoLostEdge
        <3>2. v # w
            BY <1>4, <3>1
        <3> QED BY <1>4, <2>3, <3>1, <3>2
    <2> QED BY <2>4, <2>5
<1> QED BY <1>7, <1>8, <1>9, <1>10 DEF EInv

\* The end of the loop's body: with a failure the event stays in hand for iClose,
\* without one it is done with.
LEMMA FinishHands ==
    ASSUME IInv, NEW w \in Workers, NEW e, NEW r \in {-1, 0}, Finish(w, e, r),
           \/ wpc[w] = "loop" /\ e \in batch[w]
           \/ wpc[w] \in {"toRead", "toWrite"} /\ e = cur[w]
    PROVE  /\ e \in InHand(w)
           /\ batch'[w] = batch[w] \ {e}
           /\ wpc'[w] = "wait" => batch'[w] = {}
           /\ \A v \in Workers \ {w} :
                 batch'[v] = batch[v] /\ wpc'[v] = wpc[v] /\ cur'[v] = cur[v]
           /\ "ERR" \in e.ev \/ r = -1 =>
                 wpc'[w] = "del" /\ cur'[w] = e /\ InHand(w)' = InHand(w)
           /\ "ERR" \notin e.ev /\ r = 0 =>
                 wpc'[w] \in {"wait", "loop"} /\ InHand(w)' = InHand(w) \ {e}
<1>1. e \in InHand(w)
    BY DEF InHand
<1>2. wpc[w] \in {"toRead", "toWrite"} => e \notin batch[w]
    BY DEF IInv, EventsDistinct, Holding
<1>3. CASE "ERR" \in e.ev \/ r = -1
    <2>1. /\ wpc' = [wpc EXCEPT ![w] = "del"] /\ cur' = [cur EXCEPT ![w] = e]
          /\ batch' = [batch EXCEPT ![w] = batch[w] \ {e}]
        BY <1>3 DEF Finish, Returned
    <2>2. /\ wpc'[w] = "del" /\ cur'[w] = e /\ batch'[w] = batch[w] \ {e}
          /\ \A v \in Workers \ {w} :
                batch'[v] = batch[v] /\ wpc'[v] = wpc[v] /\ cur'[v] = cur[v]
        BY <2>1 DEF IInv, TypeOK
    <2> QED BY <1>1, <1>2, <1>3, <2>2 DEF InHand
<1>4. CASE "ERR" \notin e.ev /\ r = 0
    <2>1. /\ wpc' = [wpc EXCEPT ![w] = IF batch[w] \ {e} = {} THEN "wait" ELSE "loop"]
          /\ cur' = [cur EXCEPT ![w] = None]
          /\ batch' = [batch EXCEPT ![w] = batch[w] \ {e}]
        BY <1>4 DEF Finish, Returned, Resume
    <2>2. /\ wpc'[w] = IF batch[w] \ {e} = {} THEN "wait" ELSE "loop"
          /\ batch'[w] = batch[w] \ {e}
          /\ \A v \in Workers \ {w} :
                batch'[v] = batch[v] /\ wpc'[v] = wpc[v] /\ cur'[v] = cur[v]
        BY <2>1 DEF IInv, TypeOK
    <2>3. InHand(w)' = batch[w] \ {e} /\ InHand(w) \ {e} = batch[w] \ {e}
        BY <1>2, <2>2 DEF InHand
    <2> QED BY <1>1, <1>4, <2>2, <2>3
<1> QED BY <1>3, <1>4

\* A handler that goes on with its event keeps it.
LEMMA BusyHands ==
    ASSUME IInv, NEW w \in Workers, NEW e \in batch[w],
           NEW pc \in {"spin", "toRead", "toWrite"}, wpc[w] = "loop", Busy(w, e, pc)
    PROVE  /\ wpc'[w] = pc /\ batch'[w] = batch[w] \ {e} /\ InHand(w)' = InHand(w)
           /\ \A v \in Workers \ {w} :
                 batch'[v] = batch[v] /\ wpc'[v] = wpc[v] /\ cur'[v] = cur[v]
<1>1. /\ wpc'[w] = pc /\ cur'[w] = e /\ batch'[w] = batch[w] \ {e}
      /\ \A v \in Workers \ {w} :
            batch'[v] = batch[v] /\ wpc'[v] = wpc[v] /\ cur'[v] = cur[v]
    BY DEF Busy, IInv, TypeOK
<1> QED BY <1>1 DEF InHand

\* A handler deals with the event e of a connection c: it keeps e in hand, or
\* gives it up with what there is to report of c on the ready list.
Handled(w, e, c) ==
    /\ UNCHANGED <<home, inset, peer>>
    /\ \A d \in Conns \ {c} :
          UNCHANGED <<mode[d], rdhup[d], ready[d], rcv[d], out[d]>>
    /\ \A v \in Workers \ {w} :
          batch'[v] = batch[v] /\ wpc'[v] = wpc[v] /\ cur'[v] = cur[v]
    /\ batch'[w] = batch[w] \ {e}
    /\ wpc'[w] = "wait" => batch'[w] = {}
    /\ \/ InHand(w)' = InHand(w)
       \/ InHand(w)' = InHand(w) \ {e} /\ (Events(c)' # {} => ready'[c])

\* That touches nothing the other events in hand are about.
LEMMA HandlerEdge ==
    ASSUME IInv, EInv, NEW w \in Workers, NEW e \in InHand(w), NEW c \in Conns,
           c = e.conn, Handled(w, e, c)
    PROVE  EInv'
<1> USE DEF Handled
<1>1. \A v \in Workers \ {w} : InHand(v)' = InHand(v)
    BY DEF InHand
<1>2. InsetServed' /\ HandsEmpty'
    BY DEF EInv, InsetServed, HandsEmpty
<1>3. \A v \in Workers : \A d \in InHand(v) : d # e => d.conn \in Conns \ {c}
    <2> SUFFICES ASSUME NEW v \in Workers, NEW d \in InHand(v), d # e
                 PROVE  d.conn \in Conns \ {c}
        OBVIOUS
    <2>1. d.conn \in Conns /\ home[d.conn] = v /\ home[c] = w
        BY HandsServed
    <2>2. CASE v = w
        BY <2>1, <2>2, OnePerConn
    <2>3. CASE v # w
        BY <2>1, <2>3
    <2> QED BY <2>2, <2>3
<1>4. \A v \in Workers : \A d \in batch'[v] : d \in batch[v] /\ d.conn \in Conns \ {c}
    <2> SUFFICES ASSUME NEW v \in Workers, NEW d \in batch'[v]
                 PROVE  d \in batch[v] /\ d.conn \in Conns \ {c}
        OBVIOUS
    <2>1. d \in batch[v] /\ d \in InHand(v)
        BY DEF InHand
    <2>2. d # e
        <3>1. CASE v = w
            BY <3>1
        <3>2. CASE v # w
            BY <2>1, <3>2, HandsServed
        <3> QED BY <3>1, <3>2
    <2> QED BY <1>3, <2>1, <2>2
<1>5. StillThere'
    BY <1>4, TruthKept DEF EInv
<1>6. ForTheGone'
    BY <1>1 DEF EInv, ForTheGone
<1>7. NoLostEdge'
    <2> SUFFICES ASSUME NEW d \in Conns, inset[d], Events(d)' # {}, ~ready'[d]
                 PROVE  \E g \in InHand(home[d])' : g.conn = d
        BY DEF NoLostEdge
    <2>1. PICK v \in Workers : v = home[d]
        BY DEF EInv, InsetServed
    <2>2. InHand(home[d])' = InHand(v)' /\ InHand(home[d]) = InHand(v)
        BY <2>1 DEF InHand
    <2>3. CASE d = c
        BY <2>1, <2>2, <2>3, HandsServed
    <2>4. CASE d # c
        <3>1. Events(d)' = Events(d) /\ ~ready[d]
            BY <2>4 DEF Events
        <3>2. PICK g \in InHand(v) : g.conn = d
            BY <2>2, <3>1 DEF EInv, NoLostEdge
        <3>3. g \in InHand(v)'
            BY <1>1, <2>4, <3>2
        <3> QED BY <2>2, <3>2, <3>3
    <2> QED BY <2>3, <2>4
<1> QED BY <1>2, <1>5, <1>6, <1>7 DEF EInv

\* A handler that does its I/O on c and goes to iClose, or goes on with its event.
LEMMA IOEdge ==
    ASSUME IInv, EInv, NEW w \in Workers, NEW e \in batch[w], wpc[w] = "loop",
           UNCHANGED <<home, inset, mode, rdhup, ready, peer>>,
           \A d \in Conns \ {e.conn} : UNCHANGED <<rcv[d], out[d]>>,
           \/ Finish(w, e, -1)
           \/ \E pc \in {"spin", "toRead", "toWrite"} : Busy(w, e, pc)
    PROVE  EInv'
<1>1. e \in InHand(w)
    BY DEF InHand
<1>2. PICK c \in Conns : c = e.conn
    BY <1>1, HandsServed
<1>3. /\ batch'[w] = batch[w] \ {e} /\ wpc'[w] # "wait" /\ InHand(w)' = InHand(w)
      /\ \A v \in Workers \ {w} :
            batch'[v] = batch[v] /\ wpc'[v] = wpc[v] /\ cur'[v] = cur[v]
    <2>1. CASE Finish(w, e, -1)
        BY <1>1, <2>1, FinishHands
    <2>2. ASSUME NEW pc \in {"spin", "toRead", "toWrite"}, Busy(w, e, pc)
          PROVE  /\ batch'[w] = batch[w] \ {e} /\ wpc'[w] # "wait"
                 /\ InHand(w)' = InHand(w)
                 /\ \A v \in Workers \ {w} :
                       batch'[v] = batch[v] /\ wpc'[v] = wpc[v] /\ cur'[v] = cur[v]
        BY <2>2, BusyHands
    <2> QED BY <2>1, <2>2
<1>4. Handled(w, e, c)
    BY <1>2, <1>3 DEF Handled
<1> QED BY <1>1, <1>2, <1>4, HandlerEdge

LEMMA ReadEdge ==
    ASSUME IInv, EInv, NEW w \in Workers, NEW e \in batch[w], iRead(w, e)
    PROVE  EInv'
<1>1. e \in InHand(w) /\ wpc[w] = "loop"
    BY DEF iRead, InHand
<1>2. PICK c \in Conns : c = e.conn /\ c = fdtab[e.fd]
    BY <1>1, HandsServed
<1>3. /\ rcv' = [rcv EXCEPT ![c] = rcv[c] - recvn(c)]
      /\ UNCHANGED <<home, inset, mode, rdhup, ready, out, peer>>
      /\ \/ Finish(w, e, -1)
         \/ \E pc \in {"spin", "toRead", "toWrite"} : Busy(w, e, pc)
    BY <1>2 DEF iRead, epollVars, ToChangeMode
<1>4. \A d \in Conns \ {c} : rcv'[d] = rcv[d] /\ out'[d] = out[d]
    BY <1>3 DEF IInv, TypeOK
<1> QED BY <1>1, <1>2, <1>3, <1>4, IOEdge

LEMMA WriteEdge ==
    ASSUME IInv, EInv, NEW w \in Workers, NEW e \in batch[w], iWrite(w, e)
    PROVE  EInv'
<1>1. e \in InHand(w) /\ wpc[w] = "loop"
    BY DEF iWrite, InHand
<1>2. PICK c \in Conns : c = e.conn /\ c = fdtab[e.fd]
    BY <1>1, HandsServed
<1>3. /\ \E o : out' = [out EXCEPT ![c] = o]
      /\ UNCHANGED <<home, inset, mode, rdhup, ready, rcv, peer>>
      /\ \/ Finish(w, e, -1)
         \/ \E pc \in {"spin", "toRead", "toWrite"} : Busy(w, e, pc)
    BY <1>2 DEF iWrite, epollVars, ToChangeMode
<1>4. \A d \in Conns \ {c} : rcv'[d] = rcv[d] /\ out'[d] = out[d]
    BY <1>3 DEF IInv, TypeOK
<1> QED BY <1>1, <1>2, <1>3, <1>4, IOEdge

\* iError alone: something was reported, so it was an error, whatever nRet the
\* event before has left.
LEMMA ErrorReported ==
    ASSUME IInv, EInv, NEW w \in Workers, NEW e \in batch[w],
           e.ev \cap {"IN", "OUT"} = {}
    PROVE  "ERR" \in e.ev
<1>1. e.ev # {}
    BY DEF EInv, StillThere
<1>2. e.ev \in SUBSET {"IN", "OUT", "ERR"}
    BY HandsServed DEF Event, InHand
<1> QED BY <1>1, <1>2

LEMMA ErrorEdge ==
    ASSUME IInv, EInv, NEW w \in Workers, NEW e \in batch[w], iError(w, e)
    PROVE  EInv'
<1>1. /\ e \in InHand(w) /\ wpc[w] = "loop" /\ e.ev \cap {"IN", "OUT"} = {}
      /\ Finish(w, e, nRet[w])
      /\ UNCHANGED <<home, inset, mode, rdhup, ready, rcv, out, peer>>
    BY DEF iError, InHand, kernelVars, epollVars
<1>2. Finish(w, e, -1)
    BY <1>1, ErrorReported DEF Finish, Returned
<1> QED BY <1>1, <1>2, IOEdge

\* EPOLL_CTL_MOD polls anew, so that the event can be given up.
LEMMA ChangeModeEdge ==
    ASSUME IInv, EInv, NEW w \in Workers, i_epoll_change_mode(w) PROVE EInv'
<1>1. PICK e : e = cur[w]
    OBVIOUS
<1>2. /\ e \in InHand(w) /\ wpc[w] \in {"toRead", "toWrite"} /\ Finish(w, e, 0)
      /\ UNCHANGED <<home, inset, rcv, out, peer>>
    BY <1>1 DEF i_epoll_change_mode, InHand, kernelVars
<1>3. PICK c \in Conns : c = e.conn /\ c = fdtab[e.fd]
    BY <1>2, HandsServed
<1>4. PICK m \in {"READ", "WRITE"} :
          /\ mode' = [mode EXCEPT ![c] = m]
          /\ rdhup' = [rdhup EXCEPT ![c] = FALSE]
          /\ ready' = [ready EXCEPT ![c] =
                  ready[c] \/ Pollable(m, FALSE, rcv[c], out[c], peer[c]) # {}]
    BY <1>1, <1>3 DEF i_epoll_change_mode
<1>5. \A d \in Conns \ {c} : UNCHANGED <<mode[d], rdhup[d], ready[d], rcv[d], out[d]>>
    BY <1>2, <1>4 DEF IInv, TypeOK
<1>6. Events(c)' # {} => ready'[c]
    <2>1. mode'[c] = m /\ rdhup'[c] = FALSE
        BY <1>4 DEF IInv, TypeOK
    <2>2. Events(c)' = Pollable(m, FALSE, rcv[c], out[c], peer[c])
        BY <1>2, <2>1 DEF Events
    <2>3. ready'[c] = (ready[c] \/ Pollable(m, FALSE, rcv[c], out[c], peer[c]) # {})
        BY <1>4, Zenon DEF IInv, TypeOK
    <2> QED BY <2>2, <2>3
<1>7. /\ batch'[w] = batch[w] \ {e} /\ (wpc'[w] = "wait" => batch'[w] = {})
      /\ \A v \in Workers \ {w} :
            batch'[v] = batch[v] /\ wpc'[v] = wpc[v] /\ cur'[v] = cur[v]
      /\ "ERR" \in e.ev => wpc'[w] = "del" /\ cur'[w] = e /\ InHand(w)' = InHand(w)
      /\ "ERR" \notin e.ev =>
            wpc'[w] \in {"wait", "loop"} /\ InHand(w)' = InHand(w) \ {e}
    BY <1>1, <1>2, FinishHands
<1>8. Handled(w, e, c)
    BY <1>2, <1>5, <1>6, <1>7 DEF Handled
<1> QED BY <1>2, <1>3, <1>8, HandlerEdge

\* iClose, step by step: the connection leaves the set, then its event the hands.
LEMMA DelEdge ==
    ASSUME IInv, EInv, NEW w \in Workers, DelStep(w, "del", "close") PROVE EInv'
<1>1. PICK e : e = cur[w]
    OBVIOUS
<1>2. e \in InHand(w) /\ wpc[w] = "del"
    BY <1>1 DEF DelStep, InHand
<1>3. PICK c \in Conns : c = e.conn /\ c = fdtab[e.fd] /\ home[c] = w
    BY <1>2, HandsServed
<1>4. /\ inset' = [inset EXCEPT ![c] = inset[c] /\ home[c] # w]
      /\ ready' = [ready EXCEPT ![c] = ready[c] /\ home[c] # w]
      /\ wpc' = [wpc EXCEPT ![w] = "close"]
      /\ UNCHANGED <<home, mode, rdhup, rcv, out, peer, batch, cur>>
    BY <1>1, <1>3 DEF DelStep, EpollDel, kernelVars
<1>5. wpc'[w] = "close" /\ \A v \in Workers \ {w} : wpc'[v] = wpc[v]
    BY <1>4 DEF IInv, TypeOK
<1>6. \A v \in Workers : InHand(v)' = InHand(v)
    BY <1>2, <1>4, <1>5 DEF InHand
<1>7. \A d \in Conns \ {c} : inset'[d] = inset[d] /\ ready'[d] = ready[d]
    BY <1>4 DEF IInv, TypeOK
<1>8. ~inset'[c]
    BY <1>3, <1>4, Zenon DEF IInv, TypeOK
<1>9. InsetServed' /\ HandsEmpty'
    BY <1>4, <1>5, <1>7, <1>8 DEF EInv, InsetServed, HandsEmpty
<1>10. StillThere' /\ ForTheGone'
    BY <1>2, <1>4, <1>5, <1>6 DEF EInv, StillThere, ForTheGone
<1>11. NoLostEdge'
    <2>1. \A d : Events(d)' = Events(d)
        BY <1>4 DEF Events
    <2> SUFFICES ASSUME NEW d \in Conns, inset'[d], Events(d) # {}, ~ready'[d]
                 PROVE  \E g \in InHand(home[d])' : g.conn = d
        BY <2>1 DEF NoLostEdge
    <2>2. inset[d] /\ ~ready[d]
        BY <1>7, <1>8
    <2>3. PICK v \in Workers : v = home[d]
        BY <2>2 DEF EInv, InsetServed
    <2>4. InHand(home[d])' = InHand(v)' /\ InHand(home[d]) = InHand(v)
        BY <1>4, <2>3 DEF InHand
    <2> QED BY <1>6, <2>2, <2>4 DEF EInv, NoLostEdge
<1> QED BY <1>9, <1>10, <1>11 DEF EInv

LEMMA CloseEdge ==
    ASSUME IInv, EInv, NEW w \in Workers, CloseStep(w, "close", "dec") PROVE EInv'
<1>1. PICK e : e = cur[w]
    OBVIOUS
<1>2. e \in InHand(w) /\ wpc[w] = "close"
    BY <1>1 DEF CloseStep, InHand
<1>3. e.fd \in Fds /\ fdtab[e.fd] \in Conns /\ fdtab[e.fd] = e.conn /\ home[e.conn] = w
    BY <1>2, HandsServed
<1>4. CloseFd(e.fd) /\ UNCHANGED <<batch, cur>> /\ wpc' = [wpc EXCEPT ![w] = "dec"]
    BY <1>1 DEF CloseStep
<1>5. wpc'[w] = "dec" /\ \A v \in Workers \ {w} : wpc'[v] = wpc[v]
    BY <1>4 DEF IInv, TypeOK
<1>6. /\ InHand(w)' = batch[w] /\ InHand(w) = batch[w] \cup {e} /\ e \notin batch[w]
      /\ \A v \in Workers \ {w} : InHand(v)' = InHand(v)
    BY <1>1, <1>2, <1>4, <1>5 DEF InHand, IInv, EventsDistinct, Holding
<1>7. \A v \in Workers : \A d \in InHand(v) : d # e => d.conn # e.conn
    <2> SUFFICES ASSUME NEW v \in Workers, NEW d \in InHand(v), d.conn = e.conn
                 PROVE  d = e
        OBVIOUS
    <2>1. v = w
        BY <1>3, HandsServed
    <2> QED BY <1>2, <2>1, OnePerConn
<1>8. \A v \in Workers :
          /\ \A d \in InHand(v)' : d \in InHand(v) /\ d.conn # fdtab[e.fd]
          /\ \A d \in InHand(v) : d.conn # fdtab[e.fd] => d \in InHand(v)'
    <2> SUFFICES ASSUME NEW v \in Workers
                 PROVE  /\ \A d \in InHand(v)' : d \in InHand(v) /\ d.conn # e.conn
                        /\ \A d \in InHand(v) : d.conn # e.conn => d \in InHand(v)'
        BY <1>3
    <2>1. v # w => e \notin InHand(v)
        BY <1>3, HandsServed
    <2> QED BY <1>6, <1>7, <2>1
<1>9. \A v \in Workers : wpc'[v] = "wait" => wpc[v] = "wait"
    BY <1>5
<1> QED BY <1>3, <1>4, <1>8, <1>9, CloseFdEdge

LEMMA DecEdge == ASSUME IInv, EInv, NEW w \in Workers, DecStep(w) PROVE EInv'
<1>1. /\ wpc[w] = "dec"
      /\ wpc' = [wpc EXCEPT ![w] = IF batch[w] = {} THEN "wait" ELSE "loop"]
      /\ batch' = [batch EXCEPT ![w] = batch[w]] /\ cur' = [cur EXCEPT ![w] = None]
      /\ UNCHANGED <<home, inset, mode, rdhup, ready, rcv, out, peer>>
    BY DEF DecStep, Resume, kernelVars, epollVars
<1>2. /\ wpc'[w] = IF batch[w] = {} THEN "wait" ELSE "loop"
      /\ batch' = batch
      /\ \A v \in Workers \ {w} : wpc'[v] = wpc[v] /\ cur'[v] = cur[v]
    BY <1>1 DEF IInv, TypeOK
<1>3. \A v \in Workers : InHand(v)' = InHand(v)
    BY <1>1, <1>2 DEF InHand
<1>4. InsetServed' /\ HandsEmpty'
    BY <1>1, <1>2 DEF EInv, InsetServed, HandsEmpty
<1>5. StillThere' /\ ForTheGone'
    BY <1>1, <1>2, <1>3 DEF EInv, StillThere, ForTheGone
<1>6. NoLostEdge'
    <2>1. \A d : Events(d)' = Events(d)
        BY <1>1 DEF Events
    <2>2. \A d \in Conns : inset[d] => InHand(home[d])' = InHand(home[d])
        <3> SUFFICES ASSUME NEW d \in Conns, inset[d]
                     PROVE  InHand(home[d])' = InHand(home[d])
            OBVIOUS
        <3>1. PICK v \in Workers : v = home[d]
            BY DEF EInv, InsetServed
        <3>2. InHand(home[d])' = InHand(v)' /\ InHand(home[d]) = InHand(v)
            BY <1>1, <3>1 DEF InHand
        <3> QED BY <1>3, <3>2
    <2> QED BY <1>1, <2>1, <2>2 DEF EInv, NoLostEdge
<1> QED BY <1>4, <1>5, <1>6 DEF EInv

LEMMA TaskThreadEdge ==
    ASSUME IInv, EInv, NEW w \in Workers, TaskThread(w) PROVE EInv'
<1>1. CASE Interrupted(w)
    BY <1>1, NoEdge DEF Interrupted, kernelVars
<1> QED BY <1>1, WaitEdge, ReadEdge, WriteEdge, ErrorEdge, ChangeModeEdge, DelEdge, CloseEdge,
           DecEdge DEF TaskThread, ServesOn, Close, iClose

-----------------------------------------------------------------------------
(* The theorems. *)

LEMMA EInvStep == ASSUME IInv, EInv, [Next]_vars PROVE EInv'
<1>1. CASE UNCHANGED vars
    BY <1>1, NoEdge DEF vars, kernelVars, workerVars
<1>2. CASE Next
    BY <1>2, ClientEdge, ListenThreadEdge, TaskThreadEdge DEF Next
<1> QED BY <1>1, <1>2

\* The events in the workers' hands stay true, and no edge is lost, throughout.
THEOREM EdgeInductive == Spec => []EInv
<1>1. IInv /\ EInv /\ [Next]_vars => EInv'
    BY EInvStep
<1> QED BY <1>1, EInvInit, Inductive, PTL DEF Spec

\* A connection with something to report is on its set's ready list or in its
\* worker's hands, although reads and writes take one buffer at a time and the
\* mode changes after every one (iEpoll.cpp:60-88, TaskThread.cpp:41-79).
THEOREM NoEdgeLost == Spec => []NoLostEdge
<1>1. EInv => NoLostEdge
    BY DEF EInv
<1> QED BY <1>1, EdgeInductive, PTL

\* A worker's step leaves the others where they are, with what they have in hand.
LEMMA OthersStay ==
    ASSUME IInv, NEW w \in Workers, TaskThread(w)
    PROVE  \A v \in Workers \ {w} : wpc'[v] = wpc[v] /\ cur'[v] = cur[v]
<1>1. ASSUME NEW e, NEW r, Finish(w, e, r)
      PROVE  /\ \E p : wpc' = [wpc EXCEPT ![w] = p]
             /\ \E d : cur' = [cur EXCEPT ![w] = d]
    BY <1>1 DEF Finish, Resume
<1>2. ASSUME NEW e, NEW pc, Busy(w, e, pc)
      PROVE  /\ \E p : wpc' = [wpc EXCEPT ![w] = p]
             /\ \E d : cur' = [cur EXCEPT ![w] = d]
    BY <1>2 DEF Busy
<1>3. \/ UNCHANGED wpc
      \/ \E p : wpc' = [wpc EXCEPT ![w] = p]
    BY <1>1, <1>2 DEF TaskThread, ServesOn, Interrupted, i_epoll_wait, iRead, iWrite, iError,
           ToChangeMode, Resume, i_epoll_change_mode, Close, iClose, DelStep, CloseStep, DecStep
<1>4. cur' = cur \/ \E d : cur' = [cur EXCEPT ![w] = d]
    BY <1>1, <1>2 DEF TaskThread, ServesOn, Interrupted, i_epoll_wait, iRead, iWrite, iError,
           ToChangeMode, Resume, i_epoll_change_mode, Close, iClose, DelStep, CloseStep, DecStep
<1> QED BY <1>3, <1>4 DEF IInv, TypeOK

\* A handler goes to iClose with its event only.
LEMMA GoesToClose ==
    ASSUME IInv, NEW w \in Workers, NEW e, NEW r \in {-1, 0}, Finish(w, e, r),
           wpc'[w] = "del"
    PROVE  cur'[w] = e /\ ("ERR" \in e.ev \/ r = -1)
<1>1. CASE Returned(w, e, r) < 0
    <2>1. cur'[w] = e
        BY <1>1 DEF Finish, IInv, TypeOK
    <2>2. "ERR" \in e.ev \/ r = -1
        BY <1>1 DEF Returned
    <2> QED BY <2>1, <2>2
<1>2. CASE ~(Returned(w, e, r) < 0)
    BY <1>2 DEF Finish, Resume, IInv, TypeOK
<1> QED BY <1>1, <1>2

\* A worker that goes to iClose with a client that is there has had a sendn fail, and
\* nothing else: no read, event or nRet of another event (iEpoll.cpp:52-88).
LEMMA ApartFromSend ==
    ASSUME IInv, EInv, NEW w \in Workers, TaskThread(w),
           wpc[w] # "del", wpc'[w] = "del", ~(\E e \in batch[w] : iWrite(w, e))
    PROVE  peer[cur'[w].conn] # "up"
<1>1. ASSUME NEW e \in batch[w], iRead(w, e) PROVE peer[cur'[w].conn] # "up"
    <2>1. e \in InHand(w) /\ "IN" \in e.ev
        BY <1>1 DEF iRead, InHand
    <2>2. PICK c \in Conns : c = e.conn /\ c = fdtab[e.fd]
        BY <2>1, HandsServed
    <2>3. CASE Finish(w, e, -1) /\ Failed(recvn(c))
        <3>1. ~(rcv[c] > 0)
            BY <2>3 DEF Failed, recvn, IInv, TypeOK
        <3>2. peer[c] # "up"
            BY <2>1, <2>2, <3>1 DEF EInv, StillThere
        <3> QED BY <2>2, <2>3, <3>2, GoesToClose
    <2>4. CASE \E pc \in {"spin", "toWrite"} : Busy(w, e, pc)
        BY <2>4 DEF Busy, IInv, TypeOK
    <2> QED BY <1>1, <2>2, <2>3, <2>4 DEF iRead, ToChangeMode
<1>2. ASSUME NEW e \in batch[w], iError(w, e) PROVE peer[cur'[w].conn] # "up"
    <2>1. "ERR" \in e.ev /\ e \in InHand(w)
        BY <1>2, ErrorReported DEF iError, InHand
    <2>2. Finish(w, e, nRet[w]) /\ nRet[w] \in {-1, 0}
        BY <1>2 DEF iError, IInv, TypeOK
    <2> QED BY <2>1, <2>2, GoesToClose DEF EInv, ForTheGone
<1>3. CASE i_epoll_change_mode(w)
    <2>1. Finish(w, cur[w], 0) /\ cur[w] \in InHand(w)
        BY <1>3 DEF i_epoll_change_mode, InHand
    <2>2. cur'[w] = cur[w] /\ "ERR" \in cur[w].ev
        BY <2>1, GoesToClose
    <2> QED BY <2>1, <2>2 DEF EInv, ForTheGone
<1>4. CASE i_epoll_wait(w) \/ Interrupted(w) \/ Close(w)
    BY <1>4 DEF i_epoll_wait, Interrupted, Close, iClose, DelStep, CloseStep, DecStep,
                Resume, IInv, TypeOK
<1> QED BY <1>1, <1>2, <1>3, <1>4 DEF TaskThread, ServesOn

\* A worker hangs up on a client that is there only when sendn has failed, although
\* batches are snapshots and nRet outlives the event it was set for
\* (iEpoll.cpp:52-88, iSocket.cpp:194-217).
THEOREM ClosesNoneSpuriously == Spec => NoSpuriousClose
<1> DEFINE Apt == \A w \in Workers :
                      wpc[w] # "del" /\ wpc'[w] = "del" =>
                          peer[cur'[w].conn] # "up" \/ \E e \in batch[w] : iWrite(w, e)
<1>1. IInv /\ EInv /\ [Next]_vars => [Apt]_vars
    <2> SUFFICES ASSUME IInv, EInv, Next PROVE Apt
        BY DEF vars
    <2>1. CASE UNCHANGED wpc
        BY <2>1
    <2>2. ASSUME NEW w \in Workers, TaskThread(w) PROVE Apt
        <3>1. \A v \in Workers \ {w} : wpc'[v] = wpc[v]
            BY <2>2, OthersStay
        <3> QED BY <2>2, <3>1, ApartFromSend
    <2>3. ASSUME NEW c \in Conns, Client(c) PROVE Apt
        BY <2>1, <2>3 DEF Client, Connect, Send, Drain, Fin, Reset, workerVars
    <2>4. CASE ListenThread
        BY <2>1, <2>4
        DEF ListenThread, AssignTask, SumConns, ReadLoad, CompareLoad, CompareWild, Refuse,
            i_epoll_add, AddFails, AddCrashes, IncrementActiveConns, Listen, workerVars
    <2> QED BY <2>2, <2>3, <2>4 DEF Next
<1> QED BY <1>1, Inductive, EdgeInductive, PTL DEF Spec, NoSpuriousClose

-----------------------------------------------------------------------------
(* What a worker may wait for. *)

\* A connection that a worker has and its set has not is the one it is closing.
OutsideClosing ==
    \A c \in Conns : home[c] # NoWorker /\ ~inset[c] =>
        wpc[home[c]] = "close" /\ cur[home[c]].conn = c

LEMMA OutsideUntouched ==
    ASSUME OutsideClosing, UNCHANGED <<home, inset>>,
           \A v \in Workers : wpc[v] = "close" => wpc'[v] = "close" /\ cur'[v] = cur[v],
           TypeOK
    PROVE  OutsideClosing'
BY DEF OutsideClosing, TypeOK

LEMMA OutsideTaskThread ==
    ASSUME IInv, OutsideClosing, NEW w \in Workers, TaskThread(w)
    PROVE  OutsideClosing'
<1>1. w # NoWorker
    BY DEF Workers, NoWorker
<1>2. CASE DelStep(w, "del", "close")
    <2>1. PICK c \in Conns : c = fdtab[cur[w].fd] /\ cur[w].conn = c /\ home[c] = w
        BY <1>2, HandsServed DEF DelStep, InHand
    <2>2. \A d \in Conns : inset'[d] = IF d = c THEN FALSE ELSE inset[d]
        BY <1>2, <2>1 DEF DelStep, EpollDel, IInv, TypeOK
    <2>3. /\ UNCHANGED <<home, cur>> /\ wpc[w] = "del"
          /\ \A v \in Workers : wpc'[v] = IF v = w THEN "close" ELSE wpc[v]
        BY <1>2 DEF DelStep, IInv, TypeOK
    <2>4. \A d \in Conns : home[d] # NoWorker => home[d] \in Workers
        BY DEF IInv, TypeOK
    <2> SUFFICES ASSUME NEW d \in Conns, home'[d] # NoWorker, ~inset'[d]
                 PROVE  wpc'[home'[d]] = "close" /\ cur'[home'[d]].conn = d
        BY DEF OutsideClosing
    <2>5. CASE d = c
        BY <2>1, <2>3, <2>5
    <2>6. CASE d # c
        <3>1. wpc[home[d]] = "close" /\ cur[home[d]].conn = d /\ home[d] \in Workers
            BY <2>2, <2>3, <2>4, <2>6 DEF OutsideClosing
        <3> QED BY <2>3, <3>1
    <2> QED BY <2>5, <2>6
<1>3. CASE CloseStep(w, "close", "dec")
    <2>1. PICK f \in Fds : f = cur[w].fd
        BY <1>3, HandsServed DEF CloseStep, InHand
    <2>2. PICK c \in Conns : c = fdtab[f] /\ cur[w].conn = c /\ home[c] = w
        BY <1>3, <2>1, HandsServed DEF CloseStep, InHand
    <2>3. \A d \in Conns : home'[d] = IF d = c THEN NoWorker ELSE home[d]
        BY <1>3, <2>1, <2>2, CloseFdEffect DEF CloseStep, IInv
    <2>6. \A d \in Conns : d # c => inset'[d] = inset[d]
        <3>1. inset' = [inset EXCEPT ![c] = FALSE]
            BY <1>3, <2>1, <2>2 DEF CloseStep, CloseFd
        <3> QED BY <3>1 DEF IInv, TypeOK
    <2>4. /\ UNCHANGED cur
          /\ \A v \in Workers \ {w} : wpc'[v] = wpc[v]
        BY <1>3 DEF CloseStep, IInv, TypeOK
    <2>5. \A d \in Conns : home[d] # NoWorker => home[d] \in Workers
        BY DEF IInv, TypeOK
    <2> SUFFICES ASSUME NEW d \in Conns, home'[d] # NoWorker, ~inset'[d]
                 PROVE  wpc'[home'[d]] = "close" /\ cur'[home'[d]].conn = d
        BY DEF OutsideClosing
    <2>7. d # c /\ home'[d] = home[d]
        BY <2>3
    <2>8. wpc[home[d]] = "close" /\ cur[home[d]].conn = d /\ home[d] \in Workers
        BY <2>5, <2>6, <2>7 DEF OutsideClosing
    <2>9. home[d] # w
        BY <2>2, <2>7, <2>8
    <2> QED BY <2>4, <2>7, <2>8, <2>9
<1>4. CASE ~DelStep(w, "del", "close") /\ ~CloseStep(w, "close", "dec")
    <2>1. UNCHANGED <<home, inset>>
        BY <1>4 DEF TaskThread, ServesOn, Interrupted, i_epoll_wait, iRead, iWrite, iError,
                    i_epoll_change_mode, Close, iClose, DecStep, epollVars
    <2>3. wpc[w] # "close"
        BY <1>4 DEF TaskThread, ServesOn, Interrupted, i_epoll_wait, iRead, iWrite, iError,
                    i_epoll_change_mode, Close, iClose, DecStep
    <2>2. \A v \in Workers \ {w} : wpc'[v] = wpc[v] /\ cur'[v] = cur[v]
        BY OthersStay
    <2> QED BY <2>1, <2>2, <2>3, OutsideUntouched DEF IInv
<1> QED BY <1>2, <1>3, <1>4

LEMMA OutsideStep ==
    ASSUME IInv, OutsideClosing, [Next]_vars
    PROVE  OutsideClosing'
<1>1. CASE UNCHANGED <<home, inset, wpc, cur>>
    BY <1>1, OutsideUntouched DEF IInv
<1>2. ASSUME NEW c \in Conns, Client(c) PROVE OutsideClosing'
    BY <1>1, <1>2 DEF Client, Connect, Send, Drain, Fin, Reset, epollVars, workerVars
<1>3. CASE Refuse
    <2>1. PICK c \in Conns : c = fdtab[lfd] /\ home[c] = NoWorker /\ lfd \in Fds
        BY <1>3 DEF Refuse, IInv, ListenerHolds, Placing
    <2>2. /\ \A d \in Conns \ {c} : inset'[d] = inset[d] /\ home'[d] = home[d]
          /\ home'[c] = NoWorker /\ UNCHANGED <<wpc, cur>>
        BY <1>3, <2>1 DEF Refuse, CloseFd, workerVars, IInv, TypeOK
    <2> QED BY <2>2 DEF OutsideClosing
<1>4. CASE i_epoll_add
    <2>1. PICK c \in Conns : c = fdtab[lfd]
        BY <1>4 DEF i_epoll_add, IInv, ListenerHolds, Placing
    <2>2. /\ \A d \in Conns \ {c} : inset'[d] = inset[d] /\ home'[d] = home[d]
          /\ inset'[c] /\ UNCHANGED <<wpc, cur>>
        BY <1>4, <2>1 DEF i_epoll_add, workerVars, IInv, TypeOK
    <2> QED BY <2>2 DEF OutsideClosing
<1>5. CASE ListenThread /\ ~Refuse /\ ~i_epoll_add
    BY <1>1, <1>5 DEF ListenThread, Listen, AssignTask, SumConns, ReadLoad, CompareLoad,
        CompareWild, AddFails, AddCrashes, IncrementActiveConns, epollVars, workerVars
<1>6. CASE UNCHANGED vars
    BY <1>1, <1>6 DEF vars, epollVars, workerVars
<1> QED BY <1>2, <1>3, <1>4, <1>5, <1>6, OutsideTaskThread DEF Next

\* Nothing a client does is overlooked: a worker keeps it waiting only while the
\* client leaves the replies unread (iEpoll.cpp:60-88, 144-185).
THEOREM OnlyRoomIsAwaited == Spec => []WaitsOnlyForRoom
<1>1. Init => OutsideClosing
    BY DEF Init, OutsideClosing
<1>2. IInv /\ OutsideClosing /\ [Next]_vars => OutsideClosing'
    BY OutsideStep
<1>3. IInv /\ EInv /\ OutsideClosing => WaitsOnlyForRoom
    <2> SUFFICES ASSUME IInv, EInv, OutsideClosing, NEW c \in Conns, home[c] # NoWorker,
                        rcv[c] > 0 \/ peer[c] # "up",
                        ~(ready[c] /\ Events(c) # {}),
                        ~(\E e \in InHand(home[c]) : e.conn = c)
                 PROVE  /\ mode[c] = "WRITE" /\ out[c] = SndMax
                        /\ ~IsReset(peer[c]) /\ ~(rdhup[c] /\ peer[c] = "fin")
        BY DEF WaitsOnlyForRoom
    <2>1. inset[c]
        BY DEF OutsideClosing, InHand
    <2>2. Events(c) = {}
        BY <2>1 DEF EInv, NoLostEdge
    <2>3. /\ mode[c] \in {"READ", "WRITE"} /\ out[c] \in 0 .. SndMax /\ SndMax \in Nat
          /\ peer[c] \in {"up", "fin", "rst", "finrst"} /\ rdhup[c] \in BOOLEAN
        BY DEF IInv, TypeOK
    <2>4. /\ ~(mode[c] = "READ" /\ (rcv[c] > 0 \/ peer[c] # "up"))
          /\ ~(mode[c] = "WRITE" /\ (out[c] < SndMax \/ IsReset(peer[c])))
          /\ ~(IsReset(peer[c]) \/ (rdhup[c] /\ peer[c] = "fin"))
        BY <2>2 DEF Events, Pollable, IsReset
    <2> QED BY <2>3, <2>4
<1> QED BY <1>1, <1>2, <1>3, Inductive, EdgeInductive, PTL DEF Spec

-----------------------------------------------------------------------------
(* What comes with an error. *)

\* EPOLLRDHUP is waited for only until the first mode change, and until then the
\* send buffer is empty: iWrite, which fills it, goes on to change the mode or to iClose.
AfterWrite == {"toRead", "del", "close"}

Unsent ==
    /\ \A c \in Conns : home[c] = NoWorker => out[c] = 0
    /\ \A c \in Conns : rdhup[c] =>
          /\ home[c] # NoWorker
          /\ out[c] = 0 \/ (wpc[home[c]] \in AfterWrite /\ cur[home[c]].conn = c)

UInv == Unsent /\ ErrorNeverAlone

LEMMA UnsentUntouched ==
    ASSUME TypeOK, Unsent, UNCHANGED <<out, home, rdhup>>,
           \A v \in Workers : wpc[v] \in AfterWrite =>
               wpc'[v] \in AfterWrite /\ cur'[v] = cur[v]
    PROVE  Unsent'
BY DEF Unsent, TypeOK

\* A closed connection has nothing unread and waits for nothing.
LEMMA UnsentClose ==
    ASSUME IInv, Unsent, NEW f \in Fds, fdtab[f] # None, CloseFd(f),
           \A v \in Workers : wpc[v] \in AfterWrite /\ cur[v].conn # fdtab[f] =>
               wpc'[v] \in AfterWrite /\ cur'[v] = cur[v]
    PROVE  Unsent'
<1>1. PICK c \in Conns : c = fdtab[f]
    BY DEF IInv, TypeOK
<1>2. /\ out' = [out EXCEPT ![c] = 0]
      /\ rdhup' = [rdhup EXCEPT ![c] = FALSE]
      /\ home' = [home EXCEPT ![c] = NoWorker]
    BY <1>1 DEF CloseFd
<1>3. /\ out'[c] = 0 /\ ~rdhup'[c]
      /\ \A d \in Conns \ {c} :
            out'[d] = out[d] /\ rdhup'[d] = rdhup[d] /\ home'[d] = home[d]
    BY <1>2 DEF IInv, TypeOK
<1> SUFFICES ASSUME NEW d \in Conns \ {c}
             PROVE  /\ home[d] = NoWorker => out[d] = 0
                    /\ rdhup[d] => /\ home[d] # NoWorker
                                   /\ \/ out[d] = 0
                                      \/ /\ wpc'[home[d]] \in AfterWrite
                                         /\ cur'[home[d]].conn = d
    BY <1>3 DEF Unsent
<1>4. /\ home[d] = NoWorker => out[d] = 0
      /\ rdhup[d] => /\ home[d] # NoWorker
                     /\ out[d] = 0 \/ (wpc[home[d]] \in AfterWrite /\ cur[home[d]].conn = d)
    BY DEF Unsent
<1>5. home[d] # NoWorker => home[d] \in Workers
    BY DEF IInv, TypeOK
<1> QED BY <1>1, <1>4, <1>5

\* iWrite fills the buffer of its connection and goes on to change its mode or to
\* iClose.
LEMMA UnsentWrite ==
    ASSUME IInv, Unsent, NEW w \in Workers, NEW e \in batch[w], iWrite(w, e),
           \A v \in Workers \ {w} : wpc'[v] = wpc[v] /\ cur'[v] = cur[v]
    PROVE  Unsent'
<1>1. PICK c \in Conns : c = fdtab[e.fd] /\ e.conn = c /\ home[c] = w
    BY HandsServed DEF InHand
<1>2. UNCHANGED <<home, rdhup>> /\ wpc[w] = "loop" /\ w # NoWorker
    BY DEF iWrite, epollVars, Workers, NoWorker
<1>3. Finish(w, e, -1) \/ Busy(w, e, "toRead")
    BY DEF iWrite, ToChangeMode
<1>4. wpc'[w] \in AfterWrite /\ cur'[w] = e
    <2>1. CASE Finish(w, e, -1)
        <3>1. Returned(w, e, -1) = -1
            BY DEF Returned
        <3> QED BY <2>1, <3>1 DEF Finish, AfterWrite, IInv, TypeOK
    <2>2. CASE Busy(w, e, "toRead")
        BY <2>2 DEF Busy, AfterWrite, IInv, TypeOK
    <2> QED BY <1>3, <2>1, <2>2
<1>5. \A d \in Conns \ {c} : out'[d] = out[d]
    <2>1. \E o : out' = [out EXCEPT ![c] = o]
        BY <1>1 DEF iWrite
    <2> QED BY <2>1 DEF IInv, TypeOK
<1>6. wpc[w] \notin AfterWrite
    BY <1>2 DEF AfterWrite
<1> SUFFICES ASSUME NEW d \in Conns
             PROVE  /\ home[d] = NoWorker => out'[d] = 0
                    /\ rdhup[d] => /\ home[d] # NoWorker
                                   /\ \/ out'[d] = 0
                                      \/ /\ wpc'[home[d]] \in AfterWrite
                                         /\ cur'[home[d]].conn = d
    BY <1>2 DEF Unsent
<1>7. /\ home[d] = NoWorker => out[d] = 0
      /\ rdhup[d] => /\ home[d] # NoWorker
                     /\ out[d] = 0 \/ (wpc[home[d]] \in AfterWrite /\ cur[home[d]].conn = d)
    BY DEF Unsent
<1>8. home[d] # NoWorker => home[d] \in Workers
    BY DEF IInv, TypeOK
<1>9. CASE d = c
    BY <1>1, <1>2, <1>4, <1>9
<1>10. CASE d # c
    BY <1>5, <1>6, <1>7, <1>8, <1>10
<1> QED BY <1>9, <1>10

LEMMA UnsentTaskThread ==
    ASSUME IInv, Unsent, NEW w \in Workers, TaskThread(w)
    PROVE  Unsent'
<1>1. \A v \in Workers \ {w} : wpc'[v] = wpc[v] /\ cur'[v] = cur[v]
    BY OthersStay
<1>2. ASSUME NEW e \in batch[w], iWrite(w, e) PROVE Unsent'
    BY <1>1, <1>2, UnsentWrite
<1>3. CASE i_epoll_change_mode(w)
    <2>1. PICK c \in Conns : c = fdtab[cur[w].fd] /\ cur[w].conn = c /\ home[c] = w
        BY <1>3, HandsServed DEF i_epoll_change_mode, InHand
    <2>2. rdhup' = [rdhup EXCEPT ![c] = FALSE] /\ UNCHANGED <<out, home>>
        BY <1>3, <2>1 DEF i_epoll_change_mode, kernelVars
    <2>3. ~rdhup'[c] /\ \A d \in Conns \ {c} : rdhup'[d] = rdhup[d]
        BY <2>2 DEF IInv, TypeOK
    <2> QED BY <1>1, <2>1, <2>2, <2>3 DEF Unsent, IInv, TypeOK
<1>4. CASE CloseStep(w, "close", "dec")
    <2>1. PICK f \in Fds : f = cur[w].fd /\ fdtab[f] # None /\ cur[w].conn = fdtab[f]
        BY <1>4, HandsServed DEF CloseStep, InHand
    <2> QED BY <1>1, <1>4, <2>1, UnsentClose DEF CloseStep
<1>5. CASE /\ ~i_epoll_change_mode(w) /\ ~CloseStep(w, "close", "dec")
           /\ ~(\E e \in batch[w] : iWrite(w, e))
    <2>1. UNCHANGED <<out, home, rdhup>>
        BY <1>5 DEF TaskThread, ServesOn, Interrupted, i_epoll_wait, iRead, iError, Close,
                    iClose, DelStep, DecStep, kernelVars, epollVars
    <2>2. wpc[w] \notin AfterWrite \/ DelStep(w, "del", "close")
        BY <1>5 DEF TaskThread, ServesOn, Interrupted, i_epoll_wait, iRead, iError, Close,
                    iClose, DecStep, AfterWrite
    <2>3. DelStep(w, "del", "close") => wpc'[w] \in AfterWrite /\ cur' = cur
        BY DEF DelStep, AfterWrite, IInv, TypeOK
    <2> QED BY <1>1, <2>1, <2>2, <2>3, UnsentUntouched DEF IInv
<1> QED BY <1>2, <1>3, <1>4, <1>5

LEMMA UnsentStep ==
    ASSUME IInv, Unsent, [Next]_vars
    PROVE  Unsent'
<1>1. CASE UNCHANGED <<out, home, rdhup, wpc, cur>>
    BY <1>1, UnsentUntouched DEF IInv
<1>2. ASSUME NEW c \in Conns, Client(c) PROVE Unsent'
    <2>1. CASE Drain(c)
        <3>1. /\ out[c] > 0 /\ \A d \in Conns \ {c} : out'[d] = out[d]
              /\ UNCHANGED <<home, rdhup, wpc, cur>>
            BY <2>1 DEF Drain, workerVars, IInv, TypeOK
        <3> QED BY <3>1 DEF Unsent, IInv, TypeOK
    <2>2. CASE ~Drain(c)
        BY <1>1, <1>2, <2>2 DEF Client, Connect, Send, Fin, Reset, epollVars, workerVars
    <2> QED BY <2>1, <2>2
<1>3. CASE Refuse
    <2>1. lfd \in Fds /\ fdtab[lfd] # None /\ CloseFd(lfd) /\ UNCHANGED <<wpc, cur>>
        BY <1>3 DEF Refuse, IInv, ListenerHolds, Placing, workerVars
    <2> QED BY <2>1, UnsentClose
<1>4. CASE i_epoll_add
    <2>1. PICK c \in Conns : c = fdtab[lfd] /\ home[c] = NoWorker
        BY <1>4 DEF i_epoll_add, IInv, ListenerHolds, Placing
    <2>2. /\ home' = [home EXCEPT ![c] = target]
          /\ rdhup' = [rdhup EXCEPT ![c] = TRUE]
          /\ target \in Workers /\ UNCHANGED <<out, wpc, cur>>
        BY <1>4, <2>1 DEF i_epoll_add, kernelVars, workerVars
    <2>3. /\ home'[c] # NoWorker
          /\ \A d \in Conns \ {c} : home'[d] = home[d] /\ rdhup'[d] = rdhup[d]
        BY <2>2 DEF IInv, TypeOK, Workers, NoWorker
    <2> QED BY <2>1, <2>2, <2>3 DEF Unsent
<1>5. CASE ListenThread /\ ~Refuse /\ ~i_epoll_add
    BY <1>1, <1>5 DEF ListenThread, Listen, AssignTask, SumConns, ReadLoad, CompareLoad,
        CompareWild, AddFails, AddCrashes, IncrementActiveConns, kernelVars, epollVars,
        workerVars
<1>6. CASE UNCHANGED vars
    BY <1>1, <1>6 DEF vars, kernelVars, epollVars, workerVars
<1> QED BY <1>2, <1>3, <1>4, <1>5, <1>6, UnsentTaskThread DEF Next

\* A step that fetches no events leaves none that were not there.
LEMMA AloneKept ==
    ASSUME ErrorNeverAlone, \A v \in Workers : batch'[v] \subseteq batch[v]
    PROVE  ErrorNeverAlone'
BY DEF ErrorNeverAlone

\* epoll_wait reports an error with what the worker is waiting for.
LEMMA AloneWait ==
    ASSUME IInv, Unsent, ErrorNeverAlone, NEW w \in Workers, i_epoll_wait(w)
    PROVE  ErrorNeverAlone'
<1>1. PICK F \in SUBSET ReadyFds(w) :
          batch' = [batch EXCEPT ![w] =
              {[fd |-> f, conn |-> fdtab[f], ev |-> Events(fdtab[f])] : f \in F}]
    BY DEF i_epoll_wait
<1>2. ASSUME NEW f \in F PROVE Events(fdtab[f]) \cap {"IN", "OUT"} # {}
    <2>1. PICK c \in Conns : c = fdtab[f] /\ home[c] = w /\ Events(c) # {}
        BY <1>2 DEF ReadyFds, IInv, TypeOK
    <2>2. rdhup[c] => out[c] = 0
        BY <2>1 DEF Unsent, i_epoll_wait, AfterWrite
    <2>3. /\ mode[c] \in {"READ", "WRITE"} /\ out[c] \in 0 .. SndMax
          /\ peer[c] \in {"up", "fin", "rst", "finrst"} /\ SndMax \in Nat \ {0}
        BY DEF IInv, TypeOK
    <2>4. CASE peer[c] = "up"
        BY <2>1, <2>4 DEF Events, Pollable, IsReset
    <2>5. CASE peer[c] # "up" /\ mode[c] = "READ"
        BY <2>1, <2>5 DEF Events, Pollable, IsReset
    <2>6. CASE IsReset(peer[c]) /\ mode[c] = "WRITE"
        BY <2>1, <2>6 DEF Events, Pollable, IsReset
    <2>7. CASE peer[c] = "fin" /\ mode[c] = "WRITE"
        <3>1. out[c] < SndMax
            <4>1. CASE rdhup[c]
                BY <2>2, <2>3, <4>1
            <4>2. CASE ~rdhup[c]
                BY <2>1, <2>3, <2>7, <4>2 DEF Events, Pollable, IsReset
            <4> QED BY <4>1, <4>2
        <3> QED BY <2>1, <2>7, <3>1 DEF Events, Pollable, IsReset
    <2> QED BY <2>3, <2>4, <2>5, <2>6, <2>7 DEF IsReset
<1>3. \A v \in Workers : batch'[v] =
          IF v = w THEN {[fd |-> f, conn |-> fdtab[f], ev |-> Events(fdtab[f])] : f \in F}
          ELSE batch[v]
    BY <1>1 DEF IInv, TypeOK
<1> SUFFICES ASSUME NEW v \in Workers, NEW e \in batch'[v]
             PROVE  e.ev \cap {"IN", "OUT"} # {}
    BY DEF ErrorNeverAlone
<1>4. CASE v = w
    <2>1. PICK f \in F : e = [fd |-> f, conn |-> fdtab[f], ev |-> Events(fdtab[f])]
        BY <1>3, <1>4
    <2>2. e.ev = Events(fdtab[f])
        BY <2>1
    <2> QED BY <1>2, <2>2
<1>5. CASE v # w
    BY <1>3, <1>5 DEF ErrorNeverAlone
<1> QED BY <1>4, <1>5

LEMMA AloneStep ==
    ASSUME IInv, UInv, [Next]_vars
    PROVE  ErrorNeverAlone'
<1>1. ASSUME NEW w \in Workers, TaskThread(w) PROVE ErrorNeverAlone'
    <2>1. CASE i_epoll_wait(w)
        BY <2>1, AloneWait DEF UInv
    <2>2. CASE ~i_epoll_wait(w)
        <3>1. ASSUME NEW e, NEW r, Finish(w, e, r)
              PROVE  \E B : batch' = [batch EXCEPT ![w] = B] /\ B \subseteq batch[w]
            BY <3>1 DEF Finish, Resume
        <3>2. ASSUME NEW e, NEW p, Busy(w, e, p)
              PROVE  \E B : batch' = [batch EXCEPT ![w] = B] /\ B \subseteq batch[w]
            BY <3>2 DEF Busy
        <3>3. CASE \E e \in batch[w] : iRead(w, e) \/ iWrite(w, e) \/ iError(w, e)
            BY <3>1, <3>2, <3>3, AloneKept
            DEF iRead, iWrite, iError, ToChangeMode, UInv, IInv, TypeOK
        <3>4. CASE i_epoll_change_mode(w)
            BY <3>1, <3>4, AloneKept DEF i_epoll_change_mode, UInv, IInv, TypeOK
        <3>5. CASE Close(w)
            <4>1. \E B : batch' = [batch EXCEPT ![w] = B] /\ B \subseteq batch[w]
                BY <3>5 DEF Close, iClose, DelStep, CloseStep, DecStep, Resume, IInv, TypeOK
            <4> QED BY <4>1, AloneKept DEF UInv, IInv, TypeOK
        <3>6. CASE Interrupted(w)
            BY <3>6, AloneKept DEF Interrupted, UInv
        <3> QED BY <1>1, <2>2, <3>3, <3>4, <3>5, <3>6 DEF TaskThread, ServesOn
    <2> QED BY <2>1, <2>2
<1>2. CASE UNCHANGED batch
    BY <1>2, AloneKept DEF UInv
<1>3. ASSUME NEW c \in Conns, Client(c) PROVE ErrorNeverAlone'
    BY <1>2, <1>3 DEF Client, Connect, Send, Drain, Fin, Reset, workerVars
<1>4. CASE ListenThread
    BY <1>2, <1>4 DEF ListenThread, Listen, AssignTask, SumConns, ReadLoad, CompareLoad,
        CompareWild, Refuse, i_epoll_add, AddFails, AddCrashes, IncrementActiveConns,
        workerVars
<1>5. CASE UNCHANGED vars
    BY <1>2, <1>5 DEF vars, workerVars
<1> QED BY <1>1, <1>3, <1>4, <1>5 DEF Next

\* The nRet of an event is never the one an earlier event has left behind: i_epoll_wait
\* calls iError only after iRead or iWrite (iEpoll.cpp:52-88).
THEOREM ErrorsNeverAlone == Spec => []ErrorNeverAlone
<1>1. Init => UInv
    BY DEF Init, UInv, Unsent, ErrorNeverAlone
<1>2. IInv /\ UInv /\ [Next]_vars => UInv'
    BY UnsentStep, AloneStep DEF UInv
<1>3. UInv => ErrorNeverAlone
    BY DEF UInv
<1> QED BY <1>1, <1>2, <1>3, Inductive, PTL DEF Spec
=============================================================================
