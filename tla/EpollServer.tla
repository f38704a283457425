---------------------------- MODULE EpollServer ----------------------------
(***************************************************************************)
(* The running server of epoll_threads: one ListenThread that accepts      *)
(* connections and hands each to one of a pool of TaskThreads, and the     *)
(* TaskThreads, each serving its connections from an edge-triggered epoll  *)
(* set of its own.  The two kinds of thread share the m_ActiveConns        *)
(* counters and the process's file descriptors, and no lock.               *)
(*                                                                         *)
(* A step is one system call or one access to a shared counter, with the   *)
(* thread-local work around it.  Data is counted in units: a unit is what  *)
(* one client request or one server reply occupies in a socket buffer.     *)
(* The kernel (descriptor table, TCP endpoints, epoll) and the clients are *)
(* not part of the repository; they are modelled from how the code uses    *)
(* them.  Shutdown is the subject of another module: here the flag         *)
(* g_Server.shutdown is FALSE throughout.                                  *)
(***************************************************************************)
EXTENDS Integers, FiniteSets

CONSTANTS
    Conns,       \* connections; one may be opened again after it was closed
    Fds,         \* descriptors left for accepted sockets (RLIMIT_NOFILE)
    None,        \* "no connection" in the descriptor table, "no event"
    MaxThreads,  \* g_Server.maxthreads
    MaxClients,  \* g_Server.maxclients
    MaxEvents,   \* m_maxevents, the size of a worker's m_events
    BufSz,       \* units one recvn of MIN_BUFSZ bytes can take
    RcvMax,      \* bound: units a socket's receive buffer holds
    SndMax,      \* bound: units a socket's send buffer holds
    PeerExits,   \* how clients may leave: a subset of {"fin", "rst"}
    AddMayFail,  \* whether epoll_ctl(EPOLL_CTL_ADD) can fail (ENOMEM, ENOSPC)
    Stops        \* whether the process may be stopped and continued

ASSUME ConnsAssumption == IsFiniteSet(Conns) /\ None \notin Conns \cup Fds
ASSUME ConfigAssumption ==      \* what loadServerConfig accepts
    MaxThreads \in Nat \ {0} /\ MaxClients \in Nat \ {0}
ASSUME BoundsAssumption ==
    /\ MaxEvents \in Nat \ {0} /\ BufSz \in Nat \ {0}
    /\ RcvMax \in Nat \ {0} /\ SndMax \in Nat \ {0}
    /\ PeerExits \subseteq {"fin", "rst"} /\ AddMayFail \in BOOLEAN

Workers == 0 .. MaxThreads - 1        \* the indices of m_taskthread
NoWorker == -1

VARIABLES
    \* The kernel's TCP endpoints and the clients behind them
    sock,        \* [Conns -> {"none", "backlog", "open", "closed"}]
    peer,        \* the client's side: "up", half-closed "fin", or reset: "rst",
                 \* and "finrst" after a half-close
    rcv,         \* units received and not yet read by the server
    out,         \* units sent by the server and not yet read by the client
    fdtab,       \* the process's descriptor table: the connection of each fd
    \* The kernel's epoll sets
    home,        \* the worker whose set the connection was added to
    inset,       \* whether it is still in that set
    mode,        \* its interest: "READ" (EPOLLIN) or "WRITE" (EPOLLOUT)
    rdhup,       \* whether EPOLLRDHUP is in its interest
    ready,       \* whether it is on the set's ready list
    \* Each TaskThread
    counter,     \* m_ActiveConns.counter
    wpc,         \* where the worker is in i_epoll_wait
    batch,       \* the part of m_events it has not handled yet
    cur,         \* the event it is handling
    nRet,        \* the nRet of i_epoll_wait, which outlives the iteration
    errno,       \* the thread's errno: "EINTR", or anything else
    \* The ListenThread
    lpc,         \* where it is in Run/AssignTask
    lfd,         \* sockfd
    li,          \* AssignTask's loop index
    lval,        \* the left operand of the loop's comparison, once read
    target,      \* AssignTask's target
    activeConns, \* AssignTask's activeConns
    up           \* FALSE once the process has crashed

kernelVars   == <<sock, peer, rcv, out, fdtab>>
epollVars    == <<home, inset, mode, rdhup, ready>>
workerVars   == <<counter, wpc, batch, cur, nRet, errno>>
listenVars   == <<lpc, lfd, li, lval, target, activeConns>>
vars == <<kernelVars, epollVars, workerVars, listenVars, up>>

Event == [fd : Fds, conn : Conns, ev : SUBSET {"IN", "OUT", "ERR"}]

Init ==
    /\ sock = [c \in Conns |-> "none"]
    /\ peer = [c \in Conns |-> "up"]
    /\ rcv = [c \in Conns |-> 0]
    /\ out = [c \in Conns |-> 0]
    /\ fdtab = [f \in Fds |-> None]
    /\ home = [c \in Conns |-> NoWorker]
    /\ inset = [c \in Conns |-> FALSE]
    /\ mode = [c \in Conns |-> "WRITE"]
    /\ rdhup = [c \in Conns |-> FALSE]
    /\ ready = [c \in Conns |-> FALSE]
    /\ counter = [w \in Workers |-> 0]
    /\ wpc = [w \in Workers |-> "wait"]
    /\ batch = [w \in Workers |-> {}]
    /\ cur = [w \in Workers |-> None]
    /\ nRet = [w \in Workers |-> -1]
    /\ errno = [w \in Workers |-> "other"]
    /\ lpc = "accept"
    /\ lfd = None
    /\ li = 0
    /\ lval = 0
    /\ target = 1
    /\ activeConns = 1
    /\ up = TRUE

-----------------------------------------------------------------------------
(* The kernel: polling, edges, descriptors. *)

IsReset(p) == p \in {"rst", "finrst"}

\* What poll() reports of a socket, within the interest it is registered with.
\* EPOLLHUP, EPOLLERR and EPOLLRDHUP are all "ERR": the code treats them alike.
\* Room for a unit in the send buffer is what EPOLLOUT reports.
Pollable(m, h, r, o, p) ==
    (IF m = "READ" /\ (r > 0 \/ p # "up") THEN {"IN"} ELSE {})
    \cup (IF m = "WRITE" /\ (o < SndMax \/ IsReset(p)) THEN {"OUT"} ELSE {})
    \cup (IF IsReset(p) \/ (h /\ p = "fin") THEN {"ERR"} ELSE {})

Events(c) == Pollable(mode[c], rdhup[c], rcv[c], out[c], peer[c])

\* Something c waits for, if cond holds, has just happened: an edge.
Edge(c, cond) == ready' = [ready EXCEPT ![c] = @ \/ (inset[c] /\ cond)]

\* EPOLL_CTL_DEL on the set of w: without effect on a connection of another set.
EpollDel(w, c) ==
    /\ inset' = [inset EXCEPT ![c] = @ /\ home[c] # w]
    /\ ready' = [ready EXCEPT ![c] = @ /\ home[c] # w]

\* close(f): the last descriptor of the connection goes, so the connection is
\* reset (SO_LINGER {1, 0}), its buffers go, and every epoll set forgets it.
CloseFd(f) ==
    LET c == fdtab[f]
    IN  /\ fdtab' = [fdtab EXCEPT ![f] = None]
        /\ sock' = [sock EXCEPT ![c] = "closed"]
        /\ rcv' = [rcv EXCEPT ![c] = 0]
        /\ out' = [out EXCEPT ![c] = 0]
        /\ peer' = [peer EXCEPT ![c] = "up"]
        /\ home' = [home EXCEPT ![c] = NoWorker]
        /\ inset' = [inset EXCEPT ![c] = FALSE]
        /\ mode' = [mode EXCEPT ![c] = "WRITE"]
        /\ rdhup' = [rdhup EXCEPT ![c] = FALSE]
        /\ ready' = [ready EXCEPT ![c] = FALSE]

-----------------------------------------------------------------------------
(* The clients: anyone may connect, send, read what was sent, and leave. *)

Connect(c) ==
    /\ sock[c] \in {"none", "closed"}
    /\ sock' = [sock EXCEPT ![c] = "backlog"]
    /\ UNCHANGED <<peer, rcv, out, fdtab, epollVars, workerVars, listenVars, up>>

Alive(c) == sock[c] \in {"backlog", "open"} /\ ~IsReset(peer[c])

Send(c) ==
    /\ Alive(c) /\ peer[c] = "up" /\ rcv[c] < RcvMax
    /\ rcv' = [rcv EXCEPT ![c] = @ + 1]
    /\ Edge(c, mode[c] = "READ")
    /\ UNCHANGED <<sock, peer, out, fdtab, home, inset, mode, rdhup,
                   workerVars, listenVars, up>>

Drain(c) ==
    /\ Alive(c) /\ out[c] > 0
    /\ out' = [out EXCEPT ![c] = @ - 1]
    /\ Edge(c, mode[c] = "WRITE" /\ out[c] = SndMax)
    /\ UNCHANGED <<sock, peer, rcv, fdtab, home, inset, mode, rdhup,
                   workerVars, listenVars, up>>

Fin(c) ==
    /\ "fin" \in PeerExits /\ Alive(c) /\ peer[c] = "up"
    /\ peer' = [peer EXCEPT ![c] = "fin"]
    /\ Edge(c, mode[c] = "READ" \/ rdhup[c])
    /\ UNCHANGED <<sock, rcv, out, fdtab, home, inset, mode, rdhup,
                   workerVars, listenVars, up>>

Reset(c) ==
    /\ "rst" \in PeerExits /\ Alive(c)
    /\ peer' = [peer EXCEPT ![c] = IF @ = "fin" THEN "finrst" ELSE "rst"]
    /\ Edge(c, TRUE)
    /\ UNCHANGED <<sock, rcv, out, fdtab, home, inset, mode, rdhup,
                   workerVars, listenVars, up>>

Client(c) == Connect(c) \/ Send(c) \/ Drain(c) \/ Fin(c) \/ Reset(c)

-----------------------------------------------------------------------------
(* ListenThread: iSocket::Listen, then AssignTask, for ever. *)

\* select() and accept().  Without a free descriptor accept() fails (EMFILE)
\* and Listen returns -1, which Run answers by calling it again: no step here.
Listen(c, f) ==
    /\ lpc = "accept"
    /\ sock[c] = "backlog" /\ fdtab[f] = None
    /\ sock' = [sock EXCEPT ![c] = "open"]
    /\ fdtab' = [fdtab EXCEPT ![f] = c]
    /\ lfd' = f
    /\ target' = 1 /\ activeConns' = 1 /\ li' = 0
    /\ lpc' = "sum"
    /\ UNCHANGED <<peer, rcv, out, epollVars, workerVars, lval, up>>

\* activeConns += m_taskthread[i]->GetActiveConns()
SumConns ==
    /\ lpc = "sum"
    /\ activeConns' = activeConns + counter[li]
    /\ lpc' = "read"
    /\ UNCHANGED <<kernelVars, epollVars, workerVars, lfd, li, lval, target, up>>

\* The left operand of the comparison: a second read of the same counter.
ReadLoad ==
    /\ lpc = "read"
    /\ lval' = counter[li]
    /\ lpc' = "cmp"
    /\ UNCHANGED <<kernelVars, epollVars, workerVars, lfd, li, target,
                   activeConns, up>>

\* for (i=0; i<m_taskthread.size(); i++)
NextIndexPastEnd ==    \* mutant: i<=size
    /\ li' = li + 1
    /\ lpc' = IF li + 1 <= MaxThreads THEN "sum" ELSE "decide"

NextIndex ==
    /\ li' = li + 1
    /\ lpc' = IF li + 1 < MaxThreads THEN "sum" ELSE "decide"

\* The loop's comparison of two counters.
HeavierThan(load, best) == load > best    \* mutant: > for <
LighterThan(load, best) == load < best

\* The right operand, and target = i when the left one is smaller.
CompareLoad ==
    /\ lpc = "cmp" /\ target \in Workers
    /\ target' = IF LighterThan(lval, counter[target]) THEN li ELSE target
    /\ NextIndex
    /\ UNCHANGED <<kernelVars, epollVars, workerVars, lfd, lval, activeConns, up>>

\* m_taskthread[target] lies outside the deque, which happens with one worker
\* only: the comparison reads through a wild pointer.  The process may crash,
\* and if it does not, the comparison has either outcome.
CompareWild ==
    /\ lpc = "cmp" /\ target \notin Workers
    /\ \/ up' = FALSE /\ UNCHANGED listenVars
       \/ /\ up' = up
          /\ target' \in {li, target}
          /\ NextIndex
          /\ UNCHANGED <<lfd, lval, activeConns>>
    /\ UNCHANGED <<kernelVars, epollVars, workerVars>>

\* activeConns, which starts at 1 for the new connection, against maxclients.
FullOneLate == activeConns > MaxClients + 1    \* mutant: off by one
Full == activeConns > MaxClients

\* "Max number of clients reached": close(sockfd).
RefuseUnclosed ==    \* mutant: no close(sockfd)
    /\ lpc = "decide" /\ Full
    /\ lpc' = "accept"
    /\ UNCHANGED <<kernelVars, epollVars, workerVars, lfd, li, lval, target,
                   activeConns, up>>

Refuse ==
    /\ lpc = "decide" /\ Full
    /\ CloseFd(lfd)
    /\ lpc' = "accept"
    /\ UNCHANGED <<workerVars, lfd, li, lval, target, activeConns, up>>

\* AssignTask adds with I_EPOLL_WRITE: the server speaks first.
AddForRead == "READ"    \* mutant: I_EPOLL_READ
InitMode == "WRITE"

\* i_epoll_add(sockfd, I_EPOLL_WRITE, I_EPOLL_EDGE_TRIGGERED) succeeds.
i_epoll_add ==
    LET c == fdtab[lfd]
    IN  /\ lpc = "decide" /\ ~Full /\ target \in Workers
        /\ home' = [home EXCEPT ![c] = target]
        /\ inset' = [inset EXCEPT ![c] = TRUE]
        /\ mode' = [mode EXCEPT ![c] = InitMode]
        /\ rdhup' = [rdhup EXCEPT ![c] = TRUE]
        /\ ready' = [ready EXCEPT ![c] =
                        Pollable(InitMode, TRUE, rcv[c], out[c], peer[c]) # {}]
        /\ lpc' = "inc"
        /\ UNCHANGED <<kernelVars, workerVars, lfd, li, lval, target,
                       activeConns, up>>

\* i_epoll_add fails: AssignTask returns without closing sockfd.
AddFails ==
    /\ lpc = "decide" /\ ~Full
    /\ AddMayFail \/ target \notin Workers
    /\ lpc' = "accept"
    /\ UNCHANGED <<kernelVars, epollVars, workerVars, lfd, li, lval, target,
                   activeConns, up>>

\* i_epoll_add is called on a wild pointer and crashes the process.
AddCrashes ==
    /\ lpc = "decide" /\ ~Full /\ target \notin Workers
    /\ up' = FALSE
    /\ UNCHANGED <<kernelVars, epollVars, workerVars, listenVars>>

\* iAtomic.h: one locked instruction each.
atomic_inc(n) == n + 1
atomic_dec_lost(n) == n    \* mutant: the decrement has no effect
atomic_dec(n) == n - 1

\* m_taskthread[target]->IncrementActiveConns().
IncrementActiveConns ==
    /\ lpc = "inc"
    /\ counter' = [counter EXCEPT ![target] = atomic_inc(@)]
    /\ lpc' = "accept"
    /\ UNCHANGED <<kernelVars, epollVars, wpc, batch, cur, nRet, errno, lfd, li,
                   lval, target, activeConns, up>>

AssignTask ==
    \/ SumConns \/ ReadLoad \/ CompareLoad \/ CompareWild
    \/ Refuse \/ i_epoll_add \/ AddFails \/ AddCrashes \/ IncrementActiveConns

ListenThread == AssignTask \/ \E c \in Conns, f \in Fds : Listen(c, f)

-----------------------------------------------------------------------------
(* TaskThread: iEpoll::i_epoll_wait and the handlers it calls. *)

ReadyFds(w) ==
    {f \in Fds : /\ fdtab[f] # None /\ inset[fdtab[f]] /\ home[fdtab[f]] = w
                 /\ ready[fdtab[f]] /\ Events(fdtab[f]) # {}}

\* epoll_wait(): up to m_maxevents connections leave the ready list, each with
\* what poll() says of it now.  A wait that times out changes nothing.
i_epoll_wait(w) ==
    /\ wpc[w] = "wait"
    /\ \E F \in SUBSET ReadyFds(w) :
          /\ F # {}
          /\ F = ReadyFds(w) \/ Cardinality(F) = MaxEvents
          /\ Cardinality(F) <= MaxEvents
          /\ batch' = [batch EXCEPT ![w] =
                {[fd |-> f, conn |-> fdtab[f], ev |-> Events(fdtab[f])] : f \in F}]
          /\ ready' = [c \in Conns |-> ready[c] /\ \A f \in F : fdtab[f] # c]
    /\ wpc' = [wpc EXCEPT ![w] = "loop"]
    /\ UNCHANGED <<kernelVars, home, inset, mode, rdhup, counter, cur, nRet,
                   errno, listenVars, up>>

\* epoll_wait() fails when the process is stopped and continued: num_fds is -1, the
\* for loop does nothing, and errno stays.
Interrupted(w) ==
    /\ Stops /\ wpc[w] = "wait" /\ errno[w] # "EINTR"
    /\ errno' = [errno EXCEPT ![w] = "EINTR"]
    /\ UNCHANGED <<kernelVars, epollVars, counter, wpc, batch, cur, nRet,
                   listenVars, up>>

\* The for loop goes on to the next event of the batch, or ends.
Resume(w, rest) ==
    /\ batch' = [batch EXCEPT ![w] = rest]
    /\ wpc' = [wpc EXCEPT ![w] = IF rest = {} THEN "wait" ELSE "loop"]
    /\ cur' = [cur EXCEPT ![w] = None]

\* nRet once the EPOLLIN/EPOLLOUT handler has left r in it and iError was called
\* on EPOLLHUP/EPOLLERR/EPOLLRDHUP.
FailureSticks(w, e, r) ==    \* mutant: nRet only ever set on failure
    IF "ERR" \in e.ev \/ nRet[w] < 0 THEN -1 ELSE r
Returned(w, e, r) == IF "ERR" \in e.ev THEN -1 ELSE r

\* The rest of the loop body: iClose if nRet < 0.
Finish(w, e, r) ==
    LET ret == Returned(w, e, r)
    IN  /\ nRet' = [nRet EXCEPT ![w] = ret]
        /\ IF ret < 0
           THEN /\ wpc' = [wpc EXCEPT ![w] = "del"]
                /\ cur' = [cur EXCEPT ![w] = e]
                /\ batch' = [batch EXCEPT ![w] = @ \ {e}]
           ELSE Resume(w, batch[w] \ {e})

\* A handler goes on with its event, and with nRet as it was.
Busy(w, e, pc) ==
    /\ wpc' = [wpc EXCEPT ![w] = pc]
    /\ cur' = [cur EXCEPT ![w] = e]
    /\ batch' = [batch EXCEPT ![w] = @ \ {e}]
    /\ UNCHANGED nRet

\* It did its I/O and goes on to i_epoll_change_mode.
StayReading(w, e, pc) ==    \* mutant: iRead leaves the mode alone
    IF pc = "toWrite" THEN Finish(w, e, 0) ELSE Busy(w, e, pc)
StayWriting(w, e, pc) ==    \* mutant: iWrite leaves the mode alone
    IF pc = "toRead" THEN Finish(w, e, 0) ELSE Busy(w, e, pc)
ToChangeMode(w, e, pc) == Busy(w, e, pc)

\* What the handlers make of the number of bytes recvn or sendn returns.
FailedBelowZero(bytes) == bytes < 0    \* mutant: end of file is no failure
Failed(bytes) == bytes <= 0

\* recvn takes what is there, up to the size of its buffer.  If that is less, one
\* more recv() ends it: that fails (EAGAIN, ECONNRESET), or returns 0 after a
\* half-close, reset or not, and leaves errno alone.
recvn(c) == IF rcv[c] < BufSz THEN rcv[c] ELSE BufSz

AfterRecv(w, c) ==
    IF recvn(c) < BufSz /\ peer[c] \in {"up", "rst"} THEN "other" ELSE errno[w]

\* recvn looks at errno in either case: if (errno == EINTR) continue.  When it is
\* the EINTR of an epoll_wait, recvn never returns.
Retries(err) == err = "EINTR"
Spins(w, c) == recvn(c) < BufSz /\ Retries(AfterRecv(w, c))

\* iRead up to its i_epoll_change_mode.
iRead(w, e) ==
    LET c == fdtab[e.fd]
        n == recvn(c)
    IN  /\ wpc[w] = "loop" /\ e \in batch[w] /\ "IN" \in e.ev
        /\ rcv' = [rcv EXCEPT ![c] = @ - n]
        /\ errno' = [errno EXCEPT ![w] = AfterRecv(w, c)]
        /\ IF Spins(w, c) THEN Busy(w, e, "spin")
           ELSE IF Failed(n) THEN Finish(w, e, -1) ELSE ToChangeMode(w, e, "toWrite")
        /\ UNCHANGED <<sock, peer, out, fdtab, epollVars, counter, listenVars, up>>

\* sendn of one reply: what it returns, and what the kernel has taken of it.  Without
\* room or after a reset that is -1 and nothing.  Short of memory, the kernel may take
\* nothing, or a part, which fills a unit, too, even if EPOLLOUT has announced
\* room; the send() of the rest then fails (EAGAIN), and sendn returns -1.
sendn(c) ==
    IF out[c] < SndMax /\ ~IsReset(peer[c])
    THEN {[ret |-> 1, took |-> 1], [ret |-> -1, took |-> 1], [ret |-> -1, took |-> 0]}
    ELSE {[ret |-> -1, took |-> 0]}

\* iWrite up to its i_epoll_change_mode.
iWrite(w, e) ==
    LET c == fdtab[e.fd]
    IN  /\ wpc[w] = "loop" /\ e \in batch[w] /\ "OUT" \in e.ev
        /\ \E s \in sendn(c) :
              /\ out' = [out EXCEPT ![c] = @ + s.took]
              /\ errno' = [errno EXCEPT ![w] = IF Failed(s.ret) THEN "other" ELSE @]
              /\ IF Failed(s.ret) THEN Finish(w, e, -1) ELSE ToChangeMode(w, e, "toRead")
        /\ UNCHANGED <<sock, peer, rcv, fdtab, epollVars, counter, listenVars, up>>

\* An event without EPOLLIN and EPOLLOUT: iError alone, nRet being what the
\* event before left in it.
iError(w, e) ==
    /\ wpc[w] = "loop" /\ e \in batch[w] /\ e.ev \cap {"IN", "OUT"} = {}
    /\ Finish(w, e, nRet[w])
    /\ UNCHANGED <<kernelVars, epollVars, counter, errno, listenVars, up>>

\* i_epoll_change_mode(sockfd, m, EDGE): EPOLL_CTL_MOD drops EPOLLRDHUP from
\* the interest and polls the socket anew.  The handler then returns 0.
i_epoll_change_mode(w) ==
    LET c == fdtab[cur[w].fd]
        m == IF wpc[w] = "toRead" THEN "READ" ELSE "WRITE"
    IN  /\ wpc[w] \in {"toRead", "toWrite"}
        /\ mode' = [mode EXCEPT ![c] = m]
        /\ rdhup' = [rdhup EXCEPT ![c] = FALSE]
        /\ ready' = [ready EXCEPT ![c] =
                        @ \/ Pollable(m, FALSE, rcv[c], out[c], peer[c]) # {}]
        /\ Finish(w, cur[w], 0)
        /\ UNCHANGED <<kernelVars, home, inset, counter, errno, listenVars, up>>

\* The three calls of iClose, each with the program points it leads from and to.
DelStep(w, from, to) ==    \* i_epoll_del(sockfd)
    /\ wpc[w] = from
    /\ EpollDel(w, fdtab[cur[w].fd])
    /\ wpc' = [wpc EXCEPT ![w] = to]
    /\ UNCHANGED <<kernelVars, home, mode, rdhup, counter, batch, cur, nRet, errno>>

CloseStep(w, from, to) ==    \* close(sockfd)
    /\ wpc[w] = from
    /\ CloseFd(cur[w].fd)
    /\ wpc' = [wpc EXCEPT ![w] = to]
    /\ UNCHANGED <<counter, batch, cur, nRet, errno>>

DecStep(w) ==    \* atomic_dec(&m_ActiveConns)
    /\ wpc[w] = "dec"
    /\ counter' = [counter EXCEPT ![w] = atomic_dec(@)]
    /\ Resume(w, batch[w])
    /\ UNCHANGED <<kernelVars, epollVars, nRet, errno>>

iCloseSwapped(w) ==    \* mutant: close() before i_epoll_del()
    \/ CloseStep(w, "del", "close")
    \/ DelStep(w, "close", "dec")
    \/ DecStep(w)

iClose(w) ==
    \/ DelStep(w, "del", "close")
    \/ CloseStep(w, "close", "dec")
    \/ DecStep(w)

Close(w) == iClose(w) /\ UNCHANGED <<listenVars, up>>

ServesOn(w) ==
    \/ i_epoll_wait(w)
    \/ \E e \in batch[w] : iRead(w, e) \/ iWrite(w, e) \/ iError(w, e)
    \/ i_epoll_change_mode(w)
    \/ Close(w)

TaskThread(w) == ServesOn(w) \/ Interrupted(w)

-----------------------------------------------------------------------------
Next ==
    /\ up
    /\ \/ \E c \in Conns : Client(c)
       \/ ListenThread
       \/ \E w \in Workers : TaskThread(w)

Spec == Init /\ [][Next]_vars

\* The threads run on: the scheduler runs every thread that can take a step, and
\* accept() serves the backlog in order.  Of the clients nothing is assumed.
Fairness ==
    /\ WF_vars(up /\ ListenThread)
    /\ \A w \in Workers : WF_vars(up /\ ServesOn(w))
    /\ \A c \in Conns : SF_vars(up /\ \E f \in Fds : Listen(c, f))

FairSpec == Spec /\ Fairness

-----------------------------------------------------------------------------
(* Correctness. *)

TypeOK ==
    /\ sock \in [Conns -> {"none", "backlog", "open", "closed"}]
    /\ peer \in [Conns -> {"up", "fin", "rst", "finrst"}]
    /\ rcv \in [Conns -> 0 .. RcvMax]
    /\ out \in [Conns -> 0 .. SndMax]
    /\ fdtab \in [Fds -> Conns \cup {None}]
    /\ home \in [Conns -> Workers \cup {NoWorker}]
    /\ inset \in [Conns -> BOOLEAN]
    /\ mode \in [Conns -> {"READ", "WRITE"}]
    /\ rdhup \in [Conns -> BOOLEAN]
    /\ ready \in [Conns -> BOOLEAN]
    /\ counter \in [Workers -> Int]
    /\ wpc \in [Workers ->
                   {"wait", "loop", "spin", "toRead", "toWrite", "del", "close", "dec"}]
    /\ batch \in [Workers -> SUBSET Event]
    /\ cur \in [Workers -> Event \cup {None}]
    /\ nRet \in [Workers -> {-1, 0}]
    /\ errno \in [Workers -> {"EINTR", "other"}]
    /\ lpc \in {"accept", "sum", "read", "cmp", "decide", "inc"}
    /\ lfd \in Fds \cup {None}
    /\ li \in 0 .. MaxThreads
    /\ lpc \in {"sum", "read", "cmp"} => li \in Workers
    /\ lval \in Int
    /\ target \in Workers \cup {1}
    /\ activeConns \in Int
    /\ up \in BOOLEAN

\* The connections AssignTask gave to worker w and that are still open, and
\* those of all workers.
Homed(w) == {c \in Conns : home[c] = w}
Served == {c \in Conns : home[c] # NoWorker}

\* The events worker w has been given and has not finished with.
InHand(w) ==
    batch[w] \cup
    (IF wpc[w] \in {"spin", "toRead", "toWrite", "del", "close"} THEN {cur[w]} ELSE {})

\* The listener holds an accepted descriptor it has not placed yet.
Placing == lpc \in {"sum", "read", "cmp", "decide"}

\* The workers never serve more than maxclients connections at once, although
\* AssignTask adds up counters that the workers decrement meanwhile, and counts
\* a connection only after its worker can already have seen it
\* (ListenThread.cpp:132-159, TaskThread.cpp:93-97).
AdmissionLimit == Cardinality(Served) <= MaxClients

\* A connection as a whole: not there, in the backlog or accepted and not (yet)
\* given to a worker, or in a worker's hands.
connState ==
    [c \in Conns |->
        IF home[c] # NoWorker THEN "served"
        ELSE IF sock[c] \in {"backlog", "open"} THEN "waiting" ELSE "away"]

A == INSTANCE Admission WITH state <- connState

\* Seen so, the threads implement Admission: the separate reads of the counters
\* amount to one test of the number of connections being served, made at the
\* moment of EPOLL_CTL_ADD (ListenThread.cpp:127-162).
AdmissionSpec == A!Spec

\* m_ActiveConns counts the worker's open connections, but for a connection
\* that is closed and not yet counted off (the last line of iClose) and one that
\* is added and not yet counted in (the last line of AssignTask); when the worker
\* closes it first, the counter is -1 for a while.
CounterExact ==
    \A w \in Workers :
        counter[w] = Cardinality(Homed(w))
                     + (IF wpc[w] = "dec" THEN 1 ELSE 0)
                     - (IF lpc = "inc" /\ target = w THEN 1 ELSE 0)

\* The descriptor in an event still denotes the connection the event is about,
\* and that connection is still the worker's, for as long as the worker may use
\* it: descriptors are reused at once, but never under a worker's hands
\* (iEpoll.cpp:60-88).
FdStable ==
    \A w \in Workers : \A e \in InHand(w) :
        fdtab[e.fd] = e.conn /\ home[e.conn] = w

\* No edge is lost: a connection with something to report is on its set's ready
\* list or in its worker's hands, which re-arms it (EPOLL_CTL_MOD) or closes it.
\* recvn may leave data behind, and data may come before the mode changes.
NoLostEdge ==
    \A c \in Conns : inset[c] /\ Events(c) # {} =>
        ready[c] \/ \E e \in InHand(home[c]) : e.conn = c

\* Whatever a client has sent, and its leaving, is reported next, or its worker has
\* an event of it in hand; the one thing a worker may wait for first is room for its
\* reply.  EPOLL_CTL_MOD drops EPOLLRDHUP, so that a half-close waits then, too
\* (iEpoll.cpp:60-88, 144-185).
WaitsOnlyForRoom ==
    \A c \in Conns : home[c] # NoWorker /\ (rcv[c] > 0 \/ peer[c] # "up") =>
        \/ ready[c] /\ Events(c) # {}
        \/ \E e \in InHand(home[c]) : e.conn = c
        \/ /\ mode[c] = "WRITE" /\ out[c] = SndMax
           /\ ~IsReset(peer[c]) /\ ~(rdhup[c] /\ peer[c] = "fin")

\* An error is never reported without EPOLLIN or EPOLLOUT, so that the nRet of an
\* event is always the one its own handlers return and never the one that the event
\* before has left: EPOLLRDHUP is waited for only until the first mode change, and
\* until then there is room in the send buffer (iEpoll.cpp:52-88, 144-185).
ErrorNeverAlone ==
    \A w \in Workers : \A e \in batch[w] : e.ev \cap {"IN", "OUT"} # {}

\* A worker goes to iClose only with a client that has gone, or because sendn has
\* just failed (the one way in which a client that is there is hung up on): no failed
\* read, no event and no nRet kept from the event before condemns another client
\* (iEpoll.cpp:52-88).
NoSpuriousClose ==
    [][\A w \in Workers :
          wpc[w] # "del" /\ wpc'[w] = "del" =>
              peer[cur'[w].conn] # "up" \/ \E e \in batch[w] : iWrite(w, e)]_vars

\* No descriptor is lost: every open one is served by a worker or in the
\* listener's hands (ListenThread.cpp:127-162).
FdAccounted ==
    \A f \in Fds : fdtab[f] # None =>
        home[fdtab[f]] # NoWorker \/ (Placing /\ f = lfd)

\* The connection's worker is in a recvn that never returns.
Stuck(c) == home[c] # NoWorker /\ wpc[home[c]] = "spin"

\* Its client leaves the replies unread for ever.
Unread(c) == [](out[c] = SndMax /\ ~IsReset(peer[c]))

\* A connection that a client has left is closed, whichever mode it is in and
\* whatever was buffered, unless the client has only shut down its side and reads no
\* more, or the worker spins on a stale EINTR (iEpoll.cpp:62-88, iSocket.cpp:224-235).
GoneIsClosed ==
    \A c \in Conns :
        home[c] # NoWorker /\ peer[c] # "up" ~> home[c] = NoWorker \/ Stuck(c) \/ Unread(c)

\* Data is read once the receive buffer is full, with the same two exceptions: no
\* mode change loses the conversation (TaskThread.cpp:41-79).
KeepsReading ==
    \A c \in Conns :
        home[c] # NoWorker /\ rcv[c] = RcvMax
            ~> rcv[c] < RcvMax \/ home[c] = NoWorker \/ Stuck(c) \/ Unread(c)

\* Every client that connects is greeted or turned away, unless others keep all the
\* descriptors from some time on, or its worker spins (iSocket.cpp:85-150).
Greeted ==
    \A c \in Conns :
        sock[c] = "backlog" ~>
            \/ out[c] > 0 \/ sock[c] = "closed" \/ Stuck(c)
            \/ [](\A f \in Fds : fdtab[f] \notin {None, c})

-----------------------------------------------------------------------------
(* What the configuration file's comments promise. *)

\* myepoll.conf:40 "Set the max number of connected clients at the same time":
\* the accepted connections, the one AssignTask is deciding on apart.
MaxClientsHonoured ==
    Cardinality({c \in Conns : sock[c] = "open" /\ ~(Placing /\ c = fdtab[lfd])})
        <= MaxClients

\* myepoll.conf:47 "Set the max number of worker threads", which main.cpp:309
\* accepts from 1 on: AssignTask chooses a worker of the pool.
TargetInPool == lpc \in {"decide", "inc"} => target \in Workers
=============================================================================
