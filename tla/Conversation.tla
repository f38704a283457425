---------------------------- MODULE Conversation ----------------------------
(***************************************************************************)
(* One connection from end to end: a worker of the server on one side, and *)
(* on the other either the repository's test client (Test.cpp), whose      *)
(* threads run the same iEpoll loop and the same recvn and sendn, or a     *)
(* stranger, who may do with a socket what he likes.                       *)
(*                                                                         *)
(* A step is one system call.  Where EpollServer counts whole messages,    *)
(* this module counts bytes, so that recvn and sendn are the loops they    *)
(* are in iSocket.cpp, with what the C library's errno holds between their *)
(* calls.  The kernel is modelled from how the code uses it: data reaches  *)
(* the other end at once, a reset (SO_LINGER {1, 0}) some time later.      *)
(***************************************************************************)
EXTENDS Integers

CONSTANTS
    MsgSz,       \* bytes of a message: strlen of what iWrite formats
    BufSz,       \* bytes of iRead's sBuf (MIN_BUFSZ)
    Room,        \* bound: bytes sent and not yet received, in one direction
    Peers,       \* who may connect: a subset of {"test", "stranger"}
    Pressure,    \* whether the kernel may take less than a message, or nothing
    Stops        \* whether a process may be stopped and continued

ASSUME SizesAssumption ==
    /\ MsgSz \in Nat \ {0} /\ BufSz \in Nat /\ Room \in Nat
    /\ MsgSz < BufSz /\ MsgSz <= Room
ASSUME ChoicesAssumption ==
    Peers \subseteq {"test", "stranger"} /\ {Pressure, Stops} \subseteq BOOLEAN

Ends == {"server", "client"}
Peer(e) == IF e = "server" THEN "client" ELSE "server"

VARIABLES
    who,      \* who is the client
    \* The two sockets and the epoll sets they are in
    life,     \* [Ends -> {"none", "backlog", "open", "closed"}]
    heard,    \* what the end knows of the other: "up", "fin", "rst" (a reset that
              \* recv() will report) or "dead" (one that it has reported, or will
              \* not, because it has reported the end of file before)
    wire,     \* bytes that have reached the end and were not read yet
    inset,    \* whether the socket is in the epoll set of the end's thread
    mode,     \* its interest: "READ" or "WRITE"
    rdhup,    \* whether EPOLLRDHUP is in its interest
    ready,    \* whether it is on the ready list
    \* The thread at each end
    pc,       \* its next call: epoll_wait, recv, send, EPOLL_CTL_MOD, ...
    ev,       \* the events it is handling
    n,        \* the n of recvn or sendn: bytes still to go
    errno,    \* "EINTR", or any other error
    \* History
    split     \* a send took less than it was given

sockVars   == <<life, heard, wire>>
epollVars  == <<inset, mode, rdhup, ready>>
threadVars == <<pc, ev, n, errno>>
vars == <<who, sockVars, epollVars, threadVars, split>>

Init ==
    /\ who \in Peers
    /\ life = [e \in Ends |-> "none"]
    /\ heard = [e \in Ends |-> "up"]
    /\ wire = [e \in Ends |-> 0]
    /\ inset = [e \in Ends |-> FALSE]
    /\ mode = [server |-> "WRITE", client |-> "READ"]
    /\ rdhup = [e \in Ends |-> FALSE]
    /\ ready = [e \in Ends |-> FALSE]
    /\ pc = [server |-> "wait", client |-> IF who = "test" THEN "wait" ELSE "none"]
    /\ ev = [e \in Ends |-> {}]
    /\ n = [e \in Ends |-> 0]
    /\ errno = [e \in Ends |-> "other"]
    /\ split = FALSE

-----------------------------------------------------------------------------
(* The kernel. *)

Free(e) == Room - wire[Peer(e)]
IsReset(e) == heard[e] \in {"rst", "dead"}

\* What poll() reports of e with interest m and, if h, in EPOLLRDHUP.  EPOLLHUP,
\* EPOLLERR and EPOLLRDHUP are all "ERR": the code treats them alike.
Poll(e, m, h) ==
    (IF m = "READ" /\ (wire[e] > 0 \/ heard[e] # "up") THEN {"IN"} ELSE {})
    \cup (IF m = "WRITE" /\ (Free(e) >= MsgSz \/ IsReset(e)) THEN {"OUT"} ELSE {})
    \cup (IF IsReset(e) \/ (h /\ heard[e] = "fin") THEN {"ERR"} ELSE {})

\* Something e waits for, if cond holds, has just happened: an edge.
Edge(e, cond) == ready' = [ready EXCEPT ![e] = @ \/ (inset[e] /\ cond)]

\* k bytes leave e's receive buffer, and may make room for the other end to write.
Take(e, k) ==
    /\ wire' = [wire EXCEPT ![e] = @ - k]
    /\ Edge(Peer(e), /\ mode[Peer(e)] = "WRITE"
                     /\ Free(Peer(e)) < MsgSz /\ Free(Peer(e)) + k >= MsgSz)

\* k bytes reach the other end, if it is still there.
Give(e, k) ==
    IF life[Peer(e)] = "closed" THEN UNCHANGED <<wire, ready>>
    ELSE /\ wire' = [wire EXCEPT ![Peer(e)] = @ + k]
         /\ Edge(Peer(e), mode[Peer(e)] = "READ")

\* The last descriptor of e's socket is closed.
CloseSocket(e) ==
    /\ life' = [life EXCEPT ![e] = "closed"]
    /\ wire' = [wire EXCEPT ![e] = 0]
    /\ inset' = [inset EXCEPT ![e] = FALSE]
    /\ ready' = [ready EXCEPT ![e] = FALSE]
    /\ UNCHANGED <<heard, mode, rdhup>>

\* The reset of a closed end reaches the other one; what was sent before it may
\* be lost in part.  After a FIN recv() keeps to the end of file (Linux: SOCK_DONE).
RstArrives(e) ==
    /\ life[Peer(e)] = "closed" /\ life[e] \in {"backlog", "open"} /\ ~IsReset(e)
    /\ heard' = [heard EXCEPT ![e] = IF @ = "fin" THEN "dead" ELSE "rst"]
    /\ \E k \in 0 .. wire[e] : wire' = [wire EXCEPT ![e] = k]
    /\ Edge(e, TRUE)
    /\ UNCHANGED <<who, life, inset, mode, rdhup, threadVars, split>>

\* EPOLL_CTL_ADD with interest m, which polls the socket.
EpollAdd(e, m) ==
    /\ inset' = [inset EXCEPT ![e] = TRUE]
    /\ mode' = [mode EXCEPT ![e] = m]
    /\ rdhup' = [rdhup EXCEPT ![e] = TRUE]
    /\ ready' = [ready EXCEPT ![e] = Poll(e, m, TRUE) # {}]

-----------------------------------------------------------------------------
(* The connection is made.  The server may get and send data at once, before *)
(* the client's main has added the socket to its thread's set.               *)

Connect ==
    /\ life["client"] = "none"
    /\ life' = [server |-> "backlog", client |-> "open"]
    /\ UNCHANGED <<who, heard, wire, epollVars, threadVars, split>>

\* ListenThread accepts it, and AssignTask adds it to a worker's set ...
Listen ==
    /\ life["server"] = "backlog"
    /\ life' = [life EXCEPT !["server"] = "open"]
    /\ EpollAdd("server", "WRITE")
    /\ UNCHANGED <<who, heard, wire, threadVars, split>>

\* ... or closes it when maxclients is reached.
Refuse ==
    /\ life["server"] = "backlog"
    /\ CloseSocket("server")
    /\ pc' = [pc EXCEPT !["server"] = "done"]
    /\ UNCHANGED <<who, ev, n, errno, split>>

AddWrite == "WRITE"    \* mutant: the client speaks first, too
TestMode == "READ"

\* AddEpollEvents(I_EPOLL_READ, I_EPOLL_EDGE_TRIGGERED)
AddEpollEvents ==
    /\ who = "test" /\ life["client"] = "open" /\ ~inset["client"]
    /\ pc["client"] = "wait"
    /\ EpollAdd("client", TestMode)
    /\ UNCHANGED <<who, sockVars, threadVars, split>>

-----------------------------------------------------------------------------
(* The thread at an end: iEpoll::i_epoll_wait and the handlers. *)

\* epoll_wait() reports the socket: on to iRead's recvn, to iWrite's sendn, or
\* to iClose.  Interest is never in both directions.
i_epoll_wait(e) ==
    LET found == Poll(e, mode[e], rdhup[e])
    IN  /\ pc[e] = "wait" /\ inset[e] /\ ready[e] /\ found # {}
        /\ ready' = [ready EXCEPT ![e] = FALSE]
        /\ ev' = [ev EXCEPT ![e] = found]
        /\ pc' = [pc EXCEPT ![e] =
                    IF "IN" \in found THEN "recv"
                    ELSE IF "OUT" \in found THEN "send" ELSE "del"]
        /\ n' = [n EXCEPT ![e] =
                    IF "IN" \in found THEN BufSz
                    ELSE IF "OUT" \in found THEN MsgSz ELSE 0]
        /\ UNCHANGED <<who, sockVars, inset, mode, rdhup, errno, split>>

\* The process is stopped and continued: epoll_wait fails with EINTR, as does
\* the poll() the test client begins iWrite with.  The loop goes on; errno stays.
Interrupted(e) ==
    /\ Stops /\ errno[e] # "EINTR"
    /\ \/ pc[e] = "wait"
       \/ e = "client" /\ pc[e] = "send" /\ n[e] = MsgSz
    /\ errno' = [errno EXCEPT ![e] = "EINTR"]
    /\ UNCHANGED <<who, sockVars, epollVars, pc, ev, n, split>>

\* What iRead makes of recvn's result, and iWrite of sendn's.
Failed(bytes) == bytes <= 0
AfterIo(bytes) == IF Failed(bytes) THEN "del" ELSE "mod"

\* The size recvn passes to recv().
AllOfBuffer(e) == BufSz    \* mutant: nLen for n, which writes behind sBuf
RestOfBuffer(e) == n[e]

\* recv() finds data.
RecvSome(e) ==
    LET size == RestOfBuffer(e)
        k == IF wire[e] < size THEN wire[e] ELSE size
    IN  /\ pc[e] = "recv" /\ k > 0
        /\ Take(e, k)
        /\ n' = [n EXCEPT ![e] = @ - k]
        /\ pc' = [pc EXCEPT ![e] = IF n[e] = k THEN AfterIo(BufSz) ELSE "recv"]
        /\ UNCHANGED <<who, life, heard, inset, mode, rdhup, ev, errno, split>>

\* recv() returns -1, with EAGAIN or once with ECONNRESET, or 0 after a FIN, even one
\* that a reset has followed, and then leaves errno alone.
RecvError(e) == heard[e] \in {"up", "rst"}
AfterRecv(e) == IF RecvError(e) THEN "other" ELSE errno[e]

\* Whether a failed call is made again: if (errno == EINTR) continue.
RetriesAgain(e, err) ==    \* mutant: EAGAIN is retried like EINTR
    err = "EINTR" \/ heard[e] = "up"
RetriesUnlessAgain(e, err) ==    \* mutant: only EAGAIN is not retried
    heard[e] # "up"
Retries(e, err) == err = "EINTR"

\* recvn gives up and returns what it has.  It goes round again on EINTR, which
\* may be the EINTR of an earlier call: then this is no step.
RecvNone(e) ==
    /\ pc[e] = "recv" /\ wire[e] = 0
    /\ ~Retries(e, AfterRecv(e))
    /\ errno' = [errno EXCEPT ![e] = AfterRecv(e)]
    /\ heard' = [heard EXCEPT ![e] = IF @ = "rst" THEN "dead" ELSE @]
    /\ pc' = [pc EXCEPT ![e] = AfterIo(BufSz - n[e])]
    /\ UNCHANGED <<who, life, wire, epollVars, ev, n, split>>

recvn(e) == RecvSome(e) \/ RecvNone(e)

\* send() takes the bytes, or a part of them.
SendSome(e) ==
    LET most == IF Free(e) < n[e] THEN Free(e) ELSE n[e]
    IN  /\ pc[e] = "send" /\ ~IsReset(e)
        /\ \E k \in 1 .. most :
              /\ k = most \/ Pressure
              /\ Give(e, k)
              /\ n' = [n EXCEPT ![e] = @ - k]
              /\ split' = (split \/ k < n[e])
              /\ pc' = [pc EXCEPT ![e] = IF n[e] = k THEN AfterIo(MsgSz) ELSE "send"]
        /\ UNCHANGED <<who, life, heard, inset, mode, rdhup, ev, errno>>

\* What sendn returns when send() has failed.
SentSoFar(e) == MsgSz - n[e]    \* mutant: like recvn, what has gone
SendFailure(e) == -1

\* send() fails, with EAGAIN or because of a reset.
SendNone(e) ==
    /\ pc[e] = "send"
    /\ Pressure \/ Free(e) = 0 \/ IsReset(e)
    /\ ~Retries(e, "other")
    /\ errno' = [errno EXCEPT ![e] = "other"]
    /\ heard' = [heard EXCEPT ![e] = IF @ = "rst" THEN "dead" ELSE @]
    /\ pc' = [pc EXCEPT ![e] = AfterIo(SendFailure(e))]
    /\ UNCHANGED <<who, life, wire, epollVars, ev, n, split>>

sendn(e) == SendSome(e) \/ SendNone(e)

\* The mode iRead and iWrite ask for.
KeepWriting(m) == "WRITE"    \* mutant: iWrite leaves the mode alone
OtherMode(m) == IF m = "READ" THEN "WRITE" ELSE "READ"

\* i_epoll_change_mode: EPOLL_CTL_MOD drops EPOLLRDHUP and polls the socket anew.
\* Then iError and iClose if the event was one of those.
i_epoll_change_mode(e) ==
    LET m == OtherMode(mode[e])
    IN  /\ pc[e] = "mod"
        /\ mode' = [mode EXCEPT ![e] = m]
        /\ rdhup' = [rdhup EXCEPT ![e] = FALSE]
        /\ ready' = [ready EXCEPT ![e] = @ \/ Poll(e, m, FALSE) # {}]
        /\ pc' = [pc EXCEPT ![e] = IF "ERR" \in ev[e] THEN "del" ELSE "wait"]
        /\ UNCHANGED <<who, sockVars, inset, ev, n, errno, split>>

\* iClose: EPOLL_CTL_DEL, then close().
EpollDel(e) ==
    /\ pc[e] = "del"
    /\ inset' = [inset EXCEPT ![e] = FALSE]
    /\ ready' = [ready EXCEPT ![e] = FALSE]
    /\ pc' = [pc EXCEPT ![e] = "close"]
    /\ UNCHANGED <<who, sockVars, mode, rdhup, ev, n, errno, split>>

Close(e) ==
    /\ pc[e] = "close"
    /\ CloseSocket(e)
    /\ pc' = [pc EXCEPT ![e] = "done"]
    /\ UNCHANGED <<who, ev, n, errno, split>>

iClose(e) == EpollDel(e) \/ Close(e)

Thread(e) ==
    i_epoll_wait(e) \/ recvn(e) \/ sendn(e) \/ i_epoll_change_mode(e) \/ iClose(e)

-----------------------------------------------------------------------------
(* The other things a client does. *)

\* SIGTERM: sigtermHandler deletes the Test, which closes its socket, and the
\* process is gone a second later.
Quit ==
    /\ who = "test" /\ life["client"] = "open"
    /\ CloseSocket("client")
    /\ pc' = [pc EXCEPT !["client"] = "done"]
    /\ UNCHANGED <<who, ev, n, errno, split>>

StrangerHolds == who = "stranger" /\ life["client"] = "open"

StrangerSends ==
    /\ StrangerHolds /\ heard["server"] = "up" /\ Free("client") > 0
    /\ Give("client", 1)
    /\ UNCHANGED <<who, life, heard, inset, mode, rdhup, threadVars, split>>

StrangerReads ==
    /\ StrangerHolds /\ wire["client"] > 0
    /\ Take("client", 1)
    /\ UNCHANGED <<who, life, heard, inset, mode, rdhup, threadVars, split>>

StrangerShuts ==
    /\ StrangerHolds /\ heard["server"] = "up"
    /\ heard' = [heard EXCEPT !["server"] = "fin"]
    /\ Edge("server", mode["server"] = "READ" \/ rdhup["server"])
    /\ UNCHANGED <<who, life, wire, inset, mode, rdhup, threadVars, split>>

StrangerLeaves ==
    /\ StrangerHolds
    /\ CloseSocket("client")
    /\ UNCHANGED <<who, threadVars, split>>

Stranger == StrangerSends \/ StrangerReads \/ StrangerShuts \/ StrangerLeaves

-----------------------------------------------------------------------------
Network == \E e \in Ends : RstArrives(e)

Next ==
    \/ Connect \/ Listen \/ Refuse \/ AddEpollEvents \/ Network
    \/ \E e \in Ends : Thread(e) \/ Interrupted(e)
    \/ Quit \/ Stranger

Spec == Init /\ [][Next]_vars

\* The threads run on, main makes the connection and adds it, ListenThread
\* accepts it, and a reset gets through.  Nobody has to quit or to stop, and a
\* stranger does not have to do anything.
Fairness ==
    /\ \A e \in Ends : WF_vars(Thread(e)) /\ WF_vars(RstArrives(e))
    /\ WF_vars(Listen \/ Refuse)
    /\ WF_vars(who = "test" /\ Connect) /\ WF_vars(AddEpollEvents)

FairSpec == Spec /\ Fairness

-----------------------------------------------------------------------------
(* Correctness. *)

TypeOK ==
    /\ who \in Peers
    /\ life \in [Ends -> {"none", "backlog", "open", "closed"}]
    /\ heard \in [Ends -> {"up", "fin", "rst", "dead"}]
    /\ wire \in [Ends -> 0 .. Room]
    /\ inset \in [Ends -> BOOLEAN]
    /\ mode \in [Ends -> {"READ", "WRITE"}]
    /\ rdhup \in [Ends -> BOOLEAN]
    /\ ready \in [Ends -> BOOLEAN]
    /\ pc \in [Ends -> {"none", "wait", "recv", "send", "mod", "del", "close", "done"}]
    /\ ev \in [Ends -> SUBSET {"IN", "OUT", "ERR"}]
    /\ n \in [Ends -> 0 .. BufSz]
    /\ errno \in [Ends -> {"EINTR", "other"}]
    /\ split \in BOOLEAN

\* A message that send() took only a part of is finished, or it is the last the
\* other end hears: after a partial send and EAGAIN, sendn's -1 closes the
\* connection, and no reply begins in the middle of another (iSocket.cpp:194-217,
\* TaskThread.cpp:68-76).
WholeReplies ==
    [][\A e \in Ends :
          pc[e] = "send" /\ n[e] \in 1 .. MsgSz - 1 => pc'[e] # "mod" \/ n'[e] = 0]_vars

\* Between the server and the test client a message never fills sBuf, so that
\* there is a terminator behind what iRead logs, as long as messages are sent in
\* one piece (TaskThread.cpp:43-53, Test.cpp:44-55).
NeverFills ==
    \A e \in Ends :
        who = "test" /\ ~split /\ pc[e] \in {"recv", "mod"} /\ mode[e] = "READ"
            => n[e] > 0

\* The end has read and not answered yet, or is the server and has not begun.
HasWord(e) ==
    IF mode[e] = "WRITE" THEN pc[e] # "mod"
    ELSE pc[e] = "mod" \/ (pc[e] = "recv" /\ n[e] < BufSz)

Over ==
    \/ who # "test" \/ split
    \/ \E e \in Ends : life[e] = "closed" \/ pc[e] \in {"del", "close"}

turn ==
    IF Over THEN "over"
    ELSE IF wire["client"] > 0 THEN "toClient"
    ELSE IF wire["server"] > 0 THEN "toServer"
    ELSE IF HasWord("client") THEN "client" ELSE "server"

D == INSTANCE Dialogue

\* Two edge-triggered loops that each switch between EPOLLIN and EPOLLOUT after
\* every message hold a conversation in turns, and never both wait for the
\* other: no order of adds, mode changes and arrivals loses the word
\* (Test.cpp:42-83, 331, TaskThread.cpp:41-79, ListenThread.cpp:153-155).
DialogueSpec == D!Spec

\* recvn at the end of file with the EINTR of an earlier call in errno: recv()
\* returns 0 without touching errno, and recvn looks at errno all the same
\* (iSocket.cpp:224-235).  It stays there, whatever the other end does.
SpinsAtEnd(e) ==
    /\ pc[e] = "recv" /\ errno[e] = "EINTR"
    /\ wire[e] = 0 /\ heard[e] \in {"fin", "dead"}

\* recvn returns, whatever the other end sends and however long it does, but for
\* that one spin: no EINTR holds it while the other end is up, nor when a reset
\* comes without a FIN before it.
RecvReturns == \A e \in Ends : pc[e] = "recv" ~> pc[e] # "recv" \/ SpinsAtEnd(e)

\* What has reached an end in an epoll set is read, although one iRead may leave
\* a part behind that no new edge announces, unless the other end leaves its own
\* side unread for ever (TaskThread.cpp:41-79, iEpoll.cpp:144-185).
ReadsOn ==
    \A e \in Ends, k \in 1 .. Room :
        inset[e] /\ wire[e] = k
            ~> wire[e] # k \/ life[e] = "closed" \/ [](Free(e) < MsgSz)

\* An end that is in an epoll set learns of a reset in whatever it is doing, and
\* closes its socket (iEpoll.cpp:62-88), unless recvn spins on the end of file that
\* came before the reset.
Notices ==
    \A e \in Ends : inset[e] /\ IsReset(e) ~> life[e] = "closed" \/ SpinsAtEnd(e)
=============================================================================
