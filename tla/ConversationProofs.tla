------------------------- MODULE ConversationProofs -------------------------
(* Theorems about Conversation, for messages and buffers of every size, for  *)
(* both clients, with and without pressure and interruptions.                *)
EXTENDS Conversation, TLAPS

-----------------------------------------------------------------------------
(* Types. *)

LEMMA EndsAndPeers ==
    ASSUME NEW e \in Ends
    PROVE  Peer(e) \in Ends /\ Peer(e) # e /\ Peer(Peer(e)) = e
           /\ \A x \in Ends : x = e \/ x = Peer(e)
BY DEF Ends, Peer

LEMMA FreeRange ==
    ASSUME TypeOK, NEW e \in Ends
    PROVE  Free(e) \in 0 .. Room
BY EndsAndPeers, SizesAssumption DEF TypeOK, Free

LEMMA PollType ==
    ASSUME NEW e, NEW m, NEW h
    PROVE  Poll(e, m, h) \in SUBSET {"IN", "OUT", "ERR"}
BY DEF Poll

LEMMA TypeInit == Init => TypeOK
<1> SUFFICES ASSUME Init PROVE TypeOK
    OBVIOUS
<1>1. mode \in [Ends -> {"READ", "WRITE"}]
    BY DEF Init, Ends
<1>2. pc \in [Ends -> {"none", "wait", "recv", "send", "mod", "del", "close", "done"}]
    <2>1. CASE who = "test"
        BY <2>1 DEF Init, Ends
    <2>2. CASE who # "test"
        BY <2>2 DEF Init, Ends
    <2> QED BY <2>1, <2>2
<1>3. /\ life \in [Ends -> {"none", "backlog", "open", "closed"}]
      /\ heard \in [Ends -> {"up", "fin", "rst", "dead"}]
      /\ wire \in [Ends -> 0 .. Room]
    BY SizesAssumption DEF Init
<1>4. /\ inset \in [Ends -> BOOLEAN] /\ rdhup \in [Ends -> BOOLEAN]
      /\ ready \in [Ends -> BOOLEAN]
    BY DEF Init
<1>5. /\ ev \in [Ends -> SUBSET {"IN", "OUT", "ERR"}]
      /\ n \in [Ends -> 0 .. BufSz]
      /\ errno \in [Ends -> {"EINTR", "other"}]
    BY SizesAssumption DEF Init
<1>6. who \in Peers /\ split \in BOOLEAN
    BY DEF Init
<1> QED BY <1>1, <1>2, <1>3, <1>4, <1>5, <1>6 DEF TypeOK

LEMMA TypeThread ==
    ASSUME TypeOK, NEW e \in Ends, Thread(e) \/ Interrupted(e) \/ RstArrives(e)
    PROVE  TypeOK'
<1> USE SizesAssumption DEF TypeOK
<1>0. Free(e) \in 0 .. Room /\ Peer(e) \in Ends
    BY FreeRange, EndsAndPeers
<1>1. CASE i_epoll_wait(e)
    BY <1>1, PollType DEF i_epoll_wait, sockVars
<1>2. CASE RecvSome(e)
    BY <1>0, <1>2 DEF RecvSome, RestOfBuffer, Take, Edge, AfterIo
<1>3. CASE RecvNone(e)
    BY <1>3 DEF RecvNone, AfterRecv, AfterIo, epollVars
<1>4. CASE SendSome(e)
    <2>0. PICK most \in 0 .. n[e] :
              most <= Free(e) /\ most = IF Free(e) < n[e] THEN Free(e) ELSE n[e]
        BY <1>0
    <2>1. PICK k \in 1 .. most :
              /\ Give(e, k)
              /\ n' = [n EXCEPT ![e] = @ - k]
              /\ split' = (split \/ k < n[e])
              /\ pc' = [pc EXCEPT ![e] = IF n[e] = k THEN AfterIo(MsgSz) ELSE "send"]
        BY <1>4, <2>0 DEF SendSome
    <2>2. wire' \in [Ends -> 0 .. Room] /\ ready' \in [Ends -> BOOLEAN]
        BY <1>0, <2>0, <2>1 DEF Give, Edge, Free
    <2>3. n' \in [Ends -> 0 .. BufSz]
        BY <2>0, <2>1
    <2>4. /\ split' \in BOOLEAN
          /\ pc' \in [Ends -> {"none", "wait", "recv", "send", "mod", "del", "close", "done"}]
        BY <2>1 DEF AfterIo
    <2> QED BY <1>4, <2>2, <2>3, <2>4 DEF SendSome
<1>5. CASE SendNone(e)
    BY <1>5 DEF SendNone, AfterIo, epollVars
<1>6. CASE i_epoll_change_mode(e)
    BY <1>6 DEF i_epoll_change_mode, OtherMode, sockVars
<1>7. CASE iClose(e)
    <2>1. CASE EpollDel(e)
        BY <2>1 DEF EpollDel, sockVars
    <2>2. CASE Close(e)
        BY <2>2 DEF Close, CloseSocket
    <2> QED BY <1>7, <2>1, <2>2 DEF iClose
<1>8. CASE Interrupted(e)
    BY <1>8 DEF Interrupted, sockVars, epollVars
<1>9. CASE RstArrives(e)
    BY <1>9 DEF RstArrives, Edge, threadVars
<1> QED BY <1>1, <1>2, <1>3, <1>4, <1>5, <1>6, <1>7, <1>8, <1>9 DEF Thread, recvn, sendn

LEMMA TypeOthers ==
    ASSUME TypeOK,
           \/ Connect \/ Listen \/ Refuse \/ AddEpollEvents \/ Quit \/ Stranger
           \/ UNCHANGED vars
    PROVE  TypeOK'
<1> USE SizesAssumption DEF TypeOK
<1>0. /\ Free("client") \in 0 .. Room /\ Peer("client") = "server" /\ Peer("server") = "client"
      /\ "client" \in Ends /\ "server" \in Ends
    BY FreeRange DEF Ends, Peer
<1>1. CASE Connect
    BY <1>1 DEF Connect, Ends, epollVars, threadVars
<1>2. CASE Listen
    BY <1>0, <1>2 DEF Listen, EpollAdd, threadVars
<1>3. CASE Refuse
    BY <1>0, <1>3 DEF Refuse, CloseSocket
<1>4. CASE AddEpollEvents
    BY <1>0, <1>4 DEF AddEpollEvents, EpollAdd, TestMode, sockVars, threadVars
<1>5. CASE Quit
    BY <1>0, <1>5 DEF Quit, CloseSocket
<1>6. CASE StrangerSends
    BY <1>0, <1>6 DEF StrangerSends, Give, Edge, Free, threadVars
<1>7. CASE StrangerReads
    BY <1>0, <1>7 DEF StrangerReads, Take, Edge, threadVars
<1>8. CASE StrangerShuts
    BY <1>0, <1>8 DEF StrangerShuts, Edge, threadVars
<1>9. CASE StrangerLeaves
    BY <1>0, <1>9 DEF StrangerLeaves, CloseSocket, threadVars
<1>10. CASE UNCHANGED vars
    BY <1>10 DEF vars, sockVars, epollVars, threadVars
<1> QED BY <1>1, <1>2, <1>3, <1>4, <1>5, <1>6, <1>7, <1>8, <1>9, <1>10 DEF Stranger

LEMMA TypeNext == TypeOK /\ [Next]_vars => TypeOK'
BY TypeThread, TypeOthers DEF Next, Network

\* No buffer overflows, no wait is for more than a buffer, no mode is both.
THEOREM TypeCorrect == Spec => []TypeOK
BY TypeInit, TypeNext, PTL DEF Spec

-----------------------------------------------------------------------------
(* Partial sends. *)

LEMMA WholeStep ==
    ASSUME TypeOK, [Next]_vars, NEW e \in Ends, pc[e] = "send", n[e] \in 1 .. MsgSz - 1
    PROVE  pc'[e] # "mod" \/ n'[e] = 0
<1> USE DEF TypeOK
<1>1. ASSUME NEW x \in Ends, Thread(x) \/ Interrupted(x) \/ RstArrives(x)
      PROVE  pc'[e] # "mod" \/ n'[e] = 0
    <2>1. CASE x = e /\ SendSome(e)
        BY <2>1 DEF SendSome
    <2>2. CASE x = e /\ SendNone(e)
        BY <2>2 DEF SendNone, AfterIo, Failed, SendFailure
    <2>3. CASE x # e \/ ~sendn(x)
        <3>1. pc'[e] = pc[e]
            BY <1>1, <2>3 DEF Thread, i_epoll_wait, recvn, RecvSome, RecvNone, sendn, SendSome,
               SendNone, i_epoll_change_mode, iClose, EpollDel, Close, Interrupted, RstArrives,
               threadVars
        <3> QED BY <3>1
    <2> QED BY <2>1, <2>2, <2>3 DEF sendn
<1>2. ASSUME \/ Connect \/ Listen \/ Refuse \/ AddEpollEvents \/ Quit \/ Stranger
             \/ UNCHANGED vars
      PROVE  pc'[e] # "mod"
    <2>1. CASE Refuse \/ Quit
        BY <2>1 DEF Refuse, Quit
    <2>2. CASE pc' = pc
        BY <2>2
    <2> QED BY <1>2, <2>1, <2>2 DEF Connect, Listen, AddEpollEvents, Stranger, StrangerSends,
               StrangerReads, StrangerShuts, StrangerLeaves, vars, threadVars
<1> QED BY <1>1, <1>2 DEF Next, Network

\* A message of any size, taken in any pieces, is finished or is the last
\* (iSocket.cpp:194-217).
THEOREM RepliesWhole == Spec => WholeReplies
<1>1. TypeOK /\ [Next]_vars =>
        [\A e \in Ends :
            pc[e] = "send" /\ n[e] \in 1 .. MsgSz - 1 => pc'[e] # "mod" \/ n'[e] = 0]_vars
    BY WholeStep
<1> QED BY <1>1, TypeCorrect, PTL DEF Spec, WholeReplies

-----------------------------------------------------------------------------
(* The word. *)

\* Whether an end with mode m, at p, with k bytes to go has the word (HasWord), and
\* may still use it.
Word(m, p, k) ==
    /\ IF m = "WRITE" THEN p # "mod" ELSE p = "mod" \/ (p = "recv" /\ k < BufSz)
    /\ p \notin {"del", "close", "done"}

Holds(e) == Word(mode[e], pc[e], n[e])

\* What the sockets have been through, in the order of main and ListenThread.
Ordered ==
    /\ life["client"] = "none" => life["server"] = "none"
    /\ life["server"] \in {"none", "backlog"} => pc["server"] = "wait" /\ ~inset["server"]
    /\ \A e \in Ends : pc[e] = "done" => life[e] = "closed"

\* Where the threads are: an end begins in its own mode.
Phases ==
    \A e \in Ends :
        /\ pc[e] # "none"
        /\ ~inset[e] => pc[e] \in {"wait", "close", "done"}
        /\ ~inset[e] /\ pc[e] = "wait" => mode[e] = IF e = "server" THEN "WRITE" ELSE "READ"
        /\ pc[e] = "recv" => mode[e] = "READ"
        /\ pc[e] = "send" => mode[e] = "WRITE"

\* One message at a time, no more of it than was sent.
Bytes ==
    \A e \in Ends :
        /\ wire[e] <= MsgSz
        /\ pc[e] = "send" => n[e] = MsgSz
        /\ pc[e] \in {"recv", "mod"} /\ mode[e] = "READ" => n[e] >= BufSz - MsgSz

\* Never two at once.
OneWord ==
    \A e \in Ends :
        /\ Holds(e) => ~Holds(Peer(e)) /\ wire[e] = 0
        /\ wire[e] > 0 => wire[Peer(e)] = 0 /\ ~Holds(Peer(e))

\* And always one, until it is over.
SomeWord == Over \/ \E e \in Ends : Holds(e) \/ wire[e] = MsgSz

TInv ==
    /\ TypeOK /\ Ordered
    /\ who = "test" => Phases
    /\ who = "test" /\ ~split => Bytes /\ OneWord /\ SomeWord

LEMMA TInvInit == Init => TInv
<1> SUFFICES ASSUME Init PROVE TInv
    OBVIOUS
<1>1. TypeOK /\ Ordered
    BY TypeInit, SizesAssumption DEF Init, Ordered, Ends
<1>2. ASSUME who = "test" PROVE Phases
    BY <1>2 DEF Init, Phases, Ends
<1>3. ASSUME who = "test" PROVE Bytes /\ OneWord /\ SomeWord
    <2>1. /\ mode["server"] = "WRITE" /\ pc["server"] = "wait"
          /\ mode["client"] = "READ" /\ pc["client"] = "wait"
          /\ wire = [e \in Ends |-> 0]
        BY <1>3 DEF Init
    <2>2. Holds("server") /\ ~Holds("client")
        BY <2>1 DEF Holds, Word
    <2>3. /\ "server" \in Ends /\ Peer("server") = "client"
          /\ "client" \in Ends /\ Peer("client") = "server"
          /\ \A e \in Ends : e = "server" \/ e = "client"
        BY DEF Ends, Peer
    <2>4. Bytes
        BY <2>1, <2>3, SizesAssumption DEF Bytes
    <2>5. OneWord /\ SomeWord
        BY <2>1, <2>2, <2>3 DEF OneWord, SomeWord
    <2> QED BY <2>4, <2>5
<1> QED BY <1>1, <1>2, <1>3 DEF TInv

\* The set-up goes one way, at either end.
LEMMA OrderedNext ==
    ASSUME TypeOK, Ordered, [Next]_vars
    PROVE  Ordered'
<1> USE DEF TypeOK, Ordered
<1>0. "server" \in Ends /\ "client" \in Ends /\ "server" # "client"
    BY DEF Ends
<1>1. ASSUME NEW e \in Ends, Thread(e) \/ Interrupted(e) \/ RstArrives(e)
      PROVE  Ordered'
    <2>1. CASE i_epoll_wait(e)
        BY <1>0, <2>1 DEF i_epoll_wait, sockVars
    <2>2. CASE RecvSome(e)
        BY <1>0, <2>2 DEF RecvSome, AfterIo
    <2>3. CASE RecvNone(e)
        BY <1>0, <2>3 DEF RecvNone, AfterIo, epollVars
    <2>4. CASE SendSome(e)
        BY <1>0, <2>4 DEF SendSome, AfterIo
    <2>5. CASE SendNone(e)
        BY <1>0, <2>5 DEF SendNone, AfterIo, epollVars
    <2>6. CASE i_epoll_change_mode(e)
        BY <1>0, <2>6 DEF i_epoll_change_mode, sockVars
    <2>7. CASE EpollDel(e)
        BY <1>0, <2>7 DEF EpollDel, sockVars
    <2>8. CASE Close(e)
        BY <1>0, <2>8 DEF Close, CloseSocket
    <2>9. CASE Interrupted(e)
        BY <2>9 DEF Interrupted, sockVars, epollVars
    <2>10. CASE RstArrives(e)
        BY <2>10 DEF RstArrives, threadVars
    <2> QED BY <1>1, <2>1, <2>2, <2>3, <2>4, <2>5, <2>6, <2>7, <2>8, <2>9, <2>10
            DEF Thread, recvn, sendn, iClose
<1>2. CASE Connect
    <2>1. /\ life'["server"] = "backlog" /\ life'["client"] = "open"
          /\ life["client"] = "none" /\ UNCHANGED <<inset, pc>>
        BY <1>2 DEF Connect, epollVars, threadVars
    <2>2. \A e \in Ends : pc[e] # "done"
        BY <2>1 DEF Ends
    <2> QED BY <2>1, <2>2
<1>3. CASE Listen
    BY <1>0, <1>3 DEF Listen, EpollAdd, threadVars
<1>4. CASE Refuse
    BY <1>0, <1>4 DEF Refuse, CloseSocket
<1>5. CASE AddEpollEvents
    BY <1>0, <1>5 DEF AddEpollEvents, EpollAdd, sockVars, threadVars
<1>6. CASE Quit
    BY <1>0, <1>6 DEF Quit, CloseSocket
<1>7. CASE Stranger
    <2>1. CASE StrangerLeaves
        BY <1>0, <2>1 DEF StrangerLeaves, StrangerHolds, CloseSocket, threadVars
    <2>2. CASE StrangerSends \/ StrangerReads \/ StrangerShuts
        BY <2>2 DEF StrangerSends, StrangerReads, StrangerShuts, threadVars
    <2> QED BY <1>7, <2>1, <2>2 DEF Stranger
<1>8. CASE UNCHANGED vars
    BY <1>8 DEF vars, sockVars, epollVars, threadVars
<1> QED BY <1>1, <1>2, <1>3, <1>4, <1>5, <1>6, <1>7, <1>8 DEF Next, Network

\* A thread is in a handler of its mode, and has a socket to be in it for.
LEMMA PhasesNext ==
    ASSUME TypeOK, Ordered, who = "test", Phases, [Next]_vars
    PROVE  Phases'
<1> USE DEF TypeOK, Phases
<1>0. "server" \in Ends /\ "client" \in Ends /\ "server" # "client"
    BY DEF Ends
<1>1. ASSUME NEW e \in Ends, Thread(e) \/ Interrupted(e) \/ RstArrives(e)
      PROVE  Phases'
    <2>1. CASE i_epoll_wait(e)
        <3>1. /\ pc[e] = "wait" /\ inset[e] /\ inset' = inset /\ mode' = mode
              /\ pc' = [pc EXCEPT ![e] = pc'[e]] /\ pc'[e] \in {"recv", "send", "del"}
              /\ pc'[e] = "recv" => mode[e] = "READ"
              /\ pc'[e] = "send" => mode[e] = "WRITE"
            BY <2>1 DEF i_epoll_wait, Poll
        <3> QED BY <3>1
    <2>2. CASE RecvSome(e)
        BY <2>2 DEF RecvSome, Take, Edge, AfterIo
    <2>3. CASE RecvNone(e)
        BY <2>3 DEF RecvNone, AfterIo, epollVars
    <2>4. CASE SendSome(e)
        BY <2>4 DEF SendSome, AfterIo
    <2>5. CASE SendNone(e)
        BY <2>5 DEF SendNone, AfterIo, epollVars
    <2>6. CASE i_epoll_change_mode(e)
        BY <2>6 DEF i_epoll_change_mode, OtherMode
    <2>7. CASE EpollDel(e)
        BY <2>7 DEF EpollDel
    <2>8. CASE Close(e)
        BY <2>8 DEF Close, CloseSocket
    <2>9. CASE Interrupted(e)
        BY <2>9 DEF Interrupted, epollVars
    <2>10. CASE RstArrives(e)
        BY <2>10 DEF RstArrives, threadVars
    <2> QED BY <1>1, <2>1, <2>2, <2>3, <2>4, <2>5, <2>6, <2>7, <2>8, <2>9, <2>10
            DEF Thread, recvn, sendn, iClose
<1>2. CASE Listen
    <2>1. pc["server"] = "wait"
        BY <1>2 DEF Listen, Ordered
    <2> QED BY <1>0, <1>2, <2>1 DEF Listen, EpollAdd, threadVars
<1>3. CASE Refuse
    BY <1>0, <1>3 DEF Refuse, CloseSocket
<1>4. CASE AddEpollEvents
    BY <1>0, <1>4 DEF AddEpollEvents, EpollAdd, TestMode, threadVars
<1>5. CASE Quit
    BY <1>0, <1>5 DEF Quit, CloseSocket
<1>6. CASE Connect \/ UNCHANGED vars
    BY <1>6 DEF Connect, vars, epollVars, threadVars
<1>7. CASE Stranger
    BY <1>7 DEF Stranger, StrangerSends, StrangerReads, StrangerShuts, StrangerLeaves,
                StrangerHolds
<1> QED BY <1>1, <1>2, <1>3, <1>4, <1>5, <1>6, <1>7 DEF Next, Network

-----------------------------------------------------------------------------
(* What a step does to the word and the bytes.  Everything but a message     *)
(* that is sent or taken in leaves both alone, or ends the talk.             *)

HoldsNext(e) == Word(mode'[e], pc'[e], n'[e])

Shrinks ==
    /\ \A e \in Ends : (HoldsNext(e) => Holds(e)) /\ wire'[e] <= wire[e]
    /\ Over' \/ (wire' = wire /\ \A e \in Ends : HoldsNext(e) = Holds(e))

Hears(e) ==
    /\ wire[e] > 0 /\ wire'[e] = 0 /\ wire'[Peer(e)] = wire[Peer(e)]
    /\ HoldsNext(e) /\ (HoldsNext(Peer(e)) => Holds(Peer(e)))

Speaks(e) ==
    /\ Holds(e) /\ ~HoldsNext(e) /\ (HoldsNext(Peer(e)) => Holds(Peer(e)))
    /\ wire'[e] = wire[e]
    /\ \/ wire'[Peer(e)] = wire[Peer(e)] + MsgSz
       \/ wire'[Peer(e)] = wire[Peer(e)] /\ Over'

\* What is over stays so.
LEMMA OverStays ==
    ASSUME TypeOK, Ordered, Over, [Next]_vars
    PROVE  Over'
<1> USE DEF TypeOK
<1>0. "server" \in Ends /\ "client" \in Ends
    BY DEF Ends
<1>1. who' = who /\ (split => split')
    BY DEF Next, Network, Thread, recvn, sendn, iClose, Connect, Listen, Refuse, AddEpollEvents,
           RstArrives, i_epoll_wait, Interrupted, RecvSome, RecvNone, SendSome, SendNone,
           i_epoll_change_mode, EpollDel, Close, Quit, Stranger, StrangerSends, StrangerReads,
           StrangerShuts, StrangerLeaves, vars
<1>2. ASSUME NEW e \in Ends, life[e] = "closed" PROVE life'[e] = "closed"
    <2>1. life' = life \/ (\E x \in Ends : CloseSocket(x)) \/ Connect \/ Listen
        BY <1>0 DEF Next, Network, Thread, recvn, sendn, iClose, Refuse, AddEpollEvents,
           RstArrives, i_epoll_wait, Interrupted, RecvSome, RecvNone, SendSome, SendNone,
           i_epoll_change_mode, EpollDel, Close, Quit, Stranger, StrangerSends, StrangerReads,
           StrangerShuts, StrangerLeaves, vars, sockVars
    <2>2. CASE life' = life \/ \E x \in Ends : CloseSocket(x)
        BY <1>2, <2>2 DEF CloseSocket
    <2>3. CASE Connect
        BY <1>2, <2>3 DEF Connect, Ordered, Ends
    <2>4. CASE Listen
        BY <1>0, <1>2, <2>4 DEF Listen
    <2> QED BY <2>1, <2>2, <2>3, <2>4
<1>3. ASSUME NEW e \in Ends, pc[e] \in {"del", "close"}
      PROVE  pc'[e] \in {"del", "close"} \/ life'[e] = "closed"
    <2>1. ASSUME NEW x \in Ends, Thread(x) \/ Interrupted(x) \/ RstArrives(x)
          PROVE  pc'[e] \in {"del", "close"} \/ life'[e] = "closed"
        <3>1. CASE Close(x)
            BY <1>3, <3>1 DEF Close, CloseSocket
        <3>2. CASE EpollDel(x)
            BY <1>3, <3>2 DEF EpollDel
        <3>3. CASE ~iClose(x)
            <4>1. pc' = pc \/ (x # e /\ pc' = [pc EXCEPT ![x] = pc'[x]])
                BY <1>3, <2>1, <3>3 DEF Thread, i_epoll_wait, recvn, RecvSome, RecvNone, sendn,
                   SendSome, SendNone, i_epoll_change_mode, Interrupted, RstArrives, threadVars
            <4> QED BY <1>3, <4>1
        <3> QED BY <3>1, <3>2, <3>3 DEF iClose
    <2>2. CASE Refuse
        BY <1>0, <1>3, <2>2 DEF Refuse, CloseSocket
    <2>3. CASE Quit
        BY <1>0, <1>3, <2>3 DEF Quit, CloseSocket
    <2>4. CASE pc' = pc
        BY <1>3, <2>4
    <2> QED BY <2>1, <2>2, <2>3, <2>4 DEF Next, Network, Connect, Listen, AddEpollEvents,
               Stranger, StrangerSends, StrangerReads, StrangerShuts, StrangerLeaves, vars,
               threadVars
<1> QED BY <1>1, <1>2, <1>3 DEF Over

\* The part of Bytes that is about a thread's own loop.
Loops ==
    \A e \in Ends :
        /\ pc[e] = "send" => n[e] = MsgSz
        /\ pc[e] \in {"recv", "mod"} /\ mode[e] = "READ" => n[e] >= BufSz - MsgSz

LEMMA ThreadWord ==
    ASSUME TypeOK, Phases, Bytes, OneWord, ~split', NEW e \in Ends,
           Thread(e) \/ Interrupted(e) \/ RstArrives(e)
    PROVE  (Shrinks \/ Hears(e) \/ Speaks(e)) /\ Loops'
<1> USE SizesAssumption DEF TypeOK
<1>0. Peer(e) \in Ends /\ Peer(e) # e /\ \A x \in Ends : x = e \/ x = Peer(e)
    BY EndsAndPeers
<1>1. Loops
    BY DEF Bytes, Loops
<1>2. CASE i_epoll_wait(e)
    <2>1. /\ pc[e] = "wait" /\ wire' = wire /\ mode' = mode
          /\ pc' = [pc EXCEPT ![e] = pc'[e]] /\ n' = [n EXCEPT ![e] = n'[e]]
          /\ \/ pc'[e] = "recv" /\ mode[e] = "READ" /\ n'[e] = BufSz
             \/ pc'[e] = "send" /\ mode[e] = "WRITE" /\ n'[e] = MsgSz
             \/ pc'[e] = "del"
        BY <1>2 DEF i_epoll_wait, Poll, sockVars
    <2>2. \A x \in Ends : x # e => pc'[x] = pc[x] /\ n'[x] = n[x] /\ mode'[x] = mode[x]
        BY <2>1
    <2>3. Shrinks
        BY <2>1, <2>2 DEF Shrinks, Holds, HoldsNext, Word, Over
    <2>4. Loops'
        BY <1>1, <2>1, <2>2 DEF Loops
    <2> QED BY <2>3, <2>4
<1>3. CASE RecvSome(e)
    <2>1. PICK k \in Nat :
              /\ k > 0 /\ k = IF wire[e] < n[e] THEN wire[e] ELSE n[e]
              /\ wire' = [wire EXCEPT ![e] = @ - k]
              /\ n' = [n EXCEPT ![e] = @ - k]
              /\ pc' = [pc EXCEPT ![e] = IF n[e] = k THEN AfterIo(BufSz) ELSE "recv"]
        <3>1. PICK k \in Nat : k = IF wire[e] < n[e] THEN wire[e] ELSE n[e]
            OBVIOUS
        <3> QED BY <1>3, <3>1 DEF RecvSome, RestOfBuffer, Take
    <2>2. pc[e] = "recv" /\ mode[e] = "READ" /\ mode' = mode
        BY <1>3 DEF RecvSome, Phases
    <2>3. wire[e] > 0 /\ wire[e] <= MsgSz
        BY <2>1 DEF Bytes
    <2>4. ~Holds(e)
        BY <2>3 DEF OneWord
    <2>5. n[e] = BufSz
        BY <2>2, <2>4 DEF Holds, Word
    <2>6. k = wire[e] /\ k < BufSz
        BY <2>1, <2>3, <2>5
    <2>7. /\ wire'[e] = 0 /\ n'[e] = BufSz - k /\ pc'[e] = "recv"
          /\ \A x \in Ends : x # e => pc'[x] = pc[x] /\ n'[x] = n[x] /\ wire'[x] = wire[x]
        BY <2>1, <2>5, <2>6
    <2>8. Hears(e)
        BY <1>0, <2>1, <2>2, <2>3, <2>6, <2>7 DEF Hears, HoldsNext, Holds, Word
    <2>9. Loops'
        BY <1>1, <2>2, <2>3, <2>6, <2>7 DEF Loops
    <2> QED BY <2>8, <2>9
<1>4. CASE RecvNone(e)
    <2>1. /\ pc[e] = "recv" /\ mode[e] = "READ" /\ mode' = mode /\ n' = n /\ wire' = wire
          /\ pc' = [pc EXCEPT ![e] = IF BufSz - n[e] <= 0 THEN "del" ELSE "mod"]
        BY <1>4 DEF RecvNone, AfterIo, Failed, Phases, epollVars
    <2>2. \A x \in Ends : x # e => pc'[x] = pc[x]
        BY <2>1
    <2>3. Shrinks
        BY <2>1, <2>2 DEF Shrinks, Holds, HoldsNext, Word, Over
    <2>4. Loops'
        BY <1>1, <2>1, <2>2 DEF Loops
    <2> QED BY <2>3, <2>4
<1>5. CASE SendSome(e)
    <2>0. PICK most \in 0 .. n[e] : most = IF Free(e) < n[e] THEN Free(e) ELSE n[e]
        BY FreeRange
    <2>1. PICK k \in 1 .. most :
              /\ Give(e, k)
              /\ n' = [n EXCEPT ![e] = @ - k]
              /\ split' = (split \/ k < n[e])
              /\ pc' = [pc EXCEPT ![e] = IF n[e] = k THEN AfterIo(MsgSz) ELSE "send"]
        BY <1>5, <2>0 DEF SendSome
    <2>2. pc[e] = "send" /\ mode[e] = "WRITE" /\ mode' = mode /\ life' = life /\ n[e] = MsgSz
        BY <1>5 DEF SendSome, Phases, Bytes
    <2>3. k = MsgSz
        <3>1. ~(k < n[e])
            BY <2>1, Zenon
        <3>2. k <= n[e] /\ k \in Nat
            BY <2>0, <2>1
        <3> QED BY <2>2, <3>1, <3>2
    <2>4. /\ pc'[e] = "mod"
          /\ \A x \in Ends : x # e => pc'[x] = pc[x] /\ n'[x] = n[x]
        BY <2>1, <2>2, <2>3 DEF AfterIo, Failed
    <2>5. /\ wire'[e] = wire[e]
          /\ \/ wire'[Peer(e)] = wire[Peer(e)] + MsgSz
             \/ wire'[Peer(e)] = wire[Peer(e)] /\ life[Peer(e)] = "closed"
        BY <1>0, <2>1, <2>3 DEF Give
    <2>6. Speaks(e)
        BY <1>0, <2>2, <2>4, <2>5 DEF Speaks, Holds, HoldsNext, Word, Over
    <2>7. Loops'
        BY <1>1, <2>2, <2>4 DEF Loops
    <2> QED BY <2>6, <2>7
<1>6. CASE SendNone(e)
    <2>1. /\ pc[e] = "send" /\ mode' = mode /\ n' = n /\ wire' = wire
          /\ pc' = [pc EXCEPT ![e] = "del"]
        BY <1>6 DEF SendNone, AfterIo, Failed, SendFailure, epollVars
    <2>2. Shrinks
        BY <2>1 DEF Shrinks, Holds, HoldsNext, Word, Over
    <2>3. Loops'
        BY <1>1, <2>1 DEF Loops
    <2> QED BY <2>2, <2>3
<1>7. CASE i_epoll_change_mode(e)
    <2>1. /\ pc[e] = "mod" /\ n' = n /\ wire' = wire
          /\ mode' = [mode EXCEPT ![e] = IF mode[e] = "READ" THEN "WRITE" ELSE "READ"]
          /\ pc' = [pc EXCEPT ![e] = pc'[e]] /\ pc'[e] \in {"del", "wait"}
        BY <1>7 DEF i_epoll_change_mode, OtherMode, sockVars
    <2>2. \A x \in Ends : x # e => pc'[x] = pc[x] /\ mode'[x] = mode[x]
        BY <2>1
    <2>3. Shrinks
        BY <2>1, <2>2 DEF Shrinks, Holds, HoldsNext, Word, Over
    <2>4. Loops'
        BY <1>1, <2>1, <2>2 DEF Loops
    <2> QED BY <2>3, <2>4
<1>8. CASE EpollDel(e)
    <2>1. /\ pc[e] = "del" /\ mode' = mode /\ n' = n /\ wire' = wire
          /\ pc' = [pc EXCEPT ![e] = "close"]
        BY <1>8 DEF EpollDel, sockVars
    <2>2. Shrinks
        BY <2>1 DEF Shrinks, Holds, HoldsNext, Word, Over
    <2>3. Loops'
        BY <1>1, <2>1 DEF Loops
    <2> QED BY <2>2, <2>3
<1>9. CASE Close(e)
    <2>1. /\ pc[e] = "close" /\ mode' = mode /\ n' = n /\ wire' = [wire EXCEPT ![e] = 0]
          /\ pc' = [pc EXCEPT ![e] = "done"] /\ life'[e] = "closed"
        BY <1>9 DEF Close, CloseSocket
    <2>2. Shrinks
        BY <2>1 DEF Shrinks, Holds, HoldsNext, Word, Over
    <2>3. Loops'
        BY <1>1, <2>1 DEF Loops
    <2> QED BY <2>2, <2>3
<1>10. CASE Interrupted(e)
    <2>1. UNCHANGED <<pc, mode, n, wire>>
        BY <1>10 DEF Interrupted, sockVars, epollVars
    <2> QED BY <1>1, <2>1 DEF Shrinks, Holds, HoldsNext, Loops
<1>11. CASE RstArrives(e)
    <2>1. /\ UNCHANGED <<pc, mode, n, life>> /\ life[Peer(e)] = "closed"
          /\ \E k \in 0 .. wire[e] : wire' = [wire EXCEPT ![e] = k]
        BY <1>11 DEF RstArrives, threadVars
    <2>2. Shrinks
        BY <1>0, <2>1 DEF Shrinks, Holds, HoldsNext, Over
    <2> QED BY <1>1, <2>1, <2>2 DEF Loops
<1> QED BY <1>2, <1>3, <1>4, <1>5, <1>6, <1>7, <1>8, <1>9, <1>10, <1>11
        DEF Thread, recvn, sendn, iClose

LEMMA OthersWord ==
    ASSUME TypeOK, Ordered, who = "test", Phases, Bytes,
           \/ Connect \/ Listen \/ Refuse \/ AddEpollEvents \/ Quit \/ Stranger
           \/ UNCHANGED vars
    PROVE  Shrinks /\ Loops'
<1> USE DEF TypeOK
<1>0. /\ "server" \in Ends /\ "client" \in Ends /\ "server" # "client"
      /\ \A x \in Ends : x = "server" \/ x = "client"
    BY DEF Ends
<1>1. Loops
    BY DEF Bytes, Loops
<1>2. CASE UNCHANGED <<pc, n, wire, mode>>
    BY <1>1, <1>2 DEF Shrinks, Holds, HoldsNext, Loops
<1>3. CASE Connect \/ UNCHANGED vars
    BY <1>2, <1>3 DEF Connect, vars, sockVars, epollVars, threadVars
<1>4. CASE Listen
    <2>1. mode["server"] = "WRITE"
        BY <1>0, <1>4 DEF Listen, Ordered, Phases
    <2>2. mode' = mode
        BY <1>0, <1>4, <2>1 DEF Listen, EpollAdd
    <2> QED BY <1>2, <1>4, <2>2 DEF Listen, threadVars
<1>5. CASE AddEpollEvents
    <2>1. mode["client"] = "READ"
        BY <1>0, <1>5 DEF AddEpollEvents, Phases
    <2>2. mode' = mode
        BY <1>0, <1>5, <2>1 DEF AddEpollEvents, EpollAdd, TestMode
    <2> QED BY <1>2, <1>5, <2>2 DEF AddEpollEvents, sockVars, threadVars
<1>6. ASSUME NEW x \in Ends, CloseSocket(x), pc' = [pc EXCEPT ![x] = "done"], n' = n
      PROVE  Shrinks /\ Loops'
    <2>1. /\ mode' = mode /\ wire' = [wire EXCEPT ![x] = 0] /\ life'[x] = "closed"
        BY <1>6 DEF CloseSocket
    <2>2. Shrinks
        BY <1>6, <2>1 DEF Shrinks, Holds, HoldsNext, Word, Over
    <2>3. Loops'
        BY <1>1, <1>6, <2>1 DEF Loops
    <2> QED BY <2>2, <2>3
<1>7. CASE Refuse
    BY <1>0, <1>6, <1>7 DEF Refuse
<1>8. CASE Quit
    BY <1>0, <1>6, <1>8 DEF Quit
<1>9. CASE Stranger
    BY <1>9 DEF Stranger, StrangerSends, StrangerReads, StrangerShuts, StrangerLeaves,
                StrangerHolds
<1> QED BY <1>3, <1>4, <1>5, <1>7, <1>8, <1>9

LEMMA StepWord ==
    ASSUME TInv, who = "test", ~split', [Next]_vars
    PROVE  /\ ~split /\ Loops'
           /\ Shrinks \/ \E e \in Ends : Hears(e) \/ Speaks(e)
<1>1. ~split
    BY DEF Next, Network, Thread, recvn, sendn, iClose, Connect, Listen, Refuse, AddEpollEvents,
           RstArrives, i_epoll_wait, Interrupted, RecvSome, RecvNone, SendSome, SendNone,
           i_epoll_change_mode, EpollDel, Close, Quit, Stranger, StrangerSends, StrangerReads,
           StrangerShuts, StrangerLeaves, vars
<1>2. TypeOK /\ Ordered /\ Phases /\ Bytes /\ OneWord
    BY <1>1 DEF TInv
<1>3. ASSUME NEW e \in Ends, Thread(e) \/ Interrupted(e) \/ RstArrives(e)
      PROVE  (Shrinks \/ Hears(e) \/ Speaks(e)) /\ Loops'
    BY <1>2, <1>3, ThreadWord
<1>4. ASSUME \/ Connect \/ Listen \/ Refuse \/ AddEpollEvents \/ Quit \/ Stranger
             \/ UNCHANGED vars
      PROVE  Shrinks /\ Loops'
    BY <1>2, <1>4, OthersWord
<1> QED BY <1>1, <1>3, <1>4 DEF Next, Network

\* One word is kept by every kind of step.
LEMMA WordKept ==
    ASSUME TypeOK, TypeOK', Bytes, OneWord, SomeWord, Loops', Over => Over',
           Shrinks \/ \E e \in Ends : Hears(e) \/ Speaks(e)
    PROVE  Bytes' /\ OneWord' /\ SomeWord'
<1> USE SizesAssumption DEF TypeOK
<1>0. \A e \in Ends : Peer(e) \in Ends /\ Peer(e) # e /\ Peer(Peer(e)) = e
          /\ \A x \in Ends : x = e \/ x = Peer(e)
    BY EndsAndPeers
<1>1. /\ \A e \in Ends : wire[e] <= MsgSz /\ wire[e] \in Nat /\ wire'[e] \in Nat
      /\ \A e \in Ends : Holds(e) => ~Holds(Peer(e)) /\ wire[e] = 0
      /\ \A e \in Ends : wire[e] > 0 => wire[Peer(e)] = 0 /\ ~Holds(Peer(e))
      /\ Over \/ \E e \in Ends : Holds(e) \/ wire[e] = MsgSz
    BY DEF Bytes, OneWord, SomeWord
<1>2. SUFFICES
        /\ \A e \in Ends : wire'[e] <= MsgSz
        /\ \A e \in Ends : HoldsNext(e) => ~HoldsNext(Peer(e)) /\ wire'[e] = 0
        /\ \A e \in Ends : wire'[e] > 0 => wire'[Peer(e)] = 0 /\ ~HoldsNext(Peer(e))
        /\ Over' \/ \E e \in Ends : HoldsNext(e) \/ wire'[e] = MsgSz
    BY DEF Bytes, Loops, OneWord, SomeWord, Holds, HoldsNext
<1>3. CASE Shrinks
    <2>1. \A e \in Ends : (HoldsNext(e) => Holds(e)) /\ wire'[e] <= wire[e]
        BY <1>3 DEF Shrinks
    <2>2. Over' \/ \E e \in Ends : HoldsNext(e) \/ wire'[e] = MsgSz
        BY <1>1, <1>3 DEF Shrinks
    <2> QED BY <1>0, <1>1, <2>1, <2>2
<1>4. ASSUME NEW e \in Ends, Hears(e)
      PROVE  /\ \A x \in Ends : wire'[x] <= MsgSz
             /\ \A x \in Ends : HoldsNext(x) => ~HoldsNext(Peer(x)) /\ wire'[x] = 0
             /\ \A x \in Ends : wire'[x] > 0 => wire'[Peer(x)] = 0 /\ ~HoldsNext(Peer(x))
             /\ Over' \/ \E x \in Ends : HoldsNext(x) \/ wire'[x] = MsgSz
    <2>1. /\ wire'[e] = 0 /\ wire'[Peer(e)] = 0
          /\ HoldsNext(e) /\ ~HoldsNext(Peer(e))
        BY <1>1, <1>4 DEF Hears
    <2> QED BY <1>0, <2>1
<1>5. ASSUME NEW e \in Ends, Speaks(e)
      PROVE  /\ \A x \in Ends : wire'[x] <= MsgSz
             /\ \A x \in Ends : HoldsNext(x) => ~HoldsNext(Peer(x)) /\ wire'[x] = 0
             /\ \A x \in Ends : wire'[x] > 0 => wire'[Peer(x)] = 0 /\ ~HoldsNext(Peer(x))
             /\ Over' \/ \E x \in Ends : HoldsNext(x) \/ wire'[x] = MsgSz
    <2>1. wire[e] = 0 /\ wire[Peer(e)] = 0 /\ ~Holds(Peer(e))
        BY <1>0, <1>1, <1>5 DEF Speaks
    <2>2. /\ wire'[e] = 0 /\ ~HoldsNext(e) /\ ~HoldsNext(Peer(e))
          /\ wire'[Peer(e)] = MsgSz \/ (wire'[Peer(e)] = 0 /\ Over')
        BY <1>0, <1>5, <2>1 DEF Speaks
    <2> QED BY <1>0, <2>2
<1> QED BY <1>3, <1>4, <1>5

LEMMA TInvNext == TInv /\ [Next]_vars => TInv'
<1> SUFFICES ASSUME TInv, [Next]_vars PROVE TInv'
    OBVIOUS
<1>1. TypeOK' /\ Ordered'
    BY TypeNext, OrderedNext DEF TInv
<1>2. who' = who
    BY DEF Next, Network, Thread, recvn, sendn, iClose, Connect, Listen, Refuse, AddEpollEvents,
           RstArrives, i_epoll_wait, Interrupted, RecvSome, RecvNone, SendSome, SendNone,
           i_epoll_change_mode, EpollDel, Close, Quit, Stranger, StrangerSends, StrangerReads,
           StrangerShuts, StrangerLeaves, vars
<1>3. ASSUME who = "test" PROVE Phases'
    BY <1>3, PhasesNext DEF TInv
<1>4. ASSUME who = "test", ~split' PROVE Bytes' /\ OneWord' /\ SomeWord'
    <2>1. ~split /\ Loops' /\ (Shrinks \/ \E e \in Ends : Hears(e) \/ Speaks(e))
        BY <1>4, StepWord
    <2>2. TypeOK /\ Ordered /\ Bytes /\ OneWord /\ SomeWord
        BY <1>4, <2>1 DEF TInv
    <2>3. Over => Over'
        BY <2>2, OverStays
    <2> QED BY <1>1, <2>1, <2>2, <2>3, WordKept
<1> QED BY <1>1, <1>2, <1>3, <1>4 DEF TInv

THEOREM TalkInductive == Spec => []TInv
BY TInvInit, TInvNext, PTL DEF Spec

\* A message never fills the buffer of the end that reads it, as long as messages
\* are sent in one piece (TaskThread.cpp:43-53, Test.cpp:44-55).
THEOREM BuffersSpare == Spec => []NeverFills
<1>1. TInv => NeverFills
    BY SizesAssumption DEF TInv, TypeOK, Bytes, NeverFills
<1> QED BY <1>1, TalkInductive, PTL

-----------------------------------------------------------------------------
(* The turns. *)

\* Before it is over, the word and the two wires say whose turn it is.
LEMMA Turns ==
    ASSUME TInv, ~Over
    PROVE  /\ who = "test" /\ ~split
           /\ turn = IF wire["client"] > 0 THEN "toClient"
                     ELSE IF wire["server"] > 0 THEN "toServer"
                     ELSE IF Holds("client") THEN "client" ELSE "server"
<1>1. who = "test" /\ ~split
    BY DEF Over
<1>2. "client" \in Ends
    BY DEF Ends
<1>3. pc["client"] \notin {"del", "close", "done"}
    BY <1>2 DEF Over, TInv, Ordered
<1>4. HasWord("client") <=> Holds("client")
    BY <1>2, <1>3 DEF HasWord, Holds, Word
<1>5. turn = IF wire["client"] > 0 THEN "toClient"
             ELSE IF wire["server"] > 0 THEN "toServer"
             ELSE IF HasWord("client") THEN "client" ELSE "server"
    BY DEF turn
<1> QED BY <1>1, <1>4, <1>5

LEMMA InitTurn == Init => D!Init
<1> SUFFICES ASSUME Init PROVE turn \in {"server", "over"}
    BY DEF D!Init
<1>1. CASE Over
    BY <1>1 DEF turn
<1>2. CASE ~Over
    <2>1. who = "test"
        BY <1>2 DEF Over
    <2>2. /\ wire["client"] = 0 /\ wire["server"] = 0
          /\ mode["client"] = "READ" /\ pc["client"] = "wait"
        BY <2>1 DEF Init, Ends
    <2>3. ~HasWord("client")
        BY <2>2 DEF HasWord
    <2> QED BY <1>2, <2>2, <2>3 DEF turn
<1> QED BY <1>1, <1>2

LEMMA SpeakStep ==
    ASSUME \/ turn = "server" /\ turn' = "toClient"
           \/ turn = "toClient" /\ turn' = "client"
           \/ turn = "client" /\ turn' = "toServer"
           \/ turn = "toServer" /\ turn' = "server"
    PROVE  D!Next
BY DEF D!Next, D!Speak, D!Successor

LEMMA TurnStep == TInv /\ TInv' /\ [Next]_vars => [D!Next]_turn
<1> SUFFICES ASSUME TInv, TInv', [Next]_vars PROVE D!Next \/ turn' = turn
    OBVIOUS
<1>1. CASE Over'
    <2>1. turn' = "over"
        BY <1>1 DEF turn
    <2> QED BY <2>1 DEF D!Next, D!HangUp
<1>2. CASE ~Over'
    <2>1. ~Over /\ ~split' /\ who = "test"
        <3>1. ~Over
            BY <1>2, OverStays DEF TInv
        <3> QED BY <1>2, <3>1 DEF Over
    <2>2. turn = IF wire["client"] > 0 THEN "toClient"
                 ELSE IF wire["server"] > 0 THEN "toServer"
                 ELSE IF Holds("client") THEN "client" ELSE "server"
        BY <2>1, Turns
    <2>3. turn' = IF wire'["client"] > 0 THEN "toClient"
                  ELSE IF wire'["server"] > 0 THEN "toServer"
                  ELSE IF HoldsNext("client") THEN "client" ELSE "server"
        <3>1. (who = "test" /\ ~split
               /\ turn = IF wire["client"] > 0 THEN "toClient"
                         ELSE IF wire["server"] > 0 THEN "toServer"
                         ELSE IF Holds("client") THEN "client" ELSE "server")'
            BY <1>2, Turns, PTL
        <3> QED BY <3>1 DEF Holds, HoldsNext
    <2>4. Shrinks \/ \E e \in Ends : Hears(e) \/ Speaks(e)
        BY <2>1, StepWord
    <2>5. /\ "server" \in Ends /\ Peer("server") = "client"
          /\ "client" \in Ends /\ Peer("client") = "server"
          /\ \A e \in Ends : e = "server" \/ e = "client"
        BY DEF Ends, Peer
    <2>6. /\ \A e \in Ends : wire[e] \in Nat
          /\ \A e \in Ends : Holds(e) => ~Holds(Peer(e)) /\ wire[e] = 0
          /\ \A e \in Ends : wire[e] > 0 => wire[Peer(e)] = 0 /\ ~Holds(Peer(e))
        BY <2>1 DEF TInv, TypeOK, OneWord, Over
    <2>7. CASE Shrinks
        BY <1>2, <2>2, <2>3, <2>5, <2>7 DEF Shrinks
    <2>8. CASE Hears("client")
        <3>1. turn = "toClient"
            BY <2>2, <2>8 DEF Hears
        <3>2. turn' = "client"
            BY <2>3, <2>5, <2>6, <2>8 DEF Hears
        <3> QED BY <3>1, <3>2, SpeakStep
    <2>9. CASE Hears("server")
        <3>1. wire["client"] = 0 /\ ~Holds("client") /\ wire["server"] > 0
            BY <2>5, <2>6, <2>9 DEF Hears
        <3>2. turn = "toServer" /\ turn' = "server"
            BY <2>2, <2>3, <2>5, <2>9, <3>1 DEF Hears
        <3> QED BY <3>2, SpeakStep
    <2>10. ASSUME NEW e \in Ends, Speaks(e)
           PROVE  /\ wire[e] = 0 /\ wire[Peer(e)] = 0 /\ Holds(e) /\ ~Holds(Peer(e))
                  /\ wire'[e] = 0 /\ wire'[Peer(e)] = MsgSz /\ MsgSz > 0
        <3>1. Peer(e) \in Ends /\ Peer(Peer(e)) = e
            BY EndsAndPeers
        <3>2. wire[e] = 0 /\ Holds(e) /\ ~Holds(Peer(e))
            BY <2>6, <2>10 DEF Speaks
        <3>3. wire[Peer(e)] = 0
            BY <2>6, <3>1, <3>2
        <3> QED BY <1>2, <2>10, <3>2, <3>3, SizesAssumption DEF Speaks
    <2>11. CASE Speaks("server")
        <3>1. turn = "server" /\ turn' = "toClient"
            BY <2>2, <2>3, <2>5, <2>10, <2>11
        <3> QED BY <3>1, SpeakStep
    <2>12. CASE Speaks("client")
        <3>1. turn = "client" /\ turn' = "toServer"
            BY <2>2, <2>3, <2>5, <2>10, <2>12
        <3> QED BY <3>1, SpeakStep
    <2> QED BY <2>4, <2>5, <2>7, <2>8, <2>9, <2>11, <2>12
<1> QED BY <1>1, <1>2

\* The two loops talk in turns: Conversation implements the safety of Dialogue, for
\* messages and buffers of every size, and any strength of pressure
\* (Test.cpp:42-83, TaskThread.cpp:41-79).
THEOREM TalksInTurns == Spec => D!Init /\ [][D!Next]_turn
<1>1. Init => D!Init
    BY InitTurn
<1>2. TInv /\ TInv' /\ [Next]_vars => [D!Next]_turn
    BY TurnStep
<1> QED BY <1>1, <1>2, TalkInductive, PTL DEF Spec
=============================================================================
