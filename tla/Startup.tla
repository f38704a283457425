------------------------------ MODULE Startup ------------------------------
(***************************************************************************)
(* What the server makes of the configuration it has loaded: the pool of   *)
(* workers with their epoll sets, sized by the limit on descriptors, and   *)
(* the listening socket (ListenThread.cpp, iEpoll.cpp, iSocket.cpp).  It   *)
(* goes on from module Config in main's order.  Threads and signals are    *)
(* the subject of Lifecycle, and what is logged on the way is left out.    *)
(***************************************************************************)
EXTENDS Config

CONSTANTS
    Limits,     \* the values RLIMIT_NOFILE may have
    Addresses,  \* the words that inet_aton takes for an address
    MaxRefused  \* bound: epoll_create calls the kernel has no memory for

\* The configuration file alone takes a fourth descriptor.
ASSUME StartupAssumption ==
    /\ \A l \in Limits : l \in Nat /\ l >= 4
    /\ NoWord \notin Addresses /\ MaxRefused \in Nat

VARIABLES
    stage,      \* "config", "bind", "running", or why it does not listen:
                \* the address was "rejected", or a system call "failed"
    limit,      \* rlim_cur, once GetWorkerCapacity has looked
    sets,       \* workers with an epoll set; the others have m_epfd -1
    refused,    \* history: epoll_create calls that failed for want of memory
    listening   \* the address the socket listens on, or NoWord

startVars == <<stage, limit, sets, refused, listening>>
allVars == <<configVars, logVars, startVars>>

StartInit ==
    /\ initServerConfig
    /\ stage = "config" /\ limit = 0 /\ sets = 0 /\ refused = 0
    /\ listening = NoWord

maxthreads == server["maxthreads"]

\* The descriptors in use: the standard three, the epoll sets, the socket.
Used == 3 + sets + (IF listening = NoWord THEN 0 ELSE 1)

\* Division in C, which truncates.
Quotient(a, b) == IF a >= 0 THEN a \div b ELSE -((-a) \div b)

\* "Minimum of fds needed", and the half that is left for others.
ReservedOnce == 3 + 1    \* mutant: the epoll sets are not counted
Reserved == 3 + 1 + maxthreads
WholeOf(avl) == avl    \* mutant: nothing left for others
HalfOf(avl) == Quotient(avl, 2)

GetWorkerCapacity(max) == Quotient(HalfOf(max - Reserved), maxthreads)

\* The constructor of ListenThread: InitTaskThread constructs the workers, each
\* with epoll_create(nCapacity), which takes no size below one and needs a free
\* descriptor.  A worker without a set stays in the pool all the same.
InitTaskThread ==
    /\ phase = "loaded" /\ stage = "config"
    /\ limit' \in Limits
    /\ refused' \in 0 .. MaxRefused /\ refused' <= maxthreads
    /\ LET room == limit' - Used
           wanted == IF GetWorkerCapacity(limit') >= 1 THEN maxthreads - refused' ELSE 0
       IN  sets' = IF wanted < room THEN wanted ELSE room
    /\ stage' = "bind"
    /\ UNCHANGED <<configVars, logVars, listening>>

\* iSocket::Bind: socket(), inet_aton, bind() and listen().  The program has a
\* string where "Bind address or NULL" is meant, so inet_aton sees it always.
\* Without a bind line it is empty and rejected, and the server does not listen,
\* while myepoll.conf:15-16 promises all interfaces.
BindTo(address) ==
    /\ Used < limit
    /\ listening' = address
    /\ stage' = "running"

GivenAddress ==
    server["bind"] \in Addresses /\ BindTo(server["bind"])

\* inet_aton takes the word for no address, and the socket is closed again.
RejectedAddress ==
    /\ Used < limit /\ server["bind"] \notin Addresses
    /\ stage' = "rejected" /\ UNCHANGED listening

\* A system call fails, and the socket, if there is one, is closed again.
BindFails == stage' = "failed" /\ UNCHANGED listening

Bind ==
    /\ stage = "bind"
    /\ GivenAddress \/ RejectedAddress \/ BindFails
    /\ UNCHANGED <<configVars, logVars, limit, sets, refused>>

StartNext ==
    \/ loadServerConfig /\ UNCHANGED startVars
    \/ InitTaskThread
    \/ Bind

StartSpec == StartInit /\ [][StartNext]_allVars

-----------------------------------------------------------------------------
(* Correctness. *)

\* The workers have their epoll sets if the limit on descriptors leaves each
\* worker three, its set and two for a connection; otherwise no worker has one,
\* and the server runs with a pool that can take no connection
\* (ListenThread.cpp:63-85, 104-125, iEpoll.cpp:3-45).
PoolSound ==
    stage # "config" =>
        sets = IF limit >= 4 + 3 * maxthreads THEN maxthreads - refused ELSE 0

\* When all workers report as many connections as their event arrays hold, there
\* is a descriptor more for each of them: "a possible additional FD for each
\* plugin" (ListenThread.cpp:111-124).
LeavesRoom ==
    stage = "running" => limit - Used >= 2 * maxthreads * GetWorkerCapacity(limit)
=============================================================================
