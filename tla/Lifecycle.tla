----------------------------- MODULE Lifecycle -----------------------------
(***************************************************************************)
(* How the process starts and stops: main() (main.cpp), the constructor,   *)
(* Bind and destructor of ListenThread, iThread's Create, Suspend and      *)
(* Resume, and sigtermHandler, which any thread may be made to run at any  *)
(* point of its work.  What the threads do between is one step here, "use  *)
(* the objects", with or without a line of log; it is the subject of       *)
(* EpollServer.  The log's lock is that of module Log.                     *)
(*                                                                         *)
(* Using or deleting an object that is deleted already is undefined        *)
(* behaviour: the process crashes, or goes on as if nothing had happened.  *)
(***************************************************************************)
EXTENDS Log, FiniteSets

CONSTANTS
    Main, Listener, Workers,    \* the threads; Workers is the pool
    Signals,                    \* of SIGTERM, SIGINT, SIGHUP, once each
    SIGTERM,                    \* the one that main sends itself
    None,                       \* no signal handler
    Daemonize,                  \* g_Server.daemonize
    BindMayFail,                \* whether ListenThread::Bind can fail
    CreateMayFail               \* whether pthread_create can fail

ASSUME LifecycleAssumption ==
    /\ IsFiniteSet(Workers) /\ Workers # {} /\ SIGTERM \in Signals
    /\ Main # Listener /\ {Main, Listener} \cap (Workers \cup Signals) = {}
    /\ Workers \cap Signals = {}
    /\ None \notin {Main, Listener} \cup Workers \cup Signals
    /\ Callers = {Main, Listener} \cup Workers \cup Signals
    /\ {Daemonize, BindMayFail, CreateMayFail} \subseteq BOOLEAN

Threads == {Main, Listener} \cup Workers

VARIABLES
    exit,       \* "no", or how the process ended: "clean", "killed", by a "crash"
                \* on an object that is not there, or on a "wild" pointer
    mpc,        \* main's place in main()
    run,        \* [Threads \ {Main} -> the thread's place in Run()]
    live,       \* the objects that exist: the ListenThread, the TaskThreads
    lsock,      \* m_sockfd: "none", "bound" or "closed"
    usr1,       \* SIGUSR1 is pending for the listener
    shutdown,   \* g_Server.shutdown
    published,  \* g_ListenThread is not NULL
    pidfile,    \* the pid file exists
    sent,       \* signals that were sent to the process
    pending,    \* those not delivered yet
    top,        \* [Threads -> the handler the thread is running, or None]
    hpc,        \* [Signals -> that handler's place in sigtermHandler]
    deleted     \* [Signals -> the workers it has deleted in DelTaskThread]

signalVars == <<sent, pending, top, hpc, deleted>>
serverVars == <<live, lsock, usr1, shutdown, published, pidfile>>
vars == <<exit, mpc, run, serverVars, signalVars, logVars>>

Init ==
    /\ exit = "no" /\ mpc = "config"
    /\ run = [t \in Threads \ {Main} |-> "none"]
    /\ live = {} /\ lsock = "none" /\ usr1 = FALSE
    /\ shutdown = FALSE /\ published = FALSE /\ pidfile = FALSE
    /\ sent = {} /\ pending = {}
    /\ top = [t \in Threads |-> None]
    /\ hpc = [s \in Signals |-> "idle"]
    /\ deleted = [s \in Signals |-> {}]
    /\ LogInit

\* The threads that no handler has interrupted, and the handlers on top.
Executing ==
    {t \in Threads : top[t] = None} \cup ({top[t] : t \in Threads} \ {None})

\* x takes its next step: it is not waiting for anything inside myepollLog.
Runs(x) == x \in Executing /\ at[x] = "out"

\* What a statement does to the process when it uses these objects.
Touch(objects) ==
    exit' \in {exit} \cup IF objects \subseteq live THEN {} ELSE {"crash"}

\* The next lines of myepollLog, for whoever is in it and not interrupted.
LogStep(x) ==
    /\ x \in Executing
    /\ myepollLog(x)
    /\ UNCHANGED <<exit, mpc, run, serverVars, signalVars>>

-----------------------------------------------------------------------------
(* main(). *)

\* The order of main's statements and of those of the constructor it calls.
PidFileLate(here) ==    \* mutant: the pid file once the server is constructed
    CASE here = "config" -> "pool"      [] here = "pool" -> "listener"
      [] here = "listener" -> "publish" [] here = "publish" -> "pidfile"
      [] here = "pidfile" -> "bind"     [] here = "bind" -> "announce"

PublishFirst(here) ==    \* mutant: g_ListenThread set by the constructor
    CASE here = "config" -> "pidfile"   [] here = "pidfile" -> "publish"
      [] here = "publish" -> "pool"     [] here = "pool" -> "listener"
      [] here = "listener" -> "bind"    [] here = "bind" -> "announce"

After(here) ==
    CASE here = "config" -> "pidfile"   [] here = "pidfile" -> "pool"
      [] here = "pool" -> "listener"    [] here = "listener" -> "publish"
      [] here = "publish" -> "bind"     [] here = "bind" -> "announce"

MainAt(here) == mpc = here /\ Runs(Main)

\* The configuration is loaded and initServer installs sigtermHandler.
InitServer ==
    /\ MainAt("config") /\ mpc' = After("config")
    /\ UNCHANGED <<exit, run, serverVars, signalVars, logVars>>

CreatePidFile ==
    /\ MainAt("pidfile") /\ mpc' = After("pidfile")
    /\ pidfile' = Daemonize
    /\ UNCHANGED <<exit, run, live, lsock, usr1, shutdown, published,
                   signalVars, logVars>>

\* iThread::Create: the new thread begins its Run, unless pthread_create fails,
\* which no caller looks at.
Create(t) ==
    \/ run' = [run EXCEPT ![t] = "begin"]
    \/ CreateMayFail /\ UNCHANGED run

\* InitTaskThread: one TaskThread after the other, each with its thread.
NewTaskThread(w) ==
    /\ MainAt("pool") /\ w \notin live
    /\ live' = live \cup {w}
    /\ Create(w)
    /\ mpc' = IF Workers \subseteq live' THEN After("pool") ELSE "pool"
    /\ UNCHANGED <<exit, lsock, usr1, shutdown, published, pidfile,
                   signalVars, logVars>>

\* The rest of ListenThread's constructor.
NewListenThread ==
    /\ MainAt("listener") /\ mpc' = After("listener")
    /\ live' = live \cup {Listener}
    /\ Create(Listener)
    /\ UNCHANGED <<exit, lsock, usr1, shutdown, published, pidfile,
                   signalVars, logVars>>

\* g_ListenThread = new ListenThread()
Publish ==
    /\ MainAt("publish") /\ mpc' = After("publish")
    /\ published' = TRUE
    /\ UNCHANGED <<exit, run, live, lsock, usr1, shutdown, pidfile, signalVars,
                   logVars>>

\* g_ListenThread->Bind(): socket, bind and listen, then on to Resume.  The
\* handler of another thread may have deleted the object.
Bind ==
    /\ MainAt("bind") /\ lsock = "none"
    /\ published /\ Listener \in live
    /\ lsock' = "bound" /\ mpc' = "resume"
    /\ UNCHANGED <<exit, run, live, usr1, shutdown, published, pidfile,
                   signalVars, logVars>>

BindGone ==
    /\ MainAt("bind")
    /\ ~(published /\ Listener \in live)
    /\ Touch({Listener})
    /\ lsock' \in {lsock, "bound"} /\ mpc' = "resume"
    /\ UNCHANGED <<run, live, usr1, shutdown, published, pidfile, signalVars,
                   logVars>>

\* Resume(): pthread_kill(m_pid, SIGUSR1).  SIGUSR1 is blocked in every thread
\* (MaskSIGUSR1 in the constructor), so it stays pending until sigwait takes it.
\* Without a thread m_pid was never set, and after its end it is no thread's.
ResumeLost ==    \* mutant: only a thread that already waits is woken
    usr1' = (run[Listener] = "suspend")
ResumePends == usr1' = TRUE

Resume ==
    /\ MainAt("resume") /\ mpc' = After("bind")
    /\ exit' \in IF run[Listener] \in {"none", "ended"} \/ Listener \notin live
                THEN {exit, "crash"} ELSE {exit}
    /\ ResumePends
    /\ UNCHANGED <<run, live, lsock, shutdown, published, pidfile, signalVars,
                   logVars>>

\* Bind fails: two lines of log, then kill(getpid(), SIGTERM).
BindFails ==
    /\ BindMayFail /\ MainAt("bind") /\ lsock = "none"
    /\ published /\ Listener \in live
    /\ mpc' = "failed"
    /\ LogCall(Main, MY_WARNING)
    /\ UNCHANGED <<exit, run, serverVars, signalVars>>

BindReports ==
    /\ MainAt("failed") /\ mpc' = "kill"
    /\ LogCall(Main, MY_WARNING)
    /\ UNCHANGED <<exit, run, serverVars, signalVars>>

KillSelf ==
    /\ MainAt("kill") /\ mpc' = After("bind")
    /\ sent' = sent \cup {SIGTERM}
    /\ pending' = IF SIGTERM \in sent THEN pending ELSE pending \cup {SIGTERM}
    /\ UNCHANGED <<exit, run, serverVars, top, hpc, deleted, logVars>>

\* "Epoll server is running", then poll() for ever.
Announce ==
    /\ MainAt("announce") /\ mpc' = "poll"
    /\ LogCall(Main, MY_NOTICE)
    /\ UNCHANGED <<exit, run, serverVars, signalVars>>

main ==
    \/ InitServer \/ CreatePidFile \/ NewListenThread \/ Publish
    \/ \E w \in Workers : NewTaskThread(w)
    \/ Bind \/ BindGone \/ Resume \/ BindFails \/ BindReports \/ KillSelf \/ Announce

-----------------------------------------------------------------------------
(* The threads. *)

ThreadAt(t, here) == run[t] = here /\ Runs(t)
GoTo(t, there) == run' = [run EXCEPT ![t] = there]
ThreadFrame == UNCHANGED <<mpc, live, lsock, shutdown, published, pidfile, signalVars>>

\* ListenThread::Run begins with Suspend, TaskThread::Run does not.
NoSuspend(t) ==    \* mutant: Run without Suspend
    ThreadAt(t, "begin") /\ GoTo(t, "check")
    /\ UNCHANGED <<exit, usr1, logVars>> /\ ThreadFrame

Begin(t) ==
    /\ ThreadAt(t, "begin")
    /\ GoTo(t, IF t = Listener THEN "suspend" ELSE "check")
    /\ UNCHANGED <<exit, usr1, logVars>> /\ ThreadFrame

\* Suspend(): sigwait({SIGUSR1})
Suspend ==
    /\ ThreadAt(Listener, "suspend") /\ usr1
    /\ usr1' = FALSE
    /\ GoTo(Listener, "check")
    /\ UNCHANGED <<exit, logVars>> /\ ThreadFrame

\* while (!g_Server.shutdown)
Check(t) ==
    /\ ThreadAt(t, "check")
    /\ GoTo(t, IF shutdown THEN "ended" ELSE "use")
    /\ UNCHANGED <<exit, usr1, logVars>> /\ ThreadFrame

\* The objects the loop body uses, and whether it may use a pointer that is none:
\* AssignTask begins with m_taskthread[1], which a pool of one does not have.
Used(t) == IF t = Listener THEN {Listener} \cup Workers ELSE {t}
Strays(t) == t = Listener /\ Cardinality(Workers) = 1

Use(t) ==
    /\ ThreadAt(t, "use")
    /\ GoTo(t, "check")
    /\ Touch(Used(t)) \/ (Strays(t) /\ exit' = "wild")
    /\ LogCall(t, MY_DEBUG) \/ UNCHANGED logVars
    /\ UNCHANGED usr1 /\ ThreadFrame

Run(t) == Begin(t) \/ Check(t) \/ Use(t) \/ (t = Listener /\ Suspend)

-----------------------------------------------------------------------------
(* Signals and sigtermHandler. *)

Raise(s) ==
    /\ s \notin sent
    /\ sent' = sent \cup {s} /\ pending' = pending \cup {s}
    /\ UNCHANGED <<exit, mpc, run, serverVars, top, hpc, deleted, logVars>>

Running == {Main} \cup {t \in Threads \ {Main} : run[t] \notin {"none", "ended"}}

\* The kernel interrupts some thread, wherever it is, even inside another signal's
\* handler (sa_mask is empty).  Before initServer the process just ends.
Deliver(s, t) ==
    /\ s \in pending /\ t \in Running
    /\ pending' = pending \ {s}
    /\ IF mpc = "config"
       THEN exit' = "killed" /\ UNCHANGED <<top, hpc>>
       ELSE /\ exit' = exit
            /\ top' = [top EXCEPT ![t] = s]
            /\ hpc' = [hpc EXCEPT ![s] = "begin"]
    /\ UNCHANGED <<mpc, run, serverVars, sent, deleted, logVars>>

HandlerAt(s, here) == hpc[s] = here /\ Runs(s)
HGoTo(s, there) == hpc' = [hpc EXCEPT ![s] = there]
HandlerFrame == UNCHANGED <<mpc, run, usr1, sent, pending, top>>

HandlerLogs(s) ==
    /\ HandlerAt(s, "begin") /\ HGoTo(s, "flag")
    /\ LogCall(s, MY_NOTICE)
    /\ HandlerFrame
    /\ UNCHANGED <<exit, live, lsock, shutdown, published, pidfile, deleted>>

ShutdownUnset(s) ==    \* mutant: the flag is never set
    /\ HandlerAt(s, "flag") /\ HGoTo(s, "test")
    /\ HandlerFrame
    /\ UNCHANGED <<exit, live, lsock, shutdown, published, pidfile, deleted, logVars>>

SetShutdown(s) ==
    /\ HandlerAt(s, "flag") /\ HGoTo(s, "test")
    /\ shutdown' = TRUE
    /\ HandlerFrame
    /\ UNCHANGED <<exit, live, lsock, published, pidfile, deleted, logVars>>

\* if (NULL != g_ListenThread)
TestListenThread(s) ==
    /\ HandlerAt(s, "test")
    /\ HGoTo(s, IF published THEN "close" ELSE "pid")
    /\ HandlerFrame
    /\ UNCHANGED <<exit, live, lsock, shutdown, published, pidfile, deleted,
                   logVars>>

\* ~ListenThread: close(m_sockfd), delete m_socket.
CloseListener(s) ==
    /\ HandlerAt(s, "close") /\ HGoTo(s, "delete")
    /\ Touch({Listener})
    /\ lsock' = IF lsock = "bound" THEN "closed" ELSE lsock
    /\ HandlerFrame
    /\ UNCHANGED <<live, shutdown, published, pidfile, deleted, logVars>>

\* DelTaskThread: delete each worker, whether or not its thread has ended.
UndeletedPastEnd(s) == (Workers \cup {Listener}) \ deleted[s]    \* mutant: one too many
Undeleted(s) == Workers \ deleted[s]

DelTaskThreadJoins(s) ==    \* mutant: each thread is waited for first
    /\ HandlerAt(s, "delete")
    /\ \E w \in Undeleted(s) :
          /\ run[w] \in {"none", "ended"}
          /\ deleted' = [deleted EXCEPT ![s] = @ \cup {w}]
          /\ Touch({Listener, w})
          /\ live' = live \ {w}
    /\ HandlerFrame
    /\ UNCHANGED <<hpc, lsock, shutdown, published, pidfile, logVars>>

DelTaskThread(s) ==
    /\ HandlerAt(s, "delete")
    /\ \E w \in Undeleted(s) :
          /\ deleted' = [deleted EXCEPT ![s] = @ \cup {w}]
          /\ Touch({Listener, w})
          /\ live' = live \ {w}
    /\ HandlerFrame
    /\ UNCHANGED <<hpc, lsock, shutdown, published, pidfile, logVars>>

\* The ListenThread's own memory, and g_ListenThread = NULL.
FreeListenThread(s) ==
    /\ HandlerAt(s, "delete") /\ Undeleted(s) = {}
    /\ HGoTo(s, "pid")
    /\ Touch({Listener})
    /\ live' = live \ {Listener} /\ published' = FALSE
    /\ HandlerFrame
    /\ UNCHANGED <<lsock, shutdown, pidfile, deleted, logVars>>

\* if (g_Server.daemonize): "Removing the pid file."
HandlerPid(s) ==
    /\ HandlerAt(s, "pid")
    /\ IF Daemonize
       THEN HGoTo(s, "unlink") /\ LogCall(s, MY_NOTICE)
       ELSE HGoTo(s, "sleep") /\ UNCHANGED logVars
    /\ HandlerFrame
    /\ UNCHANGED <<exit, live, lsock, shutdown, published, pidfile, deleted>>

Unlink(s) ==
    /\ HandlerAt(s, "unlink") /\ HGoTo(s, "sleep")
    /\ pidfile' = FALSE
    /\ HandlerFrame
    /\ UNCHANGED <<exit, live, lsock, shutdown, published, deleted, logVars>>

\* sleep(1) and _exit(EXIT_SUCCESS).
Exit(s) ==
    /\ HandlerAt(s, "sleep")
    /\ exit' = "clean"
    /\ HandlerFrame
    /\ UNCHANGED <<hpc, live, lsock, shutdown, published, pidfile, deleted, logVars>>

sigtermHandler(s) ==
    \/ HandlerLogs(s) \/ SetShutdown(s) \/ TestListenThread(s) \/ CloseListener(s)
    \/ DelTaskThread(s) \/ FreeListenThread(s) \/ HandlerPid(s) \/ Unlink(s) \/ Exit(s)

-----------------------------------------------------------------------------
Next ==
    /\ exit = "no"
    /\ \/ main
       \/ \E t \in Threads \ {Main} : Run(t)
       \/ \E s \in Signals : Raise(s) \/ sigtermHandler(s)
       \/ \E s \in Signals, t \in Threads : Deliver(s, t)
       \/ \E x \in Callers : LogStep(x)

Spec == Init /\ [][Next]_vars

\* The scheduler runs every thread that can take a step, the kernel delivers what
\* is pending, and a free lock goes to each waiting thread in the end.
Fairness ==
    /\ WF_vars(exit = "no" /\ main)
    /\ \A t \in Threads \ {Main} : WF_vars(exit = "no" /\ Run(t))
    /\ \A s \in Signals :
          /\ WF_vars(exit = "no" /\ sigtermHandler(s))
          /\ WF_vars(exit = "no" /\ \E t \in Threads : Deliver(s, t))
    /\ \A x \in Callers : SF_vars(exit = "no" /\ LogStep(x))

FairSpec == Spec /\ Fairness

-----------------------------------------------------------------------------
(* Correctness. *)

TypeOK ==
    /\ exit \in {"no", "clean", "crash", "wild", "killed"}
    /\ mpc \in {"config", "pidfile", "pool", "listener", "publish", "bind",
                "resume", "failed", "kill", "announce", "poll"}
    /\ run \in [Threads \ {Main} ->
                   {"none", "begin", "suspend", "check", "use", "ended"}]
    /\ live \subseteq {Listener} \cup Workers
    /\ lsock \in {"none", "bound", "closed"}
    /\ {usr1, shutdown, published, pidfile} \subseteq BOOLEAN
    /\ sent \subseteq Signals /\ pending \subseteq sent
    /\ top \in [Threads -> Signals \cup {None}]
    /\ hpc \in [Signals -> {"idle", "begin", "flag", "test", "close", "delete",
                            "pid", "unlink", "sleep"}]
    /\ deleted \in [Signals -> SUBSET Workers]
    /\ LogTypeOK

\* A process that ends by sigtermHandler leaves no pid file, wherever main was
\* when the signal came (main.cpp:389-394, 467-470).
PidFileRemoved == exit = "clean" => ~pidfile

\* The handler never takes a ListenThread apart that is still being built
\* (main.cpp:383-387, 472).
NoHalfBuilt ==
    \A s \in Signals :
        hpc[s] \in {"close", "delete"} =>
            mpc \notin {"pool", "listener", "publish"}

\* The listener, whose thread runs from the constructor on, does not get to its
\* loop body before Bind has made the socket (ListenThread.cpp:18, 34-37, 58), not
\* even when a handler takes the object away under main's hands.
BoundFirst == run[Listener] = "use" => lsock # "none"

\* No thread uses an object that is not there, or not yet, before a handler has
\* set g_Server.shutdown: the threads run while the constructor is still busy, but
\* only a handler deletes.  Two crashes are left: Resume without a listener thread
\* (main.cpp:377-387, ListenThread.cpp:16-18, iThread.cpp:51-60) and, once there is
\* a socket to accept from, the second worker of a pool of one, which AssignTask
\* asks for its counter (ListenThread.cpp:129-155).
CrashOnlyInShutdown ==
    exit \in {"crash", "wild"} =>
        \/ shutdown
        \/ exit = "crash" /\ mpc = "announce" /\ run[Listener] = "none"
        \/ exit = "wild" /\ Cardinality(Workers) = 1 /\ lsock # "none"

\* Resume is not lost, however early it comes: a bound server accepts
\* (iThread.cpp:15-21, 51-60).
Starts ==
    lsock = "bound" ~> run[Listener] \in {"check", "use", "ended"} \/ sent # {}

\* The lock of the log will not be given back: its owner is under a handler, which
\* does not return, or has come out of myepollLog with it, above the lowest level.
LockLost ==
    /\ owner # Free
    /\ \/ owner \notin Executing
       \/ verbosity # MY_DEBUG /\ at[owner] \in {"out", "lock"}

\* A handler that runs on main's own thread ends the process, whatever the other
\* threads and their handlers are doing meanwhile (main.cpp:375-399, 487), unless
\* the lock of the log is lost: nothing else that a handler does can hold it up.
StopsFromMain == top[Main] # None ~> exit # "no" \/ LockLost

\* main.cpp:485 "Epoll server is running :) ... (press CTRL-C to stop)": a
\* process that is sent SIGINT or SIGTERM ends by way of sigtermHandler.
Stops == sent # {} ~> exit \in {"clean", "killed"}
=============================================================================
