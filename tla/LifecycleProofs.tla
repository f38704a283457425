-------------------------- MODULE LifecycleProofs --------------------------
(* Theorems about Lifecycle, for every number of workers and every set of   *)
(* signals, with and without failures of Bind and pthread_create.           *)
EXTENDS Lifecycle, LogProofs

-----------------------------------------------------------------------------
(* The log: whatever the process does, it uses the log as Log says. *)

LEMMA Logs == [Next]_vars => [LogNext]_logVars
<1> SUFFICES ASSUME [Next]_vars PROVE [LogNext]_logVars
    OBVIOUS
<1>1. /\ Main \in Callers /\ Threads \subseteq Callers /\ Signals \subseteq Callers
      /\ MY_DEBUG \in Levels /\ MY_NOTICE \in Levels /\ MY_WARNING \in Levels
    BY LifecycleAssumption DEF Threads, Levels
<1>2. ASSUME NEW x \in Callers, NEW l \in Levels, LogCall(x, l) PROVE LogNext
    BY <1>2 DEF LogNext
<1>3. CASE main
    BY <1>1, <1>2, <1>3 DEF main, InitServer, CreatePidFile, NewTaskThread, NewListenThread,
       Publish, Bind, BindGone, Resume, BindFails, BindReports, KillSelf, Announce
<1>4. ASSUME NEW t \in Threads \ {Main}, Run(t) PROVE [LogNext]_logVars
    BY <1>1, <1>2, <1>4 DEF Run, Begin, Check, Use, Suspend
<1>5. ASSUME NEW s \in Signals, Raise(s) \/ sigtermHandler(s) PROVE [LogNext]_logVars
    BY <1>1, <1>2, <1>5 DEF Raise, sigtermHandler, HandlerLogs, SetShutdown, TestListenThread,
       CloseListener, DelTaskThread, FreeListenThread, HandlerPid, Unlink, Exit
<1>6. ASSUME NEW s \in Signals, NEW t \in Threads, Deliver(s, t) PROVE UNCHANGED logVars
    BY <1>6 DEF Deliver
<1>7. ASSUME NEW x \in Callers, LogStep(x) PROVE LogNext
    BY <1>7 DEF LogStep, LogNext
<1>8. CASE UNCHANGED vars
    BY <1>8 DEF vars
<1> QED BY <1>3, <1>4, <1>5, <1>6, <1>7, <1>8 DEF Next

\* The threads, and the handlers that interrupt them anywhere, use the lock as Log
\* says: Lifecycle implements it (main.cpp:81-100).
THEOREM LogImplemented == Spec => LogSpec
<1>1. Init => LogInit
    BY DEF Init
<1> QED BY <1>1, Logs, PTL DEF Spec, LogSpec

\* No two of the threads and handlers write to the log at a time, however they
\* interrupt each other (main.cpp:81-100).
THEOREM LinesWholeAlways == Spec => []WriterAlone
BY LogImplemented, LinesWhole, PTL

\* Of the threads and handlers that have returned from myepollLog, only the sender
\* of a filtered message still holds the lock, and above the lowest level alone does
\* one wait for itself (main.cpp:81-100).  Owners under a handler are not spoken of.
THEOREM OnlyFilteredKeepsAlways == Spec => []LockGivenBack
BY LogImplemented, OnlyFilteredKeeps, PTL

-----------------------------------------------------------------------------
(* Types. *)

LEMMA TypeInit == Init => TypeOK
<1> SUFFICES ASSUME Init PROVE TypeOK
    OBVIOUS
<1>1. LogTypeOK
    BY LInvInit DEF Init, LInv
<1> QED BY <1>1 DEF Init, TypeOK

\* The part of TypeOK that is not the log's.
LifeTypeOK ==
    /\ exit \in {"no", "clean", "crash", "wild", "killed"}
    /\ mpc \in {"config", "pidfile", "pool", "listener", "publish", "bind",
                "resume", "failed", "kill", "announce", "poll"}
    /\ run \in [Threads \ {Main} ->
                   {"none", "begin", "suspend", "check", "use", "ended"}]
    /\ live \subseteq {Listener} \cup Workers
    /\ lsock \in {"none", "bound", "closed"}
    /\ {usr1, shutdown, published, pidfile} \subseteq BOOLEAN
    /\ sent \subseteq Signals /\ pending \subseteq sent
    /\ top \in [Threads -> Signals \cup {None}]
    /\ hpc \in [Signals -> {"idle", "begin", "flag", "test", "close", "delete",
                            "pid", "unlink", "sleep"}]
    /\ deleted \in [Signals -> SUBSET Workers]

LEMMA TypeMain == ASSUME LifeTypeOK, main PROVE LifeTypeOK'
<1> USE LifecycleAssumption DEF LifeTypeOK, MainAt, After, signalVars, serverVars
<1>1. CASE InitServer
    BY <1>1 DEF InitServer
<1>2. CASE CreatePidFile
    BY <1>2 DEF CreatePidFile
<1>3. ASSUME NEW w \in Workers, NewTaskThread(w) PROVE LifeTypeOK'
    BY <1>3 DEF NewTaskThread, Create, Threads
<1>4. CASE NewListenThread
    BY <1>4 DEF NewListenThread, Create, Threads
<1>5. CASE Publish
    BY <1>5 DEF Publish
<1>6. CASE Bind
    BY <1>6 DEF Bind
<1>7. CASE BindGone
    BY <1>7 DEF BindGone, Touch
<1>8. CASE Resume
    BY <1>8 DEF Resume, ResumePends
<1>9. CASE BindFails
    BY <1>9 DEF BindFails
<1>10. CASE BindReports
    BY <1>10 DEF BindReports
<1>11. CASE KillSelf
    BY <1>11 DEF KillSelf
<1>12. CASE Announce
    BY <1>12 DEF Announce
<1> QED BY <1>1, <1>2, <1>3, <1>4, <1>5, <1>6, <1>7, <1>8, <1>9, <1>10, <1>11, <1>12 DEF main

LEMMA TypeRun ==
    ASSUME LifeTypeOK, NEW t \in Threads \ {Main}, Run(t)
    PROVE  LifeTypeOK'
<1> USE DEF LifeTypeOK, ThreadFrame, GoTo, signalVars
<1>1. CASE Begin(t)
    BY <1>1 DEF Begin
<1>2. CASE Check(t)
    BY <1>2 DEF Check
<1>3. CASE Use(t)
    BY <1>3 DEF Use, Touch
<1>4. CASE t = Listener /\ Suspend
    BY <1>4 DEF Suspend
<1> QED BY <1>1, <1>2, <1>3, <1>4 DEF Run

LEMMA TypeHandler ==
    ASSUME LifeTypeOK, NEW s \in Signals, sigtermHandler(s)
    PROVE  LifeTypeOK'
<1> USE DEF LifeTypeOK, HandlerFrame, HGoTo
<1>1. CASE HandlerLogs(s)
    BY <1>1 DEF HandlerLogs
<1>2. CASE SetShutdown(s)
    BY <1>2 DEF SetShutdown
<1>3. CASE TestListenThread(s)
    BY <1>3 DEF TestListenThread
<1>4. CASE CloseListener(s)
    BY <1>4 DEF CloseListener, Touch
<1>5. CASE DelTaskThread(s)
    BY <1>5 DEF DelTaskThread, Undeleted, Touch
<1>6. CASE FreeListenThread(s)
    BY <1>6 DEF FreeListenThread, Touch
<1>7. CASE HandlerPid(s)
    BY <1>7 DEF HandlerPid
<1>8. CASE Unlink(s)
    BY <1>8 DEF Unlink
<1>9. CASE Exit(s)
    BY <1>9 DEF Exit
<1> QED BY <1>1, <1>2, <1>3, <1>4, <1>5, <1>6, <1>7, <1>8, <1>9 DEF sigtermHandler

LEMMA TypeNext == TypeOK /\ LInv' /\ [Next]_vars => TypeOK'
<1> SUFFICES ASSUME TypeOK, LInv', [Next]_vars PROVE TypeOK'
    OBVIOUS
<1>1. LifeTypeOK
    BY DEF TypeOK, LifeTypeOK
<1>2. ASSUME NEW s \in Signals, Raise(s) PROVE LifeTypeOK'
    BY <1>1, <1>2 DEF Raise, LifeTypeOK, serverVars
<1>3. ASSUME NEW s \in Signals, NEW t \in Threads, Deliver(s, t) PROVE LifeTypeOK'
    BY <1>1, <1>3 DEF Deliver, LifeTypeOK, serverVars
<1>4. ASSUME NEW x \in Callers, LogStep(x) PROVE LifeTypeOK'
    BY <1>1, <1>4 DEF LogStep, LifeTypeOK, serverVars, signalVars
<1>5. ASSUME UNCHANGED vars PROVE LifeTypeOK'
    <2>1. UNCHANGED <<exit, mpc, run, live, lsock, usr1, shutdown, published, pidfile,
                      sent, pending, top, hpc, deleted>>
        BY <1>5 DEF vars, serverVars, signalVars
    <2> QED BY <1>1, <2>1 DEF LifeTypeOK
<1>6. LifeTypeOK'
    <2>1. CASE main
        BY <1>1, <2>1, TypeMain
    <2>2. ASSUME NEW t \in Threads \ {Main}, Run(t) PROVE LifeTypeOK'
        BY <1>1, <2>2, TypeRun
    <2>3. ASSUME NEW s \in Signals, sigtermHandler(s) PROVE LifeTypeOK'
        BY <1>1, <2>3, TypeHandler
    <2> QED BY <1>2, <1>3, <1>4, <1>5, <2>1, <2>2, <2>3 DEF Next
<1> QED BY <1>6 DEF TypeOK, LifeTypeOK, LInv

-----------------------------------------------------------------------------
(* The three parts of the inductive invariant. *)

Early == {"config", "pidfile", "pool", "listener", "publish"}

\* g_ListenThread is set when the constructor has returned, and only a handler
\* that found it set takes the object apart.
Constructed ==
    /\ published => mpc \notin Early
    /\ \A s \in Signals : hpc[s] \in {"close", "delete"} => mpc \notin Early

\* While main has the pid file still to write there is no other thread, so that a
\* handler runs on main's own, on top of it, and main does not go on.
PidFirst ==
    /\ mpc \in {"config", "pidfile"} =>
          /\ \A t \in Threads \ {Main} : run[t] = "none"
          /\ \A s \in Signals : hpc[s] # "idle" => top[Main] # None
    /\ pidfile => Daemonize
    /\ \A s \in Signals : hpc[s] = "sleep" => ~pidfile
    /\ exit = "clean" => ~pidfile

\* Where the socket is not bound when the listener is woken, or the object is gone
\* when main comes to Bind, a handler has set g_Server.shutdown before.
Told ==
    /\ \A s \in Signals :
          hpc[s] \in {"test", "close", "delete", "pid", "unlink", "sleep"} => shutdown
    /\ mpc = "publish" => Listener \in live \/ shutdown
    /\ mpc \notin Early => (published /\ Listener \in live) \/ shutdown
    /\ usr1 \/ run[Listener] = "check" \/ mpc = "resume" => lsock # "none" \/ shutdown
    /\ run[Listener] = "use" => lsock # "none"

Inv == Constructed /\ PidFirst /\ Told

LEMMA InvInit == Init => Inv
BY LifecycleAssumption DEF Init, Inv, Constructed, PidFirst, Told, Early, Threads

LEMMA InvMain == ASSUME LifeTypeOK, Inv, exit = "no", main PROVE Inv'
<1> USE LifecycleAssumption
    DEF LifeTypeOK, MainAt, After, signalVars, serverVars, Inv, Constructed, PidFirst, Told,
        Early, Runs
<1>0. Main \in Threads /\ Listener \in Threads \ {Main} /\ Main \notin Signals /\ Workers \subseteq Threads \ {Main}
    BY DEF Threads
<1>1. Main \in Executing
    BY DEF main, InitServer, CreatePidFile, NewTaskThread, NewListenThread,
       Publish, Bind, BindGone, Resume, BindFails, BindReports, KillSelf, Announce
<1>2. top[Main] = None
    BY <1>0, <1>1 DEF Executing
<1>3. CASE InitServer
    BY <1>3 DEF InitServer
<1>4. CASE CreatePidFile
    <2>1. top[Main] = None /\ pidfile' = Daemonize /\ mpc = "pidfile" /\ mpc' = "pool"
        BY <1>4, <1>2 DEF CreatePidFile
    <2>2. \A s \in Signals : hpc[s] = "idle"
        BY <2>1
    <2>3. UNCHANGED <<exit, run, live, lsock, usr1, shutdown, published, hpc>>
        BY <1>4 DEF CreatePidFile
    <2> QED BY <2>1, <2>2, <2>3
<1>5. ASSUME NEW w \in Workers, NewTaskThread(w) PROVE Inv'
    BY <1>0, <1>5 DEF NewTaskThread, Create
<1>6. CASE NewListenThread
    BY <1>0, <1>6 DEF NewListenThread, Create
<1>7. CASE Publish
    BY <1>7 DEF Publish
<1>8. CASE Bind
    BY <1>8 DEF Bind
<1>9. CASE BindGone
    BY <1>9 DEF BindGone, Touch
<1>10. CASE Resume
    BY <1>10 DEF Resume, ResumePends
<1>11. CASE BindFails
    BY <1>11 DEF BindFails
<1>12. CASE BindReports
    BY <1>12 DEF BindReports
<1>13. CASE KillSelf
    BY <1>13 DEF KillSelf
<1>14. CASE Announce
    BY <1>14 DEF Announce
<1> QED BY <1>3, <1>4, <1>5, <1>6, <1>7, <1>8, <1>9, <1>10, <1>11, <1>12, <1>13, <1>14 DEF main

LEMMA InvRun ==
    ASSUME LifeTypeOK, Inv, NEW t \in Threads \ {Main}, Run(t)
    PROVE  Inv'
<1> USE DEF LifeTypeOK, Inv, Constructed, PidFirst, Told, Early, ThreadFrame, ThreadAt, GoTo,
            signalVars
<1>0. Listener \in Threads \ {Main}
    BY LifecycleAssumption DEF Threads
<1>1. CASE Begin(t)
    BY <1>0, <1>1 DEF Begin
<1>2. CASE Check(t)
    BY <1>0, <1>2 DEF Check
<1>3. CASE Use(t)
    BY <1>0, <1>3 DEF Use, Touch
<1>4. CASE t = Listener /\ Suspend
    BY <1>0, <1>4 DEF Suspend
<1> QED BY <1>1, <1>2, <1>3, <1>4 DEF Run

LEMMA InvHandler ==
    ASSUME LifeTypeOK, Inv, NEW s \in Signals, sigtermHandler(s)
    PROVE  Inv'
<1> USE DEF LifeTypeOK, Inv, Constructed, PidFirst, Told, Early, HandlerFrame, HandlerAt, HGoTo
<1>1. CASE HandlerLogs(s)
    BY <1>1 DEF HandlerLogs
<1>2. CASE SetShutdown(s)
    BY <1>2 DEF SetShutdown
<1>3. CASE TestListenThread(s)
    BY <1>3 DEF TestListenThread
<1>4. CASE CloseListener(s)
    BY <1>4 DEF CloseListener, Touch
<1>5. CASE DelTaskThread(s)
    BY <1>5 DEF DelTaskThread, Touch
<1>6. CASE FreeListenThread(s)
    BY <1>6 DEF FreeListenThread, Touch
<1>7. CASE HandlerPid(s)
    BY <1>7 DEF HandlerPid
<1>8. CASE Unlink(s)
    BY <1>8 DEF Unlink
<1>9. CASE Exit(s)
    BY <1>9 DEF Exit
<1> QED BY <1>1, <1>2, <1>3, <1>4, <1>5, <1>6, <1>7, <1>8, <1>9 DEF sigtermHandler

LEMMA InvNext == TypeOK /\ Inv /\ [Next]_vars => Inv'
<1> SUFFICES ASSUME TypeOK, Inv, [Next]_vars PROVE Inv'
    OBVIOUS
<1>1. LifeTypeOK
    BY DEF TypeOK, LifeTypeOK
<1>2. CASE UNCHANGED <<exit, mpc, run, live, lsock, usr1, shutdown, published, pidfile, top, hpc>>
    BY <1>2 DEF Inv, Constructed, PidFirst, Told
<1>3. ASSUME NEW s \in Signals, Raise(s) PROVE Inv'
    BY <1>2, <1>3 DEF Raise, serverVars
<1>4. ASSUME NEW x \in Callers, LogStep(x) PROVE Inv'
    BY <1>2, <1>4 DEF LogStep, serverVars, signalVars
<1>5. CASE UNCHANGED vars
    BY <1>2, <1>5 DEF vars, serverVars, signalVars
<1>6. ASSUME NEW s \in Signals, NEW t \in Threads, Deliver(s, t) PROVE Inv'
    <2>1. UNCHANGED <<mpc, run, live, lsock, usr1, shutdown, published, pidfile>>
        BY <1>6 DEF Deliver, serverVars
    <2>2. CASE mpc = "config"
        BY <1>6, <2>1, <2>2 DEF Deliver, Inv, Constructed, PidFirst, Told
    <2>3. CASE mpc # "config"
        <3>1. /\ exit' = exit /\ top' = [top EXCEPT ![t] = s] /\ hpc' = [hpc EXCEPT ![s] = "begin"]
              /\ t \in Running
            BY <1>6, <2>3 DEF Deliver
        <3>2. s # None
            BY LifecycleAssumption
        <3>3. mpc = "pidfile" => t = Main
            BY <3>1 DEF Running, Inv, PidFirst
        <3>4. top'[Main] = IF t = Main THEN s ELSE top[Main]
            BY <1>1, <3>1 DEF LifeTypeOK, Threads
        <3>5. \A q \in Signals : hpc'[q] = IF q = s THEN "begin" ELSE hpc[q]
            BY <1>1, <3>1 DEF LifeTypeOK
        <3> QED BY <2>1, <2>3, <3>1, <3>2, <3>3, <3>4, <3>5
                DEF Inv, Constructed, PidFirst, Told
    <2> QED BY <2>2, <2>3
<1>7. CASE exit = "no" /\ main
    BY <1>1, <1>7, InvMain
<1>8. ASSUME NEW t \in Threads \ {Main}, Run(t) PROVE Inv'
    BY <1>1, <1>8, InvRun
<1>9. ASSUME NEW s \in Signals, sigtermHandler(s) PROVE Inv'
    BY <1>1, <1>9, InvHandler
<1> QED BY <1>3, <1>4, <1>5, <1>6, <1>7, <1>8, <1>9 DEF Next

THEOREM LifeInductive == Spec => [](TypeOK /\ Inv)
<1>1. Init => LInv
    BY LInvInit DEF Init
<1>2. LInv /\ [Next]_vars => LInv'
    BY Logs, LInvNext
<1> QED BY <1>1, <1>2, TypeInit, TypeNext, InvInit, InvNext, PTL DEF Spec

\* However many threads and signals there are, the state has its types.
THEOREM LifeTypes == Spec => []TypeOK
BY LifeInductive, PTL

\* However many signals come, and on whichever threads, the pid file is gone when a
\* handler ends the process (main.cpp:389-399, 467-470).
THEOREM PidFileGone == Spec => []PidFileRemoved
<1>1. Inv => PidFileRemoved
    BY DEF Inv, PidFirst, PidFileRemoved
<1> QED BY <1>1, LifeInductive, PTL

\* No handler takes apart a ListenThread under construction (main.cpp:383-387, 472).
THEOREM NeverHalfBuilt == Spec => []NoHalfBuilt
<1>1. Inv => NoHalfBuilt
    BY DEF Inv, Constructed, Early, NoHalfBuilt
<1> QED BY <1>1, LifeInductive, PTL

\* The listener's loop body never runs without the socket, whatever fails and
\* whatever a handler deletes meanwhile (ListenThread.cpp:34-58, iThread.cpp:51-60).
THEOREM BoundAlwaysFirst == Spec => []BoundFirst
<1>1. Inv => BoundFirst
    BY DEF Inv, Told, BoundFirst
<1> QED BY <1>1, LifeInductive, PTL

-----------------------------------------------------------------------------
(* Before the shutdown flag is set. *)

\* What has been constructed is there: the objects main is past, and those that a
\* thread that has begun uses.  No thread has ended.
Standing ==
    /\ mpc \notin {"config", "pidfile", "pool"} => Workers \subseteq live
    /\ mpc \notin {"config", "pidfile", "pool", "listener"} => Listener \in live
    /\ \A w \in Workers : run[w] # "none" => w \in live
    /\ run[Listener] # "none" => {Listener} \cup Workers \subseteq live
    /\ \A t \in Threads \ {Main} : run[t] # "ended"

Crashless == (shutdown \/ Standing) /\ CrashOnlyInShutdown

\* The shutdown flag is never taken back.
LEMMA ShutdownStays == ASSUME [Next]_vars, shutdown PROVE shutdown'
BY DEF Next, vars, serverVars, signalVars, main, InitServer, CreatePidFile, NewTaskThread,
       NewListenThread, Publish, Bind, BindGone, Resume, BindFails, BindReports, KillSelf,
       Announce, Run, Begin, Check, Use, Suspend, ThreadFrame, Raise, Deliver, LogStep,
       sigtermHandler, HandlerLogs, SetShutdown, TestListenThread, CloseListener,
       DelTaskThread, FreeListenThread, HandlerPid, Unlink, Exit

\* main constructs, and uses what it has constructed.
LEMMA StandingMain ==
    ASSUME LifeTypeOK, Inv, Standing, ~shutdown, exit = "no", main
    PROVE  Standing' /\ CrashOnlyInShutdown'
<1> USE LifecycleAssumption
    DEF LifeTypeOK, MainAt, After, signalVars, serverVars, Standing, CrashOnlyInShutdown
<1>0. /\ Listener \in Threads \ {Main} /\ Workers \subseteq Threads \ {Main}
      /\ Listener \notin Workers
    BY DEF Threads
<1>1. mpc \notin Early => published /\ Listener \in live
    BY DEF Inv, Told
<1>2. CASE InitServer
    BY <1>2 DEF InitServer
<1>3. CASE CreatePidFile
    BY <1>3 DEF CreatePidFile
<1>4. ASSUME NEW w \in Workers, NewTaskThread(w)
      PROVE  Standing' /\ CrashOnlyInShutdown'
    <2>1. /\ live' = live \cup {w} /\ exit' = exit /\ mpc = "pool"
          /\ mpc' \in {"pool", "listener"}
          /\ mpc' = "listener" => Workers \subseteq live'
          /\ run' = [run EXCEPT ![w] = "begin"] \/ run' = run
        BY <1>4 DEF NewTaskThread, Create
    <2>2. run'[Listener] = run[Listener]
        BY <1>0, <2>1
    <2>3. \A t \in Threads \ {Main} : run'[t] = run[t] \/ (t = w /\ run'[t] = "begin")
        BY <2>1
    <2> QED BY <1>0, <2>1, <2>2, <2>3
<1>5. CASE NewListenThread
    BY <1>0, <1>5 DEF NewListenThread, Create
<1>6. CASE Publish
    BY <1>6 DEF Publish
<1>7. CASE Bind \/ BindFails \/ BindReports \/ KillSelf \/ Announce
    BY <1>7 DEF Bind, BindFails, BindReports, KillSelf, Announce
<1>8. ~BindGone
    BY <1>1 DEF BindGone, Early
<1>9. CASE Resume
    BY <1>0, <1>1, <1>9 DEF Resume, Early
<1> QED BY <1>2, <1>3, <1>4, <1>5, <1>6, <1>7, <1>8, <1>9 DEF main

\* A thread uses what is there; a listener that strays past a pool of one has a socket.
LEMMA StandingRun ==
    ASSUME LifeTypeOK, Inv, Standing, ~shutdown, exit = "no",
           NEW t \in Threads \ {Main}, Run(t)
    PROVE  Standing' /\ CrashOnlyInShutdown'
<1> USE DEF LifeTypeOK, Standing, CrashOnlyInShutdown, ThreadFrame, ThreadAt, GoTo, signalVars
<1>0. /\ Listener \in Threads \ {Main} /\ Workers \subseteq Threads \ {Main}
      /\ t \in Workers \cup {Listener}
    BY LifecycleAssumption DEF Threads
<1>1. CASE Begin(t)
    BY <1>0, <1>1 DEF Begin
<1>2. CASE Check(t)
    BY <1>0, <1>2 DEF Check
<1>3. CASE Use(t)
    <2>1. Used(t) \subseteq live
        BY <1>0, <1>3 DEF Use, Used
    <2>2. t = Listener => lsock # "none"
        BY <1>3 DEF Use, Inv, Told
    <2> QED BY <1>0, <1>3, <2>1, <2>2 DEF Use, Touch, Strays
<1>4. CASE t = Listener /\ Suspend
    BY <1>0, <1>4 DEF Suspend
<1> QED BY <1>1, <1>2, <1>3, <1>4 DEF Run

\* A handler deletes nothing before it has set the flag.
LEMMA StandingHandler ==
    ASSUME LifeTypeOK, Inv, Standing, ~shutdown, exit = "no",
           NEW s \in Signals, sigtermHandler(s)
    PROVE  (shutdown' \/ Standing') /\ CrashOnlyInShutdown'
<1> USE DEF HandlerFrame, HandlerAt, HGoTo, CrashOnlyInShutdown
<1>1. CASE HandlerLogs(s)
    BY <1>1 DEF HandlerLogs, Standing
<1>2. CASE SetShutdown(s)
    BY <1>2 DEF SetShutdown
<1>3. hpc[s] \notin {"test", "close", "delete", "pid", "unlink", "sleep"}
    BY DEF Inv, Told
<1> QED BY <1>1, <1>2, <1>3
        DEF sigtermHandler, TestListenThread, CloseListener, DelTaskThread,
            FreeListenThread, HandlerPid, Unlink, Exit

LEMMA CrashlessNext == TypeOK /\ Inv /\ Crashless /\ [Next]_vars => Crashless'
<1> SUFFICES ASSUME TypeOK, Inv, Crashless, [Next]_vars PROVE Crashless'
    OBVIOUS
<1>1. LifeTypeOK
    BY DEF TypeOK, LifeTypeOK
<1>2. CASE UNCHANGED vars
    BY <1>2 DEF vars, serverVars, Crashless, Standing, CrashOnlyInShutdown
<1>3. CASE shutdown
    BY <1>3, ShutdownStays DEF Crashless, CrashOnlyInShutdown
<1>4. CASE ~shutdown /\ Next
    <2>1. Standing /\ exit = "no"
        BY <1>4 DEF Crashless, Next
    <2>2. CASE main
        BY <1>1, <1>4, <2>1, <2>2, StandingMain DEF Crashless
    <2>3. ASSUME NEW t \in Threads \ {Main}, Run(t) PROVE Crashless'
        BY <1>1, <1>4, <2>1, <2>3, StandingRun DEF Crashless
    <2>4. ASSUME NEW s \in Signals, sigtermHandler(s) PROVE Crashless'
        BY <1>1, <1>4, <2>1, <2>4, StandingHandler DEF Crashless
    <2>5. CASE \/ \E s \in Signals : Raise(s)
               \/ \E s \in Signals, t \in Threads : Deliver(s, t)
               \/ \E x \in Callers : LogStep(x)
        <3>1. UNCHANGED <<mpc, run, live, shutdown>> /\ exit' \in {"no", "killed"}
            BY <2>1, <2>5 DEF Raise, Deliver, LogStep, serverVars
        <3> QED BY <2>1, <3>1 DEF Crashless, Standing, CrashOnlyInShutdown
    <2> QED BY <1>4, <2>2, <2>3, <2>4, <2>5 DEF Next
<1> QED BY <1>2, <1>3, <1>4

\* Until a handler sets the flag, every object a thread uses is there, although the
\* workers run before the pool is complete and the listener's thread before its
\* constructor has returned (ListenThread.cpp:3-18, main.cpp:377-387): but for the
\* thread that Resume wakes and, in a pool of one, m_taskthread[1].
THEOREM CrashesOnlyInShutdown == Spec => []CrashOnlyInShutdown
<1>1. Init => Crashless
    BY LifecycleAssumption DEF Init, Crashless, Standing, CrashOnlyInShutdown, Threads
<1>2. Crashless => CrashOnlyInShutdown
    BY DEF Crashless
<1> QED BY <1>1, <1>2, CrashlessNext, LifeInductive, PTL DEF Spec
=============================================================================
