-------------------------------- MODULE Log --------------------------------
(***************************************************************************)
(* myepollLog and myepollLogRaw (main.cpp, and the same text in Test.cpp): *)
(* the one lock of the program, g_LogFileMutex, around the filter by       *)
(* verbosity and the writing of one line.                                  *)
(*                                                                         *)
(* A caller is one thread of execution through myepollLog: a thread, or a  *)
(* signal handler that runs on top of one.  g_LogFileMutex is a default    *)
(* mutex: whoever finds it taken waits, its own thread included.  What the *)
(* line says is left out.                                                  *)
(***************************************************************************)
EXTENDS Integers

CONSTANTS
    Callers,    \* who may be inside myepollLog
    Free,       \* g_LogFileMutex has no owner
    Verbosities \* the levels the server may be configured with

MY_DEBUG == 0
MY_VERBOSE == 1
MY_NOTICE == 2
MY_WARNING == 3
Levels == {MY_DEBUG, MY_VERBOSE, MY_NOTICE, MY_WARNING}

ASSUME LogAssumption == Free \notin Callers /\ Verbosities \subseteq Levels

VARIABLES
    owner,      \* who holds g_LogFileMutex
    at,         \* [Callers -> where the caller is in myepollLog]
    level,      \* [Callers -> the level of its call]
    verbosity   \* g_Server.verbosity, which is loaded once

logVars == <<owner, at, level, verbosity>>

LogInit ==
    /\ owner = Free
    /\ at = [x \in Callers |-> "out"]
    /\ level = [x \in Callers |-> MY_DEBUG]
    /\ verbosity \in Verbosities

ProceedTo(x, there) == at' = [at EXCEPT ![x] = there]

\* A statement of the program calls myepollLog(l, ...).
LogCall(x, l) ==
    /\ at[x] = "out"
    /\ level' = [level EXCEPT ![x] = l]
    /\ ProceedTo(x, "lock")
    /\ UNCHANGED <<owner, verbosity>>

\* pthread_mutex_lock(&g_LogFileMutex)
LockBlind(x) ==    \* mutant: no lock
    at[x] = "lock" /\ ProceedTo(x, "filter") /\ UNCHANGED <<owner, level, verbosity>>

Lock(x) ==
    /\ at[x] = "lock" /\ owner = Free
    /\ owner' = x
    /\ ProceedTo(x, "filter")
    /\ UNCHANGED <<level, verbosity>>

\* if ((level & 0xff) < g_Server.verbosity) return: without an unlock.
Filtered(x) ==
    /\ at[x] = "filter" /\ level[x] < verbosity
    /\ ProceedTo(x, "out")
    /\ UNCHANGED <<owner, level, verbosity>>

\* myepollLogRaw opens the log, or has stdout; when it cannot, nothing is written.
OpenLog(x) ==
    /\ at[x] = "filter" /\ level[x] >= verbosity
    /\ ProceedTo(x, "write") \/ ProceedTo(x, "unlock")
    /\ UNCHANGED <<owner, level, verbosity>>

\* The fprintf, fflush and fclose of one line.
WriteLine(x) ==
    /\ at[x] = "write"
    /\ ProceedTo(x, "unlock")
    /\ UNCHANGED <<owner, level, verbosity>>

\* pthread_mutex_unlock(&g_LogFileMutex)
UnlockForgotten(x) ==    \* mutant: no unlock
    at[x] = "unlock" /\ ProceedTo(x, "out") /\ UNCHANGED <<owner, level, verbosity>>

Unlock(x) ==
    /\ at[x] = "unlock"
    /\ owner' = Free
    /\ ProceedTo(x, "out")
    /\ UNCHANGED <<level, verbosity>>

myepollLog(x) == Lock(x) \/ Filtered(x) \/ OpenLog(x) \/ WriteLine(x) \/ Unlock(x)

LogNext == \E x \in Callers : myepollLog(x) \/ \E l \in Levels : LogCall(x, l)

LogSpec == LogInit /\ [][LogNext]_logVars

\* Threads run on, and a mutex that is free again and again is obtained by each
\* that waits for it.
LogFairSpec ==
    /\ LogSpec
    /\ \A x \in Callers : WF_logVars(myepollLog(x)) /\ SF_logVars(Lock(x))

-----------------------------------------------------------------------------
LogTypeOK ==
    /\ owner \in Callers \cup {Free}
    /\ at \in [Callers -> {"out", "lock", "filter", "write", "unlock"}]
    /\ level \in [Callers -> Levels]
    /\ verbosity \in Levels

\* No two callers write at a time: lines are whole, and FILEs are not shared
\* (main.cpp:26-73), whether or not the filter left the lock behind.
WriterAlone ==
    \A x, y \in Callers : at[x] = "write" /\ at[y] = "write" => x = y

\* A caller that has returned still holds the lock only if its message was below
\* the level, and one that waits for itself does so only above the lowest level
\* (main.cpp:81-100).  An owner that has not returned may keep the lock for as long
\* as a handler interrupts it: nothing is said of that here.
LockGivenBack ==
    \A x \in Callers : owner = x =>
        /\ at[x] = "out" => level[x] < verbosity
        /\ at[x] = "lock" => verbosity # MY_DEBUG

\* Every call returns.  myepoll.conf:24-29 offers the levels "verbose", "notice
\* (moderately verbose, what you want in production probably)" and "warning".
CallsReturn == \A x \in Callers : at[x] = "lock" ~> at[x] = "out"
=============================================================================
