----------------------------- MODULE LogProofs -----------------------------
(* Theorems about Log, for every set of callers and every verbosity. *)
EXTENDS Log, TLAPS

\* Whoever is past the lock holds it, until it returns.
HolderInside ==
    \A x \in Callers : at[x] \in {"filter", "write", "unlock"} => owner = x

LInv == LogTypeOK /\ HolderInside

LEMMA LInvInit == LogInit => LInv
BY LogAssumption DEF LogInit, LInv, LogTypeOK, HolderInside, Levels, MY_DEBUG

LEMMA LInvNext == LInv /\ [LogNext]_logVars => LInv'
<1> SUFFICES ASSUME LInv, [LogNext]_logVars PROVE LInv'
    OBVIOUS
<1> USE DEF LInv, LogTypeOK, HolderInside, ProceedTo
<1>1. ASSUME NEW x \in Callers, NEW l \in Levels, LogCall(x, l) PROVE LInv'
    BY <1>1 DEF LogCall
<1>2. ASSUME NEW x \in Callers, Lock(x) PROVE LInv'
    BY <1>2, LogAssumption DEF Lock
<1>3. ASSUME NEW x \in Callers, Filtered(x) PROVE LInv'
    BY <1>3 DEF Filtered
<1>4. ASSUME NEW x \in Callers, OpenLog(x) PROVE LInv'
    BY <1>4 DEF OpenLog
<1>5. ASSUME NEW x \in Callers, WriteLine(x) PROVE LInv'
    BY <1>5 DEF WriteLine
<1>6. ASSUME NEW x \in Callers, Unlock(x) PROVE LInv'
    BY <1>6 DEF Unlock
<1>7. CASE UNCHANGED logVars
    BY <1>7 DEF logVars
<1> QED BY <1>1, <1>2, <1>3, <1>4, <1>5, <1>6, <1>7 DEF LogNext, myepollLog

\* No two callers write to the log at a time (main.cpp:81-100), at any level.
THEOREM LinesWhole == LogSpec => []WriterAlone
<1>1. LInv => WriterAlone
    BY DEF LInv, HolderInside, WriterAlone
<1> QED BY <1>1, LInvInit, LInvNext, PTL DEF LogSpec

\* What every caller knows of the lock while it holds it.
LEMMA LockGivenBackNext ==
    LInv /\ LockGivenBack /\ [LogNext]_logVars => LockGivenBack'
<1> SUFFICES ASSUME LInv, LockGivenBack, [LogNext]_logVars PROVE LockGivenBack'
    OBVIOUS
<1> USE LogAssumption
    DEF LInv, LogTypeOK, HolderInside, LockGivenBack, ProceedTo, Levels,
        MY_DEBUG, MY_VERBOSE, MY_NOTICE, MY_WARNING
<1>1. ASSUME NEW x \in Callers, NEW l \in Levels, LogCall(x, l) PROVE LockGivenBack'
    BY <1>1 DEF LogCall
<1>2. ASSUME NEW x \in Callers, Lock(x) PROVE LockGivenBack'
    BY <1>2 DEF Lock
<1>3. ASSUME NEW x \in Callers, Filtered(x) PROVE LockGivenBack'
    BY <1>3 DEF Filtered
<1>4. ASSUME NEW x \in Callers, OpenLog(x) \/ WriteLine(x) PROVE LockGivenBack'
    BY <1>4 DEF OpenLog, WriteLine
<1>5. ASSUME NEW x \in Callers, Unlock(x) PROVE LockGivenBack'
    BY <1>5 DEF Unlock
<1>6. CASE UNCHANGED logVars
    BY <1>6 DEF logVars
<1> QED BY <1>1, <1>2, <1>3, <1>4, <1>5, <1>6 DEF LogNext, myepollLog

\* A caller that has returned from myepollLog still holds the lock only if its
\* message was filtered, and above the lowest level alone does one wait for itself
\* inside it (main.cpp:81-100).  Of owners that have not returned nothing is said.
THEOREM OnlyFilteredKeeps == LogSpec => []LockGivenBack
<1>1. LogInit => LockGivenBack
    BY LogAssumption DEF LogInit, LockGivenBack
<1> QED BY <1>1, LInvInit, LInvNext, LockGivenBackNext, PTL DEF LogSpec
=============================================================================
