--------------------------- MODULE StartupProofs ---------------------------
(* Theorems about Startup, for every limit on descriptors, every number of  *)
(* workers and every configuration file.                                    *)
EXTENDS Startup, ConfigProofs

-----------------------------------------------------------------------------
(* The arithmetic of GetWorkerCapacity. *)

LEMMA DivMod ==
    ASSUME NEW a \in Nat, NEW b \in Nat, b >= 1
    PROVE  /\ a \div b \in Nat
           /\ b * (a \div b) <= a
           /\ a \div b >= 1 <=> a >= b
<1>1. a = b * (a \div b) + (a % b) /\ a % b \in 0 .. b - 1 /\ a \div b \in Int
    BY SMT
<1>2. PICK q \in Int : q = a \div b
    BY <1>1
<1>3. PICK r \in 0 .. b - 1 : a = b * q + r
    BY <1>1, <1>2
<1>4. q >= 0
    BY <1>3
<1>5. q >= 1 <=> a >= b
    BY <1>3
<1> QED BY <1>2, <1>3, <1>4, <1>5

\* C's division by two or by the number of workers, bounded from both sides.
LEMMA QuotientBounds ==
    ASSUME NEW a \in Int, NEW b \in Nat, b >= 1
    PROVE  /\ Quotient(a, b) \in Int
           /\ Quotient(a, b) >= 1 <=> a >= b
           /\ a >= 0 => b * Quotient(a, b) <= a
           /\ a < 0 => Quotient(a, b) <= 0
<1>1. CASE a >= 0
    <2>1. Quotient(a, b) = a \div b
        BY <1>1 DEF Quotient
    <2> QED BY <1>1, <2>1, DivMod
<1>2. CASE a < 0
    <2>1. PICK q \in Nat : q = (-a) \div b
        BY <1>2, DivMod
    <2>2. Quotient(a, b) = -q
        BY <1>2, <2>1 DEF Quotient
    <2> QED BY <1>2, <2>2
<1> QED BY <1>1, <1>2

\* A worker has room for a connection if, and only if, there are three descriptors
\* for it; and what the workers report uses up no more than half of what is left.
LEMMA Capacity ==
    ASSUME maxthreads \in Nat, maxthreads >= 1, NEW l \in Nat
    PROVE  /\ GetWorkerCapacity(l) \in Int
           /\ GetWorkerCapacity(l) >= 1 <=> l >= 4 + 3 * maxthreads
           /\ GetWorkerCapacity(l) >= 1 =>
                 2 * (maxthreads * GetWorkerCapacity(l)) <= l - 4 - maxthreads
<1>1. PICK t \in Nat : t = maxthreads /\ t >= 1
    OBVIOUS
<1>2. PICK d \in Int : d = l - (4 + t)
    OBVIOUS
<1>3. PICK h \in Int : h = Quotient(d, 2)
    BY QuotientBounds
<1>4. GetWorkerCapacity(l) = Quotient(h, t)
    <2>1. l - (3 + 1 + t) = d
        BY <1>2
    <2> QED BY <1>1, <1>3, <2>1 DEF GetWorkerCapacity, HalfOf, Reserved
<1>5. /\ Quotient(h, t) \in Int
      /\ Quotient(h, t) >= 1 <=> h >= t
      /\ h >= 0 => t * Quotient(h, t) <= h
    BY <1>1, QuotientBounds
<1>6. (h >= t <=> l >= 4 + 3 * t) /\ (h >= 1 => 2 * h <= d)
    <2>1. CASE d >= 0
        <3>1. h = d \div 2
            BY <1>3, <2>1 DEF Quotient
        <3> QED BY <1>2, <2>1, <3>1
    <2>2. CASE d < 0
        <3>1. h <= 0
            BY <1>3, <2>2, QuotientBounds
        <3> QED BY <1>1, <1>2, <2>2, <3>1
    <2> QED BY <2>1, <2>2
<1>7. Quotient(h, t) >= 1 => t * Quotient(h, t) <= h /\ 2 * h <= l - (4 + t)
    BY <1>1, <1>2, <1>5, <1>6
<1>8. PICK k \in Int : k = t * Quotient(h, t)
    BY <1>5
<1>9. Quotient(h, t) >= 1 => 2 * k <= l - 4 - t
    BY <1>7, <1>8
<1> QED BY <1>1, <1>4, <1>5, <1>6, <1>8, <1>9

-----------------------------------------------------------------------------
(* The pool and the socket. *)

SInv ==
    /\ CInv
    /\ stage \in {"config", "bind", "running", "rejected", "failed"}
    /\ stage = "config" => sets = 0
    /\ stage # "config" => phase = "loaded" /\ limit \in Limits /\ sets \in 0 .. maxthreads
    /\ stage # "running" => listening = NoWord
    /\ PoolSound /\ LeavesRoom

LEMMA SInvInit == StartInit => SInv
<1> SUFFICES ASSUME StartInit PROVE SInv
    OBVIOUS
<1>1. CInv
    BY CInvInit DEF StartInit
<1> QED BY <1>1 DEF StartInit, SInv, PoolSound, LeavesRoom

\* An accepted configuration has a worker at least.
LEMMA Workers ==
    ASSUME CInv, phase = "loaded"
    PROVE  maxthreads \in Nat /\ maxthreads >= 1
BY DEF CInv, Sound, InRange, NumberOptions, maxthreads

\* The loader that is done changes nothing more.
LEMMA LoadedStays ==
    ASSUME phase = "loaded", [loadServerConfig]_<<configVars, logVars>>
    PROVE  phase' = phase /\ server' = server
BY DEF loadServerConfig, ReadLine, EndOfFile, Report, Reading, configVars

LEMMA ConfigPart ==
    ASSUME CInv, [StartNext]_allVars
    PROVE  CInv'
<1>1. [loadServerConfig]_<<configVars, logVars>>
    BY DEF StartNext, allVars, InitTaskThread, Bind
<1> QED BY <1>1, CInvNext

\* The pool as the constructor leaves it.
LEMMA PoolMade ==
    ASSUME SInv, InitTaskThread
    PROVE  /\ limit' \in Limits /\ sets' \in 0 .. maxthreads
           /\ sets' = IF limit' >= 4 + 3 * maxthreads THEN maxthreads - refused' ELSE 0
<1>1. CInv /\ phase = "loaded" /\ listening = NoWord /\ sets = 0
    BY DEF SInv, InitTaskThread
<1>2. PICK t \in Nat : t = maxthreads /\ t >= 1
    BY <1>1, Workers
<1>3. PICK l \in Nat : l = limit' /\ l \in Limits /\ l >= 4
    BY StartupAssumption DEF InitTaskThread
<1>4. PICK f \in Nat : f = refused' /\ f <= t
    BY <1>2, StartupAssumption DEF InitTaskThread
<1>5. PICK c \in Int : c = GetWorkerCapacity(l) /\ (c >= 1 <=> l >= 4 + 3 * t)
    BY <1>2, Capacity
<1>6. Used = 3
    BY <1>1 DEF Used
<1>7. l >= 4 /\ f <= t /\ t >= 1 /\ (c >= 1 <=> l >= 4 + 3 * t)
    BY <1>2, <1>3, <1>4, <1>5
<1>8. limit' - Used = l - 3 /\ GetWorkerCapacity(limit') = c
    BY <1>3, <1>5, <1>6
<1>9. CASE c >= 1
    <2>1. t - f < l - 3
        BY <1>7, <1>9
    <2>2. sets' = t - f
        BY <1>2, <1>4, <1>8, <1>9, <2>1 DEF InitTaskThread
    <2>3. t - f \in 0 .. t
        BY <1>7
    <2> QED BY <1>2, <1>3, <1>4, <1>7, <1>9, <2>2, <2>3
<1>10. CASE ~(c >= 1)
    <2>1. 0 < l - 3
        BY <1>7
    <2>2. sets' = 0
        BY <1>8, <1>10, <2>1 DEF InitTaskThread
    <2> QED BY <1>2, <1>3, <1>7, <1>10, <2>2
<1> QED BY <1>9, <1>10

LEMMA SInvNext == SInv /\ [StartNext]_allVars => SInv'
<1> SUFFICES ASSUME SInv, [StartNext]_allVars PROVE SInv'
    OBVIOUS
<1>0. CInv'
    BY ConfigPart DEF SInv
<1>1. CASE loadServerConfig /\ UNCHANGED startVars
    <2>1. CASE stage = "config"
        BY <1>0, <1>1, <2>1 DEF SInv, startVars, PoolSound, LeavesRoom
    <2>2. CASE stage # "config"
        <3>1. phase' = phase /\ server' = server
            BY <1>1, <2>2, LoadedStays DEF SInv
        <3>2. maxthreads' = maxthreads /\ UNCHANGED startVars
            BY <1>1, <3>1 DEF maxthreads
        <3>3. PoolSound' /\ LeavesRoom'
            BY <3>2 DEF SInv, startVars, PoolSound, LeavesRoom, Used, GetWorkerCapacity,
                        HalfOf, Reserved
        <3> QED BY <1>0, <1>1, <2>2, <3>1, <3>2, <3>3 DEF SInv, startVars
    <2> QED BY <2>1, <2>2
<1>2. CASE InitTaskThread
    <2>1. /\ limit' \in Limits /\ sets' \in 0 .. maxthreads
          /\ sets' = IF limit' >= 4 + 3 * maxthreads THEN maxthreads - refused' ELSE 0
        BY <1>2, PoolMade
    <2>2. /\ stage' = "bind" /\ phase' = "loaded" /\ server' = server
          /\ listening' = listening /\ listening = NoWord
        BY <1>2 DEF InitTaskThread, configVars, SInv
    <2>3. maxthreads' = maxthreads
        BY <2>2 DEF maxthreads
    <2> QED BY <1>0, <2>1, <2>2, <2>3 DEF SInv, PoolSound, LeavesRoom
<1>3. CASE Bind
    <2>1. /\ stage = "bind" /\ phase' = phase /\ phase = "loaded" /\ server' = server
          /\ limit' = limit /\ sets' = sets /\ refused' = refused
          /\ limit \in Limits /\ sets \in 0 .. maxthreads
        BY <1>3 DEF Bind, configVars, SInv
    <2>2. maxthreads' = maxthreads
        BY <2>1 DEF maxthreads
    <2>3. PoolSound' /\ stage' \in {"running", "rejected", "failed"}
        BY <1>3, <2>1, <2>2 DEF Bind, GivenAddress, BindTo, RejectedAddress, BindFails,
                                SInv, PoolSound
    <2>4. stage' # "running" => listening' = NoWord
        BY <1>3 DEF Bind, GivenAddress, BindTo, RejectedAddress, BindFails, SInv
    <2>5. ASSUME stage' = "running" PROVE LeavesRoom'
        <3>1. PICK t \in Nat : t = maxthreads /\ t >= 1
            BY <2>1, Workers DEF SInv
        <3>2. PICK l \in Nat : l = limit /\ l >= 4
            BY <2>1, StartupAssumption
        <3>3. PICK c \in Int :
                  /\ c = GetWorkerCapacity(l)
                  /\ c >= 1 <=> l >= 4 + 3 * t
                  /\ c >= 1 => 2 * (t * c) <= l - 4 - t
            BY <3>1, Capacity
        <3>4. GetWorkerCapacity(limit)' = c
            BY <2>1, <2>2, <3>2, <3>3 DEF GetWorkerCapacity, HalfOf, Reserved
        <3>5. PICK u \in Nat : u = sets /\ u <= t /\ (c < 1 => u = 0)
            <4>1. sets = IF l >= 4 + 3 * t THEN t - refused ELSE 0
                BY <2>1, <3>1, <3>2 DEF SInv, PoolSound
            <4> QED BY <2>1, <3>1, <3>3, <4>1
        <3>6. Used' <= 4 + u /\ Used' \in Nat
            BY <2>1, <3>5 DEF Used
        <3>7. 2 * t * c <= l - (4 + u)
            <4>1. CASE c >= 1
                <5>1. 2 * t * c = 2 * (t * c)
                    OBVIOUS
                <5> QED BY <3>1, <3>2, <3>3, <3>5, <4>1, <5>1
            <4>2. CASE c < 1
                <5>1. t * c <= 0
                    BY <4>2
                <5>2. 2 * t * c = 2 * (t * c)
                    OBVIOUS
                <5> QED BY <3>2, <3>5, <4>2, <5>1, <5>2
            <4> QED BY <4>1, <4>2
        <3>8. limit' - Used' >= 2 * t * c
            <4>1. PICK k \in Int : k = 2 * t * c
                OBVIOUS
            <4>2. PICK v \in Nat : v = Used' /\ v <= 4 + u
                BY <3>6
            <4>3. limit' = l
                BY <2>1, <3>2
            <4>4. k <= l - (4 + u) /\ v <= 4 + u
                BY <3>7, <4>1, <4>2
            <4>5. l - v >= k
                BY <4>4
            <4> QED BY <4>1, <4>2, <4>3, <4>5
        <3> QED BY <2>2, <3>1, <3>4, <3>8 DEF LeavesRoom
    <2>6. LeavesRoom'
        BY <2>5 DEF LeavesRoom
    <2> QED BY <1>0, <2>1, <2>2, <2>3, <2>4, <2>6 DEF SInv
<1>4. CASE UNCHANGED allVars
    <2>1. phase' = phase /\ server' = server /\ UNCHANGED startVars
        BY <1>4 DEF allVars, configVars
    <2>2. maxthreads' = maxthreads
        BY <2>1 DEF maxthreads
    <2>3. PoolSound' /\ LeavesRoom'
        BY <2>1, <2>2 DEF SInv, startVars, PoolSound, LeavesRoom, Used, GetWorkerCapacity,
                          HalfOf, Reserved
    <2> QED BY <1>0, <2>1, <2>2, <2>3 DEF SInv, startVars
<1> QED BY <1>1, <1>2, <1>3, <1>4 DEF StartNext

THEOREM StartInductive == StartSpec => []SInv
BY SInvInit, SInvNext, PTL DEF StartSpec

\* Which workers have an epoll set is decided by the limit on descriptors alone,
\* for every limit and every number of workers (ListenThread.cpp:63-125).
THEOREM PoolIsSound == StartSpec => []PoolSound
<1>1. SInv => PoolSound
    BY DEF SInv
<1> QED BY <1>1, StartInductive, PTL

\* The capacity never promises more connections than there are descriptors for
\* (ListenThread.cpp:104-125).
THEOREM RoomLeft == StartSpec => []LeavesRoom
<1>1. SInv => LeavesRoom
    BY DEF SInv
<1> QED BY <1>1, StartInductive, PTL
=============================================================================
