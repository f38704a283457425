---------------------------- MODULE ConfigProofs ----------------------------
(* Theorems about Config, for every set of lines and every length of file. *)
EXTENDS Config, LogProofs

\* Each limit that is stored passed its test.
Sound ==
    \A o \in NumberOptions : server[o] \in Int /\ InRange(o, server[o])

CInv ==
    /\ phase \in {"reading", "loaded", "failed"}
    /\ NumberOptions \subseteq DOMAIN server
    /\ phase # "failed" => Sound

LEMMA CInvInit == initServerConfig => CInv
<1> SUFFICES ASSUME initServerConfig PROVE CInv
    OBVIOUS
<1>1. phase = "reading" /\ server = Default
    BY DEF initServerConfig
<1>2. /\ NumberOptions \subseteq DOMAIN Default
      /\ Default["port"] = 8090 /\ Default["timeout"] = 0
      /\ Default["maxclients"] = 10000 /\ Default["maxthreads"] = 10
    BY DEF Default, NumberOptions
<1>3. Sound
    BY <1>1, <1>2 DEF Sound, NumberOptions, InRange
<1> QED BY <1>1, <1>2, <1>3 DEF CInv

\* The loader goes on, or stops for good, with the limits it had.
LEMMA SameLimits ==
    ASSUME CInv, DOMAIN server' = DOMAIN server,
           \A o \in NumberOptions : server'[o] = server[o],
           phase' \in {phase, "failed"}
    PROVE  CInv'
<1>1. Sound => Sound'
    BY DEF Sound
<1> QED BY <1>1 DEF CInv

\* An assignment to one option leaves the others alone.
LEMMA Stores ==
    ASSUME CInv, NEW o, NEW v, server' = [server EXCEPT ![o] = v]
    PROVE  /\ DOMAIN server' = DOMAIN server
           /\ \A p \in NumberOptions : server'[p] = IF p = o THEN v ELSE server[p]
BY DEF CInv

\* A number is either in range, or the loader stops.
LEMMA SetNumberSound ==
    ASSUME CInv, NEW l \in Lines, SetNumber(l)
    PROVE  CInv'
<1>1. server' = [server EXCEPT ![l.option] = l.number]
    BY DEF SetNumber, Store
<1>2. /\ DOMAIN server' = DOMAIN server
      /\ \A p \in NumberOptions :
            server'[p] = IF p = l.option THEN l.number ELSE server[p]
    BY <1>1, Stores
<1>3. CASE phase' = "failed"
    BY <1>2, <1>3 DEF CInv
<1>4. CASE InRange(l.option, l.number) /\ phase' = phase
    <2>1. l.number \in Int
        BY ConfigFileAssumption
    <2>2. Sound => Sound'
        BY <1>2, <1>4, <2>1 DEF Sound
    <2> QED BY <1>2, <1>4, <2>2 DEF CInv
<1> QED BY <1>3, <1>4 DEF SetNumber, ContinueIf, Continue, Fail

LEMMA OptionSound ==
    ASSUME CInv, NEW l \in Lines, Option(l)
    PROVE  CInv'
<1>1. ASSUME SetWord(l) PROVE CInv'
    <2>1. l.option \notin NumberOptions /\ phase' = phase
        BY <1>1 DEF SetWord, WordOptions, NumberOptions, Continue
    <2>2. server' = [server EXCEPT ![l.option] = l.word]
        BY <1>1 DEF SetWord, Store
    <2> QED BY <2>1, <2>2, Stores, SameLimits
<1>2. ASSUME Daemonize(l) PROVE CInv'
    <2>1. "daemonize" \notin NumberOptions /\ phase' \in {phase, "failed"}
        BY <1>2 DEF Daemonize, NumberOptions, ContinueIf, Continue, Fail
    <2>2. CASE server' = server
        BY <2>1, <2>2, SameLimits
    <2>3. ASSUME NEW v, server' = [server EXCEPT !["daemonize"] = v] PROVE CInv'
        BY <2>1, <2>3, Stores, SameLimits
    <2> QED BY <1>2, <2>2, <2>3 DEF Daemonize
<1>3. ASSUME Loglevel(l) PROVE CInv'
    <2>1. server' = server /\ phase' \in {phase, "failed"}
        BY <1>3 DEF Loglevel, Fail
    <2> QED BY <2>1, SameLimits
<1>4. ASSUME Logfile(l) PROVE CInv'
    <2>1. l.option \notin NumberOptions /\ phase' \in {phase, "failed"}
        BY <1>4 DEF Logfile, NumberOptions, ContinueIf, Continue, Fail
    <2>2. CASE server' = server
        BY <2>1, <2>2, SameLimits
    <2>3. CASE server' = [server EXCEPT ![l.option] = l.word]
        BY <2>1, <2>3, Stores, SameLimits
    <2> QED BY <1>4, <2>2, <2>3 DEF Logfile, Store
<1>5. ASSUME Unknown(l) PROVE CInv'
    <2>1. server' = server /\ phase' = phase
        BY <1>5 DEF Unknown
    <2> QED BY <2>1, SameLimits
<1> QED BY <1>1, <1>2, <1>3, <1>4, <1>5, SetNumberSound DEF Option

LEMMA CInvNext == CInv /\ [loadServerConfig]_<<configVars, logVars>> => CInv'
<1> SUFFICES ASSUME CInv, [loadServerConfig]_<<configVars, logVars>> PROVE CInv'
    OBVIOUS
<1>1. ASSUME NEW l \in Lines, ReadLine(l) PROVE CInv'
    <2>1. CASE Option(l)
        BY <2>1, OptionSound
    <2>2. CASE Skip(l) \/ MissingArgument(l)
        <3>1. server' = server /\ phase' \in {phase, "failed"}
            BY <2>2 DEF Skip, MissingArgument, Continue, Fail
        <3> QED BY <3>1, SameLimits
    <2> QED BY <1>1, <2>1, <2>2 DEF ReadLine
<1>2. CASE EndOfFile
    <2>1. Sound => Sound'
        BY <1>2 DEF EndOfFile, Sound
    <2> QED BY <1>2, <2>1 DEF EndOfFile, Reading, CInv
<1>3. CASE Report \/ UNCHANGED <<configVars, logVars>>
    <2>1. server' = server /\ phase' = phase
        BY <1>3 DEF Report, configVars
    <2> QED BY <2>1, SameLimits
<1> QED BY <1>1, <1>2, <1>3 DEF loadServerConfig

\* Whatever the file says, the limits of an accepted configuration are in their
\* ranges (main.cpp:102-332): EpollServer's ConfigAssumption holds of them.
THEOREM LoadsInRange == Spec => []LoadedInRange
<1>1. CInv => LoadedInRange
    BY DEF CInv, Sound, InRange, NumberOptions, LoadedInRange
<1> QED BY <1>1, CInvInit, CInvNext, PTL DEF Spec

-----------------------------------------------------------------------------
(* The history of the file.  LastLineWins is about the end; it is kept up by *)
(* every line that does not stop the loader.                                 *)

Decided == Options \ {"logfile"}

Told ==
    /\ read \in Seq(Lines)
    /\ DOMAIN server = DOMAIN Default
    /\ phase # "failed" => \A o \in Decided : LastSays(o)

LEMMA ToldInit == initServerConfig => Told
<1> SUFFICES ASSUME initServerConfig PROVE Told
    OBVIOUS
<1>1. read = <<>> /\ server = Default /\ verbosity = MY_DEBUG
    BY ConfigFileAssumption DEF initServerConfig, LogInit
<1>2. \A o : Naming(o) = {}
    BY <1>1 DEF Naming
<1> QED BY <1>1, <1>2 DEF Told, LastSays, Value, Otherwise

\* The lines that name o, when one more has been read.
LEMMA NamingAppend ==
    ASSUME read \in Seq(Lines), NEW l \in Lines, read' = Append(read, l), NEW o
    PROVE  /\ Naming(o)' = Naming(o) \cup (IF l.option = o THEN {Len(read) + 1} ELSE {})
           /\ Naming(o) \subseteq 1 .. Len(read)
           /\ \A i \in Naming(o) : read'[i] = read[i]
           /\ read'[Len(read) + 1] = l
<1>1. /\ DOMAIN read = 1 .. Len(read) /\ Len(read) \in Nat
      /\ DOMAIN read' = 1 .. Len(read) + 1
      /\ \A i \in 1 .. Len(read) : read'[i] = read[i]
      /\ read'[Len(read) + 1] = l
    OBVIOUS
<1> QED BY <1>1 DEF Naming

\* A line that names the option and is stored is the last one.
LEMMA Says ==
    ASSUME read \in Seq(Lines), NEW l \in Lines, read' = Append(read, l), NEW o,
           l.option = o, Value(o)' = Meaning(l)
    PROVE  LastSays(o)'
<1>1. PICK k \in Nat : k = Len(read) + 1
    OBVIOUS
<1>2. /\ Naming(o)' = Naming(o) \cup {k}
      /\ Naming(o) \subseteq 1 .. Len(read)
      /\ read'[k] = l
    BY <1>1, NamingAppend
<1>3. \A j \in Naming(o)' : j <= k
    BY <1>1, <1>2
<1>4. Value(o)' = Meaning(read[k])'
    BY <1>2 DEF Meaning
<1> QED BY <1>2, <1>3, <1>4 DEF LastSays

\* A line that names another changes nothing.
LEMMA SaysStill ==
    ASSUME read \in Seq(Lines), NEW l \in Lines, read' = Append(read, l), NEW o,
           l.option # o, Value(o)' = Value(o), LastSays(o)
    PROVE  LastSays(o)'
<1>1. Naming(o)' = Naming(o) /\ \A i \in Naming(o) : read'[i] = read[i]
    <2>1. /\ Naming(o)' = Naming(o) \cup (IF l.option = o THEN {Len(read) + 1} ELSE {})
          /\ \A i \in Naming(o) : read'[i] = read[i]
        BY NamingAppend
    <2> QED BY <2>1
<1>2. CASE Naming(o) = {}
    BY <1>1, <1>2 DEF LastSays, Otherwise
<1>3. CASE Naming(o) # {}
    <2>1. PICK i \in Naming(o) :
              (\A j \in Naming(o) : j <= i) /\ Value(o) = Meaning(read[i])
        BY <1>3 DEF LastSays
    <2>2. Meaning(read[i])' = Meaning(read[i])
        BY <1>1 DEF Meaning
    <2> QED BY <1>1, <1>3, <2>1, <2>2 DEF LastSays
<1> QED BY <1>2, <1>3

\* One line does to g_Server what it says, or nothing, or stops the loader.
LEMMA LineStores ==
    ASSUME DOMAIN server = DOMAIN Default, NEW l \in Lines,
           Skip(l) \/ MissingArgument(l) \/ Option(l)
    PROVE  /\ DOMAIN server' = DOMAIN Default
           /\ phase' # "failed" => \A o \in Decided :
                 Value(o)' = IF l.option = o THEN Meaning(l) ELSE Value(o)
<1> USE DEF Meaning, Decided, Value
<1>0. /\ DOMAIN Default = NumberOptions \cup WordOptions \cup {"daemonize", "logfile"}
      /\ Options = NumberOptions \cup WordOptions \cup {"daemonize", "loglevel", "logfile"}
      /\ {"daemonize", "loglevel", "logfile"} \cap (NumberOptions \cup WordOptions) = {}
      /\ NumberOptions \cap WordOptions = {}
      /\ "" \notin Options
    BY DEF Default, NumberOptions, WordOptions, Options
<1>1. CASE Skip(l)
    <2>1. server' = server /\ verbosity' = verbosity /\ l.option = ""
        BY <1>1 DEF Skip, Continue, logVars
    <2> QED BY <1>0, <2>1
<1>2. CASE MissingArgument(l)
    BY <1>2 DEF MissingArgument, Fail
<1>3. CASE SetNumber(l)
    <2>1. /\ server' = [server EXCEPT ![l.option] = l.number]
          /\ l.option \in NumberOptions /\ verbosity' = verbosity
        BY <1>3 DEF SetNumber, Store, ContinueIf, Continue, Fail, LogCall, logVars
    <2> QED BY <1>0, <2>1
<1>4. CASE SetWord(l)
    <2>1. /\ server' = [server EXCEPT ![l.option] = l.word]
          /\ l.option \in WordOptions /\ verbosity' = verbosity
        BY <1>4 DEF SetWord, Store, Continue, logVars
    <2> QED BY <1>0, <2>1
<1>5. CASE Daemonize(l)
    <2>1. l.option = "daemonize" /\ verbosity' = verbosity
        BY <1>5 DEF Daemonize, ContinueIf, Continue, Fail, LogCall, logVars
    <2>2. CASE l.word \in {"yes", "no"}
        <3>1. server' = [server EXCEPT !["daemonize"] = (l.word = "yes")]
            BY <1>5, <2>2 DEF Daemonize
        <3> QED BY <1>0, <2>1, <3>1
    <2>3. CASE l.word \notin {"yes", "no"}
        BY <1>5, <2>3 DEF Daemonize, ContinueIf, Fail
    <2> QED BY <2>2, <2>3
<1>6. CASE Loglevel(l)
    <2>1. l.option = "loglevel" /\ server' = server
        BY <1>6 DEF Loglevel
    <2>2. CASE verbosity' = LevelNamed[l.word]
        BY <1>0, <2>1, <2>2
    <2>3. CASE Fail
        BY <2>1, <2>3 DEF Fail
    <2> QED BY <1>6, <2>2, <2>3 DEF Loglevel
<1>7. CASE Logfile(l)
    <2>1. l.option = "logfile" /\ verbosity' = verbosity
        BY <1>7 DEF Logfile, ContinueIf, Continue, Fail, LogCall, logVars
    <2>2. server' = server \/ server' = [server EXCEPT !["logfile"] = l.word]
        BY <1>7, <2>1 DEF Logfile, Store
    <2> QED BY <1>0, <2>1, <2>2
<1>8. CASE Unknown(l)
    <2>1. server' = server /\ verbosity' = verbosity /\ l.option \notin Options
        BY <1>8 DEF Unknown, LogCall
    <2> QED BY <1>0, <2>1
<1> QED BY <1>1, <1>2, <1>3, <1>4, <1>5, <1>6, <1>7, <1>8 DEF Option

LEMMA ToldNext == Told /\ [loadServerConfig]_<<configVars, logVars>> => Told'
<1> SUFFICES ASSUME Told, [loadServerConfig]_<<configVars, logVars>> PROVE Told'
    OBVIOUS
<1>1. ASSUME NEW l \in Lines, ReadLine(l) PROVE Told'
    <2>1. phase = "reading" /\ read' = Append(read, l) /\ read' \in Seq(Lines)
        BY <1>1 DEF ReadLine, Reading, Told
    <2>2. /\ DOMAIN server' = DOMAIN Default
          /\ phase' # "failed" => \A o \in Decided :
                Value(o)' = IF l.option = o THEN Meaning(l) ELSE Value(o)
        BY <1>1, LineStores DEF ReadLine, Told
    <2>3. ASSUME phase' # "failed", NEW o \in Decided PROVE LastSays(o)'
        <3>1. LastSays(o) /\ read \in Seq(Lines)
            BY <2>1 DEF Told
        <3>2. CASE l.option = o
            BY <2>1, <2>2, <2>3, <3>1, <3>2, Says
        <3>3. CASE l.option # o
            BY <2>1, <2>2, <2>3, <3>1, <3>3, SaysStill
        <3> QED BY <3>2, <3>3
    <2> QED BY <2>1, <2>2, <2>3 DEF Told
<1>2. CASE EndOfFile \/ Report \/ UNCHANGED <<configVars, logVars>>
    <2>1. read' = read /\ server' = server /\ (phase' = phase \/ phase = "reading")
        BY <1>2 DEF EndOfFile, Report, Reading, configVars
    <2>2. verbosity' = verbosity
        BY <1>2 DEF EndOfFile, Report, myepollLog, Lock, Filtered, OpenLog, WriteLine,
                    Unlock, logVars
    <2>3. \A o : LastSays(o) => LastSays(o)'
        BY <2>1, <2>2 DEF LastSays, Naming, Meaning, Value, Otherwise
    <2> QED BY <2>1, <2>3 DEF Told
<1> QED BY <1>1, <1>2 DEF loadServerConfig

\* The last line for an option decides, in a file of any length
\* (main.cpp:139-324), for every option but logfile.
THEOREM LastLineDecides == Spec => []LastLineWins
<1>1. Told => LastLineWins
    BY DEF Told, Decided, LastLineWins
<1> QED BY <1>1, ToldInit, ToldNext, PTL DEF Spec

-----------------------------------------------------------------------------
(* Types, and the loader that blocks itself. *)

\* What one line does to the log's variables: nothing, one call, or a new level
\* between two calls.
LEMMA LineLogs ==
    ASSUME NEW l \in Lines, Skip(l) \/ MissingArgument(l) \/ Option(l)
    PROVE  \/ UNCHANGED logVars
           \/ LogCall(Main, MY_WARNING) /\ phase' = "failed"
           \/ LogCall(Main, MY_NOTICE) /\ l.option \notin Options \cup {""}
           \/ /\ l.option = "loglevel" /\ l.word \in DOMAIN LevelNamed
              /\ verbosity' = LevelNamed[l.word] /\ UNCHANGED <<owner, at, level>>
BY DEF Skip, MissingArgument, Option, SetNumber, SetWord, Daemonize, Loglevel, Logfile,
       Unknown, ContinueIf, Continue, Fail

LEMMA LevelsNamed ==
    ASSUME NEW w \in DOMAIN LevelNamed
    PROVE  LevelNamed[w] \in Levels /\ (LevelNamed[w] = MY_WARNING => w = "warning")
BY DEF LevelNamed, Levels, MY_DEBUG, MY_VERBOSE, MY_NOTICE, MY_WARNING

LEMMA LogTypeNext ==
    ASSUME LogTypeOK, [loadServerConfig]_<<configVars, logVars>>
    PROVE  LogTypeOK'
<1> USE ConfigFileAssumption DEF LogTypeOK
<1>1. ASSUME NEW l \in Lines, ReadLine(l) PROVE LogTypeOK'
    <2>1. CASE UNCHANGED logVars
        BY <2>1 DEF logVars
    <2>2. ASSUME NEW k \in Levels, LogCall(Main, k) PROVE LogTypeOK'
        BY <2>2 DEF LogCall, ProceedTo
    <2>3. CASE /\ l.word \in DOMAIN LevelNamed
               /\ verbosity' = LevelNamed[l.word] /\ UNCHANGED <<owner, at, level>>
        BY <2>3, LevelsNamed
    <2>4. MY_WARNING \in Levels /\ MY_NOTICE \in Levels
        BY DEF Levels
    <2>5. Skip(l) \/ MissingArgument(l) \/ Option(l)
        BY <1>1 DEF ReadLine
    <2> QED BY <2>1, <2>2, <2>3, <2>4, <2>5, LineLogs
<1>2. CASE Report
    BY <1>2, LogAssumption
    DEF Report, myepollLog, Lock, Filtered, OpenLog, WriteLine, Unlock, ProceedTo
<1>3. CASE EndOfFile \/ UNCHANGED <<configVars, logVars>>
    BY <1>3 DEF EndOfFile, logVars
<1> QED BY <1>1, <1>2, <1>3 DEF loadServerConfig

\* A line "loglevel warning", and the notice it silences.
Warns(i) == read[i].option = "loglevel" /\ read[i].word = "warning"

SilencedNotice ==
    \E i, j \in DOMAIN read :
        i < j /\ Warns(i) /\ read[j].option \notin Options \cup {""}

BInv ==
    /\ LogTypeOK /\ read \in Seq(Lines)
    /\ owner = Main /\ at[Main] \in {"out", "lock"} => SilencedNotice
    /\ verbosity = MY_WARNING => \E i \in DOMAIN read : Warns(i)
    /\ at[Main] # "out" =>
          \/ level[Main] = MY_WARNING
          \/ level[Main] = MY_NOTICE /\ (verbosity = MY_WARNING => SilencedNotice)

LEMMA BInvInit == initServerConfig => BInv
<1> SUFFICES ASSUME initServerConfig PROVE BInv
    OBVIOUS
<1>1. LogTypeOK
    BY LInvInit DEF initServerConfig, LInv
<1> QED BY <1>1, ConfigFileAssumption, LogAssumption
        DEF initServerConfig, LogInit, BInv, MY_DEBUG, MY_WARNING

\* What the file has shown, it still shows after one more line.
LEMMA SilencedStays ==
    ASSUME read \in Seq(Lines), NEW l \in Lines, read' = Append(read, l)
    PROVE  /\ SilencedNotice => SilencedNotice'
           /\ (\E i \in DOMAIN read : Warns(i)) => (\E i \in DOMAIN read : Warns(i))'
           /\ l.option = "loglevel" /\ l.word = "warning" =>
                 (\E i \in DOMAIN read : Warns(i))'
           /\ l.option \notin Options \cup {""} /\ (\E i \in DOMAIN read : Warns(i)) =>
                 SilencedNotice'
<1>1. /\ DOMAIN read = 1 .. Len(read) /\ Len(read) \in Nat
      /\ DOMAIN read' = 1 .. Len(read) + 1
      /\ \A i \in 1 .. Len(read) : read'[i] = read[i]
      /\ read'[Len(read) + 1] = l
    OBVIOUS
<1>2. \A i \in DOMAIN read :
          i \in DOMAIN read' /\ read'[i] = read[i] /\ Warns(i)' = Warns(i)
    BY <1>1 DEF Warns
<1>3. SilencedNotice => SilencedNotice'
    BY <1>2 DEF SilencedNotice
<1>4. (\E i \in DOMAIN read : Warns(i)) => (\E i \in DOMAIN read : Warns(i))'
    BY <1>2
<1>5. l.option = "loglevel" /\ l.word = "warning" => (\E i \in DOMAIN read : Warns(i))'
    BY <1>1 DEF Warns
<1>6. ASSUME l.option \notin Options \cup {""}, \E i \in DOMAIN read : Warns(i)
      PROVE  SilencedNotice'
    <2>1. PICK i \in DOMAIN read : Warns(i)
        BY <1>6
    <2>2. PICK k \in DOMAIN read' : k = Len(read) + 1 /\ i < k /\ read'[k] = l
        BY <1>1
    <2> QED BY <1>2, <1>6, <2>1, <2>2 DEF SilencedNotice
<1> QED BY <1>3, <1>4, <1>5, <1>6

LEMMA BInvNext == BInv /\ [loadServerConfig]_<<configVars, logVars>> => BInv'
<1> SUFFICES ASSUME BInv, [loadServerConfig]_<<configVars, logVars>> PROVE BInv'
    OBVIOUS
<1>0. LogTypeOK'
    BY LogTypeNext DEF BInv
<1>1. ASSUME NEW l \in Lines, ReadLine(l) PROVE BInv'
    <2>1. at[Main] = "out" /\ read' = Append(read, l) /\ read' \in Seq(Lines)
        BY <1>1 DEF ReadLine, Reading, BInv
    <2>2. /\ SilencedNotice => SilencedNotice'
          /\ (\E i \in DOMAIN read : Warns(i)) => (\E i \in DOMAIN read : Warns(i))'
          /\ l.option = "loglevel" /\ l.word = "warning" =>
                (\E i \in DOMAIN read : Warns(i))'
          /\ l.option \notin Options \cup {""} /\ (\E i \in DOMAIN read : Warns(i)) =>
                SilencedNotice'
        BY <2>1, SilencedStays DEF BInv
    <2> USE ConfigFileAssumption DEF BInv, LogTypeOK
    <2>3. CASE UNCHANGED logVars
        BY <1>0, <2>1, <2>2, <2>3 DEF logVars
    <2>4. CASE LogCall(Main, MY_WARNING)
        BY <1>0, <2>1, <2>2, <2>4 DEF LogCall, ProceedTo
    <2>5. CASE LogCall(Main, MY_NOTICE) /\ l.option \notin Options \cup {""}
        BY <1>0, <2>1, <2>2, <2>5 DEF LogCall, ProceedTo
    <2>6. CASE /\ l.option = "loglevel" /\ l.word \in DOMAIN LevelNamed
               /\ verbosity' = LevelNamed[l.word] /\ UNCHANGED <<owner, at, level>>
        <3>1. verbosity' = MY_WARNING => l.word = "warning"
            BY <2>6, LevelsNamed
        <3> QED BY <1>0, <2>1, <2>2, <2>6, <3>1
    <2>7. Skip(l) \/ MissingArgument(l) \/ Option(l)
        BY <1>1 DEF ReadLine
    <2> QED BY <2>3, <2>4, <2>5, <2>6, <2>7, LineLogs
<1>2. CASE Report
    <2>1. read' = read /\ verbosity' = verbosity /\ level' = level
        BY <1>2 DEF Report, configVars, myepollLog, Lock, Filtered, OpenLog, WriteLine, Unlock
    <2>2. SilencedNotice' = SilencedNotice /\ \A i : Warns(i)' = Warns(i)
        BY <2>1 DEF SilencedNotice, Warns
    <2> USE ConfigFileAssumption, LogAssumption DEF BInv, LogTypeOK, ProceedTo
    <2>3. CASE Lock(Main) \/ OpenLog(Main) \/ WriteLine(Main)
        BY <1>0, <2>1, <2>2, <2>3 DEF Lock, OpenLog, WriteLine
    <2>4. CASE Unlock(Main)
        BY <1>0, <2>1, <2>2, <2>4 DEF Unlock
    <2>5. CASE Filtered(Main)
        BY <1>0, <2>1, <2>2, <2>5
        DEF Filtered, Levels, MY_DEBUG, MY_VERBOSE, MY_NOTICE, MY_WARNING
    <2> QED BY <1>2, <2>3, <2>4, <2>5 DEF Report, myepollLog
<1>3. CASE EndOfFile \/ UNCHANGED <<configVars, logVars>>
    <2>1. read' = read /\ UNCHANGED <<owner, at, level, verbosity>>
        BY <1>3 DEF EndOfFile, configVars, logVars
    <2>2. SilencedNotice' = SilencedNotice /\ \A i : Warns(i)' = Warns(i)
        BY <2>1 DEF SilencedNotice, Warns
    <2> QED BY <1>0, <2>1, <2>2 DEF BInv
<1> QED BY <1>1, <1>2, <1>3 DEF loadServerConfig

\* However long the file, the loader blocks itself only as described
\* (main.cpp:88-91, 321-322).
THEOREM BlocksWhenSilenced == Spec => []BlocksOnlyWhenSilenced
<1>1. BInv => BlocksOnlyWhenSilenced
    BY DEF BInv, SilencedNotice, Warns, BlocksOnlyWhenSilenced
<1> QED BY <1>1, BInvInit, BInvNext, PTL DEF Spec

\* One line stores at most one value, of the type of its option.
LEMMA LineTyped ==
    ASSUME TypeOK, NEW l \in Lines, Skip(l) \/ MissingArgument(l) \/ Option(l)
    PROVE  /\ phase' \in {phase, "failed"}
           /\ DOMAIN server' = DOMAIN Default
           /\ \A o \in NumberOptions : server'[o] \in Int
           /\ server'.daemonize \in BOOLEAN
<1> USE DEF TypeOK
<1>1. phase' \in {phase, "failed"}
    BY DEF Skip, MissingArgument, Option, SetNumber, SetWord, Daemonize, Loglevel,
           Logfile, Unknown, ContinueIf, Continue, Fail
<1>2. /\ "daemonize" \in DOMAIN server /\ "daemonize" \notin NumberOptions
      /\ NumberOptions \subseteq DOMAIN server
    BY DEF Default, NumberOptions
<1>3. CASE server' = server
    BY <1>1, <1>3
<1>4. CASE SetNumber(l)
    <2>1. server' = [server EXCEPT ![l.option] = l.number] /\ l.option \in NumberOptions
        BY <1>4 DEF SetNumber, Store
    <2>2. l.number \in Int
        BY ConfigFileAssumption
    <2> QED BY <1>1, <1>2, <2>1, <2>2
<1>5. CASE l.option \in WordOptions \cup {"logfile"} /\ Store(l, l.word)
    <2>1. l.option \notin NumberOptions /\ l.option # "daemonize"
        BY <1>5 DEF WordOptions, NumberOptions
    <2> QED BY <1>1, <1>2, <1>5, <2>1 DEF Store
<1>6. ASSUME NEW b \in BOOLEAN, server' = [server EXCEPT !.daemonize = b]
      PROVE  /\ DOMAIN server' = DOMAIN Default
             /\ \A o \in NumberOptions : server'[o] \in Int
             /\ server'.daemonize \in BOOLEAN
    <2>1. server'["daemonize"] = b
        BY <1>2, <1>6, Zenon
    <2>2. \A o \in NumberOptions : server'[o] = server[o]
        BY <1>2, <1>6
    <2>3. DOMAIN server' = DOMAIN Default
        BY <1>6
    <2> QED BY <1>6, <2>1, <2>2, <2>3, Zenon
<1>7. CASE Daemonize(l)
    <2>1. (l.word = "yes") \in BOOLEAN
        OBVIOUS
    <2> QED BY <1>1, <1>3, <1>6, <1>7, <2>1 DEF Daemonize
<1> QED BY <1>1, <1>3, <1>4, <1>5, <1>7
        DEF Skip, MissingArgument, Option, SetWord, Loglevel, Logfile, Unknown

LEMMA TypeInit == initServerConfig => TypeOK
<1> SUFFICES ASSUME initServerConfig PROVE TypeOK
    OBVIOUS
<1>1. LogTypeOK /\ phase = "reading" /\ read = <<>> /\ server = Default
    BY LInvInit DEF initServerConfig, LInv
<1>2. /\ \A o \in NumberOptions : Default[o] \in Int
      /\ Default.daemonize \in BOOLEAN
    BY DEF Default, NumberOptions
<1> QED BY <1>1, <1>2, ConfigFileAssumption DEF TypeOK

LEMMA TypeNext == TypeOK /\ [loadServerConfig]_<<configVars, logVars>> => TypeOK'
<1> SUFFICES ASSUME TypeOK, [loadServerConfig]_<<configVars, logVars>> PROVE TypeOK'
    OBVIOUS
<1>1. LogTypeOK'
    BY LogTypeNext DEF TypeOK
<1>2. ASSUME NEW l \in Lines, ReadLine(l) PROVE TypeOK'
    <2>1. read' \in Seq(Lines) /\ Len(read') <= MaxLines
        BY <1>2, ConfigFileAssumption DEF ReadLine, TypeOK
    <2>2. Skip(l) \/ MissingArgument(l) \/ Option(l)
        BY <1>2 DEF ReadLine
    <2>3. /\ phase' \in {phase, "failed"}
          /\ DOMAIN server' = DOMAIN Default
          /\ \A o \in NumberOptions : server'[o] \in Int
          /\ server'.daemonize \in BOOLEAN
        BY <2>2, LineTyped
    <2> QED BY <1>1, <2>1, <2>3 DEF TypeOK
<1>3. CASE EndOfFile \/ Report \/ UNCHANGED <<configVars, logVars>>
    <2>1. read' = read /\ server' = server /\ phase' \in {phase, "loaded"}
        BY <1>3 DEF EndOfFile, Report, configVars
    <2> QED BY <1>1, <2>1 DEF TypeOK
<1> QED BY <1>2, <1>3 DEF loadServerConfig

\* The loader's state has its type, whatever is stored before it is looked at.
THEOREM TypeCorrect == Spec => []TypeOK
BY TypeInit, TypeNext, PTL DEF Spec
=============================================================================
