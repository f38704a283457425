------------------------------- MODULE Config -------------------------------
(***************************************************************************)
(* initServerConfig and loadServerConfig (main.cpp): the server's          *)
(* configuration, read line by line from a file that is made up as it is   *)
(* read.  The loader reports what it does not like with myepollLog, whose  *)
(* level it sets itself on the way; g_Server.verbosity is module Log's     *)
(* "verbosity", and Main is its only caller.                               *)
(*                                                                         *)
(* A line is the option it names, in lower case, the word that follows,    *)
(* and the number that atoi makes of that word (0 of one that is no        *)
(* number).  Cutting a line into words is left out.                        *)
(***************************************************************************)
EXTENDS Log, Sequences

CONSTANTS
    Main,       \* the only thread yet
    Lines,      \* the lines a file may have: [option, word, number]
    MaxLines,   \* bound: lines of a file
    Openable    \* the log files that can be opened

ASSUME ConfigFileAssumption ==
    /\ Callers = {Main} /\ Verbosities = {MY_DEBUG} /\ MaxLines \in Nat
    /\ Lines \subseteq [option : STRING, word : STRING, number : Int]

NoWord == ""    \* no argument, or a string that was never set
NumberOptions == {"port", "timeout", "maxclients", "maxthreads"}
WordOptions == {"pidfile", "bind"}
Options == NumberOptions \cup WordOptions \cup {"daemonize", "loglevel", "logfile"}

VARIABLES
    phase,      \* "reading", "loaded" or "failed"
    read,       \* history: the lines read so far
    server      \* g_Server, by the options' names; verbosity is Log's

configVars == <<phase, read, server>>

\* Define.h's defaults; what it does not set is zero.
Default ==
    [port |-> 8090, timeout |-> 0, maxclients |-> 10000, maxthreads |-> 10,
     pidfile |-> "/var/run/myepoll.pid", bind |-> NoWord, logfile |-> NoWord, daemonize |-> FALSE]

initServerConfig ==
    /\ phase = "reading" /\ read = <<>>
    /\ server = Default
    /\ LogInit

-----------------------------------------------------------------------------
(* One line.  Every action has stored what it stores before it complains. *)

Continue == phase' = phase /\ UNCHANGED logVars

\* A message, nRet = -1 and break.
Fail == phase' = "failed" /\ LogCall(Main, MY_WARNING)

ContinueIf(cond) == (cond /\ Continue) \/ (~cond /\ Fail)

Store(l, value) == server' = [server EXCEPT ![l.option] = value]

\* Empty and short lines, and comments.
Skip(l) == l.option = "" /\ Continue /\ UNCHANGED server

\* "Missing argument for option"
MissingArgument(l) ==
    /\ l.option # "" /\ l.word = NoWord
    /\ Fail /\ UNCHANGED server

InRangeFromZero(option, n) ==    \* mutant: zero clients or threads
    n >= 0 /\ (option = "port" => n <= 65535)

InRange(option, n) ==
    /\ option = "port" => n >= 0 /\ n <= 65535
    /\ option = "timeout" => n >= 0
    /\ option \in {"maxclients", "maxthreads"} => n >= 1

SetNumber(l) ==
    /\ l.option \in NumberOptions
    /\ Store(l, l.number)
    /\ ContinueIf(InRange(l.option, l.number))

SetWord(l) == l.option \in WordOptions /\ Store(l, l.word) /\ Continue

DaemonizeStays(l) ==    \* mutant: "no" does not take back an earlier "yes"
    /\ l.option = "daemonize"
    /\ server' = IF l.word = "yes" THEN [server EXCEPT !.daemonize = TRUE] ELSE server
    /\ ContinueIf(l.word \in {"yes", "no"})

Daemonize(l) ==
    /\ l.option = "daemonize"
    /\ server' = IF l.word \in {"yes", "no"}
                 THEN [server EXCEPT !.daemonize = (l.word = "yes")] ELSE server
    /\ ContinueIf(l.word \in {"yes", "no"})

LevelNamedFromOne ==    \* mutant: levels counted from one
    [debug |-> 1, verbose |-> 2, notice |-> 3, warning |-> 4]

LevelNamed == [debug |-> MY_DEBUG, verbose |-> MY_VERBOSE, notice |-> MY_NOTICE,
               warning |-> MY_WARNING]

Loglevel(l) ==
    /\ l.option = "loglevel"
    /\ \/ /\ l.word \in DOMAIN LevelNamed
          /\ verbosity' = LevelNamed[l.word]
          /\ UNCHANGED <<phase, owner, at, level>>
       \/ l.word \notin DOMAIN LevelNamed /\ Fail
    /\ UNCHANGED server

\* "stdout" stores nothing; a file is stored and then tried.
Logfile(l) ==
    /\ l.option = "logfile"
    /\ IF l.word = "stdout" THEN UNCHANGED server ELSE Store(l, l.word)
    /\ ContinueIf(l.word = "stdout" \/ l.word \in Openable)

\* "Invalid argument at line": a notice, and the next line.
UnknownQuiet(l) ==    \* mutant: reported at the level debug
    /\ l.option \notin Options \cup {""}
    /\ LogCall(Main, MY_DEBUG)
    /\ UNCHANGED <<phase, server>>

Unknown(l) ==
    /\ l.option \notin Options \cup {""}
    /\ LogCall(Main, MY_NOTICE)
    /\ UNCHANGED <<phase, server>>

Option(l) ==
    /\ l.word # NoWord
    /\ \/ SetNumber(l) \/ SetWord(l) \/ Daemonize(l) \/ Loglevel(l) \/ Logfile(l)
       \/ Unknown(l)

Reading == phase = "reading" /\ at[Main] = "out"

ReadLine(l) ==
    /\ Reading /\ Len(read) < MaxLines
    /\ read' = Append(read, l)
    /\ Skip(l) \/ MissingArgument(l) \/ Option(l)

EndOfFile ==
    /\ Reading
    /\ phase' = "loaded"
    /\ UNCHANGED <<read, server, logVars>>

Report == myepollLog(Main) /\ UNCHANGED configVars

loadServerConfig == (\E l \in Lines : ReadLine(l)) \/ EndOfFile \/ Report

Spec == initServerConfig /\ [][loadServerConfig]_<<configVars, logVars>>

-----------------------------------------------------------------------------
(* Correctness. *)

TypeOK ==
    /\ phase \in {"reading", "loaded", "failed"}
    /\ read \in Seq(Lines) /\ Len(read) <= MaxLines
    /\ DOMAIN server = DOMAIN Default
    /\ \A o \in NumberOptions : server[o] \in Int
    /\ server.daemonize \in BOOLEAN
    /\ LogTypeOK

\* Every limit of an accepted configuration is in the range that the loader tests,
\* whatever the lines and their order, although each is stored before it is looked
\* at (main.cpp:212-318).  EpollServer's ConfigAssumption asks for no more; that a
\* limit in range is one to run with is not said, and maxthreads 1 is not.
LoadedInRange ==
    phase = "loaded" =>
        /\ server["port"] >= 0 /\ server["port"] <= 65535 /\ server["timeout"] >= 0
        /\ server["maxclients"] >= 1 /\ server["maxthreads"] >= 1

\* The lines of the file that name an option.
Naming(o) == {i \in DOMAIN read : read[i].option = o}

\* What an option is set to, and what it is set to when the file does not name it.
Value(o) == IF o = "loglevel" THEN verbosity ELSE server[o]
Otherwise(o) == IF o = "loglevel" THEN MY_DEBUG ELSE Default[o]

\* What a line says.
Meaning(l) ==
    CASE l.option \in NumberOptions -> l.number
      [] l.option = "daemonize" -> l.word = "yes"
      [] l.option = "loglevel" -> LevelNamed[l.word]
      [] OTHER -> l.word

LastSays(o) ==
    IF Naming(o) = {} THEN Value(o) = Otherwise(o)
    ELSE \E i \in Naming(o) :
            /\ \A j \in Naming(o) : j <= i
            /\ Value(o) = Meaning(read[i])

\* The last line for an option decides, and no line for another one matters
\* (main.cpp:139-324): for all options but logfile.  There "stdout" does not bring
\* back standard output (main.cpp:271), although myepoll.conf:32-34 says it does.
LastLineWins == phase = "loaded" => \A o \in Options \ {"logfile"} : LastSays(o)

\* The loader blocks itself in myepollLog only after a line "loglevel warning"
\* and, later, a line with an option it does not know, whose notice was filtered
\* out with the mutex held (main.cpp:88-91, 321-322).
BlocksOnlyWhenSilenced ==
    owner = Main /\ at[Main] \in {"out", "lock"} =>
        \E i, j \in DOMAIN read :
            /\ i < j
            /\ read[i].option = "loglevel" /\ read[i].word = "warning"
            /\ read[j].option \notin Options \cup {""}
=============================================================================
