------------------------------ MODULE MCStartup -----------------------------
(* Small instances of Startup, and of the Config in it, for TLC. *)
EXTENDS Startup

Line(option, word, number) == [option |-> option, word |-> word, number |-> number]

\* For every option a good and a bad line, or two good ones, a comment, an option
\* nobody knows and one without an argument.
MCLines ==
    {Line("", "", 0), Line("hello", "world", 0), Line("port", "", 0),
     Line("port", "0", 0), Line("port", "65536", 65536), Line("timeout", "-1", -1),
     Line("timeout", "5", 5), Line("maxclients", "none", 0),
     Line("maxclients", "1", 1), Line("maxthreads", "0", 0),
     Line("maxthreads", "2", 2), Line("pidfile", "p", 0), Line("bind", "lo", 0),
     Line("bind", "eth", 0), Line("bind", "nohost", 0),
     Line("daemonize", "yes", 0), Line("daemonize", "no", 0),
     Line("daemonize", "maybe", 0), Line("loglevel", "warning", 0),
     Line("loglevel", "debug", 0), Line("loglevel", "notice", 0),
     Line("loglevel", "loud", 0),
     Line("logfile", "stdout", 0), Line("logfile", "a", 0),
     Line("logfile", "b", 0), Line("logfile", "nodir", 0)}
=============================================================================
