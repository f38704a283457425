---------------------------- MODULE MCLifecycle ----------------------------
(* Small instances of Lifecycle for TLC. *)
EXTENDS Lifecycle, TLC

\* The first signal comes at any moment, the second once that one is delivered, main
\* waits in poll, and at the level debug.
SecondLate ==
    /\ Init /\ Fairness
    /\ [][Next /\ (sent' # sent /\ sent # {} =>
                      pending = {} /\ mpc = "poll" /\ verbosity = MY_DEBUG)]_vars
=============================================================================
