--------------------------- MODULE MCEpollServer ---------------------------
(* Small instances of EpollServer for TLC. *)
EXTENDS EpollServer, TLC

\* Connections are interchangeable, and so are descriptors: the actions only
\* compare them for equality.
Symmetry == Permutations(Conns) \cup Permutations(Fds)
=============================================================================
