---------------------------- MODULE MCTcpServer ----------------------------
(***************************************************************************)
(* TLC instances of TcpServer.  Descriptors, messages and handlers are     *)
(* interchangeable; the runs for liveness and refinement do not use the    *)
(* symmetry.                                                               *)
(***************************************************************************)
EXTENDS TcpServerRefinement, TcpServerInvariants, TLC

Symmetry == Permutations(Fds) \cup Permutations(Msgs) \cup Permutations(Handlers)

\* After a race the counter may drift without bound: states behind the first
\* race are checked, not explored.
NoRaceYet == races = {}
=============================================================================
