-------------------------- MODULE MCTcpProxyServer --------------------------
(***************************************************************************)
(* TLC instances of TcpProxyServer.                                        *)
(***************************************************************************)
EXTENDS TcpProxyServer, TLC

Symmetry == Permutations(Fds) \cup Permutations(Handlers) \cup Permutations(VNCHandlers)

\* What the code does behind a race is not modelled.
NoRaceYet == races = {}
=============================================================================
