-------------------------- MODULE MCHttpProxyServer --------------------------
(***************************************************************************)
(* TLC instances of HttpProxyServer.                                       *)
(***************************************************************************)
EXTENDS HttpProxyServer, TLC

Symmetry == Permutations(Requests)
=============================================================================
