--------------------------- MODULE MCProxySystem ---------------------------
(***************************************************************************)
(* A TLC instance of ProxySystem.                                          *)
(***************************************************************************)
EXTENDS ProxySystem, TLC

Symmetry == Permutations(Fds) \cup Permutations(Requests)

\* What the programs do behind a race is not modelled.
NoRaceYet == races = {}

\* That both browsers leave is for Circle, which is a wait of commands only: with
\* replies and a lost connection one of them leaves.
BothLeave == gone = Browsers => alive /\ replies = <<>>
=============================================================================
