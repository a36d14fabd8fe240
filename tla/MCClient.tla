------------------------------ MODULE MCClient ------------------------------
(***************************************************************************)
(* TLC instance of Client: a command without a parameter, one with a long  *)
(* parameter, and a header that is refused.                                *)
(***************************************************************************)
EXTENDS Client

MCLens == <<0, 2, -1>>
=============================================================================
