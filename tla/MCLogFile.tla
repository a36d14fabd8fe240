------------------------------ MODULE MCLogFile ------------------------------
(***************************************************************************)
(* TLC instance of LogFile.                                               *)
(***************************************************************************)
EXTENDS LogFile

\* Less than nothing, nothing, and almost a full file.
AnyLengths == {-1, 0, 1}
=============================================================================
