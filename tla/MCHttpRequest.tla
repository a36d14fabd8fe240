--------------------------- MODULE MCHttpRequest ---------------------------
(***************************************************************************)
(* TLC instances of HttpRequest and, within it, DataHttpParser.            *)
(***************************************************************************)
EXTENDS HttpRequest

\* Bodies shorter and longer than the header and than the buffer.
Bodies == {-1} \cup 0 .. MAX_BUFFER_LEN + 1
=============================================================================
