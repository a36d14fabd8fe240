------------------------- MODULE TcpServerRefinement -------------------------
(***************************************************************************)
(* TcpServer implements ConnectionService in the behaviours that enter     *)
(* neither race.                                                           *)
(***************************************************************************)
EXTENDS TcpServer

\* The descriptor of a connection, if it has one.
Descriptors(c) == {f \in Fds : conn[f] = c}

\* A connection is closing from the decision to close(fd).
PhaseOfOpen(f) == IF Closers(f) # {} THEN "closing"
                  ELSE IF closeRecv[f] THEN "leaving" ELSE "open"

PhaseOf(c) == IF c > nconn THEN "new"
              ELSE IF Descriptors(c) = {} THEN "closed"
              ELSE PhaseOfOpen(CHOOSE f \in Descriptors(c) : TRUE)

\* Counted messages of a connection: packets come from main to the handlers,
\* replies go from SendMessageByQueue to the send thread, which is not done with
\* one before its decrement.
PacketMsgs == Packets \cup {held[t] : t \in {u \in {"main"} : Busy(u)}}
ReplyMsgs  == Counted \ PacketMsgs
SendOwesTo(c) == IF \E f \in Descriptors(c) : SendOwes(f) = 1 THEN 1 ELSE 0

Service == INSTANCE ConnectionService WITH
    phase   <- [c \in Conns |-> PhaseOf(c)],
    packets <- [c \in Conns |-> Cardinality({m \in PacketMsgs : msgConn[m] = c})],
    replies <- [c \in Conns |-> Cardinality({m \in ReplyMsgs : msgConn[m] = c})
                                 + SendOwesTo(c)]

(***************************************************************************)
(* Without the races the observer sees the life of a connection it may     *)
(* rely on: disconnect before close, close once, nothing in hand from the  *)
(* decision to close on, and a decided close is carried out (TcpServer.h,  *)
(* TcpServerObserver; TcpServer.cpp 1166-1235, 1080-1124, 901-933).        *)
(***************************************************************************)
ImplementsService == Service!ServiceSpec
=============================================================================
