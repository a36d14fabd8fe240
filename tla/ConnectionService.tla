-------------------------- MODULE ConnectionService --------------------------
(***************************************************************************)
(* What a TcpServer promises the TcpServerObserver it calls (TcpServer.h): *)
(* each connection is accepted, gives packets to be handled and takes      *)
(* replies to be sent, is disconnected once and closed once.  The close    *)
(* begins as soon as the connection is disconnected and nothing of it is   *)
(* being handled or sent, not before.                                      *)
(***************************************************************************)
EXTENDS Naturals

CONSTANT MaxConns

VARIABLES phase,    \* connection -> where it is in its life
          packets,  \* connection -> packets received and not yet handled
          replies   \* connection -> replies accepted and not yet sent

cvars  == <<phase, packets, replies>>
Conns  == 1 .. MaxConns
Phases == {"new", "open", "leaving", "closing", "closed"}

ServiceTypeOK ==
    /\ phase \in [Conns -> Phases]
    /\ packets \in [Conns -> Nat] /\ replies \in [Conns -> Nat]

ServiceInit ==
    /\ phase = [c \in Conns |-> "new"]
    /\ packets = [c \in Conns |-> 0]
    /\ replies = [c \in Conns |-> 0]

Move(c, to) == phase' = [phase EXCEPT ![c] = to]

\* The last message of a disconnected connection is done with.
DoneWith(c) ==
    phase' = [phase EXCEPT ![c] =
                 IF @ = "leaving" /\ packets[c] + replies[c] = 1 THEN "closing" ELSE @]

Accepted(c) == phase[c] = "new" /\ Move(c, "open") /\ UNCHANGED <<packets, replies>>

\* A disconnected connection with nothing outstanding is closed at once.
DrainedAlways(c) == TRUE    \* wrong, to test the properties
Drained(c)       == packets[c] + replies[c] = 0

Disconnected(c) ==
    /\ phase[c] = "open"
    /\ Move(c, IF Drained(c) THEN "closing" ELSE "leaving")
    /\ UNCHANGED <<packets, replies>>

Closed(c) == phase[c] = "closing" /\ Move(c, "closed") /\ UNCHANGED <<packets, replies>>

Received(c) == /\ phase[c] = "open"
               /\ packets' = [packets EXCEPT ![c] = @ + 1]
               /\ UNCHANGED <<phase, replies>>
Handled(c)  == /\ packets[c] > 0
               /\ packets' = [packets EXCEPT ![c] = @ - 1]
               /\ DoneWith(c)
               /\ UNCHANGED replies
Queued(c)   == /\ phase[c] \in {"open", "leaving"}
               /\ replies' = [replies EXCEPT ![c] = @ + 1]
               /\ UNCHANGED <<phase, packets>>
Sent(c)     == /\ replies[c] > 0
               /\ replies' = [replies EXCEPT ![c] = @ - 1]
               /\ DoneWith(c)
               /\ UNCHANGED packets

ServiceNext ==
    \E c \in Conns : \/ Accepted(c) \/ Disconnected(c) \/ Closed(c)
                     \/ Received(c) \/ Handled(c) \/ Queued(c) \/ Sent(c)

ServiceSpec ==
    /\ ServiceInit /\ [][ServiceNext]_cvars
    /\ \A c \in Conns : WF_cvars(Handled(c)) /\ WF_cvars(Sent(c)) /\ WF_cvars(Closed(c))
=============================================================================
