------------------------- MODULE TcpServerInvariants -------------------------
(***************************************************************************)
(* The inductive invariant behind the safety properties of TcpServer, in   *)
(* named parts.  TcpServerProofs proves it, TLC checks an instance.        *)
(***************************************************************************)
EXTENDS TcpServer

\* Where each kind of thread can be, and what its locals hold there.
ControlInv ==
    /\ pc["main"] \in {"loop", "accept", "recv", "recving", "push", "pushmore",
                       "disc", "decide", "onclose", "close", "return"}
    /\ pc["send"] \in {"idle", "send", "dec", "onclose", "close"}
    /\ \A h \in Handlers :
          pc[h] \in {"idle", "handle", "dec", "onclose", "close", "return"}
    /\ pc["main"] # "loop" => fd["main"] \in Fds
    /\ pc["main"] \in {"loop", "accept", "recv"} => held["main"] = NoMsg
    /\ pc["main"] \in {"recving", "push", "pushmore", "return"} => held["main"] # NoMsg
    /\ pc["send"] = "idle" <=> held["send"] = NoMsg
    /\ pc["send"] # "idle" => fd["send"] \in Fds
    /\ \A h \in Handlers : pc[h] = "idle" <=> held[h] = NoMsg
    /\ \A h \in Handlers : pc[h] \in {"onclose", "close"} => fd[h] \in Fds

\* A message that has left the idle list since Start has a descriptor.
FilledInv ==
    /\ \A m \in Range(handleList) \cup Range(sendList) : msgFd[m] \in Fds
    /\ reply # NoMsg => msgFd[reply] \in Fds
    /\ \A t \in Threads : held[t] # NoMsg => msgFd[held[t]] \in Fds

TypeInv == TypeOK /\ ControlInv /\ FilledInv

\* A thread's message carries the descriptor the thread works on.
LocalFdInv ==
    /\ pc["main"] \in {"recving", "push", "pushmore"} => msgFd[held["main"]] = fd["main"]
    /\ pc["send"] = "send" => msgFd[held["send"]] = fd["send"]

\* The main thread works on the connection of f and has not yet decided how it
\* ends.
Working(f) == /\ pc["main"] \in {"accept", "recv", "recving", "push", "pushmore",
                                 "disc", "decide"}
              /\ fd["main"] = f

\* Nothing of the connection of f is in the queues or in the hands of threads.
Drained(f) == Outstanding(f) = {} /\ SendOwes(f) = 0

\* The entry of f for a descriptor the kernel has closed.
FreeFdInv ==
    \A f \in Fds : conn[f] = 0 =>
        /\ Drained(f) /\ Closers(f) = {} /\ ~ Working(f)
        /\ watching[f] = 0 /\ clients[f] = 0 /\ sessions[f] = 0

\* A thread that decided to close f is alone with it.
CloserInv ==
    \A f \in Fds : \A t \in Closers(f) :
        /\ Closers(f) = {t}
        /\ Drained(f) /\ ~ Working(f) /\ watching[f] = 0
        /\ pc[t] = "close" => clients[f] = 0 /\ sessions[f] = 0

\* mpCloseRecv says that the main thread is done with the connection.
CloseRecvInv ==
    \A f \in Fds : closeRecv[f] /\ conn[f] # 0 => ~ Working(f) /\ watching[f] = 0

\* What the main thread knows of the connection it works on.
WorkInv ==
    LET f == fd["main"] IN
    /\ pc["main"] \in {"accept", "decide"} => watching[f] = 0
    /\ pc["main"] = "accept" => clients[f] = 0
    /\ pc["main"] \in {"recv", "recving", "push", "pushmore"} => watching[f] = 1
    /\ pc["main"] = "disc" => watching[f] = IF held["main"] = NoMsg THEN 0 ELSE 1

\* Clients, sessions and watchers belong to the connection that is open.
OwnerInv ==
    \A f \in Fds :
        /\ watching[f] \in {0, 1}
        /\ watching[f] = 1 => clients[f] = conn[f]
        /\ clients[f] \in {0, conn[f]} /\ sessions[f] \in {0, conn[f]}
        /\ sessions[f] # 0 => clients[f] # 0

\* Counted messages belong to the connection that is open on their descriptor,
\* and a packet's connection still has its Client.
MessageInv ==
    /\ \A m \in Counted : msgConn[m] = conn[msgFd[m]]
    /\ pc["main"] = "recving" => msgConn[held["main"]] = conn[fd["main"]]
    /\ \A m \in Packets : clients[msgFd[m]] = conn[msgFd[m]]

\* Connections are numbered in the order they were accepted, one number for one
\* descriptor; an open one is in closedConns only when its closer is past
\* OnClose.
ConnInv ==
    /\ \A f \in Fds : conn[f] <= nconn
    /\ \A f, g \in Fds : conn[f] = conn[g] /\ conn[f] # 0 => f = g
    /\ \A c \in closedConns : c <= nconn
    /\ \A f \in Fds : conn[f] \in closedConns => \E t \in Closers(f) : pc[t] = "close"

\* The packets are numbered in the order of their queue, and the one in the
\* hands of the main thread comes next.
NumberInv ==
    /\ pc["main"] \in {"push", "pushmore"} => msgSeq[held["main"]] = seqRecv[fd["main"]] - 1
    /\ PacketsNumberedInOrder

QuietInv == /\ CountExact /\ FreeFdInv /\ CloserInv /\ CloseRecvInv /\ WorkInv
            /\ OwnerInv /\ MessageInv /\ ConnInv /\ NumberInv

\* Every watcher that Start allocated is in the list or started.
WatcherInv == IsFiniteSet(Started) /\ watcherList + Cardinality(Started) = MaxWatchers

(***************************************************************************)
(* Whatever happens, types, control and the ownership of messages and      *)
(* watchers are sound; until a race is entered the whole close protocol    *)
(* is, and packets are numbered in order.                                  *)
(***************************************************************************)
InductiveInv ==
    /\ TypeInv /\ MessagesConserved /\ LocalFdInv /\ WatcherInv
    /\ races = {} => QuietInv
=============================================================================
