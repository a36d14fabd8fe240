---------------------- MODULE TcpProxyServerInvariants ----------------------
(***************************************************************************)
(* The inductive invariant behind the safety properties of TcpProxyServer, *)
(* in named parts.  TcpProxyServerProofs shows that it holds.              *)
(***************************************************************************)
EXTENDS TcpProxyServer

Closers  == {"onclose", "session", "erase", "close"}
VClosers == {"onclose", "delete", "null", "close"}
MainSteps == {"check", "addseq", "lock", "queue", "decide"}

\* Where each kind of thread can be, and that it has a connection there.
ControlInv ==
    /\ pc["main"] \in {"idle"} \cup MainSteps \cup Closers
    /\ pc["send"] \in {"idle"} \cup Closers
    /\ \A h \in Handlers : pc[h] \in {"idle"} \cup SendSteps \cup Closers
    /\ pc["vmain"] \in {"idle", "disconnect", "decide"} \cup VClosers
    /\ pc["vsend"] \in {"idle"} \cup VClosers
    /\ \A h \in VNCHandlers : pc[h] \in {"idle"} \cup ParseSteps \cup VClosers
    /\ \A t \in BThreads : pc[t] # "idle" => work[t] \in Accepted
    /\ \A t \in VThreads : pc[t] # "idle" => work[t] \in VNCs
    /\ \A h \in VNCHandlers : pc[h] \in {"return", "reply"} => cmd[h] \in 1 .. nsent

(***************************************************************************)
(* Locks: who holds one is known from where the threads are.               *)
(***************************************************************************)
HoldsClients(t)  == \/ t = "main" /\ Using(t)
                    \/ t \in BThreads /\ pc[t] \in {"session", "erase"}
HoldsMutex(t)    == t \in VNCHandlers /\ pc[t] \in {"parse", "return", "reply"}
HoldsSessions(t) == pc[t] \in {"queue", "erase", "reply"}

LockInv ==
    \A t \in Threads :
        /\ lock["mClientMap"] = t <=> HoldsClients(t)
        /\ lock["mKMutex"] = t <=> HoldsMutex(t)
        /\ lock["mClient2SessionMap"] = t <=> HoldsSessions(t)

(***************************************************************************)
(* Connections of browsers.                                                *)
(***************************************************************************)
PhaseInv ==
    \A c \in Conns :
        /\ phase[c] = "new" <=> c \notin Accepted
        /\ phase[c] \notin {"open", "leaving"} => packets[c] = 0
        /\ phase[c] \notin {"new", "open"} => c \in shut

\* No more packets are with handlers than were received.
HandInv == \A c \in Conns : Cardinality(InHand(c)) <= packets[c]

\* The main thread serves an open connection, and one thread closes one.
CloserInv ==
    /\ pc["main"] \in MainSteps => phase[work["main"]] = "open" /\ work["main"] \in shut
    /\ \A t \in BThreads : pc[t] \in Closers => phase[work[t]] = "closing"
    /\ \A t, u \in BThreads :
          pc[t] \in Closers /\ pc[u] \in Closers /\ work[t] = work[u] => t = u

\* Of the connections with one descriptor all but the last are closed.
LatestInv ==
    \A c, d \in Accepted : fdOf[c] = fdOf[d] /\ c < d => phase[c] = "closed"

\* A connection has its Client until its closer has erased it.
ClientInv ==
    /\ \A c \in Accepted : phase[c] \in {"open", "leaving"} => mClientMap[fdOf[c]] = c
    /\ \A t \in BThreads :
          /\ pc[t] \in {"onclose", "session", "erase"} => mClientMap[fdOf[work[t]]] = work[t]
          /\ pc[t] = "close" => mClientMap[fdOf[work[t]]] = 0
    /\ \A f \in Fds : mClientMap[f] # 0 =>
          mClientMap[f] \in Accepted /\ fdOf[mClientMap[f]] = f /\ phase[mClientMap[f]] # "closed"

BrowserInv == PhaseInv /\ HandInv /\ CloserInv /\ LatestInv /\ ClientInv /\ ClientOutlivesUsers

(***************************************************************************)
(* Connections of the peer, and mpVNCClient.                               *)
(***************************************************************************)
VPhaseInv ==
    \A v \in VNCs :
        /\ vphase[v] # "new" => \A u \in VNCs : u < v => vphase[u] # "new"
        /\ vphase[v] \notin {"open", "leaving"} => vpackets[v] = 0 /\ vreplies[v] = 0

VHandInv == \A v \in VNCs : Cardinality(VNCInHand(v)) <= vpackets[v]

VCloserInv ==
    /\ pc["vmain"] \in {"disconnect", "decide"} => vphase[work["vmain"]] = "open"
    /\ \A t \in VThreads : pc[t] \in VClosers => vphase[work[t]] = "closing"
    /\ \A t, u \in VThreads :
          pc[t] \in VClosers /\ pc[u] \in VClosers /\ work[t] = work[u] => t = u

\* The pointer points to a Client until the closer of its connection has deleted it.
PointerInv ==
    /\ mpVNCClient # 0 => vphase[mpVNCClient] \notin {"new", "closed"}
    /\ mpVNCClient \notin alive \cup {0} => \E t \in VThreads : pc[t] = "null"
    /\ \A t \in VThreads :
          /\ pc[t] \in {"delete", "null"} => mpVNCClient = work[t]
          /\ pc[t] = "close" => mpVNCClient # work[t]

\* A connection that was refused has nothing to do until it is disconnected.
RefusedInv ==
    \A v \in VNCs : vphase[v] \in {"open", "leaving"} /\ v # mpVNCClient =>
        /\ vphase[v] = "open" /\ vpackets[v] = 0 /\ vreplies[v] = 0
        /\ pc["vmain"] \in {"disconnect", "decide"} /\ work["vmain"] = v

PeerInv == VPhaseInv /\ VHandInv /\ VCloserInv /\ PointerInv /\ RefusedInv

(***************************************************************************)
(* Commands, their numbers and the tasks that wait for an answer.          *)
(***************************************************************************)
CommandInv ==
    /\ \A i \in DOMAIN commands :
          /\ commands[i].client \in Accepted /\ fdOf[commands[i].client] = commands[i].fd
          /\ vphase[commands[i].vnc] # "new"
          /\ mpVNCClient # 0 => commands[i].vnc <= mpVNCClient
    /\ \A i, j \in DOMAIN commands : i < j => commands[i].vnc <= commands[j].vnc
    /\ ConnectionsFollowEachOther

\* Threads with a number they have not used yet.
Numbered == {t \in BThreads : pc[t] \in {"lock", "queue"}}

Unused(v, n) == \A i \in DOMAIN commands : commands[i].vnc = v => commands[i].seq # n

NumberInv ==
    /\ \A i \in DOMAIN commands : commands[i].seq < sendSeq[commands[i].vnc]
    /\ \A i, j \in DOMAIN commands :
          i # j /\ commands[i].vnc = commands[j].vnc => commands[i].seq # commands[j].seq
    /\ \A t \in Numbered :
          /\ numbered[t] \in VNCs /\ seq[t] < sendSeq[numbered[t]] /\ Unused(numbered[t], seq[t])
          /\ \A u \in Numbered : u # t /\ numbered[u] = numbered[t] => seq[u] # seq[t]

\* A task is of a command of the session's Client; a command has its task.
TaskInv ==
    /\ \A f \in Fds : sessions[f].client = 0 => sessions[f].tasks = {}
    /\ \A f \in Fds : \A n \in sessions[f].tasks :
          \E i \in DOMAIN commands :
             commands[i].fd = f /\ commands[i].seq = n /\ commands[i].client = sessions[f].client
    /\ \A i \in DOMAIN commands :
          commands[i].packet /\ mClientMap[commands[i].fd] = commands[i].client
              => FindRequestTask(sessions[commands[i].fd], commands[i].seq)

\* Whoever has a command on a connection of the peer that is not, or soon not, the
\* one commands are sent on was shut down.
Forgetting == \E t \in VThreads : pc[t] \in {"delete", "null"}

GoneInv ==
    races = {} =>
        \A i \in DOMAIN commands :
            commands[i].vnc # mpVNCClient \/ Forgetting => commands[i].client \in shut

QueueInv == CommandInv /\ NumberInv /\ TaskInv /\ GoneInv

InductiveInv == TypeOK /\ ControlInv /\ LockInv /\ BrowserInv /\ PeerInv /\ QueueInv
=============================================================================
