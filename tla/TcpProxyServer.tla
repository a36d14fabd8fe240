--------------------------- MODULE TcpProxyServer ---------------------------
(***************************************************************************)
(* TcpProxyServer of src/TcpPorxyServer/TcpProxyServer.cpp, the observer   *)
(* of two TcpServers: browsers connect to the one, HttpProxyServer (the    *)
(* peer) to the other.  Packets of browsers become commands for the peer,  *)
(* commands of the peer become replies to browsers.                        *)
(*                                                                         *)
(* What the two servers do by themselves is taken from ConnectionService,  *)
(* which TcpServer implements; this module is what the callbacks do, on    *)
(* the main, send and handler threads of both, with the locks of the code. *)
(* A step ends where a thread has to wait for a lock, or reads or writes   *)
(* mpVNCClient, which no lock protects.                                    *)
(*                                                                         *)
(* Definitions marked wrong vary the one below them, to test that the      *)
(* properties would notice; no behaviour uses them.                        *)
(***************************************************************************)
EXTENDS Integers, Sequences, FiniteSets, Functions

CONSTANTS Fds,          \* descriptors of browsers
          Handlers,     \* handler threads of mClientTcpServer
          VNCHandlers,  \* handler threads of mClientTcpVNCServer
          Nobody,       \* the holder of a free lock
          MaxConns,     \* bound: connections of browsers
          MaxVNC,       \* bound: connections of the peer
          MaxCommands,  \* bound: packets are received while fewer commands exist
          MaxPending    \* bound: replies to a browser, packets of the peer, in hand

ASSUME ProxyAssumption ==
    /\ {"main", "send", "vmain", "vsend", Nobody} \cap (Handlers \cup VNCHandlers) = {}
    /\ Handlers \cap VNCHandlers = {} /\ Nobody \notin {"main", "send", "vmain", "vsend"}
    /\ IsFiniteSet(Handlers \cup VNCHandlers)
    /\ {MaxConns, MaxVNC, MaxCommands, MaxPending} \subseteq Nat

VARIABLES
    phase, packets, replies,     \* mClientTcpServer, see ConnectionService
    vphase, vpackets, vreplies,  \* mClientTcpVNCServer
    fdOf,         \* the descriptors of browser connections, in order of accept
    shut, vshut,  \* connections whose socket the peer or Disconnect shut down
    mClientMap,   \* fd -> the connection of its Client, 0 = none
    sessions,     \* mClient2SessionMap: fd -> client and the seqs of its tasks
    mpVNCClient,  \* the connection of the Client it points to, 0 = NULL
    isOnline,     \* isOnline of the Client of a peer's connection
    alive,        \* peer's connections whose Client is not deleted
    sendSeq,      \* miPacketSendSeq of those Clients
    lock,         \* lock -> the thread that holds it
    pc,           \* control points
    work,         \* thread -> the connection it works for
    client,       \* thread -> the Client it found in mClientMap
    seq,          \* thread -> the number AddSeq returned
    cmd,          \* thread -> the command it parses, an index of commands
    commands,     \* commands queued for the peer, oldest first
    nsent,        \* how many of them were sent
    numbered,     \* ghost: thread -> the Client that gave seq
    races         \* ghost: races entered so far

browsers == <<phase, packets, replies>>
peer     == <<vphase, vpackets, vreplies>>
kernel   == <<fdOf, shut, vshut>>
maps     == <<mClientMap, sessions>>
vnc      == <<mpVNCClient, isOnline, alive>>
found    == <<client, seq, numbered>>
locals   == <<work, found, cmd>>
queue    == <<commands, nsent>>
vars     == <<browsers, peer, kernel, maps, vnc, sendSeq, lock, pc, locals, queue, races>>

Conns    == 1 .. MaxConns
VNCs     == 1 .. MaxVNC
BThreads == {"main", "send"} \cup Handlers
VThreads == {"vmain", "vsend"} \cup VNCHandlers
Threads  == BThreads \cup VThreads
Locks    == {"mClientMap", "mKMutex", "mClient2SessionMap"}

Browser == INSTANCE ConnectionService
VNC     == INSTANCE ConnectionService WITH
               MaxConns <- MaxVNC, phase <- vphase, packets <- vpackets, replies <- vreplies

NoSession == [client |-> 0, tasks |-> {}]
Locations == {"idle", "check", "addseq", "lock", "queue", "done", "decide", "onclose",
              "session", "erase", "close", "disconnect", "parse", "return", "reply",
              "delete", "null"}

TypeOK ==
    /\ Browser!ServiceTypeOK /\ VNC!ServiceTypeOK
    /\ fdOf \in Seq(Fds) /\ Len(fdOf) <= MaxConns
    /\ shut \subseteq Conns /\ vshut \subseteq VNCs
    /\ mClientMap \in [Fds -> 0 .. MaxConns]
    /\ sessions \in [Fds -> [client : 0 .. MaxConns, tasks : SUBSET Nat]]
    /\ mpVNCClient \in 0 .. MaxVNC
    /\ isOnline \in [VNCs -> BOOLEAN] /\ alive \subseteq VNCs /\ sendSeq \in [VNCs -> Nat]
    /\ lock \in [Locks -> Threads \cup {Nobody}]
    /\ pc \in [Threads -> Locations]
    /\ work \in [Threads -> Nat] /\ client \in [Threads -> 0 .. MaxConns]
    /\ seq \in [Threads -> Nat] /\ cmd \in [Threads -> 0 .. Len(commands)]
    /\ commands \in Seq([vnc : VNCs, client : Conns, fd : Fds, seq : Nat, packet : BOOLEAN])
    /\ nsent \in 0 .. Len(commands)
    /\ numbered \in [Threads -> 0 .. MaxVNC]
    /\ races \subseteq {"vncGone", "lateCommand", "lateReply"}

Init ==
    /\ Browser!ServiceInit /\ VNC!ServiceInit
    /\ fdOf = <<>> /\ shut = {} /\ vshut = {}
    /\ mClientMap = [f \in Fds |-> 0] /\ sessions = [f \in Fds |-> NoSession]
    /\ mpVNCClient = 0 /\ isOnline = [v \in VNCs |-> FALSE] /\ alive = {}
    /\ sendSeq = [v \in VNCs |-> 0]
    /\ lock = [l \in Locks |-> Nobody]
    /\ pc = [t \in Threads |-> "idle"]
    /\ work = [t \in Threads |-> 0] /\ client = [t \in Threads |-> 0]
    /\ seq = [t \in Threads |-> 0] /\ cmd = [t \in Threads |-> 0]
    /\ numbered = [t \in Threads |-> 0]
    /\ commands = <<>> /\ nsent = 0
    /\ races = {}

At(t, location)   == pc[t] = location
Goto(t, location) == pc' = [pc EXCEPT ![t] = location]
Take(t, c)        == work' = [work EXCEPT ![t] = c]

IsFree(l)       == lock[l] = Nobody
Acquire(t, l)   == IsFree(l) /\ lock' = [lock EXCEPT ![l] = t]
Release(ls)     == lock' = [l \in Locks |-> IF l \in ls THEN Nobody ELSE lock[l]]

\* Connections of browsers whose descriptor is f.
Open(f) == {c \in DOMAIN fdOf : fdOf[c] = f /\ phase[c] # "closed"}

\* mClientTcpServer.Disconnect of some descriptors: shutdown(fd, SHUT_RD).
Disconnect(fs) == shut' = shut \cup UNION {Open(f) : f \in fs}

-----------------------------------------------------------------------------
(***************************************************************************)
(* The main thread of the browsers' server.  accept returns a descriptor   *)
(* that is not open; OnAccept makes a Client under the lock of the map.    *)
(***************************************************************************)
Accept(f) ==
    LET c == Len(fdOf) + 1 IN
    /\ At("main", "idle") /\ IsFree("mClientMap")
    /\ c <= MaxConns /\ Open(f) = {}
    /\ Browser!Accepted(c)
    /\ fdOf' = Append(fdOf, f)
    /\ mClientMap' = [mClientMap EXCEPT ![f] = IF @ = 0 THEN c ELSE @]
    /\ UNCHANGED <<peer, shut, vshut, sessions, vnc, sendSeq, lock, pc, locals, queue, races>>

\* The browser goes away, or HandleTimeoutMessage disconnects it.
PeerClose(c) ==
    /\ phase[c] = "open" /\ shut' = shut \cup {c}
    /\ UNCHANGED <<browsers, peer, fdOf, vshut, maps, vnc, sendSeq, lock, pc, locals, queue,
                   races>>

RecvPacket(c) ==
    /\ At("main", "idle")
    /\ FoldFunction(LAMBDA x, y : x + y, Len(commands), packets) < MaxCommands
    /\ Browser!Received(c)
    /\ UNCHANGED <<peer, kernel, maps, vnc, sendSeq, lock, pc, locals, queue, races>>

\* OnDisconnect keeps the lock of the map while it forwards a disconnect command.
OnDisconnect(c) ==
    /\ At("main", "idle") /\ phase[c] = "open" /\ c \in shut
    /\ Acquire("main", "mClientMap")
    /\ Take("main", c)
    /\ client' = [client EXCEPT !["main"] = mClientMap[fdOf[c]]]
    /\ Goto("main", "check")
    /\ UNCHANGED <<browsers, peer, kernel, maps, vnc, sendSeq, seq, cmd, numbered, queue, races>>

\* Whoever makes the close of connection c begin goes on to OnClose.
GotoClose(t, c, begins) ==
    /\ Goto(t, IF begins THEN "onclose" ELSE "idle")
    /\ Take(t, IF begins THEN c ELSE 0)
Begins(c)    == phase[c] # "closing" /\ phase'[c] = "closing"
VNCBegins(v) == vphase[v] # "closing" /\ vphase'[v] = "closing"

Disconnected ==
    LET c == work["main"] IN
    /\ At("main", "decide")
    /\ Browser!Disconnected(c)
    /\ GotoClose("main", c, Begins(c))
    /\ UNCHANGED <<peer, kernel, maps, vnc, sendSeq, lock, found, cmd, queue, races>>

(***************************************************************************)
(* A handler thread takes a packet: HandleRecvMessage finds the client in  *)
(* the map, releases the lock and goes on with the pointer.                *)
(***************************************************************************)
SendSteps  == {"check", "addseq", "lock", "queue", "done"}
InHand(c)  == {h \in Handlers : work[h] = c /\ pc[h] \in SendSteps}

HandleRecvMessage(h, c) ==
    /\ At(h, "idle") /\ Cardinality(InHand(c)) < packets[c]
    /\ IsFree("mClientMap")
    /\ Take(h, c)
    /\ client' = [client EXCEPT ![h] = mClientMap[fdOf[c]]]
    /\ Goto(h, IF mClientMap[fdOf[c]] # 0 THEN "check" ELSE "done")
    /\ shut' = IF mClientMap[fdOf[c]] # 0 THEN shut ELSE shut \cup {c}
    /\ UNCHANGED <<browsers, peer, fdOf, vshut, maps, vnc, sendSeq, lock, seq, cmd, numbered,
                   queue, races>>

HandleDone(h) ==
    LET c == work[h] IN
    /\ At(h, "done")
    /\ Browser!Handled(c)
    /\ GotoClose(h, c, Begins(c))
    /\ UNCHANGED <<peer, kernel, maps, vnc, sendSeq, lock, found, cmd, queue, races>>

(***************************************************************************)
(* SendClient2VNC, on the main thread for a disconnect command and on      *)
(* handlers for a packet.  mpVNCClient is read again at each step.  When   *)
(* it points to no Client any more at a later step, or to another one than *)
(* the one that gave the number, what the code does is a race.             *)
(***************************************************************************)
SendOrderSwapped == <<"check", "lock", "addseq", "queue">>    \* wrong
SendOrder        == <<"check", "addseq", "lock", "queue">>
After(location)  == SendOrder[(CHOOSE i \in 1 .. 3 : SendOrder[i] = location) + 1]

\* Back in the caller: OnDisconnect releases the map.
SendEndsHolding(t, released) ==    \* wrong
    /\ Goto(t, IF t = "main" THEN "decide" ELSE "done")
    /\ client' = [client EXCEPT ![t] = 0]
    /\ seq' = [seq EXCEPT ![t] = 0] /\ numbered' = [numbered EXCEPT ![t] = 0]
    /\ Release(released)

SendEnds(t, released) ==
    /\ Goto(t, IF t = "main" THEN "decide" ELSE "done")
    /\ client' = [client EXCEPT ![t] = 0]
    /\ seq' = [seq EXCEPT ![t] = 0] /\ numbered' = [numbered EXCEPT ![t] = 0]
    /\ Release(released \cup IF t = "main" THEN {"mClientMap"} ELSE {})

Usable == mpVNCClient \in alive

CheckOnline(t) ==
    /\ At(t, "check") /\ Usable /\ isOnline[mpVNCClient]
    /\ Goto(t, After("check"))
    /\ UNCHANGED <<browsers, peer, kernel, maps, vnc, sendSeq, lock, locals, queue, races>>

\* The peer is not there, or the VNC server has no idle message: nothing is
\* sent, and HandleRecvMessage disconnects the browser.
SendFails(t) ==
    /\ At(t, "check") /\ (mpVNCClient = 0 \/ Usable)
    /\ SendEnds(t, {})
    /\ shut' = shut \cup IF t = "main" THEN {} ELSE {work[t]}
    /\ UNCHANGED <<browsers, peer, fdOf, vshut, maps, vnc, sendSeq, work, cmd, queue, races>>

AddSeqWithoutIncrement(t) ==    \* wrong
    /\ At(t, "addseq") /\ Usable /\ IsFree("mKMutex")
    /\ seq' = [seq EXCEPT ![t] = sendSeq[mpVNCClient]]
    /\ numbered' = [numbered EXCEPT ![t] = mpVNCClient]
    /\ Goto(t, After("addseq"))
    /\ UNCHANGED <<browsers, peer, kernel, maps, vnc, sendSeq, lock, work, client, cmd, queue,
                   races>>

AddSeq(t) ==
    /\ At(t, "addseq") /\ Usable /\ IsFree("mKMutex")
    /\ seq' = [seq EXCEPT ![t] = sendSeq[mpVNCClient]]
    /\ sendSeq' = [sendSeq EXCEPT ![mpVNCClient] = @ + 1]
    /\ numbered' = [numbered EXCEPT ![t] = mpVNCClient]
    /\ Goto(t, After("addseq"))
    /\ UNCHANGED <<browsers, peer, kernel, maps, vnc, lock, work, client, cmd, queue, races>>

LockSessions(t) ==
    /\ At(t, "lock") /\ Acquire(t, "mClient2SessionMap")
    /\ Goto(t, After("lock"))
    /\ UNCHANGED <<browsers, peer, kernel, maps, vnc, sendSeq, locals, queue, races>>

\* The rest runs under the lock of the sessions: find or make the session, insert
\* the task unless no reply is wanted, fill the command and queue it.
InsertFirstTask(session, c, n, needReturn) ==    \* wrong
    IF session.client # 0 THEN session
    ELSE [client |-> c, tasks |-> IF needReturn THEN {n} ELSE {}]

InsertRequestTask(session, c, n, needReturn) ==
    [client |-> IF session.client # 0 THEN session.client ELSE c,
     tasks  |-> session.tasks \cup IF needReturn THEN {n} ELSE {}]

SendMessageByQueue(t) ==
    LET f == fdOf[client[t]]
        isPacket == t # "main"
    IN
    /\ At(t, "queue") /\ Usable /\ numbered[t] = mpVNCClient
    /\ sessions' = [sessions EXCEPT ![f] = InsertRequestTask(@, client[t], seq[t], isPacket)]
    /\ commands' = Append(commands, [vnc |-> mpVNCClient, client |-> client[t], fd |-> f,
                                     seq |-> seq[t], packet |-> isPacket])
    /\ \/ VNC!Queued(mpVNCClient) /\ UNCHANGED races
       \/ /\ vphase[mpVNCClient] = "closing"
          /\ races' = races \cup {"lateCommand"} /\ UNCHANGED peer
    /\ SendEnds(t, {"mClient2SessionMap"})
    /\ UNCHANGED <<browsers, kernel, mClientMap, vnc, sendSeq, work, cmd, nsent>>

\* The pointer is followed, or its number used, after the Client was replaced.
LoseVNCClient(t) ==
    /\ \/ At(t, "check") /\ mpVNCClient # 0 /\ ~ Usable
       \/ At(t, "addseq") /\ ~ Usable
       \/ At(t, "queue") /\ (~ Usable \/ numbered[t] # mpVNCClient)
    /\ races' = races \cup {"vncGone"}
    /\ UNCHANGED <<browsers, peer, kernel, maps, vnc, sendSeq, lock, pc, locals, queue>>

(***************************************************************************)
(* The send thread, and OnClose on any thread of the browsers' server: the *)
(* session and the client go under the locks of both maps, then close(fd). *)
(***************************************************************************)
SendReply(c) ==
    /\ At("send", "idle")
    /\ Browser!Sent(c)
    /\ GotoClose("send", c, Begins(c))
    /\ UNCHANGED <<peer, kernel, maps, vnc, sendSeq, lock, found, cmd, queue, races>>

OnClose(t) ==
    LET f == fdOf[work[t]] IN
    /\ At(t, "onclose")
    /\ IsFree("mClientMap")
    /\ lock' = [lock EXCEPT !["mClientMap"] = IF mClientMap[f] # 0 THEN t ELSE Nobody]
    /\ Goto(t, IF mClientMap[f] # 0 THEN "session" ELSE "close")
    /\ UNCHANGED <<browsers, peer, kernel, maps, vnc, sendSeq, locals, queue, races>>

CloseSessionByClient(t) ==
    /\ At(t, "session") /\ Acquire(t, "mClient2SessionMap")
    /\ Goto(t, "erase")
    /\ UNCHANGED <<browsers, peer, kernel, maps, vnc, sendSeq, locals, queue, races>>

KeepSession(f)  == UNCHANGED sessions    \* wrong
EraseSession(f) == sessions' = [sessions EXCEPT ![f] = NoSession]

EraseClient(t) ==
    LET f == fdOf[work[t]] IN
    /\ At(t, "erase")
    /\ EraseSession(f)
    /\ mClientMap' = [mClientMap EXCEPT ![f] = 0]
    /\ Release({"mClientMap", "mClient2SessionMap"})
    /\ Goto(t, "close")
    /\ UNCHANGED <<browsers, peer, kernel, vnc, sendSeq, locals, queue, races>>

CloseFd(t) ==
    /\ At(t, "close")
    /\ Browser!Closed(work[t])
    /\ GotoClose(t, 0, FALSE)
    /\ UNCHANGED <<peer, kernel, maps, vnc, sendSeq, lock, found, cmd, queue, races>>

-----------------------------------------------------------------------------
(***************************************************************************)
(* The main thread of the peer's server.  OnAccept refuses a connection    *)
(* while mpVNCClient is set; the refused one is disconnected at once.      *)
(***************************************************************************)
AcceptVNC(v) ==
    /\ At("vmain", "idle")
    /\ \A u \in 1 .. v - 1 : vphase[u] # "new"
    /\ VNC!Accepted(v)
    /\ \/ /\ mpVNCClient = 0
          /\ mpVNCClient' = v
          /\ isOnline' = [isOnline EXCEPT ![v] = TRUE]
          /\ alive' = alive \cup {v}
          /\ UNCHANGED <<vshut, pc, work>>
       \/ /\ mpVNCClient # 0
          /\ vshut' = vshut \cup {v}
          /\ Goto("vmain", "disconnect") /\ Take("vmain", v)
          /\ UNCHANGED vnc
    /\ UNCHANGED <<browsers, fdOf, shut, maps, sendSeq, lock, found, cmd, queue,
                   races>>

\* The peer goes away, or HandleTimeoutMessage disconnects it.
VNCPeerClose(v) ==
    /\ vphase[v] = "open" /\ vshut' = vshut \cup {v}
    /\ UNCHANGED <<browsers, peer, fdOf, shut, maps, vnc, sendSeq, lock, pc, locals, queue, races>>

RecvVNCPacket(v) ==
    /\ At("vmain", "idle") /\ vpackets[v] < MaxPending
    /\ VNC!Received(v)
    /\ UNCHANGED <<browsers, kernel, maps, vnc, sendSeq, lock, pc, locals, queue, races>>

MarkOffline(v) == isOnline' = [isOnline EXCEPT ![v] = IF mpVNCClient = v THEN FALSE ELSE @]

OnDisconnectVNC(v) ==
    /\ \/ At("vmain", "idle") /\ vphase[v] = "open" /\ v \in vshut
       \/ At("vmain", "disconnect") /\ work["vmain"] = v
    /\ MarkOffline(v)
    /\ Take("vmain", v)
    /\ Goto("vmain", "decide")
    /\ UNCHANGED <<browsers, peer, kernel, maps, mpVNCClient, alive, sendSeq, lock, found, cmd,
                   queue, races>>

DisconnectedVNC ==
    LET v == work["vmain"] IN
    /\ At("vmain", "decide")
    /\ VNC!Disconnected(v)
    /\ GotoClose("vmain", v, VNCBegins(v))
    /\ UNCHANGED <<browsers, kernel, maps, vnc, sendSeq, lock, found, cmd, queue, races>>

(***************************************************************************)
(* A handler of the peer's server is in Client::ParseData, with mKMutex,   *)
(* for as many commands as its packet completes (none, if it comes early). *)
(* A command of the peer answers one it was sent, on this connection or on *)
(* an earlier one.                                                         *)
(***************************************************************************)
ParseSteps   == {"parse", "return", "reply", "done"}
VNCInHand(v) == {h \in VNCHandlers : work[h] = v /\ pc[h] \in ParseSteps}

HandleRecvVNCMessage(h, v) ==
    /\ At(h, "idle") /\ Cardinality(VNCInHand(v)) < vpackets[v]
    /\ Acquire(h, "mKMutex")
    /\ Take(h, v)
    /\ Goto(h, "parse")
    /\ UNCHANGED <<browsers, peer, kernel, maps, vnc, sendSeq, found, cmd, queue,
                   races>>

\* OnParseCmd
ParseProxy(h, i) ==
    /\ At(h, "parse") /\ i <= nsent
    /\ cmd' = [cmd EXCEPT ![h] = i]
    /\ Goto(h, "return")
    /\ UNCHANGED <<browsers, peer, kernel, maps, vnc, sendSeq, lock, work, client, seq, numbered,
                   queue, races>>

ParseProxyDisconnect(h, i) ==
    /\ At(h, "parse") /\ i <= nsent
    /\ Disconnect({commands[i].fd})
    /\ UNCHANGED <<browsers, peer, fdOf, vshut, maps, vnc, sendSeq, lock, pc, locals, queue, races>>

\* With a header that is refused ParseData returns -1 and the peer is shut down.
ParseEnds(h) ==
    /\ At(h, "parse")
    /\ Release({"mKMutex"})
    /\ vshut' \in {vshut, vshut \cup {work[h]}}
    /\ Goto(h, "done")
    /\ UNCHANGED <<browsers, peer, fdOf, shut, maps, vnc, sendSeq, locals, queue, races>>

HandleVNCDone(h) ==
    LET v == work[h] IN
    /\ At(h, "done")
    /\ VNC!Handled(v)
    /\ GotoClose(h, v, VNCBegins(v))
    /\ UNCHANGED <<browsers, kernel, maps, vnc, sendSeq, lock, found, cmd, queue, races>>

(***************************************************************************)
(* ReturnVNC2Client: the session of the descriptor, a task under the       *)
(* number, and an idle message, or the reply is dropped.                   *)
(***************************************************************************)
LockReturn(h) ==
    /\ At(h, "return") /\ Acquire(h, "mClient2SessionMap")
    /\ Goto(h, "reply")
    /\ UNCHANGED <<browsers, peer, kernel, maps, vnc, sendSeq, locals, queue, races>>

FoundBySession(session, n)  == session.client # 0    \* wrong
FindRequestTask(session, n) == session.client # 0 /\ n \in session.tasks

ReturnVNC2Client(h) ==
    LET session == sessions[commands[cmd[h]].fd]
        c       == session.client
    IN
    /\ At(h, "reply")
    /\ \/ /\ FindRequestTask(session, commands[cmd[h]].seq)
          /\ replies[c] < MaxPending
          /\ \/ Browser!Queued(c) /\ UNCHANGED races
             \/ /\ phase[c] = "closing"
                /\ races' = races \cup {"lateReply"} /\ UNCHANGED browsers
       \/ UNCHANGED <<browsers, races>>
    /\ Release({"mClient2SessionMap"})
    /\ cmd' = [cmd EXCEPT ![h] = 0]
    /\ Goto(h, "parse")
    /\ UNCHANGED <<peer, kernel, maps, vnc, sendSeq, work, found, queue>>

(***************************************************************************)
(* The send thread and OnClose of the peer's server.  CloseSessionByVNC    *)
(* shuts down every browser, then the Client is deleted and the pointer    *)
(* cleared, without a lock.  OnClose of a refused connection does nothing. *)
(***************************************************************************)
SendCommand(v) ==
    /\ At("vsend", "idle")
    /\ nsent < Len(commands) /\ commands[nsent + 1].vnc = v
    /\ VNC!Sent(v)
    /\ nsent' = nsent + 1
    /\ GotoClose("vsend", v, VNCBegins(v))
    /\ UNCHANGED <<browsers, kernel, maps, vnc, sendSeq, lock, found, cmd, commands, races>>

ShutNobody     == UNCHANGED shut    \* wrong
ShutAllEntries == shut' = shut \cup Range(mClientMap)    \* wrong
ShutAllClients == shut' = shut \cup (Range(mClientMap) \ {0})

CloseSessionByVNC(t) ==
    /\ At(t, "onclose") /\ mpVNCClient = work[t]
    /\ IsFree("mClientMap")
    /\ ShutAllClients
    /\ Goto(t, "delete")
    /\ UNCHANGED <<browsers, peer, fdOf, vshut, maps, vnc, sendSeq, lock, locals, queue, races>>

CloseRefused(t) ==
    /\ At(t, "onclose") /\ mpVNCClient # work[t]
    /\ Goto(t, "close")
    /\ UNCHANGED <<browsers, peer, kernel, maps, vnc, sendSeq, lock, locals, queue, races>>

DeleteVNCClient(t) ==
    /\ At(t, "delete")
    /\ alive' = alive \ {mpVNCClient}
    /\ Goto(t, "null")
    /\ UNCHANGED <<browsers, peer, kernel, maps, mpVNCClient, isOnline, sendSeq, lock, locals,
                   queue, races>>

PointerStays == UNCHANGED mpVNCClient    \* wrong
ClearPointer == mpVNCClient' = 0

ClearVNCClient(t) ==
    /\ At(t, "null")
    /\ ClearPointer
    /\ Goto(t, "close")
    /\ UNCHANGED <<browsers, peer, kernel, maps, isOnline, alive, sendSeq, lock, locals, queue,
                   races>>

CloseVNCFd(t) ==
    /\ At(t, "close")
    /\ VNC!Closed(work[t])
    /\ GotoClose(t, 0, FALSE)
    /\ UNCHANGED <<browsers, kernel, maps, vnc, sendSeq, lock, found, cmd, queue, races>>

-----------------------------------------------------------------------------
\* A thread goes on with the callback it is in.
BrowserSteps(t) ==
    \/ CheckOnline(t) \/ SendFails(t) \/ AddSeq(t) \/ LockSessions(t) \/ SendMessageByQueue(t)
    \/ LoseVNCClient(t) \/ OnClose(t) \/ CloseSessionByClient(t) \/ EraseClient(t) \/ CloseFd(t)

VNCSteps(t) ==
    \/ LockReturn(t) \/ ReturnVNC2Client(t)
    \/ CloseSessionByVNC(t) \/ CloseRefused(t) \/ DeleteVNCClient(t) \/ ClearVNCClient(t)
    \/ CloseVNCFd(t)

\* The connections of browsers there were so far.
Accepted == 1 .. Len(fdOf)

BrowserNext ==
    \/ \E f \in Fds : Accept(f)
    \/ \E c \in Accepted : PeerClose(c) \/ RecvPacket(c) \/ OnDisconnect(c) \/ SendReply(c)
    \/ Disconnected
    \/ \E h \in Handlers : HandleDone(h) \/ \E c \in Accepted : HandleRecvMessage(h, c)
    \/ \E t \in BThreads : BrowserSteps(t)

VNCNext ==
    \/ \E v \in VNCs :
          AcceptVNC(v) \/ VNCPeerClose(v) \/ RecvVNCPacket(v) \/ OnDisconnectVNC(v)
          \/ SendCommand(v)
    \/ DisconnectedVNC
    \/ \E h \in VNCHandlers :
          \/ \E v \in VNCs : HandleRecvVNCMessage(h, v)
          \/ \E i \in 1 .. nsent : ParseProxy(h, i) \/ ParseProxyDisconnect(h, i)
          \/ ParseEnds(h) \/ HandleVNCDone(h)
    \/ \E t \in VThreads : VNCSteps(t)

\* All connections of the bounds have come and gone.
Terminating ==
    /\ \A c \in Conns : phase[c] = "closed"
    /\ \A v \in VNCs : vphase[v] = "closed"
    /\ UNCHANGED vars

Next == BrowserNext \/ VNCNext \/ Terminating
Spec == Init /\ [][Next]_vars

(***************************************************************************)
(* Fairness: every thread goes on with what it began, handlers and send    *)
(* threads poll their lists, libev serves every socket that is readable.   *)
(* It is strong because a thread waits for locks others take again and     *)
(* again, and ParseData ends since a packet holds finitely many commands.  *)
(* Nothing is asked of browsers and the peer, nor of accept and recv.      *)
(***************************************************************************)
MainWork       == Disconnected \/ BrowserSteps("main") \/ \E c \in Accepted : OnDisconnect(c)
SendWork       == BrowserSteps("send") \/ \E c \in Accepted : SendReply(c)
HandlerWork(h) == HandleDone(h) \/ BrowserSteps(h) \/ \E c \in Accepted : HandleRecvMessage(h, c)

VNCMainWork       == DisconnectedVNC \/ VNCSteps("vmain") \/ \E v \in VNCs : OnDisconnectVNC(v)
VNCSendWork       == VNCSteps("vsend") \/ \E v \in VNCs : SendCommand(v)
VNCHandlerWork(h) == HandleVNCDone(h) \/ VNCSteps(h) \/ \E v \in VNCs : HandleRecvVNCMessage(h, v)

Fairness ==
    /\ SF_vars(MainWork) /\ SF_vars(SendWork) /\ \A h \in Handlers : SF_vars(HandlerWork(h))
    /\ SF_vars(VNCMainWork) /\ SF_vars(VNCSendWork)
    /\ \A h \in VNCHandlers : SF_vars(VNCHandlerWork(h)) /\ SF_vars(ParseEnds(h))

\* The behaviours in which no race is entered: a thread that can only enter one does
\* not wait there for ever either.
QuietSpec == Init /\ [][Next /\ races' = {}]_vars /\ Fairness

-----------------------------------------------------------------------------
(***************************************************************************)
(* The Client a handler found in mClientMap is not deleted while it uses   *)
(* it without the lock, and is that of the connection the packet came from *)
(* (842-876 against 353-362): what the comment says follows if mClientTcp- *)
(* Server keeps the promise of ConnectionService.  Nor does a session out- *)
(* live its Client: ReturnVNC2Client follows session->client under the     *)
(* lock of the sessions only (649, 768-782).                               *)
(***************************************************************************)
Using(t) == pc[t] \in {"check", "addseq", "lock", "queue"}

ClientOutlivesUsers ==
    /\ \A t \in {"main"} \cup Handlers :
          Using(t) => client[t] = work[t] /\ mClientMap[fdOf[work[t]]] = client[t]
    /\ \A f \in Fds : sessions[f].client \in {0, mClientMap[f]}

(***************************************************************************)
(* A packet of the peer is parsed by the live Client of its connection,    *)
(* though HandleRecvVNCMessage does not look for it by descriptor (910).   *)
(***************************************************************************)
ParserAlive ==
    \A h \in VNCHandlers :
        pc[h] \in ParseSteps => mpVNCClient = work[h] /\ mpVNCClient \in alive

(***************************************************************************)
(* No threads wait for each other in a circle: mClientMap comes before     *)
(* mKMutex of the peer's Client, and that before mClient2SessionMap        *)
(* (291-305, 539-542, 353-361, 612).                                       *)
(***************************************************************************)
Wants(t) == CASE pc[t] = "addseq"                          -> {"mKMutex"}
              [] pc[t] \in {"lock", "session", "return"}   -> {"mClient2SessionMap"}
              [] pc[t] = "onclose"                         -> {"mClientMap"}
              [] OTHER                                     -> {}

WaitsFor(t, u) == \E l \in Wants(t) : lock[l] = u

NoCircularWait ==
    \A ts \in SUBSET (Range(lock) \ {Nobody}) :
        ts # {} => \E t \in ts : \A u \in ts : ~ WaitsFor(t, u)

(***************************************************************************)
(* Whatever the peer answers to a command of its present connection is     *)
(* taken for the browser that sent it, although descriptors are reused     *)
(* while answers travel: a session with a task under the number belongs to *)
(* the connection that made the command (539-587, 612-666, 768-782).       *)
(***************************************************************************)
AnswersReachAsker ==
    races = {} =>
        \A i \in DOMAIN commands :
            LET q == commands[i] IN
            (q.vnc = mpVNCClient /\ FindRequestTask(sessions[q.fd], q.seq))
                => sessions[q.fd].client = q.client

(***************************************************************************)
(* A packet forwarded to the peer can be answered as long as its browser   *)
(* is there: its task is in the session when the command is queued, under  *)
(* a number no other command of the connection has (383, 576-586).         *)
(***************************************************************************)
CommandsAnswerable ==
    races = {} =>
        /\ \A i \in DOMAIN commands :
              LET q == commands[i] IN
              (q.packet /\ mClientMap[q.fd] = q.client) => FindRequestTask(sessions[q.fd], q.seq)
        /\ \A i, j \in DOMAIN commands :
              (i # j /\ commands[i].vnc = commands[j].vnc) => commands[i].seq # commands[j].seq

(***************************************************************************)
(* The peer tells browsers apart by descriptor: no command of a connection *)
(* follows one of a later connection with the same descriptor (583-586).   *)
(***************************************************************************)
ConnectionsFollowEachOther ==
    \A i, j \in DOMAIN commands :
        (i < j /\ commands[i].fd = commands[j].fd) => commands[i].client <= commands[j].client

(***************************************************************************)
(* No browser waits for a peer that is gone: once a connection of the peer *)
(* is closed every browser with a command on it was shut down (522, 331,   *)
(* 388, 742-750).                                                          *)
(***************************************************************************)
NobodyWaitsForGonePeer ==
    races = {} =>
        \A i \in DOMAIN commands :
            vphase[commands[i].vnc] = "closed" => commands[i].client \in shut

(***************************************************************************)
(* A peer whose connection ends is forgotten, so that OnAccept can take    *)
(* the next one: none of its packets, commands and locks is in the way for *)
(* ever (240, 331, 389).                                                   *)
(***************************************************************************)
PeerForgotten ==
    \A v \in VNCs : (mpVNCClient = v /\ v \in vshut) ~> (mpVNCClient # v)

(***************************************************************************)
(* A browser that was shut down is closed, provided the peer's answers to  *)
(* it stop coming (279-305, 339-362, 742-750).                             *)
(***************************************************************************)
Answering(c) == \E h \in VNCHandlers :
                   At(h, "reply") /\ sessions[commands[cmd[h]].fd].client = c

BrowserLeaves ==
    \A c \in Conns :
        <>[](~ Answering(c)) =>
            ((c \in shut /\ phase[c] = "open") ~> (phase[c] = "closed"))
=============================================================================
