----------------------------- MODULE ProxySystem -----------------------------
(***************************************************************************)
(* TcpProxyServer and HttpProxyServer together: browsers, both TcpServers, *)
(* the connection between the programs with the room of its sockets, the   *)
(* receiving thread and the HttpRequests.                                  *)
(*                                                                         *)
(* A callback is one step here; TcpServer, TcpProxyServer and Http-        *)
(* ProxyServer have what happens inside.  What remains is what no program  *)
(* decides alone: messages that wait for room in the other program, and    *)
(* commands that travel while browsers leave and descriptors are reused.   *)
(* Both pools of messages are shared by what is received and what is sent. *)
(* A message of the VNC server holds one command.                          *)
(*                                                                         *)
(* Definitions marked wrong vary the one below them, to test that the      *)
(* properties would notice; no behaviour uses them.                        *)
(***************************************************************************)
EXTENDS Naturals, Sequences, FiniteSets, FiniteSetsExt

CONSTANTS Fds,          \* descriptors of browsers
          Requests,     \* HttpRequests
          Receiver,     \* the receiving thread of the peer
          Nobody,       \* the holder of a free mutex
          NoCommand,    \* the command in hand when there is none
          BrowserPool,  \* messages of mClientTcpServer
          VNCPool,      \* messages of mClientTcpVNCServer
          DownRoom,     \* commands the sockets hold on the way to the peer
          UpRoom,       \* and on the way back; the last one may fit in part
          Deaf,         \* browsers that read nothing
          MaxBrowsers,  \* bound: connections of browsers
          MaxPackets,   \* bound: packets of all browsers
          MaxLeaves,    \* bound: browsers that leave by themselves
          MaxPieces,    \* bound: pieces of all answers
          MaxLinks      \* bound: connections of the peer

ASSUME ProxySystemAssumption ==
    /\ IsFiniteSet(Requests) /\ Receiver \notin Requests /\ Nobody \notin Requests \cup {Receiver}
    /\ {BrowserPool, VNCPool, DownRoom, UpRoom, MaxBrowsers, MaxPackets, MaxLeaves, MaxPieces,
        MaxLinks} \subseteq Nat
    /\ BrowserPool > 0 /\ VNCPool > 0 /\ DownRoom > 0 /\ UpRoom > 1

VARIABLES
    fdOf,      \* the descriptors of browsers, in order of accept
    phase,     \* of a browser: new, open, leaving (OnDisconnect was called), closed
    unsent,    \* packets browsers may still send
    packets,   \* packets of a browser that are received and not handled
    replies,   \* mSendMessageList of mClientTcpServer
    tasks,     \* numbers of the tasks in a browser's session
    shut,      \* browsers whose socket was shut down
    vnc,       \* the peer's Client: none, online, offline
    sendSeq,   \* its miPacketSendSeq
    sending,   \* mSendMessageList of mClientTcpVNCServer
    handling,  \* its mHandleMessageList
    nlinks,    \* connections of the peer so far
    alive,     \* the present one is not lost
    down, up,  \* whole commands in its sockets
    half,      \* the thread that has written a part of the next one
    parser,    \* mDataHttpParserMap: the browsers whose bytes a parser has
    lock,      \* the thread that holds its mutex
    pc,        \* control points of the peer
    cmd,       \* the command the receiving thread has in hand
    request,   \* fd, number, whose bytes were parsed, pieces of body so far
    gone,      \* ghost: browsers that left themselves
    excused,   \* ghost: browsers that nothing is promised any more
    heard,     \* ghost: pieces a browser was sent
    dropped,   \* ghost: pieces there was no idle message for
    races      \* ghost: races entered so far

browsers  == <<fdOf, phase, unsent, packets, tasks, shut>>
proxy     == <<vnc, sendSeq, sending, handling>>
link      == <<nlinks, alive, down, up, half>>
peer      == <<parser, lock, pc, cmd, request>>
ghosts    == <<gone, excused, heard, dropped>>
vars      == <<browsers, replies, proxy, link, peer, ghosts, races>>

Browsers == 1 .. MaxBrowsers
Threads  == Requests \cup {Receiver}

\* Messages of mClientTcpServer that wait to be handled or sent.
InUse == Len(replies)
         + Cardinality({p \in Browsers \X (1 .. MaxPackets) : p[2] <= packets[p[1]]})

IdleOneMore == InUse <= BrowserPool    \* wrong
Idle        == InUse < BrowserPool
VNCIdle     == Len(sending) + Len(handling) < VNCPool

Exchange == INSTANCE Tunnel WITH
    serves  <- [r \in Requests |-> request[r].of],
    given   <- [r \in Requests |-> request[r].pieces],
    ended   <- {r \in Requests : pc[r] \in {"end", "hangup", "unlock", "deleted"}},
    dry     <- ~ Idle,
    closed  <- {b \in Browsers : phase[b] = "closed"}

NoRequest == [fd |-> Nobody, seq |-> 0, of |-> {}, pieces |-> 0]

TypeOK ==
    /\ fdOf \in Seq(Fds) /\ Len(fdOf) <= MaxBrowsers
    /\ phase \in [Browsers -> {"new", "open", "leaving", "closed"}]
    /\ unsent \in 0 .. MaxPackets /\ packets \in [Browsers -> 0 .. MaxPackets]
    /\ tasks \in [Browsers -> SUBSET Nat] /\ shut \subseteq 1 .. Len(fdOf)
    /\ replies \in Seq([to : Browsers, request : Requests, piece : 1 .. MaxPieces])
    /\ vnc \in {"none", "online", "offline"} /\ sendSeq \in Nat
    /\ sending \in Seq([type : {"Proxy", "ProxyDisconnect"}, fd : Fds, seq : Nat, of : Browsers])
    /\ Len(down) <= DownRoom
    /\ nlinks \in 0 .. MaxLinks /\ alive \in BOOLEAN
    /\ half \in Threads \cup {Nobody} /\ lock \in Requests \cup {Nobody}
    /\ Len(up) <= UpRoom /\ (half # Nobody => pc[half] \in {"send", "hangup"})
    /\ Len(sending) + Len(handling) <= VNCPool
    /\ InUse <= BrowserPool
    /\ parser \in [Fds -> SUBSET Browsers]
    /\ pc \in [Threads -> {"connect", "recv", "parse", "erase", "none", "run", "send", "end",
                           "hangup", "unlock", "deleted"}]
    /\ lock # Nobody <=> \E r \in Requests : pc[r] \in {"hangup", "unlock"}
    /\ excused \subseteq Browsers /\ gone \subseteq shut
    /\ races \subseteq {"torn", "latePacket", "lostDisconnect", "keptParser", "outlived"}

Init ==
    /\ fdOf = <<>> /\ phase = [b \in Browsers |-> "new"]
    /\ unsent = MaxPackets /\ packets = [b \in Browsers |-> 0]
    /\ replies = <<>> /\ tasks = [b \in Browsers |-> {}] /\ shut = {}
    /\ vnc = "none" /\ sendSeq = 0 /\ sending = <<>> /\ handling = <<>>
    /\ nlinks = 0 /\ alive = FALSE /\ down = <<>> /\ up = <<>> /\ half = Nobody
    /\ parser = [fd \in Fds |-> {}] /\ lock = Nobody
    /\ pc = [t \in Threads |-> IF t = Receiver THEN "connect" ELSE "none"]
    /\ cmd = NoCommand /\ request = [r \in Requests |-> NoRequest]
    /\ gone = {} /\ excused = {} /\ heard = [b \in Browsers |-> <<>>] /\ dropped = {}
    /\ races = {}

At(t, location)         == pc[t] = location
Goto(t, location)       == pc' = [pc EXCEPT ![t] = location]
Enter(race, condition)  == races' = races \cup (IF condition THEN {race} ELSE {})

\* The browser that has a descriptor: none, or one.
Holder(fd) == {b \in DOMAIN fdOf : fdOf[b] = fd /\ phase[b] # "closed"}

-----------------------------------------------------------------------------
(***************************************************************************)
(* Browsers, and the callbacks of mClientTcpServer.                        *)
(***************************************************************************)
Accept(fd) ==
    LET b == Len(fdOf) + 1 IN
    /\ b <= MaxBrowsers /\ Holder(fd) = {}
    /\ fdOf' = Append(fdOf, fd) /\ phase' = [phase EXCEPT ![b] = "open"]
    /\ UNCHANGED <<unsent, packets, tasks, shut, replies, proxy, link, peer, ghosts, races>>

RecvPacket(b) ==
    /\ phase[b] = "open" /\ unsent > 0 /\ Idle
    /\ unsent' = unsent - 1 /\ packets' = [packets EXCEPT ![b] = @ + 1]
    /\ UNCHANGED <<fdOf, phase, tasks, shut, replies, proxy, link, peer, ghosts, races>>

BrowserLeaves(b) ==
    /\ phase[b] \in {"open", "leaving"} /\ b \notin gone
    /\ Cardinality(gone) < MaxLeaves
    /\ gone' = gone \cup {b} /\ excused' = excused \cup {b} /\ shut' = shut \cup {b}
    /\ UNCHANGED <<fdOf, phase, unsent, packets, tasks, replies, proxy, link, peer, heard, dropped,
                   races>>

\* Whoever is the last to be done with a browser that is leaving closes it, and
\* OnClose deletes its session.
Outstanding(b)     == packets[b] + Cardinality({i \in DOMAIN replies : replies[i].to = b})
CloseAtOnce(b)     == phase[b] = "leaving"    \* wrong
CloseIfDone(b)     == phase[b] = "leaving" /\ Outstanding(b) = 1

DoneWith(b) ==
    IF CloseIfDone(b)
    THEN phase' = [phase EXCEPT ![b] = "closed"] /\ tasks' = [tasks EXCEPT ![b] = {}]
    ELSE UNCHANGED <<phase, tasks>>

\* SendClient2VNC: with an idle message of the VNC server, for a peer that is there.
CanSend == vnc = "online" /\ VNCIdle

SendClient2VNC(type, b) ==
    /\ sending' = Append(sending, [type |-> type, fd |-> fdOf[b], seq |-> sendSeq, of |-> b])
    /\ sendSeq' = sendSeq + 1
    /\ UNCHANGED <<vnc, handling>>

\* The main thread takes an idle message before it looks at the socket.
OnDisconnect(b) ==
    /\ phase[b] = "open" /\ b \in shut /\ Idle
    /\ IF CanSend THEN SendClient2VNC("ProxyDisconnect", b) ELSE UNCHANGED proxy
    /\ Enter("lostDisconnect", alive /\ vnc = "online" /\ ~ VNCIdle)
    /\ phase' = [phase EXCEPT ![b] = IF Outstanding(b) = 0 THEN "closed" ELSE "leaving"]
    /\ tasks' = [tasks EXCEPT ![b] = IF Outstanding(b) = 0 THEN {} ELSE @]
    /\ UNCHANGED <<fdOf, unsent, packets, shut, replies, link, peer, ghosts>>

\* HandleRecvMessage: the task goes into the session with the command's number.
Forward(b) ==
    /\ packets[b] > 0 /\ CanSend
    /\ SendClient2VNC("Proxy", b)
    /\ packets' = [packets EXCEPT ![b] = @ - 1]
    /\ IF CloseIfDone(b) THEN DoneWith(b)
       ELSE tasks' = [tasks EXCEPT ![b] = @ \cup {sendSeq}] /\ UNCHANGED phase
    /\ Enter("latePacket", phase[b] = "leaving")
    /\ UNCHANGED <<fdOf, unsent, shut, replies, link, peer, ghosts>>

\* Without peer or message the browser is disconnected.
TurnAway(b) ==
    /\ packets[b] > 0 /\ ~ CanSend
    /\ packets' = [packets EXCEPT ![b] = @ - 1]
    /\ shut' = shut \cup {b} /\ excused' = excused \cup {b}
    /\ DoneWith(b)
    /\ UNCHANGED <<fdOf, unsent, replies, proxy, link, peer, gone, heard, dropped, races>>

\* The send thread: send() waits for a browser that does not read, and fails for one
\* that left.
SendReply ==
    /\ replies # <<>>
    /\ LET m == Head(replies) IN
          /\ m.to \notin Deaf \/ m.to \in gone
          /\ heard' = IF m.to \in gone THEN heard
                      ELSE [heard EXCEPT ![m.to] = Append(@, <<m.request, m.piece>>)]
          /\ DoneWith(m.to)
    /\ replies' = Tail(replies)
    /\ UNCHANGED <<fdOf, unsent, packets, shut, proxy, link, peer, gone, excused, dropped, races>>

-----------------------------------------------------------------------------
(***************************************************************************)
(* The callbacks of mClientTcpVNCServer.                                   *)
(***************************************************************************)
\* send() waits for room; on a connection that is lost it fails.
SendCommand ==
    /\ sending # <<>> /\ (alive => Len(down) < DownRoom)
    /\ down' = IF alive THEN Append(down, Head(sending)) ELSE down
    /\ sending' = Tail(sending)
    /\ UNCHANGED <<browsers, replies, vnc, sendSeq, handling, nlinks, alive, up, half, peer, ghosts,
                   races>>

RecvVNC ==
    /\ vnc = "online" /\ up # <<>> /\ VNCIdle
    /\ handling' = Append(handling, Head(up)) /\ up' = Tail(up)
    /\ UNCHANGED <<browsers, replies, vnc, sendSeq, sending, nlinks, alive, down, half, peer,
                   ghosts, races>>

\* OnParseCmd: a piece is a reply if there is a task under its number, and is
\* dropped if there is no idle message.
AnyTask(b, n)  == TRUE    \* wrong
HasTask(b, n)  == n \in tasks[b]

ReturnVNC2Client ==
    /\ handling # <<>> /\ Head(handling).type = "Proxy"
    /\ LET c    == Head(handling)
           to   == {b \in Holder(c.fd) : HasTask(b, c.seq)}
           What(b) == [to |-> b, request |-> c.request, piece |-> c.piece]
       IN  \/ \E b \in to : Idle /\ replies' = Append(replies, What(b)) /\ UNCHANGED dropped
           \/ /\ to = {} \/ ~ Idle
              /\ dropped' = IF to = {} THEN dropped ELSE dropped \cup {<<c.request, c.piece>>}
              /\ UNCHANGED replies
    /\ handling' = Tail(handling)
    /\ UNCHANGED <<browsers, vnc, sendSeq, sending, link, peer, gone, excused, heard, races>>

\* The command names a descriptor: its present browser may not be the one it is for.
ProxyDisconnect ==
    /\ handling # <<>> /\ Head(handling).type = "ProxyDisconnect"
    /\ LET c == Head(handling) IN
          /\ shut' = shut \cup Holder(c.fd)
          /\ excused' = excused \cup (Holder(c.fd) \ c.of)
    /\ handling' = Tail(handling)
    /\ UNCHANGED <<fdOf, phase, unsent, packets, tasks, replies, vnc, sendSeq, sending, link, peer,
                   gone, heard, dropped, races>>

OnDisconnectVNC ==
    /\ vnc = "online" /\ ~ alive /\ up = <<>> /\ VNCIdle
    /\ vnc' = "offline"
    /\ UNCHANGED <<browsers, replies, sendSeq, sending, handling, link, peer, ghosts, races>>

\* OnClose of the VNC server: CloseSessionByVNC shuts every browser down.
ShutNobody   == UNCHANGED <<shut, excused>>    \* wrong
ShutBrowsers == LET open == UNION {Holder(fd) : fd \in Fds} IN
                shut' = shut \cup open /\ excused' = excused \cup open

OnCloseVNC ==
    /\ vnc = "offline" /\ sending = <<>> /\ handling = <<>>
    /\ ShutBrowsers
    /\ vnc' = "none"
    /\ UNCHANGED <<fdOf, phase, unsent, packets, tasks, replies, sendSeq, sending, handling, link,
                   peer, gone, heard, dropped, races>>

-----------------------------------------------------------------------------
(***************************************************************************)
(* The peer: the receiving thread.                                         *)
(***************************************************************************)
\* A connection is refused as long as the Client of the last one is there; the
\* peer tries again.  Requests and parsers of the last one are kept.
Connect ==
    /\ At(Receiver, "connect") /\ vnc = "none" /\ nlinks < MaxLinks
    /\ nlinks' = nlinks + 1 /\ alive' = TRUE
    /\ down' = <<>> /\ up' = <<>> /\ half' = Nobody
    /\ vnc' = "online" /\ sendSeq' = 0
    /\ races' = races \cup
          (IF \E fd \in Fds : parser[fd] # {} THEN {"keptParser"} ELSE {}) \cup
          (IF \E r \in Requests : pc[r] \notin {"none", "deleted"} THEN {"outlived"} ELSE {})
    /\ Goto(Receiver, "recv")
    /\ UNCHANGED <<browsers, replies, sending, handling, parser, lock, cmd, request, ghosts>>

\* What the proxy was sent before may still be read.
LinkLost ==
    /\ alive /\ alive' = FALSE
    /\ down' = <<>> /\ half' = Nobody
    /\ \E n \in 0 .. Len(up) : up' = SubSeq(up, 1, n)
    /\ UNCHANGED <<browsers, replies, proxy, nlinks, peer, ghosts, races>>

RecvFails ==
    /\ At(Receiver, "recv") /\ ~ alive
    /\ Goto(Receiver, "connect")
    /\ UNCHANGED <<browsers, replies, proxy, link, parser, lock, cmd, request, ghosts, races>>

RecvCommand ==
    /\ At(Receiver, "recv") /\ down # <<>>
    /\ cmd' = Head(down) /\ down' = Tail(down)
    /\ Goto(Receiver, IF Head(down).type = "Proxy" THEN "parse" ELSE "erase")
    /\ UNCHANGED <<browsers, replies, proxy, nlinks, alive, up, half, parser, lock, request, ghosts,
                   races>>

Fed == [parser EXCEPT ![cmd.fd] = @ \cup {cmd.of}]

\* The packet completes no request.
ParsedInPart ==
    /\ At(Receiver, "parse") /\ lock = Nobody
    /\ parser' = Fed
    /\ cmd' = NoCommand /\ Goto(Receiver, "recv")
    /\ UNCHANGED <<browsers, replies, proxy, link, lock, request, ghosts, races>>

\* It completes one, which keeps the number of this packet.
ParsedAll(r) ==
    /\ At(Receiver, "parse") /\ lock = Nobody /\ At(r, "none")
    /\ parser' = Fed
    /\ request' = [request EXCEPT ![r] = [fd |-> cmd.fd, seq |-> cmd.seq, of |-> Fed[cmd.fd],
                                          pieces |-> 0]]
    /\ cmd' = NoCommand /\ pc' = [pc EXCEPT ![Receiver] = "recv", ![r] = "run"]
    /\ UNCHANGED <<browsers, replies, proxy, link, lock, ghosts, races>>

\* The parser refuses it: the receiving thread sends a ProxyDisconnect.
ParserFull ==
    /\ At(Receiver, "parse") /\ lock = Nobody /\ parser[cmd.fd] # {}
    /\ excused' = excused \cup {cmd.of}
    /\ Goto(Receiver, "send")
    /\ UNCHANGED <<browsers, replies, proxy, link, parser, lock, cmd, request, gone, heard, dropped,
                   races>>

OnRecvProxyDisconnect ==
    /\ At(Receiver, "erase") /\ lock = Nobody
    /\ parser' = [parser EXCEPT ![cmd.fd] = {}]
    /\ cmd' = NoCommand /\ Goto(Receiver, "recv")
    /\ UNCHANGED <<browsers, replies, proxy, link, lock, request, ghosts, races>>

(***************************************************************************)
(* The peer: HttpRequests.                                                 *)
(***************************************************************************)
OnReceiveBody(r) ==
    /\ At(r, "run") /\ FoldSet(LAMBDA q, n : request[q].pieces + n, 0, Requests) < MaxPieces
    /\ request' = [request EXCEPT ![r].pieces = @ + 1]
    /\ Goto(r, "send")
    /\ UNCHANGED <<browsers, replies, proxy, link, parser, lock, cmd, ghosts, races>>

RequestEnds(r) ==
    /\ At(r, "run")
    /\ Goto(r, "end")
    /\ UNCHANGED <<browsers, replies, proxy, link, parser, lock, cmd, request, ghosts, races>>

HasParser(fd) == parser[fd] # {}

\* The ProxyDisconnect is sent with the map locked.
OnSuccessOrFail(r) ==
    /\ At(r, "end") /\ lock = Nobody
    /\ lock' = r
    /\ Goto(r, IF HasParser(request[r].fd) THEN "hangup" ELSE "unlock")
    /\ UNCHANGED <<browsers, replies, proxy, link, parser, cmd, request, ghosts, races>>

KeepLock == UNCHANGED lock    \* wrong
Unlock   == lock' = Nobody

UnlockAndDelete(r) ==
    /\ At(r, "unlock")
    /\ Unlock
    /\ Goto(r, "deleted")
    /\ UNCHANGED <<browsers, replies, proxy, link, parser, cmd, request, ghosts, races>>

(***************************************************************************)
(* SendCommand of the peer: no mutex covers it, so when a command does not *)
(* fit whole another thread may write between its parts.                   *)
(***************************************************************************)
Sends(t) == pc[t] \in {"send", "hangup"}

AfterSend(t) ==
    IF t = Receiver THEN "recv" ELSE IF pc[t] = "send" THEN "run" ELSE "unlock"

Command(t) ==
    IF t = Receiver
    THEN [type |-> "ProxyDisconnect", fd |-> cmd.fd, of |-> {cmd.of}]
    ELSE IF pc[t] = "hangup"
    THEN [type |-> "ProxyDisconnect", fd |-> request[t].fd, of |-> request[t].of]
    ELSE [type |-> "Proxy", fd |-> request[t].fd, seq |-> request[t].seq, of |-> request[t].of,
          request |-> t, piece |-> request[t].pieces]

Sent(t) ==
    /\ Goto(t, AfterSend(t))
    /\ cmd' = IF t = Receiver THEN NoCommand ELSE cmd
    /\ UNCHANGED <<browsers, replies, proxy, nlinks, alive, down, parser, lock, request, ghosts>>

SendWhole(t) ==
    /\ Sends(t) /\ alive /\ half \in {Nobody, t}
    /\ Len(up) < IF half = t THEN UpRoom - 1 ELSE UpRoom
    /\ up' = Append(up, Command(t)) /\ half' = Nobody
    /\ Sent(t) /\ UNCHANGED races

SendPart(t) ==
    /\ Sends(t) /\ alive /\ half = Nobody
    /\ Len(up) = UpRoom - 1
    /\ half' = t
    /\ UNCHANGED <<browsers, replies, proxy, nlinks, alive, down, up, peer, ghosts, races>>

\* Room for more than the rest: what another thread writes comes first.
SendBetween(t) ==
    /\ Sends(t) /\ alive /\ half \notin {Nobody, t} /\ Len(up) < UpRoom - 1
    /\ Enter("torn", TRUE)
    /\ UNCHANGED <<browsers, replies, proxy, link, peer, ghosts>>

SendFails(t) ==
    /\ Sends(t) /\ ~ alive
    /\ Sent(t)
    /\ UNCHANGED <<up, half, races>>

-----------------------------------------------------------------------------
Send(t)    == SendWhole(t) \/ SendPart(t) \/ SendBetween(t) \/ SendFails(t)
Receive    == RecvFails \/ RecvCommand \/ ParsedInPart \/ (\E r \in Requests : ParsedAll(r))
              \/ ParserFull \/ OnRecvProxyDisconnect
MainThread == \E b \in DOMAIN fdOf : OnDisconnect(b)
Handlers   == \E b \in DOMAIN fdOf : Forward(b) \/ TurnAway(b)
VNCMain    == RecvVNC \/ OnDisconnectVNC
VNCHandler == ReturnVNC2Client \/ ProxyDisconnect \/ OnCloseVNC

\* What the programs do by themselves.
Program ==
    \/ MainThread \/ Handlers \/ SendReply \/ VNCMain \/ VNCHandler \/ SendCommand
    \/ Receive \/ \E t \in Threads : Send(t)
    \/ \E r \in Requests : OnSuccessOrFail(r) \/ UnlockAndDelete(r)

Environment ==
    \/ \E fd \in Fds : Accept(fd)
    \/ \E b \in DOMAIN fdOf : RecvPacket(b) \/ BrowserLeaves(b)
    \/ Connect \/ LinkLost
    \/ \E r \in Requests : OnReceiveBody(r) \/ RequestEnds(r)

Next == Program \/ Environment
Spec == Init /\ [][Next]_vars

-----------------------------------------------------------------------------
(***************************************************************************)
(* Until commands are torn or come too late (races), a browser hears its   *)
(* own answer, in order and once, with holes only when the proxy has no    *)
(* idle message, and is hung up on before it is whole only when it is      *)
(* excused: it left or was turned away, the connection of the programs was *)
(* lost, its request was refused, or it was taken for one that had its     *)
(* descriptor before (TcpProxyServer.cpp 504-728, 788-894; HttpProxy-      *)
(* Server.cpp 27-133).                                                     *)
(***************************************************************************)
ImplementsTunnel == Exchange!TunnelSpec

(***************************************************************************)
(* The one circle in which both programs wait for each other for ever: all *)
(* messages of the VNC server wait to be sent, the sockets are full both   *)
(* ways, and the receiving thread waits to send or for the map, which a    *)
(* request keeps while it waits to send.                                   *)
(***************************************************************************)
Circle ==
    /\ alive /\ vnc = "online"
    /\ ~ VNCIdle /\ handling = <<>> /\ Len(down) = DownRoom
    /\ Len(up) + (IF half = Nobody THEN 0 ELSE 1) = UpRoom
    /\ \/ Sends(Receiver)
       \/ pc[Receiver] \in {"parse", "erase"} /\ lock # Nobody /\ Sends(lock)

\* The only send thread waits for a browser that reads nothing.
BehindDeaf == replies # <<>> /\ Head(replies).to \in Deaf \ gone

(***************************************************************************)
(* Neither wait ends by itself: the circle lasts until the connection of   *)
(* the programs is lost, and the other until the browser at the head       *)
(* leaves (TcpServer.cpp 737-757, 935-1029, TcpProxyClient.cpp 321-348).   *)
(***************************************************************************)
WaitsLast ==
    [][/\ Circle /\ alive' => Circle'
       /\ BehindDeaf /\ Head(replies).to \notin gone' => BehindDeaf']_vars

CommandsDone ==
    /\ sending = <<>> /\ handling = <<>> /\ up = <<>> /\ down = <<>>
    /\ \A b \in Browsers : packets[b] = 0
    /\ pc[Receiver] \in {"connect", "recv"}
    /\ \A r \in Requests : pc[r] \in {"none", "run", "deleted"}

RepliesDone == replies = <<>> /\ \A b \in shut : phase[b] = "closed"

(***************************************************************************)
(* Where the programs may stop: when everything is done, in that circle,   *)
(* or, as far as replies and closes are concerned, behind a browser that   *)
(* reads nothing; commands still get through then.                         *)
(***************************************************************************)
MayStop == Circle \/ (CommandsDone /\ (BehindDeaf \/ RepliesDone))

\* The guards of Program, and whether one of its steps can be taken.
SomethingToDo ==
    \/ handling # <<>> \/ \E b \in DOMAIN fdOf : packets[b] > 0
    \/ \E b \in DOMAIN fdOf : phase[b] = "open" /\ b \in shut /\ Idle
    \/ replies # <<>> /\ ~ BehindDeaf
    \/ sending # <<>> /\ (alive => Len(down) < DownRoom)
    \/ vnc = "online" /\ VNCIdle /\ (up # <<>> \/ ~ alive)
    \/ vnc = "offline" /\ sending = <<>>
    \/ At(Receiver, "recv") /\ (~ alive \/ down # <<>>)
    \/ pc[Receiver] \in {"parse", "erase"} /\ lock = Nobody
    \/ \E r \in Requests : At(r, "unlock") \/ (At(r, "end") /\ lock = Nobody)
    \/ \E t \in Threads : Sends(t) /\ (alive => Len(up) + (IF half = Nobody THEN 0 ELSE 1) < UpRoom)

ProgramGoesOn == ENABLED Program

(***************************************************************************)
(* With bounded pools and sockets and blocking sends, the programs go on   *)
(* where they have something to do, and stop with work undone only in the  *)
(* circle or behind a browser that reads nothing (TcpServer.cpp 737-757    *)
(* and 935-1029, HttpProxyServer.cpp 99-126, TcpProxyClient.cpp 321-348).  *)
(***************************************************************************)
StopsOnlyInCircle == races = {} /\ (SomethingToDo \/ ~ MayStop) => ProgramGoesOn

\* A request is done, and its browser was not closed.
Unclosed == \E r \in Requests : pc[r] = "deleted" /\ \E b \in request[r].of : phase[b] # "closed"

(***************************************************************************)
(* A browser whose request is done is closed before the programs stop,     *)
(* whether the ProxyDisconnect arrives or the connection of the programs   *)
(* is lost (HttpProxyServer.cpp 99-126, TcpProxyServer.cpp 388, 814).      *)
(***************************************************************************)
AnswersEnd == races = {} /\ Unclosed /\ ~ Circle /\ ~ BehindDeaf => ProgramGoesOn
=============================================================================
