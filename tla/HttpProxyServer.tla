--------------------------- MODULE HttpProxyServer ---------------------------
(***************************************************************************)
(* HttpProxyServer with its TcpProxyClient, the HttpRequests and the       *)
(* KTcpSocket they all use.  One thread connects, receives commands and    *)
(* starts a thread for each complete request; request threads send what    *)
(* curl gives them and, in the end, a ProxyDisconnect.  Whoever meets an   *)
(* error of the socket closes it, and only the receiving thread connects.  *)
(*                                                                         *)
(* A packet is known by its browser, a parser by the browsers whose bytes  *)
(* it holds; DataHttpParser has the rest, and here ParseData may return    *)
(* whatever it can.  A command is sent or lost as a whole.  The numbers of *)
(* ProxyDisconnect, the peer's addresses and Stop, which nobody calls, are *)
(* left out.                                                               *)
(*                                                                         *)
(* Definitions marked wrong vary the one below them, to test that the      *)
(* properties would notice; no behaviour uses them.                        *)
(***************************************************************************)
EXTENDS Naturals, FiniteSets

CONSTANTS Fds,           \* descriptors of browsers, as the proxy names them
          Requests,      \* HttpRequests and their threads
          Nobody,        \* the holder of a free mutex
          NoFd,          \* the command in hand when there is none
          MaxConnects,   \* bound: sockets made
          MaxBrowsers,   \* bound: browsers met
          MaxPieces      \* bound: pieces of body a request gets

Receiver == "receiver"
Threads  == Requests \cup {Receiver}
Sockets  == 1 .. MaxConnects
Browsers == 1 .. MaxBrowsers

ASSUME HttpProxyServerAssumption ==
    /\ IsFiniteSet(Requests) /\ Receiver \notin Requests
    /\ Nobody \notin Threads /\ NoFd \notin Fds
    /\ MaxConnects \in Nat /\ MaxBrowsers \in Nat /\ MaxPieces \in Nat

VARIABLES mSocket,              \* 0 = -1
          mbConnected,
          nsockets,             \* sockets made so far
          open,                 \* kernel: sockets that are open
          up,                   \* kernel: sockets whose peer accepted and is still there
          mDataHttpParserMap,   \* the browsers a parser has bytes of, {} = no parser
          mapLock,              \* the thread that holds the map's mutex
          browser,              \* the browser of a descriptor, by what was received
          nbrowsers,            \* browsers met so far
          pc, back,             \* control points, and where SendData returns to
          cmd,                  \* the descriptor of the command in hand
          made,                 \* the request the receiver starts
          request,              \* fd, whose bytes were parsed, pieces of body so far
          sent,                 \* ghost: what was sent on this connection, whose and to whom
          races                 \* ghost: races entered so far

socket   == <<mSocket, mbConnected, nsockets, open, up>>
parsers  == <<mDataHttpParserMap, mapLock>>
arrivals == <<browser, nbrowsers>>
work     == <<cmd, made, request>>
vars     == <<socket, parsers, arrivals, pc, back, work, sent, races>>

NoRequest == [fd |-> NoFd, of |-> {}, pieces |-> 0]

Idle    == {"sleep"}
Running == {"connect", "options", "established", "receive", "recv", "param", "parse",
            "start", "created", "disconnected"}
Sending == {"send", "closing", "close", "clear", "closed"}
Working == {"none", "run", "end", "unlock", "deleted"}

TypeOK ==
    /\ mSocket \in Sockets \cup {0} /\ mbConnected \in BOOLEAN /\ nsockets \in 0 .. MaxConnects
    /\ open \subseteq 1 .. nsockets /\ up \subseteq 1 .. nsockets
    /\ mDataHttpParserMap \in [Fds -> SUBSET Browsers]
    /\ mapLock \in Requests \cup {Nobody}
    /\ browser \in [Fds -> 0 .. MaxBrowsers] /\ nbrowsers \in 0 .. MaxBrowsers
    /\ pc \in [Threads -> Idle \cup Running \cup Sending \cup Working]
    /\ back \in [Threads -> {"sleep", "receive", "run", "unlock"}]
    /\ cmd \in Fds \cup {NoFd} /\ made \in Requests \cup {Nobody}
    /\ pc[Receiver] \in {"param", "parse", "disconnected"} => cmd # NoFd
    /\ pc[Receiver] \in {"start", "created"} <=> made # Nobody
    /\ mapLock # Nobody => back[mapLock] = "unlock" /\ pc[mapLock] \in Sending \cup {"unlock"}
    /\ request \in [Requests -> [fd : Fds \cup {NoFd}, of : SUBSET Browsers, pieces : 0 .. MaxPieces]]
    /\ sent \subseteq [type : {"Proxy", "ProxyDisconnect"}, of : SUBSET Browsers, to : 0 .. MaxBrowsers]
    /\ races \subseteq {"outlived", "keptParser", "lostDisconnect", "closedTwice", "notStarted",
                        "freedRequest", "deletedTwice"}

Init ==
    /\ mSocket = 0 /\ mbConnected = FALSE /\ nsockets = 0 /\ open = {} /\ up = {}
    /\ mDataHttpParserMap = [fd \in Fds |-> {}] /\ mapLock = Nobody
    /\ browser = [fd \in Fds |-> 0] /\ nbrowsers = 0
    /\ pc = [t \in Threads |-> IF t = Receiver THEN "sleep" ELSE "none"]
    /\ back = [t \in Threads |-> IF t = Receiver THEN "sleep" ELSE "run"]
    /\ cmd = NoFd /\ made = Nobody /\ request = [r \in Requests |-> NoRequest]
    /\ sent = {} /\ races = {}

At(t, location)    == pc[t] = location
Goto(t, location)  == pc' = [pc EXCEPT ![t] = location]
Enter(race, condition) == races' = races \cup (IF condition THEN {race} ELSE {})

\* A request from new to delete.
Unfinished(r) == request[r] # NoRequest

Delete(r) == request' = [request EXCEPT ![r] = NoRequest]

-----------------------------------------------------------------------------
(***************************************************************************)
(* KTcpSocket: Close, step by step; SendData, whose send() is one step.    *)
(***************************************************************************)
Close(t, return) == Goto(t, "closing") /\ back' = [back EXCEPT ![t] = return]

CloseTest(t) ==
    /\ At(t, "closing")
    /\ Goto(t, IF mSocket = 0 THEN "closed" ELSE "close")
    /\ UNCHANGED <<socket, parsers, arrivals, back, work, sent, races>>

\* A number that was closed before may be that of another file by now.
CloseSocket(t) ==
    /\ At(t, "close")
    /\ open' = open \ {mSocket}
    /\ Enter("closedTwice", mSocket # 0 /\ mSocket \notin open)
    /\ Goto(t, "clear")
    /\ UNCHANGED <<mSocket, mbConnected, nsockets, up, parsers, arrivals, back, work, sent>>

CloseClears(t) ==
    /\ At(t, "clear")
    /\ mSocket' = 0
    /\ Goto(t, "closed")
    /\ UNCHANGED <<mbConnected, nsockets, open, up, parsers, arrivals, back, work, sent, races>>

SendAgain(t) == IF t = Receiver THEN back[t] ELSE "send"    \* wrong
Return(t)    == back[t]

CloseEnds(t) ==
    /\ At(t, "closed")
    /\ mbConnected' = FALSE
    /\ Goto(t, Return(t))
    /\ UNCHANGED <<mSocket, nsockets, open, up, parsers, arrivals, back, work, sent, races>>

Alive == mSocket \in open \cap up

FdOf(t) == IF t = Receiver THEN cmd ELSE request[t].fd

\* What a thread sends: pieces, or the ProxyDisconnect.
Command(t) ==
    [type |-> IF back[t] = "run" THEN "Proxy" ELSE "ProxyDisconnect",
     of   |-> IF t = Receiver THEN mDataHttpParserMap[cmd] ELSE request[t].of,
     to   |-> browser[FdOf(t)]]

SendData(t) ==
    /\ At(t, "send")
    /\ IF mbConnected /\ Alive
       THEN sent' = sent \cup {Command(t)} /\ Goto(t, back[t])
       ELSE Goto(t, "closing") /\ UNCHANGED sent
    /\ UNCHANGED <<socket, parsers, arrivals, back, work, races>>

-----------------------------------------------------------------------------
(***************************************************************************)
(* HandleTcpProxyClientRunnable: KTcpSocket::Connect and RecvCommand.      *)
(***************************************************************************)
\* sleep(10) outlasts a Close that another thread had begun before it.
CloseUnderWay == \E r \in Requests : pc[r] \in {"close", "clear"}

MakeSocket ==
    /\ At(Receiver, "sleep") /\ ~ CloseUnderWay
    /\ nsockets < MaxConnects
    /\ nsockets' = nsockets + 1 /\ mSocket' = nsockets + 1 /\ open' = open \cup {nsockets + 1}
    /\ Goto(Receiver, "connect")
    /\ UNCHANGED <<mbConnected, up, parsers, arrivals, back, work, sent, races>>

\* The proxy has closed the browsers of the connection before; OnDisConnected
\* does nothing, so parsers and requests are still here.
Accepted ==
    /\ At(Receiver, "connect") /\ mSocket \in open
    /\ up' = up \cup {mSocket}
    /\ browser' = [fd \in Fds |-> 0]
    /\ races' = races \cup (IF \E fd \in Fds : mDataHttpParserMap[fd] # {} THEN {"keptParser"} ELSE {})
                      \cup (IF \E r \in Requests : Unfinished(r) THEN {"outlived"} ELSE {})
    /\ sent' = {}
    /\ Goto(Receiver, "options")
    /\ UNCHANGED <<mSocket, mbConnected, nsockets, open, parsers, nbrowsers, back, work>>

\* connect fails, but select finds the socket writable, which is taken for success.
Refused ==
    /\ At(Receiver, "connect") /\ mSocket \in open
    /\ Goto(Receiver, "options")
    /\ UNCHANGED <<socket, parsers, arrivals, back, work, sent, races>>

LeaveSocket   == Goto(Receiver, "sleep") /\ UNCHANGED back    \* wrong
ConnectCloses == Close(Receiver, "sleep")

\* Nothing for ten seconds, or the socket was closed meanwhile.
ConnectFails ==
    /\ At(Receiver, "connect") \/ (At(Receiver, "options") /\ mSocket \notin open)
    /\ ConnectCloses
    /\ UNCHANGED <<socket, parsers, arrivals, work, sent, races>>

SetOptions ==
    /\ At(Receiver, "options") /\ mSocket \in open
    /\ Goto(Receiver, "established")
    /\ UNCHANGED <<socket, parsers, arrivals, back, work, sent, races>>

Connected ==
    /\ At(Receiver, "established")
    /\ mbConnected' = TRUE
    /\ Goto(Receiver, "receive")
    /\ UNCHANGED <<mSocket, nsockets, open, up, parsers, arrivals, back, work, sent, races>>

\* The connection is lost, or the proxy closes it.
ConnectionLost ==
    /\ Alive
    /\ up' = up \ {mSocket}
    /\ UNCHANGED <<mSocket, mbConnected, nsockets, open, parsers, arrivals, pc, back, work, sent, races>>

\* RecvData looks at mbConnected and then waits in recv.
RecvData ==
    /\ At(Receiver, "receive") /\ mbConnected
    /\ Goto(Receiver, "recv")
    /\ UNCHANGED <<socket, parsers, arrivals, back, work, sent, races>>

ReceiveOn == Close(Receiver, "receive")    \* wrong
LeaveLoop == Close(Receiver, "sleep")

\* RecvData closes, and HandleTcpProxyClientRunnable again, to no effect.
RecvFails ==
    /\ \/ At(Receiver, "receive") /\ ~ mbConnected
       \/ At(Receiver, "recv") /\ ~ Alive
       \/ At(Receiver, "param") /\ ~ (mbConnected /\ Alive)
    /\ cmd' = NoFd
    /\ LeaveLoop
    /\ UNCHANGED <<socket, parsers, arrivals, made, request, sent, races>>

\* The header of a packet: of the descriptor's browser, or of a new one.  It was
\* announced that the one before left, unless that command was lost.
RecvProxy(fd) ==
    /\ At(Receiver, "recv") /\ Alive
    /\ \/ browser[fd] # 0 /\ UNCHANGED <<arrivals, races>>
       \/ /\ nbrowsers < MaxBrowsers
          /\ nbrowsers' = nbrowsers + 1 /\ browser' = [browser EXCEPT ![fd] = nbrowsers + 1]
          /\ Enter("lostDisconnect", browser[fd] # 0)
    /\ cmd' = fd
    /\ Goto(Receiver, "param")
    /\ UNCHANGED <<socket, parsers, back, made, request, sent>>

RecvParam ==
    /\ At(Receiver, "param") /\ mbConnected /\ Alive
    /\ Goto(Receiver, "parse")
    /\ UNCHANGED <<socket, parsers, arrivals, back, work, sent, races>>

RecvProxyDisconnect(fd) ==
    /\ At(Receiver, "recv") /\ Alive /\ browser[fd] # 0
    /\ browser' = [browser EXCEPT ![fd] = 0]
    /\ Enter("outlived", \E r \in Requests : Unfinished(r) /\ request[r].fd = fd)
    /\ cmd' = fd
    /\ Goto(Receiver, "disconnected")
    /\ UNCHANGED <<socket, parsers, nbrowsers, back, made, request, sent>>

-----------------------------------------------------------------------------
(***************************************************************************)
(* OnRecvProxyBuffer and OnRecvProxyDisconnect, on the receiving thread.   *)
(***************************************************************************)
\* A parser for the descriptor, new or found, takes the packet.  Only this thread
\* uses parsers; the others look whether there is one.
Fed(fd) == [mDataHttpParserMap EXCEPT ![fd] = @ \cup {browser[fd]}]

\* ParseData returns 0.
ParsedInPart ==
    /\ At(Receiver, "parse") /\ mapLock = Nobody
    /\ mDataHttpParserMap' = Fed(cmd)
    /\ cmd' = NoFd
    /\ Goto(Receiver, "receive")
    /\ UNCHANGED <<socket, mapLock, arrivals, back, made, request, sent, races>>

\* ParseData returns 1: the request is complete, or one without a length was before.
ParsedAll(r) ==
    /\ At(Receiver, "parse") /\ mapLock = Nobody
    /\ At(r, "none")
    /\ mDataHttpParserMap' = Fed(cmd)
    /\ request' = [request EXCEPT ![r] = [fd |-> cmd, of |-> Fed(cmd)[cmd], pieces |-> 0]]
    /\ made' = r /\ cmd' = NoFd
    /\ Goto(Receiver, "start")
    /\ UNCHANGED <<socket, mapLock, arrivals, back, sent, races>>

\* ParseData returns -1: the parser was full of earlier bytes.
ParserFull ==
    /\ At(Receiver, "parse") /\ mapLock = Nobody
    /\ mDataHttpParserMap[cmd] # {}
    /\ Goto(Receiver, "send") /\ back' = [back EXCEPT ![Receiver] = "receive"]
    /\ UNCHANGED <<socket, parsers, arrivals, work, sent, races>>

KeepRequest   == UNCHANGED made    \* wrong
ForgetRequest == made' = Nobody

\* The thread runs before start returns, which then reads m_pthread_t.
StartRequest ==
    /\ At(Receiver, "start")
    /\ pc' = [pc EXCEPT ![Receiver] = "created", ![made] = "run"]
    /\ UNCHANGED <<socket, parsers, arrivals, back, work, sent, races>>

StartFails ==
    /\ At(Receiver, "start")
    /\ pc' = [pc EXCEPT ![Receiver] = "receive", ![made] = "deleted"]
    /\ ForgetRequest
    /\ Delete(made)
    /\ Enter("notStarted", TRUE)
    /\ UNCHANGED <<socket, parsers, arrivals, back, cmd, sent>>

Started ==
    /\ At(Receiver, "created")
    /\ Enter("freedRequest", At(made, "deleted"))
    /\ ForgetRequest
    /\ Goto(Receiver, "receive")
    /\ UNCHANGED <<socket, parsers, arrivals, back, cmd, request, sent>>

\* What it reads of a request that is gone may be 0, which is taken for failure.
DeletesAgain ==
    /\ At(Receiver, "created") /\ At(made, "deleted")
    /\ Enter("deletedTwice", TRUE)
    /\ UNCHANGED <<socket, parsers, arrivals, pc, back, work, sent>>

KeepParser  == UNCHANGED mDataHttpParserMap    \* wrong
EraseParser == mDataHttpParserMap' = [mDataHttpParserMap EXCEPT ![cmd] = {}]

OnRecvProxyDisconnect ==
    /\ At(Receiver, "disconnected") /\ mapLock = Nobody
    /\ EraseParser
    /\ cmd' = NoFd
    /\ Goto(Receiver, "receive")
    /\ UNCHANGED <<socket, mapLock, arrivals, back, made, request, sent, races>>

-----------------------------------------------------------------------------
(***************************************************************************)
(* A request: HttpRequestRunnable and the callbacks.                       *)
(***************************************************************************)
\* Whether it is sent makes no difference to curl.
OnReceiveBody(r) ==
    /\ At(r, "run") /\ request[r].pieces < MaxPieces
    /\ request' = [request EXCEPT ![r].pieces = @ + 1]
    /\ Goto(r, "send") /\ back' = [back EXCEPT ![r] = "run"]
    /\ UNCHANGED <<socket, parsers, arrivals, cmd, made, sent, races>>

RequestEnds(r) ==
    /\ At(r, "run")
    /\ Goto(r, "end")
    /\ UNCHANGED <<socket, parsers, arrivals, back, work, sent, races>>

\* onSuccess and onFail do the same, under the map's mutex.
HasParser(fd) == mDataHttpParserMap[fd] # {}

OnSuccessOrFail(r) ==
    /\ At(r, "end") /\ mapLock = Nobody
    /\ mapLock' = r
    /\ Goto(r, IF HasParser(request[r].fd) THEN "send" ELSE "unlock")
    /\ back' = [back EXCEPT ![r] = "unlock"]
    /\ UNCHANGED <<socket, mDataHttpParserMap, arrivals, work, sent, races>>

UnlockAndDelete(r) ==
    /\ At(r, "unlock")
    /\ mapLock' = Nobody
    /\ Delete(r)
    /\ Goto(r, "deleted")
    /\ UNCHANGED <<socket, mDataHttpParserMap, arrivals, back, cmd, made, sent, races>>

-----------------------------------------------------------------------------
Defined == "deletedTwice" \notin races

\* The bound on sockets is reached and all requests are done.
Done == At(Receiver, "sleep") /\ nsockets = MaxConnects /\ \A r \in Requests : ~ Unfinished(r)

CloseAndSend(t) ==
    CloseTest(t) \/ CloseSocket(t) \/ CloseClears(t) \/ CloseEnds(t) \/ SendData(t)

\* What the receiving thread does without waiting for the proxy.
Receive ==
    \/ MakeSocket \/ Refused \/ ConnectFails \/ SetOptions \/ Connected
    \/ RecvData \/ RecvFails \/ RecvParam
    \/ ParsedInPart \/ (\E r \in Requests : ParsedAll(r)) \/ ParserFull
    \/ StartRequest \/ StartFails \/ Started \/ OnRecvProxyDisconnect

Finish(r) == OnSuccessOrFail(r) \/ UnlockAndDelete(r)

Proxy == Accepted \/ ConnectionLost \/ \E fd \in Fds : RecvProxy(fd) \/ RecvProxyDisconnect(fd)

Next ==
    \/ /\ Defined
       /\ \/ \E t \in Threads : CloseAndSend(t)
          \/ Receive \/ DeletesAgain \/ Proxy
          \/ \E r \in Requests : OnReceiveBody(r) \/ RequestEnds(r) \/ Finish(r)
    \/ (Done \/ ~ Defined) /\ UNCHANGED vars

\* Threads go on; the map's mutex does not starve a waiter, and the proxy reads
\* what is sent.  Nothing is asked of curl: a web server that sends nothing at
\* all is waited for without end.
Fairness ==
    /\ SF_vars(Defined /\ (Receive \/ CloseAndSend(Receiver)))
    /\ \A r \in Requests : SF_vars(Defined /\ (Finish(r) \/ CloseAndSend(r)))

Spec     == Init /\ [][Next]_vars
FairSpec == Spec /\ Fairness

-----------------------------------------------------------------------------
(***************************************************************************)
(* However the threads that meet an error close the socket while the       *)
(* receiving thread connects again, no descriptor is lost: a socket that   *)
(* is open is the one in mSocket (KSocket.cpp 70-76, KTcpSocket.cpp 53-187 *)
(* and 518-521).                                                           *)
(***************************************************************************)
SocketKept == open \subseteq {mSocket}

(***************************************************************************)
(* What is sent for a descriptor answers the browser the descriptor has    *)
(* now, as long as no request outlives its browser, no parser outlives a   *)
(* connection and the proxy tells of every browser that left               *)
(* (HttpProxyServer.cpp 27-84 and 99-133): an old parser is gone before    *)
(* the next browser's first packet.                                        *)
(***************************************************************************)
Separate == races \cap {"outlived", "keptParser", "lostDisconnect"} = {}

AnswersOwnBrowser == Separate => \A c \in sent : c.of = {c.to}

(***************************************************************************)
(* A request that curl has ended is deleted, though it may have to wait    *)
(* for the map, and to close a broken socket, first (99-126).              *)
(***************************************************************************)
RequestsEnd == \A r \in Requests : At(r, "end") ~> (At(r, "deleted") \/ ~ Defined)

(***************************************************************************)
(* After the connection is lost the receiving thread connects again,       *)
(* whatever it and the requests were doing (TcpProxyClient.cpp 93-158).    *)
(***************************************************************************)
Recovers ==
    ~ Alive ~> (At(Receiver, "connect") \/ nsockets = MaxConnects \/ ~ Defined)
=============================================================================
