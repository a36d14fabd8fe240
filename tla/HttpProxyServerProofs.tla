------------------------ MODULE HttpProxyServerProofs ------------------------
(***************************************************************************)
(* Type correctness of HttpProxyServer, that it keeps its socket, and that *)
(* its answers are for the browser that asked.                             *)
(***************************************************************************)
EXTENDS HttpProxyServer, TLAPS

\* Where a thread can be, and what it has in hand there.
ReceiverInv ==
    /\ pc[Receiver] \in Idle \cup Running \cup Sending
    /\ back[Receiver] \in {"sleep", "receive"}
    /\ At(Receiver, "send") => back[Receiver] = "receive" /\ cmd \in Fds
    /\ pc[Receiver] \in {"param", "parse"} => browser[cmd] # 0
    /\ At(Receiver, "start") => At(made, "none") /\ Unfinished(made)

Busy == {"run", "end", "unlock"} \cup Sending

RequestInv ==
    \A r \in Requests :
        /\ pc[r] \in Sending \cup Working /\ back[r] \in {"run", "unlock"}
        /\ pc[r] \in Busy => Unfinished(r)
        /\ Unfinished(r) => request[r].fd \in Fds

TypeInv == TypeOK /\ ReceiverInv /\ RequestInv

\* Whoever clears mSocket has closed it, and so has the receiving thread before
\* it makes a socket.
SocketInv ==
    /\ SocketKept
    /\ \A t \in Threads : At(t, "clear") => open = {}
    /\ pc[Receiver] \in {"sleep", "closed"} => open = {}

\* As long as browsers are told apart, parsers and requests are of the browser
\* their descriptor has; a parser outlives it until it is erased.
Erasing(fd) == At(Receiver, "disconnected") /\ cmd = fd

OwnersInv ==
    /\ \A fd \in Fds : ~ Erasing(fd) => mDataHttpParserMap[fd] \subseteq {browser[fd]} \ {0}
    /\ \A r \in Requests :
           Unfinished(r) => browser[request[r].fd] # 0 /\ request[r].of = {browser[request[r].fd]}
    /\ At(Receiver, "send") => mDataHttpParserMap[cmd] = {browser[cmd]}
    /\ \A c \in sent : c.of = {c.to}

-----------------------------------------------------------------------------
\* What stands for a request that is not there is not one for a descriptor.
LEMMA NoRequestFacts ==
    /\ NoRequest \in [fd : Fds \cup {NoFd}, of : SUBSET Browsers, pieces : 0 .. MaxPieces]
    /\ NoRequest.fd \notin Fds
BY HttpProxyServerAssumption DEF NoRequest

\* Nothing was received yet.
LEMMA TypeInit == Init => TypeInv
<1> SUFFICES ASSUME Init PROVE TypeInv
  OBVIOUS
<1> USE HttpProxyServerAssumption DEF Init, Threads
<1>1. /\ \A r \in Requests : pc[r] = "none" /\ back[r] = "run" /\ ~ Unfinished(r)
      /\ pc[Receiver] = "sleep" /\ back[Receiver] = "sleep"
  BY DEF Unfinished
<1>2. request \in [Requests -> [fd : Fds \cup {NoFd}, of : SUBSET Browsers, pieces : 0 .. MaxPieces]]
  BY NoRequestFacts
<1>3. /\ pc \in [Threads -> Idle \cup Running \cup Sending \cup Working]
      /\ back \in [Threads -> {"sleep", "receive", "run", "unlock"}]
  BY DEF Idle, Running, Sending, Working
<1>4. /\ mDataHttpParserMap \in [Fds -> SUBSET Browsers]
      /\ browser \in [Fds -> 0 .. MaxBrowsers] /\ nbrowsers \in 0 .. MaxBrowsers
      /\ nsockets \in 0 .. MaxConnects
  OBVIOUS
<1>5. TypeOK
  BY <1>1, <1>2, <1>3, <1>4 DEF TypeOK
<1> QED BY <1>1, <1>5 DEF TypeInv, ReceiverInv, RequestInv, At, Idle, Running, Sending, Working, Busy

\* What a thread has in hand when it gets somewhere, it had when it set out.
LEMMA TypeStep == TypeInv /\ [Next]_vars => TypeInv'
<1> SUFFICES ASSUME TypeInv, [Next]_vars PROVE TypeInv'
  OBVIOUS
<1> USE HttpProxyServerAssumption
        DEF socket, parsers, arrivals, work, At, Goto, Enter, TypeInv, TypeOK, ReceiverInv, RequestInv,
            Threads, Sockets, Browsers, Idle, Running, Sending, Working, Busy, Unfinished
<1>1. ASSUME NEW t \in Threads, CloseTest(t)
      PROVE  TypeInv'
  <2>1. TypeOK'
    BY <1>1 DEF CloseTest
  <2>2. ReceiverInv'
    BY <1>1 DEF CloseTest
  <2>3. RequestInv'
    BY <1>1 DEF CloseTest
  <2> QED BY <2>1, <2>2, <2>3
<1>2. ASSUME NEW t \in Threads, CloseSocket(t)
      PROVE  TypeInv'
  <2>1. TypeOK'
    BY <1>2 DEF CloseSocket
  <2>2. ReceiverInv'
    BY <1>2 DEF CloseSocket
  <2>3. RequestInv'
    BY <1>2 DEF CloseSocket
  <2> QED BY <2>1, <2>2, <2>3
<1>3. ASSUME NEW t \in Threads, CloseClears(t)
      PROVE  TypeInv'
  <2>1. TypeOK'
    BY <1>3 DEF CloseClears
  <2>2. ReceiverInv'
    BY <1>3 DEF CloseClears
  <2>3. RequestInv'
    BY <1>3 DEF CloseClears
  <2> QED BY <2>1, <2>2, <2>3
<1>4. ASSUME NEW t \in Threads, CloseEnds(t)
      PROVE  TypeInv'
  <2>1. TypeOK'
    BY <1>4 DEF CloseEnds, Return
  <2>2. ReceiverInv'
    BY <1>4 DEF CloseEnds, Return
  <2>3. RequestInv'
    BY <1>4 DEF CloseEnds, Return
  <2> QED BY <2>1, <2>2, <2>3
<1>5. ASSUME NEW t \in Threads, SendData(t)
      PROVE  TypeInv'
  <2>1. TypeOK'
    BY <1>5 DEF SendData, Command, FdOf
  <2>2. ReceiverInv'
    BY <1>5 DEF SendData, Command, FdOf
  <2>3. RequestInv'
    BY <1>5 DEF SendData, Command, FdOf
  <2> QED BY <2>1, <2>2, <2>3
<1>6. CASE MakeSocket
  <2>1. TypeOK'
    BY <1>6 DEF MakeSocket
  <2>2. ReceiverInv'
    BY <1>6 DEF MakeSocket
  <2>3. RequestInv'
    BY <1>6 DEF MakeSocket
  <2> QED BY <2>1, <2>2, <2>3
<1>7. CASE Refused
  <2>1. TypeOK'
    BY <1>7 DEF Refused
  <2>2. ReceiverInv'
    BY <1>7 DEF Refused
  <2>3. RequestInv'
    BY <1>7 DEF Refused
  <2> QED BY <2>1, <2>2, <2>3
<1>8. CASE ConnectFails
  <2>1. TypeOK'
    BY <1>8 DEF ConnectFails, ConnectCloses, Close
  <2>2. ReceiverInv'
    BY <1>8 DEF ConnectFails, ConnectCloses, Close
  <2>3. RequestInv'
    BY <1>8 DEF ConnectFails, ConnectCloses, Close
  <2> QED BY <2>1, <2>2, <2>3
<1>9. CASE SetOptions
  <2>1. TypeOK'
    BY <1>9 DEF SetOptions
  <2>2. ReceiverInv'
    BY <1>9 DEF SetOptions
  <2>3. RequestInv'
    BY <1>9 DEF SetOptions
  <2> QED BY <2>1, <2>2, <2>3
<1>10. CASE Connected
  <2>1. TypeOK'
    BY <1>10 DEF Connected
  <2>2. ReceiverInv'
    BY <1>10 DEF Connected
  <2>3. RequestInv'
    BY <1>10 DEF Connected
  <2> QED BY <2>1, <2>2, <2>3
<1>11. CASE RecvData
  <2>1. TypeOK'
    BY <1>11 DEF RecvData
  <2>2. ReceiverInv'
    BY <1>11 DEF RecvData
  <2>3. RequestInv'
    BY <1>11 DEF RecvData
  <2> QED BY <2>1, <2>2, <2>3
<1>12. CASE RecvFails
  <2>1. TypeOK'
    BY <1>12 DEF RecvFails, LeaveLoop, Close
  <2>2. ReceiverInv'
    BY <1>12 DEF RecvFails, LeaveLoop, Close
  <2>3. RequestInv'
    BY <1>12 DEF RecvFails, LeaveLoop, Close
  <2> QED BY <2>1, <2>2, <2>3
<1>13. CASE RecvParam
  <2>1. TypeOK'
    BY <1>13 DEF RecvParam
  <2>2. ReceiverInv'
    BY <1>13 DEF RecvParam
  <2>3. RequestInv'
    BY <1>13 DEF RecvParam
  <2> QED BY <2>1, <2>2, <2>3
<1>14. CASE ParsedInPart
  <2>1. TypeOK'
    BY <1>14 DEF ParsedInPart, Fed
  <2>2. ReceiverInv'
    BY <1>14 DEF ParsedInPart, Fed
  <2>3. RequestInv'
    BY <1>14 DEF ParsedInPart, Fed
  <2> QED BY <2>1, <2>2, <2>3
<1>15. ASSUME NEW r \in Requests, ParsedAll(r)
      PROVE  TypeInv'
  <2>1. TypeOK'
    BY <1>15 DEF ParsedAll, Fed
  <2>2. ReceiverInv'
    BY NoRequestFacts, <1>15 DEF ParsedAll, Fed
  <2>3. RequestInv'
    BY <1>15 DEF ParsedAll, Fed
  <2> QED BY <2>1, <2>2, <2>3
<1>16. CASE ParserFull
  <2>1. TypeOK'
    BY <1>16 DEF ParserFull
  <2>2. ReceiverInv'
    BY <1>16 DEF ParserFull
  <2>3. RequestInv'
    BY <1>16 DEF ParserFull
  <2> QED BY <2>1, <2>2, <2>3
<1>17. CASE StartRequest
  <2>1. TypeOK'
    BY <1>17 DEF StartRequest
  <2>2. ReceiverInv'
    BY <1>17 DEF StartRequest
  <2>3. RequestInv'
    BY <1>17 DEF StartRequest
  <2> QED BY <2>1, <2>2, <2>3
<1>18. CASE StartFails
  <2>1. TypeOK'
    BY NoRequestFacts, <1>18 DEF StartFails, ForgetRequest, Delete
  <2>2. ReceiverInv'
    BY <1>18 DEF StartFails, ForgetRequest, Delete
  <2>3. RequestInv'
    BY <1>18 DEF StartFails, ForgetRequest, Delete
  <2> QED BY <2>1, <2>2, <2>3
<1>19. CASE Started
  <2>1. TypeOK'
    BY <1>19 DEF Started, ForgetRequest
  <2>2. ReceiverInv'
    BY <1>19 DEF Started, ForgetRequest
  <2>3. RequestInv'
    BY <1>19 DEF Started, ForgetRequest
  <2> QED BY <2>1, <2>2, <2>3
<1>20. CASE OnRecvProxyDisconnect
  <2>1. TypeOK'
    BY <1>20 DEF OnRecvProxyDisconnect, EraseParser
  <2>2. ReceiverInv'
    BY <1>20 DEF OnRecvProxyDisconnect, EraseParser
  <2>3. RequestInv'
    BY <1>20 DEF OnRecvProxyDisconnect, EraseParser
  <2> QED BY <2>1, <2>2, <2>3
<1>21. CASE DeletesAgain
  <2>1. TypeOK'
    BY <1>21 DEF DeletesAgain
  <2>2. ReceiverInv'
    BY <1>21 DEF DeletesAgain
  <2>3. RequestInv'
    BY <1>21 DEF DeletesAgain
  <2> QED BY <2>1, <2>2, <2>3
<1>22. CASE Accepted
  <2>1. TypeOK'
    BY <1>22 DEF Accepted
  <2>2. ReceiverInv'
    BY <1>22 DEF Accepted
  <2>3. RequestInv'
    BY <1>22 DEF Accepted
  <2> QED BY <2>1, <2>2, <2>3
<1>23. CASE ConnectionLost
  <2>1. TypeOK'
    BY <1>23 DEF ConnectionLost
  <2>2. ReceiverInv'
    BY <1>23 DEF ConnectionLost
  <2>3. RequestInv'
    BY <1>23 DEF ConnectionLost
  <2> QED BY <2>1, <2>2, <2>3
<1>24. ASSUME NEW fd \in Fds, RecvProxy(fd)
      PROVE  TypeInv'
  <2>1. TypeOK'
    <3>1. CASE UNCHANGED <<arrivals, races>>
      BY <1>24, <3>1 DEF RecvProxy
    <3>2. CASE nbrowsers < MaxBrowsers /\ nbrowsers' = nbrowsers + 1
      <4>1. nbrowsers' \in 0 .. MaxBrowsers
        BY <3>2
      <4>2. browser' \in [Fds -> 0 .. MaxBrowsers]
        BY <1>24, <3>2, <4>1 DEF RecvProxy
      <4> QED BY <1>24, <4>1, <4>2 DEF RecvProxy
    <3> QED BY <1>24, <3>1, <3>2 DEF RecvProxy
  <2>2. ReceiverInv'
    BY <1>24 DEF RecvProxy
  <2>3. RequestInv'
    BY <1>24 DEF RecvProxy
  <2> QED BY <2>1, <2>2, <2>3
<1>25. ASSUME NEW fd \in Fds, RecvProxyDisconnect(fd)
      PROVE  TypeInv'
  <2>1. TypeOK'
    BY <1>25 DEF RecvProxyDisconnect
  <2>2. ReceiverInv'
    BY <1>25 DEF RecvProxyDisconnect
  <2>3. RequestInv'
    BY <1>25 DEF RecvProxyDisconnect
  <2> QED BY <2>1, <2>2, <2>3
<1>26. ASSUME NEW r \in Requests, OnReceiveBody(r)
      PROVE  TypeInv'
  <2>1. TypeOK'
    BY <1>26 DEF OnReceiveBody
  <2>2. ReceiverInv'
    BY <1>26 DEF OnReceiveBody
  <2>3. RequestInv'
    BY NoRequestFacts, <1>26 DEF OnReceiveBody
  <2> QED BY <2>1, <2>2, <2>3
<1>27. ASSUME NEW r \in Requests, RequestEnds(r)
      PROVE  TypeInv'
  <2>1. TypeOK'
    BY <1>27 DEF RequestEnds
  <2>2. ReceiverInv'
    BY <1>27 DEF RequestEnds
  <2>3. RequestInv'
    BY <1>27 DEF RequestEnds
  <2> QED BY <2>1, <2>2, <2>3
<1>28. ASSUME NEW r \in Requests, OnSuccessOrFail(r)
      PROVE  TypeInv'
  <2>1. TypeOK'
    BY <1>28 DEF OnSuccessOrFail, HasParser
  <2>2. ReceiverInv'
    BY <1>28 DEF OnSuccessOrFail, HasParser
  <2>3. RequestInv'
    BY <1>28 DEF OnSuccessOrFail, HasParser
  <2> QED BY <2>1, <2>2, <2>3
<1>29. ASSUME NEW r \in Requests, UnlockAndDelete(r)
      PROVE  TypeInv'
  <2>1. TypeOK'
    BY NoRequestFacts, <1>29 DEF UnlockAndDelete, Delete
  <2>2. ReceiverInv'
    BY <1>29 DEF UnlockAndDelete, Delete
  <2>3. RequestInv'
    BY <1>29 DEF UnlockAndDelete, Delete
  <2> QED BY <2>1, <2>2, <2>3
<1>30. CASE UNCHANGED vars
  BY <1>30 DEF vars
<1> QED
  BY <1>1, <1>2, <1>3, <1>4, <1>5, <1>6, <1>7, <1>8, <1>9, <1>10, <1>11, <1>12, <1>13,
     <1>14, <1>15, <1>16, <1>17, <1>18, <1>19, <1>20, <1>21, <1>22, <1>23, <1>24, <1>25,
     <1>26, <1>27, <1>28, <1>29, <1>30
  DEF Next, CloseAndSend, Receive, Proxy, Finish

(***************************************************************************)
(* Every variable keeps its type: a thread that sends has a descriptor and *)
(* a request or parser to send for, and the map's mutex is held only by a  *)
(* request on its way to give it back (HttpProxyServer.cpp 27-133).        *)
(***************************************************************************)
THEOREM HttpTypeCorrect == Spec => []TypeOK
<1>1. Spec => []TypeInv
  BY TypeInit, TypeStep, PTL DEF Spec
<1> QED BY <1>1, PTL DEF TypeInv

-----------------------------------------------------------------------------
\* Only MakeSocket opens a socket, and when it does none is open.
LEMMA SocketStep == TypeInv /\ TypeInv' /\ SocketInv /\ [Next]_vars => SocketInv'
<1> SUFFICES ASSUME TypeInv, TypeInv', SocketInv, [Next]_vars PROVE SocketInv'
  OBVIOUS
<1> USE HttpProxyServerAssumption
        DEF socket, parsers, arrivals, work, At, Goto, TypeInv, TypeOK, ReceiverInv, RequestInv,
            Threads, Sockets, Idle, Running, Sending, Working, SocketInv, SocketKept
<1>1. ASSUME NEW t \in Threads, CloseTest(t)
      PROVE  SocketInv'
  BY <1>1 DEF CloseTest
<1>2. ASSUME NEW t \in Threads, CloseSocket(t)
      PROVE  SocketInv'
  BY <1>2 DEF CloseSocket
<1>3. ASSUME NEW t \in Threads, CloseClears(t)
      PROVE  SocketInv'
  BY <1>3 DEF CloseClears
<1>4. ASSUME NEW t \in Threads, CloseEnds(t)
      PROVE  SocketInv'
  BY <1>4 DEF CloseEnds, Return
<1>5. ASSUME NEW t \in Threads, SendData(t)
      PROVE  SocketInv'
  BY <1>5 DEF SendData, Command, FdOf
<1>6. CASE MakeSocket
  BY <1>6 DEF MakeSocket, CloseUnderWay
<1>7. CASE Refused
  BY <1>7 DEF Refused
<1>8. CASE ConnectFails
  BY <1>8 DEF ConnectFails, ConnectCloses, Close
<1>9. CASE SetOptions
  BY <1>9 DEF SetOptions
<1>10. CASE Connected
  BY <1>10 DEF Connected
<1>11. CASE RecvData
  BY <1>11 DEF RecvData
<1>12. CASE RecvFails
  BY <1>12 DEF RecvFails, LeaveLoop, Close
<1>13. CASE RecvParam
  BY <1>13 DEF RecvParam
<1>14. CASE ParsedInPart
  BY <1>14 DEF ParsedInPart, Fed
<1>15. ASSUME NEW r \in Requests, ParsedAll(r)
      PROVE  SocketInv'
  BY <1>15 DEF ParsedAll, Fed
<1>16. CASE ParserFull
  BY <1>16 DEF ParserFull
<1>17. CASE StartRequest
  BY <1>17 DEF StartRequest
<1>18. CASE StartFails
  BY <1>18 DEF StartFails, ForgetRequest, Delete
<1>19. CASE Started
  BY <1>19 DEF Started, ForgetRequest
<1>20. CASE OnRecvProxyDisconnect
  BY <1>20 DEF OnRecvProxyDisconnect, EraseParser
<1>21. CASE DeletesAgain
  BY <1>21 DEF DeletesAgain
<1>22. CASE Accepted
  BY <1>22 DEF Accepted
<1>23. CASE ConnectionLost
  BY <1>23 DEF ConnectionLost
<1>24. ASSUME NEW fd \in Fds, RecvProxy(fd)
      PROVE  SocketInv'
  BY <1>24 DEF RecvProxy
<1>25. ASSUME NEW fd \in Fds, RecvProxyDisconnect(fd)
      PROVE  SocketInv'
  BY <1>25 DEF RecvProxyDisconnect
<1>26. ASSUME NEW r \in Requests, OnReceiveBody(r)
      PROVE  SocketInv'
  BY <1>26 DEF OnReceiveBody
<1>27. ASSUME NEW r \in Requests, RequestEnds(r)
      PROVE  SocketInv'
  BY <1>27 DEF RequestEnds
<1>28. ASSUME NEW r \in Requests, OnSuccessOrFail(r)
      PROVE  SocketInv'
  BY <1>28 DEF OnSuccessOrFail, HasParser
<1>29. ASSUME NEW r \in Requests, UnlockAndDelete(r)
      PROVE  SocketInv'
  BY <1>29 DEF UnlockAndDelete, Delete
<1>30. CASE UNCHANGED vars
  BY <1>30 DEF vars
<1> QED
  BY <1>1, <1>2, <1>3, <1>4, <1>5, <1>6, <1>7, <1>8, <1>9, <1>10, <1>11, <1>12, <1>13,
     <1>14, <1>15, <1>16, <1>17, <1>18, <1>19, <1>20, <1>21, <1>22, <1>23, <1>24, <1>25,
     <1>26, <1>27, <1>28, <1>29, <1>30
  DEF Next, CloseAndSend, Receive, Proxy, Finish

(***************************************************************************)
(* No descriptor is lost: however the threads that meet an error and the   *)
(* receiving thread close and connect, an open socket is the one in        *)
(* mSocket (KTcpSocket.cpp 53-187 and 518-521, KSocket.cpp 70-76).         *)
(***************************************************************************)
THEOREM NoSocketLost == Spec => []SocketKept
<1>1. Init => SocketInv
  BY DEF Init, SocketInv, SocketKept, At, Threads
<1>2. TypeInv /\ SocketInv /\ [Next]_vars => TypeInv' /\ SocketInv'
  BY TypeStep, SocketStep
<1>3. Spec => [](TypeInv /\ SocketInv)
  BY TypeInit, <1>1, <1>2, PTL DEF Spec
<1> QED BY <1>3, PTL DEF SocketInv

-----------------------------------------------------------------------------
\* A parser is erased before the next browser of its descriptor sends anything,
\* and what is sent for a request is sent while its browser is there.
LEMMA OwnersStep ==
    TypeInv /\ TypeInv' /\ (Separate => OwnersInv) /\ [Next]_vars => (Separate => OwnersInv)'
<1> SUFFICES ASSUME TypeInv, TypeInv', Separate => OwnersInv, [Next]_vars, Separate' PROVE OwnersInv'
  OBVIOUS
<1> USE HttpProxyServerAssumption
        DEF socket, parsers, arrivals, work, At, Goto, Enter, TypeInv, TypeOK, ReceiverInv, RequestInv,
            Threads, Browsers, Sending, Busy, Unfinished, Separate, OwnersInv, Erasing
<1>1. ASSUME NEW t \in Threads, CloseTest(t)
      PROVE  OwnersInv'
  BY <1>1 DEF CloseTest
<1>2. ASSUME NEW t \in Threads, CloseSocket(t)
      PROVE  OwnersInv'
  BY <1>2 DEF CloseSocket
<1>3. ASSUME NEW t \in Threads, CloseClears(t)
      PROVE  OwnersInv'
  BY <1>3 DEF CloseClears
<1>4. ASSUME NEW t \in Threads, CloseEnds(t)
      PROVE  OwnersInv'
  BY <1>4 DEF CloseEnds, Return
<1>5. ASSUME NEW t \in Threads, SendData(t)
      PROVE  OwnersInv'
  BY <1>5 DEF SendData, Command, FdOf
<1>6. CASE MakeSocket
  BY <1>6 DEF MakeSocket
<1>7. CASE Refused
  BY <1>7 DEF Refused
<1>8. CASE ConnectFails
  BY <1>8 DEF ConnectFails, ConnectCloses, Close
<1>9. CASE SetOptions
  BY <1>9 DEF SetOptions
<1>10. CASE Connected
  BY <1>10 DEF Connected
<1>11. CASE RecvData
  BY <1>11 DEF RecvData
<1>12. CASE RecvFails
  BY <1>12 DEF RecvFails, LeaveLoop, Close
<1>13. CASE RecvParam
  BY <1>13 DEF RecvParam
<1>14. CASE ParsedInPart
  BY <1>14 DEF ParsedInPart, Fed
<1>15. ASSUME NEW r \in Requests, ParsedAll(r)
      PROVE  OwnersInv'
  BY <1>15 DEF ParsedAll, Fed
<1>16. CASE ParserFull
  BY <1>16 DEF ParserFull
<1>17. CASE StartRequest
  BY <1>17 DEF StartRequest
<1>18. CASE StartFails
  BY <1>18 DEF StartFails, ForgetRequest, Delete
<1>19. CASE Started
  BY <1>19 DEF Started, ForgetRequest
<1>20. CASE OnRecvProxyDisconnect
  BY <1>20 DEF OnRecvProxyDisconnect, EraseParser
<1>21. CASE DeletesAgain
  BY <1>21 DEF DeletesAgain
<1>22. CASE Accepted
  BY <1>22 DEF Accepted
<1>23. CASE ConnectionLost
  BY <1>23 DEF ConnectionLost
<1>24. ASSUME NEW fd \in Fds, RecvProxy(fd)
      PROVE  OwnersInv'
  BY <1>24 DEF RecvProxy
<1>25. ASSUME NEW fd \in Fds, RecvProxyDisconnect(fd)
      PROVE  OwnersInv'
  BY <1>25 DEF RecvProxyDisconnect
<1>26. ASSUME NEW r \in Requests, OnReceiveBody(r)
      PROVE  OwnersInv'
  BY <1>26 DEF OnReceiveBody
<1>27. ASSUME NEW r \in Requests, RequestEnds(r)
      PROVE  OwnersInv'
  BY <1>27 DEF RequestEnds
<1>28. ASSUME NEW r \in Requests, OnSuccessOrFail(r)
      PROVE  OwnersInv'
  BY <1>28 DEF OnSuccessOrFail, HasParser
<1>29. ASSUME NEW r \in Requests, UnlockAndDelete(r)
      PROVE  OwnersInv'
  BY <1>29 DEF UnlockAndDelete, Delete
<1>30. CASE UNCHANGED vars
  BY <1>30 DEF vars
<1> QED
  BY <1>1, <1>2, <1>3, <1>4, <1>5, <1>6, <1>7, <1>8, <1>9, <1>10, <1>11, <1>12, <1>13,
     <1>14, <1>15, <1>16, <1>17, <1>18, <1>19, <1>20, <1>21, <1>22, <1>23, <1>24, <1>25,
     <1>26, <1>27, <1>28, <1>29, <1>30
  DEF Next, CloseAndSend, Receive, Proxy, Finish

(***************************************************************************)
(* While no request outlives its browser, no parser outlives a connection  *)
(* and the proxy tells of every browser that left, whatever is sent for a  *)
(* descriptor answers its present browser (HttpProxyServer.cpp 27-133).    *)
(***************************************************************************)
THEOREM AnswersCorrect == Spec => []AnswersOwnBrowser
<1> DEFINE Inv == Separate => OwnersInv
<1>1. Init => Inv
  <2>1. ASSUME Init PROVE \A r \in Requests : ~ Unfinished(r)
    BY <2>1 DEF Init, Unfinished
  <2> QED BY <2>1, HttpProxyServerAssumption DEF Init, OwnersInv, Erasing, At, Threads
<1>2. TypeInv /\ Inv /\ [Next]_vars => TypeInv' /\ Inv'
  BY TypeStep, OwnersStep
<1>3. TypeInv /\ Inv => AnswersOwnBrowser
  BY DEF AnswersOwnBrowser, OwnersInv
<1> HIDE DEF Inv
<1>4. Spec => [](TypeInv /\ Inv)
  BY TypeInit, <1>1, <1>2, PTL DEF Spec
<1> QED BY <1>3, <1>4, PTL
=============================================================================
