----------------------------- MODULE TcpServer -----------------------------
(***************************************************************************)
(* One TcpServer of src/TcpPorxyServer/TcpServer.cpp with the observer it  *)
(* has as "mClientTcpServer" of TcpProxyServer.cpp: browsers connect, a    *)
(* libev thread ("main") accepts and receives, handler threads hand each   *)
(* packet to the observer, and one thread ("send") writes the replies the  *)
(* observer queues from threads of the other server.                       *)
(*                                                                         *)
(* A connection is torn down by whoever finishes last: OnDisconnect on the *)
(* main thread, or the handler or send thread whose decrement brings       *)
(* mpHandlingMessageCount[fd] to 0 once mpCloseRecv[fd] is set.  The code  *)
(* decides under mCloseMutex and acts (observer OnClose, then close(fd))   *)
(* after releasing it.  Every step of this module is at most one critical  *)
(* section of the code.                                                    *)
(*                                                                         *)
(* Ghost variables number the connections (conn, msgConn, closedConns) and *)
(* record the two races the code leaves open (races); no guard reads them  *)
(* but the bound on the number of connections.                             *)
(*                                                                         *)
(* Definitions marked wrong vary the one below them, to test that the      *)
(* properties would notice; no behaviour uses them.                        *)
(***************************************************************************)
EXTENDS Integers, Sequences, FiniteSets, Functions

CONSTANTS Fds,          \* descriptors the kernel may hand to accept
          Msgs,         \* the preallocated Message objects
          Handlers,     \* the handle threads
          HandleSize,   \* mHandleSize, 0 = no limit
          MaxWatchers,  \* ev_io watchers allocated by Start
          NoMsg, NoFd,  \* NULL message, no descriptor
          MaxConns,     \* bound: connections accepted in a behaviour
          MaxSeq        \* bound: packets queued per connection

ASSUME TcpServerAssumption ==
    /\ IsFiniteSet(Msgs)
    /\ NoMsg \notin Msgs
    /\ NoFd \notin Fds
    /\ {"main", "send"} \cap Handlers = {}
    /\ {HandleSize, MaxWatchers, MaxConns, MaxSeq} \subseteq Nat

VARIABLES
    idleList,       \* mIdleMessageList
    handleList,     \* mHandleMessageList
    sendList,       \* mSendImmediatelyMessageList
    msgFd,          \* Message::fd
    msgSeq,         \* Message::seq of a received packet
    watcherList,    \* how many watchers mWatcherList holds
    watching,       \* fd -> watchers started on it
    handlingCount,  \* mpHandlingMessageCount
    closeRecv,      \* mpCloseRecv
    seqRecv,        \* mpPacketSeqRecv
    pc, fd, held,   \* per thread: control point, local fd, local Message *
    clients,        \* mClientMap: fd -> connection of its Client, 0 = none
    sessions,       \* mClient2SessionMap: fd -> connection of a session with
                    \* a task in it, 0 = none
    reply,          \* the Message of a SendMessageByQueue in progress; its
                    \* caller holds the lock of mClient2SessionMap
    conn,           \* kernel: the connection open on fd, 0 = fd is closed
    hup,            \* kernel: recv on fd may report the end of the stream
    nconn,          \* ghost: connections accepted so far
    msgConn,        \* ghost: the connection a message was filled for
    closedConns,    \* ghost: connections whose OnClose ran
    races           \* ghost: races entered so far

queues  == <<idleList, handleList, sendList>>
msgs    == <<msgFd, msgSeq, msgConn>>
evio    == <<watcherList, watching>>
tables  == <<handlingCount, closeRecv, seqRecv>>
threads == <<pc, fd, held>>
service == <<clients, sessions, reply>>
kernel  == <<conn, hup, nconn>>
ghosts  == <<closedConns, races>>
vars    == <<queues, msgs, evio, tables, threads, service, kernel, ghosts>>

Threads == {"main", "send"} \cup Handlers
Conns   == 1 .. MaxConns
Idle(t) == IF t = "main" THEN "loop" ELSE "idle"

Locations == {"loop", "accept", "recv", "recving", "push", "pushmore", "disc",
              "decide", "onclose", "close", "return", "idle", "handle", "dec",
              "send"}

TypeOK ==
    /\ idleList \in Seq(Msgs) /\ handleList \in Seq(Msgs) /\ sendList \in Seq(Msgs)
    /\ msgFd \in [Msgs -> Fds \cup {NoFd}]
    /\ msgSeq \in [Msgs -> Nat]
    /\ msgConn \in [Msgs -> 0 .. MaxConns]
    /\ watcherList \in Nat
    /\ watching \in [Fds -> Nat]
    /\ handlingCount \in [Fds -> Int]
    /\ closeRecv \in [Fds -> BOOLEAN]
    /\ seqRecv \in [Fds -> 0 .. MaxSeq]
    /\ pc \in [Threads -> Locations]
    /\ fd \in [Threads -> Fds \cup {NoFd}]
    /\ held \in [Threads -> Msgs \cup {NoMsg}]
    /\ clients \in [Fds -> 0 .. MaxConns]
    /\ sessions \in [Fds -> 0 .. MaxConns]
    /\ reply \in Msgs \cup {NoMsg}
    /\ conn \in [Fds -> 0 .. MaxConns]
    /\ hup \in [Fds -> BOOLEAN]
    /\ nconn \in 0 .. MaxConns
    /\ closedConns \subseteq Conns
    /\ races \subseteq {"lateSend", "recycledRead"}

(***************************************************************************)
(* Start: every message is idle, every watcher free, no connection.        *)
(***************************************************************************)
Init ==
    /\ idleList \in Bijection(1 .. Cardinality(Msgs), Msgs)
    /\ handleList = <<>> /\ sendList = <<>>
    /\ msgFd = [m \in Msgs |-> NoFd]
    /\ msgSeq = [m \in Msgs |-> 0]
    /\ msgConn = [m \in Msgs |-> 0]
    /\ watcherList = MaxWatchers
    /\ watching = [f \in Fds |-> 0]
    /\ handlingCount = [f \in Fds |-> 0]
    /\ closeRecv = [f \in Fds |-> FALSE]
    /\ seqRecv = [f \in Fds |-> 0]
    /\ pc = [t \in Threads |-> Idle(t)]
    /\ fd = [t \in Threads |-> NoFd]
    /\ held = [t \in Threads |-> NoMsg]
    /\ clients = [f \in Fds |-> 0] /\ sessions = [f \in Fds |-> 0]
    /\ reply = NoMsg
    /\ conn = [f \in Fds |-> 0] /\ hup = [f \in Fds |-> FALSE] /\ nconn = 0
    /\ closedConns = {} /\ races = {}

At(t, location)   == pc[t] = location
Goto(t, location) == pc' = [pc EXCEPT ![t] = location]

\* Disconnect(f): shutdown(f, SHUT_RD), an error on a closed descriptor.
Disconnect(f) == hup' = [hup EXCEPT ![f] = @ \/ conn[f] # 0]

\* mpHandlingMessageCount[f]++ under mCloseMutex.
NoCount(f) == UNCHANGED handlingCount    \* wrong
Count(f)   == handlingCount' = [handlingCount EXCEPT ![f] = @ + 1]

(***************************************************************************)
(* The network: the peer of f closes or resets, or another thread of the   *)
(* process calls Disconnect(f) (a ProxyDisconnect from the VNC side).      *)
(***************************************************************************)
PeerClose(f) ==
    /\ conn[f] # 0 /\ ~ hup[f]
    /\ Disconnect(f)
    /\ UNCHANGED <<queues, msgs, evio, tables, threads, service, conn, nconn, ghosts>>

(***************************************************************************)
(* Main thread, Accept_Callback.  accept returns a free descriptor, whose  *)
(* table entries are reset before the observer is told.                    *)
(***************************************************************************)
Accept_Callback(f) ==
    /\ At("main", "loop")
    /\ conn[f] = 0 /\ nconn < MaxConns
    /\ nconn' = nconn + 1
    /\ conn' = [conn EXCEPT ![f] = nconn + 1]
    /\ hup' = [hup EXCEPT ![f] = FALSE]
    /\ closeRecv' = [closeRecv EXCEPT ![f] = FALSE]
    /\ handlingCount' = [handlingCount EXCEPT ![f] = 0]
    /\ seqRecv' = [seqRecv EXCEPT ![f] = 0]
    /\ fd' = [fd EXCEPT !["main"] = f]
    /\ Goto("main", "accept")
    /\ UNCHANGED <<queues, msgs, evio, held, service, ghosts>>

\* The observer creates a Client (Insert keeps an entry that is there) and a
\* watcher is started, or, with none left, the connection is shut down.
OnAcceptTrue ==
    LET f == fd["main"] IN
    /\ At("main", "accept")
    /\ clients' = [clients EXCEPT ![f] = IF @ = 0 THEN conn[f] ELSE @]
    /\ \/ /\ watcherList > 0
          /\ watcherList' = watcherList - 1
          /\ watching' = [watching EXCEPT ![f] = @ + 1]
          /\ Goto("main", "loop")
          /\ UNCHANGED hup
       \/ /\ watcherList = 0
          /\ Disconnect(f)
          /\ Goto("main", "disc")
          /\ UNCHANGED evio
    /\ UNCHANGED <<queues, msgs, tables, fd, held, sessions, reply, conn, nconn, ghosts>>

\* The observer refuses the connection.
OnAcceptFalse ==
    /\ At("main", "accept")
    /\ Disconnect(fd["main"])
    /\ Goto("main", "disc")
    /\ UNCHANGED <<queues, msgs, evio, tables, fd, held, service, conn, nconn, ghosts>>

(***************************************************************************)
(* Main thread, Recv_Callback: libev calls it when f is readable, or with  *)
(* EV_ERROR when f has been closed under a started watcher.                *)
(***************************************************************************)
Recv_Callback(f) ==
    /\ At("main", "loop")
    /\ watching[f] > 0
    /\ conn[f] = 0 \/ hup[f] \/ seqRecv[f] < MaxSeq
    /\ fd' = [fd EXCEPT !["main"] = f]
    /\ Goto("main", "recv")
    /\ UNCHANGED <<queues, msgs, evio, tables, held, service, kernel, ghosts>>

\* Takes an idle message; with none the callback sleeps and tries again.
RecvPopIdle ==
    LET m == Head(idleList) IN
    /\ At("main", "recv")
    /\ idleList # <<>>
    /\ idleList' = Tail(idleList)
    /\ held' = [held EXCEPT !["main"] = m]
    /\ msgFd' = [msgFd EXCEPT ![m] = fd["main"]]
    /\ msgSeq' = [msgSeq EXCEPT ![m] = 0]
    /\ msgConn' = [msgConn EXCEPT ![m] = conn[fd["main"]]]
    /\ Goto("main", "recving")
    /\ UNCHANGED <<handleList, sendList, evio, tables, fd, service, kernel, ghosts>>

\* GetHandleSize() > 0 && GetHandleMessageList()->Size() > GetHandleSize()
OverHandleSize == HandleSize > 0 /\ Len(handleList) > HandleSize

\* recv filled the whole buffer: the callback calls recv again, and the
\* socket is a blocking one.
MoreOrReturn(full, more, done) == IF full THEN more ELSE done

\* The number is taken before the limit is checked.
RecvOverLimitNumbered(full) ==    \* wrong
    LET f == fd["main"] IN
    /\ At("main", "recving") /\ conn[f] # 0 /\ seqRecv[f] < MaxSeq
    /\ OverHandleSize
    /\ Disconnect(f)
    /\ seqRecv' = [seqRecv EXCEPT ![f] = @ + 1]
    /\ idleList' = Append(idleList, held["main"])
    /\ held' = [held EXCEPT !["main"] = NoMsg]
    /\ Goto("main", MoreOrReturn(full, "recv", "loop"))
    /\ UNCHANGED <<handleList, sendList, msgs, evio, handlingCount, closeRecv, fd,
                   service, conn, nconn, ghosts>>

\* Data is received while the handle queue is over its limit: OnTimeoutMessage
\* disconnects, the bytes are dropped.
RecvOverLimit(full) ==
    LET f == fd["main"] IN
    /\ At("main", "recving") /\ conn[f] # 0 /\ seqRecv[f] < MaxSeq
    /\ OverHandleSize
    /\ Disconnect(f)
    /\ idleList' = Append(idleList, held["main"])
    /\ held' = [held EXCEPT !["main"] = NoMsg]
    /\ Goto("main", MoreOrReturn(full, "recv", "loop"))
    /\ UNCHANGED <<handleList, sendList, msgs, evio, tables, fd, service, conn, nconn, ghosts>>

\* Data is received: counted and numbered, then queued for the handlers.
RecvPacket(full) ==
    LET f == fd["main"] IN
    /\ At("main", "recving") /\ conn[f] # 0 /\ seqRecv[f] < MaxSeq
    /\ ~ OverHandleSize
    /\ Count(f)
    /\ msgSeq' = [msgSeq EXCEPT ![held["main"]] = seqRecv[f]]
    /\ seqRecv' = [seqRecv EXCEPT ![f] = @ + 1]
    /\ Goto("main", MoreOrReturn(full, "pushmore", "push"))
    /\ UNCHANGED <<queues, msgFd, msgConn, evio, closeRecv, fd, held, service, kernel, ghosts>>

RecvPush ==
    /\ pc["main"] \in {"push", "pushmore"}
    /\ handleList' = Append(handleList, held["main"])
    /\ held' = [held EXCEPT !["main"] = NoMsg]
    /\ Goto("main", MoreOrReturn(At("main", "pushmore"), "recv", "loop"))
    /\ UNCHANGED <<idleList, sendList, msgs, evio, tables, fd, service, kernel, ghosts>>

\* recv returns 0 or fails, or the callback came with EV_ERROR.
RecvEnd ==
    /\ At("main", "recving")
    /\ conn[fd["main"]] = 0 \/ hup[fd["main"]]
    /\ Goto("main", "disc")
    /\ UNCHANGED <<queues, msgs, evio, tables, fd, held, service, kernel, ghosts>>

\* EAGAIN: the message goes back, the callback returns.
RecvAgain ==
    /\ At("main", "recving") /\ conn[fd["main"]] # 0
    /\ Goto("main", "return")
    /\ UNCHANGED <<queues, msgs, evio, tables, fd, held, service, kernel, ghosts>>

(***************************************************************************)
(* OnDisconnect(fd, m), on the main thread: the watcher stops and goes     *)
(* back to the list, the observer is told (it forwards a disconnect        *)
(* command, which makes no task), then the close is decided under          *)
(* mCloseMutex: now, or left to the thread that finishes the last message. *)
(***************************************************************************)
StopEvio(f) ==
    /\ watching' = [watching EXCEPT ![f] = @ - 1]
    /\ watcherList' = watcherList + 1

StopsAlways(f) == TRUE    \* wrong
StopsEvio(f)   == held["main"] # NoMsg /\ watching[f] > 0

OnDisconnect ==
    LET f == fd["main"] IN
    /\ At("main", "disc")
    /\ Goto("main", "decide")
    /\ IF StopsEvio(f) THEN StopEvio(f) ELSE UNCHANGED evio
    /\ UNCHANGED <<queues, msgs, tables, fd, held, service, kernel, ghosts>>

\* The end of Recv_Callback and of the body of HandleRunnable: the thread
\* gives its message back if it has one.
FinishWithoutReturn(t) == Goto(t, Idle(t))    \* wrong
Finish(t) == Goto(t, IF held[t] = NoMsg THEN Idle(t) ELSE "return")

ClosesAlways(f) == TRUE    \* wrong
ClosesNow(f)    == handlingCount[f] = 0

DecideClose ==
    LET f == fd["main"] IN
    /\ At("main", "decide")
    /\ \/ /\ ClosesNow(f)
          /\ Goto("main", "onclose")
          /\ UNCHANGED closeRecv
       \/ /\ ~ ClosesNow(f)
          /\ closeRecv' = [closeRecv EXCEPT ![f] = TRUE]
          /\ Finish("main")
    /\ UNCHANGED <<queues, msgs, evio, handlingCount, seqRecv, fd, held, service, kernel, ghosts>>

(***************************************************************************)
(* The two steps after a decision to close, on any thread: the observer's  *)
(* OnClose deletes the Client and its session, under the locks of both     *)
(* maps, if the descriptor is in mClientMap; then close(fd).               *)
(***************************************************************************)
OnClose(t) ==
    LET f == fd[t] IN
    /\ At(t, "onclose")
    /\ clients[f] # 0 => reply = NoMsg
    /\ Goto(t, "close")
    /\ clients' = [clients EXCEPT ![f] = 0]
    /\ sessions' = IF clients[f] # 0 THEN [sessions EXCEPT ![f] = 0] ELSE sessions
    /\ closedConns' = closedConns \cup ({conn[f]} \ {0})
    /\ UNCHANGED <<queues, msgs, evio, tables, fd, held, reply, kernel, races>>

CloseFd(t) ==
    /\ At(t, "close")
    /\ conn' = [conn EXCEPT ![fd[t]] = 0]
    /\ hup' = [hup EXCEPT ![fd[t]] = FALSE]
    /\ held' = [held EXCEPT !["send"] = IF t = "send" THEN NoMsg ELSE @]
    /\ Goto(t, IF t = "send" \/ held[t] = NoMsg THEN Idle(t) ELSE "return")
    /\ UNCHANGED <<queues, msgs, evio, tables, fd, service, nconn, ghosts>>

\* GetIdleMessageList()->PushBack(m)
ReturnMessage(t) ==
    /\ At(t, "return")
    /\ idleList' = Append(idleList, held[t])
    /\ held' = [held EXCEPT ![t] = NoMsg]
    /\ Goto(t, Idle(t))
    /\ UNCHANGED <<handleList, sendList, msgs, evio, tables, fd, service, kernel, ghosts>>

(***************************************************************************)
(* CloseSocketIfNeedByHandleThread(f), its critical section: the last      *)
(* message of a disconnected descriptor decides to close it.               *)
(***************************************************************************)
LastMissed(f, left)  == left < 0 /\ closeRecv[f]    \* wrong
LastMessage(f, left) == left = 0 /\ closeRecv[f]

CloseSocketIfNeed(t, f, done) ==
    LET left == handlingCount[f] - 1 IN
    /\ handlingCount' = [handlingCount EXCEPT ![f] = left]
    /\ fd' = [fd EXCEPT ![t] = f]
    /\ Goto(t, IF LastMessage(f, left) THEN "onclose" ELSE done)

(***************************************************************************)
(* Handle threads, HandleRunnable::onRun and the observer's OnRecvMessage. *)
(***************************************************************************)
HandlePop(h) ==
    /\ At(h, "idle")
    /\ handleList # <<>>
    /\ handleList' = Tail(handleList)
    /\ held' = [held EXCEPT ![h] = Head(handleList)]
    /\ Goto(h, "handle")
    /\ UNCHANGED <<idleList, sendList, msgs, evio, tables, fd, service, kernel, ghosts>>

\* HandleRecvMessage forwards the packet, which adds a task to the session of
\* the client (SendClient2VNC creates it if need be) under its map's lock.
ForwardPacket(h) ==
    LET f == msgFd[held[h]] IN
    /\ At(h, "handle")
    /\ clients[f] # 0 /\ reply = NoMsg
    /\ sessions' = [sessions EXCEPT ![f] = IF @ = 0 THEN clients[f] ELSE @]
    /\ Goto(h, "dec")
    /\ UNCHANGED <<queues, msgs, evio, tables, fd, held, clients, reply, kernel, ghosts>>

\* There is no client for the descriptor or the packet cannot be forwarded.
RejectPacket(h) ==
    /\ At(h, "handle")
    /\ Disconnect(msgFd[held[h]])
    /\ Goto(h, "dec")
    /\ UNCHANGED <<queues, msgs, evio, tables, fd, held, service, conn, nconn, ghosts>>

HandleDone(h) ==
    /\ At(h, "dec")
    /\ CloseSocketIfNeed(h, msgFd[held[h]], "return")
    /\ UNCHANGED <<queues, msgs, evio, closeRecv, seqRecv, held, service, kernel, ghosts>>

(***************************************************************************)
(* The observer replies: ReturnVNC2Client, on a handle thread of the VNC   *)
(* server, holds the lock of mClient2SessionMap from finding the session   *)
(* to the end of SendMessageByQueue.  With no idle message it drops the    *)
(* reply.                                                                  *)
(***************************************************************************)
Closing(f) == \E t \in Threads : At(t, "onclose") /\ fd[t] = f

SendMessageByQueue(f) ==
    LET m == Head(idleList) IN
    /\ reply = NoMsg
    /\ sessions[f] # 0
    /\ idleList # <<>>
    /\ idleList' = Tail(idleList)
    /\ reply' = m
    /\ msgFd' = [msgFd EXCEPT ![m] = f]
    /\ msgConn' = [msgConn EXCEPT ![m] = sessions[f]]
    /\ Count(f)
    /\ races' = IF Closing(f) THEN races \cup {"lateSend"} ELSE races
    /\ UNCHANGED <<handleList, sendList, msgSeq, evio, closeRecv, seqRecv, threads,
                   clients, sessions, kernel, closedConns>>

SendMessagePush ==
    /\ reply # NoMsg
    /\ sendList' = Append(sendList, reply)
    /\ reply' = NoMsg
    /\ UNCHANGED <<idleList, handleList, msgs, evio, tables, threads, clients, sessions,
                   kernel, ghosts>>

(***************************************************************************)
(* Send thread, SendAllMessageImmediately and SendMessageImmediately.  The *)
(* message is pushed to the idle list before m->fd is read again for       *)
(* CloseSocketIfNeedByHandleThread(m->fd).                                 *)
(***************************************************************************)
SendPop ==
    LET m == Head(sendList) IN
    /\ At("send", "idle")
    /\ sendList # <<>>
    /\ sendList' = Tail(sendList)
    /\ held' = [held EXCEPT !["send"] = m]
    /\ fd' = [fd EXCEPT !["send"] = msgFd[m]]
    /\ Goto("send", "send")
    /\ UNCHANGED <<idleList, handleList, msgs, evio, tables, service, kernel, ghosts>>

\* The loop around send ends with everything sent, or with an error (always
\* an error on a closed descriptor), which disconnects.
SendMessageImmediately ==
    /\ At("send", "send")
    /\ \/ conn[fd["send"]] # 0 /\ UNCHANGED hup
       \/ Disconnect(fd["send"])
    /\ idleList' = Append(idleList, held["send"])
    /\ Goto("send", "dec")
    /\ UNCHANGED <<handleList, sendList, msgs, evio, tables, fd, held, service, conn,
                   nconn, ghosts>>

SendDone ==
    LET f == msgFd[held["send"]] IN
    /\ At("send", "dec")
    /\ CloseSocketIfNeed("send", f, "idle")
    /\ held' = [held EXCEPT !["send"] = IF pc'["send"] = "idle" THEN NoMsg ELSE @]
    /\ races' = IF f # fd["send"] THEN races \cup {"recycledRead"} ELSE races
    /\ UNCHANGED <<queues, msgs, evio, closeRecv, seqRecv, service, kernel, closedConns>>

(***************************************************************************)
(* Once MaxConns connections came and went nothing is left to do.          *)
(***************************************************************************)
Quiescent ==
    /\ nconn = MaxConns
    /\ \A t \in Threads : At(t, Idle(t))
    /\ handleList = <<>> /\ sendList = <<>> /\ reply = NoMsg
    /\ \A f \in Fds : watching[f] = 0 /\ sessions[f] = 0

Terminating == Quiescent /\ UNCHANGED vars

Next ==
    \/ \E f \in Fds : PeerClose(f) \/ Accept_Callback(f) \/ Recv_Callback(f)
    \/ OnAcceptTrue \/ OnAcceptFalse
    \/ RecvPopIdle \/ RecvPush \/ RecvEnd \/ RecvAgain
    \/ \E full \in BOOLEAN : RecvOverLimit(full) \/ RecvPacket(full)
    \/ OnDisconnect \/ DecideClose
    \/ \E t \in Threads : OnClose(t) \/ CloseFd(t) \/ ReturnMessage(t)
    \/ \E h \in Handlers : HandlePop(h) \/ ForwardPacket(h) \/ RejectPacket(h) \/ HandleDone(h)
    \/ \E f \in Fds : SendMessageByQueue(f)
    \/ SendMessagePush
    \/ SendPop \/ SendMessageImmediately \/ SendDone
    \/ Terminating

Spec == Init /\ [][Next]_vars

(***************************************************************************)
(* Fairness: libev keeps running callbacks, handle and send threads keep   *)
(* polling their lists, send returns (the peers read their replies).       *)
(* OnClose waits for a mutex that senders release and take again, and a    *)
(* pthread mutex does not starve its waiters, hence SF.  Nothing is asked  *)
(* of the peers or of recv: their actions have no fairness.                *)
(***************************************************************************)
Fairness ==
    /\ WF_vars(RecvPush) /\ WF_vars(OnDisconnect) /\ WF_vars(DecideClose)
    /\ \A t \in Threads :
          SF_vars(OnClose(t)) /\ WF_vars(CloseFd(t)) /\ WF_vars(ReturnMessage(t))
    /\ \A h \in Handlers :
          WF_vars(HandlePop(h)) /\ WF_vars(ForwardPacket(h) \/ RejectPacket(h))
                                /\ WF_vars(HandleDone(h))
    /\ WF_vars(SendMessagePush)
    /\ WF_vars(SendPop) /\ WF_vars(SendMessageImmediately) /\ WF_vars(SendDone)

\* The behaviours in which neither race is entered.
QuietSpec == Init /\ [][Next /\ races' = {}]_vars /\ Fairness

-----------------------------------------------------------------------------
(***************************************************************************)
(* What the properties speak about.                                        *)
(***************************************************************************)
\* Threads whose local message is counted in mpHandlingMessageCount.
Busy(t) == \/ pc[t] \in {"push", "pushmore", "handle", "send"}
           \/ t \in Handlers /\ pc[t] = "dec"

\* Received packets that no handler is done with.
Packets == Range(handleList) \cup {held[h] : h \in {g \in Handlers : Busy(g)}}

\* Messages counted for f, and the decrement the send thread still owes for
\* a message that is already idle again.
Counted == Range(handleList) \cup Range(sendList)
           \cup {held[t] : t \in {u \in Threads : Busy(u)}} \cup ({reply} \ {NoMsg})
Outstanding(f) == {m \in Counted : msgFd[m] = f}
SendOwes(f)    == IF At("send", "dec") /\ fd["send"] = f THEN 1 ELSE 0

\* Threads that decided to close f and have not done so.
Closers(f) == {t \in Threads : pc[t] \in {"onclose", "close"} /\ fd[t] = f}

(***************************************************************************)
(* The counter that decides when a socket may be closed: until a race is   *)
(* entered it equals the messages of the descriptor in the queues and in   *)
(* the hands of threads (TcpServer.cpp 799-801, 912-914, 1082-1114).       *)
(***************************************************************************)
CountExact ==
    races = {} =>
        \A f \in Fds : handlingCount[f] = Cardinality(Outstanding(f)) + SendOwes(f)

(***************************************************************************)
(* TcpProxyServer.cpp 842-845: "because there are packets in the handle    *)
(* queue TcpServer will not call OnClose, so the client is not released".  *)
(* Every packet not yet handled finds the Client of its own connection.    *)
(***************************************************************************)
PacketKeepsClient == \A m \in Packets : clients[msgFd[m]] = msgConn[m]

(***************************************************************************)
(* Until a race is entered a connection is closed by one thread only, with *)
(* nothing outstanding, and its OnClose runs once: the counter the threads *)
(* decide by is exact (OnDisconnect 1201-1228 against CloseSocketIfNeed-   *)
(* ByHandleThread 1098-1122).                                              *)
(***************************************************************************)
ClosedOnce ==
    /\ CountExact
    /\ races = {} =>
          \A f \in Fds : \A t \in Closers(f) :
              /\ Closers(f) = {t}
              /\ conn[f] # 0
              /\ Outstanding(f) = {} /\ SendOwes(f) = 0
              /\ At(t, "onclose") => conn[f] \notin closedConns

(***************************************************************************)
(* Until a race is entered no message meets another connection than its    *)
(* own on a descriptor that is used again: a packet still finds its Client *)
(* (842), a reply is written to the browser it is for (967 against 578).   *)
(***************************************************************************)
MessagesKeepConnection ==
    races = {} =>
        /\ PacketKeepsClient
        /\ \A m \in Range(sendList) \cup ({reply} \ {NoMsg}) : msgConn[m] = conn[msgFd[m]]
        /\ At("send", "send") => msgConn[held["send"]] = conn[fd["send"]]

(***************************************************************************)
(* Packets of a connection are queued for the handlers with consecutive    *)
(* numbers, the newest one just below mpPacketSeqRecv: Client::ParseData   *)
(* would wait for ever for a number that is missing (804, 617 and 793-797).*)
(***************************************************************************)
\* The number the next packet queued on f will have: one that is numbered may
\* wait in the hands of the main thread.
NextQueued(f) == IF pc["main"] \in {"push", "pushmore"} /\ fd["main"] = f
                 THEN seqRecv[f] - 1 ELSE seqRecv[f]

\* Where the packets of f stand in the handle queue, from place i on.
PlacesFrom(i, f) == {j \in i .. Len(handleList) : msgFd[handleList[j]] = f}

PacketsNumberedInOrder ==
    races = {} =>
        \A i \in DOMAIN handleList :
            LET f == msgFd[handleList[i]]
            IN  msgSeq[handleList[i]] = NextQueued(f) - Cardinality(PlacesFrom(i, f))

(***************************************************************************)
(* No message is lost, duplicated or shared: each is in one list, or with  *)
(* one thread, whatever races happen (PopFront and PushBack of 737-1029).  *)
(* The send thread owns its message until it pushes it to the idle list.   *)
(***************************************************************************)
Owned(t) == IF t = "send" /\ pc[t] # "send" THEN {} ELSE {held[t]} \ {NoMsg}
InHand   == UNION {Owned(t) : t \in Threads}
InReply  == {reply} \ {NoMsg}

MessagesConserved ==
    /\ IsInjective(idleList) /\ IsInjective(handleList) /\ IsInjective(sendList)
    /\ Range(idleList) \cap Range(handleList) = {}
    /\ Range(sendList) \cap (Range(idleList) \cup Range(handleList)) = {}
    /\ (InHand \cup InReply) \cap
           (Range(idleList) \cup Range(handleList) \cup Range(sendList)) = {}
    /\ InHand \cap InReply = {}
    /\ \A t, u \in Threads : t # u => Owned(t) \cap Owned(u) = {}
    /\ Msgs = Range(idleList) \cup Range(handleList) \cup Range(sendList)
              \cup InHand \cup InReply

(***************************************************************************)
(* Watchers are neither lost nor invented, and, until a race is entered,   *)
(* one is started on every open connection that was accepted and on none   *)
(* that is closed, so Recv_Callback never runs with EV_ERROR (664-683,     *)
(* 1061-1078).                                                             *)
(***************************************************************************)
\* The started watchers: those of a descriptor are numbered.
Started == UNION {{f} \X (1 .. watching[f]) : f \in Fds}

WatchersConserved ==
    /\ watcherList + Cardinality(Started) = MaxWatchers
    /\ races = {} => \A f \in Fds : watching[f] = 0 \/ (watching[f] = 1 /\ conn[f] # 0)

(***************************************************************************)
(* Once OnDisconnect begins for a connection its OnClose runs, whichever   *)
(* thread finishes last, provided the VNC side stops replying to it: every *)
(* reply queued behind another one postpones the close (1187-1229,         *)
(* 1080-1124, 912-914).                                                    *)
(***************************************************************************)
Replying(c) == reply # NoMsg /\ msgConn[reply] = c

DisconnectedIsClosed ==
    \A c \in Conns :
        <>[](~ Replying(c)) =>
            ((At("main", "disc") /\ conn[fd["main"]] = c) ~> (c \in closedConns))
=============================================================================
