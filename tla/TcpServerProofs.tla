--------------------------- MODULE TcpServerProofs ----------------------------
(***************************************************************************)
(* Type correctness of TcpServer and the ownership of messages; the close  *)
(* protocol: until a race is entered the counter is exact, a connection    *)
(* is closed once, messages keep their connection, and packets are queued  *)
(* with consecutive numbers; the watchers; the refinement: each step that  *)
(* enters no race is a step of ConnectionService under the mapping of      *)
(* TcpServerRefinement, or changes nothing there.                          *)
(***************************************************************************)
EXTENDS TcpServerInvariants, TcpServerRefinement, FiniteSetTheorems, TLAPS

(***************************************************************************)
(* PushBack on a list of messages.                                         *)
(***************************************************************************)
LEMMA AppendFacts ==
    ASSUME NEW S, NEW s \in Seq(S), NEW x \in S
    PROVE  /\ Append(s, x) \in Seq(S)
           /\ Range(Append(s, x)) = Range(s) \cup {x}
           /\ IsInjective(s) /\ x \notin Range(s) => IsInjective(Append(s, x))
<1>1. /\ Append(s, x) \in Seq(S)
      /\ Len(Append(s, x)) = Len(s) + 1
      /\ DOMAIN s = 1 .. Len(s)
      /\ DOMAIN Append(s, x) = 1 .. Len(s) + 1
      /\ Len(s) \in Nat
      /\ \A i \in 1 .. Len(s) : Append(s, x)[i] = s[i]
      /\ Append(s, x)[Len(s) + 1] = x
  OBVIOUS
<1>2. Range(Append(s, x)) = Range(s) \cup {x}
  <2>1. \A i \in 1 .. Len(s) + 1 : Append(s, x)[i] \in Range(s) \cup {x}
    BY <1>1 DEF Range
  <2>2. \A y \in Range(s) \cup {x} : \E i \in 1 .. Len(s) + 1 : Append(s, x)[i] = y
    BY <1>1 DEF Range
  <2> QED BY <1>1, <2>1, <2>2 DEF Range
<1>3. IsInjective(s) /\ x \notin Range(s) => IsInjective(Append(s, x))
  BY <1>1 DEF Range, IsInjective
<1> QED BY <1>1, <1>2, <1>3

(***************************************************************************)
(* PopFront on a non-empty list of messages.                               *)
(***************************************************************************)
LEMMA HeadTailFacts ==
    ASSUME NEW S, NEW s \in Seq(S), s # <<>>
    PROVE  /\ Head(s) \in S
           /\ Tail(s) \in Seq(S)
           /\ Range(s) = Range(Tail(s)) \cup {Head(s)}
           /\ IsInjective(s) => IsInjective(Tail(s)) /\ Head(s) \notin Range(Tail(s))
<1>1. /\ Len(s) \in Nat \ {0}
      /\ DOMAIN s = 1 .. Len(s)
      /\ Head(s) = s[1] /\ Head(s) \in S
      /\ Tail(s) \in Seq(S)
      /\ Len(Tail(s)) = Len(s) - 1
      /\ DOMAIN Tail(s) = 1 .. Len(s) - 1
      /\ \A i \in 1 .. Len(s) - 1 : Tail(s)[i] = s[i + 1]
  OBVIOUS
<1>2. Range(s) = Range(Tail(s)) \cup {Head(s)}
  <2>1. \A i \in 1 .. Len(s) : i = 1 \/ (i - 1 \in 1 .. Len(s) - 1 /\ s[i] = Tail(s)[i - 1])
    BY <1>1
  <2>2. ASSUME NEW y \in Range(s)
        PROVE  y \in Range(Tail(s)) \cup {Head(s)}
    <3>1. PICK i \in 1 .. Len(s) : y = s[i]
      BY <1>1 DEF Range
    <3>2. CASE i = 1
      BY <1>1, <3>1, <3>2
    <3>3. CASE i # 1
      <4>1. i - 1 \in DOMAIN Tail(s) /\ y = Tail(s)[i - 1]
        BY <1>1, <2>1, <3>1, <3>3
      <4> QED BY <4>1 DEF Range
    <3> QED BY <3>2, <3>3
  <2>3. \A y \in Range(Tail(s)) \cup {Head(s)} : y \in Range(s)
    BY <1>1 DEF Range
  <2> QED BY <2>2, <2>3
<1>3. IsInjective(s) => IsInjective(Tail(s)) /\ Head(s) \notin Range(Tail(s))
  BY <1>1 DEF Range, IsInjective
<1> QED BY <1>1, <1>2, <1>3

(***************************************************************************)
(* Types, control points and locals.                                       *)
(***************************************************************************)
LEMMA TypeInit == Init => TypeInv
<1> SUFFICES ASSUME Init PROVE TypeInv
  OBVIOUS
<1> USE TcpServerAssumption
<1>1. idleList \in Seq(Msgs)
  <2>1. Cardinality(Msgs) \in Nat
    BY FS_CardinalityType
  <2>2. idleList \in [1 .. Cardinality(Msgs) -> Msgs]
    BY DEF Init, Bijection, Injection
  <2> QED BY <2>1, <2>2
<1>2. Range(<<>>) = {}
  BY DEF Range
<1>3. TypeOK
  BY <1>1 DEF Init, TypeOK, Threads, Idle, Locations, Conns
<1>4. ControlInv
  BY DEF Init, ControlInv, Threads, Idle
<1>5. FilledInv
  BY <1>2 DEF Init, FilledInv
<1> QED BY <1>3, <1>4, <1>5 DEF TypeInv

\* The messages of a list are messages.
LEMMA RangeOfMsgs == \A s \in Seq(Msgs) : Range(s) \subseteq Msgs
BY DEF Range

\* Types alone are not inductive: that a thread only touches a descriptor it
\* has, and a message only when it holds one, follows from its control point.
LEMMA TypeStep == TypeInv /\ [Next]_vars => TypeInv'
<1> SUFFICES ASSUME TypeInv, [Next]_vars PROVE TypeInv'
  OBVIOUS
<1> USE TcpServerAssumption DEF queues, msgs, evio, tables, threads, service, kernel, ghosts,
        TypeInv, Threads, At, Goto
<1>1. ASSUME NEW f \in Fds, PeerClose(f)
      PROVE  TypeInv'
  <2>1. TypeOK'
    BY <1>1 DEF PeerClose, Disconnect, TypeOK, ControlInv, FilledInv, Locations, Conns
  <2>2. ControlInv'
    BY <1>1 DEF PeerClose, Disconnect, TypeOK, ControlInv, Locations
  <2>3. FilledInv'
    BY <1>1 DEF PeerClose, Disconnect, TypeOK, ControlInv, FilledInv
  <2> QED BY <2>1, <2>2, <2>3
<1>2. ASSUME NEW f \in Fds, Accept_Callback(f)
      PROVE  TypeInv'
  <2>1. TypeOK'
    <3>1. /\ (idleList \in Seq(Msgs))' /\ (handleList \in Seq(Msgs))' /\ (sendList \in Seq(Msgs))'
            /\ (reply \in Msgs \cup {NoMsg})' /\ (nconn \in 0 .. MaxConns)'
            /\ (closedConns \subseteq Conns)' /\ (races \subseteq {"lateSend", "recycledRead"})'
      BY <1>2 DEF Accept_Callback, TypeOK, ControlInv, FilledInv, Locations, Conns
    <3>2. /\ (msgFd \in [Msgs -> Fds \cup {NoFd}])'
            /\ (msgSeq \in [Msgs -> Nat])' /\ (msgConn \in [Msgs -> 0 .. MaxConns])'
      BY <1>2 DEF Accept_Callback, TypeOK, ControlInv, FilledInv, Locations, Conns
    <3>3. /\ (watcherList \in Nat)' /\ (watching \in [Fds -> Nat])'
            /\ (handlingCount \in [Fds -> Int])' /\ (closeRecv \in [Fds -> BOOLEAN])'
            /\ (seqRecv \in [Fds -> 0 .. MaxSeq])'
      BY <1>2 DEF Accept_Callback, TypeOK, ControlInv, FilledInv, Locations, Conns
    <3>4. /\ (pc \in [Threads -> Locations])' /\ (fd \in [Threads -> Fds \cup {NoFd}])'
            /\ (held \in [Threads -> Msgs \cup {NoMsg}])'
      BY <1>2 DEF Accept_Callback, TypeOK, ControlInv, FilledInv, Locations, Conns
    <3>5. /\ (clients \in [Fds -> 0 .. MaxConns])' /\ (sessions \in [Fds -> 0 .. MaxConns])'
            /\ (conn \in [Fds -> 0 .. MaxConns])' /\ (hup \in [Fds -> BOOLEAN])'
      BY <1>2 DEF Accept_Callback, TypeOK, ControlInv, FilledInv, Locations, Conns
    <3> QED BY <3>1, <3>2, <3>3, <3>4, <3>5 DEF TypeOK
  <2>2. ControlInv'
    BY <1>2 DEF Accept_Callback, TypeOK, ControlInv, Locations
  <2>3. FilledInv'
    BY <1>2 DEF Accept_Callback, TypeOK, ControlInv, FilledInv
  <2> QED BY <2>1, <2>2, <2>3
<1>3. ASSUME NEW f \in Fds, Recv_Callback(f)
      PROVE  TypeInv'
  <2>1. TypeOK'
    BY <1>3 DEF Recv_Callback, TypeOK, ControlInv, FilledInv, Locations, Conns
  <2>2. ControlInv'
    BY <1>3 DEF Recv_Callback, TypeOK, ControlInv, Locations
  <2>3. FilledInv'
    BY <1>3 DEF Recv_Callback, TypeOK, ControlInv, FilledInv
  <2> QED BY <2>1, <2>2, <2>3
<1>4. CASE OnAcceptTrue
  <2>1. TypeOK'
    <3>1. /\ (idleList \in Seq(Msgs))' /\ (handleList \in Seq(Msgs))' /\ (sendList \in Seq(Msgs))'
            /\ (reply \in Msgs \cup {NoMsg})' /\ (nconn \in 0 .. MaxConns)'
            /\ (closedConns \subseteq Conns)' /\ (races \subseteq {"lateSend", "recycledRead"})'
      BY <1>4 DEF OnAcceptTrue, Disconnect, TypeOK, ControlInv, FilledInv, Locations, Conns
    <3>2. /\ (msgFd \in [Msgs -> Fds \cup {NoFd}])'
            /\ (msgSeq \in [Msgs -> Nat])' /\ (msgConn \in [Msgs -> 0 .. MaxConns])'
      BY <1>4 DEF OnAcceptTrue, Disconnect, TypeOK, ControlInv, FilledInv, Locations, Conns
    <3>3. /\ (watcherList \in Nat)' /\ (watching \in [Fds -> Nat])'
            /\ (handlingCount \in [Fds -> Int])' /\ (closeRecv \in [Fds -> BOOLEAN])'
            /\ (seqRecv \in [Fds -> 0 .. MaxSeq])'
      <4>1. /\ watcherList \in Nat /\ watching \in [Fds -> Nat] /\ fd["main"] \in Fds
            /\ handlingCount \in [Fds -> Int] /\ closeRecv \in [Fds -> BOOLEAN]
            /\ seqRecv \in [Fds -> 0 .. MaxSeq]
        BY <1>4 DEF OnAcceptTrue, TypeOK, ControlInv
      <4>2. watching[fd["main"]] + 1 \in Nat
        BY <4>1
      <4>3. watcherList > 0 => watcherList - 1 \in Nat
        BY <4>1
      <4>4. CASE watcherList > 0
        BY <4>1, <4>2, <4>3, <4>4, <1>4 DEF OnAcceptTrue
      <4>5. CASE watcherList = 0
        BY <4>1, <4>5, <1>4 DEF OnAcceptTrue
      <4> QED BY <4>1, <4>4, <4>5
    <3>4. /\ (pc \in [Threads -> Locations])' /\ (fd \in [Threads -> Fds \cup {NoFd}])'
            /\ (held \in [Threads -> Msgs \cup {NoMsg}])'
      BY <1>4 DEF OnAcceptTrue, Disconnect, TypeOK, ControlInv, FilledInv, Locations, Conns
    <3>5. /\ (clients \in [Fds -> 0 .. MaxConns])' /\ (sessions \in [Fds -> 0 .. MaxConns])'
            /\ (conn \in [Fds -> 0 .. MaxConns])' /\ (hup \in [Fds -> BOOLEAN])'
      BY <1>4 DEF OnAcceptTrue, Disconnect, TypeOK, ControlInv, FilledInv, Locations, Conns
    <3> QED BY <3>1, <3>2, <3>3, <3>4, <3>5 DEF TypeOK
  <2>2. ControlInv'
    BY <1>4 DEF OnAcceptTrue, Disconnect, TypeOK, ControlInv, Locations
  <2>3. FilledInv'
    BY <1>4 DEF OnAcceptTrue, Disconnect, TypeOK, ControlInv, FilledInv
  <2> QED BY <2>1, <2>2, <2>3
<1>5. CASE OnAcceptFalse
  <2>1. TypeOK'
    BY <1>5 DEF OnAcceptFalse, Disconnect, TypeOK, ControlInv, FilledInv, Locations, Conns
  <2>2. ControlInv'
    BY <1>5 DEF OnAcceptFalse, Disconnect, TypeOK, ControlInv, Locations
  <2>3. FilledInv'
    BY <1>5 DEF OnAcceptFalse, Disconnect, TypeOK, ControlInv, FilledInv
  <2> QED BY <2>1, <2>2, <2>3
<1>6. CASE RecvPopIdle
  <2>0. idleList \in Seq(Msgs) /\ idleList # <<>>
    BY <1>6 DEF RecvPopIdle, TypeOK
  <2>a. /\ Head(idleList) \in Msgs /\ Tail(idleList) \in Seq(Msgs)
        /\ Head(idleList) \in Range(idleList) /\ Range(Tail(idleList)) \subseteq Range(idleList)
    BY <2>0, HeadTailFacts
  <2>1. TypeOK'
    BY <1>6, <2>a DEF RecvPopIdle, TypeOK, ControlInv, FilledInv, Locations, Conns
  <2>2. ControlInv'
    BY <1>6, <2>a DEF RecvPopIdle, TypeOK, ControlInv, Locations
  <2>3. FilledInv'
    <3>1. /\ fd["main"] \in Fds /\ msgFd \in [Msgs -> Fds \cup {NoFd}]
          /\ held \in [Threads -> Msgs \cup {NoMsg}] /\ reply \in Msgs \cup {NoMsg}
          /\ Range(handleList) \cup Range(sendList) \subseteq Msgs
      BY <1>6, RangeOfMsgs DEF RecvPopIdle, TypeOK, ControlInv
    <3>2. \A m \in Msgs : msgFd[m] \in Fds => msgFd'[m] \in Fds
      BY <1>6, <2>a, <3>1 DEF RecvPopIdle
    <3>3. msgFd'[Head(idleList)] \in Fds
      BY <1>6, <2>a, <3>1 DEF RecvPopIdle
    <3>4. \A t \in Threads : held'[t] = held[t] \/ held'[t] = Head(idleList)
      BY <1>6, <3>1 DEF RecvPopIdle
    <3>5. UNCHANGED <<handleList, sendList, reply>>
      BY <1>6 DEF RecvPopIdle
    <3> QED BY <3>1, <3>2, <3>3, <3>4, <3>5 DEF FilledInv
  <2> QED BY <2>1, <2>2, <2>3
<1>7. CASE RecvPush
  <2>0. handleList \in Seq(Msgs) /\ held["main"] \in Msgs
    BY <1>7 DEF RecvPush, TypeOK, ControlInv
  <2>a. /\ Append(handleList, held["main"]) \in Seq(Msgs)
        /\ Range(Append(handleList, held["main"])) = Range(handleList) \cup {held["main"]}
    BY <2>0, AppendFacts
  <2>1. TypeOK'
    BY <1>7, <2>a DEF RecvPush, MoreOrReturn, TypeOK, ControlInv, FilledInv, Locations, Conns
  <2>2. ControlInv'
    BY <1>7, <2>a DEF RecvPush, MoreOrReturn, TypeOK, ControlInv, Locations
  <2>3. FilledInv'
    BY <1>7, <2>a DEF RecvPush, MoreOrReturn, TypeOK, ControlInv, FilledInv
  <2> QED BY <2>1, <2>2, <2>3
<1>8. CASE RecvEnd
  <2>1. TypeOK'
    BY <1>8 DEF RecvEnd, TypeOK, ControlInv, FilledInv, Locations, Conns
  <2>2. ControlInv'
    BY <1>8 DEF RecvEnd, TypeOK, ControlInv, Locations
  <2>3. FilledInv'
    BY <1>8 DEF RecvEnd, TypeOK, ControlInv, FilledInv
  <2> QED BY <2>1, <2>2, <2>3
<1>9. CASE RecvAgain
  <2>1. TypeOK'
    BY <1>9 DEF RecvAgain, TypeOK, ControlInv, FilledInv, Locations, Conns
  <2>2. ControlInv'
    BY <1>9 DEF RecvAgain, TypeOK, ControlInv, Locations
  <2>3. FilledInv'
    BY <1>9 DEF RecvAgain, TypeOK, ControlInv, FilledInv
  <2> QED BY <2>1, <2>2, <2>3
<1>10. ASSUME NEW full \in BOOLEAN, RecvOverLimit(full)
      PROVE  TypeInv'
  <2>0. idleList \in Seq(Msgs) /\ held["main"] \in Msgs
    BY <1>10 DEF RecvOverLimit, TypeOK, ControlInv
  <2>a. /\ Append(idleList, held["main"]) \in Seq(Msgs)
        /\ Range(Append(idleList, held["main"])) = Range(idleList) \cup {held["main"]}
    BY <2>0, AppendFacts
  <2>1. TypeOK'
    BY <1>10, <2>a DEF RecvOverLimit, MoreOrReturn, Disconnect, TypeOK, ControlInv, FilledInv, Locations, Conns
  <2>2. ControlInv'
    BY <1>10, <2>a DEF RecvOverLimit, MoreOrReturn, Disconnect, TypeOK, ControlInv, Locations
  <2>3. FilledInv'
    BY <1>10, <2>a DEF RecvOverLimit, MoreOrReturn, Disconnect, TypeOK, ControlInv, FilledInv
  <2> QED BY <2>1, <2>2, <2>3
<1>11. ASSUME NEW full \in BOOLEAN, RecvPacket(full)
      PROVE  TypeInv'
  <2>1. TypeOK'
    <3>1. /\ (idleList \in Seq(Msgs))' /\ (handleList \in Seq(Msgs))' /\ (sendList \in Seq(Msgs))'
            /\ (reply \in Msgs \cup {NoMsg})' /\ (nconn \in 0 .. MaxConns)'
            /\ (closedConns \subseteq Conns)' /\ (races \subseteq {"lateSend", "recycledRead"})'
      BY <1>11 DEF RecvPacket, MoreOrReturn, Count, TypeOK, ControlInv, FilledInv, Locations, Conns
    <3>2. /\ (msgFd \in [Msgs -> Fds \cup {NoFd}])'
            /\ (msgSeq \in [Msgs -> Nat])' /\ (msgConn \in [Msgs -> 0 .. MaxConns])'
      <4>1. /\ msgFd \in [Msgs -> Fds \cup {NoFd}] /\ msgSeq \in [Msgs -> Nat]
            /\ msgConn \in [Msgs -> 0 .. MaxConns] /\ fd["main"] \in Fds
            /\ seqRecv \in [Fds -> 0 .. MaxSeq]
        BY <1>11 DEF RecvPacket, TypeOK, ControlInv
      <4>2. seqRecv[fd["main"]] \in Nat
        BY <4>1
      <4> QED BY <4>1, <4>2, <1>11 DEF RecvPacket
    <3>3. /\ (watcherList \in Nat)' /\ (watching \in [Fds -> Nat])'
            /\ (handlingCount \in [Fds -> Int])' /\ (closeRecv \in [Fds -> BOOLEAN])'
            /\ (seqRecv \in [Fds -> 0 .. MaxSeq])'
      <4>1. /\ watcherList \in Nat /\ watching \in [Fds -> Nat] /\ fd["main"] \in Fds
            /\ handlingCount \in [Fds -> Int] /\ closeRecv \in [Fds -> BOOLEAN]
            /\ seqRecv \in [Fds -> 0 .. MaxSeq] /\ MaxSeq \in Nat
            /\ seqRecv[fd["main"]] < MaxSeq
        BY <1>11 DEF RecvPacket, TypeOK, ControlInv
      <4>2. handlingCount[fd["main"]] + 1 \in Int
        BY <4>1
      <4>3. seqRecv[fd["main"]] + 1 \in 0 .. MaxSeq
        BY <4>1
      <4>4. (handlingCount \in [Fds -> Int])'
        BY <4>1, <4>2, <1>11 DEF RecvPacket, Count
      <4>5. (seqRecv \in [Fds -> 0 .. MaxSeq])'
        BY <4>1, <4>3, <1>11 DEF RecvPacket
      <4> QED BY <4>1, <4>4, <4>5, <1>11 DEF RecvPacket
    <3>4. /\ (pc \in [Threads -> Locations])' /\ (fd \in [Threads -> Fds \cup {NoFd}])'
            /\ (held \in [Threads -> Msgs \cup {NoMsg}])'
      BY <1>11 DEF RecvPacket, MoreOrReturn, Count, TypeOK, ControlInv, FilledInv, Locations, Conns
    <3>5. /\ (clients \in [Fds -> 0 .. MaxConns])' /\ (sessions \in [Fds -> 0 .. MaxConns])'
            /\ (conn \in [Fds -> 0 .. MaxConns])' /\ (hup \in [Fds -> BOOLEAN])'
      BY <1>11 DEF RecvPacket, MoreOrReturn, Count, TypeOK, ControlInv, FilledInv, Locations, Conns
    <3> QED BY <3>1, <3>2, <3>3, <3>4, <3>5 DEF TypeOK
  <2>2. ControlInv'
    BY <1>11 DEF RecvPacket, MoreOrReturn, Count, TypeOK, ControlInv, Locations
  <2>3. FilledInv'
    BY <1>11 DEF RecvPacket, MoreOrReturn, Count, TypeOK, ControlInv, FilledInv
  <2> QED BY <2>1, <2>2, <2>3
<1>12. CASE OnDisconnect
  <2>1. TypeOK'
    <3>1. /\ (idleList \in Seq(Msgs))' /\ (handleList \in Seq(Msgs))' /\ (sendList \in Seq(Msgs))'
            /\ (reply \in Msgs \cup {NoMsg})' /\ (nconn \in 0 .. MaxConns)'
            /\ (closedConns \subseteq Conns)' /\ (races \subseteq {"lateSend", "recycledRead"})'
      BY <1>12 DEF OnDisconnect, StopsEvio, StopEvio, TypeOK, ControlInv, FilledInv, Locations, Conns
    <3>2. /\ (msgFd \in [Msgs -> Fds \cup {NoFd}])'
            /\ (msgSeq \in [Msgs -> Nat])' /\ (msgConn \in [Msgs -> 0 .. MaxConns])'
      BY <1>12 DEF OnDisconnect, StopsEvio, StopEvio, TypeOK, ControlInv, FilledInv, Locations, Conns
    <3>3. /\ (watcherList \in Nat)' /\ (watching \in [Fds -> Nat])'
            /\ (handlingCount \in [Fds -> Int])' /\ (closeRecv \in [Fds -> BOOLEAN])'
            /\ (seqRecv \in [Fds -> 0 .. MaxSeq])'
      <4>1. /\ watcherList \in Nat /\ watching \in [Fds -> Nat] /\ fd["main"] \in Fds
            /\ handlingCount \in [Fds -> Int] /\ closeRecv \in [Fds -> BOOLEAN]
            /\ seqRecv \in [Fds -> 0 .. MaxSeq]
        BY <1>12 DEF OnDisconnect, TypeOK, ControlInv
      <4>2. UNCHANGED <<handlingCount, closeRecv, seqRecv>>
        BY <1>12 DEF OnDisconnect
      <4>3. CASE StopsEvio(fd["main"])
        <5>1. watcherList + 1 \in Nat /\ watching[fd["main"]] - 1 \in Nat
          BY <4>1, <4>3 DEF StopsEvio
        <5> QED BY <4>1, <4>2, <4>3, <5>1, <1>12 DEF OnDisconnect, StopEvio
      <4>4. CASE ~ StopsEvio(fd["main"])
        BY <4>1, <4>2, <4>4, <1>12 DEF OnDisconnect
      <4> QED BY <4>3, <4>4
    <3>4. /\ (pc \in [Threads -> Locations])' /\ (fd \in [Threads -> Fds \cup {NoFd}])'
            /\ (held \in [Threads -> Msgs \cup {NoMsg}])'
      BY <1>12 DEF OnDisconnect, StopsEvio, StopEvio, TypeOK, ControlInv, FilledInv, Locations, Conns
    <3>5. /\ (clients \in [Fds -> 0 .. MaxConns])' /\ (sessions \in [Fds -> 0 .. MaxConns])'
            /\ (conn \in [Fds -> 0 .. MaxConns])' /\ (hup \in [Fds -> BOOLEAN])'
      BY <1>12 DEF OnDisconnect, StopsEvio, StopEvio, TypeOK, ControlInv, FilledInv, Locations, Conns
    <3> QED BY <3>1, <3>2, <3>3, <3>4, <3>5 DEF TypeOK
  <2>2. ControlInv'
    BY <1>12 DEF OnDisconnect, StopsEvio, StopEvio, TypeOK, ControlInv, Locations
  <2>3. FilledInv'
    BY <1>12 DEF OnDisconnect, StopsEvio, StopEvio, TypeOK, ControlInv, FilledInv
  <2> QED BY <2>1, <2>2, <2>3
<1>13. CASE DecideClose
  <2>1. TypeOK'
    BY <1>13 DEF DecideClose, Finish, Idle, TypeOK, ControlInv, FilledInv, Locations, Conns
  <2>2. ControlInv'
    BY <1>13 DEF DecideClose, Finish, Idle, TypeOK, ControlInv, Locations
  <2>3. FilledInv'
    BY <1>13 DEF DecideClose, Finish, Idle, TypeOK, ControlInv, FilledInv
  <2> QED BY <2>1, <2>2, <2>3
<1>14. ASSUME NEW t \in Threads, OnClose(t)
      PROVE  TypeInv'
  <2>1. TypeOK'
    <3>1. /\ (idleList \in Seq(Msgs))' /\ (handleList \in Seq(Msgs))' /\ (sendList \in Seq(Msgs))'
            /\ (reply \in Msgs \cup {NoMsg})' /\ (nconn \in 0 .. MaxConns)'
            /\ (closedConns \subseteq Conns)' /\ (races \subseteq {"lateSend", "recycledRead"})'
      <4>1. /\ t \in Threads /\ fd[t] \in Fds
            /\ conn \in [Fds -> 0 .. MaxConns] /\ hup \in [Fds -> BOOLEAN]
            /\ clients \in [Fds -> 0 .. MaxConns] /\ sessions \in [Fds -> 0 .. MaxConns]
            /\ MaxConns \in Nat /\ 0 \in 0 .. MaxConns
        <5>1. fd[t] \in Fds
          BY <1>14 DEF OnClose, ControlInv
        <5>2. MaxConns \in Nat
          OBVIOUS
        <5> QED BY <5>1, <5>2, <1>14 DEF TypeOK
      <4>2. conn[fd[t]] \in {0} \cup Conns
        BY <4>1 DEF Conns
      <4>3. (closedConns \subseteq Conns)'
        BY <4>2, <1>14 DEF OnClose, TypeOK
      <4> QED BY <4>3, <1>14 DEF OnClose, TypeOK
    <3>2. /\ (msgFd \in [Msgs -> Fds \cup {NoFd}])'
            /\ (msgSeq \in [Msgs -> Nat])' /\ (msgConn \in [Msgs -> 0 .. MaxConns])'
      BY <1>14 DEF OnClose, TypeOK, ControlInv, FilledInv, Locations, Conns
    <3>3. /\ (watcherList \in Nat)' /\ (watching \in [Fds -> Nat])'
            /\ (handlingCount \in [Fds -> Int])' /\ (closeRecv \in [Fds -> BOOLEAN])'
            /\ (seqRecv \in [Fds -> 0 .. MaxSeq])'
      BY <1>14 DEF OnClose, TypeOK, ControlInv, FilledInv, Locations, Conns
    <3>4. /\ (pc \in [Threads -> Locations])' /\ (fd \in [Threads -> Fds \cup {NoFd}])'
            /\ (held \in [Threads -> Msgs \cup {NoMsg}])'
      BY <1>14 DEF OnClose, TypeOK, ControlInv, FilledInv, Locations, Conns
    <3>5. /\ (clients \in [Fds -> 0 .. MaxConns])' /\ (sessions \in [Fds -> 0 .. MaxConns])'
            /\ (conn \in [Fds -> 0 .. MaxConns])' /\ (hup \in [Fds -> BOOLEAN])'
      <4>1. /\ t \in Threads /\ fd[t] \in Fds
            /\ conn \in [Fds -> 0 .. MaxConns] /\ hup \in [Fds -> BOOLEAN]
            /\ clients \in [Fds -> 0 .. MaxConns] /\ sessions \in [Fds -> 0 .. MaxConns]
            /\ MaxConns \in Nat /\ 0 \in 0 .. MaxConns
        <5>1. fd[t] \in Fds
          BY <1>14 DEF OnClose, ControlInv
        <5>2. MaxConns \in Nat
          OBVIOUS
        <5> QED BY <5>1, <5>2, <1>14 DEF TypeOK
      <4> QED BY <4>1, <1>14 DEF OnClose
    <3> QED BY <3>1, <3>2, <3>3, <3>4, <3>5 DEF TypeOK
  <2>2. ControlInv'
    BY <1>14 DEF OnClose, TypeOK, ControlInv, Locations
  <2>3. FilledInv'
    BY <1>14 DEF OnClose, TypeOK, ControlInv, FilledInv
  <2> QED BY <2>1, <2>2, <2>3
<1>15. ASSUME NEW t \in Threads, CloseFd(t)
      PROVE  TypeInv'
  <2>1. TypeOK'
    <3>1. /\ (idleList \in Seq(Msgs))' /\ (handleList \in Seq(Msgs))' /\ (sendList \in Seq(Msgs))'
            /\ (reply \in Msgs \cup {NoMsg})' /\ (nconn \in 0 .. MaxConns)'
            /\ (closedConns \subseteq Conns)' /\ (races \subseteq {"lateSend", "recycledRead"})'
      BY <1>15 DEF CloseFd, Idle, TypeOK, ControlInv, FilledInv, Locations, Conns
    <3>2. /\ (msgFd \in [Msgs -> Fds \cup {NoFd}])'
            /\ (msgSeq \in [Msgs -> Nat])' /\ (msgConn \in [Msgs -> 0 .. MaxConns])'
      BY <1>15 DEF CloseFd, Idle, TypeOK, ControlInv, FilledInv, Locations, Conns
    <3>3. /\ (watcherList \in Nat)' /\ (watching \in [Fds -> Nat])'
            /\ (handlingCount \in [Fds -> Int])' /\ (closeRecv \in [Fds -> BOOLEAN])'
            /\ (seqRecv \in [Fds -> 0 .. MaxSeq])'
      BY <1>15 DEF CloseFd, Idle, TypeOK, ControlInv, FilledInv, Locations, Conns
    <3>4. /\ (pc \in [Threads -> Locations])' /\ (fd \in [Threads -> Fds \cup {NoFd}])'
            /\ (held \in [Threads -> Msgs \cup {NoMsg}])'
      BY <1>15 DEF CloseFd, Idle, TypeOK, ControlInv, FilledInv, Locations, Conns
    <3>5. /\ (clients \in [Fds -> 0 .. MaxConns])' /\ (sessions \in [Fds -> 0 .. MaxConns])'
            /\ (conn \in [Fds -> 0 .. MaxConns])' /\ (hup \in [Fds -> BOOLEAN])'
      <4>1. /\ t \in Threads /\ fd[t] \in Fds
            /\ conn \in [Fds -> 0 .. MaxConns] /\ hup \in [Fds -> BOOLEAN]
            /\ clients \in [Fds -> 0 .. MaxConns] /\ sessions \in [Fds -> 0 .. MaxConns]
            /\ MaxConns \in Nat /\ 0 \in 0 .. MaxConns
        <5>1. fd[t] \in Fds
          BY <1>15 DEF CloseFd, ControlInv
        <5>2. MaxConns \in Nat
          OBVIOUS
        <5> QED BY <5>1, <5>2, <1>15 DEF TypeOK
      <4> QED BY <4>1, <1>15 DEF CloseFd
    <3> QED BY <3>1, <3>2, <3>3, <3>4, <3>5 DEF TypeOK
  <2>2. ControlInv'
    BY <1>15 DEF CloseFd, Idle, TypeOK, ControlInv, Locations
  <2>3. FilledInv'
    BY <1>15 DEF CloseFd, Idle, TypeOK, ControlInv, FilledInv
  <2> QED BY <2>1, <2>2, <2>3
<1>16. ASSUME NEW t \in Threads, ReturnMessage(t)
      PROVE  TypeInv'
  <2>0. idleList \in Seq(Msgs) /\ held[t] \in Msgs
    BY <1>16 DEF ReturnMessage, TypeOK, ControlInv
  <2>a. /\ Append(idleList, held[t]) \in Seq(Msgs)
        /\ Range(Append(idleList, held[t])) = Range(idleList) \cup {held[t]}
    BY <2>0, AppendFacts
  <2>1. TypeOK'
    BY <1>16, <2>a DEF ReturnMessage, Idle, TypeOK, ControlInv, FilledInv, Locations, Conns
  <2>2. ControlInv'
    BY <1>16, <2>a DEF ReturnMessage, Idle, TypeOK, ControlInv, Locations
  <2>3. FilledInv'
    BY <1>16, <2>a DEF ReturnMessage, Idle, TypeOK, ControlInv, FilledInv
  <2> QED BY <2>1, <2>2, <2>3
<1>17. ASSUME NEW h \in Handlers, HandlePop(h)
      PROVE  TypeInv'
  <2>0. handleList \in Seq(Msgs) /\ handleList # <<>>
    BY <1>17 DEF HandlePop, TypeOK
  <2>a. /\ Head(handleList) \in Msgs /\ Tail(handleList) \in Seq(Msgs)
        /\ Head(handleList) \in Range(handleList) /\ Range(Tail(handleList)) \subseteq Range(handleList)
    BY <2>0, HeadTailFacts
  <2>1. TypeOK'
    BY <1>17, <2>a DEF HandlePop, TypeOK, ControlInv, FilledInv, Locations, Conns
  <2>2. ControlInv'
    BY <1>17, <2>a DEF HandlePop, TypeOK, ControlInv, Locations
  <2>3. FilledInv'
    BY <1>17, <2>a DEF HandlePop, TypeOK, ControlInv, FilledInv
  <2> QED BY <2>1, <2>2, <2>3
<1>18. ASSUME NEW h \in Handlers, ForwardPacket(h)
      PROVE  TypeInv'
  <2>1. TypeOK'
    BY <1>18 DEF ForwardPacket, TypeOK, ControlInv, FilledInv, Locations, Conns
  <2>2. ControlInv'
    BY <1>18 DEF ForwardPacket, TypeOK, ControlInv, Locations
  <2>3. FilledInv'
    BY <1>18 DEF ForwardPacket, TypeOK, ControlInv, FilledInv
  <2> QED BY <2>1, <2>2, <2>3
<1>19. ASSUME NEW h \in Handlers, RejectPacket(h)
      PROVE  TypeInv'
  <2>1. TypeOK'
    BY <1>19 DEF RejectPacket, Disconnect, TypeOK, ControlInv, FilledInv, Locations, Conns
  <2>2. ControlInv'
    BY <1>19 DEF RejectPacket, Disconnect, TypeOK, ControlInv, Locations
  <2>3. FilledInv'
    BY <1>19 DEF RejectPacket, Disconnect, TypeOK, ControlInv, FilledInv
  <2> QED BY <2>1, <2>2, <2>3
<1>20. ASSUME NEW h \in Handlers, HandleDone(h)
      PROVE  TypeInv'
  <2>1. TypeOK'
    <3>1. /\ (idleList \in Seq(Msgs))' /\ (handleList \in Seq(Msgs))' /\ (sendList \in Seq(Msgs))'
            /\ (reply \in Msgs \cup {NoMsg})' /\ (nconn \in 0 .. MaxConns)'
            /\ (closedConns \subseteq Conns)' /\ (races \subseteq {"lateSend", "recycledRead"})'
      BY <1>20 DEF HandleDone, CloseSocketIfNeed, LastMessage, TypeOK, ControlInv, FilledInv, Locations, Conns
    <3>2. /\ (msgFd \in [Msgs -> Fds \cup {NoFd}])'
            /\ (msgSeq \in [Msgs -> Nat])' /\ (msgConn \in [Msgs -> 0 .. MaxConns])'
      BY <1>20 DEF HandleDone, CloseSocketIfNeed, LastMessage, TypeOK, ControlInv, FilledInv, Locations, Conns
    <3>3. /\ (watcherList \in Nat)' /\ (watching \in [Fds -> Nat])'
            /\ (handlingCount \in [Fds -> Int])' /\ (closeRecv \in [Fds -> BOOLEAN])'
            /\ (seqRecv \in [Fds -> 0 .. MaxSeq])'
      <4>1. /\ watcherList \in Nat /\ watching \in [Fds -> Nat] /\ msgFd[held[h]] \in Fds
            /\ handlingCount \in [Fds -> Int] /\ closeRecv \in [Fds -> BOOLEAN]
            /\ seqRecv \in [Fds -> 0 .. MaxSeq]
        BY <1>20 DEF HandleDone, TypeOK, ControlInv, FilledInv
      <4>2. handlingCount[msgFd[held[h]]] - 1 \in Int
        BY <4>1
      <4>3. (handlingCount \in [Fds -> Int])'
        BY <4>1, <4>2, <1>20 DEF HandleDone, CloseSocketIfNeed
      <4> QED BY <4>1, <4>3, <1>20 DEF HandleDone
    <3>4. /\ (pc \in [Threads -> Locations])' /\ (fd \in [Threads -> Fds \cup {NoFd}])'
            /\ (held \in [Threads -> Msgs \cup {NoMsg}])'
      BY <1>20 DEF HandleDone, CloseSocketIfNeed, LastMessage, TypeOK, ControlInv, FilledInv, Locations, Conns
    <3>5. /\ (clients \in [Fds -> 0 .. MaxConns])' /\ (sessions \in [Fds -> 0 .. MaxConns])'
            /\ (conn \in [Fds -> 0 .. MaxConns])' /\ (hup \in [Fds -> BOOLEAN])'
      BY <1>20 DEF HandleDone, CloseSocketIfNeed, LastMessage, TypeOK, ControlInv, FilledInv, Locations, Conns
    <3> QED BY <3>1, <3>2, <3>3, <3>4, <3>5 DEF TypeOK
  <2>2. ControlInv'
    <3>1. /\ msgFd[held[h]] \in Fds /\ fd \in [Threads -> Fds \cup {NoFd}]
          /\ pc \in [Threads -> Locations] /\ h \in Threads \ {"main", "send"}
      BY <1>20 DEF HandleDone, TypeOK, ControlInv, FilledInv
    <3>2. /\ fd' = [fd EXCEPT ![h] = msgFd[held[h]]] /\ UNCHANGED held
          /\ \/ pc' = [pc EXCEPT ![h] = "onclose"]
             \/ pc' = [pc EXCEPT ![h] = "return"]
          /\ pc[h] = "dec"
      BY <1>20 DEF HandleDone, CloseSocketIfNeed
    <3>3. /\ \A t \in Threads \ {h} : pc'[t] = pc[t] /\ fd'[t] = fd[t]
          /\ pc'[h] \in {"onclose", "return"} /\ fd'[h] \in Fds
      BY <3>1, <3>2
    <3> QED BY <3>1, <3>2, <3>3 DEF ControlInv
  <2>3. FilledInv'
    BY <1>20 DEF HandleDone, CloseSocketIfNeed, LastMessage, TypeOK, ControlInv, FilledInv
  <2> QED BY <2>1, <2>2, <2>3
<1>21. ASSUME NEW f \in Fds, SendMessageByQueue(f)
      PROVE  TypeInv'
  <2>0. idleList \in Seq(Msgs) /\ idleList # <<>>
    BY <1>21 DEF SendMessageByQueue, TypeOK
  <2>a. /\ Head(idleList) \in Msgs /\ Tail(idleList) \in Seq(Msgs)
        /\ Head(idleList) \in Range(idleList) /\ Range(Tail(idleList)) \subseteq Range(idleList)
    BY <2>0, HeadTailFacts
  <2>1. TypeOK'
    <3>1. /\ (idleList \in Seq(Msgs))' /\ (handleList \in Seq(Msgs))' /\ (sendList \in Seq(Msgs))'
            /\ (reply \in Msgs \cup {NoMsg})' /\ (nconn \in 0 .. MaxConns)'
            /\ (closedConns \subseteq Conns)' /\ (races \subseteq {"lateSend", "recycledRead"})'
      BY <1>21, <2>a DEF SendMessageByQueue, Count, TypeOK, ControlInv, FilledInv, Locations, Conns
    <3>2. /\ (msgFd \in [Msgs -> Fds \cup {NoFd}])'
            /\ (msgSeq \in [Msgs -> Nat])' /\ (msgConn \in [Msgs -> 0 .. MaxConns])'
      BY <1>21, <2>a DEF SendMessageByQueue, Count, TypeOK, ControlInv, FilledInv, Locations, Conns
    <3>3. /\ (watcherList \in Nat)' /\ (watching \in [Fds -> Nat])'
            /\ (handlingCount \in [Fds -> Int])' /\ (closeRecv \in [Fds -> BOOLEAN])'
            /\ (seqRecv \in [Fds -> 0 .. MaxSeq])'
      <4>1. /\ watcherList \in Nat /\ watching \in [Fds -> Nat] /\ f \in Fds
            /\ handlingCount \in [Fds -> Int] /\ closeRecv \in [Fds -> BOOLEAN]
            /\ seqRecv \in [Fds -> 0 .. MaxSeq]
        BY <1>21 DEF SendMessageByQueue, TypeOK, ControlInv, FilledInv
      <4>2. handlingCount[f] + 1 \in Int
        BY <4>1
      <4>3. (handlingCount \in [Fds -> Int])'
        BY <4>1, <4>2, <1>21 DEF SendMessageByQueue, Count
      <4> QED BY <4>1, <4>3, <1>21 DEF SendMessageByQueue
    <3>4. /\ (pc \in [Threads -> Locations])' /\ (fd \in [Threads -> Fds \cup {NoFd}])'
            /\ (held \in [Threads -> Msgs \cup {NoMsg}])'
      BY <1>21, <2>a DEF SendMessageByQueue, Count, TypeOK, ControlInv, FilledInv, Locations, Conns
    <3>5. /\ (clients \in [Fds -> 0 .. MaxConns])' /\ (sessions \in [Fds -> 0 .. MaxConns])'
            /\ (conn \in [Fds -> 0 .. MaxConns])' /\ (hup \in [Fds -> BOOLEAN])'
      BY <1>21, <2>a DEF SendMessageByQueue, Count, TypeOK, ControlInv, FilledInv, Locations, Conns
    <3> QED BY <3>1, <3>2, <3>3, <3>4, <3>5 DEF TypeOK
  <2>2. ControlInv'
    BY <1>21, <2>a DEF SendMessageByQueue, Count, TypeOK, ControlInv, Locations
  <2>3. FilledInv'
    <3>1. /\ msgFd \in [Msgs -> Fds \cup {NoFd}]
          /\ held \in [Threads -> Msgs \cup {NoMsg}] /\ reply \in Msgs \cup {NoMsg}
          /\ Range(handleList) \cup Range(sendList) \subseteq Msgs
      BY RangeOfMsgs DEF TypeOK
    <3>2. \A m \in Msgs : msgFd[m] \in Fds => msgFd'[m] \in Fds
      BY <1>21, <2>a, <3>1 DEF SendMessageByQueue
    <3>3. reply' = Head(idleList) /\ msgFd'[Head(idleList)] \in Fds
      BY <1>21, <2>a, <3>1 DEF SendMessageByQueue
    <3>4. UNCHANGED <<handleList, sendList, held>>
      BY <1>21 DEF SendMessageByQueue
    <3> QED BY <3>1, <3>2, <3>3, <3>4 DEF FilledInv
  <2> QED BY <2>1, <2>2, <2>3
<1>22. CASE SendMessagePush
  <2>0. sendList \in Seq(Msgs) /\ reply \in Msgs
    BY <1>22 DEF SendMessagePush, TypeOK, ControlInv
  <2>a. /\ Append(sendList, reply) \in Seq(Msgs)
        /\ Range(Append(sendList, reply)) = Range(sendList) \cup {reply}
    BY <2>0, AppendFacts
  <2>1. TypeOK'
    BY <1>22, <2>a DEF SendMessagePush, TypeOK, ControlInv, FilledInv, Locations, Conns
  <2>2. ControlInv'
    BY <1>22, <2>a DEF SendMessagePush, TypeOK, ControlInv, Locations
  <2>3. FilledInv'
    BY <1>22, <2>a DEF SendMessagePush, TypeOK, ControlInv, FilledInv
  <2> QED BY <2>1, <2>2, <2>3
<1>23. CASE SendPop
  <2>0. sendList \in Seq(Msgs) /\ sendList # <<>>
    BY <1>23 DEF SendPop, TypeOK
  <2>a. /\ Head(sendList) \in Msgs /\ Tail(sendList) \in Seq(Msgs)
        /\ Head(sendList) \in Range(sendList) /\ Range(Tail(sendList)) \subseteq Range(sendList)
    BY <2>0, HeadTailFacts
  <2>1. TypeOK'
    BY <1>23, <2>a DEF SendPop, TypeOK, ControlInv, FilledInv, Locations, Conns
  <2>2. ControlInv'
    <3>1. /\ fd \in [Threads -> Fds \cup {NoFd}] /\ held \in [Threads -> Msgs \cup {NoMsg}]
          /\ pc \in [Threads -> Locations] /\ msgFd[Head(sendList)] \in Fds
      BY <2>a DEF TypeOK, FilledInv
    <3>2. /\ pc'["send"] = "send" /\ held'["send"] # NoMsg /\ fd'["send"] \in Fds
          /\ \A t \in Threads \ {"send"} : pc'[t] = pc[t] /\ fd'[t] = fd[t] /\ held'[t] = held[t]
      BY <1>23, <2>a, <3>1 DEF SendPop
    <3> QED BY <3>1, <3>2 DEF ControlInv
  <2>3. FilledInv'
    BY <1>23, <2>a DEF SendPop, TypeOK, ControlInv, FilledInv
  <2> QED BY <2>1, <2>2, <2>3
<1>24. CASE SendMessageImmediately
  <2>0. idleList \in Seq(Msgs) /\ held["send"] \in Msgs
    BY <1>24 DEF SendMessageImmediately, TypeOK, ControlInv
  <2>a. /\ Append(idleList, held["send"]) \in Seq(Msgs)
        /\ Range(Append(idleList, held["send"])) = Range(idleList) \cup {held["send"]}
    BY <2>0, AppendFacts
  <2>1. TypeOK'
    BY <1>24, <2>a DEF SendMessageImmediately, Disconnect, TypeOK, ControlInv, FilledInv, Locations, Conns
  <2>2. ControlInv'
    BY <1>24, <2>a DEF SendMessageImmediately, Disconnect, TypeOK, ControlInv, Locations
  <2>3. FilledInv'
    BY <1>24, <2>a DEF SendMessageImmediately, Disconnect, TypeOK, ControlInv, FilledInv
  <2> QED BY <2>1, <2>2, <2>3
<1>25. CASE SendDone
  <2>1. TypeOK'
    <3>1. /\ (idleList \in Seq(Msgs))' /\ (handleList \in Seq(Msgs))' /\ (sendList \in Seq(Msgs))'
            /\ (reply \in Msgs \cup {NoMsg})' /\ (nconn \in 0 .. MaxConns)'
            /\ (closedConns \subseteq Conns)' /\ (races \subseteq {"lateSend", "recycledRead"})'
      BY <1>25 DEF SendDone, CloseSocketIfNeed, LastMessage, TypeOK, ControlInv, FilledInv, Locations, Conns
    <3>2. /\ (msgFd \in [Msgs -> Fds \cup {NoFd}])'
            /\ (msgSeq \in [Msgs -> Nat])' /\ (msgConn \in [Msgs -> 0 .. MaxConns])'
      BY <1>25 DEF SendDone, CloseSocketIfNeed, LastMessage, TypeOK, ControlInv, FilledInv, Locations, Conns
    <3>3. /\ (watcherList \in Nat)' /\ (watching \in [Fds -> Nat])'
            /\ (handlingCount \in [Fds -> Int])' /\ (closeRecv \in [Fds -> BOOLEAN])'
            /\ (seqRecv \in [Fds -> 0 .. MaxSeq])'
      <4>1. /\ watcherList \in Nat /\ watching \in [Fds -> Nat] /\ msgFd[held["send"]] \in Fds
            /\ handlingCount \in [Fds -> Int] /\ closeRecv \in [Fds -> BOOLEAN]
            /\ seqRecv \in [Fds -> 0 .. MaxSeq]
        BY <1>25 DEF SendDone, TypeOK, ControlInv, FilledInv
      <4>2. handlingCount[msgFd[held["send"]]] - 1 \in Int
        BY <4>1
      <4>3. (handlingCount \in [Fds -> Int])'
        BY <4>1, <4>2, <1>25 DEF SendDone, CloseSocketIfNeed
      <4> QED BY <4>1, <4>3, <1>25 DEF SendDone
    <3>4. /\ (pc \in [Threads -> Locations])' /\ (fd \in [Threads -> Fds \cup {NoFd}])'
            /\ (held \in [Threads -> Msgs \cup {NoMsg}])'
      BY <1>25 DEF SendDone, CloseSocketIfNeed, LastMessage, TypeOK, ControlInv, FilledInv, Locations, Conns
    <3>5. /\ (clients \in [Fds -> 0 .. MaxConns])' /\ (sessions \in [Fds -> 0 .. MaxConns])'
            /\ (conn \in [Fds -> 0 .. MaxConns])' /\ (hup \in [Fds -> BOOLEAN])'
      BY <1>25 DEF SendDone, CloseSocketIfNeed, LastMessage, TypeOK, ControlInv, FilledInv, Locations, Conns
    <3> QED BY <3>1, <3>2, <3>3, <3>4, <3>5 DEF TypeOK
  <2>2. ControlInv'
    <3>1. /\ fd \in [Threads -> Fds \cup {NoFd}] /\ held \in [Threads -> Msgs \cup {NoMsg}]
          /\ pc \in [Threads -> Locations] /\ msgFd[held["send"]] \in Fds
          /\ pc["send"] = "dec" /\ held["send"] # NoMsg
      BY <1>25 DEF SendDone, TypeOK, ControlInv, FilledInv
    <3>2. /\ fd'["send"] \in Fds
          /\ \A t \in Threads \ {"send"} : pc'[t] = pc[t] /\ fd'[t] = fd[t] /\ held'[t] = held[t]
      BY <1>25, <3>1 DEF SendDone, CloseSocketIfNeed
    <3>3. pc'["send"] \in {"onclose", "idle"}
      BY <1>25, <3>1 DEF SendDone, CloseSocketIfNeed
    <3>4. pc'["send"] = "idle" <=> held'["send"] = NoMsg
      BY <1>25, <3>1, <3>3 DEF SendDone
    <3> QED BY <3>1, <3>2, <3>3, <3>4 DEF ControlInv
  <2>3. FilledInv'
    BY <1>25 DEF SendDone, CloseSocketIfNeed, LastMessage, TypeOK, ControlInv, FilledInv
  <2> QED BY <2>1, <2>2, <2>3
<1>26. CASE UNCHANGED vars
  BY <1>26 DEF vars, TypeOK, ControlInv, FilledInv
<1> QED
  BY <1>1, <1>2, <1>3, <1>4, <1>5, <1>6, <1>7, <1>8, <1>9, <1>10, <1>11, <1>12, <1>13, <1>14,
     <1>15, <1>16, <1>17, <1>18, <1>19, <1>20, <1>21, <1>22, <1>23, <1>24, <1>25, <1>26
     DEF Next, Terminating

LEMMA TypeAlways == Spec => []TypeInv
<1> QED BY TypeInit, TypeStep, PTL DEF Spec

(***************************************************************************)
(* Every variable keeps its type, whatever the network, the handlers and   *)
(* the replies do: in particular no thread of TcpServer.cpp indexes its    *)
(* tables with a descriptor it does not have, or uses a message it does    *)
(* not hold.                                                               *)
(***************************************************************************)
THEOREM TypeCorrect == Spec => []TypeOK
<1> QED BY TypeAlways, PTL DEF TypeInv

-----------------------------------------------------------------------------
(***************************************************************************)
(* The ownership of messages.                                              *)
(***************************************************************************)

\* A step that moves no message keeps the partition of the messages.
LEMMA NothingMoves ==
    ASSUME MessagesConserved, UNCHANGED <<queues, reply>>,
           \A t \in Threads : Owned(t)' = Owned(t)
    PROVE  MessagesConserved'
<1>1. InHand' = InHand /\ InReply' = InReply
  BY DEF InHand, InReply, Threads
<1> QED BY <1>1 DEF MessagesConserved, queues, Threads

\* Start hands every message to the idle list.
LEMMA MessagesInit == Init => MessagesConserved
<1> SUFFICES ASSUME Init PROVE MessagesConserved
  OBVIOUS
<1> USE TcpServerAssumption
<1>1. /\ Cardinality(Msgs) \in Nat
      /\ idleList \in Bijection(1 .. Cardinality(Msgs), Msgs)
  BY FS_CardinalityType DEF Init
<1>2. IsInjective(idleList) /\ Range(idleList) = Msgs
  <2>1. /\ idleList \in [1 .. Cardinality(Msgs) -> Msgs]
        /\ IsInjective(idleList)
        /\ \A m \in Msgs : \E i \in 1 .. Cardinality(Msgs) : idleList[i] = m
    BY <1>1 DEF Bijection, Injection, Surjection
  <2> QED BY <2>1 DEF Range
<1>3. Range(<<>>) = {} /\ IsInjective(<<>>)
  BY DEF Range, IsInjective
<1>4. InReply = {} /\ \A t \in Threads : Owned(t) = {}
  BY DEF Init, InReply, Owned
<1>5. InHand = {}
  BY <1>4 DEF InHand
<1> QED BY <1>2, <1>3, <1>4, <1>5 DEF MessagesConserved, Init

\* One step per action: it moves at most one message from one place to another.
LEMMA MessagesStep == TypeInv /\ MessagesConserved /\ [Next]_vars => MessagesConserved'
<1> SUFFICES ASSUME TypeInv, MessagesConserved, [Next]_vars PROVE MessagesConserved'
  OBVIOUS
<1> USE TcpServerAssumption DEF queues, msgs, evio, tables, threads, service, kernel, ghosts,
        TypeInv, Threads, At, Goto
<1>1. ASSUME NEW f \in Fds, PeerClose(f)
      PROVE  MessagesConserved'
  <2>1. UNCHANGED <<queues, reply>>
    BY <1>1 DEF PeerClose
  <2>2. \A u \in Threads : Owned(u)' = Owned(u)
    BY <1>1 DEF PeerClose, Disconnect, TypeOK, ControlInv, Owned
  <2> QED BY <2>1, <2>2, NothingMoves
<1>2. ASSUME NEW f \in Fds, Accept_Callback(f)
      PROVE  MessagesConserved'
  <2>1. UNCHANGED <<queues, reply>>
    BY <1>2 DEF Accept_Callback
  <2>2. \A u \in Threads : Owned(u)' = Owned(u)
    BY <1>2 DEF Accept_Callback, TypeOK, ControlInv, Owned
  <2> QED BY <2>1, <2>2, NothingMoves
<1>3. ASSUME NEW f \in Fds, Recv_Callback(f)
      PROVE  MessagesConserved'
  <2>1. UNCHANGED <<queues, reply>>
    BY <1>3 DEF Recv_Callback
  <2>2. \A u \in Threads : Owned(u)' = Owned(u)
    BY <1>3 DEF Recv_Callback, TypeOK, ControlInv, Owned
  <2> QED BY <2>1, <2>2, NothingMoves
<1>4. CASE OnAcceptTrue
  <2>1. UNCHANGED <<queues, reply>>
    BY <1>4 DEF OnAcceptTrue
  <2>2. \A u \in Threads : Owned(u)' = Owned(u)
    BY <1>4 DEF OnAcceptTrue, Disconnect, TypeOK, ControlInv, Owned
  <2> QED BY <2>1, <2>2, NothingMoves
<1>5. CASE OnAcceptFalse
  <2>1. UNCHANGED <<queues, reply>>
    BY <1>5 DEF OnAcceptFalse
  <2>2. \A u \in Threads : Owned(u)' = Owned(u)
    BY <1>5 DEF OnAcceptFalse, Disconnect, TypeOK, ControlInv, Owned
  <2> QED BY <2>1, <2>2, NothingMoves
<1>6. CASE RecvPopIdle
  <2>1. idleList \in Seq(Msgs) /\ idleList # <<>> /\ IsInjective(idleList)
    BY <1>6 DEF RecvPopIdle, TypeOK, MessagesConserved
  <2>2. /\ Head(idleList) \in Msgs /\ Range(idleList) = Range(Tail(idleList)) \cup {Head(idleList)}
        /\ IsInjective(Tail(idleList)) /\ Head(idleList) \notin Range(Tail(idleList))
    BY <2>1, HeadTailFacts
  <2>3. idleList' = Tail(idleList) /\ UNCHANGED <<handleList, sendList>>
    BY <1>6 DEF RecvPopIdle
  <2>5. /\ Owned("main") = {} /\ Owned("main")' = {Head(idleList)}
        /\ \A u \in Threads \ {"main"} : Owned(u)' = Owned(u)
        /\ InReply' = InReply
    BY <1>6, <2>1, <2>2 DEF RecvPopIdle, TypeOK, ControlInv, Owned, InReply
  <2>6. InHand' = InHand \cup {Head(idleList)}
    BY <2>5 DEF InHand
  <2>7. \A u, v \in Threads : u # v => (Owned(u) \cap Owned(v))' = {}
    <3>1. \A u \in Threads : Head(idleList) \notin Owned(u)
      BY <2>2 DEF MessagesConserved, InHand
    <3> QED BY <2>5, <3>1 DEF MessagesConserved
  <2> QED BY <2>1, <2>2, <2>3, <2>5, <2>6, <2>7 DEF MessagesConserved
<1>7. CASE RecvPush
  <2>1. handleList \in Seq(Msgs) /\ held["main"] \in Msgs /\ Owned("main") = {held["main"]}
    BY <1>7 DEF RecvPush, TypeOK, ControlInv, Owned
  <2>2. held["main"] \notin Range(handleList) /\ IsInjective(handleList)
    BY <2>1 DEF MessagesConserved, InHand
  <2>3. /\ Range(Append(handleList, held["main"])) = Range(handleList) \cup {held["main"]}
        /\ IsInjective(Append(handleList, held["main"]))
    BY <2>1, <2>2, AppendFacts
  <2>4. handleList' = Append(handleList, held["main"]) /\ UNCHANGED <<idleList, sendList>>
    BY <1>7 DEF RecvPush
  <2>5. /\ Owned("main") = {held["main"]} /\ Owned("main")' = {}
        /\ \A u \in Threads \ {"main"} : Owned(u)' = Owned(u)
        /\ InReply' = InReply
    BY <1>7, <2>1, <2>2 DEF RecvPush, MoreOrReturn, TypeOK, ControlInv, Owned, InReply
  <2>6. InHand = InHand' \cup {held["main"]} /\ held["main"] \notin InHand'
    <3>1. \A u \in Threads \ {"main"} : held["main"] \notin Owned(u)
      BY <2>5, <1>7 DEF MessagesConserved
    <3> QED BY <2>5, <3>1, <1>7 DEF InHand
  <2>7. \A u, v \in Threads : u # v => (Owned(u) \cap Owned(v))' = {}
    BY <2>5 DEF MessagesConserved
  <2> QED BY <2>1, <2>2, <2>3, <2>4, <2>5, <2>6, <2>7 DEF MessagesConserved
<1>8. CASE RecvEnd
  <2>1. UNCHANGED <<queues, reply>>
    BY <1>8 DEF RecvEnd
  <2>2. \A u \in Threads : Owned(u)' = Owned(u)
    BY <1>8 DEF RecvEnd, TypeOK, ControlInv, Owned
  <2> QED BY <2>1, <2>2, NothingMoves
<1>9. CASE RecvAgain
  <2>1. UNCHANGED <<queues, reply>>
    BY <1>9 DEF RecvAgain
  <2>2. \A u \in Threads : Owned(u)' = Owned(u)
    BY <1>9 DEF RecvAgain, TypeOK, ControlInv, Owned
  <2> QED BY <2>1, <2>2, NothingMoves
<1>10. ASSUME NEW full \in BOOLEAN, RecvOverLimit(full)
      PROVE  MessagesConserved'
  <2>1. idleList \in Seq(Msgs) /\ held["main"] \in Msgs /\ Owned("main") = {held["main"]}
    BY <1>10 DEF RecvOverLimit, TypeOK, ControlInv, Owned
  <2>2. held["main"] \notin Range(idleList) /\ IsInjective(idleList)
    BY <2>1 DEF MessagesConserved, InHand
  <2>3. /\ Range(Append(idleList, held["main"])) = Range(idleList) \cup {held["main"]}
        /\ IsInjective(Append(idleList, held["main"]))
    BY <2>1, <2>2, AppendFacts
  <2>4. idleList' = Append(idleList, held["main"]) /\ UNCHANGED <<handleList, sendList>>
    BY <1>10 DEF RecvOverLimit
  <2>5. /\ Owned("main") = {held["main"]} /\ Owned("main")' = {}
        /\ \A u \in Threads \ {"main"} : Owned(u)' = Owned(u)
        /\ InReply' = InReply
    BY <1>10, <2>1, <2>2 DEF RecvOverLimit, MoreOrReturn, Disconnect, TypeOK, ControlInv, Owned, InReply
  <2>6. InHand = InHand' \cup {held["main"]} /\ held["main"] \notin InHand'
    <3>1. \A u \in Threads \ {"main"} : held["main"] \notin Owned(u)
      BY <2>5, <1>10 DEF MessagesConserved
    <3> QED BY <2>5, <3>1, <1>10 DEF InHand
  <2>7. \A u, v \in Threads : u # v => (Owned(u) \cap Owned(v))' = {}
    BY <2>5 DEF MessagesConserved
  <2> QED BY <2>1, <2>2, <2>3, <2>4, <2>5, <2>6, <2>7 DEF MessagesConserved
<1>11. ASSUME NEW full \in BOOLEAN, RecvPacket(full)
      PROVE  MessagesConserved'
  <2>1. UNCHANGED <<queues, reply>>
    BY <1>11 DEF RecvPacket
  <2>2. \A u \in Threads : Owned(u)' = Owned(u)
    BY <1>11 DEF RecvPacket, MoreOrReturn, Count, TypeOK, ControlInv, Owned
  <2> QED BY <2>1, <2>2, NothingMoves
<1>12. CASE OnDisconnect
  <2>1. UNCHANGED <<queues, reply>>
    BY <1>12 DEF OnDisconnect
  <2>2. \A u \in Threads : Owned(u)' = Owned(u)
    BY <1>12 DEF OnDisconnect, StopsEvio, StopEvio, TypeOK, ControlInv, Owned
  <2> QED BY <2>1, <2>2, NothingMoves
<1>13. CASE DecideClose
  <2>1. UNCHANGED <<queues, reply>>
    BY <1>13 DEF DecideClose
  <2>2. \A u \in Threads : Owned(u)' = Owned(u)
    BY <1>13 DEF DecideClose, Finish, Idle, TypeOK, ControlInv, Owned
  <2> QED BY <2>1, <2>2, NothingMoves
<1>14. ASSUME NEW t \in Threads, OnClose(t)
      PROVE  MessagesConserved'
  <2>1. UNCHANGED <<queues, reply>>
    BY <1>14 DEF OnClose
  <2>2. \A u \in Threads : Owned(u)' = Owned(u)
    BY <1>14 DEF OnClose, TypeOK, ControlInv, Owned
  <2> QED BY <2>1, <2>2, NothingMoves
<1>15. ASSUME NEW t \in Threads, CloseFd(t)
      PROVE  MessagesConserved'
  <2>1. UNCHANGED <<queues, reply>>
    BY <1>15 DEF CloseFd
  <2>2. \A u \in Threads : Owned(u)' = Owned(u)
    BY <1>15 DEF CloseFd, Idle, TypeOK, ControlInv, Owned
  <2> QED BY <2>1, <2>2, NothingMoves
<1>16. ASSUME NEW t \in Threads, ReturnMessage(t)
      PROVE  MessagesConserved'
  <2>1. idleList \in Seq(Msgs) /\ held[t] \in Msgs /\ Owned(t) = {held[t]}
    BY <1>16 DEF ReturnMessage, TypeOK, ControlInv, Owned
  <2>2. held[t] \notin Range(idleList) /\ IsInjective(idleList)
    BY <2>1 DEF MessagesConserved, InHand
  <2>3. /\ Range(Append(idleList, held[t])) = Range(idleList) \cup {held[t]}
        /\ IsInjective(Append(idleList, held[t]))
    BY <2>1, <2>2, AppendFacts
  <2>4. idleList' = Append(idleList, held[t]) /\ UNCHANGED <<handleList, sendList>>
    BY <1>16 DEF ReturnMessage
  <2>5. /\ Owned(t) = {held[t]} /\ Owned(t)' = {}
        /\ \A u \in Threads \ {t} : Owned(u)' = Owned(u)
        /\ InReply' = InReply
    BY <1>16, <2>1, <2>2 DEF ReturnMessage, Idle, TypeOK, ControlInv, Owned, InReply
  <2>6. InHand = InHand' \cup {held[t]} /\ held[t] \notin InHand'
    <3>1. \A u \in Threads \ {t} : held[t] \notin Owned(u)
      BY <2>5, <1>16 DEF MessagesConserved
    <3> QED BY <2>5, <3>1, <1>16 DEF InHand
  <2>7. \A u, v \in Threads : u # v => (Owned(u) \cap Owned(v))' = {}
    BY <2>5 DEF MessagesConserved
  <2> QED BY <2>1, <2>2, <2>3, <2>4, <2>5, <2>6, <2>7 DEF MessagesConserved
<1>17. ASSUME NEW h \in Handlers, HandlePop(h)
      PROVE  MessagesConserved'
  <2>1. handleList \in Seq(Msgs) /\ handleList # <<>> /\ IsInjective(handleList)
    BY <1>17 DEF HandlePop, TypeOK, MessagesConserved
  <2>2. /\ Head(handleList) \in Msgs /\ Range(handleList) = Range(Tail(handleList)) \cup {Head(handleList)}
        /\ IsInjective(Tail(handleList)) /\ Head(handleList) \notin Range(Tail(handleList))
    BY <2>1, HeadTailFacts
  <2>3. handleList' = Tail(handleList) /\ UNCHANGED <<idleList, sendList>>
    BY <1>17 DEF HandlePop
  <2>5. /\ Owned(h) = {} /\ Owned(h)' = {Head(handleList)}
        /\ \A u \in Threads \ {h} : Owned(u)' = Owned(u)
        /\ InReply' = InReply
    BY <1>17, <2>1, <2>2 DEF HandlePop, TypeOK, ControlInv, Owned, InReply
  <2>6. InHand' = InHand \cup {Head(handleList)}
    BY <2>5 DEF InHand
  <2>7. \A u, v \in Threads : u # v => (Owned(u) \cap Owned(v))' = {}
    <3>1. \A u \in Threads : Head(handleList) \notin Owned(u)
      BY <2>2 DEF MessagesConserved, InHand
    <3> QED BY <2>5, <3>1 DEF MessagesConserved
  <2> QED BY <2>1, <2>2, <2>3, <2>5, <2>6, <2>7 DEF MessagesConserved
<1>18. ASSUME NEW h \in Handlers, ForwardPacket(h)
      PROVE  MessagesConserved'
  <2>1. UNCHANGED <<queues, reply>>
    BY <1>18 DEF ForwardPacket
  <2>2. \A u \in Threads : Owned(u)' = Owned(u)
    BY <1>18 DEF ForwardPacket, TypeOK, ControlInv, Owned
  <2> QED BY <2>1, <2>2, NothingMoves
<1>19. ASSUME NEW h \in Handlers, RejectPacket(h)
      PROVE  MessagesConserved'
  <2>1. UNCHANGED <<queues, reply>>
    BY <1>19 DEF RejectPacket
  <2>2. \A u \in Threads : Owned(u)' = Owned(u)
    BY <1>19 DEF RejectPacket, Disconnect, TypeOK, ControlInv, Owned
  <2> QED BY <2>1, <2>2, NothingMoves
<1>20. ASSUME NEW h \in Handlers, HandleDone(h)
      PROVE  MessagesConserved'
  <2>1. UNCHANGED <<queues, reply>>
    BY <1>20 DEF HandleDone
  <2>2. \A u \in Threads : Owned(u)' = Owned(u)
    BY <1>20 DEF HandleDone, CloseSocketIfNeed, LastMessage, TypeOK, ControlInv, Owned
  <2> QED BY <2>1, <2>2, NothingMoves
<1>21. ASSUME NEW f \in Fds, SendMessageByQueue(f)
      PROVE  MessagesConserved'
  <2>1. idleList \in Seq(Msgs) /\ idleList # <<>> /\ IsInjective(idleList)
    BY <1>21 DEF SendMessageByQueue, TypeOK, MessagesConserved
  <2>2. /\ Head(idleList) \in Msgs /\ Range(idleList) = Range(Tail(idleList)) \cup {Head(idleList)}
        /\ IsInjective(Tail(idleList)) /\ Head(idleList) \notin Range(Tail(idleList))
    BY <2>1, HeadTailFacts
  <2>3. idleList' = Tail(idleList) /\ UNCHANGED <<handleList, sendList>>
    BY <1>21 DEF SendMessageByQueue
  <2>5. /\ \A u \in Threads : Owned(u)' = Owned(u)
        /\ InReply = {} /\ InReply' = {Head(idleList)}
    BY <1>21, <2>1, <2>2 DEF SendMessageByQueue, Count, TypeOK, ControlInv, Owned, InReply
  <2>6. InHand' = InHand
    BY <2>5 DEF InHand
  <2>7. \A u, v \in Threads : u # v => (Owned(u) \cap Owned(v))' = {}
    BY <2>5 DEF MessagesConserved
  <2> QED BY <2>1, <2>2, <2>3, <2>5, <2>6, <2>7 DEF MessagesConserved
<1>22. CASE SendMessagePush
  <2>1. sendList \in Seq(Msgs) /\ reply \in Msgs /\ InReply = {reply}
    BY <1>22 DEF SendMessagePush, TypeOK, ControlInv, InReply
  <2>2. reply \notin Range(sendList) /\ IsInjective(sendList)
    BY <2>1 DEF MessagesConserved, InHand
  <2>3. /\ Range(Append(sendList, reply)) = Range(sendList) \cup {reply}
        /\ IsInjective(Append(sendList, reply))
    BY <2>1, <2>2, AppendFacts
  <2>4. sendList' = Append(sendList, reply) /\ UNCHANGED <<idleList, handleList>>
    BY <1>22 DEF SendMessagePush
  <2>5. /\ \A u \in Threads : Owned(u)' = Owned(u)
        /\ InReply = {reply} /\ InReply' = {}
    BY <1>22, <2>1, <2>2 DEF SendMessagePush, TypeOK, ControlInv, Owned, InReply
  <2>6. InHand' = InHand
    BY <2>5 DEF InHand
  <2>7. \A u, v \in Threads : u # v => (Owned(u) \cap Owned(v))' = {}
    BY <2>5 DEF MessagesConserved
  <2> QED BY <2>1, <2>2, <2>3, <2>4, <2>5, <2>6, <2>7 DEF MessagesConserved
<1>23. CASE SendPop
  <2>1. sendList \in Seq(Msgs) /\ sendList # <<>> /\ IsInjective(sendList)
    BY <1>23 DEF SendPop, TypeOK, MessagesConserved
  <2>2. /\ Head(sendList) \in Msgs /\ Range(sendList) = Range(Tail(sendList)) \cup {Head(sendList)}
        /\ IsInjective(Tail(sendList)) /\ Head(sendList) \notin Range(Tail(sendList))
    BY <2>1, HeadTailFacts
  <2>3. sendList' = Tail(sendList) /\ UNCHANGED <<idleList, handleList>>
    BY <1>23 DEF SendPop
  <2>5. /\ Owned("send") = {} /\ Owned("send")' = {Head(sendList)}
        /\ \A u \in Threads \ {"send"} : Owned(u)' = Owned(u)
        /\ InReply' = InReply
    BY <1>23, <2>1, <2>2 DEF SendPop, TypeOK, ControlInv, Owned, InReply
  <2>6. InHand' = InHand \cup {Head(sendList)}
    BY <2>5 DEF InHand
  <2>7. \A u, v \in Threads : u # v => (Owned(u) \cap Owned(v))' = {}
    <3>1. \A u \in Threads : Head(sendList) \notin Owned(u)
      BY <2>2 DEF MessagesConserved, InHand
    <3> QED BY <2>5, <3>1 DEF MessagesConserved
  <2> QED BY <2>1, <2>2, <2>3, <2>5, <2>6, <2>7 DEF MessagesConserved
<1>24. CASE SendMessageImmediately
  <2>1. idleList \in Seq(Msgs) /\ held["send"] \in Msgs /\ Owned("send") = {held["send"]}
    BY <1>24 DEF SendMessageImmediately, TypeOK, ControlInv, Owned
  <2>2. held["send"] \notin Range(idleList) /\ IsInjective(idleList)
    BY <2>1 DEF MessagesConserved, InHand
  <2>3. /\ Range(Append(idleList, held["send"])) = Range(idleList) \cup {held["send"]}
        /\ IsInjective(Append(idleList, held["send"]))
    BY <2>1, <2>2, AppendFacts
  <2>4. idleList' = Append(idleList, held["send"]) /\ UNCHANGED <<handleList, sendList>>
    BY <1>24 DEF SendMessageImmediately
  <2>5. /\ Owned("send") = {held["send"]} /\ Owned("send")' = {}
        /\ \A u \in Threads \ {"send"} : Owned(u)' = Owned(u)
        /\ InReply' = InReply
    BY <1>24, <2>1, <2>2 DEF SendMessageImmediately, Disconnect, TypeOK, ControlInv, Owned, InReply
  <2>6. InHand = InHand' \cup {held["send"]} /\ held["send"] \notin InHand'
    <3>1. \A u \in Threads \ {"send"} : held["send"] \notin Owned(u)
      BY <2>5, <1>24 DEF MessagesConserved
    <3> QED BY <2>5, <3>1, <1>24 DEF InHand
  <2>7. \A u, v \in Threads : u # v => (Owned(u) \cap Owned(v))' = {}
    BY <2>5 DEF MessagesConserved
  <2> QED BY <2>1, <2>2, <2>3, <2>4, <2>5, <2>6, <2>7 DEF MessagesConserved
<1>25. CASE SendDone
  <2>1. UNCHANGED <<queues, reply>>
    BY <1>25 DEF SendDone
  <2>2. \A u \in Threads : Owned(u)' = Owned(u)
    BY <1>25 DEF SendDone, CloseSocketIfNeed, LastMessage, TypeOK, ControlInv, Owned
  <2> QED BY <2>1, <2>2, NothingMoves
<1>26. CASE UNCHANGED vars
  BY <1>26, NothingMoves DEF vars, Owned
<1> QED
  BY <1>1, <1>2, <1>3, <1>4, <1>5, <1>6, <1>7, <1>8, <1>9, <1>10, <1>11, <1>12, <1>13, <1>14,
     <1>15, <1>16, <1>17, <1>18, <1>19, <1>20, <1>21, <1>22, <1>23, <1>24, <1>25, <1>26
     DEF Next, Terminating

(***************************************************************************)
(* Each Message object is in one list, or with one thread, whatever races  *)
(* the callbacks, the handlers and the replies run into.                   *)
(***************************************************************************)
THEOREM OwnershipCorrect == Spec => []MessagesConserved
<1>1. Init => TypeInv /\ MessagesConserved
  BY TypeInit, MessagesInit
<1>2. TypeInv /\ MessagesConserved /\ [Next]_vars => (TypeInv /\ MessagesConserved)'
  BY TypeStep, MessagesStep
<1> QED BY <1>1, <1>2, PTL DEF Spec

-----------------------------------------------------------------------------

-----------------------------------------------------------------------------
(***************************************************************************)
(* The messages that are counted, and how a step changes them.             *)
(***************************************************************************)
\* A thread whose message is counted owns it.
LEMMA BusyOwns ==
    ASSUME TypeInv, NEW t \in Threads, Busy(t)
    PROVE  held[t] \in Msgs /\ Owned(t) = {held[t]}
BY TcpServerAssumption DEF TypeInv, TypeOK, ControlInv, Busy, Owned, Threads

LEMMA CountedAreMsgs == TypeInv => Counted \subseteq Msgs
<1> SUFFICES ASSUME TypeInv PROVE Counted \subseteq Msgs
  OBVIOUS
<1>1. Range(handleList) \subseteq Msgs /\ Range(sendList) \subseteq Msgs /\ reply \in Msgs \cup {NoMsg}
  BY RangeOfMsgs DEF TypeInv, TypeOK
<1>2. \A t \in Threads : Busy(t) => held[t] \in Msgs
  BY BusyOwns
<1> QED BY <1>1, <1>2 DEF Counted

\* An idle message is not counted, nor is one of a thread that is not busy.
LEMMA CountedApart ==
    ASSUME TypeInv, MessagesConserved
    PROVE  /\ Range(idleList) \cap Counted = {}
           /\ \A t \in Threads : ~ Busy(t) => Owned(t) \cap Counted = {}
           /\ \A t \in Threads : Busy(t) =>
                 /\ held[t] \notin Range(handleList) \cup Range(sendList) /\ held[t] # reply
                 /\ \A u \in Threads \ {t} : Busy(u) => held[u] # held[t]
<1>1. \A t \in Threads : Busy(t) => held[t] \in Msgs /\ Owned(t) = {held[t]}
  BY BusyOwns
<1>2. \A t \in Threads : Owned(t) \subseteq InHand
  BY DEF InHand
<1>3. Range(idleList) \cap Counted = {}
  BY <1>1, <1>2 DEF Counted, MessagesConserved, InReply
<1>4. ASSUME NEW t \in Threads, ~ Busy(t)
      PROVE  Owned(t) \cap Counted = {}
  BY <1>1, <1>2, <1>4 DEF Counted, MessagesConserved, InReply
<1>5. ASSUME NEW t \in Threads, Busy(t)
      PROVE  /\ held[t] \notin Range(handleList) \cup Range(sendList) /\ held[t] # reply
             /\ \A u \in Threads \ {t} : Busy(u) => held[u] # held[t]
  <2>1. held[t] \in Owned(t) /\ held[t] \in InHand /\ held[t] # NoMsg
    BY <1>1, <1>2, <1>5, TcpServerAssumption
  <2> QED BY <1>1, <1>5, <2>1 DEF MessagesConserved, InReply
<1> QED BY <1>3, <1>4, <1>5

\* The steps that count no message and discount none.
Neutral ==
    \/ \E f \in Fds : PeerClose(f) \/ Accept_Callback(f) \/ Recv_Callback(f)
    \/ OnAcceptTrue \/ OnAcceptFalse
    \/ RecvPopIdle \/ RecvPush \/ RecvEnd \/ RecvAgain
    \/ \E full \in BOOLEAN : RecvOverLimit(full)
    \/ OnDisconnect \/ DecideClose
    \/ \E t \in Threads : OnClose(t) \/ CloseFd(t) \/ ReturnMessage(t)
    \/ \E h \in Handlers : HandlePop(h) \/ ForwardPacket(h) \/ RejectPacket(h)
    \/ SendMessagePush \/ SendPop
    \/ UNCHANGED vars

KeepsCounted ==
    /\ Counted' = Counted
    /\ \A m \in Counted : msgFd'[m] = msgFd[m] /\ msgConn'[m] = msgConn[m]
    /\ \A f \in Fds : SendOwes(f)' = SendOwes(f)

LEMMA CountedSame ==
    ASSUME UNCHANGED <<handleList, sendList, reply>>,
           \A t \in Threads : Busy(t)' = Busy(t) /\ (Busy(t) => held'[t] = held[t])
    PROVE  Counted' = Counted
<1>1. {held[t] : t \in {u \in Threads : Busy(u)}}'
         = {held[t] : t \in {u \in Threads : Busy(u)}}
  BY DEF Threads
<1> QED BY <1>1 DEF Counted

LEMMA NeutralStep ==
    ASSUME TypeInv, MessagesConserved, Neutral
    PROVE  KeepsCounted
<1> USE TcpServerAssumption DEF queues, msgs, evio, tables, threads, service, kernel, ghosts,
        TypeInv, Threads, At, Goto
<1>1. ASSUME NEW f \in Fds, PeerClose(f)
      PROVE  KeepsCounted
  <2>1. /\ UNCHANGED <<handleList, sendList, reply, msgFd, msgConn>>
        /\ \A u \in Threads : Busy(u)' = Busy(u) /\ (Busy(u) => held'[u] = held[u])
        /\ \A g \in Fds : SendOwes(g)' = SendOwes(g)
    BY <1>1 DEF PeerClose, Disconnect, TypeOK, ControlInv, Busy, SendOwes
  <2> QED BY <2>1, CountedSame DEF KeepsCounted
<1>2. ASSUME NEW f \in Fds, Accept_Callback(f)
      PROVE  KeepsCounted
  <2>1. /\ UNCHANGED <<handleList, sendList, reply, msgFd, msgConn>>
        /\ \A u \in Threads : Busy(u)' = Busy(u) /\ (Busy(u) => held'[u] = held[u])
        /\ \A g \in Fds : SendOwes(g)' = SendOwes(g)
    BY <1>2 DEF Accept_Callback, TypeOK, ControlInv, Busy, SendOwes
  <2> QED BY <2>1, CountedSame DEF KeepsCounted
<1>3. ASSUME NEW f \in Fds, Recv_Callback(f)
      PROVE  KeepsCounted
  <2>1. /\ UNCHANGED <<handleList, sendList, reply, msgFd, msgConn>>
        /\ \A u \in Threads : Busy(u)' = Busy(u) /\ (Busy(u) => held'[u] = held[u])
        /\ \A g \in Fds : SendOwes(g)' = SendOwes(g)
    BY <1>3 DEF Recv_Callback, TypeOK, ControlInv, Busy, SendOwes
  <2> QED BY <2>1, CountedSame DEF KeepsCounted
<1>4. CASE OnAcceptTrue
  <2>1. /\ UNCHANGED <<handleList, sendList, reply, msgFd, msgConn>>
        /\ \A u \in Threads : Busy(u)' = Busy(u) /\ (Busy(u) => held'[u] = held[u])
        /\ \A g \in Fds : SendOwes(g)' = SendOwes(g)
    BY <1>4 DEF OnAcceptTrue, Disconnect, TypeOK, ControlInv, Busy, SendOwes
  <2> QED BY <2>1, CountedSame DEF KeepsCounted
<1>5. CASE OnAcceptFalse
  <2>1. /\ UNCHANGED <<handleList, sendList, reply, msgFd, msgConn>>
        /\ \A u \in Threads : Busy(u)' = Busy(u) /\ (Busy(u) => held'[u] = held[u])
        /\ \A g \in Fds : SendOwes(g)' = SendOwes(g)
    BY <1>5 DEF OnAcceptFalse, Disconnect, TypeOK, ControlInv, Busy, SendOwes
  <2> QED BY <2>1, CountedSame DEF KeepsCounted
<1>6. CASE RecvEnd
  <2>1. /\ UNCHANGED <<handleList, sendList, reply, msgFd, msgConn>>
        /\ \A u \in Threads : Busy(u)' = Busy(u) /\ (Busy(u) => held'[u] = held[u])
        /\ \A g \in Fds : SendOwes(g)' = SendOwes(g)
    BY <1>6 DEF RecvEnd, TypeOK, ControlInv, Busy, SendOwes
  <2> QED BY <2>1, CountedSame DEF KeepsCounted
<1>7. CASE RecvAgain
  <2>1. /\ UNCHANGED <<handleList, sendList, reply, msgFd, msgConn>>
        /\ \A u \in Threads : Busy(u)' = Busy(u) /\ (Busy(u) => held'[u] = held[u])
        /\ \A g \in Fds : SendOwes(g)' = SendOwes(g)
    BY <1>7 DEF RecvAgain, TypeOK, ControlInv, Busy, SendOwes
  <2> QED BY <2>1, CountedSame DEF KeepsCounted
<1>8. ASSUME NEW full \in BOOLEAN, RecvOverLimit(full)
      PROVE  KeepsCounted
  <2>1. /\ UNCHANGED <<handleList, sendList, reply, msgFd, msgConn>>
        /\ \A u \in Threads : Busy(u)' = Busy(u) /\ (Busy(u) => held'[u] = held[u])
        /\ \A g \in Fds : SendOwes(g)' = SendOwes(g)
    BY <1>8 DEF RecvOverLimit, Disconnect, MoreOrReturn, TypeOK, ControlInv, Busy, SendOwes
  <2> QED BY <2>1, CountedSame DEF KeepsCounted
<1>9. CASE OnDisconnect
  <2>1. /\ UNCHANGED <<handleList, sendList, reply, msgFd, msgConn>>
        /\ \A u \in Threads : Busy(u)' = Busy(u) /\ (Busy(u) => held'[u] = held[u])
        /\ \A g \in Fds : SendOwes(g)' = SendOwes(g)
    BY <1>9 DEF OnDisconnect, StopEvio, StopsEvio, TypeOK, ControlInv, Busy, SendOwes
  <2> QED BY <2>1, CountedSame DEF KeepsCounted
<1>10. CASE DecideClose
  <2>1. /\ UNCHANGED <<handleList, sendList, reply, msgFd, msgConn>>
        /\ \A u \in Threads : Busy(u)' = Busy(u) /\ (Busy(u) => held'[u] = held[u])
        /\ \A g \in Fds : SendOwes(g)' = SendOwes(g)
    BY <1>10 DEF DecideClose, Finish, Idle, TypeOK, ControlInv, Busy, SendOwes
  <2> QED BY <2>1, CountedSame DEF KeepsCounted
<1>11. ASSUME NEW t \in Threads, OnClose(t)
      PROVE  KeepsCounted
  <2>1. /\ UNCHANGED <<handleList, sendList, reply, msgFd, msgConn>>
        /\ \A u \in Threads : Busy(u)' = Busy(u) /\ (Busy(u) => held'[u] = held[u])
        /\ \A g \in Fds : SendOwes(g)' = SendOwes(g)
    BY <1>11 DEF OnClose, TypeOK, ControlInv, Busy, SendOwes
  <2> QED BY <2>1, CountedSame DEF KeepsCounted
<1>12. ASSUME NEW t \in Threads, CloseFd(t)
      PROVE  KeepsCounted
  <2>1. /\ UNCHANGED <<handleList, sendList, reply, msgFd, msgConn>>
        /\ \A u \in Threads : Busy(u)' = Busy(u) /\ (Busy(u) => held'[u] = held[u])
        /\ \A g \in Fds : SendOwes(g)' = SendOwes(g)
    BY <1>12 DEF CloseFd, Idle, TypeOK, ControlInv, Busy, SendOwes
  <2> QED BY <2>1, CountedSame DEF KeepsCounted
<1>13. ASSUME NEW t \in Threads, ReturnMessage(t)
      PROVE  KeepsCounted
  <2>1. /\ UNCHANGED <<handleList, sendList, reply, msgFd, msgConn>>
        /\ \A u \in Threads : Busy(u)' = Busy(u) /\ (Busy(u) => held'[u] = held[u])
        /\ \A g \in Fds : SendOwes(g)' = SendOwes(g)
    BY <1>13 DEF ReturnMessage, Idle, TypeOK, ControlInv, Busy, SendOwes
  <2> QED BY <2>1, CountedSame DEF KeepsCounted
<1>14. ASSUME NEW h \in Handlers, ForwardPacket(h)
      PROVE  KeepsCounted
  <2>1. /\ UNCHANGED <<handleList, sendList, reply, msgFd, msgConn>>
        /\ \A u \in Threads : Busy(u)' = Busy(u) /\ (Busy(u) => held'[u] = held[u])
        /\ \A g \in Fds : SendOwes(g)' = SendOwes(g)
    BY <1>14 DEF ForwardPacket, TypeOK, ControlInv, Busy, SendOwes
  <2> QED BY <2>1, CountedSame DEF KeepsCounted
<1>15. ASSUME NEW h \in Handlers, RejectPacket(h)
      PROVE  KeepsCounted
  <2>1. /\ UNCHANGED <<handleList, sendList, reply, msgFd, msgConn>>
        /\ \A u \in Threads : Busy(u)' = Busy(u) /\ (Busy(u) => held'[u] = held[u])
        /\ \A g \in Fds : SendOwes(g)' = SendOwes(g)
    BY <1>15 DEF RejectPacket, Disconnect, TypeOK, ControlInv, Busy, SendOwes
  <2> QED BY <2>1, CountedSame DEF KeepsCounted
<1>16. CASE UNCHANGED vars
  <2>1. /\ UNCHANGED <<handleList, sendList, reply, msgFd, msgConn>>
        /\ \A u \in Threads : Busy(u)' = Busy(u) /\ (Busy(u) => held'[u] = held[u])
        /\ \A g \in Fds : SendOwes(g)' = SendOwes(g)
    BY <1>16 DEF vars, TypeOK, ControlInv, Busy, SendOwes
  <2> QED BY <2>1, CountedSame DEF KeepsCounted
<1>17. CASE RecvPopIdle
  <2>1. /\ UNCHANGED <<handleList, sendList, reply>>
        /\ \A u \in Threads : Busy(u)' = Busy(u) /\ (Busy(u) => held'[u] = held[u])
        /\ \A g \in Fds : SendOwes(g)' = SendOwes(g)
    BY <1>17 DEF RecvPopIdle, TypeOK, ControlInv, Busy, SendOwes
  <2>2. Head(idleList) \notin Counted
    <3>1. idleList \in Seq(Msgs) /\ idleList # <<>>
      BY <1>17 DEF RecvPopIdle, TypeOK
    <3>2. Head(idleList) \in Range(idleList)
      BY <3>1, HeadTailFacts
    <3> QED BY <3>2, CountedApart
  <2>3. \A m \in Counted : msgFd'[m] = msgFd[m] /\ msgConn'[m] = msgConn[m]
    BY <1>17, <2>2, CountedAreMsgs DEF RecvPopIdle, TypeOK
  <2> QED BY <2>1, <2>3, CountedSame DEF KeepsCounted
<1>18. CASE RecvPush
  <2>1. /\ Range(handleList') = Range(handleList) \cup {held["main"]}
        /\ UNCHANGED <<sendList, reply>>
    BY <1>18, AppendFacts DEF RecvPush, TypeOK, ControlInv, Busy
  <2>2. Busy("main") /\ ~ Busy("main")' /\ "main" \in Threads
    BY <1>18 DEF RecvPush, TypeOK, ControlInv, Busy, MoreOrReturn
  <2>3. \A u \in Threads \ {"main"} : Busy(u)' = Busy(u) /\ held'[u] = held[u]
    BY <1>18 DEF RecvPush, TypeOK, ControlInv, Busy
  <2>4. Counted' = Counted
    <3>1. {held[u] : u \in {v \in Threads \ {"main"} : Busy(v)}}'
             = {held[u] : u \in {v \in Threads \ {"main"} : Busy(v)}}
      BY <2>3
    <3>2. /\ {held[u] : u \in {v \in Threads : Busy(v)}}
               = {held[u] : u \in {v \in Threads \ {"main"} : Busy(v)}} \cup {m \in {held["main"]} : Busy("main")}
          /\ {held[u] : u \in {v \in Threads : Busy(v)}}'
               = {held[u] : u \in {v \in Threads \ {"main"} : Busy(v)}}' \cup {m \in {held'["main"]} : Busy("main")'}
      BY <2>2 DEF Threads
    <3> QED BY <2>1, <2>2, <3>1, <3>2 DEF Counted
  <2>5. UNCHANGED <<msgFd, msgConn>> /\ \A g \in Fds : SendOwes(g)' = SendOwes(g)
    BY <1>18 DEF RecvPush, TypeOK, ControlInv, Busy, SendOwes
  <2> QED BY <2>4, <2>5 DEF KeepsCounted
<1>19. ASSUME NEW h \in Handlers, HandlePop(h)
      PROVE  KeepsCounted
  <2>1. /\ Range(handleList) = Range(handleList') \cup {held'[h]}
        /\ UNCHANGED <<sendList, reply>>
    BY <1>19, HeadTailFacts DEF HandlePop, TypeOK, ControlInv, Busy
  <2>2. ~ Busy(h) /\ Busy(h)' /\ h \in Threads
    BY <1>19 DEF HandlePop, TypeOK, ControlInv, Busy
  <2>3. \A u \in Threads \ {h} : Busy(u)' = Busy(u) /\ held'[u] = held[u]
    BY <1>19 DEF HandlePop, TypeOK, ControlInv, Busy
  <2>4. Counted' = Counted
    <3>1. {held[u] : u \in {v \in Threads \ {h} : Busy(v)}}'
             = {held[u] : u \in {v \in Threads \ {h} : Busy(v)}}
      BY <2>3
    <3>2. /\ {held[u] : u \in {v \in Threads : Busy(v)}}
               = {held[u] : u \in {v \in Threads \ {h} : Busy(v)}} \cup {m \in {held[h]} : Busy(h)}
          /\ {held[u] : u \in {v \in Threads : Busy(v)}}'
               = {held[u] : u \in {v \in Threads \ {h} : Busy(v)}}' \cup {m \in {held'[h]} : Busy(h)'}
      BY <2>2 DEF Threads
    <3> QED BY <2>1, <2>2, <3>1, <3>2 DEF Counted
  <2>5. UNCHANGED <<msgFd, msgConn>> /\ \A g \in Fds : SendOwes(g)' = SendOwes(g)
    BY <1>19 DEF HandlePop, TypeOK, ControlInv, Busy, SendOwes
  <2> QED BY <2>4, <2>5 DEF KeepsCounted
<1>20. CASE SendPop
  <2>1. /\ Range(sendList) = Range(sendList') \cup {held'["send"]}
        /\ UNCHANGED <<handleList, reply>>
    BY <1>20, HeadTailFacts DEF SendPop, TypeOK, ControlInv, Busy
  <2>2. ~ Busy("send") /\ Busy("send")' /\ "send" \in Threads
    BY <1>20 DEF SendPop, TypeOK, ControlInv, Busy
  <2>3. \A u \in Threads \ {"send"} : Busy(u)' = Busy(u) /\ held'[u] = held[u]
    BY <1>20 DEF SendPop, TypeOK, ControlInv, Busy
  <2>4. Counted' = Counted
    <3>1. {held[u] : u \in {v \in Threads \ {"send"} : Busy(v)}}'
             = {held[u] : u \in {v \in Threads \ {"send"} : Busy(v)}}
      BY <2>3
    <3>2. /\ {held[u] : u \in {v \in Threads : Busy(v)}}
               = {held[u] : u \in {v \in Threads \ {"send"} : Busy(v)}} \cup {m \in {held["send"]} : Busy("send")}
          /\ {held[u] : u \in {v \in Threads : Busy(v)}}'
               = {held[u] : u \in {v \in Threads \ {"send"} : Busy(v)}}' \cup {m \in {held'["send"]} : Busy("send")'}
      BY <2>2 DEF Threads
    <3> QED BY <2>1, <2>2, <3>1, <3>2 DEF Counted
  <2>5. UNCHANGED <<msgFd, msgConn>> /\ \A g \in Fds : SendOwes(g)' = SendOwes(g)
    BY <1>20 DEF SendPop, TypeOK, ControlInv, Busy, SendOwes
  <2> QED BY <2>4, <2>5 DEF KeepsCounted
<1>21. CASE SendMessagePush
  <2>1. /\ Range(sendList') = Range(sendList) \cup {reply} /\ reply # NoMsg /\ reply' = NoMsg
        /\ UNCHANGED handleList
    BY <1>21, AppendFacts DEF SendMessagePush, TypeOK, ControlInv, Busy
  <2>2. \A u \in Threads : Busy(u)' = Busy(u) /\ held'[u] = held[u]
    BY <1>21 DEF SendMessagePush, TypeOK, ControlInv, Busy
  <2>3. {held[t] : t \in {u \in Threads : Busy(u)}}'
           = {held[t] : t \in {u \in Threads : Busy(u)}}
    BY <2>2
  <2>4. Counted' = Counted
    BY <1>21, <2>1, <2>2, <2>3 DEF Counted
  <2>5. UNCHANGED <<msgFd, msgConn>> /\ \A g \in Fds : SendOwes(g)' = SendOwes(g)
    BY <1>21 DEF SendMessagePush, TypeOK, ControlInv, Busy, SendOwes
  <2> QED BY <2>4, <2>5 DEF KeepsCounted
<1> QED
  BY <1>1, <1>2, <1>3, <1>4, <1>5, <1>6, <1>7, <1>8, <1>9, <1>10, <1>11, <1>12, <1>13, <1>14, <1>15, <1>16, <1>17, <1>18, <1>19, <1>20, <1>21 DEF Neutral

\* A packet is counted when it is received.
LEMMA RecvPacketStep ==
    ASSUME TypeInv, MessagesConserved, NEW full \in BOOLEAN, RecvPacket(full)
    PROVE  /\ held["main"] \in Msgs \ Counted /\ Counted' = Counted \cup {held["main"]}
           /\ UNCHANGED <<msgFd, msgConn>> /\ \A f \in Fds : SendOwes(f)' = SendOwes(f)
<1> USE TcpServerAssumption DEF queues, msgs, evio, tables, threads, service, kernel, ghosts,
        TypeInv, Threads, At, Goto
<1>1. ~ Busy("main") /\ Busy("main")' /\ held["main"] \in Msgs /\ Owned("main") = {held["main"]}
  BY DEF RecvPacket, MoreOrReturn, TypeOK, ControlInv, Busy, Owned
<1>2. \A u \in Threads \ {"main"} : Busy(u)' = Busy(u) /\ held'[u] = held[u]
  BY DEF RecvPacket, TypeOK, ControlInv, Busy
<1>3. UNCHANGED <<handleList, sendList, reply, held, msgFd, msgConn>>
  BY DEF RecvPacket
<1>4. Counted' = Counted \cup {held["main"]}
  <2>1. {held[u] : u \in {v \in Threads : Busy(v)}}'
           = {held[u] : u \in {v \in Threads : Busy(v)}} \cup {held["main"]}
    BY <1>1, <1>2, <1>3
  <2> QED BY <1>3, <2>1 DEF Counted
<1>5. held["main"] \notin Counted
  BY <1>1, CountedApart
<1>6. \A f \in Fds : SendOwes(f)' = SendOwes(f)
  BY DEF RecvPacket, TypeOK, SendOwes
<1> QED BY <1>1, <1>3, <1>4, <1>5, <1>6

\* A handler discounts the packet it is done with.
LEMMA HandleDoneStep ==
    ASSUME TypeInv, MessagesConserved, NEW h \in Handlers, HandleDone(h)
    PROVE  /\ held[h] \in Counted /\ Counted' = Counted \ {held[h]}
           /\ UNCHANGED <<msgFd, msgConn>> /\ \A f \in Fds : SendOwes(f)' = SendOwes(f)
<1> USE TcpServerAssumption DEF queues, msgs, evio, tables, threads, service, kernel, ghosts,
        TypeInv, Threads, At, Goto
<1>1. Busy(h) /\ ~ Busy(h)' /\ h \in Threads
  BY DEF HandleDone, CloseSocketIfNeed, TypeOK, ControlInv, Busy
<1>2. \A u \in Threads \ {h} : Busy(u)' = Busy(u)
  BY DEF HandleDone, CloseSocketIfNeed, TypeOK, ControlInv, Busy
<1>3. UNCHANGED <<handleList, sendList, reply, held, msgFd, msgConn>>
  BY DEF HandleDone
<1>4. Counted' = Counted \ {held[h]} /\ held[h] \in Counted
  <2>1. /\ held[h] \notin Range(handleList) \cup Range(sendList) /\ held[h] # reply
        /\ \A u \in Threads \ {h} : Busy(u) => held[u] # held[h]
    BY <1>1, CountedApart
  <2>2. {held[u] : u \in {v \in Threads : Busy(v)}}'
           = {held[u] : u \in {v \in Threads : Busy(v)}} \ {held[h]}
    BY <1>1, <1>2, <1>3, <2>1
  <2> QED BY <1>1, <1>3, <2>1, <2>2 DEF Counted
<1>5. \A f \in Fds : SendOwes(f)' = SendOwes(f)
  BY DEF HandleDone, CloseSocketIfNeed, TypeOK, SendOwes
<1> QED BY <1>3, <1>4, <1>5

\* A reply is counted, for the connection of the session, before it is queued.
LEMMA SendMessageByQueueStep ==
    ASSUME TypeInv, MessagesConserved, NEW f \in Fds, SendMessageByQueue(f)
    PROVE  /\ reply' \in Msgs \ Counted /\ Counted' = Counted \cup {reply'}
           /\ msgFd'[reply'] = f /\ msgConn'[reply'] = sessions[f]
           /\ \A m \in Counted : msgFd'[m] = msgFd[m] /\ msgConn'[m] = msgConn[m]
           /\ \A g \in Fds : SendOwes(g)' = SendOwes(g)
<1> USE TcpServerAssumption DEF queues, msgs, evio, tables, threads, service, kernel, ghosts,
        TypeInv, Threads, At, Goto
<1>1. idleList \in Seq(Msgs) /\ idleList # <<>> /\ reply' = Head(idleList)
  BY DEF SendMessageByQueue, TypeOK
<1>2. reply' \in Msgs /\ reply' \in Range(idleList)
  BY <1>1, HeadTailFacts
<1>3. reply' \notin Counted
  BY <1>2, CountedApart
<1>4. UNCHANGED <<handleList, sendList, held, pc, fd>> /\ reply = NoMsg
  BY DEF SendMessageByQueue
<1>5. Counted' = Counted \cup {reply'}
  <2>1. \A t \in Threads : Busy(t)' = Busy(t)
    BY <1>4 DEF Busy
  <2> QED BY <1>2, <1>4, <2>1 DEF Counted
<1>6. /\ msgFd'[reply'] = f /\ msgConn'[reply'] = sessions[f]
      /\ \A m \in Counted : msgFd'[m] = msgFd[m] /\ msgConn'[m] = msgConn[m]
  BY <1>1, <1>2, <1>3, CountedAreMsgs DEF SendMessageByQueue, TypeOK
<1>7. \A g \in Fds : SendOwes(g)' = SendOwes(g)
  BY <1>4 DEF SendOwes
<1> QED BY <1>2, <1>3, <1>5, <1>6, <1>7

\* A reply that was sent is idle again, and its decrement is owed.
LEMMA SendMessageImmediatelyStep ==
    ASSUME TypeInv, MessagesConserved, SendMessageImmediately
    PROVE  /\ held["send"] \in Counted /\ Counted' = Counted \ {held["send"]}
           /\ UNCHANGED <<msgFd, msgConn>>
           /\ \A f \in Fds : SendOwes(f) = 0 /\ SendOwes(f)' = IF f = fd["send"] THEN 1 ELSE 0
<1> USE TcpServerAssumption DEF queues, msgs, evio, tables, threads, service, kernel, ghosts,
        TypeInv, Threads, At, Goto
<1>1. Busy("send") /\ ~ Busy("send")' /\ "send" \in Threads
  BY DEF SendMessageImmediately, TypeOK, ControlInv, Busy
<1>2. \A u \in Threads \ {"send"} : Busy(u)' = Busy(u)
  BY DEF SendMessageImmediately, TypeOK, ControlInv, Busy
<1>3. UNCHANGED <<handleList, sendList, reply, held, msgFd, msgConn>>
  BY DEF SendMessageImmediately
<1>4. Counted' = Counted \ {held["send"]} /\ held["send"] \in Counted
  <2>1. /\ held["send"] \notin Range(handleList) \cup Range(sendList) /\ held["send"] # reply
        /\ \A u \in Threads \ {"send"} : Busy(u) => held[u] # held["send"]
    BY <1>1, CountedApart
  <2>2. {held[u] : u \in {v \in Threads : Busy(v)}}'
           = {held[u] : u \in {v \in Threads : Busy(v)}} \ {held["send"]}
    BY <1>1, <1>2, <1>3, <2>1
  <2> QED BY <1>1, <1>3, <2>1, <2>2 DEF Counted
<1>5. \A f \in Fds : SendOwes(f) = 0 /\ SendOwes(f)' = IF f = fd["send"] THEN 1 ELSE 0
  BY DEF SendMessageImmediately, TypeOK, SendOwes
<1> QED BY <1>3, <1>4, <1>5

\* The decrement that was owed.
LEMMA SendDoneStep ==
    ASSUME TypeInv, MessagesConserved, SendDone
    PROVE  /\ Counted' = Counted /\ UNCHANGED <<msgFd, msgConn>>
           /\ \A f \in Fds : SendOwes(f)' = 0 /\ SendOwes(f) = IF f = fd["send"] THEN 1 ELSE 0
<1> USE TcpServerAssumption DEF queues, msgs, evio, tables, threads, service, kernel, ghosts,
        TypeInv, Threads, At, Goto
<1>1. /\ UNCHANGED <<handleList, sendList, reply>>
      /\ \A u \in Threads : Busy(u)' = Busy(u) /\ (Busy(u) => held'[u] = held[u])
  BY DEF SendDone, CloseSocketIfNeed, TypeOK, ControlInv, Busy
<1>2. Counted' = Counted
  BY <1>1, CountedSame
<1>3. UNCHANGED <<msgFd, msgConn>>
  BY DEF SendDone
<1>4. \A f \in Fds : SendOwes(f)' = 0 /\ SendOwes(f) = IF f = fd["send"] THEN 1 ELSE 0
  BY DEF SendDone, CloseSocketIfNeed, TypeOK, SendOwes
<1> QED BY <1>2, <1>3, <1>4

-----------------------------------------------------------------------------
(***************************************************************************)
(* The counter.                                                            *)
(***************************************************************************)
LEMMA OutstandingFinite ==
    ASSUME TypeInv, NEW f \in Fds
    PROVE  /\ IsFiniteSet(Outstanding(f)) /\ Cardinality(Outstanding(f)) \in Nat
           /\ Cardinality(Outstanding(f)) = 0 <=> Outstanding(f) = {}
<1>1. Outstanding(f) \subseteq Msgs
  BY CountedAreMsgs DEF Outstanding
<1>2. IsFiniteSet(Outstanding(f))
  BY <1>1, FS_Subset, TcpServerAssumption
<1> QED BY <1>2, FS_CardinalityType, FS_EmptySet

\* One more message is counted.
LEMMA OneMore ==
    ASSUME TypeInv, NEW m, m \notin Counted, Counted' = Counted \cup {m},
           \A x \in Counted : msgFd'[x] = msgFd[x], NEW f \in Fds
    PROVE  Cardinality(Outstanding(f))'
             = Cardinality(Outstanding(f)) + IF msgFd'[m] = f THEN 1 ELSE 0
<1>1. m \notin Outstanding(f) /\ IsFiniteSet(Outstanding(f)) /\ Cardinality(Outstanding(f)) \in Nat
  BY OutstandingFinite DEF Outstanding
<1>2. Outstanding(f)' = Outstanding(f) \cup {x \in {m} : msgFd'[m] = f}
  BY DEF Outstanding
<1>3. CASE msgFd'[m] = f
  <2>1. Outstanding(f)' = Outstanding(f) \cup {m}
    BY <1>2, <1>3
  <2>2. Cardinality(Outstanding(f) \cup {m}) = Cardinality(Outstanding(f)) + 1
    BY <1>1, FS_AddElement
  <2> QED BY <2>1, <2>2, <1>3
<1>4. CASE msgFd'[m] # f
  <2>1. Outstanding(f)' = Outstanding(f)
    BY <1>2, <1>4
  <2> QED BY <2>1, <1>1, <1>4
<1> QED BY <1>3, <1>4

\* One message less.
LEMMA OneLess ==
    ASSUME TypeInv, NEW m \in Counted, Counted' = Counted \ {m}, UNCHANGED msgFd, NEW f \in Fds
    PROVE  Cardinality(Outstanding(f))'
             = Cardinality(Outstanding(f)) - IF msgFd[m] = f THEN 1 ELSE 0
<1>1. IsFiniteSet(Outstanding(f)) /\ Cardinality(Outstanding(f)) \in Nat
  BY OutstandingFinite
<1>2. Outstanding(f)' = Outstanding(f) \ {x \in {m} : msgFd[m] = f}
  BY DEF Outstanding
<1>3. CASE msgFd[m] = f
  <2>1. Outstanding(f)' = Outstanding(f) \ {m} /\ m \in Outstanding(f)
    BY <1>2, <1>3 DEF Outstanding
  <2>2. Cardinality(Outstanding(f) \ {m}) = Cardinality(Outstanding(f)) - 1
    BY <1>1, <2>1, FS_RemoveElement
  <2> QED BY <2>1, <2>2, <1>3
<1>4. CASE msgFd[m] # f
  <2>1. Outstanding(f)' = Outstanding(f)
    BY <1>2, <1>4
  <2> QED BY <2>1, <1>1, <1>4
<1> QED BY <1>3, <1>4

\* Each step changes the counter as it changes what is counted.
CountInv == \A f \in Fds : handlingCount[f] = Cardinality(Outstanding(f)) + SendOwes(f)

LEMMA CountStep ==
    ASSUME TypeInv, MessagesConserved, LocalFdInv, CountInv, FreeFdInv, races' = {}, [Next]_vars
    PROVE  CountInv'
<1> USE TcpServerAssumption DEF queues, msgs, evio, tables, threads, service, kernel, ghosts,
        Threads, At, Goto
<1>1. SUFFICES ASSUME NEW f \in Fds
               PROVE  (handlingCount[f] = Cardinality(Outstanding(f)) + SendOwes(f))'
  BY DEF CountInv
<1>2. /\ handlingCount[f] = Cardinality(Outstanding(f)) + SendOwes(f)
      /\ Cardinality(Outstanding(f)) \in Nat /\ SendOwes(f) \in {0, 1}
      /\ handlingCount \in [Fds -> Int]
  BY OutstandingFinite DEF CountInv, SendOwes, TypeInv, TypeOK
<1>3. CASE Neutral
  <2>1. Outstanding(f)' = Outstanding(f) /\ SendOwes(f)' = SendOwes(f)
    BY <1>3, NeutralStep DEF KeepsCounted, Outstanding
  <2>2. CASE handlingCount'[f] = handlingCount[f]
    BY <1>2, <2>1, <2>2
  <2>3. ASSUME NEW g \in Fds, Accept_Callback(g)
        PROVE  handlingCount'[f] = handlingCount[f]
    <3>1. conn[g] = 0 /\ handlingCount' = [handlingCount EXCEPT ![g] = 0]
      BY <2>3 DEF Accept_Callback
    <3>2. Drained(g) /\ Cardinality(Outstanding(g)) = 0
      BY <3>1, OutstandingFinite DEF FreeFdInv, Drained
    <3>3. CASE f = g
      <4>1. handlingCount[f] = 0
        BY <1>2, <3>2, <3>3 DEF Drained
      <4> QED BY <1>2, <3>1, <3>3, <4>1
    <3>4. CASE f # g
      BY <1>2, <3>1, <3>4
    <3> QED BY <3>3, <3>4
  <2>4. ASSUME \A g \in Fds : ~ Accept_Callback(g)
        PROVE  UNCHANGED handlingCount
    BY <1>3, <2>4 DEF Neutral, PeerClose, Recv_Callback, OnAcceptTrue, OnAcceptFalse, RecvPopIdle,
       RecvPush, RecvEnd, RecvAgain, RecvOverLimit, OnDisconnect, DecideClose, OnClose, CloseFd,
       ReturnMessage, HandlePop, ForwardPacket, RejectPacket, SendMessagePush, SendPop, vars
  <2> QED BY <1>2, <2>1, <2>3, <2>4
<1>4. ASSUME NEW full \in BOOLEAN, RecvPacket(full)
      PROVE  (handlingCount[f] = Cardinality(Outstanding(f)) + SendOwes(f))'
  <2>1. /\ held["main"] \in Msgs \ Counted /\ Counted' = Counted \cup {held["main"]}
        /\ UNCHANGED <<msgFd, msgConn>> /\ SendOwes(f)' = SendOwes(f)
    BY <1>4, RecvPacketStep
  <2>2. Cardinality(Outstanding(f))'
          = Cardinality(Outstanding(f)) + IF msgFd[held["main"]] = f THEN 1 ELSE 0
    BY <2>1, OneMore
  <2>3. msgFd[held["main"]] = fd["main"]
    BY <1>4 DEF LocalFdInv, RecvPacket
  <2>4. handlingCount'[f] = handlingCount[f] + IF fd["main"] = f THEN 1 ELSE 0
    BY <1>2, <1>4 DEF RecvPacket, Count
  <2> QED BY <1>2, <2>1, <2>2, <2>3, <2>4
<1>5. ASSUME NEW h \in Handlers, HandleDone(h)
      PROVE  (handlingCount[f] = Cardinality(Outstanding(f)) + SendOwes(f))'
  <2>1. /\ held[h] \in Counted /\ Counted' = Counted \ {held[h]}
        /\ UNCHANGED <<msgFd, msgConn>> /\ SendOwes(f)' = SendOwes(f)
    BY <1>5, HandleDoneStep
  <2>2. Cardinality(Outstanding(f))'
          = Cardinality(Outstanding(f)) - IF msgFd[held[h]] = f THEN 1 ELSE 0
    BY <2>1, OneLess
  <2>3. handlingCount'[f] = handlingCount[f] - IF msgFd[held[h]] = f THEN 1 ELSE 0
    BY <1>2, <1>5 DEF HandleDone, CloseSocketIfNeed
  <2> QED BY <1>2, <2>1, <2>2, <2>3
<1>6. ASSUME NEW g \in Fds, SendMessageByQueue(g)
      PROVE  (handlingCount[f] = Cardinality(Outstanding(f)) + SendOwes(f))'
  <2>1. /\ reply' \in Msgs \ Counted /\ Counted' = Counted \cup {reply'}
        /\ msgFd'[reply'] = g /\ \A m \in Counted : msgFd'[m] = msgFd[m]
        /\ SendOwes(f)' = SendOwes(f)
    BY <1>6, SendMessageByQueueStep
  <2>2. Cardinality(Outstanding(f))' = Cardinality(Outstanding(f)) + IF g = f THEN 1 ELSE 0
    BY <2>1, OneMore
  <2>3. handlingCount'[f] = handlingCount[f] + IF g = f THEN 1 ELSE 0
    BY <1>2, <1>6 DEF SendMessageByQueue, Count
  <2> QED BY <1>2, <2>1, <2>2, <2>3
<1>7. CASE SendMessageImmediately
  <2>1. /\ held["send"] \in Counted /\ Counted' = Counted \ {held["send"]}
        /\ UNCHANGED <<msgFd, msgConn>>
        /\ SendOwes(f) = 0 /\ SendOwes(f)' = IF f = fd["send"] THEN 1 ELSE 0
    BY <1>7, SendMessageImmediatelyStep
  <2>2. Cardinality(Outstanding(f))'
          = Cardinality(Outstanding(f)) - IF msgFd[held["send"]] = f THEN 1 ELSE 0
    BY <2>1, OneLess
  <2>3. msgFd[held["send"]] = fd["send"] /\ UNCHANGED handlingCount
    BY <1>7 DEF LocalFdInv, SendMessageImmediately
  <2> QED BY <1>2, <2>1, <2>2, <2>3
<1>8. CASE SendDone
  <2>1. /\ Counted' = Counted /\ UNCHANGED <<msgFd, msgConn>>
        /\ SendOwes(f)' = 0 /\ SendOwes(f) = IF f = fd["send"] THEN 1 ELSE 0
    BY <1>8, SendDoneStep
  <2>2. Outstanding(f)' = Outstanding(f)
    BY <2>1 DEF Outstanding
  <2>3. handlingCount' = [handlingCount EXCEPT ![fd["send"]] = @ - 1]
    BY <1>8 DEF SendDone, CloseSocketIfNeed
  <2> QED BY <1>2, <2>1, <2>2, <2>3
<1> QED BY <1>3, <1>4, <1>5, <1>6, <1>7, <1>8 DEF Next, Neutral, Terminating

-----------------------------------------------------------------------------
(***************************************************************************)
(* Which steps change what belongs to a descriptor, and how.               *)
(***************************************************************************)
LEMMA ConnChanges ==
    ASSUME TypeInv, [Next]_vars, NEW f \in Fds, conn'[f] # conn[f]
    PROVE  \/ Accept_Callback(f) /\ conn[f] = 0 /\ conn'[f] = nconn + 1
           \/ \E t \in Threads : CloseFd(t) /\ fd[t] = f /\ conn'[f] = 0
<1> USE TcpServerAssumption DEF queues, msgs, evio, tables, threads, service, kernel, ghosts,
        TypeInv, Threads, At, Goto
<1>1. ASSUME NEW g \in Fds, Accept_Callback(g)
      PROVE  g = f /\ conn[f] = 0 /\ conn'[f] = nconn + 1
  BY <1>1 DEF Accept_Callback, TypeOK
<1>2. ASSUME NEW t \in Threads, CloseFd(t)
      PROVE  fd[t] = f /\ conn'[f] = 0
  BY <1>2 DEF CloseFd, TypeOK
<1>3. CASE (\A g \in Fds : ~ Accept_Callback(g)) /\ (\A t \in Threads : ~ CloseFd(t))
  BY <1>3 DEF PeerClose, Recv_Callback, OnAcceptTrue, OnAcceptFalse, RecvPopIdle, RecvPush,
     RecvEnd, RecvAgain, RecvOverLimit, RecvPacket, OnDisconnect, DecideClose, OnClose,
     ReturnMessage, HandlePop, ForwardPacket, RejectPacket, HandleDone,
     SendMessageByQueue, SendMessagePush, SendPop, SendMessageImmediately, SendDone,
     Terminating, vars, Next
<1> QED BY <1>1, <1>2, <1>3

LEMMA WatchingChanges ==
    ASSUME TypeInv, [Next]_vars, NEW f \in Fds, watching'[f] # watching[f]
    PROVE  \/ /\ OnAcceptTrue /\ fd["main"] = f /\ At("main", "accept") /\ pc'["main"] = "loop"
              /\ watching'[f] = watching[f] + 1
           \/ OnDisconnect /\ fd["main"] = f /\ StopsEvio(f) /\ watching'[f] = watching[f] - 1
<1> USE TcpServerAssumption DEF queues, msgs, evio, tables, threads, service, kernel, ghosts,
        TypeInv, Threads, At, Goto
<1>1. ASSUME OnAcceptTrue
      PROVE  /\ fd["main"] = f /\ At("main", "accept") /\ pc'["main"] = "loop"
             /\ watching'[f] = watching[f] + 1
  <2>1. /\ pc["main"] = "accept" /\ pc' = [pc EXCEPT !["main"] = "loop"]
        /\ watching' = [watching EXCEPT ![fd["main"]] = @ + 1]
    BY <1>1 DEF OnAcceptTrue
  <2> QED BY <2>1 DEF TypeOK
<1>2. ASSUME OnDisconnect
      PROVE  fd["main"] = f /\ StopsEvio(f) /\ watching'[f] = watching[f] - 1
  <2>1. StopsEvio(fd["main"]) /\ watching' = [watching EXCEPT ![fd["main"]] = @ - 1]
    BY <1>2 DEF OnDisconnect, StopEvio
  <2> QED BY <2>1 DEF TypeOK
<1>3. CASE ~ OnAcceptTrue /\ ~ OnDisconnect
  BY <1>3 DEF PeerClose, Accept_Callback, Recv_Callback, OnAcceptFalse, RecvPopIdle, RecvPush,
     RecvEnd, RecvAgain, RecvOverLimit, RecvPacket, DecideClose, OnClose, CloseFd,
     ReturnMessage, HandlePop, ForwardPacket, RejectPacket, HandleDone,
     SendMessageByQueue, SendMessagePush, SendPop, SendMessageImmediately, SendDone,
     Terminating, vars, Next
<1> QED BY <1>1, <1>2, <1>3

LEMMA ClientsChange ==
    ASSUME TypeInv, [Next]_vars, NEW f \in Fds, clients'[f] # clients[f]
    PROVE  \/ OnAcceptTrue /\ fd["main"] = f /\ clients[f] = 0 /\ clients'[f] = conn[f]
           \/ \E t \in Threads : OnClose(t) /\ fd[t] = f /\ clients'[f] = 0
<1> USE TcpServerAssumption DEF queues, msgs, evio, tables, threads, service, kernel, ghosts,
        TypeInv, Threads, At, Goto
<1>1. CASE OnAcceptTrue
  BY <1>1 DEF OnAcceptTrue, TypeOK, ControlInv
<1>2. ASSUME NEW t \in Threads, OnClose(t)
      PROVE  fd[t] = f /\ clients'[f] = 0
  BY <1>2 DEF OnClose, TypeOK
<1>3. CASE ~ OnAcceptTrue /\ (\A t \in Threads : ~ OnClose(t))
  BY <1>3 DEF PeerClose, Accept_Callback, Recv_Callback, OnAcceptFalse, RecvPopIdle, RecvPush,
     RecvEnd, RecvAgain, RecvOverLimit, RecvPacket, OnDisconnect, DecideClose, CloseFd,
     ReturnMessage, HandlePop, ForwardPacket, RejectPacket, HandleDone,
     SendMessageByQueue, SendMessagePush, SendPop, SendMessageImmediately, SendDone,
     Terminating, vars, Next
<1> QED BY <1>1, <1>2, <1>3

LEMMA SessionsChange ==
    ASSUME TypeInv, [Next]_vars, NEW f \in Fds, sessions'[f] # sessions[f]
    PROVE  \/ \E h \in Handlers : /\ ForwardPacket(h) /\ msgFd[held[h]] = f /\ sessions[f] = 0
                                  /\ sessions'[f] = clients[f] /\ clients[f] # 0
           \/ \E t \in Threads : OnClose(t) /\ fd[t] = f /\ sessions'[f] = 0
<1> USE TcpServerAssumption DEF queues, msgs, evio, tables, threads, service, kernel, ghosts,
        TypeInv, Threads, At, Goto
<1>1. ASSUME NEW h \in Handlers, ForwardPacket(h)
      PROVE  /\ msgFd[held[h]] = f /\ sessions[f] = 0
             /\ sessions'[f] = clients[f] /\ clients[f] # 0
  BY <1>1 DEF ForwardPacket, TypeOK
<1>2. ASSUME NEW t \in Threads, OnClose(t)
      PROVE  fd[t] = f /\ sessions'[f] = 0
  BY <1>2 DEF OnClose, TypeOK
<1>3. CASE (\A h \in Handlers : ~ ForwardPacket(h)) /\ (\A t \in Threads : ~ OnClose(t))
  BY <1>3 DEF PeerClose, Accept_Callback, Recv_Callback, OnAcceptTrue, OnAcceptFalse, RecvPopIdle,
     RecvPush, RecvEnd, RecvAgain, RecvOverLimit, RecvPacket, OnDisconnect, DecideClose,
     CloseFd, ReturnMessage, HandlePop, RejectPacket, HandleDone, SendMessageByQueue,
     SendMessagePush, SendPop, SendMessageImmediately, SendDone, Terminating, vars, Next
<1> QED BY <1>1, <1>2, <1>3

LEMMA CloseRecvChanges ==
    ASSUME TypeInv, [Next]_vars, NEW f \in Fds, closeRecv'[f] # closeRecv[f]
    PROVE  \/ Accept_Callback(f) /\ ~ closeRecv'[f]
           \/ /\ DecideClose /\ fd["main"] = f /\ At("main", "decide")
              /\ pc'["main"] \in {"loop", "return"}
<1> USE TcpServerAssumption DEF queues, msgs, evio, tables, threads, service, kernel, ghosts,
        TypeInv, Threads, At, Goto
<1>1. ASSUME NEW g \in Fds, Accept_Callback(g)
      PROVE  g = f /\ ~ closeRecv'[f]
  BY <1>1 DEF Accept_Callback, TypeOK
<1>2. ASSUME DecideClose
      PROVE  /\ fd["main"] = f /\ At("main", "decide")
             /\ pc'["main"] \in {"loop", "return"}
  <2>1. /\ pc["main"] = "decide" /\ closeRecv' = [closeRecv EXCEPT ![fd["main"]] = TRUE]
        /\ pc' = [pc EXCEPT !["main"] = IF held["main"] = NoMsg THEN "loop" ELSE "return"]
    BY <1>2 DEF DecideClose, Finish, Idle
  <2> QED BY <2>1 DEF TypeOK
<1>3. CASE (\A g \in Fds : ~ Accept_Callback(g)) /\ ~ DecideClose
  BY <1>3 DEF PeerClose, Recv_Callback, OnAcceptTrue, OnAcceptFalse, RecvPopIdle, RecvPush,
     RecvEnd, RecvAgain, RecvOverLimit, RecvPacket, OnDisconnect, OnClose, CloseFd,
     ReturnMessage, HandlePop, ForwardPacket, RejectPacket, HandleDone,
     SendMessageByQueue, SendMessagePush, SendPop, SendMessageImmediately, SendDone,
     Terminating, vars, Next, CloseSocketIfNeed
<1> QED BY <1>1, <1>2, <1>3

LEMMA ClosedConnsChange ==
    ASSUME TypeInv, [Next]_vars, closedConns' # closedConns
    PROVE  \E t \in Threads : OnClose(t)
<1> USE TcpServerAssumption DEF queues, msgs, evio, tables, threads, service, kernel, ghosts,
        TypeInv, Threads, At, Goto
<1>1. CASE \A t \in Threads : ~ OnClose(t)
  BY <1>1 DEF PeerClose, Accept_Callback, Recv_Callback, OnAcceptTrue, OnAcceptFalse, RecvPopIdle,
     RecvPush, RecvEnd, RecvAgain, RecvOverLimit, RecvPacket, OnDisconnect, DecideClose,
     CloseFd, ReturnMessage, HandlePop, ForwardPacket, RejectPacket, HandleDone,
     SendMessageByQueue, SendMessagePush, SendPop, SendMessageImmediately, SendDone,
     Terminating, vars, Next
<1> QED BY <1>1

\* The main thread begins to work on a connection.
LEMMA WorkingBegins ==
    ASSUME TypeInv, [Next]_vars, NEW f \in Fds, Working(f)', ~ Working(f)
    PROVE  Accept_Callback(f) \/ Recv_Callback(f)
<1> USE TcpServerAssumption DEF queues, msgs, evio, tables, threads, service, kernel, ghosts,
        TypeInv, Threads, At, Goto
<1>1. ASSUME NEW g \in Fds, Accept_Callback(g) \/ Recv_Callback(g)
      PROVE  g = f
  BY <1>1 DEF Accept_Callback, Recv_Callback, Working, TypeOK
<1>2. ASSUME pc'["main"] = pc["main"], fd'["main"] = fd["main"]
      PROVE  FALSE
  BY <1>2 DEF Working
<1>3. CASE OnAcceptTrue \/ OnAcceptFalse \/ RecvPopIdle \/ RecvEnd \/ RecvAgain \/ OnDisconnect
  BY <1>3 DEF OnAcceptTrue, OnAcceptFalse, RecvPopIdle, RecvEnd, RecvAgain, OnDisconnect, Working, TypeOK
<1>4. CASE RecvPush \/ DecideClose
  BY <1>4 DEF RecvPush, DecideClose, MoreOrReturn, Finish, Idle, Working, TypeOK
<1>5. ASSUME NEW full \in BOOLEAN, RecvOverLimit(full) \/ RecvPacket(full)
      PROVE  FALSE
  BY <1>5 DEF RecvOverLimit, RecvPacket, MoreOrReturn, Working, TypeOK
<1>6. ASSUME NEW t \in Threads, OnClose(t) \/ CloseFd(t) \/ ReturnMessage(t)
      PROVE  FALSE
  <2>1. CASE t = "main"
    BY <1>6, <2>1 DEF OnClose, CloseFd, ReturnMessage, Idle, Working, TypeOK
  <2>2. CASE t # "main"
    BY <1>2, <1>6, <2>2 DEF OnClose, CloseFd, ReturnMessage, TypeOK
  <2> QED BY <2>1, <2>2
<1>7. ASSUME NEW h \in Handlers,
             HandlePop(h) \/ ForwardPacket(h) \/ RejectPacket(h) \/ HandleDone(h)
      PROVE  FALSE
  BY <1>2, <1>7 DEF HandlePop, ForwardPacket, RejectPacket, HandleDone, CloseSocketIfNeed, TypeOK
<1>8. CASE SendPop \/ SendMessageImmediately \/ SendDone
  BY <1>2, <1>8 DEF SendPop, SendMessageImmediately, SendDone, CloseSocketIfNeed, TypeOK
<1>9. ASSUME NEW g \in Fds, PeerClose(g) \/ SendMessageByQueue(g)
      PROVE  FALSE
  BY <1>2, <1>9 DEF PeerClose, SendMessageByQueue
<1>10. CASE SendMessagePush \/ UNCHANGED vars
  BY <1>2, <1>10 DEF SendMessagePush, vars
<1> QED
  BY <1>1, <1>3, <1>4, <1>5, <1>6, <1>7, <1>8, <1>9, <1>10 DEF Next, Terminating

\* A thread decides to close.
LEMMA ClosingBegins ==
    ASSUME TypeInv, [Next]_vars, NEW f \in Fds, NEW t \in Closers(f)', t \notin Closers(f)
    PROVE  /\ pc'[t] = "onclose"
           /\ \/ t = "main" /\ DecideClose /\ Working(f) /\ At("main", "decide") /\ ClosesNow(f)
              \/ /\ t \in Handlers /\ HandleDone(t)
                 /\ msgFd[held[t]] = f /\ LastMessage(f, handlingCount[f] - 1)
              \/ /\ t = "send" /\ SendDone
                 /\ msgFd[held["send"]] = f /\ LastMessage(f, handlingCount[f] - 1)
<1> USE TcpServerAssumption DEF queues, msgs, evio, tables, threads, service, kernel, ghosts,
        TypeInv, Threads, At, Goto
<1>1. t \in Threads /\ pc'[t] \in {"onclose", "close"} /\ fd'[t] = f
  BY DEF Closers
<1>2. ASSUME pc'[t] = pc[t], fd'[t] = fd[t]
      PROVE  FALSE
  BY <1>1, <1>2 DEF Closers
<1>3. CASE DecideClose
  BY <1>1, <1>3 DEF DecideClose, Finish, Idle, Working, Closers, TypeOK
<1>4. ASSUME NEW h \in Handlers, HandleDone(h)
      PROVE  /\ t = h /\ pc'[t] = "onclose"
             /\ msgFd[held[t]] = f /\ LastMessage(f, handlingCount[f] - 1)
  BY <1>1, <1>4 DEF HandleDone, CloseSocketIfNeed, Closers, TypeOK, ControlInv
<1>5. CASE SendDone
  BY <1>1, <1>5 DEF SendDone, CloseSocketIfNeed, Closers, TypeOK, ControlInv
<1>6. CASE OnAcceptTrue \/ OnAcceptFalse \/ RecvPopIdle \/ RecvEnd \/ RecvAgain \/ OnDisconnect
  BY <1>1, <1>6 DEF OnAcceptTrue, OnAcceptFalse, RecvPopIdle, RecvEnd, RecvAgain, OnDisconnect,
     Closers, TypeOK
<1>7. ASSUME NEW full \in BOOLEAN, RecvOverLimit(full) \/ RecvPacket(full)
      PROVE  FALSE
  BY <1>1, <1>7 DEF RecvOverLimit, RecvPacket, MoreOrReturn, Closers, TypeOK
<1>8. ASSUME NEW u \in Threads, OnClose(u) \/ CloseFd(u) \/ ReturnMessage(u)
      PROVE  FALSE
  BY <1>1, <1>8 DEF OnClose, CloseFd, ReturnMessage, Idle, Closers, TypeOK
<1>9. ASSUME NEW h \in Handlers, HandlePop(h) \/ ForwardPacket(h) \/ RejectPacket(h)
      PROVE  FALSE
  BY <1>1, <1>9 DEF HandlePop, ForwardPacket, RejectPacket, Closers, TypeOK
<1>10. CASE SendPop \/ SendMessageImmediately \/ RecvPush
  BY <1>1, <1>10 DEF SendPop, SendMessageImmediately, RecvPush, MoreOrReturn, Closers, TypeOK
<1>11. ASSUME NEW g \in Fds, PeerClose(g) \/ SendMessageByQueue(g)
      PROVE  FALSE
  BY <1>2, <1>11 DEF PeerClose, SendMessageByQueue
<1>12. CASE SendMessagePush \/ UNCHANGED vars
  BY <1>2, <1>12 DEF SendMessagePush, vars
<1>13. ASSUME NEW g \in Fds, Accept_Callback(g) \/ Recv_Callback(g)
      PROVE  FALSE
  BY <1>1, <1>13 DEF Accept_Callback, Recv_Callback, Closers, TypeOK
<1> QED
  BY <1>3, <1>4, <1>5, <1>6, <1>7, <1>8, <1>9, <1>10, <1>11, <1>12, <1>13 DEF Next, Terminating

-----------------------------------------------------------------------------
(***************************************************************************)
(* The close protocol: one lemma per conjunct of the inductive invariant.  *)
(***************************************************************************)
CloseInv ==
    /\ TypeInv /\ MessagesConserved /\ LocalFdInv
    /\ CountInv /\ FreeFdInv /\ CloserInv /\ CloseRecvInv /\ WorkInv
    /\ OwnerInv /\ MessageInv /\ ConnInv

\* A message in hand stays what it is as long as it is not idle.
LEMMA LocalFdStep ==
    ASSUME TypeInv, MessagesConserved, LocalFdInv, [Next]_vars
    PROVE  LocalFdInv'
<1> USE TcpServerAssumption DEF queues, msgs, evio, tables, threads, service, kernel, ghosts,
        TypeInv, Threads, At, Goto
<1>1. CASE RecvPopIdle
  <2>1. idleList \in Seq(Msgs) /\ idleList # <<>>
    BY <1>1 DEF RecvPopIdle, TypeOK
  <2>2. Head(idleList) \in Msgs /\ Head(idleList) \in Range(idleList)
    BY <2>1, HeadTailFacts
  <2>3. pc["send"] = "send" => held["send"] # Head(idleList) /\ held["send"] \in Msgs
    BY <2>2, BusyOwns, CountedApart DEF Busy, MessagesConserved, InHand
  <2>4. pc'["main"] = "recving" /\ held'["main"] = Head(idleList)
        /\ fd' = fd /\ msgFd' = [msgFd EXCEPT ![Head(idleList)] = fd["main"]]
        /\ pc'["send"] = pc["send"] /\ held'["send"] = held["send"]
    BY <1>1 DEF RecvPopIdle, TypeOK
  <2> QED BY <2>2, <2>3, <2>4 DEF LocalFdInv, TypeOK
<1>2. ASSUME NEW g \in Fds, SendMessageByQueue(g)
      PROVE  LocalFdInv'
  <2>1. idleList \in Seq(Msgs) /\ idleList # <<>>
    BY <1>2 DEF SendMessageByQueue, TypeOK
  <2>2. Head(idleList) \in Msgs /\ Head(idleList) \in Range(idleList)
    BY <2>1, HeadTailFacts
  <2>3. \A t \in Threads : Head(idleList) \notin Owned(t)
    BY <2>2 DEF MessagesConserved, InHand
  <2>4. /\ pc["main"] \in {"recving", "push", "pushmore"} => held["main"] # Head(idleList)
        /\ pc["send"] = "send" => held["send"] # Head(idleList)
    BY <2>2, <2>3 DEF Owned
  <2>5. UNCHANGED <<pc, fd, held>> /\ msgFd' = [msgFd EXCEPT ![Head(idleList)] = g]
    BY <1>2 DEF SendMessageByQueue
  <2> QED BY <2>4, <2>5 DEF LocalFdInv, TypeOK, ControlInv
<1>3. CASE SendPop
  BY <1>3 DEF SendPop, LocalFdInv, TypeOK, ControlInv
<1>4. ASSUME NEW full \in BOOLEAN, RecvPacket(full) \/ RecvOverLimit(full)
      PROVE  LocalFdInv'
  BY <1>4 DEF RecvPacket, RecvOverLimit, MoreOrReturn, LocalFdInv, TypeOK, ControlInv
<1>5. CASE RecvPush \/ RecvEnd \/ RecvAgain \/ OnDisconnect \/ OnAcceptTrue \/ OnAcceptFalse
  BY <1>5 DEF RecvPush, RecvEnd, RecvAgain, OnDisconnect, OnAcceptTrue, OnAcceptFalse,
     MoreOrReturn, LocalFdInv, TypeOK
<1>6. CASE DecideClose
  BY <1>6 DEF DecideClose, Finish, Idle, LocalFdInv, TypeOK
<1>7. ASSUME NEW t \in Threads, OnClose(t) \/ CloseFd(t) \/ ReturnMessage(t)
      PROVE  LocalFdInv'
  BY <1>7 DEF OnClose, CloseFd, ReturnMessage, Idle, LocalFdInv, TypeOK, ControlInv
<1>8. ASSUME NEW h \in Handlers,
             HandlePop(h) \/ ForwardPacket(h) \/ RejectPacket(h) \/ HandleDone(h)
      PROVE  LocalFdInv'
  BY <1>8 DEF HandlePop, ForwardPacket, RejectPacket, HandleDone, CloseSocketIfNeed, LocalFdInv,
     TypeOK, ControlInv
<1>9. CASE SendMessageImmediately \/ SendDone
  BY <1>9 DEF SendMessageImmediately, SendDone, CloseSocketIfNeed, LocalFdInv, TypeOK
<1>10. ASSUME NEW g \in Fds, Accept_Callback(g) \/ Recv_Callback(g) \/ PeerClose(g)
       PROVE  LocalFdInv'
  BY <1>10 DEF Accept_Callback, Recv_Callback, PeerClose, LocalFdInv, TypeOK
<1>11. CASE SendMessagePush \/ UNCHANGED vars
  BY <1>11 DEF SendMessagePush, vars, LocalFdInv
<1> QED
  BY <1>1, <1>2, <1>3, <1>4, <1>5, <1>6, <1>7, <1>8, <1>9, <1>10, <1>11 DEF Next, Terminating

\* Only a packet or a reply ends the time in which nothing is outstanding.
LEMMA DrainedStep ==
    ASSUME TypeInv, MessagesConserved, LocalFdInv, [Next]_vars, NEW f \in Fds, Drained(f)
    PROVE  \/ Drained(f)'
           \/ \E full \in BOOLEAN : RecvPacket(full) /\ fd["main"] = f
           \/ SendMessageByQueue(f)
<1>1. CASE Neutral
  BY <1>1, NeutralStep DEF KeepsCounted, Drained, Outstanding
<1>2. ASSUME NEW full \in BOOLEAN, RecvPacket(full), fd["main"] # f
      PROVE  Drained(f)'
  <2>1. msgFd[held["main"]] = fd["main"]
    BY <1>2 DEF LocalFdInv, RecvPacket, At
  <2> QED BY <1>2, <2>1, RecvPacketStep DEF Drained, Outstanding
<1>3. ASSUME NEW h \in Handlers, HandleDone(h)
      PROVE  Drained(f)'
  BY <1>3, HandleDoneStep DEF Drained, Outstanding
<1>4. ASSUME NEW g \in Fds, SendMessageByQueue(g), g # f
      PROVE  Drained(f)'
  BY <1>4, SendMessageByQueueStep DEF Drained, Outstanding
<1>5. CASE SendMessageImmediately
  <2>1. held["send"] \in Counted /\ msgFd[held["send"]] = fd["send"]
    BY <1>5, SendMessageImmediatelyStep DEF LocalFdInv, SendMessageImmediately, At
  <2>2. fd["send"] # f
    BY <2>1 DEF Drained, Outstanding
  <2> QED BY <1>5, <2>2, SendMessageImmediatelyStep DEF Drained, Outstanding
<1>6. CASE SendDone
  BY <1>6, SendDoneStep DEF Drained, Outstanding
<1> QED BY <1>1, <1>2, <1>3, <1>4, <1>5, <1>6 DEF Next, Neutral, Terminating

\* A thread decides to close what the main thread works on, or what something
\* is outstanding of.
LEMMA ClosingNeeds ==
    ASSUME CloseInv, [Next]_vars, races' = {}, NEW f \in Fds,
           NEW t \in Closers(f)', t \notin Closers(f)
    PROVE  Working(f) \/ ~ Drained(f)
<1>1. TypeInv /\ MessagesConserved
  BY DEF CloseInv
<1>2. ASSUME t \in Handlers, HandleDone(t), msgFd[held[t]] = f
      PROVE  ~ Drained(f)
  BY <1>1, <1>2, HandleDoneStep DEF Drained, Outstanding
<1>3. ASSUME SendDone, msgFd[held["send"]] = f
      PROVE  ~ Drained(f)
  <2>1. fd["send"] = f
    BY <1>3 DEF SendDone
  <2> QED BY <1>1, <1>3, <2>1, SendDoneStep DEF Drained
<1> QED BY <1>1, <1>2, <1>3, ClosingBegins

\* The main thread gets to work on an open connection that is watched.
LEMMA WorkingNeeds ==
    ASSUME CloseInv, [Next]_vars, NEW f \in Fds, Working(f)', ~ Working(f)
    PROVE  (conn[f] = 0 /\ conn'[f] # 0) \/ watching[f] > 0
<1>1. TypeInv
  BY DEF CloseInv
<1>2. CASE Accept_Callback(f)
  BY <1>1, <1>2 DEF Accept_Callback, TypeInv, TypeOK
<1>3. CASE Recv_Callback(f)
  BY <1>3 DEF Recv_Callback
<1> QED BY <1>1, <1>2, <1>3, WorkingBegins

\* Watchers are started where the main thread works, and stopped.
LEMMA WatchingNeeds ==
    ASSUME CloseInv, [Next]_vars, NEW f \in Fds, watching'[f] # watching[f]
    PROVE  Working(f) \/ watching[f] > 0
<1>1. TypeInv
  BY DEF CloseInv
<1> QED BY <1>1, WatchingChanges DEF Working, StopsEvio, At

LEMMA FreeFdStep ==
    ASSUME CloseInv, [Next]_vars, races' = {}
    PROVE  FreeFdInv'
<1> USE DEF CloseInv
<1>1. SUFFICES ASSUME NEW f \in Fds, conn'[f] = 0
               PROVE  /\ Drained(f)' /\ Closers(f)' = {} /\ ~ Working(f)'
                      /\ watching'[f] = 0 /\ clients'[f] = 0 /\ sessions'[f] = 0
  BY DEF FreeFdInv
<1>2. CASE conn[f] = 0
  <2>1. /\ Drained(f) /\ Closers(f) = {} /\ ~ Working(f)
        /\ watching[f] = 0 /\ clients[f] = 0 /\ sessions[f] = 0
    BY <1>2 DEF FreeFdInv
  <2>2. Drained(f)'
    BY <1>2, <2>1, DrainedStep DEF RecvPacket, SendMessageByQueue
  <2>3. Closers(f)' = {}
    BY <2>1, ClosingNeeds
  <2>4. ~ Working(f)'
    BY <1>1, <2>1, WorkingNeeds
  <2>5. watching'[f] = 0
    BY <2>1, WatchingNeeds
  <2>6. clients'[f] = 0 /\ sessions'[f] = 0
    BY <1>2, <2>1, ClientsChange, SessionsChange
  <2> QED BY <2>2, <2>3, <2>4, <2>5, <2>6
<1>3. CASE conn[f] # 0
  <2>1. PICK t \in Threads : CloseFd(t) /\ fd[t] = f
    BY <1>1, <1>3, ConnChanges
  <2>2. pc[t] = "close" /\ t \in Closers(f)
    BY <2>1 DEF CloseFd, At, Closers
  <2>3. /\ Closers(f) = {t} /\ Drained(f) /\ ~ Working(f) /\ watching[f] = 0
        /\ clients[f] = 0 /\ sessions[f] = 0
    BY <2>2 DEF CloserInv
  <2>4. Neutral
    BY <2>1 DEF Neutral
  <2>5. Drained(f)'
    BY <2>3, <2>4, NeutralStep DEF KeepsCounted, Drained, Outstanding
  <2>6. pc' = [pc EXCEPT ![t] = pc'[t]] /\ fd' = fd /\ pc'[t] \in {"idle", "loop", "return"}
        /\ UNCHANGED <<watching, clients, sessions>>
    BY <2>1 DEF CloseFd, Goto, Idle, evio, service, TypeInv, TypeOK
  <2>7. \A u \in Threads : pc'[u] = IF u = t THEN pc'[t] ELSE pc[u]
    BY <2>6 DEF TypeInv, TypeOK
  <2>8. Closers(f)' = {}
    <3>1. ASSUME NEW u \in Closers(f)' PROVE u = t
      BY <2>3, <2>6, <2>7 DEF Closers
    <3>2. t \notin Closers(f)'
      BY <2>6 DEF Closers
    <3> QED BY <3>1, <3>2
  <2>9. ~ Working(f)'
    BY <2>3, <2>6, <2>7 DEF Working, Threads
  <2> QED BY <2>3, <2>5, <2>6, <2>8, <2>9
<1> QED BY <1>2, <1>3

\* OnClose leaves neither client nor session.
LEMMA CloseBegins ==
    ASSUME TypeInv, [Next]_vars, NEW t \in Threads, pc'[t] = "close", pc[t] # "close"
    PROVE  OnClose(t)
<1> USE TcpServerAssumption DEF queues, msgs, evio, tables, threads, service, kernel, ghosts,
        TypeInv, Threads, At, Goto
<1>1. ASSUME NEW u \in Threads, OnClose(u)
      PROVE  u = t
  BY <1>1 DEF OnClose, TypeOK
<1>2. ASSUME NEW u \in Threads, CloseFd(u) \/ ReturnMessage(u)
      PROVE  FALSE
  BY <1>2 DEF CloseFd, ReturnMessage, Idle, TypeOK
<1>3. CASE OnAcceptTrue \/ OnAcceptFalse \/ RecvPopIdle \/ RecvEnd \/ RecvAgain \/ OnDisconnect
  BY <1>3 DEF OnAcceptTrue, OnAcceptFalse, RecvPopIdle, RecvEnd, RecvAgain, OnDisconnect, TypeOK
<1>4. CASE RecvPush \/ DecideClose
  BY <1>4 DEF RecvPush, DecideClose, MoreOrReturn, Finish, Idle, TypeOK
<1>5. ASSUME NEW full \in BOOLEAN, RecvOverLimit(full) \/ RecvPacket(full)
      PROVE  FALSE
  BY <1>5 DEF RecvOverLimit, RecvPacket, MoreOrReturn, TypeOK
<1>6. ASSUME NEW h \in Handlers,
             HandlePop(h) \/ ForwardPacket(h) \/ RejectPacket(h) \/ HandleDone(h)
      PROVE  FALSE
  BY <1>6 DEF HandlePop, ForwardPacket, RejectPacket, HandleDone, CloseSocketIfNeed, TypeOK
<1>7. CASE SendPop \/ SendMessageImmediately \/ SendDone
  BY <1>7 DEF SendPop, SendMessageImmediately, SendDone, CloseSocketIfNeed, TypeOK
<1>8. ASSUME NEW g \in Fds,
             Accept_Callback(g) \/ Recv_Callback(g) \/ PeerClose(g) \/ SendMessageByQueue(g)
      PROVE  FALSE
  BY <1>8 DEF Accept_Callback, Recv_Callback, PeerClose, SendMessageByQueue, TypeOK
<1>9. CASE SendMessagePush \/ UNCHANGED vars
  BY <1>9 DEF SendMessagePush, vars
<1> QED BY <1>1, <1>2, <1>3, <1>4, <1>5, <1>6, <1>7, <1>8, <1>9 DEF Next, Terminating

\* A thread that decided stays until it has closed.
LEMMA CloserStays ==
    ASSUME TypeInv, [Next]_vars, NEW f \in Fds, NEW t \in Closers(f), ~ CloseFd(t)
    PROVE  t \in Closers(f)' /\ (pc[t] = "close" => pc'[t] = "close")
<1> USE TcpServerAssumption DEF queues, msgs, evio, tables, threads, service, kernel, ghosts,
        TypeInv, Threads, At, Goto, Closers
<1>1. ASSUME NEW u \in Threads, OnClose(u) \/ (CloseFd(u) /\ u # t) \/ ReturnMessage(u)
      PROVE  t \in Closers(f)' /\ (pc[t] = "close" => pc'[t] = "close")
  BY <1>1 DEF OnClose, CloseFd, ReturnMessage, Idle, TypeOK
<1>2. CASE OnAcceptTrue \/ OnAcceptFalse \/ RecvPopIdle \/ RecvEnd \/ RecvAgain \/ OnDisconnect
  BY <1>2 DEF OnAcceptTrue, OnAcceptFalse, RecvPopIdle, RecvEnd, RecvAgain, OnDisconnect, TypeOK
<1>3. CASE RecvPush \/ DecideClose
  BY <1>3 DEF RecvPush, DecideClose, MoreOrReturn, Finish, Idle, TypeOK
<1>4. ASSUME NEW full \in BOOLEAN, RecvOverLimit(full) \/ RecvPacket(full)
      PROVE  t \in Closers(f)' /\ (pc[t] = "close" => pc'[t] = "close")
  BY <1>4 DEF RecvOverLimit, RecvPacket, MoreOrReturn, TypeOK
<1>5. ASSUME NEW h \in Handlers,
             HandlePop(h) \/ ForwardPacket(h) \/ RejectPacket(h) \/ HandleDone(h)
      PROVE  t \in Closers(f)' /\ (pc[t] = "close" => pc'[t] = "close")
  BY <1>5 DEF HandlePop, ForwardPacket, RejectPacket, HandleDone, CloseSocketIfNeed, TypeOK
<1>6. CASE SendPop \/ SendMessageImmediately \/ SendDone
  BY <1>6 DEF SendPop, SendMessageImmediately, SendDone, CloseSocketIfNeed, TypeOK
<1>7. ASSUME NEW g \in Fds,
             Accept_Callback(g) \/ Recv_Callback(g) \/ PeerClose(g) \/ SendMessageByQueue(g)
      PROVE  t \in Closers(f)' /\ (pc[t] = "close" => pc'[t] = "close")
  BY <1>7 DEF Accept_Callback, Recv_Callback, PeerClose, SendMessageByQueue, TypeOK
<1>8. CASE SendMessagePush \/ UNCHANGED vars
  BY <1>8 DEF SendMessagePush, vars
<1> QED BY <1>1, <1>2, <1>3, <1>4, <1>5, <1>6, <1>7, <1>8 DEF Next, Terminating

\* What a thread finds that decides to close: the other threads go on, nothing is
\* outstanding, and the main thread is done with the connection.
LEMMA ClosingFinds ==
    ASSUME CloseInv, [Next]_vars, races' = {}, NEW f \in Fds,
           NEW t \in Closers(f)', t \notin Closers(f)
    PROVE  /\ \A u \in Threads \ {t} : pc'[u] = pc[u]
           /\ Drained(f)' /\ ~ Working(f)' /\ watching'[f] = 0
<1> USE TcpServerAssumption DEF CloseInv, At, Goto, tables, threads
<1>1. \/ t = "main" /\ DecideClose /\ Working(f) /\ ClosesNow(f)
      \/ /\ (t \in Handlers /\ HandleDone(t)) \/ (t = "send" /\ SendDone)
         /\ LastMessage(f, handlingCount[f] - 1)
  BY ClosingBegins
<1>2. CountInv'
  BY CountStep
<1>3. t \in Threads /\ pc'[t] \in {"onclose", "close"} /\ fd'[t] = f
  BY DEF Closers
<1>4. ASSUME handlingCount'[f] = 0, Counted' \subseteq Counted
      PROVE  Drained(f)'
  <2>1. Outstanding(f)' \subseteq Msgs
    BY <1>4, CountedAreMsgs DEF Outstanding
  <2>2. /\ Cardinality(Outstanding(f)') \in Nat
        /\ Cardinality(Outstanding(f)') = 0 <=> Outstanding(f)' = {}
    BY <2>1, FS_Subset, FS_CardinalityType, FS_EmptySet, TcpServerAssumption
  <2>3. SendOwes(f)' \in {0, 1} /\ handlingCount'[f] = Cardinality(Outstanding(f)') + SendOwes(f)'
    BY <1>2 DEF CountInv, SendOwes
  <2> QED BY <1>4, <2>2, <2>3 DEF Drained
<1>5. ASSUME t = "main", DecideClose, Working(f), ClosesNow(f)
      PROVE  /\ \A u \in Threads \ {t} : pc'[u] = pc[u]
             /\ Drained(f)' /\ ~ Working(f)' /\ watching'[f] = 0
  <2>1. /\ pc["main"] = "decide" /\ fd["main"] = f /\ handlingCount' = handlingCount
        /\ handlingCount[f] = 0 /\ watching' = watching /\ fd' = fd
        /\ \A u \in Threads \ {"main"} : pc'[u] = pc[u]
    BY <1>3, <1>5 DEF DecideClose, ClosesNow, Working, evio, TypeInv, TypeOK
  <2>2. watching'[f] = 0
    BY <2>1 DEF WorkInv
  <2>3. ~ Working(f)'
    BY <1>3, <1>5 DEF Working
  <2>4. Counted' = Counted
    BY <1>5, NeutralStep DEF Neutral, KeepsCounted
  <2> QED BY <1>4, <1>5, <2>1, <2>2, <2>3, <2>4
<1>6. ASSUME (t \in Handlers /\ HandleDone(t)) \/ (t = "send" /\ SendDone),
             LastMessage(f, handlingCount[f] - 1)
      PROVE  /\ \A u \in Threads \ {t} : pc'[u] = pc[u]
             /\ Drained(f)' /\ ~ Working(f)' /\ watching'[f] = 0
  <2>1. t # "main" /\ \A u \in Threads \ {t} : pc'[u] = pc[u] /\ fd'[u] = fd[u]
    BY <1>3, <1>6 DEF HandleDone, SendDone, CloseSocketIfNeed, TypeInv, TypeOK
  <2>2. (Working(f)' => Working(f)) /\ watching' = watching
    BY <1>6, <2>1 DEF Working, Threads, HandleDone, SendDone, evio
  <2>3. handlingCount' = [handlingCount EXCEPT ![f] = handlingCount[f] - 1]
    BY <1>3, <1>6 DEF HandleDone, SendDone, CloseSocketIfNeed, TypeInv, TypeOK
  <2>4. handlingCount'[f] = 0 /\ closeRecv[f]
    BY <1>6, <2>3 DEF LastMessage, TypeInv, TypeOK
  <2>5. CASE conn[f] = 0
    <3>1. ~ Working(f) /\ Drained(f)
      BY <2>5 DEF FreeFdInv
    <3> QED BY <3>1, ClosingNeeds
  <2>6. CASE conn[f] # 0
    <3>1. ~ Working(f) /\ watching[f] = 0
      BY <2>4, <2>6 DEF CloseRecvInv
    <3>2. Counted' \subseteq Counted
      BY <1>6, HandleDoneStep, SendDoneStep
    <3>3. Drained(f)'
      BY <1>4, <2>4, <3>2
    <3>4. ~ Working(f)'
      BY <2>2, <3>1
    <3>5. watching'[f] = 0
      BY <2>2, <3>1
    <3> QED BY <2>1, <3>3, <3>4, <3>5
  <2> QED BY <2>5, <2>6
<1> QED BY <1>1, <1>5, <1>6

LEMMA CloserStep ==
    ASSUME CloseInv, [Next]_vars, races' = {}
    PROVE  CloserInv'
<1> USE DEF CloseInv
<1>1. SUFFICES ASSUME NEW f \in Fds, NEW t \in Closers(f)'
               PROVE  /\ Closers(f)' = {t}
                      /\ Drained(f)' /\ ~ Working(f)' /\ watching'[f] = 0
                      /\ pc'[t] = "close" => clients'[f] = 0 /\ sessions'[f] = 0
  BY DEF CloserInv
<1>2. CASE Closers(f) = {}
  <2>1. /\ \A u \in Threads \ {t} : pc'[u] = pc[u]
        /\ Drained(f)' /\ ~ Working(f)' /\ watching'[f] = 0
    BY <1>2, ClosingFinds
  <2>2. \A u \in Closers(f)' : pc'[u] = "onclose" /\ pc[u] # "onclose"
    BY <1>2, ClosingBegins DEF DecideClose, HandleDone, SendDone, At
  <2>3. Closers(f)' = {t}
    <3>1. Closers(f)' \subseteq Threads
      BY DEF Closers
    <3> QED BY <1>1, <2>1, <2>2, <3>1
  <2> QED BY <2>1, <2>2, <2>3
<1>3. ASSUME NEW u \in Closers(f)
      PROVE  /\ Closers(f)' = {t}
             /\ Drained(f)' /\ ~ Working(f)' /\ watching'[f] = 0
             /\ pc'[t] = "close" => clients'[f] = 0 /\ sessions'[f] = 0
  <2>1. /\ Closers(f) = {u} /\ Drained(f) /\ ~ Working(f) /\ watching[f] = 0
        /\ pc[u] = "close" => clients[f] = 0 /\ sessions[f] = 0
        /\ conn[f] # 0 /\ u \in Threads /\ pc[u] \in {"onclose", "close"} /\ fd[u] = f
    BY <1>3 DEF CloserInv, FreeFdInv, Closers
  <2>2. t = u /\ Closers(f)' = {t}
    BY <1>1, <2>1, ClosingNeeds
  <2>3. ~ SendMessageByQueue(f)
    BY <2>1 DEF SendMessageByQueue, Closing, At
  <2>4. Drained(f)'
    BY <2>1, <2>3, DrainedStep DEF RecvPacket, Working, At
  <2>5. ~ Working(f)' /\ watching'[f] = 0
    BY <2>1, WorkingNeeds, WatchingNeeds
  <2>6. ASSUME pc[t] = "close"
        PROVE  clients'[f] = 0 /\ sessions'[f] = 0
    <3>1. clients[f] = 0 /\ sessions[f] = 0
      BY <2>1, <2>2, <2>6
    <3>2. clients'[f] = 0
      BY <2>1, <3>1, ClientsChange DEF OnAcceptTrue, Working, At
    <3>3. sessions'[f] = 0
      BY <3>1, SessionsChange
    <3> QED BY <3>2, <3>3
  <2>7. ASSUME pc[t] # "close", pc'[t] = "close"
        PROVE  clients'[f] = 0 /\ sessions'[f] = 0
    <3>1. OnClose(t) /\ fd[t] = f
      BY <2>1, <2>2, <2>7, CloseBegins
    <3>2. sessions[f] # 0 => clients[f] # 0
      BY DEF OwnerInv
    <3> QED BY <3>1, <3>2 DEF OnClose, TypeInv, TypeOK
  <2> QED BY <2>2, <2>4, <2>5, <2>6, <2>7
<1> QED BY <1>2, <1>3

LEMMA CloseRecvStep ==
    ASSUME CloseInv, [Next]_vars, races' = {}
    PROVE  CloseRecvInv'
<1> USE DEF CloseInv
<1>1. SUFFICES ASSUME NEW f \in Fds, closeRecv'[f], conn'[f] # 0
               PROVE  ~ Working(f)' /\ watching'[f] = 0
  BY DEF CloseRecvInv
<1>2. ~ Accept_Callback(f)
  BY <1>1 DEF Accept_Callback, TypeInv, TypeOK
<1>3. CASE closeRecv[f]
  <2>1. conn[f] # 0
    BY <1>1, <1>2, ConnChanges
  <2>2. ~ Working(f) /\ watching[f] = 0
    BY <1>3, <2>1 DEF CloseRecvInv
  <2> QED BY <2>1, <2>2, WorkingNeeds, WatchingNeeds
<1>4. CASE ~ closeRecv[f]
  <2>1. DecideClose /\ fd["main"] = f /\ At("main", "decide") /\ pc'["main"] \in {"loop", "return"}
    BY <1>1, <1>2, <1>4, CloseRecvChanges
  <2>2. watching[f] = 0 /\ UNCHANGED watching
    BY <2>1 DEF WorkInv, DecideClose, At, evio
  <2> QED BY <2>1, <2>2 DEF Working
<1> QED BY <1>3, <1>4

\* What the main thread knows of its connection no other thread changes.
LEMMA WorkStep ==
    ASSUME CloseInv, [Next]_vars
    PROVE  WorkInv'
<1> USE TcpServerAssumption DEF queues, msgs, evio, tables, threads, service, kernel, ghosts,
        CloseInv, TypeInv, Threads, At, Goto
<1>1. ASSUME NEW g \in Fds, Accept_Callback(g)
      PROVE  WorkInv'
  <2>1. watching[g] = 0 /\ clients[g] = 0
    BY <1>1 DEF Accept_Callback, FreeFdInv
  <2> QED BY <1>1, <2>1 DEF Accept_Callback, WorkInv, TypeOK
<1>2. CASE OnAcceptTrue \/ OnAcceptFalse
  BY <1>2 DEF OnAcceptTrue, OnAcceptFalse, WorkInv, TypeOK, ControlInv
<1>3. ASSUME NEW g \in Fds, Recv_Callback(g)
      PROVE  WorkInv'
  <2>1. watching[g] = 1
    BY <1>3 DEF Recv_Callback, OwnerInv
  <2> QED BY <1>3, <2>1 DEF Recv_Callback, WorkInv, TypeOK
<1>4. CASE RecvPopIdle \/ RecvEnd \/ RecvAgain
  BY <1>4 DEF RecvPopIdle, RecvEnd, RecvAgain, WorkInv, TypeOK, ControlInv
<1>5. CASE RecvPush
  BY <1>5 DEF RecvPush, MoreOrReturn, WorkInv, TypeOK
<1>6. ASSUME NEW full \in BOOLEAN, RecvOverLimit(full) \/ RecvPacket(full)
      PROVE  WorkInv'
  BY <1>6 DEF RecvOverLimit, RecvPacket, MoreOrReturn, WorkInv, TypeOK
<1>7. CASE OnDisconnect
  BY <1>7 DEF OnDisconnect, StopEvio, StopsEvio, WorkInv, TypeOK, ControlInv
<1>8. CASE DecideClose
  BY <1>8 DEF DecideClose, Finish, Idle, WorkInv, TypeOK
<1>9. ASSUME NEW t \in Threads, OnClose(t) \/ CloseFd(t) \/ ReturnMessage(t)
      PROVE  WorkInv'
  <2>1. CASE t = "main"
    BY <1>9, <2>1 DEF OnClose, CloseFd, ReturnMessage, Idle, WorkInv, TypeOK
  <2>2. CASE t # "main"
    <3>1. /\ pc'["main"] = pc["main"] /\ fd' = fd /\ held'["main"] = held["main"]
          /\ watching' = watching /\ \A f \in Fds : clients'[f] \in {0, clients[f]}
      BY <1>9, <2>2 DEF OnClose, CloseFd, ReturnMessage, TypeOK
    <3>2. pc["main"] = "accept" => fd["main"] \in Fds
      BY DEF ControlInv
    <3> QED BY <3>1, <3>2 DEF WorkInv
  <2> QED BY <2>1, <2>2
<1>10. ASSUME NEW h \in Handlers,
              HandlePop(h) \/ ForwardPacket(h) \/ RejectPacket(h) \/ HandleDone(h)
       PROVE  WorkInv'
  <2>1. /\ pc'["main"] = pc["main"] /\ fd'["main"] = fd["main"] /\ held'["main"] = held["main"]
        /\ watching' = watching /\ clients' = clients
    BY <1>10 DEF HandlePop, ForwardPacket, RejectPacket, HandleDone, CloseSocketIfNeed, TypeOK
  <2> QED BY <2>1 DEF WorkInv
<1>11. CASE SendPop \/ SendMessageImmediately \/ SendDone
  <2>1. /\ pc'["main"] = pc["main"] /\ fd'["main"] = fd["main"] /\ held'["main"] = held["main"]
        /\ watching' = watching /\ clients' = clients
    BY <1>11 DEF SendPop, SendMessageImmediately, SendDone, CloseSocketIfNeed, TypeOK
  <2> QED BY <2>1 DEF WorkInv
<1>12. ASSUME NEW g \in Fds, PeerClose(g) \/ SendMessageByQueue(g)
       PROVE  WorkInv'
  BY <1>12 DEF PeerClose, SendMessageByQueue, WorkInv
<1>13. CASE SendMessagePush \/ UNCHANGED vars
  BY <1>13 DEF SendMessagePush, vars, WorkInv
<1> QED
  BY <1>1, <1>2, <1>3, <1>4, <1>5, <1>6, <1>7, <1>8, <1>9, <1>10, <1>11, <1>12, <1>13
  DEF Next, Terminating

\* A connection is opened where nothing is, and closed by a thread that is alone
\* with it.
LEMMA ConnNeeds ==
    ASSUME CloseInv, [Next]_vars, NEW f \in Fds, conn'[f] # conn[f]
    PROVE  /\ Drained(f) /\ ~ Working(f) /\ watching[f] = 0 /\ clients[f] = 0 /\ sessions[f] = 0
           /\ UNCHANGED <<watching, clients, sessions>>
<1> USE DEF CloseInv
<1>1. CASE Accept_Callback(f) /\ conn[f] = 0
  BY <1>1 DEF Accept_Callback, FreeFdInv, evio, service
<1>2. ASSUME NEW t \in Threads, CloseFd(t), fd[t] = f
      PROVE  /\ Drained(f) /\ ~ Working(f) /\ watching[f] = 0 /\ clients[f] = 0 /\ sessions[f] = 0
             /\ UNCHANGED <<watching, clients, sessions>>
  <2>1. t \in Closers(f) /\ pc[t] = "close"
    BY <1>2 DEF CloseFd, At, Closers
  <2> QED BY <1>2, <2>1 DEF CloserInv, CloseFd, evio, service
<1> QED BY <1>1, <1>2, ConnChanges

LEMMA OwnerStep ==
    ASSUME CloseInv, [Next]_vars, races' = {}
    PROVE  OwnerInv'
<1> USE DEF CloseInv
<1>1. SUFFICES ASSUME NEW f \in Fds
               PROVE  /\ watching'[f] \in {0, 1}
                      /\ watching'[f] = 1 => clients'[f] = conn'[f]
                      /\ clients'[f] \in {0, conn'[f]} /\ sessions'[f] \in {0, conn'[f]}
                      /\ sessions'[f] # 0 => clients'[f] # 0
  BY DEF OwnerInv
<1>2. /\ watching[f] \in {0, 1} /\ (watching[f] = 1 => clients[f] = conn[f])
      /\ clients[f] \in {0, conn[f]} /\ sessions[f] \in {0, conn[f]}
      /\ sessions[f] # 0 => clients[f] # 0
  BY DEF OwnerInv
<1>3. CASE conn'[f] # conn[f]
  BY <1>3, ConnNeeds
<1>4. CASE conn'[f] = conn[f]
  <2>1. ASSUME OnAcceptTrue, fd["main"] = f
        PROVE  /\ watching'[f] \in {0, 1} /\ clients'[f] = conn[f] /\ sessions'[f] = sessions[f]
               /\ clients[f] = 0
    <3>1. watching[f] = 0 /\ clients[f] = 0
      BY <2>1 DEF OnAcceptTrue, WorkInv, At
    <3> QED BY <2>1, <3>1 DEF OnAcceptTrue, evio, TypeInv, TypeOK
  <2>2. ASSUME NEW t \in Threads, OnClose(t), fd[t] = f
        PROVE  /\ watching[f] = 0 /\ watching' = watching
               /\ clients'[f] = 0 /\ sessions'[f] = 0
    <3>1. t \in Closers(f)
      BY <2>2 DEF OnClose, At, Closers
    <3>2. watching[f] = 0
      BY <3>1 DEF CloserInv
    <3> QED BY <1>2, <2>2, <3>2 DEF OnClose, evio, TypeInv, TypeOK
  <2>3. CASE OnAcceptTrue /\ fd["main"] = f
    BY <1>2, <1>4, <2>1, <2>3
  <2>4. CASE \E t \in Threads : OnClose(t) /\ fd[t] = f
    BY <1>4, <2>2, <2>4
  <2>5. CASE /\ ~ (OnAcceptTrue /\ fd["main"] = f)
             /\ ~ \E t \in Threads : OnClose(t) /\ fd[t] = f
    <3>1. clients'[f] = clients[f]
      BY <2>5, ClientsChange
    <3>2. watching'[f] = watching[f] \/ (watching[f] = 1 /\ watching'[f] = 0)
      BY <1>2, <2>5, WatchingChanges DEF StopsEvio
    <3>3. sessions'[f] = sessions[f] \/ (sessions'[f] = clients[f] /\ clients[f] # 0)
      BY <2>5, SessionsChange
    <3> QED BY <1>2, <1>4, <3>1, <3>2, <3>3
  <2> QED BY <2>3, <2>4, <2>5
<1> QED BY <1>3, <1>4

\* Counted messages carry a descriptor.
LEMMA CountedFilled ==
    ASSUME TypeInv, NEW m \in Counted
    PROVE  msgFd[m] \in Fds
<1>1. \A t \in Threads : Busy(t) => held[t] # NoMsg /\ msgFd[held[t]] \in Fds
  BY BusyOwns, TcpServerAssumption DEF TypeInv, FilledInv
<1> QED BY <1>1 DEF Counted, TypeInv, FilledInv

\* What a step does to the messages that are counted after it.
LEMMA CountedAfter ==
    ASSUME CloseInv, [Next]_vars, NEW m \in Counted'
    PROVE  \/ m \in Counted /\ msgFd'[m] = msgFd[m] /\ msgConn'[m] = msgConn[m]
           \/ /\ m \notin Counted /\ m = held["main"] /\ UNCHANGED <<msgFd, msgConn>>
              /\ \E full \in BOOLEAN : RecvPacket(full)
           \/ \E f \in Fds : /\ SendMessageByQueue(f) /\ m \notin Counted
                             /\ msgFd'[m] = f /\ msgConn'[m] = sessions[f]
<1> USE DEF CloseInv
<1>1. CASE Neutral
  BY <1>1, NeutralStep DEF KeepsCounted
<1>2. ASSUME NEW full \in BOOLEAN, RecvPacket(full)
      PROVE  \/ m \in Counted /\ msgFd'[m] = msgFd[m] /\ msgConn'[m] = msgConn[m]
             \/ m \notin Counted /\ m = held["main"] /\ UNCHANGED <<msgFd, msgConn>>
  BY <1>2, RecvPacketStep
<1>3. ASSUME NEW h \in Handlers, HandleDone(h)
      PROVE  m \in Counted /\ msgFd'[m] = msgFd[m] /\ msgConn'[m] = msgConn[m]
  BY <1>3, HandleDoneStep
<1>4. ASSUME NEW f \in Fds, SendMessageByQueue(f)
      PROVE  \/ m \in Counted /\ msgFd'[m] = msgFd[m] /\ msgConn'[m] = msgConn[m]
             \/ m \notin Counted /\ msgFd'[m] = f /\ msgConn'[m] = sessions[f]
  BY <1>4, SendMessageByQueueStep
<1>5. CASE SendMessageImmediately
  BY <1>5, SendMessageImmediatelyStep
<1>6. CASE SendDone
  BY <1>6, SendDoneStep
<1> QED BY <1>1, <1>2, <1>3, <1>4, <1>5, <1>6 DEF Next, Neutral, Terminating

\* A packet comes from the main thread, and stays one until its handler is done.
LEMMA PacketsAfter ==
    ASSUME TypeInv, [Next]_vars, NEW m \in Packets'
    PROVE  m \in Packets \/ (RecvPush /\ m = held["main"])
<1> USE TcpServerAssumption DEF queues, msgs, evio, tables, threads, service, kernel, ghosts,
        TypeInv, Threads, At, Goto
<1>1. CASE RecvPush
  <2>1. Range(handleList') = Range(handleList) \cup {held["main"]}
    BY <1>1, AppendFacts DEF RecvPush, TypeOK, ControlInv
  <2>2. \A h \in Handlers : (Busy(h)' => Busy(h)) /\ held'[h] = held[h]
    BY <1>1 DEF RecvPush, Busy, TypeOK
  <2> QED BY <1>1, <2>1, <2>2 DEF Packets
<1>2. ASSUME NEW g \in Handlers, HandlePop(g)
      PROVE  m \in Packets
  <2>1. handleList \in Seq(Msgs) /\ handleList # <<>>
    BY <1>2 DEF HandlePop, TypeOK
  <2>2. Range(handleList) = Range(handleList') \cup {held'[g]}
    BY <1>2, <2>1, HeadTailFacts DEF HandlePop, TypeOK
  <2>3. \A h \in Handlers \ {g} : (Busy(h)' => Busy(h)) /\ held'[h] = held[h]
    BY <1>2 DEF HandlePop, Busy, TypeOK
  <2> QED BY <2>2, <2>3 DEF Packets
<1>3. ASSUME UNCHANGED handleList,
             \A h \in Handlers : Busy(h)' => Busy(h) /\ held'[h] = held[h]
      PROVE  m \in Packets
  BY <1>3 DEF Packets
<1>4. ASSUME NEW h \in Handlers, ForwardPacket(h) \/ RejectPacket(h) \/ HandleDone(h)
      PROVE  m \in Packets
  <2>1. UNCHANGED <<handleList, held>>
    BY <1>4 DEF ForwardPacket, RejectPacket, HandleDone
  <2>2. \A g \in Handlers : Busy(g)' => Busy(g)
    BY <1>4 DEF ForwardPacket, RejectPacket, HandleDone, CloseSocketIfNeed, Busy, TypeOK
  <2> QED BY <1>3, <2>1, <2>2
<1>5. ASSUME NEW t \in Threads, OnClose(t) \/ CloseFd(t) \/ ReturnMessage(t)
      PROVE  m \in Packets
  <2>1. UNCHANGED handleList
    BY <1>5 DEF OnClose, CloseFd, ReturnMessage
  <2>2. \A g \in Handlers : Busy(g)' => Busy(g) /\ held'[g] = held[g]
    BY <1>5 DEF OnClose, CloseFd, ReturnMessage, Idle, Busy, TypeOK, ControlInv
  <2> QED BY <1>3, <2>1, <2>2
<1>6. CASE OnAcceptTrue \/ OnAcceptFalse \/ RecvPopIdle \/ RecvEnd \/ RecvAgain \/ OnDisconnect
           \/ DecideClose
  <2>1. UNCHANGED handleList
    BY <1>6 DEF OnAcceptTrue, OnAcceptFalse, RecvPopIdle, RecvEnd, RecvAgain, OnDisconnect,
       DecideClose
  <2>2. \A g \in Handlers : pc'[g] = pc[g] /\ held'[g] = held[g]
    BY <1>6 DEF OnAcceptTrue, OnAcceptFalse, RecvPopIdle, RecvEnd, RecvAgain, OnDisconnect,
       DecideClose, Finish, TypeOK
  <2> QED BY <1>3, <2>1, <2>2 DEF Busy
<1>7. ASSUME NEW full \in BOOLEAN, RecvOverLimit(full) \/ RecvPacket(full)
      PROVE  m \in Packets
  <2>1. UNCHANGED handleList
    BY <1>7 DEF RecvOverLimit, RecvPacket
  <2>2. \A g \in Handlers : pc'[g] = pc[g] /\ held'[g] = held[g]
    BY <1>7 DEF RecvOverLimit, RecvPacket, TypeOK
  <2> QED BY <1>3, <2>1, <2>2 DEF Busy
<1>8. CASE SendPop \/ SendMessageImmediately \/ SendDone
  <2>1. UNCHANGED handleList
    BY <1>8 DEF SendPop, SendMessageImmediately, SendDone
  <2>2. \A g \in Handlers : pc'[g] = pc[g] /\ held'[g] = held[g]
    BY <1>8 DEF SendPop, SendMessageImmediately, SendDone, CloseSocketIfNeed, TypeOK
  <2> QED BY <1>3, <2>1, <2>2 DEF Busy
<1>9. ASSUME NEW g \in Fds,
             Accept_Callback(g) \/ Recv_Callback(g) \/ PeerClose(g) \/ SendMessageByQueue(g)
      PROVE  m \in Packets
  <2>1. UNCHANGED <<handleList, held>>
    BY <1>9 DEF Accept_Callback, Recv_Callback, PeerClose, SendMessageByQueue
  <2>2. \A h \in Handlers : pc'[h] = pc[h]
    BY <1>9 DEF Accept_Callback, Recv_Callback, PeerClose, SendMessageByQueue, TypeOK
  <2> QED BY <1>3, <2>1, <2>2 DEF Busy
<1>10. CASE SendMessagePush \/ UNCHANGED vars
  BY <1>3, <1>10 DEF SendMessagePush, vars, Busy
<1> QED
  BY <1>1, <1>2, <1>4, <1>5, <1>6, <1>7, <1>8, <1>9, <1>10 DEF Next, Terminating

LEMMA PacketsAreCounted == TypeInv => Packets \subseteq Counted
BY TcpServerAssumption DEF Packets, Counted, Threads

LEMMA MessageStep ==
    ASSUME CloseInv, [Next]_vars, races' = {}
    PROVE  MessageInv'
<1> USE DEF CloseInv
<1>1. ASSUME NEW m \in Counted'
      PROVE  msgConn'[m] = conn'[msgFd'[m]]
  <2>1. CASE m \in Counted /\ msgFd'[m] = msgFd[m] /\ msgConn'[m] = msgConn[m]
    <3>1. msgConn[m] = conn[msgFd[m]] /\ msgFd[m] \in Fds
      BY <2>1, CountedFilled DEF MessageInv
    <3>2. ~ Drained(msgFd[m])
      BY <2>1 DEF Drained, Outstanding
    <3>3. conn'[msgFd[m]] = conn[msgFd[m]]
      BY <3>1, <3>2, ConnNeeds
    <3> QED BY <2>1, <3>1, <3>3
  <2>2. ASSUME NEW full \in BOOLEAN, RecvPacket(full), m = held["main"],
               UNCHANGED <<msgFd, msgConn>>
        PROVE  msgConn'[m] = conn'[msgFd'[m]]
    <3>1. pc["main"] = "recving" /\ conn' = conn
      BY <2>2 DEF RecvPacket, At, kernel
    <3> QED BY <2>2, <3>1 DEF MessageInv, LocalFdInv
  <2>3. ASSUME NEW f \in Fds, SendMessageByQueue(f), msgFd'[m] = f, msgConn'[m] = sessions[f]
        PROVE  msgConn'[m] = conn'[msgFd'[m]]
    BY <2>3 DEF OwnerInv, SendMessageByQueue, kernel
  <2> QED BY <2>1, <2>2, <2>3, CountedAfter
<1>2. ASSUME pc'["main"] = "recving"
      PROVE  msgConn'[held'["main"]] = conn'[fd'["main"]]
  <2> USE TcpServerAssumption DEF queues, msgs, evio, tables, threads, service, kernel, ghosts,
          TypeInv, Threads, At, Goto
  <2>1. CASE RecvPopIdle
    <3>1. Head(idleList) \in Msgs
      BY <2>1, HeadTailFacts DEF RecvPopIdle, TypeOK
    <3> QED BY <2>1, <3>1 DEF RecvPopIdle, TypeOK
  <2>2. CASE pc["main"] # "recving" /\ ~ RecvPopIdle
    <3>1. CASE OnAcceptTrue \/ OnAcceptFalse \/ RecvEnd \/ RecvAgain \/ OnDisconnect \/ RecvPush
               \/ DecideClose
      BY <1>2, <2>2, <3>1 DEF OnAcceptTrue, OnAcceptFalse, RecvEnd, RecvAgain, OnDisconnect,
         RecvPush, DecideClose, MoreOrReturn, Finish, Idle, TypeOK
    <3>2. ASSUME NEW full \in BOOLEAN, RecvOverLimit(full) \/ RecvPacket(full)
          PROVE  FALSE
      BY <2>2, <3>2 DEF RecvOverLimit, RecvPacket
    <3>3. ASSUME NEW t \in Threads, OnClose(t) \/ CloseFd(t) \/ ReturnMessage(t)
          PROVE  FALSE
      BY <1>2, <2>2, <3>3 DEF OnClose, CloseFd, ReturnMessage, Idle, TypeOK
    <3>4. ASSUME NEW h \in Handlers,
                 HandlePop(h) \/ ForwardPacket(h) \/ RejectPacket(h) \/ HandleDone(h)
          PROVE  FALSE
      BY <1>2, <2>2, <3>4 DEF HandlePop, ForwardPacket, RejectPacket, HandleDone,
         CloseSocketIfNeed, TypeOK
    <3>5. CASE SendPop \/ SendMessageImmediately \/ SendDone
      BY <1>2, <2>2, <3>5 DEF SendPop, SendMessageImmediately, SendDone, CloseSocketIfNeed, TypeOK
    <3>6. ASSUME NEW g \in Fds,
                 Accept_Callback(g) \/ Recv_Callback(g) \/ PeerClose(g) \/ SendMessageByQueue(g)
          PROVE  FALSE
      BY <1>2, <2>2, <3>6 DEF Accept_Callback, Recv_Callback, PeerClose, SendMessageByQueue, TypeOK
    <3>7. CASE SendMessagePush \/ UNCHANGED vars
      BY <1>2, <2>2, <3>7 DEF SendMessagePush, vars
    <3> QED BY <2>2, <3>1, <3>2, <3>3, <3>4, <3>5, <3>6, <3>7 DEF Next, Terminating
  <2>3. CASE pc["main"] = "recving" /\ ~ RecvPopIdle
    <3>1. /\ msgConn[held["main"]] = conn[fd["main"]] /\ held["main"] \in Msgs
          /\ fd["main"] \in Fds /\ Working(fd["main"])
      BY <2>3 DEF MessageInv, ControlInv, TypeOK, Working
    <3>2. conn'[fd["main"]] = conn[fd["main"]]
      BY <3>1, ConnNeeds
    <3>3. held'["main"] = held["main"] /\ fd'["main"] = fd["main"]
      <4>1. CASE OnAcceptTrue \/ OnAcceptFalse \/ RecvEnd \/ RecvAgain \/ OnDisconnect \/ RecvPush
                 \/ DecideClose
        BY <1>2, <2>3, <4>1 DEF OnAcceptTrue, OnAcceptFalse, RecvEnd, RecvAgain, OnDisconnect,
           RecvPush, DecideClose
      <4>2. ASSUME NEW full \in BOOLEAN, RecvOverLimit(full) \/ RecvPacket(full)
            PROVE  FALSE
        BY <1>2, <2>3, <4>2 DEF RecvOverLimit, RecvPacket, MoreOrReturn, TypeOK
      <4>3. ASSUME NEW t \in Threads, OnClose(t) \/ CloseFd(t) \/ ReturnMessage(t)
            PROVE  held'["main"] = held["main"] /\ fd'["main"] = fd["main"]
        BY <1>2, <2>3, <4>3 DEF OnClose, CloseFd, ReturnMessage, Idle, TypeOK
      <4>4. ASSUME NEW h \in Handlers,
                   HandlePop(h) \/ ForwardPacket(h) \/ RejectPacket(h) \/ HandleDone(h)
            PROVE  held'["main"] = held["main"] /\ fd'["main"] = fd["main"]
        BY <4>4 DEF HandlePop, ForwardPacket, RejectPacket, HandleDone, CloseSocketIfNeed, TypeOK
      <4>5. CASE SendPop \/ SendMessageImmediately \/ SendDone
        BY <4>5 DEF SendPop, SendMessageImmediately, SendDone, CloseSocketIfNeed, TypeOK
      <4>6. ASSUME NEW g \in Fds,
                   Accept_Callback(g) \/ Recv_Callback(g) \/ PeerClose(g) \/ SendMessageByQueue(g)
            PROVE  held'["main"] = held["main"] /\ fd'["main"] = fd["main"]
        BY <2>3, <4>6 DEF Accept_Callback, Recv_Callback, PeerClose, SendMessageByQueue
      <4>7. CASE SendMessagePush \/ UNCHANGED vars
        BY <4>7 DEF SendMessagePush, vars
      <4> QED BY <2>3, <4>1, <4>2, <4>3, <4>4, <4>5, <4>6, <4>7 DEF Next, Terminating
    <3>4. msgConn'[held["main"]] = msgConn[held["main"]]
      <4>1. CASE \A f \in Fds : ~ SendMessageByQueue(f)
        BY <2>3, <4>1 DEF Next, Terminating, vars, PeerClose, Accept_Callback, Recv_Callback,
           OnAcceptTrue, OnAcceptFalse, RecvPush, RecvEnd, RecvAgain, RecvOverLimit, RecvPacket,
           OnDisconnect, DecideClose, OnClose, CloseFd, ReturnMessage, HandlePop, ForwardPacket,
           RejectPacket, HandleDone, SendMessagePush, SendPop, SendMessageImmediately, SendDone
      <4>2. ASSUME NEW f \in Fds, SendMessageByQueue(f)
            PROVE  msgConn'[held["main"]] = msgConn[held["main"]]
        <5>1. idleList \in Seq(Msgs) /\ idleList # <<>>
          BY <4>2 DEF SendMessageByQueue, TypeOK
        <5>2. Head(idleList) \in Range(idleList)
          BY <5>1, HeadTailFacts
        <5>3. held["main"] \in Owned("main")
          BY <2>3, <3>1 DEF Owned
        <5>4. held["main"] # Head(idleList)
          BY <5>2, <5>3 DEF MessagesConserved, InHand
        <5> QED BY <3>1, <4>2, <5>4 DEF SendMessageByQueue, TypeOK
      <4> QED BY <4>1, <4>2
    <3> QED BY <3>1, <3>2, <3>3, <3>4
  <2> QED BY <2>1, <2>2, <2>3
<1>3. ASSUME NEW m \in Packets'
      PROVE  clients'[msgFd'[m]] = conn'[msgFd'[m]]
  <2>1. ASSUME m \in Packets
        PROVE  msgFd'[m] = msgFd[m]
    <3>1. m \in Counted
      BY <2>1, PacketsAreCounted
    <3>2. m \in Counted'
      <4>1. TypeInv'
        BY TypeStep
      <4> QED BY <1>3, <4>1, TcpServerAssumption DEF Packets, Counted, Threads
    <3> QED BY <3>1, <3>2, CountedAfter
  <2>2. CASE m \in Packets
    <3>1. /\ m \in Counted /\ msgFd[m] \in Fds /\ clients[msgFd[m]] = conn[msgFd[m]]
          /\ ~ Drained(msgFd[m])
      BY <2>2, PacketsAreCounted, CountedFilled DEF MessageInv, Drained, Outstanding
    <3>2. conn'[msgFd[m]] = conn[msgFd[m]] /\ conn[msgFd[m]] # 0
      BY <3>1, ConnNeeds DEF FreeFdInv
    <3>3. ASSUME NEW t \in Threads, OnClose(t), fd[t] = msgFd[m]
          PROVE  FALSE
      <4>1. t \in Closers(msgFd[m])
        BY <3>3 DEF OnClose, At, Closers
      <4> QED BY <3>1, <4>1 DEF CloserInv
    <3>4. clients'[msgFd[m]] = clients[msgFd[m]]
      BY <3>1, <3>2, <3>3, ClientsChange
    <3> QED BY <2>1, <2>2, <3>1, <3>2, <3>4
  <2>3. CASE RecvPush /\ m = held["main"]
    <3>1. fd["main"] \in Fds /\ watching[fd["main"]] = 1 /\ msgFd[m] = fd["main"]
      BY <2>3 DEF RecvPush, WorkInv, LocalFdInv, TypeInv, ControlInv
    <3>2. UNCHANGED <<clients, conn, msgFd>>
      BY <2>3 DEF RecvPush, service, kernel, msgs
    <3> QED BY <3>1, <3>2 DEF OwnerInv
  <2> QED BY <2>2, <2>3, PacketsAfter
<1> QED BY <1>1, <1>2, <1>3 DEF MessageInv

LEMMA ConnStep ==
    ASSUME CloseInv, [Next]_vars, races' = {}
    PROVE  ConnInv'
<1> USE TcpServerAssumption DEF CloseInv, At
<1>1. nconn \in Nat /\ nconn' \in Nat /\ nconn <= nconn' /\ closedConns \subseteq Conns
      /\ \A f \in Fds : conn[f] \in Nat
  <2>1. TypeInv'
    BY TypeStep
  <2>2. nconn' = nconn \/ nconn' = nconn + 1
    BY DEF Next, Terminating, vars, kernel, PeerClose, Accept_Callback, Recv_Callback,
       OnAcceptTrue, OnAcceptFalse, RecvPopIdle, RecvPush, RecvEnd, RecvAgain, RecvOverLimit,
       RecvPacket, OnDisconnect, DecideClose, OnClose, CloseFd, ReturnMessage, HandlePop,
       ForwardPacket, RejectPacket, HandleDone, SendMessageByQueue, SendMessagePush, SendPop,
       SendMessageImmediately, SendDone
  <2> QED BY <2>2 DEF TypeInv, TypeOK
<1>2. /\ \A f \in Fds : conn[f] <= nconn
      /\ \A f, g \in Fds : conn[f] = conn[g] /\ conn[f] # 0 => f = g
      /\ \A c \in closedConns : c <= nconn /\ c # 0
      /\ \A f \in Fds : conn[f] \in closedConns => \E t \in Closers(f) : pc[t] = "close"
  BY <1>1 DEF ConnInv, Conns
<1>3. ASSUME NEW g \in Fds, Accept_Callback(g)
      PROVE  ConnInv'
  <2>1. /\ conn' = [conn EXCEPT ![g] = nconn + 1] /\ nconn' = nconn + 1 /\ conn[g] = 0
        /\ closedConns' = closedConns /\ \A t \in Threads : ~ CloseFd(t)
    BY <1>3 DEF Accept_Callback, ghosts, CloseFd, TypeInv, TypeOK
  <2>2. \A f \in Fds : conn'[f] = IF f = g THEN nconn + 1 ELSE conn[f]
    BY <2>1 DEF TypeInv, TypeOK
  <2>3. ASSUME NEW f \in Fds, conn'[f] \in closedConns
        PROVE  \E t \in Closers(f)' : pc'[t] = "close"
    <3>1. f # g /\ conn[f] \in closedConns
      BY <1>1, <1>2, <2>2, <2>3
    <3>2. PICK t \in Closers(f) : pc[t] = "close"
      BY <1>2, <3>1
    <3> QED BY <2>1, <3>2, CloserStays DEF Closers
  <2>4. /\ \A f \in Fds : conn'[f] <= nconn'
        /\ \A c \in closedConns' : c <= nconn'
    BY <1>1, <1>2, <2>1, <2>2, <2>3 DEF Conns
  <2>5. \A f, h \in Fds : conn'[f] = conn'[h] /\ conn'[f] # 0 => f = h
    BY <1>1, <1>2, <2>2
  <2> QED BY <2>1, <2>3, <2>4, <2>5 DEF ConnInv
<1>4. ASSUME NEW u \in Threads, CloseFd(u)
      PROVE  ConnInv'
  <2>1. /\ conn' = [conn EXCEPT ![fd[u]] = 0] /\ nconn' = nconn /\ closedConns' = closedConns
    BY <1>4 DEF CloseFd, ghosts
  <2>2. \A f \in Fds : conn'[f] = IF f = fd[u] THEN 0 ELSE conn[f]
    BY <2>1 DEF TypeInv, TypeOK
  <2>3. ASSUME NEW f \in Fds, conn'[f] \in closedConns
        PROVE  \E t \in Closers(f)' : pc'[t] = "close"
    <3>1. f # fd[u] /\ conn[f] \in closedConns
      BY <1>2, <2>2, <2>3
    <3>2. PICK t \in Closers(f) : pc[t] = "close"
      BY <1>2, <3>1
    <3>3. t \in Threads /\ t # u /\ fd[t] = f
      BY <3>1, <3>2 DEF Closers
    <3>4. pc'[t] = pc[t] /\ fd' = fd
      BY <1>4, <3>3 DEF CloseFd, Goto, TypeInv, TypeOK
    <3> QED BY <3>2, <3>3, <3>4 DEF Closers
  <2> QED BY <1>1, <1>2, <2>1, <2>2, <2>3 DEF ConnInv
<1>5. ASSUME NEW u \in Threads, OnClose(u)
      PROVE  ConnInv'
  <2>1. /\ UNCHANGED <<conn, nconn>> /\ closedConns' = closedConns \cup ({conn[fd[u]]} \ {0})
        /\ pc' = [pc EXCEPT ![u] = "close"] /\ fd' = fd /\ fd[u] \in Fds
    BY <1>5 DEF OnClose, kernel, threads, Goto, TypeInv, ControlInv, Threads
  <2>2. ASSUME NEW f \in Fds, conn[f] \in closedConns'
        PROVE  \E t \in Closers(f)' : pc'[t] = "close"
    <3>1. CASE f = fd[u]
      BY <2>1, <3>1 DEF Closers, TypeInv, TypeOK
    <3>2. CASE f # fd[u]
      <4>1. conn[f] \in closedConns
        BY <1>2, <2>1, <2>2, <3>2
      <4>2. PICK t \in Closers(f) : pc[t] = "close"
        BY <1>2, <4>1
      <4>3. t \in Threads /\ fd[t] = f /\ pc'[t] = "close"
        BY <2>1, <4>2 DEF Closers, TypeInv, TypeOK
      <4> QED BY <2>1, <4>3 DEF Closers
    <3> QED BY <3>1, <3>2
  <2> QED BY <1>1, <1>2, <2>1, <2>2 DEF ConnInv
<1>6. ASSUME \A g \in Fds : ~ Accept_Callback(g), \A t \in Threads : ~ CloseFd(t) /\ ~ OnClose(t)
      PROVE  ConnInv'
  <2>1. closedConns' = closedConns
    BY <1>6, ClosedConnsChange
  <2>2. \A f \in Fds : conn'[f] = conn[f]
    BY <1>6, ConnChanges
  <2>3. ASSUME NEW f \in Fds, conn[f] \in closedConns
        PROVE  \E t \in Closers(f)' : pc'[t] = "close"
    <3>1. PICK t \in Closers(f) : pc[t] = "close"
      BY <1>2, <2>3
    <3> QED BY <1>6, <3>1, CloserStays DEF Closers
  <2>4. /\ \A f \in Fds : conn'[f] <= nconn'
        /\ \A c \in closedConns' : c <= nconn'
    BY <1>1, <1>2, <2>1, <2>2 DEF Conns
  <2>5. \A f, h \in Fds : conn'[f] = conn'[h] /\ conn'[f] # 0 => f = h
    BY <1>2, <2>2
  <2> QED BY <2>1, <2>2, <2>3, <2>4, <2>5 DEF ConnInv
<1> QED BY <1>3, <1>4, <1>5, <1>6

-----------------------------------------------------------------------------
\* All steps but four leave the numbers alone: what is queued keeps its number
\* and descriptor, and so does what the main thread is about to queue.
LEMMA NumbersKept ==
    ASSUME TypeInv, MessagesConserved, [Next]_vars, ~ RecvPush,
           \A f \in Fds : ~ Accept_Callback(f), \A full \in BOOLEAN : ~ RecvPacket(full),
           \A h \in Handlers : ~ HandlePop(h)
    PROVE  /\ handleList' = handleList /\ seqRecv' = seqRecv
           /\ \A m \in Range(handleList) : msgFd'[m] = msgFd[m] /\ msgSeq'[m] = msgSeq[m]
           /\ pc'["main"] \in {"push", "pushmore"} <=> pc["main"] \in {"push", "pushmore"}
           /\ pc["main"] \in {"push", "pushmore"} =>
                 /\ UNCHANGED msgSeq
                 /\ fd'["main"] = fd["main"] /\ held'["main"] = held["main"]
<1> USE TcpServerAssumption DEF queues, msgs, evio, tables, threads, service, kernel, ghosts,
        TypeInv, Threads, At, Goto
<1> DEFINE Kept == /\ handleList' = handleList /\ seqRecv' = seqRecv
                   /\ \A m \in Range(handleList) : msgFd'[m] = msgFd[m] /\ msgSeq'[m] = msgSeq[m]
                   /\ pc'["main"] \in {"push", "pushmore"} <=> pc["main"] \in {"push", "pushmore"}
                   /\ pc["main"] \in {"push", "pushmore"} =>
                         /\ UNCHANGED msgSeq
                         /\ fd'["main"] = fd["main"] /\ held'["main"] = held["main"]
<1>1. CASE RecvPopIdle
  <2>1. idleList \in Seq(Msgs) /\ idleList # <<>> /\ Range(handleList) \subseteq Msgs
    BY <1>1, RangeOfMsgs DEF RecvPopIdle, TypeOK
  <2>2. Head(idleList) \in Range(idleList)
    BY <2>1, HeadTailFacts
  <2>3. Head(idleList) \notin Range(handleList)
    BY <2>2 DEF MessagesConserved
  <2> QED BY <1>1, <2>1, <2>3 DEF RecvPopIdle, TypeOK
<1>2. ASSUME NEW g \in Fds, SendMessageByQueue(g)
      PROVE  Kept
  <2>1. idleList \in Seq(Msgs) /\ idleList # <<>> /\ Range(handleList) \subseteq Msgs
    BY <1>2, RangeOfMsgs DEF SendMessageByQueue, TypeOK
  <2>2. Head(idleList) \in Range(idleList)
    BY <2>1, HeadTailFacts
  <2>3. Head(idleList) \notin Range(handleList)
    BY <2>2 DEF MessagesConserved
  <2> QED BY <1>2, <2>1, <2>3 DEF SendMessageByQueue, TypeOK
<1>3. CASE SendPop
  BY <1>3 DEF SendPop, TypeOK
<1>4. ASSUME NEW full \in BOOLEAN, RecvOverLimit(full)
      PROVE  Kept
  BY <1>4 DEF RecvOverLimit, MoreOrReturn, TypeOK
<1>5. CASE RecvEnd \/ RecvAgain \/ OnDisconnect \/ OnAcceptTrue \/ OnAcceptFalse
  BY <1>5 DEF RecvEnd, RecvAgain, OnDisconnect, OnAcceptTrue, OnAcceptFalse, TypeOK
<1>6. CASE DecideClose
  BY <1>6 DEF DecideClose, Finish, Idle, TypeOK
<1>7. ASSUME NEW t \in Threads, OnClose(t) \/ CloseFd(t) \/ ReturnMessage(t)
      PROVE  Kept
  BY <1>7 DEF OnClose, CloseFd, ReturnMessage, Idle, TypeOK, ControlInv
<1>8. ASSUME NEW h \in Handlers, ForwardPacket(h) \/ RejectPacket(h) \/ HandleDone(h)
      PROVE  Kept
  BY <1>8 DEF ForwardPacket, RejectPacket, HandleDone, CloseSocketIfNeed, TypeOK
<1>9. CASE SendMessageImmediately \/ SendDone
  BY <1>9 DEF SendMessageImmediately, SendDone, CloseSocketIfNeed, TypeOK
<1>10. ASSUME NEW g \in Fds, Recv_Callback(g) \/ PeerClose(g)
       PROVE  Kept
  BY <1>10 DEF Recv_Callback, PeerClose, TypeOK
<1>11. CASE SendMessagePush \/ UNCHANGED vars
  BY <1>11 DEF SendMessagePush, vars
<1> QED
  BY <1>1, <1>2, <1>3, <1>4, <1>5, <1>6, <1>7, <1>8, <1>9, <1>10, <1>11 DEF Next, Terminating

\* How many packets of a descriptor stand in the queue is a number.
LEMMA PlacesFinite ==
    ASSUME handleList \in Seq(Msgs), NEW i \in Int, NEW f
    PROVE  IsFiniteSet(PlacesFrom(i, f)) /\ Cardinality(PlacesFrom(i, f)) \in Nat
<1>1. Len(handleList) \in Int
  OBVIOUS
<1>2. IsFiniteSet(i .. Len(handleList))
  BY <1>1, FS_Interval
<1> QED BY <1>2, FS_Subset, FS_CardinalityType DEF PlacesFrom

\* As long as the queue and what is in it stay, so does the order.
LEMMA OrderKept ==
    ASSUME TypeInv, PacketsNumberedInOrder, races = {}, handleList' = handleList,
           \A m \in Range(handleList) :
               /\ msgFd'[m] = msgFd[m] /\ msgSeq'[m] = msgSeq[m]
               /\ NextQueued(msgFd[m])' = NextQueued(msgFd[m])
    PROVE  PacketsNumberedInOrder'
<1>1. ASSUME NEW i \in DOMAIN handleList
      PROVE  LET f == msgFd[handleList[i]]
             IN  msgSeq'[handleList[i]] = NextQueued(f)' - Cardinality(PlacesFrom(i, f))'
  <2>1. \A j \in DOMAIN handleList : handleList[j] \in Range(handleList)
    BY DEF Range
  <2>2. \A j \in i .. Len(handleList) : j \in DOMAIN handleList
    BY <1>1 DEF TypeInv, TypeOK
  <2>3. PlacesFrom(i, msgFd[handleList[i]])' = PlacesFrom(i, msgFd[handleList[i]])
    BY <1>1, <2>1, <2>2 DEF PlacesFrom
  <2>4. msgSeq[handleList[i]]
          = NextQueued(msgFd[handleList[i]]) - Cardinality(PlacesFrom(i, msgFd[handleList[i]]))
    BY <1>1 DEF PacketsNumberedInOrder
  <2> QED BY <1>1, <2>1, <2>3, <2>4
<1> QED BY <1>1 DEF PacketsNumberedInOrder

\* A packet that is pushed is the last one and has the last number.
LEMMA OrderPushed ==
    ASSUME TypeInv, MessagesConserved, LocalFdInv, NumberInv, races = {}, RecvPush
    PROVE  PacketsNumberedInOrder'
<1> SUFFICES ASSUME NEW n, n = Len(handleList), NEW g, g = fd["main"], NEW x, x = held["main"]
             PROVE  PacketsNumberedInOrder'
  OBVIOUS
<1>1. /\ handleList \in Seq(Msgs) /\ n \in Nat /\ DOMAIN handleList = 1 .. n
      /\ seqRecv \in [Fds -> Int] /\ msgSeq \in [Msgs -> Int]
  BY DEF TypeInv, TypeOK
<1>2. pc["main"] \in {"push", "pushmore"}
  BY DEF RecvPush
<1>3. g \in Fds /\ x \in Msgs /\ msgFd[x] = g /\ msgSeq[x] = seqRecv[g] - 1
  <2>1. g \in Fds /\ x \in Msgs
    BY <1>2, TcpServerAssumption DEF TypeInv, TypeOK, ControlInv, Threads
  <2>2. msgFd[x] = g /\ msgSeq[x] = seqRecv[g] - 1
    BY <1>2 DEF LocalFdInv, NumberInv
  <2> QED BY <2>1, <2>2
<1>4. /\ handleList' = Append(handleList, x)
      /\ msgFd' = msgFd /\ msgSeq' = msgSeq /\ seqRecv' = seqRecv
      /\ pc'["main"] \notin {"push", "pushmore"}
  BY DEF RecvPush, TypeInv, TypeOK, msgs, tables, threads, MoreOrReturn, Goto, At, Threads
<1>5. /\ Len(handleList') = n + 1 /\ DOMAIN handleList' = 1 .. (n + 1)
      /\ \A i \in 1 .. n : handleList'[i] = handleList[i]
      /\ handleList'[n + 1] = x
  BY <1>1, <1>3, <1>4
<1>6. \A f \in Fds : /\ NextQueued(f)' = seqRecv[f]
                     /\ NextQueued(f) = IF f = g THEN seqRecv[f] - 1 ELSE seqRecv[f]
  BY <1>2, <1>4 DEF NextQueued
<1>7. ASSUME NEW i \in 1 .. n, NEW f \in Fds
      PROVE  PlacesFrom(i, f)' = IF f = g THEN PlacesFrom(i, f) \cup {n + 1} ELSE PlacesFrom(i, f)
  <2>1. i .. (n + 1) = (i .. n) \cup {n + 1}
    <3>1. i \in Int /\ n \in Int /\ i <= n
      BY <1>1, <1>7
    <3>2. \A j \in i .. (n + 1) : j \in i .. n \/ j = n + 1
      BY <3>1
    <3>3. \A j \in i .. n : j \in i .. (n + 1)
      BY <3>1
    <3>4. n + 1 \in i .. (n + 1)
      BY <3>1
    <3> QED BY <3>2, <3>3, <3>4
  <2>2. \A j \in i .. n : handleList'[j] = handleList[j]
    BY <1>1, <1>5, <1>7
  <2>3. PlacesFrom(i, f)' = {j \in i .. (n + 1) : msgFd[handleList'[j]] = f}
    BY <1>4, <1>5 DEF PlacesFrom
  <2>4. PlacesFrom(i, f) = {j \in i .. n : msgFd[handleList[j]] = f}
    BY DEF PlacesFrom
  <2> QED BY <1>3, <1>5, <2>1, <2>2, <2>3, <2>4
<1>8. ASSUME NEW i \in 1 .. n, NEW f, f = msgFd[handleList[i]]
      PROVE  msgSeq[handleList[i]] = NextQueued(f)' - Cardinality(PlacesFrom(i, f))'
  <2>1. i \in Int /\ n + 1 \notin PlacesFrom(i, f)
    BY <1>1 DEF PlacesFrom
  <2> DEFINE c == Cardinality(PlacesFrom(i, f))
  <2>2. IsFiniteSet(PlacesFrom(i, f)) /\ c \in Nat
    BY <1>1, <2>1, PlacesFinite
  <2>3. Cardinality(PlacesFrom(i, f) \cup {n + 1}) = c + 1
    BY <2>1, <2>2, FS_AddElement
  <2>4. handleList[i] \in Range(handleList) /\ handleList[i] \in Msgs
    <3>1. i \in DOMAIN handleList /\ handleList[i] \in Msgs
      BY <1>1
    <3> QED BY <3>1 DEF Range
  <2>5. f \in Fds
    BY <1>8, <2>4 DEF TypeInv, FilledInv
  <2>6. msgSeq[handleList[i]] = NextQueued(f) - c
    BY <1>1, <1>8 DEF NumberInv, PacketsNumberedInOrder
  <2>7. \A a, s, d \in Int : a = (s - 1) - d => a = s - (d + 1)
    OBVIOUS
  <2>8. msgSeq[handleList[i]] \in Int /\ seqRecv[f] \in Int /\ c \in Int
    BY <1>1, <2>2, <2>4, <2>5
  <2>9. CASE f = g
    <3>1. Cardinality(PlacesFrom(i, f))' = c + 1
      BY <1>7, <2>3, <2>5, <2>9
    <3>2. NextQueued(f)' = seqRecv[f] /\ NextQueued(f) = seqRecv[f] - 1
      BY <1>6, <2>5, <2>9
    <3> HIDE DEF c
    <3> QED BY <2>6, <2>7, <2>8, <3>1, <3>2
  <2>10. CASE f # g
    <3>1. Cardinality(PlacesFrom(i, f))' = c
      BY <1>7, <2>5, <2>10
    <3>2. NextQueued(f)' = seqRecv[f] /\ NextQueued(f) = seqRecv[f]
      BY <1>6, <2>5, <2>10
    <3> HIDE DEF c
    <3> QED BY <2>6, <3>1, <3>2
  <2> QED BY <2>9, <2>10
<1>9. msgSeq[x] = NextQueued(g)' - Cardinality(PlacesFrom(n + 1, g))'
  <2>1. (n + 1) .. (n + 1) = {n + 1}
    BY <1>1
  <2>2. PlacesFrom(n + 1, g)' = {n + 1}
    BY <1>3, <1>4, <1>5, <2>1 DEF PlacesFrom
  <2>3. Cardinality({n + 1}) = 1
    BY FS_Singleton
  <2> QED BY <1>3, <1>6, <2>2, <2>3
<1>10. ASSUME NEW i \in DOMAIN handleList', NEW f, f = msgFd'[handleList'[i]]
       PROVE  msgSeq'[handleList'[i]] = NextQueued(f)' - Cardinality(PlacesFrom(i, f))'
  <2>1. i \in 1 .. n \/ i = n + 1
    BY <1>1, <1>5
  <2>2. CASE i \in 1 .. n
    BY <1>4, <1>5, <1>8, <1>10, <2>2
  <2>3. CASE i = n + 1
    BY <1>3, <1>4, <1>5, <1>9, <1>10, <2>3
  <2> QED BY <2>1, <2>2, <2>3
<1> QED BY <1>10 DEF PacketsNumberedInOrder

\* A packet that is popped leaves the others with their numbers.
LEMMA OrderPopped ==
    ASSUME TypeInv, NumberInv, races = {}, NEW h \in Handlers, HandlePop(h)
    PROVE  PacketsNumberedInOrder'
<1> SUFFICES ASSUME NEW n, n = Len(handleList)
             PROVE  PacketsNumberedInOrder'
  OBVIOUS
<1>1. /\ handleList \in Seq(Msgs) /\ handleList # <<>> /\ handleList' = Tail(handleList)
      /\ msgFd' = msgFd /\ msgSeq' = msgSeq /\ seqRecv' = seqRecv /\ fd' = fd
      /\ pc'["main"] = pc["main"]
  BY TcpServerAssumption DEF HandlePop, TypeInv, TypeOK, msgs, tables, Goto, At, Threads
<1>2. /\ n \in Nat \ {0} /\ Len(handleList') = n - 1 /\ handleList' \in Seq(Msgs)
      /\ DOMAIN handleList = 1 .. n /\ DOMAIN handleList' = 1 .. (n - 1)
      /\ \A i \in 1 .. (n - 1) : handleList'[i] = handleList[i + 1]
  BY <1>1
<1>3. \A f : NextQueued(f)' = NextQueued(f)
  BY <1>1 DEF NextQueued
<1>4. ASSUME NEW i \in 1 .. (n - 1), NEW f
      PROVE  Cardinality(PlacesFrom(i, f))' = Cardinality(PlacesFrom(i + 1, f))
  <2> DEFINE S == {j \in i .. (n - 1) : msgFd[handleList[j + 1]] = f}
             T == {j \in (i + 1) .. n : msgFd[handleList[j]] = f}
             shift == [j \in S |-> j + 1]
  <2>1. PlacesFrom(i, f)' = S
    <3>1. \A j \in i .. (n - 1) : handleList'[j] = handleList[j + 1]
      BY <1>2
    <3>2. PlacesFrom(i, f)' = {j \in i .. (n - 1) : msgFd[handleList'[j]] = f}
      BY <1>1, <1>2 DEF PlacesFrom
    <3> QED BY <3>1, <3>2
  <2>2. PlacesFrom(i + 1, f) = T
    BY DEF PlacesFrom
  <2>3. IsFiniteSet(S)
    <3>1. i \in Int /\ n - 1 \in Int
      BY <1>2
    <3>2. IsFiniteSet(i .. (n - 1))
      BY <3>1, FS_Interval
    <3> QED BY <3>2, FS_Subset
  <2>4. shift \in Bijection(S, T)
    <3>1. \A j \in S : j \in Int /\ j + 1 \in T
      BY <1>2
    <3>2. \A j \in T : j - 1 \in S /\ (j - 1) + 1 = j
      BY <1>2
    <3>3. shift \in [S -> T]
      BY <3>1
    <3>4. \A j, k \in S : shift[j] = shift[k] => j = k
      BY <3>1
    <3>5. \A k \in T : \E j \in S : shift[j] = k
      BY <3>2
    <3> HIDE DEF S, T, shift
    <3> QED BY <3>3, <3>4, <3>5 DEF Bijection, Injection, Surjection, IsInjective
  <2> HIDE DEF S, T, shift
  <2>5. Cardinality(T) = Cardinality(S)
    BY <2>3, <2>4, FS_Bijection DEF ExistsBijection
  <2> QED BY <2>1, <2>2, <2>5
<1>5. ASSUME NEW i \in DOMAIN handleList', NEW f, f = msgFd'[handleList'[i]]
      PROVE  msgSeq'[handleList'[i]] = NextQueued(f)' - Cardinality(PlacesFrom(i, f))'
  <2>1. i \in 1 .. (n - 1) /\ i + 1 \in DOMAIN handleList /\ handleList'[i] = handleList[i + 1]
    BY <1>2
  <2>2. f = msgFd[handleList[i + 1]]
    BY <1>1, <1>5, <2>1
  <2>3. msgSeq[handleList[i + 1]] = NextQueued(f) - Cardinality(PlacesFrom(i + 1, f))
    BY <2>1, <2>2 DEF NumberInv, PacketsNumberedInOrder
  <2> QED BY <1>1, <1>3, <1>4, <2>1, <2>3
<1> QED BY <1>5 DEF PacketsNumberedInOrder

\* The order survives every step: Accept_Callback starts the numbers of a
\* descriptor anew when nothing of it is queued, RecvPacket gives the number
\* that comes next, and no packet leaves the queue but the first.
LEMMA NumberStep ==
    ASSUME CloseInv, NumberInv, [Next]_vars, races = {}
    PROVE  NumberInv'
<1> USE DEF CloseInv
<1> DEFINE Held == pc["main"] \in {"push", "pushmore"}
                     => msgSeq[held["main"]] = seqRecv[fd["main"]] - 1
<1>1. CASE RecvPush
  <2>1. pc'["main"] \notin {"push", "pushmore"}
    BY <1>1 DEF RecvPush, TypeInv, TypeOK, MoreOrReturn, Goto, At, Threads
  <2> QED BY <1>1, <2>1, OrderPushed DEF NumberInv
<1>2. ASSUME NEW h \in Handlers, HandlePop(h)
      PROVE  NumberInv'
  <2>1. /\ pc'["main"] = pc["main"] /\ held'["main"] = held["main"]
        /\ UNCHANGED <<fd, msgSeq, seqRecv>>
    BY <1>2, TcpServerAssumption DEF HandlePop, TypeInv, TypeOK, msgs, tables, Goto, At, Threads
  <2> QED BY <1>2, <2>1, OrderPopped DEF NumberInv
<1>3. ASSUME NEW g \in Fds, Accept_Callback(g)
      PROVE  NumberInv'
  <2>1. /\ UNCHANGED <<handleList, msgFd, msgSeq>>
        /\ pc["main"] = "loop" /\ pc'["main"] = "accept"
        /\ \A f \in Fds : f # g => seqRecv'[f] = seqRecv[f]
    BY <1>3 DEF Accept_Callback, TypeInv, TypeOK, queues, msgs, Goto, At, Threads
  <2>2. \A m \in Range(handleList) : msgFd[m] \in Fds /\ msgFd[m] # g
    <3>1. Outstanding(g) = {}
      BY <1>3 DEF Accept_Callback, FreeFdInv, Drained
    <3> QED BY <3>1 DEF Outstanding, Counted, TypeInv, FilledInv
  <2>3. PacketsNumberedInOrder'
    BY <2>1, <2>2, OrderKept DEF NumberInv, NextQueued
  <2> QED BY <2>1, <2>3 DEF NumberInv
<1>4. ASSUME NEW full \in BOOLEAN, RecvPacket(full)
      PROVE  NumberInv'
  <2>1. /\ UNCHANGED <<handleList, msgFd, fd, held>>
        /\ pc["main"] = "recving" /\ pc'["main"] \in {"push", "pushmore"}
        /\ msgSeq' = [msgSeq EXCEPT ![held["main"]] = seqRecv[fd["main"]]]
        /\ seqRecv' = [seqRecv EXCEPT ![fd["main"]] = @ + 1]
    BY <1>4 DEF RecvPacket, TypeInv, TypeOK, queues, Goto, At, Threads, MoreOrReturn
  <2>2. /\ fd["main"] \in Fds /\ held["main"] \in Msgs
        /\ msgSeq \in [Msgs -> Nat] /\ seqRecv \in [Fds -> 0 .. MaxSeq]
    BY <2>1, TcpServerAssumption DEF TypeInv, TypeOK, ControlInv, Threads
  <2>3. held["main"] \notin Counted
    BY <1>4, RecvPacketStep
  <2>4. \A m \in Range(handleList) : msgSeq'[m] = msgSeq[m] /\ msgFd[m] \in Fds
    BY <2>1, <2>3, RangeOfMsgs DEF Counted, TypeInv, TypeOK, FilledInv
  <2>5. \A a \in Int : a = (a + 1) - 1
    OBVIOUS
  <2>6. \A f \in Fds : NextQueued(f)' = NextQueued(f)
    BY <2>1, <2>2, <2>5 DEF NextQueued
  <2>7. PacketsNumberedInOrder'
    BY <2>1, <2>4, <2>6, OrderKept DEF NumberInv
  <2>8. msgSeq'[held'["main"]] = seqRecv'[fd'["main"]] - 1
    BY <2>1, <2>2
  <2> QED BY <2>1, <2>7, <2>8 DEF NumberInv
<1>5. CASE /\ ~ RecvPush /\ \A f \in Fds : ~ Accept_Callback(f)
           /\ \A full \in BOOLEAN : ~ RecvPacket(full)
           /\ \A h \in Handlers : ~ HandlePop(h)
  <2>1. /\ handleList' = handleList /\ seqRecv' = seqRecv
        /\ \A m \in Range(handleList) : msgFd'[m] = msgFd[m] /\ msgSeq'[m] = msgSeq[m]
        /\ pc'["main"] \in {"push", "pushmore"} <=> pc["main"] \in {"push", "pushmore"}
        /\ pc["main"] \in {"push", "pushmore"} =>
              /\ UNCHANGED msgSeq
              /\ fd'["main"] = fd["main"] /\ held'["main"] = held["main"]
    BY <1>5, NumbersKept
  <2>2. \A m \in Range(handleList) : NextQueued(msgFd[m])' = NextQueued(msgFd[m])
    BY <2>1 DEF NextQueued
  <2>3. PacketsNumberedInOrder'
    BY <2>1, <2>2, OrderKept DEF NumberInv
  <2> QED BY <2>1, <2>3 DEF NumberInv
<1> QED BY <1>1, <1>2, <1>3, <1>4, <1>5

\* Nothing is numbered at first.
LEMMA NumberStart == Init => NumberInv
<1> SUFFICES ASSUME Init PROVE NumberInv
  OBVIOUS
<1>1. pc["main"] = "loop" /\ handleList = <<>>
  BY DEF Init, Idle, Threads
<1> QED BY <1>1 DEF NumberInv, PacketsNumberedInOrder

\* Every watcher Start allocates is in the list.
LEMMA WatcherStart == Init => WatcherInv
<1> SUFFICES ASSUME Init PROVE WatcherInv
  OBVIOUS
<1>1. Started = {}
  <2>1. 1 .. 0 = {}
    OBVIOUS
  <2>2. \A f \in Fds : {f} \X (1 .. watching[f]) = {}
    BY <2>1 DEF Init
  <2> QED BY <2>2 DEF Started
<1>2. watcherList = MaxWatchers /\ MaxWatchers \in Nat
  BY TcpServerAssumption DEF Init
<1> QED BY <1>1, <1>2, FS_EmptySet DEF WatcherInv

\* A watcher is started.
LEMMA StartedMore ==
    ASSUME watching \in [Fds -> Nat], NEW f \in Fds,
           watching' = [watching EXCEPT ![f] = @ + 1]
    PROVE  <<f, watching[f] + 1>> \notin Started
           /\ Started' = Started \cup {<<f, watching[f] + 1>>}
<1> DEFINE n == watching[f]
<1>1. n \in Nat /\ 1 .. (n + 1) = (1 .. n) \cup {n + 1} /\ n + 1 \notin 1 .. n
  BY DEF n
<1>2. \A p : p \in Started <=> \E g \in Fds : \E k \in 1 .. watching[g] : p = <<g, k>>
  BY DEF Started
<1>3. \A p : p \in Started' <=> \E g \in Fds : \E k \in 1 .. watching'[g] : p = <<g, k>>
  BY DEF Started
<1>4. \A g \in Fds : 1 .. watching'[g] = IF g = f THEN (1 .. n) \cup {n + 1} ELSE 1 .. watching[g]
  BY <1>1
<1>5. <<f, n + 1>> \notin Started
  BY <1>1, <1>2
<1>6. Started' = Started \cup {<<f, n + 1>>}
  BY <1>1, <1>2, <1>3, <1>4
<1> QED BY <1>5, <1>6

\* A watcher is stopped.
LEMMA StartedLess ==
    ASSUME watching \in [Fds -> Nat], NEW f \in Fds, watching[f] > 0,
           watching' = [watching EXCEPT ![f] = @ - 1]
    PROVE  <<f, watching[f]>> \in Started /\ Started' = Started \ {<<f, watching[f]>>}
<1> DEFINE n == watching[f]
<1>1. n \in Nat /\ n \in 1 .. n /\ 1 .. (n - 1) = (1 .. n) \ {n}
  BY DEF n
<1>2. \A p : p \in Started <=> \E g \in Fds : \E k \in 1 .. watching[g] : p = <<g, k>>
  BY DEF Started
<1>3. \A p : p \in Started' <=> \E g \in Fds : \E k \in 1 .. watching'[g] : p = <<g, k>>
  BY DEF Started
<1>4. \A g \in Fds : 1 .. watching'[g] = IF g = f THEN (1 .. n) \ {n} ELSE 1 .. watching[g]
  BY <1>1
<1>5. <<f, n>> \in Started
  BY <1>1, <1>2
<1>6. Started' = Started \ {<<f, n>>}
  BY <1>1, <1>2, <1>3, <1>4
<1> QED BY <1>5, <1>6

\* OnAcceptTrue takes a watcher from the list and starts it, OnDisconnect stops
\* one and puts it back; nothing else touches them.
LEMMA WatcherStep == TypeInv /\ WatcherInv /\ [Next]_vars => WatcherInv'
<1> SUFFICES ASSUME TypeInv, WatcherInv, [Next]_vars PROVE WatcherInv'
  OBVIOUS
<1> USE DEF TypeInv, At
<1>1. /\ watching \in [Fds -> Nat] /\ watcherList \in Nat
      /\ IsFiniteSet(Started) /\ Cardinality(Started) \in Nat
      /\ watcherList + Cardinality(Started) = MaxWatchers
  BY FS_CardinalityType DEF TypeOK, WatcherInv
<1>2. CASE UNCHANGED evio
  BY <1>2 DEF WatcherInv, Started, evio
<1>3. ASSUME OnAcceptTrue, ~ UNCHANGED evio
      PROVE  WatcherInv'
  <2> SUFFICES ASSUME NEW f, f = fd["main"]
               PROVE  WatcherInv'
    OBVIOUS
  <2>1. /\ f \in Fds /\ watcherList' = watcherList - 1
        /\ watching' = [watching EXCEPT ![f] = @ + 1]
    BY <1>3 DEF OnAcceptTrue, ControlInv
  <2>2. <<f, watching[f] + 1>> \notin Started /\ Started' = Started \cup {<<f, watching[f] + 1>>}
    BY <1>1, <2>1, StartedMore
  <2>3. IsFiniteSet(Started') /\ Cardinality(Started') = Cardinality(Started) + 1
    BY <1>1, <2>2, FS_AddElement
  <2> QED BY <1>1, <2>1, <2>3 DEF WatcherInv
<1>4. ASSUME OnDisconnect, ~ UNCHANGED evio
      PROVE  WatcherInv'
  <2> SUFFICES ASSUME NEW f, f = fd["main"]
               PROVE  WatcherInv'
    OBVIOUS
  <2>1. /\ f \in Fds /\ watcherList' = watcherList + 1 /\ watching[f] > 0
        /\ watching' = [watching EXCEPT ![f] = @ - 1]
    BY <1>4 DEF OnDisconnect, StopsEvio, StopEvio, ControlInv
  <2>2. <<f, watching[f]>> \in Started /\ Started' = Started \ {<<f, watching[f]>>}
    BY <1>1, <2>1, StartedLess
  <2>3. IsFiniteSet(Started') /\ Cardinality(Started') = Cardinality(Started) - 1
    BY <1>1, <2>2, FS_RemoveElement
  <2> QED BY <1>1, <2>1, <2>3 DEF WatcherInv
<1>5. CASE ~ OnAcceptTrue /\ ~ OnDisconnect
  <2>1. UNCHANGED evio
    BY <1>5 DEF PeerClose, Accept_Callback, Recv_Callback, OnAcceptFalse, RecvPopIdle, RecvPush,
       RecvEnd, RecvAgain, RecvOverLimit, RecvPacket, DecideClose, OnClose, CloseFd,
       ReturnMessage, HandlePop, ForwardPacket, RejectPacket, HandleDone,
       SendMessageByQueue, SendMessagePush, SendPop, SendMessageImmediately, SendDone,
       Terminating, vars, Next
  <2> QED BY <1>2, <2>1
<1> QED BY <1>2, <1>3, <1>4, <1>5

\* A race that was entered is not forgotten.
LEMMA RacesStay == ASSUME [Next]_vars, races' = {} PROVE races = {}
BY DEF Next, Terminating, vars, ghosts, PeerClose, Accept_Callback, Recv_Callback, OnAcceptTrue,
   OnAcceptFalse, RecvPopIdle, RecvPush, RecvEnd, RecvAgain, RecvOverLimit, RecvPacket,
   OnDisconnect, DecideClose, OnClose, CloseFd, ReturnMessage, HandlePop, ForwardPacket,
   RejectPacket, HandleDone, SendMessageByQueue, SendMessagePush, SendPop,
   SendMessageImmediately, SendDone

\* Start: nothing is counted, open, worked on or decided.
LEMMA CloseInit == Init => InductiveInv
<1> SUFFICES ASSUME Init PROVE InductiveInv
  OBVIOUS
<1> USE TcpServerAssumption
<1>1. TypeInv /\ MessagesConserved
  BY TypeInit, MessagesInit
<1>2. /\ \A t \in Threads : pc[t] \in {"loop", "idle"}
      /\ pc["main"] = "loop" /\ pc["send"] = "idle"
  BY DEF Init, Idle, Threads
<1>3. Counted = {}
  <2>1. Range(<<>>) = {}
    BY DEF Range
  <2>2. \A t \in Threads : ~ Busy(t)
    BY <1>2 DEF Busy
  <2> QED BY <2>1, <2>2 DEF Init, Counted
<1>4. \A f \in Fds : Outstanding(f) = {} /\ SendOwes(f) = 0 /\ Closers(f) = {} /\ ~ Working(f)
  <2>1. \A f \in Fds : Outstanding(f) = {}
    BY <1>3 DEF Outstanding
  <2>2. \A f \in Fds : SendOwes(f) = 0 /\ Closers(f) = {} /\ ~ Working(f)
    BY <1>2 DEF SendOwes, Closers, Working, At
  <2> QED BY <2>1, <2>2
<1>5. CountExact
  <2>1. \A f \in Fds : handlingCount[f] = 0
    BY DEF Init
  <2>2. Cardinality({}) = 0
    BY FS_EmptySet
  <2> QED BY <1>4, <2>1, <2>2 DEF CountExact
<1>6. FreeFdInv /\ CloserInv /\ CloseRecvInv /\ OwnerInv
  BY <1>4 DEF Init, FreeFdInv, CloserInv, CloseRecvInv, OwnerInv, Drained
<1>7. LocalFdInv /\ WorkInv
  BY <1>2 DEF LocalFdInv, WorkInv
<1>8. MessageInv
  <2>1. Packets = {}
    BY <1>1, <1>3, PacketsAreCounted
  <2> QED BY <1>2, <1>3, <2>1 DEF MessageInv
<1>9. ConnInv
  BY DEF Init, ConnInv
<1>10. NumberInv /\ WatcherInv
  BY NumberStart, WatcherStart
<1> QED BY <1>1, <1>5, <1>6, <1>7, <1>8, <1>9, <1>10 DEF InductiveInv, QuietInv

LEMMA CloseStep == InductiveInv /\ [Next]_vars => InductiveInv'
<1> SUFFICES ASSUME InductiveInv, [Next]_vars PROVE InductiveInv'
  OBVIOUS
<1>1. TypeInv' /\ MessagesConserved' /\ LocalFdInv' /\ WatcherInv'
  BY TypeStep, MessagesStep, LocalFdStep, WatcherStep DEF InductiveInv
<1>2. ASSUME races' = {}
      PROVE  QuietInv'
  <2>1. races = {}
    BY <1>2, RacesStay
  <2>2. CloseInv
    BY <2>1 DEF InductiveInv, QuietInv, CloseInv, CountExact, CountInv
  <2>3. CountInv'
    BY <1>2, <2>2, CountStep DEF CloseInv
  <2>4. FreeFdInv' /\ CloserInv' /\ CloseRecvInv' /\ WorkInv'
    BY <1>2, <2>2, FreeFdStep, CloserStep, CloseRecvStep, WorkStep
  <2>5. OwnerInv' /\ MessageInv' /\ ConnInv'
    BY <1>2, <2>2, OwnerStep, MessageStep, ConnStep
  <2>6. NumberInv'
    BY <2>1, <2>2, NumberStep DEF InductiveInv, QuietInv
  <2> QED BY <2>3, <2>4, <2>5, <2>6 DEF QuietInv, CountExact, CountInv
<1> QED BY <1>1, <1>2 DEF InductiveInv

(***************************************************************************)
(* The invariant of the close protocol holds in every behaviour, for any   *)
(* number of descriptors, messages and handlers (TcpServer.cpp 737-1229).  *)
(***************************************************************************)
THEOREM CloseProtocol == Spec => []InductiveInv
BY CloseInit, CloseStep, PTL DEF Spec

(***************************************************************************)
(* Until a race is entered the counter is exact and a connection is closed *)
(* by one thread only, with nothing outstanding, once.                     *)
(***************************************************************************)
THEOREM ClosesOnce == Spec => []ClosedOnce
<1>1. InductiveInv => ClosedOnce
  <2> SUFFICES ASSUME InductiveInv, races = {} PROVE ClosedOnce
    BY DEF ClosedOnce, CountExact
  <2>1. CountExact /\ FreeFdInv /\ CloserInv /\ ConnInv
    BY DEF InductiveInv, QuietInv
  <2>2. ASSUME NEW f \in Fds, NEW t \in Closers(f)
        PROVE  /\ Closers(f) = {t} /\ conn[f] # 0
               /\ Outstanding(f) = {} /\ SendOwes(f) = 0
               /\ At(t, "onclose") => conn[f] \notin closedConns
    <3>1. Closers(f) = {t} /\ Outstanding(f) = {} /\ SendOwes(f) = 0
      BY <2>1, <2>2 DEF CloserInv, Drained
    <3>2. conn[f] # 0
      BY <2>1, <2>2 DEF FreeFdInv
    <3>3. pc[t] = "onclose" => conn[f] \notin closedConns
      BY <2>1, <3>1 DEF ConnInv
    <3> QED BY <3>1, <3>2, <3>3 DEF At
  <2> QED BY <2>1, <2>2 DEF ClosedOnce
<1> QED BY <1>1, CloseProtocol, PTL

(***************************************************************************)
(* Until a race is entered packets find the Client of their connection and *)
(* replies the connection they are for.                                    *)
(***************************************************************************)
THEOREM ConnectionsKept == Spec => []MessagesKeepConnection
<1>1. InductiveInv => MessagesKeepConnection
  <2> SUFFICES ASSUME InductiveInv, races = {} PROVE MessagesKeepConnection
    BY DEF MessagesKeepConnection
  <2>1. TypeInv /\ LocalFdInv /\ MessageInv
    BY DEF InductiveInv, QuietInv
  <2>2. PacketKeepsClient
    BY <2>1, PacketsAreCounted DEF PacketKeepsClient, MessageInv
  <2>3. Range(sendList) \cup ({reply} \ {NoMsg}) \subseteq Counted
    BY DEF Counted
  <2>4. ASSUME At("send", "send")
        PROVE  msgConn[held["send"]] = conn[fd["send"]]
    <3>1. held["send"] \in Counted /\ msgFd[held["send"]] = fd["send"]
      BY <2>1, <2>4 DEF At, Counted, Busy, Threads, LocalFdInv
    <3> QED BY <2>1, <3>1 DEF MessageInv
  <2> QED BY <2>1, <2>2, <2>3, <2>4 DEF MessagesKeepConnection, MessageInv
<1> QED BY <1>1, CloseProtocol, PTL

(***************************************************************************)
(* Until a race is entered the packets of a connection stand in the handle *)
(* queue with consecutive numbers, the newest just below mpPacketSeqRecv,  *)
(* whatever the limit of the queue drops and however descriptors are used  *)
(* again: no number is missing that Client::ParseData would wait for       *)
(* (TcpServer.cpp 793-817, 617).                                           *)
(***************************************************************************)
THEOREM NumberedCorrect == Spec => []PacketsNumberedInOrder
<1>1. InductiveInv => PacketsNumberedInOrder
  BY DEF InductiveInv, QuietInv, NumberInv, PacketsNumberedInOrder
<1> QED BY <1>1, CloseProtocol, PTL

(***************************************************************************)
(* No watcher is lost or invented, whatever races happen, and, until one   *)
(* is entered, none is started on a closed descriptor nor two on one       *)
(* (TcpServer.cpp 664-683, 1061-1078).                                     *)
(***************************************************************************)
THEOREM WatchersCorrect == Spec => []WatchersConserved
<1>1. InductiveInv => WatchersConserved
  <2> SUFFICES ASSUME InductiveInv PROVE WatchersConserved
    OBVIOUS
  <2>1. watcherList + Cardinality(Started) = MaxWatchers
    BY DEF InductiveInv, WatcherInv
  <2>2. ASSUME races = {}, NEW f \in Fds
        PROVE  watching[f] = 0 \/ (watching[f] = 1 /\ conn[f] # 0)
    BY <2>2 DEF InductiveInv, QuietInv, OwnerInv, FreeFdInv
  <2> QED BY <2>1, <2>2 DEF WatchersConserved
<1> QED BY <1>1, CloseProtocol, PTL

-----------------------------------------------------------------------------

\* The values of the service's variables under the mapping.
PacketsOf(c) == {m \in PacketMsgs : msgConn[m] = c}
RepliesOf(c) == {m \in ReplyMsgs : msgConn[m] = c}

PhaseNow   == [c \in Conns |-> PhaseOf(c)]
PacketsNow == [c \in Conns |-> Cardinality(PacketsOf(c))]
RepliesNow == [c \in Conns |-> Cardinality(RepliesOf(c)) + SendOwesTo(c)]

-----------------------------------------------------------------------------
(***************************************************************************)
(* Packets and replies: what a step does to the two kinds of messages.     *)
(***************************************************************************)
LEMMA PacketMsgsCounted ==
    ASSUME TypeInv
    PROVE  PacketMsgs \subseteq Counted /\ PacketMsgs \cup ReplyMsgs = Counted
BY PacketsAreCounted DEF PacketMsgs, ReplyMsgs, Counted, Threads

LEMMA PacketMsgsSame ==
    ASSUME UNCHANGED handleList,
           \A t \in Handlers \cup {"main"} : Busy(t)' = Busy(t) /\ (Busy(t) => held'[t] = held[t])
    PROVE  PacketMsgs' = PacketMsgs
BY DEF PacketMsgs, Packets

\* A packet in the hands of the main thread is queued, and taken by a handler.
LEMMA PacketMsgsPushed ==
    ASSUME TypeInv, MessagesConserved, RecvPush
    PROVE  PacketMsgs' = PacketMsgs
<1> USE TcpServerAssumption DEF TypeInv, At, Goto, Threads
<1>1. Range(handleList') = Range(handleList) \cup {held["main"]}
  BY AppendFacts DEF RecvPush, TypeOK, ControlInv
<1>2. \A h \in Handlers : Busy(h)' = Busy(h) /\ held'[h] = held[h]
  BY DEF RecvPush, Busy, TypeOK
<1>3. Busy("main") /\ ~ Busy("main")'
  BY DEF RecvPush, MoreOrReturn, Busy, TypeOK
<1> QED BY <1>1, <1>2, <1>3 DEF PacketMsgs, Packets

LEMMA PacketMsgsPopped ==
    ASSUME TypeInv, MessagesConserved, NEW g \in Handlers, HandlePop(g)
    PROVE  PacketMsgs' = PacketMsgs
<1> USE TcpServerAssumption DEF TypeInv, At, Goto, Threads
<1>1. handleList \in Seq(Msgs) /\ handleList # <<>>
  BY DEF HandlePop, TypeOK
<1>2. Range(handleList) = Range(handleList') \cup {held'[g]}
  BY <1>1, HeadTailFacts DEF HandlePop, TypeOK
<1>3. \A t \in (Handlers \cup {"main"}) \ {g} : Busy(t)' = Busy(t) /\ held'[t] = held[t]
  BY DEF HandlePop, Busy, TypeOK
<1>4. ~ Busy(g) /\ Busy(g)'
  BY DEF HandlePop, Busy, TypeOK
<1> QED BY <1>2, <1>3, <1>4 DEF PacketMsgs, Packets

\* Every other step but RecvPacket and HandleDone leaves the packets alone.
LEMMA PacketMsgsKept ==
    ASSUME TypeInv, MessagesConserved,
           \/ Neutral \/ SendMessageImmediately \/ SendDone
           \/ \E f \in Fds : SendMessageByQueue(f)
    PROVE  PacketMsgs' = PacketMsgs
<1> USE TcpServerAssumption DEF queues, msgs, evio, tables, threads, service, kernel, ghosts,
        TypeInv, Threads, At, Goto
<1> DEFINE Same == /\ UNCHANGED handleList
                   /\ \A t \in Handlers \cup {"main"} :
                         Busy(t)' = Busy(t) /\ (Busy(t) => held'[t] = held[t])
<1>1. ASSUME NEW t \in Threads, OnClose(t) \/ CloseFd(t) \/ ReturnMessage(t)
      PROVE  Same
  <2>1. UNCHANGED handleList /\ ~ Busy(t) /\ \A u \in Threads \ {t} : pc'[u] = pc[u]
    BY <1>1 DEF OnClose, CloseFd, ReturnMessage, Busy, TypeOK
  <2>2. ~ Busy(t)'
    BY <1>1 DEF OnClose, CloseFd, ReturnMessage, Idle, Busy, TypeOK
  <2>3. \A u \in Threads \ {t, "send"} : held'[u] = held[u]
    BY <1>1 DEF OnClose, CloseFd, ReturnMessage, TypeOK
  <2> QED BY <2>1, <2>2, <2>3 DEF Busy
<1>2. ASSUME \/ OnAcceptTrue \/ OnAcceptFalse \/ RecvPopIdle \/ RecvEnd \/ RecvAgain
             \/ OnDisconnect \/ DecideClose
      PROVE  Same
  <2>1. UNCHANGED handleList /\ \A h \in Handlers : pc'[h] = pc[h] /\ held'[h] = held[h]
    BY <1>2 DEF OnAcceptTrue, OnAcceptFalse, RecvPopIdle, RecvEnd, RecvAgain, OnDisconnect,
       DecideClose, Finish, TypeOK
  <2>2. ~ Busy("main") /\ ~ Busy("main")'
    BY <1>2 DEF OnAcceptTrue, OnAcceptFalse, RecvPopIdle, RecvEnd, RecvAgain, OnDisconnect,
       DecideClose, Finish, Idle, Busy, TypeOK
  <2> QED BY <2>1, <2>2 DEF Busy
<1>3. ASSUME NEW full \in BOOLEAN, RecvOverLimit(full)
      PROVE  Same
  BY <1>3 DEF RecvOverLimit, MoreOrReturn, Busy, TypeOK
<1>4. ASSUME NEW h \in Handlers, ForwardPacket(h) \/ RejectPacket(h)
      PROVE  Same
  BY <1>4 DEF ForwardPacket, RejectPacket, Busy, TypeOK
<1>5. ASSUME SendPop \/ SendMessageImmediately \/ SendDone
      PROVE  Same
  BY <1>5 DEF SendPop, SendMessageImmediately, SendDone, CloseSocketIfNeed, Busy, TypeOK
<1>6. ASSUME NEW g \in Fds,
             Accept_Callback(g) \/ Recv_Callback(g) \/ PeerClose(g) \/ SendMessageByQueue(g)
      PROVE  Same
  BY <1>6 DEF Accept_Callback, Recv_Callback, PeerClose, SendMessageByQueue, Busy, TypeOK
<1>7. ASSUME SendMessagePush \/ UNCHANGED vars
      PROVE  Same
  BY <1>7 DEF SendMessagePush, vars, Busy
<1>8. CASE Same
  BY <1>8, PacketMsgsSame
<1> QED
  BY <1>1, <1>2, <1>3, <1>4, <1>5, <1>6, <1>7, <1>8, PacketMsgsPushed, PacketMsgsPopped DEF Neutral
-----------------------------------------------------------------------------
(***************************************************************************)
(* Connections and descriptors: a connection that is open has one, and     *)
(* what is outstanding there is what the service counts.                   *)
(***************************************************************************)
LEMMA OutstandingIsOpen ==
    ASSUME CloseInv, NEW f \in Fds, ~ Drained(f)
    PROVE  conn[f] \in Conns
BY DEF CloseInv, FreeFdInv, TypeInv, TypeOK, Conns

LEMMA CountedOfConn ==
    ASSUME CloseInv, NEW m \in Counted
    PROVE  msgFd[m] \in Fds /\ msgConn[m] = conn[msgFd[m]] /\ msgConn[m] \in Conns
<1>1. msgFd[m] \in Fds /\ msgConn[m] = conn[msgFd[m]]
  BY CountedFilled DEF CloseInv, MessageInv
<1>2. ~ Drained(msgFd[m])
  BY DEF Drained, Outstanding
<1> QED BY <1>1, <1>2, OutstandingIsOpen

LEMMA DescriptorOf ==
    ASSUME CloseInv, NEW f \in Fds, conn[f] # 0
    PROVE  conn[f] \in Conns /\ conn[f] <= nconn /\ Descriptors(conn[f]) = {f}
BY DEF CloseInv, ConnInv, TypeInv, TypeOK, Conns, Descriptors

LEMMA PhaseOfDescriptor ==
    ASSUME CloseInv, NEW f \in Fds, conn[f] # 0
    PROVE  PhaseOf(conn[f]) = PhaseOfOpen(f)
<1>1. conn[f] <= nconn /\ Descriptors(conn[f]) = {f}
  BY DescriptorOf
<1>2. ~ conn[f] > nconn
  BY <1>1 DEF CloseInv, TypeInv, TypeOK
<1> QED BY <1>1, <1>2 DEF PhaseOf

LEMMA OwesOfDescriptor ==
    ASSUME CloseInv, NEW f \in Fds, conn[f] # 0
    PROVE  SendOwesTo(conn[f]) = SendOwes(f)
BY DescriptorOf DEF SendOwesTo, SendOwes

LEMMA CountsFinite ==
    ASSUME TypeInv, NEW c
    PROVE  /\ IsFiniteSet(PacketsOf(c)) /\ Cardinality(PacketsOf(c)) \in Nat
           /\ IsFiniteSet(RepliesOf(c)) /\ Cardinality(RepliesOf(c)) \in Nat
           /\ SendOwesTo(c) \in Nat
<1>1. PacketsOf(c) \subseteq Msgs /\ RepliesOf(c) \subseteq Msgs
  BY PacketMsgsCounted, CountedAreMsgs DEF PacketsOf, RepliesOf
<1>2. IsFiniteSet(PacketsOf(c)) /\ IsFiniteSet(RepliesOf(c))
  BY <1>1, FS_Subset, TcpServerAssumption
<1> QED BY <1>2, FS_CardinalityType DEF SendOwesTo

\* The counter of the descriptor is the sum the service decides by.
LEMMA CounterIsSum ==
    ASSUME CloseInv, NEW f \in Fds, conn[f] # 0
    PROVE  PacketsNow[conn[f]] + RepliesNow[conn[f]] = handlingCount[f]
<1> DEFINE c == conn[f]
<1>1. c \in Conns /\ SendOwesTo(c) = SendOwes(f)
  BY DescriptorOf, OwesOfDescriptor
<1>2. PacketsOf(c) \cup RepliesOf(c) = Outstanding(f)
  <2>1. \A m \in Counted : msgConn[m] = c <=> msgFd[m] = f
    BY CountedOfConn, DescriptorOf DEF Descriptors
  <2> QED BY <2>1, PacketMsgsCounted DEF CloseInv, PacketsOf, RepliesOf, Outstanding
<1>3. PacketsOf(c) \cap RepliesOf(c) = {}
  BY DEF PacketsOf, RepliesOf, ReplyMsgs
<1>4. /\ IsFiniteSet(PacketsOf(c)) /\ Cardinality(PacketsOf(c)) \in Nat
      /\ IsFiniteSet(RepliesOf(c)) /\ Cardinality(RepliesOf(c)) \in Nat
      /\ SendOwesTo(c) \in Nat
  BY CountsFinite DEF CloseInv
<1>5. Cardinality(Outstanding(f)) = Cardinality(PacketsOf(c)) + Cardinality(RepliesOf(c))
  <2>1. Cardinality(PacketsOf(c) \cup RepliesOf(c))
          = Cardinality(PacketsOf(c)) + Cardinality(RepliesOf(c))
              - Cardinality(PacketsOf(c) \cap RepliesOf(c))
    BY <1>4, FS_Union
  <2>2. Cardinality(PacketsOf(c) \cap RepliesOf(c)) = 0
    BY <1>3, FS_EmptySet
  <2>3. Cardinality(Outstanding(f)) = Cardinality(PacketsOf(c) \cup RepliesOf(c))
    BY <1>2
  <2> HIDE DEF c
  <2> QED BY <1>4, <2>1, <2>2, <2>3
<1>6. handlingCount[f] = Cardinality(Outstanding(f)) + SendOwes(f)
  BY DEF CloseInv, CountInv
<1> HIDE DEF c
<1>7. /\ PacketsNow[c] = Cardinality(PacketsOf(c))
      /\ RepliesNow[c] = Cardinality(RepliesOf(c)) + SendOwesTo(c)
  BY <1>1 DEF PacketsNow, RepliesNow
<1>8. PacketsNow[c] + RepliesNow[c] = handlingCount[f]
  BY <1>1, <1>4, <1>5, <1>6, <1>7
<1> QED BY <1>8 DEF c

-----------------------------------------------------------------------------
(***************************************************************************)
(* Phases: what a step does to them.                                       *)
(***************************************************************************)
LEMMA PhaseKept ==
    ASSUME nconn' = nconn, NEW c, Descriptors(c)' = Descriptors(c),
           \A f \in Descriptors(c) : Closers(f)' = Closers(f) /\ closeRecv'[f] = closeRecv[f]
    PROVE  PhaseOf(c)' = PhaseOf(c)
<1>1. CASE Descriptors(c) = {}
  BY <1>1 DEF PhaseOf
<1>2. CASE Descriptors(c) # {}
  <2> DEFINE f == CHOOSE f \in Descriptors(c) : TRUE
  <2>1. f \in Descriptors(c)
    BY <1>2
  <2>2. PhaseOfOpen(f)' = PhaseOfOpen(f)
    BY <2>1 DEF PhaseOfOpen
  <2> QED BY <1>2, <2>2 DEF PhaseOf
<1> QED BY <1>1, <1>2

\* Who decided to close f changes with a decision and with close(f).
LEMMA ClosersSame ==
    ASSUME TypeInv, [Next]_vars, NEW f \in Fds,
           \A t \in Threads : ~ (CloseFd(t) /\ fd[t] = f),
           \A t \in Closers(f)' : t \in Closers(f)
    PROVE  Closers(f)' = Closers(f)
<1>1. ASSUME NEW t \in Closers(f)
      PROVE  t \in Closers(f)'
  <2>1. ~ CloseFd(t)
    BY <1>1 DEF Closers
  <2> QED BY <2>1, CloserStays
<1> QED BY <1>1 DEF Closers

LEMMA NconnSame ==
    ASSUME [Next]_vars, \A f \in Fds : ~ Accept_Callback(f)
    PROVE  nconn' = nconn
BY DEF Next, Terminating, vars, kernel, PeerClose, Recv_Callback, OnAcceptTrue,
   OnAcceptFalse, RecvPopIdle, RecvPush, RecvEnd, RecvAgain, RecvOverLimit, RecvPacket,
   OnDisconnect, DecideClose, OnClose, CloseFd, ReturnMessage, HandlePop, ForwardPacket,
   RejectPacket, HandleDone, SendMessageByQueue, SendMessagePush, SendPop,
   SendMessageImmediately, SendDone
\* A phase changes only with the descriptors, the closers or mpCloseRecv.
LEMMA PhasesSame ==
    ASSUME CloseInv, [Next]_vars, nconn' = nconn,
           \A f \in Fds : /\ conn'[f] = conn[f] /\ closeRecv'[f] = closeRecv[f]
                          /\ \A t \in Closers(f)' : t \in Closers(f)
    PROVE  PhaseNow' = PhaseNow
<1>1. ASSUME NEW f \in Fds, conn[f] # 0
      PROVE  Closers(f)' = Closers(f)
  <2>1. \A t \in Threads : ~ (CloseFd(t) /\ fd[t] = f)
    BY <1>1 DEF CloseFd, CloseInv, TypeInv, TypeOK
  <2> QED BY <2>1, ClosersSame DEF CloseInv
<1>2. ASSUME NEW c \in Conns
      PROVE  PhaseOf(c)' = PhaseOf(c)
  <2>1. Descriptors(c)' = Descriptors(c)
    BY DEF Descriptors
  <2>2. \A f \in Descriptors(c) : f \in Fds /\ conn[f] # 0
    BY DEF Descriptors, Conns
  <2> QED BY <1>1, <2>1, <2>2, PhaseKept
<1> QED BY <1>2 DEF PhaseNow, Conns

\* What the send thread still owes moves with no descriptor.
LEMMA OwesKept ==
    ASSUME CloseInv, [Next]_vars, \A f \in Fds : SendOwes(f)' = SendOwes(f), NEW c
    PROVE  SendOwesTo(c)' = SendOwesTo(c)
<1>1. ASSUME NEW f \in Fds, SendOwes(f) = 1
      PROVE  conn'[f] = conn[f]
  <2>1. ~ Drained(f)
    BY <1>1 DEF Drained
  <2> QED BY <2>1, ConnNeeds
<1>2. (\E f \in Fds : conn'[f] = c /\ SendOwes(f)' = 1)
        <=> (\E f \in Fds : conn[f] = c /\ SendOwes(f) = 1)
  BY <1>1
<1> QED BY <1>2 DEF SendOwesTo, Descriptors

LEMMA NeutralCounts ==
    ASSUME CloseInv, [Next]_vars, Neutral
    PROVE  UNCHANGED <<PacketsNow, RepliesNow>>
<1>1. KeepsCounted /\ PacketMsgs' = PacketMsgs /\ PacketMsgs \subseteq Counted
  BY NeutralStep, PacketMsgsKept, PacketMsgsCounted DEF CloseInv
<1>2. ReplyMsgs' = ReplyMsgs /\ ReplyMsgs \subseteq Counted
  BY <1>1 DEF ReplyMsgs, KeepsCounted
<1>3. \A c \in Conns : PacketsOf(c)' = PacketsOf(c) /\ RepliesOf(c)' = RepliesOf(c)
  BY <1>1, <1>2 DEF PacketsOf, RepliesOf, KeepsCounted
<1>4. \A c \in Conns : SendOwesTo(c)' = SendOwesTo(c)
  BY <1>1, OwesKept DEF KeepsCounted
<1> QED BY <1>3, <1>4 DEF PacketsNow, RepliesNow, Conns

-----------------------------------------------------------------------------
(***************************************************************************)
(* The steps the service does not see.                                     *)
(***************************************************************************)
LEMMA HiddenStep ==
    ASSUME CloseInv, [Next]_vars, Neutral, ~ DecideClose,
           \A f \in Fds : ~ Accept_Callback(f), \A t \in Threads : ~ CloseFd(t)
    PROVE  UNCHANGED <<PhaseNow, PacketsNow, RepliesNow>>
<1>1. TypeInv
  BY DEF CloseInv
<1>2. nconn' = nconn
  BY NconnSame
<1>3. \A f \in Fds : conn'[f] = conn[f] /\ closeRecv'[f] = closeRecv[f]
  BY <1>1, ConnChanges, CloseRecvChanges
<1>4. ASSUME NEW f \in Fds, NEW t \in Closers(f)', t \notin Closers(f)
      PROVE  FALSE
  <2>1. (t \in Handlers /\ HandleDone(t)) \/ SendDone
    BY <1>1, <1>4, ClosingBegins
  <2>2. KeepsCounted /\ MessagesConserved
    BY <1>1, NeutralStep DEF CloseInv
  <2>3. ~ HandleDone(t) \/ t \notin Handlers
    BY <1>1, <2>2, HandleDoneStep DEF KeepsCounted
  <2>4. ~ SendDone
    <3> SUFFICES ASSUME SendDone PROVE FALSE
      OBVIOUS
    <3>1. fd["send"] \in Fds
      BY <1>1 DEF SendDone, At, TypeInv, ControlInv
    <3> QED BY <1>1, <2>2, <3>1, SendDoneStep DEF KeepsCounted
  <2> QED BY <2>1, <2>3, <2>4
<1>5. PhaseNow' = PhaseNow
  BY <1>2, <1>3, <1>4, PhasesSame
<1> QED BY <1>5, NeutralCounts
\* The send thread keeps a reply it has sent until its decrement.
LEMMA SendHiddenStep ==
    ASSUME CloseInv, [Next]_vars, SendMessageImmediately
    PROVE  UNCHANGED <<PhaseNow, PacketsNow, RepliesNow>>
<1> DEFINE m == held["send"]
           f == fd["send"]
<1>1. TypeInv /\ MessagesConserved
  BY DEF CloseInv
<1>2. /\ m \in Counted /\ Counted' = Counted \ {m} /\ UNCHANGED <<msgFd, msgConn>>
      /\ \A g \in Fds : SendOwes(g) = 0 /\ SendOwes(g)' = IF g = f THEN 1 ELSE 0
  BY <1>1, SendMessageImmediatelyStep
<1>3. /\ msgFd[m] = f /\ f \in Fds /\ Busy("send")
      /\ msgConn[m] = conn[f] /\ conn[f] \in Conns /\ conn[f] # 0
  <2>1. msgFd[m] = f /\ Busy("send")
    BY DEF SendMessageImmediately, At, CloseInv, LocalFdInv, Busy
  <2> QED BY <1>2, <2>1, CountedOfConn DEF Conns
<1>4. PacketMsgs' = PacketMsgs /\ m \notin PacketMsgs
  <2>1. \A t \in Handlers \cup {"main"} : Busy(t) => held[t] # m
    BY <1>1, <1>3, CountedApart, TcpServerAssumption DEF Threads
  <2>2. m \notin Range(handleList)
    BY <1>1, <1>3, CountedApart DEF Threads
  <2> QED BY <1>1, <2>1, <2>2, PacketMsgsKept DEF PacketMsgs, Packets
<1>5. ReplyMsgs' = ReplyMsgs \ {m} /\ m \in ReplyMsgs
  BY <1>2, <1>4 DEF ReplyMsgs
<1>6. \A g \in Fds : conn'[g] = conn[g] /\ closeRecv'[g] = closeRecv[g] /\ Closers(g)' = Closers(g)
  <2>1. conn' = conn /\ closeRecv' = closeRecv
    BY DEF SendMessageImmediately, tables
  <2>2. \A t \in Threads : /\ fd'[t] = fd[t]
                           /\ pc'[t] \in {"onclose", "close"} <=> pc[t] \in {"onclose", "close"}
    BY <1>1 DEF SendMessageImmediately, At, Goto, TypeInv, TypeOK, Threads
  <2> QED BY <2>1, <2>2 DEF Closers
<1>7. PhaseNow' = PhaseNow
  <2>1. nconn' = nconn
    BY DEF SendMessageImmediately
  <2> QED BY <1>6, <2>1, PhasesSame
<1>8. PacketsNow' = PacketsNow
  BY <1>2, <1>4 DEF PacketsNow, PacketsOf, Conns
<1>9. ASSUME NEW c \in Conns
      PROVE  Cardinality(RepliesOf(c))' + SendOwesTo(c)' = Cardinality(RepliesOf(c)) + SendOwesTo(c)
  <2>1. IsFiniteSet(RepliesOf(c)) /\ Cardinality(RepliesOf(c)) \in Nat
    BY <1>1, CountsFinite
  <2>2. SendOwesTo(c) = 0
    BY <1>2 DEF SendOwesTo, Descriptors
  <2>3. CASE c = conn[f]
    <3>1. RepliesOf(c)' = RepliesOf(c) \ {m} /\ m \in RepliesOf(c)
      BY <1>2, <1>3, <1>5, <2>3 DEF RepliesOf
    <3>2. Cardinality(RepliesOf(c) \ {m}) = Cardinality(RepliesOf(c)) - 1
      BY <2>1, <3>1, FS_RemoveElement
    <3>3. SendOwesTo(c)' = 1
      BY <1>2, <1>3, <1>6, <2>3 DEF SendOwesTo, Descriptors
    <3> QED BY <2>1, <2>2, <3>1, <3>2, <3>3
  <2>4. CASE c # conn[f]
    <3>1. RepliesOf(c)' = RepliesOf(c)
      BY <1>2, <1>3, <1>5, <2>4 DEF RepliesOf
    <3>2. SendOwesTo(c)' = 0
      BY <1>2, <1>6, <2>4 DEF SendOwesTo, Descriptors
    <3> QED BY <2>2, <3>1, <3>2
  <2> QED BY <2>3, <2>4
<1> QED BY <1>7, <1>8, <1>9 DEF RepliesNow, Conns

-----------------------------------------------------------------------------
(***************************************************************************)
(* The steps of the service, by the values of its variables.               *)
(***************************************************************************)
LEMMA IsStutter ==
    ASSUME UNCHANGED <<PhaseNow, PacketsNow, RepliesNow>>
    PROVE  UNCHANGED Service!cvars
BY DEF Service!cvars, Service!Conns, Conns, PhaseNow, PacketsNow, RepliesNow, PacketsOf, RepliesOf

LEMMA IsAccepted ==
    ASSUME NEW c \in Conns, PhaseNow[c] = "new", PhaseNow' = [PhaseNow EXCEPT ![c] = "open"],
           UNCHANGED <<PacketsNow, RepliesNow>>
    PROVE  Service!Accepted(c)
BY DEF Service!Accepted, Service!Move, PhaseNow, PacketsNow, RepliesNow, PacketsOf, RepliesOf

LEMMA IsDisconnected ==
    ASSUME NEW c \in Conns, PhaseNow[c] = "open",
           PhaseNow' = [PhaseNow EXCEPT ![c] =
                            IF PacketsNow[c] + RepliesNow[c] = 0 THEN "closing" ELSE "leaving"],
           UNCHANGED <<PacketsNow, RepliesNow>>
    PROVE  Service!Disconnected(c)
BY DEF Service!Disconnected, Service!Drained, Service!Move, PhaseNow, PacketsNow, RepliesNow,
   PacketsOf, RepliesOf

LEMMA IsClosed ==
    ASSUME NEW c \in Conns, PhaseNow[c] = "closing", PhaseNow' = [PhaseNow EXCEPT ![c] = "closed"],
           UNCHANGED <<PacketsNow, RepliesNow>>
    PROVE  Service!Closed(c)
BY DEF Service!Closed, Service!Move, PhaseNow, PacketsNow, RepliesNow, PacketsOf, RepliesOf

LEMMA IsReceived ==
    ASSUME NEW c \in Conns, PhaseNow[c] = "open",
           PacketsNow' = [PacketsNow EXCEPT ![c] = @ + 1], UNCHANGED <<PhaseNow, RepliesNow>>
    PROVE  Service!Received(c)
BY DEF Service!Received, PhaseNow, PacketsNow, RepliesNow, PacketsOf, RepliesOf

LEMMA IsQueued ==
    ASSUME NEW c \in Conns, PhaseNow[c] \in {"open", "leaving"},
           RepliesNow' = [RepliesNow EXCEPT ![c] = @ + 1], UNCHANGED <<PhaseNow, PacketsNow>>
    PROVE  Service!Queued(c)
BY DEF Service!Queued, PhaseNow, PacketsNow, RepliesNow, PacketsOf, RepliesOf

\* The phases after the last message of c is done with.
PhaseDone(c) == [PhaseNow EXCEPT ![c] =
                    IF @ = "leaving" /\ PacketsNow[c] + RepliesNow[c] = 1 THEN "closing" ELSE @]

LEMMA IsHandled ==
    ASSUME NEW c \in Conns, PacketsNow[c] > 0, PhaseNow' = PhaseDone(c),
           PacketsNow' = [PacketsNow EXCEPT ![c] = @ - 1], RepliesNow' = RepliesNow
    PROVE  Service!Handled(c)
BY DEF Service!Handled, Service!DoneWith, PhaseDone, PhaseNow, PacketsNow, RepliesNow,
   PacketsOf, RepliesOf

LEMMA IsSent ==
    ASSUME NEW c \in Conns, RepliesNow[c] > 0, PhaseNow' = PhaseDone(c),
           RepliesNow' = [RepliesNow EXCEPT ![c] = @ - 1], PacketsNow' = PacketsNow
    PROVE  Service!Sent(c)
BY DEF Service!Sent, Service!DoneWith, PhaseDone, PhaseNow, PacketsNow, RepliesNow,
   PacketsOf, RepliesOf
-----------------------------------------------------------------------------
(***************************************************************************)
(* Each of the steps that the service sees is one of its steps.            *)
(***************************************************************************)
\* The phase of one open connection changes.
LEMMA PhaseStep ==
    ASSUME CloseInv, nconn' = nconn, NEW f \in Fds, conn[f] # 0,
           \A g \in Fds : conn'[g] = conn[g],
           \A g \in Fds \ {f} : closeRecv'[g] = closeRecv[g] /\ Closers(g)' = Closers(g)
    PROVE  PhaseNow' = [PhaseNow EXCEPT ![conn[f]] = PhaseOfOpen(f)']
<1> SUFFICES ASSUME NEW c, c = conn[f]
             PROVE  PhaseNow' = [PhaseNow EXCEPT ![c] = PhaseOfOpen(f)']
  OBVIOUS
<1>1. c \in Conns /\ c <= nconn /\ Descriptors(c) = {f}
  BY DescriptorOf
<1>2. PhaseOf(c)' = PhaseOfOpen(f)'
  <2>1. Descriptors(c)' = {f}
    BY <1>1 DEF Descriptors
  <2>2. ~ c > nconn'
    BY <1>1 DEF CloseInv, TypeInv, TypeOK, Conns
  <2> QED BY <2>1, <2>2 DEF PhaseOf
<1>3. ASSUME NEW d \in Conns, d # c
      PROVE  PhaseOf(d)' = PhaseOf(d)
  <2>1. Descriptors(d)' = Descriptors(d) /\ f \notin Descriptors(d)
    BY <1>3 DEF Descriptors
  <2>2. \A g \in Descriptors(d) : g \in Fds \ {f}
    BY <2>1 DEF Descriptors
  <2> QED BY <2>1, <2>2, PhaseKept
<1> QED BY <1>1, <1>2, <1>3 DEF PhaseNow, Conns

LEMMA AcceptedStep ==
    ASSUME CloseInv, [Next]_vars, NEW f \in Fds, Accept_Callback(f)
    PROVE  \E c \in Conns : Service!Accepted(c)
<1> SUFFICES ASSUME NEW c, c = nconn + 1
             PROVE  Service!Accepted(c) /\ c \in Conns
  OBVIOUS
<1>1. c \in Conns /\ nconn \in Nat /\ nconn' = c
  BY TcpServerAssumption DEF Accept_Callback, Conns, CloseInv, TypeInv, TypeOK
<1>2. /\ conn[f] = 0 /\ conn'[f] = c /\ ~ closeRecv'[f]
      /\ \A g \in Fds \ {f} : conn'[g] = conn[g] /\ closeRecv'[g] = closeRecv[g]
  BY DEF Accept_Callback, CloseInv, TypeInv, TypeOK
<1>3. \A g \in Fds : Closers(g)' = Closers(g)
  <2>1. \A t \in Threads \ {"main"} : pc'[t] = pc[t] /\ fd'[t] = fd[t]
    BY DEF Accept_Callback, Goto, CloseInv, TypeInv, TypeOK
  <2>2. pc["main"] = "loop" /\ pc'["main"] = "accept"
    BY DEF Accept_Callback, At, Goto, CloseInv, TypeInv, TypeOK, Threads
  <2> QED BY <2>1, <2>2 DEF Closers
<1>4. \A g \in Fds : conn[g] <= nconn /\ conn[g] \in Nat
  BY DEF CloseInv, ConnInv, TypeInv, TypeOK
<1>5. PhaseOf(c) = "new"
  BY <1>1 DEF PhaseOf
<1>6. PhaseOf(c)' = "open"
  <2>1. Descriptors(c)' = {f}
    BY <1>1, <1>2, <1>4 DEF Descriptors
  <2>2. Closers(f)' = {}
    BY <1>2, <1>3 DEF CloseInv, FreeFdInv
  <2>3. PhaseOfOpen(f)' = "open"
    BY <1>2, <2>2 DEF PhaseOfOpen
  <2> QED BY <1>1, <2>1, <2>3 DEF PhaseOf
<1>7. ASSUME NEW d \in Conns, d # c
      PROVE  PhaseOf(d)' = PhaseOf(d)
  <2>1. Descriptors(d)' = Descriptors(d) /\ f \notin Descriptors(d)
    BY <1>2, <1>7 DEF Descriptors, Conns
  <2>2. d > nconn' <=> d > nconn
    BY <1>1, <1>7 DEF Conns
  <2>3. CASE Descriptors(d) = {}
    BY <2>1, <2>2, <2>3 DEF PhaseOf
  <2>4. CASE Descriptors(d) # {}
    <3> PICK g \in Fds : g = (CHOOSE x \in Descriptors(d) : TRUE) /\ g # f
      BY <2>1, <2>4 DEF Descriptors
    <3>1. PhaseOfOpen(g)' = PhaseOfOpen(g)
      BY <1>2, <1>3 DEF PhaseOfOpen
    <3> QED BY <2>1, <2>2, <2>4, <3>1 DEF PhaseOf
  <2> QED BY <2>3, <2>4
<1>8. PhaseNow' = [PhaseNow EXCEPT ![c] = "open"] /\ PhaseNow[c] = "new"
  BY <1>1, <1>5, <1>6, <1>7 DEF PhaseNow, Conns
<1>9. UNCHANGED <<PacketsNow, RepliesNow>>
  BY NeutralCounts DEF Neutral
<1> QED BY <1>1, <1>8, <1>9, IsAccepted
LEMMA DisconnectedStep ==
    ASSUME CloseInv, [Next]_vars, DecideClose
    PROVE  \E c \in Conns : Service!Disconnected(c)
<1> USE DEF At, Goto, Threads
<1>1. TypeInv
  BY DEF CloseInv
<1> SUFFICES ASSUME NEW f, f = fd["main"], NEW c, c = conn[f]
             PROVE  Service!Disconnected(c) /\ c \in Conns
  OBVIOUS
<1>2. f \in Fds /\ Working(f)
  BY <1>1 DEF DecideClose, TypeInv, ControlInv, Working
<1>3. c # 0 /\ Closers(f) = {} /\ ~ closeRecv[f]
  BY <1>2 DEF CloseInv, FreeFdInv, CloserInv, CloseRecvInv
<1>4. c \in Conns /\ PhaseOf(c) = PhaseOfOpen(f)
  BY <1>2, <1>3, DescriptorOf, PhaseOfDescriptor
<1>5. PhaseNow[c] = "open"
  BY <1>3, <1>4 DEF PhaseNow, PhaseOfOpen
<1>6. /\ \A t \in Threads \ {"main"} : pc'[t] = pc[t]
      /\ fd' = fd /\ conn' = conn /\ nconn' = nconn
      /\ pc["main"] = "decide"
  BY <1>1 DEF DecideClose, Finish, kernel, TypeInv, TypeOK
<1>7. IF handlingCount[f] = 0
        THEN pc'["main"] = "onclose"
        ELSE pc'["main"] \in {"loop", "return"} /\ closeRecv'[f]
  BY <1>1, <1>2 DEF DecideClose, ClosesNow, Finish, Idle, TypeInv, TypeOK
<1>8. \A g \in Fds \ {f} : closeRecv'[g] = closeRecv[g]
  BY <1>1 DEF DecideClose, TypeInv, TypeOK
<1>9. \A g \in Fds \ {f} : Closers(g)' = Closers(g)
  <2>1. \A g \in Fds \ {f} : "main" \notin Closers(g) /\ "main" \notin Closers(g)'
    BY <1>6 DEF Closers
  <2> QED BY <1>6, <2>1 DEF Closers
<1>10. Closers(f)' = IF handlingCount[f] = 0 THEN {"main"} ELSE {}
  BY <1>3, <1>6, <1>7 DEF Closers
<1>11. PhaseOfOpen(f)' = IF handlingCount[f] = 0 THEN "closing" ELSE "leaving"
  BY <1>7, <1>10 DEF PhaseOfOpen
<1>12. PhaseNow' = [PhaseNow EXCEPT ![c] = PhaseOfOpen(f)']
  BY <1>2, <1>3, <1>6, <1>8, <1>9, PhaseStep
<1>13. PacketsNow[c] + RepliesNow[c] = handlingCount[f]
  BY <1>2, <1>3, CounterIsSum
<1>14. UNCHANGED <<PacketsNow, RepliesNow>>
  BY NeutralCounts DEF Neutral
<1> QED BY <1>4, <1>5, <1>11, <1>12, <1>13, <1>14, IsDisconnected

LEMMA ClosedStep ==
    ASSUME CloseInv, [Next]_vars, NEW t \in Threads, CloseFd(t)
    PROVE  \E c \in Conns : Service!Closed(c)
<1> USE DEF At, Goto
<1>1. TypeInv
  BY DEF CloseInv
<1> SUFFICES ASSUME NEW f, f = fd[t], NEW c, c = conn[f]
             PROVE  Service!Closed(c) /\ c \in Conns
  OBVIOUS
<1>2. f \in Fds /\ t \in Closers(f)
  BY <1>1 DEF CloseFd, TypeInv, ControlInv, Closers, Threads
<1>3. c # 0 /\ Closers(f) = {t}
  BY <1>2 DEF CloseInv, FreeFdInv, CloserInv
<1>4. c \in Conns /\ c <= nconn /\ Descriptors(c) = {f} /\ PhaseOf(c) = PhaseOfOpen(f)
  BY <1>2, <1>3, DescriptorOf, PhaseOfDescriptor
<1>5. PhaseNow[c] = "closing"
  BY <1>3, <1>4 DEF PhaseNow, PhaseOfOpen
<1>6. /\ conn'[f] = 0 /\ \A g \in Fds \ {f} : conn'[g] = conn[g]
      /\ nconn' = nconn /\ closeRecv' = closeRecv /\ fd' = fd
      /\ \A u \in Threads \ {t} : pc'[u] = pc[u]
  BY <1>1, <1>2 DEF CloseFd, tables, TypeInv, TypeOK
<1>7. PhaseOf(c)' = "closed"
  <2>1. Descriptors(c)' = {}
    BY <1>3, <1>4, <1>6 DEF Descriptors
  <2>2. ~ c > nconn'
    BY <1>1, <1>4, <1>6 DEF TypeInv, TypeOK, Conns
  <2> QED BY <2>1, <2>2 DEF PhaseOf
<1>8. ASSUME NEW d \in Conns, d # c
      PROVE  PhaseOf(d)' = PhaseOf(d)
  <2>1. Descriptors(d)' = Descriptors(d) /\ f \notin Descriptors(d)
    BY <1>4, <1>6, <1>8 DEF Descriptors, Conns
  <2>2. \A g \in Fds \ {f} : Closers(g)' = Closers(g)
    BY <1>6 DEF Closers
  <2> QED BY <1>6, <2>1, <2>2, PhaseKept DEF Descriptors
<1>9. PhaseNow' = [PhaseNow EXCEPT ![c] = "closed"]
  BY <1>4, <1>7, <1>8 DEF PhaseNow, Conns
<1>10. UNCHANGED <<PacketsNow, RepliesNow>>
  BY NeutralCounts DEF Neutral
<1> QED BY <1>4, <1>5, <1>9, <1>10, IsClosed

LEMMA ReceivedStep ==
    ASSUME CloseInv, [Next]_vars, NEW full \in BOOLEAN, RecvPacket(full)
    PROVE  \E c \in Conns : Service!Received(c)
<1> USE DEF At, Goto, Threads
<1>1. TypeInv /\ MessagesConserved
  BY DEF CloseInv
<1> SUFFICES ASSUME NEW f, f = fd["main"], NEW c, c = conn[f], NEW m, m = held["main"]
             PROVE  Service!Received(c) /\ c \in Conns
  OBVIOUS
<1>2. f \in Fds /\ Working(f)
  BY <1>1 DEF RecvPacket, TypeInv, ControlInv, Working
<1>3. c # 0 /\ Closers(f) = {} /\ ~ closeRecv[f] /\ msgConn[m] = c
  BY <1>2 DEF RecvPacket, CloseInv, FreeFdInv, CloserInv, CloseRecvInv, MessageInv
<1>4. c \in Conns /\ PhaseOf(c) = PhaseOfOpen(f)
  BY <1>2, <1>3, DescriptorOf, PhaseOfDescriptor
<1>5. PhaseNow[c] = "open"
  BY <1>3, <1>4 DEF PhaseNow, PhaseOfOpen
<1>6. PhaseNow' = PhaseNow
  <2>1. nconn' = nconn /\ conn' = conn /\ closeRecv' = closeRecv /\ fd' = fd
    BY DEF RecvPacket, kernel
  <2>2. \A t \in Threads : pc'[t] \in {"onclose", "close"} => pc[t] \in {"onclose", "close"}
    BY <1>1 DEF RecvPacket, MoreOrReturn, TypeInv, TypeOK
  <2> QED BY <2>1, <2>2, PhasesSame DEF Closers
<1>7. /\ m \in Msgs \ Counted /\ Counted' = Counted \cup {m}
      /\ UNCHANGED <<msgFd, msgConn>> /\ \A g \in Fds : SendOwes(g)' = SendOwes(g)
  BY <1>1, RecvPacketStep
<1>8. PacketMsgs' = PacketMsgs \cup {m} /\ PacketMsgs \subseteq Counted
  <2>1. UNCHANGED <<handleList, held>> /\ \A h \in Handlers : pc'[h] = pc[h]
    BY <1>1, TcpServerAssumption DEF RecvPacket, queues, TypeInv, TypeOK
  <2>2. Busy("main")' /\ ~ Busy("main")
    BY <1>1, TcpServerAssumption DEF RecvPacket, MoreOrReturn, Busy, TypeInv, TypeOK
  <2>3. Packets' = Packets
    BY <2>1 DEF Packets, Busy
  <2> QED BY <1>1, <2>1, <2>2, <2>3, PacketMsgsCounted DEF PacketMsgs
<1>9. ReplyMsgs' = ReplyMsgs
  BY <1>7, <1>8 DEF ReplyMsgs
<1>10. RepliesNow' = RepliesNow
  <2>1. \A d \in Conns : RepliesOf(d)' = RepliesOf(d) /\ SendOwesTo(d)' = SendOwesTo(d)
    BY <1>7, <1>9, OwesKept DEF RepliesOf
  <2> QED BY <2>1 DEF RepliesNow, Conns
<1>11. PacketsNow' = [PacketsNow EXCEPT ![c] = @ + 1]
  <2>1. \A d \in Conns \ {c} : PacketsOf(d)' = PacketsOf(d)
    BY <1>3, <1>7, <1>8 DEF PacketsOf
  <2>2. PacketsOf(c)' = PacketsOf(c) \cup {m} /\ m \notin PacketsOf(c)
    BY <1>3, <1>7, <1>8 DEF PacketsOf
  <2>3. Cardinality(PacketsOf(c) \cup {m}) = Cardinality(PacketsOf(c)) + 1
    BY <1>1, <2>2, CountsFinite, FS_AddElement
  <2>4. Cardinality(PacketsOf(c))' = Cardinality(PacketsOf(c)) + 1
    BY <2>2, <2>3
  <2> QED BY <1>4, <2>1, <2>4 DEF PacketsNow, Conns
<1> QED BY <1>4, <1>5, <1>6, <1>10, <1>11, IsReceived
LEMMA QueuedStep ==
    ASSUME CloseInv, [Next]_vars, races' = {}, NEW f \in Fds, SendMessageByQueue(f)
    PROVE  \E c \in Conns : Service!Queued(c)
<1> USE DEF At, Goto, Threads
<1>1. TypeInv /\ MessagesConserved
  BY DEF CloseInv
<1> SUFFICES ASSUME NEW c, c = conn[f], NEW m, m = reply'
             PROVE  Service!Queued(c) /\ c \in Conns
  OBVIOUS
<1>2. sessions[f] = c /\ c # 0
  BY DEF SendMessageByQueue, CloseInv, OwnerInv
<1>3. Closers(f) = {}
  <2> SUFFICES ASSUME NEW t \in Closers(f) PROVE FALSE
    OBVIOUS
  <2>1. pc[t] # "close"
    BY <1>2 DEF CloseInv, CloserInv
  <2>2. pc[t] # "onclose"
    BY DEF SendMessageByQueue, Closing, Closers
  <2> QED BY <2>1, <2>2 DEF Closers
<1>4. c \in Conns /\ PhaseOf(c) = PhaseOfOpen(f)
  BY <1>2, DescriptorOf, PhaseOfDescriptor
<1>5. PhaseNow[c] \in {"open", "leaving"}
  BY <1>3, <1>4 DEF PhaseNow, PhaseOfOpen
<1>6. PhaseNow' = PhaseNow
  <2>1. nconn' = nconn /\ conn' = conn /\ closeRecv' = closeRecv /\ fd' = fd /\ pc' = pc
    BY DEF SendMessageByQueue, kernel, threads
  <2> QED BY <2>1, PhasesSame DEF Closers
<1>7. /\ m \in Msgs \ Counted /\ Counted' = Counted \cup {m} /\ msgConn'[m] = c
      /\ \A x \in Counted : msgConn'[x] = msgConn[x]
      /\ \A g \in Fds : SendOwes(g)' = SendOwes(g)
  BY <1>1, <1>2, SendMessageByQueueStep
<1>8. PacketMsgs' = PacketMsgs /\ PacketMsgs \subseteq Counted
  BY <1>1, PacketMsgsKept, PacketMsgsCounted
<1>9. ReplyMsgs' = ReplyMsgs \cup {m} /\ ReplyMsgs \subseteq Counted
  BY <1>7, <1>8 DEF ReplyMsgs
<1>10. PacketsNow' = PacketsNow
  <2>1. \A d \in Conns : PacketsOf(d)' = PacketsOf(d)
    BY <1>7, <1>8 DEF PacketsOf
  <2> QED BY <2>1 DEF PacketsNow, Conns
<1>11. RepliesNow' = [RepliesNow EXCEPT ![c] = @ + 1]
  <2>1. \A d \in Conns : SendOwesTo(d)' = SendOwesTo(d)
    BY <1>7, OwesKept
  <2>2. \A d \in Conns \ {c} : RepliesOf(d)' = RepliesOf(d)
    BY <1>7, <1>9 DEF RepliesOf
  <2>3. RepliesOf(c)' = RepliesOf(c) \cup {m} /\ m \notin RepliesOf(c)
    BY <1>7, <1>9 DEF RepliesOf
  <2>4. Cardinality(RepliesOf(c) \cup {m}) = Cardinality(RepliesOf(c)) + 1
    BY <1>1, <2>3, CountsFinite, FS_AddElement
  <2>5. Cardinality(RepliesOf(c))' + SendOwesTo(c)' = Cardinality(RepliesOf(c)) + SendOwesTo(c) + 1
    BY <1>1, <1>4, <2>1, <2>3, <2>4, CountsFinite
  <2> QED BY <1>4, <2>1, <2>2, <2>5 DEF RepliesNow, Conns
<1> QED BY <1>4, <1>5, <1>6, <1>10, <1>11, IsQueued

\* The thread whose decrement is the last one decides to close.
LEMMA DonePhase ==
    ASSUME CloseInv, NEW t \in Threads, pc[t] = "dec", NEW f \in Fds, ~ Drained(f),
           NEW done \in {"idle", "return"}, CloseSocketIfNeed(t, f, done),
           nconn' = nconn, conn' = conn, closeRecv' = closeRecv
    PROVE  PhaseNow' = PhaseDone(conn[f])
<1> USE DEF Goto
<1> SUFFICES ASSUME NEW c, c = conn[f]
             PROVE  PhaseNow' = PhaseDone(c)
  OBVIOUS
<1>1. c # 0 /\ Closers(f) = {}
  BY DEF CloseInv, FreeFdInv, CloserInv
<1>2. c \in Conns /\ PhaseOf(c) = PhaseOfOpen(f)
  BY <1>1, DescriptorOf, PhaseOfDescriptor
<1>3. PacketsNow[c] + RepliesNow[c] = handlingCount[f] /\ handlingCount[f] \in Int
  BY <1>1, CounterIsSum DEF CloseInv, TypeInv, TypeOK
<1>4. /\ fd'[t] = f /\ \A u \in Threads \ {t} : pc'[u] = pc[u] /\ fd'[u] = fd[u]
      /\ pc'[t] = IF handlingCount[f] = 1 /\ closeRecv[f] THEN "onclose" ELSE done
  BY <1>3 DEF CloseSocketIfNeed, LastMessage, CloseInv, TypeInv, TypeOK
<1>5. \A g \in Fds \ {f} : Closers(g)' = Closers(g)
  <2>1. \A g \in Fds \ {f} : t \notin Closers(g) /\ t \notin Closers(g)'
    BY <1>4 DEF Closers
  <2> QED BY <1>4, <2>1 DEF Closers
<1>6. Closers(f)' = IF handlingCount[f] = 1 /\ closeRecv[f] THEN {t} ELSE {}
  BY <1>1, <1>4 DEF Closers
<1>7. PhaseOfOpen(f)' = IF PhaseOfOpen(f) = "leaving" /\ handlingCount[f] = 1
                          THEN "closing" ELSE PhaseOfOpen(f)
  BY <1>1, <1>6 DEF PhaseOfOpen
<1>8. PhaseNow' = [PhaseNow EXCEPT ![c] = PhaseOfOpen(f)']
  BY <1>1, <1>5, PhaseStep
<1>9. PhaseNow[c] = PhaseOfOpen(f)
  BY <1>2 DEF PhaseNow
<1> QED BY <1>3, <1>7, <1>8, <1>9 DEF PhaseDone

LEMMA HandledStep ==
    ASSUME CloseInv, [Next]_vars, NEW h \in Handlers, HandleDone(h)
    PROVE  \E c \in Conns : Service!Handled(c)
<1> USE DEF At, Goto, Threads
<1>1. TypeInv /\ MessagesConserved
  BY DEF CloseInv
<1> SUFFICES ASSUME NEW m, m = held[h], NEW f, f = msgFd[m], NEW c, c = conn[f]
             PROVE  Service!Handled(c) /\ c \in Conns
  OBVIOUS
<1>2. /\ m \in Counted /\ Counted' = Counted \ {m} /\ UNCHANGED <<msgFd, msgConn>>
      /\ \A g \in Fds : SendOwes(g)' = SendOwes(g)
  BY <1>1, HandleDoneStep
<1>3. f \in Fds /\ msgConn[m] = c /\ c \in Conns /\ ~ Drained(f)
  BY <1>2, CountedOfConn DEF Drained, Outstanding
<1>4. PacketMsgs' = PacketMsgs \ {m} /\ m \in PacketMsgs
  <2>1. /\ UNCHANGED <<handleList, held>> /\ Busy(h) /\ ~ Busy(h)'
        /\ \A t \in (Handlers \cup {"main"}) \ {h} : Busy(t)' = Busy(t)
    BY <1>1, TcpServerAssumption DEF HandleDone, queues, CloseSocketIfNeed, Busy, TypeInv, TypeOK
  <2>2. m \notin Range(handleList)
    BY <1>1, <2>1, CountedApart
  <2>3. \A t \in (Handlers \cup {"main"}) \ {h} : Busy(t) => held[t] # m
    BY <1>1, <2>1, CountedApart
  <2> QED BY <2>1, <2>2, <2>3 DEF PacketMsgs, Packets
<1>5. ReplyMsgs' = ReplyMsgs
  BY <1>2, <1>4 DEF ReplyMsgs
<1>6. RepliesNow' = RepliesNow
  <2>1. \A d \in Conns : RepliesOf(d)' = RepliesOf(d) /\ SendOwesTo(d)' = SendOwesTo(d)
    BY <1>2, <1>5, OwesKept DEF RepliesOf
  <2> QED BY <2>1 DEF RepliesNow, Conns
<1>7. PacketsNow' = [PacketsNow EXCEPT ![c] = @ - 1] /\ PacketsNow[c] > 0
  <2>1. \A d \in Conns \ {c} : PacketsOf(d)' = PacketsOf(d)
    BY <1>2, <1>3, <1>4 DEF PacketsOf
  <2>2. PacketsOf(c)' = PacketsOf(c) \ {m} /\ m \in PacketsOf(c)
    BY <1>2, <1>3, <1>4 DEF PacketsOf
  <2>3. /\ Cardinality(PacketsOf(c) \ {m}) = Cardinality(PacketsOf(c)) - 1
        /\ IsFiniteSet(PacketsOf(c) \ {m})
    BY <1>1, <2>2, CountsFinite, FS_RemoveElement
  <2>4. Cardinality(PacketsOf(c))' = Cardinality(PacketsOf(c)) - 1
    BY <2>2, <2>3
  <2>5. Cardinality(PacketsOf(c)) > 0
    BY <1>1, <2>3, CountsFinite, FS_CardinalityType
  <2> QED BY <1>3, <2>1, <2>4, <2>5 DEF PacketsNow, Conns
<1>8. PhaseNow' = PhaseDone(c)
  <2>1. /\ pc[h] = "dec" /\ CloseSocketIfNeed(h, f, "return")
        /\ nconn' = nconn /\ conn' = conn /\ closeRecv' = closeRecv
    BY DEF HandleDone, kernel
  <2> QED BY <1>3, <2>1, DonePhase
<1> QED BY <1>3, <1>6, <1>7, <1>8, IsHandled

LEMMA SentStep ==
    ASSUME CloseInv, [Next]_vars, races' = {}, SendDone
    PROVE  \E c \in Conns : Service!Sent(c)
<1> USE DEF At, Goto, Threads
<1>1. TypeInv /\ MessagesConserved
  BY DEF CloseInv
<1> SUFFICES ASSUME NEW f, f = fd["send"], NEW c, c = conn[f]
             PROVE  Service!Sent(c) /\ c \in Conns
  OBVIOUS
<1>2. /\ Counted' = Counted /\ UNCHANGED <<msgFd, msgConn>>
      /\ \A g \in Fds : SendOwes(g)' = 0 /\ SendOwes(g) = IF g = f THEN 1 ELSE 0
  BY <1>1, SendDoneStep
<1>3. f \in Fds /\ ~ Drained(f) /\ c \in Conns /\ c # 0
  <2>1. f \in Fds
    BY <1>1 DEF SendDone, TypeInv, ControlInv
  <2>2. ~ Drained(f)
    BY <1>2, <2>1 DEF Drained
  <2> QED BY <2>1, <2>2, OutstandingIsOpen DEF Conns
<1>4. PacketMsgs' = PacketMsgs /\ ReplyMsgs' = ReplyMsgs
  BY <1>1, <1>2, PacketMsgsKept DEF ReplyMsgs
<1>5. \A d \in Conns : PacketsOf(d)' = PacketsOf(d) /\ RepliesOf(d)' = RepliesOf(d)
  BY <1>2, <1>4 DEF PacketsOf, RepliesOf
<1>6. \A d \in Conns : SendOwesTo(d)' = 0 /\ SendOwesTo(d) = IF d = c THEN 1 ELSE 0
  BY <1>2, <1>3 DEF SendOwesTo, Descriptors
<1>7. PacketsNow' = PacketsNow
  BY <1>5 DEF PacketsNow, Conns
<1>8. RepliesNow' = [RepliesNow EXCEPT ![c] = @ - 1] /\ RepliesNow[c] > 0
  <2>1. \A d \in Conns : /\ Cardinality(RepliesOf(d)) \in Nat
                          /\ Cardinality(RepliesOf(d))' = Cardinality(RepliesOf(d))
    BY <1>1, <1>5, CountsFinite
  <2>2. \A d \in Conns \ {c} : SendOwesTo(d)' = SendOwesTo(d)
    BY <1>6
  <2>3. LET old == Cardinality(RepliesOf(c)) + SendOwesTo(c)
        IN  /\ Cardinality(RepliesOf(c))' + SendOwesTo(c)' = old - 1
            /\ old > 0
    BY <1>3, <1>6, <2>1
  <2> QED BY <1>3, <1>5, <2>2, <2>3 DEF RepliesNow, Conns
<1>9. PhaseNow' = PhaseDone(c)
  <2>1. /\ pc["send"] = "dec" /\ CloseSocketIfNeed("send", f, "idle")
        /\ nconn' = nconn /\ conn' = conn /\ closeRecv' = closeRecv
    BY DEF SendDone, kernel
  <2> QED BY <1>3, <2>1, DonePhase
<1> QED BY <1>3, <1>7, <1>8, <1>9, IsSent

-----------------------------------------------------------------------------
LEMMA ServiceStep ==
    ASSUME CloseInv, [Next]_vars, races' = {}
    PROVE  [Service!ServiceNext]_(Service!cvars)
<1> USE DEF Service!ServiceNext, Service!Conns, Conns
<1>1. CASE DecideClose
  BY <1>1, DisconnectedStep
<1>2. ASSUME NEW f \in Fds, Accept_Callback(f)
      PROVE  Service!ServiceNext
  BY <1>2, AcceptedStep
<1>3. ASSUME NEW t \in Threads, CloseFd(t)
      PROVE  Service!ServiceNext
  BY <1>3, ClosedStep
<1>4. CASE /\ Neutral /\ ~ DecideClose
           /\ \A f \in Fds : ~ Accept_Callback(f)
           /\ \A t \in Threads : ~ CloseFd(t)
  BY <1>4, HiddenStep, IsStutter
<1>5. ASSUME NEW full \in BOOLEAN, RecvPacket(full)
      PROVE  Service!ServiceNext
  BY <1>5, ReceivedStep
<1>6. ASSUME NEW h \in Handlers, HandleDone(h)
      PROVE  Service!ServiceNext
  BY <1>6, HandledStep
<1>7. ASSUME NEW f \in Fds, SendMessageByQueue(f)
      PROVE  Service!ServiceNext
  BY <1>7, QueuedStep
<1>8. CASE SendMessageImmediately
  BY <1>8, SendHiddenStep, IsStutter
<1>9. CASE SendDone
  BY <1>9, SentStep
<1>10. CASE Neutral
  BY <1>1, <1>2, <1>3, <1>4, <1>10
<1> QED BY <1>5, <1>6, <1>7, <1>8, <1>9, <1>10 DEF Next, Neutral, Terminating

LEMMA ServiceStart == Init => Service!ServiceInit
<1> SUFFICES ASSUME Init PROVE Service!ServiceInit
  OBVIOUS
<1>1. InductiveInv /\ races = {}
  BY CloseInit DEF Init
<1>2. CloseInv
  BY <1>1 DEF InductiveInv, QuietInv, CloseInv, CountExact, CountInv
<1>3. \A f \in Fds : Drained(f)
  BY <1>2 DEF CloseInv, FreeFdInv, Init
<1>4. Counted = {}
  BY <1>2, <1>3, CountedOfConn DEF Drained, Outstanding
<1>5. ASSUME NEW c \in Conns
      PROVE  /\ PhaseOf(c) = "new" /\ Cardinality(PacketsOf(c)) = 0
             /\ Cardinality(RepliesOf(c)) + SendOwesTo(c) = 0
  <2>1. PhaseOf(c) = "new"
    BY DEF PhaseOf, Init, Conns
  <2>2. PacketsOf(c) = {} /\ RepliesOf(c) = {}
    BY <1>2, <1>4, PacketMsgsCounted DEF CloseInv, PacketsOf, RepliesOf
  <2>3. SendOwesTo(c) = 0
    BY <1>3 DEF SendOwesTo, Descriptors, Drained
  <2> QED BY <2>1, <2>2, <2>3, FS_EmptySet
<1> QED BY <1>5 DEF Service!ServiceInit, Service!Conns, Conns, PacketsOf, RepliesOf

(***************************************************************************)
(* In the behaviours that enter neither race, TcpServer gives its observer *)
(* what TcpServerObserver promises, but for liveness: each connection is   *)
(* accepted, disconnected once and closed once, gives packets only while   *)
(* it is open, takes no reply once its close is decided, and is closed not *)
(* before and not later than its last message (TcpServer.cpp 1166-1235,    *)
(* 1080-1124, 901-933).                                                    *)
(***************************************************************************)
THEOREM ServiceImplemented ==
    QuietSpec => Service!ServiceInit /\ [][Service!ServiceNext]_(Service!cvars)
<1> DEFINE Quiet == InductiveInv /\ races = {}
<1>1. Init => Quiet
  BY CloseInit DEF Init
<1>2. Quiet /\ [Next /\ races' = {}]_vars => Quiet'
  BY CloseStep DEF vars, ghosts
<1>3. Quiet /\ [Next /\ races' = {}]_vars => [Service!ServiceNext]_(Service!cvars)
  <2> SUFFICES ASSUME Quiet, [Next /\ races' = {}]_vars
               PROVE  [Service!ServiceNext]_(Service!cvars)
    OBVIOUS
  <2>1. CloseInv
    BY DEF InductiveInv, QuietInv, CloseInv, CountExact, CountInv
  <2>2. races' = {}
    BY DEF vars, ghosts
  <2> QED BY <2>1, <2>2, ServiceStep
<1> QED BY <1>1, <1>2, <1>3, ServiceStart, PTL DEF QuietSpec
=============================================================================
