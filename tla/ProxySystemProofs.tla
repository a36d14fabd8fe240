-------------------------- MODULE ProxySystemProofs --------------------------
(***************************************************************************)
(* Types, the inductive invariant of ProxySystemInvariants, where the      *)
(* programs may stop, and that ProxySystem implements Tunnel as long as no *)
(* race is entered.                                                        *)
(*                                                                         *)
(* Each conjunct of the invariant has a lemma that a step preserves it.    *)
(* Those rest on lemmas that say in few words what any step may do to the  *)
(* commands on their way (GoingStep, ComingStep, AnswerStep), to requests  *)
(* (RequestStep) and to browsers (BrowsersLater), so that only these go    *)
(* through the actions one by one.                                         *)
(***************************************************************************)
EXTENDS ProxySystemInvariants, Induction, SequenceTheorems, FiniteSetTheorems, TLAPS

-----------------------------------------------------------------------------
(***************************************************************************)
(* Sequences that are put together.                                        *)
(***************************************************************************)
\* A sequence begins with its head.
LEMMA HeadFirst ==
    ASSUME NEW M, NEW s \in Seq(M), s # <<>>
    PROVE  <<Head(s)>> \o Tail(s) = s
<1> DEFINE h == <<Head(s)>>
           t == Tail(s)
           u == h \o t
<1>1. /\ Head(s) \in M /\ t \in Seq(M) /\ Len(t) = Len(s) - 1 /\ Head(s) = s[1]
      /\ \A i \in 1 .. Len(t) : t[i] = s[i + 1]
  BY HeadTailProperties
<1>2. h \in Seq(M) /\ Len(h) = 1 /\ h[1] = s[1]
  BY <1>1
<1>3. Len(s) \in Nat /\ Len(s) > 0
  OBVIOUS
<1> HIDE DEF h, t
<1>4. /\ u \in Seq(M) /\ Len(u) = Len(h) + Len(t)
      /\ \A i \in 1 .. Len(h) + Len(t) : u[i] = IF i <= Len(h) THEN h[i] ELSE t[i - Len(h)]
  <2>1. h \in Seq(M) /\ t \in Seq(M)
    BY <1>1, <1>2
  <2> QED BY <2>1, ConcatProperties
<1> HIDE DEF u
<1>5. Len(u) = Len(s)
  BY <1>1, <1>2, <1>3, <1>4
<1>6. ASSUME NEW i \in 1 .. Len(u)
      PROVE  u[i] = s[i]
  <2>1. i \in 1 .. Len(h) + Len(t)
    BY <1>4
  <2>2. CASE i = 1
    BY <1>2, <1>4, <2>1, <2>2
  <2>3. CASE i # 1
    <3>1. ~ (i <= Len(h)) /\ i - Len(h) \in 1 .. Len(t) /\ (i - Len(h)) + 1 = i
      BY <1>1, <1>2, <1>3, <1>5, <2>3
    <3>2. u[i] = t[i - Len(h)]
      BY <1>4, <2>1, <3>1
    <3> QED BY <1>1, <3>1, <3>2
  <2> QED BY <2>2, <2>3
<1>7. u = s
  BY <1>4, <1>5, <1>6, SeqEqual
<1> QED BY <1>7 DEF u, h, t

\* Without its head a sequence is what follows it.
LEMMA TailRest ==
    ASSUME NEW M, NEW h \in M, NEW t \in Seq(M)
    PROVE  Tail(<<h>> \o t) = t /\ Head(<<h>> \o t) = h /\ <<h>> \o t # <<>>
<1> DEFINE u == <<h>> \o t
<1>1. <<h>> \in Seq(M) /\ Len(<<h>>) = 1 /\ <<h>>[1] = h /\ Len(t) \in Nat
  OBVIOUS
<1>2. /\ u \in Seq(M) /\ Len(u) = 1 + Len(t)
      /\ \A i \in 1 .. 1 + Len(t) : u[i] = IF i <= 1 THEN <<h>>[i] ELSE t[i - 1]
  BY <1>1, ConcatProperties
<1> HIDE DEF u
<1>3. u # <<>> /\ Head(u) = u[1] /\ u[1] = h
  BY <1>1, <1>2
<1>4. /\ Tail(u) \in Seq(M) /\ Len(Tail(u)) = Len(u) - 1
      /\ \A i \in 1 .. Len(Tail(u)) : Tail(u)[i] = u[i + 1]
  BY <1>2, <1>3, HeadTailProperties
<1>5. Len(Tail(u)) = Len(t)
  BY <1>1, <1>2, <1>4
<1>6. ASSUME NEW i \in 1 .. Len(t)
      PROVE  Tail(u)[i] = t[i]
  <2>1. i + 1 \in 1 .. 1 + Len(t) /\ ~ (i + 1 <= 1) /\ (i + 1) - 1 = i
    BY <1>1
  <2> QED BY <1>2, <1>4, <1>5, <2>1
<1>7. Tail(u) = t
  BY <1>4, <1>5, <1>6, SeqEqual
<1> QED BY <1>3, <1>7 DEF u

\* The head of the second is put behind the first.
LEMMA HeadMoved ==
    ASSUME NEW M, NEW d \in Seq(M), NEW s \in Seq(M), s # <<>>
    PROVE  Append(d, Head(s)) \o Tail(s) = d \o s
<1>1. Head(s) \in M /\ Tail(s) \in Seq(M)
  BY HeadTailProperties
<1>2. PICK h \in M, t \in Seq(M) : h = Head(s) /\ t = Tail(s)
  BY <1>1
<1>e. <<h>> \in Seq(M)
  OBVIOUS
<1>h. PICK e \in Seq(M) : e = <<h>>
  BY <1>e
<1>3. e \o t = s
  BY <1>2, <1>h, HeadFirst
<1>4. Append(d, h) = d \o e
  BY <1>h, AppendIsConcat
<1>5. (d \o e) \o t = d \o (e \o t)
  BY ConcatAssociative
<1> QED BY <1>2, <1>3, <1>4, <1>5

Joined(a, b, c) == (a \o b) \o c = a \o (b \o c)

\* Three sequences are joined from either end.
LEMMA JoinedAlike ==
    ASSUME NEW M, NEW a \in Seq(M), NEW b \in Seq(M), NEW c \in Seq(M)
    PROVE  Joined(a, b, c)
BY ConcatAssociative DEF Joined

\* The head of the first is taken away.
LEMMA HeadTaken ==
    ASSUME NEW M, NEW d \in Seq(M), NEW s \in Seq(M), d # <<>>
    PROVE  Tail(d) \o s = Tail(d \o s) /\ Head(d \o s) = Head(d) /\ d \o s # <<>>
<1>1. Head(d) \in M /\ Tail(d) \in Seq(M)
  BY HeadTailProperties
<1>2. PICK h \in M, t \in Seq(M) : h = Head(d) /\ t = Tail(d)
  BY <1>1
<1>e. <<h>> \in Seq(M)
  OBVIOUS
<1>h. PICK e \in Seq(M) : e = <<h>>
  BY <1>e
<1>3. e \o t = d
  BY <1>2, <1>h, HeadFirst
<1>4. (e \o t) \o s = e \o (t \o s)
  <2>1. e \in Seq(M) /\ t \in Seq(M) /\ s \in Seq(M)
    OBVIOUS
  <2>2. Joined(e, t, s)
    BY <2>1, JoinedAlike, Zenon
  <2> QED BY <2>2 DEF Joined
<1>5. PICK x \in Seq(M) : x = t \o s
  BY ConcatProperties
<1>6. Tail(<<h>> \o x) = x /\ Head(<<h>> \o x) = h /\ <<h>> \o x # <<>>
  BY TailRest
<1> QED BY <1>2, <1>h, <1>3, <1>4, <1>5, <1>6

\* The second is cut off.
LEMMA EndCut ==
    ASSUME NEW M, NEW d \in Seq(M), NEW s \in Seq(M), NEW n \in 0 .. Len(s)
    PROVE  \E m \in 0 .. Len(d \o s) : d \o SubSeq(s, 1, n) = SubSeq(d \o s, 1, m)
<1> DEFINE m == Len(d) + n
           c == SubSeq(s, 1, n)
           j == d \o s
           x == d \o c
           y == SubSeq(j, 1, m)
<1>1. Len(d) \in Nat /\ Len(s) \in Nat /\ n \in Nat /\ n <= Len(s) /\ m \in Nat
      /\ Len(d) + n <= Len(d) + Len(s)
  OBVIOUS
<1>2. c \in Seq(M) /\ Len(c) = n /\ \A i \in 1 .. n : c[i] = s[i]
  <2>1. \A i \in 1 .. n : s[i] \in M
    BY <1>1
  <2> QED BY <1>1, <2>1, SubSeqFirst
<1>3. /\ j \in Seq(M) /\ Len(j) = Len(d) + Len(s)
      /\ \A i \in 1 .. Len(d) + Len(s) : j[i] = IF i <= Len(d) THEN d[i] ELSE s[i - Len(d)]
  BY ConcatProperties
<1> HIDE DEF c, j
<1>4. /\ x \in Seq(M) /\ Len(x) = Len(d) + n
      /\ \A i \in 1 .. Len(d) + n : x[i] = IF i <= Len(d) THEN d[i] ELSE c[i - Len(d)]
  BY <1>2, ConcatProperties
<1>5. y \in Seq(M) /\ Len(y) = m /\ \A i \in 1 .. m : y[i] = j[i]
  <2>1. \A i \in 1 .. m : j[i] \in M
    BY <1>1, <1>3
  <2> HIDE DEF m
  <2> QED BY <1>1, <2>1, SubSeqFirst
<1> HIDE DEF x, y
<1>6. ASSUME NEW i \in 1 .. m
      PROVE  x[i] = y[i]
  <2>1. i \in 1 .. Len(d) + n /\ i \in 1 .. Len(d) + Len(s)
    BY <1>1
  <2>2. CASE i <= Len(d)
    BY <1>3, <1>4, <1>5, <2>1, <2>2
  <2>3. CASE ~ (i <= Len(d))
    <3>1. i - Len(d) \in 1 .. n
      BY <1>1, <2>3
    <3>2. x[i] = c[i - Len(d)] /\ j[i] = s[i - Len(d)]
      BY <1>3, <1>4, <2>1, <2>3
    <3> QED BY <1>2, <1>5, <3>1, <3>2
  <2> QED BY <2>2, <2>3
<1>7. x = y
  BY <1>4, <1>5, <1>6, SeqEqual
<1>8. m \in 0 .. Len(j)
  BY <1>1, <1>3
<1> QED BY <1>7, <1>8 DEF x, y, c, j

-----------------------------------------------------------------------------
(***************************************************************************)
(* Types.                                                                  *)
(***************************************************************************)
\* The receiving thread is no request, and nobody is a thread.
LEMMA ThreadFacts ==
    /\ Receiver \in Threads /\ Receiver \notin Requests /\ Nobody \notin Threads
    /\ Nobody \notin Requests /\ Requests \subseteq Threads /\ Threads = Requests \cup {Receiver}
BY ProxySystemAssumption DEF Threads

\* What the bounds are.
LEMMA BoundFacts ==
    /\ BrowserPool \in Nat /\ VNCPool \in Nat /\ DownRoom \in Nat /\ UpRoom \in Nat
    /\ MaxBrowsers \in Nat /\ MaxPackets \in Nat /\ MaxLeaves \in Nat /\ MaxPieces \in Nat
    /\ MaxLinks \in Nat /\ BrowserPool > 0 /\ VNCPool > 0 /\ DownRoom > 0 /\ UpRoom > 1
BY ProxySystemAssumption

\* Where the threads are, and who holds the map and the socket.
LEMMA PlacesStep ==
    ASSUME TypeInv, LinkInv, [Next]_vars
    PROVE  PlacesType'
<1>a. PlacesType /\ RequestsType /\ LinkType
  BY DEF TypeInv
<1>b. ~ alive => half = Nobody
  BY DEF LinkInv
<1> USE <1>a, <1>b, ThreadFacts DEF PlacesType, browsers, proxy, link, peer, ghosts, At, Goto
<1>e. ASSUME UNCHANGED <<pc, lock, half>>
      PROVE  PlacesType'
  BY <1>e
<1>1. ASSUME NEW b \in DOMAIN fdOf,
             \/ RecvPacket(b) \/ BrowserLeaves(b) \/ OnDisconnect(b) \/ Forward(b) \/ TurnAway(b)
      PROVE  PlacesType'
  BY <1>e, <1>1 DEF RecvPacket, BrowserLeaves, OnDisconnect, Forward, TurnAway
<1>2. CASE (\E fd \in Fds : Accept(fd)) \/ SendReply \/ SendCommand \/ RecvVNC
           \/ ReturnVNC2Client \/ ProxyDisconnect \/ OnDisconnectVNC \/ OnCloseVNC
  BY <1>e, <1>2 DEF Accept, SendReply, SendCommand, RecvVNC, ReturnVNC2Client, ProxyDisconnect,
                    OnDisconnectVNC, OnCloseVNC
<1>3. CASE UNCHANGED vars \/ \E t \in Threads : SendBetween(t)
  BY <1>e, <1>3 DEF vars, SendBetween
<1>4. CASE Connect \/ RecvFails \/ RecvCommand \/ LinkLost
  BY <1>4 DEF Connect, RecvFails, RecvCommand, LinkLost
<1>5. CASE ParsedInPart \/ ParserFull \/ OnRecvProxyDisconnect \/ \E r \in Requests : ParsedAll(r)
  BY <1>5 DEF ParsedInPart, ParserFull, OnRecvProxyDisconnect, ParsedAll
<1>6. ASSUME NEW r \in Requests, OnReceiveBody(r) \/ RequestEnds(r)
      PROVE  PlacesType'
  BY <1>6 DEF OnReceiveBody, RequestEnds
<1>7. ASSUME NEW r \in Requests, OnSuccessOrFail(r) \/ UnlockAndDelete(r)
      PROVE  PlacesType'
  BY <1>7 DEF OnSuccessOrFail, UnlockAndDelete, Unlock
<1>8. ASSUME NEW t \in Threads, SendWhole(t) \/ SendFails(t)
      PROVE  PlacesType'
  <2>1. /\ pc[t] \in {"send", "hangup"} /\ half' = Nobody /\ lock' = lock
        /\ pc' = [pc EXCEPT ![t] = AfterSend(t)]
    BY <1>8 DEF SendWhole, SendFails, Sent, Sends
  <2>2. CASE t = Receiver
    BY <2>1, <2>2 DEF AfterSend
  <2>3. CASE t \in Requests /\ pc[t] = "send"
    BY <2>1, <2>3 DEF AfterSend
  <2>4. CASE t \in Requests /\ pc[t] = "hangup"
    BY <2>1, <2>4 DEF AfterSend
  <2> QED BY <2>1, <2>2, <2>3, <2>4
<1>9. ASSUME NEW t \in Threads, SendPart(t)
      PROVE  PlacesType'
  BY <1>9 DEF SendPart, Sends
<1> QED BY <1>1, <1>2, <1>3, <1>4, <1>5, <1>6, <1>7, <1>8, <1>9
        DEF Next, Program, Environment, MainThread, Handlers, VNCMain, VNCHandler, Receive, Send

\* A browser in order of accept is one of the bound, and DOMAIN fdOf is those accepted.
LEMMA AcceptedFacts ==
    ASSUME BrowsersType
    PROVE  /\ DOMAIN fdOf = 1 .. Len(fdOf) /\ DOMAIN fdOf \subseteq Browsers /\ Len(fdOf) \in Nat
           /\ \A b \in DOMAIN fdOf : fdOf[b] \in Fds
           /\ \A fd : Holder(fd) \subseteq DOMAIN fdOf
BY BoundFacts DEF BrowsersType, Browsers, Holder

\* Connections of browsers, what is received of them, and who left.
LEMMA BrowsersStep ==
    ASSUME TypeInv, LinkInv, [Next]_vars
    PROVE  BrowsersType'
<1>a. BrowsersType /\ VNCType /\ RequestsType /\ PlacesType /\ RepliesType
  BY DEF TypeInv
<1>b. /\ DOMAIN fdOf = 1 .. Len(fdOf) /\ DOMAIN fdOf \subseteq Browsers /\ Len(fdOf) \in Nat
      /\ \A b \in DOMAIN fdOf : fdOf[b] \in Fds
      /\ \A fd : Holder(fd) \subseteq DOMAIN fdOf
  BY <1>a, AcceptedFacts
<1> USE <1>a, <1>b, ThreadFacts, BoundFacts
        DEF BrowsersType, browsers, proxy, link, peer, ghosts, At, Goto
<1>e. ASSUME UNCHANGED <<browsers, gone, excused>>
      PROVE  BrowsersType'
  BY <1>e
<1>1. ASSUME NEW fd \in Fds, Accept(fd)
      PROVE  BrowsersType'
  <2>1. /\ Len(fdOf) + 1 <= MaxBrowsers /\ fdOf' = Append(fdOf, fd)
        /\ phase' = [phase EXCEPT ![Len(fdOf) + 1] = "open"]
        /\ UNCHANGED <<unsent, packets, tasks, shut, gone, excused>>
    BY <1>1 DEF Accept
  <2>2. fdOf' \in Seq(Fds) /\ Len(fdOf') = Len(fdOf) + 1
    BY <2>1
  <2>3. phase' \in [Browsers -> {"new", "open", "leaving", "closed"}]
    BY <2>1
  <2>4. 1 .. Len(fdOf) \subseteq 1 .. Len(fdOf')
    BY <2>2
  <2> QED BY <2>1, <2>2, <2>3, <2>4
<1>2. ASSUME NEW b \in DOMAIN fdOf, RecvPacket(b)
      PROVE  BrowsersType'
  <2>1. /\ unsent > 0 /\ unsent' = unsent - 1 /\ packets' = [packets EXCEPT ![b] = @ + 1]
        /\ UNCHANGED <<fdOf, phase, tasks, shut, gone, excused>>
    BY <1>2 DEF RecvPacket
  <2>2. unsent \in Nat /\ packets[b] \in Nat /\ packets[b] + unsent <= MaxPackets
    BY <2>1
  <2>3. unsent' \in 0 .. MaxPackets /\ packets[b] + 1 \in 0 .. MaxPackets
    BY <2>1, <2>2
  <2>4. packets' \in [Browsers -> 0 .. MaxPackets]
    BY <2>1, <2>3
  <2>5. ASSUME NEW c \in Browsers
        PROVE  packets'[c] + unsent' <= MaxPackets
    <3>1. packets[c] \in Nat /\ packets[c] + unsent <= MaxPackets
      OBVIOUS
    <3>2. packets'[c] = IF c = b THEN packets[c] + 1 ELSE packets[c]
      BY <2>1
    <3> QED BY <2>1, <2>2, <3>1, <3>2
  <2> QED BY <2>1, <2>3, <2>4, <2>5
<1>3. ASSUME NEW b \in DOMAIN fdOf, BrowserLeaves(b) \/ OnDisconnect(b)
      PROVE  BrowsersType'
  BY <1>3 DEF BrowserLeaves, OnDisconnect
<1>4. ASSUME NEW b \in DOMAIN fdOf, Forward(b) \/ TurnAway(b)
      PROVE  BrowsersType'
  <2>1. /\ packets[b] > 0 /\ packets' = [packets EXCEPT ![b] = @ - 1]
        /\ UNCHANGED <<fdOf, unsent, gone>>
    BY <1>4 DEF Forward, TurnAway
  <2>2. /\ shut \subseteq shut' /\ shut' \subseteq shut \cup {b}
        /\ excused' \subseteq excused \cup {b}
    BY <1>4 DEF Forward, TurnAway
  <2>3. /\ phase' \in [Browsers -> {"new", "open", "leaving", "closed"}]
        /\ tasks' \in [Browsers -> SUBSET Nat]
    <3>1. \/ UNCHANGED <<phase, tasks>>
          \/ phase' = [phase EXCEPT ![b] = "closed"] /\ tasks' = [tasks EXCEPT ![b] = {}]
          \/ phase' = phase /\ tasks' = [tasks EXCEPT ![b] = @ \cup {sendSeq}]
      BY <1>4 DEF Forward, TurnAway, DoneWith
    <3>2. tasks[b] \cup {sendSeq} \in SUBSET Nat /\ {} \in SUBSET Nat
      BY DEF VNCType
    <3> QED BY <3>1, <3>2
  <2>4. ASSUME NEW c \in Browsers
        PROVE  packets'[c] \in 0 .. MaxPackets /\ packets'[c] + unsent' <= MaxPackets
    <3>1. packets[c] \in Nat /\ packets[c] + unsent <= MaxPackets /\ unsent \in Nat
      OBVIOUS
    <3>2. packets'[c] = IF c = b THEN packets[c] - 1 ELSE packets[c]
      BY <2>1
    <3>3. c = b => packets[c] > 0
      BY <2>1
    <3> QED BY <2>1, <3>1, <3>2, <3>3
  <2>5. packets' \in [Browsers -> 0 .. MaxPackets]
    BY <2>1, <2>4
  <2> QED BY <2>1, <2>2, <2>3, <2>4, <2>5
<1>5. CASE SendReply
  <2>1. replies # <<>> /\ UNCHANGED <<fdOf, unsent, packets, shut, gone, excused>>
        /\ DoneWith(Head(replies).to)
    BY <1>5 DEF SendReply
  <2>2. Head(replies).to \in Browsers
    <3>1. Head(replies) \in Replies
      BY <2>1, HeadTailProperties DEF RepliesType
    <3> QED BY <3>1 DEF Replies
  <2> QED BY <2>1, <2>2 DEF DoneWith
<1>6. CASE SendCommand \/ RecvVNC \/ ReturnVNC2Client \/ OnDisconnectVNC
  BY <1>e, <1>6 DEF SendCommand, RecvVNC, ReturnVNC2Client, OnDisconnectVNC
<1>7. CASE ProxyDisconnect \/ OnCloseVNC
  <2>1. UNCHANGED <<fdOf, phase, unsent, packets, tasks, gone>>
    BY <1>7 DEF ProxyDisconnect, OnCloseVNC
  <2>2. /\ shut' \subseteq shut \cup DOMAIN fdOf /\ shut \subseteq shut'
        /\ excused' \subseteq excused \cup DOMAIN fdOf
    <3>1. CASE ProxyDisconnect
      BY <3>1 DEF ProxyDisconnect
    <3>2. CASE OnCloseVNC
      <4>1. UNION {Holder(fd) : fd \in Fds} \subseteq DOMAIN fdOf
        BY <1>b
      <4> QED BY <3>2, <4>1 DEF OnCloseVNC, ShutBrowsers
    <3> QED BY <1>7, <3>1, <3>2
  <2> QED BY <2>1, <2>2
<1>8. CASE Connect \/ RecvFails \/ RecvCommand \/ LinkLost \/ UNCHANGED vars
  BY <1>e, <1>8 DEF Connect, RecvFails, RecvCommand, LinkLost, vars
<1>9. CASE ParsedInPart \/ OnRecvProxyDisconnect \/ \E r \in Requests : ParsedAll(r)
  BY <1>e, <1>9 DEF ParsedInPart, OnRecvProxyDisconnect, ParsedAll
<1>10. CASE ParserFull
  BY <1>10 DEF ParserFull, RequestsType, InHand, ToPeer
<1>11. ASSUME NEW r \in Requests,
              OnReceiveBody(r) \/ RequestEnds(r) \/ OnSuccessOrFail(r) \/ UnlockAndDelete(r)
       PROVE  BrowsersType'
  BY <1>e, <1>11 DEF OnReceiveBody, RequestEnds, OnSuccessOrFail, UnlockAndDelete
<1>12. ASSUME NEW t \in Threads, Send(t)
       PROVE  BrowsersType'
  BY <1>e, <1>12 DEF Send, SendWhole, SendFails, Sent, SendPart, SendBetween
<1> QED BY <1>1, <1>2, <1>3, <1>4, <1>5, <1>6, <1>7, <1>8, <1>9, <1>10, <1>11, <1>12
        DEF Next, Program, Environment, MainThread, Handlers, VNCMain, VNCHandler, Receive

\* The packets that are received and not handled, counted by InUse.
PacketPairs == {p \in Browsers \X (1 .. MaxPackets) : p[2] <= packets[p[1]]}

\* They are finitely many, no more when none was received, and one more when one was.
LEMMA PairsFacts ==
    /\ IsFiniteSet(PacketPairs) /\ Cardinality(PacketPairs) \in Nat
    /\ IsFiniteSet(PacketPairs') /\ Cardinality(PacketPairs') \in Nat
<1>1. IsFiniteSet(Browsers \X (1 .. MaxPackets))
  <2>1. IsFiniteSet(Browsers) /\ IsFiniteSet(1 .. MaxPackets)
    BY BoundFacts, FS_Interval DEF Browsers
  <2> QED BY <2>1, FS_Product
<1>2. PacketPairs \in SUBSET (Browsers \X (1 .. MaxPackets))
      /\ PacketPairs' \in SUBSET (Browsers \X (1 .. MaxPackets))
  BY DEF PacketPairs
<1>3. IsFiniteSet(PacketPairs) /\ IsFiniteSet(PacketPairs')
  BY <1>1, <1>2, FS_Subset
<1> QED BY <1>3, FS_CardinalityType

\* The same of another number of packets.
LEMMA PairsFewer ==
    ASSUME BrowsersType, BrowsersType', \A b \in Browsers : packets'[b] <= packets[b]
    PROVE  Cardinality(PacketPairs') <= Cardinality(PacketPairs)
<1>1. PacketPairs' \in SUBSET PacketPairs
  <2> SUFFICES ASSUME NEW p \in Browsers \X (1 .. MaxPackets), p[2] <= packets'[p[1]]
               PROVE  p[2] <= packets[p[1]]
    BY DEF PacketPairs
  <2>1. p[1] \in Browsers /\ p[2] \in Nat
    OBVIOUS
  <2>2. packets[p[1]] \in Nat /\ packets'[p[1]] \in Nat /\ packets'[p[1]] <= packets[p[1]]
    BY <2>1 DEF BrowsersType
  <2> QED BY <2>1, <2>2
<1> QED BY <1>1, PairsFacts, FS_Subset

\* A packet that is received is one more.
LEMMA PairsMore ==
    ASSUME BrowsersType, NEW b \in Browsers, packets' = [packets EXCEPT ![b] = @ + 1]
    PROVE  Cardinality(PacketPairs') <= Cardinality(PacketPairs) + 1
<1> DEFINE x == <<b, packets[b] + 1>>
<1>1. PacketPairs' \in SUBSET (PacketPairs \cup {x})
  <2> SUFFICES ASSUME NEW p \in Browsers \X (1 .. MaxPackets), p[2] <= packets'[p[1]],
                      ~ (p[2] <= packets[p[1]])
               PROVE  p = x
    BY DEF PacketPairs
  <2>1. p[1] \in Browsers /\ p[2] \in Nat /\ packets[p[1]] \in Nat /\ p = <<p[1], p[2]>>
    BY DEF BrowsersType
  <2>2. packets'[p[1]] = IF p[1] = b THEN packets[b] + 1 ELSE packets[p[1]]
    BY <2>1 DEF BrowsersType
  <2>3. p[1] = b /\ p[2] = packets[b] + 1
    BY <2>1, <2>2
  <2> QED BY <2>1, <2>3
<1> HIDE DEF x
<1>2. /\ IsFiniteSet(PacketPairs \cup {x})
      /\ Cardinality(PacketPairs \cup {x}) \in {Cardinality(PacketPairs), Cardinality(PacketPairs) + 1}
  BY PairsFacts, FS_AddElement
<1>3. Cardinality(PacketPairs') <= Cardinality(PacketPairs \cup {x})
  BY <1>1, <1>2, FS_Subset
<1> QED BY <1>2, <1>3, PairsFacts

\* Replies that are to be sent, the messages in use, and what browsers were sent.
LEMMA RepliesStep ==
    ASSUME TypeInv, BrowsersType', [Next]_vars
    PROVE  RepliesType'
<1>a. BrowsersType /\ VNCType /\ RequestsType /\ PlacesType /\ RepliesType
  BY DEF TypeInv
<1>b. /\ DOMAIN fdOf = 1 .. Len(fdOf) /\ DOMAIN fdOf \subseteq Browsers /\ Len(fdOf) \in Nat
      /\ \A b \in DOMAIN fdOf : fdOf[b] \in Fds
      /\ \A fd : Holder(fd) \subseteq DOMAIN fdOf
  BY <1>a, AcceptedFacts
<1>c. /\ InUse = Len(replies) + Cardinality(PacketPairs)
      /\ InUse' = Len(replies') + Cardinality(PacketPairs')
      /\ Cardinality(PacketPairs) \in Nat /\ Cardinality(PacketPairs') \in Nat
      /\ Len(replies) \in Nat /\ BrowserPool \in Nat
  BY <1>a, PairsFacts, BoundFacts DEF InUse, PacketPairs, RepliesType
<1>d. RepliesType
  BY <1>a
<1> USE <1>d DEF browsers, proxy, link, peer, ghosts
<1>e. ASSUME UNCHANGED <<packets, replies, heard>>
      PROVE  RepliesType'
  BY <1>e DEF RepliesType, InUse
<1>f. ASSUME UNCHANGED heard, replies' \in Seq(Replies), Len(replies') <= Len(replies),
             \A b \in Browsers : packets'[b] <= packets[b]
      PROVE  RepliesType'
  <2>1. Cardinality(PacketPairs') <= Cardinality(PacketPairs)
    BY <1>a, <1>f, PairsFewer
  <2>2. Len(replies') \in Nat
    BY <1>f
  <2>3. InUse' <= BrowserPool
    <3>1. InUse <= BrowserPool
      BY DEF RepliesType
    <3> QED BY <1>c, <1>f, <2>1, <2>2, <3>1
  <2> QED BY <1>f, <2>3 DEF RepliesType
<1>1. ASSUME NEW fd \in Fds, Accept(fd)
      PROVE  RepliesType'
  BY <1>e, <1>1 DEF Accept
<1>2. ASSUME NEW b \in DOMAIN fdOf, RecvPacket(b)
      PROVE  RepliesType'
  <2>1. /\ InUse < BrowserPool /\ packets' = [packets EXCEPT ![b] = @ + 1]
        /\ UNCHANGED <<replies, heard>>
    BY <1>2 DEF RecvPacket, Idle
  <2>2. Cardinality(PacketPairs') <= Cardinality(PacketPairs) + 1
    BY <1>a, <1>b, <2>1, PairsMore
  <2>3. Len(replies') = Len(replies)
    BY <2>1
  <2>4. InUse' <= BrowserPool
    BY <1>c, <2>1, <2>2, <2>3
  <2> QED BY <2>1, <2>4 DEF RepliesType
<1>3. ASSUME NEW b \in DOMAIN fdOf, BrowserLeaves(b) \/ OnDisconnect(b)
      PROVE  RepliesType'
  BY <1>e, <1>3 DEF BrowserLeaves, OnDisconnect
<1>4. ASSUME NEW b \in DOMAIN fdOf, Forward(b) \/ TurnAway(b)
      PROVE  RepliesType'
  <2>1. packets' = [packets EXCEPT ![b] = @ - 1] /\ UNCHANGED <<replies, heard>>
    BY <1>4 DEF Forward, TurnAway
  <2>2. ASSUME NEW c \in Browsers
        PROVE  packets'[c] <= packets[c]
    <3>1. packets[c] \in Nat /\ packets'[c] = IF c = b THEN packets[c] - 1 ELSE packets[c]
      BY <1>a, <2>1 DEF BrowsersType
    <3> QED BY <3>1
  <2>3. Len(replies') <= Len(replies)
    BY <1>c, <2>1
  <2> QED BY <1>f, <2>1, <2>2, <2>3 DEF RepliesType
<1>5. CASE SendReply
  <2> DEFINE m == Head(replies)
  <2>1. /\ replies # <<>> /\ replies' = Tail(replies) /\ packets' = packets
        /\ heard' = IF m.to \in gone THEN heard
                    ELSE [heard EXCEPT ![m.to] = Append(@, <<m.request, m.piece>>)]
    BY <1>5 DEF SendReply
  <2>2. m \in Replies /\ Tail(replies) \in Seq(Replies) /\ Len(Tail(replies)) = Len(replies) - 1
    BY <2>1, HeadTailProperties DEF RepliesType
  <2>3. InUse' <= BrowserPool
    <3>1. InUse <= BrowserPool /\ PacketPairs' = PacketPairs
      BY <2>1 DEF RepliesType, PacketPairs
    <3> QED BY <1>c, <2>1, <2>2, <3>1
  <2>4. m.to \in Browsers /\ <<m.request, m.piece>> \in Requests \X (1 .. MaxPieces)
    BY <2>2 DEF Replies
  <2> HIDE DEF m
  <2>5. heard' \in [Browsers -> Seq(Requests \X (1 .. MaxPieces))]
    <3>1. heard[m.to] \in Seq(Requests \X (1 .. MaxPieces))
      BY <2>4 DEF RepliesType
    <3>2. Append(heard[m.to], <<m.request, m.piece>>) \in Seq(Requests \X (1 .. MaxPieces))
      BY <2>4, <3>1, AppendProperties
    <3> QED BY <2>1, <3>2 DEF RepliesType
  <2> QED BY <2>1, <2>2, <2>3, <2>5 DEF RepliesType
<1>6. CASE SendCommand \/ RecvVNC \/ ProxyDisconnect \/ OnCloseVNC \/ OnDisconnectVNC
  BY <1>e, <1>6 DEF SendCommand, RecvVNC, ProxyDisconnect, OnCloseVNC, OnDisconnectVNC
<1>7. CASE ReturnVNC2Client
  <2> DEFINE c == Head(handling)
  <2>1. /\ handling # <<>> /\ c.type = "Proxy" /\ UNCHANGED <<packets, heard>>
        /\ \/ UNCHANGED replies
           \/ \E b \in Holder(c.fd) :
                 Idle /\ replies' = Append(replies, [to |-> b, request |-> c.request,
                                                     piece |-> c.piece])
    BY <1>7 DEF ReturnVNC2Client
  <2>2. CASE UNCHANGED replies
    BY <1>e, <2>1, <2>2
  <2>3. ASSUME NEW b \in Holder(c.fd), Idle,
               replies' = Append(replies, [to |-> b, request |-> c.request, piece |-> c.piece])
        PROVE  RepliesType'
    <3>1. c \in Pieces
      <4>1. c \in Answers
        BY <1>a, <2>1, HeadTailProperties DEF VNCType
      <4> QED BY <2>1, <4>1 DEF Answers, Closings
    <3>2. [to |-> b, request |-> c.request, piece |-> c.piece] \in Replies
      BY <1>b, <3>1 DEF Pieces, Replies
    <3>3. replies' \in Seq(Replies) /\ Len(replies') = Len(replies) + 1
      BY <2>3, <3>2, AppendProperties DEF RepliesType
    <3>4. PacketPairs' = PacketPairs
      BY <2>1 DEF PacketPairs
    <3>5. InUse' <= BrowserPool
      BY <1>c, <2>3, <3>3, <3>4 DEF Idle
    <3> QED BY <2>1, <3>3, <3>5 DEF RepliesType
  <2> QED BY <2>1, <2>2, <2>3
<1>8. CASE Connect \/ RecvFails \/ RecvCommand \/ LinkLost \/ UNCHANGED vars
  BY <1>e, <1>8 DEF Connect, RecvFails, RecvCommand, LinkLost, vars
<1>9. CASE ParsedInPart \/ ParserFull \/ OnRecvProxyDisconnect \/ \E r \in Requests : ParsedAll(r)
  BY <1>e, <1>9 DEF ParsedInPart, ParserFull, OnRecvProxyDisconnect, ParsedAll
<1>10. ASSUME NEW r \in Requests,
              OnReceiveBody(r) \/ RequestEnds(r) \/ OnSuccessOrFail(r) \/ UnlockAndDelete(r)
       PROVE  RepliesType'
  BY <1>e, <1>10 DEF OnReceiveBody, RequestEnds, OnSuccessOrFail, UnlockAndDelete
<1>11. ASSUME NEW t \in Threads, Send(t)
       PROVE  RepliesType'
  BY <1>e, <1>11 DEF Send, SendWhole, SendFails, Sent, SendPart, SendBetween
<1> QED BY <1>1, <1>2, <1>3, <1>4, <1>5, <1>6, <1>7, <1>8, <1>9, <1>10, <1>11
        DEF Next, Program, Environment, MainThread, Handlers, VNCMain, VNCHandler, Receive

\* What SendClient2VNC puts into the list of commands to be sent.
LEMMA SendsCommand ==
    ASSUME BrowsersType, VNCType, NEW b \in DOMAIN fdOf,
           NEW type \in {"Proxy", "ProxyDisconnect"}, SendClient2VNC(type, b)
    PROVE  /\ sending' \in Seq(ToPeer) /\ Len(sending') = Len(sending) + 1 /\ sendSeq' \in Nat
           /\ [type |-> type, fd |-> fdOf[b], seq |-> sendSeq, of |-> b] \in ToPeer
           /\ UNCHANGED <<vnc, handling>>
<1>1. [type |-> type, fd |-> fdOf[b], seq |-> sendSeq, of |-> b] \in ToPeer
  BY AcceptedFacts DEF VNCType, ToPeer
<1>2. PICK c \in ToPeer : c = [type |-> type, fd |-> fdOf[b], seq |-> sendSeq, of |-> b]
  BY <1>1
<1>3. sending' = Append(sending, c) /\ sendSeq' = sendSeq + 1 /\ UNCHANGED <<vnc, handling>>
  BY <1>2 DEF SendClient2VNC
<1> QED BY <1>1, <1>3, AppendProperties DEF VNCType

\* The VNC server: its Client, and the lists of its messages.
LEMMA VNCStep ==
    ASSUME TypeInv, [Next]_vars
    PROVE  VNCType'
<1>a. BrowsersType /\ VNCType /\ LinkType
  BY DEF TypeInv
<1>b. sending \in Seq(ToPeer) /\ handling \in Seq(Answers) /\ up \in Seq(Answers)
      /\ Len(sending) \in Nat /\ Len(handling) \in Nat /\ VNCPool \in Nat
      /\ Len(sending) + Len(handling) <= VNCPool
  BY <1>a, BoundFacts DEF VNCType, LinkType
<1> USE <1>a DEF browsers, proxy, link, peer, ghosts
<1>e. ASSUME UNCHANGED <<vnc, sendSeq, sending, handling>>
      PROVE  VNCType'
  BY <1>e DEF VNCType
<1>f. ASSUME NEW b \in DOMAIN fdOf, NEW type \in {"Proxy", "ProxyDisconnect"}, VNCIdle,
             SendClient2VNC(type, b)
      PROVE  VNCType'
  <2>1. /\ sending' \in Seq(ToPeer) /\ Len(sending') = Len(sending) + 1 /\ sendSeq' \in Nat
        /\ vnc' = vnc /\ handling' = handling
    BY <1>f, SendsCommand
  <2>2. Len(sending) + Len(handling) < VNCPool
    BY <1>f DEF VNCIdle
  <2>3. Len(sending') + Len(handling') <= VNCPool
    BY <1>b, <2>1, <2>2
  <2> QED BY <2>1, <2>3 DEF VNCType
<1>1. CASE (\E fd \in Fds : Accept(fd)) \/ SendReply \/ OnDisconnectVNC \/ OnCloseVNC
           \/ \E b \in DOMAIN fdOf : RecvPacket(b) \/ BrowserLeaves(b) \/ TurnAway(b)
  BY <1>1 DEF Accept, SendReply, OnDisconnectVNC, OnCloseVNC, RecvPacket, BrowserLeaves, TurnAway,
              VNCType
<1>2. ASSUME NEW b \in DOMAIN fdOf, OnDisconnect(b)
      PROVE  VNCType'
  BY <1>e, <1>f, <1>2 DEF OnDisconnect, CanSend
<1>3. ASSUME NEW b \in DOMAIN fdOf, Forward(b)
      PROVE  VNCType'
  BY <1>f, <1>3 DEF Forward, CanSend
<1>4. CASE SendCommand
  <2>1. sending # <<>> /\ sending' = Tail(sending) /\ UNCHANGED <<vnc, sendSeq, handling>>
    BY <1>4 DEF SendCommand
  <2>2. sending' \in Seq(ToPeer) /\ Len(sending') = Len(sending) - 1
    BY <1>b, <2>1, HeadTailProperties
  <2>3. Len(sending') + Len(handling') <= VNCPool
    BY <1>b, <2>1, <2>2
  <2> QED BY <2>1, <2>2, <2>3 DEF VNCType
<1>5. CASE RecvVNC
  <2>1. /\ up # <<>> /\ Len(sending) + Len(handling) < VNCPool
        /\ handling' = Append(handling, Head(up)) /\ UNCHANGED <<vnc, sendSeq, sending>>
    BY <1>5 DEF RecvVNC, VNCIdle
  <2>2. Head(up) \in Answers
    BY <1>b, <2>1, HeadTailProperties
  <2>3. handling' \in Seq(Answers) /\ Len(handling') = Len(handling) + 1
    BY <1>b, <2>1, <2>2, AppendProperties
  <2>4. Len(sending') + Len(handling') <= VNCPool
    BY <1>b, <2>1, <2>3
  <2> QED BY <2>1, <2>3, <2>4 DEF VNCType
<1>6. CASE ReturnVNC2Client \/ ProxyDisconnect
  <2>1. /\ handling # <<>> /\ handling' = Tail(handling) /\ UNCHANGED <<vnc, sendSeq, sending>>
    BY <1>6 DEF ReturnVNC2Client, ProxyDisconnect
  <2>2. handling' \in Seq(Answers) /\ Len(handling') = Len(handling) - 1
    BY <1>b, <2>1, HeadTailProperties
  <2>3. Len(sending') + Len(handling') <= VNCPool
    BY <1>b, <2>1, <2>2
  <2> QED BY <2>1, <2>2, <2>3 DEF VNCType
<1>7. CASE Connect
  BY <1>7 DEF Connect, VNCType
<1>8. CASE RecvFails \/ RecvCommand \/ LinkLost \/ UNCHANGED vars
  BY <1>e, <1>8 DEF RecvFails, RecvCommand, LinkLost, vars
<1>9. CASE ParsedInPart \/ ParserFull \/ OnRecvProxyDisconnect \/ \E r \in Requests : ParsedAll(r)
  BY <1>e, <1>9 DEF ParsedInPart, ParserFull, OnRecvProxyDisconnect, ParsedAll
<1>10. ASSUME NEW r \in Requests,
              OnReceiveBody(r) \/ RequestEnds(r) \/ OnSuccessOrFail(r) \/ UnlockAndDelete(r)
       PROVE  VNCType'
  BY <1>e, <1>10 DEF OnReceiveBody, RequestEnds, OnSuccessOrFail, UnlockAndDelete
<1>11. ASSUME NEW t \in Threads, Send(t)
       PROVE  VNCType'
  BY <1>e, <1>11 DEF Send, SendWhole, SendFails, Sent, SendPart, SendBetween
<1> QED BY <1>1, <1>2, <1>3, <1>4, <1>5, <1>6, <1>7, <1>8, <1>9, <1>10, <1>11
        DEF Next, Program, Environment, MainThread, Handlers, VNCMain, VNCHandler, Receive

\* What a thread of the peer sends.
LEMMA SendsAnswer ==
    ASSUME TypeInv, NEW t \in Threads, Sends(t)
    PROVE  /\ Command(t) \in Answers
           /\ t = Receiver => Command(t) = [type |-> "ProxyDisconnect", fd |-> cmd.fd,
                                            of |-> {cmd.of}] /\ pc[t] = "send" /\ cmd \in ToPeer
           /\ t # Receiver /\ pc[t] = "hangup" =>
                 Command(t) = [type |-> "ProxyDisconnect", fd |-> request[t].fd,
                               of |-> request[t].of]
           /\ t # Receiver /\ pc[t] # "hangup" =>
                 Command(t) = [type |-> "Proxy", fd |-> request[t].fd, seq |-> request[t].seq,
                               of |-> request[t].of, request |-> t,
                               piece |-> request[t].pieces]
<1>a. PlacesType /\ RequestsType /\ pc[t] \in {"send", "hangup"}
  BY DEF TypeInv, Sends
<1>1. CASE t = Receiver
  <2>1. Command(t) = [type |-> "ProxyDisconnect", fd |-> cmd.fd, of |-> {cmd.of}]
    BY <1>1 DEF Command
  <2>2. cmd \in ToPeer /\ pc[t] = "send"
    BY <1>a, <1>1 DEF PlacesType, RequestsType, InHand
  <2>3. Command(t) \in Closings
    BY <2>1, <2>2 DEF Closings, ToPeer
  <2> QED BY <1>1, <2>1, <2>2, <2>3 DEF Answers
<1>2. CASE t # Receiver
  <2>1. /\ t \in Requests /\ request[t].fd \in Fds /\ request[t].seq \in Nat
        /\ request[t].of \in SUBSET Browsers /\ request[t].pieces \in 0 .. MaxPieces
        /\ pc[t] = "send" => request[t].pieces \in 1 .. MaxPieces
    BY <1>a, <1>2, ThreadFacts DEF RequestsType
  <2>2. CASE pc[t] = "hangup"
    <3>1. Command(t) = [type |-> "ProxyDisconnect", fd |-> request[t].fd, of |-> request[t].of]
      BY <1>2, <2>2 DEF Command
    <3>2. Command(t) \in Closings
      BY <2>1, <3>1 DEF Closings
    <3> QED BY <1>2, <2>2, <3>1, <3>2 DEF Answers
  <2>3. CASE pc[t] # "hangup"
    <3>1. Command(t) = [type |-> "Proxy", fd |-> request[t].fd, seq |-> request[t].seq,
                        of |-> request[t].of, request |-> t, piece |-> request[t].pieces]
      BY <1>2, <2>3 DEF Command
    <3>2. Command(t) \in Pieces
      BY <1>a, <2>1, <2>3, <3>1 DEF Pieces
    <3> QED BY <1>2, <2>3, <3>1, <3>2 DEF Answers
  <2> QED BY <2>2, <2>3
<1> QED BY <1>1, <1>2

\* The connection of the programs and what its sockets hold.
LEMMA LinkTypeStep ==
    ASSUME TypeInv, [Next]_vars
    PROVE  LinkType'
<1>a. VNCType /\ LinkType
  BY DEF TypeInv
<1>b. /\ sending \in Seq(ToPeer) /\ down \in Seq(ToPeer) /\ up \in Seq(Answers)
      /\ Len(down) \in Nat /\ Len(up) \in Nat
      /\ DownRoom \in Nat /\ UpRoom \in Nat /\ Len(down) <= DownRoom /\ Len(up) <= UpRoom
  BY <1>a, BoundFacts DEF VNCType, LinkType
<1>c. <<>> \in Seq(ToPeer) /\ <<>> \in Seq(Answers) /\ Len(<<>>) = 0
  OBVIOUS
<1> USE <1>a DEF browsers, proxy, link, peer, ghosts
<1>e. ASSUME UNCHANGED <<nlinks, alive, down, up>>
      PROVE  LinkType'
  BY <1>e DEF LinkType
<1>1. ASSUME NEW b \in DOMAIN fdOf,
             \/ RecvPacket(b) \/ BrowserLeaves(b) \/ OnDisconnect(b) \/ Forward(b) \/ TurnAway(b)
      PROVE  LinkType'
  BY <1>e, <1>1 DEF RecvPacket, BrowserLeaves, OnDisconnect, Forward, TurnAway
<1>2. CASE (\E fd \in Fds : Accept(fd)) \/ SendReply \/ ReturnVNC2Client \/ ProxyDisconnect
           \/ OnDisconnectVNC \/ OnCloseVNC
  BY <1>e, <1>2 DEF Accept, SendReply, ReturnVNC2Client, ProxyDisconnect, OnDisconnectVNC,
                    OnCloseVNC
<1>3. CASE SendCommand
  <2>1. /\ sending # <<>> /\ (alive => Len(down) < DownRoom)
        /\ down' = IF alive THEN Append(down, Head(sending)) ELSE down
        /\ UNCHANGED <<nlinks, alive, up>>
    BY <1>3 DEF SendCommand
  <2>2. Head(sending) \in ToPeer
    BY <1>b, <2>1, HeadTailProperties
  <2>3. Append(down, Head(sending)) \in Seq(ToPeer)
        /\ Len(Append(down, Head(sending))) = Len(down) + 1
    BY <1>b, <2>2, AppendProperties
  <2>4. down' \in Seq(ToPeer) /\ Len(down') <= DownRoom
    BY <1>b, <2>1, <2>3
  <2> QED BY <2>1, <2>4 DEF LinkType
<1>4. CASE RecvVNC
  <2>1. up # <<>> /\ up' = Tail(up) /\ UNCHANGED <<nlinks, alive, down>>
    BY <1>4 DEF RecvVNC
  <2>2. up' \in Seq(Answers) /\ Len(up') = Len(up) - 1
    BY <1>b, <2>1, HeadTailProperties
  <2>3. Len(up') <= UpRoom
    BY <1>b, <2>2
  <2> QED BY <2>1, <2>2, <2>3 DEF LinkType
<1>5. CASE Connect
  <2>1. nlinks < MaxLinks /\ nlinks' = nlinks + 1 /\ alive' = TRUE /\ down' = <<>> /\ up' = <<>>
    BY <1>5 DEF Connect
  <2>2. nlinks' \in 0 .. MaxLinks
    BY <2>1, BoundFacts DEF LinkType
  <2> QED BY <1>b, <1>c, <2>1, <2>2 DEF LinkType
<1>6. CASE LinkLost
  <2>1. PICK n \in 0 .. Len(up) : up' = SubSeq(up, 1, n)
    BY <1>6 DEF LinkLost
  <2>2. up' \in Seq(Answers) /\ Len(up') <= UpRoom
    <3>1. n \in Nat /\ n <= Len(up) /\ \A i \in 1 .. n : up[i] \in Answers
      BY <1>b
    <3>2. SubSeq(up, 1, n) \in Seq(Answers) /\ Len(SubSeq(up, 1, n)) = n
      BY <3>1, SubSeqFirst
    <3> QED BY <1>b, <2>1, <3>1, <3>2
  <2>3. alive' = FALSE /\ down' = <<>> /\ nlinks' = nlinks
    BY <1>6 DEF LinkLost
  <2>4. down' \in Seq(ToPeer) /\ Len(down') <= DownRoom
    BY <1>b, <1>c, <2>3
  <2> QED BY <2>2, <2>3, <2>4 DEF LinkType
<1>7. CASE RecvCommand
  <2>1. down # <<>> /\ down' = Tail(down) /\ UNCHANGED <<nlinks, alive, up>>
    BY <1>7 DEF RecvCommand
  <2>2. down' \in Seq(ToPeer) /\ Len(down') = Len(down) - 1
    BY <1>b, <2>1, HeadTailProperties
  <2>3. Len(down') <= DownRoom
    BY <1>b, <2>2
  <2> QED BY <2>1, <2>2, <2>3 DEF LinkType
<1>8. CASE RecvFails \/ UNCHANGED vars
  BY <1>e, <1>8 DEF RecvFails, vars
<1>9. CASE ParsedInPart \/ ParserFull \/ OnRecvProxyDisconnect \/ \E r \in Requests : ParsedAll(r)
  BY <1>e, <1>9 DEF ParsedInPart, ParserFull, OnRecvProxyDisconnect, ParsedAll
<1>10. ASSUME NEW r \in Requests,
              OnReceiveBody(r) \/ RequestEnds(r) \/ OnSuccessOrFail(r) \/ UnlockAndDelete(r)
       PROVE  LinkType'
  BY <1>e, <1>10 DEF OnReceiveBody, RequestEnds, OnSuccessOrFail, UnlockAndDelete
<1>11. ASSUME NEW t \in Threads, SendWhole(t)
       PROVE  LinkType'
  <2>1. /\ Sends(t) /\ Len(up) < (IF half = t THEN UpRoom - 1 ELSE UpRoom)
        /\ up' = Append(up, Command(t)) /\ UNCHANGED <<nlinks, alive, down>>
    BY <1>11 DEF SendWhole, Sent
  <2>2. Command(t) \in Answers
    BY <2>1, SendsAnswer
  <2>3. up' \in Seq(Answers) /\ Len(up') = Len(up) + 1
    BY <1>b, <2>1, <2>2, AppendProperties
  <2>4. Len(up') <= UpRoom
    BY <1>b, <2>1, <2>3
  <2> QED BY <2>1, <2>3, <2>4 DEF LinkType
<1>12. ASSUME NEW t \in Threads, SendPart(t) \/ SendBetween(t) \/ SendFails(t)
       PROVE  LinkType'
  BY <1>e, <1>12 DEF SendPart, SendBetween, SendFails, Sent
<1> QED BY <1>1, <1>2, <1>3, <1>4, <1>5, <1>6, <1>7, <1>8, <1>9, <1>10, <1>11, <1>12
        DEF Next, Program, Environment, MainThread, Handlers, VNCMain, VNCHandler, Receive, Send

Total == FoldSet(LAMBDA q, n : request[q].pieces + n, 0, Requests)

\* The pieces of one answer are no more than those of all.
LEMMA TotalFacts ==
    ASSUME IsFiniteSet(Requests), \A q \in Requests : request[q].pieces \in Nat
    PROVE  Total \in Nat /\ \A q \in Requests : request[q].pieces <= Total
<1> DEFINE S == SUBSET Requests
           rank == [s \in S |-> Cardinality(s)]
           one(s) == CHOOSE q \in s : TRUE
           def == [g \in [S -> Nat] |->
                     [s \in S |-> IF s = {} THEN 0
                                  ELSE request[one(s)].pieces + g[s \ {one(s)}]]]
           iter == CHOOSE g : g = [s \in S |-> IF s = {} THEN 0
                                  ELSE request[one(s)].pieces + g[s \ {one(s)}]]
<1>1. Total = iter[Requests]
  BY DEF Total, FoldSet, MapThenFoldSet
<1>2. rank \in [S -> Nat]
  BY FS_Subset, FS_CardinalityType
<1>3. \A s \in S : s # {} =>
         one(s) \in s /\ s \ {one(s)} \in S /\ rank[s \ {one(s)}] < rank[s]
  <2> SUFFICES ASSUME NEW s \in S, s # {}
               PROVE  one(s) \in s /\ s \ {one(s)} \in S /\ rank[s \ {one(s)}] < rank[s]
    OBVIOUS
  <2>1. one(s) \in s
    OBVIOUS
  <2>2. IsFiniteSet(s)
    BY FS_Subset
  <2> HIDE DEF one
  <2>3. Cardinality(s \ {one(s)}) = Cardinality(s) - 1
    BY <2>1, <2>2, FS_RemoveElement
  <2>4. Cardinality(s) \in Nat
    BY <2>2, FS_CardinalityType
  <2> QED BY <2>1, <2>3, <2>4
<1>4. Requests \in S /\ Requests \in S /\ \A s \in S : \A q \in s : request[q].pieces \in Nat
  OBVIOUS
<1> HIDE DEF one, rank, S
<1>5. def \in [[S -> Nat] -> [S -> Nat]]
  <2> SUFFICES ASSUME NEW g \in [S -> Nat], NEW s \in S, s # {}
               PROVE  request[one(s)].pieces + g[s \ {one(s)}] \in Nat
    OBVIOUS
  <2>1. request[one(s)].pieces \in Nat /\ g[s \ {one(s)}] \in Nat
    BY <1>3, <1>4
  <2> QED BY <2>1
<1>6. UsesLowerRanks(def, S, Nat, rank)
  <2> SUFFICES ASSUME NEW g \in [S -> Nat], NEW h \in [S -> Nat], NEW s \in S,
                      \A y \in S : rank[y] < rank[s] => g[y] = h[y]
               PROVE  def[g][s] = def[h][s]
    BY DEF UsesLowerRanks
  <2>1. s # {} => g[s \ {one(s)}] = h[s \ {one(s)}]
    BY <1>3
  <2> QED BY <2>1
<1>7. WellDefined(def, S, Nat, rank)
  BY <1>2, <1>5, <1>6 DEF WellDefined
<1> HIDE DEF def
<1>8. PICK f : f \in [S -> Nat] /\ f = def[f]
  BY <1>7, RecursionSolved
<1>9. f = [s \in S |-> IF s = {} THEN 0 ELSE request[one(s)].pieces + f[s \ {one(s)}]]
  BY <1>8 DEF def
<1>10. iter = [s \in S |-> IF s = {} THEN 0 ELSE request[one(s)].pieces + iter[s \ {one(s)}]]
  BY <1>9
<1> HIDE DEF iter
<1> DEFINE T == {s \in S : iter[s] \in Nat /\ \A q \in s : request[q].pieces <= iter[s]}
<1>11. ASSUME NEW s \in S, \A y \in S : rank[y] < rank[s] => y \in T
       PROVE  s \in T
  <2>1. CASE s = {}
    BY <1>10, <2>1
  <2>2. CASE s # {}
    <3>1. iter[s] = request[one(s)].pieces + iter[s \ {one(s)}]
      BY <1>10, <2>2
    <3>2. s \ {one(s)} \in T
      BY <1>3, <1>11, <2>2
    <3>3. request[one(s)].pieces \in Nat /\ iter[s \ {one(s)}] \in Nat
      BY <1>3, <1>4, <2>2, <3>2
    <3>4. ASSUME NEW q \in s
          PROVE  request[q].pieces <= iter[s]
      <4>1. request[q].pieces \in Nat
        BY <1>4
      <4>2. q = one(s) \/ request[q].pieces <= iter[s \ {one(s)}]
        BY <3>2, <3>4
      <4> QED BY <3>1, <3>3, <4>1, <4>2
    <3>5. iter[s] \in Nat
      BY <3>1, <3>3
    <3> QED BY <3>4, <3>5
  <2> QED BY <2>1, <2>2
<1> HIDE DEF T
<1>12. S \subseteq T
  BY <1>2, <1>11, SetOfAllRanked
<1>13. Requests \in T
  BY <1>4, <1>12
<1> QED BY <1>1, <1>13 DEF T

\* The parsers, the command in hand and what the requests were made of.
LEMMA RequestsStep ==
    ASSUME TypeInv, [Next]_vars
    PROVE  RequestsType'
<1>a. PlacesType /\ BrowsersType /\ VNCType /\ LinkType /\ RequestsType
  BY DEF TypeInv
<1>b. /\ parser \in [Fds -> SUBSET Browsers]
      /\ request \in [Requests -> [fd : Fds \cup {Nobody}, seq : Nat, of : SUBSET Browsers,
                                   pieces : 0 .. MaxPieces]]
      /\ InHand => cmd \in ToPeer /\ (cmd.type = "Proxy" <=> pc[Receiver] # "erase")
  BY <1>a DEF RequestsType
<1>c. InHand => cmd.fd \in Fds /\ cmd.seq \in Nat /\ cmd.of \in Browsers
  BY <1>b DEF ToPeer
<1> USE <1>a, ThreadFacts DEF browsers, proxy, link, peer, ghosts, At, Goto, PlacesType
<1>e. ASSUME UNCHANGED <<pc, parser, cmd, request>>
      PROVE  RequestsType'
  BY <1>e DEF RequestsType, InHand
<1>1. ASSUME NEW b \in DOMAIN fdOf,
             \/ RecvPacket(b) \/ BrowserLeaves(b) \/ OnDisconnect(b) \/ Forward(b) \/ TurnAway(b)
      PROVE  RequestsType'
  BY <1>e, <1>1 DEF RecvPacket, BrowserLeaves, OnDisconnect, Forward, TurnAway
<1>2. CASE (\E fd \in Fds : Accept(fd)) \/ SendReply \/ SendCommand \/ RecvVNC
           \/ ReturnVNC2Client \/ ProxyDisconnect \/ OnDisconnectVNC \/ OnCloseVNC
  BY <1>e, <1>2 DEF Accept, SendReply, SendCommand, RecvVNC, ReturnVNC2Client, ProxyDisconnect,
                    OnDisconnectVNC, OnCloseVNC
<1>3. CASE UNCHANGED vars \/ LinkLost \/ \E t \in Threads : SendBetween(t) \/ SendPart(t)
  BY <1>e, <1>3 DEF vars, LinkLost, SendBetween, SendPart
<1>4. CASE Connect \/ RecvFails
  BY <1>4 DEF Connect, RecvFails, RequestsType, InHand
<1>5. CASE RecvCommand
  <2>1. /\ down # <<>> /\ cmd' = Head(down) /\ UNCHANGED <<parser, request>>
        /\ pc' = [pc EXCEPT ![Receiver] = IF Head(down).type = "Proxy" THEN "parse" ELSE "erase"]
    BY <1>5 DEF RecvCommand
  <2>2. cmd' \in ToPeer
    BY <2>1, HeadTailProperties DEF LinkType
  <2>3. cmd'.type = "Proxy" <=> pc'[Receiver] # "erase"
    BY <2>1
  <2>4. \A r \in Requests : pc'[r] = pc[r]
    BY <2>1
  <2> QED BY <2>1, <2>2, <2>3, <2>4 DEF RequestsType
<1>6. CASE ParsedInPart \/ OnRecvProxyDisconnect
  <2>1. /\ pc[Receiver] \in {"parse", "erase"} /\ request' = request
        /\ pc' = [pc EXCEPT ![Receiver] = "recv"]
        /\ \/ parser' = [parser EXCEPT ![cmd.fd] = @ \cup {cmd.of}]
           \/ parser' = [parser EXCEPT ![cmd.fd] = {}]
    BY <1>6 DEF ParsedInPart, OnRecvProxyDisconnect, Fed
  <2>2. parser' \in [Fds -> SUBSET Browsers]
    <3>1. parser[cmd.fd] \cup {cmd.of} \in SUBSET Browsers
      BY <1>b, <1>c, <2>1 DEF InHand
    <3> QED BY <1>b, <2>1, <3>1
  <2>3. \A r \in Requests : pc'[r] = pc[r]
    BY <2>1
  <2> QED BY <2>1, <2>2, <2>3 DEF RequestsType, InHand
<1>7. ASSUME NEW r \in Requests, ParsedAll(r)
      PROVE  RequestsType'
  <2>1. /\ pc[Receiver] = "parse" /\ pc' = [pc EXCEPT ![Receiver] = "recv", ![r] = "run"]
        /\ parser' = [parser EXCEPT ![cmd.fd] = @ \cup {cmd.of}]
        /\ request' = [request EXCEPT ![r] = [fd |-> cmd.fd, seq |-> cmd.seq, of |-> Fed[cmd.fd],
                                              pieces |-> 0]]
    BY <1>7 DEF ParsedAll, Fed
  <2>2. cmd.fd \in Fds /\ cmd.seq \in Nat /\ cmd.of \in Browsers
    BY <1>c, <2>1 DEF InHand
  <2>3. parser[cmd.fd] \cup {cmd.of} \in SUBSET Browsers
    BY <1>b, <2>2
  <2>4. Fed[cmd.fd] \in SUBSET Browsers
    BY <1>b, <2>2, <2>3 DEF Fed
  <2>5. parser' \in [Fds -> SUBSET Browsers]
    BY <1>b, <2>1, <2>3
  <2>6. [fd |-> cmd.fd, seq |-> cmd.seq, of |-> Fed[cmd.fd], pieces |-> 0]
           \in [fd : Fds \cup {Nobody}, seq : Nat, of : SUBSET Browsers, pieces : 0 .. MaxPieces]
    BY <2>2, <2>4, BoundFacts
  <2>7. request' \in [Requests -> [fd : Fds \cup {Nobody}, seq : Nat, of : SUBSET Browsers,
                                   pieces : 0 .. MaxPieces]]
    BY <1>b, <2>1, <2>6
  <2>8. /\ request'[r].fd \in Fds /\ pc'[r] = "run" /\ pc'[Receiver] = "recv"
        /\ \A q \in Requests \ {r} : request'[q] = request[q] /\ pc'[q] = pc[q]
    BY <1>b, <2>1, <2>2
  <2> QED BY <2>5, <2>7, <2>8 DEF RequestsType, InHand
<1>8. CASE ParserFull
  <2>1. /\ pc[Receiver] = "parse" /\ pc' = [pc EXCEPT ![Receiver] = "send"]
        /\ UNCHANGED <<parser, cmd, request>>
    BY <1>8 DEF ParserFull
  <2> QED BY <2>1 DEF RequestsType, InHand
<1>9. ASSUME NEW r \in Requests, OnReceiveBody(r)
      PROVE  RequestsType'
  <2>1. /\ pc[r] = "run" /\ pc' = [pc EXCEPT ![r] = "send"] /\ Total < MaxPieces
        /\ request' = [request EXCEPT ![r].pieces = @ + 1] /\ UNCHANGED <<parser, cmd>>
    BY <1>9 DEF OnReceiveBody, Total
  <2>2. /\ Total \in Nat /\ \A q \in Requests : request[q].pieces <= Total
    <3>1. IsFiniteSet(Requests) /\ \A q \in Requests : request[q].pieces \in Nat
      BY <1>b, ProxySystemAssumption
    <3> QED BY <3>1, TotalFacts
  <2>3. /\ request[r].pieces \in Nat /\ MaxPieces \in Nat
        /\ request[r].pieces <= Total
    BY <1>b, <2>2, BoundFacts
  <2>4. request[r].pieces + 1 \in 0 .. MaxPieces /\ request[r].pieces + 1 > 0
    BY <2>1, <2>2, <2>3
  <2>5. request' \in [Requests -> [fd : Fds \cup {Nobody}, seq : Nat, of : SUBSET Browsers,
                                   pieces : 0 .. MaxPieces]]
    BY <1>b, <2>1, <2>4
  <2>6. /\ request'[r].pieces = request[r].pieces + 1 /\ request'[r].fd = request[r].fd
        /\ \A q \in Requests \ {r} : request'[q] = request[q]
    BY <1>b, <2>1
  <2>7. /\ pc'[r] = "send" /\ pc'[Receiver] = pc[Receiver]
        /\ \A q \in Requests \ {r} : pc'[q] = pc[q]
    BY <2>1
  <2> QED BY <2>1, <2>4, <2>5, <2>6, <2>7 DEF RequestsType, InHand
<1>10. ASSUME NEW r \in Requests,
              RequestEnds(r) \/ OnSuccessOrFail(r) \/ UnlockAndDelete(r)
       PROVE  RequestsType'
  <2>1. /\ pc[r] # "none" /\ pc'[r] \in {"end", "hangup", "unlock", "deleted"}
        /\ UNCHANGED <<parser, cmd, request>>
        /\ \A t \in Threads \ {r} : pc'[t] = pc[t]
    BY <1>10 DEF RequestEnds, OnSuccessOrFail, UnlockAndDelete
  <2>2. pc'[Receiver] = pc[Receiver]
    BY <2>1
  <2> QED BY <2>1, <2>2 DEF RequestsType, InHand
<1>11. ASSUME NEW t \in Threads, SendWhole(t) \/ SendFails(t)
       PROVE  RequestsType'
  <2>1. /\ pc[t] \in {"send", "hangup"} /\ pc' = [pc EXCEPT ![t] = AfterSend(t)]
        /\ cmd' = (IF t = Receiver THEN NoCommand ELSE cmd) /\ UNCHANGED <<parser, request>>
    BY <1>11 DEF SendWhole, SendFails, Sent, Sends
  <2>2. CASE t = Receiver
    <3>1. pc'[Receiver] = "recv" /\ \A q \in Requests : pc'[q] = pc[q]
      BY <2>1, <2>2 DEF AfterSend
    <3> QED BY <2>1, <3>1 DEF RequestsType, InHand
  <2>3. CASE t \in Requests
    <3>1. /\ pc'[Receiver] = pc[Receiver] /\ pc'[t] \in {"run", "unlock"} /\ pc[t] # "none"
          /\ \A q \in Requests \ {t} : pc'[q] = pc[q]
      BY <2>1, <2>3 DEF AfterSend
    <3>2. cmd' = cmd
      BY <2>1, <2>3
    <3> QED BY <2>1, <3>1, <3>2 DEF RequestsType, InHand
  <2> QED BY <2>2, <2>3
<1> QED BY <1>1, <1>2, <1>3, <1>4, <1>5, <1>6, <1>7, <1>8, <1>9, <1>10, <1>11
        DEF Next, Program, Environment, MainThread, Handlers, VNCMain, VNCHandler, Receive, Send

\* Races are entered by those five only.
LEMMA RacesStep ==
    ASSUME TypeInv, [Next]_vars
    PROVE  RacesType' /\ (races' = {} => races = {})
<1>a. RacesType
  BY DEF TypeInv
<1> DEFINE Goal == RacesType' /\ races \subseteq races'
<1> SUFFICES Goal
  OBVIOUS
<1> USE <1>a DEF browsers, proxy, link, peer, ghosts, RacesType, Enter
<1>1. ASSUME NEW b \in DOMAIN fdOf,
             \/ RecvPacket(b) \/ BrowserLeaves(b) \/ OnDisconnect(b) \/ Forward(b) \/ TurnAway(b)
      PROVE  Goal
  BY <1>1 DEF RecvPacket, BrowserLeaves, OnDisconnect, Forward, TurnAway
<1>2. CASE (\E fd \in Fds : Accept(fd)) \/ SendReply \/ SendCommand \/ RecvVNC
           \/ ReturnVNC2Client \/ ProxyDisconnect \/ OnDisconnectVNC \/ OnCloseVNC
  BY <1>2 DEF Accept, SendReply, SendCommand, RecvVNC, ReturnVNC2Client, ProxyDisconnect,
              OnDisconnectVNC, OnCloseVNC
<1>3. CASE Connect \/ RecvFails \/ RecvCommand \/ LinkLost \/ UNCHANGED vars
  BY <1>3 DEF Connect, RecvFails, RecvCommand, LinkLost, vars
<1>4. CASE ParsedInPart \/ ParserFull \/ OnRecvProxyDisconnect \/ \E r \in Requests : ParsedAll(r)
  BY <1>4 DEF ParsedInPart, ParserFull, OnRecvProxyDisconnect, ParsedAll
<1>5. ASSUME NEW r \in Requests,
             OnReceiveBody(r) \/ RequestEnds(r) \/ OnSuccessOrFail(r) \/ UnlockAndDelete(r)
      PROVE  Goal
  BY <1>5 DEF OnReceiveBody, RequestEnds, OnSuccessOrFail, UnlockAndDelete
<1>6. ASSUME NEW t \in Threads, Send(t)
      PROVE  Goal
  BY <1>6 DEF Send, SendWhole, SendFails, Sent, SendPart, SendBetween
<1> QED BY <1>1, <1>2, <1>3, <1>4, <1>5, <1>6
        DEF Next, Program, Environment, MainThread, Handlers, VNCMain, VNCHandler, Receive

\* The connection of the programs, and what is left of one that is lost.
LEMMA LinkStep ==
    ASSUME TypeInv, LinkInv, [Next]_vars
    PROVE  LinkInv'
<1>a. PlacesType /\ BrowsersType /\ VNCType /\ LinkType
  BY DEF TypeInv
<1>b. alive \in BOOLEAN /\ pc[Receiver] \in {"connect", "recv", "parse", "erase", "send"}
  BY <1>a DEF LinkType, PlacesType
<1> USE <1>a, <1>b, ThreadFacts DEF LinkInv, browsers, proxy, link, peer, ghosts, At, Goto
<1>e. ASSUME UNCHANGED <<vnc, sending, handling, alive, down, up, half>>,
             pc'[Receiver] = "connect" => pc[Receiver] = "connect"
      PROVE  LinkInv'
  BY <1>e
<1>1. ASSUME NEW b \in DOMAIN fdOf,
             RecvPacket(b) \/ BrowserLeaves(b) \/ TurnAway(b)
      PROVE  LinkInv'
  BY <1>e, <1>1 DEF RecvPacket, BrowserLeaves, TurnAway
<1>2. ASSUME NEW b \in DOMAIN fdOf, OnDisconnect(b) \/ Forward(b)
      PROVE  LinkInv'
  <2>1. UNCHANGED <<alive, down, up, half, pc>>
    BY <1>2 DEF OnDisconnect, Forward
  <2>2. CASE UNCHANGED <<vnc, sending, handling>>
    BY <1>e, <2>1, <2>2
  <2>3. CASE vnc = "online" /\ vnc' = vnc
    BY <2>1, <2>3
  <2> QED BY <1>2, <2>2, <2>3 DEF OnDisconnect, Forward, CanSend, SendClient2VNC
<1>3. CASE (\E fd \in Fds : Accept(fd)) \/ SendReply \/ UNCHANGED vars
  BY <1>e, <1>3 DEF Accept, SendReply, vars
<1>4. CASE SendCommand
  <2>1. /\ sending # <<>> /\ UNCHANGED <<vnc, handling, alive, up, half, pc>>
        /\ alive \/ down' = down
    BY <1>4 DEF SendCommand
  <2> QED BY <2>1
<1>5. CASE RecvVNC
  BY <1>5 DEF RecvVNC
<1>6. CASE ReturnVNC2Client \/ ProxyDisconnect
  <2>1. handling # <<>> /\ UNCHANGED <<vnc, sending, alive, down, up, half, pc>>
    BY <1>6 DEF ReturnVNC2Client, ProxyDisconnect
  <2> QED BY <2>1
<1>7. CASE OnDisconnectVNC \/ OnCloseVNC
  BY <1>7 DEF OnDisconnectVNC, OnCloseVNC
<1>8. CASE Connect
  <2>1. /\ alive' = TRUE /\ vnc' = "online" /\ pc' = [pc EXCEPT ![Receiver] = "recv"]
    BY <1>8 DEF Connect
  <2>2. pc'[Receiver] = "recv"
    BY <2>1 DEF PlacesType
  <2> QED BY <2>1, <2>2
<1>9. CASE LinkLost
  <2>1. PICK n \in 0 .. Len(up) : up' = SubSeq(up, 1, n)
    BY <1>9 DEF LinkLost
  <2>2. /\ alive /\ alive' = FALSE /\ down' = <<>> /\ half' = Nobody
        /\ UNCHANGED <<vnc, sending, handling, pc>>
    BY <1>9 DEF LinkLost
  <2> QED BY <2>2
<1>10. CASE RecvFails
  BY <1>10 DEF RecvFails
<1>11. CASE RecvCommand
  <2>1. /\ down # <<>> /\ UNCHANGED <<vnc, sending, handling, alive, up, half>>
        /\ pc' = [pc EXCEPT ![Receiver] = IF Head(down).type = "Proxy" THEN "parse" ELSE "erase"]
    BY <1>11 DEF RecvCommand
  <2>2. pc'[Receiver] # "connect"
    BY <2>1 DEF PlacesType
  <2> QED BY <2>1, <2>2
<1>12. CASE ParsedInPart \/ ParserFull \/ OnRecvProxyDisconnect \/ \E r \in Requests : ParsedAll(r)
  <2>1. /\ UNCHANGED <<vnc, sending, handling, alive, down, up, half>>
        /\ pc'[Receiver] # "connect"
    BY <1>12 DEF ParsedInPart, ParserFull, OnRecvProxyDisconnect, ParsedAll, PlacesType
  <2> QED BY <1>e, <2>1
<1>13. ASSUME NEW r \in Requests,
              OnReceiveBody(r) \/ RequestEnds(r) \/ OnSuccessOrFail(r) \/ UnlockAndDelete(r)
       PROVE  LinkInv'
  <2>1. /\ UNCHANGED <<vnc, sending, handling, alive, down, up, half>>
        /\ pc'[Receiver] = pc[Receiver]
    BY <1>13 DEF OnReceiveBody, RequestEnds, OnSuccessOrFail, UnlockAndDelete, PlacesType
  <2> QED BY <1>e, <2>1
<1>14. ASSUME NEW t \in Threads, Send(t)
       PROVE  LinkInv'
  <2>0. UNCHANGED <<vnc, sending, handling, alive, down>>
    BY <1>14 DEF Send, SendWhole, SendFails, Sent, SendPart, SendBetween
  <2>1. pc'[Receiver] = "connect" => pc[Receiver] = "connect"
    BY <1>14 DEF Send, SendWhole, SendFails, Sent, SendPart, SendBetween, AfterSend, PlacesType
  <2>2. CASE alive
    BY <2>0, <2>1, <2>2
  <2>3. CASE ~ alive
    BY <1>e, <1>14, <2>0, <2>1, <2>3 DEF Send, SendWhole, SendFails, Sent, SendPart, SendBetween
  <2> QED BY <2>2, <2>3
<1> QED BY <1>1, <1>2, <1>3, <1>4, <1>5, <1>6, <1>7, <1>8, <1>9, <1>10, <1>11, <1>12, <1>13, <1>14
        DEF Next, Program, Environment, MainThread, Handlers, VNCMain, VNCHandler, Receive

\* The types hold at first, and are those that a run checks.
LEMMA TypesAtFirst ==
    Init => TypeInv /\ LinkInv
<1> SUFFICES ASSUME Init
             PROVE  TypeInv /\ LinkInv
  OBVIOUS
<1> USE ThreadFacts, BoundFacts DEF Init
<1>1. PlacesType
  BY DEF PlacesType
<1>2. BrowsersType
  BY DEF BrowsersType
<1>3. RepliesType
  <2>1. PacketPairs = {}
    BY DEF PacketPairs
  <2>2. Cardinality(PacketPairs) = 0
    BY <2>1, FS_EmptySet
  <2>3. InUse = 0
    BY <2>2 DEF InUse, PacketPairs
  <2> QED BY <2>3 DEF RepliesType
<1>4. VNCType /\ LinkType
  <2>1. /\ \A S : <<>> \in Seq(S)
        /\ Len(<<>>) = 0
    OBVIOUS
  <2>2. VNCType
    <3>1. Len(sending) + Len(handling) = 0
      BY <2>1
    <3> QED BY <2>1, <3>1 DEF VNCType
  <2>3. LinkType
    <3>1. down \in Seq(ToPeer) /\ up \in Seq(Answers) /\ Len(down) = 0 /\ Len(up) = 0
      BY <2>1
    <3>2. nlinks \in 0 .. MaxLinks /\ alive \in BOOLEAN
      <4>1. alive = FALSE /\ nlinks = 0
        OBVIOUS
      <4>2. nlinks \in 0 .. MaxLinks
        BY <4>1, BoundFacts
      <4> QED BY <4>1, <4>2
    <3> QED BY <3>1, <3>2 DEF LinkType
  <2> QED BY <2>2, <2>3
<1>5. RequestsType
  BY DEF RequestsType, InHand, NoRequest
<1>6. RacesType /\ LinkInv
  BY DEF RacesType, LinkInv
<1> QED BY <1>1, <1>2, <1>3, <1>4, <1>5, <1>6 DEF TypeInv

\* The type invariant that TLC checks follows from TypeInv.
LEMMA TypesChecked ==
    TypeInv => TypeOK
<1> SUFFICES ASSUME TypeInv
             PROVE  TypeOK
  OBVIOUS
<1>a. /\ PlacesType /\ BrowsersType /\ RepliesType /\ VNCType /\ LinkType /\ RequestsType
      /\ RacesType
  BY DEF TypeInv
<1>1. lock # Nobody <=> \E r \in Requests : pc[r] \in {"hangup", "unlock"}
  BY <1>a, ThreadFacts DEF PlacesType
<1> QED BY <1>a, <1>1 DEF PlacesType, BrowsersType, RepliesType, VNCType, LinkType, RequestsType,
                          RacesType, TypeOK, Replies, ToPeer

\* The types and the connection: every step keeps them.
LEMMA TypesStep ==
    ASSUME TypeInv, LinkInv, [Next]_vars
    PROVE  TypeInv' /\ LinkInv'
<1>1. BrowsersType'
  BY BrowsersStep
<1> QED BY <1>1, PlacesStep, RepliesStep, VNCStep, LinkTypeStep, RequestsStep, RacesStep, LinkStep
        DEF TypeInv

\* Every variable of both programs keeps its type, for any descriptors, requests, pools, sockets
\* and bounds, races included.
THEOREM TypeCorrect == Spec => []TypeOK
<1>1. Spec => [](TypeInv /\ LinkInv)
  <2>1. TypeInv /\ LinkInv /\ [Next]_vars => TypeInv' /\ LinkInv'
    BY TypesStep
  <2> QED BY <2>1, TypesAtFirst, PTL DEF Spec
<1> QED BY <1>1, TypesChecked, PTL

-----------------------------------------------------------------------------
(***************************************************************************)
(* Who has a descriptor, and what is left of a browser.                    *)
(***************************************************************************)
ToOf(b) == {i \in DOMAIN replies : replies[i].to = b}

\* What is outstanding for a browser: nothing, or one packet, or one reply.
LEMMA OutstandingFacts ==
    ASSUME TypeInv, NEW b \in Browsers
    PROVE  /\ packets[b] \in Nat
           /\ Outstanding(b) = 0 => packets[b] = 0 /\ ToOf(b) = {}
           /\ Outstanding(b) = 1 /\ packets[b] > 0 => packets[b] = 1 /\ ToOf(b) = {}
           /\ \A i \in ToOf(b) : Outstanding(b) = 1 => packets[b] = 0 /\ ToOf(b) = {i}
<1>1. packets[b] \in Nat /\ IsFiniteSet(DOMAIN replies)
  <2>1. DOMAIN replies = 1 .. Len(replies) /\ Len(replies) \in Nat
    BY DEF TypeInv, RepliesType
  <2> QED BY <2>1, FS_Interval, BoundFacts DEF TypeInv, BrowsersType
<1>2. IsFiniteSet(ToOf(b)) /\ Cardinality(ToOf(b)) \in Nat
  <2>1. ToOf(b) \in SUBSET (DOMAIN replies)
    BY DEF ToOf
  <2>2. IsFiniteSet(ToOf(b))
    BY <1>1, <2>1, FS_Subset
  <2> QED BY <2>2, FS_CardinalityType
<1>3. Outstanding(b) = packets[b] + Cardinality(ToOf(b))
  BY DEF Outstanding, ToOf
<1>4. Cardinality(ToOf(b)) = 0 <=> ToOf(b) = {}
  BY <1>2, FS_EmptySet
<1>5. Cardinality(ToOf(b)) = 1 <=> \E i : ToOf(b) = {i}
  BY <1>2, FS_Singleton
<1>6. ASSUME NEW i \in ToOf(b), Outstanding(b) = 1
      PROVE  packets[b] = 0 /\ ToOf(b) = {i}
  <2>1. Cardinality(ToOf(b)) # 0
    BY <1>4, <1>6
  <2>2. packets[b] = 0 /\ Cardinality(ToOf(b)) = 1
    BY <1>1, <1>2, <1>3, <1>6, <2>1
  <2> QED BY <1>5, <1>6, <2>2
<1>7. Outstanding(b) = 0 => packets[b] = 0 /\ ToOf(b) = {}
  BY <1>1, <1>2, <1>3, <1>4
<1>8. Outstanding(b) = 1 /\ packets[b] > 0 => packets[b] = 1 /\ ToOf(b) = {}
  BY <1>1, <1>2, <1>3, <1>4
<1> QED BY <1>1, <1>6, <1>7, <1>8

\* Whom a descriptor is of.
LEMMA HolderFacts ==
    ASSUME BrowsersType, PhaseInv
    PROVE  /\ \A fd : \A b \in Holder(fd) :
                 b \in DOMAIN fdOf /\ b \in Browsers /\ fdOf[b] = fd
                 /\ phase[b] \in {"open", "leaving"}
           /\ \A b \in DOMAIN fdOf : phase[b] # "closed" => Holder(fdOf[b]) = {b}
           /\ \A b \in DOMAIN fdOf : phase[b] # "new"
<1>1. /\ DOMAIN fdOf = 1 .. Len(fdOf) /\ DOMAIN fdOf \subseteq Browsers /\ Len(fdOf) \in Nat
  BY AcceptedFacts
<1>2. \A b \in DOMAIN fdOf : ~ (b > Len(fdOf))
  BY <1>1
<1>3. \A b \in DOMAIN fdOf : phase[b] # "new"
  BY <1>1, <1>2 DEF PhaseInv
<1>4. \A b \in DOMAIN fdOf : phase[b] \in {"open", "leaving", "closed"}
  BY <1>1, <1>3 DEF BrowsersType
<1>5. ASSUME NEW b \in DOMAIN fdOf, phase[b] # "closed"
      PROVE  Holder(fdOf[b]) = {b}
  BY <1>5 DEF Holder, PhaseInv
<1> QED BY <1>1, <1>3, <1>4, <1>5 DEF Holder

\* Who is not there has no task, no packet and no reply, and who is there has its
\* descriptor for itself.
LEMMA PhaseStep ==
    ASSUME TypeInv, LinkInv, PhaseInv, BrowsersType', [Next]_vars
    PROVE  PhaseInv'
<1>a. BrowsersType /\ RepliesType /\ VNCType
  BY DEF TypeInv
<1>b. /\ DOMAIN fdOf = 1 .. Len(fdOf) /\ DOMAIN fdOf \subseteq Browsers /\ Len(fdOf) \in Nat
      /\ replies \in Seq(Replies) /\ DOMAIN replies = 1 .. Len(replies) /\ Len(replies) \in Nat
  BY <1>a, AcceptedFacts DEF RepliesType
<1>c. /\ phase \in [Browsers -> {"new", "open", "leaving", "closed"}]
      /\ tasks \in [Browsers -> SUBSET Nat] /\ packets \in [Browsers -> 0 .. MaxPackets]
  BY <1>a DEF BrowsersType
<1>d. \A b \in Browsers :
          /\ phase[b] = "new" <=> b > Len(fdOf)
          /\ phase[b] = "leaving" => b \in shut
          /\ phase[b] \in {"new", "closed"} =>
                tasks[b] = {} /\ packets[b] = 0 /\ \A i \in DOMAIN replies : replies[i].to # b
  BY DEF PhaseInv
<1>g. \A b, c \in DOMAIN fdOf :
          fdOf[b] = fdOf[c] /\ phase[b] # "closed" /\ phase[c] # "closed" => b = c
  BY DEF PhaseInv
<1>h. \A b \in DOMAIN fdOf : phase[b] # "new"
  BY <1>a, HolderFacts
<1> USE DEF browsers, proxy, link, peer, ghosts
<1>e. ASSUME UNCHANGED <<fdOf, phase, tasks, packets, replies>>, shut \subseteq shut'
      PROVE  PhaseInv'
  BY <1>d, <1>e, <1>g DEF PhaseInv
\* One browser at most has another phase.
<1>f. ASSUME NEW b \in DOMAIN fdOf, UNCHANGED fdOf, shut \subseteq shut',
             \A c \in Browsers \ {b} : phase'[c] = phase[c] /\ tasks'[c] = tasks[c]
                                       /\ packets'[c] = packets[c],
             \/ phase'[b] = phase[b]
             \/ phase'[b] = "leaving" /\ b \in shut /\ phase[b] # "closed"
             \/ phase'[b] = "closed",
             phase'[b] = "closed" => tasks'[b] = {} /\ packets'[b] = 0,
             \A c \in Browsers : phase'[c] \in {"new", "closed"} =>
                \A i \in DOMAIN replies' : replies'[i].to # c
      PROVE  PhaseInv'
  <2>1. phase[b] # "new" /\ b \in Browsers /\ phase'[b] # "new"
    BY <1>b, <1>f, <1>h
  <2>2. ASSUME NEW c \in Browsers
        PROVE  /\ phase'[c] = "new" <=> c > Len(fdOf')
               /\ phase'[c] = "leaving" => c \in shut'
               /\ phase'[c] \in {"new", "closed"} =>
                     tasks'[c] = {} /\ packets'[c] = 0
                     /\ \A i \in DOMAIN replies' : replies'[i].to # c
    <3>1. CASE c = b
      BY <1>d, <1>f, <2>1, <3>1
    <3>2. CASE c # b
      BY <1>d, <1>f, <3>2
    <3> QED BY <3>1, <3>2
  <2>3. ASSUME NEW c \in DOMAIN fdOf, phase'[c] # "closed"
        PROVE  phase[c] # "closed"
    BY <1>b, <1>f, <2>3
  <2>4. \A c, d \in DOMAIN fdOf' :
            fdOf'[c] = fdOf'[d] /\ phase'[c] # "closed" /\ phase'[d] # "closed" => c = d
    BY <1>f, <1>g, <2>3
  <2> QED BY <2>2, <2>4 DEF PhaseInv
<1>1. ASSUME NEW fd \in Fds, Accept(fd)
      PROVE  PhaseInv'
  <2> DEFINE n == Len(fdOf) + 1
  <2>1. /\ n <= MaxBrowsers /\ Holder(fd) = {} /\ fdOf' = Append(fdOf, fd)
        /\ phase' = [phase EXCEPT ![n] = "open"] /\ UNCHANGED <<packets, tasks, shut, replies>>
    BY <1>1 DEF Accept
  <2>2. n \in Browsers /\ n \notin DOMAIN fdOf
    BY <1>b, <2>1, BoundFacts DEF Browsers
  <2>3. /\ Len(fdOf') = n /\ DOMAIN fdOf' = DOMAIN fdOf \cup {n} /\ fdOf'[n] = fd
        /\ \A b \in DOMAIN fdOf : fdOf'[b] = fdOf[b]
    <3>1. fdOf \in Seq(Fds)
      BY <1>a DEF BrowsersType
    <3>2. /\ Append(fdOf, fd) \in Seq(Fds) /\ Len(Append(fdOf, fd)) = n
          /\ \A i \in 1 .. Len(fdOf) : Append(fdOf, fd)[i] = fdOf[i]
          /\ Append(fdOf, fd)[n] = fd
      BY <3>1, AppendProperties
    <3>3. DOMAIN fdOf' = 1 .. n
      BY <2>1, <3>2
    <3>4. 1 .. n = (1 .. Len(fdOf)) \cup {n}
      BY <1>b
    <3> QED BY <1>b, <2>1, <3>2, <3>3, <3>4
  <2> HIDE DEF n
  <2>4. /\ phase'[n] = "open"
        /\ \A c \in Browsers \ {n} : phase'[c] = phase[c]
    BY <1>c, <2>1, <2>2
  <2>5. ASSUME NEW c \in Browsers
        PROVE  /\ phase'[c] = "new" <=> c > Len(fdOf')
               /\ phase'[c] = "leaving" => c \in shut'
               /\ phase'[c] \in {"new", "closed"} =>
                     tasks'[c] = {} /\ packets'[c] = 0
                     /\ \A i \in DOMAIN replies' : replies'[i].to # c
    <3>1. CASE c = n
      <4>1. c \in Nat /\ ~ (c > Len(fdOf'))
        BY <2>3, <3>1, <1>b DEF n
      <4> QED BY <2>4, <3>1, <4>1
    <3>2. CASE c # n
      <4>1. c > Len(fdOf') <=> c > Len(fdOf)
        BY <1>b, <2>3, <3>2 DEF n, Browsers
      <4> QED BY <1>d, <2>1, <2>4, <3>2, <4>1
    <3> QED BY <3>1, <3>2
  <2>6. ASSUME NEW b \in DOMAIN fdOf', NEW c \in DOMAIN fdOf',
               fdOf'[b] = fdOf'[c], phase'[b] # "closed", phase'[c] # "closed"
        PROVE  b = c
    <3>1. ASSUME NEW a \in DOMAIN fdOf, phase'[a] # "closed"
          PROVE  fdOf[a] # fd /\ phase[a] # "closed"
      <4>1. phase[a] # "closed"
        BY <1>b, <2>2, <2>4, <3>1
      <4> QED BY <2>1, <4>1 DEF Holder
    <3> QED BY <1>b, <1>g, <2>2, <2>3, <2>4, <2>6, <3>1
  <2> QED BY <2>5, <2>6 DEF PhaseInv
<1>2. ASSUME NEW b \in DOMAIN fdOf, RecvPacket(b)
      PROVE  PhaseInv'
  <2>1. /\ phase[b] = "open" /\ packets' = [packets EXCEPT ![b] = @ + 1]
        /\ UNCHANGED <<fdOf, phase, tasks, shut, replies>>
    BY <1>2 DEF RecvPacket
  <2>2. \A c \in Browsers \ {b} : packets'[c] = packets[c]
    BY <1>c, <2>1
  <2> QED BY <1>d, <1>f, <2>1, <2>2
<1>3. ASSUME NEW b \in DOMAIN fdOf, OnDisconnect(b)
      PROVE  PhaseInv'
  <2>1. /\ phase[b] = "open" /\ b \in shut /\ UNCHANGED <<fdOf, packets, shut, replies>>
        /\ phase' = [phase EXCEPT ![b] = IF Outstanding(b) = 0 THEN "closed" ELSE "leaving"]
        /\ tasks' = [tasks EXCEPT ![b] = IF Outstanding(b) = 0 THEN {} ELSE @]
    BY <1>3 DEF OnDisconnect
  <2>2. /\ phase'[b] = IF Outstanding(b) = 0 THEN "closed" ELSE "leaving"
        /\ tasks'[b] = IF Outstanding(b) = 0 THEN {} ELSE tasks[b]
        /\ \A c \in Browsers \ {b} : phase'[c] = phase[c] /\ tasks'[c] = tasks[c]
    BY <1>b, <1>c, <2>1
  <2>3. phase'[b] = "closed" => packets[b] = 0 /\ ToOf(b) = {}
    BY <1>b, <2>2, OutstandingFacts
  <2>4. ASSUME NEW c \in Browsers, phase'[c] \in {"new", "closed"}
        PROVE  \A i \in DOMAIN replies' : replies'[i].to # c
    <3>1. CASE c = b
      <4>1. phase'[b] = "closed"
        BY <2>2, <2>4, <3>1
      <4> QED BY <2>1, <2>3, <3>1, <4>1 DEF ToOf
    <3>2. CASE c # b
      BY <1>d, <2>1, <2>2, <2>4, <3>2
    <3> QED BY <3>1, <3>2
  <2> QED BY <1>f, <2>1, <2>2, <2>3, <2>4
<1>4. ASSUME NEW b \in DOMAIN fdOf, Forward(b) \/ TurnAway(b)
      PROVE  PhaseInv'
  <2>1. /\ packets[b] > 0 /\ packets' = [packets EXCEPT ![b] = @ - 1]
        /\ UNCHANGED <<fdOf, replies>> /\ shut \subseteq shut'
    BY <1>4 DEF Forward, TurnAway
  <2>2. \/ /\ CloseIfDone(b) /\ phase' = [phase EXCEPT ![b] = "closed"]
           /\ tasks' = [tasks EXCEPT ![b] = {}]
        \/ phase' = phase /\ (tasks' = tasks \/ tasks' = [tasks EXCEPT ![b] = @ \cup {sendSeq}])
    BY <1>4 DEF Forward, TurnAway, DoneWith
  <2>3. phase[b] \notin {"new", "closed"}
    BY <1>b, <1>d, <2>1
  <2>4. \A c \in Browsers \ {b} : phase'[c] = phase[c] /\ tasks'[c] = tasks[c]
                                   /\ packets'[c] = packets[c]
    BY <1>c, <2>1, <2>2
  <2>5. CASE phase' = phase
    <3>1. \A c \in Browsers : phase'[c] \in {"new", "closed"} =>
             \A i \in DOMAIN replies' : replies'[i].to # c
      BY <1>d, <2>1, <2>5
    <3> QED BY <1>f, <2>1, <2>3, <2>4, <2>5, <3>1
  <2>6. CASE CloseIfDone(b) /\ phase' = [phase EXCEPT ![b] = "closed"]
             /\ tasks' = [tasks EXCEPT ![b] = {}]
    <3>1. packets[b] = 1 /\ ToOf(b) = {}
      BY <1>b, <2>1, <2>6, OutstandingFacts DEF CloseIfDone
    <3>2. packets'[b] = 0 /\ phase'[b] = "closed" /\ tasks'[b] = {}
      BY <1>b, <1>c, <2>1, <2>6, <3>1
    <3>3. ASSUME NEW c \in Browsers, phase'[c] \in {"new", "closed"}
          PROVE  \A i \in DOMAIN replies' : replies'[i].to # c
      <4>1. CASE c = b
        BY <2>1, <3>1, <4>1 DEF ToOf
      <4>2. CASE c # b
        BY <1>d, <2>1, <2>4, <3>3, <4>2
      <4> QED BY <4>1, <4>2
    <3> QED BY <1>f, <2>1, <2>4, <3>2, <3>3
  <2> QED BY <2>2, <2>5, <2>6
<1>5. CASE SendReply
  <2> DEFINE b == Head(replies).to
  <2>1. /\ replies # <<>> /\ replies' = Tail(replies) /\ UNCHANGED <<fdOf, packets, shut>>
        /\ DoneWith(b)
    BY <1>5 DEF SendReply
  <2>2. /\ b \in Browsers /\ 1 \in ToOf(b)
        /\ replies[1] = Head(replies) /\ Len(replies) > 0
    <3>1. Head(replies) \in Replies /\ Head(replies) = replies[1] /\ Len(replies) > 0
      BY <1>b, <2>1, HeadTailProperties
    <3> QED BY <1>b, <3>1 DEF Replies, ToOf
  <2>3. phase[b] \notin {"new", "closed"}
    BY <1>d, <2>2 DEF ToOf
  <2>4. b \in DOMAIN fdOf
    <3>1. ~ (b > Len(fdOf)) /\ b \in 1 .. MaxBrowsers
      BY <1>d, <2>2, <2>3 DEF Browsers
    <3> QED BY <1>b, <3>1, BoundFacts
  <2>5. /\ Len(Tail(replies)) = Len(replies) - 1 /\ Tail(replies) \in Seq(Replies)
        /\ \A i \in 1 .. Len(Tail(replies)) : Tail(replies)[i] = replies[i + 1]
    BY <1>b, <2>1, HeadTailProperties
  <2>6. \A i \in DOMAIN replies' : replies'[i] = replies[i + 1] /\ i + 1 \in DOMAIN replies
                                   /\ i + 1 # 1
    BY <1>b, <2>1, <2>5
  <2> HIDE DEF b
  <2>7. \/ /\ CloseIfDone(b) /\ phase' = [phase EXCEPT ![b] = "closed"]
           /\ tasks' = [tasks EXCEPT ![b] = {}]
        \/ phase' = phase /\ tasks' = tasks
    BY <2>1 DEF DoneWith
  <2>8. CASE phase' = phase /\ tasks' = tasks
    <3>1. \A c \in Browsers : phase'[c] \in {"new", "closed"} =>
             \A i \in DOMAIN replies' : replies'[i].to # c
      BY <1>d, <2>6, <2>8
    <3> QED BY <1>f, <2>1, <2>3, <2>4, <2>8, <3>1
  <2>9. CASE CloseIfDone(b) /\ phase' = [phase EXCEPT ![b] = "closed"]
             /\ tasks' = [tasks EXCEPT ![b] = {}]
    <3>1. packets[b] = 0 /\ ToOf(b) = {1}
      BY <2>2, <2>9, OutstandingFacts DEF CloseIfDone
    <3>2. /\ phase'[b] = "closed" /\ tasks'[b] = {}
          /\ \A c \in Browsers \ {b} : phase'[c] = phase[c] /\ tasks'[c] = tasks[c]
      BY <1>c, <2>2, <2>9
    <3>3. ASSUME NEW c \in Browsers, phase'[c] \in {"new", "closed"}, NEW i \in DOMAIN replies'
          PROVE  replies'[i].to # c
      <4>1. CASE c = b
        BY <2>6, <3>1, <4>1 DEF ToOf
      <4>2. CASE c # b
        BY <1>d, <2>6, <3>2, <3>3, <4>2
      <4> QED BY <4>1, <4>2
    <3> QED BY <1>f, <2>1, <2>4, <3>1, <3>2, <3>3
  <2> QED BY <2>7, <2>8, <2>9
<1>6. CASE ReturnVNC2Client
  <2> DEFINE c == Head(handling)
  <2>1. /\ UNCHANGED <<fdOf, phase, packets, tasks, shut>>
        /\ \/ UNCHANGED replies
           \/ \E b \in Holder(c.fd) : replies' = Append(replies, [to |-> b, request |-> c.request,
                                                                  piece |-> c.piece])
    BY <1>6 DEF ReturnVNC2Client
  <2>2. CASE UNCHANGED replies
    BY <1>e, <2>1, <2>2
  <2>3. ASSUME NEW b \in Holder(c.fd),
               replies' = Append(replies, [to |-> b, request |-> c.request, piece |-> c.piece]),
               NEW a \in Browsers, phase'[a] \in {"new", "closed"}, NEW i \in DOMAIN replies'
        PROVE  replies'[i].to # a
    <3> DEFINE x == [to |-> b, request |-> c.request, piece |-> c.piece]
    <3>1. x.to = b /\ phase[b] \notin {"new", "closed"}
      BY <1>a, HolderFacts
    <3>2. replies \in Seq(Replies \cup {x}) /\ x \in Replies \cup {x}
      BY <1>b
    <3> HIDE DEF x
    <3>3. /\ Len(Append(replies, x)) = Len(replies) + 1
          /\ \A k \in 1 .. Len(replies) : Append(replies, x)[k] = replies[k]
          /\ Append(replies, x)[Len(replies) + 1] = x
          /\ Append(replies, x) \in Seq(Replies \cup {x})
      BY <3>2, AppendProperties
    <3>4. replies' = Append(replies, x)
      BY <2>3 DEF x
    <3>5. i \in 1 .. Len(replies) \/ i = Len(replies) + 1
      BY <1>b, <2>3, <3>3, <3>4
    <3>6. CASE i \in 1 .. Len(replies)
      <4>1. replies'[i] = replies[i] /\ i \in DOMAIN replies
        BY <1>b, <3>3, <3>4, <3>6
      <4>2. phase[a] \in {"new", "closed"}
        BY <2>1, <2>3
      <4> QED BY <1>d, <4>1, <4>2
    <3>7. CASE i = Len(replies) + 1
      BY <2>1, <2>3, <3>1, <3>3, <3>4, <3>7
    <3> QED BY <3>5, <3>6, <3>7
  <2>4. ASSUME NEW b \in Holder(c.fd),
               replies' = Append(replies, [to |-> b, request |-> c.request, piece |-> c.piece])
        PROVE  PhaseInv'
    <3>1. b \in DOMAIN fdOf /\ phase[b] # "closed"
      BY <1>a, HolderFacts
    <3> HIDE DEF c
    <3> QED BY <1>f, <2>1, <2>3, <2>4, <3>1
  <2> QED BY <2>1, <2>2, <2>4
<1>7. CASE SendCommand \/ RecvVNC \/ OnDisconnectVNC \/ ProxyDisconnect \/ OnCloseVNC
           \/ \E b \in DOMAIN fdOf : BrowserLeaves(b)
  <2>1. UNCHANGED <<fdOf, phase, tasks, packets, replies>>
    BY <1>7 DEF SendCommand, RecvVNC, OnDisconnectVNC, ProxyDisconnect, OnCloseVNC, BrowserLeaves
  <2>2. shut \subseteq shut'
    BY <1>7 DEF SendCommand, RecvVNC, OnDisconnectVNC, ProxyDisconnect, OnCloseVNC, ShutBrowsers,
                BrowserLeaves
  <2> QED BY <1>e, <2>1, <2>2
<1>8. CASE Connect \/ RecvFails \/ RecvCommand \/ LinkLost \/ UNCHANGED vars
  BY <1>e, <1>8 DEF Connect, RecvFails, RecvCommand, LinkLost, vars
<1>9. CASE ParsedInPart \/ ParserFull \/ OnRecvProxyDisconnect \/ \E r \in Requests : ParsedAll(r)
  BY <1>e, <1>9 DEF ParsedInPart, ParserFull, OnRecvProxyDisconnect, ParsedAll
<1>10. ASSUME NEW r \in Requests,
              OnReceiveBody(r) \/ RequestEnds(r) \/ OnSuccessOrFail(r) \/ UnlockAndDelete(r)
       PROVE  PhaseInv'
  BY <1>e, <1>10 DEF OnReceiveBody, RequestEnds, OnSuccessOrFail, UnlockAndDelete
<1>11. ASSUME NEW t \in Threads, Send(t)
       PROVE  PhaseInv'
  BY <1>e, <1>11 DEF Send, SendWhole, SendFails, Sent, SendPart, SendBetween
<1> QED BY <1>1, <1>2, <1>3, <1>4, <1>5, <1>6, <1>7, <1>8, <1>9, <1>10, <1>11
        DEF Next, Program, Environment, MainThread, Handlers, VNCMain, VNCHandler, Receive

-----------------------------------------------------------------------------
(***************************************************************************)
(* What every step does to the commands on the way, in both directions.    *)
(***************************************************************************)
Popped(s, t) ==
    /\ s # <<>> /\ Len(t) = Len(s) - 1 /\ 1 \in DOMAIN s
    /\ \A i \in DOMAIN t : i + 1 \in DOMAIN s /\ t[i] = s[i + 1]
    /\ \A i \in DOMAIN s : i # 1 => i - 1 \in DOMAIN t /\ t[i - 1] = s[i]

Pushed(s, t, x) ==
    /\ Len(t) = Len(s) + 1 /\ Len(s) + 1 \in DOMAIN t /\ t[Len(s) + 1] = x
    /\ \A i \in DOMAIN s : i \in DOMAIN t /\ t[i] = s[i]
    /\ \A i \in DOMAIN t : i \in DOMAIN s \/ i = Len(s) + 1

Cut(s, t) == \A i \in DOMAIN t : i \in DOMAIN s /\ t[i] = s[i]

\* The tail is the sequence without its first.
LEMMA TailPopped ==
    ASSUME NEW M, NEW s \in Seq(M), s # <<>>
    PROVE  Popped(s, Tail(s)) /\ s[1] = Head(s) /\ Tail(s) \in Seq(M)
<1>1. /\ Tail(s) \in Seq(M) /\ Len(Tail(s)) = Len(s) - 1 /\ Head(s) = s[1]
      /\ \A i \in 1 .. Len(Tail(s)) : Tail(s)[i] = s[i + 1]
  BY HeadTailProperties
<1>2. PICK t \in Seq(M) : t = Tail(s)
  BY <1>1
<1>3. /\ DOMAIN s = 1 .. Len(s) /\ DOMAIN t = 1 .. Len(t) /\ Len(s) \in Nat /\ Len(t) \in Nat
      /\ Len(s) > 0
  OBVIOUS
<1>4. ASSUME NEW i \in DOMAIN t
      PROVE  i + 1 \in DOMAIN s /\ t[i] = s[i + 1]
  BY <1>1, <1>2, <1>3
<1>5. ASSUME NEW i \in DOMAIN s, i # 1
      PROVE  i - 1 \in DOMAIN t /\ t[i - 1] = s[i]
  <2>1. i - 1 \in 1 .. Len(t) /\ (i - 1) + 1 = i
    BY <1>1, <1>2, <1>3, <1>5
  <2> QED BY <1>3, <1>4, <2>1
<1>6. 1 \in DOMAIN s
  BY <1>3
<1> QED BY <1>1, <1>2, <1>4, <1>5, <1>6 DEF Popped

\* What is appended is the last.
LEMMA AppendPushed ==
    ASSUME NEW M, NEW s \in Seq(M), NEW x \in M
    PROVE  Pushed(s, Append(s, x), x) /\ Append(s, x) \in Seq(M)
<1>1. /\ Append(s, x) \in Seq(M) /\ Len(Append(s, x)) = Len(s) + 1
      /\ \A i \in 1 .. Len(s) : Append(s, x)[i] = s[i]
      /\ Append(s, x)[Len(s) + 1] = x
  BY AppendProperties
<1>2. PICK t \in Seq(M) : t = Append(s, x)
  BY <1>1
<1>3. DOMAIN s = 1 .. Len(s) /\ DOMAIN t = 1 .. Len(t) /\ Len(s) \in Nat
  OBVIOUS
<1>4. \A i \in 1 .. Len(s) : i \in 1 .. Len(s) + 1
  BY <1>3
<1>5. \A i \in 1 .. Len(s) + 1 : i \in 1 .. Len(s) \/ i = Len(s) + 1
  BY <1>3
<1>6. Len(s) + 1 \in 1 .. Len(s) + 1
  BY <1>3
<1> QED BY <1>1, <1>2, <1>3, <1>4, <1>5, <1>6 DEF Pushed

\* What is left of a sequence that is cut off.
LEMMA SubSeqCut ==
    ASSUME NEW M, NEW s \in Seq(M), NEW n \in 0 .. Len(s)
    PROVE  Cut(s, SubSeq(s, 1, n)) /\ SubSeq(s, 1, n) \in Seq(M)
<1>1. n \in Nat /\ n <= Len(s) /\ DOMAIN s = 1 .. Len(s) /\ \A i \in 1 .. n : s[i] \in M
  OBVIOUS
<1>2. /\ SubSeq(s, 1, n) \in Seq(M) /\ Len(SubSeq(s, 1, n)) = n
      /\ \A i \in 1 .. n : SubSeq(s, 1, n)[i] = s[i]
  BY <1>1, SubSeqFirst
<1>3. PICK t \in Seq(M) : t = SubSeq(s, 1, n)
  BY <1>2
<1>4. DOMAIN t = 1 .. n
  BY <1>2, <1>3
<1>5. \A i \in 1 .. n : i \in 1 .. Len(s)
  BY <1>1
<1> QED BY <1>1, <1>2, <1>3, <1>4, <1>5 DEF Cut

\* Whether the receiving thread has a command in hand that it has not parsed.
InParser == IF pc[Receiver] \in {"parse", "erase"} THEN <<cmd>> ELSE <<>>

\* Both are sequences.
LEMMA FlowFacts ==
    ASSUME TypeInv
    PROVE  /\ Coming \in Seq(Answers) /\ DOMAIN Coming = 1 .. Len(Coming) /\ Len(Coming) \in Nat
           /\ Len(Coming) <= Room /\ Room \in Nat
           /\ Going \in Seq(ToPeer) /\ DOMAIN Going = 1 .. Len(Going) /\ Len(Going) \in Nat
           /\ Going = InParser \o (down \o sending) /\ InParser \in Seq(ToPeer)
           /\ down \o sending \in Seq(ToPeer)
           /\ down \in Seq(ToPeer) /\ sending \in Seq(ToPeer)
           /\ handling \in Seq(Answers) /\ up \in Seq(Answers)
<1>1. /\ down \in Seq(ToPeer) /\ sending \in Seq(ToPeer)
      /\ handling \in Seq(Answers) /\ up \in Seq(Answers)
      /\ Len(handling) + Len(sending) <= VNCPool /\ Len(up) <= UpRoom
      /\ Len(sending) + Len(handling) <= VNCPool
  BY DEF TypeInv, VNCType, LinkType
<1>2. /\ Coming \in Seq(Answers) /\ Len(Coming) = Len(handling) + Len(up)
  BY <1>1, ConcatProperties DEF Coming
<1>3. Len(Coming) <= Room /\ Room \in Nat
  <2>1. Len(handling) \in Nat /\ Len(up) \in Nat /\ Len(sending) \in Nat
    BY <1>1
  <2> QED BY <1>1, <1>2, <2>1, BoundFacts DEF Room
<1>4. InParser \in Seq(ToPeer)
  BY DEF InParser, TypeInv, RequestsType, InHand
<1>5. down \o sending \in Seq(ToPeer)
  BY <1>1, ConcatProperties
<1>6. PICK s \in Seq(ToPeer), p \in Seq(ToPeer) : s = down \o sending /\ p = InParser
  BY <1>4, <1>5
<1>7. Going = p \o s
  BY <1>6 DEF Going, InParser
<1>8. Going \in Seq(ToPeer)
  BY <1>7, ConcatProperties
<1> QED BY <1>1, <1>2, <1>3, <1>4, <1>5, <1>6, <1>7, <1>8

\* A command that is received is on its way as before; one that the peer is
\* connected for anew finds none.
LEMMA ComingKept ==
    ASSUME TypeInv, LinkInv, UNCHANGED <<handling, up>> \/ RecvVNC \/ Connect
    PROVE  Coming' = Coming
<1>a. handling \in Seq(Answers) /\ up \in Seq(Answers)
  BY FlowFacts
<1>1. CASE UNCHANGED <<handling, up>>
  BY <1>1 DEF Coming
<1>2. CASE RecvVNC
  <2>1. up # <<>> /\ handling' = Append(handling, Head(up)) /\ up' = Tail(up)
    BY <1>2 DEF RecvVNC
  <2>2. Append(handling, Head(up)) \o Tail(up) = handling \o up
    BY <1>a, <2>1, HeadMoved
  <2> QED BY <2>1, <2>2 DEF Coming
<1>3. CASE Connect
  <2>1. up = <<>> /\ up' = <<>> /\ handling' = handling
    BY <1>3 DEF Connect, LinkInv, proxy
  <2> QED BY <2>1 DEF Coming
<1> QED BY <1>1, <1>2, <1>3

\* The handler takes the oldest.
LEMMA ComingPopped ==
    ASSUME TypeInv, handling # <<>>, handling' = Tail(handling), up' = up
    PROVE  Popped(Coming, Coming') /\ Coming[1] = Head(handling)
<1>a. handling \in Seq(Answers) /\ up \in Seq(Answers) /\ Coming \in Seq(Answers)
  BY FlowFacts
<1>1. Tail(handling) \o up = Tail(handling \o up) /\ Head(handling \o up) = Head(handling)
      /\ handling \o up # <<>>
  BY <1>a, HeadTaken
<1>2. Coming' = Tail(Coming) /\ Head(Coming) = Head(handling) /\ Coming # <<>>
  BY <1>1 DEF Coming
<1> QED BY <1>a, <1>2, TailPopped

\* A thread of the peer sends one more.
LEMMA ComingPushed ==
    ASSUME TypeInv, NEW t \in Threads, Sends(t), up' = Append(up, Command(t)),
           handling' = handling
    PROVE  Pushed(Coming, Coming', Command(t))
<1>a. handling \in Seq(Answers) /\ up \in Seq(Answers) /\ Coming \in Seq(Answers)
  BY FlowFacts
<1>b. Command(t) \in Answers
  BY SendsAnswer
<1>1. PICK x \in Answers : x = Command(t)
  BY <1>b
<1>2. handling \o Append(up, x) = Append(handling \o up, x)
  BY <1>a, AppendedLast
<1>3. Coming' = Append(Coming, x)
  BY <1>1, <1>2 DEF Coming
<1>4. Pushed(Coming, Append(Coming, x), x)
  BY <1>a, AppendPushed
<1> QED BY <1>1, <1>3, <1>4

\* When the connection is lost, the first of what was sent are still read.
LEMMA ComingCut ==
    ASSUME TypeInv, LinkLost
    PROVE  Cut(Coming, Coming')
<1>a. handling \in Seq(Answers) /\ up \in Seq(Answers) /\ Coming \in Seq(Answers)
  BY FlowFacts
<1>1. PICK n \in 0 .. Len(up) : up' = SubSeq(up, 1, n)
  BY DEF LinkLost
<1>2. PICK m \in 0 .. Len(handling \o up) :
         handling \o SubSeq(up, 1, n) = SubSeq(handling \o up, 1, m)
  BY <1>a, EndCut
<1>3. Coming' = SubSeq(Coming, 1, m) /\ m \in 0 .. Len(Coming)
  BY <1>1, <1>2 DEF Coming, LinkLost, proxy
<1> QED BY <1>a, <1>3, SubSeqCut

\* A command that moves on towards the parsers is on its way as before.
LEMMA GoingKept ==
    ASSUME TypeInv, LinkInv, TypeInv',
           \/ UNCHANGED <<down, sending, cmd, pc>> \/ RecvCommand \/ Connect \/ RecvFails
           \/ SendCommand /\ alive
           \/ \E t \in Threads : (SendWhole(t) \/ SendFails(t))
           \/ UNCHANGED <<down, sending, cmd>> /\ pc'[Receiver] = pc[Receiver]
    PROVE  Going' = Going
<1>a. /\ down \in Seq(ToPeer) /\ sending \in Seq(ToPeer) /\ Going = InParser \o (down \o sending)
      /\ Going' = InParser' \o (down \o sending)' /\ PlacesType /\ InParser \in Seq(ToPeer)
      /\ down \o sending \in Seq(ToPeer)
  <2>1. Going' = InParser' \o (down \o sending)'
    BY DEF Going, InParser
  <2> QED BY <2>1, FlowFacts DEF TypeInv
<1>e. ASSUME UNCHANGED <<down, sending>>, InParser' = InParser
      PROVE  Going' = Going
  BY <1>a, <1>e
<1>1. CASE UNCHANGED <<down, sending, cmd, pc>>
  BY <1>1, <1>e DEF InParser
<1>2. CASE UNCHANGED <<down, sending, cmd>> /\ pc'[Receiver] = pc[Receiver]
  BY <1>2, <1>e DEF InParser
<1>3. CASE RecvFails
  <2>1. pc[Receiver] = "recv" /\ pc'[Receiver] = "connect" /\ UNCHANGED <<down, sending>>
    BY <1>3, <1>a, ThreadFacts DEF RecvFails, At, Goto, link, proxy, PlacesType
  <2> QED BY <2>1, <1>e DEF InParser
<1>4. CASE Connect
  <2>1. /\ pc[Receiver] = "connect" /\ pc'[Receiver] = "recv" /\ down' = <<>>
        /\ sending' = sending /\ vnc = "none"
    BY <1>4, <1>a, ThreadFacts DEF Connect, At, Goto, PlacesType
  <2>2. down = <<>>
    BY <2>1 DEF LinkInv
  <2> QED BY <2>1, <2>2, <1>e DEF InParser
<1>5. CASE SendCommand /\ alive
  <2>1. /\ sending # <<>> /\ down' = Append(down, Head(sending)) /\ sending' = Tail(sending)
        /\ UNCHANGED <<cmd, pc>>
    BY <1>5 DEF SendCommand, peer
  <2>2. Append(down, Head(sending)) \o Tail(sending) = down \o sending
    BY <1>a, <2>1, HeadMoved
  <2>3. InParser' = InParser
    BY <2>1 DEF InParser
  <2> QED BY <1>a, <2>1, <2>2, <2>3
<1>6. CASE RecvCommand
  <2>1. /\ pc[Receiver] = "recv" /\ pc'[Receiver] \in {"parse", "erase"} /\ sending' = sending
        /\ down # <<>> /\ cmd' = Head(down) /\ down' = Tail(down)
    BY <1>6, <1>a, ThreadFacts DEF RecvCommand, At, Goto, PlacesType, proxy
  <2>2. InParser = <<>> /\ InParser' = <<Head(down)>>
    BY <2>1 DEF InParser
  <2>3. <<Head(down)>> \o Tail(down) = down
    BY <1>a, <2>1, HeadFirst
  <2>4. Head(down) \in ToPeer /\ Tail(down) \in Seq(ToPeer)
    BY <1>a, <2>1, HeadTailProperties
  <2>5. PICK p \in Seq(ToPeer), t \in Seq(ToPeer), s \in Seq(ToPeer) :
           p = <<Head(down)>> /\ t = Tail(down) /\ s = sending
    <3>1. PICK h \in ToPeer : h = Head(down)
      BY <2>4
    <3>2. <<h>> \in Seq(ToPeer)
      OBVIOUS
    <3> QED BY <1>a, <2>4, <3>1, <3>2
  <2>6. (p \o t) \o s = p \o (t \o s)
    <3>1. Joined(p, t, s)
      BY JoinedAlike, Zenon
    <3> QED BY <3>1 DEF Joined
  <2>7. Going' = p \o (t \o s)
    BY <1>a, <2>1, <2>2, <2>5
  <2>8. Going = down \o sending
    BY <1>a, <2>2
  <2> QED BY <2>3, <2>5, <2>6, <2>7, <2>8
<1>7. ASSUME NEW t \in Threads, SendWhole(t) \/ SendFails(t)
      PROVE  Going' = Going
  <2>1. /\ pc' = [pc EXCEPT ![t] = AfterSend(t)] /\ pc[t] \in {"send", "hangup"}
        /\ UNCHANGED <<down, sending>> /\ cmd' = IF t = Receiver THEN NoCommand ELSE cmd
    BY <1>7 DEF SendWhole, SendFails, Sent, Sends, Goto, proxy
  <2>2. InParser' = InParser
    <3>1. CASE t = Receiver
      <4>1. pc'[Receiver] = "recv" /\ pc[Receiver] \in {"send", "hangup"}
        BY <1>a, <2>1, <3>1, ThreadFacts DEF AfterSend, PlacesType
      <4> QED BY <4>1 DEF InParser
    <3>2. CASE t # Receiver
      <4>1. pc'[Receiver] = pc[Receiver] /\ cmd' = cmd
        BY <1>a, <2>1, <3>2, ThreadFacts DEF PlacesType
      <4> QED BY <4>1 DEF InParser
    <3> QED BY <3>1, <3>2
  <2> QED BY <2>1, <2>2, <1>e
<1> QED BY <1>1, <1>2, <1>3, <1>4, <1>5, <1>6, <1>7

\* The command in hand is the oldest; the receiving thread is done with it.
LEMMA GoingPopped ==
    ASSUME TypeInv, pc[Receiver] \in {"parse", "erase"}, pc'[Receiver] \notin {"parse", "erase"},
           UNCHANGED <<down, sending>>
    PROVE  Popped(Going, Going') /\ Going[1] = cmd
<1>a. /\ down \o sending \in Seq(ToPeer) /\ Going \in Seq(ToPeer)
      /\ Going = InParser \o (down \o sending) /\ InParser \in Seq(ToPeer)
  BY FlowFacts
<1>b. cmd \in ToPeer
  BY DEF TypeInv, RequestsType, InHand
<1>1. InParser = <<cmd>> /\ InParser' = <<>>
  BY DEF InParser
<1>2. Going' = InParser' \o (down' \o sending')
  BY DEF Going, InParser
<1>3. PICK s \in Seq(ToPeer), c \in ToPeer : s = down \o sending /\ c = cmd
  BY <1>a, <1>b
<1>4. Tail(<<c>> \o s) = s /\ Head(<<c>> \o s) = c /\ <<c>> \o s # <<>>
  BY TailRest
<1>5. Going = <<c>> \o s
  BY <1>a, <1>1, <1>3
<1>6. <<>> \o s = s
  OBVIOUS
<1>7. Going' = s
  BY <1>1, <1>2, <1>3, <1>6
<1>8. Going' = Tail(Going) /\ Head(Going) = cmd /\ Going # <<>>
  BY <1>3, <1>4, <1>5, <1>7
<1> QED BY <1>a, <1>8, TailPopped

\* The proxy sends one more.
LEMMA GoingPushed ==
    ASSUME TypeInv, NEW c \in ToPeer, sending' = Append(sending, c), UNCHANGED <<down, cmd, pc>>
    PROVE  Pushed(Going, Going', c)
<1>a. /\ down \in Seq(ToPeer) /\ sending \in Seq(ToPeer) /\ down \o sending \in Seq(ToPeer)
      /\ Going \in Seq(ToPeer)
      /\ Going = InParser \o (down \o sending) /\ InParser \in Seq(ToPeer)
  BY FlowFacts
<1>1. down \o Append(sending, c) = Append(down \o sending, c)
  BY <1>a, AppendedLast
<1>2. PICK s \in Seq(ToPeer), p \in Seq(ToPeer) : s = down \o sending /\ p = InParser
  BY <1>a
<1>3. p \o Append(s, c) = Append(p \o s, c)
  BY AppendedLast
<1>4. Going' = InParser' \o (down' \o sending') /\ InParser' = InParser
  BY DEF Going, InParser
<1>5. Going' = Append(Going, c)
  BY <1>a, <1>1, <1>2, <1>3, <1>4
<1>6. Pushed(Going, Append(Going, c), c)
  BY <1>a, AppendPushed
<1> QED BY <1>5, <1>6

\* Of what was sent into a connection that is lost, nothing is new.
LEMMA GoingLost ==
    ASSUME TypeInv, LinkInv, LinkLost \/ (SendCommand /\ ~ alive), NEW j \in DOMAIN Going'
    PROVE  \E i \in DOMAIN Going : Going[i] = Going'[j]
<1>a. /\ down \in Seq(ToPeer) /\ sending \in Seq(ToPeer)
      /\ Going = InParser \o (down \o sending) /\ InParser \in Seq(ToPeer)
      /\ down \o sending \in Seq(ToPeer)
  BY FlowFacts
<1>1. /\ down' = <<>> /\ InParser' = InParser
      /\ sending' = sending \/ (sending # <<>> /\ sending' = Tail(sending))
  BY DEF LinkLost, SendCommand, LinkInv, InParser, peer, proxy
<1>2. PICK p \in Seq(ToPeer), d \in Seq(ToPeer), s \in Seq(ToPeer) :
         p = InParser /\ d = down /\ s = sending
  BY <1>a
<1>3. PICK t \in Seq(ToPeer) : t = sending'
  <2>1. sending' \in Seq(ToPeer)
    BY <1>a, <1>1, HeadTailProperties
  <2> QED BY <2>1
<1>4. \A i \in DOMAIN t : \E k \in DOMAIN s : s[k] = t[i]
  <2>1. CASE t = s
    BY <2>1
  <2>2. CASE s # <<>> /\ t = Tail(s)
    <3>1. Popped(s, t)
      BY <2>2, TailPopped
    <3> QED BY <3>1 DEF Popped
  <2> QED BY <1>1, <1>2, <1>3, <2>1, <2>2
<1>5. Going' = p \o t
  <2>1. Going' = InParser' \o (down' \o sending')
    BY DEF Going, InParser
  <2>2. <<>> \o t = t
    OBVIOUS
  <2> QED BY <1>1, <1>2, <1>3, <2>1, <2>2
<1>6. /\ Len(p \o t) = Len(p) + Len(t) /\ p \o t \in Seq(ToPeer)
      /\ \A i \in 1 .. Len(p) + Len(t) : (p \o t)[i] = IF i <= Len(p) THEN p[i] ELSE t[i - Len(p)]
  BY ConcatProperties
<1>7. /\ Len(d \o s) = Len(d) + Len(s) /\ d \o s \in Seq(ToPeer)
      /\ \A i \in 1 .. Len(d) + Len(s) : (d \o s)[i] = IF i <= Len(d) THEN d[i] ELSE s[i - Len(d)]
  BY ConcatProperties
<1>8. PICK e \in Seq(ToPeer) : e = d \o s
  BY <1>7
<1>9. /\ Len(p \o e) = Len(p) + Len(e) /\ p \o e \in Seq(ToPeer)
      /\ \A i \in 1 .. Len(p) + Len(e) : (p \o e)[i] = IF i <= Len(p) THEN p[i] ELSE e[i - Len(p)]
  BY ConcatProperties
<1>10. Going = p \o e
  BY <1>a, <1>2, <1>8
<1>11. PICK g \in Seq(ToPeer), h \in Seq(ToPeer) : g = p \o e /\ h = p \o t
  BY <1>6, <1>9
<1>12. j \in DOMAIN h /\ DOMAIN h = 1 .. Len(p) + Len(t)
  <2>1. DOMAIN h = 1 .. Len(h)
    OBVIOUS
  <2> QED BY <1>5, <1>6, <1>11, <2>1
<1>13. DOMAIN g = 1 .. Len(p) + (Len(d) + Len(s)) /\ DOMAIN s = 1 .. Len(s)
       /\ DOMAIN t = 1 .. Len(t) /\ Len(p) \in Nat /\ Len(d) \in Nat /\ Len(s) \in Nat
       /\ Len(t) \in Nat
  BY <1>7, <1>8, <1>9, <1>11
<1>14. CASE j <= Len(p)
  <2>1. j \in 1 .. Len(p) + (Len(d) + Len(s)) /\ j \in 1 .. Len(p) + Len(e)
    BY <1>7, <1>8, <1>12, <1>13, <1>14
  <2>2. g[j] = p[j] /\ h[j] = p[j]
    BY <1>6, <1>9, <1>11, <1>12, <1>14, <2>1
  <2> QED BY <1>5, <1>10, <1>11, <1>13, <2>1, <2>2
<1>15. CASE ~ (j <= Len(p))
  <2>1. j - Len(p) \in 1 .. Len(t)
    BY <1>12, <1>13, <1>15
  <2>2. PICK k \in 1 .. Len(s) : s[k] = t[j - Len(p)]
    BY <1>4, <1>13, <2>1
  <2>3. h[j] = t[j - Len(p)]
    BY <1>6, <1>11, <1>12, <1>15
  <2>4. PICK i \in Nat : i = Len(p) + (Len(d) + k)
    BY <1>13
  <2>5. /\ i \in 1 .. Len(p) + (Len(d) + Len(s)) /\ ~ (i <= Len(p)) /\ i - Len(p) = Len(d) + k
        /\ Len(d) + k \in 1 .. Len(d) + Len(s) /\ ~ (Len(d) + k <= Len(d))
        /\ (Len(d) + k) - Len(d) = k
    BY <1>13, <2>2, <2>4
  <2>6. e[Len(d) + k] = s[k]
    BY <1>7, <1>8, <2>5
  <2>7. g[i] = e[i - Len(p)]
    BY <1>7, <1>8, <1>9, <1>11, <2>5
  <2>8. g[i] = h[j] /\ i \in DOMAIN g
    BY <1>13, <2>2, <2>3, <2>5, <2>6, <2>7
  <2> QED BY <1>5, <1>10, <1>11, <2>8
<1> QED BY <1>14, <1>15

-----------------------------------------------------------------------------
(***************************************************************************)
(* What stays true of browsers.                                            *)
(***************************************************************************)
\* A browser keeps its descriptor and, until it is closed, its tasks; a task that is new
\* has the next number; a browser that is new has none.
LEMMA BrowsersLater ==
    ASSUME TypeInv, PhaseInv, BrowsersType', [Next]_vars
    PROVE  /\ \A b \in DOMAIN fdOf : b \in DOMAIN fdOf' /\ fdOf'[b] = fdOf[b]
           /\ \A b \in Browsers : phase[b] = "closed" => phase'[b] = "closed"
           /\ \A b \in DOMAIN fdOf : phase'[b] # "closed" => tasks[b] \subseteq tasks'[b]
           /\ \A b \in Browsers : tasks'[b] \subseteq tasks[b] \cup {sendSeq}
           /\ \A b \in DOMAIN fdOf' : b \notin DOMAIN fdOf => tasks'[b] = {} /\ phase'[b] = "open"
           /\ gone \subseteq gone' /\ excused \subseteq excused'
<1>a. BrowsersType
  BY DEF TypeInv
<1>b. /\ DOMAIN fdOf = 1 .. Len(fdOf) /\ DOMAIN fdOf \subseteq Browsers /\ Len(fdOf) \in Nat
  BY <1>a, AcceptedFacts
<1>c. /\ phase \in [Browsers -> {"new", "open", "leaving", "closed"}]
      /\ tasks \in [Browsers -> SUBSET Nat] /\ fdOf \in Seq(Fds)
  BY <1>a DEF BrowsersType
<1> DEFINE Goal ==
           /\ \A b \in DOMAIN fdOf : b \in DOMAIN fdOf' /\ fdOf'[b] = fdOf[b]
           /\ \A b \in Browsers : phase[b] = "closed" => phase'[b] = "closed"
           /\ \A b \in DOMAIN fdOf : phase'[b] # "closed" => tasks[b] \subseteq tasks'[b]
           /\ \A b \in Browsers : tasks'[b] \subseteq tasks[b] \cup {sendSeq}
           /\ \A b \in DOMAIN fdOf' : b \notin DOMAIN fdOf => tasks'[b] = {} /\ phase'[b] = "open"
           /\ gone \subseteq gone' /\ excused \subseteq excused'
<1> SUFFICES Goal
  OBVIOUS
<1> USE DEF browsers, proxy, link, peer, ghosts
<1>e. ASSUME UNCHANGED <<fdOf, phase, tasks>>, gone \subseteq gone', excused \subseteq excused'
      PROVE  Goal
  BY <1>e
<1>1. ASSUME NEW fd \in Fds, Accept(fd)
      PROVE  Goal
  <2> DEFINE n == Len(fdOf) + 1
  <2>1. /\ n <= MaxBrowsers /\ fdOf' = Append(fdOf, fd)
        /\ phase' = [phase EXCEPT ![n] = "open"] /\ UNCHANGED <<tasks, gone, excused>>
    BY <1>1 DEF Accept
  <2>2. n \in Browsers /\ n > Len(fdOf)
    BY <1>b, <2>1, BoundFacts DEF Browsers
  <2>3. /\ \A b \in 1 .. Len(fdOf) : fdOf'[b] = fdOf[b]
        /\ Len(fdOf') = n /\ fdOf' \in Seq(Fds)
    BY <1>c, <2>1, AppendProperties
  <2>4. DOMAIN fdOf' = 1 .. n
    BY <2>3
  <2>5. \A b \in 1 .. n : b \in 1 .. Len(fdOf) \/ b = n
    BY <1>b
  <2>6. \A b \in 1 .. Len(fdOf) : b \in 1 .. n
    BY <1>b
  <2>7. phase[n] = "new" /\ tasks[n] = {}
    BY <2>2 DEF PhaseInv
  <2> HIDE DEF n
  <2> QED BY <1>b, <1>c, <2>1, <2>2, <2>3, <2>4, <2>5, <2>6, <2>7
<1>2. ASSUME NEW b \in DOMAIN fdOf, OnDisconnect(b)
      PROVE  Goal
  BY <1>b, <1>c, <1>2 DEF OnDisconnect
<1>3. ASSUME NEW b \in Browsers, DoneWith(b), UNCHANGED <<fdOf, gone>>, excused \subseteq excused'
      PROVE  Goal
  BY <1>b, <1>c, <1>3 DEF DoneWith
<1>4. ASSUME NEW b \in DOMAIN fdOf, TurnAway(b)
      PROVE  Goal
  BY <1>b, <1>3, <1>4 DEF TurnAway
<1>5. ASSUME NEW b \in DOMAIN fdOf, Forward(b)
      PROVE  Goal
  <2>1. UNCHANGED <<fdOf, gone, excused>>
    BY <1>5 DEF Forward
  <2>2. CASE DoneWith(b)
    BY <1>b, <1>3, <2>1, <2>2
  <2>3. CASE tasks' = [tasks EXCEPT ![b] = @ \cup {sendSeq}] /\ UNCHANGED phase
    BY <1>b, <1>c, <2>1, <2>3
  <2> QED BY <1>5, <2>2, <2>3 DEF Forward
<1>6. CASE SendReply
  <2>1. Head(replies).to \in Browsers
    <3>1. replies # <<>> /\ replies \in Seq(Replies)
      BY <1>6 DEF SendReply, TypeInv, RepliesType
    <3>2. Head(replies) \in Replies
      BY <3>1, HeadTailProperties
    <3> QED BY <3>2 DEF Replies
  <2>2. DoneWith(Head(replies).to) /\ UNCHANGED <<fdOf, gone, excused>>
    BY <1>6 DEF SendReply
  <2> QED BY <1>3, <2>1, <2>2
<1>7. CASE SendCommand \/ RecvVNC \/ ReturnVNC2Client \/ OnDisconnectVNC \/ ProxyDisconnect
           \/ OnCloseVNC \/ \E b \in DOMAIN fdOf : RecvPacket(b) \/ BrowserLeaves(b)
  BY <1>e, <1>7 DEF SendCommand, RecvVNC, ReturnVNC2Client, OnDisconnectVNC, ProxyDisconnect,
                    OnCloseVNC, ShutBrowsers, RecvPacket, BrowserLeaves
<1>8. CASE Connect \/ RecvFails \/ RecvCommand \/ LinkLost \/ UNCHANGED vars
  BY <1>e, <1>8 DEF Connect, RecvFails, RecvCommand, LinkLost, vars
<1>9. CASE ParsedInPart \/ ParserFull \/ OnRecvProxyDisconnect \/ \E r \in Requests : ParsedAll(r)
  BY <1>e, <1>9 DEF ParsedInPart, ParserFull, OnRecvProxyDisconnect, ParsedAll
<1>10. ASSUME NEW r \in Requests,
              OnReceiveBody(r) \/ RequestEnds(r) \/ OnSuccessOrFail(r) \/ UnlockAndDelete(r)
       PROVE  Goal
  BY <1>e, <1>10 DEF OnReceiveBody, RequestEnds, OnSuccessOrFail, UnlockAndDelete
<1>11. ASSUME NEW t \in Threads, Send(t)
       PROVE  Goal
  BY <1>e, <1>11 DEF Send, SendWhole, SendFails, Sent, SendPart, SendBetween
<1> HIDE DEF Goal
<1> QED BY <1>1, <1>2, <1>4, <1>5, <1>6, <1>7, <1>8, <1>9, <1>10, <1>11
        DEF Next, Program, Environment, MainThread, Handlers, VNCMain, VNCHandler, Receive

\* Numbers are given out in order, from 0 for each connection.
LEMMA NumbersLater ==
    ASSUME TypeInv, [Next]_vars, ~ Connect
    PROVE  sendSeq' \in {sendSeq, sendSeq + 1}
<1> USE DEF browsers, proxy, link, peer, ghosts
<1> DEFINE Goal == sendSeq' \in {sendSeq, sendSeq + 1}
<1>1. ASSUME NEW b \in DOMAIN fdOf,
             \/ RecvPacket(b) \/ BrowserLeaves(b) \/ OnDisconnect(b) \/ Forward(b) \/ TurnAway(b)
      PROVE  Goal
  BY <1>1 DEF RecvPacket, BrowserLeaves, OnDisconnect, Forward, TurnAway, SendClient2VNC
<1>2. CASE (\E fd \in Fds : Accept(fd)) \/ SendReply \/ SendCommand \/ RecvVNC
           \/ ReturnVNC2Client \/ ProxyDisconnect \/ OnDisconnectVNC \/ OnCloseVNC
  BY <1>2 DEF Accept, SendReply, SendCommand, RecvVNC, ReturnVNC2Client, ProxyDisconnect,
              OnDisconnectVNC, OnCloseVNC
<1>3. CASE RecvFails \/ RecvCommand \/ LinkLost \/ UNCHANGED vars
  BY <1>3 DEF RecvFails, RecvCommand, LinkLost, vars
<1>4. CASE ParsedInPart \/ ParserFull \/ OnRecvProxyDisconnect \/ \E r \in Requests : ParsedAll(r)
  BY <1>4 DEF ParsedInPart, ParserFull, OnRecvProxyDisconnect, ParsedAll
<1>5. ASSUME NEW r \in Requests,
             OnReceiveBody(r) \/ RequestEnds(r) \/ OnSuccessOrFail(r) \/ UnlockAndDelete(r)
      PROVE  Goal
  BY <1>5 DEF OnReceiveBody, RequestEnds, OnSuccessOrFail, UnlockAndDelete
<1>6. ASSUME NEW t \in Threads, Send(t)
      PROVE  Goal
  BY <1>6 DEF Send, SendWhole, SendFails, Sent, SendPart, SendBetween
<1> QED BY <1>1, <1>2, <1>3, <1>4, <1>5, <1>6
        DEF Next, Program, Environment, MainThread, Handlers, VNCMain, VNCHandler, Receive

\* Known after the step.
KnownThen(fd, n, b) ==
    /\ b \in DOMAIN fdOf' /\ fdOf'[b] = fd /\ n < sendSeq'
    /\ phase'[b] # "closed" => n \in tasks'[b]
    /\ \A c \in DOMAIN fdOf' : fdOf'[c] = fd /\ c # b => n \notin tasks'[c]

\* A packet stays known as long as the connection lasts.
LEMMA KnownStep ==
    ASSUME TypeInv, PhaseInv, BrowsersType', [Next]_vars, ~ Connect,
           NEW fd, NEW n \in Nat, NEW b, Known(fd, n, b)
    PROVE  KnownThen(fd, n, b)
<1>a. /\ \A c \in DOMAIN fdOf : c \in DOMAIN fdOf' /\ fdOf'[c] = fdOf[c]
      /\ \A c \in Browsers : phase[c] = "closed" => phase'[c] = "closed"
      /\ \A c \in DOMAIN fdOf : phase'[c] # "closed" => tasks[c] \subseteq tasks'[c]
      /\ \A c \in Browsers : tasks'[c] \subseteq tasks[c] \cup {sendSeq}
      /\ \A c \in DOMAIN fdOf' : c \notin DOMAIN fdOf => tasks'[c] = {} /\ phase'[c] = "open"
  BY BrowsersLater
<1>b. DOMAIN fdOf \subseteq Browsers
  BY AcceptedFacts DEF TypeInv
<1>c. sendSeq \in Nat /\ sendSeq' \in {sendSeq, sendSeq + 1}
  BY NumbersLater DEF TypeInv, VNCType
<1>1. /\ b \in DOMAIN fdOf /\ fdOf[b] = fd /\ n < sendSeq
      /\ phase[b] # "closed" => n \in tasks[b]
      /\ \A c \in DOMAIN fdOf : fdOf[c] = fd /\ c # b => n \notin tasks[c]
  BY DEF Known
<1>2. n < sendSeq' /\ n # sendSeq
  BY <1>1, <1>c
<1>3. ASSUME NEW c \in DOMAIN fdOf', fdOf'[c] = fd, c # b
      PROVE  n \notin tasks'[c]
  <2>1. CASE c \in DOMAIN fdOf
    BY <1>1, <1>2, <1>3, <1>a, <1>b, <2>1
  <2>2. CASE c \notin DOMAIN fdOf
    BY <1>a, <2>2
  <2> QED BY <2>1, <2>2
<1>4. phase'[b] # "closed" => n \in tasks'[b]
  BY <1>1, <1>a, <1>b
<1> QED BY <1>1, <1>2, <1>3, <1>4, <1>a DEF KnownThen

-----------------------------------------------------------------------------
(***************************************************************************)
(* The kinds of steps, by what they do to what is on the way.              *)
(***************************************************************************)
Sent2VNC(type, b) == [type |-> type, fd |-> fdOf[b], seq |-> sendSeq, of |-> b]

Parses == ParsedInPart \/ ParserFull \/ OnRecvProxyDisconnect \/ \E r \in Requests : ParsedAll(r)

\* Towards the parsers.
GoingOptions ==
    \/ Going' = Going /\ parser' = parser
    \/ \E b \in DOMAIN fdOf : /\ OnDisconnect(b) /\ parser' = parser
                              /\ Pushed(Going, Going', Sent2VNC("ProxyDisconnect", b))
    \/ \E b \in DOMAIN fdOf : /\ Forward(b) /\ parser' = parser
                              /\ Pushed(Going, Going', Sent2VNC("Proxy", b))
    \/ Parses /\ Popped(Going, Going') /\ Going[1] = cmd
    \/ LinkLost \/ (SendCommand /\ ~ alive)

\* Every step does one of these.
LEMMA GoingStep ==
    ASSUME TypeInv, LinkInv, TypeInv', [Next]_vars
    PROVE  GoingOptions
<1>a. PlacesType /\ BrowsersType /\ VNCType
  BY DEF TypeInv
<1> USE DEF browsers, proxy, link, peer, ghosts
<1>e. ASSUME UNCHANGED <<down, sending, cmd, parser>>, pc'[Receiver] = pc[Receiver]
      PROVE  GoingOptions
  BY <1>e, GoingKept DEF GoingOptions
<1>f. ASSUME NEW b \in DOMAIN fdOf, NEW type \in {"Proxy", "ProxyDisconnect"},
             SendClient2VNC(type, b), UNCHANGED <<down, cmd, pc>>
      PROVE  Pushed(Going, Going', Sent2VNC(type, b))
  <2>1. Sent2VNC(type, b) \in ToPeer
    BY <1>a, <1>f, SendsCommand DEF Sent2VNC
  <2>2. sending' = Append(sending, Sent2VNC(type, b))
    BY <1>f DEF SendClient2VNC, Sent2VNC
  <2>3. PICK c \in ToPeer : c = Sent2VNC(type, b)
    BY <2>1
  <2>4. Pushed(Going, Going', c)
    BY <1>f, <2>2, <2>3, GoingPushed
  <2> QED BY <2>3, <2>4
<1>1. CASE (\E fd \in Fds : Accept(fd)) \/ SendReply \/ RecvVNC \/ ReturnVNC2Client
           \/ ProxyDisconnect \/ OnDisconnectVNC \/ OnCloseVNC
           \/ \E b \in DOMAIN fdOf : RecvPacket(b) \/ BrowserLeaves(b) \/ TurnAway(b)
  BY <1>e, <1>1 DEF Accept, SendReply, RecvVNC, ReturnVNC2Client, ProxyDisconnect,
              OnDisconnectVNC, OnCloseVNC, RecvPacket, BrowserLeaves, TurnAway
<1>2. ASSUME NEW b \in DOMAIN fdOf, OnDisconnect(b)
      PROVE  GoingOptions
  <2>1. UNCHANGED <<down, cmd, pc, parser>>
    BY <1>2 DEF OnDisconnect
  <2>2. CASE SendClient2VNC("ProxyDisconnect", b)
    BY <1>2, <1>f, <2>1, <2>2 DEF GoingOptions
  <2>3. CASE UNCHANGED sending
    BY <1>e, <2>1, <2>3
  <2> QED BY <1>2, <2>2, <2>3 DEF OnDisconnect
<1>3. ASSUME NEW b \in DOMAIN fdOf, Forward(b)
      PROVE  GoingOptions
  <2>1. UNCHANGED <<down, cmd, pc, parser>> /\ SendClient2VNC("Proxy", b)
    BY <1>3 DEF Forward
  <2> QED BY <1>3, <1>f, <2>1 DEF GoingOptions
<1>4. CASE SendCommand
  <2>1. UNCHANGED parser
    BY <1>4 DEF SendCommand
  <2> QED BY <1>4, <2>1, GoingKept DEF GoingOptions
<1>5. CASE Connect \/ RecvFails \/ RecvCommand
  <2>1. UNCHANGED parser
    BY <1>5 DEF Connect, RecvFails, RecvCommand
  <2> QED BY <1>5, <2>1, GoingKept DEF GoingOptions
<1>6. CASE LinkLost \/ UNCHANGED vars
  BY <1>e, <1>6 DEF vars, GoingOptions
<1>7. CASE Parses
  <2>1. /\ pc[Receiver] \in {"parse", "erase"} /\ pc'[Receiver] \notin {"parse", "erase"}
        /\ UNCHANGED <<down, sending>>
    BY <1>7, <1>a, ThreadFacts DEF Parses, ParsedInPart, ParserFull, OnRecvProxyDisconnect,
                                   ParsedAll, At, Goto, PlacesType
  <2> QED BY <1>7, <2>1, GoingPopped DEF GoingOptions
<1>8. ASSUME NEW r \in Requests,
             OnReceiveBody(r) \/ RequestEnds(r) \/ OnSuccessOrFail(r) \/ UnlockAndDelete(r)
      PROVE  GoingOptions
  <2>1. UNCHANGED <<down, sending, cmd, parser>> /\ pc'[Receiver] = pc[Receiver]
    BY <1>8, <1>a, ThreadFacts
       DEF OnReceiveBody, RequestEnds, OnSuccessOrFail, UnlockAndDelete, Goto, PlacesType
  <2> QED BY <1>e, <2>1
<1>9. ASSUME NEW t \in Threads, Send(t)
      PROVE  GoingOptions
  <2>1. CASE SendWhole(t) \/ SendFails(t)
    <3>1. UNCHANGED parser
      BY <2>1 DEF SendWhole, SendFails, Sent
    <3> QED BY <2>1, <3>1, GoingKept DEF GoingOptions
  <2>2. CASE SendPart(t) \/ SendBetween(t)
    BY <1>e, <2>2 DEF SendPart, SendBetween
  <2> QED BY <1>9, <2>1, <2>2 DEF Send
<1> QED BY <1>1, <1>2, <1>3, <1>4, <1>5, <1>6, <1>7, <1>8, <1>9
        DEF Next, Program, Environment, MainThread, Handlers, VNCMain, VNCHandler, Receive, Parses

\* From the peer.
ComingOptions ==
    \/ Coming' = Coming /\ dropped' = dropped /\ (UNCHANGED <<replies, heard>> \/ SendReply)
    \/ ReturnVNC2Client /\ Popped(Coming, Coming') /\ Coming[1] = Head(handling)
    \/ ProxyDisconnect /\ Popped(Coming, Coming') /\ Coming[1] = Head(handling)
    \/ \E t \in Threads : SendWhole(t) /\ Pushed(Coming, Coming', Command(t))
    \/ LinkLost /\ Cut(Coming, Coming')

\* Every step does one of these.
LEMMA ComingStep ==
    ASSUME TypeInv, LinkInv, TypeInv', [Next]_vars
    PROVE  ComingOptions
<1> USE DEF browsers, proxy, link, peer, ghosts
<1>e. ASSUME UNCHANGED <<handling, up, dropped, replies, heard>>
      PROVE  ComingOptions
  BY <1>e, ComingKept DEF ComingOptions
<1>1. CASE (\E fd \in Fds : Accept(fd)) \/ SendCommand \/ OnDisconnectVNC \/ OnCloseVNC
           \/ \E b \in DOMAIN fdOf : RecvPacket(b) \/ BrowserLeaves(b) \/ TurnAway(b)
                                     \/ OnDisconnect(b) \/ Forward(b)
  BY <1>e, <1>1 DEF Accept, SendCommand, OnDisconnectVNC, OnCloseVNC, RecvPacket, BrowserLeaves,
                    TurnAway, OnDisconnect, Forward, SendClient2VNC
<1>2. CASE SendReply
  <2>1. UNCHANGED <<handling, up, dropped>>
    BY <1>2 DEF SendReply
  <2> QED BY <1>2, <2>1, ComingKept DEF ComingOptions
<1>3. CASE RecvVNC \/ Connect
  <2>1. UNCHANGED <<dropped, replies, heard>>
    BY <1>3 DEF RecvVNC, Connect
  <2> QED BY <1>3, <2>1, ComingKept DEF ComingOptions
<1>4. CASE ReturnVNC2Client
  <2>1. handling # <<>> /\ handling' = Tail(handling) /\ up' = up
    BY <1>4 DEF ReturnVNC2Client
  <2> QED BY <1>4, <2>1, ComingPopped DEF ComingOptions
<1>5. CASE ProxyDisconnect
  <2>1. handling # <<>> /\ handling' = Tail(handling) /\ up' = up
    BY <1>5 DEF ProxyDisconnect
  <2> QED BY <1>5, <2>1, ComingPopped DEF ComingOptions
<1>6. CASE LinkLost
  BY <1>6, ComingCut DEF ComingOptions
<1>7. CASE RecvFails \/ RecvCommand \/ Parses \/ UNCHANGED vars
  BY <1>e, <1>7 DEF RecvFails, RecvCommand, Parses, ParsedInPart, ParserFull,
                    OnRecvProxyDisconnect, ParsedAll, vars
<1>8. ASSUME NEW r \in Requests,
             OnReceiveBody(r) \/ RequestEnds(r) \/ OnSuccessOrFail(r) \/ UnlockAndDelete(r)
      PROVE  ComingOptions
  BY <1>e, <1>8 DEF OnReceiveBody, RequestEnds, OnSuccessOrFail, UnlockAndDelete
<1>9. ASSUME NEW t \in Threads, SendWhole(t)
      PROVE  ComingOptions
  <2>1. Sends(t) /\ up' = Append(up, Command(t)) /\ handling' = handling
    BY <1>9 DEF SendWhole, Sent
  <2> QED BY <1>9, <2>1, ComingPushed DEF ComingOptions
<1>10. ASSUME NEW t \in Threads, SendPart(t) \/ SendBetween(t) \/ SendFails(t)
       PROVE  ComingOptions
  BY <1>e, <1>10 DEF SendPart, SendBetween, SendFails, Sent
<1> QED BY <1>1, <1>2, <1>3, <1>4, <1>5, <1>6, <1>7, <1>8, <1>9, <1>10
        DEF Next, Program, Environment, MainThread, Handlers, VNCMain, VNCHandler, Receive, Parses,
            Send

\* What a request was made of, and where it is.
RequestOptions ==
    \/ request' = request /\ \A r \in Requests : pc'[r] = pc[r]
    \/ \E r \in Requests : ParsedAll(r)
    \/ \E r \in Requests : OnReceiveBody(r)
    \/ \E r \in Requests : (RequestEnds(r) \/ OnSuccessOrFail(r) \/ UnlockAndDelete(r))
    \/ \E r \in Requests : (SendWhole(r) \/ SendFails(r))

\* Every step does one of these.
LEMMA RequestStep ==
    ASSUME TypeInv, [Next]_vars
    PROVE  RequestOptions
<1>a. PlacesType
  BY DEF TypeInv
<1> USE DEF browsers, proxy, link, peer, ghosts, At, Goto
<1>e. ASSUME UNCHANGED <<request, pc>>
      PROVE  RequestOptions
  BY <1>e DEF RequestOptions
<1>1. ASSUME NEW b \in DOMAIN fdOf,
             \/ RecvPacket(b) \/ BrowserLeaves(b) \/ OnDisconnect(b) \/ Forward(b) \/ TurnAway(b)
      PROVE  RequestOptions
  BY <1>e, <1>1 DEF RecvPacket, BrowserLeaves, OnDisconnect, Forward, TurnAway
<1>2. CASE (\E fd \in Fds : Accept(fd)) \/ SendReply \/ SendCommand \/ RecvVNC
           \/ ReturnVNC2Client \/ ProxyDisconnect \/ OnDisconnectVNC \/ OnCloseVNC
           \/ LinkLost \/ UNCHANGED vars
  BY <1>e, <1>2 DEF Accept, SendReply, SendCommand, RecvVNC, ReturnVNC2Client, ProxyDisconnect,
                    OnDisconnectVNC, OnCloseVNC, LinkLost, vars
<1>3. CASE Connect \/ RecvFails \/ RecvCommand \/ ParsedInPart \/ ParserFull
           \/ OnRecvProxyDisconnect
  BY <1>3, <1>a, ThreadFacts DEF Connect, RecvFails, RecvCommand, ParsedInPart, ParserFull,
           OnRecvProxyDisconnect, RequestOptions, PlacesType
<1>4. ASSUME NEW r \in Requests, \/ ParsedAll(r) \/ OnReceiveBody(r) \/ RequestEnds(r)
                                 \/ OnSuccessOrFail(r) \/ UnlockAndDelete(r)
      PROVE  RequestOptions
  BY <1>4 DEF RequestOptions
<1>5. ASSUME NEW t \in Threads, SendWhole(t) \/ SendFails(t)
      PROVE  RequestOptions
  <2>1. CASE t \in Requests
    BY <1>5, <2>1 DEF RequestOptions
  <2>2. CASE t = Receiver
    BY <1>5, <1>a, <2>2, ThreadFacts DEF RequestOptions, SendWhole, SendFails, Sent, PlacesType
  <2> QED BY <2>1, <2>2, ThreadFacts
<1>6. ASSUME NEW t \in Threads, SendPart(t) \/ SendBetween(t)
      PROVE  RequestOptions
  BY <1>e, <1>6 DEF SendPart, SendBetween
<1> QED BY <1>1, <1>2, <1>3, <1>4, <1>5, <1>6
        DEF Next, Program, Environment, MainThread, Handlers, VNCMain, VNCHandler, Receive, Send

\* A request that is begun, and one that goes on.
Begins(r) ==
    /\ ParsedAll(r) /\ pc[Receiver] = "parse" /\ pc[r] = "none" /\ pc'[r] = "run"
    /\ request'[r] = [fd |-> cmd.fd, seq |-> cmd.seq, of |-> parser[cmd.fd] \cup {cmd.of},
                      pieces |-> 0]
    /\ request[r].of = {} /\ Given(r)' = 0

GoesOn(r) ==
    /\ request'[r].of = request[r].of /\ request'[r].fd = request[r].fd
    /\ request'[r].seq = request[r].seq
    /\ pc'[r] = "none" <=> pc[r] = "none"
    /\ pc[r] = "deleted" => pc'[r] = "deleted"
    /\ Ended(r) => Ended(r)' /\ request'[r].pieces = request[r].pieces
    /\ Ended(r)' => Ended(r) \/ RequestEnds(r)
    /\ pc'[r] \in {"run", "send", "end", "hangup"} => pc[r] \in {"run", "send", "end", "hangup"}
    /\ \/ Given(r)' = Given(r)
       \/ /\ SendWhole(r) \/ SendFails(r)
          /\ pc[r] = "send" /\ Given(r)' = Given(r) + 1 /\ Given(r)' = request[r].pieces
    /\ \/ request'[r].pieces = request[r].pieces
       \/ OnReceiveBody(r) /\ request'[r].pieces = request[r].pieces + 1

\* How many pieces were given.
LEMMA GivenFacts ==
    ASSUME TypeInv, NEW r \in Requests
    PROVE  /\ Given(r) \in Nat /\ request[r].pieces \in 0 .. MaxPieces
           /\ Given(r) <= request[r].pieces /\ (Ended(r) => Given(r) = request[r].pieces)
           /\ pc[r] # "send" => Given(r) = request[r].pieces
           /\ pc[r] = "send" => Given(r) = request[r].pieces - 1
<1>1. request[r].pieces \in 0 .. MaxPieces /\ (pc[r] = "send" => request[r].pieces > 0)
  BY DEF TypeInv, RequestsType
<1>2. request[r].pieces \in Nat
  BY <1>1, BoundFacts
<1> QED BY <1>1, <1>2, BoundFacts DEF Given, Ended

\* A step begins a request, or it goes on.
LEMMA RequestLater ==
    ASSUME TypeInv, TypeInv', [Next]_vars, NEW r \in Requests
    PROVE  Begins(r) \/ GoesOn(r)
<1>a. /\ request \in [Requests -> [fd : Fds \cup {Nobody}, seq : Nat, of : SUBSET Browsers,
                                   pieces : 0 .. MaxPieces]]
      /\ \A q \in Requests : pc[q] = "none" => request[q].of = {} /\ request[q].pieces = 0
      /\ InHand => cmd \in ToPeer
  BY DEF TypeInv, RequestsType
<1>b. PlacesType
  BY DEF TypeInv
<1>c. /\ Given(r) \in Nat /\ request[r].pieces \in Nat
      /\ pc[r] # "send" => Given(r) = request[r].pieces
      /\ pc[r] = "send" => Given(r) = request[r].pieces - 1
  BY GivenFacts, BoundFacts
<1>d. /\ pc'[r] # "send" => Given(r)' = request'[r].pieces
      /\ pc'[r] = "send" => Given(r)' = request'[r].pieces - 1
  BY DEF Given
<1> USE DEF At, Goto, PlacesType
<1>e. ASSUME request'[r] = request[r], pc'[r] = pc[r]
      PROVE  GoesOn(r)
  BY <1>c, <1>d, <1>e DEF GoesOn, Ended
<1>1. CASE request' = request /\ \A q \in Requests : pc'[q] = pc[q]
  BY <1>1, <1>e
<1>2. ASSUME NEW q \in Requests, ParsedAll(q)
      PROVE  Begins(r) \/ GoesOn(r)
  <2>1. /\ pc[Receiver] = "parse" /\ pc[q] = "none"
        /\ pc' = [pc EXCEPT ![Receiver] = "recv", ![q] = "run"]
        /\ request' = [request EXCEPT ![q] = [fd |-> cmd.fd, seq |-> cmd.seq, of |-> Fed[cmd.fd],
                                              pieces |-> 0]]
    BY <1>2 DEF ParsedAll
  <2>2. CASE q # r
    <3>1. pc'[r] = pc[r] /\ request'[r] = request[r]
      BY <1>a, <1>b, <2>1, <2>2, ThreadFacts
    <3> QED BY <1>e, <3>1
  <2>3. CASE q = r
    <3>1. cmd.fd \in Fds
      BY <1>a, <2>1 DEF InHand, ToPeer
    <3>2. Fed[cmd.fd] = parser[cmd.fd] \cup {cmd.of}
      BY <3>1 DEF Fed, TypeInv, RequestsType
    <3>3. pc'[r] = "run" /\ request'[r] = [fd |-> cmd.fd, seq |-> cmd.seq, of |-> Fed[cmd.fd],
                                           pieces |-> 0]
      BY <1>a, <1>b, <2>1, <2>3, ThreadFacts
    <3> QED BY <1>2, <1>a, <1>d, <2>1, <2>3, <3>2, <3>3 DEF Begins
  <2> QED BY <2>2, <2>3
<1>3. ASSUME NEW q \in Requests, OnReceiveBody(q)
      PROVE  GoesOn(r)
  <2>1. /\ pc[q] = "run" /\ pc' = [pc EXCEPT ![q] = "send"]
        /\ request' = [request EXCEPT ![q].pieces = @ + 1]
    BY <1>3 DEF OnReceiveBody
  <2>2. CASE q # r
    BY <1>a, <1>b, <1>e, <2>1, <2>2, ThreadFacts
  <2>3. CASE q = r
    <3>1. /\ pc'[r] = "send" /\ pc[r] = "run" /\ request'[r].of = request[r].of
          /\ request'[r].fd = request[r].fd /\ request'[r].seq = request[r].seq
          /\ request'[r].pieces = request[r].pieces + 1
      BY <1>a, <1>b, <2>1, <2>3, ThreadFacts
    <3>2. Given(r)' = Given(r)
      BY <1>c, <1>d, <3>1
    <3> QED BY <1>3, <2>3, <3>1, <3>2 DEF GoesOn, Ended
  <2> QED BY <2>2, <2>3
<1>4. ASSUME NEW q \in Requests, RequestEnds(q) \/ OnSuccessOrFail(q) \/ UnlockAndDelete(q)
      PROVE  GoesOn(r)
  <2>1. /\ request' = request
        /\ \/ pc[q] = "run" /\ pc' = [pc EXCEPT ![q] = "end"] /\ RequestEnds(q)
           \/ pc[q] = "end" /\ pc' = [pc EXCEPT ![q] = "hangup"]
           \/ pc[q] = "end" /\ pc' = [pc EXCEPT ![q] = "unlock"]
           \/ pc[q] = "unlock" /\ pc' = [pc EXCEPT ![q] = "deleted"]
    BY <1>4 DEF RequestEnds, OnSuccessOrFail, UnlockAndDelete
  <2>2. CASE q # r
    BY <1>b, <1>e, <2>1, <2>2, ThreadFacts
  <2>3. CASE q = r
    <3>1. \/ pc[r] = "run" /\ pc'[r] = "end" /\ RequestEnds(r)
          \/ pc[r] = "end" /\ pc'[r] \in {"hangup", "unlock"}
          \/ pc[r] = "unlock" /\ pc'[r] = "deleted"
      BY <1>b, <2>1, <2>3, ThreadFacts
    <3>2. Given(r)' = Given(r)
      BY <1>c, <1>d, <2>1, <3>1
    <3> QED BY <2>1, <3>1, <3>2 DEF GoesOn, Ended
  <2> QED BY <2>2, <2>3
<1>5. ASSUME NEW q \in Requests, SendWhole(q) \/ SendFails(q)
      PROVE  GoesOn(r)
  <2>1. /\ request' = request /\ pc[q] \in {"send", "hangup"}
        /\ pc' = [pc EXCEPT ![q] = AfterSend(q)]
    BY <1>5 DEF SendWhole, SendFails, Sent, Sends
  <2>2. CASE q # r
    BY <1>b, <1>e, <2>1, <2>2, ThreadFacts
  <2>3. CASE q = r
    <3>1. \/ pc[r] = "send" /\ pc'[r] = "run"
          \/ pc[r] = "hangup" /\ pc'[r] = "unlock"
      BY <1>b, <2>1, <2>3, ThreadFacts DEF AfterSend
    <3>2. CASE pc[r] = "send" /\ pc'[r] = "run"
      <4>1. Given(r)' = request[r].pieces /\ Given(r)' = Given(r) + 1
        BY <1>c, <1>d, <2>1, <3>2
      <4> QED BY <1>5, <2>1, <2>3, <3>2, <4>1 DEF GoesOn, Ended
    <3>3. CASE pc[r] = "hangup" /\ pc'[r] = "unlock"
      <4>1. Given(r)' = Given(r)
        BY <1>c, <1>d, <2>1, <3>3
      <4> QED BY <2>1, <3>3, <4>1 DEF GoesOn, Ended
    <3> QED BY <3>1, <3>2, <3>3
  <2> QED BY <2>2, <2>3
<1> QED BY <1>1, <1>2, <1>3, <1>4, <1>5, RequestStep DEF RequestOptions

-----------------------------------------------------------------------------
(***************************************************************************)
(* Packets are known by their numbers.                                     *)
(***************************************************************************)
\* The command in hand is the oldest of those on the way.
LEMMA InHandGoing ==
    ASSUME TypeInv, pc[Receiver] \in {"parse", "erase"}
    PROVE  cmd \in Range(Going) /\ cmd \in ToPeer
           /\ (cmd.type = "Proxy" <=> pc[Receiver] = "parse")
<1>a. cmd \in ToPeer /\ (cmd.type = "Proxy" <=> pc[Receiver] = "parse")
  BY DEF TypeInv, RequestsType, InHand
<1>1. Going = InParser \o (down \o sending) /\ down \o sending \in Seq(ToPeer)
  BY FlowFacts
<1>2. PICK s \in Seq(ToPeer), c \in ToPeer : s = down \o sending /\ c = cmd
  BY <1>a, <1>1
<1>3. Going = <<c>> \o s
  BY <1>1, <1>2 DEF InParser
<1>4. (<<c>> \o s)[1] = c /\ 1 \in DOMAIN (<<c>> \o s)
  OBVIOUS
<1> QED BY <1>a, <1>2, <1>3, <1>4 DEF Range

\* At the time of Connect nothing is on the way.
LEMMA ConnectEmpty ==
    ASSUME TypeInv, LinkInv, TypeInv', Connect
    PROVE  /\ Going' = Going /\ Len(Going) = 0 /\ DOMAIN Going = {}
           /\ Coming' = Coming /\ Len(Coming) = 0 /\ DOMAIN Coming = {}
           /\ \A r \in Requests : pc'[r] = pc[r]
           /\ pc'[Receiver] = "recv"
<1>1. /\ pc[Receiver] = "connect" /\ vnc = "none"
      /\ pc' = [pc EXCEPT ![Receiver] = "recv"]
  BY DEF Connect, At, Goto
<1>2. down = <<>> /\ up = <<>> /\ sending = <<>> /\ handling = <<>>
  BY <1>1 DEF LinkInv
<1>3. Going' = Going /\ Coming' = Coming
  BY GoingKept, ComingKept
<1>4. Going = <<>> /\ Coming = <<>>
  BY <1>1, <1>2 DEF Going, Coming
<1>5. PlacesType
  BY DEF TypeInv
<1> QED BY <1>1, <1>3, <1>4, <1>5, ThreadFacts DEF PlacesType

\* An element of the later sequence is one of the earlier, or the new one.
LEMMA FlowElements ==
    ASSUME NEW M, NEW s \in Seq(M), NEW t
    PROVE  /\ Popped(s, t) => Range(t) \subseteq Range(s) /\ s[1] \in Range(s)
           /\ Cut(s, t) => Range(t) \subseteq Range(s)
           /\ \A x : Pushed(s, t, x) => Range(t) \subseteq Range(s) \cup {x}
BY DEF Popped, Cut, Pushed, Range

\* Every packet on its way is known, and so is whose bytes a parser has.
LEMMA KnownInvStep ==
    ASSUME TypeInv, LinkInv, PhaseInv, KnownInv, ErasedInv, TypeInv', [Next]_vars, races' = {}
    PROVE  KnownInv'
<1>a. /\ \A c \in Range(Going) : c.type = "Proxy" => Known(c.fd, c.seq, c.of)
      /\ \A fd \in Fds : \A b \in parser[fd] : b \in DOMAIN fdOf /\ fdOf[b] = fd
      /\ \A r \in Requests : pc[r] # "none" => \E b \in Browsers : request[r].of = {b}
      /\ \A r \in Requests : pc[r] \notin {"none", "deleted"} =>
            \A b \in request[r].of : Known(request[r].fd, request[r].seq, b)
      /\ \A c \in Range(Coming) : c.type = "Proxy" => \A b \in c.of : Known(c.fd, c.seq, b)
  BY DEF KnownInv
<1> DEFINE KnownInvThen ==
      /\ \A c \in Range(Going') : c.type = "Proxy" => KnownThen(c.fd, c.seq, c.of)
      /\ \A fd \in Fds : \A b \in parser'[fd] : b \in DOMAIN fdOf' /\ fdOf'[b] = fd
      /\ \A r \in Requests : pc'[r] # "none" => \E b \in Browsers : request'[r].of = {b}
      /\ \A r \in Requests : \A q \in {request'[r]} :
            pc'[r] \notin {"none", "deleted"} => \A b \in q.of : KnownThen(q.fd, q.seq, b)
      /\ \A c \in Range(Coming') : c.type = "Proxy" => \A b \in c.of : KnownThen(c.fd, c.seq, b)
<1> SUFFICES KnownInvThen
  BY DEF KnownInv, Known, KnownThen
<1>b. /\ Going \in Seq(ToPeer) /\ Coming \in Seq(Answers) /\ BrowsersType /\ BrowsersType'
      /\ PlacesType /\ PlacesType'
  BY FlowFacts DEF TypeInv
<1>c. parser \in [Fds -> SUBSET Browsers]
      /\ request \in [Requests -> [fd : Fds \cup {Nobody}, seq : Nat, of : SUBSET Browsers,
                                   pieces : 0 .. MaxPieces]]
  BY DEF TypeInv, RequestsType
<1>d. \A b \in DOMAIN fdOf : b \in DOMAIN fdOf' /\ fdOf'[b] = fdOf[b]
  BY <1>b, BrowsersLater
<1>1. CASE Connect
  <2>1. /\ Range(Going') = {} /\ Range(Coming') = {} /\ \A r \in Requests : pc'[r] = pc[r]
    BY <1>1, ConnectEmpty DEF Range
  <2>2. UNCHANGED <<fdOf, parser, request>>
    BY <1>1 DEF Connect, browsers
  <2>3. \A r \in Requests : pc[r] \in {"none", "deleted"}
    BY <1>1 DEF Connect
  <2> QED BY <1>a, <2>1, <2>2, <2>3
<1>2. CASE ~ Connect
  <2>k. \A fd, b : \A n \in Nat : Known(fd, n, b) => KnownThen(fd, n, b)
    BY <1>2, <1>b, KnownStep
  <2>t. /\ \A c \in Range(Going) : c \in ToPeer /\ c.seq \in Nat
        /\ \A c \in Range(Coming) : c \in Answers /\ (c.type = "Proxy" => c.seq \in Nat)
    <3>1. \A c \in ToPeer : c.seq \in Nat
      BY DEF ToPeer
    <3>2. \A c \in Answers : c.type = "Proxy" => c.seq \in Nat
      BY DEF Answers, Pieces, Closings
    <3>3. Range(Going) \subseteq ToPeer /\ Range(Coming) \subseteq Answers
      BY <1>b DEF Range
    <3> QED BY <3>1, <3>2, <3>3
  <2>1. ASSUME NEW c \in Range(Going'), c.type = "Proxy"
        PROVE  KnownThen(c.fd, c.seq, c.of)
    <3>1. CASE c \in Range(Going)
      BY <1>a, <2>1, <2>k, <2>t, <3>1
    <3>2. CASE c \notin Range(Going)
      <4>1. ASSUME LinkLost \/ (SendCommand /\ ~ alive)
            PROVE  FALSE
        <5>1. \A j \in DOMAIN Going' : \E i \in DOMAIN Going : Going[i] = Going'[j]
          BY <4>1, GoingLost
        <5> QED BY <2>1, <3>2, <5>1 DEF Range
      <4>2. ~ (Going' = Going) /\ ~ Popped(Going, Going')
        BY <1>b, <2>1, <3>2, FlowElements
      <4>3. PICK b \in DOMAIN fdOf :
               \/ OnDisconnect(b) /\ Pushed(Going, Going', Sent2VNC("ProxyDisconnect", b))
               \/ Forward(b) /\ Pushed(Going, Going', Sent2VNC("Proxy", b))
        <5>1. GoingOptions
          BY GoingStep
        <5> QED BY <4>1, <4>2, <5>1, Zenon DEF GoingOptions
      <4>4. Forward(b) /\ c = [type |-> "Proxy", fd |-> fdOf[b], seq |-> sendSeq, of |-> b]
        <5>1. c = Sent2VNC("ProxyDisconnect", b) \/ (Forward(b) /\ c = Sent2VNC("Proxy", b))
          BY <1>b, <2>1, <3>2, <4>3, FlowElements
        <5> QED BY <2>1, <5>1 DEF Sent2VNC
      <4>5. /\ packets[b] > 0 /\ sendSeq' = sendSeq + 1 /\ UNCHANGED fdOf
            /\ \/ DoneWith(b) /\ CloseIfDone(b)
               \/ tasks' = [tasks EXCEPT ![b] = @ \cup {sendSeq}]
        BY <4>4 DEF Forward, SendClient2VNC
      <4>6. b \in Browsers /\ phase[b] # "closed" /\ sendSeq \in Nat
        <5>1. b \in Browsers /\ sendSeq \in Nat
          BY <1>b, AcceptedFacts DEF TypeInv, VNCType
        <5> QED BY <4>5, <5>1 DEF PhaseInv
      <4>7. phase'[b] # "closed" => sendSeq \in tasks'[b]
        BY <1>b, <4>5, <4>6 DEF DoneWith, BrowsersType
      <4>8. ASSUME NEW d \in DOMAIN fdOf', fdOf'[d] = fdOf[b], d # b
            PROVE  sendSeq \notin tasks'[d]
        <5>1. d \in Browsers /\ phase[d] = "closed"
          BY <1>b, <4>5, <4>6, <4>8, AcceptedFacts DEF PhaseInv
        <5>2. tasks[d] = {}
          BY <5>1 DEF PhaseInv
        <5> QED BY <1>b, <4>5, <4>8, <5>1, <5>2 DEF DoneWith, BrowsersType
      <4>9. sendSeq < sendSeq'
        BY <4>5, <4>6
      <4> QED BY <4>4, <4>5, <4>7, <4>8, <4>9 DEF KnownThen
    <3> QED BY <3>1, <3>2
  <2>2. ASSUME NEW fd \in Fds, NEW b \in parser'[fd]
        PROVE  b \in DOMAIN fdOf' /\ fdOf'[b] = fd
    <3>1. CASE b \in parser[fd]
      BY <1>a, <1>d, <3>1
    <3>2. CASE b \notin parser[fd]
      <4>1. Parses
        BY <2>2, <3>2, GoingStep DEF GoingOptions, LinkLost, SendCommand, peer
      <4>2. pc[Receiver] = "parse" /\ parser' = [parser EXCEPT ![cmd.fd] = @ \cup {cmd.of}]
        BY <1>c, <2>2, <3>2, <4>1 DEF Parses, ParsedInPart, ParserFull, OnRecvProxyDisconnect,
                                      ParsedAll, Fed, At
      <4>3. b = cmd.of /\ fd = cmd.fd
        BY <1>c, <2>2, <3>2, <4>2
      <4>4. cmd \in Range(Going) /\ cmd.type = "Proxy"
        BY <4>2, InHandGoing
      <4>5. Known(cmd.fd, cmd.seq, cmd.of)
        BY <1>a, <4>4
      <4> QED BY <1>d, <4>3, <4>5 DEF Known
    <3> QED BY <3>1, <3>2
  <2>3. ASSUME NEW r \in Requests, pc'[r] # "none"
        PROVE  /\ \E b \in Browsers : request'[r].of = {b}
               /\ \A q \in {request'[r]} :
                     pc'[r] \notin {"none", "deleted"} => \A b \in q.of : KnownThen(q.fd, q.seq, b)
    <3>1. CASE Begins(r)
      <4>1. /\ pc[Receiver] = "parse" /\ request'[r].of = parser[cmd.fd] \cup {cmd.of}
            /\ request'[r].fd = cmd.fd /\ request'[r].seq = cmd.seq
        BY <3>1 DEF Begins
      <4>2. parser[cmd.fd] \subseteq {cmd.of}
        BY <4>1 DEF ErasedInv
      <4>3. cmd \in Range(Going) /\ cmd.type = "Proxy" /\ cmd.of \in Browsers /\ cmd.seq \in Nat
        BY <4>1, InHandGoing DEF ToPeer
      <4>4. KnownThen(cmd.fd, cmd.seq, cmd.of)
        BY <1>a, <2>k, <4>3
      <4>5. request'[r].of = {cmd.of}
        BY <4>1, <4>2
      <4> QED BY <4>1, <4>3, <4>4, <4>5
    <3>2. CASE GoesOn(r)
      <4>1. /\ request'[r].of = request[r].of /\ request'[r].fd = request[r].fd
            /\ request'[r].seq = request[r].seq /\ pc[r] # "none"
            /\ pc[r] = "deleted" => pc'[r] = "deleted"
        BY <2>3, <3>2 DEF GoesOn
      <4>2. request[r].seq \in Nat
        BY <1>c
      <4>3. \E b \in Browsers : request'[r].of = {b}
        BY <1>a, <4>1
      <4>4. ASSUME pc'[r] \notin {"none", "deleted"}, NEW b \in request[r].of
            PROVE  KnownThen(request[r].fd, request[r].seq, b)
        <5>1. Known(request[r].fd, request[r].seq, b)
          BY <1>a, <4>1, <4>4
        <5> QED BY <2>k, <4>2, <5>1
      <4> QED BY <4>1, <4>3, <4>4
    <3> QED BY <3>1, <3>2, RequestLater
  <2>4. ASSUME NEW c \in Range(Coming'), c.type = "Proxy", NEW b \in c.of
        PROVE  KnownThen(c.fd, c.seq, b)
    <3>1. CASE c \in Range(Coming)
      BY <1>a, <2>4, <2>k, <2>t, <3>1
    <3>2. CASE c \notin Range(Coming)
      <4>1. PICK t \in Threads : SendWhole(t) /\ Pushed(Coming, Coming', Command(t))
        BY <1>b, <2>4, <3>2, ComingStep, FlowElements DEF ComingOptions
      <4>2. c = Command(t) /\ Sends(t)
        BY <1>b, <2>4, <3>2, <4>1, FlowElements DEF SendWhole
      <4>3. /\ t \in Requests /\ c.fd = request[t].fd /\ c.seq = request[t].seq
            /\ c.of = request[t].of /\ pc[t] \in {"send", "hangup"}
        BY <2>4, <4>2, SendsAnswer, ThreadFacts DEF Sends
      <4>4. Known(request[t].fd, request[t].seq, b) /\ request[t].seq \in Nat
        BY <1>a, <1>c, <2>4, <4>3
      <4> QED BY <2>k, <4>3, <4>4
    <3> QED BY <3>1, <3>2
  <2> HIDE DEF KnownThen
  <2>5. \A r \in Requests : \A q \in {request'[r]} :
            pc'[r] \notin {"none", "deleted"} => \A b \in q.of : KnownThen(q.fd, q.seq, b)
    BY <2>3
  <2>6. \A r \in Requests : pc'[r] # "none" => \E b \in Browsers : request'[r].of = {b}
    BY <2>3
  <2>7. \A c \in Range(Coming') : c.type = "Proxy" => \A b \in c.of : KnownThen(c.fd, c.seq, b)
    BY <2>4
  <2>8. \A c \in Range(Going') : c.type = "Proxy" => KnownThen(c.fd, c.seq, c.of)
    BY <2>1
  <2> QED BY <2>2, <2>5, <2>6, <2>7, <2>8
<1> QED BY <1>1, <1>2

-----------------------------------------------------------------------------
(***************************************************************************)
(* The bytes of a browser are erased before those of the next.             *)
(***************************************************************************)
HandOptions ==
    \/ pc'[Receiver] = pc[Receiver] /\ cmd' = cmd /\ excused \subseteq excused'
    \/ RecvCommand \/ Parses \/ Connect \/ RecvFails
    \/ SendWhole(Receiver) \/ SendFails(Receiver)

\* What the receiving thread does to the command in hand.
LEMMA HandStep ==
    ASSUME TypeInv, BrowsersType', PhaseInv, [Next]_vars
    PROVE  HandOptions
<1>a. PlacesType
  BY DEF TypeInv
<1>b. excused \subseteq excused'
  BY BrowsersLater
<1> USE DEF browsers, proxy, link, peer, ghosts, At, Goto
<1>e. ASSUME cmd' = cmd, pc'[Receiver] = pc[Receiver]
      PROVE  HandOptions
  BY <1>b, <1>e DEF HandOptions
<1>1. ASSUME NEW b \in DOMAIN fdOf,
             \/ RecvPacket(b) \/ BrowserLeaves(b) \/ OnDisconnect(b) \/ Forward(b) \/ TurnAway(b)
      PROVE  HandOptions
  BY <1>e, <1>1 DEF RecvPacket, BrowserLeaves, OnDisconnect, Forward, TurnAway
<1>2. CASE (\E fd \in Fds : Accept(fd)) \/ SendReply \/ SendCommand \/ RecvVNC
           \/ ReturnVNC2Client \/ ProxyDisconnect \/ OnDisconnectVNC \/ OnCloseVNC
           \/ LinkLost \/ UNCHANGED vars
  BY <1>e, <1>2 DEF Accept, SendReply, SendCommand, RecvVNC, ReturnVNC2Client, ProxyDisconnect,
                    OnDisconnectVNC, OnCloseVNC, LinkLost, vars
<1>3. CASE Connect \/ RecvFails \/ RecvCommand \/ Parses
  BY <1>3 DEF HandOptions
<1>4. ASSUME NEW r \in Requests,
             OnReceiveBody(r) \/ RequestEnds(r) \/ OnSuccessOrFail(r) \/ UnlockAndDelete(r)
      PROVE  HandOptions
  BY <1>a, <1>e, <1>4, ThreadFacts
     DEF OnReceiveBody, RequestEnds, OnSuccessOrFail, UnlockAndDelete, PlacesType
<1>5. ASSUME NEW t \in Threads, SendWhole(t) \/ SendFails(t)
      PROVE  HandOptions
  <2>1. CASE t = Receiver
    BY <1>5, <2>1 DEF HandOptions
  <2>2. CASE t # Receiver
    BY <1>a, <1>5, <1>e, <2>2, ThreadFacts DEF SendWhole, SendFails, Sent, PlacesType
  <2> QED BY <2>1, <2>2
<1>6. ASSUME NEW t \in Threads, SendPart(t) \/ SendBetween(t)
      PROVE  HandOptions
  BY <1>e, <1>6 DEF SendPart, SendBetween
<1> QED BY <1>1, <1>2, <1>3, <1>4, <1>5, <1>6
        DEF Next, Program, Environment, MainThread, Handlers, VNCMain, VNCHandler, Receive, Send,
            Parses

StaysOpen(b) == phase'[b] = "open" \/ OnDisconnect(b)

\* A browser that is open stays so until OnDisconnect.
LEMMA PhaseLater ==
    ASSUME TypeInv, PhaseInv, [Next]_vars, NEW b \in Browsers, phase[b] = "open"
    PROVE  StaysOpen(b)
<1>a. BrowsersType /\ RepliesType
  BY DEF TypeInv
<1>b. /\ DOMAIN fdOf = 1 .. Len(fdOf) /\ DOMAIN fdOf \subseteq Browsers /\ Len(fdOf) \in Nat
      /\ phase \in [Browsers -> {"new", "open", "leaving", "closed"}]
  BY <1>a, AcceptedFacts DEF BrowsersType
<1> USE DEF browsers, proxy, link, peer, ghosts
<1>1. ASSUME NEW fd \in Fds, Accept(fd)
      PROVE  StaysOpen(b)
  BY <1>1, <1>b DEF StaysOpen, Accept
<1>2. ASSUME NEW c \in DOMAIN fdOf, OnDisconnect(c)
      PROVE  StaysOpen(b)
  BY <1>2, <1>b DEF StaysOpen, OnDisconnect
<1>3. ASSUME NEW c, DoneWith(c)
      PROVE  StaysOpen(b)
  BY <1>3, <1>b DEF StaysOpen, DoneWith, CloseIfDone
<1>4. ASSUME NEW c \in DOMAIN fdOf, Forward(c) \/ TurnAway(c)
      PROVE  StaysOpen(b)
  BY <1>3, <1>4 DEF StaysOpen, Forward, TurnAway
<1>5. CASE SendReply
  BY <1>3, <1>5 DEF StaysOpen, SendReply
<1>6. CASE SendCommand \/ RecvVNC \/ ReturnVNC2Client \/ OnDisconnectVNC \/ ProxyDisconnect
           \/ OnCloseVNC \/ \E c \in DOMAIN fdOf : RecvPacket(c) \/ BrowserLeaves(c)
  BY <1>6 DEF StaysOpen, SendCommand, RecvVNC, ReturnVNC2Client, OnDisconnectVNC, ProxyDisconnect,
              OnCloseVNC, RecvPacket, BrowserLeaves
<1>7. CASE Connect \/ RecvFails \/ RecvCommand \/ LinkLost \/ UNCHANGED vars
  BY <1>7 DEF StaysOpen, Connect, RecvFails, RecvCommand, LinkLost, vars
<1>8. CASE Parses
  BY <1>8 DEF StaysOpen, Parses, ParsedInPart, ParserFull, OnRecvProxyDisconnect, ParsedAll
<1>9. ASSUME NEW r \in Requests,
             OnReceiveBody(r) \/ RequestEnds(r) \/ OnSuccessOrFail(r) \/ UnlockAndDelete(r)
      PROVE  StaysOpen(b)
  BY <1>9 DEF StaysOpen, OnReceiveBody, RequestEnds, OnSuccessOrFail, UnlockAndDelete
<1>10. ASSUME NEW t \in Threads, Send(t)
       PROVE  StaysOpen(b)
  BY <1>10 DEF StaysOpen, Send, SendWhole, SendFails, Sent, SendPart, SendBetween
<1> QED
  BY <1>1, <1>2, <1>4, <1>5, <1>6, <1>7, <1>8, <1>9, <1>10
     DEF Next, Program, Environment, MainThread, Handlers, VNCMain, VNCHandler, Receive, Parses

\* As long as the connection lasts, who leaves is announced to the peer.
LEMMA Announced ==
    ASSUME TypeInv, LinkInv, NEW b \in DOMAIN fdOf, OnDisconnect(b), alive, races' = {}
    PROVE  Pushed(Going, Going', Sent2VNC("ProxyDisconnect", b))
<1>1. vnc = "online"
  BY DEF LinkInv
<1>2. VNCIdle
  BY <1>1 DEF OnDisconnect, Enter
<1>3. SendClient2VNC("ProxyDisconnect", b) /\ UNCHANGED <<down, cmd, pc>>
  BY <1>1, <1>2 DEF OnDisconnect, CanSend, link, peer
<1>4. Sent2VNC("ProxyDisconnect", b) \in ToPeer
  BY <1>3, SendsCommand DEF Sent2VNC, TypeInv
<1>5. sending' = Append(sending, Sent2VNC("ProxyDisconnect", b))
  BY <1>3 DEF SendClient2VNC, Sent2VNC
<1>6. PICK c \in ToPeer : c = Sent2VNC("ProxyDisconnect", b)
  BY <1>4
<1> QED BY <1>3, <1>5, <1>6, GoingPushed

\* The parser that gets the command in hand has no bytes of another browser.
LEMMA ParserStep ==
    ASSUME TypeInv, LinkInv, PhaseInv, ErasedInv, TypeInv', [Next]_vars,
           pc'[Receiver] = "parse"
    PROVE  parser'[cmd'.fd] \subseteq {cmd'.of}
<1>a. PlacesType /\ BrowsersType' /\ LinkType /\ alive \in BOOLEAN
  BY DEF TypeInv, LinkType
<1>1. CASE RecvCommand
  <2>1. /\ pc[Receiver] = "recv" /\ down # <<>> /\ cmd' = Head(down) /\ UNCHANGED parser
        /\ pc' = [pc EXCEPT ![Receiver] = IF Head(down).type = "Proxy" THEN "parse" ELSE "erase"]
    BY <1>1 DEF RecvCommand, At, Goto
  <2>2. Head(down).type = "Proxy" /\ alive
    BY <1>a, <2>1, ThreadFacts DEF PlacesType, LinkInv
  <2>3. PICK h \in ToPeer : h = Head(down)
    BY <1>a, <2>1, HeadTailProperties DEF LinkType
  <2>4. /\ down \in Seq(ToPeer) /\ sending \in Seq(ToPeer) /\ InParser = <<>>
        /\ Going = InParser \o (down \o sending) /\ down \o sending \in Seq(ToPeer)
        /\ Going \in Seq(ToPeer)
    BY <2>1, FlowFacts DEF InParser
  <2>5. Going = down \o sending
    BY <2>4
  <2>6. Head(down \o sending) = Head(down) /\ down \o sending # <<>>
    BY <2>1, <2>4, HeadTaken
  <2>7. Going[1] = h /\ 1 \in DOMAIN Going
    BY <2>3, <2>4, <2>5, <2>6
  <2>8. Packet(1, h.fd, h.of) /\ h.fd \in Fds /\ h.of \in Browsers
    BY <2>2, <2>3, <2>7 DEF Packet, ToPeer
  <2>9. \A c \in parser[h.fd] \ {h.of} : \E k \in 1 .. 1 - 1 : Erases(k, h.fd)
    BY <2>2, <2>7, <2>8 DEF ErasedInv
  <2>10. 1 .. 1 - 1 = {}
    OBVIOUS
  <2> QED BY <2>1, <2>3, <2>9, <2>10
<1>2. CASE ~ RecvCommand
  <2>1. pc[Receiver] = "parse" /\ cmd' = cmd
    BY <1>2, <1>a, HandStep, ThreadFacts
       DEF HandOptions, Parses, ParsedInPart, ParserFull, OnRecvProxyDisconnect, ParsedAll,
           Connect, RecvFails, SendWhole, SendFails, Sent, AfterSend, At, Goto, PlacesType
  <2>2. ~ Parses
    BY <1>a, ThreadFacts
       DEF Parses, ParsedInPart, ParserFull, OnRecvProxyDisconnect, ParsedAll, At, Goto, PlacesType
  <2>3. parser' = parser
    <3>1. GoingOptions
      BY GoingStep
    <3> QED BY <2>2, <3>1 DEF GoingOptions, LinkLost, SendCommand, peer
  <2> QED BY <2>1, <2>3 DEF ErasedInv
<1> QED BY <1>1, <1>2

-----------------------------------------------------------------------------
(***************************************************************************)
(* What ErasedInv says of a sequence of commands g and the browsers s      *)
(* whose bytes the parser of fd has.                                       *)
(***************************************************************************)
PacketIn(g, i, fd, b) == i \in DOMAIN g /\ g[i].type = "Proxy" /\ g[i].fd = fd /\ g[i].of = b
ErasesIn(g, i, fd)    == i \in DOMAIN g /\ g[i].type = "ProxyDisconnect" /\ g[i].fd = fd

CleanIn(g, s, i, fd, b) ==
    /\ \A c \in s \ {b} : \E k \in 1 .. i - 1 : ErasesIn(g, k, fd)
    /\ \A j \in 1 .. i - 1, c \in Browsers \ {b} :
          PacketIn(g, j, fd, c) => \E k \in j + 1 .. i - 1 : ErasesIn(g, k, fd)

LeftIn(g, s, fd, b) ==
    /\ b \in s => \E k \in DOMAIN g : ErasesIn(g, k, fd)
    /\ \A j \in DOMAIN g : PacketIn(g, j, fd, b) => \E k \in DOMAIN g : k > j /\ ErasesIn(g, k, fd)

\* Indices are shifted by one when the oldest command is taken.
LEMMA ShiftFacts ==
    ASSUME NEW g \in Seq(ToPeer), NEW h \in Seq(ToPeer), Popped(g, h)
    PROVE  /\ \A i \in DOMAIN h : i \in Nat /\ i > 0 /\ i + 1 \in DOMAIN g
           /\ \A k \in DOMAIN g : k \in Nat /\ (k # 1 => k - 1 \in DOMAIN h /\ k - 1 > 0)
           /\ \A i, fd, b : PacketIn(h, i, fd, b) => PacketIn(g, i + 1, fd, b)
           /\ \A k, fd : ErasesIn(g, k, fd) /\ k # 1 => ErasesIn(h, k - 1, fd)
<1>1. DOMAIN g = 1 .. Len(g) /\ DOMAIN h = 1 .. Len(h) /\ Len(g) \in Nat /\ Len(h) \in Nat
  OBVIOUS
<1>2. Len(h) = Len(g) - 1
  BY DEF Popped
<1>3. \A i \in DOMAIN h : i \in Nat /\ i > 0 /\ i + 1 \in DOMAIN g /\ h[i] = g[i + 1]
  BY <1>1, <1>2 DEF Popped
<1>4. \A k \in DOMAIN g : k \in Nat /\ (k # 1 => k - 1 \in DOMAIN h /\ k - 1 > 0
                                                  /\ h[k - 1] = g[k])
  BY <1>1, <1>2 DEF Popped
<1> QED BY <1>3, <1>4 DEF PacketIn, ErasesIn

\* What comes before a packet stays clean when the oldest command is done.
LEMMA CleanPopped ==
    ASSUME NEW g \in Seq(ToPeer), NEW h \in Seq(ToPeer), Popped(g, h), NEW s, NEW t,
           NEW i \in DOMAIN h, NEW fd, NEW b, CleanIn(g, s, i + 1, fd, b),
           \A c \in t : c \in s \/ (PacketIn(g, 1, fd, c) /\ c \in Browsers),
           ErasesIn(g, 1, fd) => t = {}
    PROVE  CleanIn(h, t, i, fd, b)
<1>1. i \in Nat /\ i > 0
  BY ShiftFacts
<1>2. \A a \in Nat : \A k \in a .. i : k # 1 => k \in Nat /\ k - 1 \in a - 1 .. i - 1
  BY <1>1
<1>3. i + 1 - 1 = i /\ (i + 1) - 1 = i
  BY <1>1
<1>4. ASSUME NEW c \in t \ {b}
      PROVE  \E k \in 1 .. i - 1 : ErasesIn(h, k, fd)
  <2>1. ~ ErasesIn(g, 1, fd)
    BY <1>4
  <2>2. CASE c \in s
    <3>1. PICK k \in 1 .. i : ErasesIn(g, k, fd)
      BY <1>3, <1>4, <2>2 DEF CleanIn
    <3>2. k # 1 /\ ErasesIn(h, k - 1, fd)
      BY <2>1, <3>1, ShiftFacts
    <3>3. k - 1 \in 1 .. i - 1
      BY <1>1, <3>1, <3>2
    <3> QED BY <3>2, <3>3
  <2>3. CASE PacketIn(g, 1, fd, c) /\ c \in Browsers
    <3>1. 1 \in 1 .. i /\ c \in Browsers \ {b} /\ 1 + 1 = 2
      BY <1>1, <1>4, <2>3
    <3>2. PICK k \in 2 .. i : ErasesIn(g, k, fd)
      BY <1>3, <2>3, <3>1 DEF CleanIn
    <3>3. k # 1 /\ k - 1 \in 1 .. i - 1
      BY <1>1, <3>2
    <3>4. ErasesIn(h, k - 1, fd)
      BY <3>2, <3>3, ShiftFacts
    <3> QED BY <3>3, <3>4
  <2> QED BY <1>4, <2>2, <2>3
<1>5. ASSUME NEW j \in 1 .. i - 1, NEW c \in Browsers \ {b}, PacketIn(h, j, fd, c)
      PROVE  \E k \in j + 1 .. i - 1 : ErasesIn(h, k, fd)
  <2>1. j \in Nat /\ j + 1 \in 1 .. i
    BY <1>1
  <2>2. PacketIn(g, j + 1, fd, c)
    BY <1>5, ShiftFacts
  <2>3. PICK k \in (j + 1) + 1 .. i : ErasesIn(g, k, fd)
    BY <1>3, <2>1, <2>2 DEF CleanIn
  <2>4. k # 1 /\ k - 1 \in j + 1 .. i - 1
    BY <1>1, <2>1, <2>3
  <2>5. ErasesIn(h, k - 1, fd)
    BY <2>3, <2>4, ShiftFacts
  <2> QED BY <2>4, <2>5
<1> QED BY <1>4, <1>5 DEF CleanIn

\* So does what comes for the bytes of a browser that left.
LEMMA LeftPopped ==
    ASSUME NEW g \in Seq(ToPeer), NEW h \in Seq(ToPeer), Popped(g, h), NEW s, NEW t,
           NEW fd, NEW b, LeftIn(g, s, fd, b),
           b \in t => b \in s \/ PacketIn(g, 1, fd, b),
           ErasesIn(g, 1, fd) => t = {}
    PROVE  LeftIn(h, t, fd, b)
<1>1. ASSUME b \in t
      PROVE  \E k \in DOMAIN h : ErasesIn(h, k, fd)
  <2>1. ~ ErasesIn(g, 1, fd)
    BY <1>1
  <2>2. PICK k \in DOMAIN g : ErasesIn(g, k, fd)
    BY <1>1 DEF LeftIn, PacketIn
  <2>3. k # 1
    BY <2>1, <2>2
  <2> QED BY <2>2, <2>3, ShiftFacts
<1>2. ASSUME NEW j \in DOMAIN h, PacketIn(h, j, fd, b)
      PROVE  \E k \in DOMAIN h : k > j /\ ErasesIn(h, k, fd)
  <2>1. j \in Nat /\ j > 0 /\ PacketIn(g, j + 1, fd, b) /\ j + 1 \in DOMAIN g
    BY <1>2, ShiftFacts
  <2>2. PICK k \in DOMAIN g : k > j + 1 /\ ErasesIn(g, k, fd)
    BY <2>1 DEF LeftIn
  <2>3. k \in Nat
    BY ShiftFacts
  <2>4. k # 1 /\ k - 1 > j
    BY <2>1, <2>2, <2>3
  <2>5. k - 1 \in DOMAIN h /\ ErasesIn(h, k - 1, fd)
    BY <2>2, <2>4, ShiftFacts
  <2> QED BY <2>4, <2>5
<1> QED BY <1>1, <1>2 DEF LeftIn

\* A new command changes nothing for those before it.
LEMMA CleanPushed ==
    ASSUME NEW g \in Seq(ToPeer), NEW h \in Seq(ToPeer), NEW x, Pushed(g, h, x), NEW s,
           NEW i \in DOMAIN g, NEW fd, NEW b, CleanIn(g, s, i, fd, b)
    PROVE  CleanIn(h, s, i, fd, b)
<1>1. DOMAIN g = 1 .. Len(g) /\ Len(g) \in Nat
  OBVIOUS
<1>2. \A j \in 1 .. i - 1 : j \in DOMAIN g
  BY <1>1
<1>3. \A k, e : ErasesIn(g, k, e) => ErasesIn(h, k, e)
  BY DEF Pushed, ErasesIn
<1>4. \A j \in DOMAIN g : \A c : PacketIn(h, j, fd, c) => PacketIn(g, j, fd, c)
  BY DEF Pushed, PacketIn
<1> QED BY <1>2, <1>3, <1>4 DEF CleanIn

\* Nor for a browser that left, if it is not a packet of its own.
LEMMA LeftPushed ==
    ASSUME NEW g \in Seq(ToPeer), NEW h \in Seq(ToPeer), NEW x, Pushed(g, h, x), NEW s,
           NEW fd, NEW b, LeftIn(g, s, fd, b), x.type = "Proxy" => x.of # b
    PROVE  LeftIn(h, s, fd, b)
<1>1. \A k, e : ErasesIn(g, k, e) => ErasesIn(h, k, e)
  BY DEF Pushed, ErasesIn
<1>2. \A j : PacketIn(h, j, fd, b) => PacketIn(g, j, fd, b) /\ j \in DOMAIN g
  BY DEF Pushed, PacketIn
<1>3. DOMAIN g \subseteq DOMAIN h
  BY DEF Pushed
<1> QED BY <1>1, <1>2, <1>3 DEF LeftIn

\* After a step they are sequences as well.
LEMMA FlowLater ==
    ASSUME TypeInv'
    PROVE  /\ Going' \in Seq(ToPeer) /\ Coming' \in Seq(Answers)
           /\ DOMAIN Coming' = 1 .. Len(Coming') /\ Len(Coming') \in Nat /\ Len(Coming') <= Room
<1>1. /\ down' \in Seq(ToPeer) /\ sending' \in Seq(ToPeer)
      /\ handling' \in Seq(Answers) /\ up' \in Seq(Answers)
      /\ Len(sending') + Len(handling') <= VNCPool /\ Len(up') <= UpRoom
  BY DEF TypeInv, VNCType, LinkType
<1>2. InParser' \in Seq(ToPeer)
  BY DEF InParser, TypeInv, RequestsType, InHand
<1>3. PICK d \in Seq(ToPeer), e \in Seq(ToPeer), p \in Seq(ToPeer) :
        d = down' /\ e = sending' /\ p = InParser'
  BY <1>1, <1>2
<1>4. Going' = p \o (d \o e)
  BY <1>3 DEF Going, InParser
<1>5. PICK a \in Seq(Answers), b \in Seq(Answers) : a = handling' /\ b = up'
  BY <1>1
<1>6. Coming' = a \o b
  BY <1>5 DEF Coming
<1>7. Len(a \o b) = Len(a) + Len(b) /\ a \o b \in Seq(Answers) /\ p \o (d \o e) \in Seq(ToPeer)
  BY ConcatProperties
<1>8. Len(a) + Len(e) <= VNCPool /\ Len(b) <= UpRoom /\ Len(a) \in Nat /\ Len(b) \in Nat
      /\ Len(e) \in Nat
  BY <1>1, <1>3, <1>5
<1>9. Len(a \o b) <= Room
  BY <1>7, <1>8, BoundFacts DEF Room
<1> QED BY <1>4, <1>6, <1>7, <1>9

\* ErasedInv, in these words.
LEMMA ErasedFacts ==
    ASSUME ErasedInv
    PROVE  alive =>
             /\ \A i \in DOMAIN Going, fd \in Fds, b \in Browsers :
                   PacketIn(Going, i, fd, b) => CleanIn(Going, parser[fd], i, fd, b)
             /\ \A b \in DOMAIN fdOf, fd \in Fds :
                   fdOf[b] = fd /\ phase[b] # "open" => LeftIn(Going, parser[fd], fd, b)
<1>1. ASSUME alive, NEW i \in DOMAIN Going, NEW fd \in Fds, NEW b \in Browsers,
             PacketIn(Going, i, fd, b)
      PROVE  CleanIn(Going, parser[fd], i, fd, b)
  BY <1>1 DEF ErasedInv, PacketIn, ErasesIn, CleanIn, Packet, Erases
<1>2. ASSUME alive, NEW b \in DOMAIN fdOf, NEW fd \in Fds, fdOf[b] = fd, phase[b] # "open"
      PROVE  LeftIn(Going, parser[fd], fd, b)
  BY <1>2 DEF ErasedInv, PacketIn, ErasesIn, LeftIn, Packet, Erases
<1> QED BY <1>1, <1>2

\* Who is no longer open was there before, and has left or leaves now.
LEMMA LeftBefore ==
    ASSUME TypeInv, LinkInv, PhaseInv, BrowsersType', [Next]_vars, races' = {}, alive,
           NEW b \in DOMAIN fdOf', phase'[b] # "open"
    PROVE  /\ b \in DOMAIN fdOf /\ fdOf'[b] = fdOf[b] /\ b \in Browsers /\ fdOf[b] \in Fds
           /\ \/ phase[b] # "open"
              \/ OnDisconnect(b) /\ Pushed(Going, Going', Sent2VNC("ProxyDisconnect", b))
<1>1. BrowsersType
  BY DEF TypeInv
<1>2. b \in DOMAIN fdOf /\ fdOf'[b] = fdOf[b]
  BY BrowsersLater
<1>3. b \in Browsers /\ fdOf[b] \in Fds
  BY <1>1, <1>2, AcceptedFacts
<1>4. phase[b] = "open" => OnDisconnect(b)
  BY <1>3, PhaseLater DEF StaysOpen
<1> QED BY <1>2, <1>3, <1>4, Announced

\* A connection lasts, or is lost, or begins.
LEMMA AliveStep ==
    ASSUME [Next]_vars, alive'
    PROVE  (alive \/ Connect) /\ ~ LinkLost
<1> USE DEF browsers, proxy, link, peer, ghosts
<1>1. CASE MainThread \/ Handlers \/ SendReply \/ VNCMain \/ VNCHandler
  BY <1>1 DEF MainThread, Handlers, VNCMain, VNCHandler, OnDisconnect, Forward, TurnAway, SendReply,
              RecvVNC, OnDisconnectVNC, ReturnVNC2Client, ProxyDisconnect, OnCloseVNC, LinkLost
<1>2. CASE SendCommand \/ Receive \/ Connect \/ LinkLost \/ UNCHANGED vars
  BY <1>2 DEF Receive, SendCommand, Connect, LinkLost, RecvFails, RecvCommand, ParsedInPart,
              ParsedAll, ParserFull, OnRecvProxyDisconnect, vars
<1>3. CASE \E t \in Threads : Send(t)
  BY <1>3 DEF Send, SendWhole, SendPart, SendBetween, SendFails, Sent, LinkLost
<1>4. CASE \E r \in Requests : OnSuccessOrFail(r) \/ UnlockAndDelete(r)
           \/ OnReceiveBody(r) \/ RequestEnds(r)
  BY <1>4 DEF OnSuccessOrFail, UnlockAndDelete, OnReceiveBody, RequestEnds, LinkLost
<1>5. CASE (\E fd \in Fds : Accept(fd)) \/ \E b \in DOMAIN fdOf : RecvPacket(b) \/ BrowserLeaves(b)
  BY <1>5 DEF Accept, RecvPacket, BrowserLeaves, LinkLost
<1> QED BY <1>1, <1>2, <1>3, <1>4, <1>5 DEF Next, Program, Environment

\* What the parser of a descriptor has after the command in hand is done.
LEMMA ParsedStep ==
    ASSUME TypeInv, Parses, NEW fd \in Fds
    PROVE  /\ pc[Receiver] \in {"parse", "erase"} /\ cmd \in ToPeer
           /\ \A c \in parser'[fd] : c \in parser[fd] \/
                 (cmd.type = "Proxy" /\ cmd.fd = fd /\ cmd.of = c /\ c \in Browsers)
           /\ cmd.type = "ProxyDisconnect" /\ cmd.fd = fd => parser'[fd] = {}
<1>1. pc[Receiver] \in {"parse", "erase"}
  BY DEF Parses, ParsedInPart, ParsedAll, ParserFull, OnRecvProxyDisconnect, At
<1>2. cmd \in ToPeer /\ (cmd.type = "Proxy" <=> pc[Receiver] = "parse")
  BY <1>1, InHandGoing
<1>3. parser \in [Fds -> SUBSET Browsers] /\ cmd.fd \in Fds /\ cmd.of \in Browsers
  BY <1>2 DEF TypeInv, RequestsType, ToPeer
<1>4. CASE OnRecvProxyDisconnect
  BY <1>1, <1>2, <1>3, <1>4 DEF OnRecvProxyDisconnect
<1>5. CASE ~ OnRecvProxyDisconnect
  <2>1. pc[Receiver] = "parse" /\ (parser' = parser \/ parser' = Fed)
    BY <1>5 DEF Parses, ParsedInPart, ParsedAll, ParserFull, At
  <2> QED BY <1>2, <1>3, <2>1 DEF Fed
<1> QED BY <1>1, <1>2, <1>4, <1>5

\* The bytes of a browser are erased before a parser gets those of another.
LEMMA ErasedInvStep ==
    ASSUME TypeInv, LinkInv, PhaseInv, KnownInv, ErasedInv, TypeInv', [Next]_vars, races' = {}
    PROVE  ErasedInv'
<1> DEFINE g == Going
           h == Going'
           CleanThen(i, fd, b) == CleanIn(Going', parser'[fd], i, fd, b)
           LeftThen(fd, b)     == LeftIn(Going', parser'[fd], fd, b)
<1>a. BrowsersType /\ BrowsersType'
  BY DEF TypeInv
<1>b. /\ Going \in Seq(ToPeer) /\ Going' \in Seq(ToPeer)
      /\ DOMAIN Going = 1 .. Len(Going) /\ Len(Going) \in Nat
  BY FlowFacts, FlowLater
<1>c. pc'[Receiver] = "parse" => parser'[cmd'.fd] \subseteq {cmd'.of}
  BY ParserStep
<1>1. ASSUME alive', NEW i \in DOMAIN Going', NEW fd \in Fds, NEW b \in Browsers,
             PacketIn(Going', i, fd, b)
      PROVE  CleanThen(i, fd, b)
  <2>1. CASE Connect
    BY <1>1, <2>1, ConnectEmpty
  <2>2. CASE alive /\ Going' = Going /\ parser' = parser
    BY <1>1, <2>2, ErasedFacts
  <2>3. ASSUME NEW c \in DOMAIN fdOf, alive, OnDisconnect(c), parser' = parser,
               Pushed(Going, Going', Sent2VNC("ProxyDisconnect", c))
        PROVE  CleanThen(i, fd, b)
    <3>1. i \in DOMAIN Going /\ PacketIn(Going, i, fd, b)
      BY <1>1, <2>3 DEF PacketIn, Pushed, Sent2VNC
    <3>2. CleanIn(Going, parser[fd], i, fd, b)
      BY <2>3, <3>1, ErasedFacts
    <3> QED BY <1>b, <2>3, <3>1, <3>2, CleanPushed
  <2>4. ASSUME NEW c \in DOMAIN fdOf, alive, Forward(c), parser' = parser,
               Pushed(Going, Going', Sent2VNC("Proxy", c))
        PROVE  CleanThen(i, fd, b)
    <3>1. CASE i \in DOMAIN Going
      <4>1. PacketIn(Going, i, fd, b)
        BY <1>1, <2>4, <3>1 DEF PacketIn, Pushed
      <4>2. CleanIn(Going, parser[fd], i, fd, b)
        BY <2>4, <3>1, <4>1, ErasedFacts
      <4> QED BY <1>b, <2>4, <3>1, <4>2, CleanPushed
    <3>2. CASE i \notin DOMAIN Going
      <4>1. i = Len(Going) + 1 /\ b = c /\ fd = fdOf[c]
        BY <1>1, <2>4, <3>2 DEF PacketIn, Pushed, Sent2VNC
      <4>2. packets[c] > 0 /\ phase[c] # "leaving"
        BY <2>4 DEF Forward, Enter
      <4>3. phase[c] # "closed"
        BY <1>1, <4>1, <4>2 DEF PhaseInv
      <4>4. ASSUME NEW e \in DOMAIN fdOf, fdOf[e] = fd, e # b
            PROVE  LeftIn(Going, parser[fd], fd, e)
        <5>1. phase[e] = "closed"
          BY <4>1, <4>3, <4>4 DEF PhaseInv
        <5> QED BY <2>4, <4>4, <5>1, ErasedFacts
      <4>5. \A k \in DOMAIN Going : k \in 1 .. i - 1 /\ (ErasesIn(Going, k, fd)
                                                            => ErasesIn(Going', k, fd))
        <5>1. \A k \in DOMAIN Going : k \in 1 .. i - 1
          BY <1>b, <4>1
        <5> QED BY <2>4, <5>1 DEF Pushed, ErasesIn
      <4>6. ASSUME NEW e \in parser'[fd] \ {b}
            PROVE  \E k \in 1 .. i - 1 : ErasesIn(Going', k, fd)
        <5>1. e \in parser[fd] /\ e \in DOMAIN fdOf /\ fdOf[e] = fd /\ e # b
          BY <2>4, <4>6 DEF KnownInv
        <5>2. \E k \in DOMAIN Going : ErasesIn(Going, k, fd)
          BY <4>4, <5>1 DEF LeftIn
        <5> QED BY <4>5, <5>2
      <4>7. ASSUME NEW j \in 1 .. i - 1, NEW e \in Browsers \ {b}, PacketIn(Going', j, fd, e)
            PROVE  \E k \in j + 1 .. i - 1 : ErasesIn(Going', k, fd)
        <5>1. j \in DOMAIN Going
          BY <1>b, <4>1
        <5>2. PacketIn(Going, j, fd, e) /\ Going[j] \in Range(Going)
          BY <2>4, <4>7, <5>1 DEF PacketIn, Pushed, Range
        <5>3. Known(fd, Going[j].seq, e)
          BY <5>2 DEF KnownInv, PacketIn
        <5>4. e \in DOMAIN fdOf /\ fdOf[e] = fd /\ e # b
          BY <5>3 DEF Known
        <5>5. PICK k \in DOMAIN Going : k > j /\ ErasesIn(Going, k, fd)
          BY <4>4, <5>1, <5>2, <5>4 DEF LeftIn
        <5>6. k \in j + 1 .. i - 1
          BY <1>b, <4>1, <5>5
        <5> QED BY <4>5, <5>5, <5>6
      <4> QED BY <4>6, <4>7 DEF CleanIn
    <3> QED BY <3>1, <3>2
  <2>5. CASE alive /\ Parses /\ Popped(Going, Going') /\ Going[1] = cmd
    <3>1. i + 1 \in DOMAIN Going /\ PacketIn(Going, i + 1, fd, b) /\ 1 \in DOMAIN Going
      BY <1>1, <1>b, <2>5, ShiftFacts DEF Popped
    <3>2. CleanIn(Going, parser[fd], i + 1, fd, b)
      BY <2>5, <3>1, ErasedFacts
    <3>3. \A c \in parser'[fd] : c \in parser[fd] \/ (PacketIn(Going, 1, fd, c) /\ c \in Browsers)
      BY <2>5, <3>1, ParsedStep DEF PacketIn
    <3>4. ErasesIn(Going, 1, fd) => parser'[fd] = {}
      BY <2>5, ParsedStep DEF ErasesIn
    <3> QED BY <1>1, <1>b, <2>5, <3>2, <3>3, <3>4, CleanPopped
  <2>6. alive \/ Connect
    BY <1>1, AliveStep
  <2>7. CASE alive
    <3>1. GoingOptions /\ ~ LinkLost
      BY <1>1, GoingStep, AliveStep
    <3> QED BY <2>2, <2>3, <2>4, <2>5, <2>7, <3>1, Zenon DEF GoingOptions
  <2> QED BY <2>1, <2>6, <2>7
<1>2. ASSUME alive', NEW b \in DOMAIN fdOf', NEW fd \in Fds, fdOf'[b] = fd, phase'[b] # "open"
      PROVE  LeftThen(fd, b)
  <2>1. CASE Connect
    <3>1. DOMAIN Going' = {} /\ parser' = parser /\ parser[fd] = {}
      BY <2>1, ConnectEmpty DEF Connect
    <3> QED BY <3>1 DEF LeftIn
  <2>2. CASE alive
    <3>1. b \in DOMAIN fdOf /\ fdOf[b] = fd /\ b \in Browsers
      BY <1>2, <1>a, <2>2, LeftBefore
    <3>2. \/ phase[b] # "open"
          \/ OnDisconnect(b) /\ Pushed(Going, Going', Sent2VNC("ProxyDisconnect", b))
      BY <1>2, <1>a, <2>2, LeftBefore
    <3>3. CASE OnDisconnect(b) /\ Pushed(Going, Going', Sent2VNC("ProxyDisconnect", b))
      <4>1. ErasesIn(Going', Len(Going) + 1, fd)
        BY <3>1, <3>3 DEF Pushed, Sent2VNC, ErasesIn
      <4>2. ASSUME NEW j \in DOMAIN Going', PacketIn(Going', j, fd, b)
            PROVE  Len(Going) + 1 > j
        <5>1. j # Len(Going) + 1
          BY <4>1, <4>2 DEF ErasesIn, PacketIn
        <5>2. j \in 1 .. Len(Going)
          BY <1>b, <3>3, <5>1 DEF Pushed
        <5> QED BY <1>b, <5>2
      <4> QED BY <4>1, <4>2 DEF LeftIn, ErasesIn
    <3>4. CASE phase[b] # "open"
      <4>1. LeftIn(Going, parser[fd], fd, b)
        BY <2>2, <3>1, <3>4, ErasedFacts
      <4>2. CASE Going' = Going /\ parser' = parser
        BY <4>1, <4>2
      <4>3. ASSUME NEW c \in DOMAIN fdOf, OnDisconnect(c), parser' = parser,
                   Pushed(Going, Going', Sent2VNC("ProxyDisconnect", c))
            PROVE  LeftThen(fd, b)
        <5>1. Sent2VNC("ProxyDisconnect", c).type # "Proxy"
          BY DEF Sent2VNC
        <5> QED BY <1>b, <4>1, <4>3, <5>1, LeftPushed
      <4>4. ASSUME NEW c \in DOMAIN fdOf, Forward(c), parser' = parser,
                   Pushed(Going, Going', Sent2VNC("Proxy", c))
            PROVE  LeftThen(fd, b)
        <5>1. packets[c] > 0 /\ phase[c] # "leaving" /\ c \in Browsers
          BY <1>a, <4>4, AcceptedFacts DEF Forward, Enter
        <5>2. phase[c] = "open"
          BY <1>a, <5>1 DEF PhaseInv, BrowsersType
        <5>3. Sent2VNC("Proxy", c).of # b
          BY <3>4, <5>2 DEF Sent2VNC
        <5> QED BY <1>b, <4>1, <4>4, <5>3, LeftPushed
      <4>5. CASE Parses /\ Popped(Going, Going') /\ Going[1] = cmd
        <5>1. 1 \in DOMAIN Going
          BY <4>5 DEF Popped
        <5>2. b \in parser'[fd] => b \in parser[fd] \/ PacketIn(Going, 1, fd, b)
          BY <4>5, <5>1, ParsedStep DEF PacketIn
        <5>3. ErasesIn(Going, 1, fd) => parser'[fd] = {}
          BY <4>5, ParsedStep DEF ErasesIn
        <5> QED BY <1>b, <4>1, <4>5, <5>2, <5>3, LeftPopped
      <4>6. GoingOptions /\ ~ LinkLost
        BY <1>2, GoingStep, AliveStep
      <4> QED BY <2>2, <4>2, <4>3, <4>4, <4>5, <4>6, Zenon DEF GoingOptions
    <3> QED BY <3>2, <3>3, <3>4
  <2> QED BY <1>2, <2>1, <2>2, AliveStep
<1>3. ASSUME alive', NEW i \in DOMAIN Going', NEW fd \in Fds, NEW b \in Browsers,
             (Packet(i, fd, b))'
      PROVE  /\ \A c \in parser'[fd] \ {b} : \E k \in 1 .. i - 1 : (Erases(k, fd))'
             /\ \A j \in 1 .. i - 1, c \in Browsers \ {b} :
                   (Packet(j, fd, c))' => \E k \in j + 1 .. i - 1 : (Erases(k, fd))'
  <2>1. CleanThen(i, fd, b)
    BY <1>1, <1>3 DEF Packet, PacketIn
  <2> QED BY <2>1 DEF CleanIn, PacketIn, ErasesIn, Packet, Erases
<1>4. ASSUME alive', NEW b \in DOMAIN fdOf', NEW fd \in Fds, fdOf'[b] = fd, phase'[b] # "open"
      PROVE  /\ b \in parser'[fd] => \E k \in DOMAIN Going' : (Erases(k, fd))'
             /\ \A j \in DOMAIN Going' : (Packet(j, fd, b))' =>
                   \E k \in DOMAIN Going' : k > j /\ (Erases(k, fd))'
  <2>1. LeftThen(fd, b)
    BY <1>2, <1>4
  <2> QED BY <2>1 DEF LeftIn, PacketIn, ErasesIn, Packet, Erases
<1> QED BY <1>c, <1>3, <1>4 DEF ErasedInv

-----------------------------------------------------------------------------
(***************************************************************************)
(* The kinds of steps, by what they do to the pieces of answers.           *)
(***************************************************************************)
Keeps == Coming' = Coming /\ UNCHANGED <<replies, heard, dropped>>

Hears(m) ==
    /\ SendReply /\ Coming' = Coming /\ dropped' = dropped
    /\ Popped(replies, replies') /\ replies[1] = m /\ m \in Replies
    /\ \/ m.to \in gone /\ heard' = heard
       \/ m.to \notin gone /\ heard' = [heard EXCEPT ![m.to] = Append(@, <<m.request, m.piece>>)]

Returns(c, b) ==
    /\ ReturnVNC2Client /\ Popped(Coming, Coming') /\ Coming[1] = c /\ c \in Pieces
    /\ c.of = {b} /\ request[c.request].of = {b} /\ b \in Browsers /\ heard' = heard
    /\ \/ /\ Pushed(replies, replies', [to |-> b, request |-> c.request, piece |-> c.piece])
          /\ dropped' = dropped /\ phase[b] # "closed"
       \/ replies' = replies /\ dropped' = dropped \cup {<<c.request, c.piece>>}
       \/ replies' = replies /\ dropped' = dropped /\ phase[b] = "closed"

Closes(c) ==
    /\ ProxyDisconnect /\ Popped(Coming, Coming') /\ Coming[1] = c /\ c = Head(handling)
    /\ c \in Closings /\ UNCHANGED <<replies, heard, dropped>>

Writes(t) ==
    /\ SendWhole(t) /\ Pushed(Coming, Coming', Command(t)) /\ UNCHANGED <<replies, heard, dropped>>

Loses == LinkLost /\ Cut(Coming, Coming') /\ UNCHANGED <<replies, heard, dropped>>

AnswerOptions ==
    \/ Keeps \/ Loses
    \/ \E m \in Replies : Hears(m)
    \/ \E c \in Pieces, b \in Browsers : Returns(c, b)
    \/ \E c \in Closings : Closes(c)
    \/ \E t \in Threads : Writes(t)

\* Whose request it is does not change.
LEMMA OfLater ==
    ASSUME TypeInv, TypeInv', [Next]_vars, NEW r \in Requests, request[r].of # {}
    PROVE  GoesOn(r) /\ request'[r].of = request[r].of
BY RequestLater DEF Begins, GoesOn

\* A message or command belongs to one browser.
LEMMA OwnerFacts ==
    ASSUME TypeInv, KnownInv, PlaceInv
    PROVE  /\ \A r \in Requests : request[r].of # {} => \E b \in Browsers : request[r].of = {b}
           /\ \A m \in Range(replies) : request[m.request].of = {m.to}
           /\ \A c \in Range(Coming) : c.type = "Proxy" =>
                 c.of = request[c.request].of /\ c.of # {}
<1>1. \A r \in Requests : request[r].of # {} => \E b \in Browsers : request[r].of = {b}
  BY DEF KnownInv, TypeInv, RequestsType
<1> QED BY <1>1 DEF PlaceInv, Range

\* A piece goes to the browser it is of, if it is there.
LEMMA ReturnsTo ==
    ASSUME TypeInv, LinkInv, PhaseInv, KnownInv, PlaceInv, TypeInv',
           ReturnVNC2Client, Popped(Coming, Coming'), Coming[1] = Head(handling)
    PROVE  \E c \in Pieces, b \in Browsers : Returns(c, b)
<1>a. handling \in Seq(Answers) /\ handling # <<>> /\ replies \in Seq(Replies) /\ BrowsersType
  BY DEF ReturnVNC2Client, TypeInv, VNCType, RepliesType
<1>1. PICK c \in Answers : c = Head(handling)
  BY <1>a, HeadTailProperties
<1>2. c \in Pieces
  BY <1>1 DEF ReturnVNC2Client, Answers, Closings
<1>3. /\ c.request \in Requests /\ c.piece \in 1 .. MaxPieces /\ c.type = "Proxy"
      /\ c.of \subseteq Browsers
  BY <1>2 DEF Pieces
<1>4. c \in Range(Coming) /\ Coming[1] = c
  BY <1>1 DEF Popped, Range
<1>5. c.of = request[c.request].of /\ c.of # {}
  BY <1>3, <1>4, OwnerFacts
<1>6. PICK b \in Browsers : c.of = {b}
  BY <1>3, <1>5, OwnerFacts
<1>7. Known(c.fd, c.seq, b)
  BY <1>3, <1>4, <1>6 DEF KnownInv
<1> DEFINE to == {e \in Holder(c.fd) : HasTask(e, c.seq)}
           What(e) == [to |-> e, request |-> c.request, piece |-> c.piece]
<1>8. \A e \in to : e = b /\ phase[b] # "closed"
  BY <1>7 DEF Known, Holder, HasTask
<1>9. phase[b] # "closed" => b \in to
  BY <1>7 DEF Known, Holder, HasTask
<1>10. heard' = heard
  BY DEF ReturnVNC2Client
<1>11. \/ \E e \in to : replies' = Append(replies, What(e)) /\ dropped' = dropped
       \/ to = {} /\ replies' = replies /\ dropped' = dropped
       \/ replies' = replies /\ dropped' = dropped \cup {<<c.request, c.piece>>}
  BY <1>1 DEF ReturnVNC2Client
<1>12. ASSUME NEW e \in to, replies' = Append(replies, What(e)), dropped' = dropped
       PROVE  Returns(c, b)
  <2>1. e = b /\ phase[b] # "closed"
    BY <1>8, <1>12
  <2>2. What(b) \in Replies
    BY <1>3 DEF Replies
  <2>3. PICK x \in Replies : x = What(b)
    BY <2>2
  <2>4. Pushed(replies, replies', x)
    BY <1>a, <1>12, <2>1, <2>3, AppendPushed
  <2> QED BY <1>2, <1>4, <1>5, <1>6, <1>10, <1>12, <2>1, <2>3, <2>4 DEF Returns
<1>13. CASE to = {} /\ replies' = replies /\ dropped' = dropped
  BY <1>2, <1>4, <1>5, <1>6, <1>9, <1>10, <1>13 DEF Returns
<1>14. CASE replies' = replies /\ dropped' = dropped \cup {<<c.request, c.piece>>}
  BY <1>2, <1>4, <1>5, <1>6, <1>10, <1>14 DEF Returns
<1> QED BY <1>2, <1>11, <1>12, <1>13, <1>14

\* Every step does one of these.
LEMMA AnswerStep ==
    ASSUME TypeInv, LinkInv, PhaseInv, KnownInv, PlaceInv, TypeInv', [Next]_vars
    PROVE  AnswerOptions
<1>a. handling \in Seq(Answers) /\ replies \in Seq(Replies)
  BY DEF TypeInv, VNCType, RepliesType
<1>1. CASE Coming' = Coming /\ dropped' = dropped /\ UNCHANGED <<replies, heard>>
  BY <1>1 DEF AnswerOptions, Keeps
<1>2. CASE Coming' = Coming /\ dropped' = dropped /\ SendReply
  <2>1. /\ replies # <<>> /\ replies' = Tail(replies)
        /\ heard' = IF Head(replies).to \in gone THEN heard
                    ELSE [heard EXCEPT ![Head(replies).to] =
                              Append(@, <<Head(replies).request, Head(replies).piece>>)]
    BY <1>2 DEF SendReply
  <2>2. Popped(replies, replies') /\ replies[1] = Head(replies)
    BY <1>a, <2>1, TailPopped
  <2>3. PICK m \in Replies : m = Head(replies)
    BY <1>a, <2>1, HeadTailProperties
  <2>4. Hears(m)
    BY <1>2, <2>1, <2>2, <2>3 DEF Hears
  <2> QED BY <2>4 DEF AnswerOptions
<1>3. CASE ReturnVNC2Client /\ Popped(Coming, Coming') /\ Coming[1] = Head(handling)
  BY <1>3, ReturnsTo DEF AnswerOptions
<1>4. CASE ProxyDisconnect /\ Popped(Coming, Coming') /\ Coming[1] = Head(handling)
  <2>1. /\ handling # <<>> /\ Head(handling).type = "ProxyDisconnect"
        /\ UNCHANGED <<replies, heard, dropped>>
    BY <1>4 DEF ProxyDisconnect
  <2>2. PICK c \in Answers : c = Head(handling)
    BY <1>a, <2>1, HeadTailProperties
  <2>3. c \in Closings
    BY <2>1, <2>2 DEF Answers, Pieces
  <2>4. Closes(c)
    BY <1>4, <2>1, <2>2, <2>3 DEF Closes
  <2> QED BY <2>3, <2>4 DEF AnswerOptions
<1>5. ASSUME NEW t \in Threads, SendWhole(t), Pushed(Coming, Coming', Command(t))
      PROVE  AnswerOptions
  <2>1. Writes(t)
    BY <1>5 DEF Writes, SendWhole, Sent, ghosts
  <2> QED BY <2>1 DEF AnswerOptions
<1>6. CASE LinkLost /\ Cut(Coming, Coming')
  BY <1>6 DEF AnswerOptions, Loses, LinkLost, ghosts
<1>7. ComingOptions
  BY ComingStep
<1> QED BY <1>1, <1>2, <1>3, <1>4, <1>5, <1>6, <1>7, Zenon DEF ComingOptions

\* The messages to browsers after a step: those before it, or the one that ReturnVNC2Client adds.
LEMMA RepliesLater ==
    ASSUME TypeInv, AnswerOptions, NEW m \in Range(replies')
    PROVE  \/ m \in Range(replies)
           \/ \E c \in Pieces, b \in Browsers :
                 Returns(c, b) /\ m = [to |-> b, request |-> c.request, piece |-> c.piece]
<1>a. replies \in Seq(Replies)
  BY DEF TypeInv, RepliesType
<1>1. CASE Keeps \/ Loses \/ (\E c \in Closings : Closes(c)) \/ \E t \in Threads : Writes(t)
  BY <1>1 DEF Keeps, Loses, Closes, Writes
<1>2. ASSUME NEW n \in Replies, Hears(n)
      PROVE  m \in Range(replies)
  BY <1>a, <1>2, FlowElements DEF Hears
<1>3. ASSUME NEW c \in Pieces, NEW b \in Browsers, Returns(c, b)
      PROVE  \/ m \in Range(replies)
             \/ m = [to |-> b, request |-> c.request, piece |-> c.piece]
  <2>1. CASE replies' = replies
    BY <2>1
  <2>2. CASE Pushed(replies, replies', [to |-> b, request |-> c.request, piece |-> c.piece])
    BY <1>a, <2>2, FlowElements
  <2> QED BY <1>3, <2>1, <2>2 DEF Returns
<1> QED BY <1>1, <1>2, <1>3, Zenon DEF AnswerOptions

\* The commands to the proxy: those before it, or the one a thread sends.
LEMMA ComingLater ==
    ASSUME TypeInv, AnswerOptions, NEW c \in Range(Coming')
    PROVE  c \in Range(Coming) \/ \E t \in Threads : Writes(t) /\ c = Command(t)
<1>a. Coming \in Seq(Answers)
  BY FlowFacts
<1>1. CASE Keeps \/ \E m \in Replies : Hears(m)
  BY <1>1 DEF Keeps, Hears
<1>2. CASE Loses \/ (\E d \in Closings : Closes(d)) \/ \E d \in Pieces, b \in Browsers : Returns(d, b)
  BY <1>a, <1>2, FlowElements DEF Loses, Closes, Returns
<1>3. ASSUME NEW t \in Threads, Writes(t)
      PROVE  c \in Range(Coming) \/ c = Command(t)
  BY <1>a, <1>3, FlowElements DEF Writes
<1> QED BY <1>1, <1>2, <1>3, Zenon DEF AnswerOptions

\* What browsers heard: what they had, or the message that is sent now.
LEMMA HeardLater ==
    ASSUME TypeInv, AnswerOptions, NEW b \in Browsers
    PROVE  /\ \A n \in DOMAIN heard[b] : n \in DOMAIN heard'[b] /\ heard'[b][n] = heard[b][n]
           /\ \A n \in DOMAIN heard'[b] : n \notin DOMAIN heard[b] =>
                 \E m \in Replies : /\ Hears(m) /\ m.to = b /\ b \notin gone
                                    /\ heard'[b][n] = <<m.request, m.piece>>
<1>a. heard \in [Browsers -> Seq(Requests \X (1 .. MaxPieces))]
  BY DEF TypeInv, RepliesType
<1>1. CASE heard' = heard
  BY <1>1
<1>2. ASSUME NEW m \in Replies, Hears(m), m.to = b, b \notin gone,
             heard' = [heard EXCEPT ![m.to] = Append(@, <<m.request, m.piece>>)]
      PROVE  /\ \A n \in DOMAIN heard[b] : n \in DOMAIN heard'[b] /\ heard'[b][n] = heard[b][n]
             /\ \A n \in DOMAIN heard'[b] : n \notin DOMAIN heard[b] =>
                   heard'[b][n] = <<m.request, m.piece>>
  <2>1. PICK s \in Seq(Requests \X (1 .. MaxPieces)) : s = heard[b]
    BY <1>a
  <2>2. PICK x \in Requests \X (1 .. MaxPieces) : x = <<m.request, m.piece>>
    BY DEF Replies
  <2>3. heard'[b] = Append(s, x)
    BY <1>2, <1>a, <2>1, <2>2
  <2>4. Pushed(s, Append(s, x), x)
    BY AppendPushed
  <2> QED BY <2>1, <2>2, <2>3, <2>4 DEF Pushed
<1>3. ASSUME NEW m \in Replies, Hears(m)
      PROVE  heard' = heard \/ m.to # b \/ (b \notin gone /\ heard' =
                [heard EXCEPT ![m.to] = Append(@, <<m.request, m.piece>>)])
  BY <1>3 DEF Hears
<1>4. ASSUME NEW m \in Replies, Hears(m), m.to # b
      PROVE  heard'[b] = heard[b]
  BY <1>a, <1>4 DEF Hears
<1>5. CASE \E m \in Replies : Hears(m)
  <2>1. PICK m \in Replies : Hears(m)
    BY <1>5
  <2>2. CASE m.to # b
    BY <1>4, <2>1, <2>2
  <2>3. CASE m.to = b /\ b \notin gone /\ heard' =
                [heard EXCEPT ![m.to] = Append(@, <<m.request, m.piece>>)]
    <3>1. /\ \A n \in DOMAIN heard[b] : n \in DOMAIN heard'[b] /\ heard'[b][n] = heard[b][n]
          /\ \A n \in DOMAIN heard'[b] : n \notin DOMAIN heard[b] =>
                heard'[b][n] = <<m.request, m.piece>>
      BY <1>2, <2>1, <2>3
    <3> QED BY <2>1, <2>3, <3>1
  <2> QED BY <1>1, <1>3, <2>1, <2>2, <2>3
<1> QED BY <1>1, <1>5 DEF AnswerOptions, Keeps, Loses, Closes, Writes, Returns

\* Whose each message and command is.
LEMMA PlaceInvStep ==
    ASSUME TypeInv, LinkInv, PhaseInv, KnownInv, PlaceInv, TypeInv', [Next]_vars
    PROVE  PlaceInv'
<1>a. replies \in Seq(Replies) /\ Coming \in Seq(Answers)
      /\ heard \in [Browsers -> Seq(Requests \X (1 .. MaxPieces))]
  BY FlowFacts DEF TypeInv, RepliesType
<1>b. AnswerOptions
  BY AnswerStep
<1>1. ASSUME NEW m \in Range(replies')
      PROVE  request'[m.request].of = {m.to}
  <2>1. CASE m \in Range(replies)
    <3>1. m \in Replies
      BY <1>a, <2>1 DEF Range
    <3>2. m.request \in Requests
      BY <3>1 DEF Replies
    <3>3. request[m.request].of = {m.to}
      BY <2>1, OwnerFacts
    <3> QED BY <3>2, <3>3, OfLater
  <2>2. ASSUME NEW c \in Pieces, NEW b \in Browsers, Returns(c, b),
               m = [to |-> b, request |-> c.request, piece |-> c.piece]
        PROVE  request'[m.request].of = {m.to}
    <3>1. c.request \in Requests /\ request[c.request].of = {b}
      BY <2>2 DEF Returns, Pieces
    <3> QED BY <2>2, <3>1, OfLater
  <2> QED BY <1>b, <1>1, <2>1, <2>2, RepliesLater
<1>2. ASSUME NEW c \in Range(Coming'), c.type = "Proxy"
      PROVE  c.of = request'[c.request].of /\ c.of # {}
  <2>1. CASE c \in Range(Coming)
    <3>1. c.request \in Requests
      BY <1>a, <1>2, <2>1 DEF Range, Answers, Pieces, Closings
    <3>2. c.of = request[c.request].of /\ c.of # {}
      BY <1>2, <2>1, OwnerFacts
    <3> QED BY <3>1, <3>2, OfLater
  <2>2. ASSUME NEW t \in Threads, Writes(t), c = Command(t)
        PROVE  c.of = request'[c.request].of /\ c.of # {}
    <3>1. Sends(t)
      BY <2>2 DEF Writes, SendWhole
    <3>2. /\ t \in Requests /\ pc[t] \in {"send", "hangup"} /\ c.request = t
          /\ c.of = request[t].of
      BY <1>2, <2>2, <3>1, SendsAnswer, ThreadFacts DEF Sends
    <3>3. request[t].of # {}
      BY <3>2 DEF KnownInv
    <3> QED BY <3>2, <3>3, OfLater
  <2> QED BY <1>b, <1>2, <2>1, <2>2, ComingLater
<1>3. ASSUME NEW b \in Browsers, NEW n \in DOMAIN heard'[b]
      PROVE  request'[heard'[b][n][1]].of = {b}
  <2>1. CASE n \in DOMAIN heard[b]
    <3>1. heard[b][n] \in Requests \X (1 .. MaxPieces)
      BY <1>a, <2>1
    <3>2. heard[b][n][1] \in Requests /\ request[heard[b][n][1]].of = {b}
      BY <2>1, <3>1 DEF PlaceInv
    <3>3. heard'[b][n] = heard[b][n]
      BY <1>b, <2>1, HeardLater
    <3> QED BY <3>2, <3>3, OfLater
  <2>2. CASE n \notin DOMAIN heard[b]
    <3>1. PICK m \in Replies : Hears(m) /\ m.to = b /\ heard'[b][n] = <<m.request, m.piece>>
      BY <1>b, <1>3, <2>2, HeardLater
    <3>2. m.request \in Requests /\ m \in Range(replies)
      BY <3>1 DEF Hears, Popped, Range, Replies
    <3>3. request[m.request].of = {b}
      BY <3>1, <3>2, OwnerFacts
    <3> QED BY <3>1, <3>2, <3>3, OfLater
  <2> QED BY <2>1, <2>2
<1>4. \A i \in DOMAIN replies' : replies'[i] \in Range(replies')
  BY DEF Range
<1>5. \A i \in DOMAIN Coming' : Coming'[i] \in Range(Coming')
  BY DEF Range
<1> QED BY <1>1, <1>2, <1>3, <1>4, <1>5 DEF PlaceInv

-----------------------------------------------------------------------------
(***************************************************************************)
(* What OrderInv says of request r when the pieces in the set p were       *)
(* heard, s is to be sent, c is to be handled, and n pieces were given.    *)
(***************************************************************************)
WaitsIn(s, i, r, k) == i \in DOMAIN s /\ s[i].request = r /\ s[i].piece = k
ComesIn(c, i, r, k) == i \in DOMAIN c /\ c[i].type = "Proxy" /\ c[i].request = r /\ c[i].piece = k

OrderIn(p, s, c, n, r) ==
    \A j \in 1 .. MaxPieces :
        /\ j \in p => j <= n
        /\ \A i \in DOMAIN s : WaitsIn(s, i, r, j) =>
              /\ j <= n
              /\ \A k \in 1 .. MaxPieces :
                    k \in p \/ (\E h \in 1 .. i - 1 : WaitsIn(s, h, r, k)) => k < j
        /\ \A i \in DOMAIN c : ComesIn(c, i, r, j) =>
              /\ j <= n
              /\ \A k \in 1 .. MaxPieces :
                    \/ k \in p
                    \/ \E h \in DOMAIN s : WaitsIn(s, h, r, k)
                    \/ \E h \in 1 .. i - 1 : ComesIn(c, h, r, k)
                    => k < j

\* Taking the oldest of a sequence shifts the others.
LEMMA WaitsPopped ==
    ASSUME NEW M, NEW s \in Seq(M), NEW t \in Seq(M), Popped(s, t), NEW r
    PROVE  /\ \A i \in DOMAIN t : i \in Nat /\ i > 0 /\ i + 1 \in DOMAIN s
           /\ \A i \in DOMAIN s : i \in Nat /\ (i # 1 => i - 1 \in DOMAIN t /\ i - 1 > 0)
           /\ \A i, k : WaitsIn(t, i, r, k) => WaitsIn(s, i + 1, r, k) /\ i + 1 \in DOMAIN s
           /\ \A i, k : ComesIn(t, i, r, k) => ComesIn(s, i + 1, r, k) /\ i + 1 \in DOMAIN s
           /\ \A i, k : WaitsIn(s, i, r, k) /\ i # 1 => WaitsIn(t, i - 1, r, k)
           /\ \A i, k : ComesIn(s, i, r, k) /\ i # 1 => ComesIn(t, i - 1, r, k)
<1>1. DOMAIN s = 1 .. Len(s) /\ DOMAIN t = 1 .. Len(t) /\ Len(s) \in Nat /\ Len(t) \in Nat
  OBVIOUS
<1>2. Len(t) = Len(s) - 1
  BY DEF Popped
<1>3. \A i \in DOMAIN t : i \in Nat /\ i > 0 /\ i + 1 \in DOMAIN s /\ t[i] = s[i + 1]
  BY <1>1, <1>2 DEF Popped
<1>4. \A k \in DOMAIN s : k \in Nat /\ (k # 1 => k - 1 \in DOMAIN t /\ k - 1 > 0
                                                  /\ t[k - 1] = s[k])
  BY <1>1, <1>2 DEF Popped
<1> QED BY <1>3, <1>4 DEF WaitsIn, ComesIn

\* A piece that is heard was the first to be sent.
LEMMA OrderHeard ==
    ASSUME NEW s \in Seq(Replies), NEW t \in Seq(Replies), Popped(s, t), NEW c \in Seq(Answers),
           NEW p, NEW q, NEW n \in Nat, NEW r, OrderIn(p, s, c, n, r),
           \A k \in q : k \in p \/ WaitsIn(s, 1, r, k)
    PROVE  OrderIn(q, t, c, n, r)
<1>a. 1 \in DOMAIN s
  BY DEF Popped
<1>b. \A i, k : WaitsIn(t, i, r, k) => WaitsIn(s, i + 1, r, k) /\ i + 1 \in DOMAIN s
  BY WaitsPopped
<1>1. ASSUME NEW j \in 1 .. MaxPieces, j \in q
      PROVE  j <= n
  BY <1>1, <1>a DEF OrderIn
<1>2. ASSUME NEW j \in 1 .. MaxPieces, NEW i \in DOMAIN t, WaitsIn(t, i, r, j)
      PROVE  j <= n
  BY <1>2, <1>b DEF OrderIn
<1>3. ASSUME NEW j \in 1 .. MaxPieces, NEW i \in DOMAIN t, WaitsIn(t, i, r, j),
             NEW k \in 1 .. MaxPieces, k \in q \/ \E h \in 1 .. i - 1 : WaitsIn(t, h, r, k)
      PROVE  k < j
  <2>1. i \in Nat /\ i > 0 /\ WaitsIn(s, i + 1, r, j) /\ i + 1 \in DOMAIN s
    BY <1>3, <1>b, WaitsPopped
  <2>2. 1 \in 1 .. (i + 1) - 1 /\ \A h \in 1 .. i - 1 : h + 1 \in 1 .. (i + 1) - 1
    BY <2>1
  <2>3. k \in p \/ \E h \in 1 .. (i + 1) - 1 : WaitsIn(s, h, r, k)
    BY <1>3, <1>b, <2>2
  <2> QED BY <2>1, <2>3 DEF OrderIn
<1>4. ASSUME NEW j \in 1 .. MaxPieces, NEW i \in DOMAIN c, ComesIn(c, i, r, j)
      PROVE  /\ j <= n
             /\ \A k \in 1 .. MaxPieces :
                   \/ k \in q
                   \/ \E h \in DOMAIN t : WaitsIn(t, h, r, k)
                   \/ \E h \in 1 .. i - 1 : ComesIn(c, h, r, k)
                   => k < j
  BY <1>a, <1>b, <1>4 DEF OrderIn
<1> QED BY <1>1, <1>2, <1>3, <1>4 DEF OrderIn

\* The first of what comes is handled.
LEMMA OrderHandled ==
    ASSUME NEW s \in Seq(Replies), NEW c \in Seq(Answers), NEW d \in Seq(Answers), Popped(c, d),
           NEW p, NEW n \in Nat, NEW r, OrderIn(p, s, c, n, r)
    PROVE  OrderIn(p, s, d, n, r)
<1>b. \A i, k : ComesIn(d, i, r, k) => ComesIn(c, i + 1, r, k) /\ i + 1 \in DOMAIN c
  BY WaitsPopped
<1>1. ASSUME NEW j \in 1 .. MaxPieces, NEW i \in DOMAIN d, ComesIn(d, i, r, j)
      PROVE  /\ j <= n
             /\ \A k \in 1 .. MaxPieces :
                   \/ k \in p
                   \/ \E h \in DOMAIN s : WaitsIn(s, h, r, k)
                   \/ \E h \in 1 .. i - 1 : ComesIn(d, h, r, k)
                   => k < j
  <2>1. i \in Nat /\ i > 0 /\ ComesIn(c, i + 1, r, j) /\ i + 1 \in DOMAIN c
    BY <1>1, <1>b, WaitsPopped
  <2>2. \A h \in 1 .. i - 1 : h + 1 \in 1 .. (i + 1) - 1
    BY <2>1
  <2>3. \A k : (\E h \in 1 .. i - 1 : ComesIn(d, h, r, k)) =>
                  \E h \in 1 .. (i + 1) - 1 : ComesIn(c, h, r, k)
    BY <1>b, <2>2
  <2> QED BY <2>1, <2>3 DEF OrderIn
<1> QED BY <1>1 DEF OrderIn

\* It is handed on to be sent.
LEMMA OrderReturned ==
    ASSUME NEW s \in Seq(Replies), NEW t \in Seq(Replies), NEW x \in Replies, Pushed(s, t, x),
           NEW c \in Seq(Answers), NEW d \in Seq(Answers), Popped(c, d),
           NEW p, NEW n \in Nat, NEW r, OrderIn(p, s, c, n, r),
           x.request = r => ComesIn(c, 1, r, x.piece)
    PROVE  OrderIn(p, t, d, n, r)
<1>a. DOMAIN s = 1 .. Len(s) /\ Len(s) \in Nat /\ 1 \in DOMAIN c
  BY DEF Popped
<1>b. \A i, k : WaitsIn(t, i, r, k) =>
         WaitsIn(s, i, r, k) \/ (i = Len(s) + 1 /\ ComesIn(c, 1, r, k))
  BY DEF Pushed, WaitsIn
<1>c. \A i, k : ComesIn(d, i, r, k) => ComesIn(c, i + 1, r, k) /\ i + 1 \in DOMAIN c
  BY WaitsPopped
<1>1. ASSUME NEW j \in 1 .. MaxPieces, NEW i \in DOMAIN t, WaitsIn(t, i, r, j)
      PROVE  /\ j <= n
             /\ \A k \in 1 .. MaxPieces :
                   k \in p \/ (\E h \in 1 .. i - 1 : WaitsIn(t, h, r, k)) => k < j
  <2>1. \A h \in 1 .. i - 1 : (h # Len(s) + 1 /\ h \in DOMAIN s) \/ i \notin 1 .. Len(s) + 1
    BY <1>a
  <2>2. i \in DOMAIN s \/ i = Len(s) + 1
    BY DEF Pushed
  <2>3. \A h \in 1 .. i - 1 : \A k : WaitsIn(t, h, r, k) => WaitsIn(s, h, r, k) /\ h \in DOMAIN s
    BY <1>a, <1>b, <2>1, <2>2
  <2>4. CASE WaitsIn(s, i, r, j)
    <3>1. i \in DOMAIN s
      BY <2>4 DEF WaitsIn
    <3> QED BY <2>3, <2>4, <3>1 DEF OrderIn
  <2>5. CASE ComesIn(c, 1, r, j)
    BY <1>a, <2>3, <2>5 DEF OrderIn
  <2> QED BY <1>1, <1>b, <2>4, <2>5
<1>2. ASSUME NEW j \in 1 .. MaxPieces, NEW i \in DOMAIN d, ComesIn(d, i, r, j)
      PROVE  /\ j <= n
             /\ \A k \in 1 .. MaxPieces :
                   \/ k \in p
                   \/ \E h \in DOMAIN t : WaitsIn(t, h, r, k)
                   \/ \E h \in 1 .. i - 1 : ComesIn(d, h, r, k)
                   => k < j
  <2>1. i \in Nat /\ i > 0 /\ ComesIn(c, i + 1, r, j) /\ i + 1 \in DOMAIN c
    BY <1>2, <1>c, WaitsPopped
  <2>2. 1 \in 1 .. (i + 1) - 1 /\ \A h \in 1 .. i - 1 : h + 1 \in 1 .. (i + 1) - 1
    BY <2>1
  <2>3. \A k : (\E h \in 1 .. i - 1 : ComesIn(d, h, r, k)) =>
                  \E h \in 1 .. (i + 1) - 1 : ComesIn(c, h, r, k)
    BY <1>c, <2>2
  <2>4. \A k : (\E h \in DOMAIN t : WaitsIn(t, h, r, k)) =>
                  \/ \E h \in DOMAIN s : WaitsIn(s, h, r, k)
                  \/ \E h \in 1 .. (i + 1) - 1 : ComesIn(c, h, r, k)
    BY <1>b, <2>2 DEF WaitsIn
  <2> QED BY <2>1, <2>3, <2>4 DEF OrderIn
<1> QED BY <1>1, <1>2 DEF OrderIn

\* A piece that is sent comes after all others.
LEMMA OrderSent ==
    ASSUME NEW s \in Seq(Replies), NEW c \in Seq(Answers), NEW d, NEW x, Pushed(c, d, x),
           NEW p, NEW n \in Nat, NEW m \in Nat, n <= m, NEW r, OrderIn(p, s, c, n, r),
           x.type = "Proxy" /\ x.request = r => x.piece = m /\ n < m
    PROVE  OrderIn(p, s, d, m, r)
<1>a. DOMAIN c = 1 .. Len(c) /\ Len(c) \in Nat
  OBVIOUS
<1>b. \A i, k : ComesIn(d, i, r, k) =>
         ComesIn(c, i, r, k) \/ (i = Len(c) + 1 /\ k = m /\ n < m)
  BY DEF Pushed, ComesIn
<1>1. \A j \in 1 .. MaxPieces : j \in Nat /\ (j <= n => j <= m) /\ (n < m /\ j <= n => j < m)
  OBVIOUS
<1>2. ASSUME NEW j \in 1 .. MaxPieces, NEW i \in DOMAIN d, ComesIn(d, i, r, j)
      PROVE  /\ j <= m
             /\ \A k \in 1 .. MaxPieces :
                   \/ k \in p
                   \/ \E h \in DOMAIN s : WaitsIn(s, h, r, k)
                   \/ \E h \in 1 .. i - 1 : ComesIn(d, h, r, k)
                   => k < j
  <2>2. i \in DOMAIN c \/ i = Len(c) + 1
    BY DEF Pushed
  <2>3. \A h \in 1 .. i - 1 : h # Len(c) + 1 /\ h \in DOMAIN c
    BY <1>a, <2>2
  <2>4. \A h \in 1 .. i - 1 : \A k : ComesIn(d, h, r, k) => ComesIn(c, h, r, k)
    BY <1>b, <2>3
  <2>5. CASE ComesIn(c, i, r, j)
    <3>1. i \in DOMAIN c
      BY <2>5 DEF ComesIn
    <3> QED BY <1>1, <2>4, <2>5, <3>1 DEF OrderIn
  <2>6. CASE j = m /\ n < m
    <3>1. \A k \in 1 .. MaxPieces :
                   \/ k \in p
                   \/ \E h \in DOMAIN s : WaitsIn(s, h, r, k)
                   \/ \E h \in 1 .. i - 1 : ComesIn(d, h, r, k)
                   => k <= n
      BY <2>3, <2>4 DEF OrderIn
    <3>2. j <= m
      BY <2>6
    <3>3. \A k \in 1 .. MaxPieces : k <= n => k < j
      BY <1>1, <2>6
    <3> QED BY <3>1, <3>2, <3>3
  <2> QED BY <1>2, <1>b, <2>5, <2>6
<1> QED BY <1>1, <1>2 DEF OrderIn

\* Nothing else disturbs the order.
LEMMA OrderLater ==
    ASSUME NEW s, NEW c \in Seq(Answers), NEW d, Cut(c, d),
           NEW p, NEW n \in Nat, NEW m \in Nat, n <= m, NEW r, OrderIn(p, s, c, n, r)
    PROVE  OrderIn(p, s, d, m, r)
<1>1. \A j \in 1 .. MaxPieces : j \in Nat /\ (j <= n => j <= m)
  OBVIOUS
<1>2. \A i, k : ComesIn(d, i, r, k) => ComesIn(c, i, r, k) /\ i \in DOMAIN c
  BY DEF Cut, ComesIn
<1> QED BY <1>1, <1>2 DEF OrderIn

GotSet(r) == {k \in 1 .. MaxPieces : Got(r, k)}

\* OrderInv, in these words.
LEMMA OrderFacts ==
    ASSUME OrderInv, NEW r \in Requests
    PROVE  OrderIn(GotSet(r), replies, Coming, Given(r), r)
BY DEF OrderInv, OrderIn, GotSet, WaitsIn, ComesIn, Waits, Comes

\* What a browser has heard of its answer after a step.
LEMMA GotLater ==
    ASSUME TypeInv, AnswerOptions, NEW r \in Requests, NEW b \in Browsers,
           request[r].of = {b}, request'[r].of = {b}, NEW k
    PROVE  /\ Got(r, k) => (Got(r, k))'
           /\ (Got(r, k))' => Got(r, k) \/ \E m \in Replies :
                 Hears(m) /\ m.to = b /\ b \notin gone /\ m.request = r /\ m.piece = k
<1>1. ASSUME NEW n \in DOMAIN heard[b], heard[b][n] = <<r, k>>
      PROVE  (Got(r, k))'
  BY <1>1, HeardLater DEF Got
<1>2. ASSUME NEW n \in DOMAIN heard'[b], heard'[b][n] = <<r, k>>
      PROVE  Got(r, k) \/ \E m \in Replies :
                Hears(m) /\ m.to = b /\ b \notin gone /\ m.request = r /\ m.piece = k
  <2>1. CASE n \in DOMAIN heard[b]
    BY <1>2, <2>1, HeardLater DEF Got
  <2>2. CASE n \notin DOMAIN heard[b]
    <3>1. PICK m \in Replies : /\ Hears(m) /\ m.to = b /\ b \notin gone
                               /\ heard'[b][n] = <<m.request, m.piece>>
      BY <2>2, HeardLater
    <3>2. m.request = r /\ m.piece = k
      BY <1>2, <3>1
    <3> QED BY <3>1, <3>2
  <2> QED BY <2>1, <2>2
<1> QED BY <1>1, <1>2 DEF Got

\* Nothing is on its way, or comes, of a request that has no browser yet.
LEMMA NothingYet ==
    ASSUME TypeInv, KnownInv, PlaceInv, TypeInv', AnswerOptions,
           NEW r \in Requests, request[r].of = {}, NEW k
    PROVE  /\ ~ (Got(r, k))'
           /\ \A i \in DOMAIN replies' : ~ WaitsIn(replies', i, r, k)
           /\ \A i \in DOMAIN Coming' : ~ ComesIn(Coming', i, r, k)
<1>1. ASSUME NEW b \in request'[r].of, NEW n \in DOMAIN heard'[b], heard'[b][n] = <<r, k>>
      PROVE  FALSE
  <2>b. b \in Browsers
    BY DEF TypeInv, RequestsType
  <2>1. CASE n \in DOMAIN heard[b]
    <3>1. heard[b][n] = <<r, k>>
      BY <1>1, <2>b, <2>1, HeardLater
    <3>2. request[heard[b][n][1]].of = {b}
      BY <1>1, <2>b, <2>1 DEF PlaceInv
    <3> QED BY <3>1, <3>2
  <2>2. CASE n \notin DOMAIN heard[b]
    <3>1. PICK m \in Replies : Hears(m) /\ heard'[b][n] = <<m.request, m.piece>>
      BY <1>1, <2>b, <2>2, HeardLater
    <3>2. m.request = r /\ m \in Range(replies)
      BY <1>1, <3>1 DEF Hears, Popped, Range
    <3> QED BY <3>2, OwnerFacts
  <2> QED BY <2>1, <2>2
<1>2. ASSUME NEW i \in DOMAIN replies', replies'[i].request = r
      PROVE  FALSE
  <2>1. PICK m : m = replies'[i] /\ m \in Range(replies') /\ m.request = r
    BY <1>2 DEF Range
  <2>2. CASE m \in Range(replies)
    BY <2>1, <2>2, OwnerFacts
  <2>3. ASSUME NEW c \in Pieces, NEW b \in Browsers,
               Returns(c, b) /\ m = [to |-> b, request |-> c.request, piece |-> c.piece]
        PROVE  FALSE
    BY <2>1, <2>3 DEF Returns
  <2> QED BY <2>1, <2>2, <2>3, RepliesLater
<1>3. ASSUME NEW i \in DOMAIN Coming', Coming'[i].type = "Proxy", Coming'[i].request = r
      PROVE  FALSE
  <2>1. PICK c : c = Coming'[i] /\ c \in Range(Coming') /\ c.request = r /\ c.type = "Proxy"
    BY <1>3 DEF Range
  <2>2. CASE c \in Range(Coming)
    BY <2>1, <2>2, OwnerFacts
  <2>3. ASSUME NEW t \in Threads, Writes(t), c = Command(t)
        PROVE  FALSE
    <3>1. Sends(t)
      BY <2>3 DEF Writes, SendWhole
    <3>2. t \in Requests /\ pc[t] \in {"send", "hangup"} /\ c.request = t
      BY <2>1, <2>3, <3>1, SendsAnswer, ThreadFacts DEF Sends
    <3>3. request[t].of # {}
      BY <3>2 DEF KnownInv
    <3> QED BY <2>1, <3>2, <3>3
  <2> QED BY <2>1, <2>2, <2>3, ComingLater
<1>4. ASSUME (Got(r, k))'
      PROVE  FALSE
  <2>1. \E b \in request'[r].of : \E n \in DOMAIN heard'[b] : heard'[b][n] = <<r, k>>
    BY <1>4 DEF Got
  <2> QED BY <1>1, <2>1
<1> QED BY <1>2, <1>3, <1>4 DEF WaitsIn, ComesIn

\* Pieces stay in the order in which they were given.
LEMMA OrderInvStep ==
    ASSUME TypeInv, LinkInv, PhaseInv, KnownInv, PlaceInv, OrderInv, TypeInv', [Next]_vars
    PROVE  OrderInv'
<1>a. AnswerOptions
  BY AnswerStep
<1>b. /\ replies \in Seq(Replies) /\ replies' \in Seq(Replies)
      /\ Coming \in Seq(Answers) /\ Coming' \in Seq(Answers)
  BY FlowFacts, FlowLater DEF TypeInv, RepliesType
<1>1. ASSUME NEW r \in Requests
      PROVE  OrderIn(GotSet(r)', replies', Coming', Given(r)', r)
  <2>1. CASE request[r].of = {}
    BY <1>a, <2>1, NothingYet DEF OrderIn, GotSet
  <2>2. CASE request[r].of # {}
    <3>1. PICK b \in Browsers : request[r].of = {b}
      BY <2>2, OwnerFacts
    <3>2. GoesOn(r) /\ request'[r].of = {b}
      BY <2>2, <3>1, OfLater
    <3>3. \A k : (Got(r, k))' => Got(r, k) \/ \E m \in Replies :
                 Hears(m) /\ m.to = b /\ b \notin gone /\ m.request = r /\ m.piece = k
      BY <1>a, <3>1, <3>2, GotLater
    <3>4. OrderIn(GotSet(r), replies, Coming, Given(r), r) /\ Given(r) \in Nat
      BY OrderFacts, GivenFacts
    <3>5. /\ Given(r)' \in Nat /\ Given(r) <= Given(r)'
          /\ Given(r)' # Given(r) => pc[r] = "send" /\ Given(r)' = request[r].pieces
                                     /\ (SendWhole(r) \/ SendFails(r))
      BY <3>2, <3>4 DEF GoesOn
    <3>6. PICK g \in Nat, n \in Nat : g = Given(r)' /\ n = Given(r) /\ n <= g
      BY <3>4, <3>5
    <3>7. (~ \E m \in Replies : Hears(m)) => \A k \in GotSet(r)' : k \in GotSet(r)
      BY <3>3 DEF GotSet
    <3>8. \A p, s, c : OrderIn(GotSet(r), s, c, n, r) /\ p \subseteq GotSet(r)
                           => OrderIn(p, s, c, n, r)
      BY DEF OrderIn
    <3>9. Cut(Coming', Coming') /\ Cut(Coming, Coming)
      BY DEF Cut
    <3>10. SUFFICES \/ OrderIn(GotSet(r)', replies', Coming', n, r)
                    \/ OrderIn(GotSet(r)', replies', Coming', g, r)
      <4>1. OrderIn(GotSet(r)', replies', Coming', n, r)
               => OrderIn(GotSet(r)', replies', Coming', g, r)
        BY <1>b, <3>6, <3>9, OrderLater
      <4> QED BY <3>6, <4>1
    <3>11. CASE Keeps
      BY <3>4, <3>6, <3>7, <3>8, <3>11 DEF Keeps, Hears, Popped
    <3>12. CASE Loses
      <4>1. ~ \E m \in Replies : Hears(m)
        BY <3>12 DEF Loses, Hears, Popped
      <4>2. OrderIn(GotSet(r)', replies, Coming, n, r)
        BY <3>4, <3>6, <3>7, <3>8, <4>1
      <4> QED BY <1>b, <3>12, <4>2, OrderLater DEF Loses
    <3>13. ASSUME NEW m \in Replies, Hears(m)
           PROVE  OrderIn(GotSet(r)', replies', Coming', n, r)
      <4>1. Coming' = Coming /\ Popped(replies, replies') /\ replies[1] = m
        BY <3>13 DEF Hears
      <4>2. ASSUME NEW k \in GotSet(r)'
            PROVE  k \in GotSet(r) \/ WaitsIn(replies, 1, r, k)
        <5>1. k \in 1 .. MaxPieces /\ (Got(r, k))'
          BY <4>2 DEF GotSet
        <5>2. CASE Got(r, k)
          BY <5>1, <5>2 DEF GotSet
        <5>3. ASSUME NEW o \in Replies, Hears(o), o.request = r, o.piece = k
              PROVE  WaitsIn(replies, 1, r, k)
          BY <5>3 DEF Hears, Popped, WaitsIn
        <5> QED BY <3>3, <5>1, <5>2, <5>3
      <4> HIDE DEF GotSet
      <4>3. OrderIn(GotSet(r), replies, Coming, n, r)
        BY <3>4, <3>6
      <4>4. PICK p : p = GotSet(r)'
        OBVIOUS
      <4>5. OrderIn(p, replies', Coming, n, r)
        BY <1>b, <3>6, <4>1, <4>2, <4>3, <4>4, OrderHeard
      <4> QED BY <4>1, <4>4, <4>5
    <3>14. ASSUME NEW c \in Closings, Closes(c)
           PROVE  OrderIn(GotSet(r)', replies', Coming', n, r)
      <4>1. Popped(Coming, Coming') /\ replies' = replies
        BY <3>14 DEF Closes
      <4>2. ~ \E m \in Replies : Hears(m)
        BY <4>1 DEF Hears, Popped
      <4>3. OrderIn(GotSet(r)', replies, Coming, n, r)
        BY <3>4, <3>6, <3>7, <3>8, <4>2
      <4>4. OrderIn(GotSet(r)', replies, Coming', n, r)
        BY <1>b, <4>1, <4>3, OrderHandled
      <4> QED BY <4>1, <4>4
    <3>15. ASSUME NEW c \in Pieces, NEW e \in Browsers, Returns(c, e)
           PROVE  OrderIn(GotSet(r)', replies', Coming', n, r)
      <4>1. Popped(Coming, Coming') /\ Coming[1] = c
        BY <3>15 DEF Returns
      <4>2. ~ \E m \in Replies : Hears(m)
        <5>1. Coming' # Coming
          BY <4>1, FlowFacts DEF Popped
        <5> QED BY <5>1 DEF Hears
      <4>3. OrderIn(GotSet(r)', replies, Coming, n, r)
        BY <3>4, <3>6, <3>7, <3>8, <4>2
      <4>4. CASE replies' = replies
        <5>1. OrderIn(GotSet(r)', replies, Coming', n, r)
          BY <1>b, <4>1, <4>3, OrderHandled
        <5> QED BY <4>4, <5>1
      <4>5. CASE Pushed(replies, replies', [to |-> e, request |-> c.request, piece |-> c.piece])
        <5>1. PICK x \in Replies : x = [to |-> e, request |-> c.request, piece |-> c.piece]
          BY DEF Pieces, Replies
        <5>2. x.request = r => ComesIn(Coming, 1, r, x.piece)
          BY <4>1, <5>1 DEF Popped, ComesIn, Pieces
        <5>3. Pushed(replies, replies', x)
          BY <4>5, <5>1
        <5> QED BY <1>b, <4>1, <4>3, <5>2, <5>3, OrderReturned
      <4> QED BY <3>15, <4>4, <4>5 DEF Returns
    <3>16. ASSUME NEW t \in Threads, Writes(t)
           PROVE  OrderIn(GotSet(r)', replies', Coming', g, r)
      <4>1. Pushed(Coming, Coming', Command(t)) /\ replies' = replies /\ SendWhole(t) /\ Sends(t)
        BY <3>16 DEF Writes, SendWhole
      <4>2. ~ \E m \in Replies : Hears(m)
        BY <4>1 DEF Hears, Popped
      <4>3. OrderIn(GotSet(r)', replies, Coming, n, r)
        BY <3>4, <3>6, <3>7, <3>8, <4>2
      <4>4. ASSUME Command(t).type = "Proxy", Command(t).request = r
            PROVE  Command(t).piece = g /\ n < g
        <5>1. t = r /\ pc[r] = "send" /\ Command(t).piece = request[r].pieces
          BY <4>1, <4>4, SendsAnswer, ThreadFacts DEF Sends
        <5>2. request' = request /\ pc'[r] = "run"
          <6>1. pc \in [Threads -> {"connect", "recv", "parse", "erase", "none", "run", "send",
                                    "end", "hangup", "unlock", "deleted"}]
            BY DEF TypeInv, PlacesType
          <6> QED BY <4>1, <5>1, <6>1, ThreadFacts DEF SendWhole, Sent, AfterSend, Goto
        <5>3. g = request[r].pieces /\ n = request[r].pieces - 1 /\ request[r].pieces \in Nat
          <6>1. request[r].pieces \in 0 .. MaxPieces
            BY GivenFacts
          <6> QED BY <3>6, <5>1, <5>2, <6>1 DEF Given
        <5> QED BY <5>1, <5>3
      <4>5. PICK x : x = Command(t)
        OBVIOUS
      <4>6. OrderIn(GotSet(r)', replies, Coming', g, r)
        BY <1>b, <3>6, <4>1, <4>3, <4>4, <4>5, OrderSent
      <4> QED BY <4>1, <4>6
    <3> QED BY <1>a, <3>11, <3>12, <3>13, <3>14, <3>15, <3>16, Zenon DEF AnswerOptions
  <2> QED BY <2>1, <2>2
<1> QED BY <1>1 DEF OrderInv, OrderIn, GotSet, WaitsIn, ComesIn, Waits, Comes

-----------------------------------------------------------------------------
(***************************************************************************)
(* What is settled stays settled, for a browser that is still owed.        *)
(***************************************************************************)
Pops     == (\E c \in Closings : Closes(c)) \/ \E c \in Pieces, b \in Browsers : Returns(c, b)
After(n) == IF Pops /\ n # 0 THEN n - 1 ELSE n

\* There is more among more commands.
LEMMA SettledMore ==
    ASSUME NEW r, NEW k, NEW m \in Nat, NEW n \in Nat, m <= n
    PROVE  /\ Settled(r, k, m) => Settled(r, k, n)
           /\ (Settled(r, k, m))' => (Settled(r, k, n))'
<1>1. \A i \in 1 .. m : i \in 1 .. n
  OBVIOUS
<1> QED BY <1>1 DEF Settled

\* A piece that was heard or dropped stays so.
LEMMA ThroughStep ==
    ASSUME TypeInv, AnswerOptions, NEW r \in Requests, NEW b \in Browsers,
           request[r].of = {b}, request'[r].of = {b}, NEW k, Through(r, k)
    PROVE  (Through(r, k))'
<1>1. dropped \subseteq dropped'
  BY DEF AnswerOptions, Keeps, Loses, Hears, Closes, Writes, Returns
<1>2. Got(r, k) => (Got(r, k))'
  BY GotLater
<1> QED BY <1>1, <1>2 DEF Through

\* A piece that is to be sent goes through, or is still to be sent.
LEMMA WaitsStep ==
    ASSUME TypeInv, TypeInv', KnownInv, PlaceInv, AnswerOptions, NEW r \in Requests,
           NEW b \in Browsers, request[r].of = {b}, request'[r].of = {b}, b \notin gone,
           NEW k, NEW i \in DOMAIN replies, Waits(i, r, k)
    PROVE  \/ (Waits(i, r, k))' /\ ~ \E m \in Replies : Hears(m)
           \/ (Waits(i - 1, r, k))' /\ i # 1 /\ \E m \in Replies : Hears(m)
           \/ i = 1 /\ (Through(r, k))' /\ \E m \in Replies : Hears(m)
<1>a. replies \in Seq(Replies) /\ replies' \in Seq(Replies)
      /\ heard \in [Browsers -> Seq(Requests \X (1 .. MaxPieces))]
  BY DEF TypeInv, RepliesType
<1>1. ASSUME NEW m \in Replies, Hears(m)
      PROVE  \/ (Waits(i - 1, r, k))' /\ i # 1
             \/ i = 1 /\ (Through(r, k))'
  <2>1. Popped(replies, replies') /\ replies[1] = m
    BY <1>1 DEF Hears
  <2>2. CASE i # 1
    <3>1. WaitsIn(replies, i, r, k)
      BY DEF Waits, WaitsIn
    <3>2. WaitsIn(replies', i - 1, r, k)
      BY <1>a, <2>1, <2>2, <3>1, WaitsPopped
    <3> QED BY <2>2, <3>2 DEF Waits, WaitsIn
  <2>3. CASE i = 1
    <3>1. m.request = r /\ m.piece = k /\ m \in Range(replies)
      BY <2>1, <2>3 DEF Waits, Range
    <3>2. m.to = b
      BY <3>1, OwnerFacts
    <3>3. heard' = [heard EXCEPT ![b] = Append(@, <<r, k>>)]
      BY <1>1, <3>1, <3>2 DEF Hears
    <3>4. PICK s \in Seq(Requests \X (1 .. MaxPieces)), x \in Requests \X (1 .. MaxPieces) :
             s = heard[b] /\ x = <<r, k>>
      BY <1>a, <1>1, <3>1 DEF Replies
    <3>5. heard'[b] = Append(s, x) /\ Pushed(s, Append(s, x), x)
      BY <1>a, <3>3, <3>4, AppendPushed
    <3>6. Len(s) + 1 \in DOMAIN heard'[b] /\ heard'[b][Len(s) + 1] = <<r, k>>
      BY <3>4, <3>5 DEF Pushed
    <3>7. (Got(r, k))'
      BY <3>6 DEF Got
    <3> QED BY <2>3, <3>7 DEF Through
  <2> QED BY <2>2, <2>3
<1>2. CASE ~ \E m \in Replies : Hears(m)
  <2>1. \/ replies' = replies
        \/ \E x : Pushed(replies, replies', x)
    BY <1>2 DEF AnswerOptions, Keeps, Loses, Closes, Writes, Returns
  <2> QED BY <1>2, <2>1 DEF Waits, Pushed
<1> QED BY <1>1, <1>2

\* Nothing that is settled among the first n commands is lost, as long as they are there.
LEMMA SettledStep ==
    ASSUME TypeInv, TypeInv', KnownInv, PlaceInv, AnswerOptions, NEW r \in Requests,
           NEW b \in Browsers, request[r].of = {b}, request'[r].of = {b}, b \notin gone,
           phase[b] # "closed", NEW k, NEW n \in Nat, Settled(r, k, n),
           Loses => n <= Len(Coming'), NEW a \in Nat, a = After(n)
    PROVE  (Settled(r, k, a))'
<1>a. /\ Coming \in Seq(Answers) /\ Coming' \in Seq(Answers)
      /\ DOMAIN Coming' = 1 .. Len(Coming') /\ Len(Coming') \in Nat
  BY FlowFacts, FlowLater
<1>b. /\ (Through(r, k))' => (Settled(r, k, a))'
      /\ \A i \in DOMAIN replies' : (Waits(i, r, k))' => (Settled(r, k, a))'
      /\ \A i \in 1 .. a : (Comes(i, r, k))' => (Settled(r, k, a))'
  BY DEF Settled
<1>1. CASE Through(r, k)
  <2>1. (Through(r, k))'
    BY <1>1, ThroughStep
  <2> QED BY <1>b, <2>1
<1>2. ASSUME NEW i \in DOMAIN replies, Waits(i, r, k)
      PROVE  (Settled(r, k, a))'
  BY <1>2, <1>b, WaitsStep DEF Waits
<1>3. ASSUME NEW i \in 1 .. n, Comes(i, r, k)
      PROVE  (Settled(r, k, a))'
  <2>1. CASE ~ Pops
    <3>1. a = n
      BY <2>1 DEF After
    <3>2. (Comes(i, r, k))'
      <4>1. CASE Coming' = Coming
        BY <1>3, <4>1 DEF Comes
      <4>2. CASE \E x : Pushed(Coming, Coming', x)
        BY <1>3, <4>2 DEF Comes, Pushed
      <4>3. CASE Loses
        <5>1. i \in DOMAIN Coming'
          BY <1>a, <4>3
        <5> QED BY <1>3, <4>3, <5>1 DEF Comes, Loses, Cut
      <4> QED BY <2>1, <4>1, <4>2, <4>3 DEF AnswerOptions, Pops, Keeps, Hears, Writes
    <3> QED BY <1>b, <3>1, <3>2
  <2>2. CASE Pops
    <3>0. a = n - 1 /\ n # 0
      BY <2>2 DEF After
    <3>1. a = n - 1 /\ Popped(Coming, Coming')
      BY <2>2, <3>0 DEF Pops, Closes, Returns
    <3>2. CASE i # 1
      <4>0. ComesIn(Coming, i, r, k)
        BY <1>3 DEF Comes, ComesIn
      <4>1. ComesIn(Coming', i - 1, r, k)
        BY <1>a, <3>1, <3>2, <4>0, WaitsPopped
      <4>2. i - 1 \in 1 .. a
        BY <3>1, <3>2
      <4> QED BY <1>b, <4>1, <4>2 DEF Comes, ComesIn
    <3>3. CASE i = 1
      <4>1. Coming[1].type = "Proxy" /\ Coming[1].request = r /\ Coming[1].piece = k
        BY <1>3, <3>3 DEF Comes
      <4>2. PICK c \in Pieces, e \in Browsers : Returns(c, e)
        BY <2>2, <4>1 DEF Pops, Closes, Closings
      <4>3. c.request = r /\ c.piece = k /\ e = b
        BY <4>1, <4>2 DEF Returns
      <4>4. CASE Pushed(replies, replies', [to |-> e, request |-> c.request, piece |-> c.piece])
        <5>1. PICK i1 : i1 = Len(replies) + 1
          OBVIOUS
        <5>2. (Waits(i1, r, k))' /\ i1 \in DOMAIN replies'
          BY <4>3, <4>4, <5>1 DEF Pushed, Waits
        <5> QED BY <1>b, <5>2
      <4>5. CASE dropped' = dropped \cup {<<c.request, c.piece>>}
        <5>1. (Through(r, k))'
          BY <4>3, <4>5 DEF Through
        <5> QED BY <1>b, <5>1
      <4> QED BY <4>2, <4>3, <4>4, <4>5 DEF Returns
    <3> QED BY <3>2, <3>3
  <2> QED BY <2>1, <2>2
<1> QED BY <1>1, <1>2, <1>3 DEF Settled

\* A browser that is answered, or excused, stays so.
LEMMA AnsweredStep ==
    ASSUME TypeInv, TypeInv', KnownInv, PlaceInv, AnswerOptions, [Next]_vars,
           excused \subseteq excused', NEW b \in Browsers, b \notin gone, phase[b] # "closed",
           NEW n \in Nat, Answered(b, n), Loses => n <= Len(Coming'), NEW a \in Nat, a = After(n)
    PROVE  (Answered(b, a))'
<1>1. CASE b \in excused
  BY <1>1 DEF Answered
<1>2. ASSUME NEW r \in Requests, request[r].of = {b}, Ended(r),
             \A k \in 1 .. request[r].pieces : Settled(r, k, n)
      PROVE  (Answered(b, a))'
  <2>1. GoesOn(r) /\ request'[r].of = {b}
    BY <1>2, OfLater
  <2>2. (Ended(r))' /\ request'[r].pieces = request[r].pieces
    BY <1>2, <2>1 DEF GoesOn
  <2>3. ASSUME NEW k \in 1 .. request'[r].pieces
        PROVE  (Settled(r, k, a))'
    BY <1>2, <2>1, <2>2, SettledStep
  <2> QED BY <2>1, <2>2, <2>3 DEF Answered
<1> QED BY <1>1, <1>2 DEF Answered

\* Where a command to the proxy was before a step.
WasAt(i, h) == /\ Coming'[i] = Coming[h] /\ i - 1 = After(h - 1) /\ h - 1 \in Nat /\ i - 1 \in Nat
               /\ (Loses => h - 1 <= Len(Coming'))

\* Every command on its way to the proxy after a step was on its way before it, in the same order,
\* or is the one the step put at the end.
LEMMA OriginStep ==
    ASSUME TypeInv, TypeInv', AnswerOptions, NEW i \in DOMAIN Coming'
    PROVE  \/ \E h \in DOMAIN Coming : WasAt(i, h)
           \/ \E t \in Threads : Writes(t) /\ i = Len(Coming) + 1 /\ Coming'[i] = Command(t)
<1>a. /\ Coming \in Seq(Answers) /\ Coming' \in Seq(Answers)
      /\ DOMAIN Coming' = 1 .. Len(Coming') /\ Len(Coming') \in Nat
      /\ DOMAIN Coming = 1 .. Len(Coming) /\ Len(Coming) \in Nat
  BY FlowFacts, FlowLater
<1>b. i \in Nat /\ i > 0 /\ i - 1 \in Nat /\ i - 1 <= Len(Coming')
  BY <1>a
<1>1. CASE Pops
  <2>1. Popped(Coming, Coming')
    BY <1>1 DEF Pops, Closes, Returns
  <2>2. i + 1 \in DOMAIN Coming /\ Coming'[i] = Coming[i + 1]
    BY <2>1 DEF Popped
  <2>3. (i + 1) - 1 = i /\ i # 0
    BY <1>b
  <2>4. After(i) = i - 1 /\ i <= Len(Coming')
    BY <1>1, <1>a, <2>3 DEF After
  <2>5. WasAt(i, i + 1)
    BY <1>b, <2>2, <2>3, <2>4 DEF WasAt
  <2> QED BY <2>2, <2>5
<1>2. ASSUME ~ Pops, i \in DOMAIN Coming, Coming'[i] = Coming[i]
      PROVE  WasAt(i, i)
  BY <1>2, <1>b DEF WasAt, After
<1>3. CASE ~ Pops
  <2>1. CASE Coming' = Coming
    BY <1>2, <1>3, <2>1
  <2>2. CASE Loses
    BY <1>2, <1>3, <2>2 DEF Loses, Cut
  <2>3. ASSUME NEW t \in Threads, Writes(t)
        PROVE  (i \in DOMAIN Coming /\ WasAt(i, i))
               \/ (i = Len(Coming) + 1 /\ Coming'[i] = Command(t))
    BY <1>2, <1>3, <2>3 DEF Writes, Pushed
  <2> QED BY <1>3, <2>1, <2>2, <2>3 DEF AnswerOptions, Pops, Keeps, Hears
<1> QED BY <1>1, <1>3

\* Who is hung up on.
ShutWell ==
    /\ \A b \in shut' : b \in shut \/ b \in excused' \/ (ProxyDisconnect /\ b \in Head(handling).of)
    /\ \A b \in gone' : b \in gone \/ b \in excused'

\* A step hangs up on a browser, or makes its connection end, only for a reason that excuses it.
LEMMA ShutStep ==
    ASSUME [Next]_vars
    PROVE  ShutWell
<1> USE DEF browsers, proxy, link, peer, ghosts
<1>e. ASSUME UNCHANGED <<shut, gone>>
      PROVE  ShutWell
  BY <1>e DEF ShutWell
<1>1. ASSUME NEW b, TurnAway(b) \/ BrowserLeaves(b)
      PROVE  ShutWell
  BY <1>1 DEF TurnAway, BrowserLeaves, ShutWell
<1>2. CASE ProxyDisconnect
  BY <1>2 DEF ProxyDisconnect, ShutWell
<1>3. CASE OnCloseVNC
  BY <1>3 DEF OnCloseVNC, ShutBrowsers, ShutWell
<1>4. CASE MainThread \/ (\E b \in DOMAIN fdOf : Forward(b)) \/ SendReply \/ VNCMain
           \/ ReturnVNC2Client
  BY <1>e, <1>4 DEF MainThread, VNCMain, OnDisconnect, Forward, SendReply,
              RecvVNC, OnDisconnectVNC, ReturnVNC2Client
<1>5. CASE SendCommand \/ Receive \/ Connect \/ LinkLost \/ UNCHANGED vars
  BY <1>e, <1>5 DEF Receive, SendCommand, Connect, LinkLost, RecvFails, RecvCommand, ParsedInPart,
              ParsedAll, ParserFull, OnRecvProxyDisconnect, vars
<1>6. CASE \E t \in Threads : Send(t)
  BY <1>e, <1>6 DEF Send, SendWhole, SendPart, SendBetween, SendFails, Sent
<1>7. CASE \E r \in Requests : OnSuccessOrFail(r) \/ UnlockAndDelete(r)
           \/ OnReceiveBody(r) \/ RequestEnds(r)
  BY <1>e, <1>7 DEF OnSuccessOrFail, UnlockAndDelete, OnReceiveBody, RequestEnds
<1>8. CASE (\E fd \in Fds : Accept(fd)) \/ \E b \in DOMAIN fdOf : RecvPacket(b)
  BY <1>e, <1>8 DEF Accept, RecvPacket
<1> QED BY <1>1, <1>2, <1>3, <1>4, <1>5, <1>6, <1>7, <1>8
        DEF Next, Program, Environment, Handlers, VNCHandler

\* The browser of a packet that is refused is excused.
LEMMA RefusedStep ==
    ASSUME TypeInv, PhaseInv, TypeInv', [Next]_vars, pc[Receiver] = "send" => cmd.of \in excused,
           pc'[Receiver] = "send"
    PROVE  cmd'.of \in excused'
<1>a. pc \in [Threads -> {"connect", "recv", "parse", "erase", "none", "run", "send",
                          "end", "hangup", "unlock", "deleted"}] /\ BrowsersType'
  BY DEF TypeInv, PlacesType
<1>b. excused \subseteq excused'
  BY <1>a, BrowsersLater
<1>1. CASE pc'[Receiver] = pc[Receiver] /\ cmd' = cmd
  BY <1>b, <1>1
<1>2. CASE RecvCommand \/ Connect \/ RecvFails
  BY <1>2, <1>a, ThreadFacts DEF RecvCommand, Connect, RecvFails, Goto
<1>3. CASE Parses
  <2>1. ParserFull
    BY <1>3, <1>a, ThreadFacts DEF Parses, ParsedInPart, ParsedAll, OnRecvProxyDisconnect, Goto
  <2> QED BY <2>1 DEF ParserFull
<1>4. CASE SendWhole(Receiver) \/ SendFails(Receiver)
  BY <1>4, <1>a, ThreadFacts DEF SendWhole, SendFails, Sent, AfterSend, Goto
<1> QED BY <1>a, <1>1, <1>2, <1>3, <1>4, HandStep DEF HandOptions

\* Whoever is owed an answer after a step was owed it before.
LEMMA OwedStep ==
    ASSUME TypeInv, PhaseInv, BrowsersType', [Next]_vars
    PROVE  /\ \A b \in Browsers : (Owed(b))' => Owed(b)
           /\ \A b \in Browsers : b \notin gone' => b \notin gone
           /\ excused \subseteq excused'
<1>1. \A b \in Browsers : phase[b] = "closed" => phase'[b] = "closed"
  BY BrowsersLater
<1>2. gone \subseteq gone' /\ excused \subseteq excused'
  BY BrowsersLater
<1> QED BY <1>1, <1>2 DEF Owed

\* To a browser that did not leave, all that came before a message was sent, or waits before it.
LEMMA SentInTurn ==
    ASSUME TypeInv, TypeInv', LinkInv, PhaseInv, KnownInv, PlaceInv, SettledInv, [Next]_vars,
           NEW i \in DOMAIN replies', NEW r \in Requests, NEW j \in 1 .. MaxPieces,
           (Waits(i, r, j))', replies'[i].to \notin gone', NEW k \in 1 .. j - 1
    PROVE  (Through(r, k))' \/ \E h \in 1 .. i - 1 : (Waits(h, r, k))'
<1>a. AnswerOptions
  BY AnswerStep
<1>b. /\ replies \in Seq(Replies) /\ replies' \in Seq(Replies) /\ BrowsersType'
      /\ DOMAIN replies = 1 .. Len(replies) /\ Len(replies) \in Nat
  BY DEF TypeInv, RepliesType
<1>c. PICK b \in Browsers : replies'[i].to = b
  <2>1. replies'[i] \in Replies
    BY <1>b
  <2> QED BY <2>1 DEF Replies
<1>d. request'[r].of = {b} /\ request[r].of = {b} /\ b \notin gone
  <2>1. request[r].of # {}
    BY <1>a, NothingYet DEF Waits, WaitsIn
  <2>2. request'[r].of = request[r].of
    BY <2>1, OfLater
  <2>3. PlaceInv'
    BY PlaceInvStep
  <2>4. request'[r].of = {b}
    BY <1>c, <2>3 DEF PlaceInv, Waits
  <2> QED BY <1>b, <1>c, <2>2, <2>4, OwedStep
<1>f. \A h, m : Waits(h, r, m) /\ request[r].of = {b} => replies[h].to = b
  BY DEF Waits, PlaceInv
<1>g. \A h \in DOMAIN replies : Waits(h, r, j) =>
         Through(r, k) \/ \E l \in 1 .. h - 1 : Waits(l, r, k)
  <2>1. \A h \in DOMAIN replies : Waits(h, r, j) => replies[h].to \notin gone
    BY <1>d, <1>f
  <2> QED BY <2>1 DEF SettledInv
<1>t. Through(r, k) => (Through(r, k))'
  BY <1>a, <1>d, ThroughStep
<1>1. CASE ~ (\E m \in Replies : Hears(m)) /\ Waits(i, r, j)
  <2>1. CASE Through(r, k)
    BY <1>t, <2>1
  <2>2. ASSUME NEW l \in 1 .. i - 1, Waits(l, r, k)
        PROVE  (Waits(l, r, k))'
    BY <1>a, <1>d, <1>1, <2>2, WaitsStep DEF Waits
  <2>3. i \in DOMAIN replies
    BY <1>1 DEF Waits
  <2> QED BY <1>1, <1>g, <2>1, <2>2, <2>3
<1>2. ASSUME NEW m \in Replies, Hears(m)
      PROVE  (Through(r, k))' \/ \E h \in 1 .. i - 1 : (Waits(h, r, k))'
  <2>1. Popped(replies, replies') /\ WaitsIn(replies', i, r, j)
    BY <1>2 DEF Hears, Waits, WaitsIn
  <2>2. WaitsIn(replies, i + 1, r, j) /\ i + 1 \in DOMAIN replies /\ i \in Nat /\ i > 0
    BY <1>b, <2>1, WaitsPopped
  <2>3. (i + 1) - 1 = i
    BY <2>2
  <2>4. Through(r, k) \/ \E l \in 1 .. i : Waits(l, r, k)
    BY <1>g, <2>2, <2>3 DEF Waits, WaitsIn
  <2>5. ASSUME NEW l \in 1 .. i, Waits(l, r, k)
        PROVE  (Through(r, k))' \/ \E h \in 1 .. i - 1 : (Waits(h, r, k))'
    <3>1. l \in DOMAIN replies
      BY <2>5 DEF Waits
    <3>2. (l = 1 /\ (Through(r, k))') \/ (l # 1 /\ (Waits(l - 1, r, k))')
      BY <1>a, <1>d, <1>2, <2>5, <3>1, WaitsStep
    <3>3. l # 1 => l - 1 \in 1 .. i - 1
      BY <2>2
    <3> QED BY <3>2, <3>3
  <2> QED BY <1>t, <2>4, <2>5
<1>3. ASSUME NEW c \in Pieces, NEW e \in Browsers, Returns(c, e), ~ Waits(i, r, j)
      PROVE  (Through(r, k))' \/ \E h \in 1 .. i - 1 : (Waits(h, r, k))'
  <2>1. /\ Pushed(replies, replies', [to |-> e, request |-> c.request, piece |-> c.piece])
        /\ phase[e] # "closed"
    BY <1>3 DEF Returns, Waits
  <2>2. i = Len(replies) + 1 /\ c.request = r /\ c.piece = j
    <3>1. i \in DOMAIN replies \/ i = Len(replies) + 1
      BY <2>1 DEF Pushed
    <3> QED BY <1>3, <2>1, <3>1 DEF Pushed, Waits
  <2>3. e = b /\ c.of = {b} /\ Coming[1] = c /\ 1 \in DOMAIN Coming /\ c.type = "Proxy"
    BY <1>d, <1>3, <2>2 DEF Returns, Popped, Pieces
  <2>4. Owed(b) /\ Comes(1, r, j) /\ b \in Coming[1].of
    BY <1>d, <2>1, <2>2, <2>3 DEF Owed, Comes
  <2>5. Settled(r, k, 1 - 1)
    BY <2>3, <2>4 DEF SettledInv
  <2>6. Through(r, k) \/ \E l \in DOMAIN replies : Waits(l, r, k)
    BY <2>5 DEF Settled
  <2>7. ASSUME NEW l \in DOMAIN replies, Waits(l, r, k)
        PROVE  l \in 1 .. i - 1 /\ (Waits(l, r, k))'
    <3>1. (Waits(l, r, k))'
      BY <2>1, <2>7 DEF Waits, Pushed
    <3> QED BY <1>b, <2>2, <3>1
  <2> QED BY <1>t, <2>6, <2>7
<1>4. CASE ~ (\E m \in Replies : Hears(m)) /\ ~ \E c \in Pieces, e \in Browsers : Returns(c, e)
  <2>1. replies' = replies
    BY <1>a, <1>4 DEF AnswerOptions, Keeps, Loses, Closes, Writes
  <2> QED BY <1>1, <1>4, <2>1 DEF Waits
<1>5. CASE \E c \in Pieces, e \in Browsers : Returns(c, e)
  <2>1. ~ \E m \in Replies : Hears(m)
    BY <1>5, FlowFacts DEF Returns, Hears, Popped
  <2> QED BY <1>1, <1>3, <1>5, <2>1
<1> QED BY <1>2, <1>4, <1>5

\* A browser that is owed an answer, and what its command finds settled.
LEMMA ComesInTurn ==
    ASSUME TypeInv, TypeInv', LinkInv, PhaseInv, KnownInv, PlaceInv, SettledInv, [Next]_vars,
           NEW i \in DOMAIN Coming', NEW b \in Browsers, b \in Coming'[i].of, (Owed(b))'
    PROVE  /\ \A r \in Requests, j \in 1 .. MaxPieces :
                 (Comes(i, r, j))' => \A k \in 1 .. j - 1 : (Settled(r, k, i - 1))'
           /\ Coming'[i].type = "ProxyDisconnect" => (Answered(b, i - 1))'
<1>a. AnswerOptions
  BY AnswerStep
<1>b. Owed(b) /\ excused \subseteq excused' /\ b \notin gone /\ phase[b] # "closed"
  BY OwedStep DEF TypeInv, Owed
<1>1. ASSUME NEW h \in DOMAIN Coming, WasAt(i, h)
      PROVE  /\ \A r \in Requests, j \in 1 .. MaxPieces :
                   (Comes(i, r, j))' => \A k \in 1 .. j - 1 : (Settled(r, k, i - 1))'
             /\ Coming'[i].type = "ProxyDisconnect" => (Answered(b, i - 1))'
  <2>1. /\ Coming'[i] = Coming[h] /\ b \in Coming[h].of /\ h - 1 \in Nat /\ i - 1 \in Nat
        /\ i - 1 = After(h - 1) /\ (Loses => h - 1 <= Len(Coming'))
    BY <1>1 DEF WasAt
  <2>2. ASSUME NEW r \in Requests, NEW j \in 1 .. MaxPieces, (Comes(i, r, j))',
               NEW k \in 1 .. j - 1
        PROVE  (Settled(r, k, i - 1))'
    <3>1. Comes(h, r, j) /\ Coming[h].type = "Proxy" /\ Coming[h].request = r
      BY <2>1, <2>2 DEF Comes
    <3>2. Coming[h].of = request[r].of
      BY <3>1 DEF PlaceInv
    <3>3. request[r].of = {b}
      BY <2>1, <3>2, OwnerFacts
    <3>4. request'[r].of = {b}
      BY <3>3, OfLater
    <3>5. Settled(r, k, h - 1)
      BY <1>b, <2>1, <3>1 DEF SettledInv
    <3> QED BY <1>a, <1>b, <2>1, <3>3, <3>4, <3>5, SettledStep
  <2>3. ASSUME Coming'[i].type = "ProxyDisconnect"
        PROVE  (Answered(b, i - 1))'
    <3>1. Answered(b, h - 1)
      BY <1>b, <2>1, <2>3 DEF SettledInv
    <3> QED BY <1>a, <1>b, <2>1, <3>1, AnsweredStep
  <2> QED BY <2>2, <2>3
<1>2. ASSUME NEW t \in Threads, Writes(t), i = Len(Coming) + 1, Coming'[i] = Command(t)
      PROVE  /\ \A r \in Requests, j \in 1 .. MaxPieces :
                   (Comes(i, r, j))' => \A k \in 1 .. j - 1 : (Settled(r, k, i - 1))'
             /\ Coming'[i].type = "ProxyDisconnect" => (Answered(b, i - 1))'
  <2>1. Sends(t) /\ alive
    BY <1>2 DEF Writes, SendWhole
  <2>2. /\ i - 1 = Len(Coming) /\ i - 1 \in Nat /\ Len(Coming) \in Nat
        /\ DOMAIN Coming = 1 .. Len(Coming)
    BY <1>2, FlowFacts
  <2>n. ~ Pops /\ ~ Loses
    <3>1. Len(Coming') = Len(Coming) + 1
      BY <1>2 DEF Writes, Pushed
    <3>2. Pops => Popped(Coming, Coming')
      BY DEF Pops, Closes, Returns
    <3>4. Len(Coming) + 1 # Len(Coming) - 1
      BY <2>2
    <3>5. ~ Pops
      BY <3>1, <3>2, <3>4 DEF Popped
    <3>3. ~ Loses
      BY <1>2, <2>1 DEF Loses, LinkLost, Writes, SendWhole, Sent
    <3> QED BY <3>3, <3>5
  <2>3. \A n \in Nat : After(n) = n
    BY <2>n DEF After
  <2>4. \A r, k : Settled(r, k, Room) => Settled(r, k, i - 1)
    BY <2>2 DEF Settled, Comes
  <2>5. ASSUME t \in Requests, b \in request[t].of, pc[t] \in {"send", "hangup"}
        PROVE  \A k \in 1 .. Given(t) : Settled(t, k, i - 1)
    BY <1>b, <2>1, <2>4, <2>5 DEF SettledInv
  <2>6. ASSUME NEW r \in Requests, NEW j \in 1 .. MaxPieces, (Comes(i, r, j))',
               NEW k \in 1 .. j - 1
        PROVE  (Settled(r, k, i - 1))'
    <3>1. /\ t = r /\ pc[r] = "send" /\ request[r].pieces = j /\ Coming'[i].of = request[r].of
      BY <1>2, <2>1, <2>6, SendsAnswer, ThreadFacts DEF Comes, Sends
    <3>2. Given(r) = j - 1 /\ b \in request[r].of
      BY <3>1, GivenFacts
    <3>3. Settled(r, k, i - 1)
      BY <2>5, <3>1, <3>2
    <3>4. request[r].of = {b}
      BY <3>2, OwnerFacts
    <3>5. request'[r].of = {b}
      BY <3>4, OfLater
    <3> QED BY <1>a, <1>b, <2>2, <2>3, <2>n, <3>3, <3>4, <3>5, SettledStep
  <2>7. ASSUME Coming'[i].type = "ProxyDisconnect"
        PROVE  (Answered(b, i - 1))'
    <3>1. CASE t = Receiver
      <4>1. Command(t).of = {cmd.of} /\ pc[t] = "send"
        BY <2>1, <3>1, SendsAnswer
      <4>2. b \in excused
        BY <1>2, <3>1, <4>1 DEF SettledInv
      <4> QED BY <1>b, <4>2 DEF Answered
    <3>2. CASE t # Receiver
      <4>1. t \in Requests /\ pc[t] = "hangup" /\ Command(t).of = request[t].of
        BY <1>2, <2>1, <2>7, <3>2, SendsAnswer, ThreadFacts DEF Sends
      <4>2. Ended(t) /\ Given(t) = request[t].pieces /\ b \in request[t].of
        BY <1>2, <4>1, GivenFacts DEF Ended
      <4>3. request[t].of = {b}
        BY <4>1, <4>2, OwnerFacts
      <4>4. \A k \in 1 .. request[t].pieces : Settled(t, k, i - 1)
        BY <2>5, <4>1, <4>2
      <4>5. Answered(b, i - 1)
        BY <4>1, <4>2, <4>3, <4>4 DEF Answered
      <4> QED BY <1>a, <1>b, <2>2, <2>3, <2>n, <4>5, AnsweredStep
    <3> QED BY <3>1, <3>2
  <2> QED BY <2>6, <2>7
<1> QED BY <1>a, <1>1, <1>2, OriginStep

\* Why nobody is hung up on too early.
LEMMA SettledInvStep ==
    ASSUME TypeInv, TypeInv', LinkInv, PhaseInv, KnownInv, PlaceInv, SettledInv, [Next]_vars,
           races' = {}
    PROVE  SettledInv'
<1>a. AnswerOptions /\ BrowsersType'
  BY AnswerStep DEF TypeInv
<1>b. /\ \A b \in Browsers : (Owed(b))' => Owed(b)
      /\ \A b \in Browsers : b \notin gone' => b \notin gone
      /\ excused \subseteq excused'
  BY <1>a, OwedStep
<1>o. \A b \in Browsers : Owed(b) => b \notin gone /\ phase[b] # "closed"
  BY DEF Owed
<1>1. ASSUME NEW i \in DOMAIN replies', NEW r \in Requests, NEW j \in 1 .. MaxPieces,
             (Waits(i, r, j))', replies'[i].to \notin gone', NEW k \in 1 .. j - 1
      PROVE  (Through(r, k))' \/ \E h \in 1 .. i - 1 : (Waits(h, r, k))'
  BY <1>1, SentInTurn
<1>2. ASSUME NEW i \in DOMAIN Coming', NEW b \in Coming'[i].of, (Owed(b))'
      PROVE  /\ \A r \in Requests, j \in 1 .. MaxPieces :
                   (Comes(i, r, j))' => \A k \in 1 .. j - 1 : (Settled(r, k, i - 1))'
             /\ Coming'[i].type = "ProxyDisconnect" => (Answered(b, i - 1))'
  <2>1. Coming'[i] \in Answers
    BY FlowLater
  <2>2. b \in Browsers
    BY <2>1 DEF Answers, Pieces, Closings
  <2> QED BY <1>2, <2>2, ComesInTurn
<1>3. ASSUME alive', NEW r \in Requests, pc'[r] \in {"run", "send", "end", "hangup"},
             NEW b \in request'[r].of, (Owed(b))', NEW k \in 1 .. Given(r)'
      PROVE  (Settled(r, k, Room))'
  <2>1. GoesOn(r)
    <3>1. ~ Begins(r)
      BY <1>3 DEF Begins
    <3> QED BY <3>1, RequestLater
  <2>2. pc[r] \in {"run", "send", "end", "hangup"} /\ request'[r].of = request[r].of
    BY <1>3, <2>1 DEF GoesOn
  <2>3. alive /\ ~ Loses
    <3>1. ~ Connect
      BY <2>2 DEF Connect
    <3> QED BY <1>3, <3>1, AliveStep DEF Loses
  <2>4. b \in request[r].of /\ request[r].of = {b} /\ b \in Browsers
    BY <1>3, <2>2, OwnerFacts
  <2>5. Owed(b) /\ b \notin gone /\ phase[b] # "closed"
    BY <1>3, <1>b, <1>o, <2>4
  <2>6. Given(r) \in Nat /\ Room \in Nat
    BY GivenFacts, FlowFacts
  <2>7. CASE k \in 1 .. Given(r)
    <3>1. Settled(r, k, Room)
      BY <2>2, <2>3, <2>4, <2>5, <2>7 DEF SettledInv
    <3>2. PICK a \in Nat : a = After(Room) /\ a <= Room
      BY <2>6 DEF After
    <3>3. (Settled(r, k, a))'
      BY <1>a, <2>2, <2>3, <2>4, <2>5, <2>6, <3>1, <3>2, SettledStep
    <3> QED BY <2>6, <3>2, <3>3, SettledMore DEF Room
  <2>8. CASE k \notin 1 .. Given(r)
    <3>1. /\ pc[r] = "send" /\ k = request[r].pieces /\ (SendWhole(r) \/ SendFails(r))
      BY <1>3, <2>1, <2>6, <2>8 DEF GoesOn
    <3>2. SendWhole(r)
      BY <2>3, <3>1 DEF SendFails
    <3>3. Writes(r)
      <4>1. Sends(r) /\ up' = Append(up, Command(r)) /\ handling' = handling
            /\ UNCHANGED <<replies, heard, dropped>>
        BY <3>2 DEF SendWhole, Sent, proxy, ghosts
      <4>2. Pushed(Coming, Coming', Command(r))
        BY <4>1, ThreadFacts, ComingPushed
      <4> QED BY <3>2, <4>1, <4>2 DEF Writes
    <3>4. Command(r).type = "Proxy" /\ Command(r).request = r /\ Command(r).piece = k
      BY <3>1, <3>2, SendsAnswer, ThreadFacts DEF SendWhole
    <3>5. PICK i \in DOMAIN Coming' : Coming'[i] = Command(r)
      BY <3>3 DEF Writes, Pushed
    <3>6. (Comes(i, r, k))'
      BY <3>4, <3>5 DEF Comes
    <3>7. i \in 1 .. Room
      BY <2>6, FlowLater
    <3> QED BY <3>6, <3>7 DEF Settled, Room
  <2> QED BY <2>7, <2>8
<1>4. ASSUME NEW b \in shut', (Owed(b))'
      PROVE  (Answered(b, 0))'
  <2>0. b \in Browsers /\ Owed(b) /\ b \notin gone /\ phase[b] # "closed"
    <3>1. b \in 1 .. Len(fdOf') /\ Len(fdOf') <= MaxBrowsers /\ Len(fdOf') \in Nat
      BY <1>a DEF BrowsersType
    <3>2. b \in Browsers
      BY <3>1, BoundFacts DEF Browsers
    <3> QED BY <1>4, <1>b, <1>o, <3>2
  <2>1. 0 = After(0) /\ (Loses => 0 <= Len(Coming'))
    BY FlowLater DEF After
  <2>2. Answered(b, 0) => (Answered(b, 0))'
    BY <1>a, <1>b, <2>0, <2>1, AnsweredStep
  <2>3. CASE b \in shut
    BY <2>0, <2>2, <2>3 DEF SettledInv
  <2>4. CASE b \in excused'
    BY <2>4 DEF Answered
  <2>5. CASE ProxyDisconnect /\ b \in Head(handling).of
    <3>1. PICK c \in Closings : Closes(c)
      <4>1. handling # <<>> /\ handling' = Tail(handling) /\ up' = up
        BY <2>5 DEF ProxyDisconnect, link
      <4>2. Popped(Coming, Coming') /\ Coming[1] = Head(handling)
        BY <4>1, ComingPopped
      <4>3. Head(handling).type = "ProxyDisconnect" /\ UNCHANGED <<replies, heard, dropped>>
        BY <2>5 DEF ProxyDisconnect
      <4>4. Head(handling) \in Answers
        BY <4>1, HeadTailProperties DEF TypeInv, VNCType
      <4>5. Head(handling) \in Closings
        BY <4>3, <4>4 DEF Answers, Pieces
      <4> QED BY <2>5, <4>2, <4>3, <4>5 DEF Closes
    <3>2. 1 \in DOMAIN Coming /\ Coming[1] = c /\ c = Head(handling) /\ c.type = "ProxyDisconnect"
      BY <3>1 DEF Closes, Popped, Closings
    <3>3. Answered(b, 1 - 1)
      BY <2>0, <2>5, <3>2 DEF SettledInv
    <3> QED BY <2>2, <3>3
  <2> QED BY <2>3, <2>4, <2>5, ShutStep DEF ShutWell
<1>5. ASSUME pc'[Receiver] = "send"
      PROVE  cmd'.of \in excused'
  BY <1>5, RefusedStep DEF SettledInv
<1>6. gone' \subseteq excused'
  BY <1>b, ShutStep DEF ShutWell, SettledInv
<1> QED BY <1>1, <1>2, <1>3, <1>4, <1>5, <1>6 DEF SettledInv

-----------------------------------------------------------------------------
(***************************************************************************)
(* What keeps somebody at work.                                            *)
(***************************************************************************)
\* A part of a command has a place in the socket.
LEMMA HalfStep ==
    ASSUME TypeInv, LinkInv, WorkInv, [Next]_vars
    PROVE  half' # Nobody => Len(up') < UpRoom
<1>a. half # Nobody => Len(up) < UpRoom
  BY DEF WorkInv
<1>b. up \in Seq(Answers) /\ Len(up) \in Nat /\ UpRoom \in Nat /\ UpRoom > 1
  BY BoundFacts DEF TypeInv, LinkType
<1> USE DEF browsers, proxy, link, peer, ghosts
<1>e. ASSUME UNCHANGED <<half, up>> \/ half' = Nobody
      PROVE  half' # Nobody => Len(up') < UpRoom
  BY <1>a, <1>e
<1>1. CASE (\E fd \in Fds : Accept(fd)) \/ SendReply \/ SendCommand \/ OnDisconnectVNC \/ OnCloseVNC
           \/ \E b \in DOMAIN fdOf : RecvPacket(b) \/ BrowserLeaves(b) \/ OnDisconnect(b)
                                     \/ Forward(b) \/ TurnAway(b)
  BY <1>e, <1>1 DEF Accept, SendReply, SendCommand, OnDisconnectVNC, OnCloseVNC, RecvPacket,
                    BrowserLeaves, OnDisconnect, Forward, TurnAway
<1>2. CASE ReturnVNC2Client \/ ProxyDisconnect \/ UNCHANGED vars \/ RecvFails \/ RecvCommand
           \/ Connect \/ LinkLost
  BY <1>e, <1>2 DEF ReturnVNC2Client, ProxyDisconnect, vars, RecvFails, RecvCommand, Connect,
                    LinkLost
<1>3. CASE RecvVNC
  <2>1. up # <<>> /\ up' = Tail(up) /\ half' = half
    BY <1>3 DEF RecvVNC
  <2>2. Len(Tail(up)) = Len(up) - 1
    BY <1>b, <2>1, HeadTailProperties
  <2> QED BY <1>a, <1>b, <2>1, <2>2
<1>4. CASE Parses
  BY <1>e, <1>4 DEF Parses, ParsedInPart, ParserFull, OnRecvProxyDisconnect, ParsedAll
<1>5. ASSUME NEW r \in Requests,
             OnReceiveBody(r) \/ RequestEnds(r) \/ OnSuccessOrFail(r) \/ UnlockAndDelete(r)
      PROVE  half' # Nobody => Len(up') < UpRoom
  BY <1>e, <1>5 DEF OnReceiveBody, RequestEnds, OnSuccessOrFail, UnlockAndDelete
<1>6. ASSUME NEW t \in Threads, SendWhole(t) \/ SendFails(t) \/ SendBetween(t)
      PROVE  half' # Nobody => Len(up') < UpRoom
  BY <1>e, <1>6 DEF SendWhole, SendFails, SendBetween
<1>7. ASSUME NEW t \in Threads, SendPart(t)
      PROVE  half' # Nobody => Len(up') < UpRoom
  BY <1>b, <1>7 DEF SendPart
<1> QED BY <1>1, <1>2, <1>3, <1>4, <1>5, <1>6, <1>7
        DEF Next, Program, Environment, MainThread, Handlers, VNCMain, VNCHandler, Receive, Parses,
            Send

\* What is left when the last but one of what is outstanding is done.
LEMMA OutstandingLast ==
    ASSUME TypeInv, NEW b \in Browsers
    PROVE  /\ packets[b] = 0 /\ ToOf(b) = {} => Outstanding(b) = 0
           /\ packets[b] = 1 /\ ToOf(b) = {} => Outstanding(b) = 1
           /\ \A i : packets[b] = 0 /\ ToOf(b) = {i} => Outstanding(b) = 1
<1>1. packets[b] \in Nat
  BY OutstandingFacts
<1>2. Outstanding(b) = packets[b] + Cardinality(ToOf(b))
  BY DEF Outstanding, ToOf
<1>3. Cardinality({}) = 0
  BY FS_EmptySet
<1>4. \A i : Cardinality({i}) = 1
  BY FS_Singleton
<1>5. ASSUME ToOf(b) = {}
      PROVE  Outstanding(b) = packets[b]
  BY <1>1, <1>2, <1>3, <1>5
<1>6. ASSUME NEW i, packets[b] = 0, ToOf(b) = {i}
      PROVE  Outstanding(b) = 1
  <2>1. Cardinality(ToOf(b)) = 1
    BY <1>4, <1>6
  <2> QED BY <1>2, <1>6, <2>1
<1> QED BY <1>5, <1>6

\* A browser that is leaving is closed with the last that is outstanding, and not before.
LEMMA BusyStep ==
    ASSUME TypeInv, PhaseInv, WorkInv, BrowsersType', [Next]_vars, NEW c \in Browsers
    PROVE  /\ phase'[c] = "leaving" => Busy(c)'
           /\ phase'[c] = "closed" => c \in shut'
<1> DEFINE Goal == (phase'[c] = "leaving" => Busy(c)') /\ (phase'[c] = "closed" => c \in shut')
<1>a. BrowsersType /\ RepliesType
  BY DEF TypeInv
<1>b. /\ DOMAIN fdOf \subseteq Browsers
      /\ replies \in Seq(Replies) /\ DOMAIN replies = 1 .. Len(replies) /\ Len(replies) \in Nat
  BY <1>a, AcceptedFacts DEF RepliesType
<1>c. /\ phase \in [Browsers -> {"new", "open", "leaving", "closed"}]
      /\ packets \in [Browsers -> 0 .. MaxPackets] /\ MaxPackets \in Nat
  BY <1>a, BoundFacts DEF BrowsersType
<1>d. /\ phase[c] = "leaving" => Busy(c)
      /\ phase[c] = "closed" => c \in shut
      /\ phase[c] = "leaving" => c \in shut
  BY DEF WorkInv, PhaseInv
<1> USE DEF browsers, proxy, link, peer, ghosts
<1>e. ASSUME UNCHANGED <<phase, packets, replies>>, shut \subseteq shut'
      PROVE  Goal
  BY <1>d, <1>e DEF Busy
<1>1. ASSUME NEW fd \in Fds, Accept(fd)
      PROVE  Goal
  <2>1. phase' = [phase EXCEPT ![Len(fdOf) + 1] = "open"] /\ UNCHANGED <<packets, replies, shut>>
    BY <1>1 DEF Accept
  <2>2. phase'[c] = phase[c] \/ phase'[c] = "open"
    BY <1>c, <2>1
  <2> QED BY <1>d, <2>1, <2>2 DEF Busy
<1>2. ASSUME NEW b \in DOMAIN fdOf, RecvPacket(b)
      PROVE  Goal
  <2>1. packets' = [packets EXCEPT ![b] = @ + 1] /\ UNCHANGED <<phase, replies, shut>>
    BY <1>2 DEF RecvPacket
  <2>2. packets[c] > 0 => packets'[c] > 0
    <3>1. packets[c] \in Nat /\ (packets'[c] = packets[c] \/ packets'[c] = packets[c] + 1)
      BY <1>c, <2>1
    <3> QED BY <3>1
  <2> QED BY <1>d, <2>1, <2>2 DEF Busy
<1>3. ASSUME NEW b \in DOMAIN fdOf, OnDisconnect(b)
      PROVE  Goal
  <2>1. /\ b \in shut /\ UNCHANGED <<packets, shut, replies>> /\ b \in Browsers
        /\ phase' = [phase EXCEPT ![b] = IF Outstanding(b) = 0 THEN "closed" ELSE "leaving"]
    BY <1>b, <1>3 DEF OnDisconnect
  <2>2. CASE c = b
    <3>1. phase'[c] = "leaving" => packets[c] # 0 \/ ToOf(c) # {}
      BY <1>c, <2>1, <2>2, OutstandingLast
    <3>2. packets[c] # 0 => packets[c] > 0
      BY <1>c
    <3> QED BY <2>1, <2>2, <3>1, <3>2 DEF Busy, ToOf
  <2>3. CASE c # b
    <3>1. phase'[c] = phase[c]
      BY <1>c, <2>1, <2>3
    <3> QED BY <1>d, <2>1, <3>1 DEF Busy
  <2> QED BY <2>2, <2>3
<1>4. ASSUME NEW b \in DOMAIN fdOf, Forward(b) \/ TurnAway(b)
      PROVE  Goal
  <2>1. /\ packets[b] > 0 /\ packets' = [packets EXCEPT ![b] = @ - 1] /\ b \in Browsers
        /\ UNCHANGED replies /\ shut \subseteq shut'
    BY <1>b, <1>4 DEF Forward, TurnAway
  <2>2. \/ CloseIfDone(b) /\ phase' = [phase EXCEPT ![b] = "closed"]
        \/ ~ CloseIfDone(b) /\ phase' = phase
    BY <1>4 DEF Forward, TurnAway, DoneWith
  <2>3. CASE c = b /\ CloseIfDone(b)
    <3>1. phase'[c] = "closed" /\ phase[c] = "leaving"
      BY <1>c, <2>1, <2>2, <2>3 DEF CloseIfDone
    <3> QED BY <1>d, <2>1, <3>1
  <2>4. CASE c = b /\ ~ CloseIfDone(b)
    <3>1. phase' = phase
      BY <2>2, <2>4
    <3>2. ASSUME phase[c] = "leaving"
          PROVE  Busy(c)'
      <4>1. Outstanding(c) # 1
        BY <2>4, <3>2 DEF CloseIfDone
      <4>2. packets[c] # 1 \/ ToOf(c) # {}
        BY <4>1, OutstandingLast
      <4>3. packets[c] # 1 => packets'[c] > 0
        <5>1. packets[c] \in Nat /\ packets[c] > 0 /\ packets'[c] = packets[c] - 1
          BY <1>c, <2>1, <2>4
        <5> QED BY <5>1
      <4> QED BY <2>1, <4>2, <4>3 DEF Busy, ToOf
    <3> QED BY <1>d, <2>1, <3>1, <3>2
  <2>5. CASE c # b
    <3>1. phase'[c] = phase[c] /\ packets'[c] = packets[c]
      BY <1>c, <2>1, <2>2, <2>5
    <3> QED BY <1>d, <2>1, <3>1 DEF Busy
  <2> QED BY <2>3, <2>4, <2>5
<1>5. CASE SendReply
  <2>1. PICK b : b = Head(replies).to
    OBVIOUS
  <2>2. /\ replies # <<>> /\ replies' = Tail(replies) /\ UNCHANGED <<packets, shut>>
        /\ \/ CloseIfDone(b) /\ phase' = [phase EXCEPT ![b] = "closed"]
           \/ ~ CloseIfDone(b) /\ phase' = phase
    BY <1>5, <2>1 DEF SendReply, DoneWith
  <2>3. Popped(replies, replies') /\ replies[1] = Head(replies)
    BY <1>b, <2>2, TailPopped
  <2>4. ASSUME NEW i \in DOMAIN replies, i # 1, replies[i].to = c
        PROVE  \E j \in DOMAIN replies' : replies'[j].to = c
    <3>1. i - 1 \in DOMAIN replies' /\ replies'[i - 1] = replies[i]
      BY <2>3, <2>4 DEF Popped
    <3> QED BY <2>4, <3>1
  <2>5. CASE c = b /\ CloseIfDone(b)
    <3>1. phase'[c] = "closed" /\ phase[c] = "leaving"
      BY <1>c, <2>2, <2>5 DEF CloseIfDone
    <3> QED BY <1>d, <2>2, <3>1
  <2>6. CASE c = b /\ ~ CloseIfDone(b)
    <3>1. phase' = phase
      BY <2>2, <2>6
    <3>2. ASSUME phase[c] = "leaving"
          PROVE  Busy(c)'
      <4>1. Outstanding(c) # 1
        BY <2>6, <3>2 DEF CloseIfDone
      <4>2. packets[c] # 0 \/ ToOf(c) # {1}
        BY <4>1, OutstandingLast
      <4>3. packets[c] # 0 => packets'[c] > 0
        BY <1>c, <2>2
      <4>4. 1 \in ToOf(c)
        BY <2>1, <2>3, <2>6 DEF Popped, ToOf
      <4>5. ToOf(c) # {1} => \E i \in ToOf(c) : i # 1
        BY <4>4
      <4>6. ToOf(c) # {1} => \E j \in DOMAIN replies' : replies'[j].to = c
        BY <2>4, <4>5 DEF ToOf
      <4> QED BY <4>2, <4>3, <4>6 DEF Busy
    <3> QED BY <1>d, <2>2, <3>1, <3>2
  <2>7. CASE c # b
    <3>1. phase'[c] = phase[c]
      BY <1>c, <2>2, <2>7
    <3>2. \A i \in DOMAIN replies : replies[i].to = c => i # 1
      BY <2>1, <2>3, <2>7
    <3> QED BY <1>d, <2>2, <2>4, <3>1, <3>2 DEF Busy
  <2> QED BY <2>5, <2>6, <2>7
<1>6. CASE ReturnVNC2Client
  <2>1. UNCHANGED <<phase, packets, shut>>
    BY <1>6 DEF ReturnVNC2Client
  <2>2. ASSUME NEW i \in DOMAIN replies
        PROVE  i \in DOMAIN replies' /\ replies'[i] = replies[i]
    <3>1. CASE replies' = replies
      BY <3>1
    <3>2. ASSUME NEW x, replies' = Append(replies, x)
          PROVE  i \in DOMAIN replies' /\ replies'[i] = replies[i]
      <4>1. replies \in Seq(Replies \cup {x}) /\ x \in Replies \cup {x}
        BY <1>b
      <4>2. Pushed(replies, Append(replies, x), x)
        BY <4>1, AppendPushed
      <4> QED BY <3>2, <4>2 DEF Pushed
    <3>3. replies' = replies \/ \E x : replies' = Append(replies, x)
      BY <1>6 DEF ReturnVNC2Client
    <3> QED BY <3>1, <3>2, <3>3
  <2>3. (\E i \in DOMAIN replies : replies[i].to = c)
        => \E i \in DOMAIN replies' : replies'[i].to = c
    BY <2>2
  <2> QED BY <1>d, <2>1, <2>3 DEF Busy
<1>7. CASE SendCommand \/ RecvVNC \/ OnDisconnectVNC \/ ProxyDisconnect \/ OnCloseVNC
           \/ \E b \in DOMAIN fdOf : BrowserLeaves(b)
  <2>1. UNCHANGED <<phase, packets, replies>>
    BY <1>7 DEF SendCommand, RecvVNC, OnDisconnectVNC, ProxyDisconnect, OnCloseVNC, BrowserLeaves
  <2>2. shut \subseteq shut'
    BY <1>7 DEF SendCommand, RecvVNC, OnDisconnectVNC, ProxyDisconnect, OnCloseVNC, ShutBrowsers,
                BrowserLeaves
  <2> QED BY <1>e, <2>1, <2>2
<1>8. CASE Connect \/ RecvFails \/ RecvCommand \/ LinkLost \/ UNCHANGED vars
  BY <1>e, <1>8 DEF Connect, RecvFails, RecvCommand, LinkLost, vars
<1>9. CASE Parses
  BY <1>e, <1>9 DEF Parses, ParsedInPart, ParserFull, OnRecvProxyDisconnect, ParsedAll
<1>10. ASSUME NEW r \in Requests,
              OnReceiveBody(r) \/ RequestEnds(r) \/ OnSuccessOrFail(r) \/ UnlockAndDelete(r)
       PROVE  Goal
  BY <1>e, <1>10 DEF OnReceiveBody, RequestEnds, OnSuccessOrFail, UnlockAndDelete
<1>11. ASSUME NEW t \in Threads, Send(t)
       PROVE  Goal
  BY <1>e, <1>11 DEF Send, SendWhole, SendFails, Sent, SendPart, SendBetween
<1> QED BY <1>1, <1>2, <1>3, <1>4, <1>5, <1>6, <1>7, <1>8, <1>9, <1>10, <1>11
        DEF Next, Program, Environment, MainThread, Handlers, VNCMain, VNCHandler, Receive, Parses

\* Every step keeps somebody at work.
LEMMA WorkStep ==
    ASSUME TypeInv, LinkInv, PhaseInv, WorkInv, BrowsersType', [Next]_vars
    PROVE  WorkInv'
<1>1. half' # Nobody => Len(up') < UpRoom
  BY HalfStep
<1>2. \A c \in Browsers : /\ phase'[c] = "leaving" => Busy(c)'
                          /\ phase'[c] = "closed" => c \in shut'
  BY BusyStep
<1> QED BY <1>1, <1>2 DEF WorkInv

-----------------------------------------------------------------------------
(***************************************************************************)
(* How a browser that is served will be hung up on.                        *)
(***************************************************************************)
\* Who was shut down stays so, the link comes back with Connect only, and the peer's
\* Client goes with OnCloseVNC only.
LEMMA ShutLater ==
    ASSUME [Next]_vars
    PROVE  /\ shut \subseteq shut'
           /\ alive' /\ ~ Connect => alive' = alive
           /\ vnc' = "none" => vnc = "none" \/ OnCloseVNC
<1> DEFINE Goal == /\ shut \subseteq shut'
                   /\ alive' /\ ~ Connect => alive' = alive
                   /\ vnc' = "none" => vnc = "none" \/ OnCloseVNC
<1> USE DEF browsers, proxy, link, peer, ghosts
<1>e. ASSUME shut \subseteq shut', UNCHANGED <<alive, vnc>>
      PROVE  Goal
  BY <1>e
<1>1. CASE (\E fd \in Fds : Accept(fd)) \/ SendReply \/ SendCommand \/ RecvVNC \/ ReturnVNC2Client
           \/ ProxyDisconnect \/ RecvFails \/ RecvCommand \/ UNCHANGED vars
  BY <1>e, <1>1 DEF Accept, SendReply, SendCommand, RecvVNC, ReturnVNC2Client, ProxyDisconnect,
                    RecvFails, RecvCommand, vars
<1>2. ASSUME NEW b \in DOMAIN fdOf,
             \/ RecvPacket(b) \/ BrowserLeaves(b) \/ OnDisconnect(b) \/ Forward(b) \/ TurnAway(b)
      PROVE  Goal
  BY <1>e, <1>2 DEF RecvPacket, BrowserLeaves, OnDisconnect, Forward, TurnAway, SendClient2VNC
<1>3. CASE OnDisconnectVNC \/ OnCloseVNC \/ Connect \/ LinkLost
  BY <1>3 DEF OnDisconnectVNC, OnCloseVNC, ShutBrowsers, Connect, LinkLost
<1>4. CASE Parses
  BY <1>e, <1>4 DEF Parses, ParsedInPart, ParserFull, OnRecvProxyDisconnect, ParsedAll
<1>5. ASSUME NEW r \in Requests,
             OnReceiveBody(r) \/ RequestEnds(r) \/ OnSuccessOrFail(r) \/ UnlockAndDelete(r)
      PROVE  Goal
  BY <1>e, <1>5 DEF OnReceiveBody, RequestEnds, OnSuccessOrFail, UnlockAndDelete
<1>6. ASSUME NEW t \in Threads, Send(t)
      PROVE  Goal
  BY <1>e, <1>6 DEF Send, SendWhole, SendFails, Sent, SendPart, SendBetween
<1> QED BY <1>1, <1>2, <1>3, <1>4, <1>5, <1>6
        DEF Next, Program, Environment, MainThread, Handlers, VNCMain, VNCHandler, Receive, Parses

\* The receiving thread takes the command in hand from the way.
LEMMA ParsesPop ==
    ASSUME TypeInv, Parses
    PROVE  /\ Popped(Going, Going') /\ Going[1] = cmd /\ cmd \in Range(Going) /\ cmd \in ToPeer
           /\ pc[Receiver] \in {"parse", "erase"} /\ pc'[Receiver] \notin {"parse", "erase"}
           /\ cmd.type = "Proxy" <=> pc[Receiver] = "parse"
           /\ alive' = alive
<1>a. PlacesType
  BY DEF TypeInv
<1>1. /\ pc[Receiver] \in {"parse", "erase"} /\ pc'[Receiver] \notin {"parse", "erase"}
      /\ UNCHANGED <<down, sending, alive>>
  BY <1>a, ThreadFacts DEF Parses, ParsedInPart, ParserFull, OnRecvProxyDisconnect,
                           ParsedAll, At, Goto, PlacesType, proxy, link, peer
<1> QED BY <1>1, GoingPopped, InHandGoing

\* Where a request was before a step.
PlacesBefore(r) ==
    /\ pc'[r] \in {"run", "send", "end"} => pc[r] \in {"run", "send", "end"}
    /\ pc'[r] \in {"unlock", "deleted"} =>
          \/ pc[r] \in {"unlock", "deleted"}
          \/ pc[r] = "end" /\ OnSuccessOrFail(r) /\ ~ HasParser(request[r].fd)
          \/ pc[r] = "hangup" /\ (SendWhole(r) \/ SendFails(r))

\* A request that is begun serves the browser whose packet is in hand.
LEMMA BegunFor ==
    ASSUME TypeInv, KnownInv, ErasedInv, NEW r \in Requests, Begins(r)
    PROVE  /\ request'[r].of = {cmd.of} /\ cmd.of \in DOMAIN fdOf /\ fdOf[cmd.of] = cmd.fd
           /\ Parses /\ pc[Receiver] = "parse" /\ cmd.type = "Proxy" /\ pc'[r] = "run"
           /\ parser' = Fed
<1>1. ParsedAll(r) /\ pc[Receiver] = "parse" /\ pc'[r] = "run" /\ Parses /\ parser' = Fed
  BY DEF Begins, Parses, ParsedAll
<1>2. cmd \in Range(Going) /\ cmd \in ToPeer /\ cmd.type = "Proxy"
  BY <1>1, InHandGoing
<1>3. Known(cmd.fd, cmd.seq, cmd.of)
  BY <1>2 DEF KnownInv
<1>4. parser[cmd.fd] \subseteq {cmd.of}
  BY <1>1 DEF ErasedInv
<1> QED BY <1>1, <1>2, <1>3, <1>4 DEF Begins, Known

\* A step begins a request, or it was at a place before.
LEMMA PlacesLater ==
    ASSUME TypeInv, TypeInv', [Next]_vars, NEW r \in Requests
    PROVE  Begins(r) \/ (GoesOn(r) /\ PlacesBefore(r))
<1>a. PlacesType
  BY DEF TypeInv
<1>b. Begins(r) \/ GoesOn(r)
  BY RequestLater
<1> USE DEF At, Goto, PlacesType
<1>e. ASSUME pc'[r] = pc[r]
      PROVE  PlacesBefore(r)
  BY <1>e DEF PlacesBefore
<1>1. CASE request' = request /\ \A q \in Requests : pc'[q] = pc[q]
  BY <1>1, <1>b, <1>e
<1>2. ASSUME NEW q \in Requests, ParsedAll(q)
      PROVE  Begins(r) \/ PlacesBefore(r)
  <2>1. pc'[r] = pc[r] \/ (q = r /\ pc[r] = "none")
    BY <1>2, <1>a, ThreadFacts DEF ParsedAll
  <2>2. pc'[q] = "run" /\ pc[q] = "none"
    BY <1>2, <1>a, ThreadFacts DEF ParsedAll
  <2>3. GoesOn(q) => FALSE
    BY <2>2 DEF GoesOn
  <2> QED BY <1>b, <1>e, <2>1, <2>3
<1>3. ASSUME NEW q \in Requests, OnReceiveBody(q) \/ RequestEnds(q) \/ UnlockAndDelete(q)
      PROVE  PlacesBefore(r)
  <2>1. \/ q # r
        \/ pc[r] = "run" /\ pc'[r] \in {"send", "end"}
        \/ pc[r] = "unlock" /\ pc'[r] = "deleted"
    BY <1>3, <1>a, ThreadFacts DEF OnReceiveBody, RequestEnds, UnlockAndDelete
  <2>2. q # r => pc'[r] = pc[r]
    BY <1>3, <1>a, ThreadFacts DEF OnReceiveBody, RequestEnds, UnlockAndDelete
  <2> QED BY <1>e, <2>1, <2>2 DEF PlacesBefore
<1>4. ASSUME NEW q \in Requests, OnSuccessOrFail(q)
      PROVE  PlacesBefore(r)
  <2>1. q # r => pc'[r] = pc[r]
    BY <1>4, <1>a, ThreadFacts DEF OnSuccessOrFail
  <2>2. q = r => /\ pc[r] = "end" /\ pc'[r] \in {"hangup", "unlock"}
                 /\ pc'[r] = "unlock" => ~ HasParser(request[r].fd)
    BY <1>4, <1>a, ThreadFacts DEF OnSuccessOrFail
  <2> QED BY <1>e, <1>4, <2>1, <2>2 DEF PlacesBefore
<1>5. ASSUME NEW q \in Requests, SendWhole(q) \/ SendFails(q)
      PROVE  PlacesBefore(r)
  <2>1. q # r => pc'[r] = pc[r]
    BY <1>5, <1>a, ThreadFacts DEF SendWhole, SendFails, Sent
  <2>2. q = r => \/ pc[r] = "send" /\ pc'[r] = "run"
                 \/ pc[r] = "hangup" /\ pc'[r] = "unlock"
    BY <1>5, <1>a, ThreadFacts DEF SendWhole, SendFails, Sent, Sends, AfterSend
  <2> QED BY <1>e, <1>5, <2>1, <2>2 DEF PlacesBefore
<1> QED BY <1>1, <1>2, <1>3, <1>4, <1>5, <1>b, RequestStep DEF RequestOptions

\* Whom a request serves after a step was accepted before it.
LEMMA AcceptedStep ==
    ASSUME TypeInv, PhaseInv, KnownInv, ErasedInv, Accepted, TypeInv', [Next]_vars,
           NEW r \in Requests
    PROVE  request'[r].of \subseteq DOMAIN fdOf
<1>1. CASE Begins(r)
  BY <1>1, BegunFor
<1>2. CASE GoesOn(r)
  BY <1>2 DEF GoesOn, Accepted
<1> QED BY <1>1, <1>2, RequestLater

\* Who was not shut down is open.
LEMMA OpenFacts ==
    ASSUME TypeInv, PhaseInv, WorkInv, NEW b \in DOMAIN fdOf, b \notin shut
    PROVE  /\ phase[b] = "open" /\ b \in Browsers /\ fdOf[b] \in Fds
           /\ Holder(fdOf[b]) = {b}
<1>1. BrowsersType
  BY DEF TypeInv
<1>2. b \in Browsers /\ fdOf[b] \in Fds
  BY <1>1, AcceptedFacts
<1>3. phase[b] \in {"new", "open", "leaving", "closed"} /\ phase[b] # "new"
  BY <1>1, <1>2, HolderFacts DEF BrowsersType
<1>4. phase[b] = "open"
  BY <1>2, <1>3 DEF PhaseInv, WorkInv
<1> QED BY <1>1, <1>2, <1>4, HolderFacts

\* EraseBehind, for one browser.
Behind(g, fd, b) == \A k \in DOMAIN g, j \in DOMAIN g :
                       ErasesIn(g, k, fd) /\ PacketIn(g, j, fd, b) => k < j

BehindBefore(b) ==
    /\ Behind(Going, fdOf[b], b)
    /\ \A k \in DOMAIN Going, r \in Requests :
          ErasesIn(Going, k, fdOf[b]) /\ b \in request[r].of => pc[r] \notin {"run", "send", "end"}

\* EraseBehind, in these words.
LEMMA EraseBehindFacts ==
    ASSUME EraseBehind, alive, NEW b \in DOMAIN fdOf, b \notin shut
    PROVE  BehindBefore(b)
BY DEF EraseBehind, BehindBefore, Behind, ErasesIn, PacketIn, Erases, Packet

\* While the connection lasts, what is on the way changes in three ways for a browser
\* that is not shut down.
LEMMA WayStep ==
    ASSUME TypeInv, LinkInv, PhaseInv, WorkInv, TypeInv', [Next]_vars, alive, alive',
           NEW b \in DOMAIN fdOf, b \notin shut
    PROVE  \/ Going' = Going /\ parser' = parser
           \/ \E x : /\ Pushed(Going, Going', x) /\ parser' = parser
                     /\ x.type = "Proxy" /\ x.of \in DOMAIN fdOf
           \/ \E x : /\ Pushed(Going, Going', x) /\ parser' = parser
                     /\ x.type = "ProxyDisconnect" /\ x.fd # fdOf[b]
           \/ Parses /\ Popped(Going, Going') /\ Going[1] = cmd
<1>1. GoingOptions /\ ~ LinkLost
  BY GoingStep, AliveStep
<1>2. ASSUME NEW c \in DOMAIN fdOf, OnDisconnect(c)
      PROVE  /\ Sent2VNC("ProxyDisconnect", c).type = "ProxyDisconnect"
             /\ Sent2VNC("ProxyDisconnect", c).fd # fdOf[b]
  <2>1. phase[b] = "open" /\ phase[c] = "open" /\ c \in shut
    BY <1>2, OpenFacts DEF OnDisconnect
  <2>2. fdOf[c] = fdOf[b] => c = b
    BY <2>1 DEF PhaseInv
  <2> QED BY <2>1, <2>2 DEF Sent2VNC
<1>3. ASSUME NEW c \in DOMAIN fdOf
      PROVE  Sent2VNC("Proxy", c).type = "Proxy" /\ Sent2VNC("Proxy", c).of = c
  BY DEF Sent2VNC
<1> QED BY <1>1, <1>2, <1>3 DEF GoingOptions

\* Commands that erase the parser of a browser that is not shut down were on the way.
LEMMA BehindStep ==
    ASSUME TypeInv, LinkInv, PhaseInv, WorkInv, KnownInv, ErasedInv, EndInv, TypeInv', [Next]_vars,
           alive, alive', NEW b \in DOMAIN fdOf, b \notin shut
    PROVE  /\ Behind(Going', fdOf[b], b)
           /\ \A k \in DOMAIN Going', r \in Requests :
                 ErasesIn(Going', k, fdOf[b]) /\ b \in request'[r].of
                    => pc'[r] \notin {"run", "send", "end"}
<1> DEFINE fd == fdOf[b]
<1>a. /\ Going \in Seq(ToPeer) /\ Going' \in Seq(ToPeer)
      /\ DOMAIN Going = 1 .. Len(Going) /\ Len(Going) \in Nat
  BY FlowFacts, FlowLater
<1>b. BehindBefore(b)
  BY EraseBehindFacts DEF EndInv
<1>c. /\ Behind(Going, fd, b)
      /\ \A k \in DOMAIN Going, r \in Requests :
            ErasesIn(Going, k, fd) /\ b \in request[r].of => pc[r] \notin {"run", "send", "end"}
  BY <1>b DEF BehindBefore
<1>d. ASSUME NEW r \in Requests, ~ Begins(r), \E k \in DOMAIN Going : ErasesIn(Going, k, fd),
             b \in request'[r].of
      PROVE  pc'[r] \notin {"run", "send", "end"}
  <2>1. GoesOn(r) /\ PlacesBefore(r)
    BY <1>d, PlacesLater
  <2>2. b \in request[r].of
    BY <1>d, <2>1 DEF GoesOn
  <2> QED BY <1>c, <1>d, <2>1, <2>2 DEF PlacesBefore
<1>e. ASSUME NEW r \in Requests, Begins(r), b \in request'[r].of
      PROVE  /\ Parses /\ PacketIn(Going, 1, fd, b) /\ 1 \in DOMAIN Going
  <2>1. request'[r].of = {cmd.of} /\ fdOf[cmd.of] = cmd.fd /\ Parses /\ cmd.type = "Proxy"
    BY <1>e, BegunFor
  <2>2. Popped(Going, Going') /\ Going[1] = cmd
    BY <2>1, ParsesPop
  <2> QED BY <1>e, <2>1, <2>2 DEF Popped, PacketIn
<1>1. CASE Going' = Going /\ ~ Parses
  <2>1. Behind(Going', fd, b)
    BY <1>1, <1>c
  <2> QED BY <1>1, <1>d, <1>e, <2>1
<1>2. ASSUME NEW x, Pushed(Going, Going', x), ~ Parses, x.type = "Proxy"
      PROVE  /\ Behind(Going', fd, b)
             /\ \A k \in DOMAIN Going', r \in Requests :
                   ErasesIn(Going', k, fd) /\ b \in request'[r].of
                      => pc'[r] \notin {"run", "send", "end"}
  <2>1. \A k \in DOMAIN Going' : ErasesIn(Going', k, fd) => k \in DOMAIN Going
                                                            /\ ErasesIn(Going, k, fd)
    BY <1>2 DEF Pushed, ErasesIn
  <2>2. \A j \in DOMAIN Going' : PacketIn(Going', j, fd, b) =>
           j = Len(Going) + 1 \/ (j \in DOMAIN Going /\ PacketIn(Going, j, fd, b))
    BY <1>2 DEF Pushed, PacketIn
  <2>3. \A k \in DOMAIN Going : k < Len(Going) + 1
    BY <1>a
  <2>4. Behind(Going', fd, b)
    BY <1>c, <2>1, <2>2, <2>3 DEF Behind
  <2> QED BY <1>2, <1>d, <1>e, <2>1, <2>4
<1>3. ASSUME NEW x, Pushed(Going, Going', x), ~ Parses, x.type = "ProxyDisconnect", x.fd # fd
      PROVE  /\ Behind(Going', fd, b)
             /\ \A k \in DOMAIN Going', r \in Requests :
                   ErasesIn(Going', k, fd) /\ b \in request'[r].of
                      => pc'[r] \notin {"run", "send", "end"}
  <2>1. \A k \in DOMAIN Going' : ErasesIn(Going', k, fd) => k \in DOMAIN Going
                                                            /\ ErasesIn(Going, k, fd)
    BY <1>3 DEF Pushed, ErasesIn
  <2>2. \A j \in DOMAIN Going' : PacketIn(Going', j, fd, b) =>
           j \in DOMAIN Going /\ PacketIn(Going, j, fd, b)
    BY <1>3 DEF Pushed, PacketIn
  <2>3. Behind(Going', fd, b)
    BY <1>c, <2>1, <2>2 DEF Behind
  <2> QED BY <1>3, <1>d, <1>e, <2>1, <2>3
<1>4. CASE Parses
  <2>1. Popped(Going, Going')
    BY <1>4, ParsesPop
  <2>2. \A i \in DOMAIN Going' : i \in Nat /\ i > 0 /\ i + 1 \in DOMAIN Going
    BY <1>a, <2>1, ShiftFacts
  <2>3. \A i \in DOMAIN Going' : /\ PacketIn(Going', i, fd, b) => PacketIn(Going, i + 1, fd, b)
                                 /\ ErasesIn(Going', i, fd) => ErasesIn(Going, i + 1, fd)
    BY <2>1 DEF Popped, PacketIn, ErasesIn
  <2>4. ASSUME NEW k \in DOMAIN Going', NEW j \in DOMAIN Going', ErasesIn(Going', k, fd),
               PacketIn(Going', j, fd, b)
        PROVE  k < j
    <3>1. k + 1 < j + 1
      BY <1>c, <2>2, <2>3, <2>4 DEF Behind
    <3> QED BY <2>2, <3>1
  <2>5. Behind(Going', fd, b)
    BY <2>4 DEF Behind
  <2>6. ASSUME NEW k \in DOMAIN Going', NEW r \in Requests, ErasesIn(Going', k, fd),
               b \in request'[r].of
        PROVE  pc'[r] \notin {"run", "send", "end"}
    <3>1. k + 1 \in DOMAIN Going /\ ErasesIn(Going, k + 1, fd) /\ k \in Nat /\ k > 0
      BY <2>2, <2>3, <2>6
    <3>2. ~ Begins(r)
      <4>1. SUFFICES ASSUME Begins(r) PROVE FALSE
        OBVIOUS
      <4>2. PacketIn(Going, 1, fd, b) /\ 1 \in DOMAIN Going
        BY <1>e, <2>6, <4>1
      <4>3. k + 1 < 1
        BY <1>c, <3>1, <4>2 DEF Behind
      <4> QED BY <3>1, <4>3
    <3> QED BY <1>d, <2>6, <3>1, <3>2
  <2> QED BY <2>5, <2>6
<1>5. \/ Going' = Going
      \/ \E x : Pushed(Going, Going', x) /\ x.type = "Proxy"
      \/ \E x : Pushed(Going, Going', x) /\ x.type = "ProxyDisconnect" /\ x.fd # fd
      \/ Parses
  BY WayStep
<1> QED BY <1>1, <1>2, <1>3, <1>4, <1>5

\* What is on the way is of browsers that were accepted before.
LEMMA WayOf ==
    ASSUME TypeInv, LinkInv, KnownInv, TypeInv', [Next]_vars, alive, alive',
           NEW b, NEW fd, NEW j, PacketIn(Going', j, fd, b)
    PROVE  b \in DOMAIN fdOf
<1>1. Going \in Seq(ToPeer)
  BY FlowFacts
<1>2. GoingOptions /\ ~ LinkLost
  BY GoingStep, AliveStep
<1>3. ASSUME NEW i \in DOMAIN Going, Going[i].type = "Proxy"
      PROVE  Going[i].of \in DOMAIN fdOf
  <2>1. Going[i] \in Range(Going)
    BY <1>3 DEF Range
  <2> QED BY <1>3, <2>1 DEF KnownInv, Known
<1>4. CASE \E i \in DOMAIN Going : Going'[j] = Going[i]
  BY <1>3, <1>4 DEF PacketIn
<1>5. CASE \E c \in DOMAIN fdOf : \E type : Going'[j] = Sent2VNC(type, c)
  BY <1>5 DEF PacketIn, Sent2VNC
<1> QED BY <1>2, <1>4, <1>5 DEF GoingOptions, Pushed, Popped, PacketIn

\* Nothing erases the parser of a browser behind its packet.
LEMMA EraseBehindStep ==
    ASSUME TypeInv, LinkInv, PhaseInv, WorkInv, KnownInv, ErasedInv, EndInv, TypeInv', [Next]_vars,
           races' = {}
    PROVE  EraseBehind'
<1> DEFINE Then(b) ==
      /\ Behind(Going', fdOf'[b], b)
      /\ \A k \in DOMAIN Going', r \in Requests :
            ErasesIn(Going', k, fdOf'[b]) /\ b \in request'[r].of
               => pc'[r] \notin {"run", "send", "end"}
<1>1. SUFFICES ASSUME alive', NEW b \in DOMAIN fdOf' \ shut'
               PROVE  Then(b)
  BY DEF EraseBehind, Erases, Packet, Behind, ErasesIn, PacketIn
<1>2. CASE Connect
  <2>1. DOMAIN Going' = {}
    BY <1>2, ConnectEmpty
  <2> QED BY <2>1 DEF Behind
<1>3. CASE ~ Connect
  <2>1. alive
    BY <1>1, <1>3, AliveStep
  <2>2. CASE b \in DOMAIN fdOf
    <3>1. b \notin shut /\ fdOf'[b] = fdOf[b]
      BY <2>2, ShutLater, BrowsersLater DEF TypeInv
    <3> QED BY <1>1, <2>1, <2>2, <3>1, BehindStep
  <2>3. CASE b \notin DOMAIN fdOf
    <3>1. \A j, fd : ~ PacketIn(Going', j, fd, b)
      BY <1>1, <2>1, <2>3, WayOf
    <3>2. \A r \in Requests : b \notin request'[r].of
      BY <2>3, AcceptedStep DEF EndInv
    <3> QED BY <3>1, <3>2 DEF Behind
  <2> QED BY <2>2, <2>3
<1> QED BY <1>2, <1>3

\* The request of a browser finds its parser.
LEMMA ParserKeptStep ==
    ASSUME TypeInv, LinkInv, PhaseInv, WorkInv, KnownInv, ErasedInv, EndInv, TypeInv', [Next]_vars,
           races' = {}
    PROVE  ParserKept'
<1>1. SUFFICES ASSUME alive', NEW r \in Requests, pc'[r] \in {"run", "send", "end"},
                      NEW b \in request'[r].of \ shut'
               PROVE  b \in parser'[fdOf'[b]]
  BY DEF ParserKept
<1>2. CASE Connect
  <2>1. pc'[r] = pc[r] /\ pc[r] \in {"none", "deleted"}
    BY <1>2, ConnectEmpty DEF Connect
  <2> QED BY <1>1, <2>1
<1>3. CASE ~ Connect
  <2>1. alive
    BY <1>1, <1>3, AliveStep
  <2>2. b \in DOMAIN fdOf
    BY <1>1, AcceptedStep DEF EndInv
  <2>3. b \notin shut /\ fdOf'[b] = fdOf[b]
    BY <1>1, <2>2, ShutLater, BrowsersLater DEF TypeInv
  <2>4. fdOf[b] \in Fds /\ parser \in [Fds -> SUBSET Browsers]
    BY <2>2, <2>3, OpenFacts DEF TypeInv, RequestsType
  <2>5. CASE Begins(r)
    <3>1. b = cmd.of /\ fdOf[b] = cmd.fd /\ parser' = Fed
      BY <1>1, <2>5, BegunFor
    <3> QED BY <2>3, <2>4, <3>1 DEF Fed
  <2>6. CASE ~ Begins(r)
    <3>1. pc[r] \in {"run", "send", "end"} /\ b \in request[r].of
      BY <1>1, <2>6, PlacesLater DEF GoesOn, PlacesBefore
    <3>2. b \in parser[fdOf[b]]
      BY <2>1, <2>3, <3>1 DEF EndInv, ParserKept
    <3>3. CASE parser' = parser
      BY <2>3, <3>2, <3>3
    <3>4. CASE Parses
      <4>1. Popped(Going, Going') /\ Going[1] = cmd /\ cmd \in ToPeer
            /\ (cmd.type = "Proxy" <=> pc[Receiver] = "parse")
        BY <3>4, ParsesPop
      <4>2. parser' = parser \/ parser' = Fed \/ OnRecvProxyDisconnect
        BY <3>4 DEF Parses, ParsedInPart, ParsedAll, ParserFull
      <4>3. CASE parser' = Fed
        BY <2>3, <2>4, <3>2, <4>3 DEF Fed
      <4>4. CASE OnRecvProxyDisconnect
        <5>1. pc[Receiver] = "erase" /\ parser' = [parser EXCEPT ![cmd.fd] = {}]
          BY <4>4 DEF OnRecvProxyDisconnect, At
        <5>2. cmd.type = "ProxyDisconnect" /\ 1 \in DOMAIN Going
          BY <4>1, <5>1 DEF ToPeer, Popped
        <5>3. cmd.fd # fdOf[b]
          <6>1. SUFFICES ASSUME cmd.fd = fdOf[b] PROVE FALSE
            OBVIOUS
          <6>2. ErasesIn(Going, 1, fdOf[b])
            BY <4>1, <5>2, <6>1 DEF ErasesIn
          <6>3. BehindBefore(b)
            BY <2>1, <2>2, <2>3, EraseBehindFacts DEF EndInv
          <6> QED BY <3>1, <5>2, <6>2, <6>3 DEF BehindBefore
        <5> QED BY <2>3, <2>4, <3>2, <5>1, <5>3
      <4> QED BY <3>3, <4>2, <4>3, <4>4
    <3>5. parser' = parser \/ Parses
      BY <1>1, <2>1, <2>2, <2>3, WayStep
    <3> QED BY <3>3, <3>4, <3>5
  <2> QED BY <2>5, <2>6
<1> QED BY <1>2, <1>3

\* A ProxyDisconnect stays on its way until it is handled.
LEMMA HangupLater ==
    ASSUME TypeInv, LinkInv, PhaseInv, WorkInv, TypeInv', [Next]_vars, alive, alive',
           NEW b \in DOMAIN fdOf, b \notin shut', Hangup(b)
    PROVE  \E i \in DOMAIN Coming' : Coming'[i].type = "ProxyDisconnect" /\ Coming'[i].fd = fdOf[b]
<1>1. b \notin shut /\ ~ LinkLost
  BY ShutLater, AliveStep
<1>2. Holder(fdOf[b]) = {b}
  BY <1>1, OpenFacts
<1>3. PICK i \in DOMAIN Coming : Coming[i].type = "ProxyDisconnect" /\ Coming[i].fd = fdOf[b]
  BY DEF Hangup
<1>4. CASE Coming' = Coming \/ \E t \in Threads : Pushed(Coming, Coming', Command(t))
  BY <1>3, <1>4 DEF Pushed
<1>5. CASE Popped(Coming, Coming') /\ i # 1
  BY <1>3, <1>5 DEF Popped
<1>6. ASSUME ReturnVNC2Client, Coming[1] = Head(handling)
      PROVE  i # 1
  BY <1>3, <1>6 DEF ReturnVNC2Client
<1>7. ASSUME ProxyDisconnect, Coming[1] = Head(handling)
      PROVE  i # 1
  <2>1. shut' = shut \cup Holder(Head(handling).fd)
    BY <1>7 DEF ProxyDisconnect
  <2> QED BY <1>2, <1>3, <1>7, <2>1
<1> QED BY <1>1, <1>4, <1>5, <1>6, <1>7, ComingStep DEF ComingOptions

\* A request sends a ProxyDisconnect before it is deleted.
LEMMA HangupComesStep ==
    ASSUME TypeInv, LinkInv, PhaseInv, WorkInv, KnownInv, ErasedInv, EndInv, TypeInv', [Next]_vars
    PROVE  HangupComes'
<1>1. SUFFICES ASSUME alive', NEW r \in Requests, pc'[r] \in {"unlock", "deleted"},
                      NEW b \in request'[r].of \ shut'
               PROVE  \E i \in DOMAIN Coming' : Coming'[i].type = "ProxyDisconnect"
                                                /\ Coming'[i].fd = fdOf'[b]
  BY DEF HangupComes, Hangup
<1>2. CASE Connect
  <2>1. vnc = "none" /\ request' = request /\ shut' = shut
    BY <1>2 DEF Connect, browsers
  <2>2. request[r].of \subseteq shut
    BY <2>1 DEF EndInv, ShutWithPeer
  <2> QED BY <1>1, <2>1, <2>2
<1>3. CASE ~ Connect
  <2>1. alive
    BY <1>1, <1>3, AliveStep
  <2>2. b \in DOMAIN fdOf
    BY <1>1, AcceptedStep DEF EndInv
  <2>3. b \notin shut /\ fdOf'[b] = fdOf[b]
    BY <1>1, <2>2, ShutLater, BrowsersLater DEF TypeInv
  <2>4. ~ Begins(r)
    BY <1>1 DEF Begins
  <2>5. b \in request[r].of /\ PlacesBefore(r)
    BY <1>1, <2>4, PlacesLater DEF GoesOn
  <2>6. CASE pc[r] \in {"unlock", "deleted"}
    <3>1. Hangup(b)
      BY <2>1, <2>3, <2>5, <2>6 DEF EndInv, HangupComes
    <3> QED BY <1>1, <2>1, <2>2, <2>3, <3>1, HangupLater
  <2>7. pc[r] \notin {"none", "deleted"} => request[r].fd = fdOf[b]
    BY <2>5 DEF KnownInv, Known
  <2>8. CASE pc[r] = "end" /\ ~ HasParser(request[r].fd)
    <3>1. b \in parser[fdOf[b]]
      BY <2>1, <2>3, <2>5, <2>8 DEF EndInv, ParserKept
    <3> QED BY <2>7, <2>8, <3>1 DEF HasParser
  <2>9. CASE pc[r] = "hangup" /\ SendWhole(r)
    <3>1. Sends(r) /\ up' = Append(up, Command(r)) /\ handling' = handling /\ r \in Threads
      BY <2>9, ThreadFacts DEF SendWhole, Sent, proxy
    <3>2. Pushed(Coming, Coming', Command(r))
      BY <3>1, ComingPushed
    <3>3. Command(r).type = "ProxyDisconnect" /\ Command(r).fd = fdOf[b]
      BY <2>7, <2>9, ThreadFacts DEF Command
    <3> QED BY <2>3, <3>2, <3>3 DEF Pushed
  <2>10. ~ SendFails(r)
    BY <2>1 DEF SendFails
  <2> QED BY <1>1, <2>5, <2>6, <2>8, <2>9, <2>10 DEF PlacesBefore
<1> QED BY <1>2, <1>3

\* When the peer goes, every browser is shut down.
LEMMA ShutWithPeerStep ==
    ASSUME TypeInv, LinkInv, PhaseInv, WorkInv, KnownInv, ErasedInv, EndInv, TypeInv', [Next]_vars
    PROVE  ShutWithPeer'
<1>1. SUFFICES ASSUME vnc' = "none"
               PROVE  /\ pc'[Receiver] = "parse" => cmd'.of \in shut'
                      /\ \A r \in Requests : request'[r].of \subseteq shut'
  BY DEF ShutWithPeer
<1>2. CASE OnCloseVNC
  <2>1. /\ shut' = shut \cup UNION {Holder(fd) : fd \in Fds}
        /\ UNCHANGED <<pc, cmd, request>>
    BY <1>2 DEF OnCloseVNC, ShutBrowsers, peer
  <2>2. ASSUME NEW b \in DOMAIN fdOf
        PROVE  b \in shut'
    <3>1. b \in shut \/ (fdOf[b] \in Fds /\ Holder(fdOf[b]) = {b})
      BY OpenFacts
    <3> QED BY <2>1, <3>1
  <2>3. pc[Receiver] = "parse" => cmd.of \in DOMAIN fdOf
    BY InHandGoing DEF KnownInv, Known
  <2> QED BY <2>1, <2>2, <2>3 DEF EndInv, Accepted
<1>3. CASE ~ OnCloseVNC
  <2>1. vnc = "none" /\ shut \subseteq shut'
    BY <1>1, <1>3, ShutLater
  <2>2. /\ pc[Receiver] = "parse" => cmd.of \in shut
        /\ \A r \in Requests : request[r].of \subseteq shut
    BY <2>1 DEF EndInv, ShutWithPeer
  <2>3. ~ alive /\ down = <<>>
    BY <2>1 DEF LinkInv
  <2>4. ASSUME pc'[Receiver] = "parse"
        PROVE  cmd'.of \in shut'
    <3>1. PlacesType
      BY DEF TypeInv
    <3>2. ~ RecvCommand /\ ~ Connect /\ ~ SendWhole(Receiver)
      BY <1>1, <2>3 DEF RecvCommand, Connect, SendWhole
    <3>3. ~ RecvFails /\ ~ Parses /\ ~ SendFails(Receiver)
      BY <2>4, <3>1, ThreadFacts
         DEF Parses, ParsedInPart, ParserFull, OnRecvProxyDisconnect, ParsedAll, RecvFails,
             SendFails, Sent, AfterSend, At, Goto, PlacesType
    <3>4. pc'[Receiver] = pc[Receiver] /\ cmd' = cmd
      BY <3>2, <3>3, HandStep DEF HandOptions, TypeInv
    <3> QED BY <2>1, <2>2, <2>4, <3>4
  <2>5. ASSUME NEW r \in Requests
        PROVE  request'[r].of \subseteq shut'
    <3>1. CASE Begins(r)
      BY <2>1, <2>2, <3>1, BegunFor
    <3>2. CASE GoesOn(r)
      BY <2>1, <2>2, <3>2 DEF GoesOn
    <3> QED BY <3>1, <3>2, RequestLater
  <2> QED BY <2>4, <2>5
<1> QED BY <1>2, <1>3

\* A browser that is served will be hung up on.
LEMMA EndInvStep ==
    ASSUME TypeInv, LinkInv, PhaseInv, WorkInv, KnownInv, ErasedInv, EndInv, TypeInv', [Next]_vars,
           races' = {}
    PROVE  EndInv'
<1>1. Accepted'
  <2>1. \A b \in DOMAIN fdOf : b \in DOMAIN fdOf'
    BY BrowsersLater DEF TypeInv
  <2>2. \A r \in Requests : request'[r].of \subseteq DOMAIN fdOf
    BY AcceptedStep DEF EndInv
  <2> QED BY <2>1, <2>2 DEF Accepted
<1> QED BY <1>1, EraseBehindStep, ParserKeptStep, HangupComesStep, ShutWithPeerStep DEF EndInv

-----------------------------------------------------------------------------
(***************************************************************************)
(* The invariant.                                                          *)
(***************************************************************************)
\* It holds before anything has happened.
LEMMA InvariantAtFirst ==
    Init => IInv
<1> SUFFICES ASSUME Init
             PROVE  IInv
  OBVIOUS
<1>1. TypeInv /\ LinkInv
  BY TypesAtFirst
<1>2. /\ fdOf = <<>> /\ replies = <<>> /\ sending = <<>> /\ handling = <<>> /\ down = <<>>
      /\ up = <<>> /\ pc[Receiver] = "connect" /\ \A r \in Requests : pc[r] = "none"
  BY ThreadFacts DEF Init
<1>3. Going = <<>> /\ Coming = <<>>
  BY <1>2 DEF Going, Coming
<1>4. DOMAIN Going = {} /\ DOMAIN Coming = {} /\ Range(Going) = {} /\ Range(Coming) = {}
      /\ DOMAIN replies = {} /\ DOMAIN fdOf = {} /\ Len(fdOf) = 0
  BY <1>2, <1>3 DEF Range
<1>5. PhaseInv
  <2>1. \A b \in Browsers : b > 0
    BY BoundFacts DEF Browsers
  <2> QED BY <1>4, <2>1 DEF PhaseInv, Init
<1>6. KnownInv
  BY <1>2, <1>4 DEF KnownInv, Init
<1>7. ErasedInv
  BY <1>2, <1>4 DEF ErasedInv, Init, Packet
<1>8. PlaceInv
  BY <1>4 DEF PlaceInv, Init
<1>9. OrderInv
  <2>1. \A r \in Requests, k \in 1 .. MaxPieces : ~ Got(r, k)
    BY DEF Got, Init, NoRequest
  <2> QED BY <1>4, <2>1 DEF OrderInv
<1>10. SettledInv
  BY <1>2, <1>4 DEF SettledInv, Init
<1>11. WorkInv
  BY DEF WorkInv, Init
<1>12. EndInv
  <2>1. \A r \in Requests : request[r].of = {}
    BY DEF Init, NoRequest
  <2>2. ~ alive
    BY DEF Init
  <2> QED BY <1>2, <2>1, <2>2
          DEF EndInv, Accepted, EraseBehind, ParserKept, HangupComes, ShutWithPeer
<1> QED BY <1>1, <1>5, <1>6, <1>7, <1>8, <1>9, <1>10, <1>11, <1>12 DEF IInv, RaceFreeInv

\* And after every step.
LEMMA InvariantStep ==
    ASSUME IInv, [Next]_vars
    PROVE  IInv'
<1>1. TypeInv' /\ LinkInv' /\ (races' = {} => races = {})
  BY TypesStep, RacesStep DEF IInv
<1>2. PhaseInv'
  BY <1>1, PhaseStep DEF IInv, TypeInv
<1>3. ASSUME races' = {}
      PROVE  RaceFreeInv'
  <2>1. /\ TypeInv /\ LinkInv /\ PhaseInv /\ WorkInv /\ EndInv
        /\ KnownInv /\ ErasedInv /\ PlaceInv /\ OrderInv /\ SettledInv
    BY <1>1, <1>3 DEF IInv, RaceFreeInv
  <2>2. KnownInv' /\ ErasedInv'
    BY <1>1, <1>3, <2>1, KnownInvStep, ErasedInvStep
  <2>3. PlaceInv' /\ OrderInv'
    BY <1>1, <2>1, PlaceInvStep, OrderInvStep
  <2>4. SettledInv'
    BY <1>1, <1>3, <2>1, SettledInvStep
  <2>5. EndInv'
    BY <1>1, <1>3, <2>1, EndInvStep
  <2> QED BY <2>2, <2>3, <2>4, <2>5 DEF RaceFreeInv
<1>4. WorkInv'
  BY <1>1, WorkStep DEF IInv, TypeInv
<1> QED BY <1>1, <1>2, <1>3, <1>4 DEF IInv

(***************************************************************************)
(* In every state the types are right and, until a race is entered, every  *)
(* parser has bytes of one browser, every piece of an answer is in one     *)
(* order on its way to the browser it is of, whoever is hung up on was     *)
(* answered or is excused, and whoever was answered will be hung up on.    *)
(***************************************************************************)
THEOREM InvariantHolds == Spec => []IInv
<1>1. Init => IInv
  BY InvariantAtFirst
<1>2. IInv /\ [Next]_vars => IInv'
  BY InvariantStep
<1> QED BY <1>1, <1>2, PTL DEF Spec

-----------------------------------------------------------------------------
(***************************************************************************)
(* Where the programs may stop.                                            *)
(***************************************************************************)
\* A step of the programs has its guard in SomethingToDo.
LEMMA StepGuarded ==
    ASSUME TypeInv, Program
    PROVE  SomethingToDo
<1>a. up \in Seq(Answers) /\ Len(up) \in Nat /\ UpRoom \in Nat
  BY BoundFacts DEF TypeInv, LinkType
<1>1. CASE MainThread \/ Handlers \/ VNCMain \/ VNCHandler \/ SendCommand
  BY <1>1 DEF MainThread, Handlers, VNCMain, VNCHandler, OnDisconnect, Forward, TurnAway, RecvVNC,
              OnDisconnectVNC, ReturnVNC2Client, ProxyDisconnect, OnCloseVNC, SendCommand,
              SomethingToDo
<1>2. CASE SendReply
  BY <1>2 DEF SendReply, BehindDeaf, SomethingToDo
<1>3. CASE Receive \/ \E r \in Requests : OnSuccessOrFail(r) \/ UnlockAndDelete(r)
  BY <1>3 DEF Receive, RecvFails, RecvCommand, ParsedInPart, ParsedAll, ParserFull,
              OnRecvProxyDisconnect, OnSuccessOrFail, UnlockAndDelete, At, SomethingToDo
<1>4. ASSUME NEW t \in Threads, Send(t)
      PROVE  SomethingToDo
  <2>1. Sends(t)
    BY <1>4 DEF Send, SendWhole, SendPart, SendBetween, SendFails
  <2>2. alive => IF half = Nobody THEN Len(up) < UpRoom ELSE Len(up) < UpRoom - 1
    <3>1. CASE SendWhole(t)
      <4>1. half \in {Nobody, t} /\ Len(up) < IF half = t THEN UpRoom - 1 ELSE UpRoom
        BY <3>1 DEF SendWhole
      <4> QED BY <4>1, ThreadFacts
    <3>2. CASE SendPart(t)
      BY <1>a, <3>2 DEF SendPart
    <3>3. CASE SendBetween(t)
      BY <3>3 DEF SendBetween
    <3>4. CASE SendFails(t)
      BY <3>4 DEF SendFails
    <3> QED BY <1>4, <3>1, <3>2, <3>3, <3>4 DEF Send
  <2>3. alive => Len(up) + (IF half = Nobody THEN 0 ELSE 1) < UpRoom
    BY <1>a, <2>2
  <2> QED BY <2>1, <2>3 DEF SomethingToDo
<1> QED BY <1>1, <1>2, <1>3, <1>4 DEF Program

\* When nobody waits to write, no thread is on its way, and the map is free.
LEMMA NobodyWaits ==
    ASSUME TypeInv, ~ SomethingToDo, \A t \in Threads : ~ Sends(t)
    PROVE  /\ \A r \in Requests : pc[r] \in {"none", "run", "deleted"}
           /\ pc[Receiver] \in {"connect", "recv"}
<1>a. PlacesType
  BY DEF TypeInv
<1>1. \A r \in Requests : pc[r] # "unlock" /\ (pc[r] = "end" => lock # Nobody)
  BY DEF SomethingToDo, At
<1>2. pc[Receiver] \in {"parse", "erase"} => lock # Nobody
  BY DEF SomethingToDo
<1>3. \A t \in Threads : pc[t] \notin {"send", "hangup"}
  BY DEF Sends
<1>4. lock = Nobody
  <2>1. lock \in Requests => pc[lock] \in {"hangup", "unlock"}
    BY <1>a DEF PlacesType
  <2> QED BY <1>1, <1>3, <1>a, <2>1, ThreadFacts DEF PlacesType
<1> QED BY <1>1, <1>2, <1>3, <1>4, <1>a, ThreadFacts DEF PlacesType

\* Where nothing is to be done, all commands are, or both programs wait in the circle.
LEMMA CommandsStop ==
    ASSUME TypeInv, LinkInv, PhaseInv, WorkInv, ~ SomethingToDo
    PROVE  Circle \/ CommandsDone
<1>a. PlacesType /\ BrowsersType /\ VNCType /\ LinkType
  BY DEF TypeInv
<1>b. /\ DownRoom \in Nat /\ UpRoom \in Nat /\ VNCPool \in Nat
      /\ VNCPool > 0 /\ DownRoom > 0 /\ UpRoom > 1
  BY BoundFacts
<1>c. /\ Len(sending) \in Nat /\ Len(down) \in Nat /\ Len(up) \in Nat
      /\ Len(down) <= DownRoom /\ Len(up) <= UpRoom
      /\ sending = <<>> => Len(sending) = 0
      /\ down = <<>> => Len(down) = 0
      /\ up = <<>> => Len(up) = 0
  BY <1>a DEF VNCType, LinkType
<1>d. half # Nobody => Len(up) < UpRoom
  BY DEF WorkInv
<1>1. handling = <<>> /\ Len(handling) = 0
  BY DEF SomethingToDo
<1>2. \A b \in Browsers : packets[b] = 0
  <2>1. \A b \in Browsers : packets[b] \in Nat
    BY <1>a, BoundFacts DEF BrowsersType
  <2>2. \A b \in DOMAIN fdOf : packets[b] = 0
    BY <1>a, <2>1, AcceptedFacts DEF SomethingToDo
  <2>3. ASSUME NEW b \in Browsers, b \notin DOMAIN fdOf
        PROVE  phase[b] = "new"
    <3>1. b \in Nat /\ b > 0 /\ DOMAIN fdOf = 1 .. Len(fdOf) /\ Len(fdOf) \in Nat
      BY <1>a, BoundFacts, AcceptedFacts DEF Browsers
    <3> QED BY <2>3, <3>1 DEF PhaseInv
  <2> QED BY <2>2, <2>3 DEF PhaseInv
<1>3. /\ sending # <<>> => alive /\ ~ (Len(down) < DownRoom)
      /\ vnc = "online" /\ VNCIdle => up = <<>> /\ alive
      /\ pc[Receiver] = "recv" => alive /\ down = <<>>
      /\ pc[Receiver] \in {"parse", "erase"} => lock # Nobody
  BY DEF SomethingToDo, At
<1>4. \A t \in Threads : Sends(t) =>
         alive /\ ~ (Len(up) + (IF half = Nobody THEN 0 ELSE 1) < UpRoom)
  BY DEF SomethingToDo
<1>5. VNCIdle <=> Len(sending) < VNCPool
  BY <1>1, <1>c DEF VNCIdle
<1>6. CASE ~ alive
  <2>1. sending = <<>> /\ \A t \in Threads : ~ Sends(t)
    BY <1>3, <1>4, <1>6
  <2>2. VNCIdle
    BY <1>5, <1>b, <1>c, <2>1
  <2>3. down = <<>> /\ up = <<>>
    BY <1>3, <1>6, <2>2 DEF LinkInv
  <2> QED BY <1>1, <1>2, <2>1, <2>3, NobodyWaits DEF CommandsDone
<1>7. CASE alive /\ VNCIdle
  <2>1. vnc = "online" /\ up = <<>> /\ pc[Receiver] # "connect"
    BY <1>3, <1>7 DEF LinkInv
  <2>2. Len(up) + (IF half = Nobody THEN 0 ELSE 1) < UpRoom
    BY <1>b, <1>c, <2>1
  <2>3. \A t \in Threads : ~ Sends(t)
    BY <1>4, <2>2
  <2>4. /\ \A r \in Requests : pc[r] \in {"none", "run", "deleted"}
        /\ pc[Receiver] = "recv"
    BY <2>1, <2>3, NobodyWaits
  <2>5. down = <<>> /\ sending = <<>>
    BY <1>3, <1>b, <1>c, <2>4
  <2> QED BY <1>1, <1>2, <2>1, <2>4, <2>5 DEF CommandsDone
<1>8. CASE alive /\ ~ VNCIdle
  <2>1. sending # <<>> /\ vnc = "online" /\ pc[Receiver] # "connect"
    BY <1>5, <1>8, <1>b, <1>c DEF LinkInv
  <2>2. Len(down) = DownRoom
    BY <1>3, <1>b, <1>c, <2>1
  <2>3. pc[Receiver] # "recv"
    BY <1>3, <1>b, <1>c, <2>2
  <2>4. ASSUME NEW t \in Threads, Sends(t)
        PROVE  Len(up) + (IF half = Nobody THEN 0 ELSE 1) = UpRoom
    <3>1. ~ (Len(up) + (IF half = Nobody THEN 0 ELSE 1) < UpRoom)
      BY <1>4, <2>4
    <3> QED BY <1>b, <1>c, <1>d, <3>1
  <2>5. pc[Receiver] \in {"parse", "erase", "send"}
    BY <1>a, <2>1, <2>3 DEF PlacesType
  <2>6. CASE pc[Receiver] = "send"
    <3>1. Sends(Receiver) /\ Receiver \in Threads
      BY <2>6, ThreadFacts DEF Sends
    <3>2. Len(up) + (IF half = Nobody THEN 0 ELSE 1) = UpRoom
      BY <2>4, <3>1
    <3> QED BY <1>1, <1>8, <2>1, <2>2, <3>1, <3>2 DEF Circle
  <2>7. CASE pc[Receiver] \in {"parse", "erase"}
    <3>1. lock # Nobody /\ lock \in Requests
      BY <1>3, <1>a, <2>7 DEF PlacesType
    <3>2. pc[lock] \in {"hangup", "unlock"}
      BY <1>a, <3>1 DEF PlacesType
    <3>3. pc[lock] # "unlock"
      BY <3>1 DEF SomethingToDo, At
    <3>4. Sends(lock) /\ lock \in Threads
      BY <3>1, <3>2, <3>3, ThreadFacts DEF Sends
    <3>5. Len(up) + (IF half = Nobody THEN 0 ELSE 1) = UpRoom
      BY <2>4, <3>4
    <3> QED BY <1>1, <1>8, <2>1, <2>2, <2>7, <3>1, <3>4, <3>5 DEF Circle
  <2> QED BY <2>5, <2>6, <2>7
<1> QED BY <1>6, <1>7, <1>8

\* And all replies are sent and all closes done, or they wait for a browser that reads nothing.
LEMMA RepliesStop ==
    ASSUME TypeInv, PhaseInv, WorkInv, ~ SomethingToDo, CommandsDone, ~ BehindDeaf
    PROVE  RepliesDone
<1>a. BrowsersType
  BY DEF TypeInv
<1>1. replies = <<>> /\ \A b \in Browsers : packets[b] = 0
  BY DEF SomethingToDo, CommandsDone
<1>2. Idle
  <2>1. {p \in Browsers \X (1 .. MaxPackets) : p[2] <= packets[p[1]]} = {}
    <3>1. ASSUME NEW p \in Browsers \X (1 .. MaxPackets)
          PROVE  ~ (p[2] <= packets[p[1]])
      <4>1. packets[p[1]] = 0 /\ p[2] \in 1 .. MaxPackets
        BY <1>1
      <4> QED BY <4>1, BoundFacts
    <3> QED BY <3>1
  <2>2. Cardinality({p \in Browsers \X (1 .. MaxPackets) : p[2] <= packets[p[1]]}) = 0
    BY <2>1, FS_EmptySet
  <2>3. Len(replies) = 0
    BY <1>1
  <2> QED BY <2>2, <2>3, BoundFacts DEF Idle, InUse
<1>3. ASSUME NEW b \in shut
      PROVE  phase[b] = "closed"
  <2>1. b \in DOMAIN fdOf /\ b \in Browsers
    BY <1>a, AcceptedFacts DEF BrowsersType
  <2>2. phase[b] # "open"
    BY <1>2, <2>1 DEF SomethingToDo
  <2>3. phase[b] # "leaving"
    <3>1. ~ Busy(b)
      BY <1>1, <2>1 DEF Busy
    <3> QED BY <2>1, <3>1 DEF WorkInv
  <2>4. phase[b] # "new"
    BY <1>a, <2>1, HolderFacts
  <2> QED BY <1>a, <2>1, <2>2, <2>3, <2>4 DEF BrowsersType
<1> QED BY <1>1, <1>3 DEF RepliesDone

\* So they stop where they may.
LEMMA StopsWell ==
    ASSUME TypeInv, LinkInv, PhaseInv, WorkInv
    PROVE  SomethingToDo \/ MayStop
BY CommandsStop, RepliesStop DEF MayStop

\* They do not stop before a browser whose request is done is closed.
LEMMA EndsWell ==
    ASSUME TypeInv, LinkInv, PhaseInv, WorkInv, EndInv, Unclosed, ~ Circle, ~ BehindDeaf
    PROVE  SomethingToDo
<1>1. SUFFICES ASSUME ~ SomethingToDo
               PROVE  FALSE
  OBVIOUS
<1>2. CommandsDone /\ RepliesDone
  BY <1>1, CommandsStop, RepliesStop
<1>3. PICK r \in Requests : pc[r] = "deleted" /\ \E b \in request[r].of : phase[b] # "closed"
  BY DEF Unclosed
<1>4. PICK b \in request[r].of : phase[b] # "closed"
  BY <1>3
<1>5. b \notin shut
  BY <1>2, <1>4 DEF RepliesDone
<1>6. CASE alive
  <2>1. Hangup(b)
    BY <1>3, <1>5, <1>6 DEF EndInv, HangupComes
  <2>2. Coming = <<>>
    BY <1>2 DEF Coming, CommandsDone
  <2> QED BY <2>1, <2>2 DEF Hangup
<1>7. CASE ~ alive
  <2>1. sending = <<>> /\ handling = <<>>
    BY <1>2 DEF CommandsDone
  <2>2. VNCIdle
    BY <2>1, BoundFacts DEF VNCIdle
  <2>3. vnc = "none"
    BY <1>1, <1>7, <2>1, <2>2 DEF SomethingToDo, TypeInv, VNCType
  <2> QED BY <1>5, <2>3 DEF EndInv, ShutWithPeer
<1> QED BY <1>6, <1>7

(***************************************************************************)
(* No program takes a step but where a guard of SomethingToDo holds, and   *)
(* none of them holds only when everything is done, in the circle, or      *)
(* behind a browser that reads nothing.  So StopsOnlyInCircle holds        *)
(* wherever a step can be taken whose guard holds (TcpServer.cpp 737-757   *)
(* and 935-1029, HttpProxyServer.cpp 99-126, TcpProxyClient.cpp 321-348).  *)
(***************************************************************************)
THEOREM StopsCorrect ==
    Spec => /\ [][Program => SomethingToDo]_vars
            /\ [](/\ SomethingToDo \/ MayStop
                  /\ (SomethingToDo => ProgramGoesOn) => StopsOnlyInCircle)
<1> DEFINE Stops == /\ SomethingToDo \/ MayStop
                    /\ (SomethingToDo => ProgramGoesOn) => StopsOnlyInCircle
<1>1. IInv => Stops
  <2>1. IInv => SomethingToDo \/ MayStop
    BY StopsWell DEF IInv
  <2> QED BY <2>1 DEF StopsOnlyInCircle
<1>2. IInv /\ [Next]_vars => [Program => SomethingToDo]_vars
  BY StepGuarded DEF IInv
<1>3. Spec => []IInv
  BY InvariantHolds
<1> QED BY <1>1, <1>2, <1>3, PTL DEF Spec

(***************************************************************************)
(* Until a race is entered, and outside the circle and the wait for a      *)
(* browser that reads nothing, some guard holds as long as a browser whose *)
(* request is done is not closed; AnswersEnd follows where a step can be   *)
(* taken whose guard holds (HttpProxyServer.cpp 99-126, TcpProxyServer.cpp *)
(* 388, 814).                                                              *)
(***************************************************************************)
THEOREM AnswersEndWell ==
    Spec => [](/\ races = {} /\ Unclosed => SomethingToDo \/ Circle \/ BehindDeaf
               /\ (SomethingToDo => ProgramGoesOn) => AnswersEnd)
<1> DEFINE Ends == /\ races = {} /\ Unclosed => SomethingToDo \/ Circle \/ BehindDeaf
                   /\ (SomethingToDo => ProgramGoesOn) => AnswersEnd
<1>1. IInv => Ends
  <2>1. IInv => (races = {} /\ Unclosed => SomethingToDo \/ Circle \/ BehindDeaf)
    BY EndsWell DEF IInv, RaceFreeInv
  <2> QED BY <2>1 DEF AnswersEnd
<1>2. Spec => []IInv
  BY InvariantHolds
<1> QED BY <1>1, <1>2, PTL

\* In the circle no room is made, so nobody who waits for it goes on.
LEMMA CircleStep ==
    ASSUME TypeInv, LinkInv, Circle, [Next]_vars, alive'
    PROVE  Circle'
<1> DEFINE Full == UNCHANGED <<alive, vnc, sending, handling, down, up, half>>
           Held == \/ Sends(Receiver)
                   \/ pc[Receiver] \in {"parse", "erase"} /\ lock # Nobody /\ Sends(lock)
<1>a. PlacesType /\ up \in Seq(Answers) /\ Len(up) \in Nat /\ UpRoom \in Nat /\ DownRoom \in Nat
  BY BoundFacts DEF TypeInv, LinkType
<1>b. /\ alive /\ vnc = "online" /\ ~ VNCIdle /\ handling = <<>> /\ Len(down) = DownRoom
      /\ Len(up) + (IF half = Nobody THEN 0 ELSE 1) = UpRoom
      /\ Held
  BY DEF Circle
<1>c. ASSUME Full, Held'
      PROVE  Circle'
  BY <1>b, <1>c DEF Circle, VNCIdle
<1>d. /\ pc[Receiver] \in {"parse", "erase", "send"}
      /\ pc[Receiver] \in {"parse", "erase"} => lock # Nobody /\ Sends(lock)
  BY <1>b, <1>a DEF Sends, PlacesType
<1> USE DEF browsers, proxy, link, peer, ghosts
<1>1. CASE (\E fd \in Fds : Accept(fd)) \/ SendReply \/ UNCHANGED vars
           \/ \E b \in DOMAIN fdOf : RecvPacket(b) \/ BrowserLeaves(b) \/ TurnAway(b)
  <2>1. Full /\ UNCHANGED <<pc, lock>>
    BY <1>1 DEF Accept, SendReply, vars, RecvPacket, BrowserLeaves, TurnAway
  <2> QED BY <1>b, <1>c, <2>1 DEF Sends
<1>2. ASSUME NEW b \in DOMAIN fdOf, OnDisconnect(b) \/ Forward(b)
      PROVE  Circle'
  <2>1. ~ CanSend
    BY <1>b DEF CanSend
  <2>2. Full /\ UNCHANGED <<pc, lock>>
    BY <1>2, <2>1 DEF OnDisconnect, Forward
  <2> QED BY <1>b, <1>c, <2>2 DEF Sends
<1>3. ~ (SendCommand \/ VNCMain \/ VNCHandler \/ Connect \/ LinkLost)
  BY <1>a, <1>b, <1>d DEF SendCommand, VNCMain, RecvVNC, OnDisconnectVNC, VNCHandler,
         ReturnVNC2Client, ProxyDisconnect, OnCloseVNC, Connect, LinkLost, At
<1>4. ~ Receive
  BY <1>d DEF Receive, RecvFails, RecvCommand, ParsedInPart, ParsedAll, ParserFull,
              OnRecvProxyDisconnect, At
<1>5. ASSUME NEW r \in Requests,
             OnReceiveBody(r) \/ RequestEnds(r) \/ OnSuccessOrFail(r) \/ UnlockAndDelete(r)
      PROVE  Circle'
  <2>1. Full /\ r # Receiver
    BY <1>5, ThreadFacts DEF OnReceiveBody, RequestEnds, OnSuccessOrFail, UnlockAndDelete
  <2>2. pc[r] \notin {"send", "hangup"} /\ \E location : Goto(r, location)
    BY <1>5 DEF OnReceiveBody, RequestEnds, OnSuccessOrFail, UnlockAndDelete, At
  <2>3. \A t \in Threads \ {r} : pc'[t] = pc[t]
    BY <1>a, <2>2 DEF Goto, PlacesType
  <2>4. pc'[Receiver] = pc[Receiver]
    BY <2>1, <2>3, ThreadFacts
  <2>5. CASE Sends(Receiver)
    <3>1. Held'
      BY <2>4, <2>5 DEF Sends
    <3> QED BY <1>c, <2>1, <3>1
  <2>6. CASE pc[Receiver] \in {"parse", "erase"} /\ lock # Nobody /\ Sends(lock)
    <3>1. lock \in Requests /\ lock # r
      BY <1>a, <2>2, <2>6 DEF PlacesType, Sends
    <3>2. lock' = lock
      <4>1. pc[r] # "unlock"
        BY <1>a, <3>1 DEF PlacesType
      <4> QED BY <1>5, <2>6, <4>1 DEF OnReceiveBody, RequestEnds, OnSuccessOrFail,
                                      UnlockAndDelete, At
    <3>3. pc'[lock] = pc[lock]
      BY <2>3, <3>1, ThreadFacts
    <3>4. Held'
      BY <2>4, <2>6, <3>2, <3>3 DEF Sends
    <3> QED BY <1>c, <2>1, <3>4
  <2> QED BY <1>b, <2>5, <2>6
<1>6. ASSUME NEW t \in Threads
      PROVE  ~ Send(t)
  <2>1. t # Nobody
    BY ThreadFacts
  <2>2. half = Nobody => Len(up) = UpRoom
    BY <1>a, <1>b
  <2>3. half # Nobody => Len(up) = UpRoom - 1
    BY <1>a, <1>b
  <2>4. /\ ~ (half = Nobody /\ Len(up) < UpRoom) /\ ~ (half # Nobody /\ Len(up) < UpRoom - 1)
        /\ ~ (half = Nobody /\ Len(up) = UpRoom - 1)
    BY <1>a, <2>2, <2>3
  <2>5. ~ SendWhole(t)
    BY <2>1, <2>4 DEF SendWhole
  <2>6. ~ SendPart(t)
    BY <2>4 DEF SendPart
  <2>7. ~ SendBetween(t) /\ ~ SendFails(t)
    BY <1>b, <2>4 DEF SendBetween, SendFails
  <2> QED BY <2>5, <2>6, <2>7 DEF Send
<1> QED BY <1>1, <1>2, <1>3, <1>4, <1>5, <1>6
        DEF Next, Program, Environment, MainThread, Handlers

\* Replies are put behind the one that waits.
LEMMA DeafStep ==
    ASSUME TypeInv, BehindDeaf, [Next]_vars, Head(replies).to \notin gone'
    PROVE  BehindDeaf'
<1>a. replies \in Seq(Replies) /\ replies # <<>> /\ Head(replies).to \in Deaf
  BY DEF TypeInv, RepliesType, BehindDeaf
<1> USE DEF browsers, proxy, link, peer, ghosts
<1>1. CASE UNCHANGED replies
  BY <1>a, <1>1 DEF BehindDeaf
<1>2. CASE ReturnVNC2Client
  <2>1. UNCHANGED replies \/ \E m : replies' = Append(replies, m)
    BY <1>2 DEF ReturnVNC2Client
  <2>2. ASSUME NEW m, replies' = Append(replies, m)
        PROVE  replies' # <<>> /\ Head(replies') = Head(replies)
    BY <1>a, <2>2
  <2> QED BY <1>1, <1>a, <2>1, <2>2 DEF BehindDeaf
<1>3. CASE SendReply
  BY <1>3 DEF SendReply, BehindDeaf
<1>4. ASSUME NEW b \in DOMAIN fdOf,
             RecvPacket(b) \/ BrowserLeaves(b) \/ OnDisconnect(b) \/ Forward(b) \/ TurnAway(b)
      PROVE  UNCHANGED replies
  BY <1>4 DEF RecvPacket, BrowserLeaves, OnDisconnect, Forward, TurnAway
<1>5. CASE \/ (\E fd \in Fds : Accept(fd)) \/ SendCommand \/ VNCMain \/ ProxyDisconnect
           \/ OnCloseVNC \/ Connect \/ LinkLost \/ UNCHANGED vars
  BY <1>1, <1>5 DEF Accept, SendCommand, VNCMain, RecvVNC, OnDisconnectVNC, ProxyDisconnect,
                    OnCloseVNC, Connect, LinkLost, vars
<1>6. CASE Receive
  BY <1>1, <1>6 DEF Receive, RecvFails, RecvCommand, ParsedInPart, ParsedAll, ParserFull,
                    OnRecvProxyDisconnect
<1>7. ASSUME NEW r \in Requests,
             OnReceiveBody(r) \/ RequestEnds(r) \/ OnSuccessOrFail(r) \/ UnlockAndDelete(r)
      PROVE  UNCHANGED replies
  BY <1>7 DEF OnReceiveBody, RequestEnds, OnSuccessOrFail, UnlockAndDelete
<1>8. ASSUME NEW t \in Threads, Send(t)
      PROVE  UNCHANGED replies
  BY <1>8 DEF Send, SendWhole, SendPart, SendBetween, SendFails, Sent
<1> QED BY <1>1, <1>2, <1>3, <1>4, <1>5, <1>6, <1>7, <1>8
        DEF Next, Program, Environment, MainThread, Handlers, VNCHandler

(***************************************************************************)
(* Where the programs wait they wait for ever: no step of either ends the  *)
(* circle but the loss of their connection, and none sends a reply past a  *)
(* browser that reads nothing (TcpServer.cpp 737-757 and 935-1029,         *)
(* HttpProxyServer.cpp 99-126, TcpProxyClient.cpp 321-348).                *)
(***************************************************************************)
THEOREM WaitsForEver == Spec => WaitsLast
<1>1. IInv /\ [Next]_vars =>
           [/\ Circle /\ alive' => Circle'
            /\ BehindDeaf /\ Head(replies).to \notin gone' => BehindDeaf']_vars
  BY CircleStep, DeafStep DEF IInv
<1>2. Spec => []IInv
  BY InvariantHolds
<1> QED BY <1>1, <1>2, PTL DEF Spec, WaitsLast

-----------------------------------------------------------------------------
(***************************************************************************)
(* The tunnel.                                                             *)
(***************************************************************************)
\* The variables of the tunnel.
Serves  == [r \in Requests |-> request[r].of]
Pieced  == [r \in Requests |-> request[r].pieces]
Endeds  == {r \in Requests : pc[r] \in {"end", "hangup", "unlock", "deleted"}}
Closeds == {b \in Browsers : phase[b] = "closed"}

\* The tunnel begins with nothing served.
LEMMA TunnelAtFirst ==
    ASSUME Init
    PROVE  Exchange!TunnelInit
<1>1. \A r \in Requests : request[r] = NoRequest /\ pc[r] = "none"
  BY ThreadFacts DEF Init
<1>2. [r \in Requests |-> request[r].of] = [r \in Requests |-> {}]
      /\ [r \in Requests |-> request[r].pieces] = [r \in Requests |-> 0]
  BY <1>1 DEF NoRequest
<1>3. Endeds = {} /\ Closeds = {}
  BY <1>1 DEF Init, Endeds, Closeds
<1>4. (~ Idle) \in BOOLEAN
  BY DEF Idle
<1> QED BY <1>2, <1>3, <1>4 DEF Init, Exchange!TunnelInit, Endeds, Closeds

RaceFree == /\ TypeInv /\ LinkInv /\ PhaseInv /\ KnownInv /\ ErasedInv /\ PlaceInv /\ OrderInv
            /\ SettledInv

\* A browser whose pieces all went through has its whole answer.
LEMMA WholeAnswer ==
    ASSUME TypeInv, TypeInv', KnownInv, AnswerOptions, [Next]_vars, NEW b \in Browsers,
           NEW r \in Requests, request[r].of = {b}, Ended(r),
           \A k \in 1 .. request[r].pieces : (Through(r, k))'
    PROVE  Serves[r] = {b} /\ (Exchange!Whole(r, b))'
<1>1. GoesOn(r) /\ request'[r].of = {b}
  BY OfLater
<1>2. (Ended(r))' /\ request'[r].pieces = request[r].pieces
  BY <1>1 DEF GoesOn
<1>3. Serves[r] = {b} /\ r \in Endeds'
  BY <1>2 DEF Serves, Endeds, Ended
<1>4. ASSUME NEW k \in 1 .. request'[r].pieces, <<r, k>> \notin Range(heard'[b])
      PROVE  <<r, k>> \in dropped'
  <2>1. (Through(r, k))'
    BY <1>2, <1>4
  <2>2. ~ (Got(r, k))'
    BY <1>1, <1>4 DEF Got, Range
  <2> QED BY <2>1, <2>2 DEF Through
<1>5. Pieced'[r] = request'[r].pieces
  BY DEF Pieced
<1> QED BY <1>3, <1>4, <1>5
        DEF Exchange!Whole, Exchange!Unheard, Exchange!Of, Exchange!Range, Range, Endeds, Pieced

Closing(b) == \/ b \in excused'
              \/ b \in shut /\ Outstanding(b) = 0 /\ UNCHANGED replies
              \/ b \in shut /\ Outstanding(b) = 1 /\ SendReply /\ Head(replies).to = b

\* Who hangs up on a browser: OnDisconnect, or whoever is done with it last.
LEMMA ClosingStep ==
    ASSUME TypeInv, PhaseInv, [Next]_vars, races' = {},
           NEW b \in Browsers, phase[b] # "closed", phase'[b] = "closed"
    PROVE  Closing(b)
<1> USE DEF browsers, proxy, link, peer, ghosts
<1>a. phase \in [Browsers -> {"new", "open", "leaving", "closed"}] /\ BrowsersType
  BY DEF TypeInv, BrowsersType
<1>b. phase[b] = "leaving" => b \in shut
  BY DEF PhaseInv
<1>1. ASSUME NEW c \in DOMAIN fdOf, OnDisconnect(c)
      PROVE  Closing(b)
  BY <1>a, <1>1 DEF Closing, OnDisconnect
<1>2. ASSUME NEW c \in DOMAIN fdOf, Forward(c)
      PROVE  FALSE
  <2>1. phase[c] # "leaving"
    BY <1>2 DEF Forward, Enter
  <2> QED BY <1>a, <1>2, <2>1 DEF Forward, CloseIfDone
<1>3. ASSUME NEW c \in DOMAIN fdOf, TurnAway(c)
      PROVE  Closing(b)
  BY <1>a, <1>3 DEF Closing, TurnAway, DoneWith
<1>4. CASE SendReply
  BY <1>a, <1>b, <1>4 DEF Closing, SendReply, DoneWith, CloseIfDone
<1>5. CASE UNCHANGED phase
  BY <1>5
<1>6. CASE Receive \/ VNCMain \/ VNCHandler \/ SendCommand \/ Connect \/ LinkLost
           \/ UNCHANGED vars
  BY <1>5, <1>6 DEF Receive, VNCMain, VNCHandler, RecvVNC, ReturnVNC2Client, OnDisconnectVNC,
              ProxyDisconnect, OnCloseVNC, SendCommand, Connect, RecvFails, RecvCommand, LinkLost,
              ParsedInPart, ParserFull, OnRecvProxyDisconnect, ParsedAll, vars
<1>7. CASE \E r \in Requests :
             OnReceiveBody(r) \/ RequestEnds(r) \/ OnSuccessOrFail(r) \/ UnlockAndDelete(r)
  BY <1>5, <1>7 DEF OnReceiveBody, RequestEnds, OnSuccessOrFail, UnlockAndDelete
<1>8. CASE \E t \in Threads : Send(t)
  BY <1>5, <1>8 DEF Send, SendWhole, SendFails, Sent, SendPart, SendBetween
<1>9. CASE \E c \in DOMAIN fdOf : RecvPacket(c) \/ BrowserLeaves(c)
  BY <1>5, <1>9 DEF RecvPacket, BrowserLeaves
<1>10. ASSUME NEW fd \in Fds, Accept(fd)
       PROVE  Closing(b)
  BY <1>a, <1>10 DEF Closing, Accept
<1> QED
  BY <1>1, <1>2, <1>3, <1>4, <1>6, <1>7, <1>8, <1>9, <1>10
     DEF Next, Program, Environment, MainThread, Handlers

\* Nobody is hung up on before its answer is whole, unless it is excused.
LEMMA HungUpRightly ==
    ASSUME RaceFree, TypeInv', [Next]_vars, races' = {}
    PROVE  Exchange!HangsUpRightly
<1>a. AnswerOptions /\ BrowsersType'
  BY AnswerStep DEF RaceFree, TypeInv
<1>b. excused \subseteq excused'
  BY <1>a, BrowsersLater DEF RaceFree
<1>1. ASSUME NEW b \in Closeds', b \notin Closeds, b \notin excused'
      PROVE  \E r \in Requests : Serves[r] = {b} /\ (Exchange!Whole(r, b))'
  <2>1. b \in Browsers /\ phase[b] # "closed" /\ phase'[b] = "closed"
    BY <1>1 DEF Closeds
  <2>2. b \notin excused /\ Owed(b) /\ b \notin gone
    BY <1>1, <1>b, <2>1 DEF Owed, RaceFree, SettledInv
  <2>3. \/ b \in shut /\ Outstanding(b) = 0 /\ UNCHANGED replies
        \/ b \in shut /\ Outstanding(b) = 1 /\ SendReply /\ Head(replies).to = b
    BY <1>1, <2>1, ClosingStep DEF RaceFree, Closing
  <2>4. Answered(b, 0)
    BY <2>2, <2>3 DEF RaceFree, SettledInv
  <2>5. PICK r \in Requests : /\ request[r].of = {b} /\ Ended(r)
                              /\ \A k \in 1 .. request[r].pieces : Settled(r, k, 0)
    BY <2>2, <2>4 DEF Answered
  <2>6. request'[r].of = {b}
    BY <2>5, OfLater DEF RaceFree
  <2>7. ASSUME NEW k \in 1 .. request[r].pieces
        PROVE  (Through(r, k))'
    <3>1. Through(r, k) \/ \E i \in DOMAIN replies : Waits(i, r, k)
      BY <2>5 DEF Settled
    <3>2. CASE Through(r, k)
      BY <1>a, <2>1, <2>5, <2>6, <3>2, ThroughStep DEF RaceFree
    <3>3. ASSUME NEW i \in DOMAIN replies, Waits(i, r, k)
          PROVE  (Through(r, k))'
      <4>1. i \in ToOf(b)
        BY <2>5, <3>3 DEF ToOf, Waits, RaceFree, PlaceInv
      <4>2. Outstanding(b) = 1 /\ SendReply /\ ToOf(b) = {i}
        BY <2>1, <2>3, <4>1, OutstandingFacts DEF RaceFree
      <4>3. 1 \in ToOf(b)
        <5>1. replies # <<>> /\ replies \in Seq(Replies)
          BY <4>2 DEF SendReply, RaceFree, TypeInv, RepliesType
        <5>2. 1 \in DOMAIN replies /\ replies[1] = Head(replies)
          BY <5>1
        <5>3. Head(replies).to = b
          BY <2>3, <4>2
        <5> QED BY <5>2, <5>3 DEF ToOf
      <4>4. i = 1
        BY <4>2, <4>3
      <4>5. \E m \in Replies : Hears(m)
        <5>1. replies # <<>> /\ replies' = Tail(replies) /\ UNCHANGED <<handling, up>>
          BY <4>2 DEF SendReply, proxy, link
        <5>2. Coming' = Coming
          BY <5>1, ComingKept DEF RaceFree
        <5>3. Len(Tail(replies)) # Len(replies)
          <6>1. replies \in Seq(Replies)
            BY DEF RaceFree, TypeInv, RepliesType
          <6> QED BY <5>1, <6>1
        <5>4. Len(Coming) - 1 # Len(Coming)
          <6>1. Len(Coming) \in Nat
            BY FlowFacts DEF RaceFree
          <6> QED BY <6>1
        <5> QED BY <1>a, <5>1, <5>2, <5>3, <5>4
                DEF AnswerOptions, Keeps, Loses, Closes, Writes, Returns, Popped
      <4> QED BY <1>a, <2>1, <2>2, <2>5, <2>6, <3>3, <4>4, <4>5, WaitsStep DEF RaceFree
    <3> QED BY <3>1, <3>2, <3>3
  <2>8. Serves[r] = {b} /\ (Exchange!Whole(r, b))'
    BY <1>a, <2>1, <2>5, <2>7, WholeAnswer DEF RaceFree
  <2> QED BY <2>8
<1> QED BY <1>1 DEF Exchange!HangsUpRightly, Closeds, Serves

\* What a step does to pieces, as the tunnel sees it.
TunnelMoves ==
    \/ UNCHANGED <<Serves, Pieced, Endeds, heard, dropped>>
    \/ \E r \in Requests :
         \/ Exchange!Give(r) \/ Exchange!End(r)
         \/ \E b \in Browsers : Exchange!Serve(r, b)
                               \/ \E k \in 1 .. Pieced[r] : Exchange!Hear(r, b, k)
         \/ \E k \in 1 .. Pieced[r] : Exchange!Drop(r, k)

\* The send thread: the browser hears the next piece of its answer.
LEMMA HearStep ==
    ASSUME RaceFree, TypeInv', NEW m \in Replies, Hears(m)
    PROVE  TunnelMoves
<1>1. UNCHANGED <<Serves, Pieced, Endeds, dropped>>
  BY DEF Hears, SendReply, peer, Serves, Pieced, Endeds
<1>2. CASE heard' = heard
  BY <1>1, <1>2 DEF TunnelMoves
<1>3. CASE m.to \notin gone /\ heard' = [heard EXCEPT ![m.to] = Append(@, <<m.request, m.piece>>)]
  <2>1. PICK b \in Browsers, r \in Requests, k \in 1 .. MaxPieces :
           b = m.to /\ r = m.request /\ k = m.piece
    BY DEF Replies
  <2>2. replies[1] = m /\ 1 \in DOMAIN replies
    BY DEF Hears, Popped
  <2>3. request[r].of = {b} /\ phase[b] # "closed"
    BY <2>1, <2>2 DEF RaceFree, PlaceInv, PhaseInv
  <2>4. Waits(1, r, k)
    BY <2>1, <2>2 DEF Waits
  <2>5. k <= Given(r) /\ \A j \in 1 .. MaxPieces : Got(r, j) => j < k
    BY <2>2, <2>4 DEF RaceFree, OrderInv
  <2>6. Given(r) <= request[r].pieces /\ Given(r) \in Nat /\ request[r].pieces \in 0 .. MaxPieces
    BY GivenFacts DEF RaceFree
  <2>7. k \in 1 .. request[r].pieces /\ \A j \in 1 .. request[r].pieces : j \in 1 .. MaxPieces
    BY <2>5, <2>6, BoundFacts
  <2>8. ~ Got(r, k)
    BY <2>5
  <2>9. \A j \in 1 .. request[r].pieces : j < k => Through(r, j)
    <3>1. replies[1].to \notin gone
      BY <1>3, <2>2
    <3>2. \A j \in 1 .. k - 1 : Through(r, j) \/ \E h \in 1 .. 1 - 1 : Waits(h, r, j)
      BY <2>2, <2>4, <3>1 DEF RaceFree, SettledInv
    <3>3. 1 .. 1 - 1 = {}
      OBVIOUS
    <3>4. \A j \in 1 .. request[r].pieces : j < k => j \in 1 .. k - 1
      BY <2>6
    <3> QED BY <3>2, <3>3, <3>4
  <2>10. \A j : <<r, j>> \in Range(heard[b]) <=> Got(r, j)
    BY <2>3 DEF Got, Range
  <2>11. Exchange!Unheard(r, b) = {j \in 1 .. request[r].pieces : ~ Got(r, j)}
    BY <2>10 DEF Exchange!Unheard, Exchange!Of, Exchange!Range, Range
  <2>12. Exchange!Of(r, Exchange!Range(heard[b])) = {j \in 1 .. request[r].pieces : Got(r, j)}
    BY <2>10 DEF Exchange!Of, Exchange!Range, Range
  <2>13. Serves[r] = {b} /\ Pieced[r] = request[r].pieces /\ b \notin Closeds
    BY <2>3 DEF Serves, Pieced, Closeds
  <2>14. \A j \in Exchange!Unheard(r, b) : j < k => <<r, j>> \in dropped
    BY <2>9, <2>11 DEF Through
  <2>15. \A j \in Exchange!Of(r, Exchange!Range(heard[b])) : j < k
    BY <2>5, <2>7, <2>12
  <2>16. k \in Exchange!Unheard(r, b)
    BY <2>7, <2>8, <2>11
  <2>17. heard' = [heard EXCEPT ![b] = Append(@, <<r, k>>)]
    BY <1>3, <2>1
  <2>18. Exchange!Hear(r, b, k)
    BY <1>1, <2>13, <2>14, <2>15, <2>16, <2>17
       DEF Exchange!Hear, Serves, Pieced, Endeds, Closeds
  <2> QED BY <2>7, <2>13, <2>18 DEF TunnelMoves
<1> QED BY <1>2, <1>3 DEF Hears

\* ReturnVNC2Client: a piece is left out if there is no idle message.
LEMMA DropStep ==
    ASSUME RaceFree, NEW c \in Pieces, NEW b \in Browsers, Returns(c, b)
    PROVE  TunnelMoves
<1>1. UNCHANGED <<Serves, Pieced, Endeds, heard>>
  BY DEF ReturnVNC2Client, Returns, peer, Serves, Pieced, Endeds
<1>2. CASE dropped' = dropped
  BY <1>1, <1>2 DEF TunnelMoves
<1>3. CASE dropped' # dropped
  <2>1. dropped' = dropped \cup {<<c.request, c.piece>>} /\ ~ Idle
    BY <1>3 DEF Returns, ReturnVNC2Client
  <2>2. PICK r \in Requests, k \in 1 .. MaxPieces : r = c.request /\ k = c.piece
    BY DEF Pieces
  <2>3. Comes(1, r, k) /\ 1 \in DOMAIN Coming
    BY <2>2 DEF Returns, Popped, Pieces, Comes
  <2>4. k <= Given(r)
    BY <2>3 DEF RaceFree, OrderInv
  <2>5. Given(r) <= request[r].pieces /\ Given(r) \in Nat /\ request[r].pieces \in 0 .. MaxPieces
    BY GivenFacts DEF RaceFree
  <2>6. k \in 1 .. Pieced[r]
    BY <2>4, <2>5 DEF Pieced
  <2>7. Exchange!Drop(r, k)
    BY <1>1, <2>1, <2>2, <2>6 DEF Exchange!Drop, Serves, Pieced, Endeds
  <2> QED BY <2>6, <2>7 DEF TunnelMoves
<1> QED BY <1>2, <1>3

\* The receiving thread: a request is made.
LEMMA ServeStep ==
    ASSUME RaceFree, TypeInv', NEW r \in Requests, ParsedAll(r)
    PROVE  TunnelMoves
<1>1. /\ pc[Receiver] = "parse" /\ pc[r] = "none" /\ UNCHANGED <<heard, dropped>>
      /\ request' = [request EXCEPT ![r] = [fd |-> cmd.fd, seq |-> cmd.seq,
                                           of |-> Fed[cmd.fd], pieces |-> 0]]
      /\ pc' = [pc EXCEPT ![Receiver] = "recv", ![r] = "run"]
  BY DEF ParsedAll, At, ghosts
<1>2. cmd \in ToPeer /\ cmd.of \in Browsers /\ cmd.fd \in Fds
  BY <1>1, InHandGoing DEF ToPeer, RaceFree
<1>3. parser[cmd.fd] \subseteq {cmd.of}
  BY <1>1 DEF RaceFree, ErasedInv
<1>4. parser \in [Fds -> SUBSET Browsers]
      /\ request \in [Requests -> [fd : Fds \cup {Nobody}, seq : Nat, of : SUBSET Browsers,
                                   pieces : 0 .. MaxPieces]]
      /\ request[r].of = {} /\ request[r].pieces = 0
      /\ pc \in [Threads -> {"connect", "recv", "parse", "erase", "none", "run", "send",
                             "end", "hangup", "unlock", "deleted"}]
  BY <1>1 DEF RaceFree, TypeInv, RequestsType, PlacesType
<1>5. Fed[cmd.fd] = {cmd.of}
  BY <1>2, <1>3, <1>4 DEF Fed
<1>6. Serves' = [Serves EXCEPT ![r] = {cmd.of}]
  BY <1>1, <1>4, <1>5 DEF Serves
<1>7. Pieced' = Pieced
  BY <1>1, <1>4 DEF Pieced
<1>8. Endeds' = Endeds
  BY <1>1, <1>4, ThreadFacts DEF Endeds
<1>9. Serves[r] = {}
  BY <1>4 DEF Serves
<1>10. PICK b \in Browsers : b = cmd.of
  BY <1>2
<1>11. Exchange!Serve(r, b)
  BY <1>1, <1>6, <1>7, <1>8, <1>9, <1>10 DEF Exchange!Serve, Serves, Pieced, Endeds
<1> QED BY <1>11 DEF TunnelMoves

\* curl: a request gets a piece of its answer, or ends.
LEMMA GiveStep ==
    ASSUME RaceFree, TypeInv', NEW r \in Requests,
           OnReceiveBody(r) \/ RequestEnds(r) \/ OnSuccessOrFail(r) \/ UnlockAndDelete(r)
           \/ SendWhole(r) \/ SendFails(r)
    PROVE  TunnelMoves
<1>1. UNCHANGED <<heard, dropped>>
  BY DEF OnReceiveBody, RequestEnds, OnSuccessOrFail, UnlockAndDelete, SendWhole, SendFails, Sent,
         ghosts
<1>2. /\ request \in [Requests -> [fd : Fds \cup {Nobody}, seq : Nat, of : SUBSET Browsers,
                                    pieces : 0 .. MaxPieces]]
      /\ request' \in [Requests -> [fd : Fds \cup {Nobody}, seq : Nat, of : SUBSET Browsers,
                                    pieces : 0 .. MaxPieces]]
      /\ pc \in [Threads -> {"connect", "recv", "parse", "erase", "none", "run", "send",
                             "end", "hangup", "unlock", "deleted"}]
  BY DEF RaceFree, TypeInv, RequestsType, PlacesType
<1>3. pc[r] # "none" => Serves[r] # {}
  BY DEF RaceFree, KnownInv, Serves
<1>4. CASE OnReceiveBody(r)
  <2>1. /\ pc[r] = "run" /\ pc' = [pc EXCEPT ![r] = "send"]
        /\ request' = [request EXCEPT ![r].pieces = @ + 1]
    BY <1>4 DEF OnReceiveBody, At, Goto
  <2>2. Serves' = Serves
    BY <1>2, <2>1 DEF Serves
  <2>3. Pieced' = [Pieced EXCEPT ![r] = @ + 1]
    BY <1>2, <2>1 DEF Pieced
  <2>4. Endeds' = Endeds /\ r \notin Endeds
    BY <1>2, <2>1, ThreadFacts DEF Endeds
  <2>5. Pieced[r] < MaxPieces
    <3>1. request'[r].pieces = request[r].pieces + 1 /\ request'[r].pieces \in 0 .. MaxPieces
          /\ request[r].pieces \in 0 .. MaxPieces
      BY <1>2, <2>1
    <3> QED BY <3>1, BoundFacts DEF Pieced
  <2>6. Exchange!Give(r)
    BY <1>1, <1>3, <2>1, <2>2, <2>3, <2>4, <2>5 DEF Exchange!Give, Serves, Pieced, Endeds
  <2> QED BY <2>6 DEF TunnelMoves
<1>5. CASE RequestEnds(r)
  <2>1. pc[r] = "run" /\ pc' = [pc EXCEPT ![r] = "end"] /\ request' = request
    BY <1>5 DEF RequestEnds, At, Goto
  <2>2. Serves' = Serves /\ Pieced' = Pieced
    BY <2>1 DEF Serves, Pieced
  <2>3. Endeds' = Endeds \cup {r}
    BY <1>2, <2>1, ThreadFacts DEF Endeds
  <2>4. Exchange!End(r)
    BY <1>1, <1>3, <2>1, <2>2, <2>3 DEF Exchange!End, Serves, Pieced, Endeds
  <2> QED BY <2>4 DEF TunnelMoves
<1>6. CASE OnSuccessOrFail(r) \/ UnlockAndDelete(r) \/ SendWhole(r) \/ SendFails(r)
  <2>1. /\ request' = request
        /\ \/ pc[r] \in {"end", "unlock", "hangup"}
              /\ \E l \in {"hangup", "unlock", "deleted"} : pc' = [pc EXCEPT ![r] = l]
           \/ pc[r] = "send" /\ pc' = [pc EXCEPT ![r] = "run"]
    BY <1>6, ThreadFacts DEF OnSuccessOrFail, UnlockAndDelete, SendWhole, SendFails, Sent, At,
                             Goto, AfterSend, Sends
  <2>2. Serves' = Serves /\ Pieced' = Pieced
    BY <2>1 DEF Serves, Pieced
  <2>3. Endeds' = Endeds
    BY <1>2, <2>1, ThreadFacts DEF Endeds
  <2> QED BY <1>1, <2>2, <2>3 DEF TunnelMoves
<1> QED BY <1>4, <1>5, <1>6

\* Every step is one of the tunnel.
LEMMA TunnelStep ==
    ASSUME RaceFree, TypeInv', [Next]_vars, races' = {}
    PROVE  Exchange!TunnelNext
<1>a. AnswerOptions /\ RequestOptions /\ BrowsersType'
  BY AnswerStep, RequestStep DEF RaceFree, TypeInv
<1>b. PlacesType
  BY DEF RaceFree, TypeInv
<1>1. TunnelMoves
  <2>1. CASE request' = request /\ \A r \in Requests : pc'[r] = pc[r]
    <3>1. UNCHANGED <<Serves, Pieced, Endeds>>
      BY <2>1 DEF Serves, Pieced, Endeds
    <3>2. CASE Keeps \/ Loses \/ (\E c \in Closings : Closes(c)) \/ \E t \in Threads : Writes(t)
      BY <3>1, <3>2 DEF TunnelMoves, Keeps, Loses, Closes, Writes
    <3>3. CASE (\E m \in Replies : Hears(m)) \/ \E c \in Pieces, b \in Browsers : Returns(c, b)
      BY <3>3, HearStep, DropStep
    <3> QED BY <1>a, <3>2, <3>3 DEF AnswerOptions
  <2>2. CASE \E r \in Requests : ParsedAll(r)
    BY <2>2, ServeStep
  <2>3. CASE \E r \in Requests :
               OnReceiveBody(r) \/ RequestEnds(r) \/ OnSuccessOrFail(r) \/ UnlockAndDelete(r)
               \/ SendWhole(r) \/ SendFails(r)
    BY <2>3, GiveStep
  <2> QED BY <1>a, <2>1, <2>2, <2>3 DEF RequestOptions
<1>2. excused \subseteq excused' /\ Closeds \subseteq Closeds'
  BY <1>a, BrowsersLater DEF Closeds, RaceFree
<1>3. Exchange!HangsUpRightly
  BY HungUpRightly
<1> QED BY <1>1, <1>2, <1>3 DEF Exchange!TunnelNext, TunnelMoves, Serves, Pieced, Endeds, Closeds

(***************************************************************************)
(* As long as no race is entered, the two programs together are a tunnel:  *)
(* a browser hears its own answer, in order and once, with holes only when *)
(* the proxy has no idle message, and is hung up on before it is whole     *)
(* only when it is excused.                                                *)
(***************************************************************************)
THEOREM TunnelImplemented == Spec /\ [](races = {}) => ImplementsTunnel
<1>1. Init => Exchange!TunnelInit
  BY TunnelAtFirst
<1>2. IInv /\ IInv' /\ races = {} /\ (races = {})' /\ [Next]_vars => Exchange!TunnelNext
  <2>1. SUFFICES ASSUME IInv, IInv', races = {}, races' = {}, [Next]_vars
                 PROVE  Exchange!TunnelNext
    OBVIOUS
  <2>2. RaceFree /\ TypeInv'
    BY <2>1 DEF IInv, RaceFreeInv, RaceFree
  <2> QED BY <2>1, <2>2, TunnelStep
<1>3. Spec => []IInv
  BY InvariantHolds
<1> QED BY <1>1, <1>2, <1>3, PTL DEF Spec, ImplementsTunnel, Exchange!TunnelSpec
=============================================================================
