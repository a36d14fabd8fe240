------------------------- MODULE TcpProxyServerProofs -------------------------
(***************************************************************************)
(* The invariant of TcpProxyServer is inductive, and the properties that   *)
(* follow from it, for any number of descriptors, threads and connections: *)
(* types, control points and locks, and what each side leaves alone of the *)
(* other; the connections of both servers (BrowserInv, PeerInv), with one  *)
(* lemma for each conjunct and each side; the commands, their numbers and  *)
(* the tasks (QueueInv).                                                   *)
(***************************************************************************)
EXTENDS TcpProxyServerInvariants, FiniteSetTheorems, TLAPS

(***************************************************************************)
(* The threads of one server are not threads of the other.                 *)
(***************************************************************************)
LEMMA ThreadFacts ==
    /\ BThreads \cap VThreads = {} /\ Nobody \notin Threads
    /\ "main" \notin Handlers /\ "send" \notin Handlers
    /\ "vmain" \notin VNCHandlers /\ "vsend" \notin VNCHandlers
BY ProxyAssumption DEF BThreads, VThreads, Threads

LEMMA ElementType == ASSUME NEW S, NEW s \in Seq(S), NEW i \in DOMAIN s PROVE s[i] \in S
OBVIOUS

\* The order of the steps of SendClient2VNC.
LEMMA SendOrderFacts ==
    After("check") = "addseq" /\ After("addseq") = "lock" /\ After("lock") = "queue"
<1>1. /\ SendOrder[1] = "check" /\ SendOrder[2] = "addseq"
      /\ SendOrder[3] = "lock" /\ SendOrder[4] = "queue"
  BY DEF SendOrder
<1>2. (CHOOSE i \in 1 .. 3 : SendOrder[i] = "check") = 1
  BY <1>1
<1>3. (CHOOSE i \in 1 .. 3 : SendOrder[i] = "addseq") = 2
  BY <1>1
<1>4. (CHOOSE i \in 1 .. 3 : SendOrder[i] = "lock") = 3
  BY <1>1
<1> QED BY <1>1, <1>2, <1>3, <1>4 DEF After

(***************************************************************************)
(* What an operation of the browsers' TcpServer does to its connection.    *)
(***************************************************************************)
LEMMA BrowserTypes ==
    ASSUME Browser!ServiceTypeOK, NEW c \in Conns,
           \/ Browser!Accepted(c) \/ Browser!Disconnected(c) \/ Browser!Closed(c)
           \/ Browser!Received(c) \/ Browser!Handled(c) \/ Browser!Queued(c) \/ Browser!Sent(c)
    PROVE  Browser!ServiceTypeOK'
BY DEF Browser!ServiceTypeOK, Browser!Accepted, Browser!Disconnected, Browser!Closed,
       Browser!Received, Browser!Handled, Browser!Queued, Browser!Sent, Browser!Move,
       Browser!DoneWith, Browser!Conns, Browser!Phases, Conns

\* A disconnected connection is closed when nothing of it is left.
LEMMA BrowserEnds ==
    ASSUME Browser!ServiceTypeOK, NEW c \in Conns,
           Browser!Disconnected(c) \/ Browser!Handled(c) \/ Browser!Sent(c)
    PROVE  /\ phase' \in [Conns -> Browser!Phases] /\ packets' \in [Conns -> Nat]
           /\ \A d \in Conns \ {c} : phase'[d] = phase[d] /\ packets'[d] = packets[d]
           /\ phase'[c] # phase[c] =>
                 /\ phase[c] \in {"open", "leaving"} /\ phase'[c] \in {"leaving", "closing"}
                 /\ Browser!Handled(c) \/ Browser!Sent(c) => phase[c] = "leaving" /\ phase'[c] = "closing"
                 /\ phase'[c] = "closing" => packets'[c] = 0
           /\ Begins(c) <=> phase'[c] # phase[c] /\ phase'[c] = "closing"
           /\ Browser!Handled(c) => packets[c] > 0 /\ packets'[c] = packets[c] - 1
           /\ Browser!Disconnected(c) \/ Browser!Sent(c) => packets'[c] = packets[c]
           /\ Browser!Disconnected(c) => phase[c] = "open" /\ phase'[c] # "open"
<1> USE DEF Browser!ServiceTypeOK, Browser!Conns, Browser!Phases, Conns, Begins
<1>1. CASE Browser!Disconnected(c)
  BY <1>1 DEF Browser!Disconnected, Browser!Move, Browser!Drained, Browser!Handled, Browser!Sent
<1>2. CASE Browser!Handled(c)
  BY <1>2 DEF Browser!Handled, Browser!DoneWith, Browser!Disconnected, Browser!Sent
<1>3. CASE Browser!Sent(c)
  BY <1>3 DEF Browser!Sent, Browser!DoneWith, Browser!Disconnected, Browser!Handled
<1> QED BY <1>1, <1>2, <1>3

(***************************************************************************)
(* The same of the peer's TcpServer.                                       *)
(***************************************************************************)
LEMMA VNCTypes ==
    ASSUME VNC!ServiceTypeOK, NEW v \in VNCs,
           \/ VNC!Accepted(v) \/ VNC!Disconnected(v) \/ VNC!Closed(v)
           \/ VNC!Received(v) \/ VNC!Handled(v) \/ VNC!Queued(v) \/ VNC!Sent(v)
    PROVE  VNC!ServiceTypeOK'
BY DEF VNC!ServiceTypeOK, VNC!Accepted, VNC!Disconnected, VNC!Closed, VNC!Received,
       VNC!Handled, VNC!Queued, VNC!Sent, VNC!Move, VNC!DoneWith, VNC!Conns, VNC!Phases, VNCs

LEMMA VNCEnds ==
    ASSUME VNC!ServiceTypeOK, NEW v \in VNCs,
           VNC!Disconnected(v) \/ VNC!Handled(v) \/ VNC!Sent(v)
    PROVE  /\ vphase' \in [VNCs -> VNC!Phases]
           /\ vpackets' \in [VNCs -> Nat] /\ vreplies' \in [VNCs -> Nat]
           /\ \A u \in VNCs \ {v} : /\ vphase'[u] = vphase[u] /\ vpackets'[u] = vpackets[u]
                                    /\ vreplies'[u] = vreplies[u]
           /\ vphase'[v] # vphase[v] =>
                 /\ vphase[v] \in {"open", "leaving"} /\ vphase'[v] \in {"leaving", "closing"}
                 /\ VNC!Handled(v) \/ VNC!Sent(v) => vphase[v] = "leaving" /\ vphase'[v] = "closing"
                 /\ vphase'[v] = "closing" => vpackets'[v] = 0 /\ vreplies'[v] = 0
                 /\ vphase'[v] = "leaving" => vpackets[v] + vreplies[v] # 0
           /\ VNCBegins(v) <=> vphase'[v] # vphase[v] /\ vphase'[v] = "closing"
           /\ VNC!Handled(v) => /\ vpackets[v] > 0 /\ vpackets'[v] = vpackets[v] - 1
                                /\ vreplies'[v] = vreplies[v]
           /\ VNC!Sent(v) => /\ vreplies[v] > 0 /\ vreplies'[v] = vreplies[v] - 1
                             /\ vpackets'[v] = vpackets[v]
           /\ VNC!Disconnected(v) => /\ vphase[v] = "open" /\ vphase'[v] # "open"
                                     /\ vpackets'[v] = vpackets[v] /\ vreplies'[v] = vreplies[v]
<1> USE DEF VNC!ServiceTypeOK, VNC!Conns, VNC!Phases, VNCs, VNCBegins
<1>1. CASE VNC!Disconnected(v)
  BY <1>1 DEF VNC!Disconnected, VNC!Move, VNC!Drained, VNC!Handled, VNC!Sent
<1>2. CASE VNC!Handled(v)
  BY <1>2 DEF VNC!Handled, VNC!DoneWith, VNC!Disconnected, VNC!Sent
<1>3. CASE VNC!Sent(v)
  BY <1>3 DEF VNC!Sent, VNC!DoneWith, VNC!Disconnected, VNC!Handled
<1> QED BY <1>1, <1>2, <1>3

(***************************************************************************)
(* Types, in parts.                                                        *)
(***************************************************************************)
KernelType  == /\ fdOf \in Seq(Fds) /\ Len(fdOf) <= MaxConns
               /\ shut \subseteq Conns /\ vshut \subseteq VNCs
MapsType    == /\ mClientMap \in [Fds -> 0 .. MaxConns]
               /\ sessions \in [Fds -> [client : 0 .. MaxConns, tasks : SUBSET Nat]]
VncType     == /\ mpVNCClient \in 0 .. MaxVNC /\ alive \subseteq VNCs
               /\ isOnline \in [VNCs -> BOOLEAN] /\ sendSeq \in [VNCs -> Nat]
LockType    == lock \in [Locks -> Threads \cup {Nobody}]
PlaceType   == pc \in [Threads -> Locations] /\ work \in [Threads -> Nat]
FoundType   == /\ client \in [Threads -> 0 .. MaxConns]
               /\ seq \in [Threads -> Nat] /\ numbered \in [Threads -> 0 .. MaxVNC]
QueueType   == /\ commands \in Seq([vnc : VNCs, client : Conns, fd : Fds, seq : Nat,
                                     packet : BOOLEAN])
               /\ nsent \in 0 .. Len(commands) /\ cmd \in [Threads -> 0 .. Len(commands)]
RacesType   == races \subseteq {"vncGone", "lateCommand", "lateReply"}

TypeParts == /\ Browser!ServiceTypeOK /\ VNC!ServiceTypeOK
             /\ KernelType /\ MapsType /\ VncType /\ LockType /\ PlaceType /\ FoundType
             /\ QueueType /\ RacesType

LEMMA TypeOfParts == (TypeOK <=> TypeParts) /\ (TypeOK' <=> TypeParts')
BY DEF TypeOK, TypeParts, KernelType, MapsType, VncType, LockType, PlaceType, FoundType,
    QueueType, RacesType

(***************************************************************************)
(* Types and control points.                                               *)
(***************************************************************************)
LEMMA TypeInit == Init => TypeOK /\ ControlInv
<1> SUFFICES ASSUME Init PROVE TypeOK /\ ControlInv
  OBVIOUS
<1> USE ProxyAssumption DEF Init
<1>1. Browser!ServiceTypeOK /\ VNC!ServiceTypeOK
  BY DEF Browser!ServiceInit, Browser!ServiceTypeOK, Browser!Conns, Browser!Phases,
         VNC!ServiceInit, VNC!ServiceTypeOK, VNC!Conns, VNC!Phases
<1>2. TypeOK
  BY <1>1 DEF TypeOK, NoSession, Locations, Threads
<1>3. ControlInv
  BY DEF ControlInv, Threads, BThreads, VThreads
<1> QED BY <1>2, <1>3

LEMMA TypeStep == InductiveInv /\ [Next]_vars => TypeOK' /\ ControlInv'
<1> SUFFICES ASSUME InductiveInv, [Next]_vars PROVE TypeOK' /\ ControlInv'
  OBVIOUS
<1>a. /\ Browser!ServiceTypeOK /\ VNC!ServiceTypeOK
      /\ KernelType /\ MapsType /\ VncType /\ LockType /\ PlaceType /\ FoundType
      /\ QueueType /\ RacesType
      /\ ControlInv /\ ClientOutlivesUsers
  BY TypeOfParts DEF TypeParts, InductiveInv, BrowserInv
<1> USE <1>a DEF browsers, peer, kernel, maps, vnc, found, locals, queue, At, Goto, Take
<1>b. /\ MaxConns \in Nat /\ MaxVNC \in Nat
      /\ Len(fdOf) \in Nat /\ Accepted \subseteq Conns /\ VNCs \subseteq Nat
      /\ \A c \in Accepted : fdOf[c] \in Fds
  <2>1. MaxConns \in Nat /\ MaxVNC \in Nat
    BY ProxyAssumption
  <2> QED BY <2>1 DEF KernelType, Accepted, Conns, VNCs
<1>1. ASSUME NEW f \in Fds, Accept(f)
      PROVE  TypeOK' /\ ControlInv'
  <2>1. Browser!Accepted(Len(fdOf) + 1) /\ Len(fdOf) + 1 \in Conns
    BY <1>1, <1>b DEF Accept, IsFree, ControlInv, Conns, KernelType, Accepted, BThreads,
        VThreads
  <2>2. Browser!ServiceTypeOK' /\ VNC!ServiceTypeOK'
    BY <1>1, <2>1, BrowserTypes DEF Accept, IsFree, VNC!ServiceTypeOK
  <2>3. /\ VncType' /\ LockType' /\ PlaceType' /\ FoundType'
       /\ QueueType' /\ RacesType'
    BY <1>1 DEF Accept, IsFree, VncType, LockType, PlaceType, FoundType, QueueType, RacesType
  <2>4. KernelType'
    BY <1>1, <1>b, <2>1 DEF Accept, IsFree, KernelType, Conns, Accepted
  <2>5. MapsType'
    BY <1>1, <1>b, <2>1 DEF Accept, IsFree, MapsType, NoSession, InsertRequestTask, Accepted,
        KernelType, FoundType, Threads, BThreads, Conns
  <2>6. ControlInv'
    BY <1>1, <1>b, <2>1, SendOrderFacts, ThreadFacts DEF Accept, IsFree, ControlInv,
        PlaceType, KernelType, QueueType, Closers, VClosers, MainSteps, SendSteps,
        ParseSteps, Accepted, Threads, BThreads, VThreads
  <2> QED BY <2>2, <2>3, <2>4, <2>5, <2>6, TypeOfParts DEF TypeParts
<1>2. ASSUME NEW c \in Accepted, PeerClose(c)
      PROVE  TypeOK' /\ ControlInv'
  <2>1. Browser!ServiceTypeOK' /\ VNC!ServiceTypeOK'
    BY <1>2 DEF PeerClose, Browser!ServiceTypeOK, VNC!ServiceTypeOK
  <2>2. /\ MapsType' /\ VncType' /\ LockType' /\ PlaceType'
       /\ FoundType' /\ QueueType' /\ RacesType'
    BY <1>2 DEF PeerClose, MapsType, VncType, LockType, PlaceType, FoundType, QueueType,
        RacesType
  <2>3. KernelType'
    BY <1>2, <1>b DEF PeerClose, KernelType, Conns
  <2>4. ControlInv'
    BY <1>2, <1>b, SendOrderFacts, ThreadFacts DEF PeerClose, ControlInv, PlaceType,
        KernelType, QueueType, Closers, VClosers, MainSteps, SendSteps, ParseSteps,
        Accepted, Threads, BThreads, VThreads
  <2> QED BY <2>1, <2>2, <2>3, <2>4, TypeOfParts DEF TypeParts
<1>3. ASSUME NEW c \in Accepted, RecvPacket(c)
      PROVE  TypeOK' /\ ControlInv'
  <2>1. Browser!Received(c) /\ c \in Conns
    BY <1>3, <1>b DEF RecvPacket, Conns, KernelType, Accepted
  <2>2. Browser!ServiceTypeOK' /\ VNC!ServiceTypeOK'
    BY <1>3, <2>1, BrowserTypes DEF RecvPacket, VNC!ServiceTypeOK
  <2>3. /\ KernelType' /\ MapsType' /\ VncType' /\ LockType'
       /\ PlaceType' /\ FoundType' /\ QueueType' /\ RacesType'
    BY <1>3 DEF RecvPacket, KernelType, MapsType, VncType, LockType, PlaceType, FoundType,
        QueueType, RacesType
  <2>4. ControlInv'
    BY <1>3, <1>b, <2>1, SendOrderFacts, ThreadFacts DEF RecvPacket, ControlInv, PlaceType,
        KernelType, QueueType, Closers, VClosers, MainSteps, SendSteps, ParseSteps,
        Accepted, Threads, BThreads, VThreads
  <2> QED BY <2>2, <2>3, <2>4, TypeOfParts DEF TypeParts
<1>4. ASSUME NEW c \in Accepted, OnDisconnect(c)
      PROVE  TypeOK' /\ ControlInv'
  <2>1. Browser!ServiceTypeOK' /\ VNC!ServiceTypeOK'
    BY <1>4 DEF OnDisconnect, Acquire, IsFree, Browser!ServiceTypeOK, VNC!ServiceTypeOK
  <2>2. /\ KernelType' /\ MapsType' /\ VncType' /\ QueueType'
       /\ RacesType'
    BY <1>4 DEF OnDisconnect, Acquire, IsFree, KernelType, MapsType, VncType, QueueType,
        RacesType
  <2>3. LockType'
    BY <1>4, <1>b DEF OnDisconnect, Acquire, IsFree, LockType, Locks, Threads, BThreads,
        VThreads
  <2>4. PlaceType'
    BY <1>4, <1>b, SendOrderFacts DEF OnDisconnect, Acquire, IsFree, PlaceType, Locations,
        Threads, BThreads, VThreads, Accepted, KernelType, ControlInv
  <2>5. FoundType'
    BY <1>4, <1>b DEF OnDisconnect, Acquire, IsFree, FoundType, Threads, MapsType, VncType,
        Accepted, KernelType, BThreads
  <2>6. ControlInv'
    BY <1>4, <1>b, SendOrderFacts, ThreadFacts DEF OnDisconnect, Acquire, IsFree, ControlInv,
        PlaceType, KernelType, QueueType, Closers, VClosers, MainSteps, SendSteps,
        ParseSteps, Accepted, Threads, BThreads, VThreads
  <2> QED BY <2>1, <2>2, <2>3, <2>4, <2>5, <2>6, TypeOfParts DEF TypeParts
<1>5. ASSUME NEW c \in Accepted, SendReply(c)
      PROVE  TypeOK' /\ ControlInv'
  <2>1. Browser!Sent(c) /\ c \in Conns
    BY <1>5, <1>b DEF SendReply, GotoClose, Conns, KernelType, Accepted
  <2>2. Browser!ServiceTypeOK' /\ VNC!ServiceTypeOK'
    BY <1>5, <2>1, BrowserTypes DEF SendReply, GotoClose, VNC!ServiceTypeOK
  <2>3. /\ KernelType' /\ MapsType' /\ VncType' /\ LockType'
       /\ FoundType' /\ QueueType' /\ RacesType'
    BY <1>5 DEF SendReply, GotoClose, KernelType, MapsType, VncType, LockType, FoundType,
        QueueType, RacesType
  <2>4. PlaceType'
    BY <1>5, <1>b, <2>1, SendOrderFacts DEF SendReply, GotoClose, PlaceType, Locations,
        Threads, BThreads, VThreads, Accepted, KernelType, ControlInv
  <2>5. ControlInv'
    BY <1>5, <1>b, <2>1, SendOrderFacts, ThreadFacts DEF SendReply, GotoClose, ControlInv,
        PlaceType, KernelType, QueueType, Closers, VClosers, MainSteps, SendSteps,
        ParseSteps, Accepted, Threads, BThreads, VThreads
  <2> QED BY <2>2, <2>3, <2>4, <2>5, TypeOfParts DEF TypeParts
<1>6. CASE Disconnected
  <2>1. Browser!Disconnected(work["main"]) /\ work["main"] \in Conns
    BY <1>6, <1>b DEF Disconnected, GotoClose, ControlInv, Conns, KernelType, Accepted,
        BThreads, VThreads
  <2>2. Browser!ServiceTypeOK' /\ VNC!ServiceTypeOK'
    BY <1>6, <2>1, BrowserTypes DEF Disconnected, GotoClose, VNC!ServiceTypeOK
  <2>3. /\ KernelType' /\ MapsType' /\ VncType' /\ LockType'
       /\ FoundType' /\ QueueType' /\ RacesType'
    BY <1>6 DEF Disconnected, GotoClose, KernelType, MapsType, VncType, LockType, FoundType,
        QueueType, RacesType
  <2>4. PlaceType'
    BY <1>6, <1>b, <2>1, SendOrderFacts DEF Disconnected, GotoClose, PlaceType, Locations,
        Threads, BThreads, VThreads, Accepted, KernelType, ControlInv
  <2>5. ControlInv'
    BY <1>6, <1>b, <2>1, SendOrderFacts, ThreadFacts DEF Disconnected, GotoClose, ControlInv,
        PlaceType, KernelType, QueueType, Closers, VClosers, MainSteps, SendSteps,
        ParseSteps, Accepted, Threads, BThreads, VThreads
  <2> QED BY <2>2, <2>3, <2>4, <2>5, TypeOfParts DEF TypeParts
<1>7. ASSUME NEW h \in Handlers, HandleDone(h)
      PROVE  TypeOK' /\ ControlInv'
  <2>1. Browser!Handled(work[h]) /\ work[h] \in Conns
    BY <1>7, <1>b DEF HandleDone, GotoClose, ControlInv, Conns, KernelType, Accepted,
        BThreads, VThreads
  <2>2. Browser!ServiceTypeOK' /\ VNC!ServiceTypeOK'
    BY <1>7, <2>1, BrowserTypes DEF HandleDone, GotoClose, VNC!ServiceTypeOK
  <2>3. /\ KernelType' /\ MapsType' /\ VncType' /\ LockType'
       /\ FoundType' /\ QueueType' /\ RacesType'
    BY <1>7 DEF HandleDone, GotoClose, KernelType, MapsType, VncType, LockType, FoundType,
        QueueType, RacesType
  <2>4. PlaceType'
    BY <1>7, <1>b, <2>1, SendOrderFacts DEF HandleDone, GotoClose, PlaceType, Locations,
        Threads, BThreads, VThreads, Accepted, KernelType, ControlInv
  <2>5. ControlInv'
    BY <1>7, <1>b, <2>1, SendOrderFacts, ThreadFacts DEF HandleDone, GotoClose, ControlInv,
        PlaceType, KernelType, QueueType, Closers, VClosers, MainSteps, SendSteps,
        ParseSteps, Accepted, Threads, BThreads, VThreads
  <2> QED BY <2>2, <2>3, <2>4, <2>5, TypeOfParts DEF TypeParts
<1>8. ASSUME NEW h \in Handlers, NEW c \in Accepted, HandleRecvMessage(h, c)
      PROVE  TypeOK' /\ ControlInv'
  <2>1. Browser!ServiceTypeOK' /\ VNC!ServiceTypeOK'
    BY <1>8 DEF HandleRecvMessage, IsFree, Browser!ServiceTypeOK, VNC!ServiceTypeOK
  <2>2. /\ MapsType' /\ VncType' /\ LockType' /\ QueueType'
       /\ RacesType'
    BY <1>8 DEF HandleRecvMessage, IsFree, MapsType, VncType, LockType, QueueType, RacesType
  <2>3. KernelType'
    BY <1>8, <1>b DEF HandleRecvMessage, IsFree, KernelType, Conns, Accepted
  <2>4. PlaceType'
    BY <1>8, <1>b, SendOrderFacts DEF HandleRecvMessage, IsFree, PlaceType, Locations,
        Threads, BThreads, VThreads, Accepted, KernelType, ControlInv
  <2>5. FoundType'
    BY <1>8, <1>b DEF HandleRecvMessage, IsFree, FoundType, Threads, MapsType, VncType,
        Accepted, KernelType, BThreads
  <2>6. ControlInv'
    BY <1>8, <1>b, SendOrderFacts, ThreadFacts DEF HandleRecvMessage, IsFree, ControlInv,
        PlaceType, KernelType, QueueType, Closers, VClosers, MainSteps, SendSteps,
        ParseSteps, Accepted, Threads, BThreads, VThreads
  <2> QED BY <2>1, <2>2, <2>3, <2>4, <2>5, <2>6, TypeOfParts DEF TypeParts
<1>9. ASSUME NEW t \in BThreads, CheckOnline(t)
      PROVE  TypeOK' /\ ControlInv'
  <2>1. Browser!ServiceTypeOK' /\ VNC!ServiceTypeOK'
    BY <1>9 DEF CheckOnline, Browser!ServiceTypeOK, VNC!ServiceTypeOK
  <2>2. /\ KernelType' /\ MapsType' /\ VncType' /\ LockType'
       /\ FoundType' /\ QueueType' /\ RacesType'
    BY <1>9 DEF CheckOnline, KernelType, MapsType, VncType, LockType, FoundType, QueueType,
        RacesType
  <2>3. PlaceType'
    BY <1>9, <1>b, SendOrderFacts DEF CheckOnline, PlaceType, Locations, Threads, BThreads,
        VThreads, Accepted, KernelType, ControlInv
  <2>4. ControlInv'
    BY <1>9, <1>b, SendOrderFacts, ThreadFacts DEF CheckOnline, ControlInv, PlaceType,
        KernelType, QueueType, Closers, VClosers, MainSteps, SendSteps, ParseSteps,
        Accepted, Threads, BThreads, VThreads
  <2> QED BY <2>1, <2>2, <2>3, <2>4, TypeOfParts DEF TypeParts
<1>10. ASSUME NEW t \in BThreads, SendFails(t)
      PROVE  TypeOK' /\ ControlInv'
  <2>1. Browser!ServiceTypeOK' /\ VNC!ServiceTypeOK'
    BY <1>10 DEF SendFails, SendEnds, Release, Browser!ServiceTypeOK, VNC!ServiceTypeOK
  <2>2. MapsType' /\ VncType' /\ QueueType' /\ RacesType'
    BY <1>10 DEF SendFails, SendEnds, Release, MapsType, VncType, QueueType, RacesType
  <2>3. KernelType'
    BY <1>10, <1>b DEF SendFails, SendEnds, Release, KernelType, Conns, Accepted, BThreads,
        ControlInv
  <2>4. LockType'
    BY <1>10, <1>b DEF SendFails, SendEnds, Release, LockType, Locks, Threads, BThreads,
        VThreads
  <2>5. PlaceType'
    BY <1>10, <1>b, SendOrderFacts DEF SendFails, SendEnds, Release, PlaceType, Locations,
        Threads, BThreads, VThreads, Accepted, KernelType, ControlInv
  <2>6. FoundType'
    BY <1>10, <1>b DEF SendFails, SendEnds, Release, FoundType, Threads, MapsType, VncType,
        Accepted, KernelType, BThreads
  <2>7. ControlInv'
    BY <1>10, <1>b, SendOrderFacts, ThreadFacts DEF SendFails, SendEnds, Release, ControlInv,
        PlaceType, KernelType, QueueType, Closers, VClosers, MainSteps, SendSteps,
        ParseSteps, Accepted, Threads, BThreads, VThreads
  <2> QED BY <2>1, <2>2, <2>3, <2>4, <2>5, <2>6, <2>7, TypeOfParts DEF TypeParts
<1>11. ASSUME NEW t \in BThreads, AddSeq(t)
      PROVE  TypeOK' /\ ControlInv'
  <2>1. Browser!ServiceTypeOK' /\ VNC!ServiceTypeOK'
    BY <1>11 DEF AddSeq, IsFree, Usable, Browser!ServiceTypeOK, VNC!ServiceTypeOK
  <2>2. /\ KernelType' /\ MapsType' /\ LockType' /\ QueueType'
       /\ RacesType'
    BY <1>11 DEF AddSeq, IsFree, Usable, KernelType, MapsType, LockType, QueueType, RacesType
  <2>3. VncType'
    BY <1>11, <1>b DEF AddSeq, IsFree, Usable, VncType, FoundType, VNCs
  <2>4. PlaceType'
    BY <1>11, <1>b, SendOrderFacts DEF AddSeq, IsFree, Usable, PlaceType, Locations, Threads,
        BThreads, VThreads, Accepted, KernelType, ControlInv
  <2>5. FoundType'
    BY <1>11, <1>b DEF AddSeq, IsFree, Usable, FoundType, Threads, MapsType, VncType, Accepted,
        KernelType, BThreads
  <2>6. ControlInv'
    BY <1>11, <1>b, SendOrderFacts, ThreadFacts DEF AddSeq, IsFree, Usable, ControlInv,
        PlaceType, KernelType, QueueType, Closers, VClosers, MainSteps, SendSteps,
        ParseSteps, Accepted, Threads, BThreads, VThreads
  <2> QED BY <2>1, <2>2, <2>3, <2>4, <2>5, <2>6, TypeOfParts DEF TypeParts
<1>12. ASSUME NEW t \in BThreads, LockSessions(t)
      PROVE  TypeOK' /\ ControlInv'
  <2>1. Browser!ServiceTypeOK' /\ VNC!ServiceTypeOK'
    BY <1>12 DEF LockSessions, Acquire, IsFree, Browser!ServiceTypeOK, VNC!ServiceTypeOK
  <2>2. /\ KernelType' /\ MapsType' /\ VncType' /\ FoundType'
       /\ QueueType' /\ RacesType'
    BY <1>12 DEF LockSessions, Acquire, IsFree, KernelType, MapsType, VncType, FoundType,
        QueueType, RacesType
  <2>3. LockType'
    BY <1>12, <1>b DEF LockSessions, Acquire, IsFree, LockType, Locks, Threads, BThreads,
        VThreads
  <2>4. PlaceType'
    BY <1>12, <1>b, SendOrderFacts DEF LockSessions, Acquire, IsFree, PlaceType, Locations,
        Threads, BThreads, VThreads, Accepted, KernelType, ControlInv
  <2>5. ControlInv'
    BY <1>12, <1>b, SendOrderFacts, ThreadFacts DEF LockSessions, Acquire, IsFree, ControlInv,
        PlaceType, KernelType, QueueType, Closers, VClosers, MainSteps, SendSteps,
        ParseSteps, Accepted, Threads, BThreads, VThreads
  <2> QED BY <2>1, <2>2, <2>3, <2>4, <2>5, TypeOfParts DEF TypeParts
<1>13. ASSUME NEW t \in BThreads, SendMessageByQueue(t)
      PROVE  TypeOK' /\ ControlInv'
  <2>1. client[t] \in Accepted /\ fdOf[client[t]] \in Fds /\ mpVNCClient \in VNCs
    BY <1>13, <1>b, ThreadFacts DEF SendMessageByQueue, Usable, ControlInv,
        ClientOutlivesUsers, Using, BThreads, KernelType, VncType, Accepted, Closers
  <2>2. Browser!ServiceTypeOK' /\ VNC!ServiceTypeOK'
    BY <1>13, <2>1, VNCTypes DEF SendMessageByQueue, SendEnds, Release, Usable,
        Browser!ServiceTypeOK, VNC!ServiceTypeOK
  <2>3. KernelType' /\ VncType'
    BY <1>13 DEF SendMessageByQueue, SendEnds, Release, Usable, KernelType, VncType
  <2>4. MapsType'
    BY <1>13, <1>b, <2>1 DEF SendMessageByQueue, SendEnds, Release, Usable, MapsType,
        NoSession, InsertRequestTask, Accepted, KernelType, FoundType, Threads, BThreads,
        Conns
  <2>5. LockType'
    BY <1>13, <1>b, <2>1 DEF SendMessageByQueue, SendEnds, Release, Usable, LockType, Locks,
        Threads, BThreads, VThreads
  <2>6. PlaceType'
    BY <1>13, <1>b, <2>1, SendOrderFacts DEF SendMessageByQueue, SendEnds, Release, Usable,
        PlaceType, Locations, Threads, BThreads, VThreads, Accepted, KernelType, ControlInv
  <2>7. FoundType'
    <3>1. /\ client' = [client EXCEPT ![t] = 0] /\ seq' = [seq EXCEPT ![t] = 0]
          /\ numbered' = [numbered EXCEPT ![t] = 0]
      BY <1>13 DEF SendMessageByQueue, SendEnds
    <3> QED BY <1>b, <3>1 DEF FoundType, Threads, BThreads
  <2>8. QueueType'
    BY <1>13, <1>b, <2>1 DEF SendMessageByQueue, SendEnds, Release, Usable, QueueType, VncType,
        KernelType, FoundType, Threads, BThreads, VThreads, Accepted, Conns
  <2>9. RacesType'
    BY <1>13, <1>b, <2>1 DEF SendMessageByQueue, SendEnds, Release, Usable, RacesType
  <2>10. ControlInv'
    BY <1>13, <1>b, <2>1, SendOrderFacts, ThreadFacts DEF SendMessageByQueue, SendEnds,
        Release, Usable, ControlInv, PlaceType, KernelType, QueueType, Closers, VClosers,
        MainSteps, SendSteps, ParseSteps, Accepted, Threads, BThreads, VThreads
  <2> QED BY <2>2, <2>3, <2>4, <2>5, <2>6, <2>7, <2>8, <2>9, <2>10, TypeOfParts DEF
  TypeParts
<1>14. ASSUME NEW t \in BThreads, LoseVNCClient(t)
      PROVE  TypeOK' /\ ControlInv'
  <2>1. Browser!ServiceTypeOK' /\ VNC!ServiceTypeOK'
    BY <1>14 DEF LoseVNCClient, Browser!ServiceTypeOK, VNC!ServiceTypeOK
  <2>2. /\ KernelType' /\ MapsType' /\ VncType' /\ LockType'
       /\ PlaceType' /\ FoundType' /\ QueueType'
    BY <1>14 DEF LoseVNCClient, KernelType, MapsType, VncType, LockType, PlaceType, FoundType,
        QueueType
  <2>3. RacesType'
    BY <1>14, <1>b DEF LoseVNCClient, RacesType
  <2>4. ControlInv'
    BY <1>14, <1>b, SendOrderFacts, ThreadFacts DEF LoseVNCClient, ControlInv, PlaceType,
        KernelType, QueueType, Closers, VClosers, MainSteps, SendSteps, ParseSteps,
        Accepted, Threads, BThreads, VThreads
  <2> QED BY <2>1, <2>2, <2>3, <2>4, TypeOfParts DEF TypeParts
<1>15. ASSUME NEW t \in BThreads, OnClose(t)
      PROVE  TypeOK' /\ ControlInv'
  <2>1. Browser!ServiceTypeOK' /\ VNC!ServiceTypeOK'
    BY <1>15 DEF OnClose, IsFree, Browser!ServiceTypeOK, VNC!ServiceTypeOK
  <2>2. /\ KernelType' /\ MapsType' /\ VncType' /\ FoundType'
       /\ QueueType' /\ RacesType'
    BY <1>15 DEF OnClose, IsFree, KernelType, MapsType, VncType, FoundType, QueueType,
        RacesType
  <2>3. LockType'
    BY <1>15, <1>b DEF OnClose, IsFree, LockType, Locks, Threads, BThreads, VThreads
  <2>4. PlaceType'
    BY <1>15, <1>b, SendOrderFacts DEF OnClose, IsFree, PlaceType, Locations, Threads,
        BThreads, VThreads, Accepted, KernelType, ControlInv
  <2>5. ControlInv'
    BY <1>15, <1>b, SendOrderFacts, ThreadFacts DEF OnClose, IsFree, ControlInv, PlaceType,
        KernelType, QueueType, Closers, VClosers, MainSteps, SendSteps, ParseSteps,
        Accepted, Threads, BThreads, VThreads
  <2> QED BY <2>1, <2>2, <2>3, <2>4, <2>5, TypeOfParts DEF TypeParts
<1>16. ASSUME NEW t \in BThreads, CloseSessionByClient(t)
      PROVE  TypeOK' /\ ControlInv'
  <2>1. Browser!ServiceTypeOK' /\ VNC!ServiceTypeOK'
    BY <1>16 DEF CloseSessionByClient, Acquire, IsFree, Browser!ServiceTypeOK,
        VNC!ServiceTypeOK
  <2>2. /\ KernelType' /\ MapsType' /\ VncType' /\ FoundType'
       /\ QueueType' /\ RacesType'
    BY <1>16 DEF CloseSessionByClient, Acquire, IsFree, KernelType, MapsType, VncType,
        FoundType, QueueType, RacesType
  <2>3. LockType'
    BY <1>16, <1>b DEF CloseSessionByClient, Acquire, IsFree, LockType, Locks, Threads,
        BThreads, VThreads
  <2>4. PlaceType'
    BY <1>16, <1>b, SendOrderFacts DEF CloseSessionByClient, Acquire, IsFree, PlaceType,
        Locations, Threads, BThreads, VThreads, Accepted, KernelType, ControlInv
  <2>5. ControlInv'
    BY <1>16, <1>b, SendOrderFacts, ThreadFacts DEF CloseSessionByClient, Acquire, IsFree,
        ControlInv, PlaceType, KernelType, QueueType, Closers, VClosers, MainSteps,
        SendSteps, ParseSteps, Accepted, Threads, BThreads, VThreads
  <2> QED BY <2>1, <2>2, <2>3, <2>4, <2>5, TypeOfParts DEF TypeParts
<1>17. ASSUME NEW t \in BThreads, EraseClient(t)
      PROVE  TypeOK' /\ ControlInv'
  <2>1. Browser!ServiceTypeOK' /\ VNC!ServiceTypeOK'
    BY <1>17 DEF EraseClient, EraseSession, Release, Browser!ServiceTypeOK, VNC!ServiceTypeOK
  <2>2. /\ KernelType' /\ VncType' /\ FoundType' /\ QueueType'
       /\ RacesType'
    BY <1>17 DEF EraseClient, EraseSession, Release, KernelType, VncType, FoundType, QueueType,
        RacesType
  <2>3. MapsType'
    <3>1. NoSession \in [client : 0 .. MaxConns, tasks : SUBSET Nat]
      BY <1>b DEF NoSession
    <3>2. PICK f \in Fds : /\ sessions' = [sessions EXCEPT ![f] = NoSession]
                          /\ mClientMap' = [mClientMap EXCEPT ![f] = 0]
      BY <1>17, <1>b DEF EraseClient, EraseSession, ControlInv
    <3> QED BY <1>b, <3>1, <3>2 DEF MapsType
  <2>4. LockType'
    BY <1>17, <1>b DEF EraseClient, EraseSession, Release, LockType, Locks, Threads, BThreads,
        VThreads
  <2>5. PlaceType'
    BY <1>17, <1>b, SendOrderFacts DEF EraseClient, EraseSession, Release, PlaceType,
        Locations, Threads, BThreads, VThreads, Accepted, KernelType, ControlInv
  <2>6. ControlInv'
    BY <1>17, <1>b, SendOrderFacts, ThreadFacts DEF EraseClient, EraseSession, Release,
        ControlInv, PlaceType, KernelType, QueueType, Closers, VClosers, MainSteps,
        SendSteps, ParseSteps, Accepted, Threads, BThreads, VThreads
  <2> QED BY <2>1, <2>2, <2>3, <2>4, <2>5, <2>6, TypeOfParts DEF TypeParts
<1>18. ASSUME NEW t \in BThreads, CloseFd(t)
      PROVE  TypeOK' /\ ControlInv'
  <2>1. Browser!Closed(work[t]) /\ work[t] \in Conns
    BY <1>18, <1>b DEF CloseFd, GotoClose, ControlInv, Conns, KernelType, Accepted, BThreads,
        VThreads
  <2>2. Browser!ServiceTypeOK' /\ VNC!ServiceTypeOK'
    BY <1>18, <2>1, BrowserTypes DEF CloseFd, GotoClose, VNC!ServiceTypeOK
  <2>3. /\ KernelType' /\ MapsType' /\ VncType' /\ LockType'
       /\ FoundType' /\ QueueType' /\ RacesType'
    BY <1>18 DEF CloseFd, GotoClose, KernelType, MapsType, VncType, LockType, FoundType,
        QueueType, RacesType
  <2>4. PlaceType'
    BY <1>18, <1>b, <2>1, SendOrderFacts DEF CloseFd, GotoClose, PlaceType, Locations, Threads,
        BThreads, VThreads, Accepted, KernelType, ControlInv
  <2>5. ControlInv'
    BY <1>18, <1>b, <2>1, SendOrderFacts, ThreadFacts DEF CloseFd, GotoClose, ControlInv,
        PlaceType, KernelType, QueueType, Closers, VClosers, MainSteps, SendSteps,
        ParseSteps, Accepted, Threads, BThreads, VThreads
  <2> QED BY <2>2, <2>3, <2>4, <2>5, TypeOfParts DEF TypeParts
<1>19. ASSUME NEW v \in VNCs, AcceptVNC(v)
      PROVE  TypeOK' /\ ControlInv'
  <2>1. VNC!Accepted(v) /\ v \in VNCs
    BY <1>19, <1>b DEF AcceptVNC, Conns, KernelType, Accepted
  <2>2. Browser!ServiceTypeOK' /\ VNC!ServiceTypeOK'
    BY <1>19, <2>1, VNCTypes DEF AcceptVNC, Browser!ServiceTypeOK
  <2>3. /\ MapsType' /\ LockType' /\ FoundType' /\ QueueType'
       /\ RacesType'
    BY <1>19 DEF AcceptVNC, MapsType, LockType, FoundType, QueueType, RacesType
  <2>4. KernelType'
    BY <1>19, <1>b, <2>1 DEF AcceptVNC, KernelType, Conns
  <2>5. VncType'
    <3>1. v \in 0 .. MaxVNC
      BY <1>19, <1>b DEF VNCs
    <3> QED BY <1>19, <3>1 DEF AcceptVNC, VncType
  <2>6. PlaceType'
    BY <1>19, <1>b, <2>1, SendOrderFacts DEF AcceptVNC, PlaceType, Locations, Threads,
        BThreads, VThreads, Accepted, KernelType, ControlInv
  <2>7. ControlInv'
    BY <1>19, <1>b, <2>1, SendOrderFacts, ThreadFacts DEF AcceptVNC, ControlInv, PlaceType,
        KernelType, QueueType, Closers, VClosers, MainSteps, SendSteps, ParseSteps,
        Accepted, Threads, BThreads, VThreads
  <2> QED BY <2>2, <2>3, <2>4, <2>5, <2>6, <2>7, TypeOfParts DEF TypeParts
<1>20. ASSUME NEW v \in VNCs, VNCPeerClose(v)
      PROVE  TypeOK' /\ ControlInv'
  <2>1. Browser!ServiceTypeOK' /\ VNC!ServiceTypeOK'
    BY <1>20 DEF VNCPeerClose, Browser!ServiceTypeOK, VNC!ServiceTypeOK
  <2>2. /\ MapsType' /\ VncType' /\ LockType' /\ PlaceType'
       /\ FoundType' /\ QueueType' /\ RacesType'
    BY <1>20 DEF VNCPeerClose, MapsType, VncType, LockType, PlaceType, FoundType, QueueType,
        RacesType
  <2>3. KernelType'
    BY <1>20, <1>b DEF VNCPeerClose, KernelType, Conns
  <2>4. ControlInv'
    BY <1>20, <1>b, SendOrderFacts, ThreadFacts DEF VNCPeerClose, ControlInv, PlaceType,
        KernelType, QueueType, Closers, VClosers, MainSteps, SendSteps, ParseSteps,
        Accepted, Threads, BThreads, VThreads
  <2> QED BY <2>1, <2>2, <2>3, <2>4, TypeOfParts DEF TypeParts
<1>21. ASSUME NEW v \in VNCs, RecvVNCPacket(v)
      PROVE  TypeOK' /\ ControlInv'
  <2>1. VNC!Received(v) /\ v \in VNCs
    BY <1>21, <1>b DEF RecvVNCPacket, Conns, KernelType, Accepted
  <2>2. Browser!ServiceTypeOK' /\ VNC!ServiceTypeOK'
    BY <1>21, <2>1, VNCTypes DEF RecvVNCPacket, Browser!ServiceTypeOK
  <2>3. /\ KernelType' /\ MapsType' /\ VncType' /\ LockType'
       /\ PlaceType' /\ FoundType' /\ QueueType' /\ RacesType'
    BY <1>21 DEF RecvVNCPacket, KernelType, MapsType, VncType, LockType, PlaceType, FoundType,
        QueueType, RacesType
  <2>4. ControlInv'
    BY <1>21, <1>b, <2>1, SendOrderFacts, ThreadFacts DEF RecvVNCPacket, ControlInv, PlaceType,
        KernelType, QueueType, Closers, VClosers, MainSteps, SendSteps, ParseSteps,
        Accepted, Threads, BThreads, VThreads
  <2> QED BY <2>2, <2>3, <2>4, TypeOfParts DEF TypeParts
<1>22. ASSUME NEW v \in VNCs, OnDisconnectVNC(v)
      PROVE  TypeOK' /\ ControlInv'
  <2>1. Browser!ServiceTypeOK' /\ VNC!ServiceTypeOK'
    BY <1>22 DEF OnDisconnectVNC, MarkOffline, Browser!ServiceTypeOK, VNC!ServiceTypeOK
  <2>2. /\ KernelType' /\ MapsType' /\ LockType' /\ FoundType'
       /\ QueueType' /\ RacesType'
    BY <1>22 DEF OnDisconnectVNC, MarkOffline, KernelType, MapsType, LockType, FoundType,
        QueueType, RacesType
  <2>3. VncType'
    BY <1>22, <1>b DEF OnDisconnectVNC, MarkOffline, VncType, FoundType, VNCs
  <2>4. PlaceType'
    BY <1>22, <1>b, SendOrderFacts DEF OnDisconnectVNC, MarkOffline, PlaceType, Locations,
        Threads, BThreads, VThreads, Accepted, KernelType, ControlInv
  <2>5. ControlInv'
    BY <1>22, <1>b, SendOrderFacts, ThreadFacts DEF OnDisconnectVNC, MarkOffline, ControlInv,
        PlaceType, KernelType, QueueType, Closers, VClosers, MainSteps, SendSteps,
        ParseSteps, Accepted, Threads, BThreads, VThreads
  <2> QED BY <2>1, <2>2, <2>3, <2>4, <2>5, TypeOfParts DEF TypeParts
<1>23. ASSUME NEW v \in VNCs, SendCommand(v)
      PROVE  TypeOK' /\ ControlInv'
  <2>1. VNC!Sent(v) /\ v \in VNCs
    BY <1>23, <1>b DEF SendCommand, GotoClose, Conns, KernelType, Accepted
  <2>2. Browser!ServiceTypeOK' /\ VNC!ServiceTypeOK'
    BY <1>23, <2>1, VNCTypes DEF SendCommand, GotoClose, Browser!ServiceTypeOK
  <2>3. /\ KernelType' /\ MapsType' /\ VncType' /\ LockType'
       /\ FoundType' /\ RacesType'
    BY <1>23 DEF SendCommand, GotoClose, KernelType, MapsType, VncType, LockType, FoundType,
        RacesType
  <2>4. PlaceType'
    BY <1>23, <1>b, <2>1, SendOrderFacts DEF SendCommand, GotoClose, PlaceType, Locations,
        Threads, BThreads, VThreads, Accepted, KernelType, ControlInv
  <2>5. QueueType'
    BY <1>23, <1>b, <2>1 DEF SendCommand, GotoClose, QueueType, VncType, KernelType, FoundType,
        Threads, BThreads, VThreads, Accepted, Conns
  <2>6. ControlInv'
    <3>1. nsent \in Nat /\ nsent' = nsent + 1
      BY <1>23, <1>b DEF SendCommand, GotoClose, QueueType
    <3> QED BY <1>23, <3>1, <1>b, ThreadFacts DEF SendCommand, GotoClose, ControlInv, PlaceType,
        VClosers, Accepted,
               Threads, BThreads, VThreads
  <2> QED BY <2>2, <2>3, <2>4, <2>5, <2>6, TypeOfParts DEF TypeParts
<1>24. CASE DisconnectedVNC
  <2>1. VNC!Disconnected(work["vmain"]) /\ work["vmain"] \in VNCs
    BY <1>24, <1>b DEF DisconnectedVNC, GotoClose, ControlInv, Conns, KernelType, Accepted,
        BThreads, VThreads
  <2>2. Browser!ServiceTypeOK' /\ VNC!ServiceTypeOK'
    BY <1>24, <2>1, VNCTypes DEF DisconnectedVNC, GotoClose, Browser!ServiceTypeOK
  <2>3. /\ KernelType' /\ MapsType' /\ VncType' /\ LockType'
       /\ FoundType' /\ QueueType' /\ RacesType'
    BY <1>24 DEF DisconnectedVNC, GotoClose, KernelType, MapsType, VncType, LockType,
        FoundType, QueueType, RacesType
  <2>4. PlaceType'
    BY <1>24, <1>b, <2>1, SendOrderFacts DEF DisconnectedVNC, GotoClose, PlaceType, Locations,
        Threads, BThreads, VThreads, Accepted, KernelType, ControlInv
  <2>5. ControlInv'
    BY <1>24, <1>b, <2>1, SendOrderFacts, ThreadFacts DEF DisconnectedVNC, GotoClose,
        ControlInv, PlaceType, KernelType, QueueType, Closers, VClosers, MainSteps,
        SendSteps, ParseSteps, Accepted, Threads, BThreads, VThreads
  <2> QED BY <2>2, <2>3, <2>4, <2>5, TypeOfParts DEF TypeParts
<1>25. ASSUME NEW h \in VNCHandlers, NEW v \in VNCs, HandleRecvVNCMessage(h, v)
      PROVE  TypeOK' /\ ControlInv'
  <2>1. Browser!ServiceTypeOK' /\ VNC!ServiceTypeOK'
    BY <1>25 DEF HandleRecvVNCMessage, Acquire, IsFree, Browser!ServiceTypeOK,
        VNC!ServiceTypeOK
  <2>2. /\ KernelType' /\ MapsType' /\ VncType' /\ FoundType'
       /\ QueueType' /\ RacesType'
    BY <1>25 DEF HandleRecvVNCMessage, Acquire, IsFree, KernelType, MapsType, VncType,
        FoundType, QueueType, RacesType
  <2>3. LockType'
    BY <1>25, <1>b DEF HandleRecvVNCMessage, Acquire, IsFree, LockType, Locks, Threads,
        BThreads, VThreads
  <2>4. PlaceType'
    BY <1>25, <1>b, SendOrderFacts DEF HandleRecvVNCMessage, Acquire, IsFree, PlaceType,
        Locations, Threads, BThreads, VThreads, Accepted, KernelType, ControlInv
  <2>5. ControlInv'
    BY <1>25, <1>b, SendOrderFacts, ThreadFacts DEF HandleRecvVNCMessage, Acquire, IsFree,
        ControlInv, PlaceType, KernelType, QueueType, Closers, VClosers, MainSteps,
        SendSteps, ParseSteps, Accepted, Threads, BThreads, VThreads
  <2> QED BY <2>1, <2>2, <2>3, <2>4, <2>5, TypeOfParts DEF TypeParts
<1>26. ASSUME NEW h \in VNCHandlers, NEW i \in 1 .. nsent, ParseProxy(h, i)
      PROVE  TypeOK' /\ ControlInv'
  <2>1. Browser!ServiceTypeOK' /\ VNC!ServiceTypeOK'
    BY <1>26 DEF ParseProxy, Browser!ServiceTypeOK, VNC!ServiceTypeOK
  <2>2. /\ KernelType' /\ MapsType' /\ VncType' /\ LockType'
       /\ FoundType' /\ RacesType'
    BY <1>26 DEF ParseProxy, KernelType, MapsType, VncType, LockType, FoundType, RacesType
  <2>3. PlaceType'
    BY <1>26, <1>b, SendOrderFacts DEF ParseProxy, PlaceType, Locations, Threads, BThreads,
        VThreads, Accepted, KernelType, ControlInv
  <2>4. QueueType'
    BY <1>26, <1>b DEF ParseProxy, QueueType, VncType, KernelType, FoundType, Threads,
        BThreads, VThreads, Accepted, Conns
  <2>5. ControlInv'
    BY <1>26, <1>b, SendOrderFacts, ThreadFacts DEF ParseProxy, ControlInv, PlaceType,
        KernelType, QueueType, Closers, VClosers, MainSteps, SendSteps, ParseSteps,
        Accepted, Threads, BThreads, VThreads
  <2> QED BY <2>1, <2>2, <2>3, <2>4, <2>5, TypeOfParts DEF TypeParts
<1>27. ASSUME NEW h \in VNCHandlers, NEW i \in 1 .. nsent, ParseProxyDisconnect(h, i)
      PROVE  TypeOK' /\ ControlInv'
  <2>1. Browser!ServiceTypeOK' /\ VNC!ServiceTypeOK'
    BY <1>27 DEF ParseProxyDisconnect, Disconnect, Browser!ServiceTypeOK, VNC!ServiceTypeOK
  <2>2. /\ MapsType' /\ VncType' /\ LockType' /\ PlaceType'
       /\ FoundType' /\ QueueType' /\ RacesType'
    BY <1>27 DEF ParseProxyDisconnect, Disconnect, MapsType, VncType, LockType, PlaceType,
        FoundType, QueueType, RacesType
  <2>3. KernelType'
    <3>1. \A f : Open(f) \subseteq Conns
      BY <1>b DEF Open, KernelType, Accepted
    <3> QED BY <1>27, <3>1 DEF ParseProxyDisconnect, Disconnect, KernelType
  <2>4. ControlInv'
    BY <1>27, <1>b, SendOrderFacts, ThreadFacts DEF ParseProxyDisconnect, Disconnect,
        ControlInv, PlaceType, KernelType, QueueType, Closers, VClosers, MainSteps,
        SendSteps, ParseSteps, Accepted, Threads, BThreads, VThreads
  <2> QED BY <2>1, <2>2, <2>3, <2>4, TypeOfParts DEF TypeParts
<1>28. ASSUME NEW h \in VNCHandlers, ParseEnds(h)
      PROVE  TypeOK' /\ ControlInv'
  <2>1. Browser!ServiceTypeOK' /\ VNC!ServiceTypeOK'
    BY <1>28 DEF ParseEnds, Release, Browser!ServiceTypeOK, VNC!ServiceTypeOK
  <2>2. /\ MapsType' /\ VncType' /\ FoundType' /\ QueueType'
       /\ RacesType'
    BY <1>28 DEF ParseEnds, Release, MapsType, VncType, FoundType, QueueType, RacesType
  <2>3. KernelType'
    <3>1. work[h] \in VNCs
      BY <1>28 DEF ParseEnds, Release, ControlInv, VThreads
    <3> QED BY <1>28, <3>1 DEF ParseEnds, Release, KernelType
  <2>4. LockType'
    BY <1>28, <1>b DEF ParseEnds, Release, LockType, Locks, Threads, BThreads, VThreads
  <2>5. PlaceType'
    BY <1>28, <1>b, SendOrderFacts DEF ParseEnds, Release, PlaceType, Locations, Threads,
        BThreads, VThreads, Accepted, KernelType, ControlInv
  <2>6. ControlInv'
    BY <1>28, <1>b, SendOrderFacts, ThreadFacts DEF ParseEnds, Release, ControlInv, PlaceType,
        KernelType, QueueType, Closers, VClosers, MainSteps, SendSteps, ParseSteps,
        Accepted, Threads, BThreads, VThreads
  <2> QED BY <2>1, <2>2, <2>3, <2>4, <2>5, <2>6, TypeOfParts DEF TypeParts
<1>29. ASSUME NEW h \in VNCHandlers, HandleVNCDone(h)
      PROVE  TypeOK' /\ ControlInv'
  <2>1. VNC!Handled(work[h]) /\ work[h] \in VNCs
    BY <1>29, <1>b DEF HandleVNCDone, GotoClose, ControlInv, Conns, KernelType, Accepted,
        BThreads, VThreads
  <2>2. Browser!ServiceTypeOK' /\ VNC!ServiceTypeOK'
    BY <1>29, <2>1, VNCTypes DEF HandleVNCDone, GotoClose, Browser!ServiceTypeOK
  <2>3. /\ KernelType' /\ MapsType' /\ VncType' /\ LockType'
       /\ FoundType' /\ QueueType' /\ RacesType'
    BY <1>29 DEF HandleVNCDone, GotoClose, KernelType, MapsType, VncType, LockType, FoundType,
        QueueType, RacesType
  <2>4. PlaceType'
    BY <1>29, <1>b, <2>1, SendOrderFacts DEF HandleVNCDone, GotoClose, PlaceType, Locations,
        Threads, BThreads, VThreads, Accepted, KernelType, ControlInv
  <2>5. ControlInv'
    BY <1>29, <1>b, <2>1, SendOrderFacts, ThreadFacts DEF HandleVNCDone, GotoClose, ControlInv,
        PlaceType, KernelType, QueueType, Closers, VClosers, MainSteps, SendSteps,
        ParseSteps, Accepted, Threads, BThreads, VThreads
  <2> QED BY <2>2, <2>3, <2>4, <2>5, TypeOfParts DEF TypeParts
<1>30. ASSUME NEW t \in VThreads, LockReturn(t)
      PROVE  TypeOK' /\ ControlInv'
  <2>1. Browser!ServiceTypeOK' /\ VNC!ServiceTypeOK'
    BY <1>30 DEF LockReturn, Acquire, IsFree, Browser!ServiceTypeOK, VNC!ServiceTypeOK
  <2>2. /\ KernelType' /\ MapsType' /\ VncType' /\ FoundType'
       /\ QueueType' /\ RacesType'
    BY <1>30 DEF LockReturn, Acquire, IsFree, KernelType, MapsType, VncType, FoundType,
        QueueType, RacesType
  <2>3. LockType'
    BY <1>30, <1>b DEF LockReturn, Acquire, IsFree, LockType, Locks, Threads, BThreads,
        VThreads
  <2>4. PlaceType'
    BY <1>30, <1>b, SendOrderFacts DEF LockReturn, Acquire, IsFree, PlaceType, Locations,
        Threads, BThreads, VThreads, Accepted, KernelType, ControlInv
  <2>5. ControlInv'
    BY <1>30, <1>b, SendOrderFacts, ThreadFacts DEF LockReturn, Acquire, IsFree, ControlInv,
        PlaceType, KernelType, QueueType, Closers, VClosers, MainSteps, SendSteps,
        ParseSteps, Accepted, Threads, BThreads, VThreads
  <2> QED BY <2>1, <2>2, <2>3, <2>4, <2>5, TypeOfParts DEF TypeParts
<1>31. ASSUME NEW t \in VThreads, ReturnVNC2Client(t)
      PROVE  TypeOK' /\ ControlInv'
  <2>1. t \in VNCHandlers
    BY <1>31 DEF ReturnVNC2Client, ControlInv, VClosers, VThreads
  <2>2. cmd[t] \in DOMAIN commands
    BY <1>31, <2>1 DEF ReturnVNC2Client, ControlInv, QueueType
  <2>3. commands[cmd[t]] \in [vnc : VNCs, client : Conns, fd : Fds, seq : Nat, packet : BOOLEAN]
    BY <2>2, ElementType DEF QueueType
  <2>4. commands[cmd[t]].fd \in Fds
    BY <2>3
  <2>5. sessions[commands[cmd[t]].fd].client \in 0 .. MaxConns
    BY <2>4 DEF MapsType
  <2>6. Browser!ServiceTypeOK' /\ VNC!ServiceTypeOK'
    BY <1>31, <2>5, BrowserTypes DEF ReturnVNC2Client, Release, FindRequestTask,
        Browser!ServiceTypeOK, VNC!ServiceTypeOK, Conns
  <2>7. KernelType' /\ MapsType' /\ VncType' /\ FoundType'
    BY <1>31 DEF ReturnVNC2Client, Release, KernelType, MapsType, VncType, FoundType
  <2>8. LockType'
    BY <1>31, <1>b DEF ReturnVNC2Client, Release, LockType, Locks, Threads, BThreads, VThreads
  <2>9. PlaceType'
    BY <1>31, <1>b, SendOrderFacts DEF ReturnVNC2Client, Release, PlaceType, Locations,
        Threads, BThreads, VThreads, Accepted, KernelType, ControlInv
  <2>10. QueueType'
    BY <1>31, <1>b DEF ReturnVNC2Client, Release, QueueType, VncType, KernelType, FoundType,
        Threads, BThreads, VThreads, Accepted, Conns
  <2>11. RacesType'
    BY <1>31, <1>b DEF ReturnVNC2Client, Release, RacesType
  <2>12. ControlInv'
    BY <1>31, <1>b, SendOrderFacts, ThreadFacts DEF ReturnVNC2Client, Release, ControlInv,
        PlaceType, KernelType, QueueType, Closers, VClosers, MainSteps, SendSteps,
        ParseSteps, Accepted, Threads, BThreads, VThreads
  <2> QED BY <2>6, <2>7, <2>8, <2>9, <2>10, <2>11, <2>12, TypeOfParts DEF TypeParts
<1>32. ASSUME NEW t \in VThreads, CloseSessionByVNC(t)
      PROVE  TypeOK' /\ ControlInv'
  <2>1. Browser!ServiceTypeOK' /\ VNC!ServiceTypeOK'
    BY <1>32 DEF CloseSessionByVNC, IsFree, ShutAllClients, Browser!ServiceTypeOK,
        VNC!ServiceTypeOK
  <2>2. /\ MapsType' /\ VncType' /\ LockType' /\ FoundType'
       /\ QueueType' /\ RacesType'
    BY <1>32 DEF CloseSessionByVNC, IsFree, ShutAllClients, MapsType, VncType, LockType,
        FoundType, QueueType, RacesType
  <2>3. KernelType'
    <3>1. Range(mClientMap) \ {0} \subseteq Conns
      BY <1>b DEF MapsType, Range, Conns
    <3> QED BY <1>32, <3>1 DEF CloseSessionByVNC, IsFree, ShutAllClients, KernelType
  <2>4. PlaceType'
    BY <1>32, <1>b, SendOrderFacts DEF CloseSessionByVNC, IsFree, ShutAllClients, PlaceType,
        Locations, Threads, BThreads, VThreads, Accepted, KernelType, ControlInv
  <2>5. ControlInv'
    BY <1>32, <1>b, SendOrderFacts, ThreadFacts DEF CloseSessionByVNC, IsFree, ShutAllClients,
        ControlInv, PlaceType, KernelType, QueueType, Closers, VClosers, MainSteps,
        SendSteps, ParseSteps, Accepted, Threads, BThreads, VThreads
  <2> QED BY <2>1, <2>2, <2>3, <2>4, <2>5, TypeOfParts DEF TypeParts
<1>33. ASSUME NEW t \in VThreads, CloseRefused(t)
      PROVE  TypeOK' /\ ControlInv'
  <2>1. Browser!ServiceTypeOK' /\ VNC!ServiceTypeOK'
    BY <1>33 DEF CloseRefused, Browser!ServiceTypeOK, VNC!ServiceTypeOK
  <2>2. /\ KernelType' /\ MapsType' /\ VncType' /\ LockType'
       /\ FoundType' /\ QueueType' /\ RacesType'
    BY <1>33 DEF CloseRefused, KernelType, MapsType, VncType, LockType, FoundType, QueueType,
        RacesType
  <2>3. PlaceType'
    BY <1>33, <1>b, SendOrderFacts DEF CloseRefused, PlaceType, Locations, Threads, BThreads,
        VThreads, Accepted, KernelType, ControlInv
  <2>4. ControlInv'
    BY <1>33, <1>b, SendOrderFacts, ThreadFacts DEF CloseRefused, ControlInv, PlaceType,
        KernelType, QueueType, Closers, VClosers, MainSteps, SendSteps, ParseSteps,
        Accepted, Threads, BThreads, VThreads
  <2> QED BY <2>1, <2>2, <2>3, <2>4, TypeOfParts DEF TypeParts
<1>34. ASSUME NEW t \in VThreads, DeleteVNCClient(t)
      PROVE  TypeOK' /\ ControlInv'
  <2>1. Browser!ServiceTypeOK' /\ VNC!ServiceTypeOK'
    BY <1>34 DEF DeleteVNCClient, Browser!ServiceTypeOK, VNC!ServiceTypeOK
  <2>2. /\ KernelType' /\ MapsType' /\ LockType' /\ FoundType'
       /\ QueueType' /\ RacesType'
    BY <1>34 DEF DeleteVNCClient, KernelType, MapsType, LockType, FoundType, QueueType,
        RacesType
  <2>3. VncType'
    BY <1>34, <1>b DEF DeleteVNCClient, VncType, FoundType, VNCs
  <2>4. PlaceType'
    BY <1>34, <1>b, SendOrderFacts DEF DeleteVNCClient, PlaceType, Locations, Threads,
        BThreads, VThreads, Accepted, KernelType, ControlInv
  <2>5. ControlInv'
    BY <1>34, <1>b, SendOrderFacts, ThreadFacts DEF DeleteVNCClient, ControlInv, PlaceType,
        KernelType, QueueType, Closers, VClosers, MainSteps, SendSteps, ParseSteps,
        Accepted, Threads, BThreads, VThreads
  <2> QED BY <2>1, <2>2, <2>3, <2>4, <2>5, TypeOfParts DEF TypeParts
<1>35. ASSUME NEW t \in VThreads, ClearVNCClient(t)
      PROVE  TypeOK' /\ ControlInv'
  <2>1. Browser!ServiceTypeOK' /\ VNC!ServiceTypeOK'
    BY <1>35 DEF ClearVNCClient, ClearPointer, Browser!ServiceTypeOK, VNC!ServiceTypeOK
  <2>2. /\ KernelType' /\ MapsType' /\ LockType' /\ FoundType'
       /\ QueueType' /\ RacesType'
    BY <1>35 DEF ClearVNCClient, ClearPointer, KernelType, MapsType, LockType, FoundType,
        QueueType, RacesType
  <2>3. VncType'
    BY <1>35, <1>b DEF ClearVNCClient, ClearPointer, VncType, FoundType, VNCs
  <2>4. PlaceType'
    BY <1>35, <1>b, SendOrderFacts DEF ClearVNCClient, ClearPointer, PlaceType, Locations,
        Threads, BThreads, VThreads, Accepted, KernelType, ControlInv
  <2>5. ControlInv'
    BY <1>35, <1>b, SendOrderFacts, ThreadFacts DEF ClearVNCClient, ClearPointer, ControlInv,
        PlaceType, KernelType, QueueType, Closers, VClosers, MainSteps, SendSteps,
        ParseSteps, Accepted, Threads, BThreads, VThreads
  <2> QED BY <2>1, <2>2, <2>3, <2>4, <2>5, TypeOfParts DEF TypeParts
<1>36. ASSUME NEW t \in VThreads, CloseVNCFd(t)
      PROVE  TypeOK' /\ ControlInv'
  <2>1. VNC!Closed(work[t]) /\ work[t] \in VNCs
    BY <1>36, <1>b DEF CloseVNCFd, GotoClose, ControlInv, Conns, KernelType, Accepted,
        BThreads, VThreads
  <2>2. Browser!ServiceTypeOK' /\ VNC!ServiceTypeOK'
    BY <1>36, <2>1, VNCTypes DEF CloseVNCFd, GotoClose, Browser!ServiceTypeOK
  <2>3. /\ KernelType' /\ MapsType' /\ VncType' /\ LockType'
       /\ FoundType' /\ QueueType' /\ RacesType'
    BY <1>36 DEF CloseVNCFd, GotoClose, KernelType, MapsType, VncType, LockType, FoundType,
        QueueType, RacesType
  <2>4. PlaceType'
    BY <1>36, <1>b, <2>1, SendOrderFacts DEF CloseVNCFd, GotoClose, PlaceType, Locations,
        Threads, BThreads, VThreads, Accepted, KernelType, ControlInv
  <2>5. ControlInv'
    BY <1>36, <1>b, <2>1, SendOrderFacts, ThreadFacts DEF CloseVNCFd, GotoClose, ControlInv,
        PlaceType, KernelType, QueueType, Closers, VClosers, MainSteps, SendSteps,
        ParseSteps, Accepted, Threads, BThreads, VThreads
  <2> QED BY <2>2, <2>3, <2>4, <2>5, TypeOfParts DEF TypeParts
<1>37. CASE UNCHANGED vars
  <2>1. TypeOK'
    BY <1>37, TypeOfParts DEF vars, TypeOK, InductiveInv, Browser!ServiceTypeOK, VNC!ServiceTypeOK
  <2>2. ControlInv'
    BY <1>37 DEF vars, ControlInv, Accepted
  <2> QED BY <2>1, <2>2
<1> QED BY <1>1, <1>2, <1>3, <1>4, <1>5, <1>6, <1>7, <1>8, <1>9, <1>10, <1>11, <1>12, <1>13,
    <1>14, <1>15, <1>16, <1>17, <1>18, <1>19, <1>20, <1>21, <1>22, <1>23, <1>24, <1>25, <1>26,
        <1>27, <1>28, <1>29, <1>30, <1>31, <1>32, <1>33, <1>34, <1>35, <1>36, <1>37 DEF Next,
            BrowserNext, VNCNext, BrowserSteps, VNCSteps, Terminating

(***************************************************************************)
(* Locks are held where LockInv says.                                      *)
(***************************************************************************)
LEMMA LockInit == Init => LockInv
<1> SUFFICES ASSUME Init PROVE LockInv
  OBVIOUS
<1> QED BY ThreadFacts DEF Init, LockInv, HoldsClients, HoldsMutex, HoldsSessions, Using, Locks,
            Threads

LEMMA LockStep == InductiveInv /\ [Next]_vars => LockInv'
<1> SUFFICES ASSUME InductiveInv, [Next]_vars PROVE LockInv'
  OBVIOUS
<1>b. LockType /\ PlaceType /\ ControlInv /\ LockInv
  BY TypeOfParts DEF TypeParts, InductiveInv
<1> USE ThreadFacts DEF browsers, peer, kernel, maps, vnc, found, locals, queue, At, Goto, Take,
    LockType, PlaceType, ControlInv, Locks, Threads, BThreads, VThreads,
        Closers, VClosers, SendSteps, ParseSteps, MainSteps
<1>1. ASSUME NEW f \in Fds, Accept(f)
      PROVE  LockInv'
  BY <1>1, <1>b DEF Accept, IsFree, LockInv, HoldsClients, HoldsMutex, HoldsSessions, Using
<1>2. ASSUME NEW c \in Accepted, PeerClose(c)
      PROVE  LockInv'
  BY <1>2, <1>b DEF PeerClose, LockInv, HoldsClients, HoldsMutex, HoldsSessions, Using
<1>3. ASSUME NEW c \in Accepted, RecvPacket(c)
      PROVE  LockInv'
  BY <1>3, <1>b DEF RecvPacket, LockInv, HoldsClients, HoldsMutex, HoldsSessions, Using
<1>4. ASSUME NEW c \in Accepted, OnDisconnect(c)
      PROVE  LockInv'
  BY <1>4, <1>b DEF OnDisconnect, Acquire, IsFree, LockInv, HoldsClients, HoldsMutex,
      HoldsSessions, Using
<1>5. ASSUME NEW c \in Accepted, SendReply(c)
      PROVE  LockInv'
  BY <1>5, <1>b DEF SendReply, GotoClose, LockInv, HoldsClients, HoldsMutex, HoldsSessions,
      Using
<1>6. CASE Disconnected
  BY <1>6, <1>b DEF Disconnected, GotoClose, LockInv, HoldsClients, HoldsMutex,
      HoldsSessions, Using
<1>7. ASSUME NEW h \in Handlers, HandleDone(h)
      PROVE  LockInv'
  BY <1>7, <1>b DEF HandleDone, GotoClose, LockInv, HoldsClients, HoldsMutex, HoldsSessions,
      Using
<1>8. ASSUME NEW h \in Handlers, NEW c \in Accepted, HandleRecvMessage(h, c)
      PROVE  LockInv'
  BY <1>8, <1>b DEF HandleRecvMessage, IsFree, LockInv, HoldsClients, HoldsMutex,
      HoldsSessions, Using
<1>9. ASSUME NEW t \in BThreads, CheckOnline(t)
      PROVE  LockInv'
  BY <1>9, <1>b, SendOrderFacts DEF CheckOnline, LockInv, HoldsClients, HoldsMutex,
      HoldsSessions, Using
<1>10. ASSUME NEW t \in BThreads, SendFails(t)
      PROVE  LockInv'
  BY <1>10, <1>b DEF SendFails, SendEnds, Release, LockInv, HoldsClients, HoldsMutex,
      HoldsSessions, Using
<1>11. ASSUME NEW t \in BThreads, AddSeq(t)
      PROVE  LockInv'
  BY <1>11, <1>b, SendOrderFacts DEF AddSeq, IsFree, Usable, LockInv, HoldsClients,
      HoldsMutex, HoldsSessions, Using
<1>12. ASSUME NEW t \in BThreads, LockSessions(t)
      PROVE  LockInv'
  BY <1>12, <1>b, SendOrderFacts DEF LockSessions, Acquire, IsFree, LockInv, HoldsClients,
      HoldsMutex, HoldsSessions, Using
<1>13. ASSUME NEW t \in BThreads, SendMessageByQueue(t)
      PROVE  LockInv'
  BY <1>13, <1>b DEF SendMessageByQueue, SendEnds, Release, Usable, LockInv, HoldsClients,
      HoldsMutex, HoldsSessions, Using
<1>14. ASSUME NEW t \in BThreads, LoseVNCClient(t)
      PROVE  LockInv'
  BY <1>14, <1>b DEF LoseVNCClient, LockInv, HoldsClients, HoldsMutex, HoldsSessions, Using
<1>15. ASSUME NEW t \in BThreads, OnClose(t)
      PROVE  LockInv'
  BY <1>15, <1>b DEF OnClose, IsFree, LockInv, HoldsClients, HoldsMutex, HoldsSessions,
      Using
<1>16. ASSUME NEW t \in BThreads, CloseSessionByClient(t)
      PROVE  LockInv'
  BY <1>16, <1>b DEF CloseSessionByClient, Acquire, IsFree, LockInv, HoldsClients,
      HoldsMutex, HoldsSessions, Using
<1>17. ASSUME NEW t \in BThreads, EraseClient(t)
      PROVE  LockInv'
  BY <1>17, <1>b DEF EraseClient, EraseSession, Release, LockInv, HoldsClients, HoldsMutex,
      HoldsSessions, Using
<1>18. ASSUME NEW t \in BThreads, CloseFd(t)
      PROVE  LockInv'
  BY <1>18, <1>b DEF CloseFd, GotoClose, LockInv, HoldsClients, HoldsMutex, HoldsSessions,
      Using
<1>19. ASSUME NEW v \in VNCs, AcceptVNC(v)
      PROVE  LockInv'
  BY <1>19, <1>b DEF AcceptVNC, LockInv, HoldsClients, HoldsMutex, HoldsSessions, Using
<1>20. ASSUME NEW v \in VNCs, VNCPeerClose(v)
      PROVE  LockInv'
  BY <1>20, <1>b DEF VNCPeerClose, LockInv, HoldsClients, HoldsMutex, HoldsSessions, Using
<1>21. ASSUME NEW v \in VNCs, RecvVNCPacket(v)
      PROVE  LockInv'
  BY <1>21, <1>b DEF RecvVNCPacket, LockInv, HoldsClients, HoldsMutex, HoldsSessions, Using
<1>22. ASSUME NEW v \in VNCs, OnDisconnectVNC(v)
      PROVE  LockInv'
  BY <1>22, <1>b DEF OnDisconnectVNC, MarkOffline, LockInv, HoldsClients, HoldsMutex,
      HoldsSessions, Using
<1>23. ASSUME NEW v \in VNCs, SendCommand(v)
      PROVE  LockInv'
  BY <1>23, <1>b DEF SendCommand, GotoClose, LockInv, HoldsClients, HoldsMutex,
      HoldsSessions, Using
<1>24. CASE DisconnectedVNC
  BY <1>24, <1>b DEF DisconnectedVNC, GotoClose, LockInv, HoldsClients, HoldsMutex,
      HoldsSessions, Using
<1>25. ASSUME NEW h \in VNCHandlers, NEW v \in VNCs, HandleRecvVNCMessage(h, v)
      PROVE  LockInv'
  BY <1>25, <1>b DEF HandleRecvVNCMessage, Acquire, IsFree, LockInv, HoldsClients,
      HoldsMutex, HoldsSessions, Using
<1>26. ASSUME NEW h \in VNCHandlers, NEW i \in 1 .. nsent, ParseProxy(h, i)
      PROVE  LockInv'
  BY <1>26, <1>b DEF ParseProxy, LockInv, HoldsClients, HoldsMutex, HoldsSessions, Using
<1>27. ASSUME NEW h \in VNCHandlers, NEW i \in 1 .. nsent, ParseProxyDisconnect(h, i)
      PROVE  LockInv'
  BY <1>27, <1>b DEF ParseProxyDisconnect, Disconnect, LockInv, HoldsClients, HoldsMutex,
      HoldsSessions, Using
<1>28. ASSUME NEW h \in VNCHandlers, ParseEnds(h)
      PROVE  LockInv'
  <2>1. /\ lock' = [l \in Locks |-> IF l \in {"mKMutex"} THEN Nobody ELSE lock[l]]
        /\ pc' = [pc EXCEPT ![h] = "done"] /\ pc[h] = "parse"
    BY <1>28 DEF ParseEnds, Release
  <2>2. lock["mKMutex"] = h
    BY <1>b, <2>1 DEF LockInv, HoldsMutex
  <2> QED BY <1>b, <2>1, <2>2 DEF LockInv, HoldsClients, HoldsMutex, HoldsSessions, Using
<1>29. ASSUME NEW h \in VNCHandlers, HandleVNCDone(h)
      PROVE  LockInv'
  BY <1>29, <1>b DEF HandleVNCDone, GotoClose, LockInv, HoldsClients, HoldsMutex,
      HoldsSessions, Using
<1>30. ASSUME NEW t \in VThreads, LockReturn(t)
      PROVE  LockInv'
  BY <1>30, <1>b DEF LockReturn, Acquire, IsFree, LockInv, HoldsClients, HoldsMutex,
      HoldsSessions, Using
<1>31. ASSUME NEW t \in VThreads, ReturnVNC2Client(t)
      PROVE  LockInv'
  BY <1>31, <1>b DEF ReturnVNC2Client, Release, LockInv, HoldsClients, HoldsMutex,
      HoldsSessions, Using
<1>32. ASSUME NEW t \in VThreads, CloseSessionByVNC(t)
      PROVE  LockInv'
  BY <1>32, <1>b DEF CloseSessionByVNC, IsFree, ShutAllClients, LockInv, HoldsClients,
      HoldsMutex, HoldsSessions, Using
<1>33. ASSUME NEW t \in VThreads, CloseRefused(t)
      PROVE  LockInv'
  BY <1>33, <1>b DEF CloseRefused, LockInv, HoldsClients, HoldsMutex, HoldsSessions, Using
<1>34. ASSUME NEW t \in VThreads, DeleteVNCClient(t)
      PROVE  LockInv'
  BY <1>34, <1>b DEF DeleteVNCClient, LockInv, HoldsClients, HoldsMutex, HoldsSessions,
      Using
<1>35. ASSUME NEW t \in VThreads, ClearVNCClient(t)
      PROVE  LockInv'
  BY <1>35, <1>b DEF ClearVNCClient, ClearPointer, LockInv, HoldsClients, HoldsMutex,
      HoldsSessions, Using
<1>36. ASSUME NEW t \in VThreads, CloseVNCFd(t)
      PROVE  LockInv'
  BY <1>36, <1>b DEF CloseVNCFd, GotoClose, LockInv, HoldsClients, HoldsMutex,
      HoldsSessions, Using
<1>37. CASE UNCHANGED vars
  BY <1>37, <1>b DEF vars, LockInv, HoldsClients, HoldsMutex, HoldsSessions, Using
<1> QED BY <1>1, <1>2, <1>3, <1>4, <1>5, <1>6, <1>7, <1>8, <1>9, <1>10, <1>11, <1>12, <1>13,
    <1>14, <1>15, <1>16, <1>17, <1>18, <1>19, <1>20, <1>21, <1>22, <1>23, <1>24, <1>25, <1>26,
        <1>27, <1>28, <1>29, <1>30, <1>31, <1>32, <1>33, <1>34, <1>35, <1>36, <1>37 DEF Next,
            BrowserNext, VNCNext, BrowserSteps, VNCSteps, Terminating

(***************************************************************************)
(* No deadlock between the threads of the two servers, for any number of   *)
(* handlers: whoever holds a lock and waits for another waits for one that *)
(* comes later in the order mClientMap, mKMutex, mClient2SessionMap, so of *)
(* some threads that hold locks the one with the last lock waits for none  *)
(* of them.                                                                *)
(***************************************************************************)
LEMMA LockOrder == TypeOK /\ LockInv => NoCircularWait
<1> SUFFICES ASSUME TypeOK, LockInv, NEW ts \in SUBSET (Range(lock) \ {Nobody}), ts # {}
             PROVE  \E t \in ts : \A u \in ts : ~ WaitsFor(t, u)
  BY DEF NoCircularWait
<1>1. LockType
  BY TypeOfParts DEF TypeParts
<1>2. \A t \in ts : t \in Threads /\ (HoldsClients(t) \/ HoldsMutex(t) \/ HoldsSessions(t))
  BY <1>1, ThreadFacts DEF LockType, LockInv, Range, Locks
<1>3. \A t, u \in ts : WaitsFor(t, u) <=> \/ "mKMutex" \in Wants(t) /\ HoldsMutex(u)
                                          \/ "mClient2SessionMap" \in Wants(t) /\ HoldsSessions(u)
                                          \/ "mClientMap" \in Wants(t) /\ HoldsClients(u)
  BY <1>2 DEF WaitsFor, LockInv, Wants
<1> USE DEF Wants, HoldsClients, HoldsMutex, HoldsSessions, Using
<1>4. CASE \E t \in ts : HoldsSessions(t)
  BY <1>3, <1>4
<1>5. CASE /\ \A t \in ts : ~ HoldsSessions(t)
           /\ \E t \in ts : HoldsMutex(t)
  BY <1>3, <1>5
<1>6. CASE \A t \in ts : ~ HoldsSessions(t) /\ ~ HoldsMutex(t)
  BY <1>2, <1>3, <1>6
<1> QED BY <1>4, <1>5, <1>6

-----------------------------------------------------------------------------

Types == TypeOK /\ ControlInv

LEMMA TypesUsed ==
    Types => TypeParts /\ ControlInv /\ Accepted \subseteq Conns /\ Len(fdOf) \in Nat
             /\ VNCs \subseteq Nat /\ Conns \subseteq Nat /\ \A c \in Accepted : fdOf[c] \in Fds
<1> SUFFICES ASSUME Types
             PROVE  TypeParts /\ ControlInv /\ Accepted \subseteq Conns /\ Len(fdOf) \in Nat
                    /\ VNCs \subseteq Nat /\ Conns \subseteq Nat
                    /\ \A c \in Accepted : fdOf[c] \in Fds
  OBVIOUS
<1>1. TypeParts /\ ControlInv /\ KernelType
  BY TypeOfParts DEF Types, TypeParts
<1>2. MaxConns \in Nat /\ MaxVNC \in Nat
  BY ProxyAssumption
<1> QED BY <1>1, <1>2 DEF KernelType, Accepted, Conns, VNCs

(***************************************************************************)
(* What the threads of one server leave alone of the other.                *)
(***************************************************************************)
LEMMA VNCLeaves ==
    ASSUME Types, VNCNext
    PROVE  /\ UNCHANGED <<phase, packets, fdOf, maps, sendSeq, commands, found>>
           /\ shut \subseteq shut'
           /\ \A t \in BThreads : pc'[t] = pc[t] /\ work'[t] = work[t]
<1>a. PlaceType
  BY TypesUsed DEF TypeParts
<1> USE <1>a, ThreadFacts DEF PlaceType, Threads, BThreads, VThreads, browsers, peer, kernel,
    maps, vnc, found, locals, queue, At, Goto, Take
<1> DEFINE Kept == /\ UNCHANGED <<phase, packets, fdOf, maps, sendSeq, commands, found>>
                   /\ shut \subseteq shut'
                   /\ \A t \in BThreads : pc'[t] = pc[t] /\ work'[t] = work[t]
<1>1. ASSUME NEW v \in VNCs, AcceptVNC(v)
      PROVE  Kept
  BY <1>1 DEF AcceptVNC
<1>2. ASSUME NEW v \in VNCs, VNCPeerClose(v)
      PROVE  Kept
  BY <1>2 DEF VNCPeerClose
<1>3. ASSUME NEW v \in VNCs, RecvVNCPacket(v)
      PROVE  Kept
  BY <1>3 DEF RecvVNCPacket
<1>4. ASSUME NEW v \in VNCs, OnDisconnectVNC(v)
      PROVE  Kept
  BY <1>4 DEF OnDisconnectVNC, MarkOffline
<1>5. ASSUME NEW v \in VNCs, SendCommand(v)
      PROVE  Kept
  BY <1>5 DEF SendCommand, GotoClose
<1>6. CASE DisconnectedVNC
  BY <1>6 DEF DisconnectedVNC, GotoClose
<1>7. ASSUME NEW h \in VNCHandlers, NEW v \in VNCs, HandleRecvVNCMessage(h, v)
      PROVE  Kept
  BY <1>7 DEF HandleRecvVNCMessage, Acquire, IsFree
<1>8. ASSUME NEW h \in VNCHandlers, NEW i \in 1 .. nsent, ParseProxy(h, i)
      PROVE  Kept
  BY <1>8 DEF ParseProxy
<1>9. ASSUME NEW h \in VNCHandlers, NEW i \in 1 .. nsent, ParseProxyDisconnect(h, i)
      PROVE  Kept
  BY <1>9 DEF ParseProxyDisconnect, Disconnect
<1>10. ASSUME NEW h \in VNCHandlers, ParseEnds(h)
      PROVE  Kept
  BY <1>10 DEF ParseEnds, Release
<1>11. ASSUME NEW h \in VNCHandlers, HandleVNCDone(h)
      PROVE  Kept
  BY <1>11 DEF HandleVNCDone, GotoClose
<1>12. ASSUME NEW t \in VThreads, LockReturn(t)
      PROVE  Kept
  BY <1>12 DEF LockReturn, Acquire, IsFree
<1>13. ASSUME NEW t \in VThreads, ReturnVNC2Client(t)
      PROVE  Kept
  BY <1>13 DEF ReturnVNC2Client, Release, Browser!Queued
<1>14. ASSUME NEW t \in VThreads, CloseSessionByVNC(t)
      PROVE  Kept
  BY <1>14 DEF CloseSessionByVNC, IsFree, ShutAllClients
<1>15. ASSUME NEW t \in VThreads, CloseRefused(t)
      PROVE  Kept
  BY <1>15 DEF CloseRefused
<1>16. ASSUME NEW t \in VThreads, DeleteVNCClient(t)
      PROVE  Kept
  BY <1>16 DEF DeleteVNCClient
<1>17. ASSUME NEW t \in VThreads, ClearVNCClient(t)
      PROVE  Kept
  BY <1>17 DEF ClearVNCClient, ClearPointer
<1>18. ASSUME NEW t \in VThreads, CloseVNCFd(t)
      PROVE  Kept
  BY <1>18 DEF CloseVNCFd, GotoClose
<1> QED BY <1>1, <1>2, <1>3, <1>4, <1>5, <1>6, <1>7, <1>8, <1>9, <1>10, <1>11, <1>12, <1>13,
    <1>14, <1>15, <1>16, <1>17, <1>18 DEF VNCNext, VNCSteps

LEMMA BrowsersLeave ==
    ASSUME Types, BrowserNext
    PROVE  /\ UNCHANGED <<vnc, vphase, vpackets, cmd, nsent>>
           /\ shut \subseteq shut'
           /\ \A t \in VThreads : pc'[t] = pc[t] /\ work'[t] = work[t]
           /\ vreplies' \in [VNCs -> Nat]
           /\ \A v \in VNCs :
                 \/ vreplies'[v] = vreplies[v]
                 \/ v = mpVNCClient /\ vphase[v] \in {"open", "leaving"}
<1>a. PlaceType /\ VncType /\ VNC!ServiceTypeOK
  BY TypesUsed DEF TypeParts
<1> USE <1>a, ThreadFacts DEF PlaceType, Threads, BThreads, VThreads, VNC!ServiceTypeOK, VNCs,
    VNC!Conns,
        browsers, peer, kernel, maps, vnc, found, locals, queue, At, Goto, Take
<1> DEFINE Kept == /\ UNCHANGED <<vnc, vphase, vpackets, cmd, nsent>>
                   /\ shut \subseteq shut'
                   /\ \A t \in VThreads : pc'[t] = pc[t] /\ work'[t] = work[t]
                   /\ vreplies' \in [VNCs -> Nat]
                   /\ \A v \in VNCs :
                         \/ vreplies'[v] = vreplies[v]
                         \/ v = mpVNCClient /\ vphase[v] \in {"open", "leaving"}
<1> SUFFICES Kept
  OBVIOUS
<1>1. ASSUME NEW f \in Fds, Accept(f)
      PROVE  Kept
  BY <1>1 DEF Accept, IsFree
<1>2. ASSUME NEW c \in Accepted, PeerClose(c)
      PROVE  Kept
  BY <1>2 DEF PeerClose
<1>3. ASSUME NEW c \in Accepted, RecvPacket(c)
      PROVE  Kept
  BY <1>3 DEF RecvPacket
<1>4. ASSUME NEW c \in Accepted, OnDisconnect(c)
      PROVE  Kept
  BY <1>4 DEF OnDisconnect, Acquire, IsFree
<1>5. ASSUME NEW c \in Accepted, SendReply(c)
      PROVE  Kept
  BY <1>5 DEF SendReply, GotoClose
<1>6. CASE Disconnected
  <2>1. \E to \in Locations, c \in Nat :
           pc' = [pc EXCEPT !["main"] = to] /\ work' = [work EXCEPT !["main"] = c]
    BY <1>6 DEF Disconnected, GotoClose, Locations
  <2>2. UNCHANGED <<vnc, vphase, vpackets, vreplies, cmd, nsent, shut>>
    BY <1>6 DEF Disconnected
  <2> QED BY <2>1, <2>2
<1>7. ASSUME NEW h \in Handlers, HandleDone(h)
      PROVE  Kept
  BY <1>7 DEF HandleDone, GotoClose
<1>8. ASSUME NEW h \in Handlers, NEW c \in Accepted, HandleRecvMessage(h, c)
      PROVE  Kept
  BY <1>8 DEF HandleRecvMessage, IsFree
<1>9. ASSUME NEW t \in BThreads, CheckOnline(t)
      PROVE  Kept
  BY <1>9 DEF CheckOnline
<1>10. ASSUME NEW t \in BThreads, SendFails(t)
      PROVE  Kept
  BY <1>10 DEF SendFails, SendEnds, Release
<1>11. ASSUME NEW t \in BThreads, AddSeq(t)
      PROVE  Kept
  BY <1>11 DEF AddSeq, IsFree, Usable
<1>12. ASSUME NEW t \in BThreads, LockSessions(t)
      PROVE  Kept
  BY <1>12 DEF LockSessions, Acquire, IsFree
<1>13. ASSUME NEW t \in BThreads, SendMessageByQueue(t)
      PROVE  Kept
  <2>1. pc' = [pc EXCEPT ![t] = IF t = "main" THEN "decide" ELSE "done"]
    BY <1>13 DEF SendMessageByQueue, SendEnds
  <2>2. UNCHANGED <<vnc, vphase, vpackets, cmd, nsent, shut, work>>
    BY <1>13 DEF SendMessageByQueue, VNC!Queued
  <2>3. \/ vreplies' = vreplies
        \/ /\ vphase[mpVNCClient] \in {"open", "leaving"}
           /\ vreplies' = [vreplies EXCEPT ![mpVNCClient] = @ + 1]
    BY <1>13 DEF SendMessageByQueue, VNC!Queued
  <2>4. mpVNCClient \in VNCs
    BY <1>13 DEF SendMessageByQueue, Usable, VncType
  <2>5. \A u \in VThreads : pc'[u] = pc[u]
    BY <2>1
  <2>6. vreplies' \in [VNCs -> Nat]
    BY <2>3, <2>4
  <2>7. \A v \in VNCs \ {mpVNCClient} : vreplies'[v] = vreplies[v]
    BY <2>3, <2>4
  <2>8. vreplies' = vreplies \/ vphase[mpVNCClient] \in {"open", "leaving"}
    BY <2>3
  <2> QED BY <2>8, <2>2, <2>5, <2>6, <2>7
<1>14. ASSUME NEW t \in BThreads, LoseVNCClient(t)
      PROVE  Kept
  BY <1>14 DEF LoseVNCClient
<1>15. ASSUME NEW t \in BThreads, OnClose(t)
      PROVE  Kept
  BY <1>15 DEF OnClose, IsFree
<1>16. ASSUME NEW t \in BThreads, CloseSessionByClient(t)
      PROVE  Kept
  BY <1>16 DEF CloseSessionByClient, Acquire, IsFree
<1>17. ASSUME NEW t \in BThreads, EraseClient(t)
      PROVE  Kept
  BY <1>17 DEF EraseClient, EraseSession, Release
<1>18. ASSUME NEW t \in BThreads, CloseFd(t)
      PROVE  Kept
  BY <1>18 DEF CloseFd, GotoClose
<1> HIDE DEF Kept
<1> QED BY <1>1, <1>2, <1>3, <1>4, <1>5, <1>6, <1>7, <1>8, <1>9, <1>10, <1>11, <1>12, <1>13,
    <1>14, <1>15, <1>16, <1>17, <1>18 DEF BrowserNext, BrowserSteps

(***************************************************************************)
(* Steps of the browsers' side that call no operation of their TcpServer.  *)
(***************************************************************************)
Callbacks ==
    \/ \E c \in Accepted : PeerClose(c) \/ OnDisconnect(c)
    \/ \E h \in Handlers : \E c \in Accepted : HandleRecvMessage(h, c)
    \/ \E t \in BThreads : \/ CheckOnline(t) \/ SendFails(t) \/ AddSeq(t) \/ LockSessions(t)
                           \/ SendMessageByQueue(t) \/ LoseVNCClient(t) \/ OnClose(t)
                           \/ CloseSessionByClient(t) \/ EraseClient(t)

LEMMA CallbacksLeave == Callbacks => UNCHANGED <<phase, packets, fdOf>>
BY DEF Callbacks, PeerClose, OnDisconnect, HandleRecvMessage, CheckOnline, SendFails, AddSeq,
       LockSessions, SendMessageByQueue, LoseVNCClient, OnClose, CloseSessionByClient, EraseClient,
       browsers, kernel

\* The operations of the browsers' TcpServer, as they are called here.
LEMMA Operations ==
    ASSUME Types, BrowserNext
    PROVE  \/ Callbacks
           \/ \E f \in Fds : Accept(f)
           \/ \E c \in Accepted : RecvPacket(c)
           \/ \E c \in Accepted : SendReply(c)
           \/ Disconnected
           \/ \E h \in Handlers : HandleDone(h)
           \/ \E t \in BThreads : CloseFd(t)
BY DEF BrowserNext, BrowserSteps, Callbacks

(***************************************************************************)
(* PhaseInv: one step per operation.                                       *)
(***************************************************************************)
LEMMA PhaseStep ==
    ASSUME Types, PhaseInv, CloserInv, BrowserNext
    PROVE  PhaseInv'
<1>a. Browser!ServiceTypeOK /\ KernelType /\ PlaceType /\ ControlInv /\ Accepted \subseteq Conns
      /\ Len(fdOf) \in Nat /\ Conns \subseteq Nat
  BY TypesUsed DEF TypeParts
<1>b. shut \subseteq shut'
  BY BrowsersLeave
<1> USE <1>a, <1>b DEF PhaseInv
<1>1. CASE Callbacks
  BY <1>1, CallbacksLeave DEF Accepted
<1>2. ASSUME NEW f \in Fds, Accept(f)
      PROVE  PhaseInv'
  <2>1. Len(fdOf') = Len(fdOf) + 1 /\ Len(fdOf) + 1 \in Conns
    BY <1>2 DEF Accept, KernelType, Conns
  <2>2. packets' = packets /\ phase' = [phase EXCEPT ![Len(fdOf) + 1] = "open"]
    BY <1>2 DEF Accept, Browser!Accepted, Browser!Move
  <2> QED BY <2>1, <2>2 DEF Accepted, Conns, Browser!ServiceTypeOK, Browser!Conns
<1>3. ASSUME NEW c \in Accepted, RecvPacket(c)
      PROVE  PhaseInv'
  BY <1>3 DEF RecvPacket, Browser!Received, kernel, Accepted, Browser!ServiceTypeOK, Browser!Conns,
              Conns
<1>4. ASSUME NEW c \in Accepted, SendReply(c)
      PROVE  PhaseInv'
  <2>1. Browser!Sent(c) /\ UNCHANGED <<fdOf, shut>>
    BY <1>4 DEF SendReply, kernel
  <2> QED BY <2>1, BrowserEnds DEF Accepted
<1>5. CASE Disconnected
  <2>1. Browser!Disconnected(work["main"]) /\ UNCHANGED <<fdOf, shut>> /\ work["main"] \in Accepted
    BY <1>5 DEF Disconnected, kernel, ControlInv, BThreads, At
  <2>2. work["main"] \in shut
    BY <1>5 DEF Disconnected, CloserInv, MainSteps, At
  <2> QED BY <2>1, <2>2, BrowserEnds DEF Accepted
<1>6. ASSUME NEW h \in Handlers, HandleDone(h)
      PROVE  PhaseInv'
  <2>1. Browser!Handled(work[h]) /\ UNCHANGED <<fdOf, shut>> /\ work[h] \in Accepted
    BY <1>6 DEF HandleDone, kernel, ControlInv, BThreads, At
  <2> QED BY <2>1, BrowserEnds DEF Accepted
<1>7. ASSUME NEW t \in BThreads, CloseFd(t)
      PROVE  PhaseInv'
  <2>1. /\ UNCHANGED <<fdOf, shut, packets>> /\ work[t] \in Accepted
        /\ phase[work[t]] = "closing" /\ phase' = [phase EXCEPT ![work[t]] = "closed"]
    BY <1>7 DEF CloseFd, Browser!Closed, Browser!Move, kernel, ControlInv, BThreads, At
  <2> QED BY <2>1 DEF Accepted, Browser!ServiceTypeOK, Browser!Conns, Conns
<1> QED BY <1>1, <1>2, <1>3, <1>4, <1>5, <1>6, <1>7, Operations

(***************************************************************************)
(* HandInv: packets in hand.                                               *)
(***************************************************************************)
LEMMA HandsFinite ==
    /\ \A c : IsFiniteSet(InHand(c)) /\ Cardinality(InHand(c)) \in Nat
    /\ \A v : IsFiniteSet(VNCInHand(v)) /\ Cardinality(VNCInHand(v)) \in Nat
<1>1. IsFiniteSet(Handlers) /\ IsFiniteSet(VNCHandlers)
  BY ProxyAssumption, FS_Subset
<1>2. \A c : InHand(c) \subseteq Handlers
  BY DEF InHand
<1>3. \A v : VNCInHand(v) \subseteq VNCHandlers
  BY DEF VNCInHand
<1> QED BY <1>1, <1>2, <1>3, FS_Subset, FS_CardinalityType

\* One more in a finite set, and one less.
LEMMA OneMore ==
    ASSUME NEW S, IsFiniteSet(S), NEW x, x \notin S, Cardinality(S) \in Nat
    PROVE  Cardinality(S \cup {x}) = Cardinality(S) + 1
BY FS_AddElement

LEMMA OneLess ==
    ASSUME NEW S, IsFiniteSet(S), NEW x \in S, Cardinality(S) \in Nat
    PROVE  Cardinality(S \ {x}) = Cardinality(S) - 1
BY FS_RemoveElement

LEMMA HandStep ==
    ASSUME Types, HandInv, BrowserNext
    PROVE  HandInv'
<1>a. Browser!ServiceTypeOK /\ PlaceType /\ ControlInv /\ Accepted \subseteq Conns
  BY TypesUsed DEF TypeParts
<1> USE <1>a, ThreadFacts DEF Threads, BThreads, At, Goto, Take
<1>1. ASSUME NEW h \in Handlers, NEW c \in Accepted, HandleRecvMessage(h, c)
      PROVE  HandInv'
  <2>1. /\ pc[h] = "idle" /\ work' = [work EXCEPT ![h] = c]
        /\ \E to \in SendSteps : pc' = [pc EXCEPT ![h] = to]
        /\ Cardinality(InHand(c)) < packets[c] /\ packets' = packets
    BY <1>1 DEF HandleRecvMessage, SendSteps, browsers
  <2>2. /\ InHand(c)' = InHand(c) \cup {h} /\ h \notin InHand(c)
        /\ \A d \in Conns \ {c} : InHand(d)' = InHand(d)
    BY <2>1 DEF InHand, SendSteps, PlaceType
  <2>3. Cardinality(InHand(c)') = Cardinality(InHand(c)) + 1
    BY <2>2, HandsFinite, OneMore
  <2>4. packets[c] \in Nat
    BY DEF Browser!ServiceTypeOK, Browser!Conns, Conns
  <2> QED BY <2>1, <2>2, <2>3, <2>4, HandsFinite DEF HandInv
<1>2. ASSUME NEW h \in Handlers, HandleDone(h)
      PROVE  HandInv'
  <2>a. PICK c \in Accepted : c = work[h]
    BY <1>2 DEF HandleDone, ControlInv
  <2>1. /\ pc[h] = "done" /\ Browser!Handled(c)
        /\ \E d \in Nat : work' = [work EXCEPT ![h] = d]
        /\ \E to \in {"onclose", "idle"} : pc' = [pc EXCEPT ![h] = to]
    BY <1>2, <2>a DEF HandleDone, GotoClose, PlaceType
  <2>2. /\ InHand(c)' = InHand(c) \ {h} /\ h \in InHand(c)
        /\ \A d \in Conns \ {c} : InHand(d)' = InHand(d)
    BY <2>a, <2>1 DEF InHand, SendSteps, PlaceType
  <2>3. Cardinality(InHand(c)') = Cardinality(InHand(c)) - 1
    BY <2>2, HandsFinite, OneLess
  <2>4. /\ packets[c] \in Nat /\ packets'[c] = packets[c] - 1
        /\ \A d \in Conns \ {c} : packets'[d] = packets[d]
    BY <2>1, BrowserEnds DEF Browser!ServiceTypeOK, Browser!Conns, Conns
  <2>5. Cardinality(InHand(c)') <= packets'[c]
    BY <2>3, <2>4, HandsFinite DEF HandInv
  <2>6. \A d \in Conns \ {c} : Cardinality(InHand(d)') <= packets'[d]
    BY <2>2, <2>4 DEF HandInv
  <2> QED BY <2>5, <2>6 DEF HandInv
<1>3. ASSUME ~ \E h \in Handlers : HandleDone(h) \/ \E c \in Accepted : HandleRecvMessage(h, c)
      PROVE  HandInv'
  <2>1. \A d \in Conns : InHand(d)' = InHand(d)
  <3>1. ASSUME NEW f \in Fds, Accept(f)
        PROVE  \A d \in Conns : InHand(d)' = InHand(d)
    BY <3>1 DEF Accept, IsFree, InHand, SendSteps, PlaceType, ControlInv, Closers, MainSteps,
        locals
  <3>2. ASSUME NEW c \in Accepted, PeerClose(c)
        PROVE  \A d \in Conns : InHand(d)' = InHand(d)
    BY <3>2 DEF PeerClose, InHand, SendSteps, PlaceType, ControlInv, Closers, MainSteps,
        locals
  <3>3. ASSUME NEW c \in Accepted, RecvPacket(c)
        PROVE  \A d \in Conns : InHand(d)' = InHand(d)
    BY <3>3 DEF RecvPacket, InHand, SendSteps, PlaceType, ControlInv, Closers, MainSteps,
        locals
  <3>4. ASSUME NEW c \in Accepted, OnDisconnect(c)
        PROVE  \A d \in Conns : InHand(d)' = InHand(d)
    BY <3>4 DEF OnDisconnect, Acquire, IsFree, InHand, SendSteps, PlaceType, ControlInv,
        Closers, MainSteps, locals
  <3>5. ASSUME NEW c \in Accepted, SendReply(c)
        PROVE  \A d \in Conns : InHand(d)' = InHand(d)
    BY <3>5 DEF SendReply, GotoClose, InHand, SendSteps, PlaceType, ControlInv, Closers,
        MainSteps, locals
  <3>6. CASE Disconnected
    BY <3>6 DEF Disconnected, GotoClose, InHand, SendSteps, PlaceType, ControlInv, Closers,
        MainSteps, locals
  <3>7. ASSUME NEW t \in BThreads, CheckOnline(t)
        PROVE  \A d \in Conns : InHand(d)' = InHand(d)
    BY <3>7, SendOrderFacts DEF CheckOnline, InHand, SendSteps, PlaceType, ControlInv,
        Closers, MainSteps, locals
  <3>8. ASSUME NEW t \in BThreads, SendFails(t)
        PROVE  \A d \in Conns : InHand(d)' = InHand(d)
    BY <3>8 DEF SendFails, SendEnds, Release, InHand, SendSteps, PlaceType, ControlInv,
        Closers, MainSteps, locals
  <3>9. ASSUME NEW t \in BThreads, AddSeq(t)
        PROVE  \A d \in Conns : InHand(d)' = InHand(d)
    BY <3>9, SendOrderFacts DEF AddSeq, IsFree, Usable, InHand, SendSteps, PlaceType,
        ControlInv, Closers, MainSteps, locals
  <3>10. ASSUME NEW t \in BThreads, LockSessions(t)
        PROVE  \A d \in Conns : InHand(d)' = InHand(d)
    BY <3>10, SendOrderFacts DEF LockSessions, Acquire, IsFree, InHand, SendSteps, PlaceType,
        ControlInv, Closers, MainSteps, locals
  <3>11. ASSUME NEW t \in BThreads, SendMessageByQueue(t)
        PROVE  \A d \in Conns : InHand(d)' = InHand(d)
    BY <3>11 DEF SendMessageByQueue, SendEnds, Release, Usable, InHand, SendSteps, PlaceType,
        ControlInv, Closers, MainSteps, locals
  <3>12. ASSUME NEW t \in BThreads, LoseVNCClient(t)
        PROVE  \A d \in Conns : InHand(d)' = InHand(d)
    BY <3>12 DEF LoseVNCClient, InHand, SendSteps, PlaceType, ControlInv, Closers, MainSteps,
        locals
  <3>13. ASSUME NEW t \in BThreads, OnClose(t)
        PROVE  \A d \in Conns : InHand(d)' = InHand(d)
    BY <3>13 DEF OnClose, IsFree, InHand, SendSteps, PlaceType, ControlInv, Closers,
        MainSteps, locals
  <3>14. ASSUME NEW t \in BThreads, CloseSessionByClient(t)
        PROVE  \A d \in Conns : InHand(d)' = InHand(d)
    BY <3>14 DEF CloseSessionByClient, Acquire, IsFree, InHand, SendSteps, PlaceType,
        ControlInv, Closers, MainSteps, locals
  <3>15. ASSUME NEW t \in BThreads, EraseClient(t)
        PROVE  \A d \in Conns : InHand(d)' = InHand(d)
    BY <3>15 DEF EraseClient, EraseSession, Release, InHand, SendSteps, PlaceType, ControlInv,
        Closers, MainSteps, locals
  <3>16. ASSUME NEW t \in BThreads, CloseFd(t)
        PROVE  \A d \in Conns : InHand(d)' = InHand(d)
    BY <3>16 DEF CloseFd, GotoClose, InHand, SendSteps, PlaceType, ControlInv, Closers,
        MainSteps, locals
    <3> QED BY <1>3, <3>1, <3>2, <3>3, <3>4, <3>5, <3>6, <3>7, <3>8, <3>9, <3>10, <3>11, <3>12,
        <3>13, <3>14, <3>15, <3>16 DEF BrowserNext, BrowserSteps
  <2> DEFINE More == \A c \in Conns : packets[c] \in Nat /\ packets'[c] \in Nat
                                       /\ packets'[c] >= packets[c]
  <2>2. More
    <3>a. packets \in [Conns -> Nat]
      BY DEF Browser!ServiceTypeOK, Browser!Conns, Conns
    <3>1. CASE Callbacks
      BY <3>a, <3>1, CallbacksLeave
    <3>2. ASSUME NEW f \in Fds, Accept(f)
          PROVE  More
      BY <3>a, <3>2 DEF Accept, Browser!Accepted
    <3>3. ASSUME NEW c \in Accepted, RecvPacket(c)
          PROVE  More
      <4>1. packets' = [packets EXCEPT ![c] = @ + 1]
        BY <3>3 DEF RecvPacket, Browser!Received
      <4> QED BY <3>a, <4>1
    <3>4. ASSUME NEW c \in Accepted, SendReply(c)
          PROVE  More
      BY <3>a, <3>4 DEF SendReply, Browser!Sent
    <3>5. CASE Disconnected
      BY <3>a, <3>5 DEF Disconnected, Browser!Disconnected
    <3>6. ASSUME NEW t \in BThreads, CloseFd(t)
          PROVE  More
      BY <3>a, <3>6 DEF CloseFd, Browser!Closed
    <3> HIDE DEF More
    <3> QED BY <1>3, <3>1, <3>2, <3>3, <3>4, <3>5, <3>6, Operations
  <2> QED BY <2>1, <2>2, HandsFinite DEF HandInv
<1> QED BY <1>1, <1>2, <1>3

(***************************************************************************)
(* CloserInv: who makes a close begin is alone with the connection.        *)
(***************************************************************************)
LEMMA CloserBegins ==
    ASSUME Types, CloserInv, NEW t \in BThreads, NEW c \in Accepted, pc[t] \notin Closers,
           Browser!Disconnected(c) \/ Browser!Handled(c) \/ Browser!Sent(c),
           Browser!Disconnected(c) => t = "main", shut \subseteq shut',
           GotoClose(t, c, Begins(c))
    PROVE  CloserInv'
<1>a. Browser!ServiceTypeOK /\ PlaceType /\ ControlInv /\ Accepted \subseteq Conns
  BY TypesUsed DEF TypeParts
<1> USE <1>a, ThreadFacts DEF Threads, BThreads, CloserInv
<1>1. /\ pc' = [pc EXCEPT ![t] = IF Begins(c) THEN "onclose" ELSE "idle"]
      /\ work' = [work EXCEPT ![t] = IF Begins(c) THEN c ELSE 0]
  BY DEF GotoClose, Goto, Take
<1>2. /\ \A d \in Conns \ {c} : phase'[d] = phase[d]
      /\ Begins(c) => phase[c] # "closing" /\ phase'[c] = "closing"
      /\ ~ Begins(c) /\ phase[c] = "closing" => phase'[c] = "closing"
      /\ phase[c] = "open" /\ phase'[c] # "open" => t = "main"
  BY BrowserEnds
<1>3. \A u \in BThreads : u # t => pc'[u] = pc[u] /\ work'[u] = work[u]
  BY <1>1 DEF PlaceType
<1>4. /\ pc'[t] = IF Begins(c) THEN "onclose" ELSE "idle"
      /\ work'[t] = IF Begins(c) THEN c ELSE 0
  BY <1>1 DEF PlaceType
<1>5. pc'["main"] \in MainSteps => phase'[work'["main"]] = "open" /\ work'["main"] \in shut'
  BY <1>2, <1>3, <1>4 DEF MainSteps, ControlInv
<1>6. \A u \in BThreads : pc'[u] \in Closers => phase'[work'[u]] = "closing"
  BY <1>2, <1>3, <1>4 DEF Closers, ControlInv
<1>7. \A u, w \in BThreads :
         pc'[u] \in Closers /\ pc'[w] \in Closers /\ work'[u] = work'[w] => u = w
  BY <1>2, <1>3, <1>4 DEF Closers
<1> QED BY <1>5, <1>6, <1>7

LEMMA CloserStep ==
    ASSUME Types, CloserInv, BrowserNext
    PROVE  CloserInv'
<1>a. Browser!ServiceTypeOK /\ PlaceType /\ ControlInv /\ Accepted \subseteq Conns
      /\ Len(fdOf) \in Nat
  BY TypesUsed DEF TypeParts
<1>b. shut \subseteq shut'
  BY BrowsersLeave
<1> USE <1>a, <1>b, ThreadFacts DEF PlaceType, Threads, BThreads, browsers, locals, At, Goto, Take
<1>1. ASSUME NEW f \in Fds, Accept(f)
      PROVE  CloserInv'
  <2>1. \A c \in Accepted : phase'[c] = phase[c]
    BY <1>1 DEF Accept, Browser!Accepted, Browser!Move, Accepted, Browser!ServiceTypeOK,
        Browser!Conns,
              Conns
  <2>2. UNCHANGED <<pc, work>>
    BY <1>1 DEF Accept
  <2> QED BY <2>1, <2>2 DEF CloserInv, ControlInv, MainSteps, Closers
<1>2. ASSUME NEW c \in Accepted, PeerClose(c)
      PROVE  CloserInv'
  BY <1>2 DEF PeerClose, CloserInv, MainSteps, Closers
<1>3. ASSUME NEW c \in Accepted, RecvPacket(c)
      PROVE  CloserInv'
  BY <1>3 DEF RecvPacket, Browser!Received, CloserInv
<1>4. ASSUME NEW c \in Accepted, OnDisconnect(c)
      PROVE  CloserInv'
  BY <1>4 DEF OnDisconnect, Acquire, IsFree, CloserInv, MainSteps, Closers
<1>5. ASSUME NEW c \in Accepted, SendReply(c)
      PROVE  CloserInv'
  <2>1. pc["send"] \notin Closers /\ Browser!Sent(c) /\ GotoClose("send", c, Begins(c))
    BY <1>5 DEF SendReply, Closers
  <2>2. ~ Browser!Disconnected(c)
    BY <2>1 DEF Browser!Sent, Browser!Disconnected, Browser!ServiceTypeOK, Browser!Conns, Conns
  <2> QED BY <2>1, <2>2, CloserBegins
<1>6. CASE Disconnected
  <2>1. /\ pc["main"] \notin Closers /\ work["main"] \in Accepted
        /\ Browser!Disconnected(work["main"])
        /\ GotoClose("main", work["main"], Begins(work["main"]))
    BY <1>6 DEF Disconnected, Closers, ControlInv
  <2> QED BY <2>1, CloserBegins
<1>7. ASSUME NEW h \in Handlers, HandleDone(h)
      PROVE  CloserInv'
  <2>1. /\ pc[h] \notin Closers /\ work[h] \in Accepted
        /\ Browser!Handled(work[h]) /\ GotoClose(h, work[h], Begins(work[h]))
    BY <1>7 DEF HandleDone, Closers, ControlInv
  <2>2. ~ Browser!Disconnected(work[h])
    BY <2>1 DEF Browser!Handled, Browser!Disconnected, Browser!ServiceTypeOK, Browser!Conns, Conns
  <2> QED BY <2>1, <2>2, CloserBegins
<1>8. ASSUME NEW h \in Handlers, NEW c \in Accepted, HandleRecvMessage(h, c)
      PROVE  CloserInv'
  BY <1>8 DEF HandleRecvMessage, IsFree, CloserInv, MainSteps, Closers
<1>9. ASSUME NEW t \in BThreads, CheckOnline(t)
      PROVE  CloserInv'
  BY <1>9, SendOrderFacts DEF CheckOnline, CloserInv, MainSteps, Closers
<1>10. ASSUME NEW t \in BThreads, SendFails(t)
      PROVE  CloserInv'
  BY <1>10 DEF SendFails, SendEnds, Release, CloserInv, MainSteps, Closers
<1>11. ASSUME NEW t \in BThreads, AddSeq(t)
      PROVE  CloserInv'
  BY <1>11, SendOrderFacts DEF AddSeq, IsFree, Usable, CloserInv, MainSteps, Closers
<1>12. ASSUME NEW t \in BThreads, LockSessions(t)
      PROVE  CloserInv'
  BY <1>12, SendOrderFacts DEF LockSessions, Acquire, IsFree, CloserInv, MainSteps, Closers
<1>13. ASSUME NEW t \in BThreads, SendMessageByQueue(t)
      PROVE  CloserInv'
  BY <1>13 DEF SendMessageByQueue, SendEnds, Release, Usable, CloserInv, MainSteps, Closers
<1>14. ASSUME NEW t \in BThreads, LoseVNCClient(t)
      PROVE  CloserInv'
  BY <1>14 DEF LoseVNCClient, CloserInv, MainSteps, Closers
<1>15. ASSUME NEW t \in BThreads, OnClose(t)
      PROVE  CloserInv'
  BY <1>15 DEF OnClose, IsFree, CloserInv, MainSteps, Closers
<1>16. ASSUME NEW t \in BThreads, CloseSessionByClient(t)
      PROVE  CloserInv'
  BY <1>16 DEF CloseSessionByClient, Acquire, IsFree, CloserInv, MainSteps, Closers
<1>17. ASSUME NEW t \in BThreads, EraseClient(t)
      PROVE  CloserInv'
  BY <1>17 DEF EraseClient, EraseSession, Release, CloserInv, MainSteps, Closers
<1>18. ASSUME NEW t \in BThreads, CloseFd(t)
      PROVE  CloserInv'
  <2>1. /\ pc[t] \in Closers /\ work[t] \in Accepted
        /\ pc' = [pc EXCEPT ![t] = "idle"] /\ work' = [work EXCEPT ![t] = 0]
        /\ phase' = [phase EXCEPT ![work[t]] = "closed"]
    BY <1>18 DEF CloseFd, GotoClose, Closers, ControlInv, Browser!Closed, Browser!Move
  <2>2. \A u \in BThreads : pc'[u] \in Closers => u # t /\ work[u] # work[t]
    BY <2>1 DEF CloserInv, Closers
  <2>3. phase[work[t]] = "closing"
    BY <2>1 DEF CloserInv
  <2>4. pc'["main"] \in MainSteps => phase'[work'["main"]] = "open" /\ work'["main"] \in shut'
    BY <2>1, <2>3 DEF CloserInv, MainSteps, ControlInv, Browser!ServiceTypeOK, Browser!Conns, Conns
  <2>5. \A u \in BThreads : pc'[u] \in Closers => phase'[work'[u]] = "closing"
    BY <2>1, <2>2 DEF CloserInv, Browser!ServiceTypeOK, Browser!Conns, Conns, ControlInv
  <2>6. \A u, w \in BThreads :
           pc'[u] \in Closers /\ pc'[w] \in Closers /\ work'[u] = work'[w] => u = w
    BY <2>1, <2>2 DEF CloserInv
  <2> QED BY <2>4, <2>5, <2>6 DEF CloserInv
<1> QED BY <1>1, <1>2, <1>3, <1>4, <1>5, <1>6, <1>7, <1>8, <1>9, <1>10, <1>11, <1>12, <1>13,
    <1>14, <1>15, <1>16, <1>17, <1>18 DEF BrowserNext, BrowserSteps

(***************************************************************************)
(* LatestInv: a descriptor is given out again when it is closed.           *)
(***************************************************************************)
LEMMA ClosedStays ==
    ASSUME Types, BrowserNext
    PROVE  /\ \A c \in Accepted : /\ c \in Accepted' /\ fdOf'[c] = fdOf[c]
                                  /\ phase[c] = "closed" => phase'[c] = "closed"
           /\ (\A f \in Fds : ~ Accept(f)) => fdOf' = fdOf
<1>a. Browser!ServiceTypeOK /\ KernelType /\ ControlInv /\ Accepted \subseteq Conns
      /\ Len(fdOf) \in Nat
  BY TypesUsed DEF TypeParts
<1> USE <1>a DEF kernel, Accepted, BThreads, At
<1> DEFINE Stays == \A c \in Accepted : /\ c \in Accepted' /\ fdOf'[c] = fdOf[c]
                                        /\ phase[c] = "closed" => phase'[c] = "closed"
           Same  == fdOf' = fdOf
<1>1. ASSUME Callbacks
      PROVE  Stays /\ Same
  BY <1>1, CallbacksLeave
<1>2. ASSUME NEW f \in Fds, Accept(f)
      PROVE  Stays
  <2>1. fdOf' = Append(fdOf, f) /\ phase' = [phase EXCEPT ![Len(fdOf) + 1] = "open"]
    BY <1>2 DEF Accept, Browser!Accepted, Browser!Move
  <2>2. Len(fdOf') = Len(fdOf) + 1 /\ \A c \in 1 .. Len(fdOf) : fdOf'[c] = fdOf[c]
    BY <2>1 DEF KernelType
  <2> QED BY <2>1, <2>2 DEF Browser!ServiceTypeOK, Browser!Conns, Conns
<1>3. ASSUME NEW c \in Accepted, RecvPacket(c)
      PROVE  Stays /\ Same
  BY <1>3 DEF RecvPacket, Browser!Received
<1>4. ASSUME NEW c \in Accepted, SendReply(c)
      PROVE  Stays /\ Same
  BY <1>4, BrowserEnds DEF SendReply
<1>5. ASSUME Disconnected
      PROVE  Stays /\ Same
  BY <1>5, BrowserEnds DEF Disconnected, ControlInv
<1>6. ASSUME NEW h \in Handlers, HandleDone(h)
      PROVE  Stays /\ Same
  BY <1>6, BrowserEnds DEF HandleDone, ControlInv
<1>7. ASSUME NEW t \in BThreads, CloseFd(t)
      PROVE  Stays /\ Same
  BY <1>7 DEF CloseFd, Browser!Closed, Browser!Move, Browser!ServiceTypeOK, Browser!Conns, Conns
<1> SUFFICES Stays /\ ((\A f \in Fds : ~ Accept(f)) => Same)
  OBVIOUS
<1> HIDE DEF Stays, Same
<1> QED BY <1>1, <1>2, <1>3, <1>4, <1>5, <1>6, <1>7, Operations

LEMMA LatestStep ==
    ASSUME Types, LatestInv, BrowserNext
    PROVE  LatestInv'
<1>a. KernelType /\ Len(fdOf) \in Nat
  BY TypesUsed DEF TypeParts
<1>1. ASSUME NEW f \in Fds, Accept(f)
      PROVE  LatestInv'
  <2>1. fdOf' = Append(fdOf, f) /\ Open(f) = {}
    BY <1>1 DEF Accept
  <2>2. /\ Accepted' = Accepted \cup {Len(fdOf) + 1} /\ Len(fdOf) + 1 \notin Accepted
        /\ fdOf'[Len(fdOf) + 1] = f /\ DOMAIN fdOf = Accepted
        /\ \A c \in Accepted : c < Len(fdOf) + 1
    BY <1>a, <2>1 DEF KernelType, Accepted
  <2>3. \A c \in Accepted : fdOf[c] = f => phase[c] = "closed"
    BY <2>1, <2>2 DEF Open
  <2> QED BY <1>a, <2>2, <2>3, ClosedStays DEF LatestInv, Accepted
<1>2. ASSUME \A f \in Fds : ~ Accept(f)
      PROVE  LatestInv'
  BY <1>2, ClosedStays DEF LatestInv, Accepted
<1> QED BY <1>1, <1>2

(***************************************************************************)
(* ClientInv: the Client of a connection.                                  *)
(***************************************************************************)
LEMMA ClientBegins ==
    ASSUME Types, ClientInv, NEW t \in BThreads, NEW c \in Accepted, pc[t] \notin Closers,
           Browser!Disconnected(c) \/ Browser!Handled(c) \/ Browser!Sent(c),
           GotoClose(t, c, Begins(c)), UNCHANGED <<fdOf, mClientMap>>
    PROVE  ClientInv'
<1>a. Browser!ServiceTypeOK /\ PlaceType /\ ControlInv /\ Accepted \subseteq Conns
      /\ Len(fdOf) \in Nat
  BY TypesUsed DEF TypeParts
<1> USE <1>a DEF Accepted
<1>1. /\ pc' = [pc EXCEPT ![t] = IF Begins(c) THEN "onclose" ELSE "idle"]
      /\ work' = [work EXCEPT ![t] = IF Begins(c) THEN c ELSE 0]
  BY DEF GotoClose, Goto, Take
<1>2. /\ \A u \in BThreads : u # t => pc'[u] = pc[u] /\ work'[u] = work[u]
      /\ pc'[t] = IF Begins(c) THEN "onclose" ELSE "idle"
      /\ work'[t] = IF Begins(c) THEN c ELSE 0
  BY <1>1 DEF PlaceType, Threads
<1>3. /\ \A d \in Conns \ {c} : phase'[d] = phase[d]
      /\ Begins(c) => phase[c] \in {"open", "leaving"}
      /\ phase'[c] # phase[c] => phase[c] \in {"open", "leaving"} /\ phase'[c] # "closed"
  BY BrowserEnds
<1>4. \A d \in Accepted : phase'[d] \in {"open", "leaving"} => mClientMap'[fdOf'[d]] = d
  BY <1>3 DEF ClientInv
<1>5. \A u \in BThreads :
         /\ pc'[u] \in {"onclose", "session", "erase"} => mClientMap'[fdOf'[work'[u]]] = work'[u]
         /\ pc'[u] = "close" => mClientMap'[fdOf'[work'[u]]] = 0
  BY <1>2, <1>3 DEF ClientInv
<1>6. \A f \in Fds : mClientMap'[f] # 0 =>
         /\ mClientMap'[f] \in Accepted' /\ fdOf'[mClientMap'[f]] = f
         /\ phase'[mClientMap'[f]] # "closed"
  BY <1>3 DEF ClientInv
<1> QED BY <1>4, <1>5, <1>6 DEF ClientInv

LEMMA ClientStep ==
    ASSUME Types, PhaseInv, CloserInv, LatestInv, ClientInv, BrowserNext
    PROVE  ClientInv'
<1>a. Browser!ServiceTypeOK /\ KernelType /\ MapsType /\ PlaceType /\ ControlInv
      /\ Accepted \subseteq Conns /\ Len(fdOf) \in Nat /\ \A c \in Accepted : fdOf[c] \in Fds
  BY TypesUsed DEF TypeParts
<1> USE <1>a, ThreadFacts DEF PlaceType, Threads, BThreads, browsers, maps, locals, kernel, At,
    Goto, Take
<1>1. ASSUME NEW f \in Fds, Accept(f)
      PROVE  ClientInv'
  <2>1. /\ fdOf' = Append(fdOf, f) /\ Open(f) = {} /\ UNCHANGED <<pc, work>>
        /\ mClientMap' = [mClientMap EXCEPT ![f] = IF @ = 0 THEN Len(fdOf) + 1 ELSE @]
        /\ phase' = [phase EXCEPT ![Len(fdOf) + 1] = "open"]
        /\ Len(fdOf) + 1 \in Conns
    BY <1>1 DEF Accept, Browser!Accepted, Browser!Move, Conns
  <2>2. /\ Accepted' = Accepted \cup {Len(fdOf) + 1} /\ Len(fdOf) + 1 \notin Accepted
        /\ fdOf'[Len(fdOf) + 1] = f /\ DOMAIN fdOf = Accepted
        /\ \A c \in Accepted : fdOf'[c] = fdOf[c] /\ phase'[c] = phase[c]
        /\ phase'[Len(fdOf) + 1] = "open"
    BY <2>1 DEF KernelType, Accepted, Browser!ServiceTypeOK, Browser!Conns, Conns
  <2>3. \A c \in Accepted : fdOf[c] = f => phase[c] = "closed"
    BY <2>1, <2>2 DEF Open
  <2>4. mClientMap[f] = 0
    BY <2>3 DEF ClientInv
  <2>5. /\ mClientMap'[f] = Len(fdOf) + 1
        /\ \A g \in Fds \ {f} : mClientMap'[g] = mClientMap[g]
    BY <2>1, <2>4 DEF MapsType
  <2>6. \A d \in Accepted' : phase'[d] \in {"open", "leaving"} => mClientMap'[fdOf'[d]] = d
    BY <2>2, <2>3, <2>5 DEF ClientInv
  <2>7. \A u \in BThreads :
           pc[u] \in Closers => work[u] \in Accepted /\ fdOf[work[u]] # f
    BY <2>3 DEF CloserInv, ControlInv, Closers
  <2>8. \A u \in BThreads :
           /\ pc'[u] \in {"onclose", "session", "erase"} => mClientMap'[fdOf'[work'[u]]] = work'[u]
           /\ pc'[u] = "close" => mClientMap'[fdOf'[work'[u]]] = 0
    BY <2>1, <2>2, <2>5, <2>7 DEF ClientInv, Closers
  <2>9. \A g \in Fds : mClientMap'[g] # 0 =>
           /\ mClientMap'[g] \in Accepted' /\ fdOf'[mClientMap'[g]] = g
           /\ phase'[mClientMap'[g]] # "closed"
    BY <2>2, <2>5 DEF ClientInv
  <2> QED BY <2>6, <2>8, <2>9 DEF ClientInv
<1>2. ASSUME NEW c \in Accepted, PeerClose(c)
      PROVE  ClientInv'
  BY <1>2 DEF PeerClose, ClientInv, Accepted, ControlInv
<1>3. ASSUME NEW c \in Accepted, RecvPacket(c)
      PROVE  ClientInv'
  BY <1>3 DEF RecvPacket, Browser!Received, ClientInv, Accepted
<1>4. ASSUME NEW c \in Accepted, OnDisconnect(c)
      PROVE  ClientInv'
  BY <1>4 DEF OnDisconnect, Acquire, IsFree, ClientInv, Accepted, ControlInv
<1>5. ASSUME NEW c \in Accepted, SendReply(c)
      PROVE  ClientInv'
  <2>1. /\ pc["send"] \notin Closers /\ Browser!Sent(c) /\ GotoClose("send", c, Begins(c))
        /\ UNCHANGED <<fdOf, mClientMap>>
    BY <1>5 DEF SendReply, Closers
  <2> QED BY <2>1, ClientBegins
<1>6. CASE Disconnected
  <2>1. /\ pc["main"] \notin Closers /\ work["main"] \in Accepted
        /\ Browser!Disconnected(work["main"])
        /\ GotoClose("main", work["main"], Begins(work["main"]))
        /\ UNCHANGED <<fdOf, mClientMap>>
    BY <1>6 DEF Disconnected, Closers, ControlInv
  <2> QED BY <2>1, ClientBegins
<1>7. ASSUME NEW h \in Handlers, HandleDone(h)
      PROVE  ClientInv'
  <2>1. /\ pc[h] \notin Closers /\ work[h] \in Accepted
        /\ Browser!Handled(work[h]) /\ GotoClose(h, work[h], Begins(work[h]))
        /\ UNCHANGED <<fdOf, mClientMap>>
    BY <1>7 DEF HandleDone, Closers, ControlInv
  <2> QED BY <2>1, ClientBegins
<1>8. ASSUME NEW h \in Handlers, NEW c \in Accepted, HandleRecvMessage(h, c)
      PROVE  ClientInv'
  BY <1>8 DEF HandleRecvMessage, IsFree, ClientInv, Accepted, ControlInv
<1>9. ASSUME NEW t \in BThreads, CheckOnline(t)
      PROVE  ClientInv'
  BY <1>9, SendOrderFacts DEF CheckOnline, ClientInv, Accepted, ControlInv
<1>10. ASSUME NEW t \in BThreads, SendFails(t)
      PROVE  ClientInv'
  BY <1>10 DEF SendFails, SendEnds, Release, ClientInv, Accepted, ControlInv
<1>11. ASSUME NEW t \in BThreads, AddSeq(t)
      PROVE  ClientInv'
  BY <1>11, SendOrderFacts DEF AddSeq, IsFree, Usable, ClientInv, Accepted, ControlInv
<1>12. ASSUME NEW t \in BThreads, LockSessions(t)
      PROVE  ClientInv'
  BY <1>12, SendOrderFacts DEF LockSessions, Acquire, IsFree, ClientInv, Accepted,
      ControlInv
<1>13. ASSUME NEW t \in BThreads, SendMessageByQueue(t)
      PROVE  ClientInv'
  BY <1>13 DEF SendMessageByQueue, SendEnds, Release, Usable, ClientInv, Accepted,
      ControlInv
<1>14. ASSUME NEW t \in BThreads, LoseVNCClient(t)
      PROVE  ClientInv'
  BY <1>14 DEF LoseVNCClient, ClientInv, Accepted, ControlInv
<1>15. ASSUME NEW t \in BThreads, OnClose(t)
      PROVE  ClientInv'
  BY <1>15 DEF OnClose, IsFree, ClientInv, Accepted, ControlInv
<1>16. ASSUME NEW t \in BThreads, CloseSessionByClient(t)
      PROVE  ClientInv'
  BY <1>16 DEF CloseSessionByClient, Acquire, IsFree, ClientInv, Accepted, ControlInv
<1>17. ASSUME NEW t \in BThreads, EraseClient(t)
      PROVE  ClientInv'
  <2> DEFINE f == fdOf[work[t]]
  <2>1. /\ work[t] \in Accepted /\ pc[t] = "erase" /\ f \in Fds
        /\ mClientMap' = [mClientMap EXCEPT ![f] = 0]
        /\ pc' = [pc EXCEPT ![t] = "close"] /\ UNCHANGED <<phase, fdOf, work>>
    BY <1>17 DEF EraseClient, ControlInv
  <2>2. phase[work[t]] = "closing"
    BY <2>1 DEF CloserInv, Closers
  <2>3. \A d \in Accepted : fdOf[d] = f /\ d # work[t] => phase[d] = "closed"
    BY <2>1, <2>2 DEF LatestInv, Accepted
  <2>4. \A d \in Accepted : phase'[d] \in {"open", "leaving"} => mClientMap'[fdOf'[d]] = d
    BY <2>1, <2>2, <2>3 DEF ClientInv, MapsType
  <2>5. \A u \in BThreads : u # t /\ pc[u] \in Closers => fdOf[work[u]] # f
    BY <2>1, <2>3 DEF CloserInv, ControlInv, Closers
  <2>6. \A u \in BThreads :
           /\ pc'[u] \in {"onclose", "session", "erase"} => mClientMap'[fdOf'[work'[u]]] = work'[u]
           /\ pc'[u] = "close" => mClientMap'[fdOf'[work'[u]]] = 0
    BY <2>1, <2>5 DEF ClientInv, MapsType, Closers, ControlInv
  <2>7. \A g \in Fds : mClientMap'[g] # 0 =>
           /\ mClientMap'[g] \in Accepted' /\ fdOf'[mClientMap'[g]] = g
           /\ phase'[mClientMap'[g]] # "closed"
    BY <2>1 DEF ClientInv, MapsType, Accepted
  <2> QED BY <2>1, <2>4, <2>6, <2>7 DEF ClientInv, Accepted
<1>18. ASSUME NEW t \in BThreads, CloseFd(t)
      PROVE  ClientInv'
  <2>1. /\ pc[t] = "close" /\ work[t] \in Accepted
        /\ pc' = [pc EXCEPT ![t] = "idle"] /\ work' = [work EXCEPT ![t] = 0]
        /\ phase' = [phase EXCEPT ![work[t]] = "closed"] /\ UNCHANGED <<fdOf, mClientMap>>
    BY <1>18 DEF CloseFd, GotoClose, ControlInv, Browser!Closed, Browser!Move
  <2>2. \A c \in Conns : phase'[c] = IF c = work[t] THEN "closed" ELSE phase[c]
    BY <2>1 DEF Browser!ServiceTypeOK, Browser!Conns, Conns
  <2>3. mClientMap[fdOf[work[t]]] = 0
    BY <2>1 DEF ClientInv
  <2>4. \A d \in Accepted : phase'[d] \in {"open", "leaving"} => mClientMap'[fdOf'[d]] = d
    BY <2>1, <2>2 DEF ClientInv
  <2>5. \A u \in BThreads :
           /\ pc'[u] \in {"onclose", "session", "erase"} => mClientMap'[fdOf'[work'[u]]] = work'[u]
           /\ pc'[u] = "close" => mClientMap'[fdOf'[work'[u]]] = 0
    BY <2>1 DEF ClientInv
  <2>6. \A g \in Fds : mClientMap'[g] # 0 =>
           /\ mClientMap'[g] \in Accepted' /\ fdOf'[mClientMap'[g]] = g
           /\ phase'[mClientMap'[g]] # "closed"
    BY <2>1, <2>2, <2>3 DEF ClientInv, Accepted
  <2> QED BY <2>1, <2>4, <2>5, <2>6 DEF ClientInv, Accepted
<1> QED BY <1>1, <1>2, <1>3, <1>4, <1>5, <1>6, <1>7, <1>8, <1>9, <1>10, <1>11, <1>12, <1>13,
    <1>14, <1>15, <1>16, <1>17, <1>18 DEF BrowserNext, BrowserSteps

(***************************************************************************)
(* ClientOutlivesUsers.                                                    *)
(***************************************************************************)
\* Whoever uses a Client without the lock of the map works for a connection that is
\* not being closed.
LEMMA UsersInService ==
    ASSUME Types, PhaseInv, HandInv, CloserInv
    PROVE  \A t \in {"main"} \cup Handlers :
               Using(t) => work[t] \in Accepted /\ phase[work[t]] \in {"open", "leaving"}
<1> SUFFICES ASSUME NEW t \in {"main"} \cup Handlers, Using(t)
             PROVE  work[t] \in Accepted /\ phase[work[t]] \in {"open", "leaving"}
  OBVIOUS
<1>a. Browser!ServiceTypeOK /\ ControlInv /\ Accepted \subseteq Conns
  BY TypesUsed DEF TypeParts
<1>1. work[t] \in Accepted
  BY <1>a DEF ControlInv, BThreads, Using, SendSteps
<1>2. CASE t = "main"
  BY <1>1, <1>2, ThreadFacts DEF CloserInv, MainSteps, Using
<1>3. CASE t \in Handlers
  <2>1. t \in InHand(work[t])
    BY <1>3 DEF InHand, Using, SendSteps
  <2>2. Cardinality(InHand(work[t])) # 0
    BY <2>1, HandsFinite, FS_EmptySet
  <2>3. packets[work[t]] # 0
    <3>1. Cardinality(InHand(work[t])) <= packets[work[t]]
      BY <1>1, <1>a DEF HandInv
    <3> QED BY <3>1, <2>2, HandsFinite
  <2> QED BY <1>1, <1>a, <2>3 DEF PhaseInv
<1> QED BY <1>1, <1>2, <1>3

LEMMA UsersStep ==
    ASSUME Types, PhaseInv, HandInv, CloserInv, LatestInv, ClientInv, ClientOutlivesUsers,
        BrowserNext
    PROVE  ClientOutlivesUsers'
<1>a. Browser!ServiceTypeOK /\ KernelType /\ MapsType /\ PlaceType /\ FoundType /\ ControlInv
      /\ Accepted \subseteq Conns /\ Len(fdOf) \in Nat /\ \A c \in Accepted : fdOf[c] \in Fds
  BY TypesUsed DEF TypeParts
<1> USE <1>a, ThreadFacts
        DEF PlaceType, FoundType, Threads, BThreads, browsers, maps, found, locals, kernel, At,
            Goto, Take
<1>1. ASSUME NEW f \in Fds, Accept(f)
      PROVE  ClientOutlivesUsers'
  <2>1. /\ fdOf' = Append(fdOf, f) /\ UNCHANGED <<pc, work, client, sessions>>
        /\ mClientMap' = [mClientMap EXCEPT ![f] = IF @ = 0 THEN Len(fdOf) + 1 ELSE @]
    BY <1>1 DEF Accept
  <2>2. /\ \A c \in Accepted : fdOf'[c] = fdOf[c] /\ c # 0
        /\ \A g \in Fds : mClientMap[g] # 0 => mClientMap'[g] = mClientMap[g]
    BY <2>1 DEF KernelType, Accepted, MapsType
  <2>3. \A t \in {"main"} \cup Handlers : Using(t)' => Using(t) /\ work[t] \in Accepted
    BY <2>1 DEF Using, ControlInv
  <2>4. \A t \in {"main"} \cup Handlers :
           Using(t)' => client'[t] = work'[t] /\ mClientMap'[fdOf'[work'[t]]] = client'[t]
    <3> SUFFICES ASSUME NEW t \in {"main"} \cup Handlers, Using(t)'
                 PROVE  client'[t] = work'[t] /\ mClientMap'[fdOf'[work'[t]]] = client'[t]
      OBVIOUS
    <3>1. Using(t) /\ work[t] \in Accepted /\ client[t] = work[t]
          /\ mClientMap[fdOf[work[t]]] = client[t]
      BY <2>3 DEF ClientOutlivesUsers
    <3>2. fdOf[work[t]] \in Fds /\ work[t] # 0 /\ fdOf'[work[t]] = fdOf[work[t]]
      BY <2>2, <3>1
    <3> QED BY <2>1, <2>2, <3>1, <3>2
  <2>5. \A g \in Fds : sessions'[g].client \in {0, mClientMap'[g]}
    BY <2>1, <2>2 DEF ClientOutlivesUsers
  <2> QED BY <2>4, <2>5 DEF ClientOutlivesUsers
<1>2. ASSUME NEW c \in Accepted, PeerClose(c)
      PROVE  ClientOutlivesUsers'
  BY <1>2 DEF PeerClose, ClientOutlivesUsers, Using
<1>3. ASSUME NEW c \in Accepted, RecvPacket(c)
      PROVE  ClientOutlivesUsers'
  BY <1>3 DEF RecvPacket, ClientOutlivesUsers, Using
<1>4. ASSUME NEW c \in Accepted, OnDisconnect(c)
      PROVE  ClientOutlivesUsers'
  <2>1. /\ pc' = [pc EXCEPT !["main"] = "check"] /\ work' = [work EXCEPT !["main"] = c]
        /\ client' = [client EXCEPT !["main"] = mClientMap[fdOf[c]]] /\ phase[c] = "open"
        /\ UNCHANGED <<mClientMap, fdOf, sessions>>
    BY <1>4 DEF OnDisconnect
  <2>2. mClientMap[fdOf[c]] = c
    BY <2>1 DEF ClientInv
  <2> QED BY <2>1, <2>2 DEF ClientOutlivesUsers, Using
<1>5. ASSUME NEW c \in Accepted, SendReply(c)
      PROVE  ClientOutlivesUsers'
  BY <1>5 DEF SendReply, GotoClose, ClientOutlivesUsers, Using
<1>6. CASE Disconnected
  BY <1>6 DEF Disconnected, GotoClose, ClientOutlivesUsers, Using
<1>7. ASSUME NEW h \in Handlers, HandleDone(h)
      PROVE  ClientOutlivesUsers'
  BY <1>7 DEF HandleDone, GotoClose, ClientOutlivesUsers, Using
<1>8. ASSUME NEW h \in Handlers, NEW c \in Accepted, HandleRecvMessage(h, c)
      PROVE  ClientOutlivesUsers'
  <2>1. /\ pc' = [pc EXCEPT ![h] = IF mClientMap[fdOf[c]] # 0 THEN "check" ELSE "done"]
        /\ work' = [work EXCEPT ![h] = c]
        /\ client' = [client EXCEPT ![h] = mClientMap[fdOf[c]]]
        /\ Cardinality(InHand(c)) < packets[c] /\ UNCHANGED <<mClientMap, fdOf, sessions>>
    BY <1>8 DEF HandleRecvMessage
  <2>2. packets[c] # 0
    BY <2>1, HandsFinite DEF Browser!ServiceTypeOK, Browser!Conns, Conns
  <2>3. mClientMap[fdOf[c]] = c
    BY <2>2 DEF ClientInv, PhaseInv
  <2> QED BY <2>1, <2>3 DEF ClientOutlivesUsers, Using
<1>9. ASSUME NEW t \in BThreads, CheckOnline(t)
      PROVE  ClientOutlivesUsers'
  BY <1>9, SendOrderFacts DEF CheckOnline, ClientOutlivesUsers, Using
<1>10. ASSUME NEW t \in BThreads, SendFails(t)
      PROVE  ClientOutlivesUsers'
  BY <1>10 DEF SendFails, SendEnds, Release, ClientOutlivesUsers, Using
<1>11. ASSUME NEW t \in BThreads, AddSeq(t)
      PROVE  ClientOutlivesUsers'
  BY <1>11, SendOrderFacts DEF AddSeq, IsFree, Usable, ClientOutlivesUsers, Using
<1>12. ASSUME NEW t \in BThreads, LockSessions(t)
      PROVE  ClientOutlivesUsers'
  BY <1>12, SendOrderFacts DEF LockSessions, Acquire, IsFree, ClientOutlivesUsers, Using
<1>13. ASSUME NEW t \in BThreads, SendMessageByQueue(t)
      PROVE  ClientOutlivesUsers'
  <2>1. t \in {"main"} \cup Handlers /\ Using(t)
    BY <1>13 DEF SendMessageByQueue, ControlInv, Closers, Using
  <2>2. client[t] = work[t] /\ mClientMap[fdOf[client[t]]] = client[t] /\ client[t] \in Accepted
    BY <2>1 DEF ClientOutlivesUsers, ControlInv, Using
  <2>3. /\ \E tasks : sessions' = [sessions EXCEPT ![fdOf[client[t]]] =
               [client |-> IF @.client # 0 THEN @.client ELSE client[t], tasks |-> tasks]]
        /\ pc' = [pc EXCEPT ![t] = IF t = "main" THEN "decide" ELSE "done"]
        /\ client' = [client EXCEPT ![t] = 0] /\ UNCHANGED <<mClientMap, fdOf, work>>
    BY <1>13 DEF SendMessageByQueue, SendEnds, InsertRequestTask
  <2>4. \A g \in Fds : sessions'[g].client \in {0, mClientMap'[g]}
    BY <2>2, <2>3 DEF ClientOutlivesUsers, MapsType
  <2>5. \A u \in {"main"} \cup Handlers :
           Using(u)' => client'[u] = work'[u] /\ mClientMap'[fdOf'[work'[u]]] = client'[u]
    BY <2>3 DEF ClientOutlivesUsers, Using
  <2> QED BY <2>4, <2>5 DEF ClientOutlivesUsers
<1>14. ASSUME NEW t \in BThreads, LoseVNCClient(t)
      PROVE  ClientOutlivesUsers'
  BY <1>14 DEF LoseVNCClient, ClientOutlivesUsers, Using
<1>15. ASSUME NEW t \in BThreads, OnClose(t)
      PROVE  ClientOutlivesUsers'
  BY <1>15 DEF OnClose, IsFree, ClientOutlivesUsers, Using
<1>16. ASSUME NEW t \in BThreads, CloseSessionByClient(t)
      PROVE  ClientOutlivesUsers'
  BY <1>16 DEF CloseSessionByClient, Acquire, IsFree, ClientOutlivesUsers, Using
<1>17. ASSUME NEW t \in BThreads, EraseClient(t)
      PROVE  ClientOutlivesUsers'
  <2> DEFINE f == fdOf[work[t]]
  <2>1. /\ work[t] \in Accepted /\ pc[t] = "erase" /\ f \in Fds
        /\ mClientMap' = [mClientMap EXCEPT ![f] = 0]
        /\ sessions' = [sessions EXCEPT ![f] = NoSession]
        /\ pc' = [pc EXCEPT ![t] = "close"] /\ UNCHANGED <<client, fdOf, work>>
    BY <1>17 DEF EraseClient, EraseSession, ControlInv
  <2>2. phase[work[t]] = "closing"
    BY <2>1 DEF CloserInv, Closers
  <2>3. \A u \in {"main"} \cup Handlers :
           Using(u) => /\ work[u] \in Accepted /\ fdOf[work[u]] \in Fds
                       /\ phase[work[u]] \in {"open", "leaving"}
    BY UsersInService
  <2>4. \A u \in {"main"} \cup Handlers : Using(u) => fdOf[work[u]] # f
    <3> SUFFICES ASSUME NEW u \in {"main"} \cup Handlers, Using(u), fdOf[work[u]] = f
                 PROVE  FALSE
      OBVIOUS
    <3>1. work[u] \in Accepted /\ work[u] # work[t] /\ work[u] \in Nat /\ work[t] \in Nat
      BY <2>1, <2>2, <2>3
    <3>2. phase[work[u]] # "closed" /\ phase[work[t]] # "closed"
      BY <2>2, <2>3
    <3>3. work[u] < work[t] \/ work[t] < work[u]
      BY <3>1
    <3> QED BY <2>1, <3>1, <3>2, <3>3 DEF LatestInv
  <2>5. \A u \in {"main"} \cup Handlers :
           Using(u)' => client'[u] = work'[u] /\ mClientMap'[fdOf'[work'[u]]] = client'[u]
    BY <2>1, <2>3, <2>4 DEF ClientOutlivesUsers, Using, MapsType
  <2>6. \A g \in Fds : sessions'[g].client \in {0, mClientMap'[g]}
    BY <2>1 DEF ClientOutlivesUsers, MapsType, NoSession
  <2> QED BY <2>5, <2>6 DEF ClientOutlivesUsers
<1>18. ASSUME NEW t \in BThreads, CloseFd(t)
      PROVE  ClientOutlivesUsers'
  BY <1>18 DEF CloseFd, GotoClose, ClientOutlivesUsers, Using
<1> QED BY <1>1, <1>2, <1>3, <1>4, <1>5, <1>6, <1>7, <1>8, <1>9, <1>10, <1>11, <1>12, <1>13,
    <1>14, <1>15, <1>16, <1>17, <1>18 DEF BrowserNext, BrowserSteps

\* The peer's side leaves BrowserInv alone.
LEMMA BrowserInvKept ==
    ASSUME Types, BrowserInv, VNCNext
    PROVE  BrowserInv'
<1>a. /\ UNCHANGED <<phase, packets, fdOf, mClientMap, sessions, client>> /\ shut \subseteq shut'
      /\ \A t \in BThreads : pc'[t] = pc[t] /\ work'[t] = work[t]
  BY VNCLeaves DEF maps, found
<1>b. Accepted' = Accepted /\ ControlInv
  BY <1>a, TypesUsed DEF Accepted
<1> USE <1>a, <1>b DEF BrowserInv, BThreads
<1>1. PhaseInv'
  BY DEF PhaseInv
<1>2. \A d \in Conns : InHand(d)' = InHand(d)
  BY DEF InHand
<1>3. HandInv'
  BY <1>2 DEF HandInv
<1>4. CloserInv'
  BY DEF CloserInv
<1>5. LatestInv'
  BY DEF LatestInv
<1>6. ClientInv'
  BY DEF ClientInv
<1>7. ClientOutlivesUsers'
  BY DEF ClientOutlivesUsers, Using
<1> QED BY <1>1, <1>3, <1>4, <1>5, <1>6, <1>7

(***************************************************************************)
(* Steps of the peer's side that call no operation of its TcpServer.       *)
(***************************************************************************)
VNCCallbacks ==
    \/ \E v \in VNCs : VNCPeerClose(v) \/ OnDisconnectVNC(v)
    \/ \E h \in VNCHandlers :
          \/ \E v \in VNCs : HandleRecvVNCMessage(h, v)
          \/ \E i \in 1 .. nsent : ParseProxy(h, i) \/ ParseProxyDisconnect(h, i)
          \/ ParseEnds(h)
    \/ \E t \in VThreads : \/ LockReturn(t) \/ ReturnVNC2Client(t) \/ CloseSessionByVNC(t)
                           \/ CloseRefused(t) \/ DeleteVNCClient(t) \/ ClearVNCClient(t)

LEMMA VNCCallbacksLeave == VNCCallbacks => UNCHANGED <<vphase, vpackets, vreplies>>
BY DEF VNCCallbacks, VNCPeerClose, OnDisconnectVNC, HandleRecvVNCMessage, ParseProxy,
       ParseProxyDisconnect, ParseEnds, LockReturn, ReturnVNC2Client, CloseSessionByVNC,
       CloseRefused, DeleteVNCClient, ClearVNCClient, peer

LEMMA VNCOperations ==
    ASSUME VNCNext
    PROVE  \/ VNCCallbacks
           \/ \E v \in VNCs : AcceptVNC(v)
           \/ \E v \in VNCs : RecvVNCPacket(v)
           \/ \E v \in VNCs : SendCommand(v)
           \/ DisconnectedVNC
           \/ \E h \in VNCHandlers : HandleVNCDone(h)
           \/ \E t \in VThreads : CloseVNCFd(t)
BY DEF VNCNext, VNCSteps, VNCCallbacks

\* What each thread goes on with after an operation: VNCEnds, with its control point.
LEMMA VNCEnding ==
    ASSUME Types, VCloserInv, NEW t \in VThreads, NEW v \in VNCs, pc[t] \notin VClosers,
           VNC!Disconnected(v) \/ VNC!Handled(v) \/ VNC!Sent(v),
           GotoClose(t, v, VNCBegins(v)),
           VNC!Disconnected(v) <=> t = "vmain", t = "vmain" => pc[t] = "decide" /\ work[t] = v
    PROVE  /\ \A u \in VThreads : u # t => pc'[u] = pc[u] /\ work'[u] = work[u]
           /\ pc'[t] \in {"onclose", "idle"}
           /\ pc'[t] = "onclose" <=> vphase'[v] # vphase[v] /\ vphase'[v] = "closing"
           /\ pc'[t] = "onclose" => work'[t] = v
           /\ VCloserInv'
<1>a. VNC!ServiceTypeOK /\ PlaceType /\ ControlInv
  BY TypesUsed DEF TypeParts
<1> USE <1>a, ThreadFacts DEF Threads, VThreads, VCloserInv
<1>1. /\ pc' = [pc EXCEPT ![t] = IF VNCBegins(v) THEN "onclose" ELSE "idle"]
      /\ work' = [work EXCEPT ![t] = IF VNCBegins(v) THEN v ELSE 0]
  BY DEF GotoClose, Goto, Take
<1>2. /\ \A u \in VNCs \ {v} : vphase'[u] = vphase[u]
      /\ VNCBegins(v) <=> vphase'[v] # vphase[v] /\ vphase'[v] = "closing"
      /\ vphase'[v] # vphase[v] => vphase[v] \in {"open", "leaving"}
      /\ vphase[v] = "open" /\ vphase'[v] # "open" => t = "vmain"
  BY VNCEnds
<1>3. \A u \in VThreads : u # t => pc'[u] = pc[u] /\ work'[u] = work[u]
  BY <1>1 DEF PlaceType
<1>4. /\ pc'[t] = IF VNCBegins(v) THEN "onclose" ELSE "idle"
      /\ work'[t] = IF VNCBegins(v) THEN v ELSE 0
  BY <1>1 DEF PlaceType
<1>5. pc'["vmain"] \in {"disconnect", "decide"} => vphase'[work'["vmain"]] = "open"
  BY <1>2, <1>3, <1>4 DEF ControlInv
<1>6. \A u \in VThreads : pc'[u] \in VClosers => vphase'[work'[u]] = "closing"
  BY <1>2, <1>3, <1>4 DEF VClosers, ControlInv
<1>7. \A u, w \in VThreads :
         pc'[u] \in VClosers /\ pc'[w] \in VClosers /\ work'[u] = work'[w] => u = w
  BY <1>2, <1>3, <1>4 DEF VClosers
<1> QED BY <1>2, <1>3, <1>4, <1>5, <1>6, <1>7

\* The threads that end a connection's message satisfy its hypotheses.
LEMMA VNCEnders ==
    ASSUME Types,
           \/ \E v \in VNCs : SendCommand(v)
           \/ DisconnectedVNC
           \/ \E h \in VNCHandlers : HandleVNCDone(h)
    PROVE  \E t \in VThreads, v \in VNCs :
              /\ pc[t] \notin VClosers
              /\ VNC!Disconnected(v) \/ VNC!Handled(v) \/ VNC!Sent(v)
              /\ GotoClose(t, v, VNCBegins(v))
              /\ VNC!Disconnected(v) <=> t = "vmain"
              /\ t = "vmain" => pc[t] = "decide" /\ work[t] = v
              /\ UNCHANGED vnc
<1>a. VNC!ServiceTypeOK /\ PlaceType /\ ControlInv
  BY TypesUsed DEF TypeParts
<1> USE <1>a, ThreadFacts DEF VThreads, VClosers, At
<1> DEFINE Ends(t, v) == /\ pc[t] \notin VClosers
                         /\ VNC!Disconnected(v) \/ VNC!Handled(v) \/ VNC!Sent(v)
                         /\ GotoClose(t, v, VNCBegins(v))
                         /\ VNC!Disconnected(v) <=> t = "vmain"
                         /\ t = "vmain" => pc[t] = "decide" /\ work[t] = v
                         /\ UNCHANGED vnc
<1>1. ASSUME NEW v \in VNCs, SendCommand(v)
      PROVE  Ends("vsend", v)
  <2>1. ~ VNC!Disconnected(v)
    BY <1>1 DEF SendCommand, VNC!Sent, VNC!Disconnected, VNC!ServiceTypeOK, VNC!Conns, VNCs
  <2> QED BY <1>1, <2>1 DEF SendCommand
<1>2. ASSUME DisconnectedVNC
      PROVE  work["vmain"] \in VNCs /\ Ends("vmain", work["vmain"])
  BY <1>2 DEF DisconnectedVNC, ControlInv
<1>3. ASSUME NEW h \in VNCHandlers, HandleVNCDone(h)
      PROVE  work[h] \in VNCs /\ Ends(h, work[h])
  <2>1. work[h] \in VNCs /\ VNC!Handled(work[h])
    BY <1>3 DEF HandleVNCDone, ControlInv
  <2>2. ~ VNC!Disconnected(work[h])
    BY <2>1 DEF VNC!Handled, VNC!Disconnected, VNC!ServiceTypeOK, VNC!Conns, VNCs
  <2> QED BY <1>3, <2>1, <2>2 DEF HandleVNCDone
<1> SUFFICES \E t \in VThreads, v \in VNCs : Ends(t, v)
  OBVIOUS
<1> HIDE DEF Ends
<1> QED BY <1>1, <1>2, <1>3

LEMMA VPhaseStep ==
    ASSUME Types, VPhaseInv, VCloserInv, VNCNext
    PROVE  VPhaseInv'
<1>a. VNC!ServiceTypeOK /\ ControlInv /\ VNCs \subseteq Nat
  BY TypesUsed DEF TypeParts
<1> USE <1>a DEF VPhaseInv
<1>1. CASE VNCCallbacks
  BY <1>1, VNCCallbacksLeave
<1>2. ASSUME NEW v \in VNCs, AcceptVNC(v)
      PROVE  VPhaseInv'
  <2>1. /\ vphase' = [vphase EXCEPT ![v] = "open"] /\ UNCHANGED <<vpackets, vreplies>>
        /\ \A u \in 1 .. v - 1 : vphase[u] # "new"
    BY <1>2 DEF AcceptVNC, VNC!Accepted, VNC!Move
  <2>2. \A u \in VNCs : u < v => vphase[u] # "new"
    BY <2>1 DEF VNCs
  <2> QED BY <2>1, <2>2 DEF VNC!ServiceTypeOK, VNC!Conns, VNCs
<1>3. ASSUME NEW v \in VNCs, RecvVNCPacket(v)
      PROVE  VPhaseInv'
  BY <1>3 DEF RecvVNCPacket, VNC!Received, VNC!ServiceTypeOK, VNC!Conns, VNCs
<1>4. ASSUME NEW v \in VNCs, VNC!Disconnected(v) \/ VNC!Handled(v) \/ VNC!Sent(v)
      PROVE  VPhaseInv'
  <2>1. /\ \A u \in VNCs \ {v} : /\ vphase'[u] = vphase[u] /\ vpackets'[u] = vpackets[u]
                                 /\ vreplies'[u] = vreplies[u]
        /\ vphase'[v] # vphase[v] => /\ vphase[v] \in {"open", "leaving"}
                                     /\ vphase'[v] \in {"leaving", "closing"}
                                     /\ vphase'[v] = "closing" =>
                                           vpackets'[v] = 0 /\ vreplies'[v] = 0
        /\ VNC!Handled(v) => vpackets[v] > 0
        /\ VNC!Sent(v) => vreplies[v] > 0
        /\ VNC!Disconnected(v) => vphase[v] = "open" /\ vphase'[v] # "open"
    BY <1>4, VNCEnds
  <2>2. vphase[v] \in {"open", "leaving"}
    BY <1>4, <2>1
  <2> QED BY <2>1, <2>2
<1>5. ASSUME NEW t \in VThreads, CloseVNCFd(t)
      PROVE  VPhaseInv'
  <2>1. /\ work[t] \in VNCs /\ vphase[work[t]] = "closing"
        /\ vphase' = [vphase EXCEPT ![work[t]] = "closed"] /\ UNCHANGED <<vpackets, vreplies>>
    BY <1>5 DEF CloseVNCFd, VNC!Closed, VNC!Move, ControlInv, At
  <2> QED BY <2>1 DEF VNC!ServiceTypeOK, VNC!Conns, VNCs
<1> QED BY <1>1, <1>2, <1>3, <1>4, <1>5, VNCOperations, VNCEnders

(***************************************************************************)
(* VHandInv and VCloserInv: packets in hand, and who closes.               *)
(***************************************************************************)
LEMMA VHandStep ==
    ASSUME Types, VHandInv, VNCNext
    PROVE  VHandInv'
<1>a. VNC!ServiceTypeOK /\ PlaceType /\ ControlInv
  BY TypesUsed DEF TypeParts
<1>b. vpackets \in [VNCs -> Nat]
  BY <1>a DEF VNC!ServiceTypeOK, VNC!Conns, VNCs
<1> USE <1>a, ThreadFacts DEF Threads, VThreads, At, Goto, Take
<1>1. ASSUME NEW h \in VNCHandlers, NEW v \in VNCs, HandleRecvVNCMessage(h, v)
      PROVE  VHandInv'
  <2>1. /\ pc[h] = "idle" /\ work' = [work EXCEPT ![h] = v]
        /\ pc' = [pc EXCEPT ![h] = "parse"]
        /\ Cardinality(VNCInHand(v)) < vpackets[v] /\ vpackets' = vpackets
    BY <1>1 DEF HandleRecvVNCMessage, peer
  <2>2. /\ VNCInHand(v)' = VNCInHand(v) \cup {h} /\ h \notin VNCInHand(v)
        /\ \A u \in VNCs \ {v} : VNCInHand(u)' = VNCInHand(u)
    BY <2>1 DEF VNCInHand, ParseSteps, PlaceType
  <2>3. Cardinality(VNCInHand(v)') = Cardinality(VNCInHand(v)) + 1
    BY <2>2, HandsFinite, OneMore
  <2>4. Cardinality(VNCInHand(v)') <= vpackets'[v]
    BY <1>b, <2>1, <2>3, HandsFinite
  <2>5. \A u \in VNCs \ {v} : Cardinality(VNCInHand(u)') <= vpackets'[u]
    BY <2>1, <2>2 DEF VHandInv
  <2> QED BY <2>4, <2>5 DEF VHandInv
<1>2. ASSUME NEW h \in VNCHandlers, HandleVNCDone(h)
      PROVE  VHandInv'
  <2>a. PICK v \in VNCs : v = work[h]
    BY <1>2 DEF HandleVNCDone, ControlInv
  <2>1. /\ pc[h] = "done" /\ VNC!Handled(v)
        /\ \E u \in Nat : work' = [work EXCEPT ![h] = u]
        /\ \E to \in {"onclose", "idle"} : pc' = [pc EXCEPT ![h] = to]
    BY <1>2, <2>a DEF HandleVNCDone, GotoClose, PlaceType
  <2>2. /\ VNCInHand(v)' = VNCInHand(v) \ {h} /\ h \in VNCInHand(v)
        /\ \A u \in VNCs \ {v} : VNCInHand(u)' = VNCInHand(u)
    BY <2>a, <2>1 DEF VNCInHand, ParseSteps, PlaceType
  <2>3. Cardinality(VNCInHand(v)') = Cardinality(VNCInHand(v)) - 1
    BY <2>2, HandsFinite, OneLess
  <2>4. /\ vpackets'[v] = vpackets[v] - 1
        /\ \A u \in VNCs \ {v} : vpackets'[u] = vpackets[u]
    BY <2>1, VNCEnds
  <2>5. Cardinality(VNCInHand(v)') <= vpackets'[v]
    BY <1>b, <2>3, <2>4, HandsFinite DEF VHandInv
  <2>6. \A u \in VNCs \ {v} : Cardinality(VNCInHand(u)') <= vpackets'[u]
    BY <2>2, <2>4 DEF VHandInv
  <2> QED BY <2>5, <2>6 DEF VHandInv
<1>3. ASSUME ~ \E h \in VNCHandlers : \/ HandleVNCDone(h)
                                      \/ \E v \in VNCs : HandleRecvVNCMessage(h, v)
      PROVE  VHandInv'
  <2>1. \A v \in VNCs : VNCInHand(v)' = VNCInHand(v)
  <3>1. ASSUME NEW v \in VNCs, AcceptVNC(v)
        PROVE  \A u \in VNCs : VNCInHand(u)' = VNCInHand(u)
    BY <3>1 DEF AcceptVNC, VNCInHand, ParseSteps, PlaceType, ControlInv, VClosers, locals
  <3>2. ASSUME NEW v \in VNCs, VNCPeerClose(v)
        PROVE  \A u \in VNCs : VNCInHand(u)' = VNCInHand(u)
    BY <3>2 DEF VNCPeerClose, VNCInHand, ParseSteps, PlaceType, ControlInv, VClosers, locals
  <3>3. ASSUME NEW v \in VNCs, RecvVNCPacket(v)
        PROVE  \A u \in VNCs : VNCInHand(u)' = VNCInHand(u)
    BY <3>3 DEF RecvVNCPacket, VNCInHand, ParseSteps, PlaceType, ControlInv, VClosers, locals
  <3>4. ASSUME NEW v \in VNCs, OnDisconnectVNC(v)
        PROVE  \A u \in VNCs : VNCInHand(u)' = VNCInHand(u)
    BY <3>4 DEF OnDisconnectVNC, MarkOffline, VNCInHand, ParseSteps, PlaceType, ControlInv,
        VClosers, locals
  <3>5. ASSUME NEW v \in VNCs, SendCommand(v)
        PROVE  \A u \in VNCs : VNCInHand(u)' = VNCInHand(u)
    BY <3>5 DEF SendCommand, GotoClose, VNCInHand, ParseSteps, PlaceType, ControlInv,
        VClosers, locals
  <3>6. CASE DisconnectedVNC
    BY <3>6 DEF DisconnectedVNC, GotoClose, VNCInHand, ParseSteps, PlaceType, ControlInv,
        VClosers, locals
  <3>7. ASSUME NEW h \in VNCHandlers, NEW i \in 1 .. nsent, ParseProxy(h, i)
        PROVE  \A u \in VNCs : VNCInHand(u)' = VNCInHand(u)
    BY <3>7 DEF ParseProxy, VNCInHand, ParseSteps, PlaceType, ControlInv, VClosers, locals
  <3>8. ASSUME NEW h \in VNCHandlers, NEW i \in 1 .. nsent, ParseProxyDisconnect(h, i)
        PROVE  \A u \in VNCs : VNCInHand(u)' = VNCInHand(u)
    BY <3>8 DEF ParseProxyDisconnect, Disconnect, VNCInHand, ParseSteps, PlaceType,
        ControlInv, VClosers, locals
  <3>9. ASSUME NEW h \in VNCHandlers, ParseEnds(h)
        PROVE  \A u \in VNCs : VNCInHand(u)' = VNCInHand(u)
    BY <3>9 DEF ParseEnds, Release, VNCInHand, ParseSteps, PlaceType, ControlInv, VClosers,
        locals
  <3>10. ASSUME NEW t \in VThreads, LockReturn(t)
        PROVE  \A u \in VNCs : VNCInHand(u)' = VNCInHand(u)
    BY <3>10 DEF LockReturn, Acquire, IsFree, VNCInHand, ParseSteps, PlaceType, ControlInv,
        VClosers, locals
  <3>11. ASSUME NEW t \in VThreads, ReturnVNC2Client(t)
        PROVE  \A u \in VNCs : VNCInHand(u)' = VNCInHand(u)
    BY <3>11 DEF ReturnVNC2Client, Release, VNCInHand, ParseSteps, PlaceType, ControlInv,
        VClosers, locals
  <3>12. ASSUME NEW t \in VThreads, CloseSessionByVNC(t)
        PROVE  \A u \in VNCs : VNCInHand(u)' = VNCInHand(u)
    BY <3>12 DEF CloseSessionByVNC, IsFree, ShutAllClients, VNCInHand, ParseSteps, PlaceType,
        ControlInv, VClosers, locals
  <3>13. ASSUME NEW t \in VThreads, CloseRefused(t)
        PROVE  \A u \in VNCs : VNCInHand(u)' = VNCInHand(u)
    BY <3>13 DEF CloseRefused, VNCInHand, ParseSteps, PlaceType, ControlInv, VClosers, locals
  <3>14. ASSUME NEW t \in VThreads, DeleteVNCClient(t)
        PROVE  \A u \in VNCs : VNCInHand(u)' = VNCInHand(u)
    BY <3>14 DEF DeleteVNCClient, VNCInHand, ParseSteps, PlaceType, ControlInv, VClosers,
        locals
  <3>15. ASSUME NEW t \in VThreads, ClearVNCClient(t)
        PROVE  \A u \in VNCs : VNCInHand(u)' = VNCInHand(u)
    BY <3>15 DEF ClearVNCClient, ClearPointer, VNCInHand, ParseSteps, PlaceType, ControlInv,
        VClosers, locals
  <3>16. ASSUME NEW t \in VThreads, CloseVNCFd(t)
        PROVE  \A u \in VNCs : VNCInHand(u)' = VNCInHand(u)
    BY <3>16 DEF CloseVNCFd, GotoClose, VNCInHand, ParseSteps, PlaceType, ControlInv,
        VClosers, locals
    <3> QED BY <1>3, <3>1, <3>2, <3>3, <3>4, <3>5, <3>6, <3>7, <3>8, <3>9, <3>10, <3>11, <3>12,
        <3>13, <3>14, <3>15, <3>16 DEF VNCNext, VNCSteps
  <2> DEFINE More == \A v \in VNCs : vpackets[v] \in Nat /\ vpackets'[v] \in Nat
                                     /\ vpackets'[v] >= vpackets[v]
  <2>2. More
    <3>1. CASE VNCCallbacks
      BY <1>b, <3>1, VNCCallbacksLeave
    <3>2. ASSUME NEW v \in VNCs, AcceptVNC(v)
          PROVE  More
      BY <1>b, <3>2 DEF AcceptVNC, VNC!Accepted
    <3>3. ASSUME NEW v \in VNCs, RecvVNCPacket(v)
          PROVE  More
      BY <1>b, <3>3 DEF RecvVNCPacket, VNC!Received
    <3>4. ASSUME NEW v \in VNCs, SendCommand(v)
          PROVE  More
      BY <1>b, <3>4 DEF SendCommand, VNC!Sent
    <3>5. CASE DisconnectedVNC
      BY <1>b, <3>5 DEF DisconnectedVNC, VNC!Disconnected
    <3>6. ASSUME NEW t \in VThreads, CloseVNCFd(t)
          PROVE  More
      BY <1>b, <3>6 DEF CloseVNCFd, VNC!Closed
    <3> HIDE DEF More
    <3> QED BY <1>3, <3>1, <3>2, <3>3, <3>4, <3>5, <3>6, VNCOperations
  <2> QED BY <2>1, <2>2, HandsFinite DEF VHandInv
<1> QED BY <1>1, <1>2, <1>3

LEMMA VCloserStep ==
    ASSUME Types, VCloserInv, RefusedInv, VNCNext
    PROVE  VCloserInv'
<1>a. VNC!ServiceTypeOK /\ PlaceType /\ ControlInv
  BY TypesUsed DEF TypeParts
<1> USE <1>a, ThreadFacts DEF PlaceType, Threads, VThreads, peer, vnc, locals, At, Goto, Take
<1>1. ASSUME NEW v \in VNCs, AcceptVNC(v)
      PROVE  VCloserInv'
  <2>1. /\ vphase[v] = "new" /\ vphase' = [vphase EXCEPT ![v] = "open"] /\ pc["vmain"] = "idle"
        /\ \/ pc' = pc /\ work' = work
           \/ pc' = [pc EXCEPT !["vmain"] = "disconnect"] /\ work' = [work EXCEPT !["vmain"] = v]
    BY <1>1 DEF AcceptVNC, VNC!Accepted, VNC!Move
  <2> QED BY <2>1 DEF VCloserInv, VClosers, VNC!ServiceTypeOK, VNC!Conns, VNCs, ControlInv
<1>2. ASSUME NEW v \in VNCs, VNCPeerClose(v)
      PROVE  VCloserInv'
  BY <1>2 DEF VNCPeerClose, VCloserInv, VClosers, ParseSteps, ControlInv
<1>3. ASSUME NEW v \in VNCs, RecvVNCPacket(v)
      PROVE  VCloserInv'
  BY <1>3 DEF RecvVNCPacket, VNC!Received, VCloserInv
<1>4. ASSUME NEW v \in VNCs, OnDisconnectVNC(v)
      PROVE  VCloserInv'
  BY <1>4 DEF OnDisconnectVNC, MarkOffline, VCloserInv, VClosers, ParseSteps, ControlInv
<1>5. ASSUME NEW h \in VNCHandlers, NEW v \in VNCs, HandleRecvVNCMessage(h, v)
      PROVE  VCloserInv'
  BY <1>5 DEF HandleRecvVNCMessage, Acquire, IsFree, VCloserInv, VClosers, ParseSteps,
      ControlInv
<1>6. ASSUME NEW h \in VNCHandlers, NEW i \in 1 .. nsent, ParseProxy(h, i)
      PROVE  VCloserInv'
  BY <1>6 DEF ParseProxy, VCloserInv, VClosers, ParseSteps, ControlInv
<1>7. ASSUME NEW h \in VNCHandlers, NEW i \in 1 .. nsent, ParseProxyDisconnect(h, i)
      PROVE  VCloserInv'
  BY <1>7 DEF ParseProxyDisconnect, Disconnect, VCloserInv, VClosers, ParseSteps, ControlInv
<1>8. ASSUME NEW h \in VNCHandlers, ParseEnds(h)
      PROVE  VCloserInv'
  BY <1>8 DEF ParseEnds, Release, VCloserInv, VClosers, ParseSteps, ControlInv
<1>9. ASSUME NEW t \in VThreads, LockReturn(t)
      PROVE  VCloserInv'
  BY <1>9 DEF LockReturn, Acquire, IsFree, VCloserInv, VClosers, ParseSteps, ControlInv
<1>10. ASSUME NEW t \in VThreads, ReturnVNC2Client(t)
      PROVE  VCloserInv'
  BY <1>10 DEF ReturnVNC2Client, Release, VCloserInv, VClosers, ParseSteps, ControlInv
<1>11. ASSUME NEW t \in VThreads, CloseSessionByVNC(t)
      PROVE  VCloserInv'
  BY <1>11 DEF CloseSessionByVNC, IsFree, ShutAllClients, VCloserInv, VClosers, ParseSteps,
      ControlInv
<1>12. ASSUME NEW t \in VThreads, CloseRefused(t)
      PROVE  VCloserInv'
  BY <1>12 DEF CloseRefused, VCloserInv, VClosers, ParseSteps, ControlInv
<1>13. ASSUME NEW t \in VThreads, DeleteVNCClient(t)
      PROVE  VCloserInv'
  BY <1>13 DEF DeleteVNCClient, VCloserInv, VClosers, ParseSteps, ControlInv
<1>14. ASSUME NEW t \in VThreads, ClearVNCClient(t)
      PROVE  VCloserInv'
  BY <1>14 DEF ClearVNCClient, ClearPointer, VCloserInv, VClosers, ParseSteps, ControlInv
<1>15. ASSUME NEW t \in VThreads, CloseVNCFd(t)
      PROVE  VCloserInv'
  <2>1. /\ pc[t] \in VClosers /\ work[t] \in VNCs
        /\ pc' = [pc EXCEPT ![t] = "idle"] /\ work' = [work EXCEPT ![t] = 0]
        /\ vphase' = [vphase EXCEPT ![work[t]] = "closed"]
    BY <1>15 DEF CloseVNCFd, GotoClose, VClosers, ControlInv, VNC!Closed, VNC!Move
  <2>2. \A u \in VNCs : vphase'[u] = IF u = work[t] THEN "closed" ELSE vphase[u]
    BY <2>1 DEF VNC!ServiceTypeOK, VNC!Conns, VNCs
  <2>3. \A u \in VThreads : pc'[u] \in VClosers => u # t /\ work[u] # work[t]
    BY <2>1 DEF VCloserInv, VClosers
  <2>4. vphase[work[t]] = "closing"
    BY <2>1 DEF VCloserInv
  <2>5. pc'["vmain"] \in {"disconnect", "decide"} => vphase'[work'["vmain"]] = "open"
    BY <2>1, <2>2, <2>4 DEF VCloserInv, ControlInv
  <2>6. \A u \in VThreads : pc'[u] \in VClosers => vphase'[work'[u]] = "closing"
    BY <2>1, <2>2, <2>3 DEF VCloserInv, ControlInv, VClosers
  <2>7. \A u, w \in VThreads :
           pc'[u] \in VClosers /\ pc'[w] \in VClosers /\ work'[u] = work'[w] => u = w
    BY <2>1, <2>3 DEF VCloserInv
  <2> QED BY <2>5, <2>6, <2>7 DEF VCloserInv
<1>16. ASSUME \/ \E v \in VNCs : SendCommand(v)
              \/ DisconnectedVNC
              \/ \E h \in VNCHandlers : HandleVNCDone(h)
       PROVE  VCloserInv'
  <2>1. PICK t \in VThreads, v \in VNCs :
           /\ pc[t] \notin VClosers
           /\ VNC!Disconnected(v) \/ VNC!Handled(v) \/ VNC!Sent(v)
           /\ GotoClose(t, v, VNCBegins(v))
           /\ VNC!Disconnected(v) <=> t = "vmain"
           /\ t = "vmain" => pc[t] = "decide" /\ work[t] = v
           /\ UNCHANGED vnc
    BY <1>16, VNCEnders
  <2> QED BY <2>1, VNCEnding
<1> QED BY <1>1, <1>2, <1>3, <1>4, <1>5, <1>6, <1>7, <1>8, <1>9, <1>10, <1>11, <1>12, <1>13,
    <1>14, <1>15, <1>16 DEF VNCNext, VNCSteps

(***************************************************************************)
(* PointerInv and RefusedInv: mpVNCClient.                                 *)
(***************************************************************************)
LEMMA PointerStep ==
    ASSUME Types, VPhaseInv, VCloserInv, PointerInv, VNCNext
    PROVE  PointerInv'
<1>a. VNC!ServiceTypeOK /\ PlaceType /\ VncType /\ ControlInv /\ VNCs \subseteq Nat
  BY TypesUsed DEF TypeParts
<1>b. 0 \notin VNCs
  BY DEF VNCs
<1> USE <1>a, <1>b, ThreadFacts DEF PlaceType, Threads, VThreads, peer, vnc, locals, At, Goto, Take
<1>1. ASSUME NEW v \in VNCs, AcceptVNC(v)
      PROVE  PointerInv'
  <2>1. /\ vphase[v] = "new" /\ vphase' = [vphase EXCEPT ![v] = "open"] /\ pc["vmain"] = "idle"
        /\ \/ /\ mpVNCClient = 0 /\ mpVNCClient' = v /\ alive' = alive \cup {v}
              /\ pc' = pc /\ work' = work
           \/ /\ UNCHANGED <<mpVNCClient, alive>>
              /\ pc' = [pc EXCEPT !["vmain"] = "disconnect"] /\ work' = [work EXCEPT !["vmain"] = v]
    BY <1>1 DEF AcceptVNC, VNC!Accepted, VNC!Move
  <2>2. \A u \in VNCs : vphase'[u] = IF u = v THEN "open" ELSE vphase[u]
    BY <2>1 DEF VNC!ServiceTypeOK, VNC!Conns, VNCs
  <2>3. \A t \in VThreads : pc[t] \in VClosers => work[t] \in VNCs \ {v}
    BY <2>1 DEF VCloserInv, ControlInv, VClosers
  <2>4. CASE mpVNCClient' = v /\ pc' = pc /\ work' = work /\ mpVNCClient = 0 /\ alive' = alive \cup {v}
    BY <2>2, <2>3, <2>4 DEF PointerInv, VClosers
  <2>5. CASE /\ UNCHANGED <<mpVNCClient, alive>>
             /\ pc' = [pc EXCEPT !["vmain"] = "disconnect"] /\ work' = [work EXCEPT !["vmain"] = v]
    <3>1. \A t \in VThreads : pc'[t] \in VClosers => pc'[t] = pc[t] /\ work'[t] = work[t]
      BY <2>5 DEF VClosers
    <3>2. \A t \in VThreads : pc[t] \in VClosers => pc'[t] = pc[t]
      BY <2>1, <2>5 DEF VClosers
    <3>3. mpVNCClient' \notin alive' \cup {0} => \E t \in VThreads : pc'[t] = "null"
      BY <2>5, <3>2 DEF PointerInv, VClosers
    <3>4. mpVNCClient' # 0 => vphase'[mpVNCClient'] \notin {"new", "closed"}
      BY <2>2, <2>5 DEF PointerInv, VncType, VNCs
    <3> QED BY <2>5, <3>1, <3>3, <3>4 DEF PointerInv, VClosers
  <2> QED BY <2>1, <2>4, <2>5
<1>2. ASSUME NEW v \in VNCs, VNCPeerClose(v)
      PROVE  PointerInv'
  BY <1>2 DEF VNCPeerClose, PointerInv, VClosers, ParseSteps, ControlInv
<1>3. ASSUME NEW v \in VNCs, RecvVNCPacket(v)
      PROVE  PointerInv'
  BY <1>3 DEF RecvVNCPacket, VNC!Received, PointerInv
<1>4. ASSUME NEW v \in VNCs, OnDisconnectVNC(v)
      PROVE  PointerInv'
  BY <1>4 DEF OnDisconnectVNC, MarkOffline, PointerInv, VClosers, ParseSteps, ControlInv
<1>5. ASSUME NEW h \in VNCHandlers, NEW v \in VNCs, HandleRecvVNCMessage(h, v)
      PROVE  PointerInv'
  BY <1>5 DEF HandleRecvVNCMessage, Acquire, IsFree, PointerInv, VClosers, ParseSteps,
      ControlInv
<1>6. ASSUME NEW h \in VNCHandlers, NEW i \in 1 .. nsent, ParseProxy(h, i)
      PROVE  PointerInv'
  BY <1>6 DEF ParseProxy, PointerInv, VClosers, ParseSteps, ControlInv
<1>7. ASSUME NEW h \in VNCHandlers, NEW i \in 1 .. nsent, ParseProxyDisconnect(h, i)
      PROVE  PointerInv'
  BY <1>7 DEF ParseProxyDisconnect, Disconnect, PointerInv, VClosers, ParseSteps, ControlInv
<1>8. ASSUME NEW h \in VNCHandlers, ParseEnds(h)
      PROVE  PointerInv'
  BY <1>8 DEF ParseEnds, Release, PointerInv, VClosers, ParseSteps, ControlInv
<1>9. ASSUME NEW t \in VThreads, LockReturn(t)
      PROVE  PointerInv'
  BY <1>9 DEF LockReturn, Acquire, IsFree, PointerInv, VClosers, ParseSteps, ControlInv
<1>10. ASSUME NEW t \in VThreads, ReturnVNC2Client(t)
      PROVE  PointerInv'
  BY <1>10 DEF ReturnVNC2Client, Release, PointerInv, VClosers, ParseSteps, ControlInv
<1>11. ASSUME NEW t \in VThreads, CloseSessionByVNC(t)
      PROVE  PointerInv'
  BY <1>11 DEF CloseSessionByVNC, IsFree, ShutAllClients, PointerInv, VClosers, ParseSteps,
      ControlInv
<1>12. ASSUME NEW t \in VThreads, CloseRefused(t)
      PROVE  PointerInv'
  BY <1>12 DEF CloseRefused, PointerInv, VClosers, ParseSteps, ControlInv
<1>13. ASSUME NEW t \in VThreads, DeleteVNCClient(t)
      PROVE  PointerInv'
  <2>1. /\ pc[t] = "delete" /\ pc' = [pc EXCEPT ![t] = "null"] /\ work' = work
        /\ UNCHANGED <<mpVNCClient, vphase>>
    BY <1>13 DEF DeleteVNCClient
  <2>2. pc'[t] = "null"
    BY <2>1
  <2> QED BY <2>1, <2>2 DEF PointerInv
<1>14. ASSUME NEW t \in VThreads, ClearVNCClient(t)
      PROVE  PointerInv'
  <2>1. /\ pc[t] = "null" /\ pc' = [pc EXCEPT ![t] = "close"] /\ work' = work
        /\ mpVNCClient' = 0
    BY <1>14 DEF ClearVNCClient, ClearPointer
  <2>2. \A u \in VThreads : u # t => pc[u] \notin {"delete", "null"}
    BY <2>1 DEF PointerInv, VCloserInv, VClosers
  <2>3. \A u \in VThreads : pc'[u] # "idle" => work'[u] \in VNCs
    BY <2>1 DEF ControlInv
  <2> QED BY <2>1, <2>2, <2>3 DEF PointerInv
<1>15. ASSUME NEW t \in VThreads, CloseVNCFd(t)
      PROVE  PointerInv'
  <2>1. /\ pc[t] = "close" /\ work[t] \in VNCs
        /\ pc' = [pc EXCEPT ![t] = "idle"] /\ work' = [work EXCEPT ![t] = 0]
        /\ vphase' = [vphase EXCEPT ![work[t]] = "closed"] /\ UNCHANGED vnc
    BY <1>15 DEF CloseVNCFd, GotoClose, ControlInv, VNC!Closed, VNC!Move
  <2>2. \A u \in VNCs : vphase'[u] = IF u = work[t] THEN "closed" ELSE vphase[u]
    BY <2>1 DEF VNC!ServiceTypeOK, VNC!Conns, VNCs
  <2>3. mpVNCClient # work[t]
    BY <2>1 DEF PointerInv
  <2>4. mpVNCClient' # 0 => vphase'[mpVNCClient'] \notin {"new", "closed"}
    BY <2>1, <2>2, <2>3 DEF PointerInv, VncType, VNCs
  <2>5. \A u \in VThreads : pc'[u] # "idle" => pc'[u] = pc[u] /\ work'[u] = work[u]
    BY <2>1
  <2>6. mpVNCClient' \notin alive' \cup {0} => \E u \in VThreads : pc'[u] = "null"
    BY <2>1 DEF PointerInv
  <2> QED BY <2>1, <2>4, <2>5, <2>6 DEF PointerInv
<1>16. ASSUME \/ \E v \in VNCs : SendCommand(v)
              \/ DisconnectedVNC
              \/ \E h \in VNCHandlers : HandleVNCDone(h)
       PROVE  PointerInv'
  <2>1. PICK t \in VThreads, v \in VNCs :
           /\ pc[t] \notin VClosers
           /\ VNC!Disconnected(v) \/ VNC!Handled(v) \/ VNC!Sent(v)
           /\ GotoClose(t, v, VNCBegins(v))
           /\ VNC!Disconnected(v) <=> t = "vmain"
           /\ t = "vmain" => pc[t] = "decide" /\ work[t] = v
           /\ UNCHANGED vnc
    BY <1>16, VNCEnders
  <2>2. /\ \A u \in VThreads : u # t => pc'[u] = pc[u] /\ work'[u] = work[u]
        /\ pc'[t] \in {"onclose", "idle"}
    BY <2>1, VNCEnding
  <2>3. /\ \A u \in VNCs \ {v} : vphase'[u] = vphase[u]
        /\ vphase'[v] # vphase[v] => vphase'[v] \in {"leaving", "closing"}
    BY <2>1, VNCEnds
  <2>4. mpVNCClient' # 0 => vphase'[mpVNCClient'] \notin {"new", "closed"}
    BY <2>1, <2>3 DEF PointerInv, VncType, VNCs
  <2>5. mpVNCClient' \notin alive' \cup {0} => \E u \in VThreads : pc'[u] = "null"
    BY <2>1, <2>2 DEF PointerInv, VClosers
  <2> QED BY <2>1, <2>2, <2>4, <2>5 DEF PointerInv
<1> QED BY <1>1, <1>2, <1>3, <1>4, <1>5, <1>6, <1>7, <1>8, <1>9, <1>10, <1>11, <1>12, <1>13,
    <1>14, <1>15, <1>16 DEF VNCNext, VNCSteps

LEMMA RefusedStep ==
    ASSUME Types, VPhaseInv, VCloserInv, PointerInv, RefusedInv, VNCNext
    PROVE  RefusedInv'
<1>a. VNC!ServiceTypeOK /\ PlaceType /\ VncType /\ ControlInv /\ VNCs \subseteq Nat
  BY TypesUsed DEF TypeParts
<1>b. 0 \notin VNCs
  BY DEF VNCs
<1> USE <1>a, <1>b, ThreadFacts DEF PlaceType, Threads, VThreads, peer, vnc, locals, At, Goto, Take
<1>1. ASSUME NEW v \in VNCs, AcceptVNC(v)
      PROVE  RefusedInv'
  <2>1. /\ vphase[v] = "new" /\ vphase' = [vphase EXCEPT ![v] = "open"] /\ pc["vmain"] = "idle"
        /\ UNCHANGED <<vpackets, vreplies>>
        /\ \/ mpVNCClient = 0 /\ mpVNCClient' = v
           \/ /\ mpVNCClient' = mpVNCClient
              /\ pc' = [pc EXCEPT !["vmain"] = "disconnect"] /\ work' = [work EXCEPT !["vmain"] = v]
    BY <1>1 DEF AcceptVNC, VNC!Accepted, VNC!Move
  <2>2. /\ vphase'[v] = "open" /\ vpackets'[v] = 0 /\ vreplies'[v] = 0
        /\ \A u \in VNCs \ {v} : vphase'[u] = vphase[u]
    BY <2>1 DEF VNC!ServiceTypeOK, VNC!Conns, VNCs, VPhaseInv
  <2>3. \A u \in VNCs : vphase[u] \in {"open", "leaving"} => u = mpVNCClient
    BY <2>1 DEF RefusedInv
  <2> QED BY <2>1, <2>2, <2>3 DEF RefusedInv
<1>2. ASSUME NEW v \in VNCs, VNCPeerClose(v)
      PROVE  RefusedInv'
  BY <1>2 DEF VNCPeerClose, RefusedInv, ParseSteps, ControlInv, VClosers
<1>3. ASSUME NEW v \in VNCs, RecvVNCPacket(v)
      PROVE  RefusedInv'
  <2>1. pc["vmain"] = "idle" /\ UNCHANGED <<vphase, mpVNCClient>>
    BY <1>3 DEF RecvVNCPacket, VNC!Received
  <2> QED BY <2>1 DEF RefusedInv
<1>4. ASSUME NEW v \in VNCs, OnDisconnectVNC(v)
      PROVE  RefusedInv'
  <2>1. /\ pc' = [pc EXCEPT !["vmain"] = "decide"] /\ work' = [work EXCEPT !["vmain"] = v]
        /\ UNCHANGED <<vphase, vpackets, vreplies, mpVNCClient>>
    BY <1>4 DEF OnDisconnectVNC
  <2>2. \/ pc["vmain"] = "idle"
        \/ pc["vmain"] = "disconnect" /\ work["vmain"] = v
    BY <1>4 DEF OnDisconnectVNC
  <2> QED BY <2>1, <2>2 DEF RefusedInv
<1>5. ASSUME NEW h \in VNCHandlers, NEW v \in VNCs, HandleRecvVNCMessage(h, v)
      PROVE  RefusedInv'
  BY <1>5 DEF HandleRecvVNCMessage, Acquire, IsFree, RefusedInv, ParseSteps, ControlInv,
      VClosers
<1>6. ASSUME NEW h \in VNCHandlers, NEW i \in 1 .. nsent, ParseProxy(h, i)
      PROVE  RefusedInv'
  BY <1>6 DEF ParseProxy, RefusedInv, ParseSteps, ControlInv, VClosers
<1>7. ASSUME NEW h \in VNCHandlers, NEW i \in 1 .. nsent, ParseProxyDisconnect(h, i)
      PROVE  RefusedInv'
  BY <1>7 DEF ParseProxyDisconnect, Disconnect, RefusedInv, ParseSteps, ControlInv, VClosers
<1>8. ASSUME NEW h \in VNCHandlers, ParseEnds(h)
      PROVE  RefusedInv'
  BY <1>8 DEF ParseEnds, Release, RefusedInv, ParseSteps, ControlInv, VClosers
<1>9. ASSUME NEW t \in VThreads, LockReturn(t)
      PROVE  RefusedInv'
  BY <1>9 DEF LockReturn, Acquire, IsFree, RefusedInv, ParseSteps, ControlInv, VClosers
<1>10. ASSUME NEW t \in VThreads, ReturnVNC2Client(t)
      PROVE  RefusedInv'
  BY <1>10 DEF ReturnVNC2Client, Release, RefusedInv, ParseSteps, ControlInv, VClosers
<1>11. ASSUME NEW t \in VThreads, CloseSessionByVNC(t)
      PROVE  RefusedInv'
  BY <1>11 DEF CloseSessionByVNC, IsFree, ShutAllClients, RefusedInv, ParseSteps,
      ControlInv, VClosers
<1>12. ASSUME NEW t \in VThreads, CloseRefused(t)
      PROVE  RefusedInv'
  BY <1>12 DEF CloseRefused, RefusedInv, ParseSteps, ControlInv, VClosers
<1>13. ASSUME NEW t \in VThreads, DeleteVNCClient(t)
      PROVE  RefusedInv'
  BY <1>13 DEF DeleteVNCClient, RefusedInv, ParseSteps, ControlInv, VClosers
<1>14. ASSUME NEW t \in VThreads, ClearVNCClient(t)
      PROVE  RefusedInv'
  <2>1. /\ pc[t] = "null" /\ pc' = [pc EXCEPT ![t] = "close"] /\ work' = work
        /\ mpVNCClient' = 0 /\ UNCHANGED <<vphase, vpackets, vreplies>>
    BY <1>14 DEF ClearVNCClient, ClearPointer
  <2>2. vphase[mpVNCClient] = "closing"
    BY <2>1 DEF PointerInv, VCloserInv, VClosers
  <2> QED BY <2>1, <2>2 DEF RefusedInv
<1>15. ASSUME NEW t \in VThreads, CloseVNCFd(t)
      PROVE  RefusedInv'
  <2>1. /\ pc[t] = "close" /\ work[t] \in VNCs /\ mpVNCClient' = mpVNCClient
        /\ pc' = [pc EXCEPT ![t] = "idle"] /\ work' = [work EXCEPT ![t] = 0]
        /\ vphase' = [vphase EXCEPT ![work[t]] = "closed"] /\ UNCHANGED <<vpackets, vreplies>>
    BY <1>15 DEF CloseVNCFd, GotoClose, ControlInv, VNC!Closed, VNC!Move
  <2>2. \A u \in VNCs : vphase'[u] = IF u = work[t] THEN "closed" ELSE vphase[u]
    BY <2>1 DEF VNC!ServiceTypeOK, VNC!Conns, VNCs
  <2>3. pc["vmain"] \in {"disconnect", "decide"} =>
           pc'["vmain"] = pc["vmain"] /\ work'["vmain"] = work["vmain"]
    BY <2>1
  <2> QED BY <2>1, <2>2, <2>3 DEF RefusedInv
<1>16. ASSUME \/ \E v \in VNCs : SendCommand(v)
              \/ DisconnectedVNC
              \/ \E h \in VNCHandlers : HandleVNCDone(h)
       PROVE  RefusedInv'
  <2>1. PICK t \in VThreads, v \in VNCs :
           /\ pc[t] \notin VClosers
           /\ VNC!Disconnected(v) \/ VNC!Handled(v) \/ VNC!Sent(v)
           /\ GotoClose(t, v, VNCBegins(v))
           /\ VNC!Disconnected(v) <=> t = "vmain"
           /\ t = "vmain" => pc[t] = "decide" /\ work[t] = v
           /\ UNCHANGED vnc
    BY <1>16, VNCEnders
  <2>2. /\ \A u \in VThreads : u # t => pc'[u] = pc[u] /\ work'[u] = work[u]
    BY <2>1, VNCEnding
  <2>3. /\ \A u \in VNCs \ {v} : /\ vphase'[u] = vphase[u] /\ vpackets'[u] = vpackets[u]
                                 /\ vreplies'[u] = vreplies[u]
        /\ vphase'[v] = "leaving" /\ vphase'[v] # vphase[v] => vpackets[v] + vreplies[v] # 0
        /\ VNC!Handled(v) => vpackets[v] > 0
        /\ VNC!Sent(v) => vreplies[v] > 0
        /\ VNC!Disconnected(v) => vphase[v] = "open" /\ vphase'[v] # "open"
        /\ vphase'[v] # vphase[v] => vphase'[v] \in {"leaving", "closing"}
    BY <2>1, VNCEnds
  <2>4. CASE t = "vmain"
    <3>1. \A u \in VNCs \ {v} : vphase[u] \in {"open", "leaving"} => u = mpVNCClient
      BY <2>1, <2>4 DEF RefusedInv
    <3>2. v # mpVNCClient => vphase'[v] \notin {"open", "leaving"}
      BY <2>1, <2>3, <2>4 DEF RefusedInv
    <3> QED BY <2>1, <2>3, <3>1, <3>2 DEF RefusedInv
  <2>5. CASE t # "vmain"
    <3>1. v # mpVNCClient => vphase[v] \notin {"open", "leaving"}
      BY <2>1, <2>3, <2>5 DEF RefusedInv
    <3>2. v # mpVNCClient => vphase'[v] \notin {"open", "leaving"}
      BY <2>1, <2>3, <2>5, <3>1, VNCEnds DEF VPhaseInv
    <3> QED BY <2>1, <2>2, <2>3, <2>5, <3>2 DEF RefusedInv
  <2> QED BY <2>4, <2>5
<1> QED BY <1>1, <1>2, <1>3, <1>4, <1>5, <1>6, <1>7, <1>8, <1>9, <1>10, <1>11, <1>12, <1>13,
    <1>14, <1>15, <1>16 DEF VNCNext, VNCSteps

-----------------------------------------------------------------------------

(***************************************************************************)
(* The browsers' threads leave the peer's connections alone, except that   *)
(* they queue messages on the one mpVNCClient points to.                   *)
(***************************************************************************)
LEMMA PeerInvKept ==
    ASSUME Types, PeerInv, BrowserNext
    PROVE  PeerInv'
<1>a. /\ UNCHANGED <<mpVNCClient, alive, vphase, vpackets>>
      /\ \A t \in VThreads : pc'[t] = pc[t] /\ work'[t] = work[t]
      /\ \A v \in VNCs : \/ vreplies'[v] = vreplies[v]
                         \/ v = mpVNCClient /\ vphase[v] \in {"open", "leaving"}
  BY BrowsersLeave DEF vnc
<1> USE <1>a DEF PeerInv, VThreads
<1>1. VPhaseInv'
  BY DEF VPhaseInv
<1>2. \A v \in VNCs : VNCInHand(v)' = VNCInHand(v)
  BY DEF VNCInHand
<1>3. VHandInv'
  BY <1>2 DEF VHandInv
<1>4. VCloserInv'
  BY DEF VCloserInv
<1>5. PointerInv'
  BY DEF PointerInv
<1>6. RefusedInv'
  BY DEF RefusedInv
<1> QED BY <1>1, <1>3, <1>4, <1>5, <1>6

(***************************************************************************)
(* What each side changes of the commands and what belongs to them.        *)
(***************************************************************************)
LEMMA RacesGrow ==
    ASSUME Next
    PROVE  races \subseteq races'
<1>1. CASE BrowserNext
  <2>1. ASSUME NEW f \in Fds, Accept(f)
        PROVE  races \subseteq races'
    BY <2>1 DEF Accept, IsFree
  <2>2. ASSUME NEW c \in Accepted, PeerClose(c)
        PROVE  races \subseteq races'
    BY <2>2 DEF PeerClose
  <2>3. ASSUME NEW c \in Accepted, RecvPacket(c)
        PROVE  races \subseteq races'
    BY <2>3 DEF RecvPacket
  <2>4. ASSUME NEW c \in Accepted, OnDisconnect(c)
        PROVE  races \subseteq races'
    BY <2>4 DEF OnDisconnect, Acquire, IsFree
  <2>5. ASSUME NEW c \in Accepted, SendReply(c)
        PROVE  races \subseteq races'
    BY <2>5 DEF SendReply, GotoClose
  <2>6. CASE Disconnected
    BY <2>6 DEF Disconnected, GotoClose
  <2>7. ASSUME NEW h \in Handlers, HandleDone(h)
        PROVE  races \subseteq races'
    BY <2>7 DEF HandleDone, GotoClose
  <2>8. ASSUME NEW h \in Handlers, NEW c \in Accepted, HandleRecvMessage(h, c)
        PROVE  races \subseteq races'
    BY <2>8 DEF HandleRecvMessage, IsFree
  <2>9. ASSUME NEW t \in BThreads, CheckOnline(t)
        PROVE  races \subseteq races'
    BY <2>9 DEF CheckOnline
  <2>10. ASSUME NEW t \in BThreads, SendFails(t)
        PROVE  races \subseteq races'
    BY <2>10 DEF SendFails, SendEnds, Release
  <2>11. ASSUME NEW t \in BThreads, AddSeq(t)
        PROVE  races \subseteq races'
    BY <2>11 DEF AddSeq, IsFree, Usable
  <2>12. ASSUME NEW t \in BThreads, LockSessions(t)
        PROVE  races \subseteq races'
    BY <2>12 DEF LockSessions, Acquire, IsFree
  <2>13. ASSUME NEW t \in BThreads, SendMessageByQueue(t)
        PROVE  races \subseteq races'
    BY <2>13 DEF SendMessageByQueue, SendEnds, Release, Usable
  <2>14. ASSUME NEW t \in BThreads, LoseVNCClient(t)
        PROVE  races \subseteq races'
    BY <2>14 DEF LoseVNCClient
  <2>15. ASSUME NEW t \in BThreads, OnClose(t)
        PROVE  races \subseteq races'
    BY <2>15 DEF OnClose, IsFree
  <2>16. ASSUME NEW t \in BThreads, CloseSessionByClient(t)
        PROVE  races \subseteq races'
    BY <2>16 DEF CloseSessionByClient, Acquire, IsFree
  <2>17. ASSUME NEW t \in BThreads, EraseClient(t)
        PROVE  races \subseteq races'
    BY <2>17 DEF EraseClient, EraseSession, Release
  <2>18. ASSUME NEW t \in BThreads, CloseFd(t)
        PROVE  races \subseteq races'
    BY <2>18 DEF CloseFd, GotoClose
  <2> QED BY <1>1, <2>1, <2>2, <2>3, <2>4, <2>5, <2>6, <2>7, <2>8, <2>9, <2>10, <2>11, <2>12,
      <2>13, <2>14, <2>15, <2>16, <2>17, <2>18 DEF BrowserNext, BrowserSteps
<1>2. CASE VNCNext
  <2>1. ASSUME NEW v \in VNCs, AcceptVNC(v)
        PROVE  races \subseteq races'
    BY <2>1 DEF AcceptVNC
  <2>2. ASSUME NEW v \in VNCs, VNCPeerClose(v)
        PROVE  races \subseteq races'
    BY <2>2 DEF VNCPeerClose
  <2>3. ASSUME NEW v \in VNCs, RecvVNCPacket(v)
        PROVE  races \subseteq races'
    BY <2>3 DEF RecvVNCPacket
  <2>4. ASSUME NEW v \in VNCs, OnDisconnectVNC(v)
        PROVE  races \subseteq races'
    BY <2>4 DEF OnDisconnectVNC, MarkOffline
  <2>5. ASSUME NEW v \in VNCs, SendCommand(v)
        PROVE  races \subseteq races'
    BY <2>5 DEF SendCommand, GotoClose
  <2>6. CASE DisconnectedVNC
    BY <2>6 DEF DisconnectedVNC, GotoClose
  <2>7. ASSUME NEW h \in VNCHandlers, NEW v \in VNCs, HandleRecvVNCMessage(h, v)
        PROVE  races \subseteq races'
    BY <2>7 DEF HandleRecvVNCMessage, Acquire, IsFree
  <2>8. ASSUME NEW h \in VNCHandlers, NEW i \in 1 .. nsent, ParseProxy(h, i)
        PROVE  races \subseteq races'
    BY <2>8 DEF ParseProxy
  <2>9. ASSUME NEW h \in VNCHandlers, NEW i \in 1 .. nsent, ParseProxyDisconnect(h, i)
        PROVE  races \subseteq races'
    BY <2>9 DEF ParseProxyDisconnect, Disconnect
  <2>10. ASSUME NEW h \in VNCHandlers, ParseEnds(h)
        PROVE  races \subseteq races'
    BY <2>10 DEF ParseEnds, Release
  <2>11. ASSUME NEW h \in VNCHandlers, HandleVNCDone(h)
        PROVE  races \subseteq races'
    BY <2>11 DEF HandleVNCDone, GotoClose
  <2>12. ASSUME NEW t \in VThreads, LockReturn(t)
        PROVE  races \subseteq races'
    BY <2>12 DEF LockReturn, Acquire, IsFree
  <2>13. ASSUME NEW t \in VThreads, ReturnVNC2Client(t)
        PROVE  races \subseteq races'
    BY <2>13 DEF ReturnVNC2Client, Release
  <2>14. ASSUME NEW t \in VThreads, CloseSessionByVNC(t)
        PROVE  races \subseteq races'
    BY <2>14 DEF CloseSessionByVNC, IsFree, ShutAllClients
  <2>15. ASSUME NEW t \in VThreads, CloseRefused(t)
        PROVE  races \subseteq races'
    BY <2>15 DEF CloseRefused
  <2>16. ASSUME NEW t \in VThreads, DeleteVNCClient(t)
        PROVE  races \subseteq races'
    BY <2>16 DEF DeleteVNCClient
  <2>17. ASSUME NEW t \in VThreads, ClearVNCClient(t)
        PROVE  races \subseteq races'
    BY <2>17 DEF ClearVNCClient, ClearPointer
  <2>18. ASSUME NEW t \in VThreads, CloseVNCFd(t)
        PROVE  races \subseteq races'
    BY <2>18 DEF CloseVNCFd, GotoClose
  <2> QED BY <1>2, <2>1, <2>2, <2>3, <2>4, <2>5, <2>6, <2>7, <2>8, <2>9, <2>10, <2>11, <2>12,
      <2>13, <2>14, <2>15, <2>16, <2>17, <2>18 DEF VNCNext, VNCSteps
<1>3. CASE Terminating
  BY <1>3 DEF Terminating, vars
<1> QED BY <1>1, <1>2, <1>3 DEF Next

LEMMA CommandsMade ==
    ASSUME Types, BrowserNext
    PROVE  \/ \E t \in BThreads : SendMessageByQueue(t)
           \/ UNCHANGED commands /\ (\/ \E f \in Fds : Accept(f)
                                     \/ \E t \in BThreads : EraseClient(t)
                                     \/ UNCHANGED maps)
<1> DEFINE Made == \/ \E t \in BThreads : SendMessageByQueue(t)
                   \/ UNCHANGED commands /\ (\/ \E f \in Fds : Accept(f)
                                             \/ \E t \in BThreads : EraseClient(t)
                                             \/ UNCHANGED maps)
<1> USE DEF locals, queue
<1>1. ASSUME NEW f \in Fds, Accept(f)
      PROVE  Made
  BY <1>1 DEF Accept, IsFree
<1>2. ASSUME NEW c \in Accepted, PeerClose(c)
      PROVE  Made
  BY <1>2 DEF PeerClose
<1>3. ASSUME NEW c \in Accepted, RecvPacket(c)
      PROVE  Made
  BY <1>3 DEF RecvPacket
<1>4. ASSUME NEW c \in Accepted, OnDisconnect(c)
      PROVE  Made
  BY <1>4 DEF OnDisconnect, Acquire, IsFree
<1>5. ASSUME NEW c \in Accepted, SendReply(c)
      PROVE  Made
  BY <1>5 DEF SendReply, GotoClose
<1>6. CASE Disconnected
  BY <1>6 DEF Disconnected, GotoClose
<1>7. ASSUME NEW h \in Handlers, HandleDone(h)
      PROVE  Made
  BY <1>7 DEF HandleDone, GotoClose
<1>8. ASSUME NEW h \in Handlers, NEW c \in Accepted, HandleRecvMessage(h, c)
      PROVE  Made
  BY <1>8 DEF HandleRecvMessage, IsFree
<1>9. ASSUME NEW t \in BThreads, CheckOnline(t)
      PROVE  Made
  BY <1>9 DEF CheckOnline
<1>10. ASSUME NEW t \in BThreads, SendFails(t)
      PROVE  Made
  BY <1>10 DEF SendFails, SendEnds, Release
<1>11. ASSUME NEW t \in BThreads, AddSeq(t)
      PROVE  Made
  BY <1>11 DEF AddSeq, IsFree, Usable
<1>12. ASSUME NEW t \in BThreads, LockSessions(t)
      PROVE  Made
  BY <1>12 DEF LockSessions, Acquire, IsFree
<1>13. ASSUME NEW t \in BThreads, SendMessageByQueue(t)
      PROVE  Made
  BY <1>13 DEF SendMessageByQueue, SendEnds, Release, Usable
<1>14. ASSUME NEW t \in BThreads, LoseVNCClient(t)
      PROVE  Made
  BY <1>14 DEF LoseVNCClient
<1>15. ASSUME NEW t \in BThreads, OnClose(t)
      PROVE  Made
  BY <1>15 DEF OnClose, IsFree
<1>16. ASSUME NEW t \in BThreads, CloseSessionByClient(t)
      PROVE  Made
  BY <1>16 DEF CloseSessionByClient, Acquire, IsFree
<1>17. ASSUME NEW t \in BThreads, EraseClient(t)
      PROVE  Made
  BY <1>17 DEF EraseClient, EraseSession, Release
<1>18. ASSUME NEW t \in BThreads, CloseFd(t)
      PROVE  Made
  BY <1>18 DEF CloseFd, GotoClose
<1> QED BY <1>1, <1>2, <1>3, <1>4, <1>5, <1>6, <1>7, <1>8, <1>9, <1>10, <1>11, <1>12, <1>13,
    <1>14, <1>15, <1>16, <1>17, <1>18 DEF BrowserNext, BrowserSteps

LEMMA NumbersMade ==
    ASSUME Types, BrowserNext
    PROVE  \/ \E t \in BThreads : SendMessageByQueue(t) \/ AddSeq(t)
           \/ /\ UNCHANGED <<commands, sendSeq>>
              /\ Numbered' \subseteq Numbered
              /\ \A t \in Numbered' : seq'[t] = seq[t] /\ numbered'[t] = numbered[t]
<1>a. PlaceType /\ FoundType
  BY TypesUsed DEF TypeParts
<1> DEFINE Same == /\ UNCHANGED <<commands, sendSeq>>
                   /\ Numbered' \subseteq Numbered
                   /\ \A t \in Numbered' : seq'[t] = seq[t] /\ numbered'[t] = numbered[t]
<1> USE <1>a, ThreadFacts DEF PlaceType, FoundType, Threads, BThreads, browsers, peer, kernel,
    maps, vnc, found, locals, queue, At, Goto, Take
<1>1. ASSUME NEW f \in Fds, Accept(f)
      PROVE  (\E u \in BThreads : SendMessageByQueue(u) \/ AddSeq(u)) \/ Same
  BY <1>1 DEF Accept, IsFree, Numbered, SendSteps
<1>2. ASSUME NEW c \in Accepted, PeerClose(c)
      PROVE  (\E u \in BThreads : SendMessageByQueue(u) \/ AddSeq(u)) \/ Same
  BY <1>2 DEF PeerClose, Numbered, SendSteps
<1>3. ASSUME NEW c \in Accepted, RecvPacket(c)
      PROVE  (\E u \in BThreads : SendMessageByQueue(u) \/ AddSeq(u)) \/ Same
  BY <1>3 DEF RecvPacket, Numbered, SendSteps
<1>4. ASSUME NEW c \in Accepted, OnDisconnect(c)
      PROVE  (\E u \in BThreads : SendMessageByQueue(u) \/ AddSeq(u)) \/ Same
  BY <1>4 DEF OnDisconnect, Acquire, IsFree, Numbered, SendSteps
<1>5. ASSUME NEW c \in Accepted, SendReply(c)
      PROVE  (\E u \in BThreads : SendMessageByQueue(u) \/ AddSeq(u)) \/ Same
  BY <1>5 DEF SendReply, GotoClose, Numbered, SendSteps
<1>6. CASE Disconnected
  BY <1>6 DEF Disconnected, GotoClose, Numbered, SendSteps
<1>7. ASSUME NEW h \in Handlers, HandleDone(h)
      PROVE  (\E u \in BThreads : SendMessageByQueue(u) \/ AddSeq(u)) \/ Same
  BY <1>7 DEF HandleDone, GotoClose, Numbered, SendSteps
<1>8. ASSUME NEW h \in Handlers, NEW c \in Accepted, HandleRecvMessage(h, c)
      PROVE  (\E u \in BThreads : SendMessageByQueue(u) \/ AddSeq(u)) \/ Same
  BY <1>8 DEF HandleRecvMessage, IsFree, Numbered, SendSteps
<1>9. ASSUME NEW t \in BThreads, CheckOnline(t)
      PROVE  (\E u \in BThreads : SendMessageByQueue(u) \/ AddSeq(u)) \/ Same
  <2>1. /\ pc' = [pc EXCEPT ![t] = "addseq"]
        /\ UNCHANGED <<commands, sendSeq, seq, numbered>>
    BY <1>9, SendOrderFacts DEF CheckOnline
  <2> QED BY <2>1 DEF Numbered
<1>10. ASSUME NEW t \in BThreads, SendFails(t)
      PROVE  (\E u \in BThreads : SendMessageByQueue(u) \/ AddSeq(u)) \/ Same
  <2>1. /\ pc[t] = "check" /\ pc' = [pc EXCEPT ![t] = IF t = "main" THEN "decide" ELSE "done"]
        /\ seq' = [seq EXCEPT ![t] = 0] /\ numbered' = [numbered EXCEPT ![t] = 0]
        /\ UNCHANGED <<commands, sendSeq>>
    BY <1>10 DEF SendFails, SendEnds
  <2> QED BY <2>1 DEF Numbered
<1>11. ASSUME NEW t \in BThreads, AddSeq(t)
      PROVE  (\E u \in BThreads : SendMessageByQueue(u) \/ AddSeq(u)) \/ Same
  BY <1>11
<1>12. ASSUME NEW t \in BThreads, LockSessions(t)
      PROVE  (\E u \in BThreads : SendMessageByQueue(u) \/ AddSeq(u)) \/ Same
  <2>1. /\ pc[t] = "lock" /\ pc' = [pc EXCEPT ![t] = "queue"]
        /\ UNCHANGED <<commands, sendSeq, seq, numbered>>
    BY <1>12, SendOrderFacts DEF LockSessions
  <2> QED BY <2>1 DEF Numbered
<1>13. ASSUME NEW t \in BThreads, SendMessageByQueue(t)
      PROVE  (\E u \in BThreads : SendMessageByQueue(u) \/ AddSeq(u)) \/ Same
  BY <1>13
<1>14. ASSUME NEW t \in BThreads, LoseVNCClient(t)
      PROVE  (\E u \in BThreads : SendMessageByQueue(u) \/ AddSeq(u)) \/ Same
  BY <1>14 DEF LoseVNCClient, Numbered, SendSteps
<1>15. ASSUME NEW t \in BThreads, OnClose(t)
      PROVE  (\E u \in BThreads : SendMessageByQueue(u) \/ AddSeq(u)) \/ Same
  BY <1>15 DEF OnClose, IsFree, Numbered, SendSteps
<1>16. ASSUME NEW t \in BThreads, CloseSessionByClient(t)
      PROVE  (\E u \in BThreads : SendMessageByQueue(u) \/ AddSeq(u)) \/ Same
  BY <1>16 DEF CloseSessionByClient, Acquire, IsFree, Numbered, SendSteps
<1>17. ASSUME NEW t \in BThreads, EraseClient(t)
      PROVE  (\E u \in BThreads : SendMessageByQueue(u) \/ AddSeq(u)) \/ Same
  BY <1>17 DEF EraseClient, EraseSession, Release, Numbered, SendSteps
<1>18. ASSUME NEW t \in BThreads, CloseFd(t)
      PROVE  (\E u \in BThreads : SendMessageByQueue(u) \/ AddSeq(u)) \/ Same
  BY <1>18 DEF CloseFd, GotoClose, Numbered, SendSteps
<1> QED BY <1>1, <1>2, <1>3, <1>4, <1>5, <1>6, <1>7, <1>8, <1>9, <1>10, <1>11, <1>12, <1>13,
    <1>14, <1>15, <1>16, <1>17, <1>18 DEF BrowserNext, BrowserSteps

\* A connection of the peer is not new again, and the pointer changes in two ways only.
LEMMA PeerMoves ==
    ASSUME Types, VNCNext
    PROVE  /\ \A v \in VNCs : vphase[v] # "new" => vphase'[v] # "new"
           /\ \/ mpVNCClient' = mpVNCClient
              \/ mpVNCClient' = 0
              \/ mpVNCClient' \in VNCs /\ vphase[mpVNCClient'] = "new"
<1>a. VNC!ServiceTypeOK /\ ControlInv /\ VncType
  BY TypesUsed DEF TypeParts
<1> DEFINE Stays == \A v \in VNCs : vphase[v] # "new" => vphase'[v] # "new"
           Moved == \/ mpVNCClient' = mpVNCClient
                    \/ mpVNCClient' = 0
                    \/ mpVNCClient' \in VNCs /\ vphase[mpVNCClient'] = "new"
<1>1. Stays
  <2>1. CASE VNCCallbacks
    BY <2>1, VNCCallbacksLeave
  <2>2. ASSUME NEW v \in VNCs, AcceptVNC(v)
        PROVE  Stays
    BY <1>a, <2>2 DEF AcceptVNC, VNC!Accepted, VNC!Move, VNC!ServiceTypeOK, VNC!Conns, VNCs
  <2>3. ASSUME NEW v \in VNCs, RecvVNCPacket(v)
        PROVE  Stays
    BY <2>3 DEF RecvVNCPacket, VNC!Received
  <2>4. ASSUME \/ \E v \in VNCs : SendCommand(v)
               \/ DisconnectedVNC
               \/ \E h \in VNCHandlers : HandleVNCDone(h)
        PROVE  Stays
    <3>1. PICK v \in VNCs : VNC!Disconnected(v) \/ VNC!Handled(v) \/ VNC!Sent(v)
      BY <2>4, VNCEnders
    <3>2. /\ \A u \in VNCs \ {v} : vphase'[u] = vphase[u]
          /\ vphase'[v] # vphase[v] => vphase'[v] \in {"leaving", "closing"}
      BY <1>a, <3>1, VNCEnds
    <3> QED BY <3>2
  <2>5. ASSUME NEW t \in VThreads, CloseVNCFd(t)
        PROVE  Stays
    BY <1>a, <2>5 DEF CloseVNCFd, VNC!Closed, VNC!Move, VNC!ServiceTypeOK, VNC!Conns, VNCs
  <2> QED BY <2>1, <2>2, <2>3, <2>4, <2>5, VNCOperations
<1>2. Moved
  <2>1. ASSUME NEW v \in VNCs, AcceptVNC(v)
        PROVE  Moved
    BY <2>1 DEF AcceptVNC, VNC!Accepted, vnc
  <2>2. ASSUME NEW v \in VNCs, VNCPeerClose(v)
        PROVE  Moved
    BY <2>2 DEF VNCPeerClose, vnc
  <2>3. ASSUME NEW v \in VNCs, RecvVNCPacket(v)
        PROVE  Moved
    BY <2>3 DEF RecvVNCPacket, vnc
  <2>4. ASSUME NEW v \in VNCs, OnDisconnectVNC(v)
        PROVE  Moved
    BY <2>4 DEF OnDisconnectVNC, MarkOffline, vnc
  <2>5. ASSUME NEW v \in VNCs, SendCommand(v)
        PROVE  Moved
    BY <2>5 DEF SendCommand, GotoClose, vnc
  <2>6. CASE DisconnectedVNC
    BY <2>6 DEF DisconnectedVNC, GotoClose, vnc
  <2>7. ASSUME NEW h \in VNCHandlers, NEW v \in VNCs, HandleRecvVNCMessage(h, v)
        PROVE  Moved
    BY <2>7 DEF HandleRecvVNCMessage, Acquire, IsFree, vnc
  <2>8. ASSUME NEW h \in VNCHandlers, NEW i \in 1 .. nsent, ParseProxy(h, i)
        PROVE  Moved
    BY <2>8 DEF ParseProxy, vnc
  <2>9. ASSUME NEW h \in VNCHandlers, NEW i \in 1 .. nsent, ParseProxyDisconnect(h, i)
        PROVE  Moved
    BY <2>9 DEF ParseProxyDisconnect, Disconnect, vnc
  <2>10. ASSUME NEW h \in VNCHandlers, ParseEnds(h)
        PROVE  Moved
    BY <2>10 DEF ParseEnds, Release, vnc
  <2>11. ASSUME NEW h \in VNCHandlers, HandleVNCDone(h)
        PROVE  Moved
    BY <2>11 DEF HandleVNCDone, GotoClose, vnc
  <2>12. ASSUME NEW t \in VThreads, LockReturn(t)
        PROVE  Moved
    BY <2>12 DEF LockReturn, Acquire, IsFree, vnc
  <2>13. ASSUME NEW t \in VThreads, ReturnVNC2Client(t)
        PROVE  Moved
    BY <2>13 DEF ReturnVNC2Client, Release, vnc
  <2>14. ASSUME NEW t \in VThreads, CloseSessionByVNC(t)
        PROVE  Moved
    BY <2>14 DEF CloseSessionByVNC, IsFree, ShutAllClients, vnc
  <2>15. ASSUME NEW t \in VThreads, CloseRefused(t)
        PROVE  Moved
    BY <2>15 DEF CloseRefused, vnc
  <2>16. ASSUME NEW t \in VThreads, DeleteVNCClient(t)
        PROVE  Moved
    BY <2>16 DEF DeleteVNCClient, vnc
  <2>17. ASSUME NEW t \in VThreads, ClearVNCClient(t)
        PROVE  Moved
    BY <2>17 DEF ClearVNCClient, ClearPointer, vnc
  <2>18. ASSUME NEW t \in VThreads, CloseVNCFd(t)
        PROVE  Moved
    BY <2>18 DEF CloseVNCFd, GotoClose, vnc
  <2> QED BY <2>1, <2>2, <2>3, <2>4, <2>5, <2>6, <2>7, <2>8, <2>9, <2>10, <2>11, <2>12, <2>13,
      <2>14, <2>15, <2>16, <2>17, <2>18 DEF VNCNext, VNCSteps
<1> QED BY <1>1, <1>2

LEMMA PeerForgets ==
    ASSUME Types, VNCNext
    PROVE  \/ \E v \in VNCs : AcceptVNC(v)
           \/ \E t \in VThreads : CloseSessionByVNC(t) \/ DeleteVNCClient(t) \/ ClearVNCClient(t)
           \/ mpVNCClient' = mpVNCClient /\ (Forgetting' => Forgetting)
<1>a. PlaceType
  BY TypesUsed DEF TypeParts
<1> DEFINE Forgets == \/ \E v \in VNCs : AcceptVNC(v)
                      \/ \E t \in VThreads : CloseSessionByVNC(t) \/ DeleteVNCClient(t) \/ ClearVNCClient(t)
                      \/ mpVNCClient' = mpVNCClient /\ (Forgetting' => Forgetting)
<1> USE <1>a, ThreadFacts DEF PlaceType, Forgetting, Threads, VThreads, browsers, peer, kernel,
    maps, vnc, found, locals, queue, At, Goto, Take
<1>1. ASSUME NEW v \in VNCs, AcceptVNC(v)
      PROVE  Forgets
  BY <1>1
<1>2. ASSUME NEW v \in VNCs, VNCPeerClose(v)
      PROVE  Forgets
  BY <1>2 DEF VNCPeerClose
<1>3. ASSUME NEW v \in VNCs, RecvVNCPacket(v)
      PROVE  Forgets
  BY <1>3 DEF RecvVNCPacket
<1>4. ASSUME NEW v \in VNCs, OnDisconnectVNC(v)
      PROVE  Forgets
  BY <1>4 DEF OnDisconnectVNC, MarkOffline
<1>5. ASSUME NEW v \in VNCs, SendCommand(v)
      PROVE  Forgets
  BY <1>5 DEF SendCommand, GotoClose
<1>6. CASE DisconnectedVNC
  BY <1>6 DEF DisconnectedVNC, GotoClose
<1>7. ASSUME NEW h \in VNCHandlers, NEW v \in VNCs, HandleRecvVNCMessage(h, v)
      PROVE  Forgets
  BY <1>7 DEF HandleRecvVNCMessage, Acquire, IsFree
<1>8. ASSUME NEW h \in VNCHandlers, NEW i \in 1 .. nsent, ParseProxy(h, i)
      PROVE  Forgets
  BY <1>8 DEF ParseProxy
<1>9. ASSUME NEW h \in VNCHandlers, NEW i \in 1 .. nsent, ParseProxyDisconnect(h, i)
      PROVE  Forgets
  BY <1>9 DEF ParseProxyDisconnect, Disconnect
<1>10. ASSUME NEW h \in VNCHandlers, ParseEnds(h)
      PROVE  Forgets
  BY <1>10 DEF ParseEnds, Release
<1>11. ASSUME NEW h \in VNCHandlers, HandleVNCDone(h)
      PROVE  Forgets
  BY <1>11 DEF HandleVNCDone, GotoClose
<1>12. ASSUME NEW t \in VThreads, LockReturn(t)
      PROVE  Forgets
  BY <1>12 DEF LockReturn, Acquire, IsFree
<1>13. ASSUME NEW t \in VThreads, ReturnVNC2Client(t)
      PROVE  Forgets
  BY <1>13 DEF ReturnVNC2Client, Release
<1>14. ASSUME NEW t \in VThreads, CloseSessionByVNC(t)
      PROVE  Forgets
  BY <1>14
<1>15. ASSUME NEW t \in VThreads, CloseRefused(t)
      PROVE  Forgets
  BY <1>15 DEF CloseRefused
<1>16. ASSUME NEW t \in VThreads, DeleteVNCClient(t)
      PROVE  Forgets
  BY <1>16
<1>17. ASSUME NEW t \in VThreads, ClearVNCClient(t)
      PROVE  Forgets
  BY <1>17
<1>18. ASSUME NEW t \in VThreads, CloseVNCFd(t)
      PROVE  Forgets
  BY <1>18 DEF CloseVNCFd, GotoClose
<1> QED BY <1>1, <1>2, <1>3, <1>4, <1>5, <1>6, <1>7, <1>8, <1>9, <1>10, <1>11, <1>12, <1>13,
    <1>14, <1>15, <1>16, <1>17, <1>18 DEF VNCNext, VNCSteps

\* What a command is.
LEMMA CommandTypes ==
    ASSUME Types, NEW i \in DOMAIN commands
    PROVE  commands[i].vnc \in VNCs /\ commands[i].fd \in Fds /\ commands[i].seq \in Nat
<1>1. QueueType
  BY TypesUsed DEF TypeParts
<1>2. commands[i] \in [vnc : VNCs, client : Conns, fd : Fds, seq : Nat, packet : BOOLEAN]
  BY <1>1, ElementType DEF QueueType
<1> QED BY <1>2

\* The commands after an append.
LEMMA Appended ==
    ASSUME NEW S, NEW s \in Seq(S), NEW q
    PROVE  /\ Len(s) + 1 \notin DOMAIN s
           /\ DOMAIN Append(s, q) = DOMAIN s \cup {Len(s) + 1}
           /\ Append(s, q)[Len(s) + 1] = q
           /\ \A i \in DOMAIN s : Append(s, q)[i] = s[i] /\ i < Len(s) + 1 /\ i \in Nat
OBVIOUS

(***************************************************************************)
(* A command is appended by a thread that serves a connection, for the     *)
(* Client mpVNCClient points to.                                           *)
(***************************************************************************)
LEMMA CommandOf ==
    ASSUME Types, BrowserInv, PeerInv, NEW t \in BThreads, SendMessageByQueue(t)
    PROVE  /\ pc[t] = "queue" /\ t \in Numbered /\ numbered[t] = mpVNCClient
           /\ mpVNCClient \in VNCs /\ vphase[mpVNCClient] # "new"
           /\ client[t] \in Accepted /\ phase[client[t]] \in {"open", "leaving"}
           /\ mClientMap[fdOf[client[t]]] = client[t] /\ UNCHANGED <<mClientMap, fdOf, shut>>
           /\ \E n \in Nat :
                 /\ n \notin DOMAIN commands /\ DOMAIN commands' = DOMAIN commands \cup {n}
                 /\ \A i \in DOMAIN commands : commands'[i] = commands[i] /\ i < n /\ i \in Nat
                 /\ commands'[n].vnc = mpVNCClient /\ commands'[n].client = client[t]
                 /\ commands'[n].fd = fdOf[client[t]] /\ commands'[n].seq = seq[t]
                 /\ commands'[n].packet <=> t # "main"
<1>a. ControlInv /\ VncType
  BY TypesUsed DEF TypeParts
<1>1. pc[t] = "queue" /\ Usable /\ numbered[t] = mpVNCClient
  BY DEF SendMessageByQueue, At
<1>2. mpVNCClient \in VNCs
  BY <1>a, <1>1 DEF Usable, VncType
<1>3. vphase[mpVNCClient] # "new"
  BY <1>2 DEF PeerInv, PointerInv, VNCs
<1>4. t \in {"main"} \cup Handlers /\ Using(t)
  BY <1>a, <1>1 DEF ControlInv, BThreads, Using, Closers
<1>5. client[t] = work[t] /\ mClientMap[fdOf[client[t]]] = client[t]
  BY <1>4 DEF BrowserInv, ClientOutlivesUsers
<1>6. client[t] \in Accepted /\ phase[client[t]] \in {"open", "leaving"}
  BY <1>4, <1>5, UsersInService DEF BrowserInv
<1>7. UNCHANGED <<mClientMap, fdOf, shut>>
  BY DEF SendMessageByQueue, kernel
<1>8. PICK q : /\ commands' = Append(commands, q) /\ q.vnc = mpVNCClient /\ q.client = client[t]
               /\ q.fd = fdOf[client[t]] /\ q.seq = seq[t] /\ (q.packet <=> t # "main")
  <2> DEFINE r == [vnc |-> mpVNCClient, client |-> client[t], fd |-> fdOf[client[t]],
                   seq |-> seq[t], packet |-> t # "main"]
  <2>1. commands' = Append(commands, r)
    BY DEF SendMessageByQueue
  <2>2. /\ r.vnc = mpVNCClient /\ r.client = client[t]
        /\ r.fd = fdOf[client[t]] /\ r.seq = seq[t] /\ (r.packet <=> t # "main")
    OBVIOUS
  <2> HIDE DEF r
  <2> QED BY <2>1, <2>2
<1>9. commands \in Seq([vnc : VNCs, client : Conns, fd : Fds, seq : Nat, packet : BOOLEAN])
  BY TypesUsed DEF TypeParts, QueueType
<1>10. Len(commands) + 1 \in Nat
  BY <1>9
<1>11. \E n \in Nat :
          /\ n \notin DOMAIN commands /\ DOMAIN commands' = DOMAIN commands \cup {n}
          /\ \A i \in DOMAIN commands : commands'[i] = commands[i] /\ i < n /\ i \in Nat
          /\ commands'[n].vnc = mpVNCClient /\ commands'[n].client = client[t]
          /\ commands'[n].fd = fdOf[client[t]] /\ commands'[n].seq = seq[t]
          /\ commands'[n].packet <=> t # "main"
  BY <1>8, <1>9, <1>10, Appended
<1> QED BY <1>1, <1>2, <1>3, <1>5, <1>6, <1>7, <1>11 DEF Numbered

LEMMA CommandStep ==
    ASSUME Types, BrowserInv, PeerInv, CommandInv, BrowserNext
    PROVE  CommandInv'
<1>a. QueueType /\ KernelType /\ Accepted \subseteq Conns /\ Conns \subseteq Nat
      /\ VNCs \subseteq Nat /\ \A c \in Accepted : fdOf[c] \in Fds
  BY TypesUsed DEF TypeParts
<1>b. \A c \in Accepted : c \in Accepted' /\ fdOf'[c] = fdOf[c]
  BY ClosedStays
<1>c. UNCHANGED <<mpVNCClient, vphase>>
  BY BrowsersLeave DEF vnc
<1>1. ASSUME NEW t \in BThreads, SendMessageByQueue(t)
      PROVE  CommandInv'
  <2>2. /\ mpVNCClient \in VNCs /\ vphase[mpVNCClient] # "new"
        /\ client[t] \in Accepted /\ phase[client[t]] \in {"open", "leaving"}
    BY <1>1, CommandOf
  <2>3. PICK n \in Nat :
           /\ n \notin DOMAIN commands /\ DOMAIN commands' = DOMAIN commands \cup {n}
           /\ \A i \in DOMAIN commands : commands'[i] = commands[i] /\ i < n /\ i \in Nat
           /\ commands'[n].vnc = mpVNCClient /\ commands'[n].client = client[t]
           /\ commands'[n].fd = fdOf[client[t]]
    BY <1>1, CommandOf
  <2>1. PICK q : /\ q = commands'[n] /\ q.vnc = mpVNCClient /\ q.client = client[t]
                 /\ q.fd = fdOf[client[t]]
    BY <2>3
  <2>4. \A i \in DOMAIN commands' :
           /\ commands'[i].client \in Accepted' /\ fdOf'[commands'[i].client] = commands'[i].fd
           /\ vphase'[commands'[i].vnc] # "new"
           /\ mpVNCClient' # 0 => commands'[i].vnc <= mpVNCClient'
    <3>1. \A i \in DOMAIN commands :
             /\ commands'[i].client \in Accepted' /\ fdOf'[commands'[i].client] = commands'[i].fd
             /\ vphase'[commands'[i].vnc] # "new"
             /\ mpVNCClient' # 0 => commands'[i].vnc <= mpVNCClient'
      BY <1>b, <1>c, <2>3 DEF CommandInv
    <3>2. q.client \in Accepted' /\ fdOf'[q.client] = q.fd /\ vphase'[q.vnc] # "new"
      BY <1>b, <1>c, <2>1, <2>2
    <3>3. mpVNCClient \in Nat
      BY <1>a, <2>2
    <3>4. q.vnc <= mpVNCClient'
      BY <1>c, <2>1, <3>3
    <3> QED BY <2>1, <2>3, <3>1, <3>2, <3>4
  <2>5. \A i \in DOMAIN commands : commands[i].vnc <= q.vnc
    BY <2>1, <2>2 DEF CommandInv, VNCs
  <2>6. \A i \in DOMAIN commands : commands[i].fd = q.fd => commands[i].client <= q.client
    <3> SUFFICES ASSUME NEW i \in DOMAIN commands, commands[i].fd = q.fd,
                        q.client < commands[i].client
                 PROVE  FALSE
      <4>1. \A i \in DOMAIN commands : commands[i].client \in Nat
        BY <1>a DEF CommandInv
      <4>2. q.client \in Nat
        BY <1>a, <2>1, <2>2
      <4> QED BY <4>1, <4>2
    <3>1. commands[i].client \in Accepted /\ fdOf[commands[i].client] = fdOf[q.client]
      BY <2>1 DEF CommandInv
    <3>2. phase[q.client] = "closed"
      BY <2>1, <2>2, <3>1 DEF BrowserInv, LatestInv
    <3> QED BY <2>1, <2>2, <3>2
  <2>7. \A i, j \in DOMAIN commands' :
           i < j => /\ commands'[i].vnc <= commands'[j].vnc
                    /\ commands'[i].fd = commands'[j].fd => commands'[i].client <= commands'[j].client
    <3> SUFFICES ASSUME NEW i \in DOMAIN commands', NEW j \in DOMAIN commands', i < j
                 PROVE  /\ commands'[i].vnc <= commands'[j].vnc
                        /\ commands'[i].fd = commands'[j].fd
                              => commands'[i].client <= commands'[j].client
      OBVIOUS
    <3>1. i \in DOMAIN commands
      <4>1. CASE i = n /\ j = n
        BY <4>1
      <4>2. CASE i = n /\ j \in DOMAIN commands
        BY <2>3, <4>2
      <4> QED BY <2>3, <4>1, <4>2
    <3>2. CASE j \in DOMAIN commands
      BY <2>3, <3>1, <3>2 DEF CommandInv, ConnectionsFollowEachOther
    <3>3. CASE j = n
      BY <2>1, <2>3, <2>5, <2>6, <3>1, <3>3
    <3> QED BY <2>3, <3>2, <3>3
  <2> QED BY <2>4, <2>7 DEF CommandInv, ConnectionsFollowEachOther
<1>2. CASE UNCHANGED commands
  BY <1>2, <1>b, <1>c DEF CommandInv, ConnectionsFollowEachOther
<1> QED BY <1>1, <1>2, CommandsMade

LEMMA CommandKept ==
    ASSUME Types, PeerInv, VPhaseInv', CommandInv, VNCNext
    PROVE  CommandInv'
<1>a. /\ UNCHANGED <<commands, fdOf>> /\ Accepted' = Accepted
  BY VNCLeaves DEF Accepted
<1>b. QueueType /\ VNCs \subseteq Nat /\ VncType
  BY TypesUsed DEF TypeParts
<1>c. \A i \in DOMAIN commands : commands[i].vnc \in VNCs
  BY CommandTypes
<1>1. \A i \in DOMAIN commands : vphase'[commands[i].vnc] # "new"
  BY <1>c, PeerMoves DEF CommandInv
<1>2. mpVNCClient' # 0 => \A i \in DOMAIN commands : commands[i].vnc <= mpVNCClient'
  <2>1. CASE mpVNCClient' = mpVNCClient
    BY <2>1 DEF CommandInv
  <2>2. CASE mpVNCClient' \in VNCs /\ vphase[mpVNCClient'] = "new"
    <3> SUFFICES ASSUME NEW i \in DOMAIN commands, mpVNCClient' < commands[i].vnc
                 PROVE  FALSE
      <4>1. mpVNCClient' \in Nat /\ \A i \in DOMAIN commands : commands[i].vnc \in Nat
        BY <1>b, <1>c, <2>2
      <4> QED BY <4>1
    <3> QED BY <1>c, <2>2 DEF CommandInv, PeerInv, VPhaseInv
  <2> QED BY <2>1, <2>2, PeerMoves
<1> QED BY <1>a, <1>1, <1>2 DEF CommandInv, ConnectionsFollowEachOther

(***************************************************************************)
(* Numbers.  A thread that has one it has not used yet is the only one,    *)
(* and mKMutex gives every thread another.                                 *)
(***************************************************************************)
LEMMA NumberStep ==
    ASSUME Types, BrowserInv, PeerInv, NumberInv, BrowserNext
    PROVE  NumberInv'
<1>a. QueueType /\ VncType /\ PlaceType /\ FoundType /\ VNCs \subseteq Nat
  BY TypesUsed DEF TypeParts
<1>b. \A i \in DOMAIN commands : commands[i].vnc \in VNCs /\ commands[i].seq \in Nat
  BY CommandTypes
<1>d. ASSUME NEW t \in BThreads, SendMessageByQueue(t)
      PROVE  \E n \in Nat :
             /\ n \notin DOMAIN commands /\ DOMAIN commands' = DOMAIN commands \cup {n}
             /\ \A i \in DOMAIN commands : commands'[i] = commands[i]
             /\ commands'[n].vnc = mpVNCClient /\ commands'[n].seq = seq[t]
  BY <1>d, CommandOf
<1> USE <1>a, ThreadFacts DEF PlaceType, FoundType, Threads, BThreads, At, Goto
<1>1. ASSUME NEW t \in BThreads, SendMessageByQueue(t)
      PROVE  NumberInv'
  <2>1. PICK n \in Nat :
           /\ n \notin DOMAIN commands /\ DOMAIN commands' = DOMAIN commands \cup {n}
           /\ \A i \in DOMAIN commands : commands'[i] = commands[i]
           /\ commands'[n].vnc = mpVNCClient /\ commands'[n].seq = seq[t]
    BY <1>1, <1>d
  <2>2. t \in Numbered /\ numbered[t] = mpVNCClient /\ mpVNCClient \in VNCs
    BY <1>1, CommandOf
  <2>3. PICK q : q = commands'[n] /\ q.vnc = mpVNCClient /\ q.seq = seq[t]
    BY <2>1
  <2>4. /\ sendSeq' = sendSeq /\ pc' = [pc EXCEPT ![t] = IF t = "main" THEN "decide" ELSE "done"]
        /\ seq' = [seq EXCEPT ![t] = 0] /\ numbered' = [numbered EXCEPT ![t] = 0]
    BY <1>1 DEF SendMessageByQueue, SendEnds
  <2>5. /\ Numbered' \subseteq Numbered \ {t}
        /\ \A u \in Numbered' : seq'[u] = seq[u] /\ numbered'[u] = numbered[u]
    BY <2>4 DEF Numbered
  <2>6. \A i \in DOMAIN commands' : commands'[i].seq < sendSeq'[commands'[i].vnc]
    BY <2>1, <2>2, <2>4 DEF NumberInv
  <2>7. \A i \in DOMAIN commands : commands[i].vnc = q.vnc => commands[i].seq # q.seq
    BY <2>2, <2>3 DEF NumberInv, Unused
  <2>8. \A i, j \in DOMAIN commands' :
           i # j /\ commands'[i].vnc = commands'[j].vnc => commands'[i].seq # commands'[j].seq
    BY <2>1, <2>3, <2>7 DEF NumberInv
  <2>9. \A u \in Numbered' : numbered[u] = q.vnc => seq[u] # q.seq
    BY <2>2, <2>3, <2>5 DEF NumberInv
  <2>10. \A u \in Numbered' : \A i \in DOMAIN commands' :
            commands'[i].vnc = numbered'[u] => commands'[i].seq # seq'[u]
    BY <2>1, <2>3, <2>5, <2>9 DEF NumberInv, Unused
  <2>11. \A u \in Numbered' :
            /\ numbered'[u] \in VNCs /\ seq'[u] < sendSeq'[numbered'[u]]
            /\ \A w \in Numbered' : w # u /\ numbered'[w] = numbered'[u] => seq'[w] # seq'[u]
    BY <2>4, <2>5 DEF NumberInv
  <2> QED BY <2>6, <2>8, <2>10, <2>11 DEF NumberInv, Unused
<1>2. ASSUME NEW t \in BThreads, AddSeq(t)
      PROVE  NumberInv'
  <2>1. /\ pc[t] = "addseq" /\ pc' = [pc EXCEPT ![t] = "lock"] /\ mpVNCClient \in VNCs
        /\ seq' = [seq EXCEPT ![t] = sendSeq[mpVNCClient]]
        /\ numbered' = [numbered EXCEPT ![t] = mpVNCClient]
        /\ sendSeq' = [sendSeq EXCEPT ![mpVNCClient] = @ + 1]
        /\ commands' = commands
    BY <1>2, SendOrderFacts DEF AddSeq, Usable, VncType, queue
  <2>2. /\ Numbered' = Numbered \cup {t} /\ t \notin Numbered
        /\ seq'[t] = sendSeq[mpVNCClient] /\ numbered'[t] = mpVNCClient
        /\ \A u \in Numbered : seq'[u] = seq[u] /\ numbered'[u] = numbered[u]
    BY <2>1 DEF Numbered
  <2>3. /\ sendSeq \in [VNCs -> Nat]
        /\ \A v \in VNCs : sendSeq'[v] \in Nat /\ sendSeq[v] <= sendSeq'[v]
        /\ sendSeq[mpVNCClient] < sendSeq'[mpVNCClient]
    BY <2>1 DEF VncType
  <2>4. \A u \in Numbered : seq[u] \in Nat
    BY DEF Numbered
  <2>5. \A i \in DOMAIN commands' : commands'[i].seq < sendSeq'[commands'[i].vnc]
    BY <1>b, <2>1, <2>3 DEF NumberInv
  <2>6. \A u \in Numbered' : numbered'[u] \in VNCs /\ seq'[u] < sendSeq'[numbered'[u]]
    BY <2>1, <2>2, <2>3, <2>4 DEF NumberInv
  <2>7. \A u \in Numbered' : \A i \in DOMAIN commands' :
           commands'[i].vnc = numbered'[u] => commands'[i].seq # seq'[u]
    BY <1>b, <2>1, <2>2, <2>3 DEF NumberInv, Unused
  <2>8. \A u, w \in Numbered' : w # u /\ numbered'[w] = numbered'[u] => seq'[w] # seq'[u]
    <3>1. \A u \in Numbered : numbered[u] = mpVNCClient => seq[u] # sendSeq[mpVNCClient]
      BY <2>1, <2>3, <2>4 DEF NumberInv
    <3> QED BY <2>2, <3>1 DEF NumberInv
  <2>9. \A i, j \in DOMAIN commands' :
           i # j /\ commands'[i].vnc = commands'[j].vnc => commands'[i].seq # commands'[j].seq
    BY <2>1 DEF NumberInv
  <2> QED BY <2>5, <2>6, <2>7, <2>8, <2>9 DEF NumberInv, Unused
<1>3. CASE /\ UNCHANGED <<commands, sendSeq>>
           /\ Numbered' \subseteq Numbered
           /\ \A t \in Numbered' : seq'[t] = seq[t] /\ numbered'[t] = numbered[t]
  BY <1>3 DEF NumberInv, Unused
<1> QED BY <1>1, <1>2, <1>3, NumbersMade

LEMMA NumberKept ==
    ASSUME Types, NumberInv, VNCNext
    PROVE  NumberInv'
<1>1. /\ UNCHANGED <<commands, sendSeq, seq, numbered>>
      /\ \A t \in BThreads : pc'[t] = pc[t]
  BY VNCLeaves DEF found
<1>2. Numbered' = Numbered
  BY <1>1 DEF Numbered, BThreads
<1> QED BY <1>1, <1>2 DEF NumberInv, Unused

(***************************************************************************)
(* Tasks.                                                                  *)
(***************************************************************************)
LEMMA TaskStep ==
    ASSUME Types, BrowserInv, PeerInv, CommandInv, TaskInv, BrowserNext
    PROVE  TaskInv'
<1>a. QueueType /\ MapsType /\ KernelType /\ Accepted \subseteq Conns /\ Conns \subseteq Nat
      /\ Len(fdOf) \in Nat /\ \A c \in Accepted : fdOf[c] \in Fds
  BY TypesUsed DEF TypeParts
<1>b. \A i \in DOMAIN commands : commands[i].fd \in Fds
  BY CommandTypes
<1>c. 0 \notin Accepted
  BY DEF Accepted
<1>1. ASSUME NEW f \in Fds, Accept(f), UNCHANGED commands
      PROVE  TaskInv'
  <2>1. /\ sessions' = sessions
        /\ mClientMap' = [mClientMap EXCEPT ![f] = IF @ = 0 THEN Len(fdOf) + 1 ELSE @]
    BY <1>1 DEF Accept
  <2>2. Len(fdOf) + 1 \notin Accepted
    BY <1>a DEF Accepted
  <2>3. \A i \in DOMAIN commands :
           mClientMap'[commands[i].fd] = commands[i].client
              => mClientMap[commands[i].fd] = commands[i].client
    BY <1>a, <1>b, <2>1, <2>2 DEF CommandInv, MapsType
  <2> QED BY <1>1, <2>1, <2>3 DEF TaskInv, FindRequestTask
<1>2. ASSUME NEW t \in BThreads, EraseClient(t), UNCHANGED commands
      PROVE  TaskInv'
  <2>1. PICK f : /\ sessions' = [sessions EXCEPT ![f] = NoSession]
                 /\ mClientMap' = [mClientMap EXCEPT ![f] = 0]
    BY <1>2 DEF EraseClient, EraseSession
  <2>2. \A g \in Fds : sessions'[g] = IF g = f THEN NoSession ELSE sessions[g]
    BY <1>a, <2>1 DEF MapsType
  <2>3. \A g \in Fds : mClientMap'[g] = IF g = f THEN 0 ELSE mClientMap[g]
    BY <1>a, <2>1 DEF MapsType
  <2>4. \A g \in Fds : sessions'[g].client = 0 => sessions'[g].tasks = {}
    BY <2>2 DEF TaskInv, NoSession
  <2>5. \A g \in Fds : \A n \in sessions'[g].tasks :
           g # f /\ n \in sessions[g].tasks /\ sessions'[g].client = sessions[g].client
    BY <2>2 DEF NoSession
  <2>6. \A i \in DOMAIN commands :
           commands[i].packet /\ mClientMap'[commands[i].fd] = commands[i].client
              => FindRequestTask(sessions'[commands[i].fd], commands[i].seq)
    BY <1>b, <1>c, <2>2, <2>3 DEF CommandInv, TaskInv
  <2> QED BY <1>2, <2>4, <2>5, <2>6 DEF TaskInv, FindRequestTask
<1>3. ASSUME NEW t \in BThreads, SendMessageByQueue(t)
      PROVE  TaskInv'
  <2>1. /\ client[t] \in Accepted /\ mClientMap[fdOf[client[t]]] = client[t]
        /\ mClientMap' = mClientMap
    BY <1>3, CommandOf
  <2>2. PICK c \in Accepted, f \in Fds :
           c = client[t] /\ c # 0 /\ f = fdOf[c] /\ mClientMap[f] = c /\ mClientMap' = mClientMap
    BY <1>a, <1>c, <2>1
  <2>3. PICK n \in Nat :
           /\ n \notin DOMAIN commands /\ DOMAIN commands' = DOMAIN commands \cup {n}
           /\ \A i \in DOMAIN commands : commands'[i] = commands[i] /\ i < n /\ i \in Nat
           /\ commands'[n].vnc = mpVNCClient /\ commands'[n].client = client[t]
           /\ commands'[n].fd = fdOf[client[t]] /\ commands'[n].seq = seq[t]
           /\ commands'[n].packet <=> t # "main"
    BY <1>3, CommandOf
  <2>4. sessions' = [sessions EXCEPT ![f] = InsertRequestTask(@, c, seq[t], t # "main")]
    BY <1>3, <2>2 DEF SendMessageByQueue
  <2>5. \A g \in Fds : sessions'[g] = IF g = f THEN InsertRequestTask(sessions[f], c, seq[t],
      t # "main")
                                      ELSE sessions[g]
    BY <1>a, <2>2, <2>4 DEF MapsType
  <2>6. sessions[f].client \in {0, c}
    BY <2>2 DEF BrowserInv, ClientOutlivesUsers
  <2>7. /\ sessions'[f].client = c
        /\ sessions'[f].tasks = sessions[f].tasks \cup IF t # "main" THEN {seq[t]} ELSE {}
    BY <2>2, <2>5, <2>6 DEF InsertRequestTask
  <2>8. \A g \in Fds : g # f => sessions'[g] = sessions[g]
    BY <2>5
  <2>9. \A g \in Fds : sessions'[g].client = 0 => sessions'[g].tasks = {}
    BY <2>2, <2>7, <2>8 DEF TaskInv
  <2>10. \A g \in Fds : \A m \in sessions'[g].tasks :
            \E i \in DOMAIN commands' :
               commands'[i].fd = g /\ commands'[i].seq = m /\ commands'[i].client = sessions'[g].client
    <3> SUFFICES ASSUME NEW g \in Fds, NEW m \in sessions'[g].tasks
                 PROVE  \E i \in DOMAIN commands' :
                           /\ commands'[i].fd = g /\ commands'[i].seq = m
                           /\ commands'[i].client = sessions'[g].client
      OBVIOUS
    <3>1. CASE g = f /\ m \notin sessions[f].tasks
      BY <2>2, <2>3, <2>7, <3>1
    <3>2. CASE m \in sessions[g].tasks
      <4>1. PICK i \in DOMAIN commands :
               /\ commands[i].fd = g /\ commands[i].seq = m
               /\ commands[i].client = sessions[g].client
        BY <3>2 DEF TaskInv
      <4>2. sessions'[g].client = sessions[g].client
        BY <2>2, <2>6, <2>7, <2>8, <3>2 DEF TaskInv
      <4> QED BY <2>3, <4>1, <4>2
    <3> QED BY <2>8, <3>1, <3>2
  <2>11. \A i \in DOMAIN commands' :
            commands'[i].packet /\ mClientMap'[commands'[i].fd] = commands'[i].client
               => FindRequestTask(sessions'[commands'[i].fd], commands'[i].seq)
    <3> SUFFICES ASSUME NEW i \in DOMAIN commands',
                        commands'[i].packet, mClientMap'[commands'[i].fd] = commands'[i].client
                 PROVE  FindRequestTask(sessions'[commands'[i].fd], commands'[i].seq)
      OBVIOUS
    <3>1. CASE i = n
      BY <2>2, <2>3, <2>7, <3>1 DEF FindRequestTask
    <3>2. CASE i \in DOMAIN commands
      <4>1. FindRequestTask(sessions[commands[i].fd], commands[i].seq)
        BY <2>2, <2>3, <3>2 DEF TaskInv
      <4>2. CASE commands[i].fd = f
        BY <2>2, <2>3, <2>7, <3>2, <4>1, <4>2 DEF FindRequestTask
      <4>3. CASE commands[i].fd # f
        BY <1>b, <2>3, <2>8, <3>2, <4>1, <4>3
      <4> QED BY <4>2, <4>3
    <3> QED BY <2>3, <3>1, <3>2
  <2> QED BY <2>9, <2>10, <2>11 DEF TaskInv
<1>4. CASE UNCHANGED commands /\ UNCHANGED maps
  BY <1>4 DEF maps, TaskInv, FindRequestTask
<1> QED BY <1>1, <1>2, <1>3, <1>4, CommandsMade

LEMMA TaskKept ==
    ASSUME Types, TaskInv, VNCNext
    PROVE  TaskInv'
<1>1. UNCHANGED <<commands, mClientMap, sessions>>
  BY VNCLeaves DEF maps
<1> QED BY <1>1 DEF TaskInv, FindRequestTask

(***************************************************************************)
(* Browsers that wait for a peer that is gone.                             *)
(***************************************************************************)
LEMMA GoneStep ==
    ASSUME Types, BrowserInv, PeerInv, CommandInv, GoneInv, BrowserNext
    PROVE  GoneInv'
<1>a. QueueType
  BY TypesUsed DEF TypeParts
<1>b. /\ mpVNCClient' = mpVNCClient /\ shut \subseteq shut'
      /\ \A t \in VThreads : pc'[t] = pc[t]
  BY BrowsersLeave DEF vnc
<1>c. Forgetting' => Forgetting
  BY <1>b DEF Forgetting
<1>d. races' = {} => races = {}
  BY RacesGrow DEF Next
<1>1. ASSUME NEW t \in BThreads, SendMessageByQueue(t), races' = {}, Forgetting
      PROVE  FALSE
  <2>1. VNC!Queued(mpVNCClient)
    BY <1>1 DEF SendMessageByQueue
  <2>2. vphase[mpVNCClient] \in {"open", "leaving"}
    BY <2>1 DEF VNC!Queued
  <2>3. PICK u \in VThreads : pc[u] \in {"delete", "null"}
    BY <1>1 DEF Forgetting
  <2>4. mpVNCClient = work[u] /\ vphase[work[u]] = "closing"
    BY <2>3 DEF PeerInv, PointerInv, VCloserInv, VClosers
  <2> QED BY <2>2, <2>4
<1>2. ASSUME NEW t \in BThreads, SendMessageByQueue(t)
      PROVE  GoneInv'
  <2> SUFFICES ASSUME races' = {}, NEW i \in DOMAIN commands',
                      commands'[i].vnc # mpVNCClient' \/ Forgetting'
               PROVE  commands'[i].client \in shut'
    BY DEF GoneInv
  <2>1. PICK n \in Nat : /\ DOMAIN commands' = DOMAIN commands \cup {n}
                         /\ \A j \in DOMAIN commands : commands'[j] = commands[j]
                         /\ commands'[n].vnc = mpVNCClient
    BY <1>2, CommandOf
  <2>3. ~ Forgetting
    BY <1>1, <1>2
  <2>4. i \in DOMAIN commands
    BY <1>b, <1>c, <2>1, <2>3
  <2> QED BY <1>b, <1>c, <1>d, <2>1, <2>4 DEF GoneInv
<1>3. CASE UNCHANGED commands
  BY <1>3, <1>b, <1>c, <1>d DEF GoneInv
<1> QED BY <1>2, <1>3, CommandsMade

LEMMA GoneKept ==
    ASSUME Types, BrowserInv, PeerInv, CommandInv, GoneInv, VNCNext
    PROVE  GoneInv'
<1>a. QueueType /\ MapsType /\ VncType /\ PlaceType /\ Browser!ServiceTypeOK
      /\ Accepted \subseteq Conns /\ \A c \in Accepted : fdOf[c] \in Fds
  BY TypesUsed DEF TypeParts
<1>b. UNCHANGED <<commands>> /\ shut \subseteq shut'
  BY VNCLeaves
<1>c. races' = {} => races = {}
  BY RacesGrow DEF Next
<1>d. \A i \in DOMAIN commands : commands[i].vnc \in VNCs
  BY CommandTypes
<1> SUFFICES ASSUME races' = {}, NEW i \in DOMAIN commands,
                    commands[i].vnc # mpVNCClient' \/ Forgetting'
             PROVE  commands[i].client \in shut'
  BY <1>b DEF GoneInv
<1>1. races = {}
  BY <1>c
<1>2. ASSUME NEW v \in VNCs, AcceptVNC(v)
      PROVE  commands[i].client \in shut'
  <2>1. /\ pc["vmain"] = "idle"
        /\ pc' = pc \/ pc' = [pc EXCEPT !["vmain"] = "disconnect"]
    BY <1>2 DEF AcceptVNC, At, Goto
  <2>2. mpVNCClient = 0 \/ mpVNCClient' = mpVNCClient
    BY <1>2 DEF AcceptVNC, vnc
  <2>3. Forgetting' => Forgetting
    BY <1>a, <2>1 DEF Forgetting, PlaceType, Threads
  <2>4. CASE mpVNCClient = 0
    BY <1>1, <1>b, <1>d, <2>4 DEF GoneInv, VNCs
  <2>5. CASE mpVNCClient' = mpVNCClient
    BY <1>1, <1>b, <2>3, <2>5 DEF GoneInv
  <2> QED BY <2>2, <2>4, <2>5
<1>3. ASSUME NEW t \in VThreads, CloseSessionByVNC(t)
      PROVE  commands[i].client \in shut'
  <2>1. shut' = shut \cup (Range(mClientMap) \ {0})
    BY <1>3 DEF CloseSessionByVNC, ShutAllClients
  <2>2. PICK c \in Accepted : c = commands[i].client /\ c \in Conns /\ c # 0
    BY <1>a DEF CommandInv, Accepted
  <2>3. CASE phase[c] \notin {"new", "open"}
    BY <1>b, <2>2, <2>3 DEF BrowserInv, PhaseInv
  <2>4. CASE phase[c] = "open"
    <3>1. mClientMap[fdOf[c]] = c /\ fdOf[c] \in DOMAIN mClientMap
      BY <1>a, <2>2, <2>4 DEF BrowserInv, ClientInv, MapsType
    <3> QED BY <2>1, <2>2, <3>1 DEF Range
  <2>5. phase[c] # "new"
    BY <2>2 DEF BrowserInv, PhaseInv
  <2> QED BY <2>3, <2>4, <2>5
<1>4. ASSUME NEW t \in VThreads, DeleteVNCClient(t) \/ ClearVNCClient(t)
      PROVE  commands[i].client \in shut'
  <2>1. Forgetting
    BY <1>4 DEF DeleteVNCClient, ClearVNCClient, Forgetting, At
  <2> QED BY <1>1, <1>b, <2>1 DEF GoneInv
<1>5. CASE mpVNCClient' = mpVNCClient /\ (Forgetting' => Forgetting)
  BY <1>1, <1>5, <1>b DEF GoneInv
<1> QED BY <1>2, <1>3, <1>4, <1>5, PeerForgets

(***************************************************************************)
(* The invariant holds at first, and every step keeps it.                  *)
(***************************************************************************)
LEMMA BrowserInvInit == Init => BrowserInv
<1> SUFFICES ASSUME Init PROVE BrowserInv
  OBVIOUS
<1>1. /\ \A t \in BThreads : pc[t] = "idle"
      /\ phase = [c \in Conns |-> "new"] /\ packets = [c \in Conns |-> 0]
      /\ mClientMap = [f \in Fds |-> 0] /\ sessions = [f \in Fds |-> NoSession]
  BY DEF Init, Threads, Browser!ServiceInit, Browser!Conns, Conns
<1>2. Accepted = {}
  BY DEF Init, Accepted
<1>3. \A c \in Conns : InHand(c) = {}
  BY <1>1 DEF InHand, SendSteps, BThreads
<1>4. PhaseInv /\ LatestInv
  BY <1>1, <1>2 DEF PhaseInv, LatestInv
<1>5. HandInv
  BY <1>1, <1>3, FS_EmptySet DEF HandInv
<1>6. CloserInv
  BY <1>1 DEF CloserInv, MainSteps, Closers, BThreads
<1>7. ClientInv
  BY <1>1, <1>2 DEF ClientInv
<1>8. ClientOutlivesUsers
  BY <1>1 DEF ClientOutlivesUsers, Using, BThreads, NoSession
<1> QED BY <1>4, <1>5, <1>6, <1>7, <1>8 DEF BrowserInv

LEMMA PeerInvInit == Init => PeerInv
<1> SUFFICES ASSUME Init PROVE PeerInv
  OBVIOUS
<1>1. /\ \A t \in VThreads : pc[t] = "idle"
      /\ vphase = [v \in VNCs |-> "new"] /\ vpackets = [v \in VNCs |-> 0]
      /\ vreplies = [v \in VNCs |-> 0] /\ mpVNCClient = 0
  BY DEF Init, Threads, VNC!ServiceInit, VNC!Conns, VNCs
<1>2. \A v \in VNCs : VNCInHand(v) = {}
  BY <1>1 DEF VNCInHand, ParseSteps, VThreads
<1>3. VPhaseInv /\ RefusedInv
  BY <1>1 DEF VPhaseInv, RefusedInv
<1>4. VHandInv
  BY <1>1, <1>2, FS_EmptySet DEF VHandInv
<1>5. VCloserInv
  BY <1>1 DEF VCloserInv, VClosers, VThreads
<1>6. PointerInv
  BY <1>1 DEF PointerInv
<1> QED BY <1>3, <1>4, <1>5, <1>6 DEF PeerInv

LEMMA QueueInvInit == Init => QueueInv
<1> SUFFICES ASSUME Init PROVE QueueInv
  OBVIOUS
<1>1. /\ DOMAIN commands = {} /\ \A t \in BThreads : pc[t] = "idle"
      /\ sessions = [f \in Fds |-> NoSession]
  BY DEF Init, Threads
<1>2. Numbered = {}
  BY <1>1 DEF Numbered
<1>3. CommandInv /\ NumberInv /\ GoneInv
  BY <1>1, <1>2 DEF CommandInv, ConnectionsFollowEachOther, NumberInv, GoneInv
<1>4. TaskInv
  BY <1>1 DEF TaskInv, NoSession
<1> QED BY <1>3, <1>4 DEF QueueInv

LEMMA BrowserInvStep ==
    ASSUME Types, BrowserInv, BrowserNext
    PROVE  BrowserInv'
BY PhaseStep, HandStep, CloserStep, LatestStep, ClientStep, UsersStep DEF BrowserInv

LEMMA PeerInvStep ==
    ASSUME Types, PeerInv, VNCNext
    PROVE  PeerInv'
BY VPhaseStep, VHandStep, VCloserStep, PointerStep, RefusedStep DEF PeerInv

LEMMA QueueInvStep ==
    ASSUME Types, BrowserInv, PeerInv, QueueInv, BrowserNext \/ VNCNext
    PROVE  QueueInv'
<1>1. CASE BrowserNext
  BY <1>1, CommandStep, NumberStep, TaskStep, GoneStep DEF QueueInv
<1>2. CASE VNCNext
  <2>1. VPhaseInv'
    BY <1>2, VPhaseStep DEF PeerInv
  <2> QED BY <1>2, <2>1, CommandKept, NumberKept, TaskKept, GoneKept DEF QueueInv
<1> QED BY <1>1, <1>2

LEMMA PartsUnchanged ==
    ASSUME BrowserInv, PeerInv, QueueInv, UNCHANGED vars
    PROVE  BrowserInv' /\ PeerInv' /\ QueueInv'
<1> USE DEF vars, browsers, peer, kernel, maps, vnc, locals, found, queue
<1>1. BrowserInv'
  BY DEF BrowserInv, PhaseInv, HandInv, InHand, CloserInv, LatestInv, ClientInv, Accepted,
         ClientOutlivesUsers, Using
<1>2. PeerInv'
  BY DEF PeerInv, VPhaseInv, VHandInv, VNCInHand, VCloserInv, PointerInv, RefusedInv
<1>3. QueueInv'
  BY DEF QueueInv, CommandInv, ConnectionsFollowEachOther, Accepted, NumberInv, Numbered, Unused,
         TaskInv, FindRequestTask, GoneInv, Forgetting
<1> QED BY <1>1, <1>2, <1>3

(***************************************************************************)
(* The invariant of TcpProxyServerInvariants holds in every state: the     *)
(* control points and locks of all threads, that a descriptor's Client and *)
(* session are those of its latest connection until that is closed, that   *)
(* mpVNCClient points to the one connection of the peer that is served,    *)
(* and that every number and task belongs to one command.                  *)
(***************************************************************************)
THEOREM InvariantHolds == Spec => []InductiveInv
<1>1. Init => InductiveInv
  BY TypeInit, LockInit, BrowserInvInit, PeerInvInit, QueueInvInit DEF InductiveInv
<1>2. InductiveInv /\ [Next]_vars => InductiveInv'
  <2> SUFFICES ASSUME InductiveInv, [Next]_vars PROVE InductiveInv'
    OBVIOUS
  <2>1. TypeOK' /\ ControlInv'
    BY TypeStep
  <2>2. LockInv'
    BY LockStep
  <2>3. Types /\ BrowserInv /\ PeerInv /\ QueueInv
    BY DEF InductiveInv, Types
  <2>4. BrowserInv' /\ PeerInv' /\ QueueInv'
    <3>1. CASE BrowserNext
      BY <2>3, <3>1, BrowserInvStep, PeerInvKept, QueueInvStep
    <3>2. CASE VNCNext
      BY <2>3, <3>2, BrowserInvKept, PeerInvStep, QueueInvStep
    <3>3. CASE UNCHANGED vars
      BY <2>3, <3>3, PartsUnchanged
    <3> QED BY <3>1, <3>2, <3>3 DEF Next, Terminating
  <2> QED BY <2>1, <2>2, <2>4 DEF InductiveInv
<1> QED BY <1>1, <1>2, PTL DEF Spec

(***************************************************************************)
(* Types, for any number of descriptors, threads and connections.          *)
(***************************************************************************)
THEOREM TypeCorrect == Spec => []TypeOK
<1>1. InductiveInv => TypeOK
  BY DEF InductiveInv
<1> QED BY <1>1, InvariantHolds, PTL

(***************************************************************************)
(* The threads of both servers never wait for each other in a circle,      *)
(* however many handlers there are.                                        *)
(***************************************************************************)
THEOREM NoDeadlock == Spec => []NoCircularWait
<1>1. InductiveInv => NoCircularWait
  BY LockOrder DEF InductiveInv
<1> QED BY <1>1, InvariantHolds, PTL

(***************************************************************************)
(* A handler that uses the Client it found in mClientMap after it released *)
(* the lock uses one that is not deleted, and a session's Client is that   *)
(* of the map: the descriptor cannot be accepted again and the Client not  *)
(* erased while the TcpServer holds a packet of the connection.            *)
(***************************************************************************)
THEOREM ClientsOutliveUsers == Spec => []ClientOutlivesUsers
<1>1. InductiveInv => ClientOutlivesUsers
  BY DEF InductiveInv, BrowserInv
<1> QED BY <1>1, InvariantHolds, PTL

\* Who parses has a packet in hand, so its connection is in service, and then it is
\* the one mpVNCClient points to.
LEMMA Parsing == TypeOK /\ ControlInv /\ PeerInv => ParserAlive
<1> SUFFICES ASSUME TypeOK, ControlInv, PeerInv, NEW h \in VNCHandlers, pc[h] \in ParseSteps
             PROVE  mpVNCClient = work[h] /\ mpVNCClient \in alive
  BY DEF ParserAlive
<1>a. VNC!ServiceTypeOK /\ VncType
  BY TypeOfParts DEF TypeParts
<1>1. work[h] \in VNCs
  BY DEF ControlInv, VThreads, ParseSteps
<1>2. vpackets[work[h]] \in Nat /\ vpackets[work[h]] # 0
  <2>1. h \in VNCInHand(work[h])
    BY DEF VNCInHand
  <2>2. Cardinality(VNCInHand(work[h])) # 0 /\ Cardinality(VNCInHand(work[h])) \in Nat
    BY <2>1, HandsFinite, FS_EmptySet
  <2>3. Cardinality(VNCInHand(work[h])) <= vpackets[work[h]]
    BY <1>1 DEF PeerInv, VHandInv
  <2>4. vpackets[work[h]] \in Nat
    BY <1>a, <1>1 DEF VNC!ServiceTypeOK, VNC!Conns, VNCs
  <2> QED BY <2>2, <2>3, <2>4
<1>3. vphase[work[h]] \in {"open", "leaving"}
  BY <1>1, <1>2 DEF PeerInv, VPhaseInv
<1>4. mpVNCClient = work[h]
  BY <1>1, <1>2, <1>3 DEF PeerInv, RefusedInv
<1>5. mpVNCClient \in alive
  <2> SUFFICES ASSUME mpVNCClient \notin alive PROVE FALSE
    OBVIOUS
  <2>1. PICK t \in VThreads : pc[t] = "null"
    BY <1>1, <1>4 DEF PeerInv, PointerInv, VNCs
  <2>2. mpVNCClient = work[t] /\ vphase[work[t]] = "closing"
    BY <2>1 DEF PeerInv, PointerInv, VCloserInv, VClosers
  <2> QED BY <1>3, <1>4, <2>2
<1> QED BY <1>4, <1>5

(***************************************************************************)
(* A handler of the peer's server parses with the live Client of the con-  *)
(* nection its packet came on, though it takes mpVNCClient for it: a con-  *)
(* nection that is refused delivers no packet, and the Client of the one   *)
(* that is served is deleted after its last packet.                        *)
(***************************************************************************)
THEOREM ParsersAlive == Spec => []ParserAlive
<1>1. InductiveInv => ParserAlive
  BY Parsing DEF InductiveInv
<1> QED BY <1>1, InvariantHolds, PTL

(***************************************************************************)
(* Commands of connections that had the same descriptor go to the peer one *)
(* connection after the other.                                             *)
(***************************************************************************)
THEOREM ConnectionsInOrder == Spec => []ConnectionsFollowEachOther
<1>1. InductiveInv => ConnectionsFollowEachOther
  BY DEF InductiveInv, QueueInv, CommandInv
<1> QED BY <1>1, InvariantHolds, PTL

(***************************************************************************)
(* As long as a browser is there, each packet it sent can be answered: its *)
(* command has a number of its own and its task is in the session.         *)
(***************************************************************************)
THEOREM EveryCommandAnswerable == Spec => []CommandsAnswerable
<1>1. InductiveInv => CommandsAnswerable
  BY DEF InductiveInv, QueueInv, NumberInv, TaskInv, CommandsAnswerable
<1> QED BY <1>1, InvariantHolds, PTL

\* The command a task is of and the one that is answered are of one connection.
LEMMA AskerFound ==
    TypeOK /\ ControlInv /\ BrowserInv /\ PeerInv /\ QueueInv => AnswersReachAsker
<1> SUFFICES ASSUME TypeOK, ControlInv, BrowserInv, PeerInv, QueueInv, NEW i \in DOMAIN commands,
                    commands[i].vnc = mpVNCClient,
                    FindRequestTask(sessions[commands[i].fd], commands[i].seq)
             PROVE  sessions[commands[i].fd].client = commands[i].client
  BY DEF AnswersReachAsker
<1>a. Types /\ QueueType /\ Accepted \subseteq Conns /\ Conns \subseteq Nat /\ VNCs \subseteq Nat
  BY TypesUsed DEF Types, TypeParts
<1>b. commands[i].vnc \in VNCs /\ commands[i].fd \in Fds /\ commands[i].seq \in Nat
  BY <1>a, CommandTypes
<1>1. PICK j \in DOMAIN commands :
         /\ commands[j].fd = commands[i].fd /\ commands[j].seq = commands[i].seq
         /\ commands[j].client = sessions[commands[i].fd].client
  BY <1>b DEF QueueInv, TaskInv, FindRequestTask
<1>2. /\ commands[j].client \in Accepted /\ commands[i].client \in Accepted
      /\ fdOf[commands[j].client] = fdOf[commands[i].client]
  BY <1>1 DEF QueueInv, CommandInv
<1>3. phase[commands[j].client] # "closed"
  <2>1. mClientMap[commands[i].fd] = commands[j].client /\ commands[j].client # 0
    BY <1>b, <1>1 DEF BrowserInv, ClientOutlivesUsers, FindRequestTask
  <2> QED BY <1>b, <2>1 DEF BrowserInv, ClientInv
<1>4. i \in Nat /\ j \in Nat
  BY <1>a DEF QueueType
<1>5. CASE j = i
  BY <1>1, <1>5
<1>6. CASE j # i
  <2>1. commands[j].vnc # commands[i].vnc
    BY <1>1, <1>6 DEF QueueInv, NumberInv
  <2>2. commands[j].vnc \in Nat /\ commands[i].vnc \in Nat
    BY <1>a, <1>b, CommandTypes
  <2>3. commands[j].vnc <= commands[i].vnc
    BY <1>b DEF QueueInv, CommandInv, VNCs
  <2>4. j < i
    <3>1. CASE i < j
      BY <2>1, <2>2, <2>3, <3>1 DEF QueueInv, CommandInv
    <3> QED BY <1>4, <1>6, <3>1
  <2>5. commands[j].client <= commands[i].client
    BY <1>1, <2>4 DEF QueueInv, CommandInv, ConnectionsFollowEachOther
  <2>6. ~ (commands[j].client < commands[i].client)
    BY <1>2, <1>3 DEF BrowserInv, LatestInv
  <2>7. commands[j].client \in Nat /\ commands[i].client \in Nat
    BY <1>a, <1>2
  <2> QED BY <1>1, <2>5, <2>6, <2>7
<1> QED BY <1>5, <1>6

(***************************************************************************)
(* An answer goes to the connection that asked, though descriptors are     *)
(* used again: a task under the number is of a command with that number,   *)
(* sent on the present connection of the peer or on an earlier one; then   *)
(* its browser's connection is not later than the asker's, and were it     *)
(* earlier it would be closed and its session erased.                      *)
(***************************************************************************)
THEOREM AnswersReachTheirAsker == Spec => []AnswersReachAsker
<1>1. InductiveInv => AnswersReachAsker
  BY AskerFound DEF InductiveInv
<1> QED BY <1>1, InvariantHolds, PTL

(***************************************************************************)
(* When a connection of the peer is closed every browser with a command on *)
(* it was shut down, unless a race was entered.                            *)
(***************************************************************************)
THEOREM NobodyLeftWaiting == Spec => []NobodyWaitsForGonePeer
<1>1. InductiveInv => NobodyWaitsForGonePeer
  <2> SUFFICES ASSUME InductiveInv, races = {}, NEW i \in DOMAIN commands,
                      vphase[commands[i].vnc] = "closed"
               PROVE  commands[i].client \in shut
    BY DEF NobodyWaitsForGonePeer
  <2>1. Types /\ PeerInv /\ QueueInv
    BY DEF InductiveInv, Types
  <2>2. commands[i].vnc \in VNCs
    BY <2>1, CommandTypes
  <2>3. commands[i].vnc # mpVNCClient
    BY <2>1, <2>2 DEF PeerInv, PointerInv, VNCs
  <2> QED BY <2>1, <2>3 DEF QueueInv, GoneInv
<1> QED BY <1>1, InvariantHolds, PTL
=============================================================================
