------------------------------- MODULE Client -------------------------------
(***************************************************************************)
(* The Client object of the VNC connection (src/TcpPorxyServer/Client.cpp) *)
(* between the TcpServer that numbers the data packets it receives and     *)
(* the observer that gets commands: handler threads take packets from one  *)
(* queue in order and reach ParseData in any order, which keeps those that *)
(* come early in mMessageMap, in messages of a pool the connections share. *)
(* ParseData holds mKMutex from end to end and is one step here.           *)
(*                                                                         *)
(* A connection ends when the peer or ParseData shut it down and every     *)
(* packet was handled; the Client is then deleted and the peer connects    *)
(* again.  ~Client does not give the messages it keeps back to the pool.   *)
(***************************************************************************)
EXTENDS FrameParser, FiniteSets

CONSTANTS Handlers,   \* handle threads of the VNC server
          PoolSize,   \* messages Run puts in mIdleMessageList
          HandleSize, \* mHandleSize of the VNC server, 0 = no limit
          MaxPacket,  \* bound: bytes of the largest packet recv returns
          MaxConns,   \* bound: connections of the peer
          None        \* no packet

ASSUME ClientAssumption ==
    /\ {PoolSize, HandleSize} \subseteq Nat /\ {MaxPacket, MaxConns} \subseteq Nat \ {0}
    /\ None \notin Int

VARIABLES
    packets,   \* the data packets of this connection, in the order received
    received,  \* how many bytes recv returned
    queue,     \* numbers of the packets in mHandleMessageList
    held,      \* handler -> number of the packet it handles, or None
    ending,    \* the socket was shut down, by the peer or by Disconnect
    expected,  \* miDataPacketRecvSeq
    kept,      \* keys of mMessageMap; the copy under a key is its packet
    mBuffer,   \* bytes of a command that is not whole
    mbError,   \* mbError
    idle,      \* how many messages mIdleMessageList holds
    given,     \* ghost: commands given to OnParseCmd, oldest first
    gap,       \* ghost: bytes of this connection were dropped
    garbled,   \* ghost: memcpy moved bytes onto themselves and did not keep them
    nconn,     \* ghost: connections so far, this one included
    lost       \* ghost: messages of the pool that nothing refers to any more

connection == <<packets, received, queue, held, ending>>
client     == <<expected, kept, mBuffer, mbError>>
ghosts     == <<given, gap, garbled, nconn, lost>>
vars       == <<connection, client, idle, ghosts>>

Data(n) == packets[n + 1]

TypeOK ==
    /\ packets \in Seq(Seq(1 .. StreamLen)) /\ received \in 0 .. StreamLen
    /\ queue \in Seq(Nat) /\ held \in [Handlers -> Nat \cup {None}]
    /\ {ending, mbError, gap, garbled} \subseteq BOOLEAN
    /\ expected \in 0 .. Len(packets) /\ kept \subseteq 0 .. Len(packets) - 1
    /\ mBuffer \in Seq(1 .. StreamLen) /\ Len(mBuffer) <= BufferLen
    /\ idle \in 0 .. PoolSize /\ lost \in 0 .. PoolSize
    /\ given \in Seq(Seq(1 .. StreamLen)) /\ nconn \in 1 .. MaxConns

\* The peer is connected and OnAccept made its Client.
Init ==
    /\ packets = <<>> /\ received = 0 /\ ending = FALSE
    /\ expected = 0 /\ kept = {} /\ mBuffer = <<>> /\ mbError = FALSE
    /\ queue = <<>> /\ held = [h \in Handlers |-> None]
    /\ idle = PoolSize
    /\ given = <<>> /\ gap = FALSE /\ garbled = FALSE /\ nconn = 1 /\ lost = 0

OverHandleSize == HandleSize > 0 /\ Len(queue) > HandleSize

\* recv returns the next n bytes; the packet is numbered and queued.
RecvPacket(n) ==
    /\ received + n <= StreamLen /\ ~ OverHandleSize
    /\ packets' = Append(packets, Bytes(received + 1, n))
    /\ queue' = Append(queue, Len(packets))
    /\ received' = received + n
    /\ UNCHANGED <<held, ending, client, idle, ghosts>>

\* With the queue over its limit they are dropped and the socket is shut down;
\* what the kernel has already received can still be read after them.
DropPacket(n) ==
    /\ received + n <= StreamLen /\ OverHandleSize
    /\ received' = received + n
    /\ gap' = TRUE /\ ending' = TRUE
    /\ UNCHANGED <<packets, queue, held, client, idle, given, garbled, nconn, lost>>

PeerClose ==
    /\ ~ ending /\ ending' = TRUE
    /\ UNCHANGED <<packets, received, queue, held, client, idle, ghosts>>

HandlePop(h) ==
    /\ held[h] = None /\ queue # <<>>
    /\ held' = [held EXCEPT ![h] = Head(queue)]
    /\ queue' = Tail(queue)
    /\ UNCHANGED <<packets, received, ending, client, idle, ghosts>>

(***************************************************************************)
(* ParseData: a packet with the expected number is parsed, then the kept   *)
(* ones that follow it; another one is kept, or is an error with no idle   *)
(* message.  After an error nothing is parsed any more.                    *)
(***************************************************************************)
\* (Definitions marked wrong vary the one below them to test the properties.)
InTurnOrNext(n) == n <= expected + 1    \* wrong
InTurn(n)       == n = expected

Broken == mbError

\* The kept packets that follow number n without a gap.
FollowOne(n) == {m \in kept : m = n + 1}    \* wrong
Follow(n)    == {m \in kept : \A i \in n + 1 .. m : i \in kept}

\* How many messages go back to the pool when the kept packets in "used" are
\* done with.
NoneBack(used) == 0    \* wrong
Back(used)     == Cardinality(used)

\* Packet m is parsed, unless a header was refused before it.
ParseNext(before, m) ==
    LET now == ParseDataNoCache[<<before.parsed.rest, Data(m)>>]
    IN  IF before.parsed.ok
        THEN [parsed |-> After(before.parsed.cmds, before.parsed.overlap, now),
              next   |-> IF now.ok THEN m + 1 ELSE m]
        ELSE before

\* Packet n is parsed, then the kept ones that follow it in turn: the outcome, and in
\* "next" the number after the last one parsed in full.
ParsePackets(n) ==
    LET Parsed[k \in 0 .. Cardinality(Follow(n))] ==
            IF k = 0 THEN ParseNext([parsed |-> Outcome(mBuffer, TRUE), next |-> n], n)
            ELSE ParseNext(Parsed[k - 1], n + k)
    IN  Parsed[Cardinality(Follow(n))]

\* The message whose parsing fails goes back to the pool as well.  When memcpy had to
\* move bytes onto themselves what follows may be anything: the model stops.
ParseInTurn(n) ==
    /\ InTurn(n) /\ ~ Broken
    /\ \E p \in {ParsePackets(n)} :
          LET used == {m \in Follow(n) : m < p.next \/ (~ p.parsed.ok /\ m = p.next)} IN
          /\ mBuffer' = p.parsed.rest
          /\ given' = given \o p.parsed.cmds
          /\ expected' = p.next
          /\ kept' = kept \ used
          /\ idle' = idle + Back(used)
          /\ mbError' = ~ p.parsed.ok
          /\ ending' = (ending \/ ~ p.parsed.ok)
          /\ garbled' \in {FALSE, p.parsed.overlap}

KeepAnyway(n) ==    \* wrong
    /\ ~ InTurn(n) /\ ~ Broken
    /\ kept' = kept \cup {n}
    /\ idle' = idle - 1
    /\ UNCHANGED <<expected, mBuffer, mbError, ending, given, garbled>>

Keep(n) ==
    /\ ~ InTurn(n) /\ ~ Broken /\ idle > 0
    /\ kept' = kept \cup {n}
    /\ idle' = idle - 1
    /\ UNCHANGED <<expected, mBuffer, mbError, ending, given, garbled>>

Fail(n) ==
    /\ Broken \/ (~ InTurn(n) /\ idle = 0)
    /\ mbError' = TRUE /\ ending' = TRUE
    /\ UNCHANGED <<expected, kept, mBuffer, idle, given, garbled>>

ParseData(h) ==
    /\ held[h] # None
    /\ held' = [held EXCEPT ![h] = None]
    /\ \/ ParseInTurn(held[h])
       \/ Keep(held[h])
       \/ Fail(held[h])
    /\ UNCHANGED <<packets, received, queue, gap, nconn, lost>>

Drained == queue = <<>> /\ \A h \in Handlers : held[h] = None

\* OnClose deletes the Client, OnAccept makes one for the next connection.
Reconnect ==
    /\ ending /\ Drained /\ nconn < MaxConns
    /\ packets' = <<>> /\ received' = 0 /\ ending' = FALSE
    /\ expected' = 0 /\ kept' = {} /\ mBuffer' = <<>> /\ mbError' = FALSE
    /\ given' = <<>> /\ gap' = FALSE
    /\ lost' = lost + Cardinality(kept)
    /\ nconn' = nconn + 1
    /\ UNCHANGED <<queue, held, idle, garbled>>

Done == Drained /\ ending /\ nconn = MaxConns

Next ==
    \/ /\ ~ garbled
       /\ \/ \E n \in 1 .. MaxPacket : RecvPacket(n) \/ DropPacket(n)
          \/ PeerClose
          \/ \E h \in Handlers : HandlePop(h) \/ ParseData(h)
          \/ Reconnect
    \/ (Done \/ garbled) /\ UNCHANGED vars

Spec == Init /\ [][Next]_vars

-----------------------------------------------------------------------------
(***************************************************************************)
(* Commands are given once each, whole and in the order of the stream,     *)
(* however the packets split them and in whatever order handlers come,     *)
(* while no bytes were dropped and none garbled by memcpy (Client.cpp      *)
(* 74-181, 237-379).                                                       *)
(***************************************************************************)
CommandsInOrder ==
    ~ gap /\ ~ garbled => /\ Len(given) <= Len(Lens)
                          /\ \A i \in DOMAIN given : given[i] = Command(i) /\ Lens[i] >= 0

(***************************************************************************)
(* No packet waits for ever in mMessageMap: once the handlers are through, *)
(* unless there was an error, the map is empty and, with no bytes dropped, *)
(* every command received whole was given and mBuffer holds the rest       *)
(* (Client.cpp 144-178).                                                   *)
(***************************************************************************)
Complete(c) == StartOf[c + 1] - 1 <= received

NothingStranded ==
    Drained /\ ~ mbError /\ ~ garbled =>
        /\ kept = {} /\ expected = Len(packets)
        /\ ~ gap =>
              /\ Len(given) = Cardinality({c \in Commands : Complete(c)})
              /\ mBuffer = Bytes(StartOf[Len(given) + 1], received + 1 - StartOf[Len(given) + 1])

(***************************************************************************)
(* Every message of the pool is idle, in mMessageMap or lost, and messages *)
(* are lost only by a Client that met an error (Client.cpp 88-106, 26-29). *)
(***************************************************************************)
PoolAccounted ==
    /\ idle + Cardinality(kept) + lost = PoolSize
    /\ (Drained /\ kept # {} /\ ~ garbled) => mbError
=============================================================================
