------------------------ MODULE ProxySystemInvariants ------------------------
(***************************************************************************)
(* The inductive invariant of ProxySystem: the types, and, until a race is *)
(* entered, whose bytes a parser has, where each piece of an answer is,    *)
(* and why a browser is hung up on.                                        *)
(***************************************************************************)
EXTENDS ProxySystem, Functions

-----------------------------------------------------------------------------
(***************************************************************************)
(* Types, and what goes together, races or not.                            *)
(***************************************************************************)
ToPeer   == [type : {"Proxy", "ProxyDisconnect"}, fd : Fds, seq : Nat, of : Browsers]
Pieces   == [type : {"Proxy"}, fd : Fds, seq : Nat, of : SUBSET Browsers, request : Requests,
             piece : 1 .. MaxPieces]
Closings == [type : {"ProxyDisconnect"}, fd : Fds, of : SUBSET Browsers]

Answers  == Pieces \cup Closings
Replies  == [to : Browsers, request : Requests, piece : 1 .. MaxPieces]

InHand == pc[Receiver] \in {"parse", "erase", "send"}

PlacesType ==
    /\ pc \in [Threads -> {"connect", "recv", "parse", "erase", "none", "run", "send", "end",
                           "hangup", "unlock", "deleted"}]
    /\ pc[Receiver] \in {"connect", "recv", "parse", "erase", "send"}
    /\ \A r \in Requests :
          /\ pc[r] \in {"none", "run", "send", "end", "hangup", "unlock", "deleted"}
          /\ lock = r <=> pc[r] \in {"hangup", "unlock"}
    /\ lock \in Requests \cup {Nobody}
    /\ half \in Threads \cup {Nobody} /\ (half # Nobody => pc[half] \in {"send", "hangup"})

BrowsersType ==
    /\ fdOf \in Seq(Fds) /\ Len(fdOf) <= MaxBrowsers
    /\ phase \in [Browsers -> {"new", "open", "leaving", "closed"}]
    /\ unsent \in 0 .. MaxPackets /\ packets \in [Browsers -> 0 .. MaxPackets]
    /\ \A b \in Browsers : packets[b] + unsent <= MaxPackets
    /\ tasks \in [Browsers -> SUBSET Nat]
    /\ shut \subseteq 1 .. Len(fdOf) /\ gone \subseteq shut /\ excused \subseteq Browsers

RepliesType ==
    /\ replies \in Seq(Replies) /\ InUse <= BrowserPool
    /\ heard \in [Browsers -> Seq(Requests \X (1 .. MaxPieces))]

VNCType ==
    /\ vnc \in {"none", "online", "offline"} /\ sendSeq \in Nat
    /\ sending \in Seq(ToPeer) /\ handling \in Seq(Answers)
    /\ Len(sending) + Len(handling) <= VNCPool

LinkType ==
    /\ nlinks \in 0 .. MaxLinks /\ alive \in BOOLEAN
    /\ down \in Seq(ToPeer) /\ Len(down) <= DownRoom
    /\ up \in Seq(Answers) /\ Len(up) <= UpRoom

RequestsType ==
    /\ parser \in [Fds -> SUBSET Browsers]
    /\ InHand => cmd \in ToPeer /\ (cmd.type = "Proxy" <=> pc[Receiver] # "erase")
    /\ request \in [Requests -> [fd : Fds \cup {Nobody}, seq : Nat, of : SUBSET Browsers,
                                 pieces : 0 .. MaxPieces]]
    /\ \A r \in Requests :
          /\ pc[r] = "none" => request[r].of = {} /\ request[r].pieces = 0
          /\ pc[r] # "none" => request[r].fd \in Fds
          /\ pc[r] = "send" => request[r].pieces > 0

RacesType == races \subseteq {"torn", "latePacket", "lostDisconnect", "keptParser", "outlived"}

TypeInv == /\ PlacesType /\ BrowsersType /\ RepliesType /\ VNCType /\ LinkType /\ RequestsType
           /\ RacesType

\* The connection of the programs, and what is left of one that is lost.
LinkInv ==
    /\ ~ alive => down = <<>> /\ half = Nobody
    /\ vnc # "online" => ~ alive /\ up = <<>>
    /\ vnc = "none" => sending = <<>> /\ handling = <<>>
    /\ pc[Receiver] = "connect" => ~ alive

\* Who has a descriptor, and what is left of a browser that is closed.
PhaseInv ==
    /\ \A b \in Browsers :
          /\ phase[b] = "new" <=> b > Len(fdOf)
          /\ phase[b] = "leaving" => b \in shut
          /\ phase[b] \in {"new", "closed"} =>
                tasks[b] = {} /\ packets[b] = 0 /\ \A i \in DOMAIN replies : replies[i].to # b
    /\ \A b, c \in DOMAIN fdOf :
          fdOf[b] = fdOf[c] /\ phase[b] # "closed" /\ phase[c] # "closed" => b = c

\* What keeps somebody at work: a part of a command has a place, a browser that is
\* leaving has something outstanding, and one that is closed was shut down.
Busy(b) == packets[b] > 0 \/ \E i \in DOMAIN replies : replies[i].to = b

WorkInv ==
    /\ half # Nobody => Len(up) < UpRoom
    /\ \A b \in Browsers :
          /\ phase[b] = "leaving" => Busy(b)
          /\ phase[b] = "closed" => b \in shut

-----------------------------------------------------------------------------
(***************************************************************************)
(* Until a race is entered.  A packet is known by its number: the browser  *)
(* it is of has a task under that number, and no other on its descriptor.  *)
(***************************************************************************)
Known(fd, n, b) ==
    /\ b \in DOMAIN fdOf /\ fdOf[b] = fd /\ n < sendSeq
    /\ phase[b] # "closed" => n \in tasks[b]
    /\ \A c \in DOMAIN fdOf : fdOf[c] = fd /\ c # b => n \notin tasks[c]

\* Commands on the way to the parsers, oldest first.
Going == (IF pc[Receiver] \in {"parse", "erase"} THEN <<cmd>> ELSE <<>>) \o (down \o sending)

\* And on the way from the peer to the handler.
Coming == handling \o up

Packet(i, fd, b) == i \in DOMAIN Going /\ Going[i].type = "Proxy" /\ Going[i].fd = fd
                    /\ Going[i].of = b
Erases(i, fd)    == i \in DOMAIN Going /\ Going[i].type = "ProxyDisconnect" /\ Going[i].fd = fd

KnownInv ==
    /\ \A c \in Range(Going) : c.type = "Proxy" => Known(c.fd, c.seq, c.of)
    /\ \A fd \in Fds : \A b \in parser[fd] : b \in DOMAIN fdOf /\ fdOf[b] = fd
    /\ \A r \in Requests : pc[r] # "none" => \E b \in Browsers : request[r].of = {b}
    /\ \A r \in Requests : \A q \in {request[r]} :
          pc[r] \notin {"none", "deleted"} => \A b \in q.of : Known(q.fd, q.seq, b)
    /\ \A c \in Range(Coming) : c.type = "Proxy" => \A b \in c.of : Known(c.fd, c.seq, b)

\* The bytes of a browser are erased before a parser gets those of another.
ErasedInv ==
    /\ pc[Receiver] = "parse" => parser[cmd.fd] \subseteq {cmd.of}
    /\ alive => \A i \in DOMAIN Going, fd \in Fds, b \in Browsers : Packet(i, fd, b) =>
          /\ \A c \in parser[fd] \ {b} : \E k \in 1 .. i - 1 : Erases(k, fd)
          /\ \A j \in 1 .. i - 1, c \in Browsers \ {b} :
                Packet(j, fd, c) => \E k \in j + 1 .. i - 1 : Erases(k, fd)
    /\ alive => \A b \in DOMAIN fdOf, fd \in Fds : fdOf[b] = fd /\ phase[b] # "open" =>
          /\ b \in parser[fd] => \E k \in DOMAIN Going : Erases(k, fd)
          /\ \A j \in DOMAIN Going : Packet(j, fd, b) =>
                \E k \in DOMAIN Going : k > j /\ Erases(k, fd)

(***************************************************************************)
(* Where the pieces of an answer are: heard, to be sent, or still to be    *)
(* handled.                                                                *)
(***************************************************************************)
Got(r, k)      == \E b \in request[r].of : \E n \in DOMAIN heard[b] : heard[b][n] = <<r, k>>
Waits(i, r, k) == i \in DOMAIN replies /\ replies[i].request = r /\ replies[i].piece = k
Comes(i, r, k) == i \in DOMAIN Coming /\ Coming[i].type = "Proxy" /\ Coming[i].request = r
                  /\ Coming[i].piece = k

Given(r) == IF pc[r] = "send" THEN request[r].pieces - 1 ELSE request[r].pieces

PlaceInv ==
    /\ \A i \in DOMAIN replies : request[replies[i].request].of = {replies[i].to}
    /\ \A i \in DOMAIN Coming : Coming[i].type = "Proxy" =>
          Coming[i].of = request[Coming[i].request].of /\ Coming[i].of # {}
    /\ \A b \in Browsers : \A n \in DOMAIN heard[b] : request[heard[b][n][1]].of = {b}

OrderInv ==
    \A r \in Requests, j \in 1 .. MaxPieces :
        /\ Got(r, j) => j <= Given(r)
        /\ \A i \in DOMAIN replies : Waits(i, r, j) =>
              /\ j <= Given(r)
              /\ \A k \in 1 .. MaxPieces :
                    Got(r, k) \/ (\E h \in 1 .. i - 1 : Waits(h, r, k)) => k < j
        /\ \A i \in DOMAIN Coming : Comes(i, r, j) =>
              /\ j <= Given(r)
              /\ \A k \in 1 .. MaxPieces :
                    \/ Got(r, k)
                    \/ \E h \in DOMAIN replies : Waits(h, r, k)
                    \/ \E h \in 1 .. i - 1 : Comes(h, r, k)
                    => k < j

\* Promised an answer.
Owed(b) == b \notin gone /\ phase[b] # "closed"

\* The piece was heard, was dropped, waits, or is among the first n to be handled.
Through(r, k)    == Got(r, k) \/ <<r, k>> \in dropped
Settled(r, k, n) == \/ Through(r, k) \/ (\E i \in DOMAIN replies : Waits(i, r, k))
                    \/ \E i \in 1 .. n : Comes(i, r, k)

Ended(r) == pc[r] \in {"end", "hangup", "unlock", "deleted"}

\* Why a browser may be hung up on when the first n commands are handled.
Answered(b, n) ==
    \/ b \in excused
    \/ \E r \in Requests : request[r].of = {b} /\ Ended(r)
                           /\ \A k \in 1 .. request[r].pieces : Settled(r, k, n)

\* No more commands come than that.
Room == VNCPool + UpRoom

SettledInv ==
    /\ \A i \in DOMAIN replies, r \in Requests, j \in 1 .. MaxPieces :
          Waits(i, r, j) /\ replies[i].to \notin gone => \A k \in 1 .. j - 1 :
             Through(r, k) \/ \E h \in 1 .. i - 1 : Waits(h, r, k)
    /\ \A i \in DOMAIN Coming : \A b \in Coming[i].of : Owed(b) =>
          /\ \A r \in Requests, j \in 1 .. MaxPieces :
                Comes(i, r, j) => \A k \in 1 .. j - 1 : Settled(r, k, i - 1)
          /\ Coming[i].type = "ProxyDisconnect" => Answered(b, i - 1)
    /\ alive => \A r \in Requests : pc[r] \in {"run", "send", "end", "hangup"} =>
          \A b \in request[r].of : Owed(b) => \A k \in 1 .. Given(r) : Settled(r, k, Room)
    /\ \A b \in shut : Owed(b) => Answered(b, 0)
    /\ pc[Receiver] = "send" => cmd.of \in excused
    /\ gone \subseteq excused

(***************************************************************************)
(* How a browser that is served will be hung up on.                        *)
(***************************************************************************)
Hangup(b) == \E i \in DOMAIN Coming : Coming[i].type = "ProxyDisconnect" /\ Coming[i].fd = fdOf[b]

\* Whom a request serves has been accepted.
Accepted == \A r \in Requests : request[r].of \subseteq DOMAIN fdOf

\* Nothing erases the parser of a browser behind its packet, ...
EraseBehind == alive =>
    \A b \in DOMAIN fdOf \ shut : \A k \in DOMAIN Going : Erases(k, fdOf[b]) =>
       /\ \A j \in DOMAIN Going : Packet(j, fdOf[b], b) => k < j
       /\ \A r \in Requests : b \in request[r].of => pc[r] \notin {"run", "send", "end"}

\* ... so that its request finds the parser, ...
ParserKept == alive =>
    \A r \in Requests : pc[r] \in {"run", "send", "end"} =>
       \A b \in request[r].of \ shut : b \in parser[fdOf[b]]

\* ... and sends a ProxyDisconnect before it is deleted.
HangupComes == alive =>
    \A r \in Requests : pc[r] \in {"unlock", "deleted"} =>
       \A b \in request[r].of \ shut : Hangup(b)

\* When the peer is gone, all browsers it had something of were shut down.
ShutWithPeer == vnc = "none" =>
    /\ pc[Receiver] = "parse" => cmd.of \in shut
    /\ \A r \in Requests : request[r].of \subseteq shut

EndInv == Accepted /\ EraseBehind /\ ParserKept /\ HangupComes /\ ShutWithPeer

RaceFreeInv == EndInv /\ KnownInv /\ ErasedInv /\ PlaceInv /\ OrderInv /\ SettledInv

IInv == TypeInv /\ LinkInv /\ PhaseInv /\ WorkInv /\ (races = {} => RaceFreeInv)
=============================================================================
