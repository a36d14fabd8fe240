----------------------------- MODULE FrameParser -----------------------------
(***************************************************************************)
(* Client::ParseDataNoCache of src/TcpPorxyServer/Client.cpp: a byte       *)
(* stream is cut into commands, each a fixed header that says how long its *)
(* parameter is.  A byte is its position in the stream, so what a buffer   *)
(* holds is a sequence of positions; the stream is given by the length     *)
(* each header announces, a negative one being a header the code refuses.  *)
(***************************************************************************)
EXTENDS Integers, Sequences

CONSTANTS Lens,       \* header->len of each command of the stream
          HeaderLen,  \* sizeof(CMDH)
          BufferLen   \* MAX_BUFFER_LEN, the capacity of mBuffer

Commands == DOMAIN Lens
Size(c)  == HeaderLen + (IF Lens[c] < 0 THEN 0 ELSE Lens[c])

\* A command longer than mBuffer would keep ParseDataNoCache in its loop for
\* ever; TcpProxyClient::SendProxyBuffer, the peer, sends MAX_PARAM_LEN - 1
\* bytes at most, half of MAX_BUFFER_LEN.
ASSUME FrameAssumption ==
    /\ Lens \in Seq(Int)
    /\ HeaderLen \in Nat \ {0} /\ BufferLen \in Nat /\ HeaderLen <= BufferLen
    /\ \A c \in Commands : Size(c) <= BufferLen

StartOf[c \in 1 .. Len(Lens) + 1] == IF c = 1 THEN 1 ELSE StartOf[c - 1] + Size(c - 1)
StreamLen   == StartOf[Len(Lens) + 1] - 1
Bytes(from, n) == [i \in 1 .. n |-> from + i - 1]
Command(c)  == Bytes(StartOf[c], Size(c))

\* The len field of the bytes at the front of the buffer, taken for a header;
\* bytes that are no header stand for a length that is refused.
AnnouncedLen(buf) ==
    LET here == {c \in Commands : SubSeq(buf, 1, HeaderLen) = Bytes(StartOf[c], HeaderLen)}
    IN  IF here = {} THEN -1 ELSE Lens[CHOOSE c \in here : TRUE]

Refused(buf) == Len(buf) >= HeaderLen /\ AnnouncedLen(buf) \notin 0 .. BufferLen

FrontSize(buf) == HeaderLen + AnnouncedLen(buf)
Whole(buf)     == Len(buf) >= HeaderLen /\ Len(buf) >= FrontSize(buf)

\* What is behind the front command, which memcpy moves to the front.  It keeps its
\* promise only when that is not longer than the command.
Behind(buf)   == SubSeq(buf, FrontSize(buf) + 1, Len(buf))
Overlaps(buf) == Len(Behind(buf)) > FrontSize(buf)

\* What parsing leaves: the bytes kept, the commands given to OnParseCmd, whether every
\* header was accepted (ret # -1) and whether memcpy had to move bytes onto themselves.
Outcomes == [rest : Seq(Nat), cmds : Seq(Seq(Nat)), ok : BOOLEAN, overlap : BOOLEAN]

Outcome(rest, ok) == [rest |-> rest, cmds |-> <<>>, ok |-> ok, overlap |-> FALSE]
After(cmds, overlap, o) ==
    [rest |-> o.rest, cmds |-> cmds \o o.cmds, ok |-> o.ok, overlap |-> overlap \/ o.overlap]

\* The inner loop: commands leave the front of mBuffer while they are whole.
TakeCommands[buf \in Seq(Nat)] ==
    CASE Refused(buf)                   -> Outcome(buf, FALSE)
      [] ~ Refused(buf) /\ ~ Whole(buf) -> Outcome(buf, TRUE)
      [] ~ Refused(buf) /\ Whole(buf)   ->
             After(<<SubSeq(buf, 1, FrontSize(buf))>>, Overlaps(buf), TakeCommands[Behind(buf)])

\* What mBuffer holds between packets, as long as no header was refused.
Partial == {buf \in Seq(Nat) : ~ Refused(buf) /\ ~ Whole(buf)}

Fits(buf, data) == IF Len(data) < BufferLen - Len(buf) THEN Len(data) ELSE BufferLen - Len(buf)

\* The outer loop, on mBuffer and what is left of the packet: mBuffer is filled as far as
\* it goes, then emptied.
ParseDataNoCache[in \in Partial \X Seq(Nat)] ==
    LET data   == in[2]
        n      == Fits(in[1], data)
        filled == TakeCommands[in[1] \o SubSeq(data, 1, n)]
    IN  CASE data = <<>>                 -> Outcome(in[1], TRUE)
          [] data # <<>> /\ ~ filled.ok  -> filled
          [] data # <<>> /\ filled.ok    ->
                 After(filled.cmds, filled.overlap,
                       ParseDataNoCache[<<filled.rest, SubSeq(data, n + 1, Len(data))>>])
=============================================================================
