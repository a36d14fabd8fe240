--------------------------- MODULE DataHttpParser ---------------------------
(***************************************************************************)
(* DataHttpParser::ParseData, packet by packet, for one browser.           *)
(*                                                                         *)
(* A byte is its position in what the browser sends: a header of           *)
(* headerLength bytes that ends with an empty line, a body of              *)
(* contentLength bytes, perhaps more.  Without a Content-Length, or with a *)
(* first line that is not understood, contentLength is -1.  A body has no  *)
(* empty line.                                                             *)
(*                                                                         *)
(* Definitions marked wrong vary the one below them, to test that the      *)
(* properties would notice; no behaviour uses them.                        *)
(***************************************************************************)
EXTENDS Integers, SequencesExt

CONSTANTS MAX_BUFFER_LEN,
          HeaderLengths,     \* the lengths of headers to try
          ContentLengths,    \* the lengths of bodies to try, and -1
          MaxMore,           \* bound: bytes after the request
          MaxPacket          \* the longest packet, MAX_PARAM_LEN - 1

EmptyLine == 4    \* strlen("\r\n\r\n")

ASSUME DataHttpParserAssumption ==
    /\ MAX_BUFFER_LEN \in Nat \ {0} /\ MaxPacket \in Nat \ {0} /\ MaxMore \in Nat
    /\ HeaderLengths \subseteq Nat /\ \A h \in HeaderLengths : h >= EmptyLine
    /\ ContentLengths \subseteq Nat \cup {-1}

VARIABLES headerLength, contentLength, total,    \* what the browser sends
          received,                 \* how much of it ParseData was given
          mBuffer,                  \* the first mIndex bytes of it; 0 = an unknown byte
          mbReceiveHeaderFinish,
          ret,                      \* what ParseData returned
          started,                  \* how often that was 1
          overlaps,                 \* ghost: memcpy had to move the body onto itself
          hole                      \* ghost: bytes behind the header found no room with it

sends == <<headerLength, contentLength, total>>
vars  == <<sends, received, mBuffer, mbReceiveHeaderFinish, ret, started, overlaps, hole>>

mIndex == Len(mBuffer)

TypeOK ==
    /\ headerLength \in HeaderLengths /\ contentLength \in ContentLengths
    /\ total \in Nat /\ received \in 0 .. total
    /\ mBuffer \in Seq(0 .. total) /\ mIndex <= MAX_BUFFER_LEN
    /\ {mbReceiveHeaderFinish, overlaps, hole} \subseteq BOOLEAN
    /\ ret \in {-1, 0, 1} /\ started \in 0 .. received

\* Reset.
Init ==
    /\ headerLength \in HeaderLengths /\ contentLength \in ContentLengths
    /\ \E more \in 0 .. MaxMore :
           total = headerLength + (IF contentLength = -1 THEN 0 ELSE contentLength) + more
    /\ received = 0 /\ mBuffer = <<>> /\ mbReceiveHeaderFinish = FALSE
    /\ ret = 0 /\ started = 0 /\ overlaps = FALSE /\ hole = FALSE

-----------------------------------------------------------------------------
AllOf(len)   == len    \* wrong
RecvLen(len) == IF len < MAX_BUFFER_LEN - mIndex THEN len ELSE MAX_BUFFER_LEN - mIndex

Received(len) == mBuffer \o [i \in 1 .. RecvLen(len) |-> received + i]

\* '\0' is written one place too far: behind mBuffer is mbReceiveHeaderFinish.  What
\* the compiler makes of that is open.
AfterTerminator(buffer) ==
    {mbReceiveHeaderFinish} \cup (IF Len(buffer) + 1 = MAX_BUFFER_LEN THEN {FALSE} ELSE {})

HeaderIndex == headerLength

MoreThan(n, m) == n > m     \* wrong
AtLeast(n, m)  == n >= m

\* What is left of the buffer when the header was in it.  memcpy keeps its promise
\* only for a body that is not longer than the header.
Overlap(body) == Len(body) > HeaderIndex

Garbled(body) == [i \in DOMAIN body |-> 0]

WithoutHeader(buffer) ==
    IF AtLeast(Len(buffer), HeaderIndex)
    THEN LET body == SubSeq(buffer, HeaderIndex + 1, Len(buffer))
         IN  {body} \cup (IF Overlap(body) THEN {Garbled(body)} ELSE {})
    ELSE {buffer}

ReceivedAll == contentLength = -1 \/ Len(mBuffer') = contentLength

Return(code) == ret' = code /\ started' = started + (IF code = 1 THEN 1 ELSE 0)

BufferFull == mIndex = MAX_BUFFER_LEN

Refuse ==
    /\ BufferFull
    /\ Return(-1)
    /\ UNCHANGED <<mBuffer, mbReceiveHeaderFinish, overlaps, hole>>

\* The header is known, or still not there.
AppendPacket(len) ==
    /\ ~ BufferFull
    /\ mBuffer' = Received(len)
    /\ mbReceiveHeaderFinish' \in AfterTerminator(Received(len))
    /\ mbReceiveHeaderFinish' \/ ~ Contains(Received(len), headerLength)
    /\ Return(IF mbReceiveHeaderFinish' /\ ReceivedAll THEN 1 ELSE 0)
    /\ UNCHANGED <<overlaps, hole>>

\* The header is found.  Bytes that found no room behind it are missing, and there is room
\* for those of the next packet once it has left the buffer.
ReceiveHeader(len) ==
    /\ ~ BufferFull
    /\ FALSE \in AfterTerminator(Received(len))
    /\ Contains(Received(len), headerLength)
    /\ mbReceiveHeaderFinish' = TRUE
    /\ mBuffer' \in WithoutHeader(Received(len))
    /\ overlaps' = (overlaps \/ Overlap(mBuffer'))
    /\ hole' = (hole \/ RecvLen(len) < len)
    /\ Return(IF ReceivedAll THEN 1 ELSE 0)

ParseData(len) ==
    /\ received + len <= total /\ received' = received + len
    /\ Refuse \/ AppendPacket(len) \/ ReceiveHeader(len)
    /\ UNCHANGED sends

Done == received = total /\ UNCHANGED vars

Next == (\E len \in 1 .. MaxPacket : ParseData(len)) \/ Done

Spec == Init /\ [][Next]_vars

-----------------------------------------------------------------------------
(***************************************************************************)
(* However a request that fits into the buffer is cut into packets,        *)
(* ParseData returns 1 with its last byte and not before; a request        *)
(* without a length is its header.  One that has a length is started once  *)
(* at most, whatever follows it and however full the buffer is             *)
(* (DataHttpParser.cpp 27-145).                                            *)
(***************************************************************************)
Whole == headerLength + (IF contentLength = -1 THEN 0 ELSE contentLength)

StartedWithLastByte ==
    /\ total = Whole /\ Whole <= MAX_BUFFER_LEN => (ret = 1 <=> received = Whole)
    /\ contentLength # -1 => started <= 1

(***************************************************************************)
(* A request is started with the body the browser sent, also one that is   *)
(* longer than the buffer with its header, as long as memcpy did not have  *)
(* to move the body onto itself (116-122) and no bytes were missed with    *)
(* the end of the header (30): otherwise bytes that found no room leave    *)
(* the request incomplete for good.                                        *)
(***************************************************************************)
BodyIntact ==
    contentLength # -1 /\ ~ overlaps /\ ~ hole /\ ret = 1 =>
        mBuffer = [i \in 1 .. contentLength |-> headerLength + i]
=============================================================================
