------------------------- MODULE HttpRequestProofs -------------------------
(***************************************************************************)
(* DataHttpParser and HttpRequest for buffers, headers, bodies, packets    *)
(* and answers of any length: a request is started once, with its last     *)
(* byte and the body that was sent, libcurl is given that body, and a      *)
(* download is given up when it stalls and no sooner.                      *)
(***************************************************************************)
EXTENDS HttpRequestInvariants, SequenceTheorems, TLAPS

\* A stretch of positions, and the bytes of the stream as numbers.
LEMMA StretchFacts ==
    ASSUME NEW from \in Nat, NEW n \in Nat
    PROVE  /\ Stretch(from, n) \in Seq(Nat) /\ Len(Stretch(from, n)) = n
           /\ DOMAIN Stretch(from, n) = 1 .. n
           /\ \A i \in 1 .. n : Stretch(from, n)[i] = from + i
BY DEF Stretch

\* Two stretches that meet are one.
LEMMA StretchJoined ==
    ASSUME NEW from \in Nat, NEW n \in Nat, NEW k \in Nat
    PROVE  Stretch(from, n) \o Stretch(from + n, k) = Stretch(from, n + k)
<1> DEFINE s == Stretch(from, n)
           t == Stretch(from + n, k)
           u == Stretch(from, n + k)
<1>0. from + n \in Nat /\ n + k \in Nat
  OBVIOUS
<1>1. /\ s \in Seq(Nat) /\ Len(s) = n /\ \A i \in 1 .. n : s[i] = from + i
      /\ t \in Seq(Nat) /\ Len(t) = k /\ \A i \in 1 .. k : t[i] = (from + n) + i
      /\ u \in Seq(Nat) /\ Len(u) = n + k /\ \A i \in 1 .. n + k : u[i] = from + i
  BY <1>0, StretchFacts
<1> HIDE DEF s, t, u
<1>2. /\ s \o t \in Seq(Nat) /\ Len(s \o t) = n + k
      /\ \A i \in 1 .. n + k : (s \o t)[i] = IF i <= n THEN s[i] ELSE t[i - n]
  BY <1>1, ConcatProperties
<1>3. \A i \in 1 .. n + k : (s \o t)[i] = u[i]
  <2> SUFFICES ASSUME NEW i \in 1 .. n + k PROVE (s \o t)[i] = u[i]
    OBVIOUS
  <2>1. CASE i <= n
    BY <1>1, <1>2, <2>1
  <2>2. CASE i > n
    <3>1. i - n \in 1 .. k
      BY <2>2
    <3>2. t[i - n] = (from + n) + (i - n) /\ u[i] = from + i
      BY <1>1, <3>1
    <3>3. (s \o t)[i] = t[i - n]
      BY <1>2, <2>2
    <3>4. (from + n) + (i - n) = from + i
      BY <3>1
    <3> QED BY <3>2, <3>3, <3>4
  <2>3. i <= n \/ i > n
    OBVIOUS
  <2> QED BY <2>1, <2>2, <2>3, Zenon
<1>4. s \o t = u
  BY <1>0, <1>1, <1>2, <1>3, SeqEqual
<1> QED BY <1>4 DEF s, t, u

\* What the assumptions and the types say of the numbers.
LEMMA ParserTypes ==
    ASSUME TypeOK
    PROVE  /\ headerLength \in Nat /\ headerLength >= 4 /\ contentLength \in Nat \cup {-1}
           /\ total \in Nat /\ received \in Nat /\ received <= total
           /\ mBuffer \in Seq(Nat) /\ mIndex \in Nat /\ mIndex <= MAX_BUFFER_LEN
           /\ MAX_BUFFER_LEN \in Nat \ {0} /\ started \in Nat /\ ret \in {-1, 0, 1}
           /\ mbReceiveHeaderFinish \in BOOLEAN /\ overlaps \in BOOLEAN /\ hole \in BOOLEAN
           /\ mBuffer \in Seq(0 .. total) /\ DOMAIN mBuffer = 1 .. mIndex
<1>1. /\ headerLength \in Nat /\ headerLength >= 4 /\ contentLength \in Nat \cup {-1}
      /\ MAX_BUFFER_LEN \in Nat \ {0}
  BY DataHttpParserAssumption DEF TypeOK, EmptyLine
<1>2. total \in Nat /\ received \in Nat /\ received <= total /\ started \in Nat
  BY DEF TypeOK
<1>3. mBuffer \in Seq(Nat)
  <2>1. Len(mBuffer) \in Nat /\ \A i \in 1 .. Len(mBuffer) : mBuffer[i] \in Nat
    BY <1>2 DEF TypeOK
  <2>2. mBuffer = [i \in 1 .. Len(mBuffer) |-> mBuffer[i]]
    BY DEF TypeOK
  <2> QED BY <2>1, <2>2
<1> QED BY <1>1, <1>2, <1>3 DEF TypeOK, mIndex

-----------------------------------------------------------------------------
\* The parser's part of a packet: len bytes more are received.
Packet(len) == len \in 1 .. MaxPacket /\ received + len <= total /\ received' = received + len

\* The buffer with the packet behind it.
LEMMA ReceivedFacts ==
    ASSUME TypeOK, NEW len, Packet(len), ~ BufferFull
    PROVE  /\ len \in Nat \ {0} /\ RecvLen(len) \in 1 .. len
           /\ Received(len) = mBuffer \o Stretch(received, RecvLen(len))
           /\ Received(len) \in Seq(0 .. total)
           /\ Len(Received(len)) = mIndex + RecvLen(len) /\ Len(Received(len)) <= MAX_BUFFER_LEN
           /\ \A i \in 1 .. mIndex : Received(len)[i] = mBuffer[i]
           /\ \A i \in 1 .. RecvLen(len) : Received(len)[mIndex + i] = received + i
           /\ RecvLen(len) < len => Len(Received(len)) = MAX_BUFFER_LEN
<1>1. /\ len \in Nat \ {0} /\ received + len <= total /\ mIndex < MAX_BUFFER_LEN
      /\ received \in Nat /\ mIndex \in Nat /\ MAX_BUFFER_LEN \in Nat /\ total \in Nat
      /\ mBuffer \in Seq(0 .. total)
  BY ParserTypes, DataHttpParserAssumption DEF Packet, BufferFull
<1>2. /\ RecvLen(len) \in 1 .. len /\ mIndex + RecvLen(len) <= MAX_BUFFER_LEN
      /\ RecvLen(len) < len => mIndex + RecvLen(len) = MAX_BUFFER_LEN
  BY <1>1 DEF RecvLen
<1> DEFINE n == RecvLen(len)
           more == Stretch(received, n)
<1>3. more \in Seq(0 .. total) /\ Len(more) = n /\ \A i \in 1 .. n : more[i] = received + i
  <2>1. n \in Nat
    BY <1>1, <1>2
  <2>2. Len(more) = n /\ more \in Seq(Nat) /\ \A i \in 1 .. n : more[i] = received + i
    BY <1>1, <2>1, StretchFacts
  <2>3. more = [i \in 1 .. n |-> received + i]
    BY DEF Stretch
  <2>4. \A i \in 1 .. n : received + i \in 0 .. total
    BY <1>1, <1>2
  <2> HIDE DEF n, more
  <2> QED BY <2>1, <2>2, <2>3, <2>4
<1>4. Received(len) = mBuffer \o more
  BY DEF Received, Stretch
<1> HIDE DEF n, more
<1>5. /\ mBuffer \o more \in Seq(0 .. total) /\ Len(mBuffer \o more) = mIndex + n
      /\ \A i \in 1 .. mIndex : (mBuffer \o more)[i] = mBuffer[i]
      /\ \A i \in 1 .. n : (mBuffer \o more)[mIndex + i] = more[i]
  BY <1>1, <1>2, <1>3 DEF mIndex, n
<1>6. \A i \in 1 .. n : (mBuffer \o more)[mIndex + i] = received + i
  BY <1>3, <1>5
<1> QED BY <1>1, <1>2, <1>4, <1>5, <1>6 DEF n, more

\* The end of a stretch is a stretch, and what is garbled is as long as it was.
LEMMA StretchEnd ==
    ASSUME NEW n \in Nat, NEW a \in 0 .. n
    PROVE  SubSeq(Stretch(0, n), a + 1, n) = Stretch(a, n - a)
<1> DEFINE s == SubSeq(Stretch(0, n), a + 1, n)
           t == Stretch(a, n - a)
<1>1. /\ Stretch(0, n) \in Seq(Nat) /\ Len(Stretch(0, n)) = n
      /\ \A i \in 1 .. n : Stretch(0, n)[i] = 0 + i
  BY StretchFacts
<1>2. t \in Seq(Nat) /\ Len(t) = n - a /\ \A i \in 1 .. n - a : t[i] = a + i
  BY StretchFacts
<1>3. /\ s \in Seq(Nat) /\ Len(s) = n - a
      /\ \A i \in 1 .. n - a : s[i] = Stretch(0, n)[a + i]
  BY <1>1
<1>4. \A i \in 1 .. n - a : s[i] = t[i]
  <2> SUFFICES ASSUME NEW i \in 1 .. n - a PROVE s[i] = t[i]
    OBVIOUS
  <2>1. a + i \in 1 .. n /\ 0 + (a + i) = a + i
    OBVIOUS
  <2>2. s[i] = Stretch(0, n)[a + i] /\ t[i] = a + i
    BY <1>2, <1>3, Zenon
  <2> QED BY <1>1, <2>1, <2>2
<1> HIDE DEF s, t
<1>5. s = t
  BY <1>2, <1>3, <1>4, SeqEqual
<1> QED BY <1>5 DEF s, t

-----------------------------------------------------------------------------
\* A packet that is refused finds the buffer full.
LEMMA RefuseInv ==
    ASSUME TypeOK, ParserInv, NEW len, Packet(len), Refuse, UNCHANGED sends
    PROVE  TypeOK' /\ ParserInv'
<1>1. /\ len \in Nat \ {0} /\ received' = received + len /\ received' <= total
      /\ mIndex = MAX_BUFFER_LEN /\ ret' = -1 /\ started' = started
      /\ UNCHANGED <<mBuffer, mbReceiveHeaderFinish, overlaps, hole>>
      /\ UNCHANGED <<headerLength, contentLength, total>>
  BY ParserTypes, DataHttpParserAssumption DEF Packet, Refuse, BufferFull, Return, sends
<1>2. mIndex' = mIndex
  BY <1>1 DEF mIndex
<1>3. TypeOK'
  <2>1. started' \in 0 .. received' /\ received' \in 0 .. total'
    BY <1>1 DEF TypeOK
  <2> QED BY <1>1, <1>2, <2>1 DEF TypeOK
<1>4. Searching => Searching'
  BY <1>1, <1>2, ParserTypes DEF Searching
<1>5. HoldsBody => HoldsBody'
  BY <1>1, <1>2, ParserTypes DEF HoldsBody
<1>6. StartedWhenComplete /\ HoldsBody => StartedWhenComplete'
  BY <1>1, <1>2, ParserTypes DEF StartedWhenComplete
<1> QED BY <1>3, <1>4, <1>5, <1>6 DEF ParserInv

\* The types after a packet that was taken into the buffer.
LEMMA TakenTypes ==
    ASSUME TypeOK, NEW len, Packet(len), UNCHANGED sends,
           mBuffer' \in Seq(0 .. total), mIndex' <= MAX_BUFFER_LEN,
           mbReceiveHeaderFinish' \in BOOLEAN, overlaps' \in BOOLEAN, hole' \in BOOLEAN,
           ret' \in {0, 1}, started' = started + ret'
    PROVE  TypeOK'
<1>1. len \in Nat \ {0} /\ received' = received + len /\ received' <= total
  BY DataHttpParserAssumption DEF Packet
<1>2. started' \in 0 .. received' /\ received' \in 0 .. total
  <2>1. started \in Nat /\ started <= received /\ received \in Nat /\ total \in Nat
    BY DEF TypeOK
  <2>2. CASE ret' = 0
    BY <1>1, <2>1, <2>2
  <2>3. CASE ret' = 1
    BY <1>1, <2>1, <2>3
  <2> QED BY <2>2, <2>3
<1> QED BY <1>2 DEF TypeOK, sends

\* While the header is not in, a packet is put behind what is there.
LEMMA SearchingAppend ==
    ASSUME TypeOK, Searching, NEW len, Packet(len), AppendPacket(len), UNCHANGED sends
    PROVE  TypeOK' /\ Searching'
<1> DEFINE R == Received(len)
<1>1. /\ len \in Nat \ {0} /\ RecvLen(len) \in 1 .. len
      /\ R = mBuffer \o Stretch(received, RecvLen(len)) /\ R \in Seq(0 .. total)
      /\ Len(R) = mIndex + RecvLen(len) /\ Len(R) <= MAX_BUFFER_LEN
      /\ RecvLen(len) < len => Len(R) = MAX_BUFFER_LEN
  BY ReceivedFacts DEF AppendPacket
<1>2. received = mIndex /\ mBuffer = Stretch(0, received)
  BY DEF Searching, AppendPacket, BufferFull
<1>3. R = Stretch(0, Len(R)) /\ Len(R) = received + RecvLen(len)
  <2>1. received \in Nat /\ RecvLen(len) \in Nat
    BY <1>1, ParserTypes
  <2>2. 0 + received = received /\ 0 \in Nat
    BY <2>1
  <2>3. Stretch(0, received) \o Stretch(0 + received, RecvLen(len))
            = Stretch(0, received + RecvLen(len))
    BY <2>1, <2>2, StretchJoined, Zenon
  <2>4. Len(R) = received + RecvLen(len)
    BY <1>1, <1>2
  <2> HIDE DEF R
  <2> QED BY <1>1, <1>2, <2>2, <2>3, <2>4
<1> HIDE DEF R
<1>4. mBuffer' = R /\ mIndex' = Len(R) /\ UNCHANGED <<overlaps, hole>>
  BY DEF AppendPacket, R, mIndex
<1>5. mbReceiveHeaderFinish' = FALSE
  BY DEF AppendPacket, AfterTerminator, Searching
<1>6. ~ Contains(R, headerLength)
  BY <1>5 DEF AppendPacket, R
<1>7. Len(R) < headerLength
  <2> SUFFICES ASSUME Len(R) >= headerLength PROVE FALSE
    BY <1>1, ParserTypes
  <2>1. Len(R) \in Nat /\ headerLength \in 1 .. Len(R)
    BY <1>1, ParserTypes
  <2>2. Stretch(0, Len(R))[headerLength] = 0 + headerLength
    BY <2>1, StretchFacts
  <2>3. R[headerLength] = headerLength
    BY <1>3, <2>1, <2>2, ParserTypes
  <2> QED BY <1>6, <2>1, <2>3 DEF Contains
<1>8. ret' = 0 /\ started' = started
  BY <1>5, ParserTypes DEF AppendPacket, Return
<1>9. received' = received + len
  BY DEF Packet
<1>10. TypeOK'
  <2>1. overlaps' \in BOOLEAN /\ hole' \in BOOLEAN
    BY <1>4, ParserTypes
  <2>2. started' = started + ret' /\ ret' \in {0, 1}
    BY <1>8, ParserTypes
  <2> QED BY <1>1, <1>4, <1>5, <2>1, <2>2, TakenTypes
<1>11. Searching'
  <2>1. received' = Len(R) \/ (Len(R) = MAX_BUFFER_LEN /\ received' >= Len(R))
    <3>1. received \in Nat /\ RecvLen(len) \in Nat /\ RecvLen(len) <= len
      BY <1>1, ParserTypes
    <3>2. RecvLen(len) = len \/ Len(R) = MAX_BUFFER_LEN
      BY <1>1, <3>1 DEF R
    <3>3. CASE RecvLen(len) = len
      BY <1>3, <1>9, <3>3
    <3>4. CASE Len(R) = MAX_BUFFER_LEN
      BY <1>1, <1>3, <1>9, <3>1, <3>4
    <3> QED BY <3>2, <3>3, <3>4
  <2> QED BY <1>3, <1>4, <1>5, <1>7, <1>8, <2>1, ParserTypes DEF Searching, sends
<1> QED BY <1>10, <1>11

\* The packet that ends the header: the buffer then holds what follows it.
LEMMA HeaderFound ==
    ASSUME TypeOK, Searching, NEW len, Packet(len), ReceiveHeader(len), UNCHANGED sends
    PROVE  TypeOK' /\ HoldsBody' /\ StartedWhenComplete'
<1> DEFINE R == Received(len)
           h == headerLength
           rest == SubSeq(R, h + 1, Len(R))
<1>1. /\ len \in Nat \ {0} /\ RecvLen(len) \in 1 .. len
      /\ R = mBuffer \o Stretch(received, RecvLen(len)) /\ R \in Seq(0 .. total)
      /\ Len(R) = mIndex + RecvLen(len) /\ Len(R) <= MAX_BUFFER_LEN
      /\ RecvLen(len) < len => Len(R) = MAX_BUFFER_LEN
  BY ReceivedFacts DEF ReceiveHeader
<1>2. received = mIndex /\ mBuffer = Stretch(0, received)
  BY DEF Searching, ReceiveHeader, BufferFull
<1>3. R = Stretch(0, Len(R)) /\ Len(R) = received + RecvLen(len)
  <2>1. received \in Nat /\ RecvLen(len) \in Nat
    BY <1>1, ParserTypes
  <2>2. 0 + received = received /\ 0 \in Nat
    BY <2>1
  <2>3. Stretch(0, received) \o Stretch(0 + received, RecvLen(len))
            = Stretch(0, received + RecvLen(len))
    BY <2>1, <2>2, StretchJoined, Zenon
  <2>4. Len(R) = received + RecvLen(len)
    BY <1>1, <1>2
  <2> HIDE DEF R
  <2> QED BY <1>1, <1>2, <2>2, <2>3, <2>4
<1>4. h \in Nat /\ h <= Len(R) /\ Len(R) \in Nat /\ h >= 4
  <2>1. Contains(R, h) /\ Len(R) \in Nat /\ h \in Nat /\ h >= 4
    BY <1>1, ParserTypes DEF ReceiveHeader
  <2>2. PICK i \in 1 .. Len(R) : R[i] = h
    BY <2>1 DEF Contains
  <2>3. Stretch(0, Len(R))[i] = 0 + i
    BY <2>1, StretchFacts
  <2> HIDE DEF R, h
  <2>4. h = i
    BY <1>3, <2>2, <2>3
  <2> QED BY <2>1, <2>4
<1>5. rest = Stretch(h, Len(R) - h) /\ Len(rest) = Len(R) - h /\ rest \in Seq(0 .. total)
      /\ \A i \in 1 .. Len(R) - h : rest[i] = h + i
  <2>1. h \in 0 .. Len(R) /\ Len(R) - h \in Nat
    BY <1>4
  <2>2. SubSeq(Stretch(0, Len(R)), h + 1, Len(R)) = Stretch(h, Len(R) - h)
    BY <1>4, <2>1, StretchEnd, Zenon
  <2>3. rest = Stretch(h, Len(R) - h)
    BY <1>3, <2>2
  <2>4. /\ Len(Stretch(h, Len(R) - h)) = Len(R) - h
        /\ \A i \in 1 .. Len(R) - h : Stretch(h, Len(R) - h)[i] = h + i
    BY <1>4, <2>1, StretchFacts
  <2>5. rest \in Seq(0 .. total)
    <3> HIDE DEF R, h
    <3>1. h + 1 \in Int /\ Len(R) \in Int
      BY <1>4
    <3>2. \A i \in h + 1 .. Len(R) : i \in 1 .. Len(R)
      BY <1>4
    <3>3. R \in Seq(0 .. total)
      BY <1>1
    <3>4. \A i \in h + 1 .. Len(R) : R[i] \in 0 .. total
      <4>1. \A i \in 1 .. Len(R) : R[i] \in 0 .. total
        BY <3>3, ElementOfSeq
      <4> QED BY <3>2, <4>1, Zenon
    <3>5. SubSeq(R, h + 1, Len(R)) \in Seq(0 .. total)
      BY <3>1, <3>4, SubSeqProperties
    <3> QED BY <3>5
  <2> QED BY <2>3, <2>4, <2>5
<1>6. /\ mBuffer' \in {rest} \cup (IF Len(rest) > h THEN {Garbled(rest)} ELSE {})
      /\ overlaps' = (overlaps \/ Len(mBuffer') > h) /\ hole' = (hole \/ RecvLen(len) < len)
      /\ mbReceiveHeaderFinish' = TRUE
      /\ ret' = (IF ReceivedAll THEN 1 ELSE 0)
      /\ started' = started + (IF (IF ReceivedAll THEN 1 ELSE 0) = 1 THEN 1 ELSE 0)
  <2>1. mBuffer' \in WithoutHeader(R) /\ AtLeast(Len(R), h)
    BY <1>4 DEF ReceiveHeader, AtLeast
  <2> HIDE DEF R
  <2>2. mBuffer' \in {rest} \cup (IF Len(rest) > h THEN {Garbled(rest)} ELSE {})
    BY <2>1 DEF WithoutHeader, HeaderIndex, Overlap
  <2> QED BY <2>2 DEF ReceiveHeader, Overlap, HeaderIndex, Return
<1> HIDE DEF R, h, rest
<1>7. received' = received + len /\ received' <= total /\ total' = total
      /\ headerLength' = h /\ contentLength' = contentLength
  BY DEF Packet, sends, h
<1>8. Len(Garbled(rest)) = Len(rest) /\ Garbled(rest) \in Seq(0 .. total)
      /\ \A i \in 1 .. Len(rest) : Garbled(rest)[i] = 0
  <2>1. Len(rest) \in Nat /\ DOMAIN rest = 1 .. Len(rest) /\ 0 \in 0 .. total
    BY <1>4, <1>5, ParserTypes
  <2> QED BY <2>1 DEF Garbled
<1>9. /\ mIndex' = Len(R) - h /\ mBuffer' \in Seq(0 .. total)
      /\ \A i \in DOMAIN mBuffer' : mBuffer'[i] = 0 \/ mBuffer'[i] > h
      /\ ~ overlaps' => mBuffer' = Stretch(h, mIndex')
  <2>1. CASE mBuffer' = rest
    <3>1. DOMAIN mBuffer' = 1 .. Len(R) - h /\ Len(mBuffer') = Len(R) - h
      BY <1>5, <2>1
    <3>2. \A i \in 1 .. Len(R) - h : mBuffer'[i] > h
      BY <1>4, <1>5, <2>1
    <3> QED BY <1>5, <2>1, <3>1, <3>2 DEF mIndex
  <2>2. CASE mBuffer' = Garbled(rest) /\ Len(rest) > h
    <3>1. DOMAIN mBuffer' = 1 .. Len(R) - h /\ Len(mBuffer') = Len(R) - h
      BY <1>5, <1>8, <2>2
    <3>2. \A i \in 1 .. Len(R) - h : mBuffer'[i] = 0
      BY <1>5, <1>8, <2>2
    <3>3. overlaps' = TRUE
      BY <1>5, <1>6, <2>2, <3>1, ParserTypes
    <3> QED BY <1>8, <2>2, <3>1, <3>2, <3>3 DEF mIndex
  <2>3. mBuffer' = rest \/ (mBuffer' = Garbled(rest) /\ Len(rest) > h)
    BY <1>6
  <2> QED BY <2>1, <2>2, <2>3
<1>10. /\ ret' = (IF contentLength = -1 \/ mIndex' = contentLength THEN 1 ELSE 0)
       /\ started' = ret' /\ ret' \in {0, 1} /\ started = 0
  <2>1. started = 0
    BY DEF Searching
  <2>2. ReceivedAll <=> contentLength = -1 \/ mIndex' = contentLength
    BY DEF ReceivedAll, mIndex
  <2>3. CASE ReceivedAll
    BY <1>6, <2>1, <2>2, <2>3
  <2>4. CASE ~ ReceivedAll
    BY <1>6, <2>1, <2>2, <2>4
  <2> QED BY <2>1, <2>3, <2>4
<1>11. TypeOK'
  <2>1. overlaps' \in BOOLEAN /\ hole' \in BOOLEAN /\ mbReceiveHeaderFinish' \in BOOLEAN
    BY <1>6, ParserTypes
  <2>2. started' = started + ret'
    BY <1>10
  <2>3. mIndex' <= MAX_BUFFER_LEN
    <3>1. \A a, b, c \in Nat : a <= c => a - b <= c
      OBVIOUS
    <3>2. Len(R) \in Nat /\ h \in Nat /\ MAX_BUFFER_LEN \in Nat /\ Len(R) <= MAX_BUFFER_LEN
      BY <1>1, <1>4, ParserTypes
    <3> QED BY <1>9, <3>1, <3>2, Zenon
  <2> QED BY <1>9, <1>10, <2>1, <2>2, <2>3, TakenTypes
<1>12. HoldsBody'
  <2>1. /\ received \in Nat /\ RecvLen(len) \in Nat /\ RecvLen(len) <= len /\ len \in Nat
        /\ h \in Nat /\ Len(R) \in Nat
    BY <1>1, <1>4, ParserTypes
  <2>2. received' >= h + mIndex'
    BY <1>3, <1>7, <1>9, <2>1
  <2>3. hole = FALSE
    BY DEF Searching
  <2>4. hole' <=> RecvLen(len) < len
    BY <1>6, <2>3, Zenon
  <2>5. RecvLen(len) < len => received' > MAX_BUFFER_LEN
    BY <1>1, <1>3, <1>7, <2>1, ParserTypes
  <2>6. ~ (RecvLen(len) < len) => received' = h + mIndex'
    <3> SUFFICES ASSUME ~ (RecvLen(len) < len) PROVE received' = h + mIndex'
      OBVIOUS
    <3>1. RecvLen(len) = len
      BY <2>1
    <3>2. mIndex' = (received + len) - h
      BY <1>3, <1>9, <3>1, Zenon
    <3>3. (received + len) = h + ((received + len) - h)
      BY <2>1
    <3> QED BY <1>7, <3>2, <3>3, Zenon
  <2> QED BY <1>7, <1>9, <2>2, <2>4, <2>5, <2>6 DEF HoldsBody
<1>13. StartedWhenComplete'
  <2>1. mIndex' \in Nat /\ contentLength \in Nat \cup {-1}
    BY <1>4, <1>9, ParserTypes
  <2> QED BY <1>6, <1>7, <1>10, <2>1 DEF StartedWhenComplete
<1> QED BY <1>11, <1>12, <1>13

\* Behind the header a packet is part of the body.
LEMMA BodyAppend ==
    ASSUME TypeOK, HoldsBody, StartedWhenComplete, NEW len, Packet(len), AppendPacket(len),
           UNCHANGED sends
    PROVE  TypeOK' /\ HoldsBody' /\ StartedWhenComplete'
<1> DEFINE R == Received(len)
           n == RecvLen(len)
           h == headerLength
<1>1. /\ len \in Nat \ {0} /\ n \in 1 .. len
      /\ R = mBuffer \o Stretch(received, n) /\ R \in Seq(0 .. total)
      /\ Len(R) = mIndex + n /\ Len(R) <= MAX_BUFFER_LEN
      /\ \A i \in 1 .. mIndex : R[i] = mBuffer[i]
      /\ \A i \in 1 .. n : R[mIndex + i] = received + i
      /\ n < len => Len(R) = MAX_BUFFER_LEN
  BY ReceivedFacts DEF AppendPacket
<1>2. /\ h \in Nat /\ mIndex \in Nat /\ received \in Nat /\ MAX_BUFFER_LEN \in Nat
      /\ contentLength \in Nat \cup {-1} /\ mIndex < MAX_BUFFER_LEN
      /\ DOMAIN mBuffer = 1 .. mIndex /\ started \in Nat
  BY ParserTypes DEF AppendPacket, BufferFull
<1>3. /\ mBuffer' = R /\ mIndex' = Len(R) /\ UNCHANGED <<overlaps, hole>>
      /\ mbReceiveHeaderFinish' \in AfterTerminator(R)
      /\ ret' = (IF mbReceiveHeaderFinish' /\ ReceivedAll THEN 1 ELSE 0)
      /\ started' = started
                    + (IF (IF mbReceiveHeaderFinish' /\ ReceivedAll THEN 1 ELSE 0) = 1
                       THEN 1 ELSE 0)
  BY DEF AppendPacket, mIndex, Return
<1>4. received' = received + len /\ received' <= total /\ total' = total
      /\ headerLength' = h /\ contentLength' = contentLength
  BY DEF Packet, sends
<1> HIDE DEF R, n, h
<1>5. /\ ret' \in {0, 1} /\ started' = started + ret'
      /\ ret' = 1 <=> mbReceiveHeaderFinish' /\ (contentLength = -1 \/ mIndex' = contentLength)
  <2>1. ReceivedAll <=> contentLength = -1 \/ mIndex' = contentLength
    BY DEF ReceivedAll, mIndex
  <2>2. CASE mbReceiveHeaderFinish' /\ ReceivedAll
    BY <1>3, <2>1, <2>2
  <2>3. CASE ~ (mbReceiveHeaderFinish' /\ ReceivedAll)
    BY <1>2, <1>3, <2>1, <2>3
  <2> QED BY <2>2, <2>3
<1>6. /\ mbReceiveHeaderFinish' \in BOOLEAN
      /\ mbReceiveHeaderFinish' \/ ~ mbReceiveHeaderFinish \/ mIndex' + 1 >= MAX_BUFFER_LEN
  <2>1. mbReceiveHeaderFinish' = mbReceiveHeaderFinish
        \/ (mbReceiveHeaderFinish' = FALSE /\ Len(R) + 1 = MAX_BUFFER_LEN)
    BY <1>3 DEF AfterTerminator
  <2>2. mbReceiveHeaderFinish \in BOOLEAN
    BY ParserTypes
  <2>3. CASE mbReceiveHeaderFinish' = mbReceiveHeaderFinish
    BY <2>2, <2>3, Zenon
  <2>4. CASE mbReceiveHeaderFinish' = FALSE /\ Len(R) + 1 = MAX_BUFFER_LEN
    <3>1. mIndex' + 1 >= MAX_BUFFER_LEN
      BY <1>2, <1>3, <2>4
    <3> QED BY <2>4, <3>1, Zenon
  <2> QED BY <2>1, <2>3, <2>4
<1>7. TypeOK'
  <2>1. overlaps' \in BOOLEAN /\ hole' \in BOOLEAN
    BY <1>3, ParserTypes
  <2>2. mBuffer' \in Seq(0 .. total) /\ mIndex' <= MAX_BUFFER_LEN
    BY <1>1, <1>3
  <2> QED BY <1>5, <1>6, <2>1, <2>2, TakenTypes
<1>8. HoldsBody'
  <2>1. received >= h + mIndex
    BY DEF HoldsBody, h
  <2>2. received' >= h + mIndex'
    BY <1>1, <1>2, <1>3, <1>4, <2>1
  <2>3. \A i \in DOMAIN mBuffer' : mBuffer'[i] = 0 \/ mBuffer'[i] > h
    <3> SUFFICES ASSUME NEW i \in 1 .. mIndex + n PROVE R[i] = 0 \/ R[i] > h
      BY <1>1, <1>3
    <3>1. CASE i <= mIndex
      <4>1. i \in 1 .. mIndex
        BY <1>1, <1>2, <3>1
      <4> QED BY <1>1, <1>2, <4>1 DEF HoldsBody, h
    <3>2. CASE i > mIndex
      <4>1. i - mIndex \in 1 .. n /\ mIndex + (i - mIndex) = i
        BY <1>1, <1>2, <3>2
      <4>2. R[i] = received + (i - mIndex)
        BY <1>1, <4>1
      <4> QED BY <1>1, <1>2, <2>1, <4>1, <4>2
    <3>3. i <= mIndex \/ i > mIndex
      BY <1>1, <1>2
    <3> QED BY <3>1, <3>2, <3>3, Zenon
  <2>4. hole' => received' > MAX_BUFFER_LEN
    BY <1>1, <1>2, <1>3, <1>4 DEF HoldsBody
  <2>5. ~ hole => received = h + mIndex
    BY <1>2 DEF HoldsBody, h
  <2>6. ~ hole' => received' = h + mIndex' \/ mIndex' = MAX_BUFFER_LEN
    BY <1>1, <1>2, <1>3, <1>4, <2>5
  <2>7. ~ hole' /\ ~ overlaps' => mBuffer' = Stretch(h, mIndex')
    <3> SUFFICES ASSUME ~ hole, ~ overlaps PROVE R = Stretch(h, mIndex + n)
      BY <1>1, <1>3
    <3>1. mBuffer = Stretch(h, mIndex) /\ received = h + mIndex
      BY <2>5 DEF HoldsBody, h
    <3>2. n \in Nat
      BY <1>1
    <3>3. Stretch(h, mIndex) \o Stretch(h + mIndex, n) = Stretch(h, mIndex + n)
      BY <1>2, <3>2, StretchJoined, Zenon
    <3> QED BY <1>1, <3>1, <3>3
  <2> QED BY <1>4, <2>2, <2>3, <2>4, <2>6, <2>7 DEF HoldsBody
<1>9. StartedWhenComplete'
  <2>1. mIndex' \in Nat /\ mIndex' > mIndex
    BY <1>1, <1>2, <1>3
  <2>2. mbReceiveHeaderFinish' \/ mIndex' + 1 >= MAX_BUFFER_LEN
    <3>1. mbReceiveHeaderFinish \/ mIndex + 1 >= MAX_BUFFER_LEN
      BY DEF StartedWhenComplete
    <3>2. \A a, b, c \in Nat : a + 1 >= c /\ b > a => b + 1 >= c
      OBVIOUS
    <3>3. mIndex \in Nat /\ mIndex' \in Nat /\ mIndex' > mIndex /\ MAX_BUFFER_LEN \in Nat
      BY <1>2, <2>1, Zenon
    <3>4. mIndex + 1 >= MAX_BUFFER_LEN => mIndex' + 1 >= MAX_BUFFER_LEN
      BY <3>2, <3>3, Zenon
    <3> QED BY <1>6, <3>1, <3>4, Zenon
  <2>3. CASE ret' = 1
    BY <1>2, <1>4, <1>5, <2>1, <2>2, <2>3 DEF StartedWhenComplete
  <2>4. CASE ret' = 0
    <3>1. /\ started' = started
          /\ ~ (mbReceiveHeaderFinish' /\ (contentLength = -1 \/ mIndex' = contentLength))
      BY <1>2, <1>5, <2>4
    <3>2. contentLength # -1 =>
              /\ started' <= 1
              /\ started' = 1 => mIndex' >= contentLength
      BY <1>2, <2>1, <3>1 DEF StartedWhenComplete
    <3>3. ~ (mIndex' = contentLength /\ mbReceiveHeaderFinish') /\ mIndex' # 0 /\ ret' # 1
      BY <1>2, <2>1, <2>4, <3>1
    <3> QED BY <1>4, <2>2, <3>2, <3>3 DEF StartedWhenComplete
  <2> QED BY <1>5, <2>3, <2>4
<1> QED BY <1>7, <1>8, <1>9

\* No byte of the body is taken for the end of the header.
LEMMA FoundOnce ==
    ASSUME TypeOK, HoldsBody, NEW len, Packet(len)
    PROVE  ~ ReceiveHeader(len)
<1> SUFFICES ASSUME ReceiveHeader(len) PROVE FALSE
  OBVIOUS
<1> DEFINE R == Received(len)
           n == RecvLen(len)
<1>1. /\ n \in 1 .. len /\ len \in Nat /\ R \in Seq(0 .. total) /\ Len(R) = mIndex + n
      /\ \A i \in 1 .. mIndex : R[i] = mBuffer[i]
      /\ \A i \in 1 .. n : R[mIndex + i] = received + i
  BY ReceivedFacts DEF ReceiveHeader
<1>2. /\ headerLength \in Nat /\ headerLength >= 4 /\ mIndex \in Nat /\ received \in Nat
      /\ DOMAIN mBuffer = 1 .. mIndex
  BY ParserTypes
<1>3. Contains(R, headerLength)
  BY DEF ReceiveHeader
<1> HIDE DEF R, n
<1>4. PICK i \in 1 .. mIndex + n : R[i] = headerLength
  BY <1>1, <1>3 DEF Contains
<1>5. received >= headerLength + mIndex
  BY DEF HoldsBody
<1>6. CASE i <= mIndex
  <2>1. i \in 1 .. mIndex
    BY <1>1, <1>2, <1>6
  <2>2. mBuffer[i] = 0 \/ mBuffer[i] > headerLength
    BY <1>2, <2>1 DEF HoldsBody
  <2> QED BY <1>1, <1>2, <1>4, <2>1, <2>2
<1>7. CASE i > mIndex
  <2>1. i - mIndex \in 1 .. n /\ mIndex + (i - mIndex) = i
    BY <1>1, <1>2, <1>7
  <2>2. R[i] = received + (i - mIndex)
    BY <1>1, <2>1
  <2> QED BY <1>1, <1>2, <1>4, <1>5, <2>1, <2>2
<1>8. i <= mIndex \/ i > mIndex
  BY <1>1, <1>2
<1> QED BY <1>6, <1>7, <1>8, Zenon

\* Every packet keeps the parser's invariant.
LEMMA ParseDataInv ==
    ASSUME TypeOK, ParserInv, NEW len \in 1 .. MaxPacket, ParseData(len)
    PROVE  TypeOK' /\ ParserInv'
<1>1. Packet(len) /\ UNCHANGED sends /\ (Refuse \/ AppendPacket(len) \/ ReceiveHeader(len))
  BY DEF ParseData, Packet
<1>2. CASE Refuse
  BY <1>1, <1>2, RefuseInv
<1>3. CASE AppendPacket(len)
  BY <1>1, <1>3, SearchingAppend, BodyAppend DEF ParserInv
<1>4. CASE ReceiveHeader(len)
  BY <1>1, <1>4, HeaderFound, FoundOnce DEF ParserInv
<1> QED BY <1>1, <1>2, <1>3, <1>4

\* What was lost stays lost.
LEMMA LossStays ==
    ASSUME NEW len, ParseData(len)
    PROVE  ~ overlaps' /\ ~ hole' => ~ overlaps /\ ~ hole
BY DEF ParseData, Refuse, AppendPacket, ReceiveHeader

\* Between packets the parser keeps what it has.
LEMMA ParserWaits ==
    ASSUME TypeOK, ParserInv, UNCHANGED vars
    PROVE  TypeOK' /\ ParserInv'
<1>1. /\ UNCHANGED <<headerLength, contentLength, total, received, mBuffer>>
      /\ UNCHANGED <<mbReceiveHeaderFinish, ret, started, overlaps, hole>>
  BY DEF vars, sends
<1>2. mIndex' = mIndex
  BY <1>1 DEF mIndex
<1>3. TypeOK'
  BY <1>1, <1>2 DEF TypeOK
<1>4. Searching => Searching'
  BY <1>1, <1>2 DEF Searching
<1>5. HoldsBody => HoldsBody'
  BY <1>1, <1>2 DEF HoldsBody
<1>6. StartedWhenComplete => StartedWhenComplete'
  BY <1>1, <1>2 DEF StartedWhenComplete
<1> QED BY <1>3, <1>4, <1>5, <1>6 DEF ParserInv

-----------------------------------------------------------------------------
\* What the assumptions and the types say of the numbers of a request.
LEMMA RequestTypes ==
    ASSUME RequestTypeOK
    PROVE  /\ TypeOK /\ contentLength \in Nat \cup {-1}
           /\ mpRequestBuffer \in Seq(0 .. total) /\ sent \in Seq(0 .. total)
           /\ Len(mpRequestBuffer) \in Nat /\ Len(sent) \in Nat
           /\ DWONLOAD_TIMEOUT \in Nat /\ MaxPieces \in Nat /\ MaxTime \in Nat
           /\ ReadSize \in Nat \ {0}
           /\ told \in BOOLEAN /\ mbPost \in BOOLEAN /\ mbStop \in BOOLEAN
           /\ uploadTotal \in {0, contentLength} /\ uploadTotal \in Int
           /\ downloadTotal \in Nat /\ downloadNow \in Nat /\ downloadNow <= MaxPieces
           /\ totalTime \in Nat /\ totalTime <= MaxTime
           /\ lastActive \in Nat /\ lastActive <= totalTime
           /\ mdDownloadLast \in Int /\ mdDownloadLast >= -1 /\ mdDownloadLast <= downloadNow
           /\ mdDownloadLastTime \in Int /\ mdDownloadLastTime >= -1
           /\ mdDownloadLastTime <= totalTime
<1>1. TypeOK /\ contentLength \in Nat \cup {-1}
  BY ParserTypes DEF RequestTypeOK
<1>2. /\ DWONLOAD_TIMEOUT \in Nat /\ MaxPieces \in Nat /\ MaxTime \in Nat
      /\ ReadSize \in Nat \ {0}
  BY HttpRequestAssumption
<1>3. /\ mpRequestBuffer \in Seq(0 .. total) /\ sent \in Seq(0 .. total)
      /\ Len(mpRequestBuffer) \in Nat /\ Len(sent) \in Nat
      /\ told \in BOOLEAN /\ mbPost \in BOOLEAN /\ mbStop \in BOOLEAN
  BY DEF RequestTypeOK
<1>4. uploadTotal \in {0, contentLength} /\ uploadTotal \in Int
  BY <1>1 DEF RequestTypeOK
<1>5. /\ downloadTotal \in Nat /\ downloadNow \in Nat /\ downloadNow <= MaxPieces
      /\ totalTime \in Nat /\ totalTime <= MaxTime
  BY <1>2 DEF RequestTypeOK
<1>6. /\ lastActive \in Nat /\ lastActive <= totalTime
      /\ mdDownloadLast \in Int /\ mdDownloadLast >= -1 /\ mdDownloadLast <= downloadNow
      /\ mdDownloadLastTime \in Int /\ mdDownloadLastTime >= -1
      /\ mdDownloadLastTime <= totalTime
  BY <1>5 DEF RequestTypeOK
<1> QED BY <1>1, <1>2, <1>3, <1>4, <1>5, <1>6

\* Of what t holds, k bytes go behind s.
Taken(S, s, t, k) ==
    /\ SubSeq(t, 1, k) \in Seq(S) /\ SubSeq(t, k + 1, Len(t)) \in Seq(S)
    /\ s \o SubSeq(t, 1, k) \in Seq(S)
    /\ (s \o SubSeq(t, 1, k)) \o SubSeq(t, k + 1, Len(t)) = s \o t
    /\ Len(s \o SubSeq(t, 1, k)) = Len(s) + k
    /\ Len(SubSeq(t, k + 1, Len(t))) = Len(t) - k
    /\ k = 0 => s \o SubSeq(t, 1, k) = s
    /\ k = Len(t) => SubSeq(t, k + 1, Len(t)) = <<>>

\* What libcurl takes from the front is what the rest follows.
LEMMA TakenInTurn ==
    ASSUME NEW S, NEW s \in Seq(S), NEW t \in Seq(S), NEW k \in 0 .. Len(t)
    PROVE  Taken(S, s, t, k)
<1> DEFINE a == SubSeq(t, 1, k)
           b == SubSeq(t, k + 1, Len(t))
<1>1. Len(t) \in Nat /\ Len(s) \in Nat
  OBVIOUS
<1>2. \A i \in 1 .. Len(t) : t[i] \in S
  BY ElementOfSeq
<1>3. a \in Seq(S) /\ Len(a) = k
  <2>1. \A i \in 1 .. k : i \in 1 .. Len(t)
    BY <1>1
  <2>2. \A i \in 1 .. k : t[i] \in S
    BY <1>2, <2>1, Zenon
  <2>3. 1 \in Int /\ k \in Int
    OBVIOUS
  <2>4. a \in Seq(S) /\ Len(a) = IF 1 <= k THEN k - 1 + 1 ELSE 0
    BY <2>2, <2>3, SubSeqProperties
  <2> HIDE DEF a
  <2> QED BY <1>1, <2>4
<1>4. b \in Seq(S) /\ Len(b) = Len(t) - k
  <2>1. \A i \in k + 1 .. Len(t) : i \in 1 .. Len(t)
    BY <1>1
  <2>2. \A i \in k + 1 .. Len(t) : t[i] \in S
    BY <1>2, <2>1, Zenon
  <2>3. k + 1 \in Int /\ Len(t) \in Int
    BY <1>1
  <2>4. b \in Seq(S) /\ Len(b) = IF k + 1 <= Len(t) THEN Len(t) - (k + 1) + 1 ELSE 0
    BY <2>2, <2>3, SubSeqProperties
  <2> HIDE DEF b
  <2> QED BY <1>1, <2>4
<1>5. a \o b = t
  <2>1. 1 \in 1 .. Len(t) + 1 /\ k \in (1 - 1) .. Len(t) /\ Len(t) \in k .. Len(t)
    BY <1>1
  <2>2. a \o b = SubSeq(t, 1, Len(t))
    BY <2>1, ConcatAdjacentSubSeq
  <2> QED BY <2>2, SubSeqFull
<1> HIDE DEF a, b
<1>6. (s \o a) \o b = s \o t
  <2>1. (s \o a) \o b = s \o (a \o b)
    <3>1. s \in Seq(S) /\ a \in Seq(S) /\ b \in Seq(S)
      BY <1>3, <1>4
    <3> QED BY <3>1, ConcatAssociative
  <2> QED BY <1>5, <2>1, Zenon
<1>7. s \o a \in Seq(S) /\ Len(s \o a) = Len(s) + k
  BY <1>3, ConcatProperties
<1>8. k = 0 => s \o a = s
  BY <1>3, ConcatEmptySeq, EmptySeq
<1>9. k = Len(t) => b = <<>>
  BY <1>4, EmptySeq
<1> QED BY <1>3, <1>4, <1>6, <1>7, <1>8, <1>9 DEF a, b, Taken

\* What something follows is the beginning of both.
LEMMA FrontIsPrefix ==
    ASSUME NEW S, NEW s \in Seq(S), NEW t \in Seq(S), NEW u, s \o t = u
    PROVE  IsPrefix(s, u)
<1>1. Len(s) \in Nat /\ Len(t) \in Nat
  OBVIOUS
<1>2. /\ u \in Seq(S) /\ Len(u) = Len(s) + Len(t)
      /\ \A i \in 1 .. Len(s) + Len(t) : u[i] = IF i <= Len(s) THEN s[i] ELSE t[i - Len(s)]
  BY ConcatProperties
<1>3. \A i \in 1 .. Len(s) : i \in 1 .. Len(s) + Len(t) /\ i <= Len(s)
  BY <1>1
<1>4. \A i \in 1 .. Len(s) : u[i] = s[i] /\ s[i] \in S
  BY <1>2, <1>3, ElementOfSeq
<1>5. Len(s) <= Len(u)
  BY <1>1, <1>2
<1> DEFINE n == Len(s)
           v == SubSeq(u, 1, n)
<1>6. v \in Seq(S) /\ Len(v) = n /\ \A i \in 1 .. n : v[i] = u[i]
  <2>1. 1 \in Int /\ n \in Int /\ \A i \in 1 .. n : u[i] \in S
    BY <1>1, <1>4
  <2>2. /\ v \in Seq(S) /\ Len(v) = (IF 1 <= n THEN n - 1 + 1 ELSE 0)
        /\ \A i \in 1 .. n - 1 + 1 : v[i] = u[1 + i - 1]
    BY <2>1, SubSeqProperties
  <2> HIDE DEF v, n
  <2>3. n \in Nat
    BY <1>1 DEF n
  <2>4. Len(v) = n /\ \A i \in 1 .. n : i \in 1 .. n - 1 + 1 /\ 1 + i - 1 = i
    BY <2>2, <2>3
  <2> QED BY <2>2, <2>4
<1> HIDE DEF v
<1>7. v = s
  BY <1>4, <1>6, SeqEqual
<1>8. SubSeq(s, 1, Len(s)) = s
  BY SubSeqFull
<1> QED BY <1>5, <1>7, <1>8 DEF IsPrefix, v

-----------------------------------------------------------------------------
\* A packet that starts no request leaves what is sent alone.
LEMMA PacketInv ==
    ASSUME RequestInv, NEW len \in 1 .. MaxPacket, ParseData(len), UNCHANGED transfer
    PROVE  RequestInv'
<1>1. TypeOK' /\ ParserInv' /\ (~ overlaps' /\ ~ hole' => ~ overlaps /\ ~ hole)
  BY ParseDataInv, LossStays DEF RequestInv, RequestTypeOK
<1>2. UNCHANGED <<headerLength, contentLength, total>>
  BY DEF ParseData, sends
<1>3. /\ UNCHANGED <<state, mpRequestBuffer, sent, told, mbPost, uploadTotal>>
      /\ UNCHANGED <<downloadTotal, downloadNow, totalTime>>
      /\ UNCHANGED <<mdDownloadLast, mdDownloadLastTime, mbStop, lastActive>>
  BY DEF transfer, body, download, marks
<1>4. RequestTypeOK'
  BY <1>1, <1>2, <1>3 DEF RequestInv, RequestTypeOK
<1>5. NotStarted'
  BY <1>3 DEF RequestInv, NotStarted
<1>6. BodyInv'
  BY <1>1, <1>2, <1>3 DEF RequestInv, BodyInv
<1>7. MarkInv'
  BY <1>3 DEF RequestInv, MarkInv, Running, Uploaded, uploadNow, NothingSince, Downloading,
              Silence
<1> QED BY <1>1, <1>4, <1>5, <1>6, <1>7 DEF RequestInv

\* A packet that starts the request finds its body complete.
LEMMA StartInv ==
    ASSUME RequestInv, NEW len \in 1 .. MaxPacket, ParseData(len), StartRequest
    PROVE  RequestInv'
<1>1. TypeOK' /\ ParserInv' /\ RequestTypeOK
  BY ParseDataInv DEF RequestInv, RequestTypeOK
<1>2. UNCHANGED <<headerLength, contentLength, total>>
  BY DEF ParseData, sends
<1>3. /\ state = "none" /\ state' = "running" /\ ret' = 1 /\ mbPost' \in BOOLEAN
      /\ mpRequestBuffer' = SubSeq(mBuffer', 1, contentLength)
      /\ uploadTotal' \in (IF mbPost' /\ contentLength > 0 THEN {0, contentLength} ELSE {0})
      /\ UNCHANGED <<sent, told, downloadTotal, downloadNow, totalTime>>
      /\ UNCHANGED <<mdDownloadLast, mdDownloadLastTime, mbStop, lastActive>>
  BY DEF StartRequest, SendData, download, marks
<1>4. /\ sent = <<>> /\ ~ told /\ downloadTotal = 0 /\ downloadNow = 0
      /\ mdDownloadLast = -1 /\ mdDownloadLastTime = -1 /\ ~ mbStop
  BY <1>3 DEF RequestInv, NotStarted
<1>5. HoldsBody' /\ StartedWhenComplete'
  BY <1>1, <1>3 DEF ParserInv, Searching
<1>6. /\ mBuffer' \in Seq(0 .. total) /\ contentLength \in Nat \cup {-1}
      /\ headerLength \in Nat
  BY <1>1, <1>2, ParserTypes, RequestTypes DEF TypeOK
<1>7. contentLength # -1 => Len(mBuffer') = contentLength
  BY <1>2, <1>3, <1>5 DEF StartedWhenComplete, mIndex
<1>8. /\ mpRequestBuffer' \in Seq(0 .. total)
      /\ contentLength # -1 => mpRequestBuffer' = mBuffer'
  <2>1. CASE contentLength = -1
    <3>1. mpRequestBuffer' = <<>>
      BY <1>3, <2>1, SubSeqEmpty
    <3> QED BY <2>1, <3>1
  <2>2. CASE contentLength # -1
    <3>1. mpRequestBuffer' = mBuffer'
      BY <1>3, <1>6, <1>7, <2>2, SubSeqFull
    <3> QED BY <1>6, <3>1
  <2> QED BY <2>1, <2>2
<1>9. uploadTotal' = 0 \/ (contentLength # -1 /\ uploadTotal' = contentLength)
  BY <1>3, <1>6
<1>10. RequestTypeOK'
  <2>1. sent' \in Seq(0 .. total') /\ mpRequestBuffer' \in Seq(0 .. total')
    BY <1>1, <1>2, <1>3, <1>8, RequestTypes
  <2>2. uploadTotal' \in {0, contentLength'}
    BY <1>2, <1>9
  <2> QED BY <1>1, <1>3, <2>1, <2>2 DEF RequestTypeOK
<1>11. NotStarted'
  BY <1>3 DEF NotStarted
<1>12. BodyInv'
  <2>1. sent' = <<>> /\ ~ told'
    BY <1>3, <1>4
  <2>2. sent' \o mpRequestBuffer' = mpRequestBuffer'
    BY <1>8, <2>1, ConcatEmptySeq
  <2>3. contentLength # -1 /\ ~ overlaps' /\ ~ hole' =>
            mpRequestBuffer' = Stretch(headerLength, contentLength)
    BY <1>2, <1>5, <1>7, <1>8 DEF HoldsBody, mIndex
  <2>4. uploadTotal' # 0 => Len(sent') + Len(mpRequestBuffer') = uploadTotal'
    <3>1. Len(sent') = 0
      BY <2>1
    <3> QED BY <1>6, <1>7, <1>8, <1>9, <3>1
  <2> QED BY <1>2, <2>1, <2>2, <2>3, <2>4 DEF BodyInv
<1>13. MarkInv'
  BY <1>3, <1>4 DEF MarkInv, Running, Uploaded, uploadNow, NothingSince, Downloading, Silence
<1> QED BY <1>1, <1>10, <1>11, <1>12, <1>13 DEF RequestInv

\* libcurl takes the next bytes of the body.
LEMMA SendInv ==
    ASSUME RequestInv, onSendBody
    PROVE  RequestInv'
<1> DEFINE k == Smaller(Len(mpRequestBuffer), ReadSize)
<1>1. RequestTypeOK /\ TypeOK' /\ ParserInv'
  BY ParserWaits DEF RequestInv, RequestTypeOK, onSendBody
<1>2. UNCHANGED <<headerLength, contentLength, total, overlaps, hole>>
  BY DEF onSendBody, vars, sends
<1>3. /\ state = "running" /\ UNCHANGED <<state, mbPost, uploadTotal>>
      /\ UNCHANGED <<downloadTotal, downloadNow, totalTime>>
      /\ UNCHANGED <<mdDownloadLast, mdDownloadLastTime, mbStop>>
      /\ sent' = sent \o SubSeq(mpRequestBuffer, 1, k)
      /\ mpRequestBuffer' = SubSeq(mpRequestBuffer, k + 1, Len(mpRequestBuffer))
      /\ told' = (k = 0)
      /\ lastActive' = IF k = 0 THEN lastActive ELSE totalTime
  BY DEF onSendBody, Running, download, marks, NotSentYet
<1>4. /\ mpRequestBuffer \in Seq(0 .. total) /\ sent \in Seq(0 .. total)
      /\ Len(mpRequestBuffer) \in Nat /\ Len(sent) \in Nat
      /\ contentLength \in Nat \cup {-1} /\ uploadTotal \in {0, contentLength}
      /\ totalTime \in Nat /\ lastActive \in 0 .. totalTime
      /\ downloadNow \in Nat
  BY <1>1, RequestTypes
<1>5. k \in 0 .. Len(mpRequestBuffer) /\ (k = 0 => Len(mpRequestBuffer) = 0)
  BY <1>1, <1>4, RequestTypes DEF Smaller
<1> HIDE DEF k
<1>6. /\ mpRequestBuffer' \in Seq(0 .. total) /\ sent' \in Seq(0 .. total)
      /\ sent' \o mpRequestBuffer' = sent \o mpRequestBuffer
      /\ Len(sent') = Len(sent) + k /\ Len(mpRequestBuffer') = Len(mpRequestBuffer) - k
      /\ k = 0 => sent' = sent
      /\ k = Len(mpRequestBuffer) => mpRequestBuffer' = <<>>
  <2> DEFINE t == mpRequestBuffer
             S == 0 .. total
  <2>1. t \in Seq(S) /\ sent \in Seq(S) /\ k \in 0 .. Len(t)
    BY <1>4, <1>5
  <2> HIDE DEF t, S
  <2>2. Taken(S, sent, t, k)
    BY <2>1, TakenInTurn, Zenon
  <2>3. sent' = sent \o SubSeq(t, 1, k) /\ mpRequestBuffer' = SubSeq(t, k + 1, Len(t))
    BY <1>3 DEF t
  <2>4. t = mpRequestBuffer /\ S = 0 .. total
    BY DEF t, S
  <2> QED BY <2>2, <2>3, <2>4 DEF Taken
<1>7. RequestTypeOK'
  <2>1. lastActive' \in 0 .. totalTime' /\ told' \in BOOLEAN
    BY <1>3, <1>4
  <2> QED BY <1>1, <1>2, <1>3, <1>6, <2>1 DEF RequestTypeOK
<1>8. NotStarted'
  BY <1>3 DEF NotStarted
<1>9. BodyInv'
  <2>1. told' => mpRequestBuffer' = <<>>
    BY <1>3, <1>5, <1>6
  <2>2. uploadTotal' # 0 => Len(sent') + Len(mpRequestBuffer') = uploadTotal'
    <3>1. Len(sent') + Len(mpRequestBuffer') = Len(sent) + Len(mpRequestBuffer)
      BY <1>4, <1>5, <1>6
    <3> QED BY <1>3, <3>1 DEF RequestInv, BodyInv
  <2>3. state' # "none" /\ contentLength' # -1 /\ ~ overlaps' /\ ~ hole' =>
            sent' \o mpRequestBuffer' = Stretch(headerLength', contentLength')
    BY <1>2, <1>3, <1>6 DEF RequestInv, BodyInv
  <2> QED BY <2>1, <2>2, <2>3 DEF BodyInv
<1>10. MarkInv'
  <2>1. CASE k = 0
    <3>1. sent' = sent /\ lastActive' = lastActive
      BY <1>3, <1>6, <2>1
    <3> QED BY <1>3, <3>1 DEF RequestInv, MarkInv, Running, Uploaded, uploadNow, NothingSince,
                              Downloading, Silence
  <2>2. CASE k # 0
    <3>1. lastActive' = totalTime'
      BY <1>3, <2>2
    <3>2. Len(sent) + Len(mpRequestBuffer) = uploadTotal \/ uploadTotal = 0
      BY DEF RequestInv, BodyInv
    <3>3. ~ (Len(sent) = uploadTotal /\ uploadTotal # 0)
      BY <1>4, <1>5, <2>2, <3>2
    <3>4. uploadTotal # 0 => mdDownloadLast = -1
      BY <3>3 DEF RequestInv, MarkInv, Uploaded, uploadNow
    <3>5. Len(sent') = uploadTotal => uploadTotal # 0
      BY <1>4, <1>5, <1>6, <2>2
    <3>6. ~ (Uploaded' /\ NothingSince')
      <4> SUFFICES ASSUME Len(sent') = uploadTotal', mdDownloadLast' = downloadNow'
                   PROVE FALSE
        BY DEF Uploaded, uploadNow, NothingSince
      <4>1. Len(sent') = uploadTotal /\ mdDownloadLast = downloadNow
        BY <1>3
      <4>2. mdDownloadLast = -1
        BY <3>4, <3>5, <4>1
      <4> QED BY <1>4, <4>1, <4>2
    <3> QED BY <1>3, <3>1, <3>4, <3>6 DEF RequestInv, MarkInv, Running
  <2> QED BY <2>1, <2>2
<1> QED BY <1>1, <1>7, <1>8, <1>9, <1>10 DEF RequestInv

\* While a request runs, nothing else changes what is sent.
LEMMA BodyWaits ==
    ASSUME RequestInv, UNCHANGED vars, UNCHANGED body, state # "none"
    PROVE  /\ TypeOK' /\ ParserInv' /\ BodyInv'
           /\ UNCHANGED <<mpRequestBuffer, sent, told, mbPost, uploadTotal, contentLength, total>>
<1>1. TypeOK' /\ ParserInv'
  BY ParserWaits DEF RequestInv, RequestTypeOK
<1>2. /\ UNCHANGED <<mpRequestBuffer, sent, told, mbPost, uploadTotal>>
      /\ UNCHANGED <<headerLength, contentLength, total, overlaps, hole>>
  BY DEF vars, sends, body
<1>3. BodyInv'
  BY <1>2 DEF RequestInv, BodyInv
<1> QED BY <1>1, <1>2, <1>3

\* The length of the answer is learnt before any of it.
LEMMA TotalInv ==
    ASSUME RequestInv, TotalKnown
    PROVE  RequestInv'
<1>1. /\ state = "running" /\ state' = state /\ UNCHANGED vars /\ UNCHANGED body
      /\ downloadNow = 0 /\ downloadTotal' = MaxPieces
      /\ UNCHANGED <<downloadNow, totalTime, lastActive>>
      /\ UNCHANGED <<mdDownloadLast, mdDownloadLastTime, mbStop>>
  BY DEF TotalKnown, Running, marks
<1>2. /\ TypeOK' /\ ParserInv' /\ BodyInv'
      /\ UNCHANGED <<mpRequestBuffer, sent, told, mbPost, uploadTotal, contentLength, total>>
  BY <1>1, BodyWaits
<1>3. RequestTypeOK'
  BY <1>1, <1>2 DEF RequestInv, RequestTypeOK
<1>4. NotStarted'
  BY <1>1 DEF NotStarted
<1>5. ~ Downloading'
  BY <1>1 DEF Downloading
<1>6. MarkInv'
  BY <1>1, <1>2, <1>5 DEF RequestInv, MarkInv, Running, Uploaded, uploadNow, NothingSince,
                          Silence
<1> QED BY <1>2, <1>3, <1>4, <1>6 DEF RequestInv

\* A piece of the answer is newer than every mark.
LEMMA ReceiveInv ==
    ASSUME RequestInv, onReceiveBody
    PROVE  RequestInv'
<1>1. /\ state = "running" /\ state' = state /\ UNCHANGED vars /\ UNCHANGED body
      /\ downloadNow < MaxPieces /\ downloadNow' = downloadNow + 1
      /\ totalTime' \in totalTime .. MaxTime /\ lastActive' = totalTime'
      /\ downloadTotal' = downloadTotal
      /\ UNCHANGED <<mdDownloadLast, mdDownloadLastTime, mbStop>>
  BY DEF onReceiveBody, Running, marks
<1>2. /\ TypeOK' /\ ParserInv' /\ BodyInv'
      /\ UNCHANGED <<mpRequestBuffer, sent, told, mbPost, uploadTotal, contentLength, total>>
  BY <1>1, BodyWaits
<1>3. /\ downloadNow \in Nat /\ MaxPieces \in Nat /\ totalTime \in Nat /\ MaxTime \in Nat
      /\ mdDownloadLast \in Int /\ mdDownloadLast >= -1 /\ mdDownloadLast <= downloadNow
      /\ mdDownloadLastTime \in Int /\ mdDownloadLastTime >= -1
      /\ mdDownloadLastTime <= totalTime
  BY RequestTypes DEF RequestInv
<1>4. RequestTypeOK'
  <2>1. /\ downloadNow' \in 0 .. MaxPieces /\ totalTime' \in 0 .. MaxTime
        /\ lastActive' \in 0 .. totalTime' /\ mdDownloadLast' \in -1 .. downloadNow'
        /\ mdDownloadLastTime' \in -1 .. totalTime'
    BY <1>1, <1>3
  <2> QED BY <1>1, <1>2, <2>1 DEF RequestInv, RequestTypeOK
<1>5. NotStarted'
  BY <1>1 DEF NotStarted
<1>6. ~ NothingSince'
  BY <1>1, <1>3 DEF NothingSince
<1>7. MarkInv'
  BY <1>1, <1>2, <1>6 DEF RequestInv, MarkInv, Running, Uploaded, uploadNow
<1> QED BY <1>2, <1>4, <1>5, <1>7 DEF RequestInv

\* A request that ends is not aborted.
LEMMA EndsInv ==
    ASSUME RequestInv, Ends
    PROVE  RequestInv'
<1>1. /\ state = "running" /\ state' = "ended" /\ UNCHANGED vars /\ UNCHANGED body
      /\ UNCHANGED <<downloadTotal, downloadNow, totalTime, lastActive>>
      /\ UNCHANGED <<mdDownloadLast, mdDownloadLastTime, mbStop>>
  BY DEF Ends, Running, marks, download
<1>2. /\ TypeOK' /\ ParserInv' /\ BodyInv'
      /\ UNCHANGED <<mpRequestBuffer, sent, told, mbPost, uploadTotal, contentLength, total>>
  BY <1>1, BodyWaits
<1>3. RequestTypeOK'
  BY <1>1, <1>2 DEF RequestInv, RequestTypeOK
<1>4. NotStarted' /\ MarkInv'
  BY <1>1, <1>2 DEF RequestInv, NotStarted, MarkInv, Running, Uploaded, uploadNow
<1> QED BY <1>2, <1>3, <1>4 DEF RequestInv

\* A second passes or none: the mark is made, or compared, or the upload goes on.
LEMMA ProgressInv ==
    ASSUME RequestInv, HttpProgress
    PROVE  RequestInv'
<1>1. /\ state = "running" /\ UNCHANGED vars /\ UNCHANGED body
      /\ UNCHANGED <<downloadTotal, downloadNow, lastActive>>
      /\ totalTime' \in {totalTime, totalTime + 1} /\ totalTime' <= MaxTime
      /\ state' = (IF mbStop' THEN "aborted" ELSE state)
  BY DEF HttpProgress, Running, download
<1>2. /\ TypeOK' /\ ParserInv' /\ BodyInv'
      /\ UNCHANGED <<mpRequestBuffer, sent, told, mbPost, uploadTotal, contentLength, total>>
  BY <1>1, BodyWaits
<1>3. /\ downloadNow \in Nat /\ totalTime \in Nat /\ MaxTime \in Nat
      /\ lastActive \in Nat /\ lastActive <= totalTime /\ DWONLOAD_TIMEOUT \in Nat
      /\ mdDownloadLast \in Int /\ mdDownloadLast >= -1 /\ mdDownloadLast <= downloadNow
      /\ mdDownloadLastTime \in Int /\ mdDownloadLastTime >= -1
      /\ mdDownloadLastTime <= totalTime
  BY RequestTypes DEF RequestInv
<1>4. mbStop = FALSE
  <2>1. mbStop \in BOOLEAN
    BY RequestTypes DEF RequestInv
  <2> QED BY <1>1, <2>1 DEF RequestInv, MarkInv, Running
<1>5. /\ totalTime' \in Nat /\ totalTime' >= totalTime /\ totalTime' <= totalTime + 1
      /\ UNCHANGED Uploaded /\ UNCHANGED Downloading
  BY <1>1, <1>2, <1>3 DEF Uploaded, uploadNow, Downloading
<1>6. NotStarted'
  <2>1. state' # "none"
    BY <1>1
  <2> QED BY <2>1 DEF NotStarted
<1>7. ASSUME mdDownloadLast' \in -1 .. downloadNow', mdDownloadLastTime' \in -1 .. totalTime',
             mbStop' \in BOOLEAN
      PROVE  RequestTypeOK'
  <2>1. totalTime' \in 0 .. MaxTime' /\ lastActive' \in 0 .. totalTime'
    BY <1>1, <1>3, <1>5
  <2>2. state' \in {"none", "running", "ended", "aborted"}
    BY <1>1
  <2> QED BY <1>1, <1>2, <1>7, <2>1, <2>2 DEF RequestInv, RequestTypeOK
<1>8. CASE /\ Uploaded /\ Counts
           /\ mbStop' = (mbStop \/ totalTime' - mdDownloadLastTime > DWONLOAD_TIMEOUT)
           /\ UNCHANGED <<mdDownloadLast, mdDownloadLastTime>>
  <2>1. mbStop' \in BOOLEAN /\ (mbStop' <=> totalTime' - mdDownloadLastTime > DWONLOAD_TIMEOUT)
    BY <1>4, <1>8, Zenon
  <2>2. RequestTypeOK'
    <3>1. mdDownloadLast' \in -1 .. downloadNow' /\ mdDownloadLastTime' \in -1 .. totalTime'
      BY <1>1, <1>3, <1>5, <1>8
    <3> QED BY <1>7, <2>1, <3>1
  <2>3. NothingSince' /\ Uploaded' /\ NothingSince
    BY <1>1, <1>5, <1>8 DEF Counts, NothingSince
  <2>4. lastActive <= mdDownloadLastTime
        /\ (Downloading => mdDownloadLastTime <= lastActive + 1)
    BY <1>1, <1>8, <2>3 DEF RequestInv, MarkInv, Running
  <2>5. MarkInv'
    <3>1. CASE totalTime' - mdDownloadLastTime > DWONLOAD_TIMEOUT
      <4>1. state' = "aborted"
        BY <1>1, <2>1, <3>1
      <4>2. totalTime' - lastActive > DWONLOAD_TIMEOUT
        <5>1. \A a, b, c, d \in Int : a - b > c /\ d <= b => a - d > c
          OBVIOUS
        <5>2. /\ totalTime' \in Int /\ mdDownloadLastTime \in Int /\ lastActive \in Int
              /\ DWONLOAD_TIMEOUT \in Int
          BY <1>3, <1>5
        <5> QED BY <2>4, <3>1, <5>1, <5>2, Zenon
      <4>3. lastActive' = lastActive
        BY <1>1
      <4> QED BY <2>3, <4>1, <4>2, <4>3 DEF MarkInv, Running, Silence
    <3>2. CASE ~ (totalTime' - mdDownloadLastTime > DWONLOAD_TIMEOUT)
      <4>1. state' = "running" /\ mbStop' = FALSE
        BY <1>1, <2>1, <3>2
      <4>2. totalTime' - mdDownloadLastTime' <= DWONLOAD_TIMEOUT
        <5>1. \A a, b, c \in Int : ~ (a - b > c) => a - b <= c
          OBVIOUS
        <5>2. /\ totalTime' \in Int /\ mdDownloadLastTime \in Int /\ DWONLOAD_TIMEOUT \in Int
          BY <1>3, <1>5
        <5>3. mdDownloadLastTime' = mdDownloadLastTime
          BY <1>8
        <5> QED BY <3>2, <5>1, <5>2, <5>3, Zenon
      <4>3. /\ lastActive' <= mdDownloadLastTime'
            /\ Downloading' => mdDownloadLastTime' <= lastActive' + 1
        BY <1>1, <1>5, <1>8, <2>4
      <4> QED BY <2>3, <4>1, <4>2, <4>3 DEF MarkInv, Running
    <3> QED BY <3>1, <3>2
  <2> QED BY <1>2, <1>6, <2>2, <2>5 DEF RequestInv
<1>9. CASE /\ Uploaded /\ ~ Counts
           /\ mdDownloadLast' = downloadNow /\ mdDownloadLastTime' = totalTime'
           /\ UNCHANGED mbStop
  <2>1. mbStop' = FALSE /\ state' = "running"
    BY <1>1, <1>4, <1>9
  <2>2. RequestTypeOK'
    <3>1. mdDownloadLast' \in -1 .. downloadNow' /\ mdDownloadLastTime' \in -1 .. totalTime'
      BY <1>1, <1>3, <1>5, <1>9
    <3>2. mbStop' \in BOOLEAN
      BY <2>1
    <3> QED BY <1>7, <3>1, <3>2
  <2>3. NothingSince' /\ Uploaded'
    BY <1>1, <1>5, <1>9 DEF NothingSince
  <2>4. Downloading => totalTime = lastActive
    <3> SUFFICES ASSUME Downloading PROVE totalTime = lastActive
      OBVIOUS
    <3>1. ~ NothingSince
      BY <1>3, <1>9 DEF Downloading, Counts, NothingSince
    <3> QED BY <1>1, <1>9, <3>1 DEF RequestInv, MarkInv, Running
  <2>5. /\ lastActive' <= mdDownloadLastTime'
        /\ Downloading' => mdDownloadLastTime' <= lastActive' + 1
        /\ totalTime' - mdDownloadLastTime' <= DWONLOAD_TIMEOUT
    <3>1. mdDownloadLastTime' = totalTime' /\ lastActive' = lastActive
          /\ (Downloading' <=> Downloading)
      BY <1>1, <1>5, <1>9
    <3>2. lastActive <= totalTime' /\ totalTime' - totalTime' <= DWONLOAD_TIMEOUT
      <4>1. \A a, b \in Nat : a - a <= b
        OBVIOUS
      <4>2. totalTime' \in Nat /\ DWONLOAD_TIMEOUT \in Nat
        BY <1>3, <1>5, Zenon
      <4>3. lastActive <= totalTime'
        BY <1>3, <1>5
      <4> QED BY <4>1, <4>2, <4>3, Zenon
    <3>3. totalTime = lastActive => totalTime' <= lastActive + 1
      BY <1>3, <1>5
    <3> QED BY <2>4, <3>1, <3>2, <3>3, Zenon
  <2>6. MarkInv'
    BY <2>1, <2>3, <2>5 DEF MarkInv, Running
  <2> QED BY <1>2, <1>6, <2>2, <2>6 DEF RequestInv
<1>10. CASE ~ Uploaded /\ UNCHANGED marks
  <2>1. /\ UNCHANGED <<mdDownloadLast, mdDownloadLastTime, mbStop>>
        /\ mbStop' = FALSE /\ state' = "running"
    BY <1>1, <1>4, <1>10 DEF marks
  <2>2. RequestTypeOK'
    <3>1. mdDownloadLast' \in -1 .. downloadNow' /\ mdDownloadLastTime' \in -1 .. totalTime'
      BY <1>1, <1>3, <1>5, <2>1
    <3>2. mbStop' \in BOOLEAN
      BY <2>1
    <3> QED BY <1>7, <3>1, <3>2
  <2>3. ~ Uploaded'
    BY <1>5, <1>10
  <2>4. uploadTotal' # 0 => mdDownloadLast' = -1
    BY <1>2, <1>10, <2>1 DEF RequestInv, MarkInv
  <2>5. MarkInv'
    BY <2>1, <2>3, <2>4 DEF MarkInv, Running
  <2> QED BY <1>2, <1>6, <2>2, <2>5 DEF RequestInv
<1> QED BY <1>8, <1>9, <1>10 DEF HttpProgress

\* Nothing happens.
LEMMA StutterInv ==
    ASSUME RequestInv, UNCHANGED <<vars, transfer>>
    PROVE  RequestInv'
<1>1. TypeOK' /\ ParserInv'
  BY ParserWaits DEF RequestInv, RequestTypeOK
<1>2. UNCHANGED <<headerLength, contentLength, total, overlaps, hole>>
  BY DEF vars, sends
<1>3. /\ UNCHANGED <<state, mpRequestBuffer, sent, told, mbPost, uploadTotal>>
      /\ UNCHANGED <<downloadTotal, downloadNow, totalTime>>
      /\ UNCHANGED <<mdDownloadLast, mdDownloadLastTime, mbStop, lastActive>>
  BY DEF transfer, body, download, marks
<1>4. RequestTypeOK'
  BY <1>1, <1>2, <1>3 DEF RequestInv, RequestTypeOK
<1>5. NotStarted' /\ BodyInv'
  BY <1>2, <1>3 DEF RequestInv, NotStarted, BodyInv
<1>6. MarkInv'
  BY <1>3 DEF RequestInv, MarkInv, Running, Uploaded, uploadNow, NothingSince, Downloading,
              Silence
<1> QED BY <1>1, <1>4, <1>5, <1>6 DEF RequestInv

\* A browser that has sent nothing, and no request.
LEMMA RequestInitInv ==
    ASSUME RequestInit
    PROVE  RequestInv
<1>1. /\ received = 0 /\ mBuffer = <<>> /\ mbReceiveHeaderFinish = FALSE
      /\ ret = 0 /\ started = 0 /\ overlaps = FALSE /\ hole = FALSE
      /\ headerLength \in HeaderLengths /\ contentLength \in ContentLengths
  BY DEF RequestInit, Init
<1>2. /\ headerLength \in Nat /\ headerLength >= 4 /\ contentLength \in Nat \cup {-1}
      /\ MAX_BUFFER_LEN \in Nat /\ MaxMore \in Nat
  BY <1>1, DataHttpParserAssumption DEF EmptyLine
<1>3. total \in Nat
  <2>1. PICK more \in 0 .. MaxMore :
            total = headerLength + (IF contentLength = -1 THEN 0 ELSE contentLength) + more
    BY DEF RequestInit, Init
  <2>2. CASE contentLength = -1
    BY <1>2, <2>1, <2>2
  <2>3. CASE contentLength # -1
    BY <1>2, <2>1, <2>3
  <2> QED BY <2>2, <2>3
<1>4. mIndex = 0 /\ mBuffer \in Seq(0 .. total)
  BY <1>1 DEF mIndex
<1>5. TypeOK
  <2>1. received \in 0 .. total /\ started \in 0 .. received
    BY <1>1, <1>3
  <2>2. {mbReceiveHeaderFinish, overlaps, hole} \subseteq BOOLEAN /\ ret \in {-1, 0, 1}
    BY <1>1
  <2>3. mIndex <= MAX_BUFFER_LEN
    BY <1>2, <1>4
  <2> QED BY <1>1, <1>3, <1>4, <2>1, <2>2, <2>3, Zenon DEF TypeOK
<1>6. Searching
  <2>1. Stretch(0, 0) \in Seq(Nat) /\ Len(Stretch(0, 0)) = 0
    BY StretchFacts
  <2>2. Stretch(0, 0) = <<>>
    BY <2>1, EmptySeq
  <2> QED BY <1>1, <1>2, <1>4, <2>2 DEF Searching
<1>7. /\ state = "none" /\ mpRequestBuffer = <<>> /\ sent = <<>> /\ told = FALSE
      /\ mbPost = FALSE /\ uploadTotal = 0 /\ downloadTotal = 0 /\ downloadNow = 0
      /\ totalTime = 0 /\ lastActive = 0
      /\ mdDownloadLast = -1 /\ mdDownloadLastTime = -1 /\ mbStop = FALSE
  BY DEF RequestInit
<1>8. RequestTypeOK
  <2>1. MaxPieces \in Nat /\ MaxTime \in Nat
    BY HttpRequestAssumption
  <2>2. {told, mbPost, mbStop} \subseteq BOOLEAN /\ uploadTotal \in {0, contentLength}
    BY <1>7
  <2>3. mpRequestBuffer \in Seq(0 .. total) /\ sent \in Seq(0 .. total)
    BY <1>7
  <2>4. /\ downloadTotal \in {0, MaxPieces} /\ downloadNow \in 0 .. MaxPieces
        /\ totalTime \in 0 .. MaxTime /\ lastActive \in 0 .. totalTime
        /\ mdDownloadLast \in -1 .. downloadNow /\ mdDownloadLastTime \in -1 .. totalTime
        /\ state \in {"none", "running", "ended", "aborted"}
    BY <1>7, <2>1
  <2> QED BY <1>5, <2>2, <2>3, <2>4, Zenon DEF RequestTypeOK
<1>9. NotStarted /\ BodyInv
  BY <1>7 DEF NotStarted, BodyInv
<1>10. MarkInv
  BY <1>7 DEF MarkInv, Running
<1> QED BY <1>6, <1>8, <1>9, <1>10 DEF RequestInv, ParserInv

\* Every step keeps the invariant.
LEMMA RequestNextInv ==
    ASSUME RequestInv, [RequestNext]_<<vars, transfer>>
    PROVE  RequestInv'
<1>1. ASSUME NEW len \in 1 .. MaxPacket, OnRecvProxyBuffer(len)
      PROVE  RequestInv'
  BY <1>1, PacketInv, StartInv DEF OnRecvProxyBuffer
<1>2. ASSUME UNCHANGED <<vars, transfer>> PROVE RequestInv'
  BY <1>2, StutterInv
<1> QED BY <1>1, <1>2, SendInv, TotalInv, ReceiveInv, EndsInv, ProgressInv
        DEF RequestNext, RequestDone

-----------------------------------------------------------------------------
(***************************************************************************)
(* In every state the parser's buffer, the request and its marks are as    *)
(* RequestInv says, however the browser's bytes are cut into packets and   *)
(* whatever the request does meanwhile (DataHttpParser.cpp 27-145,         *)
(* HttpRequest.cpp 150-226, HttpClient.cpp 233-256).                       *)
(***************************************************************************)
THEOREM RequestInvariance == RequestSpec => []RequestInv
<1>1. RequestInit => RequestInv
  BY RequestInitInv
<1>2. RequestInv /\ [RequestNext]_<<vars, transfer>> => RequestInv'
  BY RequestNextInv
<1> QED BY <1>1, <1>2, PTL DEF RequestSpec

\* The types of the parser and of the request hold in every state.
THEOREM RequestTypesCorrect == RequestSpec => []RequestTypeOK
<1>1. RequestInv => RequestTypeOK
  BY DEF RequestInv
<1> QED BY <1>1, RequestInvariance, PTL

(***************************************************************************)
(* ParseData returns 1 with the last byte of a request that fits into the  *)
(* buffer, and starts no request with a length twice                       *)
(* (DataHttpParser.cpp 27-145).                                            *)
(***************************************************************************)
THEOREM StartedCorrect == RequestSpec => []StartedWithLastByte
<1>1. ASSUME RequestInv PROVE StartedWithLastByte
  <2>1. TypeOK /\ ParserInv
    BY <1>1 DEF RequestInv, RequestTypeOK
  <2>2. /\ headerLength \in Nat /\ headerLength >= 4 /\ contentLength \in Nat \cup {-1}
        /\ total \in Nat /\ received \in Nat /\ received <= total
        /\ mIndex \in Nat /\ mIndex <= MAX_BUFFER_LEN /\ MAX_BUFFER_LEN \in Nat
        /\ hole \in BOOLEAN /\ mbReceiveHeaderFinish \in BOOLEAN
    BY <2>1, ParserTypes
  <2>3. contentLength # -1 => started <= 1
    BY <2>1 DEF ParserInv, Searching, StartedWhenComplete
  <2>4. ASSUME total = Whole, Whole <= MAX_BUFFER_LEN
        PROVE  ret = 1 <=> received = Whole
    <3>1. /\ Whole \in Nat /\ Whole >= headerLength
          /\ contentLength = -1 => Whole = headerLength
          /\ contentLength # -1 => Whole = headerLength + contentLength
      BY <2>2 DEF Whole
    <3>2. CASE Searching
      <4>1. /\ mIndex < headerLength /\ ret # 1
            /\ received = mIndex \/ mIndex = MAX_BUFFER_LEN
        BY <3>2 DEF Searching
      <4> QED BY <2>2, <2>4, <3>1, <4>1
    <3>3. CASE HoldsBody /\ StartedWhenComplete
      <4>1. received >= headerLength + mIndex
        BY <3>3 DEF HoldsBody
      <4>2. hole = FALSE
        <5>1. ~ (received > MAX_BUFFER_LEN)
          BY <2>2, <2>4
        <5> QED BY <2>2, <3>3, <5>1 DEF HoldsBody
      <4>3. received = headerLength + mIndex
        <5>1. received = headerLength + mIndex \/ mIndex = MAX_BUFFER_LEN
          BY <3>3, <4>2 DEF HoldsBody
        <5>2. mIndex # MAX_BUFFER_LEN
          BY <2>2, <2>4, <4>1
        <5> QED BY <5>1, <5>2
      <4>4. mIndex + 1 < MAX_BUFFER_LEN /\ mIndex < MAX_BUFFER_LEN
        BY <2>2, <2>4, <4>3
      <4>5. mbReceiveHeaderFinish
        <5>1. ~ (mIndex + 1 >= MAX_BUFFER_LEN)
          BY <2>2, <4>4
        <5> QED BY <3>3, <5>1 DEF StartedWhenComplete
      <4>6. CASE contentLength = -1
        <5>1. mIndex = 0 /\ received = Whole
          BY <2>2, <2>4, <3>1, <4>3, <4>6
        <5>2. ret = 1
          BY <3>3, <4>6, <5>1 DEF StartedWhenComplete
        <5> QED BY <5>1, <5>2
      <4>7. CASE contentLength # -1
        <5>1. received = Whole <=> mIndex = contentLength
          BY <2>2, <3>1, <4>3, <4>7
        <5>2. ret = 1 => mIndex = contentLength
          BY <3>3, <4>7 DEF StartedWhenComplete
        <5>3. mIndex = contentLength => ret = 1
          BY <3>3, <4>4, <4>5, <4>7 DEF StartedWhenComplete
        <5> QED BY <5>1, <5>2, <5>3
      <4> QED BY <4>6, <4>7
    <3> QED BY <2>1, <3>2, <3>3 DEF ParserInv
  <2> QED BY <2>3, <2>4 DEF StartedWithLastByte
<1> QED BY <1>1, RequestInvariance, PTL

(***************************************************************************)
(* The web server is sent the body the browser sent, once and in order,    *)
(* and is told that it is complete when it is and no sooner                *)
(* (DataHttpParser.cpp 27-145, HttpRequest.cpp 150-226).                   *)
(***************************************************************************)
THEOREM BodySentCorrect == RequestSpec => []BodySent
<1>1. ASSUME RequestInv PROVE BodySent
  <2> SUFFICES ASSUME contentLength # -1, ~ overlaps, ~ hole
               PROVE  LET asked == [i \in 1 .. contentLength |-> headerLength + i] IN
                      /\ IsPrefix(sent, asked)
                      /\ told => sent = asked
    BY DEF BodySent
  <2> DEFINE asked == Stretch(headerLength, contentLength)
  <2>1. RequestTypeOK
    BY <1>1 DEF RequestInv
  <2>2. headerLength \in Nat /\ contentLength \in Nat /\ total \in Nat
    BY <2>1, RequestTypes, ParserTypes
  <2>3. asked \in Seq(Nat) /\ Len(asked) = contentLength
    BY <2>2, StretchFacts
  <2>4. asked = [i \in 1 .. contentLength |-> headerLength + i]
    BY DEF Stretch
  <2> HIDE DEF asked
  <2>5. sent \in Seq(0 .. total) /\ mpRequestBuffer \in Seq(0 .. total)
    BY <2>1, RequestTypes
  <2>6. CASE state = "none"
    <3>1. sent = <<>> /\ ~ told
      BY <1>1, <2>6 DEF RequestInv, NotStarted
    <3>2. Len(sent) = 0
      BY <3>1
    <3>3. SubSeq(sent, 1, Len(sent)) = <<>> /\ SubSeq(asked, 1, Len(sent)) = <<>>
      BY <3>2, SubSeqEmpty
    <3>4. IsPrefix(sent, asked)
      BY <2>2, <2>3, <3>2, <3>3 DEF IsPrefix
    <3> QED BY <2>4, <3>1, <3>4
  <2>7. CASE state # "none"
    <3>1. sent \o mpRequestBuffer = asked /\ (told => mpRequestBuffer = <<>>)
      BY <1>1, <2>7 DEF RequestInv, BodyInv, asked
    <3>2. told => sent = asked
      BY <2>5, <3>1, ConcatEmptySeq
    <3>3. IsPrefix(sent, asked)
      BY <2>5, <3>1, FrontIsPrefix
    <3> QED BY <2>4, <3>2, <3>3
  <2> QED BY <2>6, <2>7
<1> QED BY <1>1, RequestInvariance, PTL

(***************************************************************************)
(* A download that has begun and stalls is given up DWONLOAD_TIMEOUT       *)
(* seconds after something was sent or received last, within the second in *)
(* which the stall is noticed, and none is given up sooner                 *)
(* (HttpClient.cpp 233-256).                                               *)
(***************************************************************************)
THEOREM GivenUpCorrect == RequestSpec => []GivenUpWhenStalled
<1>1. ASSUME RequestInv PROVE GivenUpWhenStalled
  <2>1. /\ totalTime \in Nat /\ lastActive \in Nat /\ DWONLOAD_TIMEOUT \in Nat
        /\ mdDownloadLastTime \in Int
    BY <1>1, RequestTypes DEF RequestInv
  <2>2. ASSUME Running, Uploaded, Downloading PROVE Silence <= DWONLOAD_TIMEOUT + 1
    <3>1. CASE NothingSince
      <4>1. /\ mdDownloadLastTime <= lastActive + 1
            /\ totalTime - mdDownloadLastTime <= DWONLOAD_TIMEOUT
        BY <1>1, <2>2, <3>1 DEF RequestInv, MarkInv
      <4> QED BY <2>1, <4>1 DEF Silence
    <3>2. CASE ~ NothingSince
      <4>1. totalTime = lastActive
        BY <1>1, <2>2, <3>2 DEF RequestInv, MarkInv
      <4> QED BY <2>1, <4>1 DEF Silence
    <3> QED BY <3>1, <3>2
  <2>3. state = "aborted" => Silence > DWONLOAD_TIMEOUT
    BY <1>1 DEF RequestInv, MarkInv
  <2> QED BY <2>2, <2>3 DEF GivenUpWhenStalled, Downloading
<1> QED BY <1>1, RequestInvariance, PTL
=============================================================================
