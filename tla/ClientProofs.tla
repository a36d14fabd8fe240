---------------------------- MODULE ClientProofs ----------------------------
(***************************************************************************)
(* What the recursive functions of FrameParser compute, for any stream and *)
(* any buffer, by the induction lemmas: that they terminate and satisfy    *)
(* their equations, and that parsing any part of the stream that begins    *)
(* with a command cuts it into its commands.  With that, that Client gives *)
(* the commands of the stream whole and in order, keeps no packet back and *)
(* accounts for every message of the pool, for any stream, any handlers    *)
(* and any bounds.                                                         *)
(***************************************************************************)
EXTENDS ClientInvariants, Induction, SequenceTheorems, FiniteSetTheorems

-----------------------------------------------------------------------------
Places == 1 .. Len(Lens) + 1

\* What the assumptions say of the commands, one by one.
LEMMA FrameFacts ==
    /\ Commands = 1 .. Len(Lens) /\ Len(Lens) \in Nat
    /\ HeaderLen \in Nat /\ HeaderLen > 0 /\ BufferLen \in Nat /\ HeaderLen <= BufferLen
    /\ \A c \in Commands : Lens[c] \in Int /\ Size(c) \in Nat /\ Size(c) <= BufferLen
                           /\ Size(c) >= HeaderLen
BY FrameAssumption DEF Commands, Size

\* The places at which commands begin and end.
LEMMA PlaceFacts ==
    /\ \A c \in Commands : c \in Places /\ c + 1 \in Places /\ (c + 1) - 1 = c /\ c + 1 # 1
    /\ \A c \in Places : c \in Nat /\ c >= 1 /\ (c # 1 => c - 1 \in Commands /\ c - 1 \in Places)
    /\ 1 \in Places
BY FrameFacts DEF Places

StartDef == [g \in [Places -> Nat] |->
                [c \in Places |-> IF c = 1 THEN 1 ELSE g[c - 1] + Size(c - 1)]]
StartRank == [c \in Places |-> c]

\* StartOf satisfies its equation.
LEMMA StartOfEquation ==
    /\ StartOf \in [Places -> Nat] /\ StartOf[1] = 1
    /\ \A c \in Commands : StartOf[c + 1] = StartOf[c] + Size(c)
<1>1. \A c \in Places : c # 1 => c - 1 \in Places /\ Size(c - 1) \in Nat /\ c - 1 < c
  BY PlaceFacts, FrameFacts
<1>2. StartDef \in [[Places -> Nat] -> [Places -> Nat]]
  <2> SUFFICES ASSUME NEW g \in [Places -> Nat]
               PROVE  [c \in Places |-> IF c = 1 THEN 1 ELSE g[c - 1] + Size(c - 1)]
                          \in [Places -> Nat]
    BY DEF StartDef
  <2> SUFFICES ASSUME NEW c \in Places
               PROVE  (IF c = 1 THEN 1 ELSE g[c - 1] + Size(c - 1)) \in Nat
    OBVIOUS
  <2>1. c # 1 => g[c - 1] \in Nat /\ Size(c - 1) \in Nat
    BY <1>1
  <2> QED BY <2>1
<1>3. StartRank \in [Places -> Nat]
  BY PlaceFacts DEF StartRank
<1>4. UsesLowerRanks(StartDef, Places, Nat, StartRank)
  <2> SUFFICES ASSUME NEW g \in [Places -> Nat], NEW h \in [Places -> Nat], NEW c \in Places,
                      \A y \in Places : StartRank[y] < StartRank[c] => g[y] = h[y]
               PROVE  StartDef[g][c] = StartDef[h][c]
    BY DEF UsesLowerRanks
  <2>1. StartDef[g][c] = IF c = 1 THEN 1 ELSE g[c - 1] + Size(c - 1)
    BY DEF StartDef
  <2>2. StartDef[h][c] = IF c = 1 THEN 1 ELSE h[c - 1] + Size(c - 1)
    BY DEF StartDef
  <2>3. c # 1 => StartRank[c - 1] < StartRank[c] /\ c - 1 \in Places
    BY <1>1 DEF StartRank
  <2> QED BY <2>1, <2>2, <2>3
<1>5. WellDefined(StartDef, Places, Nat, StartRank)
  BY <1>2, <1>3, <1>4 DEF WellDefined
<1>6. PICK f : f \in [Places -> Nat] /\ f = StartDef[f]
  BY <1>5, RecursionSolved
<1>7. f = [c \in Places |-> IF c = 1 THEN 1 ELSE f[c - 1] + Size(c - 1)]
  BY <1>6 DEF StartDef
<1>8. StartOf = [c \in Places |-> IF c = 1 THEN 1 ELSE StartOf[c - 1] + Size(c - 1)]
  BY <1>7 DEF StartOf, Places
<1>9. \A c \in Places : c # 1 => StartOf[c] = StartOf[c - 1] + Size(c - 1)
  BY <1>8
<1>10. \A c \in Places : StartOf[c] \in Nat
  <2> DEFINE T == {c \in Places : StartOf[c] \in Nat}
  <2>1. ASSUME NEW c \in Places, \A y \in Places : StartRank[y] < StartRank[c] => y \in T
        PROVE  c \in T
    <3>1. c # 1 => c - 1 \in T /\ Size(c - 1) \in Nat
      BY <1>1, <2>1 DEF StartRank
    <3>2. StartOf[1] = 1
      BY <1>8, PlaceFacts
    <3> QED BY <1>9, <3>1, <3>2
  <2> HIDE DEF T
  <2>2. Places \subseteq T
    BY <1>3, <2>1, SetOfAllRanked
  <2> QED BY <2>2 DEF T
<1>11. StartOf \in [Places -> Nat]
  BY <1>8, <1>10
<1>12. ASSUME NEW c \in Commands
       PROVE  StartOf[c + 1] = StartOf[c] + Size(c)
  <2>1. c + 1 \in Places /\ (c + 1) - 1 = c /\ c + 1 # 1
    BY PlaceFacts
  <2>2. StartOf[c + 1] = StartOf[(c + 1) - 1] + Size((c + 1) - 1)
    BY <1>9, <2>1, Zenon
  <2> QED BY <2>1, <2>2
<1>13. StartOf[1] = 1
  BY <1>8, PlaceFacts
<1> QED BY <1>11, <1>12, <1>13

\* The place behind a command is behind its header, and within the buffer of its start.
LEMMA StartOfStep ==
    ASSUME NEW c \in Commands
    PROVE  /\ StartOf[c] \in Nat /\ StartOf[c + 1] \in Nat /\ Size(c) \in Nat
           /\ StartOf[c + 1] = StartOf[c] + Size(c)
           /\ StartOf[c] + HeaderLen <= StartOf[c + 1]
           /\ StartOf[c + 1] <= StartOf[c] + BufferLen
<1>1. c \in Places /\ c + 1 \in Places
  BY PlaceFacts
<1>2. StartOf[c] \in Nat /\ StartOf[c + 1] \in Nat /\ StartOf[c + 1] = StartOf[c] + Size(c)
  BY <1>1, StartOfEquation
<1>3. Size(c) \in Nat /\ Size(c) >= HeaderLen /\ Size(c) <= BufferLen /\ HeaderLen \in Nat
      /\ BufferLen \in Nat
  BY FrameFacts
<1> QED BY <1>2, <1>3

\* Commands follow each other.
LEMMA StartOfGrows ==
    ASSUME NEW c \in Places, NEW d \in Places, c < d
    PROVE  StartOf[c + 1] <= StartOf[d] /\ StartOf[c] + HeaderLen <= StartOf[d]
<1> DEFINE A == {n \in Nat : c + n + 1 \in Places => StartOf[c + 1] <= StartOf[c + n + 1]}
<1>0. c \in Nat /\ d \in Nat /\ c \in Commands
  BY FrameFacts DEF Places
<1>1. 0 \in A
  <2>1. StartOf[c + 1] \in Nat /\ c + 0 + 1 = c + 1
    BY <1>0, StartOfStep
  <2> QED BY <2>1
<1>2. ASSUME NEW n \in Nat, n \in A
      PROVE  n + 1 \in A
  <2> SUFFICES ASSUME c + (n + 1) + 1 \in Places
               PROVE  StartOf[c + 1] <= StartOf[c + (n + 1) + 1]
    OBVIOUS
  <2> DEFINE e == c + n + 1
  <2>1. e \in Commands /\ e \in Places /\ c + (n + 1) + 1 = e + 1
    BY <1>0, FrameFacts DEF Places
  <2>2. StartOf[c + 1] <= StartOf[e] /\ StartOf[c + 1] \in Nat
    BY <1>0, <1>2, <2>1, StartOfStep
  <2> HIDE DEF e
  <2>3. StartOf[e] \in Nat /\ StartOf[e + 1] \in Nat /\ StartOf[e] + HeaderLen <= StartOf[e + 1]
    BY <2>1, StartOfStep
  <2>4. HeaderLen \in Nat
    BY FrameFacts
  <2> QED BY <2>1, <2>2, <2>3, <2>4
<1> HIDE DEF A
<1>3. Nat \subseteq A
  BY <1>1, <1>2, SetOfAllNaturals
<1>4. d - c - 1 \in Nat /\ c + (d - c - 1) + 1 = d
  BY <1>0
<1>5. StartOf[c + 1] <= StartOf[d]
  BY <1>3, <1>4 DEF A
<1>6. StartOf[c] \in Nat /\ StartOf[c + 1] \in Nat /\ StartOf[d] \in Nat
      /\ StartOf[c] + HeaderLen <= StartOf[c + 1] /\ HeaderLen \in Nat
  BY <1>0, StartOfStep, StartOfEquation, FrameFacts
<1> QED BY <1>5, <1>6

-----------------------------------------------------------------------------
\* Bytes(from, n) is a sequence of n positions, from "from" on.
LEMMA BytesFacts ==
    ASSUME NEW from \in Nat, NEW n \in Nat
    PROVE  /\ Bytes(from, n) \in Seq(Nat) /\ Len(Bytes(from, n)) = n
           /\ \A i \in 1 .. n : Bytes(from, n)[i] = from + i - 1
<1>1. \A i \in 1 .. n : from + i - 1 \in Nat
  OBVIOUS
<1> QED BY <1>1 DEF Bytes

\* A part of consecutive positions is consecutive.
LEMMA BytesPart ==
    ASSUME NEW from \in Nat, NEW n \in Nat, NEW a \in 1 .. n + 1, NEW b \in a - 1 .. n
    PROVE  SubSeq(Bytes(from, n), a, b) = Bytes(from + (a - 1), b - (a - 1))
<1> DEFINE s == SubSeq(Bytes(from, n), a, b)
           t == Bytes(from + (a - 1), b - (a - 1))
<1>1. from + (a - 1) \in Nat /\ b - (a - 1) \in Nat
  OBVIOUS
<1>2. /\ Bytes(from, n) \in Seq(Nat) /\ Len(Bytes(from, n)) = n
      /\ \A i \in 1 .. n : Bytes(from, n)[i] = from + i - 1
  BY BytesFacts
<1>3. /\ t \in Seq(Nat) /\ Len(t) = b - (a - 1)
      /\ \A i \in 1 .. b - (a - 1) : t[i] = from + (a - 1) + i - 1
  BY <1>1, BytesFacts
<1>4. /\ s \in Seq(Nat) /\ Len(s) = b - (a - 1)
      /\ \A i \in 1 .. b - (a - 1) : s[i] = Bytes(from, n)[a + i - 1]
  BY <1>2
<1>5. \A i \in 1 .. b - (a - 1) : s[i] = t[i]
  <2> SUFFICES ASSUME NEW i \in 1 .. b - (a - 1) PROVE s[i] = t[i]
    OBVIOUS
  <2>1. a + i - 1 \in 1 .. n
    OBVIOUS
  <2> QED BY <1>2, <1>3, <1>4, <2>1
<1> HIDE DEF s, t
<1>6. s = t
  BY <1>3, <1>4, <1>5, SeqEqual
<1> QED BY <1>6 DEF s, t

\* Two runs of positions that meet are one.
LEMMA BytesJoined ==
    ASSUME NEW from \in Nat, NEW n \in Nat, NEW m \in Nat
    PROVE  Bytes(from, n) \o Bytes(from + n, m) = Bytes(from, n + m)
<1> DEFINE s == Bytes(from, n)
           t == Bytes(from + n, m)
           u == Bytes(from, n + m)
<1>1. s \in Seq(Nat) /\ Len(s) = n /\ \A i \in 1 .. n : s[i] = from + i - 1
  BY BytesFacts
<1>2. t \in Seq(Nat) /\ Len(t) = m /\ \A i \in 1 .. m : t[i] = (from + n) + i - 1
  <2>1. from + n \in Nat
    OBVIOUS
  <2> QED BY <2>1, BytesFacts
<1>3. u \in Seq(Nat) /\ Len(u) = n + m /\ \A i \in 1 .. n + m : u[i] = from + i - 1
  <2>1. n + m \in Nat
    OBVIOUS
  <2> QED BY <2>1, BytesFacts
<1> HIDE DEF s, t, u
<1>4. s \o t \in Seq(Nat) /\ Len(s \o t) = n + m
  BY <1>1, <1>2, ConcatProperties
<1>5. \A i \in 1 .. n + m : (s \o t)[i] = u[i]
  <2> SUFFICES ASSUME NEW i \in 1 .. n + m PROVE (s \o t)[i] = u[i]
    OBVIOUS
  <2>1. CASE i <= n
    BY <1>1, <1>2, <1>3, <2>1
  <2>2. CASE i > n
    <3>1. i - n \in 1 .. m
      BY <2>2
    <3>2. (s \o t)[i] = t[i - n]
      BY <1>1, <1>2, <2>2
    <3> QED BY <1>2, <1>3, <3>1, <3>2
  <2> QED BY <1>1, <1>2, <1>4, <2>1, <2>2
<1>6. s \o t = u
  BY <1>3, <1>4, <1>5, SeqEqual
<1> QED BY <1>6 DEF s, t, u

\* Where a run of positions begins can be told from it.
LEMMA BytesSame ==
    ASSUME NEW a \in Nat, NEW b \in Nat, NEW n \in Nat, n > 0, Bytes(a, n) = Bytes(b, n)
    PROVE  a = b
<1>1. 1 \in 1 .. n
  OBVIOUS
<1>2. Bytes(a, n)[1] = a + 1 - 1
  BY <1>1, BytesFacts
<1>3. Bytes(b, n)[1] = b + 1 - 1
  BY <1>1, BytesFacts
<1> QED BY <1>2, <1>3

\* Commands begin at places of their own.
LEMMA StartOfInjective ==
    ASSUME NEW c \in Places, NEW d \in Places, StartOf[c] = StartOf[d]
    PROVE  c = d
<1>1. StartOf[c] \in Nat /\ StartOf[d] \in Nat /\ HeaderLen \in Nat /\ HeaderLen > 0
      /\ c \in Nat /\ d \in Nat
  BY StartOfEquation, FrameFacts, PlaceFacts
<1>2. c < d => StartOf[c] + HeaderLen <= StartOf[d]
  BY StartOfGrows
<1>3. d < c => StartOf[d] + HeaderLen <= StartOf[c]
  BY StartOfGrows
<1> QED BY <1>1, <1>2, <1>3

\* A len field is a number; one that is not refused belongs to a command that fits.
LEMMA AnnouncedFacts ==
    ASSUME NEW buf
    PROVE  AnnouncedLen(buf) \in Int /\ (AnnouncedLen(buf) >= 0 => FrontSize(buf) <= BufferLen)
<1> DEFINE here == {c \in Commands : SubSeq(buf, 1, HeaderLen) = Bytes(StartOf[c], HeaderLen)}
<1>1. CASE here = {}
  BY <1>1 DEF AnnouncedLen
<1>2. CASE here # {}
  <2>1. PICK c \in Commands : AnnouncedLen(buf) = Lens[c]
    BY <1>2 DEF AnnouncedLen
  <2>2. Lens[c] \in Int /\ Size(c) <= BufferLen /\ HeaderLen \in Nat
    BY FrameFacts
  <2>3. Lens[c] >= 0 => Size(c) = HeaderLen + Lens[c]
    BY <2>2 DEF Size
  <2> QED BY <2>1, <2>2, <2>3 DEF FrontSize
<1> QED BY <1>1, <1>2

\* At the front of a command is its own header.
LEMMA AnnouncedHere ==
    ASSUME NEW c \in Commands, NEW n \in Nat, n >= HeaderLen
    PROVE  AnnouncedLen(Bytes(StartOf[c], n)) = Lens[c]
<1> DEFINE buf == Bytes(StartOf[c], n)
           here == {d \in Commands : SubSeq(buf, 1, HeaderLen) = Bytes(StartOf[d], HeaderLen)}
<1>1. StartOf[c] \in Nat /\ HeaderLen \in Nat /\ HeaderLen > 0
  BY StartOfStep, FrameFacts
<1>2. SubSeq(buf, 1, HeaderLen) = Bytes(StartOf[c], HeaderLen)
  <2>1. 1 \in 1 .. n + 1 /\ HeaderLen \in 1 - 1 .. n
    BY <1>1
  <2>2. SubSeq(buf, 1, HeaderLen) = Bytes(StartOf[c] + (1 - 1), HeaderLen - (1 - 1))
    BY <1>1, <2>1, BytesPart
  <2>3. StartOf[c] + (1 - 1) = StartOf[c] /\ HeaderLen - (1 - 1) = HeaderLen
    BY <1>1
  <2> QED BY <2>2, <2>3
<1>3. ASSUME NEW d \in here
      PROVE  d = c
  <2>1. Bytes(StartOf[d], HeaderLen) = Bytes(StartOf[c], HeaderLen)
    BY <1>2
  <2>2. StartOf[d] \in Nat /\ d \in Places /\ c \in Places
    BY StartOfStep, PlaceFacts
  <2>3. StartOf[d] = StartOf[c]
    BY <1>1, <2>1, <2>2, BytesSame
  <2> QED BY <2>2, <2>3, StartOfInjective
<1>4. here = {c}
  BY <1>2, <1>3
<1>5. AnnouncedLen(buf) = IF here = {} THEN -1 ELSE Lens[CHOOSE d \in here : TRUE]
  BY DEF AnnouncedLen
<1> QED BY <1>4, <1>5

-----------------------------------------------------------------------------
\* A whole command that is not refused is a front part of the buffer that leaves less.
LEMMA FrontFacts ==
    ASSUME NEW buf \in Seq(Nat), ~ Refused(buf), Whole(buf)
    PROVE  /\ AnnouncedLen(buf) >= 0
           /\ FrontSize(buf) \in Nat /\ 1 <= FrontSize(buf) /\ FrontSize(buf) <= Len(buf)
           /\ Behind(buf) \in Seq(Nat) /\ Len(Behind(buf)) = Len(buf) - FrontSize(buf)
           /\ SubSeq(buf, 1, FrontSize(buf)) \in Seq(Nat)
           /\ Overlaps(buf) \in BOOLEAN
<1>1. HeaderLen \in Nat /\ HeaderLen > 0 /\ AnnouncedLen(buf) \in Int
  BY FrameFacts, AnnouncedFacts
<1>2. AnnouncedLen(buf) >= 0
  BY <1>1 DEF Refused, Whole
<1>3. FrontSize(buf) \in Nat /\ 1 <= FrontSize(buf) /\ FrontSize(buf) <= Len(buf)
  BY <1>1, <1>2 DEF FrontSize, Whole
<1>4. Behind(buf) \in Seq(Nat) /\ Len(Behind(buf)) = Len(buf) - FrontSize(buf)
  <2> DEFINE k == FrontSize(buf)
  <2>1. k \in Nat /\ 1 <= k /\ k <= Len(buf)
    BY <1>3
  <2> HIDE DEF k
  <2>2. SubSeq(buf, k + 1, Len(buf)) \in Seq(Nat)
        /\ Len(SubSeq(buf, k + 1, Len(buf))) = Len(buf) - k
    BY <2>1
  <2> QED BY <2>2 DEF Behind, k
<1>5. SubSeq(buf, 1, FrontSize(buf)) \in Seq(Nat)
  BY <1>3
<1>6. Overlaps(buf) \in BOOLEAN
  BY DEF Overlaps
<1> QED BY <1>2, <1>3, <1>4, <1>5, <1>6

\* What is kept without a header refused is shorter than mBuffer.
LEMMA PartialFits ==
    ASSUME NEW buf \in Partial
    PROVE  buf \in Seq(Nat) /\ Len(buf) \in Nat /\ Len(buf) < BufferLen
<1>1. buf \in Seq(Nat) /\ Len(buf) \in Nat /\ ~ Refused(buf) /\ ~ Whole(buf)
  BY DEF Partial
<1>2. HeaderLen \in Nat /\ BufferLen \in Nat /\ HeaderLen <= BufferLen
  BY FrameFacts
<1>3. CASE Len(buf) < HeaderLen
  BY <1>1, <1>2, <1>3
<1>4. CASE Len(buf) >= HeaderLen
  <2>1. AnnouncedLen(buf) \in Int /\ (AnnouncedLen(buf) >= 0 => FrontSize(buf) <= BufferLen)
    BY AnnouncedFacts
  <2>2. AnnouncedLen(buf) >= 0
    BY <1>1, <1>4, <1>2, <2>1 DEF Refused
  <2>3. Len(buf) < FrontSize(buf) /\ FrontSize(buf) \in Int
    BY <1>1, <1>2, <1>4, <2>1 DEF Whole, FrontSize
  <2> QED BY <1>1, <1>2, <2>1, <2>2, <2>3
<1> QED BY <1>1, <1>2, <1>3, <1>4

\* Nothing kept is part of no command yet.
LEMMA EmptyPartial == <<>> \in Partial
<1>1. <<>> \in Seq(Nat) /\ Len(<<>>) = 0
  OBVIOUS
<1>2. HeaderLen \in Nat /\ HeaderLen > 0
  BY FrameFacts
<1> QED BY <1>1, <1>2 DEF Partial, Refused, Whole

TakeDef == [g \in [Seq(Nat) -> Outcomes] |->
               [buf \in Seq(Nat) |->
                   CASE Refused(buf)                   -> Outcome(buf, FALSE)
                     [] ~ Refused(buf) /\ ~ Whole(buf) -> Outcome(buf, TRUE)
                     [] ~ Refused(buf) /\ Whole(buf)   ->
                            After(<<SubSeq(buf, 1, FrontSize(buf))>>, Overlaps(buf),
                                  g[Behind(buf)])]]
BufRank == [buf \in Seq(Nat) |-> Len(buf)]

\* An outcome of parsing no command.
LEMMA OutcomeType ==
    ASSUME NEW buf \in Seq(Nat), NEW ok \in BOOLEAN
    PROVE  Outcome(buf, ok) \in Outcomes
<1>1. <<>> \in Seq(Seq(Nat))
  OBVIOUS
<1> QED BY <1>1 DEF Outcome, Outcomes

\* An outcome with more commands before it.
LEMMA AfterType ==
    ASSUME NEW cmds \in Seq(Seq(Nat)), NEW b \in BOOLEAN, NEW o \in Outcomes
    PROVE  After(cmds, b, o) \in Outcomes
<1>1. o.rest \in Seq(Nat) /\ o.cmds \in Seq(Seq(Nat)) /\ o.ok \in BOOLEAN /\ o.overlap \in BOOLEAN
  BY DEF Outcomes
<1>2. cmds \o o.cmds \in Seq(Seq(Nat))
  BY <1>1, ConcatProperties
<1> QED BY <1>1, <1>2 DEF After, Outcomes

\* A sequence of one.
LEMMA OneCommand ==
    ASSUME NEW S, NEW s \in S
    PROVE  <<s>> \in Seq(S) /\ Len(<<s>>) = 1 /\ <<s>>[1] = s
OBVIOUS

\* TakeCommands satisfies its equation.
LEMMA TakeCommandsEquation ==
    /\ TakeCommands \in [Seq(Nat) -> Outcomes]
    /\ \A buf \in Seq(Nat) :
          /\ Refused(buf) => TakeCommands[buf] = Outcome(buf, FALSE)
          /\ ~ Refused(buf) /\ ~ Whole(buf) => TakeCommands[buf] = Outcome(buf, TRUE)
          /\ ~ Refused(buf) /\ Whole(buf) =>
                TakeCommands[buf] = After(<<SubSeq(buf, 1, FrontSize(buf))>>, Overlaps(buf),
                                          TakeCommands[Behind(buf)])
<1>1. ASSUME NEW g \in [Seq(Nat) -> Outcomes], NEW buf \in Seq(Nat)
      PROVE  /\ TakeDef[g] \in [Seq(Nat) -> Outcomes]
             /\ Refused(buf) => TakeDef[g][buf] = Outcome(buf, FALSE)
             /\ ~ Refused(buf) /\ ~ Whole(buf) => TakeDef[g][buf] = Outcome(buf, TRUE)
             /\ ~ Refused(buf) /\ Whole(buf) =>
                   TakeDef[g][buf] = After(<<SubSeq(buf, 1, FrontSize(buf))>>, Overlaps(buf),
                                           g[Behind(buf)])
  <2> DEFINE body(x) == CASE Refused(x)                 -> Outcome(x, FALSE)
                          [] ~ Refused(x) /\ ~ Whole(x) -> Outcome(x, TRUE)
                          [] ~ Refused(x) /\ Whole(x)   ->
                                 After(<<SubSeq(x, 1, FrontSize(x))>>, Overlaps(x), g[Behind(x)])
  <2>1. TakeDef[g] = [x \in Seq(Nat) |-> body(x)]
    BY DEF TakeDef
  <2>2. \A x \in Seq(Nat) :
           /\ Refused(x) => body(x) = Outcome(x, FALSE)
           /\ ~ Refused(x) /\ ~ Whole(x) => body(x) = Outcome(x, TRUE)
           /\ ~ Refused(x) /\ Whole(x) =>
                 body(x) = After(<<SubSeq(x, 1, FrontSize(x))>>, Overlaps(x), g[Behind(x)])
    OBVIOUS
  <2> HIDE DEF body
  <2>3. ASSUME NEW x \in Seq(Nat)
        PROVE  body(x) \in Outcomes
    <3>1. CASE Refused(x)
      BY <2>2, <3>1, OutcomeType
    <3>2. CASE ~ Refused(x) /\ ~ Whole(x)
      BY <2>2, <3>2, OutcomeType
    <3>3. CASE ~ Refused(x) /\ Whole(x)
      <4>1. SubSeq(x, 1, FrontSize(x)) \in Seq(Nat) /\ Overlaps(x) \in BOOLEAN
            /\ Behind(x) \in Seq(Nat)
        BY <3>3, FrontFacts
      <4>2. <<SubSeq(x, 1, FrontSize(x))>> \in Seq(Seq(Nat)) /\ g[Behind(x)] \in Outcomes
        BY <4>1, OneCommand
      <4> QED BY <2>2, <3>3, <4>1, <4>2, AfterType
    <3> QED BY <3>1, <3>2, <3>3
  <2> QED BY <2>1, <2>2, <2>3
<1>2. TakeDef \in [[Seq(Nat) -> Outcomes] -> [Seq(Nat) -> Outcomes]]
  <2>1. <<>> \in Seq(Nat)
    OBVIOUS
  <2>2. \A g \in [Seq(Nat) -> Outcomes] : TakeDef[g] \in [Seq(Nat) -> Outcomes]
    BY <1>1, <2>1
  <2>3. TakeDef = [g \in [Seq(Nat) -> Outcomes] |-> TakeDef[g]]
    BY DEF TakeDef
  <2> QED BY <2>2, <2>3
<1>3. BufRank \in [Seq(Nat) -> Nat]
  BY DEF BufRank
<1>4. UsesLowerRanks(TakeDef, Seq(Nat), Outcomes, BufRank)
  <2> SUFFICES ASSUME NEW g \in [Seq(Nat) -> Outcomes], NEW h \in [Seq(Nat) -> Outcomes],
                      NEW buf \in Seq(Nat),
                      \A y \in Seq(Nat) : BufRank[y] < BufRank[buf] => g[y] = h[y]
               PROVE  TakeDef[g][buf] = TakeDef[h][buf]
    BY DEF UsesLowerRanks
  <2>1. CASE Refused(buf)
    BY <1>1, <2>1
  <2>2. CASE ~ Refused(buf) /\ ~ Whole(buf)
    BY <1>1, <2>2
  <2>3. CASE ~ Refused(buf) /\ Whole(buf)
    <3>1. /\ Behind(buf) \in Seq(Nat) /\ Len(Behind(buf)) = Len(buf) - FrontSize(buf)
          /\ FrontSize(buf) \in Nat /\ 1 <= FrontSize(buf)
      BY <2>3, FrontFacts
    <3>2. BufRank[Behind(buf)] < BufRank[buf]
      BY <3>1 DEF BufRank
    <3>3. g[Behind(buf)] = h[Behind(buf)]
      BY <3>1, <3>2
    <3>4. TakeDef[g][buf] = After(<<SubSeq(buf, 1, FrontSize(buf))>>, Overlaps(buf), g[Behind(buf)])
      BY <1>1, <2>3
    <3>5. TakeDef[h][buf] = After(<<SubSeq(buf, 1, FrontSize(buf))>>, Overlaps(buf), h[Behind(buf)])
      BY <1>1, <2>3
    <3> QED BY <3>3, <3>4, <3>5
  <2> QED BY <2>1, <2>2, <2>3
<1>5. Outcomes # {}
  <2>1. Outcome(<<>>, TRUE) \in Outcomes
    BY EmptyPartial, PartialFits, OutcomeType
  <2> QED BY <2>1
<1>6. WellDefined(TakeDef, Seq(Nat), Outcomes, BufRank)
  BY <1>2, <1>3, <1>4, <1>5 DEF WellDefined
<1>7. PICK f : f \in [Seq(Nat) -> Outcomes] /\ f = TakeDef[f]
  BY <1>6, RecursionSolved
<1>8. f = [buf \in Seq(Nat) |->
              CASE Refused(buf)                   -> Outcome(buf, FALSE)
                [] ~ Refused(buf) /\ ~ Whole(buf) -> Outcome(buf, TRUE)
                [] ~ Refused(buf) /\ Whole(buf)   ->
                       After(<<SubSeq(buf, 1, FrontSize(buf))>>, Overlaps(buf), f[Behind(buf)])]
  BY <1>7 DEF TakeDef
<1>9. TakeCommands = [buf \in Seq(Nat) |->
              CASE Refused(buf)                   -> Outcome(buf, FALSE)
                [] ~ Refused(buf) /\ ~ Whole(buf) -> Outcome(buf, TRUE)
                [] ~ Refused(buf) /\ Whole(buf)   ->
                       After(<<SubSeq(buf, 1, FrontSize(buf))>>, Overlaps(buf),
                             TakeCommands[Behind(buf)])]
  BY <1>8 DEF TakeCommands
<1>10. \A buf \in Seq(Nat) :
          /\ Refused(buf) => TakeCommands[buf] = Outcome(buf, FALSE)
          /\ ~ Refused(buf) /\ ~ Whole(buf) => TakeCommands[buf] = Outcome(buf, TRUE)
          /\ ~ Refused(buf) /\ Whole(buf) =>
                TakeCommands[buf] = After(<<SubSeq(buf, 1, FrontSize(buf))>>, Overlaps(buf),
                                          TakeCommands[Behind(buf)])
  BY <1>9
<1> DEFINE T == {buf \in Seq(Nat) : TakeCommands[buf] \in Outcomes}
<1>11. ASSUME NEW buf \in Seq(Nat), \A y \in Seq(Nat) : BufRank[y] < BufRank[buf] => y \in T
       PROVE  buf \in T
  <2>1. CASE Refused(buf)
    BY <1>10, <2>1, OutcomeType
  <2>2. CASE ~ Refused(buf) /\ ~ Whole(buf)
    BY <1>10, <2>2, OutcomeType
  <2>3. CASE ~ Refused(buf) /\ Whole(buf)
    <3>1. /\ SubSeq(buf, 1, FrontSize(buf)) \in Seq(Nat) /\ Overlaps(buf) \in BOOLEAN
          /\ Behind(buf) \in Seq(Nat) /\ Len(Behind(buf)) = Len(buf) - FrontSize(buf)
          /\ FrontSize(buf) \in Nat /\ 1 <= FrontSize(buf)
      BY <2>3, FrontFacts
    <3>2. BufRank[Behind(buf)] < BufRank[buf]
      BY <3>1 DEF BufRank
    <3>3. TakeCommands[Behind(buf)] \in Outcomes
      BY <1>11, <3>1, <3>2
    <3>4. <<SubSeq(buf, 1, FrontSize(buf))>> \in Seq(Seq(Nat))
      BY <3>1, OneCommand
    <3> QED BY <1>10, <2>3, <3>1, <3>3, <3>4, AfterType
  <2> QED BY <2>1, <2>2, <2>3
<1> HIDE DEF T
<1>12. Seq(Nat) \subseteq T
  BY <1>3, <1>11, SetOfAllRanked
<1>13. TakeCommands \in [Seq(Nat) -> Outcomes]
  <2>1. \A buf \in Seq(Nat) : TakeCommands[buf] \in Outcomes
    BY <1>12 DEF T
  <2>2. TakeCommands = [buf \in Seq(Nat) |-> TakeCommands[buf]]
    BY <1>9
  <2> QED BY <2>1, <2>2
<1> QED BY <1>10, <1>13

-----------------------------------------------------------------------------
\* What parsing "buf" may leave: no more than there was, and part of a command unless a
\* header was refused; only bytes of the buffer are in it and in the commands.
Sound(buf, o) ==
    /\ o \in Outcomes /\ Len(o.rest) <= Len(buf)
    /\ o.ok => o.rest \in Partial
    /\ \A V \in SUBSET Nat :
          buf \in Seq(V) => o.rest \in Seq(V) /\ o.cmds \in Seq(Seq(V))

\* The fields of an outcome.
LEMMA OutcomeFields ==
    /\ \A buf, ok : /\ Outcome(buf, ok).rest = buf /\ Outcome(buf, ok).cmds = <<>>
                    /\ Outcome(buf, ok).ok = ok
    /\ \A cmds, b, o : /\ After(cmds, b, o).rest = o.rest /\ After(cmds, b, o).ok = o.ok
                       /\ After(cmds, b, o).cmds = cmds \o o.cmds
    /\ \A o \in Outcomes : /\ o.rest \in Seq(Nat) /\ Len(o.rest) \in Nat
                           /\ o.cmds \in Seq(Seq(Nat)) /\ o.ok \in BOOLEAN
BY DEF Outcome, After, Outcomes

\* The inner loop leaves what Sound says.
LEMMA TakeCommandsSound ==
    \A buf \in Seq(Nat) : Sound(buf, TakeCommands[buf])
<1> DEFINE T == {x \in Seq(Nat) : Sound(x, TakeCommands[x])}
<1>1. ASSUME NEW x \in Seq(Nat), \A y \in Seq(Nat) : BufRank[y] < BufRank[x] => y \in T
      PROVE  x \in T
  <2> SUFFICES Sound(x, TakeCommands[x])
    OBVIOUS
  <2> DEFINE o == TakeCommands[x]
  <2>0. o \in Outcomes
    BY TakeCommandsEquation
  <2>1. CASE Refused(x) \/ ~ Whole(x)
    <3>1. o.rest = x /\ o.cmds = <<>> /\ (o.ok => ~ Refused(x) /\ ~ Whole(x))
      <4>1. CASE Refused(x)
        <5>1. o = Outcome(x, FALSE)
          BY <4>1, TakeCommandsEquation
        <5> QED BY <5>1 DEF Outcome
      <4>2. CASE ~ Refused(x) /\ ~ Whole(x)
        <5>1. o = Outcome(x, TRUE)
          BY <4>2, TakeCommandsEquation
        <5> QED BY <4>2, <5>1 DEF Outcome
      <4> QED BY <2>1, <4>1, <4>2
    <3>2. \A V \in SUBSET Nat : x \in Seq(V) => o.rest \in Seq(V) /\ o.cmds \in Seq(Seq(V))
      BY <3>1
    <3>3. Len(o.rest) <= Len(x) /\ (o.ok => o.rest \in Partial)
      BY <3>1 DEF Partial
    <3> QED BY <2>0, <3>2, <3>3 DEF Sound
  <2>2. CASE ~ Refused(x) /\ Whole(x)
    <3> DEFINE k == FrontSize(x)
               p == TakeCommands[Behind(x)]
               front == SubSeq(x, 1, k)
    <3>1. /\ k \in Nat /\ 1 <= k /\ k <= Len(x)
          /\ Behind(x) \in Seq(Nat) /\ Len(Behind(x)) = Len(x) - k
          /\ front \in Seq(Nat) /\ Behind(x) = SubSeq(x, k + 1, Len(x))
      BY <2>2, FrontFacts DEF Behind
    <3>2. BufRank[Behind(x)] < BufRank[x]
      BY <3>1 DEF BufRank
    <3>3. Sound(Behind(x), p) /\ p \in Outcomes
      BY <1>1, <3>1, <3>2, TakeCommandsEquation
    <3>4. o = After(<<front>>, Overlaps(x), p)
      BY <2>2, TakeCommandsEquation
    <3>5. o.rest = p.rest /\ o.ok = p.ok /\ o.cmds = <<front>> \o p.cmds
      <4> HIDE DEF o, p, front
      <4> QED BY <3>4 DEF After
    <3>6. Len(o.rest) <= Len(x) /\ (o.ok => o.rest \in Partial)
      <4>1. Len(p.rest) <= Len(Behind(x)) /\ (p.ok => p.rest \in Partial) /\ Len(p.rest) \in Nat
        BY <3>3, OutcomeFields DEF Sound
      <4> HIDE DEF k, p
      <4> QED BY <3>1, <3>5, <4>1
    <3>7. ASSUME NEW V \in SUBSET Nat, x \in Seq(V)
          PROVE  o.rest \in Seq(V) /\ o.cmds \in Seq(Seq(V))
      <4> HIDE DEF k
      <4>1. front \in Seq(V) /\ SubSeq(x, k + 1, Len(x)) \in Seq(V)
        BY <3>1, <3>7
      <4>2. p.rest \in Seq(V) /\ p.cmds \in Seq(Seq(V))
        BY <3>1, <3>3, <4>1 DEF Sound
      <4>3. <<front>> \in Seq(Seq(V))
        BY <4>1, OneCommand
      <4>4. <<front>> \o p.cmds \in Seq(Seq(V))
        BY <4>2, <4>3, ConcatProperties
      <4> QED BY <3>5, <4>2, <4>4
    <3> QED BY <2>0, <3>6, <3>7 DEF Sound
  <2> QED BY <2>1, <2>2
<1>2. BufRank \in [Seq(Nat) -> Nat]
  BY DEF BufRank
<1> HIDE DEF T
<1>3. Seq(Nat) \subseteq T
  BY <1>1, <1>2, SetOfAllRanked
<1> QED BY <1>3 DEF T

-----------------------------------------------------------------------------
\* Commands c to d - 1.
CommandsFrom(c, d) == [i \in 1 .. d - c |-> Command(c + i - 1)]

\* Parsing from command c on, of a stream received up to position "end", came to command
\* d: the commands before it were accepted and given, and its bytes are kept.
CutBetween(c, d, end, o) ==
    /\ c <= d /\ StartOf[d] <= end
    /\ o.rest = Bytes(StartOf[d], end - StartOf[d])
    /\ o.cmds = CommandsFrom(c, d)
    /\ \A i \in c .. d - 1 : Lens[i] >= 0
CutsAt(c, end, o) == \E d \in Places : CutBetween(c, d, end, o)

\* What CommandsFrom is.
LEMMA CommandsFromFacts ==
    ASSUME NEW c \in Places, NEW d \in Places, c <= d
    PROVE  /\ CommandsFrom(c, d) \in Seq(Seq(Nat)) /\ Len(CommandsFrom(c, d)) = d - c
           /\ \A i \in 1 .. d - c : CommandsFrom(c, d)[i] = Command(c + i - 1)
<1>1. c \in Nat /\ d \in Nat /\ \A i \in 1 .. d - c : c + i - 1 \in Commands
  BY FrameFacts DEF Places
<1>2. \A e \in Commands : Command(e) \in Seq(Nat)
  <2> SUFFICES ASSUME NEW e \in Commands PROVE Bytes(StartOf[e], Size(e)) \in Seq(Nat)
    BY DEF Command
  <2>1. StartOf[e] \in Nat /\ Size(e) \in Nat
    BY StartOfStep
  <2> QED BY <2>1, BytesFacts
<1>3. \A i \in 1 .. d - c : Command(c + i - 1) \in Seq(Nat)
  BY <1>1, <1>2
<1> QED BY <1>1, <1>3 DEF CommandsFrom

\* Commands c to d - 1 and then d to e - 1 are commands c to e - 1.
LEMMA CommandsFromJoined ==
    ASSUME NEW c \in Places, NEW d \in Places, NEW e \in Places, c <= d, d <= e
    PROVE  CommandsFrom(c, d) \o CommandsFrom(d, e) = CommandsFrom(c, e)
<1> DEFINE s == CommandsFrom(c, d)
           t == CommandsFrom(d, e)
           u == CommandsFrom(c, e)
<1>0. c \in Nat /\ d \in Nat /\ e \in Nat /\ c <= e
  BY DEF Places
<1>1. /\ s \in Seq(Seq(Nat)) /\ Len(s) = d - c
      /\ \A i \in 1 .. d - c : s[i] = Command(c + i - 1)
  BY CommandsFromFacts
<1>2. /\ t \in Seq(Seq(Nat)) /\ Len(t) = e - d
      /\ \A i \in 1 .. e - d : t[i] = Command(d + i - 1)
  BY CommandsFromFacts
<1>3. /\ u \in Seq(Seq(Nat)) /\ Len(u) = e - c
      /\ \A i \in 1 .. e - c : u[i] = Command(c + i - 1)
  BY <1>0, CommandsFromFacts
<1> HIDE DEF s, t, u
<1>4. s \o t \in Seq(Seq(Nat)) /\ Len(s \o t) = Len(s) + Len(t)
      /\ \A i \in 1 .. Len(s) + Len(t) : (s \o t)[i] = IF i <= Len(s) THEN s[i]
                                                       ELSE t[i - Len(s)]
  BY <1>1, <1>2, ConcatProperties
<1>5. Len(s \o t) = Len(u)
  BY <1>0, <1>1, <1>2, <1>3, <1>4
<1>6. ASSUME NEW i \in 1 .. e - c
      PROVE  (s \o t)[i] = u[i]
  <2>1. CASE i <= d - c
    <3>1. i \in 1 .. d - c /\ i \in 1 .. Len(s) + Len(t) /\ i <= Len(s)
      BY <1>0, <1>1, <1>2, <2>1
    <3> QED BY <1>1, <1>3, <1>4, <3>1
  <2>2. CASE i > d - c
    <3>1. /\ i - (d - c) \in 1 .. e - d /\ i \in 1 .. Len(s) + Len(t) /\ ~ (i <= Len(s))
          /\ d + (i - (d - c)) - 1 = c + i - 1 /\ i - Len(s) = i - (d - c)
      BY <1>0, <1>1, <1>2, <2>2
    <3>2. (s \o t)[i] = t[i - (d - c)]
      BY <1>4, <3>1
    <3>3. t[i - (d - c)] = Command(d + (i - (d - c)) - 1)
      BY <1>2, <3>1
    <3> QED BY <1>3, <3>1, <3>2, <3>3
  <2>3. i <= d - c \/ i > d - c
    BY <1>0
  <2> QED BY <2>1, <2>2, <2>3, Zenon
<1>7. s \o t = u
  BY <1>3, <1>4, <1>5, <1>6, SeqEqual
<1> QED BY <1>7 DEF s, t, u

\* One command, and none.
LEMMA CommandsFromSmall ==
    ASSUME NEW c \in Places
    PROVE  /\ CommandsFrom(c, c) = <<>>
           /\ c \in Commands => CommandsFrom(c, c + 1) = <<Command(c)>>
<1>1. c \in Nat
  BY DEF Places
<1>2. CommandsFrom(c, c) = <<>>
  BY <1>1 DEF CommandsFrom
<1>3. c \in Commands => CommandsFrom(c, c + 1) = <<Command(c)>>
  <2>1. 1 .. (c + 1) - c = {1} /\ c + 1 - 1 = c
    BY <1>1
  <2> QED BY <2>1 DEF CommandsFrom
<1> QED BY <1>2, <1>3

\* The stream ends where the last command does.
LEMMA StreamEnd ==
    /\ StreamLen \in Nat
    /\ \A c \in Places : /\ StartOf[c] >= 1 /\ StartOf[c] <= StreamLen + 1
                         /\ c \notin Commands => StartOf[c] = StreamLen + 1
<1> DEFINE last == Len(Lens) + 1
<1>1. last \in Places /\ last \in Nat /\ \A c \in Places : c \in Nat /\ c <= last /\ 1 <= c
  BY FrameFacts DEF Places
<1>2. \A c \in Places : c \notin Commands => c = last
  BY FrameFacts DEF Places
<1>3. StartOf[last] \in Nat /\ StreamLen = StartOf[last] - 1
  BY <1>1, StartOfEquation DEF StreamLen
<1> HIDE DEF last
<1>4. ASSUME NEW c \in Places
      PROVE  StartOf[c] \in Nat /\ StartOf[c] >= 1 /\ StartOf[c] <= StartOf[last]
  <2>1. StartOf[c] \in Nat /\ StartOf[1] = 1 /\ 1 \in Places /\ HeaderLen \in Nat
    BY StartOfEquation, PlaceFacts, FrameFacts
  <2>2. 1 < c => StartOf[1] + HeaderLen <= StartOf[c]
    BY <2>1, StartOfGrows
  <2>3. c < last => StartOf[c] + HeaderLen <= StartOf[last]
    BY <1>1, StartOfGrows
  <2>4. StartOf[c] >= 1
    <3>1. CASE c = 1
      BY <2>1, <3>1
    <3>2. CASE 1 < c
      BY <2>1, <2>2, <3>2
    <3> QED BY <1>1, <3>1, <3>2
  <2>5. StartOf[c] <= StartOf[last]
    <3>1. CASE c = last
      BY <1>3, <3>1
    <3>2. CASE c < last
      BY <1>3, <2>1, <2>3, <3>2
    <3> QED BY <1>1, <3>1, <3>2
  <2> QED BY <2>1, <2>4, <2>5
<1>5. StreamLen \in Nat
  BY <1>1, <1>3, <1>4
<1> QED BY <1>2, <1>3, <1>4, <1>5

\* A command put before what was cut from the next one on.
LEMMA CutLonger ==
    ASSUME NEW c \in Places, NEW d \in Places, NEW end, NEW o, NEW p, NEW b, c <= d,
           \A i \in c .. d - 1 : Lens[i] >= 0,
           o = After(CommandsFrom(c, d), b, p), CutsAt(d, end, p)
    PROVE  CutsAt(c, end, o)
<1>1. PICK e \in Places : CutBetween(d, e, end, p)
  BY DEF CutsAt
<1>2. d <= e /\ StartOf[e] <= end /\ p.rest = Bytes(StartOf[e], end - StartOf[e])
      /\ p.cmds = CommandsFrom(d, e) /\ \A i \in d .. e - 1 : Lens[i] >= 0
  BY <1>1 DEF CutBetween
<1>3. c \in Nat /\ d \in Nat /\ e \in Nat
  BY PlaceFacts
<1>4. o.rest = p.rest /\ o.cmds = CommandsFrom(c, d) \o p.cmds
  BY DEF After
<1>5. o.cmds = CommandsFrom(c, e)
  BY <1>2, <1>4, CommandsFromJoined
<1>6. \A i \in c .. e - 1 : Lens[i] >= 0
  <2> SUFFICES ASSUME NEW i \in c .. e - 1 PROVE Lens[i] >= 0
    OBVIOUS
  <2>1. i \in c .. d - 1 \/ i \in d .. e - 1
    BY <1>3
  <2> QED BY <1>2, <2>1
<1>7. c <= e
  BY <1>2, <1>3
<1>8. CutBetween(c, e, end, o)
  BY <1>2, <1>4, <1>5, <1>6, <1>7 DEF CutBetween
<1> QED BY <1>8 DEF CutsAt

\* Nothing cut.
LEMMA CutNothing ==
    ASSUME NEW c \in Places, NEW n \in Nat, NEW o, o.rest = Bytes(StartOf[c], n), o.cmds = <<>>
    PROVE  CutsAt(c, StartOf[c] + n, o)
<1>1. StartOf[c] \in Nat /\ c \in Nat
  BY StartOfEquation, PlaceFacts
<1>2. (StartOf[c] + n) - StartOf[c] = n /\ StartOf[c] <= StartOf[c] + n /\ c <= c
  BY <1>1
<1>3. \A i \in c .. c - 1 : Lens[i] >= 0
  BY <1>1
<1>4. CutBetween(c, c, StartOf[c] + n, o)
  BY <1>2, <1>3, CommandsFromSmall DEF CutBetween
<1> QED BY <1>4 DEF CutsAt

\* The inner loop cuts what begins with a command into its commands.
LEMMA TakeCommandsCut ==
    ASSUME NEW c0 \in Places, NEW n0 \in Nat, StartOf[c0] + n0 <= StreamLen + 1
    PROVE  CutsAt(c0, StartOf[c0] + n0, TakeCommands[Bytes(StartOf[c0], n0)])
<1> DEFINE T == {x \in Seq(Nat) : \A c \in Places, n \in Nat :
                     x = Bytes(StartOf[c], n) /\ StartOf[c] + n <= StreamLen + 1 =>
                         CutsAt(c, StartOf[c] + n, TakeCommands[x])}
<1>1. ASSUME NEW x \in Seq(Nat), \A y \in Seq(Nat) : BufRank[y] < BufRank[x] => y \in T
      PROVE  x \in T
  <2> SUFFICES ASSUME NEW c \in Places, NEW n \in Nat, x = Bytes(StartOf[c], n),
                      StartOf[c] + n <= StreamLen + 1
               PROVE  CutsAt(c, StartOf[c] + n, TakeCommands[x])
    OBVIOUS
  <2> DEFINE o == TakeCommands[x]
             end == StartOf[c] + n
  <2>0. StartOf[c] \in Nat /\ StreamLen \in Nat /\ Len(x) = n /\ HeaderLen \in Nat /\ HeaderLen > 0
    <3>1. StartOf[c] \in Nat
      BY StartOfEquation
    <3> QED BY <3>1, StreamEnd, BytesFacts, FrameFacts
  <2>1. CASE Refused(x) \/ ~ Whole(x)
    <3>1. o.rest = x /\ o.cmds = <<>>
      <4>1. CASE Refused(x)
        <5>1. o = Outcome(x, FALSE)
          BY <4>1, TakeCommandsEquation
        <5> QED BY <5>1 DEF Outcome
      <4>2. CASE ~ Refused(x) /\ ~ Whole(x)
        <5>1. o = Outcome(x, TRUE)
          BY <4>2, TakeCommandsEquation
        <5> QED BY <4>2, <5>1 DEF Outcome
      <4> QED BY <2>1, <4>1, <4>2
    <3> HIDE DEF o
    <3>2. CutsAt(c, StartOf[c] + n, o)
      BY <3>1, CutNothing
    <3> QED BY <3>2 DEF o
  <2>2. CASE ~ Refused(x) /\ Whole(x)
    <3>1. n >= HeaderLen
      BY <2>0, <2>2 DEF Whole
    <3>2. c \in Commands
      BY <2>0, <3>1, StreamEnd
    <3>3. AnnouncedLen(x) = Lens[c] /\ Lens[c] \in Int
      BY <3>1, <3>2, AnnouncedHere, FrameFacts
    <3>4. Lens[c] >= 0
      BY <2>2, <3>3, FrontFacts
    <3>5. FrontSize(x) = Size(c)
      BY <3>3, <3>4 DEF FrontSize, Size
    <3>6. /\ Size(c) \in Nat /\ 1 <= Size(c) /\ Size(c) <= n
          /\ StartOf[c + 1] = StartOf[c] + Size(c) /\ c + 1 \in Places
          /\ Behind(x) \in Seq(Nat) /\ Len(Behind(x)) = n - Size(c)
      BY <2>0, <2>2, <3>2, <3>5, FrontFacts, StartOfStep, PlaceFacts
    <3>7. SubSeq(x, 1, FrontSize(x)) = Command(c)
      <4>1. 1 \in 1 .. n + 1 /\ Size(c) \in 1 - 1 .. n
        BY <3>6
      <4>2. SubSeq(x, 1, Size(c)) = Bytes(StartOf[c] + (1 - 1), Size(c) - (1 - 1))
        BY <2>0, <4>1, BytesPart
      <4>3. StartOf[c] + (1 - 1) = StartOf[c] /\ Size(c) - (1 - 1) = Size(c)
        BY <2>0, <3>6
      <4> QED BY <3>5, <4>2, <4>3 DEF Command
    <3>8. Behind(x) = Bytes(StartOf[c + 1], n - Size(c))
      <4>1. Size(c) + 1 \in 1 .. n + 1 /\ n \in (Size(c) + 1) - 1 .. n
        BY <3>6
      <4>2. SubSeq(x, Size(c) + 1, n) = Bytes(StartOf[c] + ((Size(c) + 1) - 1), n - ((Size(c) + 1) - 1))
        BY <2>0, <4>1, BytesPart
      <4>3. (Size(c) + 1) - 1 = Size(c)
        BY <3>6
      <4> QED BY <2>0, <3>5, <3>6, <4>2, <4>3 DEF Behind
    <3> DEFINE p == TakeCommands[Behind(x)]
    <3>9. CutsAt(c + 1, end, p)
      <4>1. BufRank[Behind(x)] < BufRank[x]
        BY <2>0, <3>6 DEF BufRank
      <4>2. Behind(x) \in T
        BY <1>1, <3>6, <4>1
      <4>3. n - Size(c) \in Nat /\ StartOf[c + 1] + (n - Size(c)) = end
        BY <2>0, <3>6
      <4> QED BY <3>6, <3>8, <4>2, <4>3
    <3>10. o = After(CommandsFrom(c, c + 1), Overlaps(x), p)
      BY <2>2, <3>2, <3>7, TakeCommandsEquation, CommandsFromSmall
    <3>11. \A i \in c .. (c + 1) - 1 : Lens[i] >= 0
      <4>1. c \in Nat
        BY PlaceFacts
      <4>2. \A i \in c .. (c + 1) - 1 : i = c
        BY <4>1
      <4> QED BY <3>4, <4>2
    <3>12. c <= c + 1
      <4>1. c \in Nat
        BY PlaceFacts
      <4> QED BY <4>1
    <3> HIDE DEF o, end, p
    <3>13. CutsAt(c, end, o)
      BY <3>6, <3>9, <3>10, <3>11, <3>12, CutLonger
    <3> QED BY <3>13 DEF o, end
  <2> QED BY <2>1, <2>2
<1>2. BufRank \in [Seq(Nat) -> Nat]
  BY DEF BufRank
<1> HIDE DEF T
<1>3. Seq(Nat) \subseteq T
  BY <1>1, <1>2, SetOfAllRanked
<1>4. Bytes(StartOf[c0], n0) \in Seq(Nat)
  BY StartOfEquation, BytesFacts
<1> QED BY <1>3, <1>4 DEF T

-----------------------------------------------------------------------------
\* The outer loop: how many bytes fill mBuffer, what parsing it gives, and with what the
\* loop goes on.
Inputs     == Partial \X Seq(Nat)
Taken(in)  == Fits(in[1], in[2])
Filled(in) == TakeCommands[in[1] \o SubSeq(in[2], 1, Taken(in))]
Left(in)   == <<Filled(in).rest, SubSeq(in[2], Taken(in) + 1, Len(in[2]))>>

ParseDef == [g \in [Inputs -> Outcomes] |->
                [in \in Inputs |->
                    CASE in[2] = <<>>                       -> Outcome(in[1], TRUE)
                      [] in[2] # <<>> /\ ~ Filled(in).ok    -> Filled(in)
                      [] in[2] # <<>> /\ Filled(in).ok      ->
                             After(Filled(in).cmds, Filled(in).overlap, g[Left(in)])]]
InputRank == [in \in Inputs |-> Len(in[2])]

\* mBuffer is filled with some bytes of the packet, and no more than it holds.
LEMMA TakenFacts ==
    ASSUME NEW in \in Inputs
    PROVE  LET data == in[2]
               n    == Taken(in)
           IN  /\ in[1] \in Partial /\ in[1] \in Seq(Nat) /\ data \in Seq(Nat)
               /\ n \in Nat /\ n <= Len(data) /\ Len(in[1]) + n <= BufferLen
               /\ data # <<>> => n >= 1
               /\ SubSeq(data, 1, n) \in Seq(Nat) /\ Len(SubSeq(data, 1, n)) = n
               /\ in[1] \o SubSeq(data, 1, n) \in Seq(Nat)
               /\ Len(in[1] \o SubSeq(data, 1, n)) = Len(in[1]) + n
               /\ SubSeq(data, n + 1, Len(data)) \in Seq(Nat)
               /\ Len(SubSeq(data, n + 1, Len(data))) = Len(data) - n
<1> DEFINE data == in[2]
           n    == Taken(in)
<1>1. in[1] \in Partial /\ data \in Seq(Nat) /\ Len(data) \in Nat
  BY DEF Inputs
<1>2. in[1] \in Seq(Nat) /\ Len(in[1]) \in Nat /\ Len(in[1]) < BufferLen /\ BufferLen \in Nat
  BY <1>1, PartialFits, FrameFacts
<1>3. n = IF Len(data) < BufferLen - Len(in[1]) THEN Len(data) ELSE BufferLen - Len(in[1])
  BY DEF Taken, Fits
<1>4. data # <<>> => Len(data) >= 1
  BY <1>1
<1> HIDE DEF n, data
<1>5. n \in Nat /\ n <= Len(data) /\ Len(in[1]) + n <= BufferLen /\ (data # <<>> => n >= 1)
  <2> DEFINE d == Len(data)
             k == Len(in[1])
  <2>1. d \in Nat /\ k \in Nat /\ k < BufferLen /\ BufferLen \in Nat
        /\ n = IF d < BufferLen - k THEN d ELSE BufferLen - k
    BY <1>1, <1>2, <1>3
  <2>2. data # <<>> => d >= 1
    BY <1>4
  <2> HIDE DEF d, k
  <2>3. n \in Nat /\ n <= d /\ k + n <= BufferLen /\ (d >= 1 => n >= 1)
    BY <2>1
  <2> QED BY <2>2, <2>3 DEF d, k
<1>6. SubSeq(data, 1, n) \in Seq(Nat) /\ Len(SubSeq(data, 1, n)) = n
  BY <1>1, <1>5
<1>7. /\ in[1] \o SubSeq(data, 1, n) \in Seq(Nat)
      /\ Len(in[1] \o SubSeq(data, 1, n)) = Len(in[1]) + n
  BY <1>2, <1>6, ConcatProperties
<1>8. /\ SubSeq(data, n + 1, Len(data)) \in Seq(Nat)
      /\ Len(SubSeq(data, n + 1, Len(data))) = Len(data) - n
  BY <1>1, <1>5
<1>9. /\ in[1] \in Partial /\ in[1] \in Seq(Nat) /\ data \in Seq(Nat)
      /\ n \in Nat /\ n <= Len(data) /\ Len(in[1]) + n <= BufferLen
      /\ data # <<>> => n >= 1
      /\ SubSeq(data, 1, n) \in Seq(Nat) /\ Len(SubSeq(data, 1, n)) = n
      /\ in[1] \o SubSeq(data, 1, n) \in Seq(Nat)
      /\ Len(in[1] \o SubSeq(data, 1, n)) = Len(in[1]) + n
      /\ SubSeq(data, n + 1, Len(data)) \in Seq(Nat)
      /\ Len(SubSeq(data, n + 1, Len(data))) = Len(data) - n
  BY <1>1, <1>2, <1>5, <1>6, <1>7, <1>8
<1> QED BY <1>9 DEF n, data

\* What one round of the loop gives, and that the rest of the packet is shorter.
LEMMA FilledFacts ==
    ASSUME NEW in \in Inputs
    PROVE  /\ Filled(in) \in Outcomes
           /\ Sound(in[1] \o SubSeq(in[2], 1, Taken(in)), Filled(in))
           /\ Len(Filled(in).rest) <= BufferLen
           /\ in[2] # <<>> /\ Filled(in).ok =>
                 Left(in) \in Inputs /\ Len(Left(in)[2]) < Len(in[2])
<1> DEFINE buf == in[1] \o SubSeq(in[2], 1, Taken(in))
           left == SubSeq(in[2], Taken(in) + 1, Len(in[2]))
           n    == Taken(in)
<1>1. /\ buf \in Seq(Nat) /\ Len(buf) = Len(in[1]) + n /\ Len(in[1]) + n <= BufferLen
      /\ left \in Seq(Nat) /\ Len(left) = Len(in[2]) - n /\ n \in Nat /\ in[2] \in Seq(Nat)
      /\ in[2] # <<>> => n >= 1
  BY TakenFacts
<1>2. Filled(in) = TakeCommands[buf]
  BY DEF Filled
<1> HIDE DEF buf, n
<1>3. Filled(in) \in Outcomes /\ Sound(buf, Filled(in))
  BY <1>1, <1>2, TakeCommandsEquation, TakeCommandsSound
<1>4. Len(Filled(in).rest) <= Len(buf) /\ Len(Filled(in).rest) \in Nat
      /\ (Filled(in).ok => Filled(in).rest \in Partial)
  BY <1>3, OutcomeFields DEF Sound
<1>5. Len(buf) \in Nat /\ BufferLen \in Nat /\ Len(buf) <= BufferLen
  <2>1. BufferLen \in Nat
    BY FrameFacts
  <2>2. Len(buf) \in Nat /\ Len(buf) <= BufferLen
    BY <1>1
  <2> QED BY <2>1, <2>2
<1>6. Len(Filled(in).rest) <= BufferLen
  BY <1>4, <1>5
<1>7. ASSUME in[2] # <<>>, Filled(in).ok
      PROVE  Left(in) \in Inputs /\ Len(Left(in)[2]) < Len(in[2])
  <2>1. Left(in) = <<Filled(in).rest, left>>
    BY DEF Left
  <2>2. Filled(in).rest \in Partial
    BY <1>4, <1>7
  <2> HIDE DEF left
  <2>3. Left(in) \in Inputs /\ Left(in)[2] = left
    BY <1>1, <2>1, <2>2 DEF Inputs
  <2>4. Len(left) < Len(in[2])
    BY <1>1, <1>7
  <2> QED BY <2>3, <2>4
<1> QED BY <1>3, <1>6, <1>7 DEF buf

\* ParseDataNoCache satisfies its equation.
THEOREM ParseEquation ==
    /\ ParseDataNoCache \in [Inputs -> Outcomes]
    /\ \A in \in Inputs :
          /\ in[2] = <<>> => ParseDataNoCache[in] = Outcome(in[1], TRUE)
          /\ in[2] # <<>> /\ ~ Filled(in).ok => ParseDataNoCache[in] = Filled(in)
          /\ in[2] # <<>> /\ Filled(in).ok =>
                ParseDataNoCache[in] = After(Filled(in).cmds, Filled(in).overlap,
                                             ParseDataNoCache[Left(in)])
<1>1. ASSUME NEW g \in [Inputs -> Outcomes], NEW in \in Inputs
      PROVE  /\ ParseDef[g] \in [Inputs -> Outcomes]
             /\ in[2] = <<>> => ParseDef[g][in] = Outcome(in[1], TRUE)
             /\ in[2] # <<>> /\ ~ Filled(in).ok => ParseDef[g][in] = Filled(in)
             /\ in[2] # <<>> /\ Filled(in).ok =>
                   ParseDef[g][in] = After(Filled(in).cmds, Filled(in).overlap, g[Left(in)])
  <2> DEFINE body(x) == CASE x[2] = <<>>                  -> Outcome(x[1], TRUE)
                          [] x[2] # <<>> /\ ~ Filled(x).ok -> Filled(x)
                          [] x[2] # <<>> /\ Filled(x).ok   ->
                                 After(Filled(x).cmds, Filled(x).overlap, g[Left(x)])
  <2>1. ParseDef[g] = [x \in Inputs |-> body(x)]
    BY DEF ParseDef
  <2>2. \A x \in Inputs :
           /\ x[2] = <<>> => body(x) = Outcome(x[1], TRUE)
           /\ x[2] # <<>> /\ ~ Filled(x).ok => body(x) = Filled(x)
           /\ x[2] # <<>> /\ Filled(x).ok =>
                 body(x) = After(Filled(x).cmds, Filled(x).overlap, g[Left(x)])
    OBVIOUS
  <2> HIDE DEF body
  <2>3. ASSUME NEW x \in Inputs
        PROVE  body(x) \in Outcomes
    <3>1. CASE x[2] = <<>>
      BY <2>2, <3>1, OutcomeType, TakenFacts
    <3>2. CASE x[2] # <<>> /\ ~ Filled(x).ok
      BY <2>2, <3>2, FilledFacts
    <3>3. CASE x[2] # <<>> /\ Filled(x).ok
      <4>1. Filled(x) \in Outcomes /\ Left(x) \in Inputs
        BY <3>3, FilledFacts
      <4>2. Filled(x).cmds \in Seq(Seq(Nat)) /\ Filled(x).overlap \in BOOLEAN
        BY <4>1 DEF Outcomes
      <4> QED BY <2>2, <3>3, <4>1, <4>2, AfterType
    <3> QED BY <3>1, <3>2, <3>3
  <2> QED BY <2>1, <2>2, <2>3
<1>2. Outcomes # {} /\ Inputs # {}
  <2>1. <<>> \in Partial /\ <<>> \in Seq(Nat)
    BY EmptyPartial
  <2>2. Outcome(<<>>, TRUE) \in Outcomes
    BY <2>1, OutcomeType
  <2>3. <<(<<>>), (<<>>)>> \in Inputs
    BY <2>1 DEF Inputs
  <2> QED BY <2>2, <2>3
<1>3. ParseDef \in [[Inputs -> Outcomes] -> [Inputs -> Outcomes]]
  <2>1. \A g \in [Inputs -> Outcomes] : ParseDef[g] \in [Inputs -> Outcomes]
    BY <1>1, <1>2
  <2>2. ParseDef = [g \in [Inputs -> Outcomes] |-> ParseDef[g]]
    BY DEF ParseDef
  <2> QED BY <2>1, <2>2
<1>4. InputRank \in [Inputs -> Nat]
  BY DEF InputRank, Inputs
<1>5. UsesLowerRanks(ParseDef, Inputs, Outcomes, InputRank)
  <2> SUFFICES ASSUME NEW g \in [Inputs -> Outcomes], NEW h \in [Inputs -> Outcomes],
                      NEW in \in Inputs,
                      \A y \in Inputs : InputRank[y] < InputRank[in] => g[y] = h[y]
               PROVE  ParseDef[g][in] = ParseDef[h][in]
    BY DEF UsesLowerRanks
  <2>1. CASE in[2] = <<>>
    <3>1. ParseDef[g][in] = Outcome(in[1], TRUE)
      BY <1>1, <2>1, Zenon
    <3>2. ParseDef[h][in] = Outcome(in[1], TRUE)
      BY <1>1, <2>1, Zenon
    <3> QED BY <3>1, <3>2
  <2>2. CASE in[2] # <<>> /\ ~ Filled(in).ok
    <3>1. ParseDef[g][in] = Filled(in)
      BY <1>1, <2>2, Zenon
    <3>2. ParseDef[h][in] = Filled(in)
      BY <1>1, <2>2, Zenon
    <3> QED BY <3>1, <3>2
  <2>3. CASE in[2] # <<>> /\ Filled(in).ok
    <3>1. Left(in) \in Inputs /\ InputRank[Left(in)] < InputRank[in]
      BY <2>3, FilledFacts DEF InputRank
    <3>2. g[Left(in)] = h[Left(in)]
      BY <3>1
    <3>3. ParseDef[g][in] = After(Filled(in).cmds, Filled(in).overlap, g[Left(in)])
      BY <1>1, <2>3
    <3>4. ParseDef[h][in] = After(Filled(in).cmds, Filled(in).overlap, h[Left(in)])
      BY <1>1, <2>3
    <3> QED BY <3>2, <3>3, <3>4
  <2> QED BY <2>1, <2>2, <2>3
<1>6. WellDefined(ParseDef, Inputs, Outcomes, InputRank)
  BY <1>2, <1>3, <1>4, <1>5 DEF WellDefined
<1>7. PICK f : f \in [Inputs -> Outcomes] /\ f = ParseDef[f]
  BY <1>6, RecursionSolved
<1>8. f = [in \in Inputs |->
              CASE in[2] = <<>>                    -> Outcome(in[1], TRUE)
                [] in[2] # <<>> /\ ~ Filled(in).ok -> Filled(in)
                [] in[2] # <<>> /\ Filled(in).ok   ->
                       After(Filled(in).cmds, Filled(in).overlap, f[Left(in)])]
  BY <1>7 DEF ParseDef
<1>9. ParseDataNoCache = [in \in Inputs |->
              CASE in[2] = <<>>                    -> Outcome(in[1], TRUE)
                [] in[2] # <<>> /\ ~ Filled(in).ok -> Filled(in)
                [] in[2] # <<>> /\ Filled(in).ok   ->
                       After(Filled(in).cmds, Filled(in).overlap, ParseDataNoCache[Left(in)])]
  BY <1>8 DEF ParseDataNoCache, Inputs, Filled, Taken, Left
<1>10. \A in \in Inputs :
          /\ in[2] = <<>> => ParseDataNoCache[in] = Outcome(in[1], TRUE)
          /\ in[2] # <<>> /\ ~ Filled(in).ok => ParseDataNoCache[in] = Filled(in)
          /\ in[2] # <<>> /\ Filled(in).ok =>
                ParseDataNoCache[in] = After(Filled(in).cmds, Filled(in).overlap,
                                             ParseDataNoCache[Left(in)])
  BY <1>9
<1> DEFINE T == {in \in Inputs : ParseDataNoCache[in] \in Outcomes}
<1>11. ASSUME NEW in \in Inputs, \A y \in Inputs : InputRank[y] < InputRank[in] => y \in T
       PROVE  in \in T
  <2>1. CASE in[2] = <<>>
    BY <1>10, <2>1, OutcomeType, TakenFacts
  <2>2. CASE in[2] # <<>> /\ ~ Filled(in).ok
    BY <1>10, <2>2, FilledFacts
  <2>3. CASE in[2] # <<>> /\ Filled(in).ok
    <3>1. Filled(in) \in Outcomes /\ Left(in) \in Inputs /\ InputRank[Left(in)] < InputRank[in]
      BY <2>3, FilledFacts DEF InputRank
    <3>2. Filled(in).cmds \in Seq(Seq(Nat)) /\ Filled(in).overlap \in BOOLEAN
      BY <3>1 DEF Outcomes
    <3>3. ParseDataNoCache[Left(in)] \in Outcomes
      BY <1>11, <3>1
    <3> QED BY <1>10, <2>3, <3>2, <3>3, AfterType
  <2> QED BY <2>1, <2>2, <2>3
<1> HIDE DEF T
<1>12. Inputs \subseteq T
  BY <1>4, <1>11, SetOfAllRanked
<1>13. ParseDataNoCache \in [Inputs -> Outcomes]
  <2>1. \A in \in Inputs : ParseDataNoCache[in] \in Outcomes
    BY <1>12 DEF T
  <2>2. ParseDataNoCache = [in \in Inputs |-> ParseDataNoCache[in]]
    BY <1>9
  <2> QED BY <2>1, <2>2
<1> QED BY <1>10, <1>13

\* ParseDataNoCache leaves what fits mBuffer and, unless a header was refused, a part of a
\* command; only the bytes it was given are in it and in the commands.
THEOREM ParseSound ==
    \A in \in Inputs :
        LET o == ParseDataNoCache[in]
        IN  /\ o \in Outcomes /\ Len(o.rest) <= BufferLen
            /\ o.ok => o.rest \in Partial
            /\ \A V \in SUBSET Nat :
                  in[1] \in Seq(V) /\ in[2] \in Seq(V) =>
                      o.rest \in Seq(V) /\ o.cmds \in Seq(Seq(V))
<1> DEFINE Good(in, o) == /\ o \in Outcomes /\ Len(o.rest) <= BufferLen
                          /\ o.ok => o.rest \in Partial
                          /\ \A V \in SUBSET Nat :
                                in[1] \in Seq(V) /\ in[2] \in Seq(V) =>
                                    o.rest \in Seq(V) /\ o.cmds \in Seq(Seq(V))
           T == {in \in Inputs : Good(in, ParseDataNoCache[in])}
<1>1. ASSUME NEW in \in Inputs, \A y \in Inputs : InputRank[y] < InputRank[in] => y \in T
      PROVE  in \in T
  <2> DEFINE o == ParseDataNoCache[in]
             f == Filled(in)
             front == SubSeq(in[2], 1, Taken(in))
  <2> SUFFICES Good(in, o)
    OBVIOUS
  <2>0. o \in Outcomes
    BY ParseEquation
  <2>1. CASE in[2] = <<>>
    <3>1. o = Outcome(in[1], TRUE)
      BY <2>1, ParseEquation
    <3>2. o.rest = in[1] /\ o.cmds = <<>> /\ o.ok = TRUE
      <4> HIDE DEF o
      <4> QED BY <3>1 DEF Outcome
    <3>3. in[1] \in Partial /\ Len(in[1]) <= BufferLen
      BY TakenFacts, PartialFits, FrameFacts
    <3>4. \A V \in SUBSET Nat : in[1] \in Seq(V) /\ in[2] \in Seq(V) =>
                                    o.rest \in Seq(V) /\ o.cmds \in Seq(Seq(V))
      BY <3>2
    <3> HIDE DEF o
    <3> QED BY <2>0, <3>2, <3>3, <3>4
  <2>2. ASSUME NEW V \in SUBSET Nat, in[1] \in Seq(V), in[2] \in Seq(V), in[2] # <<>>
        PROVE  f.rest \in Seq(V) /\ f.cmds \in Seq(Seq(V))
    <3>1. Taken(in) \in Nat /\ Taken(in) <= Len(in[2]) /\ in[2] \in Seq(Nat)
      BY TakenFacts
    <3>2. front \in Seq(V)
      <4> DEFINE n == Taken(in)
                 data == in[2]
      <4>1. n \in Nat /\ n <= Len(data) /\ data \in Seq(V)
        BY <2>2, <3>1
      <4> HIDE DEF n, data
      <4>2. SubSeq(data, 1, n) \in Seq(V)
        BY <4>1
      <4> QED BY <4>2 DEF n, data
    <3> HIDE DEF front
    <3>3. in[1] \o front \in Seq(V)
      BY <2>2, <3>2, ConcatProperties
    <3>4. Sound(in[1] \o front, f)
      BY FilledFacts DEF front
    <3> QED BY <3>3, <3>4 DEF Sound
  <2>3. CASE in[2] # <<>> /\ ~ f.ok
    <3>1. o = f
      BY <2>3, ParseEquation
    <3>2. Len(f.rest) <= BufferLen
      BY FilledFacts
    <3> HIDE DEF o, f
    <3> QED BY <2>0, <2>2, <2>3, <3>1, <3>2
  <2>4. CASE in[2] # <<>> /\ f.ok
    <3> DEFINE l == Left(in)
               p == ParseDataNoCache[l]
    <3>1. l \in Inputs /\ InputRank[l] < InputRank[in]
      BY <2>4, FilledFacts DEF InputRank
    <3>2. o = After(f.cmds, f.overlap, p)
      BY <2>4, ParseEquation
    <3>3. Good(l, p)
      BY <1>1, <3>1
    <3>4. o.rest = p.rest /\ o.cmds = f.cmds \o p.cmds /\ o.ok = p.ok
      <4> HIDE DEF o, p, f
      <4> QED BY <3>2 DEF After
    <3>5. ASSUME NEW V \in SUBSET Nat, in[1] \in Seq(V), in[2] \in Seq(V)
          PROVE  o.rest \in Seq(V) /\ o.cmds \in Seq(Seq(V))
      <4>1. f.rest \in Seq(V) /\ f.cmds \in Seq(Seq(V))
        BY <2>2, <2>4, <3>5
      <4>2. l[1] = f.rest /\ l[2] = SubSeq(in[2], Taken(in) + 1, Len(in[2]))
        BY DEF Left
      <4>3. l[2] \in Seq(V)
        <5> DEFINE n == Taken(in)
                   data == in[2]
        <5>1. n \in Nat /\ n <= Len(data) /\ data \in Seq(V)
          BY <3>5, TakenFacts
        <5> HIDE DEF n, data
        <5>2. SubSeq(data, n + 1, Len(data)) \in Seq(V)
          BY <5>1
        <5> QED BY <4>2, <5>2 DEF n, data
      <4>4. p.rest \in Seq(V) /\ p.cmds \in Seq(Seq(V))
        <5> HIDE DEF l, p
        <5> QED BY <3>3, <4>1, <4>2, <4>3
      <4>5. f.cmds \o p.cmds \in Seq(Seq(V))
        BY <4>1, <4>4, ConcatProperties
      <4> QED BY <3>4, <4>4, <4>5
    <3> HIDE DEF o, p
    <3> QED BY <2>0, <3>3, <3>4, <3>5
  <2> QED BY <2>1, <2>3, <2>4
<1>2. InputRank \in [Inputs -> Nat]
  BY DEF InputRank, Inputs
<1> HIDE DEF T
<1>3. Inputs \subseteq T
  BY <1>1, <1>2, SetOfAllRanked
<1> QED BY <1>3 DEF T

\* Parsing cut the stream from command c up to position "end", or to where it was refused.
ParsedUpTo(c, end, o) ==
    \E e \in 0 .. end : CutsAt(c, e, o) /\ (o.ok => e = end)

\* A packet that follows the bytes kept is cut, with them, into commands, up to its end
\* unless a header was refused.
THEOREM ParseCut ==
    ASSUME NEW c0 \in Places, NEW n0 \in Nat, NEW m0 \in Nat,
           StartOf[c0] + n0 + m0 <= StreamLen + 1, Bytes(StartOf[c0], n0) \in Partial
    PROVE  LET in == <<Bytes(StartOf[c0], n0), Bytes(StartOf[c0] + n0, m0)>>
           IN  in \in Inputs /\ ParsedUpTo(c0, StartOf[c0] + n0 + m0, ParseDataNoCache[in])
<1> DEFINE T == {in \in Inputs : \A c \in Places, n, m \in Nat :
                    /\ in[1] = Bytes(StartOf[c], n) /\ in[2] = Bytes(StartOf[c] + n, m)
                    /\ StartOf[c] + n + m <= StreamLen + 1
                    => ParsedUpTo(c, StartOf[c] + n + m, ParseDataNoCache[in])}
<1>1. ASSUME NEW in \in Inputs, \A y \in Inputs : InputRank[y] < InputRank[in] => y \in T
      PROVE  in \in T
  <2> SUFFICES ASSUME NEW c \in Places, NEW n \in Nat, NEW m \in Nat,
                      in[1] = Bytes(StartOf[c], n), in[2] = Bytes(StartOf[c] + n, m),
                      StartOf[c] + n + m <= StreamLen + 1
               PROVE  ParsedUpTo(c, StartOf[c] + n + m, ParseDataNoCache[in])
    OBVIOUS
  <2> DEFINE o == ParseDataNoCache[in]
             f == Filled(in)
             k == Taken(in)
             a == StartOf[c]
             end == a + n + m
  <2>1. a \in Nat /\ StreamLen \in Nat
    BY StartOfEquation, StreamEnd
  <2>2. Len(in[1]) = n /\ Len(in[2]) = m
    <3>1. a + n \in Nat
      BY <2>1
    <3>2. Len(Bytes(a, n)) = n /\ Len(Bytes(a + n, m)) = m
      BY <2>1, <3>1, BytesFacts
    <3> QED BY <3>2
  <2>3. k \in Nat /\ k <= m
    BY <2>2, TakenFacts
  <2> HIDE DEF k
  <2>4. in[1] \o SubSeq(in[2], 1, k) = Bytes(a, n + k)
    <3>1. 1 \in 1 .. m + 1 /\ k \in 1 - 1 .. m /\ a + n \in Nat
      BY <2>1, <2>3
    <3>2. SubSeq(Bytes(a + n, m), 1, k) = Bytes((a + n) + (1 - 1), k - (1 - 1))
      BY <3>1, BytesPart, Zenon
    <3>3. (a + n) + (1 - 1) = a + n /\ k - (1 - 1) = k
      BY <2>1, <2>3
    <3>4. Bytes(a, n) \o Bytes(a + n, k) = Bytes(a, n + k)
      <4>1. a \in Nat /\ k \in Nat
        BY <2>1, <2>3
      <4> HIDE DEF a
      <4> QED BY <4>1, BytesJoined
    <3> QED BY <3>2, <3>3, <3>4
  <2>5. SubSeq(in[2], k + 1, Len(in[2])) = Bytes(a + n + k, m - k)
    <3>1. k + 1 \in 1 .. m + 1 /\ m \in (k + 1) - 1 .. m /\ a + n \in Nat
      BY <2>1, <2>3
    <3>2. SubSeq(Bytes(a + n, m), k + 1, m) = Bytes((a + n) + ((k + 1) - 1), m - ((k + 1) - 1))
      BY <3>1, BytesPart, Zenon
    <3>3. (k + 1) - 1 = k
      BY <2>3
    <3> QED BY <2>2, <3>2, <3>3
  <2>6. CutsAt(c, a + (n + k), f)
    <3>1. n + k \in Nat /\ a + (n + k) <= StreamLen + 1
      BY <2>1, <2>3
    <3>2. f = TakeCommands[Bytes(a, n + k)]
      BY <2>4 DEF Filled, k
    <3> QED BY <3>1, <3>2, TakeCommandsCut
  <2>7. a + (n + k) \in 0 .. end /\ end \in Nat
    BY <2>1, <2>3
  <2>8. CASE in[2] = <<>>
    <3>1. o = Outcome(in[1], TRUE) /\ m = 0
      BY <2>2, <2>8, ParseEquation
    <3>2. o.rest = Bytes(StartOf[c], n) /\ o.cmds = <<>>
      <4> HIDE DEF o
      <4> QED BY <3>1 DEF Outcome
    <3> HIDE DEF o
    <3>3. CutsAt(c, StartOf[c] + n, o)
      BY <3>2, CutNothing
    <3>4. end = StartOf[c] + n /\ end \in 0 .. end
      BY <2>1, <2>7, <3>1
    <3> HIDE DEF end
    <3>5. ParsedUpTo(c, end, o)
      BY <3>3, <3>4 DEF ParsedUpTo
    <3> QED BY <3>5 DEF end, o
  <2>9. CASE in[2] # <<>> /\ ~ f.ok
    <3>1. o = f
      BY <2>9, ParseEquation
    <3> HIDE DEF o, f, end
    <3>2. ParsedUpTo(c, end, o)
      BY <2>6, <2>7, <2>9, <3>1 DEF ParsedUpTo
    <3> QED BY <3>2 DEF end, o
  <2>10. CASE in[2] # <<>> /\ f.ok
    <3> DEFINE l == Left(in)
               p == ParseDataNoCache[l]
    <3>1. l \in Inputs /\ InputRank[l] < InputRank[in]
      BY <2>10, FilledFacts DEF InputRank
    <3>2. o = After(f.cmds, f.overlap, p)
      BY <2>10, ParseEquation
    <3>3. PICK d \in Places : CutBetween(c, d, a + (n + k), f)
      BY <2>6 DEF CutsAt
    <3>4. /\ c <= d /\ StartOf[d] <= a + (n + k)
          /\ f.rest = Bytes(StartOf[d], (a + (n + k)) - StartOf[d])
          /\ f.cmds = CommandsFrom(c, d)
          /\ \A i \in c .. d - 1 : Lens[i] >= 0
      BY <3>3 DEF CutBetween
    <3> DEFINE n2 == (a + (n + k)) - StartOf[d]
    <3>5. n2 \in Nat /\ m - k \in Nat /\ StartOf[d] + n2 = a + n + k
          /\ StartOf[d] + n2 + (m - k) = end /\ StartOf[d] \in Nat
      <4>1. StartOf[d] \in Nat
        BY StartOfEquation
      <4> QED BY <2>1, <2>3, <3>4, <4>1
    <3>6. l[1] = Bytes(StartOf[d], n2) /\ l[2] = Bytes(StartOf[d] + n2, m - k)
      BY <2>5, <3>4, <3>5 DEF Left, k
    <3>7. ParsedUpTo(d, end, p)
      <4>1. l \in T
        BY <1>1, <3>1
      <4>2. StartOf[d] + n2 + (m - k) <= StreamLen + 1
        BY <3>5
      <4> HIDE DEF l, n2, end
      <4>3. ParsedUpTo(d, StartOf[d] + n2 + (m - k), p)
        BY <3>5, <3>6, <4>1, <4>2
      <4> QED BY <3>5, <4>3
    <3>8. PICK e \in 0 .. end : CutsAt(d, e, p) /\ (p.ok => e = end)
      BY <3>7 DEF ParsedUpTo
    <3>9. CutsAt(c, e, o)
      BY <3>2, <3>4, <3>8, CutLonger
    <3>10. o.ok = p.ok
      <4> HIDE DEF o, p, f
      <4> QED BY <3>2 DEF After
    <3> HIDE DEF o, end
    <3>11. ParsedUpTo(c, end, o)
      BY <3>8, <3>9, <3>10 DEF ParsedUpTo
    <3> QED BY <3>11 DEF o, end
  <2> QED BY <2>8, <2>9, <2>10
<1>2. InputRank \in [Inputs -> Nat]
  BY DEF InputRank, Inputs
<1> HIDE DEF T
<1>3. Inputs \subseteq T
  BY <1>1, <1>2, SetOfAllRanked
<1> DEFINE in0 == <<Bytes(StartOf[c0], n0), Bytes(StartOf[c0] + n0, m0)>>
<1>4. in0 \in Inputs /\ in0[1] = Bytes(StartOf[c0], n0) /\ in0[2] = Bytes(StartOf[c0] + n0, m0)
  <2>1. StartOf[c0] + n0 \in Nat
    BY StartOfEquation
  <2>2. Bytes(StartOf[c0] + n0, m0) \in Seq(Nat)
    BY <2>1, BytesFacts
  <2> QED BY <2>2 DEF Inputs
<1> HIDE DEF in0
<1>5. ParsedUpTo(c0, StartOf[c0] + n0 + m0, ParseDataNoCache[in0])
  BY <1>3, <1>4 DEF T
<1> QED BY <1>4, <1>5 DEF in0

-----------------------------------------------------------------------------
\* The kept packets that follow number n are a run of numbers that ends before the first
\* one that is not kept.
LEMMA FollowFacts ==
    ASSUME NEW n \in Nat, NEW b \in Nat, kept \subseteq n + 1 .. b
    PROVE  \E K \in Nat : /\ Follow(n) = n + 1 .. n + K /\ Cardinality(Follow(n)) = K
                          /\ n + K + 1 \notin kept
<1> DEFINE Absent == {m \in Nat : n + m + 1 \notin kept}
<1>1. b \in Absent
  OBVIOUS
<1>2. Absent \subseteq Nat /\ Absent # {}
  BY <1>1
<1> HIDE DEF Absent
<1>3. PICK K \in Absent : \A m \in Absent : K <= m
  BY <1>2, LeastNatural
<1> USE DEF Absent
<1>4. K \in Nat /\ n + K + 1 \notin kept
  BY <1>3
<1>5. ASSUME NEW m \in n + 1 .. n + K
      PROVE  m \in kept
  <2>1. m - n - 1 \in Nat /\ m - n - 1 < K /\ n + (m - n - 1) + 1 = m
    BY <1>4
  <2>2. (m - n - 1) \notin Absent
    BY <1>3, <1>4, <2>1
  <2> QED BY <2>1, <2>2
<1>6. Follow(n) = n + 1 .. n + K
  <2>1. ASSUME NEW m \in Follow(n)
        PROVE  m \in n + 1 .. n + K
    <3>1. m \in kept /\ (\A i \in n + 1 .. m : i \in kept)
      BY DEF Follow
    <3>2. m \in Int /\ m >= n + 1
      BY <3>1
    <3>3. n + K + 1 \in n + 1 .. m => FALSE
      BY <1>4, <3>1
    <3> QED BY <1>4, <3>2, <3>3
  <2>2. ASSUME NEW m \in n + 1 .. n + K
        PROVE  m \in Follow(n)
    <3>1. \A i \in n + 1 .. m : i \in n + 1 .. n + K
      BY <1>4
    <3> QED BY <1>5, <3>1 DEF Follow
  <2> QED BY <2>1, <2>2
<1>7. Cardinality(n + 1 .. n + K) = K
  <2>1. n + 1 \in Int /\ n + K \in Int
    BY <1>4
  <2>2. Cardinality((n + 1) .. (n + K)) = IF n + 1 > n + K THEN 0 ELSE (n + K) - (n + 1) + 1
    BY <2>1, FS_Interval
  <2> QED BY <1>4, <2>2
<1> QED BY <1>4, <1>6, <1>7

Results == {r \in [parsed : Outcomes, next : Nat] : r.parsed.ok => r.parsed.rest \in Partial}
Fresh(n) == [parsed |-> Outcome(mBuffer, TRUE), next |-> n]
ResultsDef(n, K) ==
    [g \in [0 .. K -> Results] |->
        [k \in 0 .. K |-> IF k = 0 THEN ParseNext(Fresh(n), n) ELSE ParseNext(g[k - 1], n + k)]]
ResultsRank(K) == [k \in 0 .. K |-> k]

\* A packet parsed after others leaves a result, too.
LEMMA ParseNextType ==
    ASSUME NEW r \in Results, NEW m \in Nat, Data(m) \in Seq(Nat)
    PROVE  ParseNext(r, m) \in Results
<1> DEFINE now == ParseDataNoCache[<<r.parsed.rest, Data(m)>>]
<1>1. r.parsed \in Outcomes /\ r.next \in Nat /\ (r.parsed.ok => r.parsed.rest \in Partial)
  BY DEF Results
<1>2. CASE ~ r.parsed.ok
  BY <1>2 DEF ParseNext
<1>3. CASE r.parsed.ok
  <2>1. <<r.parsed.rest, Data(m)>> \in Inputs
    BY <1>1, <1>3 DEF Inputs
  <2>2. now \in Outcomes /\ (now.ok => now.rest \in Partial)
    BY <2>1, ParseSound
  <2> HIDE DEF now
  <2>3. r.parsed.cmds \in Seq(Seq(Nat)) /\ r.parsed.overlap \in BOOLEAN
    BY <1>1 DEF Outcomes
  <2> DEFINE all == After(r.parsed.cmds, r.parsed.overlap, now)
  <2>4. all \in Outcomes /\ all.ok = now.ok /\ all.rest = now.rest
    <3>1. all \in Outcomes
      BY <2>2, <2>3, AfterType
    <3> QED BY <3>1 DEF After
  <2> HIDE DEF all
  <2>5. ParseNext(r, m) = [parsed |-> all, next |-> IF now.ok THEN m + 1 ELSE m]
    BY <1>3 DEF ParseNext, now, all
  <2> QED BY <2>2, <2>4, <2>5 DEF Results
<1> QED BY <1>2, <1>3

\* ParsePackets computes what parsing one packet after the other does.
LEMMA ParsePacketsEquation ==
    ASSUME NEW n \in Nat, NEW K \in Nat, Cardinality(Follow(n)) = K, mBuffer \in Partial,
           \A k \in 0 .. K : Data(n + k) \in Seq(Nat)
    PROVE  \E P \in [0 .. K -> Results] :
              /\ P[0] = ParseNext(Fresh(n), n)
              /\ \A k \in 1 .. K : P[k] = ParseNext(P[k - 1], n + k)
              /\ ParsePackets(n) = P[K]
<1>0. Fresh(n) \in Results /\ n + 0 = n
  <2>1. Outcome(mBuffer, TRUE) \in Outcomes /\ Outcome(mBuffer, TRUE).rest = mBuffer
    <3>1. mBuffer \in Seq(Nat)
      BY PartialFits
    <3>2. Outcome(mBuffer, TRUE) \in Outcomes
      BY <3>1, OutcomeType
    <3> QED BY <3>2 DEF Outcome
  <2> DEFINE o == Outcome(mBuffer, TRUE)
  <2> HIDE DEF o
  <2>2. [parsed |-> o, next |-> n] \in Results
    BY <2>1 DEF Results, o
  <2>3. Fresh(n) = [parsed |-> o, next |-> n]
    BY DEF Fresh, o
  <2> QED BY <2>2, <2>3
<1>1. ASSUME NEW g \in [0 .. K -> Results], NEW k \in 0 .. K
      PROVE  /\ k = 0 => ParseNext(Fresh(n), n) \in Results
             /\ k # 0 => k - 1 \in 0 .. K /\ ParseNext(g[k - 1], n + k) \in Results
  <2>1. k = 0 => ParseNext(Fresh(n), n) \in Results
    <3>1. Data(n) \in Seq(Nat)
      BY <1>0
    <3> QED BY <1>0, <3>1, ParseNextType
  <2>2. k # 0 => k - 1 \in 0 .. K /\ n + k \in Nat /\ Data(n + k) \in Seq(Nat)
    OBVIOUS
  <2>3. k # 0 => g[k - 1] \in Results
    BY <2>2
  <2> QED BY <2>1, <2>2, <2>3, ParseNextType
<1>2. ResultsDef(n, K) \in [[0 .. K -> Results] -> [0 .. K -> Results]]
  <2> SUFFICES ASSUME NEW g \in [0 .. K -> Results]
               PROVE  [k \in 0 .. K |-> IF k = 0 THEN ParseNext(Fresh(n), n)
                                        ELSE ParseNext(g[k - 1], n + k)]
                          \in [0 .. K -> Results]
    BY DEF ResultsDef
  <2> QED BY <1>1
<1>3. ResultsRank(K) \in [0 .. K -> Nat]
  BY DEF ResultsRank
<1>4. UsesLowerRanks(ResultsDef(n, K), 0 .. K, Results, ResultsRank(K))
  <2> SUFFICES ASSUME NEW g \in [0 .. K -> Results], NEW h \in [0 .. K -> Results],
                      NEW k \in 0 .. K,
                      \A y \in 0 .. K : ResultsRank(K)[y] < ResultsRank(K)[k] => g[y] = h[y]
               PROVE  ResultsDef(n, K)[g][k] = ResultsDef(n, K)[h][k]
    BY DEF UsesLowerRanks
  <2>1. \A i \in [0 .. K -> Results] :
           ResultsDef(n, K)[i][k] = IF k = 0 THEN ParseNext(Fresh(n), n)
                                    ELSE ParseNext(i[k - 1], n + k)
    BY DEF ResultsDef
  <2>2. k # 0 => g[k - 1] = h[k - 1]
    BY DEF ResultsRank
  <2> QED BY <2>1, <2>2
<1>5. WellDefined(ResultsDef(n, K), 0 .. K, Results, ResultsRank(K))
  BY <1>0, <1>2, <1>3, <1>4 DEF WellDefined
<1>6. PICK f : f \in [0 .. K -> Results] /\ f = ResultsDef(n, K)[f]
  <2> DEFINE S == 0 .. K
             def == ResultsDef(n, K)
             rank == ResultsRank(K)
  <2>1. WellDefined(def, S, Results, rank)
    BY <1>5
  <2> HIDE DEF S, def, rank
  <2>2. \E f : f \in [S -> Results] /\ f = def[f]
    BY <2>1, RecursionSolved
  <2> QED BY <2>2 DEF S, def
<1>7. f = [k \in 0 .. K |-> IF k = 0 THEN ParseNext(Fresh(n), n)
                            ELSE ParseNext(f[k - 1], n + k)]
  BY <1>6 DEF ResultsDef
<1> DEFINE P == CHOOSE g : g = [k \in 0 .. K |-> IF k = 0 THEN ParseNext(Fresh(n), n)
                                                 ELSE ParseNext(g[k - 1], n + k)]
<1>8. P = [k \in 0 .. K |-> IF k = 0 THEN ParseNext(Fresh(n), n)
                            ELSE ParseNext(P[k - 1], n + k)]
  BY <1>7
<1>9. ParsePackets(n) = P[K]
  BY DEF ParsePackets, Fresh
<1> HIDE DEF P
<1>10. P[0] = ParseNext(Fresh(n), n) /\ \A k \in 1 .. K : P[k] = ParseNext(P[k - 1], n + k)
  BY <1>8
<1>11. \A k \in 0 .. K : P[k] \in Results
  <2> DEFINE T == {k \in Nat : k <= K => P[k] \in Results}
  <2>1. 0 \in T
    <3>0. 0 \in 0 .. K
      OBVIOUS
    <3>1. Data(n + 0) \in Seq(Nat)
      BY <3>0, Zenon
    <3> QED BY <1>0, <1>10, <3>1, ParseNextType
  <2>2. ASSUME NEW k \in Nat, k \in T
        PROVE  k + 1 \in T
    <3> SUFFICES ASSUME k + 1 <= K PROVE P[k + 1] \in Results
      OBVIOUS
    <3>2. k + 1 \in 0 .. K /\ k + 1 \in 1 .. K /\ (k + 1) - 1 = k
      OBVIOUS
    <3>1. n + (k + 1) \in Nat /\ Data(n + (k + 1)) \in Seq(Nat)
      BY <3>2
    <3>4. P[k] \in Results
      BY <2>2
    <3>3. P[k + 1] = ParseNext(P[k], n + (k + 1))
      BY <1>10, <3>2
    <3> QED BY <3>1, <3>3, <3>4, ParseNextType
  <2> HIDE DEF T
  <2>3. Nat \subseteq T
    BY <2>1, <2>2, SetOfAllNaturals
  <2> QED BY <2>3 DEF T
<1>12. P \in [0 .. K -> Results]
  BY <1>8, <1>11
<1> QED BY <1>9, <1>10, <1>12

\* The result r of parsing packets n to m - 1: of what type it is and how far it came.
Reached(r, n, m) ==
    /\ r \in Results /\ Len(r.parsed.rest) <= BufferLen
    /\ r.parsed.rest \in Seq(1 .. StreamLen) /\ r.parsed.cmds \in Seq(Seq(1 .. StreamLen))
    /\ r.next \in n .. m
    /\ r.parsed.ok => r.next = m
    /\ ~ r.parsed.ok => r.next < m

\* Positions of the stream are numbers.
LEMMA PositionsAreNumbers ==
    ASSUME NEW s \in Seq(1 .. StreamLen)
    PROVE  s \in Seq(Nat)
<1>1. Len(s) \in Nat /\ \A i \in 1 .. Len(s) : s[i] \in Nat
  BY StreamEnd
<1>2. s = [i \in 1 .. Len(s) |-> s[i]]
  OBVIOUS
<1> QED BY <1>1, <1>2

\* One packet more: the result comes past it unless a header was refused.
LEMMA ParseNextReached ==
    ASSUME NEW n \in Nat, NEW m \in Nat, NEW r, Reached(r, n, m), n <= m,
           Data(m) \in Seq(1 .. StreamLen)
    PROVE  Reached(ParseNext(r, m), n, m + 1)
<1> DEFINE V == 1 .. StreamLen
           s == ParseNext(r, m)
           now == ParseDataNoCache[<<r.parsed.rest, Data(m)>>]
<1>0. V \in SUBSET Nat
  BY StreamEnd
<1> HIDE DEF V
<1>1. /\ r \in Results /\ Len(r.parsed.rest) <= BufferLen
      /\ r.parsed.rest \in Seq(V) /\ r.parsed.cmds \in Seq(Seq(V))
      /\ r.next \in n .. m /\ (r.parsed.ok => r.next = m) /\ (~ r.parsed.ok => r.next < m)
      /\ Data(m) \in Seq(V) /\ Data(m) \in Seq(Nat)
  <2>1. Data(m) \in Seq(Nat)
    BY PositionsAreNumbers
  <2> QED BY <2>1 DEF Reached, V
<1>2. s \in Results
  BY <1>1, ParseNextType
<1>3. CASE ~ r.parsed.ok
  <2>1. s = r
    BY <1>3 DEF ParseNext
  <2>2. r.next \in n .. m + 1 /\ r.next < m + 1
    BY <1>1, <1>3
  <2> HIDE DEF s
  <2> QED BY <1>1, <1>3, <2>1, <2>2 DEF Reached, V, s
<1>4. CASE r.parsed.ok
  <2> DEFINE in == <<r.parsed.rest, Data(m)>>
  <2>1. r.parsed \in Outcomes /\ r.parsed.rest \in Partial
    BY <1>1, <1>4 DEF Results
  <2>2. in \in Inputs /\ in[1] = r.parsed.rest /\ in[2] = Data(m)
    BY <1>1, <2>1 DEF Inputs
  <2> HIDE DEF in
  <2>3. now = ParseDataNoCache[in]
    BY DEF in
  <2>4. now \in Outcomes /\ Len(now.rest) <= BufferLen
        /\ now.rest \in Seq(V) /\ now.cmds \in Seq(Seq(V))
    BY <1>0, <1>1, <2>2, <2>3, ParseSound
  <2> HIDE DEF now
  <2> DEFINE all == After(r.parsed.cmds, r.parsed.overlap, now)
  <2>5. s = [parsed |-> all, next |-> IF now.ok THEN m + 1 ELSE m]
    BY <1>4 DEF ParseNext, now
  <2>6. all.rest = now.rest /\ all.ok = now.ok /\ all.cmds = r.parsed.cmds \o now.cmds
    BY DEF After
  <2>7. r.parsed.cmds \o now.cmds \in Seq(Seq(V))
    BY <1>1, <2>4, ConcatProperties
  <2> HIDE DEF all, s
  <2>8. s.parsed = all /\ s.next = IF now.ok THEN m + 1 ELSE m
    BY <2>5
  <2>9. s.next \in n .. m + 1 /\ (now.ok => s.next = m + 1) /\ (~ now.ok => s.next < m + 1)
    BY <2>8
  <2> QED BY <1>2, <2>4, <2>6, <2>7, <2>8, <2>9 DEF Reached, V, s
<1> QED BY <1>3, <1>4

\* One packet more, which begins where the stream was cut up to: it is cut to its end.
LEMMA ParseNextCut ==
    ASSUME NEW c \in Places, NEW m \in Nat, NEW r \in Results, NEW from \in Nat, NEW end \in Nat,
           ParsedUpTo(c, from, r.parsed), from <= end, end <= StreamLen + 1,
           Data(m) = Bytes(from, end - from)
    PROVE  ParsedUpTo(c, end, ParseNext(r, m).parsed)
<1> DEFINE s == ParseNext(r, m)
           now == ParseDataNoCache[<<r.parsed.rest, Data(m)>>]
<1>1. PICK e \in 0 .. from : CutsAt(c, e, r.parsed) /\ (r.parsed.ok => e = from)
  BY DEF ParsedUpTo
<1>2. CASE ~ r.parsed.ok
  <2>1. s = r
    BY <1>2 DEF ParseNext
  <2>2. e \in 0 .. end
    OBVIOUS
  <2> HIDE DEF s
  <2>3. ParsedUpTo(c, end, s.parsed)
    BY <1>1, <1>2, <2>1, <2>2 DEF ParsedUpTo
  <2> QED BY <2>3 DEF s
<1>3. CASE r.parsed.ok
  <2>1. PICK d \in Places : CutBetween(c, d, from, r.parsed)
    BY <1>1, <1>3 DEF CutsAt
  <2>2. /\ c <= d /\ StartOf[d] <= from /\ r.parsed.rest = Bytes(StartOf[d], from - StartOf[d])
        /\ r.parsed.cmds = CommandsFrom(c, d) /\ \A i \in c .. d - 1 : Lens[i] >= 0
    BY <2>1 DEF CutBetween
  <2>3. StartOf[d] \in Nat /\ from - StartOf[d] \in Nat /\ end - from \in Nat
        /\ StartOf[d] + (from - StartOf[d]) = from /\ from + (end - from) = end
    <3>1. StartOf[d] \in Nat
      BY StartOfEquation
    <3> QED BY <2>2, <3>1
  <2>4. r.parsed.rest \in Partial
    BY <1>3 DEF Results
  <2> DEFINE n == from - StartOf[d]
             k == end - from
             a == StartOf[d]
  <2>5. /\ a + n = from /\ a + n + k = end /\ n \in Nat /\ k \in Nat /\ a + n + k <= StreamLen + 1
        /\ Bytes(a, n) \in Partial
    BY <2>2, <2>3, <2>4
  <2>6. now = ParseDataNoCache[<<Bytes(a, n), Bytes(a + n, k)>>]
    BY <2>2, <2>5
  <2>7. ParsedUpTo(d, end, now)
    <3> HIDE DEF n, k, now
    <3>1. ParsedUpTo(d, a + n + k, now)
      BY <2>5, <2>6, ParseCut
    <3> QED BY <2>5, <3>1
  <2>8. PICK e2 \in 0 .. end : CutsAt(d, e2, now) /\ (now.ok => e2 = end)
    BY <2>7 DEF ParsedUpTo
  <2> DEFINE all == After(r.parsed.cmds, r.parsed.overlap, now)
  <2>9. s.parsed = all
    BY <1>3 DEF ParseNext
  <2>10. all = After(CommandsFrom(c, d), r.parsed.overlap, now)
    BY <2>2
  <2> HIDE DEF now, s
  <2>11. all.ok = now.ok
    BY DEF After
  <2> HIDE DEF all
  <2>12. CutsAt(c, e2, all)
    BY <2>2, <2>8, <2>10, CutLonger
  <2>13. ParsedUpTo(c, end, all)
    BY <2>8, <2>11, <2>12 DEF ParsedUpTo
  <2> QED BY <2>9, <2>13 DEF s
<1> QED BY <1>2, <1>3

\* ParsePackets comes to packet n + K + 1 unless a header was refused, and then not past
\* the packet that holds it.
LEMMA ParsePacketsReached ==
    ASSUME NEW n \in Nat, NEW K \in Nat, Cardinality(Follow(n)) = K, mBuffer \in Partial,
           mBuffer \in Seq(1 .. StreamLen), \A k \in 0 .. K : Data(n + k) \in Seq(1 .. StreamLen)
    PROVE  Reached(ParsePackets(n), n, n + K + 1)
<1>1. \A k \in 0 .. K : Data(n + k) \in Seq(Nat)
  BY PositionsAreNumbers
<1>2. PICK P \in [0 .. K -> Results] :
              /\ P[0] = ParseNext(Fresh(n), n)
              /\ \A k \in 1 .. K : P[k] = ParseNext(P[k - 1], n + k)
              /\ ParsePackets(n) = P[K]
  BY <1>1, ParsePacketsEquation
<1>3. Reached(Fresh(n), n, n)
  <2> DEFINE o == Outcome(mBuffer, TRUE)
  <2>1. mBuffer \in Seq(Nat) /\ Len(mBuffer) <= BufferLen
    BY PartialFits, FrameFacts
  <2>2. o \in Outcomes /\ o.rest = mBuffer /\ o.cmds = <<>> /\ o.ok = TRUE
    <3>1. o \in Outcomes
      BY <2>1, OutcomeType
    <3> QED BY <3>1 DEF Outcome
  <2> HIDE DEF o
  <2>3. Fresh(n).parsed = o /\ Fresh(n).next = n
    BY DEF Fresh, o
  <2>4. Fresh(n) \in Results
    <3>1. Fresh(n) = [parsed |-> o, next |-> n]
      BY DEF Fresh, o
    <3> QED BY <2>2, <3>1 DEF Results
  <2>5. o.cmds \in Seq(Seq(1 .. StreamLen)) /\ n \in n .. n
    BY <2>2
  <2> QED BY <2>1, <2>2, <2>3, <2>4, <2>5 DEF Reached
<1> DEFINE T == {k \in Nat : k <= K => Reached(P[k], n, n + k + 1)}
<1>4. 0 \in T
  <2>0. 0 \in 0 .. K
    OBVIOUS
  <2>1. Data(n + 0) \in Seq(1 .. StreamLen)
    BY <2>0, Zenon
  <2>2. n + 0 = n /\ n <= n /\ n + 0 + 1 = n + 1
    OBVIOUS
  <2>3. Data(n) \in Seq(1 .. StreamLen)
    BY <2>1, <2>2
  <2>4. Reached(ParseNext(Fresh(n), n), n, n + 1)
    BY <1>3, <2>2, <2>3, ParseNextReached
  <2> QED BY <1>2, <2>2, <2>4
<1>5. ASSUME NEW k \in Nat, k \in T
      PROVE  k + 1 \in T
  <2> SUFFICES ASSUME k + 1 <= K PROVE Reached(P[k + 1], n, n + (k + 1) + 1)
    OBVIOUS
  <2>1. k + 1 \in 0 .. K /\ k + 1 \in 1 .. K /\ (k + 1) - 1 = k
    OBVIOUS
  <2>2. P[k + 1] = ParseNext(P[k], n + (k + 1))
    BY <1>2, <2>1
  <2>3. Data(n + (k + 1)) \in Seq(1 .. StreamLen)
    BY <2>1
  <2>4. n + (k + 1) \in Nat /\ n <= n + (k + 1) /\ n + k + 1 = n + (k + 1)
    OBVIOUS
  <2>5. Reached(P[k], n, n + (k + 1))
    BY <1>5, <2>4
  <2>6. Reached(ParseNext(P[k], n + (k + 1)), n, (n + (k + 1)) + 1)
    BY <2>3, <2>4, <2>5, ParseNextReached, Zenon
  <2> QED BY <2>2, <2>6
<1> HIDE DEF T
<1>6. Nat \subseteq T
  BY <1>4, <1>5, SetOfAllNaturals
<1>7. Reached(P[K], n, n + K + 1)
  BY <1>6 DEF T
<1> QED BY <1>2, <1>7

\* ParsePackets cuts what mBuffer and the packets hold into commands, up to the end of the
\* last of them unless a header was refused.
LEMMA ParsePacketsCut ==
    ASSUME NEW n \in Nat, NEW K \in Nat, Cardinality(Follow(n)) = K, mBuffer \in Partial,
           NEW c \in Places, StartOf[c] <= At(n), mBuffer = Bytes(StartOf[c], At(n) - StartOf[c]),
           \A k \in 0 .. K : /\ At(n + k) \in Nat /\ At(n + k + 1) \in Nat
                             /\ At(n + k) <= At(n + k + 1) /\ At(n + k + 1) <= StreamLen + 1
                             /\ Data(n + k) = Bytes(At(n + k), At(n + k + 1) - At(n + k))
    PROVE  ParsedUpTo(c, At(n + K + 1), ParsePackets(n).parsed)
<1>1. ASSUME NEW k \in 0 .. K
      PROVE  Data(n + k) \in Seq(Nat)
  <2>1. At(n + k) \in Nat /\ At(n + k + 1) - At(n + k) \in Nat
    OBVIOUS
  <2> QED BY <2>1, BytesFacts
<1>2. PICK P \in [0 .. K -> Results] :
              /\ P[0] = ParseNext(Fresh(n), n)
              /\ \A k \in 1 .. K : P[k] = ParseNext(P[k - 1], n + k)
              /\ ParsePackets(n) = P[K]
  BY <1>1, ParsePacketsEquation
<1>3. ParsedUpTo(c, At(n), Fresh(n).parsed) /\ Fresh(n) \in Results /\ At(n) \in Nat
  <2> DEFINE o == Outcome(mBuffer, TRUE)
             k == At(n) - StartOf[c]
  <2>1. mBuffer \in Seq(Nat)
    BY PartialFits
  <2>2. o \in Outcomes /\ o.rest = mBuffer /\ o.cmds = <<>> /\ o.ok = TRUE
    <3>1. o \in Outcomes
      BY <2>1, OutcomeType
    <3> QED BY <3>1 DEF Outcome
  <2> HIDE DEF o
  <2>3. Fresh(n).parsed = o
    BY DEF Fresh, o
  <2>4. At(n) \in Nat
    <3>1. 0 \in 0 .. K /\ n + 0 = n
      OBVIOUS
    <3>2. At(n + 0) \in Nat
      BY <3>1, Zenon
    <3> QED BY <3>1, <3>2
  <2>5. StartOf[c] \in Nat /\ k \in Nat /\ StartOf[c] + k = At(n)
    <3>1. StartOf[c] \in Nat
      BY StartOfEquation
    <3> QED BY <2>4, <3>1
  <2>6. o.rest = Bytes(StartOf[c], k)
    BY <2>2
  <2> HIDE DEF k
  <2>7. CutsAt(c, StartOf[c] + k, o)
    BY <2>2, <2>5, <2>6, CutNothing
  <2>8. At(n) \in 0 .. At(n)
    BY <2>4
  <2>9. ParsedUpTo(c, At(n), o)
    BY <2>5, <2>7, <2>8 DEF ParsedUpTo
  <2>10. Fresh(n) \in Results
    <3>1. Fresh(n) = [parsed |-> o, next |-> n]
      BY DEF Fresh, o
    <3> QED BY <2>2, <3>1 DEF Results
  <2> QED BY <2>3, <2>4, <2>9, <2>10
<1> DEFINE T == {k \in Nat : k <= K => ParsedUpTo(c, At(n + k + 1), P[k].parsed)}
<1>4. 0 \in T
  <2>0. 0 \in 0 .. K
    OBVIOUS
  <2>1. /\ At(n + 0) \in Nat /\ At(n + 0 + 1) \in Nat
        /\ At(n + 0) <= At(n + 0 + 1) /\ At(n + 0 + 1) <= StreamLen + 1
        /\ Data(n + 0) = Bytes(At(n + 0), At(n + 0 + 1) - At(n + 0))
    BY <2>0, Zenon
  <2>2. n + 0 = n /\ n + 0 + 1 = n + 1
    OBVIOUS
  <2>3. /\ At(n) \in Nat /\ At(n + 1) \in Nat /\ At(n) <= At(n + 1)
        /\ At(n + 1) <= StreamLen + 1 /\ Data(n) = Bytes(At(n), At(n + 1) - At(n))
    BY <2>1, <2>2
  <2>4. ParsedUpTo(c, At(n + 1), ParseNext(Fresh(n), n).parsed)
    BY <1>3, <2>3, ParseNextCut
  <2> QED BY <1>2, <2>2, <2>4
<1>5. ASSUME NEW k \in Nat, k \in T
      PROVE  k + 1 \in T
  <2> SUFFICES ASSUME k + 1 <= K PROVE ParsedUpTo(c, At(n + (k + 1) + 1), P[k + 1].parsed)
    OBVIOUS
  <2>1. k + 1 \in 0 .. K /\ k + 1 \in 1 .. K /\ (k + 1) - 1 = k /\ k \in 0 .. K
    OBVIOUS
  <2>2. P[k + 1] = ParseNext(P[k], n + (k + 1)) /\ P[k] \in Results
    BY <1>2, <2>1
  <2> DEFINE m == n + (k + 1)
  <2>3. m \in Nat /\ n + k + 1 = m
    OBVIOUS
  <2>4. /\ At(m) \in Nat /\ At(m + 1) \in Nat /\ At(m) <= At(m + 1)
        /\ At(m + 1) <= StreamLen + 1 /\ Data(m) = Bytes(At(m), At(m + 1) - At(m))
    BY <2>1, Zenon
  <2>5. ParsedUpTo(c, At(m), P[k].parsed)
    BY <1>5, <2>3
  <2> HIDE DEF m
  <2>6. ParsedUpTo(c, At(m + 1), ParseNext(P[k], m).parsed)
    BY <2>2, <2>3, <2>4, <2>5, ParseNextCut
  <2> QED BY <2>2, <2>6 DEF m
<1> HIDE DEF T
<1>6. Nat \subseteq T
  BY <1>4, <1>5, SetOfAllNaturals
<1>7. ParsedUpTo(c, At(n + K + 1), P[K].parsed)
  BY <1>6 DEF T
<1> QED BY <1>2, <1>7

-----------------------------------------------------------------------------
\* What the parts of the invariant say, as they are used below.
LEMMA InvFacts ==
    ASSUME ClientInv
    PROVE  /\ TypeOK /\ QueueInOrder /\ HeldOnce /\ KeptLater /\ NoneMissing
           /\ PacketsAdjoin /\ ParsedInOrder /\ BufferPartial /\ PoolSum
           /\ Len(packets) \in Nat /\ Len(queue) \in Nat /\ Popped \in Nat
           /\ expected \in Nat /\ expected <= Popped /\ received \in Nat
           /\ IsFiniteSet(kept) /\ Cardinality(kept) \in Nat
           /\ held \in [Handlers -> Nat \cup {None}] /\ None \notin Int
<1>1. /\ TypeOK /\ QueueInOrder /\ HeldOnce /\ KeptLater /\ NoneMissing
      /\ PacketsAdjoin /\ ParsedInOrder /\ BufferPartial /\ PoolSum
  BY DEF ClientInv
<1>2. /\ Len(packets) \in Nat /\ Len(queue) \in Nat /\ expected \in Nat /\ received \in Nat
      /\ held \in [Handlers -> Nat \cup {None}] /\ None \notin Int
  BY <1>1, StreamEnd, ClientAssumption DEF TypeOK
<1>3. Popped \in Nat
  BY <1>1, <1>2 DEF QueueInOrder, Popped
<1>4. expected <= Popped
  BY <1>1 DEF KeptLater
<1>5. IsFiniteSet(kept) /\ Cardinality(kept) \in Nat
  <2>1. kept \subseteq (expected + 1) .. (Popped - 1)
    BY <1>1 DEF KeptLater
  <2>2. IsFiniteSet((expected + 1) .. (Popped - 1))
    BY <1>2, <1>3, FS_Interval
  <2> QED BY <2>1, <2>2, FS_Subset, FS_CardinalityType
<1> QED BY <1>1, <1>2, <1>3, <1>4, <1>5

\* The initial state.
LEMMA InitInv == Init => ClientInv
<1> SUFFICES ASSUME Init PROVE ClientInv
  OBVIOUS
<1>0. /\ packets = <<>> /\ received = 0 /\ ending = FALSE
      /\ expected = 0 /\ kept = {} /\ mBuffer = <<>> /\ mbError = FALSE
      /\ queue = <<>> /\ held = [h \in Handlers |-> None]
      /\ idle = PoolSize
      /\ given = <<>> /\ gap = FALSE /\ garbled = FALSE /\ nconn = 1 /\ lost = 0
  BY DEF Init
<1>1. StreamLen \in Nat /\ BufferLen \in Nat /\ PoolSize \in Nat /\ MaxConns \in Nat \ {0}
  BY StreamEnd, FrameFacts, ClientAssumption
<1>2. TypeOK
  <2>1. packets \in Seq(Seq(1 .. StreamLen)) /\ given \in Seq(Seq(1 .. StreamLen))
        /\ mBuffer \in Seq(1 .. StreamLen) /\ queue \in Seq(Nat) /\ Len(packets) = 0
        /\ Len(mBuffer) = 0
    BY <1>0
  <2>2. held \in [Handlers -> Nat \cup {None}] /\ {ending, mbError, gap, garbled} \subseteq BOOLEAN
        /\ kept \subseteq 0 .. Len(packets) - 1
    BY <1>0
  <2>3. /\ received \in 0 .. StreamLen /\ expected \in 0 .. Len(packets)
        /\ Len(mBuffer) <= BufferLen /\ idle \in 0 .. PoolSize /\ lost \in 0 .. PoolSize
        /\ nconn \in 1 .. MaxConns
    BY <1>0, <1>1, <2>1
  <2> QED BY <2>1, <2>2, <2>3 DEF TypeOK
<1>3. Popped = 0
  BY <1>0 DEF Popped
<1>4. QueueInOrder /\ HeldOnce /\ KeptLater /\ NoneMissing
  BY <1>0, <1>3 DEF QueueInOrder, HeldOnce, KeptLater, NoneMissing
<1>5. PacketsAdjoin
  <2>1. At(0) = 1 /\ Len(packets) = 0
    BY <1>0 DEF At
  <2> QED BY <1>0, <2>1 DEF PacketsAdjoin
<1>6. ParsedInOrder
  <2>1. At(0) = 1 /\ 1 \in 0 .. received + 1
    BY <1>0 DEF At
  <2>2. 1 \in 1 .. Len(Lens) + 1 /\ StartOf[1] = 1
    BY FrameFacts, StartOfEquation
  <2>3. [i \in 1 .. 1 - 1 |-> Command(i)] = <<>>
    OBVIOUS
  <2>4. Bytes(1, 1 - 1) = <<>>
    BY DEF Bytes
  <2>5. ParsedUpToPacket(1, 1)
    BY <1>0, <2>1, <2>2, <2>3, <2>4 DEF ParsedUpToPacket
  <2> QED BY <2>1, <2>2, <2>5 DEF ParsedInOrder
<1>7. BufferPartial
  BY <1>0, EmptyPartial DEF BufferPartial
<1>8. PoolSum
  BY <1>0, <1>1, FS_EmptySet DEF PoolSum
<1> QED BY <1>2, <1>4, <1>5, <1>6, <1>7, <1>8 DEF ClientInv

\* A packet received is put behind the ones before it.
LEMMA RecvPacketInv ==
    ASSUME ClientInv, NEW n \in 1 .. MaxPacket, RecvPacket(n)
    PROVE  ClientInv'
<1> DEFINE N == Len(packets)
           data == Bytes(received + 1, n)
<1>1. /\ TypeOK /\ QueueInOrder /\ HeldOnce /\ KeptLater /\ NoneMissing
      /\ PacketsAdjoin /\ ParsedInOrder /\ BufferPartial /\ PoolSum
      /\ N \in Nat /\ Len(queue) \in Nat /\ Popped \in Nat
      /\ expected \in Nat /\ expected <= Popped /\ received \in Nat /\ n \in Nat /\ n >= 1
  BY InvFacts, ClientAssumption
<1>2. /\ received + n <= StreamLen /\ packets' = Append(packets, data)
      /\ queue' = Append(queue, N) /\ received' = received + n
      /\ UNCHANGED <<held, ending, client, idle, ghosts>>
  BY DEF RecvPacket
<1>3. data \in Seq(1 .. StreamLen) /\ Len(data) = n /\ data[1] = received + 1
  <2>1. received + 1 \in Nat /\ n \in Nat
    BY <1>1
  <2>2. Len(data) = n /\ \A i \in 1 .. n : data[i] = received + 1 + i - 1
    BY <2>1, BytesFacts
  <2>3. \A i \in 1 .. n : received + 1 + i - 1 \in 1 .. StreamLen
    BY <1>1, <1>2, StreamEnd
  <2>4. data \in Seq(1 .. StreamLen)
    <3>1. data = [i \in 1 .. n |-> received + 1 + i - 1]
      BY DEF Bytes
    <3> HIDE DEF data
    <3> QED BY <1>1, <2>3, <3>1
  <2>5. 1 \in 1 .. n /\ received + 1 + 1 - 1 = received + 1
    BY <1>1
  <2> QED BY <2>2, <2>4, <2>5
<1> HIDE DEF data
<1>4. /\ packets \in Seq(Seq(1 .. StreamLen)) /\ queue \in Seq(Nat)
      /\ packets' \in Seq(Seq(1 .. StreamLen)) /\ Len(packets') = N + 1
      /\ \A i \in 1 .. N : packets'[i] = packets[i]
      /\ packets'[N + 1] = data
      /\ queue' \in Seq(Nat) /\ Len(queue') = Len(queue) + 1
      /\ \A i \in 1 .. Len(queue) : queue'[i] = queue[i]
      /\ queue'[Len(queue) + 1] = N
  <2>1. packets \in Seq(Seq(1 .. StreamLen)) /\ queue \in Seq(Nat)
    BY <1>1 DEF TypeOK
  <2> QED BY <1>1, <1>2, <1>3, <2>1, AppendProperties
<1>5. Popped' = Popped
  BY <1>1, <1>4 DEF Popped
<1>6. TypeOK'
  BY <1>1, <1>2, <1>4 DEF TypeOK, client, ghosts
<1>7. QueueInOrder'
  <2>1. Len(queue) <= N /\ \A i \in 1 .. Len(queue) : queue[i] = Popped + i - 1
    <3>1. DOMAIN queue = 1 .. Len(queue)
      BY <1>4
    <3> QED BY <1>1, <3>1 DEF QueueInOrder
  <2>2. DOMAIN queue' = 1 .. Len(queue) + 1
    BY <1>4
  <2>3. N = Popped + (Len(queue) + 1) - 1
    BY <1>1 DEF Popped
  <2>4. \A i \in DOMAIN queue' : queue'[i] = Popped' + i - 1
    <3> SUFFICES ASSUME NEW i \in 1 .. Len(queue) + 1 PROVE queue'[i] = Popped + i - 1
      BY <1>5, <2>2
    <3>1. CASE i = Len(queue) + 1
      BY <1>4, <2>3, <3>1
    <3>2. CASE i # Len(queue) + 1
      <4>1. i \in 1 .. Len(queue)
        BY <1>1, <3>2
      <4> QED BY <1>4, <2>1, <4>1
    <3> QED BY <3>1, <3>2
  <2> QED BY <1>1, <1>4, <2>1, <2>4 DEF QueueInOrder
<1>8. HeldOnce' /\ KeptLater' /\ NoneMissing'
  BY <1>1, <1>2, <1>5 DEF HeldOnce, KeptLater, NoneMissing, client
<1>9. \A k \in 0 .. N : At(k)' = At(k)
  <2> SUFFICES ASSUME NEW k \in 0 .. N PROVE At(k)' = At(k)
    OBVIOUS
  <2>1. CASE k < N
    <3>1. k + 1 \in 1 .. N /\ k < N + 1
      BY <1>1, <2>1
    <3> QED BY <1>4, <2>1, <3>1 DEF At
  <2>2. CASE k = N
    BY <1>1, <1>3, <1>4, <2>2 DEF At
  <2> QED BY <1>1, <2>1, <2>2
<1>10. /\ \A k \in Nat : k = N + 1 => At(k)' = received + n + 1
       /\ \A k \in Nat : k = N => At(k) = received + 1
  BY <1>1, <1>2, <1>4 DEF At
<1>11. PacketsAdjoin'
  <2> SUFFICES ASSUME ~ gap
               PROVE  /\ At(0)' = 1
                      /\ \A k \in 0 .. Len(packets') : At(k)' \in 1 .. received' + 1
                      /\ \A k \in 0 .. Len(packets') - 1 :
                            /\ At(k)' < At(k + 1)'
                            /\ packets'[k + 1] = Bytes(At(k)', At(k + 1)' - At(k)')
    BY <1>2 DEF PacketsAdjoin, ghosts
  <2>1. /\ At(0) = 1 /\ \A k \in 0 .. N : At(k) \in 1 .. received + 1
        /\ \A k \in 0 .. N - 1 : /\ At(k) < At(k + 1)
                                 /\ packets[k + 1] = Bytes(At(k), At(k + 1) - At(k))
    BY <1>1 DEF PacketsAdjoin
  <2>2. At(0)' = 1
    BY <1>1, <1>9, <2>1
  <2>3. ASSUME NEW k \in 0 .. N
        PROVE  /\ At(k)' < At(k + 1)'
               /\ packets'[k + 1] = Bytes(At(k)', At(k + 1)' - At(k)')
    <3> HIDE DEF N
    <3>1. CASE k # N
      <4>1. k \in 0 .. N - 1 /\ k \in 0 .. N /\ k + 1 \in 0 .. N /\ k + 1 \in 1 .. N
        BY <1>1, <3>1
      <4>2. At(k)' = At(k) /\ At(k + 1)' = At(k + 1) /\ packets'[k + 1] = packets[k + 1]
        BY <1>4, <1>9, <4>1
      <4> QED BY <2>1, <4>1, <4>2
    <3>2. CASE k = N
      <4>1. k \in 0 .. N /\ k \in Nat /\ k + 1 \in Nat /\ k + 1 = N + 1
        BY <1>1, <3>2
      <4>5. At(k)' = received + 1 /\ At(k + 1)' = received + n + 1
        BY <1>9, <1>10, <3>2, <4>1
      <4>2. (received + n + 1) - (received + 1) = n /\ received + 1 < received + n + 1
        BY <1>1
      <4>3. packets'[k + 1] = Bytes(received + 1, n)
        BY <1>4, <4>1 DEF data
      <4> QED BY <4>2, <4>3, <4>5
    <3> QED BY <3>1, <3>2
  <2>4. 0 .. Len(packets') - 1 = 0 .. N
    BY <1>1, <1>4
  <2>5. ASSUME NEW k \in 0 .. Len(packets')
        PROVE  At(k)' \in 1 .. received' + 1
    <3> HIDE DEF N
    <3>1. CASE k \in 0 .. N
      <4>1. At(k)' = At(k) /\ At(k) \in 1 .. received + 1
        BY <1>9, <2>1, <3>1
      <4> QED BY <1>1, <1>2, <4>1
    <3>2. CASE k \notin 0 .. N
      <4>1. k \in Nat /\ k = N + 1
        BY <1>1, <1>4, <3>2
      <4> QED BY <1>1, <1>2, <1>10, <4>1
    <3> QED BY <3>1, <3>2
  <2> QED BY <2>2, <2>3, <2>4, <2>5
<1>12. ParsedInOrder'
  <2> SUFFICES ASSUME ~ gap
               PROVE  \E d \in 1 .. Len(Lens) + 1, end \in 0 .. received' + 1 :
                          ParsedUpToPacket(d, end)'
    BY <1>2 DEF ParsedInOrder, ghosts
  <2>1. PICK d \in 1 .. Len(Lens) + 1, end \in 0 .. received + 1 : ParsedUpToPacket(d, end)
    BY <1>1 DEF ParsedInOrder
  <2>2. end \in 0 .. received' + 1
    BY <1>1, <1>2
  <2>3. At(expected)' = At(expected)
    <3>1. expected \in 0 .. N /\ expected' = expected
      BY <1>1, <1>2 DEF TypeOK, client
    <3> QED BY <1>9, <3>1 DEF At
  <2>4. ParsedUpToPacket(d, end)'
    BY <1>2, <2>1, <2>3 DEF ParsedUpToPacket, client, ghosts
  <2> QED BY <2>2, <2>4
<1>13. BufferPartial' /\ PoolSum'
  BY <1>1, <1>2 DEF BufferPartial, PoolSum, client, ghosts
<1> QED BY <1>6, <1>7, <1>8, <1>11, <1>12, <1>13 DEF ClientInv

\* What keeps the buffers and the packets keeps what was parsed.
LEMMA SameParsed ==
    ASSUME ClientInv, UNCHANGED <<packets, received, expected, mBuffer, mbError, given, gap>>
    PROVE  PacketsAdjoin' /\ ParsedInOrder' /\ BufferPartial'
<1>1. PacketsAdjoin /\ ParsedInOrder /\ BufferPartial
  BY InvFacts
<1>2. PacketsAdjoin'
  BY <1>1 DEF PacketsAdjoin, At
<1>3. ParsedInOrder'
  BY <1>1 DEF ParsedInOrder, ParsedUpToPacket, At
<1>4. BufferPartial'
  BY <1>1 DEF BufferPartial
<1> QED BY <1>2, <1>3, <1>4

\* Dropping bytes leaves packets and buffers as they are.
LEMMA DropPacketInv ==
    ASSUME ClientInv, NEW n \in 1 .. MaxPacket, DropPacket(n)
    PROVE  ClientInv'
<1>1. /\ received + n <= StreamLen /\ received' = received + n /\ gap' = TRUE /\ ending' = TRUE
      /\ UNCHANGED <<packets, queue, held, client, idle, given, garbled, nconn, lost>>
  BY DEF DropPacket
<1>2. /\ TypeOK /\ QueueInOrder /\ HeldOnce /\ KeptLater /\ NoneMissing
      /\ BufferPartial /\ PoolSum /\ received \in Nat /\ n \in Nat
  BY InvFacts, ClientAssumption
<1>3. TypeOK'
  BY <1>1, <1>2 DEF TypeOK, client
<1>4. QueueInOrder' /\ HeldOnce' /\ KeptLater' /\ NoneMissing'
  BY <1>1, <1>2 DEF QueueInOrder, HeldOnce, KeptLater, NoneMissing, Popped, client
<1>5. PacketsAdjoin' /\ ParsedInOrder' /\ BufferPartial' /\ PoolSum'
  BY <1>1, <1>2 DEF PacketsAdjoin, ParsedInOrder, BufferPartial, PoolSum, client
<1> QED BY <1>3, <1>4, <1>5 DEF ClientInv

\* The peer's shutdown changes neither packets nor buffers.
LEMMA PeerCloseInv ==
    ASSUME ClientInv, PeerClose
    PROVE  ClientInv'
<1>1. /\ ending' = TRUE
      /\ UNCHANGED <<packets, received, queue, held, client, idle, ghosts>>
  BY DEF PeerClose
<1>2. /\ TypeOK /\ QueueInOrder /\ HeldOnce /\ KeptLater /\ NoneMissing /\ PoolSum
  BY InvFacts
<1>3. TypeOK'
  BY <1>1, <1>2 DEF TypeOK, client, ghosts
<1>4. QueueInOrder' /\ HeldOnce' /\ KeptLater' /\ NoneMissing' /\ PoolSum'
  BY <1>1, <1>2 DEF QueueInOrder, HeldOnce, KeptLater, NoneMissing, PoolSum, Popped, client, ghosts
<1>5. PacketsAdjoin' /\ ParsedInOrder' /\ BufferPartial'
  BY <1>1, SameParsed DEF client, ghosts
<1> QED BY <1>3, <1>4, <1>5 DEF ClientInv

\* A handler takes the first packet of the queue, the next one not taken yet.
LEMMA HandlePopInv ==
    ASSUME ClientInv, NEW h \in Handlers, HandlePop(h)
    PROVE  ClientInv'
<1>1. /\ held[h] = None /\ queue # <<>> /\ held' = [held EXCEPT ![h] = Head(queue)]
      /\ queue' = Tail(queue)
      /\ UNCHANGED <<packets, received, ending, client, idle, ghosts>>
  BY DEF HandlePop
<1>2. /\ TypeOK /\ QueueInOrder /\ HeldOnce /\ KeptLater /\ NoneMissing /\ PoolSum
      /\ Len(packets) \in Nat /\ Len(queue) \in Nat /\ Popped \in Nat
      /\ expected \in Nat /\ expected <= Popped
      /\ held \in [Handlers -> Nat \cup {None}] /\ None \notin Int
  BY InvFacts
<1>3. queue \in Seq(Nat)
  BY <1>2 DEF TypeOK
<1>4. /\ Len(queue) >= 1 /\ Head(queue) = queue[1] /\ Head(queue) \in Nat
      /\ queue' \in Seq(Nat) /\ Len(queue') = Len(queue) - 1
      /\ \A i \in 1 .. Len(queue) - 1 : queue'[i] = queue[i + 1]
  BY <1>1, <1>3
<1>5. Len(queue) <= Len(packets) /\ \A i \in 1 .. Len(queue) : queue[i] = Popped + i - 1
  BY <1>2, <1>3 DEF QueueInOrder
<1>6. Head(queue) = Popped
  BY <1>2, <1>4, <1>5
<1>7. Popped' = Popped + 1
  BY <1>1, <1>2, <1>4 DEF Popped
<1>8. TypeOK'
  BY <1>1, <1>2, <1>4 DEF TypeOK, client, ghosts
<1>9. QueueInOrder'
  <2>1. Len(queue') <= Len(packets')
    BY <1>1, <1>2, <1>4, <1>5
  <2>2. DOMAIN queue' = 1 .. Len(queue) - 1
    BY <1>2, <1>4
  <2>3. \A i \in 1 .. Len(queue) - 1 : queue[i + 1] = Popped' + i - 1
    <3> SUFFICES ASSUME NEW i \in 1 .. Len(queue) - 1 PROVE queue[i + 1] = Popped' + i - 1
      OBVIOUS
    <3>1. i + 1 \in 1 .. Len(queue) /\ Popped + (i + 1) - 1 = (Popped + 1) + i - 1
      BY <1>2
    <3> QED BY <1>5, <1>7, <3>1
  <2> QED BY <1>4, <2>1, <2>2, <2>3 DEF QueueInOrder
<1>10. HeldOnce'
  <2> SUFFICES ASSUME NEW i \in Handlers, held'[i] # None
               PROVE  /\ held'[i] \in expected .. Popped' - 1 /\ held'[i] \notin kept
                      /\ \A g \in Handlers : held'[g] = held'[i] => g = i
    BY <1>1 DEF HeldOnce, client
  <2>1. \A g \in Handlers : g # h => held'[g] = held[g]
    BY <1>1, <1>2
  <2>2. held'[h] = Popped
    BY <1>1, <1>2, <1>6
  <2>3. \A g \in Handlers : held[g] # None => held[g] \in expected .. Popped - 1
    BY <1>2 DEF HeldOnce
  <2>4. kept \subseteq expected + 1 .. Popped - 1
    BY <1>2 DEF KeptLater
  <2>5. CASE i = h
    <3>1. \A g \in Handlers : g # h => held'[g] # Popped
      BY <1>2, <2>1, <2>3
    <3> QED BY <1>2, <1>7, <2>2, <2>4, <2>5, <3>1
  <2>6. CASE i # h
    <3>1. held'[i] = held[i] /\ held[i] # None
      BY <2>1, <2>6
    <3>2. held[i] \in expected .. Popped - 1 /\ held[i] \notin kept
          /\ \A g \in Handlers : held[g] = held[i] => g = i
      BY <1>2, <3>1 DEF HeldOnce
    <3>3. held[i] # Popped /\ held[i] \in expected .. (Popped + 1) - 1
      BY <1>2, <3>2
    <3>4. ASSUME NEW g \in Handlers, held'[g] = held'[i]
          PROVE  g = i
      <4>1. g # h
        BY <2>2, <3>1, <3>3, <3>4
      <4> QED BY <2>1, <3>1, <3>2, <3>4, <4>1
    <3> QED BY <1>7, <3>1, <3>2, <3>3, <3>4
  <2> QED BY <2>5, <2>6
<1>11. KeptLater'
  BY <1>1, <1>2, <1>7 DEF KeptLater, client
<1>12. NoneMissing'
  <2> SUFFICES ASSUME ~ mbError, NEW m \in expected .. Popped' - 1
               PROVE  m \in kept \/ \E g \in Handlers : held'[g] = m
    BY <1>1 DEF NoneMissing, client
  <2>1. CASE m = Popped
    BY <1>1, <1>2, <1>6, <2>1
  <2>2. CASE m # Popped
    <3>1. m \in expected .. Popped - 1
      BY <1>2, <1>7, <2>2
    <3>2. m \in kept \/ \E g \in Handlers : held[g] = m
      BY <1>2, <3>1 DEF NoneMissing
    <3>3. ASSUME NEW g \in Handlers, held[g] = m
          PROVE  held'[g] = m
      <4>1. g # h
        BY <1>1, <1>2, <3>1, <3>3
      <4> QED BY <1>1, <1>2, <3>3, <4>1
    <3> QED BY <3>2, <3>3
  <2> QED BY <2>1, <2>2
<1>13. PacketsAdjoin' /\ ParsedInOrder' /\ BufferPartial' /\ PoolSum'
  BY <1>1, <1>2, SameParsed DEF PoolSum, client, ghosts
<1> QED BY <1>8, <1>9, <1>10, <1>11, <1>12, <1>13 DEF ClientInv

-----------------------------------------------------------------------------
\* What the handler of packet n does around ParseData: it is free afterwards, and the
\* queue and the packets are as they were.
Handled(h, n) ==
    /\ held[h] = n /\ n # None /\ held' = [held EXCEPT ![h] = None]
    /\ UNCHANGED <<packets, received, queue, gap, nconn, lost>>

\* No packet but n moves: the others are where they were.
LEMMA HandledFacts ==
    ASSUME ClientInv, NEW h \in Handlers, NEW n, Handled(h, n)
    PROVE  /\ n \in expected .. Popped - 1 /\ n \in Nat /\ n \notin kept
           /\ Popped' = Popped /\ QueueInOrder'
           /\ held' \in [Handlers -> Nat \cup {None}]
           /\ held'[h] = None /\ \A g \in Handlers : g # h => held'[g] = held[g]
           /\ \A g \in Handlers : held'[g] # None =>
                 /\ held'[g] \in expected .. Popped - 1 /\ held'[g] # n /\ held'[g] \notin kept
                 /\ \A i \in Handlers : held'[i] = held'[g] => i = g
           /\ ~ mbError => \A m \in expected .. Popped - 1 :
                 m = n \/ m \in kept \/ \E g \in Handlers : held'[g] = m
<1>1. /\ QueueInOrder /\ HeldOnce /\ NoneMissing /\ expected \in Nat /\ Popped \in Nat
      /\ held \in [Handlers -> Nat \cup {None}] /\ None \notin Int
  BY InvFacts
<1>2. /\ held[h] = n /\ n # None /\ held' = [held EXCEPT ![h] = None]
      /\ UNCHANGED <<packets, received, queue, gap, nconn, lost>>
  BY DEF Handled
<1>3. /\ n \in expected .. Popped - 1 /\ n \notin kept
      /\ \A g \in Handlers : held[g] = n => g = h
  BY <1>1, <1>2 DEF HeldOnce
<1>4. n \in Nat
  BY <1>1, <1>3
<1>5. Popped' = Popped /\ QueueInOrder'
  BY <1>1, <1>2 DEF Popped, QueueInOrder
<1>6. /\ held' \in [Handlers -> Nat \cup {None}]
      /\ held'[h] = None /\ \A g \in Handlers : g # h => held'[g] = held[g]
  BY <1>1, <1>2
<1>7. ASSUME NEW g \in Handlers, held'[g] # None
      PROVE  /\ held'[g] \in expected .. Popped - 1 /\ held'[g] # n /\ held'[g] \notin kept
             /\ \A i \in Handlers : held'[i] = held'[g] => i = g
  <2>1. g # h /\ held'[g] = held[g] /\ held[g] # None
    BY <1>6, <1>7
  <2>2. /\ held[g] \in expected .. Popped - 1 /\ held[g] \notin kept
        /\ \A i \in Handlers : held[i] = held[g] => i = g
    BY <1>1, <2>1 DEF HeldOnce
  <2>3. held[g] # n
    BY <1>3, <2>1
  <2>4. ASSUME NEW i \in Handlers, held'[i] = held'[g]
        PROVE  i = g
    <3>1. i # h
      BY <1>6, <1>7, <2>4
    <3> QED BY <1>6, <2>1, <2>2, <2>4, <3>1
  <2> QED BY <2>1, <2>2, <2>3, <2>4
<1>8. ASSUME ~ mbError, NEW m \in expected .. Popped - 1, m # n, m \notin kept
      PROVE  \E g \in Handlers : held'[g] = m
  <2>1. PICK g \in Handlers : held[g] = m
    BY <1>1, <1>8 DEF NoneMissing
  <2>2. g # h
    BY <1>2, <1>8, <2>1
  <2> QED BY <1>6, <2>1, <2>2
<1> QED BY <1>3, <1>4, <1>5, <1>6, <1>7, <1>8

\* An early packet is kept with a message of the pool.
LEMMA KeepInv ==
    ASSUME ClientInv, NEW h \in Handlers, NEW n, Handled(h, n), Keep(n), UNCHANGED garbled
    PROVE  ClientInv'
<1>1. /\ TypeOK /\ KeptLater /\ NoneMissing /\ PoolSum /\ expected \in Nat /\ Popped \in Nat
      /\ IsFiniteSet(kept) /\ Cardinality(kept) \in Nat /\ Len(packets) \in Nat
      /\ Len(queue) \in Nat
  BY InvFacts
<1>2. /\ n # expected /\ ~ mbError /\ idle > 0 /\ kept' = kept \cup {n} /\ idle' = idle - 1
      /\ UNCHANGED <<expected, mBuffer, mbError, ending, given, garbled>>
  BY DEF Keep, InTurn, Broken
<1>3. UNCHANGED <<packets, received, queue, gap, nconn, lost>>
  BY DEF Handled
<1>4. /\ n \in expected .. Popped - 1 /\ n \in Nat /\ n \notin kept
      /\ Popped' = Popped /\ QueueInOrder'
      /\ held' \in [Handlers -> Nat \cup {None}]
      /\ \A g \in Handlers : held'[g] # None =>
            /\ held'[g] \in expected .. Popped - 1 /\ held'[g] # n /\ held'[g] \notin kept
            /\ \A i \in Handlers : held'[i] = held'[g] => i = g
      /\ \A m \in expected .. Popped - 1 :
            m = n \/ m \in kept \/ \E g \in Handlers : held'[g] = m
  BY <1>2, HandledFacts
<1>5. TypeOK'
  <2>1. n \in 0 .. Len(packets) - 1
    BY <1>1, <1>4 DEF Popped
  <2>2. kept' \subseteq 0 .. Len(packets') - 1
    BY <1>1, <1>2, <1>3, <2>1 DEF TypeOK
  <2>3. idle' \in 0 .. PoolSize
    BY <1>1, <1>2, ClientAssumption DEF TypeOK
  <2> QED BY <1>1, <1>2, <1>3, <1>4, <2>2, <2>3 DEF TypeOK
<1>6. HeldOnce'
  BY <1>2, <1>4 DEF HeldOnce
<1>7. KeptLater'
  <2>1. n \in expected + 1 .. Popped - 1
    BY <1>1, <1>2, <1>4
  <2> QED BY <1>1, <1>2, <1>4, <2>1 DEF KeptLater
<1>8. NoneMissing'
  BY <1>2, <1>4 DEF NoneMissing
<1>9. PoolSum'
  <2>1. Cardinality(kept') = Cardinality(kept) + 1
    BY <1>1, <1>2, <1>4, FS_AddElement
  <2>2. idle \in Nat /\ lost \in Nat
    BY <1>1, ClientAssumption DEF TypeOK
  <2> QED BY <1>1, <1>2, <1>3, <2>1, <2>2 DEF PoolSum
<1>10. PacketsAdjoin' /\ ParsedInOrder' /\ BufferPartial'
  BY <1>2, <1>3, SameParsed
<1> QED BY <1>4, <1>5, <1>6, <1>7, <1>8, <1>9, <1>10 DEF ClientInv

\* After an error nothing is kept and nothing parsed.
LEMMA FailInv ==
    ASSUME ClientInv, NEW h \in Handlers, NEW n, Handled(h, n), Fail(n)
    PROVE  ClientInv'
<1>1. /\ TypeOK /\ KeptLater /\ PoolSum /\ PacketsAdjoin /\ ParsedInOrder
  BY InvFacts
<1>2. /\ mbError' = TRUE /\ ending' = TRUE
      /\ UNCHANGED <<expected, kept, mBuffer, idle, given, garbled>>
  BY DEF Fail
<1>3. UNCHANGED <<packets, received, queue, gap, nconn, lost>>
  BY DEF Handled
<1>4. /\ Popped' = Popped /\ QueueInOrder'
      /\ held' \in [Handlers -> Nat \cup {None}]
      /\ \A g \in Handlers : held'[g] # None =>
            /\ held'[g] \in expected .. Popped - 1 /\ held'[g] \notin kept
            /\ \A i \in Handlers : held'[i] = held'[g] => i = g
  BY HandledFacts
<1>5. TypeOK'
  BY <1>1, <1>2, <1>3, <1>4 DEF TypeOK
<1>6. HeldOnce' /\ KeptLater' /\ NoneMissing' /\ PoolSum' /\ BufferPartial'
  BY <1>1, <1>2, <1>3, <1>4 DEF HeldOnce, KeptLater, NoneMissing, PoolSum, BufferPartial
<1>7. PacketsAdjoin'
  BY <1>1, <1>3 DEF PacketsAdjoin, At
<1>8. ParsedInOrder'
  BY <1>1, <1>2, <1>3 DEF ParsedInOrder, ParsedUpToPacket
<1> QED BY <1>4, <1>5, <1>6, <1>7, <1>8 DEF ClientInv

-----------------------------------------------------------------------------
\* Where the packets begin, while none were dropped: at positions of the stream, in order.
LEMMA AtFacts ==
    ASSUME ClientInv, ~ gap
    PROVE  /\ \A k \in 0 .. Len(packets) : At(k) \in Nat /\ At(k) <= received + 1
           /\ received <= StreamLen /\ StreamLen \in Nat
           /\ \A k \in 0 .. Len(packets) - 1 :
                 At(k) < At(k + 1) /\ Data(k) = Bytes(At(k), At(k + 1) - At(k))
<1>1. PacketsAdjoin /\ TypeOK /\ received \in Nat
  BY InvFacts
<1>2. received <= StreamLen /\ StreamLen \in Nat
  BY <1>1, StreamEnd DEF TypeOK
<1> QED BY <1>1, <1>2 DEF PacketsAdjoin, Data

\* What parsing in turn does: it parses packet n and the K kept ones that follow it.
LEMMA InTurnFacts ==
    ASSUME ClientInv, NEW n \in Nat, n = expected, n <= Popped - 1, n \notin kept, ~ mbError
    PROVE  \E K \in Nat :
              LET p    == ParsePackets(n)
                  used == {m \in Follow(n) : m < p.next \/ (~ p.parsed.ok /\ m = p.next)}
              IN  /\ Reached(p, n, n + K + 1)
                  /\ used \subseteq n + 1 .. p.next
                  /\ used \subseteq kept
                  /\ \A m \in n + 1 .. n + K : m \in kept
                  /\ kept \ used \subseteq p.next + 1 .. Popped - 1
                  /\ n + K + 1 <= Popped
                  /\ ~ gap => \E d \in Places, e \in 0 .. received + 1 :
                        /\ CutBetween(1, d, e, [rest |-> p.parsed.rest, cmds |-> given \o p.parsed.cmds])
                        /\ p.parsed.ok => e = At(p.next)
<1> DEFINE p    == ParsePackets(n)
           used == {m \in Follow(n) : m < p.next \/ (~ p.parsed.ok /\ m = p.next)}
<1>1. /\ TypeOK /\ KeptLater /\ BufferPartial /\ ParsedInOrder /\ Popped \in Nat
      /\ Len(packets) \in Nat /\ Len(queue) \in Nat /\ received \in Nat
  BY InvFacts
<1>2. kept \subseteq n + 1 .. Popped - 1 /\ Popped - 1 \in Nat
  BY <1>1 DEF KeptLater
<1>3. PICK K \in Nat : /\ Follow(n) = n + 1 .. n + K /\ Cardinality(Follow(n)) = K
                       /\ n + K + 1 \notin kept
  BY <1>2, FollowFacts
<1>4. \A m \in n + 1 .. n + K : m \in kept
  BY <1>3 DEF Follow
<1>5. n + K + 1 <= Popped
  <2>1. CASE K = 0
    BY <1>1, <2>1
  <2>2. CASE K # 0
    <3>1. n + K \in kept
      BY <1>4, <2>2
    <3> QED BY <1>1, <1>2, <3>1
  <2> QED BY <2>1, <2>2
<1>6. Popped <= Len(packets)
  BY <1>1 DEF Popped
<1>7. mBuffer \in Partial /\ mBuffer \in Seq(1 .. StreamLen)
      /\ packets \in Seq(Seq(1 .. StreamLen))
  BY <1>1 DEF BufferPartial, TypeOK
<1>8. ASSUME NEW k \in 0 .. K
      PROVE  n + k \in 0 .. Len(packets) - 1 /\ Data(n + k) \in Seq(1 .. StreamLen)
  <2>1. n + k \in 0 .. Len(packets) - 1 /\ (n + k) + 1 \in 1 .. Len(packets)
    BY <1>1, <1>5, <1>6
  <2> QED BY <1>7, <2>1 DEF Data
<1>9. Reached(p, n, n + K + 1)
  BY <1>3, <1>7, <1>8, ParsePacketsReached
<1>10. /\ p.next \in n .. n + K + 1 /\ (p.parsed.ok => p.next = n + K + 1)
       /\ (~ p.parsed.ok => p.next < n + K + 1) /\ p.parsed \in Outcomes
  BY <1>9 DEF Reached, Results
<1> HIDE DEF p
<1>11. used \subseteq n + 1 .. p.next /\ used \subseteq kept
  <2>1. used \subseteq n + 1 .. n + K
    BY <1>3
  <2> QED BY <1>4, <1>10, <2>1
<1>12. kept \ used \subseteq p.next + 1 .. Popped - 1
  <2> SUFFICES ASSUME NEW m \in kept, m \notin used PROVE m \in p.next + 1 .. Popped - 1
    OBVIOUS
  <2>1. m \in n + 1 .. Popped - 1 /\ m # n + K + 1
    BY <1>2, <1>3
  <2>2. CASE m <= n + K
    <3>1. m \in Follow(n)
      BY <1>3, <2>1, <2>2
    <3>2. ~ (m < p.next) /\ (p.parsed.ok \/ m # p.next)
      BY <3>1
    <3>3. ~ p.parsed.ok
      BY <1>10, <2>1, <2>2, <3>2
    <3> QED BY <1>10, <2>1, <3>2, <3>3
  <2>3. CASE m > n + K
    BY <1>1, <1>10, <2>1, <2>3
  <2> QED BY <1>2, <2>1, <2>2, <2>3
<1>13. ASSUME ~ gap
       PROVE  \E d \in Places, e \in 0 .. received + 1 :
                 /\ CutBetween(1, d, e, [rest |-> p.parsed.rest, cmds |-> given \o p.parsed.cmds])
                 /\ p.parsed.ok => e = At(p.next)
  <2>1. PICK c \in Places, end \in 0 .. received + 1 : ParsedUpToPacket(c, end)
    BY <1>1, <1>13 DEF ParsedInOrder, Places
  <2>2. /\ given = [i \in 1 .. c - 1 |-> Command(i)] /\ \A i \in 1 .. c - 1 : Lens[i] >= 0
        /\ StartOf[c] <= At(n) /\ mBuffer = Bytes(StartOf[c], At(n) - StartOf[c])
    BY <2>1 DEF ParsedUpToPacket
  <2>3. /\ \A k \in 0 .. Len(packets) : At(k) \in Nat /\ At(k) <= received + 1
        /\ received <= StreamLen /\ StreamLen \in Nat
        /\ \A k \in 0 .. Len(packets) - 1 :
              At(k) < At(k + 1) /\ Data(k) = Bytes(At(k), At(k + 1) - At(k))
    BY <1>13, AtFacts
  <2>4. ASSUME NEW k \in 0 .. K
        PROVE  /\ At(n + k) \in Nat /\ At(n + k + 1) \in Nat
               /\ At(n + k) <= At(n + k + 1) /\ At(n + k + 1) <= StreamLen + 1
               /\ Data(n + k) = Bytes(At(n + k), At(n + k + 1) - At(n + k))
    <3> DEFINE j == n + k
    <3>1. j \in 0 .. Len(packets) - 1 /\ j \in 0 .. Len(packets) /\ j + 1 \in 0 .. Len(packets)
          /\ n + k + 1 = j + 1
      BY <1>1, <1>8
    <3> HIDE DEF j
    <3>2. /\ At(j) \in Nat /\ At(j + 1) \in Nat
          /\ At(j) <= At(j + 1) /\ At(j + 1) <= StreamLen + 1
          /\ Data(j) = Bytes(At(j), At(j + 1) - At(j))
      BY <1>1, <2>3, <3>1
    <3> QED BY <3>1, <3>2 DEF j
  <2>5. ParsedUpTo(c, At(n + K + 1), p.parsed)
    BY <1>3, <1>7, <2>2, <2>4, ParsePacketsCut DEF p
  <2>6. PICK e \in 0 .. At(n + K + 1) : CutsAt(c, e, p.parsed) /\ (p.parsed.ok => e = At(n + K + 1))
    BY <2>5 DEF ParsedUpTo
  <2>7. PICK d \in Places : CutBetween(c, d, e, p.parsed)
    BY <2>6 DEF CutsAt
  <2>8. /\ c <= d /\ StartOf[d] <= e /\ p.parsed.rest = Bytes(StartOf[d], e - StartOf[d])
        /\ p.parsed.cmds = CommandsFrom(c, d) /\ \A i \in c .. d - 1 : Lens[i] >= 0
    BY <2>7 DEF CutBetween
  <2>9. e \in 0 .. received + 1
    <3>1. n + K + 1 \in 0 .. Len(packets)
      BY <1>1, <1>5, <1>6
    <3>2. At(n + K + 1) \in Nat /\ At(n + K + 1) <= received + 1
      BY <2>3, <3>1
    <3> QED BY <1>1, <3>2
  <2>10. given = CommandsFrom(1, c)
    <3>1. c \in Nat /\ \A i \in 1 .. c - 1 : 1 + i - 1 = i
      BY PlaceFacts
    <3> QED BY <2>2, <3>1 DEF CommandsFrom
  <2>11. c \in Nat /\ d \in Nat /\ 1 <= c /\ 1 \in Places /\ 1 <= d
    BY <2>8, PlaceFacts
  <2>12. given \o p.parsed.cmds = CommandsFrom(1, d)
    <3>1. c \in Places /\ d \in Places /\ 1 \in Places /\ 1 <= c /\ c <= d
      BY <2>8, <2>11
    <3>2. CommandsFrom(1, c) \o CommandsFrom(c, d) = CommandsFrom(1, d)
      BY <3>1, CommandsFromJoined, Zenon
    <3> QED BY <2>8, <2>10, <3>2
  <2>13. \A i \in 1 .. d - 1 : Lens[i] >= 0
    <3> SUFFICES ASSUME NEW i \in 1 .. d - 1 PROVE Lens[i] >= 0
      OBVIOUS
    <3>1. i \in 1 .. c - 1 \/ i \in c .. d - 1
      BY <2>11
    <3> QED BY <2>2, <2>8, <3>1
  <2> DEFINE o == [rest |-> p.parsed.rest, cmds |-> given \o p.parsed.cmds]
  <2>14. o.rest = p.parsed.rest /\ o.cmds = given \o p.parsed.cmds
    OBVIOUS
  <2> HIDE DEF o
  <2>15. CutBetween(1, d, e, o)
    BY <2>8, <2>11, <2>12, <2>13, <2>14 DEF CutBetween
  <2>16. p.parsed.ok => e = At(p.next)
    BY <1>10, <2>6
  <2> QED BY <2>9, <2>15, <2>16 DEF o
<1> QED BY <1>4, <1>5, <1>9, <1>11, <1>12, <1>13 DEF p

\* Parsing packet n and the kept ones that follow it.
LEMMA ParseInTurnInv ==
    ASSUME ClientInv, NEW h \in Handlers, NEW n \in Nat, Handled(h, n), ParseInTurn(n)
    PROVE  ClientInv'
<1> DEFINE p    == ParsePackets(n)
           used == {m \in Follow(n) : m < p.next \/ (~ p.parsed.ok /\ m = p.next)}
<1>1. /\ TypeOK /\ KeptLater /\ PoolSum /\ PacketsAdjoin /\ Popped \in Nat /\ expected \in Nat
      /\ IsFiniteSet(kept) /\ Cardinality(kept) \in Nat /\ Len(packets) \in Nat
      /\ Len(queue) \in Nat /\ received \in Nat
  BY InvFacts
<1>2. /\ n = expected /\ ~ mbError
      /\ mBuffer' = p.parsed.rest /\ given' = given \o p.parsed.cmds
      /\ expected' = p.next /\ kept' = kept \ used /\ idle' = idle + Cardinality(used)
      /\ mbError' = ~ p.parsed.ok /\ ending' = (ending \/ ~ p.parsed.ok)
      /\ garbled' \in {FALSE, p.parsed.overlap}
  BY DEF ParseInTurn, InTurn, Broken, Back
<1>3. UNCHANGED <<packets, received, queue, gap, nconn, lost>>
  BY DEF Handled
<1>4. /\ n \in expected .. Popped - 1 /\ n \notin kept
      /\ Popped' = Popped /\ QueueInOrder'
      /\ held' \in [Handlers -> Nat \cup {None}]
      /\ \A g \in Handlers : held'[g] # None =>
            /\ held'[g] \in expected .. Popped - 1 /\ held'[g] # n /\ held'[g] \notin kept
            /\ \A i \in Handlers : held'[i] = held'[g] => i = g
      /\ \A m \in expected .. Popped - 1 :
            m = n \/ m \in kept \/ \E g \in Handlers : held'[g] = m
  BY <1>2, HandledFacts
<1>5. PICK K \in Nat :
         /\ Reached(p, n, n + K + 1)
         /\ used \subseteq n + 1 .. p.next
         /\ used \subseteq kept
         /\ \A m \in n + 1 .. n + K : m \in kept
         /\ kept \ used \subseteq p.next + 1 .. Popped - 1
         /\ n + K + 1 <= Popped
         /\ ~ gap => \E d \in Places, e \in 0 .. received + 1 :
               /\ CutBetween(1, d, e, [rest |-> p.parsed.rest, cmds |-> given \o p.parsed.cmds])
               /\ p.parsed.ok => e = At(p.next)
  <2>1. n <= Popped - 1
    BY <1>1, <1>4
  <2> QED BY <1>2, <1>4, <2>1, InTurnFacts
<1> HIDE DEF p, used
<1>6. /\ p \in Results /\ Len(p.parsed.rest) <= BufferLen
      /\ p.parsed.rest \in Seq(1 .. StreamLen) /\ p.parsed.cmds \in Seq(Seq(1 .. StreamLen))
      /\ p.next \in n .. n + K + 1 /\ p.next \in Nat
      /\ (p.parsed.ok => p.next = n + K + 1) /\ (~ p.parsed.ok => p.next < n + K + 1)
      /\ (p.parsed.ok => p.parsed.rest \in Partial)
      /\ p.parsed.ok \in BOOLEAN /\ p.parsed.overlap \in BOOLEAN
  BY <1>5 DEF Reached, Results, Outcomes
<1>7. /\ IsFiniteSet(used) /\ Cardinality(used) \in Nat
      /\ Cardinality(kept') = Cardinality(kept) - Cardinality(used)
  <2>1. IsFiniteSet(used) /\ Cardinality(used) \in Nat
    BY <1>1, <1>5, FS_Subset, FS_CardinalityType
  <2>2. kept \cap used = used
    BY <1>5
  <2>3. Cardinality(kept \ used) = Cardinality(kept) - Cardinality(kept \cap used)
    BY <1>1, <2>1, FS_Difference
  <2> QED BY <1>2, <2>1, <2>2, <2>3
<1>8. PoolSum'
  <2>1. idle \in Nat /\ lost \in Nat /\ PoolSize \in Nat
    BY <1>1, ClientAssumption DEF TypeOK
  <2>2. idle + Cardinality(kept) + lost = PoolSize
    BY <1>1 DEF PoolSum
  <2>3. idle' + Cardinality(kept') + lost' = PoolSize
    BY <1>1, <1>2, <1>3, <1>7, <2>1, <2>2
  <2> QED BY <2>3 DEF PoolSum
<1>9. TypeOK'
  <2>1. idle' \in 0 .. PoolSize
    <3>1. idle \in Nat /\ lost \in Nat /\ PoolSize \in Nat
      BY <1>1, ClientAssumption DEF TypeOK
    <3>2. idle' + Cardinality(kept') + lost = PoolSize /\ idle' \in Nat
      BY <1>2, <1>3, <1>7, <1>8, <3>1 DEF PoolSum
    <3>3. Cardinality(kept') \in Nat
      BY <1>1, <1>2, <1>5, FS_Subset, FS_CardinalityType
    <3> QED BY <3>1, <3>2, <3>3
  <2>2. given' \in Seq(Seq(1 .. StreamLen))
    <3>1. given \in Seq(Seq(1 .. StreamLen))
      BY <1>1 DEF TypeOK
    <3> QED BY <1>2, <1>6, <3>1, ConcatProperties
  <2>3. mBuffer' \in Seq(1 .. StreamLen) /\ Len(mBuffer') <= BufferLen
    BY <1>2, <1>6
  <2>4. expected' \in 0 .. Len(packets)
    BY <1>1, <1>2, <1>5, <1>6 DEF Popped
  <2>5. kept' \subseteq 0 .. Len(packets) - 1
    BY <1>1, <1>2 DEF TypeOK
  <2>6. {ending', mbError', gap', garbled'} \subseteq BOOLEAN
    <3>1. ending \in BOOLEAN /\ gap \in BOOLEAN
      BY <1>1 DEF TypeOK
    <3>2. mbError' \in BOOLEAN /\ ending' \in BOOLEAN /\ gap' \in BOOLEAN
      BY <1>2, <1>3, <1>6, <3>1
    <3>3. garbled' \in BOOLEAN
      BY <1>2, <1>6
    <3> QED BY <3>2, <3>3
  <2>7. /\ packets' \in Seq(Seq(1 .. StreamLen)) /\ received' \in 0 .. StreamLen
        /\ queue' \in Seq(Nat) /\ lost' \in 0 .. PoolSize /\ nconn' \in 1 .. MaxConns
    BY <1>1, <1>3 DEF TypeOK
  <2> QED BY <1>3, <1>4, <2>1, <2>2, <2>3, <2>4, <2>5, <2>6, <2>7 DEF TypeOK
<1>10. ASSUME NEW m, m \in n + 1 .. Popped - 1, m \notin kept
       PROVE  m >= n + K + 1
  <2>1. m \notin n + 1 .. n + K
    BY <1>5, <1>10
  <2> QED BY <1>1, <1>10, <2>1
<1>11. HeldOnce'
  <2> SUFFICES ASSUME NEW g \in Handlers, held'[g] # None
               PROVE  /\ held'[g] \in expected' .. Popped' - 1 /\ held'[g] \notin kept'
                      /\ \A i \in Handlers : held'[i] = held'[g] => i = g
    BY DEF HeldOnce
  <2>1. /\ held'[g] \in expected .. Popped - 1 /\ held'[g] # n /\ held'[g] \notin kept
        /\ \A i \in Handlers : held'[i] = held'[g] => i = g
    BY <1>4
  <2>2. held'[g] \in n + 1 .. Popped - 1
    BY <1>1, <1>2, <2>1
  <2>3. held'[g] >= n + K + 1
    BY <1>10, <2>1, <2>2
  <2>4. held'[g] \in p.next .. Popped - 1
    BY <1>1, <1>6, <2>2, <2>3
  <2> QED BY <1>2, <1>4, <2>1, <2>4
<1>12. KeptLater'
  <2>1. expected' <= Popped'
    BY <1>1, <1>2, <1>4, <1>5, <1>6
  <2> QED BY <1>2, <1>4, <1>5, <2>1 DEF KeptLater
<1>13. NoneMissing'
  <2> SUFFICES ASSUME p.parsed.ok, NEW m \in p.next .. Popped - 1
               PROVE  m \in kept' \/ \E g \in Handlers : held'[g] = m
    BY <1>2, <1>4 DEF NoneMissing
  <2>1. m \in expected .. Popped - 1 /\ m # n /\ m >= p.next
    BY <1>1, <1>2, <1>6
  <2>2. m \in kept \/ \E g \in Handlers : held'[g] = m
    BY <1>4, <2>1
  <2>3. m \notin used
    BY <2>1, <1>6 DEF used
  <2> QED BY <1>2, <2>2, <2>3
<1>14. PacketsAdjoin'
  BY <1>1, <1>3 DEF PacketsAdjoin, At
<1>15. ParsedInOrder'
  <2> SUFFICES ASSUME ~ gap
               PROVE  \E d \in 1 .. Len(Lens) + 1, end \in 0 .. received + 1 :
                          ParsedUpToPacket(d, end)'
    BY <1>3 DEF ParsedInOrder
  <2> DEFINE o == [rest |-> p.parsed.rest, cmds |-> given \o p.parsed.cmds]
  <2>1. PICK d \in Places, e \in 0 .. received + 1 :
           CutBetween(1, d, e, o) /\ (p.parsed.ok => e = At(p.next))
    BY <1>5
  <2>2. o.rest = mBuffer' /\ o.cmds = given'
    BY <1>2
  <2> HIDE DEF o
  <2>3. /\ StartOf[d] <= e /\ mBuffer' = Bytes(StartOf[d], e - StartOf[d])
        /\ given' = CommandsFrom(1, d) /\ \A i \in 1 .. d - 1 : Lens[i] >= 0
    BY <2>1, <2>2 DEF CutBetween
  <2>4. given' = [i \in 1 .. d - 1 |-> Command(i)]
    <3>1. d \in Nat /\ \A i \in 1 .. d - 1 : 1 + i - 1 = i
      BY PlaceFacts
    <3> QED BY <2>3, <3>1 DEF CommandsFrom
  <2>5. \A k \in Nat : At(k)' = At(k)
    BY <1>3 DEF At
  <2>6. ~ mbError' => e = At(expected)'
    <3>1. ASSUME p.parsed.ok
          PROVE  At(expected)' = At(p.next)
      BY <1>2, <1>3, <1>6 DEF At
    <3> QED BY <1>2, <2>1, <3>1
  <2>7. ParsedUpToPacket(d, e)'
    BY <2>3, <2>4, <2>6 DEF ParsedUpToPacket
  <2>8. d \in 1 .. Len(Lens) + 1
    BY DEF Places
  <2> QED BY <2>7, <2>8
<1>16. BufferPartial'
  BY <1>2, <1>6 DEF BufferPartial
<1> QED BY <1>4, <1>8, <1>9, <1>11, <1>12, <1>13, <1>14, <1>15, <1>16 DEF ClientInv

\* A handler calls ParseData.
LEMMA ParseDataInv ==
    ASSUME ClientInv, NEW h \in Handlers, ParseData(h)
    PROVE  ClientInv'
<1>1. PICK n : n = held[h]
  OBVIOUS
<1>2. Handled(h, n)
  BY <1>1 DEF ParseData, Handled
<1>3. n \in Nat
  BY <1>2, HandledFacts
<1>4. ParseInTurn(n) \/ Keep(n) \/ Fail(n)
  BY <1>1 DEF ParseData
<1>5. CASE ParseInTurn(n)
  BY <1>2, <1>3, <1>5, ParseInTurnInv
<1>6. CASE Keep(n)
  <2>1. UNCHANGED garbled
    BY <1>6 DEF Keep
  <2> QED BY <1>2, <1>6, <2>1, KeepInv
<1>7. CASE Fail(n)
  BY <1>2, <1>7, FailInv
<1> QED BY <1>4, <1>5, <1>6, <1>7

\* The Client of the next connection starts with nothing; what the old one kept is lost.
LEMMA ReconnectInv ==
    ASSUME ClientInv, Reconnect
    PROVE  ClientInv'
<1>1. /\ TypeOK /\ PoolSum /\ IsFiniteSet(kept) /\ Cardinality(kept) \in Nat
  BY InvFacts
<1>2. /\ queue = <<>> /\ (\A h \in Handlers : held[h] = None) /\ nconn < MaxConns
      /\ packets' = <<>> /\ received' = 0 /\ ending' = FALSE
      /\ expected' = 0 /\ kept' = {} /\ mBuffer' = <<>> /\ mbError' = FALSE
      /\ given' = <<>> /\ gap' = FALSE
      /\ lost' = lost + Cardinality(kept)
      /\ nconn' = nconn + 1
      /\ UNCHANGED <<queue, held, idle, garbled>>
  BY DEF Reconnect, Drained
<1>3. /\ idle \in Nat /\ lost \in Nat /\ PoolSize \in Nat /\ MaxConns \in Nat
      /\ StreamLen \in Nat /\ BufferLen \in Nat
      /\ idle + Cardinality(kept) + lost = PoolSize /\ Cardinality(kept') = 0
  BY <1>1, <1>2, ClientAssumption, StreamEnd, FrameFacts, FS_EmptySet DEF TypeOK, PoolSum
<1>4. PoolSum' /\ lost' \in 0 .. PoolSize
  BY <1>1, <1>2, <1>3 DEF PoolSum
<1>5. TypeOK'
  <2>1. /\ packets' \in Seq(Seq(1 .. StreamLen)) /\ given' \in Seq(Seq(1 .. StreamLen))
        /\ mBuffer' \in Seq(1 .. StreamLen) /\ Len(packets') = 0 /\ Len(mBuffer') = 0
    BY <1>2
  <2>2. /\ queue' \in Seq(Nat) /\ held' \in [Handlers -> Nat \cup {None}]
        /\ {ending', mbError', gap', garbled'} \subseteq BOOLEAN /\ idle' \in 0 .. PoolSize
        /\ kept' \subseteq 0 .. Len(packets') - 1
    BY <1>1, <1>2 DEF TypeOK
  <2>3. /\ received' \in 0 .. StreamLen /\ expected' \in 0 .. Len(packets')
        /\ Len(mBuffer') <= BufferLen
    BY <1>2, <1>3, <2>1
  <2>4. nconn' \in 1 .. MaxConns
    <3>1. nconn \in 1 .. MaxConns
      BY <1>1 DEF TypeOK
    <3> QED BY <1>2, <1>3, <3>1
  <2> QED BY <1>4, <2>1, <2>2, <2>3, <2>4 DEF TypeOK
<1>6. Popped' = 0
  BY <1>2 DEF Popped
<1>7. QueueInOrder' /\ HeldOnce' /\ KeptLater' /\ NoneMissing'
  BY <1>2, <1>6 DEF QueueInOrder, HeldOnce, KeptLater, NoneMissing
<1>8. PacketsAdjoin'
  <2>1. Len(packets') = 0 /\ At(0)' = 1
    BY <1>2 DEF At
  <2> QED BY <1>2, <2>1 DEF PacketsAdjoin
<1>9. ParsedInOrder'
  <2>1. At(expected)' = 1 /\ 1 \in 0 .. received' + 1
    BY <1>2 DEF At
  <2>2. 1 \in 1 .. Len(Lens) + 1 /\ StartOf[1] = 1
    BY FrameFacts, StartOfEquation
  <2>3. [i \in 1 .. 1 - 1 |-> Command(i)] = <<>>
    OBVIOUS
  <2>4. Bytes(1, 1 - 1) = <<>>
    BY DEF Bytes
  <2>5. ParsedUpToPacket(1, 1)'
    BY <1>2, <2>1, <2>2, <2>3, <2>4 DEF ParsedUpToPacket
  <2> QED BY <2>1, <2>2, <2>5 DEF ParsedInOrder
<1>10. BufferPartial'
  BY <1>2, EmptyPartial DEF BufferPartial
<1> QED BY <1>4, <1>5, <1>7, <1>8, <1>9, <1>10 DEF ClientInv

\* Every step keeps the invariant.
LEMMA NextInv ==
    ASSUME ClientInv, [Next]_vars
    PROVE  ClientInv'
<1>1. CASE UNCHANGED vars
  <2>1. UNCHANGED <<packets, received, expected, mBuffer, mbError, given, gap>>
    BY <1>1 DEF vars, connection, client, ghosts
  <2>2. PacketsAdjoin' /\ ParsedInOrder' /\ BufferPartial'
    BY <2>1, SameParsed
  <2>3. TypeOK' /\ QueueInOrder' /\ HeldOnce' /\ KeptLater' /\ NoneMissing' /\ PoolSum'
    BY <1>1, InvFacts DEF TypeOK, QueueInOrder, HeldOnce, KeptLater, NoneMissing, PoolSum,
                          Popped, vars, connection, client, ghosts
  <2> QED BY <2>2, <2>3 DEF ClientInv
<1>2. ASSUME NEW n \in 1 .. MaxPacket, RecvPacket(n)
      PROVE  ClientInv'
  BY <1>2, RecvPacketInv
<1>3. ASSUME NEW n \in 1 .. MaxPacket, DropPacket(n)
      PROVE  ClientInv'
  BY <1>3, DropPacketInv
<1>4. CASE PeerClose
  BY <1>4, PeerCloseInv
<1>5. ASSUME NEW h \in Handlers, HandlePop(h)
      PROVE  ClientInv'
  BY <1>5, HandlePopInv
<1>6. ASSUME NEW h \in Handlers, ParseData(h)
      PROVE  ClientInv'
  BY <1>6, ParseDataInv
<1>7. CASE Reconnect
  BY <1>7, ReconnectInv
<1> QED BY <1>1, <1>2, <1>3, <1>4, <1>5, <1>6, <1>7 DEF Next

\* Every state of Client satisfies the invariant.
THEOREM Invariance == Spec => []ClientInv
<1>1. Init => ClientInv
  BY InitInv
<1>2. ClientInv /\ [Next]_vars => ClientInv'
  BY NextInv
<1> QED BY <1>1, <1>2, PTL DEF Spec

\* The variables keep their types: in particular mBuffer is never written past its end, and
\* the pool never holds more messages than it had.
THEOREM TypeCorrect == Spec => []TypeOK
<1>1. ClientInv => TypeOK
  BY DEF ClientInv
<1> QED BY <1>1, Invariance, PTL

-----------------------------------------------------------------------------
\* What was parsed, of a state with nothing dropped.
LEMMA ParsedFacts ==
    ASSUME ClientInv, ~ gap
    PROVE  \E d \in Places, end \in 0 .. received + 1 :
              /\ given \in Seq(Seq(Nat)) /\ Len(given) = d - 1 /\ DOMAIN given = 1 .. d - 1
              /\ \A i \in 1 .. d - 1 : given[i] = Command(i) /\ Lens[i] >= 0
              /\ StartOf[d] <= end /\ mBuffer = Bytes(StartOf[d], end - StartOf[d])
              /\ ~ mbError => end = At(expected)
<1>1. PICK d \in Places, end \in 0 .. received + 1 : ParsedUpToPacket(d, end)
  BY InvFacts DEF ParsedInOrder, Places
<1>2. /\ given = [i \in 1 .. d - 1 |-> Command(i)] /\ \A i \in 1 .. d - 1 : Lens[i] >= 0
      /\ StartOf[d] <= end /\ mBuffer = Bytes(StartOf[d], end - StartOf[d])
      /\ ~ mbError => end = At(expected)
  BY <1>1 DEF ParsedUpToPacket
<1>3. d \in Nat /\ 1 <= d /\ 1 \in Places /\ \A i \in 1 .. d - 1 : 1 + i - 1 = i
  BY PlaceFacts
<1>4. given = CommandsFrom(1, d)
  BY <1>2, <1>3 DEF CommandsFrom
<1>5. given \in Seq(Seq(Nat)) /\ Len(given) = d - 1
  BY <1>3, <1>4, CommandsFromFacts
<1>6. DOMAIN given = 1 .. d - 1 /\ \A i \in 1 .. d - 1 : given[i] = Command(i)
  BY <1>2
<1> QED BY <1>2, <1>5, <1>6

\* The commands given are the first ones of the stream, each once and whole.
THEOREM CommandsCorrect == Spec => []CommandsInOrder
<1>1. ASSUME ClientInv
      PROVE  CommandsInOrder
  <2> SUFFICES ASSUME ~ gap
               PROVE  /\ Len(given) <= Len(Lens)
                      /\ \A i \in DOMAIN given : given[i] = Command(i) /\ Lens[i] >= 0
    BY DEF CommandsInOrder
  <2>1. PICK d \in Places :
              /\ Len(given) = d - 1 /\ DOMAIN given = 1 .. d - 1
              /\ \A i \in 1 .. d - 1 : given[i] = Command(i) /\ Lens[i] >= 0
    BY <1>1, ParsedFacts
  <2>2. Len(given) <= Len(Lens)
    BY <2>1, FrameFacts DEF Places
  <2> QED BY <2>1, <2>2
<1> QED BY <1>1, Invariance, PTL

\* Every message of the pool is idle, kept or lost, and one that is still kept when the
\* handlers are through belongs to a Client that met an error.
THEOREM PoolCorrect == Spec => []PoolAccounted
<1>1. ASSUME ClientInv, Drained, kept # {}
      PROVE  mbError
  <2>1. /\ queue = <<>> /\ KeptLater /\ NoneMissing /\ expected \in Nat /\ Popped \in Nat
        /\ expected <= Popped /\ None \notin Int /\ \A h \in Handlers : held[h] = None
    BY <1>1, InvFacts DEF Drained
  <2>2. PICK m : m \in kept
    BY <1>1
  <2>3. kept \subseteq expected + 1 .. Popped - 1
    BY <2>1 DEF KeptLater
  <2>4. expected \in expected .. Popped - 1 /\ expected \notin kept
    BY <2>1, <2>2, <2>3
  <2>5. ~ \E h \in Handlers : held[h] = expected
    BY <2>1
  <2> QED BY <2>1, <2>4, <2>5 DEF NoneMissing
<1>2. ASSUME ClientInv
      PROVE  PoolAccounted
  BY <1>1, <1>2, InvFacts DEF PoolAccounted, PoolSum
<1> QED BY <1>2, Invariance, PTL

\* A part of a command is shorter than the command.
LEMMA PartialShorter ==
    ASSUME NEW d \in Commands, NEW n \in Nat, Bytes(StartOf[d], n) \in Partial
    PROVE  n < Size(d)
<1> DEFINE buf == Bytes(StartOf[d], n)
<1>1. /\ HeaderLen \in Nat /\ BufferLen \in Nat /\ Size(d) \in Nat /\ Size(d) >= HeaderLen
      /\ Lens[d] \in Int
  BY FrameFacts
<1>2. Len(buf) = n
  BY StartOfStep, BytesFacts
<1>3. CASE n < HeaderLen
  BY <1>1, <1>3
<1>4. CASE n >= HeaderLen
  <2>1. AnnouncedLen(buf) = Lens[d]
    BY <1>4, AnnouncedHere
  <2>2. ~ Refused(buf) /\ ~ Whole(buf)
    BY DEF Partial
  <2> HIDE DEF buf
  <2>3. Lens[d] >= 0
    BY <1>1, <1>2, <1>4, <2>1, <2>2 DEF Refused
  <2>4. n < HeaderLen + Lens[d]
    BY <1>1, <1>2, <1>4, <2>1, <2>2 DEF Whole, FrontSize
  <2> QED BY <1>1, <2>3, <2>4 DEF Size
<1> QED BY <1>1, <1>3, <1>4

\* When the handlers are through and there was no error, nothing is kept back: not a packet
\* and, with no bytes dropped, not a command.
THEOREM NothingIsStranded == Spec => []NothingStranded
<1>1. ASSUME ClientInv, Drained, ~ mbError
      PROVE  kept = {} /\ expected = Len(packets)
  <2>1. /\ queue = <<>> /\ KeptLater /\ NoneMissing /\ expected \in Nat /\ Popped \in Nat
        /\ expected <= Popped /\ None \notin Int /\ (\A h \in Handlers : held[h] = None)
        /\ Len(packets) \in Nat
    BY <1>1, InvFacts DEF Drained
  <2>2. Popped = Len(packets)
    BY <2>1 DEF Popped
  <2>3. kept \subseteq expected + 1 .. Popped - 1
    BY <2>1 DEF KeptLater
  <2>4. expected \notin kept
    BY <2>1, <2>3
  <2>5. ~ \E h \in Handlers : held[h] = expected
    BY <2>1
  <2>6. expected \notin expected .. Popped - 1
    BY <1>1, <2>1, <2>4, <2>5 DEF NoneMissing
  <2>7. expected = Popped
    BY <2>1, <2>6
  <2> QED BY <2>1, <2>2, <2>3, <2>7
<1>2. ASSUME ClientInv, Drained, ~ mbError, ~ gap
      PROVE  /\ Len(given) = Cardinality({c \in Commands : Complete(c)})
             /\ mBuffer = Bytes(StartOf[Len(given) + 1], received + 1 - StartOf[Len(given) + 1])
  <2>1. PICK d \in Places, end \in 0 .. received + 1 :
              /\ Len(given) = d - 1
              /\ StartOf[d] <= end /\ mBuffer = Bytes(StartOf[d], end - StartOf[d])
              /\ ~ mbError => end = At(expected)
    BY <1>2, ParsedFacts
  <2>2. d \in Nat /\ 1 <= d /\ (d - 1) + 1 = d /\ received \in Nat /\ StartOf[d] \in Nat
        /\ Len(packets) \in Nat
    BY <1>2, PlaceFacts, InvFacts, StartOfEquation
  <2>3. end = received + 1
    <3>1. expected = Len(packets)
      BY <1>1, <1>2
    <3> QED BY <1>2, <2>1, <2>2, <3>1 DEF At
  <2>4. mBuffer = Bytes(StartOf[d], (received + 1) - StartOf[d]) /\ mBuffer \in Partial
    BY <1>2, <2>1, <2>3, InvFacts DEF BufferPartial
  <2>5. \A c \in 1 .. d - 1 : c \in Commands /\ Complete(c)
    <3> SUFFICES ASSUME NEW c \in 1 .. d - 1 PROVE c \in Commands /\ Complete(c)
      OBVIOUS
    <3>1. c \in Commands /\ c \in Places /\ c < d
      BY <2>2, FrameFacts DEF Places
    <3>2. StartOf[c + 1] <= StartOf[d] /\ StartOf[c + 1] \in Nat
      BY <3>1, StartOfGrows, StartOfStep
    <3> QED BY <2>1, <2>2, <2>3, <3>1, <3>2 DEF Complete
  <2>6. ASSUME NEW c \in Commands, c \notin 1 .. d - 1
        PROVE  ~ Complete(c)
    <3>1. c \in Nat /\ c >= d /\ c \in Places /\ d \in Commands
      BY <2>2, <2>6, FrameFacts DEF Places
    <3>2. (received + 1) - StartOf[d] \in Nat
      BY <2>1, <2>2, <2>3
    <3>3. (received + 1) - StartOf[d] < Size(d)
      BY <2>4, <3>1, <3>2, PartialShorter
    <3>4. StartOf[d + 1] = StartOf[d] + Size(d) /\ Size(d) \in Nat /\ StartOf[d + 1] \in Nat
      BY <3>1, StartOfStep
    <3>5. StartOf[d + 1] <= StartOf[c + 1] /\ StartOf[c + 1] \in Nat
      <4>1. CASE c = d
        BY <3>4, <4>1
      <4>2. CASE c # d
        <5>1. StartOf[d + 1] <= StartOf[c]
          BY <2>2, <3>1, <4>2, StartOfGrows
        <5>2. StartOf[c] <= StartOf[c + 1] /\ StartOf[c] \in Nat /\ StartOf[c + 1] \in Nat
          BY StartOfStep
        <5> QED BY <3>4, <5>1, <5>2
      <4> QED BY <4>1, <4>2
    <3> QED BY <2>2, <3>2, <3>3, <3>4, <3>5 DEF Complete
  <2>7. {c \in Commands : Complete(c)} = 1 .. d - 1
    BY <2>5, <2>6
  <2>8. Cardinality(1 .. d - 1) = d - 1
    <3>1. Cardinality(1 .. (d - 1)) = IF 1 > d - 1 THEN 0 ELSE (d - 1) - 1 + 1
      BY <2>2, FS_Interval
    <3> QED BY <2>2, <3>1
  <2>9. received + 1 - StartOf[d] = (received + 1) - StartOf[d]
    BY <2>2
  <2> QED BY <2>1, <2>2, <2>4, <2>7, <2>8, <2>9
<1>3. ClientInv => NothingStranded
  BY <1>1, <1>2 DEF NothingStranded
<1> QED BY <1>3, Invariance, PTL
=============================================================================
