---------------------------- MODULE LogFileProofs ----------------------------
(***************************************************************************)
(* LogFile loses only what is in a file that is opened anew, and until a   *)
(* race is entered writes every message once and in order, for any number  *)
(* of loggers and any sizes of the buffer and of files.                    *)
(***************************************************************************)
EXTENDS LogFile, Induction, SequenceTheorems, TLAPS

(***************************************************************************)
(* The inductive invariant: who holds which mutex, what that says of the   *)
(* buffer and of the file, and that a thread about to empty the buffer has *)
(* written what is in it.                                                  *)
(***************************************************************************)
InMem2File(t) == pc[t] \in {"test", "write", "reset"}

HoldsFile(t)   == t \in Loggers /\ pc[t] \notin {"idle", "lock"}
HoldsBuffer(t) == \/ t = Flusher /\ pc[t] # "idle"
                  \/ t \in Loggers /\ (pc[t] = "add" \/ (InMem2File(t) /\ back[t] = "add"))

ControlInv ==
    /\ pc[Flusher] \in {"idle", "test", "write", "reset", "unlock"}
    /\ InMem2File(Flusher) => back[Flusher] = "unlock"
    /\ \A t \in Loggers : /\ pc[t] # "unlock"
                          /\ InMem2File(t) => back[t] \in {"add", "close"}
                          /\ pc[t] # "idle" => msg[t] \in Messages

LockInv == \A t \in Threads : /\ HoldsFile(t) <=> m_hMutex = t
                              /\ HoldsBuffer(t) <=> m_hMutexBuffer = t

\* No file is open only while a logger replaces it.
FileInv == m_pLogFile = 0 => \E t \in Loggers : pc[t] = "open"

\* There is room for a message that is added.
RoomInv ==
    \A t \in Loggers :
        /\ pc[t] = "buffer" \/ (InMem2File(t) /\ back[t] = "add") => g_iMemSize > 0
        /\ pc[t] = "add" => m_nBufferUse < g_iMemSize

Held(m) == \E i \in 1 .. m_nBufferUse : m_pBuffer[i] = m

ResetInv ==
    Defined => \A t \in Threads : pc[t] = "reset" => \A m \in Messages : Held(m) => Reached(m)

KeptInv ==
    Defined => \A m \in Messages : Contains(accepted, m) => Reached(m) \/ Held(m)

IInv == TypeOK /\ ControlInv /\ LockInv /\ FileInv /\ RoomInv /\ ResetInv /\ KeptInv

(***************************************************************************)
(* What a write adds to the file that is open, and that nothing is undone. *)
(***************************************************************************)
LEMMA WriteFacts ==
    ASSUME files \in Seq(Seq(Messages)), m_pLogFile \in 1 .. Len(files),
           NEW ms \in Seq(Messages), Write(ms)
    PROVE  /\ files' \in Seq(Seq(Messages)) /\ Len(files') = Len(files)
           /\ \A m : Written(m) => Written(m)'
           /\ \A j \in 1 .. Len(ms) : Written(ms[j])'
<1> DEFINE old == files[m_pLogFile]
           new == old \o ms
<1>1. old \in Seq(Messages)
  OBVIOUS
<1>2. /\ new \in Seq(Messages)
      /\ Len(new) = Len(old) + Len(ms)
      /\ \A i \in 1 .. Len(new) : new[i] = IF i <= Len(old) THEN old[i] ELSE ms[i - Len(old)]
  BY <1>1, ConcatProperties
<1> HIDE DEF new
<1>3. files' = [files EXCEPT ![m_pLogFile] = new]
  BY DEF Write, new
<1>4. files' \in Seq(Seq(Messages)) /\ Len(files') = Len(files)
  BY <1>2, <1>3
<1>5. /\ files'[m_pLogFile] = new
      /\ \A i \in 1 .. Len(files) : i # m_pLogFile => files'[i] = files[i]
  BY <1>3
<1>6. Len(old) \in Nat /\ Len(ms) \in Nat
  BY <1>1
<1> HIDE DEF old
<1>7. \A j \in 1 .. Len(ms) : Len(old) + j \in 1 .. Len(new) /\ new[Len(old) + j] = ms[j]
  <2> TAKE j \in 1 .. Len(ms)
  <2>1. /\ Len(old) + j \in 1 .. Len(new) /\ ~ (Len(old) + j <= Len(old))
        /\ Len(old) + j - Len(old) = j
    BY <1>2, <1>6
  <2> QED BY <1>2, <2>1
<1>8. \A i \in 1 .. Len(old) : i \in 1 .. Len(new) /\ new[i] = old[i]
  BY <1>2, <1>6
<1>9. \A m : Contains(old, m) => Contains(new, m)
  BY <1>8 DEF Contains
<1>d. DOMAIN files = 1 .. Len(files) /\ DOMAIN files' = 1 .. Len(files)
  BY <1>4
<1>10. ASSUME NEW m, Written(m)
       PROVE  Written(m)'
  <2>1. PICK i \in DOMAIN files : Contains(files[i], m)
    BY <1>10 DEF Written
  <2>2. Contains(files'[i], m)
    BY <1>5, <1>9, <1>d, <2>1 DEF old
  <2> QED BY <1>d, <2>1, <2>2 DEF Written
<1>11. \A j \in 1 .. Len(ms) : Contains(new, ms[j])
  BY <1>7 DEF Contains
<1>12. \A j \in 1 .. Len(ms) : Written(ms[j])'
  BY <1>d, <1>5, <1>11 DEF Written
<1> QED BY <1>4, <1>10, <1>12

\* Of the sequences in s one is emptied, and an empty one added.
Reopens(t, s, f) ==
    /\ Len(t) = Len(s) + 1
    /\ \A g \in 1 .. Len(s) : g # f => t[g] = s[g]
    /\ Len(t[f]) = 0 /\ Len(t[Len(s) + 1]) = 0

\* What an empty sequence adds.
LEMMA Opened ==
    ASSUME NEW M, NEW s \in Seq(Seq(M))
    PROVE  \E t \in Seq(Seq(M)) :
              /\ t = Append(s, <<>>) /\ Len(t) = Len(s) + 1
              /\ \A g \in 1 .. Len(s) : t[g] = s[g]
              /\ Len(t[Len(s) + 1]) = 0
<1>1. <<>> \in Seq(M) /\ Len(<<>>) = 0
  OBVIOUS
<1>2. PICK none \in Seq(M) : none = <<>>
  BY <1>1
<1>3. /\ Append(s, none) \in Seq(Seq(M)) /\ Len(Append(s, none)) = Len(s) + 1
      /\ \A g \in 1 .. Len(s) : Append(s, none)[g] = s[g]
      /\ Append(s, none)[Len(s) + 1] = none
  BY AppendProperties
<1> QED BY <1>1, <1>2, <1>3, Zenon

\* An earlier file is opened anew.
LEMMA Reopened ==
    ASSUME NEW M, NEW s \in Seq(Seq(M)), NEW f \in 1 .. Len(s)
    PROVE  \E t \in Seq(Seq(M)) :
              /\ t = Append([s EXCEPT ![f] = <<>>], <<>>) /\ Reopens(t, s, f)
<1>1. <<>> \in Seq(M) /\ Len(<<>>) = 0
  OBVIOUS
<1>2. PICK none \in Seq(M) : none = <<>>
  BY <1>1
<1>a. Len(none) = 0
  BY <1>1, <1>2
<1> DEFINE r == [s EXCEPT ![f] = none]
<1>3. /\ r \in Seq(Seq(M)) /\ Len(r) = Len(s) /\ r[f] = none
      /\ \A g \in 1 .. Len(s) : g # f => r[g] = s[g]
  OBVIOUS
<1> HIDE DEF r
<1>4. PICK t \in Seq(Seq(M)) :
              /\ t = Append(r, <<>>) /\ Len(t) = Len(r) + 1
              /\ \A g \in 1 .. Len(r) : t[g] = r[g]
              /\ Len(t[Len(r) + 1]) = 0
  BY <1>3, Opened, Zenon
<1>5. t = Append([s EXCEPT ![f] = <<>>], <<>>)
  BY <1>2, <1>4 DEF r
<1>6. Reopens(t, s, f)
  BY <1>a, <1>3, <1>4, Zenon DEF Reopens
<1> QED BY <1>4, <1>5, <1>6

\* What the sequences hold then is where it was.
LEMMA ReopenedOnly ==
    ASSUME NEW M, NEW s \in Seq(Seq(M)), NEW f \in 1 .. Len(s), NEW t \in Seq(Seq(M)),
           Reopens(t, s, f), NEW g \in 1 .. Len(t), NEW i \in 1 .. Len(t[g])
    PROVE  g \in 1 .. Len(s) /\ t[g] = s[g]
<1>1. Len(t[g]) # 0
  OBVIOUS
<1>2. g # f /\ g # Len(s) + 1
  BY <1>1, Zenon DEF Reopens
<1>3. Len(s) \in Nat /\ Len(t) = Len(s) + 1
  BY DEF Reopens
<1>4. g \in 1 .. Len(s)
  <2>1. \A n \in Nat : \A h \in 1 .. n + 1 : h # n + 1 => h \in 1 .. n
    OBVIOUS
  <2>2. g \in 1 .. Len(s) + 1
    BY <1>3, Zenon
  <2> QED BY <1>2, <1>3, <2>1, <2>2, Zenon
<1> QED BY <1>2, <1>4, Zenon DEF Reopens
\* What another file adds, and that a message of one that is opened anew is wiped.
LEMMA OpenFacts ==
    ASSUME files \in Seq(Seq(Messages)), wiped \subseteq Messages,
           OpenNew \/ \E f \in DOMAIN files : OpenAnew(f)
    PROVE  /\ files' \in Seq(Seq(Messages)) /\ Len(files') = Len(files) + 1
           /\ wiped' \subseteq Messages
           /\ \A m : Reached(m) => Reached(m)'
           /\ \A g \in 1 .. Len(files') : \A i \in 1 .. Len(files'[g]) :
                 g \in 1 .. Len(files) /\ files'[g] = files[g]
<1> DEFINE Rest(t) == \A g \in 1 .. Len(t) : \A i \in 1 .. Len(t[g]) :
                         g \in 1 .. Len(files) /\ t[g] = files[g]
           Goal == /\ files' \in Seq(Seq(Messages)) /\ Len(files') = Len(files) + 1
                   /\ wiped' \subseteq Messages /\ (\A m : Reached(m) => Reached(m)')
                   /\ Rest(files')
<1>d. DOMAIN files = 1 .. Len(files)
  OBVIOUS
<1>n. \A n \in Nat : \A g \in 1 .. n + 1 : g # n + 1 => g \in 1 .. n
  OBVIOUS
<1>1. ASSUME OpenNew
      PROVE  Goal
  <2>1. files' = Append(files, <<>>) /\ wiped' = wiped
    BY <1>1 DEF OpenNew
  <2>2. PICK t \in Seq(Seq(Messages)) :
           /\ t = files' /\ Len(t) = Len(files) + 1
           /\ \A g \in 1 .. Len(files) : t[g] = files[g]
           /\ Len(t[Len(files) + 1]) = 0
    BY <2>1, Opened, Zenon
  <2>3. DOMAIN t = 1 .. Len(files) + 1 /\ Len(files) \in Nat
    BY <2>2
  <2>4. \A m : Written(m) => Written(m)'
    <3>1. \A g \in 1 .. Len(files) : g \in DOMAIN t /\ t[g] = files[g]
      BY <2>2, <2>3
    <3> QED BY <1>d, <2>2, <3>1, Zenon DEF Written
  <2>5. ASSUME NEW g \in 1 .. Len(t), NEW i \in 1 .. Len(t[g])
        PROVE  g \in 1 .. Len(files) /\ t[g] = files[g]
    <3>1. g # Len(files) + 1
      BY <2>2, <2>5
    <3>2. g \in 1 .. Len(files) + 1
      BY <2>2, Zenon
    <3>3. g \in 1 .. Len(files)
      BY <1>n, <2>3, <3>1, <3>2, Zenon
    <3> QED BY <2>2, <3>3, Zenon
  <2> QED BY <2>1, <2>2, <2>4, <2>5 DEF Reached
<1>2. ASSUME NEW f \in DOMAIN files, OpenAnew(f)
      PROVE  Goal
  <2>1. files' = Append([files EXCEPT ![f] = <<>>], <<>>) /\ wiped' = wiped \cup Range(files[f])
    BY <1>2 DEF OpenAnew
  <2>2. PICK t \in Seq(Seq(Messages)) : t = files' /\ Reopens(t, files, f)
    <3>1. f \in 1 .. Len(files)
      OBVIOUS
    <3> QED BY <2>1, <3>1, Reopened, Zenon
  <2>3. DOMAIN t = 1 .. Len(files) + 1 /\ Len(files) \in Nat /\ Len(t) = Len(files) + 1
    BY <2>2 DEF Reopens
  <2>4. files[f] \in Seq(Messages) /\ Range(files[f]) \subseteq Messages
    BY DEF Range
  <2>5. ASSUME NEW m, Written(m)
        PROVE  Reached(m)'
    <3>1. PICK g \in DOMAIN files : Contains(files[g], m)
      BY <2>5 DEF Written
    <3>2. CASE g = f
      <4>1. m \in Range(files[f])
        BY <2>4, <3>1, <3>2 DEF Contains, Range
      <4> QED BY <2>1, <4>1 DEF Reached
    <3>3. CASE g # f
      <4>1. t[g] = files[g]
        BY <1>d, <2>2, <3>3, Zenon DEF Reopens
      <4>2. g \in DOMAIN t
        BY <1>d, <2>3
      <4> QED BY <2>2, <3>1, <4>1, <4>2, Zenon DEF Reached, Written
    <3> QED BY <3>2, <3>3
  <2>6. \A m : Reached(m) => Reached(m)'
    BY <2>1, <2>5 DEF Reached
  <2>7. Rest(t)
    <3>1. f \in 1 .. Len(files)
      OBVIOUS
    <3> QED BY <2>2, <3>1, ReopenedOnly
  <2> QED BY <2>1, <2>2, <2>3, <2>4, <2>6, <2>7
<1> QED BY <1>1, <1>2

\* What is in use of the buffer.
LEMMA InUseFacts ==
    ASSUME m_pBuffer \in Seq(Messages), m_nBufferUse \in Nat, m_nBufferUse <= Len(m_pBuffer)
    PROVE  /\ InUse \in Seq(Messages) /\ Len(InUse) = m_nBufferUse
           /\ \A i \in 1 .. m_nBufferUse : InUse[i] = m_pBuffer[i]
           /\ \A m : Contains(InUse, m) <=> Held(m)
<1>1. /\ InUse \in Seq(Messages) /\ Len(InUse) = m_nBufferUse
      /\ \A i \in 1 .. m_nBufferUse : InUse[i] = m_pBuffer[i]
  BY SubSeqProperties DEF InUse
<1> QED BY <1>1 DEF Contains, Held

\* What the buffer is once a message is added.
LEMMA FillFacts ==
    ASSUME m_pBuffer \in Seq(Messages), m_nBufferUse \in Nat, m_nBufferUse <= Len(m_pBuffer),
           NEW m \in Messages
    PROVE  \E b \in Seq(Messages) :
              /\ b = Append(InUse, m) \o SubSeq(m_pBuffer, m_nBufferUse + 2, Len(m_pBuffer))
              /\ Len(b) \in {m_nBufferUse + 1, Len(m_pBuffer)} /\ m_nBufferUse + 1 <= Len(b)
              /\ \A i \in 1 .. m_nBufferUse : b[i] = m_pBuffer[i]
              /\ b[m_nBufferUse + 1] = m
<1> DEFINE first == Append(InUse, m)
           rest  == SubSeq(m_pBuffer, m_nBufferUse + 2, Len(m_pBuffer))
           b     == first \o rest
<1>1. /\ first \in Seq(Messages) /\ Len(first) = m_nBufferUse + 1
      /\ first[m_nBufferUse + 1] = m /\ \A i \in 1 .. m_nBufferUse : first[i] = m_pBuffer[i]
  BY InUseFacts, AppendProperties
<1>2. /\ rest \in Seq(Messages)
      /\ Len(rest) = IF m_nBufferUse + 2 <= Len(m_pBuffer)
                     THEN Len(m_pBuffer) - m_nBufferUse - 1 ELSE 0
  BY SubSeqProperties
<1> SUFFICES /\ b \in Seq(Messages)
             /\ Len(b) \in {m_nBufferUse + 1, Len(m_pBuffer)} /\ m_nBufferUse + 1 <= Len(b)
             /\ \A i \in 1 .. m_nBufferUse : b[i] = m_pBuffer[i]
             /\ b[m_nBufferUse + 1] = m
  OBVIOUS
<1> HIDE DEF first, rest
<1>3. /\ b \in Seq(Messages) /\ Len(b) = Len(first) + Len(rest)
      /\ \A i \in 1 .. Len(first) + Len(rest) :
            b[i] = IF i <= Len(first) THEN first[i] ELSE rest[i - Len(first)]
  BY <1>1, <1>2, ConcatProperties
<1> HIDE DEF b
<1>4. Len(m_pBuffer) \in Nat /\ Len(first) \in Nat /\ Len(rest) \in Nat
  BY <1>1, <1>2
<1>5. \A i \in 1 .. Len(first) : b[i] = first[i]
  BY <1>3, <1>4
<1>6. Len(b) \in {m_nBufferUse + 1, Len(m_pBuffer)} /\ m_nBufferUse + 1 <= Len(b)
  <2>1. CASE m_nBufferUse + 2 <= Len(m_pBuffer)
    BY <1>1, <1>2, <1>3, <1>4, <2>1
  <2>2. CASE ~ (m_nBufferUse + 2 <= Len(m_pBuffer))
    BY <1>1, <1>2, <1>3, <1>4, <2>2
  <2> QED BY <2>1, <2>2
<1> QED BY <1>1, <1>3, <1>5, <1>6

\* What a message does to the buffer it is added to.
LEMMA AddFacts ==
    ASSUME m_nBufferUse \in Nat, NEW m, m_nBufferUse' = m_nBufferUse + 1,
           \A i \in 1 .. m_nBufferUse : m_pBuffer'[i] = m_pBuffer[i],
           m_pBuffer'[m_nBufferUse + 1] = m
    PROVE  /\ \A n : Held(n) => Held(n)'
           /\ \A n : Held(n)' => Held(n) \/ n = m
           /\ Held(m)'
<1>1. \A i : i \in 1 .. m_nBufferUse + 1 <=> i \in 1 .. m_nBufferUse \/ i = m_nBufferUse + 1
  OBVIOUS
<1> QED BY <1>1 DEF Held

(***************************************************************************)
(* Init, and what the steps keep, conjunct by conjunct.                    *)
(***************************************************************************)
PlaceType == /\ pc \in [Threads -> {"idle", "lock", "direct", "buffer", "test", "write", "reset",
                                    "add", "size", "close", "open", "unlock"}]
             /\ back \in [Threads -> {"add", "close", "unlock"}]
BufferType == /\ g_iMemSize \in MemSizes /\ g_iMemSize \in Nat
              /\ m_pBuffer \in Seq(Messages) /\ m_nBufferUse \in 0 .. g_iMemSize
              /\ Len(m_pBuffer) \in m_nBufferUse .. g_iMemSize
FileType == /\ files \in Seq(Seq(Messages)) /\ m_pLogFile \in {0, Len(files)}
            /\ m_nFileLen \in Int /\ wiped \subseteq Messages
LockType == m_hMutex \in Loggers \cup {Nobody} /\ m_hMutexBuffer \in Threads \cup {Nobody}
LoggedType == /\ msg \in [Threads -> 0 .. MaxMessages] /\ nlogged \in 0 .. MaxMessages
              /\ accepted \in Seq(Messages)
RacesType == races \subseteq {"writtenTwice", "fileClosed", "noFile"}

\* The types, variable by variable.
LEMMA TypeOfParts ==
    /\ TypeOK <=> /\ PlaceType /\ BufferType /\ FileType /\ LockType /\ LoggedType /\ RacesType
    /\ TypeOK' <=> /\ PlaceType' /\ BufferType' /\ FileType' /\ LockType' /\ LoggedType'
                   /\ RacesType'
BY LogFileAssumption
   DEF TypeOK, PlaceType, BufferType, FileType, LockType, LoggedType, RacesType

\* The flush thread is none of the loggers.
LEMMA ThreadFacts ==
    /\ Flusher \in Threads /\ Flusher \notin Loggers /\ Loggers \subseteq Threads
    /\ Nobody \notin Threads /\ Threads = Loggers \cup {Flusher}
BY LogFileAssumption DEF Threads

\* Nothing is logged yet and no mutex is held.
LEMMA LogInit == Init => IInv
<1> SUFFICES ASSUME Init PROVE IInv
  OBVIOUS
<1> USE LogFileAssumption, ThreadFacts DEF Init
<1>1. files \in Seq(Seq(Messages)) /\ Len(files) = 1
  OBVIOUS
<1>2. TypeOK
  BY <1>1 DEF TypeOK
<1>3. ControlInv /\ LockInv /\ FileInv /\ RoomInv
  BY DEF ControlInv, InMem2File, LockInv, HoldsFile, HoldsBuffer, FileInv, RoomInv
<1>4. ResetInv /\ KeptInv
  BY DEF ResetInv, KeptInv, Contains
<1> QED BY <1>2, <1>3, <1>4 DEF IInv

\* Where each thread is, and what it has in hand there.
LEMMA PlaceStep ==
    ASSUME IInv, [Next]_vars
    PROVE  PlaceType' /\ ControlInv'
<1>a. PlaceType /\ ControlInv /\ LoggedType
  BY TypeOfParts DEF IInv
<1> USE <1>a, ThreadFacts
        DEF PlaceType, LoggedType, ControlInv, InMem2File, buffer, file, locks, logged, At, Goto
<1>1. ASSUME NEW t \in Loggers, LogMsg(t)
      PROVE  PlaceType' /\ ControlInv'
  <2>1. /\ pc' = [pc EXCEPT ![t] = "lock"] /\ back' = back
        /\ msg' = [msg EXCEPT ![t] = nlogged + 1] /\ nlogged < MaxMessages
    BY <1>1 DEF LogMsg
  <2>2. nlogged + 1 \in Messages
    BY <2>1, LogFileAssumption DEF Messages
  <2> QED BY <2>1, <2>2
<1>2. ASSUME NEW t \in Loggers, LockFile(t)
      PROVE  PlaceType' /\ ControlInv'
  BY <1>2 DEF LockFile, Messages
<1>3. ASSUME NEW t \in Loggers, WriteDirect(t)
      PROVE  PlaceType' /\ ControlInv'
  BY <1>3 DEF WriteDirect, Take, Messages
<1>4. ASSUME NEW t \in Loggers, LockBuffer(t)
      PROVE  PlaceType' /\ ControlInv'
  BY <1>4 DEF LockBuffer, CallMem2File, Full, Messages
<1>5. ASSUME NEW t \in Loggers, AddToBuffer(t)
      PROVE  PlaceType' /\ ControlInv'
  BY <1>5 DEF AddToBuffer, Take, UnlockBuffer, Messages
<1>6. ASSUME NEW t \in Loggers, RollOver(t)
      PROVE  PlaceType' /\ ControlInv'
  BY <1>6 DEF RollOver, CallMem2File, Messages
<1>7. ASSUME NEW t \in Loggers, LogMsgEnds(t)
      PROVE  PlaceType' /\ ControlInv'
  BY <1>7 DEF LogMsgEnds, Messages
<1>8. ASSUME NEW t \in Loggers, CloseLog(t)
      PROVE  PlaceType' /\ ControlInv'
  BY <1>8 DEF CloseLog, Messages
<1>9. ASSUME NEW t \in Loggers, CreateLog(t)
      PROVE  PlaceType' /\ ControlInv'
  BY <1>9 DEF CreateLog, Messages
<1>10. ASSUME NEW t \in Threads, Mem2File(t)
      PROVE  PlaceType' /\ ControlInv'
  BY <1>10 DEF Mem2File, Messages
<1>11. ASSUME NEW t \in Threads, Mem2FileWrite(t)
      PROVE  PlaceType' /\ ControlInv'
  BY <1>11 DEF Mem2FileWrite, Messages
<1>12. ASSUME NEW t \in Threads, Mem2FileReset(t)
      PROVE  PlaceType' /\ ControlInv'
  BY <1>12 DEF Mem2FileReset, ResetUse, Messages
<1>13. CASE FlushMem2File
  BY <1>13 DEF FlushMem2File, CallMem2File, Messages
<1>14. CASE FlushEnds
  BY <1>14 DEF FlushEnds, Messages
<1>15. CASE UNCHANGED vars
  BY <1>15 DEF vars, Messages
<1>16. ASSUME NEW t \in Loggers, CreateLogFails(t)
       PROVE  PlaceType' /\ ControlInv'
  BY <1>16 DEF CreateLogFails, Messages
<1> QED BY <1>1, <1>2, <1>3, <1>4, <1>5, <1>6, <1>7, <1>8, <1>9, <1>10, <1>11, <1>12, <1>13,
      <1>14, <1>15, <1>16 DEF Next, Proceed, WriteBuffer

\* Each mutex is held by the thread that says so.
LEMMA LocksStep ==
    ASSUME IInv, [Next]_vars
    PROVE  LockInv' /\ LockType'
<1>a. PlaceType /\ ControlInv /\ LockType /\ LockInv
  BY TypeOfParts DEF IInv
<1> USE <1>a, ThreadFacts
        DEF PlaceType, ControlInv, LockType, InMem2File, LockInv, HoldsFile, HoldsBuffer,
            buffer, file, locks, logged, At, Goto
<1>1. ASSUME NEW t \in Loggers, LogMsg(t)
      PROVE  LockInv' /\ LockType'
  BY <1>1 DEF LogMsg
<1>2. ASSUME NEW t \in Loggers, LockFile(t)
      PROVE  LockInv' /\ LockType'
  BY <1>2 DEF LockFile
<1>3. ASSUME NEW t \in Loggers, WriteDirect(t)
      PROVE  LockInv' /\ LockType'
  BY <1>3 DEF WriteDirect, Take
<1>4. ASSUME NEW t \in Loggers, LockBuffer(t)
      PROVE  LockInv' /\ LockType'
  BY <1>4 DEF LockBuffer, CallMem2File, Full
<1>5. ASSUME NEW t \in Loggers, AddToBuffer(t)
      PROVE  LockInv' /\ LockType'
  <2>1. /\ pc[t] = "add" /\ pc' = [pc EXCEPT ![t] = "size"] /\ back' = back
        /\ m_hMutexBuffer' = Nobody /\ m_hMutex' = m_hMutex
    BY <1>5 DEF AddToBuffer, Take, UnlockBuffer
  <2>2. m_hMutexBuffer = t /\ m_hMutex = t
    BY <2>1
  <2> QED BY <2>1, <2>2
<1>6. ASSUME NEW t \in Loggers, RollOver(t)
      PROVE  LockInv' /\ LockType'
  BY <1>6 DEF RollOver, CallMem2File
<1>7. ASSUME NEW t \in Loggers, LogMsgEnds(t)
      PROVE  LockInv' /\ LockType'
  BY <1>7 DEF LogMsgEnds
<1>8. ASSUME NEW t \in Loggers, CloseLog(t)
      PROVE  LockInv' /\ LockType'
  BY <1>8 DEF CloseLog
<1>9. ASSUME NEW t \in Loggers, CreateLog(t)
      PROVE  LockInv' /\ LockType'
  BY <1>9 DEF CreateLog
<1>10. ASSUME NEW t \in Threads, Mem2File(t)
      PROVE  LockInv' /\ LockType'
  BY <1>10 DEF Mem2File
<1>11. ASSUME NEW t \in Threads, Mem2FileWrite(t)
      PROVE  LockInv' /\ LockType'
  BY <1>11 DEF Mem2FileWrite
<1>12. ASSUME NEW t \in Threads, Mem2FileReset(t)
      PROVE  LockInv' /\ LockType'
  BY <1>12 DEF Mem2FileReset, ResetUse
<1>13. CASE FlushMem2File
  BY <1>13 DEF FlushMem2File, CallMem2File
<1>14. CASE FlushEnds
  BY <1>14 DEF FlushEnds
<1>15. CASE UNCHANGED vars
  BY <1>15 DEF vars
<1>16. ASSUME NEW t \in Loggers, CreateLogFails(t)
       PROVE  LockInv' /\ LockType'
  BY <1>16 DEF CreateLogFails
<1> QED BY <1>1, <1>2, <1>3, <1>4, <1>5, <1>6, <1>7, <1>8, <1>9, <1>10, <1>11, <1>12, <1>13,
      <1>14, <1>15, <1>16 DEF Next, Proceed, WriteBuffer

\* A logger that writes, or writes the buffer, is the only one, and its file is open.
LEMMA Alone ==
    ASSUME IInv, NEW t \in Loggers, HoldsFile(t), pc[t] # "open"
    PROVE  /\ m_pLogFile # 0 /\ m_pLogFile = Len(files) /\ m_pLogFile \in 1 .. Len(files)
           /\ \A u \in Loggers : HoldsFile(u) => u = t
<1>1. \A u \in Loggers : HoldsFile(u) => u = t
  BY ThreadFacts DEF IInv, LockInv
<1>2. m_pLogFile # 0
  BY <1>1 DEF IInv, FileInv, HoldsFile
<1>3. FileType
  BY TypeOfParts DEF IInv
<1> QED BY <1>1, <1>2, <1>3 DEF FileType

(***************************************************************************)
(* The buffer has room for what is added.                                  *)
(***************************************************************************)
LEMMA BufferStep ==
    ASSUME IInv, [Next]_vars
    PROVE  BufferType' /\ RoomInv'
<1>a. PlaceType /\ BufferType /\ LoggedType /\ ControlInv /\ RoomInv
  BY TypeOfParts DEF IInv
<1> USE <1>a, ThreadFacts
        DEF PlaceType, BufferType, InMem2File, RoomInv, buffer, file, locks, logged, At, Goto
<1>1. ASSUME NEW t \in Loggers, LogMsg(t)
      PROVE  BufferType' /\ RoomInv'
  BY <1>1 DEF LogMsg
<1>2. ASSUME NEW t \in Loggers, LockFile(t)
      PROVE  BufferType' /\ RoomInv'
  BY <1>2 DEF LockFile
<1>3. ASSUME NEW t \in Loggers, WriteDirect(t)
      PROVE  BufferType' /\ RoomInv'
  BY <1>3 DEF WriteDirect, Take
<1>4. ASSUME NEW t \in Loggers, LockBuffer(t)
      PROVE  BufferType' /\ RoomInv'
  <2>1. /\ pc[t] = "buffer" /\ UNCHANGED <<g_iMemSize, m_pBuffer, m_nBufferUse>>
        /\ \/ pc' = [pc EXCEPT ![t] = "test"]
           \/ pc' = [pc EXCEPT ![t] = "add"] /\ m_nBufferUse < g_iMemSize
        /\ \A u \in Threads : u # t => back'[u] = back[u]
    BY <1>4 DEF LockBuffer, CallMem2File, Full
  <2> QED BY <2>1
<1>5. ASSUME NEW t \in Loggers, AddToBuffer(t)
      PROVE  BufferType' /\ RoomInv'
  <2>1. /\ pc[t] = "add" /\ pc' = [pc EXCEPT ![t] = "size"] /\ UNCHANGED <<back, g_iMemSize>>
        /\ m_nBufferUse' = m_nBufferUse + 1
        /\ m_pBuffer' = Append(InUse, msg[t])
                           \o SubSeq(m_pBuffer, m_nBufferUse + 2, Len(m_pBuffer))
    BY <1>5 DEF AddToBuffer, Take
  <2>2. /\ msg[t] \in Messages /\ m_nBufferUse < g_iMemSize /\ m_nBufferUse <= Len(m_pBuffer)
        /\ m_nBufferUse \in Nat /\ Len(m_pBuffer) \in Nat /\ Len(m_pBuffer) <= g_iMemSize
    BY <2>1 DEF ControlInv
  <2>3. PICK b \in Seq(Messages) :
           /\ b = Append(InUse, msg[t]) \o SubSeq(m_pBuffer, m_nBufferUse + 2, Len(m_pBuffer))
           /\ Len(b) \in {m_nBufferUse + 1, Len(m_pBuffer)} /\ m_nBufferUse + 1 <= Len(b)
    BY <2>2, FillFacts
  <2>b. m_pBuffer' = b
    BY <2>1, <2>3
  <2>d. /\ Len(b) \in {m_nBufferUse + 1, Len(m_pBuffer)} /\ m_nBufferUse + 1 <= Len(b)
        /\ b \in Seq(Messages)
    BY <2>3, Zenon
  <2>c. Len(b) \in m_nBufferUse + 1 .. g_iMemSize /\ m_nBufferUse + 1 \in 0 .. g_iMemSize
    BY <2>2, <2>d
  <2>4. BufferType'
    BY <2>1, <2>b, <2>c
  <2>5. \A u \in Loggers : HoldsFile(u) => u = t
    BY <2>1, Alone DEF HoldsFile
  <2> QED BY <2>1, <2>4, <2>5 DEF HoldsFile
<1>6. ASSUME NEW t \in Loggers, RollOver(t)
      PROVE  BufferType' /\ RoomInv'
  BY <1>6 DEF RollOver, CallMem2File
<1>7. ASSUME NEW t \in Loggers, LogMsgEnds(t)
      PROVE  BufferType' /\ RoomInv'
  BY <1>7 DEF LogMsgEnds
<1>8. ASSUME NEW t \in Loggers, CloseLog(t)
      PROVE  BufferType' /\ RoomInv'
  BY <1>8 DEF CloseLog
<1>9. ASSUME NEW t \in Loggers, CreateLog(t)
      PROVE  BufferType' /\ RoomInv'
  BY <1>9 DEF CreateLog
<1>10. ASSUME NEW t \in Threads, Mem2File(t)
      PROVE  BufferType' /\ RoomInv'
  <2>1. /\ pc[t] = "test" /\ pc' = [pc EXCEPT ![t] = IF WorthWriting THEN "write" ELSE back[t]]
        /\ UNCHANGED <<back, g_iMemSize, m_pBuffer, m_nBufferUse>>
    BY <1>10 DEF Mem2File
  <2>2. t \in Loggers => m_pLogFile # 0
    BY <2>1, Alone DEF HoldsFile
  <2> QED BY <2>1, <2>2 DEF WorthWriting, ControlInv
<1>11. ASSUME NEW t \in Threads, Mem2FileWrite(t)
      PROVE  BufferType' /\ RoomInv'
  BY <1>11 DEF Mem2FileWrite
<1>12. ASSUME NEW t \in Threads, Mem2FileReset(t)
      PROVE  BufferType' /\ RoomInv'
  BY <1>12 DEF Mem2FileReset, ResetUse
<1>13. ASSUME FlushMem2File
      PROVE  BufferType' /\ RoomInv'
  BY <1>13 DEF FlushMem2File, CallMem2File
<1>14. ASSUME FlushEnds
      PROVE  BufferType' /\ RoomInv'
  BY <1>14 DEF FlushEnds
<1>15. ASSUME UNCHANGED vars
       PROVE  BufferType' /\ RoomInv'
  BY <1>15 DEF vars
<1>16. ASSUME NEW t \in Loggers, CreateLogFails(t)
       PROVE  BufferType' /\ RoomInv'
  BY <1>16 DEF CreateLogFails
<1> QED BY <1>1, <1>2, <1>3, <1>4, <1>5, <1>6, <1>7, <1>8, <1>9, <1>10, <1>11, <1>12, <1>13,
      <1>14, <1>15, <1>16 DEF Next, Proceed, WriteBuffer

(***************************************************************************)
(* A file is replaced by the next only; what is written stays written.     *)
(***************************************************************************)
LEMMA FilesStep ==
    ASSUME IInv, [Next]_vars
    PROVE  FileType' /\ FileInv' /\ \A m : Reached(m) => Reached(m)'
<1>a. PlaceType /\ FileType /\ FileInv /\ ControlInv
  BY TypeOfParts DEF IInv
<1> DEFINE Kept == \A m : Reached(m) => Reached(m)'
<1> USE <1>a, ThreadFacts
        DEF PlaceType, FileType, FileInv, buffer, file, locks, logged, At, Goto
<1>1. ASSUME NEW t \in Loggers, LogMsg(t)
      PROVE  FileType' /\ FileInv' /\ Kept
  BY <1>1 DEF LogMsg, Written, Reached
<1>2. ASSUME NEW t \in Loggers, LockFile(t)
      PROVE  FileType' /\ FileInv' /\ Kept
  BY <1>2 DEF LockFile, Written, Reached
<1>3. ASSUME NEW t \in Loggers, WriteDirect(t)
      PROVE  FileType' /\ FileInv' /\ Kept
  <2>1. /\ pc[t] = "direct" /\ pc' = [pc EXCEPT ![t] = "size"] /\ Write(<<msg[t]>>)
        /\ m_pLogFile' = m_pLogFile /\ m_nFileLen' = m_nFileLen + 1 /\ wiped' = wiped
    BY <1>3 DEF WriteDirect, Take
  <2>2. m_pLogFile \in 1 .. Len(files) /\ m_pLogFile # 0
    BY <2>1, Alone DEF HoldsFile
  <2>3. <<msg[t]>> \in Seq(Messages)
    BY <2>1 DEF ControlInv
  <2>4. files' \in Seq(Seq(Messages)) /\ Len(files') = Len(files) /\ Kept
    BY <2>1, <2>2, <2>3, WriteFacts DEF Reached
  <2> QED BY <2>1, <2>2, <2>4
<1>4. ASSUME NEW t \in Loggers, LockBuffer(t)
      PROVE  FileType' /\ FileInv' /\ Kept
  BY <1>4 DEF LockBuffer, CallMem2File, Full, Written, Reached
<1>5. ASSUME NEW t \in Loggers, AddToBuffer(t)
      PROVE  FileType' /\ FileInv' /\ Kept
  BY <1>5 DEF AddToBuffer, Take, UnlockBuffer, Written, Reached
<1>6. ASSUME NEW t \in Loggers, RollOver(t)
      PROVE  FileType' /\ FileInv' /\ Kept
  BY <1>6 DEF RollOver, CallMem2File, Written, Reached
<1>7. ASSUME NEW t \in Loggers, LogMsgEnds(t)
      PROVE  FileType' /\ FileInv' /\ Kept
  BY <1>7 DEF LogMsgEnds, Written, Reached
<1>8. ASSUME NEW t \in Loggers, CloseLog(t)
      PROVE  FileType' /\ FileInv' /\ Kept
  BY <1>8 DEF CloseLog, Written, Reached
<1>9. ASSUME NEW t \in Loggers, CreateLog(t)
      PROVE  FileType' /\ FileInv' /\ Kept
  <2>1. m_pLogFile' = Len(files) + 1 /\ m_nFileLen' = m_nFileLen
    BY <1>9 DEF CreateLog
  <2>2. /\ files' \in Seq(Seq(Messages)) /\ Len(files') = Len(files) + 1
        /\ wiped' \subseteq Messages /\ \A m : Reached(m) => Reached(m)'
    BY <1>9, OpenFacts DEF CreateLog
  <2> QED BY <2>1, <2>2
<1>10. ASSUME NEW t \in Threads, Mem2File(t)
      PROVE  FileType' /\ FileInv' /\ Kept
  BY <1>10 DEF Mem2File, Written, Reached
<1>11. ASSUME NEW t \in Threads, Mem2FileWrite(t)
      PROVE  FileType' /\ FileInv' /\ Kept
  <2>1. /\ pc[t] = "write" /\ pc' = [pc EXCEPT ![t] = "reset"] /\ Write(InUse) /\ m_pLogFile # 0
        /\ UNCHANGED <<m_pLogFile, m_nFileLen, wiped>>
    BY <1>11 DEF Mem2FileWrite
  <2>2. m_pLogFile \in 1 .. Len(files)
    BY <2>1
  <2>3. InUse \in Seq(Messages)
    <3>1. BufferType
      BY TypeOfParts DEF IInv
    <3> QED BY <3>1, InUseFacts DEF BufferType
  <2>4. files' \in Seq(Seq(Messages)) /\ Len(files') = Len(files) /\ Kept
    BY <2>1, <2>2, <2>3, WriteFacts DEF Reached
  <2> QED BY <2>1, <2>2, <2>4
<1>12. ASSUME NEW t \in Threads, Mem2FileReset(t)
      PROVE  FileType' /\ FileInv' /\ Kept
  BY <1>12 DEF Mem2FileReset, ResetUse, Written, Reached
<1>13. ASSUME FlushMem2File
      PROVE  FileType' /\ FileInv' /\ Kept
  BY <1>13 DEF FlushMem2File, CallMem2File, Written, Reached
<1>14. ASSUME FlushEnds
      PROVE  FileType' /\ FileInv' /\ Kept
  BY <1>14 DEF FlushEnds, Written, Reached
<1>15. ASSUME UNCHANGED vars
       PROVE  FileType' /\ FileInv' /\ Kept
  BY <1>15 DEF vars, Written, Reached
<1>16. ASSUME NEW t \in Loggers, CreateLogFails(t)
       PROVE  FileType' /\ FileInv' /\ Kept
  BY <1>16 DEF CreateLogFails, Written, Reached
<1> QED BY <1>1, <1>2, <1>3, <1>4, <1>5, <1>6, <1>7, <1>8, <1>9, <1>10, <1>11, <1>12, <1>13,
      <1>14, <1>15, <1>16 DEF Next, Proceed, WriteBuffer

\* What is logged and taken.
LEMMA LoggedStep ==
    ASSUME IInv, [Next]_vars
    PROVE  LoggedType' /\ RacesType'
<1>a. PlaceType /\ LoggedType /\ RacesType /\ ControlInv /\ MaxMessages \in Nat
  BY TypeOfParts, LogFileAssumption DEF IInv
<1> USE <1>a, ThreadFacts
        DEF PlaceType, LoggedType, RacesType, ControlInv, buffer, file, locks, logged, At, Goto
<1>1. ASSUME NEW t \in Loggers, LogMsg(t)
      PROVE  LoggedType' /\ RacesType'
  <2>1. /\ nlogged' = nlogged + 1 /\ nlogged < MaxMessages
        /\ msg' = [msg EXCEPT ![t] = nlogged + 1]
        /\ UNCHANGED <<accepted, races>>
    BY <1>1 DEF LogMsg
  <2>2. nlogged + 1 \in 0 .. MaxMessages
    BY <2>1
  <2> QED BY <2>1, <2>2
<1>2. ASSUME NEW t \in Loggers, LockFile(t)
      PROVE  LoggedType' /\ RacesType'
  BY <1>2 DEF LockFile
<1>3. ASSUME NEW t \in Loggers, WriteDirect(t)
      PROVE  LoggedType' /\ RacesType'
  BY <1>3 DEF WriteDirect, Take
<1>4. ASSUME NEW t \in Loggers, LockBuffer(t)
      PROVE  LoggedType' /\ RacesType'
  BY <1>4 DEF LockBuffer, CallMem2File, Full
<1>5. ASSUME NEW t \in Loggers, AddToBuffer(t)
      PROVE  LoggedType' /\ RacesType'
  BY <1>5 DEF AddToBuffer, Take, UnlockBuffer
<1>6. ASSUME NEW t \in Loggers, RollOver(t)
      PROVE  LoggedType' /\ RacesType'
  BY <1>6 DEF RollOver, CallMem2File
<1>7. ASSUME NEW t \in Loggers, LogMsgEnds(t)
      PROVE  LoggedType' /\ RacesType'
  BY <1>7 DEF LogMsgEnds
<1>8. ASSUME NEW t \in Loggers, CloseLog(t)
      PROVE  LoggedType' /\ RacesType'
  BY <1>8 DEF CloseLog
<1>9. ASSUME NEW t \in Loggers, CreateLog(t)
      PROVE  LoggedType' /\ RacesType'
  BY <1>9 DEF CreateLog
<1>10. ASSUME NEW t \in Threads, Mem2File(t)
      PROVE  LoggedType' /\ RacesType'
  BY <1>10 DEF Mem2File
<1>11. ASSUME NEW t \in Threads, Mem2FileWrite(t)
      PROVE  LoggedType' /\ RacesType'
  BY <1>11 DEF Mem2FileWrite
<1>12. ASSUME NEW t \in Threads, Mem2FileReset(t)
      PROVE  LoggedType' /\ RacesType'
  BY <1>12 DEF Mem2FileReset, ResetUse
<1>13. ASSUME FlushMem2File
      PROVE  LoggedType' /\ RacesType'
  BY <1>13 DEF FlushMem2File, CallMem2File
<1>14. ASSUME FlushEnds
      PROVE  LoggedType' /\ RacesType'
  BY <1>14 DEF FlushEnds
<1>15. ASSUME UNCHANGED vars
       PROVE  LoggedType' /\ RacesType'
  BY <1>15 DEF vars
<1>16. ASSUME NEW t \in Loggers, CreateLogFails(t)
       PROVE  LoggedType' /\ RacesType'
  BY <1>16 DEF CreateLogFails
<1> QED BY <1>1, <1>2, <1>3, <1>4, <1>5, <1>6, <1>7, <1>8, <1>9, <1>10, <1>11, <1>12, <1>13,
      <1>14, <1>15, <1>16 DEF Next, Proceed, WriteBuffer

\* A race that was entered stays.
LEMMA RacesGrow ==
    ASSUME [Next]_vars
    PROVE  races \subseteq races' /\ (Defined' => Defined)
<1> SUFFICES races \subseteq races'
  BY DEF Defined
<1>1. ASSUME NEW t \in Loggers, LogMsg(t)
      PROVE  races \subseteq races'
  BY <1>1 DEF LogMsg, logged
<1>2. ASSUME NEW t \in Loggers, LockFile(t)
      PROVE  races \subseteq races'
  BY <1>2 DEF LockFile, logged
<1>3. ASSUME NEW t \in Loggers, WriteDirect(t)
      PROVE  races \subseteq races'
  BY <1>3 DEF WriteDirect, Take, logged
<1>4. ASSUME NEW t \in Loggers, LockBuffer(t)
      PROVE  races \subseteq races'
  BY <1>4 DEF LockBuffer, CallMem2File, Full, logged
<1>5. ASSUME NEW t \in Loggers, AddToBuffer(t)
      PROVE  races \subseteq races'
  BY <1>5 DEF AddToBuffer, Take, UnlockBuffer, logged
<1>6. ASSUME NEW t \in Loggers, RollOver(t)
      PROVE  races \subseteq races'
  BY <1>6 DEF RollOver, CallMem2File, logged
<1>7. ASSUME NEW t \in Loggers, LogMsgEnds(t)
      PROVE  races \subseteq races'
  BY <1>7 DEF LogMsgEnds, logged
<1>8. ASSUME NEW t \in Loggers, CloseLog(t)
      PROVE  races \subseteq races'
  BY <1>8 DEF CloseLog, logged
<1>9. ASSUME NEW t \in Loggers, CreateLog(t)
      PROVE  races \subseteq races'
  BY <1>9 DEF CreateLog, logged
<1>10. ASSUME NEW t \in Threads, Mem2File(t)
      PROVE  races \subseteq races'
  BY <1>10 DEF Mem2File, logged
<1>11. ASSUME NEW t \in Threads, Mem2FileWrite(t)
      PROVE  races \subseteq races'
  BY <1>11 DEF Mem2FileWrite, logged
<1>12. ASSUME NEW t \in Threads, Mem2FileReset(t)
      PROVE  races \subseteq races'
  BY <1>12 DEF Mem2FileReset, ResetUse, logged
<1>13. ASSUME FlushMem2File
      PROVE  races \subseteq races'
  BY <1>13 DEF FlushMem2File, CallMem2File, logged
<1>14. ASSUME FlushEnds
      PROVE  races \subseteq races'
  BY <1>14 DEF FlushEnds, logged
<1>15. ASSUME UNCHANGED vars
       PROVE  races \subseteq races'
  BY <1>15 DEF vars, logged
<1>16. ASSUME NEW t \in Loggers, CreateLogFails(t)
       PROVE  races \subseteq races'
  BY <1>16 DEF CreateLogFails, logged
<1> QED BY <1>1, <1>2, <1>3, <1>4, <1>5, <1>6, <1>7, <1>8, <1>9, <1>10, <1>11, <1>12, <1>13,
      <1>14, <1>15, <1>16 DEF Next, Proceed, WriteBuffer

(***************************************************************************)
(* Whoever is about to empty the buffer has written it, and nobody added   *)
(* to it since: the flush holds the mutex of the buffer, the roll-over     *)
(* that of the file, and a logger that adds holds both.                    *)
(***************************************************************************)
LEMMA ResetStep ==
    ASSUME IInv, [Next]_vars
    PROVE  ResetInv'
<1>a. PlaceType /\ BufferType /\ FileType /\ LoggedType /\ ControlInv /\ LockInv
      /\ m_nBufferUse \in Nat /\ m_nBufferUse <= Len(m_pBuffer)
  BY TypeOfParts DEF IInv, BufferType
<1>b. \A m : Reached(m) => Reached(m)'
  BY FilesStep
<1>c. Defined' => Defined
  BY RacesGrow
<1>d. Defined => \A t \in Threads : pc[t] = "reset" => \A m \in Messages : Held(m) => Reached(m)
  BY DEF IInv, ResetInv
<1> SUFFICES ASSUME Defined'
             PROVE  \A t \in Threads :
                       pc'[t] = "reset" => \A m \in Messages : Held(m)' => Reached(m)'
  BY DEF ResetInv
<1> DEFINE Goal == \A t \in Threads :
                      pc'[t] = "reset" => \A m \in Messages : Held(m)' => Reached(m)'
<1>e. ASSUME UNCHANGED buffer, \A t \in Threads : pc'[t] = "reset" => pc[t] = "reset"
      PROVE  Goal
  <2>1. \A m : Held(m)' <=> Held(m)
    BY <1>e DEF buffer, Held
  <2> QED BY <1>b, <1>c, <1>d, <1>e, <2>1
<1> SUFFICES Goal
  OBVIOUS
<1> HIDE DEF Goal
<1> USE <1>a, ThreadFacts DEF PlaceType, buffer, file, locks, logged, At, Goto
<1>1. ASSUME NEW t \in Loggers, LogMsg(t)
      PROVE  Goal
  BY <1>1, <1>e DEF LogMsg
<1>2. ASSUME NEW t \in Loggers, LockFile(t)
      PROVE  Goal
  BY <1>2, <1>e DEF LockFile
<1>3. ASSUME NEW t \in Loggers, WriteDirect(t)
      PROVE  Goal
  BY <1>3, <1>e DEF WriteDirect, Take
<1>4. ASSUME NEW t \in Loggers, LockBuffer(t)
      PROVE  Goal
  BY <1>4, <1>e DEF LockBuffer, CallMem2File, Full
<1>5. ASSUME NEW t \in Loggers, AddToBuffer(t)
      PROVE  Goal
  <2>1. pc[t] = "add" /\ pc' = [pc EXCEPT ![t] = "size"]
    BY <1>5 DEF AddToBuffer, Take
  <2>2. \A u \in Loggers : HoldsFile(u) => u = t
    BY <2>1, Alone DEF HoldsFile
  <2>3. m_hMutexBuffer = t
    BY <2>1 DEF LockInv, HoldsBuffer
  <2>4. pc[Flusher] = "idle"
    BY <2>3 DEF LockInv, HoldsBuffer
  <2>5. \A u \in Threads : pc'[u] # "reset"
    BY <2>1, <2>2, <2>4 DEF HoldsFile
  <2> QED BY <2>5 DEF Goal
<1>6. ASSUME NEW t \in Loggers, RollOver(t)
      PROVE  Goal
  BY <1>6, <1>e DEF RollOver, CallMem2File
<1>7. ASSUME NEW t \in Loggers, LogMsgEnds(t)
      PROVE  Goal
  BY <1>7, <1>e DEF LogMsgEnds
<1>8. ASSUME NEW t \in Loggers, CloseLog(t)
      PROVE  Goal
  BY <1>8, <1>e DEF CloseLog
<1>9. ASSUME NEW t \in Loggers, CreateLog(t)
      PROVE  Goal
  BY <1>9, <1>e DEF CreateLog
<1>10. ASSUME NEW t \in Threads, Mem2File(t)
      PROVE  Goal
  BY <1>10, <1>e DEF Mem2File
<1>11. ASSUME NEW t \in Threads, Mem2FileWrite(t)
      PROVE  Goal
  <2>1. /\ pc[t] = "write" /\ pc' = [pc EXCEPT ![t] = "reset"] /\ Write(InUse) /\ m_pLogFile # 0
        /\ UNCHANGED <<m_pBuffer, m_nBufferUse>>
    BY <1>11 DEF Mem2FileWrite
  <2>2. /\ InUse \in Seq(Messages) /\ Len(InUse) = m_nBufferUse
        /\ \A i \in 1 .. m_nBufferUse : InUse[i] = m_pBuffer[i]
    BY InUseFacts DEF BufferType
  <2>3. m_pLogFile \in 1 .. Len(files) /\ files \in Seq(Seq(Messages))
    BY <2>1 DEF FileType
  <2>4. PICK ms \in Seq(Messages) : ms = InUse
    BY <2>2
  <2>5. \A m : Held(m) => \E j \in 1 .. Len(ms) : ms[j] = m
    BY <2>2, <2>4 DEF Held
  <2>6. Write(ms)
    BY <2>1, <2>4
  <2>7. \A j \in 1 .. Len(ms) : Written(ms[j])'
    BY <2>3, <2>6, WriteFacts
  <2>8. \A m : Held(m) => Reached(m)'
    BY <2>5, <2>7 DEF Reached
  <2>9. \A m : Held(m)' => Held(m)
    BY <2>1 DEF Held
  <2> QED BY <2>8, <2>9 DEF Goal
<1>12. ASSUME NEW t \in Threads, Mem2FileReset(t)
      PROVE  Goal
  <2>1. m_nBufferUse' = 0
    BY <1>12 DEF Mem2FileReset, ResetUse
  <2> QED BY <2>1 DEF Held, Goal
<1>13. ASSUME FlushMem2File
      PROVE  Goal
  BY <1>13, <1>e DEF FlushMem2File, CallMem2File
<1>14. ASSUME FlushEnds
      PROVE  Goal
  BY <1>14, <1>e DEF FlushEnds
<1>15. ASSUME UNCHANGED vars
       PROVE  Goal
  BY <1>15, <1>e DEF vars
<1>16. ASSUME NEW t \in Loggers, CreateLogFails(t)
       PROVE  Goal
  BY <1>16, <1>e DEF CreateLogFails
<1> QED BY <1>1, <1>2, <1>3, <1>4, <1>5, <1>6, <1>7, <1>8, <1>9, <1>10, <1>11, <1>12, <1>13,
      <1>14, <1>15, <1>16 DEF Next, Proceed, WriteBuffer

(***************************************************************************)
(* A message that was taken has reached a file or is in the buffer.        *)
(***************************************************************************)
LEMMA KeptStep ==
    ASSUME IInv, [Next]_vars
    PROVE  KeptInv'
<1>a. PlaceType /\ BufferType /\ FileType /\ LoggedType /\ ControlInv
      /\ m_nBufferUse \in Nat /\ m_nBufferUse <= Len(m_pBuffer)
      /\ accepted \in Seq(Messages)
  BY TypeOfParts DEF IInv, BufferType, LoggedType
<1>b. \A m : Reached(m) => Reached(m)'
  BY FilesStep
<1>c. Defined' => Defined
  BY RacesGrow
<1>d. Defined => \A m \in Messages : Contains(accepted, m) => Reached(m) \/ Held(m)
  BY DEF IInv, KeptInv
<1> SUFFICES ASSUME Defined'
             PROVE  \A m \in Messages : Contains(accepted', m) => Reached(m)' \/ Held(m)'
  BY DEF KeptInv
<1> DEFINE Goal == \A m \in Messages : Contains(accepted', m) => Reached(m)' \/ Held(m)'
<1>e. ASSUME UNCHANGED <<buffer, accepted>>
      PROVE  Goal
  <2>1. \A m : Held(m)' <=> Held(m)
    BY <1>e DEF buffer, Held
  <2> QED BY <1>b, <1>c, <1>d, <1>e, <2>1
<1>f. ASSUME NEW m, accepted' = Append(accepted, m), Reached(m)' \/ Held(m)',
             \A n : Held(n) => Held(n)'
      PROVE  Goal
  <2>1. \A n : Contains(accepted', n) => n = m \/ Contains(accepted, n)
    BY <1>a, <1>f DEF Contains
  <2> QED BY <1>b, <1>c, <1>d, <1>f, <2>1
<1> SUFFICES Goal
  OBVIOUS
<1> HIDE DEF Goal
<1> USE <1>a, ThreadFacts DEF PlaceType, buffer, file, locks, logged, At, Goto
<1>1. ASSUME NEW t \in Loggers, LogMsg(t)
      PROVE  Goal
  BY <1>1, <1>e DEF LogMsg
<1>2. ASSUME NEW t \in Loggers, LockFile(t)
      PROVE  Goal
  BY <1>2, <1>e DEF LockFile
<1>3. ASSUME NEW t \in Loggers, WriteDirect(t)
      PROVE  Goal
  <2>1. /\ pc[t] = "direct" /\ Write(<<msg[t]>>) /\ accepted' = Append(accepted, msg[t])
        /\ UNCHANGED <<m_pBuffer, m_nBufferUse, msg>>
    BY <1>3 DEF WriteDirect, Take
  <2>2. m_pLogFile \in 1 .. Len(files) /\ files \in Seq(Seq(Messages))
    BY <2>1, Alone DEF HoldsFile, FileType
  <2>3. PICK m \in Messages : m = msg[t] /\ m = msg'[t]
    BY <2>1 DEF ControlInv
  <2>4. \E s \in Seq(Messages) : s = <<m>> /\ Len(s) = 1 /\ s[1] = m
    <3>1. <<m>> \in Seq(Messages) /\ Len(<<m>>) = 1 /\ <<m>>[1] = m
      OBVIOUS
    <3> QED BY <3>1
  <2>. PICK ms \in Seq(Messages) : ms = <<m>> /\ Len(ms) = 1 /\ ms[1] = m
    BY <2>4
  <2>5. Write(ms)
    BY <2>1, <2>3
  <2>6. Written(ms[1])'
    <3>1. \A j \in 1 .. Len(ms) : Written(ms[j])'
      BY <2>2, <2>5, WriteFacts
    <3> QED BY <3>1
  <2>7. Reached(m)'
    BY <2>6 DEF Reached
  <2>8. \A n : Held(n) => Held(n)'
    BY <2>1 DEF Held
  <2> QED BY <1>f, <2>1, <2>3, <2>7, <2>8
<1>4. ASSUME NEW t \in Loggers, LockBuffer(t)
      PROVE  Goal
  BY <1>4, <1>e DEF LockBuffer, CallMem2File, Full
<1>5. ASSUME NEW t \in Loggers, AddToBuffer(t)
      PROVE  Goal
  <2>1. /\ pc[t] = "add" /\ accepted' = Append(accepted, msg[t])
        /\ m_nBufferUse' = m_nBufferUse + 1
        /\ m_pBuffer' = Append(InUse, msg[t])
                           \o SubSeq(m_pBuffer, m_nBufferUse + 2, Len(m_pBuffer))
    BY <1>5 DEF AddToBuffer, Take
  <2>2. PICK m \in Messages : m = msg[t]
    BY <2>1 DEF ControlInv
  <2>3. \E b \in Seq(Messages) :
           /\ b = Append(InUse, m) \o SubSeq(m_pBuffer, m_nBufferUse + 2, Len(m_pBuffer))
           /\ \A i \in 1 .. m_nBufferUse : b[i] = m_pBuffer[i]
           /\ b[m_nBufferUse + 1] = m
    BY <2>2, FillFacts DEF BufferType
  <2>4. /\ \A i \in 1 .. m_nBufferUse : m_pBuffer'[i] = m_pBuffer[i]
        /\ m_pBuffer'[m_nBufferUse + 1] = m
    BY <2>1, <2>2, <2>3, Zenon
  <2>5. (\A n : Held(n) => Held(n)') /\ Held(m)'
    BY <2>1, <2>4, AddFacts
  <2> QED BY <1>f, <2>1, <2>2, <2>5
<1>6. ASSUME NEW t \in Loggers, RollOver(t)
      PROVE  Goal
  BY <1>6, <1>e DEF RollOver, CallMem2File
<1>7. ASSUME NEW t \in Loggers, LogMsgEnds(t)
      PROVE  Goal
  BY <1>7, <1>e DEF LogMsgEnds
<1>8. ASSUME NEW t \in Loggers, CloseLog(t)
      PROVE  Goal
  BY <1>8, <1>e DEF CloseLog
<1>9. ASSUME NEW t \in Loggers, CreateLog(t)
      PROVE  Goal
  BY <1>9, <1>e DEF CreateLog
<1>10. ASSUME NEW t \in Threads, Mem2File(t)
      PROVE  Goal
  BY <1>10, <1>e DEF Mem2File
<1>11. ASSUME NEW t \in Threads, Mem2FileWrite(t)
      PROVE  Goal
  BY <1>11, <1>e DEF Mem2FileWrite
<1>12. ASSUME NEW t \in Threads, Mem2FileReset(t)
      PROVE  Goal
  <2>1. /\ pc[t] = "reset" /\ accepted' = accepted
    BY <1>12 DEF Mem2FileReset
  <2>2. \A m \in Messages : Held(m) => Reached(m)
    BY <1>c, <2>1 DEF IInv, ResetInv
  <2> QED BY <1>b, <1>c, <1>d, <2>1, <2>2 DEF Goal
<1>13. ASSUME FlushMem2File
      PROVE  Goal
  BY <1>13, <1>e DEF FlushMem2File, CallMem2File
<1>14. ASSUME FlushEnds
      PROVE  Goal
  BY <1>14, <1>e DEF FlushEnds
<1>15. ASSUME UNCHANGED vars
       PROVE  Goal
  BY <1>15, <1>e DEF vars
<1>16. ASSUME NEW t \in Loggers, CreateLogFails(t)
       PROVE  Goal
  BY <1>16, <1>e DEF CreateLogFails
<1> QED BY <1>1, <1>2, <1>3, <1>4, <1>5, <1>6, <1>7, <1>8, <1>9, <1>10, <1>11, <1>12, <1>13,
      <1>14, <1>15, <1>16 DEF Next, Proceed, WriteBuffer

(***************************************************************************)
(* The invariant holds in every state: who holds which mutex, that only a  *)
(* logger which replaces the file leaves none open, that the buffer has    *)
(* room for what is added, and that it is emptied by a thread that wrote   *)
(* all that is in it.                                                      *)
(***************************************************************************)
THEOREM LogInvariant == Spec => []IInv
<1>1. Init => IInv
  BY LogInit
<1>2. IInv /\ [Next]_vars => IInv'
  <2> SUFFICES ASSUME IInv, [Next]_vars PROVE IInv'
    OBVIOUS
  <2>1. TypeOK'
    BY PlaceStep, BufferStep, FilesStep, LocksStep, LoggedStep, TypeOfParts
  <2> QED BY <2>1, PlaceStep, LocksStep, FilesStep, BufferStep, ResetStep, KeptStep DEF IInv
<1> QED BY <1>1, <1>2, PTL DEF Spec

(***************************************************************************)
(* Types, for any loggers and any sizes.                                   *)
(***************************************************************************)
THEOREM LogTypeCorrect == Spec => []TypeOK
<1>1. IInv => TypeOK
  BY DEF IInv
<1> QED BY <1>1, LogInvariant, PTL

(***************************************************************************)
(* What LogMsg has taken is in a file or in the buffer, although the       *)
(* roll-over writes and empties the buffer without its mutex, or it was in *)
(* a file that has been opened anew: nothing is lost in another way, for   *)
(* any number of loggers and any sizes of the buffer and of files.         *)
(***************************************************************************)
THEOREM LostByReopeningOnly == Spec => []OnlyReopeningLoses
<1>1. IInv => OnlyReopeningLoses
  <2> SUFFICES ASSUME IInv, Defined, NEW i \in DOMAIN accepted
               PROVE  Reached(accepted[i]) \/ Contains(InUse, accepted[i])
    BY DEF OnlyReopeningLoses
  <2>1. BufferType
    BY TypeOfParts DEF IInv
  <2>2. accepted[i] \in Messages /\ Contains(accepted, accepted[i])
    BY DEF IInv, TypeOK, Contains
  <2>3. Reached(accepted[i]) \/ Held(accepted[i])
    BY <2>2 DEF IInv, KeptInv
  <2> QED BY <2>1, <2>3, InUseFacts DEF BufferType
<1> QED BY <1>1, LogInvariant, PTL

(***************************************************************************)
(* Every message is written once, in order.  Until a race is entered one   *)
(* thread at most writes the buffer, and who writes a file directly has no *)
(* buffer.                                                                 *)
(***************************************************************************)
Writing(t) == pc[t] \in {"write", "reset"}

OneWrites == races = {} => \A t, u \in Threads : Writing(t) /\ Writing(u) => t = u

DirectInv == \A t \in Loggers : pc[t] = "direct" => g_iMemSize = 0

\* A logger has a message that is not taken yet.
InHand(t) == pc[t] \in {"lock", "direct", "buffer", "add"} \/ (InMem2File(t) /\ back[t] = "add")

FreshInv ==
    /\ \A t \in Loggers : InHand(t) => msg[t] <= nlogged /\ ~ Contains(accepted, msg[t])
    /\ \A t, u \in Loggers : InHand(t) /\ InHand(u) /\ msg[t] = msg[u] => t = u
    /\ \A i \in DOMAIN accepted : accepted[i] <= nlogged
    /\ IsInjective(accepted)

\* Only what was taken is in a file or in use of the buffer.
TakenInv ==
    /\ \A f \in DOMAIN files : \A i \in DOMAIN files[f] : Contains(accepted, files[f][i])
    /\ \A i \in 1 .. m_nBufferUse : Contains(accepted, m_pBuffer[i])

\* The parts of WrittenOnceInOrder: what is written, and what is not.
FilesOrdered ==
    \A f, g \in DOMAIN files : \A i \in DOMAIN files[f], j \in DOMAIN files[g] :
        f < g \/ (f = g /\ i < j) => TakenBefore(files[f][i], files[g][j])

RestOrdered == InOrder(Unwritten) /\ \A f \in DOMAIN files : Precede(files[f], Unwritten)

OrderInv == races = {} => FilesOrdered /\ RestOrdered

OnceInv == OneWrites /\ DirectInv /\ FreshInv /\ TakenInv /\ OrderInv

\* Nothing is written at first.
LEMMA OnceInit == Init => OnceInv
<1> SUFFICES ASSUME Init PROVE OnceInv
  OBVIOUS
<1> USE ThreadFacts DEF Init
<1>1. OneWrites /\ DirectInv
  BY DEF OneWrites, DirectInv, Writing
<1>2. FreshInv
  BY DEF FreshInv, InHand, InMem2File, IsInjective
<1>3. DOMAIN files = {1} /\ files[1] = <<>> /\ DOMAIN files[1] = {}
  OBVIOUS
<1>4. TakenInv /\ FilesOrdered
  BY <1>3 DEF TakenInv, FilesOrdered
<1>5. Unwritten = <<>>
  <2>1. m_pBuffer \in Seq(Messages) /\ InUse = SubSeq(<<>>, 1, 0)
    BY DEF InUse
  <2>2. SubSeq(<<>>, 1, 0) = <<>>
    OBVIOUS
  <2> QED BY <2>1, <2>2 DEF Unwritten
<1>6. RestOrdered
  BY <1>5 DEF RestOrdered, InOrder, Precede
<1> QED BY <1>1, <1>2, <1>4, <1>6 DEF OnceInv, OrderInv

\* What taking a message, which is the last one then, does to their order.
LEMMA TakeFacts ==
    ASSUME accepted \in Seq(Messages), NEW m \in Messages, accepted' = Append(accepted, m)
    PROVE  /\ \A x, y : TakenBefore(x, y) => TakenBefore(x, y)'
           /\ \A x : Contains(accepted, x) => TakenBefore(x, m)'
           /\ \A x : Contains(accepted', x) <=> Contains(accepted, x) \/ x = m
           /\ ~ Contains(accepted, m) /\ IsInjective(accepted) => IsInjective(accepted')
<1> DEFINE n == Len(accepted)
<1>1. /\ n \in Nat /\ DOMAIN accepted = 1 .. n /\ DOMAIN accepted' = 1 .. n + 1
      /\ Len(accepted) = n /\ Len(accepted') = n + 1
      /\ accepted'[n + 1] = m
      /\ \A i \in 1 .. n : accepted'[i] = accepted[i]
  OBVIOUS
<1> HIDE DEF n
<1>2. \A i : i \in 1 .. n + 1 <=> i \in 1 .. n \/ i = n + 1
  BY <1>1
<1>3. \A i \in 1 .. n : i < n + 1
  BY <1>1
<1>4. \A x, y : TakenBefore(x, y) => TakenBefore(x, y)'
  BY <1>1, <1>2 DEF TakenBefore
<1>5. \A x : Contains(accepted, x) => TakenBefore(x, m)'
  BY <1>1, <1>2, <1>3, Zenon DEF TakenBefore, Contains
<1>6. \A x : Contains(accepted', x) <=> Contains(accepted, x) \/ x = m
  BY <1>1, <1>2, Zenon DEF Contains
<1>7. ASSUME ~ Contains(accepted, m), IsInjective(accepted),
             NEW i \in 1 .. n + 1, NEW j \in 1 .. n + 1, accepted'[i] = accepted'[j]
      PROVE  i = j
  <2>1. \A k \in 1 .. n : accepted'[k] # m
    BY <1>1, <1>7 DEF Contains
  <2>2. \A k, l \in 1 .. n : accepted'[k] = accepted'[l] => k = l
    BY <1>1, <1>7, Zenon DEF IsInjective
  <2> QED BY <1>1, <1>2, <1>7, <2>1, <2>2, Zenon
<1>8. ~ Contains(accepted, m) /\ IsInjective(accepted) => IsInjective(accepted')
  BY <1>1, <1>7 DEF IsInjective
<1> QED BY <1>4, <1>5, <1>6, <1>8

\* Where what a file holds after a write has been before.
LEMMA WritePlaces ==
    ASSUME files \in Seq(Seq(Messages)), m_pLogFile \in 1 .. Len(files),
           NEW ms \in Seq(Messages), Write(ms)
    PROVE  /\ DOMAIN files' = DOMAIN files
           /\ \A f \in DOMAIN files : f # m_pLogFile => files'[f] = files[f]
           /\ \A i \in DOMAIN files'[m_pLogFile] :
                 \/ /\ i \in DOMAIN files[m_pLogFile]
                    /\ files'[m_pLogFile][i] = files[m_pLogFile][i]
                 \/ \E k \in 1 .. Len(ms) : /\ i = Len(files[m_pLogFile]) + k
                                            /\ files'[m_pLogFile][i] = ms[k]
<1> DEFINE old == files[m_pLogFile]
           new == old \o ms
<1>1. old \in Seq(Messages)
  OBVIOUS
<1>2. /\ new \in Seq(Messages)
      /\ Len(new) = Len(old) + Len(ms)
      /\ \A i \in 1 .. Len(new) : new[i] = IF i <= Len(old) THEN old[i] ELSE ms[i - Len(old)]
  BY <1>1, ConcatProperties
<1> HIDE DEF new
<1>3. files' = [files EXCEPT ![m_pLogFile] = new]
  BY DEF Write, new
<1>4. /\ DOMAIN files' = DOMAIN files /\ files'[m_pLogFile] = new
      /\ \A f \in DOMAIN files : f # m_pLogFile => files'[f] = files[f]
  BY <1>3
<1> HIDE DEF old
<1>5. Len(old) \in Nat /\ Len(ms) \in Nat /\ DOMAIN old = 1 .. Len(old) /\ DOMAIN new = 1 .. Len(new)
  BY <1>1, <1>2
<1>6. ASSUME NEW i \in 1 .. Len(new)
      PROVE  \/ i \in 1 .. Len(old) /\ new[i] = old[i]
             \/ \E k \in 1 .. Len(ms) : i = Len(old) + k /\ new[i] = ms[k]
  <2>1. CASE i <= Len(old)
    BY <1>2, <1>5, <2>1
  <2>2. CASE ~ (i <= Len(old))
    <3>1. i - Len(old) \in 1 .. Len(ms) /\ i = Len(old) + (i - Len(old))
      BY <1>2, <1>5, <2>2
    <3> QED BY <1>2, <2>2, <3>1
  <2> QED BY <2>1, <2>2
<1> QED BY <1>4, <1>5, <1>6 DEF old

\* Only Mem2File begins to write the buffer, and while another does it is a race.
LEMMA OneWritesStep ==
    ASSUME IInv, OneWrites, [Next]_vars
    PROVE  OneWrites'
<1>a. PlaceType
  BY TypeOfParts DEF IInv
<1>b. races' = {} => races = {}
  BY RacesGrow
<1> USE <1>a, <1>b, ThreadFacts
        DEF PlaceType, buffer, file, locks, logged, At, Goto, OneWrites, Writing
<1>1. ASSUME NEW t \in Threads, Mem2File(t)
      PROVE  OneWrites'
  <2> SUFFICES ASSUME races' = {}, NEW u \in Threads, NEW v \in Threads,
                      Writing(u)', Writing(v)'
               PROVE  u = v
    OBVIOUS
  <2>1. /\ pc' = [pc EXCEPT ![t] = IF WorthWriting THEN "write" ELSE back[t]]
        /\ WorthWriting => \A w \in Threads \ {t} : ~ Writing(w)
        /\ back[t] \notin {"write", "reset"}
    BY <1>1 DEF Mem2File
  <2>2. CASE WorthWriting
    BY <2>1, <2>2
  <2>3. CASE ~ WorthWriting
    BY <2>1, <2>3
  <2> QED BY <2>2, <2>3
<1>2. ASSUME \A t \in Threads : ~ Mem2File(t), NEW u \in Threads, Writing(u)'
      PROVE  Writing(u)
  <2>1. ASSUME NEW t \in Loggers, LogMsg(t) \/ LockFile(t) \/ WriteDirect(t)
        PROVE  Writing(u)
    BY <1>2, <2>1 DEF LogMsg, LockFile, WriteDirect, Take
  <2>2. ASSUME NEW t \in Loggers, LockBuffer(t) \/ AddToBuffer(t) \/ RollOver(t)
        PROVE  Writing(u)
    BY <1>2, <2>2 DEF LockBuffer, AddToBuffer, RollOver, Take, CallMem2File
  <2>3. ASSUME NEW t \in Loggers, LogMsgEnds(t) \/ CloseLog(t) \/ CreateLog(t) \/ CreateLogFails(t)
        PROVE  Writing(u)
    BY <1>2, <2>3 DEF LogMsgEnds, CloseLog, CreateLog, CreateLogFails
  <2>4. ASSUME NEW t \in Threads, Mem2FileWrite(t) \/ Mem2FileReset(t)
        PROVE  Writing(u)
    BY <1>2, <2>4 DEF Mem2FileWrite, Mem2FileReset
  <2>5. CASE FlushMem2File \/ FlushEnds
    BY <1>2, <2>5 DEF FlushMem2File, FlushEnds, CallMem2File
  <2>6. CASE UNCHANGED vars
    BY <1>2, <2>6 DEF vars
  <2> QED BY <1>2, <2>1, <2>2, <2>3, <2>4, <2>5, <2>6 DEF Next, Proceed, WriteBuffer
<1> QED BY <1>1, <1>2

\* Only LockFile sends a thread to write a file directly.
LEMMA DirectStep ==
    ASSUME IInv, DirectInv, [Next]_vars
    PROVE  DirectInv'
<1>a. PlaceType
  BY TypeOfParts DEF IInv
<1> USE <1>a, ThreadFacts DEF PlaceType, buffer, file, locks, logged, At, Goto, DirectInv
<1>1. ASSUME NEW t \in Loggers, LogMsg(t) \/ LockFile(t) \/ WriteDirect(t)
      PROVE  DirectInv'
  BY <1>1 DEF LogMsg, LockFile, WriteDirect, Take
<1>2. ASSUME NEW t \in Loggers, LockBuffer(t) \/ AddToBuffer(t) \/ RollOver(t)
      PROVE  DirectInv'
  BY <1>2 DEF LockBuffer, AddToBuffer, RollOver, Take, CallMem2File
<1>3. ASSUME NEW t \in Loggers, LogMsgEnds(t) \/ CloseLog(t) \/ CreateLog(t) \/ CreateLogFails(t)
      PROVE  DirectInv'
  BY <1>3 DEF LogMsgEnds, CloseLog, CreateLog, CreateLogFails
<1>4. ASSUME NEW t \in Threads, Mem2File(t) \/ Mem2FileWrite(t) \/ Mem2FileReset(t)
      PROVE  DirectInv'
  BY <1>4 DEF Mem2File, Mem2FileWrite, Mem2FileReset
<1>5. CASE FlushMem2File \/ FlushEnds
  BY <1>5 DEF FlushMem2File, FlushEnds, CallMem2File
<1>6. CASE UNCHANGED vars
  BY <1>6 DEF vars
<1> QED BY <1>1, <1>2, <1>3, <1>4, <1>5, <1>6 DEF Next, Proceed, WriteBuffer

\* A message is new when LogMsg numbers it, and in hand until it is taken.
LEMMA FreshStep ==
    ASSUME IInv, FreshInv, [Next]_vars
    PROVE  FreshInv'
<1>a. PlaceType /\ LoggedType /\ ControlInv /\ MaxMessages \in Nat /\ accepted \in Seq(Messages)
  BY TypeOfParts, LogFileAssumption DEF IInv, LoggedType
<1>i. /\ \A i \in DOMAIN accepted : accepted[i] \in Nat /\ accepted[i] <= nlogged
      /\ DOMAIN accepted = 1 .. Len(accepted) /\ nlogged \in Nat
  BY <1>a DEF FreshInv, LoggedType, Messages
<1>e. ASSUME UNCHANGED <<msg, nlogged, accepted>>,
             \A u \in Loggers : InHand(u)' => InHand(u)
      PROVE  FreshInv'
  BY <1>e DEF FreshInv, Contains, IsInjective
<1> USE <1>a, ThreadFacts
        DEF PlaceType, ControlInv, InMem2File, InHand, buffer, file, locks, logged, At, Goto
<1>k. ASSUME NEW t \in Loggers, InHand(t), pc' = [pc EXCEPT ![t] = "size"], Take(t),
             UNCHANGED <<back, msg, nlogged>>
      PROVE  FreshInv'
  <2>1. /\ accepted' = Append(accepted, msg[t]) /\ msg[t] \in Messages
        /\ msg[t] <= nlogged /\ ~ Contains(accepted, msg[t])
    BY <1>k DEF Take, FreshInv
  <2>2. PICK m \in Messages : m = msg[t]
    BY <2>1
  <2>3. /\ \A x : Contains(accepted', x) <=> Contains(accepted, x) \/ x = m
        /\ IsInjective(accepted')
    BY <2>1, <2>2, TakeFacts DEF FreshInv
  <2>4. \A u \in Loggers : InHand(u)' => InHand(u) /\ u # t
    BY <1>k
  <2>5. \A u \in Loggers : InHand(u)' => msg'[u] <= nlogged' /\ ~ Contains(accepted', msg'[u])
    BY <1>k, <2>2, <2>3, <2>4, Zenon DEF FreshInv
  <2>6. \A i \in DOMAIN accepted' : accepted'[i] <= nlogged'
    <3>1. /\ DOMAIN accepted' = 1 .. Len(accepted) + 1 /\ accepted'[Len(accepted) + 1] = m
          /\ \A i \in 1 .. Len(accepted) : accepted'[i] = accepted[i]
      BY <2>1, <2>2
    <3>2. \A i \in 1 .. Len(accepted) + 1 : i \in 1 .. Len(accepted) \/ i = Len(accepted) + 1
      OBVIOUS
    <3> QED BY <1>i, <1>k, <2>1, <2>2, <3>1, <3>2, Zenon
  <2> QED BY <1>k, <2>3, <2>4, <2>5, <2>6 DEF FreshInv
<1>1. ASSUME NEW t \in Loggers, LogMsg(t)
      PROVE  FreshInv'
  <2>1. /\ pc[t] = "idle" /\ pc' = [pc EXCEPT ![t] = "lock"]
        /\ msg' = [msg EXCEPT ![t] = nlogged + 1] /\ nlogged' = nlogged + 1
        /\ UNCHANGED <<accepted, back>>
    BY <1>1 DEF LogMsg
  <2>2. /\ msg'[t] = nlogged + 1
        /\ \A u \in Loggers : u # t => msg'[u] = msg[u] /\ (InHand(u)' => InHand(u))
        /\ \A u \in Loggers : msg[u] \in Nat
    BY <2>1 DEF LoggedType
  <2>3. ~ Contains(accepted, nlogged + 1)
    BY <1>i DEF Contains
  <2>4. \A u \in Loggers : InHand(u) => msg[u] <= nlogged /\ ~ Contains(accepted, msg[u])
    BY DEF FreshInv
  <2>5. ASSUME NEW u \in Loggers, InHand(u)'
        PROVE  msg'[u] <= nlogged' /\ ~ Contains(accepted, msg'[u])
    BY <1>i, <2>1, <2>2, <2>3, <2>4, <2>5
  <2>6. ASSUME NEW u \in Loggers, NEW v \in Loggers, InHand(u)', InHand(v)', msg'[u] = msg'[v]
        PROVE  u = v
    <3>1. \A w \in Loggers : w # t /\ InHand(w)' => msg'[w] <= nlogged /\ msg'[w] \in Nat
      BY <2>2, <2>4
    <3>2. (u = t) = (v = t)
      BY <1>i, <2>2, <2>6, <3>1
    <3>3. CASE u # t /\ v # t
      BY <2>2, <2>6, <3>3 DEF FreshInv
    <3> QED BY <3>2, <3>3
  <2>7. \A i \in DOMAIN accepted' : accepted'[i] <= nlogged'
    BY <1>i, <2>1
  <2>8. IsInjective(accepted')
    BY <2>1 DEF FreshInv
  <2> HIDE DEF InHand
  <2>9. \A u \in Loggers : InHand(u)' => msg'[u] <= nlogged' /\ ~ Contains(accepted', msg'[u])
    BY <2>1, <2>5
  <2> QED BY <2>6, <2>7, <2>8, <2>9 DEF FreshInv
<1>2. ASSUME NEW t \in Loggers, LockFile(t)
      PROVE  FreshInv'
  BY <1>2, <1>e DEF LockFile
<1>3. ASSUME NEW t \in Loggers, WriteDirect(t)
      PROVE  FreshInv'
  BY <1>3, <1>k DEF WriteDirect, Take
<1>4. ASSUME NEW t \in Loggers, LockBuffer(t)
      PROVE  FreshInv'
  BY <1>4, <1>e DEF LockBuffer, CallMem2File, Full
<1>5. ASSUME NEW t \in Loggers, AddToBuffer(t)
      PROVE  FreshInv'
  BY <1>5, <1>k DEF AddToBuffer, Take
<1>6. ASSUME NEW t \in Loggers, RollOver(t)
      PROVE  FreshInv'
  BY <1>6, <1>e DEF RollOver, CallMem2File
<1>7. ASSUME NEW t \in Loggers, LogMsgEnds(t) \/ CloseLog(t) \/ CreateLog(t) \/ CreateLogFails(t)
      PROVE  FreshInv'
  BY <1>7, <1>e DEF LogMsgEnds, CloseLog, CreateLog, CreateLogFails
<1>8. ASSUME NEW t \in Threads, Mem2File(t) \/ Mem2FileWrite(t) \/ Mem2FileReset(t)
      PROVE  FreshInv'
  BY <1>8, <1>e DEF Mem2File, Mem2FileWrite, Mem2FileReset
<1>9. CASE FlushMem2File \/ FlushEnds
  BY <1>9, <1>e DEF FlushMem2File, FlushEnds, CallMem2File
<1>10. CASE UNCHANGED vars
  BY <1>10, <1>e DEF vars
<1> QED BY <1>1, <1>2, <1>3, <1>4, <1>5, <1>6, <1>7, <1>8, <1>9, <1>10
      DEF Next, Proceed, WriteBuffer

\* What is in a file or in use of the buffer was taken.
LEMMA TakenStep ==
    ASSUME IInv, TakenInv, [Next]_vars
    PROVE  TakenInv'
<1>a. /\ PlaceType /\ BufferType /\ FileType /\ LoggedType /\ ControlInv
      /\ m_pBuffer \in Seq(Messages) /\ m_nBufferUse \in Nat /\ m_nBufferUse <= Len(m_pBuffer)
      /\ accepted \in Seq(Messages) /\ files \in Seq(Seq(Messages))
  BY TypeOfParts DEF IInv, BufferType, FileType, LoggedType
<1>b. /\ \A f \in DOMAIN files : \A i \in DOMAIN files[f] : Contains(accepted, files[f][i])
      /\ \A i \in 1 .. m_nBufferUse : Contains(accepted, m_pBuffer[i])
  BY DEF TakenInv
<1>e. ASSUME UNCHANGED <<buffer, files, accepted>>
      PROVE  TakenInv'
  BY <1>e DEF TakenInv, buffer, Contains
<1>w. ASSUME m_pLogFile \in 1 .. Len(files), NEW ms \in Seq(Messages), Write(ms),
             \A x : Contains(accepted, x) => Contains(accepted', x),
             \A k \in 1 .. Len(ms) : Contains(accepted', ms[k])
      PROVE  \A f \in DOMAIN files' : \A i \in DOMAIN files'[f] : Contains(accepted', files'[f][i])
  <2> SUFFICES ASSUME NEW f \in DOMAIN files', NEW i \in DOMAIN files'[f]
               PROVE  Contains(accepted', files'[f][i])
    OBVIOUS
  <2>1. f \in DOMAIN files /\ m_pLogFile \in DOMAIN files
    BY <1>a, <1>w, WritePlaces
  <2>2. CASE f # m_pLogFile
    <3>1. files'[f] = files[f]
      BY <1>a, <1>w, <2>1, <2>2, WritePlaces
    <3> QED BY <1>b, <1>w, <2>1, <3>1
  <2>3. CASE f = m_pLogFile
    <3>1. \/ i \in DOMAIN files[f] /\ files'[f][i] = files[f][i]
          \/ \E k \in 1 .. Len(ms) : files'[f][i] = ms[k]
      BY <1>a, <1>w, <2>3, WritePlaces
    <3> QED BY <1>b, <1>w, <2>1, <3>1
  <2> QED BY <2>2, <2>3
<1> USE <1>a, ThreadFacts DEF PlaceType, buffer, file, locks, logged, At, Goto
<1>1. ASSUME NEW t \in Loggers, LogMsg(t) \/ LockFile(t) \/ LockBuffer(t)
      PROVE  TakenInv'
  BY <1>1, <1>e DEF LogMsg, LockFile, LockBuffer
<1>2. ASSUME NEW t \in Loggers, WriteDirect(t)
      PROVE  TakenInv'
  <2>1. /\ pc[t] = "direct" /\ Write(<<msg[t]>>) /\ accepted' = Append(accepted, msg[t])
        /\ UNCHANGED <<m_pBuffer, m_nBufferUse>>
    BY <1>2 DEF WriteDirect, Take
  <2>2. m_pLogFile \in 1 .. Len(files)
    BY <2>1, Alone DEF HoldsFile
  <2>3. PICK m \in Messages : m = msg[t]
    BY <2>1 DEF ControlInv
  <2>4. \E s \in Seq(Messages) : s = <<m>> /\ Len(s) = 1 /\ s[1] = m
    <3>1. <<m>> \in Seq(Messages) /\ Len(<<m>>) = 1 /\ <<m>>[1] = m
      OBVIOUS
    <3> QED BY <3>1
  <2>5. PICK ms \in Seq(Messages) : ms = <<m>> /\ Len(ms) = 1 /\ ms[1] = m
    BY <2>4
  <2>6. \A x : Contains(accepted', x) <=> Contains(accepted, x) \/ x = m
    BY <2>1, <2>3, TakeFacts
  <2>7. \A k \in 1 .. Len(ms) : Contains(accepted', ms[k])
    <3>1. \A k \in 1 .. Len(ms) : ms[k] = m
      BY <2>5
    <3> QED BY <2>6, <3>1
  <2>8. \A f \in DOMAIN files' : \A i \in DOMAIN files'[f] : Contains(accepted', files'[f][i])
    BY <1>w, <2>1, <2>2, <2>3, <2>5, <2>6, <2>7
  <2> QED BY <1>b, <2>1, <2>6, <2>8 DEF TakenInv
<1>3. ASSUME NEW t \in Loggers, AddToBuffer(t)
      PROVE  TakenInv'
  <2>1. /\ pc[t] = "add" /\ accepted' = Append(accepted, msg[t]) /\ files' = files
        /\ m_nBufferUse' = m_nBufferUse + 1
        /\ m_pBuffer' = Append(InUse, msg[t])
                           \o SubSeq(m_pBuffer, m_nBufferUse + 2, Len(m_pBuffer))
    BY <1>3 DEF AddToBuffer, Take
  <2>2. PICK m \in Messages : m = msg[t]
    BY <2>1 DEF ControlInv
  <2>3. \E b \in Seq(Messages) :
           /\ b = Append(InUse, m) \o SubSeq(m_pBuffer, m_nBufferUse + 2, Len(m_pBuffer))
           /\ \A i \in 1 .. m_nBufferUse : b[i] = m_pBuffer[i]
           /\ b[m_nBufferUse + 1] = m
    BY <2>2, FillFacts
  <2>4. /\ \A i \in 1 .. m_nBufferUse : m_pBuffer'[i] = m_pBuffer[i]
        /\ m_pBuffer'[m_nBufferUse + 1] = m
    BY <2>1, <2>2, <2>3, Zenon
  <2>5. \A x : Contains(accepted', x) <=> Contains(accepted, x) \/ x = m
    BY <2>1, <2>2, TakeFacts
  <2>6. \A i \in 1 .. m_nBufferUse + 1 : i \in 1 .. m_nBufferUse \/ i = m_nBufferUse + 1
    OBVIOUS
  <2>7. \A i \in 1 .. m_nBufferUse' : Contains(accepted', m_pBuffer'[i])
    BY <1>b, <2>1, <2>4, <2>5, <2>6, Zenon
  <2>8. \A f \in DOMAIN files' : \A i \in DOMAIN files'[f] : Contains(accepted', files'[f][i])
    BY <1>b, <2>1, <2>5
  <2> QED BY <2>7, <2>8 DEF TakenInv
<1>4. ASSUME NEW t \in Loggers, RollOver(t) \/ LogMsgEnds(t) \/ CloseLog(t) \/ CreateLogFails(t)
      PROVE  TakenInv'
  BY <1>4, <1>e DEF RollOver, LogMsgEnds, CloseLog, CreateLogFails
<1>5. ASSUME NEW t \in Loggers, CreateLog(t)
      PROVE  TakenInv'
  <2>1. UNCHANGED <<m_pBuffer, m_nBufferUse, accepted>>
    BY <1>5 DEF CreateLog
  <2>2. /\ files' \in Seq(Seq(Messages))
        /\ \A f \in 1 .. Len(files') : \A i \in 1 .. Len(files'[f]) :
              f \in 1 .. Len(files) /\ files'[f] = files[f]
    BY <1>5, OpenFacts DEF CreateLog, FileType
  <2>3. ASSUME NEW f \in DOMAIN files', NEW i \in DOMAIN files'[f]
        PROVE  Contains(accepted, files'[f][i])
    <3>1. f \in 1 .. Len(files') /\ i \in 1 .. Len(files'[f])
      BY <2>2
    <3>2. f \in DOMAIN files /\ files'[f] = files[f]
      BY <2>2, <3>1
    <3> QED BY <1>b, <3>2
  <2> QED BY <1>b, <2>1, <2>3 DEF TakenInv, Contains
<1>6. ASSUME NEW t \in Threads, Mem2File(t)
      PROVE  TakenInv'
  BY <1>6, <1>e DEF Mem2File
<1>7. ASSUME NEW t \in Threads, Mem2FileWrite(t)
      PROVE  TakenInv'
  <2>1. /\ Write(InUse) /\ m_pLogFile # 0 /\ UNCHANGED <<m_pBuffer, m_nBufferUse, accepted>>
    BY <1>7 DEF Mem2FileWrite
  <2>2. m_pLogFile \in 1 .. Len(files)
    BY <2>1 DEF FileType
  <2>3. /\ InUse \in Seq(Messages) /\ Len(InUse) = m_nBufferUse
        /\ \A i \in 1 .. m_nBufferUse : InUse[i] = m_pBuffer[i]
    BY InUseFacts
  <2>4. PICK ms \in Seq(Messages) : ms = InUse
    BY <2>3
  <2>5. \A k \in 1 .. Len(ms) : Contains(accepted', ms[k])
    BY <1>b, <2>1, <2>3, <2>4
  <2>6. \A f \in DOMAIN files' : \A i \in DOMAIN files'[f] : Contains(accepted', files'[f][i])
    BY <1>w, <2>1, <2>2, <2>4, <2>5
  <2> QED BY <1>b, <2>1, <2>6 DEF TakenInv
<1>8. ASSUME NEW t \in Threads, Mem2FileReset(t)
      PROVE  TakenInv'
  <2>1. m_nBufferUse' = 0 /\ UNCHANGED <<files, accepted>>
    BY <1>8 DEF Mem2FileReset, ResetUse
  <2> QED BY <1>b, <2>1 DEF TakenInv, Contains
<1>9. CASE FlushMem2File \/ FlushEnds
  BY <1>9, <1>e DEF FlushMem2File, FlushEnds
<1>10. CASE UNCHANGED vars
  BY <1>10, <1>e DEF vars
<1> QED BY <1>1, <1>2, <1>3, <1>4, <1>5, <1>6, <1>7, <1>8, <1>9, <1>10
      DEF Next, Proceed, WriteBuffer

\* The open file is the last one: what is written to it is behind all that was written.
LEMMA WriteBehind ==
    ASSUME files \in Seq(Seq(Messages)), m_pLogFile \in 1 .. Len(files), m_pLogFile = Len(files),
           NEW ms \in Seq(Messages), Write(ms), FilesOrdered,
           \A x, y : TakenBefore(x, y) => TakenBefore(x, y)',
           \A k, l \in 1 .. Len(ms) : k < l => TakenBefore(ms[k], ms[l])',
           \A x : Written(x) => \A k \in 1 .. Len(ms) : TakenBefore(x, ms[k])'
    PROVE  FilesOrdered'
<1> PICK n : n = m_pLogFile
  OBVIOUS
<1> PICK m : m = Len(files[m_pLogFile])
  OBVIOUS
<1>1. /\ DOMAIN files' = DOMAIN files /\ DOMAIN files = 1 .. n /\ n \in Nat
      /\ \A f \in DOMAIN files : f # n => files'[f] = files[f]
  BY WritePlaces
<1>2. \A i \in DOMAIN files'[n] :
         \/ i \in DOMAIN files[n] /\ files'[n][i] = files[n][i]
         \/ \E k \in 1 .. Len(ms) : i = m + k /\ files'[n][i] = ms[k]
  BY WritePlaces
<1>3. /\ m \in Nat /\ DOMAIN files[n] = 1 .. m /\ Len(ms) \in Nat
      /\ \A f \in DOMAIN files : DOMAIN files[f] = 1 .. Len(files[f])
  OBVIOUS
<1> SUFFICES ASSUME NEW f \in 1 .. n, NEW g \in 1 .. n,
                    NEW i \in DOMAIN files'[f], NEW j \in DOMAIN files'[g],
                    f < g \/ (f = g /\ i < j),
                    NEW x, NEW y, x = files'[f][i], y = files'[g][j]
             PROVE  TakenBefore(x, y)'
  BY <1>1, Zenon DEF FilesOrdered
<1>4. \/ i \in DOMAIN files[f] /\ x = files[f][i]
      \/ f = n /\ \E k \in 1 .. Len(ms) : i = m + k /\ x = ms[k]
  BY <1>1, <1>2, Zenon
<1>5. \/ j \in DOMAIN files[g] /\ y = files[g][j]
      \/ g = n /\ \E k \in 1 .. Len(ms) : j = m + k /\ y = ms[k]
  BY <1>1, <1>2, Zenon
<1>6. CASE i \in DOMAIN files[f] /\ x = files[f][i] /\ j \in DOMAIN files[g] /\ y = files[g][j]
  <2>1. TakenBefore(x, y)
    BY <1>1, <1>6, Zenon DEF FilesOrdered
  <2> QED BY <2>1
<1>7. CASE i \in DOMAIN files[f] /\ x = files[f][i] /\ \E k \in 1 .. Len(ms) : y = ms[k]
  <2>1. Written(x)
    BY <1>1, <1>3, <1>7, Zenon DEF Written, Contains
  <2> QED BY <1>7, <2>1, Zenon
<1>8. ASSUME f = n, NEW k \in 1 .. Len(ms), i = m + k, x = ms[k]
      PROVE  TakenBefore(x, y)'
  <2>1. g = n /\ i < j
    BY <1>1, <1>8
  <2>2. i \in Nat /\ m < i
    BY <1>3, <1>8
  <2>3. ~ (j \in DOMAIN files[g])
    BY <1>3, <2>1, <2>2
  <2>4. PICK l \in 1 .. Len(ms) : j = m + l /\ y = ms[l]
    BY <1>5, <2>3, Zenon
  <2>5. k < l
    BY <1>3, <1>8, <2>1, <2>4
  <2> QED BY <1>8, <2>4, <2>5, Zenon
<1> QED BY <1>4, <1>5, <1>6, <1>7, <1>8, Zenon

\* What RestOrdered says of a sequence that is what is unwritten.
Follow(us) == /\ \A k, l \in 1 .. Len(us) : k < l => TakenBefore(us[k], us[l])
              /\ \A x : Written(x) => \A k \in 1 .. Len(us) : TakenBefore(x, us[k])

LEMMA RestFacts ==
    ASSUME NEW us \in Seq(Messages)
    PROVE  /\ files \in Seq(Seq(Messages)) /\ us = Unwritten => (RestOrdered <=> Follow(us))
           /\ files' \in Seq(Seq(Messages)) /\ us = Unwritten' => (RestOrdered' <=> Follow(us)')
<1>1. DOMAIN us = 1 .. Len(us)
  OBVIOUS
<1>2. ASSUME files \in Seq(Seq(Messages)), us = Unwritten
      PROVE  RestOrdered <=> Follow(us)
  <2>1. \A f \in DOMAIN files : DOMAIN files[f] = 1 .. Len(files[f])
    BY <1>2
  <2> QED BY <1>1, <1>2, <2>1, Zenon
          DEF RestOrdered, Follow, InOrder, Precede, Written, Contains
<1>3. ASSUME files' \in Seq(Seq(Messages)), us = Unwritten'
      PROVE  RestOrdered' <=> Follow(us)'
  <2>1. \A f \in DOMAIN files' : DOMAIN files'[f] = 1 .. Len(files'[f])
    BY <1>3
  <2> QED BY <1>1, <1>3, <2>1, Zenon
          DEF RestOrdered, Follow, InOrder, Precede, Written, Contains
<1> QED BY <1>2, <1>3

\* What is not written yet is what is in use, unless it is about to be emptied.
LEMMA OrderStep ==
    ASSUME IInv, OnceInv, [Next]_vars
    PROVE  OrderInv'
<1>a. /\ PlaceType /\ BufferType /\ FileType /\ LoggedType /\ ControlInv /\ LockInv
      /\ m_pBuffer \in Seq(Messages) /\ m_nBufferUse \in Nat /\ m_nBufferUse <= Len(m_pBuffer)
      /\ accepted \in Seq(Messages) /\ files \in Seq(Seq(Messages))
  BY TypeOfParts DEF IInv, BufferType, FileType, LoggedType
<1>h. files' \in Seq(Seq(Messages))
  BY FilesStep DEF FileType
<1>b. races' = {} => races = {}
  BY RacesGrow
<1> SUFFICES ASSUME races' = {}
             PROVE  FilesOrdered' /\ RestOrdered'
  BY DEF OrderInv
<1>c. /\ FilesOrdered /\ RestOrdered
      /\ \A t, u \in Threads : Writing(t) /\ Writing(u) => t = u
  BY <1>b DEF OnceInv, OrderInv, OneWrites
<1>x. \A x : Written(x) => Contains(accepted, x)
  <2> SUFFICES ASSUME NEW x, NEW f \in DOMAIN files, NEW i \in 1 .. Len(files[f]), files[f][i] = x
               PROVE  Contains(accepted, x)
    BY DEF Written, Contains
  <2>1. i \in DOMAIN files[f]
    BY <1>a
  <2> QED BY <2>1 DEF OnceInv, TakenInv
<1>d. /\ InUse \in Seq(Messages) /\ Len(InUse) = m_nBufferUse
      /\ \A i \in 1 .. m_nBufferUse : InUse[i] = m_pBuffer[i]
  BY <1>a, InUseFacts
<1>f. m_nBufferUse' = 0 => InUse' = <<>>
  BY SubSeqEmpty DEF InUse
<1> DEFINE Goal == FilesOrdered' /\ RestOrdered'
           Idle == \A u \in Threads : pc[u] # "reset"
           Idle1 == \A u \in Threads : pc'[u] # "reset"
<1>g. (Idle => Unwritten = InUse) /\ (Idle1 => Unwritten' = InUse')
  BY DEF Unwritten, At
<1>z. Unwritten' = <<>> => RestOrdered'
  BY DEF RestOrdered, InOrder, Precede
<1>e. ASSUME UNCHANGED <<buffer, files, accepted>>,
             \A u \in Threads : pc'[u] = "reset" <=> pc[u] = "reset"
      PROVE  Goal
  <2>1. InUse' = InUse
    BY <1>e DEF buffer, InUse
  <2>2. Unwritten' = Unwritten
    BY <1>e, <2>1 DEF Unwritten, At
  <2> QED BY <1>c, <1>e, <2>2
          DEF FilesOrdered, RestOrdered, InOrder, Precede, TakenBefore
<1> SUFFICES Goal
  OBVIOUS
<1> HIDE DEF Goal, Idle, Idle1
<1> USE <1>a, ThreadFacts DEF PlaceType, buffer, file, locks, logged, At, Goto
<1>1. ASSUME NEW t \in Loggers, LogMsg(t)
      PROVE  Goal
  BY <1>1, <1>e DEF LogMsg
<1>2. ASSUME NEW t \in Loggers, LockFile(t)
      PROVE  Goal
  BY <1>2, <1>e DEF LockFile
<1>3. ASSUME NEW t \in Loggers, WriteDirect(t)
      PROVE  Goal
  <2>1. /\ pc[t] = "direct" /\ Write(<<msg[t]>>) /\ accepted' = Append(accepted, msg[t])
        /\ UNCHANGED <<m_pBuffer, m_nBufferUse>>
    BY <1>3 DEF WriteDirect, Take
  <2>2. m_nBufferUse = 0
    BY <2>1 DEF OnceInv, DirectInv, BufferType
  <2>3. Unwritten' = <<>>
    BY <1>f, <2>1, <2>2 DEF Unwritten
  <2>4. m_pLogFile \in 1 .. Len(files) /\ m_pLogFile = Len(files)
    BY <2>1, Alone DEF HoldsFile
  <2>5. PICK m \in Messages : m = msg[t]
    BY <2>1 DEF ControlInv
  <2>6. \E q \in Seq(Messages) : q = <<m>> /\ Len(q) = 1 /\ q[1] = m
    <3>1. <<m>> \in Seq(Messages) /\ Len(<<m>>) = 1 /\ <<m>>[1] = m
      OBVIOUS
    <3> QED BY <3>1
  <2>7. PICK ms \in Seq(Messages) : ms = <<m>> /\ Len(ms) = 1 /\ ms[1] = m
    BY <2>6
  <2>8. /\ \A x, y : TakenBefore(x, y) => TakenBefore(x, y)'
        /\ \A x : Contains(accepted, x) => TakenBefore(x, m)'
    BY <2>1, <2>5, TakeFacts
  <2>9. \A k \in 1 .. Len(ms) : k = 1
    BY <2>7
  <2>10. /\ \A k, l \in 1 .. Len(ms) : k < l => TakenBefore(ms[k], ms[l])'
         /\ \A x : Written(x) => \A k \in 1 .. Len(ms) : TakenBefore(x, ms[k])'
    <3>1. \A k, l \in 1 .. Len(ms) : ~ (k < l)
      BY <2>9
    <3> QED BY <1>x, <2>7, <2>8, <2>9, <3>1, Zenon
  <2>11. Write(ms)
    BY <2>1, <2>5, <2>7
  <2>12. FilesOrdered'
    BY <1>c, <2>4, <2>8, <2>10, <2>11, WriteBehind
  <2> QED BY <1>z, <2>3, <2>12 DEF Goal
<1>4. ASSUME NEW t \in Loggers, LockBuffer(t)
      PROVE  Goal
  BY <1>4, <1>e DEF LockBuffer, CallMem2File, Full
<1>5. ASSUME NEW t \in Loggers, AddToBuffer(t)
      PROVE  Goal
  <2>1. /\ pc[t] = "add" /\ pc' = [pc EXCEPT ![t] = "size"] /\ files' = files
        /\ accepted' = Append(accepted, msg[t]) /\ m_nBufferUse' = m_nBufferUse + 1
        /\ m_pBuffer' = Append(InUse, msg[t])
                           \o SubSeq(m_pBuffer, m_nBufferUse + 2, Len(m_pBuffer))
    BY <1>5 DEF AddToBuffer, Take
  <2>2. \A u \in Loggers : HoldsFile(u) => u = t
    BY <2>1, Alone DEF HoldsFile
  <2>3. pc[Flusher] = "idle"
    BY <2>1 DEF LockInv, HoldsBuffer
  <2>4. \A u \in Threads : pc[u] # "reset" /\ pc'[u] # "reset"
    BY <2>1, <2>2, <2>3 DEF HoldsFile
  <2>5. Unwritten = InUse /\ Unwritten' = InUse'
    BY <1>g, <2>4 DEF Idle, Idle1
  <2>6. PICK m \in Messages : m = msg[t]
    BY <2>1 DEF ControlInv
  <2>7. \E b \in Seq(Messages) :
           /\ b = Append(InUse, m) \o SubSeq(m_pBuffer, m_nBufferUse + 2, Len(m_pBuffer))
           /\ m_nBufferUse + 1 <= Len(b)
           /\ \A i \in 1 .. m_nBufferUse : b[i] = m_pBuffer[i]
           /\ b[m_nBufferUse + 1] = m
    BY <2>6, FillFacts
  <2>8. /\ m_pBuffer' \in Seq(Messages) /\ m_nBufferUse' <= Len(m_pBuffer')
        /\ \A i \in 1 .. m_nBufferUse : m_pBuffer'[i] = m_pBuffer[i]
        /\ m_pBuffer'[m_nBufferUse + 1] = m
    BY <2>1, <2>6, <2>7, Zenon
  <2>9. /\ InUse' \in Seq(Messages) /\ Len(InUse') = m_nBufferUse + 1
        /\ \A i \in 1 .. m_nBufferUse + 1 : InUse'[i] = m_pBuffer'[i]
    <3>1. m_nBufferUse' \in Nat /\ InUse' = SubSeq(m_pBuffer', 1, m_nBufferUse')
      BY <2>1 DEF InUse
    <3>2. \A i \in 1 .. m_nBufferUse' : m_pBuffer'[i] \in Messages
      BY <2>8, <3>1
    <3>3. PICK b, n : b = m_pBuffer' /\ n = m_nBufferUse'
      OBVIOUS
    <3>4. n \in Nat /\ \A i \in 1 .. n : b[i] \in Messages
      BY <3>1, <3>2, <3>3
    <3>5. /\ SubSeq(b, 1, n) \in Seq(Messages) /\ Len(SubSeq(b, 1, n)) = n
          /\ \A i \in 1 .. n : SubSeq(b, 1, n)[i] = b[i]
      BY <3>4, SubSeqFirst
    <3> QED BY <2>1, <3>1, <3>3, <3>5
  <2>10. PICK us \in Seq(Messages), vs \in Seq(Messages) : us = InUse /\ vs = InUse'
    BY <1>d, <2>9
  <2>11. /\ Len(us) = m_nBufferUse /\ Len(vs) = Len(us) + 1 /\ vs[Len(us) + 1] = m
         /\ \A i \in 1 .. Len(us) : vs[i] = us[i]
    BY <1>d, <2>8, <2>9, <2>10
  <2>12. /\ \A x, y : TakenBefore(x, y) => TakenBefore(x, y)'
         /\ \A x : Contains(accepted, x) => TakenBefore(x, m)'
    BY <2>1, <2>6, TakeFacts
  <2>13. Follow(us)
    BY <1>c, <2>5, <2>10, RestFacts
  <2>14. \A i \in 1 .. Len(us) : Contains(accepted, us[i])
    BY <1>d, <2>10 DEF OnceInv, TakenInv
  <2>15. \A k \in 1 .. Len(us) + 1 : k \in 1 .. Len(us) \/ k = Len(us) + 1
    OBVIOUS
  <2>16. ASSUME NEW k \in 1 .. Len(vs), NEW l \in 1 .. Len(vs), k < l
         PROVE  TakenBefore(vs[k], vs[l])'
    <3>1. k \in 1 .. Len(us) /\ vs[k] = us[k]
      <4>1. Len(us) \in Nat
        OBVIOUS
      <4>2. k # Len(us) + 1
        BY <2>11, <2>16, <4>1
      <4> QED BY <2>11, <2>15, <4>2, Zenon
    <3>2. CASE l \in 1 .. Len(us)
      BY <2>11, <2>12, <2>13, <2>16, <3>1, <3>2, Zenon DEF Follow
    <3>3. CASE l = Len(us) + 1
      BY <2>11, <2>12, <2>14, <3>1, <3>3, Zenon
    <3> QED BY <2>11, <2>15, <3>2, <3>3
  <2>17. \A x : Written(x)' <=> Written(x)
    BY <2>1 DEF Written
  <2>18. ASSUME NEW x, Written(x), NEW k \in 1 .. Len(vs)
         PROVE  TakenBefore(x, vs[k])'
    <3>1. CASE k \in 1 .. Len(us)
      BY <2>11, <2>12, <2>13, <2>18, <3>1, Zenon DEF Follow
    <3>2. CASE k = Len(us) + 1
      BY <1>x, <2>11, <2>12, <2>18, <3>2, Zenon
    <3> QED BY <2>11, <2>15, <3>1, <3>2
  <2>19. Follow(vs)'
    BY <2>16, <2>17, <2>18, Zenon DEF Follow
  <2>20. RestOrdered'
    BY <1>h, <2>5, <2>10, <2>19, RestFacts
  <2>21. FilesOrdered'
    BY <1>c, <2>1, <2>12 DEF FilesOrdered
  <2> QED BY <2>20, <2>21 DEF Goal
<1>6. ASSUME NEW t \in Loggers, RollOver(t)
      PROVE  Goal
  BY <1>6, <1>e DEF RollOver, CallMem2File
<1>7. ASSUME NEW t \in Loggers, LogMsgEnds(t)
      PROVE  Goal
  BY <1>7, <1>e DEF LogMsgEnds
<1>8. ASSUME NEW t \in Loggers, CloseLog(t)
      PROVE  Goal
  BY <1>8, <1>e DEF CloseLog
<1>9. ASSUME NEW t \in Loggers, CreateLog(t)
      PROVE  Goal
  <2>1. /\ pc[t] = "open" /\ pc' = [pc EXCEPT ![t] = "idle"]
        /\ UNCHANGED <<m_pBuffer, m_nBufferUse, accepted>>
    BY <1>9 DEF CreateLog
  <2>2. /\ Len(files') = Len(files) + 1
        /\ \A f \in 1 .. Len(files') : \A i \in 1 .. Len(files'[f]) :
              f \in 1 .. Len(files) /\ files'[f] = files[f]
    BY <1>9, OpenFacts DEF CreateLog, FileType
  <2>3. \A f \in DOMAIN files' : \A i \in DOMAIN files'[f] :
           f \in DOMAIN files /\ i \in DOMAIN files[f] /\ files'[f] = files[f]
    <3> SUFFICES ASSUME NEW f \in DOMAIN files', NEW i \in DOMAIN files'[f]
                 PROVE  f \in DOMAIN files /\ i \in DOMAIN files[f] /\ files'[f] = files[f]
      OBVIOUS
    <3>1. f \in 1 .. Len(files') /\ i \in 1 .. Len(files'[f])
      BY <1>h
    <3>2. f \in 1 .. Len(files) /\ files'[f] = files[f]
      BY <2>2, <3>1
    <3> QED BY <3>2
  <2>4. InUse' = InUse
    BY <2>1 DEF InUse
  <2>5. Unwritten' = Unwritten
    BY <2>1, <2>4 DEF Unwritten
  <2>6. \A x, y : TakenBefore(x, y)' <=> TakenBefore(x, y)
    BY <2>1 DEF TakenBefore
  <2>7. FilesOrdered'
    BY <1>c, <2>3, <2>6 DEF FilesOrdered
  <2>8. RestOrdered'
    BY <1>c, <2>3, <2>5, <2>6 DEF RestOrdered, InOrder, Precede
  <2> QED BY <2>7, <2>8 DEF Goal
<1>10. ASSUME NEW t \in Threads, Mem2File(t)
      PROVE  Goal
  BY <1>10, <1>e DEF Mem2File
<1>11. ASSUME NEW t \in Threads, Mem2FileWrite(t)
      PROVE  Goal
  <2>1. /\ pc[t] = "write" /\ pc' = [pc EXCEPT ![t] = "reset"] /\ Write(InUse) /\ m_pLogFile # 0
        /\ accepted' = accepted
    BY <1>11 DEF Mem2FileWrite
  <2>2. \A u \in Threads : pc[u] # "reset"
    BY <1>c, <2>1 DEF Writing
  <2>3. Unwritten = InUse
    BY <1>g, <2>2 DEF Idle
  <2>4. Unwritten' = <<>>
    BY <2>1 DEF Unwritten
  <2>5. m_pLogFile \in 1 .. Len(files) /\ m_pLogFile = Len(files)
    BY <2>1 DEF FileType
  <2>6. PICK ms \in Seq(Messages) : ms = InUse
    BY <1>d
  <2>7. Write(ms)
    BY <2>1, <2>6
  <2>8. \A x, y : TakenBefore(x, y)' <=> TakenBefore(x, y)
    BY <2>1 DEF TakenBefore
  <2>9. Follow(ms)
    BY <1>c, <2>3, <2>6, RestFacts
  <2>10. /\ \A k, l \in 1 .. Len(ms) : k < l => TakenBefore(ms[k], ms[l])'
         /\ \A x : Written(x) => \A k \in 1 .. Len(ms) : TakenBefore(x, ms[k])'
    BY <2>8, <2>9, Zenon DEF Follow
  <2>11. FilesOrdered'
    BY <1>c, <2>5, <2>7, <2>8, <2>10, WriteBehind
  <2> QED BY <1>z, <2>4, <2>11 DEF Goal
<1>12. ASSUME NEW t \in Threads, Mem2FileReset(t)
      PROVE  Goal
  <2>1. pc[t] = "reset" /\ m_nBufferUse' = 0 /\ files' = files /\ accepted' = accepted
    BY <1>12 DEF Mem2FileReset, ResetUse
  <2>2. Unwritten' = <<>>
    BY <1>f, <2>1 DEF Unwritten
  <2>3. FilesOrdered'
    BY <1>c, <2>1 DEF FilesOrdered, TakenBefore
  <2> QED BY <1>z, <2>2, <2>3 DEF Goal
<1>13. ASSUME FlushMem2File
      PROVE  Goal
  BY <1>13, <1>e DEF FlushMem2File, CallMem2File
<1>14. ASSUME FlushEnds
      PROVE  Goal
  BY <1>14, <1>e DEF FlushEnds
<1>15. ASSUME UNCHANGED vars
       PROVE  Goal
  BY <1>15, <1>e DEF vars
<1>16. ASSUME NEW t \in Loggers, CreateLogFails(t)
       PROVE  Goal
  BY <1>16, <1>e DEF CreateLogFails
<1> QED BY <1>1, <1>2, <1>3, <1>4, <1>5, <1>6, <1>7, <1>8, <1>9, <1>10, <1>11, <1>12, <1>13,
      <1>14, <1>15, <1>16 DEF Next, Proceed, WriteBuffer

(***************************************************************************)
(* Until the roll-over and the flush write the buffer at the same time, no *)
(* message is in the files twice, or in a file and still in the buffer,    *)
(* and they are there in the order LogMsg took them, whichever files were  *)
(* emptied by being opened anew: for any number of loggers, of messages    *)
(* and of files, and any size of the buffer.                               *)
(***************************************************************************)
THEOREM LogWrittenOnce == Spec => []WrittenOnceInOrder
<1>1. Init => OnceInv
  BY OnceInit
<1>2. IInv /\ OnceInv /\ [Next]_vars => OnceInv'
  <2> SUFFICES ASSUME IInv, OnceInv, [Next]_vars PROVE OnceInv'
    OBVIOUS
  <2>1. OneWrites /\ DirectInv /\ FreshInv /\ TakenInv
    BY DEF OnceInv
  <2> QED BY <2>1, OneWritesStep, DirectStep, FreshStep, TakenStep, OrderStep DEF OnceInv
<1>3. OnceInv => WrittenOnceInOrder
  <2> SUFFICES ASSUME OnceInv, races = {} PROVE WrittenOnceInOrder
    BY DEF WrittenOnceInOrder
  <2>1. IsInjective(accepted) /\ FilesOrdered /\ RestOrdered
    BY DEF OnceInv, FreshInv, OrderInv
  <2> QED BY <2>1 DEF WrittenOnceInOrder, FilesOrdered, RestOrdered, InOrder, Precede
<1> QED BY <1>1, <1>2, <1>3, LogInvariant, PTL DEF Spec
=============================================================================
