------------------------------- MODULE LogFile -------------------------------
(***************************************************************************)
(* CFileCtrl of common/LogFile.cpp, as LogManager uses it: any thread logs *)
(* into a buffer, a thread of its own flushes the buffer now and then, and *)
(* a file that has grown too long is replaced.  m_hMutex is for LogMsg,    *)
(* m_hMutexBuffer for the buffer; the roll-over writes the buffer without  *)
(* the second.                                                             *)
(*                                                                         *)
(* A message has length 1.  Log pops a Message first and logs nothing when *)
(* there is none, and LogMsg nothing while no file is open; neither leaves *)
(* a trace.                                                                *)
(*                                                                         *)
(* A file is named after the local time, to the second, and opened with    *)
(* "w+b": a file of that name, from the same second or from before the     *)
(* clock was set back, is emptied, and its messages are lost.              *)
(*                                                                         *)
(* Definitions marked wrong vary the one below them, to test that the      *)
(* properties would notice; no behaviour uses them.                        *)
(***************************************************************************)
EXTENDS Integers, SequencesExt

CONSTANTS Loggers,        \* threads that log
          Nobody,         \* the holder of a free mutex
          MemSizes,       \* the sizes of the buffer to try, 0 = no buffer
          MaxFileLength,  \* m_dwMaxFileLength
          FirstLengths,   \* what m_nFileLen, never initialized, may be at first
          MaxMessages     \* bound: how many messages are logged

Flusher == "flush"
Threads == Loggers \cup {Flusher}

ASSUME LogFileAssumption ==
    /\ Nobody \notin Threads /\ Flusher \notin Loggers
    /\ MemSizes \subseteq Nat /\ MaxFileLength \in Nat \ {0}
    /\ FirstLengths \subseteq Int /\ MaxMessages \in Nat

VARIABLES g_iMemSize,      \* set once, before anything is logged
          m_hMutex,        \* the thread that holds it
          m_hMutexBuffer,
          m_pBuffer,       \* the messages written to the buffer's places
          m_nBufferUse,    \* how many of them count
          m_pLogFile,      \* the open file, 0 = NULL
          m_nFileLen,
          files,           \* what each file holds, in the order they were opened
          pc, back,        \* control points, and where Mem2File returns to
          msg,             \* the message a thread logs
          nlogged,         \* how many there were
          accepted,        \* ghost: messages in the order they were taken
          wiped,           \* ghost: the messages of files that were opened anew
          races            \* ghost: races entered so far

buffer == <<m_pBuffer, m_nBufferUse>>
file   == <<m_pLogFile, m_nFileLen, files, wiped>>
locks  == <<m_hMutex, m_hMutexBuffer>>
logged == <<msg, nlogged, accepted>>
vars   == <<g_iMemSize, locks, buffer, file, pc, back, logged, races>>

Messages == 1 .. MaxMessages

TypeOK ==
    /\ g_iMemSize \in MemSizes
    /\ m_hMutex \in Loggers \cup {Nobody} /\ m_hMutexBuffer \in Threads \cup {Nobody}
    /\ m_pBuffer \in Seq(Messages) /\ m_nBufferUse \in 0 .. g_iMemSize
    /\ Len(m_pBuffer) \in m_nBufferUse .. g_iMemSize
    /\ files \in Seq(Seq(Messages)) /\ m_pLogFile \in {0, Len(files)} /\ m_nFileLen \in Int
    /\ pc \in [Threads -> {"idle", "lock", "direct", "buffer", "test", "write", "reset", "add",
                           "size", "close", "open", "unlock"}]
    /\ back \in [Threads -> {"add", "close", "unlock"}]
    /\ msg \in [Threads -> 0 .. MaxMessages] /\ nlogged \in 0 .. MaxMessages
    /\ accepted \in Seq(Messages) /\ wiped \subseteq Messages
    /\ races \subseteq {"writtenTwice", "fileClosed", "noFile"}

\* OpenLogFile has opened a file: CreateLog sets m_nFileLen only when it closes
\* one before, and the constructor does not.
Init ==
    /\ g_iMemSize \in MemSizes
    /\ m_hMutex = Nobody /\ m_hMutexBuffer = Nobody
    /\ m_pBuffer = <<>> /\ m_nBufferUse = 0
    /\ files = << <<>> >> /\ m_pLogFile = 1 /\ m_nFileLen \in FirstLengths
    /\ pc = [t \in Threads |-> "idle"] /\ back = [t \in Threads |-> "unlock"]
    /\ msg = [t \in Threads |-> 0] /\ nlogged = 0 /\ accepted = <<>>
    /\ wiped = {} /\ races = {}

At(t, location)   == pc[t] = location
Goto(t, location) == pc' = [pc EXCEPT ![t] = location]
Write(ms)         == files' = [files EXCEPT ![m_pLogFile] = @ \o ms]

\* What of the buffer counts.
InUse == SubSeq(m_pBuffer, 1, m_nBufferUse)

-----------------------------------------------------------------------------
(***************************************************************************)
(* Mem2File, called with m_hMutexBuffer but for the roll-over.             *)
(***************************************************************************)
CallMem2File(t, return) == Goto(t, "test") /\ back' = [back EXCEPT ![t] = return]

WorthWritingTwo == m_pLogFile # 0 /\ m_nBufferUse > 1    \* wrong
WorthWriting    == m_pLogFile # 0 /\ m_nBufferUse > 0

Mem2File(t) ==
    /\ At(t, "test")
    /\ Goto(t, IF WorthWriting THEN "write" ELSE back[t])
    /\ races' = races \cup IF WorthWriting /\ \E u \in Threads \ {t} : pc[u] \in {"write", "reset"}
                           THEN {"writtenTwice"} ELSE {}
    /\ UNCHANGED <<g_iMemSize, locks, buffer, file, back, logged>>

Mem2FileWrite(t) ==
    /\ At(t, "write") /\ m_pLogFile # 0
    /\ Write(InUse)
    /\ Goto(t, "reset")
    /\ UNCHANGED <<g_iMemSize, locks, buffer, m_pLogFile, m_nFileLen, wiped, back, logged, races>>

NoReset  == UNCHANGED m_nBufferUse    \* wrong
ResetUse == m_nBufferUse' = 0

Mem2FileReset(t) ==
    /\ At(t, "reset")
    /\ ResetUse
    /\ Goto(t, back[t])
    /\ UNCHANGED <<g_iMemSize, locks, m_pBuffer, file, back, logged, races>>

-----------------------------------------------------------------------------
(***************************************************************************)
(* LogMsg.                                                                 *)
(***************************************************************************)
LogMsg(t) ==
    /\ At(t, "idle") /\ nlogged < MaxMessages
    /\ m_pLogFile # 0
    /\ nlogged' = nlogged + 1 /\ msg' = [msg EXCEPT ![t] = nlogged + 1]
    /\ Goto(t, "lock")
    /\ UNCHANGED <<g_iMemSize, locks, buffer, file, back, accepted, races>>

LockFile(t) ==
    /\ At(t, "lock") /\ m_hMutex = Nobody /\ m_hMutex' = t
    /\ Goto(t, IF g_iMemSize = 0 THEN "direct" ELSE "buffer")
    /\ UNCHANGED <<g_iMemSize, m_hMutexBuffer, buffer, file, back, logged, races>>

\* The message is in the file or in the buffer, and counted for the file.
Take(t) ==
    /\ accepted' = Append(accepted, msg[t])
    /\ m_nFileLen' = m_nFileLen + 1
    /\ Goto(t, "size")

WriteDirect(t) ==
    /\ At(t, "direct")
    /\ Write(<<msg[t]>>)
    /\ Take(t)
    /\ UNCHANGED <<g_iMemSize, locks, buffer, m_pLogFile, wiped, back, msg, nlogged, races>>

FullWithoutIt == m_nBufferUse > g_iMemSize    \* wrong
Full          == m_nBufferUse + 1 >= g_iMemSize

LockBuffer(t) ==
    /\ At(t, "buffer") /\ m_hMutexBuffer = Nobody /\ m_hMutexBuffer' = t
    /\ IF Full THEN CallMem2File(t, "add") ELSE Goto(t, "add") /\ UNCHANGED back
    /\ UNCHANGED <<g_iMemSize, m_hMutex, buffer, file, logged, races>>

UnlockBoth   == m_hMutexBuffer' = Nobody /\ m_hMutex' = Nobody    \* wrong
UnlockBuffer == m_hMutexBuffer' = Nobody /\ UNCHANGED m_hMutex

AddToBuffer(t) ==
    /\ At(t, "add")
    /\ m_pBuffer' = Append(InUse, msg[t]) \o SubSeq(m_pBuffer, m_nBufferUse + 2, Len(m_pBuffer))
    /\ m_nBufferUse' = m_nBufferUse + 1
    /\ Take(t)
    /\ UnlockBuffer
    /\ UNCHANGED <<g_iMemSize, m_pLogFile, files, wiped, back, msg, nlogged, races>>

OverSize == m_nFileLen >= MaxFileLength

RollOver(t) ==
    /\ At(t, "size") /\ OverSize
    /\ CallMem2File(t, "close")
    /\ UNCHANGED <<g_iMemSize, locks, buffer, file, logged, races>>

LogMsgEnds(t) ==
    /\ At(t, "size") /\ ~ OverSize
    /\ m_hMutex' = Nobody
    /\ Goto(t, "idle")
    /\ UNCHANGED <<g_iMemSize, m_hMutexBuffer, buffer, file, back, logged, races>>

\* CreateLog closes the file, and opens the next.  When the flush thread is about
\* to use the one that is closed, what follows is undefined: the model stops.
CloseLog(t) ==
    /\ At(t, "close")
    /\ m_pLogFile' = 0 /\ m_nFileLen' = 0
    /\ Goto(t, "open")
    /\ races' = races \cup IF pc[Flusher] \in {"write", "reset"} THEN {"fileClosed"} ELSE {}
    /\ UNCHANGED <<g_iMemSize, locks, buffer, files, wiped, back, logged>>

OpenNew == files' = Append(files, <<>>) /\ UNCHANGED wiped

\* The name is that of an earlier file, which is now empty and the last one.
OpenAnew(f) ==
    /\ files' = Append([files EXCEPT ![f] = <<>>], <<>>)
    /\ wiped' = wiped \cup Range(files[f])

CreateLog(t) ==
    /\ At(t, "open")
    /\ OpenNew \/ \E f \in DOMAIN files : OpenAnew(f)
    /\ m_pLogFile' = Len(files) + 1
    /\ m_hMutex' = Nobody
    /\ Goto(t, "idle")
    /\ UNCHANGED <<g_iMemSize, m_hMutexBuffer, buffer, m_nFileLen, back, logged, races>>

\* fopen gives NULL, which fseek is called with: the model stops.
CreateLogFails(t) ==
    /\ At(t, "open")
    /\ races' = races \cup {"noFile"}
    /\ UNCHANGED <<g_iMemSize, locks, buffer, file, pc, back, logged>>

-----------------------------------------------------------------------------
(***************************************************************************)
(* FlushMem2File, on LogRunnable's thread every few seconds.               *)
(***************************************************************************)
FlushMem2File ==
    /\ At(Flusher, "idle") /\ m_hMutexBuffer = Nobody /\ m_hMutexBuffer' = Flusher
    /\ g_iMemSize > 0
    /\ CallMem2File(Flusher, "unlock")
    /\ UNCHANGED <<g_iMemSize, m_hMutex, buffer, file, logged, races>>

FlushEnds ==
    /\ At(Flusher, "unlock") /\ m_hMutexBuffer' = Nobody
    /\ Goto(Flusher, "idle")
    /\ UNCHANGED <<g_iMemSize, m_hMutex, buffer, file, back, logged, races>>

-----------------------------------------------------------------------------
Proceed(t) ==
    \/ LockFile(t) \/ WriteDirect(t) \/ LockBuffer(t) \/ AddToBuffer(t)
    \/ RollOver(t) \/ LogMsgEnds(t) \/ CloseLog(t) \/ CreateLog(t)

WriteBuffer(t) == Mem2File(t) \/ Mem2FileWrite(t) \/ Mem2FileReset(t)

Defined == races \cap {"fileClosed", "noFile"} = {}

\* The bound is reached, and there is no buffer to flush.
Done == nlogged = MaxMessages /\ g_iMemSize = 0 /\ \A t \in Threads : At(t, "idle")

Next ==
    \/ /\ Defined
       /\ \/ \E t \in Loggers : LogMsg(t) \/ Proceed(t) \/ CreateLogFails(t)
          \/ \E t \in Threads : WriteBuffer(t)
          \/ FlushMem2File \/ FlushEnds
    \/ (Done \/ ~ Defined) /\ UNCHANGED vars

\* Every thread goes on, and LogRunnable flushes again and again.  A waiter for
\* a mutex gets it although others take it in between.
Fairness ==
    /\ \A t \in Loggers : SF_vars(Defined /\ Proceed(t))
    /\ \A t \in Threads : WF_vars(Defined /\ WriteBuffer(t))
    /\ SF_vars(Defined /\ FlushMem2File) /\ WF_vars(Defined /\ FlushEnds)

Spec     == Init /\ [][Next]_vars
FairSpec == Spec /\ Fairness

-----------------------------------------------------------------------------
(***************************************************************************)
(* A message LogMsg has taken is in a file or in the buffer, although the  *)
(* roll-over empties the buffer without the mutex of the buffer (215-218,  *)
(* 302-309); it is lost only if the file it was written to is opened anew  *)
(* (145-152).  What a write to a closed file does is left open.            *)
(***************************************************************************)
Written(m) == \E f \in DOMAIN files : Contains(files[f], m)

\* It was written, be it to a file that has been emptied since.
Reached(m) == Written(m) \/ m \in wiped

OnlyReopeningLoses ==
    Defined =>
        \A i \in DOMAIN accepted : Reached(accepted[i]) \/ Contains(InUse, accepted[i])

(***************************************************************************)
(* Until the roll-over and the flush write the buffer at the same time,    *)
(* no message is in the files twice, or in a file and still in the buffer; *)
(* and in each file, from each file to those opened after it, and on to    *)
(* the buffer they are in the order LogMsg took them, whichever files were *)
(* emptied meanwhile (145-152, 198-218, 302-309).                          *)
(***************************************************************************)
Unwritten == IF \E t \in Threads : At(t, "reset") THEN <<>> ELSE InUse

TakenBefore(m, n) ==
    \E i, j \in DOMAIN accepted : i < j /\ accepted[i] = m /\ accepted[j] = n

InOrder(s)    == \A i, j \in DOMAIN s : i < j => TakenBefore(s[i], s[j])
Precede(s, t) == \A i \in DOMAIN s, j \in DOMAIN t : TakenBefore(s[i], t[j])

WrittenOnceInOrder ==
    races = {} =>
        /\ IsInjective(accepted)
        /\ \A f \in DOMAIN files : InOrder(files[f]) /\ Precede(files[f], Unwritten)
        /\ \A f, g \in DOMAIN files : f < g => Precede(files[f], files[g])
        /\ InOrder(Unwritten)

(***************************************************************************)
(* A message that was taken is written in the end: neither mutex is kept,  *)
(* and the flush finds it wherever it was left (23-30, 302-309).           *)
(***************************************************************************)
AllWritten ==
    \A m \in Messages :
        Contains(accepted, m) ~> (Reached(m) \/ ~ Defined)
=============================================================================
