----------------------------- MODULE HttpRequest -----------------------------
(***************************************************************************)
(* From the packets of one browser to the end of the request they start:   *)
(* OnRecvProxyBuffer with the DataHttpParser, the HttpRequest with its     *)
(* copy of the body, and the callbacks libcurl makes into HttpClient.      *)
(*                                                                         *)
(* A request runs in its own thread: its steps mix with further packets of *)
(* the browser.  The web server's answer is a number of pieces, and a      *)
(* length libcurl does not know is 0.  Time is in seconds: libcurl calls   *)
(* HttpProgress at least every second, unless a piece it gave away is not  *)
(* sent on at once.                                                        *)
(*                                                                         *)
(* Definitions marked wrong vary the one below them, to test that the      *)
(* properties would notice; no behaviour uses them.                        *)
(***************************************************************************)
EXTENDS DataHttpParser

CONSTANTS DWONLOAD_TIMEOUT,    \* seconds; the name is the code's
          ReadSize,            \* bytes of body libcurl asks for at a time
          MaxPieces,           \* pieces of the answer
          MaxTime              \* bound: seconds a transfer may last

ASSUME HttpRequestAssumption ==
    /\ {DWONLOAD_TIMEOUT, MaxPieces, MaxTime} \subseteq Nat /\ ReadSize \in Nat \ {0}

VARIABLES state,               \* of the request: none, running, ended, aborted
          mpRequestBuffer,     \* what is still to be sent of it
          sent,                \* the bytes onSendBody gave to libcurl
          told,                \* it returned 0: there are no more
          mbPost, uploadTotal,
          downloadTotal, downloadNow,
          totalTime,
          mdDownloadLast, mdDownloadLastTime, mbStop,
          lastActive           \* ghost: when something was sent or received

body     == <<mpRequestBuffer, sent, told, mbPost, uploadTotal>>
download == <<downloadTotal, downloadNow>>
marks    == <<mdDownloadLast, mdDownloadLastTime, mbStop>>
transfer == <<state, body, download, totalTime, marks, lastActive>>

RequestTypeOK ==
    /\ TypeOK
    /\ state \in {"none", "running", "ended", "aborted"}
    /\ mpRequestBuffer \in Seq(0 .. total) /\ sent \in Seq(0 .. total)
    /\ {told, mbPost, mbStop} \subseteq BOOLEAN
    /\ uploadTotal \in {0, contentLength}
    /\ downloadTotal \in {0, MaxPieces} /\ downloadNow \in 0 .. MaxPieces
    /\ totalTime \in 0 .. MaxTime /\ lastActive \in 0 .. totalTime
    /\ mdDownloadLast \in -1 .. downloadNow /\ mdDownloadLastTime \in -1 .. totalTime

RequestInit ==
    /\ Init
    /\ state = "none" /\ mpRequestBuffer = <<>> /\ sent = <<>> /\ told = FALSE
    /\ mbPost = FALSE /\ uploadTotal = 0 /\ downloadTotal = 0 /\ downloadNow = 0
    /\ totalTime = 0 /\ lastActive = 0
    /\ mdDownloadLast = -1 /\ mdDownloadLastTime = -1 /\ mbStop = FALSE

Running == state = "running"

-----------------------------------------------------------------------------
\* SetSendData copies as many bytes of the parser's buffer as the length says; a
\* length of -1 copies none.
SendData(buffer) == SubSeq(buffer, 1, contentLength)

\* libcurl knows the length of an upload only if it was told.
StartRequest ==
    /\ ret' = 1 /\ state = "none"
    /\ state' = "running"
    /\ mpRequestBuffer' = SendData(mBuffer')
    /\ mbPost' \in BOOLEAN
    /\ uploadTotal' \in (IF mbPost' /\ contentLength > 0 THEN {0, contentLength} ELSE {0})
    /\ UNCHANGED <<sent, told, download, totalTime, marks, lastActive>>

\* A packet starts the request that is looked at here, another one, or none.
OnRecvProxyBuffer(len) ==
    /\ ParseData(len)
    /\ StartRequest \/ UNCHANGED transfer

-----------------------------------------------------------------------------
AllOfIt(size)    == mpRequestBuffer    \* wrong
NotSentYet(size) == SubSeq(mpRequestBuffer, size + 1, Len(mpRequestBuffer))

Smaller(n, m) == IF n < m THEN n ELSE m

onSendBody ==
    /\ Running /\ mbPost /\ ~ told
    /\ LET sendSize == Smaller(Len(mpRequestBuffer), ReadSize) IN
          /\ sent' = sent \o SubSeq(mpRequestBuffer, 1, sendSize)
          /\ mpRequestBuffer' = NotSentYet(sendSize)
          /\ told' = (sendSize = 0)
          /\ lastActive' = IF sendSize = 0 THEN lastActive ELSE totalTime
    /\ UNCHANGED <<vars, state, mbPost, uploadTotal, download, totalTime, marks>>

\* A Content-Length was received.
TotalKnown ==
    /\ Running /\ downloadTotal = 0 /\ downloadNow = 0
    /\ downloadTotal' = MaxPieces
    /\ UNCHANGED <<vars, state, body, downloadNow, totalTime, marks, lastActive>>

\* HttpWriteHandle passes a piece on, which may take any time.
onReceiveBody ==
    /\ Running /\ downloadNow < MaxPieces
    /\ downloadNow' = downloadNow + 1
    /\ totalTime' \in totalTime .. MaxTime
    /\ lastActive' = totalTime'
    /\ UNCHANGED <<vars, state, body, downloadTotal, marks>>

\* The response is complete, or the connection to the web server is lost.
Ends ==
    /\ Running
    /\ state' = "ended"
    /\ UNCHANGED <<vars, body, download, totalTime, marks, lastActive>>

-----------------------------------------------------------------------------
uploadNow == Len(sent)
Uploaded  == uploadNow = uploadTotal

SeenBefore   == mdDownloadLast # -1    \* wrong
NothingSince == mdDownloadLast = downloadNow

Counts == downloadTotal # downloadNow /\ mdDownloadLast # -1 /\ NothingSince

HttpProgress ==
    /\ Running
    /\ totalTime' \in {totalTime, totalTime + 1} /\ totalTime' <= MaxTime
    /\ \/ /\ Uploaded /\ Counts
          /\ mbStop' = (mbStop \/ totalTime' - mdDownloadLastTime > DWONLOAD_TIMEOUT)
          /\ UNCHANGED <<mdDownloadLast, mdDownloadLastTime>>
       \/ /\ Uploaded /\ ~ Counts
          /\ mdDownloadLast' = downloadNow /\ mdDownloadLastTime' = totalTime'
          /\ UNCHANGED mbStop
       \/ ~ Uploaded /\ UNCHANGED marks
    /\ state' = IF mbStop' THEN "aborted" ELSE state
    /\ UNCHANGED <<vars, body, download, lastActive>>

-----------------------------------------------------------------------------
RequestDone == received = total /\ (~ Running \/ totalTime = MaxTime) /\ UNCHANGED <<vars, transfer>>

RequestNext ==
    \/ \E len \in 1 .. MaxPacket : OnRecvProxyBuffer(len)
    \/ onSendBody \/ TotalKnown \/ onReceiveBody \/ Ends \/ HttpProgress
    \/ RequestDone

RequestSpec == RequestInit /\ [][RequestNext]_<<vars, transfer>>

-----------------------------------------------------------------------------
(***************************************************************************)
(* The web server is sent the body the browser sent, once and in order,    *)
(* and is told that it is complete when it is and no sooner: also when the *)
(* browser goes on sending meanwhile, and when the body is longer than the *)
(* buffer with its header, unless memcpy had to move it onto itself or     *)
(* part of it found no room in the packet that ended the header.  The      *)
(* browser's Content-Length goes with it, so that a wrong number of bytes  *)
(* would be taken for another request or never for one (DataHttpParser.cpp *)
(* 27-145, HttpProxyServer.cpp 53-59, HttpRequest.cpp 150-226).            *)
(***************************************************************************)
BodySent ==
    contentLength # -1 /\ ~ overlaps /\ ~ hole =>
        LET asked == [i \in 1 .. contentLength |-> headerLength + i] IN
        /\ IsPrefix(sent, asked)
        /\ told => sent = asked

(***************************************************************************)
(* A download that has begun and stalls is given up DWONLOAD_TIMEOUT       *)
(* seconds after something was sent or received last, within the second in *)
(* which the stall is noticed, and none is given up sooner, however long   *)
(* it takes or its pieces wait to be passed on.  libcurl must know the     *)
(* length of what it uploads, and have received something: without, the    *)
(* numbers compared are never equal, or always (HttpClient.cpp 233-256).   *)
(***************************************************************************)
Silence == totalTime - lastActive

GivenUpWhenStalled ==
    /\ Running /\ Uploaded /\ downloadNow \notin {0, downloadTotal} => Silence <= DWONLOAD_TIMEOUT + 1
    /\ state = "aborted" => Silence > DWONLOAD_TIMEOUT
=============================================================================
