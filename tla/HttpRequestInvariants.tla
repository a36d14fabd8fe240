----------------------- MODULE HttpRequestInvariants -----------------------
(***************************************************************************)
(* The inductive invariant of HttpRequest, in named parts: what the        *)
(* parser's buffer holds, what of the body is where, and what the marks of *)
(* HttpProgress say of the time.                                           *)
(***************************************************************************)
EXTENDS HttpRequest

\* The bytes of the stream behind position "from", n of them.
Stretch(from, n) == [i \in 1 .. n |-> from + i]

\* Until the header is in, the buffer holds what was received, or as much as there is room.
Searching ==
    /\ mBuffer = Stretch(0, mIndex) /\ mIndex < headerLength
    /\ received = mIndex \/ (mIndex = MAX_BUFFER_LEN /\ received >= mIndex)
    /\ mbReceiveHeaderFinish = FALSE /\ started = 0 /\ ret # 1 /\ ~ overlaps /\ ~ hole

\* Then it holds what was received of the body: no byte of it is taken for the header's end.
HoldsBody ==
    /\ received >= headerLength + mIndex
    /\ \A i \in DOMAIN mBuffer : mBuffer[i] = 0 \/ mBuffer[i] > headerLength
    /\ hole => received > MAX_BUFFER_LEN
    /\ ~ hole => received = headerLength + mIndex \/ mIndex = MAX_BUFFER_LEN
    /\ ~ hole /\ ~ overlaps => mBuffer = Stretch(headerLength, mIndex)

\* The request is started when the buffer holds as much as was announced, once if it
\* announced a length: the buffer never shrinks again.
StartedWhenComplete ==
    /\ mbReceiveHeaderFinish \/ mIndex + 1 >= MAX_BUFFER_LEN
    /\ contentLength # -1 =>
          /\ started <= 1
          /\ started = 1 => mIndex >= contentLength
          /\ ret = 1 => started = 1 /\ mIndex = contentLength
          /\ mIndex = contentLength /\ mbReceiveHeaderFinish /\ mIndex < MAX_BUFFER_LEN => ret = 1
    /\ contentLength = -1 /\ mIndex = 0 => ret = 1

ParserInv == Searching \/ (HoldsBody /\ StartedWhenComplete)

-----------------------------------------------------------------------------
NotStarted ==
    state = "none" =>
        /\ mpRequestBuffer = <<>> /\ sent = <<>> /\ ~ told /\ downloadTotal = 0 /\ downloadNow = 0
        /\ uploadTotal = 0 /\ mdDownloadLast = -1 /\ mdDownloadLastTime = -1 /\ ~ mbStop

\* What was sent and what is still to be sent make up the body.
BodyInv ==
    /\ state # "none" /\ contentLength # -1 /\ ~ overlaps /\ ~ hole =>
          sent \o mpRequestBuffer = Stretch(headerLength, contentLength)
    /\ told => mpRequestBuffer = <<>>
    /\ uploadTotal # 0 => Len(sent) + Len(mpRequestBuffer) = uploadTotal

\* When nothing came since the last mark, the mark is not older than what came last; and
\* it was made within a second of it.
Downloading == downloadNow \notin {0, downloadTotal}

MarkInv ==
    /\ Running => ~ mbStop
    /\ ~ Uploaded /\ uploadTotal # 0 => mdDownloadLast = -1
    /\ Running /\ Uploaded /\ NothingSince =>
          /\ lastActive <= mdDownloadLastTime
          /\ Downloading => /\ mdDownloadLastTime <= lastActive + 1
                            /\ totalTime - mdDownloadLastTime <= DWONLOAD_TIMEOUT
    /\ Running /\ Uploaded /\ Downloading /\ ~ NothingSince => totalTime = lastActive
    /\ state = "aborted" => Silence > DWONLOAD_TIMEOUT

RequestInv == RequestTypeOK /\ ParserInv /\ NotStarted /\ BodyInv /\ MarkInv
=============================================================================
