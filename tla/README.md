# VncHttpProxyServer: a verification project

Two programs carry HTTP between browsers and web servers through one TCP
connection that the inner side opens:

    browser ──TCP──▶ TcpProxyServer ◀──TCP (CMD frames)── HttpProxyServer ──HTTP──▶ web server
                     PORT (HTTP)      PORT+1 (VNC)         (curl)

The code is in `src/TcpPorxyServer` and `src/HttpProxyServer`; everything else in
the repository is vendored (openssl, libev); libcurl is linked. There are no tests and no
documentation besides the comments in the sources.

## 1. Inventory

### TcpPorxyServer (the proxy)

**TcpServer** (`TcpServer.cpp`), used twice: `mClientTcpServer` for browsers and
`mClientTcpVNCServer` for the peer.
State: three message lists (idle, handle, send), a list of `ev_io` watchers and,
indexed by descriptor, `mpHandlingMessageCount`, `mpCloseRecv`, `mpPacketSeqRecv`
and `mpEvent`. Threads: one libev loop (accept and receive), `handleThreadCount`
handler threads, one send thread. Operations: `Accept_Callback`, `Recv_Callback`,
`SendMessageByQueue`, `SendMessageImmediately`, `Disconnect`, `OnDisconnect`,
`CloseSocketIfNeedByHandleThread`, `OnRecvMessage`.
*Hard*: who closes a connection. The last of the main thread, the handlers and
the send thread to be done with a descriptor must, and exactly one of them. The
decision is taken under `mCloseMutex`, the close happens after it is released,
the kernel reuses the descriptor at once, and replies are added by threads of the
other server at any time.
*Correct when*: a connection is closed once, with nothing outstanding; packets are
numbered without gaps; a reply reaches the connection it is for; no message and
no watcher is lost; a disconnected connection is closed in the end.

**MessageList** (`MessageList.cpp`): a FIFO under a mutex.

**Client** (`Client.cpp`), one per connection; the interesting one is that of the
peer. State: `miDataPacketRecvSeq`, `mMessageMap` (packets that came early),
`mBuffer`, `mbError`, `miPacketSendSeq`. Operations: `ParseData`,
`ParseDataNoCache`, `AddSeq`.
*Hard*: handler threads bring packets in any order; packets cut commands anywhere;
kept packets take messages from a pool that all connections share.
*Correct when*: commands are given once, whole, in order; nothing is kept for
ever; the pool comes out right; nothing is given after an error.

**TcpProxyServer** (`TcpProxyServer.cpp`), the observer of both servers.
State: `mClientMap` (descriptor to Client), `mClient2SessionMap` (browser to
session), `mpVNCClient`, its own idle list. Operations: `OnAccept`, `OnDisconnect`,
`OnClose`, `OnRecvMessage`, `OnTimeoutMessage` for each server;
`SendClient2VNC`, `SendDisconnect2VNC`, `ReturnVNC2Client`, `CloseSessionByVNC`,
`OnParseCmd`.
*Hard*: `mpVNCClient` is read without a lock; locks are nested (map, then client,
then session map); a session outlives the peer's connection while sequence numbers
restart; a disconnect command of the peer names a descriptor that may have changed
hands.

**Session** and the tasks (`Session.cpp`, `task/`): from sequence number to task.

**LogManager, LogFile** (`LogManager.cpp`, `common/LogFile.cpp`, the same in both
programs). State: a buffer, the open file and its counted length, two mutexes.
Operations: `LogMsg` on any thread, `FlushMem2File` on a thread of its own.
*Hard*: the roll-over writes the buffer with one mutex, the flush with the other; a file
is named after the second it is opened in, and emptied when it exists.
*Correct when*: what was logged is written, once and in order, and is lost only with such a file.

**ConfFile, KSafeMap, KMutex, KThread, Arithmetic, md5**: support.

### HttpProxyServer (the peer)

**TcpProxyClient** (`TcpProxyClient.cpp`): one thread connects, receives commands and,
when the connection is lost, connects again after ten seconds; `SendProxyBuffer` and
`SendProxyDisconnect` are called by any thread.

**KSocket, KTcpSocket** (`common/`): `mSocket` and `mbConnected`, used by all those
threads without a lock. Whoever meets an error calls `Close`.
*Hard*: a `Close` under way while the receiving thread makes the next socket.
*Correct when*: no socket is lost or left open, and the connection comes back.

**HttpProxyServer** (`HttpProxyServer.cpp`). State: `mDataHttpParserMap`, from a
browser's descriptor to its parser, under a mutex. Operations: `OnRecvProxyBuffer`,
`OnRecvProxyDisconnect` (receiving thread), `onReceiveBody`, `onSuccess`, `onFail`
(request threads). **HttpRequest**: a thread for each complete request; **HttpClient**:
libcurl.
*Hard*: a request ends after its browser is gone and the descriptor is another's;
`OnDisConnected` does nothing, so parsers and requests outlive the connection; a request
deletes itself while `StartRequest` still looks at it; results are sent with the map locked.
*Correct when*: what is sent for a descriptor is for its present browser; every
request that ends is deleted and its browser disconnected.

**DataHttpParser** (`DataHttpParser.cpp`): collects a request packet by packet.
*Hard*: packets cut anywhere, a buffer that is full, a terminator one place too far.
*Correct when*: a request is started once, with its last byte and with its body.

### How they interact

`TcpServer` calls its observer from the main thread (`OnAccept`, `OnDisconnect`,
`OnClose`, `OnTimeoutMessage`), from handler threads (`OnRecvMessage`, `OnClose`)
and from the send thread (`OnClose`). A browser's packet becomes a `Proxy` command
queued on the VNC server; a command of the peer is parsed on a handler thread of
the VNC server and becomes a message queued on the browser server. So threads of
one server write the queues and counters of the other.

Between the programs the order in which things wait for room is what matters: the main
thread of a server waits for idle messages, its send thread for the socket, the peer's
receiving thread for the parser map and for the socket, its requests for the socket while they
hold the map. Commands travel while browsers leave and their descriptors are given to others.
*Correct when*: the programs do not wait for each other, a browser hears the answer to its own
request, in order and once, and is hung up on when that answer is whole.

## 2. Modules

| module | models | lines of code it stands for |
|---|---|---|
| `TcpServer` | one `TcpServer` with the observer it has as `mClientTcpServer`, and the kernel's descriptors | `TcpServer.cpp`, the browser callbacks of `TcpProxyServer.cpp` |
| `ConnectionService` | what a `TcpServer` promises its observer (abstract): a connection is new, open, leaving (disconnected, something outstanding), closing (the close is decided), closed | `TcpServerObserver` in `TcpServer.h` |
| `TcpServerRefinement` | the refinement mapping from the first to the second | |
| `TcpServerInvariants` | the inductive invariant behind the safety properties | |
| `TcpServerProofs` | theorems: types; who owns a message; the close protocol; the steps of the service | |
| `FrameParser` | `Client::ParseDataNoCache` as a pure function | `Client.cpp` 237-379 |
| `Client` | `Client::ParseData` between the queue and the commands | `Client.cpp` 39-236 |
| `ClientInvariants` | the inductive invariant behind its properties | |
| `Induction` | lemmas: induction and recursion over anything that has a rank, sequences cut and joined | |
| `ClientProofs` | theorems: what parsing computes, for every stream; the four properties of `Client` | |
| `TcpProxyServer` | the observer of both servers: maps, sessions, the peer's Client, locks, commands | `TcpProxyServer.cpp`, `Session.cpp`, `Client::AddSeq` |
| `TcpProxyServerInvariants` | the inductive invariant behind its safety properties | |
| `TcpProxyServerProofs` | theorems: types and locks; the connections of both servers; commands, numbers and tasks | |
| `HttpProxyServer` | the peer: receiving thread, request threads, parser map, socket | `HttpProxyServer.cpp`, `TcpProxyClient.cpp`, `KTcpSocket.cpp`, `KSocket.cpp`, `HttpRequest.cpp` |
| `HttpProxyServerProofs` | theorems | |
| `DataHttpParser` | `DataHttpParser::ParseData` | `DataHttpParser.cpp` 10-145 |
| `HttpRequest` | from the packets to the end of a request: the copy of the body, libcurl's callbacks, the timeout | `HttpRequest.cpp` 91-226, `HttpClient.cpp` 59-256, `HttpProxyServer.cpp` 27-68 |
| `HttpRequestInvariants` | the inductive invariant behind the properties of both | |
| `HttpRequestProofs` | theorems: the properties of both, for any lengths | |
| `ProxySystem` | both programs composed, a callback a step, with bounded pools and sockets | both programs, as far as they meet |
| `ProxySystemInvariants` | the inductive invariant of both programs | |
| `ProxySystemProofs` | theorems: types, the invariant, where the programs may stop, every step is one of `Tunnel` | |
| `Tunnel` | what they promise a browser together (abstract) | |
| `LogFile` | `CFileCtrl` with its loggers and its flush thread | `common/LogFile.cpp`, `LogManager.cpp` |
| `LogFileProofs` | theorems: who holds which mutex; what was taken is lost only with a file that is opened anew; what is written is in order | |
| `MCTcpServer`, `MCClient`, `MCTcpProxyServer`, `MCHttpProxyServer`, `MCHttpRequest`, `MCProxySystem`, `MCLogFile` | instances for TLC | |

### TcpServer

Each thread has a control point `pc`, a local descriptor `fd` and a message `held`.
A step is at most one critical section of the code, so every place where the code
lets another thread in is a place between two steps:

* `Accept_Callback` (accept, reset of the tables) and `OnAcceptTrue` /
  `OnAcceptFalse` (the observer, the watcher);
* `Recv_Callback`, `RecvPopIdle`, then one of `RecvPacket`, `RecvOverLimit`,
  `RecvEnd`, `RecvAgain`, then `RecvPush`; `full` is the case in which `recv` filled
  the whole buffer and is called again;
* `OnDisconnect` (watcher), `DecideClose` (critical section), `OnClose`, `CloseFd`,
  `ReturnMessage`;
* `HandlePop`, `ForwardPacket` or `RejectPacket`, `HandleDone` (the decrement, which
  may lead to `OnClose` and `CloseFd`);
* `SendMessageByQueue` (a pop and the count), `SendMessagePush`; between them the
  caller holds the lock of the session map, which `OnClose` needs;
* `SendPop`, `SendMessageImmediately` (send, push to the idle list), `SendDone` (the
  decrement for `m->fd`, read after the push);
* `PeerClose`: the peer closes, or another thread calls `Disconnect`.

The kernel is the part `conn`, `hup`: `accept` may return any closed descriptor, at
once. `PeerClose` also stands for a `ProxyDisconnect`, which may name any descriptor
at any time. A reply may be queued at any time for a descriptor that has a session.

Connections are numbered by ghost variables (`nconn`, `msgConn`, `closedConns`), so
that properties can tell a connection from a later one on the same descriptor.

**Two races.** The model enters two states the code does not exclude, and records
them in the ghost `races`:

* `lateSend`: `SendMessageByQueue` counts a reply for a descriptor whose close is
  already decided (decided at `TcpServer.cpp` 1201 or 1103, done at 1225 or 1119).
  The counter goes 0, 1, 0 and the second decrement decides to close once more.
* `recycledRead`: the send thread reads `m->fd` at 1031 when another thread has
  already taken the message for another descriptor.

Past a race counters drift and nothing that depends on them holds. The properties
about them therefore begin with `races = {} =>`; `MessagesConserved` and the watcher
sum do not. Safety runs check the first state after a race and
stop exploring there (the constraint `NoRaceYet`); the temporal properties are
checked for `QuietSpec`, the behaviours that enter no race. What the first race leads to
is the finding below.

### Client and FrameParser

A byte is its position in the stream, so a packet is an interval, and a command
that is torn, repeated or put together from the wrong packets is visible in
`given`. `ParseDataNoCache` is a recursive function with the two loops of the code:
fill `mBuffer` as far as it goes, take whole commands from the front, keep the rest
(`Partial` is what may be kept). The rest is moved to the front with `memcpy` (344), which is
undefined when the rest is longer than the command: `Overlaps` records it, and `garbled` is
the choice that the bytes did not survive. The model stops there, and the properties speak of
what came before.
`ParseData` holds `mKMutex` from end to end and is one action with three outcomes:
`ParseInTurn` (the packet, then the kept ones that follow, `ParsePackets`), `Keep`, `Fail`.
`DropPacket` is the queue over its limit: bytes are lost, the socket is shut down,
and what the kernel already has is still received, as the next number.

### TcpProxyServer

It composes two instances of `ConnectionService`, `Browser` and `VNC`, with what
the callbacks do in between. `TcpServer` implements that service in behaviours without
its two races (`tcpserver_liveness`), so what is shown here holds where neither server
enters one. The module has no idle lists and queues of its own: that a pop finds
no message is a choice `SendFails` and `ReturnVNC2Client` may take at any time, and
replies are a number per connection.

Each thread of both servers has a `pc` and the locals the code keeps across a lock: the
descriptor's connection (`work`), the `Client` found in `mClientMap` (`client`), the
number from `AddSeq` (`seq`), the command being parsed (`cmd`). The locks `mClientMap`,
`mClient2SessionMap` and `mKMutex` of the peer's Client are state (`lock`), held over the
steps over which the code holds them; a critical section that waits for nothing and
reads no unprotected pointer is one step. So `SendClient2VNC` is `CheckOnline` or
`SendFails`, `AddSeq`, `LockSessions`, `SendMessageByQueue`, each of which reads
`mpVNCClient` again, as the code does. `OnClose` of the peer is `CloseSessionByVNC`,
`DeleteVNCClient`, `ClearVNCClient`, three steps without a lock. `commands` is the log of
commands queued for the peer; the peer may answer any that was sent, any number of
times, on whichever connection it has, and may name any of their descriptors in a
`ProxyDisconnect`.

**Three races** end what is explored: `vncGone` (a browser's thread follows `mpVNCClient`
after it was deleted, finds it null behind the test at 522, or uses a number of another Client),
`lateCommand` and `lateReply` (a message is queued for a connection whose close is
decided, the first race of `TcpServer` seen from outside).

### HttpProxyServer

One `pc` per thread; `back` is where a thread goes on after `SendData`, which may take it
through `Close`. `SendData` is one step, sent or failed; `Close` is four, since each
lets another thread in: `CloseTest` (`mSocket` is there), `CloseSocket` (`close`),
`CloseClears` (`mSocket` is reset), `CloseEnds` (`mbConnected` is reset). The receiving
thread: `MakeSocket`; `Accepted`, `Refused` or `ConnectFails`; `SetOptions`,
`Connected`; `RecvData`, then `RecvProxy` and `RecvParam`, `RecvProxyDisconnect` or
`RecvFails`; for a packet `ParsedInPart`, `ParsedAll` or `ParserFull`, whichever
`ParseData` may return; `StartRequest`, then `Started`, which looks at the request after
its thread began, or `StartFails`. A request: `OnReceiveBody` any number of times,
`RequestEnds`, `OnSuccessOrFail` (locks the map, looks for the parser), the send,
`UnlockAndDelete`. `Refused` is there because the code takes a refused `connect` for success:
`select` finds the broken socket writable.

Sockets are numbered, never reused, so a lost or doubly closed one is seen. A packet is
known by its browser, a parser by the browsers whose bytes it holds, and `sent` records
for each command whose request it answers and who has the descriptor.

`races` records what the code does not exclude. Three belong to the
question who gets an answer, and `AnswersOwnBrowser` speaks of behaviours without them:
`outlived` (a request outlives its browser or its connection), `keptParser` (a parser
outlives its connection), `lostDisconnect` (the proxy could not queue a
`ProxyDisconnect`). `closedTwice`, `notStarted` and `freedRequest` (`KThread::start` writes to a
request that was deleted) go on; behind `deletedTwice` nothing is defined and the
model stops.

`MakeSocket` waits until no request is in the middle of `close` (`CloseUnderWay`): the code sleeps ten
seconds before it connects again, and the model takes that to be longer than a `close` and an
assignment. Without it a thread could clear the new `mSocket`.

### DataHttpParser

A byte is its position in what the browser sends; the request is given by the lengths of
its header and body (-1: none announced). `ParseData` is `Refuse` (the buffer is full),
`AppendPacket` or `ReceiveHeader`. Two outcomes are open: the terminator written at
`mBuffer[MAX_BUFFER_LEN]` may clear `mbReceiveHeaderFinish`, the member behind it
(`AfterTerminator`), and `memcpy` on overlapping memory, when the body is longer than the
header, may leave anything (`Garbled`).

Two ghosts say when a body is not what was sent. `overlaps`: `memcpy` had to move the body onto
itself. `hole`: the packet that ended the header was cut at the end of the buffer (30). The header
then leaves the buffer, there is room again, and what comes next is appended behind the bytes that
are missing: if the browser sends more than its request, a request may start with the wrong body.
`BodySent` speaks of what came before either.

### HttpRequest

It extends `DataHttpParser` with one of the requests the parser starts, whose thread goes on while
more packets come. `StartRequest` copies as much of the buffer as the length says, `onSendBody`
gives it to libcurl piece by piece. libcurl is external: it reads a body only for a POST, reports 0
for a length it does not know, and calls `HttpProgress` every second or more often, except that
a piece of the answer may take any time to be sent on (`onReceiveBody`).

### ProxySystem and Tunnel

`ProxySystem` puts both programs together. Each callback is one step, since the other modules have
what happens inside, and the steps are kept that matter between the programs:

* messages are counted: those received and those to be sent come from one pool per server
  (`BrowserPool`, `VNCPool`); without an idle one the main thread does not receive, a command
  or reply is not sent;
* sockets between the programs hold `DownRoom` and `UpRoom` commands, of which the last may
  fit only in part (`half`): a send waits for room, and another thread may write between the parts;
* the receiving thread handles a command before it takes the next; a request sends its
  `ProxyDisconnect` with the map locked (`lock`);
* a browser in `Deaf` reads nothing, so the only send thread waits for it;
* the link may be lost at any time, with what is under way, and be made again.

Packets, parsers, requests and answers are known by the browsers they belong to. `excused`
collects the browsers that are promised nothing more: one that left, was turned away, was refused by
the parser, lost the peer, or was taken for an earlier one on its descriptor by a `ProxyDisconnect`.

**Five races** end what is explored: `torn` (a thread writes between the parts of another's
command), `latePacket` (a packet that waited in the handle list is forwarded behind its
browser's `ProxyDisconnect`, so that the peer makes a parser nobody erases),
`lostDisconnect` (no idle message for a `ProxyDisconnect`), `keptParser` and `outlived` (parsers and
requests of the last link meet the descriptors and numbers of the next). In each of them the
code may answer the wrong browser or nobody.

`Tunnel` knows none of this: requests serve browsers, answers have pieces, a browser hears the
next piece of its own answer, pieces are left out only while the pool is dry, and who is hung up on
without being excused has heard an answer that is whole. The mapping reads `serves` from the one browser whose
bytes a request was parsed from.

### LogFile

Steps are the stretches between the two mutexes and the shared variables: `LogMsg`, `LockFile`,
`LockBuffer`, `AddToBuffer` or `WriteDirect`, `RollOver` or `LogMsgEnds`, `CloseLog`,
`CreateLog`; `Mem2File`, `Mem2FileWrite`, `Mem2FileReset` for whoever calls it;
`FlushMem2File`, `FlushEnds`. A message has length 1. The race `writtenTwice` (roll-over and
flush write the buffer at the same time) goes on; behind `fileClosed` (the roll-over
closes the file the flush is about to write to) the model stops. `m_nFileLen` starts with any
value, since no constructor sets it.

`CreateLog` names the file after the local time, to the second (145), and opens it with
`w+b` (152). Which names clash is left to choice: `OpenNew` opens a file of a new name,
`OpenAnew(f)` the earlier file `f`, which is emptied and is then the last one; the ghost `wiped` keeps what it
held. **So the program loses messages** when it rolls over twice in a second, which
may happen with the first message, as `m_nFileLen` may be at its limit then, and when the
clock is set back. `OnlyReopeningLoses` says that messages are lost in no other way,
`WrittenOnceInOrder` that what is left is in order and not there twice. When `fopen` fails the test of line
152 is the wrong way round and `fseek` is given `NULL`: `CreateLogFails` enters the race `noFile`, behind which the
model stops.

## 3. Runs

| run | configuration | question | states, time |
|---|---|---|---|
| `tcpserver_safety` | 2 descriptors, 2 connections, 3 messages, 2 handlers, limit 1, 1 watcher, 2 packets per connection | Until a race is entered, is the counter exact, the connection closed once with nothing outstanding, every packet with its client, every reply with its connection, every packet numbered in order? In any case, are messages and watchers conserved? | 678,000, 1 min |
| `tcpserver_liveness` | the same with 2 messages, 1 handler, 1 packet, no symmetry | Is a disconnected connection closed, is `ConnectionService` (every packet handled, every reply sent) implemented? Is the invariant the proofs use true there? | 40 s |
| `tcpserver_comment` | 1 descriptor, 2 connections | Does the comment at `TcpProxyServer.cpp` 842 hold? It does not. | seconds |
| `client` | 3 commands (no parameter, 2 bytes, a header that is refused), header 2, buffer 5, 3 handlers, pool 2, limit 2, 3 connections | Are the commands given once, whole and in order, is nothing kept for ever, and does only a client in error cost the pool messages? | 1.2 million, 1 min |
| `proxy_routing` | 1 descriptor, 2 browsers, 2 handlers, 1 connection of the peer, 2 handlers and 2 packets in hand of the peer's server, 2 packets | Is a client never deleted in use, does no session outlive it, can each forwarded packet be answered, do commands of successive browsers not mix, and do the nested locks never close a circle? | 841,000, 90 s |
| `proxy_reconnect` | 1 descriptor, 2 browsers, 1 handler, 2 connections of the peer, 2 packets | Does the live Client parse the peer's packets, does an answer reach the browser that asked, does no browser wait for a peer that is gone? | 1.2 million, 2 min |
| `proxy_liveness` | 1 descriptor, 2 browsers, 1 handler, 1 connection of the peer, 1 packet | Is a peer that left forgotten, is a browser that was shut down closed? | 90 s |
| `http_safety` | 1 descriptor, 2 browsers, 2 requests, 2 connections, 1 piece of body | Is no socket lost, and is what is sent for the browser that asked? | 3.7 million, 3 min |
| `http_liveness` | the same with 1 browser and no pieces | Is a request that ended deleted, and is a lost connection made again? | 25,000, 20 s |
| `http_request` | buffer 9, headers 4, 7, 10, bodies 0 to 10 and none announced, packets up to 6, up to 3 bytes too many; timeout 2 of 5 seconds, 2 pieces, libcurl reads 3 bytes at a time | Is a request started once, with its last byte; is libcurl given the body the browser sent; is a stalled download given up, and no other? | 3.7 million, 100 s |
| `system` | 2 descriptors, 2 browsers of which one is deaf, 2 requests, pools of 2 and 1, room for 1 and 2 commands, 2 packets in all, both browsers may leave, 2 pieces, 1 link that may be lost | Where do the programs stop, are browsers closed whose request is done, does each hear its own answer? | 1.6 million, 2 min |
| `logfile` | 2 loggers, 4 messages, buffers 0 to 3, files of 2 | Is a message lost only with a file that is opened anew, is everything written, and what is kept there once and in order? | 229,000, 2 min |

**Why the bounds are enough.** One watcher for two connections is the smallest case in
which a connection finds none. A limit of 1 with three messages lets the queue pass
its limit while the third message is still in use. Two connections on two
descriptors include both of them on one, one after the other: a descriptor that is
reused under a thread. Two packets and two handlers allow two packets of one
connection to be handled at once and the last decrement to be either's. For
`Client`, three handlers are the fewest with which two packets wait for a third; a
pool of two with up to eight packets runs dry; a buffer of 5 holds the longest command
and a byte more, so that packets of up to 5 bytes split headers and parameters at each
byte and overfill it, and what follows the first command may be longer than it. For `TcpProxyServer`, two browsers on one descriptor are the smallest
case in which an answer, a session or a disconnect outlives its browser; two handlers
number two packets of one browser at once; two connections of the peer give the
numbers a second start; a circle of locks needs three threads at most, one per lock, and
`proxy_routing` has more than that. For `HttpProxyServer`, two requests and the receiving thread are three
that may close one socket; two browsers on one descriptor let a parser or a request outlive
its browser; the second connection is the one a late `Close` would hit; the safety properties are
also proved for all constants. For `DataHttpParser`, headers and bodies
fit, fill and overfill the buffer and its last place, and packets cut them at every byte; packets of 6 are
the shortest that end a header, overfill the buffer and leave a body longer than the header. For
`HttpRequest`, five seconds are two timeouts and what comes between; its properties are
also proved for all constants. For `ProxySystem`, a pool of one
message and sockets that hold one and two commands are the smallest that are full while another command is
under way, and a command that fits in part needs a second place; the circle takes four commands to the peer - one parsed, one in hand, one in the
socket, one waiting - and so two packets and two browsers that leave (with one that leaves TLC does not reach `Circle`; where
both have left, the run goes on only with the link there and no reply waiting, which `Circle` does not need: `BothLeave`); two pieces of one answer can be reordered, two packets let a parser refuse the second, two
browsers on one descriptor follow each other, on two they mix; the second program
waits for the first with one receiving thread and two requests; the types and the refinement are also
proved for all constants. For
`LogFile`, a file of two messages rolls over twice in four, with buffers that hold less, as
much and more than a file; each of its files may be opened anew by a later roll-over, the first one
by that of the first message. `MaxVNC`, `MaxCommands`, `MaxPending`, `MaxConns`, `MaxSeq`,
`MaxPacket`, `MaxPackets`, `MaxLeaves`, `MaxConnects`, `MaxLinks`, `MaxBrowsers`, `MaxPieces`, `MaxMore`, `MaxTime` and `MaxMessages` are bounds of
the models, named as such; all other constants are the program's own parameters.

**Deadlock** is checked in all runs but `tcpserver_liveness` and `proxy_liveness`, where
`QuietSpec` forbids the step that enters a race and so may stop before it, and `system`: there the
programs do stop, and `StopsOnlyInCircle` says where. They stop when all commands and
replies are done, or else in `Circle` - all messages of the VNC server wait to be sent, both
sockets are full, and the receiving thread waits to send or for the map that a sending request
holds - or behind a browser that reads nothing (`MayStop`). `SomethingToDo` writes the guards of the
programs out; `StopsOnlyInCircle` asks that a step is `ENABLED` wherever one of them holds and wherever the
programs may not stop. `Terminating` and `Done` are the
states in which all allowed connections have come and gone, or all that is to be received or
logged is. Where a model has nothing to say behind a race (`Defined` of `HttpProxyServer` and
`LogFile`), it stutters there, and the temporal properties end with it.

**Fairness.** libev keeps calling back, handler and send threads poll their lists in
endless loops, so the steps that continue a callback or empty a list are weakly
fair. `SendMessageImmediately` is weakly fair: `send` returns, that is, browsers
read their replies; with one that does not, the only send thread blocks and nothing
below holds. `OnClose` needs a mutex that repliers release and take again; it gets
strong fairness, since a pthread mutex does not starve a waiter for ever. Nothing is
asked of peers, of `recv`, of new connections or of replies. `DisconnectedIsClosed` has
the hypothesis that replies to the connection stop: each one postpones the close,
and the session that lets them in goes away only with the close. `TcpProxyServer` asks
each thread to go on with its callback and to take the next piece of work, with strong fairness,
since all of them wait for locks others take again and again; `ParseEnds` says that a
packet holds finitely many commands. A thread that can only enter a race does not wait
there for ever: the behaviours without races are those in which none gets there.
In `HttpProxyServer` the receiving thread and each request go on with what they are doing; the
fairness is strong because of the map's mutex. That the proxy reads what it is sent is
in it, since a send is a step. Nothing is asked of the proxy, of accepted connections or of
curl: a transfer may give pieces for ever or nothing at all. The second is what the code does:
`HttpClient::HttpProgress` (243) needs a difference between a download's total and what has
come, and both are 0 with a web server that never answers, though the comment at 245 calls
that a timeout. So `RequestsEnd` begins where curl has ended, and
`GivenUpWhenStalled` where something was received. In `LogFile`
threads go on, and `LogRunnable` flushes again and again. `ProxySystem` has no fairness and no temporal
property besides the refinement: every behaviour of the bounded instance ends, so what must happen in the
end is asked of the states in which the programs cannot go on (`AnswersEnd`, `StopsOnlyInCircle`, by `ENABLED`).

Each property has a mutant: a definition changed as a plausible bug would change it,
with which TLC finds that property violated. The changed definitions stand beside
the real ones and are marked `wrong`.

### Finding

`TcpProxyServer.cpp` 842-845 says that while packets are in the handle queue the
server does not call `OnClose`, so the client cannot be released, and drops the
lock of `mClientMap` on that ground. `tcpserver_comment` refutes it: a connection's
close is decided; a reply is counted in before `OnClose` runs; the connection is closed
and its descriptor accepted again with a packet queued; the send thread finishes
the reply, its decrement meets the state it needs and it closes the descriptor
again, deleting the client of the new connection. The run has one descriptor, so that
the other race plays no part.

## 4. Proofs

For every set of descriptors, finite set of messages, set of handlers and all limits
(`TcpServerAssumption`):

* `TypeCorrect`: `Spec => []TypeOK`. Inductive is `TypeInv`: `TypeOK`, where each kind
  of thread can be and which locals are set there (`ControlInv`), and that a message
  outside the idle list has a descriptor (`FilledInv`). Without the last two
  `msgFd[held[t]]` could be `NoFd` and the tables would be indexed with it.
* `OwnershipCorrect`: `Spec => []MessagesConserved`, each message in exactly one list or
  with exactly one thread, races included. `TypeInv /\ MessagesConserved` is
  inductive; each action moves at most one message from one place to another, or none
  (`NothingMoves`). `AppendFacts` and `HeadTailFacts` say what `PushBack` and
  `PopFront` do to the elements of a list.

* `CloseProtocol`: `Spec => []InductiveInv`. Neither `ClosedOnce` nor
  `MessagesKeepConnection` is inductive: that the thread which brings the counter to 0 is
  the last one needs the counter to be exact; that it stays exact needs that no message of an
  earlier connection is left when `Accept_Callback` resets the entry; that needs
  the close to have been decided with nothing outstanding. So with `races = {}` the invariant adds
  `CountExact`; who may be alone with a descriptor (`CloserInv`, `FreeFdInv`); what `mpCloseRecv`
  and the main thread's position imply (`CloseRecvInv`, `WorkInv`); and to which
  connection clients, sessions, watchers and messages belong (`OwnerInv`,
  `MessageInv`, `ConnInv`). There is one lemma per conjunct for all actions, split
  by action: first what a step does to the set of counted messages (`NeutralStep` for the steps
  that move one from hand to hand, `OneMore` and `OneLess` for those that count or
  uncount one), from which the counter follows (`CountStep`) by the cardinality
  of `Outstanding`; then what each action may change of a descriptor (`ConnChanges` and its kin),
  from which the other parts follow for the descriptors it leaves alone.
* `ClosesOnce`: `Spec => []ClosedOnce`, and `ConnectionsKept`: `Spec =>
  []MessagesKeepConnection`. Both follow from `InductiveInv` in a state.
* `NumberedCorrect`: `Spec => []PacketsNumberedInOrder`. `NumberInv` adds the packet that is numbered
  and not yet queued. A packet's number is told by how many of its descriptor stand behind it
  (`PlacesFrom`), so that `RecvPush` adds one place to each set (`OrderPushed`) and `HandlePop` shifts
  them (`OrderPopped`, a bijection). `Accept_Callback` begins the numbers anew, which is in order only
  because nothing of the descriptor is queued: that is `FreeFdInv` and needs the close protocol.
* `WatchersCorrect`: `Spec => []WatchersConserved`. `WatcherInv`, kept by every step, races included, needs
  that finitely many watchers are started: nothing says that there are finitely many descriptors.
* `ServiceImplemented`: `QuietSpec` implies the initial condition and the next-state relation
  of `ConnectionService` under the mapping of `TcpServerRefinement`, that is all of
  `ImplementsService` but its fairness. The service decides a close by packets plus replies
  of the connection, the code by the counter of the descriptor: `CounterIsSum` says that they
  are equal, by `CountExact` and because what is counted on a descriptor
  belongs to its connection (`MessageInv`). `PhaseStep` and `DonePhase` say what a
  step does to the phases, and for each of the seven actions of the service one lemma shows
  the step of the code that is it; all others are stutters (`HiddenStep`,
  `SendHiddenStep`).

For `TcpProxyServer`, for every set of descriptors, finite sets of handlers and all bounds
(`ProxyAssumption`; the program makes a fixed number of threads), on the ground that both servers
keep the promise of `ConnectionService`, which `ServiceImplemented` proves of `TcpServer`
without its races: `InvariantHolds`, `Spec => []InductiveInv`. The invariant has three parts besides types,
control points and locks.

* `BrowserInv`: an open connection's packets are at least those its handlers have (`HandInv`);
  one thread closes a connection (`CloserInv`); all connections of a descriptor but the last are
  closed (`LatestInv`); a connection has its Client until its closer erased it (`ClientInv`).
  `ClientOutlivesUsers` is part of it: a handler with a packet in hand keeps its
  connection open or leaving, so nobody erases the Client. That is the ground on which the
  code drops the lock of `mClientMap`.
* `PeerInv`: the same of the peer's connections, with what `mpVNCClient` may point to
  (`PointerInv`) and that a connection it does not point to is a refused one without
  packets (`RefusedInv`). `ParsersAlive` follows.
* `QueueInv`: commands are in the order of the peer's connections and, per descriptor, of the browsers'
  (`CommandInv`); a number that was given is used once, by the thread that has it or by one command
  (`NumberInv`); a task is of a command of the session's Client and a browser's command has its task
  (`TaskInv`); who has a command on a connection that is being forgotten was shut down (`GoneInv`).
  `AnswersReachTheirAsker` needs all of them and `LatestInv`: the command a task is of and the one that
  is answered have the same number and descriptor; were they of two connections of
  a browser's descriptor, the earlier would be closed and its session erased.

Each side's steps leave most of the other's state alone (`BrowsersLeave`, `VNCLeaves`), so each part has
one lemma for the steps that concern it and one, short, for the others.
`NoDeadlock` follows from the locks alone: `LockOrder` says that of some threads that hold locks the one with the
last lock waits for none of them.

`HttpProxyServerProofs`, for every set of descriptors, set of requests and all bounds
(`HttpProxyServerAssumption`):

* `HttpTypeCorrect`: `Spec => []TypeOK`. `TypeInv` adds what each thread has in hand where it
  is (`ReceiverInv`, `RequestInv`): a request's thread runs only while the request
  exists, so what it sends has a descriptor.
* `NoSocketLost`: `Spec => []SocketKept`, an open socket is the one in `mSocket`. It is not
  inductive: `MakeSocket` and `CloseClears` assign `mSocket` and would lose a socket that is open.
  `SocketInv` says that none is then: whoever is about to clear `mSocket` has closed it, and
  the receiving thread sleeps only after a `Close` that found nothing or closed.
* `AnswersCorrect`: `Spec => []AnswersOwnBrowser`. `OwnersInv` says that, until one of the three
  races of `Separate`, a parser holds bytes of its descriptor's present browser only, but for
  one that is just being erased, and that an unfinished request belongs to the browser
  its descriptor has. It is kept under `TypeInv`, which needs no such hypothesis.

`LogFileProofs`, for every set of loggers, any sizes of the buffer and of files
(`LogFileAssumption`):

* `LogInvariant`: `Spec => []IInv`; `LogTypeCorrect`: `Spec => []TypeOK`; `LostByReopeningOnly`:
  `Spec => []OnlyReopeningLoses`. `Mem2File` writes the buffer and then resets `m_nBufferUse`, two steps, and the
  roll-over does so without the mutex of the buffer. What is reset was written nevertheless,
  be it to a file that was emptied since (`ResetInv`, `Reached`): only a logger adds, it holds both mutexes when it does (`LockInv`), and so neither
  the flush nor a roll-over is between its two steps. That the buffer has room for what is added (`RoomInv`)
  holds because `LockBuffer` empties a full buffer and everybody else only empties it;
  that a file is open where one is written to, because the file is replaced under `m_hMutex`
  (`FileInv`) and the flush, which lacks it, is the race `fileClosed`. A roll-over moves what it
  empties into `wiped` and touches nothing else (`ReopenedOnly`, `OpenFacts`).
* `LogWrittenOnce`: `Spec => []WrittenOnceInOrder`. `races = {}` means that nobody began to write the buffer
  while another did, so there is one writer at most (`OneWrites`): between its two steps the buffer
  is in the file already and nothing was added (`LockInv`), which is what `Unwritten` says. A message
  is written past the buffer only when there is none (`DirectInv`). Nobody takes a message twice: one that is in a logger's hand is not taken yet and in no
  other's (`FreshInv`); what is in a file or in the buffer was taken (`TakenInv`). So a message that is taken comes after all the
  others, and order is kept by what is written to the open file, the last one (`WriteBehind`), and by
  emptying any file (`OpenFacts`). The order is stated pairwise, inside each file and from each to the later ones
  (`FilesOrdered`) and on to the buffer (`RestOrdered`): it does not matter to it which files were emptied.

`Induction`: the library's induction theorems take a predicate as a parameter, which the provers here
cannot instantiate. The same facts about *sets* and *functions* need no such parameter: a set that holds each
element once it holds those of lower rank holds them all (`SetOfAllRanked`), and a right-hand side
that uses lower ranks only has a solution (`RecursionSolved`), both from well-foundedness of
the natural numbers. So what recursive functions compute can be proved.

`ClientProofs`, about `FrameParser`, for every stream of commands and every size of header and buffer
(`FrameAssumption`):

* `ParseEquation` (and `TakeCommandsEquation`, `StartOfEquation`): the recursive functions exist, that is, the loops
  of `ParseDataNoCache` end. The inner one takes at least a header from `mBuffer` in each round;
  the outer one ends because what the inner one leaves is shorter than `mBuffer`
  (`PartialFits`), so that there is room for a byte more. That is where the assumption on the
  length of commands is needed.
* `ParseSound`, for any bytes: `mBuffer` is not overfilled and holds no whole command afterwards.
* `ParseCut`: bytes that begin with a command and are consecutive are cut into the commands of the stream. That
  needs that no two headers are taken for each other: a byte is its position (`StartOfInjective`,
  `AnnouncedHere`).

`ClientProofs`, about `Client`, for every stream, handlers, pool, limits and number of connections (`ClientAssumption`):
`Invariance`, `Spec => []ClientInv`, and from it `TypeCorrect`, `CommandsCorrect`, `NothingIsStranded` and
`PoolCorrect`, the four properties of the run. `ClientInv` says where each packet is: in the queue, in order
(`QueueInOrder`), with one handler (`HeldOnce`), kept (`KeptLater`) or handled, and, until an error, that there is no
other place (`NoneMissing`); which bytes packets hold (`PacketsAdjoin`); and that
the commands given and `mBuffer` make up the stream to the packet expected next (`ParsedInOrder`).
`NothingStranded` needs `NoneMissing`: with the queue empty and the handlers through, every packet from
`expected` on is kept, and `expected` is not, so there is none. `ParsePacketsEquation` says that the loop over the
kept packets is the recursion along them; `ParsePacketsCut` applies `ParseCut` packet by packet.

`HttpRequestProofs`, for every size of the buffer, all lengths of headers, bodies and packets, and any
timeout (`DataHttpParserAssumption`, `HttpRequestAssumption`): `RequestInvariance`, `RequestSpec => []RequestInv`, and
from it `RequestTypesCorrect`, `StartedCorrect`, `BodySentCorrect` and `GivenUpCorrect`, the four
properties of the run. `RequestInv` has four parts besides types.

* `ParserInv`: until the header is in, `mBuffer` holds what was received, from the first byte
  (`Searching`); then it holds what follows the header (`HoldsBody`), in which no
  byte is taken for the header's end again (`FoundOnce`), and grows only, so that its length meets the one
  announced once (`StartedWhenComplete`). When the stray terminator clears
  `mbReceiveHeaderFinish`, one place at most is left: a request that fits in the buffer with its
  header was complete long before.
* `NotStarted` and `BodyInv`: what was sent and what is left of the copy make up the body, whatever the parser
  receives meanwhile; `StretchJoined`, `StretchEnd` and `TakenInTurn` are the lemmas about bytes that are put together and cut.
* `MarkInv`: `HttpProgress` compares with its last mark only while nothing came since, and then the mark is
  not older than what came last and not more than a second younger. It needs the sum
  of `BodyInv`: an upload whose length is known is finished once, and there is no mark before.

The proof is where `hole` comes from: for buffers and packets in any proportion `BodySent` was false without it,
and the instance checked until then was too small to show it.

`ProxySystemProofs`, for every set of descriptors, finite set of requests, and any pools, sockets, deaf browsers
and bounds (`ProxySystemAssumption`, which asks of the pools only that they are not empty: `TcpServer.cpp` 452
makes 10000 messages): `TypeCorrect`, races included; `InvariantHolds`, `Spec => []IInv`; `StopsCorrect` and
`AnswersEndWell` and `WaitsForEver`, below; and
`TunnelImplemented`, `Spec /\ [](races = {}) => ImplementsTunnel`: in the behaviours that enter none of the five
races, which are those the run explores (`NoRaceYet`), each step is one of `Tunnel` or leaves it unchanged.
`IInv` is types, `LinkInv` (what a lost link leaves), `PhaseInv` (one browser at most has a descriptor, and a
closed one has nothing outstanding), `WorkInv` (what keeps somebody at work: a command written in part has its
place in the socket, a browser that is leaving has something outstanding, one that is closed was shut
down) and, while `races` is empty:

* `KnownInv`: a number names one browser of its descriptor, on every way it takes: to a parser, through a
  request, and back. A `Proxy` is for a browser that is named by its task (`HasTask`), not by its descriptor, and so
  must no number be known to two.
* `ErasedInv`: between two browsers of a descriptor a `ProxyDisconnect` is on its way, before the bytes of
  the second. Hence a request is parsed from one browser's bytes, which is what `serves` of the mapping
  needs. `latePacket`, `lostDisconnect` and `keptParser` are what it would not survive.
* `PlaceInv` and `OrderInv`: whose each piece is, and that pieces are heard, wait as replies and come as commands
  in the order curl gave them. That they are heard in order and once is read off it.
* `SettledInv`: when a piece is under way, or a `ProxyDisconnect`, all pieces before it are heard, dropped,
  or ahead of it; so who is hung up on without being excused has heard the whole of an answer that ended.
  It is indexed by a place in the queue (`Answered(b, n)`), since a `ProxyDisconnect` proves nothing
  before the commands ahead of it are handled.
* `EndInv`: how a browser that is served will be hung up on. Its request finds its parser (`ParserKept`), because
  no `ProxyDisconnect` on the way to the peer stands behind its packet (`EraseBehind`); so the request
  sends a `ProxyDisconnect`, which is on the way back until the browser is shut down (`HangupComes`). With the
  connection of the programs goes all that, but `OnClose` shuts every browser down (`ShutWithPeer`).

Where the programs may stop is a question of `ENABLED`, which the provers here cannot expand. `StopsCorrect`
therefore has the guards written out. Every step of the programs has its guard in `SomethingToDo`
(`StepGuarded`), and where none holds, `MayStop` does: if no thread waits to write, nobody holds the map, both ways are empty
and all commands are done (`NobodyWaits`); if one does, the socket to the proxy is full, the proxy has no idle
message, so all of them wait to be sent, the socket to the peer is full, and the receiving thread itself waits to write or
for the map, which only a thread that writes can hold: that is `Circle` (`CommandsStop`). When commands are
done and replies are sent the pool of browsers is idle, so no browser that was shut down is open, and by `WorkInv`
none is leaving (`RepliesStop`). `AnswersEndWell` adds `EndInv`: a browser whose request is done is
closed, or a guard holds. `StopsOnlyInCircle` and `AnswersEnd` themselves follow from `SomethingToDo => ProgramGoesOn`,
a hypothesis of both theorems that only TLC checks, as part of `StopsOnlyInCircle`.
`WaitsForEver` is `Spec => WaitsLast`: that these are no waits a timeout or another thread would end. In `Circle` no
step makes room in a pool or a socket, and none of those that can be taken (a browser that comes, sends or leaves, a
request that curl goes on with, another thread that lets go of the map) touches what the circle is made of; only the loss of the connection
ends it (`CircleStep`). And replies are put behind the one that waits for a browser that reads nothing, until that one
leaves (`DeafStep`). `WaitsLast` is proved only: the run has no property for it.

TLC checked `IInv` on the instance of the run and on a larger one before it was proved. The proof
does not take each conjunct through each action: `GoingStep`, `ComingStep`, `AnswerStep`,
`RequestStep` and `BrowsersLater` say what any step may do to the commands on their two ways (nothing, taken at
the head, put at the end, lost with the link), to the answers, to a request and to a browser, and the
conjuncts are proved from those few cases. The refinement is one lemma per step of `Tunnel`: `HearStep`,
`DropStep`, `ServeStep`, `GiveStep`, and `HungUpRightly` for all.
The proof also found a fault of the model: where a send left the receiving thread (`AfterSend`) was a `CASE` of which two
arms were true; TLC took the first, which was the right one.

Only model-checked: of `TcpServer` the fairness of the refinement; the temporal
properties of `TcpProxyServer` (`PeerForgotten`, `BrowserLeaves`) and `HttpProxyServer` (`RequestsEnd`, `Recovers`) and
`DisconnectedIsClosed` of `TcpServer`; of
`LogFile` `AllWritten`; of `ProxySystem` that a step is `ENABLED` where its guard holds. Liveness and `ENABLED` are
out of the prover's reach.

## 5. Not modelled

* Everything `PROJECT.json` lists as `not_modelled`: support code and third-party code.
* `TcpServer::Stop` and a second `Start`: the program never returns from `Run`.
* `accept` returning -1: the code indexes its tables with it, and what that write
  changes is outside the program's state.
* In `TcpServer`, the contents and lengths of messages and the VNC side; a packet
  may be forwarded or refused whatever it holds.
* In `TcpProxyServer`, payloads and lengths of messages, `bNew` (always true) and the state
  thread, which only logs counters. Both servers take their descriptors from one process, so
  a browser and the peer never share one; they are separate here. `isOnline` of a browser's
  Client is written and never read. An answer to a command of an earlier connection of the
  peer may meet a task of a later one; `AnswersReachAsker` speaks of the present connection.
* In `Client`, what a command cut by dropped bytes is taken for: bytes that are no
  header are a refused header. `CommandsInOrder` speaks of connections that lost none.
* Commands longer than `mBuffer`: `Client.cpp` 304 would let them in and the loop
  would not end. `TcpProxyClient.cpp` 288 never sends one; `FrameAssumption` says so.
* In `HttpProxyServer`: a send that takes several calls (that is in `ProxySystem`), the contents of `HttpRequest`, the numbers of commands, `Stop`, the non-blocking
  mode of `KTcpSocket` with its tick counts, which nothing calls. What one `ParseData` returns is any of its
  results; which one, `DataHttpParser` says.
* In `DataHttpParser`: the text of headers and first line (its length is not checked, 56),
  `GetUrl`.
* In `HttpRequest`: the options of libcurl, its retries and redirects; the respond buffer, which
  `SetNoCacheData(true)` leaves empty; the headers that are passed on.
* In `ProxySystem`: several commands in one message of the VNC server, the limit of the handle queue, the order in
  which several handlers take packets, what the proxy makes of a torn command, and what happens inside a
  callback. The run has one link: a second one makes it too large with two descriptors, and holds with one.
* Which numbers the kernel gives out as descriptors: the tables of `TcpServer` are indexed by them.
* In `LogFile`: the clock, that is, which roll-overs find the name of an earlier file; files of earlier runs of
  the program, which may be emptied too; `ReadMsg`, `FileOpen` and `printLog`, which nothing calls; `LogManager` makes its
  `CFileCtrl` on first use without a lock (113), which two threads may do at once.

## 6. Plan

1. `TcpServer` with its abstract service and proofs, the close protocol included - done.
2. `FrameParser`, `Client` - done.
3. `TcpProxyServer` over `ConnectionService` - done, with proofs.
4. `HttpProxyServer` with proofs, `DataHttpParser`, `LogFile` - done.
5. `HttpRequest`: the body on its way to the web server, and when a transfer is given up - done.
6. `Tunnel` and `ProxySystem`: both programs together - done, with proofs. Left: several commands in one
   message; answers of the last link behind the race `outlived`.
7. Proofs: `TcpServer`, `TcpProxyServer`, `HttpProxyServer`, `FrameParser`, `Client`,
   `HttpRequest`, `LogFile` and `ProxySystem` - done: every invariant of the runs is stated by a theorem, those
   about stopping with the guards in place of `ENABLED`, and so are both refinements (that of `TcpServer`
   without its fairness). Left: liveness.
