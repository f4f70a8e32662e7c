# Verification of the samples libraries

The repository holds seven C++ libraries around boost::asio: `sockets`,
`livecapture`, `scgi`, `esl`, `curl`, `pcap` and `redis`. There are no tests
beside the code, and what is hard in it is what a test would hardly reach:
handlers of one object running on several threads of an `io_service`,
operations that complete while they are being cancelled, destructors that run
on whichever thread drops the last reference, byte streams that are cut
anywhere, and loops that must not stop.

This directory models those parts in TLA+, checks them on small instances with
TLC and proves most of the safety properties for all instances with TLAPS. The paths below
are relative to the repository.

## Inventory

| Component | State | Operations | Hard parts | What makes it correct |
|---|---|---|---|---|
| sockets: `BaseConnection` with its tcp, udp and websocket subclasses | `queue_`, the strand, one outstanding send, one outstanding read | `write`, `send`, `read`, `connect`, `close`, completion handlers | `write()` from any thread against completion handlers; partial sends; a failed send; `send()` that throws | the queue never overtakes, loses or repeats, and stalls only behind a peer that does not read; nothing after a gap; the buffers of a send stay alive |
| sockets: `tcp::Server`, `web::Server` | acceptor, cancelled flag | `listen`, `accept`, `cancel` | a cancel between two accepts; the search for a free port | a cancelled listener stops; a free port in the range is found |
| livecapture: `Grabber`, `Server`, `Connection` | `captures_`, one accept and one timer per server, signals between the objects | `open`, accept handler, accept timer, capture timer, destructors | every handler on its own thread; `~Grabber` blocks until all servers are gone; the accept handler re-arms itself | the limit is exact; one capture per port; servers go away; `~Grabber` returns |
| scgi: `Parser` | header bytes, body bytes, counters, flags | `read`, `process` | messages cut at any byte, empty and oversized messages | what is dispatched does not depend on the cuts; reading goes on until a read or a message fails |
| scgi: `Pool`, `Server`, `Connection` | `connections_`, `fshutdown_`, the accept loop | `getConnection`, `freeConnection`, `shutdown`, `~Connection`, `~Server` | flag tested outside the lock; destructors on other threads | slots are exact; shutdown closes everybody |
| scgi: `Dispatcher`, `Request`, `Engine` | registry of handlers, weak reference to the connection | `add`, `remove`, `cancel`, `find`, `reply` | the registry is not locked | a registered handler is found, a removed one is not called |
| esl: `Client` | `stopped_`, the ESL handle, `mtxsend_`, the event mask | `start`, `stop`, `poll`, `recv`, `send` | `stop` and `start` before the loop notices; errors on the handle | a started client is served; connect and disconnect notifications alternate while one loop runs, and no announced connection is lost silently |
| curl: `Service`, `Multi`, `Engine` | socket table, timer, pinger, the worker | `action`, `update`, `setTimer`, `process`, `pinger`, `stop`, `~Engine` | callbacks from libcurl, waits that renew themselves, a join in a destructor | no event and no timer is forgotten; a removed socket is not watched; the join ends |
| curl: `Transfer`, `JsonRPC`, `Synchro`, `Downloader` | the handle, the handlers, a condition variable, a temporary file | `exec`, `done`, `run`, `write`, `close`, `~Transfer` | the last reference on any thread, a wait with a timeout, files that outlive the transfer | every transfer is answered once and freed; the file is whole or the old one |
| pcap: `Capture`, `Sniffer`, `Device`, with the clients of livecapture | the libpcap handle, one wait, the slots of the clients | `open`, `load`, `read`, `process`, `post`, destructors | opening fails at any step; clients come and go while packets are handed out | nothing of libpcap leaks; every client gets its packets |
| pcap: `Reassembler` of VoIP blocks | `buffer_`, a state, sizes | `process`, `parse`, `packets`, `reset` | blocks cut by TCP | the packets found do not depend on the cuts |
| pcap: parsers and tools | none | `payload`, `packets`, `IPPacket`, `OStream::write` | lengths at their limits | what is written is read back |
| redis: `Redis`, `Transaction`, `Pipeline`, `Script`, containers | the pool of connections | the wrappers of single commands, `exec` of a transaction, a pipeline, `removex` | connections that break before or after the server has executed; a cursor used while keys are removed | nothing is applied more often than its answers explain; a connection goes back clean; `removex` removes all |

Interaction: `livecapture` and `scgi` own a `sockets` listener whose accept
callback creates their connections; `livecapture` asks `pcap` for a sniffer and
writes the packets to a `sockets` connection (both sides are in `Sniffer`);
`scgi::Request` writes its reply with `BaseConnection::write`. The `curl`, `esl` and `redis` libraries stand
alone.

## Modules

`WriteQueue` (sockets/connection.cpp and the three subclasses). `Write` is a call
of `write(msg)` by any thread; it only posts to the strand. Everything that
touches `queue_` runs in the strand and is atomic: `RunWrite` is the posted lambda
(append, and start a send unless there is a backlog), `HandleOk` and `HandleError`
are the completion handler. `TransmitOk`/`TransmitError` are the kernel's side. The
three transports differ in `Send`: a TCP send may be partial, a UDP send may throw
before it starts anything (a message without destination has an uninitialised
`port_`, and the address of one that has a destination may not parse: `Dest` gives both
outcomes), a websocket send completes inside the same strand step and ignores its error
code (`RunWriteWeb`).

`SocketConnection` (sockets/tcp, udp and web/connection.cpp) extends `WriteQueue` by the
rest of a connection: `Connect`, `Read` and `RecvUdp`/`RecvBase` start an operation,
`Connected`, `Arrive`, `ReadFails` are the kernel, `OnConnect`, `OnRead` the completion
handlers. A UDP `recv()` shares `recvremote_` with all others. A websocket stores its
callback and registers handlers that own the connection, until `OnEnd` (hclose, hfail)
breaks the cycle.

`OrderedDelivery` is the abstract specification of the write queue: messages are
accepted, then delivered in that order, until a failure after which nothing is
delivered. `WriteQueue!Delivery` maps `posted`, `completed` and `failed` to it.

`LiveCapture` (livecapture/, with the TCP listener, sockets/tcp/server.cpp; the websocket
listener is not modelled). One `Server` object per
opened port with its accept operation, accept timer and at most one connection.
Every step of a handler that another thread can observe is an action: the accept
handler is `Enter`, `SnifferFails`/`Create`, `Settle`, `ReleaseGrabber`, `Rearm`.
Destructors are actions that are enabled when nothing refers to the object any more;
`~Grabber` is `DropOwner` or `ReleaseGrabber` (whoever drops the last reference),
`Signal` for each server it tells to stop, and `ShutdownDone`. The variable `missed`
records that a `cancel()` found no operation to cancel because the accept handler was
between two accepts.

`ScgiParser` (scgi/parser.cpp). The stream is a sequence of opaque bytes; each read
gives the parser any chunk or fails at any time (`ReadFails`, which ends the read loop), and
one iteration of the loop in `process()` is one action.

`ScgiPool` (scgi/pool.cpp, server.cpp, connection.cpp). The accept loop, the test of
`fshutdown_` outside the lock, the lock sections, `~Connection` and `~Server`. A reply
(`ReplyWritten`) only holds the connection until it is written; it does not close it.

`EslClient` (esl/client.cpp). Each `start()` adds one poll loop, whose position in
`poll()`, `connect()`, `recv()` and `disconnect()` is `pc[l]`; `send()` of any other
thread is the action `Send`, which may find the connection broken. libesl is known
only by its use: a call may fail, and may leave `connected` set or not. Exceptions of the
slots of the connect signal, which would escape `poll()`, are not modelled, and of the event
mask and the subscription only the control is followed: no property speaks of them.

`CurlSocket` (curl/service.cpp, socket.h, tcpsocket.cpp). What libcurl wants to know
of each socket and the asynchronous waits that watch it. The handler of a wait is
`HandlerBegin` (it reads the mask and calls `process()`), `HandlerCheck` and
`HandlerRenew`. libcurl acts at any time: inside `process()`, from the timer, or on a
thread that attaches or detaches a transfer, and then also between the check and the
renewal of a handler, which do not hold `mutex_` (`raced` records that it happened).

`CurlEngine` (curl/engine.cpp, service.cpp, multi.cpp) extends `CurlSocket` by the timer
libcurl asks for, the pinger that re-arms itself, the transfers, and `~Engine`. A handler
of a socket goes through `process()` (`ProcessAction` under the lock, `ProcessCancel`
after it) before it looks at the socket again. The handler of a timer that had expired
when it was cancelled calls libcurl to no effect and is left out.

`CurlTransfer` (curl/transfer.cpp, multi.cpp, syncwait.cpp, jsonrpc.cpp). One request from
`exec()` to the end of the object. `Held(t)` lists everybody who has a `shared_ptr` (the
handlers of `done()` included, which `reset()` lets go; that the `read_` and `write_` handlers
capture the transfer before `exec()` is not considered); the step that lets go last starts
`~Transfer`, which needs the mutex of `Multi` to detach (`Detach`). `done()` on the worker is
`DoneBegin`, `DoneParse`, `DoneCall`, `DoneReset`, and `run(timeout)` of a JSON-RPC request is
an `Exec` that waits (`WaitEnds`).

`CurlDownload` (curl/downloader.cpp) extends `CurlTransfer`: some transfers are
downloaders, whose callback `Write` appends to a temporary file, and whose `done()`
begins with `Close`, which moves or removes it. Every call of the file system may fail.

`PacketParsers` (pcap/parsers, pcap/tools) has no state. A packet is a record of its
lengths and of the fields the parsers look at; `Packets(parser, p)` is what a chain of
parsers finds in it (the names the factory knows; any other means raw), `IPPacket` what the
tool builds. Checksums are computed in 16-bit
one's complement arithmetic as the code does.

`VoipReassembler` (pcap/parsers/voip.cpp, tcpreassembler.cpp): the stream is a sequence
of cells of blocks, `Feed(m, n)` gives the reassembler a piece of it, and `Parse` and
`After` are the loop in `process()`. The packets of a block come from the reference
`BlockPackets`.

`Sniffer` (pcap/grabber, livecapture/connection.cpp) composes both with the life of a
capture: a file is written by `OStream`, whose writes of a record's header or data may fail, or
a device is opened step by step, each step with the error path of its own (`OpenFails`); the
handler of
`Capture::read` takes packets one by one and `Notify` posts each to the connected
clients, whose posted handlers run in any order and write what passes their filter.

`RedisCommands` (redis/) gives the wrappers for keys, lists, sets, hashes, sorted sets and
scripts: the command each sends, with its options, and the way it reads the reply; and the
server's semantics of those commands as the wrappers rely on them (external). `Promised` says
what each wrapper claims. Left out are `scan()` as a call of its own and the scans of containers,
SET with an expiry, ZADD with a score per member or INCR, EVAL, `pop()` into another list and
numbers held as text; expiry is a key that may go at any moment. `RedisClient` runs them over a
pool: `TakeConnection`, `Send` (the server executes at the send, or refuses for reasons of its
own, MULTI and DISCARD excepted), `Lose` (the connection breaks before or after that), the
retries of `run_with_connection`, transactions, pipelines and the loop of `removex()`, while
other programs add keys and keys expire. A pipeline sends all its commands at once, so the server
runs ahead of the client there: `ExecutePipelined` executes the next command, `RunPipeline` reads
a reply.

The modules named `...Proofs` hold the TLAPS proofs about the modules they extend:
`SocketConnection` (with `WriteQueue`), `LiveCapture`, `ScgiPool` and `ScgiParser`
(`ScgiProofs`), `EslClient`, `CurlEngine` (with `CurlSocket`), `CurlDownload` (with
`CurlTransfer`), `Sniffer` (with `VoipReassembler`) and `RedisClient` (with `RedisCommands`).
The `MC*` modules only give TLC its constants. Definitions named `Bug...` are seeded faults, each a plausible
mistake in the code it stands before; they are not used by any specification and
show that the property they are paired with in PROJECT.json can fail.

## Runs

| Run | Question | Result |
|---|---|---|
| `connection` | Does the write queue survive short sends, failures, a `send()` that throws, ignored websocket errors, and any interleaving of `write()`, `read()`, `recv()`, `connect()`, `close()` and completions? Does closing end everything? | yes; it implements `OrderedDelivery`, and it drains or has failed unless a peer stops reading for ever (there is no timeout); the exceptions to the sender told and to the end after a close are named |
| `capture` | Count of captures under a limit that refuses servers and one that does not, lifetimes, one capture per port; does every server go away by its timers, and does `~Grabber` return? | yes: only a `cancel()` that finds no operation strands a server; the exceptions are named in `Released` and `ShutdownEnds` |
| `capture_port` | Is the port held while the capture runs, as servertcp.cpp:79-80 says? | no (finding) |
| `scgi_parser` | Does what is dispatched depend on how the stream is cut, and does reading go on? | no; every message that has been read is dispatched unless one was refused, and reading ends only by a read or a message that fails |
| `scgi_pool` | Are the slots exact, and does shutdown close everybody? | yes; at most one connection slips in after the shutdown |
| `esl` | Do notifications alternate, is every loss announced, is a client served that is restarted before its loop has noticed `stop()`, and does it end? | yes, with the exceptions the property names; of the order of the notices of two loops at the same time nothing is said |
| `curl_service` | Is an event or a timer forgotten, a removed socket watched, and does `~Engine` return? | no event, unless another thread changes the socket during a renewal; no timer but of a transfer that is attached while `process()` cancels; the join returns unless the pinger is armed after `stop()` |
| `curl_monitor` | Does the handler follow its comment (service.cpp:173-176)? | no (finding) |
| `curl_transfer` | Is libcurl's pointer never used after the end of a transfer (a callback may meet one whose destructor waits for the mutex), and does `done()` run on one that somebody holds; does `run(timeout)` see its reply; does a download end with the right file; is every transfer answered, and every abandoned one freed? | yes, for the first `exec()`, with the failures of the file system named in `DownloadExact` |
| `curl_remove` | Is a handle never removed within a callback, as multi.cpp:104-105 asks? | no (finding) |
| `sniffer` | Are files read back as they were written, are blocks found however TCP cuts them, does every client get its packets, and does opening a device leak nothing? | yes, with the exceptions below |
| `redis` | Do retries, broken connections and refused commands leave the pool clean and apply nothing twice without a lost answer; is a transaction applied as a whole and a pipeline in order; is `removex` complete, and what it and the wrappers tell true? | yes, but `setnx()`, `Script::exists()` and a push of nothing do not tell what their names promise (see the observations), and `removex()` may throw |

Some properties name exceptions. Each is a variable that records one precise race or
failure in the code; the property says that nothing else goes wrong.

- `LiveCapture`: `missed` (a `cancel()` that found no operation), `dtorIn` (`~Grabber`
  inside an accept handler). `ScgiPool`: `late` (added after the test of `fshutdown_`).
- `EslClient`: `dropped`, `unclosed`, `zeroed`, `kept` and, for the alternation only,
  `overlapped` (see `NotificationsAlternate`).
- `SocketConnection`: `clobbered` (a second datagram before the handler of the first has
  run), `late` and `replaced` (a websocket callback stored after the end, or over another).
- `CurlSocket`: `raced`. `CurlEngine`: `cut` (the timer of a transfer that slipped in was
  cancelled), `"hung"` (the pinger was armed after `stop()`). `CurlDownload`: `blunder`.
- `Sniffer`: `cut` (a notification interrupted by a dying connection); for blocks,
  `excuse`: a block that begins in the middle of a segment or whose header is split over
  segments, a header read past the end of the segment, a block that was under way when the
  stream started anew, and two pieces that were handed over as one.

### Bounds

- `SocketConnection`: two messages of one to two units, one of them without destination,
  and two reads; the transport is chosen in the initial state and never changes. Two
  messages give one in flight and one behind it; that the queue and the senders are right
  for any number is proved.
- `LiveCapture`: two servers, two clients for one and one for the other, and a limit of one or of
  two chosen in the initial state: below one the second `open()` is refused until the first
  server is gone. Servers interact only through `captures_` and the `Grabber`, so two show every
  interaction; the second client is the one that must be refused.
- `ScgiParser`: three frames of bodies from empty to two bytes over the limit, reads of
  up to four bytes: a read may end anywhere in a frame and may cover several.
- `ScgiPool`: three clients for two slots.
- `EslClient`: two `start()`, so that two loops may overlap or follow each other, and three
  connections.
- `CurlEngine`: one socket (sockets share nothing), two calls of `action()` beyond the
  opening, two transfers: one ends while another is attached. `curl_monitor` needs no more.
- `CurlDownload`: a downloader that also has a user's read handler and a JSON-RPC request,
  which share the mutex; two `exec()` of the request; one callback of the download, as
  a callback leaves nothing behind but the file.
- `Sniffer`: two clients, of which one filters; files of up to two packets around the limits of
  lengths, read by the parsers "udp", "ip" and "raw"; streams of two or three blocks, in segments of
  every length; two generations of the sniffer.
- `RedisClient`: two clients, two connections, two tries per call, two faults, four keys;
  transactions and pipelines of two commands, and every wrapper beside a transaction or another
  wrapper that changes the same data, so that what it tells depends on the order; one page of a
  scan holds one or two keys, and `MaxEmptyPages` stands for the 1000 of the code.

The largest runs are `redis` (1.0 million distinct states), `sniffer` (390,000), `capture`
(280,000), `scgi_parser` (112,000), `connection` (95,000) and `esl` (65,000).

`CHECK_DEADLOCK FALSE` is set where the bounded application simply has nothing left to
do.

### Fairness

Fairness is assumed only of what the runtime guarantees: threads of an `io_service` run
what is queued, timers expire, a lock that is free is obtained, operations with a
timeout end, and a closed or cancelled operation completes. It is never assumed
that a client connects, that a peer answers, that an accept fails, or that the
application lets go of anything. So `Drains` is promised only if no send stays pending on an open
TCP socket for ever (`PeerStalls`), and `EventuallyDelivered` is about frames that have arrived
(`Arrived`): the peer need not send its stream. In `CurlTransfer`, `Complete` is fair because every
transfer has a timeout and a low-speed limit (curl/easy.cpp); for the same reason `Detach`
of `CurlEngine` is. In `Sniffer` no packet and no client is assumed to come.

## Proofs

Each `...Proofs` module extends a component and proves, for every value of its
constants, the safety properties the runs check on small instances. Every proof has the
same form: an inductive invariant, a lemma that the initial states have it, one that every
step keeps it (one step per action, under it one per conjunct), and one that the property
follows. The inductive invariants were checked with TLC before they were proved. Where a
property is one the runs check, PROJECT.json names it beside the theorem.

The assumptions are those of the components: `WriteQueueAssumption` (sizes are positive),
finiteness of the sets whose size is counted (servers, clients), types of the limits,
`VoipAssumption` (the header of a block counts its packets), `SnifferAssumption` (sizes and
addresses of what is written to a file), and that the model values which stand for "none" are no
ordinary values (`NoneAssumption`, `CurlSocketAssumption`, `SocketConnectionAssumption`).
`RedisClientAssumption` says that programs are made of what the wrappers send (`Calls`,
`Commands`), where a page of a scan has room for at least one key (a limit of 0 leaves the number
to the server). None of them restricts the size of anything.

### SocketConnectionProofs

Of the write queue:

`TypeCorrect`, `BufferAliveHolds`, `NoLostWakeupHolds`, `ConservationHolds`,
`WireInOrderHolds` are about the invariants of these names, `Silence` says that nothing is
sent or completed after a failure (no run checks this one; what callers see of it is part of
`ImplementsDelivery`), and `Refinement` is `Spec => Delivery!Spec`.

All follow from `IInv`. Two of its conjuncts are not properties of their own. `Stuck` ties
`failed`, `op` and the queue together: after a failure no operation is in flight, so that no
completion can follow. `WireLength` says how many entries the wire has compared with
`completed`, which makes "the next thing sent is the message at the front of the queue" an
arithmetic fact, and with `Conservation` places it in `posted`. The refinement maps `Write`
to the abstract accept, `HandleOk` (for websockets `RunWriteWeb`) to a delivery,
`HandleError` and a throwing `send()` to the failure, and all else to stuttering.

A whole connection reads, connects, closes and goes away too. `ConnectionImplementsQueue`
(`CSpec => Spec`) shows that none of this disturbs the queue, so everything above holds of
a connection, and `ConnectionDelivers` says so for the refinement. `SenderIsToldHolds` needs
to know where a sender is between the arrival of a datagram and its handler: in
`recvremote_`, unless another datagram has overwritten it (`Senders`).

### LiveCaptureProofs

`CapturesExactHolds`, `NoServerOutlivesGrabberHolds`, `StrandedOnlyByMissedCancelHolds`. A
step of the accept handler acts on what earlier steps of the handler left, so the invariant
says for each place in the handler what is true there: `Held` (the Grabber lives exactly as
long as its owner or a handler holds it, which is why no server is opened in a dying one),
`Owned`, `OneCapture` (`count_` lags behind the connections created while the handler is at
"made" and only there). `Guarded` and `Finishing` list who will still cancel the accept of
a server.

### ScgiProofs

Of the pool `SlotsExactHolds` and `OnlyLateSurviveHolds`. After `shutdown()` a connection that goes
away no longer gives its slot back, so `Slots` states equality before the shutdown and
inclusion after it. `Late` says that the accept handler, once it has added the late
connection, is not past the test of `fshutdown_` again: that is why there is at most one.

Of the parser `MessagesAreFramesHolds`. `FlattenParts` says where each frame lies in the
stream. While the parser has not failed it is in one frame (`InFrame`): the bytes it has gone
past end where the earlier frames end, plus `nread_`; what it holds is the beginning of that
frame's header or body, and nothing of a body that is skipped; and what was delivered is the
messages of the frames before it. `TakeInv` is the one lemma about bodies, for the first piece
and for every later one. `Expected` counts the frames that are wanted instead of filtering
them, so that "the next message" is a fact about cardinalities (`NextMessage`).

### EslClientProofs

`ServedWhileStartedHolds`, and `NotificationsAlternateHolds`, which is an action property
and an invariant. The invariant needs no assumption on the application: `Watched` says that a
connection that was announced has a loop that will look at it, or is one of the exceptions
`dropped`, `unclosed` and `zeroed`, and holds for any number of loops. For the alternation
`Solo` (until two loops overlap there is one at most) allows to speak of the loop, and `Story`
says for each of its places what has been announced; `Idle` carries it from one loop to the
next.

### CurlEngineProofs

`SocketInvariant` is about the sockets alone and `EngineImplementsService` (`ESpec => Spec`)
shows that the engine, with its timer, its pinger and the attaching and detaching of
transfers, does nothing else to them. So `WatchedHolds`, `RemovedIsQuietHolds` and
`ExtraWaitsBoundedHolds` are theorems about the engine. `ExtraWaitsBounded` is not
inductive: a handler that is running has given up one wait and may start another, and
`Load` adds that one (`MayRenew`). `Masks` says that the mask the handler tested is still
the socket's, unless `raced`. `TimerKeptHolds` needs `Timing`: `process()` is about to
cancel only while there is no transfer.

### CurlDownloadProofs

`TransferInvariant` is about transfers, `DownloadImplementsTransfer` (`DSpec => Spec`) shows
that files add nothing to what transfers do, and `LibcurlPointsToLiveHolds` and
`RunSeesReplyHolds` follow for both. The heart is `Unheld` (a transfer that is not alive is
held by nobody, so nothing starts for it) and `Order` (a transfer with `done()` posted or
running is alive and reported). `DownloadExactHolds` follows the file through the states
before `close()` (`Collecting`) and after it (`Delivered`).

### SnifferProofs

`DeviceMatchesClientsHolds`, `ClientsGetTheirShareHolds`, `BlocksReassembledHolds` and
`FileReadsBackHolds`. Clients hold packets by their number in `out`, so the proof must know that
`out` only grows at its end, and therefore what the parsers return: `Parser` and the lemmas up to
`ParserNext` show that whatever the reassembler finds is a sequence put behind what it has found
before. `Slots` says that each connection has exactly one slot in the signal, so that one
notification posts a packet to it exactly once, and `Shares` that each packet of a client's span
is posted, written or excused.

The invariant of the reassembly has three parts. `Fresh`: no cell arrives before the first
sniffer reads, so the reassembler starts at the beginning of the stream. `Handed`: the pieces
of "tcpstream" in a row are what has arrived. `Found` has two levels for "voip":

- Unless a header was read past the end or a piece overwritten, `Kept` says what `buffer_` may
  hold: nothing, the beginning of the block the stream is in (`Partial`), or a whole block in
  which no packet was found and which is never let go (`Stale`). Hence a packet comes from a
  block whose last cell has just arrived, and `Ordered` follows.
- When nothing has cost a packet, `AlignedAt` says that the stream is between two blocks with
  nothing kept, or inside one that is kept or was refused. Then a segment lies within one block
  (`OneBlock`), and `FedAligned` says what it adds: all packets of the block if it completes
  it, else none.

`EndOf` is the number of cells up to the end of each block; that a cell of the flattened stream
lies in exactly one block, and what is flattened when a block is added or filled in, are lemmas
about `FlattenSeq` (`FlattenParts`, `EndsCover`, `FlattenSnoc`, `FlattenFill`).

For a file the invariant says what was written and how far it has been read. `Written`: every
record holds a packet of `IPPacket`, only the last may be cut off and then the stream is bad, and
`total_` is the sum of what the records take. `Reading`: while the file is open `source` is the rest
of it after some record, and `out` has what the parser finds in the records before (`Read`);
afterwards the whole file is read, to its end or to the record that is cut off (`Complete`). `FoundType`
calculates what "ip", "udp" and "raw" make of a snapped packet. That a header with its checksum
sums up to zero (`ChecksumRight`) rests on `WrapTwice`: adding the carry twice leaves no carry. It
is assumed that sizes are natural numbers and that an address is four words of 16 bits. `SumOver`,
`U16` and `Word` are operators of their own in `PacketParsers`, so that a proof can go through a sum
(`SumSteps`) and need not look into the arithmetic of 16 bits elsewhere.

### RedisClientProofs

`PoolIsCleanHolds`, `AppliedOncePerAnswerHolds`, `RemovexExactHolds` and `ResultIsToldHolds`,
for all programs of the modelled wrappers, all pools and sizes of the data.

- `Pool`: a connection is idle or has one user, who is in the middle of a call. `Placed` says
  where in its call a client is, and `Session` what its connection holds there: after MULTI
  the commands sent so far, each with its place, so that EXEC runs each place once; after a
  refusal a dirty queue with DISCARD next; in a pipeline the commands not yet executed, which
  are the last ones of the call, and the replies not yet read.
- `Once`: while a call runs, how often a command was applied and the tries that are left are
  bounded by `Retries`, and the places of a transaction have the same count. `InOrder` says it
  for a pipeline: without the execution under way (`Earlier`, up to `Executed`) the counts do
  not increase along the call, and each attempt costs a try. The theorem follows because the
  commands executed in the attempt under way are a prefix.
- `Exact`: a steady key with a name lies behind the cursor of the scan (`Scanning`) or on the
  page that is being deleted (`Deleting`), and the counts differ by what was not heard of.
- `Truth`: what a call has been told is what was promised. `PromiseKept` rests on one lemma per
  group of wrappers (`ListTold`, `KeysTold`, `FieldsTold`, `ScoresTold`, `ScriptTold`), and
  `NothingTold` is the case of a wrapper that had nothing to do. `Store` strengthens the type of
  the data: a member of a sorted set has one score, without which the counts of ZADD and
  ZREMRANGEBYSCORE would not be right.

`RepliedHistory` and `UnheardHistory` say what one execution on the server does to all of
these, answered or not, so that each action cites them and adds only its own bookkeeping.
EXEC and LREM go through a sequence; `Repeated` and `StaysIn`, from `SetInduction`, say that
going through it ends and in what.

### Only model-checked

- Liveness (`Drains`, `CloseEndsAll`, `Released`, `ShutdownEnds`, `EventuallyDelivered`,
  `ShutdownDrains`, `StopEnds`, `JoinReturns`, `Answered`, `Reclaimed`, `FileIsRead`): out of
  reach of the prover.

Every other property of the passing runs is a theorem. The library's induction theorems have
an operator as a parameter and cannot be used with the installed provers; what is proved about
recursive definitions (the flattening of sequences, sums, EXEC, LREM) goes through
`SetInduction`, which follows from `WFMin`.

## Findings

1. `capture_port`: servertcp.cpp:79-80 promises to hold the port; an accept that ends
   with an error ends the accept loop, after which the server is destroyed and the running
   capture closed.
2. `curl_monitor`: service.cpp:177 tests the socket and its mask without `mutex_`; a
   transfer that is detached on another thread in between leaves a removed socket watched.
3. `curl_remove`: transfer.cpp:189 and 206 hold the transfer by a temporary inside a
   libcurl callback; if the application drops it meanwhile, the handle is removed within
   the callback, which multi.cpp:104-105 excludes.

### Other observations

No comment or test contradicts these, with one exception that is named; the models follow the
code.

- redis: `setnx()` answers true whether or not the key was set; `Script::exists()` always
  answers false (the reply is an array); a push of nothing answers 0 and not the length of the
  list; `range()` returns at most 1000 members unless it is told otherwise; `removex()` throws
  "endless loop" after more than 1000 consecutive pages without a match, so always at the end
  of a large enough database, although the comment at redis.cpp:110-112 calls empty pages no
  error; replies inside EXEC are not looked at for errors; a transaction that is reported as
  failed may have been applied by an earlier try; `SortedSet::erase(string, string)` hides
  `erase(field)`; `HSCAN` with empty values loses the pairing; `List::pop()` that is retried
  loses an element.
- pcap: the payload length `IPPacket` writes for IPv6 counts the IPv6 header too, and the UDP
  checksum is a sum of complements (it is left out of the model); a datagram longer than the
  snapshot length is cut or skipped; a handler of a destroyed capture that is still queued uses a
  raw `this`.
- curl: `~Transfer` detaches after the parts of its subclasses are destroyed, so a thread
  inside libcurl may meet a half destroyed object; the result of the last flush of a
  download is not looked at; an empty body leaves no file although success is reported; a
  transfer that is destroyed before it is done leaves its temporary file;
  `DirectoryEntry::parse` builds its exceptions and does not throw them;
  `setTimer(0)` calls libcurl from inside its callback, which some versions refuse.
- scgi: the guards in `Dispatcher` are declarations that lock nothing.
- sockets: the search for a free port re-opens an acceptor that stayed open.

## Not modelled

- Slots of boost::signals2 are called atomically with the signal, except for the packets of
  a sniffer, where a dying connection is modelled.
- Data races on single objects (`std::function`, flags without atomics) are modelled as
  interleavings of whole reads and writes; the registry of `scgi::Dispatcher`, a map used
  without a lock, is not modelled.
- Handlers that capture a raw `this` are modelled as far as the object is alive.
- The websocket listener of `livecapture`: what a stopped endpoint of websocketpp does with
  another `async_accept` is decided by that library.
- `listen()` is sequential code around `bind()`. `curl` options, URLs, headers and directory
  listings, `esl` events and commands, and `scgi` requests are data without control. Of
  `pcap/parsers/voipmonitor`, which is vendored, only header sizes are used.

## Plan

All components of the inventory that have control are modelled, except the websocket listener and
the redis calls listed with `RedisCommands`, and every safety property of the
passing runs is proved for all values of the constants that satisfy the assumptions. What
remains is liveness, which stays with TLC on the bounds above. What could be added is breadth:
the request objects of `scgi` and the listings of `curl`, once a property of their data is worth
stating.
