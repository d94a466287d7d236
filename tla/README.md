# stompit2 in TLA+

A model of the STOMP client library stompit2 (`src/`, TypeScript), model-checked
with TLC and partly proved with TLAPS. Every definition is translated from the
source; `PROJECT.json` maps each one to the lines it stands for.

## The system

| Component | State it keeps | Operations | Module |
|---|---|---|---|
| Client session, `client/session.ts` | send queue and loop flag, receipt requests with sequence numbers and timers, count of frames to read, message requests per subscription, the parked message, `disconnected`, `terminateCalled` | `send` (and the ten methods that build its argument), `receive`, `cancelReceive`, `shutdown`; continuations of `writeFrame` and `readFrame`; receipt timers | `Session` |
| Transport, `transport.ts` | `sessionStarted`, `sessionClosed`, `streamError`, `writing`, the two interval timers | `readFrame`, `writeFrame`, `close`, timer callbacks | `Transport` |
| Handshake, `client/connect.ts` | where `connect()` is suspended | CONNECT, CONNECTED/ERROR/other, its body | `Transport`; its frames in `FramePipe` |
| WebSocket stream, `transport/webSocketStream.ts` | socket state, input and output queue, output loop | `write`, `writeEnd`, `close`, iterator, socket events | `WebSocketStream` |
| Asynchronous queue, `queue.ts`, `concurrency.ts` | items, waiting consumers, drain event, `terminated` | `push`, `drained`, `terminate`, `next` | `Queue` |
| Message queue, `client/subscription.ts` | messages, waiting callers, result of the loop | the returned function, the receive loop | `MessageQueue` |
| Net and TLS sockets, `transport/netSocketStream.ts`, `tlsSocketStream.ts` | none of their own | thin wrappers | what `Transport` sees of them |
| Reader, `stream/reader.ts` | buffer, the read in progress | `readLine`, `readUntil`, `read` | `Reader`, `FrameInput` |
| Frame parser, `frame/input.ts` | the frame read so far, the body's generator | `readFrame`, the generator's `next` | `FrameInput` |
| Frame serialiser, `frame/output.ts` | the writes to come | `writeFrame` | `FrameOutput` |
| Headers, `frame/header.ts` | none, immutable | `get`, `has`, `filter`, `merge`, construction | `FrameHeaders` |
| Bodies and messages, `frame/body.ts`, `frame/error.ts`, `client/message.ts` | what a reader has of a body | `readString`, `readEmptyBody`, `readServerError`, `discardMessages`, `createEmitEndDecorator`, `jsonMessage` | `FramePipe` |
| `error.ts`, `result.ts`, `index.ts`, `packages/` | none | value types, re-exports | not modelled |

How they interact. The application calls the session. The session awaits
`transport.writeFrame` (one at a time) and `transport.readFrame` (one at a
time); the transport awaits its stream; the stream is a socket. Results come
back as promises. A message's body is read by the application straight from the
transport's reader, and the end of that reading is signalled to the session's
receive loop (`createEmitEndDecorator`): until then the loop must not read the
next frame. Timers of the session (receipts) and of the transport (heart-beat)
fire between any two of these steps.

What is hard: JavaScript has no preemption, so every difficulty is an
*interleaving of continuations*. State is read before an `await` and used after
it; a count is changed by methods called while a loop is suspended; `terminate`
may happen while a write, a read and a body are all outstanding; timers look at
byte counts only now and then; and several errors compete to be the first.
`PROJECT.json` lists these hazards one by one, each at its line.

What makes each part correct: sends go out once, in order, none after
DISCONNECT, and each promise settles; receipts complete what the server has
processed and nothing else; every subscription is a FIFO channel; a body has
ended before the next frame is read; a heart-beat never lands inside a frame, a
dead peer is noticed and a live one is kept; what a stream accepted is sent in
order and before its end; what was written is what is read, however the stream
cuts it, and a limit refuses exactly what exceeds it.

## Modules

An action is one run-to-completion step: a call of a public method, the
continuation of one awaited promise, or a timer callback, with every method it
calls. A private method that several handlers call is an operator that fixes the
primed fields it assigns (`SendLoop`, `AddReceiveRequest`, `Terminate`,
`CloseRequests`, `CloseWith`, `StartHeartBeat`); its parameters are the values
its caller has already changed.

* **Session** — the session with an application that may call anything at any
  time, a transport reduced to its two promises, and a server that processes
  frames in order, answers receipts or leaves them to a cumulative one,
  publishes, and fails. A send is named by the position of its call, which is
  also its receipt id; promises are `sendResult` and `receiveResult`. The receive
  loop's program counter is `receiveLoop`: `"read"` is an outstanding `readFrame`,
  `"message"` the wait for the end of a message body. What has become of the last body is
  `body`: `ReadBody` and `BodyFails` both wake the loop, which ignores the error that
  `createEmitEndDecorator` hands it (body.ts:152-155, session.ts:657), so a loop that goes on
  behind a failed body reads in the middle of it: `readFrame` then fails (`ReadFails`) or finds the next frame.
  That what is left of a body looks like a frame of its own is left to `FramePipe`. SEND stands for every command
  whose completion has no effect on the session. `delivered` and `parkings` are
  history variables, read by properties only.
* **Delivery** — the abstract specification of the receive side: each
  subscription is a FIFO channel. `Session` implements it (`DeliverySpec`), with
  `published` and `delivered` as the refinement mapping.
* **Transport** — the transport with `connect()` above it, or in a server: the
  initial state says which. A server is not in `src/`; the model has it read CONNECT, write CONNECTED
  with the client's rates in the heart-beat header (which is what `startHeartBeat`
  takes it for), and go on like a client. Time
  is explicit (`Tick`), the interval timers are counters, and byte counts are
  kept only as "changed since the timer last looked" (`readSeen`, `writeSeen`),
  which is all the timers ask. `CountsArrivals` tells a stream whose `bytesRead`
  grows as bytes arrive (a net socket with room in its buffer) from one that
  counts when they are pulled (the WebSocket stream). Written bytes count at the
  write, as a net socket counts them.
* **Queue** — the queue as a value: one operator per method. Used by
* **WebSocketStream** — two queues, the output loop (`pump`) and the iterator
  (`reader`), with the socket's events.
* **MessageQueue** — the helper `messageQueue`, over a session that delivers in
  order (which is what `Delivery` promises).
* **Reader**, **FrameHeaders**, **FrameOutput** — pure: each read operation as what it
  does with the bytes buffered; the header table; `writeFrame` as the sequence of
  its writes and what it returns. Bytes are characters or symbols, a header is two sequences of them.
* **FrameInput** — `readFrame` and the two body generators over that reader: one
  action per await. `reading` is the read in progress, `body` what the generator
  has still to do, `chunk` what its last `next()` gave.
* **FramePipe** — a writer, the stream and a reader. The peer writes frames with
  `writeFrame`, write by write, or bytes of its own; the stream hands them over in
  pieces of any size and may break off; the reading end is `connect()`, a client's
  receive loop (reduced to when it reads a frame and who gets its body) with an
  application that uses `readString`, `readEmptyBody` or `discardMessages`, or a server.
  What a run does is a *scenario*, chosen in `Init`. `bytes`, `sent`, `received` and `from` are
  history. `Rest` marks the states in which a run may end, so that TLC's deadlock
  check finds every other one that has no step.
* **MCSession**, **MCTransport**, **MCFramePipe** — requests, rates and scenarios for
  TLC. WebSocketStream and MessageQueue need no instance module.
* **SessionProofs**, **ReceiveProofs** (which extends it),
  **TransportProofs**, **MessageQueueProofs**, **WebSocketStreamProofs** — theorems about the module of
  that name. **FrameProofs** — about the operators of `Reader`, `FrameHeaders`, `FrameInput`
  and `FrameOutput`. **FramePipeProofs** extends it and is about `FramePipe`;
  **FrameTextProofs** extends that and is about the text of a frame: what is read and what is
  refused.

A few definitions are preceded by a faulty variant of the same shape (for
instance `LoopAlwaysStops` before `LoopStops`). No specification uses them; put
in place of the definition they break a property, which shows that the
property can fail. `PROJECT.json` pairs every property with one ("mutants").

## Runs

All runs check deadlock except `message_queue`, whose loop may end.

| Run | States | Shows |
|---|---|---|
| `session_send` | 0.51 M | three sends of every kind under every fault: `OneWriter`, `SendsInOrder`, `NothingAfterDisconnect`, `NoStrandedSend`, `NoForgottenSend`, `ReceiptMeansProcessed`, `ReceiptsCumulative` |
| `session_receive` | 2.56 M | two subscriptions, two sends, two receives, two messages each, writes and bodies that fail and frames of other commands: `TypeOK`, `PendingIsRead`, `ReadsCoverRequests`, `BodyBeforeNextFrame`, `ParkedHeld`, `TerminateSettles`, refinement of `Delivery` |
| `session_live` | 0.21 M | one open subscription and one that is opened and closed, two sends, two receives, a message each, either of which may be parked: `SendsSettle`, `ReceivesServed` under fairness |
| `transport` | 43 k | both roles, every agreement of rates: `TypeOK`, `WireIntact`, `FailedConnectCloses`, `FirstErrorStays`, and for a client `DeadPeerNoticed`, `HeartBeatsSent`, `LivePeerKept` |
| `websocket` | 0.24 M | `TypeOK`, `OutputInOrder`, `NoLostDrain`, `InputInOrder`, `EndSendsAll`, `WritesSettle` |
| `message_queue` | 182 | `CallsInOrder`, `NobodyWaitsInVain`, `MessagesBeforeEnd` |
| `frames` | 0.14 M | 272 scenarios under every cut of the stream: `TypeOK`, `FramesParsed`, `RoundTrip`, `FramesAligned`, `LimitsExact`, `ConnectHeaderIntact`, `AckedIsRead`, `NothingUnread` |

`FramesParsed` compares every frame that was read with a definition of the frame
grammar over the bytes between its first and its last, which knows nothing of
reads, chunks or limits. `RoundTrip` compares it with the frame that was written, for frames the
protocol version can carry (`Representable`) whose content-length, if any, tells the truth.
`LimitsExact` has both directions: nothing within the limits and the grammar is
refused, nothing beyond them is accepted; its last conjunct, `BodyBounded`, says
that no reader is given more of a body than the limits allow. The constant `Alphabet` names the
characters that scripts are made of (all strings in TLC), for the proofs' types. `FramesAligned` says that the loop reads
a frame only where the last one ended, and names the two steps of the code that
break this: a command nobody knows, and a body that failed.

`ReceivesServed` says what a pending `receive()` may rely on, and a parked message takes two
things from it. While it is parked the loop reads nothing (session.ts:657). And when it is
taken, `receive()` adds no read for it (332-337) but its end takes one (659) that
another operation had asked for: the count reaches 0 too early, and the loop goes idle
under a pending `receive()` although a message is waiting, until some other
operation adds a read. `ParkedInTheWay` names the two; without either of them TLC finds the
property violated. `BodyBeforeNextFrame` says that `readFrame` is not called while
somebody still reads the last body; that the body has ended well it does not say, and it is not so
(`frames_body_error`). `FirstErrorStays` says that the error a stream closed with
stays, except that close() may be waiting for `writeEnd()` by then: an error of that
call replaces it (transport.ts:334-338, `StreamEnded`). `AckedIsRead` says that
`discardMessages` acknowledges what it has read, each once and in order, and at most one
message beyond, the last, of which it lost a part (message.ts:48): the connection was lost or the peer failed to
write its frame. `ConnectHeaderIntact` lets an empty heart-beat of the caller pass, as `has()` does
not see it (header.ts:83).

Five more runs each show a statement of the documentation, a comment or a test
that the code does not keep:

| Run | Statement | What happens |
|---|---|---|
| `session_send_after_close` | `session.test.ts:129-145` "session disconnected" | with a write in flight, two sends after `shutdown()` are queued and at least one is never called back |
| `session_receive_after_close` | `README.md:113-114` "the error value is returned from the affected operations" | the failed read calls `terminate()`, which has already run |
| `transport_websocket` | `transport.ts:62-64`, `:112` | bytes that arrived but were not pulled are not counted: a live peer is timed out |
| `transport_server` | `transport.ts:62-64` "The actual expected rate is negotiated" | a server starts its timers from its own answer (294) and so swaps the rates: a client that agreed to send nothing is timed out |
| `frames_body_error` | `transport.ts:37` "must not call this function before the previous frame's body has been fully read" | after a body that failed the session reads the next frame from the middle of it |

`session.ts:259-260` also says that a message which no receive awaits shuts the
session down. The code keeps it (648) for the next `receive()`, as
`session.test.ts:739-756` expects; `ParkMessage` models this, and `ParkedHeld` checks it.

Other disagreements that one step of the model shows by itself have no run:

* `receipt.ts:2-5` says that a timeout of 0 waits for ever; `session.ts:528-540` hands
  it to `setTimeout`, which fires at once (`ReceiptTimesOut`).
* `session.ts:415-416` says that a `disconnect()` that times out shuts the session
  down; the timer only calls back (`ReceiptTimesOut`).
* `transport.ts:42-43` says that a write resolves when the frame is sent; the WebSocket
  stream's resolves when the output loop takes the chunk, which is lost if the
  socket then fails to open (`PumpTakes`, `SocketCloses`).
* `output.test.ts:138-174` expects an error for a body that is not as long as its
  content-length; a frame that needs several writes is not compared
  (`output.ts:140-171`, `TrailerOf`).
* `writeFrame` goes by the last content-length line (`output.ts:60`), the reader by the
  first (`header.ts:70`): `ExpectedLength` against `FirstCounts`.
* `transport.ts:246` keeps the heart-beat line it means to drop; `connect()` has already
  dropped it, which is why `ConnectHeaderIntact` holds.
* Before STOMP 1.2 a value that ends in CR loses it, since `readLine` takes CR LF for
  an end of line under every version (`reader.ts:88`, `CarriesLine`).
* `README.md:113-114` says that an error is returned from the affected operations. After a
  message was parked the count of reads may be 0 while a receipt or a receive() is
  awaited, and terminate() looks at the count (`session.ts:453`): it overlooks them. Hence
  the condition on `parkings` in `TerminateSettles`.
* `discardMessages` acknowledges a message of which it lost a part (`message.ts:48`,
  `EndFailedBody`); `readString` and `readEmptyBody` that return early leave the receive
  loop waiting for ever (`body.ts:148-159`, `LoopAfterReturn`).
* `output.ts:164` reuses the header's buffer for the trailer, which a WebSocket whose
  `send` has not run yet would see; the model's bytes are values, so this is not in it.

The bounds and why they are enough. Three sends hold one in flight and a queue of
two, so a loop can be continued, stopped or closed with something behind it; each
may be a SEND or a DISCONNECT, with or without a receipt, and every kind of
fault (`Faults`) is on in `session_send`. Two messages per subscription let one be
parked while the next waits; two receives let one replace, cancel or repeat the
other; two subscriptions let a message for one arrive while the other is
awaited. SUBSCRIBE is sent without a receipt (its default) and with one,
UNSUBSCRIBE with a receipt (its default) in `session_receive` and without in
`session_live`, which has one message per subscription: the one that is parked and the
one that then waits behind it belong to different subscriptions, and the operation that loses its
read is a send with a receipt or the other `receive()`.
A DISCONNECT and failing writes are left to `session_send`, for once the session is disconnected
`SendsSettle` asks nothing more; `shutdown()` is in every run. Rates are 1 to 3 units with a tolerance of 1, so the peer's rate
may be below, at or above ours, and bytes may fall at any phase of either timer;
time itself is not bounded, the counters return. Three writes fill the output
queue behind a chunk the loop holds. In `frames` lines hold 6 bytes, headers 3 lines,
bodies 4 bytes in chunks of 2, the write buffer 12: every limit is met exactly and exceeded by
one, a body takes one, two or three chunks, and a frame one write or several. Values contain each escaped
character, an escape in front of a letter that makes another, a CR at the end, a
NUL in a body with a length; names and commands are single symbols. Two frames follow
each other in most scenarios, so the bytes left in the reader by the first begin the second. `SYMMETRY` permutes subscriptions, only
in `session_receive`, which has no liveness property. The server sends nothing
after a faulty frame.

## Fairness

`Session!Fairness` asks for weak fairness of the event loop's own steps: a write
settles, a due timer fires, a frame that has arrived is read, an awaited
continuation runs. It asks for one thing of the application, `ReadBody \/ BodyFails`: the
holder of a message reads its body to its end, and past an error, as the session's contract
obliges it to (session.ts:259-260, transport.ts:37); a reader that stops at the
error leaves the loop waiting (`LoopAfterReturn` in `FramePipe`). That a write settles is an
assumption on the stream: a socket's does, but over a WebSocket that closes before its
output loop has taken the chunk it never does (webSocketStream.ts:70), and
`SendsSettle` says nothing of that case. Nothing is asked of the server. A receipt
timer exists for every receipt, and TLC's time is abstract: it may fire at any
moment, and must fire if nothing else settles the send.
`WebSocketStream!FairSpec` asks that the output loop and the iterator are resumed;
nothing of the socket. `FramePipe` states safety only: TLC's deadlock check, with
`Rest`, shows that a run stops only where it should, and `NothingUnread` that whatever
was written by then has been read. `Transport` states safety only; in it a timer is served on
time, before or after whatever else happens at that instant.

## Proofs

`SessionProofs` proves, for every set of subscriptions and requests, every
timeout and every bound, from `SessionAssumption` alone:

* `TypeCorrect`: `Spec => []TypeOK`.
* `OrderCorrect`: `Spec => []OrderInv`, and from it `OneWriterCorrect`,
  `SendsInOrderCorrect`, `NothingAfterDisconnectCorrect`, `NoStrandedSendCorrect`.

`OneWriter` is not inductive, and neither is `SendsInOrder`: a send that starts the
loop is appended to `written`, so its number must exceed all others, which holds
only because a queue that is not empty has a running loop (`NoStrandedSend`) and
because everything written comes before everything queued. `OrderInv` is
`TypeOK /\ OneWriter /\ Called /\ WrittenCalled /\ QueueInOrder /\
WrittenBeforeQueued /\ SendsInOrder /\ DisconnectClosesWrites /\
NothingAfterDisconnect /\ NoStrandedSend`. The steps fall in three kinds: those that
leave the send side alone (`QuietSteps`), those that close it (`Terminate`,
`CloseRequests`), and those that call `SendLoop`.

`TransportProofs` proves, from `TransportAssumption`, for both roles and every rate,
tolerance and header of the peer:

* `TypeCorrect`, `FirstErrorCorrect`, `WireIntactCorrect`, `FailedConnectCorrect`,
  `HeartBeatsCorrect`;
* `DeadPeerCorrect` and `LivePeerCorrect` under the hypothesis `CountsArrivals`. The
  hypothesis is needed: `transport_websocket` refutes `LivePeerKept` without it.

All but the first two follow from `InvCorrect`: `Spec => []TransportInv`.
`TransportInv` says what a timer knows between two looks at its byte count, which
the properties leave out:

* `ReadClock`: with bytes seen since the last look, the silence is at most the
  time since that look; with none, it is at least that time and at most one
  period more; and a live peer's silence is less than a period. Hence a timer
  that fires without bytes seen meets a silence of a whole period, which a live
  peer never lets a client see (`LivePeerKept`), and a dead one is noticed at the second
  look (`DeadPeerNoticed`). `Counted` (no byte waits to be counted) makes it
  inductive.
* `WriteClock` is the same for our own writes, and `Periods` ties the timers' periods
  to the agreed rates, so that `HeartBeatsSent` is a bound on the agreed interval.
  `Periods` and `ReadClock` are stated for a client (`~Server`): a server's timers have
  other periods, as `transport_server` shows. `RoleStep` says that the role stays.
* `FrameInv` describes a frame in flight and `TimersWait` says that no timer runs before
  CONNECTED has been answered, so `WireIntact` cannot be broken by a timer that
  fires during the CONNECT frame.
* `ErrorsClose`: a transport with an error, or whose stream is not open any more, is closed,
  so the timer's error is the first one when it closes the session, and the only error that
  comes after another is that of a `writeEnd()` under way.

`SessionProofs` also proves `NoForgottenSendCorrect`, `ReceiptMeansProcessedCorrect` and
`ReceiptsCumulativeCorrect` from `ReceiptInvCorrect`. The three are not inductive: a RECEIPT
completes every request with a sequence number up to its own, so one must know
that these numbers follow the order of the writes (`ReceiptSeqs`), that the server
names only frames it has processed, also in what is still under way
(`Replies`), and that a send which is pending is queued, being written or awaited
(`Settleable`).

`ReceiveProofs` is about the receive loop:

* `ParkedHeldCorrect`.
* `BodyBeforeNextFrameCorrect`, from `BodyInv`: a body that has not ended belongs to the branch of
  the loop that awaits its end, unless the session was terminated on its header or the
  frame is of another command, for which the switch at session.ts:620 has no
  default.
* `ReadsCoverRequestsCorrect` and `PendingIsReadCorrect`, from `CoverInv`. That the count of reads
  covers what is awaited is not inductive: a receipt whose timer has fired is not awaited
  any more but its frame still takes the read it was counted for. `Due` therefore counts the
  receipts that may still be read, and `OneReceipt` says that each is read once.
  A parked message uses up a read nobody asked for, which `parkings` measures.
* `TerminateSettlesCorrect`: terminate() settles all that is pending. Beyond `CoverInv` it needs that a
  pending receive() is one the session knows (`PendingAwaited`).
* `DeliveryCorrect`: `Spec => DeliverySpec`, the refinement. `ChannelInv` says that the messages of a
  subscription in the stream are those published and not yet taken, numbered one
  after the other, and that the parked one is the next. Each step is then a
  step of `Delivery` or leaves `published` and `delivered` alone.

`MessageQueueProofs` proves `CallsInOrder`, `NobodyWaitsInVain` and `MessagesBeforeEnd` from
`QueueInv`: there is a number h of messages handed out such that the messages
queued, or else the callers waiting, are those that follow h. It holds for any
numbers of calls and messages.

`WebSocketStreamProofs` proves `TypeOK`, `OutputInOrder`, `NoLostDrain` and `EndSendsAll` from
`OutputInv`, and `InputInOrder` from `InputInv`. `OutputInv` follows the chunks from `write` through
the queue and the pump's hands to the socket; `EndState` says where the end of
the writes is, so that the socket is closed only behind the last chunk. `InputInv` lists the
messages that were handed out, that are held and that are queued as one sequence in
order of arrival; messages that arrive as blobs are left out of it, since they
may be overtaken (webSocketStream.ts:53).

`FrameProofs`, `FramePipeProofs` and `FrameTextProofs` are about frames of any length over any alphabet:

* `CutsDoNotMatter`: a result of `ReadLine`, `ReadUntil` or `ReadRange` other than "continued" is
  the result on every longer buffer. This is why it does not matter where the stream
  cuts its bytes.
* `DecodeUndoesEncode`: `DecodeValue(EncodeValue(value, version), version) = value`.
* `LineRoundTrip`: a header line that the version can carry (`CarriesLine`) is found by
  `readLine`, split and decoded to what was written, whatever follows.
* `PipeTypeCorrect`, `FramesAlignedCorrect`, `BodyBoundedCorrect`, from `PipeInvCorrect`, for all
  scripts and limits. `PipeInv` has the types (`PeerTyped`, `StreamTyped`,
  `ReaderTyped`), what the receive loop, readFrame and the body generator know of
  each other (`Stages`), that the reader of a CONNECTED body has seen its version
  (`VersionKnown`), what has been given of a body against what remains (`Bounds`), and where
  frames begin (`Aligned`). `FramesAligned` speaks of the loop while it reads a frame;
  that its next frame begins at the right place depends on where the reader stood while it was
  idle and in the body before. `StreamTyped` says of the buffer and the wire where they stand
  in `bytes`, element by element: an equation between concatenations is out of the
  provers' reach.
* `FramesParsedCorrect`, from `ParsedCorrect`. `FramesParsed` speaks of a frame when its last byte
  has been read; `Parsed` says of the bytes read so far (`Read`) what the reader has made
  of them. While the header is read they are whole lines (`Lined`), of which none, or the first not
  empty one, is the command, and the ones behind it are `input.lines`, decoded
  (`HasLines`); when it is complete it ends with the only empty line (`HeaderWhole`). While
  the body is read they are such a header and what the consumer has, or is about to have, of
  the body (`ContentRead`), and `Goes` says what is missing: as many bytes as `remaining`, or a null
  byte that has not come. The frames already read stay (`EntriesStay`), also when the
  connection is lost, since that takes only what has not been consumed. `LineAdded` is the lemma
  of the header's steps: what one more line does to the lines of a text. `HeaderParses` is that of
  the last step: whatever follows a whole header, its lines are found and decoded as they were
  while it was read.

* `LimitsExactCorrect`, from `Limited`. `LimitsExact` speaks of a header or a body that has been
  refused and of the whole text the peer has sent; the reader has seen only part of it.
  `HeaderLimited` therefore says that what has been read is within the limits: its lines are
  short (`Short`), each behind the command has a colon (`Colons`), the first is not empty where it
  must not be (`FirstFull`), and there are no more than `MaxHeaderLines` (`WithinLimits`). Of a
  refusal it says what was wrong with what was read and buffered then (`HeaderRefused`): no
  end of line within the limit, nothing where the command must stand, a line without a
  colon, a line too many, or the end of the stream. `BodyRefused` and `BodyWrong` say the same of
  bodies. `LinesRemain` carries this to the text: the lines read so far are its first lines,
  whatever follows. `QuietLimited` covers the steps that read nothing.
* `WrittenOnWire` and `FrameRoundTrip`, about frames rather than states. What `WriteFrame` writes
  of a frame without failing is, in however many writes, `OnWire`, its bytes up to the null byte,
  and a line feed. Where these bytes stand behind line feeds, and a frame is taken
  there under the same version, it is the one that was written, command, lines and body, and ends
  with its null byte, whatever comes after. The frame must be one that the protocol can carry
  (`CanCarry`): a command of one line, lines as `CarriesLine` has them, a table made by the
  constructor, and a body that is as long as its content-length or has no null byte. `HeaderWritten` reads
  the header back line by line, by `LineWritten`; `HeaderParses` and `ContentUnique` leave only
  one place where the frame can end. With `FramesParsed`, which says that a frame that was
  read is taken so from its first byte, and `FramesAligned`, which says that
  this is the one behind the last frame, these are the steps from what is written to what is read.

The induction theorems of the library take an operator; these modules induct
instead with `LeastNumber`, that a nonempty set of numbers has a least one, which follows from
`WFMin`. The folds and the recursive functions of the model are shown to exist and
to be typed this way (`JoinsExist`, `DecodesExist`, `IterExists`).

Assumptions: `FramePipeAssumption` (the alphabet has the symbols of the codec) and
`ScenariosAssumption` (a script is made of frames and bytes over the alphabet, and each
header line has its name in the table, as the constructor of `FrameHeaders` makes it,
header.ts:14-22, 67-75). TLC evaluates both on `MCFramePipe`.

Only model-checked: all liveness (`SendsSettle`, `ReceivesServed`,
`WritesSettle`), which is beyond TLAPS; and `RoundTrip`,
`ConnectHeaderIntact`, `AckedIsRead` and `NothingUnread`. `RoundTrip` compares two histories, and
scripts that `ScenariosAssumption` allows break it: the body of a frame that is skipped may look like
a frame, and a frame may be written under one version and read under another. What holds
of every frame is `FrameRoundTrip`; that the frames of the scenarios stand one behind
another, and are read under the version they were written in, stays with TLC, and so does what
depends on it.

## Not modelled

`raise` of the queue, which has no caller in `src/`; UTF-8 (a character is a byte),
`readJson` and the writers of constant bodies, which are conversions; `concat`, `getAll`
and `required` of the headers and the table of ack modes, which no control depends on; body
generators that throw; the error listener, which only observes; the wording of
errors; the value types of `result.ts` and `error.ts`; what a server does around
its transport.

## Plan

1. Done: Session and Delivery, Transport with connect() and in both roles, Queue,
   WebSocketStream, MessageQueue, the codec with its readers of bodies
   (`discardMessages` among them), their runs, the type and the order theorems of
   Session, the theorems of Transport.
2. Done: the theorems about Session's receipts and receive side, the refinement of
   `Delivery`, MessageQueue, WebSocketStream; the lemmas on `Reader` and on the encodings;
   the invariant of the pipe.
3. Done: the invariants of the parser, `FramesParsed` and `LimitsExact`; `FrameRoundTrip`.
4. Left: an assumption on scripts under which `RoundTrip` follows from `FrameRoundTrip`, and
   `AckedIsRead`, `ConnectHeaderIntact` and `NothingUnread` from it.
