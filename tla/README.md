# A verification model of TouchMonitor

TouchMonitor shows a Windows monitor on an iPad and sends the iPad's touches back. This directory
holds TLA+ models of the parts where threads, queues, two transports and the network meet, TLC runs
that check them on small instances, and TLAPS proofs about the core. Paths below are relative to
`src/`; `PROJECT.json` maps each definition to its lines.

## 1. Inventory of the system

| Component | Source | State it keeps | Operations | Hard behaviour |
|---|---|---|---|---|
| Writer loop | `pc-server/src/stream.rs` 132-174 | `frame_count`, `sent_reliable_keyframe` | take a captured frame, encode it, send by UDP, send by TCP | runs until a call fails; decides per frame which path to take, looking the client up twice |
| Reader thread | `stream.rs` 107-130 | the touch injector | read a message, apply touches | ends with the stream, joined by nobody |
| Accept loop | `stream.rs` 16-57 | the shared `VideoUdp` | clone it and spawn `handle_client` per connection | sessions overlap; each drops its clone |
| Video UDP | `pc-server/src/udp.rs` | `clients` by address, `stop` | register (own thread), `has_client`, `send_frame`, `Drop` | shared lock and flag; one registration datagram |
| Wire framing | `pc-server/src/protocol.rs`, `ios/TouchMonitor/StreamProtocol.swift` | the read buffer | write and read messages, parse datagrams | messages cut anywhere; lengths at their limits |
| Access units | `encoder_mft.rs` 158-177, `H264Decoder.swift` 56-164, 214-253 | parameter sets, decoder session | `to_annex_b`, `splitAnnexB`, `decodeOne`, `rebuildSession` | two forms that look alike; sessions of older parameter sets |
| Encoder | `pc-server/src/encoder_mft.rs` | `event_state`, `async_mode`, the transform | `Invoke`, `wait_for_event`, `encode_frame` | a callback on a foreign thread; a contract about the order of calls; timeouts |
| Touch injector | `pc-server/src/touch.rs` | per-id bookkeeping, the device | `new`, `apply_and_send`, `shutdown` | must agree with what Windows believes |
| Capture | `pc-server/src/capture.rs` | a pool and a channel of two frames | `list_monitors`, `start`, `FrameArrived`, `next_frame_timeout` | full channel; a monitor that changes its mode or goes |
| USB server | `pc-server/src/usb.rs` | the `iproxy` child | start, connect until it works, serve once | child process; one connection only |
| Network client | `ios/TouchMonitor/NetworkClient.swift` | connections, `readBuffer`, `videoParts`, `lastDeliveredVideoFrame` | start, stop, receive loops, `handle`, `handleVideoDatagram`, `sendTouches` | loss, repetition and reordering of datagrams; id wrap |
| Decoder | `ios/TouchMonitor/H264Decoder.swift` | one-unit mailbox, `decodeScheduled`, parameter sets, session | `decode`, `decodeOne` | two queues meet at the mailbox; the newest unit wins |
| Touch view | `ios/TouchMonitor/StreamSurfaceView.swift` | `touchMap`, `nextTouchID` | touches begin, move, end | u8 ids wrap |
| App model | `ios/TouchMonitor/AppModel.swift` | client, published state | connect, disconnect, callbacks | callbacks of a stopped client |
| The rest | `main.rs`, `service.rs`, `build.rs`, views, CI | - | - | sequential start-up, layout, build |

They interact through one TCP connection per iPad (hello, startup video, touches, pings), UDP
datagrams in both directions (`TMREG1` up, video down), the shared `VideoUdp`, the callback of the
encoder, and the dispatch queues of the iPad (`sendQueue` for all network events, `queue` of the
decoder, the main thread for touches).

What makes each correct:

* **UDP video**: a unit is decoded whole, from one frame; the picture never goes back; a loss costs
  one frame.
* **Delivery**: the mailbox neither sleeps on a unit nor runs twice; the startup keyframe arrives;
  units are decoded in order although two paths carry them.
* **Sessions**: registrations are served as long as the server runs; a disconnect ends what the
  connection started; reconnecting works.
* **Encoder**: no call the transform refuses, and every request for input answered; an event request is
  always outstanding or answered; no frame stays behind; every call returns.
* **Capture**: frames get newer; what was rendered is encoded, also the last change before a standstill; the
  encoder and its conversion get pictures of the encoder's shape.
* **Wire and access units**: what was written is taken, whatever TCP does; a picture is whole and meets a
  session made for it.
* **Links**: the iPad shows the state of the client it has; one connection per client; neither side stays
  behind when the other goes; a client that connects again is served.
* **Touch**: transitions are legal for each id; the bookkeeping is Windows' view, also after an injection
  that failed; no finger is stuck or missing while the connection is up, none is down after it.

The hazards are listed with their lines in `PROJECT.json`.

## 2. Modules

| Module | Models | Composed with |
|---|---|---|
| `FrameChannel` | abstract: what the UDP path promises to the picture | implemented by `VideoReassembly` |
| `VideoReassembly` | `send_frame`, the network, `handleVideoDatagram` | `Channel == INSTANCE FrameChannel WITH ...` |
| `MCVideoReassembly` | the instance of it for TLC | extends `VideoReassembly` |
| `VideoReassembly_proofs` | theorems about it | extends `VideoReassembly`, TLAPS |
| `VideoDelivery_proofs`, `ServerSessions_proofs`, `MftEncoder_proofs`, `TouchInput_proofs`, `CaptureFeed_proofs`, `UsbLink_proofs`, `ReceivePath_proofs` | theorems about the modules they are named after | extend them, TLAPS |
| `VideoDelivery` | writer loop, UDP and TCP, registration, mailbox, decoder | uses the promise of `FrameChannel` for its UDP step |
| `ServerSessions` | accept loop, client threads, registration thread, iPads | - |
| `MftEncoder` | `encode_frame`, the callback, the transform | - |
| `TouchInput` | touch view, messages, reader thread, injector, Windows | - |
| `CaptureFeed` | monitor, frame pool, `FrameArrived`, channel, start and checks of the encoder | - |
| `MCCaptureFeed` | its instance for TLC | extends `CaptureFeed` |
| `Bitstream` | byte formats as operators: messages, payloads, Annex-B and AVC | - |
| `ReceivePath` | one direction of a TCP connection: sender, stream, receiver, decoder session | extends `Bitstream` |
| `MCReceivePath` | its instance for TLC | extends `ReceivePath` |
| `UsbLink` | app model, network client, `usb::run_server`, `iproxy` | - |

Some definitions are preceded by a *mutant*: the same definition with a plausible slip (a dropped
guard, an off-by-one, a missing reset). No specification uses them; substituting one for the
definition it follows breaks the property that `PROJECT.json` pairs it with, which shows that the
property depends on that line of the code.

### VideoReassembly

`frame_count` and `sent` are the writer's side: `SendFrame` numbers a frame and hands its datagrams
to the network, `SkipFrame` numbers one that is not sent (the encoder returned nothing yet, or no
client is registered). The client's `videoParts` maps an id to the announced total and the parts
that came; `lastDeliveredVideoFrame` is the id last delivered, or `None`; `screen` is the unit last
given to the decoder. `Receive` hands over any datagram of any sent frame, any number of times and in
any order, so loss, repetition and reordering are all included. `handleVideoDatagram` has three
outcomes and each is an action: `IgnoreChunk` (stale, or another total announced), `KeepChunk`
(stored, then the clean-up), `DeliverFrame` (complete).

Bytes are abstracted to `<<frame, chunk>>` pairs, which is what the properties tell apart. `FrameId`
is the number modulo `Mod`, the code's 2^32. `got`, the set of datagrams handled, is a history
variable that no action reads. A connection that ends and a hello that clears the state begin a new
behaviour. One writer numbers the frames that a client gets. That is an assumption about the server: run
`sessions_writer` shows that the writer of an ended connection may go on, so that after a reconnect two of
them, each with its own `frame_count`, can send to one iPad; `VideoReassembly` and `VideoDelivery` say
nothing of that case. The code's cap of the datagram count at `u16::MAX` is left out: it is met at 76 MB
per frame, beyond any encoder's output.

### VideoDelivery

One connection. `writer` is the point the writer loop has reached: `TakeFrame` (take and encode),
`SendUdp` (`send_frame`), `SendTcp` (the three `needs_tcp_...` conditions). `tcp` is the ordered
stream, `sent` the units sent as UDP frames, `registration` how far `TMREG1` has come. The client's
`HandleHello`, `HandleVideo` and `HandleDatagram` run on one queue and call `Decode`, which is the
locked part of `H264Decoder.decode`; `TakePending` is one locked turn of the block on the decoder
queue, and `DecodeOne` is `decodeOne` with `rebuildSession`, any call of which may fail: without a format
description the session stays as it is, without a new session there is none, without a sample the unit is
dropped (`parameters` remembers that there are parameter sets to try again with). The code holds the lock only around the
mailbox, so `DecodeOne` and the network queue interleave. A UDP frame is delivered whole and newer than
the last one, the promise of `FrameChannel`; a keyframe stands for a unit with parameter sets.

### ServerSessions

A session `<<d, k>>` is the k-th connection from iPad `d`'s address. Its `writer` and `reader` threads
are started by `Connect` and `Setup`; `WriteFrame` is one turn of the writer loop, `WriteError` a TCP
write to a closed connection, `EncodeError` an encoder that fails or a capture that closes; both go
through `EndClient`, which drops the session's `VideoUdp` and so sets `stop`. `RegistrarCheck` and
`RegistrarRecv` are the two steps of the registration thread. `frame_count` stops at 3, because the
code compares it with 2 only.

### MftEncoder

`asked`, `held`, `ready` and `mftEvents` are the transform's side, modelled from the published
contract of asynchronous transforms as the code uses it: it asks for input while it has room
(`depth`), encodes when it holds more than `lookahead` frames, and queues an event for either. `armed`
is the outstanding `BeginGetEvent`, `events` the queue the callback fills, `pc` the point
`encode_frame` has reached. Synchronous transforms skip the waits and may answer
`NEED_MORE_INPUT`. `WaitForEvent` takes one event and throws it away if it is another than the one waited
for. A call that fails ends in `timed_out` or `error`, after which the session drops the
encoder. The wait times out only when the transform can announce nothing more (`Quiet`): a transform
that is merely slower than one second is left out, since the call fails then, too, and the encoder
goes.

### TouchInput

`touchMap` and `taps` are the view's, `tcp` the touch messages in flight, `state` the injector's
bookkeeping, `contacts` the ids Windows holds in contact. A batch lists the fingers in any order, as a
Swift dictionary does. `ApplyAndSend` is two loops, one over a message's events (`ApplyEvents`), which
changes the bookkeeping, and one over what came of it (`InjectAll`), which Windows carries out wholly or
not at all; an injection whose transitions do not fit the contacts always fails, and any other
may; the bookkeeping then stays as if it had not. `ReaderEnds` drops the injector, which leaves the
contacts alone: nothing calls `shutdown`. `illegal`, `failed` and `collided` are history variables.

### CaptureFeed

A frame is the version of the desktop it shows and its size. `ListMonitors`, `StartCapture` and
`NewEncoder` are the start of `handle_client`, which asks Windows twice for the monitor's size; the
encoder is made for the first answer, the pool for the second. `Render` puts a changed desktop into a
free buffer of the pool (`ready`) and makes a callback due; `TakeFrame`, `ExtractFrame` and `TrySend`
are the callback, in which every call may fail; `NextFrame` and `EncodeFrame` the writer. `YWrites` and
`UvWrites` are the positions that `bgra_to_nv12` writes. What Windows does is the monitor
(`ChangeDesktop`, `Unplug`) and the pool. The pool runs one callback at a time, as a free-threaded pool
with one handler does; `lost` (the versions that were dropped) and `missed` (the callbacks whose
`TryGetNextFrame` failed) are history variables. Timeouts of the writer change nothing
and are left out.

### Bitstream and ReceivePath

`Bitstream` holds the formats as operators on sequences of bytes: framing and unframing, the payloads,
`to_annex_b` and `splitAnnexB`. A byte is a number below `Base`, 256 in the code; a small base
keeps what lengths look like: a NAL of `Base` to `2 * Base - 1` bytes
stands for one of 256 to 511.

`ReceivePath` puts one direction of a connection around them. `wire` are bytes sent and not received;
`ReceiveBytes` and `ReadBytes` take any number of them, which is what TCP may do. On the iPad
`DrainMessage` is one turn of `drainMessages`, `pending` the mailbox of `VideoDelivery` (one unit, the
newest), and `DecodeOne` a turn of the decoder queue: `RebuildSession` may make no format description,
which leaves the old session, or no session, which leaves none, and `Submit` may make no sample. `unmade`, a
history variable, holds the parameter sets of which no format description could be made when it was tried
last. On the PC `TakeLength` and `TakeBody` are the halves of `read_message` and the reader thread's
`match`. The parameter sets come in the unit of their keyframe. `LengthsUnmistakable` and `KeyframesDecodable` are
conditions on what an encoder returns that only theorems use.

### UsbLink

`client` is the network client that the app model holds; its `connection` is `ended` when it ended by
itself, because the code keeps it then. A handler is called (`EnterHandler`, where `guard let self`
succeeds) and has its effect later (`FinishHandler`), so that `stop` on the main thread can come in
between: `FinishStale`. A stop also cancels the connection, whose own handlers may be entered just before
the client is released (`CancelCalls`, `Leftovers`). Every change of the state goes through `mainQueue` to `shown`. `server`, `own`
and `orphan` are the PC's processes, `link` how far the server's connection has come: accepted by
`iproxy`, attached to a client, closed. `still` says that the desktop stands still: the writer loop then
waits for a frame, and a closed connection is not noticed. Connections over the network come and go at will, since
`ServerSessions` has the server's side of them.

## 3. Runs

| Run | Expected | States | What it shows |
|---|---|---|---|
| `reassembly` | pass | 178,888 | `ScreenIntact`, `PartsIntact`, `LossDiscardsOneFrame`, refinement of `FrameChannel` |
| `delivery` | pass | 36,918 | `MailboxServed`, `BackwardsOnlyByStartupTcp`, `NewestReachesDecoder` |
| `delivery_order` | violation | | a P-frame sent over TCP at startup is decoded after a newer UDP frame |
| `sessions` | pass | 54,546 | the registration thread outlives every state before the first session ends, and registers whoever asks |
| `sessions_reconnect` | violation | | after one session has ended no registration is served |
| `sessions_writer` | violation | | the writer runs on after a disconnect |
| `encoder` | pass | 600 | `ContractObeyed`, `SerialInputAnswered`, `OneRequestOrEvent`, `NothingLeftBehind`, `SerialNeverTimesOut`, `EncodeReturns` |
| `touch` | pass | 412,515 | `LegalTransitions`, `ContactsAreFingers` |
| `receive` | pass | 113,867 | `TakesWhatWasWritten`, `OnlyOversizeStops`, `PicturesIntact`, `SessionFitsPicture`, `LastMessageTaken` |
| `receive_avc` | violation | | a unit of `Base` to `2 * Base - 1` bytes in AVC form goes out unconverted |
| `capture` | pass | 100,344 | `PictureHasEncoderShape`, `PlanesFilled`, `FramesGetNewer`, `RenderedIsEncoded`, `PoolRecovers` |
| `usb` | pass | 299,234 | `ShownIsCurrent`, `OneConnectionPerClient`, `LostLinkIsShown`, `ServesOrEnds`, `ListenerIsServed` |

The four violations are disagreements between the code and a document or comment of the repository;
`PROJECT.json` quotes each line under `findings`. Section 5 lists promises that are not kept either and that
the passing runs state with the exception they need.

**Bounds.** `reassembly`: ids modulo 16, frames 12 to 17, so that ids wrap in the middle of the run;
one, two or three datagrams per frame; six frames let a frame be incomplete while another three or more
ahead of it arrives, which is the distance of the clean-up. `delivery`: four frames give the two
fallback frames, a later keyframe and a P-frame after it; every queue is bounded by that. `sessions`:
two connections in all, shared by two iPads or made by one, give overlap, order and reconnection; a
third adds no new thread or flag value. `encoder`: depths 1 to 3 with every lookahead below, calls
without bound. `touch`: two fingers and two points, ids modulo 3 and four taps, so that an id is used
again and a collision happens (a finger held while the other taps three times); two messages in
flight. `receive`: base 9, the smallest with room for the NAL types 1, 5, 6, 7 and 8; four messages, so
that a keyframe with other parameter sets can be overwritten in the mailbox before another unit comes; a
limit that one of the P-frames exceeds. `receive_avc` adds a slice of ten bytes. `capture`: a mode, the
same turned by 90 degrees, and an odd one of more pixels; two buffers as in the code, and four versions of
the desktop, which fill pool, callback, channel and writer with different ones; failures of Windows' calls
without bound. `usb`: two clients and two servers are the old and the new one of each, which is what a
late handler, a second connection or a proxy left behind needs; `MaxQueue` 3 holds the blocks of one
connect behind another. `CHECK_DEADLOCK FALSE` is set because the bounds end every behaviour, and the user may.

**Fairness.** Threads and dispatch queues that can go on do: the writer's sends, the TCP receive loop
and the decoder queue (`VideoDelivery`); setup, writer, reader and registration threads
(`ServerSessions`); the transform, its callback and the steps of a call (`MftEncoder`); the callback
and the writer (`CaptureFeed`); TCP's delivery and both receivers (`ReceivePath`); the main queue, the
client's queue, `run_server`'s loop and `iproxy`'s forwarding (`UsbLink`). `UsbLink` assumes in
addition that the end of a USB connection is told to the client, and that the server writes to a closed
connection, and notices, as long as the desktop changes; that it does is not assumed. Never assumed: that a
frame is captured in `VideoDelivery` or rendered in `CaptureFeed`, that the decoder queue runs in
`ReceivePath`, that a call of VideoToolbox succeeds, that a datagram or `TMREG1` arrives, that the user acts,
that a call fails. `ServerSessions` assumes that frames keep
coming (weak fairness of `WriteFrame`), which favours the code: a writer that turns would notice most.

## 4. Proofs

Each module with proofs extends its component's module. Assumptions on constants are the named ones of
the component, which TLC also evaluates in the component's runs.

### VideoReassembly_proofs

`VideoReassembly_proofs` proves, for every `Mod`, `First`, `MaxFrame` and `Chunks` that the two
assumptions allow:

* `TypeCorrect`: `Spec => []TypeOK`;
* `NoTornPicture`: `Spec => []ScreenIntact`;
* `NoMixedParts`: `Spec => []PartsIntact`;
* `LossCostsOneFrame`: `Spec => []LossDiscardsOneFrame`;
* `Refinement`: `Spec => ImplementsChannel`.

Assumptions: `ReassemblyAssumption` (an even modulus, at least one datagram per frame) and `HalfRange`:
fewer than half the modulus of frames in a behaviour, the limit the code itself states for
`isNewerVideoFrame` (`NetworkClient.swift` 289-290).

The argument: the inductive invariant is `IInv == TypeOK /\ ScreenIntact /\ PartsIntact /\ ChunksKept`.
`ScreenIntact` alone is not inductive, because a complete entry is only a whole frame if its parts
all come from one frame (`PartsIntact`); that in turn needs ids to determine frames, the lemma
`NewerIsLater`, proved from division with remainder and `HalfRange`. The same lemma turns the
staleness test on ids into a comparison of frame numbers (`StaleIsOvertaken`), which gives the
refinement: `DeliverFrame` is `ChannelShow` (`DeliverEffect`), `SendFrame` and `SkipFrame` are
`ChannelTake`, and the other steps stutter. `LossDiscardsOneFrame` follows from `ChunksKept`, which
says that chunks the clean-up should spare are still there (`CleanUpSpares`), with `PartsIntact`: a
frame with all its chunks kept would be complete, and none is. `CountIsComplete` justifies the code's
test by count.

### VideoDelivery_proofs

For every `MaxFrame` (`DeliveryAssumption`): `TypeCorrect`, `MailboxAlwaysServed`
(`Spec => []MailboxServed`) and `OnlyStartupGoesBack` (`Spec => BackwardsOnlyByStartupTcp`).

`MailboxServed` is inductive with `TypeOK`. The order of pictures needs more. The only units sent both
over UDP and over TCP, or over TCP after the first one over UDP, are copies of the first unit of all
(`FirstUnit`: until a keyframe went over TCP the unit in hand is the first one, and the fallback needs an
unregistered client). So no unit on TCP is newer than one sent over UDP (`PathsOverlapOnce`), and nothing
the decoder holds or has decoded is newer than a datagram that reassembly can still deliver
(`NothingAhead`). A unit that is older than what is ahead of it can therefore only come over TCP, after a
newer datagram (`OlderIsLate`), which is what the action property says of `DecodeOne`.

### ServerSessions_proofs

For every finite set of iPads and every number of connections (`SessionsAssumption`): `TypeCorrect` and
`RegistrarLives` (`Spec => []RegistrarOutlivesSessions`). `StoppedByDrop` carries the second: `stop` is
set only by the `VideoUdp` of a session that is over, and such a session stays over, because a new
connection is a session without a past (`SessionsInOrder`). That the bound on connections bounds each
iPad's counter is a count of its sessions (`RoomForOne`).

### MftEncoder_proofs

For every set of depths and every lookahead below the depth (`EncoderAssumption`): `TypeCorrect`,
`AlwaysRearmed`, `NeverRefused`, `SerialIsAnswered`, `OutputIsOfThisFrame` and `SerialIsServed`, the invariants of the run
`encoder`.

An event is evidence of what the transform wants only as long as nothing else happened, so the invariant
counts (`EventsCover`): the `NeedInput` events on their way and in hand are at most the inputs asked for,
and the `HaveOutput` events exactly the outputs announced. The second is an equality because a
`HaveOutput` is never discarded: while `wait_for_event` waits for input there is no frame in the
transform (`OneFrameInFlight`). With depth one the first is an equality, too: while the encoder waits for
the output the transform has no room to ask, so no `NeedInput` is there to be discarded; hence none is
lost (`SerialInputAnswered`) and no call times out. `CountAppend` and `CountTail` say what a queue operation
does to the counts.

### TouchInput_proofs

For every set of fingers and points, every number of ids and every length of the queue
(`TouchAssumption`): `TypeCorrect`, `TransitionsLegal` and `FingersFollowed`, the
invariants of the run `touch`, and `BookkeepingTrue`, which the others rest on: until an injection fails, the
bookkeeping is what Windows believes (`BookkeepingAgrees`).

`ApplyEvents` and `InjectAll` are loops, written as functions of the number of turns. The prover cannot
use the library's induction theorems, which take an operator; but a set of naturals that is not empty has
a least element (`LeastElement`, from `WFMin`), and that gives induction over the turns of a loop (`UpTo`)
and the existence of its values (`LoopExists`). `TransitionsFit` joins the two loops: however often a
message mentions an id, the transitions made from it fit contacts that agree with the bookkeeping, turn by
turn, and leave contacts that agree with it. From that `LegalTransitions` and `BookkeepingAgrees` follow.

That no finger is lost is a statement about the queue. The messages not applied yet and the bookkeeping
together tell the glass (`GlassIsHeard`): an id is down on the glass if the last message that mentions it
says so, or none does and it is down now. `MessageHeard` and `HeardApplied` are the receiver's side of
it, for which the events of one message must agree (`MessagesSayOneThing`; the view sends fingers on the
glass apart from those that went); `HeardAppended` and `BatchMentionsAll` are the sender's, for which the
ids of two fingers must differ (`IdsDiffer`) until they are shared. With an empty queue `GlassIsHeard` is
`ContactsAreFingers`.

### CaptureFeed_proofs

For every set of modes, number of buffers and number of versions (`CaptureAssumption`): `TypeCorrect`,
`FramesOnlyGetNewer`, `ShapeKept` and `ConversionFills`. A frame passes five places, and the order of
what the encoder gets follows only from the order of all of them (`Line`): what is further along is
older. The shape follows from the crop (`Cropped`): a picture within another one of the same area is the
other one (`WholeByArea`), provided the pool was made for the encoder's size. The conversion is division
with remainder: a position of a plane has one row and one column (`PositionUnique`), and for even sizes
the pairs of the chroma plane meet without a gap (`ChromaFilled`).

### UsbLink_proofs

For every number of clients, servers and queued blocks (`LinkAssumption`): `TypeCorrect`, `OneConnection`
and `ScreenCurrent`. The screen is behind the client by exactly the blocks on the main queue: the last of
them is the client's state, and without any the screen is (`ScreenFollows`). A connection belongs to the
client as long as the server's end does (`LinkOfServer`), and the count of connections is bounded by what
`connection` remembers (`Attachment`): nothing but a stop, and the notice that follows one, forgets a
connection, and a stop also closes the listener (`Cancelled`: a client whose connection was cancelled does
not listen).

### ReceivePath_proofs

For every base above 8, every limit, every set of keyframes, other frames, forms and touch batches, and
every number of messages, under `BitstreamAssumption`, `PathAssumption`, `EncoderAssumption` (units are
not empty, hold no start code and do not end in a zero, as H.264 asks, and lengths fit in four bytes) and
`TouchAssumption` (counts and ids are bytes, coordinates fit in four):

* of the formats: `MessageTaken` (a written message is taken whole, and what follows it is left in the
  buffer), `PartWaits` (of a proper prefix nothing is taken and nothing refused) and `OversizeRefused`;
* `TypeCorrect`, `TakenAsWritten` (`TakesWhatWasWritten`) and `GivesUpOnlyOversize`
  (`OnlyOversizeStops`), in both directions;
* `FormsNormalized` (`BothFormsNormalized`) and `PicturesWhole` (`PicturesIntact`), if no sample of
  length-prefixed units reads as one with start codes in it (`LengthsUnmistakable`);
* `SessionMatches` (`SessionFitsPicture`, whatever calls of VideoToolbox fail), if in addition every keyframe brings its parameter sets and a
  slice and no other frame brings sets (`KeyframesDecodable`, what the encoder's hardware test looks for).

The two conditions are hypotheses of the theorems, not assumptions of the model, since the code enforces
neither: run `receive_avc` shows what happens without the first. TLC finds both true of the instance of
run `receive` (`MCHypotheses`).

*The stream.* The inductive invariant `IInv` adds to the two properties that each message handled is the
message of its number as written (`HandledIsWritten`), which state belongs to which side (`Sides`), and
`Aligned`: until the receiver gives up, the length it has read, its buffer and the wire are, put
together, the bytes of the messages not handled yet. Neither property is inductive without it: where in
the stream the receiver is cannot be told from the messages it has taken. `FrontMessage` says what
`popMessage` makes of the front of such a stream, `ReadLength` and `ReadBody` what `read_message` does;
`Overlap` and `SameStart` compare two ways of cutting one sequence.

*The formats.* What `BigEndian` and its inverse compute is division with remainder (`BigEndianInverse`),
where `popMessage` and `decode_touch` look is places in sequences put together (`FoundInPlace`,
`EventInPlace`). `FlattenSeq`, the conversion in `to_annex_b` and the loop of `splitAnnexB` are recursive
functions: that each exists and has the value its equation says is proved by induction over numbers, as
the absence of a least counterexample (`UpTo`, `Downward`, `LoopExists`, `DownExists`). `Laid` then says
where in a sample each unit lies. From the last unit to the first, `to_annex_b` replaces its length by a
start code (`ConvertUnit`), and the loop of `splitAnnexB` finds the code in front of a unit (`CodeHere`)
and none in it (`NoCodeInside`), so that it returns the units (`UnitsSplit`). `SampleNormalized` puts the
two together for the three forms.

*The decoder.* `Mailbox` says that what waits is newer than what was decoded and that the last picture is
the slices of a decoded message. `Decoder` adds how a session begins (`Opening`), that the parameter sets
are those of the newest keyframe decoded, and that a session has them, too, unless no format description
could be made of them (`ParametersCurrent`), and `SessionFitsPicture` without its CHOOSE (`PictureFits`). It
is inductive because a keyframe that changes nothing leaves a session as it is, and one that changes
something leaves the new session, none, or the old one with its sets in `unmade` (`DecodeParameters`).

### Only model-checked

Every liveness property and the violations: TLAPS 1.4.5 proves neither liveness under fairness nor facts
about ENABLED. Every invariant and action property of a passing run is proved. The library's induction
theorems take an operator as a parameter, which the installed provers cannot instantiate, so inductions
go by least elements of sets; no module declares a RECURSIVE operator.

## 5. Not modelled, and why

The arithmetic of the colour conversion, rendering and the aspect-fit geometry (floating point); device
enumeration, media types and `makeBlockBuffer` (calls into Windows and VideoToolbox without state of the
program's own); DNS-SD (one process, started and killed), the command line, views, texts, logs and the
build. Failures of the TCP stream other than its end are not distinguished from it.

Promises that are not kept. The models contain each of these behaviours, and the property named beside it
says what holds instead:

* `spec/verification-spec.md:51`, "process exactly one input per `METransformNeedInput`", and
  `spec/implementation-status.md:35`: a `NeedInput` that comes while `encode_frame` waits for the output is
  thrown away (`encoder_mft.rs` 463), and a later call may time out. A transform of depth two does this;
  one of depth one cannot (`SerialInputAnswered`, `SerialNeverTimesOut`), and no call is refused with any
  (`ContractObeyed`).
* `H264Decoder.swift` 9-10, "rebuild the parameter set (and decompression session) whenever SPS/PPS
  change": when no format description can be made of the new sets (138), the sets are kept and the old session
  gets the unit and those after it (`SessionFitsPicture` names this exception).
* `spec/system-spec.md:17`, "encodes every captured frame": a frame that meets a full channel is dropped
  (`capture.rs` 199), also if it shows the last change before the desktop stands still (`RenderedIsEncoded`
  excepts exactly the dropped version).
* `spec/verification-spec.md:43`, "Disconnect and reconnect twice without restarting the server or app":
  `usb::run_server` serves one connection and returns (`usb.rs` 35-50), on a still desktop not before the
  next change (`stream.rs` 165-168). A client that listens when a server starts is served
  (`ListenerIsServed`); one that connects again to a server that is serving is not.
* `spec/system-spec.md:20`, "A disconnect releases the capture, encoder, sockets, and touch state":
  contacts that are down when a connection ends stay down, since nothing calls `TouchInjector::shutdown`
  (`touch.rs` 229).
* `touch.rs` 184-185, "so we can emit correct DOWN/MOVE/UP transitions": the bookkeeping changes before the
  injection and is kept when that fails, so that the next transition of the contact does not fit
  (`LegalTransitions` and `BookkeepingAgrees` hold until the first failure).

Some behaviour is in the models without a property, because no document promises otherwise;
`PROJECT.json` notes it at the hazard concerned:

* the startup keyframe can be overwritten in the decoder's mailbox by the next unit;
* a handler that is running when its client is stopped sets its state after the new client's;
* a finger that stays down for 256 taps shares its id with another;
* the monitor's size may change between the two questions for it, before the encoder is made;
* an unplugged monitor leaves the session open with its last picture.

## 6. Plan

Done: the UDP core with its abstraction, delivery, sessions, encoder, touch, capture, the byte formats and
the receive path, the USB link and the iPad's connection state; the proofs of section 4.

Left, in this order:

1. A composition of sessions and delivery: who receives a frame after a reconnect, with the stale entry
   in `clients` and the writer that was left behind, so that one writer per client need not be assumed.
2. A composed module that shows `VideoDelivery`'s assumption on datagrams to be what `VideoReassembly`
   provides, and `ReceivePath`'s stream to be `VideoDelivery`'s `tcp`.
3. An abstract channel of whole messages that `ReceivePath` implements, with the refinement proved from
   `IInv` (`FrontMessage`, `ReadLength`, `ReadBody`).
4. Parameter sets that come in a unit of their own, before their keyframe.
