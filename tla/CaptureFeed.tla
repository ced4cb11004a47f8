---------------------------- MODULE CaptureFeed ----------------------------
(***************************************************************************)
(* A monitor's way to the encoder (capture.rs, the start and the writer     *)
(* loop of handle_client, the checks of MftEncoder::new and encode_frame):  *)
(* Windows renders the monitor into the buffers of a frame pool, the        *)
(* FrameArrived callback copies one frame at a time into a bounded channel, *)
(* and the writer takes frames from it.  A frame is the version of the      *)
(* desktop it shows and its size.  FrameArrived runs on one worker thread.  *)
(***************************************************************************)
EXTENDS Integers, Sequences

CONSTANTS
  Modes,      \* sizes a monitor may have
  Buffers,    \* buffers of the pool and places in the channel (code: 2)
  MaxChanges  \* bound: changes of the desktop

Size == [width : Nat, height : Nat]

ASSUME CaptureAssumption ==
  Modes \subseteq Size /\ Buffers \in Nat \ {0} /\ MaxChanges \in Nat

VARIABLES
  monitor,    \* the monitor's size, NoSize once it is unplugged
  desktop,    \* version of what the monitor shows
  phase,      \* how far handle_client is
  bounds,     \* the size list_monitors gave
  item_size,  \* the size of the capture item, which the pool is made with
  rendered,   \* newest version in a frame of the pool
  ready,      \* frames of the pool that were not taken, oldest first
  arrivals,   \* FrameArrived callbacks due
  callback,   \* the running callback: what it is at, and its frame
  channel,    \* captured frames
  encoder,    \* the encoder's size, NoSize before there is one
  frame,      \* the frame the writer holds
  encoded,    \* the last frame given to the encoder
  lost,       \* history: versions dropped between the pool and the channel
  missed      \* history: calls of TryGetNextFrame that failed

poolVars    == <<rendered, ready, arrivals>>
sizeVars    == <<bounds, item_size, encoder>>
writerVars  == <<frame, encoded>>
history     == <<lost, missed>>
vars == <<monitor, desktop, phase, sizeVars, poolVars, callback, channel, writerVars, history>>

NoSize  == [width |-> 0, height |-> 0]
NoFrame == [version |-> 0, size |-> NoSize]
Idle    == [at |-> "idle", frame |-> NoFrame]
Area(size) == size.width * size.height

Init ==
  /\ monitor \in Modes
  /\ desktop = 1
  /\ phase = "listing"
  /\ bounds = NoSize /\ item_size = NoSize /\ encoder = NoSize
  /\ rendered = 0 /\ ready = <<>> /\ arrivals = 0
  /\ callback = Idle
  /\ channel = <<>>
  /\ frame = NoFrame /\ encoded = NoFrame
  /\ lost = {} /\ missed = 0

-----------------------------------------------------------------------------
(* Windows *)

\* What the monitor shows changes, or its mode does, too.
ChangeDesktop ==
  /\ monitor # NoSize /\ desktop < MaxChanges
  /\ desktop' = desktop + 1
  /\ monitor' \in Modes
  /\ UNCHANGED <<phase, sizeVars, poolVars, callback, channel, writerVars, history>>

Unplug ==
  /\ monitor # NoSize
  /\ monitor' = NoSize
  /\ UNCHANGED <<desktop, phase, sizeVars, poolVars, callback, channel, writerVars, history>>

\* Buffers of the pool in use: the callback gives its frame back with Close.
Used == Len(ready) + IF callback.at = "taken" THEN 1 ELSE 0

\* A changed desktop is rendered into a free buffer of a capture that was
\* started, and the callback is due.
Render ==
  /\ phase \in {"encoder", "streaming"}
  /\ monitor # NoSize /\ rendered < desktop
  /\ Used < Buffers
  /\ rendered' = desktop
  /\ ready' = Append(ready, [version |-> desktop, size |-> monitor])
  /\ arrivals' = arrivals + 1
  /\ UNCHANGED <<monitor, desktop, phase, sizeVars, callback, channel, writerVars, history>>

-----------------------------------------------------------------------------
(* The start of handle_client *)

\* list_monitors: a monitor whose GetMonitorInfoW fails has no size.
ListMonitors ==
  /\ phase = "listing"
  /\ monitor # NoSize
  /\ bounds' \in {monitor, NoSize}
  /\ phase' = "item"
  /\ UNCHANGED <<monitor, desktop, item_size, encoder, poolVars, callback, channel,
                 writerVars, history>>

\* MonitorCapture::start from CreateForMonitor to StartCapture, with the size
\* the monitor has by then.
StartCapture ==
  /\ phase = "item"
  /\ monitor # NoSize
  /\ item_size' = monitor
  /\ phase' = "encoder"
  /\ UNCHANGED <<monitor, desktop, bounds, encoder, poolVars, callback, channel,
                 writerVars, history>>

\* Mutant of Encodable: the width is not checked for parity.
EncodableOddWidth(size) == size.width >= 2 /\ size.height >= 2 /\ size.height % 2 = 0

\* The dimensions MftEncoder::new accepts.
Encodable(size) ==
  size.width >= 2 /\ size.height >= 2 /\ size.width % 2 = 0 /\ size.height % 2 = 0

\* bgra_to_nv12 for a size: where it writes into the luma plane, and into the
\* chroma plane, both bytes of a pair.
YWrites(size) ==
  [p \in (0 .. size.height - 1) \X (0 .. size.width - 1) |-> p[1] * size.width + p[2]]
UvWrites(size) ==
  [p \in {q \in (0 .. size.height - 1) \X (0 .. size.width - 1) \X {0, 1} :
           q[1] % 2 = 0 /\ q[2] % 2 = 0} |-> (p[1] \div 2) * size.width + p[2] + p[3]]

\* MftEncoder::new; the capture is running already.
NewEncoder ==
  /\ phase = "encoder"
  /\ Encodable(bounds)
  /\ encoder' = bounds
  /\ phase' = "streaming"
  /\ UNCHANGED <<monitor, desktop, bounds, item_size, poolVars, callback, channel,
                 writerVars, history>>

\* Any step of the start may fail, and so may encode_frame and the writes after
\* it: handle_client returns and drops the capture with its pool and channel.
EndSession ==
  /\ phase \in {"listing", "item", "encoder"} \/ frame # NoFrame
  /\ phase' = "over"
  /\ ready' = <<>> /\ arrivals' = 0
  /\ channel' = <<>>
  /\ frame' = NoFrame
  /\ UNCHANGED <<monitor, desktop, sizeVars, rendered, callback, encoded, history>>

-----------------------------------------------------------------------------
(* The FrameArrived callback *)

\* Mutant of TakeFrame: nothing is taken while the channel is full.
TakeFrameWithRoom ==
  /\ arrivals > 0 /\ callback = Idle
  /\ arrivals' = arrivals - 1
  /\ \/ /\ ready # <<>>
        /\ Len(channel) < Buffers
        /\ ready' = Tail(ready)
        /\ callback' = [at |-> "taken", frame |-> Head(ready)]
     \/ /\ Len(channel) = Buffers
        /\ UNCHANGED <<ready, callback>>
  /\ UNCHANGED <<monitor, desktop, phase, sizeVars, rendered, channel, writerVars, history>>

\* TryGetNextFrame gives the oldest frame; when it fails the callback is over,
\* and the frame stays in the pool for the next one.
TakeFrame ==
  /\ arrivals > 0 /\ callback = Idle
  /\ arrivals' = arrivals - 1
  /\ \/ /\ ready # <<>>
        /\ ready' = Tail(ready)
        /\ callback' = [at |-> "taken", frame |-> Head(ready)]
        /\ UNCHANGED missed
     \/ /\ missed' = missed + 1
        /\ UNCHANGED <<ready, callback>>
  /\ UNCHANGED <<monitor, desktop, phase, sizeVars, rendered, channel, writerVars, lost>>

Smaller(a, b) == IF a < b THEN a ELSE b

\* Mutant of Crop: the size of the content is taken as it is.
CropNothing(content, texture) == content

\* The part of the content that the texture holds.
Crop(content, texture) ==
  [width  |-> Smaller(content.width, texture.width),
   height |-> Smaller(content.height, texture.height)]

\* extract_frame copies what the pool's texture holds of the content, or fails;
\* the frame is closed either way.
ExtractFrame ==
  /\ callback.at = "taken"
  /\ \/ /\ callback' = [at |-> "extracted",
                        frame |-> [callback.frame EXCEPT !.size = Crop(@, item_size)]]
        /\ UNCHANGED lost
     \/ /\ callback' = Idle
        /\ lost' = lost \cup {callback.frame.version}
  /\ UNCHANGED <<monitor, desktop, phase, sizeVars, poolVars, channel, writerVars, missed>>

\* Mutant of TrySend: the channel has no bound.
TrySendUnbounded ==
  /\ callback.at = "extracted"
  /\ callback' = Idle
  /\ channel' = IF phase = "over" THEN channel ELSE Append(channel, callback.frame)
  /\ UNCHANGED <<monitor, desktop, phase, sizeVars, poolVars, writerVars, history>>

\* try_send: a full channel, or one without a receiver, drops the frame.
TrySend ==
  /\ callback.at = "extracted"
  /\ callback' = Idle
  /\ IF phase # "over" /\ Len(channel) < Buffers
     THEN channel' = Append(channel, callback.frame) /\ UNCHANGED lost
     ELSE lost' = lost \cup {callback.frame.version} /\ UNCHANGED channel
  /\ UNCHANGED <<monitor, desktop, phase, sizeVars, poolVars, writerVars, missed>>

-----------------------------------------------------------------------------
(* The writer *)

\* Mutant of NextFrame: the newest frame is taken, the others stay.
NextFrameNewest ==
  /\ phase = "streaming" /\ frame = NoFrame
  /\ channel # <<>>
  /\ frame' = channel[Len(channel)]
  /\ channel' = SubSeq(channel, 1, Len(channel) - 1)
  /\ UNCHANGED <<monitor, desktop, phase, sizeVars, poolVars, callback, encoded, history>>

\* next_frame_timeout; on a timeout the writer waits again.
NextFrame ==
  /\ phase = "streaming" /\ frame = NoFrame
  /\ channel # <<>>
  /\ frame' = Head(channel)
  /\ channel' = Tail(channel)
  /\ UNCHANGED <<monitor, desktop, phase, sizeVars, poolVars, callback, encoded, history>>

\* encode_frame, which checks the number of bytes; EndSession is the other way.
EncodeFrame ==
  /\ phase = "streaming" /\ frame # NoFrame
  /\ Area(frame.size) = Area(encoder)
  /\ encoded' = frame
  /\ frame' = NoFrame
  /\ UNCHANGED <<monitor, desktop, phase, sizeVars, poolVars, callback, channel, history>>

Next ==
  \/ ChangeDesktop \/ Unplug \/ Render
  \/ ListMonitors \/ StartCapture \/ NewEncoder \/ EndSession
  \/ TakeFrame \/ ExtractFrame \/ TrySend
  \/ NextFrame \/ EncodeFrame

\* The session's end is forced where a check fails.
Refused ==
  \/ phase = "encoder" /\ ~ Encodable(bounds)
  \/ frame # NoFrame /\ Area(frame.size) # Area(encoder)

\* The client's thread and the pool's worker thread go on.
Fairness ==
  /\ WF_vars(NewEncoder) /\ WF_vars(Refused /\ EndSession)
  /\ WF_vars(NextFrame) /\ WF_vars(EncodeFrame)
  /\ WF_vars(TakeFrame) /\ WF_vars(ExtractFrame) /\ WF_vars(TrySend)

Spec == Init /\ [][Next]_vars /\ Fairness

-----------------------------------------------------------------------------
(* Properties *)

Frames == [version : Nat, size : Size]

\* Type correctness; pool and channel stay within their buffers.
TypeOK ==
  /\ monitor \in Modes \cup {NoSize}
  /\ desktop \in Nat
  /\ phase \in {"listing", "item", "encoder", "streaming", "over"}
  /\ bounds \in Size /\ item_size \in Size /\ encoder \in Size
  /\ rendered \in Nat
  /\ ready \in Seq(Frames) /\ Used <= Buffers
  /\ arrivals \in Nat
  /\ callback \in [at : {"idle", "taken", "extracted"}, frame : Frames]
  /\ channel \in Seq(Frames) /\ Len(channel) <= Buffers
  /\ frame \in Frames /\ encoded \in Frames
  /\ lost \subseteq Nat /\ missed \in Nat

\* The encoder's picture has the shape that the client is told and that touches
\* are mapped with, whatever modes the monitor is switched to, if the pool was
\* made with the size the monitor list gave: encode_frame's test of the number
\* of bytes is enough then, since a frame is cropped to the pool's size
\* (extract_frame, handle_client, encode_frame).
PictureHasEncoderShape ==
  encoded # NoFrame /\ item_size = bounds => encoded.size = encoder

Fills(writes, length) ==
  /\ {writes[p] : p \in DOMAIN writes} = 0 .. length - 1
  /\ \A p, q \in DOMAIN writes : writes[p] = writes[q] => p = q

\* For the encoder's size the conversion writes every byte of both planes, none
\* twice and none outside (MftEncoder::new's test of the dimensions is what
\* bgra_to_nv12 relies on).
PlanesFilled ==
  encoder # NoSize =>
    /\ Fills(YWrites(encoder), Area(encoder))
    /\ Fills(UvWrites(encoder), encoder.width * (encoder.height \div 2))

\* The encoder never gets a frame that is not newer than the last one, whatever
\* is dropped on the way (FrameArrived, try_send, next_frame_timeout).
FramesGetNewer ==
  [][encoded' # encoded => encoded'.version > encoded.version]_vars

\* A version that was rendered gets to the encoder, or a newer one does, unless
\* this very version was dropped (a copy that failed, a full channel), it stays in
\* the pool for good after a TryGetNextFrame that failed, or the session ended
\* (the callback and the writer).
RenderedIsEncoded ==
  \A v \in 1 .. MaxChanges :
    rendered = v ~> \/ encoded.version >= v
                    \/ v \in lost
                    \/ [](missed > 0 /\ \E i \in DOMAIN ready : ready[i].version = v)
                    \/ phase = "over"

\* The pool gets a free buffer again and again: as long as fewer calls of
\* TryGetNextFrame failed than it has buffers, the picture does not freeze for
\* good (the callback closes what it took).
PoolRecovers ==
  []<>(Used < Buffers \/ missed >= Buffers \/ phase = "over")
=============================================================================
