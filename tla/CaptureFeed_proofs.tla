------------------------- MODULE CaptureFeed_proofs -------------------------
(***************************************************************************)
(* The safety of CaptureFeed for every set of modes, every number of       *)
(* buffers and every number of changes: type correctness, the order of     *)
(* what the encoder gets, the shape of its pictures and the conversion.    *)
(*                                                                         *)
(* A frame passes five places: the pool, the callback, the channel, the    *)
(* writer's hand and the encoder.  The order follows from all of them at   *)
(* once (Line): what is further along is older.  The shape follows from    *)
(* the crop to the pool's size (Cropped), because a part of a picture with *)
(* the area of the whole is the whole (WholeByArea).  The conversion is    *)
(* division with remainder: a position has one row and one column.      *)
(***************************************************************************)
EXTENDS CaptureFeed, TLAPS

\* Nothing is newer than what was rendered, and what is further along the line
\* is older.
Rendered ==
  /\ rendered <= desktop
  /\ encoded.version <= rendered /\ frame.version <= rendered
  /\ callback.frame.version <= rendered
  /\ frame # NoFrame => encoded.version < frame.version
  /\ callback # Idle => /\ encoded.version < callback.frame.version
                        /\ frame.version < callback.frame.version
ChannelInLine ==
  \A i \in DOMAIN channel :
    /\ encoded.version < channel[i].version
    /\ frame.version < channel[i].version
    /\ callback # Idle => channel[i].version < callback.frame.version
    /\ channel[i].version <= rendered
    /\ \A j \in DOMAIN channel : i < j => channel[i].version < channel[j].version
PoolInLine ==
  \A i \in DOMAIN ready :
    /\ encoded.version < ready[i].version
    /\ frame.version < ready[i].version
    /\ callback.frame.version < ready[i].version
    /\ \A j \in DOMAIN channel : channel[j].version < ready[i].version
    /\ ready[i].version <= rendered
    /\ \A j \in DOMAIN ready : i < j => ready[i].version < ready[j].version

Line == Rendered /\ ChannelInLine /\ PoolInLine

\* Part of the pool's picture.
Within(size) == size.width <= item_size.width /\ size.height <= item_size.height

\* Frames that were extracted are cropped, and none was before the capture started.
Cropped ==
  /\ callback.at = "extracted" => Within(callback.frame.size)
  /\ callback = Idle <=> callback.at = "idle"
  /\ \A i \in DOMAIN channel : Within(channel[i].size)
  /\ frame # NoFrame => Within(frame.size) /\ phase = "streaming"
  /\ encoded # NoFrame => Within(encoded.size) /\ Area(encoded.size) = Area(encoder)
  /\ phase \in {"listing", "item"} =>
       rendered = 0 /\ ready = <<>> /\ callback = Idle /\ channel = <<>>
  /\ phase \in {"listing", "item", "encoder"} => encoded = NoFrame /\ encoder = NoSize

\* The encoder is made for the bounds, which it accepts.
EncoderFits ==
  /\ encoder # NoSize => encoder = bounds /\ Encodable(encoder)
  /\ phase = "streaming" \/ encoded # NoFrame => encoder # NoSize
  /\ phase = "listing" => bounds = NoSize

IInv == TypeOK /\ Line /\ Cropped /\ EncoderFits

-----------------------------------------------------------------------------
(* Type correctness *)

\* The types hold at first and after each action.
LEMMA TypeInit == Init => TypeOK
  BY CaptureAssumption DEF Init, TypeOK, Size, Frames, Idle, NoFrame, NoSize, Used

\* Appending one element keeps a sequence within a bound it had not reached.
LEMMA AppendInBound ==
  ASSUME NEW S, NEW s \in Seq(S), NEW e \in S, NEW n \in Nat, Len(s) < n
  PROVE  Append(s, e) \in Seq(S) /\ Len(Append(s, e)) <= n
  OBVIOUS

\* No frame is a frame, and a callback that is idle has one.
LEMMA Nothing ==
  /\ NoFrame \in Frames
  /\ Idle \in [at : {"idle", "taken", "extracted"}, frame : Frames]
  BY DEF NoFrame, Idle, NoSize, Frames, Size

\* Each action keeps the types.
LEMMA TypeStep == TypeOK /\ [Next]_vars => TypeOK'
<1> SUFFICES ASSUME TypeOK, [Next]_vars PROVE TypeOK'
  OBVIOUS
<1> USE CaptureAssumption DEF TypeOK, Used
<1>1. CASE ChangeDesktop
  BY <1>1 DEF ChangeDesktop, sizeVars, poolVars, writerVars, history
<1>2. CASE Unplug
  BY <1>2 DEF Unplug, sizeVars, poolVars, writerVars, history
<1>3. CASE Render
  <2>1. [version |-> desktop, size |-> monitor] \in Frames
    BY <1>3 DEF Render, Frames, Size
  <2> QED
    BY <1>3, <2>1 DEF Render, sizeVars, writerVars, history
<1>4. CASE ListMonitors
  BY <1>4 DEF ListMonitors, Size, NoSize, poolVars, writerVars, history
<1>5. CASE StartCapture
  BY <1>5 DEF StartCapture, Size, poolVars, writerVars, history
<1>6. CASE NewEncoder
  BY <1>6 DEF NewEncoder, poolVars, writerVars, history
<1>7. CASE EndSession
  BY <1>7 DEF EndSession, sizeVars, history, NoFrame, NoSize, Frames, Size
<1>8. CASE TakeFrame
  <2>1. CASE ready # <<>> /\ ready' = Tail(ready) /\ missed' = missed
             /\ callback' = [at |-> "taken", frame |-> Head(ready)]
    BY <1>8, <2>1 DEF TakeFrame, Idle, sizeVars, writerVars
  <2>2. CASE missed' = missed + 1 /\ UNCHANGED <<ready, callback>>
    BY <1>8, <2>2 DEF TakeFrame, sizeVars, writerVars
  <2> QED
    BY <1>8, <2>1, <2>2 DEF TakeFrame
<1>9. CASE ExtractFrame
  <2>1. Crop(callback.frame.size, item_size) \in Size
    BY DEF Crop, Smaller, Size, Frames
  <2>2. [callback.frame EXCEPT !.size = Crop(@, item_size)] \in Frames
    BY <2>1 DEF Frames
  <2>3. callback' \in [at : {"idle", "taken", "extracted"}, frame : Frames]
    BY <1>9, <2>2, Nothing DEF ExtractFrame
  <2>4. callback'.at # "taken" /\ lost' \subseteq Nat
    BY <1>9 DEF ExtractFrame, Idle, Frames
  <2> QED
    BY <1>9, <2>3, <2>4 DEF ExtractFrame, sizeVars, poolVars, writerVars
<1>10. CASE TrySend
  <2>1. callback'.at # "taken"
    BY <1>10 DEF TrySend, Idle
  <2>2. channel' \in Seq(Frames) /\ Len(channel') <= Buffers /\ lost' \subseteq Nat
    <3>1. callback.frame \in Frames /\ callback.frame.version \in Nat
      BY DEF Frames
    <3>2. \/ lost' = lost /\ channel' = Append(channel, callback.frame) /\ Len(channel) < Buffers
          \/ lost' = lost \cup {callback.frame.version} /\ channel' = channel
      BY <1>10 DEF TrySend
    <3>3. lost' \subseteq Nat
      BY <3>1, <3>2
    <3>4. channel' = Append(channel, callback.frame) /\ Len(channel) < Buffers
            => channel' \in Seq(Frames) /\ Len(channel') <= Buffers
      BY <3>1, AppendInBound
    <3> QED
      BY <3>2, <3>3, <3>4
  <2>3. callback' \in [at : {"idle", "taken", "extracted"}, frame : Frames]
    <3>1. callback' = Idle
      BY <1>10 DEF TrySend
    <3> QED
      BY <3>1, Nothing, Zenon
  <2> QED
    BY <1>10, <2>1, <2>2, <2>3 DEF TrySend, sizeVars, poolVars, writerVars
<1>11. CASE NextFrame
  BY <1>11 DEF NextFrame, sizeVars, poolVars, history
<1>12. CASE EncodeFrame
  BY <1>12 DEF EncodeFrame, sizeVars, poolVars, history, NoFrame, NoSize, Frames, Size
<1>13. CASE UNCHANGED vars
  BY <1>13 DEF vars, sizeVars, poolVars, writerVars, history
<1> QED
  BY <1>1, <1>2, <1>3, <1>4, <1>5, <1>6, <1>7, <1>8, <1>9, <1>10, <1>11, <1>12, <1>13 DEF Next

\* TypeOK of the run `capture`, for every set of modes, buffers and changes.
THEOREM TypeCorrect == Spec => []TypeOK
  BY TypeInit, TypeStep, PTL DEF Spec

-----------------------------------------------------------------------------
(* The order of frames *)

\* The line is in order at first and after each action.
LEMMA LineInit == Init => Line
  BY DEF Init, Line, Rendered, ChannelInLine, PoolInLine, NoFrame, Idle, NoSize

\* Each action keeps the line in order.
LEMMA LineStep == TypeOK /\ Line /\ Cropped /\ [Next]_vars => Line'
<1> SUFFICES ASSUME TypeOK, Line, Cropped, [Next]_vars PROVE Line'
  OBVIOUS
<1>t. /\ rendered \in Nat /\ desktop \in Nat
      /\ ready \in Seq(Frames) /\ channel \in Seq(Frames)
      /\ frame \in Frames /\ encoded \in Frames /\ callback.frame \in Frames
  BY DEF TypeOK
<1>v. \A f \in Frames : f.version \in Nat
  BY DEF Frames
<1>n. NoFrame.version = 0 /\ Idle.frame = NoFrame
  BY DEF NoFrame, Idle
<1>1. CASE ChangeDesktop
  BY <1>1, <1>t DEF ChangeDesktop, Line, Rendered, ChannelInLine, PoolInLine, poolVars, writerVars
<1>2. CASE Unplug
  BY <1>2 DEF Unplug, Line, Rendered, ChannelInLine, PoolInLine, poolVars, writerVars
<1>3. CASE Render
  <2>1. /\ rendered' = desktop /\ rendered < desktop
        /\ ready' = Append(ready, [version |-> desktop, size |-> monitor])
        /\ UNCHANGED <<desktop, encoded, frame, callback, channel>>
    BY <1>3 DEF Render, writerVars
  <2>2. Len(ready') = Len(ready) + 1 /\ DOMAIN ready' = 1 .. Len(ready')
    BY <2>1, <1>t
  <2>3. \A i \in DOMAIN ready' :
          IF i = Len(ready) + 1 THEN ready'[i].version = desktop
          ELSE i \in DOMAIN ready /\ ready'[i] = ready[i]
    BY <2>1, <1>t
  <2>4. \A i \in DOMAIN ready : i < Len(ready) + 1
    BY <1>t
  <2>5. Rendered' /\ ChannelInLine'
    BY <2>1, <1>t, <1>v DEF Line, Rendered, ChannelInLine
  <2>6. PoolInLine'
    BY <2>1, <2>2, <2>3, <2>4, <1>t, <1>v DEF Line, Rendered, ChannelInLine, PoolInLine
  <2> QED
    BY <2>5, <2>6 DEF Line
<1>4. CASE ListMonitors
  BY <1>4 DEF ListMonitors, Line, Rendered, ChannelInLine, PoolInLine, poolVars, writerVars
<1>5. CASE StartCapture
  BY <1>5 DEF StartCapture, Line, Rendered, ChannelInLine, PoolInLine, poolVars, writerVars
<1>6. CASE NewEncoder
  BY <1>6 DEF NewEncoder, Line, Rendered, ChannelInLine, PoolInLine, poolVars, writerVars
<1>7. CASE EndSession
  BY <1>7, <1>t, <1>v, <1>n DEF EndSession, Line, Rendered, ChannelInLine, PoolInLine
<1>8. CASE TakeFrame
  <2>1. CASE UNCHANGED <<ready, callback>>
    BY <1>8, <2>1 DEF TakeFrame, Line, Rendered, ChannelInLine, PoolInLine, writerVars
  <2>2. CASE /\ ready # <<>> /\ ready' = Tail(ready)
             /\ callback' = [at |-> "taken", frame |-> Head(ready)]
    <3>1. /\ callback = Idle /\ callback' # Idle /\ callback'.frame = ready[1]
          /\ UNCHANGED <<rendered, desktop, encoded, frame, channel>>
      BY <1>8, <2>2 DEF TakeFrame, Idle, writerVars
    <3>2. 1 \in DOMAIN ready /\ ready[1] \in Frames
      BY <2>2, <1>t
    <3>3. \A i \in DOMAIN ready' :
            i + 1 \in DOMAIN ready /\ ready'[i] = ready[i + 1] /\ 1 < i + 1 /\ i \in Nat
      BY <2>2, <1>t
    <3> QED
      BY <3>1, <3>2, <3>3, <1>t, <1>v DEF Line, Rendered, ChannelInLine, PoolInLine
  <2> QED
    BY <1>8, <2>1, <2>2 DEF TakeFrame
<1>9. CASE ExtractFrame
  <2>1. /\ UNCHANGED <<rendered, desktop, encoded, frame, channel, ready>>
        /\ callback # Idle
    BY <1>9 DEF ExtractFrame, Idle, writerVars, poolVars
  <2>2. callback'.frame.version = callback.frame.version \/ callback' = Idle
    BY <1>9, <1>t DEF ExtractFrame, Frames
  <2> QED
    BY <2>1, <2>2, <1>t, <1>v, <1>n DEF Line, Rendered, ChannelInLine, PoolInLine
<1>10. CASE TrySend
  <2>1. /\ UNCHANGED <<rendered, desktop, encoded, frame, ready>>
        /\ callback # Idle /\ callback' = Idle
    BY <1>10 DEF TrySend, Idle, writerVars, poolVars
  <2>2. CASE UNCHANGED channel
    BY <2>1, <2>2, <1>t, <1>v, <1>n DEF Line, Rendered, ChannelInLine, PoolInLine
  <2>3. CASE channel' = Append(channel, callback.frame)
    <3>1. \A i \in DOMAIN channel' :
            IF i = Len(channel) + 1 THEN channel'[i] = callback.frame
            ELSE i \in DOMAIN channel /\ channel'[i] = channel[i]
      BY <2>3, <1>t
    <3>2. \A i \in DOMAIN channel' : i \in 1 .. Len(channel) + 1
      BY <2>3, <1>t
    <3>3. Rendered'
      BY <2>1, <1>t, <1>v, <1>n DEF Line, Rendered
    <3>4. ChannelInLine'
      <4> SUFFICES ASSUME NEW i \in DOMAIN channel', NEW j \in DOMAIN channel'
                   PROVE  /\ encoded.version < channel'[i].version
                          /\ frame.version < channel'[i].version
                          /\ channel'[i].version <= rendered
                          /\ i < j => channel'[i].version < channel'[j].version
        BY <2>1 DEF ChannelInLine
      <4>1. CASE i = Len(channel) + 1
        BY <4>1, <2>1, <3>1, <3>2, <1>t DEF Line, Rendered
      <4>2. CASE i # Len(channel) + 1
        <5>1. i \in DOMAIN channel /\ channel'[i] = channel[i]
          BY <4>2, <3>1
        <5>2. \/ j \in DOMAIN channel /\ channel'[j] = channel[j]
              \/ channel'[j] = callback.frame
          BY <3>1
        <5> QED
          BY <5>1, <5>2, <2>1, <1>t DEF Line, ChannelInLine
      <4> QED
        BY <4>1, <4>2
    <3>5. PoolInLine'
      BY <2>1, <3>1, <3>2, <1>t, <1>v, <1>n DEF Line, PoolInLine
    <3> QED
      BY <3>3, <3>4, <3>5 DEF Line
  <2> QED
    BY <1>10, <2>2, <2>3 DEF TrySend
<1>11. CASE NextFrame
  <2>1. /\ UNCHANGED <<rendered, desktop, encoded, ready, callback>>
        /\ frame' = channel[1] /\ channel # <<>> /\ channel' = Tail(channel)
    BY <1>11, <1>t DEF NextFrame, poolVars
  <2>2. 1 \in DOMAIN channel /\ channel[1] \in Frames
    BY <2>1, <1>t
  <2>3. \A i \in DOMAIN channel' :
          i + 1 \in DOMAIN channel /\ channel'[i] = channel[i + 1] /\ 1 < i + 1 /\ i \in Nat
    BY <2>1, <1>t
  <2> QED
    BY <2>1, <2>2, <2>3, <1>t, <1>v DEF Line, Rendered, ChannelInLine, PoolInLine
<1>12. CASE EncodeFrame
  <2>1. /\ UNCHANGED <<rendered, desktop, ready, callback, channel>>
        /\ frame # NoFrame /\ encoded' = frame /\ frame' = NoFrame
    BY <1>12 DEF EncodeFrame, poolVars
  <2> QED
    BY <2>1, <1>t, <1>v, <1>n DEF Line, Rendered, ChannelInLine, PoolInLine
<1>13. CASE UNCHANGED vars
  BY <1>13 DEF vars, Line, Rendered, ChannelInLine, PoolInLine, poolVars, writerVars
<1> QED
  BY <1>1, <1>2, <1>3, <1>4, <1>5, <1>6, <1>7, <1>8, <1>9, <1>10, <1>11, <1>12, <1>13 DEF Next

-----------------------------------------------------------------------------
(* The shape of pictures *)

\* A part of a picture that has the area of the whole is the whole.
LEMMA WholeByArea ==
  ASSUME NEW a \in Nat, NEW b \in Nat, NEW w \in Nat, NEW h \in Nat,
         a <= w, b <= h, w > 0, h > 0, a * b = w * h
  PROVE  a = w /\ b = h
<1>1. a * b <= w * b /\ w * b <= w * h
  OBVIOUS
<1>2. w * b = w * h
  BY <1>1
<1>3. b = h
  <2>1. w * (h - b) = 0
    BY <1>2
  <2> QED
    BY <2>1
<1>4. h * (w - a) = 0
  BY <1>3
<1> QED
  BY <1>3, <1>4

\* No frame and no encoder before the start.
LEMMA ShapeInit == Init => Cropped /\ EncoderFits
  BY DEF Init, Cropped, EncoderFits, NoFrame, Idle, NoSize, Within, Area

\* A crop is part of the texture.
LEMMA CropWithin ==
  ASSUME NEW content \in Size, NEW texture \in Size
  PROVE  /\ Crop(content, texture) \in Size
         /\ Crop(content, texture).width <= texture.width
         /\ Crop(content, texture).height <= texture.height
  BY DEF Crop, Smaller, Size

\* Each action keeps the frames in the pool's size, and the encoded one the
\* encoder's area.
LEMMA CroppedStep == TypeOK /\ Cropped /\ EncoderFits /\ [Next]_vars => Cropped'
<1> SUFFICES ASSUME TypeOK, Cropped, EncoderFits, [Next]_vars PROVE Cropped'
  OBVIOUS
<1>t. /\ ready \in Seq(Frames) /\ channel \in Seq(Frames)
      /\ frame \in Frames /\ encoded \in Frames /\ callback.frame \in Frames
      /\ callback \in [at : {"idle", "taken", "extracted"}, frame : Frames]
      /\ item_size \in Size
  BY DEF TypeOK
<1>i. Idle.at = "idle" /\ Idle.frame = NoFrame
  BY DEF Idle
<1>1. CASE ChangeDesktop
  BY <1>1 DEF ChangeDesktop, Cropped, Within, sizeVars, poolVars, writerVars
<1>2. CASE Unplug
  BY <1>2 DEF Unplug, Cropped, Within, sizeVars, poolVars, writerVars
<1>3. CASE Render
  BY <1>3 DEF Render, Cropped, Within, sizeVars, writerVars
<1>4. CASE ListMonitors
  BY <1>4 DEF ListMonitors, Cropped, Within, poolVars, writerVars
<1>5. CASE StartCapture
  BY <1>5, <1>i DEF StartCapture, Cropped, Within, poolVars, writerVars
<1>6. CASE NewEncoder
  BY <1>6 DEF NewEncoder, Cropped, Within, poolVars, writerVars
<1>7. CASE EndSession
  BY <1>7 DEF EndSession, Cropped, Within, sizeVars
<1>8. CASE TakeFrame
  BY <1>8, <1>i DEF TakeFrame, Cropped, Within, sizeVars, writerVars
<1>9. CASE ExtractFrame
  <2>1. /\ UNCHANGED <<phase, item_size, encoder, rendered, ready, channel, frame, encoded>>
        /\ callback.at = "taken"
    BY <1>9 DEF ExtractFrame, sizeVars, poolVars, writerVars
  <2>2. \/ callback' = Idle
        \/ callback'.at = "extracted" /\ callback'.frame.size = Crop(callback.frame.size, item_size)
    BY <1>9, <1>t DEF ExtractFrame, Frames
  <2>3. callback.frame.size \in Size
    BY <1>t DEF Frames
  <2> QED
    BY <2>1, <2>2, <2>3, <1>i, <1>t, CropWithin DEF Cropped, Within
<1>10. CASE TrySend
  <2>1. /\ UNCHANGED <<phase, item_size, encoder, rendered, ready, frame, encoded>>
        /\ callback.at = "extracted" /\ callback' = Idle
    BY <1>10 DEF TrySend, sizeVars, poolVars, writerVars
  <2>2. channel' = channel \/ channel' = Append(channel, callback.frame)
    BY <1>10 DEF TrySend
  <2>3. \A i \in DOMAIN channel' :
          \/ channel'[i] = callback.frame
          \/ i \in DOMAIN channel /\ channel'[i] = channel[i]
    BY <2>2, <1>t
  <2>4. phase \notin {"listing", "item"}
    BY <2>1, <1>i DEF Cropped
  <2> QED
    BY <2>1, <2>3, <2>4, <1>i DEF Cropped, Within
<1>11. CASE NextFrame
  <2>1. /\ UNCHANGED <<phase, item_size, encoder, rendered, ready, callback, encoded>>
        /\ frame' = channel[1] /\ channel # <<>> /\ channel' = Tail(channel)
        /\ phase = "streaming"
    BY <1>11, <1>t DEF NextFrame, sizeVars, poolVars
  <2>2. 1 \in DOMAIN channel
    BY <2>1, <1>t
  <2>3. \A i \in DOMAIN channel' : i + 1 \in DOMAIN channel /\ channel'[i] = channel[i + 1]
    BY <2>1, <1>t
  <2> QED
    BY <2>1, <2>2, <2>3 DEF Cropped, Within
<1>12. CASE EncodeFrame
  BY <1>12 DEF EncodeFrame, Cropped, Within, Area, sizeVars, poolVars
<1>13. CASE UNCHANGED vars
  BY <1>13 DEF vars, Cropped, Within, sizeVars, poolVars, writerVars
<1> QED
  BY <1>1, <1>2, <1>3, <1>4, <1>5, <1>6, <1>7, <1>8, <1>9, <1>10, <1>11, <1>12, <1>13 DEF Next

\* Each action keeps the encoder at the bounds.
LEMMA EncoderStep == TypeOK /\ Cropped /\ EncoderFits /\ [Next]_vars => EncoderFits'
<1> SUFFICES ASSUME TypeOK, Cropped, EncoderFits, [Next]_vars PROVE EncoderFits'
  OBVIOUS
<1> USE DEF EncoderFits, Encodable
<1>1. CASE ChangeDesktop
  BY <1>1 DEF ChangeDesktop, sizeVars, writerVars
<1>2. CASE Unplug
  BY <1>2 DEF Unplug, sizeVars, writerVars
<1>3. CASE Render
  BY <1>3 DEF Render, sizeVars, writerVars
<1>4. CASE ListMonitors
  BY <1>4 DEF ListMonitors, Cropped, writerVars
<1>5. CASE StartCapture
  BY <1>5 DEF StartCapture, writerVars
<1>6. CASE NewEncoder
  BY <1>6 DEF NewEncoder, NoSize, writerVars
<1>7. CASE EndSession
  BY <1>7 DEF EndSession, sizeVars
<1>8. CASE TakeFrame
  BY <1>8 DEF TakeFrame, sizeVars, writerVars
<1>9. CASE ExtractFrame
  BY <1>9 DEF ExtractFrame, sizeVars, writerVars
<1>10. CASE TrySend
  BY <1>10 DEF TrySend, sizeVars, writerVars
<1>11. CASE NextFrame
  BY <1>11 DEF NextFrame, sizeVars
<1>12. CASE EncodeFrame
  BY <1>12 DEF EncodeFrame, sizeVars
<1>13. CASE UNCHANGED vars
  BY <1>13 DEF vars, sizeVars, writerVars
<1> QED
  BY <1>1, <1>2, <1>3, <1>4, <1>5, <1>6, <1>7, <1>8, <1>9, <1>10, <1>11, <1>12, <1>13 DEF Next

-----------------------------------------------------------------------------
(* The theorems *)

\* The inductive invariant holds.
LEMMA Inductive == Spec => []IInv
<1>1. Init => IInv
  BY TypeInit, LineInit, ShapeInit DEF IInv
<1>2. IInv /\ [Next]_vars => IInv'
  BY TypeStep, LineStep, CroppedStep, EncoderStep DEF IInv
<1> QED
  BY <1>1, <1>2, PTL DEF Spec

\* FramesGetNewer of the run `capture`: the encoder never gets an older frame or
\* the same one again, for every number of buffers and changes.
THEOREM FramesOnlyGetNewer == Spec => FramesGetNewer
<1>1. ASSUME IInv, [Next]_vars
      PROVE  [encoded' # encoded => encoded'.version > encoded.version]_vars
  <2>1. CASE EncodeFrame
    <3>1. encoded' = frame /\ frame # NoFrame
      BY <2>1 DEF EncodeFrame
    <3>2. encoded.version \in Nat /\ frame.version \in Nat
      BY <1>1 DEF IInv, TypeOK, Frames
    <3> QED
      BY <1>1, <3>1, <3>2 DEF IInv, Line, Rendered
  <2>2. CASE ~ EncodeFrame
    <3>1. encoded' = encoded
      BY <1>1, <2>2 DEF Next, vars, writerVars, ChangeDesktop, Unplug, Render, ListMonitors,
         StartCapture, NewEncoder, EndSession, TakeFrame, ExtractFrame, TrySend, NextFrame
    <3> QED
      BY <3>1
  <2> QED
    BY <2>1, <2>2
<1> QED
  BY <1>1, Inductive, PTL DEF Spec, FramesGetNewer

\* PictureHasEncoderShape of the run `capture`, for every set of modes: after any
\* switch of the mode the encoder's picture keeps its shape.
THEOREM ShapeKept == Spec => []PictureHasEncoderShape
<1>1. ASSUME IInv PROVE PictureHasEncoderShape
  <2> SUFFICES ASSUME encoded # NoFrame, item_size = bounds PROVE encoded.size = encoder
    BY DEF PictureHasEncoderShape
  <2>1. /\ Within(encoded.size) /\ Area(encoded.size) = Area(encoder)
        /\ encoder = bounds /\ Encodable(encoder)
    BY <1>1 DEF IInv, Cropped, EncoderFits
  <2>2. encoded.size \in Size /\ encoder \in Size
    BY <1>1 DEF IInv, TypeOK, Frames
  <2>3. /\ encoded.size.width \in Nat /\ encoded.size.height \in Nat
        /\ encoder.width \in Nat /\ encoder.height \in Nat
    BY <2>2 DEF Size
  <2>4. /\ encoded.size.width <= encoder.width /\ encoded.size.height <= encoder.height
        /\ encoder.width > 0 /\ encoder.height > 0
        /\ encoded.size.width * encoded.size.height = encoder.width * encoder.height
    BY <2>1, <2>3 DEF Within, Encodable, Area
  <2>5. encoded.size.width = encoder.width /\ encoded.size.height = encoder.height
    BY <2>3, <2>4, WholeByArea
  <2> QED
    BY <2>2, <2>5 DEF Size
<1> QED
  BY <1>1, Inductive, PTL

-----------------------------------------------------------------------------
(* The conversion *)

\* Division with the remainder as the difference.
LEMMA Split ==
  ASSUME NEW k \in Nat, NEW w \in Nat, w > 0
  PROVE  k \div w \in Nat /\ k - (k \div w) * w \in 0 .. w - 1
<1>1. k - (k \div w) * w \in 0 .. w - 1
  BY SMTT(30)
<1> QED
  BY <1>1

\* A position in a plane of h rows of w bytes has its row below h.
LEMMA RowBelow ==
  ASSUME NEW k \in Nat, NEW w \in Nat, w > 0, NEW h \in Nat, k < h * w
  PROVE  k \div w < h
<1> DEFINE r == k \div w
<1>1. r \in Nat /\ k - r * w \in 0 .. w - 1
  BY Split
<1> HIDE DEF r
<1>2. SUFFICES ASSUME r >= h PROVE FALSE
  BY <1>1 DEF r
<1>3. r * w >= h * w
  BY <1>1, <1>2
<1> QED
  BY <1>1, <1>3

\* The last row and column give the last position.
LEMMA PositionBelow ==
  ASSUME NEW w \in Nat, NEW h \in Nat, NEW r \in 0 .. h - 1, NEW c \in 0 .. w - 1
  PROVE  r * w + c \in 0 .. h * w - 1
<1>1. (r + 1) * w = r * w + w
  OBVIOUS
<1>2. (r + 1) * w <= h * w
  OBVIOUS
<1>3. r * w \in Nat /\ h * w \in Nat
  OBVIOUS
<1> QED
  BY <1>1, <1>2, <1>3

\* The position of a byte in a plane.
Position(w, row, column) == row * w + column

\* A position has one row and one column.
LEMMA PositionUnique ==
  ASSUME NEW w \in Nat, NEW r \in Nat, NEW s \in Nat,
         NEW c \in 0 .. w - 1, NEW d \in 0 .. w - 1, Position(w, r, c) = Position(w, s, d)
  PROVE  r = s /\ c = d
<1>0. r * w + c = s * w + d
  BY DEF Position
<1>1. ASSUME r < s PROVE FALSE
  <2>1. s * w >= (r + 1) * w
    BY <1>1
  <2>2. (r + 1) * w = r * w + w
    OBVIOUS
  <2> QED
    BY <1>0, <2>1, <2>2
<1>2. ASSUME s < r PROVE FALSE
  <2>1. r * w >= (s + 1) * w
    BY <1>2
  <2>2. (s + 1) * w = s * w + w
    OBVIOUS
  <2> QED
    BY <1>0, <2>1, <2>2
<1>3. r = s
  BY <1>1, <1>2
<1>4. r * w \in Int
  OBVIOUS
<1> QED
  BY <1>0, <1>3, <1>4

\* The luma plane is filled, whatever the parity.
LEMMA LumaFilled ==
  ASSUME NEW size \in Size, size.width > 0
  PROVE  Fills(YWrites(size), Area(size))
<1> DEFINE w == size.width
           h == size.height
           D == (0 .. h - 1) \X (0 .. w - 1)
           W == YWrites(size)
<1>1. w \in Nat /\ h \in Nat /\ w > 0 /\ Area(size) = h * w
  BY DEF Size, Area
<1>2. DOMAIN W = D /\ \A p \in D : W[p] = p[1] * w + p[2]
  BY DEF YWrites
<1> HIDE DEF w, h, W
<1>3. ASSUME NEW p \in D PROVE W[p] \in 0 .. h * w - 1
  BY <1>1, <1>2, PositionBelow
<1>4. ASSUME NEW k \in 0 .. h * w - 1 PROVE \E p \in D : W[p] = k
  <2> DEFINE r == k \div w
  <2>0. k \in Nat /\ k < h * w
    BY <1>1
  <2>1. r \in Nat /\ k - r * w \in 0 .. w - 1
    BY <1>1, <2>0, Split
  <2>2. r < h
    BY <1>1, <2>0, RowBelow
  <2> HIDE DEF r
  <2>3. <<r, k - r * w>> \in D
    BY <1>1, <2>1, <2>2
  <2>4. W[<<r, k - r * w>>] = r * w + (k - r * w)
    BY <1>2, <2>3
  <2>5. r * w \in Int
    BY <1>1, <2>1
  <2>6. r * w + (k - r * w) = k
    BY <2>0, <2>5
  <2> QED
    BY <2>3, <2>4, <2>6
<1>5. ASSUME NEW p \in D, NEW q \in D, W[p] = W[q] PROVE p = q
  <2>1. /\ p[1] \in Nat /\ q[1] \in Nat
        /\ p[2] \in 0 .. w - 1 /\ q[2] \in 0 .. w - 1
    BY <1>1
  <2>2. Position(w, p[1], p[2]) = Position(w, q[1], q[2])
    BY <1>2, <1>5 DEF Position
  <2>4. p[1] = q[1] /\ p[2] = q[2]
    BY <1>1, <2>1, <2>2, PositionUnique
  <2> QED
    BY <2>4
<1>6. {W[p] : p \in D} = 0 .. h * w - 1
  BY <1>3, <1>4
<1> QED
  BY <1>1, <1>2, <1>5, <1>6 DEF Fills, W

\* The chroma plane is filled when both dimensions are even.
LEMMA ChromaFilled ==
  ASSUME NEW size \in Size, Encodable(size)
  PROVE  Fills(UvWrites(size), size.width * (size.height \div 2))
<1> DEFINE w == size.width
           h == size.height
           m == h \div 2
           D == {q \in (0 .. h - 1) \X (0 .. w - 1) \X {0, 1} : q[1] % 2 = 0 /\ q[2] % 2 = 0}
           W == UvWrites(size)
<1>1. w \in Nat /\ h \in Nat /\ w > 0 /\ w % 2 = 0 /\ h % 2 = 0
  BY DEF Size, Encodable
<1>2. DOMAIN W = D /\ \A p \in D : W[p] = (p[1] \div 2) * w + p[2] + p[3]
  BY DEF UvWrites
<1> HIDE DEF w, h, W
<1>3. m \in Nat /\ h = 2 * m /\ m * w = w * m
  BY <1>1
<1> HIDE DEF m
\* A pair of bytes is a row of the plane and two columns of it.
<1>4. ASSUME NEW p \in D
      PROVE  /\ p[1] \div 2 \in 0 .. m - 1 /\ p[1] = 2 * (p[1] \div 2)
             /\ p[2] + p[3] \in 0 .. w - 1
             /\ W[p] = (p[1] \div 2) * w + (p[2] + p[3])
  <2>1. /\ p[1] \in 0 .. h - 1 /\ p[2] \in 0 .. w - 1 /\ p[3] \in {0, 1}
        /\ p[1] % 2 = 0 /\ p[2] % 2 = 0
    OBVIOUS
  <2>2. p[1] \div 2 \in 0 .. m - 1 /\ p[1] = 2 * (p[1] \div 2)
    BY <1>1, <1>3, <2>1
  <2>3. p[2] + p[3] \in 0 .. w - 1
    BY <1>1, <2>1
  <2>4. (p[1] \div 2) * w \in Int
    BY <1>1, <2>2
  <2> QED
    BY <1>2, <2>1, <2>2, <2>3, <2>4
<1>5. ASSUME NEW p \in D PROVE W[p] \in 0 .. m * w - 1
  BY <1>1, <1>3, <1>4, PositionBelow
<1>6. ASSUME NEW k \in 0 .. m * w - 1 PROVE \E p \in D : W[p] = k
  <2> DEFINE r == k \div w
             c == k - r * w
  <2>0. k \in Nat /\ k < m * w
    BY <1>1, <1>3
  <2>1. r \in Nat /\ c \in 0 .. w - 1
    BY <1>1, <2>0, Split
  <2>2. r < m
    BY <1>1, <1>3, <2>0, RowBelow
  <2> HIDE DEF r
  <2>3. r * w \in Int
    BY <1>1, <2>1
  <2>4. r * w + c = k
    BY <2>0, <2>3
  <2> HIDE DEF c
  <2>5. /\ 2 * r \in 0 .. h - 1 /\ (2 * r) % 2 = 0 /\ (2 * r) \div 2 = r
        /\ c - (c % 2) \in 0 .. w - 1 /\ (c - (c % 2)) % 2 = 0 /\ c % 2 \in {0, 1}
    BY <1>1, <1>3, <2>1, <2>2
  <2>6. <<2 * r, c - (c % 2), c % 2>> \in D
    BY <2>5
  <2>7. W[<<2 * r, c - (c % 2), c % 2>>] = ((2 * r) \div 2) * w + ((c - (c % 2)) + (c % 2))
    <3> DEFINE t == <<2 * r, c - (c % 2), c % 2>>
    <3>1. t \in D /\ t[1] = 2 * r /\ t[2] = c - (c % 2) /\ t[3] = c % 2
      BY <2>6
    <3> HIDE DEF t
    <3>2. W[t] = (t[1] \div 2) * w + (t[2] + t[3])
      BY <1>4, <3>1
    <3>3. W[t] = ((2 * r) \div 2) * w + ((c - (c % 2)) + (c % 2))
      BY <3>1, <3>2
    <3> QED
      BY <3>3 DEF t
  <2>8. (c - (c % 2)) + (c % 2) = c
    <3>1. c \in Int
      BY <1>1, <2>1
    <3> QED
      BY <3>1
  <2> QED
    BY <2>4, <2>5, <2>6, <2>7, <2>8
<1>7. ASSUME NEW p \in D, NEW q \in D, W[p] = W[q] PROVE p = q
  <2> DEFINE r == p[1] \div 2
             s == q[1] \div 2
             c == p[2] + p[3]
             d == q[2] + q[3]
  <2>0. /\ r \in 0 .. m - 1 /\ p[1] = 2 * r /\ c \in 0 .. w - 1 /\ W[p] = r * w + c
        /\ s \in 0 .. m - 1 /\ q[1] = 2 * s /\ d \in 0 .. w - 1 /\ W[q] = s * w + d
    BY <1>4
  <2> HIDE DEF r, s, c, d
  <2>a. /\ w \in Nat /\ r \in Nat /\ s \in Nat
        /\ c \in 0 .. w - 1 /\ d \in 0 .. w - 1
    BY <1>1, <1>3, <2>0
  <2>b. Position(w, r, c) = Position(w, s, d)
    BY <1>7, <2>0 DEF Position
  <2>1. r = s /\ c = d
    BY <2>a, <2>b, PositionUnique
  <2>2. p[1] = q[1]
    BY <2>0, <2>1
  <2>3. /\ p[2] \in Nat /\ p[3] \in {0, 1} /\ q[2] \in Nat /\ q[3] \in {0, 1}
        /\ p[2] % 2 = 0 /\ q[2] % 2 = 0
    OBVIOUS
  <2>4. p[2] = q[2] /\ p[3] = q[3]
    <3>1. p[2] + p[3] = q[2] + q[3]
      BY <2>1 DEF c, d
    <3>2. ASSUME NEW a \in Nat, NEW b \in Nat, NEW x \in {0, 1}, NEW y \in {0, 1},
                 a % 2 = 0, b % 2 = 0, a + x = b + y
          PROVE  a = b /\ x = y
      BY <3>2
    <3> QED
      BY <2>3, <3>1, <3>2
  <2> QED
    BY <2>2, <2>4
<1>8. {W[p] : p \in D} = 0 .. m * w - 1
  BY <1>5, <1>6
<1>9. size.width * (size.height \div 2) = m * w
  BY <1>3 DEF m, w, h
<1> QED
  BY <1>2, <1>7, <1>8, <1>9 DEF Fills, W

\* PlanesFilled of the run `capture`, for every size: the dimensions that
\* MftEncoder::new accepts are dimensions for which bgra_to_nv12 fills both planes.
THEOREM ConversionFills == Spec => []PlanesFilled
<1>1. ASSUME IInv PROVE PlanesFilled
  <2> SUFFICES ASSUME encoder # NoSize
               PROVE  /\ Fills(YWrites(encoder), Area(encoder))
                      /\ Fills(UvWrites(encoder), encoder.width * (encoder.height \div 2))
    BY DEF PlanesFilled
  <2>1. encoder \in Size /\ Encodable(encoder)
    BY <1>1 DEF IInv, TypeOK, EncoderFits
  <2>2. encoder.width > 0
    BY <2>1 DEF Size, Encodable
  <2> QED
    BY <2>1, <2>2, LumaFilled, ChromaFilled
<1> QED
  BY <1>1, Inductive, PTL
=============================================================================
