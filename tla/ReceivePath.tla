----------------------------- MODULE ReceivePath -----------------------------
(***************************************************************************)
(* One direction of the TCP connection, byte by byte.  Towards the iPad    *)
(* run the hello and the video messages of a USB session: TCP cuts them    *)
(* anywhere, receiveLoop collects them in readBuffer, drainMessages pops    *)
(* whole messages, the decoder's mailbox keeps the newest access unit, and  *)
(* decodeOne splits it, keeps the parameter sets and feeds the session.     *)
(* Towards the PC run touches and pings, which the reader thread takes     *)
(* with read_message: first the length, then the rest.                     *)
(***************************************************************************)
EXTENDS Bitstream

CONSTANTS
  Keyframes,   \* sequences of NAL units an encoder returns as a keyframe
  Pframes,     \* and as any other frame
  Forms,       \* forms in which encoders return them
  Touches,     \* batches of touch events
  MaxMessages  \* bound: messages written

ASSUME PathAssumption ==
  /\ Forms \subseteq {"annexb4", "annexb3", "avc"} /\ Forms # {}
  /\ MaxMessages \in Nat \ {0}

\* An access unit as an encoder returns it: units that are not empty, that hold
\* no start code and do not end in a zero (what H.264 asks of a unit), in a
\* message whose length fits in its four bytes.
ASSUME EncoderAssumption ==
  \A nals \in Keyframes \cup Pframes :
    /\ nals \in Seq(Seq(Bytes) \ {<<>>})
    /\ \A i \in DOMAIN nals : /\ InFourBytes(Len(nals[i]))
                              /\ ~ HasStartCode(nals[i])
                              /\ Last(nals[i]) # 0
    /\ \A f \in Forms : InFourBytes(Len(to_annex_b(Serialize(f, nals))) + 10)

\* A batch as makeTouchMessage sends it: the count and an id in a byte each,
\* coordinates of four bytes.
ASSUME TouchAssumption ==
  \A events \in Touches :
    /\ events \in Seq([id : Bytes, active : BOOLEAN, x : Nat, y : Nat])
    /\ Len(events) \in Bytes
    /\ \A i \in DOMAIN events : InFourBytes(events[i].x) /\ InFourBytes(events[i].y)

VARIABLES
  side,        \* the receiver: "ipad" or "pc"
  form,        \* what this session's encoder returns
  written,     \* what the sender wrote, message by message
  wire,        \* bytes sent and not received
  readBuffer,  \* bytes received and not consumed; on the PC those of read_exact
  length,      \* on the PC: the length read_message has read, 0 before it
  draining,    \* drainMessages is running
  stopped,     \* the receiver gave the connection up
  handled,     \* what the receiver took out of the stream
  pending,     \* the mailbox: number of a message in handled, 0 when empty
  sps, pps,    \* the decoder's parameter sets, <<>> at first
  session,     \* <<sps, pps>> of the decompression session, <<>> without one
  unmade,      \* history: <<sps, pps>> if no format description could be made of
               \* them when it was tried last, <<>> if one was made
  seen,        \* numbers of the messages decodeOne has run on
  submitted    \* the last picture given to a session

streamVars  == <<written, wire>>
readerVars  == <<readBuffer, length, draining, stopped, handled>>
decoderVars == <<sps, pps, session, unmade, seen, submitted>>
vars == <<side, form, streamVars, readerVars, pending, decoderVars>>

NoPicture == [message |-> 0, nals |-> <<>>, session |-> <<>>, unmade |-> <<>>]

Init ==
  /\ side \in {"ipad", "pc"}
  /\ form \in Forms
  /\ side = "pc" => form = CHOOSE f \in Forms : TRUE
  /\ written = <<>> /\ wire = <<>>
  /\ readBuffer = <<>> /\ length = 0
  /\ draining = FALSE /\ stopped = FALSE
  /\ handled = <<>>
  /\ pending = 0
  /\ sps = <<>> /\ pps = <<>> /\ session = <<>>
  /\ unmade = <<>>
  /\ seen = {}
  /\ submitted = NoPicture

-----------------------------------------------------------------------------
(* The senders *)

\* The bytes of a message.
Framed(m) ==
  CASE m.kind = "hello" -> make_hello(0)
    [] m.kind = "video" ->
         write_message(MSG_VIDEO, make_video_payload(m.nals \in Keyframes, 2, 2, m.h264))
    [] m.kind = "touch" -> write_message(MSG_TOUCH, makeTouchPayload(m.events))
    [] m.kind = "ping"  -> write_message(MSG_PING, <<>>)

Write(m) ==
  /\ Len(written) < MaxMessages
  /\ ~ stopped
  /\ written' = Append(written, m)
  /\ wire' = wire \o Framed(m)
  /\ UNCHANGED <<side, form, readerVars, pending, decoderVars>>

\* handle_client: the hello, then a unit per frame, the first one a keyframe;
\* encode_frame has made Annex-B of the encoder's sample.
WriteHello == side = "ipad" /\ written = <<>> /\ Write([kind |-> "hello"])
WriteVideo ==
  /\ side = "ipad" /\ written # <<>>
  /\ \E nals \in IF Len(written) = 1 THEN Keyframes ELSE Keyframes \cup Pframes :
       Write([kind |-> "video", nals |-> nals, h264 |-> to_annex_b(Serialize(form, nals))])

\* sendTouches and sendPing.
WriteTouch ==
  side = "pc" /\ \E events \in Touches : Write([kind |-> "touch", events |-> events])
WritePing == side = "pc" /\ Write([kind |-> "ping"])

-----------------------------------------------------------------------------
(* The iPad *)

\* The completion of `receive`: any number of bytes that have come, after
\* which drainMessages runs.
ReceiveBytes ==
  /\ side = "ipad" /\ ~ draining /\ ~ stopped
  /\ \E n \in 1 .. Len(wire) :
       /\ readBuffer' = readBuffer \o SubSeq(wire, 1, n)
       /\ wire' = SubSeq(wire, n + 1, Len(wire))
  /\ draining' = TRUE
  /\ UNCHANGED <<side, form, written, length, stopped, handled, pending, decoderVars>>

\* Mutant of DrainMessage: one message per receive.
DrainOneMessage ==
  /\ draining
  /\ LET m == popMessage(readBuffer)
     IN /\ readBuffer' = IF m.kind = "message" THEN m.rest ELSE readBuffer
        /\ draining' = FALSE
        /\ stopped' = (m.kind = "bad")
        /\ handled' = CASE m.kind = "message" /\ m.type = MSG_HELLO ->
                             Append(handled, [kind |-> "hello"])
                        [] m.kind = "message" /\ m.type = MSG_VIDEO ->
                             Append(handled, [kind |-> "video",
                                              h264 |-> parseVideoPayload(m.payload)[1]])
                        [] OTHER -> handled
        /\ pending' = IF m.kind = "message" /\ m.type = MSG_VIDEO
                      THEN Len(handled') ELSE pending
  /\ UNCHANGED <<side, form, streamVars, length, decoderVars>>

\* One turn of drainMessages.  A video message goes to the mailbox, where it
\* replaces a unit still waiting; other messages leave the decoder alone.  A
\* malformed one stops the client.
DrainMessage ==
  /\ draining
  /\ LET m == popMessage(readBuffer)
         video == IF m.kind = "message" /\ m.type = MSG_VIDEO
                  THEN parseVideoPayload(m.payload) ELSE <<>>
     IN /\ readBuffer' = IF m.kind = "message" THEN m.rest ELSE readBuffer
        /\ draining' = (m.kind = "message")
        /\ stopped' = (m.kind = "bad")
        /\ handled' = CASE video # <<>> ->
                             Append(handled, [kind |-> "video", h264 |-> video[1]])
                        [] m.kind = "message" /\ m.type = MSG_HELLO ->
                             Append(handled, [kind |-> "hello"])
                        [] OTHER -> handled
        /\ pending' = IF video # <<>> THEN Len(handled') ELSE pending
  /\ UNCHANGED <<side, form, streamVars, length, decoderVars>>

NalType(nal) == Head(nal)
OfType(nals, types) ==
  FlattenSeq([i \in DOMAIN nals |->
    IF nals[i] # <<>> /\ NalType(nals[i]) \in types THEN <<nals[i]>> ELSE <<>>])

\* Mutant of Slices: one slice per picture.
FirstSlice(nals) == LET s == OfType(nals, {1, 5}) IN IF s = <<>> THEN s ELSE <<Head(s)>>

\* decodeOne's vclUnits.
Slices(nals) == OfType(nals, {1, 5})

\* The last unit of a type, or the one kept so far.
LastOr(nals, kept) == IF nals = <<>> THEN kept ELSE Last(nals)

\* rebuildSession: without a format description the session stays as it was;
\* with one it goes, and creating the new one may fail.
RebuildSession(s, p) ==
  \/ unmade' = <<s, p>> /\ UNCHANGED session
  \/ unmade' = <<>> /\ session' \in {<<>>, <<s, p>>}

\* The slices of the pending message are given to the session, or no sample
\* buffer can be made of them.
Submit(vclUnits) ==
  \/ UNCHANGED submitted
  \/ submitted' = [message |-> pending, nals |-> vclUnits,
                   session |-> session', unmade |-> unmade']

\* Mutant of DecodeOne: a changed PPS is kept without a new session.
DecodeOneOldPps ==
  /\ pending # 0
  /\ LET nals == splitAnnexB(handled[pending].h264)
         vclUnits == Slices(nals)
         didChangeParams == \E nal \in ToSet(OfType(nals, {7})) : nal # sps
     IN /\ sps' = LastOr(OfType(nals, {7}), sps)
        /\ pps' = LastOr(OfType(nals, {8}), pps)
        /\ IF vclUnits # <<>> /\ (didChangeParams \/ session = <<>>)
              /\ sps' # <<>> /\ pps' # <<>>
           THEN RebuildSession(sps', pps')
           ELSE UNCHANGED <<session, unmade>>
        /\ IF vclUnits # <<>> /\ session' # <<>>
           THEN Submit(vclUnits) ELSE UNCHANGED submitted
  /\ seen' = seen \cup {pending}
  /\ pending' = 0
  /\ UNCHANGED <<side, form, streamVars, readerVars>>

\* decodeOne, on the decoder's queue.
DecodeOne ==
  /\ pending # 0
  /\ LET nals == splitAnnexB(handled[pending].h264)
         vclUnits == Slices(nals)
         didChangeParams == \/ \E nal \in ToSet(OfType(nals, {7})) : nal # sps
                            \/ \E nal \in ToSet(OfType(nals, {8})) : nal # pps
     IN /\ sps' = LastOr(OfType(nals, {7}), sps)
        /\ pps' = LastOr(OfType(nals, {8}), pps)
        /\ IF vclUnits # <<>> /\ (didChangeParams \/ session = <<>>)
              /\ sps' # <<>> /\ pps' # <<>>
           THEN RebuildSession(sps', pps')
           ELSE UNCHANGED <<session, unmade>>
        /\ IF vclUnits # <<>> /\ session' # <<>>
           THEN Submit(vclUnits) ELSE UNCHANGED submitted
  /\ seen' = seen \cup {pending}
  /\ pending' = 0
  /\ UNCHANGED <<side, form, streamVars, readerVars>>

-----------------------------------------------------------------------------
(* The PC's reader thread *)

\* read_message, first half: a length within the limits.
TakeLength(len) ==
  /\ IF len < 1 \/ len > MaxMessage
     THEN stopped' = TRUE /\ UNCHANGED length
     ELSE length' = len /\ UNCHANGED stopped
  /\ UNCHANGED handled

\* Second half, and what the thread does with the message: touches are decoded
\* and injected, a ping is nothing, another message ends the thread.
TakeBody(body) ==
  LET events == IF Head(body) = MSG_TOUCH THEN decode_touch(Tail(body)) ELSE <<>>
  IN /\ handled' = CASE events # <<>> ->
                          Append(handled, [kind |-> "touch", events |-> events[1]])
                     [] Head(body) = MSG_PING -> Append(handled, [kind |-> "ping"])
                     [] OTHER -> handled
     /\ stopped' = (Head(body) \notin {MSG_TOUCH, MSG_PING})
     /\ length' = 0

\* One read of read_exact: any number of the bytes it still wants, and with the
\* last of them what follows.
ReadBytes ==
  /\ side = "pc" /\ ~ stopped
  /\ LET wanted == IF length = 0 THEN 4 ELSE length
     IN \E n \in 1 .. Min({wanted - Len(readBuffer), Len(wire)}) :
          LET got == readBuffer \o SubSeq(wire, 1, n)
          IN /\ wire' = SubSeq(wire, n + 1, Len(wire))
             /\ IF Len(got) < wanted
                THEN readBuffer' = got /\ UNCHANGED <<length, stopped, handled>>
                ELSE /\ readBuffer' = <<>>
                     /\ IF length = 0 THEN TakeLength(FromLittleEndian(got)) ELSE TakeBody(got)
  /\ UNCHANGED <<side, form, written, draining, pending, decoderVars>>

Next ==
  \/ WriteHello \/ WriteVideo \/ WriteTouch \/ WritePing
  \/ ReceiveBytes \/ DrainMessage \/ DecodeOne
  \/ ReadBytes

\* TCP delivers, and the receiving queue and thread go on.
Fairness ==
  WF_vars(ReceiveBytes) /\ WF_vars(DrainMessage) /\ WF_vars(ReadBytes)

Spec == Init /\ [][Next]_vars /\ Fairness

-----------------------------------------------------------------------------
(* What the decoder relies on *)

\* No sample of length-prefixed units reads as one with start codes in it.
LengthsUnmistakable ==
  "avc" \in Forms =>
    \A nals \in Keyframes \cup Pframes : ~ HasStartCode(Serialize("avc", nals))

\* A keyframe brings parameter sets and a slice ("the minimum sequence the iOS
\* VideoToolbox decoder needs", encoder_mft.rs:670); another frame brings no sets.
KeyframesDecodable ==
  /\ \A nals \in Keyframes : /\ OfType(nals, {7}) # <<>> /\ OfType(nals, {8}) # <<>>
                             /\ Slices(nals) # <<>>
  /\ \A nals \in Pframes : OfType(nals, {7}) = <<>> /\ OfType(nals, {8}) = <<>>

-----------------------------------------------------------------------------
(* Properties *)

\* Type correctness: what travels are bytes.
TypeOK ==
  /\ Len(written) <= MaxMessages
  /\ wire \in Seq(Bytes) /\ readBuffer \in Seq(Bytes)
  /\ length \in 0 .. MaxMessage
  /\ draining \in BOOLEAN /\ stopped \in BOOLEAN
  /\ pending \in 0 .. Len(handled)
  /\ seen \subseteq 1 .. Len(handled)
  /\ submitted.message \in 0 .. Len(handled)

\* What a receiver should make of a message.
Meaning(m) == IF m.kind = "video" THEN [kind |-> "video", h264 |-> m.h264] ELSE m

\* However TCP cuts the stream, the receiver takes the messages that were
\* written, whole, in order, none twice and none left out (popMessage,
\* read_message and decode_touch against write_message and its callers).
TakesWhatWasWritten ==
  IsPrefix(handled, [i \in DOMAIN written |-> Meaning(written[i])])

\* A receiver gives the connection up only for a message that is too long:
\* it never loses its place in the stream (drainMessages, read_message).
OnlyOversizeStops ==
  stopped => \E i \in DOMAIN written : Len(Framed(written[i])) - 4 > MaxMessage

\* A picture given to the session consists of exactly the slices the encoder
\* returned in one sample, in their order (to_annex_b, splitAnnexB, decodeOne).
PicturesIntact ==
  submitted # NoPicture =>
    submitted.nals = OfType(written[submitted.message].nals, {1, 5})

\* The keyframe whose parameter sets hold for a message.
KeyOf(n) == CHOOSE k \in 1 .. n :
  /\ written[k].kind = "video" /\ written[k].nals \in Keyframes
  /\ \A j \in k + 1 .. n : written[j].nals \notin Keyframes

ParametersOf(n) == <<Last(OfType(written[n].nals, {7})), Last(OfType(written[n].nals, {8}))>>

\* A picture is decoded with other parameter sets than its own only if the
\* keyframe that brought them was overwritten in the mailbox, or no format
\* description could be made of them when it was tried last; a session that could
\* not be created does not change that (decodeOne, rebuildSession).
SessionFitsPicture ==
  submitted # NoPicture =>
    LET key == KeyOf(submitted.message)
    IN key \in seen => ParametersOf(key) \in {submitted.session, submitted.unmade}

\* The last message, with nothing behind it to push it out, does not stay in
\* the read buffer (the loops of receiveLoop, drainMessages and read_exact).
LastMessageTaken ==
  Len(written) = MaxMessages ~> Len(handled) = MaxMessages \/ stopped

\* "Normalize both forms before handing bytes to VideoToolbox"
\* (encoder_mft.rs:159): what the client splits is what the encoder returned.
BothFormsNormalized ==
  \A i \in DOMAIN written :
    written[i].kind = "video" => splitAnnexB(written[i].h264) = written[i].nals
=============================================================================
