---------------------------- MODULE VideoDelivery ----------------------------
(***************************************************************************)
(* One connection's video from the writer loop of handle_client to the     *)
(* decoder: over UDP once the client is registered, over TCP for the       *)
(* startup frames, and over TCP alone on USB.  Three activities of the iPad *)
(* meet here: the network queue that handles TCP messages and datagrams,   *)
(* the mailbox of H264Decoder.decode, and the decoder queue that empties   *)
(* it.                                                                     *)
(*                                                                         *)
(* Frames over UDP are those of FrameChannel: whole, from the set sent,    *)
(* and ever newer; VideoReassembly is shown to provide that.  The writer   *)
(* looks the client up twice per frame, and registration may come between. *)
(***************************************************************************)
EXTENDS Integers, Sequences

CONSTANT MaxFrame   \* bound: the writer takes frames 1 .. MaxFrame

ASSUME DeliveryAssumption == MaxFrame \in Nat \ {0}

VARIABLES
  usb,         \* handle_client was called without a VideoUdp
  \* the writer loop
  writer,      \* what it does next: "take", "udp" or "tcp"
  frame_count, \* frames taken from the capture
  encoded,     \* the access unit in hand, or NoFrame
  sent_reliable_keyframe,
  \* the two paths
  tcp,         \* messages on the TCP connection, in order
  sent,        \* units handed to the UDP socket
  \* registration
  registration, \* of the TMREG1 datagram: "none", "sent", "received"
  \* the client
  lastUdp,     \* the frame number UDP last delivered, 0 at first
  pendingAccessUnit,
  decodeScheduled,
  blocks,      \* blocks on the decoder queue that have not returned
  decoding,    \* the access unit decodeOne is called with, or NoFrame
  parameters,  \* sps and pps are kept
  session,     \* a decompression session exists
  lastDecoded  \* number of the frame last submitted to it, 0 at first

writerVars  == <<writer, frame_count, encoded, sent_reliable_keyframe>>
mailboxVars == <<pendingAccessUnit, decodeScheduled, blocks>>
decoderVars == <<decoding, parameters, session, lastDecoded>>
vars == <<usb, writerVars, tcp, sent, registration, lastUdp, mailboxVars, decoderVars>>

\* An access unit: the frame number, whether it is a keyframe (with its
\* parameter sets) and the path it takes.
Units == [frame : 1 .. MaxFrame, keyframe : BOOLEAN, via : {"udp", "tcp"}]
NoFrame == [frame |-> 0, keyframe |-> FALSE, via |-> "tcp"]
Hello == [frame |-> 0, keyframe |-> TRUE, via |-> "tcp"]

-----------------------------------------------------------------------------
(* The writer loop *)

Init ==
  /\ usb \in BOOLEAN
  /\ writer = "take"
  /\ frame_count = 0
  /\ encoded = NoFrame
  /\ sent_reliable_keyframe = FALSE
  /\ tcp = <<Hello>>
  /\ sent = {}
  /\ registration = "none"
  /\ lastUdp = 0
  /\ pendingAccessUnit = NoFrame
  /\ decodeScheduled = FALSE
  /\ blocks = 0
  /\ decoding = NoFrame
  /\ parameters = FALSE
  /\ session = FALSE
  /\ lastDecoded = 0

\* Mutant of TakeFrame: the unit bears the number of frames counted before it.
TakeFrameCountedLate ==
  /\ writer = "take"
  /\ frame_count < MaxFrame
  /\ frame_count' = frame_count + 1
  /\ \E keyframe \in BOOLEAN :
       encoded' = [frame |-> frame_count, keyframe |-> keyframe, via |-> "udp"]
  /\ writer' = "udp"
  /\ UNCHANGED <<usb, sent_reliable_keyframe, tcp, sent, registration, lastUdp,
                 mailboxVars, decoderVars>>

\* A captured frame is counted and encoded.  The encoder may return nothing
\* yet; the first unit it returns is a keyframe, a later one may be.
TakeFrame ==
  /\ writer = "take"
  /\ frame_count < MaxFrame
  /\ frame_count' = frame_count + 1
  /\ \/ UNCHANGED <<writer, encoded>>
     \/ \E keyframe \in BOOLEAN :
          /\ encoded = NoFrame => keyframe
          /\ encoded' = [frame |-> frame_count + 1, keyframe |-> keyframe, via |-> "udp"]
          /\ writer' = "udp"
  /\ UNCHANGED <<usb, sent_reliable_keyframe, tcp, sent, registration, lastUdp,
                 mailboxVars, decoderVars>>

\* `send_frame` looks the client up under the lock, and returns without one.
SendUdp ==
  /\ writer = "udp"
  /\ writer' = "tcp"
  /\ sent' = IF ~ usb /\ registration = "received" THEN sent \cup {encoded} ELSE sent
  /\ UNCHANGED <<usb, frame_count, encoded, sent_reliable_keyframe, tcp, registration,
                 lastUdp, mailboxVars, decoderVars>>

needs_tcp_video == usb
needs_tcp_keyframe == encoded.keyframe /\ ~ sent_reliable_keyframe
needs_tcp_fallback == ~ usb /\ frame_count <= 2 /\ registration # "received"

\* The second lookup decides whether the same unit also goes over TCP.
SendTcp ==
  /\ writer = "tcp"
  /\ writer' = "take"
  /\ IF needs_tcp_video \/ needs_tcp_keyframe \/ needs_tcp_fallback
     THEN /\ tcp' = Append(tcp, [encoded EXCEPT !.via = "tcp"])
          /\ sent_reliable_keyframe' = (sent_reliable_keyframe \/ encoded.keyframe)
     ELSE UNCHANGED <<tcp, sent_reliable_keyframe>>
  /\ UNCHANGED <<usb, frame_count, encoded, sent, registration, lastUdp,
                 mailboxVars, decoderVars>>

\* The registration thread receives TMREG1; a lost one never is.
Register ==
  /\ registration = "sent"
  /\ registration' = "received"
  /\ UNCHANGED <<usb, writerVars, tcp, sent, lastUdp, mailboxVars, decoderVars>>

-----------------------------------------------------------------------------
(* The client *)

\* Mutant of Decode: a block is queued for every unit.
DecodeAlwaysSchedules(unit) ==
  /\ pendingAccessUnit' = unit
  /\ decodeScheduled' = TRUE
  /\ blocks' = blocks + 1

\* H264Decoder.decode: the newest unit replaces a waiting one, and a block is
\* queued unless one is on its way to look.
Decode(unit) ==
  /\ pendingAccessUnit' = unit
  /\ decodeScheduled' = TRUE
  /\ blocks' = IF decodeScheduled THEN blocks ELSE blocks + 1

\* popMessage: the first message is taken off the buffer once it is whole.
PopMessage == tcp # <<>> /\ tcp' = Tail(tcp)

\* The hello makes a network client register; its port 0 says USB.
HandleHello ==
  /\ PopMessage /\ Head(tcp) = Hello
  /\ registration' = IF usb THEN registration ELSE "sent"
  /\ UNCHANGED <<usb, writerVars, sent, lastUdp, mailboxVars, decoderVars>>

\* MSG_VIDEO goes straight to the decoder, in the order of the connection.
HandleVideo ==
  /\ PopMessage /\ Head(tcp) # Hello
  /\ Decode(Head(tcp))
  /\ UNCHANGED <<usb, writerVars, sent, registration, lastUdp, decoderVars>>

\* Mutant of HandleDatagram: only a repeated frame is dropped.
HandleAnyDatagram(unit) ==
  /\ unit.frame # lastUdp
  /\ lastUdp' = unit.frame
  /\ Decode(unit)
  /\ UNCHANGED <<usb, writerVars, tcp, sent, registration, decoderVars>>

\* Reassembly delivers a frame that is newer than the last one it delivered.
HandleDatagram(unit) ==
  /\ unit.frame > lastUdp
  /\ lastUdp' = unit.frame
  /\ Decode(unit)
  /\ UNCHANGED <<usb, writerVars, tcp, sent, registration, decoderVars>>

\* Mutant of TakePending: the block returns and leaves the flag set.
TakePendingLeavesFlag ==
  /\ blocks > 0 /\ decoding = NoFrame
  /\ decoding' = pendingAccessUnit
  /\ pendingAccessUnit' = NoFrame
  /\ blocks' = IF pendingAccessUnit = NoFrame THEN blocks - 1 ELSE blocks
  /\ UNCHANGED <<usb, writerVars, tcp, sent, registration, lastUdp, decodeScheduled,
                 parameters, session, lastDecoded>>

\* The block takes what is pending, or clears the flag under the same lock and
\* returns.
TakePending ==
  /\ blocks > 0 /\ decoding = NoFrame
  /\ decoding' = pendingAccessUnit
  /\ pendingAccessUnit' = NoFrame
  /\ IF pendingAccessUnit = NoFrame
     THEN decodeScheduled' = FALSE /\ blocks' = blocks - 1
     ELSE UNCHANGED <<decodeScheduled, blocks>>
  /\ UNCHANGED <<usb, writerVars, tcp, sent, registration, lastUdp,
                 parameters, session, lastDecoded>>

\* decodeOne keeps a keyframe's parameter sets.  It rebuilds the session when
\* they changed or there is none: without a format description the old session
\* stays, and the old one is gone when no new one can be made.  A unit is dropped
\* if there is no session or no sample buffer can be made of it.
DecodeOne ==
  /\ decoding # NoFrame
  /\ decoding' = NoFrame
  /\ parameters' = (parameters \/ decoding.keyframe)
  /\ session' \in IF parameters' /\ (decoding.keyframe \/ ~ session)
                  THEN BOOLEAN ELSE {session}
  /\ lastDecoded' \in IF session' THEN {decoding.frame, lastDecoded} ELSE {lastDecoded}
  /\ UNCHANGED <<usb, writerVars, tcp, sent, registration, lastUdp, mailboxVars>>

Next ==
  \/ TakeFrame \/ SendUdp \/ SendTcp \/ Register
  \/ HandleHello \/ HandleVideo \/ \E unit \in sent : HandleDatagram(unit)
  \/ TakePending \/ DecodeOne

\* The writer thread, TCP and the two dispatch queues always go on; a captured
\* frame, TMREG1 and a datagram may never come.
Fairness ==
  /\ WF_vars(SendUdp) /\ WF_vars(SendTcp)
  /\ WF_vars(HandleHello) /\ WF_vars(HandleVideo)
  /\ WF_vars(TakePending) /\ WF_vars(DecodeOne)

Spec == Init /\ [][Next]_vars /\ Fairness

-----------------------------------------------------------------------------
(* Properties *)

\* Type correctness: the units on every path carry numbers of counted frames.
TypeOK ==
  /\ usb \in BOOLEAN
  /\ writer \in {"take", "udp", "tcp"}
  /\ frame_count \in 0 .. MaxFrame
  /\ encoded \in Units \cup {NoFrame}
  /\ sent_reliable_keyframe \in BOOLEAN
  /\ tcp \in Seq(Units \cup {Hello})
  /\ sent \subseteq Units
  /\ registration \in {"none", "sent", "received"}
  /\ lastUdp \in 0 .. MaxFrame
  /\ pendingAccessUnit \in Units \cup {NoFrame}
  /\ decodeScheduled \in BOOLEAN
  /\ blocks \in Nat
  /\ decoding \in Units \cup {NoFrame}
  /\ parameters \in BOOLEAN
  /\ session \in BOOLEAN
  /\ lastDecoded \in 0 .. MaxFrame

\* The mailbox never sleeps on a unit and never runs two blocks: whatever the
\* order of Decode and TakePending, a pending unit has exactly one block coming
\* for it, and the flag says so.
MailboxServed ==
  /\ blocks = IF decodeScheduled THEN 1 ELSE 0
  /\ pendingAccessUnit # NoFrame => decodeScheduled
  /\ decoding # NoFrame => decodeScheduled

\* On USB, and over UDP, the picture never goes back: a unit older than the one
\* decoded last can only be a startup unit that came over TCP while datagrams
\* were already arriving.
BackwardsOnlyByStartupTcp ==
  [][lastDecoded' < lastDecoded =>
       /\ ~ usb
       /\ decoding.via = "tcp"
       /\ lastUdp > decoding.frame]_vars

\* On USB every unit the writer encodes is given to decodeOne or overtaken by a
\* later one that is: the mailbox drops old units only, and its last unit is not
\* left behind by a block that is just returning.  What decodeOne then makes of
\* it is up to VideoToolbox, which may refuse any unit.
NewestReachesDecoder ==
  \A n \in 1 .. MaxFrame :
    (usb /\ writer # "take" /\ encoded.frame = n) ~> decoding.frame >= n

\* "A delayed P-frame must never be decoded after a newer frame"
\* (NetworkClient.swift:261).
NeverDecodesOlder ==
  [][lastDecoded' # lastDecoded /\ ~ decoding.keyframe => lastDecoded' > lastDecoded]_vars
=============================================================================
