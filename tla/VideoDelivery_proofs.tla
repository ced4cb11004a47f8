------------------------ MODULE VideoDelivery_proofs ------------------------
(***************************************************************************)
(* The safety of VideoDelivery for every number of frames: type            *)
(* correctness, the mailbox of H264Decoder, and which units can bring an   *)
(* older picture back.                                                     *)
(*                                                                         *)
(* The last one rests on where the two paths overlap.  A unit goes over    *)
(* TCP after the first one went over UDP only if it is the first unit of   *)
(* all, so no unit on TCP is newer than one on UDP (PathsOverlapOnce).     *)
(* What the decoder holds therefore never outruns a datagram that can      *)
(* still be delivered (NothingAhead), and only a unit that TCP brings late *)
(* can be older than what is decoded before it (OlderIsLate).              *)
(***************************************************************************)
EXTENDS VideoDelivery, TLAPS

\* The writer's unit bears the number of the frame counted last, and units
\* on TCP bear rising numbers below it.
WriterInOrder ==
  /\ writer # "take" => encoded.frame = frame_count /\ encoded # NoFrame
  /\ \A i \in DOMAIN tcp : tcp[i].via = "tcp" /\ tcp[i].frame <= frame_count
  /\ writer # "take" => \A i \in DOMAIN tcp : tcp[i].frame < frame_count
  /\ \A i, j \in DOMAIN tcp : i < j => tcp[i].frame < tcp[j].frame

\* Until a keyframe went over TCP, the unit in hand is the first one, and no
\* other went over UDP.  Nothing goes over UDP on USB, nor before TMREG1, which
\* the hello makes the client send.
FirstUnit ==
  /\ ~ sent_reliable_keyframe => sent \subseteq {encoded}
  /\ ~ sent_reliable_keyframe /\ encoded # NoFrame => encoded.keyframe /\ writer # "take"
  /\ encoded = NoFrame => sent = {}
  /\ sent # {} => ~ usb /\ registration = "received"
  /\ \A i \in DOMAIN tcp : tcp[i] = Hello => registration = "none"

\* No unit is, or can be, on TCP that is newer than one sent over UDP.
PathsOverlapOnce ==
  \A u \in sent :
    u.frame <= frame_count /\ \A i \in DOMAIN tcp : tcp[i].frame <= u.frame

\* Number n is of a counted frame, and of none that a datagram can overtake.
Settled(n) ==
  /\ n <= frame_count
  /\ n <= lastUdp \/ \A u \in sent : n <= u.frame

\* Whatever the decoder holds or has decoded is settled.
NothingAhead ==
  Settled(lastDecoded) /\ Settled(decoding.frame) /\ Settled(pendingAccessUnit.frame)

\* A unit that came over TCP after a newer one came over UDP.
Late(u) == ~ usb /\ u.via = "tcp" /\ lastUdp > u.frame

\* A unit on its way to the decoder, or in it, is late if it is older than any
\* that is ahead of it.
OlderIsLate ==
  /\ decoding # NoFrame /\ decoding.frame < lastDecoded => Late(decoding)
  /\ pendingAccessUnit # NoFrame /\
     (pendingAccessUnit.frame < lastDecoded \/ pendingAccessUnit.frame < decoding.frame)
       => Late(pendingAccessUnit)
  /\ \A i \in DOMAIN tcp :
       tcp[i] # Hello /\
       (\/ tcp[i].frame < lastDecoded
        \/ tcp[i].frame < decoding.frame
        \/ tcp[i].frame < pendingAccessUnit.frame)
         => Late(tcp[i])

\* The inductive invariant.
IInv ==
  /\ TypeOK /\ WriterInOrder /\ FirstUnit /\ PathsOverlapOnce
  /\ NothingAhead /\ OlderIsLate

-----------------------------------------------------------------------------
(* Units and the TCP stream *)

\* A unit in a slot is none at all, or has a number above 0.
LEMMA UnitOrNone ==
  /\ \A u \in Units \cup {NoFrame, Hello} : u.frame \in 0 .. MaxFrame
  /\ \A u \in Units \cup {NoFrame} : u = NoFrame <=> u.frame = 0
  /\ \A u \in Units \cup {Hello} : u = Hello <=> u.frame = 0
  /\ \A u \in Units : u.frame \in 1 .. MaxFrame /\ u # NoFrame /\ u # Hello
BY DeliveryAssumption DEF Units, NoFrame, Hello

\* PopMessage takes the first message and moves the others up.
LEMMA PopMoves ==
  ASSUME TypeOK, PopMessage
  PROVE  /\ 1 \in DOMAIN tcp /\ Head(tcp) = tcp[1]
         /\ Head(tcp) \in Units \cup {Hello}
         /\ tcp' \in Seq(Units \cup {Hello})
         /\ \A i \in DOMAIN tcp' :
              i \in Nat /\ i > 0 /\ i + 1 \in DOMAIN tcp /\ tcp'[i] = tcp[i + 1]
BY DEF TypeOK, PopMessage

\* SendTcp puts a message at the end and leaves the others alone.
LEMMA AppendKeeps ==
  ASSUME NEW S, NEW q \in Seq(S), NEW e \in S
  PROVE  /\ Append(q, e) \in Seq(S)
         /\ DOMAIN q = 1 .. Len(q) /\ Len(q) \in Nat
         /\ DOMAIN Append(q, e) = 1 .. Len(q) + 1
         /\ Append(q, e)[Len(q) + 1] = e
         /\ \A i \in DOMAIN q : Append(q, e)[i] = q[i]
OBVIOUS

-----------------------------------------------------------------------------
(* The invariant, action by action *)

\* The hello alone is on the way.
LEMMA InitInvariant == Init => IInv
<1> SUFFICES ASSUME Init PROVE IInv
  OBVIOUS
<1>1. /\ tcp \in Seq(Units \cup {Hello})
      /\ \A i \in DOMAIN tcp : i = 1 /\ tcp[i] = Hello
  BY DEF Init
<1>2. Hello.via = "tcp" /\ Hello.frame = 0 /\ NoFrame.frame = 0
  BY DEF Hello, NoFrame
<1>3. TypeOK
  <2>1. /\ usb \in BOOLEAN /\ writer = "take" /\ registration = "none"
        /\ frame_count = 0 /\ lastUdp = 0 /\ blocks = 0 /\ lastDecoded = 0
        /\ encoded = NoFrame /\ pendingAccessUnit = NoFrame /\ decoding = NoFrame
        /\ sent_reliable_keyframe = FALSE /\ decodeScheduled = FALSE
        /\ parameters = FALSE /\ session = FALSE
        /\ sent = {}
    BY DEF Init
  <2>2. /\ 0 \in 0 .. MaxFrame /\ 0 \in Nat
    BY DeliveryAssumption
  <2> QED BY <1>1, <2>1, <2>2, Zenon DEF TypeOK
<1>4. WriterInOrder /\ FirstUnit /\ PathsOverlapOnce
  BY <1>1, <1>2 DEF Init, WriterInOrder, FirstUnit, PathsOverlapOnce
<1>5. NothingAhead /\ OlderIsLate
  BY <1>1, <1>2 DEF Init, NothingAhead, Settled, OlderIsLate
<1> QED BY <1>3, <1>4, <1>5 DEF IInv

\* A new unit is newer than all others; it is on no path yet.
LEMMA TakeFrameStep == IInv /\ TakeFrame => IInv'
<1> SUFFICES ASSUME IInv, TakeFrame PROVE IInv'
  OBVIOUS
<1> USE DEF IInv
<1>1. /\ frame_count' = frame_count + 1 /\ frame_count \in Nat
      /\ UNCHANGED <<usb, sent_reliable_keyframe, tcp, sent, registration, lastUdp>>
      /\ UNCHANGED <<mailboxVars, decoderVars>>
  BY DEF TakeFrame, TypeOK
<1>2. \/ UNCHANGED <<writer, encoded>>
      \/ /\ encoded' \in Units /\ encoded'.frame = frame_count' /\ writer' = "udp"
         /\ encoded = NoFrame => encoded'.keyframe
  BY DeliveryAssumption DEF TakeFrame, TypeOK, Units
<1>3. TypeOK'
  <2>1. frame_count' \in 0 .. MaxFrame /\ writer' \in {"take", "udp", "tcp"}
    BY <1>1, <1>2, DeliveryAssumption DEF TakeFrame, TypeOK
  <2> QED BY <1>1, <1>2, <2>1 DEF TypeOK, mailboxVars, decoderVars
<1>4. \A i \in DOMAIN tcp : tcp[i].frame \in Nat
  BY UnitOrNone DEF TypeOK
<1>5. WriterInOrder'
  BY <1>1, <1>2, <1>4, UnitOrNone DEF TakeFrame, WriterInOrder
<1>6. FirstUnit'
  BY <1>1, <1>2, UnitOrNone DEF TakeFrame, FirstUnit
<1>7. PathsOverlapOnce'
  <2>1. \A u \in sent : u.frame \in Nat
    BY UnitOrNone DEF TypeOK
  <2> QED BY <1>1, <2>1 DEF PathsOverlapOnce
<1>8. NothingAhead'
  <2>1. lastDecoded \in Nat /\ decoding.frame \in Nat /\ pendingAccessUnit.frame \in Nat
    BY UnitOrNone DEF TypeOK
  <2> QED BY <1>1, <2>1 DEF NothingAhead, Settled, mailboxVars, decoderVars
<1>9. OlderIsLate'
  BY <1>1 DEF OlderIsLate, Late, mailboxVars, decoderVars
<1> QED BY <1>3, <1>5, <1>6, <1>7, <1>8, <1>9

\* The unit handed to the socket is the newest, and all that is on TCP or in
\* the decoder is as old.
LEMMA SendUdpStep == IInv /\ SendUdp => IInv'
<1> SUFFICES ASSUME IInv, SendUdp PROVE IInv'
  OBVIOUS
<1> USE DEF IInv
<1>1. /\ encoded \in Units /\ encoded.frame = frame_count /\ frame_count \in Nat
      /\ writer = "udp" /\ writer' = "tcp"
      /\ UNCHANGED <<usb, frame_count, encoded, sent_reliable_keyframe, tcp, registration>>
      /\ UNCHANGED <<lastUdp, mailboxVars, decoderVars>>
      /\ \A i \in DOMAIN tcp : tcp[i].frame < frame_count /\ tcp[i].frame \in Nat
  BY UnitOrNone DEF SendUdp, TypeOK, WriterInOrder
<1>2. \/ sent' = sent
      \/ sent' = sent \cup {encoded} /\ ~ usb /\ registration = "received"
  BY DEF SendUdp
<1>3. TypeOK'
  BY <1>1, <1>2 DEF TypeOK, mailboxVars, decoderVars
<1>4. WriterInOrder'
  BY <1>1 DEF WriterInOrder
<1>5. FirstUnit'
  BY <1>1, <1>2, UnitOrNone DEF FirstUnit
<1>6. PathsOverlapOnce'
  BY <1>1, <1>2 DEF PathsOverlapOnce
<1>7. NothingAhead'
  BY <1>1, <1>2 DEF NothingAhead, Settled, mailboxVars, decoderVars
<1>8. OlderIsLate'
  BY <1>1 DEF OlderIsLate, Late, mailboxVars, decoderVars
<1> QED BY <1>3, <1>4, <1>5, <1>6, <1>7, <1>8

\* A unit goes over TCP after datagrams were sent only as the first unit, of
\* which alone there are datagrams.
LEMMA SendTcpStep == IInv /\ SendTcp => IInv'
<1> SUFFICES ASSUME IInv, SendTcp PROVE IInv'
  OBVIOUS
<1> USE DEF IInv
<1> DEFINE unit == [encoded EXCEPT !.via = "tcp"]
<1>1. /\ encoded \in Units /\ encoded.frame = frame_count /\ frame_count \in Nat
      /\ writer = "tcp" /\ writer' = "take" /\ encoded # NoFrame
      /\ UNCHANGED <<usb, frame_count, encoded, sent, registration, lastUdp>>
      /\ UNCHANGED <<mailboxVars, decoderVars>>
      /\ \A i \in DOMAIN tcp : tcp[i].frame < frame_count /\ tcp[i].frame \in Nat
      /\ tcp \in Seq(Units \cup {Hello})
  BY UnitOrNone DEF SendTcp, TypeOK, WriterInOrder
<1>2. /\ unit \in Units /\ unit.via = "tcp" /\ unit.frame = frame_count
      /\ encoded.keyframe \in BOOLEAN
  BY <1>1 DEF Units
<1>3. CASE UNCHANGED <<tcp, sent_reliable_keyframe>> /\
           ~ (needs_tcp_video \/ needs_tcp_keyframe \/ needs_tcp_fallback)
  <2>1. TypeOK'
    BY <1>1, <1>3 DEF TypeOK, mailboxVars, decoderVars
  <2>2. WriterInOrder'
    BY <1>1, <1>3 DEF WriterInOrder
  <2>3. FirstUnit'
    BY <1>1, <1>3 DEF FirstUnit, needs_tcp_keyframe
  <2>4. PathsOverlapOnce'
    BY <1>1, <1>3 DEF PathsOverlapOnce
  <2>5. NothingAhead' /\ OlderIsLate'
    BY <1>1, <1>3 DEF NothingAhead, Settled, OlderIsLate, Late, mailboxVars, decoderVars
  <2> QED BY <2>1, <2>2, <2>3, <2>4, <2>5
<1>4. CASE /\ tcp' = Append(tcp, unit)
           /\ sent_reliable_keyframe' = (sent_reliable_keyframe \/ encoded.keyframe)
           /\ needs_tcp_video \/ needs_tcp_keyframe \/ needs_tcp_fallback
  <2>1. /\ tcp' \in Seq(Units \cup {Hello})
        /\ \A i \in DOMAIN tcp' :
             \/ i \in DOMAIN tcp /\ tcp'[i] = tcp[i]
             \/ i = Len(tcp) + 1 /\ tcp'[i] = unit
        /\ \A i \in DOMAIN tcp : i \in Nat /\ i <= Len(tcp)
        /\ Len(tcp) \in Nat
    BY <1>1, <1>2, <1>4, AppendKeeps
  <2> HIDE DEF unit
  <2>2. sent_reliable_keyframe' \in BOOLEAN
    BY <1>2, <1>4 DEF TypeOK
  <2>3. TypeOK'
    BY <1>1, <2>1, <2>2 DEF TypeOK, mailboxVars, decoderVars
  <2>4. WriterInOrder'
    <3>1. \A i, j \in DOMAIN tcp' : i < j => tcp'[i].frame < tcp'[j].frame
      BY <1>1, <1>2, <2>1 DEF WriterInOrder
    <3> QED BY <1>1, <1>2, <2>1, <3>1 DEF WriterInOrder
  <2>5. FirstUnit'
    BY <1>1, <1>2, <1>4, <2>1, UnitOrNone DEF FirstUnit
  <2>6. PathsOverlapOnce'
    <3>1. \A u \in sent : u.frame = frame_count \/ sent = {}
      BY <1>1, <1>4 DEF FirstUnit, needs_tcp_video, needs_tcp_keyframe, needs_tcp_fallback
    <3> QED BY <1>1, <1>2, <2>1, <3>1 DEF PathsOverlapOnce
  <2>7. NothingAhead'
    BY <1>1 DEF NothingAhead, Settled, mailboxVars, decoderVars
  <2>8. OlderIsLate'
    <3>1. lastDecoded <= frame_count /\ decoding.frame <= frame_count
          /\ pendingAccessUnit.frame <= frame_count
      BY DEF NothingAhead, Settled
    <3>2. lastDecoded \in Nat /\ decoding.frame \in Nat /\ pendingAccessUnit.frame \in Nat
      BY UnitOrNone DEF TypeOK
    <3> QED BY <1>1, <1>2, <2>1, <3>1, <3>2 DEF OlderIsLate, Late, mailboxVars, decoderVars
  <2> QED BY <2>3, <2>4, <2>5, <2>6, <2>7, <2>8
<1> QED BY <1>3, <1>4 DEF SendTcp

\* TMREG1 only allows what comes.
LEMMA RegisterStep == IInv /\ Register => IInv'
BY DEF IInv, Register, TypeOK, WriterInOrder, FirstUnit, PathsOverlapOnce, NothingAhead,
       Settled, OlderIsLate, Late, writerVars, mailboxVars, decoderVars

\* The hello leaves the stream.
LEMMA HandleHelloStep == IInv /\ HandleHello => IInv'
<1> SUFFICES ASSUME IInv, HandleHello PROVE IInv'
  OBVIOUS
<1> USE DEF IInv
<1>1. /\ tcp' \in Seq(Units \cup {Hello})
      /\ \A i \in DOMAIN tcp' :
           i \in Nat /\ i > 0 /\ i + 1 \in DOMAIN tcp /\ tcp'[i] = tcp[i + 1]
  BY PopMoves DEF HandleHello
<1>2. /\ UNCHANGED <<usb, writerVars, sent, lastUdp, mailboxVars, decoderVars>>
      /\ registration' = IF usb THEN registration ELSE "sent"
      /\ tcp # <<>> /\ Head(tcp) = Hello
  BY DEF HandleHello, PopMessage
<1>3. TypeOK'
  BY <1>1, <1>2 DEF TypeOK, writerVars, mailboxVars, decoderVars
<1>4. WriterInOrder'
  BY <1>1, <1>2 DEF WriterInOrder, writerVars
<1>5. FirstUnit'
  <2>1. 1 \in DOMAIN tcp /\ tcp[1] = Hello /\ registration = "none"
    BY <1>2, PopMoves DEF HandleHello, FirstUnit
  <2>2. \A i \in DOMAIN tcp' : tcp'[i] # Hello
    BY <1>1, <2>1, UnitOrNone DEF WriterInOrder
  <2> QED BY <1>2, <2>1, <2>2 DEF FirstUnit, writerVars
<1>6. PathsOverlapOnce'
  BY <1>1, <1>2 DEF PathsOverlapOnce, writerVars
<1>7. NothingAhead' /\ OlderIsLate'
  BY <1>1, <1>2 DEF NothingAhead, Settled, OlderIsLate, Late, writerVars, mailboxVars, decoderVars
<1> QED BY <1>3, <1>4, <1>5, <1>6, <1>7

\* The next unit on TCP enters the mailbox: those behind it are newer.
LEMMA HandleVideoStep == IInv /\ HandleVideo => IInv'
<1> SUFFICES ASSUME IInv, HandleVideo PROVE IInv'
  OBVIOUS
<1> USE DEF IInv
<1> DEFINE unit == tcp[1]
<1>1. /\ tcp' \in Seq(Units \cup {Hello})
      /\ \A i \in DOMAIN tcp' :
           i \in Nat /\ i > 0 /\ i + 1 \in DOMAIN tcp /\ tcp'[i] = tcp[i + 1]
      /\ 1 \in DOMAIN tcp /\ unit = Head(tcp) /\ unit \in Units /\ unit # Hello
  BY PopMoves DEF HandleVideo
<1> HIDE DEF unit
<1>2. /\ UNCHANGED <<usb, writerVars, sent, registration, lastUdp, decoderVars>>
      /\ pendingAccessUnit' = unit /\ decodeScheduled' = TRUE
      /\ blocks' \in Nat
  BY <1>1 DEF HandleVideo, Decode, TypeOK
<1>3. TypeOK'
  BY <1>1, <1>2 DEF TypeOK, writerVars, decoderVars
<1>4. WriterInOrder'
  BY <1>1, <1>2 DEF WriterInOrder, writerVars
<1>5. FirstUnit'
  BY <1>1, <1>2 DEF FirstUnit, writerVars
<1>6. PathsOverlapOnce'
  BY <1>1, <1>2 DEF PathsOverlapOnce, writerVars
<1>7. /\ unit.via = "tcp" /\ unit.frame \in Nat /\ unit.frame <= frame_count
      /\ \A u \in sent : unit.frame <= u.frame
      /\ \A i \in DOMAIN tcp' : unit.frame < tcp'[i].frame /\ tcp'[i].frame \in Nat
  <2>1. \A i \in DOMAIN tcp : tcp[i].frame \in Nat
    BY UnitOrNone DEF TypeOK
  <2> QED BY <1>1, <2>1 DEF WriterInOrder, PathsOverlapOnce, unit
<1>8. NothingAhead'
  BY <1>2, <1>7 DEF NothingAhead, Settled, writerVars, decoderVars
<1>9. OlderIsLate'
  <2>1. (unit.frame < lastDecoded \/ unit.frame < decoding.frame) => Late(unit)
    BY <1>1 DEF OlderIsLate, unit
  <2>2. \A i \in DOMAIN tcp' :
          tcp'[i] # Hello /\ (tcp'[i].frame < lastDecoded \/ tcp'[i].frame < decoding.frame)
            => Late(tcp'[i])
    BY <1>1 DEF OlderIsLate
  <2> QED BY <1>2, <1>7, <2>1, <2>2 DEF OlderIsLate, Late, decoderVars
<1> QED BY <1>3, <1>4, <1>5, <1>6, <1>8, <1>9

\* A datagram's unit enters the mailbox: nothing in the decoder is newer, and
\* what is left on TCP is late.
LEMMA HandleDatagramStep ==
  ASSUME IInv, NEW unit \in sent, HandleDatagram(unit)
  PROVE  IInv'
<1> USE DEF IInv
<1>1. /\ unit.frame > lastUdp /\ lastUdp' = unit.frame
      /\ pendingAccessUnit' = unit /\ decodeScheduled' = TRUE /\ blocks' \in Nat
      /\ UNCHANGED <<usb, writerVars, tcp, sent, registration, decoderVars>>
  BY DEF HandleDatagram, Decode, TypeOK
<1>2. /\ unit \in Units /\ unit.frame \in 1 .. MaxFrame /\ MaxFrame \in Nat
      /\ lastUdp \in Nat /\ frame_count \in Nat
      /\ lastDecoded \in Nat /\ decoding.frame \in Nat /\ pendingAccessUnit.frame \in Nat
      /\ ~ usb
      /\ \A u \in sent : u.frame \in Nat
      /\ \A i \in DOMAIN tcp : tcp[i].frame \in Nat
  BY UnitOrNone, DeliveryAssumption DEF TypeOK, FirstUnit
<1>3. TypeOK'
  BY <1>1, <1>2 DEF TypeOK, writerVars, decoderVars
<1>4. WriterInOrder' /\ FirstUnit' /\ PathsOverlapOnce'
  BY <1>1 DEF WriterInOrder, FirstUnit, PathsOverlapOnce, writerVars
<1>5. unit.frame <= frame_count
  BY DEF PathsOverlapOnce
<1>6. lastDecoded <= unit.frame /\ decoding.frame <= unit.frame
  BY <1>1, <1>2 DEF NothingAhead, Settled
<1>7. NothingAhead'
  BY <1>1, <1>2, <1>5 DEF NothingAhead, Settled, writerVars, decoderVars
<1>8. OlderIsLate'
  <2>1. decoding # NoFrame /\ decoding.frame < lastDecoded => Late(decoding)'
    BY <1>1, <1>2 DEF OlderIsLate, Late, decoderVars
  <2>2. \A i \in DOMAIN tcp : tcp[i].frame < unit.frame => Late(tcp[i])'
    BY <1>1, <1>2 DEF WriterInOrder, Late
  <2> QED BY <1>1, <1>2, <1>6, <2>1, <2>2 DEF OlderIsLate, Late, decoderVars
<1> QED BY <1>3, <1>4, <1>7, <1>8

\* The unit in the mailbox moves on to decodeOne.
LEMMA TakePendingStep == IInv /\ TakePending => IInv'
<1> SUFFICES ASSUME IInv, TakePending PROVE IInv'
  OBVIOUS
<1> USE DEF IInv
<1>1. /\ decoding = NoFrame /\ decoding' = pendingAccessUnit
      /\ pendingAccessUnit' = NoFrame
      /\ decodeScheduled' \in BOOLEAN /\ blocks' \in Nat
      /\ UNCHANGED <<usb, writerVars, tcp, sent, registration, lastUdp,
                     parameters, session, lastDecoded>>
  <2>1. decodeScheduled' \in BOOLEAN
    BY Zenon DEF TakePending, TypeOK
  <2>2. blocks' \in Nat
    BY DEF TakePending, TypeOK
  <2> QED BY <2>1, <2>2, Zenon DEF TakePending
<1>2. /\ NoFrame.frame = 0 /\ \A i \in DOMAIN tcp : tcp[i].frame \in Nat
      /\ frame_count \in Nat /\ lastUdp \in Nat
  BY UnitOrNone DEF TypeOK
<1>3. TypeOK'
  BY <1>1 DEF TypeOK, writerVars
<1>4. WriterInOrder' /\ FirstUnit' /\ PathsOverlapOnce'
  BY <1>1 DEF WriterInOrder, FirstUnit, PathsOverlapOnce, writerVars
<1>5. NothingAhead'
  BY <1>1, <1>2 DEF NothingAhead, Settled, writerVars
<1>6. OlderIsLate'
  BY <1>1, <1>2 DEF OlderIsLate, Late
<1> QED BY <1>3, <1>4, <1>5, <1>6

\* The unit is decoded, or dropped.
LEMMA DecodeOneStep == IInv /\ DecodeOne => IInv'
<1> SUFFICES ASSUME IInv, DecodeOne PROVE IInv'
  OBVIOUS
<1> USE DEF IInv
<1>1. /\ decoding # NoFrame /\ decoding' = NoFrame
      /\ parameters' \in BOOLEAN /\ session' \in BOOLEAN
      /\ lastDecoded' = decoding.frame \/ lastDecoded' = lastDecoded
      /\ UNCHANGED <<usb, writerVars, tcp, sent, registration, lastUdp, mailboxVars>>
  <2>1. decoding \in Units
    BY DEF DecodeOne, TypeOK
  <2> QED BY <2>1 DEF DecodeOne, TypeOK, Units
<1>2. /\ NoFrame.frame = 0 /\ \A i \in DOMAIN tcp : tcp[i].frame \in Nat
      /\ pendingAccessUnit.frame \in Nat /\ decoding.frame \in 0 .. MaxFrame
      /\ lastUdp \in Nat
  BY UnitOrNone DEF TypeOK
<1>3. TypeOK'
  BY <1>1, <1>2 DEF TypeOK, writerVars, mailboxVars
<1>4. WriterInOrder' /\ FirstUnit' /\ PathsOverlapOnce'
  BY <1>1 DEF WriterInOrder, FirstUnit, PathsOverlapOnce, writerVars
<1>5. NothingAhead'
  <2>1. Settled(0)
    BY UnitOrNone DEF Settled, TypeOK
  <2> QED BY <1>1, <1>2, <2>1 DEF NothingAhead, Settled, writerVars, mailboxVars
<1>6. OlderIsLate'
  BY <1>1, <1>2 DEF OlderIsLate, Late, mailboxVars
<1> QED BY <1>3, <1>4, <1>5, <1>6

\* The invariant holds throughout.
LEMMA Invariant == Spec => []IInv
<1>1. IInv /\ UNCHANGED vars => IInv'
  BY DEF IInv, vars, TypeOK, WriterInOrder, FirstUnit, PathsOverlapOnce, NothingAhead,
         Settled, OlderIsLate, Late, writerVars, mailboxVars, decoderVars
<1>2. IInv /\ [Next]_vars => IInv'
  BY <1>1, TakeFrameStep, SendUdpStep, SendTcpStep, RegisterStep, HandleHelloStep,
     HandleVideoStep, HandleDatagramStep, TakePendingStep, DecodeOneStep DEF Next
<1> QED BY InitInvariant, <1>2, PTL DEF Spec

-----------------------------------------------------------------------------
(* The theorems *)

\* Every unit on every path bears the number of a counted frame.
THEOREM TypeCorrect == Spec => []TypeOK
<1>1. IInv => TypeOK
  BY DEF IInv
<1> QED BY Invariant, <1>1, PTL

\* No order of decode and of the block on the decoder queue loses a wake-up or
\* starts a second block: a waiting unit has exactly one block coming for it.
THEOREM MailboxAlwaysServed == Spec => []MailboxServed
<1>1. Init => MailboxServed
  BY DEF Init, MailboxServed
<1>2. TypeOK /\ MailboxServed /\ [Next]_vars => MailboxServed'
  <2> SUFFICES ASSUME TypeOK, MailboxServed, [Next]_vars PROVE MailboxServed'
    OBVIOUS
  <2>1. CASE TakeFrame \/ SendUdp \/ SendTcp \/ Register \/ HandleHello \/ UNCHANGED vars
    BY <2>1 DEF TakeFrame, SendUdp, SendTcp, Register, HandleHello, vars, MailboxServed,
                mailboxVars, decoderVars
  <2>2. ASSUME NEW unit, Decode(unit), UNCHANGED decoderVars PROVE MailboxServed'
    BY <2>2 DEF Decode, MailboxServed, decoderVars
  <2>3. CASE HandleVideo
    BY <2>2, <2>3 DEF HandleVideo
  <2>4. ASSUME NEW unit \in sent, HandleDatagram(unit) PROVE MailboxServed'
    BY <2>2, <2>4 DEF HandleDatagram
  <2>5. CASE TakePending
    BY <2>5 DEF TakePending, MailboxServed, TypeOK
  <2>6. CASE DecodeOne
    BY <2>6 DEF DecodeOne, MailboxServed, mailboxVars
  <2> QED BY <2>1, <2>3, <2>4, <2>5, <2>6 DEF Next
<1> QED BY TypeCorrect, <1>1, <1>2, PTL DEF Spec

\* On USB and over UDP the picture never goes back; what brings an older one
\* back is a startup unit that came over TCP while datagrams already arrived.
THEOREM OnlyStartupGoesBack == Spec => BackwardsOnlyByStartupTcp
<1>1. IInv /\ [Next]_vars =>
        (lastDecoded' < lastDecoded => ~ usb /\ decoding.via = "tcp" /\ lastUdp > decoding.frame)
  <2> SUFFICES ASSUME IInv, [Next]_vars, lastDecoded' < lastDecoded
               PROVE  Late(decoding)
    BY DEF Late
  <2>1. lastDecoded \in Nat
    BY DEF IInv, TypeOK
  <2>2. DecodeOne
    BY <2>1 DEF Next, TakeFrame, SendUdp, SendTcp, Register, HandleHello, HandleVideo,
                HandleDatagram, TakePending, vars, decoderVars
  <2>3. decoding # NoFrame /\ lastDecoded' = decoding.frame
    BY <2>1, <2>2 DEF DecodeOne
  <2> QED BY <2>3 DEF IInv, OlderIsLate
<1> QED BY Invariant, <1>1, PTL DEF Spec, BackwardsOnlyByStartupTcp
=============================================================================
