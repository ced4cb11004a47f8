--------------------------- MODULE VideoReassembly ---------------------------
(***************************************************************************)
(* The UDP video path: the writer loop of stream.rs numbers the captured   *)
(* frames, VideoUdp::send_frame cuts each encoded one into datagrams, the  *)
(* network loses, repeats and reorders datagrams, and                      *)
(* NetworkClient.handleVideoDatagram puts access units together again.     *)
(*                                                                         *)
(* A frame is known by its number here and by that number modulo 2^32 on   *)
(* the wire; Mod stands for 2^32.  First > 1 starts the behaviour close to *)
(* the wrap, in the state of a client that registered late.  The bytes of  *)
(* chunk i of frame n are the pair <<n, i>>; the width, height and         *)
(* keyframe fields repeated in every datagram are left out.                *)
(***************************************************************************)
EXTENDS Integers, FiniteSets, Functions

CONSTANTS Mod,       \* the number of u32 values, scaled down
          First,     \* the number of the first frame of the behaviour
          MaxFrame,  \* bound: the number of the last frame
          Chunks     \* Chunks[n]: the datagrams frame n is cut into

ASSUME ReassemblyAssumption ==
  /\ Mod \in Nat \ {0} /\ Mod % 2 = 0
  /\ First \in Nat \ {0}
  /\ MaxFrame \in Nat
  /\ First <= MaxFrame
  /\ Chunks \in [First .. MaxFrame -> Nat \ {0}]

\* The comparison of frame ids is meant for less than 2^31 frames in flight
\* (NetworkClient.swift:289-290); a behaviour is bounded to that many.
ASSUME HalfRange == MaxFrame - First + 1 < Mod \div 2

VARIABLES
  frame_count,              \* writer loop: frames taken from the capture
  sent,                     \* the frames whose datagrams were sent
  videoParts,               \* id -> total announced and parts received
  lastDeliveredVideoFrame,  \* id of the access unit last decoded, or None
  screen,                   \* the access unit last given to the decoder
  got                       \* history: the datagrams the client has handled

clientVars == <<videoParts, lastDeliveredVideoFrame, screen>>
vars == <<frame_count, sent, videoParts, lastDeliveredVideoFrame, screen, got>>

None == -1
NoUnit == <<>>

Frames == First .. MaxFrame
\* Mutants of FrameId: a counter that does not wrap, and an id of which only
\* the low bits are read.
FrameIdUnwrapped(n) == n
FrameIdTruncated(n) == n % (Mod \div 4)

FrameId(n) == n % Mod
Ids == 0 .. Mod - 1

\* Mutant of isNewerVideoFrame: any other id counts as newer.
isOtherVideoFrame(candidate, previous) == candidate # previous

\* `Int32(bitPattern: candidate &- previous) > 0`
isNewerVideoFrame(candidate, previous) ==
  LET d == (candidate - previous) % Mod IN d > 0 /\ d < Mod \div 2

\* The guard at the head of handleVideoDatagram.
Stale(id) ==
  /\ lastDeliveredVideoFrame # None
  /\ ~ isNewerVideoFrame(id, lastDeliveredVideoFrame)

\* videoParts[id], or the empty entry that announces `total` chunks.
EntryOf(id, total) ==
  IF id \in DOMAIN videoParts THEN videoParts[id]
  ELSE [total |-> total, parts |-> <<>>]

\* Mutant of Stored: the chunk goes behind those that came before it.
StoredAsItCame(entry, index, bytes) ==
  LET next == Cardinality(DOMAIN entry.parts) IN
  [i \in DOMAIN entry.parts \cup {next} |->
     IF i = next THEN bytes ELSE entry.parts[i]]

\* The parts of the entry once the chunk is stored at its index.
Stored(entry, index, bytes) ==
  [i \in DOMAIN entry.parts \cup {index} |->
     IF i = index THEN bytes ELSE entry.parts[i]]

\* Mutant of OldestKept: only the newest frame is kept.
OldestKeptIsNewest(id) == id

\* The oldest id that survives the clean-up after an incomplete frame.
OldestKept(id) == IF id > 2 THEN id - 2 ELSE 0

\* videoParts with the entry of one id removed.
Without(id) == Restrict(videoParts, DOMAIN videoParts \ {id})

\* The ids the clean-up keeps.
Kept(id) == {k \in DOMAIN videoParts \cup {id} : k >= OldestKept(id)}

-----------------------------------------------------------------------------
Init ==
  /\ frame_count = First - 1
  /\ sent = {}
  /\ videoParts = <<>>
  /\ lastDeliveredVideoFrame = None
  /\ screen = NoUnit
  /\ got = {}

\* The writer encodes the next captured frame and cuts it into datagrams.
SendFrame ==
  /\ frame_count < MaxFrame
  /\ frame_count' = frame_count + 1
  /\ sent' = sent \cup {frame_count + 1}
  /\ UNCHANGED <<clientVars, got>>

\* The frame is counted but not sent: the encoder returned no output yet, or
\* no UDP client is registered under the peer's address.
SkipFrame ==
  /\ frame_count < MaxFrame
  /\ frame_count' = frame_count + 1
  /\ UNCHANGED <<sent, clientVars, got>>

\* A datagram that is not newer than the frame last decoded drops what was
\* kept of its frame; one that announces another total changes nothing.
IgnoreChunk(n, i) ==
  LET id == FrameId(n) IN
  /\ Stale(id) \/ EntryOf(id, Chunks[n]).total # Chunks[n]
  /\ videoParts' = IF Stale(id) THEN Without(id)
                                ELSE videoParts
  /\ got' = got \cup {<<n, i>>}
  /\ UNCHANGED <<frame_count, sent, lastDeliveredVideoFrame, screen>>

\* The datagram does not complete its frame: it is stored, and the entries
\* more than two ids older are dropped.
KeepChunk(n, i) ==
  LET id    == FrameId(n)
      entry == EntryOf(id, Chunks[n])
      parts == Stored(entry, i, <<n, i>>)
  IN
  /\ ~ Stale(id)
  /\ entry.total = Chunks[n]
  /\ Cardinality(DOMAIN parts) # entry.total
  /\ videoParts' = [k \in Kept(id) |->
                      IF k = id THEN [entry EXCEPT !.parts = parts]
                                ELSE videoParts[k]]
  /\ got' = got \cup {<<n, i>>}
  /\ UNCHANGED <<frame_count, sent, lastDeliveredVideoFrame, screen>>

\* The datagram completes its frame: the access unit is put together, the
\* entry dropped and the unit given to the decoder.  The code compares the id
\* with the last delivered one a second time; nothing ran in between.
DeliverFrame(n, i) ==
  LET id    == FrameId(n)
      entry == EntryOf(id, Chunks[n])
      parts == Stored(entry, i, <<n, i>>)
  IN
  /\ ~ Stale(id)
  /\ entry.total = Chunks[n]
  /\ Cardinality(DOMAIN parts) = entry.total
  /\ screen' = [j \in 0 .. entry.total - 1 |-> parts[j]]
  /\ videoParts' = Without(id)
  /\ lastDeliveredVideoFrame' = id
  /\ got' = got \cup {<<n, i>>}
  /\ UNCHANGED <<frame_count, sent>>

\* The network hands over any datagram of any frame sent, in any order and any
\* number of times; a datagram never handed over is lost.
Receive ==
  \E n \in sent : \E i \in 0 .. Chunks[n] - 1 :
    \/ IgnoreChunk(n, i)
    \/ KeepChunk(n, i)
    \/ DeliverFrame(n, i)

Next == SendFrame \/ SkipFrame \/ Receive

Spec == Init /\ [][Next]_vars

-----------------------------------------------------------------------------
(* Properties *)

AccessUnit(n) == [i \in 0 .. Chunks[n] - 1 |-> <<n, i>>]

\* Type correctness: what is kept is kept under u32 ids, what is remembered is
\* one, and the client handles no datagram that was not sent.
TypeOK ==
  /\ frame_count \in First - 1 .. MaxFrame
  /\ sent \subseteq First .. frame_count
  /\ DOMAIN videoParts \subseteq Ids
  /\ lastDeliveredVideoFrame \in Ids \cup {None}
  /\ got \subseteq {d \in Frames \X Nat : d[1] \in sent /\ d[2] < Chunks[d[1]]}

\* The number of the frame on the screen; First - 1 before the first one.
ShownFrame == IF screen = NoUnit THEN First - 1 ELSE screen[0][1]

\* No torn picture: whatever was lost, repeated or reordered, the unit given to
\* the decoder is every chunk of one sent frame in order, and the id remembered
\* for the staleness test is the id of that same frame.
ScreenIntact ==
  IF screen = NoUnit THEN lastDeliveredVideoFrame = None
  ELSE /\ ShownFrame \in sent
       /\ screen = AccessUnit(ShownFrame)
       /\ lastDeliveredVideoFrame = FrameId(ShownFrame)

\* The entry of frame n of which the chunks with an index in I have arrived.
Partial(n, I) == [total |-> Chunks[n], parts |-> [i \in I |-> <<n, i>>]]

\* What is kept under an id comes from one sent frame only, at the right
\* indices, and is never complete: a complete frame does not linger.
PartsIntact ==
  \A k \in DOMAIN videoParts :
    \E n \in sent : \E I \in SUBSET (0 .. Chunks[n] - 1) :
      /\ FrameId(n) = k
      /\ I # 0 .. Chunks[n] - 1
      /\ videoParts[k] = Partial(n, I)

AllChunksHandled(n) == \A i \in 0 .. Chunks[n] - 1 : <<n, i>> \in got

\* "Lost chunks discard only one frame" (udp.rs:1): until the ids wrap, a frame
\* of which every chunk arrived has been shown or overtaken by a newer one,
\* unless a datagram came in that is three or more frames ahead of it.
LossDiscardsOneFrame ==
  \A n \in sent :
    /\ AllChunksHandled(n)
    /\ n \div Mod = First \div Mod
    /\ \A d \in got : d[1] < n + 3
    => ShownFrame >= n

\* Why that holds: the chunks of such a frame that arrived are still kept.
ChunksKept ==
  \A d \in got :
    /\ d[1] > ShownFrame
    /\ d[1] \div Mod = First \div Mod
    /\ \A e \in got : e[1] < d[1] + 3
    => /\ FrameId(d[1]) \in DOMAIN videoParts
       /\ d[2] \in DOMAIN videoParts[FrameId(d[1])].parts

\* The abstract channel, with the number of the frame on the screen for `shown`.
Channel == INSTANCE FrameChannel WITH picture <- screen, shown <- ShownFrame

\* Reassembly implements the channel: a delayed or repeated datagram never
\* brings an older frame back, also across the wrap of the u32 frame ids.
ImplementsChannel == Channel!ChannelSpec
=============================================================================
