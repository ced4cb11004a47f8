------------------------------ MODULE Bitstream ------------------------------
(***************************************************************************)
(* The byte formats of the wire: messages with a length prefix             *)
(* (protocol.rs, StreamProtocol.swift) and the two forms of an H.264       *)
(* access unit, Annex-B with start codes and AVC with length prefixes      *)
(* (to_annex_b, H264NAL.splitAnnexB).  A byte is a number below Base, the  *)
(* code's 256; lengths are four bytes, as in the code, so that what a      *)
(* length looks like among the bytes around it is kept.                    *)
(***************************************************************************)
EXTENDS Integers, Sequences, SequencesExt

CONSTANTS
  Base,       \* values of a byte (code: 256)
  MaxMessage  \* longest message a receiver accepts (code: 16 MiB)

\* NAL unit types are bytes of their own here: 1, 5, 6, 7 and 8 occur.
ASSUME BitstreamAssumption == Base \in Nat /\ Base > 8 /\ MaxMessage \in Nat \ {0}

Bytes == 0 .. Base - 1

\* Mutant of BigEndian: the last byte holds all of the number.
BigEndianUnreduced(n) == <<0, 0, (n \div Base) % Base, n>>

\* u32::to_be_bytes and to_le_bytes, and back.
BigEndian(n) == <<(n \div (Base * Base * Base)) % Base, (n \div (Base * Base)) % Base,
                  (n \div Base) % Base, n % Base>>
LittleEndian(n) == Reverse(BigEndian(n))
FromBigEndian(b) == ((b[1] * Base + b[2]) * Base + b[3]) * Base + b[4]
FromLittleEndian(b) == FromBigEndian(Reverse(b))

\* Four bytes hold the number (in the code, it is below 2^32).
InFourBytes(n) == n < Base * Base * Base * Base

-----------------------------------------------------------------------------
(* Messages *)

MSG_HELLO == 0
MSG_VIDEO == 1
MSG_INFO  == 2
MSG_TOUCH == 3
MSG_PING  == 4

\* [u32 length][u8 type][payload], the length counting the type byte.
write_message(type, payload) == LittleEndian(Len(payload) + 1) \o <<type>> \o payload

\* Mutant of popMessage: the type byte is not counted.
popMessageShort(buffer) ==
  IF Len(buffer) < 5
  THEN [kind |-> "wait"]
  ELSE LET len == FromLittleEndian(SubSeq(buffer, 1, 4))
       IN CASE len < 2 \/ len > MaxMessage -> [kind |-> "bad"]
            [] len \in 2 .. MaxMessage /\ Len(buffer) < len + 3 -> [kind |-> "wait"]
            [] OTHER -> [kind |-> "message", type |-> buffer[5],
                         payload |-> SubSeq(buffer, 6, len + 3),
                         rest |-> SubSeq(buffer, len + 4, Len(buffer))]

\* StreamProtocol.popMessage: the first whole message of the buffer, "wait"
\* without one, "bad" when the length or the type is not one of the protocol's.
popMessage(buffer) ==
  IF Len(buffer) < 5
  THEN [kind |-> "wait"]
  ELSE LET len == FromLittleEndian(SubSeq(buffer, 1, 4))
           body == SubSeq(buffer, 5, len + 4)
       IN CASE len < 1 \/ len > MaxMessage -> [kind |-> "bad"]
            [] len \in 1 .. MaxMessage /\ Len(buffer) < len + 4 -> [kind |-> "wait"]
            [] OTHER ->
                 IF Head(body) \in MSG_HELLO .. MSG_PING
                 THEN [kind |-> "message", type |-> Head(body), payload |-> Tail(body),
                       rest |-> SubSeq(buffer, len + 5, Len(buffer))]
                 ELSE [kind |-> "bad"]

make_hello(port) == write_message(MSG_HELLO, SubSeq(LittleEndian(port), 1, 2))

\* [u8 keyframe][u32 width][u32 height][h264].
make_video_payload(keyframe, width, height, h264) ==
  <<IF keyframe THEN 1 ELSE 0>> \o LittleEndian(width) \o LittleEndian(height) \o h264

\* Mutant of parseVideoPayload: the header is taken to end a byte earlier.
parseVideoPayloadShortHeader(payload) ==
  IF Len(payload) < 9 THEN <<>> ELSE <<SubSeq(payload, 9, Len(payload))>>

\* What the client reads of it; a payload of less than nine bytes is dropped.
parseVideoPayload(payload) ==
  IF Len(payload) < 9 THEN <<>> ELSE <<SubSeq(payload, 10, Len(payload))>>

\* makeTouchMessage: a count, then ten bytes per event.
makeTouchPayload(events) ==
  <<Len(events)>> \o FlattenSeq([i \in DOMAIN events |->
     <<events[i].id, IF events[i].active THEN 1 ELSE 0>>
       \o LittleEndian(events[i].x) \o LittleEndian(events[i].y)])

\* decode_touch: the events announced by the count, or none when bytes are
\* missing.
decode_touch(payload) ==
  IF payload = <<>> \/ Len(payload) < 1 + Head(payload) * 10
  THEN <<>>
  ELSE << [i \in 1 .. Head(payload) |->
            LET base == 2 + (i - 1) * 10
            IN [id |-> payload[base], active |-> payload[base + 1] # 0,
                x |-> FromLittleEndian(SubSeq(payload, base + 2, base + 5)),
                y |-> FromLittleEndian(SubSeq(payload, base + 6, base + 9))]] >>

-----------------------------------------------------------------------------
(* Access units *)

\* Length of the start code at position i of the bytes, 0 when there is none.
StartCode(bytes, i) ==
  LET at(code) == /\ i + Len(code) - 1 <= Len(bytes)
                  /\ SubSeq(bytes, i, i + Len(code) - 1) = code
  IN CASE at(<<0, 0, 0, 1>>) -> 4
       [] at(<<0, 0, 1>>) -> 3
       [] OTHER -> 0

HasStartCode(bytes) ==
  \E i \in 1 .. Len(bytes) - 2 : SubSeq(bytes, i, i + 2) = <<0, 0, 1>>

\* What an encoder's sample looks like: units behind start codes of three or
\* four bytes, or behind their lengths.
Serialize(form, nals) ==
  FlattenSeq([i \in DOMAIN nals |->
    (CASE form = "annexb4" -> <<0, 0, 0, 1>>
       [] form = "annexb3" -> <<0, 0, 1>>
       [] form = "avc" -> BigEndian(Len(nals[i]))) \o nals[i]])

\* to_annex_b: bytes with a start code in them are left alone, and so are bytes
\* that are not a sequence of length-prefixed units to the last one.
to_annex_b(data) ==
  LET n == Len(data)
      length(pos) == FromBigEndian(SubSeq(data, pos + 1, pos + 4))
      converted[pos \in 0 .. n] ==
        IF pos = n
        THEN <<[bytes |-> <<>>]>>
        ELSE LET end == pos + 4 + length(pos)
             IN IF pos + 4 > n \/ length(pos) = 0 \/ end > n \/ converted[end] = <<>>
                THEN <<>>
                ELSE <<[bytes |-> <<0, 0, 0, 1>> \o SubSeq(data, pos + 5, end)
                                     \o converted[end][1].bytes]>>
  IN IF HasStartCode(data) \/ converted[0] = <<>> THEN data ELSE converted[0][1].bytes

\* H264NAL.splitAnnexB: the bytes from each start code to the next.  An empty
\* unit is kept unless it is the last.  scan[i] is what the loop finds from
\* index i on: where the unit that goes on there ends, and those behind it.
splitAnnexB(data) ==
  LET n == Len(data)
      scan[i \in 0 .. n] ==
        IF i = n
        THEN [end |-> n, units |-> <<>>]
        ELSE LET code == StartCode(data, i + 1)
                 start == i + code
                 behind == scan[start]
             IN IF code = 0
                THEN scan[i + 1]
                ELSE [end |-> i,
                      units |-> IF start = n THEN <<>>
                                ELSE <<SubSeq(data, start + 1, behind.end)>> \o behind.units]
  IN scan[0].units
=============================================================================
