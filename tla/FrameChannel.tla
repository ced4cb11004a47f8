---------------------------- MODULE FrameChannel ----------------------------
(***************************************************************************)
(* What the UDP video path promises to the picture on the iPad: an access  *)
(* unit is shown whole or not at all, a frame is shown only if the server  *)
(* sent it, and a frame is never shown after a newer one.  Any frame may   *)
(* be lost; nothing is promised about which frames are shown.              *)
(*                                                                         *)
(* VideoReassembly implements this specification: the chunks, their        *)
(* reassembly and the wrapping u32 frame ids are hidden behind it.         *)
(***************************************************************************)
EXTENDS Integers

CONSTANTS First,     \* the number of the first frame of the behaviour
          MaxFrame,  \* the number of the last one
          Chunks     \* Chunks[n]: in how many datagrams frame n is sent

\* The chunks of frame n in order: what the encoder returned, as `send_frame`
\* cuts it up.  A chunk is identified by its frame and its index.
AccessUnit(n) == [i \in 0 .. Chunks[n] - 1 |-> <<n, i>>]

NoUnit == <<>>

VARIABLES frame_count,  \* how many frames the writer has taken from the capture
          sent,         \* the frames handed to the UDP socket
          picture,      \* the access unit last given to the decoder
          shown         \* its frame number; First - 1 while there is none

channelVars == <<frame_count, sent, picture, shown>>

ChannelInit ==
  /\ frame_count = First - 1
  /\ sent = {}
  /\ picture = NoUnit
  /\ shown = First - 1

\* The writer takes the next frame, and sends it or drops it.
ChannelTake ==
  /\ frame_count < MaxFrame
  /\ frame_count' = frame_count + 1
  /\ sent' \in {sent, sent \cup {frame_count + 1}}
  /\ UNCHANGED <<picture, shown>>

\* A frame newer than the one on the screen replaces it, whole.
ChannelShow ==
  /\ \E n \in sent :
       /\ n > shown
       /\ shown' = n
       /\ picture' = AccessUnit(n)
  /\ UNCHANGED <<frame_count, sent>>

ChannelNext == ChannelTake \/ ChannelShow

ChannelSpec == ChannelInit /\ [][ChannelNext]_channelVars
=============================================================================
