-------------------------- MODULE MCVideoReassembly --------------------------
(***************************************************************************)
(* The instance for TLC: six frames around the wrap of the frame ids (ids  *)
(* 12 to 15, then 0 and 1), of one, two or three datagrams.                *)
(***************************************************************************)
EXTENDS VideoReassembly

MCChunks == [n \in Frames |-> IF n = First + 1 THEN 3
                              ELSE IF n = First + 2 THEN 1 ELSE 2]
=============================================================================
