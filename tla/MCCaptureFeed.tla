---------------------------- MODULE MCCaptureFeed ----------------------------
(* A feed small enough for TLC: a monitor, the same one turned, and an odd size. *)
EXTENDS CaptureFeed

MCModes == {[width |-> 4, height |-> 2], [width |-> 2, height |-> 4],
            [width |-> 5, height |-> 4]}
=============================================================================
