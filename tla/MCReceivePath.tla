---------------------------- MODULE MCReceivePath ----------------------------
(* A receive path small enough for TLC. *)
EXTENDS ReceivePath

\* Keyframes that differ in the PPS, one with an SEI.
MCKeyframes == {<<<<7, 2>>, <<8, 2>>, <<5, 3>>>>,
                <<<<7, 2>>, <<8, 4>>, <<6, 3>>, <<5, 3>>>>}

\* Two slices, one with an emulation prevention byte; and three that make the
\* message too long.
MCPframes == {<<<<1, 0, 0, 3, 2>>, <<1, 4>>>>,
              <<<<1, 4, 4, 4, 4, 4>>, <<1, 5, 5, 5, 5, 5>>,
                <<1, 6, 6, 6, 6, 6>>>>}

\* A slice whose length has a one in its last byte but one.
MCLongSlices == {<<<<1, 2, 2, 2, 2, 2, 2, 2, 2, 2>>>>}

MCTouches == {<<[id |-> 1, active |-> FALSE, x |-> 0, y |-> 11],
                [id |-> 3, active |-> TRUE, x |-> 80, y |-> 7]>>}

\* The hypotheses of the theorems hold of the instance; with the long slice only
\* that about lengths does not.
ASSUME MCHypotheses ==
  KeyframesDecodable /\ (LengthsUnmistakable \/ Pframes = MCLongSlices)
=============================================================================
