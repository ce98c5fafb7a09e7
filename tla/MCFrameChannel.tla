---------------------------- MODULE MCFrameChannel ----------------------------
(* FrameChannel for TLC: payloads of one to three bytes, of which the longest  *)
(* does not fit into a frame, and the empty one, which encode() refuses too.   *)
EXTENDS FrameChannel

Texts == {<<>>, <<1>>, <<1, 0>>, <<1, 1, 1>>}
=============================================================================
