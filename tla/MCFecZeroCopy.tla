---------------------------- MODULE MCFecZeroCopy ----------------------------
(* A ring of two descriptors and a poll budget of one frame: the ring wraps  *)
(* and fills up, and the budget runs out with a frame left.                  *)
EXTENDS FecZeroCopy
CONSTANT a1
McAddrs == {a1}
=============================================================================
