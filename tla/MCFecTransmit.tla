---------------------------- MODULE MCFecTransmit ----------------------------
(* A ring of seven: one fragment at most and TSO buffers of two or three     *)
(* descriptors, so that the queue stops at three free descriptors, wakes at  *)
(* two, and the ring wraps within four buffers.                              *)
EXTENDS FecTransmit
=============================================================================
