------------------------------ MODULE ZcChannel ------------------------------
(***************************************************************************)
(* What the receive side of the FEC driver promises the process that waits *)
(* for zero-copy frames: frames are handled in the order they arrived,     *)
(* each of them once, a frame with a receive error is never announced, and *)
(* every announcement lets exactly one wait call return.                   *)
(***************************************************************************)
EXTENDS Naturals, Sequences

CONSTANT R   \* descriptors of the receive ring

VARIABLES queue,   \* frames the hardware completed and nobody handled
          count    \* announcements no wait call has taken

Kinds == {"good", "bad"}

ChannelInit == queue = <<>> /\ count = 0

Receive(kind) ==
  /\ Len(queue) < R
  /\ queue' = Append(queue, kind)
  /\ UNCHANGED count

\* Only a good frame may be announced, and the network stack may take it
\* instead when zero-copy is off.
Handle ==
  /\ queue # <<>>
  /\ queue' = Tail(queue)
  /\ \/ count' = count
     \/ Head(queue) = "good" /\ count' = count + 1

Take == count > 0 /\ count' = count - 1 /\ UNCHANGED queue

\* A MAC restart drops what was not handled yet; a new set-up drops the
\* announcements.
Flush == queue' = <<>> /\ UNCHANGED count
Reset == count' = 0 /\ UNCHANGED queue

ChannelNext ==
  \/ \E kind \in Kinds : Receive(kind)
  \/ Handle \/ Take \/ Flush \/ Reset

ChannelSpec == ChannelInit /\ [][ChannelNext]_<<queue, count>>
=============================================================================
