----------------------------- MODULE TxOwnership -----------------------------
(***************************************************************************)
(* What the transmit side of the FEC driver owes the network stack: every  *)
(* socket buffer handed over is given back exactly once, buffers that were *)
(* accepted in the order in which they were accepted, except that a MAC    *)
(* restart gives all of them back together.                                *)
(***************************************************************************)
EXTENDS Naturals

VARIABLES handed,   \* buffers handed over so far; they are numbered from 1
          held,     \* the accepted buffers that were not given back
          returned  \* how often each buffer handed over was given back

OwnershipInit == handed = 0 /\ held = {} /\ returned = [s \in 1 .. 0 |-> 0]

\* ndo_start_xmit either accepts the next buffer or drops it: both settle it.
Settle(times) ==
  /\ handed' = handed + 1
  /\ returned' = [s \in 1 .. handed + 1 |-> IF s = handed + 1 THEN times ELSE returned[s]]

Accept == Settle(0) /\ held' = held \union {handed + 1}

Drop == Settle(1) /\ UNCHANGED held

\* Some of the held buffers are given back.
GiveBack(buffers) ==
  /\ held' = held \ buffers
  /\ returned' = [s \in 1 .. handed |-> IF s \in buffers THEN returned[s] + 1
                                                         ELSE returned[s]]
  /\ UNCHANGED handed

Complete == \E oldest \in held : (\A s \in held : oldest <= s) /\ GiveBack({oldest})

Flush == GiveBack(held)

OwnershipSpec ==
  OwnershipInit /\ [][Accept \/ Drop \/ Complete \/ Flush]_<<handed, held, returned>>
=============================================================================
