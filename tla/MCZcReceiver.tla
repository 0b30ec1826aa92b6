----------------------------- MODULE MCZcReceiver ----------------------------
(* The receiver on a ring of two slots: three frames wrap it, overrun it    *)
(* and, with an error among them, bring it out of step.                     *)
EXTENDS ZcReceiver
CONSTANT a1
McAddrs == {a1}
=============================================================================
