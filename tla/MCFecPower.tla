---------------------------- MODULE MCFecPower ----------------------------
(* The failures the driver unwinds, those that leak a reference, and those  *)
(* of resume that it does not recover from; then the steps of probe whose   *)
(* unwinding leaves something behind.                                       *)
EXTENDS FecPower
MCFailures == {"clk", "ipg", "ahb", "regulator", "init", "mii", "open_clk", "buffers", "phy",
               "get", "resume_reg", "resume_clk", "resume_force"}
MCMishandled == {"reset", "register"}
=============================================================================
