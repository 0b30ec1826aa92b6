-------------------------- MODULE MCMxsfbDisplay --------------------------
(***************************************************************************)
(* The display driver with a mode that can pan, one with longer lines and  *)
(* one that does not fit the framebuffer.                                  *)
(***************************************************************************)
EXTENDS MxsfbDisplay

Plain == [line |-> 1, yres |-> 1, virt |-> 2]
Deep == [line |-> 2, yres |-> 1, virt |-> 0]
Tall == [line |-> 1, yres |-> 1, virt |-> 3]

MCModes == {Plain, Deep, Tall}

=============================================================================
