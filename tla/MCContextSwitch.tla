-------------------------- MODULE MCContextSwitch ---------------------------
(* ContextSwitch for TLC: two threads and kmain's process.  Four frames on  *)
(* a stack are the trap of a yield, an interrupt of its stub, a second      *)
(* interrupt of that one's stub, and what a switch adds to the last.        *)
EXTENDS ContextSwitch, TLC

OutsideWindow == Label \ SwitchWindow

AllLabels == Label

Symmetry == Permutations(Thread)
=============================================================================
