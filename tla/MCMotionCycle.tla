---------------------------- MODULE MCMotionCycle ----------------------------
(***************************************************************************)
(* MotionCycle for TLC.  Worker threads are alike, so they may be permuted *)
(* in the runs that check safety.                                          *)
(***************************************************************************)
EXTENDS MotionCycle, TLC

Symmetric == Permutations(Workers)

=============================================================================
