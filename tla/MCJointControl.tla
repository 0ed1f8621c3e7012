---------------------------- MODULE MCJointControl ----------------------------
(***************************************************************************)
(* JointControl for TLC: a trajectory so near to 0 that nothing is sent,   *)
(* one of large steps, then one that creeps in steps below the threshold.  *)
(***************************************************************************)
EXTENDS JointControl

Near == [points |-> <<0, 1>>, total |-> 1]

Steps == [points |-> <<0, 4, 9>>, total |-> 3]

Creep == [points |-> <<9, 8, 7, 6>>, total |-> 3]

MCTrajs == <<Near, Steps, Creep>>

=============================================================================
