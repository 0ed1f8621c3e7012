------------------------------ MODULE DrObjects ------------------------------
(***************************************************************************)
(* The methods of class CDsrRobot (DSR_ROBOT2.py) that do not do what the  *)
(* module's function of the same name does.  A robot object has default    *)
(* speeds and a frame of its own, which are set when it is constructed and *)
(* which no method changes: set_ref_coord sets the module's frame.  Some   *)
(* methods read the object's frame, which is then always the base, and     *)
(* some the module's (coord).                                              *)
(***************************************************************************)
EXTENDS DrMotions, DrServices

\* What the methods find: no speed, and the frame that they look at
Object(coord) ==
  [velj |-> Zeros, accj |-> Zeros, velx |-> TaskZero, accx |-> TaskZero, coord |-> coord]

object_movej(a) == movej(a, Object(DR_BASE))
object_movejx(a) == movejx(a, Object(DR_BASE))
object_movel(a) == movel(a, Object(DR_BASE))
object_movec(a, coord) == movec(a, Object(coord))
object_movesx(a, coord) == movesx(a, Object(coord))
object_moveb(a) == moveb(a, Object(DR_BASE))
object_move_spiral(a) == move_spiral(a, Object(DR_BASE))
object_move_periodic(a) == move_periodic(a, Object(DR_BASE))

\* One speed instead of one per axis does not fit the request.
object_movesj(a) == Unchecked(movesj(a, Object(DR_BASE)), FALSE)

\* The result of the service is not looked at.
object_move_home(target) ==
  IF move_home(target) = Failed THEN Failed ELSE [move_home(target) EXCEPT !.reply = "ignored"]

\* Fewer frames than the function takes, and a value also if the service failed
object_get_tool_force(ref) == QueryInWorld("get_tool_force", TRUE, <<>>, ref)

\* A force has no sign here.
object_check_force_condition(axis, min, max, ref, coord) ==
  IF \E bound \in {min, max} : IsNumber(bound) /\ Value(bound) # COND_NONE /\ Value(bound) < 0
  THEN Rejected
  ELSE check_force_condition(axis, min, max, ref, Object(coord))
=============================================================================
