------------------------------- MODULE DrForms -------------------------------
(***************************************************************************)
(* The four functions of the Python robot API that take any number of      *)
(* arguments and find out from how many there are, by position and by      *)
(* keyword, which they are: parallel_axis, align_axis, calc_coord and      *)
(* set_user_cart_coord (DSR_ROBOT2.py).                                    *)
(*                                                                         *)
(* A form is the arguments a caller gives, in the order of the function's  *)
(* signature, and the number of them that are given by position; the rest  *)
(* are keywords.  The values are well formed; only the frame is looked at. *)
(***************************************************************************)
EXTENDS DrArguments

Form(names, byPosition) == [names |-> names, byPosition |-> byPosition]
Names(f) == {f.names[i] : i \in DOMAIN f.names}

Points == <<"x1", "x2", "x3">>
Row(names, positions) == [names |-> names, positions |-> positions]
Takes(table, f) == \E row \in table : row.names = f.names /\ f.byPosition \in row.positions

\* What is sent of a form: everything in it, and the frame if it was named.
Sent(srv, f, ref, reply) ==
  [Call(srv, TRUE, <<>>, IF "ref" \in Names(f) THEN ref ELSE DR_BASE, reply)
   EXCEPT !.sent = Names(f)]

RefOK(f, ref) == "ref" \in Names(f) => ref \in WorldFrames

-----------------------------------------------------------------------------
parallel_axis_forms ==
  {Row(<<"vect", "axis">>, {0, 1, 2}), Row(<<"vect", "axis", "ref">>, {0, 2, 3}),
   Row(Points \o <<"axis">>, {0, 3, 4}), Row(Points \o <<"axis", "ref">>, {0, 4, 5})}

\* The vector without a frame is copied from a variable that does not exist.
parallel_axis(f, ref) ==
  IF ~ (Takes(parallel_axis_forms, f) /\ RefOK(f, ref)) THEN Rejected
  ELSE IF Names(f) = {"vect", "axis"} THEN Failed
  ELSE Sent(IF "vect" \in Names(f) THEN "parallel_axis2" ELSE "parallel_axis1", f, ref, "status")

align_axis_forms ==
  {Row(<<"vect", "pos", "axis">>, {0, 1, 2, 3}), Row(<<"vect", "pos", "axis", "ref">>, {0, 3, 4}),
   Row(Points \o <<"pos", "axis">>, {0, 3, 4, 5}),
   Row(Points \o <<"pos", "axis", "ref">>, {0, 5, 6})}

align_axis(f, ref) ==
  IF ~ (Takes(align_axis_forms, f) /\ RefOK(f, ref)) THEN Rejected
  ELSE Sent(IF "vect" \in Names(f) THEN "align_axis2" ELSE "align_axis1", f, ref, "status")

\* One to four points; the frame and the mode are the last two, or keywords.
calc_coord_forms ==
  {Row(SubSeq(<<"x1", "x2", "x3", "x4">>, 1, n) \o <<"ref", "mod">>, {0, n, n + 2}) : n \in 1..4}

calc_coord(f, ref) ==
  IF ~ (Takes(calc_coord_forms, f) /\ RefOK(f, ref)) THEN Rejected
  ELSE Sent("calc_coord", f, ref, "value")

-----------------------------------------------------------------------------
(* set_user_cart_coord: a pose, three points and a pose, or two vectors and *)
(* a pose; the frame may follow.                                            *)

set_user_cart_coord_forms ==
  {Row(<<"pos", "ref">>, {0, 1, 2}),
   Row(Points \o <<"pos">>, {0, 4}), Row(Points \o <<"pos", "ref">>, {0, 4, 5}),
   Row(<<"u1", "v1", "pos">>, {0, 3}), Row(<<"u1", "v1", "pos", "ref">>, {0, 3}),
   Row(<<"pos", "u1", "v1">>, {0, 1}), Row(<<"pos">> \o Points, {0, 1})}

\* Three points alone are recognised, and nothing is done with them.
Recognised(f) == f.names = Points /\ f.byPosition \in {0, 3}

\* Five arguments by position are taken for four: the frame is not read.
FrameIgnored(f) == f.byPosition = 5

\* The service is chosen by the arguments.
UserCoordService(f) ==
  IF "u1" \in Names(f) THEN "set_user_cart_coord3"
  ELSE IF "x1" \in Names(f) THEN "set_user_cart_coord2"
  ELSE "set_user_cart_coord1"

set_user_cart_coord(f, ref) ==
  IF Recognised(f) THEN Failed
  ELSE IF ~ Takes(set_user_cart_coord_forms, f) \/ ~ (FrameIgnored(f) \/ RefOK(f, ref)) THEN Rejected
  ELSE IF FrameIgnored(f)
  THEN [Sent(UserCoordService(f), f, DR_BASE, "value") EXCEPT !.sent = Names(f) \ {"ref"}]
  ELSE Sent(UserCoordService(f), f, ref, "value")

-----------------------------------------------------------------------------
\* The forms a caller may think of: any part of a row's arguments by position.
\* A pose comes first only when the others are keywords.
PoseFirst(names) == Len(names) > 2 /\ names[1] = "pos"
Forms(table) ==
  UNION {{Form(row.names, n) : n \in 0 .. (IF PoseFirst(row.names) THEN 1 ELSE Len(row.names))}
         : row \in table}
=============================================================================
