------------------------------ MODULE RobotApi ------------------------------
(***************************************************************************)
(* A program of the Python robot API (DSR_ROBOT2.py) and what it drives.   *)
(*                                                                         *)
(* The program keeps default speeds and a reference frame in module        *)
(* globals.  A function checks its arguments, fills in what is missing     *)
(* from these defaults, calls a service and spins until the answer is      *)
(* there, without a time limit.  A check that fails raises DR_Error, whose *)
(* constructor shuts the ROS context down: no call can be made after it.   *)
(* Ctrl-C shuts it down too, and the call under way returns as if it had   *)
(* failed.  Streams are topics: nobody answers.  A robot object of class   *)
(* CDsrRobot has defaults of its own, but sets the module's frame.         *)
(*                                                                         *)
(* The controller serves a call and answers it in two steps.  It keeps a   *)
(* reference frame, which other clients may set as well.                   *)
(***************************************************************************)
EXTENDS DrObjects, DrForms

CONSTANTS
  MotionArgs,  \* the arguments of motions and streams, as DrMotions has them
  Numbers,     \* the arguments of functions that take a number, with None
  Positions,   \* the arguments of functions that take a position
  Bounds,      \* the arguments of conditions, with None
  SpeedArgs,   \* the arguments of set_velj and set_accj, a number or a list
  SpeedPairs,  \* the arguments of set_velx and set_accx
  FrameArgs,   \* the arguments of set_ref_coord
  Frames       \* the frames the controller may be in

\* The setters of the defaults are called with Python values of integers.
ASSUME SpeedArgsAssumption ==
  \A arg \in SpeedArgs \cup {pair[1] : pair \in SpeedPairs} \cup {pair[2] : pair \in SpeedPairs} :
    arg.val \in Seq(Int) /\ (IsNumber(arg) => Len(arg.val) = 1)

VARIABLES
  alive,     \* rclpy.ok()
  defaults,  \* the globals _g_velj, _g_accj, _g_velx, _g_accx and _g_coord
  call,      \* the request under way, or Idle
  served,    \* what the controller made of it: "no", "yes" or "refused"
  result,    \* what the last call ended with
  frame,     \* the controller's reference frame
  agreed     \* whether set_ref_coord was the last to set it, and succeeded

vars == <<alive, defaults, call, served, result, frame, agreed>>

Idle == Request("idle", <<>>, <<>>, 0, 0)

Init ==
  /\ alive = TRUE
  /\ defaults = [velj |-> Zeros, accj |-> Zeros, velx |-> TaskZero, accx |-> TaskZero,
                 coord |-> DR_BASE]
  /\ call = Idle /\ served = "no" /\ result = "none"
  /\ frame \in Frames /\ agreed = FALSE

-----------------------------------------------------------------------------
(* A call ends here, or its request is on its way.                         *)

Raise ==
  /\ alive' = FALSE /\ result' = "DR_Error"
  /\ UNCHANGED <<defaults, call, served, frame, agreed>>

Fail ==
  /\ result' = "exception"
  /\ UNCHANGED <<alive, defaults, call, served, frame, agreed>>

Begin(req) ==
  /\ alive /\ call = Idle
  /\ \/ req = Rejected /\ Raise
     \/ req = Failed /\ Fail
     \/ /\ req \notin {Rejected, Failed}
        /\ call' = req /\ served' = "no" /\ result' = "none"
        /\ UNCHANGED <<alive, defaults, frame, agreed>>

\* A stream is published and that is all; call shows it until the next step.
Streams == {"servoj_stream", "servol_stream", "speedj_stream", "speedl_stream",
            "servoj_rt_stream", "servol_rt_stream", "speedj_rt_stream", "speedl_rt_stream",
            "torque_rt_stream", "alter_motion_stream"}

-----------------------------------------------------------------------------
(* The defaults                                                            *)

Positive(speed) == \A i \in DOMAIN speed : speed[i] > 0

JointDefaultOK(arg) ==
  (IsNumber(arg) \/ IsVector(arg)) /\ Positive(JointSpeed(arg, <<>>))

Set(field, speed) ==
  /\ defaults' = [defaults EXCEPT ![field] = speed]
  /\ result' = "ok"
  /\ UNCHANGED <<alive, call, served, frame, agreed>>

set_velj(vel) ==
  /\ alive /\ call = Idle
  /\ IF JointDefaultOK(vel) THEN Set("velj", JointSpeed(vel, <<>>)) ELSE Raise

set_accj(acc) ==
  /\ alive /\ call = Idle
  /\ IF JointDefaultOK(acc) THEN Set("accj", JointSpeed(acc, <<>>)) ELSE Raise

\* The rotation's sign is not looked at.
TaskDefaultOKVariant(first, second) ==
  IsNumber(first) /\ Value(first) > 0 /\ (second = None \/ IsNumber(second))

\* The rotation may be left open.
TaskDefaultOK(first, second) ==
  /\ IsNumber(first) /\ Value(first) > 0
  /\ second = None \/ IsNumber(second)
  /\ Given(second, COND_NONE) = COND_NONE \/ Given(second, COND_NONE) > 0

set_velx(vel1, vel2) ==
  /\ alive /\ call = Idle
  /\ IF TaskDefaultOK(vel1, vel2) THEN Set("velx", <<Value(vel1), Given(vel2, COND_NONE)>>) ELSE Raise

set_accx(acc1, acc2) ==
  /\ alive /\ call = Idle
  /\ IF TaskDefaultOK(acc1, acc2) THEN Set("accx", <<Value(acc1), Given(acc2, COND_NONE)>>) ELSE Raise

SetDefaults ==
  \/ \E vel \in SpeedArgs : set_velj(vel)
  \/ \E acc \in SpeedArgs : set_accj(acc)
  \/ \E vel \in SpeedPairs : set_velx(vel[1], vel[2])
  \/ \E acc \in SpeedPairs : set_accx(acc[1], acc[2])

-----------------------------------------------------------------------------
(* The program's calls                                                     *)

\* Nothing comes of a segment until it is used, unless its arguments are refused.
Segment(seg_type, posx1, posx2, radius) ==
  /\ alive /\ call = Idle
  /\ ~ posb(seg_type, posx1, posx2, radius) /\ Raise

ConstructSegment ==
  \E p, q \in Positions, x \in Numbers : Segment(Num(0), p, q, x) \/ Segment(x, p, q, Num(0))

CallMotion ==
  \E a \in MotionArgs :
    \/ Begin(movej(a, defaults)) \/ Begin(movejx(a, defaults)) \/ Begin(movesj(a, defaults))
    \/ Begin(movel(a, defaults)) \/ Begin(movec(a, defaults)) \/ Begin(movesx(a, defaults))
    \/ Begin(moveb(a, defaults)) \/ Begin(move_spiral(a, defaults))
    \/ Begin(move_periodic(a, defaults))

CallStream ==
  \E a \in MotionArgs :
    \/ Begin(servoj(a, defaults)) \/ Begin(servol(a, defaults)) \/ Begin(speedj(a)) \/ Begin(speedl(a))
    \/ Begin(servoj_rt(a, defaults)) \/ Begin(servol_rt(a)) \/ Begin(speedj_rt(a))
    \/ Begin(speedl_rt(a)) \/ Begin(torque_rt(a)) \/ Begin(alter_motion_stream(a))

CallObject ==
  \/ \E a \in MotionArgs :
       \/ Begin(object_movej(a)) \/ Begin(object_movejx(a)) \/ Begin(object_movesj(a))
       \/ Begin(object_movel(a)) \/ Begin(object_movec(a, defaults.coord))
       \/ Begin(object_movesx(a, defaults.coord)) \/ Begin(object_moveb(a))
       \/ Begin(object_move_spiral(a)) \/ Begin(object_move_periodic(a))
  \/ \E x \in Numbers :
       \/ Begin(object_move_home(x)) \/ Begin(object_get_tool_force(x))
  \/ \E min, max, ref \in Bounds :
       Begin(object_check_force_condition(Num(2), min, max, ref, defaults.coord))

CallForm ==
  \E ref \in {DR_BASE, DR_TOOL, DR_WORLD} :
    \/ \E f \in Forms(parallel_axis_forms) : Begin(parallel_axis(f, ref))
    \/ \E f \in Forms(align_axis_forms) : Begin(align_axis(f, ref))
    \/ \E f \in Forms(calc_coord_forms) : Begin(calc_coord(f, ref))
    \/ \E f \in Forms(set_user_cart_coord_forms) \cup {Form(Points, 0), Form(Points, 3)} :
         Begin(set_user_cart_coord(f, ref))

CallQuery ==
  \/ \E req \in {get_robot_mode, get_robot_system, get_robot_state, get_robot_speed_mode,
                 get_current_solution_space, get_last_alarm, get_control_mode, get_control_space,
                 get_current_posj, get_current_velj, get_desired_posj, get_desired_velj,
                 get_joint_torque, get_external_torque, get_robot_link_info, check_motion,
                 get_workpiece_weight, get_tcp, get_tool, get_drl_state, read_data_rt,
                 get_rt_control_output_version_list, get_rt_control_input_version_list} : Begin(req)
  \/ \E x \in Numbers :
       \/ Begin(get_current_pose(x)) \/ Begin(get_current_posx(x, defaults))
       \/ Begin(get_current_tool_flange_posx(x)) \/ Begin(get_current_velx(x))
       \/ Begin(get_desired_posx(x, defaults)) \/ Begin(get_desired_velx(x))
       \/ Begin(get_current_rotm(x)) \/ Begin(get_tool_force(x)) \/ Begin(get_user_cart_coord(x))
       \/ Begin(get_digital_input(x)) \/ Begin(get_analog_input(x)) \/ Begin(get_tool_digital_input(x))
       \/ Begin(get_digital_output(x)) \/ Begin(get_tool_digital_output(x))
  \/ \E p \in Positions, x \in Numbers :
       \/ Begin(get_solution_space(p)) \/ Begin(get_orientation_error(p, p, x))
       \/ Begin(trans(p, p, x, None, defaults)) \/ Begin(trans(p, p, None, x, defaults))
       \/ Begin(fkin(p, x)) \/ Begin(ikin(p, Num(0), x)) \/ Begin(ikin(p, x, None))
       \/ Begin(coord_transform(p, x, Num(0))) \/ Begin(coord_transform(p, None, x))
  \/ \E name \in {Str, None} :
       \/ Begin(get_rt_control_input_data_list(name)) \/ Begin(get_rt_control_output_data_list(name))
       \/ Begin(get_modbus_input(name))

CallSystem ==
  \/ \E x \in Numbers :
       \/ Begin(set_robot_mode(x)) \/ Begin(set_robot_system(x)) \/ Begin(set_robot_speed_mode(x))
       \/ Begin(set_safe_stop_reset_type(x)) \/ Begin(change_collision_sensitivity(x))
       \/ Begin(set_safety_mode(x, x))
       \/ Begin(move_home(x)) \/ Begin(mwait(x)) \/ Begin(change_operation_speed(x))
       \/ Begin(enable_alter_motion(x, x, None, defaults))
       \/ Begin(enable_alter_motion(Num(1), Num(0), x, defaults))
       \/ Begin(set_singularity_handling(x)) \/ Begin(set_singular_handling_force(x))
       \/ Begin(jog(x, Num(0), Num(1))) \/ Begin(is_done_bolt_tightening(None, x, Num(0)))
       \/ Begin(drl_script_stop(x)) \/ Begin(drl_script_run(x, Str))
  \/ \E p \in Positions, x \in Numbers :
       \/ Begin(alter_motion(p)) \/ Begin(jog_multi(p, x, Num(1)))
       \/ Begin(overwrite_user_cart_coord(x, p, None)) \/ Begin(add_tcp(Str, p))
  \/ \E req \in {reset_workpiece_weight, disable_alter_motion, drl_script_pause,
                 drl_script_resume} : Begin(req)

CallSetRefCoord == \E coord \in FrameArgs : Begin(set_ref_coord(coord))

CallForce ==
  \/ \E p \in Positions, time \in Numbers :
       \/ Begin(task_compliance_ctrl(p, time, defaults)) \/ Begin(set_stiffnessx(p, time, defaults))
       \/ Begin(set_desired_force(p, p, time, None, defaults))
       \/ Begin(release_force(time)) \/ Begin(release_compliance_ctrl)
  \/ \E min, max, ref \in Bounds :
       \/ Begin(check_position_condition(Num(2), min, max, ref, None, None, defaults))
       \/ Begin(check_force_condition(Num(2), min, max, ref, defaults))
       \/ Begin(check_force_condition(Num(10), min, max, ref, defaults))
       \/ \E p \in Positions :
            \/ Begin(check_position_condition(Num(2), min, max, ref, Num(1), p, defaults))
            \/ Begin(check_orientation_condition(Num(10), min, max, ref, None, p, defaults))
            \/ Begin(check_orientation_condition(Num(10), p, p, ref, None, None, defaults))

CallDevice ==
  \/ \E x, val \in Numbers :
       \/ Begin(set_digital_output(x, val)) \/ Begin(set_tool_digital_output(x, val))
       \/ Begin(add_modbus_signal(Str, Num(502), Str, Num(1), x, val, None))
       \/ Begin(add_modbus_signal(Str, x, Str, Num(0), Num(0), None, val))
       \/ Begin(set_modbus_output(Str, x))
  \/ \E name \in {Str, Other} :
       \/ Begin(set_tcp(name)) \/ Begin(set_tool(name)) \/ Begin(set_tool_shape(name))
       \/ Begin(del_tcp(name)) \/ Begin(del_tool(name)) \/ Begin(del_modbus_signal(name))
       \/ Begin(add_tool(name, Num(1), List(<<0, 0, 0>>), List(<<0, 0, 0, 0, 0, 0>>)))

CallRealTime ==
  \/ \E req \in {start_rt_control, stop_rt_control, disconnect_rt_control} : Begin(req)
  \/ \E name \in {Str, None}, x \in Numbers :
       \/ Begin(connect_rt_control(name, x)) \/ Begin(set_rt_control_input(name, x, x))
       \/ Begin(set_rt_control_output(name, x, x))
       \/ Begin(set_velx_rt(x, x)) \/ Begin(set_accx_rt(x, x))
  \/ \E p \in Positions :
       \/ Begin(set_velj_rt(p)) \/ Begin(set_accj_rt(p))
       \/ Begin(write_data_rt(p, Num(0), Num(0), p, p))

-----------------------------------------------------------------------------
(* The controller, and how a call ends                                     *)

Serve ==
  /\ call # Idle /\ call.srv \notin Streams /\ served = "no"
  /\ \/ /\ served' = "yes"
        /\ IF call.srv = "set_ref_coord"
           THEN frame' = call.ref /\ agreed' = TRUE
           ELSE UNCHANGED <<frame, agreed>>
     \/ /\ served' = "refused"
        /\ agreed' = (agreed /\ call.srv # "set_ref_coord")
        /\ UNCHANGED frame
  /\ UNCHANGED <<alive, defaults, call, result>>

\* set_ref_coord does not remember the frame.
KeepCoordVariant == UNCHANGED defaults

\* set_ref_coord keeps the frame it asked for, whatever the answer was.
KeepCoord ==
  defaults' = IF call.srv = "set_ref_coord" THEN [defaults EXCEPT !.coord = call.ref] ELSE defaults

\* What a function returns for an answer; "minus one" stands for the value of a
\* failure, which is an empty string or None in some.
Returned(success) ==
  CASE call.reply = "value" -> "value"
    [] call.reply = "checked" -> IF success THEN "value" ELSE "minus one"
    [] call.reply = "status" -> IF success THEN "ok" ELSE "minus one"
    [] call.reply = "ignored" -> "ok"

Answer ==
  /\ call # Idle /\ served # "no"
  /\ result' = Returned(served = "yes")
  /\ KeepCoord
  /\ call' = Idle /\ served' = "no"
  /\ UNCHANGED <<alive, frame, agreed>>

\* Functions that have a result ready in case no answer comes
Prepared == {"get_robot_link_info", "set_singular_handling_force", "read_data_rt", "write_data_rt",
             "connect_rt_control", "disconnect_rt_control", "start_rt_control", "stop_rt_control",
             "set_rt_control_input", "set_rt_control_output",
             "set_velj_rt", "set_accj_rt", "set_velx_rt", "set_accx_rt"}

\* The others log the exception and fail on a result that they never set.
Unanswered(raised) ==
  CASE call.reply = "ignored" -> "ok"
    [] raised /\ call.reply # "checked" /\ call.srv \notin Prepared -> "exception"
    [] OTHER -> "minus one"

\* The future holds an exception, or nothing after Ctrl-C.
AnswerLost ==
  /\ call # Idle /\ call.srv \notin Streams
  /\ \/ served # "no" /\ result' = Unanswered(TRUE) /\ alive' = alive
     \/ result' = Unanswered(FALSE) /\ alive' = FALSE
  /\ KeepCoord
  /\ call' = Idle /\ served' = "no"
  /\ agreed' = (agreed /\ call.srv # "set_ref_coord")
  /\ UNCHANGED frame

Published ==
  /\ call.srv \in Streams
  /\ call' = Idle /\ result' = "ok"
  /\ UNCHANGED <<alive, defaults, served, frame, agreed>>

\* Another client
OtherSetsFrame ==
  /\ frame' \in Frames /\ frame' # frame /\ agreed' = FALSE
  /\ UNCHANGED <<alive, defaults, call, served, result>>

Over == ~ alive /\ call = Idle /\ UNCHANGED vars

Next ==
  \/ SetDefaults \/ ConstructSegment \/ CallMotion \/ CallStream \/ CallObject \/ CallForm \/ CallQuery
  \/ CallSystem \/ CallSetRefCoord \/ CallForce \/ CallDevice \/ CallRealTime
  \/ Serve \/ Answer \/ AnswerLost \/ Published \/ OtherSetsFrame \/ Over

Spec == Init /\ [][Next]_vars

-----------------------------------------------------------------------------
(* Properties                                                              *)

\* Every variable has a value of its kind: the defaults are speeds that may be
\* filled into any request, and the frame one that fits the message.
TypeOK ==
  /\ alive \in BOOLEAN /\ agreed \in BOOLEAN
  /\ \A field \in {"velj", "accj"} :
       defaults[field] = Zeros \/ (DOMAIN defaults[field] = 1..Axes /\ Positive(defaults[field]))
  /\ \A field \in {"velx", "accx"} : defaults[field] = TaskZero \/ BothPositive(defaults[field])
  /\ defaults.coord \in NamedFrames \cap Int8
  /\ served \in {"no", "yes", "refused"}
  /\ result \in {"none", "ok", "value", "minus one", "exception", "DR_Error"}
  /\ frame \in NamedFrames

\* _check_valid_vel_acc_joint and _task: what goes to the robot without a time
\* has a speed and an acceleration, wherever they came from: the caller, under
\* either name, the defaults, or the object.
TaskMotions == {"move_line", "move_circle", "move_spline_task", "move_blending", "servol_stream",
                "speedl_stream", "servol_rt_stream", "speedl_rt_stream"}
JointMotions == {"move_spline_joint", "move_spiral", "servoj_stream", "speedj_stream",
                 "servoj_rt_stream", "speedj_rt_stream"}
SpeedIsGiven ==
  NoTime(call.time) =>
    /\ call.srv \in TaskMotions => BothPositive(call.vel) /\ BothPositive(call.acc)
    /\ call.srv \in JointMotions => SomePositive(call.vel) /\ SomePositive(call.acc)

\* A motion that names nothing but its target
Plain(class) ==
  [pos |-> List(Zeros), pos2 |-> List(Zeros), points |-> List(<<class>>),
   vel |-> None, v |-> None, acc |-> None, a |-> None, time |-> None, t |-> None,
   radius |-> None, r |-> None, ref |-> None, mod |-> Num(0), m |-> None, ra |-> Num(0),
   sol |-> Num(0), vel_opt |-> Num(0), angle |-> None, rev |-> Num(10), rmax |-> Num(10),
   lmax |-> Num(0), axis |-> Num(2), repeat |-> None, async |-> 0]

Goes(req) == req \notin {Rejected, Failed}

\* Once set_velj and set_accj, or set_velx and set_accx, have been obeyed, the
\* motions may be called without a speed, in any frame that set_ref_coord took:
\* what the setters let through is enough for the checks of the motions.  Of
\* those that take a task speed, move_spiral and servol want more: they refuse
\* the defaults unless both setters were given a rotation, which they allow to
\* be left out.
RotationsGiven == defaults.velx[2] # COND_NONE /\ defaults.accx[2] # COND_NONE
DefaultsSuffice ==
  /\ SomePositive(defaults.velj) /\ SomePositive(defaults.accj) =>
       /\ Goes(movej(Plain(""), defaults)) /\ Goes(movejx(Plain(""), defaults))
       /\ Goes(movesj(Plain("posj"), defaults))
       /\ Goes(servoj(Plain(""), defaults)) /\ Goes(servoj_rt(Plain(""), defaults))
  /\ defaults.velx # TaskZero /\ defaults.accx # TaskZero =>
       /\ Goes(movel(Plain(""), defaults)) /\ Goes(movec(Plain(""), defaults))
       /\ Goes(movesx(Plain("posx"), defaults)) /\ Goes(moveb(Plain("posb"), defaults))
       /\ Goes(move_spiral(Plain(""), defaults)) <=> RotationsGiven
       /\ Goes(servol(Plain(""), defaults)) <=> RotationsGiven

\* The frame that the program fills in where none is given is the controller's,
\* when set_ref_coord was the last to set it and was not refused.
FrameIsCurrent == agreed /\ call = Idle => defaults.coord = frame

=============================================================================
