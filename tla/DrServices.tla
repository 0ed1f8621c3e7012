----------------------------- MODULE DrServices -----------------------------
(***************************************************************************)
(* The functions of the Python robot API (DSR_ROBOT2.py) other than the    *)
(* motions: each is the request it makes of its arguments.  e holds the    *)
(* defaults in force.  An argument that was left out is None; numbers that *)
(* go into an int8 are listed, the other data of a request is left out.    *)
(***************************************************************************)
EXTENDS DrArguments

\* Data that no check looks at must have the form of the request's field.
Unchecked(req, ok) == IF req # Rejected /\ ~ ok THEN Failed ELSE req

-----------------------------------------------------------------------------
(* System: one number, or nothing, to a service                            *)

set_robot_mode(mode) == Ask("set_robot_mode", IsNumber(mode), <<mode>>)
get_robot_mode == Query("get_robot_mode", TRUE, <<>>)
set_robot_system(system) == Ask("set_robot_system", IsNumber(system), <<system>>)
get_robot_system == Query("get_robot_system", TRUE, <<>>)
get_robot_state == Query("get_robot_state", TRUE, <<>>)
set_robot_speed_mode(mode) == Ask("set_robot_speed_mode", IsNumber(mode), <<mode>>)
get_robot_speed_mode == Query("get_robot_speed_mode", TRUE, <<>>)
set_safe_stop_reset_type(type) == Ask("set_safe_stop_reset_type", IsNumber(type), <<type>>)
get_current_pose(space) == Query("get_current_pose", IsNumber(space), <<space>>)
get_current_solution_space == Query("get_current_solution_space", TRUE, <<>>)
get_last_alarm == Query("get_last_alarm", TRUE, <<>>)
change_collision_sensitivity(level) ==
  Ask("change_collision_sensitivity", IsNumber(level), <<level>>)
get_control_mode == Query("get_control_mode", TRUE, <<>>)
get_control_space == Query("get_control_space", TRUE, <<>>)
get_current_posj == Query("get_current_posj", TRUE, <<>>)
get_current_velj == Query("get_current_velj", TRUE, <<>>)
get_desired_posj == Query("get_desired_posj", TRUE, <<>>)
get_desired_velj == Query("get_desired_velj", TRUE, <<>>)
get_joint_torque == Query("get_joint_torque", TRUE, <<>>)
get_external_torque == Query("get_external_torque", TRUE, <<>>)
get_robot_link_info == Query("get_robot_link_info", TRUE, <<>>)

-----------------------------------------------------------------------------
(* Poses and frames.  Some functions take the program's frame when none is *)
(* given and some the base; they also differ in the frames they take.      *)

Frame(ref, e) == Given(ref, e.coord)
FrameIn(ref, e, S) == (ref = None \/ IsNumber(ref)) /\ Frame(ref, e) \in S

QueryInWorld(srv, ok, args, ref) ==
  QueryIn(srv, ok /\ InOrNone(ref, WorldFrames), args, Given(ref, DR_BASE))

get_current_posx(ref, e) ==
  QueryIn("get_current_posx", FrameIn(ref, e, NamedFrames \ {DR_TOOL}), <<>>, Frame(ref, e))
get_current_tool_flange_posx(ref) == QueryInWorld("get_current_tool_flange_posx", TRUE, <<>>, ref)
get_current_velx(ref) == QueryInWorld("get_current_velx", TRUE, <<>>, ref)
get_desired_posx(ref, e) ==
  QueryIn("get_desired_posx", FrameIn(ref, e, NamedFrames), <<>>, Frame(ref, e))
get_desired_velx(ref) == QueryInWorld("get_desired_velx", TRUE, <<>>, ref)
get_current_rotm(ref) == QueryInWorld("get_current_rotm", TRUE, <<>>, ref)
get_tool_force(ref) ==
  Call("get_tool_force", InOrNone(ref, {DR_BASE, DR_TOOL, DR_WORLD}), <<>>, Given(ref, DR_BASE),
       "checked")
get_solution_space(pos) == Query("get_solution_space", get_posj(pos), <<>>)
get_orientation_error(xd, xc, axis) ==
  Query("get_orientation_error",
        get_posx(xd) /\ get_posx(xc) /\ In(axis, DR_AXIS_XYZ \cup DR_AXIS_ABC), <<axis>>)
trans(pos, delta, ref, ref_out, e) ==
  QueryIn("trans",
          /\ get_posx(pos) /\ get_posx(delta) /\ FrameIn(ref, e, NamedFrames)
          /\ InOrNone(ref_out, NamedFrames \ {DR_TOOL}),
          <<get_param(ref_out, Num(DR_BASE))>>, Frame(ref, e))
fkin(pos, ref) == QueryInWorld("fkin", get_posj(pos), <<>>, ref)
ikin(pos, sol, ref) == QueryInWorld("ikin", get_posx(pos) /\ In(sol, 0..7), <<sol>>, ref)
set_ref_coord(coord) ==
  IF ~ In(coord, NamedFrames) THEN Rejected
  ELSE AskIn("set_ref_coord", TRUE, <<>>, Value(coord))
coord_transform(pos, ref_in, ref_out) ==
  Query("coord_transform", get_normal_pos(pos) /\ (ref_in = None \/ IsNumber(ref_in)) /\ IsNumber(ref_out),
        <<get_param(ref_in, Num(DR_BASE)), ref_out>>)
overwrite_user_cart_coord(id, pos, ref) ==
  QueryInWorld("overwrite_user_cart_coord", get_posx(pos), <<id>>, ref)
get_user_cart_coord(id) == Query("get_user_cart_coord", TRUE, <<id>>)

-----------------------------------------------------------------------------
(* Real-time control                                                       *)

set_safety_mode(mode, event) ==
  Ask("set_safety_mode", IsNumber(mode) /\ IsNumber(event), <<mode, event>>)
connect_rt_control(ip, port) ==
  Ask("connect_rt_control", (ip = None \/ IsStr(ip)) /\ (port = None \/ IsNumber(port)), <<>>)
disconnect_rt_control == Ask("disconnect_rt_control", TRUE, <<>>)
Checked(srv, ok) == Call(srv, ok, <<>>, DR_BASE, "checked")
get_rt_control_output_version_list == Checked("get_rt_control_output_version_list", TRUE)
get_rt_control_input_version_list == Checked("get_rt_control_input_version_list", TRUE)
get_rt_control_input_data_list(version) == Checked("get_rt_control_input_data_list", IsStr(version))
get_rt_control_output_data_list(version) == Checked("get_rt_control_output_data_list", IsStr(version))
start_rt_control == Ask("start_rt_control", TRUE, <<>>)
stop_rt_control == Ask("stop_rt_control", TRUE, <<>>)
RtDataOK(version, period, loss) == IsStr(version) /\ IsNumber(period) /\ IsNumber(loss)
set_rt_control_input(version, period, loss) ==
  Ask("set_rt_control_input", RtDataOK(version, period, loss), <<>>)
set_rt_control_output(version, period, loss) ==
  Ask("set_rt_control_output", RtDataOK(version, period, loss), <<>>)
set_velj_rt(vel) == Ask("set_velj_rt", IsVector(vel), <<>>)
set_accj_rt(acc) == Ask("set_accj_rt", IsVector(acc), <<>>)
set_velx_rt(translation, rotation) ==
  Ask("set_velx_rt", IsNumber(translation) /\ IsNumber(rotation), <<>>)
set_accx_rt(translation, rotation) ==
  Ask("set_accx_rt", IsNumber(translation) /\ IsNumber(rotation), <<>>)
read_data_rt == Query("read_data_rt", TRUE, <<>>)
write_data_rt(force, digitalIn, digitalOut, analogIn, analogOut) ==
  Ask("write_data_rt",
      /\ IsVector(force) /\ IsNumber(digitalIn) /\ IsNumber(digitalOut)
      /\ IsVector(analogIn) /\ IsVector(analogOut), <<>>)

-----------------------------------------------------------------------------
(* Motion control                                                          *)

\* The target is not looked at.
move_home(target) == Ask("move_home", TRUE, <<get_param(target, Num(0))>>)
mwait(time) ==
  Ask("move_wait", (time = None \/ IsNumber(time)) /\ Given(time, 0) >= 0, <<>>)
check_motion == Query("check_motion", TRUE, <<>>)
change_operation_speed(speed) == Ask("change_operation_speed", In(speed, 1..100), <<speed>>)
\* The mode is compared without its type having been checked.
enable_alter_motion(n, mode, ref, e) ==
  IF IsNumber(n) /\ Value(n) >= 0 /\ ~ IsNumber(mode) THEN Failed
  ELSE AskIn("enable_alter_motion",
             IsNumber(n) /\ Value(n) >= 0 /\ In(mode, {0, 1}) /\ FrameIn(ref, e, NamedFrames),
             <<mode>>, Frame(ref, e))
\* A displacement: a pose is refused.
alter_motion(pos) == Ask("alter_motion", get_posj(pos), <<>>)
disable_alter_motion == Ask("disable_alter_motion", TRUE, <<>>)
set_singular_handling(mode) ==
  Ask("set_singularity_handling", InOrNone(mode, 0..2), <<get_param(mode, Num(0))>>)
set_singularity_handling(mode) == set_singular_handling(mode)
set_singular_handling_force(mode) ==
  Ask("set_singular_handling_force", mode = None \/ IsNumber(mode), <<get_param(mode, Num(0))>>)
jog(axis, ref, speed) ==
  Ask("jog", IsNumber(axis) /\ IsNumber(ref) /\ IsNumber(speed), <<axis, ref>>)
jog_multi(axes, ref, speed) ==
  Unchecked(Ask("jog_multi", axes.kind = "list" /\ IsNumber(ref) /\ IsNumber(speed), <<ref>>),
            IsVector(axes))
get_workpiece_weight == Query("get_workpiece_weight", TRUE, <<>>)
reset_workpiece_weight == Ask("reset_workpiece_weight", TRUE, <<>>)

-----------------------------------------------------------------------------
(* Force and compliance: in the program's frame                            *)

\* The time of a transition is -1 or not negative; more than 1 becomes 1.
TransitionOK(time) ==
  (time = None \/ IsNumber(time)) /\ (Given(time, 0) = -1 \/ Given(time, 0) >= 0)
Transition(time) == IF Given(time, 0) > 1 THEN 1 ELSE Given(time, 0)
Timed(req, time) == IF req \in {Rejected, Failed} THEN req ELSE [req EXCEPT !.time = Transition(time)]

PoseOrNone(arg) == arg = None \/ get_posx(arg)
VectorOrNone(arg) == arg = None \/ IsVector(arg)

is_done_bolt_tightening(m, timeout, axis) ==
  Ask("is_done_bolt_tightening",
      /\ m = None \/ IsNumber(m)
      /\ (timeout = None \/ IsNumber(timeout)) /\ Given(timeout, 0) >= 0
      /\ In(axis, DR_AXIS_XYZ), <<axis>>)
release_compliance_ctrl == Ask("release_compliance_ctrl", TRUE, <<>>)
task_compliance_ctrl(stx, time, e) ==
  Timed(AskIn("task_compliance_ctrl", VectorOrNone(stx) /\ TransitionOK(time), <<>>, e.coord), time)
set_stiffnessx(stx, time, e) ==
  Timed(AskIn("set_stiffnessx", VectorOrNone(stx) /\ TransitionOK(time), <<>>, e.coord), time)
set_desired_force(fd, dir, time, mod, e) ==
  Timed(AskIn("set_desired_force",
              /\ VectorOrNone(fd) /\ VectorOrNone(dir) /\ TransitionOK(time)
              /\ mod = None \/ IsNumber(mod),
              <<get_param(mod, Num(0))>> \o [i \in 1..Len(dir.val) |-> Num(dir.val[i])], e.coord), time)
release_force(time) == Timed(Ask("release_force", TransitionOK(time), <<>>), time)

\* A condition has a lower bound, an upper bound or both.
Bounded(min, max) ==
  LET lower == Given(min, COND_NONE)
      upper == Given(max, COND_NONE)
  IN
  /\ min = None \/ IsNumber(min)
  /\ max = None \/ IsNumber(max)
  /\ lower # COND_NONE \/ upper # COND_NONE
  /\ lower # COND_NONE /\ upper # COND_NONE => lower <= upper

\* A position relative to another must name it.
check_position_condition(axis, min, max, ref, mod, pos, e) ==
  AskIn("check_position_condition",
        /\ In(axis, DR_AXIS_XYZ) /\ Bounded(min, max) /\ FrameIn(ref, e, MotionFrames)
        /\ InOrNone(mod, {0, 1}) /\ (pos = None \/ get_normal_pos(pos))
        /\ mod = Num(1) => pos # None,
        <<axis>>, Frame(ref, e))

\* A torque is measured about the axes of the tool, whatever frame was given.
check_force_condition(axis, min, max, ref, e) ==
  LET torque == In(axis, DR_AXIS_ABC) IN
  AskIn("check_force_condition",
        In(axis, DR_AXIS_XYZ \cup DR_AXIS_ABC) /\ Bounded(min, max) /\ FrameIn(ref, e, MotionFrames),
        <<axis>>, IF torque THEN DR_TOOL ELSE Frame(ref, e))

\* Poses as bounds make an absolute condition, numbers one relative to pos;
\* if they are mixed, max decides and min is then of the wrong type.
check_orientation_condition(axis, min, max, ref, mod, pos, e) ==
  LET ok == In(axis, DR_AXIS_ABC) /\ FrameIn(ref, e, MotionFrames)
      relative == IsNumber(max) \/ (max = None /\ IsNumber(min))
  IN
  IF relative
  THEN AskIn("check_orientation_condition2",
             ok /\ Bounded(min, max) /\ InOrNone(mod, {1}) /\ get_normal_pos(pos), <<axis>>, Frame(ref, e))
  ELSE AskIn("check_orientation_condition1",
             ok /\ PoseOrNone(min) /\ PoseOrNone(max) /\ InOrNone(mod, {0}), <<axis>>,
             Frame(ref, e))

-----------------------------------------------------------------------------
(* I/O of the control box and of the tool; analog outputs are in AnalogApi. *)

DioIndices == 1..16
ToolIndices == 1..6

\* A negative index without a value switches the output off.
SetOutput(srv, index, val, S) ==
  IF val = None
  THEN IF ~ (IsNumber(index) /\ Value(index) # 0
             /\ (Value(index) \in S \/ - Value(index) \in S)) THEN Rejected
       ELSE IF Value(index) < 0 THEN Ask(srv, TRUE, <<Num(- Value(index)), Num(0)>>)
       ELSE Ask(srv, TRUE, <<index, Num(1)>>)
  ELSE Ask(srv, In(index, S) /\ In(val, {0, 1}), <<index, val>>)

get_digital_input(index) == Query("get_digital_input", In(index, DioIndices), <<index>>)
get_analog_input(ch) == Query("get_analog_input", In(ch, 1..2), <<ch>>)
get_tool_digital_input(index) == Query("get_tool_digital_input", In(index, ToolIndices), <<index>>)
set_digital_output(index, val) == SetOutput("set_digital_output", index, val, DioIndices)
get_digital_output(index) == Query("get_digital_output", In(index, DioIndices), <<index>>)
set_tool_digital_output(index, val) == SetOutput("set_tool_digital_output", index, val, ToolIndices)
get_tool_digital_output(index) == Query("get_tool_digital_output", In(index, ToolIndices), <<index>>)

-----------------------------------------------------------------------------
(* Modbus.  The registers' index and value are checked against 65535 and    *)
(* sent in an int8.                                                        *)

Word == 0..65535
OutputRegisters == {1, 3}

add_modbus_signal(ip, port, name, type, index, value, slaveid) ==
  Ask("add_modbus_signal",
      /\ IsStr(ip) /\ In(port, Word \ {0}) /\ IsStr(name) /\ In(type, 0..3) /\ In(index, Word)
      /\ InOrNone(value, Word) /\ InOrNone(slaveid, (0..247) \cup {255}),
      <<type, index, IF Value(type) \in OutputRegisters THEN get_param(value, Num(0)) ELSE Num(0)>>)
del_modbus_signal(name) == Ask("del_modbus_signal", IsStr(name), <<>>)
set_modbus_output(name, val) == Ask("set_modbus_output", IsStr(name) /\ IsNumber(val), <<>>)
get_modbus_input(name) == Query("get_modbus_input", IsStr(name), <<>>)

-----------------------------------------------------------------------------
(* Tools, and programs in the controller's own language.  A pose or a      *)
(* vector is converted item by item without having been checked.           *)

set_tcp(name) == Ask("set_tcp", IsStr(name), <<>>)
get_tcp == Query("get_tcp", TRUE, <<>>)
set_tool(name) == Ask("set_tool", IsStr(name), <<>>)
get_tool == Query("get_tool", TRUE, <<>>)
set_tool_shape(name) == Ask("set_tool_shape", IsStr(name), <<>>)
add_tcp(name, pos) == Unchecked(Ask("add_tcp", IsStr(name), <<>>), IsVector(pos))
del_tcp(name) == Ask("del_tcp", IsStr(name), <<>>)
add_tool(name, weight, cog, inertia) ==
  Unchecked(Ask("add_tool", IsStr(name), <<>>),
            IsNumber(weight) /\ IsList(cog, 3) /\ IsList(inertia, 6))
del_tool(name) == Ask("del_tool", IsStr(name), <<>>)

drl_script_run(system, code) == Ask("drl_script_run", IsStr(code), <<system>>)
drl_script_stop(mode) == Ask("drl_script_stop", IsNumber(mode), <<mode>>)
drl_script_pause == Ask("drl_script_pause", TRUE, <<>>)
drl_script_resume == Ask("drl_script_resume", TRUE, <<>>)
get_drl_state == Query("get_drl_state", TRUE, <<>>)
=============================================================================
