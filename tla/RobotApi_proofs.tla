--------------------------- MODULE RobotApi_proofs ---------------------------
(***************************************************************************)
(* For any program, that is for any arguments, any number of axes and any  *)
(* frames: the frame it fills in is the controller's, a motion it asks for *)
(* has a speed or a time, and the defaults it has set are speeds to move   *)
(* with.                                                                   *)
(***************************************************************************)
EXTENDS RobotApi, TLAPS

SettingFrame == call.srv = "set_ref_coord"

FrameInv ==
  /\ "coord" \in DOMAIN defaults
  /\ served \in {"no", "yes", "refused"}
  /\ agreed /\ ~ SettingFrame => defaults.coord = frame
  /\ agreed /\ SettingFrame =>
       /\ served = "no" => defaults.coord = frame
       /\ served = "yes" => frame = call.ref
       /\ served # "refused"

\* Whatever the program calls, a call is refused, fails or becomes a request.
Calling ==
  \/ CallMotion \/ CallStream \/ CallObject \/ CallForm \/ CallQuery \/ CallSystem
  \/ CallSetRefCoord \/ CallForce \/ CallDevice \/ CallRealTime

LEMMA CallsBegin == Calling => \E req : Begin(req)
<1>1. CallMotion => \E req : Begin(req)
  BY DEF CallMotion
<1>2. CallStream => \E req : Begin(req)
  BY DEF CallStream
<1>3. CallObject => \E req : Begin(req)
  BY DEF CallObject
<1>4. CallForm => \E req : Begin(req)
  BY DEF CallForm
<1>5. CallQuery => \E req : Begin(req)
  BY DEF CallQuery
<1>6. CallSystem => \E req : Begin(req)
  BY DEF CallSystem
<1>7. CallSetRefCoord => \E req : Begin(req)
  BY DEF CallSetRefCoord
<1>8. CallForce => \E req : Begin(req)
  BY DEF CallForce
<1>9. CallDevice => \E req : Begin(req)
  BY DEF CallDevice
<1>10. CallRealTime => \E req : Begin(req)
  BY DEF CallRealTime
<1> QED BY <1>1, <1>2, <1>3, <1>4, <1>5, <1>6, <1>7, <1>8, <1>9, <1>10 DEF Calling

LEMMA SetDefaultsKeepsFrame ==
  ASSUME FrameInv, SetDefaults PROVE FrameInv'
<1>1. ASSUME NEW field \in {"velj", "accj", "velx", "accx"}, NEW speed, Set(field, speed)
      PROVE  FrameInv'
  BY <1>1 DEF Set, FrameInv, SettingFrame
<1>2. ASSUME Raise PROVE FrameInv'
  BY <1>2 DEF Raise, FrameInv, SettingFrame
<1>3. CASE \E vel \in SpeedArgs : set_velj(vel)
  BY <1>1, <1>2, <1>3 DEF set_velj
<1>4. CASE \E acc \in SpeedArgs : set_accj(acc)
  BY <1>1, <1>2, <1>4 DEF set_accj
<1>5. CASE \E vel \in SpeedPairs : set_velx(vel[1], vel[2])
  BY <1>1, <1>2, <1>5 DEF set_velx
<1>6. CASE \E acc \in SpeedPairs : set_accx(acc[1], acc[2])
  BY <1>1, <1>2, <1>6 DEF set_accx
<1> QED BY <1>3, <1>4, <1>5, <1>6 DEF SetDefaults

LEMMA FrameInvariance == Spec => []FrameInv
<1>1. Init => FrameInv
  BY DEF Init, FrameInv, SettingFrame, Idle, Request
<1>2. FrameInv /\ [Next]_vars => FrameInv'
  <2> SUFFICES ASSUME FrameInv, [Next]_vars PROVE FrameInv'
    OBVIOUS
  <2>1. CASE SetDefaults
    BY <2>1, SetDefaultsKeepsFrame
  <2>2. CASE ConstructSegment
    <3>1. Raise
      BY <2>2 DEF ConstructSegment, Segment
    <3> QED BY <3>1 DEF Raise, FrameInv, SettingFrame
  <2>3. CASE Calling
    <3>1. PICK req : Begin(req)
      BY <2>3, CallsBegin
    <3>2. CASE Raise \/ Fail
      BY <3>2 DEF Raise, Fail, FrameInv, SettingFrame
    <3>3. CASE /\ call' = req /\ served' = "no"
               /\ UNCHANGED <<alive, defaults, frame, agreed>>
      <4>1. ~ SettingFrame
        BY <3>1 DEF Begin, SettingFrame, Idle, Request
      <4> QED BY <3>3, <4>1 DEF FrameInv, SettingFrame
    <3> QED BY <3>1, <3>2, <3>3 DEF Begin
  <2>4. CASE Serve
    BY <2>4 DEF Serve, FrameInv, SettingFrame
  <2>5. CASE Answer
    BY <2>5 DEF Answer, KeepCoord, FrameInv, SettingFrame, Idle, Request
  <2>6. CASE AnswerLost
    BY <2>6 DEF AnswerLost, KeepCoord, FrameInv, SettingFrame, Idle, Request
  <2>7. CASE Published
    BY <2>7 DEF Published, Streams, FrameInv, SettingFrame, Idle, Request
  <2>8. CASE OtherSetsFrame
    BY <2>8 DEF OtherSetsFrame, FrameInv, SettingFrame
  <2>9. CASE Over \/ UNCHANGED vars
    BY <2>9 DEF Over, vars, FrameInv, SettingFrame
  <2> QED BY <2>1, <2>2, <2>3, <2>4, <2>5, <2>6, <2>7, <2>8, <2>9 DEF Next, Calling
<1> QED BY <1>1, <1>2, PTL DEF Spec

\* Between calls, the frame that a program fills in where it names none is the
\* controller's, if the last to set it was a set_ref_coord that succeeded.
THEOREM FrameAgrees == Spec => []FrameIsCurrent
<1>1. FrameInv => FrameIsCurrent
  BY DEF FrameInv, FrameIsCurrent, SettingFrame, Idle, Request
<1> QED BY <1>1, FrameInvariance, PTL

-----------------------------------------------------------------------------
(* Requests.  One is RequestOK if SpeedIsGiven holds of it and a frame that *)
(* it sets is one the program may keep; and Plainly so if its service is    *)
(* not one of those that this is about.                                    *)

Motions == TaskMotions \cup JointMotions

SpeedOK(req) ==
  NoTime(req.time) =>
    /\ req.srv \in TaskMotions => BothPositive(req.vel) /\ BothPositive(req.acc)
    /\ req.srv \in JointMotions => SomePositive(req.vel) /\ SomePositive(req.acc)

FrameFits(req) == req.srv = "set_ref_coord" => req.ref \in NamedFrames \cap Int8

RequestOK(req) == SpeedOK(req) /\ FrameFits(req)

Plainly(req) == req.srv \notin Motions \cup {"set_ref_coord"}

LEMMA PlainlyOK == \A req : Plainly(req) => RequestOK(req)
  BY DEF Plainly, RequestOK, FrameFits, SpeedOK, Motions

LEMMA NoRequest == Plainly(Rejected) /\ Plainly(Failed) /\ Plainly(Idle)
  BY DEF Plainly, Motions, TaskMotions, JointMotions, Rejected, Failed, Idle, Request

\* A service that is no motion may be asked in any way.
LEMMA PlainCalls ==
  ASSUME NEW srv, NEW ok, NEW args, NEW ref, NEW reply,
         srv \notin Motions \cup {"set_ref_coord"}
  PROVE  /\ Plainly(Call(srv, ok, args, ref, reply))
         /\ Plainly(Ask(srv, ok, args)) /\ Plainly(AskIn(srv, ok, args, ref))
         /\ Plainly(Query(srv, ok, args)) /\ Plainly(QueryIn(srv, ok, args, ref))
         /\ Plainly(QueryInWorld(srv, ok, args, ref)) /\ Plainly(Checked(srv, ok))
<1>1. ASSUME NEW o, NEW as, NEW r, NEW how PROVE Plainly(Call(srv, o, as, r, how))
  <2>1. [Request(srv, [i \in DOMAIN as |-> Value(as[i])], <<>>, 0, r) EXCEPT !.reply = how].srv = srv
    BY DEF Request
  <2> QED BY <2>1, NoRequest DEF Call, Plainly
<1> QED BY <1>1 DEF Ask, AskIn, Query, QueryIn, QueryInWorld, Checked

LEMMA JointRequestOK ==
  ASSUME NEW srv, NEW vel, NEW acc, NEW time, NEW ref,
         srv \notin TaskMotions \cup {"set_ref_coord"}, check_valid_vel_acc_joint(vel, acc, time)
  PROVE  RequestOK(Request(srv, vel, acc, time, ref))
  BY DEF RequestOK, FrameFits, SpeedOK, Request, check_valid_vel_acc_joint

LEMMA TaskRequestOK ==
  ASSUME NEW srv, NEW vel, NEW acc, NEW time, NEW ref,
         srv \notin JointMotions \cup {"set_ref_coord"}, check_valid_vel_acc_task(vel, acc, time)
  PROVE  RequestOK(Request(srv, vel, acc, time, ref))
  BY DEF RequestOK, FrameFits, SpeedOK, Request, check_valid_vel_acc_task

\* What is added to a request later does not matter.
LEMMA Composed ==
  ASSUME NEW srv, NEW vel, NEW acc, NEW time, NEW ref, NEW b, NEW sync,
         RequestOK(Request(srv, vel, acc, time, ref))
  PROVE  /\ RequestOK([Request(srv, vel, acc, time, ref) EXCEPT !.sync = sync])
         /\ RequestOK(Motion(Request(srv, vel, acc, time, ref), b))
<1>1. RequestOK(Failed)
  BY NoRequest, PlainlyOK
<1> QED BY <1>1 DEF RequestOK, FrameFits, SpeedOK, Request, Motion

LEMMA JointMotionsOK ==
  ASSUME NEW a, NEW e
  PROVE  /\ RequestOK(movej(a, e)) /\ RequestOK(movejx(a, e)) /\ RequestOK(movesj(a, e))
         /\ RequestOK(move_spiral(a, e)) /\ RequestOK(move_periodic(a, e))
<1>0. RequestOK(Rejected) /\ RequestOK(Failed)
  BY NoRequest, PlainlyOK
<1>1. \A vel, acc, time, ref : RequestOK(Request("move_joint", vel, acc, time, ref))
  BY DEF RequestOK, FrameFits, SpeedOK, Request, TaskMotions, JointMotions
<1>2. \A vel, acc, time, ref : RequestOK(Request("move_jointx", vel, acc, time, ref))
  BY DEF RequestOK, FrameFits, SpeedOK, Request, TaskMotions, JointMotions
<1>3. \A vel, acc, time, ref : RequestOK(Request("move_periodic", vel, acc, time, ref))
  BY DEF RequestOK, FrameFits, SpeedOK, Request, TaskMotions, JointMotions
<1>4. RequestOK(movej(a, e)) /\ RequestOK(movejx(a, e)) /\ RequestOK(move_periodic(a, e))
  BY <1>0, <1>1, <1>2, <1>3, Composed DEF movej, movejx, move_periodic
<1>5. RequestOK(movesj(a, e))
  BY <1>0, JointRequestOK, Composed DEF movesj, JointOK, TaskMotions
<1>6. RequestOK(move_spiral(a, e))
  BY <1>0, JointRequestOK, Composed DEF move_spiral, TaskMotions
<1> QED BY <1>4, <1>5, <1>6

LEMMA TaskMotionsOK ==
  ASSUME NEW a, NEW e
  PROVE  /\ RequestOK(movel(a, e)) /\ RequestOK(movec(a, e)) /\ RequestOK(movesx(a, e))
         /\ RequestOK(moveb(a, e))
<1>0. RequestOK(Rejected) /\ RequestOK(Failed)
  BY NoRequest, PlainlyOK
<1>1. ASSUME NEW srv, NEW b, srv \notin JointMotions \cup {"set_ref_coord"}, TaskSpeedsOK(b, e)
      PROVE  /\ RequestOK(Motion(TaskRequest(srv, b, e), b))
             /\ RequestOK([TaskRequest(srv, b, e) EXCEPT !.sync = b.async])
  BY <1>1, TaskRequestOK, Composed DEF TaskSpeedsOK, TaskRequest
<1>2. RequestOK(movel(a, e))
  BY <1>0, <1>1 DEF movel, TaskOK, JointMotions
<1>3. RequestOK(movec(a, e))
  BY <1>0, <1>1 DEF movec, TaskOK, JointMotions
<1>4. RequestOK(movesx(a, e))
  BY <1>0, <1>1 DEF movesx, TaskOK, JointMotions
<1>5. RequestOK(moveb(a, e))
  BY <1>0, <1>1 DEF moveb, JointMotions
<1> QED BY <1>2, <1>3, <1>4, <1>5

LEMMA StreamsOK ==
  ASSUME NEW a, NEW e
  PROVE  /\ RequestOK(servoj(a, e)) /\ RequestOK(servol(a, e)) /\ RequestOK(speedj(a)) /\ RequestOK(speedl(a))
         /\ RequestOK(servoj_rt(a, e)) /\ RequestOK(servol_rt(a)) /\ RequestOK(speedj_rt(a))
         /\ RequestOK(speedl_rt(a)) /\ RequestOK(torque_rt(a)) /\ RequestOK(alter_motion_stream(a))
<1>0. RequestOK(Rejected)
  BY NoRequest, PlainlyOK
<1> USE <1>0 DEF TaskMotions, JointMotions
<1>1. RequestOK(servoj(a, e))
  BY JointRequestOK DEF servoj, JointOK
<1>2. RequestOK(servol(a, e))
  BY TaskRequestOK DEF servol
<1>3. RequestOK(speedj(a))
  BY JointRequestOK DEF speedj
<1>4. RequestOK(speedl(a))
  BY TaskRequestOK DEF speedl
<1>5. RequestOK(servoj_rt(a, e))
  BY JointRequestOK DEF servoj_rt, JointOK
<1>6. RequestOK(servol_rt(a))
  BY TaskRequestOK DEF servol_rt
<1>7. RequestOK(speedj_rt(a))
  BY JointRequestOK DEF speedj_rt
<1>8. RequestOK(speedl_rt(a))
  BY TaskRequestOK DEF speedl_rt
<1>9. RequestOK(torque_rt(a)) /\ RequestOK(alter_motion_stream(a))
  BY DEF torque_rt, alter_motion_stream, RequestOK, FrameFits, SpeedOK, Request
<1> QED BY <1>1, <1>2, <1>3, <1>4, <1>5, <1>6, <1>7, <1>8, <1>9

\* Requests that are no motions, however they are made
LEMMA QueriesOK == CallQuery => \E req : Begin(req) /\ RequestOK(req)
<1> SUFFICES ASSUME CallQuery PROVE \E req : Begin(req) /\ Plainly(req)
  BY PlainlyOK
<1> USE PlainCalls DEF Motions, TaskMotions, JointMotions
<1>1. ASSUME NEW req \in {get_robot_mode, get_robot_system, get_robot_state, get_robot_speed_mode,
                 get_current_solution_space, get_last_alarm, get_control_mode, get_control_space,
                 get_current_posj, get_current_velj, get_desired_posj, get_desired_velj,
                 get_joint_torque, get_external_torque, get_robot_link_info, check_motion,
                 get_workpiece_weight, get_tcp, get_tool, get_drl_state, read_data_rt,
                 get_rt_control_output_version_list, get_rt_control_input_version_list}
      PROVE  Plainly(req)
  BY DEF get_robot_mode, get_robot_system, get_robot_state, get_robot_speed_mode,
         get_current_solution_space, get_last_alarm, get_control_mode, get_control_space,
         get_current_posj, get_current_velj, get_desired_posj, get_desired_velj,
         get_joint_torque, get_external_torque, get_robot_link_info, check_motion,
         get_workpiece_weight, get_tcp, get_tool, get_drl_state, read_data_rt,
         get_rt_control_output_version_list, get_rt_control_input_version_list
<1>2. ASSUME NEW x
      PROVE  /\ Plainly(get_current_pose(x)) /\ Plainly(get_current_posx(x, defaults))
             /\ Plainly(get_current_tool_flange_posx(x)) /\ Plainly(get_current_velx(x))
             /\ Plainly(get_desired_posx(x, defaults)) /\ Plainly(get_desired_velx(x))
             /\ Plainly(get_current_rotm(x)) /\ Plainly(get_tool_force(x))
             /\ Plainly(get_user_cart_coord(x)) /\ Plainly(get_digital_input(x))
             /\ Plainly(get_analog_input(x)) /\ Plainly(get_tool_digital_input(x))
             /\ Plainly(get_digital_output(x)) /\ Plainly(get_tool_digital_output(x))
  BY DEF get_current_pose, get_current_posx, get_current_tool_flange_posx, get_current_velx,
         get_desired_posx, get_desired_velx, get_current_rotm, get_tool_force, get_user_cart_coord,
         get_digital_input, get_analog_input, get_tool_digital_input, get_digital_output,
         get_tool_digital_output
<1>3. ASSUME NEW p, NEW x, NEW y
      PROVE  /\ Plainly(get_solution_space(p)) /\ Plainly(get_orientation_error(p, p, x))
             /\ Plainly(trans(p, p, x, y, defaults)) /\ Plainly(fkin(p, x)) /\ Plainly(ikin(p, x, y))
             /\ Plainly(coord_transform(p, x, y)) /\ Plainly(get_rt_control_input_data_list(x))
             /\ Plainly(get_rt_control_output_data_list(x)) /\ Plainly(get_modbus_input(x))
  BY DEF get_solution_space, get_orientation_error, trans, fkin, ikin, coord_transform,
         get_rt_control_input_data_list, get_rt_control_output_data_list, get_modbus_input
<1> QED BY <1>1, <1>2, <1>3 DEF CallQuery

\* Adding a time or a result to a request that is no motion makes it none.
LEMMA PlainChanges ==
  ASSUME NEW req, Plainly(req), NEW x
  PROVE  Plainly(Timed(req, x)) /\ Plainly(Unchecked(req, x))
<1>1. [req EXCEPT !.time = Transition(x)].srv = req.srv
  OBVIOUS
<1> QED BY <1>1, NoRequest DEF Timed, Unchecked, Plainly

LEMMA SystemOK == CallSystem => \E req : Begin(req) /\ RequestOK(req)
<1> SUFFICES ASSUME CallSystem PROVE \E req : Begin(req) /\ Plainly(req)
  BY PlainlyOK
<1> USE PlainCalls, PlainChanges, NoRequest DEF Motions, TaskMotions, JointMotions
<1>1. ASSUME NEW x, NEW y, NEW z
      PROVE  /\ Plainly(set_robot_mode(x)) /\ Plainly(set_robot_system(x))
             /\ Plainly(set_robot_speed_mode(x)) /\ Plainly(set_safe_stop_reset_type(x))
             /\ Plainly(change_collision_sensitivity(x)) /\ Plainly(set_safety_mode(x, y))
             /\ Plainly(move_home(x)) /\ Plainly(mwait(x)) /\ Plainly(change_operation_speed(x))
             /\ Plainly(set_singularity_handling(x)) /\ Plainly(set_singular_handling_force(x))
             /\ Plainly(jog(x, y, z)) /\ Plainly(is_done_bolt_tightening(x, y, z))
             /\ Plainly(drl_script_stop(x)) /\ Plainly(drl_script_run(x, y))
  BY DEF set_robot_mode, set_robot_system, set_robot_speed_mode, set_safe_stop_reset_type,
         change_collision_sensitivity, set_safety_mode, move_home, mwait, change_operation_speed,
         set_singular_handling, set_singularity_handling, set_singular_handling_force, jog,
         is_done_bolt_tightening, drl_script_stop, drl_script_run
<1>2. ASSUME NEW p, NEW x, NEW y
      PROVE  /\ Plainly(enable_alter_motion(p, x, y, defaults)) /\ Plainly(alter_motion(p))
             /\ Plainly(jog_multi(p, x, y)) /\ Plainly(overwrite_user_cart_coord(x, p, y))
             /\ Plainly(add_tcp(x, p))
  BY DEF enable_alter_motion, alter_motion, jog_multi, overwrite_user_cart_coord, add_tcp
<1>3. /\ Plainly(reset_workpiece_weight) /\ Plainly(disable_alter_motion)
      /\ Plainly(drl_script_pause) /\ Plainly(drl_script_resume)
  BY DEF reset_workpiece_weight, disable_alter_motion, drl_script_pause, drl_script_resume
<1> QED BY <1>1, <1>2, <1>3 DEF CallSystem

LEMMA ForceOK == CallForce => \E req : Begin(req) /\ RequestOK(req)
<1> SUFFICES ASSUME CallForce PROVE \E req : Begin(req) /\ Plainly(req)
  BY PlainlyOK
<1> USE PlainCalls, PlainChanges DEF Motions, TaskMotions, JointMotions
<1>1. ASSUME NEW p, NEW time, NEW mod
      PROVE  /\ Plainly(task_compliance_ctrl(p, time, defaults))
             /\ Plainly(set_stiffnessx(p, time, defaults))
             /\ Plainly(set_desired_force(p, p, time, mod, defaults))
             /\ Plainly(release_force(time)) /\ Plainly(release_compliance_ctrl)
  BY DEF task_compliance_ctrl, set_stiffnessx, set_desired_force, release_force,
         release_compliance_ctrl
<1>2. ASSUME NEW axis, NEW min, NEW max, NEW ref, NEW mod, NEW p
      PROVE  /\ Plainly(check_position_condition(axis, min, max, ref, mod, p, defaults))
             /\ Plainly(check_force_condition(axis, min, max, ref, defaults))
             /\ Plainly(check_orientation_condition(axis, min, max, ref, mod, p, defaults))
  BY DEF check_position_condition, check_force_condition, check_orientation_condition
<1> QED BY <1>1, <1>2 DEF CallForce

LEMMA DeviceOK == CallDevice => \E req : Begin(req) /\ RequestOK(req)
<1> SUFFICES ASSUME CallDevice PROVE \E req : Begin(req) /\ Plainly(req)
  BY PlainlyOK
<1> USE PlainCalls, PlainChanges, NoRequest DEF Motions, TaskMotions, JointMotions
<1>1. ASSUME NEW x, NEW val
      PROVE  /\ Plainly(set_digital_output(x, val)) /\ Plainly(set_tool_digital_output(x, val))
             /\ Plainly(set_modbus_output(x, val))
  BY DEF set_digital_output, set_tool_digital_output, SetOutput, set_modbus_output
<1>2. ASSUME NEW ip, NEW port, NEW name, NEW type, NEW index, NEW value, NEW slave
      PROVE  Plainly(add_modbus_signal(ip, port, name, type, index, value, slave))
  BY DEF add_modbus_signal
<1>3. ASSUME NEW name, NEW w, NEW c, NEW i
      PROVE  /\ Plainly(set_tcp(name)) /\ Plainly(set_tool(name)) /\ Plainly(set_tool_shape(name))
             /\ Plainly(del_tcp(name)) /\ Plainly(del_tool(name)) /\ Plainly(del_modbus_signal(name))
             /\ Plainly(add_tool(name, w, c, i))
  BY DEF set_tcp, set_tool, set_tool_shape, del_tcp, del_tool, del_modbus_signal, add_tool
<1> QED BY <1>1, <1>2, <1>3 DEF CallDevice

LEMMA RealTimeOK == CallRealTime => \E req : Begin(req) /\ RequestOK(req)
<1> SUFFICES ASSUME CallRealTime PROVE \E req : Begin(req) /\ Plainly(req)
  BY PlainlyOK
<1> USE PlainCalls DEF Motions, TaskMotions, JointMotions
<1>1. Plainly(start_rt_control) /\ Plainly(stop_rt_control) /\ Plainly(disconnect_rt_control)
  BY DEF start_rt_control, stop_rt_control, disconnect_rt_control
<1>2. ASSUME NEW name, NEW x, NEW y
      PROVE  /\ Plainly(connect_rt_control(name, x)) /\ Plainly(set_rt_control_input(name, x, y))
             /\ Plainly(set_rt_control_output(name, x, y))
             /\ Plainly(set_velx_rt(x, y)) /\ Plainly(set_accx_rt(x, y))
  BY DEF connect_rt_control, set_rt_control_input, set_rt_control_output, set_velx_rt, set_accx_rt
<1>3. ASSUME NEW p, NEW x, NEW y
      PROVE  Plainly(set_velj_rt(p)) /\ Plainly(set_accj_rt(p)) /\ Plainly(write_data_rt(p, x, y, p, p))
  BY DEF set_velj_rt, set_accj_rt, write_data_rt
<1> QED BY <1>1, <1>2, <1>3 DEF CallRealTime

LEMMA FormsOK == CallForm => \E req : Begin(req) /\ RequestOK(req)
<1> SUFFICES ASSUME CallForm PROVE \E req : Begin(req) /\ Plainly(req)
  BY PlainlyOK
<1> USE PlainCalls, NoRequest DEF Motions, TaskMotions, JointMotions
<1>1. ASSUME NEW srv, srv \notin Motions \cup {"set_ref_coord"}, NEW f, NEW ref, NEW reply, NEW sent
      PROVE  /\ Plainly(Sent(srv, f, ref, reply))
             /\ Plainly([Sent(srv, f, ref, reply) EXCEPT !.sent = sent])
  <2> DEFINE sentRef == IF "ref" \in Names(f) THEN ref ELSE DR_BASE
  <2>0. Sent(srv, f, ref, reply).srv = Call(srv, TRUE, <<>>, sentRef, reply).srv
    BY DEF Sent, Call, Request, Rejected, Failed
  <2>a. Plainly(Call(srv, TRUE, <<>>, sentRef, reply))
    <3> HIDE DEF sentRef
    <3> QED BY <1>1
  <2>1. Plainly(Sent(srv, f, ref, reply))
    BY <2>0, <2>a DEF Plainly
  <2>2. [Sent(srv, f, ref, reply) EXCEPT !.sent = sent].srv = Sent(srv, f, ref, reply).srv
    <3>1. "srv" \in DOMAIN Sent(srv, f, ref, reply)
      BY DEF Sent, Call, Request, Rejected, Failed
    <3> QED BY <3>1
  <2> QED BY <2>1, <2>2 DEF Plainly
<1>2. ASSUME NEW f, NEW ref
      PROVE  /\ Plainly(parallel_axis(f, ref)) /\ Plainly(align_axis(f, ref))
             /\ Plainly(calc_coord(f, ref)) /\ Plainly(set_user_cart_coord(f, ref))
  BY <1>1 DEF parallel_axis, align_axis, calc_coord, set_user_cart_coord, UserCoordService
<1> QED BY <1>2 DEF CallForm

LEMMA ObjectsOK == CallObject => \E req : Begin(req) /\ RequestOK(req)
<1> USE NoRequest, PlainlyOK
<1>1. ASSUME NEW a, NEW coord
      PROVE  /\ RequestOK(object_movej(a)) /\ RequestOK(object_movejx(a)) /\ RequestOK(object_movesj(a))
             /\ RequestOK(object_movel(a)) /\ RequestOK(object_movec(a, coord))
             /\ RequestOK(object_movesx(a, coord)) /\ RequestOK(object_moveb(a))
             /\ RequestOK(object_move_spiral(a)) /\ RequestOK(object_move_periodic(a))
  BY JointMotionsOK, TaskMotionsOK
     DEF object_movej, object_movejx, object_movesj, object_movel, object_movec, object_movesx,
         object_moveb, object_move_spiral, object_move_periodic, Unchecked
<1>2. ASSUME NEW x
      PROVE  Plainly(object_move_home(x)) /\ Plainly(object_get_tool_force(x))
  <2>1. Plainly(move_home(x)) /\ Plainly(object_get_tool_force(x))
    BY PlainCalls DEF move_home, object_get_tool_force, Motions, TaskMotions, JointMotions
  <2>2. [move_home(x) EXCEPT !.reply = "ignored"].srv = move_home(x).srv
    BY DEF move_home, Ask, Call, Request, Rejected, Failed
  <2> QED BY <2>1, <2>2 DEF object_move_home, Plainly
<1>3. ASSUME NEW axis, NEW min, NEW max, NEW ref, NEW coord
      PROVE  Plainly(object_check_force_condition(axis, min, max, ref, coord))
  BY PlainCalls
     DEF object_check_force_condition, check_force_condition, Motions, TaskMotions, JointMotions
<1> QED BY <1>1, <1>2, <1>3 DEF CallObject

LEMMA SetRefCoordOK == CallSetRefCoord => \E req : Begin(req) /\ RequestOK(req)
<1>1. ASSUME NEW coord PROVE RequestOK(set_ref_coord(coord))
  <2>1. RequestOK(Rejected) /\ RequestOK(Failed)
    BY NoRequest, PlainlyOK
  <2>2. CASE In(coord, NamedFrames) /\ set_ref_coord(coord) \notin {Rejected, Failed}
    <3>1. /\ set_ref_coord(coord).srv = "set_ref_coord"
          /\ set_ref_coord(coord).ref = Value(coord) /\ Value(coord) \in Int8
      BY <2>2 DEF set_ref_coord, AskIn, Call, Request
    <3>2. Value(coord) \in NamedFrames
      BY <2>2 DEF In
    <3> QED BY <3>1, <3>2 DEF RequestOK, FrameFits, SpeedOK, TaskMotions, JointMotions
  <2> QED BY <2>1, <2>2 DEF set_ref_coord
<1> QED BY <1>1 DEF CallSetRefCoord

LEMMA CallsOK == Calling => \E req : Begin(req) /\ RequestOK(req)
<1>1. CallMotion => \E req : Begin(req) /\ RequestOK(req)
  BY JointMotionsOK, TaskMotionsOK DEF CallMotion
<1>2. CallStream => \E req : Begin(req) /\ RequestOK(req)
  BY StreamsOK DEF CallStream
<1> QED BY <1>1, <1>2, QueriesOK, SystemOK, ForceOK, DeviceOK, RealTimeOK, FormsOK, ObjectsOK,
           SetRefCoordOK DEF Calling

CallOK == RequestOK(call)

LEMMA RequestInvariance == Spec => []CallOK
<1>0. RequestOK(Idle)
  BY NoRequest, PlainlyOK
<1>1. Init => CallOK
  BY <1>0 DEF Init, CallOK
<1>2. CallOK /\ [Next]_vars => CallOK'
  <2> SUFFICES ASSUME CallOK, [Next]_vars PROVE CallOK'
    OBVIOUS
  <2>1. CASE SetDefaults
    BY <2>1 DEF SetDefaults, set_velj, set_accj, set_velx, set_accx, Set, Raise, CallOK
  <2>2. CASE ConstructSegment
    BY <2>2 DEF ConstructSegment, Segment, Raise, CallOK
  <2>3. CASE Calling
    BY <2>3, CallsOK DEF Begin, Raise, Fail, CallOK
  <2>4. CASE Serve \/ Answer \/ AnswerLost \/ Published \/ OtherSetsFrame \/ Over \/ UNCHANGED vars
    BY <2>4, <1>0 DEF Serve, Answer, AnswerLost, Published, OtherSetsFrame, Over, vars, CallOK
  <2> QED BY <2>1, <2>2, <2>3, <2>4 DEF Next, Calling
<1> QED BY <1>1, <1>2, PTL DEF Spec

\* Whatever a program calls, with whatever arguments, nothing is sent to move
\* without a time that has no speed or no acceleration.
THEOREM MotionsHaveSpeed == Spec => []SpeedIsGiven
<1>1. CallOK => SpeedIsGiven
  BY DEF CallOK, RequestOK, SpeedOK, SpeedIsGiven
<1> QED BY <1>1, RequestInvariance, PTL

-----------------------------------------------------------------------------
(* Defaults.  What the setters let through is enough for the motions.      *)

\* A default is the one the module starts with, or what a setter takes.
DefaultsInv ==
  /\ DOMAIN defaults = {"velj", "accj", "velx", "accx", "coord"}
  /\ \A field \in {"velj", "accj"} :
       /\ defaults[field] \in [1..Axes -> Int]
       /\ defaults[field] = Zeros \/ Positive(defaults[field])
  /\ \A field \in {"velx", "accx"} :
       /\ defaults[field] \in Int \X Int
       /\ defaults[field] = TaskZero \/ BothPositive(defaults[field])
  /\ defaults.coord \in NamedFrames \cap Int8

LEMMA JointDefaults ==
  ASSUME NEW arg, arg.val \in Seq(Int), IsNumber(arg) => Len(arg.val) = 1, JointDefaultOK(arg)
  PROVE  JointSpeed(arg, <<>>) \in [1..Axes -> Int] /\ Positive(JointSpeed(arg, <<>>))
<1>1. arg # None
  BY DEF JointDefaultOK, IsNumber, IsVector, IsList, None
<1>2. CASE IsNumber(arg)
  <2>1. Value(arg) \in Int
    BY <1>2 DEF Value
  <2>2. JointSpeed(arg, <<>>) = [i \in 1..Axes |-> Value(arg)]
    BY <1>1, <1>2 DEF JointSpeed
  <2> QED BY <2>1, <2>2 DEF JointDefaultOK
<1>3. CASE ~ IsNumber(arg)
  <2>1. JointSpeed(arg, <<>>) = arg.val
    BY <1>1, <1>3 DEF JointSpeed
  <2>2. Len(arg.val) = Axes
    BY <1>3 DEF JointDefaultOK, IsVector, IsList
  <2>3. arg.val \in [1..Axes -> Int]
    BY <2>2
  <2> QED BY <2>1, <2>3 DEF JointDefaultOK
<1> QED BY <1>2, <1>3

LEMMA TaskDefaults ==
  ASSUME NEW first, NEW second,
         \A arg \in {first, second} : arg.val \in Seq(Int) /\ (IsNumber(arg) => Len(arg.val) = 1),
         TaskDefaultOK(first, second)
  PROVE  /\ <<Value(first), Given(second, COND_NONE)>> \in Int \X Int
         /\ BothPositive(<<Value(first), Given(second, COND_NONE)>>)
<1>1. Value(first) \in Int /\ Value(first) > 0
  BY DEF TaskDefaultOK, Value
<1>2. Given(second, COND_NONE) \in Int
  BY DEF TaskDefaultOK, Given, Value, COND_NONE
<1> QED BY <1>1, <1>2 DEF TaskDefaultOK, BothPositive

LEMMA DefaultsInvariance == Spec => []DefaultsInv
<1>1. Init => DefaultsInv
  BY AxesAssumption DEF Init, DefaultsInv, Zeros, TaskZero, COND_NONE, NamedFrames, Int8, DR_BASE, DR_TOOL,
     DR_WORLD
<1>2. CallOK /\ DefaultsInv /\ [Next]_vars => DefaultsInv'
  <2> SUFFICES ASSUME CallOK, DefaultsInv, [Next]_vars PROVE DefaultsInv'
    OBVIOUS
  <2>1. CASE UNCHANGED defaults
    BY <2>1 DEF DefaultsInv
  <2>2. ASSUME NEW field \in {"velj", "accj"}, NEW arg \in SpeedArgs,
               JointDefaultOK(arg), Set(field, JointSpeed(arg, <<>>))
        PROVE  DefaultsInv'
    <3>1. JointSpeed(arg, <<>>) \in [1..Axes -> Int] /\ Positive(JointSpeed(arg, <<>>))
      BY <2>2, SpeedArgsAssumption, JointDefaults
    <3> QED BY <2>2, <3>1 DEF Set, DefaultsInv
  <2>3. ASSUME NEW field \in {"velx", "accx"}, NEW p \in SpeedPairs, TaskDefaultOK(p[1], p[2]),
               Set(field, <<Value(p[1]), Given(p[2], COND_NONE)>>)
        PROVE  DefaultsInv'
    <3>1. /\ <<Value(p[1]), Given(p[2], COND_NONE)>> \in Int \X Int
          /\ BothPositive(<<Value(p[1]), Given(p[2], COND_NONE)>>)
      BY <2>3, SpeedArgsAssumption, TaskDefaults
    <3> QED BY <2>3, <3>1 DEF Set, DefaultsInv
  <2>4. CASE SetDefaults
    <3>1. CASE \E vel \in SpeedArgs : set_velj(vel)
      BY <2>1, <2>2, <3>1 DEF set_velj, Raise
    <3>2. CASE \E acc \in SpeedArgs : set_accj(acc)
      BY <2>1, <2>2, <3>2 DEF set_accj, Raise
    <3>3. CASE \E vel \in SpeedPairs : set_velx(vel[1], vel[2])
      BY <2>1, <2>3, <3>3 DEF set_velx, Raise
    <3>4. CASE \E acc \in SpeedPairs : set_accx(acc[1], acc[2])
      BY <2>1, <2>3, <3>4 DEF set_accx, Raise
    <3> QED BY <2>4, <3>1, <3>2, <3>3, <3>4 DEF SetDefaults
  <2>5. CASE ConstructSegment
    BY <2>1, <2>5 DEF ConstructSegment, Segment, Raise
  <2>6. CASE Calling
    BY <2>1, <2>6, CallsBegin DEF Begin, Raise, Fail
  <2>7. CASE KeepCoord
    BY <2>7 DEF KeepCoord, DefaultsInv, CallOK, RequestOK, FrameFits
  <2>8. CASE Serve \/ Published \/ OtherSetsFrame \/ Over \/ UNCHANGED vars
    BY <2>1, <2>8 DEF Serve, Published, OtherSetsFrame, Over, vars
  <2> QED BY <2>4, <2>5, <2>6, <2>7, <2>8 DEF Next, Calling, Answer, AnswerLost
<1>3. Spec => []CallOK
  BY RequestInvariance
<1> QED BY <1>1, <1>2, <1>3, PTL DEF Spec

\* What the checks see of the arguments of a call that names only its target
NamesTarget(b, class) ==
  /\ b.vel = None /\ b.acc = None /\ b.time = None /\ b.radius = None /\ b.ref = None
  /\ b.angle = None /\ b.m = None
  /\ b.pos = List(Zeros) /\ b.pos2 = List(Zeros) /\ b.points = List(<<class>>)
  /\ b.mod = Num(0) /\ b.ra = Num(0) /\ b.sol = Num(0) /\ b.vel_opt = Num(0)

LEMMA PlainArguments == \A class : NamesTarget(Aliased(Plain(class)), class)
  BY DEF NamesTarget, Aliased, Plain, get_param

LEMMA PlainTarget ==
  get_posj(List(Zeros)) /\ get_posx(List(Zeros)) /\ get_normal_pos(List(Zeros))
<1>1. Zeros \in Seq(Int) /\ Len(Zeros) = Axes
  BY AxesAssumption DEF Zeros
<1> QED BY <1>1 DEF get_posj, get_posx, get_normal_pos, IsVector, IsList, List

LEMMA GoesOn ==
  ASSUME NEW srv, NEW vel, NEW acc, NEW time, NEW ref, NEW b, NEW sync,
         srv \notin {"rejected", "failed"}
  PROVE  /\ Goes(Request(srv, vel, acc, time, ref))
         /\ Goes([Request(srv, vel, acc, time, ref) EXCEPT !.sync = sync])
         /\ ref \in Int8 => Goes(Motion(Request(srv, vel, acc, time, ref), b))
  BY DEF Goes, Motion, Request, Rejected, Failed

LEMMA CommonChecks ==
  ASSUME DefaultsInv, NEW b, NEW class, NamesTarget(b, class)
  PROVE  /\ RadiusOK(b) /\ ModeOK(b) /\ FrameOK(b, defaults) /\ FrameGiven(b, defaults) \in Int8
         /\ get_posj(b.pos) /\ get_posx(b.pos) /\ get_normal_pos(b.pos) /\ get_normal_pos(b.pos2)
         /\ SameClass(b.pos, b.pos2)
         /\ PointsOK(b, class) /\ ~ TooMany(b) /\ b.points.kind = "list" /\ b.points.val # <<>>
         /\ In(b.mod, {0, 1}) /\ In(b.sol, 0..7) /\ In(b.vel_opt, {0, 1})
         /\ AngleOK(b.angle) /\ InOrNone(get_param(b.mod, b.m), {0, 1})
         /\ b.time = None
<1> USE DEF NamesTarget
<1>1. RadiusOK(b) /\ AngleOK(b.angle) /\ b.time = None
  BY DEF RadiusOK, AngleOK
<1>2. ModeOK(b) /\ In(b.mod, {0, 1}) /\ In(b.sol, 0..7) /\ In(b.vel_opt, {0, 1})
  BY DEF ModeOK, In, IsNumber, Value, Num
<1>3. InOrNone(get_param(b.mod, b.m), {0, 1})
  BY <1>2 DEF InOrNone, get_param, In, IsNumber, None
<1>4. FrameGiven(b, defaults) = defaults.coord
  BY DEF FrameGiven, Given
<1>5. FrameOK(b, defaults) /\ FrameGiven(b, defaults) \in Int8
  BY <1>4 DEF FrameOK, DefaultsInv, MotionFrames, NamedFrames, UserFrames, DR_BASE, DR_TOOL, DR_WORLD
<1>6. b.points.kind = "list" /\ b.points.val = <<class>>
  BY DEF List
<1>7. PointsOK(b, class) /\ ~ TooMany(b) /\ b.points.val # <<>>
  <2>1. Len(<<class>>) = 1 /\ DOMAIN <<class>> = {1} /\ <<class>>[1] = class /\ <<class>> # <<>>
    OBVIOUS
  <2> QED BY ONLY <1>6, <2>1 DEF PointsOK, TooMany, Int8
<1>8. SameClass(b.pos, b.pos2)
  BY DEF SameClass
<1> QED BY <1>1, <1>2, <1>3, <1>5, <1>6, <1>7, <1>8, PlainTarget

\* A speed or a time that is left out
LEMMA LeftOut ==
  /\ \A default : JointSpeed(None, default) = default /\ TaskSpeed(None, default) = default
  /\ Time(None) = 0 /\ TimeOK(None) /\ NoTime(Time(None))
  /\ \A n : SpeedTypeOK(None, n)
BY DEF JointSpeed, TaskSpeed, None, IsNumber, Time, Given, TimeOK, NoTime, SpeedTypeOK

LEMMA PairLeftOut ==
  /\ \A default : PairSpeed(None, default) = default
  /\ SpeedTypeOK(None, 2)
BY LeftOut DEF PairSpeed, None, IsNumber

LEMMA JointDefaultsSuffice ==
  ASSUME DefaultsInv, SomePositive(defaults.velj), SomePositive(defaults.accj)
  PROVE  /\ Goes(movej(Plain(""), defaults)) /\ Goes(movejx(Plain(""), defaults))
         /\ Goes(movesj(Plain("posj"), defaults))
         /\ Goes(servoj(Plain(""), defaults)) /\ Goes(servoj_rt(Plain(""), defaults))
<1>1. NonNegative(defaults.velj) /\ NonNegative(defaults.accj)
  <2>1. ASSUME NEW speed \in [1..Axes -> Int], speed = Zeros \/ Positive(speed)
        PROVE  NonNegative(speed)
    <3>1. Zeros \in [1..Axes -> {0}]
      BY DEF Zeros
    <3>2. CASE speed = Zeros
      BY <3>1, <3>2 DEF NonNegative
    <3>3. CASE Positive(speed)
      <4>1. DOMAIN speed = 1..Axes /\ \A i \in 1..Axes : speed[i] \in Int
        OBVIOUS
      <4> QED BY ONLY <3>3, <4>1 DEF NonNegative, Positive
    <3> QED BY <2>1, <3>2, <3>3
  <2>2. \A field \in {"velj", "accj"} : NonNegative(defaults[field])
    BY <2>1 DEF DefaultsInv
  <2> QED BY <2>2
<1>2. ASSUME NEW b, NEW class, NamesTarget(b, class) PROVE JointOK(b, defaults)
  <2>1. b.vel = None /\ b.acc = None /\ b.time = None
    BY <1>2 DEF NamesTarget
  <2> QED BY ONLY <1>1, <2>1, LeftOut, SomePositive(defaults.velj), SomePositive(defaults.accj)
          DEF JointOK, JointSpeedOK, check_valid_vel_acc_joint
<1>3. DR_BASE \in Int8
  BY DEF DR_BASE, Int8
<1> USE <1>2, <1>3, CommonChecks, PlainArguments, GoesOn
<1>4. Goes(movej(Plain(""), defaults))
  <2> DEFINE b == Aliased(Plain(""))
  <2>1. get_posj(b.pos) /\ JointOK(b, defaults) /\ RadiusOK(b) /\ ModeOK(b)
    OBVIOUS
  <2>2. Goes(Motion(Request("move_joint", <<JointSpeed(b.vel, defaults.velj)[1]>>,
                            <<JointSpeed(b.acc, defaults.accj)[1]>>, Time(b.time), DR_BASE), b))
    BY GoesOn
  <2> QED BY ONLY <2>1, <2>2 DEF movej
<1>5. Goes(movejx(Plain(""), defaults))
  BY DEF movejx
<1>6. Goes(movesj(Plain("posj"), defaults))
  <2> DEFINE b == Aliased(Plain("posj"))
  <2>1. PointsOK(b, "posj") /\ JointOK(b, defaults) /\ In(b.mod, {0, 1}) /\ ~ TooMany(b)
    OBVIOUS
  <2>2. Goes([Request("move_spline_joint", JointSpeed(b.vel, defaults.velj),
                      JointSpeed(b.acc, defaults.accj), Time(b.time), DR_BASE) EXCEPT !.sync = b.async])
    BY GoesOn
  <2> QED BY ONLY <2>1, <2>2 DEF movesj
<1>7. Goes(servoj(Plain(""), defaults))
  <2> DEFINE b == Aliased(Plain(""))
  <2>1. get_posj(b.pos) /\ JointOK(b, defaults) /\ InOrNone(get_param(b.mod, b.m), {0, 1})
    OBVIOUS
  <2>2. Goes(Request("servoj_stream", JointSpeed(b.vel, defaults.velj), JointSpeed(b.acc, defaults.accj),
                     Time(b.time), 0))
    BY GoesOn
  <2> QED BY ONLY <2>1, <2>2 DEF servoj
<1>8. Goes(servoj_rt(Plain(""), defaults))
  <2> DEFINE b == Aliased(Plain(""))
  <2>1. get_posj(b.pos) /\ JointOK(b, defaults)
    OBVIOUS
  <2>2. Goes(Request("servoj_rt_stream", JointSpeed(b.vel, defaults.velj),
                     JointSpeed(b.acc, defaults.accj), Time(b.time), 0))
    BY GoesOn
  <2> QED BY ONLY <2>1, <2>2 DEF servoj_rt
<1> QED BY <1>4, <1>5, <1>6, <1>7, <1>8

LEMMA TaskDefaultsSuffice ==
  ASSUME DefaultsInv, defaults.velx # TaskZero, defaults.accx # TaskZero
  PROVE  /\ Goes(movel(Plain(""), defaults)) /\ Goes(movec(Plain(""), defaults))
         /\ Goes(movesx(Plain("posx"), defaults)) /\ Goes(moveb(Plain("posb"), defaults))
         /\ Goes(move_spiral(Plain(""), defaults)) <=> RotationsGiven
         /\ Goes(servol(Plain(""), defaults)) <=> RotationsGiven
<1>1. /\ BothPositive(defaults.velx) /\ BothPositive(defaults.accx)
      /\ NonNegativeOrNone(defaults.velx) /\ NonNegativeOrNone(defaults.accx)
  BY DEF DefaultsInv, NonNegativeOrNone, BothPositive
<1>2. ASSUME NEW b, NEW class, NamesTarget(b, class)
      PROVE  TaskOK(b, defaults) /\ TaskSpeedsOK(b, defaults)
             /\ TaskSpeedOK(b.vel, defaults.velx) /\ TaskSpeedOK(b.acc, defaults.accx)
  <2>1. b.vel = None /\ b.acc = None /\ b.time = None
    BY <1>2 DEF NamesTarget
  <2> QED BY ONLY <1>1, <2>1, LeftOut DEF TaskSpeedsOK, TaskOK, TaskSpeedOK, check_valid_vel_acc_task
<1> USE <1>2, CommonChecks, PlainArguments, GoesOn DEF TaskRequest
<1>3. Goes(movel(Plain(""), defaults))
  BY DEF movel
<1>4. Goes(movec(Plain(""), defaults))
  BY DEF movec
<1>5. Goes(movesx(Plain("posx"), defaults))
  BY DEF movesx
<1>6. Goes(moveb(Plain("posb"), defaults))
  <2> DEFINE b == Aliased(Plain("posb"))
  <2>1. /\ b.points.kind = "list" /\ b.points.val # <<>> /\ PointsOK(b, "posb") /\ ~ TooMany(b)
        /\ TaskSpeedOK(b.vel, defaults.velx) /\ TaskSpeedOK(b.acc, defaults.accx)
        /\ b.time = None /\ TaskSpeedsOK(b, defaults) /\ FrameOK(b, defaults)
        /\ FrameGiven(b, defaults) \in Int8 /\ In(b.mod, {0, 1})
    OBVIOUS
  <2>2. Goes([TaskRequest("move_blending", b, defaults) EXCEPT !.sync = b.async])
    BY GoesOn
  <2> QED BY ONLY <2>1, <2>2 DEF moveb
<1>7. /\ PairSpeedOK(None, defaults.velx) <=> defaults.velx[2] # COND_NONE
      /\ PairSpeedOK(None, defaults.accx) <=> defaults.accx[2] # COND_NONE
  <2>1. ASSUME NEW speed \in [1..2 -> Int], BothPositive(speed)
        PROVE  NonNegative(speed) <=> speed[2] # COND_NONE
    BY <2>1 DEF NonNegative, BothPositive, COND_NONE
  <2>2. /\ NonNegative(defaults.velx) <=> defaults.velx[2] # COND_NONE
        /\ NonNegative(defaults.accx) <=> defaults.accx[2] # COND_NONE
    BY <1>1, <2>1 DEF DefaultsInv
  <2> QED BY ONLY <2>2, PairLeftOut DEF PairSpeedOK
<1>8. Goes(servol(Plain(""), defaults)) <=> RotationsGiven
  <2> DEFINE b == Aliased(Plain(""))
  <2>1. b.vel = None /\ b.acc = None /\ b.time = None /\ get_posx(b.pos)
    BY DEF NamesTarget
  <2>2. check_valid_vel_acc_task(defaults.velx, defaults.accx, Time(None))
    BY <1>1 DEF check_valid_vel_acc_task
  <2>3. /\ Goes(Request("servol_stream", defaults.velx, defaults.accx, Time(None), 0))
        /\ ~ Goes(Rejected)
    BY GoesOn DEF Goes
  <2> QED BY ONLY <1>7, <2>1, <2>2, <2>3, LeftOut, PairLeftOut DEF servol, RotationsGiven
<1>9. Goes(move_spiral(Plain(""), defaults)) <=> RotationsGiven
  <2> DEFINE b == Aliased(Plain(""))
  <2>1. b.vel = None /\ b.acc = None /\ b.time = None /\ b.ref = None
    BY DEF NamesTarget
  <2>2. /\ IsNumber(b.rev) /\ Value(b.rev) > 0 /\ IsNumber(b.rmax) /\ Value(b.rmax) > 0
        /\ IsNumber(b.lmax) /\ In(b.axis, DR_AXIS_XYZ)
    <3>1. b.rev = Num(10) /\ b.rmax = Num(10) /\ b.lmax = Num(0) /\ b.axis = Num(2)
      BY DEF Aliased, Plain
    <3>2. ASSUME NEW x \in Int PROVE IsNumber(Num(x)) /\ Value(Num(x)) = x
      BY DEF IsNumber, Value, Num
    <3>3. /\ IsNumber(Num(10)) /\ IsNumber(Num(0)) /\ IsNumber(Num(2))
          /\ Value(Num(10)) = 10 /\ Value(Num(2)) = 2
      BY <3>2
    <3>4. Value(Num(10)) > 0 /\ In(Num(2), DR_AXIS_XYZ)
      BY ONLY <3>3 DEF In, DR_AXIS_XYZ
    <3> QED BY ONLY <3>1, <3>3, <3>4
  <2>3. check_valid_vel_acc_joint(defaults.velx, defaults.accx, Time(None))
    <3>1. 1 \in DOMAIN defaults.velx /\ 1 \in DOMAIN defaults.accx
      BY DEF DefaultsInv
    <3> QED BY <1>1, <3>1 DEF check_valid_vel_acc_joint, SomePositive, BothPositive
  <2>4. Given(None, DR_TOOL) \in Int8 /\ InOrNone(None, NamedFrames \ {DR_WORLD})
    BY DEF Given, DR_TOOL, Int8, InOrNone
  <2>5. /\ Goes([Request("move_spiral", defaults.velx, defaults.accx, Time(None), Given(None, DR_TOOL))
                EXCEPT !.sync = b.async])
        /\ ~ Goes(Rejected)
    BY GoesOn DEF Goes
  <2> QED BY ONLY <1>7, <2>1, <2>2, <2>3, <2>4, <2>5, LeftOut, PairLeftOut DEF move_spiral, RotationsGiven
<1> QED BY <1>3, <1>4, <1>5, <1>6, <1>8, <1>9

\* Whatever defaults the setters have taken, and whatever frame set_ref_coord,
\* the motions may be called with nothing but a target: none is refused or fails,
\* but move_spiral and servol, which go out only if both rotations were given.
THEOREM DefaultsAreEnough == Spec => []DefaultsSuffice
<1>1. DefaultsInv => DefaultsSuffice
  BY JointDefaultsSuffice, TaskDefaultsSuffice DEF DefaultsSuffice
<1> QED BY <1>1, DefaultsInvariance, PTL
=============================================================================
