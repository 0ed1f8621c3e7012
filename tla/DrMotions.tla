------------------------------ MODULE DrMotions ------------------------------
(***************************************************************************)
(* The motion functions of the Python robot API (DSR_ROBOT2.py): from the  *)
(* arguments of a call and the defaults in force to the request that goes  *)
(* to a motion service, or to the message that goes to a stream.           *)
(*                                                                         *)
(* e holds the defaults a function reads: [velj, accj, velx, accx, coord]. *)
(* a holds the arguments, a missing one as None, and async, which is 1 in  *)
(* the twin whose name starts with an a.  A call ends in a request, in     *)
(* Rejected (a check raised DR_Error), or in Failed (any other exception). *)
(* A list of points or segments is the list of its items' classes.         *)
(***************************************************************************)
EXTENDS DrArguments

\* vel, acc, time and radius have one-letter names too; the long one wins.
Aliased(a) == [a EXCEPT !.vel = get_param(a.vel, a.v), !.acc = get_param(a.acc, a.a),
                        !.time = get_param(a.time, a.t), !.radius = get_param(a.radius, a.r)]

\* An asynchronous motion is never blended; blending by default is off.
Radius(b) == IF b.async = 1 THEN 0 ELSE Given(b.radius, 0)
RadiusOK(b) == b.radius = None \/ (IsNumber(b.radius) /\ Value(b.radius) >= 0)

\* The request as it is composed: rclpy refuses a frame that is no int8.
Motion(req, b) ==
  IF req.ref \in Int8 THEN [req EXCEPT !.radius = Radius(b), !.sync = b.async] ELSE Failed

ModeOK(b) == In(b.mod, {0, 1}) /\ In(b.ra, {0, 1})

FrameGiven(b, e) == Given(b.ref, e.coord)
FrameOK(b, e) == (b.ref = None \/ IsNumber(b.ref)) /\ FrameGiven(b, e) \in MotionFrames

-----------------------------------------------------------------------------
(* Motions with a joint speed                                              *)

JointSpeedOK(arg, default) ==
  SpeedTypeOK(arg, Axes) /\ NonNegative(JointSpeed(arg, default))

JointOK(b, e) ==
  /\ JointSpeedOK(b.vel, e.velj) /\ JointSpeedOK(b.acc, e.accj)
  /\ TimeOK(b.time)
  /\ check_valid_vel_acc_joint(JointSpeed(b.vel, e.velj), JointSpeed(b.acc, e.accj), Time(b.time))

\* The service takes one number: the first axis' speed goes into the request.
movej(a, e) ==
  LET b == Aliased(a) IN
  IF ~ (get_posj(b.pos) /\ JointOK(b, e) /\ RadiusOK(b) /\ ModeOK(b)) THEN Rejected
  ELSE Motion(Request("move_joint", <<JointSpeed(b.vel, e.velj)[1]>>,
                      <<JointSpeed(b.acc, e.accj)[1]>>, Time(b.time), DR_BASE), b)

movejx(a, e) ==
  LET b == Aliased(a) IN
  IF ~ (get_posx(b.pos) /\ JointOK(b, e) /\ RadiusOK(b) /\ FrameOK(b, e) /\ ModeOK(b)
        /\ In(b.sol, 0..7)) THEN Rejected
  ELSE Motion(Request("move_jointx", <<JointSpeed(b.vel, e.velj)[1]>>,
                      <<JointSpeed(b.acc, e.accj)[1]>>, Time(b.time), FrameGiven(b, e)), b)

\* A list of points has items of one class; its length goes into an int8.
PointsOK(b, class) ==
  b.points.kind = "list" /\ \A i \in DOMAIN b.points.val : b.points.val[i] = class
TooMany(b) == Len(b.points.val) \notin Int8

movesj(a, e) ==
  LET b == Aliased(a) IN
  IF ~ (PointsOK(b, "posj") /\ JointOK(b, e) /\ In(b.mod, {0, 1})) THEN Rejected
  ELSE IF TooMany(b) THEN Failed
  ELSE [Request("move_spline_joint", JointSpeed(b.vel, e.velj), JointSpeed(b.acc, e.accj),
                         Time(b.time), DR_BASE) EXCEPT !.sync = b.async]

-----------------------------------------------------------------------------
(* Motions with a task speed                                               *)

TaskSpeedOK(arg, default) ==
  SpeedTypeOK(arg, 2) /\ NonNegativeOrNone(TaskSpeed(arg, default))

\* moveb alone leaves out the checks of the time's type and sign.
TaskSpeedsOK(b, e) ==
  /\ TaskSpeedOK(b.vel, e.velx) /\ TaskSpeedOK(b.acc, e.accx)
  /\ check_valid_vel_acc_task(TaskSpeed(b.vel, e.velx), TaskSpeed(b.acc, e.accx), Time(b.time))

TaskOK(b, e) == TimeOK(b.time) /\ TaskSpeedsOK(b, e)

TaskRequest(srv, b, e) ==
  Request(srv, TaskSpeed(b.vel, e.velx), TaskSpeed(b.acc, e.accx), Time(b.time), FrameGiven(b, e))

movel(a, e) ==
  LET b == Aliased(a) IN
  IF ~ (get_normal_pos(b.pos) /\ TaskOK(b, e) /\ RadiusOK(b) /\ FrameOK(b, e) /\ ModeOK(b)) THEN Rejected
  ELSE Motion(TaskRequest("move_line", b, e), b)

AngleOK(arg) == arg = None \/ ((IsNumber(arg) \/ IsList(arg, 2)) /\ NonNegative(arg.val))

\* Both points are joint angles or both are poses; a list becomes a pose.
SameClass(pos1, pos2) == (pos1.kind = "posj") <=> (pos2.kind = "posj")

movec(a, e) ==
  LET b == Aliased(a) IN
  IF ~ (/\ get_normal_pos(b.pos) /\ get_normal_pos(b.pos2) /\ SameClass(b.pos, b.pos2)
        /\ TaskOK(b, e) /\ RadiusOK(b) /\ FrameOK(b, e) /\ ModeOK(b) /\ AngleOK(b.angle))
  THEN Rejected
  ELSE Motion(TaskRequest("move_circle", b, e), b)

movesx(a, e) ==
  LET b == Aliased(a) IN
  IF ~ (PointsOK(b, "posx") /\ TaskOK(b, e) /\ FrameOK(b, e) /\ In(b.mod, {0, 1})
        /\ In(b.vel_opt, {0, 1})) THEN Rejected
  ELSE IF TooMany(b) \/ FrameGiven(b, e) \notin Int8 THEN Failed
  ELSE [TaskRequest("move_spline_task", b, e) EXCEPT !.sync = b.async]

\* An empty list is refused; an item that is no segment, or a time that is no
\* number, raises something else.
moveb(a, e) ==
  LET b == Aliased(a) IN
  IF ~ (b.points.kind = "list" /\ b.points.val # <<>>) THEN Rejected
  ELSE IF ~ PointsOK(b, "posb") THEN Failed
  ELSE IF ~ (TaskSpeedOK(b.vel, e.velx) /\ TaskSpeedOK(b.acc, e.accx)) THEN Rejected
  ELSE IF ~ (b.time = None \/ IsNumber(b.time)) THEN Failed
  ELSE IF ~ (TaskSpeedsOK(b, e) /\ FrameOK(b, e) /\ In(b.mod, {0, 1})) THEN Rejected
  ELSE IF TooMany(b) \/ FrameGiven(b, e) \notin Int8 THEN Failed
  ELSE [TaskRequest("move_blending", b, e) EXCEPT !.sync = b.async]

PairSpeedOK(arg, default) == SpeedTypeOK(arg, 2) /\ NonNegative(PairSpeed(arg, default))

\* The speeds are checked as those of joints are; the frame is given or the tool.
move_spiral(a, e) ==
  LET b == Aliased(a)
      vel == PairSpeed(b.vel, e.velx)
      acc == PairSpeed(b.acc, e.accx)
      ref == Given(b.ref, DR_TOOL)
  IN
  IF ~ (/\ IsNumber(b.rev) /\ Value(b.rev) > 0 /\ IsNumber(b.rmax) /\ Value(b.rmax) > 0
        /\ IsNumber(b.lmax)
        /\ PairSpeedOK(b.vel, e.velx) /\ PairSpeedOK(b.acc, e.accx) /\ TimeOK(b.time)
        /\ check_valid_vel_acc_joint(vel, acc, Time(b.time))
        /\ In(b.axis, DR_AXIS_XYZ)
        /\ InOrNone(b.ref, NamedFrames \ {DR_WORLD})) THEN Rejected
  ELSE IF ref \notin Int8 THEN Failed
  ELSE [Request("move_spiral", vel, acc, Time(b.time), ref) EXCEPT !.sync = b.async]

\* amp is pos, period is vel (a number or one per axis), atime is time.
move_periodic(a, e) ==
  LET ref == Given(a.ref, DR_TOOL) IN
  IF ~ (/\ IsVector(a.pos)
        /\ IsNumber(a.vel) \/ IsList(a.vel, Axes)
        /\ \A arg \in {a.time, a.repeat} : arg = None \/ (IsNumber(arg) /\ Value(arg) >= 0)
        /\ InOrNone(a.ref, MotionFrames)) THEN Rejected
  ELSE IF ref \notin Int8 \/ Given(a.repeat, 1) \notin Int8 THEN Failed
  ELSE [Request("move_periodic", <<>>, <<>>, Given(a.time, 0), ref) EXCEPT !.sync = a.async]

-----------------------------------------------------------------------------
(* Streams: a message to a topic, which nobody answers.  Unlike a request   *)
(* it carries the speed of every axis.                                      *)

servoj(a, e) ==
  LET b == Aliased(a) IN
  IF ~ (/\ get_posj(b.pos) /\ JointOK(b, e)
        /\ InOrNone(get_param(b.mod, b.m), {0, 1})) THEN Rejected
  ELSE Request("servoj_stream", JointSpeed(b.vel, e.velj), JointSpeed(b.acc, e.accj), Time(b.time), 0)

\* servol takes the task's defaults with the check of move_spiral, which
\* refuses a rotation that was left open.
servol(a, e) ==
  LET b == Aliased(a)
      vel == PairSpeed(b.vel, e.velx)
      acc == PairSpeed(b.acc, e.accx)
  IN
  IF ~ (/\ get_posx(b.pos) /\ PairSpeedOK(b.vel, e.velx) /\ PairSpeedOK(b.acc, e.accx)
        /\ TimeOK(b.time) /\ check_valid_vel_acc_task(vel, acc, Time(b.time))) THEN Rejected
  ELSE Request("servol_stream", vel, acc, Time(b.time), 0)

Speed(arg) == JointSpeed(arg, <<>>)
SpeedGivenOK(arg, n) == arg # None /\ SpeedTypeOK(arg, n)

\* A speed may point either way, an acceleration may not.
speedj(a) ==
  LET b == Aliased(a) IN
  IF ~ (/\ SpeedGivenOK(b.vel, Axes)
        /\ SpeedGivenOK(b.acc, Axes) /\ NonNegative(Speed(b.acc))
        /\ TimeOK(b.time)
        /\ check_valid_vel_acc_joint(Speed(b.vel), Speed(b.acc), Time(b.time))) THEN Rejected
  ELSE Request("speedj_stream", Speed(b.vel), Speed(b.acc), Time(b.time), 0)

\* The first two of the speeds are checked as if they were a motion's, so
\* that without a time the tool moves towards positive x and y only.
speedl(a) ==
  LET b == Aliased(a)
      acc == PairSpeed(b.acc, <<>>)
  IN
  IF ~ (/\ SpeedGivenOK(b.vel, Axes)
        /\ SpeedGivenOK(b.acc, 2) /\ NonNegative(acc)
        /\ TimeOK(b.time)
        /\ check_valid_vel_acc_task(Speed(b.vel), acc, Time(b.time))) THEN Rejected
  ELSE Request("speedl_stream", Speed(b.vel), acc, Time(b.time), 0)

servoj_rt(a, e) ==
  LET b == Aliased(a) IN
  IF ~ (get_posj(b.pos) /\ JointOK(b, e)) THEN Rejected
  ELSE Request("servoj_rt_stream", JointSpeed(b.vel, e.velj), JointSpeed(b.acc, e.accj), Time(b.time), 0)

Unset == [i \in 1..Axes |-> COND_NONE]

\* The time must be given; speeds need not be, and their signs are not looked at.
servol_rt(a) ==
  LET b == Aliased(a) IN
  IF ~ (/\ get_posx(b.pos) /\ b.time # None /\ TimeOK(b.time)
        /\ SpeedTypeOK(b.vel, Axes) /\ SpeedTypeOK(b.acc, Axes)
        /\ check_valid_vel_acc_task(JointSpeed(b.vel, Unset), JointSpeed(b.acc, Unset), Time(b.time)))
  THEN Rejected
  ELSE Request("servol_rt_stream", JointSpeed(b.vel, Unset), JointSpeed(b.acc, Unset), Time(b.time), 0)

speedj_rt(a) ==
  LET time == get_param(a.time, a.t) IN
  IF ~ (/\ IsList(a.vel, Axes) /\ IsList(a.acc, Axes) /\ NonNegative(a.acc.val)
        /\ TimeOK(time)
        /\ check_valid_vel_acc_joint(a.vel.val, a.acc.val, Time(time))) THEN Rejected
  ELSE Request("speedj_rt_stream", a.vel.val, a.acc.val, Time(time), 0)

\* Without a time an acceleration that is left out is refused.
speedl_rt(a) ==
  LET time == get_param(a.time, a.t)
      acc == JointSpeed(a.acc, Unset)
  IN
  IF ~ (/\ IsList(a.vel, Axes)
        /\ a.acc = None \/ (IsList(a.acc, Axes) /\ NonNegative(a.acc.val))
        /\ TimeOK(time)
        /\ check_valid_vel_acc_task(a.vel.val, acc, Time(time))) THEN Rejected
  ELSE Request("speedl_rt_stream", a.vel.val, acc, Time(time), 0)

\* tor is vel.
torque_rt(a) ==
  LET time == get_param(a.time, a.t) IN
  IF ~ (IsList(a.vel, Axes) /\ TimeOK(time)) THEN Rejected
  ELSE Request("torque_rt_stream", a.vel.val, <<>>, Time(time), 0)

alter_motion_stream(a) ==
  IF get_posx(a.pos) THEN Request("alter_motion_stream", <<>>, <<>>, 0, 0) ELSE Rejected
=============================================================================
