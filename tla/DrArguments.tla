----------------------------- MODULE DrArguments -----------------------------
(***************************************************************************)
(* The arguments of the Python robot API (DSR_ROBOT2, with DR_common2):    *)
(* what a caller may pass, how an omitted argument is resolved, and which  *)
(* values the functions let through.                                       *)
(*                                                                         *)
(* A Python value is a record of its kind and its numbers: None, a number, *)
(* a list of numbers, a posj or posx (lists of classes of their own), a    *)
(* string, or Other, anything of a wrong type.  int and float are told     *)
(* apart only by Other.  A value that a check refuses ends the call with a *)
(* DR_Error, whose type and wording are left out: a check is a predicate,  *)
(* and as none has an effect their order does not matter.                  *)
(***************************************************************************)
EXTENDS Integers, Sequences

CONSTANT Axes  \* POINT_COUNT, the length of a joint vector (6 in the code)

ASSUME AxesAssumption == Axes \in Nat \ {0}

None == [kind |-> "none", val |-> <<>>]
Other == [kind |-> "other", val |-> <<>>]
Num(x) == [kind |-> "num", val |-> <<x>>]
List(s) == [kind |-> "list", val |-> s]

Posj(s) == [kind |-> "posj", val |-> s]
Posx(s) == [kind |-> "posx", val |-> s]
Str == [kind |-> "str", val |-> <<>>]

\* DR_COND_NONE stands for "not given" in a list of numbers.
COND_NONE == -10000

DR_BASE == 0
DR_TOOL == 1
DR_WORLD == 2
UserFrames == 101..200

DR_AXIS_XYZ == {0, 1, 2}
DR_AXIS_ABC == {10, 11, 12}

\* The rest of a message's integer fields are int8: rclpy refuses to assign
\* any other number to them.
Int8 == -128..127

------------------------------------------------------------------------------
(* DR_common2                                                              *)

get_param(x, y) == IF x # None THEN x ELSE y

IsNumber(arg) == arg.kind = "num"
IsStr(arg) == arg = Str
IsList(arg, n) == arg.kind = "list" /\ Len(arg.val) = n

\* The value of an argument that must be a number, and of one that may be omitted
Value(arg) == arg.val[1]
Given(arg, default) == IF arg = None THEN default ELSE Value(arg)

\* A list of one number per axis; posj and posx are lists of classes of their own.
IsVector(arg) == IsList(arg, Axes)
get_posj(arg) == IsVector(arg) \/ arg.kind = "posj"
get_posx(arg) == IsVector(arg) \/ arg.kind = "posx"
get_normal_pos(arg) == get_posj(arg) \/ get_posx(arg)

\* A segment of moveb: a line has one point, a circle two.
DR_LINE == 0
DR_CIRCLE == 1
posb(seg_type, posx1, posx2, radius) ==
  /\ \/ seg_type = Num(DR_LINE) /\ posx2 = None
     \/ seg_type = Num(DR_CIRCLE) /\ get_posx(posx2)
  /\ get_posx(posx1)
  /\ IsNumber(radius) /\ Value(radius) >= 0

------------------------------------------------------------------------------
(* Speeds: vel and acc of a motion.  A joint speed has a number per axis, a *)
(* task speed one for the translation and one for the rotation.             *)

Zeros == [i \in 1..Axes |-> 0]
TaskZero == <<0, COND_NONE>>

JointSpeed(arg, default) ==
  CASE arg = None -> default
    [] IsNumber(arg) -> [i \in 1..Axes |-> Value(arg)]
    [] OTHER -> arg.val

\* A single number is the translation; the rotation follows it.
TaskSpeed(arg, default) ==
  CASE arg = None -> default
    [] IsNumber(arg) -> <<Value(arg), COND_NONE>>
    [] OTHER -> arg.val

\* move_spiral and servol take a single number for both.
PairSpeed(arg, default) ==
  CASE arg = None -> default
    [] IsNumber(arg) -> <<Value(arg), Value(arg)>>
    [] OTHER -> arg.val

SpeedTypeOK(arg, n) == arg = None \/ IsNumber(arg) \/ IsList(arg, n)

NonNegative(speed) == \A i \in DOMAIN speed : speed[i] >= 0
NonNegativeOrNone(speed) == \A i \in DOMAIN speed : speed[i] >= 0 \/ speed[i] = COND_NONE

------------------------------------------------------------------------------
(* Times and the two checks of the speeds against them                     *)

Time(arg) == Given(arg, 0)
TimeOK(arg) ==
  /\ arg = None \/ IsNumber(arg)
  /\ Time(arg) >= 0 \/ Time(arg) = COND_NONE

NoTime(t) == t = 0 \/ t = COND_NONE

SomePositive(speed) == \E i \in DOMAIN speed : speed[i] # 0

\* Only the speed is looked at.
check_valid_vel_acc_joint_variant(vel, acc, t) == NoTime(t) => SomePositive(vel)

check_valid_vel_acc_joint(vel, acc, t) ==
  NoTime(t) => SomePositive(vel) /\ SomePositive(acc)

BothPositive(speed) == speed[1] > 0 /\ (speed[2] = COND_NONE \/ speed[2] > 0)

check_valid_vel_acc_task(vel, acc, t) ==
  NoTime(t) => BothPositive(vel) /\ BothPositive(acc)

------------------------------------------------------------------------------
(* Numbers that must be in a set, and frames                               *)

In(arg, S) == IsNumber(arg) /\ Value(arg) \in S
InOrNone(arg, S) == arg = None \/ In(arg, S)

\* The motions let every number up to the last user frame through.
MotionFrames == DR_BASE..200
\* The other functions name the frames they take.
NamedFrames == {DR_BASE, DR_TOOL, DR_WORLD} \cup UserFrames
WorldFrames == {DR_BASE, DR_WORLD}

------------------------------------------------------------------------------
(* What becomes of a call: a request to a service, Rejected (a check raised *)
(* DR_Error), or Failed (any other exception).                              *)

\* A service answers with a status (0 or -1), or with a value that the caller
\* gets whether the service succeeded or not, or only if it did ("checked").
\* sent names the arguments of a function that is told them by their number.
Request(srv, vel, acc, time, ref) ==
  [srv |-> srv, vel |-> vel, acc |-> acc, time |-> time, ref |-> ref,
   radius |-> 0, sync |-> 0, reply |-> "status", sent |-> {}]

Rejected == Request("rejected", <<>>, <<>>, 0, 0)
Failed == Request("failed", <<>>, <<>>, 0, 0)

\* A service with fields of type int8: args and the frame ref
Fits(arg) == IsNumber(arg) /\ Value(arg) \in Int8

Call(srv, ok, args, ref, reply) ==
  IF ~ ok THEN Rejected
  ELSE IF ~ (ref \in Int8 /\ \A i \in DOMAIN args : Fits(args[i])) THEN Failed
  ELSE [Request(srv, [i \in DOMAIN args |-> Value(args[i])], <<>>, 0, ref) EXCEPT !.reply = reply]

Ask(srv, ok, args) == Call(srv, ok, args, DR_BASE, "status")
AskIn(srv, ok, args, ref) == Call(srv, ok, args, ref, "status")
Query(srv, ok, args) == Call(srv, ok, args, DR_BASE, "value")
QueryIn(srv, ok, args, ref) == Call(srv, ok, args, ref, "value")
=============================================================================
