----------------------------- MODULE MCRobotApi -----------------------------
(***************************************************************************)
(* RobotApi on joint vectors of two axes.  The arguments of motions are a  *)
(* motion that names only its target, and what differs from it in the      *)
(* speeds and the time, or in one other argument.                          *)
(***************************************************************************)
EXTENDS RobotApi

Speeds == {None, Num(1), Num(0), List(<<0, 1>>)}
Times == {None, Num(1)}
MCNumbers == {None, Other, Num(-1), Num(1), Num(200)}
MCPositions == {None, List(<<0, 0>>), Posj(<<0, 0>>), Posx(<<0, 0>>)}
MCBounds == {None, Num(-1), Num(1)}
MCSpeedArgs == {None, Num(1), List(<<0, 1>>)}
MCSpeedPairs == {<<None, Num(1)>>, <<Num(1), None>>, <<Num(1), Num(0)>>, <<Num(0), Num(1)>>}
MCFrameArgs == {Other, Num(0), Num(101), Num(200)}

MCMotionArgs ==
  LET P == Plain("posx") IN
  {[P EXCEPT !.vel = vel, !.acc = acc, !.time = time] :
     vel \in Speeds, acc \in Speeds, time \in Times}
  \cup {[Plain(class) EXCEPT !.vel = vel, !.acc = acc] :
          class \in {"posj", "posb"}, vel \in Speeds, acc \in {None, Num(1)}}
  \cup {[P EXCEPT !.v = Num(1), !.a = Num(2), !.t = Num(3), !.r = Num(1), !.ref = ref] :
          ref \in MCNumbers}
  \cup {[P EXCEPT !.vel = x, !.acc = Num(1), !.time = y] :
          x \in {Num(-1), Other, Num(1)}, y \in {Num(-1), Other, Num(0)}}
  \cup {[P EXCEPT !.vel = Num(1), !.acc = Num(1), !.pos = p, !.pos2 = q] :
          p \in MCPositions, q \in MCPositions}
  \cup {[P EXCEPT !.vel = Num(1), !.acc = Num(1), !.mod = x, !.angle = y] :
          x \in {Num(1), Num(2)}, y \in {None, Num(-1)}}
  \cup {[P EXCEPT !.vel = Num(1), !.acc = Num(1), !.radius = x, !.axis = x, !.async = 1] :
          x \in {Num(1), Num(-1)}}
  \cup {[P EXCEPT !.vel = List(<<1, 1>>), !.acc = List(<<1, 1>>), !.points = x, !.repeat = x] :
          x \in {None, Num(2)}}
=============================================================================
