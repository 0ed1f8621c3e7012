-------------------------- MODULE JointControl_proofs --------------------------
(***************************************************************************)
(* Theorems about JointControl, for every list of messages and threshold.  *)
(*                                                                         *)
(* The drift bound needs nothing but the types of the numbers it compares, *)
(* and where the commands and the robot start.  Which messages may be lost *)
(* rests on what a callback at work and a set flag mean to each other:     *)
(* update takes a message up only while new_msg_ is set, so a callback     *)
(* that meets it there came while another message was waiting.             *)
(***************************************************************************)
EXTENDS JointControl, TLAPS

Handover ==
  /\ up \in {"adopt", "clear"} => newMsg
  /\ cb # "idle" /\ newMsg => rushed
  /\ raced => cb = "idle" /\ rushed
  /\ cb = "idle" /\ ~raced /\ (up = "clear" \/ ~newMsg) => traj = buffer

AtHome == ~commanded => target = Home

IInv == TypeOK /\ DriftBounded /\ AtHome

-----------------------------------------------------------------------------

\* The division of interpolate_trajectory_point is one of naturals.
LEMMA DivNat ==
  ASSUME NEW a \in Nat, NEW b \in Nat \ {0}
  PROVE  a \div b \in Nat
  BY SMT

\* A trajectory's time being over, its index is beyond its points.
LEMMA IndexBeyond ==
  ASSUME NEW t \in Nat, NEW total \in Nat \ {0}, t >= total, NEW n \in Nat
  PROVE  (t * n) \div total >= n
<1> DEFINE q == (t * n) \div total
<1>1. t * n \in Nat /\ total * n \in Nat /\ t * n >= total * n
  BY SMT
<1>2. q \in Int /\ t * n < total * (q + 1)
  BY <1>1, SMT
<1>3. total * n < total * (q + 1)
  <2> HIDE DEF q
  <2> QED BY <1>1, <1>2, SMT
<1>4. n < q + 1
  <2> HIDE DEF q
  <2>1. SUFFICES ASSUME q + 1 <= n PROVE FALSE
    BY <1>2, SMT
  <2>2. total * (q + 1) <= total * n
    BY <1>2, <2>1, SMT
  <2> QED BY <1>2, <1>3, <2>2, SMT
<1> QED BY <1>2, <1>4, SMT

\* The index of the commanded point is one of the message's.
LEMMA IndexInside ==
  ASSUME NEW p \in Seq(Int), Len(p) >= 2, NEW i \in Nat
  PROVE  p[IF i + 2 <= Len(p) THEN i + 2 ELSE Len(p)] \in Int
<1>1. Len(p) \in Nat
  OBVIOUS
<1>2. CASE i + 2 <= Len(p)
  <2>1. i + 2 \in 1..Len(p)
    BY <1>1, <1>2
  <2> QED BY <1>2, <2>1
<1>3. CASE ~(i + 2 <= Len(p))
  <2>1. Len(p) \in 1..Len(p)
    BY <1>1
  <2> QED BY <1>3, <2>1
<1> QED BY <1>2, <1>3

\* What is assumed of the messages, one by one.
LEMMA MessageType ==
  ASSUME NEW m \in DOMAIN Trajs
  PROVE  /\ Trajs[m].points \in Seq(Int) /\ Len(Trajs[m].points) \in Nat
         /\ Len(Trajs[m].points) >= 2
         /\ Trajs[m].total \in Nat \ {0}
<1>1. Trajs[m] \in Trajectory
  BY TrajsAssumption
<1>2. Trajs[m].points \in Seq(Int) /\ Trajs[m].total \in Nat \ {0}
  BY <1>1 DEF Trajectory
<1>3. Len(Trajs[m].points) >= 2
  BY TrajsAssumption
<1> QED BY <1>2, <1>3

\* update never reads outside the points of a message.
LEMMA PointAtInt ==
  ASSUME NEW m \in DOMAIN Trajs, NEW t \in Nat
  PROVE  PointAt(m, t) \in Int
<1>1. /\ Trajs[m].points \in Seq(Int) /\ Len(Trajs[m].points) >= 2
      /\ Trajs[m].total \in Nat \ {0}
  BY MessageType
<1>2. Len(Trajs[m].points) \in Nat
  BY MessageType
<1>3. t * Len(Trajs[m].points) \in Nat
  BY <1>2, SMT
<1>4. (t * Len(Trajs[m].points)) \div Trajs[m].total \in Nat
  BY <1>1, <1>3, DivNat
<1> QED BY <1>1, <1>4, IndexInside DEF PointAt

\* Once its time is over a trajectory's command is its last point.
LEMMA PointAtEnd ==
  ASSUME NEW m \in DOMAIN Trajs, NEW t \in Nat, t >= Trajs[m].total
  PROVE  PointAt(m, t) = Trajs[m].points[Len(Trajs[m].points)]
<1> DEFINE n == Len(Trajs[m].points)
           ind == (t * n) \div Trajs[m].total
<1>1. n \in Nat /\ Trajs[m].total \in Nat \ {0}
  BY MessageType
<1>2. ind >= n /\ t * n \in Nat
  <2> HIDE DEF n
  <2> QED BY <1>1, IndexBeyond, SMT
<1>3. ind \in Nat
  BY <1>1, <1>2, DivNat
<1>4. (IF ind + 2 <= n THEN ind + 2 ELSE n) = n
  <2> HIDE DEF ind, n
  <2> QED BY <1>1, <1>2, <1>3, SMT
<1> QED BY <1>4 DEF PointAt

LEMMA DistanceSelf == ASSUME NEW x \in Int PROVE Distance(x, x) = 0
  BY SMT DEF Distance

\* One more command that differs by less than the threshold.
LEMMA DriftStep ==
  ASSUME NEW s \in Int, NEW p \in Int, NEW c \in Int, NEW q \in Nat,
         Distance(s, p) <= (Threshold - 1) * q, Distance(p, c) < Threshold
  PROVE  Distance(s, c) <= (Threshold - 1) * (q + 1)
<1>1. Threshold \in Nat
  BY ThresholdAssumption
<1>2. Distance(s, c) <= Distance(s, p) + Distance(p, c)
  BY SMT DEF Distance
<1>3. Distance(s, c) \in Int /\ Distance(s, p) \in Int /\ Distance(p, c) \in Int
  BY SMT DEF Distance
<1>4. (Threshold - 1) * (q + 1) = (Threshold - 1) * q + (Threshold - 1)
  BY <1>1, SMT
<1>5. (Threshold - 1) * q \in Int
  BY <1>1, SMT
<1>6. ASSUME NEW sc \in Int, NEW sp \in Int, NEW pc \in Int, NEW b \in Int,
             sc <= sp + pc, sp <= b, pc < Threshold
      PROVE  sc <= b + (Threshold - 1)
  BY <1>1, <1>6, SMT
<1> QED BY <1>2, <1>3, <1>4, <1>5, <1>6

-----------------------------------------------------------------------------

LEMMA InitIInv == Init => IInv
<1> SUFFICES ASSUME Init PROVE IInv
  OBVIOUS
<1>1. 0 \in Messages
  BY TrajsAssumption DEF Messages
<1>2. (Threshold - 1) * 0 = 0
  BY ThresholdAssumption, SMT
<1>3. Distance(0, 0) = 0
  BY DistanceSelf
<1>4. DriftBounded /\ AtHome
  BY <1>2, <1>3 DEF Init, DriftBounded, Drift, AtHome
<1>5. /\ newMsg \in BOOLEAN /\ active \in BOOLEAN /\ commanded \in BOOLEAN
      /\ rushed \in BOOLEAN /\ raced \in BOOLEAN
  BY Zenon DEF Init
<1>6. now \in Nat /\ dt \in 0..2 /\ start \in Nat /\ start <= now
  BY SMT DEF Init
<1>7. TypeOK
  BY <1>1, <1>5, <1>6, HomeAssumption DEF Init, TypeOK
<1> QED BY <1>4, <1>7 DEF IInv

\* What the drift is counted from: the last command sent, or 0.
Reference == IF commanded THEN target ELSE 0

\* Where write leads to, given the command it is handed.
LEMMA WriteKeepsBound ==
  ASSUME pre \in Int, target \in Int, commanded \in BOOLEAN, quiet \in Nat, cmd' \in Int,
         DriftBounded, AtHome, Write
  PROVE  /\ pre' \in Int /\ target' \in Int /\ commanded' \in BOOLEAN /\ quiet' \in Nat
         /\ DriftBounded' /\ AtHome'
<1>1. CASE UNCHANGED <<pre, target, commanded, quiet>>
  BY <1>1 DEF DriftBounded, Drift, AtHome
<1>2. CASE Send
  <2>1. Threshold \in Nat
    BY ThresholdAssumption
  <2>2. Distance(cmd', cmd') = 0
    BY DistanceSelf
  <2>3. (Threshold - 1) * 0 = 0
    BY <2>1, SMT
  <2>4. target' = cmd' /\ commanded' = TRUE /\ pre' = cmd' /\ quiet' = 0
    BY <1>2 DEF Send
  <2> QED BY <2>2, <2>3, <2>4 DEF DriftBounded, Drift, AtHome
<1>3. CASE NoChange
  <2>1. /\ Distance(pre, cmd') < Threshold /\ pre' = cmd' /\ quiet' = quiet + 1
        /\ target' = target /\ commanded' = commanded
    BY <1>3 DEF NoChange
  <2>2. Reference \in Int /\ Distance(Reference, pre) <= (Threshold - 1) * quiet
    BY DEF Reference, DriftBounded, Drift
  <2>3. Distance(Reference, cmd') <= (Threshold - 1) * (quiet + 1)
    BY <2>1, <2>2, DriftStep
  <2>4. Reference' = Reference
    BY <2>1 DEF Reference
  <2>5. Distance(Reference', pre') <= (Threshold - 1) * quiet'
    BY <2>1, <2>3, <2>4
  <2>6. DriftBounded'
    BY <2>5 DEF DriftBounded, Reference, Drift
  <2>7. pre' \in Int /\ target' \in Int /\ quiet' \in Nat /\ commanded' \in BOOLEAN
    BY <2>1
  <2>8. AtHome'
    BY <2>1 DEF AtHome
  <2> QED BY <2>6, <2>7, <2>8
<1> QED BY <1>1, <1>2, <1>3 DEF Write

LEMMA NextIInv == IInv /\ [Next]_vars => IInv'
<1> SUFFICES ASSUME IInv, [Next]_vars PROVE IInv'
  OBVIOUS
<1> USE DEF IInv
<1>0. Len(Trajs) \in Nat
  BY TrajsAssumption
<1>1. CASE Callback
  <2>1. published' \in Messages /\ buffer' \in Messages
    BY <1>0, <1>1 DEF Callback, Receive, TypeOK, Messages
  <2>2. cb' \in {"idle", "locked", "written"} /\ newMsg' \in BOOLEAN
    BY <1>1 DEF Callback, Receive, TypeOK
  <2>4. rushed' \in BOOLEAN /\ raced' \in BOOLEAN
    BY <1>1, Zenon DEF Callback, Receive, TypeOK
  <2>3. UNCHANGED <<held, active, up, timeVars, trajVars, writeVars>>
    BY <1>1 DEF Callback
  <2> QED BY <2>1, <2>2, <2>3, <2>4
      DEF TypeOK, DriftBounded, Drift, AtHome, timeVars, trajVars, writeVars, Messages
<1>2. CASE Switch
  BY <1>2 DEF Switch, TypeOK, Messages, DriftBounded, Drift, AtHome, callbackVars, timeVars, trajVars, writeVars
<1>3. ASSUME NEW d \in 0..2, Begin(d) PROVE IInv'
  BY <1>3 DEF Begin, TypeOK, Messages, DriftBounded, Drift, AtHome, flowVars, callbackVars, trajVars, writeVars
<1>4. CASE Adopt
  BY <1>4 DEF Adopt, TypeOK, Messages, DriftBounded, Drift, AtHome, callbackVars, timeVars, writeVars
<1>5. CASE Clear
  BY <1>5 DEF Clear, TypeOK, Messages, DriftBounded, Drift, AtHome, callbackVars, timeVars, trajVars, writeVars
<1>6. CASE Command
  <2>1. now - start \in Nat
    BY DEF TypeOK
  <2>2. active /\ traj # 0 => traj \in DOMAIN Trajs
    BY <1>0, TrajsAssumption DEF TypeOK, Messages
  <2>3. cmd' \in Int
    BY <1>6, <2>1, <2>2, PointAtInt DEF Command, TypeOK
  <2>4. /\ pre' \in Int /\ target' \in Int /\ commanded' \in BOOLEAN /\ quiet' \in Nat
        /\ DriftBounded' /\ AtHome'
    BY <1>6, <2>3, WriteKeepsBound DEF Command, TypeOK
  <2> QED BY <1>6, <2>3, <2>4
      DEF Command, TypeOK, Messages, flowVars, callbackVars, timeVars, trajVars
<1>7. CASE UNCHANGED vars
  BY <1>7 DEF vars, flowVars, callbackVars, timeVars, trajVars, writeVars,
              TypeOK, Messages, DriftBounded, Drift, AtHome
<1> QED BY <1>1, <1>2, <1>3, <1>4, <1>5, <1>6, <1>7 DEF Next

LEMMA Invariance == Spec => []IInv
  BY InitIInv, NextIInv, PTL DEF Spec

\* Every variable of the servo path keeps its type: update and write handle
\* numbers only, whatever is published and however long cycles take.
THEOREM TypeCorrect == Spec => []TypeOK
  BY Invariance, PTL DEF IInv

\* The robot lags what write was last asked for by less than the threshold for
\* each write that saw no change (positionCommandRunning), for every message
\* list, threshold and pattern of skipped cycles; before the first command was
\* sent it is the distance from 0 that is so bounded.
THEOREM DriftIsBounded == Spec => []DriftBounded
  BY Invariance, PTL DEF IInv

\* A trajectory whose time is over has brought the robot to its last point, but
\* for that drift, or has never left the neighbourhood of 0 and moved nothing.
THEOREM TrajectoriesArrive == Spec => ArrivesWithinDrift
<1> DEFINE Arrives ==
      up = "command" /\ up' = "idle" /\ active /\ traj # 0 /\ DtAccepted
        /\ now - start >= Trajs[traj].total
      => LET p == Trajs[traj].points
         IN  IF commanded' THEN Distance(target', p[Len(p)]) <= Drift'
                           ELSE target' = Home /\ Distance(0, p[Len(p)]) <= Drift'
<1>1. IInv /\ [Next]_vars => Arrives
  <2> SUFFICES ASSUME IInv, [Next]_vars,
                      up = "command", up' = "idle", active, traj # 0, DtAccepted,
                      now - start >= Trajs[traj].total
               PROVE  LET p == Trajs[traj].points
                      IN  IF commanded' THEN Distance(target', p[Len(p)]) <= Drift'
                          ELSE target' = Home /\ Distance(0, p[Len(p)]) <= Drift'
    BY Zenon
  <2>1. Command
    BY DEF Next, Callback, Switch, Begin, Adopt, Clear, Command, vars
  <2>2. traj \in DOMAIN Trajs /\ now - start \in Nat
    BY TrajsAssumption DEF IInv, TypeOK, Messages
  <2>3. cmd' = Trajs[traj].points[Len(Trajs[traj].points)]
    BY <2>1, <2>2, PointAtEnd DEF Command
  <2>4. pre' = cmd'
    BY <2>1 DEF Command, Write, Send, NoChange
  <2>5. DriftBounded' /\ AtHome'
    BY NextIInv DEF IInv
  <2> QED BY <2>3, <2>4, <2>5 DEF DriftBounded, AtHome
<1>2. [][Arrives]_vars <=> ArrivesWithinDrift
  BY PTL DEF ArrivesWithinDrift
<1> QED BY Invariance, <1>1, <1>2, PTL DEF Spec

-----------------------------------------------------------------------------

LEMMA HandoverInvariance == Spec => []Handover
<1>1. Init => Handover
  BY DEF Init, Handover
<1>2. Handover /\ [Next]_vars => Handover'
  <2> SUFFICES ASSUME Handover, [Next]_vars PROVE Handover'
    OBVIOUS
  <2> USE DEF Handover
  <2>1. CASE Callback
    <3>0. UNCHANGED <<up, traj>>
      BY <2>1 DEF Callback, trajVars
    <3>1. CASE Receive /\ UNCHANGED <<buffer, newMsg>>
      BY <3>0, <3>1 DEF Receive
    <3>2. CASE cb = "locked" /\ cb' = "written" /\ UNCHANGED <<newMsg, rushed, raced>>
      BY <3>0, <3>2
    <3>3. CASE cb = "written" /\ cb' = "idle" /\ newMsg' = TRUE /\ raced' = (up = "clear")
               /\ UNCHANGED <<buffer, rushed>>
      <4>1. raced' => rushed'
        BY <3>3
      <4>2. ~raced' => up' # "clear"
        BY <3>0, <3>3
      <4> QED BY <3>0, <3>3, <4>1, <4>2
    <3> QED BY <2>1, <3>1, <3>2, <3>3 DEF Callback
  <2>2. CASE Switch
    BY <2>2 DEF Switch, callbackVars, trajVars
  <2>3. ASSUME NEW d \in 0..2, Begin(d) PROVE Handover'
    BY <2>3 DEF Begin, flowVars, callbackVars, trajVars
  <2>4. CASE Adopt
    BY <2>4 DEF Adopt, callbackVars
  <2>5. CASE Clear
    BY <2>5 DEF Clear, callbackVars, trajVars
  <2>6. CASE Command
    BY <2>6 DEF Command, flowVars, callbackVars, trajVars
  <2>7. CASE UNCHANGED vars
    BY <2>7 DEF vars, flowVars, callbackVars, trajVars
  <2> QED BY <2>1, <2>2, <2>3, <2>4, <2>5, <2>6, <2>7 DEF Next
<1> QED BY <1>1, <1>2, PTL DEF Spec

\* A message is lost only if its callback sets new_msg_ between update's read
\* and clear, which takes a message that comes while another is waiting; every
\* other one is followed, wherever in update its callback runs.
THEOREM LostOnlyInTheGap == Spec => []NewestAdopted
<1>1. Handover => NewestAdopted
  BY DEF Handover, NewestAdopted
<1> QED BY <1>1, HandoverInvariance, PTL

=============================================================================
