----------------------------- MODULE JointControl -----------------------------
(***************************************************************************)
(* The servo path: dsr_joint_trajectory (RobotController), which turns the *)
(* messages of ~/joint_trajectory into position commands, and the write of *)
(* dsr_hardware2 (DRHWInterface), which sends commands to the robot.       *)
(*                                                                         *)
(* One thread of the controller manager runs update and write in each      *)
(* control cycle; the subscription's callback runs in a thread of the      *)
(* executor and hands its message over through a RealtimeBuffer and the    *)
(* plain flag new_msg_.  Time is counted in control periods.  The six      *)
(* joints are one integer, in units a fraction of the threshold below      *)
(* which positionCommandRunning sees no change; read is left out, as no    *)
(* command depends on it: the commands start at 0 wherever the robot is.   *)
(***************************************************************************)
EXTENDS Integers, Sequences

CONSTANTS
  Trajs,      \* the messages in the order they are published: points and total time
  Threshold,  \* a change of the command is seen from this size on
  Home,       \* where the robot stands at the start
  MaxTime     \* bound on the time

Trajectory == [points : Seq(Int), total : Nat \ {0}]

\* A message with fewer than two points indexes outside the list (undefined
\* behaviour), one that lasts no time divides by zero.
ASSUME TrajsAssumption ==
  Trajs \in Seq(Trajectory) /\ \A m \in DOMAIN Trajs : Len(Trajs[m].points) >= 2
ASSUME ThresholdAssumption == Threshold \in Nat \ {0}
ASSUME HomeAssumption == Home \in Int
ASSUME BoundAssumption == MaxTime \in Nat

VARIABLES
  cb,         \* where the callback is
  published,  \* how many messages the callback has been given
  buffer,     \* the message last written to the RealtimeBuffer, 0 for none
  held,       \* the message the real-time side of the buffer holds
  newMsg,     \* new_msg_
  active,     \* the trajectory controller is active
  up,         \* where the control cycle is
  traj,       \* trajectory_msg_, 0 for nullptr
  start,      \* start_time_
  now,        \* the time of the cycle
  dt,         \* the length of the cycle
  cmd,        \* joint_position_command_
  pre,        \* pre_joint_position_command_
  target,     \* where the robot was last sent
  commanded,  \* history: a command was sent
  quiet,      \* history: the writes since then that saw no change
  rushed,     \* history: the last message came while new_msg_ was set for another
  raced       \* history: its callback set new_msg_ between update's read and clear

callbackVars == <<cb, published, buffer, rushed, raced>>
flowVars == <<callbackVars, held, newMsg, active>>
timeVars == <<now, dt>>
trajVars == <<traj, start>>
writeVars == <<cmd, pre, target, commanded, quiet>>
vars == <<flowVars, up, timeVars, trajVars, writeVars>>

Init ==
  /\ cb = "idle" /\ published = 0 /\ buffer = 0 /\ held = 0
  /\ newMsg = FALSE /\ active = FALSE
  /\ up = "idle" /\ now = 0 /\ dt = 0
  /\ traj = 0 /\ start = 0
  /\ cmd = 0 /\ pre = 0 /\ target = Home /\ commanded = FALSE /\ quiet = 0
  /\ rushed = FALSE /\ raced = FALSE

-----------------------------------------------------------------------------
(* The subscription's callback.                                            *)

\* A message is handed to the callback, which waits for the buffer's lock.
Receive ==
  /\ cb = "idle" /\ published < Len(Trajs)
  /\ cb' = "locked" /\ published' = published + 1
  /\ rushed' = newMsg /\ raced' = FALSE

\* The flag is set before the message is there.
CallbackVariant ==
  /\ \/ /\ Receive
        /\ newMsg' = TRUE /\ UNCHANGED buffer
     \/ /\ cb = "locked" /\ cb' = "idle"
        /\ buffer' = published /\ UNCHANGED <<published, newMsg, rushed, raced>>
  /\ UNCHANGED <<held, active, up, timeVars, trajVars, writeVars>>

\* traj_msg_external_point_ptr_.writeFromNonRT(traj_msg), under the buffer's
\* lock, then new_msg_ = true: update may be anywhere at each of the steps.
Callback ==
  /\ \/ Receive /\ UNCHANGED <<buffer, newMsg>>
     \/ /\ cb = "locked" /\ cb' = "written"
        /\ buffer' = published /\ UNCHANGED <<published, newMsg, rushed, raced>>
     \/ /\ cb = "written" /\ cb' = "idle"
        /\ newMsg' = TRUE /\ raced' = (up = "clear")
        /\ UNCHANGED <<published, buffer, rushed>>
  /\ UNCHANGED <<held, active, up, timeVars, trajVars, writeVars>>

-----------------------------------------------------------------------------
(* The control cycle.                                                      *)

\* The controller manager starts or stops the controller between two cycles.
\* on_activate clears the interfaces only: the message and its start time stay.
Switch ==
  /\ up = "idle"
  /\ active' = ~active
  /\ UNCHANGED <<callbackVars, held, newMsg, up, timeVars, trajVars, writeVars>>

\* A cycle comes d periods after the one before: far too early, on time, or
\* far too late.
Begin(d) ==
  /\ up = "idle" /\ now + d <= MaxTime
  /\ now' = now + d /\ dt' = d
  /\ up' = IF active /\ newMsg THEN "adopt" ELSE "command"
  /\ UNCHANGED <<flowVars, trajVars, writeVars>>

\* trajectory_msg_ = *readFromRT(), which finds the newest message unless the
\* callback holds the lock; start_time_ = time
Adopt ==
  /\ up = "adopt" /\ up' = "clear"
  /\ held' = IF cb = "locked" THEN held ELSE buffer
  /\ traj' = held' /\ start' = now
  /\ UNCHANGED <<callbackVars, newMsg, active, timeVars, writeVars>>

\* new_msg_ = false
Clear ==
  /\ up = "clear" /\ up' = "command"
  /\ newMsg' = FALSE
  /\ UNCHANGED <<callbackVars, held, active, timeVars, trajVars, writeVars>>

\* One point short of the end.
PointAtVariant(m, t) ==
  LET p == Trajs[m].points
      ind == (t * Len(p)) \div Trajs[m].total
  IN  p[IF ind + 2 <= Len(p) - 1 THEN ind + 2 ELSE Len(p) - 1]

\* interpolate_trajectory_point: the point after the ind-th of as many equal
\* parts of the total time as there are points.  interpolate_point weighs that
\* point with itself, so nothing is interpolated.
PointAt(m, t) ==
  LET p == Trajs[m].points
      ind == (t * Len(p)) \div Trajs[m].total
  IN  p[IF ind + 2 <= Len(p) THEN ind + 2 ELSE Len(p)]

Distance(x, y) == IF x < y THEN y - x ELSE x - y

\* Of the lengths Begin chooses from, min_dt and max_dt let through one period.
DtAccepted == dt = 1

\* servoj_rt or amovej, and the command is remembered as the previous one.
Send ==
  /\ Distance(pre, cmd') >= Threshold
  /\ target' = cmd' /\ commanded' = TRUE /\ pre' = cmd' /\ quiet' = 0

\* No change is seen; the command is remembered all the same.
NoChange ==
  /\ Distance(pre, cmd') < Threshold
  /\ pre' = cmd' /\ quiet' = quiet + 1
  /\ UNCHANGED <<target, commanded>>

\* The previous command is updated in skipped cycles, too.
WriteVariant ==
  \/ ~DtAccepted /\ pre' = cmd' /\ UNCHANGED <<target, commanded, quiet>>
  \/ DtAccepted /\ (Send \/ NoChange)

\* write skips the cycle, sends the command or sees no change.
Write ==
  \/ ~DtAccepted /\ UNCHANGED <<pre, target, commanded, quiet>>
  \/ DtAccepted /\ (Send \/ NoChange)

\* The rest of update, then write.
Command ==
  /\ up = "command" /\ up' = "idle"
  /\ cmd' = IF active /\ traj # 0 THEN PointAt(traj, now - start) ELSE cmd
  /\ Write
  /\ UNCHANGED <<flowVars, timeVars, trajVars>>

Next ==
  \/ Callback
  \/ Switch
  \/ \E d \in 0..2 : Begin(d)
  \/ Adopt
  \/ Clear
  \/ Command

Spec == Init /\ [][Next]_vars

-----------------------------------------------------------------------------
(* Properties.                                                             *)

Messages == 0..Len(Trajs)

TypeOK ==
  /\ cb \in {"idle", "locked", "written"}
  /\ up \in {"idle", "adopt", "clear", "command"}
  /\ newMsg \in BOOLEAN /\ active \in BOOLEAN /\ commanded \in BOOLEAN
  /\ rushed \in BOOLEAN /\ raced \in BOOLEAN
  /\ published \in Messages /\ buffer \in Messages /\ held \in Messages /\ traj \in Messages
  /\ now \in Nat /\ dt \in 0..2 /\ start \in Nat /\ start <= now
  /\ cmd \in Int /\ pre \in Int /\ target \in Int /\ quiet \in Nat

(***************************************************************************)
(* When the callback is done and update is past the flag, the controller   *)
(* follows the last message, with one exception: a message whose callback  *)
(* set new_msg_ after update had read the buffer for the message before    *)
(* and before update cleared the flag is lost until another comes.  It     *)
(* takes a message that came while the one before was still waiting: one   *)
(* that has been taken up first is never overtaken so, wherever in update  *)
(* the callback of the next runs, though new_msg_ is a plain flag cleared  *)
(* after reading, and readFromRT does not wait for the callback.           *)
(***************************************************************************)
NewestAdopted ==
  cb = "idle" /\ up \in {"idle", "command"} /\ ~newMsg /\ traj # buffer => raced /\ rushed

\* How far the commands may stray unseen.
Drift == (Threshold - 1) * quiet

(***************************************************************************)
(* What the robot was last sent differs from the command write last saw by *)
(* less than the threshold for each write since that saw no change: a slow *)
(* motion may never be sent, but no faster one is lost, in particular not  *)
(* one that falls into a skipped cycle.  As long as nothing was sent, the  *)
(* commands stay as near to 0, where they start and the robot need not be. *)
(***************************************************************************)
DriftBounded == Distance(IF commanded THEN target ELSE 0, pre) <= Drift

(***************************************************************************)
(* After a cycle of normal length past its total time, the trajectory's    *)
(* last point is what the robot was sent, but for that drift, whatever was *)
(* skipped on the way - unless nothing was ever sent: then the trajectory  *)
(* ends that near to 0, and the robot stands where it stood at the start.  *)
(***************************************************************************)
ArrivesWithinDrift ==
  [][up = "command" /\ up' = "idle" /\ active /\ traj # 0 /\ DtAccepted
       /\ now - start >= Trajs[traj].total
     => LET p == Trajs[traj].points
        IN  IF commanded' THEN Distance(target', p[Len(p)]) <= Drift'
                          ELSE target' = Home /\ Distance(0, p[Len(p)]) <= Drift']_vars

=============================================================================
