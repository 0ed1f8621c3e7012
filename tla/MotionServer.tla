---------------------------- MODULE MotionServer ----------------------------
(***************************************************************************)
(* The motion services of dsr_controller2, the callback groups they run    *)
(* in, and the robot behind DRFL.                                          *)
(*                                                                         *)
(* on_activate creates every service in the node's default callback group, *)
(* which is mutually exclusive; only motion/move_stop has a group of its   *)
(* own (cb_group_).  The controller manager spins a multi-threaded         *)
(* executor, so one callback of each group may be running at a time.  A    *)
(* motion service with sync_type 0 calls the blocking DRFL function and    *)
(* holds the default group until the motion is over, or, when the request  *)
(* names a blending radius, until the robot is that close to the target.   *)
(*                                                                         *)
(* Definitions whose name ends in Variant are plausible bugs of the one    *)
(* that follows them; no specification uses them.                          *)
(***************************************************************************)
EXTENDS Naturals

CONSTANTS
  Ids,       \* the requests clients may send, each sent at most once
  NoMotion,  \* the robot executes nothing
  Blending   \* it is within the radius of a blended motion, and goes on

ASSUME NoMotionAssumption == NoMotion \notin Ids /\ Blending \notin Ids /\ NoMotion # Blending

VARIABLES
  op,        \* op[i]: the service request i asks for
  stage,     \* stage[i]: how far request i has come
  okay,      \* okay[i]: the success field of the response to i
  motion,    \* the request whose motion the robot executes
  paused,    \* that motion is paused
  completed  \* the requests whose motion the robot carried out, a blended one up
             \* to its radius

serverVars == <<op, stage, okay, motion, paused, completed>>

(***************************************************************************)
(* "move" stands for any of move_joint, move_line, move_jointx,            *)
(* move_circle, move_spline_joint, move_spline_task, move_blending,        *)
(* move_spiral and move_periodic with sync_type 0, "amove" for the same    *)
(* services with sync_type 1.  "blend" stands for those that have a        *)
(* radius, with sync_type 0 and a radius that is not 0.                    *)
(***************************************************************************)
Services == {"move", "blend", "amove", "wait", "pause", "resume", "stop"}

SyncMoves == {"move", "blend"}

NoService == "none"

Stages == {"unsent", "queued", "taken", "blocked", "answered"}

GroupVariant(o) == "default"

\* The callback group a service is created in.
Group(o) == IF o = "stop" THEN "cb_group_" ELSE "default"

\* A callback is running for request i.
Running(i) == stage[i] \in {"taken", "blocked"}

\* The group of service o runs no callback.
GroupFree(o) == \A j \in Ids : Running(j) => Group(op[j]) # Group(o)

ServerInit ==
  /\ op = [i \in Ids |-> NoService]
  /\ stage = [i \in Ids |-> "unsent"]
  /\ okay = [i \in Ids |-> FALSE]
  /\ motion = NoMotion
  /\ paused = FALSE
  /\ completed = {}

-----------------------------------------------------------------------------
(* The executor and the transport.                                         *)

\* A client sends request i; it waits in the queue of its service.
Send(i, o) ==
  /\ stage[i] = "unsent"
  /\ op' = [op EXCEPT ![i] = o]
  /\ stage' = [stage EXCEPT ![i] = "queued"]
  /\ UNCHANGED <<okay, motion, paused, completed>>

\* Every group reentrant.
TakeVariant(i) ==
  /\ stage[i] = "queued"
  /\ stage' = [stage EXCEPT ![i] = "taken"]
  /\ UNCHANGED <<op, okay, motion, paused, completed>>

\* A thread of the executor takes request i and enters its callback.
Take(i) ==
  /\ stage[i] = "queued"
  /\ GroupFree(op[i])
  /\ stage' = [stage EXCEPT ![i] = "taken"]
  /\ UNCHANGED <<op, okay, motion, paused, completed>>

\* The callback of i returns and its response, with success = b, is sent.
Answer(i, b) ==
  /\ stage' = [stage EXCEPT ![i] = "answered"]
  /\ okay' = [okay EXCEPT ![i] = b]

-----------------------------------------------------------------------------
(* The callbacks.  Each makes one DRFL call; DRFL is modelled by what the  *)
(* callbacks rely on.                                                      *)

\* The sync branch calls the non-blocking function and answers at once.
StartMoveVariant(i) ==
  /\ stage[i] = "taken" /\ op[i] \in SyncMoves
  /\ motion' = i
  /\ paused' = FALSE
  /\ Answer(i, TRUE)
  /\ UNCHANGED <<op, completed>>

\* sync_type 0: DRFL accepts the motion and blocks the callback.  A motion
\* started by an earlier amove is given up for the new one, the rest of a
\* blended one is joined with it.
StartMove(i) ==
  /\ stage[i] = "taken" /\ op[i] \in SyncMoves
  /\ motion' = i
  /\ paused' = FALSE
  /\ stage' = [stage EXCEPT ![i] = "blocked"]
  /\ UNCHANGED <<op, okay, completed>>

\* sync_type 1: DRFL accepts the motion and returns.
StartAsync(i) ==
  /\ stage[i] = "taken" /\ op[i] = "amove"
  /\ motion' = i
  /\ paused' = FALSE
  /\ Answer(i, TRUE)
  /\ UNCHANGED <<op, completed>>

\* DRFL does not accept the motion.
RefuseMove(i) ==
  /\ stage[i] = "taken" /\ op[i] \in SyncMoves \cup {"amove"}
  /\ Answer(i, FALSE)
  /\ UNCHANGED <<op, motion, paused, completed>>

\* The blocking DRFL call of i returns: the robot has finished the motion or is
\* within its radius, or the motion was stopped, in which case what DRFL reports
\* is not known.
MoveReturns(i) ==
  /\ stage[i] = "blocked" /\ op[i] \in SyncMoves
  /\ motion # i
  /\ \E b \in BOOLEAN : /\ i \in completed => b
                        /\ Answer(i, b)
  /\ UNCHANGED <<op, motion, paused, completed>>

\* move_wait calls mwait, which blocks until the robot executes nothing.
StartWait(i) ==
  /\ stage[i] = "taken" /\ op[i] = "wait"
  /\ stage' = [stage EXCEPT ![i] = "blocked"]
  /\ UNCHANGED <<op, okay, motion, paused, completed>>

WaitReturns(i) ==
  /\ stage[i] = "blocked" /\ op[i] = "wait"
  /\ motion = NoMotion
  /\ Answer(i, TRUE)
  /\ UNCHANGED <<op, motion, paused, completed>>

Pause(i) ==
  /\ stage[i] = "taken" /\ op[i] = "pause"
  /\ paused' = (motion # NoMotion)
  /\ Answer(i, motion # NoMotion)
  /\ UNCHANGED <<op, motion, completed>>

Resume(i) ==
  /\ stage[i] = "taken" /\ op[i] = "resume"
  /\ paused' = FALSE
  /\ Answer(i, paused)
  /\ UNCHANGED <<op, motion, completed>>

\* move_stop hands on what Drfl->stop returns: it ends the motion, whichever
\* callback is blocked on it, or is refused.
Stop(i) ==
  /\ stage[i] = "taken" /\ op[i] = "stop"
  /\ \/ /\ motion' = NoMotion /\ paused' = FALSE
        /\ \E b \in BOOLEAN : Answer(i, b)
     \/ Answer(i, FALSE) /\ UNCHANGED <<motion, paused>>
  /\ UNCHANGED <<op, completed>>

\* The robot reaches the end of the motion.
Complete ==
  /\ motion # NoMotion /\ ~paused
  /\ completed' = completed \cup ({motion} \ {Blending})
  /\ motion' = NoMotion
  /\ UNCHANGED <<op, stage, okay, paused>>

\* The robot comes within the radius of the target of a blended motion.
Approach ==
  /\ motion \in Ids /\ op[motion] = "blend" /\ ~paused
  /\ completed' = completed \cup {motion}
  /\ motion' = Blending
  /\ UNCHANGED <<op, stage, okay, paused>>

\* Request i's callback takes a step.
Callback(i) ==
  \/ StartMove(i) \/ StartAsync(i) \/ RefuseMove(i) \/ MoveReturns(i)
  \/ StartWait(i) \/ WaitReturns(i)
  \/ Pause(i) \/ Resume(i) \/ Stop(i)

\* Everything but the clients.
ServerNext ==
  \/ \E i \in Ids : Take(i) \/ Callback(i)
  \/ Complete
  \/ Approach

Next ==
  \/ \E i \in Ids, o \in Services : Send(i, o)
  \/ ServerNext

(***************************************************************************)
(* The executor keeps taking requests and its threads keep running.        *)
(* Nothing says that a motion ever ends: an obstacle, a pause or a very    *)
(* low speed may hold it for as long as one likes, so Complete and         *)
(* Approach are not fair.                                                  *)
(***************************************************************************)
ServerFairness == \A i \in Ids : WF_serverVars(Take(i)) /\ WF_serverVars(Callback(i))

Spec == ServerInit /\ [][Next]_serverVars

FairSpec == Spec /\ ServerFairness

-----------------------------------------------------------------------------
(* Properties.                                                             *)

TypeOK ==
  /\ op \in [Ids -> Services \cup {NoService}]
  /\ stage \in [Ids -> Stages]
  /\ okay \in [Ids -> BOOLEAN]
  /\ motion \in Ids \cup {NoMotion, Blending}
  /\ paused \in BOOLEAN
  /\ completed \subseteq Ids

(***************************************************************************)
(* A client that has the answer to a sync motion may rely on the robot no  *)
(* longer executing it: movej_cb .. moveperiodic_cb answer only when the   *)
(* blocking DRFL call is back, whoever ended the motion.  (The answer to   *)
(* a blended one says that the robot is near the target, not at rest.)     *)
(***************************************************************************)
AnsweredMoveIsOver ==
  \A i \in Ids : op[i] = "move" /\ stage[i] = "answered" => motion # i

(***************************************************************************)
(* A motion a client is waiting for is never given up for another one: it  *)
(* runs until it is over, within its radius, or stopped.  This is what the *)
(* shared, mutually exclusive default group of the motion services is for. *)
(***************************************************************************)
BlockingMoveKeepsRobot ==
  [][\A i \in Ids : motion = i /\ op[i] \in SyncMoves
       => motion' \in {i, NoMotion, Blending}]_serverVars

(***************************************************************************)
(* A move_stop request is served even while a motion that never ends holds *)
(* the default group: it has a callback group of its own (cb_group_).      *)
(***************************************************************************)
StopIsServed ==
  \A i \in Ids : op[i] = "stop" /\ stage[i] = "queued" ~> stage[i] = "answered"

(***************************************************************************)
(* Once the robot stands still, a callback blocked in DRFL returns: no     *)
(* later motion can slip in front of a move_wait that is about to return.  *)
(***************************************************************************)
StandstillFreesGroup ==
  \A i \in Ids : stage[i] = "blocked" /\ motion = NoMotion ~> stage[i] = "answered"

=============================================================================
