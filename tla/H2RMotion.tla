------------------------------ MODULE H2RMotion ------------------------------
(***************************************************************************)
(* The hold-to-run actions motion/movej_h2r and motion/movel_h2r of        *)
(* dsr_controller2, composed with its motion services (MotionServer).      *)
(*                                                                         *)
(* Goal and cancel requests are served in the node's default callback      *)
(* group like the motion services, but each accepted goal is carried out   *)
(* by a detached thread of its own, which calls DRFL outside of any group. *)
(* The robot executes a hold-to-run motion while the thread keeps calling  *)
(* hold2run, and rests when it does not.                                   *)
(***************************************************************************)
EXTENDS Naturals

CONSTANTS
  Goals,     \* the goals clients may send
  Calls,     \* the requests clients may send to the motion services
  NoMotion, Blending  \* see MotionServer

Goal(g) == <<"goal", g>>
Cancel(g) == <<"cancel", g>>

Requests == Calls \cup {Goal(g) : g \in Goals} \cup {Cancel(g) : g \in Goals}

ASSUME CallsAssumption == \A g \in Goals : Goal(g) \notin Calls /\ Cancel(g) \notin Calls
ASSUME RobotAssumption ==
  NoMotion \notin Requests /\ Blending \notin Requests /\ NoMotion # Blending

VARIABLES
  op, stage, okay, motion, paused, completed,   \* see MotionServer
  status,  \* status[g]: the state of goal g
  thread,  \* thread[g]: where the thread of g is
  ctxOk,   \* rclcpp::ok()
  refused  \* history: the goals whose Drfl->stop was refused

Server == INSTANCE MotionServer WITH Ids <- Requests

serverVars == <<op, stage, okay, motion, paused, completed>>
callVars == <<op, stage, okay, completed>>
vars == <<serverVars, status, thread, ctxOk, refused>>

Ended == {"succeeded", "canceled", "aborted"}

Init ==
  /\ Server!ServerInit
  /\ status = [g \in Goals |-> "unknown"]
  /\ thread = [g \in Goals |-> "none"]
  /\ ctxOk = TRUE
  /\ refused = {}

GoTo(g, label) == thread' = [thread EXCEPT ![g] = label]

SetStatus(g, s) == status' = [status EXCEPT ![g] = s]

-----------------------------------------------------------------------------
(* The clients and the callbacks of the action servers.                    *)

\* A goal can be canceled once its client knows that it was accepted.
Send ==
  /\ \/ \E i \in Calls, o \in {"move", "amove", "pause", "stop"} : Server!Send(i, o)
     \/ \E g \in Goals : Server!Send(Goal(g), "goal")
     \/ \E g \in Goals : stage[Goal(g)] = "answered" /\ Server!Send(Cancel(g), "cancel")
  /\ UNCHANGED <<status, thread, ctxOk, refused>>

\* handle_goal accepts every goal, handle_accepted starts its thread.
AcceptGoal(g) ==
  /\ stage[Goal(g)] = "taken"
  /\ Server!Answer(Goal(g), TRUE)
  /\ SetStatus(g, "executing") /\ GoTo(g, "start")
  /\ UNCHANGED <<op, motion, paused, completed, ctxOk, refused>>

\* A goal that has ended is canceled as well.
AcceptCancelVariant(g) ==
  /\ stage[Cancel(g)] = "taken"
  /\ Server!Answer(Cancel(g), TRUE)
  /\ SetStatus(g, "canceling")
  /\ UNCHANGED <<op, motion, paused, completed, thread, ctxOk, refused>>

\* handle_cancel accepts; rclcpp_action refuses for a goal that has ended.
AcceptCancel(g) ==
  /\ stage[Cancel(g)] = "taken"
  /\ Server!Answer(Cancel(g), status[g] \notin Ended)
  /\ SetStatus(g, IF status[g] \in Ended THEN status[g] ELSE "canceling")
  /\ UNCHANGED <<op, motion, paused, completed, thread, ctxOk, refused>>

-----------------------------------------------------------------------------
(* The thread of a goal: handle_accepted_movej_h2r, handle_accepted_movel_h2r. *)

\* Drfl->movej_h2r, which gives up whatever the robot executes, or fails.
Start(g) ==
  /\ thread[g] = "start"
  /\ \/ /\ motion' = Goal(g) /\ paused' = FALSE
        /\ GoTo(g, "check") /\ UNCHANGED status
     \/ /\ SetStatus(g, "aborted") /\ GoTo(g, "done")
        /\ UNCHANGED <<motion, paused>>
  /\ UNCHANGED <<callVars, ctxOk, refused>>

\* The goal is not asked whether it is being canceled.
CheckVariant(g) ==
  /\ thread[g] = "check"
  /\ GoTo(g, IF ctxOk THEN "poll" ELSE "gone")
  /\ UNCHANGED <<serverVars, status, ctxOk, refused>>

\* while (rclcpp::ok()): a thread that sees the shutdown leaves its goal as it is.
Check(g) ==
  /\ thread[g] = "check"
  /\ GoTo(g, IF ~ctxOk THEN "gone"
             ELSE IF status[g] = "canceling" THEN "stopCanceled" ELSE "poll")
  /\ UNCHANGED <<serverVars, status, ctxOk, refused>>

\* The goal succeeds while the robot is still moving.
PollVariant(g) ==
  /\ thread[g] = "poll"
  /\ GoTo(g, "succeed") \/ GoTo(g, "check")
  /\ UNCHANGED <<serverVars, status, ctxOk, refused>>

\* The goal is reported to have succeeded before the robot is stopped.
PollEarly(g) ==
  /\ thread[g] = "poll"
  /\ \/ GoTo(g, "stopArrived") /\ SetStatus(g, "succeeded")
     \/ GoTo(g, "check") /\ UNCHANGED status
  /\ UNCHANGED <<serverVars, ctxOk, refused>>

\* The robot is within 0.1 (0.3) of the target, whoever brought it there, or not:
\* then hold2run, feedback, sleep.
Poll(g) ==
  /\ thread[g] = "poll"
  /\ GoTo(g, "stopArrived") \/ GoTo(g, "check")
  /\ UNCHANGED <<serverVars, status, ctxOk, refused>>

\* Drfl->stop(STOP_TYPE_QUICK): the robot's motion ends, whosever it is, or the
\* stop is refused, which the thread does not look at.
StopRobot(g) ==
  /\ \/ motion' = NoMotion /\ paused' = FALSE /\ UNCHANGED refused
     \/ refused' = refused \cup {g} /\ UNCHANGED <<motion, paused>>
  /\ \/ thread[g] = "stopCanceled" /\ GoTo(g, "cancel")
     \/ thread[g] = "stopArrived" /\ GoTo(g, "succeed")
  /\ UNCHANGED <<callVars, status, ctxOk>>

\* goal_handle->canceled, goal_handle->succeed
Finish(g) ==
  /\ \/ thread[g] = "cancel" /\ SetStatus(g, "canceled")
     \/ thread[g] = "succeed" /\ SetStatus(g, "succeeded")
  /\ GoTo(g, "done")
  /\ UNCHANGED <<serverVars, ctxOk, refused>>

Thread(g) == Start(g) \/ Check(g) \/ Poll(g) \/ StopRobot(g) \/ Finish(g)

-----------------------------------------------------------------------------

\* hold2run does not come, or comes too late: the robot rests.
Released ==
  /\ \E g \in Goals : motion = Goal(g)
  /\ motion' = NoMotion /\ paused' = FALSE
  /\ UNCHANGED <<callVars, status, thread, ctxOk, refused>>

\* The services; the executor stops taking requests with the context.
Serve ==
  /\ Server!ServerNext
  /\ \A i \in Requests : stage[i] = "queued" /\ stage'[i] = "taken" => ctxOk
  /\ UNCHANGED <<status, thread, ctxOk, refused>>

Shutdown ==
  /\ ctxOk /\ ctxOk' = FALSE
  /\ UNCHANGED <<serverVars, status, thread, refused>>

ServeGoals(g) == AcceptGoal(g) \/ AcceptCancel(g)

Next ==
  \/ Send
  \/ \E g \in Goals : ServeGoals(g) \/ Thread(g)
  \/ Released
  \/ Serve
  \/ Shutdown

Spec == Init /\ [][Next]_vars

(***************************************************************************)
(* The threads run, and so does the executor.  A motion need not end.      *)
(***************************************************************************)
Fairness ==
  /\ \A g \in Goals : WF_vars(Thread(g)) /\ WF_vars(ServeGoals(g))
  /\ \A i \in Requests :
       /\ WF_vars(Server!Take(i) /\ ctxOk /\ UNCHANGED <<status, thread, ctxOk, refused>>)
       /\ WF_vars(Server!Callback(i) /\ UNCHANGED <<status, thread, ctxOk, refused>>)

FairSpec == Spec /\ Fairness

-----------------------------------------------------------------------------
(* Properties.                                                             *)

TypeOK ==
  /\ op \in [Requests -> Server!Services \cup {Server!NoService, "goal", "cancel"}]
  /\ stage \in [Requests -> Server!Stages]
  /\ okay \in [Requests -> BOOLEAN]
  /\ motion \in Requests \cup {NoMotion, Blending} /\ paused \in BOOLEAN
  /\ completed \subseteq Requests
  /\ status \in [Goals -> {"unknown", "executing", "canceling"} \cup Ended]
  /\ thread \in [Goals -> {"none", "start", "check", "poll", "stopCanceled", "cancel",
                           "stopArrived", "succeed", "done", "gone"}]
  /\ ctxOk \in BOOLEAN /\ refused \subseteq Goals

(***************************************************************************)
(* A client that is told its goal has ended may rely on the robot no       *)
(* longer executing it, unless DRFL refused to stop it: the thread stops   *)
(* the robot before it reports, and nothing starts the goal's motion       *)
(* again.  (It reports the same end when the stop was refused.)            *)
(***************************************************************************)
EndedGoalIsStill ==
  \A g \in Goals : status[g] \in Ended /\ g \notin refused => motion # Goal(g)

(***************************************************************************)
(* The goals' threads call DRFL outside the services' callback group, and  *)
(* so a goal may take the robot from a service that waits for its motion,  *)
(* when it starts or when it is stopped.  But once a goal's client has     *)
(* been told of its end, that goal disturbs nobody: the service's motion   *)
(* is lost to a goal that is still under way, to a move_stop, or it is     *)
(* over.                                                                   *)
(***************************************************************************)
Disturbs(g) ==
  /\ thread[g] \in {"start", "stopCanceled", "stopArrived"} /\ thread'[g] # thread[g]
  /\ status[g] \in {"executing", "canceling"} /\ status'[g] = status[g]

MoveStopped ==
  \E j \in Calls : op[j] = "stop" /\ stage[j] = "taken" /\ stage'[j] = "answered"

ServiceLosesRobotToGoals ==
  [][\A i \in Calls :
       motion = i /\ op[i] \in Server!SyncMoves /\ motion' # i
         => i \in completed' \/ MoveStopped \/ \E g \in Goals : Disturbs(g)]_vars

(***************************************************************************)
(* The goal handle goes through the states of a ROS 2 action goal only: an *)
(* end is final (rclcpp_action throws at a second one, in a thread that    *)
(* nobody guards) and canceled comes from canceling, though cancel         *)
(* requests come from another thread at any time.                          *)
(***************************************************************************)
LegalTransitions ==
  [][\A g \in Goals :
       /\ status[g] \in Ended => status'[g] = status[g]
       /\ status'[g] = "canceled" => status[g] \in {"canceling", "canceled"}]_vars

(***************************************************************************)
(* A cancel request ends its goal, whatever the robot does and whoever     *)
(* took it away from the goal, unless a blocking motion service holds the  *)
(* callback group that cancel requests share or the process is going down. *)
(***************************************************************************)
Blocked == \E i \in Requests : stage[i] = "blocked"

CancelEndsGoal ==
  \A g \in Goals :
    stage[Cancel(g)] = "queued" ~> status[g] \in Ended \/ Blocked \/ ~ctxOk

=============================================================================
