----------------------------- MODULE MotionCycle -----------------------------
(***************************************************************************)
(* The nodes spline_motion.py, test.py and default_motion.py of            *)
(* doosan_motion_loop, composed with the motion services they call         *)
(* (MotionServer).                                                         *)
(*                                                                         *)
(* Three kinds of threads share is_running and should_stop without a lock: *)
(* the keyboard thread, one worker thread per accepted SPACE, which runs   *)
(* execute_cycle, and the main thread.  A service call sends a request and *)
(* waits on an event with a timeout; a request given up by its caller      *)
(* stays with the server.                                                  *)
(*                                                                         *)
(* execute_cycle is a script of NSteps motions: HOME, PRE, FORWARD,        *)
(* REVERSE, HOME in spline_motion.py, HOME, PRE, SPLINE, HOME in test.py.  *)
(* Every motion but the last is followed by the same two checks.           *)
(*                                                                         *)
(* default_motion.py (program "trigger") has the same threads.  Its        *)
(* run_one_cycle goes HOME and PRE, whose results it ignores, then from    *)
(* waypoint to waypoint, and sends a move_stop in the end.  It has no      *)
(* should_stop, and its keyboard thread sets the flag of a running cycle   *)
(* (isRunning here) before it starts the thread.                           *)
(***************************************************************************)
EXTENDS Naturals

CONSTANTS
  Programs,  \* the programs that may run, of "cycle" and "trigger"
  Workers,   \* the worker threads, one for each SPACE that may be accepted
  NSteps,    \* the number of motions in the script of execute_cycle
  NApproach, \* the number of motions of run_one_cycle before its waypoints
  NWaypoints, \* the number of waypoints of run_one_cycle
  MaxLate,   \* a bound on the trigger's calls that time out; one ends execute_cycle
  NoMotion,  \* the robot executes nothing
  Blending   \* see MotionServer; the motions of these nodes have no radius

\* move_stop is sent by the keyboard thread only, once.
StopRequest == <<"keyboard", 1>>

\* The requests of the node: step k of worker w is request <<w, k>>, the last
\* step of run_one_cycle its move_stop.
Requests == (Workers \X ((1..NSteps) \cup (1..NApproach + NWaypoints + 1))) \cup {StopRequest}

ASSUME WorkersAssumption == "keyboard" \notin Workers
ASSUME ProgramsAssumption == Programs \subseteq {"cycle", "trigger"}
ASSUME NStepsAssumption == NSteps \in Nat \ {0} /\ NApproach \in Nat /\ NWaypoints \in Nat \ {0}
ASSUME MaxLateAssumption == MaxLate \in Nat \ {0}
ASSUME RobotAssumption ==
  NoMotion \notin Requests /\ Blending \notin Requests /\ NoMotion # Blending

VARIABLES
  op, stage, okay, motion, paused, completed,   \* see MotionServer
  program,     \* "cycle", or "trigger" for default_motion.py
  isRunning,   \* self.is_running, self.running in the trigger
  shouldStop,  \* self.should_stop, which the trigger does not have
  pc,          \* pc[w]: where worker w is in execute_cycle
  step,        \* step[w]: the motion w is at, 0 before its first
  kb,          \* where the keyboard thread is
  main,        \* where the main thread is
  ctxOk,       \* rclpy.ok()
  quitAt,      \* history: the value of step when Q was pressed
  late,        \* the number of the workers' calls that have timed out, counted up to MaxLate
  overlap      \* history: a worker has passed its guard while another one was under way

\* The number of motions in the script
Length == IF program = "cycle" THEN NSteps ELSE NApproach + NWaypoints

Server == INSTANCE MotionServer WITH Ids <- Requests

nodeVars == <<program, isRunning, shouldStop, pc, step, kb, main, ctxOk, quitAt, late, overlap>>
serverVars == <<op, stage, okay, motion, paused, completed>>
vars == <<serverVars, nodeVars>>

Init ==
  /\ Server!ServerInit
  /\ program \in Programs
  /\ isRunning = FALSE
  /\ shouldStop = FALSE
  /\ pc = [w \in Workers |-> "unborn"]
  /\ step = [w \in Workers |-> 0]
  /\ kb = "testing"
  /\ main = "spinning"
  /\ ctxOk = TRUE
  /\ quitAt = [w \in Workers |-> Length]
  /\ late = 0
  /\ overlap = FALSE

\* Daemon threads run until the interpreter exits.
Alive == main # "exited"

GoTo(w, label) == pc' = [pc EXCEPT ![w] = label]

-----------------------------------------------------------------------------
(* The worker threads: execute_cycle, run_one_cycle.                       *)

\* if self.is_running: return
Guard(w) ==
  /\ pc[w] = "guard"
  /\ GoTo(w, IF isRunning THEN "done" ELSE "mark")
  /\ UNCHANGED <<isRunning, shouldStop, step>>

\* self.is_running = True
Mark(w) ==
  /\ pc[w] = "mark"
  /\ isRunning' = TRUE
  /\ GoTo(w, "reset")
  /\ UNCHANGED <<shouldStop, step>>

\* self.should_stop = False
Reset(w) ==
  /\ pc[w] = "reset"
  /\ shouldStop' = FALSE
  /\ step' = [step EXCEPT ![w] = 1]
  /\ GoTo(w, "call")
  /\ UNCHANGED isRunning

\* The flag is reset at the end of the script, as in the trigger, not in a finally.
CallRaisesVariant(w) ==
  /\ pc[w] \in {"call", "callStop"} /\ ~ctxOk
  /\ GoTo(w, "done")
  /\ UNCHANGED <<isRunning, shouldStop, step>>

\* call_async of the next motion, on a node that is being shut down: rclpy may
\* have destroyed the client.  run_one_cycle has no finally.
CallRaises(w) ==
  /\ pc[w] \in {"call", "callStop"} /\ ~ctxOk
  /\ GoTo(w, IF program = "cycle" THEN "finally" ELSE "done")
  /\ UNCHANGED <<isRunning, shouldStop, step>>

\* call_async of the next motion, at the end of the pause before it.
Call(w) ==
  /\ pc[w] = "call"
  /\ Server!Send(<<w, step[w]>>, "move")
  /\ GoTo(w, "await")
  /\ UNCHANGED <<isRunning, shouldStop, step>>

\* A motion that failed is passed over, as line_motion.py does with PRE.
HandleResultVariant(w, success) ==
  /\ GoTo(w, IF step[w] < Length THEN "check" ELSE "finally")
  /\ UNCHANGED <<isRunning, shouldStop, step>>

\* One motion too many.
HandleResultBeyond(w, success) ==
  /\ GoTo(w, IF success /\ step[w] <= Length THEN "check" ELSE "finally")
  /\ UNCHANGED <<isRunning, shouldStop, step>>

\* A motion that failed ends the cycle; the last one's result is not looked at.
\* The trigger does not look at the results of the approach either.
HandleResult(w, success) ==
  /\ LET ignored == program = "trigger" /\ step[w] <= NApproach
         last == IF program = "trigger" THEN "callStop" ELSE "finally" IN
     GoTo(w, IF (success \/ ignored) /\ step[w] < Length THEN "check" ELSE last)
  /\ UNCHANGED <<isRunning, shouldStop, step>>

\* The executor thread sets the event of the call.
Reply(w) ==
  /\ pc[w] = "await"
  /\ stage[<<w, step[w]>>] = "answered"
  /\ HandleResult(w, okay[<<w, step[w]>>])

GivesUp ==
  \/ late < MaxLate /\ late' = late + 1
  \/ late = MaxLate /\ program = "cycle" /\ UNCHANGED late

\* event.wait without a timeout.
ExpireVariant(w) ==
  /\ pc[w] = "await" /\ stage[<<w, step[w]>>] = "answered"
  /\ HandleResult(w, FALSE)
  /\ GivesUp

\* event.wait returns False: call_service returns None, which is a failure.
Expire(w) ==
  /\ pc[w] = "await"
  /\ HandleResult(w, FALSE)
  /\ GivesUp

\* The stop flag is looked at only before the first motion.
CheckVariant(w) ==
  /\ pc[w] = "check"
  /\ step' = [step EXCEPT ![w] = @ + 1]
  /\ GoTo(w, "call")
  /\ UNCHANGED <<isRunning, shouldStop>>

\* if self.should_stop: return.  The trigger goes on without a check: there,
\* shouldStop is never set.
Check(w) ==
  /\ pc[w] = "check"
  /\ \/ /\ shouldStop
        /\ GoTo(w, "finally")
        /\ UNCHANGED step
     \/ /\ ~shouldStop
        /\ step' = [step EXCEPT ![w] = @ + 1]
        /\ GoTo(w, "call")
  /\ UNCHANGED <<isRunning, shouldStop>>

\* The trigger's move_stop at the end of a cycle
CallStop(w) ==
  /\ pc[w] = "callStop"
  /\ Server!Send(<<w, Length + 1>>, "stop")
  /\ GoTo(w, "awaitStop")
  /\ UNCHANGED <<isRunning, shouldStop, step>>

\* It is answered, or its 5 s are over; the result is not looked at.
StopReturns(w) ==
  /\ pc[w] = "awaitStop"
  /\ \/ stage[<<w, Length + 1>>] = "answered" /\ UNCHANGED late
     \/ GivesUp
  /\ GoTo(w, "finally")
  /\ UNCHANGED <<isRunning, shouldStop, step>>

\* finally: self.is_running = False
Finally(w) ==
  /\ pc[w] = "finally"
  /\ isRunning' = FALSE
  /\ GoTo(w, "done")
  /\ UNCHANGED <<shouldStop, step>>

LocalStep(w) ==
  /\ \/ Guard(w) \/ Mark(w) \/ Reset(w) \/ CallRaises(w)
     \/ Reply(w) \/ Check(w) \/ Finally(w)
  /\ UNCHANGED <<serverVars, late>>

\* Worker w has passed the guard, and is not at its end.
Started(w) == pc[w] \notin {"unborn", "guard", "done"}

\* Worker w passes the guard while another one is under way.
Overlaps(w) == (pc'[w] = "mark") /\ \E v \in Workers \ {w} : Started(v)

Worker(w) ==
  /\ Alive
  /\ \/ LocalStep(w)
     \/ (Call(w) \/ CallStop(w)) /\ UNCHANGED late
     \/ (Expire(w) \/ StopReturns(w)) /\ UNCHANGED serverVars
  /\ overlap' = (overlap \/ Overlaps(w))
  /\ UNCHANGED <<program, kb, main, ctxOk, quitAt>>

-----------------------------------------------------------------------------
(* The keyboard thread: keyboard_monitor.                                  *)

\* The thread sets the flag itself.
SpawnVariant(w) ==
  IF program = "cycle"
  THEN GoTo(w, "guard") /\ UNCHANGED <<isRunning, step>>
  ELSE GoTo(w, "mark") /\ UNCHANGED <<isRunning, step>>

\* The trigger sets its flag here, and its thread begins with HOME.
Spawn(w) ==
  IF program = "cycle"
  THEN GoTo(w, "guard") /\ UNCHANGED <<isRunning, step>>
  ELSE GoTo(w, "call") /\ isRunning' = TRUE /\ step' = [step EXCEPT ![w] = 1]

\* while rclpy.ok()
KbTest ==
  /\ kb = "testing"
  /\ kb' = IF ctxOk THEN "reading" ELSE "gone"
  /\ UNCHANGED <<serverVars, isRunning, shouldStop, pc, step, main, ctxOk, quitAt, late>>

\* Another key, SPACE while the flag is set, or, but for the trigger, which reads
\* without a timeout, no key for 0.1 s.
PressOther ==
  /\ kb = "reading"
  /\ kb' = "testing"
  /\ UNCHANGED <<serverVars, isRunning, shouldStop, pc, step, main, ctxOk, quitAt, late>>

\* SPACE while the flag of a running cycle is not set
PressSpace(w) ==
  /\ kb = "reading"
  /\ ~isRunning
  /\ pc[w] = "unborn"
  /\ Spawn(w)
  /\ kb' = "testing"
  /\ UNCHANGED <<serverVars, shouldStop, main, ctxOk, quitAt, late>>

\* Q: self.should_stop = True.  The trigger tells its worker nothing.
PressQ ==
  /\ kb = "reading"
  /\ shouldStop' = (program = "cycle")
  /\ kb' = "callStop"
  /\ quitAt' = IF program = "cycle" THEN step ELSE quitAt
  /\ UNCHANGED <<serverVars, isRunning, pc, step, main, ctxOk, late>>

\* stop_robot: call_async of move_stop
KbCallStop ==
  /\ kb = "callStop"
  /\ Server!Send(StopRequest, "stop")
  /\ kb' = "awaitStop"
  /\ UNCHANGED <<isRunning, shouldStop, pc, step, main, ctxOk, quitAt, late>>

\* The node is being shut down by Ctrl-C; the exception ends the thread.
KbCallRaises ==
  /\ kb = "callStop" /\ ~ctxOk
  /\ kb' = "gone"
  /\ UNCHANGED <<serverVars, isRunning, shouldStop, pc, step, main, ctxOk, quitAt, late>>

KbStopReturnsVariant ==
  /\ kb = "awaitStop"
  /\ stage[StopRequest] = "answered"
  /\ kb' = "shutdown"
  /\ UNCHANGED <<serverVars, isRunning, shouldStop, pc, step, main, ctxOk, quitAt, late>>

\* The answer to move_stop is there, or the 5 s of stop_robot are over; the
\* result is not looked at.
KbStopReturns ==
  /\ kb = "awaitStop"
  /\ kb' = "shutdown"
  /\ UNCHANGED <<serverVars, isRunning, shouldStop, pc, step, main, ctxOk, quitAt, late>>

\* rclpy.shutdown()
KbShutdown ==
  /\ kb = "shutdown"
  /\ ctxOk' = FALSE
  /\ kb' = "gone"
  /\ UNCHANGED <<serverVars, isRunning, shouldStop, pc, step, main, quitAt, late>>

KeyboardStep ==
  /\ Alive /\ UNCHANGED <<program, overlap>>
  /\ KbTest \/ KbCallStop \/ KbCallRaises \/ KbStopReturns \/ KbShutdown

-----------------------------------------------------------------------------
(* The main thread.                                                        *)

\* Ctrl-C: rclpy's signal handler shuts the context down.
Interrupt ==
  /\ main = "spinning" /\ ctxOk
  /\ ctxOk' = FALSE
  /\ UNCHANGED <<program, overlap, serverVars, isRunning, shouldStop, pc, step, kb, main, quitAt, late>>

\* The loop ends, or is interrupted: finally: node.should_stop = True, but for
\* the trigger.
MainLeaves ==
  /\ main = "spinning" /\ ~ctxOk
  /\ shouldStop' = (program = "cycle")
  /\ main' = "leaving"
  /\ UNCHANGED <<serverVars, isRunning, pc, step, kb, ctxOk, quitAt, late>>

\* The executor and the node are gone; the interpreter exits and takes the
\* daemon threads with it.
MainExits ==
  /\ main = "leaving"
  /\ main' = "exited"
  /\ UNCHANGED <<serverVars, isRunning, shouldStop, pc, step, kb, ctxOk, quitAt, late>>

Main == UNCHANGED <<program, overlap>> /\ (MainLeaves \/ MainExits)

Keys ==
  /\ Alive /\ UNCHANGED <<program, overlap>>
  /\ PressOther \/ PressQ \/ \E w \in Workers : PressSpace(w)

ServerStep == Server!ServerNext /\ UNCHANGED nodeVars

Next ==
  \/ \E w \in Workers : Worker(w)
  \/ Keys
  \/ KeyboardStep
  \/ Interrupt
  \/ Main
  \/ ServerStep

Spec == Init /\ [][Next]_vars

(***************************************************************************)
(* Threads that can run do; nobody has to press a key, and the robot and   *)
(* the server promise nothing.                                             *)
(***************************************************************************)
NodeFairness ==
  /\ \A w \in Workers : WF_vars(Worker(w))
  /\ WF_vars(KeyboardStep)
  /\ WF_vars(Main)

FairSpec == Spec /\ NodeFairness

-----------------------------------------------------------------------------
(* Properties.                                                             *)

TypeOK ==
  /\ Server!TypeOK
  /\ program \in {"cycle", "trigger"}
  /\ isRunning \in BOOLEAN /\ shouldStop \in BOOLEAN /\ ctxOk \in BOOLEAN
  /\ pc \in [Workers -> {"unborn", "guard", "mark", "reset", "call", "await",
                         "check", "callStop", "awaitStop", "finally", "done"}]
  /\ step \in [Workers -> 0..Length]
  /\ kb \in {"testing", "reading", "callStop", "awaitStop", "shutdown", "gone"}
  /\ main \in {"spinning", "leaving", "exited"}
  /\ quitAt \in [Workers -> 0..Length]
  /\ late \in 0..MaxLate /\ overlap \in BOOLEAN

Sent(w, k) == stage[<<w, k>>] # "unsent"

(***************************************************************************)
(* A cycle asks for a motion only after the server reported every earlier  *)
(* one of the script done: however calls time out and whoever else runs a  *)
(* cycle, the robot never gets a spline without the approach before it.    *)
(* The trigger goes from waypoint to waypoint like that, but not HOME and  *)
(* PRE, whose results it ignores.                                          *)
(***************************************************************************)
Checked == IF program = "cycle" THEN 1..Length ELSE (NApproach + 1)..Length
InScriptOrder ==
  \A w \in Workers : \A j, k \in Checked :
    j < k /\ Sent(w, k) => stage[<<w, j>>] = "answered" /\ okay[<<w, j>>]

(***************************************************************************)
(* Q ends every cycle that was past its start: the motion such a cycle had *)
(* reached when Q was pressed is the last one it asks for, unless a cycle  *)
(* that was just starting clears should_stop again.  (Nothing of the kind  *)
(* holds of the trigger, whose worker does not learn of Q.)                *)
(***************************************************************************)
QuitEndsCycles ==
  program = "cycle" /\ (\A v \in Workers : quitAt[v] = 0 => step[v] = 0)
    => \A w \in Workers : \A k \in 1..Length : Sent(w, k) => k <= quitAt[w]

Active(w) ==
  pc[w] \in {"reset", "call", "await", "check", "callStop", "awaitStop", "finally"}

(***************************************************************************)
(* What the flag tells the keyboard thread.  If it is set, a cycle is      *)
(* under way, but for the trigger that an exception of the shutdown has    *)
(* left; so SPACE is never refused for good.  If it is not, the robot      *)
(* stands still and nothing of the node is left in the server's queues, so *)
(* that SPACE finds it idle: as long as no call has timed out, and no two  *)
(* cycles have run at once, the first of which resets the flag of both.    *)
(***************************************************************************)
FlagTellsTruth ==
  /\ isRunning => (\E w \in Workers : Active(w)) \/ (program = "trigger" /\ ~ctxOk)
  /\ ~isRunning /\ late = 0 /\ ~overlap =>
       /\ motion = NoMotion
       /\ \A r \in Requests \ {StopRequest} : stage[r] \in {"unsent", "answered"}

(***************************************************************************)
(* "SPACE -> Run ONE complete cycle" (spline_motion.py), "Wait for cycle   *)
(* to finish" (default_motion.py): never two at a time.                    *)
(***************************************************************************)
OneCycleAtATime == \A v, w \in Workers : Active(v) /\ Active(w) => v = w

(***************************************************************************)
(* The trigger's flag, set before the thread is started, keeps a second    *)
(* cycle out until the first one's stop has been answered or given up,     *)
(* also when an exception ends a worker and leaves the flag set.           *)
(***************************************************************************)
TriggerRunsOnce == program = "trigger" => OneCycleAtATime

(***************************************************************************)
(* Q ends the process even when the server does not answer: stop_robot     *)
(* gives up after its timeout, and the main loop sees the shutdown.        *)
(***************************************************************************)
QuitCompletes == kb = "callStop" ~> ~Alive

(***************************************************************************)
(* A cycle ends, and is_running does not stay set, whatever becomes of the *)
(* requests: every call has a timeout, and the flag is reset in the end.   *)
(***************************************************************************)
CycleEnds ==
  \A w \in Workers :
    pc[w] \in {"mark", "call"} ~> (pc[w] = "done" /\ ~isRunning) \/ ~Alive

(***************************************************************************)
(* Q halts the robot: once the keyboard thread has sent move_stop, the     *)
(* robot comes to rest although the motion under way may never end and its *)
(* callback holds the motion services' group, and even when the process is *)
(* gone by then, provided the server's threads run, as MotionServer        *)
(* assumes; or move_stop has answered that DRFL refused it, an answer      *)
(* stop_robot does not look at.  (The robot may start again: a worker past *)
(* its check of should_stop still asks for its next motion.)               *)
(***************************************************************************)
StopRefused == stage[StopRequest] = "answered" /\ ~okay[StopRequest]
QuitHaltsRobot ==
  Server!ServerFairness => (stage[StopRequest] = "queued" ~> motion = NoMotion \/ StopRefused)

=============================================================================
