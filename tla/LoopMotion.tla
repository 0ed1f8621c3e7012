------------------------------ MODULE LoopMotion ------------------------------
(***************************************************************************)
(* The nodes of doosan_motion_loop that repeat a path until Q is pressed:  *)
(* line_motion.py and arc_motion.py, which differ in the number of         *)
(* waypoints only, and sine_wave.py (sine is TRUE), composed with the      *)
(* motion services they call (MotionServer).                               *)
(*                                                                         *)
(* A run moves HOME, to PRE-START and to the first waypoint, then passes   *)
(* along the waypoints to and fro, and moves HOME when it is stopped.      *)
(* line and arc make a pass as one spline and fall back to single lines,   *)
(* all but the last with a blending radius; sine makes it of single lines, *)
(* and all its motions have a radius.  Threads and keyboard are as in      *)
(* MotionCycle; the velocities the speed keys choose are left out.         *)
(***************************************************************************)
EXTENDS Naturals, Sequences

CONSTANTS
  Workers,   \* the worker threads that may exist at the same time
  Slots,     \* bound: the requests a worker may have with the server at a time
  MaxLate,   \* bound: the workers' calls that may time out
  NoMotion,  \* the robot executes nothing
  Blending   \* it is within the radius of a blended motion, and goes on

\* The keyboard thread stops the robot once.  A worker's request takes a slot,
\* which is free again when the response is taken or discarded.
StopRequest == <<"keyboard", 1>>
WorkRequests == Workers \X Slots
Requests == WorkRequests \cup {StopRequest}

ASSUME WorkersAssumption == "keyboard" \notin Workers
ASSUME BoundAssumption == Slots \subseteq Nat \ {0} /\ MaxLate \in Nat
ASSUME RobotAssumption ==
  NoMotion \notin Requests /\ Blending \notin Requests /\ NoMotion # Blending

\* The list of waypoints; line_motion.py has two.
Waypoints == <<"first", "last">>

N == Len(Waypoints)

VARIABLES
  op, stage, okay, motion, paused, completed,   \* see MotionServer
  sine,        \* the node is sine_wave.py rather than line_motion.py
  isMoving,    \* self.is_moving
  shouldStop,  \* self.should_stop
  pc,          \* pc[w]: the statement worker w is at
  waiting,     \* waiting[w]: the slot of that statement's call, 0 before it is sent
  leg,         \* leg[w]: the waypoint a pass of single lines is at
  reversed,    \* reversed[w]: the next pass goes from the last waypoint to the first
  call,        \* history, until a call has timed out: call[r], from where to where
               \* request r moves the robot
  kb, main, ctxOk,  \* as in MotionCycle
  quit,        \* history: Q was "not" pressed, is "seen", or was "lost" when a run
               \* cleared should_stop
  afterQuit,   \* history: the motions w has asked for while Q is "seen"
  late,        \* history: how many calls of the workers have timed out
  at           \* history: where the robot's last completed motion left it, or leaves it
               \* when it is within the radius; until a call has timed out

Server == INSTANCE MotionServer WITH Ids <- Requests

workVars == <<isMoving, pc, waiting, leg, reversed, call, afterQuit>>
hostVars == <<sine, kb, main, ctxOk>>
serverVars == <<op, stage, okay, motion, paused, completed>>
vars == <<serverVars, workVars, shouldStop, quit, hostVars, late, at>>

Nowhere == [from |-> "any", to |-> "any"]

Init ==
  /\ Server!ServerInit
  /\ sine \in BOOLEAN
  /\ isMoving = FALSE /\ shouldStop = FALSE
  /\ pc = [w \in Workers |-> "unborn"]
  /\ waiting = [w \in Workers |-> 0]
  /\ leg = [w \in Workers |-> 1]
  /\ reversed = [w \in Workers |-> FALSE]
  /\ call = [r \in WorkRequests |-> Nowhere]
  /\ kb = "testing" /\ main = "spinning" /\ ctxOk = TRUE
  /\ quit = "not" /\ afterQuit = [w \in Workers |-> 0] /\ late = 0
  /\ at = "unknown"

Alive == main # "exited"

GoTo(w, label) == pc' = [pc EXCEPT ![w] = label]

\* The k-th waypoint of w's pass.
Waypoint(w, k) == Waypoints[IF reversed[w] THEN N + 1 - k ELSE k]

-----------------------------------------------------------------------------
(* The worker threads: execute_arc, execute_motion.                        *)

\* self.is_moving = True; self.should_stop = False
Begin(w) ==
  /\ \/ /\ pc[w] = "begin" /\ isMoving' = TRUE /\ GoTo(w, "reset")
        /\ UNCHANGED <<shouldStop, quit>>
     \/ /\ pc[w] = "reset" /\ shouldStop' = FALSE /\ GoTo(w, "home")
        /\ quit' = (IF quit = "seen" THEN "lost" ELSE quit) /\ UNCHANGED isMoving
  /\ UNCHANGED <<waiting, leg, reversed, call, afterQuit>>

\* if self.should_stop: sine_wave.py has none of these two checks.
Check(w) ==
  /\ \/ pc[w] = "checkPre" /\ GoTo(w, IF shouldStop THEN "end" ELSE "pre")
     \/ pc[w] = "checkStart" /\ GoTo(w, IF shouldStop THEN "end" ELSE "start")
  /\ UNCHANGED <<isMoving, shouldStop, quit, waiting, leg, reversed, call, afterQuit>>

\* while rclpy.ok() and not self.should_stop
While(w) ==
  /\ pc[w] = "while"
  /\ \/ /\ ctxOk /\ ~shouldStop
        /\ GoTo(w, IF sine THEN "legCheck" ELSE "spline")
     \/ /\ ~ctxOk \/ shouldStop
        /\ GoTo(w, IF sine THEN "stopping" ELSE "homing")
  /\ leg' = [leg EXCEPT ![w] = 1]
  /\ UNCHANGED <<isMoving, shouldStop, quit, waiting, reversed, call, afterQuit>>

\* if self.should_stop: break
LegCheck(w) ==
  /\ pc[w] = "legCheck"
  /\ GoTo(w, IF shouldStop THEN "flip" ELSE "leg")
  /\ UNCHANGED <<isMoving, shouldStop, quit, waiting, leg, reversed, call, afterQuit>>

\* The direction is a local variable of execute_arc; sine_wave.py reverses the
\* list all its runs share.
Flip(w) ==
  /\ pc[w] = "flip"
  /\ reversed' = IF sine THEN [v \in Workers |-> ~reversed[v]]
                 ELSE [reversed EXCEPT ![w] = ~@]
  /\ GoTo(w, "while")
  /\ UNCHANGED <<isMoving, shouldStop, quit, waiting, leg, call, afterQuit>>

\* self.is_moving = False
End(w) ==
  /\ pc[w] = "end"
  /\ isMoving' = FALSE
  /\ GoTo(w, "done")
  /\ UNCHANGED <<shouldStop, quit, waiting, leg, reversed, call, afterQuit>>

\* call_async of the request of the statement w is at, in the first free slot.
Free(w) == {k \in Slots : stage[<<w, k>>] = "unsent"}

Ask(w, o, from, to) ==
  \E k \in Free(w) :
    /\ \A j \in Free(w) : k <= j
    /\ Server!Send(<<w, k>>, o)
    /\ call' = IF late = 0 THEN [call EXCEPT ![<<w, k>>] = [from |-> from, to |-> to]]
               ELSE call
    /\ waiting' = [waiting EXCEPT ![w] = k]
    /\ afterQuit' = IF quit = "seen" /\ to # "any" THEN [afterQuit EXCEPT ![w] = @ + 1]
                    ELSE afterQuit

\* The motions with a blending radius, and those without
Move == IF sine THEN "blend" ELSE "move"
LegMove(w) == IF sine \/ leg[w] < N THEN "blend" ELSE "move"

\* from is where a pass expects the robot, if it does.
Call(w) ==
  /\ waiting[w] = 0
  /\ \/ pc[w] \in {"home", "homing"} /\ Ask(w, Move, "any", "home")
     \/ pc[w] = "pre" /\ Ask(w, Move, "any", "pre")
     \/ pc[w] = "start" /\ Ask(w, Move, "any", Waypoint(w, 1))
     \/ pc[w] = "spline" /\ Ask(w, "move", Waypoint(w, 1), Waypoint(w, N))
     \/ pc[w] = "leg" /\ Ask(w, LegMove(w), IF sine /\ leg[w] = 1 THEN Waypoint(w, 1) ELSE "any",
                                   Waypoint(w, leg[w]))
     \/ pc[w] \in {"stopping", "giveUp"} /\ Ask(w, "stop", "any", "any")
  /\ UNCHANGED <<isMoving, shouldStop, quit, pc, leg, reversed>>

\* call_async on a node that is being shut down may raise; nothing catches it,
\* and is_moving stays set.
CallRaises(w) ==
  /\ waiting[w] = 0 /\ ~ctxOk
  /\ pc[w] \in {"home", "pre", "start", "spline", "leg", "homing", "stopping", "giveUp"}
  /\ GoTo(w, "dead")
  /\ UNCHANGED <<isMoving, shouldStop, quit, waiting, leg, reversed, call, afterQuit>>

\* Where the statement w is at leads to when its call has succeeded, or not.
AfterCall(w, success) ==
  CASE pc[w] = "home" -> IF ~success THEN "end" ELSE IF sine THEN "pre" ELSE "checkPre"
    [] pc[w] = "pre" -> IF sine THEN "start" ELSE "checkStart"
    [] pc[w] = "start" -> IF success THEN "while" ELSE "end"
    [] pc[w] = "spline" -> IF success THEN "flip" ELSE "legCheck"
    [] pc[w] = "leg" /\ success -> IF leg[w] = N THEN "flip" ELSE "legCheck"
    [] pc[w] = "leg" /\ ~success -> IF sine THEN "giveUp" ELSE "homing"
    [] pc[w] = "homing" -> IF sine THEN "end" ELSE "stopping"
    [] pc[w] = "stopping" -> IF sine THEN "homing" ELSE "end"
    [] pc[w] = "giveUp" -> "end"

\* A start that fails is passed over, as PRE-START is.
HandleResultVariant(w, success) ==
  /\ GoTo(w, AfterCall(w, success \/ pc[w] = "start"))
  /\ waiting' = [waiting EXCEPT ![w] = 0]
  /\ leg' = IF pc[w] = "leg" /\ leg[w] < N THEN [leg EXCEPT ![w] = @ + 1] ELSE leg
  /\ UNCHANGED <<isMoving, shouldStop, quit, reversed, afterQuit>>

\* The index runs off the list.
HandleResultBeyond(w, success) ==
  /\ GoTo(w, AfterCall(w, success))
  /\ waiting' = [waiting EXCEPT ![w] = 0]
  /\ leg' = IF pc[w] = "leg" THEN [leg EXCEPT ![w] = @ + 1] ELSE leg
  /\ UNCHANGED <<isMoving, shouldStop, quit, reversed, afterQuit>>

HandleResult(w, success) ==
  /\ GoTo(w, AfterCall(w, success))
  /\ waiting' = [waiting EXCEPT ![w] = 0]
  /\ leg' = IF pc[w] = "leg" /\ leg[w] < N THEN [leg EXCEPT ![w] = @ + 1] ELSE leg
  /\ UNCHANGED <<isMoving, shouldStop, quit, reversed, afterQuit>>

\* The response to r is taken, and its slot is free again.
Collect(r) ==
  /\ stage[r] = "answered"
  /\ stage' = [stage EXCEPT ![r] = "unsent"]
  /\ op' = [op EXCEPT ![r] = Server!NoService]
  /\ okay' = [okay EXCEPT ![r] = FALSE]
  /\ completed' = completed \ {r}
  /\ call' = [call EXCEPT ![r] = Nowhere]
  /\ UNCHANGED <<motion, paused>>

\* The stop that ends a run is not waited for.
ReturnVariant(w) ==
  /\ waiting[w] # 0
  /\ LET r == <<w, waiting[w]>> IN
       \/ HandleResult(w, okay[r]) /\ Collect(r)
       \/ op[r] = "stop" /\ HandleResult(w, FALSE) /\ UNCHANGED <<serverVars, call>>
  /\ UNCHANGED <<late, at>>

\* The answer arrives, or call_service gives it up and leaves the request with
\* the server, as long as a slot is free for the next.
Return(w) ==
  /\ waiting[w] # 0
  /\ LET r == <<w, waiting[w]>> IN
       \/ HandleResult(w, okay[r]) /\ Collect(r) /\ UNCHANGED <<late, at>>
       \/ /\ late < MaxLate /\ Free(w) # {}
          /\ HandleResult(w, FALSE) /\ late' = late + 1 /\ at' = "unknown"
          /\ call' = [q \in WorkRequests |-> Nowhere] /\ UNCHANGED serverVars

\* The answer to a request nobody waits for any more.
Discard(w) ==
  /\ \E k \in Slots \ {waiting[w]} : Collect(<<w, k>>)
  /\ UNCHANGED <<isMoving, shouldStop, quit, pc, waiting, leg, reversed, afterQuit, late, at>>

Worker(w) ==
  /\ Alive
  /\ \/ Call(w) /\ UNCHANGED <<late, at>>
     \/ /\ \/ Begin(w) \/ Check(w) \/ While(w) \/ LegCheck(w) \/ Flip(w) \/ End(w)
           \/ CallRaises(w)
        /\ UNCHANGED <<serverVars, late, at>>
     \/ Return(w)
     \/ Discard(w)
  /\ UNCHANGED hostVars

-----------------------------------------------------------------------------
(* The keyboard thread and the main thread.                                *)

\* while rclpy.ok()
KbTest ==
  /\ kb = "testing"
  /\ kb' = IF ctxOk THEN "reading" ELSE "gone"
  /\ UNCHANGED <<serverVars, workVars, shouldStop, quit, sine, main, ctxOk, late, at>>

\* No key for 0.1 s, another one, or SPACE while self.is_moving
PressOther ==
  /\ kb = "reading"
  /\ kb' = "testing"
  /\ UNCHANGED <<serverVars, workVars, shouldStop, quit, sine, main, ctxOk, late, at>>

\* SPACE while self.is_moving is False: a new thread, with the direction of
\* execute_arc at its start.
PressSpace(w) ==
  /\ kb = "reading" /\ ~isMoving
  /\ pc[w] \in {"unborn", "done"} /\ GoTo(w, "begin")
  /\ reversed' = IF sine THEN reversed ELSE [reversed EXCEPT ![w] = FALSE]
  /\ kb' = "testing"
  /\ UNCHANGED <<serverVars, isMoving, waiting, leg, call, afterQuit, shouldStop, quit,
                 sine, main, ctxOk, late, at>>

\* Q stops the robot but not the run.
PressQVariant ==
  /\ kb = "reading"
  /\ kb' = "callStop"
  /\ quit' = "seen"
  /\ UNCHANGED <<serverVars, workVars, shouldStop, sine, main, ctxOk, late, at>>

\* Q: self.should_stop = True
PressQ ==
  /\ kb = "reading"
  /\ shouldStop' = TRUE
  /\ kb' = "callStop"
  /\ quit' = "seen"
  /\ UNCHANGED <<serverVars, workVars, sine, main, ctxOk, late, at>>

\* stop_motion
KbCallStop ==
  /\ kb = "callStop"
  /\ Server!Send(StopRequest, "stop")
  /\ kb' = "awaitStop"
  /\ UNCHANGED <<workVars, shouldStop, quit, sine, main, ctxOk, late, at>>

\* Its answer, or its 5 s, or the exception of a call during Ctrl-C; then
\* rclpy.shutdown(), and the loop ends with rclpy.ok().
KeyboardLeaves ==
  /\ \/ kb = "callStop" /\ ~ctxOk /\ kb' = "gone" /\ UNCHANGED ctxOk
     \/ /\ kb = "awaitStop"
        /\ kb' = "shutdown" /\ UNCHANGED ctxOk
     \/ kb = "shutdown" /\ ctxOk' = FALSE /\ kb' = "gone"
  /\ UNCHANGED <<serverVars, workVars, shouldStop, quit, sine, main, late, at>>

\* Ctrl-C
Interrupt ==
  /\ main = "spinning" /\ ctxOk
  /\ ctxOk' = FALSE
  /\ UNCHANGED <<serverVars, workVars, shouldStop, quit, sine, kb, main, late, at>>

\* The main loop ends: node.should_stop = True, and the process exits.
MainLeaves ==
  /\ \/ main = "spinning" /\ ~ctxOk /\ shouldStop' = TRUE /\ main' = "leaving"
     \/ main = "leaving" /\ main' = "exited" /\ UNCHANGED shouldStop
  /\ UNCHANGED <<serverVars, workVars, quit, sine, kb, ctxOk, late, at>>

Keyboard ==
  /\ Alive
  /\ \/ KbTest \/ PressOther \/ (\E w \in Workers : PressSpace(w)) \/ PressQ
     \/ KbCallStop \/ KeyboardLeaves

\* The end of a blended motion of which the robot was within the radius
Settles == motion = Blending /\ motion' = NoMotion

\* The server and the robot; a motion that is not completed leaves the robot
\* wherever it is.
ServerStep ==
  /\ Server!ServerNext
  /\ at' = IF motion' = motion \/ late > 0 \/ Settles THEN at
           ELSE IF completed' # completed THEN call[motion].to
           ELSE "unknown"
  /\ UNCHANGED <<workVars, shouldStop, quit, hostVars, late>>

Next ==
  \/ \E w \in Workers : Worker(w)
  \/ Keyboard
  \/ Interrupt
  \/ MainLeaves
  \/ ServerStep

Spec == Init /\ [][Next]_vars

-----------------------------------------------------------------------------
(* Properties.                                                             *)

Labels == {"unborn", "begin", "reset", "home", "checkPre", "pre", "checkStart", "start",
           "while", "spline", "legCheck", "leg", "flip", "homing", "stopping", "giveUp",
           "end", "done", "dead"}

Places == {"home", "pre", "first", "last"}

TypeOK ==
  /\ Server!TypeOK
  /\ isMoving \in BOOLEAN /\ shouldStop \in BOOLEAN /\ ctxOk \in BOOLEAN
  /\ pc \in [Workers -> Labels]
  /\ waiting \in [Workers -> Slots \cup {0}] /\ reversed \in [Workers -> BOOLEAN]
  /\ leg \in [Workers -> 1..N]
  /\ call \in [WorkRequests -> [from : Places \cup {"any"}, to : Places \cup {"any"}]]
  /\ kb \in {"testing", "reading", "callStop", "awaitStop", "shutdown", "gone"}
  /\ main \in {"spinning", "leaving", "exited"}
  /\ sine \in BOOLEAN /\ quit \in {"not", "seen", "lost"} /\ late \in 0..MaxLate
  /\ afterQuit \in [Workers -> Nat]
  /\ at \in Places \cup {"unknown"}

(***************************************************************************)
(* Until a call times out, and when one run is under way at a time, every  *)
(* pass starts where the robot is, or is about to come to rest: the        *)
(* spline, or the first line of a sine pass, never makes the robot cross   *)
(* over to the other end of the path, in no run and after no fallback,     *)
(* failure or stop.  (It does when Q was lost and DRFL calls the motion it *)
(* stopped a success.)                                                     *)
(***************************************************************************)
PassStartsHere ==
  [][motion' # motion /\ motion' \notin {NoMotion, Blending} /\ quit # "lost" /\ late = 0
       => call[motion'].from \in {"any", at}]_vars

(***************************************************************************)
(* Until a call times out, no run leaves a motion or a request behind: the *)
(* robot of a node without a run stands still, or glides through the       *)
(* radius of a blended motion it has been told is over.                    *)
(***************************************************************************)
NoRun == \A w \in Workers : pc[w] \in {"unborn", "begin", "done"}

IdleMeansStill ==
  late = 0 /\ NoRun
    => motion \in {NoMotion, Blending} /\ \A r \in WorkRequests : stage[r] = "unsent"

(***************************************************************************)
(* Q costs only a few more motions: in line and arc the one the run was    *)
(* about to ask for and HOME, in sine, which looks at should_stop only     *)
(* between waypoints, its approach of three and HOME.                      *)
(***************************************************************************)
QuitEndsRun ==
  quit # "lost" => \A w \in Workers : afterQuit[w] <= (IF sine THEN 4 ELSE 2)

=============================================================================
