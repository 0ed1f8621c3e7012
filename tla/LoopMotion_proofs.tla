--------------------------- MODULE LoopMotion_proofs ---------------------------
(***************************************************************************)
(* Proofs about LoopMotion, for any number of worker threads, of slots and *)
(* of calls that time out, and for all three nodes.  What is known of the  *)
(* server comes from MotionServer_proofs.                                  *)
(***************************************************************************)
EXTENDS LoopMotion, Integers, TLAPS

\* The proofs of MotionServer, for the requests of the node
P == INSTANCE MotionServer_proofs WITH Ids <- Requests

NodeTyped ==
  /\ isMoving \in BOOLEAN /\ shouldStop \in BOOLEAN /\ ctxOk \in BOOLEAN
  /\ pc \in [Workers -> Labels]
  /\ waiting \in [Workers -> Slots \cup {0}] /\ reversed \in [Workers -> BOOLEAN]
  /\ leg \in [Workers -> 1..N]
  /\ call \in [WorkRequests -> [from : Places \cup {"any"}, to : Places \cup {"any"}]]
  /\ kb \in {"testing", "reading", "callStop", "awaitStop", "shutdown", "gone"}
  /\ main \in {"spinning", "leaving", "exited"}
  /\ sine \in BOOLEAN /\ quit \in {"not", "seen", "lost"} /\ late \in 0..MaxLate
  /\ afterQuit \in [Workers -> Nat]
  /\ at \in Places \cup {"unknown"}

\* The statements that call a service
Asking == {"home", "pre", "start", "spline", "leg", "homing", "stopping", "giveUp"}

\* A worker waits for a request it has sent, at such a statement.
Waited ==
  \A w \in Workers : waiting[w] # 0 => pc[w] \in Asking /\ stage[<<w, waiting[w]>>] # "unsent"

\* The node asks for sync motions, each to a place while that is recorded, and for
\* stops; the keyboard thread for a stop.
Ops ==
  /\ op \in [Requests -> {"none", "move", "blend", "stop"}]
  /\ op[StopRequest] \in {"none", "stop"}
  /\ late = 0 => \A r \in WorkRequests : op[r] \in Server!SyncMoves => call[r].to \in Places

\* What is with the server is waited for, until a call is given up.
Pending ==
  late = 0 =>
    \A w \in Workers, k \in Slots : stage[<<w, k>>] # "unsent" => waiting[w] = k

\* The motions that a run at statement l has still to ask for once should_stop
\* is set, the one of that statement included
Cost(l, inSine) ==
  CASE l = "home" -> IF inSine THEN 4 ELSE 1
    [] l = "pre" -> IF inSine THEN 3 ELSE 1
    [] l \in {"start", "spline", "leg"} -> 2
    [] l \in {"while", "flip", "legCheck", "homing"} -> 1
    [] l = "stopping" -> IF inSine THEN 1 ELSE 0
    [] OTHER -> 0

\* The same, without the one it waits for
Left(w) ==
  Cost(pc[w], sine) - (IF waiting[w] # 0 /\ pc[w] \notin {"stopping", "giveUp"} THEN 1 ELSE 0)

\* Q is pressed once at most; should_stop then stays set, unless the record
\* says that a run has cleared it, and the runs use up what they have left.
Quits ==
  /\ quit = "not" => kb # "callStop" /\ stage[StopRequest] = "unsent"
  /\ quit = "not" => \A w \in Workers : afterQuit[w] = 0
  /\ quit # "not" => kb \notin {"testing", "reading"}
  /\ quit = "seen" => shouldStop
  /\ quit = "seen" => \A w \in Workers : afterQuit[w] + Left(w) <= (IF sine THEN 4 ELSE 2)

IInv == P!IInv /\ NodeTyped /\ Waited /\ Ops /\ Pending /\ Quits

-----------------------------------------------------------------------------
(* Requests, waypoints and the server.                                     *)

LEMMA Names ==
  /\ StopRequest \in Requests /\ StopRequest \notin WorkRequests
  /\ WorkRequests \subseteq Requests
  /\ \A r \in Requests : r # StopRequest => r \in WorkRequests
  /\ \A r \in WorkRequests : \E w \in Workers, k \in Slots : r = <<w, k>>
  /\ \A w \in Workers, k \in Slots : <<w, k>> \in WorkRequests
  /\ Slots \subseteq Nat /\ 0 \notin Slots /\ MaxLate \in Nat
<1>1. StopRequest \notin WorkRequests
  BY WorkersAssumption DEF StopRequest, WorkRequests
<1>2. \A r \in WorkRequests : \E w \in Workers, k \in Slots : r = <<w, k>>
  BY DEF WorkRequests
<1>3. \A w \in Workers, k \in Slots : <<w, k>> \in WorkRequests
  BY DEF WorkRequests
<1> QED BY <1>1, <1>2, <1>3, BoundAssumption DEF Requests

LEMMA Path ==
  /\ N = 2
  /\ NodeTyped => \A w \in Workers : \A k \in 1..N : Waypoint(w, k) \in {"first", "last"}
<1>1. N = 2
  BY DEF N, Waypoints
<1>2. Waypoints[1] = "first" /\ Waypoints[2] = "last"
  BY DEF Waypoints
<1> QED BY <1>1, <1>2 DEF Waypoint

LEMMA SameServer ==
  /\ Server!ServerInit = P!ServerInit
  /\ Server!ServerNext = P!ServerNext
  /\ Server!TypeOK = P!TypeOK
<1>1. Server!ServerInit = P!ServerInit
  BY DEF Server!ServerInit, P!ServerInit, Server!NoService, P!NoService
<1>2. Server!ServerNext = P!ServerNext
  BY DEF Server!ServerNext, Server!Take, Server!Callback, Server!Complete, Server!Approach, Server!SyncMoves, Server!StartMove,
    Server!StartAsync, Server!RefuseMove, Server!MoveReturns, Server!StartWait,
    Server!WaitReturns, Server!Pause, Server!Resume, Server!Stop, Server!Answer,
    Server!GroupFree, Server!Running, Server!Group,
    P!ServerNext, P!Take, P!Callback, P!Complete, P!Approach, P!SyncMoves, P!StartMove, P!StartAsync, P!RefuseMove,
    P!MoveReturns, P!StartWait, P!WaitReturns, P!Pause, P!Resume, P!Stop, P!Answer,
    P!GroupFree, P!Running, P!Group
<1>3. Server!TypeOK = P!TypeOK
  BY DEF Server!TypeOK, P!TypeOK, Server!Services, P!Services, Server!Stages, P!Stages,
    Server!NoService, P!NoService
<1> QED BY <1>1, <1>2, <1>3

LEMMA TypeOKParts == TypeOK <=> P!TypeOK /\ NodeTyped
BY SameServer DEF TypeOK, NodeTyped

LEMMA SendStep ==
  ASSUME P!IInv, NEW r \in Requests, NEW o \in {"move", "blend", "stop"}, Server!Send(r, o)
  PROVE  /\ P!IInv'
         /\ stage[r] = "unsent" /\ stage' = [stage EXCEPT ![r] = "queued"]
         /\ op' = [op EXCEPT ![r] = o] /\ UNCHANGED <<okay, motion, paused, completed>>
<1>1. P!Send(r, o)
  BY DEF Server!Send, P!Send
<1>2. o \in P!Services
  BY DEF P!Services
<1> QED BY <1>1, <1>2, P!SendKeeps, RobotAssumption DEF P!Send

\* A request whose response is taken owns no motion: it was none that DRFL goes
\* on with after the answer.
LEMMA CollectStep ==
  ASSUME P!IInv, Ops, NEW r \in WorkRequests, Collect(r)
  PROVE  P!IInv'
<1> USE DEF P!IInv, P!TypeOK
<1>0. r \in Requests /\ op[r] # "amove" /\ stage[r] = "answered"
  BY Names DEF Ops, Collect
<1>1. /\ stage' = [stage EXCEPT ![r] = "unsent"] /\ op' = [op EXCEPT ![r] = "none"]
      /\ okay' = [okay EXCEPT ![r] = FALSE] /\ completed' = completed \ {r}
      /\ motion' = motion /\ paused' = paused
  BY DEF Collect, Server!NoService
<1>2. P!TypeOK'
  BY <1>0, <1>1 DEF P!Stages, P!NoService
<1>3. P!Exclusive'
  BY <1>0, <1>1 DEF P!Exclusive, P!Running, P!Group
<1>4. P!MotionHasOwner'
  BY <1>0, <1>1 DEF P!MotionHasOwner
<1> QED BY <1>2, <1>3, <1>4

LEMMA ServerKeeps ==
  ASSUME P!IInv, ServerStep
  PROVE  /\ P!IInv' /\ UNCHANGED <<workVars, shouldStop, quit, hostVars, late>> /\ op' = op
         /\ \A r \in Requests : stage'[r] = "unsent" <=> stage[r] = "unsent"
<1>1. P!ServerNext /\ UNCHANGED <<workVars, shouldStop, quit, hostVars, late>>
  BY SameServer DEF ServerStep
<1>2. P!TypeOK
  BY DEF P!IInv
<1>3. P!IInv'
  BY <1>1, P!ServerKeeps, RobotAssumption
<1>4. op' = op /\ \A r \in Requests : stage'[r] = "unsent" <=> stage[r] = "unsent"
  BY <1>1, <1>2, P!Served, RobotAssumption, Names
<1> QED BY <1>1, <1>3, <1>4

\* The motion the robot executes is that of a worker's request that is blocked.
LEMMA MotionIsWork ==
  ASSUME P!IInv, Ops, motion \notin {NoMotion, Blending}
  PROVE  motion \in WorkRequests /\ op[motion] \in Server!SyncMoves /\ stage[motion] = "blocked"
<1>1. motion \in Requests /\ ((op[motion] \in P!SyncMoves /\ stage[motion] = "blocked")
                             \/ (op[motion] = "amove" /\ stage[motion] = "answered"))
  BY P!Owner, RobotAssumption
<1>2. P!SyncMoves = Server!SyncMoves
  BY DEF P!SyncMoves, Server!SyncMoves
<1> QED BY <1>1, <1>2, Names DEF Ops, Server!SyncMoves

-----------------------------------------------------------------------------
(* The steps, one part of the invariant at a time.                         *)

\* A worker that asks sends its request, waits for it, and counts the motion if
\* Q was seen.
Sends(w, k, o, from, to) ==
  /\ stage[<<w, k>>] = "unsent" /\ stage' = [stage EXCEPT ![<<w, k>>] = "queued"]
  /\ op' = [op EXCEPT ![<<w, k>>] = o] /\ UNCHANGED <<okay, motion, paused, completed>>
  /\ call' = IF late = 0 THEN [call EXCEPT ![<<w, k>>] = [from |-> from, to |-> to]]
             ELSE call
  /\ waiting' = [waiting EXCEPT ![w] = k]
  /\ afterQuit' = IF quit = "seen" /\ to # "any" THEN [afterQuit EXCEPT ![w] = @ + 1]
                  ELSE afterQuit

LEMMA AskStep ==
  ASSUME P!IInv, NEW w \in Workers, NEW o \in {"move", "blend", "stop"}, NEW from, NEW to, Ask(w, o, from, to)
  PROVE  P!IInv' /\ \E k \in Slots : Sends(w, k, o, from, to)
<1>1. PICK k \in Free(w) :
        /\ Server!Send(<<w, k>>, o)
        /\ call' = IF late = 0 THEN [call EXCEPT ![<<w, k>>] = [from |-> from, to |-> to]]
                   ELSE call
        /\ waiting' = [waiting EXCEPT ![w] = k]
        /\ afterQuit' = IF quit = "seen" /\ to # "any" THEN [afterQuit EXCEPT ![w] = @ + 1]
                        ELSE afterQuit
  BY DEF Ask
<1>2. k \in Slots /\ <<w, k>> \in Requests
  BY Names DEF Free
<1>3. P!IInv' /\ Sends(w, k, o, from, to)
  BY <1>1, <1>2, SendStep DEF Sends
<1> QED BY <1>2, <1>3

\* Where the requests go is recorded until a call times out.
Forget == call' = [q \in WorkRequests |-> Nowhere]

\* The requests of a run are those: where it is, and what it asks for.
LEMMA CallStep ==
  ASSUME NodeTyped, NEW w \in Workers, Call(w)
  PROVE  /\ waiting[w] = 0 /\ pc[w] \in Asking
         /\ UNCHANGED <<isMoving, shouldStop, quit, pc, leg, reversed>>
         /\ \E o \in {"move", "blend", "stop"}, from \in Places \cup {"any"}, to \in Places \cup {"any"} :
              /\ Ask(w, o, from, to)
              /\ o \in Server!SyncMoves => to \in Places
              /\ to = "any" <=> pc[w] \in {"stopping", "giveUp"}
              /\ pc[w] \in {"start", "spline", "leg"} => o \in Server!SyncMoves
              /\ pc[w] = "start" => from = "any" /\ to = Waypoint(w, 1)
              /\ pc[w] = "spline" => from = Waypoint(w, 1) /\ to = Waypoint(w, N)
              /\ pc[w] = "leg" => to = Waypoint(w, leg[w])
              /\ from # "any" /\ pc[w] # "spline" =>
                   pc[w] = "leg" /\ sine /\ leg[w] = 1 /\ from = Waypoint(w, 1)
<1> DEFINE Any == Places \cup {"any"}
<1>1. /\ waiting[w] = 0
      /\ UNCHANGED <<isMoving, shouldStop, quit, pc, leg, reversed>>
  BY DEF Call
<1>2. /\ Waypoint(w, 1) \in Places /\ Waypoint(w, N) \in Places
      /\ Waypoint(w, leg[w]) \in Places /\ "any" \notin Places
      /\ "home" \in Places /\ "pre" \in Places
  BY Path DEF NodeTyped, Places
<1>3. /\ Move \in {"move", "blend"} /\ LegMove(w) \in {"move", "blend"}
      /\ Server!SyncMoves = {"move", "blend"}
  BY DEF Move, LegMove, Server!SyncMoves
<1>4. CASE pc[w] \in {"home", "homing"} /\ Ask(w, Move, "any", "home")
  BY <1>1, <1>2, <1>3, <1>4 DEF Asking
<1>5. CASE pc[w] = "pre" /\ Ask(w, Move, "any", "pre")
  BY <1>1, <1>2, <1>3, <1>5 DEF Asking
<1>6. CASE pc[w] = "start" /\ Ask(w, Move, "any", Waypoint(w, 1))
  BY <1>1, <1>2, <1>3, <1>6 DEF Asking
<1>7. CASE pc[w] = "spline" /\ Ask(w, "move", Waypoint(w, 1), Waypoint(w, N))
  BY <1>1, <1>2, <1>3, <1>7 DEF Asking
<1>8. CASE pc[w] = "leg" /\ Ask(w, LegMove(w), IF sine /\ leg[w] = 1 THEN Waypoint(w, 1) ELSE "any",
                                Waypoint(w, leg[w]))
  BY <1>1, <1>2, <1>3, <1>8 DEF Asking
<1>9. CASE pc[w] \in {"stopping", "giveUp"} /\ Ask(w, "stop", "any", "any")
  BY <1>1, <1>2, <1>3, <1>9 DEF Asking
<1> QED BY <1>4, <1>5, <1>6, <1>7, <1>8, <1>9 DEF Call

\* Types.
LEMMA TypeStep ==
  ASSUME IInv, [Next]_vars
  PROVE  NodeTyped'
<1>0. /\ NodeTyped /\ MaxLate \in Nat /\ N = 2
      /\ \A w \in Workers : waiting[w] # 0 => pc[w] \in Asking
  BY Names, Path DEF IInv, Waited
<1>2. ASSUME NEW w \in Workers, Call(w), UNCHANGED <<hostVars, late, at>> PROVE NodeTyped'
  <2>1. PICK o \in {"move", "blend", "stop"}, from \in Places \cup {"any"}, to \in Places \cup {"any"} :
          Ask(w, o, from, to)
    BY <1>0, <1>2, CallStep
  <2>2. PICK k \in Slots : Sends(w, k, o, from, to)
    BY <2>1, AskStep DEF IInv
  <2>3. UNCHANGED <<isMoving, shouldStop, quit, pc, leg, reversed, hostVars, late, at>>
    BY <1>2 DEF Call
  <2>4. call' \in [WorkRequests -> [from : Places \cup {"any"}, to : Places \cup {"any"}]]
    BY <1>0, <2>2 DEF NodeTyped, Sends
  <2>5. waiting' \in [Workers -> Slots \cup {0}] /\ afterQuit' \in [Workers -> Nat]
    BY <1>0, <2>2 DEF NodeTyped, Sends
  <2> QED BY <1>0, <2>3, <2>4, <2>5 DEF NodeTyped, hostVars
<1> USE <1>0 DEF NodeTyped, Labels, GoTo
<1>1. ASSUME NEW w \in Workers,
             \/ Begin(w) \/ Check(w) \/ While(w) \/ LegCheck(w) \/ Flip(w) \/ End(w) \/ CallRaises(w),
             UNCHANGED <<hostVars, late, at>>
      PROVE  NodeTyped'
  <2>1. UNCHANGED <<sine, kb, main, ctxOk, late, at>>
    BY <1>1 DEF hostVars
  <2>2. CASE Begin(w)
    <3>1. isMoving' \in BOOLEAN /\ shouldStop' \in BOOLEAN
      BY <2>2 DEF Begin
    <3> QED BY <2>1, <2>2, <3>1 DEF Begin
  <2>3. CASE Check(w) \/ LegCheck(w)
    BY <2>1, <2>3 DEF Check, LegCheck
  <2>4. CASE While(w)
    BY <2>1, <2>4 DEF While
  <2>5. CASE Flip(w)
    BY <2>1, <2>5 DEF Flip
  <2>6. CASE End(w) \/ CallRaises(w)
    <3>1. isMoving' \in BOOLEAN
      BY <2>6 DEF End, CallRaises
    <3> QED BY <2>1, <2>6, <3>1 DEF End, CallRaises
  <2> QED BY <1>1, <2>2, <2>3, <2>4, <2>5, <2>6
<1>3. ASSUME NEW w \in Workers, NEW b, HandleResult(w, b), waiting[w] # 0,
             call' \in [WorkRequests -> [from : Places \cup {"any"}, to : Places \cup {"any"}]],
             UNCHANGED hostVars, late' \in 0..MaxLate, at' \in {at, "unknown"}
      PROVE  NodeTyped'
  <2>1. AfterCall(w, b) \in Labels
    BY <1>3 DEF AfterCall, Asking
  <2> QED BY <1>3, <2>1 DEF HandleResult, hostVars
<1>4. ASSUME NEW r \in WorkRequests, Collect(r)
      PROVE  call' \in [WorkRequests -> [from : Places \cup {"any"}, to : Places \cup {"any"}]]
  BY <1>4 DEF Collect, Nowhere
<1>5. ASSUME NEW w \in Workers, Return(w), UNCHANGED hostVars PROVE NodeTyped'
  <2>1. waiting[w] # 0 /\ <<w, waiting[w]>> \in WorkRequests
    BY <1>5, Names DEF Return
  <2>2. CASE HandleResult(w, okay[<<w, waiting[w]>>]) /\ Collect(<<w, waiting[w]>>) /\ UNCHANGED <<late, at>>
    BY <1>3, <1>4, <1>5, <2>1, <2>2
  <2>3. CASE /\ late < MaxLate /\ Free(w) # {} /\ HandleResult(w, FALSE) /\ late' = late + 1
             /\ at' = "unknown" /\ Forget /\ UNCHANGED serverVars
    <3>1. late' \in 0..MaxLate /\ at' \in {at, "unknown"}
      BY <2>3
    <3>2. call' \in [WorkRequests -> [from : Places \cup {"any"}, to : Places \cup {"any"}]]
      BY <2>3 DEF Forget, Nowhere
    <3> QED BY <1>3, <1>5, <2>1, <2>3, <3>1, <3>2
  <2> QED BY <1>5, <2>2, <2>3 DEF Return, Forget
<1>6. ASSUME NEW w \in Workers, Discard(w), UNCHANGED hostVars PROVE NodeTyped'
  <2>1. \E k \in Slots : Collect(<<w, k>>)
    BY <1>6 DEF Discard
  <2> QED BY <1>4, <1>6, <2>1, Names DEF Discard, hostVars
<1>7. CASE Keyboard \/ Interrupt \/ MainLeaves
  <2>1. ASSUME NEW w \in Workers, PressSpace(w) PROVE NodeTyped'
    BY <2>1 DEF PressSpace, hostVars
  <2>2. CASE KbTest \/ PressOther \/ PressQ \/ KbCallStop
    BY <2>2 DEF KbTest, PressOther, PressQ, KbCallStop, workVars
  <2>3. CASE KeyboardLeaves
    BY <2>3 DEF KeyboardLeaves, workVars
  <2>4. CASE Interrupt \/ MainLeaves
    BY <2>4 DEF Interrupt, MainLeaves, workVars
  <2> QED BY <1>7, <2>1, <2>2, <2>3, <2>4 DEF Keyboard
<1>8. CASE ServerStep
  <2>1. UNCHANGED <<workVars, shouldStop, quit, hostVars, late>>
    BY <1>8, ServerKeeps DEF IInv
  <2>2. P!ServerNext
    BY <1>8, SameServer DEF ServerStep
  <2>3. completed' # completed => motion \notin {NoMotion, Blending}
    BY <2>2, RobotAssumption DEF P!ServerNext, P!Take, P!Callback, P!Complete, P!Approach, P!StartMove, P!StartAsync, P!RefuseMove,
      P!MoveReturns, P!StartWait, P!WaitReturns, P!Pause, P!Resume, P!Stop
  <2>4. motion \notin {NoMotion, Blending} /\ late = 0 => call[motion].to \in Places
    BY MotionIsWork DEF IInv, Ops
  <2>5. at' \in Places \cup {"unknown"}
    BY <1>8, <2>3, <2>4 DEF ServerStep
  <2> QED BY <2>1, <2>5 DEF workVars, hostVars
<1>9. CASE UNCHANGED vars
  BY <1>9 DEF vars, workVars, hostVars
<1> QED BY <1>1, <1>2, <1>5, <1>6, <1>7, <1>8, <1>9 DEF Next, Worker

\* What a step is to the requests: nothing, the keyboard's stop, a step of the
\* server, or one worker w that goes on to l, asks, has its answer, gives up or
\* drops an answer nobody waits for.
Moves(w, l) ==
  pc' = [pc EXCEPT ![w] = l] /\ waiting[w] = 0 /\ UNCHANGED <<serverVars, call, waiting, late>>

Gets(w, l) ==
  /\ waiting[w] # 0 /\ pc' = [pc EXCEPT ![w] = l] /\ waiting' = [waiting EXCEPT ![w] = 0]
  /\ Collect(<<w, waiting[w]>>) /\ UNCHANGED late

Misses(w, l) ==
  /\ waiting[w] # 0 /\ pc' = [pc EXCEPT ![w] = l] /\ waiting' = [waiting EXCEPT ![w] = 0]
  /\ late' = late + 1 /\ Forget /\ UNCHANGED serverVars

LEMMA StepKinds ==
  ASSUME IInv, [Next]_vars
  PROVE  \/ UNCHANGED <<serverVars, call, waiting, pc, late>>
         \/ UNCHANGED <<call, waiting, pc, late>> /\ Server!Send(StopRequest, "stop")
         \/ ServerStep
         \/ \E w \in Workers : \E l \in Labels : Moves(w, l) \/ Gets(w, l) \/ Misses(w, l)
         \/ \E w \in Workers : Call(w) /\ UNCHANGED <<pc, late>>
         \/ \E w \in Workers : Discard(w) /\ UNCHANGED <<pc, waiting, late>>
<1>0. /\ NodeTyped /\ \A w \in Workers : waiting[w] # 0 => pc[w] \in Asking
  BY DEF IInv, Waited
<1>1. ASSUME NEW w \in Workers, UNCHANGED <<serverVars, late>>,
             \/ Begin(w) \/ Check(w) \/ While(w) \/ LegCheck(w) \/ Flip(w) \/ End(w) \/ CallRaises(w)
      PROVE  \E l \in Labels : Moves(w, l)
  <2>1. waiting[w] = 0 /\ UNCHANGED <<call, waiting>>
    BY <1>0, <1>1 DEF Begin, Check, While, LegCheck, Flip, End, CallRaises, Asking
  <2>2. \E l \in Labels : pc' = [pc EXCEPT ![w] = l]
    BY <1>1 DEF Begin, Check, While, LegCheck, Flip, End, CallRaises, GoTo, Labels
  <2> QED BY <1>1, <2>1, <2>2 DEF Moves
<1>2. ASSUME NEW w \in Workers, Return(w) PROVE \E l \in Labels : Gets(w, l) \/ Misses(w, l)
  <2>1. waiting[w] # 0 /\ \A b : AfterCall(w, b) \in Labels
    BY <1>0, <1>2 DEF Return, AfterCall, Asking, Labels
  <2>2. CASE HandleResult(w, okay[<<w, waiting[w]>>]) /\ Collect(<<w, waiting[w]>>) /\ UNCHANGED <<late, at>>
    BY <2>1, <2>2 DEF HandleResult, GoTo, Gets
  <2>3. CASE HandleResult(w, FALSE) /\ late' = late + 1 /\ Forget /\ UNCHANGED serverVars
    BY <2>1, <2>3 DEF HandleResult, GoTo, Misses
  <2> QED BY <1>2, <2>2, <2>3 DEF Return, Forget
<1>3. ASSUME NEW w \in Workers, PressSpace(w) PROVE Moves(w, "begin") /\ "begin" \in Labels
  <2>1. waiting[w] = 0
    BY <1>0, <1>3 DEF PressSpace, Asking
  <2> QED BY <1>3, <2>1 DEF PressSpace, GoTo, Moves, Labels
<1>4. CASE KbTest \/ PressOther \/ PressQ \/ KeyboardLeaves \/ Interrupt \/ MainLeaves \/ UNCHANGED vars
  BY <1>4 DEF KbTest, PressOther, PressQ, KeyboardLeaves, Interrupt, MainLeaves, workVars, vars
<1>5. CASE KbCallStop
  BY <1>5 DEF KbCallStop, workVars
<1>6. ASSUME NEW w \in Workers, Call(w), UNCHANGED late PROVE Call(w) /\ UNCHANGED <<pc, late>>
  BY <1>6 DEF Call
<1>7. ASSUME NEW w \in Workers, Discard(w) PROVE Discard(w) /\ UNCHANGED <<pc, waiting, late>>
  BY <1>7 DEF Discard
<1> QED BY <1>1, <1>2, <1>3, <1>4, <1>5, <1>6, <1>7 DEF Next, Worker, Keyboard

\* The server's side: its invariant, and the services asked for.
LEMMA RequestStep ==
  ASSUME IInv, [Next]_vars
  PROVE  P!IInv' /\ Ops'
<1>0. NodeTyped /\ P!IInv /\ Ops
  BY DEF IInv
<1>1. CASE UNCHANGED <<serverVars, call, waiting, pc, late>>
  BY <1>0, <1>1 DEF serverVars, Ops, P!IInv, P!TypeOK, P!Exclusive, P!MotionHasOwner, P!Running
<1>2. CASE UNCHANGED <<call, waiting, pc, late>> /\ Server!Send(StopRequest, "stop")
  <2>1. P!IInv' /\ op' = [op EXCEPT ![StopRequest] = "stop"]
    BY <1>0, <1>2, SendStep, Names
  <2> QED BY <1>0, <1>2, <2>1, Names DEF Ops
<1>3. CASE ServerStep
  BY <1>0, <1>3, ServerKeeps DEF Ops, workVars
<1>4. ASSUME NEW r \in WorkRequests, Collect(r), UNCHANGED late PROVE P!IInv' /\ Ops'
  BY <1>0, <1>4, CollectStep, Names DEF Collect, Ops, Server!NoService, Server!SyncMoves, NodeTyped
<1>5. ASSUME NEW w \in Workers, NEW l \in Labels, Moves(w, l) \/ Gets(w, l) \/ Misses(w, l)
      PROVE  P!IInv' /\ Ops'
  <2>1. CASE Moves(w, l)
    BY <1>0, <2>1 DEF Moves, serverVars, Ops, P!IInv, P!TypeOK, P!Exclusive, P!MotionHasOwner, P!Running
  <2>2. CASE Gets(w, l)
    BY <1>0, <1>4, <2>2, Names DEF Gets, NodeTyped
  <2>3. CASE Misses(w, l)
    <3>1. late' # 0
      BY <1>0, <2>3, Names DEF Misses, NodeTyped
    <3>2. P!IInv'
      BY <1>0, <2>3 DEF Misses, serverVars, P!IInv, P!TypeOK, P!Exclusive, P!MotionHasOwner, P!Running
    <3> QED BY <1>0, <2>3, <3>1, <3>2 DEF Misses, serverVars, Ops
  <2> QED BY <1>5, <2>1, <2>2, <2>3
<1>6. ASSUME NEW w \in Workers, Call(w), UNCHANGED late PROVE P!IInv' /\ Ops'
  <2>1. PICK o \in {"move", "blend", "stop"}, from \in Places \cup {"any"}, to \in Places \cup {"any"} :
          Ask(w, o, from, to) /\ (o \in Server!SyncMoves => to \in Places)
    BY <1>0, <1>6, CallStep
  <2>2. PICK k \in Slots : Sends(w, k, o, from, to)
    BY <1>0, <2>1, AskStep
  <2>3. P!IInv'
    BY <1>0, <2>1, AskStep
  <2>4. <<w, k>> \in WorkRequests /\ <<w, k>> # StopRequest
    BY Names
  <2>5. op' = [op EXCEPT ![<<w, k>>] = o] /\ op' \in [Requests -> {"none", "move", "blend", "stop"}]
    BY <1>0, <2>2, <2>4, Names DEF Sends, Ops
  <2>6. op'[StopRequest] = op[StopRequest]
    BY <1>0, <2>4, <2>5, Names DEF Ops
  <2>7. ASSUME late' = 0, NEW r \in WorkRequests, op'[r] \in Server!SyncMoves PROVE call'[r].to \in Places
    <3>0. late = 0
      BY <1>6, <2>7
    <3>1. call' = [call EXCEPT ![<<w, k>>] = [from |-> from, to |-> to]]
      BY <2>2, <3>0 DEF Sends
    <3>2. CASE r = <<w, k>>
      BY <1>0, <2>1, <2>4, <2>5, <2>7, <3>0, <3>1, <3>2, Names DEF NodeTyped, Ops
    <3>3. CASE r # <<w, k>>
      BY <1>0, <2>5, <2>7, <3>0, <3>1, <3>3, Names DEF NodeTyped, Ops
    <3> QED BY <3>2, <3>3
  <2> QED BY <1>0, <2>3, <2>5, <2>6, <2>7 DEF Ops
<1>7. ASSUME NEW w \in Workers, Discard(w), UNCHANGED late PROVE P!IInv' /\ Ops'
  BY <1>4, <1>7, Names DEF Discard
<1> QED BY <1>1, <1>2, <1>3, <1>5, <1>6, <1>7, StepKinds

\* Who waits for what.
LEMMA WaitedStep ==
  ASSUME IInv, [Next]_vars
  PROVE  Waited' /\ Pending'
<1>0. /\ NodeTyped /\ Waited /\ Pending /\ P!TypeOK /\ Slots \subseteq Nat /\ 0 \notin Slots
      /\ MaxLate \in Nat
  BY Names DEF IInv, P!IInv
<1>1. CASE UNCHANGED <<serverVars, call, waiting, pc, late>>
  BY <1>0, <1>1 DEF serverVars, Waited, Pending
<1>2. CASE UNCHANGED <<call, waiting, pc, late>> /\ Server!Send(StopRequest, "stop")
  <2>1. stage' = [stage EXCEPT ![StopRequest] = "queued"]
    BY <1>2, SendStep, Names DEF IInv
  <2>2. \A w \in Workers, k \in Slots : stage'[<<w, k>>] = stage[<<w, k>>]
    BY <1>0, <2>1, Names DEF P!TypeOK
  <2>3. \A w \in Workers : waiting[w] # 0 => stage'[<<w, waiting[w]>>] = stage[<<w, waiting[w]>>]
    BY <1>0, <2>2 DEF NodeTyped
  <2>4. waiting' = waiting /\ pc' = pc /\ late' = late
    BY <1>2
  <2>5. Waited'
    BY <1>0, <2>3, <2>4 DEF Waited
  <2>6. Pending'
    BY <1>0, <2>2, <2>4 DEF Pending
  <2> QED BY <2>5, <2>6
<1>3. CASE ServerStep
  <2>1. UNCHANGED <<waiting, pc, late>>
    BY <1>3, ServerKeeps DEF IInv, workVars
  <2>2. \A w \in Workers, k \in Slots : stage'[<<w, k>>] = "unsent" <=> stage[<<w, k>>] = "unsent"
    BY <1>3, ServerKeeps, Names DEF IInv
  <2> QED BY <1>0, <2>1, <2>2 DEF Waited, Pending, NodeTyped
<1>4. ASSUME NEW w \in Workers, NEW l \in Labels, Moves(w, l) PROVE Waited' /\ Pending'
  BY <1>0, <1>4 DEF Moves, Waited, Pending, NodeTyped, serverVars
<1>5. ASSUME NEW w \in Workers, NEW k \in Slots, Collect(<<w, k>>)
      PROVE  \A v \in Workers, j \in Slots :
               stage'[<<v, j>>] = (IF v = w /\ j = k THEN "unsent" ELSE stage[<<v, j>>])
  BY <1>0, <1>5, Names DEF Collect, P!TypeOK
<1>6. ASSUME NEW w \in Workers, NEW l \in Labels, Gets(w, l) PROVE Waited' /\ Pending'
  <2>1. waiting[w] \in Slots /\ UNCHANGED late
    BY <1>0, <1>6 DEF Gets, NodeTyped
  <2>2. \A v \in Workers : v # w => waiting'[v] = waiting[v] /\ pc'[v] = pc[v]
    BY <1>0, <1>6 DEF Gets, NodeTyped
  <2>3. waiting'[w] = 0
    BY <1>0, <1>6 DEF Gets, NodeTyped
  <2>4. \A v \in Workers, j \in Slots :
          stage'[<<v, j>>] = (IF v = w /\ j = waiting[w] THEN "unsent" ELSE stage[<<v, j>>])
    BY <1>5, <1>6, <2>1 DEF Gets
  <2>5. ASSUME NEW v \in Workers, waiting'[v] # 0
        PROVE  pc'[v] \in Asking /\ stage'[<<v, waiting'[v]>>] # "unsent"
    <3>1. v # w /\ waiting'[v] = waiting[v] /\ pc'[v] = pc[v] /\ waiting[v] \in Slots
      BY <1>0, <2>2, <2>3, <2>5 DEF NodeTyped
    <3>2. stage'[<<v, waiting[v]>>] = stage[<<v, waiting[v]>>]
      BY <2>4, <3>1
    <3> QED BY <1>0, <2>5, <3>1, <3>2 DEF Waited
  <2>6. ASSUME late' = 0, NEW v \in Workers, NEW j \in Slots, stage'[<<v, j>>] # "unsent"
        PROVE  waiting'[v] = j
    <3>1. (v # w \/ j # waiting[w]) /\ stage[<<v, j>>] # "unsent"
      BY <2>4, <2>6
    <3>2. waiting[v] = j
      BY <1>0, <2>1, <2>6, <3>1 DEF Pending
    <3> QED BY <2>2, <3>1, <3>2
  <2> QED BY <2>5, <2>6 DEF Waited, Pending
<1>7. ASSUME NEW w \in Workers, NEW l \in Labels, Misses(w, l) PROVE Waited' /\ Pending'
  BY <1>0, <1>7 DEF Misses, Waited, Pending, NodeTyped, serverVars
<1>8. ASSUME NEW w \in Workers, Call(w), UNCHANGED <<pc, late>> PROVE Waited' /\ Pending'
  <2>1. PICK o \in {"move", "blend", "stop"}, from \in Places \cup {"any"}, to \in Places \cup {"any"} :
          Ask(w, o, from, to)
    BY <1>0, <1>8, CallStep
  <2>2. PICK k \in Slots : Sends(w, k, o, from, to)
    BY <2>1, AskStep DEF IInv
  <2>3. waiting[w] = 0 /\ pc[w] \in Asking
    BY <1>0, <1>8, CallStep
  <2>4. \A v \in Workers, j \in Slots :
          stage'[<<v, j>>] = (IF v = w /\ j = k THEN "queued" ELSE stage[<<v, j>>])
    BY <1>0, <2>2, Names DEF Sends, P!TypeOK
  <2>5. waiting' = [waiting EXCEPT ![w] = k]
    BY <2>2 DEF Sends
  <2>6. Waited'
    BY <1>0, <1>8, <2>3, <2>4, <2>5 DEF Waited, NodeTyped
  <2>7. Pending'
    BY <1>0, <1>8, <2>3, <2>4, <2>5 DEF Pending, NodeTyped
  <2> QED BY <2>6, <2>7
<1>9. ASSUME NEW w \in Workers, Discard(w), UNCHANGED <<pc, waiting, late>> PROVE Waited' /\ Pending'
  <2>1. PICK k \in Slots \ {waiting[w]} : Collect(<<w, k>>)
    BY <1>9 DEF Discard
  <2>2. \A v \in Workers, j \in Slots :
          stage'[<<v, j>>] = (IF v = w /\ j = k THEN "unsent" ELSE stage[<<v, j>>])
    BY <1>5, <2>1
  <2>3. \A v \in Workers : waiting[v] # 0 => stage'[<<v, waiting[v]>>] = stage[<<v, waiting[v]>>]
    BY <1>0, <2>1, <2>2 DEF NodeTyped
  <2>4. Waited'
    BY <1>0, <1>9, <2>3 DEF Waited
  <2>5. \A v \in Workers, j \in Slots : stage'[<<v, j>>] # "unsent" => stage[<<v, j>>] # "unsent"
    BY <2>2
  <2> QED BY <1>0, <1>9, <2>4, <2>5 DEF Pending
<1> QED BY <1>1, <1>2, <1>3, <1>4, <1>6, <1>7, <1>8, <1>9, StepKinds

\* The tables of the statements, line by line.
LEMMA CostTable ==
  ASSUME NEW inSine \in BOOLEAN
  PROVE  /\ Cost("home", inSine) = (IF inSine THEN 4 ELSE 1)
         /\ Cost("pre", inSine) = (IF inSine THEN 3 ELSE 1)
         /\ Cost("stopping", inSine) = (IF inSine THEN 1 ELSE 0)
         /\ \A l \in {"start", "spline", "leg"} : Cost(l, inSine) = 2
         /\ \A l \in {"while", "flip", "legCheck", "homing"} : Cost(l, inSine) = 1
         /\ \A l \in {"unborn", "begin", "reset", "checkPre", "checkStart", "giveUp", "end", "done",
                      "dead"} : Cost(l, inSine) = 0
BY DEF Cost

LEMMA AfterCallTable ==
  ASSUME NEW w \in Workers, NEW b \in BOOLEAN
  PROVE  /\ pc[w] = "home" => AfterCall(w, b) \in {"end"} \cup (IF sine THEN {"pre"} ELSE {"checkPre"})
         /\ pc[w] = "pre" => AfterCall(w, b) = (IF sine THEN "start" ELSE "checkStart")
         /\ pc[w] = "start" => AfterCall(w, b) = (IF b THEN "while" ELSE "end")
         /\ pc[w] = "spline" => AfterCall(w, b) = (IF b THEN "flip" ELSE "legCheck")
         /\ pc[w] = "leg" /\ b => AfterCall(w, b) = (IF leg[w] = N THEN "flip" ELSE "legCheck")
         /\ pc[w] = "leg" /\ ~ b => AfterCall(w, b) = (IF sine THEN "giveUp" ELSE "homing")
         /\ pc[w] = "homing" => AfterCall(w, b) = (IF sine THEN "end" ELSE "stopping")
         /\ pc[w] = "stopping" => AfterCall(w, b) = (IF sine THEN "homing" ELSE "end")
         /\ pc[w] = "giveUp" => AfterCall(w, b) = "end"
BY DEF AfterCall

\* What a run has left to ask for.
LEMMA LeftIsBounded ==
  ASSUME NodeTyped, Waited, NEW w \in Workers
  PROVE  Left(w) \in Nat /\ Left(w) <= (IF sine THEN 4 ELSE 2)
<1>1. /\ Cost(pc[w], sine) \in Nat /\ Cost(pc[w], sine) <= (IF sine THEN 4 ELSE 2)
      /\ pc[w] \in Asking \ {"stopping", "giveUp"} => Cost(pc[w], sine) >= 1
  BY CostTable DEF NodeTyped, Asking, Labels
<1>2. CASE waiting[w] # 0 /\ pc[w] \notin {"stopping", "giveUp"}
  <2>1. Left(w) = Cost(pc[w], sine) - 1 /\ Cost(pc[w], sine) >= 1
    BY <1>1, <1>2 DEF Left, Waited
  <2> QED BY <1>1, <2>1
<1>3. CASE ~ (waiting[w] # 0 /\ pc[w] \notin {"stopping", "giveUp"})
  <2>1. Left(w) = Cost(pc[w], sine) - 0
    BY <1>3 DEF Left
  <2> QED BY <1>1, <2>1
<1> QED BY <1>2, <1>3

\* Another worker's is its own affair.
LEMMA LeftOfOthers ==
  ASSUME UNCHANGED sine, NEW v \in Workers, pc'[v] = pc[v], waiting'[v] = waiting[v]
  PROVE  Left(v)' = Left(v)
BY DEF Left

\* Once should_stop is set, no statement adds to it.
LEMMA LeftFallsLocally ==
  ASSUME NodeTyped, Waited, shouldStop, shouldStop', NEW w \in Workers, UNCHANGED sine,
         Begin(w) \/ Check(w) \/ While(w) \/ LegCheck(w) \/ Flip(w) \/ End(w) \/ CallRaises(w)
  PROVE  Left(w)' <= Left(w)
<1>1. waiting[w] = 0 /\ waiting' = waiting
  BY DEF Begin, Check, While, LegCheck, Flip, End, CallRaises, Waited, Asking
<1>2. Left(w) = Cost(pc[w], sine) - 0 /\ Left(w)' = Cost(pc'[w], sine) - 0
  BY <1>1 DEF Left
<1>3. Cost(pc[w], sine) \in Nat
  BY CostTable DEF NodeTyped, Labels
<1>4. \/ pc[w] \in {"begin", "checkPre", "checkStart", "end"} /\ pc'[w] \in {"reset", "end", "done"}
      \/ pc[w] = "reset" /\ pc'[w] = "home" /\ ~ shouldStop'
      \/ pc'[w] = "dead"
      \/ pc[w] \in {"legCheck", "flip"} /\ pc'[w] \in {"flip", "while"}
      \/ pc[w] = "while" /\ pc'[w] = (IF sine THEN "stopping" ELSE "homing")
  BY DEF Begin, Check, While, LegCheck, Flip, End, CallRaises, GoTo, NodeTyped
<1> QED BY <1>2, <1>3, <1>4, CostTable DEF NodeTyped

LEMMA LeftFallsAfterCall ==
  ASSUME NodeTyped, Waited, NEW w \in Workers, waiting[w] # 0, UNCHANGED sine,
         NEW b \in BOOLEAN, HandleResult(w, b)
  PROVE  Left(w)' <= Left(w)
<1>1. pc[w] \in Asking /\ pc'[w] = AfterCall(w, b) /\ waiting'[w] = 0
  BY DEF HandleResult, GoTo, NodeTyped, Waited
<1>2. Left(w)' = Cost(pc'[w], sine) - 0
  BY <1>1 DEF Left
<1>3. CASE pc[w] \in {"stopping", "giveUp"}
  <2>1. Left(w) = Cost(pc[w], sine) - 0
    BY <1>3 DEF Left
  <2> QED BY <1>1, <1>2, <1>3, <2>1, CostTable, AfterCallTable DEF NodeTyped
<1>4. CASE pc[w] \notin {"stopping", "giveUp"}
  <2>1. Left(w) = Cost(pc[w], sine) - 1
    BY <1>4 DEF Left
  <2> QED BY <1>1, <1>2, <1>4, <2>1, CostTable, AfterCallTable DEF NodeTyped, Asking
<1> QED BY <1>3, <1>4

\* Q, and what runs ask for after it.
LEMMA QuitStep ==
  ASSUME IInv, [Next]_vars
  PROVE  Quits'
<1> DEFINE Most == IF sine THEN 4 ELSE 2
<1>0. /\ NodeTyped /\ Waited /\ Quits /\ P!TypeOK /\ Ops
  BY DEF IInv, P!IInv
<1>1. /\ quit = "not" => kb # "callStop" /\ stage[StopRequest] = "unsent"
      /\ quit = "not" => \A w \in Workers : afterQuit[w] = 0
      /\ quit # "not" => kb \notin {"testing", "reading"}
      /\ quit = "seen" => shouldStop
      /\ quit = "seen" => \A w \in Workers : afterQuit[w] + Left(w) <= Most
  BY <1>0 DEF Quits
<1>2. \A w \in Workers : Left(w) \in Nat /\ Left(w) <= Most /\ afterQuit[w] \in Nat
  BY <1>0, LeftIsBounded DEF NodeTyped
\* A step of w, when the rest stays as it is
<1>3. ASSUME NEW w \in Workers, UNCHANGED <<sine, kb, afterQuit>>, stage'[StopRequest] = stage[StopRequest],
             \A v \in Workers : v # w => pc'[v] = pc[v] /\ waiting'[v] = waiting[v],
             UNCHANGED <<quit, shouldStop>> \/ (~ shouldStop' /\ quit' = (IF quit = "seen" THEN "lost" ELSE quit)),
             quit = "seen" /\ shouldStop' => Left(w)' <= Left(w), Left(w)' \in Int
      PROVE  Quits'
  <2>1. \A v \in Workers : v # w => Left(v)' = Left(v)
    BY <1>3, LeftOfOthers
  <2>2. ASSUME quit' = "seen", NEW v \in Workers PROVE afterQuit'[v] + Left(v)' <= Most
    <3>1. quit = "seen" /\ shouldStop'
      BY <1>1, <1>3, <2>2
    <3> QED BY <1>1, <1>2, <1>3, <2>1, <3>1
  <2>3. quit' = "not" => quit = "not"
    BY <1>3
  <2>4. quit' # "not" => quit # "not"
    BY <1>3
  <2>5. quit' = "seen" => shouldStop'
    BY <1>1, <1>3
  <2> QED BY <1>1, <1>3, <2>2, <2>3, <2>4, <2>5 DEF Quits
<1>4. \A w \in Workers : Left(w)' \in Int
  <2>1. NodeTyped'
    BY TypeStep
  <2>2. \A w \in Workers : Cost(pc'[w], sine') \in Int
    BY <2>1, CostTable DEF NodeTyped, Labels
  <2> QED BY <2>2 DEF Left
\* The steps of a worker that ask for nothing.
<1>5. ASSUME NEW w \in Workers, UNCHANGED <<stage, hostVars>>,
             \/ Begin(w) \/ Check(w) \/ While(w) \/ LegCheck(w) \/ Flip(w) \/ End(w) \/ CallRaises(w)
      PROVE  Quits'
  <2>1. UNCHANGED <<sine, kb, afterQuit, waiting>>
    BY <1>5 DEF Begin, Check, While, LegCheck, Flip, End, CallRaises, hostVars
  <2>2. \A v \in Workers : v # w => pc'[v] = pc[v]
    BY <1>0, <1>5 DEF Begin, Check, While, LegCheck, Flip, End, CallRaises, GoTo, NodeTyped
  <2>3. UNCHANGED <<quit, shouldStop>> \/ (~ shouldStop' /\ quit' = (IF quit = "seen" THEN "lost" ELSE quit))
    BY <1>5 DEF Begin, Check, While, LegCheck, Flip, End, CallRaises
  <2>4. quit = "seen" /\ shouldStop' => Left(w)' <= Left(w)
    BY <1>0, <1>1, <1>5, <2>1, LeftFallsLocally
  <2> QED BY <1>3, <1>4, <1>5, <2>1, <2>2, <2>3, <2>4
<1>6. ASSUME NEW w \in Workers, NEW b \in BOOLEAN, HandleResult(w, b), waiting[w] # 0,
             stage'[StopRequest] = stage[StopRequest], UNCHANGED hostVars
      PROVE  Quits'
  <2>1. UNCHANGED <<sine, kb, afterQuit, quit, shouldStop>>
    BY <1>6 DEF HandleResult, hostVars
  <2>2. \A v \in Workers : v # w => pc'[v] = pc[v] /\ waiting'[v] = waiting[v]
    BY <1>0, <1>6 DEF HandleResult, GoTo, NodeTyped
  <2>3. Left(w)' <= Left(w)
    BY <1>0, <1>6, <2>1, LeftFallsAfterCall
  <2> QED BY <1>3, <1>4, <1>6, <2>1, <2>2, <2>3
<1>7. ASSUME NEW r \in WorkRequests, Collect(r) PROVE stage'[StopRequest] = stage[StopRequest]
  BY <1>0, <1>7, Names DEF Collect, P!TypeOK
<1>8. ASSUME NEW w \in Workers, Return(w), UNCHANGED hostVars PROVE Quits'
  <2>1. waiting[w] # 0 /\ <<w, waiting[w]>> \in WorkRequests /\ okay[<<w, waiting[w]>>] \in BOOLEAN
    BY <1>0, <1>8, Names DEF Return, NodeTyped, P!TypeOK
  <2>2. CASE HandleResult(w, okay[<<w, waiting[w]>>]) /\ Collect(<<w, waiting[w]>>)
    BY <1>6, <1>7, <1>8, <2>1, <2>2
  <2>3. CASE HandleResult(w, FALSE) /\ UNCHANGED serverVars
    BY <1>6, <1>8, <2>1, <2>3 DEF serverVars
  <2> QED BY <1>8, <2>2, <2>3 DEF Return
<1>9. ASSUME NEW w \in Workers, Discard(w), UNCHANGED hostVars PROVE Quits'
  <2>1. stage'[StopRequest] = stage[StopRequest]
    BY <1>7, <1>9, Names DEF Discard
  <2>2. UNCHANGED <<sine, kb, afterQuit, quit, shouldStop, pc, waiting>>
    BY <1>9 DEF Discard, hostVars
  <2>3. Left(w)' <= Left(w)
    BY <1>2, <2>2, LeftOfOthers
  <2> QED BY <1>3, <1>4, <2>1, <2>2, <2>3
\* A motion asked for is one less to ask for.
<1>10. ASSUME NEW w \in Workers, Call(w), UNCHANGED hostVars PROVE Quits'
  <2>1. PICK o \in {"move", "blend", "stop"}, from \in Places \cup {"any"}, to \in Places \cup {"any"} :
          Ask(w, o, from, to) /\ (to = "any" <=> pc[w] \in {"stopping", "giveUp"})
    BY <1>0, <1>10, CallStep
  <2>2. PICK k \in Slots : Sends(w, k, o, from, to)
    BY <2>1, AskStep DEF IInv
  <2>3. waiting[w] = 0 /\ UNCHANGED <<shouldStop, quit, pc, sine, kb>>
    BY <1>10 DEF Call, hostVars
  <2>4. waiting' = [waiting EXCEPT ![w] = k] /\ k # 0 /\ <<w, k>> # StopRequest
    BY <2>2, Names DEF Sends
  <2>5. \A v \in Workers : v # w => Left(v)' = Left(v) /\ afterQuit'[v] = afterQuit[v]
    <3>1. \A v \in Workers : v # w => waiting'[v] = waiting[v] /\ pc'[v] = pc[v]
      BY <1>0, <2>3, <2>4 DEF NodeTyped
    <3>2. \A v \in Workers : v # w => afterQuit'[v] = afterQuit[v]
      BY <1>0, <2>2 DEF Sends, NodeTyped
    <3> QED BY <2>3, <3>1, <3>2, LeftOfOthers
  <2>6. afterQuit'[w] + Left(w)' <= afterQuit[w] + Left(w)
    <3>1. waiting'[w] = k
      BY <1>0, <2>4 DEF NodeTyped
    <3>2. Cost(pc[w], sine) \in Nat
      BY <1>0, CostTable DEF NodeTyped, Labels
    <3>3. /\ Left(w) = Cost(pc[w], sine)
          /\ Left(w)' = Cost(pc[w], sine) - (IF to = "any" THEN 0 ELSE 1)
      BY <2>1, <2>3, <2>4, <3>1, <3>2 DEF Left
    <3>4. afterQuit'[w] \in {afterQuit[w]} \cup (IF to = "any" THEN {} ELSE {afterQuit[w] + 1})
      BY <1>0, <2>2 DEF Sends, NodeTyped
    <3> QED BY <1>2, <3>2, <3>3, <3>4
  <2>7. quit = "not" => afterQuit' = afterQuit
    BY <2>2 DEF Sends
  <2>8. stage'[StopRequest] = stage[StopRequest]
    BY <1>0, <2>2, <2>4, Names DEF Sends, P!TypeOK
  <2>9. quit = "seen" => \A v \in Workers : afterQuit'[v] + Left(v)' <= Most
    <3>1. ASSUME quit = "seen", NEW v \in Workers PROVE afterQuit'[v] + Left(v)' <= Most
      <4>1. CASE v = w
        <5>1. afterQuit[w] + Left(w) <= Most /\ afterQuit'[w] \in Int
          BY <1>1, <3>1, TypeStep DEF NodeTyped
        <5> QED BY <1>2, <1>4, <2>6, <4>1, <5>1
      <4>2. CASE v # w
        BY <1>1, <2>5, <3>1, <4>2
      <4> QED BY <4>1, <4>2
    <3> QED BY <3>1
  <2> QED BY <1>1, <2>3, <2>7, <2>8, <2>9 DEF Quits
<1>11. ASSUME NEW w \in Workers, PressSpace(w) PROVE Quits'
  <2>1. quit = "not" /\ UNCHANGED <<quit, stage, afterQuit>> /\ kb' = "testing"
    BY <1>1, <1>11 DEF PressSpace, serverVars
  <2> QED BY <1>1, <2>1 DEF Quits
<1>12. CASE PressQ
  <2>1. /\ kb' = "callStop" /\ quit' = "seen" /\ shouldStop' /\ UNCHANGED <<pc, waiting, sine, afterQuit>>
        /\ quit = "not"
    BY <1>1, <1>12 DEF PressQ, workVars
  <2>2. \A v \in Workers : Left(v)' = Left(v) /\ afterQuit[v] = 0
    BY <1>1, <2>1, LeftOfOthers
  <2> QED BY <1>2, <2>1, <2>2 DEF Quits
<1>13. CASE KbTest \/ PressOther \/ KbCallStop \/ KeyboardLeaves \/ Interrupt \/ MainLeaves \/ UNCHANGED vars
  <2>1. /\ UNCHANGED <<pc, waiting, sine, afterQuit, quit>> /\ (shouldStop => shouldStop')
        /\ (kb \in {"testing", "reading"} \/ kb' \notin {"testing", "reading"}) /\ (kb' = "callStop" => kb = "callStop")
        /\ stage' = stage \/ kb = "callStop"
    BY <1>13 DEF KbTest, PressOther, KbCallStop, KeyboardLeaves, Interrupt, MainLeaves, workVars, serverVars, vars, hostVars
  <2>2. \A v \in Workers : Left(v)' = Left(v)
    BY <2>1, LeftOfOthers
  <2> QED BY <1>1, <2>1, <2>2 DEF Quits
<1>14. CASE ServerStep
  <2>1. /\ UNCHANGED <<pc, waiting, sine, afterQuit, quit, shouldStop, kb>>
        /\ stage'[StopRequest] = "unsent" <=> stage[StopRequest] = "unsent"
    BY <1>14, ServerKeeps, Names DEF IInv, workVars, hostVars
  <2>2. \A v \in Workers : Left(v)' = Left(v)
    BY <2>1, LeftOfOthers
  <2> QED BY <1>1, <2>1, <2>2 DEF Quits
<1> QED BY <1>5, <1>8, <1>9, <1>10, <1>11, <1>12, <1>13, <1>14 DEF Next, Worker, Keyboard, serverVars

LEMMA InitIInv == Init => IInv
<1> SUFFICES ASSUME Init PROVE IInv
  OBVIOUS
<1>1. /\ stage = [r \in Requests |-> "unsent"] /\ op = [r \in Requests |-> "none"]
      /\ waiting = [w \in Workers |-> 0]
  BY DEF Init, Server!ServerInit, Server!NoService
<1>2. P!IInv
  BY SameServer, P!InitIInv, RobotAssumption DEF Init
<1>3. NodeTyped
  <2>1. 1 \in 1..N /\ 0 \in 0..MaxLate
    BY Names, Path
  <2>2. leg \in [Workers -> 1..N] /\ reversed \in [Workers -> BOOLEAN] /\ sine \in BOOLEAN
    BY <2>1 DEF Init
  <2>3. isMoving \in BOOLEAN /\ shouldStop \in BOOLEAN /\ ctxOk \in BOOLEAN
    BY DEF Init
  <2>4. call \in [WorkRequests -> [from : Places \cup {"any"}, to : Places \cup {"any"}]]
    BY DEF Init, Nowhere
  <2> QED BY <2>1, <2>2, <2>3, <2>4 DEF Init, NodeTyped, Labels
<1>4. Waited /\ Ops /\ Pending /\ Quits
  BY <1>1, Names DEF Init, Waited, Ops, Pending, Quits, Server!SyncMoves
<1> QED BY <1>2, <1>3, <1>4 DEF IInv

LEMMA Invariance == Spec => []IInv
<1>1. IInv /\ [Next]_vars => IInv'
  BY TypeStep, RequestStep, WaitedStep, QuitStep DEF IInv
<1> QED BY InitIInv, <1>1, PTL DEF Spec

-----------------------------------------------------------------------------

\* The threads' places, the flags, the waypoints and the requests keep their
\* types; no leg is beyond the last waypoint.
THEOREM TypeCorrect == Spec => []TypeOK
<1>1. IInv => TypeOK
  BY TypeOKParts DEF IInv, P!IInv
<1> QED BY <1>1, Invariance, PTL

\* Until a call times out, a node without a run has left nothing with the
\* server, and the robot executes no motion: it would have an owner.
THEOREM IdleIsStill == Spec => []IdleMeansStill
<1>1. IInv => IdleMeansStill
  <2> SUFFICES ASSUME IInv, late = 0, NoRun
               PROVE  motion \in {NoMotion, Blending} /\ \A r \in WorkRequests : stage[r] = "unsent"
    BY DEF IdleMeansStill
  <2>1. \A w \in Workers : waiting[w] = 0
    BY DEF IInv, Waited, NoRun, Asking
  <2>2. \A w \in Workers, k \in Slots : stage[<<w, k>>] = "unsent"
    BY <2>1, Names DEF IInv, Pending
  <2>3. \A r \in WorkRequests : stage[r] = "unsent"
    BY <2>2, Names
  <2> QED BY <2>3, MotionIsWork DEF IInv
<1> QED BY <1>1, Invariance, PTL

\* After Q a run of line or arc asks for two motions at most and one of sine for
\* four, wherever it is.
THEOREM QuitIsCheap == Spec => []QuitEndsRun
<1>1. IInv => QuitEndsRun
  <2> SUFFICES ASSUME IInv, quit # "lost", NEW w \in Workers
               PROVE  afterQuit[w] <= (IF sine THEN 4 ELSE 2)
    BY DEF QuitEndsRun
  <2>1. Left(w) \in Nat /\ afterQuit[w] \in Nat
    BY LeftIsBounded DEF IInv, NodeTyped
  <2>2. CASE quit = "seen"
    BY <2>1, <2>2 DEF IInv, Quits
  <2>3. CASE quit = "not"
    BY <2>3 DEF IInv, Quits
  <2> QED BY <2>2, <2>3 DEF IInv, NodeTyped
<1> QED BY <1>1, Invariance, PTL

(***************************************************************************)
(* What the motion services promise holds with the node as their client:   *)
(* a motion asked for by one run is not given up for another's, though     *)
(* runs may overlap, and a request keeps its promise after its slot has    *)
(* been used before.                                                       *)
(***************************************************************************)
THEOREM ServerKeepsPromises ==
  Spec => []Server!AnsweredMoveIsOver /\ Server!BlockingMoveKeepsRobot
<1>1. IInv => Server!AnsweredMoveIsOver
  BY DEF IInv, P!IInv, P!MotionHasOwner, Server!AnsweredMoveIsOver, P!SyncMoves
<1>2. IInv /\ [Next]_vars =>
        [\A i \in Requests : motion = i /\ op[i] \in Server!SyncMoves
           => motion' \in {i, NoMotion, Blending}]_(Server!serverVars)
  <2> SUFFICES ASSUME IInv, [Next]_vars, NEW i \in Requests, motion = i, op[i] \in Server!SyncMoves
               PROVE  motion' \in {i, NoMotion, Blending}
    OBVIOUS
  <2>1. CASE ServerStep
    <3>1. op[i] \in P!SyncMoves
      BY DEF Server!SyncMoves, P!SyncMoves
    <3> QED BY <2>1, <3>1, SameServer, P!MoveKept, RobotAssumption DEF ServerStep, IInv
  <2>2. ASSUME ~ ServerStep PROVE motion' = motion
    BY <2>2, StepKinds DEF serverVars, Server!Send, Moves, Gets, Misses, Collect, Call, Ask, Discard
  <2> QED BY <2>1, <2>2
<1> QED BY <1>1, <1>2, Invariance, PTL DEF Spec, Server!BlockingMoveKeepsRobot

-----------------------------------------------------------------------------
(* Where a pass starts, when one run is under way at a time.               *)

UnderWay(w) == pc[w] \notin {"unborn", "done", "dead"}

Alone == \A v, w \in Workers : UnderWay(v) /\ UnderWay(w) => v = w

\* A run is about to make a pass whose first motion counts on the robot's place.
Heads(w) == pc[w] = "spline" \/ (sine /\ pc[w] \in {"legCheck", "leg"} /\ leg[w] = 1)

\* Where the robot is between two calls of a run
Between(w) ==
  /\ pc[w] = "while" => at = Waypoint(w, 1) \/ shouldStop
  /\ pc[w] = "flip" => at = Waypoint(w, N) \/ shouldStop
  /\ waiting[w] = 0 /\ Heads(w) => at = Waypoint(w, 1)
  /\ sine => pc[w] # "spline"

\* What is known of the request a run waits for: what it is, that the robot is
\* where it counts on it, that it is carried out unless Q was pressed, and that
\* its success means that the robot is there.
Carried(w, r) ==
  /\ pc[w] \in {"start", "spline", "leg"} => op[r] \in Server!SyncMoves
  /\ pc[w] = "start" => call[r].to = Waypoint(w, 1)
  /\ pc[w] = "spline" => call[r].to = Waypoint(w, N)
  /\ pc[w] = "leg" => call[r].to = Waypoint(w, leg[w])
  /\ stage[r] \in {"queued", "taken"} => call[r].from \in {"any", at}
  /\ op[r] \in Server!SyncMoves /\ stage[r] = "blocked" =>
       motion = r \/ quit # "not" \/ (r \in completed /\ at = call[r].to)
  /\ op[r] \in Server!SyncMoves /\ stage[r] = "answered" /\ okay[r] => quit # "not" \/ at = call[r].to

Here(w) == Between(w) /\ (waiting[w] # 0 => Carried(w, <<w, waiting[w]>>))

AllHere == late = 0 /\ quit # "lost" => \A w \in Workers : Here(w)

\* A run that is not under way waits for nothing and is nowhere in particular.
LEMMA Elsewhere ==
  ASSUME NodeTyped, Waited, NEW w \in Workers, ~ UnderWay(w)
  PROVE  Here(w) /\ waiting[w] = 0
<1>1. waiting[w] = 0
  BY DEF Waited, Asking, UnderWay
<1> QED BY <1>1 DEF Here, Between, Heads, UnderWay

\* So a step of w leaves only w's place to be looked at.
LEMMA OthersElsewhere ==
  ASSUME NodeTyped', Waited', Alone, NEW w \in Workers, UnderWay(w),
         \A v \in Workers : v # w => pc'[v] = pc[v],
         late' = 0 /\ quit' # "lost" => Here(w)'
  PROVE  AllHere'
<1>1. ASSUME NEW v \in Workers, v # w PROVE Here(v)'
  <2>1. pc'[v] \in {"unborn", "done", "dead"}
    BY <1>1 DEF Alone, UnderWay
  <2>2. waiting'[v] = 0
    BY <2>1 DEF Waited, Asking
  <2> QED BY <2>1, <2>2 DEF Here, Between, Heads
<1> QED BY <1>1 DEF AllHere

\* A step that changes nothing but flags, and sets should_stop at most
LEMMA HereKept ==
  ASSUME AllHere, UNCHANGED <<pc, waiting, leg, reversed, sine, at, call, late>>,
         shouldStop => shouldStop', quit = "lost" => quit' = "lost", quit # "not" => quit' # "not",
         UNCHANGED <<motion, completed>>,
         \A w \in Workers : waiting[w] # 0 =>
           /\ op'[<<w, waiting[w]>>] = op[<<w, waiting[w]>>]
           /\ stage'[<<w, waiting[w]>>] = stage[<<w, waiting[w]>>]
           /\ okay'[<<w, waiting[w]>>] = okay[<<w, waiting[w]>>]
  PROVE  AllHere'
<1> SUFFICES ASSUME late' = 0, quit' # "lost", NEW w \in Workers PROVE Here(w)'
  BY DEF AllHere
<1>1. Here(w)
  BY DEF AllHere
<1>2. Between(w)'
  BY <1>1 DEF Here, Between, Heads, Waypoint
<1>3. ASSUME waiting[w] # 0 PROVE Carried(w, <<w, waiting[w]>>)'
  BY <1>1, <1>3 DEF Here, Carried, Waypoint
<1> QED BY <1>2, <1>3 DEF Here

\* The statements of a run between two calls
LEMMA HereLocally ==
  ASSUME NodeTyped, Waited, NEW w \in Workers, Here(w), UNCHANGED <<at, sine>>,
         Begin(w) \/ Check(w) \/ While(w) \/ LegCheck(w) \/ Flip(w) \/ End(w) \/ CallRaises(w)
  PROVE  Here(w)'
<1>1. waiting[w] = 0 /\ waiting' = waiting
  BY DEF Begin, Check, While, LegCheck, Flip, End, CallRaises, Waited, Asking
<1>2. Between(w)
  BY DEF Here
<1>3. CASE \/ pc'[w] \in {"reset", "home", "pre", "start", "end", "done", "dead", "stopping", "homing"}
  BY <1>1, <1>3 DEF Here, Between, Heads
<1>4. CASE While(w) /\ ctxOk /\ ~ shouldStop
  <2>1. /\ pc[w] = "while" /\ UNCHANGED <<shouldStop, reversed>> /\ leg'[w] = 1
        /\ pc'[w] = (IF sine THEN "legCheck" ELSE "spline")
    BY <1>4 DEF While, GoTo, NodeTyped
  <2>2. at = Waypoint(w, 1)
    BY <1>2, <1>4, <2>1 DEF Between
  <2> QED BY <1>1, <2>1, <2>2 DEF Here, Between, Heads, Waypoint
<1>5. CASE LegCheck(w)
  <2>1. /\ pc[w] = "legCheck" /\ UNCHANGED <<shouldStop, reversed, leg>>
        /\ pc'[w] = (IF shouldStop THEN "flip" ELSE "leg")
    BY <1>5 DEF LegCheck, GoTo, NodeTyped
  <2> QED BY <1>1, <1>2, <2>1 DEF Here, Between, Heads, Waypoint
<1>6. CASE Flip(w)
  <2>1. /\ pc[w] = "flip" /\ UNCHANGED <<shouldStop, leg>> /\ pc'[w] = "while"
        /\ reversed'[w] = ~ reversed[w]
    BY <1>6 DEF Flip, GoTo, NodeTyped
  <2>2. at = Waypoint(w, N) \/ shouldStop
    BY <1>2, <2>1 DEF Between
  <2>3. Waypoint(w, 1)' = Waypoint(w, N)
    <3>1. N = 2 /\ N + 1 - 1 = N /\ N + 1 - N = 1
      BY Path
    <3>2. CASE reversed[w]
      <4>1. ~ reversed'[w]
        BY <2>1, <3>2
      <4> QED BY <3>1, <3>2, <4>1 DEF Waypoint
    <3>3. CASE ~ reversed[w]
      <4>1. reversed'[w]
        BY <2>1, <3>3
      <4> QED BY <3>1, <3>3, <4>1 DEF Waypoint
    <3> QED BY <3>2, <3>3
  <2> QED BY <1>1, <2>1, <2>2, <2>3 DEF Here, Between, Heads
<1>7. \/ pc'[w] \in {"reset", "home", "pre", "start", "end", "done", "dead", "stopping", "homing"}
      \/ (While(w) /\ ctxOk /\ ~ shouldStop) \/ LegCheck(w) \/ Flip(w)
  BY DEF Begin, Check, While, End, CallRaises, GoTo, NodeTyped
<1> QED BY <1>3, <1>4, <1>5, <1>6, <1>7

\* A run asks: what it counts on is so.
LEMMA HereWhenAsking ==
  ASSUME NodeTyped, NEW w \in Workers, Here(w), Call(w), P!IInv, late = 0, UNCHANGED <<at, sine>>
  PROVE  Here(w)'
<1>0. P!TypeOK
  BY DEF P!IInv
<1>1. PICK o \in {"move", "blend", "stop"}, from \in Places \cup {"any"}, to \in Places \cup {"any"} :
        /\ Ask(w, o, from, to)
        /\ pc[w] \in {"start", "spline", "leg"} => o \in Server!SyncMoves
        /\ pc[w] = "start" => from = "any" /\ to = Waypoint(w, 1)
        /\ pc[w] = "spline" => from = Waypoint(w, 1) /\ to = Waypoint(w, N)
        /\ pc[w] = "leg" => to = Waypoint(w, leg[w])
        /\ from # "any" /\ pc[w] # "spline" =>
             pc[w] = "leg" /\ sine /\ leg[w] = 1 /\ from = Waypoint(w, 1)
  BY CallStep
<1>2. PICK k \in Slots : Sends(w, k, o, from, to)
  BY <1>1, AskStep
<1>3. waiting[w] = 0 /\ pc[w] \in Asking /\ UNCHANGED <<shouldStop, pc, leg, reversed, sine, at>>
  BY CallStep
<1>4. <<w, k>> \in WorkRequests /\ <<w, k>> \in Requests /\ k # 0
  BY Names
<1>5. /\ waiting'[w] = k /\ stage'[<<w, k>>] = "queued" /\ op'[<<w, k>>] = o
      /\ call'[<<w, k>>] = [from |-> from, to |-> to]
  BY <1>0, <1>2, <1>4 DEF Sends, NodeTyped, P!TypeOK
<1>6. from \in {"any", at}
  BY <1>1, <1>3 DEF Here, Between, Heads
<1>7. Between(w)'
  BY <1>3, <1>4, <1>5 DEF Here, Between, Asking
<1>8. Carried(w, <<w, k>>)'
  BY <1>1, <1>3, <1>5, <1>6 DEF Carried, Waypoint
<1> QED BY <1>5, <1>7, <1>8 DEF Here

\* The answer arrives.
LEMMA HereAfterCall ==
  ASSUME NodeTyped, Waited, quit # "not" => shouldStop, NEW w \in Workers, Here(w), waiting[w] # 0,
         NEW r, r = <<w, waiting[w]>>, stage[r] = "answered", okay[r] \in BOOLEAN,
         HandleResult(w, okay[r]), UNCHANGED <<at, sine>>
  PROVE  Here(w)'
<1>1. pc[w] \in Asking /\ Carried(w, r)
  BY DEF Waited, Here
<1>2. /\ pc'[w] = AfterCall(w, okay[r]) /\ waiting'[w] = 0 /\ UNCHANGED <<shouldStop, reversed>>
      /\ leg'[w] = IF pc[w] = "leg" /\ leg[w] < N THEN leg[w] + 1 ELSE leg[w]
  BY DEF HandleResult, GoTo, NodeTyped
<1>3. /\ okay[r] /\ pc[w] = "start" => at = Waypoint(w, 1) \/ shouldStop
      /\ okay[r] /\ pc[w] = "spline" => at = Waypoint(w, N) \/ shouldStop
      /\ okay[r] /\ pc[w] = "leg" => at = Waypoint(w, leg[w]) \/ shouldStop
  BY <1>1 DEF Carried
<1>4. leg[w] \in 1..N /\ N = 2 /\ (sine => pc[w] # "spline") /\ sine \in BOOLEAN
  BY Path DEF NodeTyped, Here, Between
<1>5. /\ pc'[w] = "while" => pc[w] = "start" /\ okay[r]
      /\ pc'[w] = "flip" => okay[r] /\ (pc[w] = "spline" \/ (pc[w] = "leg" /\ leg[w] = N))
      /\ pc'[w] # "spline" /\ pc'[w] # "leg"
      /\ pc'[w] = "legCheck" => pc[w] = "spline" \/ (pc[w] = "leg" /\ leg[w] # N)
  BY <1>1, <1>2, <1>4, AfterCallTable DEF Asking
<1>6. \A j \in 1..N : Waypoint(w, j)' = Waypoint(w, j)
  BY <1>2 DEF Waypoint
<1>7. pc'[w] = "while" => at' = Waypoint(w, 1)' \/ shouldStop'
  BY <1>2, <1>3, <1>4, <1>5, <1>6
<1>8. pc'[w] = "flip" => at' = Waypoint(w, N)' \/ shouldStop'
  BY <1>2, <1>3, <1>4, <1>5, <1>6
<1>9. ~ Heads(w)'
  BY <1>2, <1>4, <1>5 DEF Heads
<1> QED BY <1>2, <1>5, <1>7, <1>8, <1>9 DEF Here, Between

\* Until a call has timed out, the worker a request belongs to waits for it.
LEMMA Awaited ==
  ASSUME IInv, late = 0, NEW r \in WorkRequests, stage[r] # "unsent"
  PROVE  \E w \in Workers : waiting[w] # 0 /\ r = <<w, waiting[w]>> /\ UnderWay(w)
<1>1. PICK w \in Workers, k \in Slots : r = <<w, k>>
  BY Names
<1>2. waiting[w] = k /\ k # 0
  BY <1>1, Names DEF IInv, Pending
<1> QED BY <1>1, <1>2 DEF IInv, Waited, UnderWay, Asking

\* The server and the robot
LEMMA HereServed ==
  ASSUME IInv, IInv', Alone, P!Finished, AllHere, ServerStep
  PROVE  AllHere'
<1> SUFFICES ASSUME late = 0, quit # "lost" PROVE AllHere'
  BY ServerKeeps DEF AllHere, IInv
<1>0. /\ UNCHANGED <<workVars, shouldStop, quit, hostVars, late>>
      /\ P!ServerNext /\ NodeTyped /\ Waited /\ P!IInv /\ P!TypeOK /\ Ops
      /\ NodeTyped' /\ Waited'
      /\ at' = IF motion' = motion \/ Settles THEN at
               ELSE IF completed' # completed THEN call[motion].to ELSE "unknown"
  BY ServerKeeps, SameServer DEF ServerStep, IInv, P!IInv
<1>1. op' = op /\ (\/ P!Idles \/ (\E i \in Requests : P!Starts(i)) \/ (\E i \in Requests : P!Stops(i))
                  \/ P!Complete \/ P!Approach)
  BY <1>0, P!RobotSteps, RobotAssumption
<1>2. UNCHANGED <<pc, waiting, leg, reversed, call, sine>>
  BY <1>0 DEF workVars, hostVars
<1>3. \A w \in Workers : Here(w) /\ (waiting[w] # 0 => <<w, waiting[w]>> \in Requests)
  BY <1>0, Names DEF AllHere, NodeTyped
\* The robot goes on with what it does, keeps still, or comes to rest after a
\* blended motion.
<1>12. P!SyncMoves = Server!SyncMoves
  BY DEF P!SyncMoves, Server!SyncMoves
<1>13. ASSUME completed' = completed, at' = at,
             \A r \in Requests : motion' = r <=> motion = r,
             \A r \in Requests : stage'[r] \in {"queued", "taken"} => stage[r] \in {"queued", "taken"},
             \A r \in Requests : op[r] \in P!SyncMoves /\ stage'[r] = "blocked" => stage[r] = "blocked",
             \A r \in Requests : op[r] \in P!SyncMoves /\ stage'[r] = "answered" /\ okay'[r] =>
                 (stage[r] = "answered" /\ okay[r]) \/ (stage[r] = "blocked" /\ motion # r)
      PROVE  AllHere'
  <2>2. ASSUME NEW w \in Workers PROVE Here(w)'
    <3>1. Between(w)'
      BY <1>0, <1>2, <1>3, <1>13 DEF Here, Between, Heads, Waypoint
    <3>2. ASSUME waiting[w] # 0, NEW r, r = <<w, waiting[w]>> PROVE Carried(w, r)'
      <4>1. r \in Requests /\ Carried(w, r)
        BY <1>3, <3>2 DEF Here
      <4>2. /\ stage'[r] \in {"queued", "taken"} => stage[r] \in {"queued", "taken"}
            /\ op[r] \in Server!SyncMoves /\ stage'[r] = "blocked" => stage[r] = "blocked"
            /\ op[r] \in Server!SyncMoves /\ stage'[r] = "answered" /\ okay'[r] =>
                 (stage[r] = "answered" /\ okay[r]) \/ (stage[r] = "blocked" /\ motion # r)
            /\ motion' = r <=> motion = r
        BY <1>12, <1>13, <4>1
      <4> QED BY <1>0, <1>1, <1>2, <1>13, <4>1, <4>2 DEF Carried, Waypoint
    <3> QED BY <1>2, <3>1, <3>2 DEF Here
  <2> QED BY <2>2 DEF AllHere
<1>4. CASE P!Idles
  BY <1>0, <1>4, <1>13 DEF P!Idles
<1>14. CASE motion = Blending /\ (P!Complete \/ \E i \in Requests : P!Stops(i))
  <2>1. completed' = completed /\ motion' = NoMotion /\ at' = at
    BY <1>0, <1>14 DEF P!Complete, P!Stops, Settles
  <2>2. \A r \in Requests : motion' # r /\ motion # r
    BY <1>14, <2>1, RobotAssumption
  <2>3. CASE P!Complete
    BY <1>13, <2>1, <2>2, <2>3 DEF P!Complete
  <2>4. ASSUME NEW i \in Requests, P!Stops(i) PROVE AllHere'
    <3>1. /\ stage' = [stage EXCEPT ![i] = "answered"] /\ op[i] \notin P!SyncMoves
          /\ \A r \in Requests \ {i} : okay'[r] = okay[r]
      BY <2>4 DEF P!Stops, P!SyncMoves
    <3> QED BY <1>0, <1>13, <2>1, <2>2, <3>1 DEF P!TypeOK
  <2> QED BY <1>14, <2>3, <2>4
\* Otherwise it is about the request of the run that is under way.
<1>5. ASSUME NEW r \in WorkRequests, stage[r] # "unsent", op[r] \in Server!SyncMoves,
             NEW w \in Workers, waiting[w] # 0, r = <<w, waiting[w]>>, UnderWay(w),
             Between(w)', Carried(w, r)'
      PROVE  AllHere'
  BY <1>0, <1>2, <1>5, OthersElsewhere DEF Here
<1>6. ASSUME NEW w \in Workers, waiting[w] # 0 PROVE Between(w)'
  <2>1. pc[w] \in Asking /\ Between(w)
    BY <1>0, <1>3, <1>6 DEF Waited, Here
  <2> QED BY <1>2, <1>6, <2>1 DEF Between, Asking
<1>7. ASSUME NEW w \in Workers, NEW r, waiting[w] # 0, r = <<w, waiting[w]>>
      PROVE  /\ pc[w] \in {"start", "spline", "leg"} => op[r] \in Server!SyncMoves
             /\ pc[w] = "start" => call[r].to = Waypoint(w, 1)
             /\ pc[w] = "spline" => call[r].to = Waypoint(w, N)
             /\ pc[w] = "leg" => call[r].to = Waypoint(w, leg[w])
             /\ Waypoint(w, 1)' = Waypoint(w, 1) /\ Waypoint(w, N)' = Waypoint(w, N)
             /\ Waypoint(w, leg[w])' = Waypoint(w, leg[w])
  BY <1>2, <1>3, <1>7 DEF Here, Carried, Waypoint
<1>8. ASSUME NEW r \in Requests, P!Starts(r) PROVE AllHere'
  <2>1. op[r] \in Server!SyncMoves /\ r \in WorkRequests /\ stage[r] # "unsent"
    <3>1. op[r] \in Server!SyncMoves /\ stage[r] # "unsent"
      BY <1>0, <1>8, <1>12 DEF P!Starts, Ops
    <3> QED BY <1>0, <3>1, Names DEF Ops, Server!SyncMoves
  <2>2. PICK w \in Workers : waiting[w] # 0 /\ r = <<w, waiting[w]>> /\ UnderWay(w)
    BY <2>1, Awaited
  <2>3. motion' = r /\ stage'[r] = "blocked"
    BY <1>0, <1>8, <1>12, <2>1 DEF P!Starts, P!TypeOK
  <2>4. Carried(w, r)'
    BY <1>1, <1>2, <1>7, <2>2, <2>3 DEF Carried
  <2> QED BY <1>5, <1>6, <2>1, <2>2, <2>4
<1>9. ASSUME motion \notin {NoMotion, Blending}
      PROVE  \E r \in WorkRequests : \E w \in Workers :
               /\ r = motion /\ op[r] \in Server!SyncMoves /\ stage[r] = "blocked"
               /\ waiting[w] # 0 /\ r = <<w, waiting[w]>> /\ UnderWay(w)
  <2>1. motion \in WorkRequests /\ op[motion] \in Server!SyncMoves /\ stage[motion] = "blocked"
    BY <1>0, <1>9, MotionIsWork
  <2> QED BY <2>1, Awaited
\* Only the keyboard's stop can end it, because the run waits for its motion.
<1>10. ASSUME NEW i \in Requests, P!Stops(i), motion # Blending PROVE AllHere'
  <2>1. motion \notin {NoMotion, Blending} /\ op[i] = "stop" /\ stage[i] = "taken"
    BY <1>10 DEF P!Stops
  <2>2. PICK r \in WorkRequests, w \in Workers :
          /\ r = motion /\ op[r] \in Server!SyncMoves /\ stage[r] = "blocked"
          /\ waiting[w] # 0 /\ r = <<w, waiting[w]>> /\ UnderWay(w)
    BY <1>9, <2>1
  <2>3. i = StopRequest
    <3>1. ASSUME i \in WorkRequests PROVE FALSE
      <4>1. PICK v \in Workers : waiting[v] # 0 /\ i = <<v, waiting[v]>> /\ UnderWay(v)
        BY <2>1, <3>1, Awaited
      <4> QED BY <2>1, <2>2, <4>1 DEF Alone, Server!SyncMoves
    <3> QED BY <3>1, Names
  <2>4. quit # "not"
    BY <2>1, <2>3 DEF IInv, Quits
  <2>5. stage'[r] = "blocked"
    BY <1>0, <1>10, <2>1, <2>2, Names DEF P!Stops, P!TypeOK, Server!SyncMoves
  <2>6. Carried(w, r)'
    BY <1>0, <1>1, <1>2, <1>7, <2>2, <2>4, <2>5 DEF Carried
  <2> QED BY <1>5, <1>6, <2>2, <2>6
\* It is where the motion led.
<1>11. CASE (P!Complete /\ motion # Blending) \/ P!Approach
  <2>1. /\ motion \notin {NoMotion, Blending} /\ motion' \in {NoMotion, Blending} /\ motion' # motion
        /\ stage' = stage /\ completed' = completed \cup {motion}
    BY <1>11, RobotAssumption DEF P!Complete, P!Approach
  <2>2. PICK r \in WorkRequests, w \in Workers :
          /\ r = motion /\ op[r] \in Server!SyncMoves /\ stage[r] = "blocked"
          /\ waiting[w] # 0 /\ r = <<w, waiting[w]>> /\ UnderWay(w)
    BY <1>9, <2>1
  <2>3. at' = call[r].to
    BY <1>0, <2>1, <2>2 DEF P!Finished, Settles
  <2>4. Carried(w, r)'
    BY <1>1, <1>2, <1>7, <2>1, <2>2, <2>3 DEF Carried
  <2> QED BY <1>5, <1>6, <2>2, <2>4
<1> QED BY <1>1, <1>4, <1>8, <1>10, <1>11, <1>14

LEMMA HereStep ==
  ASSUME IInv, IInv', Alone, Alone', P!Finished, AllHere, [Next]_vars
  PROVE  AllHere'
<1> SUFFICES ASSUME late' = 0, quit' # "lost" PROVE AllHere'
  BY DEF AllHere
<1>0. /\ NodeTyped /\ Waited /\ P!IInv /\ P!TypeOK /\ Slots \subseteq Nat /\ late \in Nat
      /\ NodeTyped' /\ Waited'
      /\ quit # "not" /\ quit # "lost" => shouldStop
      /\ quit = "not" => kb # "callStop" /\ stage[StopRequest] = "unsent"
      /\ quit # "not" => kb \notin {"testing", "reading"}
  BY Names DEF IInv, P!IInv, Quits, NodeTyped
<1>1. ASSUME NEW w \in Workers, UnderWay(w), \A v \in Workers : v # w => pc'[v] = pc[v],
             late = 0 /\ quit # "lost" => Here(w)', late = 0, quit # "lost"
      PROVE  AllHere'
  BY <1>0, <1>1, OthersElsewhere
<1>2. ASSUME NEW w \in Workers, late = 0, quit # "lost" PROVE Here(w)
  BY <1>2 DEF AllHere
<1>3. ASSUME NEW w \in Workers, UNCHANGED <<hostVars, late, at>>,
             \/ Begin(w) \/ Check(w) \/ While(w) \/ LegCheck(w) \/ Flip(w) \/ End(w) \/ CallRaises(w)
      PROVE  AllHere'
  <2>1. late = 0 /\ quit # "lost" /\ UNCHANGED <<at, sine>>
    BY <1>3 DEF Begin, Check, While, LegCheck, Flip, End, CallRaises, hostVars
  <2>2. UnderWay(w) /\ \A v \in Workers : v # w => pc'[v] = pc[v]
    BY <1>0, <1>3 DEF Begin, Check, While, LegCheck, Flip, End, CallRaises, GoTo, UnderWay, NodeTyped
  <2>3. Here(w)'
    BY <1>0, <1>2, <1>3, <2>1, HereLocally
  <2> QED BY <1>1, <2>1, <2>2, <2>3
<1>4. ASSUME NEW w \in Workers, Call(w), UNCHANGED <<hostVars, late, at>> PROVE AllHere'
  <2>1. UNCHANGED <<pc, quit, sine>> /\ pc[w] \in Asking
    BY <1>0, <1>4, CallStep DEF hostVars
  <2>2. late = 0 /\ quit # "lost"
    BY <1>4, <2>1
  <2>3. Here(w)'
    BY <1>0, <1>2, <1>4, <2>1, <2>2, HereWhenAsking
  <2> QED BY <1>1, <2>1, <2>2, <2>3 DEF UnderWay, Asking
<1>5. ASSUME NEW w \in Workers, Return(w), UNCHANGED hostVars PROVE AllHere'
  <2>1. PICK r : r = <<w, waiting[w]>>
    OBVIOUS
  <2>2. late' # late + 1
    BY <1>0
  <2>3. HandleResult(w, okay[r]) /\ Collect(r) /\ UNCHANGED <<late, at>> /\ waiting[w] # 0
    <3>1. CASE HandleResult(w, okay[r]) /\ Collect(r) /\ UNCHANGED <<late, at>>
      BY <1>5, <3>1 DEF Return
    <3>2. CASE late' = late + 1
      BY <2>2, <3>2
    <3> QED BY <1>5, <2>1, <3>1, <3>2 DEF Return
  <2>4. r \in Requests /\ stage[r] = "answered" /\ okay[r] \in BOOLEAN
    BY <1>0, <2>1, <2>3, Names DEF Collect, NodeTyped, P!TypeOK
  <2>5. UNCHANGED <<quit, sine>>
    BY <1>5, <2>3 DEF HandleResult, hostVars
  <2>6. late = 0 /\ quit # "lost" /\ Here(w)
    BY <1>2, <2>3, <2>5
  <2>7. Here(w)'
    BY <1>0, <2>1, <2>3, <2>4, <2>5, <2>6, HereAfterCall
  <2>8. UnderWay(w)
    BY <1>0, <2>3 DEF Waited, UnderWay, Asking
  <2>9. \A v \in Workers : v # w => pc'[v] = pc[v]
    BY <1>0, <2>3 DEF HandleResult, GoTo, NodeTyped
  <2> QED BY <1>1, <2>6, <2>7, <2>8, <2>9
\* Nothing is left for Discard to take.
<1>6. ASSUME NEW w \in Workers, Discard(w) PROVE FALSE
  <2>1. PICK k \in Slots \ {waiting[w]} : Collect(<<w, k>>)
    BY <1>6 DEF Discard
  <2>2. late = 0
    BY <1>6 DEF Discard
  <2>3. stage[<<w, k>>] # "unsent"
    BY <2>1 DEF Collect
  <2> QED BY <2>1, <2>2, <2>3 DEF IInv, Pending
<1>7. ASSUME NEW w \in Workers, PressSpace(w) PROVE AllHere'
  <2>1. pc'[w] = "begin" /\ \A v \in Workers : v # w => pc'[v] = pc[v]
    BY <1>0, <1>7 DEF PressSpace, GoTo, NodeTyped
  <2>2. ASSUME NEW v \in Workers PROVE Here(v)'
    <3>1. pc'[v] \in {"unborn", "begin", "done", "dead"}
      <4>1. UnderWay(w)'
        BY <2>1 DEF UnderWay
      <4>2. CASE v = w
        BY <2>1, <4>2
      <4>3. CASE v # w
        <5>1. ~ UnderWay(v)'
          BY <4>1, <4>3 DEF Alone
        <5> QED BY <5>1 DEF UnderWay
      <4> QED BY <4>2, <4>3
    <3>2. waiting'[v] = 0
      BY <1>0, <3>1 DEF Waited, Asking
    <3> QED BY <3>1, <3>2 DEF Here, Between, Heads
  <2> QED BY <2>2 DEF AllHere
<1>8. ASSUME UNCHANGED <<workVars, sine, late, at, motion, completed>>, shouldStop => shouldStop',
             quit = "lost" => quit' = "lost", quit # "not" => quit' # "not",
             \A r \in WorkRequests : op'[r] = op[r] /\ stage'[r] = stage[r] /\ okay'[r] = okay[r]
      PROVE  AllHere'
  <2>1. UNCHANGED <<pc, waiting, leg, reversed, call>>
    BY <1>8 DEF workVars
  <2>2. \A w \in Workers : waiting[w] # 0 => <<w, waiting[w]>> \in WorkRequests
    BY <1>0, Names DEF NodeTyped
  <2> QED BY <1>8, <2>1, <2>2, HereKept
<1>9. CASE PressQ
  <2>1. /\ UNCHANGED <<serverVars, workVars, sine, late, at>>
        /\ shouldStop' = TRUE /\ quit' = "seen" /\ quit = "not"
    BY <1>0, <1>9 DEF PressQ
  <2> QED BY <1>8, <2>1 DEF serverVars
<1>10. CASE KbCallStop
  <2>1. UNCHANGED <<workVars, shouldStop, quit, sine, late, at>> /\ Server!Send(StopRequest, "stop")
    BY <1>10 DEF KbCallStop
  <2>2. /\ op' = [op EXCEPT ![StopRequest] = "stop"] /\ stage' = [stage EXCEPT ![StopRequest] = "queued"]
        /\ UNCHANGED <<okay, motion, completed>>
    BY <1>0, <2>1, SendStep, Names
  <2>3. \A r \in WorkRequests : op'[r] = op[r] /\ stage'[r] = stage[r] /\ okay'[r] = okay[r]
    BY <1>0, <2>2, Names DEF P!TypeOK
  <2> QED BY <1>8, <2>1, <2>2, <2>3
<1>11. CASE KbTest \/ PressOther \/ KeyboardLeaves \/ Interrupt \/ MainLeaves \/ UNCHANGED vars
  <2>1. /\ UNCHANGED <<serverVars, workVars, sine, late, at, quit>> /\ (shouldStop => shouldStop')
    BY <1>11 DEF KbTest, PressOther, KeyboardLeaves, Interrupt, MainLeaves, vars, hostVars
  <2> QED BY <1>8, <2>1 DEF serverVars
<1>12. CASE ServerStep
  BY <1>12, HereServed
<1> QED BY <1>3, <1>4, <1>5, <1>6, <1>7, <1>9, <1>10, <1>11, <1>12 DEF Next, Worker, Keyboard

\* What was carried out to its end is over, whatever the node does.
LEMMA FinishedStep ==
  ASSUME IInv, P!Finished, [Next]_vars
  PROVE  P!Finished'
<1>0. P!TypeOK /\ NodeTyped
  BY DEF IInv, P!IInv
<1>1. ASSUME NEW r \in Requests, stage[r] = "unsent", stage' = [stage EXCEPT ![r] = "queued"],
             UNCHANGED <<motion, completed>>
      PROVE  P!Finished'
  BY <1>0, <1>1 DEF P!TypeOK, P!Finished
<1>2. CASE UNCHANGED <<serverVars, call, waiting, pc, late>>
  BY <1>2 DEF serverVars, P!Finished
<1>3. CASE UNCHANGED <<call, waiting, pc, late>> /\ Server!Send(StopRequest, "stop")
  BY <1>1, <1>3, SendStep, Names DEF IInv
<1>4. CASE ServerStep
  BY <1>4, SameServer, P!FinishedStep, RobotAssumption DEF ServerStep, IInv
<1>5. ASSUME NEW r, Collect(r) PROVE P!Finished'
  BY <1>0, <1>5 DEF Collect, P!TypeOK, P!Finished
<1>6. ASSUME NEW w \in Workers, NEW l \in Labels, Moves(w, l) \/ Gets(w, l) \/ Misses(w, l)
      PROVE  P!Finished'
  BY <1>5, <1>6 DEF Moves, Gets, Misses, serverVars, P!Finished
<1>7. ASSUME NEW w \in Workers, Call(w) PROVE P!Finished'
  <2>1. PICK o \in {"move", "blend", "stop"}, from \in Places \cup {"any"}, to \in Places \cup {"any"} :
          Ask(w, o, from, to)
    BY <1>0, <1>7, CallStep
  <2>2. PICK k \in Slots : Sends(w, k, o, from, to)
    BY <2>1, AskStep DEF IInv
  <2> QED BY <1>1, <2>2, Names DEF Sends
<1>8. ASSUME NEW w \in Workers, Discard(w) PROVE P!Finished'
  BY <1>5, <1>8 DEF Discard
<1> QED BY <1>2, <1>3, <1>4, <1>6, <1>7, <1>8, StepKinds

\* A motion starts where its request counts on the robot.
LEMMA StartsHere ==
  ASSUME IInv, AllHere, Alone, [Next]_vars,
         motion' # motion, motion' \notin {NoMotion, Blending}, quit # "lost", late = 0
  PROVE  call[motion'].from \in {"any", at}
<1>0. P!IInv /\ Ops
  BY DEF IInv
<1>1. CASE ServerStep
  <2>1. \/ P!Idles \/ (\E i \in Requests : P!Starts(i)) \/ (\E i \in Requests : P!Stops(i))
        \/ P!Complete \/ P!Approach
    BY <1>0, <1>1, SameServer, P!RobotSteps, RobotAssumption DEF ServerStep
  <2>2. PICK r \in Requests : P!Starts(r)
    BY <2>1 DEF P!Idles, P!Stops, P!Complete, P!Approach
  <2>3. motion' = r /\ stage[r] = "taken" /\ r \in WorkRequests
    <3>1. motion' = r /\ stage[r] = "taken" /\ op[r] # "stop"
      BY <2>2 DEF P!Starts, P!SyncMoves
    <3> QED BY <1>0, <2>2, <3>1, Names DEF P!Starts, P!SyncMoves, Ops
  <2>4. PICK w \in Workers : waiting[w] # 0 /\ r = <<w, waiting[w]>>
    BY <2>3, Awaited
  <2>5. Carried(w, r)
    BY <2>4 DEF AllHere, Here
  <2> QED BY <2>3, <2>5 DEF Carried
<1>2. \/ UNCHANGED <<serverVars, call, waiting, pc, late>>
      \/ Server!Send(StopRequest, "stop")
      \/ \E w \in Workers : \E l \in Labels : Moves(w, l) \/ Gets(w, l) \/ Misses(w, l)
      \/ \E w \in Workers : Call(w) \/ Discard(w)
      \/ ServerStep
  BY StepKinds
<1>3. ASSUME ~ ServerStep PROVE motion' = motion
  BY <1>2, <1>3 DEF serverVars, Server!Send, Moves, Gets, Misses, Collect, Call, Ask, Discard
<1> QED BY <1>1, <1>3

\* When one run is under way at a time, every pass starts where the robot is:
\* until a call times out, no run, fallback, failure or stop makes the robot
\* cross over to the other end of the path.
THEOREM PassesStartHere == Spec /\ []Alone => PassStartsHere
<1> DEFINE Starts == motion' # motion /\ motion' \notin {NoMotion, Blending} /\ quit # "lost" /\ late = 0
                       => call[motion'].from \in {"any", at}
<1>1. Init => P!Finished /\ AllHere
  BY DEF Init, Server!ServerInit, P!Finished, AllHere, Here, Between, Heads
<1>2. IInv /\ P!Finished /\ [Next]_vars => P!Finished'
  BY FinishedStep
<1>3. IInv /\ IInv' /\ Alone /\ Alone' /\ P!Finished /\ AllHere /\ [Next]_vars => AllHere'
  BY HereStep
<1>4. IInv /\ AllHere /\ Alone /\ [Next]_vars => Starts
  BY StartsHere
<1>5. Spec => []P!Finished
  BY <1>1, <1>2, Invariance, PTL DEF Spec
<1>6. Spec /\ []Alone => []AllHere
  BY <1>1, <1>3, <1>5, Invariance, PTL DEF Spec
<1> QED BY <1>4, <1>6, Invariance, PTL DEF Spec, PassStartsHere

\* So it is with one worker, the instance that is model-checked.
COROLLARY OneWorkerPasses ==
  ASSUME \A v, w \in Workers : v = w
  PROVE  Spec => PassStartsHere
<1>1. Alone
  BY DEF Alone
<1> QED BY <1>1, PassesStartHere, PTL

=============================================================================
