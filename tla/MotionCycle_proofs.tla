-------------------------- MODULE MotionCycle_proofs --------------------------
(***************************************************************************)
(* Proofs about MotionCycle, for any number of worker threads, any length  *)
(* of the script, of the approach and of the path.  What is known of the   *)
(* server comes from MotionServer_proofs.                                  *)
(***************************************************************************)
EXTENDS MotionCycle, TLAPS

\* The proofs of MotionServer, for the requests of the node
P == INSTANCE MotionServer_proofs WITH Ids <- Requests

NodeTyped ==
  /\ program \in {"cycle", "trigger"}
  /\ isRunning \in BOOLEAN /\ shouldStop \in BOOLEAN /\ ctxOk \in BOOLEAN
  /\ pc \in [Workers -> {"unborn", "guard", "mark", "reset", "call", "await",
                         "check", "callStop", "awaitStop", "finally", "done"}]
  /\ step \in [Workers -> 0..Length]
  /\ kb \in {"testing", "reading", "callStop", "awaitStop", "shutdown", "gone"}
  /\ main \in {"spinning", "leaving", "exited"}
  /\ quitAt \in [Workers -> 0..Length]
  /\ late \in 0..MaxLate /\ overlap \in BOOLEAN

\* A worker has not yet come to its script.
Early(w) == pc[w] \in {"unborn", "guard", "mark", "reset"}

\* The counter starts with the script and stays in it.
Steps ==
  \A w \in Workers :
    /\ Early(w) => step[w] = 0
    /\ pc[w] \in {"call", "await", "check"} => step[w] # 0
    /\ pc[w] = "check" => step[w] < Length
    /\ pc[w] \in {"callStop", "awaitStop"} => program = "trigger"

\* No motion is asked for before the counter is at it.
Asked ==
  \A w \in Workers : \A k \in 1..Length :
    Sent(w, k) => k <= step[w] /\ (pc[w] = "call" => k < step[w])

\* The last motion whose result the worker has looked at
Reached(w) == IF pc[w] = "check" THEN step[w] ELSE step[w] - 1

\* A worker in its script has seen every motion it checks succeed so far.
Done ==
  \A w \in Workers : pc[w] \in {"call", "await", "check"} =>
    \A j \in Checked : j <= Reached(w) => stage[<<w, j>>] = "answered" /\ okay[<<w, j>>]

\* No cycle that was starting when Q was pressed has gone on to clear the flag.
Heeded == \A v \in Workers : quitAt[v] = 0 => step[v] = 0

\* Once Q is pressed the flag is set, and who is not at its start stays where
\* it was; who is at its start was there when Q was pressed, if it was.
QuitSeen ==
  program = "cycle" =>
    /\ \A w \in Workers : Early(w) /\ quitAt[w] # 0 => \A v \in Workers : quitAt[v] = Length
    /\ Heeded => \A w \in Workers : /\ step[w] <= quitAt[w]
                                    /\ quitAt[w] < Length => shouldStop

\* The trigger's flag covers the whole of a cycle.
OneRuns ==
  program = "trigger" =>
    /\ \A w \in Workers : pc[w] \notin {"guard", "mark", "reset"} /\ (Active(w) => isRunning)
    /\ OneCycleAtATime

\* The node asks for sync motions without a radius and for stops, the keyboard
\* thread for a stop.
Ops ==
  /\ op \in [Requests -> {"none", "move", "stop"}]
  /\ motion # Blending
  /\ op[StopRequest] \in {"none", "stop"}

\* What is on its way to the server is waited for, until a call is given up.
Pending ==
  late = 0 =>
    \A w \in Workers, k \in Nat :
      <<w, k>> \in Requests /\ stage[<<w, k>>] \notin {"unsent", "answered"} =>
        \/ pc[w] = "await" /\ k = step[w]
        \/ pc[w] = "awaitStop" /\ k = Length + 1

\* A flag that is set has a cycle; without an overlap there is one cycle, and a
\* cycle in its script has the flag.
Flag ==
  /\ isRunning => (\E w \in Workers : Active(w)) \/ (program = "trigger" /\ ~ctxOk)
  /\ ~overlap => /\ \A v, w \in Workers : Started(v) /\ Started(w) => v = w
                 /\ \A w \in Workers : Active(w) => isRunning

IInv ==
  /\ P!IInv /\ NodeTyped /\ Steps /\ Asked
  /\ Done /\ InScriptOrder /\ QuitSeen /\ OneRuns /\ Ops /\ Pending
  /\ Flag

-----------------------------------------------------------------------------
(* The server, as MotionCycle and MotionServer_proofs each see it.         *)

LEMMA SameServer ==
  /\ Server!ServerInit = P!ServerInit
  /\ Server!ServerNext = P!ServerNext
  /\ Server!TypeOK = P!TypeOK
<1>1. Server!ServerInit = P!ServerInit
  BY DEF Server!ServerInit, P!ServerInit, Server!NoService, P!NoService
<1>2. Server!ServerNext = P!ServerNext
  BY DEF Server!ServerNext, Server!Take, Server!Callback, Server!Complete, Server!Approach, Server!SyncMoves, Server!StartMove,
    Server!StartAsync, Server!RefuseMove, Server!MoveReturns, Server!StartWait,
    Server!WaitReturns, Server!Pause, Server!Resume, Server!Stop, Server!Answer,
    Server!GroupFree, Server!Running, Server!Group,
    P!ServerNext, P!Take, P!Callback, P!Complete, P!Approach, P!SyncMoves, P!StartMove, P!StartAsync, P!RefuseMove,
    P!MoveReturns, P!StartWait, P!WaitReturns, P!Pause, P!Resume, P!Stop, P!Answer,
    P!GroupFree, P!Running, P!Group
<1>3. Server!TypeOK = P!TypeOK
  BY DEF Server!TypeOK, P!TypeOK, Server!Services, P!Services, Server!Stages, P!Stages,
    Server!NoService, P!NoService
<1> QED BY <1>1, <1>2, <1>3

LEMMA TypeOKParts == TypeOK <=> P!TypeOK /\ NodeTyped
BY SameServer DEF TypeOK, NodeTyped

\* Naturals and requests
LEMMA Bounds ==
  /\ NSteps \in Nat /\ NApproach \in Nat /\ NWaypoints \in Nat
  /\ NodeTyped => Length \in Nat /\ Length # 0
BY NStepsAssumption DEF NodeTyped, Length

LEMMA Names ==
  /\ StopRequest \in Requests
  /\ \A w \in Workers, k \in Nat : <<w, k>> # StopRequest
  /\ NodeTyped => \A w \in Workers : \A k \in 1..Length : <<w, k>> \in Requests
  /\ program = "trigger" => \A w \in Workers : <<w, Length + 1>> \in Requests
  /\ \A r \in Requests : r # StopRequest => \E w \in Workers, k \in Nat : r = <<w, k>>
<1>1. \A w \in Workers, k \in Nat : <<w, k>> # StopRequest
  BY WorkersAssumption DEF StopRequest
<1>2. ASSUME NodeTyped, NEW w \in Workers, NEW k \in 1..Length PROVE <<w, k>> \in Requests
  <2>1. k \in (1..NSteps) \cup (1..NApproach + NWaypoints + 1)
    BY <1>2, NStepsAssumption DEF NodeTyped, Length
  <2> QED BY <2>1 DEF Requests
<1>3. ASSUME program = "trigger", NEW w \in Workers PROVE <<w, Length + 1>> \in Requests
  <2>1. Length + 1 \in (1..NSteps) \cup (1..NApproach + NWaypoints + 1)
    BY <1>3, NStepsAssumption DEF Length
  <2> QED BY <2>1 DEF Requests
<1>4. (1..NSteps) \cup (1..NApproach + NWaypoints + 1) \subseteq Nat
  OBVIOUS
<1>5. \A r \in Requests : r # StopRequest => \E w \in Workers, k \in Nat : r = <<w, k>>
  BY <1>4 DEF Requests
<1> QED BY <1>1, <1>2, <1>3, <1>5 DEF Requests

LEMMA SendStep ==
  ASSUME P!IInv, NEW r \in Requests, NEW o \in {"move", "stop"}, Server!Send(r, o)
  PROVE  /\ P!IInv'
         /\ stage[r] = "unsent" /\ stage' = [stage EXCEPT ![r] = "queued"]
         /\ op' = [op EXCEPT ![r] = o] /\ okay' = okay /\ motion' = motion
<1>1. P!Send(r, o)
  BY DEF Server!Send, P!Send
<1>2. o \in P!Services
  BY DEF P!Services
<1> QED BY <1>1, <1>2, P!SendKeeps, RobotAssumption DEF P!Send

LEMMA ServerKeeps ==
  ASSUME P!IInv, ServerStep
  PROVE  /\ P!IInv' /\ UNCHANGED nodeVars /\ op' = op
         /\ \A r \in Requests : /\ stage'[r] = "unsent" <=> stage[r] = "unsent"
                                /\ stage[r] = "answered" => /\ stage'[r] = "answered"
                                                           /\ okay'[r] = okay[r]
<1>1. P!ServerNext /\ UNCHANGED nodeVars
  BY SameServer DEF ServerStep
<1>2. P!TypeOK
  BY DEF P!IInv
<1>3. P!IInv'
  BY <1>1, P!ServerKeeps, RobotAssumption
<1>4. /\ op' = op
      /\ \A r \in Requests : /\ stage'[r] = "unsent" <=> stage[r] = "unsent"
                             /\ stage[r] = "answered" => /\ stage'[r] = "answered"
                                                        /\ okay'[r] = okay[r]
  BY <1>1, <1>2, P!Served, RobotAssumption, Names
<1> QED BY <1>1, <1>3, <1>4

-----------------------------------------------------------------------------
(* The steps, one part of the invariant at a time.                         *)

\* Types, and the counter.
LEMMA TypeStep ==
  ASSUME NodeTyped, Steps, [Next]_vars
  PROVE  NodeTyped' /\ Steps'
<1>0. Length \in Nat /\ Length >= 1 /\ (UNCHANGED program => Length' = Length)
  BY Bounds DEF Length
<1> USE <1>0 DEF NodeTyped, Steps, Early, GoTo
<1>1. ASSUME NEW w \in Workers, Guard(w) \/ Mark(w) \/ Finally(w), UNCHANGED <<kb, main, ctxOk, quitAt, late, program>>, overlap' \in BOOLEAN
      PROVE  NodeTyped' /\ Steps'
  BY <1>1 DEF Guard, Mark, Finally
<1>2. ASSUME NEW w \in Workers, Reset(w) \/ Check(w), UNCHANGED <<kb, main, ctxOk, quitAt, late, program>>, overlap' \in BOOLEAN
      PROVE  NodeTyped' /\ Steps'
  <2>1. CASE Reset(w)
    <3>1. 1 \in 0..Length
      OBVIOUS
    <3>2. NodeTyped'
      BY <1>2, <2>1, <3>1 DEF Reset
    <3>3. Steps'
      BY <1>2, <2>1 DEF Reset
    <3> QED BY <3>2, <3>3
  <2>2. CASE Check(w)
    <3>1. (step[w] + 1 \in 0..Length /\ step[w] + 1 # 0) \/ shouldStop
      BY <2>2 DEF Check
    <3> QED BY <1>2, <2>2, <3>1 DEF Check
  <2> QED BY <1>2, <2>1, <2>2
<1>3. ASSUME NEW w \in Workers, NEW b, HandleResult(w, b), pc[w] = "await",
             UNCHANGED <<kb, main, ctxOk, quitAt, program>>, overlap' \in BOOLEAN, late' \in 0..MaxLate
      PROVE  NodeTyped' /\ Steps'
  BY <1>3 DEF HandleResult
<1>4. ASSUME NEW w \in Workers, Call(w) \/ CallRaises(w) \/ CallStop(w), UNCHANGED <<kb, main, ctxOk, quitAt, late, program>>, overlap' \in BOOLEAN
      PROVE  NodeTyped' /\ Steps'
  BY <1>4 DEF Call, CallRaises, CallStop
<1>5. ASSUME NEW w \in Workers, StopReturns(w), UNCHANGED <<kb, main, ctxOk, quitAt, program>>, overlap' \in BOOLEAN
      PROVE  NodeTyped' /\ Steps'
  BY <1>5, MaxLateAssumption DEF StopReturns, GivesUp
<1>6. ASSUME GivesUp PROVE late' \in 0..MaxLate
  BY <1>6, MaxLateAssumption DEF GivesUp
<1>7. ASSUME NEW w \in Workers, Worker(w) PROVE NodeTyped' /\ Steps'
  <2>0. overlap' \in BOOLEAN
    BY <1>7 DEF Worker
  <2>1. CASE Reply(w) /\ UNCHANGED late
    BY <1>3, <1>7, <2>0, <2>1 DEF Worker, Reply
  <2>2. CASE Expire(w)
    BY <1>3, <1>6, <1>7, <2>0, <2>2 DEF Worker, Expire
  <2> QED BY <1>1, <1>2, <1>4, <1>5, <1>7, <2>0, <2>1, <2>2 DEF Worker, LocalStep
<1>8. ASSUME NEW w \in Workers, PressSpace(w), UNCHANGED <<program, overlap>> PROVE NodeTyped' /\ Steps'
  <2>1. 1 \in 0..Length
    OBVIOUS
  <2>2. CASE program = "cycle"
    BY <1>8, <2>2 DEF PressSpace, Spawn
  <2>3. CASE program = "trigger"
    <3>1. NodeTyped'
      BY <1>8, <2>1, <2>3 DEF PressSpace, Spawn
    <3>2. Steps'
      BY <1>8, <2>3 DEF PressSpace, Spawn
    <3> QED BY <3>1, <3>2
  <2> QED BY <2>2, <2>3
<1>9. CASE UNCHANGED <<program, overlap>> /\ (PressOther \/ PressQ \/ Interrupt \/ Main \/ KeyboardStep)
  BY <1>9 DEF PressOther, PressQ, Interrupt, Main, MainLeaves, MainExits, KeyboardStep, KbCallStop, KbCallRaises,
    KbStopReturns, KbShutdown, KbTest
<1>10. CASE UNCHANGED nodeVars
  BY <1>10 DEF nodeVars
<1> QED BY <1>7, <1>8, <1>9, <1>10 DEF Next, Keys, KeyboardStep, Interrupt, Main, ServerStep, vars

\* What a step is to the script of the workers: nothing, a step of the server,
\* a motion or a stop asked for, or one worker w going to l with its counter at k.
Goes(w, l, k) ==
  /\ pc' = [pc EXCEPT ![w] = l] /\ step' = [step EXCEPT ![w] = k]
  /\ UNCHANGED <<serverVars, program>>

WorkerGoes(w) ==
  \/ Goes(w, "call", 1) /\ step[w] = 0
  \/ Goes(w, "call", step[w] + 1) /\ pc[w] = "check"
  \/ (Reply(w) \/ Expire(w)) /\ Goes(w, pc'[w], step[w])
  \/ \E l : Goes(w, l, step[w]) /\ l \notin {"call", "await", "check"}

LEMMA ScriptSteps ==
  ASSUME IInv, [Next]_vars
  PROVE  \/ UNCHANGED <<stage, okay, pc, step, program>>
         \/ ServerStep
         \/ UNCHANGED <<pc, step, program>> /\ Server!Send(StopRequest, "stop")
         \/ \E w \in Workers : (Call(w) \/ CallStop(w)) /\ UNCHANGED program
         \/ \E w \in Workers : WorkerGoes(w)
<1> USE DEF IInv, NodeTyped
<1>1. ASSUME NEW w \in Workers, UNCHANGED step PROVE step' = [step EXCEPT ![w] = step[w]]
  BY <1>1
<1>2. ASSUME NEW w \in Workers, NEW l, pc' = [pc EXCEPT ![w] = l] PROVE pc'[w] = l
  BY <1>2
<1>3. ASSUME NEW w \in Workers, UNCHANGED <<program, serverVars>>,
             Guard(w) \/ Mark(w) \/ Finally(w) \/ CallRaises(w) \/ StopReturns(w)
      PROVE  WorkerGoes(w)
  <2>1. \E l : Goes(w, l, step[w]) /\ l \notin {"call", "await", "check"}
    BY <1>1, <1>3 DEF Guard, Mark, Finally, CallRaises, StopReturns, GoTo, Goes
  <2> QED BY <2>1 DEF WorkerGoes
<1>4. ASSUME NEW w \in Workers, UNCHANGED <<program, serverVars>>, Reset(w) PROVE WorkerGoes(w)
  <2>1. Goes(w, "call", 1) /\ step[w] = 0
    BY <1>4 DEF Reset, GoTo, Goes, Steps, Early
  <2> QED BY <2>1 DEF WorkerGoes
<1>5. ASSUME NEW w \in Workers, UNCHANGED <<program, serverVars>>, Check(w) PROVE WorkerGoes(w)
  <2>1. \/ Goes(w, "call", step[w] + 1) /\ pc[w] = "check"
        \/ Goes(w, "finally", step[w])
    BY <1>1, <1>5 DEF Check, GoTo, Goes
  <2> QED BY <2>1 DEF WorkerGoes
<1>6. ASSUME NEW w \in Workers, UNCHANGED <<program, serverVars>>, Reply(w) \/ Expire(w)
      PROVE  WorkerGoes(w)
  <2>1. Goes(w, pc'[w], step[w])
    BY <1>1, <1>2, <1>6 DEF Reply, Expire, HandleResult, GoTo, Goes
  <2> QED BY <1>6, <2>1 DEF WorkerGoes
<1>7. ASSUME NEW w \in Workers, UNCHANGED program, PressSpace(w) PROVE WorkerGoes(w)
  <2>1. \/ Goes(w, "call", 1) /\ step[w] = 0
        \/ Goes(w, "guard", step[w])
    BY <1>1, <1>7 DEF PressSpace, Spawn, GoTo, Goes, Steps, Early
  <2> QED BY <2>1 DEF WorkerGoes
<1>8. CASE UNCHANGED program /\ (\/ PressOther \/ PressQ \/ KbCallRaises \/ KbStopReturns \/ KbShutdown \/ KbTest
                                \/ Interrupt \/ Main)
  BY <1>8 DEF PressOther, PressQ, KbCallRaises, KbStopReturns, KbShutdown, KbTest, Interrupt, Main,
    MainLeaves, MainExits, serverVars
<1>9. ASSUME NEW w \in Workers, Worker(w)
      PROVE  ((Call(w) \/ CallStop(w)) /\ UNCHANGED program) \/ WorkerGoes(w)
  <2>1. \/ (Call(w) \/ CallStop(w)) /\ UNCHANGED program
        \/ /\ UNCHANGED <<program, serverVars>>
           /\ \/ Guard(w) \/ Mark(w) \/ Reset(w) \/ CallRaises(w) \/ Reply(w) \/ Check(w)
              \/ Finally(w) \/ Expire(w) \/ StopReturns(w)
    BY <1>9 DEF Worker, LocalStep
  <2> QED BY <1>3, <1>4, <1>5, <1>6, <2>1
<1>10. CASE KbCallStop /\ UNCHANGED program
  BY <1>10 DEF KbCallStop
<1>11. CASE UNCHANGED vars
  BY <1>11 DEF vars, serverVars, nodeVars
<1> QED BY <1>7, <1>8, <1>9, <1>10, <1>11 DEF Next, Keys, KeyboardStep, Interrupt, Main

LEMMA AskedStep ==
  ASSUME IInv, [Next]_vars
  PROVE  Asked'
<1> USE DEF Asked, Sent
<1>0. /\ Length \in Nat /\ (UNCHANGED program => Length' = Length)
      /\ step \in [Workers -> 0..Length] /\ NodeTyped
  BY Bounds DEF IInv, NodeTyped, Length
<1>1. CASE UNCHANGED <<stage, okay, pc, step, program>>
  BY <1>0, <1>1 DEF IInv
<1>2. CASE ServerStep
  <2>1. UNCHANGED <<pc, step, program>>
    BY <1>2 DEF ServerStep, nodeVars
  <2>2. \A w \in Workers : \A k \in 1..Length : Sent(w, k)' <=> Sent(w, k)
    BY <1>0, <1>2, ServerKeeps, Names DEF IInv
  <2> QED BY <1>0, <2>1, <2>2 DEF IInv
<1>3. CASE UNCHANGED <<pc, step, program>> /\ Server!Send(StopRequest, "stop")
  <2>1. stage' = [stage EXCEPT ![StopRequest] = "queued"]
    BY <1>3, SendStep, Names DEF IInv
  <2>2. \A w \in Workers : \A k \in 1..Length : Sent(w, k)' <=> Sent(w, k)
    <3>1. \A w \in Workers : \A k \in 1..Length : <<w, k>> # StopRequest
      BY <1>0, Names
    <3> QED BY <2>1, <3>1
  <2> QED BY <1>0, <1>3, <2>2 DEF IInv
<1>4. ASSUME NEW w \in Workers, Call(w), UNCHANGED program PROVE Asked'
  <2>1. step[w] \in 1..Length /\ pc[w] = "call"
    BY <1>0, <1>4 DEF IInv, Steps, Call
  <2>2. <<w, step[w]>> \in Requests
    BY <1>0, <2>1, Names
  <2>3. stage' = [stage EXCEPT ![<<w, step[w]>>] = "queued"] /\ step' = step
    BY <1>4, <2>2, SendStep DEF IInv, Call
  <2>4. \A v \in Workers : pc'[v] = "call" => v # w /\ pc[v] = "call"
    BY <1>4 DEF Call, GoTo, IInv, NodeTyped
  <2>5. \A v \in Workers : \A k \in 1..Length : Sent(v, k)' => Sent(v, k) \/ (v = w /\ k = step[w])
    BY <2>3
  <2> QED BY <1>0, <1>4, <2>1, <2>3, <2>4, <2>5 DEF IInv
<1>5. ASSUME NEW w \in Workers, CallStop(w), UNCHANGED program PROVE Asked'
  <2>1. <<w, Length + 1>> \in Requests
    BY <1>5, Names DEF CallStop, IInv, Steps
  <2>2. stage' = [stage EXCEPT ![<<w, Length + 1>>] = "queued"] /\ step' = step
    BY <1>5, <2>1, SendStep DEF IInv, CallStop
  <2>3. \A v \in Workers : pc'[v] = "call" => pc[v] = "call"
    BY <1>5 DEF CallStop, GoTo, IInv, NodeTyped
  <2>4. \A v \in Workers : \A k \in 1..Length : Sent(v, k)' <=> Sent(v, k)
    BY <1>0, <2>2
  <2> QED BY <1>0, <1>5, <2>2, <2>3, <2>4 DEF IInv
<1>6. ASSUME NEW w \in Workers, WorkerGoes(w) PROVE Asked'
  <2>1. stage' = stage /\ program' = program
    BY <1>6 DEF WorkerGoes, Goes, serverVars
  <2>2. \/ \E k \in {1, step[w] + 1} : Goes(w, "call", k) /\ step[w] < k
        \/ \E l : Goes(w, l, step[w]) /\ l # "call"
    <3>1. Reply(w) \/ Expire(w) => pc'[w] # "call"
      BY <1>0 DEF Reply, Expire, HandleResult, GoTo, NodeTyped
    <3> QED BY <1>0, <1>6, <3>1 DEF WorkerGoes
  <2>3. ASSUME NEW k \in Nat, Goes(w, "call", k), step[w] < k PROVE Asked'
    BY <1>0, <2>1, <2>3 DEF Goes, IInv
  <2>4. ASSUME NEW l, Goes(w, l, step[w]), l # "call" PROVE Asked'
    BY <1>0, <2>1, <2>4 DEF Goes, IInv, NodeTyped
  <2> QED BY <1>0, <2>2, <2>3, <2>4
<1> QED BY <1>1, <1>2, <1>3, <1>4, <1>5, <1>6, ScriptSteps

LEMMA DoneStep ==
  ASSUME IInv, [Next]_vars
  PROVE  Done'
<1> DEFINE Fine(w, j) == stage[<<w, j>>] = "answered" /\ okay[<<w, j>>]
           In(w) == pc[w] \in {"call", "await", "check"}
<1>0. /\ Length \in Nat /\ (UNCHANGED program => Length' = Length /\ Checked' = Checked)
      /\ step \in [Workers -> 0..Length] /\ NodeTyped
      /\ Checked \subseteq 1..Length
      /\ \A w \in Workers : \A j \in Checked : <<w, j>> \in Requests
  <2>1. Length \in Nat /\ (UNCHANGED program => Length' = Length /\ Checked' = Checked)
    BY Bounds DEF IInv, Length, Checked
  <2>2. Checked \subseteq 1..Length
    BY <2>1, Bounds DEF Checked
  <2> QED BY <2>1, <2>2, Names DEF IInv, NodeTyped
<1>1. ASSUME UNCHANGED program,
             \A w \in Workers : \A j \in Checked : Fine(w, j) => Fine(w, j)',
             \A w \in Workers : In(w)' => In(w) /\ Reached(w)' = Reached(w)
      PROVE  Done'
  BY <1>0, <1>1 DEF IInv, Done
<1>2. CASE UNCHANGED <<stage, okay, pc, step, program>>
  BY <1>1, <1>2 DEF Reached
<1>3. CASE ServerStep
  <2>1. UNCHANGED <<pc, step, program>>
    BY <1>3 DEF ServerStep, nodeVars
  <2>2. \A w \in Workers : \A j \in Checked : Fine(w, j) => Fine(w, j)'
    BY <1>0, <1>3, ServerKeeps DEF IInv
  <2> QED BY <1>1, <2>1, <2>2 DEF Reached
<1>4. ASSUME NEW r \in Requests, NEW o \in {"move", "stop"}, Server!Send(r, o)
      PROVE  \A w \in Workers : \A j \in Checked : Fine(w, j) => Fine(w, j)'
  <2>1. stage[r] = "unsent" /\ stage' = [stage EXCEPT ![r] = "queued"] /\ okay' = okay
    BY <1>4, SendStep DEF IInv
  <2> QED BY <1>0, <2>1
<1>5. CASE UNCHANGED <<pc, step, program>> /\ Server!Send(StopRequest, "stop")
  BY <1>1, <1>4, <1>5, Names DEF Reached
<1>6. ASSUME NEW w \in Workers, Call(w) \/ CallStop(w), UNCHANGED program PROVE Done'
  <2>1. \E r \in Requests : \E o \in {"move", "stop"} : Server!Send(r, o)
    <3>1. CASE Call(w)
      BY <1>0, <3>1, Names DEF Call, IInv, Steps
    <3>2. CASE CallStop(w)
      BY <1>0, <1>6, <3>2, Names DEF CallStop, IInv, Steps
    <3> QED BY <1>6, <3>1, <3>2
  <2>2. \A v \in Workers : In(v)' => In(v) /\ Reached(v)' = Reached(v)
    BY <1>0, <1>6 DEF Call, CallStop, GoTo, Reached, NodeTyped
  <2> QED BY <1>1, <1>4, <1>6, <2>1, <2>2
<1>7. ASSUME NEW w \in Workers, WorkerGoes(w) PROVE Done'
  <2>1. /\ stage' = stage /\ okay' = okay /\ program' = program
        /\ \E l, k : Goes(w, l, k)
    BY <1>7 DEF WorkerGoes, Goes, serverVars
  <2>2. \A v \in Workers \ {w} : pc'[v] = pc[v] /\ step'[v] = step[v]
    BY <1>0, <2>1 DEF Goes, NodeTyped
  <2>3. SUFFICES ASSUME In(w)', NEW j \in Checked, j <= Reached(w)' PROVE Fine(w, j)
    BY <1>0, <2>1, <2>2 DEF IInv, Done, Reached
  <2>4. CASE Goes(w, "call", 1)
    BY <1>0, <2>3, <2>4 DEF Goes, Reached, NodeTyped
  <2>5. CASE Goes(w, "call", step[w] + 1) /\ pc[w] = "check"
    BY <1>0, <2>3, <2>5 DEF Goes, Reached, NodeTyped, IInv, Done
  <2>6. CASE (Reply(w) \/ Expire(w)) /\ Goes(w, pc'[w], step[w])
    <3>1. /\ pc'[w] = "check" /\ pc[w] = "await" /\ step'[w] = step[w]
          /\ \/ Fine(w, step[w])
             \/ program = "trigger" /\ step[w] <= NApproach
      BY <1>0, <2>3, <2>6 DEF Reply, Expire, HandleResult, GoTo, Goes, NodeTyped
    <3>2. j = step[w] => Fine(w, j)
      <4>1. program = "trigger" => ~ (j <= NApproach)
        BY Bounds DEF Checked
      <4> QED BY <3>1, <4>1
    <3>3. j < step[w] => Fine(w, j)
      BY <1>0, <3>1 DEF IInv, Done, Reached
    <3> QED BY <1>0, <2>3, <3>1, <3>2, <3>3 DEF Reached
  <2>7. CASE \E l : Goes(w, l, step[w]) /\ l \notin {"call", "await", "check"}
    BY <1>0, <2>3, <2>7 DEF Goes, NodeTyped
  <2> QED BY <1>7, <2>4, <2>5, <2>6, <2>7 DEF WorkerGoes
<1> QED BY <1>2, <1>3, <1>5, <1>6, <1>7, ScriptSteps

LEMMA OrderStep ==
  ASSUME IInv, [Next]_vars
  PROVE  InScriptOrder'
<1> DEFINE Fine(w, j) == stage[<<w, j>>] = "answered" /\ okay[<<w, j>>]
<1>0. /\ Length \in Nat /\ NodeTyped /\ InScriptOrder
      /\ UNCHANGED program => Checked' = Checked
      /\ Checked \subseteq 1..Length
      /\ \A w \in Workers : \A j \in Checked : <<w, j>> \in Requests
  <2>1. Length \in Nat /\ (UNCHANGED program => Checked' = Checked)
    BY Bounds DEF IInv, Length, Checked
  <2>2. Checked \subseteq 1..Length
    BY <2>1, Bounds DEF Checked
  <2> QED BY <2>1, <2>2, Names DEF IInv
<1>1. ASSUME UNCHANGED program,
             \A w \in Workers : \A j \in Checked : Fine(w, j) => Fine(w, j)',
             \A w \in Workers : \A j \in Checked : Sent(w, j)' => Sent(w, j)
      PROVE  InScriptOrder'
  <2> SUFFICES ASSUME NEW w \in Workers, NEW j \in Checked, NEW k \in Checked, j < k, Sent(w, k)'
               PROVE  Fine(w, j)'
    BY <1>0, <1>1 DEF InScriptOrder
  <2>1. Sent(w, k)
    BY <1>1 DEF Sent
  <2>2. Fine(w, j)
    BY <1>0, <2>1 DEF InScriptOrder
  <2> QED BY <1>1, <2>2 DEF Sent
<1>2. CASE UNCHANGED <<stage, okay, program>>
  BY <1>1, <1>2 DEF Sent
<1>3. CASE ServerStep
  <2>1. UNCHANGED program
    BY <1>3 DEF ServerStep, nodeVars
  <2>2. /\ \A w \in Workers : \A j \in Checked : Fine(w, j) => Fine(w, j)'
        /\ \A w \in Workers : \A j \in Checked : Sent(w, j)' => Sent(w, j)
    BY <1>0, <1>3, ServerKeeps DEF IInv, Sent
  <2> QED BY <1>1, <2>1, <2>2
<1>4. ASSUME UNCHANGED program, NEW r \in Requests, NEW o \in {"move", "stop"}, Server!Send(r, o),
             \A w \in Workers : \A j \in Checked : r # <<w, j>>
      PROVE  InScriptOrder'
  <2>1. stage[r] = "unsent" /\ stage' = [stage EXCEPT ![r] = "queued"] /\ okay' = okay
    BY <1>4, SendStep DEF IInv
  <2>2. /\ \A w \in Workers : \A j \in Checked : Fine(w, j) => Fine(w, j)'
        /\ \A w \in Workers : \A j \in Checked : Sent(w, j)' => Sent(w, j)
    BY <1>0, <1>4, <2>1 DEF Sent
  <2> QED BY <1>1, <1>4, <2>2
<1>5. CASE UNCHANGED program /\ Server!Send(StopRequest, "stop")
  <2>1. \A w \in Workers : \A j \in Checked : StopRequest # <<w, j>>
    BY <1>0, Names
  <2> QED BY <1>4, <1>5, <2>1, Names
<1>6. ASSUME NEW w \in Workers, Call(w), UNCHANGED program PROVE InScriptOrder'
  <2>1. step[w] \in 1..Length /\ pc[w] = "call" /\ <<w, step[w]>> \in Requests
    BY <1>0, <1>6, Names DEF IInv, Steps, NodeTyped, Call
  <2>2. /\ stage[<<w, step[w]>>] = "unsent" /\ okay' = okay
        /\ stage' = [stage EXCEPT ![<<w, step[w]>>] = "queued"]
    BY <1>6, <2>1, SendStep DEF IInv, Call
  <2>3. /\ \A v \in Workers : \A j \in Checked : Fine(v, j) => Fine(v, j)'
        /\ \A v \in Workers : \A j \in Checked : Sent(v, j)' => Sent(v, j) \/ (v = w /\ j = step[w])
    BY <1>0, <2>2 DEF Sent
  <2>4. \A j \in Checked : j < step[w] => Fine(w, j)
    BY <1>0, <2>1 DEF IInv, Done, Reached
  <2> SUFFICES ASSUME NEW v \in Workers, NEW j \in Checked, NEW k \in Checked, j < k, Sent(v, k)'
               PROVE  Fine(v, j)'
    BY <1>0, <1>6 DEF InScriptOrder
  <2>5. Fine(v, j)
    <3>1. CASE Sent(v, k)
      BY <1>0, <3>1 DEF InScriptOrder
    <3>2. CASE v = w /\ k = step[w]
      BY <2>4, <3>2
    <3> QED BY <2>3, <3>1, <3>2 DEF Sent
  <2> QED BY <2>3, <2>5 DEF Sent
<1>7. ASSUME NEW w \in Workers, CallStop(w), UNCHANGED program PROVE InScriptOrder'
  <2>1. <<w, Length + 1>> \in Requests /\ \A v \in Workers : \A j \in Checked : <<w, Length + 1>> # <<v, j>>
    BY <1>0, <1>7, Names DEF IInv, Steps, CallStop
  <2> QED BY <1>4, <1>7, <2>1 DEF CallStop
<1>8. ASSUME NEW w \in Workers, WorkerGoes(w) PROVE UNCHANGED <<stage, okay, program>>
  BY <1>8 DEF WorkerGoes, Goes, serverVars
<1> QED BY <1>2, <1>3, <1>5, <1>6, <1>7, <1>8, ScriptSteps

LEMMA QuitStep ==
  ASSUME IInv, [Next]_vars
  PROVE  QuitSeen'
<1> SUFFICES ASSUME program = "cycle", program' = program PROVE QuitSeen'
  <2>1. program' = program
    BY DEF Next, Worker, Keys, KeyboardStep, Interrupt, Main, ServerStep, nodeVars, vars
  <2> QED BY <2>1 DEF QuitSeen
<1>0. /\ NodeTyped /\ Length \in Nat /\ Length' = Length
      /\ step \in [Workers -> 0..Length] /\ quitAt \in [Workers -> 0..Length]
      /\ \A w \in Workers : Early(w) => step[w] = 0
  BY Bounds DEF IInv, NodeTyped, Length, Steps
<1>1. /\ \A w \in Workers : Early(w) /\ quitAt[w] # 0 => \A v \in Workers : quitAt[v] = Length
      /\ Heeded => \A w \in Workers : step[w] <= quitAt[w] /\ (quitAt[w] < Length => shouldStop)
  BY DEF IInv, QuitSeen
<1>2. ASSUME UNCHANGED <<quitAt, step>>, shouldStop => shouldStop',
             \A w \in Workers : Early(w)' => Early(w)
      PROVE  QuitSeen'
  BY <1>0, <1>1, <1>2 DEF QuitSeen, Heeded
<1>3. ASSUME NEW w \in Workers, Reset(w), UNCHANGED quitAt PROVE QuitSeen'
  <2>1. /\ step' = [step EXCEPT ![w] = 1]
        /\ \A v \in Workers : Early(v)' => Early(v)
        /\ Early(w)
    BY <1>0, <1>3 DEF Reset, GoTo, Early, NodeTyped
  <2>2. CASE quitAt[w] = 0
    BY <1>0, <1>1, <1>3, <2>1, <2>2 DEF QuitSeen, Heeded
  <2>3. CASE quitAt[w] # 0
    <3>1. \A v \in Workers : quitAt'[v] = Length /\ step'[v] \in 0..Length
      BY <1>0, <1>1, <1>3, <2>1, <2>3, Bounds
    <3> QED BY <1>0, <3>1 DEF QuitSeen
  <2> QED BY <2>2, <2>3
<1>4. ASSUME NEW w \in Workers, Check(w), UNCHANGED quitAt PROVE QuitSeen'
  <2>1. CASE shouldStop
    BY <1>0, <1>2, <1>4, <2>1 DEF Check, GoTo, Early, NodeTyped
  <2>2. CASE ~ shouldStop
    <3>1. /\ step' = [step EXCEPT ![w] = @ + 1] /\ step[w] < Length
          /\ \A v \in Workers : Early(v)' => Early(v)
      BY <1>0, <1>4, <2>2 DEF Check, GoTo, Early, NodeTyped, IInv, Steps
    <3>2. Heeded' => Heeded
      BY <1>0, <1>4, <3>1 DEF Heeded
    <3>3. Heeded => \A v \in Workers : quitAt[v] = Length
      BY <1>0, <1>1, <2>2
    <3>4. Heeded' => \A v \in Workers : /\ step'[v] <= quitAt'[v]
                                        /\ quitAt'[v] < Length' => shouldStop'
      BY <1>0, <1>4, <3>1, <3>2, <3>3
    <3> QED BY <1>0, <1>1, <1>4, <3>1, <3>4 DEF QuitSeen
  <2> QED BY <2>1, <2>2
<1>5. CASE PressQ
  <2>1. quitAt' = step /\ step' = step /\ shouldStop' = TRUE /\ pc' = pc
    BY <1>5 DEF PressQ
  <2> QED BY <1>0, <2>1 DEF QuitSeen, Early
<1>6. ASSUME NEW w \in Workers, Worker(w) PROVE QuitSeen'
  <2>1. CASE Guard(w) \/ Mark(w) \/ Finally(w) \/ CallRaises(w) \/ Call(w) \/ CallStop(w) \/ StopReturns(w)
    BY <1>0, <1>2, <1>6, <2>1
       DEF Worker, Guard, Mark, Finally, CallRaises, Call, CallStop, StopReturns, GoTo, Early, NodeTyped
  <2>2. CASE Reply(w) \/ Expire(w)
    BY <1>0, <1>2, <1>6, <2>2 DEF Worker, Reply, Expire, HandleResult, GoTo, Early, NodeTyped
  <2> QED BY <1>3, <1>4, <1>6, <2>1, <2>2 DEF Worker, LocalStep
<1>7. ASSUME NEW w \in Workers, PressSpace(w) PROVE QuitSeen'
  BY <1>0, <1>2, <1>7 DEF PressSpace, Spawn, GoTo, Early, NodeTyped
<1>8. CASE PressOther \/ KeyboardStep \/ Interrupt \/ Main \/ ServerStep \/ UNCHANGED vars
  <2>1. UNCHANGED <<quitAt, step, pc>> /\ (shouldStop' = shouldStop \/ shouldStop' = TRUE)
    BY <1>8 DEF PressOther, KeyboardStep, KbCallStop, KbCallRaises, KbStopReturns, KbShutdown, KbTest,
      Interrupt, Main, MainLeaves, MainExits, ServerStep, nodeVars, vars
  <2> QED BY <1>2, <2>1 DEF Early
<1> QED BY <1>5, <1>6, <1>7, <1>8 DEF Next, Keys

LEMMA OnceStep ==
  ASSUME IInv, [Next]_vars
  PROVE  OneRuns'
<1> SUFFICES ASSUME program = "trigger", program' = program PROVE OneRuns'
  <2>1. program' = program
    BY DEF Next, Worker, Keys, KeyboardStep, Interrupt, Main, ServerStep, nodeVars, vars
  <2> QED BY <2>1 DEF OneRuns
<1>0. /\ NodeTyped
      /\ \A w \in Workers : pc[w] \notin {"guard", "mark", "reset"} /\ (Active(w) => isRunning)
      /\ OneCycleAtATime
  BY DEF IInv, OneRuns
<1>1. ASSUME UNCHANGED isRunning,
             \A w \in Workers : /\ pc'[w] \notin {"guard", "mark", "reset"}
                                /\ Active(w)' => Active(w)
      PROVE  OneRuns'
  BY <1>0, <1>1 DEF OneRuns, OneCycleAtATime
<1>2. ASSUME NEW w \in Workers, Worker(w) PROVE OneRuns'
  <2>1. CASE Finally(w)
    BY <1>0, <2>1 DEF Finally, GoTo, Active, NodeTyped, OneRuns, OneCycleAtATime
  <2>2. CASE Check(w) \/ CallRaises(w) \/ Call(w) \/ CallStop(w) \/ StopReturns(w)
    BY <1>0, <1>1, <2>2 DEF Check, CallRaises, Call, CallStop, StopReturns, GoTo, Active, NodeTyped
  <2>3. CASE Reply(w) \/ Expire(w)
    BY <1>0, <1>1, <2>3 DEF Reply, Expire, HandleResult, GoTo, Active, NodeTyped
  <2>4. ~ Guard(w) /\ ~ Mark(w) /\ ~ Reset(w)
    BY <1>0 DEF Guard, Mark, Reset
  <2> QED BY <1>2, <2>1, <2>2, <2>3, <2>4 DEF Worker, LocalStep
<1>3. ASSUME NEW w \in Workers, PressSpace(w) PROVE OneRuns'
  <2>1. /\ \A v \in Workers : ~ Active(v)
        /\ isRunning' = TRUE /\ pc' = [pc EXCEPT ![w] = "call"]
    BY <1>0, <1>3 DEF PressSpace, Spawn, GoTo
  <2> QED BY <1>0, <2>1 DEF OneRuns, OneCycleAtATime, Active, NodeTyped
<1>4. CASE PressOther \/ PressQ \/ KeyboardStep \/ Interrupt \/ Main \/ ServerStep \/ UNCHANGED vars
  <2>1. UNCHANGED <<isRunning, pc>>
    BY <1>4 DEF PressOther, PressQ, KeyboardStep, KbCallStop, KbCallRaises, KbStopReturns, KbShutdown, KbTest,
      Interrupt, Main, MainLeaves, MainExits, ServerStep, nodeVars, vars
  <2> QED BY <1>0, <1>1, <2>1 DEF Active
<1> QED BY <1>2, <1>3, <1>4 DEF Next, Keys

\* The server's part, and the requests of the node.
LEMMA ServerSide ==
  ASSUME IInv, [Next]_vars
  PROVE  P!IInv' /\ Ops'
<1>1. ASSUME NEW r \in Requests, NEW o \in {"move", "stop"}, Server!Send(r, o),
             r = StopRequest => o = "stop"
      PROVE  P!IInv' /\ Ops'
  <2>1. P!IInv' /\ op' = [op EXCEPT ![r] = o] /\ motion' = motion
    BY <1>1, SendStep DEF IInv
  <2> QED BY <1>1, <2>1 DEF IInv, Ops
<1>2. CASE ServerStep
  <2>1. P!Unblended /\ P!ServerNext
    BY <1>2, SameServer DEF IInv, Ops, P!Unblended, ServerStep
  <2>2. P!Unblended'
    BY <2>1, P!UnblendedStep, RobotAssumption
  <2>3. motion' # Blending
    BY <2>2 DEF P!Unblended
  <2> QED BY <1>2, <2>3, ServerKeeps DEF IInv, Ops
<1>3. CASE UNCHANGED serverVars
  <2>1. [P!Next]_(P!serverVars)
    BY <1>3 DEF serverVars, P!serverVars
  <2>2. P!IInv'
    BY <2>1, P!IInvStep, RobotAssumption DEF IInv
  <2> QED BY <1>3, <2>2 DEF serverVars, IInv, Ops
<1>4. CASE Server!Send(StopRequest, "stop")
  BY <1>1, <1>4, Names
<1>5. ASSUME NEW w \in Workers, Call(w) PROVE P!IInv' /\ Ops'
  <2>1. step[w] \in 1..Length /\ step[w] \in Nat
    BY <1>5, Bounds DEF Call, IInv, NodeTyped, Steps
  <2> QED BY <1>1, <1>5, <2>1, Names DEF Call, IInv
<1>6. ASSUME NEW w \in Workers, CallStop(w) PROVE P!IInv' /\ Ops'
  <2>1. program = "trigger" /\ Length + 1 \in Nat
    BY <1>6, Bounds DEF CallStop, IInv, Steps
  <2> QED BY <1>1, <1>6, <2>1, Names DEF CallStop
<1> QED BY <1>2, <1>3, <1>4, <1>5, <1>6
        DEF Next, Worker, LocalStep, Keys, PressSpace, PressOther, PressQ, KeyboardStep, KbCallStop, KbCallRaises,
            KbStopReturns, KbShutdown, KbTest, Interrupt, Main, MainLeaves, MainExits, vars

LEMMA PendingStep ==
  ASSUME IInv, [Next]_vars
  PROVE  Pending'
<1> DEFINE Idle(r) == stage[r] \in {"unsent", "answered"}
           Awaited(w, k) == (pc[w] = "await" /\ k = step[w]) \/ (pc[w] = "awaitStop" /\ k = Length + 1)
<1>0. /\ NodeTyped /\ Length \in Nat /\ (UNCHANGED program => Length' = Length)
      /\ program' = program
      /\ late' = 0 => late = 0
  <2>1. program' = program
    BY DEF Next, Worker, Keys, KeyboardStep, Interrupt, Main, ServerStep, nodeVars, vars
  <2>2. late' = late \/ GivesUp
    BY DEF Next, Worker, LocalStep, Expire, StopReturns, Keys, PressSpace, PressOther, PressQ, KeyboardStep, KbCallStop, KbCallRaises,
       KbStopReturns, KbShutdown, KbTest, Interrupt, Main, MainLeaves, MainExits, ServerStep, nodeVars, vars
  <2> QED BY <2>1, <2>2, Bounds, MaxLateAssumption DEF IInv, NodeTyped, Length, GivesUp
<1>1. SUFFICES ASSUME late' = 0, NEW v \in Workers, NEW n \in Nat, <<v, n>> \in Requests, ~ Idle(<<v, n>>)'
               PROVE  Awaited(v, n)'
  BY DEF Pending
<1>2. late = 0 /\ (~ Idle(<<v, n>>) => Awaited(v, n))
  BY <1>0, <1>1 DEF IInv, Pending
<1>3. CASE UNCHANGED <<stage, pc, step>>
  BY <1>0, <1>1, <1>2, <1>3
<1>4. CASE ServerStep
  <2>1. UNCHANGED <<pc, step>>
    BY <1>4 DEF ServerStep, nodeVars
  <2>2. ~ Idle(<<v, n>>)
    BY <1>1, <1>4, ServerKeeps DEF IInv
  <2> QED BY <1>0, <1>2, <2>1, <2>2
<1>5. CASE UNCHANGED <<pc, step>> /\ Server!Send(StopRequest, "stop")
  <2>1. ~ Idle(<<v, n>>)
    <3>1. stage' = [stage EXCEPT ![StopRequest] = "queued"] /\ <<v, n>> # StopRequest
      BY <1>5, SendStep, Names DEF IInv
    <3> QED BY <1>1, <3>1
  <2> QED BY <1>0, <1>2, <1>5, <2>1
<1>6. ASSUME NEW w \in Workers, Call(w) PROVE Awaited(v, n)'
  <2>1. step[w] \in 1..Length
    BY <1>0, <1>6 DEF Call, IInv, Steps, NodeTyped
  <2>2. <<w, step[w]>> \in Requests
    BY <1>0, <2>1, Names
  <2>3. stage' = [stage EXCEPT ![<<w, step[w]>>] = "queued"] /\ step' = step
    BY <1>6, <2>2, SendStep DEF IInv, Call
  <2>4. pc[w] = "call" /\ pc' = [pc EXCEPT ![w] = "await"]
    BY <1>6 DEF Call, GoTo
  <2> QED BY <1>0, <1>1, <1>2, <2>3, <2>4 DEF NodeTyped
<1>7. ASSUME NEW w \in Workers, CallStop(w) PROVE Awaited(v, n)'
  <2>1. <<w, Length + 1>> \in Requests
    BY <1>7, Names DEF CallStop, IInv, Steps
  <2>2. stage' = [stage EXCEPT ![<<w, Length + 1>>] = "queued"] /\ step' = step
    BY <1>7, <2>1, SendStep DEF IInv, CallStop
  <2>3. pc[w] = "callStop" /\ pc' = [pc EXCEPT ![w] = "awaitStop"]
    BY <1>7 DEF CallStop, GoTo
  <2> QED BY <1>0, <1>1, <1>2, <2>2, <2>3 DEF NodeTyped
<1>8. ASSUME NEW w \in Workers, Worker(w), stage' = stage PROVE Awaited(v, n)'
  <2>1. Awaited(v, n) /\ ~ Idle(<<v, n>>) /\ ~ GivesUp
    BY <1>0, <1>1, <1>2, <1>8, MaxLateAssumption DEF GivesUp
  <2>2. CASE v # w
    <3>1. pc'[v] = pc[v] /\ step'[v] = step[v]
      BY <1>0, <1>8, <2>2 DEF Worker, LocalStep, Guard, Mark, Reset, CallRaises, Reply, Check, Finally,
        Call, CallStop, Expire, StopReturns, HandleResult, GoTo, NodeTyped
    <3> QED BY <1>0, <2>1, <3>1
  <2>3. CASE v = w
    <3>1. CASE pc[w] = "await"
      BY <1>8, <2>1, <2>3, <3>1 DEF Worker, LocalStep, Guard, Mark, Reset, CallRaises, Reply, Check,
        Finally, Call, CallStop, Expire, StopReturns
    <3>2. CASE pc[w] = "awaitStop"
      BY <1>8, <2>1, <2>3, <3>2 DEF Worker, LocalStep, Guard, Mark, Reset, CallRaises, Reply, Check,
        Finally, Call, CallStop, Expire, StopReturns
    <3> QED BY <2>1, <2>3, <3>1, <3>2
  <2> QED BY <2>2, <2>3
<1>9. ASSUME NEW w \in Workers, PressSpace(w) PROVE Awaited(v, n)'
  <2>1. stage' = stage /\ pc[w] = "unborn"
    BY <1>9 DEF PressSpace, serverVars
  <2>2. Awaited(v, n) /\ v # w
    BY <1>1, <1>2, <2>1
  <2>3. pc'[v] = pc[v] /\ step'[v] = step[v]
    BY <1>0, <1>9, <2>2 DEF PressSpace, Spawn, GoTo, NodeTyped
  <2> QED BY <1>0, <2>2, <2>3
<1>10. ASSUME NEW w \in Workers, Worker(w) PROVE Call(w) \/ CallStop(w) \/ stage' = stage
  BY <1>10 DEF Worker, LocalStep, serverVars
<1>11. CASE PressOther \/ PressQ \/ KbCallStop \/ KbCallRaises \/ KbStopReturns \/ KbShutdown \/ KbTest \/ Interrupt \/ Main
            \/ UNCHANGED vars
  BY <1>3, <1>5, <1>11 DEF PressOther, PressQ, KbCallStop, KbCallRaises, KbStopReturns, KbShutdown, KbTest, Interrupt, Main,
    MainLeaves, MainExits, serverVars, vars, nodeVars
<1> QED BY <1>4, <1>6, <1>7, <1>8, <1>9, <1>10, <1>11 DEF Next, Keys, KeyboardStep

LEMMA FlagStep ==
  ASSUME IInv, [Next]_vars
  PROVE  Flag'
<1> USE DEF Active, Started
<1>0. NodeTyped /\ Flag /\ OneRuns
  BY DEF IInv
\* Nobody's place and no flag changes, or only in ways that do not matter.
<1>1. ASSUME UNCHANGED <<isRunning, pc, overlap, program>>, ctxOk' => ctxOk PROVE Flag'
  BY <1>0, <1>1 DEF Flag
<1>2. ASSUME NEW w \in Workers, UNCHANGED <<isRunning, overlap, program, ctxOk>>,
             \A v \in Workers : (Active(v)' <=> Active(v)) /\ (Started(v)' => Started(v))
      PROVE  Flag'
  BY <1>0, <1>2 DEF Flag
<1>3. ASSUME NEW w \in Workers, Worker(w) PROVE Flag'
  <2>0. UNCHANGED <<program, ctxOk>> /\ overlap' = (overlap \/ Overlaps(w))
    BY <1>3 DEF Worker
  <2>1. CASE Guard(w)
    <3>1. CASE isRunning
      <4>1. pc' = [pc EXCEPT ![w] = "done"] /\ isRunning' = isRunning /\ overlap' = overlap
        BY <1>0, <2>0, <2>1, <3>1 DEF Guard, GoTo, Overlaps, NodeTyped
      <4> QED BY <1>0, <1>2, <2>0, <2>1, <4>1 DEF Guard, NodeTyped
    <3>2. CASE ~isRunning
      <4>1. pc[w] = "guard" /\ pc' = [pc EXCEPT ![w] = "mark"] /\ isRunning' = isRunning
        BY <2>1, <3>2 DEF Guard, GoTo
      <4>2. ~overlap' => ~overlap /\ \A v \in Workers \ {w} : ~ Started(v)
        BY <1>0, <2>0, <4>1 DEF Overlaps, NodeTyped
      <4>3. \A v \in Workers : (Active(v)' <=> Active(v)) /\ (v # w => (Started(v)' <=> Started(v)))
        BY <1>0, <4>1 DEF NodeTyped
      <4> QED BY <1>0, <2>0, <3>2, <4>1, <4>2, <4>3 DEF Flag
    <3> QED BY <1>0, <3>1, <3>2 DEF NodeTyped
  <2>2. CASE ~ Guard(w)
    <3>1. overlap' = overlap
      <4>1. pc'[w] # "mark"
        BY <1>0, <1>3, <2>2 DEF Worker, LocalStep, Mark, Reset, CallRaises, Reply, Check, Finally,
          Call, CallStop, Expire, StopReturns, HandleResult, GoTo, NodeTyped
      <4> QED BY <1>0, <2>0, <4>1 DEF Overlaps, NodeTyped
    <3>2. CASE Mark(w)
      <4>1. pc[w] = "mark" /\ pc' = [pc EXCEPT ![w] = "reset"] /\ isRunning' = TRUE
        BY <3>2 DEF Mark, GoTo
      <4>2. pc'[w] = "reset" /\ Active(w)'
        BY <1>0, <4>1 DEF NodeTyped
      <4>3. \A v \in Workers : Started(v)' <=> Started(v)
        BY <1>0, <4>1 DEF NodeTyped
      <4> QED BY <1>0, <2>0, <3>1, <4>1, <4>2, <4>3 DEF Flag
    <3>3. CASE Finally(w)
      <4>1. pc[w] = "finally" /\ pc' = [pc EXCEPT ![w] = "done"] /\ isRunning' = FALSE
        BY <3>3 DEF Finally, GoTo
      <4>2. ~overlap => \A v \in Workers : ~ Started(v)'
        <5> SUFFICES ASSUME ~overlap, NEW v \in Workers PROVE ~ Started(v)'
          OBVIOUS
        <5>1. v # w => ~ Started(v)
          BY <1>0, <4>1 DEF Flag
        <5> QED BY <1>0, <4>1, <5>1 DEF NodeTyped
      <4> QED BY <1>0, <2>0, <3>1, <4>1, <4>2 DEF Flag
    <3>4. CASE CallRaises(w) /\ program = "trigger"
      <4>1. /\ pc' = [pc EXCEPT ![w] = "done"] /\ isRunning' = isRunning /\ ~ctxOk
        BY <3>4 DEF CallRaises, GoTo
      <4>2. \A v \in Workers : (Active(v)' => Active(v)) /\ (Started(v)' => Started(v))
        BY <1>0, <4>1 DEF NodeTyped
      <4> QED BY <1>0, <2>0, <3>1, <3>4, <4>1, <4>2 DEF Flag
    <3>5. CASE \/ Reset(w) \/ Check(w) \/ Call(w) \/ CallStop(w) \/ StopReturns(w)
               \/ CallRaises(w) /\ program # "trigger"
      <4>1. /\ isRunning' = isRunning
            /\ \A v \in Workers : (Active(v)' <=> Active(v)) /\ (Started(v)' => Started(v))
        BY <1>0, <3>5 DEF Reset, Check, Call, CallStop, StopReturns, CallRaises, GoTo, NodeTyped
      <4> QED BY <1>2, <2>0, <3>1, <4>1
    <3>6. CASE Reply(w) \/ Expire(w)
      <4>1. /\ isRunning' = isRunning
            /\ \A v \in Workers : (Active(v)' <=> Active(v)) /\ (Started(v)' => Started(v))
        BY <1>0, <3>6 DEF Reply, Expire, HandleResult, GoTo, NodeTyped
      <4> QED BY <1>2, <2>0, <3>1, <4>1
    <3> QED BY <1>3, <2>2, <3>2, <3>3, <3>4, <3>5, <3>6 DEF Worker, LocalStep
  <2> QED BY <2>1, <2>2
<1>4. ASSUME NEW w \in Workers, PressSpace(w), UNCHANGED <<program, overlap>> PROVE Flag'
  <2>0. ~isRunning /\ pc[w] = "unborn" /\ ctxOk' = ctxOk
    BY <1>4 DEF PressSpace
  <2>1. CASE program = "cycle"
    <3>1. pc' = [pc EXCEPT ![w] = "guard"] /\ isRunning' = isRunning
      BY <1>4, <2>1 DEF PressSpace, Spawn, GoTo
    <3>2. \A v \in Workers : (Active(v)' <=> Active(v)) /\ (Started(v)' => Started(v))
      BY <1>0, <2>0, <3>1 DEF NodeTyped
    <3> QED BY <1>2, <1>4, <2>0, <3>1, <3>2
  <2>2. CASE program = "trigger"
    <3>1. pc' = [pc EXCEPT ![w] = "call"] /\ isRunning' = TRUE
      BY <1>4, <2>2 DEF PressSpace, Spawn, GoTo
    <3>2. \A v \in Workers : ~ Started(v)
      BY <1>0, <2>0, <2>2 DEF OneRuns, NodeTyped
    <3>3. pc'[w] = "call" /\ \A v \in Workers \ {w} : ~ Started(v)'
      BY <1>0, <3>1, <3>2 DEF NodeTyped
    <3> QED BY <3>1, <3>3 DEF Flag
  <2> QED BY <1>0, <2>1, <2>2 DEF NodeTyped
<1>5. CASE \/ (PressOther \/ PressQ) /\ UNCHANGED <<program, overlap>>
           \/ KeyboardStep \/ Interrupt \/ Main \/ ServerStep \/ UNCHANGED vars
  <2>1. UNCHANGED <<isRunning, pc>> /\ (ctxOk' => ctxOk)
    BY <1>5 DEF PressOther, PressQ, KeyboardStep, KbCallStop, KbCallRaises, KbStopReturns, KbShutdown, KbTest,
      Interrupt, Main, MainLeaves, MainExits, ServerStep, nodeVars, vars
  <2>2. CASE UNCHANGED <<program, overlap>>
    BY <1>1, <2>1, <2>2
  <2> QED BY <1>5, <2>2 DEF KeyboardStep, Interrupt, Main, ServerStep, nodeVars, vars
<1> QED BY <1>3, <1>4, <1>5 DEF Next, Keys

LEMMA InitIInv == Init => IInv
<1> SUFFICES ASSUME Init PROVE IInv
  OBVIOUS
<1>1. /\ stage = [r \in Requests |-> "unsent"] /\ op = [r \in Requests |-> "none"]
      /\ pc = [w \in Workers |-> "unborn"] /\ step = [w \in Workers |-> 0]
      /\ quitAt = [w \in Workers |-> Length]
  BY DEF Init, Server!ServerInit, Server!NoService
<1>2. P!IInv
  BY SameServer, P!InitIInv, RobotAssumption DEF Init
<1>3. NodeTyped
  <2>1. program \in {"cycle", "trigger"} /\ late \in 0..MaxLate
    BY ProgramsAssumption, MaxLateAssumption DEF Init
  <2>2. Length \in Nat
    BY <2>1, NStepsAssumption DEF Length
  <2>3. 0 \in 0..Length /\ Length \in 0..Length
    BY <2>2
  <2> QED BY <1>1, <2>1, <2>3 DEF Init, NodeTyped
<1>4. Steps /\ Done /\ InScriptOrder /\ OneRuns
  <2>1. Steps /\ Done /\ OneRuns
    BY <1>1 DEF Steps, Early, Done, OneRuns, OneCycleAtATime, Active
  <2>2. \A w \in Workers : \A k \in Checked : <<w, k>> \in Requests
    <3>1. Checked \subseteq 1..Length
      BY <1>3, Bounds DEF Checked
    <3> QED BY <1>3, <3>1, Names
  <2> QED BY <1>1, <2>1, <2>2 DEF InScriptOrder, Sent
<1>5. Asked
  BY <1>1, <1>3, Names DEF Asked, Sent
<1>6. QuitSeen
  BY <1>1, <1>3, Bounds DEF QuitSeen, Heeded
<1>7. Ops /\ Pending
  BY <1>1, Names, RobotAssumption DEF Ops, Pending, Init, Server!ServerInit
<1>8. Flag
  BY <1>1 DEF Init, Flag, Active, Started
<1> QED BY <1>2, <1>3, <1>4, <1>5, <1>6, <1>7, <1>8 DEF IInv

LEMMA Invariance == Spec => []IInv
<1>1. IInv /\ [Next]_vars => IInv'
  BY TypeStep, AskedStep, DoneStep, OrderStep, QuitStep, OnceStep, ServerSide, PendingStep, FlagStep DEF IInv
<1> QED BY InitIInv, <1>1, PTL DEF Spec

-----------------------------------------------------------------------------

\* The threads' places, the flags, the counters and the requests keep their
\* types; the counter never runs past the script.
THEOREM TypeCorrect == Spec => []TypeOK
<1>1. IInv => TypeOK
  BY TypeOKParts DEF IInv, P!IInv
<1> QED BY <1>1, Invariance, PTL

\* A motion of the script is asked for only when the server has reported every
\* earlier one done, whichever calls time out and whatever other cycles run.
THEOREM ScriptIsKept == Spec => []InScriptOrder
<1>1. IInv => InScriptOrder
  BY DEF IInv
<1> QED BY <1>1, Invariance, PTL

\* After Q a cycle asks for no further motion, unless one that was just
\* starting clears the flag again.
THEOREM QuitIsHeeded == Spec => []QuitEndsCycles
<1>1. IInv => QuitEndsCycles
  <2> SUFFICES ASSUME IInv, program = "cycle", Heeded,
                      NEW w \in Workers, NEW k \in 1..Length, Sent(w, k)
               PROVE  k <= quitAt[w]
    BY DEF QuitEndsCycles, Heeded
  <2>1. k <= step[w]
    BY DEF IInv, Asked
  <2>2. step[w] <= quitAt[w]
    BY DEF IInv, QuitSeen
  <2> QED BY <2>1, <2>2, Bounds DEF IInv, NodeTyped
<1> QED BY <1>1, Invariance, PTL

\* The flag of the trigger keeps a second cycle out.
THEOREM TriggerIsAlone == Spec => []TriggerRunsOnce
<1>1. IInv => TriggerRunsOnce
  BY DEF IInv, OneRuns, TriggerRunsOnce
<1> QED BY <1>1, Invariance, PTL

\* The flag tells the truth: if it is set a cycle has it; if not, the node has
\* left nothing with the server, and the robot stands still, for what it executed
\* would have an owner.
THEOREM FlagIsTrue == Spec => []FlagTellsTruth
<1>1. IInv => FlagTellsTruth
  <2> SUFFICES ASSUME IInv, ~isRunning, late = 0, ~overlap
               PROVE  /\ motion = NoMotion
                      /\ \A r \in Requests \ {StopRequest} : stage[r] \in {"unsent", "answered"}
    BY DEF FlagTellsTruth, IInv, Flag
  <2>0. \A w \in Workers : pc[w] \notin {"await", "awaitStop"}
    BY DEF IInv, Flag, Active
  <2>1. \A w \in Workers, k \in Nat : <<w, k>> \in Requests => stage[<<w, k>>] \in {"unsent", "answered"}
    BY <2>0 DEF IInv, Pending
  <2>2. \A r \in Requests \ {StopRequest} : stage[r] \in {"unsent", "answered"}
    BY <2>1, Names
  <2>3. ASSUME motion # NoMotion PROVE FALSE
    <3>1. motion \in Requests /\ ((op[motion] \in P!SyncMoves /\ stage[motion] = "blocked")
                                 \/ (op[motion] = "amove" /\ stage[motion] = "answered"))
      BY <2>3, P!Owner, RobotAssumption DEF IInv, Ops
    <3>2. op[motion] = "move" /\ stage[motion] = "blocked"
      BY <3>1 DEF IInv, Ops, P!SyncMoves
    <3>3. motion # StopRequest
      BY <3>2 DEF IInv, Ops
    <3> QED BY <2>2, <3>1, <3>2, <3>3
  <2> QED BY <2>2, <2>3
<1> QED BY <1>1, Invariance, PTL

\* The node is a client as MotionServer describes them: it sends each request
\* once, and everything else it does is invisible to the server.
THEOREM ImplementsServer == Spec => Server!Spec
<1>1. Init => Server!ServerInit
  BY DEF Init
<1>2. IInv /\ [Next]_vars => [Server!Next]_(Server!serverVars)
  <2> SUFFICES ASSUME IInv, [Next]_vars, serverVars' # serverVars PROVE Server!Next
    BY DEF serverVars, Server!serverVars
  <2>1. ASSUME NEW r \in Requests, NEW o \in {"move", "stop"}, Server!Send(r, o) PROVE Server!Next
    BY <2>1 DEF Server!Next, Server!Services
  <2>2. ASSUME NEW w \in Workers, Call(w) PROVE Server!Next
    <3>1. <<w, step[w]>> \in Requests
      BY <2>2, Names, Bounds DEF Call, IInv, Steps, NodeTyped
    <3> QED BY <2>1, <2>2, <3>1 DEF Call
  <2>3. ASSUME NEW w \in Workers, CallStop(w) PROVE Server!Next
    <3>1. <<w, Length + 1>> \in Requests
      BY <2>3, Names DEF CallStop, IInv, Steps
    <3> QED BY <2>1, <2>3, <3>1 DEF CallStop
  <2>4. CASE ServerStep
    BY <2>4 DEF ServerStep, Server!Next
  <2>5. CASE Server!Send(StopRequest, "stop")
    BY <2>1, <2>5, Names
  <2> QED BY <2>2, <2>3, <2>4, <2>5
          DEF Next, Worker, LocalStep, Keys, PressSpace, PressOther, PressQ, KeyboardStep, KbCallStop, KbCallRaises,
              KbStopReturns, KbShutdown, KbTest, Interrupt, Main, MainLeaves, MainExits, vars
<1> QED BY <1>1, <1>2, Invariance, PTL DEF Spec, Server!Spec

\* So the server keeps what it promises: an answered motion is over, and a
\* motion of a cycle is never given up for one of another cycle.
COROLLARY ServerKeepsPromises == Spec => []Server!AnsweredMoveIsOver /\ Server!BlockingMoveKeepsRobot
<1>1. IInv => Server!AnsweredMoveIsOver
  BY RobotAssumption DEF IInv, P!IInv, P!MotionHasOwner, Server!AnsweredMoveIsOver, P!SyncMoves
<1>2. IInv /\ [Next]_vars =>
        [\A i \in Requests : motion = i /\ op[i] \in Server!SyncMoves
           => motion' \in {i, NoMotion, Blending}]_(Server!serverVars)
  <2> SUFFICES ASSUME IInv, [Next]_vars, NEW i \in Requests, motion = i, op[i] \in Server!SyncMoves
               PROVE  motion' \in {i, NoMotion, Blending}
    OBVIOUS
  <2>1. CASE ServerStep
    <3>1. P!ServerNext
      BY <2>1, SameServer DEF ServerStep
    <3>2. op[i] \in P!SyncMoves
      BY DEF Server!SyncMoves, P!SyncMoves
    <3> QED BY <3>1, <3>2, P!MoveKept, RobotAssumption DEF IInv
  <2>2. ASSUME NEW w \in Workers, Worker(w) PROVE motion' = motion
    BY <2>2 DEF Worker, LocalStep, Call, CallStop, Server!Send, serverVars
  <2>3. CASE Keys \/ KeyboardStep \/ Interrupt \/ Main \/ UNCHANGED vars
    BY <2>3 DEF Keys, PressSpace, PressOther, PressQ, KeyboardStep, KbCallStop, KbCallRaises, KbStopReturns,
      KbShutdown, KbTest, Interrupt, Main, MainLeaves, MainExits, Server!Send, serverVars, vars
  <2> QED BY <2>1, <2>2, <2>3 DEF Next
<1> QED BY <1>1, <1>2, Invariance, PTL DEF Spec, Server!BlockingMoveKeepsRobot

=============================================================================
