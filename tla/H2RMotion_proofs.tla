--------------------------- MODULE H2RMotion_proofs ---------------------------
(***************************************************************************)
(* Theorems about H2RMotion, for any goals and calls.                      *)
(*                                                                         *)
(* The argument follows a goal's thread: before Start, and after StopRobot *)
(* or a failed start, the robot does not execute the goal unless the stop  *)
(* was refused, and nothing but Start makes it, because the services only  *)
(* ever start motions of their own requests (Ops).  A goal's thread is born once (Born), and the goal  *)
(* ends only as the last thing its thread does (Lives).  The motion the     *)
(* robot executes is held by a blocked service or an answered request      *)
(* (Held), and an answered cancel by the goal's thread (CancelIsKept).     *)
(***************************************************************************)
EXTENDS H2RMotion, TLAPS

OpNames == Server!Services \cup {Server!NoService, "goal", "cancel"}

StatusNames == {"unknown", "executing", "canceling"} \cup Ended

Labels == {"none", "start", "check", "poll", "stopCanceled", "cancel",
           "stopArrived", "succeed", "done", "gone"}

Ops ==
  \A g \in Goals : /\ op[Goal(g)] \in {"none", "goal"}
                   /\ op[Cancel(g)] \in {"none", "cancel"}

Typed ==
  /\ stage \in [Requests -> Server!Stages] /\ op \in [Requests -> OpNames]
  /\ status \in [Goals -> StatusNames] /\ thread \in [Goals -> Labels]

Born ==
  \A g \in Goals :
    /\ stage[Goal(g)] # "answered" => status[g] = "unknown" /\ thread[g] = "none"
    /\ stage[Cancel(g)] # "unsent" => stage[Goal(g)] = "answered"

Lives ==
  \A g \in Goals :
    /\ status[g] \in Ended => thread[g] = "done"
    /\ thread[g] \in {"stopCanceled", "cancel"} => status[g] = "canceling"

AtRest ==
  \A g \in Goals : /\ thread[g] \in {"none", "start", "cancel", "succeed", "done"}
                         => motion # Goal(g) \/ g \in refused
                   /\ thread[g] \in {"none", "start"} => g \notin refused

IInv == Typed /\ Ops /\ Born /\ Lives /\ AtRest

-----------------------------------------------------------------------------

\* The requests of goals are told apart from each other and from the calls.
LEMMA Names ==
  ASSUME NEW g \in Goals
  PROVE  /\ Goal(g) \in Requests /\ Cancel(g) \in Requests
         /\ Goal(g) # NoMotion /\ Goal(g) # Blending
         /\ Goal(g) \notin Calls /\ Cancel(g) \notin Calls
         /\ \A h \in Goals : Goal(g) # Cancel(h) /\ (Goal(g) = Goal(h) => g = h)
  BY CallsAssumption, RobotAssumption DEF Requests, Goal, Cancel

\* What a step of the services does to what IInv speaks of.
LEMMA ServiceStep ==
  ASSUME Typed, Ops, Server!ServerNext
  PROVE  /\ op' = op
         /\ stage' \in [Requests -> Server!Stages]
         /\ \A g \in Goals : stage'[Goal(g)] = "answered" <=> stage[Goal(g)] = "answered"
         /\ \A g \in Goals : stage'[Cancel(g)] = "unsent" <=> stage[Cancel(g)] = "unsent"
         /\ \A g \in Goals : stage'[Cancel(g)] = "answered" => stage[Cancel(g)] = "answered"
         /\ \A g \in Goals : motion' = Goal(g) => motion = Goal(g)
<1>1. ASSUME NEW i \in Requests, Server!Take(i)
      PROVE  /\ op' = op /\ motion' = motion
             /\ stage[i] = "queued" /\ stage' = [stage EXCEPT ![i] = "taken"]
  BY <1>1 DEF Server!Take
<1>2. ASSUME NEW i \in Requests, Server!Callback(i)
      PROVE  /\ op' = op
             /\ op[i] \in Server!Services
             /\ motion' \in {motion, NoMotion, i}
             /\ stage[i] \in {"taken", "blocked"}
             /\ \/ stage' = [stage EXCEPT ![i] = "blocked"]
                \/ stage' = [stage EXCEPT ![i] = "answered"]
  BY <1>2 DEF Server!Callback, Server!StartMove, Server!StartAsync, Server!RefuseMove,
              Server!MoveReturns, Server!StartWait, Server!WaitReturns, Server!Pause,
              Server!Resume, Server!Stop, Server!Answer, Server!Services, Server!SyncMoves
<1>3. ASSUME NEW i \in Requests, op[i] \in Server!Services, NEW g \in Goals
      PROVE  i # Goal(g) /\ i # Cancel(g)
  BY <1>3 DEF Ops, Server!Services
<1>4. CASE \E i \in Requests : Server!Take(i)
  <2>1. PICK i \in Requests : Server!Take(i)
    BY <1>4
  <2> QED BY <1>1, <2>1, Names DEF Typed, Server!Stages
<1>5. CASE \E i \in Requests : Server!Callback(i)
  <2>1. PICK i \in Requests : Server!Callback(i)
    BY <1>5
  <2>2. \A g \in Goals : i # Goal(g) /\ i # Cancel(g)
    BY <1>2, <1>3, <2>1
  <2>3. stage' \in [Requests -> Server!Stages]
    BY <1>2, <2>1 DEF Typed, Server!Stages
  <2>4. \A g \in Goals : stage'[Goal(g)] = stage[Goal(g)]
    BY <1>2, <2>1, <2>2, Names DEF Typed
  <2>5. \A g \in Goals : stage'[Cancel(g)] = stage[Cancel(g)]
    BY <1>2, <2>1, <2>2, Names DEF Typed
  <2>6. \A g \in Goals : motion' = Goal(g) => motion = Goal(g)
    BY <1>2, <2>1, <2>2, Names
  <2> QED BY <1>2, <2>1, <2>3, <2>4, <2>5, <2>6
<1>6. CASE Server!Complete \/ Server!Approach
  <2>1. op' = op /\ motion' \in {NoMotion, Blending} /\ stage' = stage
    BY <1>6 DEF Server!Complete, Server!Approach
  <2> QED BY <2>1, Names DEF Typed
<1>7. \/ \E i \in Requests : Server!Take(i)
      \/ \E i \in Requests : Server!Callback(i)
      \/ Server!Complete \/ Server!Approach
  BY DEF Server!ServerNext
<1> QED BY <1>4, <1>5, <1>6, <1>7

\* A request is sent.
LEMMA SendStep ==
  ASSUME IInv, NEW i \in Requests, NEW o \in OpNames, Server!Send(i, o),
         UNCHANGED <<status, thread, refused>>,
         \A g \in Goals : i = Goal(g) => o = "goal",
         \A g \in Goals : i = Cancel(g) => o = "cancel" /\ stage[Goal(g)] = "answered"
  PROVE  IInv'
<1>1. /\ op' = [op EXCEPT ![i] = o] /\ stage' = [stage EXCEPT ![i] = "queued"]
      /\ stage[i] = "unsent" /\ motion' = motion
  BY DEF Server!Send
<1>2. Typed'
  BY <1>1 DEF IInv, Typed, Server!Stages
<1>3. Ops'
  BY <1>1, Names DEF IInv, Typed, Ops
<1>4. Born'
  BY <1>1, Names DEF IInv, Typed, Born
<1> QED BY <1>1, <1>2, <1>3, <1>4 DEF IInv, Lives, AtRest

\* A step that takes goal g to status u and its thread to label l.
LEMMA Update ==
  ASSUME IInv, NEW g \in Goals, NEW u \in StatusNames, NEW l \in Labels,
         stage[Goal(g)] = "answered",
         op' = op, stage' = stage,
         status' = [status EXCEPT ![g] = u], thread' = [thread EXCEPT ![g] = l],
         u \in Ended => l = "done",
         l \in {"stopCanceled", "cancel"} => u = "canceling",
         l \notin {"none", "start"}, refused' \in {refused, refused \cup {g}},
         l \in {"cancel", "succeed", "done"} => motion' # Goal(g) \/ g \in refused',
         motion' \in {motion, NoMotion, Goal(g)}
  PROVE  IInv'
<1>1. Typed' /\ Ops'
  BY DEF IInv, Typed, Ops
<1>2. ASSUME NEW h \in Goals
      PROVE  /\ status'[h] = IF h = g THEN u ELSE status[h]
             /\ thread'[h] = IF h = g THEN l ELSE thread[h]
  BY DEF IInv, Typed
<1>3. Born'
  BY <1>2 DEF IInv, Born
<1>4. Lives'
  BY <1>2 DEF IInv, Lives
<1>5. AtRest'
  BY <1>2, Names DEF IInv, AtRest
<1> QED BY <1>1, <1>3, <1>4, <1>5 DEF IInv

\* The thread of a goal takes a step.
LEMMA ThreadStep ==
  ASSUME IInv, NEW g \in Goals, Thread(g)
  PROVE  IInv'
<1>1. op' = op /\ stage' = stage
  BY DEF Thread, Start, Check, Poll, StopRobot, Finish, callVars, serverVars
<1>2. stage[Goal(g)] = "answered"
  BY DEF Thread, Start, Check, Poll, StopRobot, Finish, IInv, Born
<1>3. status[g] \in StatusNames /\ (status[g] \in Ended => thread[g] = "done")
  BY DEF IInv, Typed, Lives
<1>4. ASSUME status' = status PROVE status' = [status EXCEPT ![g] = status[g]]
  BY <1>4 DEF IInv, Typed
<1>5. CASE Start(g)
  <2>0. refused' = refused /\ g \notin refused
    BY <1>5 DEF Start, IInv, AtRest
  <2>1. CASE GoTo(g, "check") /\ status' = status /\ motion' = Goal(g)
    <3>1. thread' = [thread EXCEPT ![g] = "check"] /\ thread[g] = "start"
      BY <2>1, <1>5 DEF GoTo, Start
    <3>2. status[g] \notin Ended
      BY <1>3, <3>1
    <3> QED BY <1>1, <1>2, <1>3, <1>4, <2>0, <2>1, <3>1, <3>2, Update DEF Labels
  <2>2. CASE SetStatus(g, "aborted") /\ GoTo(g, "done") /\ motion' = motion
    <3>1. /\ thread' = [thread EXCEPT ![g] = "done"] /\ status' = [status EXCEPT ![g] = "aborted"]
          /\ motion # Goal(g)
      BY <2>2, <1>5 DEF GoTo, SetStatus, Start, IInv, AtRest
    <3> QED BY <1>1, <1>2, <2>0, <2>2, <3>1, Update DEF Labels, StatusNames, Ended
  <2> QED BY <1>5, <2>1, <2>2 DEF Start
<1>6. CASE Check(g) \/ Poll(g)
  <2>1. PICK l \in {"gone", "stopCanceled", "poll", "stopArrived", "check"} :
          /\ thread' = [thread EXCEPT ![g] = l]
          /\ l = "stopCanceled" => status[g] = "canceling"
    BY <1>6 DEF Check, Poll, GoTo
  <2>2. UNCHANGED <<status, motion, refused>> /\ thread[g] \in {"check", "poll"}
    BY <1>6 DEF Check, Poll, serverVars
  <2>3. status[g] \notin Ended
    BY <1>3, <2>2
  <2> QED BY <1>1, <1>2, <1>3, <1>4, <2>1, <2>2, <2>3, Update DEF Labels
<1>7. CASE StopRobot(g)
  <2>1. PICK l \in {"cancel", "succeed"} :
          /\ thread' = [thread EXCEPT ![g] = l]
          /\ l = "cancel" => status[g] = "canceling"
    BY <1>7 DEF StopRobot, GoTo, IInv, Lives
  <2>2. /\ status' = status /\ thread[g] \in {"stopCanceled", "stopArrived"}
        /\ \/ motion' = NoMotion /\ refused' = refused
           \/ motion' = motion /\ refused' = refused \cup {g}
    BY <1>7 DEF StopRobot
  <2>3. status[g] \notin Ended
    BY <1>3, <2>2
  <2> QED BY <1>1, <1>2, <1>3, <1>4, <2>1, <2>2, <2>3, Names, Update DEF Labels
<1>8. CASE Finish(g)
  <2>1. PICK u \in {"canceled", "succeeded"} : status' = [status EXCEPT ![g] = u]
    BY <1>8 DEF Finish, SetStatus
  <2>2. /\ thread' = [thread EXCEPT ![g] = "done"] /\ UNCHANGED <<motion, refused>>
        /\ thread[g] \in {"cancel", "succeed"}
    BY <1>8 DEF Finish, GoTo, serverVars
  <2>3. motion # Goal(g) \/ g \in refused
    BY <2>2 DEF IInv, AtRest
  <2> QED BY <1>1, <1>2, <2>1, <2>2, <2>3, Update DEF Labels, StatusNames, Ended
<1> QED BY <1>5, <1>6, <1>7, <1>8 DEF Thread

-----------------------------------------------------------------------------

LEMMA InitIInv == Init => IInv
<1> SUFFICES ASSUME Init PROVE IInv
  OBVIOUS
<1>1. \A i \in Requests : op[i] = "none" /\ stage[i] = "unsent"
  BY DEF Init, Server!ServerInit, Server!NoService
<1>2. Typed
  BY DEF Init, Server!ServerInit, Server!NoService, Server!Stages, Typed, OpNames,
         StatusNames, Labels
<1>3. Ops /\ Born
  BY <1>1, Names DEF Init, Ops, Born
<1>4. Lives /\ AtRest
  BY Names DEF Init, Server!ServerInit, Lives, AtRest, Ended
<1> QED BY <1>2, <1>3, <1>4 DEF IInv

LEMMA NextIInv == IInv /\ [Next]_vars => IInv'
<1> SUFFICES ASSUME IInv, [Next]_vars PROVE IInv'
  OBVIOUS
<1>1. CASE Send
  <2>0. UNCHANGED <<status, thread, refused>>
    BY <1>1 DEF Send
  <2>1. ASSUME NEW i \in Calls, NEW o \in {"move", "amove", "pause", "stop"}, Server!Send(i, o)
        PROVE  IInv'
    <3>0. o \in OpNames
      BY DEF OpNames, Server!Services
    <3>1. i \in Requests /\ \A g \in Goals : i # Goal(g) /\ i # Cancel(g)
      BY Names DEF Requests
    <3> QED BY <2>0, <2>1, <3>0, <3>1, SendStep
  <2>2. ASSUME NEW h \in Goals, Server!Send(Goal(h), "goal") PROVE IInv'
    <3>0. "goal" \in OpNames
      BY DEF OpNames
    <3>1. Goal(h) \in Requests /\ \A g \in Goals : Goal(h) # Cancel(g)
      BY Names
    <3> QED BY <2>0, <2>2, <3>0, <3>1, SendStep
  <2>3. ASSUME NEW h \in Goals, stage[Goal(h)] = "answered", Server!Send(Cancel(h), "cancel")
        PROVE IInv'
    <3>0. "cancel" \in OpNames
      BY DEF OpNames
    <3>1. /\ Cancel(h) \in Requests
          /\ \A g \in Goals : Cancel(h) # Goal(g) /\ (Cancel(h) = Cancel(g) => g = h)
      BY Names DEF Cancel
    <3>2. \A g \in Goals : Cancel(h) = Cancel(g) => stage[Goal(g)] = "answered"
      BY <2>3, <3>1
    <3> QED BY <2>0, <2>3, <3>0, <3>1, <3>2, SendStep
  <2> QED BY <1>1, <2>1, <2>2, <2>3 DEF Send
<1>2. ASSUME NEW g \in Goals, AcceptGoal(g) PROVE IInv'
  <2> USE DEF IInv
  <2>1. /\ op' = op /\ motion' = motion /\ refused' = refused
        /\ stage' = [stage EXCEPT ![Goal(g)] = "answered"]
        /\ status' = [status EXCEPT ![g] = "executing"]
        /\ thread' = [thread EXCEPT ![g] = "start"]
        /\ status[g] = "unknown" /\ thread[g] = "none"
    BY <1>2 DEF AcceptGoal, Server!Answer, SetStatus, GoTo, Born
  <2>2. Typed'
    BY <2>1, Names DEF Typed, Server!Stages, StatusNames, Labels
  <2>5. Ops'
    BY <2>1 DEF Ops
  <2>3. Born'
    BY <2>1, Names DEF Typed, Born
  <2>4. Lives' /\ AtRest'
    BY <2>1 DEF Typed, Lives, AtRest, Ended
  <2> QED BY <2>2, <2>3, <2>4, <2>5
<1>3. ASSUME NEW g \in Goals, AcceptCancel(g) PROVE IInv'
  <2> USE DEF IInv
  <2>1. /\ op' = op /\ motion' = motion /\ thread' = thread /\ refused' = refused
        /\ stage' = [stage EXCEPT ![Cancel(g)] = "answered"]
        /\ status' = [status EXCEPT ![g] = IF status[g] \in Ended THEN status[g] ELSE "canceling"]
        /\ stage[Cancel(g)] = "taken"
    BY <1>3 DEF AcceptCancel, Server!Answer, SetStatus
  <2>2. stage[Goal(g)] = "answered"
    BY <2>1 DEF Born
  <2>3. Typed'
    <3>1. (IF status[g] \in Ended THEN status[g] ELSE "canceling") \in StatusNames
      BY DEF Typed, StatusNames
    <3> QED BY <2>1, <3>1, Names DEF Typed, Server!Stages
  <2>6. Ops'
    BY <2>1 DEF Ops
  <2>4. Born'
    BY <2>1, <2>2, Names DEF Typed, Born
  <2>5. Lives' /\ AtRest'
    BY <2>1 DEF Typed, Lives, AtRest, Ended
  <2> QED BY <2>3, <2>4, <2>5, <2>6
<1>4. ASSUME NEW g \in Goals, Thread(g) PROVE IInv'
  BY <1>4, ThreadStep
<1>5. CASE Released
  <2>1. op' = op /\ stage' = stage /\ motion' = NoMotion /\ UNCHANGED <<status, thread, refused>>
    BY <1>5 DEF Released, callVars
  <2> QED BY <2>1, Names DEF IInv, Typed, Ops, Born, Lives, AtRest
<1>6. CASE Serve
  <2>1. Server!ServerNext /\ UNCHANGED <<status, thread, refused>>
    BY <1>6 DEF Serve
  <2> QED BY <2>1, ServiceStep DEF IInv, Typed, Ops, Born, Lives, AtRest
<1>7. CASE Shutdown \/ UNCHANGED vars
  BY <1>7 DEF Shutdown, vars, serverVars, IInv, Typed, Ops, Born, Lives, AtRest
<1> QED BY <1>1, <1>2, <1>3, <1>4, <1>5, <1>6, <1>7 DEF Next, ServeGoals

LEMMA Invariance == Spec => []IInv
  BY InitIInv, NextIInv, PTL DEF Spec

\* The variables that IInv does not speak of
Rest ==
  /\ okay \in [Requests -> BOOLEAN]
  /\ motion \in Requests \cup {NoMotion, Blending} /\ paused \in BOOLEAN
  /\ completed \subseteq Requests
  /\ ctxOk \in BOOLEAN /\ refused \subseteq Goals

LEMMA RestStep == Rest /\ [Next]_vars => Rest'
<1> SUFFICES ASSUME Rest, [Next]_vars PROVE Rest'
  OBVIOUS
<1>1. ASSUME NEW i, NEW o, Server!Send(i, o), UNCHANGED <<ctxOk, refused>> PROVE Rest'
  BY <1>1 DEF Rest, Server!Send
<1>2. ASSUME NEW i, NEW b \in BOOLEAN, Server!Answer(i, b), motion' \in {motion, i, NoMotion},
             i \in Requests, paused' \in BOOLEAN, UNCHANGED <<completed, ctxOk, refused>>
      PROVE  Rest'
  BY <1>2 DEF Rest, Server!Answer
<1>3. CASE Send
  BY <1>1, <1>3 DEF Send
<1>4. ASSUME NEW g \in Goals, ServeGoals(g) PROVE Rest'
  BY <1>2, <1>4, Names DEF ServeGoals, AcceptGoal, AcceptCancel, Rest
<1>5. ASSUME NEW g \in Goals, Thread(g) PROVE Rest'
  BY <1>5, Names DEF Thread, Start, Check, Poll, StopRobot, Finish, serverVars, callVars, Rest
<1>6. CASE Released \/ Shutdown \/ UNCHANGED vars
  BY <1>6 DEF Released, Shutdown, callVars, serverVars, vars, Rest
<1>7. CASE Serve
  <2>1. ASSUME NEW i \in Requests, Server!Take(i) \/ Server!Callback(i), UNCHANGED <<ctxOk, refused>>
        PROVE  Rest'
    <3>1. CASE Server!StartMove(i) \/ Server!StartWait(i) \/ Server!Take(i)
      BY <2>1, <3>1 DEF Server!StartMove, Server!StartWait, Server!Take, Rest
    <3>2. CASE Server!StartAsync(i) \/ Server!RefuseMove(i) \/ Server!MoveReturns(i)
               \/ Server!WaitReturns(i) \/ Server!Stop(i)
      BY <1>2, <2>1, <3>2
         DEF Server!StartAsync, Server!RefuseMove, Server!MoveReturns, Server!WaitReturns,
             Server!Stop, Rest
    <3>3. CASE Server!Pause(i) \/ Server!Resume(i)
      BY <1>2, <2>1, <3>3 DEF Server!Pause, Server!Resume, Rest
    <3> QED BY <2>1, <3>1, <3>2, <3>3 DEF Server!Callback
  <2>2. ASSUME Server!Complete \/ Server!Approach, UNCHANGED <<ctxOk, refused>> PROVE Rest'
    BY <2>2 DEF Server!Complete, Server!Approach, Rest
  <2> QED BY <1>7, <2>1, <2>2 DEF Serve, Server!ServerNext
<1> QED BY <1>3, <1>4, <1>5, <1>6, <1>7 DEF Next

\* Goals, requests and the robot keep their types, for any goals and calls.
THEOREM TypeCorrect == Spec => []TypeOK
<1>1. Init => Rest
  BY DEF Init, Server!ServerInit, Rest
<1>2. IInv /\ Rest => TypeOK
  BY DEF IInv, Typed, OpNames, StatusNames, Labels, Rest, TypeOK
<1> QED BY <1>1, <1>2, RestStep, Invariance, PTL DEF Spec

\* The robot does not execute the motion of a goal that has ended, unless it was
\* the stop of that goal that DRFL refused.
THEOREM EndedGoalsAreStill == Spec => []EndedGoalIsStill
<1>1. IInv => EndedGoalIsStill
  BY DEF IInv, Lives, AtRest, EndedGoalIsStill
<1> QED BY <1>1, Invariance, PTL

-----------------------------------------------------------------------------
(***************************************************************************)
(* The services' side.  That the robot executes what a blocked callback    *)
(* waits for is lost here, because goals start motions outside of the      *)
(* group; what is left is that the motion of a sync service is that of a   *)
(* blocked callback (Held), and that one callback of a group runs at a     *)
(* time (OneAtATime).                                                      *)
(***************************************************************************)
Held ==
  \A i \in Requests : motion = i =>
    stage[i] = (IF op[i] \in Server!SyncMoves THEN "blocked" ELSE "answered")

Running(i) == stage[i] \in {"taken", "blocked"}

OneAtATime ==
  \A i, j \in Requests :
    Running(i) /\ Running(j) /\ Server!Group(op[i]) = Server!Group(op[j]) => i = j

\* A goal that has a thread was accepted.
Accepted == \A g \in Goals : thread[g] # "none" => status[g] # "unknown"

\* A request that is not answered changes its stage, and the robot keeps what it
\* does, rests or is about to.
LEMMA HeldByOthers ==
  ASSUME Held, NEW j \in Requests, motion # j, motion' \in {motion, NoMotion, Blending},
         \A i \in Requests : i # j => op'[i] = op[i] /\ stage'[i] = stage[i]
  PROVE  Held'
BY RobotAssumption DEF Held

\* What a step of the services makes of it.
LEMMA ServiceHolds ==
  ASSUME Typed, Held, Server!ServerNext
  PROVE  Held'
<1>1. ASSUME NEW j \in Requests, Server!Take(j) PROVE Held'
  <2>1. motion # j /\ motion' = motion /\ \A i \in Requests : i # j => op'[i] = op[i] /\ stage'[i] = stage[i]
    BY <1>1 DEF Server!Take, Typed, Held
  <2> QED BY <2>1, HeldByOthers
<1>2. ASSUME NEW j \in Requests, Server!Callback(j) PROVE Held'
  <2>1. op' = op /\ \A i \in Requests : i # j => stage'[i] = stage[i]
    BY <1>2 DEF Server!Callback, Server!StartMove, Server!StartAsync, Server!RefuseMove,
                Server!MoveReturns, Server!StartWait, Server!WaitReturns, Server!Pause,
                Server!Resume, Server!Stop, Server!Answer, Typed
  <2>2. CASE Server!StartMove(j)
    BY <2>1, <2>2 DEF Server!StartMove, Typed, Held
  <2>3. CASE Server!StartAsync(j)
    BY <2>1, <2>3 DEF Server!StartAsync, Server!Answer, Typed, Held, Server!SyncMoves
  <2>4. CASE Server!MoveReturns(j)
    BY <2>1, <2>4, HeldByOthers DEF Server!MoveReturns
  <2>5. CASE \/ Server!RefuseMove(j) \/ Server!StartWait(j) \/ Server!WaitReturns(j)
             \/ Server!Pause(j) \/ Server!Resume(j) \/ Server!Stop(j)
    <3>1. motion # j
      BY <2>5, RobotAssumption DEF Server!RefuseMove, Server!StartWait, Server!WaitReturns,
        Server!Pause, Server!Resume, Server!Stop, Held, Server!SyncMoves
    <3>2. motion' \in {motion, NoMotion}
      BY <2>5 DEF Server!RefuseMove, Server!StartWait, Server!WaitReturns, Server!Pause,
        Server!Resume, Server!Stop
    <3> QED BY <2>1, <3>1, <3>2, HeldByOthers
  <2> QED BY <1>2, <2>2, <2>3, <2>4, <2>5 DEF Server!Callback
<1>3. CASE Server!Complete \/ Server!Approach
  BY <1>3, RobotAssumption DEF Server!Complete, Server!Approach, Held
<1> QED BY <1>1, <1>2, <1>3 DEF Server!ServerNext

\* Only Take lets a callback begin, and it finds the group free.
LEMMA ServiceTakesTurns ==
  ASSUME Typed, OneAtATime, Server!ServerNext
  PROVE  OneAtATime'
<1>1. ASSUME op' = op, \A i \in Requests : Running(i)' => Running(i) PROVE OneAtATime'
  BY <1>1 DEF OneAtATime, Running
<1>2. ASSUME NEW j \in Requests, Server!Take(j) PROVE OneAtATime'
  <2>1. op' = op /\ \A i \in Requests : i # j => stage'[i] = stage[i]
    BY <1>2 DEF Server!Take, Typed
  <2>2. \A i \in Requests : Running(i) => Server!Group(op[i]) # Server!Group(op[j])
    BY <1>2 DEF Server!Take, Server!GroupFree, Server!Running, Running
  <2> QED BY <2>1, <2>2 DEF OneAtATime, Running
<1>3. ASSUME NEW j \in Requests, Server!Callback(j) PROVE OneAtATime'
  <2>1. op' = op /\ Running(j) /\ \A i \in Requests : i # j => stage'[i] = stage[i]
    BY <1>3 DEF Server!Callback, Server!StartMove, Server!StartAsync, Server!RefuseMove,
                Server!MoveReturns, Server!StartWait, Server!WaitReturns, Server!Pause,
                Server!Resume, Server!Stop, Server!Answer, Typed, Running
  <2> QED BY <1>1, <2>1 DEF Running
<1>4. CASE Server!Complete \/ Server!Approach
  BY <1>1, <1>4 DEF Server!Complete, Server!Approach, Running
<1> QED BY <1>2, <1>3, <1>4 DEF Server!ServerNext

Shared == Held /\ OneAtATime /\ Accepted

LEMMA SharedStep ==
  ASSUME IInv, Shared, [Next]_vars
  PROVE  Shared'
<1>0. Typed /\ Ops /\ Born /\ Held /\ OneAtATime /\ Accepted
  BY DEF IInv, Shared
\* A request that runs no callback, or ends it, changes.
<1>1. ASSUME NEW j \in Requests, motion # j, motion' = motion, ~ Running(j)',
             \A i \in Requests : i # j => op'[i] = op[i] /\ stage'[i] = stage[i], Accepted'
      PROVE  Shared'
  <2>1. Held'
    BY <1>0, <1>1, HeldByOthers
  <2>2. OneAtATime'
    BY <1>0, <1>1 DEF OneAtATime, Running
  <2> QED BY <1>1, <2>1, <2>2 DEF Shared
<1>2. ASSUME NEW j \in Requests, NEW o, Server!Send(j, o), UNCHANGED <<status, thread>>
      PROVE  Shared'
  <2>1. /\ motion # j /\ motion' = motion /\ ~ Running(j)'
        /\ \A i \in Requests : i # j => op'[i] = op[i] /\ stage'[i] = stage[i]
    BY <1>0, <1>2 DEF Server!Send, Typed, Held, Running
  <2> QED BY <1>0, <1>1, <1>2, <2>1 DEF Accepted
<1>3. CASE Send
  BY <1>2, <1>3, Names DEF Send, Requests
<1>4. ASSUME NEW j \in Requests, NEW b, Server!Answer(j, b), stage[j] = "taken",
             UNCHANGED <<op, motion>>, Accepted'
      PROVE  Shared'
  <2>1. /\ motion # j /\ ~ Running(j)'
        /\ \A i \in Requests : i # j => op'[i] = op[i] /\ stage'[i] = stage[i]
    BY <1>0, <1>4 DEF Server!Answer, Typed, Held, Running
  <2> QED BY <1>1, <1>4, <2>1
<1>5. ASSUME NEW g \in Goals, ServeGoals(g) PROVE Shared'
  <2>1. CASE AcceptGoal(g)
    <3>1. Accepted'
      BY <1>0, <2>1 DEF AcceptGoal, SetStatus, GoTo, Typed, Accepted
    <3> QED BY <1>4, <2>1, <3>1, Names DEF AcceptGoal
  <2>2. CASE AcceptCancel(g)
    <3>1. Accepted'
      BY <1>0, <2>2 DEF AcceptCancel, SetStatus, Typed, Accepted, Ended
    <3> QED BY <1>4, <2>2, <3>1, Names DEF AcceptCancel
  <2> QED BY <1>5, <2>1, <2>2 DEF ServeGoals
\* Only Start gives the robot to a goal, which has been accepted.
<1>6. ASSUME NEW g \in Goals, Thread(g) PROVE Shared'
  <2>1. op' = op /\ stage' = stage
    BY <1>6 DEF Thread, Start, Check, Poll, StopRobot, Finish, callVars, serverVars
  <2>2. motion' \in {motion, NoMotion, Goal(g)}
    BY <1>6 DEF Thread, Start, Check, Poll, StopRobot, Finish, callVars, serverVars
  <2>3. motion' = Goal(g) => stage[Goal(g)] = "answered" /\ op[Goal(g)] \notin Server!SyncMoves
    BY <1>0, <1>6, Names DEF Thread, Start, Check, Poll, StopRobot, Finish, Born, Ops, Server!SyncMoves
  <2>4. Held'
    BY <1>0, <2>1, <2>2, <2>3, RobotAssumption DEF Held
  <2>5. Accepted'
    BY <1>0, <1>6 DEF Thread, Start, Check, Poll, StopRobot, Finish, GoTo, SetStatus, Typed, Accepted
  <2> QED BY <1>0, <2>1, <2>4, <2>5 DEF Shared, OneAtATime, Running
<1>7. CASE Released \/ Shutdown \/ UNCHANGED vars
  BY <1>0, <1>7, RobotAssumption DEF Released, Shutdown, callVars, serverVars, vars, Shared, Held,
    OneAtATime, Running, Accepted
<1>8. CASE Serve
  <2>1. Server!ServerNext /\ UNCHANGED <<status, thread>>
    BY <1>8 DEF Serve
  <2>2. Held' /\ OneAtATime'
    BY <1>0, <2>1, ServiceHolds, ServiceTakesTurns
  <2> QED BY <1>0, <2>1, <2>2 DEF Shared, Accepted
<1> QED BY <1>3, <1>5, <1>6, <1>7, <1>8 DEF Next

\* What the services themselves may do to the motion of a sync service.
LEMMA ServiceKeeps ==
  ASSUME Typed, Ops, Held, OneAtATime, Server!ServerNext,
         NEW i \in Calls, motion = i, op[i] \in Server!SyncMoves, motion' # i
  PROVE  i \in completed' \/ MoveStopped
<1>0. i \in Requests /\ Running(i) /\ Server!Group(op[i]) = "default" /\ i # NoMotion /\ i # Blending
  BY RobotAssumption DEF Requests, Held, Running, Server!Group, Server!SyncMoves
<1>1. ASSUME NEW j \in Requests, Server!StartMove(j) \/ Server!StartAsync(j) PROVE FALSE
  <2>1. Running(j) /\ Server!Group(op[j]) = "default" /\ stage[j] = "taken"
    BY <1>1 DEF Server!StartMove, Server!StartAsync, Running, Server!Group, Server!SyncMoves
  <2>2. stage[i] = "blocked"
    BY <1>0 DEF Held
  <2> QED BY <1>0, <2>1, <2>2 DEF OneAtATime
<1>2. ASSUME NEW j \in Requests, Server!Stop(j) PROVE MoveStopped
  <2>1. op[j] = "stop" /\ stage[j] = "taken" /\ stage'[j] = "answered"
    BY <1>2 DEF Server!Stop, Server!Answer, Typed
  <2>2. \A g \in Goals : op[Goal(g)] # "stop" /\ op[Cancel(g)] # "stop"
    BY DEF Ops
  <2>3. j \in Calls
    BY <2>1, <2>2 DEF Requests
  <2> QED BY <2>1, <2>3 DEF MoveStopped
<1>3. CASE Server!Complete \/ Server!Approach
  BY <1>0, <1>3 DEF Server!Complete, Server!Approach
<1>4. ASSUME NEW j \in Requests, Server!Take(j) \/ Server!Callback(j)
      PROVE  Server!StartMove(j) \/ Server!StartAsync(j) \/ Server!Stop(j)
  BY <1>4 DEF Server!Take, Server!Callback, Server!RefuseMove, Server!MoveReturns, Server!StartWait,
    Server!WaitReturns, Server!Pause, Server!Resume
<1> QED BY <1>1, <1>2, <1>3, <1>4 DEF Server!ServerNext

\* A service that waits for its motion loses the robot to a goal only as long as
\* that goal's client has not been told of its end.
THEOREM EndedGoalsDisturbNobody == Spec => ServiceLosesRobotToGoals
<1> DEFINE Lost(i) == motion = i /\ op[i] \in Server!SyncMoves /\ motion' # i
           Because(i) == i \in completed' \/ MoveStopped \/ \E g \in Goals : Disturbs(g)
<1>1. Init => Shared
  BY RobotAssumption DEF Init, Server!ServerInit, Shared, Held, OneAtATime, Running, Accepted
<1>2. IInv /\ Shared /\ [Next]_vars => \A i \in Calls : Lost(i) => Because(i)
  <2> SUFFICES ASSUME IInv, Shared, [Next]_vars, NEW i \in Calls, Lost(i) PROVE Because(i)
    OBVIOUS
  <2>0. Typed /\ Ops /\ Lives /\ Held /\ OneAtATime /\ Accepted
    BY DEF IInv, Shared
  <2>1. CASE Serve
    BY <2>0, <2>1, ServiceKeeps DEF Serve
  <2>2. ASSUME NEW g \in Goals, Thread(g) PROVE Because(i)
    <3>1. motion' # motion
      OBVIOUS
    <3>2. /\ thread[g] \in {"start", "stopCanceled", "stopArrived"}
          /\ \E l \in {"check", "cancel", "succeed"} : thread' = [thread EXCEPT ![g] = l]
          /\ status' = status
      BY <2>2, <3>1 DEF Thread, Start, Check, Poll, StopRobot, Finish, GoTo, callVars, serverVars
    <3>3. status[g] \in {"executing", "canceling"}
      BY <2>0, <3>2 DEF Typed, StatusNames, Lives, Accepted
    <3>4. thread'[g] # thread[g]
      BY <2>0, <3>2 DEF Typed
    <3> QED BY <3>2, <3>3, <3>4 DEF Disturbs
  <2>3. CASE Released
    BY <2>3, Names DEF Released
  <2>4. ASSUME NEW g \in Goals, ServeGoals(g) PROVE FALSE
    BY <2>4 DEF ServeGoals, AcceptGoal, AcceptCancel
  <2>5. CASE Send \/ Shutdown \/ UNCHANGED vars
    BY <2>5 DEF Send, Server!Send, Shutdown, serverVars, vars
  <2> QED BY <2>1, <2>2, <2>3, <2>4, <2>5 DEF Next
<1>3. Spec => []Shared
  BY <1>1, SharedStep, Invariance, PTL DEF Spec
<1> QED BY <1>2, <1>3, Invariance, PTL DEF Spec, ServiceLosesRobotToGoals

(***************************************************************************)
(* A cancel request that has its answer is never forgotten: its goal has   *)
(* ended, or it is being canceled and its thread, which the shutdown alone *)
(* ends before the goal, still has to see it.  It is what CancelEndsGoal   *)
(* rests on, besides fairness.                                             *)
(***************************************************************************)
Goes(g) == thread[g] \notin {"none", "done"} /\ (thread[g] = "gone" => ~ctxOk)

CancelIsKept ==
  \A g \in Goals : stage[Cancel(g)] = "answered" =>
    status[g] \in Ended \/ (status[g] = "canceling" /\ Goes(g))

\* The handle of a goal that was canceled says so.
Canceling ==
  \A g \in Goals : stage[Cancel(g)] = "answered" => status[g] \in {"canceling"} \cup Ended

\* A goal that was accepted and has not ended has its thread.
HasThread == \A g \in Goals : stage[Goal(g)] = "answered" => status[g] \in Ended \/ Goes(g)

LEMMA ThreadKept ==
  ASSUME IInv, HasThread, [Next]_vars
  PROVE  HasThread'
<1>0. Typed /\ Ops /\ Born /\ Lives
  BY DEF IInv
<1>1. ASSUME NEW j \in Requests, NEW o, Server!Send(j, o), UNCHANGED <<status, thread, ctxOk>> PROVE HasThread'
  BY <1>0, <1>1, Names DEF Server!Send, Typed, HasThread, Goes
<1>2. CASE Send
  BY <1>1, <1>2, Names DEF Send, Requests
<1>3. ASSUME NEW g \in Goals, ServeGoals(g) PROVE HasThread'
  <2>1. CASE AcceptGoal(g)
    BY <1>0, <2>1, Names DEF AcceptGoal, Server!Answer, GoTo, SetStatus, Typed, HasThread, Goes
  <2>2. CASE AcceptCancel(g)
    BY <1>0, <2>2, Names DEF AcceptCancel, Server!Answer, SetStatus, Typed, HasThread, Goes
  <2> QED BY <1>3, <2>1, <2>2 DEF ServeGoals
<1>4. ASSUME NEW g \in Goals, Thread(g) PROVE HasThread'
  BY <1>0, <1>4 DEF Thread, Start, Check, Poll, StopRobot, Finish, GoTo, SetStatus, callVars, serverVars, Typed, HasThread, Goes, Ended
<1>5. CASE Released \/ Shutdown \/ UNCHANGED vars
  BY <1>5 DEF Released, Shutdown, callVars, serverVars, vars, HasThread, Goes
<1>6. CASE Serve
  BY <1>0, <1>6, ServiceStep DEF Serve, HasThread, Goes
<1> QED BY <1>2, <1>3, <1>4, <1>5, <1>6 DEF Next

LEMMA CancelingStep ==
  ASSUME IInv, Canceling, [Next]_vars
  PROVE  Canceling'
<1>0. Typed /\ Ops /\ Born /\ Lives
  BY DEF IInv
\* No cancel request is answered; a goal that is being canceled stays so or ends.
<1>1. ASSUME \A g \in Goals : stage'[Cancel(g)] = "answered" => stage[Cancel(g)] = "answered",
             \A g \in Goals : status[g] \in {"canceling"} \cup Ended =>
               status'[g] = status[g] \/ status'[g] \in Ended
      PROVE  Canceling'
  BY <1>1 DEF Canceling
<1>2. ASSUME NEW j \in Requests, NEW o, Server!Send(j, o), UNCHANGED <<status, thread>>
      PROVE Canceling'
  BY <1>0, <1>1, <1>2, Names DEF Server!Send, Typed
<1>3. CASE Send
  BY <1>2, <1>3, Names DEF Send, Requests
<1>4. ASSUME NEW g \in Goals, AcceptGoal(g) PROVE Canceling'
  <2>1. /\ stage[Goal(g)] = "taken" /\ stage' = [stage EXCEPT ![Goal(g)] = "answered"]
        /\ status' = [status EXCEPT ![g] = "executing"] /\ thread' = [thread EXCEPT ![g] = "start"]
    BY <1>4 DEF AcceptGoal, Server!Answer, SetStatus, GoTo
  <2>2. status[g] = "unknown"
    BY <1>0, <2>1 DEF Born
  <2> QED BY <1>0, <1>1, <2>1, <2>2, Names DEF Typed, Ended
<1>5. ASSUME NEW g \in Goals, AcceptCancel(g) PROVE Canceling'
  <2>1. /\ stage[Cancel(g)] = "taken" /\ stage' = [stage EXCEPT ![Cancel(g)] = "answered"]
        /\ status' = [status EXCEPT ![g] = IF status[g] \in Ended THEN status[g] ELSE "canceling"]
        /\ thread' = thread
    BY <1>5 DEF AcceptCancel, Server!Answer, SetStatus
  <2>2. \A h \in Goals : h # g => stage'[Cancel(h)] = stage[Cancel(h)] /\ status'[h] = status[h]
    BY <1>0, <2>1, Names DEF Typed, Cancel
  <2>3. status'[g] \in {"canceling"} \cup Ended
    BY <1>0, <2>1 DEF Typed
  <2> QED BY <2>1, <2>2, <2>3 DEF Canceling
<1>6. ASSUME NEW g \in Goals, Thread(g) PROVE Canceling'
  <2>1. /\ stage' = stage /\ \A h \in Goals : h # g => status'[h] = status[h]
        /\ status'[g] = status[g] \/ status'[g] \in Ended
    BY <1>0, <1>6 DEF Thread, Start, Check, Poll, StopRobot, Finish, GoTo, SetStatus, callVars, serverVars,
      Typed, Ended
  <2> QED BY <1>1, <2>1
<1>7. CASE Released \/ Shutdown \/ UNCHANGED vars
  BY <1>1, <1>7 DEF Released, Shutdown, callVars, serverVars, vars
<1>8. CASE Serve
  <2>1. ASSUME NEW g \in Goals, stage'[Cancel(g)] = "answered" PROVE stage[Cancel(g)] = "answered"
    BY <1>0, <1>8, <2>1, ServiceStep DEF Serve
  <2> QED BY <1>1, <1>8, <2>1 DEF Serve
<1> QED BY <1>3, <1>4, <1>5, <1>6, <1>7, <1>8 DEF Next, ServeGoals

\* An accepted cancel request reaches its goal's thread, whatever else happens.
THEOREM CancelsAreKept == Spec => []CancelIsKept
<1>1. Init => HasThread /\ Canceling
  BY Names DEF Init, Server!ServerInit, HasThread, Canceling
<1>2. IInv /\ HasThread /\ Canceling /\ [Next]_vars => HasThread' /\ Canceling'
  BY ThreadKept, CancelingStep
<1>3. IInv /\ HasThread /\ Canceling => CancelIsKept
  BY DEF IInv, Born, HasThread, Canceling, CancelIsKept
<1> QED BY <1>1, <1>2, <1>3, Invariance, PTL DEF Spec

\* No goal handle is ended twice, and none is canceled unless it was asked to be.
THEOREM TransitionsAreLegal == Spec => LegalTransitions
<1> DEFINE Legal ==
      \A g \in Goals :
        /\ status[g] \in Ended => status'[g] = status[g]
        /\ status'[g] = "canceled" => status[g] \in {"canceling", "canceled"}
<1>1. IInv /\ [Next]_vars => Legal
  <2> SUFFICES ASSUME IInv, [Next]_vars PROVE Legal
    OBVIOUS
  <2> USE DEF Ended
  <2>1. CASE status' = status
    BY <2>1
  <2>2. ASSUME NEW g \in Goals, AcceptGoal(g) PROVE Legal
    BY <2>2 DEF AcceptGoal, SetStatus, IInv, Typed, Born
  <2>3. ASSUME NEW g \in Goals, AcceptCancel(g) PROVE Legal
    BY <2>3 DEF AcceptCancel, SetStatus, IInv, Typed
  <2>4. ASSUME NEW g \in Goals, Start(g) PROVE Legal
    BY <2>4 DEF Start, SetStatus, IInv, Typed, Lives
  <2>5. ASSUME NEW g \in Goals, Finish(g) PROVE Legal
    BY <2>5 DEF Finish, SetStatus, IInv, Typed, Lives
  <2>6. \/ status' = status
        \/ \E g \in Goals : AcceptGoal(g) \/ AcceptCancel(g) \/ Start(g) \/ Finish(g)
    BY DEF Next, Send, ServeGoals, Thread, Check, Poll, StopRobot, Released, Serve,
           Shutdown, vars
  <2> HIDE DEF Legal
  <2> QED BY <2>1, <2>2, <2>3, <2>4, <2>5, <2>6
<1>2. [][Legal]_vars <=> LegalTransitions
  BY PTL DEF LegalTransitions
<1> QED BY <1>1, <1>2, Invariance, PTL DEF Spec

=============================================================================
