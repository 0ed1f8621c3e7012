------------------------- MODULE MotionServer_proofs -------------------------
(***************************************************************************)
(* Proofs about MotionServer, for any set of requests.                     *)
(***************************************************************************)
EXTENDS MotionServer, TLAPS

(***************************************************************************)
(* Two callbacks of one group never run at once, and the motion the robot  *)
(* executes belongs either to a blocked sync callback or to an async       *)
(* request that has been answered.                                         *)
(***************************************************************************)
Exclusive ==
  \A i, j \in Ids : Running(i) /\ Running(j) /\ Group(op[i]) = Group(op[j]) => i = j

MotionHasOwner ==
  \A i \in Ids : motion = i => \/ op[i] \in SyncMoves /\ stage[i] = "blocked"
                               \/ op[i] = "amove" /\ stage[i] = "answered"

IInv == TypeOK /\ Exclusive /\ MotionHasOwner

-----------------------------------------------------------------------------
\* The service called by a request does not change once it is sent, and only
\* Take lets a callback begin: every other step keeps the set of running
\* callbacks or takes one out.
LEMMA NoNewCallback ==
  ASSUME Exclusive, op' = op,
         \A i \in Ids : Running(i)' => Running(i)
  PROVE  Exclusive'
  BY DEF Exclusive, Running, Group

\* A step that sends no request and leaves the motion alone, and the request
\* that owns it, keeps MotionHasOwner.
LEMMA OwnerKept ==
  ASSUME MotionHasOwner, motion' = motion, op' = op,
         \A i \in Ids : motion = i => stage'[i] = stage[i]
  PROVE  MotionHasOwner'
  BY DEF MotionHasOwner

\* Init establishes the inductive invariant: nothing has been sent.
LEMMA InitIInv == ServerInit => IInv
  <1> SUFFICES ASSUME ServerInit PROVE IInv
    OBVIOUS
  <1>1. TypeOK
    BY DEF ServerInit, TypeOK, Stages, NoService
  <1>2. Exclusive
    BY DEF ServerInit, Exclusive, Running
  <1>3. MotionHasOwner
    BY NoMotionAssumption DEF ServerInit, MotionHasOwner
  <1> QED
    BY <1>1, <1>2, <1>3 DEF IInv

\* Every step preserves the types.
LEMMA TypeStep == TypeOK /\ [Next]_serverVars => TypeOK'
  <1> SUFFICES ASSUME TypeOK, [Next]_serverVars PROVE TypeOK'
    OBVIOUS
  <1> USE DEF TypeOK, Stages, Answer, SyncMoves
  <1>1. ASSUME NEW i \in Ids, NEW o \in Services, Send(i, o) PROVE TypeOK'
    BY <1>1 DEF Send
  <1>2. ASSUME NEW i \in Ids, Take(i) PROVE TypeOK'
    BY <1>2 DEF Take
  <1>3. ASSUME NEW i \in Ids, Callback(i) PROVE TypeOK'
    <2>1. CASE StartMove(i)
      BY <2>1 DEF StartMove
    <2>2. CASE StartAsync(i)
      BY <2>2 DEF StartAsync
    <2>3. CASE RefuseMove(i)
      BY <2>3 DEF RefuseMove
    <2>4. CASE MoveReturns(i)
      BY <2>4 DEF MoveReturns
    <2>5. CASE StartWait(i)
      BY <2>5 DEF StartWait
    <2>6. CASE WaitReturns(i)
      BY <2>6 DEF WaitReturns
    <2>7. CASE Pause(i)
      BY <2>7 DEF Pause
    <2>8. CASE Resume(i)
      BY <2>8 DEF Resume
    <2>9. CASE Stop(i)
      BY <2>9 DEF Stop
    <2> QED
      BY <1>3, <2>1, <2>2, <2>3, <2>4, <2>5, <2>6, <2>7, <2>8, <2>9 DEF Callback
  <1>4. CASE Complete \/ Approach
    BY <1>4 DEF Complete, Approach
  <1>5. CASE UNCHANGED serverVars
    BY <1>5 DEF serverVars
  <1> QED
    BY <1>1, <1>2, <1>3, <1>4, <1>5 DEF Next, ServerNext

\* Every step preserves the inductive invariant.
LEMMA IInvStep == IInv /\ [Next]_serverVars => IInv'
  <1> SUFFICES ASSUME IInv, [Next]_serverVars PROVE IInv'
    OBVIOUS
  <1>0. TypeOK /\ Exclusive /\ MotionHasOwner /\ TypeOK'
    BY TypeStep DEF IInv
  <1>1. ASSUME NEW i \in Ids, NEW o \in Services, Send(i, o)
        PROVE  Exclusive' /\ MotionHasOwner'
    <2>1. ~Running(i) /\ ~Running(i)' /\ motion # i
      BY <1>0, <1>1 DEF Send, Running, MotionHasOwner, TypeOK
    <2>2. \A j \in Ids \ {i} : op'[j] = op[j] /\ stage'[j] = stage[j]
      BY <1>0, <1>1 DEF Send, TypeOK
    <2>3. Exclusive'
      BY <1>0, <2>1, <2>2 DEF Exclusive, Running, Group
    <2>4. motion' = motion
      BY <1>1 DEF Send
    <2>5. MotionHasOwner'
      BY <1>0, <2>1, <2>2, <2>4 DEF MotionHasOwner
    <2> QED
      BY <2>3, <2>5
  <1>2. ASSUME NEW i \in Ids, Take(i) PROVE Exclusive' /\ MotionHasOwner'
    <2>1. op' = op /\ motion' = motion /\ motion # i
      BY <1>0, <1>2 DEF Take, MotionHasOwner
    <2>2. \A j \in Ids \ {i} : stage'[j] = stage[j]
      BY <1>0, <1>2 DEF Take, TypeOK
    <2>3. \A j \in Ids : Running(j) => Group(op[j]) # Group(op[i])
      BY <1>2 DEF Take, GroupFree
    <2>4. \A j \in Ids \ {i} : Running(j)' => Running(j)
      BY <2>2 DEF Running
    <2>5. Exclusive'
      BY <1>0, <2>1, <2>3, <2>4 DEF Exclusive, Group
    <2> QED
      BY <1>0, <2>1, <2>2, <2>5, OwnerKept
  <1>3. ASSUME NEW i \in Ids, Callback(i) PROVE Exclusive' /\ MotionHasOwner'
    <2>0. op' = op /\ Running(i) /\ \A j \in Ids \ {i} : stage'[j] = stage[j]
      BY <1>0, <1>3 DEF Callback, StartMove, StartAsync, RefuseMove, MoveReturns, StartWait,
        WaitReturns, Pause, Resume, Stop, Answer, Running, TypeOK
    <2>1. Exclusive'
      BY <1>0, <2>0, NoNewCallback DEF Running
    <2>2. CASE StartMove(i)
      BY <1>0, <2>0, <2>1, <2>2 DEF StartMove, MotionHasOwner, TypeOK, SyncMoves
    <2>3. CASE StartAsync(i)
      BY <1>0, <2>0, <2>1, <2>3 DEF StartAsync, Answer, MotionHasOwner, TypeOK
    <2>4. CASE Stop(i)
      <3>1. motion # i
        BY <1>0, <2>4 DEF Stop, MotionHasOwner, SyncMoves
      <3>2. motion' = NoMotion \/ motion' = motion
        BY <2>4 DEF Stop
      <3>3. CASE motion' = NoMotion
        BY <2>1, <3>3, NoMotionAssumption DEF MotionHasOwner
      <3>4. CASE motion' = motion
        BY <1>0, <2>0, <2>1, <3>1, <3>4, OwnerKept
      <3> QED
        BY <3>2, <3>3, <3>4
    <2>5. CASE \/ RefuseMove(i) \/ MoveReturns(i) \/ StartWait(i) \/ WaitReturns(i)
               \/ Pause(i) \/ Resume(i)
      <3>1. motion' = motion
        BY <2>5 DEF RefuseMove, MoveReturns, StartWait, WaitReturns, Pause, Resume
      <3>2. motion # i
        BY <1>0, <2>5, NoMotionAssumption DEF RefuseMove, MoveReturns, StartWait, WaitReturns,
          Pause, Resume, MotionHasOwner, SyncMoves
      <3> QED
        BY <1>0, <2>0, <2>1, <3>1, <3>2, OwnerKept
    <2> QED
      BY <1>3, <2>1, <2>2, <2>3, <2>4, <2>5 DEF Callback
  <1>4. CASE Complete \/ Approach
    <2>1. op' = op /\ stage' = stage /\ motion' \in {NoMotion, Blending}
      BY <1>4 DEF Complete, Approach
    <2> QED
      BY <1>0, <2>1, NoMotionAssumption, NoNewCallback DEF Running, MotionHasOwner, IInv
  <1>5. CASE UNCHANGED serverVars
    BY <1>0, <1>5, NoNewCallback, OwnerKept DEF serverVars, Running, IInv
  <1> QED
    BY <1>0, <1>1, <1>2, <1>3, <1>4, <1>5 DEF Next, ServerNext, IInv

\* The clients and the server, one step at a time, for modules that compose
\* MotionServer with its clients.
LEMMA SendKeeps ==
  ASSUME IInv, NEW i \in Ids, NEW o \in Services, Send(i, o)
  PROVE  IInv'
  BY IInvStep DEF Next

LEMMA ServerKeeps ==
  ASSUME IInv, ServerNext
  PROVE  IInv'
  BY IInvStep DEF Next

\* What the server does to a request: it serves nothing that was not sent, and
\* leaves alone what it has answered.
LEMMA Served ==
  ASSUME TypeOK, ServerNext, NEW i \in Ids
  PROVE  op' = op /\ (stage'[i] = "unsent" <=> stage[i] = "unsent")
                  /\ (stage[i] = "answered" => stage'[i] = "answered" /\ okay'[i] = okay[i])
  <1>1. ASSUME NEW j \in Ids, Take(j) \/ Callback(j)
        PROVE  /\ op' = op
               /\ stage[j] \in {"queued", "taken", "blocked"}
               /\ \E s \in {"taken", "blocked", "answered"} : stage' = [stage EXCEPT ![j] = s]
               /\ i # j => okay'[i] = okay[i]
    BY <1>1 DEF TypeOK, Take, Callback, StartMove, StartAsync, RefuseMove, MoveReturns, StartWait,
      WaitReturns, Pause, Resume, Stop, Answer
  <1>2. CASE \E j \in Ids : Take(j) \/ Callback(j)
    BY <1>1, <1>2 DEF TypeOK
  <1>3. CASE Complete \/ Approach
    BY <1>3 DEF Complete, Approach
  <1> QED
    BY <1>2, <1>3 DEF ServerNext

\* Whose motion the robot executes.
LEMMA Owner ==
  ASSUME IInv, motion \notin {NoMotion, Blending}
  PROVE  motion \in Ids /\ ((op[motion] \in SyncMoves /\ stage[motion] = "blocked")
                             \/ (op[motion] = "amove" /\ stage[motion] = "answered"))
  BY DEF IInv, TypeOK, MotionHasOwner

\* While a callback that holds the default group is blocked, no motion starts:
\* only StartMove and StartAsync start one, and their callbacks need the group.
LEMMA GroupHeld ==
  ASSUME IInv, ServerNext, NEW i \in Ids, stage[i] = "blocked", op[i] # "stop"
  PROVE  motion' \in {motion, NoMotion, Blending}
  <1>1. Running(i) /\ Group(op[i]) = "default"
    BY DEF Running, Group
  <1>2. ASSUME NEW j \in Ids, StartMove(j) \/ StartAsync(j) PROVE FALSE
    <2>1. Running(j) /\ stage[j] = "taken" /\ Group(op[j]) = "default"
      BY <1>2 DEF StartMove, StartAsync, Running, Group, SyncMoves
    <2> QED
      BY <1>1, <2>1 DEF IInv, Exclusive
  <1>3. ASSUME NEW j \in Ids, Callback(j) PROVE motion' \in {motion, NoMotion}
    BY <1>2, <1>3 DEF Callback, RefuseMove, MoveReturns, StartWait, WaitReturns, Pause, Resume, Stop
  <1> QED
    BY <1>3 DEF ServerNext, Take, Complete, Approach

\* So the motion of a sync request is not given up for another.
LEMMA MoveKept ==
  ASSUME IInv, ServerNext, NEW i \in Ids, motion = i, op[i] \in SyncMoves
  PROVE  motion' \in {i, NoMotion, Blending}
  <1>1. stage[i] = "blocked" /\ op[i] # "stop"
    BY DEF IInv, MotionHasOwner, SyncMoves
  <1> QED
    BY <1>1, GroupHeld

\* What a step of the server is to the robot: nothing, a motion that starts, a
\* stop of the motion under way, its end, or its approach to a blended target.
Idles ==
  /\ motion' = motion /\ completed' = completed
  /\ \A i \in Ids : stage[i] \in {"blocked", "answered"} => stage'[i] \in {"blocked", "answered"}
  /\ \A i \in Ids : stage'[i] \in {"queued", "taken"} => stage[i] \in {"queued", "taken"}
  /\ \A i \in Ids : op[i] \in SyncMoves /\ stage'[i] = "blocked" => stage[i] = "blocked"
  /\ \A i \in Ids : op[i] \in SyncMoves /\ stage'[i] = "answered" /\ okay'[i] =>
       (stage[i] = "answered" /\ okay[i]) \/ (stage[i] = "blocked" /\ motion # i)

Starts(i) ==
  /\ stage[i] = "taken" /\ op[i] \in SyncMoves \cup {"amove"}
  /\ motion' = i /\ completed' = completed
  /\ stage' = [stage EXCEPT ![i] = IF op[i] \in SyncMoves THEN "blocked" ELSE "answered"]

Stops(i) ==
  /\ stage[i] = "taken" /\ op[i] = "stop"
  /\ motion # NoMotion /\ motion' = NoMotion /\ completed' = completed
  /\ stage' = [stage EXCEPT ![i] = "answered"] /\ \A j \in Ids \ {i} : okay'[j] = okay[j]

LEMMA RobotSteps ==
  ASSUME IInv, ServerNext
  PROVE  op' = op /\ (\/ Idles \/ (\E i \in Ids : Starts(i)) \/ (\E i \in Ids : Stops(i))
                     \/ Complete \/ Approach)
  <1>0. TypeOK /\ MotionHasOwner
    BY DEF IInv
  <1>1. ASSUME NEW i \in Ids, Take(i) PROVE Idles /\ op' = op
    BY <1>0, <1>1 DEF Take, TypeOK, Idles
  <1>2. ASSUME NEW i \in Ids, StartMove(i) \/ StartAsync(i) PROVE Starts(i) /\ op' = op
    BY <1>2 DEF StartMove, StartAsync, Answer, Starts, SyncMoves
  <1>3. ASSUME NEW i \in Ids, RefuseMove(i) \/ MoveReturns(i) PROVE Idles /\ op' = op
    <2>1. CASE RefuseMove(i)
      BY <1>0, <2>1 DEF RefuseMove, Answer, TypeOK, Idles
    <2>2. CASE MoveReturns(i)
      BY <1>0, <2>2 DEF MoveReturns, Answer, TypeOK, Idles
    <2> QED
      BY <1>3, <2>1, <2>2
  <1>4. ASSUME NEW i \in Ids, StartWait(i) \/ WaitReturns(i) \/ Pause(i) \/ Resume(i)
        PROVE  Idles /\ op' = op
    <2>1. /\ op[i] \notin SyncMoves /\ op' = op /\ motion' = motion /\ completed' = completed
          /\ stage[i] \in {"taken", "blocked"}
          /\ \A j \in Ids \ {i} : stage'[j] = stage[j] /\ okay'[j] = okay[j]
          /\ stage'[i] \in {"blocked", "answered"}
      BY <1>0, <1>4 DEF StartWait, WaitReturns, Pause, Resume, Answer, TypeOK, SyncMoves
    <2> QED
      BY <2>1 DEF Idles
  <1>5. ASSUME NEW i \in Ids, Stop(i) PROVE (Idles \/ Stops(i)) /\ op' = op
    <2>1. /\ stage[i] = "taken" /\ op[i] = "stop" /\ op' = op
          /\ motion' \in {motion, NoMotion} /\ completed' = completed
          /\ stage' = [stage EXCEPT ![i] = "answered"]
          /\ \A j \in Ids \ {i} : okay'[j] = okay[j]
      BY <1>0, <1>5 DEF Stop, Answer, TypeOK
    <2>2. CASE motion' = motion
      BY <1>0, <2>1, <2>2 DEF TypeOK, Idles, SyncMoves
    <2>3. CASE motion' # motion
      BY <2>1, <2>3 DEF Stops
    <2> QED
      BY <2>1, <2>2, <2>3
  <1>6. ASSUME Complete \/ Approach PROVE op' = op
    BY <1>6 DEF Complete, Approach
  <1> QED
    BY <1>1, <1>2, <1>3, <1>4, <1>5, <1>6 DEF ServerNext, Callback

(***************************************************************************)
(* What the robot has carried out to its end was waited for or answered,   *)
(* and is not what it executes.                                            *)
(***************************************************************************)
Finished == \A i \in completed : stage[i] \in {"blocked", "answered"} /\ motion # i

LEMMA FinishedStep ==
  ASSUME IInv, Finished, ServerNext
  PROVE  Finished'
  <1>0. completed \subseteq Ids /\ stage \in [Ids -> Stages]
    BY DEF IInv, TypeOK
  <1>1. CASE Idles
    BY <1>0, <1>1 DEF Idles, Finished
  <1>2. CASE \E i \in Ids : Starts(i)
    BY <1>0, <1>2 DEF Starts, Finished
  <1>3. CASE \E i \in Ids : Stops(i)
    BY <1>0, <1>3, NoMotionAssumption DEF Stops, Finished
  <1>4. CASE Complete
    BY <1>0, <1>4, Owner, NoMotionAssumption DEF Complete, Finished
  <1>5. CASE Approach
    BY <1>0, <1>5, Owner, NoMotionAssumption DEF Approach, Finished
  <1> QED
    BY <1>1, <1>2, <1>3, <1>4, <1>5, RobotSteps

\* Where no request has a blending radius, the robot is never within one.
Unblended == motion # Blending /\ \A i \in Ids : op[i] # "blend"

LEMMA UnblendedStep ==
  ASSUME Unblended, ServerNext
  PROVE  Unblended'
  <1>1. ASSUME NEW i \in Ids, Take(i) \/ Callback(i) PROVE Unblended'
    <2>1. op' = op /\ motion' \in {motion, NoMotion, i}
      BY <1>1 DEF Take, Callback, StartMove, StartAsync, RefuseMove, MoveReturns, StartWait,
        WaitReturns, Pause, Resume, Stop
    <2> QED
      BY <2>1, NoMotionAssumption DEF Unblended
  <1>2. CASE Complete \/ Approach
    BY <1>2, NoMotionAssumption DEF Complete, Approach, Unblended
  <1> QED
    BY <1>1, <1>2 DEF ServerNext

\* The inductive invariant holds in every state of every behaviour.
THEOREM Invariance == Spec => []IInv
  BY InitIInv, IInvStep, PTL DEF Spec

-----------------------------------------------------------------------------
\* The state of the server keeps its types.
THEOREM TypeCorrect == Spec => []TypeOK
  <1>1. IInv => TypeOK
    BY DEF IInv
  <1> QED
    BY <1>1, Invariance, PTL

\* A client that has the answer to a sync motion may rely on the robot no
\* longer executing it.
THEOREM SyncMoveIsOver == Spec => []AnsweredMoveIsOver
  <1>1. IInv => AnsweredMoveIsOver
    BY DEF IInv, MotionHasOwner, AnsweredMoveIsOver, SyncMoves
  <1> QED
    BY <1>1, Invariance, PTL

\* A motion a client waits for is never given up for another one.
THEOREM SyncMoveKeepsRobot == Spec => BlockingMoveKeepsRobot
  <1> DEFINE Keeps == \A i \in Ids : motion = i /\ op[i] \in SyncMoves
                                        => motion' \in {i, NoMotion, Blending}
  <1>1. IInv /\ [Next]_serverVars => [Keeps]_serverVars
    BY MoveKept DEF Next, Send
  <1> QED
    BY <1>1, Invariance, PTL DEF Spec, BlockingMoveKeepsRobot

-----------------------------------------------------------------------------
(* What StopIsServed and StandstillFreesGroup rest on, besides fairness.   *)

(***************************************************************************)
(* What a callback that is blocked waits for: a motion service for its own *)
(* motion and no other, move_wait for an async motion or the rest of a     *)
(* blended one; a stop is never blocked.                                   *)
(***************************************************************************)
BlockedBy ==
  \A i \in Ids : stage[i] = "blocked" =>
    \/ op[i] \in SyncMoves /\ motion \in {i, NoMotion, Blending}
    \/ op[i] = "wait" /\ (motion \in {NoMotion, Blending} \/ op[motion] = "amove")

LEMMA BlockedByStep ==
  ASSUME IInv, BlockedBy, [Next]_serverVars
  PROVE  BlockedBy'
  <1>0. TypeOK /\ Exclusive /\ MotionHasOwner
    BY DEF IInv
  \* No callback becomes blocked, and no motion starts.
  <1>1. ASSUME \A i \in Ids : stage'[i] = "blocked" => stage[i] = "blocked" /\ op'[i] = op[i],
               \/ motion' \in {NoMotion, Blending}
               \/ motion' = motion /\ (motion \in Ids => op'[motion] = op[motion])
        PROVE  BlockedBy'
    BY <1>0, <1>1 DEF BlockedBy, TypeOK
  <1>2. ASSUME NEW i \in Ids, NEW o \in Services, Send(i, o) PROVE BlockedBy'
    <2>1. /\ motion' = motion /\ motion # i
          /\ \A j \in Ids : stage'[j] = "blocked" => stage[j] = "blocked" /\ op'[j] = op[j]
      BY <1>0, <1>2 DEF Send, TypeOK, MotionHasOwner
    <2>2. motion \in Ids => op'[motion] = op[motion]
      BY <1>0, <1>2, <2>1 DEF Send, TypeOK
    <2> QED
      BY <1>1, <2>1, <2>2
  <1>3. ASSUME NEW i \in Ids, StartMove(i) \/ StartWait(i) PROVE BlockedBy'
    <2>1. /\ Running(i) /\ stage[i] = "taken" /\ op[i] \in SyncMoves \cup {"wait"} /\ op' = op
          /\ Group(op[i]) = "default"
          /\ \A j \in Ids : stage'[j] = "blocked" => j = i \/ stage[j] = "blocked"
      BY <1>0, <1>3 DEF StartMove, StartWait, Running, Group, TypeOK, SyncMoves
    <2>2. ASSUME NEW j \in Ids, stage[j] = "blocked" PROVE FALSE
      <3>1. Running(j) /\ Group(op[j]) = "default"
        BY <2>2 DEF BlockedBy, Running, Group, SyncMoves
      <3> QED
        BY <1>0, <2>1, <2>2, <3>1 DEF Exclusive
    <2>3. CASE StartMove(i)
      BY <2>1, <2>2, <2>3 DEF StartMove, BlockedBy
    <2>4. CASE StartWait(i)
      <3>1. /\ motion' = motion /\ op[i] = "wait"
            /\ motion \in {NoMotion, Blending} \/ op[motion] = "amove"
        BY <1>0, <2>2, <2>4, Owner DEF StartWait, IInv
      <3> QED
        BY <2>1, <2>2, <3>1 DEF BlockedBy
    <2> QED
      BY <1>3, <2>3, <2>4
  <1>4. ASSUME NEW i \in Ids, StartAsync(i) PROVE BlockedBy'
    <2>1. \A j \in Ids : stage'[j] = "blocked" => stage[j] = "blocked"
      BY <1>0, <1>4 DEF StartAsync, Answer, TypeOK
    <2>2. ASSUME NEW j \in Ids, stage[j] = "blocked" PROVE FALSE
      <3>1. Running(j) /\ Group(op[j]) = "default" /\ Running(i) /\ Group(op[i]) = "default"
        BY <1>4, <2>2 DEF BlockedBy, Running, Group, StartAsync, SyncMoves
      <3> QED
        BY <1>0, <1>4, <2>2, <3>1 DEF Exclusive, StartAsync
    <2> QED
      BY <2>1, <2>2 DEF BlockedBy
  <1>5. ASSUME NEW i \in Ids,
               \/ Take(i) \/ RefuseMove(i) \/ MoveReturns(i) \/ WaitReturns(i)
               \/ Pause(i) \/ Resume(i) \/ Stop(i)
        PROVE  BlockedBy'
    <2>1. op' = op /\ motion' \in {motion, NoMotion}
      BY <1>5 DEF Take, RefuseMove, MoveReturns, WaitReturns, Pause, Resume, Stop
    <2>2. \A j \in Ids : stage'[j] = "blocked" => stage[j] = "blocked"
      BY <1>0, <1>5 DEF Take, RefuseMove, MoveReturns, WaitReturns, Pause, Resume, Stop, Answer, TypeOK
    <2> QED
      BY <1>1, <2>1, <2>2
  <1>6. CASE Complete \/ Approach \/ UNCHANGED serverVars
    BY <1>1, <1>6 DEF Complete, Approach, serverVars
  <1> QED
    BY <1>2, <1>3, <1>4, <1>5, <1>6 DEF Next, ServerNext, Callback

\* A callback is blocked by no other client's sync motion.
THEOREM NobodyElseBlocks == Spec => []BlockedBy
  <1>1. ServerInit => BlockedBy
    BY DEF ServerInit, BlockedBy
  <1> QED
    BY <1>1, BlockedByStep, Invariance, PTL DEF Spec

\* A stop that waits in its queue finds the group of the stops free, or held by
\* a stop that is about to answer: nothing that waits for the robot holds it.
THEOREM StopIsNotHeldUp ==
  Spec => [](\A i, j \in Ids :
               op[i] = "stop" /\ Running(j) /\ Group(op[j]) = Group(op[i])
                 => op[j] = "stop" /\ stage[j] = "taken")
  <1>1. BlockedBy => \A i, j \in Ids :
                       op[i] = "stop" /\ Running(j) /\ Group(op[j]) = Group(op[i])
                         => op[j] = "stop" /\ stage[j] = "taken"
    BY DEF BlockedBy, Running, Group, SyncMoves
  <1> QED
    BY <1>1, NobodyElseBlocks, PTL

\* Once the robot stands still, no motion starts before a callback blocked in
\* DRFL has returned: a motion that has just been stopped, or a move_wait that
\* is about to return, finds the robot at rest.
THEOREM StandstillLasts ==
  Spec => [][\A i \in Ids : stage[i] = "blocked" /\ motion = NoMotion => motion' = NoMotion]_serverVars
  <1> DEFINE Lasts == \A i \in Ids : stage[i] = "blocked" /\ motion = NoMotion => motion' = NoMotion
  <1>1. IInv /\ BlockedBy /\ [Next]_serverVars => [Lasts]_serverVars
    <2> SUFFICES ASSUME IInv, BlockedBy, Next, NEW i \in Ids, stage[i] = "blocked", motion = NoMotion
                 PROVE  motion' = NoMotion
      OBVIOUS
    <2>1. op[i] # "stop"
      BY DEF BlockedBy, SyncMoves
    <2>2. CASE ServerNext
      <3>1. motion' \in {NoMotion, Blending}
        BY <2>1, <2>2, GroupHeld
      <3>2. motion' # Blending
        <4>1. ASSUME Approach PROVE FALSE
          BY <4>1, NoMotionAssumption DEF Approach
        <4>2. ASSUME NEW j \in Ids, Callback(j) PROVE motion' \in {NoMotion, j}
          BY <4>2 DEF Callback, StartMove, StartAsync, RefuseMove, MoveReturns, StartWait,
            WaitReturns, Pause, Resume, Stop
        <4> QED
          BY <2>2, <4>1, <4>2, NoMotionAssumption DEF ServerNext, Take, Complete
      <3> QED
        BY <3>1, <3>2
    <2>3. CASE \E j \in Ids, o \in Services : Send(j, o)
      BY <2>3 DEF Send
    <2> QED
      BY <2>2, <2>3 DEF Next
  <1> QED
    BY <1>1, NobodyElseBlocks, Invariance, PTL DEF Spec

=============================================================================
