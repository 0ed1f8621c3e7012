----------------------------- MODULE SyncPromise -----------------------------
(***************************************************************************)
(* What CRobotSync promises to the programs that use it, without its       *)
(* locks, its flags, its bits and the loops of the master: each wake-up    *)
(* lets its robot through Wait once, a call wakes only robots that it met  *)
(* in Wait, and WakeUpAll none before it met them all, unless CleanUp ends *)
(* the synchronisation.                                                    *)
(***************************************************************************)

CONSTANT Robots

VARIABLES
  place,   \* place[r]: where robot r is: "away", "inside" Wait, or "passed" it
  permits, \* the robots that may pass Wait once
  task,    \* what the master does: "none", wake "one" or "all", or it has "failed"
  due,     \* the robots its call has still to wake
  met,     \* the robots that were in Wait since its call began
  over     \* CleanUp has been called

promiseVars == <<place, permits, task, due, met, over>>

\* A robot's first Wait is free.
Init ==
  /\ place = [r \in Robots |-> "away"]
  /\ permits = Robots
  /\ task = "none" /\ due = {} /\ met = {}
  /\ over = FALSE

Enter(r) ==
  /\ place[r] = "away"
  /\ place' = [place EXCEPT ![r] = "inside"]
  /\ met' = met \cup {r}
  /\ UNCHANGED <<permits, task, due, over>>

Pass(r) ==
  /\ place[r] = "inside" /\ r \in permits
  /\ place' = [place EXCEPT ![r] = "passed"]
  /\ permits' = permits \ {r}
  /\ UNCHANGED <<task, due, met, over>>

Return(r) ==
  /\ place[r] = "passed"
  /\ place' = [place EXCEPT ![r] = "away"]
  /\ UNCHANGED <<permits, task, due, met, over>>

\* The master is to wake the robots of S.
Call(kind, S) ==
  /\ task = "none"
  /\ task' = kind /\ due' = S
  /\ met' = {r \in Robots : place[r] # "away"}
  /\ UNCHANGED <<place, permits, over>>

\* Whom the call may wake by now
Ready ==
  CASE task = "one" -> due \cap met
    [] task = "all" -> IF met = Robots \/ over THEN due ELSE {}
    [] OTHER -> {}

Wake(r) ==
  /\ r \in Ready /\ r \notin permits
  /\ permits' = permits \cup {r}
  /\ due' = due \ {r}
  /\ task' = IF due = {r} THEN "none" ELSE task
  /\ UNCHANGED <<place, met, over>>

\* A robot that has been woken and has not passed since is not woken again.
Fail(r) ==
  /\ r \in Ready /\ r \in permits
  /\ task' = "failed" /\ due' = {}
  /\ UNCHANGED <<place, permits, met, over>>

GiveUp ==
  /\ task = "one" /\ over
  /\ task' = "none" /\ due' = {}
  /\ UNCHANGED <<place, permits, met, over>>

End ==
  /\ ~over /\ over' = TRUE
  /\ UNCHANGED <<place, permits, task, due, met>>

Next ==
  \/ \E r \in Robots : Enter(r) \/ Pass(r) \/ Return(r)
  \/ \E r \in Robots : Call("one", {r}) \/ Wake(r) \/ Fail(r)
  \/ Call("all", Robots)
  \/ GiveUp
  \/ End

Spec == Init /\ [][Next]_promiseVars

=============================================================================
