------------------------------ MODULE RobotSync ------------------------------
(***************************************************************************)
(* CRobotSync of dsr_common2/imp/DSR_util2.py: one thread per robot calls  *)
(* Wait, a master thread calls WakeUp and WakeUpAll, and CleanUp may come  *)
(* at any time.  Each line that reads or writes a shared attribute is a    *)
(* step; a threading.Lock may be released by a thread that does not hold   *)
(* it, and raises when it is not held at all.                              *)
(***************************************************************************)
EXTENDS Naturals

CONSTANTS
  nRobot,    \* the number of robots
  MaxWaits   \* a bound on the calls of Wait by each robot

ASSUME nRobotAssumption == nRobot \in Nat \ {0}
ASSUME MaxWaitsAssumption == MaxWaits \in Nat

VARIABLES
  calls,    \* what the master's program calls, of WakeUp and WakeUpAll
  nIsRun,   \* self.nIsRun
  bIsWait,  \* self.bIsWait
  held,     \* held[r]: lock[r] is acquired
  nCurBit,  \* self.nCurBit, as the set of the robots whose bit is set
  wait,     \* wait[r]: where robot r's thread is in Wait
  call,     \* where the master is in WakeUp or WakeUpAll
  at,       \* the robot the master's call is at
  waits,    \* history: waits[r] counts the acquisitions of lock[r]
  wakes,    \* history: wakes[r] counts its releases
  present   \* history: the robots inside Wait since the master's call began

syncVars == <<calls, nIsRun, bIsWait, held, nCurBit, wait, call, at, waits, wakes, present>>

Robots == 0..(nRobot - 1)

\* Robot r is inside Wait.
Inside(r) == wait[r] # "out"

SyncInit ==
  /\ calls \in SUBSET {"WakeUp", "WakeUpAll"}
  /\ nIsRun = TRUE
  /\ bIsWait = [r \in Robots |-> FALSE]
  /\ held = [r \in Robots |-> FALSE]
  /\ nCurBit = {}
  /\ wait = [r \in Robots |-> "out"]
  /\ call = "none"
  /\ at = 0
  /\ waits = [r \in Robots |-> 0]
  /\ wakes = [r \in Robots |-> 0]
  /\ present = {}

-----------------------------------------------------------------------------
(* Wait(r)                                                                 *)

Arrive(r) ==
  /\ wait[r] = "out" /\ waits[r] < MaxWaits
  /\ bIsWait' = [bIsWait EXCEPT ![r] = TRUE]
  /\ wait' = [wait EXCEPT ![r] = "acquire"]
  /\ present' = present \cup {r}
  /\ UNCHANGED <<nIsRun, held, nCurBit, call, at, waits, wakes>>

\* The lock is tried without blocking and the outcome ignored.
AcquireVariant(r) ==
  /\ wait[r] = "acquire"
  /\ held' = [held EXCEPT ![r] = TRUE]
  /\ waits' = [waits EXCEPT ![r] = @ + 1]
  /\ wait' = [wait EXCEPT ![r] = "leave"]
  /\ UNCHANGED <<nIsRun, bIsWait, nCurBit, call, at, wakes, present>>

Acquire(r) ==
  /\ wait[r] = "acquire"
  /\ ~held[r]
  /\ held' = [held EXCEPT ![r] = TRUE]
  /\ waits' = [waits EXCEPT ![r] = @ + 1]
  /\ wait' = [wait EXCEPT ![r] = "leave"]
  /\ UNCHANGED <<nIsRun, bIsWait, nCurBit, call, at, wakes, present>>

Leave(r) ==
  /\ wait[r] = "leave"
  /\ bIsWait' = [bIsWait EXCEPT ![r] = FALSE]
  /\ wait' = [wait EXCEPT ![r] = "out"]
  /\ UNCHANGED <<nIsRun, held, nCurBit, call, at, waits, wakes, present>>

-----------------------------------------------------------------------------
(* CleanUp()                                                               *)

CleanUp ==
  /\ nIsRun
  /\ nIsRun' = FALSE
  /\ UNCHANGED <<bIsWait, held, nCurBit, wait, call, at, waits, wakes, present>>

-----------------------------------------------------------------------------
(* The master.                                                             *)

\* lock[at].release(), which raises when the lock is not held.
Release(next) ==
  /\ held[at]
  /\ held' = [held EXCEPT ![at] = FALSE]
  /\ wakes' = [wakes EXCEPT ![at] = @ + 1]
  /\ call' = next
  /\ UNCHANGED <<nIsRun, bIsWait, nCurBit, wait, waits, present>>

ReleaseRaises ==
  /\ ~held[at]
  /\ call' = "raised"
  /\ UNCHANGED <<nIsRun, bIsWait, held, nCurBit, wait, at, waits, wakes, present>>

MasterOnly == UNCHANGED <<nIsRun, bIsWait, held, wait, waits, wakes>>

\* WakeUp(r)
CallWakeUp(r) ==
  /\ call = "none" /\ "WakeUp" \in calls
  /\ call' = "poll" /\ at' = r
  /\ present' = {q \in Robots : Inside(q)}
  /\ UNCHANGED nCurBit /\ MasterOnly

\* while True: the flag set by CleanUp is not looked at.
PollVariant ==
  /\ call = "poll"
  /\ call' = IF bIsWait[at] THEN "release" ELSE "poll"
  /\ UNCHANGED <<at, nCurBit, present>> /\ MasterOnly

\* while self.nIsRun, and the test of bIsWait[r].
Poll ==
  /\ call = "poll"
  /\ call' = IF ~nIsRun THEN "none" ELSE IF bIsWait[at] THEN "release" ELSE "poll"
  /\ UNCHANGED <<at, nCurBit, present>> /\ MasterOnly

ReleaseOne ==
  /\ call = "release"
  /\ \/ Release("none") /\ UNCHANGED at
     \/ ReleaseRaises

\* nCurBit is not reset.
CallWakeUpAllVariant ==
  /\ call = "none" /\ "WakeUpAll" \in calls
  /\ call' = "loop"
  /\ present' = {r \in Robots : Inside(r)}
  /\ UNCHANGED <<at, nCurBit>> /\ MasterOnly

\* WakeUpAll(): self.nCurBit = 0
CallWakeUpAll ==
  /\ call = "none" /\ "WakeUpAll" \in calls
  /\ call' = "loop"
  /\ nCurBit' = {}
  /\ present' = {r \in Robots : Inside(r)}
  /\ UNCHANGED at /\ MasterOnly

\* while self.nIsRun
Loop ==
  /\ call = "loop"
  /\ call' = IF nIsRun THEN "scan" ELSE "releaseAll"
  /\ at' = 0
  /\ UNCHANGED <<nCurBit, present>> /\ MasterOnly

\* The last robot is not looked at.
ScanShortVariant ==
  /\ call = "scan"
  /\ nCurBit' = IF bIsWait[at] THEN nCurBit \cup {at} ELSE nCurBit
  /\ \/ at + 2 < nRobot /\ at' = at + 1 /\ UNCHANGED call
     \/ at + 2 = nRobot /\ at' = 0 /\ call' = "compare"
  /\ UNCHANGED present /\ MasterOnly

\* The body of the inner for, for robot at.
Scan ==
  /\ call = "scan"
  /\ nCurBit' = IF bIsWait[at] THEN nCurBit \cup {at} ELSE nCurBit
  /\ \/ at + 1 < nRobot /\ at' = at + 1 /\ UNCHANGED call
     \/ at + 1 = nRobot /\ at' = 0 /\ call' = "compare"
  /\ UNCHANGED present /\ MasterOnly

\* if self.nWaitBit == self.nCurBit
Compare ==
  /\ call = "compare"
  /\ call' = IF nCurBit = Robots THEN "releaseAll" ELSE "loop"
  /\ UNCHANGED <<at, nCurBit, present>> /\ MasterOnly

\* The body of the last for, for robot at.
ReleaseAll ==
  /\ call = "releaseAll"
  /\ \/ at + 1 < nRobot /\ Release("releaseAll") /\ at' = at + 1
     \/ at + 1 = nRobot /\ Release("none") /\ at' = 0
     \/ ReleaseRaises

Waiter(r) == Arrive(r) \/ Acquire(r) \/ Leave(r)

Master ==
  \/ (\E r \in Robots : CallWakeUp(r)) \/ CallWakeUpAll
  \/ Poll \/ ReleaseOne
  \/ Loop \/ Scan \/ Compare \/ ReleaseAll

SyncNext ==
  /\ UNCHANGED calls
  /\ \/ \E r \in Robots : Waiter(r)
     \/ CleanUp
     \/ Master

SyncSpec == SyncInit /\ [][SyncNext]_syncVars

(***************************************************************************)
(* Threads run; a robot need not call Wait, nor the master anything, again. *)
(***************************************************************************)
SyncFairSpec ==
  /\ SyncSpec
  /\ \A r \in Robots :
       WF_syncVars(Acquire(r) /\ UNCHANGED calls) /\ WF_syncVars(Leave(r) /\ UNCHANGED calls)
  /\ WF_syncVars((Poll \/ ReleaseOne \/ Loop \/ Scan \/ Compare \/ ReleaseAll) /\ UNCHANGED calls)

-----------------------------------------------------------------------------
(* Properties.                                                             *)

SyncTypeOK ==
  /\ calls \subseteq {"WakeUp", "WakeUpAll"}
  /\ nIsRun \in BOOLEAN
  /\ bIsWait \in [Robots -> BOOLEAN]
  /\ held \in [Robots -> BOOLEAN]
  /\ nCurBit \subseteq Robots
  /\ wait \in [Robots -> {"out", "acquire", "leave"}]
  /\ call \in {"none", "poll", "release", "loop", "scan", "compare", "releaseAll", "raised"}
  /\ at \in Robots
  /\ waits \in [Robots -> Nat]
  /\ wakes \in [Robots -> Nat]
  /\ present \subseteq Robots

\* The refinement mapping: what the state is to SyncPromise
placeBar ==
  [r \in Robots |-> CASE wait[r] = "out" -> "away"
                     [] wait[r] = "acquire" -> "inside"
                     [] OTHER -> "passed"]
permitsBar == {r \in Robots : ~held[r]}
taskBar ==
  CASE call = "none" -> "none"
    [] call \in {"poll", "release"} -> "one"
    [] call = "raised" -> "failed"
    [] OTHER -> "all"
dueBar ==
  CASE call \in {"none", "raised"} -> {}
    [] call \in {"poll", "release"} -> {at}
    [] call = "releaseAll" -> {r \in Robots : at <= r}
    [] OTHER -> Robots

Promise == INSTANCE SyncPromise WITH
  place <- placeBar, permits <- permitsBar, task <- taskBar, due <- dueBar,
  met <- present, over <- ~nIsRun

(***************************************************************************)
(* CRobotSync keeps SyncPromise: its locks, polled flags and bits come to  *)
(* one permit per wake-up and to a barrier for WakeUpAll, in every         *)
(* interleaving with robots that come and go, with CleanUp, and with a     *)
(* release that raises half way.                                           *)
(***************************************************************************)
KeepsPromise == Promise!Spec

(***************************************************************************)
(* Each wake-up lets a robot through Wait once.  The locks are created     *)
(* free, so a robot's first Wait passes with no wake-up at all: hence the  *)
(* one to spare, and no more than one ever.                                *)
(***************************************************************************)
OnePassPerWake == \A r \in Robots : waits[r] \in {wakes[r], wakes[r] + 1}

(***************************************************************************)
(* WakeUpAll is a barrier: unless CleanUp has ended it, it releases the    *)
(* robots only after it has found each one inside Wait during this call.   *)
(***************************************************************************)
BarrierSeesAll == call = "releaseAll" /\ nIsRun => present = Robots

(***************************************************************************)
(* Robots that are only ever woken together stay in step: none is ahead of *)
(* another by more than two passes, the free first one included, even when *)
(* a release raises half way through the robots or CleanUp cuts in.        *)
(***************************************************************************)
Lockstep ==
  calls = {"WakeUpAll"} => \A q, r \in Robots : waits[q] <= waits[r] + 2

(***************************************************************************)
(* CleanUp ends the master's call, whoever it is waiting for.              *)
(***************************************************************************)
CleanUpEndsCalls == ~nIsRun ~> call \in {"none", "raised"}

(***************************************************************************)
(* Once every robot sleeps in Wait, the call that is to wake them gets     *)
(* done: the flags it polls and the locks it releases cannot miss one      *)
(* another.                                                                *)
(***************************************************************************)
SleepersAreWoken ==
  call \notin {"none", "raised"} /\ (\A r \in Robots : wait[r] = "acquire" /\ held[r])
    ~> call = "none"

=============================================================================
