--------------------------- MODULE ControlAuthority ---------------------------
(***************************************************************************)
(* Who may command the robot: the start-up of dsr_hw_interface2.cpp, the   *)
(* DRFL callbacks of dsr_controller2.cpp, and the robot controller (DRCF)  *)
(* they talk to.                                                           *)
(*                                                                         *)
(* Two threads of the driver are modelled.  The start-up thread runs       *)
(* on_init of the hardware interface, which wants control authority and    *)
(* STATE_STANDBY, and later on_configure of the controller, which replaces *)
(* the callbacks on_init has registered.  The DRFL thread takes the events *)
(* of the DRCF one at a time, in order, to the callback registered then.   *)
(*                                                                         *)
(* DRCF and teach pendant (TP) are external.  A robot control command does *)
(* what SetRobotControl.srv documents, for the owner of the authority only.*)
(***************************************************************************)
EXTENDS Naturals, Sequences

CONSTANTS
  Retries,   \* the attempts of on_init (10)
  MaxInbox   \* bound: TP and robot raise no event while so many are pending

ASSUME RetriesAssumption == Retries \in Nat
ASSUME MaxInboxAssumption == MaxInbox \in Nat

VARIABLES
  owner,             \* who has the authority
  robot,             \* the robot's state
  driverAsks,        \* the driver asked for the authority, the TP has not answered
  tpAsks,            \* the TP asked for the authority, the driver has not answered
  inbox,             \* events on their way to the DRFL thread, oldest first
  pc, retry,         \* the start-up thread
  getControlAccess,  \* static flag of on_init
  isStandby,         \* static flag of on_init
  tpCb, stateCb, accessCb,  \* whose callback is registered
  cb,                \* the DRFL thread: "idle", or the state it is handling
  hasAuthority,      \* g_bHasControlAuthority
  tpCompleted,       \* g_bTpInitailizingComplted
  initState,         \* init_state
  heard              \* history: the controller was told of a grant or a loss

drcfVars == <<owner, robot, driverAsks, tpAsks, inbox>>
startVars == <<pc, retry, tpCb, stateCb, accessCb>>
flagVars == <<getControlAccess, isStandby>>
ctrlVars == <<hasAuthority, tpCompleted, initState, heard>>
vars == <<drcfVars, startVars, flagVars, ctrlVars, cb>>

\* A state a collision or a limit brings about, which the callbacks recover from.
Stopped == {"safe_stop", "safe_stop2", "safe_off2"}
States == {"standby", "safe_off", "recovery"} \cup Stopped
AccessEvents == {"request", "deny", "grant", "loss"}
Events == States \cup AccessEvents \cup {"tp_init"}

Init ==
  /\ owner = "tp" /\ robot \in States
  /\ driverAsks = FALSE /\ tpAsks = FALSE
  /\ inbox = <<>>
  /\ pc = "loop" /\ retry = 0
  /\ getControlAccess = FALSE /\ isStandby = FALSE
  /\ tpCb = "none" /\ stateCb = "hw" /\ accessCb = "hw"
  /\ cb = "idle"
  /\ hasAuthority = FALSE /\ tpCompleted = FALSE /\ initState = TRUE
  /\ heard = FALSE

-----------------------------------------------------------------------------
(* The DRCF's answer to a command.                                         *)

Emit(e) == inbox' = Append(inbox, e)

\* What a ROBOT_CONTROL does: the state it leaves and the state it leads to.
Controls ==
  [reset_safe_stop    |-> <<"safe_stop", "standby">>,
   servo_on           |-> <<"safe_off", "standby">>,
   recovery_safe_stop |-> <<"safe_stop2", "recovery">>,
   recovery_safe_off  |-> <<"safe_off2", "recovery">>,
   reset_recovery     |-> <<"recovery", "standby">>]

SetRobotControl(c) ==
  /\ IF owner = "driver" /\ robot = Controls[c][1]
       THEN robot' = Controls[c][2] /\ Emit(Controls[c][2])
       ELSE UNCHANGED <<robot, inbox>>
  /\ UNCHANGED <<owner, driverAsks, tpAsks>>

\* MANAGE_ACCESS_CONTROL_FORCE_REQUEST: who has the authority already may or
\* may not be told again.
ForceRequest ==
  /\ owner' = "driver" /\ driverAsks' = FALSE
  /\ Emit("grant") \/ (owner = "driver" /\ UNCHANGED inbox)
  /\ UNCHANGED <<robot, tpAsks>>

-----------------------------------------------------------------------------
(* The start-up thread.                                                    *)

\* No authority yet: one attempt is spent on asking for it.
AskAuthority ==
  /\ pc = "loop" /\ retry < Retries /\ ~getControlAccess
  /\ ForceRequest
  /\ retry' = retry + 1
  /\ UNCHANGED <<pc, tpCb, stateCb, accessCb, flagVars, ctrlVars, cb>>

HasAccess ==
  /\ pc = "loop" /\ retry < Retries /\ getControlAccess
  /\ pc' = "standby"
  /\ UNCHANGED <<drcfVars, retry, tpCb, stateCb, accessCb, flagVars, ctrlVars, cb>>

\* Authority, but not standing by: one attempt is spent on CONTROL_SERVO_ON.
ServoOn ==
  /\ pc = "standby" /\ ~isStandby
  /\ SetRobotControl("servo_on")
  /\ retry' = retry + 1 /\ pc' = "loop"
  /\ UNCHANGED <<tpCb, stateCb, accessCb, flagVars, ctrlVars, cb>>

HasStandby ==
  /\ pc = "standby" /\ isStandby
  /\ pc' = "both"
  /\ UNCHANGED <<drcfVars, retry, tpCb, stateCb, accessCb, flagVars, ctrlVars, cb>>

\* Both flags are read once more before the loop is left.
LeaveLoop ==
  /\ pc = "both"
  /\ IF getControlAccess /\ isStandby
       THEN pc' = "verdict" /\ UNCHANGED retry
       ELSE pc' = "loop" /\ retry' = retry + 1
  /\ UNCHANGED <<drcfVars, tpCb, stateCb, accessCb, flagVars, ctrlVars, cb>>

GiveUp ==
  /\ pc = "loop" /\ retry = Retries
  /\ pc' = "verdict"
  /\ UNCHANGED <<drcfVars, retry, tpCb, stateCb, accessCb, flagVars, ctrlVars, cb>>

Verdict ==
  /\ pc = "verdict"
  /\ pc' = IF getControlAccess /\ isStandby THEN "setup" ELSE "error"
  /\ UNCHANGED <<drcfVars, retry, tpCb, stateCb, accessCb, flagVars, ctrlVars, cb>>

\* GetRobotState must say STANDBY; any of the settings after it may fail.
Setup ==
  /\ pc = "setup"
  /\ \/ robot = "standby" /\ pc' = "configTp"
     \/ pc' = "error"
  /\ UNCHANGED <<drcfVars, retry, tpCb, stateCb, accessCb, flagVars, ctrlVars, cb>>

\* on_configure registers the controller's callbacks one after the other.
Configure ==
  /\ \/ pc = "configTp" /\ tpCb' = "ctrl" /\ pc' = "configState"
        /\ UNCHANGED <<stateCb, accessCb>>
     \/ pc = "configState" /\ stateCb' = "ctrl" /\ pc' = "configAccess"
        /\ UNCHANGED <<tpCb, accessCb>>
     \/ pc = "configAccess" /\ accessCb' = "ctrl" /\ pc' = "active"
        /\ UNCHANGED <<tpCb, stateCb>>
  /\ UNCHANGED <<drcfVars, retry, flagVars, ctrlVars, cb>>

StartUp ==
  \/ AskAuthority \/ HasAccess \/ ServoOn \/ HasStandby \/ LeaveLoop
  \/ GiveUp \/ Verdict \/ Setup \/ Configure

-----------------------------------------------------------------------------
(* The DRFL thread.                                                        *)

Take(e) ==
  /\ cb = "idle"
  /\ inbox # <<>> /\ Head(inbox) = e
  /\ inbox' = Tail(inbox)

\* on_init's access callback, up to its second assignment.
HwAccess ==
  /\ accessCb = "hw"
  /\ \/ \E e \in {"grant", "loss"} :
          Take(e) /\ getControlAccess' = (e = "grant") /\ cb' = "clearing"
     \/ (Take("request") \/ Take("deny")) /\ UNCHANGED <<getControlAccess, cb>>
  /\ UNCHANGED <<owner, robot, driverAsks, tpAsks, startVars, isStandby, ctrlVars>>

\* is_standby = false, after get_control_access was set and for another thread
\* to see.
HwClear ==
  /\ cb = "clearing"
  /\ isStandby' = FALSE /\ cb' = "idle"
  /\ UNCHANGED <<drcfVars, startVars, getControlAccess, ctrlVars>>

\* on_init's state callback.
HwState ==
  /\ stateCb = "hw"
  /\ \E s \in States : Take(s) /\ isStandby' = (s = "standby")
  /\ UNCHANGED <<owner, robot, driverAsks, tpAsks, startVars, getControlAccess, ctrlVars, cb>>

\* The state the robot is in is not looked at.
CtrlGrantVariant ==
  /\ accessCb = "ctrl" /\ Take("grant")
  /\ hasAuthority' = TRUE /\ heard' = TRUE
  /\ UNCHANGED <<owner, robot, driverAsks, tpAsks, startVars, flagVars, tpCompleted, initState, cb>>

\* A grant counts only after the TP has started.
CtrlGrantEarlyVariant ==
  /\ accessCb = "ctrl" /\ Take("grant")
  /\ hasAuthority' = tpCompleted /\ heard' = TRUE
  /\ cb' = robot
  /\ UNCHANGED <<owner, robot, driverAsks, tpAsks, startVars, flagVars, tpCompleted, initState>>

\* OnMonitoringAccessControlCB, GRANT: the state the robot is in is handled as
\* if it had just been entered.
CtrlGrant ==
  /\ accessCb = "ctrl" /\ Take("grant")
  /\ hasAuthority' = TRUE /\ heard' = TRUE
  /\ cb' = robot
  /\ UNCHANGED <<owner, robot, driverAsks, tpAsks, startVars, flagVars, tpCompleted, initState>>

\* The flag stays while the authority is asked for again.
CtrlLossVariant ==
  /\ accessCb = "ctrl" /\ Take("loss")
  /\ hasAuthority' = (hasAuthority /\ tpCompleted) /\ heard' = TRUE
  /\ driverAsks' = (driverAsks \/ tpCompleted)
  /\ UNCHANGED <<owner, robot, tpAsks, startVars, flagVars, tpCompleted, initState, cb>>

\* OnMonitoringAccessControlCB, LOSS.
CtrlLoss ==
  /\ accessCb = "ctrl" /\ Take("loss")
  /\ hasAuthority' = FALSE /\ heard' = TRUE
  /\ driverAsks' = (driverAsks \/ (tpCompleted /\ owner = "tp"))
  /\ UNCHANGED <<owner, robot, tpAsks, startVars, flagVars, tpCompleted, initState, cb>>

\* OnMonitoringAccessControlCB, REQUEST: MANAGE_ACCESS_CONTROL_RESPONSE_NO.
CtrlRequest ==
  /\ accessCb = "ctrl" /\ Take("request")
  /\ tpAsks' = FALSE
  /\ UNCHANGED <<owner, robot, driverAsks, startVars, flagVars, ctrlVars, cb>>

CtrlDeny ==
  /\ accessCb = "ctrl" /\ Take("deny")
  /\ UNCHANGED <<owner, robot, driverAsks, tpAsks, startVars, flagVars, ctrlVars, cb>>

CtrlState ==
  /\ stateCb = "ctrl"
  /\ \E s \in States : Take(s) /\ cb' = s
  /\ UNCHANGED <<owner, robot, driverAsks, tpAsks, startVars, flagVars, ctrlVars>>

\* The command OnMonitoringStateCB answers a state with, when it does.
Answers ==
  [safe_stop |-> "reset_safe_stop", safe_off |-> "servo_on",
   safe_stop2 |-> "recovery_safe_stop", safe_off2 |-> "recovery_safe_off"]

\* OnMonitoringStateCB: with authority, and SAFE_OFF only once.
HandleState ==
  /\ cb \in States
  /\ IF hasAuthority /\ cb \in DOMAIN Answers /\ (cb = "safe_off" => initState)
       THEN SetRobotControl(Answers[cb])
       ELSE UNCHANGED drcfVars
  /\ initState' = (initState /\ ~(hasAuthority /\ cb = "safe_off"))
  /\ cb' = "idle"
  /\ UNCHANGED <<startVars, flagVars, hasAuthority, tpCompleted, heard>>

\* OnTpInitializingCompletedCB: the request in it is commented out.
TpCompleted ==
  /\ Take("tp_init")
  /\ tpCompleted' = (tpCompleted \/ tpCb = "ctrl")
  /\ UNCHANGED <<owner, robot, driverAsks, tpAsks, startVars, flagVars, hasAuthority,
                 initState, heard, cb>>

Drfl ==
  \/ HwAccess \/ HwClear \/ HwState
  \/ CtrlGrant \/ CtrlLoss \/ CtrlRequest \/ CtrlDeny
  \/ CtrlState \/ HandleState \/ TpCompleted

-----------------------------------------------------------------------------
(* The robot, the teach pendant and the clients of the services.           *)

Quieter == Len(inbox) < MaxInbox

\* A collision, a limit, an idle servo-off, or the service servo_off.
Fault ==
  /\ Quieter
  /\ \E s \in Stopped \cup {"safe_off"} : robot # s /\ robot' = s /\ Emit(s)
  /\ UNCHANGED <<owner, driverAsks, tpAsks>>

\* The operator resets the robot at the TP.
TpControls ==
  /\ Quieter /\ owner = "tp"
  /\ \E c \in DOMAIN Controls :
       robot = Controls[c][1] /\ robot' = Controls[c][2] /\ Emit(Controls[c][2])
  /\ UNCHANGED <<owner, driverAsks, tpAsks>>

\* The TP takes the authority without asking.
TpTakes ==
  /\ Quieter /\ owner = "driver"
  /\ owner' = "tp" /\ Emit("loss")
  /\ UNCHANGED <<robot, driverAsks, tpAsks>>

\* The TP asks, and must be answered before it asks again.
TpRequests ==
  /\ Quieter /\ owner = "driver" /\ ~tpAsks
  /\ tpAsks' = TRUE /\ Emit("request")
  /\ UNCHANGED <<owner, robot, driverAsks>>

\* The TP answers the driver's request.
TpAnswers ==
  /\ Quieter /\ driverAsks
  /\ driverAsks' = FALSE
  /\ \/ owner' = "driver" /\ Emit("grant")
     \/ owner' = owner /\ Emit("deny")
  /\ UNCHANGED <<robot, tpAsks>>

TpStarts ==
  /\ Quieter
  /\ Emit("tp_init")
  /\ UNCHANGED <<owner, robot, driverAsks, tpAsks>>

\* set_robot_control_cb: a client of the service sends any command.
ServiceControl ==
  /\ Quieter /\ pc = "active"
  /\ \E c \in DOMAIN Controls : SetRobotControl(c)

Outside ==
  /\ \/ Fault \/ TpControls \/ TpTakes \/ TpRequests \/ TpAnswers \/ TpStarts
     \/ ServiceControl
  /\ UNCHANGED <<startVars, flagVars, ctrlVars, cb>>

Next == StartUp \/ Drfl \/ Outside

Spec == Init /\ [][Next]_vars

-----------------------------------------------------------------------------
(* Properties.                                                             *)

TypeOK ==
  /\ owner \in {"driver", "tp"} /\ robot \in States
  /\ driverAsks \in BOOLEAN /\ tpAsks \in BOOLEAN
  /\ inbox \in Seq(Events)
  /\ pc \in {"loop", "standby", "both", "verdict", "setup", "configTp", "configState",
             "configAccess", "active", "error"}
  /\ retry \in 0..Retries
  /\ getControlAccess \in BOOLEAN /\ isStandby \in BOOLEAN
  /\ tpCb \in {"none", "ctrl"} /\ stateCb \in {"hw", "ctrl"} /\ accessCb \in {"hw", "ctrl"}
  /\ cb \in States \cup {"idle", "clearing"}
  /\ hasAuthority \in BOOLEAN /\ tpCompleted \in BOOLEAN /\ initState \in BOOLEAN
  /\ heard \in BOOLEAN

Pending(e) == \E i \in DOMAIN inbox : inbox[i] = e

(***************************************************************************)
(* Neither part of the driver believes to have the authority without       *)
(* having it, unless the event that corrects it is on its way: on_init     *)
(* before the callbacks are replaced, the controller after.                *)
(***************************************************************************)
BeliefIsJustified ==
  (accessCb = "hw" /\ getControlAccess) \/ hasAuthority
    => owner = "driver" \/ Pending("loss")

(***************************************************************************)
(* Once the controller was told of a grant or a loss, it knows whenever    *)
(* the driver has the authority and no grant is on its way.                *)
(***************************************************************************)
GrantIsNoticed ==
  heard /\ owner = "driver" /\ ~Pending("grant") => hasAuthority

(***************************************************************************)
(* While the controller has the authority and nothing is left to handle,   *)
(* the robot is in none of the states the callbacks recover from, even if  *)
(* it entered it while the authority was elsewhere or changing hands.      *)
(***************************************************************************)
StopsAreReset ==
  hasAuthority /\ inbox = <<>> /\ cb = "idle" => robot \notin Stopped

=============================================================================
