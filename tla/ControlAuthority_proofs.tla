------------------------ MODULE ControlAuthority_proofs ------------------------
(***************************************************************************)
(* Proofs about ControlAuthority: what the driver believes about the       *)
(* authority, and that no stop of the robot is forgotten, for any number   *)
(* of attempts and any number of pending events.                           *)
(***************************************************************************)
EXTENDS ControlAuthority, TLAPS

\* e comes after position i of s.
After(s, i, e) == \E j \in DOMAIN s : j > i /\ s[j] = e

\* The last grant or loss under way tells the truth about the owner.
EventsInOrder ==
  \A i \in DOMAIN inbox :
    /\ inbox[i] = "grant" => owner = "driver" \/ After(inbox, i, "loss")
    /\ inbox[i] = "loss" => owner = "tp" \/ After(inbox, i, "grant")

\* The callbacks are replaced in on_configure's order, the access callback last.
CallbackOrder ==
  /\ hasAuthority \/ heard => accessCb = "ctrl"
  /\ accessCb = "ctrl" => stateCb = "ctrl"
  /\ pc \in {"configAccess", "active"} => stateCb = "ctrl"

\* A stop the driver could reset is about to be handled, or the driver is about
\* to learn that it cannot.
StopIsHandled ==
  hasAuthority /\ robot \in Stopped
    => cb = robot \/ Pending(robot) \/ Pending("loss")

\* The Boolean part of TypeOK.
Flags ==
  /\ driverAsks \in BOOLEAN /\ tpAsks \in BOOLEAN
  /\ getControlAccess \in BOOLEAN /\ isStandby \in BOOLEAN
  /\ hasAuthority \in BOOLEAN /\ tpCompleted \in BOOLEAN /\ initState \in BOOLEAN
  /\ heard \in BOOLEAN

\* An attempt is left inside the loop.
AttemptLeft == pc \in {"standby", "both"} => retry < Retries

IInv ==
  /\ TypeOK
  /\ AttemptLeft
  /\ EventsInOrder
  /\ CallbackOrder
  /\ BeliefIsJustified
  /\ GrantIsNoticed
  /\ StopIsHandled

-----------------------------------------------------------------------------
(* How a step changes the inbox.                                           *)

\* Appending keeps what is pending and adds the new event at the end.
LEMMA AppendFacts ==
  ASSUME NEW S, NEW s \in Seq(S), NEW e \in S
  PROVE  /\ Append(s, e) \in Seq(S)
         /\ DOMAIN Append(s, e) = DOMAIN s \cup {Len(s) + 1}
         /\ Append(s, e)[Len(s) + 1] = e
         /\ \A i \in DOMAIN s : Append(s, e)[i] = s[i] /\ i < Len(s) + 1
OBVIOUS

\* Taking the head moves every other event one place forward.
LEMMA TailFacts ==
  ASSUME NEW S, NEW s \in Seq(S), s # <<>>
  PROVE  /\ Tail(s) \in Seq(S)
         /\ Head(s) = s[1] /\ 1 \in DOMAIN s
         /\ \A i \in DOMAIN Tail(s) : i \in Nat /\ i + 1 \in DOMAIN s /\ Tail(s)[i] = s[i + 1]
         /\ \A i \in DOMAIN s : i \in Nat /\ i >= 1 /\ (i # 1 => i - 1 \in DOMAIN Tail(s))
OBVIOUS

Unmoved == inbox' = inbox /\ owner' = owner

Raised(e) ==
  /\ e \in Events
  /\ inbox' = Append(inbox, e)
  /\ e = "grant" => owner' = "driver"
  /\ e = "loss" => owner' = "tp"
  /\ e \notin {"grant", "loss"} => owner' = owner

Taken == inbox # <<>> /\ inbox' = Tail(inbox) /\ owner' = owner

\* A robot control command changes the robot only on its way out of a state
\* and reports where it got to.
LEMMA ControlStep ==
  ASSUME TypeOK, NEW c \in DOMAIN Controls, SetRobotControl(c)
  PROVE  /\ \/ Unmoved /\ robot' = robot
            \/ robot' \in {"standby", "recovery"} /\ Raised(robot')
         /\ owner = "driver" /\ robot = Controls[c][1] => robot' \in {"standby", "recovery"}
         /\ UNCHANGED <<driverAsks, tpAsks>>
  BY DEF SetRobotControl, Controls, Emit, Unmoved, Raised, Events, States

\* Every step leaves the inbox and the owner alone, raises an event that tells
\* what becomes of the owner, or takes the oldest event.
LEMMA InboxStep ==
  ASSUME TypeOK, Next
  PROVE  Unmoved \/ (\E e \in Events : Raised(e)) \/ Taken
  <1> USE DEF Unmoved, Raised, Taken, Events, States, Stopped, AccessEvents, drcfVars, Emit
  <1>1. CASE StartUp
    <2>1. CASE AskAuthority
      BY <2>1 DEF AskAuthority, ForceRequest
    <2>2. CASE ServoOn
      <3>1. "servo_on" \in DOMAIN Controls
        BY DEF Controls
      <3> QED
        BY <2>2, <3>1, ControlStep DEF ServoOn
    <2> QED
      BY <1>1, <2>1, <2>2
      DEF StartUp, HasAccess, HasStandby, LeaveLoop, GiveUp, Verdict, Setup, Configure
  <1>2. CASE Drfl
    <2>1. CASE HandleState
      <3>1. \A c \in DOMAIN Answers : Answers[c] \in DOMAIN Controls
        BY DEF Answers, Controls
      <3> QED
        BY <2>1, <3>1, ControlStep DEF HandleState
    <2> QED
      BY <1>2, <2>1
      DEF Drfl, HwAccess, HwClear, HwState, CtrlGrant, CtrlLoss, CtrlRequest, CtrlDeny,
          CtrlState, TpCompleted, Take
  <1>3. CASE Outside
    <2>1. CASE ServiceControl
      BY <2>1, ControlStep DEF ServiceControl
    <2>2. CASE TpControls
      BY <2>2 DEF TpControls, Controls
    <2> QED
      BY <1>3, <2>1, <2>2 DEF Outside, Fault, TpTakes, TpRequests, TpAnswers, TpStarts
  <1> QED
    BY <1>1, <1>2, <1>3 DEF Next

\* What an event says of the owner stays true as events are raised and taken.
LEMMA OrderStep ==
  ASSUME TypeOK, EventsInOrder, Next
  PROVE  EventsInOrder'
  <1>0. inbox \in Seq(Events)
    BY DEF TypeOK
  <1>1. CASE Unmoved
    BY <1>1 DEF Unmoved, EventsInOrder, After
  <1>2. ASSUME NEW e \in Events, Raised(e) PROVE EventsInOrder'
    <2> DEFINE n == Len(inbox) + 1
    <2>1. /\ inbox' = Append(inbox, e)
          /\ DOMAIN inbox' = DOMAIN inbox \cup {n} /\ inbox'[n] = e
          /\ \A i \in DOMAIN inbox : inbox'[i] = inbox[i] /\ n > i
      BY <1>0, <1>2, AppendFacts DEF Raised
    <2>2. ASSUME NEW i \in DOMAIN inbox, NEW f, After(inbox, i, f) PROVE After(inbox', i, f)
      BY <2>1, <2>2 DEF After
    <2>3. ASSUME NEW i \in DOMAIN inbox PROVE After(inbox', i, e)
      BY <2>1 DEF After
    <2>4. ASSUME NEW i \in DOMAIN inbox'
          PROVE  /\ inbox'[i] = "grant" => owner' = "driver" \/ After(inbox', i, "loss")
                 /\ inbox'[i] = "loss" => owner' = "tp" \/ After(inbox', i, "grant")
      <3>1. CASE i = n
        BY <1>2, <2>1, <3>1 DEF Raised
      <3>2. CASE i \in DOMAIN inbox
        BY <1>2, <2>1, <2>2, <2>3, <3>2 DEF Raised, EventsInOrder
      <3> QED
        BY <2>1, <2>4, <3>1, <3>2
    <2> QED
      BY <2>4 DEF EventsInOrder
  <1>3. CASE Taken
    <2>1. /\ inbox' = Tail(inbox) /\ owner' = owner
          /\ \A i \in DOMAIN inbox' : i \in Nat /\ i + 1 \in DOMAIN inbox /\ inbox'[i] = inbox[i + 1]
          /\ \A i \in DOMAIN inbox : i \in Nat /\ i >= 1 /\ (i # 1 => i - 1 \in DOMAIN inbox')
      BY <1>0, <1>3, TailFacts DEF Taken
    <2>2. ASSUME NEW i \in DOMAIN inbox', NEW f, After(inbox, i + 1, f) PROVE After(inbox', i, f)
      <3>1. PICK j \in DOMAIN inbox : j > i + 1 /\ inbox[j] = f
        BY <2>2 DEF After
      <3>2. j - 1 \in DOMAIN inbox' /\ j - 1 > i /\ inbox'[j - 1] = f
        BY <2>1, <3>1
      <3> QED
        BY <3>2 DEF After
    <2> QED
      BY <2>1, <2>2 DEF EventsInOrder
  <1> QED
    BY <1>1, <1>2, <1>3, InboxStep

-----------------------------------------------------------------------------
(* The inductive invariant, one part at a time.                            *)

\* Pending events stay pending, except the one that is taken.
LEMMA PendingKept ==
  ASSUME TypeOK, NEW f, Pending(f), Unmoved \/ (\E e \in Events : Raised(e)) \/ Taken,
         Taken => Head(inbox) # f
  PROVE  Pending(f)'
  <1>0. inbox \in Seq(Events)
    BY DEF TypeOK
  <1>1. PICK i \in DOMAIN inbox : inbox[i] = f
    BY DEF Pending
  <1>2. CASE Unmoved
    BY <1>2 DEF Unmoved, Pending
  <1>3. ASSUME NEW e \in Events, Raised(e) PROVE Pending(f)'
    <2>1. inbox' = Append(inbox, e) /\ i \in DOMAIN inbox' /\ inbox'[i] = f
      BY <1>0, <1>1, <1>3, AppendFacts DEF Raised
    <2> QED
      BY <2>1 DEF Pending
  <1>4. CASE Taken
    <2>1. i - 1 \in DOMAIN inbox' /\ inbox'[i - 1] = f
      <3>1. i # 1
        BY <1>0, <1>1, <1>4, TailFacts DEF Taken
      <3> QED
        BY <1>0, <1>1, <1>4, <3>1, TailFacts DEF Taken
    <2> QED
      BY <2>1 DEF Pending
  <1> QED
    BY <1>2, <1>3, <1>4

\* An event that was raised is pending.
LEMMA RaisedIsPending ==
  ASSUME TypeOK, NEW e \in Events, Raised(e)
  PROVE  Pending(e)'
  <1>1. inbox' = Append(inbox, e) /\ Len(inbox) + 1 \in DOMAIN inbox'
        /\ inbox'[Len(inbox) + 1] = e
    BY AppendFacts DEF Raised, TypeOK
  <1> QED
    BY <1>1 DEF Pending

\* The oldest event is true of the owner, or one that corrects it is left.
LEMMA HeadIsTrue ==
  ASSUME TypeOK, EventsInOrder, Taken
  PROVE  /\ Head(inbox) = "grant" => owner = "driver" \/ Pending("loss")'
         /\ Head(inbox) = "loss" => owner = "tp" \/ Pending("grant")'
  <1>0. inbox \in Seq(Events)
    BY DEF TypeOK
  <1>1. Head(inbox) = inbox[1] /\ 1 \in DOMAIN inbox
    BY <1>0, TailFacts DEF Taken
  <1>2. ASSUME NEW f, After(inbox, 1, f) PROVE Pending(f)'
    <2>1. PICK j \in DOMAIN inbox : j > 1 /\ inbox[j] = f
      BY <1>2 DEF After
    <2>2. j - 1 \in DOMAIN inbox' /\ inbox'[j - 1] = f
      BY <1>0, <2>1, TailFacts DEF Taken
    <2> QED
      BY <2>2 DEF Pending
  <1> QED
    BY <1>1, <1>2 DEF EventsInOrder

LEMMA InitIInv == Init => IInv
  <1> SUFFICES ASSUME Init PROVE IInv
    OBVIOUS
  <1>1. TypeOK
    <2>1. inbox \in Seq(Events)
      BY DEF Init
    <2>2. Flags
      BY DEF Init, Flags
    <2> QED
      BY <2>1, <2>2, RetriesAssumption DEF Init, Flags, TypeOK, States, Stopped
  <1>2. EventsInOrder
    BY DEF Init, EventsInOrder
  <1> QED
    BY <1>1, <1>2
    DEF Init, IInv, AttemptLeft, CallbackOrder, BeliefIsJustified, GrantIsNoticed, StopIsHandled

\* Flags are only ever set to truth values.
LEMMA FlagsStep ==
  ASSUME TypeOK, Next
  PROVE  Flags'
  <1>1. driverAsks \in BOOLEAN /\ tpAsks \in BOOLEAN /\ getControlAccess \in BOOLEAN
        /\ isStandby \in BOOLEAN /\ hasAuthority \in BOOLEAN /\ tpCompleted \in BOOLEAN
        /\ initState \in BOOLEAN /\ heard \in BOOLEAN
    BY DEF TypeOK
  <1> USE <1>1 DEF Flags, drcfVars, startVars, flagVars, ctrlVars
  <1>2. CASE StartUp
    <2>1. CASE AskAuthority
      BY <2>1, Zenon DEF AskAuthority, ForceRequest
    <2>2. CASE ServoOn
      BY <2>2, Zenon DEF ServoOn, SetRobotControl
    <2> QED
      BY <1>2, <2>1, <2>2
      DEF StartUp, HasAccess, HasStandby, LeaveLoop, GiveUp, Verdict, Setup, Configure
  <1>3. CASE Drfl
    <2>1. CASE HwAccess
      <3>1. getControlAccess' = TRUE \/ getControlAccess' = FALSE \/ UNCHANGED getControlAccess
        BY <2>1 DEF HwAccess
      <3> QED
        BY <2>1, <3>1, Zenon DEF HwAccess
    <2>2. CASE HwClear
      BY <2>2, Zenon DEF HwClear
    <2>3. CASE HwState
      BY <2>3, Zenon DEF HwState
    <2>4. CASE CtrlGrant
      BY <2>4, Zenon DEF CtrlGrant
    <2>5. CASE CtrlLoss
      BY <2>5, Zenon DEF CtrlLoss
    <2>6. CASE CtrlRequest
      BY <2>6, Zenon DEF CtrlRequest
    <2>7. CASE HandleState
      BY <2>7, Zenon DEF HandleState, SetRobotControl
    <2>8. CASE TpCompleted
      BY <2>8, Zenon DEF TpCompleted
    <2> QED
      BY <1>3, <2>1, <2>2, <2>3, <2>4, <2>5, <2>6, <2>7, <2>8 DEF Drfl, CtrlDeny, CtrlState
  <1>4. CASE Outside
    <2>1. CASE TpRequests
      BY <1>4, <2>1, Zenon DEF Outside, TpRequests
    <2>2. CASE TpAnswers
      BY <1>4, <2>2, Zenon DEF Outside, TpAnswers
    <2> QED
      BY <1>4, <2>1, <2>2
      DEF Outside, Fault, TpControls, TpTakes, TpStarts, ServiceControl, SetRobotControl
  <1> QED
    BY <1>2, <1>3, <1>4 DEF Next

\* Every step preserves the types.
LEMMA TypeStep == TypeOK /\ AttemptLeft /\ [Next]_vars => TypeOK'
  <1> SUFFICES ASSUME TypeOK, AttemptLeft, [Next]_vars PROVE TypeOK'
    OBVIOUS
  <1>1. CASE UNCHANGED vars
    BY <1>1 DEF TypeOK, vars, drcfVars, startVars, flagVars, ctrlVars
  <1>2. CASE Next
    <2>1. inbox' \in Seq(Events)
      <3>1. CASE Unmoved
        BY <3>1 DEF Unmoved, TypeOK
      <3>2. ASSUME NEW e \in Events, Raised(e) PROVE inbox' \in Seq(Events)
        BY <3>2, AppendFacts DEF Raised, TypeOK
      <3>3. CASE Taken
        BY <3>3, TailFacts DEF Taken, TypeOK
      <3> QED
        BY <1>2, <3>1, <3>2, <3>3, InboxStep
    <2>0. Flags'
      BY <1>2, FlagsStep
    <2> USE <2>0, <2>1, RetriesAssumption
        DEF TypeOK, Flags, AttemptLeft, States, Stopped, drcfVars, startVars, flagVars, ctrlVars
    <2>2. CASE StartUp
      <3>1. CASE AskAuthority
        BY <3>1 DEF AskAuthority, ForceRequest
      <3>2. CASE HasAccess
        BY <3>2 DEF HasAccess
      <3>3. CASE ServoOn
        <4>1. "servo_on" \in DOMAIN Controls
          BY DEF Controls
        <4> QED
          BY <3>3, <4>1, ControlStep DEF ServoOn, Unmoved, Raised
      <3>4. CASE HasStandby
        BY <3>4 DEF HasStandby
      <3>5. CASE LeaveLoop
        BY <3>5 DEF LeaveLoop
      <3>6. CASE GiveUp
        BY <3>6 DEF GiveUp
      <3>7. CASE Verdict
        BY <3>7 DEF Verdict
      <3>8. CASE Setup
        BY <3>8 DEF Setup
      <3>9. CASE Configure
        BY <3>9 DEF Configure
      <3> QED
        BY <2>2, <3>1, <3>2, <3>3, <3>4, <3>5, <3>6, <3>7, <3>8, <3>9 DEF StartUp
    <2>3. CASE Drfl
      <3>1. CASE HwAccess
        BY <3>1 DEF HwAccess, Take
      <3>2. CASE HwClear
        BY <3>2 DEF HwClear
      <3>3. CASE HwState
        BY <3>3 DEF HwState, Take
      <3>4. CASE CtrlGrant
        BY <3>4 DEF CtrlGrant, Take
      <3>5. CASE CtrlLoss
        BY <3>5 DEF CtrlLoss, Take
      <3>6. CASE CtrlRequest
        BY <3>6 DEF CtrlRequest, Take
      <3>7. CASE CtrlDeny
        BY <3>7 DEF CtrlDeny, Take
      <3>8. CASE CtrlState
        BY <3>8 DEF CtrlState, Take
      <3>9. CASE HandleState
        <4>1. \A c \in DOMAIN Answers : Answers[c] \in DOMAIN Controls
          BY DEF Answers, Controls
        <4>2. UNCHANGED drcfVars \/ \E c \in DOMAIN Controls : SetRobotControl(c)
          BY <3>9, <4>1 DEF HandleState
        <4> QED
          BY <3>9, <4>2, ControlStep DEF HandleState, Unmoved, Raised
      <3>10. CASE TpCompleted
        BY <3>10 DEF TpCompleted, Take
      <3> QED
        BY <2>3, <3>1, <3>2, <3>3, <3>4, <3>5, <3>6, <3>7, <3>8, <3>9, <3>10 DEF Drfl
    <2>4. CASE Outside
      <3>1. CASE ServiceControl
        BY <2>4, <3>1, ControlStep DEF Outside, ServiceControl, Unmoved, Raised
      <3>2. CASE TpControls
        BY <2>4, <3>2 DEF Outside, TpControls, Controls
      <3> QED
        BY <2>4, <3>1, <3>2 DEF Outside, Fault, TpTakes, TpRequests, TpAnswers, TpStarts
    <2> QED
      BY <1>2, <2>2, <2>3, <2>4 DEF Next
  <1> QED
    BY <1>1, <1>2

\* The start-up thread enters the body of the loop with an attempt left, and
\* replaces the access callback after the state callback.
LEMMA StartUpStep ==
  ASSUME IInv, [Next]_vars
  PROVE  AttemptLeft' /\ CallbackOrder'
  <1> USE RetriesAssumption DEF IInv, TypeOK, AttemptLeft, CallbackOrder,
          startVars, flagVars, ctrlVars
  <1>1. CASE UNCHANGED vars
    BY <1>1 DEF vars
  <1>2. CASE StartUp
    BY <1>2
    DEF StartUp, AskAuthority, HasAccess, ServoOn, HasStandby, LeaveLoop, GiveUp, Verdict,
        Setup, Configure
  <1>3. CASE Drfl
    BY <1>3
    DEF Drfl, HwAccess, HwClear, HwState, CtrlGrant, CtrlLoss, CtrlRequest, CtrlDeny,
        CtrlState, HandleState, TpCompleted
  <1>4. CASE Outside
    BY <1>4 DEF Outside
  <1> QED
    BY <1>1, <1>2, <1>3, <1>4 DEF Next

\* What the DRFL thread does to the beliefs: a grant makes one, a loss ends it,
\* and everything else leaves it.
LEMMA BeliefChange ==
  ASSUME TypeOK, CallbackOrder, Next
  PROVE  \/ /\ Taken /\ Head(inbox) = "grant" /\ UNCHANGED accessCb
            /\ accessCb = "ctrl" => hasAuthority' /\ heard' /\ cb' = robot /\ robot' = robot
            /\ accessCb = "hw" => UNCHANGED <<hasAuthority, heard>>
         \/ /\ Taken /\ Head(inbox) = "loss" /\ UNCHANGED accessCb
            /\ accessCb = "ctrl" => ~hasAuthority' /\ heard'
            /\ accessCb = "hw" => ~getControlAccess' /\ UNCHANGED <<hasAuthority, heard>>
         \/ /\ UNCHANGED <<getControlAccess, hasAuthority, heard>>
            /\ accessCb' = accessCb \/ accessCb' = "ctrl"
            /\ Taken => Head(inbox) \notin {"grant", "loss"}
  <1> USE DEF startVars, flagVars, ctrlVars
  <1>1. CASE StartUp
    <2>1. UNCHANGED <<getControlAccess, hasAuthority, heard>>
          /\ (accessCb' = accessCb \/ accessCb' = "ctrl")
      BY <1>1
      DEF StartUp, AskAuthority, HasAccess, ServoOn, HasStandby, LeaveLoop, GiveUp, Verdict,
          Setup, Configure
    <2>2. ~Taken
      <3>1. UNCHANGED inbox \/ \E e \in Events : inbox' = Append(inbox, e)
        BY <1>1
        DEF StartUp, AskAuthority, ForceRequest, HasAccess, ServoOn, SetRobotControl, Controls,
            Emit, HasStandby, LeaveLoop, GiveUp, Verdict, Setup, Configure, drcfVars,
            Events, States, AccessEvents
      <3> QED
        BY <3>1, AppendFacts DEF Taken, TypeOK
    <2> QED
      BY <2>1, <2>2
  <1>2. CASE Drfl
    <2>1. CASE HwAccess
      BY <2>1 DEF HwAccess, Take, Taken, TypeOK
    <2>2. CASE CtrlGrant
      BY <2>2 DEF CtrlGrant, Take, Taken, TypeOK
    <2>3. CASE CtrlLoss
      BY <2>3 DEF CtrlLoss, Take, Taken, TypeOK
    <2>4. CASE HwState \/ CtrlState \/ CtrlRequest \/ CtrlDeny \/ TpCompleted
      BY <2>4 DEF HwState, CtrlState, CtrlRequest, CtrlDeny, TpCompleted, Take, Taken,
                  States, Stopped
    <2>5. CASE HwClear \/ HandleState
      <3>1. UNCHANGED inbox \/ \E e \in Events : inbox' = Append(inbox, e)
        BY <2>5 DEF HwClear, HandleState, SetRobotControl, Controls, Answers, Emit, drcfVars,
                    Events, States, AccessEvents
      <3>2. ~Taken
        BY <3>1, AppendFacts DEF Taken, TypeOK
      <3> QED
        BY <2>5, <3>2 DEF HwClear, HandleState
    <2> QED
      BY <1>2, <2>1, <2>2, <2>3, <2>4, <2>5 DEF Drfl
  <1>3. CASE Outside
    <2>1. UNCHANGED inbox \/ \E e \in Events : inbox' = Append(inbox, e)
      BY <1>3 DEF Outside, Fault, TpControls, TpTakes, TpRequests, TpAnswers, TpStarts,
                  ServiceControl, SetRobotControl, Controls, Emit, Events, States, Stopped,
                  AccessEvents
    <2>2. ~Taken
      BY <2>1, AppendFacts DEF Taken, TypeOK
    <2> QED
      BY <1>3, <2>2 DEF Outside
  <1> QED
    BY <1>1, <1>2, <1>3 DEF Next

LEMMA BeliefStep ==
  ASSUME IInv, Next
  PROVE  BeliefIsJustified' /\ GrantIsNoticed'
  <1>1. Unmoved \/ (\E e \in Events : Raised(e)) \/ Taken
    BY InboxStep DEF IInv
  <1>2. CASE Taken /\ Head(inbox) = "grant"
    <2>1. owner' = owner /\ (owner = "driver" \/ Pending("loss")')
      BY <1>2, HeadIsTrue DEF IInv, Taken
    <2>2. heard' => hasAuthority'
      BY <1>2, BeliefChange DEF IInv, CallbackOrder, TypeOK
    <2> QED
      BY <2>1, <2>2 DEF BeliefIsJustified, GrantIsNoticed
  <1>3. CASE Taken /\ Head(inbox) = "loss"
    <2>1. owner' = owner /\ (owner = "tp" \/ Pending("grant")')
      BY <1>3, HeadIsTrue DEF IInv, Taken
    <2>2. ~hasAuthority' /\ (accessCb' = "hw" => ~getControlAccess')
      BY <1>3, BeliefChange DEF IInv, CallbackOrder, TypeOK
    <2> QED
      BY <2>1, <2>2 DEF BeliefIsJustified, GrantIsNoticed
  <1>4. CASE ~(Taken /\ Head(inbox) \in {"grant", "loss"})
    <2>1. /\ UNCHANGED <<getControlAccess, hasAuthority, heard>>
          /\ accessCb' = accessCb \/ accessCb' = "ctrl"
      BY <1>4, BeliefChange DEF IInv
    <2>2. Pending("grant") => Pending("grant")'
      BY <1>1, <1>4, PendingKept DEF IInv
    <2>3. Pending("loss") => Pending("loss")'
      BY <1>1, <1>4, PendingKept DEF IInv
    <2>4. \/ owner' = owner
          \/ owner' = "driver" /\ Pending("grant")'
          \/ owner' = "tp" /\ Pending("loss")'
      <3>1. ASSUME NEW e \in Events, Raised(e)
            PROVE  \/ owner' = owner
                   \/ owner' = "driver" /\ Pending("grant")'
                   \/ owner' = "tp" /\ Pending("loss")'
        <4>1. Pending(e)'
          BY <3>1, RaisedIsPending DEF IInv
        <4> QED
          BY <3>1, <4>1 DEF Raised
      <3> QED
        BY <1>1, <3>1 DEF Unmoved, Taken
    <2> QED
      BY <2>1, <2>2, <2>3, <2>4 DEF IInv, TypeOK, BeliefIsJustified, GrantIsNoticed
  <1> QED
    BY <1>2, <1>3, <1>4

\* With the controller's callbacks registered, a state event goes to them.
LEMMA TakenByCtrl ==
  ASSUME TypeOK, Next, Taken, Head(inbox) \in Stopped, stateCb = "ctrl"
  PROVE  CtrlState
  <1>1. Drfl
    <2>1. StartUp \/ Outside => UNCHANGED inbox \/ \E e \in Events : inbox' = Append(inbox, e)
      BY DEF StartUp, AskAuthority, ForceRequest, HasAccess, ServoOn, HasStandby, LeaveLoop,
             GiveUp, Verdict, Setup, Configure, drcfVars,
             Outside, Fault, TpControls, TpTakes, TpRequests, TpAnswers, TpStarts,
             ServiceControl, SetRobotControl, Controls, Emit, Events, States, Stopped,
             AccessEvents
    <2> QED
      BY <2>1, AppendFacts DEF Taken, TypeOK, Next
  <1>2. ~HwClear /\ ~HandleState
    <2>1. HwClear \/ HandleState => UNCHANGED inbox \/ \E e \in Events : inbox' = Append(inbox, e)
      BY DEF HwClear, HandleState, SetRobotControl, Controls, Answers, Emit, drcfVars,
             Events, States, AccessEvents
    <2> QED
      BY <2>1, AppendFacts DEF Taken, TypeOK
  <1> QED
    BY <1>1, <1>2 DEF Drfl, HwAccess, HwState, CtrlGrant, CtrlLoss, CtrlRequest, CtrlDeny,
                      TpCompleted, Take, Stopped

\* The callback resets the stop it handles, if the driver has the authority.
LEMMA HandleResets ==
  ASSUME TypeOK, HandleState, hasAuthority, cb = robot, robot \in Stopped, owner = "driver"
  PROVE  robot' # robot
  BY DEF HandleState, Answers, SetRobotControl, Controls, Stopped

LEMMA StopStep ==
  ASSUME IInv, Next
  PROVE  StopIsHandled'
  <1> SUFFICES ASSUME hasAuthority', robot' \in Stopped
               PROVE  cb' = robot' \/ Pending(robot)' \/ Pending("loss")'
    BY DEF StopIsHandled
  <1>1. Unmoved \/ (\E e \in Events : Raised(e)) \/ Taken
    BY InboxStep DEF IInv
  <1>2. CASE robot' # robot
    <2>1. PICK e \in Events : Raised(e) /\ e = robot'
      <3>1. CASE StartUp
        <4>1. ServoOn
          BY <1>2, <3>1
          DEF StartUp, AskAuthority, ForceRequest, HasAccess, HasStandby, LeaveLoop, GiveUp,
              Verdict, Setup, Configure, drcfVars
        <4>2. "servo_on" \in DOMAIN Controls
          BY DEF Controls
        <4> QED
          BY <1>2, <4>1, <4>2, ControlStep DEF ServoOn, IInv, Raised
      <3>2. CASE Drfl
        <4>1. HandleState
          BY <1>2, <3>2
          DEF Drfl, HwAccess, HwClear, HwState, CtrlGrant, CtrlLoss, CtrlRequest, CtrlDeny,
              CtrlState, TpCompleted, drcfVars
        <4>2. \A c \in DOMAIN Answers : Answers[c] \in DOMAIN Controls
          BY DEF Answers, Controls
        <4> QED
          BY <1>2, <4>1, <4>2, ControlStep DEF HandleState, IInv, Raised, drcfVars
      <3>3. CASE Outside
        <4>1. CASE ServiceControl
          BY <1>2, <4>1, ControlStep DEF ServiceControl, IInv, Raised
        <4>2. CASE TpControls
          BY <4>2 DEF TpControls, Controls, Emit, Raised, Events, States, AccessEvents
        <4>3. CASE Fault
          BY <4>3 DEF Fault, Emit, Raised, Events, States, Stopped, AccessEvents
        <4> QED
          BY <1>2, <3>3, <4>1, <4>2, <4>3
          DEF Outside, TpTakes, TpRequests, TpAnswers, TpStarts
      <3> QED
        BY <3>1, <3>2, <3>3 DEF Next
    <2> QED
      BY <2>1, RaisedIsPending DEF IInv
  <1>3. CASE robot' = robot
    <2>1. CASE Taken /\ Head(inbox) = "grant"
      <3>1. accessCb = "ctrl"
        BY <2>1, BeliefChange DEF IInv, CallbackOrder, TypeOK
      <3> QED
        BY <2>1, <3>1, BeliefChange DEF IInv
    <2>2. CASE Taken /\ Head(inbox) = "loss"
      BY <2>2, BeliefChange DEF IInv, CallbackOrder, TypeOK
    <2>3. CASE ~(Taken /\ Head(inbox) \in {"grant", "loss"})
      <3>1. hasAuthority /\ accessCb = "ctrl" /\ stateCb = "ctrl"
        BY <2>3, BeliefChange DEF IInv, CallbackOrder
      <3>2. Pending("loss") => Pending("loss")'
        BY <1>1, <2>3, PendingKept DEF IInv
      <3>3. CASE Pending(robot)
        <4>1. CASE Taken /\ Head(inbox) = robot
          <5>1. CtrlState
            BY <1>3, <3>1, <4>1, TakenByCtrl DEF IInv
          <5> QED
            BY <1>3, <4>1, <5>1 DEF CtrlState, Take
        <4> QED
          BY <1>1, <1>3, <3>3, <4>1, PendingKept DEF IInv
      <3>4. CASE cb = robot
        <4>1. CASE HandleState
          <5>1. owner # "driver"
            BY <1>3, <3>1, <3>4, <4>1, HandleResets DEF IInv
          <5> QED
            BY <3>1, <3>2, <5>1 DEF IInv, BeliefIsJustified
        <4>2. CASE ~HandleState
          <5>1. cb' = cb
            BY <1>3, <3>4, <4>2
            DEF Next, StartUp, AskAuthority, HasAccess, ServoOn, HasStandby, LeaveLoop, GiveUp,
                Verdict, Setup, Configure, Drfl, HwAccess, HwClear, HwState, CtrlGrant,
                CtrlLoss, CtrlRequest, CtrlDeny, CtrlState, TpCompleted, Take, Outside, Stopped
          <5> QED
            BY <1>3, <3>4, <5>1
        <4> QED
          BY <4>1, <4>2
      <3> QED
        BY <1>3, <3>1, <3>2, <3>3, <3>4 DEF IInv, StopIsHandled
    <2> QED
      BY <2>1, <2>2, <2>3
  <1> QED
    BY <1>2, <1>3

LEMMA Invariance == Spec => []IInv
  <1>1. IInv /\ [Next]_vars => IInv'
    <2> SUFFICES ASSUME IInv, [Next]_vars PROVE IInv'
      OBVIOUS
    <2>1. CASE UNCHANGED vars
      BY <2>1
      DEF IInv, TypeOK, AttemptLeft, EventsInOrder, After, CallbackOrder, BeliefIsJustified,
          GrantIsNoticed, StopIsHandled, Pending, vars, drcfVars, startVars, flagVars, ctrlVars
    <2>2. CASE Next
      <3>1. TypeOK'
        BY <2>2, TypeStep DEF IInv
      <3>2. EventsInOrder'
        BY <2>2, OrderStep DEF IInv
      <3> QED
        BY <2>2, <3>1, <3>2, StartUpStep, BeliefStep, StopStep DEF IInv
    <2> QED
      BY <2>1, <2>2
  <1> QED
    BY <1>1, InitIInv, PTL DEF Spec

(***************************************************************************)
(* The variables keep their types, for any number of attempts of on_init.  *)
(***************************************************************************)
THEOREM TypeCorrect == Spec => []TypeOK
  <1>1. IInv => TypeOK
    BY DEF IInv
  <1> QED
    BY <1>1, Invariance, PTL

(***************************************************************************)
(* get_control_access and g_bHasControlAuthority are never wrong without a *)
(* loss under way that puts them right.                                    *)
(***************************************************************************)
THEOREM BeliefJustified == Spec => []BeliefIsJustified
  <1>1. IInv => BeliefIsJustified
    BY DEF IInv
  <1> QED
    BY <1>1, Invariance, PTL

(***************************************************************************)
(* After its first grant or loss the controller misses no later grant.     *)
(***************************************************************************)
THEOREM GrantNoticed == Spec => []GrantIsNoticed
  <1>1. IInv => GrantIsNoticed
    BY DEF IInv
  <1> QED
    BY <1>1, Invariance, PTL

(***************************************************************************)
(* A controller that has the authority and has handled every event has     *)
(* left no stop of the robot standing, whenever it happened.               *)
(***************************************************************************)
THEOREM StopsReset == Spec => []StopsAreReset
  <1>1. IInv => StopsAreReset
    BY DEF IInv, StopIsHandled, StopsAreReset, Pending, Stopped
  <1> QED
    BY <1>1, Invariance, PTL
=============================================================================
