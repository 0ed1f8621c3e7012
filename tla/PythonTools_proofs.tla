-------------------------- MODULE PythonTools_proofs --------------------------
(***************************************************************************)
(* Proofs about what robot programs of dsr_common2/imp use beside motions: *)
(* the analog outputs (AnalogIO, AnalogApi), the synchronisation of        *)
(* several robots (RobotSync) and the TCP tools (TcpTools).  The three     *)
(* have no state in common; each part below is of its own.                 *)
(***************************************************************************)
EXTENDS AnalogApi, RobotSync, TcpTools, FiniteSetTheorems, TLAPS

-----------------------------------------------------------------------------
(***************************************************************************)
(* That outputs stay in range, for every set of values, on the channels    *)
(* whose inputs were given no type and whose types DRFL never refused:     *)
(* only there is what the controller remembers of an output what it is.    *)
(* A program of the Python API is one of the clients, so the same holds    *)
(* with it; and its own record of the types agrees with the controller's.  *)
(***************************************************************************)

IoInv ==
  /\ TypeOK
  /\ \A ch \in Channels \ (refused \cup inputSet) :
       outputMode[ch] # NotSet => outputMode[ch] = outType[ch]
  /\ OutputsInRange

LEMMA IoTypeStep == TypeOK /\ [Next]_vars => TypeOK'
<1> SUFFICES ASSUME TypeOK, [Next]_vars PROVE TypeOK'
  OBVIOUS
<1> USE DEF TypeOK, history
<1>1. CASE Activate
  BY <1>1 DEF Activate
<1>2. ASSUME NEW ch \in Channels, NEW v \in Values, SetOutput(ch, v)
      PROVE  TypeOK'
  BY <1>2 DEF SetOutput
<1>3. ASSUME NEW ch \in Channels, NEW type \in Types, SetOutputType(ch, type)
      PROVE  TypeOK'
  BY <1>3 DEF SetOutputType
<1>4. ASSUME NEW ch \in Channels, NEW type \in Types, SetInputType(ch, type)
      PROVE  TypeOK'
  BY <1>4 DEF SetInputType
<1>5. CASE UNCHANGED vars
  BY <1>5 DEF vars
<1> QED BY <1>1, <1>2, <1>3, <1>4, <1>5 DEF Next

LEMMA IoInvariance == Spec => []IoInv
<1> USE DEF Types, NotSet, Current, Voltage, Channels
<1>1. Init => IoInv
  BY DEF Init, IoInv, TypeOK, OutputsInRange, InRange, NoOutput, RangeOf
<1>2. IoInv /\ [Next]_vars => IoInv'
  <2> SUFFICES ASSUME IoInv, [Next]_vars PROVE IoInv'
    OBVIOUS
  <2> USE DEF IoInv, TypeOK, OutputsInRange, InRange, history
  <2>1. CASE Activate
    BY <2>1 DEF Activate
  <2>2. ASSUME NEW ch \in Channels, NEW v \in Values, SetOutput(ch, v)
        PROVE  IoInv'
    <3>1. /\ ch \notin refused \cup inputSet => v \in RangeOf(outType[ch])
          /\ v \in Values \cup {0} /\ outType[ch] \in Types
      BY <2>2 DEF SetOutput
    <3>2. output' = [ch |-> ch, value |-> v, type |-> outType[ch]]
      BY <2>2 DEF SetOutput
    <3> QED BY <2>2, <3>1, <3>2 DEF SetOutput
  <2>3. ASSUME NEW ch \in Channels, NEW type \in Types, SetOutputType(ch, type)
        PROVE  IoInv'
    BY <2>3 DEF SetOutputType
  <2>4. ASSUME NEW ch \in Channels, NEW type \in Types, SetInputType(ch, type)
        PROVE  IoInv'
    BY <2>4 DEF SetInputType
  <2>5. CASE UNCHANGED vars
    BY <2>5 DEF vars
  <2> QED BY <2>1, <2>2, <2>3, <2>4, <2>5 DEF Next
<1> QED BY <1>1, <1>2, PTL DEF Spec

\* set_analog_output drives no output outside the range of its type where no
\* input was given a type and no type of the output was refused.
THEOREM OutputsStayInRange == Spec => []OutputsInRange
  BY IoInvariance, PTL DEF IoInv

\* The records of the types and of the values stay well formed.
THEOREM IoTypeCorrect == Spec => []TypeOK
  BY IoInvariance, PTL DEF IoInv

-----------------------------------------------------------------------------

ApiInv ==
  /\ TypeOK
  /\ mode \in [Channels -> Types \cup {NotSet}]
  /\ \/ asked = NoCall
     \/ asked.srv = "set_analog_output" /\ asked.ch \in Channels /\ asked.val \in Values
     \/ /\ asked.srv \in {"set_mode_analog_output", "set_mode_analog_input"}
        /\ asked.ch \in Channels /\ asked.val \in Types
  /\ alive => \A ch \in Channels : Setting(ch) => asked.val = mode[ch]
  /\ RecordsAgree

\* Each step of the program and of its requests is one of the services', or none.
LEMMA ApiStep == ApiInv /\ [ApiNext]_apiVars => [Next]_vars
<1> SUFFICES ASSUME ApiInv, [ApiNext]_apiVars PROVE [Next]_vars
  OBVIOUS
<1>1. CASE Call \/ Interrupt \/ Restart
  BY <1>1 DEF Call, Interrupt, Restart
<1>2. CASE Serve
  <2> asked # NoCall
    BY <1>2 DEF Serve
  <2>1. CASE asked.srv = "set_analog_output"
    BY <1>2, <2>1 DEF Serve, ApiInv, Next, RefusesValue
  <2>2. CASE asked.srv # "set_analog_output"
    BY <1>2, <2>2 DEF Serve, ApiInv, Next
  <2> QED BY <2>1, <2>2
<1>3. CASE OtherClient \/ Activate
  BY <1>3 DEF OtherClient, Next
<1>4. CASE UNCHANGED apiVars
  BY <1>4 DEF apiVars
<1> QED BY <1>1, <1>2, <1>3, <1>4 DEF ApiNext

LEMMA ApiInvariance == ApiSpec => []ApiInv
<1>1. ApiInit => ApiInv
  BY DEF ApiInit, Init, ApiInv, TypeOK, RecordsAgree, Setting, NoCall, Request, NoOutput,
         UnsetModes, Types, NotSet, Current, Voltage, Channels
<1>2. ApiInv /\ [ApiNext]_apiVars => ApiInv'
  <2> SUFFICES ASSUME ApiInv, [ApiNext]_apiVars PROVE ApiInv'
    OBVIOUS
  <2> USE DEF ApiInv, RecordsAgree, Setting
  <2>0. TypeOK'
    <3>1. [Next]_vars
      BY ApiStep
    <3> QED BY <3>1, IoTypeStep
  <2>1. CASE Call
    <3>1. UNCHANGED vars /\ alive /\ asked = NoCall
      BY <2>1 DEF Call
    <3>2. ASSUME NEW ch \in Channels, NEW val \in Values, set_analog_output(ch, val)
          PROVE  ApiInv'
      <4>1. CASE DR_Error
        BY <2>0, <3>1, <3>2, <4>1 DEF set_analog_output, DR_Error, vars
      <4>2. CASE Ask(Request("set_analog_output", ch, val))
        <5>1. /\ asked' = Request("set_analog_output", ch, val)
              /\ UNCHANGED <<mode, alive, disturbed, vars>>
          BY <3>1, <3>2, <4>2 DEF set_analog_output, Ask, DR_Error
        <5> QED BY <2>0, <3>1, <5>1 DEF Request, NoCall, vars
      <4> QED BY <3>2, <4>1, <4>2 DEF set_analog_output
    <3>3. ASSUME NEW ch \in Channels, NEW mod \in Types, set_mode_analog_output(ch, mod)
          PROVE  ApiInv'
      BY <2>0, <3>1, <3>3 DEF set_mode_analog_output, Request, vars, NoCall
    <3>4. ASSUME NEW ch \in Channels, NEW mod \in Types, set_mode_analog_input(ch, mod)
          PROVE  ApiInv'
      BY <2>0, <3>1, <3>4 DEF set_mode_analog_input, Ask, Request, vars, NoCall
    <3> QED BY <2>1, <3>2, <3>3, <3>4 DEF Call
  <2>2. CASE Interrupt
    BY <2>0, <2>2 DEF Interrupt, vars
  <2>3. CASE Restart
    BY <2>0, <2>3 DEF Restart, UnsetModes, vars, NoCall, Request
  <2>4. CASE Serve
    BY <2>0, <2>4 DEF Serve, SetOutput, RefusesValue, SetOutputType, SetInputType, vars, NoCall,
                      Request, TypeOK
  <2>5. CASE OtherClient
    BY <2>0, <2>5 DEF OtherClient, program, SetOutput, SetOutputType, SetInputType, TypeOK
  <2>6. CASE Activate /\ UNCHANGED <<program, disturbed>>
    BY <2>0, <2>6 DEF Activate, program
  <2>7. CASE UNCHANGED apiVars
    BY <2>0, <2>7 DEF apiVars, vars, program
  <2> QED BY <2>1, <2>2, <2>3, <2>4, <2>5, <2>6, <2>7 DEF ApiNext
<1> QED BY <1>1, <1>2, PTL DEF ApiSpec

\* What the program remembers of an output's type is what the controller does,
\* for every set of values, unless another client or an input interfered.
THEOREM ProgramAndControllerAgree == ApiSpec => []RecordsAgree
  BY ApiInvariance, PTL DEF ApiInv

\* A program of the API is a client like any other: with it, too, the services
\* behave as AnalogIO says.
THEOREM ApiImplementsServices == ApiSpec => Spec
<1>1. ApiInit => Init
  BY DEF ApiInit
<1> QED BY <1>1, ApiInvariance, ApiStep, PTL DEF ApiSpec, Spec

\* So outputs stay in range.
THEOREM ApiOutputsStayInRange == ApiSpec => []OutputsInRange
  BY ApiImplementsServices, OutputsStayInRange, PTL

-----------------------------------------------------------------------------
(***************************************************************************)
(* Proofs about RobotSync, for any number of robots, any bound on their    *)
(* waits and any choice of the master's calls.                             *)
(***************************************************************************)

Last == nRobot - 1

\* The calls of the master between WakeUpAll's first line and its return.
AllLabels == {"loop", "scan", "compare", "releaseAll"}

\* The same, or those of WakeUp.
CallLabels == AllLabels \cup {"poll", "release"}

\* A lock is held exactly while its robot is one pass ahead of its wake-ups.
LockCounts == \A r \in Robots : waits[r] = wakes[r] + (IF held[r] THEN 1 ELSE 0)

\* A robot that has raised its flag is inside Wait, and the master knows it.
FlagInside == \A r \in Robots : bIsWait[r] => Inside(r)
PresentInside == call \in CallLabels => \A r \in Robots : Inside(r) => r \in present
BitsPresent == call \in AllLabels => nCurBit \subseteq present
Found == call = "release" => at \in present
AtFirst == call = "compare" => at = 0
ReleaseComplete == call = "releaseAll" /\ nIsRun => nCurBit = Robots

\* WakeUpAll releases the locks in order: the robots before at are one
\* wake-up ahead of the others.
InOrder ==
  calls = {"WakeUpAll"} =>
    /\ call \notin {"poll", "release"}
    /\ \A r \in Robots :
         wakes[r] = wakes[Last] + (IF call \in {"releaseAll", "raised"} /\ r < at THEN 1 ELSE 0)

SyncInv ==
  /\ SyncTypeOK
  /\ LockCounts
  /\ FlagInside
  /\ PresentInside
  /\ BitsPresent
  /\ Found
  /\ AtFirst
  /\ ReleaseComplete
  /\ InOrder

-----------------------------------------------------------------------------
\* 0 and the last robot are robots, and the robots are natural numbers.
LEMMA RobotsFact == 0 \in Robots /\ Last \in Robots /\ Robots \subseteq Nat
  BY nRobotAssumption DEF Robots, Last

LEMMA InitSyncInv == SyncInit => SyncInv
  <1> SUFFICES ASSUME SyncInit PROVE SyncInv
    OBVIOUS
  <1>1. SyncTypeOK
    BY RobotsFact DEF SyncInit, SyncTypeOK
  <1>2. LockCounts
    BY DEF SyncInit, LockCounts
  <1>3. FlagInside /\ PresentInside /\ BitsPresent /\ Found /\ AtFirst /\ ReleaseComplete
    BY DEF SyncInit, FlagInside, PresentInside, BitsPresent, Found, AtFirst, ReleaseComplete, AllLabels, CallLabels
  <1>4. InOrder
    BY RobotsFact DEF SyncInit, InOrder
  <1> QED
    BY <1>1, <1>2, <1>3, <1>4 DEF SyncInv

\* The calls of a robot keep the invariant.
LEMMA WaiterStep ==
  ASSUME SyncInv, NEW r \in Robots, Waiter(r), UNCHANGED calls
  PROVE  SyncInv'
  <1> USE RobotsFact DEF SyncInv, Inside
  <1>1. CASE Arrive(r)
    <2>1. SyncTypeOK'
      BY <1>1 DEF Arrive, SyncTypeOK
    <2>2. LockCounts' /\ InOrder' /\ Found' /\ AtFirst' /\ ReleaseComplete'
      BY <1>1 DEF Arrive, LockCounts, InOrder, Found, AtFirst, ReleaseComplete
    <2>3. FlagInside' /\ PresentInside' /\ BitsPresent'
      BY <1>1 DEF Arrive, SyncTypeOK, FlagInside, PresentInside, BitsPresent
    <2> QED
      BY <2>1, <2>2, <2>3
  <1>2. CASE Acquire(r)
    <2>1. SyncTypeOK'
      BY <1>2 DEF Acquire, SyncTypeOK
    <2>2. LockCounts'
      BY <1>2 DEF Acquire, LockCounts, SyncTypeOK
    <2>3. InOrder' /\ Found' /\ AtFirst' /\ ReleaseComplete' /\ BitsPresent'
      BY <1>2 DEF Acquire, InOrder, Found, AtFirst, ReleaseComplete, BitsPresent
    <2>4. FlagInside' /\ PresentInside'
      BY <1>2 DEF Acquire, SyncTypeOK, FlagInside, PresentInside
    <2> QED
      BY <2>1, <2>2, <2>3, <2>4
  <1>3. CASE Leave(r)
    <2>1. SyncTypeOK'
      BY <1>3 DEF Leave, SyncTypeOK
    <2>2. LockCounts' /\ InOrder' /\ Found' /\ AtFirst' /\ ReleaseComplete' /\ BitsPresent'
      BY <1>3 DEF Leave, LockCounts, InOrder, Found, AtFirst, ReleaseComplete, BitsPresent
    <2>3. FlagInside' /\ PresentInside'
      BY <1>3 DEF Leave, SyncTypeOK, FlagInside, PresentInside
    <2> QED
      BY <2>1, <2>2, <2>3
  <1> QED
    BY <1>1, <1>2, <1>3 DEF Waiter

\* A release that succeeds keeps the count of its lock.
LEMMA ReleaseStep ==
  ASSUME SyncInv, NEW next \in AllLabels \cup {"none"}, Release(next), at' \in Robots,
         UNCHANGED calls
  PROVE  /\ SyncTypeOK'
         /\ LockCounts'
         /\ FlagInside'
         /\ wakes'[at] = wakes[at] + 1
         /\ \A r \in Robots \ {at} : wakes'[r] = wakes[r]
  <1> USE RobotsFact DEF SyncInv, Inside, AllLabels, CallLabels
  <1>1. SyncTypeOK'
    BY DEF Release, SyncTypeOK
  <1>2. wakes'[at] = wakes[at] + 1 /\ \A r \in Robots \ {at} : wakes'[r] = wakes[r]
    BY DEF Release, SyncTypeOK
  <1>3. LockCounts'
    BY <1>2 DEF Release, LockCounts, SyncTypeOK
  <1>4. FlagInside'
    BY DEF Release, FlagInside
  <1> QED
    BY <1>1, <1>2, <1>3, <1>4

\* The master's calls keep the invariant.
LEMMA MasterStep ==
  ASSUME SyncInv, Master, UNCHANGED calls
  PROVE  SyncInv'
  <1> USE RobotsFact DEF SyncInv
  <1>1. ASSUME NEW r \in Robots, CallWakeUp(r) PROVE SyncInv'
    <2>1. SyncTypeOK'
      BY <1>1 DEF CallWakeUp, MasterOnly, SyncTypeOK
    <2>2. LockCounts' /\ FlagInside'
      BY <1>1 DEF CallWakeUp, MasterOnly, LockCounts, FlagInside, Inside
    <2>3. PresentInside' /\ BitsPresent' /\ Found' /\ AtFirst' /\ ReleaseComplete' /\ InOrder'
      BY <1>1 DEF CallWakeUp, MasterOnly, PresentInside, BitsPresent, Found, AtFirst, ReleaseComplete, InOrder,
        AllLabels, Inside
    <2> QED
      BY <2>1, <2>2, <2>3
  <1>2. CASE CallWakeUpAll
    <2>1. SyncTypeOK'
      BY <1>2 DEF CallWakeUpAll, MasterOnly, SyncTypeOK
    <2>2. LockCounts' /\ FlagInside'
      BY <1>2 DEF CallWakeUpAll, MasterOnly, LockCounts, FlagInside, Inside
    <2>3. PresentInside' /\ BitsPresent' /\ Found' /\ AtFirst' /\ ReleaseComplete'
      BY <1>2 DEF CallWakeUpAll, MasterOnly, PresentInside, BitsPresent, Found, AtFirst, ReleaseComplete, Inside
    <2>4. InOrder'
      BY <1>2 DEF CallWakeUpAll, MasterOnly, InOrder
    <2> QED
      BY <2>1, <2>2, <2>3, <2>4
  <1>3. CASE Poll \/ Loop \/ Compare
    <2>1. SyncTypeOK'
      BY <1>3 DEF Poll, Loop, Compare, MasterOnly, SyncTypeOK
    <2>2. LockCounts' /\ FlagInside'
      BY <1>3 DEF Poll, Loop, Compare, MasterOnly, LockCounts, FlagInside, Inside
    <2>3. PresentInside' /\ BitsPresent' /\ ReleaseComplete'
      BY <1>3 DEF Poll, Loop, Compare, MasterOnly, PresentInside, BitsPresent, ReleaseComplete,
        AllLabels, CallLabels, Inside
    <2>5. Found' /\ AtFirst'
      BY <1>3 DEF Poll, Loop, Compare, MasterOnly, Found, AtFirst, FlagInside, PresentInside, CallLabels, SyncTypeOK
    <2>4. InOrder'
      <3>1. CASE Poll
        BY <3>1 DEF Poll, MasterOnly, InOrder
      <3>2. CASE Loop
        BY <3>2 DEF Loop, MasterOnly, InOrder, Robots
      <3>3. CASE Compare
        BY <3>3 DEF Compare, MasterOnly, InOrder, AtFirst, Robots
      <3> QED
        BY <1>3, <3>1, <3>2, <3>3
    <2> QED
      BY <2>1, <2>2, <2>3, <2>4, <2>5
  <1>4. CASE Scan
    <2>1. SyncTypeOK'
      BY <1>4, nRobotAssumption DEF Scan, MasterOnly, SyncTypeOK, Robots
    <2>2. LockCounts' /\ FlagInside'
      BY <1>4 DEF Scan, MasterOnly, LockCounts, FlagInside, Inside
    <2>3. PresentInside' /\ Found' /\ AtFirst' /\ ReleaseComplete'
      BY <1>4 DEF Scan, MasterOnly, PresentInside, Found, AtFirst, ReleaseComplete, AllLabels, CallLabels, Inside
    <2>4. BitsPresent'
      BY <1>4 DEF Scan, MasterOnly, BitsPresent, PresentInside, FlagInside, AllLabels, CallLabels, SyncTypeOK
    <2>5. InOrder'
      BY <1>4 DEF Scan, MasterOnly, InOrder
    <2> QED
      BY <2>1, <2>2, <2>3, <2>4, <2>5
  <1>5. CASE (call \in {"release", "releaseAll"}) /\ ReleaseRaises
    <2>1. SyncTypeOK'
      BY <1>5 DEF ReleaseRaises, SyncTypeOK
    <2>2. LockCounts' /\ FlagInside'
      BY <1>5 DEF ReleaseRaises, LockCounts, FlagInside, Inside
    <2>3. PresentInside' /\ BitsPresent' /\ Found' /\ AtFirst' /\ ReleaseComplete' /\ InOrder'
      BY <1>5 DEF ReleaseRaises, PresentInside, BitsPresent, Found, AtFirst, ReleaseComplete, InOrder, AllLabels, CallLabels
    <2> QED
      BY <2>1, <2>2, <2>3
  <1>6. CASE call = "release" /\ Release("none") /\ UNCHANGED at
    <2>1. SyncTypeOK' /\ LockCounts' /\ FlagInside'
      BY <1>6, ReleaseStep DEF SyncTypeOK
    <2>2. PresentInside' /\ BitsPresent' /\ Found' /\ AtFirst' /\ ReleaseComplete' /\ InOrder'
      BY <1>6 DEF Release, PresentInside, BitsPresent, Found, AtFirst, ReleaseComplete, InOrder, AllLabels, CallLabels
    <2> QED
      BY <2>1, <2>2
  <1>7. CASE call = "releaseAll" /\ at + 1 < nRobot /\ Release("releaseAll") /\ at' = at + 1
    <2>1. at \in Robots /\ at' \in Robots /\ at # Last
      BY <1>7, nRobotAssumption DEF SyncTypeOK, Robots, Last
    <2>2. /\ SyncTypeOK' /\ LockCounts' /\ FlagInside'
          /\ wakes'[at] = wakes[at] + 1
          /\ \A r \in Robots \ {at} : wakes'[r] = wakes[r]
      BY <1>7, <2>1, ReleaseStep DEF AllLabels, CallLabels
    <2>3. PresentInside' /\ BitsPresent' /\ Found' /\ AtFirst' /\ ReleaseComplete'
      BY <1>7 DEF Release, PresentInside, BitsPresent, Found, AtFirst, ReleaseComplete, AllLabels, CallLabels, Inside
    <2>4. InOrder'
      <3> SUFFICES ASSUME calls' = {"WakeUpAll"}, NEW r \in Robots
                   PROVE  wakes'[r] = wakes'[Last] + (IF r < at' THEN 1 ELSE 0)
        BY <1>7 DEF Release, InOrder
      <3>0. \A q \in Robots : wakes[q] = wakes[Last] + (IF q < at THEN 1 ELSE 0)
        BY <1>7 DEF InOrder
      <3>1. wakes[r] = wakes[Last] + (IF r < at THEN 1 ELSE 0) /\ wakes[at] = wakes[Last] + 0
        BY <2>1, <3>0
      <3>2. wakes'[Last] = wakes[Last] /\ wakes[Last] \in Nat
        BY <2>1, <2>2 DEF SyncTypeOK
      <3>3. CASE r = at
        BY <1>7, <2>1, <2>2, <3>1, <3>2, <3>3
      <3>4. CASE r # at
        BY <1>7, <2>1, <2>2, <3>1, <3>2, <3>4
      <3> QED
        BY <3>3, <3>4
    <2> QED
      BY <2>2, <2>3, <2>4
  <1>8. CASE call = "releaseAll" /\ at + 1 = nRobot /\ Release("none") /\ at' = 0
    <2>1. at = Last
      BY <1>8, nRobotAssumption DEF SyncTypeOK, Robots, Last
    <2>2. /\ SyncTypeOK' /\ LockCounts' /\ FlagInside'
          /\ wakes'[at] = wakes[at] + 1
          /\ \A r \in Robots \ {at} : wakes'[r] = wakes[r]
      BY <1>8, ReleaseStep
    <2>3. PresentInside' /\ BitsPresent' /\ Found' /\ AtFirst' /\ ReleaseComplete'
      BY <1>8 DEF Release, PresentInside, BitsPresent, Found, AtFirst, ReleaseComplete, AllLabels, CallLabels
    <2>4. InOrder'
      <3> SUFFICES ASSUME calls' = {"WakeUpAll"}, NEW r \in Robots PROVE wakes'[r] = wakes'[Last] + 0
        BY <1>8 DEF Release, InOrder
      <3>1. wakes[r] = wakes[Last] + (IF r < at THEN 1 ELSE 0) /\ wakes[r] \in Nat
        BY <1>8 DEF InOrder, SyncTypeOK
      <3>2. r # Last => r < at
        BY <2>1, nRobotAssumption DEF Robots, Last
      <3> QED
        BY <2>1, <2>2, <3>1, <3>2 DEF SyncTypeOK
    <2> QED
      BY <2>2, <2>3, <2>4
  <1> QED
    BY <1>1, <1>2, <1>3, <1>4, <1>5, <1>6, <1>7, <1>8 DEF Master, ReleaseOne, ReleaseAll

LEMMA SyncInvStep == SyncInv /\ [SyncNext]_syncVars => SyncInv'
  <1> SUFFICES ASSUME SyncInv, [SyncNext]_syncVars PROVE SyncInv'
    OBVIOUS
  <1>1. CASE CleanUp /\ UNCHANGED calls
    BY <1>1 DEF CleanUp, SyncInv, SyncTypeOK, LockCounts, FlagInside, PresentInside, BitsPresent,
      Found, AtFirst, ReleaseComplete, InOrder, Inside
  <1>2. CASE UNCHANGED syncVars
    BY <1>2 DEF syncVars, SyncInv, SyncTypeOK, LockCounts, FlagInside, PresentInside, BitsPresent,
      Found, AtFirst, ReleaseComplete, InOrder, Inside
  <1> QED
    BY <1>1, <1>2, WaiterStep, MasterStep DEF SyncNext

THEOREM SyncInvariance == SyncSpec => []SyncInv
  BY InitSyncInv, SyncInvStep, PTL DEF SyncSpec

-----------------------------------------------------------------------------
\* The state of a CRobotSync keeps its types.
THEOREM SyncTypeCorrect == SyncSpec => []SyncTypeOK
  <1>1. SyncInv => SyncTypeOK
    BY DEF SyncInv
  <1> QED
    BY <1>1, SyncInvariance, PTL

\* Each wake-up lets a robot through Wait once, and its first Wait is free.
THEOREM PassesAreWoken == SyncSpec => []OnePassPerWake
  <1>1. SyncInv => OnePassPerWake
    BY DEF SyncInv, LockCounts, OnePassPerWake, SyncTypeOK
  <1> QED
    BY <1>1, SyncInvariance, PTL

\* WakeUpAll releases the robots only after it found each one inside Wait.
THEOREM WakeUpAllIsBarrier == SyncSpec => []BarrierSeesAll
  <1>1. SyncInv => BarrierSeesAll
    BY DEF SyncInv, BitsPresent, ReleaseComplete, BarrierSeesAll, SyncTypeOK, AllLabels
  <1> QED
    BY <1>1, SyncInvariance, PTL

LEMMA WaiterKeeps ==
  ASSUME SyncInv, NEW r \in Robots, Waiter(r)
  PROVE  Promise!Enter(r) \/ Promise!Pass(r) \/ Promise!Return(r)
  <1>1. wait \in [Robots -> {"out", "acquire", "leave"}] /\ held \in [Robots -> BOOLEAN]
    BY DEF SyncInv, SyncTypeOK
  <1>2. CASE Arrive(r)
    <2>1. placeBar[r] = "away" /\ placeBar' = [placeBar EXCEPT ![r] = "inside"]
      BY <1>1, <1>2 DEF Arrive, placeBar
    <2> QED
      BY <1>2, <2>1 DEF Arrive, permitsBar, taskBar, dueBar, Promise!Enter
  <1>3. CASE Acquire(r)
    <2>1. placeBar[r] = "inside" /\ placeBar' = [placeBar EXCEPT ![r] = "passed"]
      BY <1>1, <1>3 DEF Acquire, placeBar
    <2>2. r \in permitsBar /\ permitsBar' = permitsBar \ {r}
      BY <1>1, <1>3 DEF Acquire, permitsBar
    <2> QED
      BY <1>3, <2>1, <2>2 DEF Acquire, taskBar, dueBar, Promise!Pass
  <1>4. CASE Leave(r)
    <2>1. placeBar[r] = "passed" /\ placeBar' = [placeBar EXCEPT ![r] = "away"]
      BY <1>1, <1>4 DEF Leave, placeBar
    <2> QED
      BY <1>4, <2>1 DEF Leave, permitsBar, taskBar, dueBar, Promise!Return
  <1> QED
    BY <1>2, <1>3, <1>4 DEF Waiter

\* The lock of a robot that the master may wake is released.
LEMMA ReleaseWakes ==
  ASSUME SyncInv, at \in Promise!Ready, NEW next, Release(next), dueBar' = dueBar \ {at},
         taskBar' = IF dueBar = {at} THEN "none" ELSE taskBar
  PROVE  Promise!Wake(at)
  <1>1. at \notin permitsBar /\ permitsBar' = permitsBar \cup {at}
    BY DEF SyncInv, SyncTypeOK, Release, permitsBar
  <1> QED
    BY <1>1 DEF Release, placeBar, Promise!Wake

\* It is free already.
LEMMA RaiseFails ==
  ASSUME SyncInv, at \in Promise!Ready, ReleaseRaises
  PROVE  Promise!Fail(at)
  <1>1. at \in permitsBar /\ permitsBar' = permitsBar
    BY DEF SyncInv, SyncTypeOK, ReleaseRaises, permitsBar
  <1>2. taskBar' = "failed" /\ dueBar' = {}
    BY DEF ReleaseRaises, taskBar, dueBar
  <1> QED
    BY <1>1, <1>2 DEF ReleaseRaises, placeBar, Promise!Fail

\* A call of the master that begins
LEMMA CallKeeps ==
  ASSUME SyncInv, MasterOnly, call = "none", present' = {q \in Robots : Inside(q)},
         NEW kind, taskBar' = kind, NEW S, dueBar' = S
  PROVE  Promise!Call(kind, S)
  <1>1. \A q \in Robots : Inside(q) <=> placeBar[q] # "away"
    BY DEF SyncInv, SyncTypeOK, Inside, placeBar
  <1>2. placeBar' = placeBar /\ permitsBar' = permitsBar /\ taskBar = "none"
    BY DEF MasterOnly, placeBar, permitsBar, taskBar
  <1> QED
    BY <1>1, <1>2 DEF MasterOnly, Promise!Call

LEMMA MasterKeeps ==
  ASSUME SyncInv, Master
  PROVE  [Promise!Next]_(Promise!promiseVars)
  <1>0. at \in Robots
    BY DEF SyncInv, SyncTypeOK
  <1>1. ASSUME NEW r \in Robots, CallWakeUp(r) PROVE Promise!Call("one", {r})
    <2>1. taskBar' = "one" /\ dueBar' = {r}
      BY <1>1 DEF CallWakeUp, taskBar, dueBar
    <2> QED
      BY <1>1, <2>1, CallKeeps DEF CallWakeUp
  <1>2. CASE CallWakeUpAll
    <2>1. taskBar' = "all" /\ dueBar' = Robots
      BY <1>2 DEF CallWakeUpAll, taskBar, dueBar
    <2>2. Promise!Call("all", Robots)
      BY <1>2, <2>1, CallKeeps DEF CallWakeUpAll
    <2> QED
      BY <2>2 DEF Promise!Next
  <1>3. CASE Poll /\ ~nIsRun
    <2>1. taskBar = "one" /\ taskBar' = "none" /\ dueBar' = {}
      BY <1>3 DEF Poll, taskBar, dueBar
    <2>2. Promise!GiveUp
      BY <1>3, <2>1 DEF Poll, MasterOnly, placeBar, permitsBar, Promise!GiveUp
    <2> QED
      BY <2>2 DEF Promise!Next
  \* The loops of the master change nothing the programs see.
  <1>4. CASE (Poll /\ nIsRun) \/ Loop \/ Scan \/ Compare
    <2>1. placeBar' = placeBar /\ permitsBar' = permitsBar /\ present' = present /\ nIsRun' = nIsRun
      BY <1>4 DEF Poll, Loop, Scan, Compare, MasterOnly, placeBar, permitsBar
    <2>2. taskBar' = taskBar
      BY <1>4 DEF Poll, Loop, Scan, Compare, taskBar
    <2>3. dueBar' = dueBar
      <3>1. {r \in Robots : 0 <= r} = Robots
        BY DEF Robots
      <3>2. CASE Poll /\ nIsRun
        BY <3>2 DEF Poll, dueBar
      <3>3. CASE Loop \/ Scan \/ Compare
        BY <3>1, <3>3 DEF Loop, Scan, Compare, SyncInv, AtFirst, dueBar
      <3> QED
        BY <1>4, <3>2, <3>3
    <2> QED
      BY <2>1, <2>2, <2>3 DEF Promise!promiseVars
  <1>5. CASE ReleaseOne
    <2>1. at \in Promise!Ready /\ dueBar = {at}
      BY <1>0, <1>5 DEF ReleaseOne, SyncInv, Found, taskBar, dueBar, Promise!Ready
    <2>2. CASE Release("none") /\ UNCHANGED at
      <3>1. taskBar' = "none" /\ dueBar' = {}
        BY <2>2 DEF Release, taskBar, dueBar
      <3> QED
        BY <1>0, <2>1, <2>2, <3>1, ReleaseWakes DEF Promise!Next
    <2> QED
      BY <1>0, <1>5, <2>1, <2>2, RaiseFails DEF ReleaseOne, Promise!Next
  <1>6. CASE ReleaseAll
    <2>1. call = "releaseAll" /\ taskBar = "all" /\ dueBar = {r \in Robots : at <= r}
      BY <1>6 DEF ReleaseAll, taskBar, dueBar
    <2>2. present = Robots \/ ~nIsRun
      BY <2>1 DEF SyncInv, SyncTypeOK, ReleaseComplete, BitsPresent, AllLabels
    <2>3. at \in Promise!Ready
      BY <1>0, <2>1, <2>2 DEF Promise!Ready, Robots
    <2>4. CASE at + 1 < nRobot /\ Release("releaseAll") /\ at' = at + 1
      <3>1. taskBar' = "all" /\ dueBar' = {r \in Robots : at + 1 <= r}
        BY <2>4 DEF Release, taskBar, dueBar
      <3>2. dueBar' = dueBar \ {at} /\ at + 1 \in dueBar
        BY <1>0, <2>1, <2>4, <3>1, nRobotAssumption DEF Robots
      <3>3. Promise!Wake(at)
        BY <1>0, <2>1, <2>3, <2>4, <3>1, <3>2, ReleaseWakes DEF Robots
      <3> QED
        BY <1>0, <3>3 DEF Promise!Next
    <2>5. CASE at + 1 = nRobot /\ Release("none") /\ at' = 0
      <3>1. taskBar' = "none" /\ dueBar' = {}
        BY <2>5 DEF Release, taskBar, dueBar
      <3>2. dueBar = {at}
        BY <1>0, <2>1, <2>5, nRobotAssumption DEF Robots
      <3>3. Promise!Wake(at)
        BY <2>3, <2>5, <3>1, <3>2, ReleaseWakes
      <3> QED
        BY <1>0, <3>3 DEF Promise!Next
    <2> QED
      BY <1>0, <1>6, <2>3, <2>4, <2>5, RaiseFails DEF ReleaseAll, Promise!Next
  <1> QED
    BY <1>1, <1>2, <1>3, <1>4, <1>5, <1>6 DEF Master, Promise!Next

LEMMA PromiseStep ==
  ASSUME SyncInv, [SyncNext]_syncVars
  PROVE  [Promise!Next]_(Promise!promiseVars)
  <1>1. CASE CleanUp
    BY <1>1 DEF CleanUp, SyncInv, SyncTypeOK, placeBar, permitsBar, taskBar, dueBar, Promise!End,
      Promise!Next
  <1>2. CASE UNCHANGED syncVars
    BY <1>2 DEF syncVars, placeBar, permitsBar, taskBar, dueBar, Promise!promiseVars
  <1>3. ASSUME NEW r \in Robots, Waiter(r) PROVE Promise!Next
    BY <1>3, WaiterKeeps DEF Promise!Next
  <1> QED
    BY <1>1, <1>2, <1>3, MasterKeeps DEF SyncNext

\* CRobotSync keeps its promise, for any number of robots.
THEOREM PromiseKept == SyncSpec => KeepsPromise
  <1>1. SyncInit => Promise!Init
    BY DEF SyncInit, placeBar, permitsBar, taskBar, dueBar, Promise!Init
  <1>2. SyncInv /\ [SyncNext]_syncVars => [Promise!Next]_(Promise!promiseVars)
    BY PromiseStep
  <1> QED
    BY <1>1, <1>2, SyncInvariance, PTL DEF SyncSpec, KeepsPromise, Promise!Spec

\* Robots that are only woken together are never more than two passes apart.
THEOREM RobotsInStep == SyncSpec => []Lockstep
  <1>1. SyncInv => Lockstep
    <2> SUFFICES ASSUME SyncInv, calls = {"WakeUpAll"}, NEW q \in Robots, NEW r \in Robots
                 PROVE  waits[q] <= waits[r] + 2
      BY DEF Lockstep
    <2>1. /\ waits[q] = wakes[q] + (IF held[q] THEN 1 ELSE 0)
          /\ waits[r] = wakes[r] + (IF held[r] THEN 1 ELSE 0)
      BY DEF SyncInv, LockCounts
    <2>2. /\ wakes[q] \in {wakes[Last], wakes[Last] + 1}
          /\ wakes[r] \in {wakes[Last], wakes[Last] + 1}
      BY RobotsFact DEF SyncInv, InOrder, SyncTypeOK
    <2>3. wakes[Last] \in Nat /\ wakes[q] \in Nat /\ wakes[r] \in Nat
      BY RobotsFact DEF SyncInv, SyncTypeOK
    <2> QED
      BY <2>1, <2>2, <2>3
  <1> QED
    BY <1>1, SyncInvariance, PTL

-----------------------------------------------------------------------------
(***************************************************************************)
(* What the lists of the TCP tools say of the sockets, and what they say   *)
(* of the peers, for any number of sockets, any sizes of the buffers and   *)
(* any limits of time.                                                     *)
(***************************************************************************)

TcpInv == TcpTypeOK /\ ListsTellSockets /\ GoneIsGone

\* Neither the lists nor which sockets are open depends on these steps.
LEMMA Quiet ==
  ASSUME TcpInv, TcpTypeOK', UNCHANGED <<conn, state, torn, socket, halfOpen>>,
         op.name = "connecting" => op' = op,
         emptied \subseteq emptied',
         \A s \in Socks : peer[s] # "open" => peer'[s] # "open"
  PROVE  TcpInv'
<1>1. GoneIsGone'
  BY DEF TcpInv, GoneIsGone, TcpTypeOK
<1>2. ListsTellSockets'
  BY DEF TcpInv, ListsTellSockets
<1> QED BY <1>1, <1>2 DEF TcpInv

Results == {"none", "socket", "data", "connected", "disconnected", "None",
            "0", "-1", "-2", "-3", "DR_Error", "exception"}

\* A close, of the entries of done alone or of them and then of s
LEMMA CloseStep ==
  ASSUME TcpInv, NEW done, done \subseteq conn, Closed(done), op = NoOp, op' = NoOp,
         result' \in Results
  PROVE  TcpInv'
<1> USE DEF TcpInv, TcpTypeOK, Closed, CloseSockets, Forget
<1>1. TcpTypeOK'
  BY TcpAssumption DEF NoOp, Op, Socks, Lengths, Limits, Results
<1>2. ListsTellSockets'
  BY DEF ListsTellSockets, NoOp, Op
<1>3. GoneIsGone'
  BY DEF GoneIsGone
<1> QED BY <1>1, <1>2, <1>3

LEMMA CloseRaisesStep ==
  ASSUME TcpInv, NEW done, done \subseteq conn, NEW s, CloseRaises(done, s), op = NoOp, op' = NoOp,
         result' \in Results
  PROVE  TcpInv'
<1> USE DEF TcpInv, TcpTypeOK, CloseRaises, CloseSockets, Forget
<1>1. TcpTypeOK'
  <2>1. halfOpen' \subseteq Socks
    OBVIOUS
  <2> QED BY <2>1, TcpAssumption DEF NoOp, Op, Socks, Lengths, Limits, Results
<1>2. ListsTellSockets'
  <2>1. halfOpen' \subseteq halfOpen \ done
    OBVIOUS
  <2> QED BY <2>1 DEF ListsTellSockets, NoOp, Op
<1>3. GoneIsGone'
  BY DEF GoneIsGone
<1> QED BY <1>1, <1>2, <1>3

\* The client's close takes a server's connection.
LEMMA StrayCloseStep ==
  ASSUME TcpInv, NEW s, s \in conn, CloseSockets({s}), torn' = torn \cup {s},
         op = NoOp, op' = NoOp, result' \in Results, UNCHANGED <<conn, state, halfOpen, emptied>>
  PROVE  TcpInv'
<1> USE DEF TcpInv, TcpTypeOK, CloseSockets
<1>1. TcpTypeOK'
  BY TcpAssumption DEF NoOp, Op, Socks, Lengths, Limits, Results
<1>2. ListsTellSockets'
  BY DEF ListsTellSockets, NoOp, Op
<1>3. GoneIsGone'
  BY DEF GoneIsGone
<1> QED BY <1>1, <1>2, <1>3

LEMMA BeginStep ==
  ASSUME TcpInv, NEW name \in {"open", "read", "flush"}, NEW s \in Socks,
         name # "open" => s \in conn,
         NEW length \in Lengths, NEW limit \in Limits \cup {0}, Begin(Op(name, s, length, limit))
  PROVE  TcpInv'
<1>1. /\ op = NoOp /\ op' = Op(name, s, length, limit) /\ result' = "none"
      /\ UNCHANGED <<conn, state, torn, socket, halfOpen, peer, buffer, full, emptied>>
  BY DEF Begin, lists, network
<1>2. TcpTypeOK'
  BY <1>1 DEF TcpInv, TcpTypeOK, Op
<1> QED BY <1>1, <1>2, Quiet DEF NoOp, Op

LEMMA ImmediateStep ==
  ASSUME TcpInv, NEW r \in Results, Immediate(r) PROVE TcpInv'
<1>1. /\ op = NoOp /\ op' = NoOp /\ result' = r
      /\ UNCHANGED <<conn, state, torn, socket, halfOpen, peer, buffer, full, emptied>>
  BY DEF Immediate, Return, lists, network
<1>2. TcpTypeOK'
  BY <1>1 DEF TcpInv, TcpTypeOK, NoOp, Op, Lengths, Limits, Results
<1> QED BY <1>1, <1>2, Quiet

LEMMA OpeningStep == ASSUME TcpInv, Opening PROVE TcpInv'
<1> USE DEF Return, lists, network
<1>0. op.sock \in Socks
  BY DEF TcpInv, TcpTypeOK, Opening, SocketMade, NoneMade, InVain, Established
<1>1. CASE SocketMade
  <2>1. op' = [op EXCEPT !.name = "connecting"]
    BY <1>1 DEF SocketMade
  <2>2. TcpTypeOK'
    BY <1>0, <1>1 DEF SocketMade, TcpInv, TcpTypeOK
  <2>3. op'.name = "connecting" /\ op'.sock = op.sock /\ op.name = "open"
    BY <1>1, <2>1 DEF SocketMade, TcpInv, TcpTypeOK
  <2>4. ListsTellSockets'
    BY <1>1, <2>3 DEF SocketMade, TcpInv, ListsTellSockets
  <2>5. GoneIsGone'
    BY <1>1 DEF SocketMade, TcpInv, GoneIsGone
  <2> QED BY <2>2, <2>4, <2>5 DEF TcpInv
<1>2. CASE NoneMade
  <2>1. TcpTypeOK'
    BY <1>2 DEF NoneMade, TcpInv, TcpTypeOK, NoOp, Op, Lengths, Limits
  <2> QED BY <1>2, <2>1, Quiet DEF NoneMade
<1>3. CASE InVain
  <2>1. TcpTypeOK'
    BY <1>3 DEF InVain, TcpInv, TcpTypeOK
  <2>2. ListsTellSockets'
    BY <1>3 DEF InVain, TcpInv, ListsTellSockets
  <2>3. GoneIsGone'
    BY <1>3 DEF InVain, TcpInv, GoneIsGone
  <2> QED BY <2>1, <2>2, <2>3 DEF TcpInv
<1>4. CASE Established
  <2> USE <1>0, <1>4 DEF TcpInv, TcpTypeOK, Established
  <2>1. TcpTypeOK'
    BY TcpAssumption DEF NoOp, Op, Lengths, Limits
  <2>2. ListsTellSockets'
    BY DEF ListsTellSockets
  <2>3. GoneIsGone'
    BY DEF GoneIsGone
  <2> QED BY <2>1, <2>2, <2>3
<1> QED BY <1>1, <1>2, <1>3, <1>4 DEF Opening

LEMMA CallsStep == ASSUME TcpInv, Calls PROVE TcpInv'
<1> USE DEF Results
<1>1. ASSUME NEW s \in Servers \cup {NoSock}, server_socket_open(s) PROVE TcpInv'
  BY <1>1, ImmediateStep, BeginStep, TcpAssumption DEF server_socket_open, Socks, Lengths
<1>2. ASSUME NEW s \in Clients \cup {NoSock}, client_socket_open(s) PROVE TcpInv'
  BY <1>2, ImmediateStep, BeginStep, TcpAssumption DEF client_socket_open, Socks, Lengths
<1>3. ASSUME NEW s \in Socks \cup {NoSock}, server_socket_close(s) PROVE TcpInv'
  <2>1. CASE \E r \in Results : Immediate(r)
    BY <2>1, ImmediateStep
  <2>2. CASE s \in conn /\ op = NoOp /\ Closed({s}) /\ Return("0")
    BY <2>2, CloseStep DEF Return
  <2>3. CASE op = NoOp /\ CloseRaises({}, s) /\ Return("DR_Error")
    BY <2>3, CloseRaisesStep DEF Return
  <2> QED BY <1>3, <2>1, <2>2, <2>3 DEF server_socket_close
<1>4. ASSUME NEW s \in Socks \cup {NoSock}, client_socket_close(s) PROVE TcpInv'
  <2>1. CASE \E r \in Results : Immediate(r)
    BY <2>1, ImmediateStep
  <2>2. CASE s \in conn /\ op = NoOp /\ Closed({s}) /\ Return("0")
    BY <2>2, CloseStep DEF Return
  <2>3. CASE op = NoOp /\ CloseRaises({}, s) /\ Return("DR_Error")
    BY <2>3, CloseRaisesStep DEF Return
  <2>4. CASE /\ s \in conn /\ op = NoOp /\ CloseSockets({s}) /\ torn' = torn \cup {s}
             /\ Return("exception") \/ Return("DR_Error")
             /\ UNCHANGED <<conn, state, halfOpen, emptied>>
    BY <2>4, StrayCloseStep DEF Return
  <2> QED BY <1>4, <2>1, <2>2, <2>3, <2>4 DEF client_socket_close
<1>5. CASE clean_server_socket \/ clean_client_socket
  <2>1. ASSUME NEW S, NEW error \in Results, CloseAll(S, error) PROVE TcpInv'
    <3>1. CASE Closed(S \cap conn) /\ Return("None")
      BY <2>1, <3>1, CloseStep DEF CloseAll, Return
    <3>2. CASE \E done \in SUBSET (S \cap conn), s \in S : CloseRaises(done, s) /\ Return(error)
      BY <2>1, <3>2, CloseRaisesStep DEF CloseAll, Return
    <3> QED BY <2>1, <3>1, <3>2 DEF CloseAll
  <2> QED BY <1>5, <2>1 DEF clean_server_socket, clean_client_socket
<1>6. ASSUME NEW s \in Socks, Drop(s) PROVE TcpInv'
  <2>1. TcpTypeOK'
    BY <1>6 DEF Drop, TcpInv, TcpTypeOK, lists
  <2>2. ListsTellSockets'
    BY <1>6 DEF Drop, TcpInv, TcpTypeOK, ListsTellSockets, lists
  <2>3. GoneIsGone'
    BY <1>6 DEF Drop, TcpInv, GoneIsGone, lists
  <2> QED BY <2>1, <2>2, <2>3 DEF TcpInv
<1>7. ASSUME NEW s \in Socks \cup {NoSock},
             socket_state(s) \/ socket_end_data(s) \/ socket_flush(s)
      PROVE  TcpInv'
  BY <1>7, ImmediateStep, BeginStep DEF socket_state, socket_end_data, socket_flush, Socks, Lengths,
     TcpInv, TcpTypeOK
<1>8. ASSUME NEW s \in Socks \cup {NoSock}, socket_write(s) PROVE TcpInv'
  <2>1. CASE \E r \in Results : Immediate(r)
    BY <2>1, ImmediateStep
  <2>2. CASE /\ s \in conn /\ op = NoOp
             /\ Return("0") \/ Return("-2")
             /\ full' \subseteq full \cup {s}
             /\ UNCHANGED peer \/ peer' = [peer EXCEPT ![s] = "closed"]
             /\ UNCHANGED <<lists, socket, halfOpen, buffer, emptied>>
    <3>1. op' = NoOp /\ result' \in Results
      BY <2>2 DEF Return
    <3>2. peer' \in [Socks -> {"open", "closed", "broken"}] /\ full' \subseteq Socks
      BY <2>2 DEF TcpInv, TcpTypeOK
    <3>3. \A t \in Socks : peer[t] # "open" => peer'[t] # "open"
      BY <2>2 DEF TcpInv, TcpTypeOK
    <3>4. TcpTypeOK'
      BY <2>2, <3>1, <3>2 DEF TcpInv, TcpTypeOK, NoOp, Op, lists, Lengths, Limits
    <3> QED BY <2>2, <3>1, <3>3, <3>4, Quiet DEF lists, NoOp, Op
  <2> QED BY <1>8, <2>1, <2>2 DEF socket_write
<1>9. ASSUME NEW s \in Socks \cup {NoSock}, NEW length \in Lengths, NEW limit \in Limits,
             socket_read(s, length, limit)
      PROVE  TcpInv'
  BY <1>9, ImmediateStep, BeginStep DEF socket_read, TcpInv, TcpTypeOK
<1> QED BY <1>1, <1>2, <1>3, <1>4, <1>5, <1>6, <1>7, <1>8, <1>9 DEF Calls

LEMMA ProgressStep == ASSUME TcpInv, Progress \/ SelectError PROVE TcpInv'
<1> USE DEF Return, lists, network, Reading, Flushing
<1>0. op.sock \in conn /\ op.sock \in Socks /\ op.name # "connecting"
  BY DEF TcpInv, TcpTypeOK, Progress, SelectError, Received, NothingReceived, Broken, TimedOut,
         Discard, Flushed
<1> USE <1>0
<1>1. CASE Received
  <2>1. TcpTypeOK'
    BY <1>1, TcpAssumption DEF Received, TcpInv, TcpTypeOK, NoOp, Op, Lengths, Limits
  <2> QED BY <1>1, <2>1, Quiet DEF Received
<1>2. CASE NothingReceived
  <2>1. TcpTypeOK'
    BY <1>2 DEF NothingReceived, SetState, TcpInv, TcpTypeOK, NoOp, Op, Lengths, Limits
  <2>2. UNCHANGED <<conn, torn, socket, halfOpen, peer>> /\ emptied \subseteq emptied'
    BY <1>2 DEF NothingReceived
  <2>3. op.sock \in emptied' \/ peer[op.sock] = "closed"
    BY <1>2 DEF NothingReceived, TcpInv, TcpTypeOK
  <2>4. \A s \in conn : s # op.sock => state'[s] = state[s]
    BY <1>2 DEF NothingReceived, SetState, TcpInv, TcpTypeOK
  <2>5. GoneIsGone'
    BY <2>2, <2>3, <2>4 DEF TcpInv, GoneIsGone
  <2>6. ListsTellSockets'
    BY <2>2 DEF TcpInv, ListsTellSockets
  <2> QED BY <2>1, <2>5, <2>6 DEF TcpInv
<1>3. CASE Broken
  <2>1. TcpTypeOK'
    BY <1>3 DEF Broken, TcpInv, TcpTypeOK, NoOp, Op, Lengths, Limits
  <2> QED BY <1>3, <2>1, Quiet DEF Broken, TcpInv, TcpTypeOK
<1>4. CASE TimedOut
  <2>1. TcpTypeOK'
    <3>1. CASE Return("-3")
      BY <1>4, <3>1 DEF TimedOut, TcpInv, TcpTypeOK, NoOp, Op, Lengths, Limits
    <3>2. CASE op' = [op EXCEPT !.tries = @ + 1] /\ UNCHANGED result
      BY <1>4, <3>2 DEF TimedOut, TcpInv, TcpTypeOK
    <3> QED BY <1>4, <3>1, <3>2 DEF TimedOut
  <2> QED BY <1>4, <2>1, Quiet DEF TimedOut
<1>5. CASE Discard
  <2>1. TcpTypeOK'
    BY <1>5, TcpAssumption DEF Discard, TcpInv, TcpTypeOK
  <2> QED BY <1>5, <2>1, Quiet DEF Discard
<1>6. CASE Flushed \/ SelectError
  <2>1. TcpTypeOK'
    BY <1>6 DEF Flushed, SelectError, TcpInv, TcpTypeOK, NoOp, Op, Lengths, Limits
  <2> QED BY <1>6, <2>1, Quiet DEF Flushed, SelectError
<1> QED BY <1>1, <1>2, <1>3, <1>4, <1>5, <1>6 DEF Progress

LEMMA EnvironmentStep == ASSUME TcpInv, Environment PROVE TcpInv'
<1> SUFFICES ASSUME NEW s \in Socks, Send(s) \/ Drains(s) \/ PeerCloses(s) \/ Breaks(s) PROVE TcpInv'
  BY DEF Environment
<1> USE DEF Send, Drains, PeerCloses, Breaks, lists
<1>1. TcpTypeOK'
  BY TcpAssumption DEF TcpInv, TcpTypeOK
<1> QED BY <1>1, Quiet DEF TcpInv, TcpTypeOK

LEMMA TcpInvariance == TcpSpec => []TcpInv
<1>1. TcpInit => TcpInv
  BY TcpAssumption DEF TcpInit, TcpInv, TcpTypeOK, ListsTellSockets, GoneIsGone, NoOp, Op,
     Lengths, Limits
<1>2. TcpInv /\ [TcpNext]_tcpVars => TcpInv'
  <2> SUFFICES ASSUME TcpInv, [TcpNext]_tcpVars PROVE TcpInv'
    OBVIOUS
  <2>1. CASE UNCHANGED tcpVars
    BY <2>1 DEF tcpVars, lists, network, TcpInv, TcpTypeOK, ListsTellSockets, GoneIsGone
  <2> QED BY <2>1, CallsStep, OpeningStep, ProgressStep, EnvironmentStep DEF TcpNext
<1> QED BY <1>1, <1>2, PTL DEF TcpSpec

\* Every function of the tools keeps the lists, the sockets and the values it
\* returns what they are said to be.
THEOREM TcpTypeCorrect == TcpSpec => []TcpTypeOK
  BY TcpInvariance, PTL DEF TcpInv

\* Every open socket is that of an entry of CONN_LIST or of the try under way,
\* whichever close raised and however many tries were in vain; and an entry whose
\* connection is closed is one on which a close ended with an exception.
THEOREM ListsAgree == TcpSpec => []ListsTellSockets
  BY TcpInvariance, PTL DEF TcpInv

\* A connection that is said to be gone is gone, unless nothing was asked of it.
THEOREM ReportsAreTrue == TcpSpec => []GoneIsGone
  BY TcpInvariance, PTL DEF TcpInv
=============================================================================
