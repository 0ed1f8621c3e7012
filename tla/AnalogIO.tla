------------------------------- MODULE AnalogIO -------------------------------
(***************************************************************************)
(* The analog inputs and outputs of the control box in dsr_controller2.    *)
(*                                                                         *)
(* An output channel is driven with a current or a voltage.  The services  *)
(* of the controller keep the type of each output in a global variable and *)
(* check the range of a value against it before they hand it to DRFL.  The *)
(* services run one at a time (see MotionServer), the controller may be    *)
(* activated again, and the teach pendant is not used on these channels.   *)
(***************************************************************************)
EXTENDS Integers

CONSTANT Values  \* the values clients ask for, in mA or V

ASSUME ValuesAssumption == Values \subseteq Int

VARIABLES
  outputMode,  \* g_nAnalogOutputModeCh1 and Ch2
  outType,     \* the type the control box gives each output
  output,      \* the last value handed to DRFL, for which output, and its type then
  refused,     \* history: the channels for whose output DRFL refused a type
  inputSet     \* history: the channels whose input was given a type

history == <<refused, inputSet>>
vars == <<outputMode, outType, output, history>>

NotSet == -1
Current == 0
Voltage == 1
Types == {Current, Voltage}

Channels == 1..2

\* What set_analog_output accepts as a current and as a voltage.
RangeOf(type) == IF type = Current THEN 4..20 ELSE 0..10

\* No output has been driven yet.
NoOutput == [ch |-> 1, value |-> 0, type |-> Voltage]

\* on_activate forgets what it knew; the control box may be in any state.
Activate ==
  /\ outputMode' = [ch \in Channels |-> NotSet]
  /\ UNCHANGED <<outType, output, history>>

Init ==
  /\ outputMode = [ch \in Channels |-> NotSet]
  /\ outType \in [Channels -> Types]
  /\ output = NoOutput
  /\ refused = {} /\ inputSet = {}

\* Only a channel known to be of no type is refused.
SetOutputVariant(ch, v) ==
  /\ outputMode[ch] # NotSet
  /\ v \in RangeOf(Current) \cup RangeOf(Voltage)
  /\ output' = [ch |-> ch, value |-> v, type |-> outType[ch]]
  /\ UNCHANGED <<outputMode, outType, history>>

\* set_analog_output of a value that is not refused
SetOutput(ch, v) ==
  /\ outputMode[ch] # NotSet
  /\ v \in RangeOf(outputMode[ch])
  /\ output' = [ch |-> ch, value |-> v, type |-> outType[ch]]
  /\ UNCHANGED <<outputMode, outType, history>>

\* set_analog_output_type: the variable is set whether or not DRFL succeeds.
SetOutputType(ch, type) ==
  /\ outputMode' = [outputMode EXCEPT ![ch] = type]
  /\ \/ outType' = [outType EXCEPT ![ch] = type] /\ UNCHANGED refused
     \/ refused' = refused \cup {ch} /\ UNCHANGED outType
  /\ UNCHANGED <<output, inputSet>>

\* set_analog_input_type: on success the variable of the output is set.  What
\* type the input has is of no consequence for an output.
SetInputType(ch, type) ==
  /\ \/ /\ outputMode' = [outputMode EXCEPT ![ch] = type]
        /\ inputSet' = inputSet \cup {ch}
     \/ UNCHANGED <<outputMode, inputSet>>
  /\ UNCHANGED <<outType, output, refused>>

Next ==
  \/ Activate
  \/ \E ch \in Channels, v \in Values : SetOutput(ch, v)
  \/ \E ch \in Channels, type \in Types : SetOutputType(ch, type) \/ SetInputType(ch, type)

Spec == Init /\ [][Next]_vars

-----------------------------------------------------------------------------
(* Properties.                                                             *)

TypeOK ==
  /\ outputMode \in [Channels -> Types \cup {NotSet}]
  /\ outType \in [Channels -> Types]
  /\ output \in [ch : Channels, value : Values \cup {0}, type : Types]
  /\ refused \subseteq Channels /\ inputSet \subseteq Channels

InRange == output.value \in RangeOf(output.type)

(***************************************************************************)
(* However often the types change and the controller is activated again,   *)
(* no output is driven with a value outside the range of its type, as long *)
(* as DRFL refused no type of it and its input was given none: otherwise   *)
(* the controller's record of the type is not the output's.                *)
(***************************************************************************)
OutputsInRange == output.ch \notin refused \cup inputSet => InRange

=============================================================================
