------------------------------ MODULE AnalogApi ------------------------------
(***************************************************************************)
(* A program of the Python robot API (DSR_ROBOT2.py) that uses the analog  *)
(* outputs, beside other clients of the same services (AnalogIO).          *)
(*                                                                         *)
(* The API keeps the type of each output once more, in module globals: it  *)
(* sets them before it asks the controller, and checks a value against     *)
(* them before the controller checks it against its own.  A check that     *)
(* fails raises DR_Error, which shuts the program's ROS context down;      *)
(* Ctrl-C does so too.  A program that is started again knows no type.     *)
(***************************************************************************)
EXTENDS AnalogIO

VARIABLES
  mode,      \* _g_analog_output_mode_ch1 and _ch2
  asked,      \* the request on its way to the controller, or NoCall
  alive,     \* rclpy.ok() of the program
  disturbed  \* history: channels whose record at the controller is another's doing

program == <<mode, asked, alive>>
apiVars == <<vars, program, disturbed>>

Request(srv, ch, val) == [srv |-> srv, ch |-> ch, val |-> val]
NoCall == Request("none", 0, 0)

UnsetModes == [ch \in Channels |-> NotSet]

ApiInit ==
  /\ Init
  /\ mode = UnsetModes /\ asked = NoCall /\ alive = TRUE
  /\ disturbed = {}

-----------------------------------------------------------------------------
(* The program                                                             *)

Ask(req) == asked' = req /\ UNCHANGED <<mode, alive>>
DR_Error == alive' = FALSE /\ UNCHANGED <<mode, asked>>

set_analog_output(ch, val) ==
  /\ IF mode[ch] # NotSet /\ val \in RangeOf(mode[ch])
     THEN Ask(Request("set_analog_output", ch, val))
     ELSE DR_Error
  /\ UNCHANGED disturbed

\* The record of the other channel is set.
set_mode_analog_output_variant(ch, mod) ==
  /\ mode' = [mode EXCEPT ![3 - ch] = mod]
  /\ asked' = Request("set_mode_analog_output", ch, mod)
  /\ UNCHANGED <<alive, disturbed>>

\* The API's record changes before the controller is asked.
set_mode_analog_output(ch, mod) ==
  /\ mode' = [mode EXCEPT ![ch] = mod]
  /\ asked' = Request("set_mode_analog_output", ch, mod)
  /\ UNCHANGED <<alive, disturbed>>

set_mode_analog_input(ch, mod) ==
  Ask(Request("set_mode_analog_input", ch, mod)) /\ UNCHANGED disturbed

Call ==
  /\ alive /\ asked = NoCall
  /\ \E ch \in Channels :
       \/ \E val \in Values : set_analog_output(ch, val)
       \/ \E mod \in Types : set_mode_analog_output(ch, mod) \/ set_mode_analog_input(ch, mod)
  /\ UNCHANGED vars

\* Ctrl-C: the request may still reach the controller or not.
Interrupt ==
  /\ alive /\ alive' = FALSE
  /\ asked' \in {asked, NoCall}
  /\ UNCHANGED <<vars, mode, disturbed>>

Restart ==
  /\ ~ alive /\ asked = NoCall
  /\ alive' = TRUE /\ mode' = UnsetModes
  /\ UNCHANGED <<vars, asked, disturbed>>

-----------------------------------------------------------------------------
(* The controller serves the program's request, or another client's.       *)

RefusesValue(ch, val) ==
  /\ outputMode[ch] # NotSet => val \notin RangeOf(outputMode[ch])
  /\ UNCHANGED vars

Serve ==
  /\ asked # NoCall /\ asked' = NoCall
  /\ \/ /\ asked.srv = "set_analog_output"
        /\ SetOutput(asked.ch, asked.val) \/ RefusesValue(asked.ch, asked.val)
        /\ UNCHANGED disturbed
     \/ /\ asked.srv = "set_mode_analog_output"
        /\ SetOutputType(asked.ch, asked.val)
        /\ disturbed' = disturbed \ {asked.ch}
     \/ /\ asked.srv = "set_mode_analog_input"
        /\ SetInputType(asked.ch, asked.val)
        /\ disturbed' = disturbed \cup {asked.ch}
  /\ UNCHANGED <<mode, alive>>

OtherClient ==
  /\ \E ch \in Channels :
       \/ (\E val \in Values : SetOutput(ch, val)) /\ UNCHANGED disturbed
       \/ /\ \E mod \in Types : SetOutputType(ch, mod) \/ SetInputType(ch, mod)
          /\ disturbed' = disturbed \cup {ch}
  /\ UNCHANGED program

ApiNext ==
  \/ Call \/ Interrupt \/ Restart \/ Serve \/ OtherClient
  \/ Activate /\ UNCHANGED <<program, disturbed>>

ApiSpec == ApiInit /\ [][ApiNext]_apiVars

-----------------------------------------------------------------------------
(* Properties                                                              *)

(***************************************************************************)
(* The two records of an output's type, in the program and in the          *)
(* controller, agree whenever both have one and no call that sets it is    *)
(* under way, across refusals by the robot, restarts of the program and    *)
(* activations of the controller, unless another client has set the type   *)
(* or the type of an input was set.  A value that the API lets through is  *)
(* then one that the controller does not refuse.                           *)
(***************************************************************************)
Setting(ch) == asked.srv = "set_mode_analog_output" /\ asked.ch = ch
RecordsAgree ==
  alive =>
    \A ch \in Channels \ disturbed :
      mode[ch] # NotSet /\ outputMode[ch] # NotSet /\ ~ Setting(ch) => mode[ch] = outputMode[ch]
=============================================================================
