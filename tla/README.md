# TLA+ verification of the Doosan robot driver, its Python API and the motion-loop nodes

The repository (`src/` is its root; the code is under `src/src/doosan-robot2/`,
and paths below are relative to it) is a ROS 2 driver for Doosan robots with a
package of nodes that move a robot along loops and a Python API for robot
programs. This directory models the parts of it in which order, concurrency and
failure decide what the robot does, and all of the API's decisions. The
modules are checked by TLC on small instances; most of their safety properties
are also proved with TLAPS for every value of the constants.

Abbreviations: *ctrl* is `dsr_controller2/src/dsr_controller2.cpp`, *hw* is
`dsr_hardware2/src/dsr_hw_interface2.cpp`, *traj* is
`dsr_controller2/src/dsr_joint_trajectory.cpp`, *api* is
`dsr_common2/imp/DSR_ROBOT2.py`, *DRFL* is the vendor's library
(closed source), *DRCF* the robot controller it talks to, *TP* the teach
pendant.

## 1. Inventory

| Component | State | Operations | Talks to |
|---|---|---|---|
| Motion services (ctrl 430-758, 2373-2423) | none of their own: the requests in the executor's queues and callbacks, and the motion DRFL executes | `move_*` (sync, async), `move_wait`, `move_pause`, `move_resume`, `move_stop` | DRFL; called by every client |
| Motion-loop nodes (`doosan_motion_loop/*.py`) | `is_running`/`is_moving`, `should_stop`, direction or list of waypoints | SPACE, Q, Ctrl-C; a worker thread per run | motion services; flags shared by three threads without a lock |
| CRobotSync (`dsr_common2/imp/DSR_util2.py`) | `nIsRun`, `bIsWait`, `lock`, `nCurBit` | `Wait`, `WakeUp`, `WakeUpAll`, `CleanUp` | threads of robot programs and their master |
| Control authority (hw 150-197, ctrl 103-143, 2812-3100) | `get_control_access`, `is_standby`; `g_bHasControlAuthority`, `g_bTpInitailizingComplted`, `init_state` | start-up loop; callbacks of DRFL | DRCF, TP |
| Servo path (traj; hw 392-529) | `new_msg_`, the RealtimeBuffer, `trajectory_msg_`, `start_time_`; the command and its reference | subscription callback, `update`, `on_activate`, `write` | controller manager, DRFL |
| Analog I/O (ctrl 1718-1844) | `g_nAnalogOutputModeCh1`, `Ch2` | set an output, set the type of an output or an input | DRFL |
| Hold-to-run actions (ctrl 2612-2760) | goal handles, a detached thread per goal | goal, cancel, accepted | motion services' callback group, DRFL |
| Python API (api, `DR_common2.py`, `DR_error2.py`) | default speeds and frame, types of the analog outputs, in module globals; the ROS context | about 200 functions and the methods of `CDsrRobot`: check, fill in, ask, wait | services and streams of the controller |
| TCP tools (`DR_tcp_server2.py`, `DR_tcp_client2.py`) | `CONN_LIST`, `CONN_STATE_LIST`, sockets | open, close, clean, state, write, read, flush | peers |
| C++ twin of CRobotSync (`dsr_util.h`) | a condition variable per robot | - | nothing includes it; not modelled |
| Other services and topics, launch files, bridges, tests, descriptions, messages, vendored headers | none that a property is about | - | not modelled |

What is hard here, and what makes each part correct:

- *Motion services.* A sync motion blocks its callback until the robot is done,
  and all services but `move_stop` share one mutually exclusive callback group.
  The group must keep a motion from being given up for another one under its
  client's eyes, and must not keep `move_stop` from ending it.
- *Motion-loop nodes.* Keyboard, worker and main thread race on plain
  attributes; calls time out and leave their requests with the server. Motions
  must come in the order of the script, Q must end the run and the process, and
  a node that reports no run must have left the robot still. The trigger node
  (`default_motion.py`) shares no flag with its worker but the one that keeps a
  second cycle out.
- *CRobotSync.* Flags polled by one thread and locks released by another must
  make a barrier: no wake-up lost or doubled, no robot released early.
- *Control authority.* Two sets of callbacks take turns while events arrive. The
  driver must not believe it has the authority when it has not, must learn of it
  when it has, and must leave no stop of the robot standing.
- *Servo path.* A message is handed from an executor thread to the real-time
  thread by a buffer and a flag; cycles may be skipped and small changes unsent.
  The newest message must be followed and the robot must arrive.
- *Analog I/O.* The range of a value is tested against a remembered type, by the
  program against its own record and by the controller against its own; the two
  must agree across refusals, restarts and other clients.
- *Python API.* A missing argument is resolved from an alias, a default or an
  object; the frame a program fills in must be the controller's; nothing may be
  sent to move without a speed; what the setters take must be enough to move with.
- *TCP tools.* The lists must tell the sockets although a connection may end at
  any moment, a connection that is there must not be reported gone, and reads
  and flushes must end.
- *Hold-to-run.* Threads outside all callback groups command the same robot.

`PROJECT.json` lists the single hazards at their lines, with the properties that
cover them, or why none does.

## 2. Modules

| Module | Models | Uses |
|---|---|---|
| `MotionServer` | the motion services, the executor, the robot's motion | - |
| `MotionCycle` | `spline_motion.py`, `test.py`, `default_motion.py` | `INSTANCE MotionServer` |
| `LoopMotion` | `line_motion.py`, `arc_motion.py`, `sine_wave.py` | `INSTANCE MotionServer` |
| `H2RMotion` | the hold-to-run actions | `INSTANCE MotionServer` |
| `RobotSync` | `CRobotSync` | `INSTANCE SyncPromise`, which it implements |
| `SyncPromise` | what `CRobotSync` promises: a permit per wake-up, a barrier | - |
| `ControlAuthority` | `on_init`, `on_configure`, DRFL callbacks, DRCF, TP | - |
| `JointControl` | trajectory controller and `write` | - |
| `AnalogIO` | the analog output and type services | - |
| `AnalogApi` | a program that uses the analog outputs, with other clients | `EXTENDS AnalogIO`, which it implements |
| `DrArguments` | the arguments of the API: kinds, checks, how a missing one is resolved | - |
| `DrMotions` | the motion functions and streams, as operators from arguments to requests | `DrArguments` |
| `DrForms` | the four functions with any number of arguments | `DrArguments` |
| `DrServices` | all other functions that ask a service | `DrArguments` |
| `DrObjects` | the methods of `CDsrRobot` that differ from the functions | `DrMotions`, `DrServices` |
| `RobotApi` | a program of the API and its controller | `DrObjects`, `DrForms` |
| `TcpTools` | the TCP tools and their peers | - |
| `MC...` | symmetry, the list of messages and the sets of arguments for TLC | |
| `..._proofs` | inductive invariants, lemmas and theorems | the module they are named after; those of `MotionCycle` and `LoopMotion` also `INSTANCE MotionServer_proofs` |
| `PythonTools_proofs` | the same for the three Python tools | `AnalogApi`, `RobotSync`, `TcpTools` |

How state and actions correspond to the code, and what is abstracted:

- **MotionServer.** A request goes through `unsent`, `queued` (in the queue of
  its service), `taken` (its callback runs), `blocked` (in a DRFL call that
  waits) and `answered`. `Group` is the callback group the service is created in
  (ctrl:2417 gives `move_stop` its own). `move` stands for every motion service
  with `sync_type` 0, `blend` for one that names a blending radius besides
  (ctrl:439), `amove` for those with `sync_type` 1. The robot is `motion`, the
  request it executes, and `paused`. A blended motion may answer when the robot is
  within its radius (`Approach`): the robot goes on, `motion` is `Blending`, until it
  rests or the next motion is joined to it. DRFL is external: a motion may be
  refused, a new one replaces an asynchronous one, a stopped one returns with
  either result, and no motion need ever end. A stop may be refused, too: then
  `move_stop` answers FALSE (ctrl:747) and the robot goes on. Positions and speeds
  are left out.
- **MotionCycle.** One label per statement of `execute_cycle` that touches what
  threads share: the guard at :380, `is_running = True`, `should_stop = False`,
  each call and its answer or timeout, each check, `finally`. The keyboard thread
  (`rclpy.ok()`, then a key - SPACE, Q, any other or none - `stop_robot`, shutdown)
  and the main thread (spin, Ctrl-C, exit,
  which kills the daemon threads) have labels of their own. The script is its
  number of motions: each but the last is followed by the same two tests.
  Requests of the node are the requests of `MotionServer`. `program` selects
  `default_motion.py` instead: `Spawn` sets its flag before the thread starts,
  the results of the approach are ignored, a failed waypoint leads to the
  `move_stop` of the worker, an exception leaves the flag set, and Q sets nothing.
  History variables: `late`, calls that timed out; `quitAt`, how far each cycle was
  when Q was pressed; `overlap`, whether two cycles have run at once.
- **LoopMotion.** The same threads, with a script that loops: HOME, PRE-START,
  the first waypoint, then passes. `sine` is chosen at the start and selects the
  program where the three differ: sine has no checks in the approach, makes
  passes of single lines, stops before HOME, and reverses the list all runs
  share, whereas line and arc reverse a local variable and fall back from a
  spline to single lines. All motions of sine have a radius of 80 (sine_wave.py:256,
  302), and so have the single lines of a fallback but the last (line_motion.py:370):
  they are `blend` requests (`Move`, `LegMove`). Two waypoints stand for the path. A worker's request
  takes a slot that is free again when its response is taken (`Collect`), or
  discarded because nobody waits for it any more, so runs and passes go on
  without bound. History variables: `at`, where the last completed motion left
  the robot, or leaves it when it is within the radius; `call`, from where to where a
  request moves it (both until a call times out); `late`, calls that timed out; `quit`, whether Q was seen or lost
  (a run cleared the `should_stop` it had set); `afterQuit`, motions since.
- **RobotSync, SyncPromise.** Each line that reads or writes a shared attribute is a step;
  `lock.acquire` waits, `lock.release` of a lock nobody holds raises. `nCurBit`
  is the set of its bits. `calls`, chosen at the start, is what the master's
  program calls. `SyncPromise` has no locks, flags and bits: robots come, pass with a
  permit and return, and the master's call wakes the robots it has met, `WakeUpAll`
  when it has met them all. A free lock is a permit, `call` and `at` tell which
  robots are still due (`permitsBar`, `taskBar`, `dueBar`); the polling loops stutter.
- **ControlAuthority.** `inbox` is the order in which DRFL delivers events; they
  go to the callback registered at that moment. `on_init`'s two flags are written
  in separate steps, the retry loop reads them one by one, `on_configure` replaces
  one callback at a time. `CtrlState` and `HandleState` separate what
  `OnMonitoringStateCB` is called with from when it acts. The DRCF and the TP are
  external; what a robot control command does is what
  `dsr_msgs2/srv/system/SetRobotControl.srv` says, for the owner only. It is never
  refused to the owner, though DRFL's function has a result, which ctrl:3026-3046
  does not look at; and the DRCF always grants a forced request (hw:153-157). Both
  are assumptions of `StopsAreReset` and `GrantIsNoticed`. A state
  the robot never leaves by itself, such as an emergency stop, is left out.
- **JointControl.** Time is counted in control periods; a cycle may be too short
  (0), right (1) or too long (2) for `write`'s test of `dt`. `update` reads the
  buffer and clears the flag in two steps; the callback writes the buffer and
  sets the flag in two, after it got the buffer's lock, for which `readFromRT` does
  not wait. A position is an integer in units smaller than the threshold of
  `positionCommandRunning`. The command and its reference start at 0 (hw:87, 335)
  wherever the robot stands (`Home`); `target` is where it was last sent, and
  `commanded` whether it was sent at all, which a first trajectory near 0 does not do.
  `rushed` marks a message that came while another was waiting, `raced` one whose
  callback set the flag between `update`'s read and clear. `interpolate_point` weighs `point_2`
  with itself (traj:123), so the commanded point is the next of the list.
- **AnalogIO.** The types the control box has, the types the controller
  remembers, and the last value driven with the type it was driven under. DRFL
  may refuse a type.
- **AnalogApi.** A program keeps a type per output in globals (`mode`), set before
  the controller is asked (api:5971), and checks values against it. `asked` is the
  request on its way; `DR_Error` and Ctrl-C end the program, and a new one knows
  no type. Other clients take the same steps without it. (`AnalogApi`, `RobotSync`
  and `TcpTools` are proved about together, so their names differ: `ApiSpec`,
  `SyncSpec`, `TcpSpec`.)
- **DrArguments, DrMotions, DrForms, DrServices, DrObjects.** A Python value is a
  kind and its numbers. A function is an operator that gives the request it makes,
  `Rejected` (a check raised `DR_Error`) or `Failed` (any other exception, such as
  rclpy's refusal of a number that is no int8). Checks have no effect, so their
  order is left out, as are poses and texts that no check looks at.
- **RobotApi.** `call` is the request the program spins on, `served` what the
  controller made of it; `Answer` and `AnswerLost` are the two ends of
  `spin_until_future_complete`, and `Returned` and `Unanswered` what the function
  returns then. `alive` is `rclpy.ok()`, which `DR_Error`'s constructor and Ctrl-C
  end. The controller's frame is any at the start, and may be set by another client.
- **TcpTools.** One program without threads: `op` is the function under way, whose
  loops advance with `select` (`Received`, `Broken`, `TimedOut`, `Discard`, ...).
  A connection is its socket object, the peer `open`, `closed` or `broken`, the
  bytes waiting are counted; `full` are the connections that take no more until the
  peer reads. `halfOpen` are the sockets beside: a server's to listen, and those of
  the try under way, which `InVain` closes when it fails. A close may raise, of the
  connection or of the listening socket: then the entry stays (`CloseRaises`, history
  `torn`). Both modules have the same shape: the sets `Servers` and `Clients` tell
  them apart where they differ (the port, a second close, the order of
  `client_socket_close`, which closes even a socket it does not know).
- **H2RMotion.** `Thread` follows the lambda of ctrl:2631: start, the test for a
  cancel, the test for arrival, stop, end. The stop may be refused, and the goal
  ends all the same (ctrl:2657, 2675, 2726, 2744; history `refused`). `Released` is the robot's rest when
  `hold2run` is not called. Services, goals and cancels share the default group
  of `MotionServer`; only the threads are outside. The arrival test is a choice. The
  services' clients send `move`, `amove`, `pause` and `stop`: a blended motion, a
  `move_resume` and a `move_wait` beside goals are left to `server`.

Operators whose names end in `Variant`, `Beyond` or `Early...` are plausible
mistakes, used to show that the properties can fail; no specification uses them.

## 3. Runs

| Run | Instance | Shows |
|---|---|---|
| `server` | 3 requests of any kind | an answered sync motion without a radius is over; a motion somebody waits for is not given up; `move_stop` is served whatever blocks; standstill frees a blocked callback |
| `cycle` | 2 workers; 3 motions, or an approach and a waypoint with 1 timeout | script order, effect of Q on running cycles, `is_running` tells whether a cycle is under way and the robot still, one cycle of the trigger at a time |
| `cycle_live` | 1 worker; 4 motions, or an approach and a waypoint | cycles end, Q ends the process and halts the robot unless DRFL refuses |
| `cycle_one` | 2 workers, 2 motions | **violated**: two cycles run at a time |
| `loop` | line and sine, runs one after the other without bound, 2 slots, 1 timeout | passes start where the robot is, no run means a still robot, Q costs a few motions, types |
| `sync` | 2 robots, 4 waits each, all choices of calls | `SyncPromise` kept: no lost or doubled wake-up, a barrier; lockstep, CleanUp |
| `authority` | 3 attempts, 3 pending events | belief and notice of the authority, stops are reset |
| `joint_control` | 3 messages, 9 periods, threshold 2 | a message is lost only in the gap, drift bounded, arrival or nothing sent |
| `analog` | 2 channels, 2 values, one program, other clients | the program's and the controller's types agree, outputs in range |
| `h2r` | 2 goals with cancels, 1 service request | an ended goal is still unless its stop was refused, and takes the robot from no service; legal goal transitions, cancels end goals |
| `api` | 2 axes, 73 sets of arguments for each motion and every other function, 2 frames | no motion without a speed, the defaults suffice (for `move_spiral` and `servol` with both parts), the frame is the controller's |
| `tcp` | 2 servers on a port, 1 client, 2 bytes, limits 0, 2 and none | no socket is left over, gone is gone, reads and flushes end |

Why the bounds suffice:

- *Three requests* are the least with a blocked motion, one queued behind it and
  a stop beside them; a fourth only waits in a queue. In `h2r` the requests are
  five: two goals, two cancels and a service.
- *Two workers* are enough for every race of two cycles; flags are Boolean, so a
  third worker adds no value that two cannot set. *NSteps = 3* has a first, a
  middle and a last motion, and `cycle_live` has all four of `test.py`. The trigger
  has one motion of the approach and one waypoint in both runs (two and five in the
  code): a motion whose result is ignored, and one that is tested and the last. A
  timeout of an `execute_cycle` ends it and is not bounded; of the trigger's calls
  *MaxLate = 1* times out in `cycle`, and every one may in `cycle_live`.
- *Slots = {1, 2}* and *MaxLate = 1*: a request given up by its caller is still
  with the server while the worker makes its next ones, in this run or the next.
  Nothing else bounds `LoopMotion`: passes in both directions, fallbacks in each,
  and runs that start where the one before left the robot all occur.
- *MaxWaits = 4*: the free first pass, the wake-ups of two rounds and one more.
- *Retries = 3* (10 in the code) goes through every branch of the loop and its
  end; *MaxInbox* bounds only what TP and robot raise of themselves, never what
  the driver's own calls cause.
- *MaxTime = 9* is longer than the longest two trajectories. The messages are
  one that stays so near to 0 that nothing is sent, one of large steps, and one that
  creeps below the threshold. *Home = 20* is where no trajectory goes.
- *Values* are one in each range only (2 V, 12 mA): a range is tested in one place
  in the program and one in the controller, by the same comparison.
- *Axes = 2*: checks on a joint vector look at one number after the other, and the
  only axis that is treated by itself is the first. The arguments are, for every
  parameter, missing, well formed, out of range and of a wrong type, with the
  speeds of one motion in all combinations; the other functions take numbers on and
  beyond the ends of the sets they test. The frames are the base, a user frame,
  and ones that fit no int8.
- *Two servers and a client*: two modules, and a second server on a port in use.
  *MaxBytes = 2*: less than, as much as and more than a read asks for. A limit of 2
  is reached after one more try, of 0 at once.

`CHECK_DEADLOCK FALSE` stands where the system may stop: all requests answered,
the process gone, the robots outside `Wait`, time at its bound, and, in `tcp`, a
program in `server_socket_open` on a port that its first server holds: it never
gets out, as no thread could close the other.

**Fairness.** Threads that can run do run, the executor takes queued requests
(its threads are never exhausted: at most two callbacks run at a time and goals
have threads of their own), and DRFL's thread delivers its events. Nobody has to press a
key, send a request or answer the driver, and no motion has to end: `Complete`
is never fair, because a pause or an obstacle may hold a motion for any time. A
client's call always comes back, because each has a timeout. `QuitHaltsRobot`
takes the server's fairness as a hypothesis, as the process of the node says
nothing about it. In `tcp` the program is never held up while a function can go
on; nobody need connect, send or close.

**Preconditions** some properties have, all reachable without them:

- `FlagTellsTruth`, `IdleMeansStill`, `PassStartsHere`: until a call of a worker times out. After
  that a request may start its motion when nobody expects it (spline_motion.py:194).
  `FlagTellsTruth`, as to the robot, until two cycles overlap: the first to end
  resets the flag of both.
- `QuitHaltsRobot`: DRFL does not refuse the stop. `stop_robot` does not look at the
  answer (spline_motion.py:364-372).
- `EndedGoalIsStill`: DRFL did not refuse the goal's stop (`refused`).
- `AnsweredMoveIsOver`: the motion has no blending radius.
- `QuitEndsCycles`, `QuitEndsRun`: no run was between setting its flag and
  clearing `should_stop` when Q was pressed; there Q is lost, and the run goes on
  until the process exits.
- `NewestAdopted`: the loss it allows is a message whose callback set `new_msg_`
  between `update`'s read and clear (traj:149-153), having come while another one
  was waiting (`raced`, `rushed`). The run meets it.
- `ArrivesWithinDrift`: a command was sent. A first trajectory near 0 never passes
  the test of hw:471, and the robot stays where it is.
- `DefaultsSuffice`: `move_spiral` and `servol` refuse the rotation that
  `set_velx(v)` leaves out (api:1577-1579, 3579-3581), so for them it says *if and
  only if both parts were given*.
- `OutputsInRange`: the channel's input was given no type and DRFL refused none.
- `RecordsAgree`: no other client has set the channel's type, and no input's type
  was set, since the program's last success (`disturbed`).
- `FrameIsCurrent`: `set_ref_coord` was the last to set the controller's frame, and
  its answer was positive (`agreed`): the program keeps the frame it asked for
  whatever came of it (api:1458).
- `SpeedIsGiven` leaves out `movej` and `movejx`, which check the speeds of all
  axes and send the first's (api:2584): with a list that begins with 0 they send
  no speed.
- `GoneIsGone`: the connection was not asked for zero bytes, which the tools take
  for a close (`emptied`).
- `FlushEnds`: the peer stops sending, does not close, and reads what fills the send
  buffer; see section 4.
- `ListsTellSockets`, as to entries that are open: no close of them raised, and the
  client's module was not asked to close a server's socket (`torn`).
- `GrantIsNoticed`: from the first grant or loss the controller is told of.

## 4. What the code does against its own words

- `cycle_one`: `spline_motion.py` says that SPACE runs *one* complete cycle and
  refuses a second, but tests `is_running` in the keyboard thread (:492) and sets
  it in the worker (:383). Two quick SPACEs run two cycles.

Met while modelling, and not given runs of their own; the models do what the code
does:

- ctrl:2814 says to request the authority after the TP is initialized; the
  requests are commented out. The grant of the start-up goes to `on_init`'s
  callback, so a controller configured afterwards does not know it has the
  authority and resets no stop until it loses it and gets it back.
- `set_analog_input_type` writes the variable that holds the type of the *output*
  (ctrl:1840), and the next output is tested against the wrong range; ctrl:1818
  remembers a type DRFL refused.
- `server_socket_flush` says that it returns -1 for a connection that is not alive
  (`DR_tcp_server2.py`:350). After the peer has closed its end, `select` finds the
  socket readable for ever, `recv` returns nothing, and the loop never ends; nor does it
  while the peer stays, does not read and the send buffer is full (:381).
- A socket whose close raised stays in `CONN_LIST`, and later reads and writes fail
  on it; the next close takes the entry out. `client_socket_close` closes a socket
  before it looks for it in its list (:118, :122).
- The hold-to-run goals report `canceled` and `succeeded` with `success` true when
  DRFL refused the stop, and the robot may still be moving.
- `SetRefCoord.srv` and the check of `set_ref_coord` allow the frames 101 to 200, the
  message's field is an int8: above 127 the assignment raises (api:1440).
- `DR_Error` shuts the ROS context down (`DR_error2.py`:89), so a program that
  catches the error can ask nothing more. `set_user_cart_coord` drops the frame
  it is given, and a `CDsrRobot` never learns the frame its own `set_ref_coord`
  sets. Most functions raise on a result they never set when the service raised,
  while the getters return a value also when the service says it failed.
- No write ends its text with what `..._end_data` was given: the server's module
  stores it under another key, the client's does not look.
- The header of `spline_motion.py` (:13) says a cycle ends with a stop, and none is
  sent; a worker past its test of `should_stop` (:399) starts one more motion after
  Q's `move_stop` was answered; the worker of `default_motion.py` may do so with
  every waypoint that is left, until the process is gone.
- `on_init` may leave its loop on a standby from before the grant (hw:164-165);
  traj:95 promises to clear the vectors on a restart and does not; ctrl:2663 calls
  a joint pose a task-space one; ctrl:2418 gives `move_resume` no group of its own,
  so that a sync motion paused at the TP waits for the TP.

## 5. Theorems

The proofs hold for any sets of requests, goals, workers, slots, robots, values,
arguments, axes, frames and sockets, any lengths of scripts, thresholds, message
lists and bounds; they rest on the modules' named assumptions and on nothing else.
Every invariant and every action property that a passing run checks is a theorem.

| Module | Theorems | Inductive invariant and why it is needed |
|---|---|---|
| `MotionServer_proofs` | `TypeCorrect`, `SyncMoveIsOver`, `SyncMoveKeepsRobot`, `NobodyElseBlocks`, `StopIsNotHeldUp`, `StandstillLasts` | `Exclusive`: no two callbacks of a group run. `MotionHasOwner`: the robot's motion, unless it is the rest of a blended one, belongs to a blocked sync callback or an answered async one. Starting a motion takes the default group, which a blocked owner holds. `BlockedBy`: a blocked motion service waits for its own motion, `move_wait` for an async one, a stop for nothing. `Finished`: what a request is, once answered, never changes. |
| `MotionCycle_proofs` | `TypeCorrect`, `ScriptIsKept`, `QuitIsHeeded`, `TriggerIsAlone`, `FlagIsTrue`, `ImplementsServer`, `ServerKeepsPromises` | see below |
| `LoopMotion_proofs` | `TypeCorrect`, `IdleIsStill`, `QuitIsCheap`, `ServerKeepsPromises`, `PassesStartHere`, `OneWorkerPasses` | see below |
| `H2RMotion_proofs` | `TypeCorrect`, `EndedGoalsAreStill`, `TransitionsAreLegal`, `EndedGoalsDisturbNobody`, `CancelsAreKept` | `Born`, `Lives`, `AtRest`: a goal's thread is born once, ends the goal as its last act, and only between its start and its stop can the robot execute the goal, unless DRFL refused the stop. `Held`, `OneAtATime`, `Accepted`: a sync service's motion is that of a blocked callback, one callback of a group runs, and a goal with a thread was accepted; so a service's motion is given up only at its completion, by a `move_stop`, or by the thread of a goal that has not ended. `MotionServer`'s own argument does not do, because the goals' threads command the robot outside its groups. `CancelIsKept`: an answered cancel's goal has ended, or its thread has still to see it. |
| `ControlAuthority_proofs` | `TypeCorrect`, `BeliefJustified`, `GrantNoticed`, `StopsReset` | `EventsInOrder`: the last grant or loss under way tells the truth about the owner. `CallbackOrder`: the access callback is replaced last. `StopIsHandled`: a stop the driver could reset is being handled, or its event or a loss is under way. |
| `JointControl_proofs` | `TypeCorrect`, `DriftIsBounded`, `TrajectoriesArrive`, `LostOnlyInTheGap` | types with the drift bound, and `AtHome`: as long as nothing was sent, the robot is where it started, for the first three. For the last `Handover`: an unread message has its flag set or its callback still running, or its flag was set in the gap between read and clear, while another message was waiting. |
| `RobotApi_proofs` | `FrameAgrees`, `MotionsHaveSpeed`, `DefaultsAreEnough` | `FrameInv`: the program's frame is the controller's, or a `set_ref_coord` that will make it so is served. `RequestOK`: every operator that makes a request gives it a speed or a time; one lemma per function. `DefaultsInv`: a default is what the program starts with or positive, and the frame fits the field; with it each motion's checks pass on a target alone, those of `move_spiral` and `servol` exactly if both parts of the task speed were given. |
| `PythonTools_proofs`, on `RobotSync` | `SyncTypeCorrect`, `PassesAreWoken`, `WakeUpAllIsBarrier`, `RobotsInStep`, `PromiseKept` | `LockCounts`: a lock is held exactly while its robot is one pass ahead of its wake-ups. A raised flag, and a set bit, mean a robot met inside `Wait`. `InOrder`: only the robots `WakeUpAll` has come past are one wake-up ahead. `Found`: the robot whose lock `WakeUp` is about to release was met during the call. With these each step is one of `SyncPromise` or a stutter: a release is `Wake`, one that raises is `Fail`, and `Wake` needs what the loops found. |
| the same, on `AnalogIO` and `AnalogApi` | `IoTypeCorrect`, `OutputsStayInRange`, `ProgramAndControllerAgree`, `ApiImplementsServices`, `ApiOutputsStayInRange` | where the controller remembers a type and nothing has disturbed it, it is the control box's; where a program remembers one and its channel is not disturbed, it is the controller's, or the call that makes it so is under way. Every step of `ApiSpec` is one of `AnalogIO`'s or leaves its variables alone, so the program inherits what is proved of the services. |
| the same, on `TcpTools` | `TcpTypeCorrect`, `ListsAgree`, `ReportsAreTrue` | types, with `ListsTellSockets` and `GoneIsGone` themselves: a step that opens a socket enters it or belongs to the try under way, whose failure closes it (`InVain`); one that takes an entry out closes its sockets first; and an entry whose socket is closed stays only after a close that raised. Only `NothingReceived` could break `GoneIsGone`. |

**The nodes over the services.** `MotionCycle_proofs` and `LoopMotion_proofs`
instantiate the theorems of `MotionServer_proofs` for the node's requests, so that
what is known of the server is cited, not proved again: its type invariant and
`MotionHasOwner`, what each kind of server step changes (`ServerKeeps`, `Served`,
`RobotSteps`), that an answer is final. In `MotionCycle` every request is sent
once, so every step of the node is a step of `MotionServer` or leaves it alone:
`ImplementsServer`, and with it `MotionServer`'s promises. In `LoopMotion` a slot is
used again once its answer is taken, which `MotionServer` by itself does not do;
`ServerKeepsPromises` is proved there from the server's invariant, which taking an
answer preserves as well.

- *`MotionCycle`.* `Steps` and `Asked`: the step counter is ahead of what was sent.
  `Done`: what a worker has looked at was answered with success, which gives
  `InScriptOrder`. For Q, no cycle that was at its start has gone on, or the
  flag is set and every other worker is no further than where Q found it. For the
  trigger, the flag is set while a cycle is under way (`OneRuns`). `FlagTellsTruth`
  joins the flag, the node and the server: a set flag has a cycle, and until two
  overlap every cycle in its script has set it (`Flag`); until a call times out, a
  request that is with the server is awaited by its worker (`Pending`). So while
  the flag is not set none is there, and the robot's motion, which has an owner, has
  none left.
- *`LoopMotion`.* The same for `IdleMeansStill` (`Waited`, `Pending`). For
  `QuitEndsRun`, `Cost` gives each statement the motions it has left once
  `should_stop` is set, and `afterQuit` plus that is within the bound (`Quits`).
  For `PassStartsHere`, `AllHere` follows a run from motion to motion: what is
  under way leads from where the robot is to where the run believes it goes
  (`Carried`), and between motions it is there (`Between`), in either direction and
  after each fallback.
- *`PassesStartHere`* has the hypothesis that at most one run is under way (`Alone`).
  The code does not ensure it: it has the race of `cycle_one`, and two runs would
  send the robot to and fro. The hypothesis leaves the number of workers free, and
  always holds with one (`OneWorkerPasses`), the instance that is model-checked.

Model-checked only: liveness (`StopIsServed`, `StandstillFreesGroup`, `CycleEnds`,
`QuitCompletes`, `QuitHaltsRobot`, `CleanUpEndsCalls`, `SleepersAreWoken`,
`CancelEndsGoal`, `ReadEnds`, `FlushEnds`), which needs ENABLED and fairness, out of
the prover's reach. Of three of them the safety part is proved:
`StopIsNotHeldUp` for `StopIsServed`, `StandstillLasts` for `StandstillFreesGroup`,
`CancelsAreKept` for `CancelEndsGoal`; what remains is that fair actions are taken.

No recursion over data is needed: the models have no RECURSIVE operator.

## 6. Not modelled, and why

- `dsr_util.h`: the C++ twin of CRobotSync, which no file of the repository includes.
- Of the Python API: the poses, texts and other data no check looks at; `DRFC.py`
  and `DR_init.py`, which hold constants; formatting (`dr_form`); the branch for
  DRL's own interpreter (`__ROS2__` false). Methods of `CDsrRobot` that are the
  functions again are modelled by the functions.
- Of the TCP tools: `END_DATA`, which no write uses, and what the data are.
- Geometry, interpolation and units of motions; texts; the contents of topics.
- The roughly 120 services of the controller that hand one request to one DRFL function: they keep no
  state, and their order is `MotionServer`'s default group.
- jog, servo and speed topics, alter and compliance: they change DRFL's modes,
  whose rules are not in the repository.
- `read` of the hardware interface, parameter parsing and the real-time
  handshake: sequential, with an early return at each failure.
- Messages of fewer than two points (traj:137-141) and lists longer than
  `MAX_SPLINE_POINT` (ctrl:520): undefined behaviour at one line, excluded by an
  assumption and named as hazards.

## 7. Plan

Done, in this order: `MotionServer`, `MotionCycle`, `RobotSync`,
`ControlAuthority`, `LoopMotion`, `JointControl`, `AnalogIO`, `H2RMotion`; the Python
API (`DrArguments` to `RobotApi`, `AnalogApi`), `TcpTools`, the trigger node in
`MotionCycle`; and the proofs of every safety property the runs check.

Worth doing next:

1. `RobotOwner`, an abstract specification of the motion services (one motion at
   a time, a waiting client's motion ends before its answer) that `MotionServer`
   implements, and that the modules over it inherit.
2. The safety parts of the other liveness properties: that a worker's calls are
   bounded, for `CycleEnds`; that `CleanUp` leaves no lock held, for `SleepersAreWoken`.
3. `TypeOK` of `RobotApi`, whose theorems need only parts of it.
4. If `dsr_util.h` comes into use, its condition variables against `SyncPromise`.
