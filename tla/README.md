# Kinova Link 6 ROS 2 drivers in TLA+

This directory holds TLA+ models of the two hardware drivers in
`kortex3_hardware`, the TLC configurations that check them on small instances,
and proofs, checked by TLAPS, of what they guarantee on every instance.
Line numbers refer to `kortex3_hardware_interface.cpp` (HL),
`kortex3_hardware_interface_low_level.cpp` (LL) and `gripper_controller.cpp` (GC).

## 1. The system

A ros2_control *controller manager* (CM) loads one of two driver plugins and calls
its `read()`, the controllers' `update()` and its `write()` in a cycle, on one
real-time thread. The driver talks to the *robot* over MQTT (commands, modes,
programs) and UDP (feedback). A user talks to the CM's services and to the
driver's own.

| Component | State | Operations | Interacts through |
|---|---|---|---|
| HL driver, cycle | believed mode, `in_fault_`, last program status and end time | `read`, `write` | feedback, `GetStatus`, `ExecuteAction` |
| HL driver, services | the same, plus a local list of controllers | `set_operating_mode`, `clear_faults`, `run_program`, `stop_program`; three queries | `spin_some` inside `read`; blocking calls to robot and CM |
| HL driver, recovery | pending flag, list, countdown | schedule, request, verify, reactivate | detached threads that call the CM's `switch_controller` |
| LL driver, switching | stop/start flags, running flags, `block_write_` | `prepare_...`, `perform_command_mode_switch` | CM's service thread and its real-time thread |
| LL driver, cycle | `arm_mode_`, `feedback_`, mode, enabling device, fault, command buffers | `read`, `write` | buffers the controllers write; robot |
| Gripper controller and thread | cached position, last command, rate limits, atomics | initialize, readPosition, sendCommand, shutdown | Modbus over MQTT, one mutex for two grippers |
| Life cycle of both drivers | sessions, routers, node and services, gripper thread | `on_init` ... `on_deactivate` | CM |
| Robot (external) | arm state, mode, program runner, enabling device | moves by itself | answers or rejects calls |
| Controller manager (external) | active controllers | applies switches | claims from `link6_control/config` |
| Launch files, URDF, MoveIt configuration, calibration script, manual tests | none that lasts | | |

What is hard here, and what the properties are about:

- *Stale state.* HL `write()` trusts a mode and a program status read earlier in the
  cycle, or in an earlier cycle when a call failed or a fault made `read()` return
  first. LL `write()` trusts the feedback of the previous write.
- *Swallowed failures.* `change_operating_mode`, `set_servoing_mode` and
  `list_controllers` fail silently; their callers continue as if they had worked.
- *Two actors per switch.* `prepare` runs on the CM's service thread while the
  real-time cycle goes on, `perform` several cycles later on the other thread.
- *Fire and forget.* Recovery deactivates and reactivates controllers by detached
  requests which may be late, partial or lost, and counts cycles instead of waiting.
- *The world moves.* The pendant changes modes, programs start elsewhere, the
  enabling device is released and the arm leaves JOG_MANUAL by itself.

The full list, each at its line, is under `hazards` in `PROJECT.json`.

## 2. Modules

| Module | Models | Status |
|---|---|---|
| `HighLevelDriver` | the active HL driver: cycle, services, recovery; refines `RecoverySchedule` | done |
| `MCHighLevelDriver` | instances of it | done |
| `HighLevelDriver_proofs` | theorems about it | done |
| `RecoverySchedule` | what a recovery by hand promises the controllers it finds active | done |
| `CommandInterfaces` | interfaces, claims, command modes | done |
| `CommandArbiter` | what the LL driver promises the CM: a switch is one step | done |
| `LowLevelDriver` | the active LL driver: switching on two threads, cycle; refines `CommandArbiter` | done |
| `MCLowLevelDriver` | instances of it | done |
| `LowLevelDriver_proofs` | theorems about it, the refinement included | done |
| `GripperController` | what a gripper controller computes, in either driver | done |
| `GripperController_proofs` | lemmas about it: ranges, rounding | done |
| `GripperRegister` | what the LL driver promises of a gripper: the last command wins | done |
| `GripperBus` | LL grippers: CM thread, gripper thread, atomics, mutex, two activations; refines `GripperRegister` | done |
| `MCGripperBus` | instances of it | done |
| `GripperBus_proofs` | theorems about it, the refinement included | done |
| `HighLevelLifecycle` | the HL driver from `on_init` to `on_deactivate` and back, with its grippers | done |
| `MCHighLevelLifecycle` | instances of it | done |
| `HighLevelLifecycle_proofs` | theorems about it | done |

`GripperBus` and `HighLevelLifecycle` compose with the two driver modules by what
they leave open: whether a `write()` is blocked is decided by the guards in
`LowLevelDriver` and `HighLevelDriver`, and either outcome is possible at any time here.

### HighLevelDriver

`phase` is the program counter of the real-time thread: the steps of `read()`
(`read`, `status`, `countdown`, `spin`), those of `handle_clear_faults` (`cf_*`, one
step between any two calls to the robot), `update` and `write`. Each field of the
class is a variable of the same name without the underscore; `arm`, `mode`,
`program` are the robot's and `active`, `requests` the CM's. `run`, `quiet`, `hold`, `slipped`, `owed`,
`fault_seen`, `clearing` and `mode_moved` are history: no driver action reads them. A *hold* lasts
from the end of a recovery by hand that lists controllers to the judgement of the list or the choice of
AUTO by someone (the pendant, or `set_operating_mode`), whether or not the robot took
MONITORED_STOP; it has *slipped* while the robot may be in AUTO although nobody chose it. The
controllers *owed* are those of the list that a recovery's request has stopped and that do not run again.

| Code | Actions |
|---|---|
| `read`, feedback and fault branch (667-730, 897-902) | `ReadFault`, `ReadFeedback`, `ReadException` |
| `read`, program status (731-756) | `PollStatus`, `PollException` |
| `read`, deactivation and verification (757-878) | `Countdown`, `VerifyRestores`, `VerifyWarns` |
| `spin_some` (895) | the handlers, any number of them, then `SpinDone` |
| `handle_set_operating_mode`, `handle_run_program`, `handle_stop_program` | the actions of these names |
| `handle_clear_faults` (1320-1482) | `ClearFaultsListed`, `...Refused`, `...Called`, `...Guides`, `...Operational`, `...Anyway`, `...Exits`, `...Recovered`, `...GivesUp` |
| `write` (906-972) | `WriteBlocked`, `WriteSends`, `WriteRejected`, `WriteException` |
| detached threads, CM | `ApplySwitch`, `LoseSwitch`, `UserSwitch`, `UpdateDone` |

`RecoverySchedule` has three variables (the list, the cycles it still waits, the requests under
way) and four steps: a recovery starts the schedule over with its list, a cycle passes, the
list is judged, a request is taken. In the refinement the cycles to wait are the countdown, or
`VerifyCycles` while the flag that stands for the request is still set; a cycle in which `read()`
returns early is a stutter.

`GateOpen` is the conjunction of the four guards of `write()`, evaluated on every
state and not only where `write()` looks: a state where it holds although it must not
is one `write()` call away from a command.

`MayFail` says which outside calls may fail in an instance: `link` (robot calls that
throw), `list` (`list_controllers`), `select` (`SelectOperatingMode`) and `switch`
(`switch_controller` applied in part or not at all). Values the code never tells
apart are one value; joint values, log messages and the wrench topic are left out.

### LowLevelDriver

`rt` is the program counter of the real-time thread (`read`, `update`, `switch`,
inside `perform` `stop` and `start`, `write`), `service` that of the service thread
(`idle`, `blocked` in the 200 ms of `prepare`, `prepared`). The nine Boolean flags
are three sets of command modes: `stops`, `starts`, `running`. A command buffer
holds the set of controllers whose values are in it, `{}` for the driver's neutral
values. `feedback` is the last feedback, `seen` what `read()` took from it.

| Code | Actions |
|---|---|
| `prepare_command_mode_switch` (336-479) | `SwitchRequested`, then `PrepareAccepts` or `PrepareRejects` |
| `perform_command_mode_switch` (481-558) | `PerformHandsOver`, `PerformStops`, one of `PerformStarts...` |
| `read` (768-831), `write` (833-909) | `Read`, `Write` |
| controllers and CM | `Update`, `NoSwitch` |
| robot | `ModeMoves`, `EnablingReleased`, `EnablingPressed`, `FaultMoves` |

`Claims` says which interfaces a controller claims; `ClaimsAssumption` states what
the parameter files ensure (whoever commands positions commands velocities too).
A kind of interface stands for all six joints: the manager resolves conflicts joint by joint, but every
controller of the arm in `link6_control/config` lists all of them (or all six twists), so that two conflict over
a kind exactly if they conflict over a joint.
The CM is trusted to ask only for switches free of conflicts, to stop only active
controllers, and to leave the controllers as they are when `prepare` fails.
The atomicity of `perform` is given up where another actor could notice: between
handing over, stopping and starting the robot may move. The safety system mode is
set and never read back, so it is left out. `arm_mode` has a third value, that of a field which
was never written and holds neither servoing mode: `Write` then sends nothing (LL 881-888).

`CommandArbiter` has three variables (owners, running mode, last command) and two
steps: a switch that changes controllers and mode at once, and an issue of a command
of the running mode made of values of current owners. The refinement maps `running`
to itself except between the stop and the start of a switch, where it is still the
mode of the old controllers.

### GripperController, GripperRegister and GripperBus

The drivers have a class `GripperController` each (HL 24-182, and GC with its header), which differ
in what a failed reading does. What they compute is the same and in
`GripperController`: angles are integers, `CountSize` of them to one of `MaxCount` register
counts; clamping (GC 105), the test against the last command (GC 106), reading (GC 94) and
sending (GC 114). The conversions are doubles in the code and the second truncates, so
that the angle of some counts comes back one count lower (14 of 256 for
`max_angle_` = 0.8, 20 for 0.7); these counts are the constant `Lossy`.

In `GripperBus`, `cm` is the program counter of the manager's thread and `thread` that of the
gripper thread. An exchange over Modbus is two steps, so that anything may happen during
one; `bus` says who is in one, `mutex` who holds `gripper_mtx_`. The fields of the
controllers and the atomics are functions of the gripper. `issued`, `delivered`,
`been`, `late` and `activations` are history, and so is the number a command carries.

| Code | Actions |
|---|---|
| `on_activate` (LL 560-695), `initialize` (GC 15-68) | `Activate`, `InitializeBegins`, `InitializeFails`, `InitializeSucceeds`, `Seed`, `StartThread` |
| `read` (LL 820-828), `write` (LL 836-843, 898-906) | `Read`, `WriteForwards`, `WriteBlocked` |
| `gripperThreadLoop` (LL 1114-1150) | `LoopGoesOn`, `Serve`, `PassOver`, `Sleep`, `LoopEnds` |
| `readPosition` (GC 70-96) | `PollCached`, `PollReads`, `ReadEnds`; `FirstReading` in `Seed` |
| `sendCommand` (GC 98-126) | `FetchSkips`, `FetchSends`, `SendEnds` (both requests arrive, neither, or the first alone, which halts the gripper) |
| `on_deactivate` (LL 697-739), `shutdown` (GC 128-134) | `Deactivate`, `Joined`, `ShutdownBegins`, `ShutdownEnds`, `CloseSession` |
| gripper controllers, clock, grippers | `Command`, `UpdateDone`; `PollDue`, `SendDue`; `GripperMoves`, `OthersMove` |

`GripperRegister` has two variables, the commands given in this activation and the last one
sent, and three steps. The refinement is the identity on the history variables; what has to be
shown is that atomics, rate limits, the duplicate test, lost requests and a second
activation never let an old command follow a newer one.

`on_activate` may also fail before it comes to the grippers (LL 570-644); nothing of the grippers
exists then and the module leaves it out. A failed activation ends in `finalized`:
the manager does not activate such a driver again.

### HighLevelLifecycle

`cm` goes through `on_activate` (`mqtt`, `power`, `udp`, `auto`, `gripper`), the cycle
and `on_deactivate` (`stop`, `close_udp`, `close_mqtt`, `shutdown`, `reset`). `handle`
says for each link which activation made the object the pointer holds, `open` which links
are really open: an object may be there without its link, and a link may be open though nothing
points to it any more.

| Code | Actions |
|---|---|
| `on_activate` (HL 372-505) | `Activate`, `OpenMqtt`, `PowerOn`, `OpenUdp`, `SelectAuto`, `StartGripper`, `ActivationEnds`, and a `...Fails` for each that can fail |
| `read`: grippers (HL 647-658, 91-135), the rest, `spin_some` (HL 895) | `ReadCached`, `ReadGripper`, `GrippersRead`; `Feedback`; `Spin`, `SpinCrashes` |
| `write`: guards, then grippers (HL 974-987, 137-174) | `WriteBlocked`, `WriteSends`; `SendSkips`, `SendGripper`, `GrippersSent` |
| `read` or `write` returns ERROR or throws | `CycleFails` |
| `on_deactivate` (HL 507-571) | `Deactivate`, `Stop` or `StopThrows`, `CloseUdp`, `CloseMqtt`, `Shutdown` of each gripper, left by `ShutdownThrows` or by `ShutdownEnds`, `Reset` |

After an ERROR the manager finalizes the driver without deactivating it; the programs under `test/`
(`test_send_velocity.cpp:236-245`) deactivate it, and activate it once only. This is the guard of
`Deactivate` in `failed`. `MayFail` names the failures of an instance: `activate` (any
step of `on_activate`), `close` (of a link, or of a gripper's connection, which goes over the session closed
before it), `select` (a mode rejected with the exception the code
expects), `foreign` (with another one), `cycle` and `gripper` (which falls silent; a command is then lost, or its first request alone gets
through and the gripper halts, and the seed of an activation may be lost in the same way while
`last_cmd_pos_` says it was sent).

## 3. Runs

| Run | Properties | Instance | States |
|---|---|---|---|
| `HL_Programs` | `TypeOK`, `BlockedDuringSeenProgram`, `SettledAfterSeenProgram`, `FaultBlocksUnlessClearing` | no controllers, one program, settling time 3, link and modes may fail | 726,422 |
| `HL_Recovery` | `BeliefTracksRobot`, `NoneForgotten`, `ImplementsSchedule` | two controllers, countdown 2, switches and lists may fail, at most 2 requests under way | 3,496,152 |
| `HL_Live` | `HeldUntilVerified`, `RecoveryConcludes` | one controller, countdown 2; lists, modes and switches may fail | 187,472 |
| `LL_Switch` | `TypeOK`, `RunningMatchesActive`, `ImplementsArbiter` | three controllers, one per mode; modes and servoing may be refused | 1,964,238 |
| `LL_Live` | `RobotMatchesRunning`, `StopsWithRobot`, `MotionResumes` | the same on a robot that takes what it is told, the pendant may stop it | 250,187 |
| `LL_GripperBus` | `TypeOK`, `PositionIsReal`, `ExchangesAreSafe`, `FaultStopsGripper`, `NobodyWaitsForever`, `DeactivationAdvances`, `LastCommandWins` | one gripper, two activations, three commands in each, the bus loses requests and answers, others move the gripper | 1,124,034 |
| `LL_GripperLive` | `CommandArrives`, `DeactivationEnds`, `SkipsAreSmall` | one gripper that nobody else moves, three commands, a bus that works, one count that is rounded down | 182,122 |
| `HL_Lifecycle` | `TypeOK`, `DeactivationIsClean`, `HoldsOnStartup` | one gripper, two activations, everything may fail; in the change of modes with the exception the code expects only | 4,443,598 |
| `HL_Gripper` | `PositionCatchesUp`, `GripperFollows` | one gripper that may fall silent; exceptions of other types in the change of modes | 138,226 |

Three more runs end in a violation, each of one statement of the repository:

| Run | Statement | What the code does |
|---|---|---|
| `HL_ClearFaultsRefused` | log, HL 900: "To recover, call the ... clear_faults service" | an arm that left its fault by itself is refused, and `in_fault_` stays |
| `LL_Rejected` | README 607: "the controller keeps applying the last received command" | a refused switch leaves `block_write_` set |
| `LL_GripperSkips` | GC 108: "change too small to bother" | compares with the last command sent, not with where the gripper is |

The configurations below are kept beside the runs. Each gives TLC the instance in which it
finds the counterexample to one more finding of `PROJECT.json`; they answer no question that is still
open.

| Configuration (module) | Statement | What the code does |
|---|---|---|
| `HL_FaultWaived` (`MCHighLevelDriver`) | HL 909: "Do not send commands if the arm is in fault" | the last branch of `clear_faults` resets the flag "anyway" |
| `HL_OwnProgram` (`MCHighLevelDriver`) | README 788: commands "are automatically blocked while a program is running" | the cycle that started the program still sends |
| `HL_ListFails` (`MCHighLevelDriver`) | HL 827: "now that controllers are safely deactivated" | a failed list counts as verified |
| `HL_HoldSlips` (`MCHighLevelDriver`) | HL 827, as above | `stop_program` or `clear_faults` selects AUTO before the verification |
| `HL_StopRefused` (`MCHighLevelDriver`) | HL 827, as above | a refused MONITORED_STOP is swallowed; the next reading opens the gate |
| `HL_Forgotten` (`MCHighLevelDriver`) | HL 831: "Now reactivate the controllers" | a second recovery replaces the list of the first |
| `HL_UnsafeProgram` (`MCHighLevelDriver`) | HL 1498: "Verify no unsafe controllers are active"; README 725 | `joint_trajectory_controller` is not on the list |
| `HL_Reactivated` (`MCHighLevelLifecycle`) | HL 894: "Process any pending ROS callbacks" | a second activation has no node |
| `HL_ForeignError` (`MCHighLevelLifecycle`) | HL 513: "Gracefully shut down the robot and network connections in order" | another exception of the first call skips all closing |
| `HL_SevenJoints` (`MCHighLevelLifecycle`) | log, HL 419: "Using robot's count" | the vectors keep the size of the default count |
| `LL_GripperSeed` (`MCGripperBus`) | log, LL 660: "Gripper A initial position" | a failed reading counts as fully open, and is commanded |

`LL_GripperPair` is `ExchangesAreSafe`, `FaultStopsGripper`, `NobodyWaitsForever` and
`DeactivationAdvances` for two grippers in one activation (1,299,472 states, no error), `HL_LifecyclePair` the
properties of `HL_Lifecycle` for two of which the first may fail to close (362,148 states, no error); the theorems
cover any number.

**What the properties mean.** `BlockedDuringSeenProgram` and
`SettledAfterSeenProgram` bound the blind window of the program poll: a command can
get through during a run, or too soon after it, only if no poll has seen that run.
`HeldUntilVerified` says that after a recovery by hand the verification stays scheduled, and that before it
a command can pass only in three ways: someone chose AUTO, which ends the hold; the robot refused
MONITORED_STOP; or the driver selected AUTO itself, in `stop_program` or in a `clear_faults` that finds the arm
operational. The last two are findings (`HL_StopRefused`, `HL_HoldSlips`); what the property adds is that faults,
exceptions, stale readings, failed lists and lost requests are not further ways.
`NoneForgotten` says that a recovery which finds nothing to deactivate leaves the list of the one before alone,
and that everything owed is still on the list with its judgement to come; a recovery that finds
other controllers active forgets it (`HL_Forgotten`). `BeliefTracksRobot` and `RobotMatchesRunning` compare
a driver's idea of the mode with the robot's. `RunningMatchesActive` and
`ImplementsArbiter` say that a switch over two threads and several cycles looks like
one step, and that a buffer never carries a value of a stopped controller.
`LastCommandWins` is the refinement of `GripperRegister`. `PositionIsReal` allows for a
position that is old, never for one of an earlier activation. `FaultStopsGripper` bounds
what the unlocked test of `in_fault_` lets through: the command of the gripper it was made for, not that of the
other one. `CommandArrives` and `GripperFollows` allow one count of difference, which is
what truncation costs. `FaultBlocksUnlessClearing` bounds what `HL_FaultWaived` finds: a command passes the guards during a fault
that `read()` or `clear_faults` has seen only in the cycle in which `clear_faults` told the robot to
clear it. Besides the branch that resets the flag "anyway", TLC showed a second way: a
`clear_faults` that is the first to find the fault, and whose next call throws, never sets the flag.
`StopsWithRobot` says how old what LL `write()` tests can be: it is the feedback of the
`write()` before, so one command goes out to a robot that has just stopped, and no second
one, whatever a switch does in between. `ImplementsSchedule` says that a recovery
asks once, judges once and brings nothing back before, although three fields and detached
threads carry it. `DeactivationAdvances` and `NobodyWaitsForever` are what keeps `on_deactivate` from
hanging, without any fairness: with the fairness below they amount to `DeactivationEnds`.
`SkipsAreSmall` holds where nobody else moves the gripper and it is activated once (`LL_GripperLive`).
Others break it (`LL_GripperSkips`), and so does a second activation: with two, TLC finds that
`initialize` freezes the gripper while `last_cmd_pos_` still names the command of the first, which is
then skipped when it is given again before the new seed is sent. `DeactivationIsClean` excuses what the driver tried to close and
could not, and the grippers after the one whose closing threw; `HoldsOnStartup` is the promise of HL 447 to within that count.

**Bounds.** `VerifyCycles` = 2 stands for the 1000 cycles: one for a countdown that
is running, one for its end; 1 would merge the two. `SettleTime` counts ticks of the
clock in the 1000 ms; with 3 the end of a program, the poll that sees it and the
guard fall into different ticks. Ages are capped at `SettleTime`, beyond which the
code does not tell them apart. `FewRequests` (a CONSTRAINT of `HL_Recovery`, at most
`MaxRequests` = 2) keeps the detached requests to a late one and the next one. Two
controllers are needed so that a switch can be partial and a recovery can list one
of them only. In the low-level runs one controller for each command mode gives every
pair of stop and start; handing over low-level mode happens by restarting the
trajectory controller. `OthersSelect` restricts what the pendant chooses to a mode that write()
does not block in `LL_Switch`, and to a stop in `LL_Live`.
In the gripper runs, `MaxCount` = 1 or 2 and `CountSize` = 2 give angles on a count, between
two and out of range; more counts add only more of the same. `Tolerance` is one unit
where commands must differ, two where a command one unit off must be skipped. `Lossy` = {1} makes the one
count that is not an end round down. `MaxCommands` counts the seed: with 2 a command follows it, with 3 one
overtakes another in the atomic. Two activations are what it takes for anything to be left over. The
runs have one gripper; two share only the bus and its mutex, which `LL_GripperPair` and the
theorems cover. The liveness runs have one activation. `CHECK_DEADLOCK` is off only in the gripper and life-cycle runs, where the
driver may stay inactive or end finalized.

**Fairness.** `FairSpec` of `HighLevelDriver` assumes that the thread executes its
next step (weak fairness of each part of the cycle, which the CM repeats), that
`spin_some` ends (strong fairness: it serves the callbacks that were ready, so it
cannot be kept busy for ever), and that the operator presses ENTER in the guided
recovery (`ClearFaultsExits`; without a terminal the code goes on after 5 s). It
assumes nothing of the robot, of detached requests or of service calls.
`FairSpec` of `LowLevelDriver` assumes the same of the real-time thread and that the
200 ms of `prepare` end. `FairSpec` of `GripperBus` assumes that both threads go on and that the clock
passes the rate limits; that of
`HighLevelLifecycle` that the cycle is repeated and the clock goes on. `RecoveryConcludes` and `MotionResumes` have as hypotheses
that the arm stays operational, or that the enabling device stays pressed without fault and the
pendant is left alone: nothing weaker makes the code act.

## 4. Proofs

Everything below is for all values of the constants, from the named assumptions of
the modules (`ClaimsAssumption`, `WorldAssumption`, `BoundsAssumption`,
`ControllersAssumption`, `MayFailAssumption`) and nothing else, except where stated.

`HighLevelDriver_proofs`: `TypeCorrect`; `SeenProgramBlocks` and
`SeenProgramSettles` from `ProgramInv`; `RecoveryHolds` from `HoldInv`;
`BeliefIsCurrent`; `NothingIsForgotten` (`NoneForgotten`) from `OwedInv`; `FaultBlocks` (`FaultBlocksUnlessClearing`);
`RecoveryFollowsSchedule` (`ImplementsSchedule`, the refinement).

- `ProgramInv`: a run that a poll has seen is either still known as active, or it is
  over and the driver's clock started no earlier than the robot's. The property alone
  is not inductive: it says nothing between the end and the poll that notices it.
- `HoldInv`: during a hold that has not slipped neither the robot nor the driver is in AUTO, and during
  any hold the list is there with its request pending or its countdown running. `GateOpen` is false for
  the mode alone, and only this keeps it false when `ReadFeedback` copies the mode.
- `OwedInv`: the list covers what is owed, and what a recovery found active when it began still is when it
  ends, for the manager switches nothing inside `read()`; so a recovery replaces the list only while
  some controller runs. With `ListInv` it gives `NoneForgotten`.
- `FaultInv`: once `read()` has gone through its fault branch the flag is set, and only the steps
  of a `clear_faults` after its `ClearFaults()` reset it before the next `RefreshFeedback`. The property
  speaks of `write()` alone.
- `ListInv` ties the three fields of a recovery together: there is a list of controllers exactly while
  the request is pending or the countdown runs, and a countdown seen between two cycles
  is below `VerifyCycles`, for the cycle that starts it counts one down. Without it the abstract list could be judged twice, or never. `ScheduleStep` maps every step; those that leave the three fields and
  the requests alone are taken care of once, by `Aside`.

`LowLevelDriver_proofs`: `TypeCorrect`; `SwitchIsRight` (`RunningMatchesActive`);
`RobotFollows` (`RobotMatchesRunning`); `CommandsStop` (`StopsWithRobot`); `SwitchesLookAtomic` (the
refinement).

- `SwitchInv` says what a prepared switch is: flags computed from the present modes
  and the requested controllers (`FlagsInv`), a request free of conflicts
  (`RequestInv`), one mode at most. It is needed because `perform` looks at flags
  that another thread computed cycles before.
- `SwitchModes` is the heart: whenever the exclusiveness tests pass, the modes left
  after stopping, or else the one started, are those of the new set of controllers.
  It uses that no interface is claimed twice and that positions come with velocities.
- `BufferInv`: what the running mode sends was written by active controllers that
  claim the interface (or is neutral), also half-way through a switch, by then for the
  new controllers. `OwnersGoOn` shows that no owner of a mode that goes on is stopped.
- `LateInv`: after one late command the feedback is of the stopped robot, so that `write()` sends
  nothing before the robot moves on; what `read()` took follows it at the next cycle. It is needed where
  a switch refreshes the feedback between the two.
- The refinement follows step by step: only the step that ends a switch changes
  owners, only `Write` changes what is sent.

`GripperController_proofs`: clamped angles and counts are in range, and `RoundTrip`: a gripper
told to go to the angle it reports moves by one count at most; `CountsClose`: angles closer than the
tolerance have counts that differ by one at most, the loss of rounding included.

`GripperBus_proofs`: `TypeCorrect`; `BusIsSafe` (`ExchangesAreSafe`); `FaultStops`
(`FaultStopsGripper`); `RegisterImplemented` (`LastCommandWins`, the refinement);
`PositionsAreReal` (`PositionIsReal`, if the first reading does not fail; `LL_GripperSeed` shows what it
does otherwise); `NeitherWaitsForTheOther` (`NobodyWaitsForever`); `DeactivationIsFinite`
(`DeactivationAdvances`); `SkipsLittle` (`SkipsAreSmall`, if nobody else moves the gripper, no request is
lost and it is activated once: without each of these it is false).

- `ControlInv` ties the two program counters, the mutex, the bus and the flags together: outside
  the cycle and the wait for it the thread is gone, so `initialize`, which takes no lock, is alone.
  `ExchangesAreSafe` alone says nothing about where the other thread is.
- `LateInv` counts: while the fault lasts, a command is late only if the thread had passed its test,
  and after it the next test stops it.
- `OrderInv` orders the commands on their way: delivered, being sent, in the atomic, in the
  buffer, each no older than the one before, and all given in this activation. It speaks only
  of grippers that are seeded (`Ready`): before that, the atomic holds a command of the
  activation before.
- `PositionInv` says that all three copies of the position of a seeded gripper are of this activation,
  and that the rate limit is over when the seed is read, so that the cache is not what is returned.

- `ToldInv`: from the beginning of `on_deactivate` the thread is told to end. `StepsAreCounted`,
  `ThreadAdvances` and `ManagerAdvances` then show that what is left to do is a natural number and that each
  step makes it smaller, so no run of the two threads in `on_deactivate` is infinite.
- `LastInv`: what `last_cmd_pos_` remembers is where the gripper was sent. Before the thread of the
  first activation starts it remembers nothing, so the freeze of `initialize` cannot contradict it.

`HighLevelLifecycle_proofs`: `TypeCorrect`; `Deactivation` (`DeactivationIsClean`, without exceptions of
another type; `HL_ForeignError` shows why); `HoldsPosition` (`HoldsOnStartup`).

- `CountInv`: something was activated before anything is done.
- `OpenInv` accounts, at each step, for every link that may be open: its closing failed, or a pointer
  set in this activation holds it. It is needed because a second activation overwrites pointers, and
  what they held would be out of reach.
- `StoppedInv`: from the stop on, the robot is stopped, or refused, or was never reached; and a gripper whose
  turn has come is shut down, or a closing failed at or before it.
- `StartInv`: until a controller commands it, the command of a gripper is the angle it was found at
  and its goal is within the count that `RoundTrip` allows. So is where it is, and this is needed
  because a command of which only the first request arrives makes that its goal.

They use `ScaleAssumption` (the tolerance is no larger than a count), `GrippersAssumption`,
`FailuresAssumption`, `LimitsAssumption` and `LifecycleAssumption`.

All invariants were checked with TLC before they were proved. Only model-checked:
the liveness properties `RecoveryConcludes`, `MotionResumes`, `CommandArrives`,
`DeactivationEnds`, `PositionCatchesUp` and `GripperFollows` (fairness is out of the
prover's reach). Of `DeactivationEnds` the safety half is proved.

## 5. Not modelled, and why

- The low-level driver's `on_activate` before the grippers and the closing of its sessions one by one: the
  same pattern as the high-level driver's, in which `HighLevelLifecycle` has found what there is to find,
  and no statement of the repository about it that could be checked beyond that.
- The running flags of the command modes across a deactivation: the manager stops a driver's
  controllers first, and the sources do not say what it does otherwise.
- The twist object (LL 240, 762) deleted although its command owns it: ownership of objects in memory
  is not state a TLA+ model tells apart. It is a hazard in `PROJECT.json`.
- The hold position taken before mode changes that last seconds (LL 519-524): whether it is
  stale depends on how the arm brakes, which only the robot knows.
- Exceptions out of `read()` and `write()` that are not the library's: what happens then is the manager's
  affair. `CycleFails` has the driver's own state after it.
- Values of joints, twists and wrenches, parsing of parameters, logging; launch files,
  descriptions and MoveIt configuration (no state); the calibration script and the manual
  tests; the vendored Kortex API and gripper library, of which only the answers appear.
