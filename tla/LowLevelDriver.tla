--------------------------- MODULE LowLevelDriver ---------------------------
(***************************************************************************)
(* The low-level driver Kortex3HardwareInterfaceLowLevel once it is active. *)
(* Two threads of the controller manager enter it: the thread of its        *)
(* switch_controller service calls prepare_command_mode_switch, and the     *)
(* real-time thread calls read(), lets the controllers write their command  *)
(* buffers, calls perform_command_mode_switch for a prepared switch, and    *)
(* calls write().  The robot changes its mode, its enabling device and its  *)
(* fault state between any two of their steps.                              *)
(***************************************************************************)
EXTENDS CommandInterfaces, Naturals


\* AUTO, HAND_GUIDING and UNSPECIFIED are not told apart by write().
Modes == {"MONITORED_STOP", "HOLD_TO_RUN", "JOG_MANUAL", "OTHER"}

CONSTANTS
  MayFail,      \* which calls to the robot may be rejected in this instance
  OthersSelect  \* the modes that somebody else selects in this instance

ASSUME WorldAssumption ==
  /\ MayFail \subseteq {"select", "servoing"}
  /\ OthersSelect \subseteq Modes

\* "OTHER" is what an arm_mode_ that was never written may hold besides the two.
Servoings == {"SINGLE_LEVEL", "LOW_LEVEL", "OTHER"}

\* The three buffers of the arm: joint_positions_cmd_, joint_velocities_cmd_, twist_cmd_.
Buffers == {"POS", "VEL", "TWIST"}

\* feedback_: the operating mode, the enabling device, a fault.
Feedback == [mode : Modes, enabled : BOOLEAN, fault : BOOLEAN]

VARIABLES
  rt,        \* the real-time thread: about to "read", "update", "switch", "write", or in
             \* perform, about to "stop" modes or to "start" one
  service,   \* the service thread: "idle", "blocked" (in prepare, asleep), "prepared"
  switch,    \* the controllers to be stopped and started by the switch under way
  stops, starts,  \* the stop_..._mode_ and start_..._mode_ flags that are set
  running,   \* the ..._mode_running_ flags that are set
  block_write,    \* block_write_
  arm_mode,  \* arm_mode_, the servoing mode last set with success
  feedback,  \* feedback_
  seen,      \* operating_mode_, enabling_device_state_, in_fault_ as read() took them
  buffer,    \* whose values each command buffer holds: {} for the driver's own
             \* neutral ones (zero, or the measured positions)
  active,    \* the controller manager's active controllers
  robot      \* the robot's mode, enabling device and fault state

\* History variables: no action of the driver reads them.
VARIABLES
  sent,      \* what the last write() sent: the modes (none or one) and whose values
  mode_moved, \* the robot changed mode by itself after the driver last set it
  late       \* commands sent since the robot last was in a state to move on one

switchVars == <<service, switch, stops, starts, block_write>>
driverVars == <<running, arm_mode, buffer>>
vars == <<rt, switchVars, driverVars, feedback, seen, active, robot, sent, mode_moved,
          late>>

NoRequest == [stop |-> {}, start |-> {}]
Nothing == [modes |-> {}, by |-> {}]

TypeOK ==
  /\ rt \in {"read", "update", "switch", "stop", "start", "write"}
  /\ service \in {"idle", "blocked", "prepared"}
  /\ switch \in [stop : SUBSET Controllers, start : SUBSET Controllers]
  /\ stops \in SUBSET CommandModes
  /\ starts \in SUBSET CommandModes
  /\ running \in SUBSET CommandModes
  /\ block_write \in BOOLEAN
  /\ arm_mode \in Servoings
  /\ feedback \in Feedback
  /\ seen \in Feedback
  /\ buffer \in [Buffers -> SUBSET Controllers]
  /\ active \in SUBSET Controllers
  /\ robot \in Feedback
  /\ sent \in [modes : SUBSET CommandModes, by : SUBSET Controllers]
  /\ mode_moved \in BOOLEAN
  /\ late \in Nat

-----------------------------------------------------------------------------
(* The calls to the robot.  A rejected one is logged and swallowed, so the  *)
(* callers go on as if it had worked.                                       *)

\* A robot that is stopped, or waits for its enabling device, does not move.
Halted(f) ==
  \/ f.mode = "MONITORED_STOP"
  \/ f.mode \in {"HOLD_TO_RUN", "JOG_MANUAL"} /\ ~f.enabled

\* The count of late commands starts again whenever the robot comes into such a state.
LateWith(r) == IF Halted(r) \/ r.fault THEN late ELSE 0

change_operating_mode(m) ==
  /\ \/ robot' = [robot EXCEPT !.mode = m]
     \/ "select" \in MayFail /\ robot' = robot
  /\ mode_moved' = FALSE
  /\ late' = LateWith(robot')

\* A call that forgets the servoing mode when the robot rejects it.
set_servoing_mode_forgets(s) ==
  \/ arm_mode' = s
  \/ "servoing" \in MayFail /\ arm_mode' = "UNSPECIFIED"

set_servoing_mode(s) ==
  \/ arm_mode' = s
  \/ "servoing" \in MayFail /\ arm_mode' = arm_mode

-----------------------------------------------------------------------------

\* on_activate has returned SUCCESS.  If SetServoingMode was rejected, arm_mode_ has
\* never been written and holds what the memory held.
Init ==
  /\ rt = "read"
  /\ service = "idle"
  /\ switch = NoRequest
  /\ stops = {} /\ starts = {}
  /\ running = {}
  /\ block_write = FALSE
  /\ arm_mode \in IF "servoing" \in MayFail THEN Servoings ELSE {"SINGLE_LEVEL"}
  /\ robot \in Feedback
  /\ robot.mode = "MONITORED_STOP" \/ "select" \in MayFail
  /\ feedback = [mode |-> "OTHER", enabled |-> FALSE, fault |-> FALSE]
  /\ seen = feedback
  /\ buffer = [i \in Buffers |-> {}]
  /\ active = {}
  /\ sent = Nothing
  /\ mode_moved = FALSE
  /\ late = 0

-----------------------------------------------------------------------------
(* prepare_command_mode_switch, on the service thread.                      *)

\* A switch the controller manager has found free of conflicts.  (A controller in
\* both lists is restarted.)  The flags are reset and writing is blocked.
SwitchRequested(stop, start) ==
  /\ service = "idle"
  /\ stop \subseteq active
  /\ start \cap (active \ stop) = {}
  /\ stop \cup start # {}
  /\ NoConflict((active \ stop) \cup start)
  /\ switch' = [stop |-> stop, start |-> start]
  /\ stops' = {} /\ starts' = {}
  /\ block_write' = TRUE
  /\ service' = "blocked"
  /\ UNCHANGED <<rt, driverVars, feedback, seen, active, robot, sent, mode_moved, late>>

InterfaceOf == [m \in CommandModes |-> CASE m = "low_level" -> "POS"
                                         [] m = "joint_velocity" -> "VEL"
                                         [] m = "twist" -> "TWIST"]

\* Flags that are set whatever mode runs.
StopFlagsUnguarded == {m \in CommandModes : InterfaceOf[m] \in Claimed(switch.stop)}

\* A mode is stopped when its interface is released, and only while it runs.
StopFlags == {m \in running : InterfaceOf[m] \in Claimed(switch.stop)}

StartFlags == ModesOf(Claimed(switch.start))

\* A test that looks only at the modes to be started.
ExclusiveAmongStarted(stopped, started) == \A m, n \in started : m = n

\* Never two modes at once, and none beside one that goes on running.
Exclusive(stopped, started) ==
  /\ \A m, n \in started : m = n
  /\ \A m \in running : started \ {m} # {} => m \in stopped

\* The 200 ms are over; the switch is left for the real-time thread.
PrepareAccepts ==
  /\ service = "blocked"
  /\ stops' = StopFlags
  /\ starts' = StartFlags
  /\ Exclusive(stops', starts')
  /\ service' = "prepared"
  /\ UNCHANGED <<rt, switch, block_write, driverVars, feedback, seen, active, robot,
                 sent, mode_moved, late>>

\* ERROR is returned, the controller manager drops the switch, and block_write_
\* stays set.
PrepareRejects ==
  /\ service = "blocked"
  /\ stops' = StopFlags
  /\ starts' = StartFlags
  /\ ~Exclusive(stops', starts')
  /\ switch' = NoRequest
  /\ service' = "idle"
  /\ UNCHANGED <<rt, block_write, driverVars, feedback, seen, active, robot, sent,
                 mode_moved, late>>

-----------------------------------------------------------------------------
(* read()                                                                   *)

\* A test that forgets the twist controller.
BackToJogForVelocity ==
  /\ "joint_velocity" \in running
  /\ feedback.mode = "MONITORED_STOP"
  /\ feedback.enabled
  /\ ~feedback.fault

\* The arm left JOG_MANUAL when the enabling device was released, and the device is
\* pressed again.
BackToJog ==
  /\ running \cap {"joint_velocity", "twist"} # {}
  /\ feedback.mode = "MONITORED_STOP"
  /\ feedback.enabled
  /\ ~feedback.fault

Read ==
  /\ rt = "read"
  /\ seen' = feedback
  /\ IF BackToJog THEN change_operating_mode("JOG_MANUAL")
                  ELSE UNCHANGED <<robot, mode_moved, late>>
  /\ rt' = "update"
  /\ UNCHANGED <<switchVars, driverVars, feedback, active, sent>>

-----------------------------------------------------------------------------
(* update() of the controllers, and perform_command_mode_switch.            *)

\* Active controllers write the buffers they have claimed, or leave them as they are.
Update ==
  /\ rt = "update"
  /\ \E writing \in SUBSET active :
       buffer' = [i \in Buffers |-> IF i \in Claimed(writing)
                                      THEN {c \in writing : i \in Claims[c]}
                                      ELSE buffer[i]]
  /\ rt' = "switch"
  /\ UNCHANGED <<switchVars, running, arm_mode, feedback, seen, active, robot, sent,
                 mode_moved, late>>

\* No switch is prepared, or its lock is taken in this cycle.
NoSwitch ==
  /\ rt = "switch"
  /\ rt' = "write"
  /\ UNCHANGED <<switchVars, driverVars, feedback, seen, active, robot, sent,
                 mode_moved, late>>

Neutral(interfaces) ==
  [i \in Buffers |-> IF i \in interfaces THEN {} ELSE buffer[i]]

\* Low-level mode handed over from one controller to another: no transition of the
\* robot, only the buffers.
PerformHandsOver ==
  /\ rt = "switch" /\ service = "prepared"
  /\ "low_level" \in stops \cap starts
  /\ buffer' = Neutral({"POS", "VEL"})
  /\ feedback' = robot
  /\ stops' = stops \ {"low_level"}
  /\ starts' = starts \ {"low_level"}
  /\ rt' = "stop"
  /\ UNCHANGED <<service, switch, block_write, running, arm_mode, seen, active, robot, sent,
                 mode_moved, late>>

\* The modes to be stopped stop.
PerformStops ==
  /\ \/ rt = "switch" /\ service = "prepared" /\ "low_level" \notin stops \cap starts
     \/ rt = "stop"
  /\ running' = running \ stops
  /\ buffer' = Neutral({InterfaceOf[m] : m \in stops})
  /\ IF "low_level" \in stops THEN set_servoing_mode("SINGLE_LEVEL") ELSE UNCHANGED arm_mode
  /\ IF stops # {} THEN change_operating_mode("MONITORED_STOP")
                   ELSE UNCHANGED <<robot, mode_moved, late>>
  /\ rt' = "start"
  /\ UNCHANGED <<switchVars, feedback, seen, active, sent>>

\* perform returns OK whatever the robot said; the controllers change over, and
\* write() follows in the same cycle.
SwitchEnds ==
  /\ stops' = {} /\ starts' = {}
  /\ block_write' = FALSE
  /\ service' = "idle"
  /\ active' = (active \ switch.stop) \cup switch.start
  /\ switch' = NoRequest
  /\ rt' = "write"
  /\ UNCHANGED <<seen, sent>>

PerformStartsNothing ==
  /\ rt = "start"
  /\ starts = {}
  /\ SwitchEnds
  /\ UNCHANGED <<driverVars, feedback, robot, mode_moved, late>>

PerformStartsLowLevel ==
  /\ rt = "start"
  /\ "low_level" \in starts
  /\ change_operating_mode("HOLD_TO_RUN")
  /\ set_servoing_mode("LOW_LEVEL")
  /\ running' = {"low_level"}
  /\ buffer' = Neutral({"POS", "VEL"})
  /\ feedback' = robot'
  /\ SwitchEnds

\* A start that takes the buffer as it is.
PerformStartsJogAsIs(m) ==
  /\ rt = "start"
  /\ m \in starts
  /\ set_servoing_mode("SINGLE_LEVEL")
  /\ change_operating_mode("JOG_MANUAL")
  /\ running' = {m}
  /\ SwitchEnds
  /\ UNCHANGED <<buffer, feedback>>

PerformStartsJog(m) ==
  /\ rt = "start"
  /\ m \in starts
  /\ set_servoing_mode("SINGLE_LEVEL")
  /\ change_operating_mode("JOG_MANUAL")
  /\ running' = {m}
  /\ buffer' = Neutral({InterfaceOf[m]})
  /\ SwitchEnds
  /\ UNCHANGED feedback

-----------------------------------------------------------------------------
(* write()                                                                  *)

Blocked == Halted(seen) \/ block_write

\* The command that passes the guards, if the running mode fits the servoing mode.  With
\* neither servoing mode nothing is sent.
Sending ==
  {m \in running :
     /\ ~Blocked /\ ~seen.fault
     /\ \/ arm_mode = "LOW_LEVEL" /\ m = "low_level"
        \/ arm_mode = "SINGLE_LEVEL" /\ m = "joint_velocity"
        \/ arm_mode = "SINGLE_LEVEL" /\ m = "twist" /\ "joint_velocity" \notin running}

\* The buffers a command is made of.
Uses(m) == IF m = "low_level" THEN {"POS", "VEL"} ELSE {InterfaceOf[m]}

\* A write() that refreshes the feedback only in the cycles that keep the robot alive.
WriteSendsBlindly ==
  /\ rt = "write"
  /\ sent' = [modes |-> Sending,
              by |-> UNION {buffer[i] : i \in UNION {Uses(m) : m \in Sending}}]
  /\ feedback' = IF Sending = {} THEN robot ELSE feedback
  /\ late' = IF Sending # {} /\ (Halted(robot) \/ robot.fault) THEN late + 1 ELSE late
  /\ rt' = "read"
  /\ UNCHANGED <<switchVars, driverVars, seen, active, robot, mode_moved>>

\* Every path ends in a fresh feedback.
Write ==
  /\ rt = "write"
  /\ sent' = [modes |-> Sending,
              by |-> UNION {buffer[i] : i \in UNION {Uses(m) : m \in Sending}}]
  /\ feedback' = robot
  /\ late' = IF Sending # {} /\ (Halted(robot) \/ robot.fault) THEN late + 1 ELSE late
  /\ rt' = "read"
  /\ UNCHANGED <<switchVars, driverVars, seen, active, robot, mode_moved>>

-----------------------------------------------------------------------------
(* The robot.                                                               *)

worldUnchanged ==
  /\ late' = LateWith(robot')
  /\ UNCHANGED <<rt, switchVars, driverVars, feedback, seen, active, sent>>

\* The teach pendant, or the robot itself, selects another mode.
ModeMoves ==
  /\ \E m \in OthersSelect \ {robot.mode} : robot' = [robot EXCEPT !.mode = m]
  /\ mode_moved' = TRUE
  /\ worldUnchanged

\* Released in JOG_MANUAL, the enabling device also stops the arm.
EnablingReleased ==
  /\ robot.enabled
  /\ robot' = [robot EXCEPT !.enabled = FALSE,
                            !.mode = IF @ = "JOG_MANUAL" THEN "MONITORED_STOP" ELSE @]
  /\ mode_moved' = (mode_moved \/ robot.mode = "JOG_MANUAL")
  /\ worldUnchanged

EnablingPressed ==
  /\ ~robot.enabled
  /\ robot' = [robot EXCEPT !.enabled = TRUE]
  /\ UNCHANGED mode_moved
  /\ worldUnchanged

FaultMoves ==
  /\ robot' = [robot EXCEPT !.fault = ~@]
  /\ UNCHANGED mode_moved
  /\ worldUnchanged

-----------------------------------------------------------------------------

Prepare ==
  \/ \E stop \in SUBSET Controllers, start \in SUBSET Controllers : SwitchRequested(stop, start)
  \/ PrepareAccepts \/ PrepareRejects

Perform ==
  \/ PerformHandsOver \/ PerformStops
  \/ PerformStartsNothing \/ PerformStartsLowLevel
  \/ \E m \in {"joint_velocity", "twist"} : PerformStartsJog(m)

World == ModeMoves \/ EnablingReleased \/ EnablingPressed \/ FaultMoves

Next == Prepare \/ Read \/ Update \/ NoSwitch \/ Perform \/ Write \/ World

Spec == Init /\ [][Next]_vars

-----------------------------------------------------------------------------
(* Properties.                                                              *)

\* Whenever no switch is being performed, the arm runs in the mode its active
\* controllers ask for, in particular in one mode at most, through all refused,
\* combined and restarting switches.
RunningMatchesActive ==
  rt # "start" => running = ModesOf(Claimed(active))

ModeFor(modes) ==
  IF modes = {} THEN "MONITORED_STOP"
  ELSE IF "low_level" \in modes THEN "HOLD_TO_RUN" ELSE "JOG_MANUAL"

\* If the robot takes what it is told, then it is in the operating mode and the
\* servoing mode that belong to the running command mode, unless it has changed
\* its operating mode by itself since the driver last set one.
RobotMatchesRunning ==
  /\ "select" \notin MayFail => (mode_moved \/ robot.mode = ModeFor(running))
  /\ "servoing" \notin MayFail => (arm_mode = "LOW_LEVEL" <=> "low_level" \in running)

\* Stopping, starting and handing over are one step of the arbiter: the one that
\* changes the active controllers.
Arbiter == INSTANCE CommandArbiter WITH
  owners <- active,
  running <- IF rt = "start" THEN ModesOf(Claimed(active)) ELSE running

\* The driver with its two threads implements the arbiter: switches look atomic and
\* no command carries a value of a controller that has been stopped.
ImplementsArbiter == Arbiter!Spec

\* "the controller keeps applying the last received command": as long as a twist
\* controller runs and no switch is under way, its commands are not blocked.
KeepsApplying ==
  ("twist" \in running /\ service = "idle") => ~block_write

\* What write() tests is one cycle old.  Once the robot is stopped, in fault or waiting for
\* the enabling device, one command at most still goes out, whatever is switched meanwhile
\* and whatever the robot refuses.
StopsWithRobot == late <= 1

FairSpec ==
  /\ Spec
  /\ WF_vars(Read) /\ WF_vars(Update) /\ WF_vars(NoSwitch \/ Perform) /\ WF_vars(Write)
  /\ WF_vars(PrepareAccepts \/ PrepareRejects)

\* A velocity or twist controller that is left alone.
LeftAlone(m) == running = {m} /\ service = "idle" /\ ~block_write

\* However often the enabling device was released and pressed: once it stays pressed
\* with the arm free of fault and the pendant left alone, the commands of a velocity
\* or twist controller go out again.
MotionResumes ==
  \A m \in {"joint_velocity", "twist"} :
    (<>[](robot.enabled /\ ~robot.fault /\ LeftAlone(m)) /\ <>[][~ModeMoves]_vars)
      => <>[](sent.modes = {m})
=============================================================================
