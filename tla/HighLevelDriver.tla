--------------------------- MODULE HighLevelDriver ---------------------------
(***************************************************************************)
(* The high-level (MQTT action) driver Kortex3HardwareInterface once it is *)
(* active: the read-update-write cycle of the controller manager's thread, *)
(* the service handlers that run inside read() through spin_some, and what *)
(* they talk to, that is the robot, the program runner on the robot and    *)
(* the controller manager's services.                                      *)
(*                                                                         *)
(* One thread owns every field of the driver, so the driver's own steps    *)
(* never race with each other.  What races with them is the outside world: *)
(* the arm, its operating mode, its program runner, the controller         *)
(* manager's switch requests and the clock all move between any two of     *)
(* those steps.                                                            *)
(***************************************************************************)
EXTENDS Integers

CONSTANTS
  MotionControllers,  \* the names get_active_motion_controllers looks for
  UnsafeControllers,  \* the names check_unsafe_controllers_active looks for
  Programs,           \* the programs stored on the robot controller
  VerifyCycles,       \* read() cycles before a deactivation is verified (1000)
  SettleTime,         \* ticks a finished program keeps blocking (1000 ms)
  MayFail             \* which kinds of outside calls may fail in this instance

ExternalCalls == {"link", "list", "select", "switch"}

ASSUME ControllersAssumption == UnsafeControllers \subseteq MotionControllers
ASSUME BoundsAssumption ==
  /\ VerifyCycles \in Nat \ {0}
  /\ SettleTime \in Nat \ {0}
ASSUME MayFailAssumption == MayFail \subseteq ExternalCalls

\* ARMSTATE_IN_FAULT and ARMSTATE_IN_FAULT_POWERED_OFF are one value, as in the
\* code; every state no branch tests for is "OTHER".
ArmStates == {"OPERATIONAL", "IN_FAULT", "RECOVERY", "OTHER"}

\* JOG_MANUAL, HAND_GUIDING, HOLD_TO_RUN and UNSPECIFIED are not told apart here.
Modes == {"AUTO", "MONITORED_STOP", "MANUAL"}

\* STARTING, PAUSED, PAUSED_AUTOMATIC_RESUME and WAITING_FOR_ACKNOWLEDGE count
\* as "RUNNING", UNSPECIFIED as "IDLE".
Statuses == {"IDLE", "RUNNING", "STOPPING"}

Request == [op : {"activate", "deactivate"}, controllers : SUBSET MotionControllers]

\* Where the controller manager's thread is: the steps of read(), those of
\* handle_clear_faults, the controllers' update, write(), or stopped after ERROR.
ClearFaultsSteps == {"cf_state", "cf_refetch", "cf_guiding", "cf_wait"}
Phases == {"read", "status", "countdown", "spin", "update", "write", "halted"}
            \cup ClearFaultsSteps

VARIABLES
  phase,                           \* where the cycle is
  in_fault,                        \* in_fault_
  last_operating_mode,             \* last_operating_mode_, the mode the driver believes
  last_program_status,             \* last_program_status_
  program_end_age,                 \* time since program_end_time_, capped at SettleTime
  pending_controller_deactivation, \* pending_controller_deactivation_
  controllers_to_deactivate,       \* controllers_to_deactivate_
  deactivation_verify_countdown,   \* deactivation_verify_countdown_
  active_controllers,              \* handle_clear_faults' local list
  arm, mode, program,              \* the robot: arm state, operating mode, program runner
  active, requests                 \* the controller manager: active controllers, switch
                                   \* requests of the detached threads not yet applied

\* History variables: no action of the driver reads them.
VARIABLES
  run,         \* the latest program run: "none", started by run_program ("ours") or
               \* elsewhere ("theirs") and not seen by any poll yet, or "seen" by one
  quiet,       \* time since that run ended on the robot, capped at SettleTime
  hold,        \* a recovery by hand has left a list that is not judged yet, and nobody
               \* has chosen AUTO since
  slipped,     \* the robot may be, or be believed to be, in AUTO during a hold, though
               \* nobody chose it: it refused MONITORED_STOP, or the driver selected AUTO
  owed,        \* controllers of the list that a recovery has stopped, and that are neither
               \* running again, nor asked back, nor warned about
  fault_seen,  \* the driver has read a fault that the arm is still in
  clearing,    \* clear_faults has called ClearFaults() since the last RefreshFeedback
  mode_moved   \* the robot changed mode by itself after the driver last set or read it

recoveryVars == <<pending_controller_deactivation, controllers_to_deactivate,
                  deactivation_verify_countdown>>
programVars == <<last_program_status, program_end_age, program, run, quiet>>
robotVars == <<arm, mode, fault_seen, clearing, mode_moved>>
managerVars == <<active, requests>>
holdVars == <<hold, slipped, owed>>
vars == <<phase, in_fault, last_operating_mode, recoveryVars, active_controllers,
          programVars, robotVars, managerVars, holdVars>>

\* The flags apart from the rest: the provers want the two separately.
TypeFlags ==
  /\ in_fault \in BOOLEAN
  /\ pending_controller_deactivation \in BOOLEAN
  /\ hold \in BOOLEAN
  /\ slipped \in BOOLEAN
  /\ fault_seen \in BOOLEAN
  /\ clearing \in BOOLEAN
  /\ mode_moved \in BOOLEAN

TypeData ==
  /\ phase \in Phases
  /\ last_operating_mode \in Modes
  /\ last_program_status \in Statuses
  /\ program_end_age \in 0..SettleTime
  /\ controllers_to_deactivate \in SUBSET MotionControllers
  /\ deactivation_verify_countdown \in 0..VerifyCycles
  /\ active_controllers \in SUBSET MotionControllers
  /\ arm \in ArmStates
  /\ mode \in Modes
  /\ program \in Statuses
  /\ active \in SUBSET MotionControllers
  /\ requests \in SUBSET Request
  /\ run \in {"none", "ours", "theirs", "seen"}
  /\ quiet \in 0..SettleTime
  /\ owed \in SUBSET MotionControllers

\* Every field keeps its type: in particular the countdown stays in 0..VerifyCycles.
TypeOK == TypeFlags /\ TypeData

-----------------------------------------------------------------------------
(* What the driver computes from its own fields.                            *)

\* A careless list of the active statuses, one that forgets STOPPING.
is_program_active_no_stopping(status) == status = "RUNNING"

is_program_active(status) == status \in {"RUNNING", "STOPPING"}

\* The guards write() passes before it sends a velocity command.
GateOpen ==
  /\ ~in_fault
  /\ last_operating_mode = "AUTO"
  /\ ~is_program_active(last_program_status)
  /\ program_end_age >= SettleTime

\* What list_controllers can give get_active_motion_controllers: the active ones
\* among the names it knows, or the empty list when the call fails.
get_active_motion_controllers ==
  {active \cap MotionControllers} \cup (IF "list" \in MayFail THEN {{}} ELSE {})

\* check_unsafe_controllers_active: a failed call counts as "none active".
check_unsafe_controllers_active ==
  {active \cap UnsafeControllers # {}} \cup (IF "list" \in MayFail THEN {FALSE} ELSE {})

\* change_operating_mode swallows a rejection, so its callers cannot tell.
change_operating_mode(m) ==
  \/ mode' = m
  \/ "select" \in MayFail /\ UNCHANGED mode

\* History: the operator, a client or the robot decides on a mode.
Chosen(m) ==
  /\ hold' = (hold /\ m # "AUTO")
  /\ slipped' = (slipped /\ m # "AUTO")
  /\ UNCHANGED owed

\* History: the driver selects AUTO itself, in a call made for something else.
OwnAuto == slipped' = hold /\ UNCHANGED <<hold, owed>>

\* After ERROR the controller manager stops cycling the component; a caller that
\* ignores the result goes on to `next`.
ErrorReturned(next) == phase' \in {next, "halted"}

-----------------------------------------------------------------------------
(* The driver just after on_activate has returned SUCCESS.                  *)

Init ==
  /\ phase = "read"
  /\ in_fault = FALSE
  /\ last_operating_mode = "AUTO"
  /\ last_program_status = "IDLE"
  /\ program_end_age = SettleTime
  /\ pending_controller_deactivation = FALSE
  /\ controllers_to_deactivate = {}
  /\ deactivation_verify_countdown = 0
  /\ active_controllers = {}
  /\ arm = "OPERATIONAL"
  /\ mode \in IF "select" \in MayFail THEN Modes ELSE {"AUTO"}
  /\ program = "IDLE"
  /\ active \in SUBSET MotionControllers
  /\ requests = {}
  /\ run = "none"
  /\ quiet = SettleTime
  /\ hold = FALSE
  /\ slipped = FALSE
  /\ owed = {}
  /\ fault_seen = FALSE
  /\ clearing = FALSE
  /\ mode_moved = FALSE

-----------------------------------------------------------------------------
(* read()                                                                   *)

\* A fault branch that leaves the flag to those who find the fault.
ReadFaultLatchesNothing ==
  /\ phase = "read"
  /\ arm = "IN_FAULT"
  /\ fault_seen' = TRUE
  /\ clearing' = FALSE
  /\ phase' = "spin"
  /\ UNCHANGED <<in_fault, last_operating_mode, recoveryVars, active_controllers,
                 programVars, arm, mode, mode_moved, managerVars, holdVars>>

\* RefreshFeedback reports a fault: the branch serves services and returns OK,
\* so the mode, the program runner and the countdown are not looked at.
ReadFault ==
  /\ phase = "read"
  /\ arm = "IN_FAULT"
  /\ in_fault' = TRUE
  /\ fault_seen' = TRUE
  /\ clearing' = FALSE
  /\ phase' = "spin"
  /\ UNCHANGED <<last_operating_mode, recoveryVars, active_controllers, programVars,
                 arm, mode, mode_moved, managerVars, holdVars>>

\* RefreshFeedback with no fault: the robot's mode becomes the believed one.
\* in_fault is not touched.
ReadFeedback ==
  /\ phase = "read"
  /\ arm # "IN_FAULT"
  /\ last_operating_mode' = mode
  /\ mode_moved' = FALSE
  /\ clearing' = FALSE
  /\ slipped' = (slipped /\ mode = "AUTO")
  /\ phase' = "status"
  /\ UNCHANGED <<in_fault, recoveryVars, active_controllers, programVars, arm, mode,
                 fault_seen, managerVars, hold, owed>>

\* RefreshFeedback throws: services are not served in this cycle.
ReadException ==
  /\ phase = "read"
  /\ "link" \in MayFail
  /\ in_fault' = TRUE
  /\ clearing' = FALSE
  /\ ErrorReturned("update")
  /\ UNCHANGED <<last_operating_mode, recoveryVars, active_controllers, programVars,
                 arm, mode, fault_seen, mode_moved, managerVars, holdVars>>

\* A GetStatus that records the end time only when the program is seen RUNNING.
PollStatusEndMissed ==
  /\ phase = "status"
  /\ last_program_status' = program
  /\ UNCHANGED program_end_age
  /\ run' = IF is_program_active(program) THEN "seen" ELSE run
  /\ phase' = "countdown"
  /\ UNCHANGED <<in_fault, last_operating_mode, recoveryVars, active_controllers,
                 program, quiet, robotVars, managerVars, holdVars>>

\* GetStatus answers: the active-to-inactive edge starts the settling time.
PollStatus ==
  /\ phase = "status"
  /\ last_program_status' = program
  /\ program_end_age' =
       IF is_program_active(last_program_status) /\ ~is_program_active(program)
         THEN 0 ELSE program_end_age
  /\ run' = IF is_program_active(program) THEN "seen" ELSE run
  /\ phase' = "countdown"
  /\ UNCHANGED <<in_fault, last_operating_mode, recoveryVars, active_controllers,
                 program, quiet, robotVars, managerVars, holdVars>>

\* GetStatus throws: the stale status is kept and read() goes on.
PollException ==
  /\ phase = "status"
  /\ "link" \in MayFail
  /\ phase' = "countdown"
  /\ UNCHANGED <<in_fault, last_operating_mode, recoveryVars, active_controllers,
                 programVars, robotVars, managerVars, holdVars>>

\* The deactivation scheduled by handle_clear_faults goes out on a detached thread.
requestsSent ==
  IF pending_controller_deactivation
    THEN requests \cup {[op |-> "deactivate", controllers |-> controllers_to_deactivate]}
    ELSE requests

countdownBefore ==
  IF pending_controller_deactivation THEN VerifyCycles ELSE deactivation_verify_countdown

VerificationDue == countdownBefore = 1 /\ controllers_to_deactivate # {}

\* A countdown that a latched fault freezes.
CountdownFrozenByFault ==
  /\ phase = "countdown"
  /\ ~VerificationDue
  /\ requests' = requestsSent
  /\ pending_controller_deactivation' = FALSE
  /\ deactivation_verify_countdown' =
       IF countdownBefore = 0 \/ in_fault THEN countdownBefore ELSE countdownBefore - 1
  /\ phase' = "spin"
  /\ UNCHANGED <<in_fault, last_operating_mode, controllers_to_deactivate,
                 active_controllers, programVars, robotVars, active, holdVars>>

\* A countdown without the test that it is still running.
CountdownUnderflows ==
  /\ phase = "countdown"
  /\ ~VerificationDue
  /\ requests' = requestsSent
  /\ pending_controller_deactivation' = FALSE
  /\ deactivation_verify_countdown' = countdownBefore - 1
  /\ phase' = "spin"
  /\ UNCHANGED <<in_fault, last_operating_mode, controllers_to_deactivate,
                 active_controllers, programVars, robotVars, active, holdVars>>

\* A cycle that sends a pending request and counts down, but does not verify yet.
Countdown ==
  /\ phase = "countdown"
  /\ ~VerificationDue
  /\ requests' = requestsSent
  /\ pending_controller_deactivation' = FALSE
  /\ deactivation_verify_countdown' =
       IF countdownBefore = 0 THEN 0 ELSE countdownBefore - 1
  /\ phase' = "spin"
  /\ UNCHANGED <<in_fault, last_operating_mode, controllers_to_deactivate,
                 active_controllers, programVars, robotVars, active, holdVars>>

\* History: the list is judged, its controllers are asked back or warned about.
Judged ==
  /\ hold' = FALSE
  /\ slipped' = FALSE
  /\ owed' = owed \ controllers_to_deactivate

\* The countdown ends and none of the listed controllers is reported active: back
\* to AUTO, and a request to reactivate them goes out on a detached thread.
VerifyRestores ==
  /\ phase = "countdown"
  /\ VerificationDue
  /\ \E still_active \in get_active_motion_controllers :
       controllers_to_deactivate \cap still_active = {}
  /\ change_operating_mode("AUTO")
  /\ last_operating_mode' = "AUTO"
  /\ requests' = requestsSent \cup
       {[op |-> "activate", controllers |-> controllers_to_deactivate]}
  /\ pending_controller_deactivation' = FALSE
  /\ deactivation_verify_countdown' = 0
  /\ controllers_to_deactivate' = {}
  /\ Judged
  /\ mode_moved' = FALSE
  /\ phase' = "spin"
  /\ UNCHANGED <<in_fault, active_controllers, programVars, arm, fault_seen, clearing,
                 active>>

\* A verification that only warns and keeps the list.
VerifyWarnsKeepingList ==
  /\ phase = "countdown"
  /\ VerificationDue
  /\ \E still_active \in get_active_motion_controllers :
       controllers_to_deactivate \cap still_active # {}
  /\ requests' = requestsSent
  /\ pending_controller_deactivation' = FALSE
  /\ deactivation_verify_countdown' = 0
  /\ Judged
  /\ phase' = "spin"
  /\ UNCHANGED <<in_fault, last_operating_mode, controllers_to_deactivate,
                 active_controllers, programVars, robotVars, active>>

\* The countdown ends and some listed controller is still active: a warning only.
VerifyWarns ==
  /\ phase = "countdown"
  /\ VerificationDue
  /\ \E still_active \in get_active_motion_controllers :
       controllers_to_deactivate \cap still_active # {}
  /\ requests' = requestsSent
  /\ pending_controller_deactivation' = FALSE
  /\ deactivation_verify_countdown' = 0
  /\ controllers_to_deactivate' = {}
  /\ Judged
  /\ phase' = "spin"
  /\ UNCHANGED <<in_fault, last_operating_mode, active_controllers, programVars,
                 robotVars, active>>

\* spin_some has served the callbacks that were ready; read() returns OK.
SpinDone ==
  /\ phase = "spin"
  /\ phase' = "update"
  /\ UNCHANGED <<in_fault, last_operating_mode, recoveryVars, active_controllers,
                 programVars, robotVars, managerVars, holdVars>>

-----------------------------------------------------------------------------
(* The service handlers, served by spin_some at the end of read().  The     *)
(* queries (list_programs, get_program_status, list_protection_zones) and   *)
(* refused requests change nothing and are stutters.                        *)

\* A handler that only asks the robot and waits for read() to notice.
handle_set_operating_mode_no_belief(requested) ==
  /\ phase = "spin"
  /\ change_operating_mode(requested)
  /\ Chosen(requested)
  /\ mode_moved' = FALSE
  /\ UNCHANGED <<phase, in_fault, last_operating_mode, recoveryVars, active_controllers,
                 programVars, arm, fault_seen, clearing, managerVars>>

\* Answers success whether or not the robot took the mode.
handle_set_operating_mode(requested) ==
  /\ phase = "spin"
  /\ change_operating_mode(requested)
  /\ last_operating_mode' = requested
  /\ Chosen(requested)
  /\ mode_moved' = FALSE
  /\ UNCHANGED <<phase, in_fault, recoveryVars, active_controllers, programVars,
                 arm, fault_seen, clearing, managerVars>>

\* A program found by its name is started when the controllers look safe.  The
\* check and the start are one step: only the update of this same thread could
\* change the active controllers in between.
handle_run_program ==
  /\ phase = "spin"
  /\ Programs # {}
  /\ FALSE \in check_unsafe_controllers_active
  /\ program = "IDLE"
  /\ program' = "RUNNING"
  /\ run' = "ours"
  /\ UNCHANGED <<phase, in_fault, last_operating_mode, recoveryVars, active_controllers,
                 last_program_status, program_end_age, quiet, robotVars, managerVars, holdVars>>

\* Stop() succeeds, then the mode goes to AUTO.  Stop() throwing changes nothing.
handle_stop_program ==
  /\ phase = "spin"
  /\ \/ program' \in {"STOPPING", "IDLE"} /\ program # "IDLE"
     \/ program' = "IDLE" /\ program = "IDLE"
  /\ quiet' = IF program # "IDLE" /\ program' = "IDLE" THEN 0 ELSE quiet
  /\ change_operating_mode("AUTO")
  /\ last_operating_mode' = "AUTO"
  /\ OwnAuto
  /\ mode_moved' = FALSE
  /\ UNCHANGED <<phase, in_fault, recoveryVars, active_controllers, last_program_status,
                 program_end_age, run, arm, fault_seen, clearing, managerVars>>

(* handle_clear_faults, in the steps between which the robot may move.      *)

\* The active motion controllers are listed before the fault is cleared.
ClearFaultsListed ==
  /\ phase = "spin"
  /\ active_controllers' \in get_active_motion_controllers
  /\ phase' = "cf_state"
  /\ UNCHANGED <<in_fault, last_operating_mode, recoveryVars, programVars, robotVars,
                 managerVars, holdVars>>

\* GetArmState says no fault: refused, whatever in_fault is.
ClearFaultsRefused ==
  /\ phase = "cf_state"
  /\ arm # "IN_FAULT"
  /\ active_controllers' = {}
  /\ phase' = "spin"
  /\ UNCHANGED <<in_fault, last_operating_mode, recoveryVars, programVars, robotVars,
                 managerVars, holdVars>>

\* GetArmState says fault: ClearFaults() is called and the arm goes where it will.
ClearFaultsCalled ==
  /\ phase = "cf_state"
  /\ arm = "IN_FAULT"
  /\ arm' \in ArmStates
  /\ fault_seen' = (arm' = "IN_FAULT")
  /\ clearing' = TRUE
  /\ phase' = "cf_refetch"
  /\ UNCHANGED <<in_fault, last_operating_mode, recoveryVars, active_controllers,
                 programVars, mode, mode_moved, managerVars, holdVars>>

\* The state fetched again is RECOVERY: the operator must guide the arm by hand.
ClearFaultsGuides ==
  /\ phase = "cf_refetch"
  /\ arm = "RECOVERY"
  /\ phase' = "cf_guiding"
  /\ UNCHANGED <<in_fault, last_operating_mode, recoveryVars, active_controllers,
                 programVars, robotVars, managerVars, holdVars>>

\* The state fetched again is OPERATIONAL: no recovery needed, straight to AUTO.
ClearFaultsOperational ==
  /\ phase = "cf_refetch"
  /\ arm = "OPERATIONAL"
  /\ in_fault' = FALSE
  /\ change_operating_mode("AUTO")
  /\ last_operating_mode' = "AUTO"
  /\ OwnAuto
  /\ mode_moved' = FALSE
  /\ active_controllers' = {}
  /\ phase' = "spin"
  /\ UNCHANGED <<recoveryVars, programVars, arm, fault_seen, clearing, managerVars>>

\* Any other state, IN_FAULT included: the flag is reset "anyway".
ClearFaultsAnyway ==
  /\ phase = "cf_refetch"
  /\ arm \notin {"RECOVERY", "OPERATIONAL"}
  /\ in_fault' = FALSE
  /\ fault_seen' = (arm = "IN_FAULT")
  /\ active_controllers' = {}
  /\ phase' = "spin"
  /\ UNCHANGED <<last_operating_mode, recoveryVars, programVars, arm, mode, clearing,
                 mode_moved, managerVars, holdVars>>

\* ENTER on the terminal, or 5 s without one: ExitRecoveryState() is called.
ClearFaultsExits ==
  /\ phase = "cf_guiding"
  /\ arm' \in IF arm = "RECOVERY" THEN {"RECOVERY", "OPERATIONAL"} ELSE {arm}
  /\ phase' = "cf_wait"
  /\ UNCHANGED <<in_fault, last_operating_mode, recoveryVars, active_controllers,
                 programVars, mode, fault_seen, clearing, mode_moved, managerVars, holdVars>>

\* History: a further recovery that finds controllers running replaces the list, and
\* those the recovery before has stopped stay off.
StartsOver == owed' = IF active # {} THEN {} ELSE owed

\* A recovery that goes straight back to AUTO, as the comment in the code has it.
ClearFaultsRecoversInAuto ==
  /\ phase = "cf_wait"
  /\ arm = "OPERATIONAL"
  /\ in_fault' = FALSE
  /\ change_operating_mode("AUTO")
  /\ last_operating_mode' = "AUTO"
  /\ mode_moved' = FALSE
  /\ controllers_to_deactivate' = active_controllers
  /\ pending_controller_deactivation' = (active_controllers # {})
  /\ hold' = (active_controllers # {})
  /\ slipped' = FALSE
  /\ StartsOver
  /\ active_controllers' = {}
  /\ phase' = "spin"
  /\ UNCHANGED <<deactivation_verify_countdown, programVars, arm, fault_seen, clearing,
                 managerVars>>

\* A recovery that schedules what it found, even if it found nothing.
ClearFaultsRecoveredAlways ==
  /\ phase = "cf_wait"
  /\ arm = "OPERATIONAL"
  /\ in_fault' = FALSE
  /\ change_operating_mode("MONITORED_STOP")
  /\ last_operating_mode' = "MONITORED_STOP"
  /\ mode_moved' = FALSE
  /\ controllers_to_deactivate' = active_controllers
  /\ pending_controller_deactivation' = TRUE
  /\ hold' = TRUE
  /\ slipped' = (mode' = "AUTO")
  /\ StartsOver
  /\ active_controllers' = {}
  /\ phase' = "spin"
  /\ UNCHANGED <<deactivation_verify_countdown, programVars, arm, fault_seen, clearing,
                 managerVars>>

\* GetArmState says OPERATIONAL within 10 s: the fault is over, the arm is put in
\* MONITORED_STOP and the deactivation is left for read() to request.
ClearFaultsRecovered ==
  /\ phase = "cf_wait"
  /\ arm = "OPERATIONAL"
  /\ in_fault' = FALSE
  /\ change_operating_mode("MONITORED_STOP")
  /\ last_operating_mode' = "MONITORED_STOP"
  /\ mode_moved' = FALSE
  /\ IF active_controllers # {}
       THEN /\ controllers_to_deactivate' = active_controllers
            /\ pending_controller_deactivation' = TRUE
            /\ hold' = TRUE
            /\ slipped' = (mode' = "AUTO")
       ELSE UNCHANGED <<controllers_to_deactivate, pending_controller_deactivation, hold,
                        slipped>>
  /\ StartsOver
  /\ active_controllers' = {}
  /\ phase' = "spin"
  /\ UNCHANGED <<deactivation_verify_countdown, programVars, arm, fault_seen, clearing,
                 managerVars>>

\* A call to the robot throws, or 10 s pass: the handler gives up, in_fault stays.
ClearFaultsGivesUp ==
  /\ \/ phase \in ClearFaultsSteps /\ "link" \in MayFail
     \/ phase = "cf_wait" /\ arm # "OPERATIONAL"
  /\ active_controllers' = {}
  /\ phase' = "spin"
  /\ UNCHANGED <<in_fault, last_operating_mode, recoveryVars, programVars, robotVars,
                 managerVars, holdVars>>

-----------------------------------------------------------------------------
(* update() of the controllers, in the same thread: switch requests apply.  *)

\* A detached request takes effect, as far as BEST_EFFORT goes.
ApplySwitch(r) ==
  /\ phase = "update"
  /\ r \in requests
  /\ \E done \in SUBSET r.controllers :
       /\ done = r.controllers \/ "switch" \in MayFail
       /\ IF r.op = "activate"
            THEN active' = active \cup done /\ owed' = owed \ done
            ELSE /\ active' = active \ done
                 /\ owed' = owed \cup (done \cap active \cap controllers_to_deactivate)
  /\ requests' = requests \ {r}
  /\ UNCHANGED <<phase, in_fault, last_operating_mode, recoveryVars, active_controllers,
                 programVars, robotVars, hold, slipped>>

\* The service was not available to the detached thread, or its node went first.
LoseSwitch(r) ==
  /\ "switch" \in MayFail
  /\ r \in requests
  /\ requests' = requests \ {r}
  /\ UNCHANGED <<phase, in_fault, last_operating_mode, recoveryVars, active_controllers,
                 programVars, robotVars, active, holdVars>>

\* The user switches controllers.
UserSwitch(controllers) ==
  /\ phase = "update"
  /\ active' = controllers
  /\ owed' = owed \ controllers
  /\ UNCHANGED <<phase, in_fault, last_operating_mode, recoveryVars, active_controllers,
                 programVars, robotVars, requests, hold, slipped>>

UpdateDone ==
  /\ phase = "update"
  /\ phase' = "write"
  /\ UNCHANGED <<in_fault, last_operating_mode, recoveryVars, active_controllers,
                 programVars, robotVars, managerVars, holdVars>>

-----------------------------------------------------------------------------
(* write()                                                                  *)

writeUnchanged == UNCHANGED <<last_operating_mode, recoveryVars, active_controllers,
                              programVars, robotVars, managerVars, holdVars>>

\* A guard returns OK before anything is sent.
WriteBlocked ==
  /\ phase = "write"
  /\ ~GateOpen
  /\ phase' = "read"
  /\ UNCHANGED in_fault
  /\ writeUnchanged

\* ExecuteAction is accepted.
WriteSends ==
  /\ phase = "write"
  /\ GateOpen
  /\ arm = "OPERATIONAL" /\ mode = "AUTO"
  /\ phase' = "read"
  /\ UNCHANGED in_fault
  /\ writeUnchanged

\* INVALID_PARAM, ROBOT_IN_FAULT or WRONG_MODE: taken for a fault, OK returned.
WriteRejected ==
  /\ phase = "write"
  /\ GateOpen
  /\ arm # "OPERATIONAL" \/ mode # "AUTO" \/ "link" \in MayFail
  /\ in_fault' = TRUE
  /\ phase' = "read"
  /\ writeUnchanged

\* Any other exception: taken for a fault, ERROR returned.
WriteException ==
  /\ phase = "write"
  /\ GateOpen
  /\ "link" \in MayFail
  /\ in_fault' = TRUE
  /\ ErrorReturned("read")
  /\ writeUnchanged

-----------------------------------------------------------------------------
(* The robot and the clock.                                                 *)

ArmMoves ==
  /\ arm' \in ArmStates \ {arm}
  /\ fault_seen' = (fault_seen /\ arm' = "IN_FAULT")
  /\ UNCHANGED <<phase, in_fault, last_operating_mode, recoveryVars, active_controllers,
                 programVars, mode, clearing, mode_moved, managerVars, holdVars>>

\* The teach pendant, the web application or the robot itself changes the mode.
ModeMoves ==
  /\ mode' \in Modes \ {mode}
  /\ mode_moved' = TRUE
  /\ Chosen(mode')
  /\ UNCHANGED <<phase, in_fault, last_operating_mode, recoveryVars, active_controllers,
                 programVars, arm, fault_seen, clearing, managerVars>>

\* A program is started from the web application.
ProgramStarts ==
  /\ Programs # {}
  /\ program = "IDLE"
  /\ program' = "RUNNING"
  /\ run' = "theirs"
  /\ UNCHANGED <<phase, in_fault, last_operating_mode, recoveryVars, active_controllers,
                 last_program_status, program_end_age, quiet, robotVars, managerVars, holdVars>>

\* A program stops by itself or is being stopped elsewhere.
ProgramEnds ==
  /\ program # "IDLE"
  /\ program' \in {"STOPPING", "IDLE"} \ {program}
  /\ quiet' = IF program' = "IDLE" THEN 0 ELSE quiet
  /\ UNCHANGED <<phase, in_fault, last_operating_mode, recoveryVars, active_controllers,
                 last_program_status, program_end_age, run, robotVars, managerVars, holdVars>>

Aged(age) == IF age < SettleTime THEN age + 1 ELSE age

Tick ==
  /\ program_end_age' = Aged(program_end_age)
  /\ quiet' = Aged(quiet)
  /\ UNCHANGED <<phase, in_fault, last_operating_mode, recoveryVars, active_controllers,
                 last_program_status, program, run, robotVars, managerVars, holdVars>>

-----------------------------------------------------------------------------

Read == \/ ReadFault \/ ReadFeedback \/ ReadException
        \/ PollStatus \/ PollException
        \/ Countdown \/ VerifyRestores \/ VerifyWarns
        \/ SpinDone

ClearFaults == \/ ClearFaultsListed \/ ClearFaultsRefused \/ ClearFaultsCalled
               \/ ClearFaultsGuides \/ ClearFaultsOperational \/ ClearFaultsAnyway
               \/ ClearFaultsExits \/ ClearFaultsRecovered \/ ClearFaultsGivesUp

Handlers == \/ \E requested \in Modes : handle_set_operating_mode(requested)
            \/ handle_run_program
            \/ handle_stop_program
            \/ ClearFaults

Manager == \/ \E r \in requests : ApplySwitch(r) \/ LoseSwitch(r)
           \/ \E controllers \in SUBSET MotionControllers : UserSwitch(controllers)
           \/ UpdateDone

Write == WriteBlocked \/ WriteSends \/ WriteRejected \/ WriteException

World == ArmMoves \/ ModeMoves \/ ProgramStarts \/ ProgramEnds \/ Tick

Next == Read \/ Handlers \/ Manager \/ Write \/ World

Spec == Init /\ [][Next]_vars

-----------------------------------------------------------------------------
(* Properties.                                                              *)

\* A command can pass write()'s guards while the robot runs a program only in the
\* blind window: no poll has seen that run yet.  (The poll of read() and the
\* guards of write(), against programs started between them.)
BlockedDuringSeenProgram ==
  (GateOpen /\ program # "IDLE") => run # "seen"

\* A command can pass the guards sooner than SettleTime after a program has ended
\* only if no poll ever saw that run.  (The driver's clock starts at the poll that
\* notices the end, the robot's at the end itself.)
SettledAfterSeenProgram ==
  (GateOpen /\ program = "IDLE" /\ quiet < SettleTime) => run # "seen"

\* From a recovery by hand to the judgement of its list the verification stays scheduled,
\* whatever faults, further recoveries and mode changes come in between, and a command can
\* pass the guards only where the arm slips out of MONITORED_STOP: someone chose AUTO
\* (which ends the hold), or nobody did and the robot refused MONITORED_STOP, or the
\* driver selected AUTO itself, in stop_program or in a clear_faults that finds the arm
\* operational.  No fault, exception, stale reading or poll lets one pass.
HeldUntilVerified ==
  hold => /\ controllers_to_deactivate # {}
          /\ pending_controller_deactivation \/ deactivation_verify_countdown > 0
          /\ GateOpen => slipped

\* "Switch to AUTO mode now that controllers are safely deactivated": not before, unless
\* someone chooses to.
OpensVerified == hold => ~GateOpen

\* The same of the stop itself: the arm once put in MONITORED_STOP, no reading of the
\* feedback lets commands pass before the controllers are verified.
ReadingKeepsHold == [][hold /\ ReadFeedback => (GateOpen' => GateOpen)]_vars

\* A controller that a recovery has stopped is still on the list, with its judgement to
\* come, until it runs again, is asked back or is warned about, even if a further recovery
\* by then finds nothing to deactivate.  Only one that finds other controllers running may
\* forget it.  (The switch on the manager's side against the next recovery's list.)
NoneForgotten ==
  /\ owed \subseteq controllers_to_deactivate
  /\ owed # {} => pending_controller_deactivation \/ deactivation_verify_countdown > 0

\* "Now reactivate the controllers": those stopped by the recovery before are not dropped
\* from the list by a further one.
RecoveryKeepsOwed ==
  [][ClearFaultsRecovered => owed \subseteq controllers_to_deactivate']_vars

\* If the robot takes the modes it is told to take, the mode write() relies on is
\* the robot's, unless the robot has changed it by itself since the driver last
\* read or set it.
BeliefTracksRobot ==
  "select" \notin MayFail => (last_operating_mode = mode \/ mode_moved)

\* Reactivation is requested only for controllers that are all stopped at that
\* moment ("now that controllers are safely deactivated").
ReactivatesOnlyStopped ==
  [][\A r \in requests' \ requests :
       r.op = "activate" => r.controllers \cap active = {}]_vars

\* With its flag, its list and its counter the driver implements the schedule: every list
\* that a recovery leaves is asked to be deactivated once, in the next cycle that counts,
\* and VerifyCycles such cycles later its verification concludes, unless a further recovery
\* has replaced the list; nothing is reactivated before.
Schedule == INSTANCE RecoverySchedule WITH
  Controllers <- MotionControllers,
  Cycles <- VerifyCycles,
  list <- controllers_to_deactivate,
  waiting <- countdownBefore

ImplementsSchedule == Schedule!Spec

\* During a fault the driver has itself read, a command passes the guards only in a cycle
\* in which clear_faults has told the robot to clear it (and reset in_fault_ "anyway", or
\* given up after it had found the fault first): rejected commands, exceptions, refused
\* recoveries and those of earlier cycles let none out.
FaultBlocksUnlessClearing ==
  (phase = "write" /\ GateOpen /\ fault_seen) => clearing

\* "To recover, call the /kortex3_hardware/clear_faults service": a call the robot
\* answers, with the arm out of fault, does not leave the driver blocked.
ClearFaultsUnblocks ==
  [][ClearFaultsRefused => ~in_fault']_vars

\* "Do not send commands if the arm is in fault": no command passes the guards
\* during a fault the driver has itself read.
BlockedDuringSeenFault ==
  (phase = "write" /\ GateOpen) => ~fault_seen

\* "Velocity commands are automatically blocked while a program is running": not
\* even a program the driver has just started itself.
BlockedDuringOwnProgram ==
  (phase = "write" /\ GateOpen) => ~ (program # "IDLE" /\ run = "ours")

\* "Safety check: Verify no unsafe controllers are active": run_program starts nothing
\* while a controller that moves the arm is active.
ProgramsStartAlone ==
  [][handle_run_program => active \cap MotionControllers = {}]_vars

\* The cycle goes on: the thread runs its steps, handlers end (the operator of
\* cf_guiding presses ENTER), and spin_some serves only what was ready.
FairSpec ==
  /\ Spec
  /\ WF_vars(ReadFault \/ ReadFeedback) /\ WF_vars(PollStatus)
  /\ WF_vars(Countdown \/ VerifyRestores \/ VerifyWarns)
  /\ SF_vars(SpinDone)
  /\ WF_vars(ClearFaultsCalled \/ ClearFaultsRefused)
  /\ WF_vars(ClearFaultsGuides \/ ClearFaultsOperational \/ ClearFaultsAnyway)
  /\ WF_vars(ClearFaultsExits)
  /\ WF_vars(ClearFaultsRecovered \/ ClearFaultsGivesUp)
  /\ WF_vars(UpdateDone)
  /\ WF_vars(WriteBlocked \/ WriteSends \/ WriteRejected)

\* Once the arm stays OPERATIONAL, a scheduled deactivation is requested, counted
\* down and verified, even when a rejected command has latched in_fault meanwhile.
RecoveryConcludes ==
  <>[](arm = "OPERATIONAL") =>
    (pending_controller_deactivation ~>
       /\ ~pending_controller_deactivation
       /\ deactivation_verify_countdown = 0
       /\ controllers_to_deactivate = {})

=============================================================================
