------------------------- MODULE HighLevelLifecycle -------------------------
(***************************************************************************)
(* The high-level driver from on_init to on_deactivate and back: the        *)
(* sessions it opens and closes, the node that on_init creates, and its     *)
(* grippers, which it serves in its own cycle, without a thread of their    *)
(* own.  Everything runs on the controller manager's thread; the grippers   *)
(* move, fall silent and answer again at any time.  What the cycle does     *)
(* with the arm is in HighLevelDriver; here write() is blocked or not.      *)
(***************************************************************************)
EXTENDS GripperController

CONSTANTS
  NumGrippers,  \* 1 is gripper A, 2 is gripper B
  Wanted,       \* the angles the controllers command, also out of range
  RobotJoints,  \* the numbers of actuators a robot may report
  MayFail,      \* what may fail in this instance
  MaxActivations

\* A step of on_activate, the closing of a session, a socket or a gripper's connection,
\* SelectOperatingMode with the library's exception or with another one, a call in the
\* cycle, a gripper.
ASSUME LifecycleAssumption ==
  /\ NumGrippers \in Nat /\ Wanted \subseteq Int /\ RobotJoints \subseteq Nat
  /\ MayFail \subseteq {"activate", "close", "select", "foreign", "cycle", "gripper"}
  /\ MaxActivations \in Nat \ {0}

Grippers == 1 .. NumGrippers

\* The vectors of joint values are given the default size in on_init.
VectorSize == 6

\* session_mqtt_, transport_udp_feedback_ and session_udp_.
Links == {"mqtt", "transport", "udp"}

VARIABLES
  cm,        \* where the manager's thread is: "inactive"; in on_activate "mqtt", "power",
             \* "udp", "auto", "gripper"; in the cycle "read", "feedback", "spin", "update",
             \* "write", "send"; in on_deactivate "stop", "close_udp", "close_mqtt",
             \* "shutdown", "reset"; "failed" after an ERROR; "crashed" or "finalized"
  cm_at,     \* the gripper it is at
  active,    \* on_activate has succeeded
  node,      \* node_ptr_ and the services exist
  activations

VARIABLES
  handle,    \* by link, the activation that made the object the pointer holds, 0 if null
  base_mqtt, \* base_mqtt_ is not null
  open,      \* the links that are open, with the activation that opened them
  mode,      \* the operating mode of the robot
  actuator_count  \* actuator_count_

\* The fields of the GripperControllers, by gripper.
VARIABLES
  initialized, position, last_cmd,  \* initialized_, position_, last_cmd_pos_
  command_position,                 \* command_position_
  poll_due, send_due,               \* next_poll_, next_send_ are over
  connected                         \* the Modbus connection is open

VARIABLES
  goal, actual,  \* the position registers the gripper was told and reports
  answers,       \* the gripper answers on the bus
  gate           \* the guards of write() and ExecuteAction let a cycle pass

\* History variables.
VARIABLES
  unclosed,   \* links whose closing was tried and failed
  unstopped,  \* the robot rejected MONITORED_STOP
  unshut,     \* grippers at which closing failed or was left, in the latest on_deactivate
  commanded,  \* a controller has commanded the gripper in this activation
  start       \* where the gripper was when it was activated

lifeVars == <<active, node, activations>>
linkVars == <<handle, base_mqtt, open, mode, actuator_count>>
controllerVars == <<initialized, position, last_cmd, command_position, poll_due, send_due,
                    connected>>
worldVars == <<goal, actual, answers>>
closeVars == <<unclosed, unstopped, unshut>>
startVars == <<commanded, start>>
vars == <<cm, cm_at, lifeVars, linkVars, controllerVars, worldVars, gate, closeVars, startVars>>

TypeLife ==
  /\ cm \in {"inactive", "mqtt", "power", "udp", "auto", "gripper", "read", "feedback", "spin",
             "update", "write", "send", "stop", "close_udp", "close_mqtt", "shutdown", "reset",
             "failed", "crashed", "finalized"}
  /\ cm_at \in 1 .. NumGrippers + 1
  /\ active \in BOOLEAN /\ node \in BOOLEAN
  /\ activations \in 0 .. MaxActivations
  /\ handle \in [Links -> 0 .. MaxActivations]
  /\ base_mqtt \in BOOLEAN
  /\ open \in SUBSET (Links \X (1 .. MaxActivations))
  /\ unclosed \in SUBSET (Links \X (1 .. MaxActivations))
  /\ mode \in {"AUTO", "MONITORED_STOP"} /\ unstopped \in BOOLEAN
  /\ unshut \in SUBSET Grippers
  /\ actuator_count \in RobotJoints \cup {VectorSize}
  /\ gate \in BOOLEAN

TypeGrippers ==
  /\ initialized \in [Grippers -> BOOLEAN]
  /\ position \in [Grippers -> Angles \cup {NaN}]
  /\ last_cmd \in [Grippers -> Angles \cup {NaN}]
  /\ command_position \in [Grippers -> Wanted \cup Angles \cup {NaN}]
  /\ poll_due \in [Grippers -> BOOLEAN]
  /\ send_due \in [Grippers -> BOOLEAN]
  /\ connected \in [Grippers -> BOOLEAN]
  /\ goal \in [Grippers -> Counts]
  /\ actual \in [Grippers -> Counts]
  /\ answers \in [Grippers -> BOOLEAN]
  /\ commanded \in [Grippers -> BOOLEAN]
  /\ start \in [Grippers -> Counts]

TypeOK == TypeLife /\ TypeGrippers

-----------------------------------------------------------------------------

\* on_init and on_configure have succeeded.
Init ==
  /\ cm = "inactive" /\ cm_at = 1
  /\ active = FALSE /\ node = TRUE /\ activations = 0
  /\ handle = [l \in Links |-> 0]
  /\ base_mqtt = FALSE
  /\ open = {}
  /\ mode \in {"AUTO", "MONITORED_STOP"}
  /\ actuator_count = VectorSize
  /\ initialized = [g \in Grippers |-> FALSE]
  /\ position = [g \in Grippers |-> NaN]
  /\ last_cmd = [g \in Grippers |-> NaN]
  /\ command_position = [g \in Grippers |-> NaN]
  /\ poll_due = [g \in Grippers |-> TRUE]
  /\ send_due = [g \in Grippers |-> TRUE]
  /\ connected = [g \in Grippers |-> FALSE]
  /\ goal \in [Grippers -> Counts]
  /\ actual = goal
  /\ answers = [g \in Grippers |-> TRUE]
  /\ gate = FALSE
  /\ unclosed = {} /\ unstopped = FALSE /\ unshut = {}
  /\ commanded = [g \in Grippers |-> FALSE]
  /\ start = goal

-----------------------------------------------------------------------------
(* on_activate                                                              *)

gripperUnchanged == UNCHANGED <<controllerVars, worldVars, startVars>>

Activate ==
  /\ cm = "inactive"
  /\ activations < MaxActivations
  /\ activations' = activations + 1
  /\ cm' = "mqtt"
  /\ commanded' = [g \in Grippers |-> FALSE]
  /\ UNCHANGED <<cm_at, active, node, linkVars, controllerVars, worldVars, gate, closeVars, start>>

\* The object a pointer held before is destroyed, a socket with it.
Made(l) == [handle EXCEPT ![l] = activations]
WithoutOldSocket == open \ {<<"transport", handle["transport"]>>}

OpenMqtt ==
  /\ cm = "mqtt"
  /\ handle' = Made("mqtt")
  /\ open' = open \cup {<<"mqtt", activations>>}
  /\ base_mqtt' = TRUE
  /\ cm' = "power"
  /\ UNCHANGED <<cm_at, lifeVars, mode, actuator_count, gate, closeVars>>
  /\ gripperUnchanged

\* The broker cannot be reached, or CreateSession throws.
OpenMqttFails ==
  /\ cm = "mqtt"
  /\ "activate" \in MayFail
  /\ handle' \in {handle, Made("mqtt")}
  /\ cm' = "failed"
  /\ UNCHANGED <<cm_at, lifeVars, base_mqtt, open, mode, actuator_count, gate, closeVars>>
  /\ gripperUnchanged

\* check_and_power_on_robot finds the arm operational, or waits for it up to 60 s.
PowerOn ==
  /\ cm = "power"
  /\ cm' = "udp"
  /\ UNCHANGED <<cm_at, lifeVars, linkVars, gate, closeVars>>
  /\ gripperUnchanged

\* In fault, too slow, or a call that throws.
PowerOnFails ==
  /\ cm = "power"
  /\ "activate" \in MayFail
  /\ cm' = "failed"
  /\ UNCHANGED <<cm_at, lifeVars, linkVars, gate, closeVars>>
  /\ gripperUnchanged

OpenUdp ==
  /\ cm = "udp"
  /\ handle' = [Made("udp") EXCEPT !["transport"] = activations]
  /\ open' = WithoutOldSocket \cup {<<"transport", activations>>, <<"udp", activations>>}
  /\ cm' = "auto"
  /\ UNCHANGED <<cm_at, lifeVars, base_mqtt, mode, actuator_count, gate, closeVars>>
  /\ gripperUnchanged

\* connect throws, or CreateSession does.
OpenUdpFails ==
  /\ cm = "udp"
  /\ "activate" \in MayFail
  /\ \/ /\ handle' = Made("transport")
        /\ open' = WithoutOldSocket
     \/ /\ handle' = [Made("udp") EXCEPT !["transport"] = activations]
        /\ open' = WithoutOldSocket \cup {<<"transport", activations>>}
  /\ cm' = "failed"
  /\ UNCHANGED <<cm_at, lifeVars, base_mqtt, mode, actuator_count, gate, closeVars>>
  /\ gripperUnchanged

\* The robot's number of actuators is taken over, and AUTO selected.
SelectAuto ==
  /\ cm = "auto"
  /\ actuator_count' \in RobotJoints
  /\ \/ mode' = "AUTO"
     \/ "select" \in MayFail /\ mode' = mode
  /\ cm' = "gripper" /\ cm_at' = 1
  /\ UNCHANGED <<lifeVars, handle, base_mqtt, open, gate, closeVars>>
  /\ gripperUnchanged

SelectAutoFails ==
  /\ cm = "auto"
  /\ \/ "activate" \in MayFail /\ actuator_count' = actuator_count
     \/ "foreign" \in MayFail /\ actuator_count' \in RobotJoints
  /\ cm' = "failed"
  /\ UNCHANGED <<cm_at, lifeVars, handle, base_mqtt, open, mode, gate, closeVars>>
  /\ gripperUnchanged

-----------------------------------------------------------------------------
(* The grippers.                                                            *)

Redundant(g, angle) == TooSmall(Clamped(angle), last_cmd[g])

\* Where the two requests of sendCommand, one that clears the go-to and one with the
\* position, can leave a gripper that does not answer both: with the first alone it halts.
Unanswered(g) == {goal[g]} \cup (IF connected[g] THEN {actual[g]} ELSE {})

\* What sendCommand does with an angle it does not skip.  The results are ignored.
Sends(g, angle, online) ==
  /\ \E told \in IF online THEN {CountOf(Clamped(angle))} ELSE Unanswered(g) :
       goal' = [goal EXCEPT ![g] = told]
  /\ last_cmd' = [last_cmd EXCEPT ![g] = Clamped(angle)]
  /\ send_due' = [send_due EXCEPT ![g] = FALSE]

\* A command seeded from the cached position.
SeedCached(g) == position[g]

\* The command an activation starts from: where the gripper is.
Seed(g) == AngleOf(actual[g])

\* initialize() freezes and activates the gripper, readPosition reads it, and the first
\* command is sent unless it is the last of an earlier activation.  It is remembered as
\* sent even where its requests are lost and the gripper stays frozen.
StartGripper ==
  /\ cm = "gripper" /\ cm_at <= NumGrippers
  /\ answers[cm_at]
  /\ LET g == cm_at
         frozen == [goal EXCEPT ![g] = actual[g]]
         skipped == Redundant(g, Seed(g))
     IN /\ initialized' = [initialized EXCEPT ![g] = TRUE]
        /\ connected' = [connected EXCEPT ![g] = TRUE]
        /\ position' = [position EXCEPT ![g] = AngleOf(actual[g])]
        /\ poll_due' = [poll_due EXCEPT ![g] = FALSE]
        /\ command_position' = [command_position EXCEPT ![g] = Seed(g)]
        /\ last_cmd' = IF skipped THEN last_cmd ELSE [last_cmd EXCEPT ![g] = Clamped(Seed(g))]
        /\ send_due' = [send_due EXCEPT ![g] = skipped]
        /\ \/ ~skipped /\ goal' = [goal EXCEPT ![g] = CountOf(Clamped(Seed(g)))]
           \/ (skipped \/ "gripper" \in MayFail) /\ goal' = frozen
        /\ start' = [start EXCEPT ![g] = actual[g]]
  /\ cm_at' = cm_at + 1
  /\ UNCHANGED <<cm, lifeVars, linkVars, actual, answers, gate, closeVars, commanded>>

\* No connection, no activation within ten seconds, or no first reading: ERROR.
StartGripperFails ==
  /\ cm = "gripper" /\ cm_at <= NumGrippers
  /\ "gripper" \in MayFail
  /\ \E connects \in BOOLEAN, stays \in BOOLEAN :
       /\ initialized' = [initialized EXCEPT ![cm_at] = @ \/ connects]
       /\ connected' = [connected EXCEPT ![cm_at] = connects /\ stays]
       /\ goal' = [goal EXCEPT ![cm_at] = IF connects THEN actual[cm_at] ELSE @]
  /\ poll_due' = [poll_due EXCEPT ![cm_at] = FALSE]
  /\ cm' = "failed"
  /\ UNCHANGED <<cm_at, lifeVars, linkVars, position, last_cmd, command_position, send_due, actual,
                 answers, gate, closeVars, startVars>>

\* on_activate returns SUCCESS.
ActivationEnds ==
  /\ cm = "gripper" /\ cm_at = NumGrippers + 1
  /\ active' = TRUE
  /\ cm' = "read" /\ cm_at' = 1
  /\ UNCHANGED <<node, activations, linkVars, gate, closeVars>>
  /\ gripperUnchanged

-----------------------------------------------------------------------------
(* The cycle.                                                               *)

\* readPosition returns the cached position.
ReadCached ==
  /\ cm = "read" /\ cm_at <= NumGrippers
  /\ ~poll_due[cm_at]
  /\ cm_at' = cm_at + 1
  /\ UNCHANGED <<cm, lifeVars, linkVars, controllerVars, worldVars, gate, closeVars, startVars>>

\* A reading that is not tried again over a new connection.
ReadGripperOnce ==
  /\ cm = "read" /\ cm_at <= NumGrippers
  /\ poll_due[cm_at]
  /\ poll_due' = [poll_due EXCEPT ![cm_at] = FALSE]
  /\ IF answers[cm_at] /\ connected[cm_at]
     THEN /\ position' = [position EXCEPT ![cm_at] = AngleOf(actual[cm_at])]
          /\ connected' = connected
     ELSE /\ connected' = [connected EXCEPT ![cm_at] = FALSE]
          /\ position' = position
  /\ cm_at' = cm_at + 1
  /\ UNCHANGED <<cm, lifeVars, linkVars, initialized, last_cmd, command_position, send_due,
                 worldVars, gate, closeVars, startVars>>

\* readPosition reads, and once more after closing and opening the connection.
ReadGripper ==
  /\ cm = "read" /\ cm_at <= NumGrippers
  /\ poll_due[cm_at]
  /\ poll_due' = [poll_due EXCEPT ![cm_at] = FALSE]
  /\ IF answers[cm_at]
     THEN /\ position' = [position EXCEPT ![cm_at] = AngleOf(actual[cm_at])]
          /\ connected' = [connected EXCEPT ![cm_at] = TRUE]
     ELSE /\ \E reconnects \in BOOLEAN : connected' = [connected EXCEPT ![cm_at] = reconnects]
          /\ position' = position
  /\ cm_at' = cm_at + 1
  /\ UNCHANGED <<cm, lifeVars, linkVars, initialized, last_cmd, command_position, send_due,
                 worldVars, gate, closeVars, startVars>>

GrippersRead ==
  /\ cm = "read" /\ cm_at = NumGrippers + 1
  /\ cm' = "feedback"
  /\ UNCHANGED <<cm_at, lifeVars, linkVars, gate, closeVars>>
  /\ gripperUnchanged

\* The rest of read() up to spin_some, in fault or not.
Feedback ==
  /\ cm = "feedback"
  /\ gate' \in BOOLEAN
  /\ cm' = "spin"
  /\ UNCHANGED <<cm_at, lifeVars, linkVars, closeVars>>
  /\ gripperUnchanged

\* read() or write() returns ERROR or throws: the manager finalizes the hardware, a
\* program under test/ deactivates it if it catches an exception.
CycleFails ==
  /\ cm \in {"feedback", "write"}
  /\ "cycle" \in MayFail
  /\ active' = FALSE
  /\ cm' = "failed"
  /\ UNCHANGED <<cm_at, node, activations, linkVars, gate, closeVars>>
  /\ gripperUnchanged

Spin ==
  /\ cm = "spin"
  /\ node
  /\ cm' = "update"
  /\ UNCHANGED <<cm_at, lifeVars, linkVars, gate, closeVars>>
  /\ gripperUnchanged

\* spin_some of a null node.
SpinCrashes ==
  /\ cm = "spin"
  /\ ~node
  /\ cm' = "crashed"
  /\ UNCHANGED <<cm_at, lifeVars, linkVars, gate, closeVars>>
  /\ gripperUnchanged

Command(g, angle) ==
  /\ cm = "update"
  /\ command_position' = [command_position EXCEPT ![g] = angle]
  /\ commanded' = [commanded EXCEPT ![g] = TRUE]
  /\ UNCHANGED <<cm, cm_at, lifeVars, linkVars, initialized, position, last_cmd, poll_due, send_due,
                 connected, worldVars, gate, closeVars, start>>

UpdateDone ==
  /\ cm = "update"
  /\ cm' = "write"
  /\ UNCHANGED <<cm_at, lifeVars, linkVars, gate, closeVars>>
  /\ gripperUnchanged

\* In fault, not in AUTO, a program runs, or the velocity command is rejected: the
\* grippers are not commanded either.
WriteBlocked ==
  /\ cm = "write"
  /\ ~gate
  /\ cm' = "read" /\ cm_at' = 1
  /\ UNCHANGED <<lifeVars, linkVars, gate, closeVars>>
  /\ gripperUnchanged

WriteSends ==
  /\ cm = "write"
  /\ gate
  /\ cm' = "send" /\ cm_at' = 1
  /\ UNCHANGED <<lifeVars, linkVars, gate, closeVars>>
  /\ gripperUnchanged

SendSkips ==
  /\ cm = "send" /\ cm_at <= NumGrippers
  /\ \/ ~send_due[cm_at]
     \/ Redundant(cm_at, command_position[cm_at])
     \/ ~initialized[cm_at]
  /\ cm_at' = cm_at + 1
  /\ UNCHANGED <<cm, lifeVars, linkVars, controllerVars, worldVars, gate, closeVars, startVars>>

\* A command that is remembered and not sent while the gripper is moving.
SendGripperBusy ==
  /\ cm = "send" /\ cm_at <= NumGrippers
  /\ send_due[cm_at] /\ initialized[cm_at]
  /\ ~Redundant(cm_at, command_position[cm_at])
  /\ Sends(cm_at, command_position[cm_at], actual[cm_at] = goal[cm_at])
  /\ cm_at' = cm_at + 1
  /\ UNCHANGED <<cm, lifeVars, linkVars, initialized, position, command_position, poll_due,
                 connected, actual, answers, gate, closeVars, startVars>>

SendGripper ==
  /\ cm = "send" /\ cm_at <= NumGrippers
  /\ send_due[cm_at] /\ initialized[cm_at]
  /\ ~Redundant(cm_at, command_position[cm_at])
  /\ Sends(cm_at, command_position[cm_at], answers[cm_at] /\ connected[cm_at])
  /\ cm_at' = cm_at + 1
  /\ UNCHANGED <<cm, lifeVars, linkVars, initialized, position, command_position, poll_due,
                 connected, actual, answers, gate, closeVars, startVars>>

GrippersSent ==
  /\ cm = "send" /\ cm_at = NumGrippers + 1
  /\ cm' = "read" /\ cm_at' = 1
  /\ UNCHANGED <<lifeVars, linkVars, gate, closeVars>>
  /\ gripperUnchanged

-----------------------------------------------------------------------------
(* on_deactivate, between two cycles; after an ERROR only from a program    *)
(* that activates the driver once, such as those under test/.               *)

Deactivate ==
  /\ \/ cm = "read" /\ cm_at = 1
     \/ cm = "failed" /\ activations = 1
  /\ cm' = "stop"
  /\ unstopped' = FALSE /\ unshut' = {}
  /\ UNCHANGED <<cm_at, lifeVars, linkVars, gate, unclosed>>
  /\ gripperUnchanged

Stop ==
  /\ cm = "stop"
  /\ IF base_mqtt
     THEN \/ mode' = "MONITORED_STOP" /\ unstopped' = unstopped
          \/ "select" \in MayFail /\ mode' = mode /\ unstopped' = TRUE
     ELSE UNCHANGED <<mode, unstopped>>
  /\ cm' = "close_udp"
  /\ UNCHANGED <<cm_at, lifeVars, handle, base_mqtt, open, actuator_count, gate, unclosed,
                 unshut>>
  /\ gripperUnchanged

\* An exception change_operating_mode does not catch goes to the end of on_deactivate.
StopThrows ==
  /\ cm = "stop"
  /\ base_mqtt /\ "foreign" \in MayFail
  /\ cm' = "reset"
  /\ unstopped' = TRUE
  /\ UNCHANGED <<cm_at, lifeVars, linkVars, gate, unclosed, unshut>>
  /\ gripperUnchanged

\* A socket that is disconnected only once its session is closed.
CloseInOrder(ls) ==
  LET held == {<<l, handle[l]>> : l \in ls} \cap open
  IN \E failed \in IF "close" \in MayFail THEN SUBSET held ELSE {{}} :
       /\ open' = IF failed = {} THEN open \ held ELSE open
       /\ unclosed' = unclosed \cup failed

\* What the pointers in ls hold is closed; where that throws, it is logged.
Close(ls) ==
  LET held == {<<l, handle[l]>> : l \in ls} \cap open
  IN \E failed \in IF "close" \in MayFail THEN SUBSET held ELSE {{}} :
       /\ open' = open \ (held \ failed)
       /\ unclosed' = unclosed \cup failed

CloseUdp ==
  /\ cm = "close_udp"
  /\ Close({"udp", "transport"})
  /\ cm' = "close_mqtt"
  /\ UNCHANGED <<cm_at, lifeVars, handle, base_mqtt, mode, actuator_count, gate, unstopped,
                 unshut>>
  /\ gripperUnchanged

CloseMqtt ==
  /\ cm = "close_mqtt"
  /\ Close({"mqtt"})
  /\ cm' = "shutdown" /\ cm_at' = 1
  /\ UNCHANGED <<lifeVars, handle, base_mqtt, mode, actuator_count, gate, unstopped, unshut>>
  /\ gripperUnchanged

\* shutdown() of one gripper, after the session it is reached through has been closed: the
\* result of CloseConnection is not looked at.
Shutdown ==
  /\ cm = "shutdown" /\ cm_at <= NumGrippers
  /\ initialized' = [initialized EXCEPT ![cm_at] = FALSE]
  /\ \/ connected' = [connected EXCEPT ![cm_at] = FALSE] /\ UNCHANGED unshut
     \/ /\ "close" \in MayFail /\ connected[cm_at]
        /\ connected' = connected /\ unshut' = unshut \cup {cm_at}
  /\ cm_at' = cm_at + 1
  /\ UNCHANGED <<cm, lifeVars, linkVars, position, last_cmd, command_position, poll_due, send_due,
                 worldVars, gate, unclosed, unstopped, startVars>>

\* CloseConnection throws, or before the first the router does: this gripper keeps its flag,
\* and those after it are not reached.
ShutdownThrows ==
  /\ cm = "shutdown" /\ cm_at <= NumGrippers
  /\ "close" \in MayFail
  /\ initialized[cm_at] \/ (cm_at = 1 /\ handle["mqtt"] # 0)
  /\ connected' \in {connected, [connected EXCEPT ![cm_at] = FALSE]}
  /\ unshut' = unshut \cup {cm_at}
  /\ cm' = "reset"
  /\ UNCHANGED <<cm_at, lifeVars, linkVars, initialized, position, last_cmd, command_position,
                 poll_due, send_due, worldVars, gate, unclosed, unstopped, startVars>>

ShutdownEnds ==
  /\ cm = "shutdown" /\ cm_at = NumGrippers + 1
  /\ cm' = "reset"
  /\ UNCHANGED <<cm_at, lifeVars, linkVars, gate, closeVars>>
  /\ gripperUnchanged

\* The services and the node are dropped.
Reset ==
  /\ cm = "reset"
  /\ node' = FALSE
  /\ active' = FALSE
  /\ cm' = IF active THEN "inactive" ELSE "finalized"
  /\ cm_at' = 1
  /\ UNCHANGED <<activations, linkVars, gate, closeVars>>
  /\ gripperUnchanged

-----------------------------------------------------------------------------
(* Time and the grippers.                                                   *)

PollDue(g) ==
  /\ ~poll_due[g]
  /\ poll_due' = [poll_due EXCEPT ![g] = TRUE]
  /\ UNCHANGED <<cm, cm_at, lifeVars, linkVars, initialized, position, last_cmd, command_position,
                 send_due, connected, worldVars, gate, closeVars, startVars>>

SendDue(g) ==
  /\ ~send_due[g]
  /\ send_due' = [send_due EXCEPT ![g] = TRUE]
  /\ UNCHANGED <<cm, cm_at, lifeVars, linkVars, initialized, position, last_cmd, command_position,
                 poll_due, connected, worldVars, gate, closeVars, startVars>>

driverUnchanged == UNCHANGED <<cm, cm_at, lifeVars, linkVars, controllerVars, gate, closeVars,
                               startVars>>

GripperMoves(g) ==
  /\ actual[g] # goal[g]
  /\ actual' = [actual EXCEPT ![g] = goal[g]]
  /\ UNCHANGED <<goal, answers>>
  /\ driverUnchanged

GripperFalters(g) ==
  /\ "gripper" \in MayFail
  /\ answers' = [answers EXCEPT ![g] = ~@]
  /\ UNCHANGED <<goal, actual>>
  /\ driverUnchanged

-----------------------------------------------------------------------------

OnActivate ==
  \/ Activate \/ OpenMqtt \/ OpenMqttFails \/ PowerOn \/ PowerOnFails \/ OpenUdp \/ OpenUdpFails
  \/ SelectAuto \/ SelectAutoFails \/ StartGripper \/ StartGripperFails \/ ActivationEnds

Cycle ==
  \/ ReadCached \/ ReadGripper \/ GrippersRead \/ Feedback \/ Spin \/ SpinCrashes
  \/ WriteBlocked \/ WriteSends \/ SendSkips \/ SendGripper \/ GrippersSent

OnDeactivate ==
  \/ Deactivate \/ Stop \/ StopThrows \/ CloseUdp \/ CloseMqtt
  \/ Shutdown \/ ShutdownThrows \/ ShutdownEnds \/ Reset

World ==
  \E g \in Grippers : PollDue(g) \/ SendDue(g) \/ GripperMoves(g) \/ GripperFalters(g)

Next ==
  \/ OnActivate \/ Cycle \/ CycleFails \/ UpdateDone \/ OnDeactivate \/ World
  \/ \E g \in Grippers, angle \in Wanted : Command(g, angle)

Spec == Init /\ [][Next]_vars

\* The manager repeats its cycle and time passes.
FairSpec ==
  /\ Spec
  /\ WF_vars(Cycle) /\ WF_vars(UpdateDone)
  /\ \A g \in Grippers : WF_vars(PollDue(g)) /\ WF_vars(SendDue(g))

-----------------------------------------------------------------------------
(* Properties.                                                              *)

\* "Gracefully shut down the robot and network connections in order."  After
\* on_deactivate, whatever on_activate got done before it, the robot is stopped if the
\* driver could talk to it and it did not refuse, the only links left open are those
\* whose closing was tried and failed, and a gripper is left in use only if its closing, or
\* that of a gripper before it, failed or was left by an exception.
DeactivationIsClean ==
  cm \in {"inactive", "finalized"} =>
    /\ base_mqtt => mode = "MONITORED_STOP" \/ unstopped
    /\ open \subseteq unclosed
    /\ \A g \in Grippers : initialized[g] \/ connected[g] => \E h \in unshut : h <= g

\* "so the gripper holds its position on startup instead of jerking": until a controller
\* commands it, a gripper is not sent further than the one count that is lost in rounding.
HoldsOnStartup ==
  active => \A g \in Grippers : commanded[g] \/ goal[g] \in {start[g], start[g] - 1}

InCycle == cm \in {"read", "feedback", "spin", "update", "write", "send"}

\* However often the connection broke, once the gripper answers for good and rests, the
\* position shown is where it is.
PositionCatchesUp ==
  \A g \in Grippers :
    (/\ <>[](InCycle /\ answers[g])
     /\ <>[][FALSE]_(actual[g]))
      => <>[](position[g] = AngleOf(actual[g]))

\* With a gripper that always answered, nothing but the guards of write() and a link
\* that fails keeps its last command from it.
GripperFollows ==
  \A g \in Grippers :
    (/\ [](answers[g])
     /\ <>[](InCycle /\ gate)
     /\ <>[][FALSE]_(command_position[g]))
      => <>[](goal[g] - CountOf(Clamped(command_position[g])) \in {-1, 0, 1})

\* "Process any pending ROS callbacks": there is a node to spin whenever a cycle runs, in a
\* second activation too.
ServesCallbacks == cm = "spin" => node

\* "Using robot's count": the loops over the robot's actuators stay in their vectors.
VectorsHoldJoints == InCycle => actuator_count <= VectorSize
=============================================================================
