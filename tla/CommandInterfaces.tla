-------------------------- MODULE CommandInterfaces --------------------------
(* The command interfaces of the low-level driver, who claims them, and the *)
(* command mode of the arm that a set of them asks for.                     *)

CONSTANTS
  Controllers,  \* the controllers that can be loaded
  Claims        \* the kinds of command interfaces each of them claims

\* The joints' positions and velocities, the twist of the tool, and the gripper's
\* position, which is not one of the arm's.
Interfaces == {"POS", "VEL", "TWIST", "GRIP"}

\* low_level_control_mode, joint_velocity_control_mode and twist_control_mode
CommandModes == {"low_level", "joint_velocity", "twist"}

\* Each controller claims something.  One that commands positions commands the
\* velocities too (as in link6_controllers_low_level.yaml), and none commands both
\* the joints and the twist.
ASSUME ClaimsAssumption ==
  /\ Claims \in [Controllers -> (SUBSET Interfaces) \ {{}}]
  /\ \A c \in Controllers :
       /\ "POS" \in Claims[c] => "VEL" \in Claims[c]
       /\ "TWIST" \in Claims[c] => "VEL" \notin Claims[c]

Claimed(controllers) == UNION {Claims[c] : c \in controllers}

\* Positions take precedence over velocities.
ModesOf(interfaces) ==
  {m \in CommandModes :
     \/ m = "low_level" /\ "POS" \in interfaces
     \/ m = "joint_velocity" /\ "VEL" \in interfaces /\ "POS" \notin interfaces
     \/ m = "twist" /\ "TWIST" \in interfaces}

\* No interface is claimed twice: the controller manager sees to that, joint by joint.  A
\* kind of interface stands for all joints here, for every controller of the arm in the
\* parameter files lists all six (or all six twists): two that share a kind share all of it.
NoConflict(controllers) ==
  \A c, d \in controllers : c # d => Claims[c] \cap Claims[d] = {}
=============================================================================
