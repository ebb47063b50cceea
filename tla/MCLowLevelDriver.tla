--------------------------- MODULE MCLowLevelDriver ---------------------------
(* Small instances of LowLevelDriver for TLC.                               *)
EXTENDS LowLevelDriver

\* The controllers of link6_controllers_low_level.yaml and a second one that commands
\* positions, to which low-level mode can be handed over.
AllClaims == [trajectory |-> {"POS", "VEL"}, cartesian |-> {"POS", "VEL"},
              velocity |-> {"VEL"}, twist |-> {"TWIST"}, gripper |-> {"GRIP"}]

MCClaims == [c \in Controllers |-> AllClaims[c]]
=============================================================================
