---------------------------- MODULE MCGripperBus ----------------------------
(* Instances of GripperBus for TLC: angles to command, one of them out of range. *)
EXTENDS GripperBus

\* Fully open and one unit further, and more than fully closed.
MCWanted == {0, 1, max_angle + 1}
=============================================================================
