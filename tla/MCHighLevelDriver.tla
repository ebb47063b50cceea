-------------------------- MODULE MCHighLevelDriver --------------------------
(* Small instances of HighLevelDriver for TLC.                              *)
EXTENDS HighLevelDriver, FiniteSets

\* One controller both lists know and the one only the recovery list knows.
MCMotion == {"joint_velocity_controller", "joint_trajectory_controller"}
MCUnsafe == {"joint_velocity_controller"}

\* How many switch requests may be on their way at once.
MaxRequests == 2
FewRequests == Cardinality(requests) <= MaxRequests
=============================================================================
