------------------------ MODULE MCHighLevelLifecycle ------------------------
(* Instances of HighLevelLifecycle for TLC.                                 *)
EXTENDS HighLevelLifecycle

\* Fully open and one unit further, and more than fully closed.
MCWanted == {0, 1, max_angle + 1}
=============================================================================
