-------------------------- MODULE GripperController --------------------------
(***************************************************************************)
(* What GripperController computes, in either driver.  Angles are integers  *)
(* in a unit well below one count of the gripper's position register:       *)
(* CountSize units to a count, MaxCount counts (255) from open to closed,   *)
(* and Tolerance units for the 0.0001 rad below which a command is not      *)
(* sent again.  Angles are doubles in the code: that of a count in Lossy    *)
(* comes back one count lower when it is converted to a count again (14 of  *)
(* the 256 counts when fully closed is 0.8 rad, 20 at 0.7, never the ends). *)
(***************************************************************************)
EXTENDS Integers

CONSTANTS MaxCount, CountSize, Tolerance, Lossy

\* The tolerance is finer than a count: 0.0001 rad against 0.0027 (0.7 / 255).
ASSUME ScaleAssumption ==
  /\ MaxCount \in Nat \ {0} /\ CountSize \in Nat \ {0} /\ Tolerance \in Nat \ {0}
  /\ Tolerance <= CountSize
  /\ Lossy \subseteq 1 .. MaxCount - 1

max_angle == MaxCount * CountSize

Angles == 0 .. max_angle
Counts == 0 .. MaxCount

\* No angle yet: the NaN of last_cmd_pos_ and of the command interfaces.
NaN == 0 - 1

\* A limit that is only kept below.
ClampedBelow(a) == IF a < 0 THEN 0 ELSE a

Clamped(a) == IF a < 0 THEN 0 ELSE IF a > max_angle THEN max_angle ELSE a

\* The angle a position register is read as, and the register an angle is sent to.
AngleOf(c) == c * CountSize

Truncated(a) == a \div CountSize

CountOf(a) ==
  LET c == Truncated(a)
  IN IF a = AngleOf(c) /\ c \in Lossy THEN c - 1 ELSE c

\* A command that is not worth a request, given the last one that was sent.
TooSmall(a, last) == last # NaN /\ a - last < Tolerance /\ last - a < Tolerance
=============================================================================
