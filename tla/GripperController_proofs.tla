---------------------- MODULE GripperController_proofs ----------------------
(***************************************************************************)
(* The arithmetic of a gripper's angles and registers, on every scale.      *)
(***************************************************************************)
EXTENDS GripperController, TLAPS

LEMMA MaxAngleNat == max_angle \in Nat
BY ScaleAssumption DEF max_angle

LEMMA ClampedInRange == ASSUME NEW a \in Int PROVE Clamped(a) \in Angles
BY MaxAngleNat DEF Clamped, Angles

\* Reading a register gives an angle in range.
LEMMA AngleInRange == ASSUME NEW c \in Counts PROVE AngleOf(c) \in Angles
<1>1. c \in Nat /\ c <= MaxCount
  BY ScaleAssumption DEF Counts
<1>2. c * CountSize <= MaxCount * CountSize /\ c * CountSize \in Nat
  BY <1>1, ScaleAssumption
<1>3. QED
  BY <1>2 DEF AngleOf, Angles, max_angle

\* The count an angle is truncated to.
LEMMA TruncatedDef == ASSUME NEW a \in Nat
  PROVE  /\ Truncated(a) \in Nat
         /\ Truncated(a) * CountSize <= a
         /\ a < (Truncated(a) + 1) * CountSize
BY ScaleAssumption, Z3 DEF Truncated

LEMMA TruncatedInRange == ASSUME NEW a \in Angles PROVE Truncated(a) \in Counts
<1>1. a \in Nat /\ a <= MaxCount * CountSize
  BY MaxAngleNat DEF Angles, max_angle
<1>2. Truncated(a) \in Nat /\ Truncated(a) * CountSize <= a
  BY <1>1, TruncatedDef
<1>3. Truncated(a) <= MaxCount
  <2>1. SUFFICES ASSUME Truncated(a) >= MaxCount + 1
                 PROVE  FALSE
    BY <1>2, ScaleAssumption
  <2>2. Truncated(a) * CountSize >= (MaxCount + 1) * CountSize
    BY <1>2, <2>1, ScaleAssumption
  <2>3. (MaxCount + 1) * CountSize = MaxCount * CountSize + CountSize
    BY ScaleAssumption
  <2>4. MaxCount * CountSize \in Nat /\ Truncated(a) * CountSize \in Nat
    BY <1>2, ScaleAssumption
  <2>5. QED
    BY <1>1, <1>2, <2>2, <2>3, <2>4, ScaleAssumption
<1>4. QED
  BY <1>2, <1>3, ScaleAssumption DEF Counts

\* Sending an angle in range gives a register that exists, rounding included.
LEMMA CountInRange == ASSUME NEW a \in Angles PROVE CountOf(a) \in Counts
<1>1. Truncated(a) \in Counts
  BY TruncatedInRange
<1>2. CASE Truncated(a) \in Lossy
  BY <1>1, <1>2, ScaleAssumption DEF CountOf, Counts
<1>3. QED
  BY <1>1, <1>2 DEF CountOf

\* A position that is read and sent back stays within the one count rounding costs.
THEOREM RoundTrip ==
  ASSUME NEW c \in Counts PROVE CountOf(Clamped(AngleOf(c))) \in {c, c - 1}
<1>1. c \in Nat /\ AngleOf(c) \in Nat /\ Clamped(AngleOf(c)) = AngleOf(c)
  BY AngleInRange, MaxAngleNat, ScaleAssumption DEF Clamped, Angles, Counts
<1> DEFINE t == Truncated(AngleOf(c))
<1>2. t \in Nat /\ t * CountSize <= c * CountSize /\ c * CountSize < (t + 1) * CountSize
  BY <1>1, TruncatedDef DEF AngleOf
<1>3. t = c
  <2>1. CASE t > c
    <3>1. t * CountSize >= (c + 1) * CountSize
      BY <1>1, <1>2, <2>1, ScaleAssumption
    <3>2. (c + 1) * CountSize = c * CountSize + CountSize
      BY <1>1, ScaleAssumption
    <3>3. QED
      BY <1>1, <1>2, <3>1, <3>2, ScaleAssumption
  <2>2. CASE t < c
    <3>1. c * CountSize >= (t + 1) * CountSize
      BY <1>1, <1>2, <2>2, ScaleAssumption
    <3>2. QED
      BY <1>1, <1>2, <3>1, ScaleAssumption
  <2>3. QED
    BY <1>1, <1>2, <2>1, <2>2
<1>4. QED
  BY <1>1, <1>3 DEF CountOf

\* Angles that differ by less than the tolerance are truncated to the same count or to
\* neighbours; and if to neighbours, the lower one is not at the very beginning of its count.
LEMMA TruncatedClose ==
  ASSUME NEW a \in Nat, NEW b \in Nat, a - b < Tolerance, b - a < Tolerance
  PROVE  /\ Truncated(a) <= Truncated(b) + 1
         /\ Truncated(a) = Truncated(b) + 1 => b # AngleOf(Truncated(b))
<1> DEFINE s == Truncated(a)
           t == Truncated(b)
<1>1. /\ s \in Nat /\ s * CountSize <= a
      /\ t \in Nat /\ b < (t + 1) * CountSize
  BY TruncatedDef
<1>2. a < b + CountSize
  BY ScaleAssumption
<1>3. s <= t + 1
  <2>1. SUFFICES ASSUME s >= t + 2
                 PROVE  FALSE
    BY <1>1
  <2>2. s * CountSize >= (t + 2) * CountSize
    BY <1>1, <2>1, ScaleAssumption
  <2>3. (t + 2) * CountSize = (t + 1) * CountSize + CountSize
    BY <1>1, ScaleAssumption
  <2>4. /\ s * CountSize \in Nat /\ (t + 1) * CountSize \in Nat
        /\ (t + 2) * CountSize \in Nat
    BY <1>1, ScaleAssumption
  <2>5. QED
    BY <1>1, <1>2, <2>2, <2>3, <2>4, ScaleAssumption
<1>4. ASSUME s = t + 1, b = AngleOf(t)
      PROVE  FALSE
  <2>1. s * CountSize = t * CountSize + CountSize
    BY <1>1, <1>4, ScaleAssumption
  <2>2. t * CountSize = b
    BY <1>4 DEF AngleOf
  <2>3. QED
    BY <1>1, <1>2, <2>1, <2>2, ScaleAssumption
<1>5. QED
  BY <1>3, <1>4

\* A change too small to be sent is at most a count, the loss of rounding included.
LEMMA CountsClose ==
  ASSUME NEW a \in Angles, NEW b \in Angles, a - b < Tolerance, b - a < Tolerance
  PROVE  CountOf(a) - CountOf(b) \in {-1, 0, 1}
<1>1. a \in Nat /\ b \in Nat
  BY DEF Angles
<1> DEFINE s == Truncated(a)
           t == Truncated(b)
<1>2. s \in Nat /\ t \in Nat
  BY <1>1, TruncatedDef
<1>3. /\ s <= t + 1 /\ (s = t + 1 => b # AngleOf(t))
      /\ t <= s + 1 /\ (t = s + 1 => a # AngleOf(s))
  BY <1>1, TruncatedClose
<1>4. /\ CountOf(a) \in {s, s - 1} /\ (a # AngleOf(s) => CountOf(a) = s)
      /\ CountOf(b) \in {t, t - 1} /\ (b # AngleOf(t) => CountOf(b) = t)
  BY DEF CountOf
<1> HIDE DEF s, t
<1>5. QED
  BY <1>2, <1>3, <1>4
=============================================================================
