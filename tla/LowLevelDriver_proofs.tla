------------------------ MODULE LowLevelDriver_proofs ------------------------
(***************************************************************************)
(* Theorems about LowLevelDriver for every set of controllers, every way   *)
(* they claim the interfaces that ClaimsAssumption admits, and every set   *)
(* of calls the robot may reject.                                          *)
(***************************************************************************)
EXTENDS LowLevelDriver, TLAPS

USE DEF CommandModes, Interfaces, Buffers, Modes, Servoings

-----------------------------------------------------------------------------
(* Types.                                                                   *)

LEMMA ModesOfType == \A s : ModesOf(s) \in SUBSET CommandModes
  BY DEF ModesOf

\* What the robot's own moves and the driver's calls make of a feedback.
LEMMA FeedbackType ==
  ASSUME NEW r \in Feedback
  PROVE  /\ \A m \in Modes : [r EXCEPT !.mode = m] \in Feedback
         /\ [r EXCEPT !.enabled = TRUE] \in Feedback
         /\ [r EXCEPT !.enabled = FALSE,
                      !.mode = IF @ = "JOG_MANUAL" THEN "MONITORED_STOP" ELSE @] \in Feedback
         /\ [r EXCEPT !.fault = ~@] \in Feedback
<1>1. \A m \in Modes : [r EXCEPT !.mode = m] \in Feedback
  BY DEF Feedback
<1>2. [r EXCEPT !.enabled = TRUE] \in Feedback
  BY DEF Feedback
<1>3. [r EXCEPT !.enabled = FALSE,
               !.mode = IF @ = "JOG_MANUAL" THEN "MONITORED_STOP" ELSE @] \in Feedback
  BY DEF Feedback
<1>4. [r EXCEPT !.fault = ~@] \in Feedback
  BY DEF Feedback
<1>5. QED
  BY <1>1, <1>2, <1>3, <1>4

LEMMA LateType ==
  ASSUME TypeOK, NEW r
  PROVE  LateWith(r) \in Nat
  BY DEF LateWith, TypeOK

LEMMA NeutralType ==
  ASSUME NEW s, TypeOK
  PROVE  Neutral(s) \in [Buffers -> SUBSET Controllers]
  BY DEF Neutral, TypeOK

\* Every step of either thread and of the robot keeps the types.
THEOREM TypeCorrect == Spec => []TypeOK
<1>1. Init => TypeOK
  <2>1. [mode |-> "OTHER", enabled |-> FALSE, fault |-> FALSE] \in Feedback
    BY DEF Feedback
  <2>2. Nothing \in [modes : SUBSET CommandModes, by : SUBSET Controllers]
    BY DEF Nothing
  <2>3. NoRequest \in [stop : SUBSET Controllers, start : SUBSET Controllers]
    BY DEF NoRequest
  <2>4. Init => late \in Nat
    BY DEF Init
  <2>5. Init => /\ robot \in Feedback
                /\ buffer \in [Buffers -> SUBSET Controllers]
                /\ arm_mode \in Servoings
    BY DEF Init
  <2>6. QED
    BY <2>1, <2>2, <2>3, <2>4, <2>5 DEF Init, TypeOK
<1>2. TypeOK /\ [Next]_vars => TypeOK'
  <2> SUFFICES ASSUME TypeOK, [Next]_vars
               PROVE  TypeOK'
    OBVIOUS
  <2> USE DEF TypeOK, switchVars, driverVars
  <2>1. CASE Prepare
    <3>1. ASSUME NEW stop \in SUBSET Controllers, NEW start \in SUBSET Controllers,
                 SwitchRequested(stop, start)
          PROVE  TypeOK'
      BY <3>1 DEF SwitchRequested
    <3>2. CASE PrepareAccepts
      BY <3>2, ModesOfType DEF PrepareAccepts, StopFlags, StartFlags
    <3>3. CASE PrepareRejects
      BY <3>3, ModesOfType DEF PrepareRejects, StopFlags, StartFlags, NoRequest
    <3>4. QED
      BY <2>1, <3>1, <3>2, <3>3 DEF Prepare
  <2>2. CASE Read
    BY <2>2, FeedbackType, LateType DEF Read, change_operating_mode
  <2>3. CASE Update
    BY <2>3 DEF Update
  <2>4. CASE NoSwitch
    BY <2>4 DEF NoSwitch
  <2>5. CASE Perform
    <3> USE NeutralType, FeedbackType, LateType
    <3>0. SwitchEnds => /\ switch' \in [stop : SUBSET Controllers, start : SUBSET Controllers]
                        /\ active' \in SUBSET Controllers
      <4>1. NoRequest \in [stop : SUBSET Controllers, start : SUBSET Controllers]
        BY DEF NoRequest
      <4>2. (active \ switch.stop) \cup switch.start \in SUBSET Controllers
        OBVIOUS
      <4>3. QED
        BY <4>1, <4>2 DEF SwitchEnds
    <3>1. CASE PerformHandsOver
      BY <3>1 DEF PerformHandsOver
    <3>2. CASE PerformStops
      BY <3>2 DEF PerformStops, change_operating_mode, set_servoing_mode
    <3>3. CASE PerformStartsNothing
      BY <3>0, <3>3 DEF SwitchEnds, PerformStartsNothing
    <3>4. CASE PerformStartsLowLevel
      BY <3>0, <3>4 DEF SwitchEnds, PerformStartsLowLevel, change_operating_mode, set_servoing_mode
    <3>5. ASSUME NEW m \in {"joint_velocity", "twist"}, PerformStartsJog(m)
          PROVE  TypeOK'
      BY <3>0, <3>5 DEF SwitchEnds, PerformStartsJog, change_operating_mode, set_servoing_mode
    <3>6. QED
      BY <2>5, <3>1, <3>2, <3>3, <3>4, <3>5 DEF Perform
  <2>6. CASE Write
    <3>1. Sending \in SUBSET CommandModes
      BY DEF Sending
    <3>2. \A m \in CommandModes : Uses(m) \in SUBSET Buffers
      BY DEF Uses, InterfaceOf
    <3>3. UNION {Uses(m) : m \in Sending} \in SUBSET Buffers
      BY <3>1, <3>2
    <3>4. UNION {buffer[i] : i \in UNION {Uses(m) : m \in Sending}} \in SUBSET Controllers
      BY <3>3
    <3>5. QED
      BY <2>6, <3>1, <3>4 DEF Write
  <2>7. CASE World
    <3> USE FeedbackType, LateType DEF worldUnchanged
    <3>1. CASE ModeMoves
      BY <3>1, WorldAssumption DEF ModeMoves
    <3>2. CASE EnablingReleased
      BY <3>2 DEF EnablingReleased
    <3>3. CASE EnablingPressed
      BY <3>3 DEF EnablingPressed
    <3>4. CASE FaultMoves
      BY <3>4 DEF FaultMoves
    <3>5. QED
      BY <2>7, <3>1, <3>2, <3>3, <3>4 DEF World
  <2>8. CASE UNCHANGED vars
    BY <2>8 DEF vars
  <2>9. QED
    BY <2>1, <2>2, <2>3, <2>4, <2>5, <2>6, <2>7, <2>8 DEF Next
<1>3. QED
  BY <1>1, <1>2, PTL DEF Spec

-----------------------------------------------------------------------------
(* Switches.                                                                *)

\* The claims of two disjoint sets of controllers of a conflict-free set.
LEMMA ClaimedParts ==
  ASSUME NEW A \in SUBSET Controllers, NEW B \in SUBSET Controllers,
         A \cap B = {}, NoConflict(A \cup B)
  PROVE  /\ Claimed(A \cup B) = Claimed(A) \cup Claimed(B)
         /\ Claimed(A) \cap Claimed(B) = {}
         /\ "POS" \in Claimed(A) => "VEL" \in Claimed(A)
  BY ClaimsAssumption DEF Claimed, NoConflict

LEMMA ModesOfMembers ==
  ASSUME NEW s
  PROVE  /\ ModesOf(s) \subseteq CommandModes
         /\ "low_level" \in ModesOf(s) <=> "POS" \in s
         /\ "joint_velocity" \in ModesOf(s) <=> "VEL" \in s /\ "POS" \notin s
         /\ "twist" \in ModesOf(s) <=> "TWIST" \in s
  BY DEF ModesOf

LEMMA InterfaceOfModes ==
  /\ InterfaceOf["low_level"] = "POS"
  /\ InterfaceOf["joint_velocity"] = "VEL"
  /\ InterfaceOf["twist"] = "TWIST"
  BY DEF InterfaceOf

\* What prepare and perform together do to the modes is what the arbiter asks for.
LEMMA SwitchModes ==
  ASSUME active \in SUBSET Controllers, switch.stop \in SUBSET active,
         switch.start \in SUBSET Controllers,
         (active \ switch.stop) \cap switch.start = {},
         NoConflict(active), NoConflict((active \ switch.stop) \cup switch.start),
         running = ModesOf(Claimed(active)),
         stops = StopFlags, starts = StartFlags, Exclusive(stops, starts)
  PROVE  (IF starts = {} THEN running \ stops ELSE starts)
           = ModesOf(Claimed((active \ switch.stop) \cup switch.start))
<1> DEFINE A == active
           S == switch.stop
           T == switch.start
           K == A \ S
<1>0. /\ A = S \cup K /\ S \cap K = {} /\ NoConflict(S \cup K)
      /\ K \cap T = {} /\ NoConflict(K \cup T)
      /\ S \in SUBSET Controllers /\ K \in SUBSET Controllers /\ T \in SUBSET Controllers
  <2>1. A = S \cup K
    OBVIOUS
  <2>2. QED
    BY <2>1
<1> HIDE DEF A, S, T, K
<1>1. /\ Claimed(A) = Claimed(S) \cup Claimed(K)
      /\ Claimed(S) \cap Claimed(K) = {}
      /\ "POS" \in Claimed(S) => "VEL" \in Claimed(S)
  BY <1>0, ClaimedParts
<1>2. /\ Claimed(K \cup T) = Claimed(K) \cup Claimed(T)
      /\ Claimed(K) \cap Claimed(T) = {}
      /\ "POS" \in Claimed(K) => "VEL" \in Claimed(K)
  BY <1>0, ClaimedParts
<1>3. "POS" \in Claimed(T) => "VEL" \in Claimed(T)
  BY <1>0, ClaimsAssumption DEF Claimed
<1> DEFINE target == ModesOf(Claimed(K \cup T))
           PS == "POS" \in Claimed(S)    VS == "VEL" \in Claimed(S)    TS == "TWIST" \in Claimed(S)
           PK == "POS" \in Claimed(K)    VK == "VEL" \in Claimed(K)    TK == "TWIST" \in Claimed(K)
           PT == "POS" \in Claimed(T)    VT == "VEL" \in Claimed(T)    TT == "TWIST" \in Claimed(T)
<1>4. /\ PS => VS /\ ~PK /\ ~VK
      /\ VS => ~VK
      /\ TS => ~TK
      /\ PK => VK
      /\ PT => VT
      /\ VT => ~VK /\ ~PK
      /\ TT => ~TK
  BY <1>1, <1>2, <1>3
<1>5. /\ running \subseteq CommandModes
      /\ "low_level" \in running <=> PS \/ PK
      /\ "joint_velocity" \in running <=> (VS \/ VK) /\ ~PS /\ ~PK
      /\ "twist" \in running <=> TS \/ TK
  <2>1. running = ModesOf(Claimed(A))
    BY DEF A
  <2>2. QED
    BY <1>1, <2>1, ModesOfMembers
<1>6. /\ "low_level" \in stops <=> PS
      /\ "joint_velocity" \in stops <=> VS /\ ~PS /\ ~PK
      /\ "twist" \in stops <=> TS
  BY <1>5, InterfaceOfModes DEF StopFlags, S
<1>7. /\ starts \subseteq CommandModes
      /\ "low_level" \in starts <=> PT
      /\ "joint_velocity" \in starts <=> VT /\ ~PT
      /\ "twist" \in starts <=> TT
  BY ModesOfMembers DEF StartFlags, T
<1>8. /\ target \subseteq CommandModes
      /\ "low_level" \in target <=> PK \/ PT
      /\ "joint_velocity" \in target <=> (VK \/ VT) /\ ~PK /\ ~PT
      /\ "twist" \in target <=> TK \/ TT
  BY <1>2, ModesOfMembers
<1>9. /\ \A m, n \in starts : m = n
      /\ \A m \in running : starts \ {m} # {} => m \in stops
  BY DEF Exclusive
<1> HIDE DEF target, PS, VS, TS, PK, VK, TK, PT, VT, TT
<1>10. CASE starts = {}
  <2>1. /\ "low_level" \in running \ stops <=> "low_level" \in target
        /\ "joint_velocity" \in running \ stops <=> "joint_velocity" \in target
        /\ "twist" \in running \ stops <=> "twist" \in target
    BY <1>4, <1>5, <1>6, <1>7, <1>8, <1>10
  <2>2. running \ stops = target
    BY <2>1, <1>5, <1>8
  <2>3. QED
    BY <1>10, <2>2 DEF target, K, A, S, T
<1>11. CASE starts # {}
  <2>1. /\ "low_level" \in starts <=> "low_level" \in target
        /\ "joint_velocity" \in starts <=> "joint_velocity" \in target
        /\ "twist" \in starts <=> "twist" \in target
    <3>1. CASE "low_level" \in starts
      BY <1>4, <1>5, <1>6, <1>7, <1>8, <1>9, <3>1
    <3>2. CASE "joint_velocity" \in starts
      BY <1>4, <1>5, <1>6, <1>7, <1>8, <1>9, <3>2
    <3>3. CASE "twist" \in starts
      BY <1>4, <1>5, <1>6, <1>7, <1>8, <1>9, <3>3
    <3>4. QED
      BY <1>7, <1>11, <3>1, <3>2, <3>3
  <2>2. \A m : m \in starts <=> m \in target
    BY <2>1, <1>7, <1>8 DEF CommandModes
  <2>3. starts = target
    BY <2>2
  <2>4. QED
    BY <1>11, <2>3 DEF target, K, A, S, T
<1>12. QED
  BY <1>10, <1>11

-----------------------------------------------------------------------------
(* The invariant of a switch: what the service thread has left for the      *)
(* real-time thread stays right until it is performed.                      *)

NewActive == (active \ switch.stop) \cup switch.start

AtMostOne(modes) == \A m, n \in modes : m = n

\* The controllers change over to a set without conflicts.
RequestInv ==
  /\ NoConflict(active)
  /\ service # "idle" => /\ switch.stop \subseteq active
                         /\ switch.start \cap (active \ switch.stop) = {}
                         /\ NoConflict(NewActive)

\* perform starts with the flags of prepare, and ends in the mode of the new controllers.
FlagsInv ==
  /\ rt \in {"stop", "start"} => service = "prepared"
  /\ (service = "prepared" /\ rt \notin {"stop", "start"}) =>
       stops = StopFlags /\ starts = StartFlags /\ Exclusive(stops, starts)
  /\ rt = "stop" => stops = {} /\ starts = {} /\ running = ModesOf(Claimed(NewActive))
  /\ rt = "start" => (IF starts = {} THEN running ELSE starts) = ModesOf(Claimed(NewActive))

SwitchInv ==
  /\ RequestInv
  /\ FlagsInv
  /\ RunningMatchesActive
  /\ AtMostOne(running)
  /\ AtMostOne(starts) \/ service # "prepared"

\* Whose values the running mode sends.
Owners(i, controllers) == {c \in controllers : i \in Claims[c]}

BufferInv ==
  /\ rt # "start" => \A m \in running : \A i \in Uses(m) : buffer[i] \subseteq Owners(i, active)
  /\ rt = "stop" => \A m \in running : \A i \in Uses(m) : buffer[i] = {}
  /\ (rt = "start" /\ starts = {}) =>
       \A m \in running : \A i \in Uses(m) : buffer[i] \subseteq Owners(i, NewActive)

\* Nothing changes for a switch as long as perform neither begins nor goes on.
LEMMA SwitchInvQuiet ==
  ASSUME SwitchInv, UNCHANGED <<service, switch, stops, starts, running, active>>,
         rt' = rt \/ (rt \notin {"stop", "start"} /\ rt' \notin {"stop", "start"})
  PROVE  SwitchInv'
<1> USE DEF SwitchInv, NewActive
<1>1. RequestInv'
  BY DEF RequestInv
<1>2. StopFlags' = StopFlags /\ StartFlags' = StartFlags
  BY DEF StopFlags, StartFlags
<1>3. Exclusive(stops, starts)' = Exclusive(stops, starts)
  BY DEF Exclusive
<1>4. FlagsInv'
  BY <1>2, <1>3 DEF FlagsInv
<1>5. RunningMatchesActive'
  BY DEF RunningMatchesActive
<1>6. QED
  BY <1>1, <1>4, <1>5 DEF AtMostOne

\* What prepare finds is left for perform.
LEMMA SwitchInvPrepare ==
  ASSUME TypeOK, SwitchInv, Prepare
  PROVE  SwitchInv'
<1> USE DEF SwitchInv, driverVars
<1>1. ASSUME NEW stop \in SUBSET Controllers, NEW start \in SUBSET Controllers,
             SwitchRequested(stop, start)
      PROVE  SwitchInv'
  <2>1. RequestInv'
    BY <1>1 DEF SwitchRequested, RequestInv, NewActive
  <2>2. FlagsInv'
    BY <1>1 DEF SwitchRequested, FlagsInv
  <2>3. RunningMatchesActive'
    BY <1>1 DEF SwitchRequested, RunningMatchesActive
  <2>4. QED
    BY <1>1, <2>1, <2>2, <2>3 DEF SwitchRequested, AtMostOne
<1>2. CASE PrepareAccepts
  <2>1. RequestInv'
    BY <1>2 DEF PrepareAccepts, RequestInv, NewActive
  <2>2. rt \notin {"stop", "start"}
    BY <1>2 DEF PrepareAccepts, FlagsInv
  <2>3. /\ stops' = StopFlags /\ starts' = StartFlags
        /\ StopFlags' = StopFlags /\ StartFlags' = StartFlags
    BY <1>2 DEF PrepareAccepts, StopFlags, StartFlags
  <2>4. Exclusive(stops, starts)'
    BY <1>2 DEF PrepareAccepts, Exclusive
  <2>5. FlagsInv'
    BY <1>2, <2>2, <2>3, <2>4 DEF PrepareAccepts, FlagsInv
  <2>6. RunningMatchesActive'
    BY <1>2 DEF PrepareAccepts, RunningMatchesActive
  <2>7. AtMostOne(running)' /\ AtMostOne(starts)'
    BY <1>2, <2>4 DEF PrepareAccepts, AtMostOne, Exclusive
  <2>8. QED
    BY <2>1, <2>5, <2>6, <2>7
<1>3. CASE PrepareRejects
  <2>1. RequestInv'
    BY <1>3 DEF PrepareRejects, RequestInv
  <2>2. FlagsInv'
    BY <1>3 DEF PrepareRejects, FlagsInv
  <2>3. RunningMatchesActive'
    BY <1>3 DEF PrepareRejects, RunningMatchesActive
  <2>4. QED
    BY <1>3, <2>1, <2>2, <2>3 DEF PrepareRejects, AtMostOne
<1>4. QED
  BY <1>1, <1>2, <1>3 DEF Prepare

\* What a prepared switch does to the modes, while it waits.
LEMMA Prepared ==
  ASSUME TypeOK, SwitchInv, service = "prepared", rt = "switch"
  PROVE  /\ stops = StopFlags /\ starts = StartFlags
         /\ stops \subseteq running
         /\ AtMostOne(running) /\ AtMostOne(starts)
         /\ running = ModesOf(Claimed(active))
         /\ (IF starts = {} THEN running \ stops ELSE starts) = ModesOf(Claimed(NewActive))
<1>1. /\ stops = StopFlags /\ starts = StartFlags /\ Exclusive(stops, starts)
      /\ AtMostOne(running) /\ AtMostOne(starts)
      /\ running = ModesOf(Claimed(active))
  BY DEF SwitchInv, FlagsInv, RunningMatchesActive
<1>2. stops \subseteq running
  BY <1>1 DEF StopFlags
<1>3. /\ active \in SUBSET Controllers /\ switch.stop \in SUBSET active
      /\ switch.start \in SUBSET Controllers
      /\ (active \ switch.stop) \cap switch.start = {}
      /\ NoConflict(active)
      /\ NoConflict((active \ switch.stop) \cup switch.start)
  BY DEF SwitchInv, RequestInv, NewActive, TypeOK
<1>4. (IF starts = {} THEN running \ stops ELSE starts) = ModesOf(Claimed(NewActive))
  BY <1>1, <1>3, SwitchModes DEF NewActive
<1>5. QED
  BY <1>1, <1>2, <1>4

\* Every step of perform brings the modes nearer to those of the new controllers.
LEMMA SwitchInvPerform ==
  ASSUME TypeOK, SwitchInv, Perform
  PROVE  SwitchInv'
<1> USE DEF driverVars, switchVars
<1>1. CASE PerformHandsOver
  <2>1. /\ rt = "switch" /\ service = "prepared"
        /\ "low_level" \in stops /\ "low_level" \in starts
        /\ UNCHANGED <<service, switch, running, active>>
        /\ stops' = stops \ {"low_level"} /\ starts' = starts \ {"low_level"} /\ rt' = "stop"
    BY <1>1 DEF PerformHandsOver
  <2>2. stops' = {} /\ starts' = {} /\ running = starts
    BY <2>1, Prepared DEF AtMostOne
  <2>3. running = ModesOf(Claimed(NewActive))
    BY <2>1, <2>2, Prepared
  <2>4. NewActive' = NewActive
    BY <2>1 DEF NewActive
  <2>5. RequestInv' /\ RunningMatchesActive'
    BY <2>1, <2>4 DEF SwitchInv, RequestInv, RunningMatchesActive
  <2>6. FlagsInv'
    BY <2>1, <2>2, <2>3, <2>4 DEF FlagsInv
  <2>7. AtMostOne(running)' /\ AtMostOne(starts)'
    BY <2>1, <2>2 DEF SwitchInv, AtMostOne
  <2>8. QED
    BY <2>5, <2>6, <2>7 DEF SwitchInv
<1>2. CASE PerformStops
  <2>1. /\ UNCHANGED <<service, switch, stops, starts, active>>
        /\ running' = running \ stops /\ rt' = "start"
        /\ (rt = "switch" /\ service = "prepared") \/ rt = "stop"
    BY <1>2 DEF PerformStops
  <2>2. service = "prepared"
    BY <2>1 DEF SwitchInv, FlagsInv
  <2>3. (IF starts = {} THEN running \ stops ELSE starts) = ModesOf(Claimed(NewActive))
    <3>1. CASE rt = "switch"
      BY <2>2, <3>1, Prepared
    <3>2. CASE rt = "stop"
      BY <3>2 DEF SwitchInv, FlagsInv
    <3>3. QED
      BY <2>1, <3>1, <3>2
  <2>4. NewActive' = NewActive
    BY <2>1 DEF NewActive
  <2>5. RequestInv' /\ RunningMatchesActive'
    BY <2>1, <2>4 DEF SwitchInv, RequestInv, RunningMatchesActive
  <2>6. FlagsInv'
    BY <2>1, <2>2, <2>3, <2>4 DEF FlagsInv
  <2>7. AtMostOne(running)' /\ AtMostOne(starts)'
    BY <2>1, <2>2 DEF SwitchInv, AtMostOne
  <2>8. QED
    BY <2>5, <2>6, <2>7 DEF SwitchInv
<1>3. ASSUME rt = "start", SwitchEnds,
             running' = IF starts = {} THEN running ELSE starts
      PROVE  SwitchInv'
  <2>1. /\ active' = NewActive /\ service' = "idle" /\ rt' = "write"
    BY <1>3 DEF SwitchEnds, NewActive
  <2>2. service = "prepared"
    BY <1>3 DEF SwitchInv, FlagsInv
  <2>3. running' = ModesOf(Claimed(NewActive))
    BY <1>3 DEF SwitchInv, FlagsInv
  <2>4. RequestInv'
    BY <2>1, <2>2 DEF SwitchInv, RequestInv, NoConflict
  <2>5. FlagsInv'
    BY <2>1 DEF FlagsInv
  <2>6. RunningMatchesActive'
    BY <2>1, <2>3 DEF RunningMatchesActive
  <2>7. AtMostOne(running)'
    BY <1>3, <2>2 DEF SwitchInv, AtMostOne
  <2>8. QED
    BY <2>1, <2>4, <2>5, <2>6, <2>7 DEF SwitchInv
<1>4. CASE PerformStartsNothing
  BY <1>3, <1>4 DEF PerformStartsNothing
<1>5. ASSUME rt = "start" PROVE AtMostOne(starts)
  BY <1>5 DEF SwitchInv, FlagsInv
<1>6. CASE PerformStartsLowLevel
  <2>1. rt = "start" /\ "low_level" \in starts /\ running' = {"low_level"} /\ SwitchEnds
    BY <1>6 DEF PerformStartsLowLevel
  <2>2. starts = {"low_level"}
    BY <1>5, <2>1 DEF AtMostOne
  <2>3. QED
    BY <1>3, <2>1, <2>2
<1>7. ASSUME NEW m \in {"joint_velocity", "twist"}, PerformStartsJog(m)
      PROVE  SwitchInv'
  <2>1. rt = "start" /\ m \in starts /\ running' = {m} /\ SwitchEnds
    BY <1>7 DEF PerformStartsJog
  <2>2. starts = {m}
    BY <1>5, <2>1 DEF AtMostOne
  <2>3. QED
    BY <1>3, <2>1, <2>2
<1>8. QED
  BY <1>1, <1>2, <1>4, <1>6, <1>7 DEF Perform

LEMMA SwitchInvKept == TypeOK /\ SwitchInv /\ [Next]_vars => SwitchInv'
<1> SUFFICES ASSUME TypeOK, SwitchInv, [Next]_vars
             PROVE  SwitchInv'
  OBVIOUS
<1> USE DEF driverVars, switchVars
<1>1. CASE Read \/ Update \/ NoSwitch \/ Write
  BY <1>1, SwitchInvQuiet DEF Read, Update, NoSwitch, Write
<1>2. CASE World
  BY <1>2, SwitchInvQuiet DEF World, ModeMoves, EnablingReleased, EnablingPressed, FaultMoves,
                              worldUnchanged
<1>3. CASE UNCHANGED vars
  BY <1>3, SwitchInvQuiet DEF vars
<1>4. QED
  BY <1>1, <1>2, <1>3, SwitchInvPrepare, SwitchInvPerform DEF Next

LEMMA SwitchInvInit == Init => SwitchInv
<1> SUFFICES ASSUME Init
             PROVE  SwitchInv
  OBVIOUS
<1>1. RequestInv
  BY DEF Init, RequestInv, NoConflict
<1>2. FlagsInv
  BY DEF Init, FlagsInv
<1>3. RunningMatchesActive
  BY DEF Init, RunningMatchesActive, ModesOf, Claimed
<1>4. QED
  BY <1>1, <1>2, <1>3 DEF SwitchInv, Init, AtMostOne

\* Outside the last part of perform, the running modes are those the active
\* controllers ask for.
THEOREM SwitchIsRight == Spec => []RunningMatchesActive
<1>1. SwitchInv => RunningMatchesActive
  BY DEF SwitchInv
<1>2. QED
  BY <1>1, TypeCorrect, SwitchInvInit, SwitchInvKept, PTL DEF Spec

-----------------------------------------------------------------------------
(* The robot.                                                               *)

\* Every step keeps the robot's modes beside the running command mode.
LEMMA RobotKept ==
  TypeOK /\ SwitchInv /\ RobotMatchesRunning /\ [Next]_vars => RobotMatchesRunning'
<1> SUFFICES ASSUME TypeOK, SwitchInv, RobotMatchesRunning, [Next]_vars
             PROVE  RobotMatchesRunning'
  OBVIOUS
<1> USE DEF RobotMatchesRunning, driverVars, switchVars
<1>1. ASSUME UNCHANGED <<running, arm_mode, robot, mode_moved>>
      PROVE  RobotMatchesRunning'
  BY <1>1 DEF ModeFor
<1>2. CASE Prepare
  BY <1>1, <1>2 DEF Prepare, SwitchRequested, PrepareAccepts, PrepareRejects
<1>3. CASE Read
  <2>1. CASE BackToJog
    <3>1. "low_level" \notin running /\ running # {}
      BY <2>1 DEF BackToJog, SwitchInv, AtMostOne
    <3>2. "select" \notin MayFail => robot'.mode = "JOG_MANUAL"
      BY <1>3, <2>1 DEF Read, change_operating_mode, TypeOK, Feedback
    <3>3. QED
      BY <1>3, <3>1, <3>2 DEF Read, ModeFor
  <2>2. CASE ~BackToJog
    BY <1>1, <1>3, <2>2 DEF Read
  <2>3. QED
    BY <2>1, <2>2
<1>4. CASE Update \/ NoSwitch \/ Write
  BY <1>1, <1>4 DEF Update, NoSwitch, Write
<1>5. CASE PerformHandsOver \/ PerformStartsNothing
  BY <1>1, <1>5 DEF PerformHandsOver, PerformStartsNothing, SwitchEnds
<1>6. CASE PerformStops
  <2>1. stops \subseteq running
    <3>1. CASE rt = "stop"
      BY <3>1 DEF SwitchInv, FlagsInv
    <3>2. CASE rt = "switch" /\ service = "prepared"
      BY <3>2, Prepared
    <3>3. QED
      BY <1>6, <3>1, <3>2 DEF PerformStops
  <2>2. CASE stops = {}
    BY <1>1, <1>6, <2>2 DEF PerformStops
  <2>3. CASE stops # {}
    <3>1. running' = {}
      BY <1>6, <2>1, <2>3 DEF PerformStops, SwitchInv, AtMostOne
    <3>2. "select" \notin MayFail => robot'.mode = "MONITORED_STOP"
      BY <1>6, <2>3 DEF PerformStops, change_operating_mode, TypeOK, Feedback
    <3>3. "servoing" \notin MayFail => arm_mode' # "LOW_LEVEL"
      <4>1. CASE "low_level" \in stops
        BY <1>6, <4>1 DEF PerformStops, set_servoing_mode
      <4>2. CASE "low_level" \notin stops
        <5>1. "low_level" \notin running
          BY <2>1, <2>3, <4>2 DEF SwitchInv, AtMostOne
        <5>2. QED
          BY <1>6, <4>2, <5>1 DEF PerformStops
      <4>3. QED
        BY <4>1, <4>2
    <3>4. QED
      BY <3>1, <3>2, <3>3 DEF ModeFor
  <2>4. QED
    BY <2>2, <2>3
<1>7. CASE PerformStartsLowLevel
  <2>1. "select" \notin MayFail => robot'.mode = "HOLD_TO_RUN"
    BY <1>7 DEF PerformStartsLowLevel, change_operating_mode, TypeOK, Feedback
  <2>2. running' = {"low_level"} /\ ("servoing" \notin MayFail => arm_mode' = "LOW_LEVEL")
    BY <1>7 DEF PerformStartsLowLevel, set_servoing_mode
  <2>3. QED
    BY <2>1, <2>2 DEF ModeFor
<1>8. ASSUME NEW m \in {"joint_velocity", "twist"}, PerformStartsJog(m)
      PROVE  RobotMatchesRunning'
  <2>1. "select" \notin MayFail => robot'.mode = "JOG_MANUAL"
    BY <1>8 DEF PerformStartsJog, change_operating_mode, TypeOK, Feedback
  <2>2. running' = {m} /\ ("servoing" \notin MayFail => arm_mode' = "SINGLE_LEVEL")
    BY <1>8 DEF PerformStartsJog, set_servoing_mode
  <2>3. QED
    BY <2>1, <2>2 DEF ModeFor
<1>9. CASE World
  <2> USE DEF worldUnchanged
  <2>1. CASE ModeMoves
    BY <2>1 DEF ModeMoves
  <2>2. CASE EnablingReleased
    <3>1. robot'.mode = robot.mode \/ mode_moved'
      BY <2>2 DEF EnablingReleased, TypeOK, Feedback
    <3>2. mode_moved => mode_moved'
      BY <2>2 DEF EnablingReleased
    <3>3. UNCHANGED <<running, arm_mode>>
      BY <2>2 DEF EnablingReleased
    <3>4. QED
      BY <3>1, <3>2, <3>3 DEF ModeFor
  <2>3. CASE EnablingPressed \/ FaultMoves
    <3>1. robot'.mode = robot.mode /\ UNCHANGED <<running, arm_mode, mode_moved>>
      BY <2>3 DEF EnablingPressed, FaultMoves, TypeOK, Feedback
    <3>2. QED
      BY <3>1 DEF ModeFor
  <2>4. QED
    BY <1>9, <2>1, <2>2, <2>3 DEF World
<1>10. CASE UNCHANGED vars
  BY <1>1, <1>10 DEF vars
<1>11. QED
  BY <1>2, <1>3, <1>4, <1>5, <1>6, <1>7, <1>8, <1>9, <1>10 DEF Next, Perform

\* A robot that takes what it is told is in the modes of the running command mode,
\* through every switch and every way back to JOG_MANUAL.
THEOREM RobotFollows == Spec => []RobotMatchesRunning
<1>1. Init => RobotMatchesRunning
  BY DEF Init, RobotMatchesRunning, ModeFor
<1>2. QED
  BY <1>1, TypeCorrect, SwitchInvInit, SwitchInvKept, RobotKept, PTL DEF Spec

-----------------------------------------------------------------------------
(* A robot that does not move.                                              *)

\* No command makes the robot move.
Still(r) == Halted(r) \/ r.fault

\* One late command, and the driver knows: what it has read, or will read before it
\* writes again, keeps the next one back.
LateInv ==
  /\ late <= 1
  /\ late = 1 => /\ Still(robot)
                 /\ Still(IF rt = "read" THEN feedback ELSE seen)

\* A call or a move of the robot keeps the count, or starts it again.
LEMMA LateRestarts ==
  ASSUME TypeOK, LateInv, late' = LateWith(robot'), UNCHANGED <<rt, feedback, seen>>
  PROVE  LateInv'
  BY DEF LateInv, LateWith, Still, Halted, TypeOK

LEMMA LateKept == TypeOK /\ LateInv /\ [Next]_vars => LateInv'
<1> SUFFICES ASSUME TypeOK, LateInv, [Next]_vars
             PROVE  LateInv'
  OBVIOUS
<1> USE DEF driverVars, switchVars
<1>0. late \in Nat /\ rt \in {"read", "update", "switch", "stop", "start", "write"}
  BY DEF TypeOK
<1>1. ASSUME UNCHANGED <<late, robot, seen>>, rt # "read", rt' # "read"
      PROVE  LateInv'
  BY <1>1 DEF LateInv, Still, Halted
<1>2. ASSUME late' = LateWith(robot'), UNCHANGED seen, rt # "read", rt' # "read"
      PROVE  LateInv'
  BY <1>0, <1>2 DEF LateInv, LateWith, Still, Halted
<1>3. CASE Prepare
  <2>1. UNCHANGED <<late, robot, seen, feedback, rt>>
    BY <1>3 DEF Prepare, SwitchRequested, PrepareAccepts, PrepareRejects
  <2>2. QED
    BY <2>1 DEF LateInv, Still, Halted
<1>4. CASE Read
  <2>1. rt = "read" /\ rt' = "update" /\ seen' = feedback
    BY <1>4 DEF Read
  <2>2. late' = LateWith(robot') \/ UNCHANGED <<late, robot>>
    BY <1>4 DEF Read, change_operating_mode
  <2>3. QED
    BY <1>0, <2>1, <2>2 DEF LateInv, LateWith, Still, Halted
<1>5. CASE Update \/ NoSwitch \/ PerformHandsOver \/ PerformStartsNothing
  BY <1>1, <1>5 DEF Update, NoSwitch, PerformHandsOver, PerformStartsNothing, SwitchEnds
<1>6. CASE PerformStops
  BY <1>1, <1>2, <1>6 DEF PerformStops, change_operating_mode
<1>7. CASE PerformStartsLowLevel
  BY <1>2, <1>7 DEF PerformStartsLowLevel, SwitchEnds, change_operating_mode
<1>8. ASSUME NEW m \in {"joint_velocity", "twist"}, PerformStartsJog(m)
      PROVE  LateInv'
  BY <1>2, <1>8 DEF PerformStartsJog, SwitchEnds, change_operating_mode
<1>9. CASE Write
  <2>1. /\ rt = "write" /\ rt' = "read" /\ feedback' = robot /\ robot' = robot
        /\ late' = IF Sending # {} /\ Still(robot) THEN late + 1 ELSE late
    BY <1>9 DEF Write, Still
  \* After a late command the guards hold the next one back.
  <2>2. late = 1 => Sending = {}
    BY <2>1 DEF LateInv, Still, Sending, Blocked
  <2>3. QED
    BY <1>0, <2>1, <2>2 DEF LateInv, Still, Halted
<1>10. CASE World
  BY <1>10, LateRestarts DEF World, ModeMoves, EnablingReleased, EnablingPressed, FaultMoves,
                             worldUnchanged
<1>11. CASE UNCHANGED vars
  BY <1>11 DEF vars, LateInv, Still, Halted
<1>12. QED
  BY <1>3, <1>4, <1>5, <1>6, <1>7, <1>8, <1>9, <1>10, <1>11 DEF Next, Perform

\* Whatever is switched and refused, a robot that does not move gets one more command
\* at most: the one write() lets pass on what read() took a cycle before.
THEOREM CommandsStop == Spec => []StopsWithRobot
<1>1. Init => LateInv
  BY DEF Init, LateInv
<1>2. LateInv => StopsWithRobot
  BY DEF LateInv, StopsWithRobot
<1>3. QED
  BY <1>1, <1>2, TypeCorrect, LateKept, PTL DEF Spec

-----------------------------------------------------------------------------
(* Commands.                                                                *)

LEMMA UsesType == \A m \in CommandModes : Uses(m) \subseteq Buffers
  BY DEF Uses, InterfaceOf

\* Who claims an interface a running mode sends claims the mode's own interface too,
\* so that it stops only when the mode does.
LEMMA OwnersGoOn ==
  ASSUME TypeOK, SwitchInv, service = "prepared", rt = "switch",
         NEW m \in running \ stops, NEW i \in Uses(m)
  PROVE  Owners(i, active) \subseteq Owners(i, NewActive)
<1> SUFFICES ASSUME NEW c \in active, i \in Claims[c], c \in switch.stop
             PROVE  FALSE
  BY DEF Owners, NewActive
<1>1. /\ NoConflict(active) /\ running = ModesOf(Claimed(active)) /\ stops = StopFlags
      /\ active \subseteq Controllers /\ m \in CommandModes
  BY Prepared DEF SwitchInv, RequestInv, TypeOK
<1>2. InterfaceOf[m] \in Claimed(active)
  BY <1>1, InterfaceOfModes DEF ModesOf
<1>3. PICK d \in active : InterfaceOf[m] \in Claims[d]
  BY <1>2 DEF Claimed
<1>4. i \in Claims[d]
  <2>1. CASE m = "low_level"
    <3>1. i \in {"POS", "VEL"} /\ "POS" \in Claims[d]
      BY <1>3, <2>1, InterfaceOfModes DEF Uses
    <3>2. QED
      BY <1>1, <3>1, ClaimsAssumption
  <2>2. CASE m # "low_level"
    BY <1>3, <2>2 DEF Uses
  <2>3. QED
    BY <2>1, <2>2
<1>5. c = d
  BY <1>1, <1>4 DEF NoConflict
<1>6. InterfaceOf[m] \in Claimed(switch.stop)
  BY <1>3, <1>5 DEF Claimed
<1>7. QED
  BY <1>1, <1>6 DEF StopFlags

\* No value of a controller that does not claim the interface stays in a buffer that
\* the running mode sends.
LEMMA BufferKept == TypeOK /\ SwitchInv /\ BufferInv /\ [Next]_vars => BufferInv'
<1> SUFFICES ASSUME TypeOK, SwitchInv, BufferInv, [Next]_vars
             PROVE  BufferInv'
  OBVIOUS
<1> USE DEF driverVars, switchVars
<1>0. running \subseteq CommandModes
  BY DEF TypeOK
<1>1. ASSUME UNCHANGED <<running, buffer, active>>,
             rt = "start" <=> rt' = "start", rt = "stop" <=> rt' = "stop",
             rt = "start" => UNCHANGED <<starts, switch>>
      PROVE  BufferInv'
  BY <1>1 DEF BufferInv, NewActive, Owners
<1>2. CASE Prepare
  <2>1. rt # "start" /\ UNCHANGED <<running, buffer, active, rt>>
    BY <1>2 DEF Prepare, SwitchRequested, PrepareAccepts, PrepareRejects, SwitchInv, FlagsInv
  <2>2. QED
    BY <1>1, <2>1
<1>3. CASE Read \/ NoSwitch \/ Write
  BY <1>1, <1>3 DEF Read, NoSwitch, Write
<1>4. CASE Update
  <2>1. /\ rt = "update" /\ rt' = "switch" /\ UNCHANGED <<running, active>>
        /\ \E writing \in SUBSET active :
             buffer' = [i \in Buffers |-> IF i \in Claimed(writing)
                                            THEN {c \in writing : i \in Claims[c]}
                                            ELSE buffer[i]]
    BY <1>4 DEF Update
  <2>2. \A i \in Buffers : buffer'[i] \subseteq Owners(i, active) \/ buffer'[i] = buffer[i]
    BY <2>1 DEF Owners
  <2>3. QED
    BY <1>0, <2>1, <2>2, UsesType DEF BufferInv, Owners
<1>5. CASE PerformHandsOver
  <2>1. /\ rt = "switch" /\ service = "prepared" /\ "low_level" \in stops
        /\ buffer' = Neutral({"POS", "VEL"}) /\ rt' = "stop"
        /\ UNCHANGED <<running, active>>
    BY <1>5 DEF PerformHandsOver
  <2>2. running \subseteq {"low_level"}
    BY <2>1, Prepared DEF AtMostOne
  <2>3. \A m \in running : \A i \in Uses(m) : buffer'[i] = {}
    BY <2>1, <2>2 DEF Uses, Neutral
  <2>4. QED
    BY <2>1, <2>3 DEF BufferInv
<1>6. CASE PerformStops
  <2>1. /\ rt' = "start" /\ UNCHANGED <<starts, active, switch>> /\ running' = running \ stops
        /\ buffer' = Neutral({InterfaceOf[m] : m \in stops})
    BY <1>6 DEF PerformStops
  <2>2. \A i \in Buffers : buffer'[i] \subseteq buffer[i]
    BY <2>1 DEF Neutral
  <2>3. CASE rt = "switch" /\ service = "prepared"
    <3>1. \A m \in running \ stops : \A i \in Uses(m) :
            buffer[i] \subseteq Owners(i, active) /\ Owners(i, active) \subseteq Owners(i, NewActive)
      BY <2>3, OwnersGoOn DEF BufferInv
    <3>2. \A m \in running' : \A i \in Uses(m) : buffer'[i] \subseteq Owners(i, NewActive)
      BY <1>0, <2>1, <2>2, <3>1, UsesType
    <3>3. QED
      BY <2>1, <3>2 DEF BufferInv, NewActive, Owners
  <2>4. CASE rt = "stop"
    <3>1. \A m \in running' : \A i \in Uses(m) : buffer'[i] = {}
      BY <1>0, <2>1, <2>2, <2>4, UsesType DEF BufferInv
    <3>2. QED
      BY <2>1, <3>1 DEF BufferInv
  <2>5. QED
    BY <1>6, <2>3, <2>4 DEF PerformStops
<1>7. CASE PerformStartsNothing
  <2>1. /\ rt = "start" /\ starts = {} /\ rt' = "write" /\ active' = NewActive
        /\ UNCHANGED <<running, buffer>>
    BY <1>7 DEF PerformStartsNothing, SwitchEnds, NewActive
  <2>2. QED
    BY <2>1 DEF BufferInv
<1>8. CASE PerformStartsLowLevel
  <2>1. rt' = "write" /\ running' = {"low_level"} /\ buffer' = Neutral({"POS", "VEL"})
    BY <1>8 DEF PerformStartsLowLevel, SwitchEnds
  <2>2. \A i \in Uses("low_level") : buffer'[i] = {}
    BY <2>1 DEF Uses, Neutral
  <2>3. QED
    BY <2>1, <2>2 DEF BufferInv
<1>9. ASSUME NEW m \in {"joint_velocity", "twist"}, PerformStartsJog(m)
      PROVE  BufferInv'
  <2>1. rt' = "write" /\ running' = {m} /\ buffer' = Neutral({InterfaceOf[m]})
    BY <1>9 DEF PerformStartsJog, SwitchEnds
  <2>2. \A i \in Uses(m) : buffer'[i] = {}
    BY <2>1, UsesType DEF Uses, Neutral
  <2>3. QED
    BY <2>1, <2>2 DEF BufferInv
<1>10. CASE World
  BY <1>1, <1>10 DEF World, ModeMoves, EnablingReleased, EnablingPressed, FaultMoves,
                     worldUnchanged
<1>11. CASE UNCHANGED vars
  BY <1>1, <1>11 DEF vars
<1>12. QED
  BY <1>2, <1>3, <1>4, <1>5, <1>6, <1>7, <1>8, <1>9, <1>10, <1>11 DEF Next, Perform

\* What write() sends is of a running mode, by controllers that are active.
LEMMA SentByActive ==
  ASSUME TypeOK, SwitchInv, BufferInv, Write
  PROVE  \/ sent' = Nothing
         \/ \E m \in running, writers \in SUBSET active :
              sent' = [modes |-> {m}, by |-> writers]
<1>1. /\ rt = "write"
      /\ sent' = [modes |-> Sending, by |-> UNION {buffer[i] : i \in UNION {Uses(m) : m \in Sending}}]
  BY DEF Write
<1>2. Sending \subseteq running /\ AtMostOne(Sending)
  BY DEF Sending, SwitchInv, AtMostOne
<1>3. CASE Sending = {}
  BY <1>1, <1>3 DEF Nothing
<1>4. CASE Sending # {}
  <2>1. PICK m \in running : Sending = {m}
    BY <1>2, <1>4 DEF AtMostOne
  <2>2. UNION {Uses(n) : n \in Sending} = Uses(m)
    BY <2>1
  <2>3. UNION {buffer[i] : i \in Uses(m)} \in SUBSET active
    BY <1>1 DEF BufferInv, Owners
  <2>4. QED
    BY <1>1, <2>1, <2>2, <2>3
<1>5. QED
  BY <1>3, <1>4

\* Both modules speak of the same claims and modes.
LEMMA SameClaims ==
  /\ Arbiter!Nothing = Nothing
  /\ \A cs : Arbiter!NoConflict(cs) = NoConflict(cs)
  /\ \A cs : Arbiter!ModesOf(Arbiter!Claimed(cs)) = ModesOf(Claimed(cs))
  BY DEF Nothing, NoConflict, ModesOf, Claimed, Arbiter!Nothing, Arbiter!NoConflict,
         Arbiter!ModesOf, Arbiter!Claimed, Arbiter!CommandModes

\* The running modes as the arbiter sees them.
ArbiterRunning == IF rt = "start" THEN ModesOf(Claimed(active)) ELSE running

LEMMA ArbiterStep ==
  TypeOK /\ SwitchInv /\ SwitchInv' /\ BufferInv /\ [Next]_vars
    => [Arbiter!Switch \/ Arbiter!Issue]_<<active, ArbiterRunning, sent>>
<1> SUFFICES ASSUME TypeOK, SwitchInv, SwitchInv', BufferInv, [Next]_vars
             PROVE  [Arbiter!Switch \/ Arbiter!Issue]_<<active, ArbiterRunning, sent>>
  OBVIOUS
<1> USE DEF driverVars, switchVars
<1>1. /\ ArbiterRunning = ModesOf(Claimed(active))
      /\ ArbiterRunning' = ModesOf(Claimed(active'))
  BY DEF ArbiterRunning, SwitchInv, RunningMatchesActive
<1>2. ASSUME UNCHANGED <<active, sent>>
      PROVE  UNCHANGED <<active, ArbiterRunning, sent>>
  BY <1>1, <1>2
<1>3. CASE Prepare \/ Read \/ Update \/ NoSwitch
  BY <1>2, <1>3 DEF Prepare, SwitchRequested, PrepareAccepts, PrepareRejects, Read, Update,
                    NoSwitch
<1>4. CASE PerformHandsOver \/ PerformStops
  BY <1>2, <1>4 DEF PerformHandsOver, PerformStops
<1>5. ASSUME SwitchEnds
      PROVE  Arbiter!Switch
  <2>1. UNCHANGED sent /\ rt' # "start"
    BY <1>5 DEF SwitchEnds
  <2>2. active' \in SUBSET Controllers /\ NoConflict(active') /\ AtMostOne(running')
    BY <1>5 DEF SwitchEnds, SwitchInv, RequestInv, TypeOK, NoConflict
  <2>3. QED
    BY <1>1, <2>1, <2>2, SameClaims DEF Arbiter!Switch, ArbiterRunning, AtMostOne
<1>6. CASE PerformStartsNothing \/ PerformStartsLowLevel
           \/ \E m \in {"joint_velocity", "twist"} : PerformStartsJog(m)
  BY <1>5, <1>6 DEF PerformStartsNothing, PerformStartsLowLevel, PerformStartsJog
<1>7. CASE Write
  <2>1. rt = "write" /\ rt' = "read" /\ UNCHANGED <<active, running>>
    BY <1>7 DEF Write
  <2>2. QED
    BY <1>7, <2>1, SentByActive, SameClaims DEF Arbiter!Issue, ArbiterRunning
<1>8. CASE World
  BY <1>2, <1>8 DEF World, ModeMoves, EnablingReleased, EnablingPressed, FaultMoves,
                    worldUnchanged
<1>9. CASE UNCHANGED vars
  BY <1>2, <1>9 DEF vars
<1>10. QED
  BY <1>3, <1>4, <1>6, <1>7, <1>8, <1>9 DEF Next, Perform

\* The driver with its two threads and its four-step switch implements the arbiter,
\* in which a switch is one step.
THEOREM SwitchesLookAtomic == Spec => ImplementsArbiter
<1>1. Init => BufferInv
  BY DEF Init, BufferInv
<1>2. Init => Arbiter!Init
  <2>1. Init => ModesOf(Claimed(active)) = {}
    BY DEF Init, ModesOf, Claimed
  <2>2. QED
    BY <2>1, SameClaims DEF Init, Arbiter!Init
<1>3. QED
  BY <1>1, <1>2, TypeCorrect, SwitchInvInit, SwitchInvKept, BufferKept, ArbiterStep, PTL
     DEF Spec, ImplementsArbiter, Arbiter!Spec, ArbiterRunning

=============================================================================
