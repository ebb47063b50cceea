----------------------- MODULE HighLevelDriver_proofs ------------------------
(***************************************************************************)
(* What HighLevelDriver guarantees for every set of controllers and        *)
(* programs, every countdown and settling time and every choice of the     *)
(* calls that may fail.                                                    *)
(***************************************************************************)
EXTENDS HighLevelDriver, TLAPS

\* What is at stake in a program run: a run that a poll has seen is either known
\* to the driver as active, or its end was noticed no earlier than it happened.
ProgramInv ==
  run = "seen" =>
    \/ is_program_active(last_program_status)
    \/ program = "IDLE" /\ program_end_age <= quiet

\* Why a hold keeps the gate shut: neither the robot nor the driver is in AUTO, unless
\* the arm has slipped, and the list to judge is there with its request pending or its
\* countdown running.
HoldInv ==
  hold => /\ controllers_to_deactivate # {}
          /\ pending_controller_deactivation \/ deactivation_verify_countdown > 0
          /\ slipped \/ (last_operating_mode # "AUTO" /\ mode # "AUTO")

-----------------------------------------------------------------------------

\* No step takes a field out of its type, flags aside.
LEMMA DataKept == TypeData /\ [Next]_vars => TypeData'
<1> SUFFICES ASSUME TypeData, [Next]_vars
             PROVE  TypeData'
  OBVIOUS
<1> USE BoundsAssumption DEF TypeData, Phases, ClearFaultsSteps, ArmStates, Modes,
      Statuses, recoveryVars, programVars, robotVars, managerVars, holdVars, Judged, Chosen,
      OwnAuto, StartsOver
<1>1. CASE Read
  <2>1. CASE ReadFault \/ ReadFeedback \/ ReadException
    BY <2>1 DEF ReadFault, ReadFeedback, ReadException, ErrorReturned
  <2>2. CASE PollStatus \/ PollException
    BY <2>2 DEF PollStatus, PollException
  <2>3. requestsSent \in SUBSET Request
    BY DEF requestsSent, Request
  <2>4. countdownBefore \in 0..VerifyCycles
    BY DEF countdownBefore
  <2>5. CASE Countdown
    BY <2>3, <2>4, <2>5 DEF Countdown
  <2>6. CASE VerifyRestores
    <3>1. requests' \in SUBSET Request
      BY <2>3, <2>6 DEF VerifyRestores, Request
    <3>2. QED
      BY <2>6, <3>1 DEF VerifyRestores, change_operating_mode
  <2>7. CASE VerifyWarns
    BY <2>3, <2>7 DEF VerifyWarns
  <2>8. CASE SpinDone
    BY <2>8 DEF SpinDone
  <2>9. QED
    BY <1>1, <2>1, <2>2, <2>5, <2>6, <2>7, <2>8 DEF Read
<1>2. CASE Handlers
  <2>1. ASSUME NEW m \in Modes, handle_set_operating_mode(m)
        PROVE  TypeData'
    BY <2>1 DEF handle_set_operating_mode, change_operating_mode
  <2>2. CASE handle_run_program
    BY <2>2 DEF handle_run_program
  <2>3. CASE handle_stop_program
    BY <2>3 DEF handle_stop_program, change_operating_mode
  <2>4. CASE ClearFaultsListed
    BY <2>4 DEF ClearFaultsListed, get_active_motion_controllers
  <2>5. CASE ClearFaultsRefused \/ ClearFaultsCalled \/ ClearFaultsGuides
    BY <2>5 DEF ClearFaultsRefused, ClearFaultsCalled, ClearFaultsGuides
  <2>6. CASE ClearFaultsOperational \/ ClearFaultsAnyway \/ ClearFaultsExits
    BY <2>6 DEF ClearFaultsOperational, ClearFaultsAnyway, ClearFaultsExits,
                change_operating_mode
  <2>7. CASE ClearFaultsRecovered
    BY <2>7 DEF ClearFaultsRecovered, change_operating_mode
  <2>8. CASE ClearFaultsGivesUp
    BY <2>8 DEF ClearFaultsGivesUp
  <2>9. QED
    BY <1>2, <2>1, <2>2, <2>3, <2>4, <2>5, <2>6, <2>7, <2>8 DEF Handlers, ClearFaults
<1>3. CASE Manager
  <2>1. ASSUME NEW r \in requests, ApplySwitch(r)
        PROVE  TypeData'
    <3>1. active' \in SUBSET MotionControllers /\ owed' \in SUBSET MotionControllers
      BY <2>1 DEF ApplySwitch, Request
    <3>2. QED
      BY <2>1, <3>1 DEF ApplySwitch
  <2>2. ASSUME NEW r \in requests, LoseSwitch(r)
        PROVE  TypeData'
    BY <2>2 DEF LoseSwitch
  <2>3. ASSUME NEW c \in SUBSET MotionControllers, UserSwitch(c)
        PROVE  TypeData'
    BY <2>3 DEF UserSwitch
  <2>4. CASE UpdateDone
    BY <2>4 DEF UpdateDone
  <2>5. QED
    BY <1>3, <2>1, <2>2, <2>3, <2>4 DEF Manager
<1>4. CASE Write
  BY <1>4 DEF Write, WriteBlocked, WriteSends, WriteRejected, WriteException,
              writeUnchanged, ErrorReturned
<1>5. CASE World
  <2>1. CASE ArmMoves \/ ModeMoves
    BY <2>1 DEF ArmMoves, ModeMoves
  <2>2. CASE ProgramStarts \/ ProgramEnds
    BY <2>2 DEF ProgramStarts, ProgramEnds
  <2>3. CASE Tick
    BY <2>3 DEF Tick, Aged
  <2>4. QED
    BY <1>5, <2>1, <2>2, <2>3 DEF World
<1>6. CASE UNCHANGED vars
  BY <1>6 DEF vars
<1>7. QED
  BY <1>1, <1>2, <1>3, <1>4, <1>5, <1>6 DEF Next

\* No step makes a flag anything but a Boolean.
LEMMA FlagsKept == TypeFlags /\ [Next]_vars => TypeFlags'
<1> SUFFICES ASSUME TypeFlags, [Next]_vars
             PROVE  TypeFlags'
  OBVIOUS
<1> USE DEF TypeFlags, recoveryVars, programVars, robotVars, managerVars, holdVars, Judged,
            Chosen, OwnAuto
<1>1. CASE Read
  BY <1>1 DEF Read, ReadFault, ReadFeedback, ReadException, PollStatus, PollException,
              Countdown, VerifyRestores, VerifyWarns, SpinDone
<1>2. CASE Handlers
  <2>1. CASE ClearFaults
    BY <2>1 DEF ClearFaults, ClearFaultsListed, ClearFaultsRefused, ClearFaultsCalled,
                ClearFaultsGuides, ClearFaultsOperational, ClearFaultsAnyway,
                ClearFaultsExits, ClearFaultsRecovered, ClearFaultsGivesUp
  <2>2. QED
    BY <1>2, <2>1 DEF Handlers, handle_set_operating_mode, handle_run_program,
                      handle_stop_program
<1>3. CASE Manager
  BY <1>3 DEF Manager, ApplySwitch, LoseSwitch, UserSwitch, UpdateDone
<1>4. CASE Write
  BY <1>4 DEF Write, WriteBlocked, WriteSends, WriteRejected, WriteException, writeUnchanged
<1>5. CASE World
  BY <1>5 DEF World, ArmMoves, ModeMoves, ProgramStarts, ProgramEnds, Tick
<1>6. CASE UNCHANGED vars
  BY <1>6 DEF vars
<1>7. QED
  BY <1>1, <1>2, <1>3, <1>4, <1>5, <1>6 DEF Next

\* Every field keeps its type: in particular the countdown stays in 0..VerifyCycles
\* and every detached request names controllers of the motion list.
THEOREM TypeCorrect == Spec => []TypeOK
<1>1. Init => TypeOK
  <2>1. Init => TypeFlags
    BY DEF Init, TypeFlags
  <2>2. Init => TypeData
    BY BoundsAssumption DEF Init, TypeData, Phases, ArmStates, Modes, Statuses
  <2>3. QED
    BY <2>1, <2>2 DEF TypeOK
<1>2. TypeOK /\ [Next]_vars => TypeOK'
  BY DataKept, FlagsKept DEF TypeOK
<1>3. QED
  BY <1>1, <1>2, PTL DEF Spec

-----------------------------------------------------------------------------

\* Only a poll makes a run "seen", the driver's clock never gets ahead of the
\* robot's, and both advance together.
LEMMA ProgramStep == TypeData /\ ProgramInv /\ [Next]_vars => ProgramInv'
<1> SUFFICES ASSUME TypeData, ProgramInv, [Next]_vars
             PROVE  ProgramInv'
  OBVIOUS
<1> USE DEF ProgramInv, is_program_active
<1>1. CASE PollStatus
  BY <1>1 DEF PollStatus, TypeData, Statuses
<1>2. CASE handle_run_program \/ ProgramStarts
  BY <1>2 DEF handle_run_program, ProgramStarts
\* An end resets the robot's clock only while the status the driver holds is active.
<1>3. CASE handle_stop_program
  BY <1>3 DEF handle_stop_program
<1>4. CASE ProgramEnds
  BY <1>4 DEF ProgramEnds
<1>5. CASE Tick
  BY <1>5, BoundsAssumption DEF Tick, Aged, TypeData
<1>6. CASE UNCHANGED programVars
  BY <1>6 DEF programVars
<1>7. PollStatus \/ handle_run_program \/ ProgramStarts \/ handle_stop_program
        \/ ProgramEnds \/ Tick \/ UNCHANGED programVars
  <2> USE DEF programVars
  <2>1. CASE Read
    BY <2>1 DEF Read, ReadFault, ReadFeedback, ReadException, PollException, Countdown,
                VerifyRestores, VerifyWarns, SpinDone
  <2>2. CASE ClearFaults
    BY <2>2 DEF ClearFaults, ClearFaultsListed, ClearFaultsRefused, ClearFaultsCalled,
                ClearFaultsGuides, ClearFaultsOperational, ClearFaultsAnyway,
                ClearFaultsExits, ClearFaultsRecovered, ClearFaultsGivesUp
  <2>3. CASE Handlers
    BY <2>2, <2>3 DEF Handlers, handle_set_operating_mode
  <2>4. CASE Manager \/ Write
    BY <2>4 DEF Manager, ApplySwitch, LoseSwitch, UserSwitch, UpdateDone, Write,
                WriteBlocked, WriteSends, WriteRejected, WriteException, writeUnchanged
  <2>5. CASE World
    BY <2>5 DEF World, ArmMoves, ModeMoves
  <2>6. CASE UNCHANGED vars
    BY <2>6 DEF vars
  <2>7. QED
    BY <2>1, <2>3, <2>4, <2>5, <2>6 DEF Next
<1>8. QED
  BY <1>1, <1>2, <1>3, <1>4, <1>5, <1>6, <1>7

LEMMA ProgramInvariant == Spec => []ProgramInv
<1>1. Init => ProgramInv
  BY DEF Init, ProgramInv
<1>2. QED
  BY <1>1, TypeCorrect, ProgramStep, PTL DEF Spec, TypeOK

\* The part of write()'s guards that is about programs.
LEMMA GateNeedsSettled ==
  GateOpen => ~is_program_active(last_program_status) /\ program_end_age >= SettleTime
BY DEF GateOpen

\* A command can pass write()'s guards during a program run only while no poll of
\* read() has seen that run.
THEOREM SeenProgramBlocks == Spec => []BlockedDuringSeenProgram
<1>1. TypeOK /\ ProgramInv => BlockedDuringSeenProgram
  BY GateNeedsSettled DEF ProgramInv, BlockedDuringSeenProgram
<1>2. QED
  BY <1>1, TypeCorrect, ProgramInvariant, PTL

\* A command can pass them less than SettleTime after the end of a run only if no
\* poll saw that run.
THEOREM SeenProgramSettles == Spec => []SettledAfterSeenProgram
<1>1. TypeOK /\ ProgramInv => SettledAfterSeenProgram
  <2>1. SUFFICES ASSUME TypeData, ProgramInv, GateOpen, run = "seen", program = "IDLE",
                        quiet < SettleTime
                 PROVE  FALSE
    BY DEF TypeOK, SettledAfterSeenProgram
  <2>2. program_end_age <= quiet /\ program_end_age >= SettleTime
    BY <2>1, GateNeedsSettled DEF ProgramInv
  <2>3. QED
    BY <2>1, <2>2, BoundsAssumption DEF TypeData
<1>2. QED
  BY <1>1, TypeCorrect, ProgramInvariant, PTL

-----------------------------------------------------------------------------

\* Who can end a hold or let the arm slip, and that nothing else opens the gate or drops
\* the schedule.
LEMMA HoldStep == TypeData /\ HoldInv /\ [Next]_vars => HoldInv'
<1> SUFFICES ASSUME TypeData, HoldInv, [Next]_vars
             PROVE  HoldInv'
  OBVIOUS
<1> USE DEF HoldInv, holdVars, Judged, Chosen, OwnAuto
<1>1. CASE Read
  <2> USE DEF recoveryVars, robotVars
  <2>1. CASE ReadFault \/ ReadFeedback \/ ReadException
    BY <2>1 DEF ReadFault, ReadFeedback, ReadException
  <2>2. CASE PollStatus \/ PollException \/ SpinDone
    BY <2>2 DEF PollStatus, PollException, SpinDone
  <2>3. CASE Countdown
    \* A countdown that reaches 0 with a list to verify is not this action.
    <3>1. hold => countdownBefore > 1 /\ countdownBefore \in Nat
      BY <2>3, BoundsAssumption DEF Countdown, VerificationDue, countdownBefore, TypeData
    <3>2. hold => deactivation_verify_countdown' > 0
      BY <2>3, <3>1 DEF Countdown
    <3>3. QED
      BY <2>3, <3>2 DEF Countdown
  <2>4. CASE VerifyRestores \/ VerifyWarns
    BY <2>4 DEF VerifyRestores, VerifyWarns
  <2>5. QED
    BY <1>1, <2>1, <2>2, <2>3, <2>4 DEF Read
<1>2. CASE Handlers
  <2> USE DEF recoveryVars, robotVars, change_operating_mode
  <2>1. ASSUME NEW m \in Modes, handle_set_operating_mode(m)
        PROVE  HoldInv'
    BY <2>1 DEF handle_set_operating_mode
  <2>2. CASE handle_run_program
    BY <2>2 DEF handle_run_program
  \* Where the driver selects AUTO itself, a hold goes on and has slipped.
  <2>3. CASE handle_stop_program \/ ClearFaultsOperational
    <3>1. OwnAuto /\ UNCHANGED recoveryVars
      BY <2>3 DEF handle_stop_program, ClearFaultsOperational
    <3>2. hold' => hold /\ slipped'
      BY <3>1
    <3>3. QED
      BY <3>1, <3>2
  <2>4. CASE ClearFaultsRecovered
    <3>1. CASE active_controllers # {}
      BY <2>4, <3>1 DEF ClearFaultsRecovered
    <3>2. CASE active_controllers = {}
      BY <2>4, <3>2 DEF ClearFaultsRecovered
    <3>3. QED
      BY <3>1, <3>2
  <2>5. CASE ClearFaultsAnyway \/ ClearFaultsExits
    BY <2>5 DEF ClearFaultsAnyway, ClearFaultsExits
  <2>6. CASE \/ ClearFaultsListed \/ ClearFaultsRefused \/ ClearFaultsCalled
             \/ ClearFaultsGuides \/ ClearFaultsGivesUp
    BY <2>6 DEF ClearFaultsListed, ClearFaultsRefused, ClearFaultsCalled,
                ClearFaultsGuides, ClearFaultsGivesUp
  <2>7. QED
    BY <1>2, <2>1, <2>2, <2>3, <2>4, <2>5, <2>6 DEF Handlers, ClearFaults
<1>3. CASE Manager \/ Write
  BY <1>3 DEF Manager, ApplySwitch, LoseSwitch, UserSwitch, UpdateDone, Write,
              WriteBlocked, WriteSends, WriteRejected, WriteException, writeUnchanged,
              recoveryVars, robotVars
<1>4. CASE World
  BY <1>4 DEF World, ArmMoves, ModeMoves, ProgramStarts, ProgramEnds, Tick,
              recoveryVars, robotVars
<1>5. CASE UNCHANGED vars
  BY <1>5 DEF vars, recoveryVars, robotVars
<1>6. QED
  BY <1>1, <1>2, <1>3, <1>4, <1>5 DEF Next

\* From a recovery by hand to the judgement of its list the verification stays scheduled
\* through all failures, and no command can pass the guards unless someone chose AUTO, the
\* robot refused MONITORED_STOP or the driver selected AUTO itself.
THEOREM RecoveryHolds == Spec => []HeldUntilVerified
<1>1. Init => HoldInv
  BY DEF Init, HoldInv
<1>2. HoldInv => HeldUntilVerified
  BY DEF HoldInv, HeldUntilVerified, GateOpen
<1>3. QED
  BY <1>1, <1>2, TypeCorrect, HoldStep, PTL DEF Spec, TypeOK

-----------------------------------------------------------------------------

\* A robot that takes the modes it is told to take runs in the mode write() relies
\* on, unless it has moved by itself since the driver last read or set the mode.
THEOREM BeliefIsCurrent == Spec => []BeliefTracksRobot
<1> USE DEF BeliefTracksRobot, change_operating_mode, robotVars
<1>1. Init => BeliefTracksRobot
  BY DEF Init
<1>2. BeliefTracksRobot /\ [Next]_vars => BeliefTracksRobot'
  <2> SUFFICES ASSUME BeliefTracksRobot, [Next]_vars, "select" \notin MayFail
               PROVE  last_operating_mode' = mode' \/ mode_moved'
    OBVIOUS
  <2>1. CASE Read
    BY <2>1 DEF Read, ReadFault, ReadFeedback, ReadException, PollStatus, PollException,
                Countdown, VerifyRestores, VerifyWarns, SpinDone
  <2>2. CASE ClearFaults
    BY <2>2 DEF ClearFaults, ClearFaultsListed, ClearFaultsRefused, ClearFaultsCalled,
                ClearFaultsGuides, ClearFaultsOperational, ClearFaultsAnyway,
                ClearFaultsExits, ClearFaultsRecovered, ClearFaultsGivesUp
  <2>3. CASE Handlers
    <3>1. ASSUME NEW m \in Modes, handle_set_operating_mode(m)
          PROVE  last_operating_mode' = mode' \/ mode_moved'
      BY <3>1 DEF handle_set_operating_mode
    <3>2. CASE handle_run_program
      BY <3>2 DEF handle_run_program
    <3>3. CASE handle_stop_program
      BY <3>3 DEF handle_stop_program
    <3>4. QED
      BY <2>2, <2>3, <3>1, <3>2, <3>3 DEF Handlers
  <2>4. CASE Manager \/ Write
    BY <2>4 DEF Manager, ApplySwitch, LoseSwitch, UserSwitch, UpdateDone, Write,
                WriteBlocked, WriteSends, WriteRejected, WriteException, writeUnchanged
  <2>5. CASE World
    BY <2>5 DEF World, ArmMoves, ModeMoves, ProgramStarts, ProgramEnds, Tick
  <2>6. CASE UNCHANGED vars
    BY <2>6 DEF vars
  <2>7. QED
    BY <2>1, <2>3, <2>4, <2>5, <2>6 DEF Next
<1>3. QED
  BY <1>1, <1>2, PTL DEF Spec

-----------------------------------------------------------------------------
(* The schedule.                                                            *)

\* The list, the flag and the counter, which the code tests one by one, agree.
ListInv ==
  /\ controllers_to_deactivate # {} <=>
       pending_controller_deactivation \/ deactivation_verify_countdown > 0
  /\ deactivation_verify_countdown < VerifyCycles

\* The actions that touch neither the schedule nor the requests.
Aside ==
  \/ ReadFault \/ ReadFeedback \/ ReadException \/ PollStatus \/ PollException \/ SpinDone
  \/ \E m \in Modes : handle_set_operating_mode(m)
  \/ handle_run_program \/ handle_stop_program
  \/ ClearFaultsListed \/ ClearFaultsRefused \/ ClearFaultsCalled \/ ClearFaultsGuides
  \/ ClearFaultsOperational \/ ClearFaultsAnyway \/ ClearFaultsExits \/ ClearFaultsGivesUp
  \/ \E c \in SUBSET MotionControllers : UserSwitch(c)
  \/ UpdateDone
  \/ Write
  \/ World

Taking == \E r \in requests : ApplySwitch(r) \/ LoseSwitch(r)

LEMMA ScheduleSteps ==
  Next => Countdown \/ VerifyRestores \/ VerifyWarns \/ ClearFaultsRecovered \/ Taking \/ Aside
  BY DEF Next, Read, Handlers, ClearFaults, Manager, Aside, Taking

LEMMA AsideKeepsSchedule == Aside => UNCHANGED <<recoveryVars, requests>>
<1> USE DEF recoveryVars, managerVars
<1>1. ReadFault \/ ReadFeedback \/ ReadException \/ PollStatus \/ PollException \/ SpinDone
        => UNCHANGED <<recoveryVars, requests>>
  BY DEF ReadFault, ReadFeedback, ReadException, PollStatus, PollException, SpinDone
<1>2. (\E m \in Modes : handle_set_operating_mode(m)) \/ handle_run_program
        \/ handle_stop_program => UNCHANGED <<recoveryVars, requests>>
  BY DEF handle_set_operating_mode, handle_run_program, handle_stop_program
<1>3. ClearFaultsListed \/ ClearFaultsRefused \/ ClearFaultsCalled \/ ClearFaultsGuides
        \/ ClearFaultsOperational \/ ClearFaultsAnyway \/ ClearFaultsExits
        \/ ClearFaultsGivesUp => UNCHANGED <<recoveryVars, requests>>
  BY DEF ClearFaultsListed, ClearFaultsRefused, ClearFaultsCalled, ClearFaultsGuides,
         ClearFaultsOperational, ClearFaultsAnyway, ClearFaultsExits, ClearFaultsGivesUp
<1>4. (\E c \in SUBSET MotionControllers : UserSwitch(c)) \/ UpdateDone
        => UNCHANGED <<recoveryVars, requests>>
  BY DEF UserSwitch, UpdateDone
<1>5. Write => UNCHANGED <<recoveryVars, requests>>
  BY DEF Write, WriteBlocked, WriteSends, WriteRejected, WriteException, writeUnchanged
<1>6. World => UNCHANGED <<recoveryVars, requests>>
  BY DEF World, ArmMoves, ModeMoves, ProgramStarts, ProgramEnds, Tick
<1>7. QED
  BY <1>1, <1>2, <1>3, <1>4, <1>5, <1>6 DEF Aside

\* A countdown in a cycle that does not verify has nothing to count, or goes on.
LEMMA CountdownGoesOn ==
  ASSUME TypeOK, ListInv, Countdown
  PROVE  \/ /\ countdownBefore = 0
            /\ UNCHANGED <<recoveryVars, requests>>
         \/ /\ countdownBefore > 1
            /\ ~pending_controller_deactivation'
            /\ deactivation_verify_countdown' = countdownBefore - 1
            /\ requests' = requestsSent
            /\ UNCHANGED controllers_to_deactivate
<1>1. /\ deactivation_verify_countdown \in 0..VerifyCycles
      /\ countdownBefore \in 0..VerifyCycles
      /\ countdownBefore > 0 <=> controllers_to_deactivate # {}
  BY BoundsAssumption DEF TypeOK, TypeData, ListInv, countdownBefore
<1>2. /\ ~ (countdownBefore = 1 /\ controllers_to_deactivate # {})
      /\ requests' = requestsSent
      /\ pending_controller_deactivation' = FALSE
      /\ deactivation_verify_countdown' = IF countdownBefore = 0 THEN 0 ELSE countdownBefore - 1
      /\ UNCHANGED controllers_to_deactivate
  BY DEF Countdown, VerificationDue
<1>3. CASE countdownBefore = 0
  <2>1. ~pending_controller_deactivation /\ deactivation_verify_countdown = 0
    BY <1>3, BoundsAssumption DEF countdownBefore
  <2>2. UNCHANGED <<deactivation_verify_countdown, controllers_to_deactivate, requests>>
    BY <1>2, <1>3, <2>1 DEF requestsSent
  <2>3. UNCHANGED pending_controller_deactivation
    BY <1>2, <2>1 DEF TypeOK, TypeFlags
  <2>4. QED
    BY <1>3, <2>2, <2>3 DEF recoveryVars
<1>4. CASE countdownBefore # 0
  BY <1>1, <1>2, <1>4
<1>5. QED
  BY <1>3, <1>4

LEMMA ListKept == TypeOK /\ ListInv /\ [Next]_vars => ListInv'
<1> SUFFICES ASSUME TypeOK, ListInv, [Next]_vars
             PROVE  ListInv'
  OBVIOUS
<1> USE DEF ListInv, recoveryVars
<1>1. CASE Countdown
  <2>1. countdownBefore \in 0..VerifyCycles
    BY BoundsAssumption DEF TypeOK, TypeData, countdownBefore
  <2>2. CASE UNCHANGED <<recoveryVars, requests>>
    BY <2>2
  <2>3. CASE /\ countdownBefore > 1
             /\ ~pending_controller_deactivation'
             /\ deactivation_verify_countdown' = countdownBefore - 1
             /\ UNCHANGED controllers_to_deactivate
    <3>1. countdownBefore > 0 => controllers_to_deactivate # {}
      BY BoundsAssumption DEF countdownBefore
    <3>2. QED
      BY <2>1, <2>3, <3>1, BoundsAssumption
  <2>4. QED
    BY <1>1, <2>2, <2>3, CountdownGoesOn
<1>2. CASE VerifyRestores \/ VerifyWarns
  BY <1>2, BoundsAssumption DEF VerifyRestores, VerifyWarns
<1>3. CASE ClearFaultsRecovered
  BY <1>3 DEF ClearFaultsRecovered
<1>4. CASE Taking
  BY <1>4 DEF Taking, ApplySwitch, LoseSwitch
<1>5. CASE Aside
  BY <1>5, AsideKeepsSchedule
<1>6. CASE UNCHANGED vars
  BY <1>6 DEF vars
<1>7. QED
  BY <1>1, <1>2, <1>3, <1>4, <1>5, <1>6, ScheduleSteps

\* Before a list has been asked to go, and only then, the schedule is at its start.
LEMMA ScheduleAsks ==
  ASSUME TypeOK, ListInv
  PROVE  /\ countdownBefore = VerifyCycles <=> pending_controller_deactivation
         /\ Schedule!Asked = requestsSent
<1>1. countdownBefore = VerifyCycles <=> pending_controller_deactivation
  BY BoundsAssumption DEF TypeOK, TypeData, ListInv, countdownBefore
<1>2. QED
  BY <1>1 DEF Schedule!Asked, Schedule!Ask, requestsSent

\* What the schedule sees of a step.
LEMMA ScheduleStep ==
  TypeOK /\ ListInv /\ ListInv' /\ [Next]_vars
    => [Schedule!Next]_<<controllers_to_deactivate, countdownBefore, requests>>
<1> SUFFICES ASSUME TypeOK, ListInv, ListInv', [Next]_vars
             PROVE  [Schedule!Next]_<<controllers_to_deactivate, countdownBefore, requests>>
  OBVIOUS
<1> USE DEF recoveryVars
<1>0. /\ countdownBefore \in 0..VerifyCycles
      /\ countdownBefore' = IF pending_controller_deactivation' THEN VerifyCycles
                                                               ELSE deactivation_verify_countdown'
  BY BoundsAssumption DEF TypeOK, TypeData, countdownBefore
<1>1. CASE Countdown
  <2>1. CASE UNCHANGED <<recoveryVars, requests>>
    BY <2>1 DEF countdownBefore
  <2>2. CASE /\ countdownBefore > 1
             /\ ~pending_controller_deactivation'
             /\ deactivation_verify_countdown' = countdownBefore - 1
             /\ requests' = requestsSent
             /\ UNCHANGED controllers_to_deactivate
    <3>1. Schedule!Wait
      BY <1>0, <2>2, ScheduleAsks DEF Schedule!Wait
    <3>2. QED
      BY <3>1 DEF Schedule!Next
  <2>3. QED
    BY <1>1, <2>1, <2>2, CountdownGoesOn
<1>2. CASE VerifyRestores \/ VerifyWarns
  <2>1. /\ countdownBefore = 1 /\ controllers_to_deactivate' = {} /\ countdownBefore' = 0
        /\ requests' \in {requestsSent, requestsSent \cup
             {[op |-> "activate", controllers |-> controllers_to_deactivate]}}
    BY <1>0, <1>2 DEF VerifyRestores, VerifyWarns, VerificationDue
  <2>2. Schedule!Conclude
    BY <2>1, ScheduleAsks DEF Schedule!Conclude, Schedule!Ask
  <2>3. QED
    BY <2>2 DEF Schedule!Next
<1>3. CASE ClearFaultsRecovered
  <2>1. UNCHANGED requests
    BY <1>3 DEF ClearFaultsRecovered, managerVars
  <2>2. CASE active_controllers # {}
    <3>1. /\ controllers_to_deactivate' = active_controllers
          /\ pending_controller_deactivation' = TRUE
      BY <1>3, <2>2 DEF ClearFaultsRecovered
    <3>2. countdownBefore' = VerifyCycles
      BY <1>0, <3>1
    <3>3. controllers_to_deactivate' \in (SUBSET MotionControllers) \ {{}}
      BY <2>2, <3>1 DEF TypeOK, TypeData
    <3>4. Schedule!Recover
      BY <2>1, <3>2, <3>3 DEF Schedule!Recover
    <3>5. QED
      BY <3>4 DEF Schedule!Next
  <2>3. CASE active_controllers = {}
    BY <1>3, <2>1, <2>3 DEF ClearFaultsRecovered, countdownBefore
  <2>4. QED
    BY <2>2, <2>3
<1>4. CASE Taking
  <2>1. UNCHANGED recoveryVars /\ \E r \in requests : requests' = requests \ {r}
    BY <1>4 DEF Taking, ApplySwitch, LoseSwitch
  <2>2. Schedule!Take
    BY <2>1 DEF Schedule!Take, countdownBefore
  <2>3. QED
    BY <2>2 DEF Schedule!Next
<1>5. CASE Aside
  BY <1>5, AsideKeepsSchedule DEF countdownBefore
<1>6. CASE UNCHANGED vars
  BY <1>6 DEF vars, managerVars, countdownBefore
<1>7. QED
  BY <1>1, <1>2, <1>3, <1>4, <1>5, <1>6, ScheduleSteps

\* For every countdown and every set of controllers the flag, the list and the counter
\* implement the schedule of a recovery, through faults, failed calls and recoveries that
\* overtake each other.
THEOREM RecoveryFollowsSchedule == Spec => ImplementsSchedule
<1>1. Init => ListInv
  BY BoundsAssumption DEF Init, ListInv
<1>2. Init => Schedule!Init
  BY DEF Init, Schedule!Init, countdownBefore
<1>3. QED
  BY <1>1, <1>2, TypeCorrect, ListKept, ScheduleStep, PTL
     DEF Spec, ImplementsSchedule, Schedule!Spec

-----------------------------------------------------------------------------
(* Who is owed a reactivation.                                              *)

\* The list covers whom a recovery has stopped, and what a recovery has found active still
\* is when it ends: no controller is switched inside read(), so a recovery that replaces
\* the list finds some controller running.
OwedInv ==
  /\ owed \subseteq controllers_to_deactivate
  /\ phase \in ClearFaultsSteps /\ active_controllers # {} => active # {}

\* What is neither a recovery's end, a judgement nor a switch owes nobody anything new.
LEMMA AsideOwesNothing ==
  ASSUME OwedInv, Aside
  PROVE  OwedInv'
<1> USE DEF OwedInv, ClearFaultsSteps, managerVars, holdVars
<1>1. owed' \subseteq owed
  <2>1. CASE World
    BY <2>1 DEF World, ArmMoves, ModeMoves, ProgramStarts, ProgramEnds, Tick, Chosen
  <2>2. CASE Write
    BY <2>2 DEF Write, WriteBlocked, WriteSends, WriteRejected, WriteException, writeUnchanged
  <2>3. CASE (\E c \in SUBSET MotionControllers : UserSwitch(c)) \/ UpdateDone
    BY <2>3 DEF UserSwitch, UpdateDone
  <2>4. CASE (\E m \in Modes : handle_set_operating_mode(m)) \/ handle_run_program
               \/ handle_stop_program
    BY <2>4 DEF handle_set_operating_mode, handle_run_program, handle_stop_program, Chosen,
                OwnAuto
  <2>5. CASE \/ ReadFault \/ ReadFeedback \/ ReadException \/ PollStatus \/ PollException
             \/ SpinDone
    BY <2>5 DEF ReadFault, ReadFeedback, ReadException, PollStatus, PollException, SpinDone
  <2>6. CASE \/ ClearFaultsListed \/ ClearFaultsRefused \/ ClearFaultsCalled
             \/ ClearFaultsGuides \/ ClearFaultsOperational \/ ClearFaultsAnyway
             \/ ClearFaultsExits \/ ClearFaultsGivesUp
    BY <2>6 DEF ClearFaultsListed, ClearFaultsRefused, ClearFaultsCalled, ClearFaultsGuides,
                ClearFaultsOperational, ClearFaultsAnyway, ClearFaultsExits,
                ClearFaultsGivesUp, OwnAuto
  <2>7. QED
    BY <2>1, <2>2, <2>3, <2>4, <2>5, <2>6 DEF Aside
<1>2. phase' \in ClearFaultsSteps /\ active_controllers' # {} => active' # {}
  <2>1. CASE World
    BY <2>1 DEF World, ArmMoves, ModeMoves, ProgramStarts, ProgramEnds, Tick
  <2>2. CASE Write
    BY <2>2 DEF Write, WriteBlocked, WriteSends, WriteRejected, WriteException,
                writeUnchanged, ErrorReturned
  <2>3. CASE (\E c \in SUBSET MotionControllers : UserSwitch(c)) \/ UpdateDone
    BY <2>3 DEF UserSwitch, UpdateDone
  <2>4. CASE (\E m \in Modes : handle_set_operating_mode(m)) \/ handle_run_program
               \/ handle_stop_program
    BY <2>4 DEF handle_set_operating_mode, handle_run_program, handle_stop_program
  <2>5. CASE \/ ReadFault \/ ReadFeedback \/ ReadException \/ PollStatus \/ PollException
             \/ SpinDone
    BY <2>5 DEF ReadFault, ReadFeedback, ReadException, PollStatus, PollException, SpinDone,
                ErrorReturned
  <2>6. CASE ClearFaultsListed
    BY <2>6 DEF ClearFaultsListed, get_active_motion_controllers
  <2>7. CASE \/ ClearFaultsRefused \/ ClearFaultsCalled \/ ClearFaultsGuides
             \/ ClearFaultsOperational \/ ClearFaultsAnyway \/ ClearFaultsExits
             \/ ClearFaultsGivesUp
    BY <2>7 DEF ClearFaultsRefused, ClearFaultsCalled, ClearFaultsGuides,
                ClearFaultsOperational, ClearFaultsAnyway, ClearFaultsExits,
                ClearFaultsGivesUp
  <2>8. QED
    BY <2>1, <2>2, <2>3, <2>4, <2>5, <2>6, <2>7 DEF Aside
<1>3. QED
  BY <1>1, <1>2, AsideKeepsSchedule DEF recoveryVars

LEMMA OwedKept == OwedInv /\ [Next]_vars => OwedInv'
<1> SUFFICES ASSUME OwedInv, [Next]_vars
             PROVE  OwedInv'
  OBVIOUS
<1> USE DEF OwedInv, ClearFaultsSteps, holdVars, managerVars, recoveryVars
<1>1. CASE Countdown
  BY <1>1 DEF Countdown
<1>2. CASE VerifyRestores \/ VerifyWarns
  BY <1>2 DEF VerifyRestores, VerifyWarns, Judged
\* A recovery that finds nobody leaves the list to those it was made for.
<1>3. CASE ClearFaultsRecovered
  <2>1. CASE active # {}
    BY <1>3, <2>1 DEF ClearFaultsRecovered, StartsOver
  <2>2. CASE active = {}
    <3>1. active_controllers = {}
      BY <1>3, <2>2 DEF ClearFaultsRecovered
    <3>2. QED
      BY <1>3, <2>2, <3>1 DEF ClearFaultsRecovered, StartsOver
  <2>3. QED
    BY <2>1, <2>2
<1>4. CASE Taking
  <2>1. ASSUME NEW r \in requests, ApplySwitch(r)
        PROVE  OwedInv'
    <3>1. owed' \subseteq owed \cup controllers_to_deactivate
      BY <2>1 DEF ApplySwitch
    <3>2. phase' = "update" /\ UNCHANGED controllers_to_deactivate
      BY <2>1 DEF ApplySwitch
    <3>3. QED
      BY <3>1, <3>2
  <2>2. ASSUME NEW r \in requests, LoseSwitch(r)
        PROVE  OwedInv'
    BY <2>2 DEF LoseSwitch
  <2>3. QED
    BY <1>4, <2>1, <2>2 DEF Taking
<1>5. CASE Aside
  BY <1>5, AsideOwesNothing
<1>6. CASE UNCHANGED vars
  BY <1>6 DEF vars
<1>7. QED
  BY <1>1, <1>2, <1>3, <1>4, <1>5, <1>6, ScheduleSteps

\* For every set of controllers, every countdown and all failures: a controller stopped by
\* a recovery stays on the list with its judgement to come, unless a further recovery finds
\* other controllers running.
THEOREM NothingIsForgotten == Spec => []NoneForgotten
<1>1. Init => OwedInv
  BY DEF Init, OwedInv, ClearFaultsSteps
<1>2. Init => ListInv
  BY BoundsAssumption DEF Init, ListInv
<1>3. OwedInv /\ ListInv => NoneForgotten
  BY DEF OwedInv, ListInv, NoneForgotten
<1>4. QED
  BY <1>1, <1>2, <1>3, TypeCorrect, OwedKept, ListKept, PTL DEF Spec

-----------------------------------------------------------------------------
(* Faults.                                                                  *)

\* From one RefreshFeedback to the next write() a fault that the driver has read keeps
\* its flag, unless clear_faults is at it.
FaultInv ==
  /\ fault_seen => arm = "IN_FAULT"
  /\ phase \in {"cf_refetch", "cf_guiding", "cf_wait"} => clearing
  /\ phase \notin {"read", "halted"} => (fault_seen => in_fault \/ clearing)

LEMMA FaultKept == FaultInv /\ [Next]_vars => FaultInv'
<1> SUFFICES ASSUME FaultInv, [Next]_vars
             PROVE  FaultInv'
  OBVIOUS
<1> USE DEF FaultInv, robotVars
<1>1. CASE Read
  <2>1. CASE ReadFault \/ ReadFeedback \/ ReadException
    BY <2>1 DEF ReadFault, ReadFeedback, ReadException, ErrorReturned
  <2>2. CASE PollStatus \/ PollException \/ SpinDone
    BY <2>2 DEF PollStatus, PollException, SpinDone
  <2>3. CASE Countdown \/ VerifyRestores \/ VerifyWarns
    BY <2>3 DEF Countdown, VerifyRestores, VerifyWarns
  <2>4. QED
    BY <1>1, <2>1, <2>2, <2>3 DEF Read
<1>2. CASE ClearFaults
  <2>1. CASE ClearFaultsListed \/ ClearFaultsRefused \/ ClearFaultsGuides
    BY <2>1 DEF ClearFaultsListed, ClearFaultsRefused, ClearFaultsGuides
  <2>2. CASE ClearFaultsCalled
    <3>1. fault_seen' = (arm' = "IN_FAULT") /\ clearing' = TRUE /\ phase' = "cf_refetch"
      BY <2>2 DEF ClearFaultsCalled
    <3>2. QED
      BY <3>1
  <2>3. CASE ClearFaultsAnyway
    <3>1. /\ fault_seen' = (arm' = "IN_FAULT") /\ clearing' = clearing
          /\ phase = "cf_refetch" /\ phase' = "spin"
      BY <2>3 DEF ClearFaultsAnyway
    <3>2. QED
      BY <3>1
  <2>4. CASE ClearFaultsOperational \/ ClearFaultsExits \/ ClearFaultsRecovered
    BY <2>4 DEF ClearFaultsOperational, ClearFaultsExits, ClearFaultsRecovered
  <2>5. CASE ClearFaultsGivesUp
    BY <2>5 DEF ClearFaultsGivesUp, ClearFaultsSteps
  <2>6. QED
    BY <1>2, <2>1, <2>2, <2>3, <2>4, <2>5 DEF ClearFaults
<1>3. CASE Handlers
  <2>1. ASSUME NEW m \in Modes, handle_set_operating_mode(m)
        PROVE  FaultInv'
    BY <2>1 DEF handle_set_operating_mode
  <2>2. CASE handle_run_program
    BY <2>2 DEF handle_run_program
  <2>3. CASE handle_stop_program
    <3>1. UNCHANGED <<phase, in_fault, arm, fault_seen, clearing>>
      BY <2>3 DEF handle_stop_program
    <3>2. QED
      BY <3>1
  <2>4. QED
    BY <1>2, <1>3, <2>1, <2>2, <2>3 DEF Handlers
<1>4. CASE Manager
  BY <1>4 DEF Manager, ApplySwitch, LoseSwitch, UserSwitch, UpdateDone
\* The guards are behind: what they let pass is over until the next RefreshFeedback.
<1>5. CASE Write
  BY <1>5 DEF Write, WriteBlocked, WriteSends, WriteRejected, WriteException, ErrorReturned,
              writeUnchanged
<1>6. CASE World
  <2>1. CASE ArmMoves
    <3>1. /\ fault_seen' = (fault_seen /\ arm' = "IN_FAULT")
          /\ UNCHANGED <<phase, in_fault, clearing>>
      BY <2>1 DEF ArmMoves
    <3>2. QED
      BY <3>1
  <2>2. CASE ModeMoves \/ ProgramStarts \/ ProgramEnds \/ Tick
    BY <2>2 DEF ModeMoves, ProgramStarts, ProgramEnds, Tick
  <2>3. QED
    BY <1>6, <2>1, <2>2 DEF World
<1>7. CASE UNCHANGED vars
  BY <1>7 DEF vars
<1>8. QED
  BY <1>1, <1>2, <1>3, <1>4, <1>5, <1>6, <1>7 DEF Next

\* However calls fail, commands are rejected and recoveries are given up, a fault that the
\* driver has read lets no command pass except in the cycle of a clear_faults call.
THEOREM FaultBlocks == Spec => []FaultBlocksUnlessClearing
<1>1. Init => FaultInv
  BY DEF Init, FaultInv
<1>2. FaultInv => FaultBlocksUnlessClearing
  BY DEF FaultInv, FaultBlocksUnlessClearing, GateOpen
<1>3. QED
  BY <1>1, <1>2, FaultKept, PTL DEF Spec

=============================================================================
