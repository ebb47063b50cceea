-------------------------- MODULE GripperBus_proofs --------------------------
(***************************************************************************)
(* What the gripper side of the low-level driver guarantees for every       *)
(* number of grippers, every scale of their registers, every set of wanted  *)
(* angles and every choice of what may fail.                                *)
(***************************************************************************)
EXTENDS GripperBus, GripperController_proofs

-----------------------------------------------------------------------------
(* Who is where.                                                            *)

\* How the two threads keep out of each other's way.  The thread exists only between
\* its start and its join; the bus and the mutex tell who is in an exchange; and
\* who serves a gripper has one to serve.
ControlInv ==
  /\ thread # "gone" => cm \in {"read", "update", "write", "join"}
  /\ cm # "inactive" => session
  /\ "cm" \in bus <=> cm \in {"initializing", "closing"}
  /\ "thread" \in bus <=> thread \in {"reading", "sending"}
  /\ mutex = "cm" <=> cm = "closing"
  /\ mutex = "thread" <=> thread \in {"reading", "sending"}
  /\ cm \in {"initializing", "seed", "closing"} => cm_at \in Grippers
  /\ thread \in {"poll", "reading", "fetch", "sending"} =>
       thread_at \in Grippers /\ initialized[thread_at]

LEMMA ControlInit == Init => TypeControl /\ ControlInv
<1> SUFFICES ASSUME Init
             PROVE  TypeControl /\ ControlInv
  OBVIOUS
<1>1. 1 \in 1 .. NumGrippers + 1
  BY GrippersAssumption
<1>2. [g \in Grippers |-> FALSE] \in [Grippers -> BOOLEAN]
  OBVIOUS
<1>3. initialized = [g \in Grippers |-> FALSE]
  BY DEF Init
<1>4. initialized \in [Grippers -> BOOLEAN]
  BY <1>2, <1>3
<1>5. /\ cm = "inactive" /\ cm_at = 1 /\ thread = "gone" /\ thread_at = 1
      /\ running = FALSE /\ session = FALSE /\ in_fault = FALSE
      /\ mutex = "nobody" /\ bus = {} /\ late = 0 /\ activations = 0
  BY DEF Init
<1>6. QED
  BY <1>1, <1>4, <1>5 DEF TypeControl, ControlInv

LEMMA ControlKept ==
  TypeControl /\ ControlInv /\ [Next]_vars => TypeControl' /\ ControlInv'
<1> SUFFICES ASSUME TypeControl, ControlInv, [Next]_vars
             PROVE  TypeControl' /\ ControlInv'
  OBVIOUS
<1> USE GrippersAssumption
        DEF TypeControl, ControlInv, cmVars, threadVars, busVars, controllerVars, exchangeVars,
            gripperVars, historyVars, cmUnchanged, worldUnchanged, Grippers
<1>0. 1 \in 1 .. NumGrippers + 1
  OBVIOUS
<1>1. CASE OnActivate
  <2>1. CASE Activate
    BY <2>1 DEF Activate
  <2>2. CASE InitializeBegins
    BY <2>2 DEF InitializeBegins
  <2>3. CASE InitializeFails
    BY <2>3 DEF InitializeFails
  <2>4. CASE InitializeSucceeds
    BY <2>4 DEF InitializeSucceeds
  <2>5. CASE Seed
    BY <2>5 DEF Seed
  <2>6. CASE StartThread
    BY <2>6 DEF StartThread
  <2>7. QED
    BY <1>1, <2>1, <2>2, <2>3, <2>4, <2>5, <2>6 DEF OnActivate
<1>2. CASE OnDeactivate
  <2>1. CASE Deactivate \/ Joined
    BY <1>0, <2>1 DEF Deactivate, Joined
  <2>2. CASE ShutdownBegins
    BY <2>2 DEF ShutdownBegins
  <2>3. CASE ShutdownEnds
    BY <2>3 DEF ShutdownEnds
  <2>4. CASE CloseSession
    BY <2>4 DEF CloseSession
  <2>5. QED
    BY <1>2, <2>1, <2>2, <2>3, <2>4 DEF OnDeactivate
<1>3. CASE Cycle
  <2>1. CASE Read
    BY <2>1 DEF Read
  <2>2. CASE UpdateDone \/ WriteForwards \/ WriteBlocked
    BY <2>2 DEF UpdateDone, WriteForwards, WriteBlocked
  <2>3. ASSUME NEW g \in Grippers, NEW a \in Wanted, Command(g, a)
        PROVE  TypeControl' /\ ControlInv'
    BY <2>3 DEF Command
  <2>4. QED
    BY <1>3, <2>1, <2>2, <2>3 DEF Cycle
<1>4. CASE gripperThreadLoop
  <2>1. CASE LoopGoesOn \/ LoopEnds \/ Sleep
    BY <1>0, <2>1 DEF LoopGoesOn, LoopEnds, Sleep
  <2>2. CASE Serve
    BY <2>2 DEF Serve, Served
  <2>10. CASE PassOver
    BY <2>10 DEF PassOver
  <2>3. CASE PollCached
    BY <2>3 DEF PollCached
  <2>4. CASE PollReads
    BY <2>4 DEF PollReads
  <2>5. CASE ReadEnds
    BY <2>5 DEF ReadEnds
  <2>6. CASE FetchSkips
    BY <2>6 DEF FetchSkips
  <2>7. CASE FetchSends
    BY <2>7 DEF FetchSends
  <2>8. CASE SendEnds
    BY <2>8 DEF SendEnds
  <2>9. QED
    BY <1>4, <2>1, <2>2, <2>3, <2>4, <2>5, <2>6, <2>7, <2>8, <2>10
       DEF gripperThreadLoop
<1>5. CASE World
  <2>1. UNCHANGED <<cmVars, threadVars, running, busVars, in_fault, initialized, late, activations>>
    BY <1>5 DEF World, PollDue, SendDue, GripperMoves, OthersMove
  <2>2. QED
    BY <2>1
<1>6. CASE UNCHANGED vars
  BY <1>6 DEF vars
<1>7. QED
  BY <1>1, <1>2, <1>3, <1>4, <1>5, <1>6 DEF Next

LEMMA CommandAngles == \A c \in Commands \cup {NoCommand} : c.angle \in Int
<1>1. Wanted \cup Angles \subseteq Int
  BY GrippersAssumption, MaxAngleNat DEF Angles
<1>2. \A c \in Commands : c.angle \in Wanted \cup Angles
  BY DEF Commands
<1>3. NoCommand.angle \in Int
  BY DEF NoCommand, NaN
<1>4. QED
  BY <1>1, <1>2, <1>3

-----------------------------------------------------------------------------
(* Types.                                                                   *)

LEMMA SeedStep ==
  ASSUME TypeOK, cm_at \in Grippers, Seed
  PROVE  \E angle \in Angles :
           /\ position' = [position EXCEPT ![cm_at] = position'[cm_at]]
           /\ position'[cm_at] \in {angle, position[cm_at]}
           /\ pos' = [pos EXCEPT ![cm_at] = angle]
           /\ pos_atomic' = [pos_atomic EXCEPT ![cm_at] = angle]
           /\ cmd' = [cmd EXCEPT ![cm_at] = [n |-> 1, angle |-> angle]]
           /\ cmd_atomic' = [cmd_atomic EXCEPT ![cm_at] = [n |-> 1, angle |-> angle]]
           /\ issued' = [issued EXCEPT ![cm_at] = {[n |-> 1, angle |-> angle]}]
<1>1. ASSUME NEW read \in BOOLEAN
      PROVE  FirstReading(cm_at, read) \in Angles
  BY AngleInRange, MaxAngleNat DEF FirstReading, TypeOK, TypeFields, TypeGrippers, Angles
<1>2. PICK read \in BOOLEAN :
        LET angle == FirstReading(cm_at, read)
            seed == [n |-> 1, angle |-> angle]
        IN /\ position' = [position EXCEPT ![cm_at] = IF read THEN angle ELSE @]
           /\ pos' = [pos EXCEPT ![cm_at] = angle]
           /\ pos_atomic' = [pos_atomic EXCEPT ![cm_at] = angle]
           /\ cmd' = [cmd EXCEPT ![cm_at] = seed]
           /\ cmd_atomic' = [cmd_atomic EXCEPT ![cm_at] = seed]
           /\ issued' = [issued EXCEPT ![cm_at] = {seed}]
  BY DEF Seed, SeedAtomic
<1>3. QED
  BY <1>1, <1>2 DEF TypeOK, TypeFields

LEMMA TypeInit == Init => TypeOK
<1> SUFFICES ASSUME Init PROVE TypeFields /\ TypeGrippers
  BY ControlInit DEF TypeOK
<1>1. 0 \in Angles
  BY MaxAngleNat DEF Angles
<1>2. \A S : [g \in Grippers |-> TRUE] \in [Grippers -> BOOLEAN]
  OBVIOUS
<1>3. TypeFields
  BY <1>1, <1>2 DEF Init, TypeFields
<1>4. TypeGrippers
  BY DEF Init, TypeGrippers
<1>5. QED
  BY <1>3, <1>4

\* No step of the manager's thread takes a field out of its type.
LEMMA ManagerTypes ==
  TypeOK /\ ControlInv /\ (OnActivate \/ OnDeactivate \/ Cycle) => TypeFields' /\ TypeGrippers'
<1> SUFFICES ASSUME TypeOK, ControlInv, OnActivate \/ OnDeactivate \/ Cycle
             PROVE  TypeFields' /\ TypeGrippers'
  OBVIOUS
<1> USE DEF TypeOK, TypeFields, TypeGrippers, controllerVars, exchangeVars, gripperVars,
            historyVars
<1>1. CASE Activate \/ InitializeBegins \/ InitializeFails \/ StartThread
  BY <1>1 DEF Activate, InitializeBegins, InitializeFails, StartThread
<1>2. CASE InitializeSucceeds
  <2>1. cm_at \in Grippers /\ actual[cm_at] \in Counts
    BY <1>2 DEF InitializeSucceeds, ControlInv
  <2>2. TypeFields'
    BY <1>2, <2>1 DEF InitializeSucceeds, LimitsOver
  <2>3. TypeGrippers'
    BY <1>2, <2>1 DEF InitializeSucceeds
  <2>4. QED
    BY <2>2, <2>3
<1>3. CASE Seed
  <2>1. cm_at \in Grippers
    BY <1>3 DEF Seed, ControlInv
  <2>2. \A angle \in Angles : [n |-> 1, angle |-> angle] \in Commands
    BY LimitsAssumption DEF Commands
  <2>3. TypeFields'
    <3>1. UNCHANGED <<send_due, last_cmd, fetched>> /\ poll_due' = [poll_due EXCEPT ![cm_at] = FALSE]
      BY <1>3 DEF Seed
    <3>2. QED
      BY <1>3, <2>1, <2>2, <3>1, SeedStep
  <2>4. TypeGrippers'
    <3>1. /\ UNCHANGED <<goal, actual, been>>
          /\ delivered' = [delivered EXCEPT ![cm_at] = NoCommand]
      BY <1>3 DEF Seed
    <3>2. QED
      BY <1>3, <2>1, <2>2, <3>1, SeedStep
  <2>5. QED
    BY <2>3, <2>4
<1>4. CASE OnDeactivate
  BY <1>4 DEF OnDeactivate, Deactivate, Joined, ShutdownBegins, ShutdownEnds, CloseSession
<1>5. CASE Read \/ UpdateDone \/ WriteForwards \/ WriteBlocked
  BY <1>5 DEF Read, UpdateDone, WriteForwards, WriteBlocked
<1>6. ASSUME NEW g \in Grippers, NEW a \in Wanted, Command(g, a)
      PROVE  TypeFields' /\ TypeGrippers'
  <2>1. cmd[g].n \in Nat /\ cmd[g].n < MaxCommands
    BY <1>6 DEF Command, Commands, NoCommand
  <2>2. [n |-> cmd[g].n + 1, angle |-> a] \in Commands
    BY <2>1, LimitsAssumption DEF Commands
  <2>3. /\ cmd' = [cmd EXCEPT ![g] = [n |-> cmd[g].n + 1, angle |-> a]]
        /\ issued' = [issued EXCEPT ![g] = @ \cup {[n |-> cmd[g].n + 1, angle |-> a]}]
    BY <1>6 DEF Command
  <2>4. QED
    BY <1>6, <2>2, <2>3 DEF Command
<1>7. QED
  BY <1>1, <1>2, <1>3, <1>4, <1>5, <1>6 DEF OnActivate, Cycle

\* Nor does a step of the gripper thread, of time or of a gripper.
LEMMA ThreadTypes ==
  TypeOK /\ ControlInv /\ (gripperThreadLoop \/ World) => TypeFields' /\ TypeGrippers'
<1> SUFFICES ASSUME TypeOK, ControlInv, gripperThreadLoop \/ World
             PROVE  TypeFields' /\ TypeGrippers'
  OBVIOUS
<1> USE DEF TypeOK, TypeFields, TypeGrippers, controllerVars, exchangeVars, gripperVars,
            historyVars, cmUnchanged, worldUnchanged
<1>1. CASE LoopGoesOn \/ LoopEnds \/ Serve \/ PassOver \/ Sleep \/ FetchSkips \/ PollReads
  BY <1>1 DEF LoopGoesOn, LoopEnds, Serve, PassOver, Sleep, FetchSkips, PollReads
<1>2. CASE PollCached
  BY <1>2 DEF PollCached, ControlInv
<1>3. CASE ReadEnds
  <2>1. thread_at \in Grippers /\ AngleOf(actual[thread_at]) \in Angles
    BY <1>3, AngleInRange DEF ReadEnds, ControlInv
  <2>2. QED
    BY <1>3, <2>1 DEF ReadEnds
<1>4. CASE FetchSends
  BY <1>4 DEF FetchSends, ControlInv
<1>5. CASE SendEnds
  <2>1. fetched.angle \in Int /\ thread_at \in Grippers
    BY <1>5, CommandAngles DEF SendEnds, ControlInv
  <2>2. /\ Clamped(fetched.angle) \in Angles
        /\ CountOf(Clamped(fetched.angle)) \in Counts
    BY <2>1, ClampedInRange, CountInRange
  <2>3. QED
    BY <1>5, <2>1, <2>2 DEF SendEnds
<1>6. CASE World
  <2>1. PICK g \in Grippers : PollDue(g) \/ SendDue(g) \/ GripperMoves(g) \/ OthersMove(g)
    BY <1>6 DEF World
  <2>2. CASE PollDue(g) \/ SendDue(g)
    BY <2>2 DEF PollDue, SendDue
  <2>3. CASE GripperMoves(g)
    BY <2>3 DEF GripperMoves
  <2>4. CASE OthersMove(g)
    BY <2>4 DEF OthersMove
  <2>5. QED
    BY <2>1, <2>2, <2>3, <2>4
<1>7. QED
  BY <1>1, <1>2, <1>3, <1>4, <1>5, <1>6 DEF gripperThreadLoop

LEMMA TypeKept == TypeOK /\ ControlInv /\ [Next]_vars => TypeOK' /\ ControlInv'
<1> SUFFICES ASSUME TypeOK, ControlInv, [Next]_vars
             PROVE  TypeFields' /\ TypeGrippers'
  BY ControlKept DEF TypeOK
<1>1. CASE UNCHANGED vars
  BY <1>1 DEF vars, TypeOK, TypeFields, TypeGrippers, controllerVars, exchangeVars, gripperVars,
              historyVars
<1>2. QED
  BY <1>1, ManagerTypes, ThreadTypes DEF Next

LEMMA ControlAlways == Spec => [](TypeOK /\ ControlInv)
BY TypeInit, ControlInit, TypeKept, PTL DEF Spec

\* Every field keeps to its type: angles in range, registers within their counts,
\* commands among those that can be given.
THEOREM TypeCorrect == Spec => []TypeOK
BY ControlAlways, PTL

\* An exchange with a gripper takes place only over the open session, with its handle,
\* under the mutex if it is the thread's, and two never meet on the bus.
THEOREM BusIsSafe == Spec => []ExchangesAreSafe
<1>1. TypeOK /\ ControlInv => ExchangesAreSafe
  BY DEF TypeOK, TypeControl, ControlInv, ExchangesAreSafe
<1>2. QED
  BY <1>1, ControlAlways, PTL

-----------------------------------------------------------------------------
(* The fault.                                                               *)

\* Once a command has gone out in a fault, the thread is past the gripper it had let
\* through, and lets no other through until the fault is over.
LateInv ==
  /\ late <= 1
  /\ late > 0 => in_fault /\ thread \notin {"poll", "reading", "fetch"}

LEMMA LateKept == TypeOK /\ LateInv /\ [Next]_vars => LateInv'
<1> SUFFICES ASSUME TypeOK, LateInv, [Next]_vars
             PROVE  LateInv'
  OBVIOUS
<1> USE DEF LateInv, cmVars, threadVars, busVars, controllerVars, exchangeVars, gripperVars,
            historyVars, cmUnchanged, worldUnchanged
<1>0. late \in Nat
  BY DEF TypeOK, TypeControl
<1>1. CASE OnActivate
  BY <1>1 DEF OnActivate, Activate, InitializeBegins, InitializeFails, InitializeSucceeds, Seed,
              StartThread
<1>2. CASE OnDeactivate
  BY <1>2 DEF OnDeactivate, Deactivate, Joined, ShutdownBegins, ShutdownEnds, CloseSession
<1>3. CASE Cycle
  BY <1>0, <1>3 DEF Cycle, Read, UpdateDone, WriteForwards, WriteBlocked, Command
<1>4. CASE gripperThreadLoop
  <2>1. CASE Serve
    BY <2>1, <1>0 DEF Serve, Served
  <2>2. CASE FetchSends
    BY <2>2, <1>0 DEF FetchSends
  <2>3. CASE LoopGoesOn \/ LoopEnds \/ PassOver \/ Sleep \/ PollCached \/ PollReads \/ ReadEnds
             \/ FetchSkips \/ SendEnds
    BY <2>3, <1>0 DEF LoopGoesOn, LoopEnds, PassOver, Sleep, PollCached, PollReads, ReadEnds,
                      FetchSkips, SendEnds
  <2>4. QED
    BY <1>4, <2>1, <2>2, <2>3 DEF gripperThreadLoop
<1>5. CASE World
  BY <1>5 DEF World, PollDue, SendDue, GripperMoves, OthersMove
<1>6. CASE UNCHANGED vars
  BY <1>6 DEF vars
<1>7. QED
  BY <1>1, <1>2, <1>3, <1>4, <1>5, <1>6 DEF Next

\* In a fault one command at most still goes out, however many grippers there are.
THEOREM FaultStops == Spec => []FaultStopsGripper
<1>1. Init => LateInv
  BY DEF Init, LateInv
<1>2. LateInv => FaultStopsGripper
  BY DEF LateInv, FaultStopsGripper
<1>3. QED
  BY <1>1, <1>2, LateKept, TypeCorrect, PTL DEF Spec

-----------------------------------------------------------------------------
(* The register.                                                            *)

\* The grippers that have been given their seed in this activation.
Ready ==
  IF cm \in {"initialize", "initializing", "seed"} THEN {g \in Grippers : g < cm_at}
  ELSE IF cm \in {"read", "update", "write", "join"} THEN Grippers ELSE {}

\* Commands are numbered in the order they are given, and on their way from the
\* controller through the atomic and the thread to the gripper none passes another.
OrderInv ==
  /\ \A g \in Ready : /\ cmd[g] \in issued[g] /\ cmd_atomic[g] \in issued[g]
                      /\ \A c \in issued[g] : c.n <= cmd[g].n
                      /\ delivered[g].n <= cmd_atomic[g].n
  /\ thread = "sending" =>
       /\ fetched \in issued[thread_at]
       /\ delivered[thread_at].n <= fetched.n
       /\ fetched.n <= cmd_atomic[thread_at].n

LEMMA CommandNumbers == \A c \in Commands \cup {NoCommand} : c.n \in Nat
<1>1. \A c \in Commands : c.n \in 1 .. MaxCommands
  BY DEF Commands
<1>2. NoCommand.n = 0
  BY DEF NoCommand
<1>3. QED
  BY <1>1, <1>2, LimitsAssumption

LEMMA OrderKeptByManager ==
  TypeOK /\ ControlInv /\ OrderInv /\ (OnActivate \/ OnDeactivate \/ Cycle) => OrderInv'
<1> SUFFICES ASSUME TypeOK, ControlInv, OrderInv, OnActivate \/ OnDeactivate \/ Cycle
             PROVE  OrderInv'
  OBVIOUS
<1> USE DEF cmVars, threadVars, busVars, controllerVars, exchangeVars, gripperVars, historyVars
<1>1. ASSUME UNCHANGED <<threadVars, exchangeVars, issued, delivered>>, Ready' \subseteq Ready
      PROVE  OrderInv'
  BY <1>1 DEF OrderInv
<1>2. CASE Activate \/ InitializeBegins \/ InitializeFails \/ InitializeSucceeds
  <2>1. Ready' \subseteq Ready
    BY <1>2 DEF Activate, InitializeBegins, InitializeFails, InitializeSucceeds, Ready, Grippers
  <2>2. QED
    BY <1>1, <1>2, <2>1
       DEF Activate, InitializeBegins, InitializeFails, InitializeSucceeds
<1>3. CASE Seed
  <2>1. /\ cm_at \in Grippers /\ thread = "gone" /\ thread' = thread
        /\ delivered' = [delivered EXCEPT ![cm_at] = NoCommand]
    BY <1>3 DEF Seed, ControlInv
  <2>2. Ready' = Ready \cup {cm_at}
    BY <1>3, <2>1 DEF Seed, Ready, Grippers
  <2>3. PICK angle \in Angles :
          /\ cmd' = [cmd EXCEPT ![cm_at] = [n |-> 1, angle |-> angle]]
          /\ cmd_atomic' = [cmd_atomic EXCEPT ![cm_at] = [n |-> 1, angle |-> angle]]
          /\ issued' = [issued EXCEPT ![cm_at] = {[n |-> 1, angle |-> angle]}]
    BY <1>3, <2>1, SeedStep
  <2>4. QED
    BY <2>1, <2>2, <2>3 DEF OrderInv, TypeOK, TypeFields, TypeGrippers, NoCommand, Ready
<1>4. CASE StartThread
  <2>1. Ready' = Ready
    BY <1>4, GrippersAssumption DEF StartThread, Ready, Grippers
  <2>2. QED
    BY <1>4, <2>1 DEF OrderInv, StartThread
<1>5. CASE OnDeactivate
  <2>1. Ready' \subseteq Ready
    BY <1>5 DEF OnDeactivate, Deactivate, Joined, ShutdownBegins, ShutdownEnds, CloseSession,
                Ready
  <2>2. QED
    BY <1>1, <1>5, <2>1
       DEF OnDeactivate, Deactivate, Joined, ShutdownBegins, ShutdownEnds, CloseSession
<1>6. CASE Read \/ UpdateDone \/ WriteBlocked
  <2>1. Ready' = Ready
    BY <1>6 DEF Read, UpdateDone, WriteBlocked, Ready
  <2>2. QED
    BY <1>6, <2>1 DEF Read, UpdateDone, WriteBlocked, OrderInv
<1>7. CASE WriteForwards
  <2>1. /\ Ready' = Ready /\ Ready = Grippers /\ cmd_atomic' = cmd
        /\ UNCHANGED <<threadVars, cmd, fetched, issued, delivered>>
    BY <1>7 DEF WriteForwards, Ready
  <2>2. \A g \in Grippers :
          /\ cmd[g].n \in Nat /\ cmd_atomic[g].n \in Nat /\ delivered[g].n \in Nat
          /\ cmd_atomic[g].n <= cmd[g].n
    BY <2>1, CommandNumbers DEF OrderInv, TypeOK, TypeFields, TypeGrippers
  <2>3. thread = "sending" => thread_at \in Grippers /\ fetched.n \in Nat
    BY CommandNumbers DEF ControlInv, TypeOK, TypeFields
  <2>4. QED
    BY <2>1, <2>2, <2>3 DEF OrderInv
<1>8. ASSUME NEW g \in Grippers, NEW a \in Wanted, Command(g, a)
      PROVE  OrderInv'
  <2>1. Ready' = Ready /\ Ready = Grippers
    BY <1>8 DEF Command, Ready
  <2> DEFINE c == [n |-> cmd[g].n + 1, angle |-> a]
  <2>2. /\ cmd' = [cmd EXCEPT ![g] = c]
        /\ issued' = [issued EXCEPT ![g] = @ \cup {c}]
        /\ UNCHANGED <<threadVars, cmd_atomic, fetched, delivered>>
    BY <1>8 DEF Command, TypeOK, TypeFields
  <2>3. cmd[g].n \in Nat /\ c.n = cmd[g].n + 1 /\ \A d \in issued[g] : d.n \in Nat
    BY <2>2, CommandNumbers DEF TypeOK, TypeFields, TypeGrippers
  <2>4. QED
    BY <2>1, <2>2, <2>3 DEF OrderInv, TypeOK, TypeFields, TypeGrippers
<1>9. QED
  BY <1>2, <1>3, <1>4, <1>5, <1>6, <1>7, <1>8 DEF OnActivate, Cycle

LEMMA OrderKeptByThread ==
  TypeOK /\ ControlInv /\ OrderInv /\ (gripperThreadLoop \/ World) => OrderInv'
<1> SUFFICES ASSUME TypeOK, ControlInv, OrderInv, gripperThreadLoop \/ World
             PROVE  OrderInv'
  OBVIOUS
<1> USE DEF cmVars, threadVars, busVars, controllerVars, exchangeVars, gripperVars, historyVars,
            cmUnchanged, worldUnchanged
<1>1. Ready' = Ready /\ UNCHANGED <<cmd, cmd_atomic, issued>>
  BY DEF gripperThreadLoop, LoopGoesOn, LoopEnds, Serve, PassOver, Sleep, PollCached, PollReads,
         ReadEnds, FetchSkips, FetchSends, SendEnds, World, PollDue, SendDue, GripperMoves,
         OthersMove, Ready
<1>2. thread # "gone" => Ready = Grippers
  BY DEF ControlInv, Ready
<1>3. CASE LoopGoesOn \/ LoopEnds \/ Serve \/ PassOver \/ Sleep \/ PollCached \/ PollReads
           \/ ReadEnds \/ FetchSkips
  <2>1. thread' # "sending" /\ UNCHANGED delivered
    BY <1>3 DEF LoopGoesOn, LoopEnds, Serve, PassOver, Sleep, PollCached, PollReads, ReadEnds,
                FetchSkips
  <2>2. QED
    BY <1>1, <2>1 DEF OrderInv
<1>4. CASE FetchSends
  <2>1. /\ thread_at \in Grippers /\ thread_at' = thread_at /\ Ready = Grippers
        /\ fetched' = cmd_atomic[thread_at] /\ UNCHANGED delivered
    BY <1>2, <1>4 DEF FetchSends, ControlInv
  <2>2. cmd_atomic[thread_at].n \in Nat
    BY <2>1, CommandNumbers DEF TypeOK, TypeFields
  <2>3. QED
    BY <1>1, <2>1, <2>2 DEF OrderInv
<1>5. CASE SendEnds
  <2>1. /\ thread' # "sending"
        /\ thread = "sending" /\ thread_at \in Grippers /\ Ready = Grippers
        /\ UNCHANGED delivered \/ delivered' = [delivered EXCEPT ![thread_at] = fetched]
    BY <1>2, <1>5 DEF SendEnds, ControlInv
  <2>2. QED
    BY <1>1, <2>1 DEF OrderInv, TypeOK, TypeGrippers
<1>6. CASE World
  <2>1. UNCHANGED <<thread, thread_at, fetched, delivered>>
    BY <1>6 DEF World, PollDue, SendDue, GripperMoves, OthersMove
  <2>2. QED
    BY <1>1, <2>1 DEF OrderInv
<1>7. QED
  BY <1>3, <1>4, <1>5, <1>6 DEF gripperThreadLoop

LEMMA OrderAlways == Spec => []OrderInv
<1>1. Init => OrderInv
  BY DEF Init, OrderInv, Ready
<1>2. TypeOK /\ ControlInv /\ OrderInv /\ [Next]_vars => OrderInv'
  <2>1. OrderInv /\ UNCHANGED vars => OrderInv'
    BY DEF OrderInv, Ready, vars, cmVars, threadVars, exchangeVars, historyVars
  <2>2. QED
    BY <2>1, OrderKeptByManager, OrderKeptByThread DEF Next
<1>3. QED
  BY <1>1, <1>2, ControlAlways, PTL DEF Spec

\* Every step is one of the register or leaves it alone: a seed begins, a controller
\* issues, and the end of a request delivers.
LEMMA RegisterStep ==
  TypeOK /\ ControlInv /\ OrderInv /\ [Next]_vars => [Register!Next]_<<issued, delivered>>
<1> SUFFICES ASSUME TypeOK, ControlInv, OrderInv, [Next]_vars
             PROVE  Register!Next \/ UNCHANGED <<issued, delivered>>
  OBVIOUS
<1> USE DEF historyVars, cmUnchanged, worldUnchanged
<1>1. CASE Seed
  <2>1. /\ cm_at \in Grippers
        /\ delivered' = [delivered EXCEPT ![cm_at] = NoCommand]
    BY <1>1 DEF Seed, ControlInv
  <2>2. PICK angle \in Angles :
          issued' = [issued EXCEPT ![cm_at] = {[n |-> 1, angle |-> angle]}]
    BY <1>1, <2>1, SeedStep
  <2>3. [n |-> 1, angle |-> angle] \in Commands
    BY LimitsAssumption DEF Commands
  <2>4. Register!Begin(cm_at, [n |-> 1, angle |-> angle])
    BY <2>1, <2>2 DEF Register!Begin
  <2>5. QED
    BY <2>1, <2>3, <2>4 DEF Register!Next
<1>2. ASSUME NEW g \in Grippers, NEW a \in Wanted, Command(g, a)
      PROVE  Register!Next
  <2> DEFINE c == [n |-> cmd[g].n + 1, angle |-> a]
  <2>1. /\ issued' = [issued EXCEPT ![g] = @ \cup {c}]
        /\ UNCHANGED delivered
        /\ cmd[g].n < MaxCommands /\ g \in Ready
    BY <1>2 DEF Command, Ready, TypeOK, TypeFields
  <2>2. cmd[g].n \in Nat /\ \A d \in issued[g] : d.n \in Nat /\ d.n <= cmd[g].n
    BY <2>1, CommandNumbers DEF TypeOK, TypeFields, TypeGrippers, OrderInv
  <2>3. c \in Commands
    BY <2>1, <2>2, LimitsAssumption DEF Commands
  <2>4. Register!Issue(g, c)
    BY <2>1, <2>2 DEF Register!Issue
  <2>5. QED
    BY <2>3, <2>4 DEF Register!Next
<1>3. CASE SendEnds
  <2>1. /\ thread_at \in Grippers /\ UNCHANGED issued
        /\ UNCHANGED delivered \/ delivered' = [delivered EXCEPT ![thread_at] = fetched]
        /\ fetched \in issued[thread_at] /\ delivered[thread_at].n <= fetched.n
    BY <1>3 DEF SendEnds, ControlInv, OrderInv
  <2>2. fetched \in Commands
    BY <2>1 DEF TypeOK, TypeGrippers
  <2>3. CASE delivered' = [delivered EXCEPT ![thread_at] = fetched]
    <3>1. Register!Deliver(thread_at, fetched)
      BY <2>1, <2>3 DEF Register!Deliver
    <3>2. QED
      BY <2>1, <2>2, <3>1 DEF Register!Next
  <2>4. QED
    BY <2>1, <2>3
<1>4. CASE Activate \/ InitializeBegins \/ InitializeFails \/ InitializeSucceeds \/ StartThread
           \/ OnDeactivate
  BY <1>4 DEF Activate, InitializeBegins, InitializeFails, InitializeSucceeds, StartThread,
              OnDeactivate, Deactivate, Joined, ShutdownBegins, ShutdownEnds, CloseSession
<1>5. CASE Read \/ UpdateDone \/ WriteForwards \/ WriteBlocked \/ World
  BY <1>5 DEF Read, UpdateDone, WriteForwards, WriteBlocked, World, PollDue, SendDue,
              GripperMoves, OthersMove
<1>6. CASE LoopGoesOn \/ LoopEnds \/ Serve \/ PassOver \/ Sleep \/ PollCached \/ PollReads
           \/ ReadEnds \/ FetchSkips \/ FetchSends
  BY <1>6 DEF LoopGoesOn, LoopEnds, Serve, PassOver, Sleep, PollCached, PollReads, ReadEnds,
              FetchSkips, FetchSends
<1>7. CASE UNCHANGED vars
  BY <1>7 DEF vars
<1>8. QED
  BY <1>1, <1>2, <1>3, <1>4, <1>5, <1>6, <1>7
     DEF Next, OnActivate, Cycle, gripperThreadLoop

\* The buffers, the atomics, the two threads, the duplicate test and the losses together
\* are a register in which the last command wins.
THEOREM RegisterImplemented == Spec => LastCommandWins
<1>1. Init => Register!Init
  BY DEF Init, Register!Init
<1>2. QED
  BY <1>1, RegisterStep, ControlAlways, OrderAlways, PTL
     DEF Spec, LastCommandWins, Register!Spec, Register!registerVars

-----------------------------------------------------------------------------
(* The position.                                                            *)

\* Angles the gripper g was at in this activation.
Seen(g) == {AngleOf(c) : c \in been[g]}

\* All copies of a position, the cache included, are of this activation; and a seed is
\* read, not taken from the cache.
PositionInv ==
  /\ \A g \in Ready : /\ actual[g] \in been[g]
                      /\ {pos[g], pos_atomic[g], position[g]} \subseteq Seen(g)
  /\ cm = "seed" => poll_due[cm_at] /\ actual[cm_at] \in been[cm_at]

LEMMA PositionKeptByManager ==
  ASSUME "first_read" \notin MayFail
  PROVE  TypeOK /\ ControlInv /\ PositionInv /\ (OnActivate \/ OnDeactivate \/ Cycle)
           => PositionInv'
<1> SUFFICES ASSUME TypeOK, ControlInv, PositionInv, OnActivate \/ OnDeactivate \/ Cycle
             PROVE  PositionInv'
  OBVIOUS
<1> USE DEF cmVars, threadVars, busVars, controllerVars, exchangeVars, gripperVars, historyVars
<1>1. CASE Activate \/ InitializeBegins \/ InitializeFails \/ StartThread
  <2>1. cm' # "seed" /\ UNCHANGED <<actual, been, pos, pos_atomic, position>>
    BY <1>1 DEF Activate, InitializeBegins, InitializeFails, StartThread
  <2>2. Ready' \subseteq Ready
    <3>1. CASE Activate \/ InitializeFails
      BY <3>1 DEF Activate, InitializeFails, Ready, Grippers
    <3>2. CASE InitializeBegins \/ StartThread
      BY <3>2, GrippersAssumption DEF InitializeBegins, StartThread, Ready, Grippers
    <3>3. QED
      BY <1>1, <3>1, <3>2
  <2>3. QED
    BY <2>1, <2>2 DEF PositionInv, Seen
<1>2. CASE InitializeSucceeds
  <2>1. /\ cm_at \in Grippers /\ cm_at \notin Ready /\ Ready' = Ready /\ cm_at' = cm_at
        /\ UNCHANGED <<actual, pos, pos_atomic, position>>
        /\ been' = [been EXCEPT ![cm_at] = {actual[cm_at]}]
        /\ poll_due' = [poll_due EXCEPT ![cm_at] = TRUE]
    BY <1>2 DEF InitializeSucceeds, LimitsOver, ControlInv, Ready, Grippers
  <2>2. poll_due'[cm_at] = TRUE
    BY <2>1 DEF TypeOK, TypeFields
  <2>5. actual[cm_at] \in been'[cm_at]
    BY <2>1 DEF TypeOK, TypeGrippers
  <2>3. \A g \in Ready : been'[g] = been[g]
    BY <2>1 DEF TypeOK, TypeGrippers
  <2>4. QED
    BY <2>1, <2>2, <2>3, <2>5 DEF PositionInv, Seen
<1>3. CASE Seed
  <2>1. /\ cm_at \in Grippers /\ cm_at \notin Ready /\ Ready' = Ready \cup {cm_at}
        /\ cm' # "seed" /\ UNCHANGED <<actual, been>>
        /\ poll_due[cm_at] /\ mutex = "nobody"
    BY <1>3 DEF Seed, ControlInv, TypeOK, TypeControl, PositionInv, Ready, Grippers
  <2> DEFINE angle == AngleOf(actual[cm_at])
  <2>2. FirstReading(cm_at, TRUE) = angle
    BY <2>1 DEF FirstReading
  <2>3. /\ position' = [position EXCEPT ![cm_at] = angle]
        /\ pos' = [pos EXCEPT ![cm_at] = angle]
        /\ pos_atomic' = [pos_atomic EXCEPT ![cm_at] = angle]
    BY <1>3, <2>2 DEF Seed
  <2>4. actual[cm_at] \in been[cm_at]
    BY <1>3 DEF Seed, PositionInv
  <2>5. QED
    BY <2>1, <2>3, <2>4 DEF PositionInv, Seen, TypeOK, TypeFields
<1>4. CASE OnDeactivate
  <2>1. /\ Ready' \subseteq Ready
        /\ cm' # "seed" /\ UNCHANGED <<actual, been, pos, pos_atomic, position>>
    BY <1>4 DEF OnDeactivate, Deactivate, Joined, ShutdownBegins, ShutdownEnds, CloseSession,
                Ready
  <2>2. QED
    BY <2>1 DEF PositionInv, Seen
<1>5. CASE Cycle
  <2>1. /\ Ready' = Ready /\ Ready = Grippers
        /\ cm' # "seed" /\ UNCHANGED <<actual, been, pos_atomic, position>>
        /\ pos' = pos \/ pos' = pos_atomic
    BY <1>5 DEF Cycle, Read, UpdateDone, WriteForwards, WriteBlocked, Command, Ready
  <2>2. QED
    BY <2>1 DEF PositionInv, Seen
<1>6. QED
  BY <1>1, <1>2, <1>3, <1>4, <1>5 DEF OnActivate

LEMMA PositionKeptByThread ==
  TypeOK /\ ControlInv /\ PositionInv /\ (gripperThreadLoop \/ World) => PositionInv'
<1> SUFFICES ASSUME TypeOK, ControlInv, PositionInv, gripperThreadLoop \/ World
             PROVE  PositionInv'
  OBVIOUS
<1> USE DEF cmVars, threadVars, busVars, controllerVars, exchangeVars, gripperVars, historyVars,
            cmUnchanged, worldUnchanged
<1>1. Ready' = Ready /\ UNCHANGED <<cm, cm_at, pos>>
  BY DEF gripperThreadLoop, LoopGoesOn, LoopEnds, Serve, PassOver, Sleep, PollCached, PollReads,
         ReadEnds, FetchSkips, FetchSends, SendEnds, World, PollDue, SendDue, GripperMoves,
         OthersMove, Ready
<1>2. thread # "gone" => Ready = Grippers /\ cm # "seed"
  BY DEF ControlInv, Ready
<1>3. CASE LoopGoesOn \/ LoopEnds \/ Serve \/ PassOver \/ Sleep \/ PollReads \/ FetchSkips
           \/ FetchSends \/ SendEnds
  <2>1. UNCHANGED <<actual, been, pos_atomic, position, poll_due>>
    BY <1>3 DEF LoopGoesOn, LoopEnds, Serve, PassOver, Sleep, PollReads, FetchSkips, FetchSends,
                SendEnds
  <2>2. QED
    BY <1>1, <2>1 DEF PositionInv, Seen
<1>4. CASE PollCached
  <2>1. /\ cm # "seed" /\ Ready = Grippers /\ thread_at \in Grippers
        /\ UNCHANGED <<actual, been, position>>
        /\ pos_atomic' = [pos_atomic EXCEPT ![thread_at] = position[thread_at]]
    BY <1>2, <1>4 DEF PollCached, ControlInv
  <2>2. QED
    BY <1>1, <2>1 DEF PositionInv, Seen, TypeOK, TypeFields
<1>5. CASE ReadEnds
  <2>1. /\ cm # "seed" /\ Ready = Grippers /\ thread_at \in Grippers
        /\ UNCHANGED <<actual, been>>
    BY <1>2, <1>5 DEF ReadEnds, ControlInv
  <2>2. PICK read \in BOOLEAN :
          /\ position' = [position EXCEPT ![thread_at] =
                            IF read THEN AngleOf(actual[thread_at]) ELSE @]
          /\ pos_atomic' = [pos_atomic EXCEPT ![thread_at] =
                              IF read THEN position'[thread_at] ELSE @]
    BY <1>5 DEF ReadEnds
  <2>3. AngleOf(actual[thread_at]) \in Seen(thread_at)
    BY <2>1 DEF PositionInv, Seen
  <2>4. QED
    BY <1>1, <2>1, <2>2, <2>3 DEF PositionInv, Seen, TypeOK, TypeFields
<1>6. CASE World
  <2>1. UNCHANGED <<pos_atomic, position>>
    BY <1>6 DEF World, PollDue, SendDue, GripperMoves, OthersMove
  <2>2. \A g \in Grippers : poll_due[g] => poll_due'[g]
    BY <1>6 DEF World, PollDue, SendDue, GripperMoves, OthersMove, TypeOK, TypeFields
  <2>3. \A g \in Grippers : /\ been[g] \subseteq been'[g]
                            /\ actual[g] \in been[g] => actual'[g] \in been'[g]
    BY <1>6 DEF World, PollDue, SendDue, GripperMoves, OthersMove, TypeOK, TypeGrippers
  <2>4. Ready \subseteq Grippers /\ (cm = "seed" => cm_at \in Grippers)
    BY DEF Ready, ControlInv
  <2>5. QED
    BY <1>1, <2>1, <2>2, <2>3, <2>4 DEF PositionInv, Seen
<1>7. QED
  BY <1>3, <1>4, <1>5, <1>6 DEF gripperThreadLoop

\* If the first reading of an activation does not fail, then the angle the controllers
\* see is one the gripper was at in this activation.
THEOREM PositionsAreReal ==
  ASSUME "first_read" \notin MayFail
  PROVE  Spec => []PositionIsReal
<1>1. Init => PositionInv
  BY DEF Init, PositionInv, Ready
<1>2. TypeOK /\ ControlInv /\ PositionInv /\ [Next]_vars => PositionInv'
  <2>1. PositionInv /\ UNCHANGED vars => PositionInv'
    BY DEF PositionInv, Seen, Ready, vars, cmVars, controllerVars, exchangeVars, gripperVars
  <2>2. QED
    BY <2>1, PositionKeptByManager, PositionKeptByThread DEF Next
<1>3. PositionInv => PositionIsReal
  BY DEF PositionInv, PositionIsReal, Ready, Seen
<1>4. QED
  BY <1>1, <1>2, <1>3, ControlAlways, PTL DEF Spec

-----------------------------------------------------------------------------
(* The deactivation.                                                        *)

\* From the beginning of on_deactivate to the next activation the thread is told to end.
ToldInv == cm \in {"join", "shutdown", "closing", "inactive"} => running = FALSE

LEMMA ToldKept == TypeOK /\ ControlInv /\ ToldInv /\ [Next]_vars => ToldInv'
<1> SUFFICES ASSUME TypeOK, ControlInv, ToldInv, [Next]_vars
             PROVE  ToldInv'
  OBVIOUS
<1> USE DEF ToldInv, cmVars, threadVars, busVars, controllerVars, exchangeVars, gripperVars,
            historyVars, cmUnchanged, worldUnchanged
<1>1. CASE OnActivate
  BY <1>1 DEF OnActivate, Activate, InitializeBegins, InitializeFails, InitializeSucceeds, Seed,
              StartThread
<1>2. CASE OnDeactivate
  BY <1>2 DEF OnDeactivate, Deactivate, Joined, ShutdownBegins, ShutdownEnds, CloseSession
<1>3. CASE Cycle
  BY <1>3 DEF Cycle, Read, UpdateDone, WriteForwards, WriteBlocked, Command
<1>4. CASE gripperThreadLoop
  BY <1>4 DEF gripperThreadLoop, LoopGoesOn, LoopEnds, Serve, PassOver, Sleep, PollCached,
              PollReads, ReadEnds, FetchSkips, FetchSends, SendEnds
<1>5. CASE World
  BY <1>5 DEF World, PollDue, SendDue, GripperMoves, OthersMove
<1>6. CASE UNCHANGED vars
  BY <1>6 DEF vars
<1>7. QED
  BY <1>1, <1>2, <1>3, <1>4, <1>5, <1>6 DEF Next

LEMMA ToldAlways == Spec => []ToldInv
<1>1. Init => ToldInv
  BY DEF Init, ToldInv
<1>2. QED
  BY <1>1, ToldKept, ControlAlways, PTL DEF Spec

\* What is left to do is counted in natural numbers, so it cannot become less for ever.
LEMMA StepsAreCounted ==
  TypeOK /\ ControlInv => ThreadSteps \in Nat /\ ManagerSteps \in Nat
<1> SUFFICES ASSUME TypeOK, ControlInv
             PROVE  ThreadSteps \in Nat /\ ManagerSteps \in Nat
  OBVIOUS
<1> USE GrippersAssumption DEF TypeOK, TypeControl
<1>1. thread_at \in Int /\ thread_at <= NumGrippers + 1 /\ cm_at \in Int /\ cm_at <= NumGrippers + 1
  OBVIOUS
<1>2. thread \in {"poll", "reading", "fetch", "sending"} => thread_at <= NumGrippers
  BY DEF ControlInv, Grippers
<1>3. ManagerSteps \in Nat
  BY <1>1 DEF ManagerSteps
<1>4. ThreadSteps \in Nat
  <2>1. CASE thread = "gone" \/ thread = "loop"
    BY <2>1 DEF ThreadSteps
  <2>2. CASE thread = "check"
    BY <1>1, <2>2 DEF ThreadSteps
  <2>3. CASE thread \in {"poll", "reading", "fetch", "sending"}
    BY <1>1, <1>2, <2>3 DEF ThreadSteps
  <2>4. QED
    BY <2>1, <2>2, <2>3
<1>5. QED
  BY <1>3, <1>4

\* A step of the thread brings its end nearer, once it is told to end.
LEMMA ThreadAdvances ==
  ASSUME TypeOK, ControlInv, ~running, gripperThreadLoop
  PROVE  ThreadSteps' < ThreadSteps
<1> USE GrippersAssumption DEF cmUnchanged
<1> DEFINE left == 5 * (NumGrippers + 1 - thread_at)
<1>1. thread_at \in Int /\ left \in Int
  BY DEF TypeOK, TypeControl
<1>2. CASE LoopGoesOn
  BY <1>2 DEF LoopGoesOn
<1>3. CASE LoopEnds
  BY <1>3 DEF LoopEnds, ThreadSteps
<1>4. CASE Serve
  <2>1. ThreadSteps = left + 2 /\ ThreadSteps' = left + 1
    BY <1>4 DEF Serve, ThreadSteps
  <2>2. QED
    BY <1>1, <2>1
<1>5. CASE PassOver
  <2>1. /\ ThreadSteps = left + 2 /\ thread_at' = thread_at + 1
        /\ ThreadSteps' = 5 * (NumGrippers + 1 - (thread_at + 1)) + 2
    BY <1>5 DEF PassOver, ThreadSteps
  <2>2. QED
    BY <1>1, <2>1
<1>6. CASE Sleep
  <2>1. ThreadSteps = left + 2 /\ thread_at = NumGrippers + 1 /\ ThreadSteps' = 1
    BY <1>6 DEF Sleep, ThreadSteps
  <2>2. QED
    BY <1>1, <2>1
<1>7. CASE PollCached \/ PollReads
  <2>1. ThreadSteps = left + 1 /\ ThreadSteps' \in {left, left - 1}
    BY <1>7 DEF PollCached, PollReads, ThreadSteps
  <2>2. QED
    BY <1>1, <2>1
<1>8. CASE ReadEnds
  <2>1. ThreadSteps = left /\ ThreadSteps' = left - 1
    BY <1>8 DEF ReadEnds, ThreadSteps
  <2>2. QED
    BY <1>1, <2>1
<1>9. CASE FetchSends
  <2>1. ThreadSteps = left - 1 /\ ThreadSteps' = left - 2
    BY <1>9 DEF FetchSends, ThreadSteps
  <2>2. QED
    BY <1>1, <2>1
<1>10. CASE FetchSkips \/ SendEnds
  <2>1. /\ ThreadSteps \in {left - 1, left - 2}
        /\ ThreadSteps' = 5 * (NumGrippers + 1 - (thread_at + 1)) + 2
    BY <1>10 DEF FetchSkips, SendEnds, ThreadSteps
  <2>2. QED
    BY <1>1, <2>1
<1>11. QED
  BY <1>2, <1>3, <1>4, <1>5, <1>6, <1>7, <1>8, <1>9, <1>10 DEF gripperThreadLoop

\* So does a step of on_deactivate.
LEMMA ManagerAdvances ==
  ASSUME TypeOK, ControlInv, Deactivating, OnActivate \/ OnDeactivate \/ Cycle
  PROVE  ManagerSteps' < ManagerSteps /\ UNCHANGED threadVars
<1> USE GrippersAssumption DEF Deactivating
<1>1. cm_at \in Int
  BY DEF TypeOK, TypeControl
<1>2. ~OnActivate /\ ~Cycle /\ ~Deactivate
  BY DEF OnActivate, Activate, InitializeBegins, InitializeFails, InitializeSucceeds, Seed,
         StartThread, Cycle, Read, UpdateDone, WriteForwards, WriteBlocked, Command, Deactivate
<1>3. CASE Joined
  BY <1>1, <1>3 DEF Joined, ManagerSteps
<1>4. CASE ShutdownBegins
  BY <1>1, <1>4 DEF ShutdownBegins, ManagerSteps
<1>5. CASE ShutdownEnds
  BY <1>1, <1>5 DEF ShutdownEnds, ManagerSteps
<1>6. CASE CloseSession
  BY <1>1, <1>6 DEF CloseSession, ManagerSteps
<1>7. QED
  BY <1>2, <1>3, <1>4, <1>5, <1>6 DEF OnDeactivate

\* One of two counts going down and the other staying, their sum goes down.
LEMMA Fewer ==
  ASSUME NEW a \in Nat, NEW b \in Nat, NEW c \in Nat, NEW d \in Nat
  PROVE  /\ c < a /\ d = b => c + d < a + b
         /\ c = a /\ d < b => c + d < a + b
OBVIOUS

\* on_deactivate cannot go on for ever: whatever the order of the two threads' steps, each
\* of them is one less of a number fixed by the number of grippers.
THEOREM DeactivationIsFinite == Spec => DeactivationAdvances
<1>0. (TypeOK /\ ControlInv => ThreadSteps \in Nat /\ ManagerSteps \in Nat)'
  BY StepsAreCounted, PTL
<1>1. TypeOK /\ ControlInv /\ ToldInv /\ [Next]_vars =>
        [Deactivating => StepsLeft' < StepsLeft \/ UNCHANGED <<cmVars, threadVars>>]_vars
  <2> SUFFICES ASSUME TypeOK, ControlInv, ToldInv, Next, Deactivating
               PROVE  StepsLeft' < StepsLeft \/ UNCHANGED <<cmVars, threadVars>>
    OBVIOUS
  <2>0. /\ ThreadSteps \in Nat /\ ManagerSteps \in Nat
        /\ ThreadSteps' \in Nat /\ ManagerSteps' \in Nat
    BY <1>0, StepsAreCounted, TypeKept
  <2>1. CASE gripperThreadLoop
    <3>1. ~running
      BY DEF ToldInv, Deactivating
    <3>2. ThreadSteps' < ThreadSteps
      BY <2>1, <3>1, ThreadAdvances
    <3>3. ManagerSteps' = ManagerSteps
      BY <2>1 DEF gripperThreadLoop, LoopGoesOn, LoopEnds, Serve, PassOver, Sleep, PollCached,
                  PollReads, ReadEnds, FetchSkips, FetchSends, SendEnds, cmUnchanged, cmVars,
                  ManagerSteps
    <3>4. ThreadSteps' + ManagerSteps' < ThreadSteps + ManagerSteps
      BY <2>0, <3>2, <3>3, Fewer
    <3>5. QED
      BY <3>4 DEF StepsLeft
  <2>2. CASE OnActivate \/ OnDeactivate \/ Cycle
    <3>1. ManagerSteps' < ManagerSteps /\ UNCHANGED threadVars
      BY <2>2, ManagerAdvances
    <3>2. ThreadSteps' = ThreadSteps
      BY <3>1 DEF threadVars, ThreadSteps
    <3>3. QED
      BY <2>0, <3>1, <3>2, Fewer DEF StepsLeft
  <2>3. CASE World
    BY <2>3 DEF World, PollDue, SendDue, GripperMoves, OthersMove, worldUnchanged
  <2>4. QED
    BY <2>1, <2>2, <2>3 DEF Next
<1>2. QED
  BY <1>1, ControlAlways, ToldAlways, PTL DEF Spec, DeactivationAdvances

\* The join is not waited for with the bus, nor the bus with anybody left to hold it.
THEOREM NeitherWaitsForTheOther == Spec => []NobodyWaitsForever
<1>1. TypeOK /\ ControlInv => NobodyWaitsForever
  BY DEF TypeOK, TypeControl, ControlInv, NobodyWaitsForever
<1>2. QED
  BY <1>1, ControlAlways, PTL

-----------------------------------------------------------------------------
(* What is skipped.                                                         *)

\* What last_cmd_pos_ remembers, if anything, is where the gripper was sent; and until the
\* thread of the first activation starts it remembers nothing.
LastInv ==
  /\ \A g \in Grippers : last_cmd[g] # NaN => goal[g] = CountOf(last_cmd[g])
  /\ activations = 0 => cm = "inactive"
  /\ activations = 0 \/ cm \in {"initialize", "initializing", "seed"} =>
       \A g \in Grippers : last_cmd[g] = NaN

LEMMA LastKept ==
  ASSUME ~Others, "send" \notin MayFail, MaxActivations = 1
  PROVE  TypeOK /\ ControlInv /\ LastInv /\ [Next]_vars => LastInv'
<1> SUFFICES ASSUME TypeOK, ControlInv, LastInv, [Next]_vars
             PROVE  LastInv'
  OBVIOUS
<1> USE DEF LastInv, cmVars, threadVars, busVars, controllerVars, exchangeVars, gripperVars,
            historyVars, cmUnchanged, worldUnchanged
<1>0. activations \in Nat
  BY DEF TypeOK, TypeControl
<1>1. CASE OnActivate
  <2>1. CASE Activate
    BY <1>0, <2>1 DEF Activate
  <2>2. CASE InitializeSucceeds
    <3>1. UNCHANGED last_cmd /\ \A g \in Grippers : last_cmd[g] = NaN
      BY <2>2 DEF InitializeSucceeds
    <3>2. QED
      BY <2>2, <3>1 DEF InitializeSucceeds
  <2>3. CASE InitializeBegins \/ InitializeFails \/ Seed \/ StartThread
    BY <2>3 DEF InitializeBegins, InitializeFails, Seed, StartThread
  <2>4. QED
    BY <1>1, <2>1, <2>2, <2>3 DEF OnActivate
<1>2. CASE OnDeactivate
  BY <1>2 DEF OnDeactivate, Deactivate, Joined, ShutdownBegins, ShutdownEnds, CloseSession
<1>3. CASE Cycle
  BY <1>3 DEF Cycle, Read, UpdateDone, WriteForwards, WriteBlocked, Command
<1>4. CASE gripperThreadLoop
  <2>1. CASE SendEnds
    <3> DEFINE angle == Clamped(fetched.angle)
    <3>1. /\ thread_at \in Grippers
          /\ activations # 0 /\ cm \notin {"initialize", "initializing", "seed"}
      BY <2>1 DEF SendEnds, ControlInv
    <3>2. /\ goal' = [goal EXCEPT ![thread_at] = CountOf(angle)]
          /\ last_cmd' = [last_cmd EXCEPT ![thread_at] = angle]
          /\ UNCHANGED <<cm, activations>>
      BY <2>1 DEF SendEnds
    <3>3. goal \in [Grippers -> Counts] /\ last_cmd \in [Grippers -> Angles \cup {NaN}]
      BY DEF TypeOK, TypeFields, TypeGrippers
    <3> HIDE DEF angle
    <3>4. QED
      BY <3>1, <3>2, <3>3
  <2>2. CASE LoopGoesOn \/ LoopEnds \/ Serve \/ PassOver \/ Sleep \/ PollCached \/ PollReads
             \/ ReadEnds \/ FetchSkips \/ FetchSends
    <3>1. UNCHANGED <<goal, last_cmd, cm, activations>>
      BY <2>2 DEF LoopGoesOn, LoopEnds, Serve, PassOver, Sleep, PollCached, PollReads, ReadEnds,
                  FetchSkips, FetchSends
    <3>2. QED
      BY <3>1
  <2>3. QED
    BY <1>4, <2>1, <2>2 DEF gripperThreadLoop
<1>5. CASE World
  <2>1. UNCHANGED <<goal, last_cmd, cm, activations>>
    BY <1>5 DEF World, PollDue, SendDue, GripperMoves, OthersMove
  <2>2. QED
    BY <2>1
<1>6. CASE UNCHANGED vars
  BY <1>6 DEF vars
<1>7. QED
  BY <1>1, <1>2, <1>3, <1>4, <1>5, <1>6 DEF Next

\* "change too small to bother" is true of a gripper that nobody else moves and that loses
\* no request, in the first activation; LL_GripperSkips shows what somebody else does to
\* it.  A second activation is not covered, because it freezes the gripper where it is and
\* does not reset last_cmd_pos_.
THEOREM SkipsLittle ==
  ASSUME ~Others, "send" \notin MayFail, MaxActivations = 1
  PROVE  Spec => SkipsAreSmall
<1>1. Init => LastInv
  BY DEF Init, LastInv
<1>2. TypeOK /\ ControlInv /\ LastInv =>
        (FetchSkips /\ Redundant(thread_at) =>
           goal[thread_at] - CountOf(Clamped(cmd_atomic[thread_at].angle)) \in {-1, 0, 1})
  <2> SUFFICES ASSUME TypeOK, ControlInv, LastInv, FetchSkips, Redundant(thread_at)
               PROVE  goal[thread_at] - CountOf(Clamped(cmd_atomic[thread_at].angle))
                        \in {-1, 0, 1}
    OBVIOUS
  <2> DEFINE angle == Clamped(cmd_atomic[thread_at].angle)
             last == last_cmd[thread_at]
  <2>1. thread_at \in Grippers
    BY DEF FetchSkips, ControlInv
  <2>2. cmd_atomic[thread_at].angle \in Int
    BY <2>1, CommandAngles DEF TypeOK, TypeFields
  <2>3. angle \in Angles
    BY <2>2, ClampedInRange
  <2>4. last # NaN /\ angle - last < Tolerance /\ last - angle < Tolerance
    BY DEF Redundant, TooSmall
  <2>5. last \in Angles /\ goal[thread_at] = CountOf(last)
    BY <2>1, <2>4 DEF TypeOK, TypeFields, LastInv
  <2> HIDE DEF angle, last
  <2>6. CountOf(last) - CountOf(angle) \in {-1, 0, 1}
    BY <2>3, <2>4, <2>5, CountsClose
  <2>7. QED
    BY <2>5, <2>6 DEF angle
<1>3. QED
  BY <1>1, <1>2, LastKept, ControlAlways, PTL DEF Spec, SkipsAreSmall

=============================================================================
