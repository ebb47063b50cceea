----------------------------- MODULE GripperBus -----------------------------
(***************************************************************************)
(* The grippers of the low-level driver: the controller manager's thread,   *)
(* which activates them, exchanges positions and commands with the gripper  *)
(* thread through atomics and deactivates them, and gripperThreadLoop,      *)
(* which alone talks Modbus in between.  All grippers share one bus, one    *)
(* MQTT session and one mutex.  An exchange on the bus has a beginning and  *)
(* an end; a request or an answer may be lost.  A command carries its       *)
(* number in the present activation, which no action looks at.              *)
(***************************************************************************)
EXTENDS GripperController

CONSTANTS
  NumGrippers,  \* 1 is gripper A, 2 is gripper B
  Wanted,       \* the angles the controllers command, also out of range
  MayFail,      \* what may fail in this instance
  Others,       \* whether somebody else may move a gripper
  MaxCommands,  \* bound on the commands to a gripper in one activation, the seed included
  MaxActivations

ASSUME GrippersAssumption == NumGrippers \in Nat \ {0} /\ Wanted \subseteq Int

\* TryInitConnection or the activation of a gripper, the first read, later reads, requests.
ASSUME FailuresAssumption ==
  MayFail \subseteq {"init", "first_read", "read", "send"} /\ Others \in BOOLEAN

ASSUME LimitsAssumption == MaxCommands \in Nat \ {0} /\ MaxActivations \in Nat \ {0}

Grippers == 1 .. NumGrippers

Commands == [n : 1 .. MaxCommands, angle : Wanted \cup Angles]
NoCommand == [n |-> 0, angle |-> NaN]

VARIABLES
  cm,        \* the controller manager's thread: "inactive", in on_activate "initialize",
             \* "initializing" or "seed", in its cycle "read", "update" or "write", in
             \* on_deactivate "join", "shutdown" or "closing", or "finalized"
  cm_at,     \* the gripper it is at in on_activate and on_deactivate
  thread,    \* the gripper thread: "gone", "loop", "check", "poll", "reading", "fetch", "sending"
  thread_at, \* the gripper it is at
  running,   \* gripper_thread_running_
  session,   \* the MQTT session is open
  mutex,     \* who holds gripper_mtx_: "nobody", "cm" or "thread"
  bus,       \* who is in the middle of a Modbus exchange
  in_fault   \* in_fault_

\* The fields of the GripperControllers, by gripper.
VARIABLES
  initialized,    \* initialized_
  position,       \* position_, the cached position
  poll_due, send_due,  \* next_poll_, next_send_ are over
  last_cmd        \* last_cmd_pos_

\* The exchange between the threads, by gripper.
VARIABLES
  pos, cmd,       \* gripper_a_pos_, gripper_a_cmd_
  pos_atomic, cmd_atomic,  \* the atomics of these names
  fetched         \* the command the thread is sending

\* The gripper itself.
VARIABLES
  goal,      \* the position register it was last told to go to
  actual     \* the position register it reports

\* History variables.
VARIABLES
  issued, delivered,  \* commands given and sent in this activation
  been,      \* positions the gripper was in since it was last activated
  late,      \* commands whose sending began in the present fault
  activations

cmVars == <<cm, cm_at>>
threadVars == <<thread, thread_at>>
busVars == <<session, mutex, bus>>
controllerVars == <<initialized, position, poll_due, send_due, last_cmd>>
exchangeVars == <<pos, cmd, pos_atomic, cmd_atomic, fetched>>
gripperVars == <<goal, actual, been>>
historyVars == <<issued, delivered, late, activations>>
vars == <<cmVars, threadVars, running, busVars, in_fault, controllerVars, exchangeVars,
          gripperVars, historyVars>>

TypeControl ==
  /\ cm \in {"inactive", "initialize", "initializing", "seed", "read", "update", "write",
             "join", "shutdown", "closing", "finalized"}
  /\ cm_at \in 1 .. NumGrippers + 1
  /\ thread \in {"gone", "loop", "check", "poll", "reading", "fetch", "sending"}
  /\ thread_at \in 1 .. NumGrippers + 1
  /\ running \in BOOLEAN /\ session \in BOOLEAN /\ in_fault \in BOOLEAN
  /\ mutex \in {"nobody", "cm", "thread"}
  /\ bus \in SUBSET {"cm", "thread"}
  /\ initialized \in [Grippers -> BOOLEAN]
  /\ late \in Nat
  /\ activations \in Nat

TypeFields ==
  /\ poll_due \in [Grippers -> BOOLEAN]
  /\ send_due \in [Grippers -> BOOLEAN]
  /\ position \in [Grippers -> Angles]
  /\ last_cmd \in [Grippers -> Angles \cup {NaN}]
  /\ pos \in [Grippers -> Angles \cup {NaN}]
  /\ pos_atomic \in [Grippers -> Angles \cup {NaN}]
  /\ cmd \in [Grippers -> Commands \cup {NoCommand}]
  /\ cmd_atomic \in [Grippers -> Commands \cup {NoCommand}]
  /\ fetched \in Commands \cup {NoCommand}

TypeGrippers ==
  /\ goal \in [Grippers -> Counts]
  /\ actual \in [Grippers -> Counts]
  /\ issued \in [Grippers -> SUBSET Commands]
  /\ delivered \in [Grippers -> Commands \cup {NoCommand}]
  /\ been \in [Grippers -> SUBSET Counts]

TypeOK == TypeControl /\ TypeFields /\ TypeGrippers

-----------------------------------------------------------------------------

\* After on_init.  The grippers are wherever they are.
Init ==
  /\ cm = "inactive" /\ cm_at = 1
  /\ thread = "gone" /\ thread_at = 1
  /\ running = FALSE /\ session = FALSE
  /\ mutex = "nobody" /\ bus = {}
  /\ in_fault = FALSE
  /\ initialized = [g \in Grippers |-> FALSE]
  /\ position = [g \in Grippers |-> 0]
  /\ poll_due = [g \in Grippers |-> TRUE]
  /\ send_due = [g \in Grippers |-> TRUE]
  /\ last_cmd = [g \in Grippers |-> NaN]
  /\ pos = [g \in Grippers |-> NaN]
  /\ pos_atomic = [g \in Grippers |-> NaN]
  /\ cmd = [g \in Grippers |-> NoCommand]
  /\ cmd_atomic = [g \in Grippers |-> NoCommand]
  /\ fetched = NoCommand
  /\ goal \in [Grippers -> Counts]
  /\ actual = goal
  /\ issued = [g \in Grippers |-> {}]
  /\ delivered = [g \in Grippers |-> NoCommand]
  /\ been = [g \in Grippers |-> {}]
  /\ late = 0
  /\ activations = 0

-----------------------------------------------------------------------------
(* on_activate, the part from the session on.                               *)

Activate ==
  /\ cm = "inactive"
  /\ activations < MaxActivations
  /\ activations' = activations + 1
  /\ session' = TRUE
  /\ cm' = "initialize" /\ cm_at' = 1
  /\ UNCHANGED <<threadVars, running, mutex, bus, in_fault, controllerVars, exchangeVars,
                 gripperVars, issued, delivered, late>>

\* initialize() takes no lock.
InitializeBegins ==
  /\ cm = "initialize" /\ cm_at <= NumGrippers
  /\ cm' = "initializing"
  /\ bus' = bus \cup {"cm"}
  /\ UNCHANGED <<cm_at, threadVars, running, session, mutex, in_fault, controllerVars,
                 exchangeVars, gripperVars, historyVars>>

\* No connection, or no activation within ten seconds.  on_activate returns ERROR and
\* the hardware is finalized with its session open.
InitializeFails ==
  /\ cm = "initializing"
  /\ "init" \in MayFail
  /\ \E connected \in BOOLEAN : initialized' = [initialized EXCEPT ![cm_at] = connected]
  /\ cm' = "finalized"
  /\ bus' = bus \ {"cm"}
  /\ UNCHANGED <<cm_at, threadVars, running, session, mutex, in_fault, position, poll_due,
                 send_due, last_cmd, exchangeVars, gripperVars, historyVars>>

\* Rate limits that outlive the initialization.
LimitsKept(due) == due

\* Initialization takes more than a second: rate limits of an earlier activation are over.
LimitsOver(due) == [due EXCEPT ![cm_at] = TRUE]

\* The gripper is frozen where it is, and activated.  Its last command, last_cmd_pos_,
\* is not forgotten.
InitializeSucceeds ==
  /\ cm = "initializing"
  /\ initialized' = [initialized EXCEPT ![cm_at] = TRUE]
  /\ poll_due' = LimitsOver(poll_due)
  /\ send_due' = LimitsOver(send_due)
  /\ goal' = [goal EXCEPT ![cm_at] = actual[cm_at]]
  /\ been' = [been EXCEPT ![cm_at] = {actual[cm_at]}]
  /\ cm' = "seed"
  /\ bus' = bus \ {"cm"}
  /\ UNCHANGED <<cm_at, threadVars, running, session, mutex, in_fault, position, last_cmd,
                 exchangeVars, actual, historyVars>>

\* The first readPosition, or the cached position if it comes too early; a read that
\* fails counts as 0, which is fully open.
FirstReading(g, read) ==
  IF ~poll_due[g] \/ mutex # "nobody" THEN position[g]
  ELSE IF read THEN AngleOf(actual[g]) ELSE 0

\* A seed that leaves the atomic of the commands alone.
SeedAtomicOnce(seed) ==
  [cmd_atomic EXCEPT ![cm_at] = IF @ = NoCommand THEN seed ELSE @]

SeedAtomic(seed) == [cmd_atomic EXCEPT ![cm_at] = seed]

\* Both buffers and both atomics start from the first reading.
Seed ==
  /\ cm = "seed"
  /\ \E read \in IF "first_read" \in MayFail THEN BOOLEAN ELSE {TRUE} :
       LET angle == FirstReading(cm_at, read)
           seed == [n |-> 1, angle |-> angle]
       IN /\ position' = [position EXCEPT ![cm_at] = IF read THEN angle ELSE @]
          /\ pos' = [pos EXCEPT ![cm_at] = angle]
          /\ pos_atomic' = [pos_atomic EXCEPT ![cm_at] = angle]
          /\ cmd' = [cmd EXCEPT ![cm_at] = seed]
          /\ cmd_atomic' = SeedAtomic(seed)
          /\ issued' = [issued EXCEPT ![cm_at] = {seed}]
  /\ poll_due' = [poll_due EXCEPT ![cm_at] = FALSE]
  /\ delivered' = [delivered EXCEPT ![cm_at] = NoCommand]
  /\ cm' = "initialize" /\ cm_at' = cm_at + 1
  /\ UNCHANGED <<threadVars, running, busVars, in_fault, initialized, send_due, last_cmd,
                 fetched, gripperVars, late, activations>>

\* on_activate ends with SUCCESS.
StartThread ==
  /\ cm = "initialize" /\ cm_at = NumGrippers + 1
  /\ running' = TRUE
  /\ thread' = "loop"
  /\ cm' = "read"
  /\ UNCHANGED <<cm_at, thread_at, busVars, in_fault, controllerVars, exchangeVars, gripperVars,
                 historyVars>>

-----------------------------------------------------------------------------
(* The control cycle.                                                       *)

Read ==
  /\ cm = "read"
  /\ in_fault' \in BOOLEAN
  /\ late' = IF in_fault /\ in_fault' THEN late ELSE 0
  /\ pos' = pos_atomic
  /\ cm' = "update"
  /\ UNCHANGED <<cm_at, threadVars, running, busVars, controllerVars, cmd, pos_atomic, cmd_atomic,
                 fetched, gripperVars, issued, delivered, activations>>

\* The controller of gripper g writes a new command.
Command(g, a) ==
  /\ cm = "update"
  /\ cmd[g].n < MaxCommands
  /\ cmd' = [cmd EXCEPT ![g] = [n |-> @.n + 1, angle |-> a]]
  /\ issued' = [issued EXCEPT ![g] = @ \cup {cmd'[g]}]
  /\ UNCHANGED <<cmVars, threadVars, running, busVars, in_fault, controllerVars, pos, pos_atomic,
                 cmd_atomic, fetched, gripperVars, delivered, late, activations>>

UpdateDone ==
  /\ cm = "update"
  /\ cm' = "write"
  /\ UNCHANGED <<cm_at, threadVars, running, busVars, in_fault, controllerVars, exchangeVars,
                 gripperVars, historyVars>>

\* write() forwards the commands, in fault too, unless the arm is stopped, the enabling
\* device is released or a switch is being prepared.
WriteForwards ==
  /\ cm = "write"
  /\ cmd_atomic' = cmd
  /\ cm' = "read"
  /\ UNCHANGED <<cm_at, threadVars, running, busVars, in_fault, controllerVars, pos, cmd,
                 pos_atomic, fetched, gripperVars, historyVars>>

WriteBlocked ==
  /\ cm = "write"
  /\ cm' = "read"
  /\ UNCHANGED <<cm_at, threadVars, running, busVars, in_fault, controllerVars, exchangeVars,
                 gripperVars, historyVars>>

-----------------------------------------------------------------------------
(* on_deactivate.  The manager calls it between two cycles.                 *)

\* A deactivation that does not wait for the thread.
DeactivateAtOnce ==
  /\ cm = "read"
  /\ running' = FALSE
  /\ cm' = "shutdown" /\ cm_at' = 1
  /\ UNCHANGED <<threadVars, busVars, in_fault, controllerVars, exchangeVars, gripperVars,
                 historyVars>>

\* A deactivation that takes the bus before it waits for the thread.
DeactivateHoldingBus ==
  /\ cm = "read"
  /\ mutex = "nobody"
  /\ mutex' = "cm"
  /\ running' = FALSE
  /\ cm' = "join"
  /\ UNCHANGED <<cm_at, threadVars, session, bus, in_fault, controllerVars, exchangeVars,
                 gripperVars, historyVars>>

Deactivate ==
  /\ cm = "read"
  /\ running' = FALSE
  /\ cm' = "join"
  /\ UNCHANGED <<cm_at, threadVars, busVars, in_fault, controllerVars, exchangeVars, gripperVars,
                 historyVars>>

Joined ==
  /\ cm = "join"
  /\ thread = "gone"
  /\ cm' = "shutdown" /\ cm_at' = 1
  /\ UNCHANGED <<threadVars, running, busVars, in_fault, controllerVars, exchangeVars,
                 gripperVars, historyVars>>

\* shutdown() of a gripper: CloseConnection is an exchange too.
ShutdownBegins ==
  /\ cm = "shutdown" /\ cm_at <= NumGrippers
  /\ mutex = "nobody"
  /\ mutex' = "cm"
  /\ bus' = bus \cup {"cm"}
  /\ cm' = "closing"
  /\ UNCHANGED <<cm_at, threadVars, running, session, in_fault, controllerVars, exchangeVars,
                 gripperVars, historyVars>>

ShutdownEnds ==
  /\ cm = "closing"
  /\ mutex' = "nobody"
  /\ bus' = bus \ {"cm"}
  /\ initialized' = [initialized EXCEPT ![cm_at] = FALSE]
  /\ cm' = "shutdown" /\ cm_at' = cm_at + 1
  /\ UNCHANGED <<threadVars, running, session, in_fault, position, poll_due, send_due, last_cmd,
                 exchangeVars, gripperVars, historyVars>>

CloseSession ==
  /\ cm = "shutdown" /\ cm_at = NumGrippers + 1
  /\ session' = FALSE
  /\ cm' = "inactive"
  /\ UNCHANGED <<cm_at, threadVars, running, mutex, bus, in_fault, controllerVars, exchangeVars,
                 gripperVars, historyVars>>

-----------------------------------------------------------------------------
(* gripperThreadLoop, every 50 ms.                                          *)

cmUnchanged == UNCHANGED <<cmVars, running, session, in_fault, pos, cmd, cmd_atomic, issued,
                           been, actual, activations>>

\* A period that begins without a look at gripper_thread_running_.
LoopGoesOnAnyway ==
  /\ thread = "loop"
  /\ thread' = "check" /\ thread_at' = 1
  /\ cmUnchanged
  /\ UNCHANGED <<mutex, bus, controllerVars, pos_atomic, fetched, goal, delivered, late>>

LoopGoesOn ==
  /\ thread = "loop"
  /\ running
  /\ thread' = "check" /\ thread_at' = 1
  /\ cmUnchanged
  /\ UNCHANGED <<mutex, bus, controllerVars, pos_atomic, fetched, goal, delivered, late>>

LoopEnds ==
  /\ thread = "loop"
  /\ ~running
  /\ thread' = "gone"
  /\ cmUnchanged
  /\ UNCHANGED <<thread_at, mutex, bus, controllerVars, pos_atomic, fetched, goal, delivered, late>>

\* A test that leaves the fault to read().
ServedInFault(g) == initialized[g]

\* A gripper is served unless it is shut down or the arm is in fault.
Served(g) == initialized[g] /\ ~in_fault

Serve ==
  /\ thread = "check" /\ thread_at <= NumGrippers
  /\ Served(thread_at)
  /\ thread' = "poll"
  /\ cmUnchanged
  /\ UNCHANGED <<thread_at, mutex, bus, controllerVars, pos_atomic, fetched, goal, delivered, late>>

PassOver ==
  /\ thread = "check" /\ thread_at <= NumGrippers
  /\ ~Served(thread_at)
  /\ thread_at' = thread_at + 1
  /\ cmUnchanged
  /\ UNCHANGED <<thread, mutex, bus, controllerVars, pos_atomic, fetched, goal, delivered, late>>

\* All are served; the thread sleeps until the next period.
Sleep ==
  /\ thread = "check" /\ thread_at = NumGrippers + 1
  /\ thread' = "loop"
  /\ cmUnchanged
  /\ UNCHANGED <<thread_at, mutex, bus, controllerVars, pos_atomic, fetched, goal, delivered, late>>

\* readPosition too early, or with the bus taken: the cached position is published.
PollCached ==
  /\ thread = "poll"
  /\ ~poll_due[thread_at] \/ mutex # "nobody"
  /\ poll_due' = [poll_due EXCEPT ![thread_at] = FALSE]
  /\ pos_atomic' = [pos_atomic EXCEPT ![thread_at] = position[thread_at]]
  /\ thread' = "fetch"
  /\ cmUnchanged
  /\ UNCHANGED <<thread_at, mutex, bus, initialized, position, send_due, last_cmd, fetched, goal,
                 delivered, late>>

PollReads ==
  /\ thread = "poll"
  /\ poll_due[thread_at] /\ mutex = "nobody"
  /\ mutex' = "thread"
  /\ bus' = bus \cup {"thread"}
  /\ thread' = "reading"
  /\ cmUnchanged
  /\ UNCHANGED <<thread_at, controllerVars, pos_atomic, fetched, goal, delivered, late>>

\* A failed read publishes nothing and leaves the cache as it is.
ReadEnds ==
  /\ thread = "reading"
  /\ \E read \in IF "read" \in MayFail THEN BOOLEAN ELSE {TRUE} :
       /\ position' = [position EXCEPT ![thread_at] = IF read THEN AngleOf(actual[thread_at]) ELSE @]
       /\ pos_atomic' = [pos_atomic EXCEPT ![thread_at] = IF read THEN position'[thread_at] ELSE @]
  /\ poll_due' = [poll_due EXCEPT ![thread_at] = FALSE]
  /\ mutex' = "nobody"
  /\ bus' = bus \ {"thread"}
  /\ thread' = "fetch"
  /\ cmUnchanged
  /\ UNCHANGED <<thread_at, initialized, send_due, last_cmd, fetched, goal, delivered, late>>

\* The duplicate test of sendCommand: the change is too small to bother.
Redundant(g) == TooSmall(Clamped(cmd_atomic[g].angle), last_cmd[g])

\* Skipping that remembers what was skipped.
FetchSkipsRemembers ==
  /\ thread = "fetch"
  /\ ~send_due[thread_at] \/ Redundant(thread_at) \/ ~initialized[thread_at]
  /\ last_cmd' = [last_cmd EXCEPT ![thread_at] = Clamped(cmd_atomic[thread_at].angle)]
  /\ thread' = "check" /\ thread_at' = thread_at + 1
  /\ cmUnchanged
  /\ UNCHANGED <<mutex, bus, initialized, position, poll_due, send_due, pos_atomic, fetched, goal,
                 delivered, late>>

\* sendCommand returns early; the thread goes on to the next gripper.
FetchSkips ==
  /\ thread = "fetch"
  /\ ~send_due[thread_at] \/ Redundant(thread_at) \/ ~initialized[thread_at]
  /\ thread' = "check" /\ thread_at' = thread_at + 1
  /\ cmUnchanged
  /\ UNCHANGED <<mutex, bus, controllerVars, pos_atomic, fetched, goal, delivered, late>>

\* sendCommand begins its requests.
FetchSends ==
  /\ thread = "fetch"
  /\ send_due[thread_at] /\ ~Redundant(thread_at) /\ initialized[thread_at]
  /\ mutex = "nobody"
  /\ mutex' = "thread"
  /\ bus' = bus \cup {"thread"}
  /\ fetched' = cmd_atomic[thread_at]
  /\ late' = IF in_fault THEN late + 1 ELSE late
  /\ thread' = "sending"
  /\ cmUnchanged
  /\ UNCHANGED <<thread_at, controllerVars, pos_atomic, goal, delivered>>

\* The results of both requests are ignored: with the first alone, which clears the go-to,
\* the gripper halts where it is.
SendEnds ==
  /\ thread = "sending"
  /\ LET angle == Clamped(fetched.angle)
     IN /\ \/ /\ goal' = [goal EXCEPT ![thread_at] = CountOf(angle)]
              /\ delivered' = [delivered EXCEPT ![thread_at] = fetched]
           \/ /\ "send" \in MayFail
              /\ \E told \in {goal[thread_at], actual[thread_at]} :
                   goal' = [goal EXCEPT ![thread_at] = told]
              /\ UNCHANGED delivered
        /\ last_cmd' = [last_cmd EXCEPT ![thread_at] = angle]
  /\ send_due' = [send_due EXCEPT ![thread_at] = FALSE]
  /\ mutex' = "nobody"
  /\ bus' = bus \ {"thread"}
  /\ thread' = "check" /\ thread_at' = thread_at + 1
  /\ cmUnchanged
  /\ UNCHANGED <<initialized, position, poll_due, pos_atomic, fetched, late>>

-----------------------------------------------------------------------------
(* Time and the grippers.                                                   *)

PollDue(g) ==
  /\ ~poll_due[g]
  /\ poll_due' = [poll_due EXCEPT ![g] = TRUE]
  /\ UNCHANGED <<cmVars, threadVars, running, busVars, in_fault, initialized, position, send_due,
                 last_cmd, exchangeVars, gripperVars, historyVars>>

SendDue(g) ==
  /\ ~send_due[g]
  /\ send_due' = [send_due EXCEPT ![g] = TRUE]
  /\ UNCHANGED <<cmVars, threadVars, running, busVars, in_fault, initialized, position, poll_due,
                 last_cmd, exchangeVars, gripperVars, historyVars>>

worldUnchanged == UNCHANGED <<cmVars, threadVars, running, busVars, in_fault, controllerVars,
                              exchangeVars, historyVars>>

GripperMoves(g) ==
  /\ actual[g] # goal[g]
  /\ actual' = [actual EXCEPT ![g] = goal[g]]
  /\ been' = [been EXCEPT ![g] = @ \cup {goal[g]}]
  /\ UNCHANGED goal
  /\ worldUnchanged

\* The teach pendant or a program of the robot moves it.
OthersMove(g) ==
  /\ Others
  /\ \E c \in Counts \ {actual[g]} :
       /\ goal' = [goal EXCEPT ![g] = c]
       /\ actual' = [actual EXCEPT ![g] = c]
       /\ been' = [been EXCEPT ![g] = @ \cup {c}]
  /\ worldUnchanged

-----------------------------------------------------------------------------

OnActivate ==
  \/ Activate \/ InitializeBegins \/ InitializeFails \/ InitializeSucceeds
  \/ Seed \/ StartThread

OnDeactivate == Deactivate \/ Joined \/ ShutdownBegins \/ ShutdownEnds \/ CloseSession

Cycle ==
  \/ Read \/ UpdateDone \/ WriteForwards \/ WriteBlocked
  \/ \E g \in Grippers, a \in Wanted : Command(g, a)

gripperThreadLoop ==
  \/ LoopGoesOn \/ LoopEnds \/ Serve \/ PassOver \/ Sleep
  \/ PollCached \/ PollReads \/ ReadEnds \/ FetchSkips \/ FetchSends \/ SendEnds

World == \E g \in Grippers : PollDue(g) \/ SendDue(g) \/ GripperMoves(g) \/ OthersMove(g)

Next == OnActivate \/ OnDeactivate \/ Cycle \/ gripperThreadLoop \/ World

Spec == Init /\ [][Next]_vars

\* The manager's thread and the gripper thread go on, time passes, and an update of
\* the controllers ends.
FairSpec ==
  /\ Spec
  /\ WF_vars(Read) /\ WF_vars(UpdateDone) /\ WF_vars(WriteForwards \/ WriteBlocked)
  /\ WF_vars(Joined \/ ShutdownBegins \/ ShutdownEnds \/ CloseSession)
  /\ WF_vars(gripperThreadLoop)
  /\ \A g \in Grippers : WF_vars(PollDue(g)) /\ WF_vars(SendDue(g))

-----------------------------------------------------------------------------
(* Properties.                                                              *)

\* An exchange on the bus happens only while the session is open, and two never at a
\* time, although initialize() takes no lock; the thread has its gripper's handle
\* and the mutex.  (gripper_controller.hpp:33, and the order of on_deactivate, LL 702.)
ExchangesAreSafe ==
  /\ bus # {} => session
  /\ bus # {"cm", "thread"}
  /\ "thread" \in bus => mutex = "thread" /\ thread_at \in Grippers /\ initialized[thread_at]

\* After read() has seen a fault, one command at most still goes out: that of the
\* gripper the thread had already tested in_fault_ for.
FaultStopsGripper == late <= 1

\* The angle shown to the controllers is one the gripper was at in this activation, in
\* spite of cached readings and of limits and caches left from an earlier one.
PositionIsReal ==
  cm \in {"read", "update", "write"} =>
    \A g \in Grippers : pos[g] \in {AngleOf(c) : c \in been[g]}

\* The last command wins, between two atomics, two threads and a duplicate test, and
\* nothing survives a deactivation.
Register == INSTANCE GripperRegister WITH None <- NoCommand

LastCommandWins == Register!Spec

Deactivating == cm \in {"join", "shutdown", "closing"}

\* The steps the gripper thread has left, in the period it is in, and the manager's
\* thread in on_deactivate; the first are at most so many.
ThreadSteps ==
  CASE thread = "gone" -> 0
    [] thread = "loop" -> 1
    [] thread = "check" -> 5 * (NumGrippers + 1 - thread_at) + 2
    [] thread = "poll" -> 5 * (NumGrippers + 1 - thread_at) + 1
    [] thread = "reading" -> 5 * (NumGrippers + 1 - thread_at)
    [] thread = "fetch" -> 5 * (NumGrippers + 1 - thread_at) - 1
    [] thread = "sending" -> 5 * (NumGrippers + 1 - thread_at) - 2

ManagerSteps ==
  CASE cm = "join" -> 2 * NumGrippers + 2
    [] cm = "shutdown" -> 2 * (NumGrippers + 1 - cm_at) + 1
    [] cm = "closing" -> 2 * (NumGrippers + 1 - cm_at)
    [] OTHER -> 0

StepsLeft == ThreadSteps + ManagerSteps

\* Once on_deactivate has begun, every step of either thread is one less to go: no new
\* period, no gripper served twice or shut down twice.  (LL 702-710.)
DeactivationAdvances ==
  [][Deactivating => StepsLeft' < StepsLeft \/ UNCHANGED <<cmVars, threadVars>>]_vars

\* on_deactivate waits for the thread with no lock held, and for the lock with nobody
\* left to hold it: neither ever waits for the other.
NobodyWaitsForever ==
  /\ cm = "join" => mutex \in IF thread = "gone" THEN {"nobody"} ELSE {"nobody", "thread"}
  /\ cm = "shutdown" => mutex = "nobody" /\ thread = "gone"

\* A deactivation comes to its end: the thread is never waited for in vain.
DeactivationEnds == (cm = "join") ~> (cm = "inactive")

Tracked(g) ==
  LET wanted == CountOf(Clamped(cmd[g].angle))
  IN goal[g] - wanted \in {-1, 0, 1}

\* Once the driver stays active, free of fault and not blocked (no blocked write holds
\* anything back), a gripper is told to go where its controller last wanted it, to
\* within one count, however the rate limits, the cycle and the thread's period fall.
CommandArrives ==
  (/\ <>[](cm \in {"read", "update", "write"} /\ ~in_fault)
   /\ <>[][WriteBlocked => WriteForwards]_vars)
    => \A g \in Grippers : <>[]Tracked(g)

\* "change too small to bother": a command is skipped only if the gripper is on its way
\* to within a count of it.
SkipsAreSmall ==
  [][FetchSkips /\ Redundant(thread_at) =>
       goal[thread_at] - CountOf(Clamped(cmd_atomic[thread_at].angle)) \in {-1, 0, 1}]_vars

\* "Gripper A initial position": what an activation starts from, as a position and as a
\* command, is where the gripper is.
SeedIsPosition ==
  [][Seed => cmd'[cm_at].angle = AngleOf(actual[cm_at])]_vars
=============================================================================
