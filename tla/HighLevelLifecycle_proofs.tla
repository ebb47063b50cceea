---------------------- MODULE HighLevelLifecycle_proofs ----------------------
(***************************************************************************)
(* What the high-level driver guarantees from its first activation to its   *)
(* last, for all grippers, scales and robots, whatever fails in between.    *)
(***************************************************************************)
EXTENDS HighLevelLifecycle, GripperController_proofs

-----------------------------------------------------------------------------
(* Types.                                                                   *)

\* From its first activation on, the driver has a number for what it opens.
CountInv == cm # "inactive" => activations # 0

\* Every step keeps the types of the driver's own fields.
LEMMA LifeTypes ==
  ASSUME TypeLife, CountInv, [Next]_vars PROVE TypeLife' /\ CountInv'
<1> USE LifecycleAssumption DEF TypeLife, CountInv, Links,
        lifeVars, linkVars, closeVars, controllerVars, worldVars, startVars, gripperUnchanged
<1>1. CASE PowerOn \/ PowerOnFails \/ GrippersRead \/ UpdateDone
  BY <1>1 DEF PowerOn, PowerOnFails, GrippersRead, UpdateDone
<1>2. CASE Feedback \/ CycleFails \/ Spin \/ SpinCrashes
  BY <1>2 DEF Feedback, CycleFails, Spin, SpinCrashes
<1>3. CASE SelectAuto \/ SelectAutoFails \/ StartGripper \/ StartGripperFails
  BY <1>3 DEF SelectAuto, SelectAutoFails, StartGripper, StartGripperFails
<1>4. CASE ReadCached \/ ReadGripper \/ SendSkips \/ SendGripper
  BY <1>4 DEF ReadCached, ReadGripper, SendSkips, SendGripper, Sends
<1>5. CASE WriteBlocked \/ WriteSends \/ GrippersSent
  BY <1>5 DEF WriteBlocked, WriteSends, GrippersSent
<1>6. CASE Deactivate \/ Stop \/ StopThrows \/ Shutdown \/ ShutdownThrows \/ ShutdownEnds
  <2>1. CASE Deactivate \/ Stop \/ StopThrows
    BY <2>1 DEF Deactivate, Stop, StopThrows
  <2>2. CASE Shutdown \/ ShutdownThrows
    <3>1. cm_at \in Grippers /\ cm_at' \in 1 .. NumGrippers + 1
      BY <2>2 DEF Shutdown, ShutdownThrows, Grippers
    <3>2. unshut' \subseteq Grippers
      BY <2>2, <3>1 DEF Shutdown, ShutdownThrows
    <3>3. QED
      BY <2>2, <3>1, <3>2 DEF Shutdown, ShutdownThrows
  <2>3. CASE ShutdownEnds
    BY <2>3 DEF ShutdownEnds
  <2>4. QED
    BY <1>6, <2>1, <2>2, <2>3
<1>7. CASE CloseUdp \/ CloseMqtt
  <2>1. unclosed' \subseteq unclosed \cup open /\ open' \subseteq open
    BY <1>7 DEF CloseUdp, CloseMqtt, Close
  <2>2. 1 \in 1 .. NumGrippers + 1
    OBVIOUS
  <2>3. QED
    BY <1>7, <2>1, <2>2 DEF CloseUdp, CloseMqtt
<1>8. CASE Activate
  BY <1>8 DEF Activate
<1>9. CASE OpenMqtt
  <2>1. activations \in 1 .. MaxActivations
    BY <1>9 DEF OpenMqtt
  <2>2. QED
    BY <1>9, <2>1 DEF OpenMqtt, Made
<1>10. CASE OpenMqttFails
  BY <1>10 DEF OpenMqttFails, Made
<1>11. CASE OpenUdp
  <2>1. activations \in 1 .. MaxActivations
    BY <1>11 DEF OpenUdp
  <2>2. QED
    BY <1>11, <2>1 DEF OpenUdp, Made, WithoutOldSocket
<1>12. CASE OpenUdpFails
  <2>1. activations \in 1 .. MaxActivations
    BY <1>12 DEF OpenUdpFails
  <2>2. QED
    BY <1>12, <2>1 DEF OpenUdpFails, Made, WithoutOldSocket
<1>13. CASE ActivationEnds
  BY <1>13 DEF ActivationEnds
<1>14. CASE Reset
  <2>1. cm' \in {"inactive", "finalized"} /\ cm_at' \in 1 .. NumGrippers + 1
    BY <1>14 DEF Reset
  <2>2. activations' = activations /\ activations # 0
    BY <1>14 DEF Reset
  <2>3. QED
    BY <1>14, <2>1, <2>2 DEF Reset
<1>15. ASSUME NEW g \in Grippers,
              PollDue(g) \/ SendDue(g) \/ GripperMoves(g) \/ GripperFalters(g)
       PROVE  TypeLife' /\ CountInv'
  BY <1>15 DEF PollDue, SendDue, GripperMoves, GripperFalters, driverUnchanged
<1>16. ASSUME NEW g \in Grippers, NEW angle \in Wanted, Command(g, angle)
       PROVE  TypeLife' /\ CountInv'
  BY <1>16 DEF Command
<1>17. CASE UNCHANGED vars
  BY <1>17 DEF vars
<1>18. QED
  BY <1>1, <1>2, <1>3, <1>4, <1>5, <1>6, <1>7, <1>8, <1>9, <1>10, <1>11, <1>12, <1>13, <1>14,
     <1>15, <1>16, <1>17
     DEF Next, OnActivate, Cycle, OnDeactivate, World

\* Angles are integers.
LEMMA AngleIsInt == Angles \subseteq Int
BY MaxAngleNat DEF Angles

\* Every step keeps the types of the gripper's: what is sent is a register that exists,
\* whatever the controllers command.
LEMMA GripperTypes ==
  ASSUME TypeOK, [Next]_vars PROVE TypeGrippers'
<1> USE DEF TypeOK, TypeGrippers,
        lifeVars, linkVars, closeVars, controllerVars, worldVars, startVars, gripperUnchanged
<1>1. CASE Activate \/ OpenMqtt \/ OpenMqttFails \/ PowerOn \/ PowerOnFails \/ OpenUdp \/
     OpenUdpFails \/ SelectAuto \/ SelectAutoFails
  BY <1>1 DEF Activate, OpenMqtt, OpenMqttFails, PowerOn, PowerOnFails, OpenUdp, OpenUdpFails,
     SelectAuto, SelectAutoFails, Made, WithoutOldSocket
<1>2. CASE ActivationEnds \/ ReadCached \/ GrippersRead \/ Feedback \/ CycleFails \/ Spin \/
     SpinCrashes \/ UpdateDone
  BY <1>2 DEF ActivationEnds, ReadCached, GrippersRead, Feedback, CycleFails, Spin, SpinCrashes,
     UpdateDone
<1>3. CASE WriteBlocked \/ WriteSends \/ SendSkips \/ GrippersSent
  BY <1>3 DEF WriteBlocked, WriteSends, SendSkips, GrippersSent
<1>4. CASE Deactivate \/ Stop \/ StopThrows \/ CloseUdp \/ CloseMqtt \/ Shutdown \/
     ShutdownThrows \/ ShutdownEnds \/ Reset
  BY <1>4 DEF Deactivate, Stop, StopThrows, CloseUdp, CloseMqtt, Shutdown, ShutdownThrows,
     ShutdownEnds, Reset, Close
<1>5. CASE StartGripper
  <2> DEFINE at == AngleOf(actual[cm_at])
  <2>1. cm_at \in Grippers /\ actual[cm_at] \in Counts
    BY <1>5, LifecycleAssumption DEF StartGripper, TypeLife, Grippers
  <2>2. at \in Angles /\ Clamped(at) \in Angles /\ CountOf(Clamped(at)) \in Counts
    BY <2>1, AngleIsInt, AngleInRange, ClampedInRange, CountInRange
  <2>3. /\ initialized' \in [Grippers -> BOOLEAN] /\ connected' \in [Grippers -> BOOLEAN]
        /\ poll_due' \in [Grippers -> BOOLEAN] /\ send_due' \in [Grippers -> BOOLEAN]
    BY <1>5, <2>1 DEF StartGripper, Redundant, TooSmall
  <2>4. /\ position' \in [Grippers -> Angles \cup {NaN}]
        /\ last_cmd' \in [Grippers -> Angles \cup {NaN}]
        /\ command_position' \in [Grippers -> Wanted \cup Angles \cup {NaN}]
    BY <1>5, <2>1, <2>2 DEF StartGripper, Seed
  <2>5. goal' \in [Grippers -> Counts] /\ start' \in [Grippers -> Counts]
    BY <1>5, <2>1, <2>2 DEF StartGripper, Seed
  <2>6. QED
    BY <1>5, <2>3, <2>4, <2>5 DEF StartGripper
<1>6. CASE StartGripperFails
  <2>1. cm_at \in Grippers /\ actual[cm_at] \in Counts
    BY <1>6, LifecycleAssumption DEF StartGripperFails, TypeLife, Grippers
  <2>2. QED
    BY <1>6, <2>1 DEF StartGripperFails
<1>7. CASE ReadGripper
  <2>1. cm_at \in Grippers /\ AngleOf(actual[cm_at]) \in Angles
    BY <1>7, LifecycleAssumption, AngleInRange DEF ReadGripper, TypeLife, Grippers
  <2>2. QED
    BY <1>7, <2>1 DEF ReadGripper
<1>8. CASE SendGripper
  <2> DEFINE to == Clamped(command_position[cm_at])
  <2>1. cm_at \in Grippers
    BY <1>8, LifecycleAssumption DEF SendGripper, TypeLife, Grippers
  <2>2. to \in Angles /\ CountOf(to) \in Counts
    <3>1. command_position[cm_at] \in Wanted \cup Angles \cup {NaN}
      BY <2>1
    <3>2. Wanted \cup Angles \cup {NaN} \subseteq Int
      BY AngleIsInt, LifecycleAssumption DEF NaN
    <3>3. QED
      BY <3>1, <3>2, ClampedInRange, CountInRange
  <2>3. \A told \in Unanswered(cm_at) : told \in Counts
    BY <2>1 DEF Unanswered
  <2>4. goal' \in [Grippers -> Counts]
    BY <1>8, <2>1, <2>2, <2>3 DEF SendGripper, Sends
  <2>5. QED
    BY <1>8, <2>1, <2>2, <2>4 DEF SendGripper, Sends
<1>9. ASSUME NEW g \in Grippers,
             PollDue(g) \/ SendDue(g) \/ GripperMoves(g) \/ GripperFalters(g)
       PROVE  TypeGrippers'
  BY <1>9 DEF PollDue, SendDue, GripperMoves, GripperFalters, driverUnchanged
<1>10. ASSUME NEW g \in Grippers, NEW angle \in Wanted, Command(g, angle)
       PROVE  TypeGrippers'
  BY <1>10 DEF Command
<1>11. CASE UNCHANGED vars
  BY <1>11 DEF vars
<1>12. QED
  BY <1>1, <1>2, <1>3, <1>4, <1>5, <1>6, <1>7, <1>8, <1>9, <1>10, <1>11
     DEF Next, OnActivate, Cycle, OnDeactivate, World

\* The types hold from on_init on.
LEMMA TypeInit == Init => TypeOK /\ CountInv
<1> SUFFICES ASSUME Init PROVE TypeOK /\ CountInv
  OBVIOUS
<1>1. cm_at \in 1 .. NumGrippers + 1 /\ activations \in 0 .. MaxActivations
  BY LifecycleAssumption DEF Init
<1>2. TypeLife
  BY <1>1 DEF Init, TypeLife
<1>3. TypeGrippers
  BY DEF Init, TypeGrippers
<1>4. QED
  BY <1>2, <1>3 DEF Init, TypeOK, CountInv

LEMMA TypesAlways == Spec => [](TypeOK /\ CountInv)
<1>1. TypeOK /\ CountInv /\ [Next]_vars => TypeOK' /\ CountInv'
  BY LifeTypes, GripperTypes DEF TypeOK
<1>2. QED
  BY <1>1, TypeInit, PTL DEF Spec

\* Every field keeps to its type: no angle out of range is remembered as sent and no
\* register out of range is written, whatever a controller commands.
THEOREM TypeCorrect == Spec => []TypeOK
BY TypesAlways, PTL

-----------------------------------------------------------------------------
(* What is open.                                                            *)

Held(ls) == {<<l, handle[l]>> : l \in ls}

\* At each step of the life cycle, the links that may still be open: those whose closing
\* failed, and those the pointers set so far hold.
OpenInv ==
  /\ cm \in {"inactive", "mqtt", "shutdown", "reset", "finalized"} => open \subseteq unclosed
  /\ cm \in {"power", "udp", "close_mqtt"} => open \subseteq unclosed \cup Held({"mqtt"})
  /\ cm # "crashed" => open \subseteq unclosed \cup Held(Links)

\* A gripper is in use after its turn only if a closing failed, its own or an earlier one.
ShutDown(g) == initialized[g] \/ connected[g] => \E h \in unshut : h <= g

\* What on_deactivate has already done.
StoppedInv ==
  /\ cm \in {"close_udp", "close_mqtt", "shutdown", "reset", "inactive", "finalized"} =>
       (base_mqtt => mode = "MONITORED_STOP" \/ unstopped)
  /\ cm = "shutdown" => \A g \in Grippers : g < cm_at => ShutDown(g)
  /\ cm \in {"reset", "inactive", "finalized"} => \A g \in Grippers : ShutDown(g)

\* What a step opens is in a pointer, and what a step closes is what the pointers hold:
\* no activation loses a link that an earlier one left open.
LEMMA OpenStep ==
  ASSUME "foreign" \notin MayFail, TypeLife, OpenInv, [Next]_vars PROVE OpenInv'
<1> USE DEF OpenInv, Held, Links,
        lifeVars, linkVars, closeVars, controllerVars, worldVars, startVars, gripperUnchanged
<1>1. CASE Activate \/ PowerOn \/ PowerOnFails \/ SelectAuto \/ SelectAutoFails \/
     StartGripper \/ StartGripperFails \/ ActivationEnds
  BY <1>1 DEF Activate, PowerOn, PowerOnFails, SelectAuto, SelectAutoFails, StartGripper,
     StartGripperFails, ActivationEnds
<1>2. CASE ReadCached \/ ReadGripper \/ GrippersRead \/ Feedback \/ CycleFails \/ Spin \/
     SpinCrashes \/ UpdateDone
  BY <1>2 DEF ReadCached, ReadGripper, GrippersRead, Feedback, CycleFails, Spin, SpinCrashes,
     UpdateDone
<1>3. CASE WriteBlocked \/ WriteSends \/ SendSkips \/ SendGripper \/ GrippersSent
  BY <1>3 DEF WriteBlocked, WriteSends, SendSkips, SendGripper, GrippersSent, Sends
<1>4. CASE Deactivate \/ Stop \/ StopThrows \/ Shutdown \/ ShutdownThrows \/ ShutdownEnds \/ Reset
  BY <1>4 DEF Deactivate, Stop, StopThrows, Shutdown, ShutdownThrows, ShutdownEnds, Reset
<1>5. CASE OpenMqtt
  <2>1. handle' = [handle EXCEPT !["mqtt"] = activations] /\ handle'["mqtt"] = activations
    BY <1>5 DEF OpenMqtt, Made, TypeLife
  <2>2. open' \subseteq unclosed \cup {<<"mqtt", handle'["mqtt"]>>}
    BY <1>5, <2>1 DEF OpenMqtt
  <2>3. cm' = "power" /\ unclosed' = unclosed
    BY <1>5 DEF OpenMqtt
  <2>4. QED
    BY <2>2, <2>3
<1>6. CASE OpenMqttFails
  BY <1>6 DEF OpenMqttFails
<1>7. CASE OpenUdp
  <2>1. /\ handle'["mqtt"] = handle["mqtt"]
        /\ handle'["transport"] = activations /\ handle'["udp"] = activations
    BY <1>7 DEF OpenUdp, Made, TypeLife
  <2>2. open \subseteq unclosed \cup {<<"mqtt", handle["mqtt"]>>}
    BY <1>7 DEF OpenUdp
  <2>3. cm' = "auto" /\ unclosed' = unclosed
    BY <1>7 DEF OpenUdp
  <2>4. open' \subseteq open \cup {<<"transport", activations>>, <<"udp", activations>>}
    BY <1>7 DEF OpenUdp, WithoutOldSocket
  <2>5. QED
    BY <2>1, <2>2, <2>3, <2>4
<1>8. CASE OpenUdpFails
  <2>1. /\ handle'["mqtt"] = handle["mqtt"]
        /\ handle'["transport"] = activations
    BY <1>8 DEF OpenUdpFails, Made, TypeLife
  <2>2. open \subseteq unclosed \cup {<<"mqtt", handle["mqtt"]>>}
    BY <1>8 DEF OpenUdpFails
  <2>3. cm' = "failed" /\ unclosed' = unclosed
    BY <1>8 DEF OpenUdpFails
  <2>4. open' \subseteq open \cup {<<"transport", activations>>}
    BY <1>8 DEF OpenUdpFails, WithoutOldSocket
  <2>5. QED
    BY <2>1, <2>2, <2>3, <2>4
<1>9. CASE CloseUdp
  BY <1>9 DEF CloseUdp, Close
<1>10. CASE CloseMqtt
  BY <1>10 DEF CloseMqtt, Close
<1>11. ASSUME NEW g \in Grippers,
              PollDue(g) \/ SendDue(g) \/ GripperMoves(g) \/ GripperFalters(g)
       PROVE  OpenInv'
  BY <1>11 DEF PollDue, SendDue, GripperMoves, GripperFalters, driverUnchanged
<1>12. ASSUME NEW g \in Grippers, NEW angle \in Wanted, Command(g, angle)
       PROVE  OpenInv'
  BY <1>12 DEF Command
<1>13. CASE UNCHANGED vars
  BY <1>13 DEF vars
<1>14. QED
  BY <1>1, <1>2, <1>3, <1>4, <1>5, <1>6, <1>7, <1>8, <1>9, <1>10, <1>11, <1>12, <1>13
     DEF Next, OnActivate, Cycle, OnDeactivate, World

\* Nothing starts the robot or a gripper again between on_deactivate and on_activate.
LEMMA StoppedStep ==
  ASSUME "foreign" \notin MayFail, TypeOK, StoppedInv, [Next]_vars PROVE StoppedInv'
<1> USE DEF StoppedInv, ShutDown,
        lifeVars, linkVars, closeVars, controllerVars, worldVars, startVars, gripperUnchanged
<1>1. CASE Activate \/ OpenMqtt \/ OpenMqttFails \/ PowerOn \/ PowerOnFails \/ OpenUdp \/
     OpenUdpFails \/ SelectAuto \/ SelectAutoFails
  BY <1>1 DEF Activate, OpenMqtt, OpenMqttFails, PowerOn, PowerOnFails, OpenUdp, OpenUdpFails,
     SelectAuto, SelectAutoFails, Made, WithoutOldSocket
<1>2. CASE StartGripper \/ StartGripperFails \/ ActivationEnds
  BY <1>2 DEF StartGripper, StartGripperFails, ActivationEnds
<1>3. CASE ReadCached \/ ReadGripper \/ GrippersRead \/ Feedback \/ CycleFails \/ Spin \/
     SpinCrashes \/ UpdateDone
  BY <1>3 DEF ReadCached, ReadGripper, GrippersRead, Feedback, CycleFails, Spin, SpinCrashes,
     UpdateDone
<1>4. CASE WriteBlocked \/ WriteSends \/ SendSkips \/ SendGripper \/ GrippersSent
  BY <1>4 DEF WriteBlocked, WriteSends, SendSkips, SendGripper, GrippersSent, Sends
<1>5. CASE Deactivate \/ Stop \/ StopThrows
  BY <1>5 DEF Deactivate, Stop, StopThrows
<1>6. CASE CloseUdp \/ Reset
  BY <1>6 DEF CloseUdp, Reset, Close
<1>7. CASE CloseMqtt
  <2>1. \A g \in Grippers : ~(g < 1)
    BY DEF Grippers
  <2>2. QED
    BY <1>7, <2>1 DEF CloseMqtt, Close
<1>8. CASE Shutdown
  <2>1. cm_at \in Grippers /\ cm = "shutdown" /\ cm' = cm /\ cm_at' = cm_at + 1
    BY <1>8, LifecycleAssumption DEF Shutdown, TypeOK, TypeLife, Grippers
  <2>2. /\ UNCHANGED <<base_mqtt, mode, unstopped>>
        /\ unshut \subseteq unshut'
        /\ \A g \in Grippers \ {cm_at} : initialized'[g] = initialized[g] /\ connected'[g] = connected[g]
    BY <1>8 DEF Shutdown, TypeOK, TypeGrippers
  <2>3. initialized'[cm_at] \/ connected'[cm_at] => cm_at \in unshut'
    BY <1>8, <2>1 DEF Shutdown, TypeOK, TypeGrippers
  <2>4. ASSUME NEW g \in Grippers, g < cm_at' PROVE ShutDown(g)'
    <3>1. CASE g = cm_at
      BY <2>1, <2>3, <3>1 DEF Grippers
    <3>2. CASE g # cm_at
      <4>1. g < cm_at
        BY <2>1, <2>4, <3>2 DEF Grippers
      <4>2. QED
        BY <2>1, <2>2, <3>2, <4>1
    <3>3. QED
      BY <3>1, <3>2
  <2>5. QED
    BY <2>1, <2>2, <2>4
<1>9. CASE ShutdownThrows
  <2>1. cm_at \in Grippers /\ cm = "shutdown" /\ cm' = "reset"
    BY <1>9, LifecycleAssumption DEF ShutdownThrows, TypeOK, TypeLife, Grippers
  <2>2. /\ UNCHANGED <<base_mqtt, mode, unstopped, initialized>>
        /\ unshut' = unshut \cup {cm_at}
        /\ \A g \in Grippers \ {cm_at} : connected'[g] = connected[g]
    BY <1>9 DEF ShutdownThrows, TypeOK, TypeGrippers
  <2>3. ASSUME NEW g \in Grippers PROVE ShutDown(g)'
    <3>1. CASE g < cm_at
      <4>1. g # cm_at
        BY <2>1, <3>1 DEF Grippers
      <4>2. QED
        BY <2>1, <2>2, <3>1, <4>1
    <3>2. CASE ~(g < cm_at)
      BY <2>1, <2>2, <3>2 DEF Grippers
    <3>3. QED
      BY <3>1, <3>2
  <2>4. QED
    BY <2>1, <2>2, <2>3
<1>10. CASE ShutdownEnds
  <2>1. \A g \in Grippers : g < cm_at
    BY <1>10, LifecycleAssumption DEF ShutdownEnds, Grippers
  <2>2. QED
    BY <1>10, <2>1 DEF ShutdownEnds
<1>11. ASSUME NEW g \in Grippers,
              PollDue(g) \/ SendDue(g) \/ GripperMoves(g) \/ GripperFalters(g)
       PROVE  StoppedInv'
  BY <1>11 DEF PollDue, SendDue, GripperMoves, GripperFalters, driverUnchanged
<1>12. ASSUME NEW g \in Grippers, NEW angle \in Wanted, Command(g, angle)
       PROVE  StoppedInv'
  BY <1>12 DEF Command
<1>13. CASE UNCHANGED vars
  BY <1>13 DEF vars
<1>14. QED
  BY <1>1, <1>2, <1>3, <1>4, <1>5, <1>6, <1>7, <1>8, <1>9, <1>10, <1>11, <1>12, <1>13
     DEF Next, OnActivate, Cycle, OnDeactivate, World

\* "Gracefully shut down the robot and network connections in order."  However far
\* on_activate got, whatever failed in it, in a cycle or in closing, on_deactivate leaves
\* no link open but those it failed to close, no gripper in use before the first whose
\* connection it failed to close, and stops what it can reach; provided the library
\* throws nothing but its own exception in the stop (HL_ForeignError shows what if not).
THEOREM Deactivation ==
  ASSUME "foreign" \notin MayFail PROVE Spec => []DeactivationIsClean
<1>1. Init => OpenInv /\ StoppedInv
  BY DEF Init, OpenInv, StoppedInv, ShutDown, Held, Links
<1>2. TypeOK /\ OpenInv /\ StoppedInv /\ [Next]_vars => OpenInv' /\ StoppedInv'
  BY OpenStep, StoppedStep DEF TypeOK
<1>3. OpenInv /\ StoppedInv => DeactivationIsClean
  BY DEF OpenInv, StoppedInv, ShutDown, DeactivationIsClean
<1>4. QED
  BY <1>1, <1>2, <1>3, TypeCorrect, PTL DEF Spec

-----------------------------------------------------------------------------
(* What the grippers were told.                                             *)

\* The grippers that have been started in the present activation.
Started(g) == active \/ (cm = "gripper" /\ g < cm_at)

\* An active driver is not in on_activate, and an uncommanded gripper is told to be where
\* it was, and is there: the first of two requests can make it stay where it is.
StartInv ==
  /\ active => cm \in {"read", "feedback", "spin", "update", "write", "send", "stop",
                       "close_udp", "close_mqtt", "shutdown", "reset", "crashed"}
  /\ \A g \in Grippers :
       Started(g) /\ ~commanded[g] =>
         /\ command_position[g] = AngleOf(start[g])
         /\ {goal[g], actual[g]} \subseteq {start[g], start[g] - 1}

\* A gripper is told nothing but where it was, one count of rounding aside, until a
\* controller commands it; RoundTrip is where the one count comes from.
LEMMA StartStep ==
  ASSUME TypeOK, StartInv, [Next]_vars PROVE StartInv'
<1> USE DEF StartInv, Started,
        lifeVars, linkVars, closeVars, controllerVars, worldVars, startVars, gripperUnchanged
<1>1. CASE OpenMqtt \/ OpenMqttFails \/ PowerOn \/ PowerOnFails \/ OpenUdp \/ OpenUdpFails \/
     SelectAutoFails
  BY <1>1 DEF OpenMqtt, OpenMqttFails, PowerOn, PowerOnFails, OpenUdp, OpenUdpFails,
     SelectAutoFails, Made, WithoutOldSocket
<1>2. CASE ReadCached \/ ReadGripper \/ GrippersRead \/ Feedback
  BY <1>2 DEF ReadCached, ReadGripper, GrippersRead, Feedback
<1>3. CASE CycleFails \/ Spin \/ SpinCrashes \/ UpdateDone
  BY <1>3 DEF CycleFails, Spin, SpinCrashes, UpdateDone
<1>4. CASE WriteBlocked \/ WriteSends \/ SendSkips \/ GrippersSent
  BY <1>4 DEF WriteBlocked, WriteSends, SendSkips, GrippersSent
<1>5. CASE Deactivate \/ Stop \/ StopThrows \/ CloseUdp \/ CloseMqtt \/ Shutdown \/
     ShutdownThrows \/ ShutdownEnds \/ Reset
  BY <1>5 DEF Deactivate, Stop, StopThrows, CloseUdp, CloseMqtt, Shutdown, ShutdownThrows,
     ShutdownEnds, Reset, Close
<1>6. CASE Activate
  BY <1>6 DEF Activate
<1>7. CASE SelectAuto
  <2>1. ~active /\ active' = active /\ cm' = "gripper" /\ cm_at' = 1
    BY <1>7 DEF SelectAuto
  <2>2. \A g \in Grippers : ~(g < cm_at')
    BY <2>1 DEF Grippers
  <2>3. QED
    BY <2>1, <2>2
<1>8. CASE StartGripper
  <2>1. cm_at \in Grippers /\ actual[cm_at] \in Counts
    BY <1>8, LifecycleAssumption DEF StartGripper, TypeOK, TypeLife, TypeGrippers, Grippers
  <2>2. CountOf(Clamped(AngleOf(actual[cm_at]))) \in {actual[cm_at], actual[cm_at] - 1}
    BY <2>1, RoundTrip
  <2>3. cm = "gripper" /\ cm' = "gripper" /\ cm_at' = cm_at + 1 /\ ~active /\ active' = active
    BY <1>8 DEF StartGripper
  <2>4. /\ start' = [start EXCEPT ![cm_at] = actual[cm_at]]
        /\ command_position' = [command_position EXCEPT ![cm_at] = AngleOf(actual[cm_at])]
        /\ \/ goal' = [goal EXCEPT ![cm_at] = actual[cm_at]]
           \/ goal' = [goal EXCEPT ![cm_at] = CountOf(Clamped(AngleOf(actual[cm_at])))]
        /\ UNCHANGED <<commanded, actual>>
    BY <1>8 DEF StartGripper, Seed
  <2>5. ASSUME NEW g \in Grippers, g < cm_at', ~commanded[g]
        PROVE  /\ command_position'[g] = AngleOf(start'[g])
               /\ {goal'[g], actual[g]} \subseteq {start'[g], start'[g] - 1}
    <3>1. CASE g = cm_at
      BY <2>1, <2>2, <2>4, <3>1 DEF TypeOK, TypeGrippers
    <3>2. CASE g # cm_at
      <4>1. g < cm_at
        BY <2>3, <2>5, <3>2, <2>1 DEF Grippers
      <4>2. QED
        BY <2>1, <2>3, <2>4, <2>5, <3>2, <4>1 DEF TypeOK, TypeGrippers
    <3>3. QED
      BY <3>1, <3>2
  <2>6. QED
    BY <2>3, <2>4, <2>5
<1>9. CASE StartGripperFails
  BY <1>9 DEF StartGripperFails
<1>10. CASE ActivationEnds
  <2>1. \A g \in Grippers : g < cm_at
    BY <1>10, LifecycleAssumption DEF ActivationEnds, Grippers
  <2>2. QED
    BY <1>10, <2>1 DEF ActivationEnds
<1>11. CASE SendGripper
  <2>1. cm_at \in Grippers /\ start[cm_at] \in Counts
    BY <1>11, LifecycleAssumption DEF SendGripper, TypeOK, TypeLife, TypeGrippers, Grippers
  <2>2. CountOf(Clamped(AngleOf(start[cm_at]))) \in {start[cm_at], start[cm_at] - 1}
    BY <2>1, RoundTrip
  <2>3. /\ \E told \in {CountOf(Clamped(command_position[cm_at])), goal[cm_at], actual[cm_at]} :
             goal' = [goal EXCEPT ![cm_at] = told]
        /\ cm = "send" /\ cm' = cm
        /\ UNCHANGED <<active, actual, command_position, commanded, start>>
    BY <1>11 DEF SendGripper, Sends, Unanswered
  <2>4. ASSUME NEW g \in Grippers, active, ~commanded[g]
        PROVE  {goal'[g], actual[g]} \subseteq {start[g], start[g] - 1}
    <3>1. CASE g = cm_at
      BY <2>1, <2>2, <2>3, <2>4, <3>1 DEF TypeOK, TypeGrippers
    <3>2. CASE g # cm_at
      BY <2>3, <2>4, <3>2 DEF TypeOK, TypeGrippers
    <3>3. QED
      BY <3>1, <3>2
  <2>5. QED
    BY <2>3, <2>4
<1>12. ASSUME NEW g \in Grippers,
              PollDue(g) \/ SendDue(g) \/ GripperMoves(g) \/ GripperFalters(g)
       PROVE  StartInv'
  BY <1>12 DEF PollDue, SendDue, GripperMoves, GripperFalters, driverUnchanged,
     TypeOK, TypeGrippers
<1>13. ASSUME NEW g \in Grippers, NEW angle \in Wanted, Command(g, angle)
       PROVE  StartInv'
  BY <1>13 DEF Command, TypeOK, TypeGrippers
<1>14. CASE UNCHANGED vars
  BY <1>14 DEF vars
<1>15. QED
  BY <1>1, <1>2, <1>3, <1>4, <1>5, <1>6, <1>7, <1>8, <1>9, <1>10, <1>11, <1>12, <1>13, <1>14
     DEF Next, OnActivate, Cycle, OnDeactivate, World

\* "so the gripper holds its position on startup instead of jerking": on every scale, in
\* every activation, wherever the gripper was moved in between.
THEOREM HoldsPosition == Spec => []HoldsOnStartup
<1>1. Init => StartInv
  BY DEF Init, StartInv, Started
<1>2. TypeOK /\ StartInv /\ [Next]_vars => StartInv'
  BY StartStep
<1>3. StartInv => HoldsOnStartup
  BY DEF StartInv, Started, HoldsOnStartup
<1>4. QED
  BY <1>1, <1>2, <1>3, TypeCorrect, PTL DEF Spec
=============================================================================
