--------------------------- MODULE CommandArbiter ---------------------------
(***************************************************************************)
(* What the low-level driver promises the controller manager: the arm is   *)
(* in the one command mode that the active controllers ask for, a switch   *)
(* changes the controllers and the mode in one step, and every command     *)
(* that goes out carries values of active controllers only.                *)
(***************************************************************************)
EXTENDS CommandInterfaces

VARIABLES
  owners,   \* the active controllers
  running,  \* the running command modes: never more than one
  sent      \* what the last cycle sent: in which mode (none or one), whose values

Nothing == [modes |-> {}, by |-> {}]

Init == owners = {} /\ running = {} /\ sent = Nothing

Switch ==
  /\ owners' \in SUBSET Controllers
  /\ NoConflict(owners')
  /\ running' = ModesOf(Claimed(owners'))
  /\ \A m, n \in running' : m = n
  /\ UNCHANGED sent

Issue ==
  /\ \/ sent' = Nothing
     \/ \E m \in running, writers \in SUBSET owners : sent' = [modes |-> {m}, by |-> writers]
  /\ UNCHANGED <<owners, running>>

Spec == Init /\ [][Switch \/ Issue]_<<owners, running, sent>>
=============================================================================
