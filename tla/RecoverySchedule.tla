--------------------------- MODULE RecoverySchedule ---------------------------
(***************************************************************************)
(* What a recovery by hand promises to the controllers it finds active.    *)
(* They are asked to deactivate once, Cycles cycles later the outcome is    *)
(* judged, and only then, if at all, they are asked to come back.  A        *)
(* further recovery starts over with its own list.                          *)
(***************************************************************************)
EXTENDS Naturals

CONSTANTS Controllers, Cycles

VARIABLES
  list,     \* the controllers to be deactivated and judged
  waiting,  \* the cycles until they are judged, Cycles before they have been asked
  requests  \* the requests on their way to the controller manager

Ask(op) == [op |-> op, controllers |-> list]

\* The requests when a cycle has passed.
Asked == requests \cup (IF waiting = Cycles THEN {Ask("deactivate")} ELSE {})

Init == list = {} /\ waiting = 0 /\ requests = {}

\* A recovery ends with controllers to deactivate.
Recover ==
  /\ list' \in (SUBSET Controllers) \ {{}}
  /\ waiting' = Cycles
  /\ UNCHANGED requests

Wait ==
  /\ waiting > 1
  /\ waiting' = waiting - 1
  /\ requests' = Asked
  /\ UNCHANGED list

\* Judged: the controllers are brought back, or left to the user.
Conclude ==
  /\ waiting = 1
  /\ waiting' = 0
  /\ list' = {}
  /\ requests' \in {Asked, Asked \cup {Ask("activate")}}

\* The controller manager takes a request, or it is lost.
Take ==
  /\ \E r \in requests : requests' = requests \ {r}
  /\ UNCHANGED <<list, waiting>>

Next == Recover \/ Wait \/ Conclude \/ Take

Spec == Init /\ [][Next]_<<list, waiting, requests>>
=============================================================================
