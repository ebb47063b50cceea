--------------------------- MODULE GripperRegister ---------------------------
(***************************************************************************)
(* What a driver promises of its grippers: each is a register in which the  *)
(* last command wins.  A command may be overtaken by a later one and never  *)
(* reach the gripper, but none is invented, none comes back after a later   *)
(* one, and none outlives the activation it was given in.                   *)
(***************************************************************************)
EXTENDS Integers

CONSTANTS
  Grippers,
  Commands,  \* records with a number n, the order they are given in
  None       \* no command yet, with a number below all others

VARIABLES
  issued,    \* the commands given to each gripper in this activation
  delivered  \* the last one of them it was sent, or None

registerVars == <<issued, delivered>>

Init ==
  /\ issued = [g \in Grippers |-> {}]
  /\ delivered = [g \in Grippers |-> None]

\* A new activation forgets what went before and starts from the command c.
Begin(g, c) ==
  /\ issued' = [issued EXCEPT ![g] = {c}]
  /\ delivered' = [delivered EXCEPT ![g] = None]

Issue(g, c) ==
  /\ \A d \in issued[g] : d.n < c.n
  /\ issued' = [issued EXCEPT ![g] = @ \cup {c}]
  /\ UNCHANGED delivered

Deliver(g, c) ==
  /\ c \in issued[g]
  /\ delivered[g].n <= c.n
  /\ delivered' = [delivered EXCEPT ![g] = c]
  /\ UNCHANGED issued

Next == \E g \in Grippers, c \in Commands : Begin(g, c) \/ Issue(g, c) \/ Deliver(g, c)

Spec == Init /\ [][Next]_registerVars
=============================================================================
