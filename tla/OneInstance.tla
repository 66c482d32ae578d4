---------------------------- MODULE OneInstance ------------------------------
(***************************************************************************)
(* What the lock file is for: of all processes that are started, one at a  *)
(* time gets inside, until it ends or lets go.  A process is refused only  *)
(* while another one is inside or on its way: what an earlier process has  *)
(* left behind refuses nobody.                                             *)
(*                                                                         *)
(* Startup shows that the steps of hasLockfile implement this.             *)
(***************************************************************************)
EXTENDS TLAPS

CONSTANT Procs

VARIABLE state

Init == state = [p \in Procs |-> "off"]

Become(p, s) == state' = [state EXCEPT ![p] = s]

Try(p) ==
  /\ state[p] = "off"
  /\ Become(p, "trying")

Enter(p) ==
  /\ state[p] = "trying"
  /\ \A q \in Procs : state[q] # "inside"
  /\ Become(p, "inside")

Refuse(p) ==
  /\ state[p] = "trying"
  /\ \E q \in Procs \ {p} : state[q] \in {"trying", "inside"}
  /\ Become(p, "refused")

\* it ends at any point, or lets go of what it has locked
Leave(p) == Become(p, "off")

Next == \E p \in Procs : Try(p) \/ Enter(p) \/ Refuse(p) \/ Leave(p)

Spec == Init /\ [][Next]_state

-----------------------------------------------------------------------------
\* One process at most is inside.
OneInside == \A p, q \in Procs : state[p] = "inside" /\ state[q] = "inside" => p = q

\* The guard of Enter is enough for that, whoever comes, goes and ends meanwhile.
THEOREM OneInsideAlways == Spec => []OneInside
<1> DEFINE Inv == state = [p \in Procs |-> state[p]] /\ OneInside
<1>1. Init => Inv
  BY DEF Init, OneInside
<1>2. Inv /\ [Next]_state => Inv'
  BY DEF Next, Try, Enter, Refuse, Leave, Become, OneInside
<1>3. Inv => OneInside
  OBVIOUS
<1> QED
  BY <1>1, <1>2, <1>3, PTL DEF Spec

==============================================================================
