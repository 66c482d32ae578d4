------------------------------ MODULE MCSession ------------------------------
(***************************************************************************)
(* Small instances of Session for TLC.                                     *)
(***************************************************************************)
EXTENDS SessionProofs, FiniteSets, TLC

Collect == {"collect"}
Both == {"heartbeat", "collect"}

\* bound: at most two goroutines are in the middle of something
AtMostTwo == Cardinality({t \in Threads : pc[t] # "idle"}) <= 2

Symmetry == Permutations(Accounts) \cup Permutations(Handlers)

==============================================================================
