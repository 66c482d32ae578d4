------------------------------- MODULE Message -------------------------------
(***************************************************************************)
(* The messages an export file holds (entity.Message) and the check that   *)
(* decides which of them are sent (validate in jobs.go).                   *)
(*                                                                         *)
(* validate looks at a field only to see whether it is empty, and at       *)
(* `action' to see which of the known words it is.  A message is therefore *)
(* the record of these tests: dtype, data, source, path and time say       *)
(* "is not empty".                                                         *)
(***************************************************************************)
Action == {"insert", "update", "add", "del", "other"}

MessageType ==
  [dtype : BOOLEAN, data : BOOLEAN, action : Action,
   source : BOOLEAN, path : BOOLEAN, time : BOOLEAN]

\* insert and update name the row they write; add and del need nothing more.
validate(m) ==
  /\ m.dtype
  /\ m.data
  /\ \/ m.action \in {"insert", "update"} /\ m.source /\ m.path /\ m.time
     \/ m.action \in {"add", "del"}

=============================================================================
