-------------------------------- MODULE Folder --------------------------------
(***************************************************************************)
(* Program.parse of jobs.go: which files of the data folder a cycle        *)
(* processes, given the names ReadDir returned.                            *)
(*                                                                         *)
(* parse never looks at a name character by character; it uses the         *)
(* extension, whether the stem (the part before the first dot) starts with *)
(* "lock", and the pieces of the stem between dashes and between           *)
(* underscores.  A name is the record of these:                            *)
(*   json   - the extension is ".json"                                     *)
(*   lock   - the stem starts with "lock"                                  *)
(*   dashes - strings.Split(stem, "-")                                     *)
(*   scores - strings.Split(stem, "_")                                     *)
(***************************************************************************)
EXTENDS Naturals, Sequences

CONSTANT ToLower(_)  \* strings.ToLower on the pieces of the names in use

exportTypes == {"data"}

IsLock(n) == n.json /\ n.lock

\* "lock.json", but also every other stem with that prefix and no dash
LocksAll(n) == IsLock(n) /\ Len(n.dashes) = 1

\* "lock-data.json"; a third piece makes the name mean nothing
LocksType(n, t) == IsLock(n) /\ Len(n.dashes) = 2 /\ ToLower(n.dashes[2]) = t

\* <export>_<app>_<unique timestamp>.json
IsData(n) == n.json /\ ~n.lock /\ Len(n.scores) = 3

\* the type is the first piece; nobody looks at the other two
ExportType(n) == ToLower(n.scores[1])

\* a slip in the filter: the locks of one export type are not consulted
parse_IgnoresTypeLocks(names) ==
  IF \E l \in names : LocksAll(l)
  THEN {}
  ELSE {n \in names : IsData(n) /\ ExportType(n) \in exportTypes}

parse(names) ==
  IF \E l \in names : LocksAll(l)
  THEN {}
  ELSE {n \in names :
          /\ IsData(n)
          /\ ExportType(n) \in exportTypes
          /\ ~ \E l \in names : LocksType(l, ExportType(n))}

===============================================================================
