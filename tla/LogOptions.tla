------------------------------ MODULE LogOptions ------------------------------
(***************************************************************************)
(* The options of the logging package (log/options.go) and what Configure  *)
(* makes of them (updateScopes in log/config.go, RegisterScope in          *)
(* log/scope.go).                                                          *)
(*                                                                         *)
(* Options keeps its settings in texts: "scope:level,scope:level" for the  *)
(* two kinds of levels, "scope,scope" for the callers.  Each setter and    *)
(* getter splits the text; here the pieces are a sequence.  A piece of a   *)
(* zero Options is the empty text, which stands for the default scope and  *)
(* has no level that can be read.  Names of scopes have neither commas nor *)
(* colons in them (RegisterScope refuses these).                           *)
(*                                                                         *)
(* Configure works through the pieces one after the other and gives up at  *)
(* the first that is wrong.  It looks at the scopes there are when it      *)
(* begins; other goroutines may register scopes and set what these have.    *)
(***************************************************************************)
EXTENDS Naturals, Sequences

CONSTANTS
  Scopes,     \* names of scopes
  Default,    \* DefaultScopeName
  Levels,     \* the levels
  InfoLevel, NoneLevel,
  Undefined   \* no level is set, or it cannot be read

ASSUME LogOptionsAssumption ==
  /\ Default \in Scopes
  /\ "" \notin Scopes
  /\ {InfoLevel, NoneLevel} \subseteq Levels
  /\ Undefined \notin Levels

Kinds == {"output", "stack"}
Piece == [scope : Scopes, level : Levels \cup {Undefined}]
EmptyPiece == [scope |-> Default, level |-> Undefined]

\* a piece of logCallers: the name of a scope, or the empty text, which is free
NoScope == ""
Slots == Scopes \cup {NoScope}

VARIABLES
  (* Options *)
  levels,      \* outputLevels and stackTraceLevels
  logCallers,  \* the pieces of logCallers
  (* the scopes *)
  scopes,      \* those that are registered
  level,       \* their levels
  callers,     \* those that show their callers
  (* Configure *)
  pc,          \* the list it works through, or "idle"
  at,          \* the next piece
  allScopes,   \* the scopes it has found
  (* history, read by no action *)
  settled,     \* since Configure began, it met no error and nothing else was set
  kept         \* if so, the scopes that showed their callers when it began

options == <<levels, logCallers>>
settings == <<level, callers>>
history == <<settled, kept>>
vars == <<options, scopes, settings, pc, at, allScopes, history>>

TypeOK ==
  /\ levels \in [Kinds -> Seq(Piece)]
  /\ logCallers \in Seq(Slots)
  /\ scopes \subseteq Scopes
  /\ level \in [Kinds -> [Scopes -> Levels]]
  /\ callers \subseteq scopes
  /\ pc \in Kinds \cup {"callers", "idle"}
  /\ at \in Nat \ {0}
  /\ allScopes \subseteq scopes
  /\ kept \subseteq scopes
  /\ settled \in BOOLEAN

Initially == [k \in Kinds |-> IF k = "output" THEN InfoLevel ELSE NoneLevel]

\* DefaultOptions, or a zero Options
DefaultLevels == [k \in Kinds |-> <<[scope |-> Default, level |-> Initially[k]]>>]
ZeroLevels == [k \in Kinds |-> <<EmptyPiece>>]

Init ==
  /\ levels \in {DefaultLevels, ZeroLevels}
  /\ logCallers = <<NoScope>>
  /\ scopes = {Default}
  /\ level = [k \in Kinds |-> [s \in Scopes |-> Initially[k]]]
  /\ callers = {}
  /\ pc = "idle" /\ at = 1
  /\ allScopes = {}
  /\ settled = FALSE /\ kept = {}

Unsettled == settled' = FALSE /\ kept' = {}

-----------------------------------------------------------------------------
(* The lists                                                               *)

\* The pieces that are without a colon, and those with a prefix "scope:".
Bare(list) == {i \in DOMAIN list : list[i] = EmptyPiece}
Prefixed(list, s) == {i \in DOMAIN list : list[i].scope = s /\ list[i] # EmptyPiece}

\* What the setters and getters look for: for the default scope, a piece
\* without a colon comes first.
Hits(list, s) ==
  IF s = Default /\ Bare(list) # {} THEN Bare(list) ELSE Prefixed(list, s)

FirstOf(hits) == CHOOSE i \in hits : \A j \in hits : i <= j

\* a slip: the loop for the default scope is missing in the setter
WithLevel_NoDefault(list, s, l) ==
  LET piece == [scope |-> s, level |-> l]
  IN  IF Prefixed(list, s) = {} THEN Append(list, piece)
      ELSE [list EXCEPT ![FirstOf(Prefixed(list, s))] = piece]

WithLevel(list, s, l) ==
  LET piece == [scope |-> s, level |-> l]
  IN  IF Hits(list, s) = {} THEN Append(list, piece)
      ELSE [list EXCEPT ![FirstOf(Hits(list, s))] = piece]

LevelIn(list, s) ==
  IF Hits(list, s) = {} THEN Undefined ELSE list[FirstOf(Hits(list, s))].level

Without(list, s) == [i \in DOMAIN list |-> IF list[i] = s THEN NoScope ELSE list[i]]
Free(list) == {i \in DOMAIN list : list[i] = NoScope}

WithCaller(list, s) ==
  IF Free(list) = {} THEN Append(list, s) ELSE [list EXCEPT ![FirstOf(Free(list))] = s]

ShowsCaller(list, s) == \E i \in DOMAIN list : list[i] = s

-----------------------------------------------------------------------------
(* Options and scopes                                                      *)

\* SetOutputLevel, SetStackTraceLevel
SetLevel(k, s, l) ==
  /\ pc = "idle"
  /\ levels' = [levels EXCEPT ![k] = WithLevel(levels[k], s, l)]
  /\ Unsettled
  /\ UNCHANGED <<logCallers, scopes, settings, pc, at, allScopes>>

\* SetLogCallers
SetLogCallers(s, include) ==
  /\ pc = "idle"
  /\ logCallers' = LET others == Without(logCallers, s)
                   IN  IF include THEN WithCaller(others, s) ELSE others
  /\ Unsettled
  /\ UNCHANGED <<levels, scopes, settings, pc, at, allScopes>>

\* A scope that is there already is left as it is.
RegisterScope(s) ==
  /\ s \notin scopes
  /\ scopes' = scopes \cup {s}
  /\ UNCHANGED <<options, settings, pc, at, allScopes, history>>

\* Scope.SetOutputLevel, Scope.SetStackTraceLevel
Adjust(k, s, l) ==
  /\ s \in scopes
  /\ level' = [level EXCEPT ![k][s] = l]
  /\ Unsettled
  /\ UNCHANGED <<options, scopes, callers, pc, at, allScopes>>

\* Scope.SetLogCallers
AdjustCallers(s, include) ==
  /\ s \in scopes
  /\ callers' = IF include THEN callers \cup {s} ELSE callers \ {s}
  /\ Unsettled
  /\ UNCHANGED <<options, scopes, level, pc, at, allScopes>>

-----------------------------------------------------------------------------
(* Configure                                                               *)

\* prepZap has returned no error; updateScopes begins
Configure ==
  /\ pc = "idle"
  /\ allScopes' = scopes
  /\ pc' = "output" /\ at' = 1
  /\ settled' = TRUE
  /\ kept' = callers
  /\ UNCHANGED <<options, scopes, settings>>

Return ==
  /\ pc' = "idle" /\ at' = 1
  /\ allScopes' = {}

\* a slip: an unknown scope is skipped
ApplyLevel_Skip(k) ==
  /\ pc = k
  /\ at <= Len(levels[k])
  /\ LET piece == levels[k][at]
     IN  IF piece.level # Undefined
         THEN /\ level' = IF piece.scope \in allScopes
                          THEN [level EXCEPT ![k][piece.scope] = piece.level]
                          ELSE level
              /\ at' = at + 1
              /\ UNCHANGED <<pc, allScopes, history>>
         ELSE Return /\ Unsettled /\ UNCHANGED level
  /\ UNCHANGED <<options, scopes, callers>>

\* The level of the piece goes to its scope.  Levels that were set before an
\* error stay set.
ApplyLevel(k) ==
  /\ pc = k
  /\ at <= Len(levels[k])
  /\ LET piece == levels[k][at]
     IN  IF piece.level # Undefined /\ piece.scope \in allScopes
         THEN /\ level' = [level EXCEPT ![k][piece.scope] = piece.level]
              /\ at' = at + 1
              /\ UNCHANGED <<pc, allScopes, history>>
         ELSE Return /\ Unsettled /\ UNCHANGED level
  /\ UNCHANGED <<options, scopes, callers>>

NextList(k) ==
  /\ pc = k
  /\ at > Len(levels[k])
  /\ pc' = IF k = "output" THEN "stack" ELSE "callers"
  /\ at' = 1
  /\ UNCHANGED <<options, scopes, settings, allScopes, history>>

\* a slip: nobody looks whether the scope is registered
ApplyCaller_Unchecked ==
  /\ pc = "callers"
  /\ at <= Len(logCallers)
  /\ callers' = callers \cup ({logCallers[at]} \ {NoScope})
  /\ at' = at + 1
  /\ UNCHANGED <<options, scopes, level, pc, allScopes, history>>

\* Nobody is taken off: SetLogCallers(true) is the only call.
ApplyCaller ==
  /\ pc = "callers"
  /\ at <= Len(logCallers)
  /\ LET s == logCallers[at]
     IN  IF s \in allScopes \cup {NoScope}
         THEN /\ callers' = callers \cup ({s} \ {NoScope})
              /\ at' = at + 1
              /\ UNCHANGED <<pc, allScopes, history>>
         ELSE Return /\ Unsettled /\ UNCHANGED callers
  /\ UNCHANGED <<options, scopes, level>>

Finish ==
  /\ pc = "callers"
  /\ at > Len(logCallers)
  /\ Return
  /\ UNCHANGED <<options, scopes, settings, history>>

Next ==
  \/ \E s \in Scopes :
       \/ \E k \in Kinds, l \in Levels : SetLevel(k, s, l) \/ Adjust(k, s, l)
       \/ \E include \in BOOLEAN : SetLogCallers(s, include) \/ AdjustCallers(s, include)
       \/ RegisterScope(s)
  \/ Configure
  \/ \E k \in Kinds : ApplyLevel(k) \/ NextList(k)
  \/ ApplyCaller
  \/ Finish

Spec == Init /\ [][Next]_vars

-----------------------------------------------------------------------------
\* what the getters return
Shown == [k \in Kinds |-> [s \in Scopes |-> LevelIn(levels[k], s)]]
Callers == {s \in Scopes : ShowsCaller(logCallers, s)}

(* The texts are maps: through the getters, each setter is seen to set     *)
(* what it says and nothing else (SetOutputLevel, GetOutputLevel,          *)
(* SetStackTraceLevel, GetStackTraceLevel, SetLogCallers, GetLogCallers),  *)
(* whatever the order of the pieces and for a zero Options as well.        *)
SettersObeyed ==
  [][/\ \A k \in Kinds, s \in Scopes, l \in Levels :
          SetLevel(k, s, l) => Shown' = [Shown EXCEPT ![k][s] = l]
     /\ \A s \in Scopes, include \in BOOLEAN :
          SetLogCallers(s, include) =>
            Callers' = IF include THEN Callers \cup {s} ELSE Callers \ {s}]_vars

(* After Configure has returned without an error, and until something else *)
(* is set, each scope has the level that the getters of Options return for *)
(* it, although they read the first piece of a scope and the last one      *)
(* applied is what the scope has in the end; and those that show their     *)
(* callers are the ones the getters name, with those that showed them      *)
(* before: "update the caller location setting of all scopes"              *)
(* (updateScopes, log/config.go, line 189) only ever turns it on, and what *)
(* SetLogCallers(s, false) takes out of the options stays in the scope.    *)
Configured ==
  settled /\ pc = "idle" =>
    /\ \A k \in Kinds, s \in Scopes :
         LevelIn(levels[k], s) # Undefined =>
           s \in scopes /\ level[k][s] = LevelIn(levels[k], s)
    /\ callers = kept \cup Callers

==============================================================================
