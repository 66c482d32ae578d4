--------------------------- MODULE LogOptionsProofs ---------------------------
(***************************************************************************)
(* Proofs about LogOptions, for any scopes and levels and lists of any     *)
(* length.                                                                 *)
(***************************************************************************)
EXTENDS LogOptions, WellFoundedInduction, TLAPS

\* No scope has two pieces, and only the default scope has one without a level.
ListOK(list) ==
  /\ list \in Seq(Piece)
  /\ \A i, j \in DOMAIN list : list[i].scope = list[j].scope => i = j
  /\ \A i \in DOMAIN list : list[i].level = Undefined => list[i] = EmptyPiece

\* The pieces Configure has dealt with.
Past(k, i) ==
  \/ pc = k /\ i < at
  \/ k = "output" /\ pc \in {"stack", "callers", "idle"}
  \/ k = "stack" /\ pc \in {"callers", "idle"}
PastCaller(i) == pc = "idle" \/ (pc = "callers" /\ i < at)
CallersPast ==
  {s \in Scopes : \E i \in DOMAIN logCallers : PastCaller(i) /\ logCallers[i] = s}

AppliedOK ==
  settled =>
    /\ \A k \in Kinds : \A i \in DOMAIN levels[k] : Past(k, i) =>
         /\ levels[k][i].scope \in scopes
         /\ level[k][levels[k][i].scope] = levels[k][i].level
    /\ callers = kept \cup CallersPast

IInv == TypeOK /\ (\A k \in Kinds : ListOK(levels[k])) /\ AppliedOK

\* With one piece at most for each scope, the choice of the first is the choice
\* of the only one.
LEMMA OneHit ==
  ASSUME NEW list, ListOK(list), NEW s \in Scopes
  PROVE  /\ Hits(list, s) = {i \in DOMAIN list : list[i].scope = s}
         /\ \A i \in Hits(list, s) : FirstOf(Hits(list, s)) = i
<1> DOMAIN list = 1 .. Len(list) /\ Len(list) \in Nat
  BY DEF ListOK
<1>1. Hits(list, s) = {i \in DOMAIN list : list[i].scope = s}
  BY DEF ListOK, Hits, Bare, Prefixed, EmptyPiece
<1>2. ASSUME NEW i \in Hits(list, s) PROVE FirstOf(Hits(list, s)) = i
  <2>1. Hits(list, s) = {i}
    BY <1>1, <1>2 DEF ListOK
  <2>2. i \in Nat
    BY <1>1
  <2> QED
    BY <2>1, <2>2 DEF FirstOf
<1> QED
  BY <1>1, <1>2

\* What a getter reads is the level of the one piece of the scope.
LEMMA LevelOf ==
  ASSUME NEW list, ListOK(list), NEW s \in Scopes
  PROVE  /\ \A i \in DOMAIN list : list[i].scope = s => LevelIn(list, s) = list[i].level
         /\ (\A i \in DOMAIN list : list[i].scope # s) => LevelIn(list, s) = Undefined
BY OneHit DEF LevelIn

\* A setter replaces the piece of its scope, or adds one.
LEMMA WithLevelOK ==
  ASSUME NEW list, ListOK(list), NEW s \in Scopes, NEW l \in Levels
  PROVE  /\ ListOK(WithLevel(list, s, l))
         /\ \A t \in Scopes :
              LevelIn(WithLevel(list, s, l), t) = IF t = s THEN l ELSE LevelIn(list, t)
<1> DEFINE piece == [scope |-> s, level |-> l]
           new == WithLevel(list, s, l)
<1>1. piece \in Piece /\ piece.scope = s /\ piece.level = l /\ l # Undefined
  BY LogOptionsAssumption DEF Piece
<1>2. list \in Seq(Piece) /\ DOMAIN list = 1 .. Len(list) /\ Len(list) \in Nat
  BY DEF ListOK
<1> HIDE DEF piece
<1>3. CASE Hits(list, s) = {}
  <2>1. new = Append(list, piece)
    BY <1>3 DEF WithLevel, piece
  <2>2. /\ new \in Seq(Piece)
        /\ DOMAIN new = 1 .. Len(list) + 1
        /\ \A i \in DOMAIN list : new[i] = list[i]
        /\ new[Len(list) + 1] = piece
    BY <2>1, <1>1, <1>2
  <2>3. \A i \in DOMAIN list : list[i].scope # s
    BY <1>3, OneHit
  <2> HIDE DEF new
  <2>4. ListOK(new)
    BY <1>1, <1>2, <2>2, <2>3 DEF ListOK
  <2>5. ASSUME NEW t \in Scopes PROVE LevelIn(new, t) = IF t = s THEN l ELSE LevelIn(list, t)
    <3>1. CASE t = s
      BY <3>1, <1>1, <1>2, <2>2, <2>4, LevelOf
    <3>2. CASE t # s /\ \E i \in DOMAIN list : list[i].scope = t
      BY <3>2, <1>2, <2>2, <2>4, LevelOf
    <3>3. CASE t # s /\ \A i \in DOMAIN list : list[i].scope # t
      <4>1. \A i \in DOMAIN new : new[i].scope # t
        BY <3>3, <1>1, <1>2, <2>2
      <4> QED
        BY <3>3, <4>1, <2>4, LevelOf
    <3> QED
      BY <3>1, <3>2, <3>3
  <2> QED
    BY <2>4, <2>5 DEF new
<1>4. CASE Hits(list, s) # {}
  <2>0. PICK h \in DOMAIN list : list[h].scope = s /\ FirstOf(Hits(list, s)) = h
    BY <1>4, OneHit
  <2>1. new = [list EXCEPT ![h] = piece]
    BY <1>4, <2>0 DEF WithLevel, piece
  <2>2. /\ new \in Seq(Piece)
        /\ DOMAIN new = DOMAIN list
        /\ \A i \in DOMAIN list : new[i] = IF i = h THEN piece ELSE list[i]
    BY <2>1, <1>1, <1>2
  <2> HIDE DEF new
  <2>4. ListOK(new)
    BY <1>1, <2>0, <2>2 DEF ListOK
  <2>5. ASSUME NEW t \in Scopes PROVE LevelIn(new, t) = IF t = s THEN l ELSE LevelIn(list, t)
    <3>1. CASE t = s
      BY <3>1, <1>1, <2>0, <2>2, <2>4, LevelOf
    <3>2. CASE t # s /\ \E i \in DOMAIN list : list[i].scope = t
      BY <3>2, <2>0, <2>2, <2>4, LevelOf
    <3>3. CASE t # s /\ \A i \in DOMAIN list : list[i].scope # t
      <4>1. \A i \in DOMAIN new : new[i].scope # t
        BY <3>3, <1>1, <2>2
      <4> QED
        BY <3>3, <4>1, <2>4, LevelOf
    <3> QED
      BY <3>1, <3>2, <3>3
  <2> QED
    BY <2>4, <2>5 DEF new
<1> QED
  BY <1>3, <1>4

LEMMA NoScopeOK == Slots = Scopes \cup {NoScope} /\ NoScope \notin Scopes
BY LogOptionsAssumption DEF Slots, NoScope

\* The first of a set of places is one of them.
LEMMA FirstOfOK ==
  ASSUME NEW hits \in SUBSET Nat, hits # {}
  PROVE  FirstOf(hits) \in hits
<1>1. PICK i \in hits : \A j \in hits : ~ (<<j, i>> \in OpToRel(<, Nat))
  BY NatLessThanWellFounded, WFMin
<1>2. ASSUME NEW j \in hits PROVE i <= j
  <2>1. ~ (<<j, i>> \in {ss \in Nat \X Nat : ss[1] < ss[2]})
    BY <1>1 DEF OpToRel
  <2>2. <<j, i>> \in Nat \X Nat /\ <<j, i>>[1] = j /\ <<j, i>>[2] = i
    OBVIOUS
  <2>3. ~ (j < i)
    BY <2>1, <2>2, Zenon
  <2> QED
    BY <2>3
<1> QED
  BY <1>2 DEF FirstOf

\* The pieces of logCallers are a set of scopes.
LEMMA CallersOK ==
  ASSUME NEW list \in Seq(Slots), NEW s \in Scopes
  PROVE  /\ Without(list, s) \in Seq(Slots)
         /\ WithCaller(list, s) \in Seq(Slots)
         /\ \A t \in Scopes :
              ShowsCaller(Without(list, s), t) <=> t # s /\ ShowsCaller(list, t)
         /\ \A t \in Scopes :
              ShowsCaller(WithCaller(list, s), t) <=> t = s \/ ShowsCaller(list, t)
<1>1. DOMAIN list = 1 .. Len(list) /\ Len(list) \in Nat
  OBVIOUS
<1>2. Without(list, s) \in Seq(Slots)
  BY <1>1, NoScopeOK DEF Without
<1>3. \A t \in Scopes :
        ShowsCaller(Without(list, s), t) <=> t # s /\ ShowsCaller(list, t)
  BY NoScopeOK DEF Without, ShowsCaller
<1>4. CASE Free(list) = {}
  <2> DEFINE new == Append(list, s)
  <2>1. /\ new \in Seq(Slots)
        /\ DOMAIN new = 1 .. Len(list) + 1
        /\ \A i \in DOMAIN list : new[i] = list[i]
        /\ new[Len(list) + 1] = s
    BY <1>1, NoScopeOK
  <2>2. WithCaller(list, s) = new
    BY <1>4 DEF WithCaller
  <2> HIDE DEF new
  <2>3. \A t \in Scopes : ShowsCaller(new, t) <=> t = s \/ ShowsCaller(list, t)
    BY <1>1, <2>1 DEF ShowsCaller
  <2> QED
    BY <1>2, <1>3, <2>1, <2>2, <2>3
<1>5. CASE Free(list) # {}
  <2> DEFINE h == FirstOf(Free(list))
             new == [list EXCEPT ![h] = s]
  <2>0. Free(list) \in SUBSET Nat
    BY <1>1 DEF Free
  <2>a. h \in Free(list)
    BY <2>0, <1>5, FirstOfOK
  <2>1. h \in DOMAIN list /\ list[h] = NoScope
    BY <2>a, Zenon DEF Free
  <2>2. WithCaller(list, s) = new
    BY <1>5 DEF WithCaller
  <2> HIDE DEF h
  <2>3. /\ new \in Seq(Slots)
        /\ DOMAIN new = DOMAIN list
        /\ \A i \in DOMAIN list : new[i] = IF i = h THEN s ELSE list[i]
    BY <2>1, NoScopeOK
  <2> HIDE DEF new
  <2>4. \A t \in Scopes : ShowsCaller(new, t) <=> t = s \/ ShowsCaller(list, t)
    BY <2>1, <2>3, NoScopeOK DEF ShowsCaller
  <2> QED
    BY <1>2, <1>3, <2>2, <2>3, <2>4
<1> QED
  BY <1>4, <1>5

\* The two halves of TypeOK: the lists, and all the rest.
ListsType ==
  /\ levels \in [Kinds -> Seq(Piece)]
  /\ logCallers \in Seq(Slots)

RestType ==
  /\ scopes \subseteq Scopes
  /\ level \in [Kinds -> [Scopes -> Levels]]
  /\ callers \subseteq scopes
  /\ pc \in Kinds \cup {"callers", "idle"}
  /\ at \in Nat \ {0}
  /\ allScopes \subseteq scopes
  /\ kept \subseteq scopes
  /\ settled \in BOOLEAN

LEMMA Halves == (TypeOK <=> ListsType /\ RestType) /\ (TypeOK' <=> ListsType' /\ RestType')
BY DEF TypeOK, ListsType, RestType

LEMMA InitOK == Init => IInv
<1> SUFFICES ASSUME Init PROVE IInv
  OBVIOUS
<1>1. ASSUME NEW k \in Kinds
      PROVE  ListOK(DefaultLevels[k]) /\ ListOK(ZeroLevels[k])
  <2>1. [scope |-> Default, level |-> Initially[k]] \in Piece /\ EmptyPiece \in Piece
    BY LogOptionsAssumption DEF Piece, EmptyPiece, Initially, Kinds
  <2>2. Initially[k] # Undefined
    BY LogOptionsAssumption DEF Initially
  <2> QED
    BY <2>1, <2>2 DEF ListOK, DefaultLevels, ZeroLevels, EmptyPiece
<1>2. \A k \in Kinds : ListOK(levels[k])
  BY <1>1 DEF Init
<1>3. levels \in [Kinds -> Seq(Piece)]
  BY <1>1 DEF Init, ListOK, DefaultLevels, ZeroLevels
<1>4. level \in [Kinds -> [Scopes -> Levels]]
  BY LogOptionsAssumption DEF Init, Initially
<1>5. TypeOK
  <2>1. RestType
    <3>1. scopes \subseteq Scopes /\ callers \subseteq scopes /\ allScopes \subseteq scopes
          /\ kept \subseteq scopes
      BY LogOptionsAssumption DEF Init
    <3>2. at \in Nat \ {0} /\ pc \in Kinds \cup {"callers", "idle"}
      BY DEF Init
    <3>3. settled \in BOOLEAN
      BY Zenon DEF Init
    <3> QED
      BY <1>4, <3>1, <3>2, <3>3, Zenon DEF RestType
  <2>2. logCallers \in Seq(Slots)
    BY NoScopeOK DEF Init
  <2> QED
    BY <1>3, <2>1, <2>2, Halves DEF ListsType
<1> QED
  BY <1>2, <1>5 DEF IInv, AppliedOK, Init

\* The setters, one for both kinds of levels and one for the callers.
LEMMA SetStep ==
  ASSUME IInv,
         \/ \E k \in Kinds, s \in Scopes, l \in Levels : SetLevel(k, s, l)
         \/ \E s \in Scopes, include \in BOOLEAN : SetLogCallers(s, include)
  PROVE  IInv'
<1>1. ASSUME NEW k \in Kinds, NEW s \in Scopes, NEW l \in Levels, SetLevel(k, s, l)
      PROVE  IInv'
  <2>1. ListOK(WithLevel(levels[k], s, l))
    BY WithLevelOK DEF IInv
  <2>2. \A m \in Kinds : ListOK(levels'[m])
    BY <1>1, <2>1 DEF SetLevel, IInv, TypeOK
  <2>3. levels' \in [Kinds -> Seq(Piece)]
    BY <1>1, <2>1 DEF SetLevel, IInv, TypeOK, ListOK
  <2>4. settled' = FALSE /\ kept' = {}
        /\ UNCHANGED <<logCallers, scopes, settings, pc, at, allScopes>>
    BY <1>1 DEF SetLevel, Unsettled
  <2> QED
    BY <2>2, <2>3, <2>4 DEF IInv, TypeOK, AppliedOK, settings
<1>2. ASSUME NEW s \in Scopes, NEW include \in BOOLEAN, SetLogCallers(s, include)
      PROVE  IInv'
  <2>1. logCallers' \in Seq(Slots)
    BY <1>2, CallersOK DEF SetLogCallers, IInv, TypeOK
  <2>2. settled' = FALSE /\ kept' = {}
        /\ UNCHANGED <<levels, scopes, settings, pc, at, allScopes>>
    BY <1>2 DEF SetLogCallers, Unsettled
  <2> QED
    BY <2>1, <2>2 DEF IInv, TypeOK, AppliedOK, settings
<1> QED
  BY <1>1, <1>2

\* Other users of the scopes.
LEMMA ScopeStep ==
  ASSUME IInv,
         \E s \in Scopes :
           \/ RegisterScope(s)
           \/ \E k \in Kinds, l \in Levels : Adjust(k, s, l)
           \/ \E include \in BOOLEAN : AdjustCallers(s, include)
  PROVE  IInv'
<1>1. ASSUME NEW s \in Scopes, RegisterScope(s) PROVE IInv'
  <2>1. TypeOK'
    BY <1>1 DEF RegisterScope, IInv, TypeOK, options, settings, history
  <2>2. AppliedOK'
    BY <1>1 DEF RegisterScope, IInv, AppliedOK, CallersPast, Past, PastCaller, options, settings,
       history
  <2> QED
    BY <1>1, <2>1, <2>2 DEF RegisterScope, IInv, options
<1>2. ASSUME NEW s \in Scopes, NEW k \in Kinds, NEW l \in Levels, Adjust(k, s, l) PROVE IInv'
  BY <1>2 DEF Adjust, Unsettled, IInv, TypeOK, AppliedOK, options
<1>3. ASSUME NEW s \in Scopes, NEW include \in BOOLEAN, AdjustCallers(s, include) PROVE IInv'
  BY <1>3 DEF AdjustCallers, Unsettled, IInv, TypeOK, AppliedOK, options
<1> QED
  BY <1>1, <1>2, <1>3

\* One piece more is dealt with, and those before it belong to other scopes.
LEMMA ApplyLevelStep ==
  ASSUME IInv, NEW k \in Kinds, ApplyLevel(k)
  PROVE  IInv'
<1> DEFINE piece == levels[k][at]
<1>0. /\ at \in DOMAIN levels[k] /\ at \in Nat /\ piece \in Piece
      /\ UNCHANGED <<options, scopes, callers>>
  BY DEF ApplyLevel, IInv, TypeOK
<1>1. CASE piece.level # Undefined /\ piece.scope \in allScopes
  <2>1. /\ level' = [level EXCEPT ![k][piece.scope] = piece.level]
        /\ at' = at + 1
        /\ UNCHANGED <<pc, allScopes, settled, kept>>
    BY <1>1 DEF ApplyLevel, history
  <2>2. piece.scope \in scopes /\ piece.scope \in Scopes /\ piece.level \in Levels
    BY <1>0, <1>1 DEF IInv, TypeOK, Piece
  <2>3. TypeOK'
    BY <1>0, <2>1, <2>2 DEF IInv, TypeOK, options
  <2>4. ASSUME settled, NEW m \in Kinds, NEW i \in DOMAIN levels[m], Past(m, i)'
        PROVE  /\ levels[m][i].scope \in scopes
               /\ level'[m][levels[m][i].scope] = levels[m][i].level
    <3>1. CASE m = k /\ i = at
      BY <2>1, <2>2, <3>1 DEF IInv, TypeOK
    <3>2. CASE m = k /\ i # at
      <4>1. Past(m, i)
        BY <1>0, <2>1, <2>4, <3>2 DEF Past, ApplyLevel, IInv, ListOK
      <4>2. levels[m][i].scope # piece.scope
        BY <1>0, <3>2 DEF IInv, ListOK
      <4> QED
        BY <2>1, <2>4, <3>2, <4>1, <4>2 DEF IInv, TypeOK, AppliedOK
    <3>3. CASE m # k
      <4>1. Past(m, i)
        BY <2>1, <2>4, <3>3 DEF Past, ApplyLevel
      <4> QED
        BY <2>1, <2>4, <3>3, <4>1 DEF IInv, TypeOK, AppliedOK
    <3> QED
      BY <3>1, <3>2, <3>3
  <2>5. ASSUME NEW i \in DOMAIN logCallers PROVE ~PastCaller(i)'
    BY <2>1 DEF PastCaller, ApplyLevel, Kinds
  <2>6. AppliedOK'
    <3>1. CallersPast' = {} /\ CallersPast = {}
      BY <1>0, <2>1, <2>5 DEF CallersPast, PastCaller, ApplyLevel, options, Kinds
    <3> QED
      BY <1>0, <2>1, <2>4, <3>1 DEF IInv, AppliedOK, options
  <2> QED
    BY <1>0, <2>3, <2>6 DEF IInv, options
<1>2. CASE ~(piece.level # Undefined /\ piece.scope \in allScopes)
  <2>1. /\ UNCHANGED level
        /\ pc' = "idle" /\ at' = 1 /\ allScopes' = {} /\ settled' = FALSE /\ kept' = {}
    BY <1>2 DEF ApplyLevel, Return, Unsettled
  <2>2. RestType'
    <3>1. /\ (scopes \subseteq Scopes)' /\ (callers \subseteq scopes)'
          /\ (kept \subseteq scopes)' /\ (level \in [Kinds -> [Scopes -> Levels]])'
      BY <1>0, <2>1 DEF IInv, TypeOK
    <3>2. (pc \in Kinds \cup {"callers", "idle"})' /\ (at \in Nat \ {0})'
      BY <2>1
    <3>3. (allScopes \subseteq scopes)'
      BY <2>1
    <3>4. (settled \in BOOLEAN)'
      BY <2>1, Zenon
    <3> QED
      BY <3>1, <3>2, <3>3, <3>4, Zenon DEF RestType
  <2>3. ListsType'
    BY <1>0 DEF IInv, TypeOK, ListsType, options
  <2>4. AppliedOK'
    BY <2>1 DEF AppliedOK
  <2> QED
    BY <1>0, <2>2, <2>3, <2>4, Halves DEF IInv, options
<1> QED
  BY <1>1, <1>2

LEMMA ApplyCallerStep ==
  ASSUME IInv, ApplyCaller
  PROVE  IInv'
<1> DEFINE s == logCallers[at]
<1>0. /\ at \in DOMAIN logCallers /\ at \in Nat /\ s \in Scopes \cup {NoScope}
      /\ pc = "callers"
      /\ UNCHANGED <<options, scopes, level>>
  BY NoScopeOK DEF ApplyCaller, IInv, TypeOK
<1>1. CASE s \in allScopes \cup {NoScope}
  <2>1. /\ callers' = callers \cup ({s} \ {NoScope})
        /\ at' = at + 1
        /\ UNCHANGED <<pc, allScopes, settled, kept>>
    BY <1>1 DEF ApplyCaller, history
  <2>2. TypeOK'
    BY <1>0, <1>1, <2>1 DEF IInv, TypeOK, options
  <2>3. \A k \in Kinds : \A i \in DOMAIN levels[k] : Past(k, i)' => Past(k, i)
    BY <1>0, <2>1 DEF Past, Kinds
  <2>4. \A i \in DOMAIN logCallers : PastCaller(i)' => PastCaller(i) \/ i = at
    BY <1>0, <2>1 DEF PastCaller, IInv, TypeOK
  <2>6. \A i \in DOMAIN logCallers : PastCaller(i) \/ i = at => PastCaller(i)'
    BY <1>0, <2>1 DEF PastCaller, IInv, TypeOK
  <2>7. CallersPast' = CallersPast \cup ({s} \ {NoScope})
    BY <1>0, <2>4, <2>6, NoScopeOK DEF CallersPast, options
  <2>5. AppliedOK'
    BY <1>0, <2>1, <2>3, <2>7 DEF IInv, AppliedOK, options
  <2> QED
    BY <1>0, <2>2, <2>5 DEF IInv, options
<1>2. CASE s \notin allScopes \cup {NoScope}
  <2>1. /\ UNCHANGED callers
        /\ pc' = "idle" /\ at' = 1 /\ allScopes' = {} /\ settled' = FALSE /\ kept' = {}
    BY <1>2 DEF ApplyCaller, Return, Unsettled
  <2>2. RestType'
    <3>1. /\ (scopes \subseteq Scopes)' /\ (callers \subseteq scopes)'
          /\ (kept \subseteq scopes)' /\ (level \in [Kinds -> [Scopes -> Levels]])'
      BY <1>0, <2>1 DEF IInv, TypeOK
    <3>2. (pc \in Kinds \cup {"callers", "idle"})' /\ (at \in Nat \ {0})'
      BY <2>1
    <3>3. (allScopes \subseteq scopes)'
      BY <2>1
    <3>4. (settled \in BOOLEAN)'
      BY <2>1, Zenon
    <3> QED
      BY <3>1, <3>2, <3>3, <3>4, Zenon DEF RestType
  <2>3. ListsType'
    BY <1>0 DEF IInv, TypeOK, ListsType, options
  <2>4. AppliedOK'
    BY <2>1 DEF AppliedOK
  <2> QED
    BY <1>0, <2>2, <2>3, <2>4, Halves DEF IInv, options
<1> QED
  BY <1>1, <1>2

\* The steps of Configure from one list to the next.
LEMMA ConfigureStep ==
  ASSUME IInv, Configure \/ Finish \/ \E k \in Kinds : NextList(k)
  PROVE  IInv'
<1>1. CASE Configure
  <2>1. TypeOK'
    BY <1>1 DEF Configure, IInv, TypeOK, options, settings, Kinds
  <2>2. /\ \A k \in Kinds : \A i \in DOMAIN levels[k] : ~Past(k, i)'
        /\ CallersPast' = {} /\ kept' = callers /\ UNCHANGED callers
    BY <1>1 DEF Configure, Past, PastCaller, CallersPast, IInv, TypeOK, Kinds, options, settings
  <2> QED
    BY <1>1, <2>1, <2>2 DEF Configure, IInv, AppliedOK, options
<1>2. CASE Finish
  <2>1. TypeOK'
    BY <1>2 DEF Finish, Return, IInv, TypeOK, options, settings, history
  <2>2. /\ \A k \in Kinds : \A i \in DOMAIN levels[k] : Past(k, i)
        /\ CallersPast' = CallersPast
    BY <1>2 DEF Finish, Return, Past, PastCaller, CallersPast, IInv, TypeOK, Kinds, options
  <2> QED
    BY <1>2, <2>1, <2>2 DEF Finish, Return, IInv, AppliedOK, options, settings, history
<1>3. ASSUME NEW k \in Kinds, NextList(k) PROVE IInv'
  <2>1. TypeOK'
    BY <1>3 DEF NextList, IInv, TypeOK, options, settings, history, Kinds
  <2>2. \A m \in Kinds : \A i \in DOMAIN levels[m] : Past(m, i)' => Past(m, i)
    BY <1>3 DEF NextList, Past, IInv, TypeOK, Kinds
  <2>3. CallersPast' = {} /\ CallersPast = {}
    BY <1>3 DEF NextList, CallersPast, PastCaller, IInv, TypeOK, Kinds, options
  <2> QED
    BY <1>3, <2>1, <2>2, <2>3 DEF NextList, IInv, AppliedOK, options, settings, history
<1> QED
  BY <1>1, <1>2, <1>3

\* Each scope has one piece at most, and Configure has applied those it has
\* dealt with, in every reachable state.
THEOREM Invariance == Spec => []IInv
<1>1. IInv /\ [Next]_vars => IInv'
  <2> SUFFICES ASSUME IInv, [Next]_vars PROVE IInv'
    OBVIOUS
  <2>1. CASE UNCHANGED vars
    BY <2>1 DEF vars, options, settings, history, IInv, TypeOK, AppliedOK, CallersPast, Past,
       PastCaller
  <2>2. CASE Next
    BY <2>2, SetStep, ScopeStep, ApplyLevelStep, ApplyCallerStep, ConfigureStep DEF Next
  <2> QED
    BY <2>1, <2>2
<1> QED
  BY <1>1, InitOK, PTL DEF Spec

\* Whatever was set and registered before, for lists of any length: Configure
\* leaves the scopes with the levels that the getters of Options return, and it
\* turns callers on where these say so and nowhere else, and off nowhere.
THEOREM ConfiguredAlways == Spec => []Configured
<1>1. IInv => Configured
  <2> SUFFICES ASSUME IInv, settled, pc = "idle" PROVE Configured
    BY DEF Configured
  <2>1. ASSUME NEW k \in Kinds, NEW s \in Scopes, LevelIn(levels[k], s) # Undefined
        PROVE  s \in scopes /\ level[k][s] = LevelIn(levels[k], s)
    <3>1. PICK i \in DOMAIN levels[k] : levels[k][i].scope = s
      BY <2>1, LevelOf DEF IInv
    <3>2. Past(k, i)
      BY DEF Past, Kinds
    <3>3. LevelIn(levels[k], s) = levels[k][i].level
      BY <3>1, LevelOf DEF IInv
    <3> QED
      BY <3>1, <3>2, <3>3 DEF IInv, AppliedOK
  <2>2. callers = kept \cup Callers
    <3>1. Callers = CallersPast
      BY DEF Callers, CallersPast, ShowsCaller, PastCaller
    <3> QED
      BY <3>1, Zenon DEF IInv, AppliedOK
  <2> QED
    BY <2>1, <2>2 DEF Configured
<1> QED
  BY <1>1, Invariance, PTL

\* The texts of Options are maps from scopes to levels, and a set of scopes:
\* each setter changes what it names and nothing else.
THEOREM TextsAreMaps == Spec => SettersObeyed
<1>1. ASSUME IInv, NEW k \in Kinds, NEW s \in Scopes, NEW l \in Levels, SetLevel(k, s, l)
      PROVE  Shown' = [Shown EXCEPT ![k][s] = l]
  <2>1. \A t \in Scopes :
          LevelIn(levels'[k], t) = IF t = s THEN l ELSE LevelIn(levels[k], t)
    BY <1>1, WithLevelOK DEF SetLevel, IInv, TypeOK
  <2>2. \A m \in Kinds \ {k} : levels'[m] = levels[m]
    BY <1>1 DEF SetLevel, IInv, TypeOK
  <2> QED
    BY <2>1, <2>2 DEF Shown
<1>2. ASSUME IInv, NEW s \in Scopes, NEW include \in BOOLEAN, SetLogCallers(s, include)
      PROVE  Callers' = IF include THEN Callers \cup {s} ELSE Callers \ {s}
  <2> DEFINE others == Without(logCallers, s)
  <2>1. /\ others \in Seq(Slots)
        /\ \A t \in Scopes : ShowsCaller(others, t) <=> t # s /\ ShowsCaller(logCallers, t)
    BY <1>2, CallersOK DEF IInv, TypeOK
  <2>2. logCallers' = IF include THEN WithCaller(others, s) ELSE others
    BY <1>2 DEF SetLogCallers
  <2> HIDE DEF others
  <2>3. CASE include
    BY <2>1, <2>2, <2>3, CallersOK DEF Callers
  <2>4. CASE ~include
    BY <2>1, <2>2, <2>4 DEF Callers
  <2> QED
    BY <2>3, <2>4
<1>3. IInv /\ [Next]_vars =>
        [/\ \A k \in Kinds, s \in Scopes, l \in Levels :
              SetLevel(k, s, l) => Shown' = [Shown EXCEPT ![k][s] = l]
         /\ \A s \in Scopes, include \in BOOLEAN :
              SetLogCallers(s, include) =>
                Callers' = IF include THEN Callers \cup {s} ELSE Callers \ {s}]_vars
  BY <1>1, <1>2
<1> QED
  BY <1>3, Invariance, PTL DEF Spec, SettersObeyed

\* The texts of Options stay made of scopes that are named once and of levels,
\* and a scope never has a level that is none.
THEOREM TypeCorrect == Spec => []TypeOK
<1>1. IInv => TypeOK
  BY DEF IInv
<1> QED
  BY <1>1, Invariance, PTL

==============================================================================
