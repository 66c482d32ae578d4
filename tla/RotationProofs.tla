---------------------------- MODULE RotationProofs ----------------------------
(***************************************************************************)
(* Proofs about Rotation, for any sizes, times and numbers of lines.       *)
(***************************************************************************)
EXTENDS Rotation, TLAPS

\* What the writer knows at each point of Write.
WriterOK ==
  /\ pc \in {"open", "append", "rename", "create"} => ~file
  /\ pc = "write" => file
  /\ pc # "idle" => line \in Lines /\ length \in Lengths /\ length <= MaxSize

\* What Logger.size says of a file c that another process may have written to.
Counted(c) == Alien(c) \/ Len(c) <= size

\* A write fits; a file that was created here holds nothing of this process
\* behind the place of the next write; nothing is truncated but what is foreign.
SizeOK ==
  /\ file => log # Absent /\ Counted(log)
  /\ file /\ ~append => \A i \in DOMAIN log : i > size => log[i] = Foreign
  /\ pc = "append" => log = Absent \/ Counted(log)
  /\ pc \in {"append", "write"} => size + length <= MaxSize
  /\ pc = "create" => LinesOf(log) = {}

\* The mill will look for a rotated file: what is needed for it has happened,
\* or the next step towards an open log file makes it happen.
MillOK ==
  due =>
    \/ token = 1 \/ mill = "list"
    \/ ~file /\ pc \in {"idle", "open"}
    \/ ~file /\ pc \in {"rename", "create"} /\ rotating

\* The other process has a file only where there is one.
OtherOK == other \in {"append", "own"} => log # Absent

\* The line that no file holds a unit of yet, with all that come after it.
NextLine == IF pc = "idle" THEN line + 1 ELSE line

OrderOK == LinesInOrder /\ \A c \in Files : \A l \in LinesOf(c) : l < NextLine

IInv ==
  TypeOK /\ WriterOK /\ OtherOK /\ SizeOK /\ SizeLimit /\ LinesKept /\ OrderOK /\ MillOK

\* No content is taken for the absence of the file.
LEMMA SeqNat == \A c \in Seq(Units) : c # Absent
<1>1. Seq(Units) \subseteq Seq(Nat)
  BY RotationAssumption DEF Units
<1> QED
  BY <1>1, RotationAssumption

LEMMA Emptied == /\ << >> \in Seq(Units) /\ << >> # Absent
                 /\ Len(<< >>) = 0 /\ DOMAIN << >> = {} /\ LinesOf(<< >>) = {}
<1>1. << >> \in Seq(Units) /\ Len(<< >>) = 0 /\ DOMAIN << >> = {}
  OBVIOUS
<1>2. << >> # Absent
  BY <1>1, SeqNat
<1> QED
  BY <1>1, <1>2 DEF LinesOf

LEMMA Elements ==
  ASSUME NEW S, NEW s \in Seq(S)
  PROVE  \A i \in DOMAIN s : s[i] \in S
BY DEF Seq

LEMMA LinesType ==
  ASSUME NEW c \in Seq(Units) \cup {Absent}
  PROVE  LinesOf(c) \subseteq Lines
<1>1. CASE c = Absent
  BY <1>1 DEF LinesOf
<1>2. CASE c # Absent
  <2>0. c \in Seq(Units)
    BY <1>2
  <2>1. \A i \in DOMAIN c : c[i] \in Units
    BY <2>0, Elements
  <2> QED
    BY <1>2, <2>1 DEF LinesOf, Units, Lines, Foreign
<1> QED
  BY <1>1, <1>2

\* The content w is c with n units u put behind the first p.
IsWritten(w, c, p, n, u) ==
  /\ w \in Seq(Units)
  /\ w # Absent
  /\ DOMAIN w = 1 .. Len(w)
  /\ Len(w) = IF p + n > Len(c) THEN p + n ELSE Len(c)
  /\ \A i \in 1 .. Len(w) :
       w[i] = IF Within(i, p, n) THEN u ELSE IF i <= Len(c) THEN c[i] ELSE Foreign

\* That is what File.Write does.
LEMMA Written ==
  ASSUME NEW c \in Seq(Units), NEW p \in Nat, NEW n \in Nat \ {0}, NEW u \in Units
  PROVE  IsWritten(WriteAt(c, p, n, u), c, p, n, u)
<1> DEFINE m == IF p + n > Len(c) THEN p + n ELSE Len(c)
<1> DEFINE v(i) == IF Within(i, p, n) THEN u ELSE IF i <= Len(c) THEN c[i] ELSE Foreign
<1>1. m \in Nat /\ Foreign \in Units
  BY RotationAssumption DEF Foreign, Units
<1>2. \A i \in 1 .. m : v(i) \in Units
  BY <1>1, Elements
<1> HIDE DEF m, v
<1> DEFINE r == [i \in 1 .. m |-> v(i)]
<1>3. r \in Seq(Units) /\ Len(r) = m /\ DOMAIN r = 1 .. m /\ \A i \in 1 .. m : r[i] = v(i)
  BY <1>1, <1>2
<1>4. WriteAt(c, p, n, u) = r
  BY DEF WriteAt, m, v
<1> QED
  BY <1>3, <1>4, SeqNat DEF m, v, IsWritten

\* The two halves of TypeOK: the files and their lines, and all the rest.
FilesType ==
  /\ log \in Seq(Units) \cup {Absent}
  /\ backups \in [Names -> Seq(Units) \cup {Absent}]
  /\ written \subseteq Lines \X Lengths
  /\ dropped \subseteq Lines
  /\ wiped \subseteq Lines

ControlType ==
  /\ now \in Times
  /\ other \in {"off", "create", "append", "own"}
  /\ theirs \in 0 .. MaxOther
  /\ pc \in {"idle", "open", "append", "rename", "create", "write"}
  /\ line \in 0 .. MaxLines
  /\ length \in Lengths \cup {0}
  /\ file \in BOOLEAN
  /\ append \in BOOLEAN
  /\ size \in Nat
  /\ rotating \in BOOLEAN
  /\ token \in 0 .. 1
  /\ mill \in {"off", "wait", "list", "remove"}
  /\ stale \subseteq Names
  /\ due \in BOOLEAN

\* Where the other process writes.
Place == IF other = "append" THEN Len(log) ELSE theirs

LEMMA PlaceType == TypeOK /\ OtherOK /\ other \in {"append", "own"} => Place \in Nat
BY RotationAssumption DEF TypeOK, OtherOK, Place

\* What its steps do to the log file.
LEMMA OtherCases ==
  ASSUME TypeOK, OtherOK, Other
  PROVE  /\ UNCHANGED <<pc, logger, milling, now, written, due>>
         /\ other' \in {"off", "create", "append", "own"} /\ theirs' \in 0 .. MaxOther
         /\ \/ /\ UNCHANGED <<log, backups, dropped, wiped>>
               /\ other' \in {"append", "own"} => log # Absent
            \/ /\ \E n \in 1 .. MaxOther :
                    /\ log' = WriteAt(log, Place, n, Foreign)
                    /\ wiped' = wiped \cup
                         ({log[i] : i \in {j \in DOMAIN log : Within(j, Place, n)}} \ {Foreign})
               /\ UNCHANGED <<backups, dropped>> /\ Place \in Nat /\ log # Absent
            \/ /\ log # Absent /\ log' = Absent /\ ~file
               /\ backups' = [backups EXCEPT ![backupName(now)] = log]
               /\ dropped' = dropped \cup LinesOf(backups[backupName(now)])
               /\ UNCHANGED wiped
               /\ other' \notin {"append", "own"}
            \/ /\ log' = << >>
               /\ wiped' = wiped \cup LinesOf(log)
               /\ UNCHANGED <<backups, dropped>>
<1> USE DEF folder
<1>1. ASSUME NEW n \in 1 .. MaxOther, OtherWrites(n)
      PROVE  /\ UNCHANGED <<pc, logger, milling, now, written, due, other, backups, dropped>>
             /\ theirs' \in 0 .. MaxOther
             /\ log' = WriteAt(log, Place, n, Foreign)
             /\ wiped' = wiped \cup
                  ({log[i] : i \in {j \in DOMAIN log : Within(j, Place, n)}} \ {Foreign})
             /\ Place \in Nat /\ log # Absent
  <2>1. other \in {"append", "own"}
    BY <1>1 DEF OtherWrites
  <2>2. Place \in Nat /\ log # Absent
    BY <2>1, PlaceType DEF OtherOK
  <2>3. theirs' \in 0 .. MaxOther
    BY <1>1, RotationAssumption DEF OtherWrites, TypeOK
  <2> QED
    BY Zenon, <1>1, <2>2, <2>3 DEF OtherWrites, Place
<1>2. CASE OtherOpens
  BY <1>2, RotationAssumption DEF OtherOpens, history
<1>3. CASE OtherMoves
  BY <1>3 DEF OtherMoves, TypeOK
<1>4. CASE OtherCreates
  BY <1>4, RotationAssumption DEF OtherCreates
<1>5. CASE OtherEnds
  BY <1>5, RotationAssumption DEF OtherEnds, history
<1>6. CASE \E n \in 1 .. MaxOther : OtherWrites(n)
  <2>1. other' \in {"off", "create", "append", "own"}
    BY <1>1, <1>6 DEF TypeOK
  <2> QED
    BY <1>1, <1>6, <2>1
<1> QED
  BY Zenon, <1>2, <1>3, <1>4, <1>5, <1>6 DEF Other

LEMMA FilesStep ==
  ASSUME TypeOK, WriterOK, SizeOK, OtherOK, [Next]_vars
  PROVE  FilesType'
<1> USE DEF TypeOK, WriterOK, FilesType, folder, logger, milling, history, Return, Closed
<1>1. ASSUME NEW k \in Lengths, Write(k) PROVE FilesType'
  BY <1>1 DEF Write
<1>2. CASE Open \/ OpenAppend
  BY <1>2 DEF Open, StatFile, OpenAppend, WakeMill
<1>3. CASE Rename
  <2>1. backupName(now) \in Names
    BY DEF backupName, Names
  <2>2. LinesOf(backups[backupName(now)]) \subseteq Lines
    BY <2>1, LinesType
  <2> QED
    BY <1>3, <2>1, <2>2 DEF Rename
<1>4. CASE Create
  BY <1>4 DEF Create, WakeMill
<1>5. CASE Fail
  BY <1>5 DEF Fail
<1>6. ASSUME NEW n \in 0 .. length, Put(n) PROVE FilesType'
  <2>1. n \in Nat /\ log \in Seq(Units) /\ line \in Lines /\ line \in Units
    BY <1>6, RotationAssumption DEF Put, SizeOK, Units, Lines
  <2>2. log' \in Seq(Units)
    <3>1. CASE n = 0
      BY <1>6, <2>1, <3>1 DEF Put
    <3>2. CASE n # 0
      <4>1. (IF append THEN Len(log) ELSE size) \in Nat
        BY <2>1
      <4>2. log' = WriteAt(log, IF append THEN Len(log) ELSE size, n, line)
        BY <1>6, <3>2 DEF Put
      <4> QED
        BY <2>1, <3>2, <4>1, <4>2, Written DEF IsWritten
    <3> QED
      BY <3>1, <3>2
  <2> QED
    <3>1. length \in Lengths
      BY <1>6 DEF Put
    <3>2. written' \subseteq Lines \X Lengths
      BY <1>6, <2>1, <3>1 DEF Put
    <3> QED
      BY <1>6, <2>1, <2>2, <3>2 DEF Put
<1>7. CASE MillReceive
  BY <1>7 DEF MillReceive
<1>8. CASE MillList \/ MillFails
  BY <1>8 DEF MillList, MillFails, Stale, oldLogFiles
<1>9. CASE MillRemove
  <2>1. PICK gone \in SUBSET stale :
          /\ backups' = [n \in Names |-> IF n \in gone THEN Absent ELSE backups[n]]
          /\ dropped' = dropped \cup UNION {LinesOf(backups[n]) : n \in gone}
    BY <1>9 DEF MillRemove
  <2>2. \A n \in gone : LinesOf(backups[n]) \subseteq Lines
    BY LinesType
  <2>3. dropped' \subseteq Lines
    BY <2>1, <2>2
  <2>4. backups' \in [Names -> Seq(Units) \cup {Absent}]
    BY <2>1
  <2> QED
    BY <1>9, <2>3, <2>4 DEF MillRemove
<1>10. CASE \E t \in Times : Clock(t)
  BY <1>10 DEF Clock
<1>11. CASE Restart
  BY <1>11 DEF Restart
<1>12. CASE UNCHANGED vars
  BY <1>12 DEF vars
<1>13. CASE Other
  <2>1. backupName(now) \in Names
    BY DEF backupName, Names
  <2>2. LinesOf(backups[backupName(now)]) \subseteq Lines /\ LinesOf(log) \subseteq Lines
    BY <2>1, LinesType
  <2>3. Foreign \in Units
    BY RotationAssumption DEF Foreign, Units
  <2>4. ASSUME NEW n \in 1 .. MaxOther, NEW p \in Nat, log # Absent
        PROVE  /\ WriteAt(log, p, n, Foreign) \in Seq(Units)
               /\ {log[i] : i \in {j \in DOMAIN log : Within(j, p, n)}} \ {Foreign} \subseteq Lines
    <3>1. log \in Seq(Units) /\ n \in Nat \ {0}
      BY <2>4, RotationAssumption
    <3>2. WriteAt(log, p, n, Foreign) \in Seq(Units)
      BY <2>3, <3>1, Written DEF IsWritten
    <3>3. {log[i] : i \in {j \in DOMAIN log : Within(j, p, n)}} \ {Foreign} \subseteq LinesOf(log)
      BY <2>4 DEF LinesOf
    <3> QED
      BY <2>2, <3>2, <3>3
  <2>5. UNCHANGED written
    BY <1>13, OtherCases
  <2>6. CASE UNCHANGED <<log, backups, dropped, wiped>>
    BY <2>5, <2>6
  <2>7. CASE /\ \E n \in 1 .. MaxOther :
                    /\ log' = WriteAt(log, Place, n, Foreign)
                    /\ wiped' = wiped \cup
                         ({log[i] : i \in {j \in DOMAIN log : Within(j, Place, n)}} \ {Foreign})
             /\ UNCHANGED <<backups, dropped>> /\ Place \in Nat /\ log # Absent
    BY <2>4, <2>5, <2>7
  <2>8. CASE /\ log # Absent /\ log' = Absent
             /\ backups' = [backups EXCEPT ![backupName(now)] = log]
             /\ dropped' = dropped \cup LinesOf(backups[backupName(now)])
             /\ UNCHANGED wiped
    BY <2>1, <2>2, <2>5, <2>8
  <2>9. CASE /\ log' = << >>
             /\ wiped' = wiped \cup LinesOf(log)
             /\ UNCHANGED <<backups, dropped>>
    BY <2>2, <2>5, <2>9
  <2> QED
    BY Zenon, <1>13, <2>6, <2>7, <2>8, <2>9, OtherCases
<1> QED
  BY <1>1, <1>2, <1>3, <1>4, <1>5, <1>6, <1>7, <1>8, <1>9, <1>10, <1>11, <1>12, <1>13
  DEF Next

LEMMA ControlStep ==
  ASSUME TypeOK, WriterOK, SizeOK, OtherOK, [Next]_vars
  PROVE  ControlType' /\ OtherOK'
<1> ControlType /\ WriterOK /\ OtherOK /\ (log # Absent => Len(log) \in Nat)
  BY DEF TypeOK, ControlType, SizeOK
<1> USE RotationAssumption DEF ControlType, WriterOK, OtherOK, folder, others, logger, milling,
  history, Return, Closed
<1>1. ASSUME NEW k \in Lengths, Write(k) PROVE ControlType' /\ OtherOK'
  <2>1. line' \in 0 .. MaxLines /\ length' \in Lengths
    BY <1>1 DEF Write
  <2>2. pc' \in {"open", "write", "rename"} /\ file' \in BOOLEAN /\ rotating' \in BOOLEAN
    BY <1>1 DEF Write
  <2>3. UNCHANGED <<folder, now, others, milling, history>>
    BY <1>1 DEF Write
  <2>4. append' \in {append, FALSE} /\ size' \in {size, 0}
    BY <1>1 DEF Write
  <2>5. append' \in BOOLEAN
    BY Zenon, <2>4
  <2>6. size' \in Nat
    BY <2>4
  <2> QED
    BY <2>1, <2>2, <2>3, <2>5, <2>6
<1>2. CASE Open \/ OpenAppend
  <2>1. CASE Open
    <3>1. token' = 1 /\ mill' \in {mill, "wait"} /\ UNCHANGED stale
      BY <2>1 DEF Open, WakeMill
    <3>2. pc' \in {"append", "rename", "idle"} /\ size' \in Nat
      BY <2>1 DEF Open, StatFile, Fits
    <3>3. rotating' \in BOOLEAN
      <4>1. rotating' = rotating \/ rotating' = (log # Absent) \/ rotating' = FALSE
        BY <2>1 DEF Open, StatFile
      <4>2. (log # Absent) \in BOOLEAN
        OBVIOUS
      <4> QED
        BY <4>1, <4>2, Zenon
    <3>4. UNCHANGED <<folder, now, others, line, file, append, history>> /\ length' \in {length, 0}
      BY <2>1 DEF Open
    <3> QED
      BY <3>1, <3>2, <3>3, <3>4
  <2>2. CASE OpenAppend
    <3>1. UNCHANGED <<folder, now, others, line, length, milling, history>>
          /\ pc' \in {"write", "rename"}
      BY <2>2 DEF OpenAppend
    <3>2. size' \in {size, 0} /\ rotating' \in {rotating, FALSE}
      BY <2>2 DEF OpenAppend
    <3>3. rotating' \in BOOLEAN
      BY Zenon, <3>2
    <3>4. file' \in BOOLEAN /\ append' \in BOOLEAN
      BY <2>2 DEF OpenAppend
    <3> QED
      BY <3>1, <3>2, <3>3, <3>4
  <2> QED
    BY <1>2, <2>1, <2>2
<1>3. CASE Rename
  <2>1. pc' = "create" /\ due' \in BOOLEAN /\ OtherOK'
    BY <1>3 DEF Rename
  <2>2. UNCHANGED <<now, others, logger, milling>>
    BY <1>3 DEF Rename
  <2> QED
    BY <2>1, <2>2
<1>4. CASE Create
  <2>1. OtherOK'
    BY <1>4, Emptied DEF Create
  <2>2. UNCHANGED <<now, others, line, length, history>> /\ rotating' = FALSE
    BY <1>4 DEF Create
  <2>3. pc' = "write" /\ file' = TRUE /\ append' = FALSE /\ size' = 0
    BY <1>4 DEF Create
  <2>4. token' \in {1, token} /\ mill' \in {mill, "wait"} /\ UNCHANGED stale
    BY <1>4 DEF Create, WakeMill
  <2>5. file' \in BOOLEAN /\ append' \in BOOLEAN
    BY <2>3
  <2>6. rotating' \in BOOLEAN /\ due' \in BOOLEAN
    BY <2>2
  <2>7. token' \in 0 .. 1 /\ mill' \in {"off", "wait", "list", "remove"} /\ stale' \subseteq Names
    BY <2>4
  <2> QED
    BY <2>1, <2>2, <2>3, <2>5, <2>6, <2>7
<1>5. CASE Fail
  BY <1>5 DEF Fail
<1>6. ASSUME NEW n \in 0 .. length, Put(n) PROVE ControlType' /\ OtherOK'
  <2>1. log # Absent /\ n \in Nat /\ line \in Units /\ log \in Seq(Units)
    BY <1>6 DEF Put, SizeOK, TypeOK, Units, Lines
  <2>2. log' # Absent
    <3>1. CASE n = 0
      BY <1>6, <2>1, <3>1 DEF Put
    <3>2. CASE n # 0
      <4>1. (IF append THEN Len(log) ELSE size) \in Nat
        BY <2>1
      <4>2. log' = WriteAt(log, IF append THEN Len(log) ELSE size, n, line)
        BY <1>6, <3>2 DEF Put
      <4>3. n \in Nat \ {0}
        BY <2>1, <3>2
      <4>4. PICK p \in Nat : log' = WriteAt(log, p, n, line)
        BY <4>1, <4>2
      <4> QED
        BY <2>1, <4>3, <4>4, Written DEF IsWritten
    <3> QED
      BY <3>1, <3>2
  <2>3. UNCHANGED <<backups, now, others, line, file, append, milling, due>>
        /\ pc' = "idle" /\ length' = 0 /\ rotating' = FALSE
    BY <1>6 DEF Put
  <2>4. size' \in Nat
    BY <1>6, <2>1 DEF Put
  <2>5. rotating' \in BOOLEAN
    BY <2>3
  <2> QED
    BY <2>2, <2>3, <2>4, <2>5
<1>7. CASE MillReceive
  <2>1. token' = 0 /\ mill' \in {mill, "list"} /\ due' \in BOOLEAN
    BY <1>7 DEF MillReceive
  <2>2. UNCHANGED <<folder, now, others, pc, logger, stale>>
    BY <1>7 DEF MillReceive
  <2> QED
    BY <2>1, <2>2
<1>8. CASE MillList \/ MillFails
  BY <1>8 DEF MillList, MillFails, Stale, oldLogFiles
<1>9. CASE MillRemove
  BY <1>9 DEF MillRemove
<1>10. CASE \E t \in Times : Clock(t)
  BY <1>10 DEF Clock
<1>11. CASE Restart
  <2>1. UNCHANGED <<folder, now, others, line>>
    BY <1>11 DEF Restart
  <2>2. /\ pc' = "idle" /\ mill' = "off" /\ length' = 0 /\ size' = 0 /\ token' = 0
        /\ stale' = {}
    BY <1>11 DEF Restart
  <2>3. /\ file' \in BOOLEAN /\ append' \in BOOLEAN
        /\ rotating' \in BOOLEAN /\ due' \in BOOLEAN
    BY <1>11 DEF Restart
  <2> QED
    BY <2>1, <2>2, <2>3
<1>12. CASE UNCHANGED vars
  BY <1>12 DEF vars
<1>13. CASE Other
  <2>1. UNCHANGED <<pc, logger, milling, now, written, due>>
        /\ other' \in {"off", "create", "append", "own"} /\ theirs' \in 0 .. MaxOther
    BY <1>13, OtherCases
  <2>2. ASSUME NEW n \in 1 .. MaxOther, NEW q \in Nat, log # Absent
        PROVE  WriteAt(log, q, n, Foreign) # Absent
    BY <2>2, Written DEF IsWritten, TypeOK, Foreign, Units
  <2>3. << >> # Absent
    BY Emptied
  <2>4. OtherOK'
    BY <1>13, <2>2, <2>3, OtherCases
  <2> QED
    BY <2>1, <2>4
<1> QED
  BY <1>1, <1>2, <1>3, <1>4, <1>5, <1>6, <1>7, <1>8, <1>9, <1>10, <1>11, <1>12, <1>13
  DEF Next

LEMMA TypeStep ==
  ASSUME TypeOK, WriterOK, SizeOK, OtherOK, [Next]_vars
  PROVE  TypeOK' /\ OtherOK'
BY FilesStep, ControlStep DEF TypeOK, FilesType, ControlType

LEMMA WriterStep ==
  ASSUME TypeOK, WriterOK, OtherOK, [Next]_vars
  PROVE  WriterOK'
<1> USE RotationAssumption DEF TypeOK, WriterOK, folder, logger, milling, history, Return,
  Closed
<1>1. ASSUME NEW k \in Lengths, Write(k) PROVE WriterOK'
  BY <1>1 DEF Write, Lines
<1>2. CASE Open \/ OpenAppend
  BY <1>2 DEF Open, StatFile, OpenAppend, WakeMill
<1>3. CASE Rename
  BY <1>3 DEF Rename
<1>4. CASE Create
  BY <1>4 DEF Create, WakeMill
<1>5. CASE Fail
  BY <1>5 DEF Fail
<1>6. ASSUME NEW n \in 0 .. length, Put(n) PROVE WriterOK'
  BY <1>6 DEF Put
<1>7. CASE MillReceive
  BY <1>7 DEF MillReceive
<1>8. CASE MillList \/ MillFails
  BY <1>8 DEF MillList, MillFails, Stale, oldLogFiles
<1>9. CASE MillRemove
  BY <1>9 DEF MillRemove
<1>10. CASE \E t \in Times : Clock(t)
  BY <1>10 DEF Clock
<1>11. CASE Restart
  BY <1>11 DEF Restart
<1>12. CASE UNCHANGED vars
  BY <1>12 DEF vars
<1>13. CASE Other
  <2>1. UNCHANGED <<pc, logger>>
    BY <1>13, OtherCases
  <2> QED
    BY <2>1
<1> QED
  BY <1>1, <1>2, <1>3, <1>4, <1>5, <1>6, <1>7, <1>8, <1>9, <1>10, <1>11, <1>12, <1>13
  DEF Next

LEMMA MillStep ==
  ASSUME TypeOK, WriterOK, OtherOK, MillOK, [Next]_vars
  PROVE  MillOK'
<1> USE DEF TypeOK, WriterOK, MillOK, folder, logger, milling, history, Return, Closed
<1>1. ASSUME NEW k \in Lengths, Write(k) PROVE MillOK'
  BY <1>1 DEF Write
<1>2. CASE Open \/ OpenAppend
  BY <1>2 DEF Open, StatFile, OpenAppend, WakeMill
<1>3. CASE Rename
  BY <1>3 DEF Rename
<1>4. CASE Create
  BY <1>4 DEF Create, WakeMill
<1>5. CASE Fail
  BY <1>5 DEF Fail
<1>6. ASSUME NEW n \in 0 .. length, Put(n) PROVE MillOK'
  BY <1>6 DEF Put
<1>7. CASE MillReceive
  BY <1>7 DEF MillReceive
<1>8. CASE MillList \/ MillFails
  BY <1>8 DEF MillList, MillFails, Stale, oldLogFiles
<1>9. CASE MillRemove
  BY <1>9 DEF MillRemove
<1>10. CASE \E t \in Times : Clock(t)
  BY <1>10 DEF Clock
<1>11. CASE Restart
  BY <1>11 DEF Restart
<1>12. CASE UNCHANGED vars
  BY <1>12 DEF vars
<1>13. CASE Other
  <2>1. UNCHANGED <<pc, logger, milling, due>>
    BY <1>13, OtherCases
  <2> QED
    BY <2>1
<1> QED
  BY <1>1, <1>2, <1>3, <1>4, <1>5, <1>6, <1>7, <1>8, <1>9, <1>10, <1>11, <1>12, <1>13
  DEF Next

\* What another process writes is foreign; nothing else changes.
LEMMA WrittenByOther ==
  ASSUME NEW c \in Seq(Units), NEW p \in Nat, NEW n \in Nat \ {0}
  PROVE  /\ Alien(WriteAt(c, p, n, Foreign))
         /\ \A i \in DOMAIN WriteAt(c, p, n, Foreign) :
              \/ WriteAt(c, p, n, Foreign)[i] = Foreign
              \/ i \in DOMAIN c /\ WriteAt(c, p, n, Foreign)[i] = c[i]
<1> DEFINE w == WriteAt(c, p, n, Foreign)
<1>1. Foreign \in Units
  BY RotationAssumption DEF Foreign, Units
<1>2. IsWritten(w, c, p, n, Foreign)
  BY <1>1, Written
<1> HIDE DEF w
<1> USE DEF IsWritten
<1>3. DOMAIN c = 1 .. Len(c) /\ Len(c) \in Nat
  OBVIOUS
<1>4. p + 1 \in 1 .. Len(w) /\ Within(p + 1, p, n)
  BY <1>2, <1>3 DEF Within
<1>5. Alien(w)
  BY <1>2, <1>4 DEF Alien
<1>6. \A i \in DOMAIN w : w[i] = Foreign \/ (i \in DOMAIN c /\ w[i] = c[i])
  BY <1>2, <1>3
<1> QED
  BY <1>5, <1>6 DEF w

\* Appending a line is counted.
LEMMA Appended ==
  ASSUME NEW c \in Seq(Units), NEW s \in Nat, NEW n \in Nat \ {0}, NEW u \in Units,
         Alien(c) \/ Len(c) <= s
  PROVE  Alien(WriteAt(c, Len(c), n, u)) \/ Len(WriteAt(c, Len(c), n, u)) <= s + n
<1> DEFINE w == WriteAt(c, Len(c), n, u)
<1>0. DOMAIN c = 1 .. Len(c) /\ Len(c) \in Nat
  OBVIOUS
<1>1. IsWritten(w, c, Len(c), n, u)
  BY <1>0, Written
<1> HIDE DEF w
<1> USE DEF IsWritten
<1>2. CASE Alien(c)
  <2>1. PICK i \in DOMAIN c : c[i] = Foreign
    BY <1>2 DEF Alien
  <2>2. i \in DOMAIN w /\ w[i] = Foreign
    BY <1>0, <1>1, <2>1 DEF Within
  <2> QED
    BY <2>2 DEF Alien, w
<1>3. CASE Len(c) <= s
  <2>1. Len(w) = Len(c) + n
    BY <1>0, <1>1
  <2> QED
    BY <1>0, <1>3, <2>1 DEF w
<1> QED
  BY <1>2, <1>3

\* So is a line written at the place that was counted to, and behind it
\* there is still nothing of this process.
LEMMA WrittenInPlace ==
  ASSUME NEW c \in Seq(Units), NEW s \in Nat, NEW n \in Nat \ {0}, NEW u \in Units,
         Alien(c) \/ Len(c) <= s,
         \A i \in DOMAIN c : i > s => c[i] = Foreign
  PROVE  /\ Alien(WriteAt(c, s, n, u)) \/ Len(WriteAt(c, s, n, u)) <= s + n
         /\ \A i \in DOMAIN WriteAt(c, s, n, u) :
              i > s + n => WriteAt(c, s, n, u)[i] = Foreign
<1> DEFINE w == WriteAt(c, s, n, u)
<1>0. DOMAIN c = 1 .. Len(c) /\ Len(c) \in Nat
  OBVIOUS
<1>1. IsWritten(w, c, s, n, u)
  BY Written
<1> HIDE DEF w
<1> USE DEF IsWritten
<1>2. \A i \in DOMAIN w : i > s + n => w[i] = Foreign
  <2> SUFFICES ASSUME NEW i \in DOMAIN w, i > s + n PROVE w[i] = Foreign
    OBVIOUS
  <2>1. i \in Nat /\ ~Within(i, s, n) /\ i > s
    BY <1>1, <1>0 DEF Within
  <2>2. i <= Len(c) => i \in DOMAIN c
    BY <1>0, <1>1
  <2> QED
    BY <1>1, <2>1, <2>2
<1>3. CASE Len(c) <= s + n
  <2>1. Len(w) = s + n
    BY <1>0, <1>1, <1>3
  <2> QED
    BY <1>2, <2>1 DEF w
<1>4. CASE Len(c) > s + n
  <2>2. Len(w) = IF s + n > Len(c) THEN s + n ELSE Len(c)
    BY <1>1
  <2>3. ~(s + n > Len(c))
    BY <1>0, <1>4
  <2>0. Len(w) = Len(c)
    BY <2>2, <2>3
  <2>1. Len(w) \in DOMAIN w /\ Len(w) > s + n
    BY <1>0, <1>1, <1>4, <2>0
  <2>4. w[Len(w)] = Foreign
    BY <1>2, <2>1
  <2>5. Alien(w)
    BY <2>1, <2>4 DEF Alien
  <2> QED
    BY <1>2, <2>5 DEF w
<1> QED
  BY <1>0, <1>3, <1>4

\* What Put writes, and where.
LEMMA PutCases ==
  ASSUME TypeOK, WriterOK, SizeOK, NEW n \in 0 .. length, Put(n)
  PROVE  /\ n \in Nat /\ log \in Seq(Units) /\ log # Absent /\ file
         /\ line \in Units /\ line # Foreign
         /\ size' = size + n /\ size' <= MaxSize
         /\ UNCHANGED <<backups, file, append, dropped, wiped>>
         /\ pc' = "idle"
         /\ n = 0 => log' = log
         /\ n # 0 /\ append => log' = WriteAt(log, Len(log), n, line)
         /\ n # 0 /\ ~append => log' = WriteAt(log, size, n, line)
<1>1. n \in Nat /\ length \in Nat /\ n <= length /\ size \in Nat /\ MaxSize \in Nat
  BY RotationAssumption DEF TypeOK, MaxSize
<1>2. pc = "write" /\ file
  BY DEF Put, WriterOK
<1>3. log # Absent /\ log \in Seq(Units)
  BY <1>2 DEF SizeOK, TypeOK
<1>4. line \in Units /\ line # Foreign
  BY <1>2, RotationAssumption DEF WriterOK, Lines, Units, Foreign
<1>5. size + length <= MaxSize
  BY <1>2 DEF SizeOK
<1>6. size' = size + n
  BY DEF Put
<1>7. size' <= MaxSize
  BY <1>1, <1>5, <1>6
<1>8. UNCHANGED <<backups, file, append, dropped, wiped>> /\ pc' = "idle"
  BY DEF Put, Return
<1>9. /\ n = 0 => log' = log
      /\ n # 0 /\ append => log' = WriteAt(log, Len(log), n, line)
      /\ n # 0 /\ ~append => log' = WriteAt(log, size, n, line)
  BY <1>1 DEF Put
<1> QED
  BY <1>1, <1>2, <1>3, <1>4, <1>6, <1>7, <1>8, <1>9

\* Behind that place there is nothing of this process.
LEMMA PutPlace ==
  ASSUME TypeOK, WriterOK, SizeOK, NEW n \in 0 .. length, Put(n), n # 0
  PROVE  \E p \in Nat : /\ log' = WriteAt(log, p, n, line)
                        /\ \A j \in DOMAIN log : j > p => log[j] = Foreign
<1>1. log \in Seq(Units) /\ file
  BY PutCases
<1>2. CASE append
  <2>1. log' = WriteAt(log, Len(log), n, line)
    BY <1>2, PutCases
  <2>2. Len(log) \in Nat /\ \A j \in DOMAIN log : ~(j > Len(log))
    BY <1>1
  <2> QED
    BY <2>1, <2>2
<1>3. CASE ~append
  BY <1>1, <1>3, PutCases DEF SizeOK, TypeOK
<1> QED
  BY <1>2, <1>3

LEMMA SizeStep ==
  ASSUME TypeOK, WriterOK, OtherOK, SizeOK, SizeLimit, [Next]_vars
  PROVE  SizeOK' /\ SizeLimit'
<1> USE RotationAssumption DEF TypeOK, WriterOK, SizeOK, SizeLimit, MaxSize, Counted,
  folder, logger, milling, history, Return, Closed
<1>0. log # Absent => Len(log) \in Nat
  OBVIOUS
<1>1. ASSUME NEW k \in Lengths, Write(k) PROVE SizeOK' /\ SizeLimit'
  BY <1>1 DEF Write, Full
<1>2. CASE Open
  BY <1>0, <1>2 DEF Open, StatFile, Fits, WakeMill
<1>3. CASE OpenAppend
  BY <1>3 DEF OpenAppend
<1>4. CASE Rename
  <2>1. pc' = "create" /\ log' = Absent /\ UNCHANGED <<size, append, file, length>> /\ ~file
    BY <1>4 DEF Rename
  <2>2. LinesOf(log') = {}
    BY <2>1 DEF LinesOf
  <2>3. SizeLimit'
    <3>1. CASE log = Absent
      BY <1>4, <2>1, <3>1 DEF Rename, Alien
    <3>2. CASE log # Absent
      <4>1. backups' = [backups EXCEPT ![backupName(now)] = log]
        BY <1>4, <3>2 DEF Rename
      <4>2. \A m \in Names : backups'[m] = backups[m] \/ backups'[m] = log
        BY <4>1
      <4> QED
        BY <2>1, <3>2, <4>2 DEF Alien
    <3> QED
      BY <3>1, <3>2
  <2> QED
    BY <2>1, <2>2, <2>3
<1>5. CASE Create
  BY <1>5, Emptied DEF Create, Alien
<1>6. CASE Fail
  BY <1>6 DEF Fail
<1>7. ASSUME NEW n \in 0 .. length, Put(n) PROVE SizeOK' /\ SizeLimit'
  <2>1. /\ n \in Nat /\ log \in Seq(Units) /\ log # Absent /\ file
        /\ line \in Units
        /\ size' = size + n /\ size' <= MaxSize
        /\ UNCHANGED <<backups, file, append>>
        /\ pc' = "idle"
    BY <1>7, PutCases
  <2>2. CASE n = 0
    <3>1. log' = log /\ size' = size
      BY <1>7, <2>1, <2>2, PutCases
    <3> QED
      BY <2>1, <3>1 DEF Alien
  <2>3. CASE n # 0 /\ append
    <3>1. log' = WriteAt(log, Len(log), n, line) /\ n \in Nat \ {0} /\ Len(log) \in Nat
      BY <1>7, <2>1, <2>3, PutCases
    <3>2. IsWritten(log', log, Len(log), n, line)
      BY <2>1, <3>1, Written
    <3>3. Alien(log) \/ Len(log) <= size
      BY <2>1
    <3>4. Alien(log') \/ Len(log') <= size'
      BY <2>1, <3>1, <3>3, Appended
    <3> QED
      BY <2>1, <2>3, <3>2, <3>4 DEF Alien, IsWritten
  <2>4. CASE n # 0 /\ ~append
    <3>1. log' = WriteAt(log, size, n, line) /\ n \in Nat \ {0}
      BY <1>7, <2>1, <2>4, PutCases
    <3>2. IsWritten(log', log, size, n, line)
      BY <2>1, <3>1, Written
    <3>3. (Alien(log) \/ Len(log) <= size) /\ \A i \in DOMAIN log : i > size => log[i] = Foreign
      BY <2>1, <2>4
    <3>4. /\ Alien(log') \/ Len(log') <= size'
          /\ \A i \in DOMAIN log' : i > size' => log'[i] = Foreign
      BY <2>1, <3>1, <3>3, WrittenInPlace
    <3> QED
      BY <2>1, <2>4, <3>2, <3>4 DEF Alien, IsWritten
  <2> QED
    BY <2>2, <2>3, <2>4
<1>8. CASE MillReceive \/ MillList \/ MillFails
  BY <1>8 DEF MillReceive, MillList, MillFails, Stale, oldLogFiles
<1>9. CASE MillRemove
  BY <1>9 DEF MillRemove
<1>10. CASE \E t \in Times : Clock(t)
  BY <1>10 DEF Clock
<1>11. CASE Restart
  BY <1>11 DEF Restart
<1>12. CASE UNCHANGED vars
  BY <1>12 DEF vars
<1>13. CASE Other
  <2>1. UNCHANGED <<pc, logger>>
    BY <1>13, OtherCases
  <2>2. CASE UNCHANGED <<log, backups>>
    BY <2>1, <2>2 DEF Alien
  <2>3. ASSUME NEW n \in 1 .. MaxOther, log' = WriteAt(log, Place, n, Foreign),
               UNCHANGED backups, Place \in Nat, log # Absent
        PROVE  SizeOK' /\ SizeLimit'
    <3>1. log \in Seq(Units) /\ n \in Nat \ {0} /\ Foreign \in Units
      BY <2>3 DEF Foreign, Units
    <3>2. log' \in Seq(Units) /\ log' # Absent
      BY <2>3, <3>1, Written DEF IsWritten
    <3>3. /\ Alien(log')
          /\ \A i \in DOMAIN log' : log'[i] = Foreign \/ (i \in DOMAIN log /\ log'[i] = log[i])
      BY <2>3, <3>1, WrittenByOther
    <3>4. LinesOf(log') \subseteq LinesOf(log)
      BY <2>3, <3>2, <3>3 DEF LinesOf
    <3>5. SizeLimit'
      BY <2>3, <3>3 DEF Alien
    <3>6. SizeOK'
      BY <2>1, <2>3, <3>2, <3>3, <3>4
    <3> QED
      BY <3>5, <3>6
  <2>4. CASE log # Absent /\ log' = Absent /\ ~file
             /\ backups' = [backups EXCEPT ![backupName(now)] = log]
    <3>1. \A m \in Names : backups'[m] = backups[m] \/ backups'[m] = log
      BY <2>4
    <3>2. LinesOf(log') = {}
      BY <2>4 DEF LinesOf
    <3>3. SizeLimit'
      BY <2>4, <3>1 DEF Alien
    <3>4. SizeOK'
      BY <2>1, <2>4, <3>2
    <3> QED
      BY <3>3, <3>4
  <2>5. CASE log' = << >> /\ UNCHANGED backups
    <3>1. SizeLimit'
      BY <2>5, Emptied DEF Alien
    <3>2. SizeOK'
      BY <2>1, <2>5, Emptied
    <3> QED
      BY <3>1, <3>2
  <2> QED
    BY Zenon, <1>13, <2>2, <2>3, <2>4, <2>5, OtherCases
<1> QED
  BY <1>1, <1>2, <1>3, <1>4, <1>5, <1>6, <1>7, <1>8, <1>9, <1>10, <1>11, <1>12, <1>13
  DEF Next

\* The files are sequences of units, and a line that is there is one of theirs.
LEMMA FilesAreSeq == TypeOK => \A c \in Files : c \in Seq(Units) /\ c # Absent
BY DEF TypeOK, Files, Held

LEMMA WholeLine ==
  ASSUME NEW c \in Seq(Units), NEW l \in Lines, NEW k \in Nat \ {0}, Whole(c, l, k)
  PROVE  l \in LinesOf(c)
<1>1. PICK p \in 0 .. Len(c) : p + k <= Len(c) /\ \A i \in p + 1 .. p + k : c[i] = l
  BY DEF Whole
<1>2. p + 1 \in DOMAIN c /\ c[p + 1] = l
  BY <1>1
<1>3. l # Foreign
  BY RotationAssumption DEF Lines, Foreign
<1> QED
  BY <1>2, <1>3, SeqNat DEF LinesOf

\* A new line is whole, and so are the old ones outside its place.
LEMMA WrittenWhole ==
  ASSUME NEW c \in Seq(Units), NEW p \in Nat, NEW n \in Nat \ {0}, NEW u \in Units
  PROVE  /\ Whole(WriteAt(c, p, n, u), u, n)
         /\ \A l \in Lines, k \in Nat \ {0} :
              Whole(c, l, k) =>
                \/ Whole(WriteAt(c, p, n, u), l, k)
                \/ l \in {c[i] : i \in {j \in DOMAIN c : Within(j, p, n)}} \ {Foreign}
<1> DEFINE w == WriteAt(c, p, n, u)
<1>0. DOMAIN c = 1 .. Len(c) /\ Len(c) \in Nat
  OBVIOUS
<1>1. IsWritten(w, c, p, n, u)
  BY Written
<1> HIDE DEF w
<1> USE DEF IsWritten
<1>2. Len(w) \in Nat /\ Len(c) <= Len(w) /\ p + n <= Len(w)
  BY <1>0, <1>1
<1>3. Whole(w, u, n)
  <2>1. \A i \in p + 1 .. p + n : w[i] = u
    BY <1>1, <1>2 DEF Within
  <2>2. p \in 0 .. Len(w)
    BY <1>2
  <2> QED
    BY <1>2, <2>1, <2>2 DEF Whole
<1>4. ASSUME NEW l \in Lines, NEW k \in Nat \ {0}, Whole(c, l, k)
      PROVE  \/ Whole(w, l, k)
             \/ l \in {c[i] : i \in {j \in DOMAIN c : Within(j, p, n)}} \ {Foreign}
  <2>0. l # Foreign
    BY RotationAssumption DEF Lines, Foreign
  <2>1. PICK q \in 0 .. Len(c) : q + k <= Len(c) /\ \A i \in q + 1 .. q + k : c[i] = l
    BY <1>4 DEF Whole
  <2>2. \A i \in q + 1 .. q + k : i \in DOMAIN c /\ i \in 1 .. Len(w)
    BY <1>0, <1>2, <2>1
  <2>3. CASE \E i \in q + 1 .. q + k : Within(i, p, n)
    <3>1. PICK i \in q + 1 .. q + k : Within(i, p, n)
      BY <2>3
    <3>2. i \in DOMAIN c /\ c[i] = l
      BY <2>1, <2>2
    <3> QED
      BY <2>0, <3>1, <3>2
  <2>4. CASE \A i \in q + 1 .. q + k : ~Within(i, p, n)
    <3>1. \A i \in q + 1 .. q + k : w[i] = l
      <4> SUFFICES ASSUME NEW i \in q + 1 .. q + k PROVE w[i] = l
        OBVIOUS
      <4>1. i \in 1 .. Len(w) /\ ~Within(i, p, n) /\ i <= Len(c) /\ c[i] = l
        BY <1>0, <2>1, <2>2, <2>4
      <4> QED
        BY <1>1, <4>1
    <3>2. q \in 0 .. Len(w) /\ q + k <= Len(w)
      BY <1>0, <1>2, <2>1
    <3> QED
      BY <3>1, <3>2 DEF Whole
  <2> QED
    BY <2>3, <2>4
<1> QED
  BY <1>3, <1>4 DEF w

\* What was written keeps its place in the order.
LEMMA WrittenSorted ==
  ASSUME NEW c \in Seq(Units), NEW p \in Nat, NEW n \in Nat \ {0}, NEW u \in Units,
         Sorted(c),
         u # Foreign => (\A i \in DOMAIN c : c[i] < u \/ c[i] = Foreign),
         u # Foreign => (\A i \in DOMAIN c : i > p => c[i] = Foreign)
  PROVE  /\ Sorted(WriteAt(c, p, n, u))
         /\ LinesOf(WriteAt(c, p, n, u)) \subseteq LinesOf(c) \cup ({u} \ {Foreign})
<1> DEFINE w == WriteAt(c, p, n, u)
<1>0. DOMAIN c = 1 .. Len(c) /\ Len(c) \in Nat
  OBVIOUS
<1>1. IsWritten(w, c, p, n, u)
  BY Written
<1> HIDE DEF w
<1> USE DEF IsWritten
<1>2. \A i \in DOMAIN c : c[i] \in Nat
  BY Elements, RotationAssumption DEF Units
<1>3. u \in Nat /\ Foreign = 0
  BY RotationAssumption DEF Units, Foreign
<1>4. \A i \in DOMAIN w :
        \/ Within(i, p, n) /\ w[i] = u
        \/ ~Within(i, p, n) /\ i \in DOMAIN c /\ w[i] = c[i]
        \/ ~Within(i, p, n) /\ w[i] = Foreign
  BY <1>0, <1>1
<1>5. Sorted(w)
  <2> SUFFICES ASSUME NEW i \in DOMAIN w, NEW j \in DOMAIN w, i < j, w[j] # Foreign
               PROVE  w[i] <= w[j]
    BY DEF Sorted
  <2>0. i \in Nat /\ j \in Nat
    BY <1>1
  <2>1. CASE Within(j, p, n) /\ w[j] = u
    <3>1. u # Foreign
      BY <2>1
    <3>2. w[i] = u \/ w[i] = Foreign \/ (i \in DOMAIN c /\ w[i] = c[i])
      BY <1>4
    <3> QED
      BY <1>2, <1>3, <2>1, <3>1, <3>2
  <2>2. CASE ~Within(j, p, n) /\ j \in DOMAIN c /\ w[j] = c[j]
    <3>1. i \in DOMAIN c
      BY <1>0, <2>0, <2>2, <1>1
    <3>2. c[i] <= c[j]
      BY <2>2, <3>1 DEF Sorted
    <3>3. CASE Within(i, p, n)
      <4>1. j > p
        BY <2>0, <3>3 DEF Within
      <4>2. u = Foreign
        BY <2>2, <4>1
      <4> QED
        BY <1>2, <1>3, <1>4, <2>2, <3>3, <4>2
    <3>4. CASE ~Within(i, p, n)
      BY <1>2, <1>3, <1>4, <2>2, <3>1, <3>2, <3>4
    <3> QED
      BY <3>3, <3>4
  <2> QED
    BY <1>4, <2>1, <2>2
<1>6. LinesOf(w) \subseteq LinesOf(c) \cup ({u} \ {Foreign})
  <2>1. c # Absent /\ w # Absent
    BY <1>1, SeqNat
  <2> QED
    BY <1>4, <2>1 DEF LinesOf
<1> QED
  BY <1>5, <1>6 DEF w

\* What becomes of the files when the log file is moved to a backup ...
LEMMA Moved ==
  ASSUME TypeOK, NEW b \in Names, log # Absent, log' = Absent,
         backups' = [backups EXCEPT ![b] = log]
  PROVE  /\ Held' = Held \cup {b}
         /\ backups'[b] = log /\ \A n \in Names \ {b} : backups'[n] = backups[n]
         /\ Files' \subseteq Files
         /\ \A c \in Files : c \in Files' \/ c = backups[b]
<1>1. backups'[b] = log /\ \A n \in Names \ {b} : backups'[n] = backups[n]
  BY DEF TypeOK
<1>2. Held' = Held \cup {b}
  BY <1>1 DEF Held
<1>3. Files' \subseteq Files
  BY <1>1, <1>2 DEF Files
<1>4. \A c \in Files : c \in Files' \/ c = backups[b]
  BY <1>1, <1>2 DEF Files
<1> QED
  BY <1>1, <1>2, <1>3, <1>4

\* ... and when backups are removed.
LEMMA Removed ==
  ASSUME TypeOK, NEW gone \in SUBSET Names, UNCHANGED log,
         backups' = [n \in Names |-> IF n \in gone THEN Absent ELSE backups[n]]
  PROVE  /\ Held' = Held \ gone
         /\ \A n \in Names \ gone : backups'[n] = backups[n]
         /\ Files' \subseteq Files
         /\ \A c \in Files : c \in Files' \/ \E n \in gone : c = backups[n]
<1>1. /\ \A n \in gone : backups'[n] = Absent
      /\ \A n \in Names \ gone : backups'[n] = backups[n]
  OBVIOUS
<1>2. Held' = Held \ gone
  BY <1>1 DEF Held
<1>3. \A n \in Held' : n \in Held /\ backups'[n] = backups[n]
  BY <1>1, <1>2 DEF Held
<1>4. Files' \subseteq Files
  BY <1>3 DEF Files
<1>5. \A c \in Files : c \in Files' \/ \E n \in gone : c = backups[n]
  <2> SUFFICES ASSUME NEW c \in Files PROVE c \in Files' \/ \E n \in gone : c = backups[n]
    OBVIOUS
  <2>1. CASE c = log
    BY <2>1 DEF Files
  <2>2. CASE \E n \in Held : c = backups[n]
    <3>1. PICK n \in Held : c = backups[n]
      BY <2>2
    <3>2. CASE n \in gone
      BY <3>1, <3>2
    <3>3. CASE n \notin gone
      <4>1. n \in Held' /\ backups'[n] = c
        BY <1>1, <1>2, <3>1, <3>3 DEF Held
      <4> QED
        BY <4>1 DEF Files
    <3> QED
      BY <3>2, <3>3
  <2> QED
    BY <2>1, <2>2 DEF Files
<1> QED
  BY <1>1, <1>2, <1>4, <1>5

\* A step keeps the lines if every file that changes leaves its lines to
\* another one, or else they are dropped or wiped.
LEMMA KeptByStep ==
  ASSUME TypeOK, LinesKept, UNCHANGED written,
         dropped \subseteq dropped', wiped \subseteq wiped',
         \A c \in Files, l \in Lines, k \in Nat \ {0} :
           Whole(c, l, k) => l \in dropped' \cup wiped' \/ \E d \in Files' : Whole(d, l, k)
  PROVE  LinesKept'
<1> SUFFICES ASSUME NEW w \in written
             PROVE  w[1] \in dropped' \cup wiped' \/ \E d \in Files' : Whole(d, w[1], w[2])
  BY DEF LinesKept
<1>1. w[1] \in Lines /\ w[2] \in Nat \ {0}
  BY RotationAssumption DEF TypeOK
<1>2. CASE w[1] \in dropped \cup wiped
  BY <1>2
<1>3. CASE \E c \in Files : Whole(c, w[1], w[2])
  BY <1>1, <1>3
<1> QED
  BY <1>2, <1>3 DEF LinesKept

LEMMA FilesUnchanged ==
  ASSUME UNCHANGED <<log, backups>> PROVE Files' = Files /\ Held' = Held
BY DEF Files, Held

\* If only the log file changes, the backups are still there.
LEMMA LogChanged ==
  ASSUME TypeOK, UNCHANGED backups, log' # Absent
  PROVE  /\ Held' = Held
         /\ log' \in Files'
         /\ \A c \in Files : c \in Files' \/ c = log
         /\ \A c \in Files' : c \in Files \/ c = log'
BY DEF Files, Held

LEMMA LinesStep ==
  ASSUME TypeOK, WriterOK, OtherOK, SizeOK, LinesKept, [Next]_vars
  PROVE  LinesKept'
<1> USE DEF folder, history, Return, Closed
<1>0. ASSUME UNCHANGED <<log, backups, written, dropped, wiped>> PROVE LinesKept'
  BY <1>0, FilesUnchanged DEF LinesKept
<1>1. ASSUME NEW k \in Lengths, Write(k) PROVE LinesKept'
  BY <1>0, <1>1 DEF Write
<1>2. CASE Open \/ OpenAppend
  BY <1>0, <1>2 DEF Open, OpenAppend
<1>3. ASSUME log # Absent, log' = Absent,
             backups' = [backups EXCEPT ![backupName(now)] = log],
             dropped' = dropped \cup LinesOf(backups[backupName(now)]),
             UNCHANGED <<written, wiped>>
      PROVE  LinesKept'
  <2>1. backupName(now) \in Names
    BY DEF backupName, Names, TypeOK
  <2>2. \A c \in Files : c \in Files' \/ c = backups[backupName(now)]
    BY <1>3, <2>1, Moved
  <2>3. \A c \in Files, l \in Lines, k \in Nat \ {0} : Whole(c, l, k) => l \in LinesOf(c)
    BY WholeLine, FilesAreSeq
  <2>4. \A c \in Files, l \in Lines, k \in Nat \ {0} :
          Whole(c, l, k) => l \in dropped' \/ \E d \in Files' : Whole(d, l, k)
    BY <1>3, <2>2, <2>3
  <2> QED
    BY <1>3, <2>4, KeptByStep
<1>4. CASE Rename
  BY <1>0, <1>3, <1>4 DEF Rename
<1>5. ASSUME log' = << >>, UNCHANGED <<backups, written, dropped>>,
             wiped' = wiped \cup LinesOf(log)
      PROVE  LinesKept'
  <2>1. \A c \in Files : c \in Files' \/ c = log
    BY <1>5, Emptied, LogChanged
  <2>2. \A c \in Files, l \in Lines, k \in Nat \ {0} : Whole(c, l, k) => l \in LinesOf(c)
    BY WholeLine, FilesAreSeq
  <2>3. \A c \in Files, l \in Lines, k \in Nat \ {0} :
          Whole(c, l, k) => l \in wiped' \/ \E d \in Files' : Whole(d, l, k)
    BY <1>5, <2>1, <2>2
  <2> QED
    BY <1>5, <2>3, KeptByStep
<1>6. CASE Create
  <2>1. LinesOf(log) = {}
    BY <1>6 DEF Create, SizeOK
  <2>2. log' = << >> /\ UNCHANGED <<backups, written, dropped, wiped>>
    BY <1>6 DEF Create
  <2> QED
    BY <1>5, <2>1, <2>2
<1>7. CASE Fail
  BY <1>0, <1>7 DEF Fail
<1>8. ASSUME NEW n \in 0 .. length, Put(n) PROVE LinesKept'
  <2>1. /\ n \in Nat /\ log \in Seq(Units) /\ log # Absent
        /\ line \in Units /\ line # Foreign
        /\ UNCHANGED <<backups, dropped, wiped>>
    BY <1>8, PutCases
  <2>2. CASE n = 0
    <3>1. length # 0
      BY <1>8, RotationAssumption DEF Put, WriterOK
    <3>2. log' = log /\ written' = written
      BY <1>8, <2>2, <3>1 DEF Put
    <3> QED
      BY <1>0, <2>1, <3>2
  <2>3. CASE n # 0
    <3>1. PICK p \in Nat : /\ log' = WriteAt(log, p, n, line)
                           /\ \A j \in DOMAIN log : j > p => log[j] = Foreign
      BY <1>8, <2>3, PutPlace
    <3>2. n \in Nat \ {0}
      BY <2>1, <2>3
    <3>3. {log[i] : i \in {j \in DOMAIN log : Within(j, p, n)}} \ {Foreign} = {}
      BY <3>1 DEF Within
    <3>4. /\ Whole(log', line, n)
          /\ \A l \in Lines, k \in Nat \ {0} : Whole(log, l, k) => Whole(log', l, k)
      <4> DEFINE w == WriteAt(log, p, n, line)
      <4>1. /\ Whole(w, line, n)
            /\ \A l \in Lines, k \in Nat \ {0} :
                 Whole(log, l, k) =>
                   Whole(w, l, k)
                     \/ l \in {log[i] : i \in {j \in DOMAIN log : Within(j, p, n)}} \ {Foreign}
        BY <2>1, <3>2, WrittenWhole
      <4>2. log' = w
        BY <3>1
      <4> HIDE DEF w
      <4>3. \A l \in Lines, k \in Nat \ {0} : Whole(log, l, k) => Whole(w, l, k)
        BY <3>3, <4>1
      <4> QED
        BY <4>1, <4>2, <4>3
    <3>5. log' # Absent
      BY <2>1, <3>1, <3>2, Written DEF IsWritten
    <3>6. log' \in Files' /\ \A c \in Files : c \in Files' \/ c = log
      BY <2>1, <3>5, LogChanged
    <3> SUFFICES ASSUME NEW w \in written'
                 PROVE  \/ w[1] \in dropped \cup wiped
                        \/ \E d \in Files' : Whole(d, w[1], w[2])
      BY <2>1 DEF LinesKept
    <3>7. CASE w \in written
      <4>1. w[1] \in Lines /\ w[2] \in Nat \ {0}
        BY <3>7, RotationAssumption DEF TypeOK
      <4>2. w[1] \in dropped \cup wiped \/ \E c \in Files : Whole(c, w[1], w[2])
        BY <3>7 DEF LinesKept
      <4> QED
        BY <3>4, <3>6, <4>1, <4>2
    <3>8. CASE w \notin written
      <4>1. n = length /\ w = <<line, length>>
        BY <1>8, <3>8 DEF Put
      <4> QED
        BY <3>4, <3>6, <4>1
    <3> QED
      BY <3>7, <3>8
  <2> QED
    BY <2>2, <2>3
<1>9. CASE MillReceive \/ MillList \/ MillFails
  BY <1>0, <1>9 DEF MillReceive, MillList, MillFails
<1>10. CASE MillRemove
  <2>1. PICK gone \in SUBSET stale :
          /\ backups' = [n \in Names |-> IF n \in gone THEN Absent ELSE backups[n]]
          /\ dropped' = dropped \cup UNION {LinesOf(backups[n]) : n \in gone}
    BY <1>10 DEF MillRemove
  <2>2. UNCHANGED <<written, wiped, log>>
    BY <1>10 DEF MillRemove
  <2>3. gone \in SUBSET Names
    BY DEF TypeOK
  <2>4. \A c \in Files : c \in Files' \/ \E n \in gone : c = backups[n]
    BY <2>1, <2>2, <2>3, Removed
  <2>5. \A c \in Files, l \in Lines, k \in Nat \ {0} : Whole(c, l, k) => l \in LinesOf(c)
    BY WholeLine, FilesAreSeq
  <2>6. \A n \in gone : LinesOf(backups[n]) \subseteq dropped'
    BY <2>1
  <2>7. \A c \in Files, l \in Lines, k \in Nat \ {0} :
          Whole(c, l, k) => l \in dropped' \/ \E d \in Files' : Whole(d, l, k)
    BY <2>4, <2>5, <2>6
  <2> QED
    BY <2>1, <2>2, <2>7, KeptByStep
<1>11. CASE \E t \in Times : Clock(t)
  BY <1>0, <1>11 DEF Clock
<1>12. CASE Restart
  BY <1>0, <1>12 DEF Restart
<1>13. CASE UNCHANGED vars
  BY <1>0, <1>13 DEF vars
<1>14. CASE Other
  <2>1. UNCHANGED written
    BY <1>14, OtherCases
  <2>2. CASE UNCHANGED <<log, backups, dropped, wiped>>
    BY <1>0, <2>1, <2>2
  <2>3. ASSUME NEW n \in 1 .. MaxOther, log' = WriteAt(log, Place, n, Foreign),
               wiped' = wiped \cup
                 ({log[i] : i \in {j \in DOMAIN log : Within(j, Place, n)}} \ {Foreign}),
               UNCHANGED <<backups, dropped>>, Place \in Nat, log # Absent
        PROVE  LinesKept'
    <3>1. log \in Seq(Units) /\ n \in Nat \ {0} /\ Foreign \in Units
      BY <2>3, RotationAssumption DEF Foreign, Units, TypeOK
    <3>2. log' # Absent
      BY <2>3, <3>1, Written DEF IsWritten
    <3>3. log' \in Files' /\ \A c \in Files : c \in Files' \/ c = log
      BY <2>3, <3>2, LogChanged
    <3>4. \A l \in Lines, k \in Nat \ {0} :
            Whole(log, l, k) => Whole(log', l, k) \/ l \in wiped'
      BY <2>3, <3>1, WrittenWhole
    <3>5. \A c \in Files, l \in Lines, k \in Nat \ {0} :
            Whole(c, l, k) => l \in wiped' \/ \E d \in Files' : Whole(d, l, k)
      BY <3>3, <3>4
    <3> QED
      BY <2>1, <2>3, <3>5, KeptByStep
  <2>4. CASE /\ log # Absent /\ log' = Absent
             /\ backups' = [backups EXCEPT ![backupName(now)] = log]
             /\ dropped' = dropped \cup LinesOf(backups[backupName(now)])
             /\ UNCHANGED wiped
    BY <1>3, <2>1, <2>4
  <2>5. CASE /\ log' = << >>
             /\ wiped' = wiped \cup LinesOf(log)
             /\ UNCHANGED <<backups, dropped>>
    BY <1>5, <2>1, <2>5
  <2> QED
    BY Zenon, <1>14, <2>2, <2>3, <2>4, <2>5, OtherCases
<1> QED
  BY <1>1, <1>2, <1>4, <1>6, <1>7, <1>8, <1>9, <1>10, <1>11, <1>12, <1>13, <1>14
  DEF Next

LEMMA NextLineType == TypeOK => NextLine \in Nat /\ line \in Nat
BY RotationAssumption DEF TypeOK, NextLine

\* A step keeps the order if at most the log file changes, and what comes to
\* it are units of the line whose turn it is.
LEMMA OrderByLog ==
  ASSUME TypeOK, OrderOK, UNCHANGED backups, NextLine' \in Nat, NextLine <= NextLine',
         log' # Absent => log' \in Seq(Units) /\ Sorted(log'),
         \A l \in LinesOf(log') : l \in LinesOf(log) \/ (NextLine <= l /\ l < NextLine')
  PROVE  OrderOK'
<1>1. Held' = Held /\ Files' \subseteq Files \cup {log'}
  BY DEF Held, Files
<1>2. \A n \in Held : backups[n] \in Files /\ backups[n] \in Seq(Units)
  BY DEF Held, Files, TypeOK
<1>3. LinesOf(log) # {} => log \in Files
  BY DEF LinesOf, Files
<1>4. \A l \in LinesOf(log') : l \in Nat
  BY LinesType, RotationAssumption DEF Lines, LinesOf
<1>5. \A n \in Held : Before(backups[n], log')
  <2> SUFFICES ASSUME NEW n \in Held, NEW l \in LinesOf(backups[n]), NEW m \in LinesOf(log')
               PROVE  l < m
    BY DEF Before
  <2>1. l \in Nat /\ l < NextLine
    BY <1>2, LinesType, RotationAssumption DEF Lines, OrderOK
  <2>2. m \in LinesOf(log) => l < m
    BY DEF OrderOK, LinesInOrder, Before
  <2> QED
    BY <1>4, <2>1, <2>2, NextLineType
<1>6. \A c \in Files' : Sorted(c)
  <2>1. Absent \notin Files'
    BY DEF Files
  <2> QED
    BY <1>1, <2>1 DEF OrderOK, LinesInOrder
<1>7. \A n, m \in Held' :
        n # m => Before(backups'[n], backups'[m]) \/ Before(backups'[m], backups'[n])
  BY <1>1 DEF OrderOK, LinesInOrder
<1>8. \A c \in Files' : \A l \in LinesOf(c) : l < NextLine'
  <2> SUFFICES ASSUME NEW c \in Files', NEW l \in LinesOf(c) PROVE l < NextLine'
    OBVIOUS
  <2>1. CASE c \in Files
    <3>1. l \in Nat /\ l < NextLine
      BY <2>1, FilesAreSeq, LinesType, RotationAssumption DEF Lines, OrderOK
    <3> QED
      BY <3>1, NextLineType
  <2>2. CASE c = log' /\ l \in LinesOf(log)
    <3>1. l \in Nat /\ l < NextLine
      BY <1>3, <1>4, <2>2 DEF OrderOK
    <3> QED
      BY <3>1, NextLineType
  <2>3. CASE c = log' /\ l \notin LinesOf(log)
    BY <2>3
  <2> QED
    BY <1>1, <2>1, <2>2, <2>3
<1>9. LinesInOrder'
  <2>1. \A n \in Held' : Before(backups'[n], log')
    BY <1>1, <1>5
  <2> QED
    BY <1>6, <1>7, <2>1 DEF LinesInOrder, Before, Sorted
<1> QED
  BY <1>8, <1>9 DEF OrderOK

\* Or if the log file is moved, or backups are removed.
LEMMA OrderByMove ==
  ASSUME TypeOK, OrderOK, NextLine' = NextLine,
         log # Absent, log' = Absent,
         backups' = [backups EXCEPT ![backupName(now)] = log]
  PROVE  OrderOK'
<1> DEFINE b == backupName(now)
<1>1. b \in Names
  BY DEF backupName, Names, TypeOK
<1> HIDE DEF b
<1>2. /\ Held' = Held \cup {b}
      /\ backups'[b] = log /\ \A n \in Names \ {b} : backups'[n] = backups[n]
      /\ Files' \subseteq Files
  <2>1. backups' = [backups EXCEPT ![b] = log]
    BY DEF b
  <2> QED
    BY <1>1, <2>1, Moved
<1>3. Held \subseteq Names
  BY DEF Held
<1>4. \A n \in Held' : Before(backups'[n], log')
  BY DEF Before, LinesOf
<1>5. ASSUME NEW n \in Held', NEW m \in Held', n # m
      PROVE  Before(backups'[n], backups'[m]) \/ Before(backups'[m], backups'[n])
  <2>1. CASE n = b
    <3>1. m \in Held /\ backups'[m] = backups[m]
      BY <1>2, <1>3, <1>5, <2>1
    <3> QED
      BY <1>2, <2>1, <3>1 DEF OrderOK, LinesInOrder
  <2>2. CASE m = b
    <3>1. n \in Held /\ backups'[n] = backups[n]
      BY <1>2, <1>3, <1>5, <2>2
    <3> QED
      BY <1>2, <2>2, <3>1 DEF OrderOK, LinesInOrder
  <2>3. CASE n # b /\ m # b
    <3>1. n \in Held /\ backups'[n] = backups[n] /\ m \in Held /\ backups'[m] = backups[m]
      BY <1>2, <1>3, <1>5, <2>3
    <3> QED
      BY <1>5, <3>1 DEF OrderOK, LinesInOrder
  <2> QED
    BY <2>1, <2>2, <2>3
<1>6. \A c \in Files' : Sorted(c) /\ \A l \in LinesOf(c) : l < NextLine'
  BY <1>2 DEF OrderOK, LinesInOrder
<1> QED
  BY <1>4, <1>5, <1>6 DEF OrderOK, LinesInOrder, Before, Sorted

LEMMA OrderByRemoval ==
  ASSUME TypeOK, OrderOK, NextLine' = NextLine, NEW gone \in SUBSET Names, UNCHANGED log,
         backups' = [n \in Names |-> IF n \in gone THEN Absent ELSE backups[n]]
  PROVE  OrderOK'
<1>1. /\ Held' = Held \ gone
      /\ \A n \in Names \ gone : backups'[n] = backups[n]
      /\ Files' \subseteq Files
  BY Removed
<1>2. \A n \in Held' : n \in Held /\ backups'[n] = backups[n]
  BY <1>1 DEF Held
<1>3. \A c \in Files' : Sorted(c) /\ \A l \in LinesOf(c) : l < NextLine'
  BY <1>1 DEF OrderOK, LinesInOrder
<1>4. \A n \in Held' : Before(backups'[n], log')
  BY <1>2 DEF OrderOK, LinesInOrder
<1>5. \A n, m \in Held' :
        n # m => Before(backups'[n], backups'[m]) \/ Before(backups'[m], backups'[n])
  BY <1>2 DEF OrderOK, LinesInOrder
<1> QED
  BY <1>3, <1>4, <1>5 DEF OrderOK, LinesInOrder, Before, Sorted

LEMMA OrderStep ==
  ASSUME TypeOK, WriterOK, OtherOK, SizeOK, OrderOK, TypeOK', [Next]_vars
  PROVE  OrderOK'
<1> USE DEF folder, logger, Return, Closed
<1>a. NextLine \in Nat /\ NextLine' \in Nat /\ line \in Nat
  <2>1. \A l \in 0 .. MaxLines : l \in Nat /\ l + 1 \in Nat
    BY RotationAssumption
  <2>2. line' \in 0 .. MaxLines
    BY DEF TypeOK
  <2>3. line' \in Nat /\ line' + 1 \in Nat
    BY <2>1, <2>2, Zenon
  <2>4. NextLine' \in Nat
    BY <2>3 DEF NextLine
  <2> QED
    BY <2>4, NextLineType
<1>b. log # Absent => log \in Seq(Units) /\ Sorted(log)
  BY DEF TypeOK, OrderOK, LinesInOrder, Files
<1>0. ASSUME UNCHANGED <<log, backups>>, NextLine <= NextLine' PROVE OrderOK'
  <2>1. log' # Absent => log' \in Seq(Units) /\ Sorted(log')
    BY <1>0, <1>b DEF Sorted
  <2>2. LinesOf(log') = LinesOf(log)
    BY <1>0
  <2> QED
    BY <1>0, <1>a, <2>1, <2>2, OrderByLog
<1>1. ASSUME NEW k \in Lengths, Write(k) PROVE OrderOK'
  <2>1. UNCHANGED <<log, backups>>
    BY <1>1 DEF Write
  <2>2. pc = "idle" /\ line' = line + 1 /\ pc' # "idle"
    BY <1>1 DEF Write
  <2> QED
    BY <1>0, <1>a, <2>1, <2>2 DEF NextLine
<1>2. CASE Open \/ OpenAppend
  <2>1. UNCHANGED <<log, backups, line>> /\ pc # "idle"
    BY <1>2 DEF Open, OpenAppend
  <2> QED
    BY <1>0, <1>a, <2>1 DEF NextLine
<1>3. CASE Rename
  <2>1. NextLine' = NextLine
    BY <1>3 DEF Rename, NextLine
  <2>2. CASE log = Absent
    BY <1>0, <1>3, <1>a, <2>1, <2>2 DEF Rename
  <2>3. CASE log # Absent
    BY <1>3, <2>1, <2>3, OrderByMove DEF Rename
  <2> QED
    BY <2>2, <2>3
<1>4. ASSUME log' = << >>, UNCHANGED backups, NextLine' = NextLine PROVE OrderOK'
  <2>1. log' \in Seq(Units) /\ Sorted(log') /\ LinesOf(log') = {}
    BY <1>4, Emptied DEF Sorted
  <2> QED
    BY <1>4, <1>a, <2>1, OrderByLog
<1>5. CASE Create
  <2>1. NextLine' = NextLine
    BY <1>5 DEF Create, NextLine
  <2> QED
    BY <1>4, <1>5, <2>1 DEF Create
<1>6. CASE Fail
  <2>1. UNCHANGED <<log, backups, line>> /\ pc # "idle"
    BY <1>6 DEF Fail
  <2> QED
    BY <1>0, <1>a, <2>1 DEF NextLine
<1>7. ASSUME NEW n \in 0 .. length, Put(n) PROVE OrderOK'
  <2>1. /\ n \in Nat /\ log \in Seq(Units) /\ log # Absent
        /\ line \in Units /\ line # Foreign /\ UNCHANGED backups
    BY <1>7, PutCases
  <2>2. UNCHANGED line /\ pc # "idle" /\ pc' = "idle"
    BY <1>7 DEF Put
  <2>3. NextLine = line /\ NextLine' = line + 1
    BY <2>2 DEF NextLine
  <2>4. CASE n = 0
    <3>1. log' = log
      BY <1>7, <2>4, PutCases
    <3> QED
      BY <1>0, <1>a, <2>1, <2>3, <3>1
  <2>5. CASE n # 0
    <3>1. PICK p \in Nat : /\ log' = WriteAt(log, p, n, line)
                           /\ \A j \in DOMAIN log : j > p => log[j] = Foreign
      BY <1>7, <2>5, PutPlace
    <3>2. \A i \in DOMAIN log : log[i] < line \/ log[i] = Foreign
      <4>1. log \in Files
        BY <2>1 DEF Files
      <4>2. \A i \in DOMAIN log : log[i] = Foreign \/ log[i] \in LinesOf(log)
        BY <2>1 DEF LinesOf
      <4> QED
        BY <2>3, <4>1, <4>2 DEF OrderOK
    <3>3. n \in Nat \ {0}
      BY <2>1, <2>5
    <3>4. Sorted(log') /\ LinesOf(log') \subseteq LinesOf(log) \cup {line}
      BY <1>b, <2>1, <3>1, <3>2, <3>3, WrittenSorted
    <3>5. log' \in Seq(Units)
      BY <2>1, <3>1, <3>3, Written DEF IsWritten
    <3>6. \A l \in LinesOf(log') : l \in LinesOf(log) \/ (NextLine <= l /\ l < NextLine')
      BY <1>a, <2>3, <3>4
    <3> QED
      BY <1>a, <2>1, <2>3, <3>4, <3>5, <3>6, OrderByLog
  <2> QED
    BY <2>4, <2>5
<1>8. CASE MillReceive \/ MillList \/ MillFails
  <2>1. UNCHANGED <<log, backups, line, pc>>
    BY <1>8 DEF MillReceive, MillList, MillFails
  <2> QED
    BY <1>0, <1>a, <2>1 DEF NextLine
<1>9. CASE MillRemove
  <2>1. PICK gone \in SUBSET stale :
          backups' = [n \in Names |-> IF n \in gone THEN Absent ELSE backups[n]]
    BY <1>9 DEF MillRemove
  <2>2. UNCHANGED log /\ NextLine' = NextLine /\ gone \in SUBSET Names
    BY <1>9 DEF MillRemove, NextLine, TypeOK
  <2> QED
    BY <2>1, <2>2, OrderByRemoval
<1>10. CASE \E t \in Times : Clock(t)
  <2>1. UNCHANGED <<log, backups, line, pc>>
    BY <1>10 DEF Clock
  <2> QED
    BY <1>0, <1>a, <2>1 DEF NextLine
<1>11. CASE Restart
  <2>1. UNCHANGED <<log, backups, line>> /\ pc' = "idle"
    BY <1>11 DEF Restart
  <2> QED
    BY <1>0, <1>a, <2>1 DEF NextLine
<1>12. CASE UNCHANGED vars
  <2>1. UNCHANGED <<log, backups, line, pc>>
    BY <1>12 DEF vars
  <2> QED
    BY <1>0, <1>a, <2>1 DEF NextLine
<1>13. CASE Other
  <2>1. NextLine' = NextLine
    BY <1>13, OtherCases DEF NextLine
  <2>2. CASE UNCHANGED <<log, backups>>
    BY <1>0, <1>a, <2>1, <2>2
  <2>3. ASSUME NEW n \in 1 .. MaxOther, log' = WriteAt(log, Place, n, Foreign),
               UNCHANGED backups, Place \in Nat, log # Absent
        PROVE  OrderOK'
    <3>1. log \in Seq(Units) /\ n \in Nat \ {0} /\ Foreign \in Units
      BY <2>3, RotationAssumption DEF Foreign, Units, TypeOK
    <3>2. Sorted(log') /\ LinesOf(log') \subseteq LinesOf(log)
      BY <1>b, <2>3, <3>1, WrittenSorted
    <3>3. log' \in Seq(Units)
      BY <2>3, <3>1, Written DEF IsWritten
    <3> QED
      BY <1>a, <2>1, <2>3, <3>2, <3>3, OrderByLog
  <2>4. CASE /\ log # Absent /\ log' = Absent
             /\ backups' = [backups EXCEPT ![backupName(now)] = log]
    BY <2>1, <2>4, OrderByMove
  <2>5. CASE log' = << >> /\ UNCHANGED backups
    BY <1>4, <2>1, <2>5
  <2> QED
    BY Zenon, <1>13, <2>2, <2>3, <2>4, <2>5, OtherCases
<1> QED
  BY <1>1, <1>2, <1>3, <1>5, <1>6, <1>7, <1>8, <1>9, <1>10, <1>11, <1>12, <1>13
  DEF Next

\* The state of the Logger, the files and the mill agree in every reachable
\* state, whatever another process does to the log file.
THEOREM Invariance == Spec => []IInv
<1>1. Init => IInv
  <2> SUFFICES ASSUME Init PROVE IInv
    OBVIOUS
  <2>1. FilesType
    BY DEF Init, FilesType
  <2>2. ControlType
    <3>1. 0 \in 0 .. MaxLines /\ 0 \in Times /\ 0 \in 0 .. MaxOther
      BY RotationAssumption DEF Times
    <3>2. file \in BOOLEAN /\ append \in BOOLEAN /\ rotating \in BOOLEAN /\ due \in BOOLEAN
      BY DEF Init
    <3>3. /\ now = 0 /\ other = "off" /\ theirs = 0 /\ pc = "idle" /\ line = 0
          /\ length = 0 /\ size = 0 /\ token = 0 /\ mill = "off" /\ stale = {}
      BY DEF Init
    <3> QED
      BY <3>1, <3>2, <3>3 DEF ControlType
  <2>3. WriterOK /\ OtherOK /\ SizeOK /\ SizeLimit /\ LinesKept /\ MillOK
    BY DEF Init, WriterOK, OtherOK, SizeOK, SizeLimit, LinesKept, MillOK
  <2>5. OrderOK
    BY DEF Init, OrderOK, LinesInOrder, Files, Held
  <2>4. TypeOK
    BY <2>1, <2>2 DEF TypeOK, FilesType, ControlType
  <2> QED
    BY <2>3, <2>4, <2>5 DEF IInv
<1>2. IInv /\ [Next]_vars => IInv'
  BY TypeStep, WriterStep, SizeStep, LinesStep, OrderStep, MillStep DEF IInv
<1> QED
  BY <1>1, <1>2, PTL DEF Spec

\* The variables keep their types; above all, millCh never holds more than it
\* can, so that no Write waits for the mill.
THEOREM TypeCorrect == Spec => []TypeOK
<1>1. IInv => TypeOK
  BY DEF IInv
<1> QED
  BY <1>1, Invariance, PTL

\* No log file that one process alone has written grows beyond the size set
\* in the options, whatever writes fail and wherever the process is restarted.
THEOREM SizeBounded == Spec => []SizeLimit
<1>1. IInv => SizeLimit
  BY DEF IInv
<1> QED
  BY <1>1, Invariance, PTL

\* A written line gets lost only with a backup that is replaced or removed,
\* or under the hands of another process.
THEOREM NoLineLost == Spec => []LinesKept
<1>1. IInv => LinesKept
  BY DEF IInv
<1> QED
  BY <1>1, Invariance, PTL

\* A channel of capacity one and a send that does not block are enough for
\* the mill to list the folder after every rotation, or at least to try to:
\* what a failed attempt leaves is not looked for before the next rotation.
THEOREM NoRotationMissed == Spec => []MillFollows
<1>1. IInv => MillFollows
  BY DEF IInv, MillOK, MillFollows
<1> QED
  BY <1>1, Invariance, PTL

\* The log file with its backups is the log cut into pieces: no rotation, no
\* failed write and no restart puts a line out of its place or into two files.
THEOREM OrderOfLines == Spec => []LinesInOrder
<1>1. IInv => LinesInOrder
  BY DEF IInv, OrderOK
<1> QED
  BY <1>1, Invariance, PTL

==============================================================================
