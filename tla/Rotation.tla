------------------------------- MODULE Rotation -------------------------------
(***************************************************************************)
(* The rotating log file (log/lumberjack) as log/config.go sets it up:     *)
(* Logger.Write with openExistingOrNew, rotate and openNew, and the mill   *)
(* goroutine, which removes old backups.                                   *)
(*                                                                         *)
(* All goroutines of the program log through one Logger.  Its mutex lets   *)
(* one Write in at a time, so that one `writer' is enough here; its file   *)
(* operations interleave with those of the mill, of another process and    *)
(* with the end of this one.  A channel of capacity one tells the mill     *)
(* that there is work.                                                     *)
(*                                                                         *)
(* The other process is a second collector: main() sets up the log and     *)
(* Start() writes to it before run() finds the lock file taken.  It has a  *)
(* Logger of its own for the same file, and no mutex is between the two.   *)
(* On Windows, a file that is open can be opened, written and truncated by *)
(* others, but not renamed.                                                *)
(*                                                                         *)
(* Files hold sequences of units; a line of k units is k times its number. *)
(* A time is one that backup names tell apart, that is, a second.          *)
(***************************************************************************)
EXTENDS Naturals, Sequences, FiniteSets

CONSTANTS
  RotationMaxSize, RotationMaxBackups, RotationMaxAge,  \* the options of log
  Absent,      \* the content of a file that does not exist
  Lengths,     \* the lengths of the lines
  MaxLines,    \* bound: how many lines are written
  MaxOther,    \* bound: how many units another process writes; 0: there is none
  MaxTime      \* bound: the clock

\* What prepZap passes on to the Logger.
MaxSize == RotationMaxSize
MaxBackups == RotationMaxAge
MaxAge == RotationMaxBackups

Times == 0 .. MaxTime

\* The names openNew gives to backups, and those timeFromName understands:
\* the time is elsewhere in the name and in another format (one with colons,
\* which no file name on Windows can have).
Names == [form : {"name.log.time", "name-time.log"}, time : Times]
backupName(t) == [form |-> "name.log.time", time |-> t]
Recognised(n) == n.form = "name-time.log"

ASSUME RotationAssumption ==
  /\ RotationMaxSize \in Nat \ {0}
  /\ RotationMaxBackups \in Nat /\ RotationMaxAge \in Nat
  /\ Absent \notin Seq(Nat)
  /\ Lengths \subseteq Nat \ {0}
  /\ MaxLines \in Nat /\ MaxOther \in Nat /\ MaxTime \in Nat

VARIABLES
  (* the folder *)
  log,       \* the content of the log file, or Absent
  backups,   \* the content of each backup, or Absent
  now,       \* the clock
  (* the other process *)
  other,     \* "off", about to "create" the log file, or how it has opened it:
             \* "append", or "own" for one that it has created
  theirs,    \* how much it has written since
  (* the writer: the goroutine that holds the mutex *)
  pc,        \* where it is in Write
  line,      \* the number of its line, counted from 1
  length,    \* the length of its line
  file,      \* Logger.file is open
  append,    \* with O_APPEND; otherwise it is written at Logger.size
  size,      \* Logger.size, and before that, what Stat has found
  rotating,  \* openNew was called by rotate
  (* the mill *)
  token,     \* how many values are in millCh
  mill,      \* where millRun is
  stale,     \* the files it is about to remove
  (* history, read by no action *)
  written,   \* the lines Write has returned without an error for, and their lengths
  dropped,   \* the lines in backups replaced by another, or removed as old
  wiped,     \* the lines the other process has truncated or written over
  due        \* since the last rotation, or since the process has started, the mill
             \* has not tried to list the folder

folder == <<log, backups>>
others == <<other, theirs>>
logger == <<line, length, file, append, size, rotating>>
milling == <<token, mill, stale>>
history == <<written, dropped, wiped, due>>
vars == <<folder, now, others, pc, logger, milling, history>>

\* A unit the other process has written, or a hole in the file.
Foreign == 0
Units == 0 .. MaxLines
Lines == 1 .. MaxLines

LinesOf(c) == IF c = Absent THEN {} ELSE {c[i] : i \in DOMAIN c} \ {Foreign}

TypeOK ==
  /\ log \in Seq(Units) \cup {Absent}
  /\ backups \in [Names -> Seq(Units) \cup {Absent}]
  /\ now \in Times
  /\ other \in {"off", "create", "append", "own"}
  /\ theirs \in 0 .. MaxOther
  /\ pc \in {"idle", "open", "append", "rename", "create", "write"}
  /\ line \in 0 .. MaxLines
  /\ length \in Lengths \cup {0}
  /\ file \in BOOLEAN
  /\ append \in BOOLEAN
  /\ size \in Nat
  /\ rotating \in BOOLEAN
  /\ token \in 0 .. 1  \* the capacity of millCh
  /\ mill \in {"off", "wait", "list", "remove"}
  /\ stale \subseteq Names
  /\ written \subseteq Lines \X Lengths
  /\ dropped \subseteq Lines
  /\ wiped \subseteq Lines
  /\ due \in BOOLEAN

Init ==
  /\ log = Absent
  /\ backups = [n \in Names |-> Absent]
  /\ now = 0
  /\ other = "off" /\ theirs = 0
  /\ pc = "idle"
  /\ line = 0 /\ length = 0
  /\ file = FALSE /\ append = FALSE
  /\ size = 0
  /\ rotating = FALSE
  /\ token = 0
  /\ mill = "off"
  /\ stale = {}
  /\ written = {} /\ dropped = {} /\ wiped = {}
  /\ due = TRUE

-----------------------------------------------------------------------------
(* Logger.Write                                                            *)

\* Write returns; its line is forgotten, and so is who has called openNew.
Return == pc' = "idle" /\ length' = 0 /\ rotating' = FALSE

\* Nothing reads the size of a closed file, and how it was opened.
Closed == file' = FALSE /\ append' = FALSE /\ size' = 0

\* two slips: no default case for a full channel, and a channel without a
\* buffer, in which the value is lost unless the mill waits for it
WakeMill_NoDefault ==
  /\ token' = token + 1
  /\ mill' = IF mill = "off" THEN "wait" ELSE mill
  /\ UNCHANGED stale

WakeMill_Unbuffered ==
  /\ token' = IF mill \in {"off", "wait"} THEN 1 ELSE 0
  /\ mill' = IF mill = "off" THEN "wait" ELSE mill
  /\ UNCHANGED stale

\* mill(): starts the goroutine once; if the channel is full, nothing is sent.
WakeMill ==
  /\ token' = 1
  /\ mill' = IF mill = "off" THEN "wait" ELSE mill
  /\ UNCHANGED stale

\* a slip: the length of the line is not counted
Full_Uncounted(k) == size > MaxSize
Full(k) == size + k > MaxSize

\* Write begins.  A line longer than MaxSize is refused, and nothing changes.
Write(k) ==
  /\ pc = "idle"
  /\ line < MaxLines
  /\ k <= MaxSize
  /\ line' = line + 1
  /\ length' = k
  /\ \/ ~file /\ pc' = "open" /\ UNCHANGED <<file, append, size, rotating>>
     \/ file /\ ~Full(k) /\ pc' = "write" /\ UNCHANGED <<file, append, size, rotating>>
     \/ file /\ Full(k) /\ pc' = "rename" /\ Closed /\ rotating' = TRUE
  /\ UNCHANGED <<folder, now, others, milling, history>>

\* The file is there, and the line does not fill it.
Fits == log # Absent /\ Len(log) + length < MaxSize

\* a slip: a full file is not moved away
StatFile_Overwrite ==
  \/ ~Fits /\ pc' = "create" /\ rotating' = FALSE /\ UNCHANGED size
  \/ Fits /\ pc' = "append" /\ size' = Len(log) /\ UNCHANGED rotating

\* A new file is needed if there is none, or after rotating a full one.
StatFile ==
  \/ ~Fits /\ pc' = "rename" /\ rotating' = (log # Absent) /\ UNCHANGED size
  \/ Fits /\ pc' = "append" /\ size' = Len(log) /\ UNCHANGED rotating

\* openExistingOrNew, first half.  If there is no telling how long the file is,
\* Write returns an error.
Open ==
  /\ pc = "open"
  /\ \/ StatFile /\ UNCHANGED length
     \/ Return /\ UNCHANGED size
  /\ WakeMill
  /\ UNCHANGED <<folder, now, others, line, file, append, history>>

\* Second half.  A file that cannot be opened is moved out of the way.
OpenAppend ==
  /\ pc = "append"
  /\ \/ /\ log # Absent
        /\ file' = TRUE /\ append' = TRUE
        /\ pc' = "write"
        /\ UNCHANGED <<size, rotating>>
     \/ /\ Closed
        /\ rotating' = FALSE
        /\ pc' = "rename"
  /\ UNCHANGED <<folder, now, others, line, length, milling, history>>

\* a slip: the file is copied, and is emptied only when the new one is created
Rename_Copy ==
  /\ pc = "rename"
  /\ \/ log = Absent /\ UNCHANGED <<folder, dropped, due>>
     \/ /\ log # Absent
        /\ backups' = [backups EXCEPT ![backupName(now)] = log]
        /\ dropped' = dropped \cup LinesOf(backups[backupName(now)])
        /\ due' = (due \/ rotating)
        /\ UNCHANGED log
  /\ pc' = "create"
  /\ UNCHANGED <<now, others, logger, milling, written, wiped>>

\* os.Stat and os.Rename in openNew.  A backup of the same name is replaced.
\* The mill is told of the backup only if it was rotate that called openNew.
\* (If Stat fails on a file that is there, the attempt to create it does too,
\* and this is Fail.)
Rename ==
  /\ pc = "rename"
  /\ \/ log = Absent /\ UNCHANGED <<folder, dropped, due>>
     \/ /\ log # Absent /\ other \notin {"append", "own"}
        /\ log' = Absent
        /\ backups' = [backups EXCEPT ![backupName(now)] = log]
        /\ dropped' = dropped \cup LinesOf(backups[backupName(now)])
        /\ due' = (due \/ rotating)
  /\ pc' = "create"
  /\ UNCHANGED <<now, others, logger, milling, written, wiped>>

\* os.OpenFile in openNew, which truncates the file if it is there by now, and
\* the end of rotate
Create ==
  /\ pc = "create"
  /\ log' = << >>
  /\ file' = TRUE /\ append' = FALSE
  /\ size' = 0
  /\ pc' = "write"
  /\ IF rotating THEN WakeMill ELSE UNCHANGED milling
  /\ rotating' = FALSE
  /\ UNCHANGED <<backups, now, others, line, length, history>>

\* The file cannot be closed, moved or created: Write returns the error.
Fail ==
  /\ pc \in {"rename", "create"}
  /\ Return
  /\ UNCHANGED <<folder, now, others, line, file, append, size, milling, history>>

\* The content c with n > 0 units u written behind the first p units.  If c is
\* shorter than that, a hole comes to be.
Within(i, p, n) == p < i /\ i <= p + n
WriteAt(c, p, n, u) ==
  [i \in 1 .. (IF p + n > Len(c) THEN p + n ELSE Len(c)) |->
     IF Within(i, p, n) THEN u ELSE IF i <= Len(c) THEN c[i] ELSE Foreign]

\* File.Write; it returns an error if it writes less than the whole line.
Put(n) ==
  /\ pc = "write"
  /\ log' = IF n = 0 THEN log
            ELSE WriteAt(log, IF append THEN Len(log) ELSE size, n, line)
  /\ size' = size + n
  /\ written' = IF n = length THEN written \cup {<<line, length>>} ELSE written
  /\ Return
  /\ UNCHANGED <<backups, now, others, line, file, append, milling, dropped, wiped, due>>

-----------------------------------------------------------------------------
(* millRun                                                                 *)

MillReceive ==
  /\ mill = "wait"
  /\ token = 1
  /\ token' = 0
  /\ \/ MaxBackups = 0 /\ MaxAge = 0 /\ due' = FALSE /\ UNCHANGED mill
     \/ (MaxBackups > 0 \/ MaxAge > 0) /\ mill' = "list" /\ UNCHANGED due
  /\ UNCHANGED <<folder, now, others, pc, logger, stale, written, dropped, wiped>>

oldLogFiles == {n \in Names : backups[n] # Absent /\ Recognised(n)}

\* All but the newest MaxBackups, and all that are too old.  (Compress is not
\* set, so that no backup is compressed.)
Stale(files) ==
  {n \in files :
     \/ MaxBackups > 0 /\ Cardinality({m \in files : m.time > n.time}) >= MaxBackups
     \/ MaxAge > 0 /\ n.time + MaxAge < now}

\* millRunOnce, first half: list the folder and choose ...
MillList ==
  /\ mill = "list"
  /\ stale' = Stale(oldLogFiles)
  /\ due' = FALSE
  /\ mill' = "remove"
  /\ UNCHANGED <<folder, now, others, pc, logger, token, written, dropped, wiped>>

\* ... or the folder cannot be read, and millRun waits for the next value;
\* nothing makes it try again.
MillFails ==
  /\ mill = "list"
  /\ due' = FALSE
  /\ mill' = "wait"
  /\ UNCHANGED <<folder, now, others, pc, logger, token, stale, written, dropped, wiped>>

\* ... second half: remove what can be removed.  Errors are thrown away.
MillRemove ==
  /\ mill = "remove"
  /\ \E gone \in SUBSET stale :
       /\ backups' = [n \in Names |-> IF n \in gone THEN Absent ELSE backups[n]]
       /\ dropped' = dropped \cup UNION {LinesOf(backups[n]) : n \in gone}
  /\ stale' = {}
  /\ mill' = "wait"
  /\ UNCHANGED <<log, now, others, pc, logger, token, written, wiped, due>>

-----------------------------------------------------------------------------
(* The Logger of the other process, with the same steps as above.  Its     *)
(* lines are not counted, nor does it remove anything: no backup of either *)
(* is ever recognised.                                                     *)

OtherWrites(n) ==
  LET p == IF other = "append" THEN Len(log) ELSE theirs
  IN  /\ other \in {"append", "own"}
      /\ theirs + n <= MaxOther
      /\ theirs' = theirs + n
      /\ log' = WriteAt(log, p, n, Foreign)
      /\ wiped' = wiped \cup ({log[i] : i \in {j \in DOMAIN log : Within(j, p, n)}} \ {Foreign})
      /\ UNCHANGED <<backups, now, other, pc, logger, milling, written, dropped, due>>

\* It opens the log file if that is not full.
OtherOpens ==
  /\ other = "off" /\ MaxOther > 0
  /\ log # Absent /\ Len(log) < MaxSize
  /\ other' = "append" /\ theirs' = 0
  /\ UNCHANGED <<folder, now, pc, logger, milling, history>>

\* It finds no log file, or moves it away if nobody has it open.
OtherMoves ==
  /\ other = "off" /\ MaxOther > 0
  /\ other' = "create" /\ UNCHANGED theirs
  /\ \/ log = Absent /\ UNCHANGED <<folder, dropped>>
     \/ /\ log # Absent /\ ~file
        /\ log' = Absent
        /\ backups' = [backups EXCEPT ![backupName(now)] = log]
        /\ dropped' = dropped \cup LinesOf(backups[backupName(now)])
  /\ UNCHANGED <<now, pc, logger, milling, written, wiped, due>>

\* "if someone else creates the file in the meantime, just wipe out the contents"
OtherCreates ==
  /\ other = "create"
  /\ other' = "own" /\ theirs' = 0
  /\ log' = << >>
  /\ wiped' = wiped \cup LinesOf(log)
  /\ UNCHANGED <<backups, now, pc, logger, milling, written, dropped, due>>

\* It closes the file or ends: os.Exit, as the lock file is taken.
OtherEnds ==
  /\ other # "off"
  /\ other' = "off" /\ theirs' = 0
  /\ UNCHANGED <<folder, now, pc, logger, milling, history>>

Other ==
  \/ \E n \in 1 .. MaxOther : OtherWrites(n)
  \/ OtherOpens
  \/ OtherMoves
  \/ OtherCreates
  \/ OtherEnds

-----------------------------------------------------------------------------
(* Everything else                                                         *)

\* Time goes on; the local time is also set back.
Clock(t) ==
  /\ t # now
  /\ now' = t
  /\ UNCHANGED <<folder, others, pc, logger, milling, history>>

\* The process ends and is started again.
Restart ==
  /\ Return
  /\ Closed
  /\ token' = 0
  /\ mill' = "off"
  /\ stale' = {}
  /\ due' = TRUE
  /\ UNCHANGED <<folder, now, others, line, written, dropped, wiped>>

Next ==
  \/ \E k \in Lengths : Write(k)
  \/ Open
  \/ OpenAppend
  \/ Rename
  \/ Create
  \/ Fail
  \/ \E n \in 0 .. length : Put(n)
  \/ MillReceive
  \/ MillList
  \/ MillFails
  \/ MillRemove
  \/ Other
  \/ \E t \in Times : Clock(t)
  \/ Restart

Spec == Init /\ [][Next]_vars

-----------------------------------------------------------------------------
(* The log file and its backups are never longer than the size the options *)
(* set (Write, openExistingOrNew), also when writes fail half-way and when *)
(* the file is taken over after a restart, unless another process has      *)
(* written to them: then Logger.size is not the size of the file any more. *)
Alien(c) == \E i \in DOMAIN c : c[i] = Foreign
SizeLimit ==
  /\ log # Absent => Alien(log) \/ Len(log) <= RotationMaxSize
  /\ \A n \in Names : backups[n] # Absent =>
       Alien(backups[n]) \/ Len(backups[n]) <= RotationMaxSize

(* A line that was written without an error is still there, whole and in   *)
(* one piece, in the log file or in a backup, unless that backup was       *)
(* replaced by one of the same second (openNew, backupName) or removed as  *)
(* an old one (millRunOnce), or another process that had found no log file *)
(* has truncated ours or written over it.  This process never does that to *)
(* its own lines, although it does not know of the other one.              *)
Held == {n \in Names : backups[n] # Absent}
Files == ({log} \cup {backups[n] : n \in Held}) \ {Absent}
Whole(c, l, k) ==
  \E p \in 0 .. Len(c) : p + k <= Len(c) /\ \A i \in p + 1 .. p + k : c[i] = l
LinesKept ==
  \A w \in written :
    \/ w[1] \in dropped \cup wiped
    \/ \E c \in Files : Whole(c, w[1], w[2])

(* Rotation cuts the log into pieces and does nothing else to it: in every *)
(* file the lines stand in the order in which they were written, also      *)
(* those that were written only in part; the lines of all backups are      *)
(* older than those of the log file; and of two backups, one holds only    *)
(* lines that are older than those of the other, so that no line is in two *)
(* files (rotate, openNew, openExistingOrNew).                             *)
Sorted(c) == \A i, j \in DOMAIN c : i < j => c[j] = Foreign \/ c[i] <= c[j]
Before(c, d) == \A l \in LinesOf(c), m \in LinesOf(d) : l < m
LinesInOrder ==
  /\ \A c \in Files : Sorted(c)
  /\ \A n \in Held : Before(backups[n], log)
  /\ \A n, m \in Held :
       n # m => Before(backups[n], backups[m]) \/ Before(backups[m], backups[n])

(* The mill is told of every rotation, and after a start of what was       *)
(* before it: while the log file is open, the mill has listed the folder   *)
(* since, or tried to, or it is about to, or a value in the channel will   *)
(* make it (rotate, openExistingOrNew, mill, millRun).  That mill() drops  *)
(* its value when the channel is full loses nothing.  What one attempt     *)
(* cannot see or remove is left to the one after the next rotation         *)
(* (millRunOnce).                                                          *)
MillFollows == due /\ file => token = 1 \/ mill = "list"

(* "RotationMaxBackups is the maximum number of old log files to retain"   *)
(* (log/options.go, line 87): each time the mill has listed the folder, it *)
(* chooses so many to remove that no more are left.                        *)
Retained ==
  [][MillList /\ RotationMaxBackups > 0 =>
       Cardinality(Held \ stale') <= RotationMaxBackups]_vars

==============================================================================
