------------------------------- MODULE Startup -------------------------------
(***************************************************************************)
(* What run() in program.go does before the jobs start, in several         *)
(* processes at once: hasLockfile, which lets only one of them go on, and  *)
(* load, which gives the machine its uuid the first time.                  *)
(*                                                                         *)
(* Somebody may start the program twice, by hand or as a service, and a    *)
(* process may end between any two system calls.  The operating system     *)
(* then closes its handles, but the files stay as they are.                *)
(***************************************************************************)
EXTENDS Naturals

CONSTANTS
  Procs,   \* the processes
  Uuids,   \* the uuids NewV4 may return
  Absent,  \* there is no uuid.dat
  Cut      \* uuid.dat is empty, or holds the beginning of a uuid

ASSUME StartupAssumption == Absent # Cut /\ {Absent, Cut} \cap Uuids = {}

VARIABLES
  pc,        \* where each process is
  handle,    \* the handle each process has on the lock file
  lockFile,  \* tmp.lock exists
  uuidFile,  \* the content of uuid.dat
  uuid,      \* Program.user.UUID of each process; Cut before it is loaded
  ran,       \* history: the uuids the jobs have run with
  cut        \* history: a write of uuid.dat did not complete

vars == <<pc, handle, lockFile, uuidFile, uuid, ran, cut>>
lock == <<handle, lockFile>>
identity == <<uuidFile, uuid, ran, cut>>

\* hasLockfile has returned without an error
Locked == {"load", "read", "generate", "write", "run"}

TypeOK ==
  /\ pc \in [Procs -> Locked \cup {"off", "exists", "create", "close", "lock",
                                     "refused"}]
  /\ handle \in [Procs -> {"none", "create", "hold"}]
  /\ lockFile \in BOOLEAN
  /\ uuidFile \in Uuids \cup {Cut, Absent}
  /\ uuid \in [Procs -> Uuids \cup {Cut}]
  /\ ran \subseteq Uuids \cup {Cut}
  /\ cut \in BOOLEAN

Init ==
  /\ pc = [p \in Procs |-> "off"]
  /\ handle = [p \in Procs |-> "none"]
  /\ lockFile = FALSE
  /\ uuidFile = Absent
  /\ uuid = [p \in Procs |-> Cut]
  /\ ran = {}
  /\ cut = FALSE

Goto(p, l) == pc' = [pc EXCEPT ![p] = l]
SetHandle(p, h) == handle' = [handle EXCEPT ![p] = h]

\* os.Create lets others open the file too, but not deny them to; CreateFile
\* with share mode 0 wants the file for itself.
MayCreate == \A q \in Procs : handle[q] # "hold"
MayHold == \A q \in Procs : handle[q] = "none"

\* The process ends, by os.Exit or by any other hand.
Exit(p) ==
  /\ Goto(p, "off")
  /\ SetHandle(p, "none")
  /\ uuid' = [uuid EXCEPT ![p] = Cut]
  /\ cut' = (cut \/ pc[p] = "write")
  /\ UNCHANGED <<lockFile, uuidFile, ran>>

Launch(p) ==
  /\ pc[p] = "off"
  /\ Goto(p, "exists")
  /\ UNCHANGED <<lock, identity>>

-----------------------------------------------------------------------------
(* hasLockfile                                                             *)

\* a slip: the process waits until there is no lock file
CheckLock_Wait(p) ==
  /\ pc[p] = "exists"
  /\ ~lockFile
  /\ Goto(p, "create")
  /\ UNCHANGED <<lock, identity>>

CheckLock(p) ==
  /\ pc[p] = "exists"
  /\ Goto(p, IF lockFile THEN "lock" ELSE "create")
  /\ UNCHANGED <<lock, identity>>

CreateLock(p) ==
  /\ pc[p] = "create"
  /\ MayCreate
  /\ SetHandle(p, "create")
  /\ lockFile' = TRUE
  /\ Goto(p, "close")
  /\ UNCHANGED identity

\* a slip: os.Create without f.Close
CloseLock_Forgotten(p) ==
  /\ pc[p] = "close"
  /\ Goto(p, "lock")
  /\ UNCHANGED <<lock, identity>>

CloseLock(p) ==
  /\ pc[p] = "close"
  /\ SetHandle(p, "none")
  /\ Goto(p, "lock")
  /\ UNCHANGED <<lockFile, identity>>

\* a slip: share mode FILE_SHARE_READ instead of 0
TakeLock_Shared(p) ==
  /\ pc[p] = "lock"
  /\ \A q \in Procs : handle[q] # "create"
  /\ SetHandle(p, "hold")
  /\ Goto(p, "load")
  /\ UNCHANGED <<lockFile, identity>>

TakeLock(p) ==
  /\ pc[p] = "lock"
  /\ MayHold
  /\ SetHandle(p, "hold")
  /\ Goto(p, "load")
  /\ UNCHANGED <<lockFile, identity>>

\* hasLockfile returns an error: a process is running, or one that is starting
\* too has its handle from os.Create open at the moment
Refused(p) ==
  /\ \/ pc[p] = "create" /\ ~MayCreate
     \/ pc[p] = "lock" /\ ~MayHold
  /\ Goto(p, "refused")
  /\ UNCHANGED <<lock, identity>>

\* "A collector process is already running"
GiveUp(p) == pc[p] = "refused" /\ Exit(p)

-----------------------------------------------------------------------------
(* load                                                                    *)

\* a slip: load reads the file without looking whether it exists
CheckUuid_ReadFirst(p) ==
  /\ pc[p] = "load"
  /\ Goto(p, "read")
  /\ UNCHANGED <<lock, identity>>

\* a slip: every start generates a uuid
CheckUuid_Regenerate(p) ==
  /\ pc[p] = "load"
  /\ Goto(p, "generate")
  /\ UNCHANGED <<lock, identity>>

CheckUuid(p) ==
  /\ pc[p] = "load"
  /\ Goto(p, IF uuidFile = Absent THEN "generate" ELSE "read")
  /\ UNCHANGED <<lock, identity>>

\* whatever the file holds is the uuid; the jobs start
ReadUuid(p) ==
  /\ pc[p] = "read"
  /\ uuid' = [uuid EXCEPT ![p] = uuidFile]
  /\ ran' = ran \cup {uuidFile}
  /\ Goto(p, "run")
  /\ UNCHANGED <<lock, uuidFile, cut>>

\* os.Create leaves an empty file
CreateUuid(p) ==
  /\ pc[p] = "generate"
  /\ uuidFile' = Cut
  /\ Goto(p, "write")
  /\ UNCHANGED <<lock, uuid, ran, cut>>

\* a slip: the uuid is not written
WriteUuid_Forgotten(p, u) ==
  /\ pc[p] = "write"
  /\ uuid' = [uuid EXCEPT ![p] = u]
  /\ ran' = ran \cup {u}
  /\ Goto(p, "run")
  /\ UNCHANGED <<lock, uuidFile, cut>>

WriteUuid(p, u) ==
  /\ pc[p] = "write"
  /\ uuidFile' = u
  /\ uuid' = [uuid EXCEPT ![p] = u]
  /\ ran' = ran \cup {u}
  /\ Goto(p, "run")
  /\ UNCHANGED <<lock, cut>>

-----------------------------------------------------------------------------

\* A system call fails and run() calls os.Exit, the service is stopped, or
\* the process ends in any other way.
Kill(p) ==
  /\ pc[p] \notin {"off", "refused"}
  /\ Exit(p)

Start(p) ==
  \/ CheckLock(p)
  \/ CreateLock(p)
  \/ CloseLock(p)
  \/ TakeLock(p)
  \/ Refused(p)
  \/ GiveUp(p)
  \/ CheckUuid(p)
  \/ ReadUuid(p)
  \/ CreateUuid(p)
  \/ \E u \in Uuids : WriteUuid(p, u)

Next == \E p \in Procs : Launch(p) \/ Start(p) \/ Kill(p)

Spec == Init /\ [][Next]_vars

\* A process that was started is scheduled.  Nothing makes anybody start one.
FairSpec == Spec /\ \A p \in Procs : WF_vars(Start(p))

-----------------------------------------------------------------------------
(* Properties                                                              *)

\* At most one process gets past hasLockfile.
MutualExclusion ==
  \A p, q \in Procs : pc[p] \in Locked /\ pc[q] \in Locked => p = q

\* hasLockfile, in four system calls, does what it is for: it lets one process
\* in, and it refuses a process only because of another one that is there, never
\* because of a file or a handle that is left over.
Presence(p) ==
  CASE pc[p] \in Locked -> "inside"
    [] pc[p] \in {"off", "refused"} -> pc[p]
    [] OTHER -> "trying"

Instance == INSTANCE OneInstance WITH state <- [p \in Procs |-> Presence(p)]

OneInstanceSpec == Instance!Spec

\* All heartbeats ever sent from this machine carry the same uuid, however
\* often the program is started and ended.
UuidStable == \A u, v \in ran : u = v

\* They carry an empty or broken one only if the program ended in the middle
\* of writing the file, once.
CutExplained == Cut \in ran => cut

\* Mutual refusal does not last: if starts go on and no process is killed any
\* more, one of them runs.  A lock file left over by an earlier process is no
\* obstacle.
Calm == <>[][\A p \in Procs : ~Kill(p)]_vars
SomebodyRuns ==
  Calm => ([]<>(\E p \in Procs : pc[p] # "off")
             => []<>(\E p \in Procs : pc[p] = "run"))

==============================================================================
