---------------------------- MODULE StartupProofs ----------------------------
(***************************************************************************)
(* Proofs about Startup, for any number of processes.                      *)
(***************************************************************************)
EXTENDS Startup, TLAPS

\* A handle is open exactly where the code holds it, and whoever has the lock
\* file for himself is alone with it.
HandleOK ==
  /\ \A p \in Procs : handle[p] = "create" <=> pc[p] = "close"
  /\ \A p \in Procs : handle[p] = "hold" <=> pc[p] \in Locked
  /\ \A p, q \in Procs : handle[p] = "hold" /\ handle[q] # "none" => p = q

\* The file is the only source of the uuid, and load is alone with it.
UuidOK ==
  /\ uuidFile = Absent => ran = {}
  /\ \A u \in ran : u = uuidFile
  /\ \A p \in Procs :
       /\ pc[p] = "generate" => uuidFile = Absent
       /\ pc[p] = "write" => uuidFile = Cut /\ ran = {}
       /\ pc[p] = "read" => uuidFile # Absent

IInv == TypeOK /\ HandleOK /\ UuidOK

LEMMA TypeStep == TypeOK /\ UuidOK /\ [Next]_vars => TypeOK'
<1> SUFFICES ASSUME TypeOK, UuidOK, [Next]_vars PROVE TypeOK'
  OBVIOUS
<1> USE StartupAssumption DEF TypeOK, Locked, Goto, SetHandle, lock, identity
<1>1. ASSUME NEW p \in Procs, Exit(p) PROVE TypeOK'
  BY <1>1 DEF Exit
<1>2. ASSUME NEW p \in Procs, Launch(p) \/ CheckLock(p) \/ CheckUuid(p) \/ Refused(p) PROVE TypeOK'
  BY <1>2 DEF Launch, CheckLock, CheckUuid, Refused
<1>3. ASSUME NEW p \in Procs, CreateLock(p) \/ CloseLock(p) \/ TakeLock(p) PROVE TypeOK'
  BY <1>3 DEF CreateLock, CloseLock, TakeLock
<1>4. ASSUME NEW p \in Procs, ReadUuid(p) PROVE TypeOK'
  BY <1>4 DEF ReadUuid, UuidOK
<1>5. ASSUME NEW p \in Procs, CreateUuid(p) PROVE TypeOK'
  BY <1>5 DEF CreateUuid
<1>6. ASSUME NEW p \in Procs, NEW u \in Uuids, WriteUuid(p, u) PROVE TypeOK'
  BY <1>6 DEF WriteUuid
<1>7. CASE UNCHANGED vars
  BY <1>7 DEF vars
<1> QED
  BY <1>1, <1>2, <1>3, <1>4, <1>5, <1>6, <1>7 DEF Next, Start, GiveUp, Kill

LEMMA HandleStep == TypeOK /\ HandleOK /\ [Next]_vars => HandleOK'
<1> SUFFICES ASSUME TypeOK, HandleOK, [Next]_vars PROVE HandleOK'
  OBVIOUS
<1> USE DEF TypeOK, HandleOK, Locked, Goto, SetHandle, lock
<1>1. ASSUME NEW p \in Procs, Exit(p) PROVE HandleOK'
  BY <1>1 DEF Exit
<1>2. ASSUME NEW p \in Procs, Launch(p) \/ CheckLock(p) \/ CheckUuid(p) \/ Refused(p) PROVE HandleOK'
  BY <1>2 DEF Launch, CheckLock, CheckUuid, Refused
<1>3. ASSUME NEW p \in Procs, CreateLock(p) PROVE HandleOK'
  BY <1>3 DEF CreateLock, MayCreate
<1>4. ASSUME NEW p \in Procs, CloseLock(p) PROVE HandleOK'
  BY <1>4 DEF CloseLock
<1>5. ASSUME NEW p \in Procs, TakeLock(p) PROVE HandleOK'
  BY <1>5 DEF TakeLock, MayHold
<1>6. ASSUME NEW p \in Procs, ReadUuid(p) \/ CreateUuid(p) PROVE HandleOK'
  BY <1>6 DEF ReadUuid, CreateUuid
<1>7. ASSUME NEW p \in Procs, NEW u \in Uuids, WriteUuid(p, u) PROVE HandleOK'
  BY <1>7 DEF WriteUuid
<1>8. CASE UNCHANGED vars
  BY <1>8 DEF vars
<1> QED
  BY <1>1, <1>2, <1>3, <1>4, <1>5, <1>6, <1>7, <1>8 DEF Next, Start, GiveUp, Kill

\* The handles keep two processes from being past hasLockfile together.
LEMMA Alone == HandleOK => MutualExclusion
BY DEF HandleOK, MutualExclusion

LEMMA UuidStep == TypeOK /\ HandleOK /\ UuidOK /\ [Next]_vars => UuidOK'
<1> SUFFICES ASSUME TypeOK, HandleOK, UuidOK, [Next]_vars PROVE UuidOK'
  OBVIOUS
<1> USE StartupAssumption DEF TypeOK, UuidOK, Goto, lock, identity
<1>1. MutualExclusion
  BY Alone
<1>2. ASSUME NEW p \in Procs, Exit(p) PROVE UuidOK'
  BY <1>2 DEF Exit
<1>3. ASSUME NEW p \in Procs, Launch(p) \/ CheckLock(p) \/ CheckUuid(p) \/ Refused(p) PROVE UuidOK'
  BY <1>3 DEF Launch, CheckLock, CheckUuid, Refused
<1>4. ASSUME NEW p \in Procs, CreateLock(p) \/ CloseLock(p) \/ TakeLock(p) PROVE UuidOK'
  BY <1>4 DEF CreateLock, CloseLock, TakeLock
<1>5. ASSUME NEW p \in Procs, ReadUuid(p) PROVE UuidOK'
  <2>1. \A q \in Procs : pc'[q] \notin {"generate", "write"}
    BY <1>1, <1>5 DEF ReadUuid, MutualExclusion, Locked
  <2> QED
    BY <1>5, <2>1 DEF ReadUuid
<1>6. ASSUME NEW p \in Procs, CreateUuid(p) PROVE UuidOK'
  <2>1. \A q \in Procs \ {p} : pc'[q] \notin Locked
    BY <1>1, <1>6 DEF CreateUuid, MutualExclusion, Locked
  <2> QED
    BY <1>6, <2>1 DEF CreateUuid, Locked
<1>7. ASSUME NEW p \in Procs, NEW u \in Uuids, WriteUuid(p, u) PROVE UuidOK'
  <2>1. \A q \in Procs \ {p} : pc'[q] \notin Locked
    BY <1>1, <1>7 DEF WriteUuid, MutualExclusion, Locked
  <2> QED
    BY <1>7, <2>1 DEF WriteUuid, Locked
<1>8. CASE UNCHANGED vars
  BY <1>8 DEF vars
<1> QED
  BY <1>2, <1>3, <1>4, <1>5, <1>6, <1>7, <1>8 DEF Next, Start, GiveUp, Kill

\* Handles and pc agree, and the uuid in use is the one in the file, in every
\* reachable state.
THEOREM Invariance == Spec => []IInv
<1>1. Init => IInv
  BY StartupAssumption DEF Init, IInv, TypeOK, HandleOK, UuidOK, Locked
<1>2. IInv /\ [Next]_vars => IInv'
  BY TypeStep, HandleStep, UuidStep DEF IInv
<1> QED
  BY <1>1, <1>2, PTL DEF Spec

\* hasLockfile lets at most one of any number of processes go on, whatever
\* way they race and wherever they end.
THEOREM OneCollector == Spec => []MutualExclusion
<1>1. IInv => MutualExclusion
  BY Alone DEF IInv
<1> QED
  BY <1>1, Invariance, PTL

\* The machine has one uuid for ever.  This rests on OneCollector: load would
\* generate two if two processes were in it together.
THEOREM OneUuid == Spec => []UuidStable
<1>1. IInv => UuidStable
  BY DEF IInv, UuidOK, UuidStable
<1> QED
  BY <1>1, Invariance, PTL

\* Every start and every step of hasLockfile and load keeps to the types.
THEOREM TypeCorrect == Spec => []TypeOK
<1>1. IInv => TypeOK
  BY DEF IInv
<1> QED
  BY <1>1, Invariance, PTL

\* While no write was interrupted, only the process that is writing the file
\* can find it empty.
CutOK == ~cut => Cut \notin ran /\ (uuidFile = Cut => \E p \in Procs : pc[p] = "write")

LEMMA CutStep == IInv /\ CutOK /\ [Next]_vars => CutOK'
<1> SUFFICES ASSUME IInv, CutOK, [Next]_vars PROVE CutOK'
  OBVIOUS
<1> USE StartupAssumption DEF IInv, TypeOK, CutOK, Goto, lock, identity
<1>1. MutualExclusion
  BY Alone
<1>2. ASSUME NEW p \in Procs, Exit(p) PROVE CutOK'
  BY <1>2 DEF Exit
<1>3. ASSUME NEW p \in Procs, Launch(p) \/ CheckLock(p) \/ CheckUuid(p) \/ Refused(p)
      PROVE  CutOK'
  BY <1>3 DEF Launch, CheckLock, CheckUuid, Refused
<1>4. ASSUME NEW p \in Procs, CreateLock(p) \/ CloseLock(p) \/ TakeLock(p) PROVE CutOK'
  BY <1>4 DEF CreateLock, CloseLock, TakeLock
<1>5. ASSUME NEW p \in Procs, ReadUuid(p) PROVE CutOK'
  <2>1. \A q \in Procs : pc[q] # "write"
    BY <1>1, <1>5 DEF ReadUuid, MutualExclusion, Locked
  <2> QED
    BY <1>5, <2>1 DEF ReadUuid
<1>6. ASSUME NEW p \in Procs, CreateUuid(p) PROVE CutOK'
  BY <1>6 DEF CreateUuid
<1>7. ASSUME NEW p \in Procs, NEW u \in Uuids, WriteUuid(p, u) PROVE CutOK'
  BY <1>7 DEF WriteUuid
<1>8. CASE UNCHANGED vars
  BY <1>8 DEF vars
<1> QED
  BY <1>2, <1>3, <1>4, <1>5, <1>6, <1>7, <1>8 DEF Next, Start, GiveUp, Kill

\* An empty or broken uuid was used only after a write of the file that the end
\* of the process interrupted.
THEOREM CutIsExplained == Spec => []CutExplained
<1>1. Init => CutOK
  BY StartupAssumption DEF Init, CutOK
<1>2. CutOK => CutExplained
  BY DEF CutOK, CutExplained
<1> QED
  BY <1>1, <1>2, CutStep, Invariance, PTL DEF Spec

-----------------------------------------------------------------------------
(* hasLockfile implements OneInstance.                                     *)

\* A step that changes the presence of one process only is a step of the
\* abstract specification, if the change is allowed.
LEMMA PresenceStep ==
  ASSUME NEW p \in Procs, NEW s,
         Presence(p)' = s, \A q \in Procs \ {p} : Presence(q)' = Presence(q)
  PROVE  Instance!Become(p, s)
BY DEF Instance!Become

LEMMA InstanceStep == IInv /\ [Next]_vars => [Instance!Next]_[p \in Procs |-> Presence(p)]
<1> SUFFICES ASSUME IInv, [Next]_vars
             PROVE  [Instance!Next]_[p \in Procs |-> Presence(p)]
  OBVIOUS
<1> USE DEF IInv, TypeOK, HandleOK, Locked, Goto, SetHandle
<1> DEFINE Stays == UNCHANGED [p \in Procs |-> Presence(p)]
<1>1. ASSUME NEW p \in Procs, Exit(p) PROVE Instance!Leave(p)
  BY <1>1, PresenceStep DEF Exit, Presence, Instance!Leave
<1>2. ASSUME NEW p \in Procs, Launch(p) PROVE Instance!Try(p)
  BY <1>2, PresenceStep DEF Launch, Presence, Instance!Try
<1>3. ASSUME NEW p \in Procs, TakeLock(p) PROVE Instance!Enter(p)
  <2>1. Presence(p) = "trying" /\ \A q \in Procs : Presence(q) # "inside"
    BY <1>3 DEF TakeLock, MayHold, Presence
  <2>2. Presence(p)' = "inside" /\ \A q \in Procs \ {p} : Presence(q)' = Presence(q)
    BY <1>3 DEF TakeLock, Presence
  <2> QED
    BY <2>1, <2>2, PresenceStep DEF Instance!Enter
<1>4. ASSUME NEW p \in Procs, Refused(p) PROVE Instance!Refuse(p)
  <2>1. PICK q \in Procs : handle[q] # "none"
    BY <1>4 DEF Refused, MayCreate, MayHold
  <2>2. q # p /\ Presence(q) \in {"trying", "inside"}
    BY <1>4, <2>1 DEF Refused, Presence
  <2>3. Presence(p) = "trying" /\ Presence(p)' = "refused"
    BY <1>4 DEF Refused, Presence
  <2>4. \A r \in Procs \ {p} : Presence(r)' = Presence(r)
    BY <1>4 DEF Refused, Presence
  <2> QED
    BY <2>2, <2>3, <2>4, PresenceStep DEF Instance!Refuse
<1>5. ASSUME NEW p \in Procs, CheckLock(p) \/ CreateLock(p) \/ CloseLock(p) PROVE Stays
  BY <1>5 DEF CheckLock, CreateLock, CloseLock, Presence
<1>6. ASSUME NEW p \in Procs, CheckUuid(p) \/ ReadUuid(p) \/ CreateUuid(p) PROVE Stays
  BY <1>6 DEF CheckUuid, ReadUuid, CreateUuid, Presence
<1>7. ASSUME NEW p \in Procs, NEW u \in Uuids, WriteUuid(p, u) PROVE Stays
  BY <1>7 DEF WriteUuid, Presence
<1>8. CASE UNCHANGED vars
  BY <1>8 DEF vars, Presence
<1> QED
  BY <1>1, <1>2, <1>3, <1>4, <1>5, <1>6, <1>7, <1>8
     DEF Next, Start, GiveUp, Kill, Instance!Next

\* In four system calls, hasLockfile lets one process in, and refuses a process
\* only because another one is there.
THEOREM LockImplements == Spec => OneInstanceSpec
<1>1. Init => Instance!Init
  BY DEF Init, Presence, Locked, Instance!Init
<1> QED
  BY <1>1, InstanceStep, Invariance, PTL DEF Spec, OneInstanceSpec, Instance!Spec

==============================================================================
