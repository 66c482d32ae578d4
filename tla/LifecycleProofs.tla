--------------------------- MODULE LifecycleProofs ---------------------------
(***************************************************************************)
(* Proofs about Lifecycle, for any number of processes and of requests.    *)
(***************************************************************************)
EXTENDS Lifecycle, TLAPS

\* run() is between the opening and the closing of the handle
Inside == {"load", "login", "server", "heartbeat", "collect", "select",
           "shutdown", "cancel", "wait", "unlock"}
Ending == {"shutdown", "cancel", "wait", "unlock", "done"}

Serving(p) == server[p] \in {"start", "listen"}
Live(p, j) == job[p][j] \in {"select", "work", "send"}
One(b) == IF b THEN 1 ELSE 0

\* Each goroutine is counted from its start to its end, and there is nothing
\* left to count when run() passes its wait.
CountOK(p) ==
  /\ wg[p] = One(Serving(p)) + One(Live(p, "heartbeat")) + One(Live(p, "collect"))
  /\ run[p] \in {"unlock", "done"} => wg[p] = 0

\* What exists at each place of run().
PlaceOK(p) ==
  /\ main[p] = "off" => run[p] = "off"
  /\ holds[p] <=> run[p] \in Inside
  /\ server[p] # "off" <=> run[p] \in {"heartbeat", "collect", "select"} \cup Ending
  /\ requests[p] > 0 => run[p] \in {"heartbeat", "collect", "select", "shutdown"}
  /\ slow[p] <= requests[p]
  /\ job[p]["heartbeat"] # "off" <=> run[p] \in {"collect", "select"} \cup Ending
  /\ job[p]["collect"] # "off" <=> run[p] \in {"select"} \cup Ending

LockOK == \A p, q \in Procs : holds[p] /\ holds[q] => p = q

IInv == TypeOK /\ LockOK /\ \A p \in Procs : CountOK(p) /\ PlaceOK(p)

\* A step of one process leaves what another process has alone.
Untouched(q) ==
  /\ main'[q] = main[q]
  /\ run'[q] = run[q]
  /\ holds'[q] = holds[q]
  /\ server'[q] = server[q]
  /\ requests'[q] = requests[q]
  /\ slow'[q] = slow[q]
  /\ job'[q] = job[q]
  /\ wg'[q] = wg[q]

\* What a step of p has to establish: its own part of the invariant.
Good(p) ==
  /\ TypeOK'
  /\ CountOK(p)'
  /\ PlaceOK(p)'
  /\ \A q \in Procs \ {p} : Untouched(q)
  /\ holds'[p] => holds[p] \/ \A q \in Procs : ~holds[q]

LEMMA OthersStep ==
  ASSUME IInv, NEW p \in Procs, Good(p)
  PROVE  IInv'
<1>1. ASSUME NEW q \in Procs \ {p} PROVE CountOK(q)' /\ PlaceOK(q)'
  BY <1>1 DEF IInv, Good, Untouched, CountOK, PlaceOK, Serving, Live
<1>2. LockOK'
  BY DEF IInv, Good, Untouched, LockOK
<1> QED
  BY <1>1, <1>2 DEF IInv, Good

LEMMA DieStep ==
  ASSUME IInv, NEW p \in Procs, Die(p)
  PROVE  Good(p)
BY LifecycleAssumption DEF IInv, Die, Good, TypeOK, CountOK, PlaceOK, Untouched,
  Serving, Live, One, NoJobs, Jobs, Inside, Ending

LEMMA RunStep ==
  ASSUME IInv, NEW p \in Procs, Run(p)
  PROVE  Good(p)
<1> USE DEF IInv, Good, TypeOK, CountOK, PlaceOK, Untouched, Serving, Live, One,
        Goto, http, Inside, Ending
<1>1. CASE TakeLock(p)
  BY <1>1 DEF TakeLock
<1>2. CASE Refused(p)
  BY <1>2 DEF Refused
<1>3. CASE Load(p)
  BY <1>3 DEF Load
<1>4. CASE AutoLogin(p)
  BY <1>4 DEF AutoLogin
<1>5. CASE StartServer(p)
  <2>1. wg[p] = 0 /\ job[p]["heartbeat"] = "off" /\ job[p]["collect"] = "off"
    BY <1>5 DEF StartServer, Jobs
  <2>2. wg' = [wg EXCEPT ![p] = 1]
    BY <1>5, <2>1 DEF StartServer, Add
  <2> QED
    BY <1>5, <2>1, <2>2 DEF StartServer
<1>6. CASE StartHeartbeat(p)
  <2>1. job[p]["heartbeat"] = "off" /\ job[p]["collect"] = "off" /\ wg[p] \in {0, 1}
    BY <1>6 DEF StartHeartbeat, Jobs
  <2>2. wg' = [wg EXCEPT ![p] = wg[p] + 1]
    BY <1>6 DEF StartHeartbeat, Add
  <2>3. job' = [job EXCEPT ![p]["heartbeat"] = "select"]
    BY <1>6 DEF StartHeartbeat, SetJob
  <2> QED
    BY <1>6, <2>1, <2>2, <2>3 DEF StartHeartbeat, Jobs
<1>7. CASE StartCollect(p)
  BY <1>7 DEF StartCollect, Add, SetJob, Jobs
<1>8. CASE HearExit(p)
  BY <1>8 DEF HearExit
<1>9. CASE ShutdownReturns(p)
  BY <1>9 DEF ShutdownReturns
<1>10. CASE Cancel(p)
  BY <1>10 DEF Cancel
<1>11. CASE WaitReturns(p)
  BY <1>11 DEF WaitReturns
<1>12. CASE Unlock(p)
  BY <1>12 DEF Unlock
<1>13. CASE GiveUp(p)
  BY <1>13, DieStep DEF GiveUp
<1> HIDE DEF IInv, Good
<1> QED
  BY <1>1, <1>2, <1>3, <1>4, <1>5, <1>6, <1>7, <1>8, <1>9, <1>10, <1>11, <1>12, <1>13
     DEF Run

LEMMA MainStep ==
  ASSUME IInv, NEW p \in Procs,
         Start(p) \/ Stop(p) \/ CloseConn(p) \/ MainReturns(p) \/ Kill(p) \/ StartFails(p)
  PROVE  Good(p)
<1> USE DEF IInv, Good, TypeOK, CountOK, PlaceOK, Untouched, Serving, Live, One,
        Goto, http, Inside, Ending
<1>1. CASE Start(p)
  BY <1>1 DEF Start
<1>2. CASE Stop(p)
  BY <1>2 DEF Stop
<1>3. CASE CloseConn(p)
  BY <1>3 DEF CloseConn
<1>4. CASE MainReturns(p) \/ Kill(p) \/ StartFails(p)
  BY <1>4, DieStep DEF MainReturns, Kill, StartFails
<1> HIDE DEF IInv, Good
<1> QED
  BY <1>1, <1>2, <1>3, <1>4

LEMMA ServerStep ==
  ASSUME IInv, NEW p \in Procs,
         Listen(p) \/ ServeReturns(p) \/ AcceptRequest(p) \/ ClientEnds(p) \/ AnswerRequest(p)
  PROVE  Good(p)
<1> USE LifecycleAssumption DEF IInv, Good, TypeOK, CountOK, PlaceOK, Untouched,
        Serving, Live, One, ShuttingDown, Inside, Ending
<1>1. CASE Listen(p)
  BY <1>1 DEF Listen
<1>2. CASE ServeReturns(p)
  BY <1>2 DEF ServeReturns, Done
<1>3. CASE AcceptRequest(p)
  BY <1>3 DEF AcceptRequest
<1>4. CASE ClientEnds(p)
  BY <1>4 DEF ClientEnds
<1>5. CASE AnswerRequest(p)
  BY <1>5 DEF AnswerRequest
<1> HIDE DEF IInv, Good
<1> QED
  BY <1>1, <1>2, <1>3, <1>4, <1>5

LEMMA JobStep ==
  ASSUME IInv, NEW p \in Procs, NEW j \in Jobs,
         Tick(p, j) \/ Finish(p, j) \/ SeeDone(p, j) \/ Send(p) \/ Sent(p)
  PROVE  Good(p)
<1> USE DEF IInv, Good, TypeOK, CountOK, PlaceOK, Untouched, Serving, Live, One,
        Jobs, SetJob, http, Inside, Ending
<1>1. CASE Tick(p, j)
  BY <1>1 DEF Tick
<1>2. CASE Finish(p, j)
  BY <1>2 DEF Finish
<1>3. CASE SeeDone(p, j)
  BY <1>3 DEF SeeDone, Cancelled, Done
<1>4. CASE Send(p)
  BY <1>4 DEF Send
<1>5. CASE Sent(p)
  BY <1>5 DEF Sent
<1> HIDE DEF IInv, Good
<1> QED
  BY <1>1, <1>2, <1>3, <1>4, <1>5

\* Each goroutine of each process is counted, and the handle is closed last,
\* in every reachable state.
THEOREM Invariance == Spec => []IInv
<1>1. Init => IInv
  BY LifecycleAssumption DEF Init, IInv, TypeOK, LockOK, CountOK, PlaceOK,
    Serving, Live, One, NoJobs, Jobs, Inside, Ending
<1>2. IInv /\ [Next]_vars => IInv'
  <2> SUFFICES ASSUME IInv, [Next]_vars PROVE IInv'
    OBVIOUS
  <2>1. CASE UNCHANGED vars
    BY <2>1 DEF IInv, vars, TypeOK, LockOK, CountOK, PlaceOK, Serving, Live
  <2>2. CASE Next
    <3>1. PICK p \in Procs :
             \/ Run(p)
             \/ Start(p) \/ Stop(p) \/ CloseConn(p) \/ MainReturns(p) \/ Kill(p) \/ StartFails(p)
             \/ Listen(p) \/ ServeReturns(p) \/ AcceptRequest(p) \/ ClientEnds(p) \/ AnswerRequest(p)
             \/ \E j \in Jobs :
                  Tick(p, j) \/ Finish(p, j) \/ SeeDone(p, j) \/ Send(p) \/ Sent(p)
      BY <2>2, Zenon DEF Next, Jobs
    <3>2. Good(p)
      BY <3>1, RunStep, MainStep, ServerStep, JobStep
    <3> QED
      BY <3>2, OthersStep
  <2> QED
    BY <2>1, <2>2
<1> QED
  BY <1>1, <1>2, PTL DEF Spec

\* No two of any number of processes work on the files of the collector at
\* once, however start, shutdown and crash of the one overlap with the other:
\* whoever works still has the handle.
THEOREM NeverTogether == Spec => []Alone
<1>1. IInv => Alone
  <2> SUFFICES ASSUME IInv, NEW p \in Procs, Works(p) PROVE holds[p]
    BY DEF IInv, LockOK, Alone
  <2>1. CASE run[p] \in {"load", "login"} \/ requests[p] > 0
    BY <2>1 DEF IInv, PlaceOK, Inside
  <2>2. ASSUME NEW j \in Jobs, job[p][j] \in {"work", "send"} PROVE holds[p]
    BY <2>2 DEF IInv, TypeOK, CountOK, PlaceOK, Serving, Live, One, Jobs, Inside, Ending
  <2> QED
    BY <2>1, <2>2 DEF Works
<1> QED
  BY <1>1, Invariance, PTL

\* The wait of run() ends when the server and the jobs have ended, no sooner and
\* not in vain (Lifecycle.WaitIsExact).
THEOREM WaitAlwaysExact == Spec => []WaitIsExact
<1>1. IInv => WaitIsExact
  <2> SUFFICES ASSUME IInv, NEW p \in Procs, run[p] \in {"wait", "unlock", "done"}
               PROVE  wg[p] = 0 <=> server[p] = "closed" /\ \A j \in Jobs : job[p][j] = "done"
    BY DEF WaitIsExact
  <2>1. wg[p] = 0 <=> ~Serving(p) /\ \A j \in Jobs : ~Live(p, j)
    BY DEF IInv, CountOK, One, Jobs
  <2>2. ~Serving(p) <=> server[p] = "closed"
    BY DEF IInv, TypeOK, PlaceOK, Serving, Ending
  <2>3. \A j \in Jobs : ~Live(p, j) <=> job[p][j] = "done"
    BY DEF IInv, TypeOK, PlaceOK, Live, Jobs, Ending
  <2> QED
    BY <2>1, <2>2, <2>3
<1> QED
  BY <1>1, Invariance, PTL

\* Every step of main(), run(), the server and the jobs keeps to the types; the
\* counter of the wait group never falls below zero, where it would panic.
THEOREM TypeCorrect == Spec => []TypeOK
<1>1. IInv => TypeOK
  BY DEF IInv
<1> QED
  BY <1>1, Invariance, PTL

==============================================================================
