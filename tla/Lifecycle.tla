------------------------------ MODULE Lifecycle ------------------------------
(***************************************************************************)
(* A collector process from its start to its end (program.go): Start, run, *)
(* startServer, startCronJob and Stop, in several processes at once.       *)
(*                                                                         *)
(* main() blocks in the service package, which calls Start and later Stop; *)
(* when Stop returns, main() returns and the process is gone.  Start only  *)
(* starts the goroutine run(), which takes the lock, starts the HTTP       *)
(* server and the two cron jobs, and then waits for the exit signal that   *)
(* Stop gives.  The lock file keeps a second collector out until run()     *)
(* closes its handle or the process ends.                                  *)
(*                                                                         *)
(* Module Startup has the steps in which the lock file is taken, and shows *)
(* that they let one process in at a time; here they are one step,         *)
(* TakeLock.  What the jobs do is in module Collect, and what the handlers *)
(* do in module Session.                                                   *)
(***************************************************************************)
EXTENDS Naturals

CONSTANTS
  Procs,       \* the processes
  MaxRequests  \* bound: HTTP requests under way in a process

ASSUME LifecycleAssumption == MaxRequests \in Nat

Jobs == {"heartbeat", "collect"}

VARIABLES
  main,      \* where main() is: in Start's wait, in Stop, or about to return
  run,       \* where run() is
  holds,     \* the process has the handle of the lock file
  server,    \* the goroutine of ListenAndServe
  requests,  \* the requests the HTTP server has accepted and not answered
  slow,      \* how many of them their clients have not sent to the end
  job,       \* the goroutine of each cron job
  wg         \* the counter of the wait group

vars == <<main, run, holds, server, requests, slow, job, wg>>
http == <<server, requests, slow>>

TypeOK ==
  /\ main \in [Procs -> {"off", "serve", "close", "return"}]
  /\ run \in [Procs -> {"off", "lock", "refused", "load", "login", "server",
                        "heartbeat", "collect", "select", "shutdown", "cancel",
                        "wait", "unlock", "done"}]
  /\ holds \in [Procs -> BOOLEAN]
  /\ server \in [Procs -> {"off", "start", "listen", "closed"}]
  /\ requests \in [Procs -> 0 .. MaxRequests]
  /\ slow \in [Procs -> 0 .. MaxRequests]
  /\ job \in [Procs -> [Jobs -> {"off", "select", "work", "send", "done"}]]
  /\ wg \in [Procs -> 0 .. 3]  \* WaitGroup panics below 0

NoJobs == [j \in Jobs |-> "off"]

Init ==
  /\ main = [p \in Procs |-> "off"]
  /\ run = [p \in Procs |-> "off"]
  /\ holds = [p \in Procs |-> FALSE]
  /\ server = [p \in Procs |-> "off"]
  /\ requests = [p \in Procs |-> 0]
  /\ slow = [p \in Procs |-> 0]
  /\ job = [p \in Procs |-> NoJobs]
  /\ wg = [p \in Procs |-> 0]

\* The process ends, and with it all goroutines.  The operating system closes
\* its handles.
Die(p) ==
  /\ main' = [main EXCEPT ![p] = "off"]
  /\ run' = [run EXCEPT ![p] = "off"]
  /\ holds' = [holds EXCEPT ![p] = FALSE]
  /\ server' = [server EXCEPT ![p] = "off"]
  /\ requests' = [requests EXCEPT ![p] = 0]
  /\ slow' = [slow EXCEPT ![p] = 0]
  /\ job' = [job EXCEPT ![p] = NoJobs]
  /\ wg' = [wg EXCEPT ![p] = 0]

Goto(p, l) == run' = [run EXCEPT ![p] = l]
Add(p) == wg' = [wg EXCEPT ![p] = @ + 1]
Done(p) == wg' = [wg EXCEPT ![p] = @ - 1]
SetJob(p, j, s) == job' = [job EXCEPT ![p][j] = s]

\* cancel() has been called
Cancelled(p) == run[p] \in {"wait", "unlock", "done"}

-----------------------------------------------------------------------------
(* main(), and whoever starts, stops or kills the process.                 *)

\* Start: `go p.run()'
Start(p) ==
  /\ main[p] = "off"
  /\ main' = [main EXCEPT ![p] = "serve"]
  /\ Goto(p, "lock")
  /\ UNCHANGED <<holds, http, job, wg>>

\* Stop closes the channel exit ...
Stop(p) ==
  /\ main[p] = "serve"
  /\ main' = [main EXCEPT ![p] = "close"]
  /\ UNCHANGED <<run, holds, http, job, wg>>

\* ... then the gRPC connection
CloseConn(p) ==
  /\ main[p] = "close"
  /\ main' = [main EXCEPT ![p] = "return"]
  /\ UNCHANGED <<run, holds, http, job, wg>>

\* Stop has returned, then Run and main() do
MainReturns(p) == main[p] = "return" /\ Die(p)

\* a panic in a job, or an end from outside
Kill(p) == main[p] # "off" /\ Die(p)

-----------------------------------------------------------------------------
(* run()                                                                   *)

TakeLock(p) ==
  /\ run[p] = "lock"
  /\ \A q \in Procs : ~holds[q]
  /\ holds' = [holds EXCEPT ![p] = TRUE]
  /\ Goto(p, "load")
  /\ UNCHANGED <<main, http, job, wg>>

\* A process that is only about to take the lock can be in the way too.
Refused(p) ==
  /\ run[p] = "lock"
  /\ \E q \in Procs \ {p} : holds[q] \/ run[q] = "lock"
  /\ Goto(p, "refused")
  /\ UNCHANGED <<main, holds, http, job, wg>>

\* "A collector process is already running": os.Exit
GiveUp(p) == run[p] = "refused" /\ Die(p)

Load(p) ==
  /\ run[p] = "load"
  /\ Goto(p, "login")
  /\ UNCHANGED <<main, holds, http, job, wg>>

\* loginByFile, if there is a file
AutoLogin(p) ==
  /\ run[p] = "login"
  /\ Goto(p, "server")
  /\ UNCHANGED <<main, holds, http, job, wg>>

\* load or loginByFile returns an error: os.Exit
StartFails(p) == run[p] \in {"load", "login"} /\ Die(p)

StartServer(p) ==
  /\ run[p] = "server"
  /\ server' = [server EXCEPT ![p] = "start"]
  /\ Add(p)
  /\ Goto(p, "heartbeat")
  /\ UNCHANGED <<main, holds, requests, slow, job>>

StartHeartbeat(p) ==
  /\ run[p] = "heartbeat"
  /\ SetJob(p, "heartbeat", "select")
  /\ Add(p)
  /\ Goto(p, "collect")
  /\ UNCHANGED <<main, holds, http>>

\* a slip: wg.Add is left out
StartCollect_NoAdd(p) ==
  /\ run[p] = "collect"
  /\ SetJob(p, "collect", "select")
  /\ Goto(p, "select")
  /\ UNCHANGED <<main, holds, http, wg>>

StartCollect(p) ==
  /\ run[p] = "collect"
  /\ SetJob(p, "collect", "select")
  /\ Add(p)
  /\ Goto(p, "select")
  /\ UNCHANGED <<main, holds, http>>

\* <-p.exit, then Shutdown closes the listener
HearExit(p) ==
  /\ run[p] = "select"
  /\ main[p] \in {"close", "return"}
  /\ Goto(p, "shutdown")
  /\ UNCHANGED <<main, holds, http, job, wg>>

\* a slip: Close instead of Shutdown, which does not wait for the handlers
ShutdownReturns_Close(p) ==
  /\ run[p] = "shutdown"
  /\ Goto(p, "cancel")
  /\ UNCHANGED <<main, holds, http, job, wg>>

\* Shutdown returns when no request is under way; its context, Background(),
\* sets it no deadline.
ShutdownReturns(p) ==
  /\ run[p] = "shutdown"
  /\ requests[p] = 0
  /\ Goto(p, "cancel")
  /\ UNCHANGED <<main, holds, http, job, wg>>

Cancel(p) ==
  /\ run[p] = "cancel"
  /\ Goto(p, "wait")
  /\ UNCHANGED <<main, holds, http, job, wg>>

\* wg.Wait returns
WaitReturns(p) ==
  /\ run[p] = "wait"
  /\ wg[p] = 0
  /\ Goto(p, "unlock")
  /\ UNCHANGED <<main, holds, http, job, wg>>

\* CloseHandle
Unlock(p) ==
  /\ run[p] = "unlock"
  /\ holds' = [holds EXCEPT ![p] = FALSE]
  /\ Goto(p, "done")
  /\ UNCHANGED <<main, http, job, wg>>

Run(p) ==
  \/ TakeLock(p)
  \/ Refused(p)
  \/ GiveUp(p)
  \/ Load(p)
  \/ AutoLogin(p)
  \/ StartServer(p)
  \/ StartHeartbeat(p)
  \/ StartCollect(p)
  \/ HearExit(p)
  \/ ShutdownReturns(p)
  \/ Cancel(p)
  \/ WaitReturns(p)
  \/ Unlock(p)

-----------------------------------------------------------------------------
(* The goroutines of the HTTP server.  What they do under Shutdown is the  *)
(* contract of net/http: no request is accepted any more, and              *)
(* ListenAndServe returns, also when it is called later.                   *)

ShuttingDown(p) == run[p] \in {"shutdown", "cancel", "wait", "unlock", "done"}

Listen(p) ==
  /\ server[p] = "start"
  /\ ~ShuttingDown(p)
  /\ server' = [server EXCEPT ![p] = "listen"]
  /\ UNCHANGED <<main, run, holds, requests, slow, job, wg>>

\* a slip: when the server does not start, Done is not called
ServeReturns_NotDone(p) ==
  /\ \/ server[p] = "start" /\ UNCHANGED wg
     \/ server[p] = "listen" /\ ShuttingDown(p) /\ Done(p)
  /\ server' = [server EXCEPT ![p] = "closed"]
  /\ UNCHANGED <<main, run, holds, requests, slow, job>>

\* ListenAndServe returns: the address is in use, or the server is shut down.
\* The process goes on without a server in the first case.
ServeReturns(p) ==
  /\ \/ server[p] = "start"
     \/ server[p] = "listen" /\ ShuttingDown(p)
  /\ server' = [server EXCEPT ![p] = "closed"]
  /\ Done(p)
  /\ UNCHANGED <<main, run, holds, requests, slow, job>>

\* A connection has begun to send a request.
AcceptRequest(p) ==
  /\ server[p] = "listen"
  /\ ~ShuttingDown(p)
  /\ requests[p] < MaxRequests
  /\ requests' = [requests EXCEPT ![p] = @ + 1]
  /\ slow' = [slow EXCEPT ![p] = @ + 1]
  /\ UNCHANGED <<main, run, holds, server, job, wg>>

\* The client has sent all of its request, or has gone.  Till then ReadEntity
\* may wait for it, and so may the end of the answer; the server is set up
\* without a time limit for either.
ClientEnds(p) ==
  /\ slow[p] > 0
  /\ slow' = [slow EXCEPT ![p] = @ - 1]
  /\ UNCHANGED <<main, run, holds, server, requests, job, wg>>

\* A handler returns, also if ReadEntity has found nothing it can read; Login
\* and Register then wait for the gateway until a deadline.
AnswerRequest(p) ==
  /\ requests[p] > slow[p]
  /\ requests' = [requests EXCEPT ![p] = @ - 1]
  /\ UNCHANGED <<main, run, holds, server, slow, job, wg>>

-----------------------------------------------------------------------------
(* startCronJob.  If both the timer and the context are ready, select      *)
(* takes either.                                                           *)

Tick(p, j) ==
  /\ job[p][j] = "select"
  /\ SetJob(p, j, "work")
  /\ UNCHANGED <<main, run, holds, http, wg>>

\* heartbeat or collect returns, and the timer is set again
Finish(p, j) ==
  /\ job[p][j] = "work"
  /\ SetJob(p, j, "select")
  /\ UNCHANGED <<main, run, holds, http, wg>>

\* collect enters the retry loop of transfer with a message ...
Send(p) ==
  /\ job[p]["collect"] = "work"
  /\ SetJob(p, "collect", "send")
  /\ UNCHANGED <<main, run, holds, http, wg>>

\* ... and leaves it when the gateway has accepted the message, for which the
\* connection must be open
Sent(p) ==
  /\ job[p]["collect"] = "send"
  /\ main[p] # "return"
  /\ SetJob(p, "collect", "work")
  /\ UNCHANGED <<main, run, holds, http, wg>>

\* a slip: the heartbeat job does not look at the context
SeeDone_Deaf(p, j) ==
  /\ job[p][j] = "select"
  /\ Cancelled(p)
  /\ j = "collect"
  /\ SetJob(p, j, "done")
  /\ Done(p)
  /\ UNCHANGED <<main, run, holds, http>>

\* a slip: Done is called, and deferred as well
SeeDone_Twice(p, j) ==
  /\ job[p][j] = "select"
  /\ Cancelled(p)
  /\ SetJob(p, j, "done")
  /\ wg' = [wg EXCEPT ![p] = @ - 2]
  /\ UNCHANGED <<main, run, holds, http>>

SeeDone(p, j) ==
  /\ job[p][j] = "select"
  /\ Cancelled(p)
  /\ SetJob(p, j, "done")
  /\ Done(p)
  /\ UNCHANGED <<main, run, holds, http>>

Next ==
  \E p \in Procs :
    \/ Start(p)
    \/ Stop(p)
    \/ CloseConn(p)
    \/ MainReturns(p)
    \/ Kill(p)
    \/ Run(p)
    \/ StartFails(p)
    \/ Listen(p)
    \/ ServeReturns(p)
    \/ AcceptRequest(p)
    \/ ClientEnds(p)
    \/ AnswerRequest(p)
    \/ \E j \in Jobs : Tick(p, j) \/ Finish(p, j) \/ SeeDone(p, j)
    \/ Send(p)
    \/ Sent(p)

Spec == Init /\ [][Next]_vars

(* The goroutines are scheduled.  Select takes each ready case in the end  *)
(* if it is offered again and again.  A cycle of collect is over after     *)
(* finitely many messages.  Nothing is assumed of the gateway, of HTTP     *)
(* clients, of main(), and of who starts and kills processes.              *)
Fairness ==
  \A p \in Procs :
    /\ WF_vars(Run(p))
    /\ WF_vars(ServeReturns(p) /\ ShuttingDown(p))
    /\ WF_vars(AnswerRequest(p))
    /\ \A j \in Jobs : SF_vars(SeeDone(p, j)) /\ SF_vars(Finish(p, j))

FairSpec == Spec /\ Fairness

-----------------------------------------------------------------------------
\* The process uses the files of the collector: uuid.dat and login.dat in
\* run(), login.dat in a handler, the data folder and login.dat in a job.
Works(p) ==
  \/ run[p] \in {"load", "login"}
  \/ requests[p] > 0
  \/ \E j \in Jobs : job[p][j] \in {"work", "send"}

(* No two processes use the files of the collector at the same time, also  *)
(* while one is shutting down: the handle of the lock file is closed only  *)
(* after the server, the handlers and the jobs have ended (program.go,     *)
(* lines 291 to 301).                                                      *)
Alone == \A p, q \in Procs : Works(p) /\ Works(q) => p = q

(* The wait of run() is for the server and the jobs, and for nothing else: *)
(* in whatever order they end, and whether the server ever came to listen, *)
(* the counter is zero exactly when all three have ended.  No Add is       *)
(* missing that would end the wait early, and no Done that would make it   *)
(* one for nobody.                                                         *)
WaitIsExact ==
  \A p \in Procs : run[p] \in {"wait", "unlock", "done"} =>
    (wg[p] = 0 <=> server[p] = "closed" /\ \A j \in Jobs : job[p][j] = "done")

(* Two things can keep the shutdown of run() from coming to its end, and   *)
(* each at one place: Shutdown waits for a client that does not send the   *)
(* rest of its request (there is no time limit, program.go, lines 195 and  *)
(* 292), and the wait for the goroutines lasts as long as the endless      *)
(* retry of a message does (jobs.go, transfer).                            *)
OnlyTheseBlock ==
  \A p \in Procs :
    /\ <>[](run[p] = "shutdown") => <>[](slow[p] > 0)
    /\ <>[](run[p] \in {"cancel", "wait", "unlock"}) => <>[](job[p]["collect"] = "send")

(* "wait for all the goroutines exit" (program.go, line 297): when the     *)
(* process ends because Stop was called, the HTTP server and the jobs have *)
(* ended before.                                                           *)
GoroutinesAwaited ==
  [][\A p \in Procs : MainReturns(p) => wg[p] = 0]_vars

==============================================================================
