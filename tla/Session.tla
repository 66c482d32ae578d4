------------------------------- MODULE Session -------------------------------
(***************************************************************************)
(* Who is logged in: the Login handler and its file login.dat (login.go,   *)
(* crypto.go), loginByFile, flush and report (jobs.go), and the start of   *)
(* the process as far as it logs in (run in program.go).                   *)
(*                                                                         *)
(* The handler of each request for /login, the heartbeat job and the       *)
(* collect job are goroutines of their own.  They all write and read       *)
(* Program.user, ready and healthy, and nothing protects these.  The       *)
(* fields are written one after the other, each string in two words (its   *)
(* address and its length).  `memory' has one component for every such     *)
(* word, so that each interleaving of the writes and reads is a behaviour. *)
(* Password and UUID are left out: nobody reads the one, and the other is  *)
(* written before the goroutines start (module Startup).                   *)
(***************************************************************************)
EXTENDS Naturals, Sequences

CONSTANTS
  Accounts,   \* login id and password (and user id) of the users
  Colon,      \* those with a colon in the password
  Fickle,     \* the gateway may refuse a password it has accepted before
  Handlers,   \* goroutines that serve requests for /login
  Jobs,       \* a set of "heartbeat" and "collect"
  MaxLogins,  \* bound: how many tokens the gateway issues
  Spare,      \* bound: how many of these are kept for loginByFile
  None,       \* the zero value of a string or a number; no account
  Torn,       \* the address of one string with the length of another
  Absent,     \* login.dat does not exist
  Empty,      \* login.dat is too short to hold even the nonce
  Garbled     \* login.dat does not decrypt

ASSUME SessionAssumption ==
  /\ Colon \subseteq Accounts
  /\ Fickle \in BOOLEAN
  /\ Jobs \subseteq {"heartbeat", "collect"}
  /\ Handlers \cap (Jobs \cup {"main"}) = {}
  /\ MaxLogins \in Nat /\ Spare \in Nat
  /\ {None, Torn, Absent, Empty, Garbled} \cap Accounts = {}
  /\ None \notin 1 .. MaxLogins /\ Absent \notin {Empty, Garbled}

Threads == Handlers \cup Jobs \cup {"main"}
Tokens == 1 .. MaxLogins

\* The order in which a login writes the words.  Two slips: ready is set
\* first, and the user id is not set.
Order_ReadyFirst == <<"ready", "id1", "id2", "token1", "token2", "userId", "healthy">>
Order == <<"id1", "id2", "token1", "token2", "userId", "ready", "healthy">>
Words == {Order[i] : i \in DOMAIN Order}

VARIABLES
  up,       \* "down", "starting" (in loginByFile), or "up"
  file,     \* the content of login.dat
  memory,   \* the words of Program
  pc,       \* where each goroutine is
  account,  \* the account it is logging in with
  token,    \* the token it has got; None if the gateway refused
  stamp,    \* the UserID in the message of each job
  request,  \* the ReportRequest of each job
  issued,   \* the gateway: to whom each token was issued
  valid,    \* the gateway: the tokens it accepts
  mixed,    \* history: the logins under way that overlap with another
  muddled,  \* history: the last login to finish overlapped with another
  spoiled,  \* history: a save of login.dat failed, ended or overlapped
  crossed   \* history: the jobs with a message during which a login wrote words,
            \* or which was begun between or after logins that overlapped

vars == <<up, file, memory, pc, account, token, stamp, request, issued, valid,
          mixed, muddled, spoiled, crossed>>
login == <<account, token>>
report == <<stamp, request>>
gateway == <<issued, valid>>
history == <<mixed, muddled, spoiled, crossed>>

NoMemory == [id1 |-> None, id2 |-> None, token1 |-> None, token2 |-> None,
             userId |-> None, ready |-> FALSE, healthy |-> FALSE]

MaybeAccount == Accounts \cup {None}
MaybeToken == Tokens \cup {None}

TypeOK ==
  /\ up \in {"down", "starting", "up"}
  /\ file \in Accounts \cup {Absent, Empty, Garbled}
  /\ memory \in [id1 : MaybeAccount, id2 : MaybeAccount,
                 token1 : MaybeToken, token2 : MaybeToken,
                 userId : MaybeAccount, ready : BOOLEAN, healthy : BOOLEAN]
  /\ pc \in [Threads -> Words \cup {"idle", "rpc", "create", "write", "loginId",
                                    "token", "sent", "file", "relogin"}]
  /\ account \in [Threads -> MaybeAccount]
  /\ token \in [Threads -> MaybeToken]
  /\ stamp \in [Jobs -> MaybeAccount]
  /\ request \in [Jobs -> [loginId : MaybeAccount \cup {Torn},
                           token : MaybeToken \cup {Torn}]]
  /\ issued \in Seq(Accounts) /\ Len(issued) <= MaxLogins
  /\ valid \subseteq DOMAIN issued
  /\ mixed \subseteq Threads
  /\ muddled \in BOOLEAN
  /\ spoiled \in BOOLEAN
  /\ crossed \subseteq Jobs

Nobody == [t \in Threads |-> None]
NoStamp == [j \in Jobs |-> None]
NoRequest == [j \in Jobs |-> [loginId |-> None, token |-> None]]

Init ==
  /\ up = "down"
  /\ file = Absent
  /\ memory = NoMemory
  /\ pc = [t \in Threads |-> "idle"]
  /\ account = Nobody /\ token = Nobody
  /\ stamp = NoStamp /\ request = NoRequest
  /\ issued = << >>
  /\ valid = {}
  /\ mixed = {}
  /\ muddled = FALSE
  /\ spoiled = FALSE
  /\ crossed = {}

Goto(t, l) == pc' = [pc EXCEPT ![t] = l]

\* A login takes effect between these two points: the handler's from the
\* creation of the file on, loginByFile's from the reading of it on.
InLogin(t) == pc[t] \in {"create", "write", "relogin"} \cup Words
Others(t) == {s \in Threads \ {t} : InLogin(s)}
Saving(t) == pc[t] = "write"

Enter(t) ==
  /\ mixed' = IF Others(t) = {} THEN mixed ELSE mixed \cup Others(t) \cup {t}
  /\ UNCHANGED <<muddled, spoiled, crossed>>

Forget(t) ==
  /\ account' = [account EXCEPT ![t] = None]
  /\ token' = [token EXCEPT ![t] = None]
  /\ mixed' = mixed \ {t}

\* The process ends: os.Exit, a panic in a job or in run(), or from outside.
\* (net/http recovers a panic of a handler, but there is none in this model:
\* the user id that comes with Success is well-formed.)
Die ==
  /\ up' = "down"
  /\ memory' = NoMemory
  /\ pc' = [t \in Threads |-> "idle"]
  /\ account' = Nobody /\ token' = Nobody
  /\ stamp' = NoStamp /\ request' = NoRequest
  /\ mixed' = {}
  /\ muddled' = FALSE
  /\ spoiled' = (spoiled \/ \E t \in Threads : Saving(t))
  /\ crossed' = {}
  /\ UNCHANGED <<file, gateway>>

\* run(): log in from the file if there is one
Launch ==
  /\ up = "down"
  /\ IF file = Absent
     THEN up' = "up" /\ UNCHANGED pc
     ELSE up' = "starting" /\ Goto("main", "file")
  /\ UNCHANGED <<file, memory, login, report, gateway, history>>

Kill == up # "down" /\ Die

-----------------------------------------------------------------------------
(* What both ways to log in have in common.                                *)

\* The gateway issues a new token.  The bound counts the tokens issued.
Issue(t, a) ==
  /\ issued' = Append(issued, a)
  /\ valid' = valid \cup {Len(issued')}
  /\ token' = [token EXCEPT ![t] = Len(issued')]

ValueOf(t, word) ==
  CASE word \in {"id1", "id2", "userId"} -> account[t]
    [] word \in {"token1", "token2"} -> token[t]
    [] OTHER -> TRUE

\* a slip: transfer() gives up on the message after a login by file
Resume_GivesUp(t) ==
  /\ up' = IF t = "main" THEN "up" ELSE up
  /\ Goto(t, "idle")

\* where flush() and run() go on after loginByFile
Resume(t) ==
  CASE t = "main" -> up' = "up" /\ Goto(t, "idle")
    [] t = "collect" -> up' = up /\ Goto(t, "loginId")
    [] OTHER -> up' = up /\ Goto(t, "idle")

\* loginByFile does not look at the status of the reply: the reply of a refused
\* login has no user id, and uuid2id panics on it
Panics(t) == pc[t] = "userId" /\ token[t] = None

\* the next word, or the end of the login
Assign(t) ==
  \E i \in DOMAIN Order :
    /\ pc[t] = Order[i]
    /\ ~Panics(t)
    /\ memory' = [memory EXCEPT ![Order[i]] = ValueOf(t, Order[i])]
    /\ \/ /\ i < Len(Order)
          /\ Goto(t, Order[i + 1])
          /\ UNCHANGED <<up, login, mixed, muddled>>
       \/ /\ i = Len(Order)
          /\ Resume(t)
          /\ Forget(t)
          /\ muddled' = (t \in mixed)
    /\ crossed' = {j \in Jobs : stamp[j] # None}
    /\ UNCHANGED <<file, report, gateway, spoiled>>

AssignPanics(t) == Panics(t) /\ Die

-----------------------------------------------------------------------------
(* The Login handler, for the request of a user.                           *)

Login(h, a) ==
  /\ up = "up"
  /\ pc[h] = "idle"
  /\ Goto(h, "rpc")
  /\ account' = [account EXCEPT ![h] = a]
  /\ UNCHANGED <<up, file, memory, token, report, gateway, history>>

\* an error, or a reply that is not a success
LoginRefused(h) ==
  /\ pc[h] = "rpc"
  /\ Goto(h, "idle")
  /\ Forget(h)
  /\ UNCHANGED <<up, file, memory, report, gateway, muddled, spoiled, crossed>>

\* a slip: the file is written only when there is none yet
LoginSucceeds_SaveOnce(h) ==
  /\ pc[h] = "rpc"
  /\ Len(issued) + Spare < MaxLogins
  /\ Issue(h, account[h])
  /\ Goto(h, IF file = Absent THEN "create" ELSE Order[1])
  /\ Enter(h)
  /\ UNCHANGED <<up, file, memory, account, report>>

LoginSucceeds(h) ==
  /\ pc[h] = "rpc"
  /\ Len(issued) + Spare < MaxLogins
  /\ Issue(h, account[h])
  /\ Goto(h, "create")
  /\ Enter(h)
  /\ UNCHANGED <<up, file, memory, account, report>>

\* a slip: os.OpenFile without O_TRUNC
CreateFile_NoTruncate(h) ==
  /\ pc[h] = "create"
  /\ file' = IF file = Absent THEN Empty ELSE file
  /\ spoiled' = (\E t \in Threads : Saving(t))
  /\ Goto(h, "write")
  /\ UNCHANGED <<up, memory, login, report, gateway, mixed, muddled, crossed>>

\* EncryptFile: os.Create empties the file ...
CreateFile(h) ==
  /\ pc[h] = "create"
  /\ file' = Empty
  /\ spoiled' = (\E t \in Threads : Saving(t))
  /\ Goto(h, "write")
  /\ UNCHANGED <<up, memory, login, report, gateway, mixed, muddled, crossed>>

\* ... and Write puts the text at its start.  If another save has written since
\* then, the longer of the two texts shows behind the end of the shorter one.
WriteFile(h) ==
  /\ pc[h] = "write"
  /\ file' \in IF file = Empty THEN {account[h]} ELSE {account[h], Garbled}
  /\ Goto(h, Order[1])
  /\ UNCHANGED <<up, memory, login, report, gateway, history>>

\* EncryptFile returns an error and the handler gives up
SaveFails(h) ==
  /\ \/ pc[h] = "create" /\ UNCHANGED <<file, spoiled>>
     \/ pc[h] = "write" /\ file' \in {file, Empty, Garbled} /\ spoiled' = TRUE
  /\ Goto(h, "idle")
  /\ Forget(h)
  /\ UNCHANGED <<up, memory, report, gateway, muddled, crossed>>

Handler ==
  \E h \in Handlers :
    \/ \E a \in Accounts : Login(h, a)
    \/ LoginRefused(h)
    \/ LoginSucceeds(h)
    \/ CreateFile(h)
    \/ WriteFile(h)
    \/ SaveFails(h)

-----------------------------------------------------------------------------
(* loginByFile, in a job after a 401, or in run() at the start.            *)

\* It returns an error: run() exits, flush() returns the first error.
ReloginFails(t, healthy) ==
  \/ t = "main" /\ Die
  \/ /\ t \in Jobs
     /\ Resume(t)
     /\ Forget(t)
     /\ memory' = [memory EXCEPT !.healthy = healthy]
     /\ UNCHANGED <<file, report, gateway, muddled, spoiled, crossed>>

\* a slip: the error of DecryptFile is dropped
ReadLogin_NoCheck(t) ==
  /\ pc[t] = "file"
  /\ file \notin {Absent, Empty}
  /\ account' = [account EXCEPT ![t] = file]
  /\ Goto(t, "relogin")
  /\ Enter(t)
  /\ UNCHANGED <<up, file, memory, token, report, gateway>>

ReadLogin(t) ==
  /\ pc[t] = "file"
  /\ file \in Accounts
  /\ account' = [account EXCEPT ![t] = file]
  /\ Goto(t, "relogin")
  /\ Enter(t)
  /\ UNCHANGED <<up, file, memory, token, report, gateway>>

\* the text does not decrypt, or ReadFile fails; healthy stays as it is
ReadLoginFails(t) ==
  /\ pc[t] = "file"
  /\ file # Empty
  /\ ReloginFails(t, memory.healthy)

\* decrypt() cuts the nonce off a text that is shorter
ReadLoginPanics(t) ==
  /\ pc[t] = "file"
  /\ file = Empty
  /\ Die

\* LoginId:Password is split at every colon: the password ends at its first one
Whole(t) == account[t] \notin Colon

ReloginSucceeds(t) ==
  /\ pc[t] = "relogin"
  /\ Whole(t)
  /\ Len(issued) < MaxLogins
  /\ Issue(t, account[t])
  /\ Goto(t, Order[1])
  /\ UNCHANGED <<up, file, memory, account, report, history>>

\* the gateway refuses the password; see AssignPanics
ReloginRefused(t) ==
  /\ pc[t] = "relogin"
  /\ Fickle \/ ~Whole(t)
  /\ Goto(t, Order[1])
  /\ UNCHANGED <<up, file, memory, login, report, gateway, history>>

\* the call returns an error
ReloginError(t) ==
  /\ pc[t] = "relogin"
  /\ ReloginFails(t, FALSE)

LoginByFile ==
  \E t \in Jobs \cup {"main"} :
    \/ ReadLogin(t)
    \/ ReadLoginFails(t)
    \/ ReadLoginPanics(t)
    \/ ReloginSucceeds(t)
    \/ ReloginRefused(t)
    \/ ReloginError(t)

-----------------------------------------------------------------------------
(* heartbeat, transfer, flush and report, for one message.                 *)

\* What a read of the two words of a string may find.  A string put together
\* from two may look like the one whose address it has.
StringOf(first, second) == IF first = second THEN {first} ELSE {first, Torn}

\* a slip: heartbeat() and collect() do not look at ready
Begin_NotReady(j) ==
  /\ up = "up"
  /\ pc[j] = "idle"
  /\ stamp' = [stamp EXCEPT ![j] = memory.userId]
  /\ Goto(j, "loginId")
  /\ crossed' = IF muddled \/ \E t \in Threads : pc[t] \in Words
                THEN crossed \cup {j} ELSE crossed
  /\ UNCHANGED <<up, file, memory, login, request, gateway, mixed, muddled, spoiled>>

\* heartbeat() and collect() return at once when nobody is logged in; the
\* UserID is written into the message
Begin(j) ==
  /\ up = "up"
  /\ pc[j] = "idle"
  /\ memory.ready
  /\ stamp' = [stamp EXCEPT ![j] = memory.userId]
  /\ Goto(j, "loginId")
  /\ crossed' = IF muddled \/ \E t \in Threads : pc[t] \in Words
                THEN crossed \cup {j} ELSE crossed
  /\ UNCHANGED <<up, file, memory, login, request, gateway, mixed, muddled, spoiled>>

\* report(): LoginId and Token are read for each attempt
ReadLoginId(j) ==
  /\ pc[j] = "loginId"
  /\ \E s \in StringOf(memory.id1, memory.id2) :
       request' = [request EXCEPT ![j] = [loginId |-> s, token |-> None]]
  /\ Goto(j, "token")
  /\ UNCHANGED <<up, file, memory, login, stamp, gateway, history>>

ReadToken(j) ==
  /\ pc[j] = "token"
  /\ \E s \in StringOf(memory.token1, memory.token2) :
       request' = [request EXCEPT ![j].token = s]
  /\ Goto(j, "sent")
  /\ UNCHANGED <<up, file, memory, login, stamp, gateway, history>>

\* the gateway knows the token, and it was issued to this login id
Genuine(r) == r.token \in valid /\ issued[r.token] = r.loginId

\* report() returns; transfer() keeps the message for the next attempt
EndReport(j, again) ==
  /\ stamp' = [stamp EXCEPT ![j] = IF again THEN stamp[j] ELSE None]
  /\ request' = [request EXCEPT ![j] = [loginId |-> None, token |-> None]]
  /\ crossed' = IF again THEN crossed ELSE crossed \ {j}
  /\ UNCHANGED <<mixed, muddled, spoiled>>

ReportSucceeds(j) ==
  /\ pc[j] = "sent"
  /\ Genuine(request[j])
  /\ EndReport(j, FALSE)
  /\ Goto(j, "idle")
  /\ UNCHANGED <<up, file, memory, login, gateway>>

\* any error but a 401: transfer() tries again, heartbeat() does not
ReportFails(j) ==
  /\ pc[j] = "sent"
  /\ EndReport(j, j = "collect")
  /\ Goto(j, IF j = "collect" THEN "loginId" ELSE "idle")
  /\ UNCHANGED <<up, file, memory, login, gateway>>

\* a slip: flush() does not find the 401 in the text of the error
ReportRefused_Unseen(j) ==
  /\ pc[j] = "sent"
  /\ ~Genuine(request[j])
  /\ EndReport(j, j = "collect")
  /\ Goto(j, "loginId")
  /\ UNCHANGED <<up, file, memory, login, gateway>>

\* "status code: 401": flush() calls loginByFile
ReportRefused(j) ==
  /\ pc[j] = "sent"
  /\ ~Genuine(request[j])
  /\ EndReport(j, j = "collect")
  /\ Goto(j, "file")
  /\ UNCHANGED <<up, file, memory, login, gateway>>

Report ==
  \E j \in Jobs :
    \/ Begin(j)
    \/ ReadLoginId(j)
    \/ ReadToken(j)
    \/ ReportSucceeds(j)
    \/ ReportFails(j)
    \/ ReportRefused(j)

\* the gateway stops to accept a token
Expire(n) ==
  /\ n \in valid
  /\ Len(issued) + Spare < MaxLogins
  /\ valid' = valid \ {n}
  /\ UNCHANGED <<up, file, memory, pc, login, report, issued, history>>

Next ==
  \/ Launch
  \/ Kill
  \/ Handler
  \/ LoginByFile
  \/ \E t \in Threads : Assign(t) \/ AssignPanics(t)
  \/ Report
  \/ \E n \in Tokens : Expire(n)

Spec == Init /\ [][Next]_vars

\* The jobs and a login in run() are scheduled, and each call of the gateway has
\* its deadline.  The strong conditions say that not every read of login.dat
\* fails, not every login by file gets an error, and not every report gets its
\* answer too late, or an error that tells nothing.
Fairness ==
  /\ \A t \in Jobs \cup {"main"} :
       /\ WF_vars(Assign(t))
       /\ WF_vars(AssignPanics(t))
       /\ WF_vars(ReadLoginPanics(t))
       /\ WF_vars(ReloginSucceeds(t) \/ ReloginRefused(t) \/ ReloginError(t))
       /\ SF_vars(ReadLogin(t))
       /\ SF_vars(ReloginSucceeds(t))
  /\ \A j \in Jobs :
       /\ WF_vars(ReadLoginId(j))
       /\ WF_vars(ReadToken(j))
       /\ SF_vars(ReportRefused(j))
       /\ SF_vars(ReportSucceeds(j))

FairSpec == Spec /\ Fairness

-----------------------------------------------------------------------------
(* Properties                                                              *)

\* A job that finds ready set finds all fields set, in whatever order the logins
\* write them.  The one exception: while the reply of a refused login by file is
\* being written, just before the process panics, the token is empty.
ReadyComplete ==
  memory.ready =>
    /\ None \notin {memory.id1, memory.id2, memory.userId}
    /\ None \in {memory.token1, memory.token2} =>
         \E t \in Threads : pc[t] \in {"token2", "userId"} /\ token[t] = None

\* Between logins, the words belong to one login, the user id is the account's,
\* and a restart would log in the same account, provided that login did not
\* overlap with another one and the file was not spoiled.
Coherent ==
  memory.ready /\ ~muddled /\ (\A t \in Threads : ~InLogin(t)) =>
    /\ memory.id2 = memory.id1
    /\ memory.token2 = memory.token1
    /\ issued[memory.token1] = memory.id1
    /\ memory.userId = memory.id1
    /\ spoiled \/ file = memory.id1

\* login.dat cannot be used only while it is being saved, or after a save that
\* failed, was cut off by the end of the process, or overlapped with another.
FileExplained ==
  file \in {Empty, Garbled} => spoiled \/ \E t \in Threads : Saving(t)

\* The message of a job, and the report it is sent with, are of one login: the
\* login id, the token issued to it, and the user id; unless a login wrote its
\* words while the job had the message, or the message was begun between such
\* words or after logins that had overlapped.
MessageOfOneLogin ==
  \A j \in Jobs \ crossed : pc[j] = "sent" =>
    /\ stamp[j] = request[j].loginId
    /\ request[j].token \in DOMAIN issued
    /\ issued[request[j].token] = request[j].loginId

\* Through failed calls, refused tokens and logins by file, the collect job keeps
\* its message as it is, until it was sent with a token the gateway accepts and
\* the login id the token was issued to, or the process ends.
KeepsMessage ==
  "collect" \in Jobs /\ pc["collect"] # "idle" /\ up' # "down" =>
    \/ pc'["collect"] # "idle" /\ stamp'["collect"] = stamp["collect"]
    \/ pc["collect"] = "sent" /\ Genuine(request["collect"])

NeverAbandoned == [][KeepsMessage]_vars

\* A token that is no longer accepted does not stop the collect job for ever:
\* if users, restarts and refused passwords leave it alone and login.dat can be
\* used (its password has no colon), a message under way is delivered in the end.
Disturbance ==
  Kill \/ Handler \/ \E t \in Jobs : ReloginRefused(t) \/ AssignPanics(t)
Calm == <>[][~Disturbance]_vars
Recovers ==
  Calm => (pc["collect"] # "idle"
             ~> (pc["collect"] = "idle" \/ file \notin Accounts \ Colon \/ up # "up"))

\* jobs.go: "read the username and password", "login with username and password":
\* if the gateway stands by what it has accepted, the login a user once made
\* does not end the process when it is repeated from the file.
SavedLoginWorks == \A t \in Threads : ~Panics(t)

\* entity.go: "userid" is the login id, from the collector: the user id in a
\* message the gateway accepts is that of the login it is sent with.
UserIdMatchesLogin ==
  \A j \in Jobs : pc[j] = "sent" /\ Genuine(request[j]) => stamp[j] = request[j].loginId

\* program.go: healthy says whether it is healthy for login; jobs.go marks it
\* unhealthy: after a login by file that failed, it is FALSE.
UnhealthyIfReloginFails ==
  [][\A j \in Jobs :
       /\ pc[j] \in {"file", "relogin"}
       /\ pc'[j] \in {"loginId", "idle"}
       /\ up' = "up"
       => ~memory'.healthy]_vars

==============================================================================
