----------------------------- MODULE SessionProofs -----------------------------
(***************************************************************************)
(* Proofs about Session, for any number of accounts and of goroutines.     *)
(***************************************************************************)
EXTENDS Session, TLAPS

\* A login under way knows its account, its token was issued to it, and nobody
\* else has a token.
LoginOK ==
  \A t \in Threads :
    /\ pc[t] = "rpc" \/ InLogin(t) => account[t] \in Accounts
    /\ token[t] # None => /\ InLogin(t)
                          /\ token[t] \in DOMAIN issued
                          /\ issued[token[t]] = account[t]

\* A refused login by file writes its empty token and then panics.
Doomed == \E t \in Threads : pc[t] \in {"token2", "userId"} /\ token[t] = None

\* Nobody has got as far as to one of these words, and ready is not set.
NotYet(words) == ~memory.ready /\ \A t \in Threads : pc[t] \notin words

\* Each word is set before any login that has passed it goes on.
WordsOK ==
  /\ memory.id1 = None => NotYet({"id2", "token1", "token2", "userId", "ready", "healthy"})
  /\ memory.id2 = None => NotYet({"token1", "token2", "userId", "ready", "healthy"})
  /\ memory.token1 = None => Doomed \/ NotYet({"token2", "userId", "ready", "healthy"})
  /\ memory.token2 = None => Doomed \/ NotYet({"userId", "ready", "healthy"})
  /\ memory.userId = None => NotYet({"ready", "healthy"})
  /\ \A t \in Threads : pc[t] \in {"ready", "healthy"} => token[t] # None

\* While the file is not spoiled, one login at most saves it.
FileOK ==
  ~spoiled =>
    /\ \A s, t \in Threads : Saving(s) /\ Saving(t) => s = t
    /\ (\E t \in Threads : Saving(t)) => file = Empty
    /\ file \in {Empty, Garbled} => \E t \in Threads : Saving(t)

\* Two logins under way know of each other.
MixedOK ==
  \A s, t \in Threads : s # t /\ InLogin(s) /\ InLogin(t) => s \in mixed

\* A login that overlaps with no other finds the words it has written, and the
\* file with its account.
AloneOK ==
  \A t \in Threads : InLogin(t) /\ t \notin mixed =>
    /\ pc[t] \in Words \cup {"relogin"} => spoiled \/ file = account[t]
    /\ pc[t] \in {"id2", "token1", "token2", "userId", "ready", "healthy"} =>
         memory.id1 = account[t]
    /\ pc[t] \in {"token1", "token2", "userId", "ready", "healthy"} =>
         memory.id2 = account[t]
    /\ pc[t] \in {"token2", "userId", "ready", "healthy"} => memory.token1 = token[t]
    /\ pc[t] \in {"userId", "ready", "healthy"} => memory.token2 = token[t]
    /\ pc[t] \in {"ready", "healthy"} => memory.userId = account[t]

\* What a login leaves stays until the next one writes its first word, and the
\* file keeps to it, or is being saved anew.
SettledOK ==
  memory.ready /\ ~muddled /\ (\A t \in Threads : pc[t] \notin Words) =>
    /\ memory.id2 = memory.id1
    /\ memory.token2 = memory.token1
    /\ memory.token1 \in DOMAIN issued
    /\ issued[memory.token1] = memory.id1
    /\ memory.userId = memory.id1
    /\ \/ spoiled \/ file = memory.id1
       \/ \E t \in Threads : Saving(t)

\* Without a process, nothing is under way.
DownOK == up = "down" => \A t \in Threads : pc[t] = "idle"

LoginInv ==
  TypeOK /\ DownOK /\ LoginOK /\ WordsOK /\ FileOK /\ MixedOK /\ AloneOK /\ SettledOK

\* A job on its way to the gateway has a message, and the collect job keeps it
\* as long as it is not done with it.
StampOK ==
  \A j \in Jobs :
    pc[j] \in {"loginId", "token", "sent"} \/ (j = "collect" /\ pc[j] # "idle") =>
      stamp[j] # None

\* The words in the memory are of one login, and so is the message of j, with
\* what has been read for its report.
OneLogin(j) ==
  /\ memory.id2 = memory.id1
  /\ memory.token2 = memory.token1
  /\ memory.token1 \in DOMAIN issued
  /\ issued[memory.token1] = memory.id1
  /\ stamp[j] = memory.id1
  /\ pc[j] \in {"token", "sent"} => request[j].loginId = memory.id1
  /\ pc[j] = "sent" => request[j].token = memory.token1

MessageOK == \A j \in Jobs \ crossed : stamp[j] # None => OneLogin(j)

IInv == LoginInv /\ StampOK /\ MessageOK

-----------------------------------------------------------------------------
(* What the steps do, in terms of single words and goroutines.             *)

WordsFact ==
  Words = {"id1", "id2", "token1", "token2", "userId", "ready", "healthy"}

LEMMA WordsAre == WordsFact
BY DEF WordsFact, Words, Order

LEMMA ThreadsAre == Handlers \subseteq Threads /\ Jobs \subseteq Threads /\ "main" \in Threads
BY DEF Threads

\* What a step of Assign does before the last word, and at the last one.
Writes(t, word, value, next) ==
  /\ pc[t] = word
  /\ memory' = [memory EXCEPT ![word] = value]
  /\ Goto(t, next)
  /\ UNCHANGED <<up, login, mixed, muddled>>

Ends(t) ==
  /\ pc[t] = "healthy"
  /\ memory' = [memory EXCEPT !["healthy"] = TRUE]
  /\ Resume(t)
  /\ Forget(t)
  /\ muddled' = (t \in mixed)

AssignFact(t) ==
  /\ ~Panics(t)
  /\ crossed' = {j \in Jobs : stamp[j] # None}
  /\ UNCHANGED <<file, report, gateway, spoiled>>
  /\ \/ Writes(t, "id1", account[t], "id2")
     \/ Writes(t, "id2", account[t], "token1")
     \/ Writes(t, "token1", token[t], "token2")
     \/ Writes(t, "token2", token[t], "userId")
     \/ Writes(t, "userId", account[t], "ready")
     \/ Writes(t, "ready", TRUE, "healthy")
     \/ Ends(t)

LEMMA AssignCases ==
  ASSUME NEW t \in Threads, Assign(t)
  PROVE  AssignFact(t)
<1>1. PICK i \in DOMAIN Order :
        /\ pc[t] = Order[i]
        /\ ~Panics(t)
        /\ memory' = [memory EXCEPT ![Order[i]] = ValueOf(t, Order[i])]
        /\ \/ /\ i < Len(Order)
              /\ Goto(t, Order[i + 1])
              /\ UNCHANGED <<up, login, mixed, muddled>>
           \/ /\ i = Len(Order)
              /\ Resume(t)
              /\ Forget(t)
              /\ muddled' = (t \in mixed)
        /\ crossed' = {j \in Jobs : stamp[j] # None}
        /\ UNCHANGED <<file, report, gateway, spoiled>>
  BY Zenon DEF Assign
<1>2. DOMAIN Order = 1 .. 7 /\ Len(Order) = 7
  BY DEF Order
<1>3. /\ Order[1] = "id1" /\ Order[2] = "id2" /\ Order[3] = "token1"
      /\ Order[4] = "token2" /\ Order[5] = "userId" /\ Order[6] = "ready"
      /\ Order[7] = "healthy"
  BY DEF Order
<1>4. CASE i < 7
  <2>1. Writes(t, Order[i], ValueOf(t, Order[i]), Order[i + 1])
    BY <1>1, <1>2, <1>4 DEF Writes
  <2>2. i = 1 \/ i = 2 \/ i = 3 \/ i = 4 \/ i = 5 \/ i = 6
    BY <1>2, <1>4
  <2>3. /\ ValueOf(t, "id1") = account[t] /\ ValueOf(t, "id2") = account[t]
        /\ ValueOf(t, "token1") = token[t] /\ ValueOf(t, "token2") = token[t]
        /\ ValueOf(t, "userId") = account[t] /\ ValueOf(t, "ready") = TRUE
    BY DEF ValueOf
  <2>4. 1 + 1 = 2 /\ 2 + 1 = 3 /\ 3 + 1 = 4 /\ 4 + 1 = 5 /\ 5 + 1 = 6 /\ 6 + 1 = 7
    OBVIOUS
  <2>5. \/ Writes(t, "id1", account[t], "id2")
        \/ Writes(t, "id2", account[t], "token1")
        \/ Writes(t, "token1", token[t], "token2")
        \/ Writes(t, "token2", token[t], "userId")
        \/ Writes(t, "userId", account[t], "ready")
        \/ Writes(t, "ready", TRUE, "healthy")
    <3>1. CASE i = 1
      BY Zenon, <3>1, <1>3, <2>1, <2>3, <2>4
    <3>2. CASE i = 2
      BY Zenon, <3>2, <1>3, <2>1, <2>3, <2>4
    <3>3. CASE i = 3
      BY Zenon, <3>3, <1>3, <2>1, <2>3, <2>4
    <3>4. CASE i = 4
      BY Zenon, <3>4, <1>3, <2>1, <2>3, <2>4
    <3>5. CASE i = 5
      BY Zenon, <3>5, <1>3, <2>1, <2>3, <2>4
    <3>6. CASE i = 6
      BY Zenon, <3>6, <1>3, <2>1, <2>3, <2>4
    <3> QED
      BY Zenon, <2>2, <3>1, <3>2, <3>3, <3>4, <3>5, <3>6
  <2> QED
    BY Zenon, <1>1, <2>5 DEF AssignFact
<1>5. CASE i = 7
  <2>1. ValueOf(t, "healthy") = TRUE
    BY DEF ValueOf
  <2>2. memory' = [memory EXCEPT !["healthy"] = TRUE]
    BY <1>1, <1>3, <1>5, <2>1
  <2>3. ~(i < Len(Order)) /\ pc[t] = "healthy"
    BY <1>1, <1>2, <1>3, <1>5
  <2>4. Ends(t)
    BY Zenon, <1>1, <2>2, <2>3 DEF Ends
  <2> QED
    BY Zenon, <1>1, <2>4 DEF AssignFact
<1> QED
  BY <1>2, <1>4, <1>5

-----------------------------------------------------------------------------
(* Type correctness.                                                       *)

LEMMA TypeInit == Init => TypeOK
<1>1. << >> \in Seq(Accounts) /\ Len(<< >>) <= MaxLogins
  BY SessionAssumption
<1> SUFFICES ASSUME Init PROVE TypeOK
  OBVIOUS
<1>2. issued \in Seq(Accounts) /\ Len(issued) <= MaxLogins
  BY Zenon, <1>1 DEF Init
<1>3. memory \in [id1 : MaybeAccount, id2 : MaybeAccount,
                  token1 : MaybeToken, token2 : MaybeToken,
                  userId : MaybeAccount, ready : BOOLEAN, healthy : BOOLEAN]
  BY DEF Init, NoMemory, MaybeAccount, MaybeToken
<1> QED
  BY <1>2, <1>3 DEF Init, TypeOK, Nobody, NoStamp, NoRequest, MaybeAccount, MaybeToken

LEMMA TypeDie == ASSUME TypeOK, Die PROVE TypeOK'
BY DEF TypeOK, Die, NoMemory, Nobody, NoStamp, NoRequest, MaybeAccount, MaybeToken,
  gateway

LEMMA TypeAssign ==
  ASSUME TypeOK, NEW t \in Threads, Assign(t)
  PROVE  TypeOK'
<1>1. AssignFact(t)
  BY AssignCases
<1>2. memory' \in [id1 : MaybeAccount, id2 : MaybeAccount,
                   token1 : MaybeToken, token2 : MaybeToken,
                   userId : MaybeAccount, ready : BOOLEAN, healthy : BOOLEAN]
  <2>1. account[t] \in MaybeAccount /\ token[t] \in MaybeToken
    BY DEF TypeOK
  <2> QED
    BY <1>1, <2>1 DEF TypeOK, AssignFact, Writes, Ends
<1>3. up' \in {"down", "starting", "up"}
  BY <1>1 DEF TypeOK, AssignFact, Writes, Ends, Resume
<1>4. pc' \in [Threads -> Words \cup {"idle", "rpc", "create", "write", "loginId",
                                      "token", "sent", "file", "relogin"}]
  BY <1>1, WordsAre DEF TypeOK, AssignFact, Writes, Ends, Resume, Goto, WordsFact
<1>5. account' \in [Threads -> MaybeAccount] /\ token' \in [Threads -> MaybeToken]
  BY <1>1 DEF TypeOK, AssignFact, Writes, Ends, Forget, login, MaybeAccount, MaybeToken
<1>6. mixed' \subseteq Threads
  BY <1>1 DEF TypeOK, AssignFact, Writes, Ends, Forget
<1>7. muddled' \in BOOLEAN
  <2>1. CASE Ends(t)
    <3>1. (t \in mixed) \in BOOLEAN
      OBVIOUS
    <3> QED
      BY Zenon, <2>1, <3>1 DEF Ends
  <2>2. CASE muddled' = muddled
    BY <2>2 DEF TypeOK
  <2> QED
    BY Zenon, <1>1, <2>1, <2>2 DEF AssignFact, Writes
<1>8. crossed' \subseteq Jobs
  BY <1>1 DEF AssignFact
<1> QED
  BY <1>1, <1>2, <1>3, <1>4, <1>5, <1>6, <1>7, <1>8 DEF TypeOK, AssignFact, report, gateway

LEMMA TypeIssue ==
  ASSUME TypeOK, NEW t \in Threads, account[t] \in Accounts, Issue(t, account[t]),
         Len(issued) < MaxLogins
  PROVE  /\ issued' \in Seq(Accounts) /\ Len(issued') <= MaxLogins
         /\ valid' \subseteq DOMAIN issued'
         /\ token' \in [Threads -> MaybeToken]
<1>1. /\ issued' \in Seq(Accounts) /\ Len(issued') = Len(issued) + 1
      /\ DOMAIN issued' = 1 .. Len(issued') /\ DOMAIN issued = 1 .. Len(issued)
      /\ Len(issued) \in Nat
  BY DEF TypeOK, Issue
<1>2. Len(issued') <= MaxLogins /\ Len(issued') \in Tokens
  BY <1>1, SessionAssumption DEF Tokens
<1>3. valid' \subseteq DOMAIN issued'
  BY <1>1 DEF TypeOK, Issue
<1> QED
  BY <1>1, <1>2, <1>3 DEF TypeOK, Issue, MaybeToken

LEMMA TypeHandler ==
  ASSUME TypeOK, LoginOK, Handler
  PROVE  TypeOK'
<1> USE DEF Goto, Forget, Enter, login, report, gateway, history, MaybeAccount, MaybeToken
<1>1. PICK h \in Handlers :
        \/ \E a \in Accounts : Login(h, a)
        \/ LoginRefused(h)
        \/ LoginSucceeds(h)
        \/ CreateFile(h)
        \/ WriteFile(h)
        \/ SaveFails(h)
  BY Zenon DEF Handler
<1>2. h \in Threads
  BY ThreadsAre
<1>3. ASSUME NEW a \in Accounts, Login(h, a) PROVE TypeOK'
  BY <1>2, <1>3 DEF Login, TypeOK
<1>4. CASE LoginRefused(h)
  BY <1>2, <1>4 DEF LoginRefused, TypeOK
<1>5. CASE LoginSucceeds(h)
  <2>1. account[h] \in Accounts
    BY <1>2, <1>5 DEF LoginOK, LoginSucceeds
  <2>2. Len(issued) < MaxLogins
    BY <1>5, SessionAssumption DEF LoginSucceeds, TypeOK
  <2>3. Issue(h, account[h])
    BY <1>5 DEF LoginSucceeds
  <2>4. /\ issued' \in Seq(Accounts) /\ Len(issued') <= MaxLogins
        /\ valid' \subseteq DOMAIN issued'
        /\ token' \in [Threads -> MaybeToken]
    BY <1>2, <2>1, <2>2, <2>3, TypeIssue
  <2>5. mixed' \subseteq Threads
    BY <1>2, <1>5 DEF LoginSucceeds, TypeOK, Others
  <2>6. pc' = [pc EXCEPT ![h] = "create"]
        /\ UNCHANGED <<up, file, memory, account, stamp, request, muddled, spoiled, crossed>>
    BY <1>5 DEF LoginSucceeds
  <2> QED
    BY <1>2, <2>4, <2>5, <2>6 DEF TypeOK
<1>6. CASE CreateFile(h)
  BY <1>2, <1>6 DEF CreateFile, TypeOK
<1>7. CASE WriteFile(h)
  <2>1. account[h] \in Accounts
    BY <1>2, <1>7 DEF LoginOK, WriteFile, InLogin
  <2>2. Order[1] \in Words
    BY WordsAre DEF Order, WordsFact
  <2> QED
    BY <1>2, <1>7, <2>1, <2>2 DEF WriteFile, TypeOK
<1>8. CASE SaveFails(h)
  <2>1. file' \in Accounts \cup {Absent, Empty, Garbled} /\ spoiled' \in BOOLEAN
    BY <1>8 DEF SaveFails, TypeOK
  <2> QED
    BY <1>2, <1>8, <2>1 DEF SaveFails, TypeOK
<1> QED
  BY <1>1, <1>3, <1>4, <1>5, <1>6, <1>7, <1>8

LEMMA TypeReloginFails ==
  ASSUME TypeOK, NEW t \in Jobs \cup {"main"}, NEW healthy \in BOOLEAN,
         ReloginFails(t, healthy)
  PROVE  TypeOK'
<1>1. CASE Die
  BY <1>1, TypeDie
<1>2. CASE t \in Jobs /\ Resume(t) /\ Forget(t)
           /\ memory' = [memory EXCEPT !.healthy = healthy]
           /\ UNCHANGED <<file, report, gateway, muddled, spoiled, crossed>>
  BY <1>2, ThreadsAre DEF Resume, Goto, Forget, report, gateway, TypeOK,
    MaybeAccount, MaybeToken
<1> QED
  BY Zenon, <1>1, <1>2 DEF ReloginFails

LEMMA TypeLoginByFile ==
  ASSUME TypeOK, LoginOK, LoginByFile
  PROVE  TypeOK'
<1> USE DEF Goto, Forget, Enter, login, report, gateway, history, MaybeAccount, MaybeToken
<1>1. PICK t \in Jobs \cup {"main"} :
        \/ ReadLogin(t)
        \/ ReadLoginFails(t)
        \/ ReadLoginPanics(t)
        \/ ReloginSucceeds(t)
        \/ ReloginRefused(t)
        \/ ReloginError(t)
  BY Zenon DEF LoginByFile
<1>2. t \in Threads
  BY ThreadsAre
<1>3. Order[1] \in Words
  BY WordsAre DEF Order, WordsFact
<1>4. CASE ReadLogin(t)
  BY <1>2, <1>4 DEF ReadLogin, TypeOK, Others
<1>5. CASE ReadLoginFails(t)
  BY <1>5, TypeReloginFails DEF ReadLoginFails, TypeOK
<1>6. CASE ReadLoginPanics(t)
  BY Zenon, <1>6, TypeDie DEF ReadLoginPanics
<1>7. CASE ReloginSucceeds(t)
  <2>1. account[t] \in Accounts
    BY <1>2, <1>7 DEF LoginOK, ReloginSucceeds, InLogin
  <2>2. Len(issued) < MaxLogins /\ Issue(t, account[t])
    BY <1>7 DEF ReloginSucceeds
  <2>3. /\ issued' \in Seq(Accounts) /\ Len(issued') <= MaxLogins
        /\ valid' \subseteq DOMAIN issued'
        /\ token' \in [Threads -> MaybeToken]
    BY <1>2, <2>1, <2>2, TypeIssue
  <2>4. pc' = [pc EXCEPT ![t] = Order[1]]
        /\ UNCHANGED <<up, file, memory, account, stamp, request, mixed, muddled,
                       spoiled, crossed>>
    BY <1>7 DEF ReloginSucceeds
  <2> QED
    BY <1>2, <1>3, <2>3, <2>4 DEF TypeOK
<1>8. CASE ReloginRefused(t)
  BY <1>2, <1>3, <1>8 DEF ReloginRefused, TypeOK
<1>9. CASE ReloginError(t)
  BY <1>9, TypeReloginFails DEF ReloginError
<1> QED
  BY <1>1, <1>4, <1>5, <1>6, <1>7, <1>8, <1>9

LEMMA TypeReport ==
  ASSUME TypeOK, Report
  PROVE  TypeOK'
<1> USE DEF Goto, EndReport, StringOf, login, report, gateway, history, MaybeAccount,
  MaybeToken
<1>1. PICK j \in Jobs :
        \/ Begin(j)
        \/ ReadLoginId(j)
        \/ ReadToken(j)
        \/ ReportSucceeds(j)
        \/ ReportFails(j)
        \/ ReportRefused(j)
  BY Zenon DEF Report
<1>2. j \in Threads
  BY ThreadsAre
<1>3. CASE Begin(j)
  BY <1>2, <1>3 DEF Begin, TypeOK
<1>4. CASE ReadLoginId(j)
  BY <1>2, <1>4 DEF ReadLoginId, TypeOK
<1>5. CASE ReadToken(j)
  BY <1>2, <1>5 DEF ReadToken, TypeOK
<1>6. CASE ReportSucceeds(j)
  BY <1>2, <1>6 DEF ReportSucceeds, TypeOK
<1>7. CASE ReportFails(j)
  BY <1>2, <1>7 DEF ReportFails, TypeOK
<1>8. CASE ReportRefused(j)
  BY <1>2, <1>8 DEF ReportRefused, TypeOK
<1> QED
  BY <1>1, <1>3, <1>4, <1>5, <1>6, <1>7, <1>8

LEMMA TypeStep ==
  ASSUME TypeOK, LoginOK, [Next]_vars
  PROVE  TypeOK'
<1>1. CASE Launch
  BY <1>1, ThreadsAre DEF Launch, Goto, login, report, gateway, history, TypeOK
<1>2. CASE Kill
  BY <1>2, TypeDie DEF Kill
<1>3. CASE Handler
  BY <1>3, TypeHandler
<1>4. CASE LoginByFile
  BY <1>4, TypeLoginByFile
<1>5. ASSUME NEW t \in Threads, Assign(t) PROVE TypeOK'
  BY <1>5, TypeAssign
<1>6. ASSUME NEW t \in Threads, AssignPanics(t) PROVE TypeOK'
  BY <1>6, TypeDie DEF AssignPanics
<1>7. CASE Report
  BY <1>7, TypeReport
<1>8. ASSUME NEW n \in Tokens, Expire(n) PROVE TypeOK'
  BY <1>8 DEF Expire, login, report, history, TypeOK
<1>9. CASE UNCHANGED vars
  BY <1>9 DEF vars, TypeOK
<1> QED
  BY Zenon, <1>1, <1>2, <1>3, <1>4, <1>5, <1>6, <1>7, <1>8, <1>9 DEF Next

-----------------------------------------------------------------------------
(* The steps that write none of the words but healthy, and leave the file: *)
(* some goroutines end their login early, the others go on.                *)

Quiet ==
  /\ UNCHANGED <<file, issued, muddled, spoiled>>
  /\ memory'.id1 = memory.id1 /\ memory'.id2 = memory.id2
  /\ memory'.token1 = memory.token1 /\ memory'.token2 = memory.token2
  /\ memory'.userId = memory.userId
  /\ memory'.ready <=> memory.ready
  /\ \A t \in Threads :
       /\ pc[t] \in Words \cup {"write"} => pc'[t] = pc[t]
       /\ InLogin(t)' => /\ pc'[t] = pc[t]
                         /\ account'[t] = account[t]
                         /\ token'[t] = token[t]
                         /\ t \in mixed' <=> t \in mixed
       /\ pc'[t] = "rpc" => account'[t] \in Accounts
       /\ token'[t] # None => InLogin(t)'

LEMMA QuietKeeps ==
  ASSUME LoginInv, TypeOK', DownOK', Quiet
  PROVE  LoginInv'
<1> USE WordsAre DEF WordsFact
<1>1. LoginOK'
  <2>1. ASSUME NEW t \in Threads, pc'[t] = "rpc" \/ InLogin(t)'
        PROVE  account'[t] \in Accounts
    BY <2>1 DEF LoginInv, LoginOK, Quiet, InLogin
  <2>2. ASSUME NEW t \in Threads, token'[t] # None
        PROVE  /\ InLogin(t)'
               /\ token'[t] \in DOMAIN issued'
               /\ issued'[token'[t]] = account'[t]
    BY <2>2 DEF LoginInv, LoginOK, Quiet
  <2> QED
    BY <2>1, <2>2 DEF LoginOK
<1>2. WordsOK'
  <2>1. \A t \in Threads : pc'[t] \in Words => pc'[t] = pc[t] /\ token'[t] = token[t]
    BY DEF Quiet, InLogin
  <2>2. \A t \in Threads : pc[t] \in Words => pc'[t] = pc[t] /\ token'[t] = token[t]
    BY DEF Quiet, InLogin
  <2> QED
    BY <2>1, <2>2 DEF LoginInv, WordsOK, Quiet, NotYet, Doomed
<1>3. FileOK'
  <2>1. \A t \in Threads : Saving(t)' <=> Saving(t)
    BY DEF Quiet, Saving, InLogin
  <2> QED
    BY <2>1 DEF LoginInv, FileOK, Quiet
<1>4. MixedOK'
  BY DEF LoginInv, MixedOK, Quiet, InLogin
<1>5. AloneOK'
  <2>1. ASSUME NEW t \in Threads, InLogin(t)', t \notin mixed'
        PROVE  /\ InLogin(t) /\ t \notin mixed /\ pc'[t] = pc[t]
               /\ account'[t] = account[t] /\ token'[t] = token[t]
    BY <2>1 DEF Quiet, InLogin
  <2> QED
    BY <2>1 DEF LoginInv, AloneOK, Quiet
<1>6. SettledOK'
  <2>1. \A t \in Threads : Saving(t)' <=> Saving(t)
    BY DEF Quiet, Saving, InLogin
  <2>2. \A t \in Threads : pc'[t] \in Words <=> pc[t] \in Words
    BY DEF Quiet, InLogin
  <2> QED
    BY <2>1, <2>2 DEF LoginInv, SettledOK, Quiet
<1> QED
  BY <1>1, <1>2, <1>3, <1>4, <1>5, <1>6 DEF LoginInv

-----------------------------------------------------------------------------
(* Init and the end of the process.                                        *)

LEMMA InvInit == Init => LoginInv
<1> SUFFICES ASSUME Init PROVE LoginInv
  OBVIOUS
<1> USE WordsAre DEF WordsFact
<1>1. \A t \in Threads : pc[t] = "idle" /\ account[t] = None /\ token[t] = None
  BY DEF Init, Nobody
<1>2. memory.ready = FALSE /\ file = Absent
  BY DEF Init, NoMemory
<1>3. LoginOK /\ MixedOK /\ AloneOK
  BY <1>1 DEF LoginOK, MixedOK, AloneOK, InLogin
<1>4. WordsOK /\ SettledOK
  BY <1>1, <1>2 DEF WordsOK, SettledOK, NotYet
<1>5. FileOK /\ DownOK
  BY <1>1, <1>2, SessionAssumption DEF FileOK, Saving, DownOK
<1> QED
  BY <1>3, <1>4, <1>5, TypeInit DEF LoginInv

LEMMA InvDie ==
  ASSUME LoginInv, Die
  PROVE  LoginInv'
<1> USE WordsAre DEF WordsFact
<1>1. \A t \in Threads : pc'[t] = "idle" /\ account'[t] = None /\ token'[t] = None
  BY DEF Die, Nobody
<1>2. memory'.ready = FALSE
  BY DEF Die, NoMemory
<1>3. (DownOK /\ LoginOK /\ MixedOK /\ AloneOK)'
  BY <1>1 DEF DownOK, LoginOK, MixedOK, AloneOK, InLogin
<1>4. (WordsOK /\ SettledOK)'
  BY <1>1, <1>2 DEF WordsOK, SettledOK, NotYet
<1>5. FileOK'
  <2>1. spoiled' <=> spoiled \/ \E t \in Threads : Saving(t)
    BY DEF Die
  <2> QED
    BY <1>1, <2>1 DEF FileOK, Saving, Die, LoginInv
<1> QED
  BY <1>3, <1>4, <1>5, TypeDie DEF LoginInv

\* One goroutine goes on to a place outside a login.
Elsewhere == {"idle", "rpc", "loginId", "token", "sent", "file"}

LEMMA LeavesIsQuiet ==
  ASSUME LoginInv, NEW t \in Threads, NEW l \in Elsewhere, Goto(t, l),
         pc[t] \notin Words \cup {"write"},
         UNCHANGED <<file, issued, muddled, spoiled>>,
         \E b \in BOOLEAN : memory' = [memory EXCEPT !.healthy = b],
         \/ Forget(t)
         \/ /\ token[t] = None
            /\ UNCHANGED <<token, mixed>>
            /\ \A s \in Threads \ {t} : account'[s] = account[s],
         l = "rpc" => account'[t] \in Accounts
  PROVE  Quiet
<1> USE WordsAre DEF WordsFact
<1>1. /\ memory'.id1 = memory.id1 /\ memory'.id2 = memory.id2
      /\ memory'.token1 = memory.token1 /\ memory'.token2 = memory.token2
      /\ memory'.userId = memory.userId
      /\ memory'.ready <=> memory.ready
  BY DEF LoginInv, TypeOK
<1>2. pc'[t] = l /\ \A s \in Threads \ {t} : pc'[s] = pc[s]
  BY DEF LoginInv, TypeOK, Goto
<1>3. /\ token'[t] = None
      /\ \A s \in Threads \ {t} :
           /\ account'[s] = account[s]
           /\ token'[s] = token[s]
           /\ s \in mixed' <=> s \in mixed
  BY DEF LoginInv, TypeOK, Forget
<1>4. ~InLogin(t)' /\ \A s \in Threads \ {t} : InLogin(s)' <=> InLogin(s)
  BY <1>2 DEF InLogin, Elsewhere
<1>5. \A s \in Threads : pc[s] = "rpc" => account[s] \in Accounts
  BY DEF LoginInv, LoginOK
<1>6. \A s \in Threads : token[s] # None => InLogin(s)
  BY DEF LoginInv, LoginOK
<1>7. \A s \in Threads : pc[s] \in Words \cup {"write"} => pc'[s] = pc[s]
  BY <1>2
<1>8. \A s \in Threads :
        InLogin(s)' => /\ pc'[s] = pc[s]
                       /\ account'[s] = account[s]
                       /\ token'[s] = token[s]
                       /\ s \in mixed' <=> s \in mixed
  BY <1>2, <1>3, <1>4
<1>9. \A s \in Threads : pc'[s] = "rpc" => account'[s] \in Accounts
  BY <1>2, <1>3, <1>5
<1>10. \A s \in Threads : token'[s] # None => InLogin(s)'
  BY <1>3, <1>4, <1>6
<1> QED
  BY <1>1, <1>7, <1>8, <1>9, <1>10 DEF Quiet

LEMMA StaysSame ==
  ASSUME TypeOK
  PROVE  \E b \in BOOLEAN : memory = [memory EXCEPT !.healthy = b]
<1>1. memory = [memory EXCEPT !.healthy = memory.healthy] /\ memory.healthy \in BOOLEAN
  BY DEF TypeOK
<1> QED
  BY <1>1

\* Nobody but the goroutines in a login has a token.
LEMMA NoToken ==
  ASSUME LoginInv, NEW t \in Threads, ~InLogin(t)
  PROVE  token[t] = None
BY DEF LoginInv, LoginOK

LEMMA InvReloginFails ==
  ASSUME LoginInv, TypeOK', DownOK', NEW t \in Jobs \cup {"main"}, pc[t] \in {"file", "relogin"},
         NEW healthy \in BOOLEAN, ReloginFails(t, healthy)
  PROVE  LoginInv'
<1>1. CASE t \in Jobs /\ Resume(t) /\ Forget(t)
           /\ memory' = [memory EXCEPT !.healthy = healthy]
           /\ UNCHANGED <<file, report, gateway, muddled, spoiled, crossed>>
  <2>1. PICK l \in Elsewhere : Goto(t, l) /\ l # "rpc"
    BY <1>1 DEF Resume, Elsewhere
  <2>2. pc[t] \notin Words \cup {"write"}
    BY WordsAre DEF WordsFact
  <2>3. UNCHANGED <<file, issued, muddled, spoiled>>
    BY <1>1 DEF gateway
  <2>4. Quiet
    BY <1>1, <2>1, <2>2, <2>3, LeavesIsQuiet, ThreadsAre
  <2> QED
    BY <2>4, QuietKeeps
<1>2. CASE Die
  BY <1>2, InvDie
<1> QED
  BY Zenon, <1>1, <1>2 DEF ReloginFails

LEMMA InvReport ==
  ASSUME LoginInv, TypeOK', DownOK', Report
  PROVE  LoginInv'
<1>1. PICK j \in Jobs :
        \/ Begin(j)
        \/ ReadLoginId(j)
        \/ ReadToken(j)
        \/ ReportSucceeds(j)
        \/ ReportFails(j)
        \/ ReportRefused(j)
  BY Zenon DEF Report
<1>2. PICK l \in Elsewhere : Goto(j, l) /\ l # "rpc"
  BY <1>1 DEF Elsewhere, Begin, ReadLoginId, ReadToken, ReportSucceeds, ReportFails,
    ReportRefused
<1>3. pc[j] \in {"idle", "loginId", "token", "sent"}
  BY <1>1 DEF Begin, ReadLoginId, ReadToken, ReportSucceeds, ReportFails, ReportRefused
<1>4. UNCHANGED <<file, memory, login, issued, mixed, muddled, spoiled>>
  BY <1>1 DEF Begin, ReadLoginId, ReadToken, ReportSucceeds, ReportFails, ReportRefused,
    EndReport, gateway, history
<1>5. pc[j] \notin Words \cup {"write"} /\ ~InLogin(j) /\ j \in Threads
  BY <1>3, WordsAre, ThreadsAre DEF WordsFact, InLogin
<1>6. token[j] = None
  BY <1>5, NoToken
<1>7. \E b \in BOOLEAN : memory' = [memory EXCEPT !.healthy = b]
  BY <1>4, StaysSame DEF LoginInv
<1>8. Quiet
  BY <1>2, <1>4, <1>5, <1>6, <1>7, LeavesIsQuiet DEF login
<1> QED
  BY <1>8, QuietKeeps

LEMMA InvLaunch ==
  ASSUME LoginInv, TypeOK', DownOK', Launch
  PROVE  LoginInv'
<1> USE ThreadsAre
<1>1. CASE UNCHANGED pc
  <2>1. UNCHANGED <<file, memory, pc, login, issued, history>>
    BY <1>1 DEF Launch, gateway
  <2> QED
    BY <2>1, QuietKeeps DEF Quiet, LoginInv, LoginOK, login, history, InLogin
<1>2. CASE Goto("main", "file")
  <2>1. pc["main"] \notin Words \cup {"write"} /\ ~InLogin("main")
    BY WordsAre DEF Launch, LoginInv, DownOK, WordsFact, InLogin
  <2>2. token["main"] = None
    BY <2>1, NoToken
  <2>3. UNCHANGED <<file, memory, login, issued, history>>
    BY DEF Launch, gateway
  <2>4. \E b \in BOOLEAN : memory' = [memory EXCEPT !.healthy = b]
    BY <2>3, StaysSame DEF LoginInv
  <2>5. Quiet
    BY <1>2, <2>1, <2>2, <2>3, <2>4, LeavesIsQuiet DEF login, history, Elsewhere
  <2> QED
    BY <2>5, QuietKeeps
<1> QED
  BY <1>1, <1>2 DEF Launch

LEMMA InvExpire ==
  ASSUME LoginInv, TypeOK', DownOK', UNCHANGED <<file, memory, pc, login, issued, history>>
  PROVE  LoginInv'
BY QuietKeeps DEF Quiet, LoginInv, LoginOK, login, history, InLogin

-----------------------------------------------------------------------------
(* The steps that take one goroutine t on in its login.                    *)

MovesTo(t, l) == pc'[t] = l /\ \A s \in Threads \ {t} : pc'[s] = pc[s]

LEMMA GotoMoves ==
  ASSUME TypeOK, NEW t \in Threads, NEW l, Goto(t, l)
  PROVE  MovesTo(t, l)
BY DEF TypeOK, Goto, MovesTo

\* They write no word of the memory ...
LEMMA KeepsWords ==
  ASSUME LoginInv, UNCHANGED memory, NEW t \in Threads, NEW l, MovesTo(t, l),
         l \in {"create", "write", "idle", "relogin", "id1"},
         pc[t] \in {"rpc", "create", "write", "file", "relogin"},
         \A s \in Threads \ {t} : token'[s] = token[s]
  PROVE  WordsOK'
<1>1. \A s \in Threads :
        /\ pc'[s] \in {"id2", "token1", "token2", "userId", "ready", "healthy"} =>
             pc'[s] = pc[s] /\ token'[s] = token[s]
        /\ pc[s] \in {"token2", "userId"} => pc'[s] = pc[s] /\ token'[s] = token[s]
  BY DEF MovesTo
<1> QED
  BY <1>1 DEF LoginInv, WordsOK, NotYet, Doomed

\* ... and when they enter a login, every other login under way is mixed.
LEMMA EnterMixes ==
  ASSUME LoginInv, NEW t \in Threads, ~InLogin(t), Enter(t),
         NEW l \in {"create", "relogin"}, MovesTo(t, l)
  PROVE  /\ MixedOK'
         /\ \A s \in Threads \ {t} : InLogin(s)' => s \in mixed'
<1>1. \A s \in Threads \ {t} : InLogin(s)' <=> InLogin(s)
  BY DEF MovesTo, InLogin
<1>2. \A s \in Threads \ {t} : InLogin(s) => s \in mixed' /\ t \in mixed'
  BY DEF Enter, Others
<1>3. mixed \subseteq mixed'
  BY DEF Enter
<1> QED
  BY <1>1, <1>2, <1>3 DEF LoginInv, MixedOK

\* A token is issued to the account of t.
LEMMA IssueKeeps ==
  ASSUME LoginInv, NEW t \in Threads, account[t] \in Accounts, Issue(t, account[t]),
         Len(issued) < MaxLogins
  PROVE  /\ token'[t] # None
         /\ token'[t] \in DOMAIN issued' /\ issued'[token'[t]] = account[t]
         /\ \A s \in Threads \ {t} : token'[s] = token[s]
         /\ \A n \in DOMAIN issued : n \in DOMAIN issued' /\ issued'[n] = issued[n]
<1>1. /\ issued \in Seq(Accounts) /\ Len(issued') = Len(issued) + 1
      /\ DOMAIN issued' = 1 .. Len(issued') /\ DOMAIN issued = 1 .. Len(issued)
      /\ Len(issued) \in Nat
      /\ issued'[Len(issued')] = account[t]
      /\ \A n \in DOMAIN issued : issued'[n] = issued[n]
  BY DEF LoginInv, TypeOK, Issue
<1>2. token'[t] = Len(issued') /\ \A s \in Threads \ {t} : token'[s] = token[s]
  BY DEF LoginInv, TypeOK, Issue
<1>3. Len(issued') \in 1 .. MaxLogins
  BY <1>1, SessionAssumption
<1> QED
  BY <1>1, <1>2, <1>3, SessionAssumption

\* What is left of FileOK if no save begins or ends.
LEMMA KeepsFile ==
  ASSUME LoginInv, UNCHANGED <<file, spoiled>>, NEW t \in Threads, NEW l, MovesTo(t, l),
         pc[t] # "write", l # "write"
  PROVE  FileOK' /\ \A s \in Threads : Saving(s)' <=> Saving(s)
<1>1. \A s \in Threads : Saving(s)' <=> Saving(s)
  BY DEF MovesTo, Saving
<1> QED
  BY <1>1 DEF LoginInv, FileOK

LEMMA InvLoginSucceeds ==
  ASSUME LoginInv, TypeOK', DownOK', NEW h \in Threads, LoginSucceeds(h)
  PROVE  LoginInv'
<1> USE WordsAre DEF WordsFact
<1>1. /\ pc[h] = "rpc" /\ Issue(h, account[h]) /\ Enter(h) /\ Len(issued) < MaxLogins
      /\ UNCHANGED <<file, memory, account, muddled, spoiled>>
  BY SessionAssumption DEF LoginSucceeds, Enter, LoginInv, TypeOK
<1>2. MovesTo(h, "create")
  BY GotoMoves DEF LoginSucceeds, LoginInv
<1>3. account[h] \in Accounts /\ ~InLogin(h)
  BY <1>1 DEF LoginInv, LoginOK, InLogin
<1>4. /\ token'[h] # None
      /\ token'[h] \in DOMAIN issued' /\ issued'[token'[h]] = account[h]
      /\ \A s \in Threads \ {h} : token'[s] = token[s]
      /\ \A n \in DOMAIN issued : n \in DOMAIN issued' /\ issued'[n] = issued[n]
  BY <1>1, <1>3, IssueKeeps
<1>5. InLogin(h)' /\ \A s \in Threads \ {h} : InLogin(s)' <=> InLogin(s)
  BY <1>2 DEF MovesTo, InLogin
<1>6. LoginOK'
  BY <1>1, <1>2, <1>3, <1>4, <1>5 DEF LoginInv, LoginOK, MovesTo
<1>7. WordsOK'
  BY <1>1, <1>2, <1>4, KeepsWords
<1>8. FileOK' /\ \A s \in Threads : Saving(s)' <=> Saving(s)
  BY <1>1, <1>2, KeepsFile
<1>9. MixedOK' /\ \A s \in Threads \ {h} : InLogin(s)' => s \in mixed'
  BY <1>1, <1>2, <1>3, EnterMixes
<1>10. AloneOK'
  BY <1>2, <1>9 DEF AloneOK, MovesTo
<1>11. SettledOK'
  <2>1. \A s \in Threads : pc'[s] \notin Words => pc[s] \notin Words
    BY <1>1, <1>2 DEF MovesTo
  <2> QED
    BY <1>1, <1>4, <1>8, <2>1 DEF LoginInv, SettledOK
<1> QED
  BY <1>6, <1>7, <1>8, <1>9, <1>10, <1>11 DEF LoginInv

LEMMA InvReadLogin ==
  ASSUME LoginInv, TypeOK', DownOK', NEW t \in Threads, ReadLogin(t)
  PROVE  LoginInv'
<1> USE WordsAre DEF WordsFact
<1>1. /\ pc[t] = "file" /\ file \in Accounts /\ Enter(t)
      /\ UNCHANGED <<file, memory, token, issued, muddled, spoiled>>
  BY DEF ReadLogin, Enter, gateway
<1>2. MovesTo(t, "relogin")
  BY GotoMoves DEF ReadLogin, LoginInv
<1>3. ~InLogin(t) /\ token[t] = None
  BY <1>1, NoToken DEF InLogin
<1>4. account'[t] = file /\ \A s \in Threads \ {t} : account'[s] = account[s]
  BY DEF ReadLogin, LoginInv, TypeOK
<1>5. InLogin(t)' /\ \A s \in Threads \ {t} : InLogin(s)' <=> InLogin(s)
  BY <1>2 DEF MovesTo, InLogin
<1>6. LoginOK'
  BY <1>1, <1>2, <1>3, <1>4, <1>5 DEF LoginInv, LoginOK, MovesTo
<1>7. WordsOK'
  BY <1>1, <1>2, KeepsWords
<1>8. FileOK' /\ \A s \in Threads : Saving(s)' <=> Saving(s)
  BY <1>1, <1>2, KeepsFile
<1>9. MixedOK' /\ \A s \in Threads \ {t} : InLogin(s)' => s \in mixed'
  BY <1>1, <1>2, <1>3, EnterMixes
<1>10. AloneOK'
  BY <1>1, <1>2, <1>4, <1>9 DEF AloneOK, MovesTo
<1>11. SettledOK'
  <2>1. \A s \in Threads : pc'[s] \notin Words => pc[s] \notin Words
    BY <1>1, <1>2 DEF MovesTo
  <2> QED
    BY <1>1, <1>8, <2>1 DEF LoginInv, SettledOK
<1> QED
  BY <1>6, <1>7, <1>8, <1>9, <1>10, <1>11 DEF LoginInv

LEMMA InvCreateFile ==
  ASSUME LoginInv, TypeOK', DownOK', NEW h \in Threads, CreateFile(h)
  PROVE  LoginInv'
<1> USE WordsAre DEF WordsFact
<1>1. /\ pc[h] = "create" /\ file' = Empty
      /\ spoiled' <=> \E t \in Threads : Saving(t)
      /\ UNCHANGED <<memory, account, token, issued, mixed, muddled>>
  BY DEF CreateFile, login, gateway
<1>2. MovesTo(h, "write")
  BY GotoMoves DEF CreateFile, LoginInv
<1>3. InLogin(h) /\ \A s \in Threads : InLogin(s)' <=> InLogin(s)
  BY <1>1, <1>2 DEF MovesTo, InLogin
<1>4. Saving(h)' /\ \A s \in Threads \ {h} : Saving(s)' <=> Saving(s)
  BY <1>2 DEF MovesTo, Saving
<1>5. LoginOK'
  BY <1>1, <1>2, <1>3 DEF LoginInv, LoginOK, MovesTo
<1>6. WordsOK'
  BY <1>1, <1>2, KeepsWords
<1>7. FileOK'
  BY <1>1, <1>4 DEF FileOK
<1>8. MixedOK'
  BY <1>1, <1>3 DEF LoginInv, MixedOK
<1>9. AloneOK'
  <2>1. \A s \in Threads \ {h} : InLogin(s)' => s \in mixed'
    BY <1>1, <1>3 DEF LoginInv, MixedOK
  <2> QED
    BY <1>2, <2>1 DEF AloneOK, MovesTo
<1>10. SettledOK'
  <2>1. \A s \in Threads : pc'[s] \notin Words => pc[s] \notin Words
    BY <1>1, <1>2 DEF MovesTo
  <2> QED
    BY <1>1, <1>4, <2>1 DEF LoginInv, SettledOK
<1> QED
  BY <1>5, <1>6, <1>7, <1>8, <1>9, <1>10 DEF LoginInv

LEMMA InvWriteFile ==
  ASSUME LoginInv, TypeOK', DownOK', NEW h \in Threads, WriteFile(h)
  PROVE  LoginInv'
<1> USE WordsAre DEF WordsFact
<1>1. /\ pc[h] = "write"
      /\ file' \in (IF file = Empty THEN {account[h]} ELSE {account[h], Garbled})
      /\ UNCHANGED <<memory, account, token, issued, mixed, muddled, spoiled>>
  BY DEF WriteFile, login, gateway, history
<1>2. MovesTo(h, "id1")
  <2>1. Order[1] = "id1"
    BY DEF Order
  <2> QED
    BY <2>1, GotoMoves DEF WriteFile, LoginInv
<1>3. InLogin(h) /\ \A s \in Threads : InLogin(s)' <=> InLogin(s)
  BY <1>1, <1>2 DEF MovesTo, InLogin
<1>4. Saving(h) /\ ~Saving(h)' /\ \A s \in Threads \ {h} : Saving(s)' <=> Saving(s)
  BY <1>1, <1>2 DEF MovesTo, Saving
<1>5. account[h] \in Accounts
  BY <1>3 DEF LoginInv, LoginOK
<1>6. ~spoiled => file' = account[h] /\ \A s \in Threads : ~Saving(s)'
  BY <1>1, <1>4 DEF LoginInv, FileOK
<1>7. LoginOK'
  BY <1>1, <1>2, <1>3 DEF LoginInv, LoginOK, MovesTo
<1>8. WordsOK'
  BY <1>1, <1>2, KeepsWords
<1>9. FileOK'
  BY <1>1, <1>5, <1>6, SessionAssumption DEF FileOK
<1>10. MixedOK'
  BY <1>1, <1>3 DEF LoginInv, MixedOK
<1>11. AloneOK'
  <2>1. \A s \in Threads \ {h} : InLogin(s)' => s \in mixed'
    BY <1>1, <1>3 DEF LoginInv, MixedOK
  <2> QED
    BY <1>1, <1>2, <1>6, <2>1 DEF AloneOK, MovesTo
<1>12. SettledOK'
  BY <1>2 DEF SettledOK, MovesTo
<1> QED
  BY <1>7, <1>8, <1>9, <1>10, <1>11, <1>12 DEF LoginInv

\* The login of t ends: the others go on, each mixed as before.
LEMMA ForgetKeeps ==
  ASSUME LoginInv, NEW t \in Threads, Forget(t)
  PROVE  /\ token'[t] = None
         /\ \A s \in Threads \ {t} : /\ account'[s] = account[s]
                                     /\ token'[s] = token[s]
                                     /\ s \in mixed' <=> s \in mixed
BY DEF LoginInv, TypeOK, Forget

LEMMA InvSaveFails ==
  ASSUME LoginInv, TypeOK', DownOK', NEW h \in Threads, SaveFails(h)
  PROVE  LoginInv'
<1> USE WordsAre DEF WordsFact
<1>1. Forget(h) /\ Goto(h, "idle") /\ UNCHANGED <<memory, issued, muddled>>
  BY DEF SaveFails, gateway
<1>2. CASE pc[h] = "create" /\ UNCHANGED <<file, spoiled>>
  <2>1. \E b \in BOOLEAN : memory' = [memory EXCEPT !.healthy = b]
    BY <1>1, StaysSame DEF LoginInv
  <2>2. Quiet
    BY <1>1, <1>2, <2>1, LeavesIsQuiet DEF Elsewhere
  <2> QED
    BY <2>2, QuietKeeps
<1>3. CASE pc[h] = "write" /\ spoiled' = TRUE
  <2>1. MovesTo(h, "idle")
    BY <1>1, GotoMoves DEF LoginInv
  <2>2. /\ token'[h] = None
        /\ \A s \in Threads \ {h} : /\ account'[s] = account[s]
                                    /\ token'[s] = token[s]
                                    /\ s \in mixed' <=> s \in mixed
    BY <1>1, ForgetKeeps
  <2>3. ~InLogin(h)' /\ \A s \in Threads \ {h} : InLogin(s)' <=> InLogin(s)
    BY <2>1 DEF MovesTo, InLogin
  <2>4. LoginOK'
    BY <1>1, <2>1, <2>2, <2>3 DEF LoginInv, LoginOK, MovesTo
  <2>5. WordsOK'
    BY <1>1, <1>3, <2>1, <2>2, KeepsWords
  <2>6. FileOK' /\ (spoiled')
    BY <1>3 DEF FileOK
  <2>7. MixedOK'
    BY <2>2, <2>3 DEF LoginInv, MixedOK
  <2>8. AloneOK'
    BY <1>1, <2>1, <2>2, <2>3, <2>6 DEF LoginInv, AloneOK, MovesTo
  <2>9. SettledOK'
    <3>1. \A s \in Threads : pc'[s] \notin Words => pc[s] \notin Words
      BY <1>3, <2>1 DEF MovesTo
    <3> QED
      BY <1>1, <2>6, <3>1 DEF LoginInv, SettledOK
  <2> QED
    BY <2>4, <2>5, <2>6, <2>7, <2>8, <2>9 DEF LoginInv
<1> QED
  BY <1>2, <1>3 DEF SaveFails

LEMMA InvRelogin ==
  ASSUME LoginInv, TypeOK', DownOK', NEW t \in Threads,
         ReloginSucceeds(t) \/ ReloginRefused(t)
  PROVE  LoginInv'
<1> USE WordsAre DEF WordsFact
<1>1. /\ pc[t] = "relogin"
      /\ UNCHANGED <<file, memory, account, mixed, muddled, spoiled>>
  BY DEF ReloginSucceeds, ReloginRefused, login, history
<1>2. MovesTo(t, "id1")
  <2>1. Order[1] = "id1"
    BY DEF Order
  <2> QED
    BY <2>1, GotoMoves DEF ReloginSucceeds, ReloginRefused, LoginInv
<1>3. InLogin(t) /\ \A s \in Threads : InLogin(s)' <=> InLogin(s)
  BY <1>1, <1>2 DEF MovesTo, InLogin
<1>4. account[t] \in Accounts
  BY <1>3 DEF LoginInv, LoginOK
<1>5. /\ token'[t] # None => token'[t] \in DOMAIN issued' /\ issued'[token'[t]] = account[t]
      /\ \A s \in Threads \ {t} : token'[s] = token[s]
      /\ \A n \in DOMAIN issued : n \in DOMAIN issued' /\ issued'[n] = issued[n]
  <2>1. CASE ReloginSucceeds(t)
    BY <1>4, <2>1, IssueKeeps DEF ReloginSucceeds
  <2>2. CASE ReloginRefused(t)
    BY <2>2 DEF ReloginRefused, login, gateway, LoginInv, LoginOK
  <2> QED
    BY <2>1, <2>2
<1>6. LoginOK'
  BY <1>1, <1>2, <1>3, <1>4, <1>5 DEF LoginInv, LoginOK, MovesTo
<1>7. WordsOK'
  BY <1>1, <1>2, <1>5, KeepsWords
<1>8. FileOK'
  BY <1>1, <1>2, KeepsFile
<1>9. MixedOK'
  BY <1>1, <1>3 DEF LoginInv, MixedOK
<1>10. AloneOK'
  <2>1. \A s \in Threads \ {t} : InLogin(s)' => s \in mixed'
    BY <1>1, <1>3 DEF LoginInv, MixedOK
  <2> QED
    BY <1>1, <1>2, <1>3, <1>5, <2>1 DEF LoginInv, AloneOK, MovesTo
<1>11. SettledOK'
  BY <1>2 DEF SettledOK, MovesTo
<1> QED
  BY <1>6, <1>7, <1>8, <1>9, <1>10, <1>11 DEF LoginInv

LEMMA InvLogin ==
  ASSUME LoginInv, TypeOK', DownOK', NEW h \in Threads,
         LoginRefused(h) \/ \E a \in Accounts : Login(h, a)
  PROVE  LoginInv'
<1> USE WordsAre DEF WordsFact
<1>1. pc[h] \in {"rpc", "idle"} /\ UNCHANGED <<file, memory, issued, muddled, spoiled>>
  BY DEF Login, LoginRefused, gateway, history
<1>2. \E b \in BOOLEAN : memory' = [memory EXCEPT !.healthy = b]
  BY <1>1, StaysSame DEF LoginInv
<1>3. CASE LoginRefused(h)
  BY <1>1, <1>2, <1>3, LeavesIsQuiet, QuietKeeps DEF LoginRefused, Elsewhere
<1>4. ASSUME NEW a \in Accounts, Login(h, a) PROVE LoginInv'
  <2>1. token[h] = None
    BY <1>1, NoToken DEF InLogin
  <2>2. account'[h] = a /\ \A s \in Threads \ {h} : account'[s] = account[s]
    BY <1>4 DEF Login, LoginInv, TypeOK
  <2>3. Goto(h, "rpc") /\ UNCHANGED <<token, mixed>>
    BY <1>4 DEF Login, history
  <2> QED
    BY <1>1, <1>2, <2>1, <2>2, <2>3, LeavesIsQuiet, QuietKeeps DEF Elsewhere
<1> QED
  BY <1>3, <1>4

-----------------------------------------------------------------------------
(* The steps that write the words.                                         *)

\* One word changes, one goroutine goes on.
OneWord(t, word, value, next) ==
  /\ pc[t] = word
  /\ MovesTo(t, next)
  /\ UNCHANGED <<file, issued, account, token, mixed, muddled, spoiled>>
  /\ memory' = [memory EXCEPT ![word] = value]

LEMMA WritesOneWord ==
  ASSUME LoginInv, NEW t \in Threads, NEW word, NEW value, NEW next,
         Writes(t, word, value, next), UNCHANGED <<file, gateway, spoiled>>
  PROVE  OneWord(t, word, value, next)
BY GotoMoves DEF Writes, OneWord, login, gateway, LoginInv

\* The values that one of these steps leaves in the memory.
OneValue(t) ==
  LET Rest(word) == \A w \in {"id1", "id2", "token1", "token2", "userId"} \ {word} :
                      memory'[w] = memory[w]
  IN  /\ \/ pc[t] = "id1" /\ pc'[t] = "id2" /\ memory'.id1 = account[t] /\ Rest("id1")
         \/ pc[t] = "id2" /\ pc'[t] = "token1" /\ memory'.id2 = account[t] /\ Rest("id2")
         \/ /\ pc[t] = "token1" /\ pc'[t] = "token2"
            /\ memory'.token1 = token[t] /\ Rest("token1")
         \/ /\ pc[t] = "token2" /\ pc'[t] = "userId"
            /\ memory'.token2 = token[t] /\ Rest("token2")
         \/ /\ pc[t] = "userId" /\ pc'[t] = "ready"
            /\ memory'.userId = account[t] /\ Rest("userId")
         \/ pc[t] = "ready" /\ pc'[t] = "healthy" /\ Rest("ready")
      /\ (memory'.ready => memory.ready \/ pc[t] = "ready")

LEMMA WritesOneValue ==
  ASSUME LoginInv, NEW t \in Threads,
         \/ OneWord(t, "id1", account[t], "id2")
         \/ OneWord(t, "id2", account[t], "token1")
         \/ OneWord(t, "token1", token[t], "token2")
         \/ OneWord(t, "token2", token[t], "userId")
         \/ OneWord(t, "userId", account[t], "ready")
         \/ OneWord(t, "ready", TRUE, "healthy")
  PROVE  OneValue(t)
<1> USE DEF OneWord, OneValue, MovesTo, LoginInv, TypeOK
<1>1. CASE OneWord(t, "id1", account[t], "id2")
  BY <1>1
<1>2. CASE OneWord(t, "id2", account[t], "token1")
  BY <1>2
<1>3. CASE OneWord(t, "token1", token[t], "token2")
  BY <1>3
<1>4. CASE OneWord(t, "token2", token[t], "userId")
  BY <1>4
<1>5. CASE OneWord(t, "userId", account[t], "ready")
  BY <1>5
<1>6. CASE OneWord(t, "ready", TRUE, "healthy")
  BY <1>6
<1> QED
  BY <1>1, <1>2, <1>3, <1>4, <1>5, <1>6

LEMMA InvWrites ==
  ASSUME LoginInv, TypeOK', DownOK', NEW t \in Threads, OneValue(t), ~Panics(t),
         UNCHANGED <<file, issued, account, token, mixed, muddled, spoiled>>,
         \A s \in Threads \ {t} : pc'[s] = pc[s]
  PROVE  LoginInv'
<1> USE WordsAre DEF WordsFact
<1>1. pc[t] \in Words \ {"healthy"} /\ pc'[t] \in Words \ {"id1"}
  BY DEF OneValue
<1>2. InLogin(t) /\ \A s \in Threads : InLogin(s)' <=> InLogin(s)
  BY <1>1 DEF InLogin
<1>3. \A s \in Threads : Saving(s)' <=> Saving(s)
  BY <1>1 DEF Saving
<1>4. account[t] \in Accounts /\ account[t] # None
  BY <1>2, SessionAssumption DEF LoginInv, LoginOK
<1>5. LoginOK'
  BY <1>1, <1>2 DEF LoginInv, LoginOK
<1>6. WordsOK'
  <2> USE DEF OneValue
  <2>1. WordsOK
    BY DEF LoginInv
  <2>2. pc[t] = "userId" => token[t] # None
    BY DEF Panics
  <2>3. Doomed => Doomed'
    BY <2>2 DEF Doomed
  <2>4. pc'[t] \in {"ready", "healthy"} => token[t] # None
    BY <2>1, <2>2 DEF WordsOK
  <2>5. \A s \in Threads : pc'[s] \in {"ready", "healthy"} => token'[s] # None
    BY <2>1, <2>4 DEF WordsOK
  <2>6. (memory.id1 = None => NotYet({"id2", "token1", "token2", "userId", "ready", "healthy"}))'
    BY <1>4, <2>1 DEF WordsOK, NotYet
  <2>7. (memory.id2 = None => NotYet({"token1", "token2", "userId", "ready", "healthy"}))'
    BY <1>4, <2>1 DEF WordsOK, NotYet
  <2>8. (memory.token1 = None =>
           Doomed \/ NotYet({"token2", "userId", "ready", "healthy"}))'
    BY <2>1, <2>3 DEF WordsOK, NotYet, Doomed
  <2>9. (memory.token2 = None => Doomed \/ NotYet({"userId", "ready", "healthy"}))'
    BY <2>1, <2>3 DEF WordsOK, NotYet, Doomed
  <2>10. (memory.userId = None => NotYet({"ready", "healthy"}))'
    BY <1>4, <2>1 DEF WordsOK, NotYet
  <2> QED
    BY <2>5, <2>6, <2>7, <2>8, <2>9, <2>10 DEF WordsOK
<1>7. FileOK'
  BY <1>3 DEF LoginInv, FileOK
<1>8. MixedOK'
  BY <1>2 DEF LoginInv, MixedOK
<1>9. AloneOK'
  <2>1. \A s \in Threads \ {t} : InLogin(s)' => s \in mixed'
    BY <1>2 DEF LoginInv, MixedOK
  <2>2. AloneOK
    BY DEF LoginInv
  <2>3. ASSUME t \notin mixed
        PROVE  /\ spoiled' \/ file' = account'[t]
               /\ pc'[t] \in {"id2", "token1", "token2", "userId", "ready", "healthy"} =>
                    memory'.id1 = account'[t]
               /\ pc'[t] \in {"token1", "token2", "userId", "ready", "healthy"} =>
                    memory'.id2 = account'[t]
               /\ pc'[t] \in {"token2", "userId", "ready", "healthy"} =>
                    memory'.token1 = token'[t]
               /\ pc'[t] \in {"userId", "ready", "healthy"} => memory'.token2 = token'[t]
               /\ pc'[t] \in {"ready", "healthy"} => memory'.userId = account'[t]
    BY <1>1, <1>2, <2>2, <2>3 DEF AloneOK, OneValue
  <2> QED
    BY <2>1, <2>3 DEF AloneOK
<1>10. SettledOK'
  BY <1>1 DEF SettledOK
<1> QED
  BY <1>5, <1>6, <1>7, <1>8, <1>9, <1>10 DEF LoginInv

LEMMA InvEnds ==
  ASSUME LoginInv, TypeOK', DownOK', NEW t \in Threads, Ends(t),
         UNCHANGED <<file, gateway, spoiled>>
  PROVE  LoginInv'
<1> USE WordsAre DEF WordsFact
<1>1. /\ memory'.id1 = memory.id1 /\ memory'.id2 = memory.id2
      /\ memory'.token1 = memory.token1 /\ memory'.token2 = memory.token2
      /\ memory'.userId = memory.userId
      /\ memory'.ready <=> memory.ready
  BY DEF Ends, LoginInv, TypeOK
<1>2. PICK l \in {"idle", "loginId"} : MovesTo(t, l)
  BY GotoMoves DEF Ends, Resume, LoginInv
<1>3. pc[t] = "healthy" /\ InLogin(t) /\ token[t] # None
  BY DEF Ends, LoginInv, WordsOK, InLogin
<1>4. /\ token'[t] = None
      /\ \A s \in Threads \ {t} : /\ account'[s] = account[s]
                                  /\ token'[s] = token[s]
                                  /\ s \in mixed' <=> s \in mixed
  BY ForgetKeeps DEF Ends
<1>5. ~InLogin(t)' /\ \A s \in Threads \ {t} : InLogin(s)' <=> InLogin(s)
  BY <1>2 DEF MovesTo, InLogin
<1>6. \A s \in Threads : Saving(s)' <=> Saving(s)
  BY <1>2, <1>3 DEF MovesTo, Saving
<1>7. LoginOK'
  BY <1>2, <1>4, <1>5 DEF LoginInv, LoginOK, MovesTo, gateway
<1>8. WordsOK'
  <2>1. \A s \in Threads :
          /\ pc'[s] \in Words => pc'[s] = pc[s] /\ token'[s] = token[s]
          /\ pc[s] \in {"token2", "userId"} => pc'[s] = pc[s] /\ token'[s] = token[s]
    BY <1>2, <1>3, <1>4 DEF MovesTo
  <2> QED
    BY <1>1, <2>1 DEF LoginInv, WordsOK, NotYet, Doomed
<1>9. FileOK'
  BY <1>6 DEF LoginInv, FileOK
<1>10. MixedOK'
  BY <1>4, <1>5 DEF LoginInv, MixedOK
<1>11. AloneOK'
  <2>1. ASSUME NEW s \in Threads, InLogin(s)', s \notin mixed' PROVE FALSE
    BY <1>3, <1>4, <1>5, <2>1 DEF LoginInv, MixedOK
  <2> QED
    BY <2>1 DEF AloneOK
<1>12. SettledOK'
  <2> SUFFICES ASSUME ~(muddled') PROVE SettledOK'
    BY DEF SettledOK
  <2>1. t \notin mixed
    BY DEF Ends
  <2>2. /\ spoiled \/ file = account[t]
        /\ memory.id1 = account[t] /\ memory.id2 = account[t]
        /\ memory.token1 = token[t] /\ memory.token2 = token[t]
        /\ memory.userId = account[t]
    BY <1>3, <2>1 DEF LoginInv, AloneOK
  <2>3. token[t] \in DOMAIN issued /\ issued[token[t]] = account[t]
    BY <1>3 DEF LoginInv, LoginOK
  <2> QED
    BY <1>1, <2>2, <2>3 DEF SettledOK, gateway
<1> QED
  BY <1>7, <1>8, <1>9, <1>10, <1>11, <1>12 DEF LoginInv

LEMMA InvAssign ==
  ASSUME LoginInv, TypeOK', DownOK', NEW t \in Threads, Assign(t)
  PROVE  LoginInv'
<1>1. AssignFact(t)
  BY AssignCases
<1>2. CASE Ends(t)
  BY <1>1, <1>2, InvEnds DEF AssignFact
<1>3. CASE ~Ends(t)
  <2>1. ~Panics(t) /\ UNCHANGED <<file, gateway, spoiled>>
    BY <1>1 DEF AssignFact
  <2>2. \/ OneWord(t, "id1", account[t], "id2")
        \/ OneWord(t, "id2", account[t], "token1")
        \/ OneWord(t, "token1", token[t], "token2")
        \/ OneWord(t, "token2", token[t], "userId")
        \/ OneWord(t, "userId", account[t], "ready")
        \/ OneWord(t, "ready", TRUE, "healthy")
    BY Zenon, <1>1, <1>3, <2>1, WritesOneWord DEF AssignFact
  <2>3. OneValue(t)
    BY Zenon, <2>2, WritesOneValue
  <2>4. /\ UNCHANGED <<file, issued, account, token, mixed, muddled, spoiled>>
        /\ \A s \in Threads \ {t} : pc'[s] = pc[s]
    BY Zenon, <2>2 DEF OneWord, MovesTo
  <2> QED
    BY <2>1, <2>3, <2>4, InvWrites
<1> QED
  BY Zenon, <1>2, <1>3

-----------------------------------------------------------------------------
(* All steps.                                                              *)

LEMMA DownReloginFails ==
  ASSUME LoginInv, NEW t \in Jobs \cup {"main"}, pc[t] \in {"file", "relogin"},
         NEW healthy, ReloginFails(t, healthy)
  PROVE  DownOK'
<1>1. up # "down"
  BY ThreadsAre DEF LoginInv, DownOK
<1>2. CASE Die
  BY <1>2 DEF Die, DownOK
<1>3. CASE Resume(t)
  BY <1>1, <1>3 DEF Resume, DownOK
<1> QED
  BY Zenon, <1>2, <1>3 DEF ReloginFails

LEMMA DownStep ==
  ASSUME LoginInv, [Next]_vars
  PROVE  DownOK'
<1> USE ThreadsAre, WordsAre DEF WordsFact
<1>1. CASE Launch
  BY <1>1 DEF Launch, DownOK
<1>2. ASSUME Die PROVE DownOK'
  BY <1>2 DEF Die, DownOK
<1>3. CASE Handler
  <2>1. up # "down" /\ up' = up
    BY <1>3 DEF Handler, Login, LoginRefused, LoginSucceeds, CreateFile, WriteFile,
      SaveFails, LoginInv, DownOK
  <2> QED
    BY <2>1 DEF DownOK
<1>4. CASE LoginByFile
  <2>1. PICK t \in Jobs \cup {"main"} :
          \/ ReadLogin(t)
          \/ ReadLoginFails(t)
          \/ ReadLoginPanics(t)
          \/ ReloginSucceeds(t)
          \/ ReloginRefused(t)
          \/ ReloginError(t)
    BY Zenon, <1>4 DEF LoginByFile
  <2>2. CASE ReadLogin(t) \/ ReloginSucceeds(t) \/ ReloginRefused(t)
    BY <2>2 DEF ReadLogin, ReloginSucceeds, ReloginRefused, LoginInv, DownOK
  <2>3. CASE ReadLoginFails(t) \/ ReloginError(t)
    BY <2>3, DownReloginFails DEF ReadLoginFails, ReloginError
  <2>4. CASE ReadLoginPanics(t)
    BY <1>2, <2>4 DEF ReadLoginPanics
  <2> QED
    BY <2>1, <2>2, <2>3, <2>4
<1>5. ASSUME NEW t \in Threads, Assign(t) PROVE DownOK'
  <2>1. up # "down"
    BY <1>5, AssignCases DEF AssignFact, Writes, Ends, LoginInv, DownOK
  <2>2. up' # "down"
    BY <1>5, <2>1, AssignCases DEF AssignFact, Writes, Ends, Resume
  <2> QED
    BY <2>2 DEF DownOK
<1>6. CASE Report
  BY <1>6 DEF Report, Begin, ReadLoginId, ReadToken, ReportSucceeds, ReportFails,
    ReportRefused, LoginInv, DownOK
<1>7. ASSUME NEW n \in Tokens, Expire(n) PROVE DownOK'
  BY <1>7 DEF Expire, LoginInv, DownOK
<1>8. CASE UNCHANGED vars
  BY <1>8 DEF vars, LoginInv, DownOK
<1> QED
  BY Zenon, <1>1, <1>2, <1>3, <1>4, <1>5, <1>6, <1>7, <1>8 DEF Next, Kill, AssignPanics

LEMMA InvNext ==
  ASSUME LoginInv, [Next]_vars
  PROVE  LoginInv'
<1> USE ThreadsAre
<1>1. TypeOK' /\ DownOK'
  BY TypeStep, DownStep DEF LoginInv
<1>2. CASE Launch
  BY <1>1, <1>2, InvLaunch
<1>3. CASE Die
  BY <1>3, InvDie
<1>4. CASE Handler
  <2>1. PICK h \in Handlers :
          \/ \E a \in Accounts : Login(h, a)
          \/ LoginRefused(h)
          \/ LoginSucceeds(h)
          \/ CreateFile(h)
          \/ WriteFile(h)
          \/ SaveFails(h)
    BY Zenon, <1>4 DEF Handler
  <2> QED
    BY <1>1, <2>1, InvLogin, InvLoginSucceeds, InvCreateFile, InvWriteFile, InvSaveFails
<1>5. CASE LoginByFile
  <2>1. PICK t \in Jobs \cup {"main"} :
          \/ ReadLogin(t)
          \/ ReadLoginFails(t)
          \/ ReadLoginPanics(t)
          \/ ReloginSucceeds(t)
          \/ ReloginRefused(t)
          \/ ReloginError(t)
    BY Zenon, <1>5 DEF LoginByFile
  <2>2. CASE ReadLoginFails(t)
    <3>1. memory.healthy \in BOOLEAN
      BY DEF LoginInv, TypeOK
    <3> QED
      BY <1>1, <2>2, <3>1, InvReloginFails DEF ReadLoginFails
  <2>3. CASE ReadLoginPanics(t)
    BY Zenon, <1>3, <2>3 DEF ReadLoginPanics
  <2>4. CASE ReloginError(t)
    BY <1>1, <2>4, InvReloginFails DEF ReloginError
  <2> QED
    BY <1>1, <2>1, <2>2, <2>3, <2>4, InvReadLogin, InvRelogin
<1>6. ASSUME NEW t \in Threads, Assign(t) PROVE LoginInv'
  BY <1>1, <1>6, InvAssign
<1>7. CASE Report
  BY <1>1, <1>7, InvReport
<1>8. ASSUME NEW n \in Tokens, Expire(n) PROVE LoginInv'
  BY <1>1, <1>8, InvExpire DEF Expire
<1>9. CASE UNCHANGED vars
  BY <1>1, <1>9, InvExpire DEF vars, login, history
<1> QED
  BY Zenon, <1>2, <1>3, <1>4, <1>5, <1>6, <1>7, <1>8, <1>9 DEF Next, Kill, AssignPanics

-----------------------------------------------------------------------------
(* The messages of the jobs.                                               *)

\* A step that leaves the messages, and all words but healthy, as they are.
Carries ==
  /\ memory'.id1 = memory.id1 /\ memory'.id2 = memory.id2
  /\ memory'.token1 = memory.token1 /\ memory'.token2 = memory.token2
  /\ \A n \in DOMAIN issued : n \in DOMAIN issued' /\ issued'[n] = issued[n]
  /\ UNCHANGED <<stamp, request, crossed>>
  /\ \A j \in Jobs :
       \/ pc'[j] = pc[j]
       \/ /\ pc[j] # "idle" /\ pc'[j] \notin {"token", "sent"}
          /\ j = "collect" \/ pc'[j] # "loginId"

LEMMA CarriesKeeps ==
  ASSUME StampOK, MessageOK, Carries
  PROVE  StampOK' /\ MessageOK'
<1>1. StampOK'
  BY DEF StampOK, Carries
<1>2. \A j \in Jobs : OneLogin(j) => OneLogin(j)'
  BY DEF OneLogin, Carries
<1>3. MessageOK'
  BY <1>2 DEF MessageOK, Carries
<1> QED
  BY <1>1, <1>3

LEMMA MessageDie == Die => StampOK' /\ MessageOK'
BY ThreadsAre DEF Die, StampOK, MessageOK, NoStamp

\* A goroutine that is not a job.
LEMMA MessageElsewhere ==
  ASSUME LoginInv, StampOK, MessageOK, NEW t \in Threads \ Jobs, NEW l, Goto(t, l),
         UNCHANGED <<memory, stamp, request, crossed>>,
         \A n \in DOMAIN issued : n \in DOMAIN issued' /\ issued'[n] = issued[n]
  PROVE  StampOK' /\ MessageOK'
<1>1. \A j \in Jobs : pc'[j] = pc[j]
  BY ThreadsAre DEF Goto, LoginInv, TypeOK
<1> QED
  BY <1>1, CarriesKeeps DEF Carries

LEMMA MessageHandler ==
  ASSUME LoginInv, StampOK, MessageOK, Handler
  PROVE  StampOK' /\ MessageOK'
<1>1. PICK h \in Handlers :
        \/ \E a \in Accounts : Login(h, a)
        \/ LoginRefused(h)
        \/ LoginSucceeds(h)
        \/ CreateFile(h)
        \/ WriteFile(h)
        \/ SaveFails(h)
  BY Zenon DEF Handler
<1>2. h \in Threads \ Jobs
  BY SessionAssumption, ThreadsAre
<1>3. UNCHANGED <<memory, stamp, request, crossed>>
  BY <1>1 DEF Login, LoginRefused, LoginSucceeds, CreateFile, WriteFile, SaveFails,
    report, history, Enter
<1>4. \E l : Goto(h, l)
  BY <1>1 DEF Login, LoginRefused, LoginSucceeds, CreateFile, WriteFile, SaveFails
<1>5. \A n \in DOMAIN issued : n \in DOMAIN issued' /\ issued'[n] = issued[n]
  <2>1. CASE LoginSucceeds(h)
    <3>1. account[h] \in Accounts /\ Issue(h, account[h])
      BY <1>2, <2>1 DEF LoginSucceeds, LoginInv, LoginOK
    <3>2. Len(issued) < MaxLogins
      BY <2>1, SessionAssumption DEF LoginSucceeds, LoginInv, TypeOK
    <3> QED
      BY <1>2, <3>1, <3>2, IssueKeeps
  <2>2. CASE UNCHANGED issued
    BY <2>2
  <2> QED
    BY <1>1, <2>1, <2>2 DEF Login, LoginRefused, CreateFile, WriteFile, SaveFails, gateway
<1> QED
  BY <1>2, <1>3, <1>4, <1>5, MessageElsewhere

LEMMA MessageReloginFails ==
  ASSUME LoginInv, StampOK, MessageOK, NEW t \in Jobs \cup {"main"},
         pc[t] \in {"file", "relogin"}, NEW healthy \in BOOLEAN, ReloginFails(t, healthy)
  PROVE  StampOK' /\ MessageOK'
<1>1. CASE t \in Jobs /\ Resume(t)
           /\ memory' = [memory EXCEPT !.healthy = healthy]
           /\ UNCHANGED <<file, report, gateway, muddled, spoiled, crossed>>
  <2>1. t # "main" /\ t \in Threads
    BY <1>1, SessionAssumption, ThreadsAre
  <2>2. \/ MovesTo(t, "idle")
        \/ t = "collect" /\ MovesTo(t, "loginId")
    BY <1>1, <2>1, GotoMoves DEF Resume, LoginInv
  <2>3. Carries
    BY <1>1, <2>1, <2>2, ThreadsAre DEF Carries, MovesTo, LoginInv, TypeOK, report, gateway
  <2> QED
    BY <2>3, CarriesKeeps
<1>2. CASE Die
  BY <1>2, MessageDie
<1> QED
  BY Zenon, <1>1, <1>2 DEF ReloginFails

LEMMA MessageLoginByFile ==
  ASSUME LoginInv, StampOK, MessageOK, LoginByFile
  PROVE  StampOK' /\ MessageOK'
<1>1. PICK t \in Jobs \cup {"main"} :
        \/ ReadLogin(t)
        \/ ReadLoginFails(t)
        \/ ReadLoginPanics(t)
        \/ ReloginSucceeds(t)
        \/ ReloginRefused(t)
        \/ ReloginError(t)
  BY Zenon DEF LoginByFile
<1>2. t \in Threads
  BY ThreadsAre
<1>3. CASE ReadLogin(t) \/ ReloginSucceeds(t) \/ ReloginRefused(t)
  <2>1. UNCHANGED <<memory, stamp, request, crossed>>
    BY <1>3 DEF ReadLogin, ReloginSucceeds, ReloginRefused, report, history, Enter
  <2>2. \E l \in {"relogin", "id1"} : MovesTo(t, l)
    <3>1. Order[1] = "id1"
      BY DEF Order
    <3> QED
      BY <1>2, <1>3, <3>1, GotoMoves DEF ReadLogin, ReloginSucceeds, ReloginRefused, LoginInv
  <2>3. pc[t] # "idle"
    BY <1>3 DEF ReadLogin, ReloginSucceeds, ReloginRefused
  <2>4. \A n \in DOMAIN issued : n \in DOMAIN issued' /\ issued'[n] = issued[n]
    <3>1. CASE ReloginSucceeds(t)
      <4>1. account[t] \in Accounts
        BY <1>2, <3>1 DEF ReloginSucceeds, LoginInv, LoginOK, InLogin
      <4> QED
        BY <1>2, <3>1, <4>1, IssueKeeps DEF ReloginSucceeds
    <3>2. CASE UNCHANGED issued
      BY <3>2
    <3> QED
      BY <1>3, <3>1, <3>2 DEF ReadLogin, ReloginRefused, gateway
  <2>5. Carries
    BY <2>1, <2>2, <2>3, <2>4, ThreadsAre DEF Carries, MovesTo
  <2> QED
    BY <2>5, CarriesKeeps
<1>4. CASE ReadLoginFails(t)
  <2>1. memory.healthy \in BOOLEAN
    BY DEF LoginInv, TypeOK
  <2> QED
    BY <1>4, <2>1, MessageReloginFails DEF ReadLoginFails
<1>5. CASE ReadLoginPanics(t)
  BY <1>5, MessageDie DEF ReadLoginPanics
<1>6. CASE ReloginError(t)
  BY <1>6, MessageReloginFails DEF ReloginError
<1> QED
  BY <1>1, <1>3, <1>4, <1>5, <1>6

\* A login that writes a word crosses every message there is.
LEMMA MessageAssign ==
  ASSUME LoginInv, StampOK, MessageOK, NEW t \in Threads, Assign(t)
  PROVE  StampOK' /\ MessageOK'
<1> USE WordsAre, ThreadsAre DEF WordsFact
<1>1. AssignFact(t)
  BY AssignCases
<1>2. crossed' = {j \in Jobs : stamp[j] # None} /\ UNCHANGED stamp
  BY <1>1 DEF AssignFact, report
<1>3. pc[t] \in Words
  BY <1>1 DEF AssignFact, Writes, Ends
<1>4. \/ \E l \in Words : MovesTo(t, l)
      \/ MovesTo(t, "idle")
      \/ t = "collect" /\ MovesTo(t, "loginId")
  <2>1. CASE Ends(t)
    BY <2>1, GotoMoves DEF Ends, Resume, LoginInv
  <2>2. CASE ~Ends(t)
    <3>1. \E l \in Words : Goto(t, l)
      BY <1>1, <2>2 DEF AssignFact, Writes
    <3> QED
      BY <3>1, GotoMoves DEF LoginInv
  <2> QED
    BY <2>1, <2>2
<1>5. StampOK'
  BY <1>2, <1>3, <1>4 DEF StampOK, MovesTo
<1>6. MessageOK'
  BY <1>2 DEF MessageOK
<1> QED
  BY <1>5, <1>6

LEMMA MessageReport ==
  ASSUME LoginInv, StampOK, MessageOK, Report
  PROVE  StampOK' /\ MessageOK'
<1>1. PICK j \in Jobs :
        \/ Begin(j)
        \/ ReadLoginId(j)
        \/ ReadToken(j)
        \/ ReportSucceeds(j)
        \/ ReportFails(j)
        \/ ReportRefused(j)
  BY Zenon DEF Report
<1>2. j \in Threads
  BY ThreadsAre
<1>3. UNCHANGED <<memory, issued>>
  BY <1>1 DEF Begin, ReadLoginId, ReadToken, ReportSucceeds, ReportFails, ReportRefused,
    gateway
<1>4. PICK l : MovesTo(j, l)
  BY <1>1, <1>2, GotoMoves DEF Begin, ReadLoginId, ReadToken, ReportSucceeds, ReportFails,
    ReportRefused, LoginInv
<1>5. \A k \in Jobs \ {j} : /\ pc'[k] = pc[k]
                             /\ stamp'[k] = stamp[k]
                             /\ request'[k] = request[k]
  BY <1>1, <1>4, ThreadsAre DEF Begin, ReadLoginId, ReadToken, ReportSucceeds, ReportFails,
    ReportRefused, EndReport, MovesTo, LoginInv, TypeOK
<1>6. \A k \in Jobs \ {j} : k \in crossed => k \in crossed'
  BY <1>1 DEF Begin, ReadLoginId, ReadToken, ReportSucceeds, ReportFails, ReportRefused,
    EndReport, history
<1>7. ASSUME stamp'[j] # None /\ j \notin crossed' => OneLogin(j)' PROVE MessageOK'
  <2>1. \A k \in Jobs \ {j} : OneLogin(k) => OneLogin(k)'
    BY <1>3, <1>5 DEF OneLogin
  <2> QED
    BY <1>5, <1>6, <1>7, <2>1 DEF MessageOK
<1>8. stamp[j] # None /\ j \notin crossed => OneLogin(j)
  BY DEF MessageOK
<1>9. CASE Begin(j)
  <2>1. /\ memory.ready /\ pc'[j] = "loginId" /\ stamp'[j] = memory.userId
        /\ j \notin crossed' => ~muddled /\ \A t \in Threads : pc[t] \notin Words
    BY <1>2, <1>9 DEF Begin, Goto, LoginInv, TypeOK
  <2>2. memory.userId # None
    BY <2>1 DEF LoginInv, WordsOK, NotYet
  <2>3. StampOK'
    BY <1>5, <2>1, <2>2 DEF StampOK
  <2>4. j \notin crossed' => OneLogin(j)'
    BY <1>3, <2>1 DEF OneLogin, LoginInv, SettledOK
  <2> QED
    BY <1>7, <2>3, <2>4
<1>10. CASE ReadLoginId(j)
  <2>1. /\ pc[j] = "loginId" /\ pc'[j] = "token" /\ UNCHANGED <<stamp, crossed>>
        /\ request'[j].loginId \in StringOf(memory.id1, memory.id2)
    BY <1>2, <1>10 DEF ReadLoginId, Goto, LoginInv, TypeOK, history
  <2>2. StampOK'
    BY <1>5, <2>1 DEF StampOK
  <2>3. stamp'[j] # None /\ j \notin crossed' => OneLogin(j)'
    BY <1>3, <1>8, <2>1 DEF OneLogin, StringOf
  <2> QED
    BY <1>7, <2>2, <2>3
<1>11. CASE ReadToken(j)
  <2>1. /\ pc[j] = "token" /\ pc'[j] = "sent" /\ UNCHANGED <<stamp, crossed>>
        /\ request'[j].loginId = request[j].loginId
        /\ request'[j].token \in StringOf(memory.token1, memory.token2)
    BY <1>2, <1>11 DEF ReadToken, Goto, LoginInv, TypeOK, history
  <2>2. StampOK'
    BY <1>5, <2>1 DEF StampOK
  <2>3. stamp'[j] # None /\ j \notin crossed' => OneLogin(j)'
    BY <1>3, <1>8, <2>1 DEF OneLogin, StringOf
  <2> QED
    BY <1>7, <2>2, <2>3
<1>12. CASE ReportSucceeds(j) \/ ReportFails(j) \/ ReportRefused(j)
  <2>1. /\ pc[j] = "sent"
        /\ \/ pc'[j] \in {"idle", "file"} /\ j # "collect" /\ stamp'[j] = None
           \/ pc'[j] = "idle" /\ stamp'[j] = None
           \/ /\ pc'[j] \in {"loginId", "file"} /\ j = "collect" /\ stamp'[j] = stamp[j]
              /\ j \in crossed' <=> j \in crossed
    BY <1>2, <1>12 DEF ReportSucceeds, ReportFails, ReportRefused, EndReport, Goto, LoginInv, TypeOK
  <2>2. StampOK'
    BY <1>5, <2>1 DEF StampOK
  <2>3. stamp'[j] # None /\ j \notin crossed' => OneLogin(j)'
    BY <1>3, <1>8, <2>1 DEF OneLogin
  <2> QED
    BY <1>7, <2>2, <2>3
<1> QED
  BY <1>1, <1>9, <1>10, <1>11, <1>12

LEMMA MessageStep ==
  ASSUME LoginInv, StampOK, MessageOK, [Next]_vars
  PROVE  StampOK' /\ MessageOK'
<1>1. CASE Launch
  <2>1. UNCHANGED <<memory, issued, stamp, request, crossed>>
    BY <1>1 DEF Launch, report, gateway, history
  <2>2. \A j \in Jobs : pc'[j] = pc[j]
    BY <1>1, SessionAssumption, ThreadsAre DEF Launch, Goto, LoginInv, TypeOK
  <2> QED
    BY <2>1, <2>2, CarriesKeeps DEF Carries
<1>2. CASE Die
  BY <1>2, MessageDie
<1>3. CASE Handler
  BY <1>3, MessageHandler
<1>4. CASE LoginByFile
  BY <1>4, MessageLoginByFile
<1>5. ASSUME NEW t \in Threads, Assign(t) PROVE StampOK' /\ MessageOK'
  BY <1>5, MessageAssign
<1>6. CASE Report
  BY <1>6, MessageReport
<1>7. ASSUME NEW n \in Tokens, Expire(n) PROVE StampOK' /\ MessageOK'
  BY <1>7, CarriesKeeps DEF Expire, Carries, report, history
<1>8. CASE UNCHANGED vars
  BY <1>8, CarriesKeeps DEF vars, Carries
<1> QED
  BY Zenon, <1>1, <1>2, <1>3, <1>4, <1>5, <1>6, <1>7, <1>8 DEF Next, Kill, AssignPanics

LEMMA MessageInit == Init => StampOK /\ MessageOK
BY ThreadsAre DEF Init, StampOK, MessageOK, NoStamp

\* However the logins, the saves, the reports and the ends of the process are
\* interleaved: what is known of each login under way, of the words it has
\* written, of the file and of the messages holds in every reachable state.
THEOREM Invariance == Spec => []IInv
<1>1. Init => IInv
  BY InvInit, MessageInit DEF IInv
<1>2. IInv /\ [Next]_vars => IInv'
  BY InvNext, MessageStep DEF IInv
<1> QED
  BY <1>1, <1>2, PTL DEF Spec

\* Every variable keeps its type (Session.TypeOK).
THEOREM TypeCorrect == Spec => []TypeOK
<1>1. IInv => TypeOK
  BY DEF IInv, LoginInv
<1> QED
  BY <1>1, Invariance, PTL

\* A job that finds ready set finds all fields set (Session.ReadyComplete).
THEOREM ReadyAlwaysComplete == Spec => []ReadyComplete
<1>1. IInv => ReadyComplete
  <2> SUFFICES ASSUME IInv, memory.ready PROVE ReadyComplete
    BY DEF ReadyComplete
  <2>1. WordsOK
    BY DEF IInv, LoginInv
  <2>2. memory.id1 # None /\ memory.id2 # None /\ memory.userId # None
    BY <2>1 DEF WordsOK, NotYet
  <2>3. None \in {memory.token1, memory.token2} => Doomed
    BY <2>1 DEF WordsOK, NotYet
  <2> QED
    BY <2>2, <2>3 DEF ReadyComplete, Doomed
<1> QED
  BY <1>1, Invariance, PTL

\* Between logins, the words and the file are those of one login, unless it
\* overlapped with another or the file was spoiled (Session.Coherent).
THEOREM CoherentAlways == Spec => []Coherent
<1>1. IInv => Coherent
  <2> SUFFICES ASSUME IInv, memory.ready, ~muddled, \A t \in Threads : ~InLogin(t)
               PROVE  /\ memory.id2 = memory.id1
                      /\ memory.token2 = memory.token1
                      /\ issued[memory.token1] = memory.id1
                      /\ memory.userId = memory.id1
                      /\ spoiled \/ file = memory.id1
    BY DEF Coherent
  <2>1. \A t \in Threads : pc[t] \notin Words /\ ~Saving(t)
    BY DEF InLogin, Saving
  <2> QED
    BY <2>1 DEF IInv, LoginInv, SettledOK
<1> QED
  BY <1>1, Invariance, PTL

\* login.dat is unusable only during a save or after one that failed, was cut off
\* or overlapped with another (Session.FileExplained).
THEOREM FileAlwaysExplained == Spec => []FileExplained
<1>1. IInv => FileExplained
  BY DEF IInv, LoginInv, FileOK, FileExplained
<1> QED
  BY <1>1, Invariance, PTL

\* The message of a job and the report it is sent with are of one login, unless a
\* login wrote words meanwhile or the job began between such words or after
\* logins that overlapped (Session.MessageOfOneLogin).
THEOREM OneLoginPerMessage == Spec => []MessageOfOneLogin
<1>1. IInv => MessageOfOneLogin
  BY DEF IInv, StampOK, MessageOK, OneLogin, MessageOfOneLogin
<1> QED
  BY <1>1, Invariance, PTL

-----------------------------------------------------------------------------
(* The message of the collect job.                                         *)

\* The job goes on with it wherever it gets to but idle.
LEMMA KeepsOn ==
  ASSUME LoginInv, NEW t \in Threads, NEW l, MovesTo(t, l), UNCHANGED stamp,
         t = "collect" => l # "idle"
  PROVE  KeepsMessage
BY ThreadsAre DEF MovesTo, KeepsMessage

LEMMA KeepsHandler ==
  ASSUME LoginInv, Handler
  PROVE  KeepsMessage
<1>1. PICK h \in Handlers :
        \/ \E a \in Accounts : Login(h, a)
        \/ LoginRefused(h)
        \/ LoginSucceeds(h)
        \/ CreateFile(h)
        \/ WriteFile(h)
        \/ SaveFails(h)
  BY Zenon DEF Handler
<1>2. UNCHANGED stamp /\ \E l : Goto(h, l)
  BY <1>1 DEF Login, LoginRefused, LoginSucceeds, CreateFile, WriteFile, SaveFails, report
<1>3. "collect" \in Jobs => h # "collect"
  BY SessionAssumption
<1>4. \E l : MovesTo(h, l)
  BY <1>2, ThreadsAre, GotoMoves DEF LoginInv
<1> QED
  BY <1>2, <1>3, <1>4, ThreadsAre DEF MovesTo, KeepsMessage

LEMMA KeepsLoginByFile ==
  ASSUME LoginInv, LoginByFile
  PROVE  KeepsMessage
<1>1. PICK t \in Jobs \cup {"main"} :
        \/ ReadLogin(t)
        \/ ReadLoginFails(t)
        \/ ReadLoginPanics(t)
        \/ ReloginSucceeds(t)
        \/ ReloginRefused(t)
        \/ ReloginError(t)
  BY Zenon DEF LoginByFile
<1>2. t \in Threads
  BY ThreadsAre
<1>3. ASSUME Die PROVE KeepsMessage
  BY <1>3 DEF Die, KeepsMessage
<1>4. CASE ReadLogin(t) \/ ReloginSucceeds(t) \/ ReloginRefused(t)
  <2>1. UNCHANGED stamp /\ \E l \in {"relogin", "id1"} : Goto(t, l)
    BY <1>4 DEF ReadLogin, ReloginSucceeds, ReloginRefused, report, Order
  <2> QED
    BY <1>2, <2>1, GotoMoves, KeepsOn DEF LoginInv
<1>5. ASSUME NEW b, ReloginFails(t, b) PROVE KeepsMessage
  <2>1. CASE Resume(t) /\ UNCHANGED report
    <3>1. \E l \in {"idle", "loginId"} : Goto(t, l) /\ (t = "collect" => l # "idle")
      BY <2>1 DEF Resume
    <3>2. UNCHANGED stamp
      BY <2>1 DEF report
    <3> QED
      BY <1>2, <3>1, <3>2, GotoMoves, KeepsOn DEF LoginInv
  <2> QED
    BY Zenon, <1>3, <1>5, <2>1 DEF ReloginFails
<1> QED
  BY Zenon, <1>1, <1>3, <1>4, <1>5 DEF ReadLoginFails, ReadLoginPanics, ReloginError

LEMMA KeepsAssign ==
  ASSUME LoginInv, NEW t \in Threads, Assign(t)
  PROVE  KeepsMessage
<1>1. AssignFact(t)
  BY AssignCases
<1>2. UNCHANGED stamp
  BY <1>1 DEF AssignFact, report
<1>3. \E l \in Words \cup {"idle", "loginId"} : Goto(t, l) /\ (t = "collect" => l # "idle")
  BY <1>1, WordsAre DEF WordsFact, AssignFact, Writes, Ends, Resume
<1> QED
  BY <1>2, <1>3, GotoMoves, KeepsOn DEF LoginInv

LEMMA KeepsReport ==
  ASSUME LoginInv, Report
  PROVE  KeepsMessage
<1>1. PICK j \in Jobs :
        \/ Begin(j)
        \/ ReadLoginId(j)
        \/ ReadToken(j)
        \/ ReportSucceeds(j)
        \/ ReportFails(j)
        \/ ReportRefused(j)
  BY Zenon DEF Report
<1>2. j \in Threads
  BY ThreadsAre
<1>3. CASE ReportSucceeds(j) /\ j = "collect"
  BY <1>3 DEF ReportSucceeds, KeepsMessage
<1>4. CASE Begin(j) /\ j = "collect"
  BY <1>4 DEF Begin, KeepsMessage
<1>5. CASE (ReadLoginId(j) \/ ReadToken(j) \/ ReportFails(j) \/ ReportRefused(j)) /\ j = "collect"
  <2>1. stamp'["collect"] = stamp["collect"]
    BY <1>5 DEF ReadLoginId, ReadToken, ReportFails, ReportRefused, EndReport,
      LoginInv, TypeOK
  <2>2. pc'["collect"] # "idle"
    BY <1>2, <1>5 DEF ReadLoginId, ReadToken, ReportFails, ReportRefused, Goto,
      LoginInv, TypeOK
  <2> QED
    BY <2>1, <2>2 DEF KeepsMessage
<1>6. CASE j # "collect"
  <2>1. \E l : Goto(j, l)
    BY <1>1 DEF Begin, ReadLoginId, ReadToken, ReportSucceeds, ReportFails, ReportRefused
  <2>2. \A t \in Threads \ {j} : pc'[t] = pc[t]
    BY <1>2, <2>1, GotoMoves DEF MovesTo, LoginInv
  <2>3. \A k \in Jobs \ {j} : stamp'[k] = stamp[k]
    BY <1>1 DEF Begin, ReadLoginId, ReadToken, ReportSucceeds, ReportFails, ReportRefused,
      EndReport, LoginInv, TypeOK
  <2> QED
    BY <1>6, <2>2, <2>3, ThreadsAre DEF KeepsMessage
<1> QED
  BY <1>1, <1>3, <1>4, <1>5, <1>6

\* The collect job keeps a message through every failure until a report of it is
\* accepted (Session.NeverAbandoned).
THEOREM MessageNeverAbandoned == Spec => NeverAbandoned
<1>1. LoginInv /\ [Next]_vars => [KeepsMessage]_vars
  <2> SUFFICES ASSUME LoginInv, Next PROVE KeepsMessage
    OBVIOUS
  <2>1. CASE Launch
    BY <2>1, SessionAssumption DEF Launch, LoginInv, DownOK, KeepsMessage, Threads
  <2>2. ASSUME Die PROVE KeepsMessage
    BY <2>2 DEF Die, KeepsMessage
  <2>3. ASSUME NEW n \in Tokens, Expire(n) PROVE KeepsMessage
    BY <2>3 DEF Expire, report, KeepsMessage
  <2> QED
    BY Zenon, <2>1, <2>2, <2>3, KeepsHandler, KeepsLoginByFile, KeepsAssign, KeepsReport
    DEF Next, Kill, AssignPanics
<1>2. IInv => LoginInv
  BY DEF IInv
<1> QED
  BY <1>1, <1>2, Invariance, PTL DEF Spec, NeverAbandoned

================================================================================
