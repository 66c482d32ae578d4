# TL-Data-Collector: a verification project

TL-Data-Collector is a Windows service written in Go. Exporters (plug-ins of
trading platforms) write JSON files into a data folder. The collector reads
them, sends the messages they hold to a gateway over gRPC, and deletes them. A
user logs in through a small HTTP server; the login is kept, encrypted, in
`login.dat`, so that the service can log in again by itself.

This directory holds TLA+ models of the collector, configurations that check
them with TLC, and proofs that TLAPS checks. Paths below are relative to the
repository.

## 1. Inventory

| Component | Source | State | Operations | Talks to |
|---|---|---|---|---|
| Collect job | `jobs.go` (parse, validate, transfer, process, collect) | none of its own between cycles: the data folder is its queue; during a cycle the list of files, the open handle, the buffer, the position in it | list the folder, open a file exclusively, read, decode, send each message until it succeeds, close, delete | exporters and lock files through the folder; `flush` |
| Session | `login.go`, `jobs.go` (report, loginByFile, flush, heartbeat) | `Program.user`, `ready`, `healthy`; `login.dat` | Login handler, login by file, report, heartbeat | gateway; HTTP clients; the jobs |
| Start-up | `program.go` (hasLockfile, load, run) | `tmp.lock` and its handle; `uuid.dat` | take the lock, load or generate the uuid, log in from the file | other processes through the files |
| Lifecycle | `program.go` (Start, Stop, run, startCronJob), `collector.go` | exit channel, context, wait group, timers, gRPC connection | start the goroutines, cron loop, shut down | service manager |
| Credentials file | `crypto/crypto.go` | none | encrypt, decrypt, write, read | Session |
| Register, Health | `login.go` | none | forward one call; return `healthy` | HTTP clients |
| Log rotation | `log/lumberjack` | open file and size; backup files; mill goroutine | Write, rotate, mill, compress, remove | file system |
| Logging options | `log/options.go`, `log/scope.go`, `log/config.go` | scopes with their levels, option strings | set and get level lists, register a scope, configure | start-up, every goroutine |
| Configuration | `config/config.go`, `collector.go` | none | parse YAML once | start-up |
| Protocol, vendored code | `proto`, `vendor` | - | generated or third-party | - |

What is hard in it:

* **Concurrency without locks.** Each HTTP request, the heartbeat job and the
  collect job are goroutines; they all read and write `Program.user`, `ready`
  and `healthy`, and nothing in the program protects these. `login.dat` is
  written by handlers and read by jobs at the same time.
* **Failure.** A call that ran into its deadline may have been executed. The
  process may end between any two steps (a panic in a job ends it as well), and
  what it knows is in files that are written in two steps (create, then write).
  The results of `ReadFile` and `DeleteFile` are not looked at.
* **Other processes.** Exporters write files while they are listed; lock files
  come and go; virus scanners open files; a second collector may be started.
* **Endless retry.** `transfer` repeats a message until it is accepted.

What makes each part correct:

* Collect: no message of a completed export is lost, messages arrive in the
  order of their file, nothing but valid messages of completed exports arrives,
  a message arrives twice only for a reason, locks are respected when a cycle
  starts, and everything arrives in the end unless the gateway fails one message
  for ever.
* Session: a job that sees `ready` sees a complete login; between logins the
  fields belong to one account, the one in the file; the file is unusable only
  for a reason; a message that no login has crossed is sent with the login id, token
  and user id of one login, and is not given up before it is accepted; a lost token
  is replaced in the end; a login that was saved can be repeated, and the user id of a message is that of the login it is sent with
  (neither holds, see section 6).
* Start-up: one collector at a time, one uuid per machine, nobody refused but for
  another process that is there now; refusals do not last.
* Lifecycle: the lock is given back only when nothing of the process works on
  the files any more; the shutdown waits for the server, its requests and the jobs,
  and for nothing else, so that only a client that never finishes its request or the
  endless retry of a message keeps it from its end; the process does not end
  before its goroutines (it does, see section 6).
* Rotation: no file beyond its size, no line lost, cut or torn apart but with a
  backup or by another process, the lines in their order from file to file, no
  rotation the mill does not hear of, old backups removed (they are
  not, see section 6).
* Logging options: a setter sets what it says and nothing else; the levels `Configure`
  leaves in the scopes are those the getters say; it turns callers on where these say
  so, and nowhere else (and off nowhere, see section 5).

## 2. Modules

| Module | Models | State and actions |
|---|---|---|
| `Message` | `entity.Message`, `validate` | a message is the record of the tests `validate` makes |
| `Folder` | `parse` | pure: a file name is the record of what `parse` looks at (extension, prefix, pieces) |
| `Delivery` | what the collector promises exporters | abstract: publish, receive, misread, retire |
| `DeliveryProofs` | - | what follows from `Delivery`: `Promise`, `NothingTakenBack` |
| `Collect` | `collect`, `process`, `transfer`, their calls of `flush`/`report`, the folder and the gateway | one action per system call, call or branch of the goroutine; the exporters, lock files, other processes and the gateway as environment; `Crash` anywhere |
| `CollectProofs` | - | inductive invariant and theorems about `Collect` |
| `OneInstance` | what the lock file is for; implemented by `Startup` | abstract: a process tries, enters, is refused, leaves; with the theorem that one at a time is inside |
| `Session` | Login handler, `loginByFile`, `flush`, `report`, `heartbeat`, login at the start, `EncryptFile`/`DecryptFile` as file accesses | one component of `memory` per machine word the goroutines share; one action per word written |
| `SessionProofs` | - | inductive invariant and theorems about `Session` |
| `Startup` | `hasLockfile`, `load` | several processes; handles with the sharing rules of Windows |
| `StartupProofs` | - | inductive invariant and theorems about `Startup` |
| `Lifecycle` | `Start`, `Stop`, `run`, `startServer`, `startCronJob` | several processes; per process the places of `main`, `run`, the server and the jobs, the requests under way and how many of these are still being sent, the wait group |
| `LifecycleProofs` | - | inductive invariant and theorems about `Lifecycle` |
| `Rotation` | `Logger.Write`, `rotate`, `openNew`, `openExistingOrNew`, the mill goroutine; the same Logger in a second process | the log file and its backups, the writer that has the mutex, the channel, the mill, the other process |
| `RotationProofs` | - | inductive invariants and theorems about `Rotation` |
| `LogOptions` | `Options`' setters and getters, `RegisterScope`, `updateScopes` | the lists of pieces, the scopes, the place of `Configure` |
| `LogOptionsProofs` | - | lemmas about the lists, inductive invariant and theorems |
| `MCCollect`, `MCSession`, `MCStartup`, `MCLifecycle` | - | values for the constants; `Rotation` and `LogOptions` need none |

`Collect` extends `Message` and `Folder` and instantiates `Delivery` with
`published <- exported` and `retired <-` the exported files that are gone.
`Startup` instantiates `OneInstance`, with `state <-` where each process is as seen
from the lock file. `Lifecycle` takes the lock in one step, whose guards are those of
`OneInstance`: `Startup` shows that the real steps with their races come to what that
one step assumes.

How `Collect` corresponds to the code: `pc` is the place of the collect
goroutine (`idle` waiting for the timer, `walk` at the head of the loop over the
files, `read`, `send` at the head of the loop over the messages, `wait` in the
gRPC call, `sleep`, `close`, `delete`); `todo` is the rest of the list; `open`,
`buffer`, `index` are the locals of `process` and `transfer`. A content is
abstracted to "is a JSON array of messages", its size and its messages; `Batch`
says that decoding the buffer succeeds, which needs the size to fit. `call` and
`late` are the outstanding report and requests given up whose fate is open.
`exported`, `unread`, `repeated`, `disturbed` are history: no action's guard
reads them. A data file gets its content by one writer under a name that is used
once (the last part of the name is a unique timestamp); while it is being written
it cannot be opened exclusively. That is what `process` relies on.

How `Session` corresponds: strings are two words (`id1`, `id2`; `token1`,
`token2`), written in two steps and read as what a read between or across them
can find (`StringOf`). `Order` is the order of the assignments in `Login` and
`loginByFile`. A data race is undefined in Go's memory model; the outcomes
modelled are those of word-wise loads and stores in program order, which is what
the amd64 build does. `Password` is left out because nothing reads it.
`login.dat` holds an account, nothing (`Empty`), or a text that does not decrypt
(`Garbled`). A token is the number of the login it was issued in. `Colon` are the
accounts whose password comes back shortened when the text is split (`Whole`);
`Fickle` says whether the gateway may also refuse a password it once accepted.
`mixed`, `muddled`, `spoiled` and `crossed` are history: which logins under way
overlap, whether the last one to finish did, whether a save of the file went
wrong, and which messages a login has written words under.

How `Startup` corresponds: `handle` is the handle a process has on `tmp.lock`,
the one of `os.Create` (others may open it too) or the one of `CreateFile` with
share mode 0. A process that ends, by `os.Exit` or otherwise, loses its handle.

How `Lifecycle` corresponds: `main` is where `main()` is (in the service
package, in `Stop`, about to return), `run` the place of `run()` in the order of
its statements, `wg` the counter of the wait group. When `Stop` has returned the
process ends, whatever its goroutines do (`MainReturns`). `server` and
`requests` follow the contract of `http.Server`: `Shutdown` waits for the
requests under way, and `ListenAndServe` returns also when it is called after
`Shutdown`. `slow` is how many of the requests their clients have yet to send to
the end: a handler reads the body itself (`ReadEntity`), and neither the server nor
the context of `Shutdown` has a time limit, so it waits for the client
(`ClientEnds`) as long as that takes. A job is at the `select` of `startCronJob`, at work, or in the retry
loop of `transfer` (`send`), which it can leave only while the connection is
open. Taking the lock is one step here; `Startup` has all of them. A process that
is refused logs that and ends (`GiveUp`), which is a step of its own.

How `Rotation` corresponds: a file is the sequence of the units of its lines, a
line of length k being k times its number, so that lengths are sizes and a line
cut off can be told from a complete one. `pc` is the place in `Write` of the one
goroutine the mutex lets in. `token` is what is in `millCh`; `mill` is off until
`startMill.Do`, waits at the channel, is about to list the folder, or about to
remove what it chose (`stale`). `MaxSize`, `MaxBackups` and `MaxAge` are what
`prepZap` makes of the options. `written` (the lines, each with its length),
`dropped`, `wiped`, `due` are history; `due` says that the mill has not tried to list
the folder since the last rotation, or since the process has started. An attempt
that fails (`MillFails`) counts as one: `millRun` throws the error away and waits for
the next value. What nothing reads any more is forgotten: the locals of a `Write` that
has returned (`Return`), the size of a closed file (`Closed`).
`Stat`, `OpenFile`, `Rename` and `Write` are steps of their own, because a second
collector does the same with a `Logger` of its own: `main()` sets up the log and
`Start` and `run` write to it before the lock file stops that process. `other` is
how far it has got, and what it writes is the unit `Foreign`, as is a hole. A file
opened by `openExistingOrNew` is appended to; one made by `openNew` is written at
the process's own position, which is `size` (`WriteAt`).

How `LogOptions` corresponds: the texts of `Options` are sequences of pieces, as
each setter and getter splits and joins them; names hold neither commas nor
colons (`RegisterScope`). `Configure` works through the pieces of the three
lists one by one (`pc`, `at`) with the snapshot `allScopes`, and gives up at the
first error; in between other goroutines register scopes and use the setters of
these (`Adjust`, `AdjustCallers`). The setters of `Options` are not called while it
works on them. `settled` (nothing has gone wrong or was set since `Configure` began)
and `kept` (the scopes that showed their callers then) are history.

## 3. Runs

| Run | Instance | Shows |
|---|---|---|
| `collect` | one data file, its type in capitals; `lock.json` and the lock of its type; four contents: valid-invalid-valid of exactly the limit, two valid below it, one unit too long, no batch | `TypeOK`, `NoLoss`, `InOrder`, `OnlyExported`, `RepeatsExplained`, `IInv`, the invariant of the proofs; `DeliverySpec`: `Collect` implements `Delivery`; `LocksRespected`; `Drained` |
| `startup` | three processes | `MutualExclusion`, `UuidStable`, `CutExplained`; `OneInstanceSpec`: `Startup` implements `OneInstance`; `SomebodyRuns` |
| `session_pairs` | two accounts, two handlers, both jobs, three tokens (one only for a re-login) | `ReadyComplete`, `Coherent`, `FileExplained`, `MessageOfOneLogin`, `NeverAbandoned`; `IInv`, the invariant of the proofs |
| `session_live` | three accounts, one with a colon in its password, one handler, the collect job, six tokens (four only for re-logins) | `Recovers` |
| `session_colon` | two accounts, one with a colon in its password, one handler, the collect job, two tokens, a gateway that stands by its word | finding, section 6 |
| `session_user_id`, `session_healthy` | two accounts, one handler, the collect job, two tokens | findings, section 6 |
| `lifecycle` | two processes, up to two requests in each | `Alone`, `WaitIsExact`, `IInv`, the invariant of its proof; `OnlyTheseBlock` |
| `lifecycle_wait` | one process | finding, section 6 |
| `rotation` | files of three units, two lines of one, two or four units (too long), two seconds, a clock set back, a second process that writes one unit at a time | `SizeLimit`, `LinesKept`, `LinesInOrder`, `MillFollows` |
| `rotation_retained` | files of one unit, three seconds, one process; at most one backup, kept for two seconds | finding, section 6 |
| `log_options` | the default scope and another, two levels | `SettersObeyed`, `Configured` |

What the less obvious properties say. `MessageOfOneLogin`: `stamp` is read once per
message, login id and token once per attempt, in words that handlers may write at
any time; the three agree unless a login wrote a word while the job had the message,
or the job began between such words or after logins that had overlapped (`crossed`).
What `session_user_id` finds therefore happens in these cases only. `NeverAbandoned`: failed calls,
refused tokens and re-logins, also failing ones, leave the message of the collect job
as it is; only a report with a token the gateway knows, under the login id it issued it
to, takes it away. `WaitIsExact`: at the wait of `run()` the wait group is at zero if
and only if the server and both jobs have ended, also when `ListenAndServe` failed, or
was called after `Shutdown`. `OnlyTheseBlock`: a shutdown that stays in `Shutdown` has
a client that never finishes its request, and one that stays in a later step has the
collect job in its retry loop for ever; no order of ends, no early end of the server
and no timer does it. `Drained` likewise: once things are calm, everything arrives
unless the job is with one message for ever, which it is only if the gateway fails
that message each time (`Retrying`). `MillFollows` is about attempts: after a rotation
and after a start the mill lists the folder or tries to; a failed attempt is not
repeated before the next rotation. `Configured` compares levels and callers in both
directions: the scopes that show their callers are those the getters name and those
in `kept`, no others. `LinesKept` counts a line as kept when it stands whole, in
one piece, in one file; `LinesInOrder` says that reading the backups and then the log
file gives the lines in the order they were written, none twice.

Bounds. Files and contents are finite sets; every crash, retry and late request
repeats without limit, so the only bounds of `Collect` are the numbers of files
and messages. One file shows everything about the inside of a file; two valid
messages with an invalid one between them are the shortest batch in which "skip",
"next" and "last" differ. What one file leaves behind for the next (the rest of
the list, late requests for another file) does not occur in this run: a second
data file makes it too large for the liveness property. Proofs cover several
files, and all other sizes. `MaxLogins` bounds the tokens the gateway issues: a race needs
two, a race with a re-login three. `Spare` of them are kept for `loginByFile`;
in `session_live` there have to be enough that the bound itself never stops the
job: users and expiries then use up two, and each can cost the job at most two
re-logins. `AtMostTwo` lets any two of the four goroutines of `session_pairs`
be in the middle of something at a time, which two may change; with three at a
time there are too many states for a run; the proofs are for any number at once.
Three processes in `Startup`: one holds a
handle from `os.Create`, one is refused by it, one comes later. Two in `Lifecycle`: one shuts
down while the next starts; its proof is for any number. Two requests show that
`Shutdown` waits for all and not for one. In `Rotation` two lines fill a file
of three units or overflow it, before and after a restart, and the unit of the
second process, which may come again and again (`MaxOther` counts since it has
opened the file), comes between any two steps; two seconds are enough for a
backup that is replaced and one that is not. The lists of `LogOptions` are
bounded by the scopes, since no scope gets two pieces (proved), and two scopes
are the default one, which is special in every function, and one that is not.

Fairness. Weak fairness on each step of a goroutine: the Go scheduler runs it,
its timers fire, and a call to the gateway has a deadline. Strong fairness where the
code counts on luck and repeats: in `Session`, not every report gets its answer too late or an error that tells
nothing, not every read of `login.dat` fails, nor does every
login by file get an error; and for the jobs in `Lifecycle`,
where `select` takes one of two ready cases at random and so in the end the
cancelled context, and where a cycle has finitely many messages. Of those around the
program, `Drained` assumes that somebody logs in after each start (or `login.dat` does
it), that a lock file is removed and a file closed in the end by whoever placed or opened it,
and that a started export ends, finished or not; it assumes nothing of the gateway.
`Lifecycle` assumes nothing of HTTP clients, of the gateway, and of who starts, stops or
kills processes. `Drained`, `Recovers` and
`SomebodyRuns` say what happens once crashes and the like cease (`Calm`); they
hold for behaviours with any number of them before.

Every property has a mutant in `PROJECT.json`: a definition changed as a slip in
the code would change it, after which TLC finds the property violated.

## 4. Proofs

`CollectProofs` proves for every set of files, names, contents, for every
`MaxFileSize` and without a bound on crashes, retries and late requests:
`TypeCorrect`, `NothingLost`, `OrderKept`, `NothingElse`, `OnceUnlessDisturbed`,
`LocksAreRespected` and `Implementation` (`Spec => DeliverySpec`). The assumptions are those named
`CollectAssumption` (files are numbers, names are distinct, contents have their
type).

None of the properties is inductive. That a deleted file is delivered depends on
where `transfer` has been, that on the buffer being the file, and that on nobody
else changing the file. `IInv` says so: `FolderOK` (a completed export is on
disk as exported, or gone), `OpenOK` (the file worked on exists, is complete and
is the next of the list), `BufferOK` (the buffer is that file), `SentOK`
(everything before `index` was received; at `close` everything), `LateOK` (a
request under way was sent in its turn), `OnceOK` (of an undisturbed file
nothing beyond `index` was received). Each has a lemma for its step;
`RefinementStep` maps a step to a step of `Delivery` or a stutter.

`DeliveryProofs` shows that the steps of `Delivery` come to what exporters want:
`PromiseKept` (a removed file is settled, messages are received in order and from
published files only) and `PromiseLasts` (nothing is taken back), for any files,
contents and any reading of "batch" and "sendable". `ExporterPromise` in
`CollectProofs` carries both over to the collector along `Implementation`.

`StartupProofs` proves `OneCollector` (mutual exclusion), `OneUuid`,
`CutIsExplained` and `TypeCorrect` for any number of processes, from `HandleOK`
(handles and `pc` agree, an exclusive handle is alone) and `UuidOK`; the second
rests on the first. `LockImplements` (`Spec => OneInstanceSpec`) maps each step to
one of `OneInstance`; for a refusal, `HandleOK` gives the process whose handle
is in the way, and says that it is on its way or inside. `OneInsideAlways`, in
`OneInstance` itself, is what the abstract steps are for.

`SessionProofs` proves `TypeCorrect`, `ReadyAlwaysComplete`, `CoherentAlways`,
`FileAlwaysExplained`, `OneLoginPerMessage` and `MessageNeverAbandoned` for any accounts and any number of handlers and logins at
once. None of them is inductive. For the first, `WordsOK` says of each word that
as long as it has never been written, no login has got past it, and `ready` is
the word after all the others; so the order of the assignments in `Login` and
`loginByFile` is what the property rests on. The one exception, a refused login
by file that stores its empty token before it panics, is `Doomed`. For
`Coherent`, a login that has met no other (`MixedOK`: two logins under way know of
each other) finds each word it has written as it left it (`AloneOK`), and what it
leaves stays until the next login writes its first word (`SettledOK`). For the
file, `FileOK` says that there is one save at most, and that only its truncation
leaves the file unusable, until a save is spoiled. These parts make up `LoginInv`.
For the messages, `MessageOK` says of a job with a message that no login has crossed:
the words in the memory are of one login, the user id in the message is its account,
and what the job has read for its report are these words. A login under way does not
disturb that before its first word, and that word crosses all messages; a message is
begun uncrossed only where `SettledOK` holds. `StampOK` says where a job has a message
at all. `IInv` is all of these together.

`LifecycleProofs` proves `NeverTogether` (`Alone`), `WaitAlwaysExact` and `TypeCorrect`
for any number of processes and requests.
That nobody works when the lock is closed rests on the wait group: `CountOK`
says it counts the goroutines that are on, `PlaceOK` which of them can be on at
which place of `run()` (no request after `Shutdown` has returned), and `LockOK`
that whoever works holds the lock and that nobody else does. `WaitAlwaysExact` needs
`PlaceOK` in both directions: from a certain place of `run()` on, the server and the
jobs are there, so that those that do not count have ended and not just never begun.

`RotationProofs` proves `TypeCorrect`, `SizeBounded`, `NoLineLost`, `OrderOfLines` and
`NoRotationMissed` for every size, every set of lengths, any number of lines,
seconds and units of the other process. At every place of `Write`, also after one
that failed half-way, `size` has to be no less than the length of the open file,
unless something foreign is in it; and in a file that is written at `size`,
nothing but what is foreign lies behind that place (`SizeOK`), so that no line of
this process is written over by it. The file a rotation is about to move has to be
closed (`WriterOK`); for the mill, a value in the channel or a mill about to list
the folder has to cover what was rotated since (`MillOK`), so that `NoRotationMissed`
says that no rotation is left without an attempt to list the folder after it, and no
more than that. The lemma `Written`
says what a write does to a file; `WrittenByOther`, `Appended`, `WrittenInPlace` and
`WrittenLines` are what the three ways to write rest on; `OtherCases` sums up the
other process. A line once written stays where it is in its file (`WholeLine`,
`WrittenWhole`), and only whole files move (`Moved`, `Removed`). For the order,
`OrderOK` adds to `LinesInOrder` that every line in a file is older than the next one
to be written; the steps that write (`OrderByLog`), rename (`OrderByMove`) and remove
(`OrderByRemoval`) each keep it: a rename puts the log file, whose lines are younger
than all backups', among the backups and leaves no log file with lines behind.

`LogOptionsProofs` proves `TypeCorrect`, `ConfiguredAlways` and `TextsAreMaps` for any scopes
and levels and lists of any length. Both rest on `ListOK`: no scope has two
pieces, and only the default scope has one without a level. Then the first piece
a getter finds is the only one (`OneHit`), a setter replaces it or adds one
(`WithLevelOK`, `CallersOK`), and no piece `Configure` comes to undoes what an
earlier one did (`AppliedOK`, which also says that the scopes that show their callers
are those that did at the beginning and those of the pieces dealt with).

Some results are only as good as what they are conditional on, and say so: `Coherent`
and `MessageOfOneLogin` exempt logins that overlap, since there the words do mix
(section 6), `NoLoss` and `Settled` exempt files that are no batch or cannot be read,
and `LinesKept` exempts what a replaced backup or another process takes with it.

Only model-checked: everything about liveness (`Drained`, `SomebodyRuns`,
`Recovers`, `OnlyTheseBlock`; TLAPS does not prove liveness under fairness
here). All safety properties of the passing runs are proved.

## 5. What is left out

Words and formats (log texts, timestamps, JSON and gRPC encodings); the cipher;
TLS; the HTTP framework; `Register`, which keeps no state; reading the
configuration file. Of the log rotation: compression and the exported `Close`
and `Rotate`, which this program does not use, `chown`, which does nothing on
Windows, and a maximum size of zero, which stands for 100 MB. Of logging: what an
entry looks like and where it is written. Noted while modelling: "update the caller
location setting of all scopes" (`log/config.go:189`) only turns callers on, so that a
scope goes on to show its callers after `SetLogCallers(s, false)` and another
`Configure`; `Configured` states it as it is. Two more things were noted there and are not
modelled: with neither an output path nor a rotation path the core gets no sink
(`log/config.go:80`), and the first entry panics; and the scopes compare the stack
trace level with the level of an error for every entry (`log/scope.go`), so that a
stack trace level of `error` asks for one with each debug message too.

## 6. Findings

* `session_colon`: "login with username and password" (`jobs.go:74`). `Login`
  joins the two with a colon (`login.go:118`), and `loginByFile` splits the text at
  every colon and takes the first two parts. A password with a colon comes back
  shortened, the gateway refuses it, and since `loginByFile` does not look at the
  status of the reply, `uuid2id` panics on the empty user id: the process ends at
  the first 401, and again at every start, until `login.dat` is removed.
* `session_user_id`: `entity.go:8` says the user id of a message is that of the
  login. `transfer` (`jobs.go:276`) writes it into the message once, `report`
  reads login id and token again for each attempt, and a login writes the three
  one after the other: a message can be accepted with the user id of one account
  under the login of another.
* `session_healthy`: `healthy` says "whether it's healthy for login"
  (`program.go:58`). When a token has been refused and `login.dat` then cannot
  be decrypted, `loginByFile` returns before it marks the login unhealthy.
* `lifecycle_wait`: "wait for all the goroutines exit" (`program.go:297`). `run()`
  does wait, but nothing waits for `run()`: `Stop` closes a channel and a
  connection and returns, upon which `main()` returns. The process ends in the
  middle of a request or a file; the collect job is built to bear that, a
  handler that is saving `login.dat` is not.
* `rotation_retained`: "RotationMaxBackups is the maximum number of old log files
  to retain" (`log/options.go:87`). The mill removes no backup, because the name
  `backupName` makes is none `timeFromName` understands. Besides, `prepZap`
  hands `RotationMaxAge` over as `MaxBackups` and the other way round
  (`log/config.go:60`). The run gives the two options different values and has no
  second process, so that it shows both: `Retained` still fails with either one put
  right alone, and holds with both.

## 7. Plan

1. Done: `Message`, `Folder`, `Delivery`, `DeliveryProofs`, `Collect`, `CollectProofs`;
   `OneInstance`, `Startup`, `StartupProofs`, `Lifecycle`, `LifecycleProofs`;
   `Session`, `SessionProofs`; `Rotation`, `RotationProofs`; `LogOptions`,
   `LogOptionsProofs`.
2. A composition of `Session` and `Collect`, in which the condition `~<>[]Retrying` of
   `Drained` is replaced by what `Recovers` shows.
3. An abstract specification of `Session`: an account register that logins set
   and reports read, which logins that do not overlap implement.
4. `Drained` for two data files.
