------------------------------- MODULE Collect -------------------------------
(***************************************************************************)
(* The collect job of the collector: Program.collect, process, transfer    *)
(* and flush in jobs.go, together with what surrounds them: the data       *)
(* folder, the processes that write export files and lock files into it,   *)
(* and the gateway the messages are reported to.                           *)
(*                                                                         *)
(* One goroutine runs collect each time its timer fires.  It lists the     *)
(* folder, then handles the listed files one after the other: open it so   *)
(* that nobody else can have it open, read it into a buffer of             *)
(* maxFileSize bytes, decode it, report each valid message and repeat the  *)
(* report every two seconds until it succeeds, close the file, delete it.  *)
(* The steps of this goroutine interleave with everything else, and the    *)
(* process may end between any two of them (Crash).                        *)
(***************************************************************************)
EXTENDS Naturals, Sequences, Message, Folder

CONSTANTS
  Files,        \* the files of the folder, numbered in ReadDir's order
  Name,         \* Name[f] is the name of file f as module Folder sees it
  Contents,     \* what an exporter may write into a file
  MaxFileSize,  \* maxFileSize, in the unit of the size field of Contents
  Absent,       \* the content of a file that does not exist
  NoFile        \* no file is open

ContentType == [json : BOOLEAN, size : Nat, msgs : Seq(MessageType)]

\* A file its writer has not finished; also an empty read buffer.
Partial == [json |-> FALSE, size |-> 0, msgs |-> << >>]

ASSUME CollectAssumption ==
  /\ Files \subseteq Nat
  /\ \A f, g \in Files : Name[f] = Name[g] => f = g
  /\ Contents \subseteq ContentType
  /\ MaxFileSize \in Nat
  /\ Absent \notin ContentType
  /\ NoFile \notin Files

LockFiles == {f \in Files : IsLock(Name[f])}

\* json.Unmarshal succeeds on what ReadFile put into the buffer: the text is
\* an array of messages and was not cut off at the end of the buffer.
Batch(c) == c.json /\ c.size <= MaxFileSize

Sendable(c) == {i \in DOMAIN c.msgs : validate(c.msgs[i])}

VARIABLES
  (* the data folder and the other processes that use it *)
  disk,       \* the content of each file, or Absent
  writer,     \* what the exporter of each file is doing
  held,       \* the files some other process has open
  (* the collector *)
  ready,      \* Program.ready: somebody is logged in
  pc,         \* where the collect goroutine is
  todo,       \* the files of this cycle that are not done yet
  open,       \* the file process() works on
  buffer,     \* the bytes it read
  index,      \* the message of the buffer transfer() is at
  (* the report call and the gateway *)
  call,       \* the state of the outstanding report
  late,       \* messages of given-up calls that may still arrive
  received,   \* messages <<file, position>> the gateway has received
  (* history, read by no action *)
  exported,   \* the content each file was completely written with
  unread,     \* files whose ReadFile failed
  repeated,   \* messages the gateway received more than once
  disturbed   \* files with a call given up, a crash or a failed deletion

folder == <<disk, writer, held, exported>>
gateway == <<received, repeated>>
cycle == <<ready, pc, todo, open, buffer, index>>
vars == <<disk, writer, held, ready, pc, todo, open, buffer, index, call,
          late, received, exported, unread, repeated, disturbed>>

\* process() holds its handle from CreateFile to CloseHandle.
HandleOpen(f) == open = f /\ pc \in {"read", "send", "wait", "sleep", "close"}

current == <<open, index>>

TypeOK ==
  /\ disk \in [Files -> Contents \cup {Partial, Absent}]
  /\ writer \in [Files -> {"none", "writing", "done"}]
  /\ held \subseteq Files
  /\ ready \in BOOLEAN
  /\ pc \in {"idle", "walk", "read", "send", "wait", "sleep", "close", "delete"}
  /\ todo \subseteq Files
  /\ open \in Files \cup {NoFile}
  /\ buffer \in Contents \cup {Partial}
  /\ index \in 0 .. Len(buffer.msgs) + 1
  /\ call \in {"none", "sent", "acked", "refused"}
  /\ late \subseteq Files \X Nat
  /\ received \subseteq Files \X Nat
  /\ exported \in [Files -> Contents \cup {Absent}]
  /\ unread \subseteq Files
  /\ repeated \subseteq Files \X Nat
  /\ disturbed \subseteq Files

Init ==
  /\ disk = [f \in Files |-> Absent]
  /\ writer = [f \in Files |-> "none"]
  /\ held = {}
  /\ ready = FALSE
  /\ pc = "idle"
  /\ todo = {}
  /\ open = NoFile
  /\ buffer = Partial
  /\ index = 0
  /\ call = "none"
  /\ late = {}
  /\ received = {}
  /\ exported = [f \in Files |-> Absent]
  /\ unread = {}
  /\ repeated = {}
  /\ disturbed = {}

-----------------------------------------------------------------------------
(* The other processes that use the folder.  A data file is written once,  *)
(* under a name nobody used before (its last part is a unique timestamp).  *)

StartExport(f) ==
  /\ f \notin LockFiles
  /\ writer[f] = "none"
  /\ writer' = [writer EXCEPT ![f] = "writing"]
  /\ disk' = [disk EXCEPT ![f] = Partial]
  /\ UNCHANGED <<held, exported, cycle, call, late, gateway, unread, disturbed>>

FinishExport(f, c) ==
  /\ writer[f] = "writing"
  /\ writer' = [writer EXCEPT ![f] = "done"]
  /\ disk' = [disk EXCEPT ![f] = c]
  /\ exported' = [exported EXCEPT ![f] = c]
  /\ UNCHANGED <<held, cycle, call, late, gateway, unread, disturbed>>

\* the exporter dies; what it wrote so far stays
AbandonExport(f) ==
  /\ writer[f] = "writing"
  /\ writer' = [writer EXCEPT ![f] = "done"]
  /\ UNCHANGED <<disk, held, exported, cycle, call, late, gateway, unread,
                 disturbed>>

\* the text of a lock file is of no interest to anybody
PlaceLock(f) ==
  /\ f \in LockFiles
  /\ disk[f] = Absent
  /\ disk' = [disk EXCEPT ![f] = Partial]
  /\ UNCHANGED <<writer, held, exported, cycle, call, late, gateway, unread,
                 disturbed>>

RemoveLock(f) ==
  /\ f \in LockFiles
  /\ disk[f] # Absent
  /\ f \notin held
  /\ disk' = [disk EXCEPT ![f] = Absent]
  /\ UNCHANGED <<writer, held, exported, cycle, call, late, gateway, unread,
                 disturbed>>

\* an indexer, a virus scanner, an editor
OtherOpen(f) ==
  /\ disk[f] # Absent
  /\ writer[f] # "writing"
  /\ ~HandleOpen(f)
  /\ held' = held \cup {f}
  /\ UNCHANGED <<disk, writer, exported, cycle, call, late, gateway, unread,
                 disturbed>>

OtherClose(f) ==
  /\ f \in held
  /\ held' = held \ {f}
  /\ UNCHANGED <<disk, writer, exported, cycle, call, late, gateway, unread,
                 disturbed>>

Environment ==
  \E f \in Files :
    \/ StartExport(f)
    \/ \E c \in Contents : FinishExport(f, c)
    \/ AbandonExport(f)
    \/ PlaceLock(f)
    \/ RemoveLock(f)
    \/ OtherOpen(f)
    \/ OtherClose(f)

-----------------------------------------------------------------------------
(* The collector.                                                          *)

\* A user logs in, or the program logs in from login.dat when it starts.
Login ==
  /\ ~ready
  /\ ready' = TRUE
  /\ UNCHANGED <<folder, pc, todo, open, buffer, index, call, late, gateway,
                 unread, disturbed>>

\* The timer fires and collect() lists the folder.  Not logged in, or no data
\* folder to read: it returns, and nothing has changed.
Collect ==
  /\ pc = "idle"
  /\ ready
  /\ LET names == {Name[f] : f \in {g \in Files : disk[g] # Absent}}
     IN  todo' = {f \in Files : Name[f] \in parse(names)}
  /\ pc' = IF todo' = {} THEN "idle" ELSE "walk"
  /\ UNCHANGED <<folder, ready, open, buffer, index, call, late, gateway,
                 unread, disturbed>>

\* ReadDir sorts by name, and `for _, file := range files' keeps that order
IsNext(f) == f \in todo /\ \A g \in todo : f <= g

\* CreateFile with share mode 0 fails: the file is gone or in use
SkipFile(f) ==
  /\ pc = "walk"
  /\ IsNext(f)
  /\ disk[f] = Absent \/ writer[f] = "writing" \/ f \in held
  /\ todo' = todo \ {f}
  /\ UNCHANGED <<folder, ready, pc, open, buffer, index, call, late, gateway,
                 unread, disturbed>>

OpenFile(f) ==
  /\ pc = "walk"
  /\ IsNext(f)
  /\ disk[f] # Absent
  /\ writer[f] # "writing"
  /\ f \notin held
  /\ open' = f
  /\ pc' = "read"
  /\ UNCHANGED <<folder, ready, todo, buffer, index, call, late, gateway,
                 unread, disturbed>>

\* process() ignores the error of ReadFile: the buffer is then empty, and what
\* does not decode is not sent.
ReadFile ==
  /\ pc = "read"
  /\ \/ buffer' = disk[open] /\ UNCHANGED unread
     \/ buffer' = Partial /\ unread' = unread \cup {open}
  /\ index' = 1
  /\ pc' = IF Batch(buffer') THEN "send" ELSE "close"
  /\ UNCHANGED <<folder, ready, todo, open, call, late, gateway, disturbed>>

SkipInvalid ==
  /\ pc = "send"
  /\ index \in DOMAIN buffer.msgs
  /\ ~validate(buffer.msgs[index])
  /\ index' = index + 1
  /\ UNCHANGED <<folder, ready, pc, todo, open, buffer, call, late, gateway,
                 unread, disturbed>>

\* a slip: an invalid message is logged but sent all the same
SendMessage_Unchecked ==
  /\ pc = "send"
  /\ index \in DOMAIN buffer.msgs
  /\ call' = "sent"
  /\ pc' = "wait"
  /\ UNCHANGED <<folder, ready, todo, open, buffer, index, late, gateway,
                 unread, disturbed>>

SendMessage ==
  /\ pc = "send"
  /\ index \in DOMAIN buffer.msgs
  /\ validate(buffer.msgs[index])
  /\ call' = "sent"
  /\ pc' = "wait"
  /\ UNCHANGED <<folder, ready, todo, open, buffer, index, late, gateway,
                 unread, disturbed>>

\* a slip: no break out of the retry loop
Reply_NoBreak ==
  /\ pc = "wait"
  /\ call = "acked"
  /\ call' = "none"
  /\ pc' = "send"
  /\ UNCHANGED <<folder, ready, todo, open, buffer, index, late, gateway,
                 unread, disturbed>>

\* a slip: the message after the sent one is stepped over
Reply_StepTwice ==
  /\ pc = "wait"
  /\ call = "acked"
  /\ call' = "none"
  /\ pc' = "send"
  /\ index' = index + 2
  /\ UNCHANGED <<folder, ready, todo, open, buffer, late, gateway, unread,
                 disturbed>>

Reply ==
  /\ pc = "wait"
  /\ call = "acked"
  /\ call' = "none"
  /\ pc' = "send"
  /\ index' = index + 1
  /\ UNCHANGED <<folder, ready, todo, open, buffer, late, gateway, unread,
                 disturbed>>

\* The end of a call without success.  A request given up unanswered may still
\* reach the gateway; an answer that comes now is not seen any more.
Abandoned ==
  /\ late' = IF call = "sent" THEN late \cup {current} ELSE late
  /\ disturbed' = IF call \in {"sent", "acked"}
                  THEN disturbed \cup {open} ELSE disturbed
  /\ call' = "none"

\* a slip: transfer() moves on to the next message after an error
CallFails_MoveOn ==
  /\ pc = "wait"
  /\ Abandoned
  /\ pc' = "send"
  /\ index' = index + 1
  /\ UNCHANGED <<folder, ready, todo, open, buffer, gateway, unread>>

\* a slip: transfer() returns the error of flush()
CallFails_Return ==
  /\ pc = "wait"
  /\ Abandoned
  /\ pc' = "close"
  /\ UNCHANGED <<folder, ready, todo, open, buffer, index, gateway, unread>>

\* The deadline passes, the connection breaks, or the gateway refuses.  (When
\* it refuses the token, flush() logs in again before it returns the error.)
CallFails ==
  /\ pc = "wait"
  /\ Abandoned
  /\ pc' = "sleep"
  /\ UNCHANGED <<folder, ready, todo, open, buffer, index, gateway, unread>>

\* time.Sleep is over: once more
Retry ==
  /\ pc = "sleep"
  /\ pc' = "send"
  /\ UNCHANGED <<folder, ready, todo, open, buffer, index, call, late, gateway,
                 unread, disturbed>>

\* an off-by-one: the last message does not count
EndOfBatch_Short ==
  /\ pc = "send"
  /\ index + 1 \notin DOMAIN buffer.msgs
  /\ pc' = "close"
  /\ UNCHANGED <<folder, ready, todo, open, buffer, index, call, late, gateway,
                 unread, disturbed>>

EndOfBatch ==
  /\ pc = "send"
  /\ index \notin DOMAIN buffer.msgs
  /\ pc' = "close"
  /\ UNCHANGED <<folder, ready, todo, open, buffer, index, call, late, gateway,
                 unread, disturbed>>

CloseFile ==
  /\ pc = "close"
  /\ pc' = "delete"
  /\ UNCHANGED <<folder, ready, todo, open, buffer, index, call, late, gateway,
                 unread, disturbed>>

\* DeleteFile can fail (certainly while another process has the file open);
\* process() does not look at the result and takes the next file either way.
DeleteFile ==
  /\ pc = "delete"
  /\ \/ /\ open \notin held
        /\ disk' = [disk EXCEPT ![open] = Absent]
        /\ UNCHANGED disturbed
     \/ disturbed' = disturbed \cup {open} /\ UNCHANGED disk
  /\ todo' = todo \ {open}
  /\ open' = NoFile
  /\ buffer' = Partial
  /\ index' = 0
  /\ pc' = "walk"
  /\ UNCHANGED <<writer, held, exported, ready, call, late, gateway, unread>>

\* a slip: the goroutine is gone after its first cycle
EndCycle_Once ==
  /\ pc = "walk"
  /\ todo = {}
  /\ ready' = FALSE
  /\ pc' = "walk"
  /\ UNCHANGED <<folder, todo, open, buffer, index, call, late, gateway,
                 unread, disturbed>>

\* collect() returns and the timer is set again
EndCycle ==
  /\ pc = "walk"
  /\ todo = {}
  /\ pc' = "idle"
  /\ UNCHANGED <<folder, ready, todo, open, buffer, index, call, late, gateway,
                 unread, disturbed>>

\* The process ends, for whatever reason and wherever it is, and is started
\* again.  The handle is closed by the operating system.
Crash ==
  /\ ready' = FALSE
  /\ pc' = "idle"
  /\ todo' = {}
  /\ open' = NoFile
  /\ buffer' = Partial
  /\ index' = 0
  /\ call' = "none"
  /\ late' = IF call = "sent" THEN late \cup {current} ELSE late
  /\ disturbed' = IF open = NoFile THEN disturbed ELSE disturbed \cup {open}
  /\ UNCHANGED <<folder, gateway, unread>>

Collector ==
  \/ Login
  \/ Collect
  \/ \E f \in Files : SkipFile(f) \/ OpenFile(f)
  \/ ReadFile
  \/ SkipInvalid
  \/ SendMessage
  \/ Reply
  \/ CallFails
  \/ Retry
  \/ EndOfBatch
  \/ CloseFile
  \/ DeleteFile
  \/ EndCycle
  \/ Crash

-----------------------------------------------------------------------------
(* The gateway, as far as the calls of report() show it.                   *)

Receive(m) ==
  /\ received' = received \cup {m}
  /\ repeated' = IF m \in received THEN repeated \cup {m} ELSE repeated

Accept ==
  /\ call = "sent"
  /\ call' = "acked"
  /\ Receive(current)
  /\ UNCHANGED <<folder, cycle, late, unread, disturbed>>

\* an error, or a reply whose status is not Success
Refuse ==
  /\ call = "sent"
  /\ call' = "refused"
  /\ UNCHANGED <<folder, cycle, late, gateway, unread, disturbed>>

\* a request the collector has given up arrives, or never will
ReceiveLate(m) ==
  /\ m \in late
  /\ late' = late \ {m}
  /\ Receive(m)
  /\ UNCHANGED <<folder, cycle, call, unread, disturbed>>

LoseLate(m) ==
  /\ m \in late
  /\ late' = late \ {m}
  /\ UNCHANGED <<folder, cycle, call, gateway, unread, disturbed>>

Gateway ==
  \/ Accept
  \/ Refuse
  \/ \E m \in late : ReceiveLate(m) \/ LoseLate(m)

Next == Environment \/ Collector \/ Gateway

Spec == Init /\ [][Next]_vars

(* Fairness.  The goroutine is scheduled, its timers fire, and a call comes  *)
(* to an end, since report has a deadline.  The rest is assumed of those     *)
(* around the collector: somebody logs in (or login.dat does it) after every *)
(* start, a lock file is removed some day, an open file is closed, and a     *)
(* started export comes to an end.  Nothing is assumed of the gateway.       *)
Fairness ==
  /\ WF_vars(Login)
  /\ WF_vars(Collect)
  /\ \A f \in Files :
       /\ WF_vars(SkipFile(f))
       /\ WF_vars(OpenFile(f))
       /\ WF_vars(OtherClose(f))
       /\ WF_vars(RemoveLock(f))
       /\ WF_vars(AbandonExport(f) \/ \E c \in Contents : FinishExport(f, c))
  /\ WF_vars(ReadFile)
  /\ WF_vars(SkipInvalid)
  /\ WF_vars(SendMessage)
  /\ WF_vars(CallFails)
  /\ WF_vars(Retry)
  /\ WF_vars(EndOfBatch)
  /\ WF_vars(CloseFile)
  /\ WF_vars(DeleteFile)
  /\ WF_vars(EndCycle)

FairSpec == Spec /\ Fairness

-----------------------------------------------------------------------------
(* Properties                                                              *)

AllReceived(f) == \A i \in Sendable(exported[f]) : <<f, i>> \in received

\* A file that was completely exported disappears only when the gateway has
\* received every message of it that can be sent; the exceptions are a file
\* that is not a batch of messages or is longer than the buffer, and a file
\* ReadFile failed on: process() deletes these unsent.
NoLoss ==
  \A f \in Files :
    exported[f] # Absent /\ disk[f] = Absent /\ f \notin unread
      => (Batch(exported[f]) => AllReceived(f))

\* The gateway sees the messages of a file in the order of the file, whatever
\* calls are repeated, given up or late: a later message is never there
\* without the earlier ones.
InOrder ==
  \A m \in received : exported[m[1]] # Absent =>
    \A i \in Sendable(exported[m[1]]) : i < m[2] => <<m[1], i>> \in received

\* The gateway sees only valid messages of files whose export is complete,
\* never the beginning of a file that is still being written.
OnlyExported ==
  \A m \in received :
    /\ exported[m[1]] # Absent
    /\ m[2] \in Sendable(exported[m[1]])

\* A message is received twice only if its file had a call that was given up,
\* a crash while it was processed, or a deletion that failed.  Each of these
\* is a source of duplicates in the code; there is no other.
RepeatsExplained == \A m \in repeated : m[1] \in disturbed

\* A cycle never starts on a file whose export type is locked at that moment,
\* by lock.json or by the lock file of its type (in any case of letters).
StartsUnlocked ==
  pc = "idle" /\ pc' # "idle" =>
    \A l \in LockFiles : disk[l] # Absent =>
      /\ Len(Name[l].dashes) # 1
      /\ Len(Name[l].dashes) = 2 =>
           \A f \in todo' :
             ToLower(Name[f].scores[1]) # ToLower(Name[l].dashes[2])

LocksRespected == [][StartsUnlocked]_vars

\* From some time on the process does not end any more, and nobody locks an
\* export type or opens a file of the folder.
Disturbance == Crash \/ \E f \in Files : PlaceLock(f) \/ OtherOpen(f)
Calm == <>[][~Disturbance]_vars

\* transfer() is at one message and has not got it through yet.
Retrying == pc \in {"send", "wait", "sleep"}

\* The cycles come to an end, and each one takes up what is left: once things
\* are calm, each message of each exported file of a supported type reaches
\* the gateway, whatever crashes, locks and failed calls there were before.
\* Only one thing keeps it from that: the gateway fails one message for ever,
\* and "retry again until sending success" (transfer) holds up all the others.
Drained ==
  Calm /\ ~<>[]Retrying => \A f \in Files :
    (/\ exported[f] # Absent
     /\ Name[f] \in parse({Name[f]})
     /\ Batch(exported[f]))
    ~> (f \in unread \/ (exported[f] # Absent /\ AllReceived(f)))

\* The collect job implements the delivery promise of module Delivery.
D == INSTANCE Delivery WITH
       published <- exported,
       retired <- {f \in Files : exported[f] # Absent /\ disk[f] = Absent}
DeliverySpec == D!Spec

=============================================================================
