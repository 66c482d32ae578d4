---------------------------- MODULE CollectProofs ----------------------------
(***************************************************************************)
(* Proofs about Collect for any folder, any contents and any buffer size.  *)
(*                                                                         *)
(* None of the safety properties of Collect is inductive.  What makes them *)
(* hold is the correspondence between the file on disk, the buffer and the *)
(* place transfer() has reached in it; IInv states it, piece by piece.     *)
(***************************************************************************)
EXTENDS Collect, TLAPS

\* The content of a file: nothing but what its exporter wrote, and of a
\* completed export nothing else but that content or no file at all.
FolderOK ==
  \A f \in Files :
    /\ f \in LockFiles => writer[f] = "none"
    /\ writer[f] # "done" => exported[f] = Absent
    /\ writer[f] = "none" /\ f \notin LockFiles => disk[f] = Absent
    /\ writer[f] = "writing" => disk[f] # Absent
    /\ exported[f] = Absent => disk[f] \in {Partial, Absent}
    /\ exported[f] # Absent => disk[f] \in {exported[f], Absent}

Processing == pc \in {"read", "send", "wait", "sleep", "close", "delete"}
Sending == pc \in {"send", "wait", "sleep"}

\* The file process() works on is there, finished, and the next of the cycle;
\* a call is outstanding in transfer()'s wait for it and nowhere else.
OpenOK ==
  /\ todo \cap LockFiles = {}
  /\ Processing => open \in todo /\ writer[open] = "done" /\ disk[open] # Absent
  /\ ~Processing => open = NoFile
  /\ call # "none" <=> pc = "wait"

\* While transfer() runs the buffer is the file, and index a position in it.
BufferOK ==
  /\ Sending => buffer = disk[open] /\ Batch(buffer) /\ index > 0
  /\ pc = "wait" => index \in Sendable(buffer)

\* Every message before index has been received; at the end, all of them.
SentOK ==
  /\ Sending => \A i \in Sendable(buffer) : i < index => <<open, i>> \in received
  /\ call = "acked" => current \in received
  /\ pc \in {"close", "delete"} /\ exported[open] # Absent /\ open \notin unread
       => (Batch(exported[open]) => AllReceived(open))

\* A request that is still under way was sent in its turn.
LateOK ==
  \A m \in late :
    /\ m[1] \in disturbed
    /\ exported[m[1]] # Absent
    /\ m[2] \in Sendable(exported[m[1]])
    /\ \A i \in Sendable(exported[m[1]]) : i < m[2] => <<m[1], i>> \in received

\* Of an undisturbed file nothing is received but what transfer() has left
\* behind, or the message it has just got the answer for.
OnceOK ==
  \A m \in received : m[1] \notin disturbed /\ disk[m[1]] # Absent =>
    /\ open = m[1]
    /\ pc \in {"send", "wait", "sleep", "close", "delete"}
    /\ Sending => m[2] < index \/ (m[2] = index /\ call = "acked")

\* All of it together, with the safety properties of Collect: a step that starts
\* where this holds ends where it holds.
IInv ==
  /\ TypeOK
  /\ FolderOK
  /\ OpenOK
  /\ BufferOK
  /\ SentOK
  /\ LateOK
  /\ OnceOK
  /\ NoLoss
  /\ InOrder
  /\ OnlyExported
  /\ RepeatsExplained

-----------------------------------------------------------------------------
(* What is used of the operators.                                          *)

\* parse() returns only names it was given, and none of them is a lock.
LEMMA ParseData ==
  ASSUME NEW names, NEW n \in parse(names)
  PROVE  n \in names /\ IsData(n) /\ ~IsLock(n)
BY DEF parse, IsData, IsLock

\* A partial file, or an empty buffer, is no batch; nor is a missing file.
LEMMA PartialFacts ==
  /\ Partial \in ContentType
  /\ Partial # Absent
  /\ ~Batch(Partial)
  /\ Absent \notin Contents
<1>1. Partial \in ContentType
  BY DEF Partial, ContentType
<1> QED
  BY <1>1, CollectAssumption DEF Partial, Batch

\* The positions of the messages to send, in any content.
LEMMA SendableFacts ==
  ASSUME NEW c \in Contents \cup {Partial}
  PROVE  /\ Len(c.msgs) \in Nat
         /\ DOMAIN c.msgs = 1 .. Len(c.msgs)
         /\ Sendable(c) \subseteq 1 .. Len(c.msgs)
<1>1. c.msgs \in Seq(MessageType)
  BY PartialFacts, CollectAssumption DEF ContentType
<1> QED
  BY <1>1 DEF Sendable

-----------------------------------------------------------------------------
(* The inductive step, one invariant at a time.                            *)

LEMMA TypeStep ==
  ASSUME TypeOK, BufferOK, OpenOK, [Next]_vars
  PROVE  TypeOK'
<1> USE DEF TypeOK
<1>1. ASSUME NEW f \in Files, StartExport(f) PROVE TypeOK'
  BY <1>1 DEF StartExport, cycle, gateway
<1>2. ASSUME NEW f \in Files, NEW c \in Contents, FinishExport(f, c) PROVE TypeOK'
  BY <1>2 DEF FinishExport, cycle, gateway
<1>3. ASSUME NEW f \in Files, AbandonExport(f) PROVE TypeOK'
  BY <1>3 DEF AbandonExport, cycle, gateway
<1>4. ASSUME NEW f \in Files, PlaceLock(f) PROVE TypeOK'
  BY <1>4 DEF PlaceLock, cycle, gateway
<1>5. ASSUME NEW f \in Files, RemoveLock(f) PROVE TypeOK'
  BY <1>5 DEF RemoveLock, cycle, gateway
<1>6. ASSUME NEW f \in Files, OtherOpen(f) \/ OtherClose(f) PROVE TypeOK'
  BY <1>6 DEF OtherOpen, OtherClose, cycle, gateway
<1>7. ASSUME Login \/ Collect PROVE TypeOK'
  BY <1>7 DEF Login, Collect, folder, gateway
<1>8. ASSUME NEW f \in Files, SkipFile(f) \/ OpenFile(f) PROVE TypeOK'
  BY <1>8 DEF SkipFile, OpenFile, folder, gateway
<1>9. ASSUME ReadFile PROVE TypeOK'
  <2>1. open \in Files /\ disk[open] \in Contents \cup {Partial}
    BY <1>9 DEF ReadFile, OpenOK, Processing
  <2>2. buffer' \in Contents \cup {Partial}
    BY <1>9, <2>1 DEF ReadFile
  <2>3. index' \in 0 .. Len(buffer'.msgs) + 1
    BY <1>9, <2>2, SendableFacts DEF ReadFile
  <2> QED
    BY <1>9, <2>1, <2>2, <2>3 DEF ReadFile, folder, gateway
<1>10. ASSUME SkipInvalid PROVE TypeOK'
  BY <1>10, SendableFacts DEF SkipInvalid, folder, gateway
<1>11. ASSUME SendMessage PROVE TypeOK'
  BY <1>11 DEF SendMessage, folder, gateway
<1>12. ASSUME Reply PROVE TypeOK'
  BY <1>12, SendableFacts DEF Reply, BufferOK, folder, gateway
<1>13. ASSUME CallFails PROVE TypeOK'
  <2>1. open \in Files /\ index \in Nat
    BY <1>13, SendableFacts DEF CallFails, OpenOK, Processing
  <2> QED
    BY <1>13, <2>1 DEF CallFails, Abandoned, current, folder, gateway
<1>14. ASSUME Retry \/ EndOfBatch \/ CloseFile \/ EndCycle PROVE TypeOK'
  BY <1>14 DEF Retry, EndOfBatch, CloseFile, EndCycle, folder, gateway
<1>15. ASSUME DeleteFile PROVE TypeOK'
  <2>1. open \in Files
    BY <1>15 DEF DeleteFile, OpenOK, Processing
  <2>2. Partial.msgs = << >>
    BY DEF Partial
  <2> QED
    BY <1>15, <2>1, <2>2 DEF DeleteFile, gateway
<1>16. ASSUME Crash PROVE TypeOK'
  <2>1. call = "sent" => open \in Files /\ index \in Nat
    BY SendableFacts DEF OpenOK, Processing
  <2>2. Partial.msgs = << >>
    BY DEF Partial
  <2>3. late' \subseteq Files \X Nat
    BY <1>16, <2>1 DEF Crash, current
  <2>4. disturbed' \subseteq Files
    BY <1>16 DEF Crash
  <2>5. index' \in 0 .. Len(buffer'.msgs) + 1
    BY <1>16, <2>2 DEF Crash
  <2> QED
    BY <1>16, <2>3, <2>4, <2>5 DEF Crash, folder, gateway
<1>17. ASSUME Accept \/ Refuse PROVE TypeOK'
  <2>1. call = "sent" => open \in Files /\ index \in Nat
    BY SendableFacts DEF OpenOK, Processing
  <2> QED
    BY <1>17, <2>1 DEF Accept, Refuse, Receive, current, folder, cycle, gateway
<1>18. ASSUME NEW m \in late, ReceiveLate(m) \/ LoseLate(m) PROVE TypeOK'
  BY <1>18 DEF ReceiveLate, LoseLate, Receive, folder, cycle, gateway
<1>19. ASSUME UNCHANGED vars PROVE TypeOK'
  BY <1>19 DEF vars
<1> QED
  BY <1>1, <1>2, <1>3, <1>4, <1>5, <1>6, <1>7, <1>8, <1>9, <1>10, <1>11, <1>12,
     <1>13, <1>14, <1>15, <1>16, <1>17, <1>18, <1>19
  DEF Next, Environment, Collector, Gateway

LEMMA FolderStep ==
  ASSUME TypeOK, FolderOK, OpenOK, [Next]_vars
  PROVE  FolderOK'
<1> USE DEF FolderOK
<1> Absent # Partial /\ Absent \notin Contents
  BY PartialFacts
<1>1. ASSUME NEW f \in Files, StartExport(f) PROVE FolderOK'
  BY <1>1 DEF StartExport, LockFiles, TypeOK
<1>2. ASSUME NEW f \in Files, NEW c \in Contents, FinishExport(f, c) PROVE FolderOK'
  BY <1>2 DEF FinishExport, LockFiles, TypeOK
<1>3. ASSUME NEW f \in Files, AbandonExport(f) PROVE FolderOK'
  BY <1>3 DEF AbandonExport, LockFiles, TypeOK
<1>4. ASSUME NEW f \in Files, PlaceLock(f) \/ RemoveLock(f) PROVE FolderOK'
  BY <1>4 DEF PlaceLock, RemoveLock, LockFiles, TypeOK
<1>5. ASSUME DeleteFile PROVE FolderOK'
  <2>1. open \in Files /\ writer[open] = "done"
    BY <1>5 DEF DeleteFile, OpenOK, Processing, TypeOK
  <2> QED
    BY <1>5, <2>1 DEF DeleteFile, LockFiles, TypeOK
<1>6. ASSUME UNCHANGED <<disk, writer, exported>> PROVE FolderOK'
  BY <1>6 DEF LockFiles
<1>7. ASSUME NEW f \in Files, OtherOpen(f) \/ OtherClose(f) \/ SkipFile(f) \/ OpenFile(f)
      PROVE  UNCHANGED <<disk, writer, exported>>
  BY <1>7 DEF OtherOpen, OtherClose, SkipFile, OpenFile, folder
<1>8. ASSUME \/ Login \/ Collect \/ ReadFile \/ SkipInvalid \/ SendMessage \/ Reply
             \/ CallFails \/ Retry \/ EndOfBatch \/ CloseFile \/ EndCycle \/ Crash
      PROVE  UNCHANGED <<disk, writer, exported>>
  BY <1>8 DEF Login, Collect, ReadFile, SkipInvalid, SendMessage, Reply, CallFails,
     Retry, EndOfBatch, CloseFile, EndCycle, Crash, folder
<1>9. ASSUME Gateway \/ UNCHANGED vars PROVE UNCHANGED <<disk, writer, exported>>
  BY <1>9 DEF Gateway, Accept, Refuse, ReceiveLate, LoseLate, folder, vars
<1> QED
  BY <1>1, <1>2, <1>3, <1>4, <1>5, <1>6, <1>7, <1>8, <1>9
  DEF Next, Environment, Collector

LEMMA OpenStep ==
  ASSUME TypeOK, FolderOK, OpenOK, [Next]_vars
  PROVE  OpenOK'
<1> USE DEF OpenOK, Processing
<1> Absent # Partial /\ Absent \notin Contents
  BY PartialFacts
<1> LockFiles' = LockFiles
  BY DEF LockFiles
<1>1. ASSUME NEW f \in Files, StartExport(f) PROVE OpenOK'
  BY <1>1 DEF StartExport, cycle, TypeOK
<1>2. ASSUME NEW f \in Files, NEW c \in Contents, FinishExport(f, c) PROVE OpenOK'
  BY <1>2 DEF FinishExport, cycle, TypeOK
<1>3. ASSUME NEW f \in Files, AbandonExport(f) PROVE OpenOK'
  BY <1>3 DEF AbandonExport, cycle, TypeOK
<1>4. ASSUME NEW f \in Files, PlaceLock(f) \/ RemoveLock(f) PROVE OpenOK'
  BY <1>4 DEF PlaceLock, RemoveLock, cycle, TypeOK
<1>5. ASSUME NEW f \in Files, OtherOpen(f) \/ OtherClose(f) PROVE OpenOK'
  BY <1>5 DEF OtherOpen, OtherClose, cycle
<1>6. ASSUME Login PROVE OpenOK'
  BY <1>6 DEF Login, folder
<1>7. ASSUME Collect PROVE OpenOK'
  <2>1. ASSUME NEW f \in todo' PROVE f \notin LockFiles
    BY <1>7, <2>1, ParseData DEF Collect, LockFiles
  <2> QED
    BY <1>7, <2>1 DEF Collect, folder
<1>8. ASSUME NEW f \in Files, SkipFile(f) PROVE OpenOK'
  BY <1>8 DEF SkipFile, folder
<1>9. ASSUME NEW f \in Files, OpenFile(f) PROVE OpenOK'
  <2>1. f \notin LockFiles
    BY <1>9 DEF OpenFile, IsNext
  <2>2. writer[f] = "done"
    BY <1>9, <2>1 DEF OpenFile, FolderOK, TypeOK
  <2> QED
    BY <1>9, <2>2 DEF OpenFile, IsNext, folder
<1>10. ASSUME ReadFile \/ SkipInvalid \/ SendMessage PROVE OpenOK'
  BY <1>10 DEF ReadFile, SkipInvalid, SendMessage, folder
<1>11. ASSUME Reply \/ CallFails \/ Retry \/ EndOfBatch \/ CloseFile PROVE OpenOK'
  BY <1>11 DEF Reply, CallFails, Abandoned, Retry, EndOfBatch, CloseFile, folder
<1>12. ASSUME DeleteFile PROVE OpenOK'
  BY <1>12 DEF DeleteFile
<1>13. ASSUME EndCycle \/ Crash PROVE OpenOK'
  BY <1>13 DEF EndCycle, Crash, folder
<1>14. ASSUME Accept \/ Refuse PROVE OpenOK'
  BY <1>14 DEF Accept, Refuse, folder, cycle
<1>15. ASSUME NEW m \in late, ReceiveLate(m) \/ LoseLate(m) PROVE OpenOK'
  BY <1>15 DEF ReceiveLate, LoseLate, folder, cycle
<1>16. ASSUME UNCHANGED vars PROVE OpenOK'
  BY <1>16 DEF vars
<1> QED
  BY <1>1, <1>2, <1>3, <1>4, <1>5, <1>6, <1>7, <1>8, <1>9, <1>10, <1>11, <1>12,
     <1>13, <1>14, <1>15, <1>16
  DEF Next, Environment, Collector, Gateway

\* What transfer() sends is the completed export.
LEMMA SendingFacts ==
  ASSUME TypeOK, FolderOK, OpenOK, BufferOK, Sending
  PROVE  /\ open \in Files
         /\ exported[open] # Absent
         /\ buffer = exported[open]
         /\ buffer \in Contents
         /\ Batch(buffer)
BY PartialFacts DEF TypeOK, FolderOK, OpenOK, BufferOK, Sending, Processing

\* The steps that leave transfer()'s place in the file alone.
LEMMA OtherSteps ==
  ASSUME TypeOK, FolderOK, OpenOK, BufferOK,
         Environment \/ Login \/ Gateway \/ UNCHANGED vars
  PROVE  /\ UNCHANGED <<pc, todo, open, buffer, index>>
         /\ Processing => disk'[open] = disk[open] /\ exported'[open] = exported[open]
<1> USE DEF TypeOK
<1> DEFINE P == /\ UNCHANGED <<pc, todo, open, buffer, index>>
                /\ Processing => disk'[open] = disk[open] /\ exported'[open] = exported[open]
<1>1. Processing => open \in Files /\ open \notin LockFiles /\ writer[open] = "done"
  BY DEF OpenOK, Processing
<1>2. ASSUME NEW f \in Files, StartExport(f) PROVE P
  BY <1>1, <1>2 DEF StartExport, cycle
<1>3. ASSUME NEW f \in Files, NEW c \in Contents, FinishExport(f, c) PROVE P
  BY <1>1, <1>3 DEF FinishExport, cycle
<1>4. ASSUME NEW f \in Files, AbandonExport(f) PROVE P
  BY <1>1, <1>4 DEF AbandonExport, cycle
<1>5. ASSUME NEW f \in Files, PlaceLock(f) \/ RemoveLock(f) PROVE P
  BY <1>1, <1>5 DEF PlaceLock, RemoveLock, cycle
<1>6. ASSUME NEW f \in Files, OtherOpen(f) \/ OtherClose(f) PROVE P
  BY <1>6 DEF OtherOpen, OtherClose, cycle
<1>7. ASSUME Login PROVE P
  BY <1>7 DEF Login, folder
<1>8. ASSUME Gateway PROVE P
  BY <1>8 DEF Gateway, Accept, Refuse, ReceiveLate, LoseLate, folder, cycle
<1>9. ASSUME UNCHANGED vars PROVE P
  BY <1>9 DEF vars
<1> QED
  BY <1>2, <1>3, <1>4, <1>5, <1>6, <1>7, <1>8, <1>9 DEF Environment

LEMMA BufferStep ==
  ASSUME TypeOK, FolderOK, OpenOK, BufferOK, [Next]_vars
  PROVE  BufferOK'
<1> USE DEF BufferOK, Sending
<1>1. CASE Environment \/ Login \/ Gateway \/ UNCHANGED vars
  BY <1>1, OtherSteps DEF Processing
<1>2. ASSUME Collect \/ \E f \in Files : SkipFile(f) \/ OpenFile(f) PROVE BufferOK'
  BY <1>2 DEF Collect, SkipFile, OpenFile
<1>3. ASSUME ReadFile PROVE BufferOK'
  BY <1>3, PartialFacts DEF ReadFile, folder
<1>4. ASSUME SkipInvalid PROVE BufferOK'
  BY <1>4, SendableFacts DEF SkipInvalid, folder, TypeOK
<1>5. ASSUME SendMessage PROVE BufferOK'
  BY <1>5 DEF SendMessage, folder, Sendable
<1>6. ASSUME Reply PROVE BufferOK'
  BY <1>6, SendableFacts DEF Reply, folder, TypeOK
<1>7. ASSUME CallFails \/ Retry \/ EndOfBatch \/ CloseFile PROVE BufferOK'
  BY <1>7 DEF CallFails, Retry, EndOfBatch, CloseFile, folder
<1>8. ASSUME DeleteFile \/ EndCycle \/ Crash PROVE BufferOK'
  BY <1>8 DEF DeleteFile, EndCycle, Crash
<1> QED
  BY <1>1, <1>2, <1>3, <1>4, <1>5, <1>6, <1>7, <1>8 DEF Next, Collector

\* A completed export is never written again.
LEMMA ExportedStays ==
  ASSUME TypeOK, FolderOK, [Next]_vars, NEW f \in Files, exported[f] # Absent
  PROVE  exported'[f] = exported[f]
<1>1. ASSUME NEW g \in Files, NEW c \in Contents, FinishExport(g, c)
      PROVE  exported'[f] = exported[f]
  BY <1>1 DEF FinishExport, FolderOK, TypeOK
<1>2. ASSUME NEW g \in Files,
             \/ StartExport(g) \/ AbandonExport(g) \/ PlaceLock(g) \/ RemoveLock(g)
             \/ OtherOpen(g) \/ OtherClose(g) \/ SkipFile(g) \/ OpenFile(g)
      PROVE  exported'[f] = exported[f]
  BY <1>2 DEF StartExport, AbandonExport, PlaceLock, RemoveLock, OtherOpen,
     OtherClose, SkipFile, OpenFile, folder
<1>3. ASSUME \/ Login \/ Collect \/ ReadFile \/ SkipInvalid \/ SendMessage \/ Reply
             \/ CallFails \/ Retry \/ EndOfBatch \/ CloseFile \/ DeleteFile
             \/ EndCycle \/ Crash
      PROVE  exported'[f] = exported[f]
  BY <1>3 DEF Login, Collect, ReadFile, SkipInvalid, SendMessage, Reply, CallFails,
     Retry, EndOfBatch, CloseFile, DeleteFile, EndCycle, Crash, folder
<1>4. ASSUME Gateway \/ UNCHANGED vars PROVE exported'[f] = exported[f]
  BY <1>4 DEF Gateway, Accept, Refuse, ReceiveLate, LoseLate, folder, vars
<1> QED
  BY <1>1, <1>2, <1>3, <1>4 DEF Next, Environment, Collector

\* How the gateway comes to receive a message: the one transfer() waits for,
\* or one it has given up before.
LEMMA ReceivedStep ==
  ASSUME [Next]_vars
  PROVE  \/ received' = received /\ repeated' = repeated
         \/ Accept
         \/ \E m \in late : ReceiveLate(m)
<1>1. ASSUME Environment PROVE received' = received /\ repeated' = repeated
  BY <1>1 DEF Environment, StartExport, FinishExport, AbandonExport, PlaceLock,
     RemoveLock, OtherOpen, OtherClose, gateway
<1>2. ASSUME Collector PROVE received' = received /\ repeated' = repeated
  BY <1>2 DEF Collector, Login, Collect, SkipFile, OpenFile, ReadFile, SkipInvalid,
     SendMessage, Reply, CallFails, Retry, EndOfBatch, CloseFile, DeleteFile,
     EndCycle, Crash, gateway
<1>3. ASSUME Refuse \/ \E m \in late : LoseLate(m)
      PROVE  received' = received /\ repeated' = repeated
  BY <1>3 DEF Refuse, LoseLate, gateway
<1> QED
  BY <1>1, <1>2, <1>3 DEF Next, Gateway, vars

\* What the gateway receives is a message to be sent, in its turn.
LEMMA ReceivedGrows ==
  ASSUME TypeOK, FolderOK, OpenOK, BufferOK, SentOK, LateOK, [Next]_vars
  PROVE  \/ received' = received
         \/ \E f \in Files : \E i \in Sendable(exported[f]) :
              /\ exported[f] # Absent
              /\ \A j \in Sendable(exported[f]) : j < i => <<f, j>> \in received
              /\ received' = received \cup {<<f, i>>}
<1>1. CASE Accept
  <2>1. Sending /\ index \in Sendable(buffer)
    BY <1>1 DEF Accept, OpenOK, BufferOK, Sending
  <2>2. open \in Files /\ exported[open] # Absent /\ buffer = exported[open]
    BY <2>1, SendingFacts
  <2>3. \A j \in Sendable(buffer) : j < index => <<open, j>> \in received
    BY <2>1 DEF SentOK
  <2> QED
    BY <1>1, <2>1, <2>2, <2>3 DEF Accept, Receive, current
<1>2. ASSUME NEW m \in late, ReceiveLate(m)
      PROVE  \E f \in Files : \E i \in Sendable(exported[f]) :
              /\ exported[f] # Absent
              /\ \A j \in Sendable(exported[f]) : j < i => <<f, j>> \in received
              /\ received' = received \cup {<<f, i>>}
  <2>1. m[1] \in Files /\ m = <<m[1], m[2]>>
    BY DEF TypeOK
  <2> QED
    BY <1>2, <2>1 DEF ReceiveLate, Receive, LateOK
<1> QED
  BY <1>1, <1>2, ReceivedStep

\* The call is acknowledged or given up only by the steps that say so.
LEMMA CallStep ==
  ASSUME Environment \/ Login \/ Gateway \/ UNCHANGED vars, call' = "acked"
  PROVE  call = "acked" \/ Accept
BY DEF Environment, StartExport, FinishExport, AbandonExport, PlaceLock, RemoveLock,
   OtherOpen, OtherClose, Login, Gateway, Accept, Refuse, ReceiveLate, LoseLate, vars

\* Files whose reading failed stay so; it happens in ReadFile only.
LEMMA UnreadStep ==
  ASSUME [Next]_vars
  PROVE  unread' = unread \/ ReadFile
<1>1. ASSUME Environment \/ Gateway \/ UNCHANGED vars PROVE unread' = unread
  BY <1>1 DEF Environment, StartExport, FinishExport, AbandonExport, PlaceLock,
     RemoveLock, OtherOpen, OtherClose, Gateway, Accept, Refuse, ReceiveLate,
     LoseLate, vars
<1>2. ASSUME Collector PROVE unread' = unread \/ ReadFile
  BY <1>2 DEF Collector, Login, Collect, SkipFile, OpenFile, SkipInvalid,
     SendMessage, Reply, CallFails, Retry, EndOfBatch, CloseFile, DeleteFile,
     EndCycle, Crash
<1> QED
  BY <1>1, <1>2 DEF Next

LEMMA SentStep ==
  ASSUME TypeOK, FolderOK, OpenOK, BufferOK, SentOK, LateOK, [Next]_vars
  PROVE  SentOK'
<1> USE DEF Sending
<1>1. received \subseteq received'
  BY ReceivedGrows
<1>2. unread \subseteq unread'
  BY UnreadStep DEF ReadFile
<1>3. CASE Environment \/ Login \/ Gateway \/ UNCHANGED vars
  <2>1. UNCHANGED <<pc, open, buffer, index>>
    BY <1>3, OtherSteps
  <2>2. Processing => exported'[open] = exported[open]
    BY <1>3, OtherSteps
  <2>3. call' = "acked" => current' \in received'
    <3>1. CASE Accept
      BY <3>1, <2>1 DEF Accept, Receive, current
    <3>2. CASE call = "acked"
      BY <3>2, <1>1, <2>1 DEF SentOK, current
    <3> QED
      BY <3>1, <3>2, <1>3, CallStep
  <2>4. Sending' => \A i \in Sendable(buffer') : i < index' => <<open', i>> \in received'
    BY <1>1, <2>1 DEF SentOK
  <2>5. pc' \in {"close", "delete"} /\ exported'[open'] # Absent /\ open' \notin unread'
          => (Batch(exported'[open']) => AllReceived(open)')
    BY <1>1, <1>2, <2>1, <2>2 DEF SentOK, AllReceived, Processing
  <2> QED
    BY <2>3, <2>4, <2>5 DEF SentOK
<1>4. ASSUME Collect \/ \E f \in Files : SkipFile(f) \/ OpenFile(f) PROVE SentOK'
  BY <1>4 DEF Collect, SkipFile, OpenFile, SentOK, OpenOK, Processing
<1>5. ASSUME ReadFile PROVE SentOK'
  <2>1. open \in Files /\ call = "none"
    BY <1>5 DEF ReadFile, OpenOK, Processing, TypeOK
  <2>2. ASSUME pc' = "send", NEW i \in Sendable(buffer'), i < index' PROVE FALSE
    <3>1. buffer' \in Contents \cup {Partial}
      BY <1>5, <2>1, PartialFacts DEF ReadFile, TypeOK, OpenOK, Processing
    <3> QED
      BY <1>5, <2>2, <3>1, SendableFacts DEF ReadFile
  <2>3. ASSUME pc' = "close", exported[open] # Absent, open \notin unread'
        PROVE  ~Batch(exported[open])
    BY <1>5, <2>1, <2>3 DEF ReadFile, FolderOK, OpenOK, Processing
  <2> QED
    BY <1>5, <2>1, <2>2, <2>3 DEF ReadFile, SentOK, folder
<1>6. ASSUME SkipInvalid PROVE SentOK'
  BY <1>6, SendableFacts DEF SkipInvalid, SentOK, TypeOK, Sendable, OpenOK, gateway
<1>7. ASSUME SendMessage PROVE SentOK'
  BY <1>7 DEF SendMessage, SentOK, gateway
<1>8. ASSUME Reply PROVE SentOK'
  BY <1>8, SendableFacts DEF Reply, SentOK, TypeOK, current, gateway
<1>9. ASSUME CallFails \/ Retry PROVE SentOK'
  BY <1>9 DEF CallFails, Abandoned, Retry, SentOK, OpenOK, gateway
<1>10. ASSUME EndOfBatch PROVE SentOK'
  <2>1. buffer = exported[open] /\ buffer \in Contents
    BY <1>10, SendingFacts DEF EndOfBatch
  <2>2. \A i \in Sendable(buffer) : i < index
    BY <1>10, SendableFacts DEF EndOfBatch, TypeOK, BufferOK
  <2> QED
    BY <1>10, <2>1, <2>2
    DEF EndOfBatch, SentOK, AllReceived, OpenOK, folder, gateway
<1>11. ASSUME CloseFile PROVE SentOK'
  BY <1>11 DEF CloseFile, SentOK, AllReceived, OpenOK, folder, gateway
<1>12. ASSUME DeleteFile \/ EndCycle \/ Crash PROVE SentOK'
  BY <1>12 DEF DeleteFile, EndCycle, Crash, SentOK, OpenOK
<1> QED
  BY <1>3, <1>4, <1>5, <1>6, <1>7, <1>8, <1>9, <1>10, <1>11, <1>12
  DEF Next, Collector

\* Where requests under way and disturbed files come from.
LEMMA LateComes ==
  ASSUME [Next]_vars
  PROVE  \/ late' \subseteq late /\ disturbed \subseteq disturbed'
         \/ CallFails
         \/ Crash
<1>1. ASSUME Environment \/ UNCHANGED vars PROVE late' = late /\ disturbed' = disturbed
  BY <1>1 DEF Environment, StartExport, FinishExport, AbandonExport, PlaceLock,
     RemoveLock, OtherOpen, OtherClose, vars
<1>2. ASSUME Gateway PROVE late' \subseteq late /\ disturbed' = disturbed
  BY <1>2 DEF Gateway, Accept, Refuse, ReceiveLate, LoseLate
<1>3. ASSUME Collector
      PROVE  (late' = late /\ disturbed \subseteq disturbed') \/ CallFails \/ Crash
  BY <1>3 DEF Collector, Login, Collect, SkipFile, OpenFile, ReadFile, SkipInvalid,
     SendMessage, Reply, Retry, EndOfBatch, CloseFile, DeleteFile, EndCycle
<1> QED
  BY <1>1, <1>2, <1>3 DEF Next

LEMMA LateStep ==
  ASSUME TypeOK, FolderOK, OpenOK, BufferOK, SentOK, LateOK, [Next]_vars
  PROVE  LateOK'
<1> DEFINE Good(m) == /\ exported[m[1]] # Absent
                      /\ m[2] \in Sendable(exported[m[1]])
                      /\ \A i \in Sendable(exported[m[1]]) :
                           i < m[2] => <<m[1], i>> \in received
<1>1. received \subseteq received'
  BY ReceivedGrows
<1>2. ASSUME NEW m, m[1] \in Files, Good(m) PROVE Good(m)'
  BY <1>1, <1>2, ExportedStays
<1>3. \A m \in late : m[1] \in Files /\ m[1] \in disturbed /\ Good(m)
  BY DEF TypeOK, LateOK
<1>4. call = "sent" => open \in Files /\ Good(current)
  <2>1. SUFFICES ASSUME call = "sent" PROVE open \in Files /\ Good(current)
    OBVIOUS
  <2>2. Sending /\ index \in Sendable(buffer)
    BY <2>1 DEF OpenOK, BufferOK, Sending
  <2> QED
    BY <2>2, SendingFacts DEF SentOK, current
<1>5. CASE CallFails \/ Crash
  <2>1. disturbed \subseteq disturbed'
    BY <1>5 DEF CallFails, Abandoned, Crash
  <2>2. late' \subseteq late \/ (call = "sent" /\ late' = late \cup {current})
    BY <1>5 DEF CallFails, Abandoned, Crash
  <2>3. call = "sent" => current[1] \in Files /\ current[1] \in disturbed'
    BY <1>4, <1>5, CollectAssumption DEF CallFails, Abandoned, Crash, current
  <2>4. \A m \in late' : m[1] \in Files /\ m[1] \in disturbed' /\ Good(m)
    BY <1>3, <1>4, <2>1, <2>2, <2>3
  <2>5. \A m \in late' : m[1] \in disturbed' /\ Good(m)'
    BY <1>2, <2>4
  <2> QED
    BY <2>5 DEF LateOK
<1>6. CASE late' \subseteq late /\ disturbed \subseteq disturbed'
  <2>1. \A m \in late' : m[1] \in disturbed' /\ Good(m)'
    BY <1>2, <1>3, <1>6
  <2> QED
    BY <2>1 DEF LateOK
<1> QED
  BY <1>5, <1>6, LateComes

\* The file of a completed export comes back by no step, and goes away only
\* by the deletion at the end of process().
LEMMA DiskStep ==
  ASSUME TypeOK, FolderOK, OpenOK, [Next]_vars,
         NEW f \in Files, exported'[f] # Absent
  PROVE  /\ disk[f] = Absent => disk'[f] = Absent
         /\ disk'[f] = Absent =>
              exported[f] # Absent /\ (disk[f] = Absent \/ (DeleteFile /\ open = f))
<1> USE DEF TypeOK, FolderOK
<1> Absent # Partial /\ Absent \notin Contents
  BY PartialFacts
<1> DEFINE P == /\ disk[f] = Absent => disk'[f] = Absent
                /\ disk'[f] = Absent =>
                     exported[f] # Absent /\ (disk[f] = Absent \/ (DeleteFile /\ open = f))
<1>1. ASSUME NEW g \in Files, StartExport(g) PROVE P
  BY <1>1 DEF StartExport
<1>2. ASSUME NEW g \in Files, NEW c \in Contents, FinishExport(g, c) PROVE P
  BY <1>2 DEF FinishExport
<1>3. ASSUME NEW g \in Files, AbandonExport(g) PROVE P
  BY <1>3 DEF AbandonExport
<1>4. ASSUME NEW g \in Files, PlaceLock(g) \/ RemoveLock(g) PROVE P
  BY <1>4 DEF PlaceLock, RemoveLock
<1>5. ASSUME UNCHANGED <<disk, exported>> PROVE P
  BY <1>5
<1>6. ASSUME NEW g \in Files, OtherOpen(g) \/ OtherClose(g) \/ SkipFile(g) \/ OpenFile(g)
      PROVE  UNCHANGED <<disk, exported>>
  BY <1>6 DEF OtherOpen, OtherClose, SkipFile, OpenFile, folder
<1>7. ASSUME \/ Login \/ Collect \/ ReadFile \/ SkipInvalid \/ SendMessage \/ Reply
             \/ CallFails \/ Retry \/ EndOfBatch \/ CloseFile \/ EndCycle \/ Crash
      PROVE  UNCHANGED <<disk, exported>>
  BY <1>7 DEF Login, Collect, ReadFile, SkipInvalid, SendMessage, Reply, CallFails,
     Retry, EndOfBatch, CloseFile, EndCycle, Crash, folder
<1>8. ASSUME DeleteFile PROVE P
  <2>1. open \in Files
    BY <1>8 DEF DeleteFile, OpenOK, Processing
  <2> QED
    BY <1>8, <2>1 DEF DeleteFile
<1>9. ASSUME Gateway \/ UNCHANGED vars PROVE UNCHANGED <<disk, exported>>
  BY <1>9 DEF Gateway, Accept, Refuse, ReceiveLate, LoseLate, folder, vars
<1> QED
  BY <1>1, <1>2, <1>3, <1>4, <1>5, <1>6, <1>7, <1>8, <1>9
  DEF Next, Environment, Collector

LEMMA OnceStep ==
  ASSUME TypeOK, FolderOK, OpenOK, BufferOK, SentOK, LateOK, OnceOK, OnlyExported,
         [Next]_vars
  PROVE  OnceOK'
<1> USE DEF Sending
<1>1. \A m \in received :
        /\ m[1] \in Files /\ m[2] \in Nat
        /\ disk'[m[1]] # Absent => disk[m[1]] # Absent
  BY DiskStep, ExportedStays DEF TypeOK, OnlyExported
<1>2. index \in Nat
  BY SendableFacts DEF TypeOK
<1>3. CASE Environment \/ Login \/ UNCHANGED vars
  <2>1. UNCHANGED <<pc, open, index>>
    BY <1>3, OtherSteps
  <2>2. UNCHANGED <<received, disturbed, call>>
    BY <1>3 DEF Environment, StartExport, FinishExport, AbandonExport, PlaceLock,
       RemoveLock, OtherOpen, OtherClose, Login, gateway, vars
  <2> QED
    BY <1>1, <2>1, <2>2 DEF OnceOK
<1>4. CASE Accept
  BY <1>1, <1>4 DEF Accept, Receive, current, OnceOK, OpenOK, folder, cycle
<1>5. CASE Refuse
  BY <1>5 DEF Refuse, OnceOK, folder, cycle, gateway
<1>6. ASSUME NEW m \in late, ReceiveLate(m) \/ LoseLate(m) PROVE OnceOK'
  BY <1>6 DEF ReceiveLate, LoseLate, Receive, OnceOK, LateOK, folder, cycle, gateway
<1>7. ASSUME pc \notin {"send", "wait", "sleep", "close", "delete"},
             UNCHANGED <<disk, received, disturbed>>
      PROVE  OnceOK'
  BY <1>7 DEF OnceOK
<1>8. ASSUME Collect \/ (\E f \in Files : SkipFile(f) \/ OpenFile(f)) \/ ReadFile \/ EndCycle
      PROVE  OnceOK'
  BY <1>7, <1>8 DEF Collect, SkipFile, OpenFile, ReadFile, EndCycle, folder, gateway
<1>9. ASSUME SkipInvalid \/ SendMessage PROVE OnceOK'
  BY <1>1, <1>2, <1>9 DEF SkipInvalid, SendMessage, OnceOK, OpenOK, folder, gateway
<1>10. ASSUME Reply PROVE OnceOK'
  BY <1>1, <1>2, <1>10 DEF Reply, OnceOK, folder, gateway
<1>11. ASSUME CallFails PROVE OnceOK'
  BY <1>11 DEF CallFails, Abandoned, OnceOK, OpenOK, TypeOK, folder, gateway
<1>12. ASSUME Retry \/ EndOfBatch \/ CloseFile PROVE OnceOK'
  BY <1>12 DEF Retry, EndOfBatch, CloseFile, OnceOK, folder, gateway
<1>13. ASSUME DeleteFile PROVE OnceOK'
  <2>1. open \in Files
    BY <1>13 DEF DeleteFile, OpenOK, Processing, TypeOK
  <2> QED
    BY <1>1, <1>13, <2>1 DEF DeleteFile, OnceOK, TypeOK, gateway
<1>14. ASSUME Crash PROVE OnceOK'
  BY <1>1, <1>14, CollectAssumption DEF Crash, OnceOK, folder, gateway
<1> QED
  BY <1>3, <1>4, <1>5, <1>6, <1>8, <1>9, <1>10, <1>11, <1>12, <1>13, <1>14
  DEF Next, Collector, Gateway

\* The four safety properties, from the invariants above.
LEMMA SafetyStep ==
  ASSUME IInv, [Next]_vars
  PROVE  NoLoss' /\ InOrder' /\ OnlyExported' /\ RepeatsExplained'
<1> USE DEF IInv
<1>1. received \subseteq received'
  BY ReceivedGrows
<1>2. unread \subseteq unread'
  BY UnreadStep DEF ReadFile
<1>3. NoLoss'
  <2>1. SUFFICES ASSUME NEW f \in Files, exported'[f] # Absent, disk'[f] = Absent,
                        f \notin unread', Batch(exported'[f])
                 PROVE  AllReceived(f)'
    BY DEF NoLoss
  <2>2. exported[f] # Absent /\ (disk[f] = Absent \/ (DeleteFile /\ open = f))
    BY <2>1, DiskStep
  <2>3. exported'[f] = exported[f]
    BY <2>2, ExportedStays
  <2>4. AllReceived(f)
    BY <1>2, <2>1, <2>2, <2>3 DEF NoLoss, SentOK, DeleteFile
  <2> QED
    BY <1>1, <2>3, <2>4 DEF AllReceived
<1>4. \A m \in received : m[1] \in Files /\ exported'[m[1]] = exported[m[1]]
  <2>1. \A m \in received : m[1] \in Files /\ exported[m[1]] # Absent
    BY DEF TypeOK, OnlyExported
  <2> QED
    BY <2>1, ExportedStays
<1>5. ASSUME received' = received PROVE InOrder' /\ OnlyExported'
  BY <1>4, <1>5 DEF InOrder, OnlyExported
<1>6. ASSUME NEW f \in Files, NEW i \in Sendable(exported[f]), exported[f] # Absent,
             \A j \in Sendable(exported[f]) : j < i => <<f, j>> \in received,
             received' = received \cup {<<f, i>>}
      PROVE  InOrder' /\ OnlyExported'
  <2>1. exported'[f] = exported[f]
    BY <1>6, ExportedStays
  <2> QED
    BY <1>4, <1>6, <2>1 DEF InOrder, OnlyExported
<1>7. InOrder' /\ OnlyExported'
  BY <1>5, <1>6, ReceivedGrows
<1>8. disturbed \subseteq disturbed'
  BY LateComes DEF CallFails, Abandoned, Crash
<1>9. RepeatsExplained'
  <2>1. CASE repeated' = repeated
    BY <1>8, <2>1 DEF RepeatsExplained
  <2>2. CASE Accept
    <3>1. open \in Files /\ disk[open] # Absent /\ index \in Nat
      BY <2>2, SendableFacts DEF Accept, OpenOK, Processing, TypeOK
    <3>2. current \in received => open \in disturbed
      BY <2>2, <3>1 DEF Accept, OnceOK, current, OpenOK, Sending
    <3> QED
      BY <1>8, <2>2, <3>2 DEF Accept, Receive, RepeatsExplained, current
  <2>3. ASSUME NEW m \in late, ReceiveLate(m) PROVE RepeatsExplained'
    BY <1>8, <2>3 DEF ReceiveLate, Receive, LateOK, RepeatsExplained
  <2> QED
    BY <2>1, <2>2, <2>3, ReceivedStep
<1> QED
  BY <1>3, <1>7, <1>9

-----------------------------------------------------------------------------
(* The theorems.                                                           *)

\* The inductive invariant holds in every reachable state: the buffer is the
\* file, and what was received is what transfer() has behind it.
THEOREM Invariance == Spec => []IInv
<1>1. Init => IInv
  <2>1. Partial.msgs = << >>
    BY DEF Partial
  <2>2. ASSUME Init PROVE TypeOK
    <3>1. index \in 0 .. Len(buffer.msgs) + 1
      BY <2>1, <2>2 DEF Init
    <3>2. /\ disk \in [Files -> Contents \cup {Partial, Absent}]
          /\ writer \in [Files -> {"none", "writing", "done"}]
          /\ exported \in [Files -> Contents \cup {Absent}]
      BY <2>2 DEF Init
    <3> QED
      BY <2>2, <3>1, <3>2 DEF Init, TypeOK
  <2>3. ASSUME Init PROVE FolderOK /\ OpenOK /\ BufferOK /\ SentOK /\ LateOK /\ OnceOK
    BY <2>3 DEF Init, FolderOK, OpenOK, BufferOK, SentOK, LateOK, OnceOK,
       Processing, Sending
  <2>4. ASSUME Init PROVE NoLoss /\ InOrder /\ OnlyExported /\ RepeatsExplained
    BY <2>4 DEF Init, NoLoss, InOrder, OnlyExported, RepeatsExplained
  <2> QED
    BY <2>2, <2>3, <2>4 DEF IInv
<1>2. IInv /\ [Next]_vars => IInv'
  <2>1. SUFFICES ASSUME IInv, [Next]_vars PROVE IInv'
    OBVIOUS
  <2>2. TypeOK' /\ FolderOK' /\ OpenOK' /\ BufferOK'
    BY <2>1, TypeStep, FolderStep, OpenStep, BufferStep DEF IInv
  <2>3. SentOK' /\ LateOK' /\ OnceOK'
    BY <2>1, SentStep, LateStep, OnceStep DEF IInv
  <2>4. NoLoss' /\ InOrder' /\ OnlyExported' /\ RepeatsExplained'
    BY <2>1, SafetyStep
  <2> QED
    BY <2>2, <2>3, <2>4 DEF IInv
<1> QED
  BY <1>1, <1>2, PTL DEF Spec

\* Every variable keeps to its type; in particular index never passes the
\* position after the last message of the buffer.
THEOREM TypeCorrect == Spec => []TypeOK
<1>1. IInv => TypeOK
  BY DEF IInv
<1> QED
  BY <1>1, Invariance, PTL

\* process() deletes a completely exported batch only when the gateway has
\* received every message of it that validate() passes.
THEOREM NothingLost == Spec => []NoLoss
<1>1. IInv => NoLoss
  BY DEF IInv
<1> QED
  BY <1>1, Invariance, PTL

\* Retries, late requests and restarts never bring a message of a file to the
\* gateway before the ones that precede it in the file.
THEOREM OrderKept == Spec => []InOrder
<1>1. IInv => InOrder
  BY DEF IInv
<1> QED
  BY <1>1, Invariance, PTL

\* The gateway receives valid messages of completed exports and nothing else.
THEOREM NothingElse == Spec => []OnlyExported
<1>1. IInv => OnlyExported
  BY DEF IInv
<1> QED
  BY <1>1, Invariance, PTL

\* Without a failed call, a crash or a failed deletion, collect() delivers
\* each message exactly once.
THEOREM OnceUnlessDisturbed == Spec => []RepeatsExplained
<1>1. IInv => RepeatsExplained
  BY DEF IInv
<1> QED
  BY <1>1, Invariance, PTL

\* A lock file in the folder keeps parse from returning what it locks.
LEMMA ParseLocks ==
  ASSUME NEW names, NEW l \in names, IsLock(l), NEW n \in parse(names)
  PROVE  /\ Len(l.dashes) # 1
         /\ Len(l.dashes) = 2 => ToLower(n.scores[1]) # ToLower(l.dashes[2])
BY Zenon DEF parse, LocksAll, LocksType, ExportType

\* A cycle starts only in Collect.
LEMMA OnlyCollect ==
  ASSUME [Next]_vars, pc = "idle", pc' # "idle"
  PROVE  Collect
<1>1. CASE UNCHANGED vars
  BY <1>1 DEF vars
<1>2. CASE Environment \/ Gateway
  BY <1>2, Zenon DEF Environment, Gateway, StartExport, FinishExport, AbandonExport, PlaceLock,
     RemoveLock, OtherOpen, OtherClose, Accept, Refuse, ReceiveLate, LoseLate, cycle
<1>3. CASE Collector
  BY <1>3 DEF Collector, Login, SkipFile, OpenFile, ReadFile, SkipInvalid, SendMessage,
     Reply, CallFails, Retry, EndOfBatch, CloseFile, DeleteFile, EndCycle, Crash
<1> QED
  BY <1>1, <1>2, <1>3 DEF Next

\* No cycle starts on a file whose type is locked, whatever names the folder has.
THEOREM LocksAreRespected == Spec => LocksRespected
<1>1. ASSUME [Next]_vars, pc = "idle", pc' # "idle",
             NEW l \in LockFiles, disk[l] # Absent
      PROVE  /\ Len(Name[l].dashes) # 1
             /\ Len(Name[l].dashes) = 2 =>
                  \A f \in todo' :
                    ToLower(Name[f].scores[1]) # ToLower(Name[l].dashes[2])
  <2> DEFINE names == {Name[f] : f \in {g \in Files : disk[g] # Absent}}
  <2>1. Collect
    BY <1>1, OnlyCollect
  <2>2. todo' = {f \in Files : Name[f] \in parse(names)} /\ todo' # {}
    BY <2>1, <1>1 DEF Collect
  <2>3. Name[l] \in names /\ IsLock(Name[l])
    BY <1>1 DEF LockFiles
  <2>4. \A f \in todo' : Name[f] \in parse(names)
    BY <2>2
  <2> HIDE DEF names
  <2>5. ASSUME NEW f \in todo'
        PROVE  /\ Len(Name[l].dashes) # 1
               /\ Len(Name[l].dashes) = 2 =>
                    ToLower(Name[f].scores[1]) # ToLower(Name[l].dashes[2])
    BY <2>3, <2>4, <2>5, ParseLocks
  <2> QED
    BY <2>2, <2>5, Zenon
<1>2. [Next]_vars => StartsUnlocked
  BY <1>1, Zenon DEF StartsUnlocked
<1> QED
  BY <1>2, PTL DEF Spec, LocksRespected

-----------------------------------------------------------------------------
(* Collect implements Delivery: a step of Collect publishes a file,        *)
(* receives a message, gives up on reading a file, retires one, or changes *)
(* nothing Delivery can see.                                               *)

retired == {f \in Files : exported[f] # Absent /\ disk[f] = Absent}

\* Deleting a file is seen by Delivery only if it was completely exported; a
\* file appears in `retired' in no other way.
LEMMA RetiredStep ==
  ASSUME TypeOK, FolderOK, OpenOK, [Next]_vars
  PROVE  \/ retired' = retired
         \/ /\ DeleteFile /\ open \in Files /\ exported[open] # Absent
            /\ retired' = retired \cup {open}
<1>1. \A f \in retired : f \in retired'
  BY DiskStep, ExportedStays DEF retired
<1>2. \A f \in retired' : f \in retired \/ (DeleteFile /\ open = f /\ exported[f] # Absent)
  BY DiskStep DEF retired
<1> QED
  BY <1>1, <1>2 DEF retired

LEMMA RefinementStep ==
  ASSUME IInv, [Next]_vars
  PROVE  [D!Next]_(D!dvars)
<1> USE DEF IInv
<1> DEFINE Same == UNCHANGED <<exported, retired, unread, received>>
<1>1. Same => UNCHANGED D!dvars
  BY DEF D!dvars, retired
<1>2. retired' = retired \/ DeleteFile
  BY RetiredStep
<1>3. ASSUME NEW f \in Files, NEW c \in Contents, FinishExport(f, c)
      PROVE  D!Next
  <2>1. exported[f] = Absent
    BY <1>3 DEF FinishExport, FolderOK
  <2>2. retired' = retired
    BY <1>2, <1>3 DEF FinishExport, DeleteFile, cycle, OpenOK, Processing, TypeOK
  <2>3. D!Publish(f, c)
    BY <1>3, <2>1, <2>2 DEF FinishExport, D!Publish, retired, gateway
  <2> QED
    BY <2>3 DEF D!Next
<1>4. ASSUME ReadFile PROVE D!Next \/ Same
  <2>1. retired' = retired /\ exported' = exported /\ received' = received
    BY <1>4, <1>2 DEF ReadFile, DeleteFile, folder, gateway
  <2>2. CASE unread' = unread
    BY <2>1, <2>2
  <2>3. CASE unread' = unread \cup {open}
    <3>1. \A f \in Files : f = open => D!Misread(f)
      BY <2>1, <2>3 DEF D!Misread, retired
    <3> QED
      BY <1>4, <3>1 DEF D!Next, ReadFile, OpenOK, Processing, TypeOK
  <2> QED
    BY <1>4, <2>2, <2>3 DEF ReadFile
<1>5. ASSUME DeleteFile PROVE D!Next \/ Same
  <2>1. UNCHANGED <<exported, unread, received>>
    BY <1>5 DEF DeleteFile, gateway
  <2>2. CASE retired' = retired
    BY <2>1, <2>2
  <2>3. CASE open \in Files /\ exported[open] # Absent /\ retired' = retired \cup {open}
    <3>1. D!Settled(open)
      BY <1>5, <2>3 DEF D!Settled, D!AllReceived, SentOK, AllReceived, DeleteFile
    <3>2. \A f \in Files : f = open => D!Retire(f)
      BY <2>1, <2>3, <3>1 DEF D!Retire, retired
    <3> QED
      BY <2>3, <3>2 DEF D!Next
  <2> QED
    BY <2>2, <2>3, RetiredStep
<1>6. ASSUME Accept \/ \E m \in late : ReceiveLate(m) PROVE D!Next \/ Same
  <2>1. exported' = exported /\ disk' = disk /\ unread' = unread
    BY <1>6 DEF Accept, ReceiveLate, folder
  <2>2. retired' = retired
    BY <2>1 DEF retired
  <2>3. CASE received' = received
    BY <2>1, <2>2, <2>3
  <2>4. ASSUME NEW f \in Files, NEW i \in Sendable(exported[f]), exported[f] # Absent,
               \A j \in Sendable(exported[f]) : j < i => <<f, j>> \in received,
               received' = received \cup {<<f, i>>}
        PROVE  D!Next
    <3>1. D!Receive(f, i)
      BY <2>1, <2>2, <2>4 DEF D!Receive, retired
    <3> QED
      BY <2>4, <3>1 DEF D!Next
  <2> QED
    BY <2>3, <2>4, ReceivedGrows
<1>7. ASSUME NEW f \in Files,
             \/ StartExport(f) \/ AbandonExport(f) \/ PlaceLock(f) \/ RemoveLock(f)
             \/ OtherOpen(f) \/ OtherClose(f)
      PROVE  Same
  <2>1. UNCHANGED <<exported, unread, received, pc>>
    BY <1>7 DEF StartExport, AbandonExport, PlaceLock, RemoveLock, OtherOpen,
       OtherClose, cycle, gateway
  <2> QED
    BY <1>2, <2>1 DEF DeleteFile
<1>8. ASSUME \/ Login \/ Collect \/ (\E f \in Files : SkipFile(f) \/ OpenFile(f))
             \/ SkipInvalid \/ SendMessage \/ Reply \/ CallFails \/ Retry
             \/ EndOfBatch \/ CloseFile \/ EndCycle \/ Crash
      PROVE  Same
  BY <1>8 DEF Login, Collect, SkipFile, OpenFile, SkipInvalid, SendMessage, Reply,
     CallFails, Retry, EndOfBatch, CloseFile, EndCycle, Crash, retired, folder, gateway
<1>9. ASSUME Refuse \/ (\E m \in late : LoseLate(m)) \/ UNCHANGED vars PROVE Same
  BY <1>9 DEF Refuse, LoseLate, retired, folder, gateway, vars
<1> HIDE DEF Same
<1> QED
  BY <1>1, <1>3, <1>4, <1>5, <1>6, <1>7, <1>8, <1>9
  DEF Next, Environment, Collector, Gateway

\* Whatever the folder and its contents, the collect job keeps the promise of
\* module Delivery, under every crash, lost answer and late request.
THEOREM Implementation == Spec => DeliverySpec
<1>1. Init => D!Init
  BY PartialFacts DEF Init, D!Init
<1>2. IInv /\ [Next]_vars => [D!Next]_(D!dvars)
  BY RefinementStep
<1> QED
  BY <1>1, <1>2, Invariance, PTL DEF Spec, DeliverySpec, D!Spec

-----------------------------------------------------------------------------
(* What DeliveryProofs shows of Delivery holds of the collector.           *)

DP == INSTANCE DeliveryProofs WITH
        published <- exported,
        retired <- {f \in Files : exported[f] # Absent /\ disk[f] = Absent}

\* So an exporter can rely on the collector: no message is lost, reordered or
\* made up, and nothing is taken back.
THEOREM ExporterPromise == Spec => []D!Promise /\ D!NothingTakenBack
<1>1. DP!Spec => []DP!Promise
  BY DP!PromiseKept, PTL
<1>2. DP!Spec => DP!NothingTakenBack
  BY DP!PromiseLasts, PTL
<1>3. D!Init => DP!Init
  BY Zenon DEF D!Init, DP!Init
<1>4. [D!Next]_(D!dvars) => [DP!Next]_(DP!dvars)
  BY Zenon DEF D!Next, D!Publish, D!Receive, D!Misread, D!Retire, D!Settled,
    D!AllReceived, D!dvars,
    DP!Next, DP!Publish, DP!Receive, DP!Misread, DP!Retire, DP!Settled,
    DP!AllReceived, DP!dvars
<1>5. DP!Promise => D!Promise
  BY Zenon DEF D!Promise, D!RetiredSettled, D!ReceivedInOrder, D!ReceivedPublished,
    D!Settled, D!AllReceived,
    DP!Promise, DP!RetiredSettled, DP!ReceivedInOrder, DP!ReceivedPublished,
    DP!Settled, DP!AllReceived
<1>6. [DP!Final]_(DP!dvars) => [D!Final]_(D!dvars)
  BY Zenon DEF D!Final, D!dvars, DP!Final, DP!dvars
<1> QED
  BY <1>1, <1>2, <1>3, <1>4, <1>5, <1>6, Implementation, PTL
  DEF DeliverySpec, D!Spec, DP!Spec, D!NothingTakenBack, DP!NothingTakenBack

=============================================================================
