------------------------------- MODULE Delivery -------------------------------
(***************************************************************************)
(* What the collector promises the exporters, without saying how: a file   *)
(* that was exported stays until the gateway has received every message of *)
(* it that can be sent, the messages of a file reach the gateway in the    *)
(* order they have in the file, and nothing else reaches it.  Reception is *)
(* at least once: a received message may be received again, even after its *)
(* file is gone.                                                           *)
(*                                                                         *)
(* A file is excused when its content is not a batch of messages           *)
(* (see Batch) or when reading it failed; the code then drops it whole.    *)
(***************************************************************************)
EXTENDS Naturals

CONSTANTS
  Files,       \* names of export files
  Contents,    \* what a file may contain
  Absent,      \* the content of a file that is not there
  Batch(_),    \* Batch(c): content c decodes to a batch of messages
  Sendable(_)  \* Sendable(c): the positions of the messages of c to be sent

VARIABLES
  published,   \* the content each file was exported with, or Absent
  retired,     \* the files that were removed
  unread,      \* the files the operating system failed to read
  received     \* the messages <<file, position>> the gateway has received

dvars == <<published, retired, unread, received>>

AllReceived(f) == \A i \in Sendable(published[f]) : <<f, i>> \in received

Settled(f) == Batch(published[f]) /\ f \notin unread => AllReceived(f)

Init ==
  /\ published = [f \in Files |-> Absent]
  /\ retired = {}
  /\ unread = {}
  /\ received = {}

\* an exporter finishes writing file f
Publish(f, c) ==
  /\ published[f] = Absent
  /\ published' = [published EXCEPT ![f] = c]
  /\ UNCHANGED <<retired, unread, received>>

\* the gateway receives message i of file f, for the first time or again
Receive(f, i) ==
  /\ published[f] # Absent
  /\ i \in Sendable(published[f])
  /\ \A j \in Sendable(published[f]) : j < i => <<f, j>> \in received
  /\ received' = received \cup {<<f, i>>}
  /\ UNCHANGED <<published, retired, unread>>

\* the collector gives up on reading f
Misread(f) ==
  /\ unread' = unread \cup {f}
  /\ UNCHANGED <<published, retired, received>>

Retire(f) ==
  /\ published[f] # Absent
  /\ Settled(f)
  /\ retired' = retired \cup {f}
  /\ UNCHANGED <<published, unread, received>>

Next ==
  \E f \in Files :
    \/ \E c \in Contents : Publish(f, c)
    \/ published[f] # Absent /\ \E i \in Sendable(published[f]) : Receive(f, i)
    \/ Misread(f)
    \/ Retire(f)

Spec == Init /\ [][Next]_dvars

-----------------------------------------------------------------------------
\* What an exporter can rely on: its file is removed only when it is settled; a
\* message is received only from a file that is published, and after those
\* before it in the file.
RetiredSettled == \A f \in retired : published[f] # Absent /\ Settled(f)

ReceivedInOrder ==
  \A m \in received : \A i \in Sendable(published[m[1]]) :
    i < m[2] => <<m[1], i>> \in received

ReceivedPublished ==
  \A m \in received : published[m[1]] # Absent /\ m[2] \in Sendable(published[m[1]])

Promise == RetiredSettled /\ ReceivedInOrder /\ ReceivedPublished

\* And it can rely on it for good: nothing is taken back.
Final ==
  /\ \A f \in Files : published[f] # Absent => published'[f] = published[f]
  /\ retired \subseteq retired'
  /\ unread \subseteq unread'
  /\ received \subseteq received'

NothingTakenBack == [][Final]_dvars

===============================================================================
