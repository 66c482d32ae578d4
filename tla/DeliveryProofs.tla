---------------------------- MODULE DeliveryProofs ----------------------------
(***************************************************************************)
(* What Delivery promises, for any files and contents: the reasons for     *)
(* which the collector is shown to implement it.                           *)
(***************************************************************************)
EXTENDS Delivery, TLAPS

IInv ==
  /\ published \in [Files -> Contents \cup {Absent}]
  /\ retired \subseteq Files
  /\ \A m \in received : m = <<m[1], m[2]>> /\ m[1] \in Files
  /\ Promise

\* A step that only adds, and publishes no file twice, keeps what was settled.
LEMMA SettledStays ==
  ASSUME Final, NEW f \in Files, published[f] # Absent, Settled(f)
  PROVE  Settled(f)'
BY DEF Final, Settled, AllReceived

LEMMA NextFinal == ASSUME IInv, [Next]_dvars PROVE Final
BY DEF IInv, Next, Publish, Receive, Misread, Retire, Final, dvars

LEMMA PublishStep ==
  ASSUME IInv, NEW f \in Files, NEW c \in Contents, Publish(f, c)
  PROVE  ReceivedInOrder' /\ ReceivedPublished'
<1>1. \A m \in received : m[1] # f /\ published'[m[1]] = published[m[1]]
  BY DEF IInv, Promise, ReceivedPublished, Publish
<1>2. received' = received
  BY DEF Publish
<1>3. \A m \in received : Sendable(published'[m[1]]) = Sendable(published[m[1]])
  BY Zenon, <1>1
<1>4. ReceivedInOrder'
  BY <1>2, <1>3 DEF IInv, Promise, ReceivedInOrder
<1>5. ReceivedPublished'
  BY <1>1, <1>2, <1>3 DEF IInv, Promise, ReceivedPublished
<1> QED
  BY <1>4, <1>5

LEMMA ReceiveStep ==
  ASSUME IInv, NEW f \in Files, NEW i, Receive(f, i)
  PROVE  ReceivedInOrder' /\ ReceivedPublished'
<1>1. ASSUME NEW m \in received' PROVE m \in received \/ (m[1] = f /\ m[2] = i)
  BY <1>1 DEF Receive
<1>2. ReceivedInOrder'
  BY <1>1 DEF IInv, Promise, ReceivedInOrder, Receive
<1>3. ReceivedPublished'
  BY <1>1 DEF IInv, Promise, ReceivedPublished, Receive
<1> QED
  BY <1>2, <1>3

LEMMA PromiseStep ==
  ASSUME IInv, [Next]_dvars
  PROVE  IInv'
<1>1. Final
  BY NextFinal
<1>2. /\ published' \in [Files -> Contents \cup {Absent}]
      /\ retired' \subseteq Files
      /\ \A m \in received' : m = <<m[1], m[2]>> /\ m[1] \in Files
  BY DEF IInv, Next, Publish, Receive, Misread, Retire, dvars
<1>3. RetiredSettled'
  <2>1. ASSUME NEW f \in retired', f \notin retired PROVE published[f] # Absent /\ Settled(f)
    BY <2>1 DEF Next, Publish, Receive, Misread, Retire, dvars
  <2>2. \A f \in retired' : f \in Files /\ published[f] # Absent /\ Settled(f)
    BY <1>2, <2>1 DEF IInv, Promise, RetiredSettled
  <2>3. \A f \in retired' : published'[f] # Absent /\ Settled(f)'
    BY <1>1, <2>2, SettledStays DEF Final
  <2> QED
    BY <2>3 DEF RetiredSettled
<1>4. ReceivedInOrder' /\ ReceivedPublished'
  <2>1. CASE UNCHANGED <<published, received>>
    BY <2>1 DEF IInv, Promise, ReceivedInOrder, ReceivedPublished
  <2> QED
    BY <2>1, PublishStep, ReceiveStep DEF Next, Misread, Retire, dvars
<1> QED
  BY <1>2, <1>3, <1>4 DEF IInv, Promise

LEMMA PromiseInit == Init => IInv
BY DEF Init, IInv, Promise, RetiredSettled, ReceivedInOrder, ReceivedPublished

\* What Delivery says step by step comes to what an exporter wants: no message
\* is lost, reordered or made up (Delivery.Promise).
THEOREM PromiseKept == Spec => []Promise
<1>1. IInv => Promise
  BY DEF IInv
<1> QED
  BY <1>1, PromiseInit, PromiseStep, PTL DEF Spec

\* What was published, removed or received stays so (Delivery.NothingTakenBack).
THEOREM PromiseLasts == Spec => NothingTakenBack
<1>1. IInv /\ [Next]_dvars => [Final]_dvars
  BY NextFinal
<1> QED
  BY <1>1, PromiseInit, PromiseStep, PTL DEF Spec, NothingTakenBack

===============================================================================
