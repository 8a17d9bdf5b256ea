----------------------- MODULE ConductorPromiseProofs -----------------------
(***************************************************************************)
(* The order of messages: the queues in memory are the queue on disk       *)
(* (QueueMatchesDisk), and the conductor implements DurableSend            *)
(* (KeepsPromise).                                                         *)
(*                                                                         *)
(* Neither holds of every chat.  A provider that confirms messages by echo *)
(* can die with messages on its pipe, and if another wake is handled before*)
(* its exit event, the next provider is given newer messages first; a      *)
(* compaction then puts its replay in front of them on disk but not in     *)
(* memory.  Each theorem states the circumstances under which that cannot  *)
(* be.                                                                     *)
(***************************************************************************)
EXTENDS ConductorProofs

USE DEF disk, settings, control, queues, unanswered, turnVars, runVars, native,
        history, bounds

\* No provider of this chat confirms messages by echoing them.
NoEcho == \A p \in Providers : Delivery[p] # "echoed"

\* No provider runs out of context.
NoContext == "context" \notin ErrorKinds \cup RefusalKinds

-----------------------------------------------------------------------------
(* Queues. *)

\* A message put at the end of the second of two queues.
LEMMA AppendToSecond ==
    ASSUME NEW a \in Seq(Message), NEW b \in Seq(Message), NEW m \in Message
    PROVE  Append(a \o b, m) = a \o Append(b, m)
  <1>1. /\ a \o b \in Seq(Message) /\ Append(b, m) \in Seq(Message)
        /\ Len(a) \in Nat /\ Len(b) \in Nat
        /\ Len(a \o b) = Len(a) + Len(b) /\ Len(Append(b, m)) = Len(b) + 1
    BY ConcatProperties, AppendProperties
  <1>2. /\ Append(a \o b, m) \in Seq(Message) /\ a \o Append(b, m) \in Seq(Message)
        /\ Len(Append(a \o b, m)) = Len(a) + Len(b) + 1
        /\ Len(a \o Append(b, m)) = Len(a) + Len(b) + 1
    BY <1>1, ConcatProperties, AppendProperties
  <1>3. ASSUME NEW i \in 1 .. Len(a) + Len(b) + 1
        PROVE  Append(a \o b, m)[i] = (a \o Append(b, m))[i]
    <2>1. (a \o Append(b, m))[i] = IF i <= Len(a) THEN a[i] ELSE Append(b, m)[i - Len(a)]
      <3> DEFINE c == Append(b, m)
      <3>1. c \in Seq(Message) /\ Len(c) = Len(b) + 1
        BY <1>1
      <3> HIDE DEF c
      <3>2. \A j \in 1 .. Len(a) + Len(c) :
                (a \o c)[j] = IF j <= Len(a) THEN a[j] ELSE c[j - Len(a)]
        BY <3>1, ConcatProperties
      <3>3. (a \o c)[i] = IF i <= Len(a) THEN a[i] ELSE c[i - Len(a)]
        BY <1>1, <3>1, <3>2
      <3> QED BY <3>3 DEF c
    <2>2. CASE i = Len(a) + Len(b) + 1
      BY <1>1, <2>1, <2>2, AppendProperties
    <2>3. CASE i # Len(a) + Len(b) + 1
      <3>1. i \in 1 .. Len(a) + Len(b)
        BY <1>1, <2>3
      <3>2. Append(a \o b, m)[i] = (a \o b)[i]
        BY <1>1, <3>1, AppendProperties
      <3>3. (a \o b)[i] = IF i <= Len(a) THEN a[i] ELSE b[i - Len(a)]
        BY <3>1, ConcatProperties
      <3>4. ~(i <= Len(a)) => Append(b, m)[i - Len(a)] = b[i - Len(a)]
        BY <1>1, <3>1, AppendProperties
      <3> QED BY <2>1, <3>2, <3>3, <3>4
    <2> QED BY <2>2, <2>3
  <1> QED BY <1>2, <1>3, SeqEqual

\* A queue is its oldest message and the rest.
LEMMA HeadThenTail ==
    ASSUME NEW b \in Seq(Message), b # << >>
    PROVE  /\ <<Head(b)>> \in Seq(Message) /\ Tail(b) \in Seq(Message)
           /\ <<Head(b)>> \o Tail(b) = b
  <1> DEFINE h == <<Head(b)>>
  <1>1. /\ Len(b) \in Nat \ {0} /\ Head(b) \in Message /\ Head(b) = b[1]
        /\ Tail(b) \in Seq(Message) /\ Len(Tail(b)) = Len(b) - 1
        /\ \A i \in 1 .. Len(b) - 1 : Tail(b)[i] = b[i + 1]
    BY HeadTailProperties, EmptySeq
  <1>2. h \in Seq(Message) /\ Len(h) = 1 /\ h[1] = b[1]
    BY <1>1
  <1> HIDE DEF h
  <1>3. /\ h \o Tail(b) \in Seq(Message) /\ Len(h \o Tail(b)) = Len(b)
        /\ \A i \in 1 .. Len(b) :
              (h \o Tail(b))[i] = IF i <= 1 THEN h[i] ELSE Tail(b)[i - 1]
    <2>1. /\ h \o Tail(b) \in Seq(Message) /\ Len(h \o Tail(b)) = Len(h) + Len(Tail(b))
          /\ \A i \in 1 .. Len(h) + Len(Tail(b)) :
                (h \o Tail(b))[i] = IF i <= Len(h) THEN h[i] ELSE Tail(b)[i - Len(h)]
      BY <1>1, <1>2, ConcatProperties
    <2> QED BY <1>1, <1>2, <2>1
  <1>4. \A i \in 1 .. Len(b) : (h \o Tail(b))[i] = b[i]
    BY <1>1, <1>2, <1>3
  <1>5. h \o Tail(b) = b
    BY <1>3, <1>4, SeqEqual
  <1> QED BY <1>1, <1>2, <1>5 DEF h

\* The oldest message of the second queue moved to the end of the first.
LEMMA MoveAcross ==
    ASSUME NEW a \in Seq(Message), NEW b \in Seq(Message), b # << >>
    PROVE  Append(a, Head(b)) \o Tail(b) = a \o b
  <1>1. <<Head(b)>> \in Seq(Message) /\ Tail(b) \in Seq(Message) /\ Head(b) \in Message
    BY HeadThenTail, HeadTailProperties
  <1>2. Append(a, Head(b)) = a \o <<Head(b)>>
    BY <1>1, AppendIsConcat
  <1>3. (a \o <<Head(b)>>) \o Tail(b) = a \o (<<Head(b)>> \o Tail(b))
    BY <1>1, ConcatAssociative
  <1> QED BY <1>2, <1>3, HeadThenTail

\* The oldest message of two queues is the oldest of the first.
LEMMA HeadOfConcat ==
    ASSUME NEW a \in Seq(Message), NEW b \in Seq(Message), a # << >>
    PROVE  a \o b # << >> /\ Head(a \o b) = Head(a) /\ Tail(a \o b) = Tail(a) \o b
  <1> DEFINE s == a \o b
  <1>1. /\ Len(a) \in Nat \ {0} /\ Len(b) \in Nat /\ Head(a) = a[1]
        /\ Tail(a) \in Seq(Message) /\ Len(Tail(a)) = Len(a) - 1
        /\ \A i \in 1 .. Len(a) - 1 : Tail(a)[i] = a[i + 1]
    BY HeadTailProperties, EmptySeq
  <1>2. /\ s \in Seq(Message) /\ Len(s) = Len(a) + Len(b)
        /\ \A i \in 1 .. Len(a) + Len(b) :
              s[i] = IF i <= Len(a) THEN a[i] ELSE b[i - Len(a)]
    BY ConcatProperties
  <1> HIDE DEF s
  <1>3. s # << >>
    BY <1>1, <1>2, EmptySeq
  <1>4. Head(s) = Head(a)
    BY <1>1, <1>2, <1>3
  <1>5. /\ Tail(s) \in Seq(Message) /\ Len(Tail(s)) = Len(a) + Len(b) - 1
        /\ \A i \in 1 .. Len(a) + Len(b) - 1 : Tail(s)[i] = s[i + 1]
    BY <1>1, <1>2, <1>3, HeadTailProperties
  <1>6. /\ Tail(a) \o b \in Seq(Message) /\ Len(Tail(a) \o b) = Len(a) + Len(b) - 1
        /\ \A i \in 1 .. Len(a) + Len(b) - 1 :
              (Tail(a) \o b)[i] = IF i <= Len(a) - 1 THEN Tail(a)[i]
                                  ELSE b[i - (Len(a) - 1)]
    <2>1. /\ Tail(a) \o b \in Seq(Message) /\ Len(Tail(a) \o b) = Len(Tail(a)) + Len(b)
          /\ \A i \in 1 .. Len(Tail(a)) + Len(b) :
                (Tail(a) \o b)[i] = IF i <= Len(Tail(a)) THEN Tail(a)[i]
                                    ELSE b[i - Len(Tail(a))]
      BY <1>1, ConcatProperties
    <2> QED BY <1>1, <2>1
  <1>7. ASSUME NEW i \in 1 .. Len(a) + Len(b) - 1 PROVE Tail(s)[i] = (Tail(a) \o b)[i]
    <2>1. CASE i <= Len(a) - 1
      BY <1>1, <1>2, <1>5, <1>6, <2>1
    <2>2. CASE ~(i <= Len(a) - 1)
      <3>1. Tail(s)[i] = b[i + 1 - Len(a)]
        BY <1>1, <1>2, <1>5, <2>2
      <3>2. (Tail(a) \o b)[i] = b[i - (Len(a) - 1)]
        BY <1>6, <2>2
      <3>3. i + 1 - Len(a) = i - (Len(a) - 1)
        BY <1>1
      <3> QED BY <3>1, <3>2, <3>3
    <2> QED BY <2>1, <2>2
  <1>8. Tail(s) = Tail(a) \o b
    BY <1>5, <1>6, <1>7, SeqEqual
  <1> QED BY <1>3, <1>4, <1>8 DEF s

\* `retain' without the oldest message.
LEMMA WithoutHead ==
    ASSUME NEW q \in Seq(Message), Distinct(q), q # << >>
    PROVE  Without(q, Head(q).id) = Tail(q)
  <1>1. /\ Len(q) \in Nat \ {0} /\ Head(q) = q[1] /\ 1 \in DOMAIN q
        /\ Tail(q) \in Seq(Message) /\ Len(Tail(q)) = Len(q) - 1
        /\ \A i \in 1 .. Len(q) - 1 : Tail(q)[i] = q[i + 1]
    BY HeadTailProperties, EmptySeq
  <1> DEFINE w == Without(q, Head(q).id)
  <1>2. w = [i \in 1 .. Len(q) - 1 |-> IF i < 1 THEN q[i] ELSE q[i + 1]]
    BY <1>1, WithoutAt
  <1>3. w \in Seq(Message)
    BY WithoutType
  <1> HIDE DEF w
  <1>4. DOMAIN w = 1 .. Len(q) - 1
    BY <1>2
  <1>5. Len(w) = Len(q) - 1
    <2>1. Len(q) - 1 \in Nat
      BY <1>1
    <2> QED BY <1>2, <2>1
  <1>6. \A i \in 1 .. Len(q) - 1 : w[i] = Tail(q)[i]
    BY <1>1, <1>2
  <1>7. w = Tail(q)
    BY <1>1, <1>3, <1>5, <1>6, SeqEqual
  <1> QED BY <1>7 DEF w

\* `retain' without the oldest message of the second of two queues.
LEMMA WithoutSecond ==
    ASSUME NEW a \in Seq(Message), NEW b \in Seq(Message), Distinct(a \o b), b # << >>
    PROVE  Without(a \o b, Head(b).id) = a \o Tail(b)
  <1> DEFINE s == a \o b
             k == Len(a) + 1
             w == Without(s, Head(b).id)
  <1>1. /\ Len(a) \in Nat /\ Len(b) \in Nat \ {0} /\ Head(b) = b[1]
        /\ Tail(b) \in Seq(Message) /\ Len(Tail(b)) = Len(b) - 1
        /\ \A i \in 1 .. Len(b) - 1 : Tail(b)[i] = b[i + 1]
    BY HeadTailProperties, EmptySeq
  <1>2. /\ s \in Seq(Message) /\ Len(s) = Len(a) + Len(b)
        /\ \A i \in 1 .. Len(a) + Len(b) :
              s[i] = IF i <= Len(a) THEN a[i] ELSE b[i - Len(a)]
    BY ConcatProperties
  <1>3. Distinct(s)
    OBVIOUS
  <1> HIDE DEF s
  <1>4. k \in DOMAIN s /\ s[k] = Head(b)
    BY <1>1, <1>2
  <1>5. w = [i \in 1 .. Len(s) - 1 |-> IF i < k THEN s[i] ELSE s[i + 1]]
    BY <1>2, <1>3, <1>4, WithoutAt
  <1>6. /\ w \in Seq(Message) /\ DOMAIN w = 1 .. Len(a) + Len(b) - 1
    BY <1>2, <1>5, WithoutType
  <1>7. Len(w) = Len(a) + Len(b) - 1
    BY <1>1, <1>6, LenProperties
  <1>8. /\ a \o Tail(b) \in Seq(Message) /\ Len(a \o Tail(b)) = Len(a) + Len(b) - 1
        /\ \A i \in 1 .. Len(a) + Len(b) - 1 :
              (a \o Tail(b))[i] = IF i <= Len(a) THEN a[i] ELSE Tail(b)[i - Len(a)]
    <2>1. /\ a \o Tail(b) \in Seq(Message) /\ Len(a \o Tail(b)) = Len(a) + Len(Tail(b))
          /\ \A i \in 1 .. Len(a) + Len(Tail(b)) :
                (a \o Tail(b))[i] = IF i <= Len(a) THEN a[i] ELSE Tail(b)[i - Len(a)]
      BY <1>1, ConcatProperties
    <2> QED BY <1>1, <2>1
  <1>9. ASSUME NEW i \in 1 .. Len(a) + Len(b) - 1 PROVE w[i] = (a \o Tail(b))[i]
    <2>1. CASE i <= Len(a)
      BY <1>1, <1>2, <1>5, <1>8, <2>1
    <2>2. CASE ~(i <= Len(a))
      <3>1. w[i] = s[i + 1] /\ s[i + 1] = b[i + 1 - Len(a)]
        BY <1>1, <1>2, <1>5, <2>2
      <3>2. (a \o Tail(b))[i] = b[i - Len(a) + 1]
        BY <1>1, <1>8, <2>2
      <3>3. i + 1 - Len(a) = i - Len(a) + 1
        BY <1>1
      <3> QED BY <3>1, <3>2, <3>3
    <2> QED BY <2>1, <2>2
  <1>10. w = a \o Tail(b)
    BY <1>6, <1>7, <1>8, <1>9, SeqEqual
  <1> QED BY <1>10 DEF s

-----------------------------------------------------------------------------
(* The queues in memory are the queue on disk. *)

Order ==
    /\ pc \notin {"down", "reconcile"} => pending = awaiting \o outbox
    /\ pc \in AfterClose => awaiting = << >>

\* Steps that move no message.
LEMMA StillOrder ==
    ASSUME TypeOK, Shape, Order, Silent \/ Loud
    PROVE  Order'
  <1>1. /\ UNCHANGED <<pending, outbox, awaiting>> /\ pc \notin Unsettled
        /\ pc' \in AfterClose => pc = "closeEnd"
    BY SilentStill, LoudStill
  <1> QED BY <1>1 DEF Order, Unsettled, AfterClose

\* A reopened session starts with the queue of the metadata.
LEMMA ReconcileCommitOrder ==
    ASSUME TypeOK, Single, ReconcileCommit
    PROVE  Order'
  <1>1. /\ pending' = outbox /\ outbox' = outbox /\ awaiting' = << >> /\ pc' = "recv"
    BY DEF ReconcileCommit, Single, SameMessages
  <1>2. << >> \o outbox = outbox
    BY ConcatEmptySeq DEF TypeOK, QueuesOK
  <1> QED BY <1>1, <1>2 DEF Order, AfterClose

\* A new message is the newest in both.
LEMMA SendOrder ==
    ASSUME TypeOK, Order, NEW w \in Words, Send(w)
    PROVE  Order'
  <1> DEFINE m == [id |-> nextId, text |-> w]
  <1>1. m \in Message
    BY DEF TypeOK, HistoryOK, Message, Text
  <1>2. /\ pending' = Append(pending, m) /\ outbox' = Append(outbox, m)
        /\ awaiting' = awaiting /\ pc = "recv" /\ pc' = "ack"
    BY DEF Send, Receiving
  <1> HIDE DEF m
  <1>3. pending = awaiting \o outbox
    BY <1>2 DEF Order
  <1>4. pending' = awaiting' \o outbox'
    BY <1>1, <1>2, <1>3, AppendToSecond DEF TypeOK, QueuesOK
  <1> QED BY <1>2, <1>4 DEF Order, AfterClose

\* A message written to a pipe is the newest of those that wait for their echo.
LEMMA DeliverEchoedOrder ==
    ASSUME TypeOK, Order, DeliverEchoed
    PROVE  Order'
  <1>1. /\ outbox # << >> /\ outbox \in Seq(Message) /\ awaiting \in Seq(Message)
        /\ awaiting' = Append(awaiting, Head(outbox)) /\ outbox' = Tail(outbox)
        /\ pending' = pending /\ pc = "deliver" /\ pc' = "deliver"
    BY DEF DeliverEchoed, Delivering, TypeOK, QueuesOK
  <1>2. awaiting' \o outbox' = awaiting \o outbox
    BY <1>1, MoveAcross
  <1> QED BY <1>1, <1>2 DEF Order, AfterClose

\* The retired message is the oldest of the outbox, in memory and on disk.
LEMMA CompleteOrder ==
    ASSUME TypeOK, Shape, Single, Order, Complete
    PROVE  Order'
  <1>1. /\ outbox # << >> /\ outbox \in Seq(Message) /\ awaiting \in Seq(Message)
        /\ pending' = Without(pending, Head(outbox).id) /\ outbox' = Tail(outbox)
        /\ awaiting' = awaiting /\ pc = "complete" /\ pc' = "deliver"
    BY DEF Complete, Shape, TypeOK, QueuesOK
  <1>2. pending = awaiting \o outbox /\ Distinct(pending)
    BY <1>1 DEF Order, Single, Apart
  <1>3. pending' = awaiting' \o outbox'
    BY <1>1, <1>2, WithoutSecond
  <1> QED BY <1>1, <1>3 DEF Order, AfterClose

\* ... or the oldest of those that wait for their echo.
LEMMA ConfirmedOrder ==
    ASSUME TypeOK, Shape, Single, Order, Confirmed
    PROVE  Order'
  <1>1. /\ awaiting # << >> /\ outbox \in Seq(Message) /\ awaiting \in Seq(Message)
        /\ pending' = Without(pending, Head(awaiting).id) /\ awaiting' = Tail(awaiting)
        /\ outbox' = outbox /\ pc = "confirmed" /\ pc' \in {"recv", "drain"}
    BY DEF Confirmed, Shape, TypeOK, QueuesOK, Back
  <1>2. pending = awaiting \o outbox /\ Distinct(pending) /\ pending \in Seq(Message)
    BY <1>1 DEF Order, Single, Apart, TypeOK, DiskOK
  <1>3. /\ pending # << >> /\ Head(pending) = Head(awaiting)
        /\ Tail(pending) = Tail(awaiting) \o outbox
    BY <1>1, <1>2, HeadOfConcat
  <1>4. Without(pending, Head(pending).id) = Tail(pending)
    BY <1>2, <1>3, WithoutHead
  <1>5. pending' = awaiting' \o outbox'
    BY <1>1, <1>3, <1>4
  <1> QED BY <1>1, <1>5 DEF Order, AfterClose

\* Unconfirmed messages are in front of the outbox again, as they are on disk.
LEMMA CloseTurnOrder ==
    ASSUME TypeOK, Shape, Order, CloseTurn
    PROVE  Order'
  <1>1. /\ pending = awaiting \o outbox
        /\ awaiting' = << >> /\ pc' = "closeEnd"
    BY DEF CloseTurn, Order
  <1>2. outbox' = pending'
    BY <1>1 DEF CloseTurn, InFront, Requeue
  <1>3. outbox' \in Seq(Message)
    <2>1. TypeOK'
      BY CloseTurnType
    <2> QED BY <2>1 DEF TypeOK, QueuesOK
  <1>4. << >> \o outbox' = outbox'
    BY <1>3, ConcatEmptySeq
  <1> QED BY <1>1, <1>2, <1>4 DEF Order

\* A recovery's message is the oldest in both, if nothing waits for its echo.
LEMMA RecoveryMessageOrder ==
    ASSUME TypeOK, Shape, Order, awaiting = << >>, NEW place,
           place \notin {"down", "reconcile"}, NEW stage \in Stages, NEW text \in Text,
           NEW fresh \in BOOLEAN, RecoveryMessage(place, stage, text, fresh)
    PROVE  Order' /\ awaiting' = << >>
  <1> DEFINE m == [id |-> nextId, text |-> text]
             Kept(q) == IF Superseded(stage) THEN Without(q, recovery.id) ELSE q
  <1>1. /\ pending' = <<m>> \o Kept(pending) /\ outbox' = <<m>> \o Kept(outbox)
        /\ awaiting' = Kept(awaiting) /\ pc = place /\ pc' \in {"attempt", "flush"}
    BY DEF RecoveryMessage, InFront, Dispatch, DispatchPc, GoTo
  <1>2. pending = outbox
    <2>1. << >> \o outbox = outbox
      BY ConcatEmptySeq DEF TypeOK, QueuesOK
    <2> QED BY <1>1, <2>1 DEF Order
  <1>3. awaiting' = << >>
    <2>1. Ids(<< >>) = {}
      BY DEF Ids
    <2> QED BY <1>1, <2>1 DEF Without
  <1>4. m \in Message /\ Kept(outbox) \in Seq(Message)
    BY WithoutType DEF TypeOK, HistoryOK, QueuesOK, Message
  <1>5. <<m>> \in Seq(Message)
    BY <1>4
  <1>6. pending' = outbox' /\ outbox' \in Seq(Message)
    BY <1>1, <1>2, <1>4, <1>5, ConcatProperties
  <1>7. << >> \o outbox' = outbox'
    BY <1>6, ConcatEmptySeq
  <1> QED BY <1>1, <1>3, <1>6, <1>7 DEF Order, AfterClose

\* Every step keeps the order, if a replay is made up only while nothing waits
\* for its echo.
LEMMA StepOrder ==
    ASSUME TypeOK, Shape, Ledger, Single, Order, pc = "replay" => awaiting = << >>,
           [Next]_vars
    PROVE  Order'
  <1>1. CASE Silent \/ Loud
    BY <1>1, StillOrder
  <1>2. CASE \/ ReconcileCommit \/ DeliverEchoed \/ Complete \/ Confirmed \/ CloseTurn
             \/ \E w \in Words : Send(w)
    BY <1>2, ReconcileCommitOrder, DeliverEchoedOrder, CompleteOrder, ConfirmedOrder,
       CloseTurnOrder, SendOrder
  <1>3. CASE Handoff \/ Continue \/ Replay
    <2>1. awaiting = << >>
      BY <1>3 DEF Handoff, Continue, Replay, RecoveryMessage, Order, AfterClose
    <2> QED BY <1>3, <2>1, RecoveryMessageOrder
            DEF Handoff, Continue, Replay, Stages, Text
  <1>4. CASE DeliverOpening \/ HearConfirm
    <2>1. /\ pc \in {"deliver", "recv", "drain"}
          /\ pc' \in {"complete", "confirmed", "recv", "drain"}
          /\ UNCHANGED <<pending, outbox, awaiting>>
      BY <1>4 DEF DeliverOpening, Delivering, HearConfirm, Hearing, Receiving
    <2> QED BY <2>1 DEF Order, AfterClose
  <1>5. CASE ReconcileDrop \/ OpenAt \/ StopEnd \/ Crash
    BY <1>5 DEF ReconcileDrop, OpenAt, StopEnd, Crash, Cold, Order, AfterClose
  <1>6. CASE UNCHANGED vars
    BY <1>6 DEF Order, vars
  <1> QED BY <1>1, <1>2, <1>3, <1>4, <1>5, <1>6, StepKinds

\* No session is up at first.
LEMMA InitOrder == Init => Order
  BY DEF Init, Order, AfterClose

-----------------------------------------------------------------------------
(* Circumstances under which no replay is made up while messages wait for  *)
(* their echo.  First: nothing is echoed.                                  *)

\* Where nothing is echoed, no step awaits an echo.
LEMMA StepNoEcho ==
    ASSUME NoEcho, TypeOK, Shape, awaiting = << >>, [Next]_vars
    PROVE  awaiting' = << >>
  <1>1. CASE Silent \/ Loud
    BY <1>1, SilentStill, LoudStill
  <1>2. CASE DeliverEchoed
    <2>1. runner \in Providers
      BY <1>2 DEF DeliverEchoed, Delivering, Shape, TypeOK, RunnerOK
    <2> QED BY <1>2, <2>1 DEF DeliverEchoed, NoEcho
  <1>3. CASE Confirmed
    BY <1>3 DEF Confirmed, Shape
  <1>4. CASE Handoff \/ Continue \/ Replay
    <2>1. Ids(<< >>) = {}
      BY DEF Ids
    <2> QED BY <1>4, <2>1 DEF Handoff, Continue, Replay, RecoveryMessage, Without
  <1>5. CASE \/ ReconcileDrop \/ ReconcileCommit \/ DeliverOpening \/ Complete
             \/ HearConfirm \/ CloseTurn \/ StopEnd \/ Crash \/ OpenAt
             \/ \E w \in Words : Send(w)
    BY <1>5 DEF ReconcileDrop, ReconcileCommit, DeliverOpening, Complete, HearConfirm,
                CloseTurn, StopEnd, Crash, Cold, OpenAt, Send
  <1>6. CASE UNCHANGED vars
    BY <1>6 DEF vars
  <1> QED BY <1>1, <1>2, <1>3, <1>4, <1>5, <1>6, StepKinds

-----------------------------------------------------------------------------
(* Second: no provider compacts its own context, so that no compaction is  *)
(* ever seen to end.                                                       *)

Uncompacted ==
    /\ ~deadline /\ pc # "replay"
    /\ pc = "recoveryEnded" => recovery.stage # "Compacting"
    /\ pc = "drain" => stopping

\* Every step keeps it so: where no provider compacts, no replay begins.
LEMMA StepUncompacted ==
    ASSUME Compacts = {}, TypeOK, Shape, Uncompacted, [Next]_vars
    PROVE  Uncompacted'
  <1>1. CASE \/ LaunchOnce \/ Acknowledge \/ AttemptKept \/ AttemptLaunch \/ AttemptRetune
             \/ AttemptNoRung \/ Flush \/ DeliverDone \/ Finish \/ Unauthenticated \/ Failed
    BY <1>1 DEF LaunchOnce, Acknowledge, AttemptKept, AttemptLaunch, AttemptRetune,
                AttemptNoRung, Flush, DeliverDone, Finish, Unauthenticated, Failed, GoTo,
                Back, MoveOn, Dispatch, DispatchPc, Shape, Uncompacted
  <1>2. CASE RecoverContext \/ CompactionTimeout \/ GiveUp
    BY <1>2 DEF RecoverContext, CompactionTimeout, GiveUp, StartHandoff, Closing,
                SaveRecovery, Back, Uncompacted
  <1>3. CASE RecoveryEnded
    BY <1>3 DEF RecoveryEnded, StartHandoff, Closing, SaveRecovery, GoTo, Dispatch,
                DispatchPc, Uncompacted
  <1>4. CASE ResumeRecovery
    BY <1>4 DEF ResumeRecovery, StartHandoff, Closing, GoTo, Uncompacted
  <1>5. CASE \/ \E S \in SUBSET Providers : SetProviders(S)
             \/ SetAutoremove \/ SetOther \/ Stop \/ Provider
    <2>1. CASE \/ \E S \in SUBSET Providers : SetProviders(S)
               \/ SetAutoremove \/ SetOther
      BY <2>1 DEF SetProviders, SetAutoremove, SetOther, Uncompacted
    <2>2. CASE Stop
      BY <2>2 DEF Stop, Uncompacted
    <2>3. CASE Provider
      <3>1. UNCHANGED <<pc, deadline, recovery, stopping>>
        BY <2>3 DEF Provider, Echo, Speak, Exit, Reap, EndTurn, FailTurn, RunnerOnly
      <3> QED BY <3>1 DEF Uncompacted
    <2> QED BY <1>5, <2>1, <2>2, <2>3
  <1>6. CASE AttemptFails \/ Blocked \/ GaveUp \/ \E k \in Kinds : Refused(k)
    <2>1. CASE AttemptFails
      BY <2>1 DEF AttemptFails, GoTo, MoveOn, Uncompacted
    <2>2. CASE Blocked \/ GaveUp
      <3>1. UNCHANGED <<deadline, stopping>> /\ pc' = IF stopping THEN "drain" ELSE "recv"
        BY <2>2 DEF Blocked, GaveUp, Back
      <3> QED BY <3>1 DEF Uncompacted
    <2>3. CASE \E k \in Kinds : Refused(k)
      <3>1. pc' = "close" /\ deadline' = deadline
        BY <2>3 DEF Refused, Closing
      <3> QED BY <3>1 DEF Uncompacted
    <2> QED BY <1>6, <2>1, <2>2, <2>3
  <1>7. CASE RefusedForContext
    BY <1>7 DEF RefusedForContext, Refusal, Delivering, Gated, Recovering, GoTo, Back,
                Uncompacted
  <1>8. CASE \/ HearStraggler \/ HearText \/ HearError
             \/ \E type \in {"TEXT", "ERROR", "END"} : HearStopping(type)
    <2>1. pc' \in {pc, "close"} /\ pc # "recoveryEnded" /\ UNCHANGED <<deadline, stopping>>
      BY <1>8 DEF HearStraggler, HearText, HearError, HearStopping, Hears, Hearing,
                  Receiving, Closing
    <2> QED BY <2>1 DEF Uncompacted
  <1>9. CASE HearEnd
    BY <1>9 DEF HearEnd, Hears, Hearing, Receiving, MustTimeOut, Recovering, Closing, GoTo,
                Uncompacted
  <1>10. CASE CloseTurnEnd
    BY <1>10 DEF CloseTurnEnd, GoTo, Shape, Uncompacted
  <1>11. CASE Handoff \/ Continue \/ Replay
    BY <1>11 DEF Handoff, Continue, Replay, RecoveryMessage, Dispatch, DispatchPc, GoTo,
                 Uncompacted
  <1>12. CASE \/ ReconcileDrop \/ ReconcileCommit \/ DeliverEchoed \/ DeliverOpening
              \/ Complete \/ HearConfirm \/ Confirmed \/ CloseTurn
              \/ StopEnd \/ Crash \/ OpenAt \/ \E w \in Words : Send(w)
    <2>1. CASE \/ ReconcileDrop \/ ReconcileCommit \/ DeliverEchoed \/ DeliverOpening
               \/ Complete \/ CloseTurn
      <3>1. /\ deadline' = deadline
            /\ pc' \in {"reconcile", "recv", "deliver", "complete", "closeEnd"}
        BY <2>1 DEF ReconcileDrop, ReconcileCommit, DeliverEchoed, DeliverOpening,
                    Delivering, Complete, CloseTurn
      <3> QED BY <3>1 DEF Uncompacted
    <2>2. CASE HearConfirm
      <3>1. /\ UNCHANGED <<deadline, stopping, recovery>>
            /\ pc' \in {pc, "confirmed"}
        BY <2>2 DEF HearConfirm
      <3> QED BY <3>1 DEF Uncompacted
    <2>3. CASE Confirmed
      <3>1. UNCHANGED <<deadline, stopping>> /\ pc' = IF stopping THEN "drain" ELSE "recv"
        BY <2>3 DEF Confirmed, Back
      <3> QED BY <3>1 DEF Uncompacted
    <2>4. CASE StopEnd \/ Crash
      <3>1. deadline' = FALSE /\ pc' = "down"
        BY <2>4 DEF StopEnd, Crash, Cold
      <3> QED BY <3>1 DEF Uncompacted
    <2>5. CASE OpenAt \/ \E w \in Words : Send(w)
      <3>1. deadline' = deadline /\ pc' \in {"reconcile", "ack"}
        BY <2>5 DEF OpenAt, Send
      <3> QED BY <3>1 DEF Uncompacted
    <2> QED BY <1>12, <2>1, <2>2, <2>3, <2>4, <2>5
  <1>13. CASE UNCHANGED vars
    BY <1>13 DEF vars, Uncompacted
  <1> QED BY <1>1, <1>2, <1>3, <1>4, <1>5, <1>6, <1>7, <1>8, <1>9, <1>10, <1>11, <1>12,
             <1>13, StepKinds DEF Silent, Loud

-----------------------------------------------------------------------------
(* Third: no provider runs out of context, so that there is no recovery.   *)

\* No runner has reported a full context.
Spared == \A i \in DOMAIN inbox : inbox[i].why # "context"

RecoveryPlaces == {"recover", "recoveryEnded", "replay", "resume", "handoff", "continue",
                   "giveUp", "gaveUp"}

Unrecovered ==
    /\ recovery = NoRecovery /\ pc \notin RecoveryPlaces
    /\ pc \in {"close", "closeEnd"} => goal \in {"auth", "failed"}
    /\ turnFailed # "context" /\ Spared

\* The first event is taken off the inbox.
LEMMA SparedTail ==
    ASSUME TypeOK, Spared, inbox # << >>, inbox' = Tail(inbox)
    PROVE  Head(inbox).why # "context" /\ Spared'
  <1>1. /\ Len(inbox) \in Nat \ {0} /\ DOMAIN inbox = 1 .. Len(inbox)
        /\ Head(inbox) = inbox[1] /\ DOMAIN inbox' = 1 .. Len(inbox) - 1
        /\ \A i \in 1 .. Len(inbox) - 1 : inbox'[i] = inbox[i + 1]
    BY HeadTailProperties, EmptySeq DEF TypeOK, NativeOK
  <1> QED BY <1>1 DEF Spared

\* Events are put at its end.
LEMMA SparedConcat ==
    ASSUME TypeOK, Spared, NEW more \in Seq(Heard), inbox' = inbox \o more,
           \A i \in DOMAIN more : more[i].why # "context"
    PROVE  Spared'
  <1>1. /\ Len(inbox) \in Nat /\ Len(more) \in Nat
        /\ DOMAIN inbox = 1 .. Len(inbox) /\ DOMAIN more = 1 .. Len(more)
        /\ DOMAIN inbox' = 1 .. Len(inbox) + Len(more)
        /\ \A i \in 1 .. Len(inbox) + Len(more) :
              inbox'[i] = IF i <= Len(inbox) THEN inbox[i] ELSE more[i - Len(inbox)]
    BY ConcatProperties DEF TypeOK, NativeOK
  <1>2. ASSUME NEW i \in DOMAIN inbox' PROVE inbox'[i].why # "context"
    <2>1. CASE i <= Len(inbox)
      BY <1>1, <2>1 DEF Spared
    <2>2. CASE ~(i <= Len(inbox))
      <3>1. i - Len(inbox) \in DOMAIN more /\ inbox'[i] = more[i - Len(inbox)]
        BY <1>1, <2>2
      <3> QED BY <3>1
    <2> QED BY <2>1, <2>2
  <1> QED BY <1>2 DEF Spared

\* A runner that is stopped leaves nothing but an END.
LEMMA SparedStop ==
    ASSUME TypeOK, Shape, Spared, StopRunner
    PROVE  Spared'
  <1> DEFINE h == [epoch |-> runnerEpoch, type |-> "END", text |-> "",
                   why |-> "interrupted"]
  <1>1. PICK bye \in Farewell : inbox' = inbox \o bye
    BY DEF StopRunner
  <1>2. runner # "none" => h \in Heard
    BY DEF Shape, Heard
  <1>3. h.why # "context"
    OBVIOUS
  <1>4. bye = << >> \/ (open > 0 /\ bye = <<h>>)
    BY DEF Farewell
  <1> HIDE DEF h
  <1>5. CASE bye = << >>
    <2>1. inbox' = inbox
      BY <1>1, <1>5, ConcatEmptySeq DEF TypeOK, NativeOK
    <2> QED BY <2>1 DEF Spared
  <1>6. CASE open > 0 /\ bye = <<h>>
    <2>1. runner # "none"
      BY <1>6 DEF Shape
    <2>2. <<h>> \in Seq(Heard) /\ \A i \in DOMAIN <<h>> : <<h>>[i].why # "context"
      BY <1>2, <1>3, <2>1
    <2> QED BY <1>1, <1>6, <2>2, SparedConcat
  <1> QED BY <1>4, <1>5, <1>6

\* What a provider that does not run out of context posts.
LEMMA SparedProvider ==
    ASSUME NoContext, TypeOK, Shape, Spared, Provider
    PROVE  Spared'
  <1>1. runner # "none" => runnerEpoch \in 1 .. MaxEpochs
    BY DEF Shape
  <1>2. ASSUME NEW h \in Heard, h.why # "context", inbox' = Append(inbox, h)
        PROVE  Spared'
    <2>1. inbox' = inbox \o <<h>> /\ <<h>> \in Seq(Heard)
      BY <1>2, AppendIsConcat DEF TypeOK, NativeOK
    <2>2. \A i \in DOMAIN <<h>> : <<h>>[i].why # "context"
      BY <1>2
    <2> QED BY <2>1, <2>2, SparedConcat
  <1>3. CASE Echo
    <2> DEFINE h == Post("CONFIRM", Head(piped), IF open = 0 THEN "START" ELSE "INJECTED")
    <2>1. Head(piped) \in Text
      BY <1>3 DEF Echo, TypeOK, NativeOK
    <2>2. h \in Heard /\ h.why # "context"
      BY <1>1, <1>3, <2>1 DEF Echo, Runs, Post, Heard, Openings
    <2>3. inbox' = Append(inbox, h)
      BY <1>3 DEF Echo
    <2> HIDE DEF h
    <2> QED BY <1>2, <2>2, <2>3
  <1>4. CASE Speak
    <2> DEFINE h == Post("TEXT", "", "none")
    <2>1. h \in Heard /\ h.why # "context"
      BY <1>1, <1>4 DEF Speak, Runs, Post, Heard
    <2>2. inbox' = Append(inbox, h)
      BY <1>4 DEF Speak
    <2> HIDE DEF h
    <2> QED BY <1>2, <2>1, <2>2
  <1>5. CASE \E why \in {"none", "status"} : EndTurn(why)
    <2>1. PICK why \in {"none", "status"} : EndTurn(why)
      BY <1>5
    <2> DEFINE h == Post("END", "", why)
    <2>2. h \in Heard /\ h.why # "context"
      BY <1>1, <2>1 DEF EndTurn, Runs, Post, Heard
    <2>3. inbox' = Append(inbox, h)
      BY <2>1 DEF EndTurn
    <2> HIDE DEF h
    <2> QED BY <1>2, <2>2, <2>3
  <1>6. CASE \E k \in ErrorKinds : FailTurn(k)
    <2>1. PICK k \in ErrorKinds : FailTurn(k)
      BY <1>6
    <2>2. k \in Kinds /\ k # "context"
      BY ConstantsAssumption DEF NoContext
    <2> DEFINE e == Post("ERROR", "", k)
               h == Post("END", "", "none")
    <2>3. e \in Heard /\ h \in Heard /\ e.why # "context" /\ h.why # "context"
      BY <1>1, <2>1, <2>2 DEF FailTurn, Runs, Post, Heard
    <2>4. inbox' = inbox \o <<e, h>>
      BY <2>1 DEF FailTurn
    <2> HIDE DEF e, h
    <2>5. <<e, h>> \in Seq(Heard) /\ \A i \in DOMAIN <<e, h>> : <<e, h>>[i].why # "context"
      BY <2>3
    <2> QED BY <2>4, <2>5, SparedConcat
  <1>7. CASE Exit
    BY <1>7 DEF Exit, Spared
  <1>8. CASE Reap
    <2> DEFINE h == Post("ERROR", "", "crash")
    <2>1. h \in Heard /\ h.why # "context"
      BY <1>1, <1>8 DEF Reap, Post, Heard, Kinds
    <2>2. inbox' = Append(inbox, h)
      BY <1>8 DEF Reap
    <2> HIDE DEF h
    <2> QED BY <1>2, <2>1, <2>2
  <1> QED BY <1>3, <1>4, <1>5, <1>6, <1>7, <1>8 DEF Provider

\* No recovery starts.
LEMMA StepUnrecovered ==
    ASSUME NoContext, TypeOK, Shape, Unrecovered, [Next]_vars
    PROVE  Unrecovered'
  <1> DEFINE Elsewhere == pc' \notin RecoveryPlaces \cup {"close", "closeEnd"}
  <1>0. ~Recovering /\ recovery.stage = "none"
    BY DEF Unrecovered, NoRecovery, Recovering
  <1>1. ASSUME UNCHANGED <<recovery, turnFailed, inbox>>, Elsewhere
        PROVE  Unrecovered'
    BY <1>1 DEF Unrecovered, Spared
  <1>2. CASE \/ LaunchOnce \/ Acknowledge \/ AttemptKept \/ AttemptLaunch \/ AttemptRetune
             \/ AttemptNoRung \/ Flush \/ DeliverDone \/ Finish \/ Unauthenticated \/ Failed
    <2>1. UNCHANGED <<recovery, turnFailed, inbox>>
      BY <1>2 DEF LaunchOnce, Acknowledge, AttemptKept, AttemptLaunch, AttemptRetune,
                  AttemptNoRung, Flush, DeliverDone, Finish, Unauthenticated, Failed
    <2>2. Elsewhere
      BY <1>0, <1>2 DEF LaunchOnce, Acknowledge, AttemptKept, AttemptLaunch, AttemptRetune,
                  AttemptNoRung, Flush, DeliverDone, Finish, Unauthenticated, Failed, GoTo,
                  Back, MoveOn, Dispatch, DispatchPc, Shape, RecoveryPlaces
    <2> QED BY <1>1, <2>1, <2>2
  <1>3. CASE \/ RecoverContext \/ CompactionTimeout \/ RecoveryEnded \/ GiveUp
             \/ ResumeRecovery \/ GaveUp \/ Handoff \/ Continue \/ Replay
    BY <1>0, <1>3 DEF RecoverContext, CompactionTimeout, RecoveryEnded, GiveUp,
         ResumeRecovery, GaveUp, Handoff, Continue, Replay, RecoveryMessage, Unrecovered,
         RecoveryPlaces
  <1>4. CASE RefusedForContext
    BY <1>4 DEF RefusedForContext, Refusal, NoContext
  <1>5. CASE \/ \E S \in SUBSET Providers : SetProviders(S)
             \/ SetAutoremove \/ SetOther
    <2>1. UNCHANGED <<recovery, turnFailed, inbox, pc, goal>>
      BY <1>5 DEF SetProviders, SetAutoremove, SetOther
    <2> QED BY <2>1 DEF Unrecovered, Spared
  <1>6. CASE Stop
    <2>1. UNCHANGED <<recovery, turnFailed>> /\ pc' = "drain" /\ StopRunner
      BY <1>6 DEF Stop
    <2>2. Spared'
      BY <2>1, SparedStop DEF Unrecovered
    <2> QED BY <2>1, <2>2 DEF Unrecovered, RecoveryPlaces
  <1>7. CASE Provider
    <2>1. UNCHANGED <<recovery, turnFailed, pc, goal>>
      BY <1>7 DEF Provider, Echo, Speak, Exit, Reap, EndTurn, FailTurn, RunnerOnly
    <2>2. Spared'
      BY <1>7, SparedProvider DEF Unrecovered
    <2> QED BY <2>1, <2>2 DEF Unrecovered
  <1>8. CASE AttemptFails \/ Blocked
    <2>1. UNCHANGED <<recovery, turnFailed, inbox>>
      BY <1>8 DEF AttemptFails, Blocked
    <2>2. Elsewhere
      BY <1>8 DEF AttemptFails, Blocked, GoTo, Back, MoveOn, RecoveryPlaces
    <2> QED BY <1>1, <2>1, <2>2
  <1>9. CASE \E k \in Kinds : Refused(k)
    <2>1. /\ UNCHANGED <<recovery, turnFailed, inbox>>
          /\ pc' = "close" /\ goal' \in {"auth", "failed"}
      BY <1>0, <1>9 DEF Refused, Closing
    <2> QED BY <2>1 DEF Unrecovered, Spared, RecoveryPlaces
  <1>10. CASE HearStraggler \/ HearConfirm
    <2>1. /\ UNCHANGED <<recovery, turnFailed, goal>> /\ pc' \in {pc, "confirmed"}
          /\ inbox # << >> /\ inbox' = Tail(inbox)
      BY <1>10 DEF HearStraggler, HearConfirm, Hearing
    <2>2. Spared'
      BY <2>1, SparedTail DEF Unrecovered
    <2> QED BY <2>1, <2>2 DEF Unrecovered, RecoveryPlaces
  <1>11. CASE HearText \/ \E type \in {"TEXT", "ERROR", "END"} : HearStopping(type)
    <2>1. /\ UNCHANGED <<recovery, goal, pc>> /\ turnFailed' \in {turnFailed, "none"}
          /\ inbox # << >> /\ inbox' = Tail(inbox)
      BY <1>11 DEF HearText, HearStopping, Hears, Hearing
    <2>2. Spared'
      BY <2>1, SparedTail DEF Unrecovered
    <2> QED BY <2>1, <2>2 DEF Unrecovered
  <1>12. CASE HearEnd
    <2>1. /\ UNCHANGED recovery /\ turnFailed' = "none"
          /\ \/ pc' = "close" /\ goal' = "failed"
             \/ pc' = "finish"
          /\ inbox # << >> /\ inbox' = Tail(inbox)
      BY <1>0, <1>12 DEF HearEnd, Hears, Hearing, GoTo, Closing, Unrecovered
    <2>2. Spared'
      BY <2>1, SparedTail DEF Unrecovered
    <2> QED BY <2>1, <2>2 DEF Unrecovered, RecoveryPlaces
  <1>13. CASE HearError
    <2>1. UNCHANGED recovery /\ inbox # << >> /\ inbox' = Tail(inbox)
      BY <1>13 DEF HearError, Hears, Hearing
    <2>2. Spared' /\ Head(inbox).why # "context"
      BY <2>1, SparedTail DEF Unrecovered
    <2>3. /\ turnFailed' \in {turnFailed, Head(inbox).why}
          /\ \/ pc' = "close" /\ goal' \in {"auth", "failed"}
             \/ UNCHANGED <<pc, goal>>
      BY <1>0, <1>13 DEF HearError, Closing
    <2> QED BY <2>1, <2>2, <2>3 DEF Unrecovered, RecoveryPlaces
  <1>14. CASE CloseTurnEnd
    <2>1. /\ UNCHANGED <<recovery, turnFailed, inbox>> /\ pc' = goal /\ pc = "closeEnd"
      BY <1>14 DEF CloseTurnEnd, GoTo
    <2> QED BY <1>1, <2>1 DEF Unrecovered, RecoveryPlaces
  <1>15. CASE CloseTurn
    <2>1. /\ UNCHANGED <<recovery, goal>> /\ turnFailed' = "none" /\ pc = "close"
          /\ pc' = "closeEnd" /\ StopRunner
      BY <1>15 DEF CloseTurn
    <2>2. Spared'
      BY <2>1, SparedStop DEF Unrecovered
    <2> QED BY <2>1, <2>2 DEF Unrecovered, RecoveryPlaces
  <1>16. CASE StopEnd \/ Crash
    <2>1. recovery' = recovery /\ turnFailed' = "none" /\ pc' = "down" /\ inbox' = << >>
      BY <1>16 DEF StopEnd, Crash, Cold
    <2> QED BY <2>1 DEF Unrecovered, Spared, RecoveryPlaces
  <1>17. CASE \/ ReconcileDrop \/ ReconcileCommit \/ DeliverEchoed \/ DeliverOpening
              \/ Complete \/ Confirmed \/ OpenAt \/ \E w \in Words : Send(w)
    <2>1. UNCHANGED <<recovery, turnFailed, inbox>>
      BY <1>17 DEF ReconcileDrop, ReconcileCommit, DeliverEchoed, DeliverOpening, Complete,
                   Confirmed, OpenAt, Send
    <2>2. Elsewhere
      BY <1>17 DEF ReconcileDrop, ReconcileCommit, DeliverEchoed, DeliverOpening,
                   Delivering, Complete, Confirmed, Back, OpenAt, Send, RecoveryPlaces
    <2> QED BY <1>1, <2>1, <2>2
  <1>18. CASE UNCHANGED vars
    BY <1>18 DEF vars, Unrecovered, Spared
  <1> QED BY <1>2, <1>3, <1>4, <1>5, <1>6, <1>7, <1>8, <1>9, <1>10, <1>11, <1>12, <1>13,
             <1>14, <1>15, <1>16, <1>17, <1>18, StepKinds DEF Silent, Loud

-----------------------------------------------------------------------------

\* Under each of the three circumstances, memory and disk agree on the messages
\* and on their order whenever the thread waits for a wake: through deliveries,
\* failed writes, crashes, failovers and recoveries.  Without compaction this is
\* so even if a client's message is handled between the death of a process and
\* its exit event.
THEOREM QueueOnDisk ==
    ASSUME NoEcho \/ Compacts = {} \/ NoContext
    PROVE  Spec => []QueueMatchesDisk
  <1> DEFINE Inv == TypeOK /\ Shape /\ Ledger /\ Single
  <1>1. Order => QueueMatchesDisk
    BY DEF Order, QueueMatchesDisk
  <1>2. CASE NoEcho
    <2>1. Init => awaiting = << >>
      BY DEF Init
    <2>2. Inv /\ awaiting = << >> /\ Order /\ [Next]_vars => (awaiting = << >> /\ Order)'
      BY <1>2, StepNoEcho, StepOrder
    <2> QED BY <1>1, <2>1, <2>2, QueueInvariant, InitOrder, PTL DEF Spec
  <1>3. CASE Compacts = {}
    <2>1. Init => Uncompacted
      BY DEF Init, Uncompacted
    <2>2. Inv /\ Uncompacted /\ Order /\ [Next]_vars => (Uncompacted /\ Order)'
      BY <1>3, StepUncompacted, StepOrder DEF Uncompacted
    <2> QED BY <1>1, <2>1, <2>2, QueueInvariant, InitOrder, PTL DEF Spec
  <1>4. CASE NoContext
    <2>1. Init => Unrecovered
      BY DEF Init, Unrecovered, Spared, RecoveryPlaces
    <2>2. Inv /\ Unrecovered /\ Order /\ [Next]_vars => (Unrecovered /\ Order)'
      BY <1>4, StepUnrecovered, StepOrder DEF Unrecovered, RecoveryPlaces
    <2> QED BY <1>1, <2>1, <2>2, QueueInvariant, InitOrder, PTL DEF Spec
  <1> QED BY <1>2, <1>3, <1>4

-----------------------------------------------------------------------------
(* DurableSend.  When a provider takes a message without an echo, nothing   *)
(* is on the pipe of an older one.                                          *)

Alone == pc = "complete" => awaiting = << >>

\* Only the oldest message on disk may have been opened.
OnlyOldest == pending # << >> => Unopened(Tail(pending))

\* Reconciliation finds that message, or nothing.
Reconciling ==
    pc = "reconcile" =>
        \/ outbox = pending
        \/ /\ pending # << >> /\ Head(pending).id \in Opened(log)
           /\ outbox = Tail(pending)

\* A message that a handoff may supersede was made up.
ReplayText ==
    recovery.stage = "Retrying" /\ recovery.words =>
        \A i \in DOMAIN pending : pending[i].id = recovery.id => pending[i].text = "retry"

Lagging == OnlyOldest /\ Reconciling /\ ReplayText

\* A queue without opened messages is owed.
LEMMA OwedUnopened ==
    ASSUME TypeOK, Unopened(pending)
    PROVE  Owed = pending /\ OnlyOldest
  <1>1. pending \in Seq(Message)
    BY DEF TypeOK, DiskOK
  <1>2. CASE pending = << >>
    BY <1>2 DEF Owed, OnlyOldest
  <1>3. CASE pending # << >>
    <2>1. Head(pending).id \in Ids(pending) /\ Ids(Tail(pending)) \subseteq Ids(pending)
      BY <1>1, <1>3, IdsOfHeadTail
    <2> QED BY <1>3, <2>1 DEF Owed, OnlyOldest, Unopened
  <1> QED BY <1>2, <1>3

\* What is owed while the session is up.
UpOwes ==
    /\ OnlyOldest
    /\ pc \notin Unsettled => Owed = pending /\ Unopened(pending)
    /\ pc \in {"complete", "confirmed"} =>
           /\ pending # << >> /\ Owed = Tail(pending) /\ Unopened(Tail(pending))
           /\ Without(pending, Head(pending).id) = Tail(pending)
           /\ Head(pending) = IF pc = "complete" THEN Head(outbox) ELSE Head(awaiting)

\* It follows from the invariants of the queue.
LEMMA OwedUp ==
    TypeOK /\ Shape /\ Ledger /\ Single /\ Order /\ Alone /\ pc \notin {"down", "reconcile"}
    => UpOwes
  <1> SUFFICES ASSUME TypeOK, Shape, Ledger, Single, Order, Alone,
                      pc \notin {"down", "reconcile"}
               PROVE  UpOwes
    OBVIOUS
  <1>1. /\ pending \in Seq(Message) /\ awaiting \in Seq(Message) /\ outbox \in Seq(Message)
        /\ pending = awaiting \o outbox /\ Distinct(pending)
        /\ Ids(pending) = Ids(awaiting) \cup Ids(outbox)
    BY DEF TypeOK, DiskOK, QueuesOK, Order, Single, Apart, SameMessages
  <1>2. CASE pc \notin Unsettled
    <2>1. Unopened(pending)
      BY <1>1, <1>2 DEF Single, NotYet, Unopened
    <2> QED BY <1>2, <2>1, OwedUnopened DEF Unsettled, UpOwes
  <1>3. CASE pc = "complete"
    <2>1. outbox # << >> /\ pending = outbox
      <3>1. << >> \o outbox = outbox
        BY <1>1, ConcatEmptySeq
      <3> QED BY <1>1, <1>3, <3>1 DEF Shape, Alone
    <2>2. Head(pending).id \in Opened(log) /\ Unopened(Tail(pending))
      BY <1>3, <2>1 DEF Ledger, Midway, Single, NotYet
    <2> QED BY <1>1, <1>3, <2>1, <2>2, WithoutHead DEF Owed, OnlyOldest, Unsettled, UpOwes
  <1>4. CASE pc = "confirmed"
    <2>1. awaiting # << >>
      BY <1>4 DEF Shape
    <2>2. /\ pending # << >> /\ Head(pending) = Head(awaiting)
          /\ Tail(pending) = Tail(awaiting) \o outbox /\ Tail(awaiting) \in Seq(Message)
      BY <1>1, <2>1, HeadOfConcat, HeadTailProperties
    <2>3. Ids(Tail(pending)) = Ids(Tail(awaiting)) \cup Ids(outbox)
      BY <1>1, <2>2, IdsOfConcat
    <2>4. Head(pending).id \in Opened(log) /\ Unopened(Tail(pending))
      BY <1>4, <2>2, <2>3 DEF Ledger, Midway, Single, NotYet, Unopened
    <2> QED BY <1>1, <1>4, <2>2, <2>4, WithoutHead DEF Owed, OnlyOldest, Unsettled, UpOwes
  <1> QED BY <1>2, <1>3, <1>4 DEF Unsettled

\* Steps that leave the metadata's queue and what is opened alone.
LEMMA SameOwed ==
    ASSUME OnlyOldest, pending' = pending, Opened(log)' = Opened(log)
    PROVE  Owed' = Owed /\ OnlyOldest'
  BY DEF Owed, OnlyOldest, Unopened, Ids

\* ... are no steps of DurableSend.
LEMMA QuietPromise ==
    ASSUME TypeOK, Lagging, UNCHANGED <<pending, nextId, sends>>,
           Opened(log)' = Opened(log), pc' # "reconcile",
           recovery' = recovery \/ ~(recovery'.stage = "Retrying" /\ recovery'.words)
    PROVE  UNCHANGED Promise!vars /\ Lagging'
  <1>1. Owed' = Owed /\ OnlyOldest'
    BY SameOwed DEF Lagging
  <1>2. Reconciling'
    BY DEF Reconciling
  <1>3. ReplayText'
    BY DEF Lagging, ReplayText
  <1> QED BY <1>1, <1>2, <1>3 DEF Promise!vars, Lagging

\* Opening a session: the outbox is what is on disk ...
LEMMA OpenAtPromise ==
    ASSUME TypeOK, Lagging, OpenAt
    PROVE  UNCHANGED Promise!vars /\ Lagging'
  <1>1. UNCHANGED <<pending, log, nextId, sends, recovery>> /\ outbox' = pending
    BY DEF OpenAt
  <1>2. Opened(log)' = Opened(log)
    BY <1>1 DEF Opened
  <1>3. Owed' = Owed /\ OnlyOldest'
    BY <1>1, <1>2, SameOwed DEF Lagging
  <1>4. Reconciling' /\ ReplayText'
    BY <1>1 DEF Lagging, Reconciling, ReplayText
  <1> QED BY <1>1, <1>2, <1>3, <1>4 DEF Promise!vars, Lagging

\* ... the opened message, which can only be the oldest, is dropped ...
LEMMA ReconcileDropPromise ==
    ASSUME TypeOK, Single, Lagging, ReconcileDrop
    PROVE  UNCHANGED Promise!vars /\ Lagging'
  <1>1. PICK i \in DOMAIN outbox : /\ outbox[i].id \in Opened(log)
                                   /\ outbox' = Without(outbox, outbox[i].id)
    BY DEF ReconcileDrop
  <1>2. UNCHANGED <<pending, log, nextId, sends, recovery, pc>> /\ pc = "reconcile"
    BY DEF ReconcileDrop
  <1>3. /\ Opened(log)' = Opened(log) /\ pending \in Seq(Message) /\ Distinct(pending)
        /\ outbox[i].id \in Ids(outbox)
    BY <1>2 DEF Opened, TypeOK, DiskOK, Single, Apart, Ids
  <1>4. Owed' = Owed /\ OnlyOldest'
    BY <1>2, <1>3, SameOwed DEF Lagging
  <1>5. ~(pending # << >> /\ outbox = Tail(pending))
    BY <1>1, <1>3 DEF Lagging, OnlyOldest, Unopened
  <1>6. outbox = pending
    BY <1>2, <1>5 DEF Lagging, Reconciling
  <1>7. pending # << >> /\ outbox[i].id = Head(pending).id
    <2>1. pending # << >>
      BY <1>3, <1>6 DEF Ids
    <2>2. Ids(pending) = {Head(pending).id} \cup Ids(Tail(pending))
      BY <1>3, <2>1, IdsOfHeadTail
    <2> QED BY <1>1, <1>3, <1>6, <2>1, <2>2 DEF Lagging, OnlyOldest, Unopened
  <1>8. outbox' = Tail(pending)
    BY <1>1, <1>3, <1>6, <1>7, WithoutHead
  <1>9. Reconciling'
    BY <1>1, <1>2, <1>3, <1>7, <1>8 DEF Reconciling
  <1>10. ReplayText'
    BY <1>2 DEF Lagging, ReplayText
  <1> QED BY <1>2, <1>3, <1>4, <1>9, <1>10 DEF Promise!vars, Lagging

\* ... and what is left, what is owed, is committed.
LEMMA ReconcileCommitPromise ==
    ASSUME TypeOK, Single, Lagging, ReconcileCommit
    PROVE  UNCHANGED Promise!vars /\ Lagging'
  <1>1. /\ UNCHANGED <<log, nextId, sends, recovery, outbox>> /\ pending' = outbox
        /\ pc = "reconcile" /\ pc' = "recv" /\ Unopened(outbox)
    BY DEF ReconcileCommit, Unopened
  <1>2. /\ Opened(log)' = Opened(log)
        /\ pending \in Seq(Message) /\ outbox \in Seq(Message)
    BY <1>1 DEF Opened, TypeOK, DiskOK, QueuesOK
  <1>3. Owed = outbox
    <2>1. CASE outbox = pending
      BY <1>1, <2>1, OwedUnopened
    <2>2. CASE outbox # pending
      BY <1>1, <2>2 DEF Lagging, Reconciling, Owed
    <2> QED BY <2>1, <2>2
  <1>4. outbox # << >> => Head(outbox).id \in Ids(outbox) /\ Ids(Tail(outbox)) \subseteq Ids(outbox)
    BY <1>2, IdsOfHeadTail
  <1>5. Owed' = outbox /\ OnlyOldest'
    BY <1>1, <1>2, <1>4 DEF Owed, OnlyOldest, Unopened
  <1>6. ReplayText'
    <2>1. ASSUME pending # << >>, outbox = Tail(pending), NEW i \in DOMAIN outbox
          PROVE  i + 1 \in DOMAIN pending /\ outbox[i] = pending[i + 1]
      <3>1. /\ Len(pending) \in Nat \ {0} /\ DOMAIN pending = 1 .. Len(pending)
            /\ DOMAIN outbox = 1 .. Len(pending) - 1
            /\ \A j \in 1 .. Len(pending) - 1 : outbox[j] = pending[j + 1]
        BY <1>2, <2>1, HeadTailProperties, EmptySeq
      <3> QED BY <3>1
    <2>2. \A i \in DOMAIN outbox : \E j \in DOMAIN pending : outbox[i] = pending[j]
      BY <1>1, <2>1 DEF Lagging, Reconciling
    <2> QED BY <1>1, <2>2 DEF Lagging, ReplayText
  <1>7. Reconciling'
    BY <1>1 DEF Reconciling
  <1> QED BY <1>1, <1>2, <1>3, <1>5, <1>6, <1>7 DEF Promise!vars, Lagging

\* A message is accepted.
LEMMA SendPromise ==
    ASSUME TypeOK, Ledger, Lagging, UpOwes, UpOwes', NEW w \in Words, Send(w)
    PROVE  Promise!Accept(w) /\ Lagging'
  <1> DEFINE m == [id |-> nextId, text |-> w]
  <1>1. /\ pending' = Append(pending, m) /\ pc = "recv" /\ pc' = "ack"
        /\ nextId' = nextId + 1 /\ sends' = sends + 1 /\ UNCHANGED <<log, recovery>>
    BY DEF Send, Receiving
  <1>2. Opened(log)' = Opened(log) /\ nextId \in Nat /\ pending \in Seq(Message)
    BY <1>1 DEF Opened, TypeOK, DiskOK, HistoryOK
  <1>3. Owed = pending /\ Owed' = pending' /\ OnlyOldest'
    BY <1>1 DEF UpOwes, Unsettled
  <1>4. Promise!Accept(w)
    BY <1>1, <1>2, <1>3 DEF Promise!Accept
  <1>5. Reconciling'
    BY <1>1 DEF Reconciling
  <1>6. ReplayText'
    <2>1. /\ DOMAIN pending' = DOMAIN pending \cup {Len(pending) + 1}
          /\ \A i \in DOMAIN pending : pending'[i] = pending[i]
          /\ pending'[Len(pending) + 1].id = nextId
      BY <1>1, <1>2
    <2>2. recovery.id # nextId
      BY <1>2 DEF Ledger, Bounded, TypeOK, DiskOK, Recovery
    <2> QED BY <1>1, <2>1, <2>2 DEF Lagging, ReplayText
  <1> QED BY <1>3, <1>4, <1>5, <1>6 DEF Lagging

\* The oldest message that is owed is handed over: its opening event.
LEMMA OpeningPromise ==
    ASSUME TypeOK, Lagging, UpOwes, UpOwes', pc \notin Unsettled,
           pc' \in {"complete", "confirmed"},
           UNCHANGED <<pending, outbox, awaiting, nextId, sends, recovery>>,
           Opened(log)' = Opened(log) \cup
               {(IF pc' = "complete" THEN Head(outbox) ELSE Head(awaiting)).id}
    PROVE  Promise!Open /\ Lagging'
  <1>1. Owed = pending /\ Owed' = Tail(pending) /\ pending # << >> /\ OnlyOldest'
        /\ Head(pending) = IF pc' = "complete" THEN Head(outbox) ELSE Head(awaiting)
    BY DEF UpOwes
  <1>2. Promise!Open
    BY <1>1 DEF Promise!Open
  <1>3. Reconciling' /\ ReplayText'
    BY DEF Lagging, Reconciling, ReplayText
  <1> QED BY <1>1, <1>2, <1>3 DEF Lagging

\* It is retired: it was not owed any more.
LEMMA RetirePromise ==
    ASSUME TypeOK, Shape, Lagging, UpOwes, UpOwes', Complete \/ Confirmed
    PROVE  UNCHANGED Promise!vars /\ Lagging'
  <1>1. /\ pc \in {"complete", "confirmed"} /\ pc' \in {"deliver", "recv", "drain"}
        /\ UNCHANGED <<log, nextId, sends, recovery>>
    BY DEF Complete, Confirmed, Back
  <1>2. pending' = Without(pending, Head(pending).id)
    BY <1>1 DEF Complete, Confirmed, UpOwes
  <1>3. /\ pending' = Tail(pending) /\ pending # << >> /\ Owed = Tail(pending)
        /\ Owed' = pending' /\ OnlyOldest'
    BY <1>1, <1>2 DEF UpOwes, Unsettled
  <1>4. Opened(log)' = Opened(log)
    BY <1>1 DEF Opened
  <1>5. ReplayText'
    <2>1. /\ Len(pending) \in Nat \ {0} /\ DOMAIN pending = 1 .. Len(pending)
          /\ DOMAIN pending' = 1 .. Len(pending) - 1
          /\ \A j \in 1 .. Len(pending) - 1 : pending'[j] = pending[j + 1]
      BY <1>3, HeadTailProperties, EmptySeq DEF TypeOK, DiskOK
    <2>2. \A i \in DOMAIN pending' : i + 1 \in DOMAIN pending
      BY <2>1
    <2>3. \A i \in DOMAIN pending' : \E j \in DOMAIN pending : pending'[i] = pending[j]
      BY <2>1, <2>2
    <2> QED BY <1>1, <2>3 DEF Lagging, ReplayText
  <1>6. Reconciling'
    BY <1>1 DEF Reconciling
  <1> QED BY <1>1, <1>3, <1>4, <1>5, <1>6 DEF Promise!vars, Lagging

\* New attempts in front of what is owed.
LEMMA InFrontOfOwed ==
    ASSUME NEW ms \in Seq(Message), NEW rest \in Seq(Message), ms # << >>,
           nextId \in Nat, Owed' = ms \o rest, nextId' = nextId + Len(ms),
           \A i \in 1 .. Len(ms) : ms[i].id = nextId + i - 1,
           UNCHANGED sends, Opened(log)' = Opened(log)
    PROVE  Len(ms) \in 1 .. Len(Owed') /\ Promise!InFront(Len(ms), rest)
  <1>1. Len(ms) \in Nat \ {0} /\ Len(rest) \in Nat
    BY EmptySeq
  <1>2. /\ Len(Owed') = Len(ms) + Len(rest)
        /\ \A i \in 1 .. Len(ms) + Len(rest) :
              Owed'[i] = IF i <= Len(ms) THEN ms[i] ELSE rest[i - Len(ms)]
    BY ConcatProperties
  <1>3. Len(ms) \in 1 .. Len(Owed')
    BY <1>1, <1>2
  <1>4. ASSUME NEW i \in 1 .. Len(ms)
        PROVE  /\ Owed'[i].id = nextId + i - 1
               /\ Owed'[i].text \in Words \cup {"retry", "handoff", "continue"}
    <2>1. Owed'[i] = ms[i] /\ ms[i] \in Message
      BY <1>1, <1>2
    <2> QED BY <2>1 DEF Message, Text
  <1>5. ASSUME NEW i \in 1 .. Len(rest) PROVE Owed'[Len(ms) + i] = rest[i]
    <2>1. /\ Len(ms) + i \in 1 .. Len(ms) + Len(rest) /\ ~(Len(ms) + i <= Len(ms))
          /\ Len(ms) + i - Len(ms) = i
      BY <1>1
    <2> QED BY <1>2, <2>1
  <1> QED BY <1>2, <1>3, <1>4, <1>5 DEF Promise!InFront

\* The messages of turns that a provider did not finish are sent again.
LEMMA CloseTurnPromise ==
    ASSUME TypeOK, Ledger, Lagging, UpOwes, UpOwes', CloseTurn
    PROVE  (Promise!Reissue \/ UNCHANGED Promise!vars) /\ Lagging'
  <1> DEFINE texts == IF Retries THEN answering \o later ELSE << >>
             again == [i \in 1 .. Len(texts) |->
                          [id |-> nextId + i - 1, text |-> texts[i]]]
  <1>1. texts \in Seq(Text)
    BY EmptyTypes, ConcatProperties DEF TypeOK, QueuesOK
  <1>2. /\ pending' = again \o pending /\ nextId' = nextId + Len(texts)
        /\ UNCHANGED <<log, sends, recovery>> /\ pc = "close" /\ pc' = "closeEnd"
    BY DEF CloseTurn, InFront
  <1> HIDE DEF texts
  <1>3. nextId \in Nat /\ Len(texts) \in Nat /\ \A i \in 1 .. Len(texts) : texts[i] \in Text
    BY <1>1 DEF TypeOK, HistoryOK
  <1>4. again \in Seq(Message)
    <2>1. \A i \in 1 .. Len(texts) : [id |-> nextId + i - 1, text |-> texts[i]] \in Message
      BY <1>3 DEF TypeOK, HistoryOK, Message
    <2> QED BY <1>3, <2>1, IsASeq
  <1>5. /\ Len(again) = Len(texts)
        /\ \A i \in 1 .. Len(texts) : again[i].id = nextId + i - 1
    BY <1>3
  <1> HIDE DEF again
  <1>6. /\ Opened(log)' = Opened(log) /\ pending \in Seq(Message)
        /\ Owed = pending /\ Owed' = pending' /\ OnlyOldest'
    BY <1>2 DEF Opened, TypeOK, DiskOK, UpOwes, Unsettled
  <1>7. Promise!Reissue \/ UNCHANGED Promise!vars
    <2>1. CASE again = << >>
      <3>1. Len(texts) = 0 /\ pending' = pending
        BY <1>2, <1>3, <1>5, <1>6, <2>1, ConcatEmptySeq
      <3>2. nextId' = nextId
        BY <1>2, <1>3, <3>1
      <3> QED BY <1>2, <1>6, <3>1, <3>2 DEF Promise!vars
    <2>2. CASE again # << >>
      <3>1. Len(again) \in 1 .. Len(Owed') /\ Promise!InFront(Len(again), Owed)
        BY <1>2, <1>3, <1>4, <1>5, <1>6, <2>2, InFrontOfOwed
      <3> QED BY <3>1 DEF Promise!Reissue
    <2> QED BY <2>1, <2>2
  <1>8. ReplayText'
    <2>1. /\ Len(again) \in Nat /\ Len(pending) \in Nat /\ DOMAIN pending = 1 .. Len(pending)
          /\ DOMAIN pending' = 1 .. Len(again) + Len(pending)
          /\ \A i \in 1 .. Len(again) + Len(pending) :
                pending'[i] = IF i <= Len(again) THEN again[i] ELSE pending[i - Len(again)]
      BY <1>2, <1>4, <1>6, ConcatProperties
    <2>2. recovery.id < nextId /\ recovery.id \in Nat
      BY DEF Ledger, Bounded, TypeOK, DiskOK, Recovery
    <2>3. ASSUME NEW i \in DOMAIN pending', pending'[i].id = recovery.id
          PROVE  \E j \in DOMAIN pending : pending'[i] = pending[j]
      <3>1. ~(i <= Len(again))
        BY <1>3, <1>5, <2>1, <2>2, <2>3
      <3>2. i - Len(again) \in DOMAIN pending /\ pending'[i] = pending[i - Len(again)]
        BY <2>1, <3>1
      <3> QED BY <3>2
    <2> QED BY <1>2, <2>3 DEF Lagging, ReplayText
  <1>9. Reconciling'
    BY <1>2 DEF Reconciling
  <1> QED BY <1>6, <1>7, <1>8, <1>9 DEF Lagging

\* A recovery's message goes in front; a handoff takes the place of a replay.
LEMMA RecoveryMessagePromise ==
    ASSUME TypeOK, Ledger, Single, Lagging, UpOwes, UpOwes', NEW place,
           place \notin Unsettled, NEW stage \in Stages, NEW text \in Text,
           stage = "Retrying" => text = "retry", NEW fresh \in BOOLEAN,
           RecoveryMessage(place, stage, text, fresh)
    PROVE  (Promise!Reissue \/ Promise!Replace) /\ Lagging'
  <1> DEFINE m == [id |-> nextId, text |-> text]
             Kept(q) == IF Superseded(stage) THEN Without(q, recovery.id) ELSE q
             rest == Kept(pending)
  <1>1. /\ pending' = <<m>> \o rest /\ nextId' = nextId + 1 /\ UNCHANGED <<log, sends>>
        /\ pc = place /\ pc' \in {"attempt", "flush"}
        /\ recovery' = [stage |-> stage, id |-> nextId, words |-> stage = "Retrying"]
    BY DEF RecoveryMessage, InFront, Dispatch, DispatchPc, GoTo
  <1>2. nextId \in Nat \ {0} /\ m \in Message /\ m.id = nextId /\ m.text = text
    BY DEF TypeOK, HistoryOK, Message
  <1>3. /\ Opened(log)' = Opened(log) /\ pending \in Seq(Message) /\ Distinct(pending)
        /\ Owed = pending /\ Owed' = pending' /\ OnlyOldest'
    BY <1>1 DEF Opened, TypeOK, DiskOK, UpOwes, Unsettled, Single, Apart
  <1>4. rest \in Seq(Message) /\ Ids(rest) \subseteq Ids(pending)
    BY <1>3, WithoutType, DistinctWithout
  <1> HIDE DEF m
  <1>5. /\ <<m>> \in Seq(Message) /\ Len(<<m>>) = 1 /\ <<m>> # << >>
        /\ \A i \in 1 .. Len(<<m>>) : <<m>>[i].id = nextId + i - 1
    BY <1>2
  <1>6. 1 \in 1 .. Len(Owed') /\ Promise!InFront(1, rest)
    <2> DEFINE ms == <<m>>
    <2>1. /\ ms \in Seq(Message) /\ ms # << >> /\ Len(ms) = 1
          /\ Owed' = ms \o rest /\ nextId' = nextId + Len(ms)
          /\ \A i \in 1 .. Len(ms) : ms[i].id = nextId + i - 1
      BY <1>1, <1>3, <1>5
    <2> HIDE DEF ms
    <2>2. Len(ms) \in 1 .. Len(Owed') /\ Promise!InFront(Len(ms), rest)
      BY <1>1, <1>2, <1>3, <1>4, <2>1, InFrontOfOwed
    <2> QED BY <2>1, <2>2
  <1>7. Promise!Reissue \/ Promise!Replace
    <2>1. CASE Superseded(stage) /\ recovery.id \in Ids(pending)
      <3>1. PICK k \in DOMAIN pending : pending[k].id = recovery.id
        BY <2>1 DEF Ids
      <3>2. pending[k].text = "retry"
        BY <2>1, <3>1 DEF Superseded, Lagging, ReplayText
      <3>3. rest = [i \in 1 .. Len(pending) - 1 |->
                       IF i < k THEN pending[i] ELSE pending[i + 1]]
        BY <1>3, <2>1, <3>1, WithoutAt
      <3>4. rest = Promise!Drop(k)
        BY <1>3, <3>3 DEF Promise!Drop
      <3>5. k \in 1 .. Len(Owed) /\ Owed[k].text \in {"retry", "handoff", "continue"}
        BY <1>3, <3>1, <3>2
      <3>6. Promise!InFront(1, Promise!Drop(k))
        BY <1>6, <3>4
      <3> QED BY <3>5, <3>6 DEF Promise!Replace
    <2>2. CASE ~(Superseded(stage) /\ recovery.id \in Ids(pending))
      <3>1. rest = Owed
        BY <1>3, <2>2 DEF Without
      <3> HIDE DEF rest
      <3>2. Promise!InFront(1, Owed)
        BY <1>6, <3>1
      <3> QED BY <1>6, <3>2 DEF Promise!Reissue
    <2> QED BY <2>1, <2>2
  <1> HIDE DEF rest
  <1>8. ReplayText'
    <2> DEFINE ms == <<m>>
    <2>0. ms \in Seq(Message) /\ Len(ms) = 1 /\ ms[1] = m /\ pending' = ms \o rest
      BY <1>1, <1>5
    <2> HIDE DEF ms
    <2>1. /\ Len(rest) \in Nat /\ DOMAIN rest = 1 .. Len(rest)
          /\ DOMAIN pending' = 1 .. 1 + Len(rest)
          /\ \A i \in 1 .. 1 + Len(rest) :
                pending'[i] = IF i <= 1 THEN ms[i] ELSE rest[i - 1]
      <3>1. /\ Len(rest) \in Nat /\ DOMAIN rest = 1 .. Len(rest)
            /\ rest \in Seq(Message) /\ ms \in Seq(Message)
        BY <1>4, <2>0
      <3>2. /\ ms \o rest \in Seq(Message) /\ Len(ms \o rest) = Len(ms) + Len(rest)
            /\ \A i \in 1 .. Len(ms) + Len(rest) :
                  (ms \o rest)[i] = IF i <= Len(ms) THEN ms[i] ELSE rest[i - Len(ms)]
        BY <3>1, ConcatProperties
      <3>3. DOMAIN (ms \o rest) = 1 .. Len(ms) + Len(rest)
        BY <3>2
      <3> QED BY <2>0, <3>1, <3>2, <3>3
    <2>2. \A x \in Ids(rest) : x # nextId
      BY <1>2, <1>3, <1>4, BelowNats DEF Ledger, Bounded, Below
    <2>3. ASSUME NEW i \in DOMAIN pending', pending'[i].id = nextId, stage = "Retrying"
          PROVE  pending'[i].text = "retry"
      <3>1. CASE i <= 1
        <4>1. i = 1 /\ pending'[i] = m
          BY <2>0, <2>1, <3>1
        <4> QED BY <1>2, <2>3, <4>1
      <3>2. CASE ~(i <= 1)
        <4>1. i - 1 \in DOMAIN rest /\ pending'[i] = rest[i - 1]
          BY <2>1, <3>2
        <4>2. pending'[i].id \in Ids(rest)
          BY <4>1 DEF Ids
        <4> QED BY <2>2, <2>3, <4>2
      <3> QED BY <3>1, <3>2
    <2>4. recovery'.stage = stage /\ recovery'.id = nextId
      BY <1>1
    <2> QED BY <2>3, <2>4 DEF ReplayText
  <1>9. Reconciling'
    BY <1>1 DEF Reconciling
  <1> QED BY <1>3, <1>7, <1>8, <1>9 DEF Lagging

\* Every step of the conductor is a step of DurableSend or none.
LEMMA StepPromise ==
    ASSUME TypeOK, Shape, Ledger, Single, Lagging, [Next]_vars,
           pc \notin {"down", "reconcile"} => UpOwes,
           pc' \notin {"down", "reconcile"} => UpOwes'
    PROVE  [Promise!Next]_(Promise!vars) /\ Lagging'
  <1>1. CASE Silent \/ Loud
    <2>1. /\ UNCHANGED <<pending, nextId, sends>> /\ Opened(log)' = Opened(log)
          /\ pc' # "reconcile"
      BY <1>1, SilentStill, LoudStill, StillOpened DEF Single, Unsettled
    <2>2. recovery' = recovery \/ ~(recovery'.stage = "Retrying" /\ recovery'.words)
      <3>1. CASE Loud
        BY <3>1 DEF Loud, AttemptFails, Blocked, RefusedForContext, Refused, HearStraggler,
             HearText, HearEnd, HearError, HearStopping, Hears, CloseTurnEnd, GaveUp
      <3>2. CASE RecoverContext
        BY <3>2 DEF RecoverContext
      <3>3. CASE RecoveryEnded \/ GiveUp
        <4>1. \/ recovery' = recovery \/ recovery' = NoRecovery
              \/ \E st \in Stages : \E id :
                    recovery' = [stage |-> st, id |-> id, words |-> FALSE]
          BY <3>3 DEF RecoveryEnded, GiveUp, SaveRecovery, Stages
        <4> QED BY <4>1 DEF NoRecovery
      <3>4. CASE Silent /\ ~RecoverContext /\ ~RecoveryEnded /\ ~GiveUp
        BY <3>4 DEF Silent, LaunchOnce, Acknowledge, AttemptKept, AttemptLaunch,
             AttemptRetune, AttemptNoRung, Flush, DeliverDone, Finish, Unauthenticated,
             Failed, CompactionTimeout, ResumeRecovery, SetProviders, SetAutoremove,
             SetOther, Stop, Provider, Echo, Speak, Exit, Reap, EndTurn, FailTurn, RunnerOnly
      <3> QED BY <1>1, <3>1, <3>2, <3>3, <3>4
    <2> QED BY <2>1, <2>2, QuietPromise
  <1>2. CASE DeliverEchoed
    <2>1. UNCHANGED <<log, pending, nextId, sends, recovery>> /\ pc' = "deliver"
      BY <1>2 DEF DeliverEchoed, Delivering
    <2>2. Opened(log)' = Opened(log)
      BY <2>1 DEF Opened
    <2> QED BY <2>1, <2>2, QuietPromise
  <1>3. CASE DeliverOpening
    <2>1. /\ pc = "deliver" /\ pc' = "complete"
          /\ UNCHANGED <<pending, outbox, awaiting, nextId, sends, recovery>>
      BY <1>3 DEF DeliverOpening, Delivering
    <2>2. Opened(log)' = Opened(log) \cup {Head(outbox).id}
      <3> DEFINE immediate == Delivery[runner] = "steered" /\ open > 0
                 t == IF inTurn THEN turn ELSE turn + 1
                 e == Rec(IF inTurn THEN "INJECTED" ELSE "START", Head(outbox).id, t,
                          FALSE, IF NextTurn(immediate) THEN "next_turn" ELSE "same_turn")
      <3>1. log' = Append(log, e)
        BY <1>3 DEF DeliverOpening
      <3>2. Head(outbox).id \in Nat /\ t \in Int
        BY <1>3, MessageRead DEF DeliverOpening, Delivering, TypeOK, QueuesOK, TurnOK
      <3>3. e \in Record
        BY <3>2, RecordMade DEF Openings, Kinds
      <3>4. e.type \in Openings /\ e.id = Head(outbox).id
        BY DEF Rec, Openings
      <3> HIDE DEF e
      <3> QED BY <3>1, <3>3, <3>4, OpenedOf DEF TypeOK, DiskOK
    <2>3. Promise!Open /\ Lagging'
      BY <2>1, <2>2, OpeningPromise DEF Unsettled
    <2> QED BY <2>3 DEF Promise!Next
  <1>4. CASE HearConfirm
    <2>1. CASE awaiting # << >> /\ Head(awaiting).text = Head(inbox).text
      <3>1. /\ pc \in {"recv", "drain"} /\ pc' = "confirmed"
            /\ UNCHANGED <<pending, outbox, awaiting, nextId, sends, recovery>>
        BY <1>4, <2>1 DEF HearConfirm, Hearing, Receiving
      <3> DEFINE t == IF Head(inbox).why = "START" THEN turn + 1 ELSE turn
                 e == Rec(Head(inbox).why, Head(awaiting).id, t, FALSE, "same_turn")
      <3>2. log' = Append(log, e)
        BY <1>4, <2>1 DEF HearConfirm
      <3>3. Head(inbox).why \in Openings
        BY <1>4, HeardHead DEF HearConfirm, Hearing, Heard
      <3>4. e \in Record
        <4>1. t \in Int
          BY DEF TypeOK, TurnOK
        <4>2. Head(awaiting).id \in Nat
          BY <2>1, MessageRead DEF TypeOK, QueuesOK
        <4> QED BY <3>3, <4>1, <4>2, RecordMade DEF Openings
      <3>5. e.type \in Openings /\ e.id = Head(awaiting).id
        BY <3>3 DEF Rec
      <3> HIDE DEF e
      <3>6. Opened(log)' = Opened(log) \cup {Head(awaiting).id}
        BY <3>2, <3>4, <3>5, OpenedOf DEF TypeOK, DiskOK
      <3>7. Promise!Open /\ Lagging'
        BY <3>1, <3>6, OpeningPromise DEF Unsettled
      <3> QED BY <3>7 DEF Promise!Next
    <2>2. CASE ~(awaiting # << >> /\ Head(awaiting).text = Head(inbox).text)
      <3>1. UNCHANGED <<log, pending, nextId, sends, recovery, pc>> /\ pc # "reconcile"
        BY <1>4, <2>2 DEF HearConfirm, Hearing, Receiving
      <3>2. Opened(log)' = Opened(log)
        BY <3>1 DEF Opened
      <3> QED BY <3>1, <3>2, QuietPromise
    <2> QED BY <2>1, <2>2
  <1>5. CASE Complete \/ Confirmed
    <2>1. /\ pc \in {"complete", "confirmed"} /\ pc' \in {"deliver", "recv", "drain"}
      BY <1>5 DEF Complete, Confirmed, Back
    <2> QED BY <1>5, <2>1, RetirePromise
  <1>6. CASE CloseTurn
    <2>1. pc = "close" /\ pc' = "closeEnd"
      BY <1>6 DEF CloseTurn
    <2>2. (Promise!Reissue \/ UNCHANGED Promise!vars) /\ Lagging'
      BY <1>6, <2>1, CloseTurnPromise
    <2> QED BY <2>2 DEF Promise!Next
  <1>7. CASE Handoff \/ Continue \/ Replay
    <2>1. /\ pc \in {"handoff", "continue", "replay"} /\ pc' \in {"attempt", "flush"}
      BY <1>7 DEF Handoff, Continue, Replay, RecoveryMessage, Dispatch, DispatchPc, GoTo
    <2>2. (Promise!Reissue \/ Promise!Replace) /\ Lagging'
      BY <1>7, <2>1, RecoveryMessagePromise
         DEF Handoff, Continue, Replay, Stages, Text, Unsettled
    <2> QED BY <2>2 DEF Promise!Next
  <1>8. CASE \E w \in Words : Send(w)
    <2>1. PICK w \in Words : Send(w)
      BY <1>8
    <2>2. pc = "recv" /\ pc' = "ack"
      BY <2>1 DEF Send, Receiving
    <2>3. Promise!Accept(w) /\ Lagging'
      BY <2>1, <2>2, SendPromise
    <2> QED BY <2>3 DEF Promise!Next
  <1>9. CASE StopEnd \/ Crash
    <2>1. UNCHANGED <<pending, nextId, sends, recovery>> /\ pc' = "down"
      BY <1>9 DEF StopEnd, Crash, Cold
    <2>2. Opened(log)' = Opened(log)
      <3> DEFINE r == Rec("END", 0, turn, FALSE, "interrupted")
      <3>1. r \in Record
        BY RecordMade DEF TypeOK, TurnOK
      <3>2. r.type \notin Openings
        BY DEF Rec, Openings
      <3>3. log' \in {log, Append(log, r)}
        BY <1>9 DEF StopEnd, Crash
      <3> HIDE DEF r
      <3> QED BY <3>1, <3>2, <3>3, OpensNothing DEF Single
    <2> QED BY <2>1, <2>2, QuietPromise
  <1>10. CASE ReconcileDrop \/ ReconcileCommit \/ OpenAt
    BY <1>10, ReconcileDropPromise, ReconcileCommitPromise, OpenAtPromise
  <1>11. CASE UNCHANGED vars
    <2>1. UNCHANGED <<log, pending, nextId, sends, recovery, outbox, pc>>
      BY <1>11 DEF vars
    <2>2. Opened(log)' = Opened(log)
      BY <2>1 DEF Opened
    <2>3. Owed' = Owed /\ OnlyOldest'
      BY <2>1, <2>2, SameOwed DEF Lagging
    <2> QED BY <2>1, <2>2, <2>3 DEF Promise!vars, Lagging, Reconciling, ReplayText
  <1> QED BY <1>1, <1>2, <1>3, <1>4, <1>5, <1>6, <1>7, <1>8, <1>9, <1>10, <1>11, StepKinds

\* A session without messages owes none.
LEMMA InitPromise == Init => Promise!Init /\ Lagging
  <1> SUFFICES ASSUME Init PROVE Promise!Init /\ Lagging
    OBVIOUS
  <1>1. pending = << >> /\ log = << >> /\ pc = "down" /\ nextId = 1 /\ sends \in Nat
        /\ recovery.stage = "none"
    BY ConstantsAssumption DEF Init, NoRecovery
  <1>2. Opened(log) = {} /\ Owed = << >>
    BY <1>1 DEF Opened, Owed
  <1> QED BY <1>1, <1>2 DEF Promise!Init, Lagging, OnlyOldest, Reconciling, ReplayText

-----------------------------------------------------------------------------
(* Who has what is on the pipe: without recoveries, and if no client's     *)
(* message is handled between the death of a process and its exit event,   *)
(* messages wait for their echo only while their provider is the runner.   *)

Piped ==
    /\ stopping \/ awaiting = << >> \/ (runner # "none" /\ Delivery[runner] = "echoed")
    /\ pc \in {"attempt", "complete"} => awaiting = << >>
    /\ ~launchedOnce => pc \in {"down", "reconcile", "recv"} /\ awaiting = << >>
    /\ awaiting # << >> /\ ~stopping => inTurn \/ pc \in {"finish", "close"}
    /\ pc = "ack" => life # "dead"
    /\ stopping => pc \in {"drain", "confirmed"}
    /\ pc = "drain" => stopping

\* Steps of the thread that leave the runner alone and lead to no new one.
LEMMA PipedStays ==
    ASSUME TypeOK, Piped, UNCHANGED <<stopping, awaiting, runner, launchedOnce>>,
           inTurn' = inTurn, launchedOnce,
           pc' \notin {"ack", "attempt", "complete"}, pc' = "drain" <=> stopping,
           pc \notin {"finish", "close"}
    PROVE  Piped'
  BY DEF Piped

\* Nothing is on the pipe.
LEMMA PipedEmpty ==
    ASSUME TypeOK, Piped, awaiting' = << >>, UNCHANGED stopping,
           launchedOnce', pc' # "ack", stopping => pc' = "drain", pc' = "drain" => stopping
    PROVE  Piped'
  BY DEF Piped

\* Every step keeps it so.
LEMMA StepPiped ==
    ASSUME NoContext, "race" \notin Nature, TypeOK, Shape, Order, Unrecovered, Piped,
           [Next]_vars
    PROVE  Piped'
  <1>0. ~Recovering /\ recovery.stage = "none" /\ pc \notin RecoveryPlaces
    BY DEF Unrecovered, NoRecovery, Recovering
  <1>1. CASE LaunchOnce
    <2>1. /\ awaiting' = awaiting /\ stopping' = stopping /\ launchedOnce' = TRUE
          /\ pc' \in {"flush", "attempt"} /\ pc = "recv" /\ ~launchedOnce
      BY <1>0, <1>1 DEF LaunchOnce, GoTo, Receiving
    <2>2. ~stopping /\ awaiting = << >>
      BY <2>1 DEF Piped
    <2> QED BY <2>1, <2>2, PipedEmpty
  <1>2. CASE Acknowledge
    <2>1. /\ UNCHANGED <<awaiting, stopping, launchedOnce, runner, inTurn>> /\ pc = "ack"
          /\ pc' = IF ~Alive \/ (~inTurn /\ Stale) THEN "attempt" ELSE "flush"
      BY <1>2 DEF Acknowledge, Dispatch, DispatchPc, GoTo
    <2>2. ~stopping /\ launchedOnce /\ life # "dead"
      BY <2>1 DEF Piped
    <2>3. CASE awaiting = << >>
      BY <2>1, <2>2, <2>3, PipedEmpty
    <2>4. CASE awaiting # << >>
      <3>1. inTurn /\ Alive
        BY <2>1, <2>2, <2>4 DEF Piped, Alive
      <3> QED BY <2>1, <2>2, <3>1, PipedStays
    <2> QED BY <2>3, <2>4
  <1>3. CASE AttemptKept \/ AttemptLaunch \/ AttemptRetune \/ AttemptFails \/ AttemptNoRung
    <2>1. /\ UNCHANGED <<awaiting, stopping, launchedOnce>> /\ pc = "attempt"
          /\ pc' \in {"flush", "finish", "attempt", "blocked"}
      BY <1>3 DEF AttemptKept, AttemptLaunch, AttemptRetune, AttemptFails, AttemptNoRung,
                  GoTo, MoveOn, Shape
    <2>2. awaiting = << >> /\ ~stopping /\ launchedOnce
      BY <2>1 DEF Piped
    <2> QED BY <2>1, <2>2, PipedEmpty
  <1>4. CASE Blocked \/ Flush \/ DeliverDone
    <2>1. /\ UNCHANGED <<awaiting, stopping, launchedOnce, runner, inTurn>>
          /\ pc \in {"blocked", "flush", "deliver"}
      BY <1>4 DEF Blocked, Flush, DeliverDone
    <2>2. ~stopping /\ launchedOnce
      BY <2>1 DEF Piped
    <2>3. pc' \in {"recv", "blocked", "deliver"}
      BY <1>4, <2>2 DEF Blocked, Flush, DeliverDone, GoTo, Back
    <2> QED BY <2>1, <2>2, <2>3, PipedStays
  <1>5. CASE DeliverEchoed
    <2>1. /\ UNCHANGED <<stopping, launchedOnce, runner, pc>> /\ pc = "deliver"
          /\ Delivery[runner] = "echoed" /\ inTurn' = TRUE /\ runner # "none"
      BY <1>5 DEF DeliverEchoed, Delivering, Shape
    <2>2. ~stopping /\ launchedOnce
      BY <2>1 DEF Piped
    <2> QED BY <2>1, <2>2 DEF Piped
  <1>6. CASE DeliverOpening
    <2>1. /\ UNCHANGED <<awaiting, stopping, launchedOnce>> /\ pc = "deliver"
          /\ pc' = "complete" /\ Delivery[runner] # "echoed"
      BY <1>6 DEF DeliverOpening, Delivering
    <2>2. ~stopping /\ launchedOnce /\ awaiting = << >>
      BY <2>1 DEF Piped
    <2> QED BY <2>1, <2>2, PipedEmpty
  <1>7. CASE Complete
    <2>1. /\ UNCHANGED <<awaiting, stopping, launchedOnce>> /\ pc = "complete"
          /\ pc' = "deliver"
      BY <1>7 DEF Complete
    <2>2. ~stopping /\ launchedOnce /\ awaiting = << >>
      BY <2>1 DEF Piped
    <2> QED BY <2>1, <2>2, PipedEmpty
  <1>8. CASE \E k \in Kinds : Refused(k)
    <2>1. /\ UNCHANGED <<awaiting, stopping, launchedOnce, runner>> /\ pc = "deliver"
          /\ pc' = "close"
      BY <1>8 DEF Refused, Refusal, Delivering, Closing
    <2>2. ~stopping /\ launchedOnce
      BY <2>1 DEF Piped
    <2> QED BY <2>1, <2>2 DEF Piped
  <1>9. CASE HearStraggler \/ HearText \/ HearConfirm
    <2>1. /\ UNCHANGED <<awaiting, stopping, launchedOnce, runner, inTurn>>
          /\ \/ pc' = pc
             \/ pc' = "confirmed"
          /\ pc = "drain" \/ (pc = "recv" /\ launchedOnce)
      BY <1>9 DEF HearStraggler, HearText, HearConfirm, Hears, Hearing, Receiving
    <2>2. pc = "drain" => launchedOnce
      BY DEF Piped
    <2> QED BY <2>1, <2>2 DEF Piped
  <1>10. CASE \E type \in {"TEXT", "ERROR", "END"} : HearStopping(type)
    <2>1. UNCHANGED <<awaiting, stopping, launchedOnce, runner, pc>> /\ stopping
      BY <1>10 DEF HearStopping, Hears
    <2> QED BY <2>1 DEF Piped
  <1>11. CASE HearEnd
    <2>1. /\ UNCHANGED <<awaiting, stopping, launchedOnce, runner>> /\ ~stopping
          /\ pc' \in {"finish", "close"}
          /\ pc = "drain" \/ (pc = "recv" /\ launchedOnce)
      <3>1. UNCHANGED <<awaiting, stopping, launchedOnce, runner>> /\ ~stopping
        BY <1>11 DEF HearEnd, Hears
      <3>2. pc = "drain" \/ (pc = "recv" /\ launchedOnce)
        BY <1>11 DEF HearEnd, Hears, Hearing, Receiving
      <3>3. pc' \in {"finish", "close"}
        BY <1>0, <1>11 DEF HearEnd, GoTo, Closing, Unrecovered
      <3> QED BY <3>1, <3>2, <3>3
    <2> QED BY <2>1 DEF Piped
  <1>12. CASE HearError
    <2>1. /\ UNCHANGED <<awaiting, stopping, launchedOnce, runner, inTurn>> /\ ~stopping
          /\ pc' \in {pc, "close"}
          /\ pc = "drain" \/ (pc = "recv" /\ launchedOnce)
      BY <1>12 DEF HearError, Hears, Hearing, Receiving, Closing
    <2> QED BY <2>1 DEF Piped
  <1>13. CASE Confirmed
    <2>1. /\ UNCHANGED <<stopping, launchedOnce, runner>> /\ inTurn' = TRUE
          /\ pc = "confirmed" /\ pc' = IF stopping THEN "drain" ELSE "recv"
          /\ awaiting # << >>
      BY <1>13 DEF Confirmed, Back, Shape
    <2> QED BY <2>1 DEF Piped
  <1>14. CASE Finish
    <2>1. UNCHANGED <<awaiting, stopping, launchedOnce, runner>> /\ pc = "finish"
      BY <1>14 DEF Finish
    <2>2. ~stopping /\ launchedOnce
      BY <2>1 DEF Piped
    <2>3. nextTurns \in Nat
      BY DEF TypeOK, QueuesOK
    <2>4. \/ pc' = "recv" /\ inTurn' = TRUE
          \/ pc' \in {"attempt", "flush"} /\ awaiting = << >>
      BY <1>14, <2>2, <2>3 DEF Finish, Back
    <2> QED BY <2>1, <2>2, <2>4 DEF Piped
  <1>15. CASE CloseTurn
    <2>1. /\ UNCHANGED <<stopping, launchedOnce>> /\ pc = "close" /\ pc' = "closeEnd"
          /\ awaiting' = << >>
      BY <1>15 DEF CloseTurn
    <2>2. ~stopping /\ launchedOnce
      BY <2>1 DEF Piped
    <2> QED BY <2>1, <2>2, PipedEmpty
  <1>16. CASE CloseTurnEnd \/ Unauthenticated \/ Failed
    <2>1. UNCHANGED <<awaiting, stopping, launchedOnce>> /\ pc \in {"closeEnd", "auth", "failed"}
      BY <1>16 DEF CloseTurnEnd, Unauthenticated, Failed
    <2>2. ~stopping /\ launchedOnce /\ awaiting = << >>
      BY <2>1 DEF Piped, Order, AfterClose
    <2>3. pc' \notin {"ack", "drain"}
      BY <1>16, <2>2 DEF CloseTurnEnd, Unauthenticated, Failed, GoTo, Back, MoveOn, Shape
    <2> QED BY <2>1, <2>2, <2>3, PipedEmpty
  <1>17. CASE \/ RecoverContext \/ CompactionTimeout \/ RecoveryEnded \/ GiveUp
              \/ ResumeRecovery \/ GaveUp \/ Handoff \/ Continue \/ Replay
    BY <1>0, <1>17 DEF RecoverContext, CompactionTimeout, RecoveryEnded, GiveUp,
         ResumeRecovery, GaveUp, Handoff, Continue, Replay, RecoveryMessage, RecoveryPlaces
  <1>18. CASE RefusedForContext
    BY <1>18 DEF RefusedForContext, Refusal, NoContext, Delivering, Piped
  <1>19. CASE \/ \E S \in SUBSET Providers : SetProviders(S)
              \/ SetAutoremove \/ SetOther
    <2>1. UNCHANGED <<awaiting, stopping, launchedOnce, runner, inTurn, pc, life>>
      BY <1>19 DEF SetProviders, SetAutoremove, SetOther
    <2> QED BY <2>1 DEF Piped
  <1>20. CASE Provider
    <2>1. UNCHANGED <<awaiting, stopping, launchedOnce, runner, inTurn, pc>> /\ pc # "ack"
      BY <1>20 DEF Provider, Echo, Speak, Exit, Reap, EndTurn, FailTurn, RunnerOnly, Runs
    <2> QED BY <2>1 DEF Piped
  <1>21. CASE Stop
    <2>1. /\ stopping' = TRUE /\ pc' = "drain" /\ launchedOnce /\ launchedOnce' = launchedOnce
      BY <1>21 DEF Stop
    <2> QED BY <2>1 DEF Piped
  <1>22. CASE StopEnd \/ Crash
    <2>1. stopping' = FALSE /\ pc' = "down" /\ awaiting' = << >>
      BY <1>22 DEF StopEnd, Crash, Cold
    <2> QED BY <2>1 DEF Piped
  <1>23. CASE OpenAt \/ ReconcileDrop \/ ReconcileCommit
    <2>1. /\ UNCHANGED <<awaiting, stopping, launchedOnce, runner, inTurn>>
          /\ pc \in {"down", "reconcile"} /\ pc' \in {"reconcile", "recv"}
      BY <1>23 DEF OpenAt, ReconcileDrop, ReconcileCommit
    <2> QED BY <2>1 DEF Piped
  <1>24. CASE \E w \in Words : Send(w)
    <2>1. /\ UNCHANGED <<awaiting, stopping, launchedOnce, runner, inTurn, life>>
          /\ pc = "recv" /\ pc' = "ack" /\ life # "dead" /\ launchedOnce
      BY <1>24 DEF Send, Receiving
    <2> QED BY <2>1 DEF Piped
  <1>25. CASE UNCHANGED vars
    <2>1. UNCHANGED <<awaiting, stopping, launchedOnce, runner, inTurn, pc, life>>
      BY <1>25 DEF vars
    <2> QED BY <2>1 DEF Piped
  <1> QED BY <1>1, <1>2, <1>3, <1>4, <1>5, <1>6, <1>7, <1>8, <1>9, <1>10, <1>11, <1>12,
             <1>13, <1>14, <1>15, <1>16, <1>17, <1>18, <1>19, <1>20, <1>21, <1>22, <1>23,
             <1>24, <1>25, StepKinds DEF Silent, Loud

-----------------------------------------------------------------------------
\* The conductor implements DurableSend: messages are handed over in the order
\* in which they were accepted, once each, and no crash, restart, failover or
\* recovery loses, repeats or overtakes one.  It does so with providers that do
\* not echo, whatever happens to them; and with providers that do, if none runs
\* out of context and the exit of a process is handled before the next message.
THEOREM PromiseKept ==
    ASSUME NoEcho \/ (NoContext /\ "race" \notin Nature)
    PROVE  Spec => KeepsPromise
  <1> DEFINE Inv == TypeOK /\ Shape /\ Ledger /\ Single
             Base == Inv /\ Order /\ Alone
             UpOwed == pc \notin {"down", "reconcile"} => UpOwes
  <1>1. Base => UpOwed
    BY OwedUp
  <1>2. Base /\ Base' /\ UpOwed /\ UpOwed' /\ Lagging /\ [Next]_vars
        => [Promise!Next]_(Promise!vars) /\ Lagging'
    BY StepPromise
  <1>3. Spec => []Base
    <2>1. CASE NoEcho
      <3>1. Init => awaiting = << >>
        BY DEF Init
      <3>2. Inv /\ awaiting = << >> /\ Order /\ [Next]_vars => (awaiting = << >> /\ Order)'
        BY <2>1, StepNoEcho, StepOrder
      <3>3. awaiting = << >> => Alone
        BY DEF Alone
      <3> QED BY <3>1, <3>2, <3>3, QueueInvariant, InitOrder, PTL DEF Spec
    <2>2. CASE NoContext /\ "race" \notin Nature
      <3>1. Init => Unrecovered /\ Piped
        BY DEF Init, Unrecovered, Spared, RecoveryPlaces, Piped
      <3>2. Inv /\ Unrecovered /\ Order /\ [Next]_vars => (Unrecovered /\ Order)'
        BY <2>2, StepUnrecovered, StepOrder DEF Unrecovered, RecoveryPlaces
      <3>3. Inv /\ Order /\ Unrecovered /\ Piped /\ [Next]_vars => Piped'
        BY <2>2, StepPiped
      <3>4. Piped => Alone
        BY DEF Piped, Alone
      <3> QED BY <3>1, <3>2, <3>3, <3>4, QueueInvariant, InitOrder, PTL DEF Spec
    <2> QED BY <2>1, <2>2
  <1> HIDE DEF Base, UpOwed
  <1> QED BY <1>1, <1>2, <1>3, InitPromise, PTL DEF Spec, KeepsPromise, Promise!Spec
=============================================================================
