-------------------------- MODULE ConductorProofs --------------------------
(***************************************************************************)
(* What holds of a chat whatever happens, for any providers, any number of *)
(* messages, sessions and settings: no message that was accepted is lost,  *)
(* none is handed to a provider twice, nobody works for the chat who was   *)
(* set aside, a recovery always has something that carries it on, and the  *)
(* handoffs of a session are bounded.                                      *)
(*                                                                         *)
(* The invariant Ledger makes NoMessageLost inductive: it adds where ids   *)
(* may come from and what is true in the middle of a handler.  The actions *)
(* that only leave variables alone share three lemmas; every other action  *)
(* has one of its own.                                                     *)
(*                                                                         *)
(* The invariant Single does the same for OpenedOnce: the queues hold each *)
(* message once, memory and disk hold the same messages, and what is queued*)
(* in memory has not been opened, except between the two writes of a       *)
(* delivery and before a reopened session has been reconciled.  Fit,       *)
(* Carried and Rounds, with FirstLife, are those of the other three.       *)
(***************************************************************************)
EXTENDS ConductorTypeProofs

USE DEF disk, settings, control, queues, unanswered, turnVars, runVars, native,
        history, bounds

\* Ids are handed out in order, so a message that is somewhere has an id that
\* was handed out.
Below(q) == \A i \in Ids(q) : i < nextId

\* A replay that a recovery made up was not promised to a client.
Bounded ==
    /\ Below(pending) /\ Below(outbox) /\ Below(awaiting)
    /\ accepted \subseteq 1 .. nextId - 1
    /\ recovery.id < nextId
    /\ recovery.words => recovery.id \notin accepted

\* Between the two writes of a handler: what is about to be acknowledged is
\* in the metadata, what is about to be retired or dropped is in the log.
Midway ==
    /\ pc = "ack" => /\ outbox[Len(outbox)].id = nextId - 1
                     /\ nextId - 1 \in Ids(pending)
                     /\ recovery.id < nextId - 1
    /\ pc = "reconcile" => Ids(pending) \subseteq Ids(outbox) \cup Opened(log)
    /\ pc = "complete" => Head(outbox).id \in Opened(log)
    /\ pc = "confirmed" => Head(awaiting).id \in Opened(log)

Ledger == NoMessageLost /\ Bounded /\ Midway

\* The ids in a queue with a message at its end.
LEMMA IdsOfAppend ==
    ASSUME NEW q \in Seq(Message), NEW m \in Message
    PROVE  Ids(Append(q, m)) = Ids(q) \cup {m.id}
  <1> DEFINE s == Append(q, m)
  <1>1. /\ DOMAIN s = DOMAIN q \cup {Len(q) + 1}
        /\ \A i \in DOMAIN q : s[i] = q[i]
        /\ s[Len(q) + 1] = m
    OBVIOUS
  <1> HIDE DEF s
  <1>2. \A x : x \in Ids(s) <=> x \in Ids(q) \cup {m.id}
    BY <1>1 DEF Ids
  <1> QED BY <1>2 DEF s

\* The ids in two queues, one behind the other.
LEMMA IdsOfConcat ==
    ASSUME NEW q \in Seq(Message), NEW r \in Seq(Message)
    PROVE  Ids(q \o r) = Ids(q) \cup Ids(r)
  <1> DEFINE s == q \o r
  <1>1. /\ DOMAIN s = 1 .. Len(q) + Len(r) /\ DOMAIN q = 1 .. Len(q)
        /\ DOMAIN r = 1 .. Len(r) /\ Len(q) \in Nat /\ Len(r) \in Nat
        /\ \A i \in 1 .. Len(q) + Len(r) :
               s[i] = IF i <= Len(q) THEN q[i] ELSE r[i - Len(q)]
    BY ConcatProperties
  <1> HIDE DEF s
  <1>2. ASSUME NEW i \in DOMAIN s PROVE s[i].id \in Ids(q) \cup Ids(r)
    <2>1. CASE i <= Len(q)
      BY <1>1, <2>1 DEF Ids
    <2>2. CASE ~(i <= Len(q))
      <3>1. i - Len(q) \in DOMAIN r /\ s[i] = r[i - Len(q)]
        BY <1>1, <2>2
      <3> QED BY <3>1 DEF Ids
    <2> QED BY <2>1, <2>2
  <1>3. ASSUME NEW i \in DOMAIN q PROVE q[i].id \in Ids(s)
    BY <1>1 DEF Ids
  <1>4. ASSUME NEW i \in DOMAIN r PROVE r[i].id \in Ids(s)
    <2>1. Len(q) + i \in DOMAIN s /\ s[Len(q) + i] = r[i]
      BY <1>1
    <2> QED BY <2>1 DEF Ids
  <1>5. \A x : x \in Ids(s) <=> x \in Ids(q) \cup Ids(r)
    BY <1>2, <1>3, <1>4 DEF Ids
  <1> QED BY <1>5 DEF s

\* The ids in a queue whose oldest message is taken off.
LEMMA IdsOfHeadTail ==
    ASSUME NEW q \in Seq(Message), q # << >>
    PROVE  /\ Head(q).id \in Ids(q)
           /\ Ids(Tail(q)) \subseteq Ids(q)
           /\ Ids(q) = {Head(q).id} \cup Ids(Tail(q))
           /\ q[Len(q)].id \in Ids(q)
  <1> DEFINE t == Tail(q)
  <1>1. /\ Len(q) \in Nat \ {0} /\ DOMAIN q = 1 .. Len(q) /\ Head(q) = q[1]
        /\ DOMAIN t = 1 .. Len(q) - 1
        /\ \A i \in 1 .. Len(q) - 1 : t[i] = q[i + 1]
    BY HeadTailProperties, EmptySeq
  <1> HIDE DEF t
  <1>2. Head(q).id \in Ids(q) /\ q[Len(q)].id \in Ids(q)
    BY <1>1 DEF Ids
  <1>3. ASSUME NEW i \in DOMAIN t PROVE t[i].id \in Ids(q)
    <2>1. i + 1 \in DOMAIN q /\ t[i] = q[i + 1]
      BY <1>1
    <2> QED BY <2>1 DEF Ids
  <1>4. ASSUME NEW i \in DOMAIN q PROVE q[i].id \in {Head(q).id} \cup Ids(t)
    <2>1. CASE i = 1
      BY <1>1, <2>1
    <2>2. CASE i # 1
      <3>1. i - 1 \in DOMAIN t /\ t[i - 1] = q[i]
        BY <1>1, <2>2
      <3> QED BY <3>1 DEF Ids
    <2> QED BY <2>1, <2>2
  <1>5. \A x \in Ids(t) : x \in Ids(q)
    BY <1>3 DEF Ids
  <1>6. \A x \in Ids(q) : x \in {Head(q).id} \cup Ids(t)
    BY <1>4 DEF Ids
  <1> QED BY <1>2, <1>5, <1>6 DEF t

\* `retain' takes out the message with that id and no other.
LEMMA IdsOfWithout ==
    ASSUME NEW q \in Seq(Message), NEW id
    PROVE  /\ Ids(Without(q, id)) \subseteq Ids(q)
           /\ Ids(q) \ {id} \subseteq Ids(Without(q, id))
  <1>1. CASE id \notin Ids(q)
    BY <1>1 DEF Without
  <1>2. CASE id \in Ids(q)
    <2> DEFINE k == CHOOSE i \in DOMAIN q : q[i].id = id
               s == [i \in 1 .. Len(q) - 1 |-> IF i < k THEN q[i] ELSE q[i + 1]]
    <2>1. /\ Len(q) \in Nat /\ DOMAIN q = 1 .. Len(q)
      OBVIOUS
    <2>2. k \in 1 .. Len(q) /\ q[k].id = id
      BY <1>2, <2>1 DEF Ids
    <2>3. Without(q, id) = s
      BY <1>2 DEF Without
    <2> HIDE DEF k
    <2>4. DOMAIN s = 1 .. Len(q) - 1
      OBVIOUS
    <2>5. \A i \in 1 .. Len(q) - 1 : s[i] = IF i < k THEN q[i] ELSE q[i + 1]
      OBVIOUS
    <2> HIDE DEF s
    <2>6. ASSUME NEW i \in DOMAIN s PROVE s[i].id \in Ids(q)
      <3>1. i \in DOMAIN q /\ i + 1 \in DOMAIN q
        BY <2>1, <2>4
      <3> QED BY <2>4, <2>5, <3>1 DEF Ids
    <2>7. ASSUME NEW i \in DOMAIN q, q[i].id # id PROVE q[i].id \in Ids(s)
      <3>1. CASE i < k
        <4>1. i \in DOMAIN s /\ s[i] = q[i]
          BY <2>1, <2>2, <2>4, <2>5, <3>1
        <4> QED BY <4>1 DEF Ids
      <3>2. CASE i > k
        <4>1. i - 1 \in DOMAIN s /\ s[i - 1] = q[i]
          BY <2>1, <2>2, <2>4, <2>5, <3>2
        <4> QED BY <4>1 DEF Ids
      <3>3. i < k \/ i > k
        BY <2>1, <2>2, <2>7
      <3> QED BY <3>1, <3>2, <3>3
    <2>8. \A x \in Ids(s) : x \in Ids(q)
      BY <2>6 DEF Ids
    <2>9. \A x \in Ids(q) \ {id} : x \in Ids(s)
      BY <2>7 DEF Ids
    <2> QED BY <2>3, <2>8, <2>9
  <1> QED BY <1>1, <1>2

\* A message with an opening event keeps it; an opening event opens its message.
LEMMA OpenedGrows ==
    ASSUME NEW l \in Seq(Record), NEW r \in Record
    PROVE  /\ Opened(l) \subseteq Opened(Append(l, r))
           /\ r.type \in Openings => r.id \in Opened(Append(l, r))
  <1> DEFINE s == Append(l, r)
  <1>1. /\ DOMAIN s = DOMAIN l \cup {Len(l) + 1}
        /\ \A i \in DOMAIN l : s[i] = l[i]
        /\ s[Len(l) + 1] = r
    OBVIOUS
  <1> HIDE DEF s
  <1>2. \A x \in Opened(l) : x \in Opened(s)
    BY <1>1 DEF Opened
  <1>3. r.type \in Openings => r.id \in Opened(s)
    BY <1>1 DEF Opened
  <1> QED BY <1>2, <1>3 DEF s

\* Ids are numbers.
LEMMA BelowNats ==
    ASSUME NEW q \in Seq(Message)
    PROVE  Ids(q) \subseteq Nat
  <1>1. \A i \in DOMAIN q : q[i] \in Message
    OBVIOUS
  <1> QED BY <1>1 DEF Ids, Message

\* Steps that leave the queues alone and may add to the log.
LEMMA QuietLedger ==
    ASSUME TypeOK, Ledger,
           UNCHANGED <<pending, outbox, awaiting, recovery, nextId, accepted, withdrawn>>,
           Opened(log) \subseteq Opened(log)',
           pc' \notin {"ack", "reconcile", "complete", "confirmed"}
    PROVE  Ledger'
  <1>1. NoMessageLost'
    BY DEF Ledger, NoMessageLost
  <1>2. Bounded'
    BY DEF Ledger, Bounded, Below
  <1>3. Midway'
    BY DEF Midway
  <1> QED BY <1>1, <1>2, <1>3 DEF Ledger

\* Logging what a runner posted forgets no opening.
LEMMA LoggedHeardOpens ==
    ASSUME TypeOK, Shape, inbox # << >>, Head(inbox).type # "CONFIRM",
           NEW late \in BOOLEAN
    PROVE  Opened(log) \subseteq Opened(Recorded(late))
  <1> DEFINE r == Rec(Head(inbox).type, 0, epochTurns[Head(inbox).epoch], late,
                      Head(inbox).why)
  <1>1. r \in Record
    BY HeardRecord
  <1> HIDE DEF r
  <1>2. Recorded(late) = Append(log, r)
    BY DEF Recorded, r
  <1> QED BY <1>1, <1>2, OpenedGrows DEF TypeOK, DiskOK

\* Opening: the outbox is the queue of the metadata.
LEMMA OpenAtLedger ==
    ASSUME TypeOK, Ledger, OpenAt
    PROVE  Ledger'
  <1>1. NoMessageLost'
    BY DEF Ledger, NoMessageLost, OpenAt
  <1>2. Bounded'
    BY DEF Ledger, Bounded, Below, OpenAt
  <1>3. Midway'
    BY DEF Midway, OpenAt
  <1> QED BY <1>1, <1>2, <1>3 DEF Ledger

\* Only messages with an opening event are dropped.
LEMMA ReconcileDropLedger ==
    ASSUME TypeOK, Ledger, ReconcileDrop
    PROVE  Ledger'
  <1>1. PICK i \in DOMAIN outbox :
               outbox[i].id \in Opened(log) /\ outbox' = Without(outbox, outbox[i].id)
    BY DEF ReconcileDrop
  <1>2. /\ Ids(outbox') \subseteq Ids(outbox)
        /\ Ids(outbox) \ {outbox[i].id} \subseteq Ids(outbox')
    BY <1>1, IdsOfWithout DEF TypeOK, QueuesOK
  <1>3. pc = "reconcile" /\ UNCHANGED <<pending, awaiting, log, recovery, nextId,
                                        accepted, withdrawn, pc>>
    BY DEF ReconcileDrop
  <1>4. NoMessageLost'
    BY <1>3 DEF Ledger, NoMessageLost
  <1>5. Bounded'
    BY <1>2, <1>3 DEF Ledger, Bounded, Below
  <1>6. Midway'
    BY <1>1, <1>2, <1>3 DEF Ledger, Midway
  <1> QED BY <1>4, <1>5, <1>6 DEF Ledger

\* What is left covers every message that was not opened.
LEMMA ReconcileCommitLedger ==
    ASSUME TypeOK, Ledger, ReconcileCommit
    PROVE  Ledger'
  <1>1. Ids(pending) \subseteq Ids(outbox) \cup Opened(log)
    BY DEF Ledger, Midway, ReconcileCommit
  <1>2. NoMessageLost'
    BY <1>1 DEF Ledger, NoMessageLost, ReconcileCommit
  <1>3. Bounded'
    BY DEF Ledger, Bounded, Below, ReconcileCommit
  <1>4. Midway'
    BY DEF Midway, ReconcileCommit
  <1> QED BY <1>2, <1>3, <1>4 DEF Ledger

\* A message is written to the metadata before anything else is done with it.
LEMMA SendLedger ==
    ASSUME TypeOK, Ledger, NEW w \in Words, Send(w)
    PROVE  Ledger'
  <1> DEFINE m == [id |-> nextId, text |-> w]
  <1>1. m \in Message /\ m.id = nextId /\ nextId \in Nat
    BY DEF TypeOK, HistoryOK, Message, Text
  <1>2. pending' = Append(pending, m) /\ outbox' = Append(outbox, m)
    BY DEF Send
  <1> HIDE DEF m
  <1>3. /\ Ids(pending') = Ids(pending) \cup {nextId}
        /\ Ids(outbox') = Ids(outbox) \cup {nextId}
    BY <1>1, <1>2, IdsOfAppend DEF TypeOK, DiskOK, QueuesOK
  <1>4. outbox'[Len(outbox')].id = nextId
    BY <1>1, <1>2, AppendProperties DEF TypeOK, QueuesOK
  <1>5. /\ nextId' = nextId + 1 /\ pc' = "ack"
        /\ UNCHANGED <<awaiting, log, recovery, accepted, withdrawn>>
    BY DEF Send
  <1>6. NoMessageLost'
    BY <1>1, <1>3, <1>5 DEF Ledger, NoMessageLost
  <1>7. Bounded'
    <2>1. Below(pending)' /\ Below(outbox)' /\ Below(awaiting)'
      <3>1. \A x \in Ids(pending) \cup Ids(outbox) \cup Ids(awaiting) :
                x \in Nat /\ x < nextId
        BY BelowNats DEF Ledger, Bounded, Below, TypeOK, DiskOK, QueuesOK
      <3>2. \A x \in Ids(pending) \cup Ids(outbox) \cup Ids(awaiting) \cup {nextId} :
                x < nextId'
        BY <1>1, <1>5, <3>1
      <3> QED BY <1>3, <1>5, <3>2 DEF Below
    <2>2. recovery.id \in Nat
      BY DEF TypeOK, DiskOK, Recovery
    <2> QED BY <1>1, <1>5, <2>1, <2>2 DEF Ledger, Bounded
  <1>8. Midway'
    <2>1. recovery.id < nextId
      BY DEF Ledger, Bounded
    <2> QED BY <1>1, <1>3, <1>4, <1>5, <2>1 DEF Midway
  <1> QED BY <1>6, <1>7, <1>8 DEF Ledger

\* The client is told about a message that is in the metadata.
LEMMA AcknowledgeLedger ==
    ASSUME TypeOK, Shape, Ledger, Acknowledge
    PROVE  Ledger'
  <1>1. /\ outbox[Len(outbox)].id = nextId - 1
        /\ nextId - 1 \in Ids(pending)
        /\ recovery.id < nextId - 1
    BY DEF Ledger, Midway, Acknowledge
  <1>2. /\ accepted' = accepted \cup {nextId - 1}
        /\ pc' \in {"attempt", "flush"}
        /\ UNCHANGED <<pending, outbox, awaiting, log, recovery, nextId, withdrawn>>
    BY <1>1 DEF Acknowledge, Dispatch, DispatchPc, GoTo
  <1>3. nextId \in Nat /\ recovery.id \in Nat
    BY DEF TypeOK, HistoryOK, DiskOK, Recovery
  <1>4. NoMessageLost'
    BY <1>1, <1>2 DEF Ledger, NoMessageLost
  <1>5. Bounded'
    <2>1. Below(pending)' /\ Below(outbox)' /\ Below(awaiting)'
      BY <1>2 DEF Ledger, Bounded, Below
    <2>2. accepted' \subseteq 1 .. nextId' - 1
      BY <1>1, <1>2, <1>3 DEF Ledger, Bounded
    <2>3. recovery'.words => recovery'.id \notin accepted'
      BY <1>1, <1>2, <1>3 DEF Ledger, Bounded
    <2> QED BY <1>2, <2>1, <2>2, <2>3 DEF Ledger, Bounded
  <1>6. Midway'
    BY <1>2 DEF Midway
  <1> QED BY <1>4, <1>5, <1>6 DEF Ledger

\* A message written to a pipe stays in the metadata.
LEMMA DeliverEchoedLedger ==
    ASSUME TypeOK, Ledger, DeliverEchoed
    PROVE  Ledger'
  <1>1. outbox # << >> /\ outbox \in Seq(Message) /\ awaiting \in Seq(Message)
    BY DEF DeliverEchoed, Delivering, TypeOK, QueuesOK
  <1>2. Head(outbox) \in Message
    BY <1>1
  <1>3. /\ Ids(awaiting') = Ids(awaiting) \cup {Head(outbox).id}
        /\ Ids(outbox') \subseteq Ids(outbox) /\ Head(outbox).id \in Ids(outbox)
    BY <1>1, <1>2, IdsOfAppend, IdsOfHeadTail DEF DeliverEchoed
  <1>4. /\ UNCHANGED <<pending, log, recovery, nextId, accepted, withdrawn>>
        /\ pc' = "deliver"
    BY DEF DeliverEchoed, Delivering
  <1>5. NoMessageLost'
    BY <1>4 DEF Ledger, NoMessageLost
  <1>6. Bounded'
    BY <1>3, <1>4 DEF Ledger, Bounded, Below
  <1>7. Midway'
    BY <1>4 DEF Midway
  <1> QED BY <1>5, <1>6, <1>7 DEF Ledger

\* The opening event is recorded first ...
LEMMA DeliverOpeningLedger ==
    ASSUME TypeOK, Shape, Ledger, DeliverOpening
    PROVE  Ledger'
  <1> DEFINE immediate == Delivery[runner] = "steered" /\ open > 0
             next == NextTurn(immediate)
             t == IF inTurn THEN turn ELSE turn + 1
             r == Rec(IF inTurn THEN "INJECTED" ELSE "START", Head(outbox).id, t,
                      FALSE, IF next THEN "next_turn" ELSE "same_turn")
  <1>1. log' = Append(log, r)
    BY DEF DeliverOpening
  <1>2. r \in Record
    <2>1. Head(outbox).id \in Nat
      BY MessageRead DEF TypeOK, QueuesOK, DeliverOpening, Delivering
    <2>2. t \in Int
      BY DEF TypeOK, TurnOK
    <2> QED BY <2>1, <2>2, RecordMade DEF Openings, Kinds
  <1>3. r.type \in Openings /\ r.id = Head(outbox).id
    BY DEF Rec, Openings
  <1> HIDE DEF r
  <1>4. Opened(log) \subseteq Opened(log') /\ Head(outbox).id \in Opened(log')
    BY <1>1, <1>2, <1>3, OpenedGrows DEF TypeOK, DiskOK
  <1>5. /\ UNCHANGED <<pending, outbox, awaiting, recovery, nextId, accepted, withdrawn>>
        /\ pc' = "complete"
    BY DEF DeliverOpening
  <1>6. NoMessageLost'
    BY <1>4, <1>5 DEF Ledger, NoMessageLost
  <1>7. Bounded'
    BY <1>5 DEF Ledger, Bounded, Below
  <1>8. Midway'
    BY <1>4, <1>5 DEF Midway
  <1> QED BY <1>6, <1>7, <1>8 DEF Ledger

\* ... and only then is the message retired.
LEMMA CompleteLedger ==
    ASSUME TypeOK, Shape, Ledger, Complete
    PROVE  Ledger'
  <1>1. outbox # << >> /\ Head(outbox).id \in Opened(log)
    BY DEF Shape, Ledger, Midway, Complete
  <1>2. /\ Ids(pending') \subseteq Ids(pending)
        /\ Ids(pending) \ {Head(outbox).id} \subseteq Ids(pending')
    BY IdsOfWithout DEF Complete, TypeOK, DiskOK
  <1>3. Ids(outbox') \subseteq Ids(outbox)
    BY <1>1, IdsOfHeadTail DEF Complete, TypeOK, QueuesOK
  <1>4. /\ UNCHANGED <<log, awaiting, recovery, nextId, accepted, withdrawn>>
        /\ pc' = "deliver"
    BY DEF Complete
  <1>5. NoMessageLost'
    BY <1>1, <1>2, <1>4 DEF Ledger, NoMessageLost
  <1>6. Bounded'
    BY <1>2, <1>3, <1>4 DEF Ledger, Bounded, Below
  <1>7. Midway'
    BY <1>4 DEF Midway
  <1> QED BY <1>5, <1>6, <1>7 DEF Ledger

\* The same two steps for an echoed message: its opening event ...
LEMMA HearConfirmLedger ==
    ASSUME TypeOK, Shape, Ledger, HearConfirm
    PROVE  Ledger'
  <1>1. CASE awaiting # << >> /\ Head(awaiting).text = Head(inbox).text
    <2> DEFINE t == IF Head(inbox).why = "START" THEN turn + 1 ELSE turn
               r == Rec(Head(inbox).why, Head(awaiting).id, t, FALSE, "same_turn")
    <2>1. log' = Append(log, r) /\ pc' = "confirmed"
      BY <1>1 DEF HearConfirm
    <2>2. Head(inbox).why \in Openings
      BY HeardHead DEF HearConfirm, Hearing, Heard
    <2>3. t \in Int
      BY DEF TypeOK, TurnOK
    <2>4. Head(awaiting).id \in Nat
      BY <1>1, MessageRead DEF TypeOK, QueuesOK
    <2>5. r \in Record /\ r.type \in Openings /\ r.id = Head(awaiting).id
      <3>1. r \in Record
        BY <2>2, <2>3, <2>4, RecordMade DEF Openings
      <3> QED BY <2>2, <3>1 DEF Rec
    <2> HIDE DEF r
    <2>6. Opened(log) \subseteq Opened(log') /\ Head(awaiting).id \in Opened(log')
      BY <2>1, <2>5, OpenedGrows DEF TypeOK, DiskOK
    <2>7. UNCHANGED <<pending, outbox, awaiting, recovery, nextId, accepted, withdrawn>>
      BY DEF HearConfirm
    <2>8. NoMessageLost'
      BY <2>6, <2>7 DEF Ledger, NoMessageLost
    <2>9. Bounded'
      BY <2>7 DEF Ledger, Bounded, Below
    <2>10. Midway'
      BY <2>1, <2>6, <2>7 DEF Midway
    <2> QED BY <2>8, <2>9, <2>10 DEF Ledger
  <1>2. CASE ~(awaiting # << >> /\ Head(awaiting).text = Head(inbox).text)
    <2>1. UNCHANGED <<log, pc, pending, outbox, awaiting, recovery, nextId, accepted,
                      withdrawn>>
      BY <1>2 DEF HearConfirm
    <2>2. pc \in {"recv", "drain"}
      BY DEF HearConfirm, Hearing, Receiving
    <2> QED BY <2>1, <2>2, QuietLedger
  <1> QED BY <1>1, <1>2

\* ... and its retirement.
LEMMA ConfirmedLedger ==
    ASSUME TypeOK, Shape, Ledger, Confirmed
    PROVE  Ledger'
  <1>1. awaiting # << >> /\ Head(awaiting).id \in Opened(log)
    BY DEF Shape, Ledger, Midway, Confirmed
  <1>2. /\ Ids(pending') \subseteq Ids(pending)
        /\ Ids(pending) \ {Head(awaiting).id} \subseteq Ids(pending')
    BY IdsOfWithout DEF Confirmed, TypeOK, DiskOK
  <1>3. Ids(awaiting') \subseteq Ids(awaiting)
    BY <1>1, IdsOfHeadTail DEF Confirmed, TypeOK, QueuesOK
  <1>4. /\ UNCHANGED <<log, outbox, recovery, nextId, accepted, withdrawn>>
        /\ pc' \in {"recv", "drain"}
    BY DEF Confirmed, Back
  <1>5. NoMessageLost'
    BY <1>1, <1>2, <1>4 DEF Ledger, NoMessageLost
  <1>6. Bounded'
    BY <1>2, <1>3, <1>4 DEF Ledger, Bounded, Below
  <1>7. Midway'
    BY <1>4 DEF Midway
  <1> QED BY <1>5, <1>6, <1>7 DEF Ledger

\* Unconfirmed messages are queued again, retried ones get new ids.
LEMMA CloseTurnLedger ==
    ASSUME TypeOK, Shape, Ledger, CloseTurn
    PROVE  Ledger'
  <1> DEFINE texts == IF Retries THEN answering \o later ELSE << >>
             again == [i \in 1 .. Len(texts) |->
                          [id |-> nextId + i - 1, text |-> texts[i]]]
  <1>1. texts \in Seq(Text)
    BY EmptyTypes, ConcatProperties DEF TypeOK, QueuesOK
  <1>2. /\ pending' = again \o pending
        /\ outbox' = again \o (awaiting \o outbox)
        /\ nextId' = nextId + Len(texts)
        /\ awaiting' = << >>
    BY DEF CloseTurn, InFront, Requeue
  <1> HIDE DEF texts
  <1>3. nextId \in Nat /\ Len(texts) \in Nat /\ \A i \in 1 .. Len(texts) : texts[i] \in Text
    BY <1>1 DEF TypeOK, HistoryOK
  <1>4. again \in Seq(Message)
    <2>1. \A i \in 1 .. Len(texts) : [id |-> nextId + i - 1, text |-> texts[i]] \in Message
      BY <1>3 DEF TypeOK, HistoryOK, Message
    <2> QED BY <1>3, <2>1, IsASeq
  <1>5. /\ DOMAIN again = 1 .. Len(texts)
        /\ \A i \in 1 .. Len(texts) : again[i].id = nextId + i - 1
    OBVIOUS
  <1> HIDE DEF again
  <1>6. Ids(again) = nextId .. nextId' - 1
    <2>1. \A i \in DOMAIN again : again[i].id \in nextId .. nextId' - 1
      BY <1>2, <1>3, <1>5
    <2>2. ASSUME NEW x \in nextId .. nextId' - 1 PROVE x \in Ids(again)
      <3>1. x - nextId + 1 \in DOMAIN again /\ again[x - nextId + 1].id = x
        BY <1>2, <1>3, <1>5
      <3> QED BY <3>1 DEF Ids
    <2>3. \A x \in Ids(again) : x \in nextId .. nextId' - 1
      BY <2>1 DEF Ids
    <2> QED BY <2>2, <2>3
  <1>7. /\ Ids(pending') = Ids(again) \cup Ids(pending)
        /\ Ids(outbox') = Ids(again) \cup (Ids(awaiting) \cup Ids(outbox))
        /\ Ids(awaiting') = {}
    <2>1. Ids(awaiting') = {}
      BY <1>2 DEF Ids
    <2>2. awaiting \o outbox \in Seq(Message)
      BY ConcatProperties DEF TypeOK, QueuesOK
    <2>3. Ids(awaiting \o outbox) = Ids(awaiting) \cup Ids(outbox)
      BY IdsOfConcat DEF TypeOK, QueuesOK
    <2>4. Ids(outbox') = Ids(again) \cup Ids(awaiting \o outbox)
      BY <1>2, <1>4, <2>2, IdsOfConcat
    <2>5. Ids(pending') = Ids(again) \cup Ids(pending)
      BY <1>2, <1>4, IdsOfConcat DEF TypeOK, DiskOK
    <2> QED BY <2>1, <2>3, <2>4, <2>5
  <1>8. /\ UNCHANGED <<log, recovery, accepted, withdrawn>>
        /\ pc' = "closeEnd"
    BY DEF CloseTurn
  <1>9. NoMessageLost'
    <2>1. \A id \in 1 .. nextId' - 1 : id \in 1 .. nextId - 1 \/ id \in Ids(again)
      BY <1>2, <1>3, <1>6
    <2> QED BY <1>7, <1>8, <2>1 DEF Ledger, NoMessageLost
  <1>10. Bounded'
    <2>1. \A x \in Ids(pending) \cup Ids(outbox) \cup Ids(awaiting) : x \in Nat /\ x < nextId
      BY BelowNats DEF Ledger, Bounded, Below, TypeOK, DiskOK, QueuesOK
    <2>2. \A x \in Ids(pending) \cup Ids(outbox) \cup Ids(awaiting) \cup Ids(again) : x < nextId'
      BY <1>2, <1>3, <1>6, <2>1
    <2>3. Below(pending)' /\ Below(outbox)' /\ Below(awaiting)'
      BY <1>7, <2>2 DEF Below
    <2>4. recovery.id \in Nat
      BY DEF TypeOK, DiskOK, Recovery
    <2>5. accepted' \subseteq 1 .. nextId' - 1 /\ recovery'.id < nextId'
      BY <1>2, <1>3, <1>8, <2>4 DEF Ledger, Bounded
    <2> QED BY <1>8, <2>3, <2>5 DEF Ledger, Bounded
  <1>11. Midway'
    BY <1>8 DEF Midway
  <1> QED BY <1>9, <1>10, <1>11 DEF Ledger

\* Steps that only change the recovery.
LEMMA RecoveryLedger ==
    ASSUME TypeOK, Ledger,
           UNCHANGED <<pending, outbox, awaiting, log, nextId, accepted, withdrawn>>,
           recovery'.id < nextId,
           recovery'.words => recovery'.id \notin accepted,
           pc' \notin {"ack", "reconcile", "complete", "confirmed"}
    PROVE  Ledger'
  <1>1. NoMessageLost'
    BY DEF Ledger, NoMessageLost
  <1>2. Bounded'
    BY DEF Ledger, Bounded, Below
  <1>3. Midway'
    BY DEF Midway
  <1> QED BY <1>1, <1>2, <1>3 DEF Ledger

\* A recovery starts without a message.
LEMMA RecoverContextLedger ==
    ASSUME TypeOK, Ledger, RecoverContext
    PROVE  Ledger'
  <1>1. recovery'.id = 0
    BY DEF RecoverContext
  <1>2. 0 < nextId /\ 0 \notin accepted
    BY DEF TypeOK, HistoryOK, Ledger, Bounded
  <1>3. pc' \in {"recv", "drain", "close"}
    BY DEF RecoverContext, Back, StartHandoff, Closing
  <1>4. UNCHANGED <<pending, outbox, awaiting, log, nextId, accepted, withdrawn>>
    BY DEF RecoverContext
  <1> QED BY <1>1, <1>2, <1>3, <1>4, RecoveryLedger

\* ... and ends without one.
LEMMA GiveUpLedger ==
    ASSUME TypeOK, Ledger, GiveUp
    PROVE  Ledger'
  <1>1. recovery'.id = 0 /\ recovery'.words = FALSE /\ pc' = "gaveUp"
    BY DEF GiveUp, SaveRecovery, NoRecovery
  <1>2. 0 < nextId
    BY DEF TypeOK, HistoryOK
  <1>3. UNCHANGED <<pending, outbox, awaiting, log, nextId, accepted, withdrawn>>
    BY DEF GiveUp
  <1> QED BY <1>1, <1>2, <1>3, RecoveryLedger

\* ... or waits for a message that is queued.
LEMMA RecoveryEndedLedger ==
    ASSUME TypeOK, Ledger, RecoveryEnded
    PROVE  Ledger'
  <1> DEFINE Waiting(s) == [stage |-> s, id |-> Head(outbox).id, words |-> FALSE]
  <1>1. \/ UNCHANGED recovery
        \/ recovery' = NoRecovery
        \/ outbox # << >> /\ recovery' = Waiting("Retrying")
        \/ outbox # << >> /\ recovery' = Waiting("Resuming")
    BY DEF RecoveryEnded, SaveRecovery
  <1>2. outbox # << >> => Head(outbox).id < nextId
    BY IdsOfHeadTail DEF TypeOK, QueuesOK, Ledger, Bounded, Below
  <1>3. 0 < nextId
    BY DEF TypeOK, HistoryOK
  <1>4. recovery'.id < nextId /\ (recovery'.words => recovery'.id \notin accepted)
    BY <1>1, <1>2, <1>3 DEF NoRecovery, Ledger, Bounded
  <1>5. pc' \in {"close", "replay", "finish", "attempt", "flush"}
    BY DEF RecoveryEnded, StartHandoff, Closing, GoTo, Dispatch, DispatchPc
  <1>6. UNCHANGED <<pending, outbox, awaiting, log, nextId, accepted, withdrawn>>
    BY DEF RecoveryEnded
  <1> QED BY <1>4, <1>5, <1>6, RecoveryLedger

\* ... or for one it makes up; a replay is superseded, never an accepted message.
LEMMA RecoveryMessageLedger ==
    ASSUME TypeOK, Ledger, NEW place, NEW stage \in Stages, NEW text \in Text,
           NEW fresh \in BOOLEAN, RecoveryMessage(place, stage, text, fresh)
    PROVE  Ledger'
  <1> DEFINE m == [id |-> nextId, text |-> text]
             Kept(q) == IF Superseded(stage) THEN Without(q, recovery.id) ELSE q
  <1>1. /\ pending' = <<m>> \o Kept(pending) /\ outbox' = <<m>> \o Kept(outbox)
        /\ awaiting' = Kept(awaiting)
        /\ withdrawn' = IF Superseded(stage) THEN withdrawn \cup {recovery.id}
                        ELSE withdrawn
        /\ recovery' = [stage |-> stage, id |-> nextId, words |-> stage = "Retrying"]
        /\ nextId' = nextId + 1 /\ pc' \in {"attempt", "flush"}
        /\ UNCHANGED <<log, accepted>>
    BY DEF RecoveryMessage, InFront, Dispatch, DispatchPc, GoTo
  <1>2. nextId \in Nat \ {0} /\ m \in Message /\ m.id = nextId
    BY DEF TypeOK, HistoryOK, Message
  <1> HIDE DEF m
  <1>3. ASSUME NEW q \in Seq(Message)
        PROVE  /\ Kept(q) \in Seq(Message) /\ Ids(Kept(q)) \subseteq Ids(q)
               /\ Ids(q) \subseteq Ids(Kept(q)) \cup
                                   (IF Superseded(stage) THEN {recovery.id} ELSE {})
    BY WithoutType, IdsOfWithout
  <1> HIDE DEF Kept
  <1>4. <<m>> \in Seq(Message) /\ Ids(<<m>>) = {nextId}
    <2>1. DOMAIN <<m>> = {1} /\ <<m>>[1] = m
      OBVIOUS
    <2> QED BY <1>2, <2>1 DEF Ids
  <1>5. /\ Ids(pending') = {nextId} \cup Ids(Kept(pending))
        /\ Ids(outbox') = {nextId} \cup Ids(Kept(outbox))
    BY <1>1, <1>3, <1>4, IdsOfConcat DEF TypeOK, DiskOK, QueuesOK
  <1>6. Superseded(stage) => recovery.id \notin accepted
    BY DEF Superseded, Ledger, Bounded
  <1>7. NoMessageLost'
    <2>1. Ids(pending) \subseteq Ids(pending') \cup
                                 (IF Superseded(stage) THEN {recovery.id} ELSE {})
      BY <1>3, <1>5 DEF TypeOK, DiskOK
    <2>2. \A id \in 1 .. nextId' - 1 : id \in 1 .. nextId - 1 \/ id = nextId
      BY <1>1, <1>2
    <2>3. withdrawn \subseteq withdrawn' /\ (Superseded(stage) => recovery.id \in withdrawn')
      BY <1>1
    <2>4. \A id \in 1 .. nextId' - 1 : id \in Ids(pending') \cup Opened(log') \cup withdrawn'
      BY <1>1, <1>5, <2>1, <2>2, <2>3 DEF Ledger, NoMessageLost
    <2>5. \A id \in accepted' : id \in Ids(pending') \cup Opened(log')
      BY <1>1, <1>6, <2>1 DEF Ledger, NoMessageLost
    <2> QED BY <2>4, <2>5 DEF NoMessageLost
  <1>8. Bounded'
    <2>1. \A x \in Ids(pending) \cup Ids(outbox) \cup Ids(awaiting) : x \in Nat /\ x < nextId
      BY BelowNats DEF Ledger, Bounded, Below, TypeOK, DiskOK, QueuesOK
    <2>2. \A x \in Ids(pending) \cup Ids(outbox) \cup Ids(awaiting) \cup {nextId} : x < nextId'
      BY <1>1, <1>2, <2>1
    <2>3. Below(pending)' /\ Below(outbox)' /\ Below(awaiting)'
      BY <1>1, <1>3, <1>5, <2>2 DEF Below, TypeOK, DiskOK, QueuesOK
    <2>4. accepted \subseteq 1 .. nextId - 1
      BY DEF Ledger, Bounded
    <2>5. accepted' \subseteq 1 .. nextId' - 1 /\ nextId \notin accepted'
      BY <1>1, <1>2, <2>4
    <2>6. recovery'.id = nextId /\ nextId < nextId'
      BY <1>1, <1>2
    <2> QED BY <2>3, <2>5, <2>6 DEF Bounded
  <1>9. Midway'
    BY <1>1 DEF Midway
  <1> QED BY <1>7, <1>8, <1>9 DEF Ledger

\* A crash loses the queues in memory only.
LEMMA ColdLedger ==
    ASSUME TypeOK, Ledger, Cold, Opened(log) \subseteq Opened(log)',
           UNCHANGED <<pending, recovery, nextId, accepted, withdrawn>>
    PROVE  Ledger'
  <1>1. outbox' = << >> /\ awaiting' = << >> /\ pc' = "down"
    BY DEF Cold
  <1>2. NoMessageLost'
    BY DEF Ledger, NoMessageLost
  <1>3. Below(outbox)' /\ Below(awaiting)' /\ Below(pending)'
    BY <1>1 DEF Ledger, Bounded, Below, Ids
  <1>4. Bounded'
    BY <1>3 DEF Ledger, Bounded
  <1>5. Midway'
    BY <1>1 DEF Midway
  <1> QED BY <1>2, <1>4, <1>5 DEF Ledger

\* The END made up on a stop opens nothing.
LEMMA StopEndLedger ==
    ASSUME TypeOK, Ledger, StopEnd
    PROVE  Ledger'
  <1>1. Rec("END", 0, turn, FALSE, "interrupted") \in Record
    BY RecordMade DEF TypeOK, TurnOK
  <1>2. Opened(log) \subseteq Opened(Append(log, Rec("END", 0, turn, FALSE, "interrupted")))
    BY <1>1, OpenedGrows DEF TypeOK, DiskOK
  <1>3. Opened(log) \subseteq Opened(log)'
    BY <1>2 DEF StopEnd
  <1> QED BY <1>3, ColdLedger DEF StopEnd

\* Nothing is owed at first.
LEMMA InitLedger == Init => Ledger
  <1> SUFFICES ASSUME Init PROVE Ledger
    OBVIOUS
  <1>1. Ids(pending) = {} /\ Ids(outbox) = {} /\ Ids(awaiting) = {}
    BY DEF Init, Ids
  <1>2. NoMessageLost
    BY DEF Init, NoMessageLost
  <1>3. Bounded
    BY <1>1 DEF Init, Bounded, Below, NoRecovery
  <1>4. Midway
    BY DEF Init, Midway
  <1> QED BY <1>2, <1>3, <1>4 DEF Ledger

\* Steps that touch neither the queues nor the log.
LEMMA SilentLedger ==
    ASSUME TypeOK, Shape, Ledger,
           \/ LaunchOnce \/ AttemptKept \/ AttemptLaunch \/ AttemptRetune
           \/ AttemptNoRung \/ Flush \/ DeliverDone \/ Finish \/ Unauthenticated
           \/ Failed \/ CompactionTimeout \/ ResumeRecovery
           \/ \E S \in SUBSET Providers : SetProviders(S)
           \/ SetAutoremove \/ SetOther \/ Stop \/ Provider
    PROVE  Ledger'
  <1>1. UNCHANGED <<log, pending, outbox, awaiting, recovery, nextId, accepted, withdrawn>>
    BY DEF LaunchOnce, AttemptKept, AttemptLaunch, AttemptRetune, AttemptNoRung, Flush,
         DeliverDone, Finish, Unauthenticated, Failed, CompactionTimeout,
         ResumeRecovery, SetProviders, SetAutoremove, SetOther, Stop, Provider, Echo,
         Speak, Exit, Reap, EndTurn, FailTurn, RunnerOnly
  <1>2. CASE LaunchOnce \/ AttemptNoRung \/ Flush \/ DeliverDone \/ Finish
    BY <1>1, <1>2, QuietLedger
       DEF LaunchOnce, AttemptNoRung, Flush, DeliverDone, Finish, GoTo, Back
  <1>3. CASE AttemptKept \/ AttemptLaunch \/ AttemptRetune
    BY <1>1, <1>3, QuietLedger DEF AttemptKept, AttemptLaunch, AttemptRetune, Shape
  <1>4. CASE Unauthenticated \/ Failed \/ CompactionTimeout \/ ResumeRecovery
    BY <1>1, <1>4, QuietLedger
       DEF Unauthenticated, Failed, CompactionTimeout, ResumeRecovery, GoTo, Back,
           MoveOn, StartHandoff, Closing
  <1>5. CASE \/ \E S \in SUBSET Providers : SetProviders(S)
             \/ SetAutoremove \/ SetOther \/ Stop
    BY <1>1, <1>5, QuietLedger DEF SetProviders, SetAutoremove, SetOther, Stop, Receiving
  <1>6. CASE Provider
    BY <1>1, <1>6, QuietLedger
       DEF Provider, Echo, Speak, Exit, Reap, EndTurn, FailTurn, RunnerOnly, Runs
  <1> QED BY <1>2, <1>3, <1>4, <1>5, <1>6

\* Steps that add errors, texts and ENDs to the log.
LEMMA LoudLedger ==
    ASSUME TypeOK, Shape, Ledger,
           \/ AttemptFails \/ Blocked \/ RefusedForContext
           \/ \E k \in Kinds : Refused(k)
           \/ HearStraggler \/ HearText \/ HearEnd \/ HearError
           \/ \E type \in {"TEXT", "ERROR", "END"} : HearStopping(type)
           \/ CloseTurnEnd \/ GaveUp
    PROVE  Ledger'
  <1>1. UNCHANGED <<pending, outbox, awaiting, recovery, nextId, accepted, withdrawn>>
    BY DEF AttemptFails, Blocked, RefusedForContext, Refused, HearStraggler, HearText,
         HearEnd, HearError, HearStopping, Hears, CloseTurnEnd, GaveUp
  <1>2. ASSUME NEW k \in Kinds
        PROVE  Opened(log) \subseteq Opened(Append(log, Rec("ERROR", 0, turn, FALSE, k)))
    <2>1. Rec("ERROR", 0, turn, FALSE, k) \in Record
      BY RecordMade DEF TypeOK, TurnOK
    <2> QED BY <2>1, OpenedGrows DEF TypeOK, DiskOK
  <1>3. Opened(log) \subseteq Opened(Append(log, Rec("END", 0, turn, FALSE, "none")))
    <2>1. Rec("END", 0, turn, FALSE, "none") \in Record
      BY RecordMade DEF TypeOK, TurnOK
    <2> QED BY <2>1, OpenedGrows DEF TypeOK, DiskOK
  <1>4. CASE AttemptFails \/ Blocked \/ RefusedForContext \/ GaveUp
    <2>1. Opened(log) \subseteq Opened(log)'
      BY <1>2, <1>4 DEF AttemptFails, Blocked, RefusedForContext, GaveUp, Kinds
    <2>2. pc' \notin {"ack", "reconcile", "complete", "confirmed"}
      BY <1>4 DEF AttemptFails, Blocked, RefusedForContext, GaveUp, GoTo, Back, MoveOn
    <2> QED BY <1>1, <2>1, <2>2, QuietLedger
  <1>5. CASE \E k \in Kinds : Refused(k)
    <2>1. Opened(log) \subseteq Opened(log)'
      BY <1>2, <1>5 DEF Refused
    <2>2. pc' = "close"
      BY <1>5 DEF Refused, Closing
    <2> QED BY <1>1, <2>1, <2>2, QuietLedger
  <1>6. CASE HearStraggler
    <2>1. Opened(log) \subseteq Opened(log)'
      BY <1>6, LoggedHeardOpens DEF HearStraggler, Hearing
    <2>2. pc' \in {"recv", "drain"}
      BY <1>6 DEF HearStraggler, Hearing, Receiving
    <2> QED BY <1>1, <2>1, <2>2, QuietLedger
  <1>7. CASE \/ HearText \/ HearEnd \/ HearError
             \/ \E type \in {"TEXT", "ERROR", "END"} : HearStopping(type)
    <2>1. Opened(log) \subseteq Opened(log)'
      BY <1>7, LoggedHeardOpens
         DEF HearText, HearEnd, HearError, HearStopping, Hears, Hearing
    <2>2. pc' \in {"recv", "drain", "recoveryEnded", "recover", "close", "finish"}
      BY <1>7 DEF HearText, HearEnd, HearError, HearStopping, Hears, Hearing,
                  Receiving, GoTo, Closing
    <2> QED BY <1>1, <2>1, <2>2, QuietLedger
  <1>8. CASE CloseTurnEnd
    <2>1. Opened(log) \subseteq Opened(log)'
      BY <1>3, <1>8 DEF CloseTurnEnd
    <2>2. pc' \in {"auth", "failed", "handoff", "continue", "giveUp"}
      BY <1>8 DEF CloseTurnEnd, GoTo, Shape
    <2> QED BY <1>1, <2>1, <2>2, QuietLedger
  <1> QED BY <1>4, <1>5, <1>6, <1>7, <1>8

\* Every step keeps the ledger.
LEMMA StepLedger == TypeOK /\ Shape /\ Ledger /\ [Next]_vars => Ledger'
  <1> SUFFICES ASSUME TypeOK, Shape, Ledger, [Next]_vars PROVE Ledger'
    OBVIOUS
  <1>1. CASE Work
    <2>1. CASE Handoff \/ Continue \/ Replay
      BY <2>1, RecoveryMessageLedger DEF Handoff, Continue, Replay, Stages, Text
    <2>2. CASE Hear
      BY <2>2, LoudLedger, HearConfirmLedger DEF Hear
    <2>3. CASE Refuse
      BY <2>3, LoudLedger DEF Refuse
    <2>4. CASE \/ ReconcileDrop \/ ReconcileCommit \/ Acknowledge \/ DeliverEchoed
               \/ DeliverOpening \/ Complete \/ Confirmed \/ CloseTurn
      BY <2>4, ReconcileDropLedger, ReconcileCommitLedger, AcknowledgeLedger,
         DeliverEchoedLedger, DeliverOpeningLedger, CompleteLedger, ConfirmedLedger,
         CloseTurnLedger
    <2>5. CASE RecoverContext \/ RecoveryEnded \/ GiveUp \/ StopEnd
      BY <2>5, RecoverContextLedger, RecoveryEndedLedger, GiveUpLedger, StopEndLedger
    <2>6. CASE AttemptFails \/ Blocked \/ CloseTurnEnd \/ GaveUp
      BY <2>6, LoudLedger
    <2>7. CASE \/ LaunchOnce \/ AttemptKept \/ AttemptLaunch \/ AttemptRetune
               \/ AttemptNoRung \/ Flush \/ DeliverDone \/ Finish \/ Unauthenticated
               \/ Failed \/ CompactionTimeout \/ ResumeRecovery
      BY <2>7, SilentLedger
    <2> QED BY <1>1, <2>1, <2>2, <2>3, <2>4, <2>5, <2>6, <2>7 DEF Work
  <1>2. CASE Client
    BY <1>2, SendLedger, OpenAtLedger, SilentLedger DEF Client
  <1>3. CASE Provider
    BY <1>3, SilentLedger
  <1>4. CASE Crash
    BY <1>4, ColdLedger DEF Crash
  <1>5. CASE UNCHANGED vars
    <2>1. NoMessageLost'
      BY <1>5 DEF Ledger, NoMessageLost, vars
    <2>2. Bounded'
      BY <1>5 DEF Ledger, Bounded, Below, vars
    <2>3. Midway'
      BY <1>5 DEF Ledger, Midway, vars
    <2> QED BY <2>1, <2>2, <2>3 DEF Ledger
  <1> QED BY <1>1, <1>2, <1>3, <1>4, <1>5 DEF Next

\* A message that was written to the metadata is there until its opening event
\* is in the log, through any sequence of crashes, failed writes, failovers and
\* recoveries; only a replay that a recovery made up is ever withdrawn, never a
\* message whose acceptance a client was told of.
THEOREM NothingLost == Spec => []NoMessageLost
  <1>1. Ledger => NoMessageLost
    BY DEF Ledger
  <1> QED BY <1>1, Inductive, InitLedger, StepLedger, PTL DEF Spec

-----------------------------------------------------------------------------
(* Each message once. *)

\* A queue holds each message once.
Distinct(q) == \A i, j \in DOMAIN q : q[i].id = q[j].id => i = j

\* No message of a queue has an opening event.
Unopened(q) == Ids(q) \cap Opened(log) = {}

\* Between the append of an opening event and the retirement of its message,
\* and before a reopened session is reconciled, a queue may hold a message
\* that was opened.
Unsettled == {"down", "reconcile", "complete", "confirmed"}

\* Each queue holds a message once, and no message is in two places.
Apart ==
    /\ Distinct(pending) /\ Distinct(outbox) /\ Distinct(awaiting)
    /\ Ids(awaiting) \cap Ids(outbox) = {}

\* Memory and disk hold the same messages.
SameMessages ==
    /\ pc = "down" => outbox = << >>
    /\ pc \in {"down", "reconcile"} => /\ awaiting = << >>
                                       /\ Ids(outbox) \subseteq Ids(pending)
    /\ pc \notin {"down", "reconcile"} => Ids(pending) = Ids(awaiting) \cup Ids(outbox)

\* What waits in memory was not opened yet.
NotYet ==
    /\ pc \notin Unsettled => Unopened(outbox) /\ Unopened(awaiting)
    /\ pc = "complete" => Unopened(Tail(outbox)) /\ Unopened(awaiting)
    /\ pc = "confirmed" => Unopened(outbox) /\ Unopened(Tail(awaiting))

Single ==
    /\ OpenedOnce
    /\ \A id \in Opened(log) : id < nextId
    /\ Apart /\ SameMessages /\ NotYet

-----------------------------------------------------------------------------
(* Queues. *)

\* A new message goes to the end of a queue that does not hold it.
LEMMA DistinctAppend ==
    ASSUME NEW q \in Seq(Message), NEW m \in Message, Distinct(q), m.id \notin Ids(q)
    PROVE  Distinct(Append(q, m))
  <1> DEFINE s == Append(q, m)
  <1>1. /\ DOMAIN s = DOMAIN q \cup {Len(q) + 1}
        /\ \A i \in DOMAIN q : s[i] = q[i]
        /\ s[Len(q) + 1] = m
    OBVIOUS
  <1> HIDE DEF s
  <1>2. \A i \in DOMAIN q : q[i].id # m.id
    BY DEF Ids
  <1>3. Distinct(s)
    BY <1>1, <1>2 DEF Distinct
  <1> QED BY <1>3 DEF s

\* Two queues that share no message, one behind the other.
LEMMA DistinctConcat ==
    ASSUME NEW q \in Seq(Message), NEW r \in Seq(Message), Distinct(q), Distinct(r),
           Ids(q) \cap Ids(r) = {}
    PROVE  Distinct(q \o r)
  <1> DEFINE s == q \o r
  <1>1. /\ DOMAIN s = 1 .. Len(q) + Len(r) /\ DOMAIN q = 1 .. Len(q)
        /\ DOMAIN r = 1 .. Len(r) /\ Len(q) \in Nat /\ Len(r) \in Nat
        /\ \A i \in 1 .. Len(q) + Len(r) :
               s[i] = IF i <= Len(q) THEN q[i] ELSE r[i - Len(q)]
    BY ConcatProperties
  <1> HIDE DEF s
  <1>2. \A i \in DOMAIN q, j \in DOMAIN r : q[i].id # r[j].id
    BY DEF Ids
  <1>3. ASSUME NEW i \in DOMAIN s, NEW j \in DOMAIN s, s[i].id = s[j].id
        PROVE  i = j
    <2>1. CASE i <= Len(q) /\ j <= Len(q)
      BY <1>1, <1>3, <2>1 DEF Distinct
    <2>2. CASE i > Len(q) /\ j > Len(q)
      <3>1. i - Len(q) \in DOMAIN r /\ j - Len(q) \in DOMAIN r
        BY <1>1, <2>2
      <3>2. r[i - Len(q)].id = r[j - Len(q)].id
        BY <1>1, <1>3, <2>2
      <3>3. i - Len(q) = j - Len(q)
        BY <3>1, <3>2 DEF Distinct
      <3> QED BY <1>1, <3>3
    <2>3. CASE i <= Len(q) /\ j > Len(q)
      <3>1. i \in DOMAIN q /\ j - Len(q) \in DOMAIN r
        BY <1>1, <2>3
      <3>2. q[i].id = r[j - Len(q)].id
        BY <1>1, <1>3, <2>3
      <3> QED BY <1>2, <3>1, <3>2
    <2>4. CASE i > Len(q) /\ j <= Len(q)
      <3>1. j \in DOMAIN q /\ i - Len(q) \in DOMAIN r
        BY <1>1, <2>4
      <3>2. q[j].id = r[i - Len(q)].id
        BY <1>1, <1>3, <2>4
      <3> QED BY <1>2, <3>1, <3>2
    <2> QED BY <1>1, <2>1, <2>2, <2>3, <2>4
  <1> QED BY <1>3 DEF Distinct, s

\* The oldest message is taken off.
LEMMA DistinctTail ==
    ASSUME NEW q \in Seq(Message), q # << >>, Distinct(q)
    PROVE  Distinct(Tail(q)) /\ Head(q).id \notin Ids(Tail(q))
  <1> DEFINE t == Tail(q)
  <1>1. /\ Len(q) \in Nat \ {0} /\ DOMAIN q = 1 .. Len(q) /\ Head(q) = q[1]
        /\ DOMAIN t = 1 .. Len(q) - 1
        /\ \A i \in 1 .. Len(q) - 1 : t[i] = q[i + 1]
    BY HeadTailProperties, EmptySeq
  <1> HIDE DEF t
  <1>2. ASSUME NEW i \in DOMAIN t, NEW j \in DOMAIN t, t[i].id = t[j].id
        PROVE  i = j
    <2>1. i + 1 \in DOMAIN q /\ j + 1 \in DOMAIN q /\ q[i + 1].id = q[j + 1].id
      BY <1>1, <1>2
    <2>2. i + 1 = j + 1
      BY <2>1 DEF Distinct
    <2> QED BY <1>1, <2>2
  <1>3. ASSUME NEW i \in DOMAIN t PROVE t[i].id # Head(q).id
    <2>1. i + 1 \in DOMAIN q /\ 1 \in DOMAIN q /\ t[i] = q[i + 1] /\ i + 1 # 1
      BY <1>1
    <2> QED BY <1>1, <2>1 DEF Distinct
  <1>4. Distinct(t)
    BY <1>2 DEF Distinct
  <1>5. Head(q).id \notin Ids(t)
    BY <1>3 DEF Ids
  <1> QED BY <1>4, <1>5 DEF t

\* Where a message is in a queue, and what is left without it.
LEMMA WithoutAt ==
    ASSUME NEW q \in Seq(Message), Distinct(q), NEW k \in DOMAIN q
    PROVE  Without(q, q[k].id)
             = [i \in 1 .. Len(q) - 1 |-> IF i < k THEN q[i] ELSE q[i + 1]]
  <1>1. q[k].id \in Ids(q)
    BY DEF Ids
  <1>2. \A i \in DOMAIN q : q[i].id = q[k].id => i = k
    BY DEF Distinct
  <1>3. (CHOOSE i \in DOMAIN q : q[i].id = q[k].id) = k
    BY <1>2
  <1> QED BY <1>1, <1>3 DEF Without

\* `retain' leaves each message once, and not the one that is retired.
LEMMA DistinctWithout ==
    ASSUME NEW q \in Seq(Message), NEW id, Distinct(q)
    PROVE  Distinct(Without(q, id)) /\ Ids(Without(q, id)) = Ids(q) \ {id}
  <1>1. CASE id \notin Ids(q)
    BY <1>1 DEF Without
  <1>2. CASE id \in Ids(q)
    <2> DEFINE s == Without(q, id)
    <2>1. PICK k \in DOMAIN q : q[k].id = id
      BY <1>2 DEF Ids
    <2>2. s = [i \in 1 .. Len(q) - 1 |-> IF i < k THEN q[i] ELSE q[i + 1]]
      BY <2>1, WithoutAt
    <2> HIDE DEF s
    <2>3. Len(q) \in Nat /\ DOMAIN q = 1 .. Len(q) /\ k \in 1 .. Len(q)
      OBVIOUS
    <2>4. /\ DOMAIN s = 1 .. Len(q) - 1
          /\ \A i \in 1 .. Len(q) - 1 : s[i] = IF i < k THEN q[i] ELSE q[i + 1]
      BY <2>2
    <2> DEFINE p(i) == IF i < k THEN i ELSE i + 1
    <2>5. \A i \in DOMAIN s : p(i) \in DOMAIN q /\ s[i] = q[p(i)] /\ p(i) # k
      BY <2>3, <2>4
    <2>6. \A i, j \in DOMAIN s : p(i) = p(j) => i = j
      BY <2>3, <2>4
    <2> HIDE DEF p
    <2>7. Distinct(s)
      BY <2>5, <2>6 DEF Distinct
    <2>8. \A i \in DOMAIN s : s[i].id # id
      BY <2>1, <2>5 DEF Distinct
    <2>9. id \notin Ids(s)
      BY <2>8 DEF Ids
    <2>10. Ids(s) \subseteq Ids(q) /\ Ids(q) \ {id} \subseteq Ids(s)
      BY IdsOfWithout DEF s
    <2> QED BY <2>7, <2>9, <2>10 DEF s
  <1> QED BY <1>1, <1>2

-----------------------------------------------------------------------------
(* The log. *)

\* An opening event opens its message and no other; no other event opens one.
LEMMA OpenedOf ==
    ASSUME NEW l \in Seq(Record), NEW r \in Record
    PROVE  Opened(Append(l, r)) =
               IF r.type \in Openings THEN Opened(l) \cup {r.id} ELSE Opened(l)
  <1> DEFINE s == Append(l, r)
  <1>1. /\ DOMAIN s = DOMAIN l \cup {Len(l) + 1}
        /\ \A i \in DOMAIN l : s[i] = l[i]
        /\ s[Len(l) + 1] = r
    OBVIOUS
  <1> HIDE DEF s
  <1>2. ASSUME NEW x \in Opened(s)
        PROVE  x \in Opened(l) \/ (r.type \in Openings /\ x = r.id)
    <2>1. PICK i \in DOMAIN s : s[i].type \in Openings /\ x = s[i].id
      BY DEF Opened
    <2>2. CASE i \in DOMAIN l
      BY <1>1, <2>1, <2>2 DEF Opened
    <2>3. CASE i = Len(l) + 1
      BY <1>1, <2>1, <2>3
    <2> QED BY <1>1, <2>2, <2>3
  <1>3. Opened(l) \subseteq Opened(s) /\ (r.type \in Openings => r.id \in Opened(s))
    BY OpenedGrows DEF s
  <1>4. Opened(s) = IF r.type \in Openings THEN Opened(l) \cup {r.id} ELSE Opened(l)
    BY <1>2, <1>3
  <1> QED BY <1>4 DEF s

\* A message that was not opened may be.
LEMMA OnceMore ==
    ASSUME TypeOK, OpenedOnce, NEW r \in Record, log' = Append(log, r),
           r.type \in Openings => r.id \notin Opened(log)
    PROVE  OpenedOnce'
  <1>1. /\ DOMAIN log' = DOMAIN log \cup {Len(log) + 1}
        /\ \A i \in DOMAIN log : log'[i] = log[i]
        /\ log'[Len(log) + 1] = r
    BY DEF TypeOK, DiskOK
  <1>2. r.type \in Openings =>
            \A i \in DOMAIN log : log[i].type \in Openings => log[i].id # r.id
    BY DEF Opened
  <1> QED BY <1>1, <1>2 DEF OpenedOnce

\* Errors, texts and ENDs open nothing.
LEMMA OpensNothing ==
    ASSUME TypeOK, OpenedOnce, NEW r \in Record, r.type \notin Openings,
           log' \in {log, Append(log, r)}
    PROVE  OpenedOnce' /\ Opened(log)' = Opened(log)
  <1>1. CASE log' = log
    BY <1>1 DEF OpenedOnce, Opened
  <1>2. CASE log' = Append(log, r)
    BY <1>2, OnceMore, OpenedOf DEF TypeOK, DiskOK
  <1> QED BY <1>1, <1>2

-----------------------------------------------------------------------------
(* The actions. *)

\* Steps between settled places that leave the queues and what is opened alone.
LEMMA QuietSingle ==
    ASSUME TypeOK, Single, OpenedOnce', Opened(log)' = Opened(log),
           UNCHANGED <<pending, outbox, awaiting, nextId>>,
           pc \notin Unsettled, pc' \notin Unsettled
    PROVE  Single'
  <1>1. Apart'
    BY DEF Single, Apart, Distinct, Ids
  <1>2. SameMessages'
    BY DEF Single, SameMessages, Unsettled
  <1>3. NotYet'
    BY DEF Single, NotYet, Unopened, Ids, Unsettled
  <1> QED BY <1>1, <1>2, <1>3 DEF Single

\* Opening: the outbox is the queue of the metadata.
LEMMA OpenAtSingle ==
    ASSUME TypeOK, Single, OpenAt
    PROVE  Single'
  <1>1. /\ pc = "down" /\ pc' = "reconcile" /\ outbox' = pending
        /\ UNCHANGED <<log, pending, awaiting, nextId>>
    BY DEF OpenAt
  <1>2. awaiting = << >> /\ Ids(awaiting) = {}
    BY <1>1 DEF Single, SameMessages, Ids
  <1>3. OpenedOnce' /\ Opened(log)' = Opened(log)
    BY <1>1 DEF Single, OpenedOnce, Opened
  <1>4. Apart'
    BY <1>1, <1>2 DEF Single, Apart, Distinct, Ids
  <1>5. SameMessages'
    BY <1>1, <1>2 DEF SameMessages
  <1>6. NotYet'
    BY <1>1 DEF NotYet, Unsettled
  <1> QED BY <1>1, <1>3, <1>4, <1>5, <1>6 DEF Single

\* What was opened before the session went down is dropped ...
LEMMA ReconcileDropSingle ==
    ASSUME TypeOK, Single, ReconcileDrop
    PROVE  Single'
  <1>1. PICK i \in DOMAIN outbox : outbox' = Without(outbox, outbox[i].id)
    BY DEF ReconcileDrop
  <1>2. Distinct(outbox') /\ Ids(outbox') \subseteq Ids(outbox)
    BY <1>1, DistinctWithout DEF TypeOK, QueuesOK, Single, Apart
  <1>3. pc = "reconcile" /\ UNCHANGED <<pc, log, pending, awaiting, nextId>>
    BY DEF ReconcileDrop
  <1>4. OpenedOnce' /\ Opened(log)' = Opened(log)
    BY <1>3 DEF Single, OpenedOnce, Opened
  <1>5. Apart'
    BY <1>2, <1>3 DEF Single, Apart
  <1>6. SameMessages'
    BY <1>2, <1>3 DEF Single, SameMessages
  <1>7. NotYet'
    BY <1>3 DEF NotYet, Unsettled
  <1> QED BY <1>3, <1>4, <1>5, <1>6, <1>7 DEF Single

\* ... and what is left goes back to the metadata.
LEMMA ReconcileCommitSingle ==
    ASSUME TypeOK, Single, ReconcileCommit
    PROVE  Single'
  <1>1. /\ pc = "reconcile" /\ pc' = "recv" /\ pending' = outbox
        /\ Ids(outbox) \cap Opened(log) = {}
        /\ UNCHANGED <<log, outbox, awaiting, nextId>>
    BY DEF ReconcileCommit
  <1>2. awaiting = << >> /\ Ids(awaiting) = {}
    BY <1>1 DEF Single, SameMessages, Ids
  <1>3. OpenedOnce' /\ Opened(log)' = Opened(log)
    BY <1>1 DEF Single, OpenedOnce, Opened
  <1>4. Apart'
    BY <1>1, <1>2 DEF Single, Apart, Distinct, Ids
  <1>5. SameMessages'
    BY <1>1, <1>2 DEF SameMessages
  <1>6. NotYet'
    BY <1>1, <1>2 DEF NotYet, Unopened, Unsettled
  <1> QED BY <1>1, <1>3, <1>4, <1>5, <1>6 DEF Single

\* A new message has an id that nothing has.
LEMMA SendSingle ==
    ASSUME TypeOK, Ledger, Single, NEW w \in Words, Send(w)
    PROVE  Single'
  <1> DEFINE m == [id |-> nextId, text |-> w]
  <1>1. m \in Message /\ m.id = nextId /\ nextId \in Nat
    BY DEF TypeOK, HistoryOK, Message, Text
  <1>2. /\ pending' = Append(pending, m) /\ outbox' = Append(outbox, m)
        /\ pc = "recv" /\ pc' = "ack" /\ nextId' = nextId + 1
        /\ UNCHANGED <<log, awaiting>>
    BY DEF Send, Receiving
  <1> HIDE DEF m
  <1>3. /\ Ids(pending') = Ids(pending) \cup {nextId}
        /\ Ids(outbox') = Ids(outbox) \cup {nextId}
    BY <1>1, <1>2, IdsOfAppend DEF TypeOK, DiskOK, QueuesOK
  <1>4. \A x \in Ids(pending) \cup Ids(outbox) \cup Ids(awaiting) \cup Opened(log) :
            x # nextId
    <2>1. \A x \in Ids(pending) \cup Ids(outbox) \cup Ids(awaiting) \cup Opened(log) :
              x < nextId
      BY DEF Ledger, Bounded, Below, Single
    <2> QED BY <1>1, <2>1
  <1>5. Distinct(pending)' /\ Distinct(outbox)'
    BY <1>1, <1>2, <1>4, DistinctAppend DEF Single, Apart, TypeOK, DiskOK, QueuesOK
  <1>6. Apart'
    BY <1>2, <1>3, <1>4, <1>5 DEF Single, Apart
  <1>7. SameMessages'
    BY <1>2, <1>3 DEF Single, SameMessages
  <1>8. NotYet'
    BY <1>2, <1>3, <1>4 DEF Single, NotYet, Unopened, Unsettled
  <1>9. OpenedOnce' /\ Opened(log)' = Opened(log)
    BY <1>2 DEF Single, OpenedOnce, Opened
  <1>10. \A id \in Opened(log) : id \in Nat
    BY DEF Opened, TypeOK, DiskOK, Record
  <1>11. \A id \in Opened(log)' : id < nextId'
    BY <1>1, <1>2, <1>9, <1>10 DEF Single
  <1> QED BY <1>6, <1>7, <1>8, <1>9, <1>11 DEF Single

\* A message written to a pipe goes from one queue to the other.
LEMMA DeliverEchoedSingle ==
    ASSUME TypeOK, Single, DeliverEchoed
    PROVE  Single'
  <1> DEFINE m == Head(outbox)
  <1>1. outbox # << >> /\ outbox \in Seq(Message) /\ awaiting \in Seq(Message)
    BY DEF DeliverEchoed, Delivering, TypeOK, QueuesOK
  <1>2. m \in Message
    BY <1>1
  <1>3. /\ awaiting' = Append(awaiting, m) /\ outbox' = Tail(outbox)
        /\ pc = "deliver" /\ pc' = "deliver" /\ UNCHANGED <<log, pending, nextId>>
    BY DEF DeliverEchoed, Delivering
  <1> HIDE DEF m
  <1>4. /\ Ids(awaiting') = Ids(awaiting) \cup {m.id}
        /\ Ids(outbox) = {m.id} \cup Ids(outbox')
        /\ m.id \notin Ids(outbox') /\ Distinct(outbox')
    BY <1>1, <1>2, <1>3, IdsOfAppend, IdsOfHeadTail, DistinctTail DEF m, Single, Apart
  <1>5. Distinct(awaiting')
    BY <1>1, <1>2, <1>3, <1>4, DistinctAppend DEF Single, Apart
  <1>6. Apart'
    BY <1>3, <1>4, <1>5 DEF Single, Apart
  <1>7. SameMessages'
    BY <1>3, <1>4 DEF Single, SameMessages
  <1>8. NotYet'
    BY <1>3, <1>4 DEF Single, NotYet, Unopened, Unsettled
  <1>9. OpenedOnce' /\ Opened(log)' = Opened(log)
    BY <1>3 DEF Single, OpenedOnce, Opened
  <1> QED BY <1>3, <1>6, <1>7, <1>8, <1>9 DEF Single

\* The opening event of a message that was not opened before ...
LEMMA DeliverOpeningSingle ==
    ASSUME TypeOK, Shape, Ledger, Single, DeliverOpening
    PROVE  Single'
  <1> DEFINE immediate == Delivery[runner] = "steered" /\ open > 0
             next == NextTurn(immediate)
             t == IF inTurn THEN turn ELSE turn + 1
             r == Rec(IF inTurn THEN "INJECTED" ELSE "START", Head(outbox).id, t,
                      FALSE, IF next THEN "next_turn" ELSE "same_turn")
  <1>1. log' = Append(log, r)
    BY DEF DeliverOpening
  <1>2. outbox # << >> /\ outbox \in Seq(Message) /\ awaiting \in Seq(Message)
    BY DEF DeliverOpening, Delivering, TypeOK, QueuesOK
  <1>3. r \in Record
    <2>1. Head(outbox).id \in Nat
      BY <1>2, MessageRead
    <2>2. t \in Int
      BY DEF TypeOK, TurnOK
    <2> QED BY <2>1, <2>2, RecordMade DEF Openings, Kinds
  <1>4. r.type \in Openings /\ r.id = Head(outbox).id
    BY DEF Rec, Openings
  <1> HIDE DEF r
  <1>5. /\ pc = "deliver" /\ pc' = "complete"
        /\ UNCHANGED <<pending, outbox, awaiting, nextId>>
    BY DEF DeliverOpening, Delivering
  <1>6. /\ Head(outbox).id \in Ids(outbox) /\ Ids(Tail(outbox)) \subseteq Ids(outbox)
        /\ Head(outbox).id \notin Ids(Tail(outbox))
    BY <1>2, IdsOfHeadTail, DistinctTail DEF Single, Apart
  <1>7. Unopened(outbox) /\ Unopened(awaiting) /\ Ids(awaiting) \cap Ids(outbox) = {}
    BY <1>5 DEF Single, NotYet, Unsettled, Apart
  <1>8. Opened(log)' = Opened(log) \cup {Head(outbox).id}
    BY <1>1, <1>3, <1>4, OpenedOf DEF TypeOK, DiskOK
  <1>9. OpenedOnce'
    BY <1>1, <1>3, <1>4, <1>6, <1>7, OnceMore DEF Single, Unopened
  <1>10. Apart'
    BY <1>5 DEF Single, Apart
  <1>11. SameMessages'
    BY <1>5 DEF Single, SameMessages
  <1>12. NotYet'
    BY <1>5, <1>6, <1>7, <1>8 DEF NotYet, Unopened, Unsettled
  <1>13. Head(outbox).id < nextId
    BY <1>6 DEF Ledger, Bounded, Below
  <1> QED BY <1>5, <1>8, <1>9, <1>10, <1>11, <1>12, <1>13 DEF Single

\* ... and its retirement from both queues.
LEMMA CompleteSingle ==
    ASSUME TypeOK, Shape, Single, Complete
    PROVE  Single'
  <1>1. outbox # << >> /\ outbox \in Seq(Message) /\ pending \in Seq(Message)
    BY DEF Complete, Shape, TypeOK, QueuesOK, DiskOK
  <1>2. /\ pc = "complete" /\ pc' = "deliver"
        /\ pending' = Without(pending, Head(outbox).id) /\ outbox' = Tail(outbox)
        /\ UNCHANGED <<log, awaiting, nextId>>
    BY DEF Complete
  <1>3. /\ Distinct(outbox') /\ Ids(outbox) = {Head(outbox).id} \cup Ids(outbox')
        /\ Head(outbox).id \notin Ids(outbox')
    BY <1>1, <1>2, IdsOfHeadTail, DistinctTail DEF Single, Apart
  <1>4. Distinct(pending') /\ Ids(pending') = Ids(pending) \ {Head(outbox).id}
    BY <1>1, <1>2, DistinctWithout DEF Single, Apart
  <1>5. OpenedOnce' /\ Opened(log)' = Opened(log)
    BY <1>2 DEF Single, OpenedOnce, Opened
  <1>6. Apart'
    BY <1>2, <1>3, <1>4 DEF Single, Apart
  <1>7. SameMessages'
    BY <1>2, <1>3, <1>4 DEF Single, SameMessages, Apart
  <1>8. NotYet'
    BY <1>2 DEF Single, NotYet, Unopened, Unsettled
  <1> QED BY <1>2, <1>5, <1>6, <1>7, <1>8 DEF Single

\* The same two steps for an echoed message: its opening event ...
LEMMA HearConfirmSingle ==
    ASSUME TypeOK, Shape, Ledger, Single, HearConfirm
    PROVE  Single'
  <1>1. CASE awaiting # << >> /\ Head(awaiting).text = Head(inbox).text
    <2> DEFINE t == IF Head(inbox).why = "START" THEN turn + 1 ELSE turn
               r == Rec(Head(inbox).why, Head(awaiting).id, t, FALSE, "same_turn")
    <2>1. log' = Append(log, r) /\ pc' = "confirmed"
      BY <1>1 DEF HearConfirm
    <2>2. Head(inbox).why \in Openings
      BY HeardHead DEF HearConfirm, Hearing, Heard
    <2>3. r \in Record /\ r.type \in Openings /\ r.id = Head(awaiting).id
      <3>1. t \in Int
        BY DEF TypeOK, TurnOK
      <3>2. Head(awaiting).id \in Nat
        BY <1>1, MessageRead DEF TypeOK, QueuesOK
      <3>3. r \in Record
        BY <2>2, <3>1, <3>2, RecordMade DEF Openings
      <3> QED BY <2>2, <3>3 DEF Rec
    <2> HIDE DEF r
    <2>4. /\ pc \in {"recv", "drain"} /\ UNCHANGED <<pending, outbox, awaiting, nextId>>
      BY DEF HearConfirm, Hearing, Receiving
    <2>5. /\ Head(awaiting).id \in Ids(awaiting)
          /\ Ids(Tail(awaiting)) \subseteq Ids(awaiting)
          /\ Head(awaiting).id \notin Ids(Tail(awaiting))
      BY <1>1, IdsOfHeadTail, DistinctTail DEF Single, Apart, TypeOK, QueuesOK
    <2>6. Unopened(outbox) /\ Unopened(awaiting) /\ Ids(awaiting) \cap Ids(outbox) = {}
      BY <2>4 DEF Single, NotYet, Unsettled, Apart
    <2>7. Opened(log)' = Opened(log) \cup {Head(awaiting).id}
      BY <2>1, <2>3, OpenedOf DEF TypeOK, DiskOK
    <2>8. OpenedOnce'
      BY <2>1, <2>3, <2>5, <2>6, OnceMore DEF Single, Unopened
    <2>9. Apart'
      BY <2>4 DEF Single, Apart
    <2>10. SameMessages'
      BY <2>1, <2>4 DEF Single, SameMessages
    <2>11. NotYet'
      BY <2>1, <2>4, <2>5, <2>6, <2>7 DEF NotYet, Unopened, Unsettled
    <2>12. Head(awaiting).id < nextId
      BY <2>5 DEF Ledger, Bounded, Below
    <2> QED BY <2>4, <2>7, <2>8, <2>9, <2>10, <2>11, <2>12 DEF Single
  <1>2. CASE ~(awaiting # << >> /\ Head(awaiting).text = Head(inbox).text)
    <2>1. UNCHANGED <<log, pc, pending, outbox, awaiting, nextId>>
      BY <1>2 DEF HearConfirm
    <2>2. pc \in {"recv", "drain"}
      BY DEF HearConfirm, Hearing, Receiving
    <2>3. OpenedOnce' /\ Opened(log)' = Opened(log)
      BY <2>1 DEF Single, OpenedOnce, Opened
    <2> QED BY <2>1, <2>2, <2>3, QuietSingle DEF Unsettled
  <1> QED BY <1>1, <1>2

\* ... and its retirement.
LEMMA ConfirmedSingle ==
    ASSUME TypeOK, Shape, Single, Confirmed
    PROVE  Single'
  <1>1. awaiting # << >> /\ awaiting \in Seq(Message) /\ pending \in Seq(Message)
    BY DEF Confirmed, Shape, TypeOK, QueuesOK, DiskOK
  <1>2. /\ pc = "confirmed" /\ pc' \in {"recv", "drain"}
        /\ pending' = Without(pending, Head(awaiting).id) /\ awaiting' = Tail(awaiting)
        /\ UNCHANGED <<log, outbox, nextId>>
    BY DEF Confirmed, Back
  <1>3. /\ Distinct(awaiting') /\ Ids(awaiting) = {Head(awaiting).id} \cup Ids(awaiting')
        /\ Head(awaiting).id \notin Ids(awaiting')
    BY <1>1, <1>2, IdsOfHeadTail, DistinctTail DEF Single, Apart
  <1>4. Distinct(pending') /\ Ids(pending') = Ids(pending) \ {Head(awaiting).id}
    BY <1>1, <1>2, DistinctWithout DEF Single, Apart
  <1>5. OpenedOnce' /\ Opened(log)' = Opened(log)
    BY <1>2 DEF Single, OpenedOnce, Opened
  <1>6. Apart'
    BY <1>2, <1>3, <1>4 DEF Single, Apart
  <1>7. SameMessages'
    BY <1>2, <1>3, <1>4 DEF Single, SameMessages, Apart
  <1>8. NotYet'
    BY <1>2 DEF Single, NotYet, Unopened, Unsettled
  <1> QED BY <1>2, <1>5, <1>6, <1>7, <1>8 DEF Single

\* Messages that are sent again get ids that nothing has.
LEMMA CloseTurnSingle ==
    ASSUME TypeOK, Shape, Ledger, Single, CloseTurn
    PROVE  Single'
  <1> DEFINE texts == IF Retries THEN answering \o later ELSE << >>
             again == [i \in 1 .. Len(texts) |->
                          [id |-> nextId + i - 1, text |-> texts[i]]]
  <1>1. texts \in Seq(Text)
    BY EmptyTypes, ConcatProperties DEF TypeOK, QueuesOK
  <1>2. /\ pending' = again \o pending
        /\ outbox' = again \o (awaiting \o outbox)
        /\ nextId' = nextId + Len(texts)
        /\ awaiting' = << >> /\ log' = log /\ pc = "close" /\ pc' = "closeEnd"
    BY DEF CloseTurn, InFront, Requeue
  <1> HIDE DEF texts
  <1>3. nextId \in Nat /\ Len(texts) \in Nat /\ \A i \in 1 .. Len(texts) : texts[i] \in Text
    BY <1>1 DEF TypeOK, HistoryOK
  <1>4. again \in Seq(Message)
    <2>1. \A i \in 1 .. Len(texts) : [id |-> nextId + i - 1, text |-> texts[i]] \in Message
      BY <1>3 DEF TypeOK, HistoryOK, Message
    <2> QED BY <1>3, <2>1, IsASeq
  <1>5. /\ DOMAIN again = 1 .. Len(texts)
        /\ \A i \in 1 .. Len(texts) : again[i].id = nextId + i - 1
    OBVIOUS
  <1> HIDE DEF again
  <1>6. Distinct(again) /\ \A x \in Ids(again) : x >= nextId
    BY <1>3, <1>5 DEF Distinct, Ids
  <1>7. \A x \in Ids(pending) \cup Ids(awaiting) \cup Ids(outbox) \cup Opened(log) :
            x \in Nat /\ x < nextId
    <2>1. Opened(log) \subseteq Nat
      BY DEF Opened, TypeOK, DiskOK, Record
    <2> QED BY <2>1, BelowNats DEF Ledger, Bounded, Below, Single, TypeOK, DiskOK, QueuesOK
  <1>8. \A x \in Ids(pending) \cup Ids(awaiting) \cup Ids(outbox) \cup Opened(log) :
            x \notin Ids(again)
    BY <1>3, <1>6, <1>7
  <1>9. /\ awaiting \o outbox \in Seq(Message) /\ Distinct(awaiting \o outbox)
        /\ Ids(awaiting \o outbox) = Ids(awaiting) \cup Ids(outbox)
    BY ConcatProperties, DistinctConcat, IdsOfConcat DEF TypeOK, QueuesOK, Single, Apart
  <1>10. /\ Distinct(outbox')
         /\ Ids(outbox') = Ids(again) \cup (Ids(awaiting) \cup Ids(outbox))
    BY <1>2, <1>4, <1>6, <1>8, <1>9, DistinctConcat, IdsOfConcat
  <1>11. Distinct(pending') /\ Ids(pending') = Ids(again) \cup Ids(pending)
    BY <1>2, <1>4, <1>6, <1>8, DistinctConcat, IdsOfConcat DEF TypeOK, DiskOK, Single, Apart
  <1>12. Ids(awaiting') = {} /\ Distinct(awaiting')
    BY <1>2 DEF Ids, Distinct
  <1>13. Apart'
    BY <1>10, <1>11, <1>12 DEF Apart
  <1>14. SameMessages'
    BY <1>2, <1>10, <1>11, <1>12 DEF Single, SameMessages
  <1>15. NotYet'
    BY <1>2, <1>8, <1>10, <1>12 DEF Single, NotYet, Unopened, Unsettled
  <1>16. OpenedOnce' /\ Opened(log)' = Opened(log)
    BY <1>2 DEF Single, OpenedOnce, Opened
  <1>17. \A id \in Opened(log)' : id < nextId'
    BY <1>2, <1>3, <1>7, <1>16
  <1> QED BY <1>13, <1>14, <1>15, <1>16, <1>17 DEF Single

\* A recovery's message is new; the replay it supersedes leaves every queue.
LEMMA RecoveryMessageSingle ==
    ASSUME TypeOK, Ledger, Single, NEW place, place \notin Unsettled,
           NEW stage \in Stages, NEW text \in Text, NEW fresh \in BOOLEAN,
           RecoveryMessage(place, stage, text, fresh)
    PROVE  Single'
  <1> DEFINE m == [id |-> nextId, text |-> text]
             Kept(q) == IF Superseded(stage) THEN Without(q, recovery.id) ELSE q
             gone == IF Superseded(stage) THEN {recovery.id} ELSE {}
  <1>1. /\ pending' = <<m>> \o Kept(pending) /\ outbox' = <<m>> \o Kept(outbox)
        /\ awaiting' = Kept(awaiting)
        /\ nextId' = nextId + 1 /\ pc = place /\ pc' \in {"attempt", "flush"}
        /\ UNCHANGED log
    BY DEF RecoveryMessage, InFront, Dispatch, DispatchPc, GoTo
  <1>2. nextId \in Nat \ {0} /\ m \in Message /\ m.id = nextId
    BY DEF TypeOK, HistoryOK, Message
  <1> HIDE DEF m
  <1>3. ASSUME NEW q \in Seq(Message), Distinct(q)
        PROVE  /\ Kept(q) \in Seq(Message) /\ Distinct(Kept(q))
               /\ Ids(Kept(q)) = Ids(q) \ gone
    BY <1>3, WithoutType, DistinctWithout
  <1> HIDE DEF Kept, gone
  <1>4. <<m>> \in Seq(Message) /\ Ids(<<m>>) = {nextId} /\ Distinct(<<m>>)
    <2>1. DOMAIN <<m>> = {1} /\ <<m>>[1] = m
      OBVIOUS
    <2> QED BY <1>2, <2>1 DEF Ids, Distinct
  <1>5. \A x \in Ids(pending) \cup Ids(awaiting) \cup Ids(outbox) \cup Opened(log) :
            x \in Nat /\ x < nextId
    <2>1. Opened(log) \subseteq Nat
      BY DEF Opened, TypeOK, DiskOK, Record
    <2> QED BY <2>1, BelowNats DEF Ledger, Bounded, Below, Single, TypeOK, DiskOK, QueuesOK
  <1>6. nextId \notin Ids(pending) \cup Ids(awaiting) \cup Ids(outbox) \cup Opened(log)
    BY <1>2, <1>5
  <1>7. Distinct(pending') /\ Ids(pending') = {nextId} \cup (Ids(pending) \ gone)
    <2>1. /\ Kept(pending) \in Seq(Message) /\ Distinct(Kept(pending))
          /\ Ids(Kept(pending)) = Ids(pending) \ gone
      BY <1>3 DEF TypeOK, DiskOK, Single, Apart
    <2>2. Ids(<<m>>) \cap Ids(Kept(pending)) = {}
      BY <1>4, <1>6, <2>1
    <2>3. /\ Distinct(<<m>> \o Kept(pending))
          /\ Ids(<<m>> \o Kept(pending)) = Ids(<<m>>) \cup Ids(Kept(pending))
      BY <1>4, <2>1, <2>2, DistinctConcat, IdsOfConcat
    <2> QED BY <1>1, <1>4, <2>1, <2>3
  <1>8. Distinct(outbox') /\ Ids(outbox') = {nextId} \cup (Ids(outbox) \ gone)
    <2>1. /\ Kept(outbox) \in Seq(Message) /\ Distinct(Kept(outbox))
          /\ Ids(Kept(outbox)) = Ids(outbox) \ gone
      BY <1>3 DEF TypeOK, QueuesOK, Single, Apart
    <2>2. Ids(<<m>>) \cap Ids(Kept(outbox)) = {}
      BY <1>4, <1>6, <2>1
    <2>3. /\ Distinct(<<m>> \o Kept(outbox))
          /\ Ids(<<m>> \o Kept(outbox)) = Ids(<<m>>) \cup Ids(Kept(outbox))
      BY <1>4, <2>1, <2>2, DistinctConcat, IdsOfConcat
    <2> QED BY <1>1, <1>4, <2>1, <2>3
  <1>9. Distinct(awaiting') /\ Ids(awaiting') = Ids(awaiting) \ gone
    BY <1>1, <1>3 DEF TypeOK, QueuesOK, Single, Apart
  <1>10. Apart'
    BY <1>6, <1>7, <1>8, <1>9 DEF Single, Apart
  <1>11. SameMessages'
    BY <1>1, <1>7, <1>8, <1>9 DEF Single, SameMessages, Unsettled
  <1>12. NotYet'
    BY <1>1, <1>6, <1>8, <1>9 DEF Single, NotYet, Unopened, Unsettled
  <1>13. OpenedOnce' /\ Opened(log)' = Opened(log)
    BY <1>1 DEF Single, OpenedOnce, Opened
  <1>14. \A id \in Opened(log)' : id < nextId'
    BY <1>1, <1>2, <1>5, <1>13
  <1> QED BY <1>10, <1>11, <1>12, <1>13, <1>14 DEF Single

\* A crash loses the queues in memory only.
LEMMA ColdSingle ==
    ASSUME TypeOK, Single, Cold, OpenedOnce', Opened(log)' = Opened(log),
           UNCHANGED <<pending, nextId>>
    PROVE  Single'
  <1>1. outbox' = << >> /\ awaiting' = << >> /\ pc' = "down"
    BY DEF Cold
  <1>2. Ids(outbox') = {} /\ Ids(awaiting') = {} /\ Distinct(outbox') /\ Distinct(awaiting')
    BY <1>1 DEF Ids, Distinct
  <1>3. Apart'
    BY <1>2 DEF Single, Apart
  <1>4. SameMessages'
    BY <1>1, <1>2 DEF SameMessages
  <1>5. NotYet'
    BY <1>1 DEF NotYet, Unsettled
  <1> QED BY <1>3, <1>4, <1>5 DEF Single

\* The END made up on a stop opens nothing.
LEMMA StopEndSingle ==
    ASSUME TypeOK, Single, StopEnd
    PROVE  Single'
  <1> DEFINE r == Rec("END", 0, turn, FALSE, "interrupted")
  <1>1. r \in Record
    BY RecordMade DEF TypeOK, TurnOK
  <1>2. r.type \notin Openings
    BY DEF Rec, Openings
  <1>3. log' \in {log, Append(log, r)}
    BY DEF StopEnd
  <1> HIDE DEF r
  <1>4. OpenedOnce' /\ Opened(log)' = Opened(log)
    BY <1>1, <1>2, <1>3, OpensNothing DEF Single
  <1> QED BY <1>4, ColdSingle DEF StopEnd

\* Nothing is queued or opened at first.
LEMMA InitSingle == Init => Single
  <1> SUFFICES ASSUME Init PROVE Single
    OBVIOUS
  <1>1. OpenedOnce /\ Opened(log) = {}
    BY DEF Init, OpenedOnce, Opened
  <1>2. Apart
    BY DEF Init, Apart, Distinct, Ids
  <1>3. SameMessages
    BY DEF Init, SameMessages, Ids
  <1>4. NotYet
    BY DEF Init, NotYet, Unsettled
  <1> QED BY <1>1, <1>2, <1>3, <1>4 DEF Single

\* Steps that touch neither the queues nor the log.
Silent ==
    \/ LaunchOnce \/ Acknowledge \/ AttemptKept \/ AttemptLaunch \/ AttemptRetune
    \/ AttemptNoRung \/ Flush \/ DeliverDone \/ Finish \/ Unauthenticated \/ Failed
    \/ RecoverContext \/ CompactionTimeout \/ RecoveryEnded \/ GiveUp \/ ResumeRecovery
    \/ \E S \in SUBSET Providers : SetProviders(S)
    \/ SetAutoremove \/ SetOther \/ Stop \/ Provider

\* Steps that add errors, texts and ENDs to the log.
Loud ==
    \/ AttemptFails \/ Blocked \/ RefusedForContext
    \/ \E k \in Kinds : Refused(k)
    \/ HearStraggler \/ HearText \/ HearEnd \/ HearError
    \/ \E type \in {"TEXT", "ERROR", "END"} : HearStopping(type)
    \/ CloseTurnEnd \/ GaveUp

\* Places a handler comes to only once close_turn has emptied `awaiting'.
AfterClose == {"closeEnd", "auth", "failed", "handoff", "continue", "giveUp"}

\* What the first kind of steps leaves alone, and where they lead.
LEMMA SilentStill ==
    ASSUME TypeOK, Shape, Silent
    PROVE  /\ UNCHANGED <<log, pending, outbox, awaiting, nextId, sends>>
           /\ pc \notin Unsettled /\ pc' \notin Unsettled \cup AfterClose
  <1>1. UNCHANGED <<log, pending, outbox, awaiting, nextId, sends>>
    BY DEF Silent, LaunchOnce, Acknowledge, AttemptKept, AttemptLaunch, AttemptRetune,
         AttemptNoRung, Flush, DeliverDone, Finish, Unauthenticated, Failed,
         RecoverContext, CompactionTimeout, RecoveryEnded, GiveUp, ResumeRecovery,
         SetProviders, SetAutoremove, SetOther, Stop, Provider, Echo, Speak, Exit, Reap,
         EndTurn, FailTurn, RunnerOnly
  <1>2. CASE LaunchOnce \/ Acknowledge \/ AttemptNoRung \/ Flush \/ DeliverDone \/ Finish
    BY <1>1, <1>2
       DEF LaunchOnce, Acknowledge, AttemptNoRung, Flush, DeliverDone, Finish, GoTo, Back,
           Receiving, Dispatch, DispatchPc, Unsettled, AfterClose
  <1>3. CASE AttemptKept \/ AttemptLaunch \/ AttemptRetune
    BY <1>1, <1>3
       DEF AttemptKept, AttemptLaunch, AttemptRetune, Shape, Unsettled, AfterClose
  <1>4. CASE \/ Unauthenticated \/ Failed \/ RecoverContext \/ CompactionTimeout
             \/ RecoveryEnded \/ GiveUp \/ ResumeRecovery
    <2>1. pc \notin Unsettled
      BY <1>4 DEF Unauthenticated, Failed, RecoverContext, CompactionTimeout,
                  RecoveryEnded, GiveUp, ResumeRecovery, Unsettled
    <2>2. pc' \notin Unsettled \cup AfterClose
      BY <1>4 DEF Unauthenticated, Failed, RecoverContext, CompactionTimeout,
                  RecoveryEnded, GiveUp, ResumeRecovery, GoTo, Back, MoveOn,
                  StartHandoff, Closing, Dispatch, DispatchPc, Unsettled, AfterClose
    <2> QED BY <1>1, <2>1, <2>2
  <1>5. CASE \/ \E S \in SUBSET Providers : SetProviders(S)
             \/ SetAutoremove \/ SetOther \/ Stop
    BY <1>1, <1>5 DEF SetProviders, SetAutoremove, SetOther, Stop, Receiving, Unsettled,
                      AfterClose
  <1>6. CASE Provider
    BY <1>1, <1>6 DEF Provider, Echo, Speak, Exit, Reap, EndTurn, FailTurn, RunnerOnly,
                      Runs, Unsettled, AfterClose
  <1> QED BY <1>2, <1>3, <1>4, <1>5, <1>6 DEF Silent

\* The same for the second kind.
LEMMA LoudStill ==
    ASSUME TypeOK, Shape, Loud
    PROVE  /\ UNCHANGED <<pending, outbox, awaiting, nextId, sends>>
           /\ \E r \in Record : r.type \notin Openings /\ log' \in {log, Append(log, r)}
           /\ pc \notin Unsettled /\ pc' \notin Unsettled
           /\ pc' \in AfterClose => pc = "closeEnd"
  <1>1. UNCHANGED <<pending, outbox, awaiting, nextId, sends>>
    BY DEF Loud, AttemptFails, Blocked, RefusedForContext, Refused, HearStraggler,
         HearText, HearEnd, HearError, HearStopping, Hears, CloseTurnEnd, GaveUp
  <1> DEFINE Logged == \E r \in Record : r.type \notin Openings
                                         /\ log' \in {log, Append(log, r)}
  <1>2. ASSUME NEW type \in {"ERROR", "END"}, NEW k \in Kinds \cup {"none"},
               type = "ERROR" => k \in Kinds,
               log' \in {log, Append(log, Rec(type, 0, turn, FALSE, k))}
        PROVE  Logged
    <2> DEFINE r == Rec(type, 0, turn, FALSE, k)
    <2>1. r \in Record
      BY <1>2, RecordMade DEF TypeOK, TurnOK
    <2>2. r.type \notin Openings
      BY DEF Rec, Openings
    <2> HIDE DEF r
    <2> QED BY <1>2, <2>1, <2>2 DEF r
  <1>3. ASSUME NEW late \in BOOLEAN, inbox # << >>, Head(inbox).type # "CONFIRM",
               log' \in {log, Recorded(late)}
        PROVE  Logged
    <2> DEFINE r == Rec(Head(inbox).type, 0, epochTurns[Head(inbox).epoch], late,
                        Head(inbox).why)
    <2>1. r \in Record
      BY <1>3, HeardRecord
    <2>2. r.type \notin Openings
      <3>1. Head(inbox).type \in {"CONFIRM", "TEXT", "ERROR", "END"}
        BY <1>3, HeardHead DEF Heard
      <3> QED BY <1>3, <3>1 DEF Rec, Openings
    <2>3. log' \in {log, Append(log, r)}
      BY <1>3 DEF Recorded
    <2> HIDE DEF r
    <2> QED BY <2>1, <2>2, <2>3
  <1> HIDE DEF Logged
  <1>4. CASE AttemptFails \/ Blocked \/ RefusedForContext \/ GaveUp
    <2>1. \E k \in Kinds : log' \in {log, Append(log, Rec("ERROR", 0, turn, FALSE, k))}
      BY <1>4 DEF AttemptFails, Blocked, RefusedForContext, GaveUp, Kinds
    <2>2. Logged
      BY <1>2, <2>1
    <2>3. pc \notin Unsettled
      BY <1>4 DEF AttemptFails, Blocked, RefusedForContext, Refusal, Delivering, GaveUp,
                  Unsettled
    <2>4. pc' \notin Unsettled \cup AfterClose
      BY <1>4 DEF AttemptFails, Blocked, RefusedForContext, GaveUp, GoTo, Back, MoveOn,
                  Unsettled, AfterClose
    <2> QED BY <1>1, <2>2, <2>3, <2>4 DEF Logged
  <1>5. CASE \E k \in Kinds : Refused(k)
    <2>1. \E k \in Kinds : log' \in {log, Append(log, Rec("ERROR", 0, turn, FALSE, k))}
      BY <1>5 DEF Refused
    <2>2. Logged
      BY <1>2, <2>1
    <2>3. pc = "deliver" /\ pc' = "close"
      BY <1>5 DEF Refused, Refusal, Delivering, Closing
    <2> QED BY <1>1, <2>2, <2>3 DEF Logged, Unsettled, AfterClose
  <1>6. CASE HearStraggler
    <2>1. Logged
      <3>1. CASE Head(inbox).type = "CONFIRM"
        BY <1>2, <1>6, <3>1 DEF HearStraggler, Kinds
      <3>2. CASE Head(inbox).type # "CONFIRM"
        BY <1>3, <1>6, <3>2 DEF HearStraggler, Hearing
      <3> QED BY <3>1, <3>2
    <2>2. pc \in {"recv", "drain"} /\ pc' = pc
      BY <1>6 DEF HearStraggler, Hearing, Receiving
    <2> QED BY <1>1, <2>1, <2>2 DEF Logged, Unsettled, AfterClose
  <1>7. CASE \/ HearText \/ HearEnd \/ HearError
             \/ \E type \in {"TEXT", "ERROR", "END"} : HearStopping(type)
    <2>1. Logged
      BY <1>3, <1>7 DEF HearText, HearEnd, HearError, HearStopping, Hears, Hearing
    <2>2. pc \in {"recv", "drain"}
      BY <1>7 DEF HearText, HearEnd, HearError, HearStopping, Hears, Hearing, Receiving
    <2>3. pc' \in {"recv", "drain", "recoveryEnded", "recover", "close", "finish"}
      BY <1>7, <2>2 DEF HearText, HearEnd, HearError, HearStopping, Hears, GoTo, Closing
    <2> QED BY <1>1, <2>1, <2>2, <2>3 DEF Logged, Unsettled, AfterClose
  <1>8. CASE CloseTurnEnd
    <2>1. log' \in {log, Append(log, Rec("END", 0, turn, FALSE, "none"))}
      BY <1>8 DEF CloseTurnEnd
    <2>2. Logged
      BY <1>2, <2>1
    <2>3. pc = "closeEnd" /\ pc' \in {"auth", "failed", "handoff", "continue", "giveUp"}
      BY <1>8 DEF CloseTurnEnd, GoTo, Shape
    <2> QED BY <1>1, <2>2, <2>3 DEF Logged, Unsettled
  <1> QED BY <1>4, <1>5, <1>6, <1>7, <1>8 DEF Loud

\* Neither kind opens a message.
LEMMA StillOpened ==
    ASSUME TypeOK, Shape, OpenedOnce, Silent \/ Loud
    PROVE  OpenedOnce' /\ Opened(log)' = Opened(log)
  <1>1. CASE Silent
    BY <1>1, SilentStill DEF OpenedOnce, Opened
  <1>2. CASE Loud
    BY <1>2, LoudStill, OpensNothing
  <1> QED BY <1>1, <1>2

\* ... so both keep the queues in order.
LEMMA StillSingle ==
    ASSUME TypeOK, Shape, Single, Silent \/ Loud
    PROVE  Single'
  <1>1. OpenedOnce' /\ Opened(log)' = Opened(log)
    BY StillOpened DEF Single
  <1>2. /\ UNCHANGED <<pending, outbox, awaiting, nextId>>
        /\ pc \notin Unsettled /\ pc' \notin Unsettled
    BY SilentStill, LoudStill
  <1> QED BY <1>1, <1>2, QuietSingle

\* Every step is of one of these kinds, or one of the few that move messages.
LEMMA StepKinds ==
    ASSUME Next
    PROVE  \/ Silent \/ Loud
           \/ ReconcileDrop \/ ReconcileCommit \/ DeliverEchoed \/ DeliverOpening
           \/ Complete \/ HearConfirm \/ Confirmed \/ CloseTurn
           \/ Handoff \/ Continue \/ Replay
           \/ StopEnd \/ Crash \/ OpenAt
           \/ \E w \in Words : Send(w)
  <1>1. CASE Work
    BY <1>1 DEF Work, Refuse, Hear, Silent, Loud
  <1>2. CASE Client
    BY <1>2 DEF Client, Silent
  <1> QED BY <1>1, <1>2 DEF Next, Silent

\* Every step keeps the queues in order.
LEMMA StepSingle == TypeOK /\ Shape /\ Ledger /\ Single /\ [Next]_vars => Single'
  <1> SUFFICES ASSUME TypeOK, Shape, Ledger, Single, [Next]_vars PROVE Single'
    OBVIOUS
  <1>1. CASE Silent \/ Loud
    BY <1>1, StillSingle
  <1>2. CASE \/ ReconcileDrop \/ ReconcileCommit \/ DeliverEchoed \/ DeliverOpening
             \/ Complete \/ HearConfirm \/ Confirmed \/ CloseTurn
    BY <1>2, ReconcileDropSingle, ReconcileCommitSingle, DeliverEchoedSingle,
       DeliverOpeningSingle, CompleteSingle, HearConfirmSingle, ConfirmedSingle,
       CloseTurnSingle
  <1>3. CASE Handoff \/ Continue \/ Replay
    BY <1>3, RecoveryMessageSingle DEF Handoff, Continue, Replay, Stages, Text, Unsettled
  <1>4. CASE StopEnd \/ OpenAt \/ \E w \in Words : Send(w)
    BY <1>4, StopEndSingle, OpenAtSingle, SendSingle
  <1>5. CASE Crash
    <2>1. OpenedOnce' /\ Opened(log)' = Opened(log)
      BY <1>5 DEF Crash, Single, OpenedOnce, Opened
    <2> QED BY <1>5, <2>1, ColdSingle DEF Crash
  <1>6. CASE UNCHANGED vars
    <2>1. OpenedOnce' /\ Opened(log)' = Opened(log)
      BY <1>6 DEF vars, Single, OpenedOnce, Opened
    <2>2. Apart'
      BY <1>6 DEF Single, Apart, vars
    <2>3. SameMessages'
      BY <1>6 DEF Single, SameMessages, vars
    <2>4. NotYet'
      BY <1>6 DEF Single, NotYet, Unopened, vars
    <2> QED BY <1>6, <2>1, <2>2, <2>3, <2>4 DEF Single, vars
  <1> QED BY <1>1, <1>2, <1>3, <1>4, <1>5, <1>6, StepKinds

\* The invariants of the queues, for the theorems that rest on them.
LEMMA QueueInvariant == Spec => [](TypeOK /\ Shape /\ Ledger /\ Single)
  BY Inductive, InitLedger, StepLedger, InitSingle, StepSingle, PTL DEF Spec

\* No message gets two opening events: not when a session goes down between the
\* append of the opening event and the retirement of the message and is opened
\* again, not when unconfirmed messages are queued again, not when a recovery
\* or a client puts messages in front of or behind them.
THEOREM NeverTwice == Spec => []OpenedOnce
  <1>1. Single => OpenedOnce
    BY DEF Single
  <1> QED BY <1>1, QueueInvariant, PTL

-----------------------------------------------------------------------------
(* Who is set aside. *)

\* The runner that is up is the provider of the settings it was started with,
\* and nobody sets it aside: who is set aside has been put down.
Fit ==
    /\ runner # "none" => runner \notin benched /\ current.provider = runner
    /\ pc \in {"closeEnd", "auth", "failed"} => runner = "none"

\* Steps that put nobody up and nobody aside.
LEMMA FitStays ==
    ASSUME TypeOK, Fit, UNCHANGED current, benched' \subseteq benched,
           runner' \in {"none", runner},
           pc' \in {"closeEnd", "auth", "failed"} => runner' = "none"
    PROVE  Fit'
  BY DEF Fit

\* Every step keeps the runner fit for use: it was not on the bench when it was
\* launched, and a rung put on the bench loses its runner.
LEMMA StepFit == TypeOK /\ Shape /\ Fit /\ [Next]_vars => Fit'
  <1> SUFFICES ASSUME TypeOK, Shape, Fit, [Next]_vars PROVE Fit'
    OBVIOUS
  <1>1. CASE Silent
    <2>0. pc' \notin {"closeEnd", "auth", "failed"}
      BY <1>1, SilentStill DEF AfterClose
    <2>1. CASE \/ LaunchOnce \/ Acknowledge \/ AttemptKept \/ AttemptNoRung \/ Flush \/ DeliverDone
               \/ Finish \/ RecoverContext \/ CompactionTimeout \/ RecoveryEnded \/ GiveUp
               \/ ResumeRecovery \/ SetAutoremove \/ SetOther
      <3>1. UNCHANGED <<runner, current, benched>>
        BY <2>1 DEF LaunchOnce, Acknowledge, AttemptKept, AttemptNoRung, Flush, DeliverDone,
                    Finish, RecoverContext, CompactionTimeout, RecoveryEnded, GiveUp,
                    ResumeRecovery, SetAutoremove, SetOther
      <3> QED BY <2>0, <3>1, FitStays
    <2>2. CASE AttemptLaunch
      <3>1. Rung \in Usable
        BY <2>2, RungType DEF AttemptLaunch, TypeOK
      <3> QED BY <2>0, <2>2, <3>1 DEF AttemptLaunch, Wanted, Usable, Fit
    <2>3. CASE AttemptRetune
      BY <2>0, <2>3 DEF AttemptRetune, Wanted, Fit
    <2>4. CASE Unauthenticated \/ Failed
      <3>1. runner = "none" /\ runner' = "none"
        BY <2>4 DEF Unauthenticated, Failed, Fit
      <3> QED BY <3>1, <2>0 DEF Fit
    <2>5. CASE (\E S \in SUBSET Providers : SetProviders(S)) \/ Stop
      <3>1. /\ UNCHANGED current /\ benched' \in {{}, benched} /\ runner' \in {"none", runner}
        BY <2>5 DEF SetProviders, Stop, StopRunner
      <3> QED BY <2>0, <3>1, FitStays
    <2>6. CASE Provider
      <3>1. UNCHANGED <<runner, current, benched>>
        BY <2>6 DEF Provider, Echo, Speak, Exit, Reap, EndTurn, FailTurn, RunnerOnly
      <3> QED BY <2>0, <3>1, FitStays
    <2> QED BY <1>1, <2>1, <2>2, <2>3, <2>4, <2>5, <2>6 DEF Silent
  <1>2. CASE Loud
    <2>0. pc' \in AfterClose => pc = "closeEnd"
      BY <1>2, LoudStill
    <2>1. CASE AttemptFails
      <3>1. runner' = "none"
        BY <2>1 DEF AttemptFails
      <3> QED BY <3>1 DEF Fit
    <2>2. CASE ~AttemptFails
      <3>1. UNCHANGED <<runner, current, benched>>
        BY <1>2, <2>2 DEF Loud, Blocked, RefusedForContext, Refused, HearStraggler, HearText,
                    HearEnd, HearError, HearStopping, Hears, CloseTurnEnd, GaveUp
      <3>2. pc' \in {"closeEnd", "auth", "failed"} => runner = "none"
        BY <2>0 DEF AfterClose, Fit
      <3> QED BY <3>1, <3>2, FitStays
    <2> QED BY <2>1, <2>2
  <1>3. CASE \/ ReconcileDrop \/ ReconcileCommit \/ DeliverEchoed \/ DeliverOpening
             \/ Complete \/ HearConfirm \/ Confirmed \/ OpenAt \/ \E w \in Words : Send(w)
    <2>1. UNCHANGED <<runner, current, benched>>
      BY <1>3 DEF ReconcileDrop, ReconcileCommit, DeliverEchoed, DeliverOpening,
                  Complete, HearConfirm, Confirmed, OpenAt, Send
    <2>2. pc' \notin {"closeEnd", "auth", "failed"}
      BY <1>3 DEF ReconcileDrop, ReconcileCommit, DeliverEchoed, DeliverOpening, Delivering,
                  Complete, HearConfirm, Hearing, Receiving, Confirmed, Back, OpenAt, Send
    <2> QED BY <2>1, <2>2, FitStays
  <1>4. CASE CloseTurn \/ StopEnd \/ Crash
    <2>1. runner' = "none"
      BY <1>4 DEF CloseTurn, StopRunner, StopEnd, Crash, Cold
    <2> QED BY <2>1 DEF Fit
  <1>5. CASE Handoff \/ Continue \/ Replay
    <2>1. UNCHANGED <<runner, current, benched>> /\ pc' \notin {"closeEnd", "auth", "failed"}
      BY <1>5 DEF Handoff, Continue, Replay, RecoveryMessage, Dispatch, DispatchPc, GoTo
    <2> QED BY <2>1, FitStays
  <1>6. CASE UNCHANGED vars
    BY <1>6 DEF vars, Fit
  <1> QED BY <1>1, <1>2, <1>3, <1>4, <1>5, <1>6, StepKinds

\* A chat does not go on with a provider that was set aside, nor with one that
\* was taken off the list, unless the change is still to be applied.
THEOREM BenchRespected == Spec => []NotOnBench
  <1>1. Init => Fit
    BY DEF Init, Fit
  <1>2. TypeOK /\ Fit => NotOnBench
    <2> SUFFICES ASSUME TypeOK, Fit, runner # "none", runner \notin providers
                 PROVE  Stale
      BY DEF NotOnBench, Fit
    <2>1. Rung # runner
      BY RungType DEF TypeOK, Usable
    <2>2. current # Wanted /\ current # NoSignature
      BY <2>1 DEF Fit, Wanted, NoSignature
    <2> QED BY <2>2 DEF Stale
  <1> QED BY <1>1, <1>2, Inductive, StepFit, PTL DEF Spec

-----------------------------------------------------------------------------
(* What carries a recovery on. *)

\* The message of a recovery is on disk or was opened, and it was opened in the
\* history that the recovery began, because it is newer than that.
Carried ==
    /\ historyStart <= Len(log) + 1
    /\ Recovering /\ recovery.stage # "Compacting" =>
           /\ recovery.id \in Ids(pending) \cup Opened(log)
           /\ \A i \in DOMAIN log :
                  log[i].type \in Openings /\ log[i].id = recovery.id => i >= historyStart

\* Steps that leave the recovery alone and lose no message.
LEMMA CarriedStays ==
    ASSUME TypeOK, Carried, UNCHANGED <<recovery, historyStart>>,
           NEW r \in Record, log' \in {log, Append(log, r)},
           Ids(pending) \cup Opened(log) \subseteq Ids(pending') \cup Opened(log')
    PROVE  Carried'
  <1>1. /\ log \in Seq(Record) /\ historyStart \in Nat
        /\ DOMAIN log = 1 .. Len(log) /\ Len(log) \in Nat
    BY DEF TypeOK, DiskOK
  <1>2. CASE log' = log
    BY <1>1, <1>2 DEF Carried, Recovering
  <1>3. CASE log' = Append(log, r)
    <2>1. /\ Len(log') = Len(log) + 1 /\ DOMAIN log' = DOMAIN log \cup {Len(log) + 1}
          /\ \A i \in DOMAIN log : log'[i] = log[i]
      BY <1>1, <1>3
    <2> QED BY <1>1, <2>1 DEF Carried, Recovering
  <1> QED BY <1>2, <1>3

\* recovery_message: its message is new, and so is a history that it begins.
LEMMA RecoveryMessageCarried ==
    ASSUME TypeOK, Single, Carried, NEW place, NEW stage \in Stages, NEW text \in Text,
           NEW fresh \in BOOLEAN, RecoveryMessage(place, stage, text, fresh)
    PROVE  Carried'
  <1> DEFINE m == [id |-> nextId, text |-> text]
             kept == IF Superseded(stage) THEN Without(pending, recovery.id) ELSE pending
  <1>1. m \in Message /\ kept \in Seq(Message)
    BY WithoutType DEF Message, TypeOK, DiskOK, HistoryOK
  <1>2. /\ pending' = <<m>> \o kept /\ recovery'.id = nextId /\ log' = log
        /\ historyStart' \in {historyStart, Len(log) + 1}
    BY DEF RecoveryMessage, InFront, NextSeq
  <1>3. nextId \in Ids(pending')
    <2> HIDE DEF kept, m
    <2>1. <<m>> \in Seq(Message) /\ Ids(<<m>>) = {m.id}
      BY <1>1 DEF Ids
    <2>2. m.id = nextId
      BY DEF m
    <2> QED BY <1>1, <1>2, <2>1, <2>2, IdsOfConcat
  <1>4. nextId \notin Opened(log) /\ Len(log) \in Nat
    BY DEF Single, TypeOK, DiskOK, HistoryOK
  <1> QED BY <1>2, <1>3, <1>4 DEF Carried, Opened

\* The opening event of a message that is delivered, or whose echo is heard.
LEMMA OpeningLogged ==
    ASSUME TypeOK, Shape, DeliverOpening \/ HearConfirm
    PROVE  \E r \in Record : log' \in {log, Append(log, r)}
  <1>1. CASE DeliverOpening
    <2> DEFINE immediate == Delivery[runner] = "steered" /\ open > 0
               next == NextTurn(immediate)
               t == IF inTurn THEN turn ELSE turn + 1
               r == Rec(IF inTurn THEN "INJECTED" ELSE "START", Head(outbox).id, t,
                        FALSE, IF next THEN "next_turn" ELSE "same_turn")
    <2>1. log' = Append(log, r)
      BY <1>1 DEF DeliverOpening
    <2>2. Head(outbox).id \in Nat /\ t \in Int
      BY <1>1, MessageRead DEF TypeOK, QueuesOK, TurnOK, DeliverOpening, Delivering
    <2>3. r \in Record
      BY <2>2, RecordMade DEF Openings, Kinds
    <2> HIDE DEF r
    <2> QED BY <2>1, <2>3
  <1>2. CASE HearConfirm /\ awaiting # << >> /\ Head(awaiting).text = Head(inbox).text
    <2> DEFINE t == IF Head(inbox).why = "START" THEN turn + 1 ELSE turn
               r == Rec(Head(inbox).why, Head(awaiting).id, t, FALSE, "same_turn")
    <2>1. log' = Append(log, r)
      BY <1>2 DEF HearConfirm
    <2>2. Head(inbox).why \in Openings
      BY <1>2, HeardHead DEF HearConfirm, Hearing, Heard
    <2>3. Head(awaiting).id \in Nat /\ t \in Int
      BY <1>2, MessageRead DEF TypeOK, QueuesOK, TurnOK
    <2>4. r \in Record
      BY <2>2, <2>3, RecordMade DEF Openings
    <2> HIDE DEF r
    <2> QED BY <2>1, <2>4
  <1>3. CASE HearConfirm /\ log' = log
    <2> DEFINE r == Rec("END", 0, turn, FALSE, "none")
    <2>1. r \in Record
      BY RecordMade DEF TypeOK, TurnOK
    <2> HIDE DEF r
    <2> QED BY <1>3, <2>1
  <1>4. ASSUME HearConfirm
        PROVE  \/ awaiting # << >> /\ Head(awaiting).text = Head(inbox).text
               \/ log' = log
    BY <1>4 DEF HearConfirm
  <1> QED BY <1>1, <1>2, <1>3, <1>4

\* Closing a turn and a new message only add to the queue on disk.
LEMMA QueueGrows ==
    ASSUME TypeOK, CloseTurn \/ \E w \in Words : Send(w)
    PROVE  Ids(pending) \subseteq Ids(pending')
  <1>1. CASE CloseTurn
    <2> DEFINE texts == IF Retries THEN answering \o later ELSE << >>
               again == [i \in 1 .. Len(texts) |->
                            [id |-> nextId + i - 1, text |-> texts[i]]]
    <2>1. texts \in Seq(Text)
      BY EmptyTypes, ConcatProperties DEF TypeOK, QueuesOK
    <2>2. pending' = again \o pending
      BY <1>1 DEF CloseTurn, InFront
    <2> HIDE DEF texts
    <2>3. again \in Seq(Message)
      <3>1. \A i \in 1 .. Len(texts) : [id |-> nextId + i - 1, text |-> texts[i]] \in Message
        BY <2>1 DEF TypeOK, HistoryOK, Message
      <3> QED BY <2>1, <3>1, IsASeq
    <2> HIDE DEF again
    <2> QED BY <2>2, <2>3, IdsOfConcat DEF TypeOK, DiskOK
  <1>2. CASE \E w \in Words : Send(w)
    <2>1. PICK w \in Words : pending' = Append(pending, [id |-> nextId, text |-> w])
      BY <1>2 DEF Send
    <2>2. [id |-> nextId, text |-> w] \in Message
      BY DEF Message, Text, TypeOK, HistoryOK
    <2> QED BY <2>1, <2>2, IdsOfAppend DEF TypeOK, DiskOK
  <1> QED BY <1>1, <1>2

\* Every step keeps what is recovered carried: by the queue, or by the runner that
\* is to have it.
LEMMA StepCarried == TypeOK /\ Shape /\ Ledger /\ Single /\ Carried /\ [Next]_vars => Carried'
  <1> SUFFICES ASSUME TypeOK, Shape, Ledger, Single, Carried, [Next]_vars PROVE Carried'
    OBVIOUS
  <1> DEFINE any == Rec("END", 0, turn, FALSE, "none")
  <1>0. any \in Record
    BY RecordMade DEF TypeOK, TurnOK
  <1> HIDE DEF any
  <1>1. CASE RecoverContext \/ GiveUp
    <2>1. /\ UNCHANGED <<log, historyStart>>
          /\ recovery'.stage \in {"Compacting", "none"}
      BY <1>1 DEF RecoverContext, GiveUp, SaveRecovery, NoRecovery
    <2> QED BY <2>1 DEF Carried, Recovering
  <1>2. CASE RecoveryEnded
    <2>1. UNCHANGED <<log, pending, historyStart>> /\ pc = "recoveryEnded"
      BY <1>2 DEF RecoveryEnded
    <2>2. \/ recovery' = recovery
          \/ recovery' = NoRecovery
          \/ outbox # << >> /\ recovery'.id = Head(outbox).id
      <3> DEFINE failed == turnFailed # "none"
                 stage == recovery.stage
                 stage2 == IF stage = "Compacting" THEN "Retrying" ELSE "Resuming"
      <3>1. \/ UNCHANGED recovery
            \/ SaveRecovery(NoRecovery)
            \/ /\ outbox # << >>
               /\ SaveRecovery([stage |-> stage2, id |-> Head(outbox).id, words |-> FALSE])
        <4> HIDE DEF SaveRecovery
        <4> QED BY <1>2 DEF RecoveryEnded, StartHandoff
      <3> HIDE DEF stage2
      <3> QED BY <3>1 DEF SaveRecovery
    <2>3. CASE recovery' = recovery
      BY <2>1, <2>3 DEF Carried, Recovering
    <2>4. CASE recovery' = NoRecovery
      BY <2>1, <2>4 DEF Carried, Recovering, NoRecovery
    <2>5. CASE outbox # << >> /\ recovery'.id = Head(outbox).id
      <3>1. Head(outbox).id \in Ids(outbox)
        BY <2>5, IdsOfHeadTail DEF TypeOK, QueuesOK
      <3>2. Ids(outbox) \subseteq Ids(pending) /\ Unopened(outbox)
        BY <2>1 DEF Single, SameMessages, NotYet, Unsettled
      <3> QED BY <2>1, <2>5, <3>1, <3>2 DEF Carried, Unopened, Opened
    <2> QED BY <2>2, <2>3, <2>4, <2>5
  <1>3. CASE Silent /\ ~RecoverContext /\ ~RecoveryEnded /\ ~GiveUp
    <2>1. UNCHANGED <<log, pending>>
      BY <1>3, SilentStill
    <2>2. UNCHANGED <<recovery, historyStart>>
      BY <1>3
         DEF Silent, LaunchOnce, Acknowledge, AttemptKept, AttemptLaunch, AttemptRetune,
             AttemptNoRung, Flush, DeliverDone, Finish, Unauthenticated, Failed,
             CompactionTimeout, ResumeRecovery, SetProviders, SetAutoremove, SetOther, Stop,
             Provider, Echo, Speak, Exit, Reap, EndTurn, FailTurn, RunnerOnly
    <2> QED BY <1>0, <2>1, <2>2, CarriedStays
  <1>4. CASE Loud
    <2>1. pending' = pending /\ \E r \in Record : log' \in {log, Append(log, r)}
      BY <1>4, LoudStill
    <2>2. Opened(log)' = Opened(log)
      BY <1>4, StillOpened DEF Single
    <2>3. UNCHANGED <<recovery, historyStart>>
      BY <1>4
         DEF Loud, AttemptFails, Blocked, RefusedForContext, Refused, HearStraggler, HearText,
             HearEnd, HearError, HearStopping, Hears, CloseTurnEnd, GaveUp
    <2> QED BY <2>1, <2>2, <2>3, CarriedStays
  <1>5. CASE ReconcileDrop \/ DeliverEchoed \/ OpenAt
    <2>1. UNCHANGED <<log, pending, recovery, historyStart>>
      BY <1>5 DEF ReconcileDrop, DeliverEchoed, OpenAt
    <2> QED BY <1>0, <2>1, CarriedStays
  <1>6. CASE ReconcileCommit
    <2>1. UNCHANGED <<log, recovery, historyStart>> /\ pending' = outbox
      BY <1>6 DEF ReconcileCommit
    <2>2. Ids(pending) \subseteq Ids(outbox) \cup Opened(log)
      BY <1>6 DEF ReconcileCommit, Ledger, Midway
    <2> QED BY <1>0, <2>1, <2>2, CarriedStays
  <1>7. CASE Complete \/ Confirmed
    <2>1. PICK id \in Opened(log) : pending' = Without(pending, id)
      BY <1>7 DEF Complete, Confirmed, Ledger, Midway
    <2>2. UNCHANGED <<log, recovery, historyStart>>
      BY <1>7 DEF Complete, Confirmed
    <2>3. Ids(pending) \ {id} \subseteq Ids(Without(pending, id))
      BY IdsOfWithout DEF TypeOK, DiskOK
    <2> QED BY <1>0, <2>1, <2>2, <2>3, CarriedStays
  <1>8. CASE DeliverOpening \/ HearConfirm
    <2>1. UNCHANGED <<pending, recovery, historyStart>>
      BY <1>8 DEF DeliverOpening, HearConfirm
    <2>2. \E r \in Record : log' \in {log, Append(log, r)}
      BY <1>8, OpeningLogged
    <2> QED BY <2>1, <2>2, OpenedGrows, CarriedStays DEF TypeOK, DiskOK
  <1>9. CASE CloseTurn \/ \E w \in Words : Send(w)
    <2>1. UNCHANGED <<log, recovery, historyStart>>
      BY <1>9 DEF CloseTurn, Send
    <2>2. Ids(pending) \subseteq Ids(pending')
      BY <1>9, QueueGrows
    <2> QED BY <1>0, <2>1, <2>2, CarriedStays
  <1>10. CASE Handoff \/ Continue \/ Replay
    BY <1>10, RecoveryMessageCarried DEF Handoff, Continue, Replay, Stages, Text
  <1>11. CASE StopEnd
    <2>1. UNCHANGED <<pending, recovery, historyStart>>
      BY <1>11 DEF StopEnd
    <2>2. \E r \in Record : log' \in {log, Append(log, r)}
      BY <1>11, RecordMade, <1>0 DEF StopEnd, TypeOK, TurnOK
    <2> QED BY <2>1, <2>2, OpenedGrows, CarriedStays DEF TypeOK, DiskOK
  <1>12. CASE Crash \/ UNCHANGED vars
    <2>1. UNCHANGED <<log, pending, recovery, historyStart>>
      BY <1>12 DEF Crash, vars
    <2> QED BY <1>0, <2>1, CarriedStays
  <1> QED BY <1>1, <1>2, <1>3, <1>4, <1>5, <1>6, <1>7, <1>8, <1>9, <1>10, <1>11, <1>12,
             StepKinds

\* A recovery that is past its compaction waits for a message that is still in the
\* metadata or was opened in the history that goes on, whatever stops, crashes and
\* refusals come between. It is not said that a provider is at it, or ends its turn.
THEOREM NeverStranded == Spec => []RecoveryCarried
  <1>1. Init => Carried
    BY DEF Init, Carried, Recovering, NoRecovery
  <1>2. Carried => RecoveryCarried
    BY DEF Carried, RecoveryCarried, Opened
  <1> QED BY <1>1, <1>2, QueueInvariant, StepCarried, PTL DEF Spec

-----------------------------------------------------------------------------
(* How often a recovery hands the conversation over. *)

\* start_handoff was called, and its message is not queued yet.
HandingOver ==
    \/ pc = "handoff"
    \/ pc \in {"close", "closeEnd"} /\ goal = "handoff"

\* A handoff follows a compaction or a replay, never another handoff, unless the
\* session was opened with a recovery under way: resume_recovery then hands over
\* once more, so every handoff but the first has a stop or a crash before it.
Rounds ==
    /\ ~Recovering \/ recovery.stage \in {"Compacting", "Retrying"} => handoffs = 0
    /\ pc = "replay" => recovery.stage = "Compacting"
    /\ pc = "recover" => ~Recovering
    /\ pc = "resume" => launchedOnce
    /\ pc = "drain" => stopping
    /\ stopping => pc \in {"drain", "confirmed"}
    /\ pc = "resume" \/ ~launchedOnce \/ stopping \/ HandingOver => handoffs <= downs
    /\ HandingOver /\ ~launchedOnce => handoffs = 0
    /\ HandoffsBounded

\* Nothing is found under way by a chat that never went down.
FirstLife ==
    downs = 0 =>
        /\ ~stopping
        /\ ~launchedOnce => pc \in {"down", "reconcile", "recv"} /\ ~Recovering

\* Steps that leave the recovery alone and do not go where it is looked at.
LEMMA RoundsStay ==
    ASSUME TypeOK, Rounds, FirstLife, UNCHANGED <<recovery, handoffs, downs>>,
           launchedOnce' = launchedOnce, stopping' = stopping,
           pc' \in {"replay", "recover", "resume"} => pc' = pc,
           pc' = "drain" => pc = "drain" \/ stopping,
           stopping => pc' \in {"drain", "confirmed"},
           HandingOver' => HandingOver,
           ~launchedOnce /\ pc \in {"down", "reconcile", "recv"}
               => pc' \in {"down", "reconcile", "recv"}
    PROVE  Rounds' /\ FirstLife'
  <1>1. Recovering' = Recovering
    BY DEF Recovering
  <1>2. Rounds'
    BY <1>1 DEF Rounds, HandoffsBounded
  <1>3. FirstLife'
    BY <1>1 DEF FirstLife
  <1> QED BY <1>2, <1>3

\* Steps that call start_handoff.
LEMMA HandoffStarts ==
    ASSUME TypeOK, Rounds, FirstLife, StartHandoff, UNCHANGED <<handoffs, downs>>,
           launchedOnce' = launchedOnce, stopping' = stopping,
           pc # "resume" => ~Recovering \/ recovery.stage \in {"Compacting", "Retrying"},
           pc = "resume" => launchedOnce, ~stopping,
           pc \notin {"down", "reconcile"}, pc = "recv" => Recovering,
           recovery' = recovery \/ (recovery'.stage = "Compacting" /\ pc = "recover")
    PROVE  Rounds' /\ FirstLife'
  <1>1. pc' = "close" /\ goal' = "handoff"
    BY DEF StartHandoff, Closing
  <1>2. HandingOver'
    BY <1>1 DEF HandingOver
  <1>0. handoffs <= downs /\ (~launchedOnce => handoffs = 0) /\ downs \in Nat
    BY ConstantsAssumption DEF Rounds, Recovering, TypeOK, HistoryOK
  <1>3. Rounds'
    BY <1>0, <1>1, <1>2 DEF Rounds, HandoffsBounded, Recovering
  <1>4. FirstLife'
    BY <1>1, <1>2 DEF Rounds, FirstLife, Recovering
  <1> QED BY <1>3, <1>4

\* recovery_ended, the one place where a stage leads to the next.
LEMMA RecoveryEndedRounds ==
    ASSUME TypeOK, Rounds, FirstLife, RecoveryEnded
    PROVE  Rounds' /\ FirstLife'
  <1> DEFINE failed == turnFailed # "none"
             next == IF recovery.stage = "Compacting" THEN "Retrying" ELSE "Resuming"
             waiting == [stage |-> next, id |-> Head(outbox).id, words |-> FALSE]
  <1>1. UNCHANGED <<downs, launchedOnce, stopping>> /\ pc = "recoveryEnded"
    BY DEF RecoveryEnded
  <1>2. \/ NeedsHandoff(failed) /\ StartHandoff /\ UNCHANGED <<recovery, handoffs>>
        \/ /\ UNCHANGED <<recovery, handoffs>>
           /\ \/ pc' = "replay" /\ recovery.stage = "Compacting"
              \/ pc' = "close" /\ goal' \in {"giveUp", "continue"}
        \/ SaveRecovery(NoRecovery) /\ pc' \in {"finish", "attempt"}
        \/ SaveRecovery(waiting) /\ pc' \in {"attempt", "flush"}
    <2> HIDE DEF SaveRecovery, StartHandoff, NeedsHandoff
    <2> QED BY DEF RecoveryEnded, GoTo, Closing, Dispatch, DispatchPc
  <1>0. ~stopping /\ downs \in Nat
    BY <1>1, ConstantsAssumption DEF Rounds, TypeOK, HistoryOK
  <1>3. CASE NeedsHandoff(failed) /\ StartHandoff /\ UNCHANGED <<recovery, handoffs>>
    BY <1>0, <1>1, <1>3, HandoffStarts DEF NeedsHandoff
  <1>4. CASE /\ UNCHANGED <<recovery, handoffs>>
             /\ \/ pc' = "replay" /\ recovery.stage = "Compacting"
                \/ pc' = "close" /\ goal' \in {"giveUp", "continue"}
    BY <1>1, <1>4 DEF Rounds, HandoffsBounded, FirstLife, HandingOver, Recovering
  <1>5. CASE SaveRecovery(NoRecovery) /\ pc' \in {"finish", "attempt"}
    BY <1>0, <1>1, <1>5 DEF Rounds, HandoffsBounded, FirstLife, HandingOver, Recovering, SaveRecovery, NoRecovery
  <1>6. CASE SaveRecovery(waiting) /\ pc' \in {"attempt", "flush"}
    <2>1. waiting # NoRecovery /\ waiting.stage = next
      BY DEF NoRecovery
    <2>2. recovery'.stage = next /\ handoffs' = handoffs
      BY <1>6, <2>1 DEF SaveRecovery
    <2> QED BY <1>1, <1>6, <2>2 DEF Rounds, HandoffsBounded, FirstLife, HandingOver, Recovering
  <1> QED BY <1>2, <1>3, <1>4, <1>5, <1>6

\* recovery_message, for each of its stages.
LEMMA RecoveryMessageRounds ==
    ASSUME TypeOK, Rounds, FirstLife, Handoff \/ Continue \/ Replay
    PROVE  Rounds' /\ FirstLife'
  <1>1. /\ UNCHANGED <<downs, launchedOnce, stopping>> /\ pc' \in {"attempt", "flush"}
        /\ recovery'.stage # "none" /\ pc \in {"handoff", "continue", "replay"}
    BY DEF Handoff, Continue, Replay, RecoveryMessage, Dispatch, DispatchPc, GoTo
  <1>2. CASE Handoff
    <2>1. recovery'.stage = "Handoff" /\ handoffs' = handoffs + 1 /\ pc = "handoff"
      BY <1>2 DEF Handoff, RecoveryMessage
    <2> QED BY <1>1, <2>1 DEF Rounds, HandoffsBounded, FirstLife, HandingOver, Recovering, TypeOK, HistoryOK
  <1>3. CASE Continue \/ Replay
    <2>1. /\ handoffs' = handoffs
          /\ \/ recovery'.stage = "Continuing"
             \/ pc = "replay" /\ recovery'.stage = "Retrying"
      BY <1>3 DEF Continue, Replay, RecoveryMessage
    <2> QED BY <1>1, <2>1 DEF Rounds, HandoffsBounded, FirstLife, HandingOver, Recovering
  <1> QED BY <1>2, <1>3

\* Every step keeps count.
LEMMA StepRounds ==
    TypeOK /\ Shape /\ Rounds /\ FirstLife /\ [Next]_vars => Rounds' /\ FirstLife'
  <1> SUFFICES ASSUME TypeOK, Shape, Rounds, FirstLife, [Next]_vars
               PROVE  Rounds' /\ FirstLife'
    OBVIOUS
  <1>0. /\ stopping => pc \in {"drain", "confirmed"}
        /\ pc = "drain" => stopping
        /\ downs \in Nat /\ handoffs \in Nat
    BY ConstantsAssumption DEF Rounds, TypeOK, HistoryOK
  <1>1. CASE Acknowledge \/ AttemptNoRung \/ Flush \/ DeliverDone \/ Finish \/ Provider
    <2>1. UNCHANGED <<recovery, handoffs, downs, launchedOnce, stopping>>
      BY <1>1 DEF Acknowledge, AttemptNoRung, Flush, DeliverDone, Finish, Provider, Echo,
                  Speak, Exit, Reap, EndTurn, FailTurn, RunnerOnly
    <2>2. \/ pc' \in {"attempt", "flush", "deliver", "blocked", "recv"}
          \/ pc' = "drain" /\ stopping
          \/ pc' = pc /\ pc \in {"recv", "deliver"}
      BY <1>1 DEF Acknowledge, AttemptNoRung, Flush, DeliverDone, Finish, Provider, Echo,
                  Speak, Exit, Reap, EndTurn, FailTurn, RunnerOnly, Runs, Back, GoTo,
                  Dispatch, DispatchPc
    <2>3. /\ pc \notin {"drain", "confirmed"}
          /\ ~(~launchedOnce /\ pc \in {"down", "reconcile", "recv"} /\ pc' # pc)
      BY <1>1 DEF Acknowledge, AttemptNoRung, Flush, DeliverDone, Finish, Provider, Echo,
                  Speak, Exit, Reap, EndTurn, FailTurn, RunnerOnly, Runs
    <2> QED BY <1>0, <2>1, <2>2, <2>3, RoundsStay DEF HandingOver
  <1>2. CASE AttemptKept \/ AttemptLaunch \/ AttemptRetune
    <2>1. /\ UNCHANGED <<recovery, handoffs, downs, launchedOnce, stopping>>
          /\ pc = "attempt" /\ pc' \in {"flush", "finish"}
      BY <1>2 DEF AttemptKept, AttemptLaunch, AttemptRetune, Shape
    <2> QED BY <1>0, <2>1, RoundsStay DEF HandingOver
  <1>3. CASE Unauthenticated \/ Failed
    <2>1. /\ UNCHANGED <<recovery, handoffs, downs, launchedOnce, stopping>>
          /\ pc \in {"auth", "failed"}
          /\ \/ pc' \in {"attempt", "blocked", "recv"}
             \/ pc' = "drain" /\ stopping
      BY <1>3 DEF Unauthenticated, Failed, MoveOn, GoTo, Back
    <2> QED BY <1>0, <2>1, RoundsStay DEF HandingOver
  <1>4. CASE \/ SetAutoremove \/ SetOther
             \/ \E S \in SUBSET Providers : SetProviders(S)
    <2>1. UNCHANGED <<recovery, handoffs, downs, launchedOnce, stopping, pc, goal>>
      BY <1>4 DEF SetAutoremove, SetOther, SetProviders
    <2> QED BY <1>0, <2>1, RoundsStay DEF HandingOver
  <1>5. CASE LaunchOnce
    <2>1. /\ UNCHANGED <<recovery, handoffs, downs, stopping>> /\ launchedOnce'
          /\ pc = "recv" /\ ~launchedOnce
          /\ \/ pc' \in {"flush", "attempt"}
             \/ Recovering /\ pc' = "resume"
      BY <1>5 DEF LaunchOnce, GoTo, Receiving
    <2> QED BY <1>0, <2>1 DEF Rounds, HandoffsBounded, FirstLife, HandingOver, Recovering
  <1>6. CASE RecoverContext
    <2>1. /\ UNCHANGED <<handoffs, downs, launchedOnce, stopping>>
          /\ recovery'.stage = "Compacting" /\ pc = "recover"
          /\ \/ StartHandoff
             \/ pc' = "recv"
             \/ pc' = "drain" /\ stopping
      BY <1>6 DEF RecoverContext, Back
    <2>2. CASE StartHandoff
      BY <1>0, <2>1, <2>2, HandoffStarts DEF Rounds
    <2>3. CASE pc' = "recv" \/ (pc' = "drain" /\ stopping)
      BY <2>1, <2>3 DEF Rounds, HandoffsBounded, FirstLife, HandingOver, Recovering
    <2> QED BY <1>0, <2>1, <2>2, <2>3
  <1>7. CASE CompactionTimeout
    <2>1. /\ UNCHANGED <<recovery, handoffs, downs, launchedOnce, stopping>>
          /\ pc = "recv" /\ recovery.stage = "Compacting" /\ StartHandoff
      BY <1>7 DEF CompactionTimeout
    <2> QED BY <1>0, <2>1, HandoffStarts DEF Recovering
  <1>8. CASE GiveUp
    BY <1>0, <1>8 DEF GiveUp, SaveRecovery, NoRecovery, Rounds, HandoffsBounded, FirstLife, HandingOver, Recovering
  <1>9. CASE ResumeRecovery
    <2>1. /\ UNCHANGED <<recovery, handoffs, downs, launchedOnce, stopping>> /\ pc = "resume"
          /\ StartHandoff \/ pc' \in {"attempt", "recoveryEnded"}
      BY <1>9 DEF ResumeRecovery, GoTo
    <2>2. CASE StartHandoff
      <3>1. pc' = "close" /\ goal' = "handoff" /\ handoffs <= downs
        BY <2>1, <2>2 DEF StartHandoff, Closing, Rounds
      <3>2. launchedOnce
        BY <2>1 DEF Rounds
      <3> QED BY <1>0, <2>1, <3>1, <3>2 DEF Rounds, HandoffsBounded, FirstLife, HandingOver, Recovering
    <2>3. CASE pc' \in {"attempt", "recoveryEnded"}
      BY <1>0, <2>1, <2>3, RoundsStay DEF HandingOver
    <2> QED BY <1>0, <2>1, <2>2, <2>3
  <1>10. CASE Stop
    BY <1>10 DEF Stop, Receiving, Rounds, HandoffsBounded, FirstLife, HandingOver, Recovering, TypeOK, HistoryOK
  <1>11. CASE AttemptFails \/ Blocked \/ RefusedForContext \/ GaveUp
    <2>1. UNCHANGED <<recovery, handoffs, downs, launchedOnce, stopping>>
      BY <1>11 DEF AttemptFails, Blocked, RefusedForContext, GaveUp
    <2>2. pc \notin {"down", "reconcile", "recv", "drain", "confirmed"}
      BY <1>11 DEF AttemptFails, Blocked, RefusedForContext, Refusal, Delivering, GaveUp
    <2>3. \/ pc' \in {"attempt", "blocked", "recv", "recoveryEnded"}
          \/ pc' = "drain" /\ stopping
          \/ pc' = "recover" /\ ~Recovering
      BY <1>11 DEF AttemptFails, Blocked, RefusedForContext, GaveUp, MoveOn, GoTo, Back
    <2> QED BY <1>0, <2>1, <2>2, <2>3 DEF Rounds, HandoffsBounded, FirstLife, HandingOver, Recovering
  <1>12. CASE \/ HearStraggler \/ HearText \/ HearConfirm \/ Confirmed
              \/ \E type \in {"TEXT", "ERROR", "END"} : HearStopping(type)
    <2>1. /\ UNCHANGED <<recovery, handoffs, downs, launchedOnce, stopping>>
          /\ pc \in {"recv", "drain", "confirmed"}
          /\ pc = "recv" => launchedOnce
      BY <1>12 DEF HearStraggler, HearText, HearConfirm, Confirmed, HearStopping, Hears,
                   Hearing, Receiving
    <2>2. \/ pc' = pc \/ pc' = "confirmed"
          \/ pc' = "recv" /\ ~stopping
          \/ pc' = "drain" /\ stopping
      BY <1>12 DEF HearStraggler, HearText, HearConfirm, Confirmed, HearStopping, Hears,
                   Back
    <2> QED BY <1>0, <2>1, <2>2, RoundsStay DEF HandingOver
  <1>13. CASE HearEnd \/ HearError \/ \E k \in Kinds : Refused(k)
    <2>1. /\ UNCHANGED <<recovery, handoffs, downs, launchedOnce, stopping>>
          /\ pc \in {"recv", "drain", "deliver"}
          /\ pc = "recv" => launchedOnce
          /\ ~stopping
      BY <1>0, <1>13 DEF HearEnd, HearError, Hears, Hearing, Receiving, Refused, Refusal,
                   Delivering
    <2>2. \/ pc' = pc
          \/ pc' \in {"recoveryEnded", "finish"}
          \/ pc' = "recover" /\ ~Recovering
          \/ pc' = "close" /\ goal' \in {"auth", "failed", "giveUp"}
          \/ pc' = "close" /\ goal' = "handoff" /\ recovery.stage = "Compacting"
      BY <1>13 DEF HearEnd, HearError, Refused, Closing, GoTo
    <2> QED BY <1>0, <2>1, <2>2 DEF Rounds, HandoffsBounded, FirstLife, HandingOver, Recovering
  <1>14. CASE CloseTurn \/ CloseTurnEnd
    <2>1. UNCHANGED <<recovery, handoffs, downs, launchedOnce, stopping>>
      BY <1>14 DEF CloseTurn, CloseTurnEnd
    <2>2. \/ pc = "close" /\ pc' = "closeEnd" /\ goal' = goal
          \/ pc = "closeEnd" /\ pc' = goal /\ goal' = "none"
      BY <1>14 DEF CloseTurn, CloseTurnEnd, GoTo
    <2> QED BY <1>0, <2>1, <2>2, RoundsStay DEF HandingOver, Shape
  <1>15. CASE \/ ReconcileDrop \/ ReconcileCommit \/ DeliverEchoed \/ DeliverOpening
              \/ Complete \/ OpenAt \/ \E w \in Words : Send(w)
    <2>1. UNCHANGED <<recovery, handoffs, downs, launchedOnce, stopping>>
      BY <1>15 DEF ReconcileDrop, ReconcileCommit, DeliverEchoed, DeliverOpening, Complete,
                   OpenAt, Send
    <2>2. /\ pc' \in {"reconcile", "recv", "deliver", "complete", "ack"}
          /\ pc \notin {"drain", "confirmed"}
          /\ pc' \notin {"reconcile", "recv"} => pc \in {"deliver", "complete"} \/ launchedOnce
      BY <1>15 DEF ReconcileDrop, ReconcileCommit, DeliverEchoed, DeliverOpening, Complete,
                   OpenAt, Send, Delivering, Receiving
    <2> QED BY <1>0, <2>1, <2>2, RoundsStay DEF HandingOver
  <1>16. CASE RecoveryEnded \/ Handoff \/ Continue \/ Replay
    BY <1>16, RecoveryEndedRounds, RecoveryMessageRounds
  <1>17. CASE StopEnd \/ Crash
    <2>1. Cold /\ recovery' = recovery /\ handoffs' = handoffs
      BY <1>17 DEF StopEnd, Crash, history
    <2>2. downs' # 0 /\ handoffs <= downs' /\ downs' \in Nat
      <3>1. CASE StopEnd
        <4>1. stopping /\ downs' = downs
          BY <1>0, <3>1 DEF StopEnd, bounds
        <4> QED BY <1>0, <4>1 DEF Rounds, FirstLife
      <3>2. CASE Crash
        BY <1>0, <3>2 DEF Crash, Rounds, HandoffsBounded
      <3> QED BY <1>17, <3>1, <3>2
    <2>3. pc' = "down" /\ ~stopping' /\ ~launchedOnce'
      BY <2>1 DEF Cold
    <2>4. Recovering' = Recovering /\ ~HandingOver'
      BY <2>1, <2>3 DEF HandingOver, Recovering
    <2>5. HandoffsBounded'
      <3>1. handoffs \in Nat /\ downs' \in Nat /\ handoffs <= downs' /\ handoffs' = handoffs
        BY <1>0, <2>1, <2>2
      <3>2. \A d \in Nat : handoffs <= d => handoffs <= 1 + d
        BY <3>1
      <3>3. handoffs <= 1 + downs'
        BY <3>1, <3>2
      <3> QED BY <3>1, <3>3 DEF HandoffsBounded
    <2>6. Rounds'
      BY <1>0, <2>1, <2>2, <2>3, <2>4, <2>5 DEF Rounds
    <2> QED BY <2>2, <2>6 DEF FirstLife
  <1>18. CASE UNCHANGED vars
    BY <1>18 DEF vars, Rounds, HandoffsBounded, FirstLife, HandingOver, Recovering
  <1> QED BY <1>1, <1>2, <1>3, <1>4, <1>5, <1>6, <1>7, <1>8, <1>9, <1>10, <1>11, <1>12,
             <1>13, <1>14, <1>15, <1>16, <1>17, <1>18, StepKinds DEF Silent, Loud

\* A recovery hands the conversation over once, and once more for each time the
\* session went down: whatever errors the providers answer with, a chat that stays
\* up does not hand over again and again, and each opening adds one at most.
THEOREM HandoffBounded == Spec => []HandoffsBounded
  <1>1. Init => Rounds /\ FirstLife
    BY ConstantsAssumption DEF Init, Rounds, HandoffsBounded, FirstLife, HandingOver, Recovering, NoRecovery
  <1>2. Rounds => HandoffsBounded
    BY DEF Rounds
  <1> QED BY <1>1, <1>2, Inductive, StepRounds, PTL DEF Spec
=============================================================================
