---------------------- MODULE ConductorTypeProofs ----------------------
(***************************************************************************)
(* Type correctness of Conductor, for any providers, any number of         *)
(* messages, sessions and settings, and whatever may happen.               *)
(*                                                                         *)
(* The invariant Shape makes TypeOK inductive: where the thread is says    *)
(* which queue, runner or goal its next step may rely on.  Every action has*)
(* a lemma of its own, with one step for each part of TypeOK it can        *)
(* disturb.                                                                *)
(***************************************************************************)
EXTENDS Conductor, SequenceTheorems, WellFoundedInduction, TLAPS

USE DEF disk, settings, control, queues, unanswered, turnVars, runVars, native,
        history, bounds

-----------------------------------------------------------------------------
(* Data. *)

\* What is put in the log is a log record.
LEMMA RecordMade ==
    ASSUME NEW type \in Openings \cup {"TEXT", "ERROR", "END"}, NEW id \in Nat,
           NEW t \in Int, NEW late \in BOOLEAN,
           NEW why \in Kinds \cup {"none", "same_turn", "next_turn",
                                  "interrupted", "status"},
           type \in {"TEXT", "ERROR"} => why \in Kinds \cup {"none"}
    PROVE  Rec(type, id, t, late, why) \in Record
  BY DEF Rec, Record, Openings, Kinds

\* The log keeps its type, and a newest turn, when a record is appended.
LEMMA LogGrows ==
    ASSUME NEW l \in Seq(Record), HasNewest(l), NEW r \in Record
    PROVE  Append(l, r) \in Seq(Record) /\ HasNewest(Append(l, r))
  <1>1. Append(l, r) \in Seq(Record)
    OBVIOUS
  <1>2. r.turn \in Int
    BY DEF Record
  <1>3. \A i \in DOMAIN l : l[i].turn \in Int
    BY DEF Record
  <1>4. Turns(Append(l, r)) = Turns(l) \cup {r.turn}
    <2>1. /\ DOMAIN Append(l, r) = DOMAIN l \cup {Len(l) + 1}
          /\ \A i \in DOMAIN l : Append(l, r)[i] = l[i]
          /\ Append(l, r)[Len(l) + 1] = r
      OBVIOUS
    <2> DEFINE m == Append(l, r)
    <2> HIDE DEF m
    <2>2. /\ DOMAIN m = DOMAIN l \cup {Len(l) + 1}
          /\ \A i \in DOMAIN l : m[i] = l[i]
          /\ m[Len(l) + 1] = r
      BY <2>1 DEF m
    <2>3. \A t : t \in Turns(m) <=> t \in Turns(l) \cup {r.turn}
      BY <2>2 DEF Turns
    <2> QED BY <2>3 DEF m
  <1>5. PICK t \in Turns(l) : \A u \in Turns(l) : u <= t
    BY DEF HasNewest
  <1>6. Turns(l) \subseteq Int
    BY <1>3 DEF Turns
  <1>7. HasNewest(Append(l, r))
    <2>1. CASE r.turn <= t
      BY <1>4, <1>5, <2>1 DEF HasNewest
    <2>2. CASE ~(r.turn <= t)
      <3>1. \A u \in Turns(l) \cup {r.turn} : u <= r.turn
        BY <1>2, <1>5, <1>6, <2>2
      <3> QED BY <3>1, <1>4 DEF HasNewest
    <2> QED BY <2>1, <2>2
  <1> QED BY <1>1, <1>7

\* The turn a session is opened at is a turn number.
LEMMA NewestTurn ==
    ASSUME NEW l \in Seq(Record), HasNewest(l)
    PROVE  LastTurn(l) \in Int /\ LastTurn(l) >= -1
  <1>1. Turns(l) \subseteq Int /\ -1 \in Turns(l)
    BY DEF Turns, Record
  <1> QED BY <1>1 DEF HasNewest, LastTurn

\* Removing a message from a queue leaves a queue.
LEMMA WithoutType ==
    ASSUME NEW q \in Seq(Message), NEW id
    PROVE  Without(q, id) \in Seq(Message)
  <1>1. CASE id \notin Ids(q)
    BY <1>1 DEF Without
  <1>2. CASE id \in Ids(q)
    <2> DEFINE k == CHOOSE i \in DOMAIN q : q[i].id = id
    <2>1. k \in 1 .. Len(q)
      BY <1>2 DEF Ids
    <2> HIDE DEF k
    <2> DEFINE s == [i \in 1 .. Len(q) - 1 |-> IF i < k THEN q[i] ELSE q[i + 1]]
    <2>2. Len(q) - 1 \in Nat
      BY <2>1
    <2>3. \A i \in 1 .. Len(q) - 1 : (IF i < k THEN q[i] ELSE q[i + 1]) \in Message
      BY <2>1
    <2>4. s \in Seq(Message)
      BY <2>2, <2>3, IsASeq
    <2> QED BY <1>2, <2>4 DEF Without, k
  <1> QED BY <1>1, <1>2

\* choose.rs picks one of the usable providers.
LEMMA RungType ==
    ASSUME DiskOK, Rung # "none"
    PROVE  Rung \in Usable /\ Rung \in Providers /\ Rung # "none" /\ Wanted \in Signature
  <1>1. Usable \in SUBSET Providers
    BY DEF DiskOK, Usable
  <1>2. Rung \in Usable
    BY <1>1, ConstantsAssumption DEF DiskOK, Rung
  <1>3. Rung \in Providers /\ config \in Nat
    BY <1>1, <1>2, ConstantsAssumption DEF DiskOK
  <1> QED BY <1>2, <1>3, ConstantsAssumption DEF Wanted, Signature

\* The parts of a queue of messages.
LEMMA MessageRead ==
    ASSUME NEW q \in Seq(Message), q # << >>
    PROVE  /\ Head(q).id \in Nat /\ Head(q).text \in Text
           /\ q[Len(q)].id \in Nat /\ Tail(q) \in Seq(Message)
  <1>1. Head(q) \in Message /\ q[Len(q)] \in Message /\ Tail(q) \in Seq(Message)
    OBVIOUS
  <1> QED BY <1>1 DEF Message

\* The empty sequence is a queue of everything.
LEMMA EmptyTypes ==
    /\ << >> \in Seq(Text) /\ << >> \in Seq(Message) /\ << >> \in Seq(Heard)
    /\ << >> \in Seq(Record)
  OBVIOUS

\* An error of the conductor's own can be logged.
LEMMA LoggedError ==
    ASSUME TypeOK, Shape, NEW k \in Kinds
    PROVE  LET l == Append(log, Rec("ERROR", 0, turn, FALSE, k))
           IN  l \in Seq(Record) /\ HasNewest(l)
  <1>1. Rec("ERROR", 0, turn, FALSE, k) \in Record
    BY RecordMade DEF TypeOK, TurnOK
  <1> QED BY <1>1, LogGrows DEF TypeOK, DiskOK, Shape

\* So can the END that closes a turn for a provider.
LEMMA LoggedEnd ==
    ASSUME TypeOK, Shape, NEW why \in {"none", "interrupted"}
    PROVE  LET l == Append(log, Rec("END", 0, turn, FALSE, why))
           IN  l \in Seq(Record) /\ HasNewest(l)
  <1>1. Rec("END", 0, turn, FALSE, why) \in Record
    BY RecordMade DEF TypeOK, TurnOK
  <1> QED BY <1>1, LogGrows DEF TypeOK, DiskOK, Shape

\* The parts of the inbox.
LEMMA HeardHead ==
    ASSUME TypeOK, inbox # << >>
    PROVE  Head(inbox) \in Heard /\ Tail(inbox) \in Seq(Heard)
  BY DEF TypeOK, NativeOK

\* What a runner posts is logged as a record.
LEMMA HeardRecord ==
    ASSUME TypeOK, inbox # << >>, Head(inbox).type # "CONFIRM", NEW late \in BOOLEAN
    PROVE  Rec(Head(inbox).type, 0, epochTurns[Head(inbox).epoch], late,
               Head(inbox).why) \in Record
  <1>1. Head(inbox) \in Heard
    BY HeardHead
  <1>2. epochTurns[Head(inbox).epoch] \in Int
    BY <1>1 DEF TypeOK, RunnerOK, Heard
  <1>3. /\ Head(inbox).type \in {"TEXT", "ERROR", "END"}
        /\ Head(inbox).why \in Kinds \cup {"none", "interrupted", "status"}
        /\ Head(inbox).type \in {"TEXT", "ERROR"} =>
               Head(inbox).why \in Kinds \cup {"none"}
    BY <1>1 DEF Heard, Kinds
  <1> QED BY <1>2, <1>3, RecordMade

\* What a runner posted can be logged.
LEMMA LoggedHeard ==
    ASSUME TypeOK, Shape, inbox # << >>, Head(inbox).type # "CONFIRM",
           NEW late \in BOOLEAN
    PROVE  Recorded(late) \in Seq(Record) /\ HasNewest(Recorded(late))
  BY HeardRecord, LogGrows DEF TypeOK, DiskOK, Shape, Recorded

\* remember_message keeps the type of its two groups.
LEMMA RememberType ==
    ASSUME QueuesOK, NEW text \in Text, NEW nextTurn, Remember(text, nextTurn)
    PROVE  answering' \in Seq(Text) /\ later' \in Seq(Text)
  <1>1. <<text>> \in Seq(Text)
    OBVIOUS
  <1>2. Append(answering, text) \in Seq(Text) /\ Append(later, text) \in Seq(Text)
    BY DEF QueuesOK
  <1>3. CASE answering = << >>
    BY <1>1, <1>3 DEF QueuesOK, Remember
  <1>4. CASE answering # << >> /\ nextTurn
    BY <1>2, <1>4 DEF QueuesOK, Remember
  <1>5. CASE answering # << >> /\ ~nextTurn
    BY <1>2, <1>5 DEF QueuesOK, Remember
  <1> QED BY <1>3, <1>4, <1>5

\* Stopping a runner leaves a well-formed inbox and no turn open.
LEMMA StopRunnerType ==
    ASSUME TypeOK, Shape, StopRunner
    PROVE  NativeOK' /\ runner' = "none" /\ open' = 0
  <1>1. PICK bye \in Farewell : inbox' = inbox \o bye
    BY DEF StopRunner
  <1>2. bye \in Seq(Heard)
    <2>1. CASE bye = << >>
      BY <2>1, EmptyTypes
    <2>2. CASE bye # << >>
      <3> DEFINE h == [epoch |-> runnerEpoch, type |-> "END", text |-> "",
                       why |-> "interrupted"]
      <3>1. open > 0 /\ bye = <<h>>
        BY <2>2 DEF Farewell
      <3> HIDE DEF h
      <3>2. open # 0
        BY <3>1 DEF TypeOK, NativeOK
      <3>3. runnerEpoch \in 1 .. MaxEpochs
        BY <3>2 DEF Shape
      <3>4. h \in Heard
        BY <3>3 DEF Heard, h
      <3> QED BY <3>1, <3>4
    <2> QED BY <2>1, <2>2
  <1>3. inbox' \in Seq(Heard)
    BY <1>1, <1>2, ConcatProperties DEF TypeOK, NativeOK
  <1> QED BY <1>3, EmptyTypes DEF StopRunner, NativeOK

\* A set of positions that is not empty has a last one.
LEMMA LastOf ==
    ASSUME NEW n \in Nat, NEW S \in SUBSET (1 .. n), S # {}
    PROVE  \E i \in S : \A j \in S : j <= i
  <1> DEFINE T == {n - i : i \in S}
  <1>1. T \subseteq Nat /\ T # {}
    <2>1. \A i \in S : n - i \in Nat
      OBVIOUS
    <2> QED BY <2>1
  <1>2. PICK m \in T : \A k \in T : m <= k
    <2>1. PICK m \in T : \A k \in T : ~(<<k, m>> \in OpToRel(<, Nat))
      BY <1>1, WFMin, NatLessThanWellFounded
    <2> HIDE DEF T
    <2>2. \A k \in T : k \in Nat /\ m \in Nat /\ ~(k < m)
      <3> TAKE k \in T
      <3>1. k \in Nat /\ m \in Nat
        BY <1>1
      <3>2. k < m => <<k, m>> \in OpToRel(<, Nat)
        BY <3>1 DEF OpToRel
      <3> QED BY <2>1, <3>1, <3>2
    <2> QED BY <2>2
  <1>3. PICK i \in S : m = n - i
    BY <1>2
  <1>4. \A j \in S : m <= n - j
    BY <1>2
  <1> QED BY <1>3, <1>4

\* So the error a turn ended on is well defined.
LEMMA OutcomesEnd ==
    ASSUME TypeOK, Outcomes # {}
    PROVE  \E n \in Outcomes : \A j \in Outcomes : j <= n
  <1>1. Len(log) \in Nat /\ DOMAIN log = 1 .. Len(log)
    BY DEF TypeOK, DiskOK
  <1>2. Outcomes \in SUBSET (1 .. Len(log))
    BY <1>1 DEF Outcomes
  <1> QED BY <1>1, <1>2, LastOf

-----------------------------------------------------------------------------
(* Types: opening a session, clients, bringing a provider up. *)

\* OpenAt keeps the types and the shape.
LEMMA OpenAtType ==
    ASSUME TypeOK, Shape, OpenAt
    PROVE  TypeOK' /\ Shape'
  <1>1. DiskOK' /\ RunnerOK' /\ NativeOK' /\ HistoryOK'
    BY DEF TypeOK, DiskOK, RunnerOK, NativeOK, HistoryOK, OpenAt
  <1>2. ThreadOK' /\ QueuesOK'
    BY DEF TypeOK, ThreadOK, QueuesOK, Places, Goals, DiskOK, OpenAt
  <1>3. TurnOK'
    BY NewestTurn DEF TypeOK, TurnOK, DiskOK, Shape, OpenAt
  <1>4. Shape'
    BY DEF Shape, OpenAt
  <1> QED BY <1>1, <1>2, <1>3, <1>4 DEF TypeOK

\* ReconcileDrop keeps the types and the shape.
LEMMA ReconcileDropType ==
    ASSUME TypeOK, Shape, ReconcileDrop
    PROVE  TypeOK' /\ Shape'
  <1>1. DiskOK' /\ ThreadOK' /\ TurnOK' /\ RunnerOK' /\ NativeOK' /\ HistoryOK'
    BY DEF TypeOK, DiskOK, ThreadOK, TurnOK, RunnerOK, NativeOK, HistoryOK,
         ReconcileDrop
  <1>2. QueuesOK'
    BY WithoutType DEF TypeOK, QueuesOK, ReconcileDrop
  <1>3. Shape'
    BY DEF Shape, ReconcileDrop
  <1> QED BY <1>1, <1>2, <1>3 DEF TypeOK

\* ReconcileCommit keeps the types and the shape.
LEMMA ReconcileCommitType ==
    ASSUME TypeOK, Shape, ReconcileCommit
    PROVE  TypeOK' /\ Shape'
  <1>1. QueuesOK' /\ TurnOK' /\ RunnerOK' /\ NativeOK' /\ HistoryOK'
    BY DEF TypeOK, QueuesOK, TurnOK, RunnerOK, NativeOK, HistoryOK,
         ReconcileCommit
  <1>2. DiskOK' /\ ThreadOK'
    BY DEF TypeOK, DiskOK, ThreadOK, QueuesOK, Places, Goals, ReconcileCommit
  <1>3. Shape'
    BY DEF Shape, ReconcileCommit
  <1> QED BY <1>1, <1>2, <1>3 DEF TypeOK

\* LaunchOnce keeps the types and the shape.
LEMMA LaunchOnceType ==
    ASSUME TypeOK, Shape, LaunchOnce
    PROVE  TypeOK' /\ Shape'
  <1>1. DiskOK' /\ QueuesOK' /\ TurnOK' /\ RunnerOK' /\ NativeOK' /\ HistoryOK'
    BY DEF TypeOK, DiskOK, QueuesOK, TurnOK, RunnerOK, NativeOK, HistoryOK,
         LaunchOnce
  <1>2. ThreadOK'
    BY DEF TypeOK, ThreadOK, Places, Goals, GoTo, LaunchOnce
  <1>3. Shape'
    BY DEF Shape, GoTo, Receiving, LaunchOnce
  <1> QED BY <1>1, <1>2, <1>3 DEF TypeOK

\* Send keeps the types and the shape.
LEMMA SendType ==
    ASSUME TypeOK, Shape, NEW w \in Words, Send(w)
    PROVE  TypeOK' /\ Shape'
  <1>1. TurnOK' /\ RunnerOK' /\ NativeOK'
    BY DEF TypeOK, TurnOK, RunnerOK, NativeOK, Send
  <1>2. DiskOK'
    BY DEF TypeOK, DiskOK, HistoryOK, Message, Text, Send
  <1>3. ThreadOK'
    BY DEF TypeOK, ThreadOK, Places, Goals, Send
  <1>4. QueuesOK'
    BY DEF TypeOK, QueuesOK, HistoryOK, Message, Text, Send
  <1>5. HistoryOK'
    BY ConstantsAssumption DEF TypeOK, HistoryOK, Send
  <1>6. Shape'
    BY DEF Shape, Send
  <1> QED BY <1>1, <1>2, <1>3, <1>4, <1>5, <1>6 DEF TypeOK

\* Acknowledge keeps the types and the shape.
LEMMA AcknowledgeType ==
    ASSUME TypeOK, Shape, Acknowledge
    PROVE  TypeOK' /\ Shape'
  <1>1. DiskOK' /\ QueuesOK' /\ TurnOK' /\ RunnerOK' /\ NativeOK'
    BY DEF TypeOK, DiskOK, QueuesOK, TurnOK, RunnerOK, NativeOK, Acknowledge
  <1>2. ThreadOK'
    BY DEF TypeOK, ThreadOK, Places, Goals, Dispatch, GoTo, DispatchPc,
         Acknowledge
  <1>3. HistoryOK'
    BY MessageRead DEF TypeOK, HistoryOK, QueuesOK, Shape, Acknowledge
  <1>4. Shape'
    BY DEF Shape, Dispatch, GoTo, DispatchPc, Acknowledge
  <1> QED BY <1>1, <1>2, <1>3, <1>4 DEF TypeOK

\* SetProviders keeps the types and the shape.
LEMMA SetProvidersType ==
    ASSUME TypeOK, Shape, NEW S \in SUBSET Providers, SetProviders(S)
    PROVE  TypeOK' /\ Shape'
  <1>1. ThreadOK' /\ QueuesOK' /\ TurnOK' /\ NativeOK'
    BY DEF TypeOK, ThreadOK, QueuesOK, TurnOK, NativeOK, SetProviders
  <1>2. DiskOK'
    BY DEF TypeOK, DiskOK, SetProviders
  <1>3. RunnerOK'
    BY DEF TypeOK, RunnerOK, SetProviders
  <1>4. HistoryOK'
    BY ConstantsAssumption DEF TypeOK, HistoryOK, SetProviders
  <1>5. Shape'
    BY ConstantsAssumption DEF TypeOK, Shape, HistoryOK, DiskOK, SetProviders
  <1> QED BY <1>1, <1>2, <1>3, <1>4, <1>5 DEF TypeOK

\* SetAutoremove keeps the types and the shape.
LEMMA SetAutoremoveType ==
    ASSUME TypeOK, Shape, SetAutoremove
    PROVE  TypeOK' /\ Shape'
  <1>1. ThreadOK' /\ QueuesOK' /\ TurnOK' /\ RunnerOK' /\ NativeOK'
    BY DEF TypeOK, ThreadOK, QueuesOK, TurnOK, RunnerOK, NativeOK,
         SetAutoremove
  <1>2. DiskOK'
    BY DEF TypeOK, DiskOK, SetAutoremove
  <1>3. HistoryOK'
    BY ConstantsAssumption DEF TypeOK, HistoryOK, SetAutoremove
  <1>4. Shape'
    BY ConstantsAssumption DEF TypeOK, Shape, HistoryOK, DiskOK, SetAutoremove
  <1> QED BY <1>1, <1>2, <1>3, <1>4 DEF TypeOK

\* SetOther keeps the types and the shape.
LEMMA SetOtherType ==
    ASSUME TypeOK, Shape, SetOther
    PROVE  TypeOK' /\ Shape'
  <1>1. ThreadOK' /\ QueuesOK' /\ TurnOK' /\ RunnerOK' /\ NativeOK'
    BY DEF TypeOK, ThreadOK, QueuesOK, TurnOK, RunnerOK, NativeOK, SetOther
  <1>2. DiskOK'
    BY ConstantsAssumption DEF TypeOK, DiskOK, HistoryOK, Shape, SetOther
  <1>3. HistoryOK'
    BY ConstantsAssumption DEF TypeOK, HistoryOK, SetOther
  <1>4. Shape'
    BY ConstantsAssumption DEF TypeOK, Shape, HistoryOK, DiskOK, SetOther
  <1> QED BY <1>1, <1>2, <1>3, <1>4 DEF TypeOK

\* AttemptKept keeps the types and the shape.
LEMMA AttemptKeptType ==
    ASSUME TypeOK, Shape, AttemptKept
    PROVE  TypeOK' /\ Shape'
  <1>1. DiskOK' /\ QueuesOK' /\ TurnOK' /\ NativeOK' /\ HistoryOK'
    BY DEF TypeOK, DiskOK, QueuesOK, TurnOK, NativeOK, HistoryOK, AttemptKept
  <1>2. ThreadOK'
    BY DEF TypeOK, ThreadOK, Places, Goals, Shape, AttemptKept
  <1>3. RunnerOK'
    BY ConstantsAssumption DEF TypeOK, RunnerOK, TurnOK, AttemptKept
  <1>4. Shape'
    BY ConstantsAssumption DEF Shape, AttemptKept
  <1> QED BY <1>1, <1>2, <1>3, <1>4 DEF TypeOK

\* AttemptLaunch keeps the types and the shape.
LEMMA AttemptLaunchType ==
    ASSUME TypeOK, Shape, AttemptLaunch
    PROVE  TypeOK' /\ Shape'
  <1>1. DiskOK' /\ QueuesOK' /\ TurnOK' /\ HistoryOK'
    BY DEF TypeOK, DiskOK, QueuesOK, TurnOK, HistoryOK, AttemptLaunch
  <1>2. ThreadOK'
    BY DEF TypeOK, ThreadOK, Places, Goals, Shape, AttemptLaunch
  <1>3. RunnerOK'
    BY RungType, ConstantsAssumption DEF TypeOK, RunnerOK, TurnOK,
         AttemptLaunch
  <1>4. NativeOK'
    BY EmptyTypes DEF TypeOK, NativeOK, AttemptLaunch
  <1>5. Shape'
    BY RungType, ConstantsAssumption DEF TypeOK, Shape, RunnerOK, AttemptLaunch
  <1> QED BY <1>1, <1>2, <1>3, <1>4, <1>5 DEF TypeOK

\* AttemptRetune keeps the types and the shape.
LEMMA AttemptRetuneType ==
    ASSUME TypeOK, Shape, AttemptRetune
    PROVE  TypeOK' /\ Shape'
  <1>1. DiskOK' /\ QueuesOK' /\ TurnOK' /\ NativeOK' /\ HistoryOK'
    BY DEF TypeOK, DiskOK, QueuesOK, TurnOK, NativeOK, HistoryOK, AttemptRetune
  <1>2. ThreadOK'
    BY DEF TypeOK, ThreadOK, Places, Goals, Shape, AttemptRetune
  <1>3. RunnerOK'
    BY RungType, ConstantsAssumption DEF TypeOK, RunnerOK, AttemptRetune
  <1>4. Shape'
    BY DEF Shape, AttemptRetune
  <1> QED BY <1>1, <1>2, <1>3, <1>4 DEF TypeOK

\* AttemptFails keeps the types and the shape.
LEMMA AttemptFailsType ==
    ASSUME TypeOK, Shape, AttemptFails
    PROVE  TypeOK' /\ Shape'
  <1>1. QueuesOK' /\ TurnOK' /\ HistoryOK'
    BY DEF TypeOK, QueuesOK, TurnOK, HistoryOK, AttemptFails
  <1>2. DiskOK'
    BY RecordMade, LogGrows DEF TypeOK, DiskOK, TurnOK, Shape, Kinds, Openings,
         AttemptFails
  <1>3. ThreadOK'
    BY DEF TypeOK, ThreadOK, Places, Goals, Shape, GoTo, MoveOn, AttemptFails
  <1>4. RunnerOK'
    <2>1. benched' \subseteq Providers
      BY RungType DEF TypeOK, RunnerOK, AttemptFails, MoveOn
    <2>2. /\ nextEpoch' = IF nextEpoch <= MaxEpochs THEN nextEpoch + 1 ELSE nextEpoch
          /\ runner' = "none" /\ runnerEpoch' = 0
          /\ UNCHANGED <<epochTurns, current>>
      BY DEF AttemptFails
    <2> QED BY <2>1, <2>2, ConstantsAssumption DEF TypeOK, RunnerOK
  <1>5. NativeOK'
    BY EmptyTypes DEF TypeOK, NativeOK, AttemptFails
  <1>6. Shape'
    BY RecordMade, LogGrows DEF TypeOK, Shape, DiskOK, TurnOK, Kinds, Openings,
         GoTo, MoveOn, AttemptFails
  <1> QED BY <1>1, <1>2, <1>3, <1>4, <1>5, <1>6 DEF TypeOK

\* AttemptNoRung keeps the types and the shape.
LEMMA AttemptNoRungType ==
    ASSUME TypeOK, Shape, AttemptNoRung
    PROVE  TypeOK' /\ Shape'
  <1>1. DiskOK' /\ QueuesOK' /\ TurnOK' /\ RunnerOK' /\ NativeOK' /\ HistoryOK'
    BY DEF TypeOK, DiskOK, QueuesOK, TurnOK, RunnerOK, NativeOK, HistoryOK,
         AttemptNoRung
  <1>2. ThreadOK'
    BY DEF TypeOK, ThreadOK, Places, Goals, GoTo, AttemptNoRung
  <1>3. Shape'
    BY DEF Shape, GoTo, AttemptNoRung
  <1> QED BY <1>1, <1>2, <1>3 DEF TypeOK

\* Blocked keeps the types and the shape.
LEMMA BlockedType ==
    ASSUME TypeOK, Shape, Blocked
    PROVE  TypeOK' /\ Shape'
  <1>1. QueuesOK' /\ TurnOK' /\ RunnerOK' /\ NativeOK' /\ HistoryOK'
    BY DEF TypeOK, QueuesOK, TurnOK, RunnerOK, NativeOK, HistoryOK, Blocked
  <1>2. DiskOK'
    BY RecordMade, LogGrows DEF TypeOK, DiskOK, TurnOK, Shape, Kinds, Openings,
         Blocked
  <1>3. ThreadOK'
    BY DEF TypeOK, ThreadOK, Places, Goals, Back, Blocked
  <1>4. Shape'
    BY RecordMade, LogGrows DEF TypeOK, Shape, DiskOK, TurnOK, Kinds, Openings,
         Back, Blocked
  <1> QED BY <1>1, <1>2, <1>3, <1>4 DEF TypeOK

\* Flush keeps the types and the shape.
LEMMA FlushType ==
    ASSUME TypeOK, Shape, Flush
    PROVE  TypeOK' /\ Shape'
  <1>1. DiskOK' /\ QueuesOK' /\ TurnOK' /\ RunnerOK' /\ NativeOK' /\ HistoryOK'
    BY DEF TypeOK, DiskOK, QueuesOK, TurnOK, RunnerOK, NativeOK, HistoryOK,
         Flush
  <1>2. ThreadOK'
    BY DEF TypeOK, ThreadOK, Places, Goals, GoTo, Back, Flush
  <1>3. Shape'
    BY DEF Shape, GoTo, Back, Alive, Flush
  <1> QED BY <1>1, <1>2, <1>3 DEF TypeOK

\* DeliverDone keeps the types and the shape.
LEMMA DeliverDoneType ==
    ASSUME TypeOK, Shape, DeliverDone
    PROVE  TypeOK' /\ Shape'
  <1>1. DiskOK' /\ QueuesOK' /\ TurnOK' /\ RunnerOK' /\ NativeOK' /\ HistoryOK'
    BY DEF TypeOK, DiskOK, QueuesOK, TurnOK, RunnerOK, NativeOK, HistoryOK,
         DeliverDone
  <1>2. ThreadOK'
    BY DEF TypeOK, ThreadOK, Places, Goals, Back, DeliverDone
  <1>3. Shape'
    BY DEF Shape, Back, DeliverDone
  <1> QED BY <1>1, <1>2, <1>3 DEF TypeOK

\* DeliverEchoed keeps the types and the shape.
LEMMA DeliverEchoedType ==
    ASSUME TypeOK, Shape, DeliverEchoed
    PROVE  TypeOK' /\ Shape'
  <1>1. DiskOK' /\ RunnerOK' /\ HistoryOK'
    BY DEF TypeOK, DiskOK, RunnerOK, HistoryOK, DeliverEchoed
  <1>2. ThreadOK'
    BY DEF TypeOK, ThreadOK, DeliverEchoed
  <1>3. QueuesOK'
    BY DEF TypeOK, QueuesOK, Delivering, DeliverEchoed
  <1>4. TurnOK'
    BY DEF TypeOK, TurnOK, DeliverEchoed
  <1>5. NativeOK'
    BY MessageRead DEF TypeOK, NativeOK, QueuesOK, Delivering, DeliverEchoed
  <1>6. Shape'
    BY DEF Shape, Delivering, DeliverEchoed
  <1> QED BY <1>1, <1>2, <1>3, <1>4, <1>5, <1>6 DEF TypeOK

-----------------------------------------------------------------------------
(* Types: handing messages over, hearing from runners, closing a turn. *)

\* DeliverOpening keeps the types and the shape.
LEMMA DeliverOpeningType ==
    ASSUME TypeOK, Shape, DeliverOpening
    PROVE  TypeOK' /\ Shape'
  <1> DEFINE immediate == Delivery[runner] = "steered" /\ open > 0
             next == NextTurn(immediate)
             t == IF inTurn THEN turn ELSE turn + 1
             r == Rec(IF inTurn THEN "INJECTED" ELSE "START", Head(outbox).id, t,
                      FALSE, IF next THEN "next_turn" ELSE "same_turn")
  <1>1. t \in Int /\ t >= -1
    BY DEF TypeOK, TurnOK
  <1>2. r \in Record
    <2>1. Head(outbox).id \in Nat
      BY MessageRead DEF TypeOK, QueuesOK, DeliverOpening, Delivering
    <2> QED BY <1>1, <2>1, RecordMade DEF Openings, Kinds
  <1>3. /\ log' = Append(log, r) /\ turn' = t
        /\ epochTurns' = [epochTurns EXCEPT ![runnerEpoch] = t]
        /\ open' = IF immediate THEN open ELSE open + 1
        /\ pc' = "complete" /\ outbox # << >> /\ runner # "none"
        /\ UNCHANGED <<pending, recovery, historyStart, settings, goal, outbox,
                       awaiting, runner, runnerEpoch, config, changes>>
    BY DEF DeliverOpening, Delivering, Shape
  <1>4. log' \in Seq(Record) /\ HasNewest(log)'
    BY <1>2, <1>3, LogGrows DEF TypeOK, DiskOK, Shape
  <1>5. DiskOK'
    BY <1>3, <1>4 DEF TypeOK, DiskOK
  <1>6. QueuesOK' /\ HistoryOK'
    BY DEF TypeOK, QueuesOK, HistoryOK, DeliverOpening
  <1>7. ThreadOK' /\ TurnOK'
    BY <1>1, <1>3 DEF TypeOK, ThreadOK, TurnOK, DeliverOpening, Places, Goals
  <1>8. RunnerOK'
    BY <1>1, <1>3 DEF TypeOK, RunnerOK, DeliverOpening
  <1>9. NativeOK'
    BY <1>3 DEF TypeOK, NativeOK, DeliverOpening
  <1>10. Shape'
    BY <1>3, <1>4 DEF Shape
  <1> QED BY <1>5, <1>6, <1>7, <1>8, <1>9, <1>10 DEF TypeOK

\* Complete keeps the types and the shape.
LEMMA CompleteType ==
    ASSUME TypeOK, Shape, Complete
    PROVE  TypeOK' /\ Shape'
  <1>1. RunnerOK' /\ NativeOK' /\ HistoryOK'
    BY DEF TypeOK, RunnerOK, NativeOK, HistoryOK, Complete
  <1>2. DiskOK'
    BY WithoutType DEF TypeOK, DiskOK, Complete
  <1>3. ThreadOK'
    BY DEF TypeOK, ThreadOK, Places, Goals, Complete
  <1>4. QueuesOK'
    BY MessageRead, RememberType DEF TypeOK, QueuesOK, Shape, Complete
  <1>5. TurnOK'
    BY DEF TypeOK, TurnOK, Complete
  <1>6. Shape'
    BY DEF Shape, Complete
  <1> QED BY <1>1, <1>2, <1>3, <1>4, <1>5, <1>6 DEF TypeOK

\* RefusedForContext keeps the types and the shape.
LEMMA RefusedForContextType ==
    ASSUME TypeOK, Shape, RefusedForContext
    PROVE  TypeOK' /\ Shape'
  <1>1. QueuesOK' /\ RunnerOK' /\ NativeOK' /\ HistoryOK'
    BY DEF TypeOK, QueuesOK, RunnerOK, NativeOK, HistoryOK, RefusedForContext
  <1>2. DiskOK'
    BY LoggedError DEF TypeOK, DiskOK, Kinds, RefusedForContext
  <1>3. ThreadOK'
    BY DEF TypeOK, ThreadOK, Places, Goals, GoTo, Back, RefusedForContext
  <1>4. TurnOK'
    BY DEF TypeOK, TurnOK, Kinds, RefusedForContext
  <1>5. Shape'
    BY LoggedError DEF Shape, Kinds, GoTo, Back, RefusedForContext
  <1> QED BY <1>1, <1>2, <1>3, <1>4, <1>5 DEF TypeOK

\* Refused keeps the types and the shape.
LEMMA RefusedType ==
    ASSUME TypeOK, Shape, NEW k \in Kinds, Refused(k)
    PROVE  TypeOK' /\ Shape'
  <1>1. QueuesOK' /\ TurnOK' /\ RunnerOK' /\ NativeOK' /\ HistoryOK'
    BY DEF TypeOK, QueuesOK, TurnOK, RunnerOK, NativeOK, HistoryOK, Refused
  <1>2. DiskOK'
    BY LoggedError DEF TypeOK, DiskOK, Refused
  <1>3. ThreadOK'
    BY ConstantsAssumption DEF TypeOK, ThreadOK, Places, Goals, Closing,
         RunnerOK, Refused
  <1>4. Shape'
    BY LoggedError DEF Shape, Closing, Refused
  <1> QED BY <1>1, <1>2, <1>3, <1>4 DEF TypeOK

\* HearStraggler keeps the types and the shape.
LEMMA HearStragglerType ==
    ASSUME TypeOK, Shape, HearStraggler
    PROVE  TypeOK' /\ Shape'
  <1>1. ThreadOK' /\ QueuesOK' /\ TurnOK' /\ RunnerOK' /\ HistoryOK'
    BY DEF TypeOK, ThreadOK, QueuesOK, TurnOK, RunnerOK, HistoryOK,
         HearStraggler
  <1>2. DiskOK'
    BY LoggedHeard DEF TypeOK, DiskOK, Hearing, HearStraggler
  <1>3. NativeOK'
    BY HeardHead DEF TypeOK, NativeOK, Hearing, HearStraggler
  <1>4. Shape'
    BY LoggedHeard DEF Shape, Hearing, HearStraggler
  <1> QED BY <1>1, <1>2, <1>3, <1>4 DEF TypeOK

\* Confirmed keeps the types and the shape.
LEMMA ConfirmedType ==
    ASSUME TypeOK, Shape, Confirmed
    PROVE  TypeOK' /\ Shape'
  <1>1. RunnerOK' /\ NativeOK' /\ HistoryOK'
    BY DEF TypeOK, RunnerOK, NativeOK, HistoryOK, Confirmed
  <1>2. DiskOK'
    BY WithoutType DEF TypeOK, DiskOK, Confirmed
  <1>3. ThreadOK'
    BY DEF TypeOK, ThreadOK, Places, Goals, Back, Confirmed
  <1>4. QueuesOK'
    BY MessageRead, RememberType DEF TypeOK, QueuesOK, Shape, Confirmed
  <1>5. TurnOK'
    BY DEF TypeOK, TurnOK, Confirmed
  <1>6. Shape'
    BY DEF Shape, Back, Confirmed
  <1> QED BY <1>1, <1>2, <1>3, <1>4, <1>5, <1>6 DEF TypeOK

\* HearStopping keeps the types and the shape.
LEMMA HearStoppingType ==
    ASSUME TypeOK, Shape, NEW type \in {"TEXT", "ERROR", "END"}, HearStopping(type)
    PROVE  TypeOK' /\ Shape'
  <1>1. ThreadOK' /\ RunnerOK' /\ HistoryOK'
    BY DEF TypeOK, ThreadOK, RunnerOK, HistoryOK, Hears, HearStopping
  <1>2. DiskOK'
    BY LoggedHeard DEF TypeOK, DiskOK, Hears, Hearing, HearStopping
  <1>3. QueuesOK'
    BY DEF TypeOK, QueuesOK, Hears, HearStopping
  <1>4. TurnOK'
    BY DEF TypeOK, TurnOK, Hears, HearStopping
  <1>5. NativeOK'
    BY HeardHead DEF TypeOK, NativeOK, Hears, Hearing, HearStopping
  <1>6. Shape'
    BY LoggedHeard DEF Shape, Hears, Hearing, HearStopping
  <1> QED BY <1>1, <1>2, <1>3, <1>4, <1>5, <1>6 DEF TypeOK

\* HearText keeps the types and the shape.
LEMMA HearTextType ==
    ASSUME TypeOK, Shape, HearText
    PROVE  TypeOK' /\ Shape'
  <1>1. QueuesOK' /\ RunnerOK' /\ HistoryOK'
    BY DEF TypeOK, QueuesOK, RunnerOK, HistoryOK, Hears, HearText
  <1>2. DiskOK'
    BY LoggedHeard DEF TypeOK, DiskOK, Hears, Hearing, HearText
  <1>3. ThreadOK'
    BY DEF TypeOK, ThreadOK, Hears, HearText
  <1>4. TurnOK'
    BY DEF TypeOK, TurnOK, Hears, HearText
  <1>5. NativeOK'
    BY HeardHead DEF TypeOK, NativeOK, Hears, Hearing, HearText
  <1>6. Shape'
    BY LoggedHeard DEF Shape, Hears, Hearing, HearText
  <1> QED BY <1>1, <1>2, <1>3, <1>4, <1>5, <1>6 DEF TypeOK

\* HearEnd keeps the types and the shape.
LEMMA HearEndType ==
    ASSUME TypeOK, Shape, HearEnd
    PROVE  TypeOK' /\ Shape'
  <1>1. QueuesOK' /\ RunnerOK' /\ HistoryOK'
    BY DEF TypeOK, QueuesOK, RunnerOK, HistoryOK, Hears, HearEnd
  <1>2. DiskOK'
    BY LoggedHeard DEF TypeOK, DiskOK, Hears, Hearing, HearEnd
  <1>3. ThreadOK'
    BY DEF TypeOK, ThreadOK, Places, Goals, Hears, GoTo, Closing, RunnerOK,
         HearEnd
  <1>4. TurnOK'
    BY DEF TypeOK, TurnOK, Hears, HearEnd
  <1>5. NativeOK'
    BY HeardHead DEF TypeOK, NativeOK, Hears, Hearing, HearEnd
  <1>6. Shape'
    BY LoggedHeard DEF Shape, Hears, Hearing, GoTo, Closing, HearEnd
  <1> QED BY <1>1, <1>2, <1>3, <1>4, <1>5, <1>6 DEF TypeOK

\* HearError keeps the types and the shape.
LEMMA HearErrorType ==
    ASSUME TypeOK, Shape, HearError
    PROVE  TypeOK' /\ Shape'
  <1>1. QueuesOK' /\ RunnerOK' /\ HistoryOK'
    BY DEF TypeOK, QueuesOK, RunnerOK, HistoryOK, Hears, HearError
  <1>2. DiskOK'
    BY LoggedHeard DEF TypeOK, DiskOK, Hears, Hearing, HearError
  <1>3. ThreadOK'
    BY DEF TypeOK, ThreadOK, Places, Goals, Hears, GoTo, Closing, RunnerOK,
         HearError
  <1>4. TurnOK'
    BY HeardHead DEF TypeOK, TurnOK, Hears, Hearing, Heard, HearError
  <1>5. NativeOK'
    BY HeardHead DEF TypeOK, NativeOK, Hears, Hearing, HearError
  <1>6. Shape'
    BY LoggedHeard DEF Shape, Hears, Hearing, GoTo, Closing, HearError
  <1> QED BY <1>1, <1>2, <1>3, <1>4, <1>5, <1>6 DEF TypeOK

\* Finish keeps the types and the shape.
LEMMA FinishType ==
    ASSUME TypeOK, Shape, Finish
    PROVE  TypeOK' /\ Shape'
  <1>1. DiskOK' /\ RunnerOK' /\ NativeOK' /\ HistoryOK'
    BY DEF TypeOK, DiskOK, RunnerOK, NativeOK, HistoryOK, Finish
  <1>2. ThreadOK'
    BY DEF TypeOK, ThreadOK, Places, Goals, Back, Finish
  <1>3. QueuesOK'
    BY EmptyTypes DEF TypeOK, QueuesOK, Finish
  <1>4. TurnOK'
    BY DEF TypeOK, TurnOK, Finish
  <1>5. Shape'
    BY DEF Shape, Back, Finish
  <1> QED BY <1>1, <1>2, <1>3, <1>4, <1>5 DEF TypeOK

\* HearConfirm keeps the types and the shape.
LEMMA HearConfirmType ==
    ASSUME TypeOK, Shape, HearConfirm
    PROVE  TypeOK' /\ Shape'
  <1>1. Head(inbox) \in Heard /\ Tail(inbox) \in Seq(Heard)
    BY HeardHead DEF HearConfirm, Hearing
  <1>2. CASE awaiting # << >> /\ Head(awaiting).text = Head(inbox).text
    <2> DEFINE t == IF Head(inbox).why = "START" THEN turn + 1 ELSE turn
               r == Rec(Head(inbox).why, Head(awaiting).id, t, FALSE, "same_turn")
    <2>1. t \in Int /\ t >= -1
      BY DEF TypeOK, TurnOK
    <2>2. Head(inbox).why \in Openings
      BY <1>1 DEF HearConfirm, Heard
    <2>3. Head(awaiting).id \in Nat
      BY <1>2, MessageRead DEF TypeOK, QueuesOK
    <2>4. r \in Record
      BY <2>1, <2>2, <2>3, RecordMade DEF Openings
    <2>5. /\ log' = Append(log, r) /\ turn' = t
          /\ epochTurns' = [epochTurns EXCEPT ![runnerEpoch] = t]
          /\ pc' = "confirmed" /\ inbox' = Tail(inbox)
      BY <1>2 DEF HearConfirm
    <2>6. log' \in Seq(Record) /\ HasNewest(log)'
      BY <2>4, <2>5, LogGrows DEF TypeOK, DiskOK, Shape
    <2>7. DiskOK' /\ NativeOK'
      BY <1>1, <2>5, <2>6 DEF TypeOK, DiskOK, NativeOK, HearConfirm
    <2>8. ThreadOK' /\ QueuesOK' /\ HistoryOK'
      BY <2>5 DEF TypeOK, ThreadOK, QueuesOK, HistoryOK, HearConfirm, Places
    <2>9. TurnOK' /\ RunnerOK'
      BY <2>1, <2>5 DEF TypeOK, TurnOK, RunnerOK, HearConfirm
    <2>10. Shape'
      BY <1>2, <2>5, <2>6 DEF Shape, HearConfirm
    <2> QED BY <2>7, <2>8, <2>9, <2>10 DEF TypeOK
  <1>3. CASE ~(awaiting # << >> /\ Head(awaiting).text = Head(inbox).text)
    <2>1. UNCHANGED <<log, turn, epochTurns, pc>>
      BY <1>3 DEF HearConfirm
    <2>2. DiskOK' /\ ThreadOK' /\ QueuesOK' /\ TurnOK' /\ RunnerOK' /\ HistoryOK'
      BY <2>1 DEF TypeOK, DiskOK, ThreadOK, QueuesOK, TurnOK, RunnerOK, HistoryOK,
           HearConfirm
    <2>3. NativeOK'
      BY <1>1 DEF TypeOK, NativeOK, HearConfirm
    <2>4. Shape'
      BY <2>1 DEF Shape, HearConfirm
    <2> QED BY <2>2, <2>3, <2>4 DEF TypeOK
  <1> QED BY <1>2, <1>3

\* CloseTurn keeps the types and the shape.
LEMMA CloseTurnType ==
    ASSUME TypeOK, Shape, CloseTurn
    PROVE  TypeOK' /\ Shape'
  <1> DEFINE texts == IF Retries THEN answering \o later ELSE << >>
             again == [i \in 1 .. Len(texts) |->
                          [id |-> nextId + i - 1, text |-> texts[i]]]
  <1>1. texts \in Seq(Text)
    BY EmptyTypes, ConcatProperties DEF TypeOK, QueuesOK
  <1> HIDE DEF texts
  <1>2. again \in Seq(Message)
    <2>1. Len(texts) \in Nat /\ \A i \in 1 .. Len(texts) : texts[i] \in Text
      BY <1>1
    <2>2. \A i \in 1 .. Len(texts) : [id |-> nextId + i - 1, text |-> texts[i]] \in Message
      BY <2>1 DEF TypeOK, HistoryOK, Message
    <2> QED BY <2>1, <2>2, IsASeq
  <1> HIDE DEF again
  <1>3. /\ pending' = again \o pending
        /\ outbox' = again \o (awaiting \o outbox)
        /\ nextId' = nextId + Len(texts)
    BY DEF CloseTurn, InFront, Requeue, texts, again
  <1>4. pending' \in Seq(Message) /\ outbox' \in Seq(Message)
    BY <1>2, <1>3, ConcatProperties DEF TypeOK, DiskOK, QueuesOK
  <1>5. nextId' \in Nat \ {0}
    BY <1>1, <1>3 DEF TypeOK, HistoryOK
  <1>6. DiskOK' /\ HistoryOK'
    BY <1>4, <1>5 DEF TypeOK, DiskOK, HistoryOK, CloseTurn
  <1>7. QueuesOK'
    BY <1>4, EmptyTypes DEF QueuesOK, CloseTurn
  <1>8. ThreadOK' /\ TurnOK'
    BY DEF TypeOK, ThreadOK, TurnOK, CloseTurn, Places
  <1>9. NativeOK' /\ runner' = "none" /\ open' = 0
    BY StopRunnerType DEF CloseTurn
  <1>10. RunnerOK'
    BY <1>9, ConstantsAssumption DEF TypeOK, RunnerOK, CloseTurn
  <1>11. Shape'
    BY <1>9 DEF Shape, CloseTurn
  <1> QED BY <1>6, <1>7, <1>8, <1>9, <1>10, <1>11 DEF TypeOK

-----------------------------------------------------------------------------
(* Types: recovering, going down, the runner. *)

\* CloseTurnEnd keeps the types and the shape.
LEMMA CloseTurnEndType ==
    ASSUME TypeOK, Shape, CloseTurnEnd
    PROVE  TypeOK' /\ Shape'
  <1>1. QueuesOK' /\ RunnerOK' /\ NativeOK' /\ HistoryOK'
    BY DEF TypeOK, QueuesOK, RunnerOK, NativeOK, HistoryOK, CloseTurnEnd
  <1>2. DiskOK'
    BY LoggedEnd DEF TypeOK, DiskOK, CloseTurnEnd
  <1>3. ThreadOK'
    BY DEF TypeOK, ThreadOK, Places, Goals, GoTo, Shape, CloseTurnEnd
  <1>4. TurnOK'
    BY DEF TypeOK, TurnOK, CloseTurnEnd
  <1>5. Shape'
    BY LoggedEnd DEF Shape, GoTo, CloseTurnEnd
  <1> QED BY <1>1, <1>2, <1>3, <1>4, <1>5 DEF TypeOK

\* Unauthenticated keeps the types and the shape.
LEMMA UnauthenticatedType ==
    ASSUME TypeOK, Shape, Unauthenticated
    PROVE  TypeOK' /\ Shape'
  <1>1. QueuesOK' /\ TurnOK' /\ NativeOK' /\ HistoryOK'
    BY DEF TypeOK, QueuesOK, TurnOK, NativeOK, HistoryOK, Unauthenticated
  <1>2. DiskOK'
    BY DEF TypeOK, DiskOK, MoveOn, Unauthenticated
  <1>3. ThreadOK'
    BY DEF TypeOK, ThreadOK, Places, Goals, GoTo, Back, MoveOn, Unauthenticated
  <1>4. RunnerOK'
    BY DEF TypeOK, RunnerOK, MoveOn, Unauthenticated
  <1>5. Shape'
    BY DEF Shape, GoTo, Back, MoveOn, Unauthenticated
  <1> QED BY <1>1, <1>2, <1>3, <1>4, <1>5 DEF TypeOK

\* Failed keeps the types and the shape.
LEMMA FailedType ==
    ASSUME TypeOK, Shape, Failed
    PROVE  TypeOK' /\ Shape'
  <1>1. DiskOK' /\ QueuesOK' /\ TurnOK' /\ NativeOK' /\ HistoryOK'
    BY DEF TypeOK, DiskOK, QueuesOK, TurnOK, NativeOK, HistoryOK, Failed
  <1>2. ThreadOK'
    BY DEF TypeOK, ThreadOK, Places, Goals, GoTo, Back, MoveOn, Failed
  <1>3. RunnerOK'
    BY DEF TypeOK, RunnerOK, MoveOn, DiskOK, Failed
  <1>4. Shape'
    BY DEF Shape, GoTo, Back, MoveOn, Failed
  <1> QED BY <1>1, <1>2, <1>3, <1>4 DEF TypeOK

\* RecoverContext keeps the types and the shape.
LEMMA RecoverContextType ==
    ASSUME TypeOK, Shape, RecoverContext
    PROVE  TypeOK' /\ Shape'
  <1>1. QueuesOK' /\ RunnerOK' /\ HistoryOK'
    BY DEF TypeOK, QueuesOK, RunnerOK, HistoryOK, RecoverContext
  <1>2. DiskOK'
    BY DEF TypeOK, DiskOK, Recovery, Stages, RecoverContext
  <1>3. ThreadOK'
    BY DEF TypeOK, ThreadOK, Places, Goals, StartHandoff, Closing, Back,
         RecoverContext
  <1>4. TurnOK'
    BY DEF TypeOK, TurnOK, RecoverContext
  <1>5. NativeOK'
    BY DEF TypeOK, NativeOK, RecoverContext
  <1>6. Shape'
    BY ConstantsAssumption DEF Shape, StartHandoff, Closing, Back,
         RecoverContext
  <1> QED BY <1>1, <1>2, <1>3, <1>4, <1>5, <1>6 DEF TypeOK

\* CompactionTimeout keeps the types and the shape.
LEMMA CompactionTimeoutType ==
    ASSUME TypeOK, Shape, CompactionTimeout
    PROVE  TypeOK' /\ Shape'
  <1>1. DiskOK' /\ QueuesOK' /\ TurnOK' /\ RunnerOK' /\ NativeOK' /\ HistoryOK'
    BY DEF TypeOK, DiskOK, QueuesOK, TurnOK, RunnerOK, NativeOK, HistoryOK,
         CompactionTimeout
  <1>2. ThreadOK'
    BY DEF TypeOK, ThreadOK, Places, Goals, StartHandoff, Closing,
         CompactionTimeout
  <1>3. Shape'
    BY DEF Shape, StartHandoff, Closing, CompactionTimeout
  <1> QED BY <1>1, <1>2, <1>3 DEF TypeOK

\* GiveUp keeps the types and the shape.
LEMMA GiveUpType ==
    ASSUME TypeOK, Shape, GiveUp
    PROVE  TypeOK' /\ Shape'
  <1>1. QueuesOK' /\ TurnOK' /\ RunnerOK' /\ NativeOK'
    BY DEF TypeOK, QueuesOK, TurnOK, RunnerOK, NativeOK, GiveUp
  <1>2. DiskOK'
    BY DEF TypeOK, DiskOK, SaveRecovery, NoRecovery, Recovery, Stages, GiveUp
  <1>3. ThreadOK'
    BY DEF TypeOK, ThreadOK, Places, Goals, SaveRecovery, GiveUp
  <1>4. HistoryOK'
    BY DEF TypeOK, HistoryOK, SaveRecovery, GiveUp
  <1>5. Shape'
    BY DEF Shape, GiveUp
  <1> QED BY <1>1, <1>2, <1>3, <1>4, <1>5 DEF TypeOK

\* GaveUp keeps the types and the shape.
LEMMA GaveUpType ==
    ASSUME TypeOK, Shape, GaveUp
    PROVE  TypeOK' /\ Shape'
  <1>1. QueuesOK' /\ TurnOK' /\ RunnerOK' /\ NativeOK' /\ HistoryOK'
    BY DEF TypeOK, QueuesOK, TurnOK, RunnerOK, NativeOK, HistoryOK, GaveUp
  <1>2. DiskOK'
    BY LoggedError DEF TypeOK, DiskOK, Kinds, GaveUp
  <1>3. ThreadOK'
    BY DEF TypeOK, ThreadOK, Places, Goals, Back, GaveUp
  <1>4. Shape'
    BY LoggedError DEF Shape, Kinds, Back, GaveUp
  <1> QED BY <1>1, <1>2, <1>3, <1>4 DEF TypeOK

\* Stop keeps the types and the shape.
LEMMA StopType ==
    ASSUME TypeOK, Shape, Stop
    PROVE  TypeOK' /\ Shape'
  <1>1. DiskOK' /\ QueuesOK' /\ TurnOK'
    BY DEF TypeOK, DiskOK, QueuesOK, TurnOK, Stop
  <1>2. HistoryOK'
    BY ConstantsAssumption DEF TypeOK, HistoryOK, Stop
  <1>3. ThreadOK'
    BY DEF TypeOK, ThreadOK, Places, Goals, Stop
  <1>4. RunnerOK'
    BY StopRunnerType, ConstantsAssumption DEF TypeOK, RunnerOK, Stop
  <1>5. NativeOK'
    BY StopRunnerType DEF TypeOK, NativeOK, Stop
  <1>6. Shape'
    BY StopRunnerType DEF Shape, Stop
  <1> QED BY <1>1, <1>2, <1>3, <1>4, <1>5, <1>6 DEF TypeOK

\* A queue with a recovery's message in front, and maybe one taken out.
LEMMA KeptType ==
    ASSUME NEW q \in Seq(Message), NEW id, NEW text \in Text, NEW n \in Nat,
           NEW drop \in BOOLEAN
    PROVE  InFront(<<[id |-> n, text |-> text]>>, IF drop THEN Without(q, id) ELSE q)
               \in Seq(Message)
  <1> DEFINE m == [id |-> n, text |-> text]
             k == IF drop THEN Without(q, id) ELSE q
  <1>1. m \in Message
    BY DEF Message
  <1>2. k \in Seq(Message)
    BY WithoutType
  <1> HIDE DEF m, k
  <1>3. <<m>> \in Seq(Message)
    BY <1>1
  <1>4. <<m>> \o k \in Seq(Message)
    BY <1>2, <1>3, ConcatProperties
  <1> QED BY <1>4 DEF InFront, m, k

\* The three messages a recovery makes up.
LEMMA RecoveryMessageType ==
    ASSUME TypeOK, Shape, NEW place, NEW stage \in Stages, NEW text \in Text,
           NEW fresh \in BOOLEAN, RecoveryMessage(place, stage, text, fresh)
    PROVE  TypeOK' /\ Shape'
  <1>1. nextId \in Nat /\ recovery.id \in Nat /\ Superseded(stage) \in BOOLEAN
    BY DEF TypeOK, DiskOK, HistoryOK, Recovery, Superseded
  <1>2. pending' \in Seq(Message) /\ outbox' \in Seq(Message)
    BY <1>1, KeptType DEF RecoveryMessage, TypeOK, DiskOK, QueuesOK
  <1>3. awaiting' \in Seq(Message)
    BY <1>1, WithoutType DEF RecoveryMessage, TypeOK, QueuesOK
  <1>4. recovery' = [stage |-> stage, id |-> nextId, words |-> stage = "Retrying"]
    BY DEF RecoveryMessage
  <1>5. historyStart' \in Nat \ {0}
    BY DEF RecoveryMessage, TypeOK, DiskOK, NextSeq
  <1>6. UNCHANGED <<log, settings, answering, later, nextTurns, changes, runner,
                    runnerEpoch, open>>
    BY DEF RecoveryMessage
  <1>7. DiskOK'
    BY <1>1, <1>2, <1>4, <1>5, <1>6 DEF TypeOK, DiskOK, Recovery
  <1>8. QueuesOK'
    BY <1>2, <1>3, <1>6 DEF TypeOK, QueuesOK
  <1>9. ThreadOK' /\ TurnOK'
    BY DEF TypeOK, ThreadOK, TurnOK, RecoveryMessage, Dispatch, DispatchPc, GoTo,
         Places, Goals
  <1>10. RunnerOK' /\ NativeOK'
    BY DEF TypeOK, RunnerOK, NativeOK, RecoveryMessage
  <1>11. HistoryOK'
    <2>1. withdrawn' \subseteq Nat
      BY <1>1 DEF TypeOK, HistoryOK, RecoveryMessage
    <2>2. /\ nextId' = nextId + 1
          /\ handoffs' = IF stage = "Handoff" THEN handoffs + 1 ELSE handoffs
          /\ UNCHANGED <<accepted, sends, downs, changes>>
      BY DEF RecoveryMessage
    <2> QED BY <2>1, <2>2 DEF TypeOK, HistoryOK
  <1>12. Shape'
    <2>1. pc' \in {"attempt", "flush"} /\ goal' = "flush"
      BY DEF RecoveryMessage, Dispatch, DispatchPc, GoTo
    <2> QED BY <1>6, <2>1 DEF Shape
  <1> QED BY <1>7, <1>8, <1>9, <1>10, <1>11, <1>12 DEF TypeOK

\* RecoveryEnded keeps the types and the shape.
LEMMA RecoveryEndedType ==
    ASSUME TypeOK, Shape, RecoveryEnded
    PROVE  TypeOK' /\ Shape'
  <1>1. RunnerOK' /\ NativeOK' /\ TurnOK'
    BY DEF TypeOK, RunnerOK, NativeOK, TurnOK, RecoveryEnded
  <1>2. QueuesOK'
    BY EmptyTypes DEF TypeOK, QueuesOK, RecoveryEnded
  <1>3. outbox # << >> => Head(outbox).id \in Nat
    BY MessageRead DEF TypeOK, QueuesOK
  <1>4. recovery' \in Recovery /\ deadline' \in BOOLEAN /\ handoffs' \in Nat
    <2> DEFINE Waiting(s) == [stage |-> s, id |-> Head(outbox).id, words |-> FALSE]
    <2>1. NoRecovery \in Recovery
      BY DEF NoRecovery, Recovery, Stages
    <2>2. \/ UNCHANGED <<recovery, deadline, handoffs>>
          \/ SaveRecovery(NoRecovery)
          \/ outbox # << >> /\ SaveRecovery(Waiting("Retrying"))
          \/ outbox # << >> /\ SaveRecovery(Waiting("Resuming"))
      BY DEF RecoveryEnded
    <2>3. outbox # << >> =>
              Waiting("Retrying") \in Recovery /\ Waiting("Resuming") \in Recovery
      BY <1>3 DEF Recovery, Stages
    <2> HIDE DEF Waiting
    <2>4. ASSUME NEW r \in Recovery, SaveRecovery(r)
          PROVE  recovery' \in Recovery /\ deadline' \in BOOLEAN /\ handoffs' \in Nat
      BY <2>4 DEF SaveRecovery, TypeOK, HistoryOK
    <2>5. CASE UNCHANGED <<recovery, deadline, handoffs>>
      BY <2>5 DEF TypeOK, DiskOK, ThreadOK, HistoryOK
    <2> QED BY <2>1, <2>2, <2>3, <2>4, <2>5
  <1>5. DiskOK' /\ HistoryOK'
    BY <1>4 DEF TypeOK, DiskOK, HistoryOK, RecoveryEnded
  <1>6. /\ pc' \in {"close", "replay", "finish", "attempt", "flush"}
        /\ pc' = "close" => goal' \in {"handoff", "giveUp", "continue"}
        /\ pc' = "attempt" => goal' \in {"flush", "finish"}
        /\ goal' \in Goals /\ culprit' \in {culprit, "none"} /\ finishing' = finishing
    BY DEF RecoveryEnded, StartHandoff, Closing, GoTo, Dispatch, DispatchPc, Goals
  <1>7. ThreadOK'
    BY <1>4, <1>6 DEF TypeOK, ThreadOK, RecoveryEnded, Places
  <1>8. Shape'
    BY <1>6 DEF Shape, RecoveryEnded
  <1> QED BY <1>1, <1>2, <1>5, <1>7, <1>8 DEF TypeOK

\* ResumeRecovery keeps the types and the shape.
LEMMA ResumeRecoveryType ==
    ASSUME TypeOK, Shape, ResumeRecovery
    PROVE  TypeOK' /\ Shape'
  <1>1. turnFailed' \in Kinds \cup {"none", "unfinished"}
    <2>1. CASE turnFailed' = turnFailed
      BY <2>1 DEF TypeOK, TurnOK
    <2>2. CASE turnFailed' = "unfinished"
      BY <2>2
    <2>3. CASE turnFailed' = Outcome
      <3>1. CASE Outcomes = {}
        BY <2>3, <3>1 DEF Outcome
      <3>2. CASE Outcomes # {}
        <4>1. PICK n \in Outcomes : \A j \in Outcomes : j <= n
          BY <3>2, OutcomesEnd
        <4> DEFINE k == CHOOSE i \in Outcomes : \A j \in Outcomes : j <= i
        <4>2. k \in Outcomes
          BY <4>1
        <4>3. Outcome = log[k].why
          BY <3>2 DEF Outcome
        <4> HIDE DEF k
        <4>4. k \in DOMAIN log /\ log[k].type \in {"ERROR", "TEXT"}
          BY <4>2 DEF Outcomes
        <4>5. log[k] \in Record
          BY <4>4 DEF TypeOK, DiskOK
        <4> QED BY <2>3, <4>3, <4>4, <4>5 DEF Record
      <3> QED BY <3>1, <3>2
    <2>4. turnFailed' \in {turnFailed, "unfinished", Outcome}
      BY DEF ResumeRecovery
    <2> QED BY <2>1, <2>2, <2>3, <2>4
  <1>2. DiskOK' /\ QueuesOK' /\ RunnerOK' /\ NativeOK' /\ HistoryOK'
    BY DEF TypeOK, DiskOK, QueuesOK, RunnerOK, NativeOK, HistoryOK, ResumeRecovery
  <1>3. TurnOK'
    BY <1>1 DEF TypeOK, TurnOK, ResumeRecovery
  <1>4. /\ pc' \in {"close", "attempt", "recoveryEnded"}
        /\ pc' = "close" => goal' = "handoff"
        /\ pc' = "attempt" => goal' = "flush"
        /\ goal' \in Goals /\ culprit' \in {culprit, "none"} /\ finishing' = finishing
    BY DEF ResumeRecovery, StartHandoff, Closing, GoTo, Goals
  <1>5. ThreadOK'
    BY <1>4 DEF TypeOK, ThreadOK, ResumeRecovery, Places
  <1>6. Shape'
    BY <1>4 DEF Shape, ResumeRecovery
  <1> QED BY <1>2, <1>3, <1>5, <1>6 DEF TypeOK

\* Memory is lost, the files are not.
LEMMA ColdType ==
    ASSUME TypeOK, Shape, Cold, UNCHANGED <<config, changes>>, HasNewest(log)'
    PROVE  ThreadOK' /\ QueuesOK' /\ TurnOK' /\ RunnerOK' /\ NativeOK' /\ Shape'
  <1>1. ThreadOK'
    BY DEF Cold, ThreadOK, Places, Goals
  <1>2. QueuesOK' /\ NativeOK'
    BY EmptyTypes DEF Cold, QueuesOK, NativeOK
  <1>3. TurnOK'
    <2>1. turn' \in Int /\ turn' >= -1
      <3>1. turn' = -1
        BY DEF Cold
      <3> QED BY <3>1
    <2>2. /\ inTurn' \in BOOLEAN /\ turnRecorded' \in BOOLEAN
          /\ turnFailed' \in Kinds \cup {"none", "unfinished"}
      BY DEF Cold
    <2> QED BY <2>1, <2>2 DEF TurnOK
  <1>4. RunnerOK'
    BY ConstantsAssumption DEF Cold, RunnerOK, NoSignature, Signature
  <1>5. Shape'
    BY DEF Cold, Shape
  <1> QED BY <1>1, <1>2, <1>3, <1>4, <1>5

\* StopEnd keeps the types and the shape.
LEMMA StopEndType ==
    ASSUME TypeOK, Shape, StopEnd
    PROVE  TypeOK' /\ Shape'
  <1>1. log' \in Seq(Record) /\ HasNewest(log)'
    <2>1. CASE inTurn /\ turnRecorded
      BY <2>1, LoggedEnd DEF StopEnd
    <2>2. CASE ~(inTurn /\ turnRecorded)
      BY <2>2 DEF StopEnd, TypeOK, DiskOK, Shape
    <2> QED BY <2>1, <2>2
  <1>2. DiskOK'
    BY <1>1 DEF TypeOK, DiskOK, StopEnd
  <1>3. HistoryOK'
    BY DEF TypeOK, HistoryOK, StopEnd, Cold
  <1> QED BY <1>1, <1>2, <1>3, ColdType DEF StopEnd, TypeOK

\* Crash keeps the types and the shape.
LEMMA CrashType ==
    ASSUME TypeOK, Shape, Crash
    PROVE  TypeOK' /\ Shape'
  <1>1. DiskOK' /\ HasNewest(log)'
    BY DEF TypeOK, DiskOK, Shape, Crash
  <1>2. HistoryOK'
    BY ConstantsAssumption DEF TypeOK, HistoryOK, Crash, Cold
  <1> QED BY <1>1, <1>2, ColdType DEF Crash, TypeOK

\* A step of the runner changes only its own side.
LEMMA RunnerStepType ==
    ASSUME TypeOK, Shape, RunnerOnly, NativeOK', runner # "none"
    PROVE  TypeOK' /\ Shape'
  <1>1. DiskOK' /\ ThreadOK' /\ QueuesOK' /\ TurnOK' /\ RunnerOK' /\ HistoryOK'
    BY DEF TypeOK, DiskOK, ThreadOK, QueuesOK, TurnOK, RunnerOK, HistoryOK, RunnerOnly
  <1>2. Shape'
    BY DEF Shape, RunnerOnly
  <1> QED BY <1>1, <1>2 DEF TypeOK

\* What a runner posts is what the conductor expects to hear.
LEMMA PostType ==
    ASSUME TypeOK, Shape, runner # "none"
    PROVE  /\ \A text \in Text, why \in Openings : Post("CONFIRM", text, why) \in Heard
           /\ Post("TEXT", "", "none") \in Heard
           /\ \A k \in Kinds : Post("ERROR", "", k) \in Heard
           /\ \A why \in {"none", "status"} : Post("END", "", why) \in Heard
  BY DEF Shape, Post, Heard

\* ... and the inbox takes it.
LEMMA Posted ==
    ASSUME TypeOK, NEW h \in Heard
    PROVE  Append(inbox, h) \in Seq(Heard)
  BY DEF TypeOK, NativeOK

\* Echo keeps the types and the shape.
LEMMA EchoType ==
    ASSUME TypeOK, Shape, Echo
    PROVE  TypeOK' /\ Shape'
  <1>1. runner # "none" /\ RunnerOnly
    BY DEF Echo, Runs
  <1>2. Head(piped) \in Text /\ Tail(piped) \in Seq(Text)
    BY DEF TypeOK, NativeOK, Echo
  <1> DEFINE h == Post("CONFIRM", Head(piped), IF open = 0 THEN "START" ELSE "INJECTED")
  <1>3. h \in Heard
    BY <1>1, <1>2, PostType DEF Openings
  <1>4. inbox' = Append(inbox, h)
    BY DEF Echo
  <1> HIDE DEF h
  <1>5. NativeOK'
    BY <1>2, <1>3, <1>4 DEF TypeOK, NativeOK, Echo
  <1> QED BY <1>1, <1>5, RunnerStepType

\* Speak keeps the types and the shape.
LEMMA SpeakType ==
    ASSUME TypeOK, Shape, Speak
    PROVE  TypeOK' /\ Shape'
  <1>1. runner # "none" /\ RunnerOnly
    BY DEF Speak, Runs
  <1>2. inbox' \in Seq(Heard)
    BY <1>1, PostType, Posted DEF Speak
  <1>3. NativeOK'
    BY <1>2 DEF TypeOK, NativeOK, Speak
  <1> QED BY <1>1, <1>3, RunnerStepType

\* EndTurn keeps the types and the shape.
LEMMA EndTurnType ==
    ASSUME TypeOK, Shape, NEW why \in {"none", "status"}, EndTurn(why)
    PROVE  TypeOK' /\ Shape'
  <1>1. runner # "none" /\ RunnerOnly
    BY DEF EndTurn, Runs
  <1>2. open - 1 \in Nat
    <2>1. open \in Nat /\ open > 0
      BY DEF TypeOK, NativeOK, EndTurn
    <2> QED BY <2>1
  <1>3. inbox' \in Seq(Heard)
    BY <1>1, PostType, Posted DEF EndTurn
  <1>4. NativeOK'
    BY <1>2, <1>3 DEF TypeOK, NativeOK, EndTurn
  <1> QED BY <1>1, <1>4, RunnerStepType

\* FailTurn keeps the types and the shape.
LEMMA FailTurnType ==
    ASSUME TypeOK, Shape, NEW k \in ErrorKinds, FailTurn(k)
    PROVE  TypeOK' /\ Shape'
  <1>1. runner # "none" /\ RunnerOnly
    BY DEF FailTurn, Runs
  <1>2. open - 1 \in Nat
    <2>1. open \in Nat /\ open > 0
      BY DEF TypeOK, NativeOK, FailTurn
    <2> QED BY <2>1
  <1> DEFINE e == Post("ERROR", "", k)
             f == Post("END", "", "none")
  <1>3. e \in Heard /\ f \in Heard
    BY <1>1, PostType, ConstantsAssumption
  <1>4. inbox' = inbox \o <<e, f>>
    BY DEF FailTurn
  <1> HIDE DEF e, f
  <1>5. <<e, f>> \in Seq(Heard)
    BY <1>3
  <1>6. inbox' \in Seq(Heard)
    BY <1>4, <1>5, ConcatProperties DEF TypeOK, NativeOK
  <1>7. NativeOK'
    BY <1>2, <1>6 DEF TypeOK, NativeOK, FailTurn
  <1> QED BY <1>1, <1>7, RunnerStepType

\* Exit keeps the types and the shape.
LEMMA ExitType ==
    ASSUME TypeOK, Shape, Exit
    PROVE  TypeOK' /\ Shape'
  <1>1. runner # "none" /\ RunnerOnly
    BY DEF Exit, Runs
  <1>2. NativeOK'
    BY DEF TypeOK, NativeOK, Exit
  <1> QED BY <1>1, <1>2, RunnerStepType

\* Reap keeps the types and the shape.
LEMMA ReapType ==
    ASSUME TypeOK, Shape, Reap
    PROVE  TypeOK' /\ Shape'
  <1>1. runner # "none" /\ RunnerOnly
    BY DEF Reap
  <1>2. Post("ERROR", "", "crash") \in Heard
    BY <1>1, PostType DEF Kinds
  <1>3. inbox' \in Seq(Heard)
    BY <1>2, Posted DEF Reap
  <1>4. NativeOK'
    BY <1>3 DEF TypeOK, NativeOK, Reap
  <1> QED BY <1>1, <1>4, RunnerStepType

-----------------------------------------------------------------------------
(* Type correctness. *)

\* A session starts well formed.
LEMMA InitType == Init => TypeOK /\ Shape
  <1> SUFFICES ASSUME Init PROVE TypeOK /\ Shape
    OBVIOUS
  <1>1. DiskOK
    BY EmptyTypes, ConstantsAssumption DEF Init, DiskOK, NoRecovery, Recovery, Stages
  <1>2. ThreadOK
    BY DEF Init, ThreadOK, Places, Goals
  <1>3. QueuesOK
    BY EmptyTypes DEF Init, QueuesOK
  <1>4. TurnOK
    <2>1. turn \in Int /\ turn >= -1
      <3>1. turn = -1
        BY DEF Init
      <3> QED BY <3>1
    <2>2. /\ inTurn \in BOOLEAN /\ turnRecorded \in BOOLEAN
          /\ turnFailed \in Kinds \cup {"none", "unfinished"}
      BY DEF Init
    <2> QED BY <2>1, <2>2 DEF TurnOK
  <1>5. RunnerOK
    BY ConstantsAssumption DEF Init, RunnerOK, NoSignature, Signature
  <1>6. NativeOK
    BY EmptyTypes DEF Init, NativeOK
  <1>7. HistoryOK
    BY ConstantsAssumption DEF Init, HistoryOK
  <1>8. Shape
    <2>1. Turns(log) = {-1}
      BY DEF Init, Turns
    <2>2. HasNewest(log)
      BY <2>1 DEF HasNewest
    <2>3. config = 0 /\ changes \in Nat
      BY ConstantsAssumption DEF Init
    <2>4. config <= changes
      BY <2>3
    <2>5. pc = "down" /\ runner = "none" /\ open = 0
      BY DEF Init
    <2> QED BY <2>2, <2>4, <2>5 DEF Shape
  <1> QED BY <1>1, <1>2, <1>3, <1>4, <1>5, <1>6, <1>7, <1>8 DEF TypeOK

\* Every step of every part keeps it so.
LEMMA StepType == TypeOK /\ Shape /\ [Next]_vars => TypeOK' /\ Shape'
  <1> SUFFICES ASSUME TypeOK, Shape, [Next]_vars PROVE TypeOK' /\ Shape'
    OBVIOUS
  <1>1. CASE Work
    <2>1. CASE Handoff
      BY <2>1, RecoveryMessageType DEF Handoff, Stages, Text
    <2>2. CASE Continue
      BY <2>2, RecoveryMessageType DEF Continue, Stages, Text
    <2>3. CASE Replay
      BY <2>3, RecoveryMessageType DEF Replay, Stages, Text
    <2>4. CASE Hear
      BY <2>4, HearStragglerType, HearConfirmType, HearTextType, HearEndType,
         HearErrorType, HearStoppingType DEF Hear
    <2>5. CASE Refuse
      BY <2>5, RefusedForContextType, RefusedType DEF Refuse
    <2>6. CASE \/ ReconcileDrop \/ ReconcileCommit \/ LaunchOnce \/ Acknowledge
               \/ AttemptKept \/ AttemptLaunch \/ AttemptRetune \/ AttemptFails
               \/ AttemptNoRung \/ Blocked
      BY <2>6, ReconcileDropType, ReconcileCommitType, LaunchOnceType,
         AcknowledgeType, AttemptKeptType, AttemptLaunchType, AttemptRetuneType,
         AttemptFailsType, AttemptNoRungType, BlockedType
    <2>7. CASE \/ Flush \/ DeliverDone \/ DeliverEchoed \/ DeliverOpening \/ Complete
               \/ Confirmed \/ Finish \/ CloseTurn \/ CloseTurnEnd
               \/ Unauthenticated \/ Failed
      BY <2>7, FlushType, DeliverDoneType, DeliverEchoedType, DeliverOpeningType,
         CompleteType, ConfirmedType, FinishType, CloseTurnType, CloseTurnEndType,
         UnauthenticatedType, FailedType
    <2>8. CASE \/ RecoverContext \/ CompactionTimeout \/ RecoveryEnded \/ GiveUp
               \/ GaveUp \/ ResumeRecovery \/ StopEnd
      BY <2>8, RecoverContextType, CompactionTimeoutType, RecoveryEndedType,
         GiveUpType, GaveUpType, ResumeRecoveryType, StopEndType
    <2> QED BY <1>1, <2>1, <2>2, <2>3, <2>4, <2>5, <2>6, <2>7, <2>8 DEF Work
  <1>2. CASE Client
    BY <1>2, SendType, SetProvidersType, SetAutoremoveType, SetOtherType, StopType,
       OpenAtType DEF Client
  <1>3. CASE Provider
    BY <1>3, EchoType, SpeakType, ExitType, ReapType, EndTurnType, FailTurnType
       DEF Provider
  <1>4. CASE Crash
    BY <1>4, CrashType
  <1>5. CASE UNCHANGED vars
    <2>1. DiskOK' /\ ThreadOK' /\ QueuesOK' /\ TurnOK'
      BY <1>5 DEF TypeOK, DiskOK, ThreadOK, QueuesOK, TurnOK, vars
    <2>2. RunnerOK' /\ NativeOK' /\ HistoryOK'
      BY <1>5 DEF TypeOK, RunnerOK, NativeOK, HistoryOK, vars
    <2>3. Shape'
      BY <1>5 DEF Shape, vars
    <2> QED BY <2>1, <2>2, <2>3 DEF TypeOK
  <1> QED BY <1>1, <1>2, <1>3, <1>4, <1>5 DEF Next

\* The types and the shape of the state are an invariant.
THEOREM Inductive == Spec => [](TypeOK /\ Shape)
  BY InitType, StepType, PTL DEF Spec

\* Every variable of the conductor, of its files and of its runner keeps its
\* type: no handler reads the head of an empty queue, goes to a place that does
\* not exist, or picks a provider that is not one.
THEOREM TypeCorrect == Spec => []TypeOK
  BY Inductive, PTL
=============================================================================
