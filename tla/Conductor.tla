------------------------------ MODULE Conductor ------------------------------
(***************************************************************************)
(* The conductor of one chat: the thread that runs Chat::run in            *)
(* crates/omni-core/src/chat.rs, the two files it keeps (the event log of  *)
(* session/store.rs, the metadata of session/meta.rs) and the provider CLI *)
(* ("runner") it talks to.                                                 *)
(*                                                                         *)
(* The conductor handles one wake at a time.  A handler is cut into steps  *)
(* of at most one write to a file, so that Crash, which also stands for a  *)
(* write that fails, can fall between any two writes; `pc' says where in   *)
(* the handler the thread is, `goal' what follows a provider launch or the *)
(* closing of a turn.  Handlers call each other only in tail position, with*)
(* one exception: finish_turn looks at the queues once more after flush,   *)
(* which is what `finishing' remembers.                                    *)
(*                                                                         *)
(* Left to other modules: provider watermarks and parked runners, the      *)
(* publication of events to listeners, and the texts that are sent.        *)
(***************************************************************************)
EXTENDS Integers, Sequences, FiniteSets

CONSTANTS
    Providers,        \* names a chat may be told to use
    Resolve(_, _),    \* choose.rs: the provider a setting picks from a set,
                      \* or "none" if the set has none that it allows
    Delivery,         \* how each provider takes a message, see Deliveries
    Compacts,         \* providers that can compact their own context
    Words,            \* what users say
    ErrorKinds,       \* errors a provider may end a turn on
    RefusalKinds,     \* errors with which a provider may refuse a message
    Nature,           \* what else may happen, see Happenings
    MaxSends, MaxEpochs, MaxDowns, MaxChanges, MaxInbox,  \* bounds
    Spent             \* what of these bounds is used up before a behaviour begins

Deliveries == {"echoed", "steered", "queued"}
Kinds == {"context", "crash", "auth", "limit"}

\* A model says something, a provider does not start, its process exits; and
\* ("race") a client's message may be handled between the death of a process and
\* the handling of its exit event.
Happenings == {"talk", "no start", "exit", "race"}

ASSUME ConstantsAssumption ==
    /\ "none" \notin Providers
    /\ \A c \in 0 .. MaxChanges : \A S \in SUBSET Providers :
           Resolve(c, S) \in S \cup {"none"}
    /\ Delivery \in [Providers -> Deliveries]
    /\ Compacts \subseteq {p \in Providers : Delivery[p] = "steered"}
    /\ ErrorKinds \subseteq Kinds /\ RefusalKinds \subseteq Kinds
    /\ Nature \subseteq Happenings
    /\ MaxSends \in Nat /\ MaxEpochs \in Nat /\ MaxDowns \in Nat
    /\ MaxChanges \in Nat /\ MaxInbox \in Nat
    /\ Spent \subseteq [sends : 0 .. MaxSends, downs : 0 .. MaxDowns, changes : 0 .. MaxChanges]

VARIABLES
    (* What is on disk. *)
    log,              \* the event log, without CONFIG-like events
    pending,          \* metadata: accepted messages not yet retired
    recovery,         \* metadata: the context recovery under way
    historyStart,     \* metadata: first log position of the current context
    providers,        \* metadata: the active providers
    autoremove,       \* metadata: fail over to other providers?
    config,           \* metadata: every other setting, as a version number
    (* What the conductor thread keeps. *)
    pc, goal, culprit, finishing, stopping, launchedOnce, deadline, status,
    outbox, awaiting, answering, later, nextTurns,
    turn, inTurn, turnRecorded, turnFailed,
    runner, runnerEpoch, nextEpoch, epochTurns, current, benched,
    (* The runner's side, and what it has posted to the conductor's inbox. *)
    inbox, open, spoke, piped, life,
    (* History variables and the counters of the bounds. *)
    nextId, accepted, withdrawn, handoffs, sends, downs, changes

settings == <<providers, autoremove, config>>
disk     == <<log, pending, recovery, historyStart, settings>>
control  == <<stopping, launchedOnce, deadline>>
queues   == <<outbox, awaiting>>
unanswered == <<answering, later, nextTurns>>
turnVars == <<turn, inTurn, turnRecorded, turnFailed>>
runVars  == <<runner, runnerEpoch, nextEpoch, epochTurns, current, benched>>
native   == <<inbox, open, spoke, piped, life>>
history  == <<nextId, accepted, withdrawn, handoffs>>
bounds   == <<sends, downs, changes>>
vars     == <<disk, pc, goal, culprit, finishing, status, control, queues, unanswered,
              turnVars, runVars, native, history, bounds>>

-----------------------------------------------------------------------------
(* Data. *)

\* A text is what a user said, or one that recovery makes up.
Text == Words \cup {"retry", "handoff", "continue"}
Message == [id : Nat, text : Text]

Openings == {"START", "INJECTED"}
Record ==
    {r \in [type : Openings \cup {"TEXT", "ERROR", "END"}, id : Nat, turn : Int,
            late : BOOLEAN,
            why : Kinds \cup {"none", "same_turn", "next_turn", "interrupted",
                              "status"}] :
        r.type \in {"TEXT", "ERROR"} => r.why \in Kinds \cup {"none"}}
Rec(type, id, t, late, why) ==
    [type |-> type, id |-> id, turn |-> t, late |-> late, why |-> why]

Stages == {"none", "Compacting", "Retrying", "Handoff", "Continuing", "Resuming"}
\* `words': there is a text to replay once the context has been compacted.
Recovery == [stage : Stages, id : Nat, words : BOOLEAN]
NoRecovery == [stage |-> "none", id |-> 0, words |-> FALSE]

\* What a runner posts: the epoch names the runner instance.
Heard ==
    {h \in [epoch : 1 .. MaxEpochs, type : {"CONFIRM", "TEXT", "ERROR", "END"},
            text : Text \cup {""},
            why : Kinds \cup Openings \cup {"none", "interrupted", "status"}] :
        /\ h.type = "CONFIRM" => h.text \in Text /\ h.why \in Openings
        /\ h.type = "TEXT" => h.why = "none"
        /\ h.type = "ERROR" => h.why \in Kinds
        /\ h.type = "END" => h.why \in {"none", "interrupted", "status"}}

NoSignature == [provider |-> "none", config |-> 0]
Signature == [provider : Providers \cup {"none"}, config : Nat]

Ids(q) == {q[i].id : i \in DOMAIN q}

\* (Mutant of Opened: messages put into a running turn are overlooked.)
OpenedByStart(l) == {l[i].id : i \in {j \in DOMAIN l : l[j].type = "START"}}

\* The ids of the messages with an opening event in the log.
Opened(l) == {l[i].id : i \in {j \in DOMAIN l : l[j].type \in Openings}}

\* (Mutant of Without: the messages behind it go with it.)
Truncated(q, id) ==
    IF id \notin Ids(q) THEN q
    ELSE SubSeq(q, 1, (CHOOSE i \in DOMAIN q : q[i].id = id) - 1)

\* `retain(|message| message.id != id)'; an id occurs at most once in a queue.
Without(q, id) ==
    IF id \notin Ids(q) THEN q
    ELSE LET k == CHOOSE i \in DOMAIN q : q[i].id = id
         IN  [i \in 1 .. Len(q) - 1 |-> IF i < k THEN q[i] ELSE q[i + 1]]

\* New attempts go in front of a queue.
Behind(ms, q) == q \o ms   \* (mutant of InFront)
InFront(ms, q) == ms \o q

\* (Mutant of LastTurn: off by one, as a position in the log.)
LastTurnByLength(l) == Len(l) - 2

\* The newest turn in the log, -1 before the first.
Turns(l) == {-1} \cup {l[i].turn : i \in DOMAIN l}
LastTurn(l) == CHOOSE t \in Turns(l) : \A u \in Turns(l) : u <= t
HasNewest(l) == \E t \in Turns(l) : \A u \in Turns(l) : u <= t

-----------------------------------------------------------------------------
(* Predicates of the conductor's state. *)

AllProviders == providers   \* (mutant of Usable: nobody is set aside)
Usable == providers \ benched
Rung == Resolve(config, Usable)
Wanted == [provider |-> Rung, config |-> config]

Stale == /\ current # NoSignature
         /\ Rung = "none" \/ current # Wanted

Alive == runner # "none" /\ life # "dead"

Recovering == recovery.stage # "none"

\* A compaction whose deadline is not set has run out of time already.
MustTimeOut == recovery.stage = "Compacting" /\ ~deadline

\* The thread takes the next wake.  The registry posts Configure and LaunchReady
\* before it starts the thread, so launch_once comes before any other wake.
Receiving == pc = "recv" /\ ~MustTimeOut

\* flush hands over only the message the recovery waits for.
Gated == /\ Recovering /\ outbox # << >>
         /\ recovery.stage = "Compacting" \/ recovery.id # Head(outbox).id

\* (Mutant of DispatchPc: the settings are not looked at between turns.)
DispatchAnyway(busy) == IF ~Alive THEN "attempt" ELSE "flush"

\* dispatch_queued: a runner is launched if none is up, or if the settings
\* moved between turns.
DispatchPc(busy) ==
    IF ~Alive \/ (~busy /\ Stale) THEN "attempt" ELSE "flush"

-----------------------------------------------------------------------------
(* Steps shared by several handlers. *)

\* The handler is done: back to the inbox.  finish_turn's last look at the
\* queues comes first, if finish_turn is what led here.
Back(st) ==
    /\ pc' = IF stopping THEN "drain" ELSE "recv"
    /\ goal' = "none" /\ finishing' = FALSE
    /\ status' = IF finishing /\ ~inTurn' /\ outbox' = << >> /\ awaiting' = << >>
                 THEN "waiting" ELSE st

GoTo(place, then) == pc' = place /\ goal' = then /\ UNCHANGED finishing

\* dispatch_queued
Dispatch(busy) == GoTo(DispatchPc(busy), "flush")

\* (Mutant of Closing: on to what follows at once.)
SkipsClosing(then, whom) ==
    pc' = then /\ goal' = "none" /\ culprit' = whom /\ UNCHANGED finishing

\* close_turn, followed by `then'; whom is the provider that is blamed.
Closing(then, whom) ==
    pc' = "close" /\ goal' = then /\ culprit' = whom /\ UNCHANGED finishing

\* start_handoff
StartHandoff == Closing("handoff", "none")

\* remember_message: `answering' is the front group of Chat::unanswered, the
\* messages of the native turn that is running; `later' the other groups,
\* which have one message each.
Remember(text, nextTurn) ==
    IF answering = << >> THEN answering' = <<text>> /\ UNCHANGED later
    ELSE IF nextTurn THEN later' = Append(later, text) /\ UNCHANGED answering
    ELSE answering' = Append(answering, text) /\ UNCHANGED later

\* anyone_left, with the providers ps of which bs are set aside: go on with
\* another provider, or give all of them another chance at the next send.
MoveOn(ps, bs, then) ==
    IF ps \ bs # {} THEN GoTo("attempt", then) /\ benched' = bs
    ELSE /\ GoTo("blocked", "none")
         /\ benched' = IF ps = {} THEN bs ELSE {}

\* Everything that lives in memory, as it is before a session is opened.
Cold ==
    /\ pc' = "down" /\ goal' = "none" /\ culprit' = "none" /\ finishing' = FALSE
    /\ status' = "stopped" /\ stopping' = FALSE /\ launchedOnce' = FALSE
    /\ deadline' = FALSE /\ outbox' = << >> /\ awaiting' = << >>
    /\ answering' = << >> /\ later' = << >> /\ nextTurns' = 0
    /\ turn' = -1 /\ inTurn' = FALSE /\ turnRecorded' = FALSE
    /\ turnFailed' = "none"
    /\ runner' = "none" /\ runnerEpoch' = 0 /\ nextEpoch' = 1
    /\ epochTurns' = [e \in 1 .. MaxEpochs |-> -1]
    /\ current' = NoSignature /\ benched' = {}
    /\ inbox' = << >> /\ open' = 0 /\ spoke' = FALSE /\ piped' = << >>
    /\ life' = "up"

Init ==
    /\ log = << >> /\ pending = << >> /\ recovery = NoRecovery /\ historyStart = 1
    /\ providers = Providers /\ autoremove = TRUE /\ config = 0
    /\ pc = "down" /\ goal = "none" /\ culprit = "none" /\ finishing = FALSE
    /\ status = "stopped" /\ stopping = FALSE /\ launchedOnce = FALSE
    /\ deadline = FALSE /\ outbox = << >> /\ awaiting = << >>
    /\ answering = << >> /\ later = << >> /\ nextTurns = 0
    /\ turn = -1 /\ inTurn = FALSE /\ turnRecorded = FALSE /\ turnFailed = "none"
    /\ runner = "none" /\ runnerEpoch = 0 /\ nextEpoch = 1
    /\ epochTurns = [e \in 1 .. MaxEpochs |-> -1]
    /\ current = NoSignature /\ benched = {}
    /\ inbox = << >> /\ open = 0 /\ spoke = FALSE /\ piped = << >> /\ life = "up"
    /\ nextId = 1 /\ accepted = {} /\ withdrawn = {} /\ handoffs = 0
    /\ \E s \in Spent : sends = s.sends /\ downs = s.downs /\ changes = s.changes

-----------------------------------------------------------------------------
(* Opening a session. *)

\* open_at: load both files; the outbox is what the metadata holds.
OpenAt ==
    /\ pc = "down"
    /\ outbox' = pending
    /\ turn' = LastTurn(log)
    /\ pc' = "reconcile"
    /\ UNCHANGED <<disk, goal, culprit, finishing, status, control, awaiting, unanswered,
                   inTurn, turnRecorded, turnFailed, runVars, native, history,
                   bounds>>

\* Meta::reconcile: a message with an opening event was delivered before the
\* session went down, and is not sent again.
ReconcileDrop ==
    /\ pc = "reconcile"
    /\ \E i \in DOMAIN outbox :
           /\ outbox[i].id \in Opened(log)
           /\ outbox' = Without(outbox, outbox[i].id)
    /\ UNCHANGED <<disk, pc, goal, culprit, finishing, status, control, awaiting,
                   unanswered, turnVars, runVars, native, history, bounds>>

\* ... and the list that is left is committed at once.  The thread starts.
ReconcileCommit ==
    /\ pc = "reconcile"
    /\ Ids(outbox) \cap Opened(log) = {}
    /\ pending' = outbox
    /\ pc' = "recv" /\ status' = "waiting"
    /\ UNCHANGED <<log, recovery, historyStart, settings, goal, culprit,
                   finishing, control, queues, unanswered, turnVars, runVars, native,
                   history, bounds>>

\* launch_once, for the wakes Launch and LaunchReady.
LaunchOnce ==
    /\ Receiving /\ ~launchedOnce
    /\ launchedOnce' = TRUE
    /\ IF Recovering THEN GoTo("resume", "none")
       ELSE GoTo(IF Alive /\ ~Stale THEN "flush" ELSE "attempt", "flush")
    /\ UNCHANGED <<disk, culprit, status, stopping, deadline, queues, unanswered, turnVars,
                   runVars, native, history, bounds>>

-----------------------------------------------------------------------------
(* Clients. *)

\* enqueue, the durable half of SendDurable and of Send.
Send(w) ==
    /\ Receiving /\ launchedOnce /\ sends < MaxSends
    /\ "race" \in Nature \/ life # "dead"
    /\ LET m == [id |-> nextId, text |-> w]
       IN  pending' = Append(pending, m) /\ outbox' = Append(outbox, m)
    /\ nextId' = nextId + 1 /\ sends' = sends + 1
    /\ status' = "busy" /\ pc' = "ack"
    /\ UNCHANGED <<log, recovery, historyStart, settings, goal, culprit,
                   finishing, control, awaiting, unanswered, turnVars, runVars, native,
                   accepted, withdrawn, handoffs, downs, changes>>

\* Only then is the client told that its message was accepted.
Acknowledge ==
    /\ pc = "ack"
    /\ accepted' = accepted \cup {outbox[Len(outbox)].id}
    /\ Dispatch(inTurn)
    /\ UNCHANGED <<disk, culprit, status, control, queues, unanswered, turnVars, runVars,
                   native, nextId, withdrawn, handoffs, bounds>>

\* apply, for a change of the provider list: everyone gets another chance.
SetProviders(S) ==
    /\ Receiving /\ changes < MaxChanges
    /\ providers' = S /\ benched' = {} /\ changes' = changes + 1
    /\ UNCHANGED <<log, pending, recovery, historyStart, autoremove, config, pc, goal,
                   culprit, finishing, status, control, queues, unanswered, turnVars, runner,
                   runnerEpoch, nextEpoch, epochTurns, current, native, history,
                   sends, downs>>

\* apply, for the failover setting.
SetAutoremove ==
    /\ Receiving /\ changes < MaxChanges
    /\ autoremove' = ~autoremove /\ changes' = changes + 1
    /\ UNCHANGED <<log, pending, recovery, historyStart, providers, config, pc, goal,
                   culprit, finishing, status, control, queues, unanswered, turnVars,
                   runVars, native, history, sends, downs>>

\* apply, for any other setting: noted now, used at the next turn boundary.
SetOther ==
    /\ Receiving /\ changes < MaxChanges
    /\ config' = config + 1 /\ changes' = changes + 1
    /\ UNCHANGED <<log, pending, recovery, historyStart, providers, autoremove, pc, goal,
                   culprit, finishing, status, control, queues, unanswered, turnVars,
                   runVars, native, history, sends, downs>>

-----------------------------------------------------------------------------
(* Bringing a provider up: attempt, rebuild, launch, adopt. *)

\* The runner that is up has the settings that are wanted: it is parked and
\* taken back at once.
NeverAsWanted == FALSE   \* (mutant of AsWanted: a new one is started)
AsWanted == Alive /\ current = Wanted

AttemptKept ==
    /\ pc = "attempt" /\ Rung # "none" /\ AsWanted
    /\ epochTurns' = [epochTurns EXCEPT ![runnerEpoch] = turn]
    /\ pc' = goal /\ goal' = "none"
    /\ UNCHANGED <<disk, culprit, finishing, status, control, queues, unanswered,
                   turnVars, runner, runnerEpoch, nextEpoch, current, benched,
                   native, history, bounds>>

\* The runner that was up, if any, is put away and a new one is adopted.
AttemptLaunch ==
    /\ pc = "attempt" /\ Rung # "none" /\ ~AsWanted /\ nextEpoch <= MaxEpochs
    /\ runner' = Rung /\ runnerEpoch' = nextEpoch /\ nextEpoch' = nextEpoch + 1
    /\ epochTurns' = [epochTurns EXCEPT ![nextEpoch] = turn]
    /\ current' = Wanted
    /\ open' = 0 /\ spoke' = FALSE /\ piped' = << >> /\ life' = "up"
    /\ pc' = goal /\ goal' = "none"
    /\ UNCHANGED <<disk, culprit, finishing, status, control, queues, unanswered,
                   turnVars, benched, inbox, history, bounds>>

\* A change that the running CLI can take as it is.
AttemptRetune ==
    /\ pc = "attempt" /\ Rung # "none" /\ Alive /\ Stale
    /\ current.provider = Rung
    /\ current' = Wanted /\ pc' = goal /\ goal' = "none"
    /\ UNCHANGED <<disk, culprit, finishing, status, control, queues, unanswered,
                   turnVars, runner, runnerEpoch, nextEpoch, epochTurns, benched,
                   native, history, bounds>>

\* It will not start: set it aside and try the next one.
AttemptFails ==
    /\ pc = "attempt" /\ Rung # "none" /\ ~AsWanted
    /\ "no start" \in Nature \/ nextEpoch > MaxEpochs
    /\ runner' = "none" /\ runnerEpoch' = 0
    /\ open' = 0 /\ spoke' = FALSE /\ piped' = << >> /\ life' = "up"
    /\ nextEpoch' = IF nextEpoch <= MaxEpochs THEN nextEpoch + 1 ELSE nextEpoch
    /\ IF autoremove
       THEN /\ log' = Append(log, Rec("ERROR", 0, turn, FALSE, "crash"))
            /\ MoveOn(providers, benched \cup {Rung}, goal)
       ELSE GoTo("blocked", "none") /\ UNCHANGED <<log, benched>>
    /\ UNCHANGED <<pending, recovery, historyStart, settings, culprit,
                   status, control, queues, unanswered, turnVars, epochTurns, current,
                   inbox, history, bounds>>

\* The settings allow none of the usable providers; the runner that is up stays.
AttemptNoRung ==
    /\ pc = "attempt" /\ Rung = "none"
    /\ GoTo("blocked", "none")
    /\ UNCHANGED <<disk, culprit, status, control, queues, unanswered, turnVars, runVars,
                   native, history, bounds>>

\* blocked: say so and wait.  Queued messages stay queued.
Blocked ==
    /\ pc = "blocked"
    /\ log' = Append(log, Rec("ERROR", 0, turn, FALSE, "crash"))
    /\ UNCHANGED <<queues, turnVars>>
    /\ Back("waiting")
    /\ UNCHANGED <<pending, recovery, historyStart, settings, culprit,
                   control, unanswered, runVars, native, history, bounds>>

-----------------------------------------------------------------------------
(* Handing messages over: flush. *)

\* Its first test.
Flush ==
    /\ pc = "flush"
    /\ UNCHANGED <<queues, turnVars>>
    /\ CASE ~Alive /\ outbox # << >> -> GoTo("blocked", "none") /\ UNCHANGED status
         [] Alive /\ ~Stale -> GoTo("deliver", "none") /\ UNCHANGED status
         [] OTHER -> Back(status)
    /\ UNCHANGED <<disk, culprit, control, unanswered, runVars, native, history, bounds>>

\* The loop ends when the outbox is empty or a recovery holds it back.
DeliverDone ==
    /\ pc = "deliver"
    /\ outbox = << >> \/ Gated
    /\ UNCHANGED <<queues, turnVars>>
    /\ Back(status)
    /\ UNCHANGED <<disk, culprit, control, unanswered, runVars, native, history,
                   bounds>>

Delivering == pc = "deliver" /\ outbox # << >> /\ ~Gated

\* Delivery::Echoed: the opening event waits for the provider's echo.
DeliverEchoed ==
    /\ Delivering /\ life = "up" /\ Delivery[runner] = "echoed"
    /\ awaiting' = Append(awaiting, Head(outbox)) /\ outbox' = Tail(outbox)
    /\ piped' = Append(piped, Head(outbox).text)
    /\ inTurn' = TRUE /\ status' = "busy"
    /\ UNCHANGED <<disk, pc, goal, culprit, finishing, control, unanswered, turn,
                   turnRecorded, turnFailed, runVars, inbox, open, spoke, life,
                   history, bounds>>

\* Messages that will have an END of their own, besides the one of the turn
\* that is running.
CountsAlways(immediate) == inTurn            \* (mutants of NextTurn)
CountsNever(immediate) == FALSE
NextTurn(immediate) == inTurn /\ ~immediate

\* The provider took the message: into the turn it is running (Immediate, only
\* a "steered" one does) or as a native turn of its own (NextTurn).  The
\* opening event is recorded.
DeliverOpening ==
    /\ Delivering /\ life = "up" /\ Delivery[runner] # "echoed"
    /\ LET immediate == Delivery[runner] = "steered" /\ open > 0
           next == NextTurn(immediate)
           t == IF inTurn THEN turn ELSE turn + 1
       IN  /\ open' = IF immediate THEN open ELSE open + 1
           /\ log' = Append(log, Rec(IF inTurn THEN "INJECTED" ELSE "START",
                                     Head(outbox).id, t, FALSE,
                                     IF next THEN "next_turn" ELSE "same_turn"))
           /\ turn' = t
           /\ epochTurns' = [epochTurns EXCEPT ![runnerEpoch] = t]
           /\ nextTurns' = IF next THEN nextTurns + 1 ELSE nextTurns
    /\ pc' = "complete"
    /\ UNCHANGED <<pending, recovery, historyStart, settings, goal, culprit,
                   finishing, status, control, queues, answering, later, inTurn,
                   turnRecorded, turnFailed, runner, runnerEpoch, nextEpoch,
                   current, benched, inbox, spoke, piped, life, history, bounds>>

\* complete_message: then the message is retired from the metadata.
Complete ==
    /\ pc = "complete"
    /\ pending' = Without(pending, Head(outbox).id)
    /\ Remember(Head(outbox).text, log[Len(log)].why = "next_turn")
    /\ outbox' = Tail(outbox)
    /\ turnRecorded' = TRUE /\ inTurn' = TRUE /\ status' = "busy"
    /\ pc' = "deliver"
    /\ UNCHANGED <<log, recovery, historyStart, settings, goal, culprit,
                   finishing, control, awaiting, nextTurns, turn, turnFailed,
                   runVars, native, history, bounds>>

\* The provider refuses the message; a broken pipe always does.
Refusal(k) ==
    /\ Delivering
    /\ IF life = "up" THEN k \in RefusalKinds ELSE k = "crash"

RefusedForContext ==
    /\ Refusal("context")
    /\ log' = Append(log, Rec("ERROR", 0, turn, FALSE, "context"))
    /\ UNCHANGED <<queues, turn, inTurn, turnRecorded>>
    /\ CASE Recovering -> /\ turnFailed' = "context" /\ UNCHANGED status
                          /\ GoTo("recoveryEnded", "none")
         [] ~Recovering /\ inTurn -> /\ turnFailed' = "context"
                                     /\ Back(status)
         [] OTHER -> UNCHANGED <<turnFailed, status>> /\ GoTo("recover", "refused")
    /\ UNCHANGED <<pending, recovery, historyStart, settings, culprit,
                   control, unanswered, runVars, native, history, bounds>>

Refused(k) ==
    /\ Refusal(k) /\ k # "context"
    /\ IF Recovering
       THEN Closing("giveUp", "none") /\ UNCHANGED log
       ELSE /\ Closing(IF k = "auth" THEN "auth" ELSE "failed", runner)
            /\ log' = Append(log, Rec("ERROR", 0, turn, FALSE, k))
    /\ UNCHANGED <<pending, recovery, historyStart, settings, status,
                   control, queues, unanswered, turnVars, runVars, native, history,
                   bounds>>

-----------------------------------------------------------------------------
(* Hearing from runners: absorb. *)

Hearing == /\ inbox # << >>
           /\ pc = "drain" \/ (Receiving /\ launchedOnce)

\* straggler: not from the runner the conductor works with now.
NoStragglers == FALSE   \* (mutant of Straggler)
Straggler == Head(inbox).epoch # runnerEpoch

\* The event as it is recorded: against the turn its runner was in.
Recorded(late) ==
    Append(log, Rec(Head(inbox).type, 0, epochTurns[Head(inbox).epoch], late,
                    Head(inbox).why))

\* A straggler is logged and marked; there is nothing left to react to.
HearStraggler ==
    /\ Hearing /\ Straggler
    /\ log' = IF Head(inbox).type = "CONFIRM" THEN log ELSE Recorded(TRUE)
    /\ inbox' = Tail(inbox)
    /\ UNCHANGED <<pending, recovery, historyStart, settings, pc, goal,
                   culprit, finishing, status, control, queues, unanswered, turnVars,
                   runVars, open, spoke, piped, life, history, bounds>>

\* confirm: the echo of the oldest message written to the provider.
HearConfirm ==
    /\ Hearing /\ ~Straggler /\ Head(inbox).type = "CONFIRM"
    /\ inbox' = Tail(inbox)
    /\ IF awaiting # << >> /\ Head(awaiting).text = Head(inbox).text
       THEN LET t == IF Head(inbox).why = "START" THEN turn + 1 ELSE turn
            IN  /\ log' = Append(log, Rec(Head(inbox).why, Head(awaiting).id, t,
                                          FALSE, "same_turn"))
                /\ turn' = t
                /\ epochTurns' = [epochTurns EXCEPT ![runnerEpoch] = t]
                /\ pc' = "confirmed"
       ELSE UNCHANGED <<log, turn, epochTurns, pc>>
    /\ UNCHANGED <<pending, recovery, historyStart, settings, goal, culprit,
                   finishing, status, control, queues, unanswered, inTurn, turnRecorded,
                   turnFailed, runner, runnerEpoch, nextEpoch, current, benched,
                   open, spoke, piped, life, history, bounds>>

\* complete_message, for an echoed message.
Confirmed ==
    /\ pc = "confirmed"
    /\ pending' = Without(pending, Head(awaiting).id)
    /\ Remember(Head(awaiting).text, log[Len(log)].type = "START")
    /\ awaiting' = Tail(awaiting)
    /\ turnRecorded' = TRUE /\ inTurn' = TRUE
    /\ UNCHANGED outbox /\ Back("busy")
    /\ UNCHANGED <<log, recovery, historyStart, settings, culprit,
                   control, nextTurns, turn, turnFailed, runVars, native, history,
                   bounds>>

Hears(type) ==
    /\ Hearing /\ ~Straggler /\ Head(inbox).type = type
    /\ log' = Recorded(FALSE) /\ inbox' = Tail(inbox)
    /\ UNCHANGED <<pending, recovery, historyStart, settings, control,
                   queues, runVars, open, spoke, piped, life, history, bounds>>

\* While stopping, a real END closes the turn and nothing else is done.
HearStopping(type) ==
    /\ stopping /\ Hears(type)
    /\ IF type = "END"
       THEN inTurn' = FALSE /\ turnRecorded' = FALSE /\ nextTurns' = 0
       ELSE UNCHANGED <<inTurn, turnRecorded, nextTurns>>
    /\ UNCHANGED <<pc, goal, culprit, finishing, status, answering, later, turn,
                   turnFailed>>

\* The model got past whatever had gone wrong.
HearText ==
    /\ ~stopping /\ Hears("TEXT")
    /\ turnFailed' = "none" /\ status' = "busy"
    /\ UNCHANGED <<pc, goal, culprit, finishing, unanswered, turn, inTurn, turnRecorded>>

\* The native turn is over: on to the recovery, to the error it ended on, or
\* to finish_turn.
HearEnd ==
    /\ ~stopping /\ Hears("END")
    /\ inTurn' = FALSE /\ turnRecorded' = FALSE
    /\ CASE Recovering ->
              /\ turnFailed' = IF turnFailed = "none" /\ Head(inbox).why # "none"
                               THEN "unfinished" ELSE turnFailed
              /\ GoTo("recoveryEnded", "none") /\ UNCHANGED culprit
         [] ~Recovering /\ turnFailed = "context" ->
              /\ turnFailed' = "none"
              /\ GoTo("recover", "delivered") /\ UNCHANGED culprit
         [] ~Recovering /\ turnFailed \notin {"none", "context"} /\ autoremove ->
              turnFailed' = "none" /\ Closing("failed", runner)
         [] OTHER ->
              /\ turnFailed' = "none"
              /\ GoTo("finish", "none") /\ UNCHANGED culprit
    /\ UNCHANGED <<status, unanswered, turn>>

\* An error the provider does not retry.
HearError ==
    /\ ~stopping /\ Hears("ERROR")
    /\ LET k == Head(inbox).why IN
       CASE Recovering ->
              /\ turnFailed' = k
              /\ IF k \in {"crash", "auth"}
                 THEN Closing(IF recovery.stage = "Compacting" THEN "handoff"
                              ELSE "giveUp", "none")
                 ELSE UNCHANGED <<pc, goal, culprit, finishing>>
         [] ~Recovering /\ k \in {"crash", "auth"} ->
              /\ UNCHANGED turnFailed
              /\ Closing(IF k = "auth" THEN "auth" ELSE "failed", runner)
         [] OTHER ->
              /\ turnFailed' = IF k = "context" \/ inTurn THEN k ELSE turnFailed
              /\ UNCHANGED <<pc, goal, culprit, finishing>>
    /\ UNCHANGED <<status, unanswered, turn, inTurn, turnRecorded>>

\* finish_turn
Finish ==
    /\ pc = "finish"
    /\ UNCHANGED queues
    /\ answering' = IF later = << >> THEN << >> ELSE <<Head(later)>>
    /\ later' = IF later = << >> THEN << >> ELSE Tail(later)
    /\ CASE nextTurns > 0 ->    \* the next native turn is queued already
              /\ nextTurns' = nextTurns - 1
              /\ inTurn' = TRUE /\ turnRecorded' = TRUE
              /\ Back("busy")
         [] nextTurns = 0 /\ awaiting # << >> ->   \* so is a line on the pipe
              /\ inTurn' = TRUE /\ UNCHANGED <<nextTurns, turnRecorded>>
              /\ Back("busy")
         [] OTHER ->
              /\ pc' = IF Stale THEN "attempt" ELSE "flush"
              /\ goal' = "flush" /\ finishing' = TRUE
              /\ status' = IF Stale THEN "busy" ELSE status
              /\ UNCHANGED <<nextTurns, inTurn, turnRecorded>>
    /\ UNCHANGED <<disk, culprit, control, turn, turnFailed, runVars, native,
                   history, bounds>>

-----------------------------------------------------------------------------
(* Closing a turn the provider did not end: close_turn, failed,            *)
(* unauthenticated.                                                        *)

\* What a runner with a turn open may still post while it is interrupted and
\* stopped; afterwards its callbacks are closed.
Farewell ==
    {<< >>} \cup
    (IF open > 0 /\ life = "up" /\ Len(inbox) < MaxInbox
     THEN {<<[epoch |-> runnerEpoch, type |-> "END", text |-> "",
              why |-> "interrupted"]>>}
     ELSE {})

StopRunner ==
    /\ \E bye \in Farewell : inbox' = inbox \o bye
    /\ runner' = "none"
    /\ open' = 0 /\ spoke' = FALSE /\ piped' = << >> /\ life' = "up"

\* Are the messages of the unfinished turns sent again?
Retries == goal \in {"auth", "failed"} /\ autoremove

\* What was written to the provider but not confirmed is older than the rest.
RequeueLast == outbox \o awaiting   \* (mutant of Requeue)
Requeue == awaiting \o outbox

\* Put the runner down.  Unconfirmed messages go back in front of newer ones;
\* before them, on a failover, the messages of the unfinished turns, again.
CloseTurn ==
    /\ pc = "close"
    /\ StopRunner /\ runnerEpoch' = 0
    /\ LET texts == IF Retries THEN answering \o later ELSE << >>
           again == [i \in 1 .. Len(texts) |->
                        [id |-> nextId + i - 1, text |-> texts[i]]]
       IN  /\ pending' = InFront(again, pending)
           /\ outbox' = InFront(again, Requeue)
           /\ nextId' = nextId + Len(texts)
    /\ awaiting' = << >> /\ answering' = << >> /\ later' = << >> /\ nextTurns' = 0
    /\ turnFailed' = "none"
    /\ pc' = "closeEnd"
    /\ UNCHANGED <<log, recovery, historyStart, settings, goal, culprit,
                   finishing, status, control, turn, inTurn, turnRecorded,
                   nextEpoch, epochTurns, current, benched, accepted, withdrawn,
                   handoffs, bounds>>

\* ... and end the turn, if it was opened.
CloseTurnEnd ==
    /\ pc = "closeEnd"
    /\ IF inTurn /\ turnRecorded
       THEN /\ log' = Append(log, Rec("END", 0, turn, FALSE, "none"))
            /\ turnRecorded' = FALSE
       ELSE UNCHANGED <<log, turnRecorded>>
    /\ inTurn' = FALSE
    /\ status' = IF Retries /\ outbox # << >> THEN "busy" ELSE "waiting"
    /\ GoTo(goal, "none")
    /\ UNCHANGED <<pending, recovery, historyStart, settings, culprit,
                   control, queues, unanswered, turn, turnFailed, runVars, native,
                   history, bounds>>

\* unauthenticated: the provider leaves the chat for good ...
Unauthenticated ==
    /\ pc = "auth" /\ culprit' = "none"
    /\ UNCHANGED <<queues, turnVars>>
    /\ CASE ~autoremove -> UNCHANGED <<providers, benched>> /\ Back(status)
         [] autoremove /\ culprit \notin providers ->
              UNCHANGED <<providers, benched, status>> /\ GoTo("attempt", "flush")
         [] OTHER ->
              /\ providers' = providers \ {culprit}
              /\ MoveOn(providers \ {culprit}, benched \ {culprit}, "flush")
              /\ UNCHANGED status
    /\ UNCHANGED <<log, pending, recovery, historyStart, autoremove, config, control,
                   unanswered, runner, runnerEpoch, nextEpoch, epochTurns, current,
                   native, history, bounds>>

\* failed, sideline: ... or is set aside while this chat is live.
Failed ==
    /\ pc = "failed" /\ culprit' = "none"
    /\ UNCHANGED <<queues, turnVars>>
    /\ CASE ~autoremove \/ culprit \in providers \cap benched ->
              UNCHANGED benched /\ Back(status)
         [] autoremove /\ culprit \notin providers ->
              UNCHANGED <<benched, status>> /\ GoTo("attempt", "flush")
         [] OTHER ->
              MoveOn(providers, benched \cup {culprit}, "flush") /\ UNCHANGED status
    /\ UNCHANGED <<disk, control, unanswered, runner, runnerEpoch, nextEpoch,
                   epochTurns, current, native, history, bounds>>

-----------------------------------------------------------------------------
(* Recovering from a full context. *)

Openers(t) == {i \in DOMAIN log : /\ i >= historyStart
                                  /\ log[i].type \in Openings
                                  /\ log[i].turn = t}

\* recover_context: ask the provider to compact, else hand the conversation
\* over to a fresh session.
RecoverContext ==
    /\ pc = "recover"
    /\ recovery' = [stage |-> "Compacting", id |-> 0,
                    words |-> goal = "delivered" /\ Openers(turn) # {}]
    /\ turnFailed' = "none"
    /\ UNCHANGED <<queues, turn, turnRecorded>>
    /\ \/ /\ runner \in Compacts /\ life = "up"
          /\ deadline' = TRUE /\ inTurn' = TRUE /\ open' = open + 1
          /\ UNCHANGED culprit /\ Back("busy")
       \/ StartHandoff /\ UNCHANGED <<deadline, inTurn, open, status>>
    /\ UNCHANGED <<log, pending, historyStart, settings, stopping,
                   launchedOnce, unanswered, runVars, inbox, spoke, piped, life, history,
                   bounds>>

\* The deadline of a compaction passes.
CompactionTimeout ==
    /\ pc = "recv" /\ recovery.stage = "Compacting"
    /\ StartHandoff
    /\ UNCHANGED <<disk, status, control, queues, unanswered, turnVars, runVars, native,
                   history, bounds>>

\* A handoff supersedes a replay that recovery made up, not a user's message
\* that it was retrying.
SupersededAny(stage) == stage = "Handoff" /\ recovery.stage = "Retrying"   \* (mutant)
Superseded(stage) ==
    stage = "Handoff" /\ recovery.stage = "Retrying" /\ recovery.words

\* `store.seq() + 1'
SeqAfterNext == Len(log) + 2   \* (mutant of NextSeq)
NextSeq == Len(log) + 1

\* recovery_message, save_recovery, Meta::recover: the new stage and the
\* message that carries it are saved together.  A handoff replaces a replay
\* that was still waiting; a fresh session starts a new stretch of history.
RecoveryMessage(place, stage, text, fresh) ==
    /\ pc = place
    /\ LET m == [id |-> nextId, text |-> text]
           Kept(q) == IF Superseded(stage) THEN Without(q, recovery.id) ELSE q
       IN  /\ pending' = InFront(<<m>>, Kept(pending))
           /\ outbox' = InFront(<<m>>, Kept(outbox))
           /\ awaiting' = Kept(awaiting)
           /\ withdrawn' = IF Superseded(stage) THEN withdrawn \cup {recovery.id}
                           ELSE withdrawn
    /\ nextId' = nextId + 1
    /\ recovery' = [stage |-> stage, id |-> nextId, words |-> stage = "Retrying"]
    /\ historyStart' = IF fresh THEN NextSeq ELSE historyStart
    /\ handoffs' = IF stage = "Handoff" THEN handoffs + 1 ELSE handoffs
    /\ deadline' = FALSE /\ turnFailed' = "none" /\ status' = "busy"
    /\ Dispatch(inTurn)
    /\ UNCHANGED <<log, settings, culprit, stopping, launchedOnce, unanswered,
                   turn, inTurn, turnRecorded, runVars, native, accepted, bounds>>

Handoff   == RecoveryMessage("handoff", "Handoff", "handoff", TRUE)
Continue  == RecoveryMessage("continue", "Continuing", "continue", TRUE)
Replay    == RecoveryMessage("replay", "Retrying", "retry", FALSE)

\* save_recovery without a message.
SaveRecovery(r) ==
    /\ recovery' = r /\ deadline' = FALSE
    /\ handoffs' = IF r = NoRecovery THEN 0 ELSE handoffs

\* Does the end of this stage's turn call for a handoff?
HandoffAgain(failed) == failed   \* (mutant of NeedsHandoff)
NeedsHandoff(failed) ==
    \/ recovery.stage = "Compacting" /\ failed
    \/ recovery.stage = "Retrying" /\ turnFailed = "context"

\* recovery_ended: the turn of this stage is over.
RecoveryEnded ==
    /\ pc = "recoveryEnded"
    /\ inTurn' = FALSE /\ turnRecorded' = FALSE /\ turnFailed' = "none"
    /\ answering' = << >> /\ later' = << >>
    /\ LET stage == recovery.stage
           failed == turnFailed # "none"
           Stay == UNCHANGED <<recovery, deadline, handoffs>>
       IN
       CASE NeedsHandoff(failed) -> StartHandoff /\ Stay
         [] stage = "Compacting" /\ ~failed /\ recovery.words ->
              GoTo("replay", "none") /\ UNCHANGED culprit /\ Stay
         [] stage = "Compacting" /\ ~failed /\ ~recovery.words /\ outbox = << >> ->
              GoTo("finish", "none") /\ UNCHANGED culprit /\ SaveRecovery(NoRecovery)
         [] \/ stage = "Compacting" /\ ~failed /\ ~recovery.words /\ outbox # << >>
            \/ stage \in {"Continuing", "Resuming"} /\ ~failed /\ outbox # << >> ->
              /\ SaveRecovery([stage |-> IF stage = "Compacting" THEN "Retrying"
                                         ELSE "Resuming",
                               id |-> Head(outbox).id, words |-> FALSE])
              /\ Dispatch(FALSE) /\ UNCHANGED culprit
         [] stage # "Compacting" /\ failed /\ ~NeedsHandoff(failed) ->
              Closing("giveUp", "none") /\ Stay
         [] stage = "Handoff" /\ ~failed -> Closing("continue", "none") /\ Stay
         [] OTHER ->
              /\ SaveRecovery(NoRecovery) /\ UNCHANGED culprit
              /\ GoTo(IF Alive THEN "finish" ELSE "attempt", "finish")
    /\ UNCHANGED <<log, pending, historyStart, settings, status, stopping,
                   launchedOnce, queues, nextTurns, turn, runVars, native, nextId,
                   accepted, withdrawn, bounds>>

\* recovery_failed: no recursive recovery.
GiveUp ==
    /\ pc = "giveUp"
    /\ SaveRecovery(NoRecovery)
    /\ pc' = "gaveUp"
    /\ UNCHANGED <<log, pending, historyStart, settings, goal, culprit,
                   finishing, status, stopping, launchedOnce, queues, unanswered, turnVars,
                   runVars, native, nextId, accepted, withdrawn, bounds>>

GaveUp ==
    /\ pc = "gaveUp"
    /\ log' = Append(log, Rec("ERROR", 0, turn, FALSE, "context"))
    /\ UNCHANGED <<queues, turnVars>>
    /\ Back(status)
    /\ UNCHANGED <<pending, recovery, historyStart, settings, culprit,
                   control, unanswered, runVars, native, history, bounds>>

\* The opening event of the recovery's message, and the first END of its turn.
Opener == CHOOSE i \in DOMAIN log : /\ i >= historyStart
                                    /\ log[i].type \in Openings
                                    /\ log[i].id = recovery.id
Enders == {i \in DOMAIN log : /\ i > Opener /\ log[i].type = "END"
                              /\ log[i].turn = log[Opener].turn /\ ~log[i].late}
Ender == CHOOSE i \in Enders : \A j \in Enders : i <= j

\* The errors and the output of that turn, and the error it ended on, if any.
Outcomes == {i \in DOMAIN log : /\ Opener < i /\ i < Ender
                                /\ log[i].type \in {"ERROR", "TEXT"}
                                /\ log[i].turn = log[Opener].turn /\ ~log[i].late}
Outcome ==
    IF Outcomes = {}
    THEN "none"
    ELSE log[CHOOSE i \in Outcomes : \A j \in Outcomes : j <= i].why

\* Did the recovery's message get to a provider?
Delivered == \E i \in DOMAIN log : /\ i >= historyStart
                                   /\ log[i].type \in Openings
                                   /\ log[i].id = recovery.id

\* resume_recovery: what to do with a recovery found when the session opens.
ResumeRecovery ==
    /\ pc = "resume"
    /\ CASE recovery.stage = "Compacting" -> StartHandoff /\ UNCHANGED turnFailed
         [] /\ recovery.stage # "Compacting"
            /\ recovery.id \in Ids(outbox) \/ ~Delivered ->
              /\ GoTo("attempt", "flush") /\ UNCHANGED <<culprit, turnFailed>>
         [] OTHER ->
              IF Enders = {} \/ log[Ender].why = "interrupted"
              THEN StartHandoff /\ UNCHANGED turnFailed
              ELSE /\ turnFailed' = IF Outcome = "none" /\ log[Ender].why # "none"
                                    THEN "unfinished" ELSE Outcome
                   /\ GoTo("recoveryEnded", "none") /\ UNCHANGED culprit
    /\ UNCHANGED <<disk, status, control, queues, unanswered, turn, inTurn, turnRecorded,
                   runVars, native, history, bounds>>

-----------------------------------------------------------------------------
(* Going down. *)

\* shutdown: the runner is stopped; what it said on its way out is drained.
Stop ==
    /\ Receiving /\ launchedOnce /\ downs < MaxDowns
    /\ stopping' = TRUE /\ downs' = downs + 1
    /\ StopRunner
    /\ pc' = "drain"
    /\ UNCHANGED <<disk, goal, culprit, finishing, status, launchedOnce, deadline,
                   queues, unanswered, turnVars, runnerEpoch, nextEpoch, epochTurns,
                   current, benched, history, sends, changes>>

\* If no END came, one is made up.  Then the thread ends.
StopEnd ==
    /\ pc = "drain" /\ inbox = << >>
    /\ log' = IF inTurn /\ turnRecorded
              THEN Append(log, Rec("END", 0, turn, FALSE, "interrupted")) ELSE log
    /\ Cold
    /\ UNCHANGED <<pending, recovery, historyStart, settings, history, bounds>>

\* The process dies, or persistence_failed: a write fails, which leaves the
\* file as it was before or as it is after, and the thread ends.
Crash ==
    /\ pc # "down" /\ downs < MaxDowns
    /\ downs' = downs + 1
    /\ Cold
    /\ UNCHANGED <<disk, history, sends, changes>>

-----------------------------------------------------------------------------
(* The runner's own steps.  They matter to the conductor only where it     *)
(* reads its inbox or sends, so that is where they are interleaved.        *)

Runs == pc \in {"recv", "deliver"} /\ runner # "none" /\ life = "up"

Post(type, text, why) ==
    [epoch |-> runnerEpoch, type |-> type, text |-> text, why |-> why]

RunnerOnly == UNCHANGED <<disk, pc, goal, culprit, finishing, status, control, queues,
                          unanswered, turnVars, runVars, history, bounds>>

\* Claude reads the next line of its pipe and echoes it.
Echo ==
    /\ Runs /\ piped # << >> /\ Len(inbox) < MaxInbox
    /\ inbox' = Append(inbox, Post("CONFIRM", Head(piped),
                                   IF open = 0 THEN "START" ELSE "INJECTED"))
    /\ piped' = Tail(piped)
    /\ open' = IF open = 0 THEN 1 ELSE open
    /\ UNCHANGED <<spoke, life>> /\ RunnerOnly

\* The model says something: once per native turn is enough to tell apart.
Speak ==
    /\ Runs /\ "talk" \in Nature /\ open > 0 /\ ~spoke /\ Len(inbox) < MaxInbox
    /\ inbox' = Append(inbox, Post("TEXT", "", "none"))
    /\ spoke' = TRUE
    /\ UNCHANGED <<open, piped, life>> /\ RunnerOnly

\* A native turn ends; Codex may report it as not completed.
EndTurn(why) ==
    /\ Runs /\ open > 0 /\ Len(inbox) < MaxInbox
    /\ why = "status" => Delivery[runner] = "steered"
    /\ inbox' = Append(inbox, Post("END", "", why))
    /\ open' = open - 1 /\ spoke' = FALSE
    /\ UNCHANGED <<piped, life>> /\ RunnerOnly

\* A native turn ends on an error: both are reported in one breath.
FailTurn(k) ==
    /\ Runs /\ open > 0 /\ Len(inbox) + 1 < MaxInbox
    /\ inbox' = inbox \o <<Post("ERROR", "", k), Post("END", "", "none")>>
    /\ open' = open - 1 /\ spoke' = FALSE
    /\ UNCHANGED <<piped, life>> /\ RunnerOnly

\* The process exits: its pipe is broken ...
Exit ==
    /\ Runs /\ "exit" \in Nature
    /\ life' = "broken"
    /\ UNCHANGED <<inbox, open, spoke, piped>> /\ RunnerOnly

\* ... and a moment later it is seen to be dead, and that is reported.
Reap ==
    /\ pc \in {"recv", "deliver"} /\ runner # "none" /\ life = "broken"
    /\ Len(inbox) < MaxInbox
    /\ life' = "dead"
    /\ inbox' = Append(inbox, Post("ERROR", "", "crash"))
    /\ UNCHANGED <<open, spoke, piped>> /\ RunnerOnly

-----------------------------------------------------------------------------
(* The specification. *)

Hear == \/ HearStraggler \/ HearConfirm \/ HearText \/ HearEnd \/ HearError
        \/ \E type \in {"TEXT", "ERROR", "END"} : HearStopping(type)

Refuse == RefusedForContext \/ \E k \in Kinds : Refused(k)

\* What the thread does on its own, once it has received a wake.
Work == \/ ReconcileDrop \/ ReconcileCommit \/ LaunchOnce \/ Acknowledge
        \/ AttemptKept \/ AttemptLaunch \/ AttemptRetune \/ AttemptFails \/ AttemptNoRung \/ Blocked
        \/ Flush \/ DeliverDone \/ DeliverEchoed \/ DeliverOpening \/ Complete
        \/ Refuse \/ Hear \/ Confirmed \/ Finish
        \/ CloseTurn \/ CloseTurnEnd \/ Unauthenticated \/ Failed
        \/ RecoverContext \/ CompactionTimeout \/ Handoff \/ Continue \/ Replay
        \/ RecoveryEnded \/ GiveUp \/ GaveUp \/ ResumeRecovery
        \/ StopEnd

Client == \/ \E w \in Words : Send(w)
          \/ \E S \in SUBSET Providers : SetProviders(S)
          \/ SetAutoremove \/ SetOther \/ Stop \/ OpenAt

Provider == \/ Echo \/ Speak \/ Exit \/ Reap
            \/ \E why \in {"none", "status"} : EndTurn(why)
            \/ \E k \in ErrorKinds : FailTurn(k)

Next == Work \/ Client \/ Provider \/ Crash

Spec == Init /\ [][Next]_vars

\* The thread is scheduled; a provider that is up reads its pipe, ends its
\* turns and is reaped when it has exited.  Nothing obliges a client to act.
FairSpec == /\ Spec
            /\ WF_vars(Work) /\ WF_vars(Echo) /\ WF_vars(EndTurn("none"))
            /\ WF_vars(Reap)

\* ... and a session that is down is opened again.
ReopenSpec == FairSpec /\ WF_vars(OpenAt)

-----------------------------------------------------------------------------
(* Properties. *)

Goals == {"none", "flush", "finish", "auth", "failed", "handoff", "continue",
          "giveUp", "delivered", "refused"}
Places == {"down", "reconcile", "recv", "ack", "attempt", "blocked", "flush",
           "deliver", "complete", "confirmed", "finish", "close", "closeEnd",
           "auth", "failed", "handoff", "continue", "replay", "recover",
           "recoveryEnded", "giveUp", "gaveUp", "resume", "drain"}

DiskOK ==
    /\ log \in Seq(Record) /\ pending \in Seq(Message) /\ recovery \in Recovery
    /\ historyStart \in Nat \ {0} /\ providers \subseteq Providers
    /\ autoremove \in BOOLEAN /\ config \in 0 .. MaxChanges
ThreadOK ==
    /\ pc \in Places /\ goal \in Goals /\ culprit \in Providers \cup {"none"}
    /\ finishing \in BOOLEAN /\ stopping \in BOOLEAN /\ launchedOnce \in BOOLEAN
    /\ deadline \in BOOLEAN /\ status \in {"busy", "waiting", "stopped"}
QueuesOK ==
    /\ outbox \in Seq(Message) /\ awaiting \in Seq(Message)
    /\ answering \in Seq(Text) /\ later \in Seq(Text) /\ nextTurns \in Nat
TurnOK ==
    /\ turn \in Int /\ turn >= -1 /\ inTurn \in BOOLEAN /\ turnRecorded \in BOOLEAN
    /\ turnFailed \in Kinds \cup {"none", "unfinished"}
RunnerOK ==
    /\ runner \in Providers \cup {"none"} /\ runnerEpoch \in 0 .. MaxEpochs
    /\ nextEpoch \in 1 .. MaxEpochs + 1 /\ epochTurns \in [1 .. MaxEpochs -> Int]
    /\ current \in Signature /\ benched \subseteq Providers
NativeOK ==
    /\ inbox \in Seq(Heard) /\ open \in Nat /\ spoke \in BOOLEAN
    /\ piped \in Seq(Text) /\ life \in {"up", "broken", "dead"}
HistoryOK ==
    /\ nextId \in Nat \ {0} /\ accepted \subseteq Nat /\ withdrawn \subseteq Nat
    /\ handoffs \in Nat
    /\ sends \in 0 .. MaxSends /\ downs \in 0 .. MaxDowns /\ changes \in 0 .. MaxChanges

\* The type of every variable.
TypeOK == DiskOK /\ ThreadOK /\ QueuesOK /\ TurnOK /\ RunnerOK /\ NativeOK /\ HistoryOK

\* What the places of the thread rely on: `goal' is a place to go to when it is
\* used as one, a queue that is read is not empty, the runner that is up
\* has an epoch and only it has turns open, and the log has a newest turn.
Shape ==
    /\ pc = "attempt" => goal \in {"flush", "finish"}
    /\ pc \in {"close", "closeEnd"} =>
           goal \in {"auth", "failed", "handoff", "continue", "giveUp"}
    /\ pc \in {"deliver", "complete"} => runner # "none"
    /\ pc \in {"ack", "complete"} => outbox # << >>
    /\ pc = "confirmed" => awaiting # << >>
    /\ runner # "none" => runnerEpoch \in 1 .. MaxEpochs
    /\ runner = "none" => open = 0
    /\ config <= changes
    /\ HasNewest(log)

\* A message that was put in the metadata is still there or has its opening
\* event in the log, whatever failed or crashed in between; only a replay made
\* up by a recovery may be withdrawn, never a message a client was promised.
NoMessageLost ==
    /\ \A id \in 1 .. nextId - 1 : id \in Ids(pending) \cup Opened(log) \cup withdrawn
    /\ \A id \in accepted : id \in Ids(pending) \cup Opened(log)

\* A message is never opened twice: the crash window between the append of its
\* opening event and its retirement from the metadata is repaired on reopening.
OpenedOnce ==
    \A i, j \in DOMAIN log :
        log[i].type \in Openings /\ log[j].type \in Openings
            /\ log[i].id = log[j].id => i = j

\* The promise of DurableSend, kept by the two files alone: what is owed is the
\* queue in the metadata, without a message whose opening event made it to the
\* log before it could be retired.
Owed == IF pending # << >> /\ Head(pending).id \in Opened(log)
        THEN Tail(pending) ELSE pending

Promise == INSTANCE DurableSend
               WITH owed <- Owed, opened <- Opened(log), MadeUp <- {"retry", "handoff", "continue"}

\* Messages are handed over in the order in which they were accepted, once, and
\* neither a crash nor a failover loses, repeats or overtakes one.
KeepsPromise == Promise!Spec

\* Between wakes the queues in memory are the queue on disk, in its order:
\* messages written to a provider but not confirmed come first.
QueueMatchesDisk == pc = "recv" => pending = awaiting \o outbox

\* The message that a recovery waits for is not lost: past its compaction, it is
\* still in the metadata, or it was opened in the history that goes on.  One that is
\* in neither could not be handed over by any opening of the session, and flush
\* would hold every other message back (recovery_message, flush, reconcile).
RecoveryCarried ==
    Recovering /\ recovery.stage # "Compacting" =>
        \/ recovery.id \in Ids(pending)
        \/ \E i \in DOMAIN log : /\ i >= historyStart /\ log[i].id = recovery.id
                                 /\ log[i].type \in Openings

\* Without compaction turns, no turn is ended more often than it was opened:
\* a straggler's END, or the one made up on stop or failover, never comes on
\* top of the real one.
EndsMatchOpenings ==
    Compacts = {} =>
        \A t \in {log[i].turn : i \in DOMAIN log} :
            Cardinality({i \in DOMAIN log : /\ log[i].turn = t /\ ~log[i].late
                                            /\ log[i].type = "END"})
            <= Cardinality({i \in DOMAIN log : /\ log[i].turn = t
                                               /\ \/ log[i].type = "START"
                                                  \/ log[i].why = "next_turn"})

\* Snapshot::idle, what a polling client looks at.
Idle == status = "waiting" /\ ~inTurn

\* A chat that says it is idle is not being worked on: the provider that is
\* up has no turn open and nothing on its pipe.
NoFalseIdle ==
    pc = "recv" /\ Idle /\ runner # "none" /\ life = "up"
        => open = 0 /\ piped = << >>

\* A recovery hands the conversation over once, and once more for each time that
\* the session went down: compaction is tried first, a handoff is not repeated
\* because the next provider's context is full as well, and opening the session
\* again in any stage of it begins at most one handoff that was not due
\* (recovery_ended, start_handoff, resume_recovery).
HandoffsBounded == handoffs <= 1 + downs

\* A chat does not go on with a provider that was set aside or, unless the
\* settings are waiting to be applied, with one that was taken off.
NotOnBench ==
    pc = "recv" /\ runner # "none" =>
        runner \notin benched /\ (runner \in providers \/ Stale)

\* No other runner takes over while messages of an unfinished turn are not back
\* in the queue, or messages of a broken pipe not in front of newer ones.
UnfinishedFirst ==
    [][runnerEpoch' \notin {0, runnerEpoch}
           => answering = << >> /\ later = << >> /\ awaiting = << >>]_vars

\* A recovery ends, with the context recovered or with an error, even if the
\* session goes down in the middle of it and is opened again.
RecoveryEnds == Recovering ~> ~Recovering \/ providers = {}

\* The messages that were accepted are handed to a provider in the end, however
\* often the session goes down and is opened again; unless it has no provider, or
\* has found none that stays up and says so.
StillOwed == accepted \ Opened(log)
Blocks == pc = "recv" /\ launchedOnce /\ runner = "none" /\ status = "waiting"
AcceptedOpens == StillOwed # {} ~> StillOwed = {} \/ providers = {} \/ Blocks

\* The session never hangs in busy.
BusyEnds == (status = "busy") ~> (status # "busy")
=============================================================================
