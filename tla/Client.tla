------------------------------- MODULE Client -------------------------------
(***************************************************************************)
(* A program's connection to the daemon (omni-client/src/lib.rs) and the   *)
(* chats that its threads hold on it (facade.rs): calls and their answers, *)
(* the thread that reads the socket, subscriptions, the sessions that are  *)
(* open, disconnection, and what a Chat hands out to its owner.            *)
(*                                                                         *)
(* Every thread has a Chat of its own, all on one session and on one       *)
(* connection, the case in which they meet.  Of the daemon (see Registry)  *)
(* there is what the connection sees: requests are served in order, an     *)
(* attach replays and then subscribes, and a chat that is put down is out  *)
(* of the registry before it says farewell.                                *)
(***************************************************************************)
EXTENDS Startup, Sequences, SequencesExt

CONSTANTS
    Program,     \* the program that is looked at
    Users,       \* its threads
    Scenarios,   \* what the threads are going to do, if a daemon is up already, and
                 \* how often the session was stopped and what it has logged
    MaxCalls,    \* bound: requests of the program
    MaxEvents,   \* bound: events of the session
    MaxStops     \* bound: stops by other clients

\* start, start_since(-1) and start_since of a later position; next_event, send and
\* refresh, which start a Chat that is detached; change, detach, stop, the Chat is
\* dropped, and a question to the daemon that is not about the session.
Starts == {"start", "live", "from"}
Restarts == {"next", "send", "refresh"}
Ops == Starts \cup Restarts \cup {"set", "detach", "stop", "drop", "ask"}
\* Requests that leave the client as it was, whatever their answer.
Plain == {"send", "set", "status", "ask"}

ASSUME ClientAssumption ==
    /\ Program \in Programs /\ "reader" \notin Users
    /\ \A s \in Scenarios : /\ s.warm \in BOOLEAN /\ s.plan \in [Users -> Seq(Ops)]
                            /\ s.log \in 0 .. MaxEvents /\ s.stops \in 0 .. MaxStops
    /\ MaxCalls \in Nat /\ MaxEvents \in Nat /\ MaxStops \in Nat

VARIABLES
    alive,      \* Inner::alive
    nextId,     \* Inner::next_id
    pending,    \* Inner::pending: who waits for which answer
    subs,       \* Inner::subscribers of the session
    reserved,   \* Inner::open_sessions has the session
    shut,       \* disconnect has shut the socket down
    answer,     \* the channel of a call
    inbox,      \* the channel of a subscription
    pc,         \* where a thread is
    plan,       \* what a thread is still going to do
    job,        \* the request a thread is busy with
    then,       \* where a thread goes on after disconnect
    chat,       \* Chat: attached, seen, started, finished
    handed,     \* history: the events that a Chat has handed out since it was attached
    origin,     \* history: the position its attachment was asked for, and the one from
                \* which on it owes its owner every event
    covered,    \* history: the events that were ever handed out or that the owner has
                \* asked to pass over
    foreign,    \* history: a frame of one attachment reached another's owner
    late,       \* history: an open was given up and may yet be served
    requests,   \* what the daemon has not served yet
    answers,    \* what the reader has not read yet
    closed,     \* the daemon has closed the connection
    session,    \* the session in the daemon
    serving,    \* the open that is attached and not answered yet
    stops       \* how many other clients have stopped the session

innerVars == <<alive, nextId, pending, subs, reserved, shut>>
threadVars == <<answer, inbox, pc, plan, job, then>>
chatVars == <<chat, handed, origin, covered, foreign, late>>
wireVars == <<requests, answers, closed>>
sessionVars == <<session, serving, stops>>
connVars == <<innerVars, threadVars, chatVars, wireVars, sessionVars>>
vars == <<startVars, connVars>>

Threads == Users \cup {"reader"}
NoJob == [op |-> "none", id |-> 0, since |-> 0]

\* Program has started a daemon and is connected; the others have given up, on
\* daemons that were killed.
StartupWarm ==
    /\ lock = Program /\ path = Program
    /\ daemon = [d \in Programs |-> IF d = Program THEN "serving" ELSE "exited"]
    /\ program = [p \in Programs |-> IF p = Program THEN "connected" ELSE "failed"]
    /\ peer = [p \in Programs |-> IF p = Program THEN Program ELSE None]
    /\ crashes = MaxCrashes /\ disturbed = {}

Init ==
    /\ \E s \in Scenarios : /\ plan = s.plan /\ stops = s.stops
                            /\ session = [up |-> FALSE, dying |-> FALSE, listener |-> 0, old |-> 0,
                                          events |-> s.log, next |-> 0, attaches |-> 0]
                            /\ IF s.warm THEN StartupWarm ELSE StartupInit
    /\ alive = TRUE /\ nextId = 1 /\ pending = {} /\ subs = {}
    /\ reserved = FALSE /\ shut = FALSE
    /\ answer = [u \in Users |-> << >>]
    /\ inbox = [u \in Users |-> << >>]
    /\ pc = [t \in Threads |-> "idle"]
    /\ job = [u \in Users |-> NoJob]
    /\ then = [t \in Threads |-> "idle"]
    /\ chat = [u \in Users |-> [attached |-> 0, seen |-> -1, started |-> FALSE, finished |-> FALSE]]
    /\ handed = [u \in Users |-> << >>]
    /\ origin = [u \in Users |-> [asked |-> 0, full |-> 0]] /\ covered = [u \in Users |-> {}]
    /\ foreign = FALSE /\ late = FALSE
    /\ requests = << >> /\ answers = << >> /\ closed = FALSE
    /\ serving = << >>

\* The client exists between its handshake and the end of its program.
Connected == program[Program] = "connected"
Broken == closed \/ shut

-----------------------------------------------------------------------------
(* Calls: call_with_timeout and Inner::write. *)

Goto(t, place) == pc' = [pc EXCEPT ![t] = place]
Owned(ids) == {w \in pending : w[1] \in ids}

\* A call takes an id and a slot for its answer; only then is it written.
Call(u, op, since) ==
    /\ nextId <= MaxCalls
    /\ nextId' = nextId + 1
    /\ pending' = pending \cup {<<nextId, u>>}
    /\ job' = [job EXCEPT ![u] = [op |-> op, id |-> nextId, since |-> since]]
    /\ answer' = [answer EXCEPT ![u] = << >>]
    /\ Goto(u, "write")

\* remove_subscription.
Unsubscribed(u) == subs \ {u}

\* What becomes of a thread whose request has failed.  An open gives its
\* reservation and its subscription back ...
OpenFailed(u) ==
    /\ job[u].op = "open"
    /\ reserved' = FALSE /\ subs' = Unsubscribed(u)
    /\ Goto(u, "idle")
    /\ UNCHANGED <<alive, then>>

\* ... and a stop or a detach of a Session that may or may not have happened
\* takes the whole connection down.
LifecycleFailed(u) ==
    /\ job[u].op \in {"stop", "detach"} /\ chat[u].attached # 0
    /\ then' = [then EXCEPT ![u] = "drop"]
    /\ alive' = FALSE
    /\ Goto(u, IF alive THEN "cut" ELSE "drop")
    /\ UNCHANGED <<reserved, subs>>

CallFailed(u) ==
    /\ job[u].op \in Plain \/ (job[u].op = "stop" /\ chat[u].attached = 0)
    /\ Goto(u, "idle")
    /\ UNCHANGED <<alive, then, reserved, subs>>

Fail(u) == OpenFailed(u) \/ LifecycleFailed(u) \/ CallFailed(u)

\* (Mutant of Write: nothing is asked before the request is written.)
WriteBlind(u) ==
    /\ pc[u] = "write" /\ ~Broken
    /\ requests' = Append(requests, job[u])
    /\ Goto(u, "await")
    /\ UNCHANGED <<innerVars, answer, inbox, plan, job, then, chatVars, answers, closed, sessionVars>>

Write(u) ==
    /\ pc[u] = "write" /\ alive /\ ~Broken
    /\ requests' = Append(requests, job[u])
    /\ Goto(u, "await")
    /\ UNCHANGED <<innerVars, answer, inbox, plan, job, then, chatVars, answers, closed, sessionVars>>

\* The connection is known to be gone.
WriteDead(u) ==
    /\ pc[u] = "write" /\ ~alive
    /\ pending' = pending \ Owned({job[u].id})
    /\ Fail(u)
    /\ UNCHANGED <<nextId, shut, answer, inbox, plan, job, chatVars, wireVars, sessionVars>>

\* The write finds out: disconnect, then the call fails.
WriteBroken(u) ==
    /\ pc[u] = "write" /\ alive /\ Broken
    /\ alive' = FALSE
    /\ then' = [then EXCEPT ![u] = "failed"]
    /\ Goto(u, "cut")
    /\ UNCHANGED <<nextId, pending, subs, reserved, shut, answer, inbox, plan, job, chatVars, wireVars, sessionVars>>
WriteFailed(u) ==
    /\ pc[u] = "failed"
    /\ pending' = pending \ Owned({job[u].id})
    /\ Fail(u)
    /\ UNCHANGED <<nextId, shut, answer, inbox, plan, job, chatVars, wireVars, sessionVars>>

Timeout(u) ==
    /\ pc[u] = "await" /\ answer[u] = << >>
    /\ pending' = pending \ Owned({job[u].id})
    /\ late' = (late \/ job[u].op = "open")
    /\ Fail(u)
    /\ UNCHANGED <<nextId, shut, answer, inbox, plan, job, chat, handed, origin, covered, foreign, wireVars, sessionVars>>

\* ok: false, or disconnect was faster.
Refused(u) ==
    /\ pc[u] = "await" /\ answer[u] # << >> /\ ~Head(answer[u]).ok
    /\ Fail(u)
    /\ UNCHANGED <<nextId, pending, shut, answer, inbox, plan, job, chatVars, wireVars, sessionVars>>

-----------------------------------------------------------------------------
(* disconnect: alive was swapped by the thread that runs it. *)

\* Everyone who waits is told ...
Cut(t) ==
    /\ pc[t] = "cut"
    /\ answer' = [u \in Users |-> IF \E w \in pending : w[2] = u
                                  THEN Append(answer[u], [ok |-> FALSE]) ELSE answer[u]]
    /\ pending' = {}
    /\ Goto(t, "clear")
    /\ UNCHANGED <<alive, nextId, subs, reserved, shut, inbox, plan, job, then, chatVars, wireVars, sessionVars>>

\* ... and every subscription ends.
ClearAll(t) ==
    /\ pc[t] = "clear"
    /\ subs' = {} /\ reserved' = FALSE /\ shut' = TRUE
    /\ Goto(t, then[t])
    /\ UNCHANGED <<alive, nextId, pending, answer, inbox, plan, job, then, chatVars, wireVars, sessionVars>>

-----------------------------------------------------------------------------
(* The reader: read_daemon, dispatch_frame. *)

\* pending.remove: an answer is for one call, once.
Settled(W) == pending \ W

\* dispatch_frame: every subscription to the session gets it.
Dispatched(m) == [u \in Users |-> IF u \in subs THEN Append(inbox[u], m) ELSE inbox[u]]

Read ==
    /\ Connected /\ pc["reader"] = "idle" /\ answers # << >>
    /\ LET m == Head(answers)
           W == Owned({m.id})
       IN  IF m.kind = "reply"
           THEN /\ pending' = Settled(W)
                /\ answer' = [u \in Users |-> IF \E w \in W : w[2] = u THEN Append(answer[u], m)
                                              ELSE answer[u]]
                /\ UNCHANGED inbox
           ELSE /\ inbox' = Dispatched(m)
                /\ UNCHANGED <<pending, answer>>
    /\ answers' = Tail(answers)
    /\ UNCHANGED <<alive, nextId, subs, reserved, shut, pc, plan, job, then, chatVars, requests, closed, sessionVars>>

Eof ==
    /\ Connected /\ pc["reader"] = "idle"
    /\ shut \/ (closed /\ answers = << >>)
    /\ then' = [then EXCEPT !["reader"] = "ended"]
    /\ alive' = FALSE
    /\ Goto("reader", IF alive THEN "cut" ELSE "ended")
    /\ UNCHANGED <<nextId, pending, subs, reserved, shut, answer, inbox, plan, job, chatVars, wireVars, sessionVars>>

-----------------------------------------------------------------------------
(* Chat: the facade. *)

Attached(u) == chat[u].attached # 0
Detached(u) ==
    /\ chat' = [chat EXCEPT ![u].attached = 0]
    /\ subs' = Unsubscribed(u) /\ reserved' = FALSE

Wants(u, ops) ==
    /\ Connected /\ pc[u] = "idle"
    /\ plan[u] # << >> /\ Head(plan[u]) \in ops
Done(u) == plan' = [plan EXCEPT ![u] = Tail(@)]

\* What returns at once: a chat that is finished, attached already or not
\* attached at all (its settings wait for the next open), and a session that
\* another thread has (AlreadyOpen).
AtOnce(u) ==
    \/ chat[u].finished /\ Head(plan[u]) # "ask"
    \/ Attached(u) /\ Head(plan[u]) \in Starts \cup {"next"}
    \/ ~Attached(u) /\ Head(plan[u]) \in Starts \cup Restarts /\ reserved
    \/ ~Attached(u) /\ Head(plan[u]) \in {"set", "detach", "drop"}
    \/ ~chat[u].started /\ Head(plan[u]) = "stop"
Return(u) ==
    /\ Wants(u, Ops) /\ AtOnce(u)
    /\ chat' = [chat EXCEPT ![u].finished = @ \/ Head(plan[u]) \in {"stop", "drop"}]
    /\ Done(u)
    /\ UNCHANGED <<innerVars, answer, inbox, pc, job, then, handed, origin, covered, foreign, late, wireVars, sessionVars>>

\* A new subscription, before the open: what is replayed ahead of its answer
\* is queued.
Subscribe(u) ==
    /\ subs' = subs \cup {u}
    /\ inbox' = [inbox EXCEPT ![u] = << >>]

\* Where a start is to begin: start with the whole history, start_since where its
\* caller says (below 0: live only), and what starts a detached Chat by the way
\* with the first event that it has not seen.
Position(u) ==
    LET op == Head(plan[u])
    IN  IF op = "start" THEN {0}
        ELSE IF op = "live" THEN {-1}
        ELSE IF op = "from" THEN 1 .. MaxEvents
        ELSE {chat[u].seen + 1}

\* start_since.  A send or a refresh goes on when the Chat is attached.
Start(u) ==
    /\ Wants(u, Starts \cup Restarts) /\ ~AtOnce(u) /\ ~Attached(u)
    /\ reserved' = TRUE
    /\ Subscribe(u)
    /\ \E n \in Position(u) :
          /\ Call(u, "open", n)
          /\ covered' = IF Head(plan[u]) = "from" THEN [covered EXCEPT ![u] = @ \cup 0 .. n - 1]
                        ELSE covered
    /\ IF Head(plan[u]) \in {"send", "refresh"} THEN UNCHANGED plan ELSE Done(u)
    /\ UNCHANGED <<alive, shut, then, chat, handed, origin, foreign, late, wireVars, sessionVars>>

\* (Mutant of SeenAfter: the event that was asked for counts as seen.)
SeenAsked(u, m) == IF job[u].since < 0 THEN m.seq ELSE job[u].since

SeenAfter(u, m) == IF job[u].since < 0 THEN m.seq ELSE job[u].since - 1

MaxOf(a, b) == IF a >= b THEN a ELSE b

Started(u) ==
    /\ pc[u] = "await" /\ job[u].op = "open"
    /\ answer[u] # << >> /\ Head(answer[u]).ok
    /\ LET m == Head(answer[u])
           live == job[u].since < 0
       IN  /\ chat' = [chat EXCEPT ![u].attached = m.attach, ![u].started = TRUE,
                                 ![u].seen = MaxOf(@, SeenAfter(u, m))]
           /\ origin' = [origin EXCEPT ![u] =
                            IF live THEN [asked |-> 0, full |-> m.seq + 1]
                            ELSE [asked |-> job[u].since, full |-> job[u].since]]
           /\ covered' = IF live THEN [covered EXCEPT ![u] = @ \cup 0 .. m.seq] ELSE covered
    /\ handed' = [handed EXCEPT ![u] = << >>]
    /\ Goto(u, "idle")
    /\ UNCHANGED <<innerVars, answer, inbox, plan, job, then, foreign, late, wireVars, sessionVars>>

Send(u) ==
    /\ Wants(u, {"send"}) /\ ~AtOnce(u) /\ Attached(u)
    /\ Call(u, "send", 0) /\ Done(u)
    /\ UNCHANGED <<alive, subs, reserved, shut, inbox, then, chatVars, wireVars, sessionVars>>
Change(u) ==
    /\ Wants(u, {"set"}) /\ ~AtOnce(u)
    /\ Call(u, "set", 0) /\ Done(u)
    /\ UNCHANGED <<alive, subs, reserved, shut, inbox, then, chatVars, wireVars, sessionVars>>
Refresh(u) ==
    /\ Wants(u, {"refresh"}) /\ ~AtOnce(u) /\ Attached(u)
    /\ Call(u, "status", 0) /\ Done(u)
    /\ UNCHANGED <<alive, subs, reserved, shut, inbox, then, chatVars, wireVars, sessionVars>>
\* events, sessions, providers, dial, account.
Ask(u) ==
    /\ Wants(u, {"ask"})
    /\ Call(u, "ask", 0) /\ Done(u)
    /\ UNCHANGED <<alive, subs, reserved, shut, inbox, then, chatVars, wireVars, sessionVars>>
Told(u) ==
    /\ pc[u] = "await" /\ job[u].op \in Plain
    /\ answer[u] # << >> /\ Head(answer[u]).ok
    /\ Goto(u, "idle")
    /\ UNCHANGED <<innerVars, answer, inbox, plan, job, then, chatVars, wireVars, sessionVars>>

Detach(u) ==
    /\ Wants(u, {"detach"}) /\ ~AtOnce(u)
    /\ Call(u, "detach", 0) /\ Done(u)
    /\ UNCHANGED <<alive, subs, reserved, shut, inbox, then, chatVars, wireVars, sessionVars>>

\* A chat that was never started is stopped without a word to the daemon.
Stop(u) ==
    /\ Wants(u, {"stop"}) /\ ~AtOnce(u)
    /\ Call(u, "stop", 0) /\ Done(u)
    /\ UNCHANGED <<alive, subs, reserved, shut, inbox, then, chatVars, wireVars, sessionVars>>

\* mark_detached, if there was a Session.
LetGo(u) ==
    /\ pc[u] = "await" /\ job[u].op \in {"stop", "detach"}
    /\ answer[u] # << >> /\ Head(answer[u]).ok
    /\ chat' = [chat EXCEPT ![u].attached = 0,
                            ![u].finished = @ \/ job[u].op = "stop"]
    /\ IF Attached(u) THEN subs' = Unsubscribed(u) /\ reserved' = FALSE ELSE UNCHANGED <<subs, reserved>>
    /\ Goto(u, "idle")
    /\ UNCHANGED <<alive, nextId, pending, shut, answer, inbox, plan, job, then, handed, origin, covered, foreign, late,
                   wireVars, sessionVars>>

\* A frame of this kind is what recv returns.
Incoming(u, kind) ==
    /\ pc[u] = "idle" /\ Attached(u)
    /\ inbox[u] # << >> /\ Head(inbox[u]).kind = kind

\* next_event: an event is handed out ...
Receive(u) ==
    /\ Incoming(u, "event")
    /\ LET m == Head(inbox[u])
       IN  /\ chat' = [chat EXCEPT ![u].seen = MaxOf(@, m.seq)]
           /\ handed' = [handed EXCEPT ![u] = Append(@, m.seq)]
           /\ covered' = [covered EXCEPT ![u] = @ \cup {m.seq}]
           /\ foreign' = (foreign \/ m.attach # chat[u].attached)
    /\ inbox' = [inbox EXCEPT ![u] = Tail(@)]
    /\ UNCHANGED <<innerVars, answer, pc, plan, job, then, origin, late, wireVars, sessionVars>>

\* ... or the session is gone, and the Session with it.
ReceiveGone(u) ==
    /\ Incoming(u, "gone")
    /\ inbox' = [inbox EXCEPT ![u] = Tail(@)]
    /\ chat' = [chat EXCEPT ![u].finished = TRUE]
    /\ foreign' = (foreign \/ Head(inbox[u]).attach # chat[u].attached)
    /\ Goto(u, "drop")
    /\ UNCHANGED <<innerVars, answer, plan, job, then, handed, origin, covered, late, wireVars, sessionVars>>

\* The owner drops the Chat, or a Session goes: Drop for Session.  A detach is
\* written whose answer nobody waits for, and then the session is given up.
Abandon(u) ==
    /\ Wants(u, {"drop"}) /\ ~AtOnce(u)
    /\ chat' = [chat EXCEPT ![u].finished = TRUE]
    /\ Goto(u, "drop") /\ Done(u)
    /\ UNCHANGED <<innerVars, answer, inbox, job, then, handed, origin, covered, foreign, late, wireVars, sessionVars>>

\* (Mutant of Notify: the session is given up first.)
NotifyLate(u) ==
    /\ alive /\ ~Broken
    /\ \/ pc[u] = "drop" /\ Detached(u) /\ Goto(u, "late") /\ UNCHANGED requests
       \/ /\ pc[u] = "late" /\ requests' = Append(requests, [op |-> "detach", id |-> 0, since |-> 0])
          /\ Goto(u, "idle") /\ UNCHANGED <<chat, subs, reserved>>
    /\ UNCHANGED <<alive, nextId, pending, shut, answer, inbox, plan, job, then, handed, origin, covered, foreign, late,
                   answers, closed, sessionVars>>

Notify(u) ==
    /\ pc[u] = "drop" /\ alive /\ ~Broken
    /\ requests' = Append(requests, [op |-> "detach", id |-> 0, since |-> 0])
    /\ Goto(u, "unmark")
    /\ UNCHANGED <<innerVars, answer, inbox, plan, job, then, chatVars, answers, closed, sessionVars>>
NotifyBroken(u) ==
    /\ pc[u] = "drop" /\ alive /\ Broken
    /\ alive' = FALSE
    /\ then' = [then EXCEPT ![u] = "unmark"]
    /\ Goto(u, "cut")
    /\ UNCHANGED <<nextId, pending, subs, reserved, shut, answer, inbox, plan, job, chatVars, wireVars, sessionVars>>
NotifyDead(u) ==
    /\ pc[u] = "drop" /\ ~alive
    /\ Goto(u, "unmark")
    /\ UNCHANGED <<innerVars, answer, inbox, plan, job, then, chatVars, wireVars, sessionVars>>

Unmark(u) ==
    /\ pc[u] = "unmark"
    /\ Detached(u)
    /\ Goto(u, "idle")
    /\ UNCHANGED <<alive, nextId, pending, shut, answer, inbox, plan, job, then, handed, origin, covered, foreign, late,
                   wireVars, sessionVars>>

-----------------------------------------------------------------------------
(* The daemon's end of the connection. *)

Up == Connected /\ ~Broken /\ daemon[peer[Program]] = "serving"
Reply(r, ok) == [kind |-> "reply", id |-> r.id, ok |-> ok, seq |-> session.events - 1,
                 attach |-> session.attaches]
Frame(kind, e, a) == [kind |-> kind, id |-> -1, seq |-> e, attach |-> a]
daemonRest == <<innerVars, threadVars, chatVars, closed>>

\* An open attaches: what is in the log is replayed, and then it is answered.  The
\* listener is told nothing below the position it was opened at.
ServeOpen ==
    /\ Up /\ serving = << >> /\ requests # << >> /\ Head(requests).op = "open" /\ ~session.dying
    /\ LET r == Head(requests)
           from == IF r.since < 0 THEN session.events ELSE r.since
           a == session.attaches + 1
       IN  /\ serving' = <<r>>
           /\ session' = [session EXCEPT !.up = TRUE, !.listener = a, !.next = from, !.attaches = a]
           /\ answers' = answers \o [i \in 1 .. session.events - from |-> Frame("event", from + i - 1, a)]
    /\ requests' = Tail(requests)
    /\ UNCHANGED <<daemonRest, stops>>

ServeOpened ==
    /\ Up /\ serving # << >>
    /\ answers' = Append(answers, Reply(Head(serving), TRUE))
    /\ serving' = << >>
    /\ UNCHANGED <<daemonRest, requests, session, stops>>

\* An open that is refused, and the other requests.  Only a session that is in
\* the registry can be detached from; one that is being put down is waited for.
Serve ==
    /\ Up /\ serving = << >> /\ requests # << >>
    /\ LET r == Head(requests)
       IN  /\ \/ r.op = "open" /\ ~session.dying /\ answers' = Append(answers, Reply(r, FALSE))
                 /\ UNCHANGED session
              \/ r.op \in {"send", "set"} /\ ~session.dying /\ answers' = Append(answers, Reply(r, session.up))
                 /\ UNCHANGED session
              \/ r.op = "status" /\ answers' = Append(answers, Reply(r, session.up)) /\ UNCHANGED session
              \/ r.op = "ask" /\ answers' = Append(answers, Reply(r, TRUE)) /\ UNCHANGED session
              \/ r.op = "stop" /\ ~session.up /\ ~session.dying
                 /\ answers' = Append(answers, Reply(r, TRUE)) /\ UNCHANGED session
              \/ r.op = "detach" /\ answers' = Append(answers, Reply(r, TRUE))
                 /\ session' = [session EXCEPT !.listener = IF session.up THEN 0 ELSE @]
           /\ requests' = Tail(requests)
    /\ UNCHANGED <<daemonRest, serving, stops>>

\* The session is put down for this client or for another one.
TakeDown ==
    /\ Up /\ session.up /\ serving = << >>
    /\ IF requests # << >> /\ Head(requests).op = "stop" THEN UNCHANGED stops
       ELSE stops < MaxStops /\ stops' = stops + 1
    /\ session' = [session EXCEPT !.up = FALSE, !.dying = TRUE, !.old = session.listener, !.listener = 0]
    /\ UNCHANGED <<daemonRest, requests, answers, serving>>

Farewell ==
    /\ Up /\ session.dying
    /\ session' = [session EXCEPT !.dying = FALSE, !.old = 0]
    /\ answers' = IF session.old = 0 THEN answers ELSE Append(answers, Frame("gone", -1, session.old))
    /\ UNCHANGED <<daemonRest, requests, serving, stops>>

Publish ==
    /\ Up /\ (session.up \/ session.dying)
    /\ session.events < MaxEvents
    /\ LET l == IF session.up THEN session.listener ELSE session.old
       IN  answers' = IF l = 0 \/ session.events < session.next THEN answers
                      ELSE Append(answers, Frame("event", session.events, l))
    /\ session' = [session EXCEPT !.events = @ + 1]
    /\ UNCHANGED <<daemonRest, requests, serving, stops>>

\* The daemon exits or closes the connection; what it had not sent is lost.
Close ==
    /\ Connected /\ ~closed
    /\ closed' = TRUE
    /\ \E n \in 0 .. Len(answers) : answers' = SubSeq(answers, 1, n)
    /\ UNCHANGED <<innerVars, threadVars, chatVars, requests, sessionVars>>

-----------------------------------------------------------------------------
StartupNext ==
    \/ \E d \in Programs : DaemonStep(d) \/ Crash(d)
    \/ \E p \in Programs : ProgramStep(p) \/ StartupTimeout(p) \/ (p # Program /\ AskShutdown(p))

Thread(u) ==
    \/ Write(u) \/ WriteDead(u) \/ WriteBroken(u) \/ WriteFailed(u) \/ Refused(u)
    \/ Started(u) \/ Told(u) \/ LetGo(u)
    \/ Notify(u) \/ NotifyBroken(u) \/ NotifyDead(u) \/ Unmark(u)

ClientNext ==
    \/ \E u \in Users : \/ Return(u) \/ Start(u) \/ Send(u) \/ Change(u) \/ Refresh(u) \/ Ask(u)
                        \/ Detach(u) \/ Stop(u) \/ Abandon(u)
                        \/ Receive(u) \/ ReceiveGone(u) \/ Timeout(u) \/ Thread(u)
    \/ \E t \in Threads : Cut(t) \/ ClearAll(t)
    \/ Read \/ Eof
    \/ ServeOpen \/ ServeOpened \/ Serve \/ TakeDown \/ Farewell \/ Publish \/ Close

Next == (StartupNext /\ UNCHANGED connVars) \/ (ClientNext /\ UNCHANGED startVars)

Spec == Init /\ [][Next]_vars

\* Programs and daemons go on while any of them can, and a daemon that has
\* exited has closed its connections.  Nothing obliges an owner to call or to
\* read, a timeout to pass, or anybody to stop a session or a daemon.
System ==
    \/ (\E d \in Programs : DaemonStep(d)) /\ UNCHANGED connVars
    \/ (\E p \in Programs : ProgramStep(p)) /\ UNCHANGED connVars
    \/ /\ \/ \E u \in Users : Thread(u)
          \/ \E t \in Threads : Cut(t) \/ ClearAll(t)
          \/ Read \/ Eof \/ ServeOpen \/ ServeOpened \/ Serve \/ Farewell
          \/ requests # << >> /\ Head(requests).op = "stop" /\ TakeDown
          \/ Connected /\ daemon[peer[Program]] = "exited" /\ Close
       /\ UNCHANGED startVars
FairSpec == Spec /\ WF_vars(System)

-----------------------------------------------------------------------------
(* Properties. *)

\* Every variable has its type.
TypeOK ==
    /\ StartupTypeOK
    /\ alive \in BOOLEAN /\ reserved \in BOOLEAN /\ shut \in BOOLEAN /\ closed \in BOOLEAN
    /\ nextId \in 1 .. MaxCalls + 1
    /\ pending \subseteq (1 .. MaxCalls) \X Users /\ subs \subseteq Users
    /\ \A u \in Users : Len(answer[u]) <= 1
    /\ pc \in [Threads -> {"idle", "write", "await", "failed", "cut", "clear", "drop", "unmark", "ended"}]
    /\ plan \in [Users -> Seq(Ops)]
    /\ job \in [Users -> [op : {"none", "open", "detach", "stop"} \cup Plain, id : 0 .. MaxCalls,
                          since : -1 .. MaxEvents]]
    /\ chat \in [Users -> [attached : Nat, seen : -1 .. MaxEvents - 1, started : BOOLEAN,
                           finished : BOOLEAN]]
    /\ session.events \in 0 .. MaxEvents /\ stops \in 0 .. MaxStops

\* No call waits for an answer that cannot come any more: if the daemon goes,
\* whoever registered a call before, during or after disconnect is told, and
\* does not have to wait for the timeout (Inner::write, disconnect).
Calling == {u \in Users : pc[u] = "await"}
CallsReturn == Calling # {} ~> Calling = {}

\* The connection is at rest.
Quiet ==
    /\ Connected /\ alive /\ ~Broken /\ ~session.dying
    /\ requests = << >> /\ serving = << >> /\ answers = << >>
    /\ \A u \in Users : pc[u] = "idle"

\* Daemon and client agree on who listens: no listener is left behind that
\* keeps a session warm for nobody, and no Session waits for frames that nobody
\* will send.  (After an open that timed out they may not: its answer comes too
\* late for the client to take the listener back.)
ListenersAgree ==
    Quiet /\ ~late =>
        /\ session.listener # 0 => \E u \in Users : chat[u].attached = session.listener
        /\ \A u \in Users : Attached(u) =>
              \/ chat[u].attached = session.listener
              \/ \E i \in DOMAIN inbox[u] : inbox[u][i].kind = "gone"

\* A chat that is attached hands out every event once, in order, none below the
\* position it was asked for and none left out from there on (from the answer on,
\* if it was asked for live events only); and however often it detaches and is
\* attached again by the way, it comes to pass over no event that its owner has
\* not asked it to (Chat::start_since, next_event).
InOrder ==
    \A u \in Users :
        /\ \A i \in DOMAIN handed[u] : handed[u][i] >= origin[u].asked
        /\ \A i \in 2 .. Len(handed[u]) : handed[u][i - 1] < handed[u][i]
        /\ \A i \in DOMAIN handed[u] : \A e \in origin[u].full .. handed[u][i] : e \in Range(handed[u])
        /\ 0 .. chat[u].seen \subseteq covered[u]

\* ... as long as no frame of one attachment is taken for one of another.
InOrderUnlessForeign == foreign \/ InOrder
=============================================================================
