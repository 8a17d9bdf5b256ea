------------------------------- MODULE Codex -------------------------------
(***************************************************************************)
(* The Codex adapter (providers/codex_app_server): the warm app-server     *)
(* that sessions share (server.rs), the JSON-RPC client on it              *)
(* (appserver.rs), a session's Runner (runner.rs) and what becomes of the  *)
(* notifications (stream.rs), on the processes of Process.                 *)
(*                                                                         *)
(* One set of flags, so one pooled server at a time; a process is known by *)
(* its generation.  Every runner is used by one conductor, a call at a     *)
(* time, and owns one thread of Codex, which goes by the runner's name.    *)
(* The app-server itself is external: how it numbers and folds turns is    *)
(* taken from landed and its tests.                                        *)
(***************************************************************************)
EXTENDS Process, Sequences, SequencesExt

CONSTANTS
    Runners,      \* sessions that run on Codex
    Scenarios,    \* what their conductors and the daemon are going to do, who is
                  \* attached to a warm server, and what has gone wrong before
    MaxTimeouts,  \* bound: calls that time out
    MaxFaults,    \* bound: servers, helpers and daemons that misbehave
    MaxTurns      \* bound: turns of the threads

\* start, send, compact, catch_up, interrupt and stop of a Runner.
RunnerOps == {"start", "send", "compact", "catch_up", "interrupt", "stop"}
\* reap_idle and shutdown of the pool.
PoolOps == {"reap", "shutdown"}

ASSUME CodexAssumption ==
    /\ Procs \subseteq Nat \ {0} /\ "sweeper" \notin Runners
    /\ \A s \in Scenarios :
          /\ s.plan \in [Runners -> Seq(RunnerOps)] /\ s.sweeps \in Seq(PoolOps)
          /\ s.warm \in {0, 1} \cap ({0} \cup Procs) /\ s.on \subseteq Runners /\ (s.warm = 0 => s.on = {})
          /\ s.timeouts \in 0 .. MaxTimeouts /\ s.faults \in 0 .. MaxFaults
    /\ MaxTimeouts \in Nat /\ MaxFaults \in Nat /\ MaxTurns \in Nat

VARIABLES
    pool,       \* POOL: the generation that is in it, or 0
    poolLock,   \* who holds POOL
    shared,     \* Shared, by generation
    requests,   \* what the server has not read yet
    lines,      \* what the pump has not read yet
    mouth,      \* what the pump is about to emit
    turn,       \* the turn that the server has open on a thread, or 0
    asking,     \* the server waits for an answer of omni's
    runner,     \* Runner, and the call it is in
    answer,     \* the channel of a call
    plan,       \* what a conductor is still going to do
    sweeper,    \* the thread that looks after the pool, and what it has yet to do
    ear,        \* what a conductor has heard since its runner was attached
    owed,       \* history: turns that a conductor waits for the end of
    swept,      \* history: servers that reap_idle or shutdown took on
    nextTurn, timeouts, faults

sharedVars == <<pool, poolLock, shared>>
wireVars == <<requests, lines, mouth>>
nativeVars == <<turn, asking, nextTurn>>
runnerVars == <<runner, answer, plan>>
boundVars == <<timeouts, faults>>
historyVars == <<owed, swept>>
codexVars == <<sharedVars, wireVars, nativeVars, runnerVars, sweeper, ear, historyVars, boundVars>>
vars == <<procVars, codexVars>>

NoRoute == 0 - 1   \* a route holds the turn that is open on its thread, or 0
NoShared == [stopping |-> FALSE, routes |-> [r \in Runners |-> NoRoute], pending |-> {},
             memo |-> FALSE, silencer |-> "nobody", declines |-> 0]

\* Nothing is there, or server 1 is warm and some are attached to it.
Opening(s) ==
    /\ pool = s.warm
    /\ proc = [p \in Procs |-> IF p = s.warm THEN Fresh ELSE NoProc]
    /\ guardian = [p \in Procs |-> IF p = s.warm THEN "watching" ELSE "none"]
    /\ shared = [g \in Procs |->
                    [NoShared EXCEPT !.memo = (g = s.warm),
                                     !.routes = [r \in Runners |-> IF g = s.warm /\ r \in s.on THEN 0 ELSE NoRoute]]]
    /\ runner = [r \in Runners |->
                    LET g == IF r \in s.on THEN s.warm ELSE 0
                    IN  [pc |-> "idle", on |-> g, shared |-> g, method |-> "none", id |-> 0,
                         open |-> 0, started |-> 0]]
    /\ plan = s.plan /\ sweeper = [pc |-> "idle", on |-> 0, plan |-> s.sweeps]
    /\ timeouts = s.timeouts /\ faults = s.faults

Init ==
    /\ \E s \in Scenarios : Opening(s)
    /\ helper = {} /\ owner = TRUE /\ poolLock = "nobody"
    /\ requests = [g \in Procs |-> << >>] /\ lines = [g \in Procs |-> << >>]
    /\ mouth = [g \in Procs |-> << >>]
    /\ turn = [g \in Procs |-> [r \in Runners |-> 0]]
    /\ asking = {} /\ nextTurn = 1
    /\ answer = [r \in Runners |-> << >>]
    /\ ear = [r \in Runners |-> << >>] /\ owed = [r \in Runners |-> 0]
    /\ swept = {}

-----------------------------------------------------------------------------
(* AppServer::call. *)

Goto(r, place) == runner' = [runner EXCEPT ![r].pc = place]

\* The call is registered and written ...
Calls(r, g, method, place) ==
    LET n == runner[r].id + 1
    IN  /\ runner' = [runner EXCEPT ![r] = [@ EXCEPT !.method = method, !.pc = place, !.on = g, !.id = n]]
        /\ answer' = [answer EXCEPT ![r] = << >>]
        /\ shared' = [shared EXCEPT ![g].pending = @ \cup {<<r, n>>},
                                    ![g].silencer = IF place = "silence" THEN r ELSE @]
        /\ requests' = [requests EXCEPT ![g] =
                           Append(@, [method |-> method, by |-> r, id |-> n, turn |-> runner[r].open])]

\* ... or the pipe is gone, and with it the operation.
Call(r, method, place) ==
    IF Writable(runner[r].on) THEN Calls(r, runner[r].on, method, place)
    ELSE Goto(r, "failed") /\ UNCHANGED <<answer, shared, requests>>

callRest == <<procVars, pool, poolLock, lines, mouth, nativeVars, plan, sweeper, ear, historyVars, boundVars>>

Failure == [ok |-> FALSE, turn |-> 0]
Answered(r, place) == runner[r].pc = place /\ answer[r] # << >>
Ok(r, place) == Answered(r, place) /\ Head(answer[r]).ok
Waits(r) == runner[r].pc \in {"boot", "thread", "resume", "silence", "inject", "steer", "turn", "compact", "told"}

Timeout(r) ==
    /\ Waits(r) /\ answer[r] = << >> /\ timeouts < MaxTimeouts
    /\ timeouts' = timeouts + 1
    /\ shared' = [shared EXCEPT ![runner[r].on].pending = @ \ {<<r, runner[r].id>>}]
    /\ answer' = [answer EXCEPT ![r] = <<Failure>>]
    /\ UNCHANGED <<procVars, pool, poolLock, wireVars, nativeVars, runner, plan, sweeper, ear, historyVars, faults>>

-----------------------------------------------------------------------------
(* Runner::start. *)

Wants(r, op) == runner[r].pc = "idle" /\ plan[r] # << >> /\ Head(plan[r]) = op
Done(r) == plan' = [plan EXCEPT ![r] = Tail(@)]
Unused == {g \in Procs : proc[g].os = "none"}
Lowest(S) == CHOOSE g \in S : \A h \in S : g <= h

PoolFree == poolLock = "nobody"

Warm == pool # 0 /\ Alive(pool)

\* Shared::get: a server that lives is shared ...
Get(r) ==
    /\ Wants(r, "start") /\ runner[r].shared = 0 /\ PoolFree
    /\ Warm
    /\ runner' = [runner EXCEPT ![r].pc = "got", ![r].on = pool]
    /\ Done(r)
    /\ UNCHANGED <<procVars, sharedVars, wireVars, nativeVars, answer, sweeper, ear, historyVars, boundVars>>

\* ... or one is started, with the pool locked until it has answered.
Boot(r) ==
    /\ Wants(r, "start") /\ runner[r].shared = 0 /\ PoolFree
    /\ ~Warm
    /\ Unused # {} /\ Spawn(Lowest(Unused))
    /\ Calls(r, Lowest(Unused), "initialize", "boot")
    /\ poolLock' = r /\ Done(r)
    /\ UNCHANGED <<pool, lines, mouth, nativeVars, sweeper, ear, historyVars, boundVars>>
Booted(r) ==
    /\ Ok(r, "boot")
    /\ pool' = runner[r].on /\ poolLock' = "nobody"
    /\ Goto(r, "got")
    /\ UNCHANGED <<procVars, shared, wireVars, nativeVars, answer, plan, sweeper, ear, historyVars, boundVars>>

\* A server that does not shake hands is put down before the pool is unlocked.
BootFails(r) ==
    /\ Answered(r, "boot") /\ ~Head(answer[r]).ok
    /\ proc' = [proc EXCEPT ![runner[r].on].stdin = FALSE, ![runner[r].on].stop = "eof"]
    /\ Goto(r, "unboot")
    /\ UNCHANGED <<helper, guardian, owner, sharedVars, wireVars, nativeVars, answer, plan, sweeper, ear, historyVars, boundVars>>
BootFailed(r) ==
    /\ runner[r].pc = "unboot" /\ proc[runner[r].on].stop = "done"
    /\ poolLock' = "nobody"
    /\ runner' = [runner EXCEPT ![r].pc = "idle", ![r].on = 0]
    /\ UNCHANGED <<procVars, pool, shared, wireVars, nativeVars, answer, plan, sweeper, ear, historyVars, boundVars>>

\* open, or resume and, if the thread is lost, open.
OpenThread(r) ==
    /\ runner[r].pc = "got"
    /\ \E m \in {"thread/start", "thread/resume"} :
          Call(r, m, IF m = "thread/start" THEN "thread" ELSE "resume")
    /\ UNCHANGED callRest
Reopen(r) ==
    /\ Answered(r, "resume") /\ ~Head(answer[r]).ok
    /\ Call(r, "thread/start", "thread")
    /\ UNCHANGED callRest
\* silence_skills: once per server, and under its lock; a failure is no matter.
Silence(r) ==
    /\ Ok(r, "thread") \/ Ok(r, "resume")
    /\ LET S == shared[runner[r].on]
       IN  /\ S.silencer = "nobody"
           /\ IF S.memo \/ ~Writable(runner[r].on)
              THEN Goto(r, "attach") /\ UNCHANGED <<answer, shared, requests>>
              ELSE Calls(r, runner[r].on, "skills", "silence")
    /\ UNCHANGED callRest
Silenced(r) ==
    /\ Answered(r, "silence")
    /\ shared' = [shared EXCEPT ![runner[r].on].silencer = "nobody",
                                ![runner[r].on].memo = Head(answer[r]).ok]
    /\ Goto(r, "attach")
    /\ UNCHANGED <<callRest, answer, requests>>
\* thread/inject_items, if there is history to tell.
Inject(r) ==
    /\ runner[r].pc = "attach" /\ runner[r].method # "inject"
    /\ Call(r, "inject", "inject")
    /\ UNCHANGED callRest
Injected(r) ==
    /\ Ok(r, "inject") /\ runner[r].shared = 0
    /\ Goto(r, "attach")
    /\ UNCHANGED <<callRest, answer, shared, requests>>

\* (Mutant of MayAttach: a server that has died is not asked about.)
MayAttach1(g) == TRUE

\* attach looks again with the routes locked, and the exit takes that lock.
MayAttach(g) == Alive(g)
Attach(r) ==
    /\ runner[r].pc = "attach"
    /\ LET g == runner[r].on
       IN  IF MayAttach(g)
           THEN /\ shared' = [shared EXCEPT ![g].routes[r] = 0]
                /\ runner' = [runner EXCEPT ![r].pc = "idle", ![r].shared = g, ![r].started = 0]
                /\ ear' = [ear EXCEPT ![r] = << >>] /\ owed' = [owed EXCEPT ![r] = 0]
           ELSE Goto(r, "failed") /\ UNCHANGED <<shared, ear, owed>>
    /\ UNCHANGED <<procVars, pool, poolLock, wireVars, nativeVars, answer, plan, sweeper, swept, boundVars>>

\* An error is the end of start, and of any other operation.
Fails(r) ==
    /\ \/ runner[r].pc = "failed"
       \/ /\ \E place \in {"thread", "inject", "turn", "compact"} : Answered(r, place) /\ ~Head(answer[r]).ok
       \/ /\ runner[r].pc = "told" /\ answer[r] # << >>
    /\ runner' = [runner EXCEPT ![r].pc = "idle", ![r].on = runner[r].shared]
    /\ UNCHANGED <<procVars, sharedVars, wireVars, nativeVars, answer, plan, sweeper, ear, historyVars, boundVars>>

-----------------------------------------------------------------------------
(* The other operations of a Runner. *)

\* send: into the turn that the route knows of, if Codex still has it ...
Send(r) ==
    /\ Wants(r, "send") /\ runner[r].shared # 0
    /\ LET open == shared[runner[r].on].routes[r]
       IN  runner' = [runner EXCEPT ![r].open = open, ![r].pc = IF open > 0 THEN "steering" ELSE "opening"]
    /\ Done(r)
    /\ UNCHANGED <<procVars, sharedVars, wireVars, nativeVars, answer, sweeper, ear, historyVars, boundVars>>
Steer(r) ==
    /\ runner[r].pc = "steering"
    /\ Call(r, "turn/steer", "steer")
    /\ UNCHANGED callRest
Steered(r) ==
    /\ Ok(r, "steer")
    /\ Goto(r, "idle")
    /\ UNCHANGED <<callRest, answer, shared, requests>>
\* ... and if it has not, or nobody knows of one, with turn/start.
OpenTurn(r) ==
    /\ runner[r].pc = "opening" \/ (Answered(r, "steer") /\ ~Head(answer[r]).ok)
    /\ Call(r, "turn/start", "turn")
    /\ UNCHANGED callRest

\* (Mutant of Landed: only the turn that the route knew of is looked at.)
LandedInOpen(r, t) == t = runner[r].open

\* landed: into a turn that is known, or it opens one.
Landed(r, t) == t = runner[r].open \/ t = runner[r].started
Sent(r) ==
    /\ Ok(r, "turn")
    /\ LET t == Head(answer[r]).turn
       IN  /\ owed' = [owed EXCEPT ![r] = IF Landed(r, t) THEN @ ELSE @ + 1]
           /\ runner' = [runner EXCEPT ![r].pc = "idle", ![r].started = t]
    /\ UNCHANGED <<procVars, sharedVars, wireVars, nativeVars, answer, plan, sweeper, ear, swept, boundVars>>

Compact(r) ==
    /\ Wants(r, "compact") /\ runner[r].shared # 0
    /\ Call(r, "compact", "compact") /\ Done(r)
    /\ UNCHANGED <<procVars, pool, poolLock, lines, mouth, nativeVars, sweeper, ear, historyVars, boundVars>>
Compacting(r) ==
    /\ Ok(r, "compact")
    /\ owed' = [owed EXCEPT ![r] = @ + 1]
    /\ Goto(r, "idle")
    /\ UNCHANGED <<procVars, sharedVars, wireVars, nativeVars, answer, plan, sweeper, ear, swept, boundVars>>

\* catch_up and interrupt: an answer, whatever it is.
CatchUp(r) ==
    /\ Wants(r, "catch_up") /\ runner[r].shared # 0
    /\ Call(r, "inject", "told") /\ Done(r)
    /\ UNCHANGED <<procVars, pool, poolLock, lines, mouth, nativeVars, sweeper, ear, historyVars, boundVars>>
Interrupt(r) ==
    /\ Wants(r, "interrupt") /\ runner[r].shared # 0
    /\ shared[runner[r].on].routes[r] > 0
    /\ Call(r, "interrupt", "told") /\ Done(r)
    /\ UNCHANGED <<procVars, pool, poolLock, lines, mouth, nativeVars, sweeper, ear, historyVars, boundVars>>

\* What is not running has nothing to do, nor has an interrupt between turns.
Skip(r) ==
    /\ runner[r].pc = "idle" /\ plan[r] # << >>
    /\ \/ runner[r].shared = 0 /\ Head(plan[r]) # "start"
       \/ Wants(r, "interrupt") /\ runner[r].shared # 0 /\ shared[runner[r].on].routes[r] <= 0
    /\ Done(r)
    /\ UNCHANGED <<procVars, sharedVars, wireVars, nativeVars, runner, answer, sweeper, ear, historyVars, boundVars>>

\* stop unhooks the thread; the server stays.
Stop(r) ==
    /\ Wants(r, "stop") /\ runner[r].shared # 0
    /\ shared' = [shared EXCEPT ![runner[r].shared].routes[r] = NoRoute]
    /\ runner' = [runner EXCEPT ![r].shared = 0, ![r].on = 0]
    /\ Done(r)
    /\ UNCHANGED <<procVars, pool, poolLock, wireVars, nativeVars, answer, sweeper, ear, historyVars, boundVars>>

-----------------------------------------------------------------------------
(* The pump's callback, the writer of refusals and the reaper's callback. *)

\* A line that comes when the gate is closed is dropped.
Dropped(g) ==
    /\ proc[g].pump = "idle" /\ lines[g] # << >> /\ ~proc[g].gate
    /\ lines' = [lines EXCEPT ![g] = << >>]
    /\ UNCHANGED <<procVars, sharedVars, requests, mouth, nativeVars, runnerVars, sweeper, ear, historyVars, boundVars>>
Hearing(g, kind) == proc[g].pump = "idle" /\ lines[g] # << >> /\ proc[g].gate /\ Head(lines[g]).kind = kind
Heard(g) == lines' = [lines EXCEPT ![g] = Tail(@)]

\* A response is for the call with its id, if that still waits.
HearReply(g) ==
    /\ Hearing(g, "reply")
    /\ LET m == Head(lines[g])
       IN  IF <<m.to, m.id>> \in shared[g].pending
           THEN /\ shared' = [shared EXCEPT ![g].pending = @ \ {<<m.to, m.id>>}]
                /\ answer' = [answer EXCEPT ![m.to] = <<[ok |-> m.ok, turn |-> m.turn]>>]
           ELSE UNCHANGED <<shared, answer>>
    /\ Heard(g)
    /\ UNCHANGED <<procVars, pool, poolLock, requests, mouth, nativeVars, runner, plan, sweeper, ear, historyVars, boundVars>>

\* (Mutant of HearAsk: what omni cannot answer it ignores.)
HearAskIgnored(g) ==
    /\ Hearing(g, "ask") /\ Heard(g)
    /\ UNCHANGED <<procVars, sharedVars, requests, mouth, nativeVars, runnerVars, sweeper, ear, historyVars, boundVars>>

\* A request of the server's is declined, by a thread that may block.
HearAsk(g) ==
    /\ Hearing(g, "ask") /\ Heard(g)
    /\ shared' = [shared EXCEPT ![g].declines = @ + 1]
    /\ UNCHANGED <<procVars, pool, poolLock, requests, mouth, nativeVars, runnerVars, sweeper, ear, historyVars, boundVars>>
Decline(g) ==
    /\ shared[g].declines > 0
    /\ shared' = [shared EXCEPT ![g].declines = IF Writable(g) THEN @ - 1 ELSE 0]
    /\ asking' = IF Writable(g) THEN asking \ {g} ELSE asking
    /\ UNCHANGED <<procVars, pool, poolLock, wireVars, turn, nextTurn, runnerVars, sweeper, ear, historyVars, boundVars>>

\* A notification goes to the route of its thread, and is emitted when the
\* routes are unlocked.
HearNote(g) ==
    /\ Hearing(g, "note")
    /\ LET m == Head(lines[g])
       IN  IF shared[g].routes[m.to] = NoRoute THEN UNCHANGED <<proc, shared, mouth>>
           ELSE /\ shared' = [shared EXCEPT ![g].routes[m.to] = IF m.what = "started" THEN m.turn ELSE 0]
                /\ mouth' = [mouth EXCEPT ![g] = IF m.what = "started" THEN << >> ELSE <<m.to>>]
                /\ proc' = [proc EXCEPT ![g].pump = IF m.what = "started" THEN "idle" ELSE "calling"]
    /\ Heard(g)
    /\ UNCHANGED <<helper, guardian, owner, pool, poolLock, requests, nativeVars, runnerVars, sweeper, ear, historyVars, boundVars>>
Hears(r, kind, g) == ear' = [ear EXCEPT ![r] = Append(@, [kind |-> kind, from |-> g])]

\* feed: the end of a turn is the event that matters here.
Emit(g) ==
    /\ proc[g].pump = "calling"
    /\ Hears(Head(mouth[g]), "end", g)
    /\ mouth' = [mouth EXCEPT ![g] = << >>]
    /\ proc' = [proc EXCEPT ![g].pump = "idle"]
    /\ UNCHANGED <<helper, guardian, owner, sharedVars, requests, lines, nativeVars, runnerVars, sweeper, historyVars, boundVars>>

\* (Mutant of Orphaned: who waits is left waiting.)
OrphanedNot(g) == {}

\* on_exit: every call that waits fails, then every route is told, unless the
\* server was put down on purpose.
Orphaned(g) == {r \in Runners : <<r, runner[r].id>> \in shared[g].pending}
OnExit(g) ==
    /\ proc[g].reaper = "calling"
    /\ answer' = [r \in Runners |-> IF r \in Orphaned(g) THEN <<Failure>> ELSE answer[r]]
    /\ shared' = [shared EXCEPT ![g].pending = {}]
    /\ proc' = [proc EXCEPT ![g].reaper = "telling"]
    /\ UNCHANGED <<helper, guardian, owner, pool, poolLock, wireVars, nativeVars, runner, plan, sweeper, ear, historyVars, boundVars>>
NotifyExit(g) ==
    /\ proc[g].reaper = "telling"
    /\ ear' = [r \in Runners |-> IF ~shared[g].stopping /\ shared[g].routes[r] # NoRoute
                                 THEN Append(ear[r], [kind |-> "crash", from |-> g]) ELSE ear[r]]
    /\ proc' = [proc EXCEPT ![g].reaper = "done"]
    /\ UNCHANGED <<helper, guardian, owner, sharedVars, wireVars, nativeVars, runnerVars, sweeper, historyVars, boundVars>>

-----------------------------------------------------------------------------
(* reap_idle and shutdown. *)

Sweeps(op) == sweeper.pc = "idle" /\ sweeper.plan # << >> /\ Head(sweeper.plan) = op /\ PoolFree
Idle(g) == (\A r \in Runners : shared[g].routes[r] = NoRoute) \/ ~Alive(g)
sweepRest == <<wireVars, nativeVars, runnerVars, ear, owed, boundVars>>

\* A server without routes, or that is dead, is taken out of the pool; a
\* shutdown takes it whatever it does, and does not keep the pool locked.
Reap ==
    /\ Sweeps("reap") /\ pool # 0 /\ Idle(pool)
    /\ sweeper' = [pc |-> "taken", on |-> pool, plan |-> Tail(sweeper.plan)]
    /\ pool' = 0 /\ poolLock' = "sweeper"
    /\ UNCHANGED <<procVars, shared, swept, sweepRest>>
ReapNothing ==
    /\ Sweeps("reap") /\ ~(pool # 0 /\ Idle(pool))
    /\ sweeper' = [sweeper EXCEPT !.plan = Tail(@)]
    /\ UNCHANGED <<procVars, sharedVars, swept, sweepRest>>
Shutdown ==
    /\ Sweeps("shutdown")
    /\ sweeper' = [pc |-> IF pool = 0 THEN "idle" ELSE "taken", on |-> pool, plan |-> Tail(sweeper.plan)]
    /\ pool' = 0
    /\ UNCHANGED <<procVars, poolLock, shared, swept, sweepRest>>

\* A server that lives is told apart from one that is dead already, whose end
\* is to be heard of.
Retire ==
    /\ sweeper.pc = "taken"
    /\ LET g == sweeper.on
       IN  /\ shared' = [shared EXCEPT ![g].stopping = Alive(g) \/ poolLock # "sweeper"]
           /\ proc' = [proc EXCEPT ![g].stdin = FALSE, ![g].stop = "eof"]
           /\ swept' = swept \cup {g}
    /\ sweeper' = [sweeper EXCEPT !.pc = "stopping"]
    /\ UNCHANGED <<helper, guardian, owner, pool, poolLock, sweepRest>>
Retired ==
    /\ sweeper.pc = "stopping" /\ proc[sweeper.on].stop = "done"
    /\ sweeper' = [sweeper EXCEPT !.pc = "idle", !.on = 0]
    /\ poolLock' = IF poolLock = "sweeper" THEN "nobody" ELSE poolLock
    /\ UNCHANGED <<procVars, pool, shared, swept, sweepRest>>

-----------------------------------------------------------------------------
(* The app-server: external. *)

Reply(q, ok, t) == [kind |-> "reply", to |-> q.by, id |-> q.id, ok |-> ok, turn |-> t]
Note(what, r, t) == [kind |-> "note", what |-> what, to |-> r, turn |-> t]
Serving(g, methods) == proc[g].os = "up" /\ requests[g] # << >> /\ Head(requests[g]).method \in methods
Says(g, said) ==
    /\ requests' = [requests EXCEPT ![g] = Tail(@)]
    /\ lines' = [lines EXCEPT ![g] = @ \o said]
Fault == faults < MaxFaults /\ faults' = faults + 1
nativeRest == <<sharedVars, mouth, runnerVars, sweeper, ear, historyVars, timeouts>>

\* An ordinary call succeeds, and any call may be refused.
ServeCall(g) ==
    /\ Serving(g, {"initialize", "thread/start", "thread/resume", "skills", "inject"})
    /\ Says(g, <<Reply(Head(requests[g]), TRUE, 0)>>)
    /\ UNCHANGED <<procVars, nativeRest, nativeVars, faults>>
Refuse(g) ==
    /\ proc[g].os = "up" /\ requests[g] # << >> /\ Fault
    /\ Says(g, <<Reply(Head(requests[g]), FALSE, 0)>>)
    /\ UNCHANGED <<procVars, nativeRest, nativeVars>>

\* turn/start opens a turn, and says so before or after it answers, ...
ServeTurn(g) ==
    /\ Serving(g, {"turn/start", "compact"}) /\ nextTurn <= MaxTurns
    /\ LET q == Head(requests[g])
           note == Note("started", q.by, nextTurn)
       IN  /\ turn[g][q.by] = 0
           /\ turn' = [turn EXCEPT ![g][q.by] = nextTurn]
           /\ \/ Says(g, <<Reply(q, TRUE, nextTurn), note>>)
              \/ Says(g, <<note, Reply(q, TRUE, nextTurn)>>)
    /\ nextTurn' = nextTurn + 1
    /\ UNCHANGED <<procVars, nativeRest, asking, faults>>
\* ... or is folded into the turn that runs, as a steer is, if it is the one
\* that was meant; nothing is compacted during a turn.
ServeFold(g) ==
    /\ Serving(g, {"turn/start", "turn/steer", "compact"})
    /\ LET q == Head(requests[g])
           t == turn[g][q.by]
       IN  /\ t # 0 \/ q.method = "turn/steer"
           /\ Says(g, <<Reply(q, q.method = "turn/start" \/ (q.method = "turn/steer" /\ t = q.turn), t)>>)
    /\ UNCHANGED <<procVars, nativeRest, nativeVars, faults>>
ServeInterrupt(g) ==
    /\ Serving(g, {"interrupt"})
    /\ LET q == Head(requests[g])
           t == turn[g][q.by]
       IN  /\ turn' = [turn EXCEPT ![g][q.by] = 0]
           /\ Says(g, IF t = 0 THEN <<Reply(q, FALSE, 0)>>
                      ELSE <<Reply(q, TRUE, 0), Note("completed", q.by, t)>>)
    /\ UNCHANGED <<procVars, nativeRest, asking, nextTurn, faults>>
EndTurn(g, r) ==
    /\ proc[g].os = "up" /\ turn[g][r] # 0 /\ g \notin asking
    /\ turn' = [turn EXCEPT ![g][r] = 0]
    /\ lines' = [lines EXCEPT ![g] = Append(@, Note("completed", r, turn[g][r]))]
    /\ UNCHANGED <<procVars, nativeRest, requests, asking, nextTurn, faults>>
AskOmni(g) ==
    /\ proc[g].os = "up" /\ g \notin asking /\ \E r \in Runners : turn[g][r] # 0
    /\ Fault
    /\ asking' = asking \cup {g}
    /\ lines' = [lines EXCEPT ![g] = Append(@, [kind |-> "ask"])]
    /\ UNCHANGED <<procVars, nativeRest, requests, turn, nextTurn>>

-----------------------------------------------------------------------------
Operation(r) ==
    \/ Get(r) \/ Boot(r) \/ Send(r) \/ Compact(r) \/ CatchUp(r) \/ Interrupt(r) \/ Skip(r) \/ Stop(r)
    \/ Timeout(r)
Goes(r) ==
    \/ Booted(r) \/ BootFails(r) \/ BootFailed(r) \/ OpenThread(r) \/ Reopen(r) \/ Silence(r) \/ Silenced(r)
    \/ Injected(r) \/ Attach(r) \/ Fails(r)
    \/ Steer(r) \/ Steered(r) \/ OpenTurn(r) \/ Sent(r) \/ Compacting(r)
Callbacks(g) ==
    \/ Dropped(g) \/ HearReply(g) \/ HearAsk(g) \/ Decline(g) \/ HearNote(g) \/ Emit(g)
    \/ OnExit(g) \/ NotifyExit(g)
Process(g) == (Stopping(g) \/ Noticed(g) \/ ExitCall(g)) /\ UNCHANGED codexVars
Native(g) ==
    \/ ServeCall(g) \/ Refuse(g) \/ ServeTurn(g) \/ ServeFold(g) \/ ServeInterrupt(g) \/ AskOmni(g)
    \/ \E r \in Runners : EndTurn(g, r)
    \/ Die(g) /\ (IF proc[g].stdin /\ owner THEN Fault ELSE UNCHANGED faults)
       /\ UNCHANGED <<nativeRest, requests, lines, nativeVars>>
    \/ Fork(g) /\ Fault /\ UNCHANGED <<nativeRest, requests, lines, nativeVars>>

Omni ==
    \/ \E r \in Runners : Operation(r) \/ Goes(r) \/ Inject(r)
    \/ \E g \in Procs : Callbacks(g) \/ Process(g)
    \/ Reap \/ ReapNothing \/ Shutdown \/ Retire \/ Retired

Next ==
    \/ owner /\ Omni
    \/ \E g \in Procs : Native(g) \/ (Outside(g) /\ UNCHANGED codexVars)
    \/ OwnerDies /\ Fault /\ UNCHANGED <<nativeRest, requests, lines, nativeVars>>

Spec == Init /\ [][Next]_vars

\* omni's threads and the guardians go on; nothing obliges a conductor to call,
\* the server to answer or to end a turn, or a timeout to pass.
System ==
    \/ owner /\ \/ \E r \in Runners : Goes(r)
                \/ \E g \in Procs : Callbacks(g) \/ Process(g)
                \/ Retire \/ Retired
    \/ \E g \in Procs : Outside(g) /\ UNCHANGED codexVars
FairSpec == Spec /\ WF_vars(System)

-----------------------------------------------------------------------------
(* Properties. *)

\* Every variable has its type.
TypeOK ==
    /\ ProcTypeOK
    /\ pool \in Procs \cup {0} /\ poolLock \in Runners \cup {"nobody", "sweeper"}
    /\ \A g \in Procs : /\ shared[g].routes \in [Runners -> NoRoute .. MaxTurns]
                         /\ shared[g].silencer \in Runners \cup {"nobody"}
                         /\ Len(mouth[g]) <= 1 /\ (mouth[g] # << >> <=> proc[g].pump = "calling")
    /\ \A r \in Runners : Len(answer[r]) <= 1 /\ runner[r].shared \in Procs \cup {0}
    /\ swept \subseteq Procs /\ asking \subseteq Procs
    /\ nextTurn \in 1 .. MaxTurns + 1 /\ timeouts \in 0 .. MaxTimeouts /\ faults \in 0 .. MaxFaults

\* Once the reaper of a server is through, nothing more is heard of that server: a
\* chat that is attached to it and was not told by then will not be told, and a
\* call that still waits for it waits until it times out.
Told(r) == \E i \in DOMAIN ear[r] : ear[r][i] = [kind |-> "crash", from |-> runner[r].shared]
Deaf == {r \in Runners : /\ runner[r].shared # 0 /\ proc[runner[r].shared].reaper = "done"
                         /\ ~Told(r)}
Stuck == {r \in Runners : Waits(r) /\ answer[r] = << >> /\ proc[runner[r].on].reaper = "done"}

\* A chat whose server has died hears of it: also one that was attaching at that
\* moment (attach, notify_exit, on_exit). Only a sweep that takes the server
\* keeps the news from it.
ExitToldUnlessSwept == \A r \in Deaf : runner[r].shared \in swept

\* No call waits for a server that is gone, and nobody has to sit out a timeout:
\* who called before, while or after it died (on_exit, send_line). Again but for
\* a server that a sweep takes.
CallsReturnUnlessSwept == \A r \in Stuck : runner[r].on \in swept

\* Whatever the pool is swept for, a chat that waits for a server that is gone has
\* at least been told that it is (reap_idle, notify_exit, on_exit).
ExitNoticed == Deaf \cap Stuck = {}

\* Whoever was told that a message opens the next turn hears that turn end:
\* nothing is left of the thread's turns, and as many have ended as were
\* announced (landed).
Ends(r) == Cardinality({i \in DOMAIN ear[r] : ear[r][i].kind = "end"})
AtRest(r, g) ==
    /\ runner[r].pc = "idle" /\ g # 0 /\ proc[g].os = "up" /\ proc[g].gate
    /\ turn[g][r] = 0 /\ lines[g] = << >> /\ mouth[g] = << >> /\ requests[g] = << >>
EndComes == \A r \in Runners : AtRest(r, runner[r].shared) => owed[r] <= Ends(r)

\* The server never waits on a dead end: what it asks of omni is declined.
AsksDeclined == \A g \in Procs : g \in asking ~> g \notin asking \/ proc[g].os = "dead" \/ ~proc[g].stdin \/ ~owner
=============================================================================
