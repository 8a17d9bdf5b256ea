------------------------------ MODULE Accounts ------------------------------
(***************************************************************************)
(* Accounts: the logins that omni drives for a CLI (providers/login.rs),   *)
(* the memory of who is signed in (MEMO of providers/mod.rs), Antigravity's*)
(* inventory of models (MODELS of its account.rs) and the probes that ask  *)
(* a CLI (run of shared/proc.rs), on the processes of Process.             *)
(*                                                                         *)
(* One provider, Antigravity, which has all of them; a login goes by its   *)
(* token.  A caller is a connection of a client, which asks one thing of   *)
(* an account at a time, or a chat that lost its login.  What the user     *)
(* does in a browser, and the CLI, are external.                           *)
(***************************************************************************)
EXTENDS Process, Sequences

CONSTANTS
    Callers,     \* who asks
    Scenarios,   \* what they ask, whether the daemon shuts down, and what
                 \* happens by itself meanwhile
    MaxLosses    \* bound: logins that are lost

\* Daemon::account, and Antigravity's models for the choice of a model.
AccountOps == {"start_auth", "finish_auth", "auth_status", "forget", "models"}

\* The CLI of a login leaves, its time is up, the user is signed out, MEMO ages.
Happenings == {"leave", "expire", "sign out", "age"}

ASSUME AccountsAssumption ==
    /\ Procs \subseteq Nat \ {0} /\ "nobody" \notin Callers /\ MaxLosses \in Nat
    /\ \A s \in Scenarios : s.plan \in [Callers -> Seq(AccountOps)] /\ s.shuts \in BOOLEAN
                             /\ s.signedIn \in BOOLEAN /\ s.nature \subseteq Happenings

VARIABLES
    flight,      \* IN_FLIGHT: the login that is in it, or 0
    epoch,       \* LOGIN_EPOCH
    nextLogin,   \* NEXT_LOGIN
    expired,     \* logins whose time is up
    said,        \* logins whose CLI has printed a URL
    sweeper,     \* the thread of ensure_reaper, and the login it is stopping
    main,        \* the daemon's main thread, in shutdown
    memo,        \* MEMO
    models,      \* MODELS
    modelsLock,  \* who holds it
    probe,       \* the CLI that a caller runs to ask it
    caller,      \* a caller, and the call it is in
    plan,        \* what it is still going to ask
    nature,      \* what happens by itself
    signedIn,    \* the user is signed in
    losses,
    era,         \* the epoch that the begin of a login has read
    handed,      \* history: logins whose URL was handed to the user
    ended,       \* history: logins that had a reason to end
    forgets, clears,   \* history: how often MEMO and MODELS were cleared
    confirmed    \* history: a finish_auth has said that the user is signed in

loginVars == <<flight, epoch, nextLogin, expired, said, sweeper, main>>
memoVars == <<memo, models, modelsLock, forgets, clears>>
callVars == <<probe, caller, plan>>
worldVars == <<signedIn, losses, confirmed, nature>>
historyVars == <<era, handed, ended>>
vars == <<procVars, loginVars, memoVars, callVars, worldVars, historyVars>>

\* An answer that MEMO keeps; `raced' if it was asked for before the last forget,
\* `blip' if the CLI could not be asked.  Of a finish_auth, `was': the user was
\* signed in when its login was over, and has not been signed out since.
NoMemo == [says |-> "none", raced |-> FALSE, blip |-> FALSE]
NoModels == [says |-> "none", since |-> 0]
NoProbe == [os |-> "none", held |-> FALSE, says |-> "no"]
Idle == [pc |-> "idle", op |-> "none", on |-> 0, old |-> 0, since |-> 0,
         says |-> "no", blip |-> FALSE, was |-> FALSE]

Init ==
    /\ \E s \in Scenarios :
          /\ plan = s.plan /\ signedIn = s.signedIn /\ nature = s.nature
          /\ main = [pc |-> IF s.shuts THEN "up" ELSE "away", on |-> 0]
    /\ proc = [p \in Procs |-> NoProc] /\ helper = {} /\ owner = TRUE
    /\ guardian = [p \in Procs |-> "none"]
    /\ flight = 0 /\ epoch = 0 /\ nextLogin = 1 /\ expired = {} /\ said = {}
    /\ sweeper = [up |-> FALSE, on |-> 0]
    /\ memo = NoMemo /\ models = NoModels /\ modelsLock = "nobody"
    /\ forgets = 0 /\ clears = 0
    /\ probe = [c \in Callers |-> NoProbe] /\ caller = [c \in Callers |-> Idle]
    /\ losses = 0 /\ confirmed = FALSE
    /\ era = [p \in Procs |-> 0] /\ handed = {} /\ ended = {}

-----------------------------------------------------------------------------
(* A caller. *)

At(c, pc) == caller[c].pc = pc
Goto(c, place) == caller' = [caller EXCEPT ![c].pc = place]
Return(c) == caller' = [caller EXCEPT ![c] = Idle]
Asks(c, op) == At(c, "idle") /\ plan[c] # << >> /\ Head(plan[c]) = op
Asked(c) == plan' = [plan EXCEPT ![c] = Tail(@)]

\* LineProcess::stop: whoever comes second waits for the first.
Stop(p) == proc' = IF proc[p].stop # "no" THEN proc
                   ELSE [proc EXCEPT ![p].stdin = FALSE, ![p].stop = "eof"]
HasStopped(p) == proc[p].stop = "done"

\* take with a token: only the login that the caller knows.
Untracked(p) == IF flight = p THEN 0 ELSE flight

-----------------------------------------------------------------------------
(* Login::begin. *)

StartAuth(c) ==
    /\ Asks(c, "start_auth") /\ Asked(c) /\ nextLogin \in Procs
    /\ caller' = [caller EXCEPT ![c] = [Idle EXCEPT !.pc = "begun", !.on = nextLogin]]
    /\ nextLogin' = nextLogin + 1
    /\ era' = [era EXCEPT ![nextLogin] = epoch]
    /\ UNCHANGED <<procVars, flight, epoch, expired, said, sweeper, main, memoVars, probe, worldVars, handed, ended>>

beginRest == <<epoch, nextLogin, expired, said, main, memoVars, probe, plan, worldVars, era>>

Begun(c) ==
    /\ At(c, "begun")
    /\ \/ Spawn(caller[c].on) /\ Goto(c, "spawned")
       \/ Return(c) /\ UNCHANGED procVars
    /\ UNCHANGED <<flight, sweeper, handed, ended, beginRest>>

\* (Mutant of Track: the epoch is not compared.)
TrackLate(c) ==
    /\ At(c, "spawned") /\ UNCHANGED procVars
    /\ flight' = caller[c].on
    /\ caller' = [caller EXCEPT ![c].pc = "tracked", ![c].old = flight]
    /\ ended' = ended \cup ({flight} \ {0})
    /\ UNCHANGED <<sweeper, handed, beginRest>>

\* track, under the lock: a shutdown since the epoch was read stops the login,
\* an older login is replaced.
Track(c) ==
    /\ At(c, "spawned")
    /\ \/ /\ era[caller[c].on] = epoch
          /\ flight' = caller[c].on
          /\ caller' = [caller EXCEPT ![c].pc = "tracked", ![c].old = flight]
          /\ ended' = ended \cup ({flight} \ {0}) /\ UNCHANGED procVars
       \/ /\ era[caller[c].on] # epoch
          /\ Stop(caller[c].on) /\ Goto(c, "given up")
          /\ UNCHANGED <<helper, guardian, owner, flight, ended>>
    /\ UNCHANGED <<sweeper, handed, beginRest>>

\* track, a login that was over before it was tracked.
StillThere(p) == IF Alive(p) THEN flight ELSE Untracked(p)

\* track, the rest: the sweeper runs from now on, the older login is stopped.
Tracked(c) ==
    /\ At(c, "tracked")
    /\ sweeper' = [sweeper EXCEPT !.up = TRUE]
    /\ flight' = StillThere(caller[c].on)
    /\ IF caller[c].old = 0 THEN UNCHANGED proc ELSE Stop(caller[c].old)
    /\ Goto(c, "replacing")
    /\ UNCHANGED <<helper, guardian, owner, handed, ended, beginRest>>
Replaced(c) ==
    /\ At(c, "replacing") /\ (caller[c].old # 0 => HasStopped(caller[c].old))
    /\ Goto(c, "url")
    /\ UNCHANGED <<procVars, flight, sweeper, handed, ended, beginRest>>

\* The URL is there, or the time is up.
Url(c) ==
    /\ At(c, "url") /\ caller[c].on \in said
    /\ handed' = handed \cup {caller[c].on} /\ Return(c)
    /\ UNCHANGED <<procVars, flight, sweeper, ended, beginRest>>
NoUrl(c) ==
    /\ At(c, "url") /\ caller[c].on \notin said
    /\ flight' = Untracked(caller[c].on)
    /\ Stop(caller[c].on) /\ Goto(c, "given up")
    /\ UNCHANGED <<helper, guardian, owner, sweeper, handed, ended, beginRest>>
GivenUp(c) ==
    /\ At(c, "given up") /\ HasStopped(caller[c].on) /\ Return(c)
    /\ UNCHANGED <<procVars, flight, sweeper, handed, ended, beginRest>>

Begin(c) == \/ StartAuth(c) \/ Begun(c) \/ Track(c) \/ Tracked(c) \/ Replaced(c)
            \/ Url(c) \/ NoUrl(c) \/ GivenUp(c)

-----------------------------------------------------------------------------
(* finish_auth: Login::complete, then forget, then a probe. *)

finishRest == <<epoch, nextLogin, expired, said, sweeper, main, memoVars, probe, worldVars, era, handed>>

FinishAuth(c) ==
    /\ Asks(c, "finish_auth") /\ Asked(c)
    /\ LET p == flight
       IN  /\ caller' = [caller EXCEPT ![c] = [Idle EXCEPT !.pc = IF p = 0 THEN "forget" ELSE "settling",
                                                           !.op = "finish_auth", !.on = p, !.was = signedIn]]
           /\ ended' = ended \cup ({p} \ {0})
    /\ flight' = 0
    /\ UNCHANGED <<procVars, finishRest>>

\* The CLI is gone, or the time is up.
Settled(c) ==
    /\ At(c, "settling")
    /\ Stop(caller[c].on) /\ Goto(c, "completing")
    /\ UNCHANGED <<helper, guardian, owner, flight, plan, ended, finishRest>>

\* (Mutant of Completed: MEMO is not cleared.)
CompletedKept(c) ==
    /\ At(c, "completing") /\ HasStopped(caller[c].on)
    /\ caller' = [caller EXCEPT ![c].pc = "probe", ![c].was = signedIn]
    /\ UNCHANGED <<procVars, flight, plan, ended, finishRest>>

Completed(c) ==
    /\ At(c, "completing") /\ HasStopped(caller[c].on)
    /\ caller' = [caller EXCEPT ![c].pc = "forget", ![c].was = signedIn]
    /\ UNCHANGED <<procVars, flight, plan, ended, finishRest>>

\* forget: MEMO, then Antigravity's models.
askRest == <<procVars, loginVars, worldVars, historyVars>>
Forget(c) ==
    /\ Asks(c, "forget") /\ Asked(c)
    /\ caller' = [caller EXCEPT ![c] = [Idle EXCEPT !.pc = "forget", !.op = "forget"]]
    /\ UNCHANGED <<askRest, memoVars, probe>>
ForgetMemo(c) ==
    /\ At(c, "forget") /\ memo' = NoMemo /\ forgets' = forgets + 1
    /\ Goto(c, "forget models")
    /\ UNCHANGED <<askRest, models, modelsLock, clears, probe, plan>>
ForgetModels(c) ==
    /\ At(c, "forget models") /\ modelsLock = "nobody"
    /\ models' = NoModels /\ clears' = clears + 1
    /\ IF caller[c].op = "forget" THEN Return(c) ELSE Goto(c, "probe")
    /\ UNCHANGED <<askRest, memo, modelsLock, forgets, probe, plan>>

Finish(c) == \/ FinishAuth(c) \/ Settled(c) \/ Completed(c)
             \/ Forget(c) \/ ForgetMemo(c) \/ ForgetModels(c)

-----------------------------------------------------------------------------
(* auth_status, probe and models. *)

\* recall: what is remembered is the answer, and otherwise the CLI is asked.
AuthStatus(c) ==
    /\ Asks(c, "auth_status") /\ Asked(c)
    /\ caller' = IF memo.says # "none" THEN caller
                 ELSE [caller EXCEPT ![c] = [Idle EXCEPT !.pc = "probe", !.op = "auth_status", !.since = forgets]]
    /\ UNCHANGED <<askRest, memoVars, probe>>
Models(c) ==
    /\ Asks(c, "models") /\ Asked(c)
    /\ caller' = [caller EXCEPT ![c] = [Idle EXCEPT !.pc = "probe", !.op = "models"]]
    /\ UNCHANGED <<askRest, memoVars, probe>>

\* (Mutant of Probe: MODELS is not locked while the CLI runs.)
ProbeUnlocked(c) ==
    /\ At(c, "probe") /\ modelsLock = "nobody"
    /\ probe' = [probe EXCEPT ![c] = [NoProbe EXCEPT !.os = "up", !.held = TRUE]]
    /\ caller' = [caller EXCEPT ![c].pc = "probing", ![c].old = clears]
    /\ UNCHANGED <<askRest, memoVars, plan>>

\* The CLI runs with MODELS locked.
Probe(c) ==
    /\ At(c, "probe") /\ modelsLock = "nobody"
    /\ modelsLock' = c
    /\ probe' = [probe EXCEPT ![c] = [NoProbe EXCEPT !.os = "up", !.held = TRUE]]
    /\ caller' = [caller EXCEPT ![c].pc = "probing", ![c].old = clears]
    /\ UNCHANGED <<askRest, memo, models, forgets, clears, plan>>
\* models: an inventory that is young enough is used as it is.
Remembered(c) ==
    /\ At(c, "probe") /\ modelsLock = "nobody"
    /\ caller[c].op = "models" /\ models.says # "none"
    /\ Return(c)
    /\ UNCHANGED <<askRest, memoVars, probe, plan>>

\* run: the CLI exits with an answer; whoever still holds its pipes lets go.
Answers(c) ==
    /\ probe[c].os = "up"
    /\ probe' = [probe EXCEPT ![c].os = "gone", ![c].says = IF signedIn THEN "yes" ELSE "no"]
    /\ UNCHANGED <<askRest, memoVars, caller, plan>>
Drained(c) ==
    /\ probe[c].os = "gone" /\ probe[c].held
    /\ probe' = [probe EXCEPT ![c].held = FALSE]
    /\ UNCHANGED <<askRest, memoVars, caller, plan>>

\* The inventory after an answer, or after none: models renews it whatever the
\* CLI said, a probe that failed drops it.
Inventory(c, says) ==
    IF says = "no" /\ caller[c].op # "models" THEN NoModels
    ELSE [says |-> says, since |-> caller[c].old]

\* A finish_auth returns with the answer, an auth_status goes on.
Says(c, says, blip) ==
    /\ modelsLock' = "nobody"
    /\ models' = Inventory(c, says)
    /\ probe' = [probe EXCEPT ![c] = NoProbe]
    /\ caller' = [caller EXCEPT ![c] =
                     IF @.op = "auth_status" THEN [@ EXCEPT !.pc = "insert", !.says = says, !.blip = blip, !.old = 0]
                     ELSE Idle]
    /\ confirmed' = (confirmed \/ (caller[c].op = "finish_auth" /\ says = "yes" /\ caller[c].was))
    /\ UNCHANGED <<procVars, loginVars, signedIn, losses, nature, historyVars, memo, forgets, clears, plan>>

Collected(c) ==
    /\ At(c, "probing") /\ probe[c].os = "gone" /\ ~probe[c].held
    /\ Says(c, probe[c].says, FALSE)

\* (Mutant of Deadline: nothing limits the wait for the end of the output.)
DeadlineOfExit(c) == At(c, "probing") /\ probe[c].os = "up" /\ Says(c, "no", TRUE)

\* run: the deadline passes, before the CLI has exited or before its pipes are
\* at their end; its group is killed.  A CLI that cannot be run ends here too.
Deadline(c) ==
    /\ At(c, "probing") /\ (probe[c].os = "up" \/ probe[c].held)
    /\ Says(c, "no", TRUE)

\* auth_status, the answer is remembered.
Insert(c) ==
    /\ At(c, "insert")
    /\ memo' = [says |-> caller[c].says, raced |-> caller[c].since < forgets, blip |-> caller[c].blip]
    /\ Return(c)
    /\ UNCHANGED <<askRest, models, modelsLock, forgets, clears, probe, plan>>

\* TTL or DOUBT passes.
MemoAges ==
    /\ "age" \in nature /\ memo.says # "none" /\ memo' = NoMemo
    /\ UNCHANGED <<askRest, models, modelsLock, forgets, clears, callVars>>

Asking(c) == \/ AuthStatus(c) \/ Models(c) \/ Probe(c) \/ Remembered(c)
             \/ Collected(c) \/ Deadline(c) \/ Insert(c)

-----------------------------------------------------------------------------
(* The sweeper, the exit callback and shutdown. *)

sweepRest == <<epoch, nextLogin, expired, said, memoVars, callVars, worldVars, era, handed>>

\* (Mutant of Due: only a login that is over is swept.)
DueWhenDead(p) == ~Alive(p)

\* reap_expired.
Due(p) == p \in expired \/ ~Alive(p)
Sweep ==
    /\ sweeper.up /\ sweeper.on = 0 /\ flight # 0 /\ Due(flight)
    /\ sweeper' = [sweeper EXCEPT !.on = flight] /\ flight' = 0
    /\ Stop(flight) /\ ended' = ended \cup {flight}
    /\ UNCHANGED <<helper, guardian, owner, main, sweepRest>>
Swept ==
    /\ sweeper.on # 0 /\ HasStopped(sweeper.on)
    /\ sweeper' = [sweeper EXCEPT !.on = 0]
    /\ UNCHANGED <<procVars, flight, main, ended, sweepRest>>

\* (Mutant of OnExit: whatever login is in flight is taken.)
OnExitBlind(p) == 0

\* The callback of a login that is over takes that login, and no other.
OnExit(p) == Untracked(p)

\* Whatever nobody else holds is dropped: its pipes are closed, and it is killed.
Dropped(p) == [proc[p] EXCEPT !.gate = FALSE, !.stdin = FALSE, !.os = IF @ = "up" THEN "dead" ELSE @]
Held(p) == \E c \in Callers : ~At(c, "idle") /\ p \in {caller[c].on, caller[c].old}
ExitCallback(p) ==
    /\ proc[p].reaper = "calling"
    /\ flight' = OnExit(p)
    /\ LET drops(q) == flight # 0 /\ flight' = 0 /\ q = flight /\ ~Held(q)
       IN  /\ proc' = [q \in Procs |->
                          [IF drops(q) THEN Dropped(q) ELSE proc[q]
                           EXCEPT !.reaper = IF q = p THEN "done" ELSE @]]
           /\ guardian' = [q \in Procs |-> IF drops(q) /\ guardian[q] = "watching" THEN "eof" ELSE guardian[q]]
    /\ UNCHANGED <<helper, owner, sweeper, main, ended, sweepRest>>

\* shutdown: the epoch first, then what is in flight.
Shutdown ==
    /\ main.pc = "up" /\ main' = [main EXCEPT !.pc = "draining"] /\ epoch' = epoch + 1
    /\ UNCHANGED <<procVars, flight, nextLogin, expired, said, sweeper, memoVars, callVars, worldVars, historyVars>>
Drain ==
    /\ main.pc = "draining" /\ flight' = 0
    /\ main' = [pc |-> "stopping", on |-> flight]
    /\ IF flight = 0 THEN UNCHANGED proc ELSE Stop(flight)
    /\ sweeper' = sweeper /\ ended' = ended \cup ({flight} \ {0})
    /\ UNCHANGED <<helper, guardian, owner, sweepRest>>
ShutDown ==
    /\ main.pc = "stopping" /\ (main.on # 0 => HasStopped(main.on))
    /\ main' = [pc |-> "done", on |-> 0]
    /\ UNCHANGED <<procVars, flight, sweeper, ended, sweepRest>>

Daemon == \/ Sweep \/ Swept \/ Shutdown \/ Drain \/ ShutDown
          \/ \E p \in Procs : ExitCallback(p)

Process(p) == (Stopping(p) \/ Noticed(p) \/ ExitCall(p))
              /\ UNCHANGED <<loginVars, memoVars, callVars, worldVars, historyVars>>

-----------------------------------------------------------------------------
(* The CLI of a login, the user and time, as far as the scenario has them. *)

outsideRest == <<flight, epoch, nextLogin, sweeper, main, memoVars, probe, plan, era, handed>>

\* The pump hears the URL.
Prints(p) ==
    /\ proc[p].os = "up" /\ proc[p].gate /\ p \notin said
    /\ said' = said \cup {p}
    /\ UNCHANGED <<procVars, expired, caller, worldVars, ended, outsideRest>>
Expires(p) ==
    /\ "expire" \in nature /\ proc[p].os = "up" /\ p \notin expired
    /\ expired' = expired \cup {p}
    /\ UNCHANGED <<procVars, said, caller, worldVars, ended, outsideRest>>

\* The user signs in, or the CLI gives up; either way it exits.
Leaves(p) ==
    /\ "leave" \in nature /\ Die(p) /\ ended' = ended \cup {p}
    /\ \/ UNCHANGED signedIn
       \/ p \in said /\ signedIn' = TRUE
    /\ UNCHANGED <<expired, said, caller, losses, confirmed, nature, outsideRest>>
\* What a finish_auth is about is a login that lasts until it returns.
SignsOut ==
    /\ "sign out" \in nature /\ signedIn /\ losses < MaxLosses
    /\ signedIn' = FALSE /\ losses' = losses + 1 /\ confirmed' = FALSE
    /\ caller' = [c \in Callers |-> [caller[c] EXCEPT !.was = FALSE]]
    /\ UNCHANGED <<procVars, expired, said, ended, nature, outsideRest>>

World == \/ \E p \in Procs : Prints(p) \/ Expires(p) \/ Leaves(p)
         \/ \E c \in Callers : Answers(c) \/ Drained(c)
         \/ SignsOut \/ MemoAges

Call(c) == Begin(c) \/ Finish(c) \/ Asking(c)

Next == \/ \E c \in Callers : Call(c)
        \/ Daemon \/ \E p \in Procs : Process(p)
        \/ World

Spec == Init /\ [][Next]_vars

\* Threads are scheduled and deadlines pass.  Nothing obliges a CLI to exit or
\* to close its pipes, or a user to do anything.
FairSpec ==
    /\ Spec
    /\ \A c \in Callers : WF_vars(Call(c))
    /\ WF_vars(Sweep \/ Swept) /\ WF_vars(Drain \/ ShutDown)
    /\ \A p \in Procs : WF_vars(Process(p)) /\ WF_vars(Expires(p)) /\ WF_vars(ExitCallback(p))

-----------------------------------------------------------------------------
(* Properties. *)

\* Every variable has its type.
TypeOK ==
    /\ ProcTypeOK
    /\ flight \in Procs \cup {0} /\ epoch \in Nat /\ nextLogin \in Nat
    /\ expired \subseteq Procs /\ said \subseteq Procs
    /\ sweeper \in [up : BOOLEAN, on : Procs \cup {0}]
    /\ main \in [pc : {"up", "away", "draining", "stopping", "done"}, on : Procs \cup {0}]
    /\ memo \in [says : {"none", "yes", "no"}, raced : BOOLEAN, blip : BOOLEAN]
    /\ models.says \in {"none", "yes", "no"} /\ modelsLock \in Callers \cup {"nobody"}
    /\ plan \in [Callers -> Seq(AccountOps)] /\ signedIn \in BOOLEAN

\* The URL that the user was given is of a login that is still in flight, unless
\* it was finished, replaced, swept or shut down or its CLI left: the exit of an
\* older CLI does not end the login that replaced it (take, its token).
LoginKept == \A p \in handed : flight = p \/ p \in ended

\* Once the daemon has shut down its logins, none that was begun before is left,
\* except in the hands of a thread that is about to stop it (the epoch).
NoneAfterShutdown ==
    main.pc = "done" =>
        \A p \in Procs : proc[p].os = "up" /\ era[p] < epoch => Held(p) \/ sweeper.on = p

\* After finish_auth has said that the user is signed in, auth_status does not
\* deny it, unless the CLI could not be asked, or somebody had asked it before
\* and remembers the answer only now.
FinishSeen == confirmed /\ memo.says = "no" => memo.raced \/ memo.blip

\* An inventory of models is never older than the last forget.
ModelsFresh == models.says # "none" => models.since = clears

\* Every call returns, whatever the CLI does.
CallsReturn == \A c \in Callers : ~At(c, "idle") ~> At(c, "idle")

\* No login is forgotten: every CLI that was started for one ends.
LoginEnds ==
    \A p \in Procs : "expire" \in nature /\ proc[p].os = "up" ~> proc[p].os # "up"
=============================================================================
