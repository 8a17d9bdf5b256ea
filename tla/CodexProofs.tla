---------------------------- MODULE CodexProofs ----------------------------
(***************************************************************************)
(* Proofs about Codex: whoever calls a server or is attached to one hears  *)
(* of its end, for any sessions, servers, plans and sweeps; and every turn *)
(* that was announced ends, if nothing is sent behind a compaction.        *)
(***************************************************************************)
EXTENDS Codex, WellFoundedInduction, FiniteSetTheorems, SequenceTheorems, TLAPS

\* Places of a runner: in a call on the server it is attached to, on the way to
\* being attached, and with a server of its own that has not answered yet.
CallPlaces == {"steering", "opening", "steer", "turn", "compact", "told"}
StartPlaces == {"got", "thread", "resume", "silence", "attach", "inject"}
BootPlaces == {"boot", "unboot"}
Places == {"idle", "failed"} \cup CallPlaces \cup StartPlaces \cup BootPlaces
Waiting == {"boot", "thread", "resume", "silence", "inject", "steer", "turn", "compact", "told"}

Methods == {"none", "initialize", "thread/start", "thread/resume", "skills", "inject",
            "turn/steer", "turn/start", "compact", "interrupt"}
Turns == 0 .. MaxTurns
Routes == NoRoute .. MaxTurns
ProcRec == [os : {"none", "up", "dead"}, stdin : BOOLEAN, running : BOOLEAN,
            gate : BOOLEAN, pump : {"idle", "calling"},
            reaper : {"none", "wait", "seen", "calling", "telling", "done"},
            stop : {"no", "eof", "term", "kill", "closing", "done"}]
RunRec == [pc : Places, on : Procs \cup {0}, shared : Procs \cup {0}, method : Methods,
           id : Nat, open : Routes, started : Turns]
SharedRec == [stopping : BOOLEAN, routes : [Runners -> Routes], pending : SUBSET (Runners \X Nat),
              memo : BOOLEAN, silencer : Runners \cup {"nobody"}, declines : Nat]
SweepRec == [pc : {"idle", "taken", "stopping"}, on : Procs \cup {0}, plan : Seq(PoolOps)]
AnswerRec == [ok : BOOLEAN, turn : Turns]
RequestRec == [method : Methods, by : Runners, id : Nat, turn : Routes]
ReplyRec == [kind : {"reply"}, to : Runners, id : Nat, ok : BOOLEAN, turn : Turns]
NoteRec == [kind : {"note"}, what : {"started", "completed"}, to : Runners, turn : Turns]
LineRec == ReplyRec \cup NoteRec \cup [kind : {"ask"}]
HeardRec == [kind : {"end", "crash"}, from : Procs]
Short(S) == {s \in Seq(S) : Len(s) <= 1}

\* The types, by what is written together.
ProcT ==
    /\ proc \in [Procs -> ProcRec] /\ helper \subseteq Procs /\ owner \in BOOLEAN
    /\ guardian \in [Procs -> {"none", "watching", "eof", "gone"}]
PoolT ==
    /\ pool \in Procs \cup {0} /\ poolLock \in Runners \cup {"nobody", "sweeper"}
    /\ sweeper \in SweepRec /\ (sweeper.pc # "idle" => sweeper.on # 0)
    /\ swept \subseteq Procs
WireT == requests \in [Procs -> Seq(RequestRec)] /\ lines \in [Procs -> Seq(LineRec)]
MouthT == /\ mouth \in [Procs -> Short(Runners)]
          /\ \A g \in Procs : mouth[g] # << >> <=> proc[g].pump = "calling"
NativeT == turn \in [Procs -> [Runners -> Turns]] /\ asking \subseteq Procs /\ nextTurn \in 1 .. MaxTurns + 1
ChatT == plan \in [Runners -> Seq(RunnerOps)] /\ ear \in [Runners -> Seq(HeardRec)] /\ owed \in [Runners -> Nat]
RunT == runner \in [Runners -> RunRec]
AnswerT == answer \in [Runners -> Short(AnswerRec)]
SharedT == shared \in [Procs -> SharedRec]
BoundT == timeouts \in 0 .. MaxTimeouts /\ faults \in 0 .. MaxFaults

Types ==
    /\ ProcT /\ PoolT /\ WireT /\ MouthT /\ NativeT /\ ChatT /\ RunT /\ AnswerT /\ SharedT /\ BoundT

\* The flag is up until the reaper has seen the end, and the gate is closed by
\* a stop; nothing is heard of what was not started.
Sound(pr) ==
    /\ pr.running => pr.reaper = "wait"
    /\ pr.os = "up" => pr.running
    /\ pr.reaper # "none" /\ ~pr.gate => pr.stop # "no"
    /\ pr.os = "none" => ~pr.gate /\ pr.pump = "idle"
Reaped == \A g \in Procs : Sound(proc[g])

-----------------------------------------------------------------------------
(* Who uses which server. *)

\* A call is on the server that the runner is attached to, and a start is on a
\* server while the runner is attached to none.
Placed(n) ==
    /\ n.pc \in CallPlaces \cup {"idle"} => n.on = n.shared
    /\ n.pc \in CallPlaces => n.shared # 0
    /\ n.pc \in StartPlaces \cup BootPlaces => n.shared = 0 /\ n.on # 0
AtPlaces == \A r \in Runners : Placed(runner[r])

\* What is used has been started.
Started ==
    /\ pool # 0 => proc[pool].os # "none"
    /\ \A r \in Runners : \A g \in {runner[r].on, runner[r].shared} : g # 0 => proc[g].os # "none"

\* A server that has not answered yet is known to nobody else.
OwnServer ==
    \A r \in Runners : runner[r].pc = "boot" =>
        /\ pool # runner[r].on
        /\ \A s \in Runners \ {r} : runner[s].on # runner[r].on /\ runner[s].shared # runner[r].on

\* A server is put down by a sweep, or by the runner whose handshake it failed,
\* and then nobody else knows it.
PutDown ==
    \A g \in Procs \ swept : proc[g].stop # "no" =>
        /\ pool # g
        /\ \A r \in Runners : runner[r].shared # g /\ (runner[r].on = g => runner[r].pc = "unboot")

Used == AtPlaces /\ Started /\ OwnServer /\ PutDown

-----------------------------------------------------------------------------
(* What is told, and to whom. *)

\* A chat that is attached has a route, and only a sweep silences a server.
Hooked ==
    /\ \A r \in Runners : runner[r].shared # 0 => shared[runner[r].shared].routes[r] # NoRoute
    /\ \A g \in Procs : shared[g].stopping => g \in swept

\* ExitToldUnlessSwept, chat by chat.
Heeded ==
    \A r \in Runners : runner[r].shared # 0 /\ proc[runner[r].shared].reaper = "done" =>
        Told(r) \/ runner[r].shared \in swept

\* A call that waits is registered, and once the exit was handled none is,
\* unless the exit was skipped, which takes a stop.
Registered ==
    \A r \in Runners : runner[r].pc \in Waiting /\ answer[r] = << >> =>
        <<r, runner[r].id>> \in shared[runner[r].on].pending
Cleared ==
    \A g \in Procs : proc[g].reaper \in {"telling", "done"} /\ proc[g].stop = "no" => shared[g].pending = {}

Core == Reaped /\ Used /\ Hooked /\ Heeded /\ Registered /\ Cleared
Inv == Types /\ Core

-----------------------------------------------------------------------------
(* Operators of the model. *)

\* The lowest of some generations is one of them.
LEMMA LowestIs ==
    ASSUME NEW S, S \subseteq Nat, S # {}
    PROVE  Lowest(S) \in S
<1> DEFINE R == OpToRel(<, Nat)
<1>1. IsWellFoundedOn(R, Nat) BY NatLessThanWellFounded
<1>2. ASSUME NEW x \in Nat, NEW y \in Nat, ~(<<y, x>> \in R) PROVE x <= y
  <2>1. <<y, x>> \in Nat \X Nat OBVIOUS
  <2>2. <<y, x>>[1] < <<y, x>>[2] => <<y, x>> \in R BY <2>1, Zenon DEF OpToRel
  <2>3. ~(y < x) BY <1>2, <2>2
  <2> QED BY <2>3
<1> HIDE DEF R
<1>3. PICK x \in S : \A y \in S : ~(<<y, x>> \in R)
  BY <1>1, WFMin
<1>4. \A y \in S : x <= y BY <1>2, <1>3
<1> QED BY <1>4 DEF Lowest

\* A call that waits is at one of the places where one waits.
LEMMA WaitsIs == \A r : Waits(r) <=> runner[r].pc \in Waiting
BY DEF Waits, Waiting

\* The numbers that stand for no server and for no route.
LEMMA Numbers ==
    /\ 0 \notin Procs /\ Procs \subseteq Nat /\ "sweeper" \notin Runners
    /\ MaxTurns \in Nat /\ MaxTimeouts \in Nat /\ MaxFaults \in Nat
    /\ NoRoute = 0 - 1 /\ NoRoute \in Routes /\ 0 \in Turns /\ Turns \subseteq Routes
BY CodexAssumption DEF NoRoute, Routes, Turns

\* What Heeded says of the chats is what the run checks.
LEMMA HeededIs == Heeded /\ RunT => ExitToldUnlessSwept
BY DEF Heeded, RunT, ExitToldUnlessSwept, Deaf

\* Who waits for a server whose exit was handled has a sweep to thank for it: who
\* stops a server otherwise is the only one that knows it.
LEMMA ReturnIs == Types /\ Core => CallsReturnUnlessSwept
<1> SUFFICES ASSUME Types, Core, NEW r \in Stuck, runner[r].on \notin swept
             PROVE  FALSE
    BY DEF CallsReturnUnlessSwept
<1>0. /\ r \in Runners /\ Waits(r) /\ answer[r] = << >>
      /\ proc[runner[r].on].reaper = "done"
    BY DEF Stuck
<1>1. runner[r].pc \in Waiting /\ runner[r] \in RunRec BY <1>0, WaitsIs DEF Types, RunT
<1>2. runner[r].on \in Procs
    BY <1>0, <1>1 DEF Core, Used, AtPlaces, Placed, Waiting, CallPlaces, StartPlaces, BootPlaces, RunRec
<1>3. <<r, runner[r].id>> \in shared[runner[r].on].pending BY <1>0, <1>1 DEF Core, Registered
<1>4. runner[r].pc # "unboot" BY <1>1 DEF Waiting
<1>5. proc[runner[r].on].stop = "no" BY <1>0, <1>2, <1>4 DEF Core, Used, PutDown
<1> QED BY <1>0, <1>2, <1>3, <1>5 DEF Core, Cleared

\* Everything the type invariant of the model asks for.
LEMMA TypesAre == Types => TypeOK
<1> SUFFICES ASSUME Types PROVE TypeOK OBVIOUS
<1>1. ProcTypeOK BY DEF Types, ProcT, ProcTypeOK, ProcRec
<1>2. \A g \in Procs : shared[g] \in SharedRec /\ mouth[g] \in Short(Runners) BY DEF Types, SharedT, MouthT
<1>3. \A r \in Runners : runner[r] \in RunRec /\ answer[r] \in Short(AnswerRec) BY DEF Types, RunT, AnswerT
<1>4. \A g \in Procs : /\ shared[g].routes \in [Runners -> NoRoute .. MaxTurns]
                        /\ shared[g].silencer \in Runners \cup {"nobody"}
    BY <1>2 DEF SharedRec, Routes
<1>5. \A g \in Procs : Len(mouth[g]) <= 1 BY <1>2 DEF Short
<1>6. \A r \in Runners : Len(answer[r]) <= 1 /\ runner[r].shared \in Procs \cup {0} BY <1>3 DEF Short, RunRec
<1> QED BY <1>1, <1>4, <1>5, <1>6 DEF TypeOK, Types, PoolT, MouthT, NativeT, BoundT

-----------------------------------------------------------------------------
(* How the invariant is kept: by a runner that moves, and by a process that  *)
(* does.                                                                     *)

\* Routes, pending calls and the silence of servers are left alone.
SameHooks ==
    \A g \in Procs : /\ shared'[g].routes = shared[g].routes /\ shared'[g].pending = shared[g].pending
                     /\ shared'[g].stopping = shared[g].stopping

\* Where a runner may go: to a server it knows, or to the one in the pool.
Known(r, n) ==
    /\ n \in RunRec /\ Placed(n) /\ n.pc # "boot"
    /\ runner[r].pc = "unboot" => n.on = 0 /\ n.shared = 0
    /\ n.on \in {0, runner[r].on, runner[r].shared, pool}
    /\ n.shared \in {0, runner[r].shared, runner[r].on}

\* A runner that goes there uses what it may.
LEMMA RunnerMoves ==
    ASSUME Types, Used, NEW r \in Runners, NEW n, Known(r, n),
           runner' = [runner EXCEPT ![r] = n], UNCHANGED <<proc, pool, swept>>
    PROVE  Used' /\ RunT'
<1> USE Numbers
<1>1. /\ runner \in [Runners -> RunRec] /\ n \in RunRec /\ runner'[r] = n
      /\ \A s \in Runners \ {r} : runner'[s] = runner[s]
    BY DEF Types, RunT, Known
<1>2. RunT' BY <1>1 DEF RunT
<1>3. AtPlaces' BY <1>1 DEF Used, AtPlaces, Known
<1>4. Started' BY <1>1 DEF Used, Started, Known
<1>5. OwnServer'
  <2>1. \A s \in Runners : runner'[s].pc = "boot" => s # r /\ runner[s].pc = "boot" /\ runner'[s] = runner[s]
      BY <1>1 DEF Known
  <2>2. ASSUME NEW s \in Runners, s # r, runner[s].pc = "boot"
        PROVE  n.on # runner[s].on /\ n.shared # runner[s].on
    <3>1. pool # runner[s].on /\ runner[r].on # runner[s].on /\ runner[r].shared # runner[s].on
        BY <2>2 DEF Used, OwnServer
    <3>2. runner[s].on # 0 BY <2>2 DEF Used, AtPlaces, Placed, BootPlaces
    <3> QED BY <3>1, <3>2 DEF Known
  <2> QED BY <1>1, <2>1, <2>2 DEF Used, OwnServer
<1>6. PutDown'
  <2> SUFFICES ASSUME NEW g \in Procs \ swept, proc[g].stop # "no"
               PROVE  /\ pool # g
                      /\ \A s \in Runners : runner'[s].shared # g /\ (runner'[s].on = g => runner'[s].pc = "unboot")
      BY DEF PutDown
  <2>1. /\ pool # g
        /\ \A s \in Runners : runner[s].shared # g /\ (runner[s].on = g => runner[s].pc = "unboot")
      BY DEF Used, PutDown
  <2>2. n.shared # g /\ n.on # g BY <2>1 DEF Known
  <2> QED BY <1>1, <2>1, <2>2
<1> QED BY <1>2, <1>3, <1>4, <1>5, <1>6 DEF Used

\* ... and keeps what is told, if it goes on with no call and stays attached as it is.
LEMMA QuietMove ==
    ASSUME Types, Core, NEW r \in Runners, NEW n, Known(r, n), n.pc \notin Waiting,
           n.shared = runner[r].shared, SameHooks,
           runner' = [runner EXCEPT ![r] = n], UNCHANGED <<proc, pool, swept, ear, answer>>
    PROVE  Core' /\ RunT'
<1> USE Numbers
<1>1. /\ runner \in [Runners -> RunRec] /\ runner'[r] = n
      /\ \A s \in Runners \ {r} : runner'[s] = runner[s]
    BY DEF Types, RunT
<1>2. Used' /\ RunT' BY RunnerMoves DEF Core
<1>3. Reaped' BY DEF Core, Reaped
<1>4. \A s \in Runners : runner'[s].shared = runner[s].shared /\ runner[s].shared \in Procs \cup {0} BY <1>1 DEF RunRec
<1>5. Hooked' BY <1>4 DEF Core, Hooked, SameHooks
<1>6. Heeded' BY <1>4 DEF Core, Heeded, Told
<1>7. Registered'
  <2>1. \A s \in Runners : runner'[s].pc \in Waiting => runner'[s] = runner[s] BY <1>1
  <2>2. \A s \in Runners : runner[s].pc \in Waiting => runner[s].on \in Procs
      BY <1>1 DEF Core, Used, AtPlaces, Placed, Waiting, CallPlaces, StartPlaces, BootPlaces, RunRec
  <2> QED BY <2>1, <2>2 DEF Core, Registered, SameHooks
<1>8. Cleared' BY DEF Core, Cleared, SameHooks
<1> QED BY <1>2, <1>3, <1>5, <1>6, <1>7, <1>8 DEF Core

\* Nothing that the invariant speaks of changes but types.
LEMMA Nothing ==
    ASSUME Types, Core, SameHooks, UNCHANGED <<proc, runner, pool, swept, ear, answer>>
    PROVE  Core'
<1> USE Numbers
<1>1. runner \in [Runners -> RunRec] BY DEF Types, RunT
<1>2. Used' BY DEF Core, Used, AtPlaces, Started, OwnServer, PutDown
<1>3. \A s \in Runners : runner[s].shared \in Procs \cup {0} BY <1>1 DEF RunRec
<1>4. \A s \in Runners : runner[s].pc \in Waiting => runner[s].on \in Procs
    BY <1>1 DEF Core, Used, AtPlaces, Placed, Waiting, CallPlaces, StartPlaces, BootPlaces, RunRec
<1>5. Hooked' BY <1>3 DEF Core, Hooked, SameHooks
<1>6. Heeded' BY DEF Core, Heeded, Told
<1>7. Registered' BY <1>4 DEF Core, Registered, SameHooks
<1>8. Reaped' /\ Cleared' BY DEF Core, Reaped, Cleared, SameHooks
<1> QED BY <1>2, <1>5, <1>6, <1>7, <1>8 DEF Core

\* What a process may do without anybody else: what has started has, what is
\* being stopped is, and it gets past the callback only if it was there.
Lives(a, b) ==
    /\ b \in ProcRec /\ Sound(b)
    /\ b.os = "none" => a.os = "none"
    /\ b.stop = "no" <=> a.stop = "no"
    /\ b.reaper \in {"telling", "done"} => a.reaper \in {"telling", "done"} \/ b.stop # "no"
    /\ b.reaper = "done" => a.reaper = "done" \/ b.stop # "no"

\* A process that does so keeps the invariant.
LEMMA ProcMoves ==
    ASSUME Types, Core, NEW p \in Procs, NEW b, Lives(proc[p], b), SameHooks,
           proc' = [proc EXCEPT ![p] = b], UNCHANGED <<runner, pool, swept, ear, answer>>
    PROVE  Core' /\ proc' \in [Procs -> ProcRec]
<1> USE Numbers
<1>1. /\ proc \in [Procs -> ProcRec] /\ proc'[p] = b /\ \A q \in Procs \ {p} : proc'[q] = proc[q]
    BY DEF Types, ProcT
<1>2. runner \in [Runners -> RunRec] /\ pool \in Procs \cup {0} BY DEF Types, RunT, PoolT
<1>3. \A s \in Runners : runner[s].shared \in Procs \cup {0} /\ runner[s].on \in Procs \cup {0} BY <1>2 DEF RunRec
<1>4. \A q \in Procs : Lives(proc[q], proc'[q])
    BY <1>1 DEF Core, Reaped, Lives
<1>5. Reaped' /\ proc' \in [Procs -> ProcRec] BY <1>1, <1>4 DEF Reaped, Lives
<1>6. Used'
  <2>1. AtPlaces' /\ OwnServer' BY DEF Core, Used, AtPlaces, OwnServer
  <2>2. Started' BY <1>2, <1>3, <1>4 DEF Core, Used, Started, Lives
  <2>3. PutDown' BY <1>4 DEF Core, Used, PutDown, Lives
  <2> QED BY <2>1, <2>2, <2>3 DEF Used
<1>7. Hooked' BY <1>3 DEF Core, Hooked, SameHooks
<1>8. Heeded'
  <2> SUFFICES ASSUME NEW r \in Runners, runner[r].shared # 0, proc'[runner[r].shared].reaper = "done",
                      runner[r].shared \notin swept
               PROVE  Told(r)
      BY DEF Heeded, Told
  <2>1. proc[runner[r].shared].reaper = "done" \/ proc'[runner[r].shared].stop # "no" BY <1>3, <1>4 DEF Lives
  <2>2. proc[runner[r].shared].stop = "no" BY <1>3 DEF Core, Used, PutDown
  <2> QED BY <1>3, <1>4, <2>1, <2>2 DEF Core, Heeded, Lives
<1>9. Registered'
  <2>1. \A s \in Runners : runner[s].pc \in Waiting => runner[s].on \in Procs
      BY <1>2, <1>3 DEF Core, Used, AtPlaces, Placed, Waiting, CallPlaces, StartPlaces, BootPlaces
  <2> QED BY <2>1 DEF Core, Registered, SameHooks
<1>10. Cleared' BY <1>4 DEF Core, Cleared, SameHooks, Lives
<1> QED BY <1>5, <1>6, <1>7, <1>8, <1>9, <1>10 DEF Core

-----------------------------------------------------------------------------
(* The processes. *)

\* The threads of a process, the operating system and the guardian.
LEMMA ProcessLives ==
    ASSUME ProcT, Reaped, NEW p \in Procs,
           \/ Stopping(p) \/ Noticed(p) \/ ExitCall(p) \/ Die(p) \/ GuardianKills(p)
    PROVE  /\ \E b : Lives(proc[p], b) /\ b.pump = proc[p].pump /\ proc' = [proc EXCEPT ![p] = b]
           /\ helper' \subseteq Procs /\ owner' \in BOOLEAN
           /\ guardian' \in [Procs -> {"none", "watching", "eof", "gone"}]
<1> DEFINE a == proc[p]
           Good(b) == Lives(a, b) /\ b.pump = a.pump
<1>1. a \in ProcRec /\ Sound(a) /\ proc \in [Procs -> ProcRec] BY DEF ProcT, Reaped
<1>2. CASE StopTerm(p)
  <2>1. PICK dies \in BOOLEAN : proc' = [proc EXCEPT ![p].stop = "term", ![p].os = IF dies THEN "dead" ELSE @]
      BY <1>2 DEF StopTerm
  <2> DEFINE b == [a EXCEPT !.stop = "term", !.os = IF dies THEN "dead" ELSE @]
  <2>2. proc' = [proc EXCEPT ![p] = b] BY <2>1, <1>1 DEF ProcRec
  <2>3. Good(b) BY <1>1, <1>2 DEF StopTerm, ProcRec, Sound, Lives
  <2>4. helper' \subseteq Procs /\ UNCHANGED <<guardian, owner>> BY <1>2 DEF StopTerm, ProcT
  <2> QED BY <2>2, <2>3, <2>4 DEF ProcT
<1>3. CASE StopKill(p)
  <2> DEFINE b == [a EXCEPT !.stop = "kill", !.os = "dead"]
  <2>2. proc' = [proc EXCEPT ![p] = b] BY <1>3, <1>1 DEF StopKill, ProcRec
  <2>3. Good(b) BY <1>1, <1>3 DEF StopKill, ProcRec, Sound, Lives
  <2>4. helper' \subseteq Procs /\ UNCHANGED <<guardian, owner>> BY <1>3 DEF StopKill, ProcT
  <2> QED BY <2>2, <2>3, <2>4 DEF ProcT
<1>4. CASE StopClose(p)
  <2> DEFINE b == [a EXCEPT !.stop = "closing", !.gate = FALSE]
  <2>2. proc' = [proc EXCEPT ![p] = b] BY <1>4, <1>1 DEF StopClose, ProcRec
  <2>3. Good(b) BY <1>1, <1>4 DEF StopClose, ProcRec, Sound, Lives
  <2>4. UNCHANGED <<helper, owner>> /\ guardian' \in [Procs -> {"none", "watching", "eof", "gone"}]
      BY <1>4 DEF StopClose, ProcT
  <2> QED BY <2>2, <2>3, <2>4 DEF ProcT
<1>5. CASE StopDone(p)
  <2> DEFINE b == [a EXCEPT !.stop = "done"]
  <2>2. proc' = [proc EXCEPT ![p] = b] BY <1>5, <1>1 DEF StopDone, StopAt, ProcRec
  <2>3. Good(b) BY <1>1, <1>5 DEF StopDone, ProcRec, Sound, Lives
  <2>4. UNCHANGED <<helper, guardian, owner>> BY <1>5 DEF StopDone
  <2> QED BY <2>2, <2>3, <2>4 DEF ProcT
<1>6. CASE Noticed(p)
  <2> DEFINE b == [a EXCEPT !.running = FALSE, !.reaper = "seen"]
  <2>2. proc' = [proc EXCEPT ![p] = b] BY <1>6, <1>1 DEF Noticed, ProcRec
  <2>3. Good(b) BY <1>1, <1>6 DEF Noticed, ProcRec, Sound, Lives
  <2>4. UNCHANGED <<helper, guardian, owner>> BY <1>6 DEF Noticed
  <2> QED BY <2>2, <2>3, <2>4 DEF ProcT
<1>7. CASE ExitCall(p)
  <2> DEFINE b == [a EXCEPT !.reaper = IF a.gate THEN "calling" ELSE "done"]
  <2>2. proc' = [proc EXCEPT ![p] = b] BY <1>7, <1>1 DEF ExitCall, ProcRec
  <2>3. Good(b) BY <1>1, <1>7 DEF ExitCall, ProcRec, Sound, Lives
  <2>4. UNCHANGED <<helper, guardian, owner>> BY <1>7 DEF ExitCall
  <2> QED BY <2>2, <2>3, <2>4 DEF ProcT
<1>8. CASE Die(p)
  <2> DEFINE b == [a EXCEPT !.os = "dead"]
  <2>2. proc' = [proc EXCEPT ![p] = b] BY <1>8, <1>1 DEF Die, Killed, ProcRec
  <2>3. Good(b) BY <1>1, <1>8 DEF Die, ProcRec, Sound, Lives
  <2>4. UNCHANGED <<helper, guardian, owner>> BY <1>8 DEF Die
  <2> QED BY <2>2, <2>3, <2>4 DEF ProcT
<1>9. CASE GuardianKills(p)
  <2> DEFINE b == [a EXCEPT !.os = "dead"]
  <2>2. proc' = [proc EXCEPT ![p] = b] BY <1>9, <1>1 DEF GuardianKills, Killed, ProcRec
  <2>3. Good(b) BY <1>1 DEF ProcRec, Sound, Lives
  <2>4. /\ helper' \subseteq Procs /\ UNCHANGED owner
        /\ guardian' \in [Procs -> {"none", "watching", "eof", "gone"}]
      BY <1>9 DEF GuardianKills, ProcT
  <2> QED BY <2>2, <2>3, <2>4 DEF ProcT
<1> QED BY <1>2, <1>3, <1>4, <1>5, <1>6, <1>7, <1>8, <1>9 DEF Stopping

\* They keep the invariant.
LEMMA ProcessSteps ==
    ASSUME Inv, NEW p \in Procs,
           \/ Stopping(p) \/ Noticed(p) \/ ExitCall(p) \/ Die(p) \/ GuardianKills(p),
           UNCHANGED <<pool, poolLock, shared, wireVars, nativeVars, runnerVars, sweeper, ear, historyVars>>,
           BoundT'
    PROVE  Inv'
<1>1. PICK b : Lives(proc[p], b) /\ b.pump = proc[p].pump /\ proc' = [proc EXCEPT ![p] = b]
    BY ProcessLives DEF Inv, Types, Core
<1>2. /\ UNCHANGED <<pool, poolLock, shared, requests, lines, mouth, turn, asking, nextTurn>>
      /\ UNCHANGED <<runner, answer, plan, sweeper, ear, owed, swept>>
    BY DEF wireVars, nativeVars, runnerVars, historyVars
<1>3. SameHooks BY <1>2 DEF SameHooks
<1>4. Core' /\ proc' \in [Procs -> ProcRec] BY <1>1, <1>2, <1>3, ProcMoves DEF Inv
<1>5. ProcT' BY <1>4, ProcessLives DEF Inv, Types, Core, ProcT
<1>6. MouthT'
  <2>1. \A q \in Procs : proc'[q].pump = proc[q].pump BY <1>1 DEF Inv, Types, ProcT
  <2> QED BY <1>2, <2>1 DEF Inv, Types, MouthT
<1>7. PoolT' /\ WireT' /\ NativeT' /\ ChatT' /\ RunT' /\ AnswerT' /\ SharedT'
    BY <1>2 DEF Inv, Types, PoolT, WireT, NativeT, ChatT, RunT, AnswerT, SharedT
<1> QED BY <1>4, <1>5, <1>6, <1>7 DEF Inv, Types

\* Steps of others that leave all of omni's state and every process alone.
LEMMA OthersStep ==
    ASSUME Inv, UNCHANGED <<proc, sharedVars, mouth, runnerVars, sweeper, ear, historyVars>>,
           /\ helper' \subseteq Procs /\ owner' \in BOOLEAN
           /\ guardian' \in [Procs -> {"none", "watching", "eof", "gone"}],
           WireT', NativeT', BoundT'
    PROVE  Inv'
<1>1. /\ UNCHANGED <<proc, pool, poolLock, shared, mouth>>
      /\ UNCHANGED <<runner, answer, plan, sweeper, ear, owed, swept>>
    BY DEF sharedVars, runnerVars, historyVars
<1>2. SameHooks BY <1>1 DEF SameHooks
<1>3. Core' BY <1>1, <1>2, Nothing DEF Inv
<1>4. ProcT' /\ PoolT' /\ MouthT' /\ ChatT' /\ RunT' /\ AnswerT' /\ SharedT'
    BY <1>1 DEF Inv, Types, ProcT, PoolT, MouthT, ChatT, RunT, AnswerT, SharedT
<1> QED BY <1>3, <1>4 DEF Inv, Types

\* The guardian leaves, a helper is started, the daemon dies.
LEMMA OutsideSteps ==
    ASSUME Inv, (\E p \in Procs : GuardianLeaves(p) \/ Fork(p)) \/ OwnerDies,
           UNCHANGED <<sharedVars, wireVars, runnerVars, sweeper, ear, historyVars, nativeVars>>, BoundT'
    PROVE  Inv'
<1>1. UNCHANGED <<requests, lines, mouth, turn, asking, nextTurn>> BY DEF wireVars, nativeVars
<1>2. WireT' /\ NativeT' BY <1>1 DEF Inv, Types, WireT, NativeT
<1>3. UNCHANGED <<sharedVars, mouth, runnerVars, sweeper, ear, historyVars>> BY <1>1
<1>4. ASSUME NEW p \in Procs, GuardianLeaves(p) PROVE Inv'
  <2>1. /\ UNCHANGED <<proc, helper, owner>>
        /\ guardian' \in [Procs -> {"none", "watching", "eof", "gone"}]
      BY <1>4 DEF GuardianLeaves, Inv, Types, ProcT
  <2>2. helper' \subseteq Procs /\ owner' \in BOOLEAN BY <2>1 DEF Inv, Types, ProcT
  <2> QED BY <1>2, <1>3, <2>1, <2>2, OthersStep
<1>5. ASSUME NEW p \in Procs, Fork(p) PROVE Inv'
  <2>1. /\ UNCHANGED <<proc, guardian, owner>> /\ helper' \subseteq Procs
      BY <1>5 DEF Fork, Inv, Types, ProcT
  <2>2. owner' \in BOOLEAN /\ guardian' \in [Procs -> {"none", "watching", "eof", "gone"}]
      BY <2>1 DEF Inv, Types, ProcT
  <2> QED BY <1>2, <1>3, <2>1, <2>2, OthersStep
<1>6. CASE OwnerDies
  <2>1. /\ UNCHANGED <<proc, helper>> /\ owner' \in BOOLEAN
        /\ guardian' \in [Procs -> {"none", "watching", "eof", "gone"}]
      BY <1>6 DEF OwnerDies, Inv, Types, ProcT
  <2>2. helper' \subseteq Procs BY <2>1 DEF Inv, Types, ProcT
  <2> QED BY <1>2, <1>3, <2>1, <2>2, OthersStep
<1> QED BY <1>4, <1>5, <1>6

-----------------------------------------------------------------------------
(* Calls. *)

\* A runner that has done something has one thing less to do.
LEMMA DoneType ==
    ASSUME ChatT, NEW r \in Runners, plan[r] # << >>, Done(r)
    PROVE  plan' \in [Runners -> Seq(RunnerOps)]
<1>1. plan[r] \in Seq(RunnerOps) BY DEF ChatT
<1>2. Tail(plan[r]) \in Seq(RunnerOps) BY <1>1
<1> QED BY <1>2 DEF Done, ChatT

\* One runner's record changes.
LEMMA RunType ==
    ASSUME RunT, NEW r \in Runners, NEW n \in RunRec, runner' = [runner EXCEPT ![r] = n]
    PROVE  RunT' /\ runner'[r] = n /\ \A s \in Runners \ {r} : runner'[s] = runner[s]
BY DEF RunT

\* One server's record changes.
LEMMA SharedType ==
    ASSUME SharedT, NEW g \in Procs, NEW n \in SharedRec, shared' = [shared EXCEPT ![g] = n]
    PROVE  SharedT' /\ shared'[g] = n /\ \A h \in Procs \ {g} : shared'[h] = shared[h]
BY DEF SharedT

\* One call is answered.
LEMMA AnswerType ==
    ASSUME AnswerT, NEW r \in Runners, NEW a \in AnswerRec, answer' = [answer EXCEPT ![r] = <<a>>]
    PROVE  AnswerT' /\ answer'[r] # << >> /\ \A s \in Runners \ {r} : answer'[s] = answer[s]
<1>1. <<a>> \in Short(AnswerRec) BY DEF Short
<1> QED BY <1>1 DEF AnswerT

\* What an answer says has its type.
LEMMA AnswerHead ==
    ASSUME AnswerT, NEW r \in Runners, answer[r] # << >>
    PROVE  Head(answer[r]) \in AnswerRec
<1>1. answer[r] \in Seq(AnswerRec) BY DEF AnswerT, Short
<1> QED BY <1>1

\* A call registers and asks, and clears what was answered before.
LEMMA CallsIs ==
    ASSUME RunT, AnswerT, SharedT, WireT, NEW r \in Runners, NEW g \in Procs,
           NEW m \in Methods, NEW place \in Places, Calls(r, g, m, place)
    PROVE  /\ RunT' /\ AnswerT' /\ SharedT' /\ requests' \in [Procs -> Seq(RequestRec)]
           /\ runner' = [runner EXCEPT ![r] = runner'[r]] /\ runner'[r] \in RunRec
           /\ runner'[r].pc = place /\ runner'[r].on = g /\ runner'[r].shared = runner[r].shared
           /\ answer'[r] = << >> /\ \A s \in Runners \ {r} : answer'[s] = answer[s]
           /\ <<r, runner'[r].id>> \in shared'[g].pending
           /\ \A h \in Procs : /\ shared[h].pending \subseteq shared'[h].pending
                               /\ shared'[h].routes = shared[h].routes /\ shared'[h].stopping = shared[h].stopping
           /\ \A h \in Procs \ {g} : shared'[h] = shared[h]
<1>1. runner \in [Runners -> RunRec] /\ runner[r] \in RunRec BY DEF RunT
<1>2. PICK k \in Nat : k = runner[r].id + 1 BY <1>1 DEF RunRec
<1> DEFINE n == [runner[r] EXCEPT !.method = m, !.pc = place, !.on = g, !.id = k]
           w == [shared[g] EXCEPT !.pending = @ \cup {<<r, k>>}, !.silencer = IF place = "silence" THEN r ELSE @]
           q == [method |-> m, by |-> r, id |-> k, turn |-> runner[r].open]
<1>3. runner' = [runner EXCEPT ![r] = n] BY <1>2 DEF Calls
<1>4. n \in RunRec BY <1>1 DEF RunRec
<1>5. n.pc = place /\ n.on = g /\ n.shared = runner[r].shared /\ n.id = k BY <1>1 DEF RunRec
<1>6. shared[g] \in SharedRec /\ shared \in [Procs -> SharedRec] BY DEF SharedT
<1>7. shared' = [shared EXCEPT ![g] = w] BY <1>2, <1>6 DEF Calls, SharedRec
<1>8. w \in SharedRec
  <2>1. shared[g].pending \cup {<<r, k>>} \in SUBSET (Runners \X Nat) BY <1>6 DEF SharedRec
  <2>2. (IF place = "silence" THEN r ELSE shared[g].silencer) \in Runners \cup {"nobody"} BY <1>6 DEF SharedRec
  <2> QED BY <1>6, <2>1, <2>2 DEF SharedRec
<1>9. w.pending = shared[g].pending \cup {<<r, k>>} /\ w.routes = shared[g].routes /\ w.stopping = shared[g].stopping
    BY <1>6 DEF SharedRec
<1>10. answer' = [answer EXCEPT ![r] = << >>] BY DEF Calls
<1>11. AnswerT' /\ answer'[r] = << >> /\ \A s \in Runners \ {r} : answer'[s] = answer[s]
  <2>1. << >> \in Short(AnswerRec) BY DEF Short
  <2> QED BY <1>10, <2>1 DEF AnswerT
<1>12. requests' \in [Procs -> Seq(RequestRec)]
  <2>1. q \in RequestRec BY <1>1 DEF RequestRec, RunRec
  <2>2. requests' = [requests EXCEPT ![g] = Append(requests[g], q)] BY <1>2 DEF Calls, WireT
  <2> HIDE DEF q
  <2> QED BY <2>1, <2>2 DEF WireT
<1> HIDE DEF n, w
<1>13. RunT' /\ runner'[r] = n BY <1>3, <1>4, RunType
<1>14. SharedT' /\ shared'[g] = w /\ \A h \in Procs \ {g} : shared'[h] = shared[h] BY <1>7, <1>8, SharedType
<1>15. \A h \in Procs : /\ shared[h].pending \subseteq shared'[h].pending
                        /\ shared'[h].routes = shared[h].routes /\ shared'[h].stopping = shared[h].stopping
    BY <1>9, <1>14
<1> QED BY <1>3, <1>4, <1>5, <1>9, <1>11, <1>12, <1>13, <1>14, <1>15

\* Where a call may be made: not on the way out of a handshake that failed.
MayCall(r, m, place) ==
    /\ m \in Methods /\ place \in Waiting \ {"boot"} /\ runner[r].on # 0 /\ runner[r].pc # "unboot"
    /\ IF place \in {"thread", "resume", "silence"} THEN runner[r].shared = 0
       ELSE IF place = "inject" THEN runner[r].shared = 0
       ELSE runner[r].shared # 0 /\ runner[r].on = runner[r].shared

\* A call on the server that a runner is on.
LEMMA CallsKeep ==
    ASSUME Inv, NEW r \in Runners, NEW m, NEW place, MayCall(r, m, place),
           Writable(runner[r].on), Calls(r, runner[r].on, m, place), UNCHANGED <<proc, pool, swept, ear>>
    PROVE  /\ Core' /\ RunT' /\ AnswerT' /\ SharedT' /\ requests' \in [Procs -> Seq(RequestRec)]
<1> USE Numbers
<1>1. RunT /\ AnswerT /\ SharedT /\ WireT /\ Types /\ Core BY DEF Inv, Types
<1>2. runner[r].on \in Procs /\ m \in Methods /\ place \in Places /\ place \in Waiting
    BY <1>1 DEF RunT, RunRec, MayCall, Waiting, Places, CallPlaces, StartPlaces, BootPlaces
<1> DEFINE g == runner[r].on
<1>3. PICK n : n = runner'[r] OBVIOUS
<1>15. /\ RunT' /\ AnswerT' /\ SharedT' /\ requests' \in [Procs -> Seq(RequestRec)]
       /\ runner' = [runner EXCEPT ![r] = runner'[r]] /\ runner'[r] \in RunRec
       /\ runner'[r].pc = place /\ runner'[r].on = g /\ runner'[r].shared = runner[r].shared
       /\ answer'[r] = << >> /\ (\A s \in Runners \ {r} : answer'[s] = answer[s])
       /\ <<r, runner'[r].id>> \in shared'[g].pending
       /\ \A h \in Procs : /\ shared[h].pending \subseteq shared'[h].pending
                           /\ shared'[h].routes = shared[h].routes /\ shared'[h].stopping = shared[h].stopping
       /\ (\A h \in Procs \ {g} : shared'[h] = shared[h])
    BY <1>1, <1>2, CallsIs
<1>4. /\ RunT' /\ AnswerT' /\ SharedT' /\ requests' \in [Procs -> Seq(RequestRec)]
      /\ runner' = [runner EXCEPT ![r] = n] /\ n \in RunRec
      /\ n.pc = place /\ n.on = runner[r].on /\ n.shared = runner[r].shared
      /\ answer'[r] = << >> /\ (\A s \in Runners \ {r} : answer'[s] = answer[s])
      /\ <<r, n.id>> \in shared'[runner[r].on].pending
      /\ (\A h \in Procs : /\ shared[h].pending \subseteq shared'[h].pending
                           /\ shared'[h].routes = shared[h].routes /\ shared'[h].stopping = shared[h].stopping)
      /\ (\A h \in Procs \ {runner[r].on} : shared'[h] = shared[h])
    BY <1>3, <1>15
<1>5. Placed(n)
    BY <1>4 DEF MayCall, Placed, Waiting, CallPlaces, StartPlaces, BootPlaces
<1>6. Known(r, n) BY <1>4, <1>5 DEF Known, MayCall
<1>7. Used' BY <1>1, <1>4, <1>6, RunnerMoves DEF Core
<1>8. runner'[r] = n /\ \A s \in Runners \ {r} : runner'[s] = runner[s] BY <1>1, <1>4 DEF RunT
<1>9. \A s \in Runners : runner'[s].shared = runner[s].shared /\ runner[s].shared \in Procs \cup {0}
    BY <1>1, <1>4, <1>8 DEF RunT, RunRec
<1>10. Hooked'
  <2>1. \A s \in Runners : runner'[s].shared # 0 => shared'[runner'[s].shared].routes[s] # NoRoute
    <3> SUFFICES ASSUME NEW s \in Runners, runner'[s].shared # 0
                 PROVE  shared'[runner'[s].shared].routes[s] # NoRoute
        OBVIOUS
    <3>1. runner'[s].shared = runner[s].shared /\ runner[s].shared \in Procs BY <1>9
    <3>2. shared[runner[s].shared].routes[s] # NoRoute BY <1>1, <3>1 DEF Core, Hooked
    <3>3. shared'[runner[s].shared].routes = shared[runner[s].shared].routes BY <1>4, <3>1
    <3> QED BY <3>1, <3>2, <3>3
  <2>2. \A h \in Procs : shared'[h].stopping => h \in swept' BY <1>1, <1>4 DEF Core, Hooked
  <2> QED BY <2>1, <2>2 DEF Hooked
<1>11. Heeded' BY <1>1, <1>9 DEF Core, Heeded, Told
<1>12. Registered'
  <2> SUFFICES ASSUME NEW s \in Runners, runner'[s].pc \in Waiting, answer'[s] = << >>
               PROVE  <<s, runner'[s].id>> \in shared'[runner'[s].on].pending
      BY DEF Registered
  <2>1. CASE s = r BY <1>4, <1>8, <2>1
  <2>2. CASE s # r
    <3>1. runner'[s] = runner[s] /\ answer'[s] = answer[s] BY <1>4, <1>8, <2>2
    <3>2. runner[s].on \in Procs
        BY <1>1, <3>1 DEF Core, Used, AtPlaces, Placed, Waiting, CallPlaces, StartPlaces, BootPlaces, RunT, RunRec
    <3> QED BY <1>1, <1>4, <3>1, <3>2 DEF Core, Registered
  <2> QED BY <2>1, <2>2
<1>13. Cleared'
  <2>1. proc[runner[r].on].reaper = "wait" BY <1>1, <1>2 DEF Core, Reaped, Sound, Writable
  <2> QED BY <1>1, <1>4, <2>1 DEF Core, Cleared
<1>14. Reaped' BY <1>1 DEF Core, Reaped
<1> QED BY <1>4, <1>7, <1>10, <1>11, <1>12, <1>13, <1>14 DEF Core

\* A runner that only changes its place, to one where it does not wait.
LEMMA GotoKeeps ==
    ASSUME Inv, NEW r \in Runners, NEW place \in {"idle", "got", "attach", "failed"}, Goto(r, place),
           place \in {"got", "attach"} => runner[r].shared = 0 /\ runner[r].on # 0,
           place = "idle" => runner[r].on = runner[r].shared,
           runner[r].pc # "unboot", SameHooks, UNCHANGED <<proc, pool, swept, ear, answer>>
    PROVE  Core' /\ RunT'
<1> DEFINE n == [runner[r] EXCEPT !.pc = place]
<1>1. runner[r] \in RunRec /\ runner \in [Runners -> RunRec] BY DEF Inv, Types, RunT
<1>2. runner' = [runner EXCEPT ![r] = n] BY <1>1 DEF Goto
<1>3. place \in Places BY DEF Places, StartPlaces
<1>4. n \in RunRec /\ n.pc = place /\ n.on = runner[r].on /\ n.shared = runner[r].shared
    BY <1>1, <1>3 DEF RunRec
<1> HIDE DEF n
<1>5. Placed(n) /\ n.pc \notin Waiting /\ n.pc # "boot"
    BY <1>4 DEF Placed, CallPlaces, StartPlaces, BootPlaces, Waiting
<1>6. Known(r, n) BY <1>4, <1>5 DEF Known
<1> QED BY <1>2, <1>4, <1>5, <1>6, QuietMove DEF Inv

\* A call that is made, or fails because the pipe is gone.
LEMMA CallKeeps ==
    ASSUME Inv, NEW r \in Runners, NEW m, NEW place, MayCall(r, m, place), Call(r, m, place),
           UNCHANGED <<proc, pool, swept, ear>>
    PROVE  /\ Core' /\ RunT' /\ AnswerT' /\ SharedT' /\ requests' \in [Procs -> Seq(RequestRec)]
<1>1. CASE Writable(runner[r].on)
  <2>1. Calls(r, runner[r].on, m, place) BY <1>1 DEF Call
  <2> QED BY <1>1, <2>1, CallsKeep
<1>2. CASE ~Writable(runner[r].on)
  <2>1. Goto(r, "failed") /\ UNCHANGED <<answer, shared, requests>> BY <1>2 DEF Call
  <2>2. SameHooks BY <2>1 DEF SameHooks
  <2>3. Core' /\ RunT' BY <2>1, <2>2, GotoKeeps DEF MayCall
  <2>4. AnswerT' /\ SharedT' /\ requests' \in [Procs -> Seq(RequestRec)]
      BY <2>1 DEF Inv, Types, AnswerT, SharedT, WireT
  <2> QED BY <2>3, <2>4
<1> QED BY <1>1, <1>2

\* The types of what a call leaves alone.
LEMMA CallRest ==
    ASSUME Inv, Core', RunT', AnswerT', SharedT', requests' \in [Procs -> Seq(RequestRec)],
           plan' \in [Runners -> Seq(RunnerOps)],
           UNCHANGED <<procVars, pool, poolLock, lines, mouth, nativeVars, sweeper, ear, historyVars, boundVars>>
    PROVE  Inv'
<1>1. /\ UNCHANGED <<proc, helper, guardian, owner, pool, poolLock, lines, mouth, turn, asking, nextTurn>>
      /\ UNCHANGED <<sweeper, ear, owed, swept, timeouts, faults>>
    BY DEF procVars, nativeVars, historyVars, boundVars
<1>2. ProcT' /\ PoolT' /\ MouthT' BY <1>1 DEF Inv, Types, ProcT, PoolT, MouthT
<1>3. WireT' /\ NativeT' /\ ChatT' /\ BoundT' BY <1>1 DEF Inv, Types, WireT, NativeT, ChatT, BoundT
<1> QED BY <1>2, <1>3 DEF Inv, Types

-----------------------------------------------------------------------------
(* The operations that are calls, and their failures. *)

\* open, resume, steer, turn/start and inject.
LEMMA CallSteps ==
    ASSUME Inv, NEW r \in Runners, OpenThread(r) \/ Reopen(r) \/ Steer(r) \/ OpenTurn(r) \/ Inject(r)
    PROVE  Inv'
<1>1. Placed(runner[r]) BY DEF Inv, Core, Used, AtPlaces
<1>2. UNCHANGED callRest
    BY DEF OpenThread, Reopen, Steer, OpenTurn, Inject
<1>3. /\ UNCHANGED <<procVars, pool, poolLock, lines, mouth, nativeVars, sweeper, ear, historyVars, boundVars>>
      /\ UNCHANGED <<proc, pool, swept, ear, plan>>
    BY <1>2 DEF callRest, procVars, historyVars
<1>4. \E m, place : MayCall(r, m, place) /\ Call(r, m, place)
  <2>1. CASE OpenThread(r)
    <3>1. PICK m \in {"thread/start", "thread/resume"} :
              Call(r, m, IF m = "thread/start" THEN "thread" ELSE "resume")
        BY <2>1 DEF OpenThread
    <3>2. runner[r].pc = "got" BY <2>1 DEF OpenThread
    <3>3. MayCall(r, m, IF m = "thread/start" THEN "thread" ELSE "resume")
        BY <1>1, <3>2 DEF MayCall, Methods, Waiting, Placed, StartPlaces
    <3> QED BY <3>1, <3>3
  <2>2. CASE Reopen(r)
    <3>1. runner[r].pc = "resume" /\ Call(r, "thread/start", "thread") BY <2>2 DEF Reopen, Answered
    <3>2. MayCall(r, "thread/start", "thread")
        BY <1>1, <3>1 DEF MayCall, Methods, Waiting, Placed, StartPlaces
    <3> QED BY <3>1, <3>2
  <2>3. CASE Steer(r)
    <3>1. runner[r].pc = "steering" /\ Call(r, "turn/steer", "steer") BY <2>3 DEF Steer
    <3>2. MayCall(r, "turn/steer", "steer")
        BY <1>1, <3>1 DEF MayCall, Methods, Waiting, Placed, CallPlaces
    <3> QED BY <3>1, <3>2
  <2>4. CASE OpenTurn(r)
    <3>1. runner[r].pc \in {"opening", "steer"} /\ Call(r, "turn/start", "turn") BY <2>4 DEF OpenTurn, Answered
    <3>2. MayCall(r, "turn/start", "turn")
        BY <1>1, <3>1 DEF MayCall, Methods, Waiting, Placed, CallPlaces
    <3> QED BY <3>1, <3>2
  <2>5. CASE Inject(r)
    <3>1. runner[r].pc = "attach" /\ Call(r, "inject", "inject") BY <2>5 DEF Inject
    <3>2. MayCall(r, "inject", "inject")
        BY <1>1, <3>1 DEF MayCall, Methods, Waiting, Placed, StartPlaces
    <3> QED BY <3>1, <3>2
  <2> QED BY <2>1, <2>2, <2>3, <2>4, <2>5
<1>5. Core' /\ RunT' /\ AnswerT' /\ SharedT' /\ requests' \in [Procs -> Seq(RequestRec)]
    BY <1>3, <1>4, CallKeeps
<1>6. plan' \in [Runners -> Seq(RunnerOps)] BY <1>3 DEF Inv, Types, ChatT
<1> QED BY <1>3, <1>5, <1>6, CallRest

\* compact, catch_up and interrupt.
LEMMA OrderSteps ==
    ASSUME Inv, NEW r \in Runners, Compact(r) \/ CatchUp(r) \/ Interrupt(r)
    PROVE  Inv'
<1>1. Placed(runner[r]) BY DEF Inv, Core, Used, AtPlaces
<1>2. /\ runner[r].pc = "idle" /\ plan[r] # << >> /\ runner[r].shared # 0 /\ Done(r)
      /\ UNCHANGED <<procVars, pool, poolLock, lines, mouth, nativeVars, sweeper, ear, historyVars, boundVars>>
    BY DEF Compact, CatchUp, Interrupt, Wants
<1>3. UNCHANGED <<proc, pool, swept, ear>> BY <1>2 DEF procVars, historyVars
<1>4. \E m, place : MayCall(r, m, place) /\ Call(r, m, place)
  <2>1. PICK m \in {"compact", "inject", "interrupt"}, place \in {"compact", "told"} : Call(r, m, place)
      BY DEF Compact, CatchUp, Interrupt
  <2>2. MayCall(r, m, place) BY <1>1, <1>2 DEF MayCall, Methods, Waiting, Placed
  <2> QED BY <2>1, <2>2
<1>5. Core' /\ RunT' /\ AnswerT' /\ SharedT' /\ requests' \in [Procs -> Seq(RequestRec)]
    BY <1>3, <1>4, CallKeeps
<1>6. plan' \in [Runners -> Seq(RunnerOps)] BY <1>2, DoneType DEF Inv, Types
<1> QED BY <1>2, <1>5, <1>6, CallRest

\* silence_skills, which asks only if nobody has.
LEMMA SilenceKeeps ==
    ASSUME Inv, NEW r \in Runners, Silence(r)
    PROVE  Inv'
<1>1. Placed(runner[r]) BY DEF Inv, Core, Used, AtPlaces
<1>2. runner[r].pc \in {"thread", "resume"} /\ UNCHANGED callRest BY DEF Silence, Ok, Answered
<1>3. /\ UNCHANGED <<procVars, pool, poolLock, lines, mouth, nativeVars, sweeper, ear, historyVars, boundVars>>
      /\ UNCHANGED <<proc, pool, swept, ear, plan>>
    BY <1>2 DEF callRest, procVars, historyVars
<1>4. runner[r].shared = 0 /\ runner[r].on # 0 BY <1>1, <1>2 DEF Placed, StartPlaces
<1>5. Core' /\ RunT' /\ AnswerT' /\ SharedT' /\ requests' \in [Procs -> Seq(RequestRec)]
  <2>1. CASE Goto(r, "attach") /\ UNCHANGED <<answer, shared, requests>>
    <3>1. SameHooks BY <2>1 DEF SameHooks
    <3>2. Core' /\ RunT' BY <1>2, <1>3, <1>4, <2>1, <3>1, GotoKeeps
    <3> QED BY <2>1, <3>2 DEF Inv, Types, AnswerT, SharedT, WireT
  <2>2. CASE Writable(runner[r].on) /\ Calls(r, runner[r].on, "skills", "silence")
    <3>1. MayCall(r, "skills", "silence") BY <1>2, <1>4 DEF MayCall, Methods, Waiting
    <3> QED BY <1>3, <2>2, <3>1, CallsKeep
  <2> QED BY <2>1, <2>2 DEF Silence
<1>6. plan' \in [Runners -> Seq(RunnerOps)] BY <1>3 DEF Inv, Types, ChatT
<1> QED BY <1>3, <1>5, <1>6, CallRest

\* Answers that lead to another place, and no further.
LEMMA AnsweredSteps ==
    ASSUME Inv, NEW r \in Runners, Silenced(r) \/ Injected(r) \/ Steered(r)
    PROVE  Inv'
<1>1. Placed(runner[r]) /\ runner[r] \in RunRec BY DEF Inv, Core, Used, AtPlaces, Types, RunT
<1>2. UNCHANGED <<callRest, answer, requests>> BY DEF Silenced, Injected, Steered
<1>3. /\ UNCHANGED <<procVars, pool, poolLock, lines, mouth, nativeVars, sweeper, ear, historyVars, boundVars>>
      /\ UNCHANGED <<proc, pool, swept, ear, plan, answer, requests>>
    BY <1>2 DEF callRest, procVars, historyVars
<1>4. Core' /\ RunT' /\ SharedT'
  <2>1. CASE Silenced(r)
    <3>1. /\ runner[r].pc = "silence" /\ answer[r] # << >> /\ Goto(r, "attach")
          /\ shared' = [shared EXCEPT ![runner[r].on].silencer = "nobody",
                                      ![runner[r].on].memo = Head(answer[r]).ok]
        BY <2>1 DEF Silenced, Answered
    <3>2. runner[r].shared = 0 /\ runner[r].on # 0 BY <1>1, <3>1 DEF Placed, StartPlaces
    <3>3. PICK g \in Procs : g = runner[r].on BY <1>1, <3>2 DEF RunRec
    <3>4. shared \in [Procs -> SharedRec] /\ shared[g] \in SharedRec BY DEF Inv, Types, SharedT
    <3>5. PICK b \in BOOLEAN : b = Head(answer[r]).ok BY <3>1, AnswerHead DEF Inv, Types, AnswerRec
    <3> DEFINE w == [shared[g] EXCEPT !.silencer = "nobody", !.memo = b]
    <3>6. shared' = [shared EXCEPT ![g] = w] BY <3>1, <3>3, <3>4, <3>5 DEF SharedRec
    <3>7. w \in SharedRec /\ w.routes = shared[g].routes /\ w.pending = shared[g].pending /\ w.stopping = shared[g].stopping
        BY <3>4 DEF SharedRec
    <3> HIDE DEF w
    <3>8. SharedT' /\ SameHooks BY <3>4, <3>6, <3>7, SharedType DEF SameHooks, SharedT
    <3>9. Core' /\ RunT' BY <1>3, <3>1, <3>2, <3>8, GotoKeeps
    <3> QED BY <3>8, <3>9
  <2>2. CASE Injected(r)
    <3>1. runner[r].pc = "inject" /\ Goto(r, "attach") /\ shared' = shared BY <2>2 DEF Injected, Ok, Answered
    <3>2. runner[r].shared = 0 /\ runner[r].on # 0 BY <1>1, <3>1 DEF Placed, StartPlaces
    <3>3. SameHooks BY <3>1 DEF SameHooks
    <3>4. Core' /\ RunT' BY <1>3, <3>1, <3>2, <3>3, GotoKeeps
    <3> QED BY <3>1, <3>4 DEF Inv, Types, SharedT
  <2>3. CASE Steered(r)
    <3>1. runner[r].pc = "steer" /\ Goto(r, "idle") /\ shared' = shared BY <2>3 DEF Steered, Ok, Answered
    <3>2. runner[r].on = runner[r].shared BY <1>1, <3>1 DEF Placed, CallPlaces
    <3>3. SameHooks BY <3>1 DEF SameHooks
    <3>4. Core' /\ RunT' BY <1>3, <3>1, <3>2, <3>3, GotoKeeps
    <3> QED BY <3>1, <3>4 DEF Inv, Types, SharedT
  <2> QED BY <2>1, <2>2, <2>3
<1>5. AnswerT' /\ requests' \in [Procs -> Seq(RequestRec)] /\ plan' \in [Runners -> Seq(RunnerOps)]
    BY <1>3 DEF Inv, Types, AnswerT, WireT, ChatT
<1> QED BY <1>3, <1>4, <1>5, CallRest

-----------------------------------------------------------------------------
(* Operations that only the runner knows of. *)

\* The types of what they leave alone.
LEMMA OwnRest ==
    ASSUME Inv, Core', RunT', ChatT', pool' \in Procs \cup {0}, poolLock' \in Runners \cup {"nobody", "sweeper"},
           UNCHANGED <<procVars, shared, wireVars, nativeVars, answer, sweeper, swept, boundVars>>
    PROVE  Inv'
<1>1. /\ UNCHANGED <<proc, helper, guardian, owner, shared, requests, lines, mouth, turn, asking, nextTurn>>
      /\ UNCHANGED <<answer, sweeper, swept, timeouts, faults>>
    BY DEF procVars, wireVars, nativeVars, boundVars
<1>2. ProcT' /\ PoolT' /\ MouthT' BY <1>1 DEF Inv, Types, ProcT, PoolT, MouthT
<1>3. WireT' /\ NativeT' /\ BoundT' BY <1>1 DEF Inv, Types, WireT, NativeT, BoundT
<1>4. AnswerT' /\ SharedT' BY <1>1 DEF Inv, Types, AnswerT, SharedT
<1> QED BY <1>2, <1>3, <1>4 DEF Inv, Types

\* start on a warm server, send, and what ends an operation.
LEMMA MoveSteps ==
    ASSUME Inv, NEW r \in Runners, Get(r) \/ Send(r) \/ Fails(r) \/ BootFailed(r) \/ Sent(r) \/ Compacting(r)
    PROVE  Inv'
<1> USE Numbers
<1>1. Placed(runner[r]) /\ runner[r] \in RunRec /\ runner \in [Runners -> RunRec] /\ pool \in Procs \cup {0}
    BY DEF Inv, Core, Used, AtPlaces, Types, RunT, PoolT
<1>2. /\ UNCHANGED <<procVars, shared, wireVars, nativeVars, answer, sweeper, swept, boundVars, pool, ear>>
      /\ poolLock' \in {"nobody", poolLock}
    BY DEF Get, Send, Fails, BootFailed, Sent, Compacting, sharedVars, historyVars
<1>3. UNCHANGED <<proc, pool, swept, ear, answer>> /\ SameHooks BY <1>2 DEF procVars, SameHooks
<1>4. ChatT'
  <2>1. CASE Get(r) \/ Send(r)
    <3>1. plan[r] # << >> /\ Done(r) /\ owed' = owed BY <2>1 DEF Get, Send, Wants, historyVars
    <3>2. plan' \in [Runners -> Seq(RunnerOps)] BY <3>1, DoneType DEF Inv, Types
    <3> QED BY <1>3, <3>1, <3>2 DEF Inv, Types, ChatT
  <2>2. CASE Fails(r) \/ BootFailed(r)
    <3>1. plan' = plan /\ owed' = owed BY <2>2 DEF Fails, BootFailed, historyVars
    <3> QED BY <1>3, <3>1 DEF Inv, Types, ChatT
  <2>3. CASE Sent(r) \/ Compacting(r)
    <3>1. plan' = plan BY <2>3 DEF Sent, Compacting
    <3>2. owed \in [Runners -> Nat] BY DEF Inv, Types, ChatT
    <3>3. PICK k \in {owed[r], owed[r] + 1} : owed' = [owed EXCEPT ![r] = k] BY <2>3, <3>2 DEF Sent, Compacting
    <3>4. k \in Nat BY <3>2, <3>3
    <3>5. owed' \in [Runners -> Nat] BY <3>2, <3>3, <3>4
    <3> QED BY <1>3, <3>1, <3>5 DEF Inv, Types, ChatT
  <2> QED BY <2>1, <2>2, <2>3
<1>5. \E n : /\ Known(r, n) /\ n.pc \notin Waiting /\ n.shared = runner[r].shared
             /\ runner' = [runner EXCEPT ![r] = n]
  <2>1. CASE Get(r)
    <3> DEFINE n == [runner[r] EXCEPT !.pc = "got", !.on = pool]
    <3>1. runner[r].pc = "idle" /\ runner[r].shared = 0 /\ pool # 0 BY <2>1 DEF Get, Wants, Warm
    <3>2. runner' = [runner EXCEPT ![r] = n] BY <2>1, <1>1 DEF Get
    <3>3. n \in RunRec BY <1>1, <3>1 DEF RunRec, Places, StartPlaces
    <3>4. n.pc = "got" /\ n.on = pool /\ n.shared = 0 BY <1>1, <3>1 DEF RunRec
    <3> HIDE DEF n
    <3>5. Placed(n) /\ n.pc \notin Waiting BY <3>1, <3>4 DEF Placed, CallPlaces, Waiting
    <3> QED BY <3>1, <3>2, <3>3, <3>4, <3>5 DEF Known
  <2>2. CASE Send(r)
    <3>1. runner[r].pc = "idle" /\ runner[r].shared # 0 BY <2>2 DEF Send, Wants
    <3>2. runner[r].on = runner[r].shared /\ runner[r].on \in Procs BY <1>1, <3>1 DEF Placed, RunRec
    <3>3. shared[runner[r].on].routes[r] \in Routes BY <3>2 DEF Inv, Types, SharedT, SharedRec
    <3>4. PICK o \in Routes, place \in {"steering", "opening"} :
              runner' = [runner EXCEPT ![r].open = o, ![r].pc = place]
        BY <2>2, <3>3 DEF Send
    <3> DEFINE n == [runner[r] EXCEPT !.open = o, !.pc = place]
    <3>5. runner' = [runner EXCEPT ![r] = n] BY <3>4, <1>1
    <3>6. place \in Places /\ place \in CallPlaces /\ place \notin Waiting
        BY DEF Places, CallPlaces, Waiting
    <3>7. n \in RunRec BY <1>1, <3>6 DEF RunRec
    <3>8. n.pc = place /\ n.on = runner[r].on /\ n.shared = runner[r].shared BY <1>1 DEF RunRec
    <3> HIDE DEF n
    <3>9. Placed(n) BY <3>1, <3>2, <3>4, <3>8 DEF Placed, StartPlaces, BootPlaces
    <3> QED BY <3>1, <3>5, <3>6, <3>7, <3>8, <3>9 DEF Known
  <2>3. CASE Fails(r)
    <3> DEFINE n == [runner[r] EXCEPT !.pc = "idle", !.on = runner[r].shared]
    <3>1. runner[r].pc # "unboot" BY <2>3 DEF Fails, Answered
    <3>2. runner' = [runner EXCEPT ![r] = n] BY <2>3, <1>1 DEF Fails
    <3>3. n \in RunRec BY <1>1 DEF RunRec, Places
    <3>4. n.pc = "idle" /\ n.on = runner[r].shared /\ n.shared = runner[r].shared BY <1>1 DEF RunRec
    <3> HIDE DEF n
    <3>5. Placed(n) /\ n.pc \notin Waiting BY <3>4 DEF Placed, CallPlaces, StartPlaces, BootPlaces, Waiting
    <3> QED BY <3>1, <3>2, <3>3, <3>4, <3>5 DEF Known
  <2>4. CASE BootFailed(r)
    <3> DEFINE n == [runner[r] EXCEPT !.pc = "idle", !.on = 0]
    <3>1. runner[r].pc = "unboot" /\ runner[r].shared = 0 BY <2>4, <1>1 DEF BootFailed, Placed, BootPlaces
    <3>2. runner' = [runner EXCEPT ![r] = n] BY <2>4, <1>1 DEF BootFailed
    <3>3. n \in RunRec BY <1>1 DEF RunRec, Places
    <3>4. n.pc = "idle" /\ n.on = 0 /\ n.shared = 0 BY <1>1, <3>1 DEF RunRec
    <3> HIDE DEF n
    <3>5. Placed(n) /\ n.pc \notin Waiting BY <3>4 DEF Placed, CallPlaces, StartPlaces, BootPlaces, Waiting
    <3> QED BY <3>1, <3>2, <3>3, <3>4, <3>5 DEF Known
  <2>5. CASE Sent(r)
    <3>1. runner[r].pc = "turn" /\ answer[r] # << >> BY <2>5 DEF Sent, Ok, Answered
    <3>2. PICK t \in Turns : t = Head(answer[r]).turn BY <3>1, AnswerHead DEF Inv, Types, AnswerRec
    <3> DEFINE n == [runner[r] EXCEPT !.pc = "idle", !.started = t]
    <3>3. runner' = [runner EXCEPT ![r] = n] BY <2>5, <3>2, <1>1 DEF Sent
    <3>4. n \in RunRec BY <1>1 DEF RunRec, Places
    <3>5. n.pc = "idle" /\ n.on = runner[r].on /\ n.shared = runner[r].shared BY <1>1 DEF RunRec
    <3> HIDE DEF n
    <3>6. runner[r].on = runner[r].shared BY <1>1, <3>1 DEF Placed, CallPlaces
    <3>7. Placed(n) /\ n.pc \notin Waiting BY <3>5, <3>6 DEF Placed, CallPlaces, StartPlaces, BootPlaces, Waiting
    <3> QED BY <3>1, <3>3, <3>4, <3>5, <3>7 DEF Known
  <2>6. CASE Compacting(r)
    <3> DEFINE n == [runner[r] EXCEPT !.pc = "idle"]
    <3>1. runner[r].pc = "compact" BY <2>6 DEF Compacting, Ok, Answered
    <3>2. runner' = [runner EXCEPT ![r] = n] BY <2>6, <1>1 DEF Compacting, Goto
    <3>3. n \in RunRec BY <1>1 DEF RunRec, Places
    <3>4. n.pc = "idle" /\ n.on = runner[r].on /\ n.shared = runner[r].shared BY <1>1 DEF RunRec
    <3> HIDE DEF n
    <3>5. runner[r].on = runner[r].shared BY <1>1, <3>1 DEF Placed, CallPlaces
    <3>6. Placed(n) /\ n.pc \notin Waiting BY <3>4, <3>5 DEF Placed, CallPlaces, StartPlaces, BootPlaces, Waiting
    <3> QED BY <3>1, <3>2, <3>3, <3>4, <3>6 DEF Known
  <2> QED BY <2>1, <2>2, <2>3, <2>4, <2>5, <2>6
<1>6. Core' /\ RunT' BY <1>3, <1>5, QuietMove DEF Inv
<1>7. pool' \in Procs \cup {0} /\ poolLock' \in Runners \cup {"nobody", "sweeper"}
    BY <1>2 DEF Inv, Types, PoolT
<1> QED BY <1>2, <1>4, <1>6, <1>7, OwnRest

\* What there is nothing to do for.
LEMMA SkipKeeps ==
    ASSUME Inv, NEW r \in Runners, Skip(r)
    PROVE  Inv'
<1>1. /\ UNCHANGED <<procVars, sharedVars, wireVars, nativeVars, runner, answer, sweeper, ear, historyVars, boundVars>>
      /\ plan[r] # << >> /\ Done(r)
    BY DEF Skip
<1>2. UNCHANGED <<proc, pool, poolLock, shared, runner, swept, ear, owed, answer>>
    BY <1>1 DEF procVars, sharedVars, historyVars
<1>3. SameHooks BY <1>2 DEF SameHooks
<1>4. Core' BY <1>2, <1>3, Nothing DEF Inv
<1>5. plan' \in [Runners -> Seq(RunnerOps)] BY <1>1, DoneType DEF Inv, Types
<1>6. RunT' /\ ChatT' /\ pool' \in Procs \cup {0} /\ poolLock' \in Runners \cup {"nobody", "sweeper"}
    BY <1>2, <1>5 DEF Inv, Types, RunT, ChatT, PoolT
<1> QED BY <1>1, <1>2, <1>4, <1>6, OwnRest

-----------------------------------------------------------------------------
(* Being attached, and not any more. *)

\* What a server records about itself and others keep in mind, while a runner
\* is hooked or unhooked.
LEMMA HookSteps ==
    ASSUME Inv, NEW r \in Runners, NEW n, NEW g \in Procs, NEW v \in Routes,
           Known(r, n), n.pc = "idle",
           runner' = [runner EXCEPT ![r] = n], shared' = [shared EXCEPT ![g].routes[r] = v],
           \/ n.shared = 0
           \/ n.shared = g /\ v # NoRoute /\ proc[g].reaper # "done",
           \A s \in Runners \ {r} : ear'[s] = ear[s], UNCHANGED <<proc, pool, swept, answer>>
    PROVE  Core' /\ RunT' /\ SharedT'
<1> USE Numbers
<1>1. runner \in [Runners -> RunRec] /\ n \in RunRec /\ shared \in [Procs -> SharedRec] /\ shared[g] \in SharedRec
    BY DEF Inv, Types, RunT, SharedT, Known
<1>2. Used' /\ RunT' BY RunnerMoves DEF Inv, Core
<1>3. runner'[r] = n /\ \A s \in Runners \ {r} : runner'[s] = runner[s] BY <1>1
<1> DEFINE w == [shared[g] EXCEPT !.routes = [shared[g].routes EXCEPT ![r] = v]]
<1>4. shared' = [shared EXCEPT ![g] = w] BY <1>1 DEF SharedRec
<1>5. /\ w \in SharedRec /\ w.routes = [shared[g].routes EXCEPT ![r] = v]
      /\ w.pending = shared[g].pending /\ w.stopping = shared[g].stopping
    BY <1>1 DEF SharedRec
<1> HIDE DEF w
<1>6. SharedT' /\ shared'[g] = w /\ \A h \in Procs \ {g} : shared'[h] = shared[h]
    BY <1>4, <1>5, SharedType DEF Inv, Types
<1>7. shared[g].routes \in [Runners -> Routes] BY <1>1 DEF SharedRec
<1>8. \A h \in Procs : /\ shared'[h].pending = shared[h].pending /\ shared'[h].stopping = shared[h].stopping
                       /\ \A s \in Runners \ {r} : shared'[h].routes[s] = shared[h].routes[s]
    BY <1>5, <1>6, <1>7
<1>9. \A s \in Runners : runner[s].shared \in Procs \cup {0} BY <1>1 DEF RunRec
<1>10. Hooked'
  <2>1. ASSUME NEW s \in Runners, runner'[s].shared # 0 PROVE shared'[runner'[s].shared].routes[s] # NoRoute
    <3>1. CASE s = r
      <4>1. n.shared = g /\ v # NoRoute BY <1>3, <2>1, <3>1
      <4>2. shared'[g].routes[r] = v BY <1>5, <1>6, <1>7
      <4> QED BY <1>3, <3>1, <4>1, <4>2
    <3>2. CASE s # r
      <4>1. runner'[s] = runner[s] /\ runner[s].shared \in Procs BY <1>3, <1>9, <2>1, <3>2
      <4>2. shared[runner[s].shared].routes[s] # NoRoute BY <2>1, <4>1 DEF Inv, Core, Hooked
      <4> QED BY <1>8, <3>2, <4>1, <4>2
    <3> QED BY <3>1, <3>2
  <2>2. \A h \in Procs : shared'[h].stopping => h \in swept' BY <1>8 DEF Inv, Core, Hooked
  <2> QED BY <2>1, <2>2 DEF Hooked
<1>11. Heeded'
  <2> SUFFICES ASSUME NEW s \in Runners, runner'[s].shared # 0, proc[runner'[s].shared].reaper = "done"
               PROVE  Told(s)' \/ runner'[s].shared \in swept
      BY DEF Heeded
  <2>1. s # r /\ runner'[s] = runner[s] BY <1>3
  <2>2. Told(s) \/ runner[s].shared \in swept BY <2>1 DEF Inv, Core, Heeded
  <2> QED BY <2>1, <2>2 DEF Told
<1>12. Registered'
  <2> SUFFICES ASSUME NEW s \in Runners, runner'[s].pc \in Waiting, answer[s] = << >>
               PROVE  <<s, runner'[s].id>> \in shared'[runner'[s].on].pending
      BY DEF Registered
  <2>1. s # r /\ runner'[s] = runner[s] BY <1>3 DEF Waiting
  <2>2. runner[s].on \in Procs
      BY <1>1, <2>1 DEF Inv, Core, Used, AtPlaces, Placed, Waiting, CallPlaces, StartPlaces, BootPlaces, RunRec
  <2>3. <<s, runner[s].id>> \in shared[runner[s].on].pending BY <2>1 DEF Inv, Core, Registered
  <2> QED BY <1>8, <2>1, <2>2, <2>3
<1>13. Cleared' BY <1>8 DEF Inv, Core, Cleared
<1>14. Reaped' BY DEF Inv, Core, Reaped
<1> QED BY <1>2, <1>6, <1>10, <1>11, <1>12, <1>13, <1>14 DEF Core

\* stop.
LEMMA StopKeeps ==
    ASSUME Inv, NEW r \in Runners, Stop(r)
    PROVE  Inv'
<1> USE Numbers
<1>1. runner[r] \in RunRec /\ runner \in [Runners -> RunRec] BY DEF Inv, Types, RunT
<1>2. /\ runner[r].pc = "idle" /\ plan[r] # << >> /\ runner[r].shared # 0 /\ Done(r)
      /\ shared' = [shared EXCEPT ![runner[r].shared].routes[r] = NoRoute]
      /\ runner' = [runner EXCEPT ![r].shared = 0, ![r].on = 0]
      /\ UNCHANGED <<procVars, pool, poolLock, wireVars, nativeVars, answer, sweeper, ear, historyVars, boundVars>>
    BY DEF Stop, Wants
<1>3. UNCHANGED <<proc, pool, swept, answer, ear>> BY <1>2 DEF procVars, historyVars
<1> DEFINE n == [runner[r] EXCEPT !.shared = 0, !.on = 0]
<1>4. runner' = [runner EXCEPT ![r] = n] BY <1>1, <1>2
<1>5. n \in RunRec /\ n.pc = "idle" /\ n.shared = 0 /\ n.on = 0 BY <1>1, <1>2 DEF RunRec
<1> HIDE DEF n
<1>6. Known(r, n) BY <1>2, <1>5 DEF Known, Placed, CallPlaces, StartPlaces, BootPlaces
<1>7. runner[r].shared \in Procs BY <1>1, <1>2 DEF RunRec
<1>8. Core' /\ RunT' /\ SharedT' BY <1>2, <1>3, <1>4, <1>5, <1>6, <1>7, HookSteps
<1>9. plan' \in [Runners -> Seq(RunnerOps)] BY <1>2, DoneType DEF Inv, Types
<1>10. AnswerT' /\ requests' \in [Procs -> Seq(RequestRec)] BY <1>2 DEF wireVars, Inv, Types, AnswerT, WireT
<1>11. UNCHANGED <<procVars, pool, poolLock, lines, mouth, nativeVars, sweeper, ear, historyVars, boundVars>>
    BY <1>2 DEF wireVars
<1> QED BY <1>8, <1>9, <1>10, <1>11, CallRest

\* attach, which looks whether the server still lives.
LEMMA AttachKeeps ==
    ASSUME Inv, NEW r \in Runners, Attach(r)
    PROVE  Inv'
<1> USE Numbers
<1>1. runner[r] \in RunRec /\ runner \in [Runners -> RunRec] BY DEF Inv, Types, RunT
<1>2. /\ runner[r].pc = "attach"
      /\ UNCHANGED <<procVars, pool, poolLock, wireVars, nativeVars, answer, plan, sweeper, swept, boundVars>>
    BY DEF Attach
<1>3. UNCHANGED <<proc, pool, swept, answer>> BY <1>2 DEF procVars
<1>4. runner[r].shared = 0 /\ runner[r].on \in Procs
    BY <1>1, <1>2 DEF Inv, Core, Used, AtPlaces, Placed, StartPlaces, RunRec
<1>5. ChatT /\ SharedT /\ PoolT BY DEF Inv, Types
<1>6. CASE Alive(runner[r].on)
  <2>1. /\ shared' = [shared EXCEPT ![runner[r].on].routes[r] = 0]
        /\ runner' = [runner EXCEPT ![r].pc = "idle", ![r].shared = runner[r].on, ![r].started = 0]
        /\ ear' = [ear EXCEPT ![r] = << >>] /\ owed' = [owed EXCEPT ![r] = 0]
      BY <1>6 DEF Attach, MayAttach
  <2> DEFINE n == [runner[r] EXCEPT !.pc = "idle", !.shared = runner[r].on, !.started = 0]
  <2>2. runner' = [runner EXCEPT ![r] = n] BY <1>1, <2>1
  <2>3. n \in RunRec BY <1>1, <1>4 DEF RunRec, Places
  <2>4. n.pc = "idle" /\ n.shared = runner[r].on /\ n.on = runner[r].on BY <1>1, <1>4 DEF RunRec
  <2> HIDE DEF n
  <2>5. Known(r, n) BY <1>2, <2>3, <2>4 DEF Known, Placed, CallPlaces, StartPlaces, BootPlaces
  <2>6. proc[runner[r].on].reaper = "wait" BY <1>4, <1>6 DEF Inv, Core, Reaped, Sound, Alive
  <2>7. \A s \in Runners \ {r} : ear'[s] = ear[s] BY <1>5, <2>1 DEF ChatT
  <2>8. 0 \in Routes /\ 0 # NoRoute OBVIOUS
  <2>9. Core' /\ RunT' /\ SharedT' BY <1>3, <1>4, <2>1, <2>2, <2>4, <2>5, <2>6, <2>7, <2>8, HookSteps
  <2>10. ChatT' BY <1>2, <1>5, <2>1 DEF ChatT
  <2>11. /\ UNCHANGED <<proc, helper, guardian, owner, pool, poolLock, requests, lines, mouth, turn, asking, nextTurn>>
         /\ UNCHANGED <<answer, sweeper, swept, timeouts, faults>>
      BY <1>2 DEF procVars, wireVars, nativeVars, boundVars
  <2>12. ProcT' /\ PoolT' /\ MouthT' BY <2>11 DEF Inv, Types, ProcT, PoolT, MouthT
  <2>13. WireT' /\ NativeT' /\ BoundT' /\ AnswerT' BY <2>11 DEF Inv, Types, WireT, NativeT, BoundT, AnswerT
  <2> QED BY <2>9, <2>10, <2>12, <2>13 DEF Inv, Types
<1>7. CASE ~Alive(runner[r].on)
  <2>1. Goto(r, "failed") /\ UNCHANGED <<shared, ear, owed>> BY <1>7 DEF Attach, MayAttach
  <2>2. SameHooks BY <2>1 DEF SameHooks
  <2>3. Core' /\ RunT' BY <1>2, <1>3, <2>1, <2>2, GotoKeeps
  <2>4. ChatT' BY <1>2, <1>5, <2>1 DEF ChatT
  <2>5. pool' \in Procs \cup {0} /\ poolLock' \in Runners \cup {"nobody", "sweeper"} BY <1>2, <1>5 DEF PoolT
  <2> QED BY <1>2, <2>1, <2>3, <2>4, <2>5, OwnRest
<1> QED BY <1>6, <1>7

-----------------------------------------------------------------------------
(* Calls that end, and the callbacks. *)

\* A call is taken off the list of those that wait, as it is answered.
LEMMA AnswerSteps ==
    ASSUME Inv, NEW r \in Runners, NEW id \in Nat, NEW g \in Procs, NEW a \in AnswerRec,
           shared' = [shared EXCEPT ![g].pending = @ \ {<<r, id>>}],
           answer' = [answer EXCEPT ![r] = <<a>>],
           UNCHANGED <<runner, proc, pool, swept, ear>>
    PROVE  Core' /\ AnswerT' /\ SharedT'
<1> USE Numbers
<1>1. shared[g] \in SharedRec /\ shared \in [Procs -> SharedRec] BY DEF Inv, Types, SharedT
<1> DEFINE w == [shared[g] EXCEPT !.pending = shared[g].pending \ {<<r, id>>}]
<1>2. shared' = [shared EXCEPT ![g] = w] BY <1>1
<1>3. /\ w \in SharedRec /\ w.routes = shared[g].routes /\ w.stopping = shared[g].stopping
      /\ w.pending = shared[g].pending \ {<<r, id>>}
    BY <1>1 DEF SharedRec
<1> HIDE DEF w
<1>4. SharedT' /\ shared'[g] = w /\ \A h \in Procs \ {g} : shared'[h] = shared[h]
    BY <1>2, <1>3, SharedType DEF Inv, Types
<1>5. AnswerT' /\ answer'[r] # << >> /\ \A s \in Runners \ {r} : answer'[s] = answer[s]
    BY AnswerType DEF Inv, Types
<1>6. \A h \in Procs : /\ shared'[h].pending \subseteq shared[h].pending
                       /\ shared[h].pending \subseteq shared'[h].pending \cup {<<r, id>>}
                       /\ shared'[h].routes = shared[h].routes /\ shared'[h].stopping = shared[h].stopping
    BY <1>3, <1>4
<1>7. runner \in [Runners -> RunRec] BY DEF Inv, Types, RunT
<1>8. \A s \in Runners : runner[s].shared \in Procs \cup {0} BY <1>7 DEF RunRec
<1>9. Used' BY DEF Inv, Core, Used, AtPlaces, Started, OwnServer, PutDown
<1>10. Hooked' BY <1>6, <1>8 DEF Inv, Core, Hooked
<1>11. Heeded' BY DEF Inv, Core, Heeded, Told
<1>12. Registered'
  <2> SUFFICES ASSUME NEW s \in Runners, runner[s].pc \in Waiting, answer'[s] = << >>
               PROVE  <<s, runner[s].id>> \in shared'[runner[s].on].pending
      BY DEF Registered
  <2>1. s # r /\ answer[s] = << >> BY <1>5
  <2>2. runner[s].on \in Procs
      BY <1>7 DEF Inv, Core, Used, AtPlaces, Placed, Waiting, CallPlaces, StartPlaces, BootPlaces, RunRec
  <2>3. <<s, runner[s].id>> \in shared[runner[s].on].pending BY <2>1 DEF Inv, Core, Registered
  <2>4. <<s, runner[s].id>> # <<r, id>> BY <2>1
  <2> QED BY <1>6, <2>2, <2>3, <2>4
<1>13. Reaped' /\ Cleared' BY <1>6 DEF Inv, Core, Reaped, Cleared
<1> QED BY <1>4, <1>5, <1>9, <1>10, <1>11, <1>12, <1>13 DEF Core

\* A deadline passes.
LEMMA TimeoutKeeps ==
    ASSUME Inv, NEW r \in Runners, Timeout(r)
    PROVE  Inv'
<1> USE Numbers
<1>1. runner[r] \in RunRec BY DEF Inv, Types, RunT
<1>2. /\ runner[r].pc \in Waiting /\ timeouts < MaxTimeouts /\ timeouts' = timeouts + 1
      /\ shared' = [shared EXCEPT ![runner[r].on].pending = @ \ {<<r, runner[r].id>>}]
      /\ answer' = [answer EXCEPT ![r] = <<Failure>>]
      /\ UNCHANGED <<procVars, pool, poolLock, wireVars, nativeVars, runner, plan, sweeper, ear, historyVars, faults>>
    BY WaitsIs DEF Timeout
<1>3. runner[r].on \in Procs /\ runner[r].id \in Nat
    BY <1>1, <1>2 DEF Inv, Core, Used, AtPlaces, Placed, Waiting, CallPlaces, StartPlaces, BootPlaces, RunRec
<1>4. Failure \in AnswerRec BY DEF Failure, AnswerRec, Turns
<1>5. /\ UNCHANGED <<proc, helper, guardian, owner, pool, poolLock, requests, lines, mouth, turn, asking, nextTurn>>
      /\ UNCHANGED <<runner, plan, sweeper, ear, owed, swept, faults>>
    BY <1>2 DEF procVars, wireVars, nativeVars, historyVars
<1>6. Core' /\ AnswerT' /\ SharedT' BY <1>2, <1>3, <1>4, <1>5, AnswerSteps
<1>7. BoundT' BY <1>2, <1>5 DEF Inv, Types, BoundT
<1>8. ProcT' /\ PoolT' /\ MouthT' /\ RunT' BY <1>5 DEF Inv, Types, ProcT, PoolT, MouthT, RunT
<1>9. WireT' /\ NativeT' /\ ChatT' BY <1>5 DEF Inv, Types, WireT, NativeT, ChatT
<1> QED BY <1>6, <1>7, <1>8, <1>9 DEF Inv, Types

\* A line that is heard is one, and the rest are left.
LEMMA LineHeard ==
    ASSUME WireT, NEW g \in Procs, lines[g] # << >>
    PROVE  Head(lines[g]) \in LineRec /\ Tail(lines[g]) \in Seq(LineRec)
<1>1. lines[g] \in Seq(LineRec) BY DEF WireT
<1> QED BY <1>1

\* The types that a callback of the pump leaves alone.
LEMMA HearRest ==
    ASSUME Inv, Core', ProcT', MouthT', SharedT', AnswerT', NEW g \in Procs, lines[g] # << >>,
           lines' \in {[lines EXCEPT ![g] = Tail(@)], [lines EXCEPT ![g] = << >>]},
           UNCHANGED <<pool, poolLock, requests, nativeVars, runner, plan, sweeper, ear, historyVars, boundVars>>
    PROVE  Inv'
<1>1. UNCHANGED <<pool, poolLock, requests, turn, asking, nextTurn, runner, plan, sweeper, ear, owed, swept, timeouts, faults>>
    BY DEF nativeVars, historyVars, boundVars
<1>2. WireT'
  <2>1. Tail(lines[g]) \in Seq(LineRec) /\ << >> \in Seq(LineRec) BY LineHeard DEF Inv, Types
  <2>2. lines \in [Procs -> Seq(LineRec)] /\ requests \in [Procs -> Seq(RequestRec)] BY DEF Inv, Types, WireT
  <2>3. lines' \in [Procs -> Seq(LineRec)] BY <2>1, <2>2
  <2> QED BY <1>1, <2>2, <2>3 DEF WireT
<1>3. PoolT' /\ NativeT' /\ ChatT' /\ RunT' /\ BoundT' BY <1>1 DEF Inv, Types, PoolT, NativeT, ChatT, RunT, BoundT
<1> QED BY <1>2, <1>3 DEF Inv, Types

\* A line that is dropped, a response and a request of the server's.
LEMMA HearSteps ==
    ASSUME Inv, NEW g \in Procs, Dropped(g) \/ HearReply(g) \/ HearAsk(g)
    PROVE  Inv'
<1> USE Numbers
<1>1. /\ lines[g] # << >> /\ lines' \in {[lines EXCEPT ![g] = Tail(@)], [lines EXCEPT ![g] = << >>]}
      /\ UNCHANGED <<procVars, pool, poolLock, requests, mouth, nativeVars, runner, plan, sweeper, ear, historyVars, boundVars>>
    BY DEF Dropped, HearReply, HearAsk, Hearing, Heard, sharedVars, runnerVars
<1>2. UNCHANGED <<proc, helper, guardian, owner, mouth, pool, swept, ear, runner>> BY <1>1 DEF procVars, historyVars
<1>3. ProcT' /\ MouthT' BY <1>2 DEF Inv, Types, ProcT, MouthT
<1>4. Core' /\ SharedT' /\ AnswerT'
  <2>1. CASE UNCHANGED <<shared, answer>>
    <3>1. SameHooks BY <2>1 DEF SameHooks
    <3>2. Core' BY <1>2, <2>1, <3>1, Nothing DEF Inv
    <3> QED BY <2>1, <3>2 DEF Inv, Types, SharedT, AnswerT
  <2>2. CASE HearReply(g) /\ ~UNCHANGED <<shared, answer>>
    <3>1. PICK m : m = Head(lines[g]) OBVIOUS
    <3>2. m \in LineRec /\ m.kind = "reply"
        BY <1>1, <2>2, <3>1, LineHeard DEF HearReply, Hearing, Inv, Types
    <3>3. m \in ReplyRec BY <3>2 DEF LineRec, NoteRec
    <3>4. /\ shared' = [shared EXCEPT ![g].pending = @ \ {<<m.to, m.id>>}]
          /\ answer' = [answer EXCEPT ![m.to] = <<[ok |-> m.ok, turn |-> m.turn]>>]
        BY <2>2, <3>1 DEF HearReply
    <3>5. m.to \in Runners /\ m.id \in Nat /\ [ok |-> m.ok, turn |-> m.turn] \in AnswerRec
        BY <3>3 DEF ReplyRec, AnswerRec
    <3> QED BY <1>2, <3>4, <3>5, AnswerSteps
  <2>3. CASE HearAsk(g)
    <3>1. shared \in [Procs -> SharedRec] /\ shared[g] \in SharedRec BY DEF Inv, Types, SharedT
    <3> DEFINE w == [shared[g] EXCEPT !.declines = shared[g].declines + 1]
    <3>2. shared' = [shared EXCEPT ![g] = w] /\ answer' = answer BY <2>3, <3>1 DEF HearAsk, runnerVars
    <3>3. /\ w \in SharedRec /\ w.routes = shared[g].routes /\ w.pending = shared[g].pending
          /\ w.stopping = shared[g].stopping
        BY <3>1 DEF SharedRec
    <3> HIDE DEF w
    <3>4. SharedT' /\ SameHooks BY <3>1, <3>2, <3>3, SharedType DEF SameHooks, SharedT
    <3>5. Core' BY <1>2, <3>2, <3>4, Nothing DEF Inv
    <3> QED BY <3>2, <3>4, <3>5 DEF Inv, Types, AnswerT
  <2>4. CASE Dropped(g)
    <3>1. UNCHANGED <<shared, answer>> BY <2>4 DEF Dropped, sharedVars, runnerVars
    <3> QED BY <2>1, <3>1
  <2> QED BY <2>1, <2>2, <2>3, <2>4
<1> QED BY <1>1, <1>3, <1>4, HearRest

\* What the server asks is declined.
LEMMA DeclineKeeps ==
    ASSUME Inv, NEW g \in Procs, Decline(g)
    PROVE  Inv'
<1>1. shared \in [Procs -> SharedRec] /\ shared[g] \in SharedRec BY DEF Inv, Types, SharedT
<1>2. /\ shared[g].declines > 0
      /\ shared' = [shared EXCEPT ![g].declines = IF Writable(g) THEN @ - 1 ELSE 0]
      /\ asking' = IF Writable(g) THEN asking \ {g} ELSE asking
      /\ UNCHANGED <<procVars, pool, poolLock, wireVars, turn, nextTurn, runnerVars, sweeper, ear, historyVars, boundVars>>
    BY DEF Decline
<1>3. PICK k \in Nat : k = IF Writable(g) THEN shared[g].declines - 1 ELSE 0
  <2>1. shared[g].declines \in Nat BY <1>1 DEF SharedRec
  <2> QED BY <1>2, <2>1
<1> DEFINE w == [shared[g] EXCEPT !.declines = k]
<1>4. shared' = [shared EXCEPT ![g] = w] BY <1>1, <1>2, <1>3
<1>5. /\ w \in SharedRec /\ w.routes = shared[g].routes /\ w.pending = shared[g].pending
      /\ w.stopping = shared[g].stopping
    BY <1>1 DEF SharedRec
<1> HIDE DEF w
<1>6. SharedT' /\ SameHooks BY <1>1, <1>4, <1>5, SharedType DEF SameHooks, SharedT
<1>7. /\ UNCHANGED <<proc, helper, guardian, owner, pool, poolLock, requests, lines, mouth, turn, nextTurn>>
      /\ UNCHANGED <<runner, answer, plan, sweeper, ear, owed, swept, timeouts, faults>>
    BY <1>2 DEF procVars, wireVars, runnerVars, historyVars, boundVars
<1>8. Core' BY <1>6, <1>7, Nothing DEF Inv
<1>9. ProcT' /\ PoolT' /\ MouthT' /\ RunT' BY <1>7 DEF Inv, Types, ProcT, PoolT, MouthT, RunT
<1>10. WireT' /\ ChatT' /\ AnswerT' /\ BoundT' BY <1>7 DEF Inv, Types, WireT, ChatT, AnswerT, BoundT
<1>11. NativeT' BY <1>2, <1>7 DEF Inv, Types, NativeT
<1> QED BY <1>6, <1>8, <1>9, <1>10, <1>11 DEF Inv, Types

\* Who uses which server does not depend on how far its threads are.
LEMMA UsedStays ==
    ASSUME Types, Used, NEW g \in Procs, NEW b \in ProcRec, b.os = proc[g].os, b.stop = proc[g].stop,
           proc' = [proc EXCEPT ![g] = b], UNCHANGED <<runner, pool, swept>>
    PROVE  Used' /\ proc'[g] = b /\ \A h \in Procs \ {g} : proc'[h] = proc[h]
<1> USE Numbers
<1>1. proc'[g] = b /\ \A h \in Procs \ {g} : proc'[h] = proc[h] BY DEF Types, ProcT
<1>2. \A h \in Procs : proc'[h].os = proc[h].os /\ proc'[h].stop = proc[h].stop BY <1>1
<1>3. pool \in Procs \cup {0} /\ \A s \in Runners : runner[s].shared \in Procs \cup {0} /\ runner[s].on \in Procs \cup {0}
    BY DEF Types, PoolT, RunT, RunRec
<1>4. AtPlaces' /\ OwnServer' BY DEF Used, AtPlaces, OwnServer
<1>5. Started' BY <1>2, <1>3 DEF Used, Started
<1>6. PutDown' BY <1>2 DEF Used, PutDown
<1> QED BY <1>1, <1>4, <1>5, <1>6 DEF Used

\* A chat that was told stays told, whatever else it hears.
LEMMA ToldStays ==
    ASSUME ChatT, NEW r \in Runners, NEW e \in HeardRec, ear'[r] \in {ear[r], Append(ear[r], e)},
           runner'[r].shared = runner[r].shared
    PROVE  Told(r) => Told(r)'
<1> SUFFICES ASSUME Told(r) PROVE Told(r)' OBVIOUS
<1>1. ear[r] \in Seq(HeardRec) BY DEF ChatT
<1>2. PICK i \in DOMAIN ear[r] : ear[r][i] = [kind |-> "crash", from |-> runner[r].shared] BY DEF Told
<1>3. i \in DOMAIN ear'[r] /\ ear'[r][i] = ear[r][i] BY <1>1
<1> QED BY <1>2, <1>3 DEF Told

\* What is heard has its type.
LEMMA EarType ==
    ASSUME ChatT, NEW r \in Runners, NEW e \in HeardRec
    PROVE  Append(ear[r], e) \in Seq(HeardRec)
<1>1. ear[r] \in Seq(HeardRec) BY DEF ChatT
<1> QED BY <1>1

\* A notification: the route of its thread knows of the turn, or forgets it.
LEMMA HearNoteKeeps ==
    ASSUME Inv, NEW g \in Procs, HearNote(g)
    PROVE  Inv'
<1> USE Numbers
<1>1. /\ lines[g] # << >> /\ lines' = [lines EXCEPT ![g] = Tail(@)]
      /\ proc[g].pump = "idle" /\ proc[g].gate
      /\ UNCHANGED <<helper, guardian, owner, pool, poolLock, requests, nativeVars, runnerVars, sweeper, ear, historyVars, boundVars>>
    BY DEF HearNote, Hearing, Heard
<1>2. UNCHANGED <<runner, answer, plan, pool, swept, ear>> BY <1>1 DEF runnerVars, historyVars
<1>3. PICK m : m = Head(lines[g]) OBVIOUS
<1>4. m \in LineRec /\ m.kind = "note" BY <1>1, <1>3, LineHeard DEF HearNote, Hearing, Inv, Types
<1>5. m.to \in Runners /\ m.turn \in Turns BY <1>4 DEF LineRec, NoteRec, ReplyRec
<1>6. Core' /\ ProcT' /\ MouthT' /\ SharedT'
  <2>1. CASE shared[g].routes[m.to] = NoRoute
    <3>1. UNCHANGED <<proc, shared, mouth>> BY <1>3, <2>1 DEF HearNote
    <3>2. SameHooks BY <3>1 DEF SameHooks
    <3>3. Core' BY <1>2, <3>1, <3>2, Nothing DEF Inv
    <3> QED BY <1>1, <3>1, <3>3 DEF Inv, Types, ProcT, MouthT, SharedT
  <2>2. CASE shared[g].routes[m.to] # NoRoute
    <3>1. PICK v \in Turns, s \in {<< >>, <<m.to>>}, u \in {"idle", "calling"} :
              /\ shared' = [shared EXCEPT ![g].routes[m.to] = v]
              /\ mouth' = [mouth EXCEPT ![g] = s] /\ proc' = [proc EXCEPT ![g].pump = u]
              /\ s # << >> <=> u = "calling"
      <4>1. CASE m.what = "started" BY <1>3, <1>5, <2>2, <4>1 DEF HearNote
      <4>2. CASE m.what # "started" BY <1>3, <1>5, <2>2, <4>2 DEF HearNote
      <4> QED BY <4>1, <4>2
    <3>2. v \in Routes /\ v # NoRoute BY DEF Turns, Routes
    <3>3. shared \in [Procs -> SharedRec] /\ shared[g] \in SharedRec BY DEF Inv, Types, SharedT
    <3> DEFINE w == [shared[g] EXCEPT !.routes = [shared[g].routes EXCEPT ![m.to] = v]]
               b == [proc[g] EXCEPT !.pump = u]
    <3>4. shared' = [shared EXCEPT ![g] = w] BY <3>1, <3>3 DEF SharedRec
    <3>5. /\ w \in SharedRec /\ w.routes = [shared[g].routes EXCEPT ![m.to] = v]
          /\ w.pending = shared[g].pending /\ w.stopping = shared[g].stopping
        BY <1>5, <3>2, <3>3 DEF SharedRec
    <3>6. proc \in [Procs -> ProcRec] /\ proc[g] \in ProcRec BY DEF Inv, Types, ProcT
    <3>7. proc' = [proc EXCEPT ![g] = b] BY <3>1, <3>6
    <3>8. /\ b \in ProcRec /\ b.os = proc[g].os /\ b.stop = proc[g].stop /\ b.reaper = proc[g].reaper
          /\ b.running = proc[g].running /\ b.gate = proc[g].gate /\ b.pump = u
        BY <3>6 DEF ProcRec
    <3> HIDE DEF w, b
    <3>9. SharedT' /\ shared'[g] = w /\ \A h \in Procs \ {g} : shared'[h] = shared[h]
        BY <3>4, <3>5, SharedType DEF Inv, Types
    <3>10. Used' /\ proc'[g] = b /\ \A h \in Procs \ {g} : proc'[h] = proc[h]
        BY <1>2, <3>7, <3>8, UsedStays DEF Inv, Core
    <3>11. \A h \in Procs : /\ proc'[h].reaper = proc[h].reaper /\ proc'[h].stop = proc[h].stop
                            /\ shared'[h].pending = shared[h].pending /\ shared'[h].stopping = shared[h].stopping
        BY <3>5, <3>8, <3>9, <3>10
    <3>12. \A s2 \in Runners : runner[s2].shared \in Procs \cup {0} /\ runner[s2].on \in Procs \cup {0}
        BY DEF Inv, Types, RunT, RunRec
    <3>13. \A h \in Procs : \A s2 \in Runners : shared[h].routes[s2] # NoRoute => shared'[h].routes[s2] # NoRoute
      <4>1. shared[g].routes \in [Runners -> Routes] BY <3>3 DEF SharedRec
      <4> QED BY <3>2, <3>5, <3>9, <4>1
    <3>14. Hooked' BY <1>2, <3>11, <3>12, <3>13 DEF Inv, Core, Hooked
    <3>15. Heeded' BY <1>2, <3>11, <3>12 DEF Inv, Core, Heeded, Told
    <3>16. Registered'
      <4>1. \A s2 \in Runners : runner[s2].pc \in Waiting => runner[s2].on # 0
          BY DEF Inv, Core, Used, AtPlaces, Placed, Waiting, CallPlaces, StartPlaces, BootPlaces
      <4> QED BY <1>2, <3>11, <3>12, <4>1 DEF Inv, Core, Registered
    <3>17. Cleared' BY <3>11 DEF Inv, Core, Cleared
    <3>18. Reaped'
      <4>1. \A h \in Procs : Sound(proc[h]) BY DEF Inv, Core, Reaped
      <4>2. Sound(b) BY <1>1, <3>8, <4>1 DEF Sound
      <4> QED BY <3>10, <4>1, <4>2 DEF Reaped
    <3>19. ProcT' BY <1>1, <3>6, <3>7, <3>8 DEF Inv, Types, ProcT
    <3>20. MouthT'
      <4>1. s \in Short(Runners)
        <5>1. << >> \in Seq(Runners) /\ Len(<< >>) = 0 OBVIOUS
        <5>2. <<m.to>> \in Seq(Runners) /\ Len(<<m.to>>) = 1 BY <1>5
        <5>3. << >> \in Short(Runners) /\ <<m.to>> \in Short(Runners) BY <5>1, <5>2 DEF Short
        <5>4. s = << >> \/ s = <<m.to>> OBVIOUS
        <5> QED BY <5>3, <5>4
      <4>2. mouth \in [Procs -> Short(Runners)] /\ \A h \in Procs : mouth[h] # << >> <=> proc[h].pump = "calling"
          BY DEF Inv, Types, MouthT
      <4>3. mouth' \in [Procs -> Short(Runners)] BY <3>1, <4>1, <4>2
      <4>4. mouth'[g] = s /\ \A h \in Procs \ {g} : mouth'[h] = mouth[h] BY <3>1, <4>2
      <4>5. \A h \in Procs : mouth'[h] # << >> <=> proc'[h].pump = "calling"
          BY <3>1, <3>8, <3>10, <4>2, <4>4
      <4> QED BY <4>3, <4>5 DEF MouthT
    <3> QED BY <3>9, <3>10, <3>14, <3>15, <3>16, <3>17, <3>18, <3>19, <3>20 DEF Core
  <2> QED BY <2>1, <2>2
<1>7. AnswerT' BY <1>2 DEF Inv, Types, AnswerT
<1> QED BY <1>1, <1>2, <1>6, <1>7, HearRest

\* The end of a turn is told to the chat of its thread.
LEMMA EmitKeeps ==
    ASSUME Inv, NEW g \in Procs, Emit(g)
    PROVE  Inv'
<1> USE Numbers
<1>1. /\ proc[g].pump = "calling"
      /\ ear' = [ear EXCEPT ![Head(mouth[g])] = Append(@, [kind |-> "end", from |-> g])]
      /\ mouth' = [mouth EXCEPT ![g] = << >>] /\ proc' = [proc EXCEPT ![g].pump = "idle"]
      /\ UNCHANGED <<helper, guardian, owner, sharedVars, requests, lines, nativeVars, runnerVars, sweeper, historyVars, boundVars>>
    BY DEF Emit, Hears
<1>2. /\ UNCHANGED <<helper, guardian, owner, pool, poolLock, shared, requests, lines, turn, asking, nextTurn>>
      /\ UNCHANGED <<runner, answer, plan, sweeper, owed, swept, timeouts, faults>>
    BY <1>1 DEF sharedVars, nativeVars, runnerVars, historyVars, boundVars
<1>3. PICK r \in Runners : r = Head(mouth[g])
  <2>1. mouth[g] \in Seq(Runners) /\ mouth[g] # << >> BY <1>1 DEF Inv, Types, MouthT, Short
  <2> QED BY <2>1
<1>4. PICK e \in HeardRec : e = [kind |-> "end", from |-> g] BY DEF HeardRec
<1>5. ear \in [Runners -> Seq(HeardRec)] /\ ChatT BY DEF Inv, Types, ChatT
<1>6. ear' = [ear EXCEPT ![r] = Append(ear[r], e)] BY <1>1, <1>3, <1>4
<1>7. Append(ear[r], e) \in Seq(HeardRec) BY <1>5, EarType
<1>8. ChatT' BY <1>2, <1>5, <1>6, <1>7 DEF ChatT
<1>9. \A s \in Runners : ear'[s] \in {ear[s], Append(ear[s], e)} BY <1>5, <1>6
<1>10. proc \in [Procs -> ProcRec] /\ proc[g] \in ProcRec BY DEF Inv, Types, ProcT
<1> DEFINE b == [proc[g] EXCEPT !.pump = "idle"]
<1>11. proc' = [proc EXCEPT ![g] = b] BY <1>1, <1>10
<1>12. /\ b \in ProcRec /\ b.os = proc[g].os /\ b.stop = proc[g].stop /\ b.reaper = proc[g].reaper
       /\ b.running = proc[g].running /\ b.gate = proc[g].gate /\ b.pump = "idle"
    BY <1>10 DEF ProcRec
<1> HIDE DEF b
<1>13. Used' /\ proc'[g] = b /\ \A h \in Procs \ {g} : proc'[h] = proc[h]
    BY <1>2, <1>11, <1>12, UsedStays DEF Inv, Core
<1>14. \A h \in Procs : proc'[h].reaper = proc[h].reaper /\ proc'[h].stop = proc[h].stop BY <1>12, <1>13
<1>15. \A s \in Runners : runner[s].shared \in Procs \cup {0} BY DEF Inv, Types, RunT, RunRec
<1>16. Hooked' /\ Registered' BY <1>2 DEF Inv, Core, Hooked, Registered
<1>17. Heeded'
  <2> SUFFICES ASSUME NEW s \in Runners, runner'[s].shared # 0, proc'[runner'[s].shared].reaper = "done"
               PROVE  Told(s)' \/ runner'[s].shared \in swept'
      BY DEF Heeded
  <2>1. Told(s) \/ runner[s].shared \in swept BY <1>2, <1>14, <1>15 DEF Inv, Core, Heeded
  <2>2. Told(s) => Told(s)' BY <1>2, <1>5, <1>9, ToldStays
  <2> QED BY <1>2, <2>1, <2>2
<1>18. Cleared' BY <1>2, <1>14 DEF Inv, Core, Cleared
<1>19. Reaped' BY <1>12, <1>13 DEF Inv, Core, Reaped, Sound
<1>20. ProcT' BY <1>2, <1>10, <1>11, <1>12 DEF Inv, Types, ProcT
<1>21. MouthT'
  <2>1. << >> \in Short(Runners) BY DEF Short
  <2>2. mouth \in [Procs -> Short(Runners)] /\ \A h \in Procs : mouth[h] # << >> <=> proc[h].pump = "calling"
      BY DEF Inv, Types, MouthT
  <2>3. mouth' \in [Procs -> Short(Runners)] BY <1>1, <2>1, <2>2
  <2>4. mouth'[g] = << >> /\ \A h \in Procs \ {g} : mouth'[h] = mouth[h] BY <1>1, <2>2
  <2>5. \A h \in Procs : mouth'[h] # << >> <=> proc'[h].pump = "calling" BY <1>12, <1>13, <2>2, <2>4
  <2> QED BY <2>3, <2>5 DEF MouthT
<1>22. PoolT' /\ WireT' /\ NativeT' /\ RunT' /\ AnswerT' /\ SharedT' /\ BoundT'
    BY <1>2 DEF Inv, Types, PoolT, WireT, NativeT, RunT, AnswerT, SharedT, BoundT
<1> QED BY <1>8, <1>13, <1>16, <1>17, <1>18, <1>19, <1>20, <1>21, <1>22 DEF Inv, Types, Core

\* The reaper's callback: who waits for an answer gets a failure.
LEMMA OnExitKeeps ==
    ASSUME Inv, NEW g \in Procs, OnExit(g)
    PROVE  Inv'
<1> USE Numbers
<1>1. /\ proc[g].reaper = "calling" /\ proc' = [proc EXCEPT ![g].reaper = "telling"]
      /\ shared' = [shared EXCEPT ![g].pending = {}]
      /\ answer' = [r \in Runners |-> IF r \in Orphaned(g) THEN <<Failure>> ELSE answer[r]]
      /\ UNCHANGED <<helper, guardian, owner, pool, poolLock, wireVars, nativeVars, runner, plan, sweeper, ear, historyVars, boundVars>>
    BY DEF OnExit
<1>2. /\ UNCHANGED <<helper, guardian, owner, pool, poolLock, requests, lines, mouth, turn, asking, nextTurn>>
      /\ UNCHANGED <<runner, plan, sweeper, ear, owed, swept, timeouts, faults>>
    BY <1>1 DEF wireVars, nativeVars, historyVars, boundVars
<1>3. proc \in [Procs -> ProcRec] /\ proc[g] \in ProcRec /\ shared \in [Procs -> SharedRec] /\ shared[g] \in SharedRec
    BY DEF Inv, Types, ProcT, SharedT
<1> DEFINE b == [proc[g] EXCEPT !.reaper = "telling"]
           w == [shared[g] EXCEPT !.pending = {}]
<1>4. proc' = [proc EXCEPT ![g] = b] /\ shared' = [shared EXCEPT ![g] = w] BY <1>1, <1>3
<1>5. /\ b \in ProcRec /\ b.os = proc[g].os /\ b.stop = proc[g].stop /\ b.reaper = "telling"
      /\ b.running = proc[g].running /\ b.gate = proc[g].gate /\ b.pump = proc[g].pump
    BY <1>3 DEF ProcRec
<1>6. w \in SharedRec /\ w.routes = shared[g].routes /\ w.pending = {} /\ w.stopping = shared[g].stopping
    BY <1>3 DEF SharedRec
<1> HIDE DEF b, w
<1>7. SharedT' /\ shared'[g] = w /\ \A h \in Procs \ {g} : shared'[h] = shared[h]
    BY <1>4, <1>6, SharedType DEF Inv, Types
<1>8. Used' /\ proc'[g] = b /\ \A h \in Procs \ {g} : proc'[h] = proc[h]
    BY <1>2, <1>4, <1>5, UsedStays DEF Inv, Core
<1>9. \A s \in Runners : runner[s].shared \in Procs \cup {0} BY DEF Inv, Types, RunT, RunRec
<1>10. \A h \in Procs : shared'[h].routes = shared[h].routes /\ shared'[h].stopping = shared[h].stopping
    BY <1>6, <1>7
<1>11. Hooked' BY <1>2, <1>9, <1>10 DEF Inv, Core, Hooked
<1>12. Heeded' BY <1>2, <1>5, <1>8, <1>9 DEF Inv, Core, Heeded, Told
<1>13. Registered'
  <2> SUFFICES ASSUME NEW s \in Runners, runner[s].pc \in Waiting, answer'[s] = << >>
               PROVE  <<s, runner[s].id>> \in shared'[runner[s].on].pending
      BY <1>2 DEF Registered
  <2>1. s \notin Orphaned(g) /\ answer[s] = << >> BY <1>1
  <2>2. runner[s].on \in Procs
      BY DEF Inv, Types, RunT, RunRec, Core, Used, AtPlaces, Placed, Waiting, CallPlaces, StartPlaces, BootPlaces
  <2>3. <<s, runner[s].id>> \in shared[runner[s].on].pending BY <2>1 DEF Inv, Core, Registered
  <2>4. runner[s].on # g BY <2>1, <2>3 DEF Orphaned
  <2> QED BY <1>7, <2>2, <2>3, <2>4
<1>14. Cleared' BY <1>6, <1>7, <1>8 DEF Inv, Core, Cleared
<1>15. Reaped' BY <1>1, <1>5, <1>8 DEF Inv, Core, Reaped, Sound
<1>16. ProcT' BY <1>2, <1>3, <1>4, <1>5 DEF Inv, Types, ProcT
<1>17. MouthT' BY <1>2, <1>5, <1>8 DEF Inv, Types, MouthT
<1>18. AnswerT'
  <2>1. Failure \in AnswerRec BY DEF Failure, AnswerRec, Turns
  <2>2. <<Failure>> \in Seq(AnswerRec) /\ Len(<<Failure>>) = 1 BY <2>1
  <2>3. <<Failure>> \in Short(AnswerRec) BY <2>2 DEF Short
  <2>4. \A s \in Runners : answer[s] \in Short(AnswerRec) BY DEF Inv, Types, AnswerT
  <2> QED BY <1>1, <2>3, <2>4 DEF AnswerT
<1>19. PoolT' /\ WireT' /\ NativeT' /\ RunT' /\ ChatT' /\ BoundT'
    BY <1>2 DEF Inv, Types, PoolT, WireT, NativeT, RunT, ChatT, BoundT
<1> QED BY <1>7, <1>8, <1>11, <1>12, <1>13, <1>14, <1>15, <1>16, <1>17, <1>18, <1>19 DEF Inv, Types, Core

\* ... and who has a route is told, unless a sweep has silenced the server.
LEMMA NotifyExitKeeps ==
    ASSUME Inv, NEW g \in Procs, NotifyExit(g)
    PROVE  Inv'
<1> USE Numbers
<1>1. /\ proc[g].reaper = "telling" /\ proc' = [proc EXCEPT ![g].reaper = "done"]
      /\ ear' = [r \in Runners |-> IF ~shared[g].stopping /\ shared[g].routes[r] # NoRoute
                                   THEN Append(ear[r], [kind |-> "crash", from |-> g]) ELSE ear[r]]
      /\ UNCHANGED <<helper, guardian, owner, sharedVars, wireVars, nativeVars, runnerVars, sweeper, historyVars, boundVars>>
    BY DEF NotifyExit
<1>2. /\ UNCHANGED <<helper, guardian, owner, pool, poolLock, shared, requests, lines, mouth, turn, asking, nextTurn>>
      /\ UNCHANGED <<runner, answer, plan, sweeper, owed, swept, timeouts, faults>>
    BY <1>1 DEF sharedVars, wireVars, nativeVars, runnerVars, historyVars, boundVars
<1>3. proc \in [Procs -> ProcRec] /\ proc[g] \in ProcRec BY DEF Inv, Types, ProcT
<1> DEFINE b == [proc[g] EXCEPT !.reaper = "done"]
<1>4. proc' = [proc EXCEPT ![g] = b] BY <1>1, <1>3
<1>5. /\ b \in ProcRec /\ b.os = proc[g].os /\ b.stop = proc[g].stop /\ b.reaper = "done"
      /\ b.running = proc[g].running /\ b.gate = proc[g].gate /\ b.pump = proc[g].pump
    BY <1>3 DEF ProcRec
<1> HIDE DEF b
<1>6. Used' /\ proc'[g] = b /\ \A h \in Procs \ {g} : proc'[h] = proc[h]
    BY <1>2, <1>4, <1>5, UsedStays DEF Inv, Core
<1>7. PICK e \in HeardRec : e = [kind |-> "crash", from |-> g] BY DEF HeardRec
<1>8. ChatT BY DEF Inv, Types
<1>9. \A r \in Runners : ear'[r] \in {ear[r], Append(ear[r], e)} BY <1>1, <1>7
<1>10. ChatT'
  <2>1. ASSUME NEW r \in Runners PROVE ear'[r] \in Seq(HeardRec)
    <3>1. ear[r] \in Seq(HeardRec) BY <1>8 DEF ChatT
    <3>2. Append(ear[r], e) \in Seq(HeardRec) BY <1>8, EarType
    <3> QED BY <1>9, <3>1, <3>2
  <2>2. ear' = [r \in Runners |-> ear'[r]] BY <1>1
  <2>3. ear' \in [Runners -> Seq(HeardRec)] BY <2>1, <2>2
  <2> QED BY <1>2, <1>8, <2>3 DEF ChatT
<1>11. Hooked' /\ Registered' BY <1>2 DEF Inv, Core, Hooked, Registered
<1>12. Heeded'
  <2> SUFFICES ASSUME NEW s \in Runners, runner'[s].shared # 0, proc'[runner'[s].shared].reaper = "done"
               PROVE  Told(s)' \/ runner'[s].shared \in swept'
      BY DEF Heeded
  <2>1. runner[s].shared \in Procs BY <1>2 DEF Inv, Types, RunT, RunRec
  <2>2. CASE runner[s].shared # g
    <3>1. Told(s) \/ runner[s].shared \in swept BY <1>2, <1>6, <2>1, <2>2 DEF Inv, Core, Heeded
    <3>2. Told(s) => Told(s)' BY <1>2, <1>8, <1>9, ToldStays
    <3> QED BY <1>2, <3>1, <3>2
  <2>3. CASE runner[s].shared = g
    <3>1. shared[g].routes[s] # NoRoute /\ (shared[g].stopping => g \in swept)
        BY <1>2, <2>1, <2>3 DEF Inv, Core, Hooked
    <3>2. CASE shared[g].stopping BY <1>2, <2>3, <3>1, <3>2
    <3>3. CASE ~shared[g].stopping
      <4>1. ear'[s] = Append(ear[s], e) BY <1>1, <1>7, <3>1, <3>3
      <4>2. ear[s] \in Seq(HeardRec) BY <1>8 DEF ChatT
      <4>3. Len(ear[s]) + 1 \in DOMAIN ear'[s] /\ ear'[s][Len(ear[s]) + 1] = e BY <4>1, <4>2
      <4> QED BY <1>2, <1>7, <2>3, <4>3 DEF Told
    <3> QED BY <3>2, <3>3
  <2> QED BY <2>2, <2>3
<1>13. Cleared' BY <1>1, <1>2, <1>5, <1>6 DEF Inv, Core, Cleared
<1>14. Reaped' BY <1>1, <1>5, <1>6 DEF Inv, Core, Reaped, Sound
<1>15. ProcT' BY <1>2, <1>3, <1>4, <1>5 DEF Inv, Types, ProcT
<1>16. MouthT' BY <1>2, <1>5, <1>6 DEF Inv, Types, MouthT
<1>17. PoolT' /\ WireT' /\ NativeT' /\ RunT' /\ AnswerT' /\ SharedT' /\ BoundT'
    BY <1>2 DEF Inv, Types, PoolT, WireT, NativeT, RunT, AnswerT, SharedT, BoundT
<1> QED BY <1>6, <1>10, <1>11, <1>12, <1>13, <1>14, <1>15, <1>16, <1>17 DEF Inv, Types, Core

-----------------------------------------------------------------------------
(* The app-server. *)

\* What is asked of the server has its type, and what it says.
LEMMA SaysType ==
    ASSUME WireT, NEW g \in Procs, NEW said \in Seq(LineRec), requests[g] # << >>, Says(g, said)
    PROVE  WireT'
<1>1. /\ requests[g] \in Seq(RequestRec) /\ lines[g] \in Seq(LineRec)
      /\ requests \in [Procs -> Seq(RequestRec)] /\ lines \in [Procs -> Seq(LineRec)]
    BY DEF WireT
<1>2. Tail(requests[g]) \in Seq(RequestRec) BY <1>1
<1>3. lines[g] \o said \in Seq(LineRec) BY <1>1
<1>4. requests' = [requests EXCEPT ![g] = Tail(requests[g])] /\ lines' = [lines EXCEPT ![g] = lines[g] \o said]
    BY DEF Says
<1> QED BY <1>1, <1>2, <1>3, <1>4 DEF WireT

\* What is asked of the server has its type.
LEMMA AskedIs ==
    ASSUME WireT, NEW g \in Procs, requests[g] # << >>
    PROVE  Head(requests[g]) \in RequestRec
<1>1. requests[g] \in Seq(RequestRec) BY DEF WireT
<1> QED BY <1>1

\* One line is a line, and so is each of two.
LEMMA LineIs ==
    ASSUME NEW a \in LineRec, NEW b \in LineRec
    PROVE  <<a>> \in Seq(LineRec) /\ <<a, b>> \in Seq(LineRec)
OBVIOUS

\* Replies and notes are lines.
LEMMA SaidIs ==
    /\ \A q \in RequestRec, ok \in BOOLEAN, t \in Turns : Reply(q, ok, t) \in LineRec
    /\ \A what \in {"started", "completed"}, r \in Runners, t \in Turns : Note(what, r, t) \in LineRec
<1>1. ASSUME NEW q \in RequestRec, NEW ok \in BOOLEAN, NEW t \in Turns
      PROVE  Reply(q, ok, t) \in LineRec
  <2>1. Reply(q, ok, t) \in ReplyRec BY DEF Reply, ReplyRec, RequestRec
  <2> QED BY <2>1 DEF LineRec
<1>2. ASSUME NEW what \in {"started", "completed"}, NEW r \in Runners, NEW t \in Turns
      PROVE  Note(what, r, t) \in LineRec
  <2>1. Note(what, r, t) \in NoteRec BY DEF Note, NoteRec
  <2> QED BY <2>1 DEF LineRec
<1> QED BY <1>1, <1>2

\* A step of the server's that stays within the types keeps the invariant.
LEMMA ServerStep ==
    ASSUME Inv, UNCHANGED <<procVars, nativeRest>>, WireT', NativeT', faults' \in 0 .. MaxFaults
    PROVE  Inv'
<1>1. /\ UNCHANGED <<proc, helper, guardian, owner, sharedVars, mouth, runnerVars, sweeper, ear, historyVars>>
      /\ UNCHANGED timeouts
    BY DEF procVars, nativeRest
<1>2. /\ helper' \subseteq Procs /\ owner' \in BOOLEAN
      /\ guardian' \in [Procs -> {"none", "watching", "eof", "gone"}]
    BY <1>1 DEF Inv, Types, ProcT
<1>3. BoundT' BY <1>1 DEF Inv, Types, BoundT
<1> QED BY <1>1, <1>2, <1>3, OthersStep

\* A fault is within its bound.
LEMMA FaultIs == ASSUME BoundT, Fault PROVE faults' \in 0 .. MaxFaults
BY Numbers DEF BoundT, Fault

\* Answers to calls: given, refused, and into a turn that runs.
LEMMA ServeSteps ==
    ASSUME Inv, NEW g \in Procs, ServeCall(g) \/ Refuse(g) \/ ServeFold(g)
    PROVE  Inv'
<1> USE Numbers
<1>1. requests[g] # << >> /\ UNCHANGED <<procVars, nativeRest, nativeVars>>
    BY DEF ServeCall, Refuse, ServeFold, Serving
<1>2. WireT /\ NativeT /\ BoundT BY DEF Inv, Types
<1>3. PICK q \in RequestRec : q = Head(requests[g]) BY <1>1, <1>2, AskedIs
<1>4. turn[g][q.by] \in Turns BY <1>2 DEF NativeT, RequestRec
<1>5. PICK ok \in BOOLEAN, t \in Turns : Says(g, <<Reply(q, ok, t)>>)
  <2>1. CASE ServeCall(g)
    <3>1. Says(g, <<Reply(q, TRUE, 0)>>) BY <1>3, <2>1 DEF ServeCall
    <3> QED BY <3>1
  <2>2. CASE Refuse(g)
    <3>1. Says(g, <<Reply(q, FALSE, 0)>>) BY <1>3, <2>2 DEF Refuse
    <3> QED BY <3>1
  <2>3. CASE ServeFold(g)
    <3> DEFINE yes == q.method = "turn/start" \/ (q.method = "turn/steer" /\ turn[g][q.by] = q.turn)
    <3>1. Says(g, <<Reply(q, yes, turn[g][q.by])>>) BY <1>3, <2>3 DEF ServeFold
    <3>2. yes \in BOOLEAN OBVIOUS
    <3> HIDE DEF yes
    <3> QED BY <1>4, <3>1, <3>2
  <2> QED BY <2>1, <2>2, <2>3
<1>6. Reply(q, ok, t) \in LineRec BY SaidIs
<1>7. WireT' BY <1>1, <1>2, <1>5, <1>6, LineIs, SaysType
<1>8. NativeT' BY <1>1, <1>2 DEF nativeVars, NativeT
<1>9. faults' \in 0 .. MaxFaults
  <2>1. CASE Refuse(g) BY <1>2, <2>1, FaultIs DEF Refuse
  <2>2. CASE UNCHANGED faults BY <1>2, <2>2 DEF BoundT
  <2> QED BY <2>1, <2>2 DEF ServeCall, ServeFold
<1> QED BY <1>1, <1>7, <1>8, <1>9, ServerStep

\* A turn is opened.
LEMMA ServeTurnKeeps ==
    ASSUME Inv, NEW g \in Procs, ServeTurn(g)
    PROVE  Inv'
<1> USE Numbers
<1>1. /\ requests[g] # << >> /\ nextTurn <= MaxTurns /\ nextTurn' = nextTurn + 1
      /\ UNCHANGED <<procVars, nativeRest, asking, faults>>
    BY DEF ServeTurn, Serving
<1>2. WireT /\ NativeT /\ BoundT BY DEF Inv, Types
<1>3. PICK q \in RequestRec : q = Head(requests[g]) BY <1>1, <1>2, AskedIs
<1>4. q.by \in Runners BY DEF RequestRec
<1>5. nextTurn \in Turns /\ nextTurn' \in 1 .. MaxTurns + 1 BY <1>1, <1>2 DEF NativeT, Turns
<1> DEFINE a == Reply(q, TRUE, nextTurn)
           b == Note("started", q.by, nextTurn)
<1>6. a \in LineRec /\ b \in LineRec BY <1>4, <1>5, SaidIs
<1>7. /\ turn' = [turn EXCEPT ![g][q.by] = nextTurn]
      /\ Says(g, <<a, b>>) \/ Says(g, <<b, a>>)
    BY <1>3 DEF ServeTurn
<1> HIDE DEF a, b
<1>8. <<a, b>> \in Seq(LineRec) /\ <<b, a>> \in Seq(LineRec) BY <1>6, LineIs
<1>9. WireT' BY <1>1, <1>2, <1>7, <1>8, SaysType
<1>10. turn' \in [Procs -> [Runners -> Turns]] BY <1>2, <1>4, <1>5, <1>7 DEF NativeT
<1>11. NativeT' BY <1>1, <1>2, <1>5, <1>10 DEF NativeT
<1>12. faults' \in 0 .. MaxFaults BY <1>1, <1>2 DEF BoundT
<1> QED BY <1>1, <1>9, <1>11, <1>12, ServerStep

\* A turn is cut short.
LEMMA ServeInterruptKeeps ==
    ASSUME Inv, NEW g \in Procs, ServeInterrupt(g)
    PROVE  Inv'
<1> USE Numbers
<1>1. /\ requests[g] # << >> /\ UNCHANGED <<procVars, nativeRest, asking, nextTurn, faults>>
    BY DEF ServeInterrupt, Serving
<1>2. WireT /\ NativeT /\ BoundT BY DEF Inv, Types
<1>3. PICK q \in RequestRec : q = Head(requests[g]) BY <1>1, <1>2, AskedIs
<1>4. q.by \in Runners BY DEF RequestRec
<1>5. PICK t \in Turns : t = turn[g][q.by] BY <1>2, <1>4 DEF NativeT
<1> DEFINE a == Reply(q, FALSE, 0)
           b == Reply(q, TRUE, 0)
           c == Note("completed", q.by, t)
<1>6. a \in LineRec /\ b \in LineRec /\ c \in LineRec BY <1>4, SaidIs
<1>7. /\ turn' = [turn EXCEPT ![g][q.by] = 0]
      /\ Says(g, IF t = 0 THEN <<a>> ELSE <<b, c>>)
    BY <1>3, <1>5 DEF ServeInterrupt
<1> HIDE DEF a, b, c
<1>8. Says(g, <<a>>) \/ Says(g, <<b, c>>) BY <1>7
<1>9. <<a>> \in Seq(LineRec) /\ <<b, c>> \in Seq(LineRec) BY <1>6, LineIs
<1>10. WireT' BY <1>1, <1>2, <1>8, <1>9, SaysType
<1>11. turn' \in [Procs -> [Runners -> Turns]] BY <1>2, <1>4, <1>7 DEF NativeT
<1>12. NativeT' BY <1>1, <1>2, <1>11 DEF NativeT
<1>13. faults' \in 0 .. MaxFaults BY <1>1, <1>2 DEF BoundT
<1> QED BY <1>1, <1>10, <1>12, <1>13, ServerStep

\* A turn ends, and a turn asks.
LEMMA TurnSteps ==
    ASSUME Inv, NEW g \in Procs, AskOmni(g) \/ \E r \in Runners : EndTurn(g, r)
    PROVE  Inv'
<1> USE Numbers
<1>1. UNCHANGED <<procVars, nativeRest, requests, nextTurn>> BY DEF AskOmni, EndTurn
<1>2. WireT /\ NativeT /\ BoundT BY DEF Inv, Types
<1>3. ASSUME NEW e \in LineRec, lines' = [lines EXCEPT ![g] = Append(@, e)] PROVE WireT'
  <2>1. lines[g] \in Seq(LineRec) /\ lines \in [Procs -> Seq(LineRec)] BY <1>2 DEF WireT
  <2>2. Append(lines[g], e) \in Seq(LineRec) BY <2>1
  <2>3. lines' \in [Procs -> Seq(LineRec)] BY <1>3, <2>1, <2>2
  <2> QED BY <1>1, <1>2, <2>3 DEF WireT
<1>4. CASE AskOmni(g)
  <2>1. PICK e \in LineRec : e = [kind |-> "ask"] BY DEF LineRec
  <2>2. WireT' BY <1>3, <1>4, <2>1 DEF AskOmni
  <2>3. NativeT' BY <1>1, <1>2, <1>4 DEF AskOmni, NativeT
  <2>4. faults' \in 0 .. MaxFaults BY <1>2, <1>4, FaultIs DEF AskOmni
  <2> QED BY <1>1, <2>2, <2>3, <2>4, ServerStep
<1>5. ASSUME NEW r \in Runners, EndTurn(g, r) PROVE Inv'
  <2>1. PICK e \in LineRec : e = Note("completed", r, turn[g][r])
    <3>1. turn[g][r] \in Turns BY <1>2 DEF NativeT
    <3> QED BY <3>1, SaidIs
  <2>2. WireT' BY <1>3, <1>5, <2>1 DEF EndTurn
  <2>3. turn' \in [Procs -> [Runners -> Turns]] BY <1>2, <1>5 DEF EndTurn, NativeT
  <2>4. NativeT' BY <1>1, <1>2, <1>5, <2>3 DEF EndTurn, NativeT
  <2>5. faults' \in 0 .. MaxFaults BY <1>2, <1>5 DEF EndTurn, BoundT
  <2> QED BY <1>1, <2>2, <2>4, <2>5, ServerStep
<1> QED BY <1>4, <1>5

\* All that the server does, and what happens to it.
LEMMA NativeKeeps ==
    ASSUME Inv, NEW g \in Procs, Native(g)
    PROVE  Inv'
<1> USE Numbers
<1>1. CASE Die(g) /\ (IF proc[g].stdin /\ owner THEN Fault ELSE UNCHANGED faults)
           /\ UNCHANGED <<nativeRest, requests, lines, nativeVars>>
  <2>1. UNCHANGED timeouts /\ (Fault \/ UNCHANGED faults) BY <1>1 DEF nativeRest
  <2>2. BoundT BY DEF Inv, Types
  <2>3. BoundT' BY <2>1, <2>2, FaultIs DEF BoundT
  <2>4. UNCHANGED <<pool, poolLock, shared, wireVars, nativeVars, runnerVars, sweeper, ear, historyVars>>
      BY <1>1 DEF nativeRest, sharedVars, wireVars
  <2> QED BY <1>1, <2>3, <2>4, ProcessSteps
<1>2. CASE Fork(g) /\ Fault /\ UNCHANGED <<nativeRest, requests, lines, nativeVars>>
  <2>1. UNCHANGED timeouts BY <1>2 DEF nativeRest
  <2>2. BoundT' BY <1>2, <2>1, FaultIs DEF BoundT, Inv, Types
  <2>3. UNCHANGED <<sharedVars, wireVars, runnerVars, sweeper, ear, historyVars, nativeVars>>
      BY <1>2 DEF nativeRest, wireVars
  <2> QED BY <1>2, <2>2, <2>3, OutsideSteps
<1> QED BY <1>1, <1>2, ServeSteps, ServeTurnKeeps, ServeInterruptKeeps, TurnSteps DEF Native

-----------------------------------------------------------------------------
(* The pool. *)

\* What is told, and to whom, while servers are started, put into the pool,
\* taken out of it and put down.
LEMMA RestStays ==
    ASSUME Types, Core, Used', swept \subseteq swept', UNCHANGED <<ear, answer>>,
           \A s \in Runners : /\ runner'[s].shared = runner[s].shared
                              /\ runner'[s].pc \in Waiting => runner'[s] = runner[s],
           \A g \in Procs : /\ shared'[g].routes = shared[g].routes /\ shared'[g].pending = shared[g].pending
                            /\ shared'[g].stopping => g \in swept',
           \A g \in Procs : /\ proc'[g].reaper = proc[g].reaper /\ Sound(proc'[g])
                            /\ proc'[g].stop = "no" => proc[g].stop = "no"
    PROVE  Core'
<1> USE Numbers
<1>1. \A s \in Runners : runner[s].shared \in Procs \cup {0} /\ runner[s].on \in Procs \cup {0}
    BY DEF Types, RunT, RunRec
<1>2. Hooked' BY <1>1 DEF Core, Hooked
<1>3. Heeded'
  <2> SUFFICES ASSUME NEW s \in Runners, runner[s].shared # 0, proc[runner[s].shared].reaper = "done"
               PROVE  Told(s)' \/ runner[s].shared \in swept'
      BY <1>1 DEF Heeded
  <2>1. Told(s) \/ runner[s].shared \in swept BY DEF Core, Heeded
  <2>2. Told(s) => Told(s)' BY DEF Told
  <2> QED BY <2>1, <2>2
<1>4. Registered'
  <2> SUFFICES ASSUME NEW s \in Runners, runner'[s].pc \in Waiting, answer[s] = << >>
               PROVE  <<s, runner'[s].id>> \in shared'[runner'[s].on].pending
      BY DEF Registered
  <2>1. runner'[s] = runner[s] OBVIOUS
  <2>2. runner[s].on \in Procs
      BY <1>1, <2>1 DEF Core, Used, AtPlaces, Placed, Waiting, CallPlaces, StartPlaces, BootPlaces
  <2>3. <<s, runner[s].id>> \in shared[runner[s].on].pending BY <2>1 DEF Core, Registered
  <2> QED BY <2>1, <2>2, <2>3
<1>5. Reaped' BY DEF Reaped
<1>6. Cleared' BY DEF Core, Cleared
<1> QED BY <1>2, <1>3, <1>4, <1>5, <1>6 DEF Core

\* A server that has shaken hands goes into the pool.
LEMMA BootedKeeps ==
    ASSUME Inv, NEW r \in Runners, Booted(r)
    PROVE  Inv'
<1> USE Numbers
<1>1. /\ runner[r].pc = "boot" /\ pool' = runner[r].on /\ poolLock' = "nobody"
      /\ runner' = [runner EXCEPT ![r].pc = "got"]
      /\ UNCHANGED <<procVars, shared, wireVars, nativeVars, answer, plan, sweeper, ear, historyVars, boundVars>>
    BY DEF Booted, Ok, Answered, Goto
<1>2. UNCHANGED <<proc, shared, answer, plan, ear, owed, swept>> BY <1>1 DEF procVars, historyVars
<1>3. runner[r] \in RunRec /\ runner \in [Runners -> RunRec] BY DEF Inv, Types, RunT
<1>4. runner[r].shared = 0 /\ runner[r].on \in Procs
    BY <1>1, <1>3 DEF Inv, Core, Used, AtPlaces, Placed, BootPlaces, RunRec
<1>5. PICK n \in RunRec : n = [runner[r] EXCEPT !.pc = "got"]
    BY <1>3 DEF RunRec, Places, StartPlaces
<1>6. n.pc = "got" /\ n.on = runner[r].on /\ n.shared = 0 BY <1>3, <1>4, <1>5 DEF RunRec
<1>7. runner' = [runner EXCEPT ![r] = n] BY <1>1, <1>3, <1>5
<1>8. RunT' /\ runner'[r] = n /\ \A s \in Runners \ {r} : runner'[s] = runner[s] BY <1>7, RunType DEF Inv, Types
<1>9. AtPlaces'
  <2>1. Placed(n) BY <1>4, <1>6 DEF Placed, CallPlaces, StartPlaces, BootPlaces
  <2> QED BY <1>8, <2>1 DEF Inv, Core, Used, AtPlaces
<1>10. Started' BY <1>1, <1>2, <1>4, <1>6, <1>8 DEF Inv, Core, Used, Started
<1>11. OwnServer'
  <2> SUFFICES ASSUME NEW s \in Runners, runner'[s].pc = "boot"
               PROVE  /\ pool' # runner'[s].on
                      /\ \A t \in Runners \ {s} : runner'[t].on # runner'[s].on /\ runner'[t].shared # runner'[s].on
      BY DEF OwnServer
  <2>1. s # r /\ runner'[s] = runner[s] BY <1>6, <1>8
  <2>2. \A t \in Runners \ {s} : runner[t].on # runner[s].on /\ runner[t].shared # runner[s].on
      BY <2>1 DEF Inv, Core, Used, OwnServer
  <2>3. runner[r].on # runner[s].on /\ n.shared # runner[s].on BY <1>4, <1>6, <2>1, <2>2
  <2> QED BY <1>1, <1>6, <1>8, <2>1, <2>2, <2>3
<1>12. PutDown'
  <2> SUFFICES ASSUME NEW g \in Procs \ swept, proc[g].stop # "no"
               PROVE  /\ pool' # g
                      /\ \A s \in Runners : runner'[s].shared # g /\ (runner'[s].on = g => runner'[s].pc = "unboot")
      BY <1>2 DEF PutDown
  <2>1. \A s \in Runners : runner[s].shared # g /\ (runner[s].on = g => runner[s].pc = "unboot")
      BY DEF Inv, Core, Used, PutDown
  <2>2. runner[r].on # g BY <1>1, <2>1
  <2> QED BY <1>1, <1>4, <1>6, <1>8, <2>1, <2>2
<1>13. Core'
  <2>1. \A s \in Runners : /\ runner'[s].shared = runner[s].shared
                           /\ runner'[s].pc \in Waiting => runner'[s] = runner[s]
      BY <1>4, <1>6, <1>8 DEF Waiting
  <2>2. \A g \in Procs : shared[g].stopping => g \in swept BY DEF Inv, Core, Hooked
  <2>3. \A g \in Procs : Sound(proc[g]) BY DEF Inv, Core, Reaped
  <2>4. Used' BY <1>9, <1>10, <1>11, <1>12 DEF Used
  <2> QED BY <1>2, <2>1, <2>2, <2>3, <2>4, RestStays DEF Inv
<1>14. ChatT' BY <1>2 DEF Inv, Types, ChatT
<1> QED BY <1>1, <1>2, <1>4, <1>8, <1>13, <1>14, OwnRest DEF historyVars

\* A server that has not is put down.
LEMMA BootFailsKeeps ==
    ASSUME Inv, NEW r \in Runners, BootFails(r)
    PROVE  Inv'
<1> USE Numbers
<1>1. /\ runner[r].pc = "boot" /\ runner' = [runner EXCEPT ![r].pc = "unboot"]
      /\ proc' = [proc EXCEPT ![runner[r].on].stdin = FALSE, ![runner[r].on].stop = "eof"]
      /\ UNCHANGED <<helper, guardian, owner, sharedVars, wireVars, nativeVars, answer, plan, sweeper, ear, historyVars, boundVars>>
    BY DEF BootFails, Answered, Goto
<1>2. /\ UNCHANGED <<helper, guardian, owner, pool, poolLock, shared, requests, lines, mouth, turn, asking, nextTurn>>
      /\ UNCHANGED <<answer, plan, sweeper, ear, owed, swept, timeouts, faults>>
    BY <1>1 DEF sharedVars, wireVars, nativeVars, historyVars, boundVars
<1>3. runner[r] \in RunRec /\ runner \in [Runners -> RunRec] BY DEF Inv, Types, RunT
<1>4. runner[r].shared = 0 /\ runner[r].on \in Procs
    BY <1>1, <1>3 DEF Inv, Core, Used, AtPlaces, Placed, BootPlaces, RunRec
<1>5. PICK n \in RunRec : n = [runner[r] EXCEPT !.pc = "unboot"]
    BY <1>3 DEF RunRec, Places, BootPlaces
<1>6. n.pc = "unboot" /\ n.on = runner[r].on /\ n.shared = 0 BY <1>3, <1>4, <1>5 DEF RunRec
<1>7. runner' = [runner EXCEPT ![r] = n] BY <1>1, <1>3, <1>5
<1>8. RunT' /\ runner'[r] = n /\ \A s \in Runners \ {r} : runner'[s] = runner[s] BY <1>7, RunType DEF Inv, Types
<1>9. PICK g \in Procs : g = runner[r].on BY <1>4
<1>10. proc \in [Procs -> ProcRec] /\ proc[g] \in ProcRec BY DEF Inv, Types, ProcT
<1> DEFINE b == [proc[g] EXCEPT !.stdin = FALSE, !.stop = "eof"]
<1>11. proc' = [proc EXCEPT ![g] = b] BY <1>1, <1>9, <1>10
<1>12. /\ b \in ProcRec /\ b.os = proc[g].os /\ b.stop = "eof" /\ b.reaper = proc[g].reaper
       /\ b.running = proc[g].running /\ b.gate = proc[g].gate /\ b.pump = proc[g].pump
    BY <1>10 DEF ProcRec
<1> HIDE DEF b
<1>13. /\ proc' \in [Procs -> ProcRec] /\ proc'[g] = b /\ \A h \in Procs \ {g} : proc'[h] = proc[h]
    BY <1>10, <1>11, <1>12
<1>14. \A h \in Procs : proc'[h].os = proc[h].os /\ proc'[h].reaper = proc[h].reaper /\ proc'[h].pump = proc[h].pump
    BY <1>12, <1>13
<1>15. pool \in Procs \cup {0} /\ \A s \in Runners : runner[s].on \in Procs \cup {0} /\ runner[s].shared \in Procs \cup {0}
    BY <1>3 DEF Inv, Types, PoolT, RunRec
<1>16. AtPlaces'
  <2>1. Placed(n) BY <1>4, <1>6 DEF Placed, CallPlaces, StartPlaces, BootPlaces
  <2> QED BY <1>8, <2>1 DEF Inv, Core, Used, AtPlaces
<1>17. \A s \in Runners : runner'[s].on = runner[s].on /\ runner'[s].shared = runner[s].shared BY <1>4, <1>6, <1>8
<1>18. Started'
  <2>1. pool' # 0 => proc'[pool'].os # "none" BY <1>2, <1>14, <1>15 DEF Inv, Core, Used, Started
  <2>2. \A s \in Runners : \A h \in {runner[s].on, runner[s].shared} : h # 0 => proc'[h].os # "none"
    <3> SUFFICES ASSUME NEW s \in Runners, NEW h \in {runner[s].on, runner[s].shared}, h # 0
                 PROVE  proc'[h].os # "none"
        OBVIOUS
    <3>1. h \in Procs BY <1>15
    <3>2. proc[h].os # "none" BY DEF Inv, Core, Used, Started
    <3> QED BY <1>14, <3>1, <3>2
  <2> QED BY <1>17, <2>1, <2>2 DEF Started
<1>19. OwnServer'
  <2>1. \A s \in Runners : runner'[s].pc = "boot" => runner[s].pc = "boot" BY <1>6, <1>8
  <2> QED BY <1>2, <1>17, <2>1 DEF Inv, Core, Used, OwnServer
<1>20. PutDown'
  <2> SUFFICES ASSUME NEW h \in Procs \ swept, proc'[h].stop # "no"
               PROVE  /\ pool # h
                      /\ \A s \in Runners : runner'[s].shared # h /\ (runner'[s].on = h => runner'[s].pc = "unboot")
      BY <1>2 DEF PutDown
  <2>1. CASE h = g
    <3>1. /\ pool # g
          /\ \A s \in Runners \ {r} : runner[s].on # g /\ runner[s].shared # g
        BY <1>1, <1>9 DEF Inv, Core, Used, OwnServer
    <3> QED BY <1>4, <1>6, <1>8, <2>1, <3>1
  <2>2. CASE h # g
    <3>1. /\ pool # h
          /\ \A s \in Runners : runner[s].shared # h /\ (runner[s].on = h => runner[s].pc = "unboot")
        BY <1>13, <2>2 DEF Inv, Core, Used, PutDown
    <3> QED BY <1>6, <1>8, <1>17, <3>1
  <2> QED BY <2>1, <2>2
<1>21. Core'
  <2>1. \A s \in Runners : /\ runner'[s].shared = runner[s].shared
                           /\ runner'[s].pc \in Waiting => runner'[s] = runner[s]
      BY <1>6, <1>8, <1>17 DEF Waiting
  <2>2. \A h \in Procs : shared[h].stopping => h \in swept BY DEF Inv, Core, Hooked
  <2>3. \A h \in Procs : Sound(proc'[h])
    <3>1. \A h \in Procs : Sound(proc[h]) BY DEF Inv, Core, Reaped
    <3>2. Sound(b) BY <1>12, <3>1 DEF Sound
    <3> QED BY <1>13, <3>1, <3>2
  <2>4. \A h \in Procs : proc'[h].stop = "no" => proc[h].stop = "no" BY <1>12, <1>13
  <2>5. Used' BY <1>16, <1>18, <1>19, <1>20 DEF Used
  <2> QED BY <1>2, <1>14, <2>1, <2>2, <2>3, <2>4, <2>5, RestStays DEF Inv
<1>22. ProcT' BY <1>2, <1>13 DEF Inv, Types, ProcT
<1>23. MouthT' BY <1>2, <1>14 DEF Inv, Types, MouthT
<1>24. PoolT' /\ WireT' /\ NativeT' /\ ChatT' /\ AnswerT' /\ SharedT' /\ BoundT'
    BY <1>2 DEF Inv, Types, PoolT, WireT, NativeT, ChatT, AnswerT, SharedT, BoundT
<1> QED BY <1>8, <1>21, <1>22, <1>23, <1>24 DEF Inv, Types

\* A server is started, for the runner that keeps the pool locked.
LEMMA BootKeeps ==
    ASSUME Inv, NEW r \in Runners, Boot(r)
    PROVE  Inv'
<1> USE Numbers
<1>1. /\ runner[r].pc = "idle" /\ plan[r] # << >> /\ runner[r].shared = 0 /\ Done(r)
      /\ Unused # {} /\ Spawn(Lowest(Unused)) /\ Calls(r, Lowest(Unused), "initialize", "boot")
      /\ poolLock' = r
      /\ UNCHANGED <<pool, lines, mouth, nativeVars, sweeper, ear, historyVars, boundVars>>
    BY DEF Boot, Wants
<1>2. UNCHANGED <<pool, lines, mouth, turn, asking, nextTurn, sweeper, ear, owed, swept, timeouts, faults>>
    BY <1>1 DEF nativeVars, historyVars, boundVars
<1>3. PICK g \in Procs : g = Lowest(Unused) /\ proc[g].os = "none"
  <2>1. Unused \subseteq Nat BY DEF Unused
  <2>2. Lowest(Unused) \in Unused BY <1>1, <2>1, LowestIs
  <2> QED BY <2>2 DEF Unused
<1>4. /\ proc' = [proc EXCEPT ![g] = Fresh] /\ guardian' = [guardian EXCEPT ![g] = "watching"]
      /\ UNCHANGED <<helper, owner>>
    BY <1>1, <1>3 DEF Spawn, Guarded
<1>5. runner \in [Runners -> RunRec] /\ proc \in [Procs -> ProcRec] BY DEF Inv, Types, RunT, ProcT
<1>6. Fresh \in ProcRec /\ Fresh.os = "up" /\ Fresh.stop = "no" /\ Fresh.reaper = "wait" /\ Fresh.pump = "idle" /\ Sound(Fresh)
    BY DEF Fresh, ProcRec, Sound
<1>7. /\ proc' \in [Procs -> ProcRec] /\ proc'[g] = Fresh /\ \A h \in Procs \ {g} : proc'[h] = proc[h]
    BY <1>4, <1>5, <1>6
<1>8. pool \in Procs \cup {0} /\ \A s \in Runners : runner[s].on \in Procs \cup {0} /\ runner[s].shared \in Procs \cup {0}
    BY <1>5 DEF Inv, Types, PoolT, RunRec
\* Nobody knows of the server before.
<1>9. pool # g /\ \A s \in Runners : runner[s].on # g /\ runner[s].shared # g
    BY <1>3 DEF Inv, Core, Used, Started
<1>10. PICK n : n = runner'[r] OBVIOUS
<1>11. /\ RunT' /\ AnswerT' /\ SharedT' /\ requests' \in [Procs -> Seq(RequestRec)]
       /\ runner' = [runner EXCEPT ![r] = runner'[r]] /\ runner'[r] \in RunRec
       /\ runner'[r].pc = "boot" /\ runner'[r].on = g /\ runner'[r].shared = runner[r].shared
       /\ answer'[r] = << >> /\ (\A s \in Runners \ {r} : answer'[s] = answer[s])
       /\ <<r, runner'[r].id>> \in shared'[g].pending
       /\ \A h \in Procs : /\ shared[h].pending \subseteq shared'[h].pending
                           /\ shared'[h].routes = shared[h].routes /\ shared'[h].stopping = shared[h].stopping
       /\ (\A h \in Procs \ {g} : shared'[h] = shared[h])
  <2>1. "initialize" \in Methods /\ "boot" \in Places BY DEF Methods, Places, BootPlaces
  <2>2. RunT /\ AnswerT /\ SharedT /\ WireT BY DEF Inv, Types
  <2>3. Calls(r, g, "initialize", "boot") BY <1>1, <1>3
  <2> QED BY <2>1, <2>2, <2>3, CallsIs
<1>12. /\ runner'[r] = n /\ n.pc = "boot" /\ n.on = g /\ n.shared = 0
       /\ \A s \in Runners \ {r} : runner'[s] = runner[s]
  <2>1. \A s \in Runners \ {r} : runner'[s] = runner[s] BY <1>5, <1>11
  <2> QED BY <1>1, <1>10, <1>11, <2>1
<1>13. AtPlaces'
  <2>1. Placed(n) BY <1>12 DEF Placed, CallPlaces, StartPlaces, BootPlaces
  <2> QED BY <1>12, <2>1 DEF Inv, Core, Used, AtPlaces
<1>14. Started'
  <2>1. \A h \in Procs : proc[h].os # "none" => proc'[h].os # "none" BY <1>6, <1>7
  <2>2. pool # 0 => proc'[pool].os # "none" BY <1>8, <2>1 DEF Inv, Core, Used, Started
  <2>3. \A s \in Runners : \A h \in {runner[s].on, runner[s].shared} : h # 0 => proc'[h].os # "none"
    <3> SUFFICES ASSUME NEW s \in Runners, NEW h \in {runner[s].on, runner[s].shared}, h # 0
                 PROVE  proc'[h].os # "none"
        OBVIOUS
    <3>1. h \in Procs BY <1>8
    <3>2. proc[h].os # "none" BY DEF Inv, Core, Used, Started
    <3> QED BY <2>1, <3>1, <3>2
  <2>4. \A s \in Runners : \A h \in {runner'[s].on, runner'[s].shared} : h # 0 => proc'[h].os # "none"
      BY <1>6, <1>7, <1>12, <2>3
  <2> QED BY <1>2, <2>2, <2>4 DEF Started
<1>15. OwnServer'
  <2> SUFFICES ASSUME NEW s \in Runners, runner'[s].pc = "boot"
               PROVE  /\ pool # runner'[s].on
                      /\ \A t \in Runners \ {s} : runner'[t].on # runner'[s].on /\ runner'[t].shared # runner'[s].on
      BY <1>2 DEF OwnServer
  <2>1. CASE s = r BY <1>9, <1>12, <2>1
  <2>2. CASE s # r
    <3>1. runner'[s] = runner[s] /\ runner[s].pc = "boot" BY <1>12, <2>2
    <3>2. /\ pool # runner[s].on
          /\ \A t \in Runners \ {s} : runner[t].on # runner[s].on /\ runner[t].shared # runner[s].on
        BY <3>1 DEF Inv, Core, Used, OwnServer
    <3>3. runner[s].on # 0 BY <3>1 DEF Inv, Core, Used, AtPlaces, Placed, BootPlaces
    <3>4. runner[s].on # g BY <1>9
    <3> QED BY <1>12, <3>1, <3>2, <3>3, <3>4
  <2> QED BY <2>1, <2>2
<1>16. PutDown'
  <2> SUFFICES ASSUME NEW h \in Procs \ swept, proc'[h].stop # "no"
               PROVE  /\ pool # h
                      /\ \A s \in Runners : runner'[s].shared # h /\ (runner'[s].on = h => runner'[s].pc = "unboot")
      BY <1>2 DEF PutDown
  <2>1. h # g /\ proc[h].stop # "no" BY <1>6, <1>7
  <2>2. /\ pool # h
        /\ \A s \in Runners : runner[s].shared # h /\ (runner[s].on = h => runner[s].pc = "unboot")
      BY <2>1 DEF Inv, Core, Used, PutDown
  <2> QED BY <1>12, <2>1, <2>2
<1>17. Hooked'
  <2>1. ASSUME NEW s \in Runners, runner'[s].shared # 0 PROVE shared'[runner'[s].shared].routes[s] # NoRoute
    <3>1. s # r /\ runner'[s] = runner[s] /\ runner[s].shared \in Procs BY <1>8, <1>12, <2>1
    <3>2. shared[runner[s].shared].routes[s] # NoRoute BY <2>1, <3>1 DEF Inv, Core, Hooked
    <3>3. shared'[runner[s].shared].routes = shared[runner[s].shared].routes BY <1>11, <3>1
    <3> QED BY <3>1, <3>2, <3>3
  <2>2. \A h \in Procs : shared'[h].stopping => h \in swept' BY <1>2, <1>11 DEF Inv, Core, Hooked
  <2> QED BY <2>1, <2>2 DEF Hooked
<1>18. Heeded'
  <2> SUFFICES ASSUME NEW s \in Runners, runner'[s].shared # 0, proc'[runner'[s].shared].reaper = "done"
               PROVE  Told(s)' \/ runner'[s].shared \in swept'
      BY DEF Heeded
  <2>1. runner'[s] = runner[s] BY <1>12
  <2>2. runner[s].shared \in Procs \ {g} BY <1>8, <1>9, <2>1
  <2>3. proc[runner[s].shared].reaper = "done" BY <1>7, <2>1, <2>2
  <2>4. Told(s) \/ runner[s].shared \in swept BY <2>1, <2>3 DEF Inv, Core, Heeded
  <2>5. Told(s) => Told(s)' BY <1>2, <2>1 DEF Told
  <2> QED BY <1>2, <2>1, <2>4, <2>5
<1>19. Registered'
  <2> SUFFICES ASSUME NEW s \in Runners, runner'[s].pc \in Waiting, answer'[s] = << >>
               PROVE  <<s, runner'[s].id>> \in shared'[runner'[s].on].pending
      BY DEF Registered
  <2>1. CASE s = r BY <1>11, <2>1
  <2>2. CASE s # r
    <3>1. runner'[s] = runner[s] /\ answer'[s] = answer[s] BY <1>11, <1>12, <2>2
    <3>2. runner[s].on \in Procs
        BY <1>8, <3>1 DEF Inv, Core, Used, AtPlaces, Placed, Waiting, CallPlaces, StartPlaces, BootPlaces
    <3>3. <<s, runner[s].id>> \in shared[runner[s].on].pending BY <3>1 DEF Inv, Core, Registered
    <3> QED BY <1>11, <3>1, <3>2, <3>3
  <2> QED BY <2>1, <2>2
<1>20. Cleared' BY <1>6, <1>7, <1>11 DEF Inv, Core, Cleared
<1>21. Reaped' BY <1>6, <1>7 DEF Inv, Core, Reaped
<1>22. ProcT' BY <1>4, <1>7 DEF Inv, Types, ProcT
<1>23. MouthT'
  <2>1. proc[g].pump = "idle" BY <1>3 DEF Inv, Core, Reaped, Sound
  <2>2. \A h \in Procs : proc'[h].pump = proc[h].pump BY <1>6, <1>7, <2>1
  <2> QED BY <1>2, <2>2 DEF Inv, Types, MouthT
<1>24. plan' \in [Runners -> Seq(RunnerOps)] BY <1>1, DoneType DEF Inv, Types
<1>25. PoolT' /\ WireT' /\ NativeT' /\ ChatT' /\ BoundT'
    BY <1>1, <1>2, <1>11, <1>24 DEF Inv, Types, PoolT, WireT, NativeT, ChatT, BoundT
<1>26. Used' BY <1>13, <1>14, <1>15, <1>16 DEF Used
<1> QED BY <1>11, <1>17, <1>18, <1>19, <1>20, <1>21, <1>22, <1>23, <1>25, <1>26 DEF Inv, Types, Core

\* The pool is emptied, and only the sweeper knows of what was in it.
LEMMA SweepSteps ==
    ASSUME Inv, Reap \/ ReapNothing \/ Shutdown \/ Retired
    PROVE  Inv'
<1> USE Numbers
<1>1. /\ UNCHANGED <<procVars, shared, swept, sweepRest>> /\ pool' \in {pool, 0}
    BY DEF Reap, ReapNothing, Shutdown, Retired, sharedVars
<1>2. /\ UNCHANGED <<proc, helper, guardian, owner, shared, swept, requests, lines, mouth, turn, asking, nextTurn>>
      /\ UNCHANGED <<runner, answer, plan, ear, owed, timeouts, faults>>
    BY <1>1 DEF procVars, sweepRest, wireVars, nativeVars, runnerVars, boundVars
<1>3. PoolT BY DEF Inv, Types
<1>4. PoolT'
  <2>1. sweeper \in SweepRec /\ (sweeper.plan # << >> => Tail(sweeper.plan) \in Seq(PoolOps)) BY <1>3 DEF PoolT, SweepRec
  <2>2. sweeper' \in SweepRec /\ (sweeper'.pc # "idle" => sweeper'.on # 0)
    <3>1. CASE Reap BY <1>3, <2>1, <3>1 DEF Reap, Sweeps, PoolT, SweepRec
    <3>2. CASE ReapNothing BY <1>3, <2>1, <3>2 DEF ReapNothing, Sweeps, PoolT, SweepRec
    <3>3. CASE Shutdown BY <1>3, <2>1, <3>3 DEF Shutdown, Sweeps, PoolT, SweepRec
    <3>4. CASE Retired BY <1>3, <2>1, <3>4 DEF Retired, PoolT, SweepRec
    <3> QED BY <3>1, <3>2, <3>3, <3>4
  <2>3. poolLock' \in {poolLock, "sweeper", "nobody"} BY DEF Reap, ReapNothing, Shutdown, Retired, sharedVars
  <2> QED BY <1>1, <1>2, <1>3, <2>2, <2>3 DEF PoolT
<1>5. Used'
  <2>1. AtPlaces' /\ Started' BY <1>1, <1>2 DEF Inv, Core, Used, AtPlaces, Started
  <2>2. OwnServer'
    <3>1. \A s \in Runners : runner[s].pc = "boot" => runner[s].on # 0
        BY DEF Inv, Core, Used, AtPlaces, Placed, BootPlaces
    <3> QED BY <1>1, <1>2, <3>1 DEF Inv, Core, Used, OwnServer
  <2>3. PutDown' BY <1>1, <1>2 DEF Inv, Core, Used, PutDown
  <2> QED BY <2>1, <2>2, <2>3 DEF Used
<1>6. Core'
  <2>1. \A h \in Procs : Sound(proc[h]) /\ (shared[h].stopping => h \in swept) BY DEF Inv, Core, Reaped, Hooked
  <2> QED BY <1>2, <1>5, <2>1, RestStays DEF Inv
<1>7. ProcT' /\ MouthT' /\ WireT' /\ NativeT' BY <1>2 DEF Inv, Types, ProcT, MouthT, WireT, NativeT
<1>8. ChatT' /\ RunT' /\ AnswerT' /\ SharedT' /\ BoundT' BY <1>2 DEF Inv, Types, ChatT, RunT, AnswerT, SharedT, BoundT
<1> QED BY <1>4, <1>6, <1>7, <1>8 DEF Inv, Types

\* What was in the pool is put down, and counts as swept from then on.
LEMMA RetireKeeps ==
    ASSUME Inv, Retire
    PROVE  Inv'
<1> USE Numbers
<1>1. PICK g \in Procs : g = sweeper.on
  <2>1. sweeper.pc = "taken" BY DEF Retire
  <2> QED BY <2>1 DEF Inv, Types, PoolT, SweepRec
<1>2. PICK v \in BOOLEAN : v = (Alive(g) \/ poolLock # "sweeper")
  <2>1. proc[g].running \in BOOLEAN BY DEF Inv, Types, ProcT, ProcRec
  <2> QED BY <2>1 DEF Alive
<1>3. /\ shared' = [shared EXCEPT ![g].stopping = v]
      /\ proc' = [proc EXCEPT ![g].stdin = FALSE, ![g].stop = "eof"]
      /\ swept' = swept \cup {g} /\ sweeper' = [sweeper EXCEPT !.pc = "stopping"] /\ sweeper.pc = "taken"
      /\ UNCHANGED <<helper, guardian, owner, pool, poolLock, sweepRest>>
    BY <1>1, <1>2 DEF Retire
<1>4. /\ UNCHANGED <<helper, guardian, owner, pool, poolLock, requests, lines, mouth, turn, asking, nextTurn>>
      /\ UNCHANGED <<runner, answer, plan, ear, owed, timeouts, faults>>
    BY <1>3 DEF sweepRest, wireVars, nativeVars, runnerVars, boundVars
<1>5. /\ proc \in [Procs -> ProcRec] /\ proc[g] \in ProcRec /\ shared \in [Procs -> SharedRec] /\ shared[g] \in SharedRec
    BY DEF Inv, Types, ProcT, SharedT
<1> DEFINE b == [proc[g] EXCEPT !.stdin = FALSE, !.stop = "eof"]
           w == [shared[g] EXCEPT !.stopping = v]
<1>6. proc' = [proc EXCEPT ![g] = b] /\ shared' = [shared EXCEPT ![g] = w] BY <1>3, <1>5
<1>7. /\ b \in ProcRec /\ b.os = proc[g].os /\ b.stop = "eof" /\ b.reaper = proc[g].reaper
      /\ b.running = proc[g].running /\ b.gate = proc[g].gate /\ b.pump = proc[g].pump
    BY <1>5 DEF ProcRec
<1>8. w \in SharedRec /\ w.routes = shared[g].routes /\ w.pending = shared[g].pending BY <1>5 DEF SharedRec
<1> HIDE DEF b, w
<1>9. proc' \in [Procs -> ProcRec] /\ proc'[g] = b /\ \A h \in Procs \ {g} : proc'[h] = proc[h] BY <1>5, <1>6, <1>7
<1>10. SharedT' /\ shared'[g] = w /\ \A h \in Procs \ {g} : shared'[h] = shared[h]
    BY <1>6, <1>8, SharedType DEF Inv, Types
<1>11. \A h \in Procs : proc'[h].os = proc[h].os /\ proc'[h].reaper = proc[h].reaper /\ proc'[h].pump = proc[h].pump
    BY <1>7, <1>9
<1>12. pool \in Procs \cup {0} /\ \A s \in Runners : runner[s].on \in Procs \cup {0} /\ runner[s].shared \in Procs \cup {0}
    BY DEF Inv, Types, PoolT, RunT, RunRec
<1>13. Used'
  <2>1. AtPlaces' /\ OwnServer' BY <1>4 DEF Inv, Core, Used, AtPlaces, OwnServer
  <2>2. Started'
    <3>1. pool # 0 => proc'[pool].os # "none" BY <1>11, <1>12 DEF Inv, Core, Used, Started
    <3>2. \A s \in Runners : \A h \in {runner[s].on, runner[s].shared} : h # 0 => proc'[h].os # "none"
      <4> SUFFICES ASSUME NEW s \in Runners, NEW h \in {runner[s].on, runner[s].shared}, h # 0
                   PROVE  proc'[h].os # "none"
          OBVIOUS
      <4>1. h \in Procs BY <1>12
      <4>2. proc[h].os # "none" BY DEF Inv, Core, Used, Started
      <4> QED BY <1>11, <4>1, <4>2
    <3> QED BY <1>4, <3>1, <3>2 DEF Started
  <2>3. PutDown'
    <3>1. \A h \in Procs \ swept' : h \notin swept /\ proc'[h].stop = proc[h].stop BY <1>3, <1>9
    <3> QED BY <1>4, <3>1 DEF Inv, Core, Used, PutDown
  <2> QED BY <2>1, <2>2, <2>3 DEF Used
<1>14. Core'
  <2>1. \A h \in Procs : Sound(proc'[h])
    <3>1. \A h \in Procs : Sound(proc[h]) BY DEF Inv, Core, Reaped
    <3>2. Sound(b) BY <1>7, <3>1 DEF Sound
    <3> QED BY <1>9, <3>1, <3>2
  <2>2. \A h \in Procs : proc'[h].stop = "no" => proc[h].stop = "no" BY <1>7, <1>9
  <2>3. \A h \in Procs : /\ shared'[h].routes = shared[h].routes /\ shared'[h].pending = shared[h].pending
                         /\ shared'[h].stopping => h \in swept'
      BY <1>3, <1>8, <1>10 DEF Inv, Core, Hooked
  <2>4. swept \subseteq swept' BY <1>3
  <2> QED BY <1>4, <1>11, <1>13, <2>1, <2>2, <2>3, <2>4, RestStays DEF Inv
<1>15. ProcT' BY <1>4, <1>9 DEF Inv, Types, ProcT
<1>16. MouthT' BY <1>4, <1>11 DEF Inv, Types, MouthT
<1>17. PoolT' BY <1>3, <1>4 DEF Inv, Types, PoolT, SweepRec
<1>18. WireT' /\ NativeT' /\ ChatT' /\ RunT' /\ AnswerT' /\ BoundT'
    BY <1>4 DEF Inv, Types, WireT, NativeT, ChatT, RunT, AnswerT, BoundT
<1> QED BY <1>10, <1>14, <1>15, <1>16, <1>17, <1>18 DEF Inv, Types

-----------------------------------------------------------------------------
(* The invariant holds, and with it what the runs check. *)

\* What there is at first: nothing, or a server that lives.
LEMMA FirstIs ==
    /\ Fresh \in ProcRec /\ Sound(Fresh) /\ Fresh.os = "up" /\ Fresh.stop = "no" /\ Fresh.reaper = "wait"
    /\ Fresh.pump = "idle"
    /\ NoProc \in ProcRec /\ Sound(NoProc) /\ NoProc.stop = "no" /\ NoProc.reaper = "none" /\ NoProc.pump = "idle"
BY DEF Fresh, NoProc, ProcRec, Sound

\* It holds of every opening scene.
LEMMA InitIs == Init => Inv
<1> USE Numbers
<1> SUFFICES ASSUME Init PROVE Inv OBVIOUS
<1>1. PICK s \in Scenarios : Opening(s) BY DEF Init
<1>2. /\ s.plan \in [Runners -> Seq(RunnerOps)] /\ s.sweeps \in Seq(PoolOps)
      /\ s.warm \in {0, 1} /\ s.on \subseteq Runners /\ (s.warm = 0 => s.on = {})
      /\ s.timeouts \in 0 .. MaxTimeouts /\ s.faults \in 0 .. MaxFaults
    BY CodexAssumption
<1>3. /\ helper = {} /\ owner = TRUE /\ poolLock = "nobody" /\ swept = {}
      /\ requests = [g \in Procs |-> << >>] /\ lines = [g \in Procs |-> << >>]
      /\ mouth = [g \in Procs |-> << >>] /\ turn = [g \in Procs |-> [r \in Runners |-> 0]]
      /\ asking = {} /\ nextTurn = 1 /\ answer = [r \in Runners |-> << >>]
      /\ ear = [r \in Runners |-> << >>] /\ owed = [r \in Runners |-> 0]
    BY DEF Init
<1>4. /\ pool = s.warm
      /\ proc = [p \in Procs |-> IF p = s.warm THEN Fresh ELSE NoProc]
      /\ guardian = [p \in Procs |-> IF p = s.warm THEN "watching" ELSE "none"]
      /\ plan = s.plan /\ sweeper = [pc |-> "idle", on |-> 0, plan |-> s.sweeps]
      /\ timeouts = s.timeouts /\ faults = s.faults
    BY <1>1 DEF Opening
<1> DEFINE At(r) == IF r \in s.on THEN s.warm ELSE 0
<1>5. runner = [r \in Runners |-> [pc |-> "idle", on |-> At(r), shared |-> At(r), method |-> "none", id |-> 0,
                                   open |-> 0, started |-> 0]]
    BY <1>1 DEF Opening
<1>6. \A r \in Runners : At(r) # 0 => r \in s.on /\ At(r) = s.warm OBVIOUS
<1> HIDE DEF At
<1>7. \A r \in Runners : runner[r].pc = "idle" /\ runner[r].on = At(r) /\ runner[r].shared = At(r) BY <1>5
<1> DEFINE Route(g, r) == IF g = s.warm /\ r \in s.on THEN 0 ELSE NoRoute
           Routed(g) == [r \in Runners |-> Route(g, r)]
<1>8. shared = [g \in Procs |-> [NoShared EXCEPT !.memo = (g = s.warm), !.routes = Routed(g)]]
    BY <1>1 DEF Opening
<1>9. \A g \in Procs : /\ shared[g] \in SharedRec /\ shared[g].stopping = FALSE /\ shared[g].pending = {}
                       /\ shared[g].routes = Routed(g)
  <2> TAKE g \in Procs
  <2>1. NoShared \in SharedRec /\ NoShared.stopping = FALSE /\ NoShared.pending = {}
    <3>1. [r \in Runners |-> NoRoute] \in [Runners -> Routes] OBVIOUS
    <3> QED BY <3>1 DEF NoShared, SharedRec
  <2>2. Routed(g) \in [Runners -> Routes] OBVIOUS
  <2>3. PICK m \in BOOLEAN : m = (g = s.warm) OBVIOUS
  <2>4. shared[g] = [NoShared EXCEPT !.memo = m, !.routes = Routed(g)] BY <1>8, <2>3
  <2> HIDE DEF Routed
  <2> QED BY <2>1, <2>2, <2>4 DEF SharedRec
<1>10. s.warm # 0 => s.warm \in Procs
    BY CodexAssumption
\* Nobody is attached to a server that is not there.
<1>11. \A r \in Runners : At(r) \in Procs \cup {0} /\ (At(r) # 0 => proc[At(r)] = Fresh) BY <1>4, <1>6, <1>10
<1>12. \A g \in Procs : proc[g] \in {Fresh, NoProc} BY <1>4
<1>13. ProcT BY <1>3, <1>4, FirstIs DEF ProcT
<1>14. PoolT BY <1>2, <1>3, <1>4, <1>10 DEF PoolT, SweepRec
<1>15. WireT /\ NativeT
  <2>1. \A g \in Procs : turn[g] \in [Runners -> Turns] BY <1>3
  <2>2. turn \in [Procs -> [Runners -> Turns]] BY <1>3, <2>1
  <2> QED BY <1>3, <2>2 DEF WireT, NativeT
<1>16. MouthT
  <2>1. << >> \in Short(Runners) BY DEF Short
  <2>2. \A g \in Procs : proc[g].pump = "idle" BY <1>12, FirstIs
  <2> QED BY <1>3, <2>1, <2>2 DEF MouthT
<1>17. ChatT BY <1>2, <1>3, <1>4 DEF ChatT
<1>18. RunT
  <2>1. \A r \in Runners : runner[r] \in RunRec BY <1>5, <1>11 DEF RunRec, Places, Methods
  <2> QED BY <1>5, <2>1 DEF RunT
<1>19. AnswerT
  <2>1. << >> \in Short(AnswerRec) BY DEF Short
  <2> QED BY <1>3, <2>1 DEF AnswerT
<1>20. SharedT BY <1>8, <1>9 DEF SharedT
<1>21. BoundT BY <1>2, <1>4 DEF BoundT
<1>22. Reaped BY <1>12, FirstIs DEF Reaped
<1>23. Used
  <2>1. AtPlaces BY <1>7 DEF AtPlaces, Placed, CallPlaces, StartPlaces, BootPlaces
  <2>2. Started
    <3>1. pool # 0 => proc[pool].os # "none" BY <1>4, <1>10, FirstIs
    <3> QED BY <1>7, <1>11, <3>1, FirstIs DEF Started
  <2>3. OwnServer BY <1>7 DEF OwnServer
  <2>4. PutDown BY <1>12, FirstIs DEF PutDown
  <2> QED BY <2>1, <2>2, <2>3, <2>4 DEF Used
<1>24. Hooked
  <2> SUFFICES ASSUME NEW r \in Runners, At(r) # 0 PROVE shared[At(r)].routes[r] # NoRoute
      BY <1>7, <1>9 DEF Hooked
  <2>1. At(r) = s.warm /\ r \in s.on /\ At(r) \in Procs BY <1>6, <1>11
  <2>2. shared[At(r)].routes[r] = 0 BY <1>9, <2>1
  <2> QED BY <2>2
<1>25. Heeded
  <2>1. \A g \in Procs : proc[g].reaper # "done" BY <1>12, FirstIs
  <2> QED BY <1>7, <1>11, <2>1 DEF Heeded
<1>26. Registered BY <1>7 DEF Registered, Waiting
<1>27. Cleared BY <1>9 DEF Cleared
<1> QED BY <1>13, <1>14, <1>15, <1>16, <1>17, <1>18, <1>19, <1>20, <1>21, <1>22, <1>23, <1>24, <1>25, <1>26, <1>27
        DEF Inv, Types, Core

\* What goes on in a process with nobody else.
LEMMA AloneKeeps ==
    ASSUME Inv, NEW g \in Procs, Stopping(g) \/ Noticed(g) \/ ExitCall(g) \/ Outside(g), UNCHANGED codexVars
    PROVE  Inv'
<1>1. /\ UNCHANGED <<sharedVars, wireVars, nativeVars, runnerVars, sweeper, ear, historyVars>>
      /\ UNCHANGED <<timeouts, faults>>
    BY DEF codexVars, boundVars
<1>2. UNCHANGED <<pool, poolLock, shared>> BY <1>1 DEF sharedVars
<1>3. BoundT' BY <1>1 DEF Inv, Types, BoundT
<1>4. CASE GuardianLeaves(g) BY <1>1, <1>3, <1>4, OutsideSteps
<1>5. CASE Stopping(g) \/ Noticed(g) \/ ExitCall(g) \/ GuardianKills(g) BY <1>1, <1>2, <1>3, <1>5, ProcessSteps
<1> QED BY <1>4, <1>5 DEF Outside

\* Everything that a conductor asks for, and how it goes on.
LEMMA RunnerKeeps ==
    ASSUME Inv, NEW r \in Runners, Operation(r) \/ Goes(r) \/ Inject(r)
    PROVE  Inv'
<1>1. CASE Operation(r)
    BY <1>1, MoveSteps, BootKeeps, OrderSteps, SkipKeeps, StopKeeps, TimeoutKeeps DEF Operation
<1>2. CASE Goes(r)
    BY <1>2, BootedKeeps, BootFailsKeeps, MoveSteps, CallSteps, SilenceKeeps, AnsweredSteps, AttachKeeps DEF Goes
<1> QED BY <1>1, <1>2, CallSteps

\* Every step keeps the invariant.
LEMMA NextIs == Inv /\ [Next]_vars => Inv'
<1> SUFFICES ASSUME Inv, [Next]_vars PROVE Inv' OBVIOUS
<1>1. CASE Next
  <2>1. ASSUME NEW r \in Runners, Operation(r) \/ Goes(r) \/ Inject(r) PROVE Inv' BY <2>1, RunnerKeeps
  <2>2. ASSUME NEW g \in Procs, Callbacks(g) PROVE Inv'
      BY <2>2, HearSteps, DeclineKeeps, HearNoteKeeps, EmitKeeps, OnExitKeeps, NotifyExitKeeps DEF Callbacks
  <2>3. ASSUME NEW g \in Procs, Process(g) \/ (Outside(g) /\ UNCHANGED codexVars) PROVE Inv'
      BY <2>3, AloneKeeps DEF Process
  <2>4. CASE Reap \/ ReapNothing \/ Shutdown \/ Retired BY <2>4, SweepSteps
  <2>5. CASE Retire BY <2>5, RetireKeeps
  <2>6. ASSUME NEW g \in Procs, Native(g) PROVE Inv' BY <2>6, NativeKeeps
  <2>7. CASE OwnerDies /\ Fault /\ UNCHANGED <<nativeRest, requests, lines, nativeVars>>
    <3>1. UNCHANGED timeouts BY <2>7 DEF nativeRest
    <3>2. BoundT' BY <2>7, <3>1, FaultIs DEF BoundT, Inv, Types
    <3>3. UNCHANGED <<sharedVars, wireVars, runnerVars, sweeper, ear, historyVars, nativeVars>>
        BY <2>7 DEF nativeRest, wireVars
    <3> QED BY <2>7, <3>2, <3>3, OutsideSteps
  <2> QED BY <1>1, <2>1, <2>2, <2>3, <2>4, <2>5, <2>6, <2>7 DEF Next, Omni
<1>2. CASE UNCHANGED vars
  <2>1. /\ UNCHANGED <<proc, helper, guardian, owner, pool, poolLock, shared, requests, lines, mouth, turn, asking, nextTurn>>
        /\ UNCHANGED <<runner, answer, plan, sweeper, ear, owed, swept, timeouts, faults>>
      BY <1>2 DEF vars, procVars, codexVars, sharedVars, wireVars, nativeVars, runnerVars, historyVars, boundVars
  <2>2. SameHooks BY <2>1 DEF SameHooks
  <2>3. Core' BY <2>1, <2>2, Nothing DEF Inv
  <2>4. ProcT' /\ PoolT' /\ WireT' /\ MouthT' /\ NativeT' BY <2>1 DEF Inv, Types, ProcT, PoolT, WireT, MouthT, NativeT
  <2>5. ChatT' /\ RunT' /\ AnswerT' /\ SharedT' /\ BoundT' BY <2>1 DEF Inv, Types, ChatT, RunT, AnswerT, SharedT, BoundT
  <2> QED BY <2>3, <2>4, <2>5 DEF Inv, Types
<1> QED BY <1>1, <1>2

\* The inductive invariant: types, who uses which server, and who is told.
LEMMA InvHolds == Spec => []Inv
<1>1. Init => Inv BY InitIs
<1>2. Inv /\ [Next]_vars => Inv' BY NextIs
<1> QED BY <1>1, <1>2, PTL DEF Spec

\* Every variable has its type, whatever sessions, servers, plans and sweeps.
THEOREM TypesKept == Spec => []TypeOK
<1>1. Inv => TypeOK BY TypesAre DEF Inv
<1> QED BY <1>1, InvHolds, PTL

\* A chat whose server has died hears of it once the reaper is through, also
\* one that was attaching at that moment, unless a sweep took the server on:
\* attach looks at the flag that the reaper lowers before it calls notify_exit.
THEOREM ExitIsTold == Spec => []ExitToldUnlessSwept
<1>1. Inv => ExitToldUnlessSwept BY HeededIs DEF Inv, Core, Types
<1> QED BY <1>1, InvHolds, PTL

\* No call waits for a server whose exit was handled, unless a sweep has taken
\* that server: send_line refuses what on_exit would miss.
THEOREM CallsAnswered == Spec => []CallsReturnUnlessSwept
<1>1. Inv => CallsReturnUnlessSwept BY ReturnIs DEF Inv
<1> QED BY <1>1, InvHolds, PTL

-----------------------------------------------------------------------------
(* What a conductor is owed: every turn that was announced to it ends.       *)

\* A plan in which nothing is sent behind a compaction, before the next stop:
\* what is sent during one is folded into its turn, which is then announced twice.
Ahead(p) == \E j \in DOMAIN p : p[j] = "send" /\ \A k \in DOMAIN p : k < j => p[k] # "stop"
Undisturbed(p) ==
    \A i, j \in DOMAIN p : i < j /\ p[i] = "compact" /\ p[j] = "send" =>
        \E k \in DOMAIN p : i < k /\ k < j /\ p[k] = "stop"

SendPlaces == {"steering", "opening", "steer", "turn"}
Sends(r) == runner[r].pc \in SendPlaces \/ Ahead(plan[r])

\* The call at hand has been granted, with turn t.
Grants(m, r, t) == m.kind = "reply" /\ m.to = r /\ m.id = runner[r].id /\ m.ok /\ m.turn = t
Given(r, g, t) ==
    IF answer[r] = << >> THEN \E m \in Range(lines[g]) : Grants(m, r, t)
    ELSE Head(answer[r]).ok /\ Head(answer[r]).turn = t

\* An end is going to be owed: for the turn that an answer announces, or for one
\* that runs and that no answer has announced.
Announced(r, g) ==
    \E t \in Turns : Given(r, g, t) /\ (runner[r].pc = "compact" \/ (runner[r].pc = "turn" /\ ~Landed(r, t)))
Unknown(r, g) == turn[g][r] # 0 /\ turn[g][r] # runner[r].started /\ Sends(r)
OwedNext(r, g) == IF Announced(r, g) \/ Unknown(r, g) THEN 1 ELSE 0

\* The ends that were heard, that the pump holds, that are on the wire, and the
\* one that the turn which runs is going to have.
Count(s, M) == Cardinality({i \in DOMAIN s : s[i] \in M})
Endings(r) == {m \in NoteRec : m.what = "completed" /\ m.to = r}
Written(r, g) == Count(lines[g], Endings(r))
Said(r, g) == IF mouth[g] # << >> /\ Head(mouth[g]) = r THEN 1 ELSE 0
Runs(r, g) == IF turn[g][r] # 0 THEN 1 ELSE 0
Paid(r, g) == Ends(r) + Said(r, g) + Written(r, g) + Runs(r, g)

\* A chat that is attached to a server that works and is heard.
On(r, g) == runner[r].shared = g /\ proc[g].os = "up" /\ proc[g].gate
Ledger == \A r \in Runners : \A g \in Procs : On(r, g) => owed[r] + OwedNext(r, g) <= Paid(r, g)

\* What a runner asks of a server is answered in order.
InTurn ==
    \A g \in Procs :
        /\ \A i, j \in DOMAIN requests[g] :
               i < j /\ requests[g][i].by = requests[g][j].by => requests[g][i].id < requests[g][j].id
        /\ \A q \in Range(requests[g]) : q.id <= runner[q.by].id
        /\ \A m \in Range(lines[g]) : m.kind = "reply" =>
               /\ m.id <= runner[m.to].id
               /\ \A q \in Range(requests[g]) : q.by = m.to => m.id < q.id

\* Only the call at hand is pending, and it asks what its place says.
AtHand ==
    /\ \A g \in Procs : \A r \in Runners : \A n \in Nat : <<r, n>> \in shared[g].pending =>
           runner[r].on = g /\ runner[r].id = n /\ runner[r].pc \in Waiting /\ answer[r] = << >>
    /\ \A g \in Procs : \A q \in Range(requests[g]) : q.id = runner[q.by].id =>
           /\ runner[q.by].pc = "turn" => q.method = "turn/start"
           /\ runner[q.by].pc = "compact" => q.method = "compact"

\* The turn that an answer tells of is the last one of its thread, and it was
\* the last call that was to be answered.
Newest ==
    \A r \in Runners : \A g \in Procs : \A t \in Turns :
        runner[r].pc = "turn" /\ runner[r].on = g /\ Given(r, g, t) =>
            turn[g][r] \in {0, t} /\ \A q \in Range(requests[g]) : q.by # r

\* Whoever compacts sends nothing meanwhile.
AtPeace ==
    \A r \in Runners : Undisturbed(plan[r]) /\ (runner[r].pc = "compact" => ~Ahead(plan[r]))

Books == InTurn /\ AtHand /\ Newest /\ AtPeace /\ Ledger

-----------------------------------------------------------------------------
(* Counting along a sequence. *)

\* What is counted is a natural number.
LEMMA CountType ==
    ASSUME NEW S, NEW s \in Seq(S), NEW M
    PROVE  Count(s, M) \in Nat /\ IsFiniteSet({i \in DOMAIN s : s[i] \in M}) /\ (s = << >> => Count(s, M) = 0)
<1>1. DOMAIN s = 1 .. Len(s) /\ Len(s) \in Nat OBVIOUS
<1>2. IsFiniteSet(DOMAIN s) BY <1>1, FS_Interval
<1> DEFINE A == {i \in DOMAIN s : s[i] \in M}
<1>3. A \in SUBSET DOMAIN s OBVIOUS
<1>4. s = << >> => A = {} OBVIOUS
<1> HIDE DEF A
<1>5. IsFiniteSet(A) /\ Cardinality(A) \in Nat BY <1>2, <1>3, FS_Subset, FS_CardinalityType
<1> QED BY <1>4, <1>5, FS_EmptySet DEF Count, A

\* An element is put at the end.
LEMMA CountAppend ==
    ASSUME NEW S, NEW s \in Seq(S), NEW x \in S, NEW M
    PROVE  Count(Append(s, x), M) = Count(s, M) + (IF x \in M THEN 1 ELSE 0)
<1> DEFINE t == Append(s, x)
           k == Len(s) + 1
           A == {i \in DOMAIN s : s[i] \in M}
           B == {i \in DOMAIN t : t[i] \in M}
<1>1. /\ DOMAIN s = 1 .. Len(s) /\ DOMAIN t = 1 .. k /\ Len(s) \in Nat /\ t[k] = x
      /\ \A i \in 1 .. Len(s) : t[i] = s[i]
    OBVIOUS
<1> HIDE DEF t
<1>2. B = (IF x \in M THEN A \cup {k} ELSE A) /\ k \notin A BY <1>1
<1>3. IsFiniteSet(A) /\ Cardinality(A) \in Nat BY CountType DEF Count
<1> HIDE DEF A, B, k
<1>4. Cardinality(A \cup {k}) = Cardinality(A) + 1 BY <1>2, <1>3, FS_AddElement
<1>5. Count(t, M) = Cardinality(B) /\ Count(s, M) = Cardinality(A) BY DEF Count, A, B
<1> QED BY <1>2, <1>3, <1>4, <1>5 DEF t

\* The first element is taken off.
LEMMA CountTail ==
    ASSUME NEW S, NEW s \in Seq(S), s # << >>, NEW M
    PROVE  Count(s, M) = Count(Tail(s), M) + (IF Head(s) \in M THEN 1 ELSE 0)
<1> DEFINE t == Tail(s)
           A == {i \in DOMAIN s : s[i] \in M}
           B == {i \in DOMAIN t : t[i] \in M}
           C == {i \in DOMAIN s : i > 1 /\ s[i] \in M}
           f == [i \in B |-> i + 1]
<1>1. /\ t \in Seq(S) /\ DOMAIN s = 1 .. Len(s) /\ DOMAIN t = 1 .. Len(s) - 1 /\ Len(s) \in Nat \ {0}
      /\ Head(s) = s[1] /\ \A i \in 1 .. Len(s) - 1 : t[i] = s[i + 1]
    OBVIOUS
<1> HIDE DEF t
<1>2. f \in Bijection(B, C)
  <2>1. f \in [B -> C] BY <1>1
  <2>2. \A i, j \in B : f[i] = f[j] => i = j BY <1>1
  <2>3. \A k \in C : \E i \in B : f[i] = k
    <3> TAKE k \in C
    <3>1. k - 1 \in B BY <1>1
    <3>2. f[k - 1] = k BY <1>1, <3>1
    <3> QED BY <3>1, <3>2
  <2> HIDE DEF B, C, f
  <2> QED BY <2>1, <2>2, <2>3 DEF Bijection, Injection, Surjection, IsInjective
<1>3. IsFiniteSet(B) /\ Cardinality(B) \in Nat BY <1>1, CountType DEF Count
<1>4. Cardinality(C) = Cardinality(B) /\ IsFiniteSet(C)
  <2> HIDE DEF B, C, f
  <2> QED BY <1>2, <1>3, FS_Bijection DEF ExistsBijection
<1>5. A = (IF s[1] \in M THEN C \cup {1} ELSE C) /\ 1 \notin C BY <1>1
<1>6. Count(s, M) = Cardinality(A) /\ Count(t, M) = Cardinality(B) BY DEF Count
<1> HIDE DEF A, B, C, f
<1>7. Cardinality(C \cup {1}) = Cardinality(C) + 1 BY <1>4, <1>5, FS_AddElement
<1> QED BY <1>1, <1>3, <1>4, <1>5, <1>6, <1>7 DEF t

\* What is in a sequence that gets longer or shorter, and that what is said are
\* one or two lines more.
LEMMA RangeIs ==
    ASSUME NEW S, NEW s \in Seq(S)
    PROVE  /\ \A x \in S : Range(Append(s, x)) = Range(s) \cup {x}
           /\ s # << >> => Range(s) = {Head(s)} \cup Range(Tail(s))
           /\ Range(s) \subseteq S
           /\ \A x \in S : s \o <<x>> = Append(s, x)
           /\ \A x, y \in S : s \o <<x, y>> = Append(Append(s, x), y)
<1>1. ASSUME NEW x \in S PROVE Range(Append(s, x)) = Range(s) \cup {x}
  <2> DEFINE t == Append(s, x)
  <2>1. /\ DOMAIN s = 1 .. Len(s) /\ DOMAIN t = 1 .. Len(s) + 1 /\ Len(s) \in Nat /\ t[Len(s) + 1] = x
        /\ \A i \in 1 .. Len(s) : t[i] = s[i]
      OBVIOUS
  <2> HIDE DEF t
  <2>2. \A y \in Range(t) : y \in Range(s) \cup {x} BY <2>1 DEF Range
  <2>3. \A y \in Range(s) \cup {x} : y \in Range(t) BY <2>1 DEF Range
  <2> QED BY <2>2, <2>3 DEF t
<1>2. ASSUME s # << >> PROVE Range(s) = {Head(s)} \cup Range(Tail(s))
  <2> DEFINE t == Tail(s)
  <2>1. /\ DOMAIN s = 1 .. Len(s) /\ DOMAIN t = 1 .. Len(s) - 1 /\ Len(s) \in Nat \ {0}
        /\ Head(s) = s[1] /\ \A i \in 1 .. Len(s) - 1 : t[i] = s[i + 1]
      BY <1>2
  <2> HIDE DEF t
  <2>2. ASSUME NEW y \in Range(s) PROVE y \in {Head(s)} \cup Range(t)
    <3>1. PICK i \in DOMAIN s : y = s[i] BY DEF Range
    <3>2. CASE i = 1 BY <2>1, <3>1, <3>2
    <3>3. CASE i # 1
      <4>1. i - 1 \in DOMAIN t /\ t[i - 1] = s[(i - 1) + 1] /\ (i - 1) + 1 = i BY <2>1, <3>3
      <4> QED BY <3>1, <4>1 DEF Range
    <3> QED BY <3>2, <3>3
  <2>3. \A y \in {Head(s)} \cup Range(t) : y \in Range(s) BY <2>1 DEF Range
  <2> QED BY <2>2, <2>3 DEF t
<1>3. Range(s) \subseteq S BY DEF Range
<1>4. ASSUME NEW x \in S PROVE s \o <<x>> = Append(s, x) OBVIOUS
<1>5. ASSUME NEW x \in S, NEW y \in S PROVE s \o <<x, y>> = Append(Append(s, x), y) OBVIOUS
<1> QED BY <1>1, <1>2, <1>3, <1>4, <1>5

-----------------------------------------------------------------------------
(* What is counted in the ledger. *)

\* The ends that were heard, counted.
HeardEnds == {e \in HeardRec : e.kind = "end"}
LEMMA EndsIs == ASSUME ChatT, NEW r \in Runners PROVE Ends(r) = Count(ear[r], HeardEnds) /\ Ends(r) \in Nat
<1>1. ear[r] \in Seq(HeardRec) BY DEF ChatT
<1>2. \A i \in DOMAIN ear[r] : ear[r][i].kind = "end" <=> ear[r][i] \in HeardEnds BY <1>1 DEF HeardEnds
<1>3. {i \in DOMAIN ear[r] : ear[r][i].kind = "end"} = {i \in DOMAIN ear[r] : ear[r][i] \in HeardEnds} BY <1>2
<1>4. Ends(r) = Count(ear[r], HeardEnds) BY <1>3 DEF Ends, Count
<1> QED BY <1>1, <1>4, CountType

\* All that is counted in the ledger are natural numbers.
LEMMA Numeric ==
    ASSUME Inv, NEW r \in Runners, NEW g \in Procs
    PROVE  /\ Ends(r) \in Nat /\ Written(r, g) \in Nat /\ owed[r] \in Nat
           /\ Said(r, g) \in {0, 1} /\ Runs(r, g) \in {0, 1} /\ OwedNext(r, g) \in {0, 1}
           /\ Paid(r, g) \in Nat
<1>1. lines[g] \in Seq(LineRec) BY DEF Inv, Types, WireT
<1>2. Written(r, g) \in Nat BY <1>1, CountType DEF Written
<1>3. Ends(r) \in Nat BY EndsIs DEF Inv, Types
<1>4. owed[r] \in Nat BY DEF Inv, Types, ChatT
<1>5. Said(r, g) \in {0, 1} /\ Runs(r, g) \in {0, 1} /\ OwedNext(r, g) \in {0, 1} BY DEF Said, Runs, OwedNext
<1> QED BY <1>2, <1>3, <1>4, <1>5 DEF Paid

\* Who calls a server that it is attached to is on it.
LEMMA CallsOn ==
    ASSUME Inv, NEW r \in Runners, runner[r].pc \in {"turn", "compact"}
    PROVE  runner[r].on = runner[r].shared /\ runner[r].on \in Procs
BY DEF Inv, Types, RunT, RunRec, Core, Used, AtPlaces, Placed, CallPlaces

\* A runner that goes on without a call.
Moved(s) ==
    /\ runner'[s].id = runner[s].id /\ runner'[s].started = runner[s].started
    /\ runner'[s].shared \in {0, runner[s].shared} /\ runner'[s].pc \notin {"turn", "compact"}
    /\ runner[s].pc \in Waiting => answer[s] # << >>
Down == \A g \in Procs : proc'[g].os = "up" /\ proc'[g].gate => proc[g].os = "up" /\ proc[g].gate

\* A step in which nobody calls and nothing is said.
LEMMA FrameBooks ==
    ASSUME Inv, Inv', Books, AtPeace', Down,
           \A s \in Runners : runner'[s] = runner[s] \/ Moved(s),
           \A s \in Runners : runner'[s].shared # 0 /\ Sends(s)' => Sends(s),
           \A s \in Runners : answer'[s] = answer[s] \/ answer'[s] = <<Failure>>,
           \A g \in Procs : shared'[g].pending \subseteq shared[g].pending,
           \A g \in Procs : \A s \in Runners : \A n \in Nat : <<s, n>> \in shared'[g].pending => answer'[s] = answer[s],
           \A s \in Runners : Ends(s)' = Ends(s),
           UNCHANGED <<requests, lines, mouth, turn, owed>>
    PROVE  Books'
<1> USE Numbers
<1>1. \A s \in Runners : runner'[s].id = runner[s].id BY DEF Moved
<1>2. runner \in [Runners -> RunRec] /\ runner' \in [Runners -> RunRec] BY DEF Inv, Types, RunT
<1>3. \A g \in Procs : Range(requests[g]) \subseteq RequestRec /\ Range(lines[g]) \subseteq LineRec
    BY RangeIs DEF Inv, Types, WireT
<1>4. \A q \in RequestRec : q.by \in Runners BY DEF RequestRec
<1>5. \A m \in LineRec : m.kind = "reply" => m.to \in Runners BY DEF LineRec, ReplyRec, NoteRec
<1>6. InTurn' BY <1>1, <1>3, <1>4, <1>5 DEF Books, InTurn
<1>7. AtHand'
  <2>1. ASSUME NEW g \in Procs, NEW r \in Runners, NEW n \in Nat, <<r, n>> \in shared'[g].pending
        PROVE  runner'[r].on = g /\ runner'[r].id = n /\ runner'[r].pc \in Waiting /\ answer'[r] = << >>
    <3>1. runner[r].on = g /\ runner[r].id = n /\ runner[r].pc \in Waiting /\ answer[r] = << >>
        BY <2>1 DEF Books, AtHand
    <3>2. answer'[r] = answer[r] /\ ~Moved(r) BY <2>1, <3>1 DEF Moved
    <3> QED BY <3>1, <3>2
  <2>2. ASSUME NEW g \in Procs, NEW q \in Range(requests[g]), q.id = runner'[q.by].id
        PROVE  /\ runner'[q.by].pc = "turn" => q.method = "turn/start"
               /\ runner'[q.by].pc = "compact" => q.method = "compact"
    <3>1. q.by \in Runners BY <1>3, <1>4
    <3> QED BY <1>1, <2>2, <3>1 DEF Books, AtHand, Moved
  <2> QED BY <2>1, <2>2 DEF AtHand
<1>8. ASSUME NEW r \in Runners, NEW g \in Procs, NEW t \in Turns, runner'[r].pc \in {"turn", "compact"}, Given(r, g, t)'
      PROVE  runner'[r] = runner[r] /\ Given(r, g, t)
  <2>1. runner'[r] = runner[r] BY <1>8 DEF Moved
  <2>2. answer'[r] = answer[r]
    <3>1. Head(<<Failure>>).ok = FALSE /\ <<Failure>> # << >> BY DEF Failure
    <3> QED BY <1>8, <3>1 DEF Given
  <2> QED BY <1>8, <2>1, <2>2 DEF Given, Grants
<1>9. Newest'
  <2> SUFFICES ASSUME NEW r \in Runners, NEW g \in Procs, NEW t \in Turns,
                      runner'[r].pc = "turn", runner'[r].on = g, Given(r, g, t)'
               PROVE  turn'[g][r] \in {0, t} /\ \A q \in Range(requests'[g]) : q.by # r
      BY DEF Newest
  <2>1. runner'[r] = runner[r] /\ Given(r, g, t) BY <1>8
  <2>2. runner[r].pc = "turn" /\ runner[r].on = g BY <2>1
  <2>3. Newest BY DEF Books
  <2>4. turn[g][r] \in {0, t} /\ \A q \in Range(requests[g]) : q.by # r BY <2>1, <2>2, <2>3 DEF Newest
  <2> QED BY <2>4
<1>10. Ledger'
  <2> SUFFICES ASSUME NEW r \in Runners, NEW g \in Procs, On(r, g)'
               PROVE  owed'[r] + OwedNext(r, g)' <= Paid(r, g)'
      BY DEF Ledger
  <2>1. On(r, g) BY DEF On, Down, Moved
  <2>2. owed[r] + OwedNext(r, g) <= Paid(r, g) BY <2>1 DEF Books, Ledger
  <2>3. Paid(r, g)' = Paid(r, g) BY DEF Paid, Said, Written, Runs
  <2>4. Announced(r, g)' => Announced(r, g) BY <1>8 DEF Announced, Landed
  <2>5. Unknown(r, g)' => Unknown(r, g)
    <3>1. runner'[r].started = runner[r].started /\ runner'[r].shared # 0 BY DEF On, Moved
    <3> QED BY <3>1 DEF Unknown
  <2>6. OwedNext(r, g)' <= OwedNext(r, g) /\ OwedNext(r, g)' \in {0, 1} BY <2>4, <2>5 DEF OwedNext
  <2>7. owed'[r] = owed[r] /\ owed[r] \in Nat /\ OwedNext(r, g) \in {0, 1} /\ Paid(r, g) \in Nat BY Numeric
  <2> QED BY <2>2, <2>3, <2>6, <2>7
<1> QED BY <1>6, <1>7, <1>9, <1>10 DEF Books

-----------------------------------------------------------------------------
(* A runner goes on with its plan. *)

\* What is ahead in a plan when its first operation is taken.
LEMMA PlanIs ==
    ASSUME NEW p \in Seq(RunnerOps), p # << >>, Undisturbed(p)
    PROVE  /\ Undisturbed(Tail(p))
           /\ Head(p) # "stop" /\ Ahead(Tail(p)) => Ahead(p)
           /\ Head(p) = "compact" => ~Ahead(Tail(p))
           /\ Head(p) = "send" => Ahead(p)
<1> DEFINE t == Tail(p)
<1>1. /\ DOMAIN p = 1 .. Len(p) /\ DOMAIN t = 1 .. Len(p) - 1 /\ Len(p) \in Nat \ {0}
      /\ Head(p) = p[1] /\ \A i \in 1 .. Len(p) - 1 : t[i] = p[i + 1]
    OBVIOUS
<1> HIDE DEF t
<1>2. /\ \A i \in DOMAIN t : i \in Nat /\ i + 1 \in DOMAIN p /\ t[i] = p[i + 1] /\ 1 < i + 1
      /\ \A k \in DOMAIN p : k \in Nat /\ (k # 1 => 1 < k) /\ (1 < k => k - 1 \in DOMAIN t /\ t[k - 1] = p[k])
      /\ 1 \in DOMAIN p
  <2>1. \A k \in DOMAIN p : 1 < k => k - 1 \in 1 .. Len(p) - 1 /\ (k - 1) + 1 = k BY <1>1
  <2> QED BY <1>1, <2>1
<1>3. Undisturbed(t)
  <2> SUFFICES ASSUME NEW i \in DOMAIN t, NEW j \in DOMAIN t, i < j, t[i] = "compact", t[j] = "send"
               PROVE  \E k \in DOMAIN t : i < k /\ k < j /\ t[k] = "stop"
      BY DEF Undisturbed
  <2>1. i + 1 < j + 1 /\ p[i + 1] = "compact" /\ p[j + 1] = "send" /\ i + 1 \in DOMAIN p /\ j + 1 \in DOMAIN p
      BY <1>2
  <2>2. PICK k \in DOMAIN p : i + 1 < k /\ k < j + 1 /\ p[k] = "stop" BY <2>1 DEF Undisturbed
  <2>3. k \in Nat /\ i \in Nat /\ j \in Nat BY <1>2
  <2>4. 1 < k /\ i < k - 1 /\ k - 1 < j BY <2>2, <2>3
  <2> QED BY <1>2, <2>2, <2>4
<1>4. ASSUME Head(p) # "stop", Ahead(t) PROVE Ahead(p)
  <2>1. PICK j \in DOMAIN t : t[j] = "send" /\ \A k \in DOMAIN t : k < j => t[k] # "stop" BY <1>4 DEF Ahead
  <2>2. j \in Nat /\ j + 1 \in DOMAIN p /\ p[j + 1] = "send" BY <1>2, <2>1
  <2>3. ASSUME NEW k \in DOMAIN p, k < j + 1, p[k] = "stop" PROVE FALSE
    <3>1. k # 1 BY <1>1, <1>4, <2>3
    <3>2. k \in Nat /\ k - 1 \in DOMAIN t /\ t[k - 1] = "stop" BY <1>2, <2>3, <3>1
    <3>3. k - 1 < j BY <2>2, <2>3, <3>2
    <3> QED BY <2>1, <3>2, <3>3
  <2> QED BY <2>2, <2>3 DEF Ahead
<1>5. ASSUME Head(p) = "compact", Ahead(t) PROVE FALSE
  <2>1. PICK j \in DOMAIN t : t[j] = "send" /\ \A k \in DOMAIN t : k < j => t[k] # "stop" BY <1>5 DEF Ahead
  <2>2. j \in Nat /\ j + 1 \in DOMAIN p /\ p[j + 1] = "send" /\ 1 < j + 1 BY <1>2, <2>1
  <2>3. PICK k \in DOMAIN p : 1 < k /\ k < j + 1 /\ p[k] = "stop" BY <1>1, <1>2, <1>5, <2>2 DEF Undisturbed
  <2>4. k \in Nat /\ k - 1 \in DOMAIN t /\ t[k - 1] = "stop" BY <1>2, <2>3
  <2>5. k - 1 < j BY <2>2, <2>3, <2>4
  <2> QED BY <2>1, <2>4, <2>5
<1>6. ASSUME Head(p) = "send" PROVE Ahead(p)
  <2>1. \A k \in DOMAIN p : ~(k < 1) BY <1>1
  <2> QED BY <1>1, <1>2, <1>6, <2>1 DEF Ahead
<1> QED BY <1>3, <1>4, <1>5, <1>6 DEF t

\* A plan stays as it is, or its first operation is taken.
GoesOn(r) == plan' = plan \/ (plan[r] # << >> /\ Done(r))

\* The plans of all, when one goes on with its own.
LEMMA PlansAre ==
    ASSUME Inv, Books, NEW r \in Runners, GoesOn(r)
    PROVE  /\ \A s \in Runners : Undisturbed(plan'[s]) /\ (s # r => plan'[s] = plan[s])
           /\ Ahead(plan'[r]) => Ahead(plan[r]) \/ (plan[r] # << >> /\ Head(plan[r]) = "stop" /\ Done(r))
           /\ Done(r) /\ plan[r] # << >> /\ Head(plan[r]) = "compact" => ~Ahead(plan'[r])
           /\ Done(r) /\ plan[r] # << >> /\ Head(plan[r]) = "send" => Ahead(plan[r])
<1>1. plan \in [Runners -> Seq(RunnerOps)] BY DEF Inv, Types, ChatT
<1>2. \A s \in Runners : Undisturbed(plan[s]) BY DEF Books, AtPeace
<1>3. ASSUME plan[r] # << >>
      PROVE  /\ Undisturbed(Tail(plan[r]))
             /\ Head(plan[r]) # "stop" /\ Ahead(Tail(plan[r])) => Ahead(plan[r])
             /\ Head(plan[r]) = "compact" => ~Ahead(Tail(plan[r]))
             /\ Head(plan[r]) = "send" => Ahead(plan[r])
    BY <1>1, <1>2, <1>3, PlanIs
<1>4. CASE plan[r] # << >> /\ Done(r)
  <2>1. plan'[r] = Tail(plan[r]) /\ \A s \in Runners : s # r => plan'[s] = plan[s] BY <1>1, <1>4 DEF Done
  <2> QED BY <1>2, <1>3, <1>4, <2>1
<1>5. CASE plan' = plan /\ ~(plan[r] # << >> /\ Done(r)) BY <1>2, <1>5
<1> QED BY <1>4, <1>5 DEF GoesOn

\* One runner moves on, with no call.
LEMMA OneMoves ==
    ASSUME Inv, Inv', Books, NEW r \in Runners, Moved(r), GoesOn(r), Down,
           \A s \in Runners \ {r} : runner'[s] = runner[s],
           plan' = plan \/ Head(plan[r]) # "stop" \/ runner'[r].shared = 0,
           runner'[r].pc \in SendPlaces => Sends(r),
           \A g \in Procs : shared'[g].pending = shared[g].pending,
           UNCHANGED <<answer, requests, lines, mouth, turn, ear, owed>>
    PROVE  Books'
<1>1. AtPeace'
  <2>1. \A s \in Runners : runner'[s].pc = "compact" => s # r BY DEF Moved
  <2> QED BY <2>1, PlansAre DEF Books, AtPeace
<1>2. ASSUME NEW s \in Runners, runner'[s].shared # 0, Sends(s)' PROVE Sends(s)
  <2>1. CASE s # r BY <1>2, <2>1, PlansAre DEF Sends
  <2>2. CASE s = r
    <3>1. Ahead(plan'[r]) => Ahead(plan[r]) BY <1>2, <2>2, PlansAre
    <3> QED BY <1>2, <2>2, <3>1 DEF Sends
  <2> QED BY <2>1, <2>2
<1>3. \A s \in Runners : Ends(s)' = Ends(s) BY DEF Ends
<1>4. \A s \in Runners : runner'[s] = runner[s] \/ Moved(s) OBVIOUS
<1> QED BY <1>1, <1>2, <1>3, <1>4, FrameBooks

\* Nobody moves, and nothing is said.
LEMMA NoneMoves ==
    ASSUME Inv, Inv', Books, Down,
           \A g \in Procs : shared'[g].pending = shared[g].pending,
           UNCHANGED <<runner, answer, plan, requests, lines, mouth, turn, ear, owed>>
    PROVE  Books'
<1>1. AtPeace' BY DEF Books, AtPeace
<1>2. \A s \in Runners : Sends(s)' => Sends(s) BY DEF Sends
<1>3. \A s \in Runners : Ends(s)' = Ends(s) BY DEF Ends
<1> QED BY <1>1, <1>2, <1>3, FrameBooks

\* Nothing about the processes but their threads.
LEMMA SameProc == UNCHANGED proc => Down
BY DEF Down

\* Operations that the runner alone knows of, and answers that lead on.
LEMMA MoveBooks ==
    ASSUME Inv, Inv', Books, NEW r \in Runners,
           \/ Get(r) \/ Send(r) \/ Fails(r) \/ BootFailed(r) \/ Booted(r)
           \/ Silenced(r) \/ Injected(r) \/ Steered(r) \/ Skip(r)
    PROVE  Books'
<1>1. runner \in [Runners -> RunRec] /\ runner[r] \in RunRec BY DEF Inv, Types, RunT
<1>2. UNCHANGED <<proc, answer, requests, lines, mouth, turn, ear, owed>>
  <2>1. CASE Get(r) \/ Send(r) \/ Fails(r) \/ BootFailed(r) \/ Booted(r) \/ Skip(r)
      BY <2>1 DEF Get, Send, Fails, BootFailed, Booted, Skip, procVars, wireVars, nativeVars, historyVars
  <2>2. CASE Silenced(r) \/ Injected(r) \/ Steered(r)
      BY <2>2 DEF Silenced, Injected, Steered, callRest, procVars, nativeVars, historyVars
  <2> QED BY <2>1, <2>2
<1>3. \A g \in Procs : shared'[g].pending = shared[g].pending
  <2>1. CASE Silenced(r)
    <3>1. shared \in [Procs -> SharedRec] /\ \A g \in Procs : shared[g] \in SharedRec BY DEF Inv, Types, SharedT
    <3>2. PICK b : shared' = [shared EXCEPT ![runner[r].on].silencer = "nobody", ![runner[r].on].memo = b]
        BY <2>1 DEF Silenced
    <3> QED BY <3>1, <3>2 DEF SharedRec
  <2>2. CASE shared' = shared BY <2>2
  <2> QED BY <2>1, <2>2 DEF Get, Send, Fails, BootFailed, Booted, Injected, Steered, Skip, sharedVars
<1>4. /\ \A s \in Runners \ {r} : runner'[s] = runner[s]
      /\ runner'[r].id = runner[r].id /\ runner'[r].shared = runner[r].shared
    BY <1>1 DEF Get, Send, Fails, BootFailed, Booted, Silenced, Injected, Steered, Skip, Goto, RunRec
<1>5. runner'[r].started = runner[r].started /\ (runner'[r].pc \in SendPlaces => Send(r) \/ Skip(r))
    BY <1>1 DEF Get, Send, Fails, BootFailed, Booted, Silenced, Injected, Steered, Skip, Goto, RunRec, SendPlaces
<1>6. Moved(r) /\ GoesOn(r)
  <2>1. CASE Get(r)
    <3>1. runner[r].pc = "idle" /\ runner'[r].pc = "got" /\ plan[r] # << >> /\ Done(r)
        BY <1>1, <2>1 DEF Get, Wants
    <3> QED BY <1>4, <1>5, <3>1 DEF Moved, GoesOn, Waiting
  <2>2. CASE Send(r)
    <3>1. runner[r].pc = "idle" /\ runner'[r].pc \in {"steering", "opening"} /\ plan[r] # << >> /\ Done(r)
        BY <1>1, <2>2 DEF Send, Wants
    <3> QED BY <1>4, <1>5, <3>1 DEF Moved, GoesOn, Waiting
  <2>3. CASE Fails(r)
    <3>1. /\ runner[r].pc = "failed" \/ answer[r] # << >>
          /\ runner'[r].pc = "idle" /\ plan' = plan
        BY <1>1, <2>3 DEF Fails, Answered
    <3> QED BY <1>4, <1>5, <3>1 DEF Moved, GoesOn, Waiting
  <2>4. CASE BootFailed(r)
    <3>1. runner[r].pc = "unboot" /\ runner'[r].pc = "idle" /\ plan' = plan BY <1>1, <2>4 DEF BootFailed
    <3> QED BY <1>4, <1>5, <3>1 DEF Moved, GoesOn, Waiting
  <2>5. CASE Booted(r) \/ Silenced(r) \/ Injected(r) \/ Steered(r)
    <3>1. answer[r] # << >> /\ plan' = plan
        BY <2>5 DEF Booted, Silenced, Injected, Steered, Ok, Answered, callRest
    <3>2. \E place \in {"got", "attach", "idle"} : runner' = [runner EXCEPT ![r].pc = place]
        BY <2>5 DEF Booted, Silenced, Injected, Steered, Goto
    <3>3. runner'[r].pc \notin {"turn", "compact"} BY <1>1, <3>2
    <3> QED BY <1>4, <1>5, <3>1, <3>3 DEF Moved, GoesOn
  <2>6. CASE Skip(r)
    <3>1. runner[r].pc = "idle" /\ runner' = runner /\ plan[r] # << >> /\ Done(r) BY <2>6 DEF Skip
    <3> QED BY <1>4, <1>5, <3>1 DEF Moved, GoesOn, Waiting
  <2> QED BY <2>1, <2>2, <2>3, <2>4, <2>5, <2>6
<1>7. plan' = plan \/ Head(plan[r]) # "stop" \/ runner'[r].shared = 0
    BY <1>4 DEF Get, Send, Fails, BootFailed, Booted, Silenced, Injected, Steered, Skip, Wants, callRest
<1>8. runner'[r].pc \in SendPlaces => Sends(r)
  <2>1. CASE Send(r)
    <3>1. plan[r] # << >> /\ Head(plan[r]) = "send" /\ Done(r) BY <2>1 DEF Send, Wants
    <3> QED BY <1>6, <3>1, PlansAre DEF Sends
  <2>2. CASE Skip(r) BY <2>2 DEF Skip, SendPlaces
  <2> QED BY <1>5, <2>1, <2>2
<1> QED BY <1>2, <1>3, <1>4, <1>6, <1>7, <1>8, OneMoves, SameProc

\* A server is put down because of its handshake.
LEMMA BootFailsBooks ==
    ASSUME Inv, Inv', Books, NEW r \in Runners, BootFails(r)
    PROVE  Books'
<1>1. runner \in [Runners -> RunRec] /\ runner[r] \in RunRec BY DEF Inv, Types, RunT
<1>2. /\ UNCHANGED <<shared, answer, plan, requests, lines, mouth, turn, ear, owed>>
      /\ runner' = [runner EXCEPT ![r].pc = "unboot"] /\ answer[r] # << >>
      /\ proc' = [proc EXCEPT ![runner[r].on].stdin = FALSE, ![runner[r].on].stop = "eof"]
    BY DEF BootFails, Goto, Answered, sharedVars, wireVars, nativeVars, historyVars
<1>3. \A s \in Runners \ {r} : runner'[s] = runner[s] BY <1>1, <1>2
<1>4. Moved(r) /\ GoesOn(r) BY <1>1, <1>2 DEF Moved, GoesOn, RunRec
<1>5. runner'[r].pc \notin SendPlaces BY <1>1, <1>2 DEF SendPlaces, RunRec
<1>6. Down
  <2>1. proc \in [Procs -> ProcRec] BY DEF Inv, Types, ProcT
  <2> QED BY <1>2, <2>1 DEF Down, ProcRec
<1> QED BY <1>2, <1>3, <1>4, <1>5, <1>6, OneMoves

\* stop.
LEMMA StopBooks ==
    ASSUME Inv, Inv', Books, NEW r \in Runners, Stop(r)
    PROVE  Books'
<1>1. runner \in [Runners -> RunRec] /\ runner[r] \in RunRec BY DEF Inv, Types, RunT
<1>2. /\ UNCHANGED <<proc, answer, requests, lines, mouth, turn, ear, owed>>
      /\ runner[r].pc = "idle" /\ plan[r] # << >> /\ Done(r)
      /\ shared' = [shared EXCEPT ![runner[r].shared].routes[r] = NoRoute]
      /\ runner' = [runner EXCEPT ![r].shared = 0, ![r].on = 0]
    BY DEF Stop, Wants, procVars, wireVars, nativeVars, historyVars
<1>3. /\ \A s \in Runners \ {r} : runner'[s] = runner[s]
      /\ runner'[r].id = runner[r].id /\ runner'[r].started = runner[r].started
      /\ runner'[r].shared = 0 /\ runner'[r].pc = "idle"
    BY <1>1, <1>2 DEF RunRec
<1>4. Moved(r) /\ GoesOn(r) BY <1>2, <1>3 DEF Moved, GoesOn, Waiting
<1>5. runner'[r].pc \notin SendPlaces BY <1>3 DEF SendPlaces
<1>6. \A g \in Procs : shared'[g].pending = shared[g].pending
  <2>1. shared \in [Procs -> SharedRec] /\ \A g \in Procs : shared[g] \in SharedRec BY DEF Inv, Types, SharedT
  <2>2. shared' = [shared EXCEPT ![runner[r].shared] =
                      [shared[runner[r].shared] EXCEPT !.routes = [shared[runner[r].shared].routes EXCEPT ![r] = NoRoute]]]
      BY <1>2
  <2> QED BY <2>1, <2>2 DEF SharedRec
<1> QED BY <1>2, <1>3, <1>4, <1>5, <1>6, OneMoves, SameProc

\* The processes, the pool and what happens to the daemon.
LEMMA RestBooks ==
    ASSUME Inv, Inv', Books,
           \/ \E g \in Procs : (Stopping(g) \/ Noticed(g) \/ ExitCall(g) \/ Outside(g)) /\ UNCHANGED codexVars
           \/ \E g \in Procs : Decline(g)
           \/ \E g \in Procs : (Die(g) \/ Fork(g)) /\ UNCHANGED <<nativeRest, requests, lines, nativeVars>>
           \/ OwnerDies /\ UNCHANGED <<nativeRest, requests, lines, nativeVars>>
           \/ Reap \/ ReapNothing \/ Shutdown \/ Retire \/ Retired
           \/ UNCHANGED vars
    PROVE  Books'
<1>1. shared \in [Procs -> SharedRec] /\ \A g \in Procs : shared[g] \in SharedRec BY DEF Inv, Types, SharedT
<1>2. proc \in [Procs -> ProcRec] /\ \A g \in Procs : proc[g] \in ProcRec BY DEF Inv, Types, ProcT
<1> DEFINE Nobody == UNCHANGED <<runner, answer, plan, requests, lines, mouth, turn, ear, owed>>
<1>3. UNCHANGED codexVars => Nobody /\ UNCHANGED shared
    BY DEF codexVars, sharedVars, wireVars, nativeVars, runnerVars, historyVars
<1>4. UNCHANGED <<nativeRest, requests, lines, nativeVars>> => Nobody /\ UNCHANGED shared
    BY DEF nativeRest, sharedVars, nativeVars, runnerVars, historyVars
<1>5. UNCHANGED sweepRest => Nobody BY DEF sweepRest, wireVars, nativeVars, runnerVars
<1>6. ASSUME NEW g \in Procs, Stopping(g) \/ Noticed(g) \/ ExitCall(g) \/ Outside(g) \/ Die(g) \/ Fork(g)
      PROVE  Down
    BY <1>2, <1>6 DEF Stopping, StopTerm, StopKill, StopClose, StopDone, StopAt, Noticed, ExitCall, Outside,
                      GuardianKills, GuardianLeaves, Killed, Die, Fork, Down, ProcRec
<1>7. CASE \E g \in Procs : (Stopping(g) \/ Noticed(g) \/ ExitCall(g) \/ Outside(g)) /\ UNCHANGED codexVars
    BY <1>3, <1>6, <1>7, NoneMoves
<1>8. ASSUME NEW g \in Procs, Decline(g) PROVE Books'
  <2>1. Nobody /\ UNCHANGED proc BY <1>8 DEF Decline, procVars, wireVars, runnerVars, historyVars
  <2>2. PICK k : shared' = [shared EXCEPT ![g].declines = k] BY <1>1, <1>8 DEF Decline
  <2>3. \A h \in Procs : shared'[h].pending = shared[h].pending BY <1>1, <2>2 DEF SharedRec
  <2> QED BY <2>1, <2>3, NoneMoves, SameProc
<1>9. CASE \E g \in Procs : (Die(g) \/ Fork(g)) /\ UNCHANGED <<nativeRest, requests, lines, nativeVars>>
    BY <1>4, <1>6, <1>9, NoneMoves
<1>10. CASE OwnerDies /\ UNCHANGED <<nativeRest, requests, lines, nativeVars>>
    BY <1>4, <1>10, NoneMoves, SameProc DEF OwnerDies
<1>11. CASE Reap \/ ReapNothing \/ Shutdown \/ Retired
  <2>1. UNCHANGED <<proc, shared>> /\ UNCHANGED sweepRest
      BY <1>11 DEF Reap, ReapNothing, Shutdown, Retired, procVars, sharedVars
  <2>2. owed' = owed BY <2>1 DEF sweepRest
  <2> QED BY <1>5, <2>1, <2>2, NoneMoves, SameProc
<1>12. CASE Retire
  <2>1. UNCHANGED sweepRest BY <1>12 DEF Retire
  <2>2. /\ shared' = [shared EXCEPT ![sweeper.on].stopping = Alive(sweeper.on) \/ poolLock # "sweeper"]
        /\ proc' = [proc EXCEPT ![sweeper.on].stdin = FALSE, ![sweeper.on].stop = "eof"]
      BY <1>12 DEF Retire
  <2>3. Down /\ \A h \in Procs : shared'[h].pending = shared[h].pending
      BY <1>1, <1>2, <2>2 DEF Down, ProcRec, SharedRec
  <2> QED BY <1>5, <2>1, <2>3, NoneMoves
<1>13. CASE UNCHANGED vars BY <1>3, <1>13, NoneMoves, SameProc DEF vars, procVars
<1> QED BY <1>7, <1>8, <1>9, <1>10, <1>11, <1>12, <1>13

-----------------------------------------------------------------------------
(* Deadlines and exits: calls fail, and no turn ends of it. *)

\* A deadline passes.
LEMMA TimeoutBooks ==
    ASSUME Inv, Inv', Books, NEW r \in Runners, Timeout(r)
    PROVE  Books'
<1>1. /\ UNCHANGED <<proc, requests, lines, mouth, turn, runner, plan, ear, owed>>
      /\ shared' = [shared EXCEPT ![runner[r].on].pending = @ \ {<<r, runner[r].id>>}]
      /\ answer' = [answer EXCEPT ![r] = <<Failure>>]
    BY DEF Timeout, procVars, wireVars, nativeVars, historyVars
<1>2. shared \in [Procs -> SharedRec] /\ \A g \in Procs : shared[g] \in SharedRec BY DEF Inv, Types, SharedT
<1>3. answer \in [Runners -> Short(AnswerRec)] BY DEF Inv, Types, AnswerT
<1>4. /\ \A g \in Procs : g # runner[r].on => shared'[g] = shared[g]
      /\ runner[r].on \in Procs => shared'[runner[r].on].pending = shared[runner[r].on].pending \ {<<r, runner[r].id>>}
    BY <1>1, <1>2 DEF SharedRec
<1>5. \A g \in Procs : shared'[g].pending \subseteq shared[g].pending BY <1>4
<1>6. ASSUME NEW g \in Procs, NEW s \in Runners, NEW n \in Nat, <<s, n>> \in shared'[g].pending
      PROVE  answer'[s] = answer[s]
  <2>1. runner[s].on = g /\ runner[s].id = n BY <1>5, <1>6 DEF Books, AtHand
  <2>2. s # r BY <1>4, <1>6, <2>1
  <2> QED BY <1>1, <1>3, <2>2
<1>7. \A s \in Runners : answer'[s] = answer[s] \/ answer'[s] = <<Failure>> BY <1>1, <1>3
<1>8. AtPeace' BY <1>1 DEF Books, AtPeace
<1>9. \A s \in Runners : (Sends(s)' => Sends(s)) /\ Ends(s)' = Ends(s) BY <1>1 DEF Sends, Ends
<1> QED BY <1>1, <1>5, <1>6, <1>7, <1>8, <1>9, SameProc, FrameBooks

\* Every call that waits fails.
LEMMA OnExitBooks ==
    ASSUME Inv, Inv', Books, NEW g \in Procs, OnExit(g)
    PROVE  Books'
<1>1. /\ UNCHANGED <<requests, lines, mouth, turn, runner, plan, ear, owed>>
      /\ shared' = [shared EXCEPT ![g].pending = {}]
      /\ answer' = [r \in Runners |-> IF r \in Orphaned(g) THEN <<Failure>> ELSE answer[r]]
      /\ proc' = [proc EXCEPT ![g].reaper = "telling"]
    BY DEF OnExit, wireVars, nativeVars, historyVars
<1>2. shared \in [Procs -> SharedRec] /\ \A h \in Procs : shared[h] \in SharedRec BY DEF Inv, Types, SharedT
<1>3. proc \in [Procs -> ProcRec] BY DEF Inv, Types, ProcT
<1>4. shared'[g].pending = {} /\ \A h \in Procs : h # g => shared'[h] = shared[h] BY <1>1, <1>2 DEF SharedRec
<1>5. \A h \in Procs : shared'[h].pending \subseteq shared[h].pending BY <1>4
<1>6. ASSUME NEW h \in Procs, NEW s \in Runners, NEW n \in Nat, <<s, n>> \in shared'[h].pending
      PROVE  answer'[s] = answer[s]
  <2>1. h # g /\ runner[s].on = h BY <1>4, <1>5, <1>6 DEF Books, AtHand
  <2>2. runner[s].id \in Nat BY DEF Inv, Types, RunT, RunRec
  <2>3. s \notin Orphaned(g) BY <2>1, <2>2 DEF Orphaned, Books, AtHand
  <2> QED BY <1>1, <2>3
<1>7. \A s \in Runners : answer'[s] = answer[s] \/ answer'[s] = <<Failure>> BY <1>1
<1>8. AtPeace' BY <1>1 DEF Books, AtPeace
<1>9. \A s \in Runners : (Sends(s)' => Sends(s)) /\ Ends(s)' = Ends(s) BY <1>1 DEF Sends, Ends
<1>10. Down BY <1>1, <1>3 DEF Down, ProcRec
<1> QED BY <1>1, <1>5, <1>6, <1>7, <1>8, <1>9, <1>10, FrameBooks

\* Every chat is told, and that is no end of a turn.
LEMMA NotifyExitBooks ==
    ASSUME Inv, Inv', Books, NEW g \in Procs, NotifyExit(g)
    PROVE  Books'
<1>1. /\ UNCHANGED <<shared, answer, requests, lines, mouth, turn, runner, plan, owed>>
      /\ ear' = [r \in Runners |-> IF ~shared[g].stopping /\ shared[g].routes[r] # NoRoute
                                   THEN Append(ear[r], [kind |-> "crash", from |-> g]) ELSE ear[r]]
      /\ proc' = [proc EXCEPT ![g].reaper = "done"]
    BY DEF NotifyExit, sharedVars, wireVars, nativeVars, runnerVars, historyVars
<1>2. proc \in [Procs -> ProcRec] BY DEF Inv, Types, ProcT
<1>3. Down BY <1>1, <1>2 DEF Down, ProcRec
<1>4. ASSUME NEW s \in Runners PROVE Ends(s)' = Ends(s)
  <2>1. ear'[s] = ear[s] \/ ear'[s] = Append(ear[s], [kind |-> "crash", from |-> g]) BY <1>1
  <2>2. ear[s] \in Seq(HeardRec) BY DEF Inv, Types, ChatT
  <2>3. [kind |-> "crash", from |-> g] \in HeardRec \ HeardEnds BY DEF HeardRec, HeardEnds
  <2>4. Ends(s) = Count(ear[s], HeardEnds) /\ Ends(s) \in Nat BY EndsIs DEF Inv, Types
  <2>5. Ends(s)' = Count(ear'[s], HeardEnds)
    <3>1. ear'[s] \in Seq(HeardRec) BY DEF Inv, Types, ChatT
    <3>2. \A i \in DOMAIN ear'[s] : ear'[s][i].kind = "end" <=> ear'[s][i] \in HeardEnds BY <3>1 DEF HeardEnds
    <3>3. {i \in DOMAIN ear'[s] : ear'[s][i].kind = "end"} = {i \in DOMAIN ear'[s] : ear'[s][i] \in HeardEnds}
        BY <3>2
    <3> QED BY <3>3 DEF Ends, Count
  <2>6. Count(Append(ear[s], [kind |-> "crash", from |-> g]), HeardEnds) = Count(ear[s], HeardEnds)
    <3>1. PICK x \in HeardRec \ HeardEnds : x = [kind |-> "crash", from |-> g] BY <2>3
    <3>2. Count(Append(ear[s], x), HeardEnds) = Count(ear[s], HeardEnds) + (IF x \in HeardEnds THEN 1 ELSE 0)
        BY <2>2, CountAppend
    <3>3. Count(ear[s], HeardEnds) \in Nat BY <2>4
    <3> QED BY <3>1, <3>2, <3>3
  <2>7. Count(ear'[s], HeardEnds) = Count(ear[s], HeardEnds) BY <2>1, <2>6
  <2> QED BY <2>4, <2>5, <2>7
<1>5. AtPeace' BY <1>1 DEF Books, AtPeace
<1>6. \A s \in Runners : (Sends(s)' => Sends(s)) BY <1>1 DEF Sends
<1> QED BY <1>1, <1>3, <1>4, <1>5, <1>6, FrameBooks

-----------------------------------------------------------------------------
(* Calls. *)

\* A call may be made by whoever is in none, and a send that is under way may open a turn.
FreeToCall(r, m, place) ==
    /\ m \in Methods /\ place \in Waiting
    /\ runner[r].pc \in Waiting => answer[r] # << >>
    /\ GoesOn(r) /\ (plan' = plan \/ Head(plan[r]) # "stop")
    /\ place \in {"steer", "turn"} => Sends(r)
    /\ place = "turn" => m = "turn/start"
    /\ place = "compact" => m = "compact" /\ ~Ahead(plan'[r])

\* A call is made: its answer is yet to come, and nobody else is concerned.
LEMMA CallsBooks ==
    ASSUME Inv, Inv', Books, NEW r \in Runners, NEW g \in Procs, NEW m, NEW place,
           FreeToCall(r, m, place), Calls(r, g, m, place),
           \A s \in Runners : \A h \in Procs : On(s, h)' => On(s, h),
           UNCHANGED <<lines, mouth, turn, ear, owed>>
    PROVE  Books'
<1> USE Numbers
<1>1. runner \in [Runners -> RunRec] /\ runner[r] \in RunRec /\ answer \in [Runners -> Short(AnswerRec)]
    BY DEF Inv, Types, RunT, AnswerT
<1>2. PICK k \in Nat : k = runner[r].id + 1 /\ runner[r].id \in Nat BY <1>1 DEF RunRec
<1>3. \A s \in Runners : runner[s].id \in Nat BY <1>1 DEF RunRec
<1>4. /\ runner'[r].pc = place /\ runner'[r].id = k /\ runner'[r].on = g
      /\ runner'[r].shared = runner[r].shared /\ runner'[r].started = runner[r].started
      /\ answer'[r] = << >>
      /\ \A s \in Runners \ {r} : runner'[s] = runner[s] /\ answer'[s] = answer[s]
    BY <1>1, <1>2 DEF Calls, RunRec
<1>5. PICK q \in RequestRec : q.method = m /\ q.by = r /\ q.id = k /\ requests' = [requests EXCEPT ![g] = Append(requests[g], q)]
  <2> DEFINE q == [method |-> m, by |-> r, id |-> k, turn |-> runner[r].open]
  <2>1. q \in RequestRec BY <1>1 DEF RequestRec, RunRec, FreeToCall
  <2>2. requests' = [requests EXCEPT ![g] = Append(requests[g], q)] BY <1>2 DEF Calls
  <2>3. q.method = m /\ q.by = r /\ q.id = k OBVIOUS
  <2> HIDE DEF q
  <2> QED BY <2>1, <2>2, <2>3
<1>6. /\ requests \in [Procs -> Seq(RequestRec)] /\ lines \in [Procs -> Seq(LineRec)]
      /\ \A h \in Procs : requests[h] \in Seq(RequestRec) /\ lines[h] \in Seq(LineRec)
    BY DEF Inv, Types, WireT
<1>7. /\ requests'[g] = Append(requests[g], q) /\ Range(requests'[g]) = Range(requests[g]) \cup {q}
      /\ \A h \in Procs \ {g} : requests'[h] = requests[h]
  <2>1. requests'[g] = Append(requests[g], q) /\ \A h \in Procs \ {g} : requests'[h] = requests[h] BY <1>5, <1>6
  <2> QED BY <1>6, <2>1, RangeIs
<1>8. \A h \in Procs : /\ \A x \in Range(requests[h]) : x.by \in Runners /\ x.id \in Nat
                       /\ \A x \in Range(lines[h]) : x.kind = "reply" => x.to \in Runners /\ x.id \in Nat
  <2> TAKE h \in Procs
  <2>1. Range(requests[h]) \subseteq RequestRec /\ Range(lines[h]) \subseteq LineRec BY <1>6, RangeIs
  <2>2. \A x \in LineRec : x.kind = "reply" => x.to \in Runners /\ x.id \in Nat BY DEF LineRec, ReplyRec, NoteRec
  <2>3. \A x \in RequestRec : x.by \in Runners /\ x.id \in Nat BY DEF RequestRec
  <2> QED BY <2>1, <2>2, <2>3
<1>9. \A h \in Procs : /\ \A x \in Range(requests'[h]) : x \in Range(requests[h]) \/ (x = q /\ h = g)
                       /\ \A x \in Range(requests[h]) : x.id <= runner[x.by].id
                       /\ \A x \in Range(lines[h]) : x.kind = "reply" => x.id <= runner[x.to].id
    BY <1>7 DEF Books, InTurn
<1>10. \A s \in Runners : runner[s].id <= runner'[s].id BY <1>2, <1>3, <1>4
<1>11. InTurn'
  <2>1. ASSUME NEW h \in Procs, NEW i \in DOMAIN requests'[h], NEW j \in DOMAIN requests'[h],
               i < j, requests'[h][i].by = requests'[h][j].by
        PROVE  requests'[h][i].id < requests'[h][j].id
    <3>1. CASE h # g BY <1>7, <2>1, <3>1 DEF Books, InTurn
    <3>2. CASE h = g
      <4>1. /\ DOMAIN requests[g] = 1 .. Len(requests[g]) /\ DOMAIN requests'[g] = 1 .. Len(requests[g]) + 1
            /\ Len(requests[g]) \in Nat /\ requests'[g][Len(requests[g]) + 1] = q
            /\ \A l \in 1 .. Len(requests[g]) : requests'[g][l] = requests[g][l]
          BY <1>6, <1>7
      <4>2. CASE j = Len(requests[g]) + 1
        <5>1. i \in DOMAIN requests[g] /\ requests'[g][i] = requests[g][i] BY <2>1, <3>2, <4>1, <4>2
        <5>2. requests[g][i] \in Range(requests[g]) BY <5>1 DEF Range
        <5>3. requests[g][i].by = r BY <1>5, <2>1, <3>2, <4>1, <4>2, <5>1
        <5>4. requests[g][i].id <= runner[r].id /\ requests[g][i].id \in Nat BY <1>8, <1>9, <5>2, <5>3
        <5> QED BY <1>2, <1>5, <3>2, <4>1, <4>2, <5>1, <5>4
      <4>3. CASE j # Len(requests[g]) + 1
        <5>1. i \in DOMAIN requests[g] /\ j \in DOMAIN requests[g] BY <2>1, <3>2, <4>1, <4>3
        <5> QED BY <2>1, <3>2, <4>1, <5>1 DEF Books, InTurn
      <4> QED BY <4>2, <4>3
    <3> QED BY <3>1, <3>2
  <2>2. ASSUME NEW h \in Procs, NEW x \in Range(requests'[h]) PROVE x.id <= runner'[x.by].id
    <3>1. CASE x = q BY <1>2, <1>4, <1>5, <3>1
    <3>2. CASE x \in Range(requests[h])
      <4>1. x.by \in Runners /\ x.id \in Nat /\ x.id <= runner[x.by].id BY <1>8, <1>9, <3>2
      <4>2. runner'[x.by].id \in Nat BY <1>2, <1>3, <1>4, <4>1
      <4> QED BY <1>3, <1>10, <4>1, <4>2
    <3> QED BY <1>9, <3>1, <3>2
  <2>3. ASSUME NEW h \in Procs, NEW x \in Range(lines'[h]), x.kind = "reply"
        PROVE  /\ x.id <= runner'[x.to].id
               /\ \A y \in Range(requests'[h]) : y.by = x.to => x.id < y.id
    <3>1. x \in Range(lines[h]) BY <2>3
    <3>2. x.to \in Runners /\ x.id \in Nat /\ x.id <= runner[x.to].id BY <1>8, <1>9, <2>3, <3>1
    <3>3. runner'[x.to].id \in Nat BY <1>2, <1>3, <1>4, <3>2
    <3>4. x.id <= runner'[x.to].id BY <1>3, <1>10, <3>2, <3>3
    <3>5. ASSUME NEW y \in Range(requests'[h]), y.by = x.to PROVE x.id < y.id
      <4>1. CASE y \in Range(requests[h]) BY <2>3, <3>1, <3>5, <4>1 DEF Books, InTurn
      <4>2. CASE y = q BY <1>2, <1>5, <3>2, <3>5, <4>2
      <4> QED BY <1>9, <4>1, <4>2
    <3> QED BY <3>4, <3>5
  <2> QED BY <2>1, <2>2, <2>3 DEF InTurn
<1>12. AtHand'
  <2>1. ASSUME NEW h \in Procs, NEW s \in Runners, NEW n \in Nat, <<s, n>> \in shared'[h].pending
        PROVE  runner'[s].on = h /\ runner'[s].id = n /\ runner'[s].pc \in Waiting /\ answer'[s] = << >>
    <3>1. <<s, n>> \in shared[h].pending \/ (<<s, n>> = <<r, k>> /\ h = g)
      <4>1. shared \in [Procs -> SharedRec] /\ shared[g] \in SharedRec BY DEF Inv, Types, SharedT
      <4>2. shared'[g].pending = shared[g].pending \cup {<<r, k>>} /\ \A l \in Procs \ {g} : shared'[l] = shared[l]
          BY <1>2, <4>1 DEF Calls, SharedRec
      <4> QED BY <2>1, <4>2
    <3>2. CASE <<s, n>> \in shared[h].pending
      <4>1. runner[s].on = h /\ runner[s].id = n /\ runner[s].pc \in Waiting /\ answer[s] = << >>
          BY <3>2 DEF Books, AtHand
      <4>2. s # r BY <4>1 DEF FreeToCall
      <4> QED BY <1>4, <4>1, <4>2
    <3>3. CASE <<s, n>> = <<r, k>> /\ h = g BY <1>4, <3>3 DEF FreeToCall
    <3> QED BY <3>1, <3>2, <3>3
  <2>2. ASSUME NEW h \in Procs, NEW x \in Range(requests'[h]), x.id = runner'[x.by].id
        PROVE  /\ runner'[x.by].pc = "turn" => x.method = "turn/start"
               /\ runner'[x.by].pc = "compact" => x.method = "compact"
    <3>1. CASE x = q BY <1>4, <1>5, <3>1 DEF FreeToCall
    <3>2. CASE x \in Range(requests[h])
      <4>1. x.by \in Runners /\ x.id \in Nat /\ x.id <= runner[x.by].id BY <1>8, <1>9, <3>2
      <4>2. x.by # r BY <1>2, <1>4, <2>2, <4>1
      <4>3. runner'[x.by] = runner[x.by] BY <1>4, <4>1, <4>2
      <4> QED BY <2>2, <3>2, <4>3 DEF Books, AtHand
    <3> QED BY <1>9, <3>1, <3>2
  <2> QED BY <2>1, <2>2 DEF AtHand
<1>13. ASSUME NEW s \in Runners, NEW h \in Procs, NEW t \in Turns, Given(s, h, t)'
       PROVE  s # r /\ runner'[s] = runner[s] /\ Given(s, h, t)
  <2>1. CASE s = r
    <3>1. PICK x \in Range(lines[h]) : x.kind = "reply" /\ x.to = r /\ x.id = k
        BY <1>4, <1>13, <2>1 DEF Given, Grants
    <3>2. k <= runner[r].id BY <1>9, <3>1
    <3> QED BY <1>2, <3>2
  <2>2. CASE s # r BY <1>4, <1>13, <2>2 DEF Given, Grants
  <2> QED BY <2>1, <2>2
<1>14. Newest'
  <2> SUFFICES ASSUME NEW s \in Runners, NEW h \in Procs, NEW t \in Turns,
                      runner'[s].pc = "turn", runner'[s].on = h, Given(s, h, t)'
               PROVE  turn'[h][s] \in {0, t} /\ \A x \in Range(requests'[h]) : x.by # s
      BY DEF Newest
  <2>1. s # r /\ runner'[s] = runner[s] /\ Given(s, h, t) BY <1>13
  <2>2. turn[h][s] \in {0, t} /\ \A x \in Range(requests[h]) : x.by # s BY <2>1 DEF Books, Newest
  <2> QED BY <1>5, <1>9, <2>1, <2>2
<1>15. AtPeace'
  <2>1. GoesOn(r) /\ (place = "compact" => ~Ahead(plan'[r])) BY DEF FreeToCall
  <2> QED BY <1>4, <2>1, PlansAre DEF Books, AtPeace
<1>16. Ledger'
  <2> SUFFICES ASSUME NEW s \in Runners, NEW h \in Procs, On(s, h)'
               PROVE  owed'[s] + OwedNext(s, h)' <= Paid(s, h)'
      BY DEF Ledger
  <2>1. owed[s] + OwedNext(s, h) <= Paid(s, h) BY DEF Books, Ledger
  <2>2. Paid(s, h)' = Paid(s, h) BY DEF Paid, Ends, Said, Written, Runs
  <2>3. Announced(s, h)' => Announced(s, h) BY <1>13 DEF Announced, Landed
  <2>4. Sends(s)' => Sends(s)
    <3>1. CASE s # r BY <1>4, <3>1, PlansAre DEF Sends, FreeToCall
    <3>2. CASE s = r
      <4>1. Ahead(plan'[r]) => Ahead(plan[r]) BY PlansAre DEF FreeToCall
      <4>2. place \in SendPlaces => Sends(r) BY DEF FreeToCall, SendPlaces, Waiting
      <4> QED BY <1>4, <3>2, <4>1, <4>2 DEF Sends
    <3> QED BY <3>1, <3>2
  <2>5. Unknown(s, h)' => Unknown(s, h) BY <1>4, <2>4 DEF Unknown
  <2>6. OwedNext(s, h)' <= OwedNext(s, h) /\ OwedNext(s, h)' \in {0, 1} BY <2>3, <2>5 DEF OwedNext
  <2>7. owed'[s] = owed[s] /\ owed[s] \in Nat /\ OwedNext(s, h) \in {0, 1} /\ Paid(s, h) \in Nat BY Numeric
  <2> QED BY <2>1, <2>2, <2>6, <2>7
<1> QED BY <1>11, <1>12, <1>14, <1>15, <1>16 DEF Books

\* A call is made, or there is nobody to take it.
LEMMA CallBooks ==
    ASSUME Inv, Inv', Books, NEW r \in Runners, NEW m, NEW place, runner[r].on \in Procs,
           FreeToCall(r, m, place), Call(r, m, place),
           UNCHANGED <<proc, lines, mouth, turn, ear, owed>>
    PROVE  Books'
<1>1. runner \in [Runners -> RunRec] /\ runner[r] \in RunRec BY DEF Inv, Types, RunT
<1>2. CASE Writable(runner[r].on)
  <2>1. Calls(r, runner[r].on, m, place) BY <1>2 DEF Call
  <2>2. \A s \in Runners : runner'[s].shared = runner[s].shared BY <1>1, <2>1 DEF Calls, RunRec
  <2>3. \A s \in Runners : \A h \in Procs : On(s, h)' => On(s, h) BY <2>2 DEF On
  <2> QED BY <2>1, <2>3, CallsBooks
<1>3. CASE ~Writable(runner[r].on)
  <2>1. Goto(r, "failed") /\ UNCHANGED <<answer, shared, requests>> BY <1>3 DEF Call
  <2>2. runner' = [runner EXCEPT ![r].pc = "failed"] BY <2>1 DEF Goto
  <2>3. \A s \in Runners \ {r} : runner'[s] = runner[s] BY <1>1, <2>2
  <2>4. Moved(r) BY <1>1, <2>2 DEF Moved, FreeToCall, RunRec
  <2>5. runner'[r].pc \notin SendPlaces BY <1>1, <2>2 DEF SendPlaces, RunRec
  <2>6. GoesOn(r) /\ (plan' = plan \/ Head(plan[r]) # "stop") BY DEF FreeToCall
  <2> QED BY <2>1, <2>3, <2>4, <2>5, <2>6, SameProc, OneMoves
<1> QED BY <1>2, <1>3

\* The operations that are calls, and those that lead from one call to the next.
LEMMA CallStepBooks ==
    ASSUME Inv, Inv', Books, NEW r \in Runners,
           \/ OpenThread(r) \/ Reopen(r) \/ Silence(r) \/ Inject(r) \/ Steer(r) \/ OpenTurn(r)
           \/ Compact(r) \/ CatchUp(r) \/ Interrupt(r)
    PROVE  Books'
<1>1. runner \in [Runners -> RunRec] /\ runner[r] \in RunRec BY DEF Inv, Types, RunT
<1>2. Placed(runner[r]) BY DEF Inv, Core, Used, AtPlaces
<1>3. UNCHANGED <<proc, lines, mouth, turn, ear, owed>>
  <2>1. CASE UNCHANGED callRest BY <2>1 DEF callRest, procVars, nativeVars, historyVars
  <2>2. CASE Compact(r) \/ CatchUp(r) \/ Interrupt(r)
      BY <2>2 DEF Compact, CatchUp, Interrupt, procVars, nativeVars, historyVars
  <2> QED BY <2>1, <2>2 DEF OpenThread, Reopen, Silence, Inject, Steer, OpenTurn
<1> DEFINE Same == plan' = plan
<1>4. UNCHANGED callRest => Same BY DEF callRest
<1>5. Same => GoesOn(r) BY DEF GoesOn
<1>6. CASE OpenThread(r)
  <2>1. runner[r].pc = "got" /\ Same BY <1>4, <1>6 DEF OpenThread
  <2>2. \E m \in {"thread/start", "thread/resume"} : \E place \in {"thread", "resume"} : Call(r, m, place)
      BY <1>6 DEF OpenThread
  <2>3. PICK m \in {"thread/start", "thread/resume"}, place \in {"thread", "resume"} : Call(r, m, place) BY <2>2
  <2>4. FreeToCall(r, m, place) BY <1>5, <2>1 DEF FreeToCall, Waiting, Methods
  <2>5. runner[r].on \in Procs BY <1>1, <1>2, <2>1 DEF Placed, StartPlaces, RunRec
  <2> QED BY <1>3, <2>3, <2>4, <2>5, CallBooks
<1>7. CASE Reopen(r)
  <2>1. runner[r].pc = "resume" /\ answer[r] # << >> /\ Same /\ Call(r, "thread/start", "thread")
      BY <1>4, <1>7 DEF Reopen, Answered
  <2>2. FreeToCall(r, "thread/start", "thread") BY <1>5, <2>1 DEF FreeToCall, Waiting, Methods
  <2>3. runner[r].on \in Procs BY <1>1, <1>2, <2>1 DEF Placed, StartPlaces, RunRec
  <2> QED BY <1>3, <2>1, <2>2, <2>3, CallBooks
<1>8. CASE Silence(r)
  <2>1. runner[r].pc \in {"thread", "resume"} /\ answer[r] # << >> /\ Same
      BY <1>4, <1>8 DEF Silence, Ok, Answered
  <2>2. runner[r].on \in Procs BY <1>1, <1>2, <2>1 DEF Placed, StartPlaces, RunRec
  <2>3. CASE Calls(r, runner[r].on, "skills", "silence")
    <3>1. FreeToCall(r, "skills", "silence") BY <1>5, <2>1 DEF FreeToCall, Waiting, Methods
    <3>2. \A s \in Runners : runner'[s].shared = runner[s].shared BY <1>1, <2>3 DEF Calls, RunRec
    <3>3. \A s \in Runners : \A h \in Procs : On(s, h)' => On(s, h) BY <1>3, <3>2 DEF On
    <3> QED BY <1>3, <2>2, <2>3, <3>1, <3>3, CallsBooks
  <2>4. CASE Goto(r, "attach") /\ UNCHANGED <<answer, shared, requests>>
    <3>1. runner' = [runner EXCEPT ![r].pc = "attach"] BY <2>4 DEF Goto
    <3>2. \A s \in Runners \ {r} : runner'[s] = runner[s] BY <1>1, <3>1
    <3>3. Moved(r) BY <1>1, <2>1, <3>1 DEF Moved, RunRec
    <3>4. runner'[r].pc \notin SendPlaces BY <1>1, <3>1 DEF SendPlaces, RunRec
    <3> QED BY <1>3, <1>5, <2>1, <2>4, <3>2, <3>3, <3>4, SameProc, OneMoves
  <2> QED BY <1>8, <2>3, <2>4 DEF Silence
<1>9. CASE Inject(r)
  <2>1. runner[r].pc = "attach" /\ Same /\ Call(r, "inject", "inject") BY <1>4, <1>9 DEF Inject
  <2>2. FreeToCall(r, "inject", "inject") BY <1>5, <2>1 DEF FreeToCall, Waiting, Methods
  <2>3. runner[r].on \in Procs BY <1>1, <1>2, <2>1 DEF Placed, StartPlaces, RunRec
  <2> QED BY <1>3, <2>1, <2>2, <2>3, CallBooks
<1>10. CASE Steer(r)
  <2>1. runner[r].pc = "steering" /\ Same /\ Call(r, "turn/steer", "steer") BY <1>4, <1>10 DEF Steer
  <2>2. FreeToCall(r, "turn/steer", "steer") BY <1>5, <2>1 DEF FreeToCall, Waiting, Methods, Sends, SendPlaces
  <2>3. runner[r].on \in Procs BY <1>1, <1>2, <2>1 DEF Placed, CallPlaces, RunRec
  <2> QED BY <1>3, <2>1, <2>2, <2>3, CallBooks
<1>11. CASE OpenTurn(r)
  <2>1. /\ runner[r].pc = "opening" \/ (runner[r].pc = "steer" /\ answer[r] # << >>)
        /\ Same /\ Call(r, "turn/start", "turn")
      BY <1>4, <1>11 DEF OpenTurn, Answered
  <2>2. FreeToCall(r, "turn/start", "turn") BY <1>5, <2>1 DEF FreeToCall, Waiting, Methods, Sends, SendPlaces
  <2>3. runner[r].on \in Procs BY <1>1, <1>2, <2>1 DEF Placed, CallPlaces, RunRec
  <2> QED BY <1>3, <2>1, <2>2, <2>3, CallBooks
<1>12. ASSUME NEW op \in {"compact", "catch_up", "interrupt"}, Wants(r, op), runner[r].shared # 0, Done(r)
       PROVE  /\ runner[r].pc = "idle" /\ GoesOn(r) /\ Head(plan[r]) = op /\ plan[r] # << >>
              /\ runner[r].on \in Procs /\ runner[r].pc \notin Waiting
  <2>1. runner[r].pc = "idle" /\ plan[r] # << >> /\ Head(plan[r]) = op BY <1>12 DEF Wants
  <2> QED BY <1>1, <1>2, <1>12, <2>1 DEF GoesOn, Placed, RunRec, Waiting
<1>13. CASE Compact(r)
  <2>1. Wants(r, "compact") /\ runner[r].shared # 0 /\ Done(r) /\ Call(r, "compact", "compact")
      BY <1>13 DEF Compact
  <2>2. ~Ahead(plan'[r]) BY <1>12, <2>1, PlansAre
  <2>3. FreeToCall(r, "compact", "compact") BY <1>12, <2>1, <2>2 DEF FreeToCall, Waiting, Methods
  <2> QED BY <1>3, <1>12, <2>1, <2>3, CallBooks
<1>14. CASE CatchUp(r)
  <2>1. Wants(r, "catch_up") /\ runner[r].shared # 0 /\ Done(r) /\ Call(r, "inject", "told") BY <1>14 DEF CatchUp
  <2>2. FreeToCall(r, "inject", "told") BY <1>12, <2>1 DEF FreeToCall, Waiting, Methods
  <2> QED BY <1>3, <1>12, <2>1, <2>2, CallBooks
<1>15. CASE Interrupt(r)
  <2>1. Wants(r, "interrupt") /\ runner[r].shared # 0 /\ Done(r) /\ Call(r, "interrupt", "told")
      BY <1>15 DEF Interrupt
  <2>2. FreeToCall(r, "interrupt", "told") BY <1>12, <2>1 DEF FreeToCall, Waiting, Methods
  <2> QED BY <1>3, <1>12, <2>1, <2>2, CallBooks
<1> QED BY <1>6, <1>7, <1>8, <1>9, <1>10, <1>11, <1>13, <1>14, <1>15

\* A server of its own is started, and called.
LEMMA BootBooks ==
    ASSUME Inv, Inv', Books, NEW r \in Runners, Boot(r)
    PROVE  Books'
<1>1. runner \in [Runners -> RunRec] /\ runner[r] \in RunRec BY DEF Inv, Types, RunT
<1>2. /\ runner[r].pc = "idle" /\ plan[r] # << >> /\ Head(plan[r]) = "start" /\ Done(r)
      /\ Unused # {} /\ Spawn(Lowest(Unused)) /\ Calls(r, Lowest(Unused), "initialize", "boot")
      /\ UNCHANGED <<lines, mouth, turn, ear, owed>>
    BY DEF Boot, Wants, nativeVars, historyVars
<1>3. PICK g \in Procs : g = Lowest(Unused) /\ proc[g].os = "none"
  <2>1. Unused \subseteq Nat BY Numbers DEF Unused
  <2>2. Lowest(Unused) \in Unused BY <1>2, <2>1, LowestIs
  <2> QED BY <2>2 DEF Unused
<1>4. FreeToCall(r, "initialize", "boot") BY <1>2 DEF FreeToCall, GoesOn, Waiting, Methods
<1>5. Calls(r, g, "initialize", "boot") BY <1>2, <1>3
<1>6. \A s \in Runners : runner'[s].shared = runner[s].shared BY <1>1, <1>5 DEF Calls, RunRec
<1>7. proc' = [proc EXCEPT ![g] = Fresh] BY <1>2, <1>3 DEF Spawn
<1>8. ASSUME NEW s \in Runners, NEW h \in Procs, On(s, h)' PROVE On(s, h)
  <2>1. h # g
    <3>1. runner[s].shared = h /\ h # 0 BY <1>6, <1>8, Numbers DEF On
    <3>2. proc[h].os # "none" BY <3>1 DEF Inv, Core, Used, Started
    <3> QED BY <1>3, <3>2
  <2>2. proc \in [Procs -> ProcRec] BY DEF Inv, Types, ProcT
  <2> QED BY <1>6, <1>7, <1>8, <2>1, <2>2 DEF On
<1> QED BY <1>2, <1>4, <1>5, <1>8, CallsBooks

-----------------------------------------------------------------------------
(* A start, a turn and a compaction come to their ends. *)

\* A runner comes to rest, and its own account is right.
LEMMA RestsBooks ==
    ASSUME Inv, Inv', Books, NEW r \in Runners,
           runner'[r].pc = "idle", runner'[r].id = runner[r].id,
           runner[r].pc \in Waiting => answer[r] # << >>,
           \A s \in Runners \ {r} : runner'[s] = runner[s] /\ ear'[s] = ear[s] /\ owed'[s] = owed[s],
           \A g \in Procs : shared'[g].pending = shared[g].pending,
           UNCHANGED <<proc, answer, plan, requests, lines, mouth, turn>>,
           \A g \in Procs : On(r, g)' => owed'[r] + (IF Unknown(r, g)' THEN 1 ELSE 0) <= Paid(r, g)'
    PROVE  Books'
<1> USE Numbers
<1>1. \A s \in Runners : runner'[s].id = runner[s].id OBVIOUS
<1>2. \A g \in Procs : Range(requests[g]) \subseteq RequestRec /\ Range(lines[g]) \subseteq LineRec
    BY RangeIs DEF Inv, Types, WireT
<1>3. \A q \in RequestRec : q.by \in Runners BY DEF RequestRec
<1>4. \A m \in LineRec : m.kind = "reply" => m.to \in Runners BY DEF LineRec, ReplyRec, NoteRec
<1>5. InTurn' BY <1>1, <1>2, <1>3, <1>4 DEF Books, InTurn
<1>6. AtHand'
  <2>1. ASSUME NEW g \in Procs, NEW s \in Runners, NEW n \in Nat, <<s, n>> \in shared'[g].pending
        PROVE  runner'[s].on = g /\ runner'[s].id = n /\ runner'[s].pc \in Waiting /\ answer'[s] = << >>
    <3>1. runner[s].on = g /\ runner[s].id = n /\ runner[s].pc \in Waiting /\ answer[s] = << >>
        BY <2>1 DEF Books, AtHand
    <3>2. s # r BY <3>1
    <3> QED BY <3>1, <3>2
  <2>2. ASSUME NEW g \in Procs, NEW q \in Range(requests[g]), q.id = runner'[q.by].id
        PROVE  /\ runner'[q.by].pc = "turn" => q.method = "turn/start"
               /\ runner'[q.by].pc = "compact" => q.method = "compact"
    <3>1. q.by \in Runners BY <1>2, <1>3
    <3>2. CASE q.by = r BY <3>2
    <3>3. CASE q.by # r
      <4>1. runner'[q.by] = runner[q.by] BY <3>1, <3>3
      <4> QED BY <2>2, <4>1 DEF Books, AtHand
    <3> QED BY <3>2, <3>3
  <2> QED BY <2>1, <2>2 DEF AtHand
<1>7. ASSUME NEW s \in Runners, NEW g \in Procs, NEW t \in Turns, s # r
      PROVE  Given(s, g, t)' = Given(s, g, t)
    BY <1>7 DEF Given, Grants
<1>8. Newest'
  <2> SUFFICES ASSUME NEW s \in Runners, NEW g \in Procs, NEW t \in Turns,
                      runner'[s].pc = "turn", runner'[s].on = g, Given(s, g, t)'
               PROVE  turn'[g][s] \in {0, t} /\ \A q \in Range(requests'[g]) : q.by # s
      BY DEF Newest
  <2>1. s # r /\ Given(s, g, t) BY <1>7
  <2>2. runner[s].pc = "turn" /\ runner[s].on = g BY <2>1
  <2>3. Newest BY DEF Books
  <2>4. turn[g][s] \in {0, t} /\ \A q \in Range(requests[g]) : q.by # s BY <2>1, <2>2, <2>3 DEF Newest
  <2> QED BY <2>4
<1>9. AtPeace' BY DEF Books, AtPeace
<1>10. Ledger'
  <2> SUFFICES ASSUME NEW s \in Runners, NEW g \in Procs, On(s, g)'
               PROVE  owed'[s] + OwedNext(s, g)' <= Paid(s, g)'
      BY DEF Ledger
  <2>1. CASE s = r
    <3>1. ~Announced(s, g)' BY <2>1 DEF Announced
    <3>2. OwedNext(s, g)' = IF Unknown(s, g)' THEN 1 ELSE 0 BY <3>1 DEF OwedNext
    <3> QED BY <2>1, <3>2
  <2>2. CASE s # r
    <3>1. On(s, g) BY <2>2 DEF On
    <3>2. owed[s] + OwedNext(s, g) <= Paid(s, g) BY <3>1 DEF Books, Ledger
    <3>3. Paid(s, g)' = Paid(s, g) BY <2>2 DEF Paid, Ends, Said, Written, Runs
    <3>4. Announced(s, g)' = Announced(s, g) BY <1>7, <2>2 DEF Announced, Landed
    <3>5. Unknown(s, g)' = Unknown(s, g) BY <2>2 DEF Unknown, Sends
    <3> QED BY <2>2, <3>2, <3>3, <3>4, <3>5 DEF OwedNext
  <2> QED BY <2>1, <2>2
<1> QED BY <1>5, <1>6, <1>8, <1>9, <1>10 DEF Books

\* A turn or a compaction is announced.
LEMMA AnnounceBooks ==
    ASSUME Inv, Inv', Books, NEW r \in Runners, Sent(r) \/ Compacting(r)
    PROVE  Books'
<1> USE Numbers
<1>1. runner \in [Runners -> RunRec] /\ runner[r] \in RunRec /\ owed \in [Runners -> Nat]
    BY DEF Inv, Types, RunT, ChatT
<1>2. /\ UNCHANGED <<proc, shared, answer, plan, requests, lines, mouth, turn, ear>>
      /\ runner[r].pc \in {"turn", "compact"} /\ answer[r] # << >> /\ Head(answer[r]).ok
    BY DEF Sent, Compacting, Ok, Answered, procVars, sharedVars, wireVars, nativeVars
<1>3. PICK t \in Turns : t = Head(answer[r]).turn
  <2>1. Head(answer[r]) \in AnswerRec BY <1>2, AnswerHead DEF Inv, Types
  <2> QED BY <2>1 DEF AnswerRec
<1>4. \A g \in Procs : Given(r, g, t) BY <1>2, <1>3 DEF Given
<1>5. /\ runner'[r].pc = "idle" /\ runner'[r].id = runner[r].id /\ runner'[r].shared = runner[r].shared
      /\ \A s \in Runners \ {r} : runner'[s] = runner[s] /\ ear'[s] = ear[s] /\ owed'[s] = owed[s]
    BY <1>1, <1>2 DEF Sent, Compacting, Goto, RunRec
<1>6. ASSUME NEW g \in Procs, On(r, g)'
      PROVE  owed'[r] + (IF Unknown(r, g)' THEN 1 ELSE 0) <= Paid(r, g)'
  <2>1. On(r, g) /\ runner[r].on = g BY <1>2, <1>5, <1>6, CallsOn DEF On
  <2>2. owed[r] + OwedNext(r, g) <= Paid(r, g) BY <2>1 DEF Books, Ledger
  <2>3. Paid(r, g)' = Paid(r, g) BY <1>2 DEF Paid, Ends, Said, Written, Runs
  <2>4. owed[r] \in Nat /\ OwedNext(r, g) \in {0, 1} /\ Paid(r, g) \in Nat BY Numeric
  <2>5. CASE Sent(r)
    <3>1. runner[r].pc = "turn" /\ runner'[r].started = t BY <1>1, <1>3, <2>5 DEF Sent, Ok, Answered, RunRec
    <3>2. turn[g][r] \in {0, t} BY <1>4, <2>1, <3>1 DEF Books, Newest
    <3>3. ~Unknown(r, g)' BY <1>2, <3>1, <3>2 DEF Unknown
    <3>4. owed'[r] = IF Landed(r, t) THEN owed[r] ELSE owed[r] + 1 BY <1>1, <1>3, <2>5 DEF Sent
    <3>5. ~Landed(r, t) => OwedNext(r, g) = 1 BY <1>4, <3>1 DEF OwedNext, Announced
    <3>6. owed'[r] <= Paid(r, g)' BY <2>2, <2>3, <2>4, <3>4, <3>5
    <3>7. owed'[r] \in Nat /\ Paid(r, g)' \in Nat BY <2>3, <2>4, <3>4
    <3> QED BY <3>3, <3>6, <3>7
  <2>6. CASE Compacting(r)
    <3>1. runner[r].pc = "compact" BY <2>6 DEF Compacting, Ok, Answered
    <3>2. ~Sends(r)'
      <4>1. ~Ahead(plan'[r]) BY <1>2, <3>1 DEF Books, AtPeace
      <4> QED BY <1>5, <4>1 DEF Sends, SendPlaces
    <3>3. ~Unknown(r, g)' BY <3>2 DEF Unknown
    <3>4. owed'[r] = owed[r] + 1 BY <1>1, <2>6 DEF Compacting
    <3>5. OwedNext(r, g) = 1 BY <1>4, <3>1 DEF OwedNext, Announced
    <3>6. owed'[r] <= Paid(r, g)' BY <2>2, <2>3, <2>4, <3>4, <3>5
    <3>7. owed'[r] \in Nat /\ Paid(r, g)' \in Nat BY <2>3, <2>4, <3>4
    <3> QED BY <3>3, <3>6, <3>7
  <2> QED BY <2>5, <2>6
<1> QED BY <1>2, <1>5, <1>6, RestsBooks

\* attach: nothing is owed yet.
LEMMA AttachBooks ==
    ASSUME Inv, Inv', Books, NEW r \in Runners, Attach(r)
    PROVE  Books'
<1> USE Numbers
<1>1. runner \in [Runners -> RunRec] /\ runner[r] \in RunRec BY DEF Inv, Types, RunT
<1>2. owed \in [Runners -> Nat] /\ ear \in [Runners -> Seq(HeardRec)] BY DEF Inv, Types, ChatT
<1>3. shared \in [Procs -> SharedRec] /\ \A h \in Procs : shared[h] \in SharedRec BY DEF Inv, Types, SharedT
<1>4. /\ runner[r].pc = "attach"
      /\ UNCHANGED <<proc, answer, plan, requests, lines, mouth, turn>>
    BY DEF Attach, procVars, wireVars, nativeVars
<1>5. runner[r].on \in Procs BY <1>1, <1>4 DEF Inv, Core, Used, AtPlaces, Placed, StartPlaces, RunRec
<1>6. CASE MayAttach(runner[r].on)
  <2>1. /\ shared' = [shared EXCEPT ![runner[r].on].routes[r] = 0]
        /\ runner' = [runner EXCEPT ![r].pc = "idle", ![r].shared = runner[r].on, ![r].started = 0]
        /\ ear' = [ear EXCEPT ![r] = << >>] /\ owed' = [owed EXCEPT ![r] = 0]
      BY <1>6 DEF Attach
  <2>2. \A g \in Procs : shared'[g].pending = shared[g].pending
    <3>1. shared' = [shared EXCEPT ![runner[r].on] =
                        [shared[runner[r].on] EXCEPT !.routes = [shared[runner[r].on].routes EXCEPT ![r] = 0]]]
        BY <2>1
    <3> QED BY <1>3, <3>1 DEF SharedRec
  <2>3. /\ runner'[r].pc = "idle" /\ runner'[r].id = runner[r].id
        /\ \A s \in Runners \ {r} : runner'[s] = runner[s] /\ ear'[s] = ear[s] /\ owed'[s] = owed[s]
        /\ owed'[r] = 0
      BY <1>1, <1>2, <2>1 DEF RunRec
  <2>4. ASSUME NEW g \in Procs PROVE owed'[r] + (IF Unknown(r, g)' THEN 1 ELSE 0) <= Paid(r, g)'
    <3>1. Ends(r)' \in Nat /\ Written(r, g)' \in Nat /\ Said(r, g)' \in {0, 1} /\ Runs(r, g)' \in {0, 1}
      <4>1. lines'[g] \in Seq(LineRec) /\ ear'[r] \in Seq(HeardRec) BY DEF Inv, Types, WireT, ChatT
      <4>2. Written(r, g)' \in Nat BY <4>1, CountType DEF Written
      <4>3. {i \in DOMAIN ear'[r] : ear'[r][i].kind = "end"} = {}
        <5>1. ear'[r] = << >> BY <1>2, <2>1
        <5> QED BY <5>1
      <4>4. Ends(r)' = 0 BY <4>3, FS_EmptySet DEF Ends
      <4> QED BY <4>2, <4>4 DEF Said, Runs
    <3>2. Unknown(r, g)' => Runs(r, g)' = 1 BY DEF Unknown, Runs
    <3> QED BY <2>3, <3>1, <3>2 DEF Paid
  <2> QED BY <1>4, <2>2, <2>3, <2>4, RestsBooks DEF Waiting
<1>7. CASE ~MayAttach(runner[r].on)
  <2>1. runner' = [runner EXCEPT ![r].pc = "failed"] /\ UNCHANGED <<shared, ear, owed>>
      BY <1>7 DEF Attach, Goto
  <2>2. \A s \in Runners \ {r} : runner'[s] = runner[s] BY <1>1, <2>1
  <2>3. Moved(r) /\ GoesOn(r) BY <1>1, <1>4, <2>1 DEF Moved, GoesOn, Waiting, RunRec
  <2>4. runner'[r].pc \notin SendPlaces BY <1>1, <2>1 DEF SendPlaces, RunRec
  <2> QED BY <1>4, <2>1, <2>2, <2>3, <2>4, SameProc, OneMoves
<1> QED BY <1>6, <1>7

-----------------------------------------------------------------------------
(* What the pump hears. *)

\* Something is heard: no more is given than was, and as much is paid.
LEMMA HeardBooks ==
    ASSUME Inv, Inv', Books,
           \A s \in Runners : \A h \in Procs : \A t \in Turns : runner[s].on = h /\ Given(s, h, t)' => Given(s, h, t),
           \A h \in Procs : shared'[h].pending \subseteq shared[h].pending,
           \A h \in Procs : \A s \in Runners : \A n \in Nat : <<s, n>> \in shared'[h].pending => answer'[s] = answer[s],
           \A h \in Procs : Range(lines'[h]) \subseteq Range(lines[h]),
           \A s \in Runners : \A h \in Procs : On(s, h)' => On(s, h) /\ Paid(s, h) <= Paid(s, h)',
           UNCHANGED <<runner, plan, requests, turn, owed>>
    PROVE  Books'
<1> USE Numbers
<1>1. InTurn' BY DEF Books, InTurn
<1>2. AtHand' BY DEF Books, AtHand
<1>3. Newest' BY DEF Books, Newest
<1>4. AtPeace' BY DEF Books, AtPeace
<1>5. Ledger'
  <2> SUFFICES ASSUME NEW s \in Runners, NEW h \in Procs, On(s, h)'
               PROVE  owed'[s] + OwedNext(s, h)' <= Paid(s, h)'
      BY DEF Ledger
  <2>1. On(s, h) /\ Paid(s, h) <= Paid(s, h)' OBVIOUS
  <2>2. owed[s] + OwedNext(s, h) <= Paid(s, h) BY <2>1 DEF Books, Ledger
  <2>3. Announced(s, h)' => Announced(s, h)
    <3>1. ASSUME NEW t \in Turns, Given(s, h, t)', runner[s].pc \in {"turn", "compact"} PROVE Given(s, h, t)
      <4>1. runner[s].on = h BY <2>1, <3>1, CallsOn DEF On
      <4> QED BY <3>1, <4>1
    <3> QED BY <3>1 DEF Announced, Landed
  <2>4. Unknown(s, h)' => Unknown(s, h) BY DEF Unknown, Sends
  <2>5. OwedNext(s, h)' <= OwedNext(s, h) /\ OwedNext(s, h)' \in {0, 1} BY <2>3, <2>4 DEF OwedNext
  <2>6. owed'[s] = owed[s] /\ owed[s] \in Nat /\ OwedNext(s, h) \in {0, 1} /\ Paid(s, h) \in Nat BY Numeric
  <2>7. Paid(s, h)' \in Nat
    <3>1. /\ lines'[h] \in Seq(LineRec) /\ ear'[s] \in Seq(HeardRec) BY DEF Inv, Types, WireT, ChatT
    <3>2. Written(s, h)' \in Nat BY <3>1, CountType DEF Written
    <3>3. Ends(s)' = Count(ear'[s], HeardEnds)
      <4>1. \A i \in DOMAIN ear'[s] : ear'[s][i].kind = "end" <=> ear'[s][i] \in HeardEnds BY <3>1 DEF HeardEnds
      <4>2. {i \in DOMAIN ear'[s] : ear'[s][i].kind = "end"} = {i \in DOMAIN ear'[s] : ear'[s][i] \in HeardEnds}
          BY <4>1
      <4> QED BY <4>2 DEF Ends, Count
    <3>4. Ends(s)' \in Nat BY <3>1, <3>3, CountType
    <3> QED BY <3>2, <3>4 DEF Paid, Said, Runs
  <2> QED BY <2>1, <2>2, <2>5, <2>6, <2>7
<1> QED BY <1>1, <1>2, <1>3, <1>4, <1>5 DEF Books

\* A line is taken off the wire.
LEMMA TakeLine ==
    ASSUME Inv, NEW g \in Procs, lines[g] # << >>, Heard(g)
    PROVE  /\ Head(lines[g]) \in LineRec /\ Head(lines[g]) \in Range(lines[g])
           /\ \A h \in Procs : Range(lines'[h]) \subseteq Range(lines[h])
           /\ \A h \in Procs \ {g} : lines'[h] = lines[h]
           /\ \A r \in Runners : Written(r, g) = Written(r, g)' + (IF Head(lines[g]) \in Endings(r) THEN 1 ELSE 0)
<1>1. lines \in [Procs -> Seq(LineRec)] /\ lines[g] \in Seq(LineRec) BY DEF Inv, Types, WireT
<1>2. lines' = [lines EXCEPT ![g] = Tail(lines[g])] BY DEF Heard
<1>3. lines'[g] = Tail(lines[g]) /\ \A h \in Procs \ {g} : lines'[h] = lines[h] BY <1>1, <1>2
<1>4. Range(lines[g]) = {Head(lines[g])} \cup Range(Tail(lines[g])) /\ Head(lines[g]) \in LineRec BY <1>1, RangeIs
<1>5. \A h \in Procs : Range(lines'[h]) \subseteq Range(lines[h]) BY <1>3, <1>4
<1>6. ASSUME NEW r \in Runners
      PROVE  Written(r, g) = Written(r, g)' + (IF Head(lines[g]) \in Endings(r) THEN 1 ELSE 0)
  <2>1. Count(lines[g], Endings(r)) = Count(Tail(lines[g]), Endings(r)) + (IF Head(lines[g]) \in Endings(r) THEN 1 ELSE 0)
      BY <1>1, CountTail
  <2>2. Written(r, g)' = Count(Tail(lines[g]), Endings(r)) BY <1>3 DEF Written, Endings
  <2> QED BY <2>1, <2>2 DEF Written
<1> QED BY <1>3, <1>4, <1>5, <1>6

\* What an answer grants stays what it is when lines are taken off the wire.
LEMMA GivenStays ==
    ASSUME UNCHANGED runner, NEW s, NEW h, Range(lines'[h]) \subseteq Range(lines[h]), answer'[s] = answer[s]
    PROVE  \A t \in Turns : Given(s, h, t)' => Given(s, h, t)
BY DEF Given, Grants

\* A line that is dropped, a request of the server's and a response.
LEMMA HearBooks ==
    ASSUME Inv, Inv', Books, NEW g \in Procs, Dropped(g) \/ HearAsk(g) \/ HearReply(g)
    PROVE  Books'
<1> USE Numbers
<1>1. lines[g] # << >> /\ UNCHANGED <<proc, requests, mouth, turn, runner, plan, ear, owed>>
    BY DEF Dropped, HearReply, HearAsk, Hearing, procVars, nativeVars, runnerVars, historyVars
<1>2. shared \in [Procs -> SharedRec] /\ \A h \in Procs : shared[h] \in SharedRec BY DEF Inv, Types, SharedT
<1>3. answer \in [Runners -> Short(AnswerRec)] BY DEF Inv, Types, AnswerT
<1>4. lines \in [Procs -> Seq(LineRec)] BY DEF Inv, Types, WireT
<1>5. CASE Dropped(g)
  <2>1. ~proc[g].gate /\ lines' = [lines EXCEPT ![g] = << >>] /\ UNCHANGED <<shared, answer>>
      BY <1>5 DEF Dropped, sharedVars, runnerVars
  <2>2. lines'[g] = << >> /\ \A h \in Procs \ {g} : lines'[h] = lines[h] BY <1>4, <2>1
  <2>3. \A h \in Procs : Range(lines'[h]) \subseteq Range(lines[h]) BY <2>2 DEF Range
  <2>4. \A s \in Runners : \A h \in Procs : \A t \in Turns : Given(s, h, t)' => Given(s, h, t)
      BY <1>1, <2>1, <2>3, GivenStays
  <2>5. ASSUME NEW s \in Runners, NEW h \in Procs, On(s, h)' PROVE On(s, h) /\ Paid(s, h) <= Paid(s, h)'
    <3>1. On(s, h) /\ h # g BY <1>1, <2>1, <2>5 DEF On
    <3>2. Paid(s, h)' = Paid(s, h) BY <1>1, <2>2, <3>1 DEF Paid, Ends, Said, Written, Runs, Endings
    <3> QED BY <3>1, <3>2, Numeric
  <2> QED BY <1>1, <2>1, <2>3, <2>4, <2>5, HeardBooks
<1>6. ASSUME Head(lines[g]).kind # "note", Heard(g), NEW s \in Runners, NEW h \in Procs, On(s, h)'
      PROVE  On(s, h) /\ Paid(s, h) <= Paid(s, h)'
  <2>1. On(s, h) BY <1>1, <1>6 DEF On
  <2>2. Head(lines[g]) \notin Endings(s) BY <1>6 DEF Endings, NoteRec
  <2>3. Written(s, g) \in Nat
    <3>1. lines[g] \in Seq(LineRec) BY <1>4
    <3> QED BY <3>1, CountType DEF Written
  <2>4. Written(s, g)' \in Nat
    <3>1. lines'[g] \in Seq(LineRec) BY DEF Inv, Types, WireT
    <3> QED BY <3>1, CountType DEF Written
  <2>5. Written(s, g)' = Written(s, g) BY <1>1, <1>6, <2>2, <2>3, <2>4, TakeLine
  <2>6. h # g => Written(s, h)' = Written(s, h) BY <1>1, <1>6, TakeLine DEF Written, Endings
  <2>7. Written(s, h)' = Written(s, h) BY <2>5, <2>6
  <2>8. Paid(s, h)' = Paid(s, h) BY <1>1, <2>7 DEF Paid, Ends, Said, Runs
  <2> QED BY <2>1, <2>8, Numeric
<1>7. CASE HearAsk(g)
  <2>1. Head(lines[g]).kind = "ask" /\ Heard(g) /\ UNCHANGED answer BY <1>7 DEF HearAsk, Hearing, runnerVars
  <2>2. shared' = [shared EXCEPT ![g] = [shared[g] EXCEPT !.declines = shared[g].declines + 1]]
      BY <1>2, <1>7 DEF HearAsk
  <2>3. \A h \in Procs : shared'[h].pending = shared[h].pending BY <1>2, <2>2 DEF SharedRec
  <2>4. \A h \in Procs : Range(lines'[h]) \subseteq Range(lines[h]) BY <1>1, <2>1, TakeLine
  <2>5. \A s \in Runners : \A h \in Procs : \A t \in Turns : Given(s, h, t)' => Given(s, h, t)
      BY <1>1, <2>1, <2>4, GivenStays
  <2> QED BY <1>1, <1>6, <2>1, <2>3, <2>4, <2>5, HeardBooks
<1>8. CASE HearReply(g)
  <2>1. Head(lines[g]).kind = "reply" /\ Heard(g) BY <1>8 DEF HearReply, Hearing
  <2>2. \A h \in Procs : Range(lines'[h]) \subseteq Range(lines[h]) BY <1>1, <2>1, TakeLine
  <2>3. PICK m \in Range(lines[g]) : m = Head(lines[g]) /\ m \in LineRec /\ m.kind = "reply"
      BY <1>1, <2>1, TakeLine
  <2>4. m.to \in Runners /\ m.id \in Nat /\ m.ok \in BOOLEAN /\ m.turn \in Turns
      BY <2>3 DEF LineRec, ReplyRec, NoteRec
  <2>5. CASE <<m.to, m.id>> \notin shared[g].pending
    <3>1. UNCHANGED <<shared, answer>> BY <1>8, <2>3, <2>5 DEF HearReply
    <3>2. \A s \in Runners : \A h \in Procs : \A t \in Turns : Given(s, h, t)' => Given(s, h, t)
        BY <1>1, <2>2, <3>1, GivenStays
    <3> QED BY <1>1, <1>6, <2>1, <2>2, <3>1, <3>2, HeardBooks
  <2>6. CASE <<m.to, m.id>> \in shared[g].pending
    <3>1. /\ shared' = [shared EXCEPT ![g].pending = @ \ {<<m.to, m.id>>}]
          /\ answer' = [answer EXCEPT ![m.to] = <<[ok |-> m.ok, turn |-> m.turn]>>]
        BY <1>8, <2>3, <2>6 DEF HearReply
    <3>2. runner[m.to].on = g /\ runner[m.to].id = m.id /\ runner[m.to].pc \in Waiting /\ answer[m.to] = << >>
        BY <2>4, <2>6 DEF Books, AtHand
    <3>3. /\ shared'[g].pending = shared[g].pending \ {<<m.to, m.id>>}
          /\ \A h \in Procs \ {g} : shared'[h] = shared[h]
        BY <1>2, <3>1 DEF SharedRec
    <3>4. \A h \in Procs : shared'[h].pending \subseteq shared[h].pending BY <3>3
    <3>5. \A s \in Runners \ {m.to} : answer'[s] = answer[s] BY <1>3, <3>1
    <3>6. ASSUME NEW h \in Procs, NEW s \in Runners, NEW n \in Nat, <<s, n>> \in shared'[h].pending
          PROVE  answer'[s] = answer[s]
      <4>1. runner[s].on = h /\ runner[s].id = n BY <3>4, <3>6 DEF Books, AtHand
      <4>2. s # m.to BY <3>2, <3>3, <3>6, <4>1
      <4> QED BY <3>5, <4>2
    <3>7. ASSUME NEW s \in Runners, NEW h \in Procs, NEW t \in Turns, runner[s].on = h, Given(s, h, t)'
          PROVE  Given(s, h, t)
      <4>1. CASE s = m.to
        <5>1. h = g BY <3>2, <3>7, <4>1
        <5>2. answer'[s] = <<[ok |-> m.ok, turn |-> m.turn]>> BY <1>3, <2>4, <3>1, <4>1
        <5>3. m.ok /\ m.turn = t BY <3>7, <5>2 DEF Given
        <5>4. Grants(m, s, t) BY <2>3, <3>2, <4>1, <5>3 DEF Grants
        <5> QED BY <2>3, <3>2, <4>1, <5>1, <5>4 DEF Given
      <4>2. CASE s # m.to BY <1>1, <2>2, <3>5, <3>7, <4>2, GivenStays
      <4> QED BY <4>1, <4>2
    <3> QED BY <1>1, <1>6, <2>1, <2>2, <3>4, <3>6, <3>7, HeardBooks
  <2> QED BY <2>5, <2>6
<1> QED BY <1>5, <1>7, <1>8

\* A notification: the end of a turn of an attached chat is about to be emitted.
LEMMA HearNoteBooks ==
    ASSUME Inv, Inv', Books, NEW g \in Procs, HearNote(g)
    PROVE  Books'
<1> USE Numbers
<1>1. /\ lines[g] # << >> /\ Heard(g) /\ proc[g].pump = "idle"
      /\ UNCHANGED <<requests, turn, runner, answer, plan, ear, owed>>
    BY DEF HearNote, Hearing, nativeVars, runnerVars, historyVars
<1>2. shared \in [Procs -> SharedRec] /\ \A h \in Procs : shared[h] \in SharedRec BY DEF Inv, Types, SharedT
<1>3. proc \in [Procs -> ProcRec] BY DEF Inv, Types, ProcT
<1>4. mouth \in [Procs -> Short(Runners)] /\ mouth[g] = << >> BY <1>1 DEF Inv, Types, MouthT
<1>5. lines \in [Procs -> Seq(LineRec)] /\ lines' \in [Procs -> Seq(LineRec)] BY DEF Inv, Types, WireT
<1>6. PICK m : m = Head(lines[g]) OBVIOUS
<1>8. /\ \A h \in Procs : shared'[h].pending = shared[h].pending
      /\ \A s \in Runners : \A h \in Procs : On(s, h)' => On(s, h)
      /\ \A h \in Procs \ {g} : mouth'[h] = mouth[h]
      /\ shared[g].routes[m.to] # NoRoute /\ m.what # "started" => mouth'[g] = <<m.to>>
  <2>1. CASE shared[g].routes[m.to] = NoRoute
    <3>1. UNCHANGED <<proc, shared, mouth>> BY <1>6, <2>1 DEF HearNote
    <3> QED BY <1>1, <2>1, <3>1 DEF On
  <2>2. CASE shared[g].routes[m.to] # NoRoute
    <3>1. PICK k, l, p : /\ shared' = [shared EXCEPT ![g].routes[m.to] = k]
                         /\ mouth' = [mouth EXCEPT ![g] = l] /\ proc' = [proc EXCEPT ![g].pump = p]
                         /\ m.what # "started" => l = <<m.to>>
        BY <1>6, <2>2 DEF HearNote
    <3>2. shared' = [shared EXCEPT ![g] = [shared[g] EXCEPT !.routes = [shared[g].routes EXCEPT ![m.to] = k]]]
        BY <1>2, <3>1
    <3>3. \A h \in Procs : shared'[h].pending = shared[h].pending BY <1>2, <3>2 DEF SharedRec
    <3>4. \A s \in Runners : \A h \in Procs : On(s, h)' => On(s, h) BY <1>1, <1>3, <3>1 DEF On, ProcRec
    <3> QED BY <1>4, <3>1, <3>3, <3>4
  <2> QED BY <2>1, <2>2
<1>9. ASSUME NEW s \in Runners, NEW h \in Procs, On(s, h)' PROVE On(s, h) /\ Paid(s, h) <= Paid(s, h)'
  <2>1. On(s, h) BY <1>8, <1>9
  <2>2. CASE h # g
    <3>1. Paid(s, h)' = Paid(s, h)
        BY <1>1, <1>8, <2>2, TakeLine DEF Paid, Ends, Said, Written, Runs, Endings
    <3> QED BY <2>1, <3>1, Numeric
  <2>3. CASE h = g
    <3>1. Said(s, g) = 0 /\ Ends(s)' = Ends(s) /\ Runs(s, g)' = Runs(s, g) BY <1>1, <1>4 DEF Said, Ends, Runs
    <3>2. Written(s, g) = Written(s, g)' + (IF m \in Endings(s) THEN 1 ELSE 0) BY <1>1, <1>6, TakeLine
    <3>3. Written(s, g)' \in Nat
      <4>1. lines'[g] \in Seq(LineRec) BY <1>5
      <4> QED BY <4>1, CountType DEF Written
    <3>4. Said(s, g)' \in {0, 1} BY DEF Said
    <3>5. m \in Endings(s) => Said(s, g)' = 1
      <4>1. ASSUME m \in Endings(s) PROVE mouth'[g] = <<s>>
        <5>1. m.what # "started" /\ m.to = s BY <4>1 DEF Endings
        <5>2. shared[g].routes[s] # NoRoute BY <2>1, <2>3 DEF On, Inv, Core, Hooked
        <5> QED BY <1>8, <5>1, <5>2
      <4>2. <<s>> # << >> /\ Head(<<s>>) = s OBVIOUS
      <4> QED BY <4>1, <4>2 DEF Said
    <3>6. Ends(s) \in Nat /\ Runs(s, g) \in Nat BY Numeric
    <3>7. Ends(s) + 0 + Written(s, g) + Runs(s, g) <= Ends(s) + Said(s, g)' + Written(s, g)' + Runs(s, g)
        BY <3>2, <3>3, <3>4, <3>5, <3>6
    <3> QED BY <2>1, <2>3, <3>1, <3>7 DEF Paid
  <2> QED BY <2>2, <2>3
<1>10. \A h \in Procs : Range(lines'[h]) \subseteq Range(lines[h]) BY <1>1, TakeLine
<1>11. \A s \in Runners : \A h \in Procs : \A t \in Turns : Given(s, h, t)' => Given(s, h, t)
    BY <1>1, <1>10, GivenStays
<1> QED BY <1>1, <1>8, <1>9, <1>10, <1>11, HeardBooks

\* feed: the end is heard.
LEMMA EmitBooks ==
    ASSUME Inv, Inv', Books, NEW g \in Procs, Emit(g)
    PROVE  Books'
<1> USE Numbers
<1>1. /\ UNCHANGED <<requests, lines, turn, runner, answer, plan, owed, shared>>
      /\ proc' = [proc EXCEPT ![g].pump = "idle"] /\ mouth' = [mouth EXCEPT ![g] = << >>]
      /\ mouth[g] # << >>
    BY DEF Emit, nativeVars, runnerVars, historyVars, sharedVars, Inv, Types, MouthT
<1>2. proc \in [Procs -> ProcRec] BY DEF Inv, Types, ProcT
<1>3. mouth \in [Procs -> Short(Runners)] /\ mouth[g] \in Seq(Runners) BY DEF Inv, Types, MouthT, Short
<1>4. PICK r \in Runners : r = Head(mouth[g]) BY <1>1, <1>3
<1>5. PICK e \in HeardEnds : e = [kind |-> "end", from |-> g] BY DEF HeardEnds, HeardRec
<1>6. ear' = [ear EXCEPT ![r] = Append(ear[r], e)] BY <1>4, <1>5 DEF Emit, Hears
<1>7. ear \in [Runners -> Seq(HeardRec)] /\ ear' \in [Runners -> Seq(HeardRec)] BY DEF Inv, Types, ChatT
<1>8. ear'[r] = Append(ear[r], e) /\ \A s \in Runners \ {r} : ear'[s] = ear[s] BY <1>6, <1>7
<1>9. Ends(r)' = Ends(r) + 1
  <2>1. \A i \in DOMAIN ear'[r] : ear'[r][i].kind = "end" <=> ear'[r][i] \in HeardEnds BY <1>7 DEF HeardEnds
  <2>2. {i \in DOMAIN ear'[r] : ear'[r][i].kind = "end"} = {i \in DOMAIN ear'[r] : ear'[r][i] \in HeardEnds}
      BY <2>1
  <2>3. Ends(r)' = Count(ear'[r], HeardEnds) BY <2>2 DEF Ends, Count
  <2>4. ear[r] \in Seq(HeardRec) /\ e \in HeardRec BY <1>7 DEF HeardEnds
  <2>5. Count(Append(ear[r], e), HeardEnds) = Count(ear[r], HeardEnds) + 1 BY <2>4, CountAppend
  <2> QED BY <1>8, <2>3, <2>5, EndsIs DEF Inv, Types
<1>10. ASSUME NEW s \in Runners, NEW h \in Procs, On(s, h)' PROVE On(s, h) /\ Paid(s, h) <= Paid(s, h)'
  <2>1. On(s, h) BY <1>1, <1>2, <1>10 DEF On, ProcRec
  <2>2. Written(s, h)' = Written(s, h) /\ Runs(s, h)' = Runs(s, h) BY <1>1 DEF Written, Endings, Runs
  <2>3. Ends(s)' + Said(s, h)' >= Ends(s) + Said(s, h)
    <3>1. CASE s # r
      <4>1. Ends(s)' = Ends(s) BY <1>8, <3>1 DEF Ends
      <4>2. Said(s, h)' = Said(s, h) BY <1>1, <1>3, <1>4, <3>1 DEF Said
      <4> QED BY <4>1, <4>2, Numeric
    <3>2. CASE s = r
      <4>1. Said(s, h)' \in {0, 1} BY DEF Said
      <4> QED BY <1>9, <3>2, <4>1, Numeric
    <3> QED BY <3>1, <3>2
  <2>4. Written(s, h) \in Nat /\ Runs(s, h) \in Nat /\ Ends(s) \in Nat /\ Said(s, h) \in Nat BY Numeric
  <2>5. Ends(s)' \in Nat /\ Said(s, h)' \in Nat
    <3>1. s # r => Ends(s)' = Ends(s) BY <1>8 DEF Ends
    <3> QED BY <1>9, <2>4, <3>1, Numeric DEF Said
  <2> QED BY <2>1, <2>2, <2>3, <2>4, <2>5 DEF Paid
<1>11. \A s \in Runners : \A h \in Procs : \A t \in Turns : Given(s, h, t)' => Given(s, h, t) BY <1>1, GivenStays
<1> QED BY <1>1, <1>10, <1>11, HeardBooks

-----------------------------------------------------------------------------
(* What the server answers and tells. *)

\* What a step of the server's leaves alone.
LEMMA ServerLeaves ==
    UNCHANGED <<procVars, nativeRest>> => UNCHANGED <<proc, shared, mouth, runner, answer, plan, ear, owed>>
BY DEF procVars, nativeRest, sharedVars, runnerVars, historyVars

\* A turn that ends is written to have ended, one that begins runs, and no more
\* is going to be owed otherwise.
LEMMA ServerBooks ==
    ASSUME Inv, Inv', Books, UNCHANGED <<procVars, nativeRest>>, InTurn', AtHand', Newest',
           \A s \in Runners : \A h \in Procs : On(s, h) =>
               \/ /\ Announced(s, h)' \/ Unknown(s, h)' => OwedNext(s, h) = 1
                  /\ Runs(s, h) + Written(s, h) <= Runs(s, h)' + Written(s, h)'
               \/ Runs(s, h) + Written(s, h) + 1 <= Runs(s, h)' + Written(s, h)'
    PROVE  Books'
<1> USE Numbers
<1>1. UNCHANGED <<proc, shared, mouth, runner, answer, plan, ear, owed>> BY ServerLeaves
<1>2. AtPeace' BY <1>1 DEF Books, AtPeace
<1>3. Ledger'
  <2> SUFFICES ASSUME NEW s \in Runners, NEW h \in Procs, On(s, h)'
               PROVE  owed'[s] + OwedNext(s, h)' <= Paid(s, h)'
      BY DEF Ledger
  <2>1. On(s, h) BY <1>1 DEF On
  <2>2. owed[s] + OwedNext(s, h) <= Paid(s, h) BY <2>1 DEF Books, Ledger
  <2>3. Ends(s)' = Ends(s) /\ Said(s, h)' = Said(s, h) /\ owed'[s] = owed[s] BY <1>1 DEF Ends, Said
  <2>4. /\ Ends(s) \in Nat /\ Said(s, h) \in Nat /\ Written(s, h) \in Nat /\ Runs(s, h) \in Nat
        /\ owed[s] \in Nat /\ OwedNext(s, h) \in {0, 1}
      BY Numeric
  <2>5. Written(s, h)' \in Nat
    <3>1. lines'[h] \in Seq(LineRec) BY DEF Inv, Types, WireT
    <3> QED BY <3>1, CountType DEF Written
  <2>6. Runs(s, h)' \in Nat /\ OwedNext(s, h)' \in {0, 1} BY DEF Runs, OwedNext
  <2>7. Paid(s, h) = Ends(s) + Said(s, h) + Written(s, h) + Runs(s, h) BY DEF Paid
  <2>8. Paid(s, h)' = Ends(s) + Said(s, h) + Written(s, h)' + Runs(s, h)' BY <2>3 DEF Paid
  <2>9. CASE /\ Announced(s, h)' \/ Unknown(s, h)' => OwedNext(s, h) = 1
             /\ Runs(s, h) + Written(s, h) <= Runs(s, h)' + Written(s, h)'
    <3>1. OwedNext(s, h)' <= OwedNext(s, h) BY <2>4, <2>9 DEF OwedNext
    <3>2. Paid(s, h) <= Paid(s, h)' BY <2>4, <2>5, <2>6, <2>7, <2>8, <2>9
    <3>3. Paid(s, h) \in Nat /\ Paid(s, h)' \in Nat BY <2>4, <2>5, <2>6, <2>7, <2>8
    <3> QED BY <2>2, <2>3, <2>4, <2>6, <3>1, <3>2, <3>3
  <2>10. CASE Runs(s, h) + Written(s, h) + 1 <= Runs(s, h)' + Written(s, h)'
    <3>1. Paid(s, h) + 1 <= Paid(s, h)' BY <2>4, <2>5, <2>6, <2>7, <2>8, <2>10
    <3>2. Paid(s, h) \in Nat /\ Paid(s, h)' \in Nat BY <2>4, <2>5, <2>6, <2>7, <2>8
    <3> QED BY <2>2, <2>3, <2>4, <2>6, <3>1, <3>2
  <2> QED BY <2>1, <2>9, <2>10
<1> QED BY <1>2, <1>3 DEF Books

\* What an answer a and a note b bring about that the server writes as l when it
\* has read the request q.
Served(g, q, a, b, l) ==
    /\ InTurn' /\ AtHand' /\ q.by \in Runners
    /\ \A h \in Procs : Range(requests'[h]) \subseteq Range(requests[h])
    /\ \A s \in Runners : \A h \in Procs : \A t \in Turns : Given(s, h, t)' =>
           \/ Given(s, h, t)
           \/ /\ h = g /\ s = q.by /\ q.id = runner[s].id /\ a.ok /\ a.turn = t
              /\ \A x \in Range(requests'[h]) : x.by # s
              /\ runner[s].pc = "turn" => q.method = "turn/start"
              /\ runner[s].pc = "compact" => q.method = "compact"
    /\ \A s \in Runners : \A h \in Procs :
           Written(s, h)' = Written(s, h) + (IF h = g /\ l # <<a>> /\ b \in Endings(s) THEN 1 ELSE 0)

\* The first request is answered, and a note comes with the answer or does not.
LEMMA ServedIs ==
    ASSUME Inv, Books, NEW g \in Procs, requests[g] # << >>, UNCHANGED <<procVars, nativeRest>>,
           NEW q, q = Head(requests[g]),
           NEW a \in ReplyRec, a.to = q.by, a.id = q.id, NEW b \in NoteRec,
           NEW said \in {<<a>>, <<a, b>>, <<b, a>>}, Says(g, said)
    PROVE  Served(g, q, a, b, said)
<1> USE Numbers
<1>1. UNCHANGED <<proc, shared, mouth, runner, answer, plan, ear, owed>> BY ServerLeaves
<1>2. /\ requests \in [Procs -> Seq(RequestRec)] /\ lines \in [Procs -> Seq(LineRec)]
      /\ \A h \in Procs : requests[h] \in Seq(RequestRec) /\ lines[h] \in Seq(LineRec)
    BY DEF Inv, Types, WireT
<1>3. a \in LineRec /\ b \in LineRec BY DEF LineRec
<1>4. /\ requests'[g] = Tail(requests[g]) /\ lines'[g] = lines[g] \o said
      /\ \A h \in Procs \ {g} : requests'[h] = requests[h] /\ lines'[h] = lines[h]
    BY <1>2 DEF Says
<1>5. q \in Range(requests[g]) /\ q \in RequestRec /\ Range(requests[g]) = {q} \cup Range(requests'[g])
    BY <1>2, <1>4, RangeIs
<1>6. \A h \in Procs : Range(requests'[h]) \subseteq Range(requests[h]) BY <1>4, <1>5
<1>7. /\ \A h \in Procs : \A m \in Range(lines'[h]) : m \in Range(lines[h]) \/ (h = g /\ m \in {a, b})
      /\ \A s \in Runners : \A h \in Procs :
             Written(s, h)' = Written(s, h) + (IF h = g /\ said # <<a>> /\ b \in Endings(s) THEN 1 ELSE 0)
  <2>1. \A s \in Runners : a \notin Endings(s) BY DEF Endings, ReplyRec, NoteRec
  <2>2. lines[g] \in Seq(LineRec) BY <1>2
  <2>3. \A s \in Runners : \A h \in Procs : Written(s, h) \in Nat BY Numeric
  <2>4. \A s \in Runners : \A h \in Procs : Written(s, h)' = Count(lines'[h], Endings(s)) BY DEF Written, Endings
  <2>5. \A s \in Runners : \A h \in Procs : h # g => Written(s, h)' = Written(s, h) BY <1>4, <2>4 DEF Written
  <2>6. <<a>> # <<a, b>> /\ <<a>> # <<b, a>> OBVIOUS
  <2>7. CASE said = <<a>>
    <3>1. lines'[g] = Append(lines[g], a) BY <1>3, <1>4, <2>2, <2>7, RangeIs
    <3>2. Range(lines'[g]) = Range(lines[g]) \cup {a} BY <1>3, <2>2, <3>1, RangeIs
    <3>3. ASSUME NEW s \in Runners PROVE Count(lines'[g], Endings(s)) = Count(lines[g], Endings(s)) + 0
        BY <1>3, <2>1, <2>2, <3>1, CountAppend
    <3>4. ASSUME NEW s \in Runners PROVE Written(s, g)' = Written(s, g) BY <2>3, <2>4, <3>3 DEF Written
    <3>5. \A h \in Procs : \A m \in Range(lines'[h]) : m \in Range(lines[h]) \/ (h = g /\ m \in {a, b})
        BY <1>4, <3>2
    <3> QED BY <2>3, <2>5, <2>7, <3>4, <3>5
  <2>8. CASE said \in {<<a, b>>, <<b, a>>}
    <3>1. PICK x \in {a, b}, y \in {a, b} : said = <<x, y>> /\ x # y /\ {x, y} = {a, b}
      <4>1. a # b BY DEF ReplyRec, NoteRec
      <4> QED BY <2>8, <4>1
    <3> DEFINE l == Append(lines[g], x)
    <3>2. l \in Seq(LineRec) /\ x \in LineRec /\ y \in LineRec BY <1>3, <2>2
    <3>3. lines'[g] = Append(l, y) BY <1>4, <2>2, <3>1, <3>2, RangeIs
    <3>4. Range(l) = Range(lines[g]) \cup {x} BY <2>2, <3>2, RangeIs
    <3>5. ASSUME NEW s \in Runners
          PROVE  Count(l, Endings(s)) = Count(lines[g], Endings(s)) + (IF x \in Endings(s) THEN 1 ELSE 0)
        BY <2>2, <3>2, CountAppend
    <3> HIDE DEF l
    <3>6. Range(lines'[g]) = Range(l) \cup {y} BY <3>2, <3>3, RangeIs
    <3>7. ASSUME NEW s \in Runners
          PROVE  Count(lines'[g], Endings(s)) = Count(l, Endings(s)) + (IF y \in Endings(s) THEN 1 ELSE 0)
        BY <3>2, <3>3, CountAppend
    <3>8. ASSUME NEW s \in Runners PROVE Written(s, g)' = Written(s, g) + (IF b \in Endings(s) THEN 1 ELSE 0)
      <4>1. Count(lines[g], Endings(s)) \in Nat BY <2>3 DEF Written
      <4>2. Count(lines'[g], Endings(s)) = Count(lines[g], Endings(s)) + (IF b \in Endings(s) THEN 1 ELSE 0)
          BY <2>1, <3>1, <3>5, <3>7, <4>1
      <4> QED BY <2>4, <4>2 DEF Written
    <3>9. \A h \in Procs : \A m \in Range(lines'[h]) : m \in Range(lines[h]) \/ (h = g /\ m \in {a, b})
        BY <1>4, <3>1, <3>4, <3>6
    <3>10. said # <<a>> BY <2>6, <2>8
    <3>11. \A s \in Runners : \A h \in Procs :
             Written(s, h)' = Written(s, h) + (IF h = g /\ said # <<a>> /\ b \in Endings(s) THEN 1 ELSE 0)
        BY <2>3, <2>5, <3>8, <3>10
    <3> QED BY <3>9, <3>11
  <2> QED BY <2>7, <2>8
<1>8. b.kind # "reply" /\ a.kind = "reply" BY DEF NoteRec, ReplyRec
<1>9. \A h \in Procs : \A i, j \in DOMAIN requests[h] :
           i < j /\ requests[h][i].by = requests[h][j].by => requests[h][i].id < requests[h][j].id
    BY DEF Books, InTurn
<1>10. /\ DOMAIN requests[g] = 1 .. Len(requests[g]) /\ DOMAIN requests'[g] = 1 .. Len(requests[g]) - 1
       /\ Len(requests[g]) \in Nat \ {0} /\ q = requests[g][1]
       /\ \A i \in 1 .. Len(requests[g]) - 1 : requests'[g][i] = requests[g][i + 1]
    BY <1>2, <1>4
<1>11. \A x \in Range(requests'[g]) : x.by = q.by => q.id < x.id
  <2> SUFFICES ASSUME NEW x \in Range(requests'[g]), x.by = q.by PROVE q.id < x.id OBVIOUS
  <2>1. PICK i \in DOMAIN requests'[g] : x = requests'[g][i] BY DEF Range
  <2>2. i + 1 \in DOMAIN requests[g] /\ 1 \in DOMAIN requests[g] /\ 1 < i + 1 /\ x = requests[g][i + 1]
      BY <1>10, <2>1
  <2> QED BY <1>9, <1>10, <2>2
<1>12. InTurn'
  <2>1. ASSUME NEW h \in Procs, NEW i \in DOMAIN requests'[h], NEW j \in DOMAIN requests'[h],
               i < j, requests'[h][i].by = requests'[h][j].by
        PROVE  requests'[h][i].id < requests'[h][j].id
    <3>1. CASE h # g BY <1>4, <1>9, <2>1, <3>1
    <3>2. CASE h = g
      <4>1. /\ i + 1 \in DOMAIN requests[g] /\ j + 1 \in DOMAIN requests[g] /\ i + 1 < j + 1
            /\ requests'[g][i] = requests[g][i + 1] /\ requests'[g][j] = requests[g][j + 1]
        <5>1. i \in 1 .. Len(requests[g]) - 1 /\ j \in 1 .. Len(requests[g]) - 1 BY <1>10, <2>1, <3>2
        <5>2. i \in Nat /\ j \in Nat /\ Len(requests[g]) \in Nat BY <1>10, <5>1
        <5>3. i + 1 \in 1 .. Len(requests[g]) /\ j + 1 \in 1 .. Len(requests[g]) BY <5>1, <5>2
        <5>4. i + 1 < j + 1 BY <2>1, <5>2
        <5>5. requests'[g][i] = requests[g][i + 1] /\ requests'[g][j] = requests[g][j + 1] BY <1>10, <5>1
        <5> QED BY <1>10, <5>3, <5>4, <5>5
      <4> QED BY <1>9, <2>1, <3>2, <4>1
    <3> QED BY <3>1, <3>2
  <2>2. ASSUME NEW h \in Procs, NEW x \in Range(requests'[h]) PROVE x.id <= runner'[x.by].id
      BY <1>1, <1>6, <2>2 DEF Books, InTurn
  <2>3. ASSUME NEW h \in Procs, NEW m \in Range(lines'[h]), m.kind = "reply"
        PROVE  m.id <= runner'[m.to].id /\ \A x \in Range(requests'[h]) : x.by = m.to => m.id < x.id
    <3>1. CASE m \in Range(lines[h]) BY <1>1, <1>6, <2>3, <3>1 DEF Books, InTurn
    <3>2. CASE h = g /\ m = a BY <1>1, <1>5, <1>11, <3>2 DEF Books, InTurn
    <3> QED BY <1>7, <1>8, <2>3, <3>1, <3>2
  <2> QED BY <2>1, <2>2, <2>3 DEF InTurn
<1>13. AtHand'
  <2>1. ASSUME NEW h \in Procs, NEW s \in Runners, NEW n \in Nat, <<s, n>> \in shared'[h].pending
        PROVE  runner'[s].on = h /\ runner'[s].id = n /\ runner'[s].pc \in Waiting /\ answer'[s] = << >>
      BY <1>1, <2>1 DEF Books, AtHand
  <2>2. ASSUME NEW h \in Procs, NEW x \in Range(requests'[h]), x.id = runner'[x.by].id
        PROVE  /\ runner'[x.by].pc = "turn" => x.method = "turn/start"
               /\ runner'[x.by].pc = "compact" => x.method = "compact"
    <3>1. x \in Range(requests[h]) BY <1>6
    <3> QED BY <1>1, <2>2, <3>1 DEF Books, AtHand
  <2> QED BY <2>1, <2>2 DEF AtHand
<1>14. ASSUME NEW s \in Runners, NEW h \in Procs, NEW t \in Turns, Given(s, h, t)', ~Given(s, h, t)
       PROVE  /\ h = g /\ s = q.by /\ q.id = runner[s].id /\ a.ok /\ a.turn = t
              /\ \A x \in Range(requests'[h]) : x.by # s
              /\ runner[s].pc = "turn" => q.method = "turn/start"
              /\ runner[s].pc = "compact" => q.method = "compact"
  <2>1. PICK m \in Range(lines'[h]) : m.kind = "reply" /\ m.to = s /\ m.id = runner[s].id /\ m.ok /\ m.turn = t
      BY <1>1, <1>14 DEF Given, Grants
  <2>2. m \notin Range(lines[h])
    <3>1. m \in Range(lines[h]) => Given(s, h, t) BY <1>1, <1>14, <2>1 DEF Given, Grants
    <3> QED BY <1>14, <3>1
  <2>3. h = g /\ m = a BY <1>7, <1>8, <2>1, <2>2
  <2>4. s = q.by /\ q.id = runner[s].id /\ a.ok /\ a.turn = t BY <2>1, <2>3
  <2>5. ASSUME NEW x \in Range(requests'[g]), x.by = s PROVE FALSE
    <3>1. q.id < x.id BY <1>11, <2>4, <2>5
    <3>2. x.id <= runner[s].id BY <1>6, <2>5 DEF Books, InTurn
    <3>3. x.id \in Nat /\ q.id \in Nat
      <4>1. x \in RequestRec BY <1>2, <1>6, RangeIs
      <4> QED BY <1>5, <4>1 DEF RequestRec
    <3> QED BY <2>4, <3>1, <3>2, <3>3
  <2>6. /\ runner[s].pc = "turn" => q.method = "turn/start"
        /\ runner[s].pc = "compact" => q.method = "compact"
      BY <1>5, <2>4 DEF Books, AtHand
  <2> QED BY <2>3, <2>4, <2>5, <2>6
<1>15. q.by \in Runners BY <1>5 DEF RequestRec
<1> QED BY <1>6, <1>7, <1>12, <1>13, <1>14, <1>15 DEF Served

\* An answer, that says no, or of which nothing is owed, or that tells of the
\* turn that runs.
LEMMA AnswersBooks ==
    ASSUME Inv, Inv', Books, NEW g \in Procs, requests[g] # << >>,
           UNCHANGED <<procVars, nativeRest, turn>>,
           NEW q, q = Head(requests[g]), NEW ok \in BOOLEAN, NEW t \in Turns, Says(g, <<Reply(q, ok, t)>>),
           ok /\ q.method \in {"turn/start", "compact"} => q.method = "turn/start" /\ t = turn[g][q.by] /\ t # 0
    PROVE  Books'
<1> USE Numbers
<1>1. UNCHANGED <<proc, shared, mouth, runner, answer, plan, ear, owed>> BY ServerLeaves
<1>2. q \in RequestRec BY AskedIs DEF Inv, Types
<1>3. PICK a \in ReplyRec : a = Reply(q, ok, t) BY <1>2 DEF Reply, ReplyRec, RequestRec
<1>4. a.to = q.by /\ a.id = q.id /\ a.ok = ok /\ a.turn = t BY <1>3 DEF Reply
<1>5. PICK b \in NoteRec : b = Note("started", q.by, t) BY <1>2 DEF Note, NoteRec, RequestRec
<1>6. PICK l \in {<<a>>, <<a, b>>, <<b, a>>} : l = <<a>> /\ Says(g, l) BY <1>3
<1>7. Served(g, q, a, b, l) BY <1>4, <1>6, ServedIs
<1> USE DEF Served
<1>8. \A s \in Runners : \A h \in Procs : \A u \in Turns : Given(s, h, u)' =>
          \/ Given(s, h, u)
          \/ /\ h = g /\ s = q.by /\ \A x \in Range(requests'[h]) : x.by # s
             /\ runner[s].pc # "compact"
             /\ runner[s].pc = "turn" => u = turn[g][s] /\ u # 0
    BY <1>4, <1>7
<1>9. Newest'
  <2> SUFFICES ASSUME NEW s \in Runners, NEW h \in Procs, NEW u \in Turns,
                      runner'[s].pc = "turn", runner'[s].on = h, Given(s, h, u)'
               PROVE  turn'[h][s] \in {0, u} /\ \A x \in Range(requests'[h]) : x.by # s
      BY DEF Newest
  <2>1. CASE Given(s, h, u) BY <1>1, <1>7, <2>1 DEF Books, Newest
  <2>2. CASE ~Given(s, h, u) BY <1>1, <1>8, <2>2
  <2> QED BY <2>1, <2>2
<1>10. ASSUME NEW s \in Runners, NEW h \in Procs
       PROVE  /\ Announced(s, h)' \/ Unknown(s, h)' => OwedNext(s, h) = 1
              /\ Runs(s, h) + Written(s, h) <= Runs(s, h)' + Written(s, h)'
  <2>1. Written(s, h)' = Written(s, h) /\ Runs(s, h)' = Runs(s, h) BY <1>6, <1>7, Numeric DEF Runs
  <2>2. Unknown(s, h)' => Unknown(s, h) BY <1>1 DEF Unknown, Sends
  <2>3. Announced(s, h)' => Announced(s, h) \/ Unknown(s, h)
    <3> SUFFICES ASSUME NEW u \in Turns, Given(s, h, u)',
                        runner[s].pc = "compact" \/ (runner[s].pc = "turn" /\ ~Landed(s, u))
                 PROVE  Announced(s, h) \/ Unknown(s, h)
        BY <1>1 DEF Announced, Landed
    <3>1. CASE Given(s, h, u) BY <3>1 DEF Announced
    <3>2. CASE ~Given(s, h, u) BY <1>8, <3>2 DEF Unknown, Landed, Sends, SendPlaces
    <3> QED BY <3>1, <3>2
  <2>4. Written(s, h) \in Nat /\ Runs(s, h) \in Nat BY Numeric
  <2> QED BY <2>1, <2>2, <2>3, <2>4 DEF OwedNext
<1> QED BY <1>7, <1>9, <1>10, ServerBooks

\* Ordinary calls, refusals and what is folded into the turn that runs.
LEMMA ServeBooks ==
    ASSUME Inv, Inv', Books, NEW g \in Procs, ServeCall(g) \/ Refuse(g) \/ ServeFold(g)
    PROVE  Books'
<1> USE Numbers
<1>1. requests[g] # << >> /\ UNCHANGED <<procVars, nativeRest, turn>>
    BY DEF ServeCall, Refuse, ServeFold, Serving, nativeVars
<1>2. PICK q \in RequestRec : q = Head(requests[g]) BY <1>1, AskedIs DEF Inv, Types
<1>3. turn[g][q.by] \in Turns BY DEF Inv, Types, NativeT, RequestRec
<1>4. CASE ServeCall(g)
  <2>1. Says(g, <<Reply(q, TRUE, 0)>>) /\ q.method \notin {"turn/start", "compact"}
      BY <1>2, <1>4 DEF ServeCall, Serving
  <2> QED BY <1>1, <1>2, <2>1, AnswersBooks
<1>5. CASE Refuse(g)
  <2>1. Says(g, <<Reply(q, FALSE, 0)>>) BY <1>2, <1>5 DEF Refuse
  <2> QED BY <1>1, <1>2, <2>1, AnswersBooks
<1>6. CASE ServeFold(g)
  <2>1. PICK ok \in BOOLEAN : ok = (q.method = "turn/start" \/ (q.method = "turn/steer" /\ turn[g][q.by] = q.turn))
      OBVIOUS
  <2>2. Says(g, <<Reply(q, ok, turn[g][q.by])>>) /\ (turn[g][q.by] # 0 \/ q.method = "turn/steer")
      BY <1>2, <1>6, <2>1 DEF ServeFold
  <2>3. PICK t \in Turns : t = turn[g][q.by] BY <1>3
  <2>4. Says(g, <<Reply(q, ok, t)>>) BY <2>2, <2>3
  <2>5. ok /\ q.method \in {"turn/start", "compact"} => q.method = "turn/start" /\ t = turn[g][q.by] /\ t # 0
      BY <2>1, <2>2, <2>3
  <2> QED BY <1>1, <1>2, <2>4, <2>5, AnswersBooks
<1> QED BY <1>4, <1>5, <1>6

\* A turn is opened, for a call that was not answered before.
LEMMA ServeTurnBooks ==
    ASSUME Inv, Inv', Books, NEW g \in Procs, ServeTurn(g)
    PROVE  Books'
<1> USE Numbers
<1>1. requests[g] # << >> /\ nextTurn <= MaxTurns /\ UNCHANGED <<procVars, nativeRest>>
    BY DEF ServeTurn, Serving
<1>2. PICK q \in RequestRec : q = Head(requests[g]) BY <1>1, AskedIs DEF Inv, Types
<1>3. PICK n \in Turns : n = nextTurn /\ n # 0 BY <1>1 DEF Inv, Types, NativeT, Turns
<1>4. UNCHANGED <<proc, shared, mouth, runner, answer, plan, ear, owed>> BY <1>1, ServerLeaves
<1>5. PICK a \in ReplyRec : a = Reply(q, TRUE, n) BY DEF Reply, ReplyRec, RequestRec
<1>6. PICK b \in NoteRec : b = Note("started", q.by, n) BY DEF Note, NoteRec, RequestRec
<1>7. a.to = q.by /\ a.id = q.id /\ a.turn = n /\ b.what = "started" BY <1>5, <1>6 DEF Reply, Note
<1>8. PICK l \in {<<a>>, <<a, b>>, <<b, a>>} : Says(g, l)
  <2>1. Says(g, <<a, b>>) \/ Says(g, <<b, a>>) BY <1>2, <1>3, <1>5, <1>6 DEF ServeTurn
  <2> QED BY <2>1
<1>9. Served(g, q, a, b, l) BY <1>1, <1>2, <1>7, <1>8, ServedIs
<1> USE DEF Served
<1>10. \A s \in Runners : \A h \in Procs : Written(s, h)' = Written(s, h)
    BY <1>7, <1>9, Numeric DEF Endings
<1>11. /\ turn[g][q.by] = 0 /\ turn'[g][q.by] = n
       /\ \A s \in Runners : \A h \in Procs : h # g \/ s # q.by => turn'[h][s] = turn[h][s]
  <2>1. turn[g][q.by] = 0 /\ turn' = [turn EXCEPT ![g][q.by] = n] BY <1>2, <1>3 DEF ServeTurn
  <2>2. turn \in [Procs -> [Runners -> Turns]] BY DEF Inv, Types, NativeT
  <2> QED BY <1>9, <2>1, <2>2
<1>12. q \in Range(requests[g])
  <2>1. requests[g] \in Seq(RequestRec) BY DEF Inv, Types, WireT
  <2> QED BY <1>1, <1>2, <2>1, RangeIs
<1>13. Newest'
  <2> SUFFICES ASSUME NEW s \in Runners, NEW h \in Procs, NEW u \in Turns,
                      runner'[s].pc = "turn", runner'[s].on = h, Given(s, h, u)'
               PROVE  turn'[h][s] \in {0, u} /\ \A x \in Range(requests'[h]) : x.by # s
      BY DEF Newest
  <2>1. CASE Given(s, h, u)
    <3>1. turn[h][s] \in {0, u} /\ \A x \in Range(requests[h]) : x.by # s BY <1>4, <2>1 DEF Books, Newest
    <3>2. h # g \/ s # q.by BY <1>12, <3>1
    <3> QED BY <1>9, <1>11, <3>1, <3>2
  <2>2. CASE ~Given(s, h, u) BY <1>7, <1>9, <1>11, <2>2
  <2> QED BY <2>1, <2>2
<1>14. ASSUME NEW s \in Runners, NEW h \in Procs
       PROVE  \/ /\ Announced(s, h)' \/ Unknown(s, h)' => OwedNext(s, h) = 1
                 /\ Runs(s, h) + Written(s, h) <= Runs(s, h)' + Written(s, h)'
              \/ Runs(s, h) + Written(s, h) + 1 <= Runs(s, h)' + Written(s, h)'
  <2>1. Written(s, h) \in Nat /\ Runs(s, h) \in Nat BY Numeric
  <2>2. CASE h = g /\ s = q.by
    <3>1. Runs(s, h) = 0 /\ Runs(s, h)' = 1 BY <1>3, <1>11, <2>2 DEF Runs
    <3> QED BY <1>10, <2>1, <3>1
  <2>3. CASE h # g \/ s # q.by
    <3>1. turn'[h][s] = turn[h][s] BY <1>11, <2>3
    <3>2. Unknown(s, h)' => Unknown(s, h) BY <1>4, <3>1 DEF Unknown, Sends
    <3>3. Announced(s, h)' => Announced(s, h) BY <1>4, <1>9, <2>3 DEF Announced, Landed
    <3>4. Runs(s, h)' = Runs(s, h) BY <3>1 DEF Runs
    <3> QED BY <1>10, <2>1, <3>2, <3>3, <3>4 DEF OwedNext
  <2> QED BY <2>2, <2>3
<1> QED BY <1>1, <1>9, <1>13, <1>14, ServerBooks

\* A turn is cut short.
LEMMA ServeInterruptBooks ==
    ASSUME Inv, Inv', Books, NEW g \in Procs, ServeInterrupt(g)
    PROVE  Books'
<1> USE Numbers
<1>1. requests[g] # << >> /\ UNCHANGED <<procVars, nativeRest>>
    BY DEF ServeInterrupt, Serving
<1>2. PICK q \in RequestRec : q = Head(requests[g]) /\ q.method = "interrupt"
    BY <1>1, AskedIs DEF Inv, Types, ServeInterrupt, Serving
<1>3. UNCHANGED <<proc, shared, mouth, runner, answer, plan, ear, owed>> BY <1>1, ServerLeaves
<1>4. turn \in [Procs -> [Runners -> Turns]] /\ q.by \in Runners BY DEF Inv, Types, NativeT, RequestRec
<1>5. PICK t \in Turns : t = turn[g][q.by] BY <1>4
<1>6. turn' = [turn EXCEPT ![g][q.by] = 0] BY <1>2 DEF ServeInterrupt
<1>7. CASE t = 0
  <2>1. Says(g, <<Reply(q, FALSE, 0)>>) BY <1>2, <1>5, <1>7 DEF ServeInterrupt
  <2>2. turn' = turn BY <1>4, <1>5, <1>6, <1>7
  <2> QED BY <1>1, <1>2, <2>1, <2>2, AnswersBooks
<1>8. CASE t # 0
  <2>1. PICK a \in ReplyRec : a = Reply(q, TRUE, 0) BY DEF Reply, ReplyRec, RequestRec
  <2>2. PICK b \in NoteRec : b = Note("completed", q.by, t) BY DEF Note, NoteRec, RequestRec
  <2>3. a.to = q.by /\ a.id = q.id /\ b.what = "completed" /\ b.to = q.by BY <2>1, <2>2 DEF Reply, Note
  <2>4. Says(g, <<a, b>>) BY <1>2, <1>5, <1>8, <2>1, <2>2 DEF ServeInterrupt
  <2>5. PICK l \in {<<a>>, <<a, b>>, <<b, a>>} : Says(g, l) /\ l # <<a>>
    <3>1. <<a, b>> # <<a>> OBVIOUS
    <3> QED BY <2>4, <3>1
  <2>6. Served(g, q, a, b, l) BY <1>1, <1>2, <2>3, <2>5, ServedIs
  <2> USE DEF Served
  <2>7. ASSUME NEW s \in Runners, NEW h \in Procs, NEW u \in Turns, runner[s].pc \in {"turn", "compact"}, Given(s, h, u)'
        PROVE  Given(s, h, u)
      BY <1>2, <2>6, <2>7
  <2>8. \A s \in Runners : \A h \in Procs : turn'[h][s] = IF h = g /\ s = q.by THEN 0 ELSE turn[h][s]
      BY <1>4, <1>6
  <2>9. Newest'
    <3> SUFFICES ASSUME NEW s \in Runners, NEW h \in Procs, NEW u \in Turns,
                        runner'[s].pc = "turn", runner'[s].on = h, Given(s, h, u)'
                 PROVE  turn'[h][s] \in {0, u} /\ \A x \in Range(requests'[h]) : x.by # s
        BY DEF Newest
    <3>1. turn[h][s] \in {0, u} /\ \A x \in Range(requests[h]) : x.by # s BY <1>3, <2>7 DEF Books, Newest
    <3> QED BY <2>6, <2>8, <3>1
  <2>10. ASSUME NEW s \in Runners, NEW h \in Procs
         PROVE  /\ Announced(s, h)' \/ Unknown(s, h)' => OwedNext(s, h) = 1
                /\ Runs(s, h) + Written(s, h) <= Runs(s, h)' + Written(s, h)'
    <3>1. Announced(s, h)' => Announced(s, h) BY <1>3, <2>7 DEF Announced, Landed
    <3>2. Unknown(s, h)' => Unknown(s, h) BY <1>3, <2>8 DEF Unknown, Sends
    <3>3. Written(s, h) \in Nat /\ Runs(s, h) \in {0, 1} BY Numeric
    <3>4. Runs(s, h) + Written(s, h) <= Runs(s, h)' + Written(s, h)'
      <4>1. CASE h = g /\ s = q.by
        <5>1. b \in Endings(s) BY <2>3, <4>1 DEF Endings
        <5>2. Written(s, h)' = Written(s, h) + 1 BY <2>5, <2>6, <4>1, <5>1
        <5>3. Runs(s, h)' = 0 BY <2>8, <4>1 DEF Runs
        <5> QED BY <3>3, <5>2, <5>3
      <4>2. CASE h # g \/ s # q.by
        <5>1. b \notin Endings(s) \/ h # g BY <2>3, <4>2 DEF Endings
        <5>2. Written(s, h)' = Written(s, h) BY <2>6, <3>3, <5>1
        <5>3. Runs(s, h)' = Runs(s, h) BY <2>8, <4>2 DEF Runs
        <5> QED BY <3>3, <5>2, <5>3
      <4> QED BY <4>1, <4>2
    <3> QED BY <3>1, <3>2, <3>4 DEF OwedNext
  <2> QED BY <1>1, <2>6, <2>9, <2>10, ServerBooks
<1> QED BY <1>7, <1>8

\* A turn ends by itself, and a turn asks.
LEMMA TellBooks ==
    ASSUME Inv, Inv', Books, NEW g \in Procs, AskOmni(g) \/ \E r \in Runners : EndTurn(g, r)
    PROVE  Books'
<1> USE Numbers
<1>1. UNCHANGED <<procVars, nativeRest, requests>> BY DEF AskOmni, EndTurn
<1>2. UNCHANGED <<proc, shared, mouth, runner, answer, plan, ear, owed>> BY <1>1, ServerLeaves
<1>3. turn \in [Procs -> [Runners -> Turns]] BY DEF Inv, Types, NativeT
<1>4. lines \in [Procs -> Seq(LineRec)] /\ lines[g] \in Seq(LineRec) BY DEF Inv, Types, WireT
<1>5. PICK e \in LineRec, r \in Runners :
          /\ e.kind # "reply" /\ lines' = [lines EXCEPT ![g] = Append(lines[g], e)]
          /\ \/ turn' = turn
             \/ turn' = [turn EXCEPT ![g][r] = 0] /\ e \in Endings(r)
  <2>1. CASE AskOmni(g)
    <3>1. PICK e \in LineRec : e = [kind |-> "ask"] BY DEF LineRec
    <3>2. lines' = [lines EXCEPT ![g] = Append(lines[g], e)] /\ turn' = turn /\ e.kind # "reply"
        BY <2>1, <3>1 DEF AskOmni
    <3>3. PICK r \in Runners : TRUE BY <2>1 DEF AskOmni
    <3> QED BY <3>2, <3>3
  <2>2. ASSUME NEW r \in Runners, EndTurn(g, r)
        PROVE  \E e \in LineRec : /\ e.kind # "reply" /\ lines' = [lines EXCEPT ![g] = Append(lines[g], e)]
                                  /\ turn' = [turn EXCEPT ![g][r] = 0] /\ e \in Endings(r)
    <3>1. PICK e \in NoteRec : e = Note("completed", r, turn[g][r])
      <4>1. turn[g][r] \in Turns BY <1>3
      <4> QED BY <4>1 DEF Note, NoteRec
    <3>2. e \in LineRec /\ e \in Endings(r) /\ e.kind # "reply" BY <3>1 DEF LineRec, Endings, Note
    <3> QED BY <2>2, <3>1, <3>2 DEF EndTurn
  <2> QED BY <2>1, <2>2
<1>6. /\ lines'[g] = Append(lines[g], e) /\ Range(lines'[g]) = Range(lines[g]) \cup {e}
      /\ \A h \in Procs \ {g} : lines'[h] = lines[h]
  <2>1. lines'[g] = Append(lines[g], e) /\ \A h \in Procs \ {g} : lines'[h] = lines[h] BY <1>4, <1>5
  <2> QED BY <1>4, <2>1, RangeIs
<1>7. \A h \in Procs : \A m \in Range(lines'[h]) : m.kind = "reply" => m \in Range(lines[h]) BY <1>5, <1>6
<1>8. InTurn' BY <1>1, <1>2, <1>7 DEF Books, InTurn
<1>9. AtHand' BY <1>1, <1>2 DEF Books, AtHand
<1>10. \A s \in Runners : \A h \in Procs : \A t \in Turns : Given(s, h, t)' => Given(s, h, t)
    BY <1>2, <1>7 DEF Given, Grants
<1>11. \A s \in Runners : \A h \in Procs : turn'[h][s] \in {0, turn[h][s]} BY <1>3, <1>5
<1>12. Newest' BY <1>1, <1>2, <1>10, <1>11 DEF Books, Newest
<1>13. ASSUME NEW s \in Runners, NEW h \in Procs
       PROVE  /\ Announced(s, h)' \/ Unknown(s, h)' => OwedNext(s, h) = 1
              /\ Runs(s, h) + Written(s, h) <= Runs(s, h)' + Written(s, h)'
  <2>1. Announced(s, h)' => Announced(s, h) BY <1>2, <1>10 DEF Announced, Landed
  <2>2. Unknown(s, h)' => Unknown(s, h) BY <1>2, <1>11 DEF Unknown, Sends
  <2>3. Written(s, h) \in Nat /\ Runs(s, h) \in {0, 1} BY Numeric
  <2>4. Written(s, h)' = Written(s, h) + (IF h = g /\ e \in Endings(s) THEN 1 ELSE 0)
    <3>1. Written(s, h)' = Count(lines'[h], Endings(s)) BY DEF Written, Endings
    <3>2. Count(lines'[g], Endings(s)) = Count(lines[g], Endings(s)) + (IF e \in Endings(s) THEN 1 ELSE 0)
        BY <1>4, <1>6, CountAppend
    <3>3. h # g => lines'[h] = lines[h] BY <1>6
    <3> QED BY <2>3, <3>1, <3>2, <3>3 DEF Written
  <2>5. CASE turn'[h][s] = turn[h][s]
    <3>1. Runs(s, h)' = Runs(s, h) BY <2>5 DEF Runs
    <3> QED BY <2>1, <2>2, <2>3, <2>4, <3>1 DEF OwedNext
  <2>6. CASE turn'[h][s] # turn[h][s]
    <3>1. h = g /\ e \in Endings(s) BY <1>3, <1>5, <2>6
    <3>2. Runs(s, h)' \in {0, 1} BY DEF Runs
    <3>3. Written(s, h)' = Written(s, h) + 1 BY <2>4, <3>1
    <3>4. Runs(s, h) + Written(s, h) <= Runs(s, h)' + Written(s, h)' BY <2>3, <3>2, <3>3
    <3> QED BY <2>1, <2>2, <3>4 DEF OwedNext
  <2> QED BY <2>5, <2>6
<1> QED BY <1>1, <1>8, <1>9, <1>12, <1>13, ServerBooks

\* The plans of the scenarios: nobody sends behind a compaction.
Calm == \A s \in Scenarios : \A r \in Runners : Undisturbed(s.plan[r])

\* The books are right at first: nothing was asked, and nothing is owed.
LEMMA InitBooks == ASSUME Calm, Init PROVE Books
<1> USE Numbers
<1>1. PICK s \in Scenarios : Opening(s) BY DEF Init
<1>2. Inv BY InitIs
<1>3. /\ requests = [g \in Procs |-> << >>] /\ lines = [g \in Procs |-> << >>]
      /\ turn = [g \in Procs |-> [r \in Runners |-> 0]]
      /\ answer = [r \in Runners |-> << >>] /\ owed = [r \in Runners |-> 0]
    BY DEF Init
<1>4. \A r \in Runners : runner[r].pc = "idle" BY <1>1 DEF Opening
<1>5. \A g \in Procs : shared[g].pending = {}
  <2> TAKE g \in Procs
  <2>1. PICK k, l : shared[g] = [NoShared EXCEPT !.memo = k, !.routes = l] BY <1>1 DEF Opening
  <2> QED BY <2>1 DEF NoShared
<1>6. \A g \in Procs : requests[g] = << >> /\ lines[g] = << >> /\ DOMAIN requests[g] = {}
  <2>1. \A g \in Procs : requests[g] = << >> /\ lines[g] = << >> BY <1>3
  <2>2. DOMAIN << >> = {} OBVIOUS
  <2> QED BY <2>1, <2>2
<1>7. \A g \in Procs : Range(requests[g]) = {} /\ Range(lines[g]) = {}
    BY <1>6 DEF Range
<1>8. InTurn BY <1>6, <1>7 DEF InTurn
<1>9. AtHand BY <1>5, <1>7 DEF AtHand
<1>10. Newest BY <1>4 DEF Newest
<1>11. AtPeace
  <2>1. plan = s.plan BY <1>1 DEF Opening
  <2> QED BY <1>4, <2>1 DEF Calm, AtPeace
<1>12. Ledger
  <2> SUFFICES ASSUME NEW r \in Runners, NEW g \in Procs PROVE owed[r] + OwedNext(r, g) <= Paid(r, g)
      BY DEF Ledger
  <2>1. ~Announced(r, g) BY <1>4 DEF Announced
  <2>2. turn[g][r] = 0 BY <1>3
  <2>3. ~Unknown(r, g) BY <2>2 DEF Unknown
  <2>4. owed[r] = 0 /\ OwedNext(r, g) = 0 BY <1>3, <2>1, <2>3 DEF OwedNext
  <2> QED BY <1>2, <2>4, Numeric
<1> QED BY <1>8, <1>9, <1>10, <1>11, <1>12 DEF Books

\* Every step keeps the books.
LEMMA NextBooks == ASSUME Inv, Inv', Books, [Next]_vars PROVE Books'
<1>1. ASSUME NEW r \in Runners, Operation(r) \/ Goes(r) \/ Inject(r) PROVE Books'
  <2>1. CASE Operation(r)
      BY <2>1, MoveBooks, BootBooks, CallStepBooks, StopBooks, TimeoutBooks DEF Operation
  <2>2. CASE Goes(r)
      BY <2>2, MoveBooks, BootFailsBooks, CallStepBooks, AttachBooks, AnnounceBooks DEF Goes
  <2> QED BY <1>1, <2>1, <2>2, CallStepBooks
<1>2. ASSUME NEW g \in Procs, Callbacks(g) PROVE Books'
    BY <1>2, HearBooks, RestBooks, HearNoteBooks, EmitBooks, OnExitBooks, NotifyExitBooks DEF Callbacks
<1>3. ASSUME NEW g \in Procs, Process(g) \/ (Outside(g) /\ UNCHANGED codexVars) PROVE Books'
    BY <1>3, RestBooks DEF Process
<1>4. ASSUME NEW g \in Procs, Native(g) PROVE Books'
    BY <1>4, RestBooks, ServeBooks, ServeTurnBooks, ServeInterruptBooks, TellBooks DEF Native
<1> QED BY <1>1, <1>2, <1>3, <1>4, RestBooks DEF Next, Omni

\* When the books are right, whoever rests has heard every end it was promised.
LEMMA BooksShow == ASSUME Inv, Books PROVE EndComes
<1> USE Numbers
<1> SUFFICES ASSUME NEW r \in Runners, AtRest(r, runner[r].shared) PROVE owed[r] <= Ends(r)
    BY DEF EndComes
<1>1. PICK g \in Procs : g = runner[r].shared
  <2>1. runner[r].shared \in Procs \cup {0} BY DEF Inv, Types, RunT, RunRec
  <2> QED BY <2>1 DEF AtRest
<1>2. proc[g].os = "up" /\ proc[g].gate /\ turn[g][r] = 0 /\ lines[g] = << >> /\ mouth[g] = << >>
    BY <1>1 DEF AtRest
<1>3. owed[r] + OwedNext(r, g) <= Paid(r, g) BY <1>1, <1>2 DEF Books, Ledger, On
<1>4. Said(r, g) = 0 /\ Runs(r, g) = 0 BY <1>2 DEF Said, Runs
<1>5. Written(r, g) = 0
  <2>1. lines[g] \in Seq(LineRec) BY DEF Inv, Types, WireT
  <2> QED BY <1>2, <2>1, CountType DEF Written
<1>6. Ends(r) \in Nat /\ owed[r] \in Nat /\ OwedNext(r, g) \in Nat BY Numeric
<1> QED BY <1>3, <1>4, <1>5, <1>6 DEF Paid

\* Whoever was told that a message opens the next turn hears that turn end,
\* whatever is sent, steered, refused, interrupted or timed out, as long as
\* nothing is sent behind a compaction: landed compares the turn that Codex
\* answers with the ones that the runner knows of, and a compaction has none.
THEOREM EndsCome == Calm => (Spec => []EndComes)
<1> SUFFICES ASSUME Calm PROVE Spec => []EndComes OBVIOUS
<1>1. Init => Inv /\ Books BY InitIs, InitBooks
<1>2. Inv /\ Books /\ [Next]_vars => (Inv /\ Books)' BY NextIs, NextBooks
<1>3. Inv /\ Books => EndComes BY BooksShow
<1> QED BY <1>1, <1>2, <1>3, PTL DEF Spec
=============================================================================
