--------------------------- MODULE AccountsProofs ---------------------------
(***************************************************************************)
(* Proofs about Accounts: what holds of every login, of the memory of who  *)
(* is signed in and of the inventory of models, whatever is asked, by how  *)
(* many callers and with how many CLIs.                                    *)
(***************************************************************************)
EXTENDS Accounts, TLAPS

\* Places of a caller in begin, in the rest of what a login goes through, and
\* after the forget of a finish_auth.
Beginning == {"begun", "spawned", "tracked", "replacing", "url", "given up"}
LoginPlaces == Beginning \cup {"settling", "completing"}
AskPlaces == {"forget models", "probe", "probing", "insert"}
Places == {"idle", "forget"} \cup LoginPlaces \cup AskPlaces

CallRec == [pc : Places, op : {"none", "start_auth", "finish_auth", "auth_status", "forget", "models"},
            on : Procs \cup {0}, old : Nat, since : Nat,
            says : {"yes", "no"}, blip : BOOLEAN, was : BOOLEAN]
ProbeRec == [os : {"none", "up", "gone"}, held : BOOLEAN, says : {"yes", "no"}]

Types ==
    /\ TypeOK
    /\ caller \in [Callers -> CallRec] /\ probe \in [Callers -> ProbeRec]
    /\ models \in [says : {"none", "yes", "no"}, since : Nat]
    /\ forgets \in Nat /\ clears \in Nat /\ era \in [Procs -> Nat]
    /\ handed \subseteq Procs /\ ended \subseteq Procs /\ confirmed \in BOOLEAN

\* The reaper waits while a CLI runs, and a stop that is past its grace periods,
\* or that found the flag down, has ended it.
Sound(pr) ==
    /\ pr.os = "up" => pr.running /\ pr.reaper = "wait"
    /\ pr.stop \in {"kill", "closing", "done"} => pr.os # "up"
Reaped == \A p \in Procs : Sound(proc[p])

-----------------------------------------------------------------------------
(* The logins. *)

\* A caller of begin has a login of its own, which nobody knows before it is in
\* flight and nobody was told of.
Fresher(c) == caller[c].pc \in Beginning =>
    caller[c].on \in Procs /\ caller[c].on < nextLogin /\ caller[c].on \notin handed
OwnLogins ==
    /\ \A c \in Callers : Fresher(c)
    /\ \A c, d \in Callers :
          caller[c].pc \in Beginning /\ caller[d].pc \in Beginning /\ c # d => caller[c].on # caller[d].on
    /\ flight < nextLogin /\ \A p \in handed : p < nextLogin
Unknown == \A c \in Callers : caller[c].pc \in {"begun", "spawned", "given up"} => flight # caller[c].on

\* Whoever stops a login that may have been handed out has a reason.
Replacing(c) == caller[c].pc \in {"tracked", "replacing"} /\ caller[c].old # 0
Completing(c) == caller[c].pc \in {"settling", "completing"}
Reasons ==
    /\ \A c \in Callers : caller[c].pc \in {"tracked", "replacing"} => caller[c].old \in Procs \cup {0}
    /\ \A c \in Callers : Replacing(c) => caller[c].old \in ended
    /\ \A c \in Callers : Completing(c) => caller[c].on \in ended

\* A login that is in flight, that was handed out or that is on its way there
\* runs, and nobody stops it, unless there was a reason.
Coming(c) == caller[c].pc \in {"spawned", "tracked", "replacing", "url"}
Runs(p) == p \in ended \/ (proc[p].os = "up" /\ proc[p].stop = "no")
Running ==
    /\ flight # 0 => Runs(flight)
    /\ \A p \in handed : Runs(p)
    /\ \A c \in Callers : Coming(c) => Runs(caller[c].on)
Kept ==
    /\ LoginKept
    /\ \A c \in Callers : caller[c].pc \in {"tracked", "replacing", "url"} =>
          flight = caller[c].on \/ caller[c].on \in ended

\* Every CLI of a login that runs is in flight or in the hands of a thread, and
\* what is in flight after a shutdown was begun after it.
Holds(c, p) ==
    \/ caller[c].pc \in {"spawned", "given up", "settling", "completing"} /\ caller[c].on = p
    \/ caller[c].pc \in {"tracked", "replacing"} /\ caller[c].old = p
InHand(p) == flight = p \/ sweeper.on = p \/ main.on = p \/ \E c \in Callers : Holds(c, p)
Tended == \A p \in Procs : proc[p].os = "up" => InHand(p)
DownSince ==
    /\ main.pc # "stopping" => main.on = 0
    /\ main.pc \in {"stopping", "done"} /\ flight # 0 => era[flight] = epoch

Logins == Reaped /\ OwnLogins /\ Unknown /\ Reasons /\ Running /\ Kept /\ Tended /\ DownSince

-----------------------------------------------------------------------------
(* What is remembered. *)

\* The inventory is as old as the last forget, also the one that a probe is
\* going to leave, since a forget waits for the probe.
Stock ==
    /\ ModelsFresh
    /\ \A c \in Callers : caller[c].pc = "probing" => modelsLock = c /\ caller[c].old = clears

\* A finish_auth that knows the user is signed in and has cleared MEMO, or one
\* that has said so.
Knows(c) == caller[c].op = "finish_auth" /\ caller[c].was /\ caller[c].pc \in {"forget models", "probe", "probing"}
Sure == confirmed \/ \E c \in Callers : Knows(c)

\* Who has asked since the last forget hears no "no".
Hears(c) ==
    caller[c].op = "auth_status" /\ caller[c].since = forgets =>
        /\ caller[c].pc = "probing" /\ probe[c].os = "gone" => probe[c].says = "yes"
        /\ caller[c].pc = "insert" => caller[c].says = "yes" \/ caller[c].blip
Asker(c) ==
    /\ caller[c].was => signedIn
    /\ caller[c].since <= forgets
    /\ caller[c].op = "auth_status" => caller[c].pc \in {"probe", "probing", "insert"}
    /\ caller[c].pc = "insert" => caller[c].op = "auth_status"
Memory ==
    /\ \A c \in Callers : Asker(c)
    /\ confirmed => signedIn
    /\ Sure => (memo.says = "no" => memo.raced \/ memo.blip) /\ \A c \in Callers : Hears(c)

Inv == Types /\ Logins /\ Stock /\ Memory

-----------------------------------------------------------------------------
(* Types. *)

\* What callers do keeps its type, since each of them writes one record of its
\* own at a time.
LEMMA CallType ==
    ASSUME caller \in [Callers -> CallRec], NEW c \in Callers, NEW r \in CallRec,
           caller' = [caller EXCEPT ![c] = r]
    PROVE  /\ caller' \in [Callers -> CallRec] /\ caller'[c] = r
           /\ \A d \in Callers \ {c} : caller'[d] = caller[d]
OBVIOUS

\* A caller that has what it wanted.
LEMMA IdleType == Idle \in CallRec
BY DEF Idle, CallRec, Places

\* A caller that asks has one thing less to ask.
LEMMA AskedType ==
    ASSUME plan \in [Callers -> Seq(AccountOps)], NEW c \in Callers, plan[c] # << >>, Asked(c)
    PROVE  plan' \in [Callers -> Seq(AccountOps)]
<1>1. plan[c] \in Seq(AccountOps) OBVIOUS
<1>2. Tail(plan[c]) \in Seq(AccountOps) BY <1>1
<1> QED BY <1>2 DEF Asked

\* What there is to know of a process.
ProcRec == [os : {"none", "up", "dead"}, stdin : BOOLEAN, running : BOOLEAN,
            gate : BOOLEAN, pump : {"idle", "calling"},
            reaper : {"none", "wait", "seen", "calling", "telling", "done"},
            stop : {"no", "eof", "term", "kill", "closing", "done"}]

\* One process changes.
LEMMA ProcType ==
    ASSUME proc \in [Procs -> ProcRec], NEW p \in Procs, NEW r \in ProcRec,
           proc' = [proc EXCEPT ![p] = r]
    PROVE  /\ proc' \in [Procs -> ProcRec] /\ proc'[p] = r
           /\ \A q \in Procs \ {p} : proc'[q] = proc[q]
OBVIOUS

\* What stop writes about a process.
LEMMA StopIs ==
    ASSUME ProcTypeOK, Reaped, NEW p \in Procs, Stop(p)
    PROVE  /\ proc' \in [Procs -> ProcRec] /\ Reaped'
           /\ \A q \in Procs : proc'[q].os = proc[q].os
           /\ \A q \in Procs \ {p} : proc'[q] = proc[q]
BY DEF ProcTypeOK, ProcRec, Reaped, Sound, Stop

\* The threads of a process, the operating system and the CLI start nothing, and
\* whoever stops a CLI keeps what the reaper and stop say of it true.
LEMMA ProcessMoves ==
    ASSUME ProcTypeOK, Reaped, NEW p \in Procs,
           Stopping(p) \/ Noticed(p) \/ ExitCall(p) \/ Die(p)
    PROVE  /\ ProcTypeOK' /\ Reaped'
           /\ \A q \in Procs : proc'[q].os = "up" => proc[q].os = "up"
           /\ \A q \in Procs \ {p} : proc'[q] = proc[q]
           /\ ~Die(p) /\ proc[p].os = "up" /\ proc[p].stop = "no" =>
                 proc'[p].os = "up" /\ proc'[p].stop = "no"
<1> DEFINE a == proc[p]
           Good(r) ==
               /\ r \in ProcRec /\ Sound(r) /\ (r.os = "up" => a.os = "up")
               /\ (~Die(p) /\ a.os = "up" /\ a.stop = "no" => r.os = "up" /\ r.stop = "no")
<1>1. proc \in [Procs -> ProcRec] /\ a \in ProcRec /\ Sound(a) BY DEF ProcTypeOK, ProcRec, Reaped
<1>2. \E r : Good(r) /\ proc' = [proc EXCEPT ![p] = r]
  <2> SUFFICES \E r : Good(r) /\ proc' = [proc EXCEPT ![p] = r] OBVIOUS
  <2>1. CASE StopTerm(p)
    <3>1. PICK dies \in BOOLEAN : proc' = [proc EXCEPT ![p].stop = "term", ![p].os = IF dies THEN "dead" ELSE @]
        BY <2>1 DEF StopTerm
    <3> DEFINE r == [a EXCEPT !.stop = "term", !.os = IF dies THEN "dead" ELSE @]
    <3>2. proc' = [proc EXCEPT ![p] = r] BY <3>1, <1>1 DEF ProcRec
    <3>3. Good(r) BY <1>1, <2>1 DEF StopTerm, ProcRec, Sound
    <3> QED BY <3>2, <3>3
  <2>2. CASE StopKill(p)
    <3> DEFINE r == [a EXCEPT !.stop = "kill", !.os = "dead"]
    <3>1. proc' = [proc EXCEPT ![p] = r] BY <2>2, <1>1 DEF StopKill, ProcRec
    <3>2. Good(r) BY <1>1, <2>2 DEF StopKill, ProcRec, Sound
    <3> QED BY <3>1, <3>2
  <2>3. CASE StopClose(p)
    <3> DEFINE r == [a EXCEPT !.stop = "closing", !.gate = FALSE]
    <3>1. proc' = [proc EXCEPT ![p] = r] BY <2>3, <1>1 DEF StopClose, ProcRec
    <3>2. Good(r) BY <1>1, <2>3 DEF StopClose, Alive, ProcRec, Sound
    <3> QED BY <3>1, <3>2
  <2>4. CASE StopDone(p)
    <3> DEFINE r == [a EXCEPT !.stop = "done"]
    <3>1. proc' = [proc EXCEPT ![p] = r] BY <2>4, <1>1 DEF StopDone, StopAt, ProcRec
    <3>2. Good(r) BY <1>1, <2>4 DEF StopDone, ProcRec, Sound
    <3> QED BY <3>1, <3>2
  <2>5. CASE Noticed(p)
    <3> DEFINE r == [a EXCEPT !.running = FALSE, !.reaper = "seen"]
    <3>1. proc' = [proc EXCEPT ![p] = r] BY <2>5, <1>1 DEF Noticed, ProcRec
    <3>2. Good(r) BY <1>1, <2>5 DEF Noticed, ProcRec, Sound
    <3> QED BY <3>1, <3>2
  <2>6. CASE ExitCall(p)
    <3> DEFINE r == [a EXCEPT !.reaper = IF a.gate THEN "calling" ELSE "done"]
    <3>1. proc' = [proc EXCEPT ![p] = r] BY <2>6, <1>1 DEF ExitCall, ProcRec
    <3>2. Good(r) BY <1>1, <2>6 DEF ExitCall, ProcRec, Sound
    <3> QED BY <3>1, <3>2
  <2>7. CASE Die(p)
    <3> DEFINE r == [a EXCEPT !.os = "dead"]
    <3>1. proc' = [proc EXCEPT ![p] = r] BY <2>7, <1>1 DEF Die, Killed, ProcRec
    <3>2. Good(r) BY <1>1, <2>7 DEF ProcRec, Sound
    <3> QED BY <3>1, <3>2
  <2> QED BY <2>1, <2>2, <2>3, <2>4, <2>5, <2>6, <2>7 DEF Stopping
<1>3. PICK r : Good(r) /\ proc' = [proc EXCEPT ![p] = r] BY <1>2
<1> HIDE DEF Good
<1>4. proc' \in [Procs -> ProcRec] /\ proc'[p] = r /\ \A q \in Procs \ {p} : proc'[q] = proc[q]
  <2>1. r \in ProcRec BY <1>3 DEF Good
  <2> QED BY <1>1, <1>3, <2>1, ProcType
<1>5. Reaped' BY <1>3, <1>4 DEF Reaped, Good
<1>6. helper' \subseteq Procs /\ owner' \in BOOLEAN /\ guardian' \in [Procs -> {"none", "watching", "eof", "gone"}]
    BY DEF Stopping, StopTerm, StopKill, StopClose, StopDone, Noticed, ExitCall, Die, ProcTypeOK
<1>7. ProcTypeOK' BY <1>4, <1>6 DEF ProcTypeOK, ProcRec
<1> QED BY <1>3, <1>4, <1>5, <1>7 DEF Good

-----------------------------------------------------------------------------
(* Steps that leave the logins to who has them. *)

\* Nobody takes a login or hands it on; at most, processes end, or something
\* becomes a reason for one to.
LoginsRest == UNCHANGED <<flight, epoch, nextLogin, sweeper, main, era, handed>>
SamePlace(c) ==
    /\ caller[c].pc \in LoginPlaces <=> caller'[c].pc \in LoginPlaces
    /\ caller[c].pc \in LoginPlaces =>
          caller'[c].pc = caller[c].pc /\ caller'[c].on = caller[c].on /\ caller'[c].old = caller[c].old

\* Such a step keeps what is known of the logins.
LEMMA LoginsKeep ==
    ASSUME Types, Logins, LoginsRest, \A c \in Callers : SamePlace(c),
           ended \subseteq ended', Reaped',
           \A p \in Procs : proc'[p].os = "up" => proc[p].os = "up",
           \A p \in Procs : Runs(p) => Runs(p)'
    PROVE  Logins'
<1> USE DEF LoginsRest, SamePlace, LoginPlaces, Beginning
<1> DEFINE begins(c) == caller[c].pc \in Beginning
<1>0. \A c \in Callers : begins(c)' => begins(c) /\ caller'[c].on = caller[c].on OBVIOUS
<1>1. OwnLogins'
  <2> HIDE DEF SamePlace, begins
  <2>1. OwnLogins BY DEF Logins
  <2>2. \A c \in Callers : Fresher(c)'
      BY <1>0, <2>1 DEF OwnLogins, Fresher, begins
  <2>3. \A c, d \in Callers : begins(c)' /\ begins(d)' /\ c # d => caller'[c].on # caller'[d].on
    <3>1. \A c, d \in Callers : begins(c) /\ begins(d) /\ c # d => caller[c].on # caller[d].on
        BY <2>1 DEF OwnLogins, begins
    <3> QED BY <3>1, <1>0
  <2> QED BY <2>1, <2>2, <2>3 DEF OwnLogins, begins
<1>2. Unknown' BY DEF Logins, Unknown
<1>3. Reasons' BY DEF Logins, Reasons, Replacing, Completing
<1>4. Running'
  <2>1. \A c \in Callers : Coming(c)' => Coming(c) /\ caller'[c].on = caller[c].on /\ caller[c].on \in Procs
      BY DEF Logins, OwnLogins, Fresher, Coming
  <2>2. flight # 0 => flight \in Procs BY DEF Types, TypeOK
  <2>3. handed \subseteq Procs BY DEF Types
  <2> HIDE DEF SamePlace
  <2>4. \A p : flight' = p /\ p \in Procs /\ Runs(p) => Runs(flight)' BY DEF Runs
  <2>5. \A c \in Callers : \A p \in Procs : caller'[c].on = p /\ Runs(p)' => Runs(caller[c].on)' BY DEF Runs
  <2> QED BY <2>1, <2>2, <2>3, <2>4, <2>5 DEF Logins, Running, Runs
<1>5. Kept' BY DEF Logins, Kept, LoginKept
<1>6. Tended'
  <2>1. \A c \in Callers : \A p \in Procs : Holds(c, p) => Holds(c, p)' BY DEF Holds
  <2> HIDE DEF SamePlace
  <2> QED BY <2>1 DEF Logins, Tended, InHand
<1>7. DownSince' BY DEF Logins, DownSince
<1> QED BY <1>1, <1>2, <1>3, <1>4, <1>5, <1>6, <1>7 DEF Logins

-----------------------------------------------------------------------------
(* Login::begin. *)

\* begin gets a token of its own, and reads the epoch.
LEMMA StartAuthLogins ==
    ASSUME Types, Logins, NEW c \in Callers, StartAuth(c)
    PROVE  Types' /\ Logins'
<1> DEFINE r == [Idle EXCEPT !.pc = "begun", !.on = nextLogin]
<1>1. r \in CallRec /\ r.pc = "begun" /\ r.on = nextLogin /\ nextLogin \in Procs
    BY DEF StartAuth, Idle, CallRec, Places, LoginPlaces, Beginning
<1>2. caller' \in [Callers -> CallRec] /\ caller'[c] = r /\ \A d \in Callers \ {c} : caller'[d] = caller[d]
  <2>1. caller' = [caller EXCEPT ![c] = r] /\ caller \in [Callers -> CallRec] BY DEF StartAuth, Types
  <2> HIDE DEF r
  <2> QED BY <1>1, <2>1, CallType
<1> HIDE DEF r
<1>3. /\ nextLogin' = nextLogin + 1 /\ era' = [era EXCEPT ![nextLogin] = epoch]
      /\ UNCHANGED <<proc, helper, owner, guardian, flight, epoch, expired, said, sweeper, main, memo, models,
                     modelsLock, forgets, clears, probe, signedIn, losses, confirmed, nature, handed, ended>>
      /\ caller[c].pc = "idle"
    BY DEF StartAuth, Asks, At, procVars, memoVars, worldVars
<1>4. nextLogin \in Nat /\ epoch \in Nat /\ flight \in Nat /\ Procs \subseteq Nat \ {0}
  <2>1. TypeOK BY DEF Types
  <2>2. nextLogin \in Nat /\ epoch \in Nat /\ flight \in Procs \cup {0} BY <2>1 DEF TypeOK
  <2>3. Procs \subseteq Nat \ {0} BY AccountsAssumption
  <2> QED BY <2>2, <2>3
<1>5. Types'
  <2>1. plan' \in [Callers -> Seq(AccountOps)] BY AskedType DEF StartAuth, Asks, Types, TypeOK
  <2>2. era' \in [Procs -> Nat] BY <1>3, <1>4 DEF Types
  <2>3. ProcTypeOK' BY <1>3 DEF Types, TypeOK, ProcTypeOK
  <2>4. TypeOK' BY <1>3, <1>4, <2>1, <2>3 DEF Types, TypeOK
  <2> QED BY <1>2, <1>3, <2>2, <2>4 DEF Types
<1>6. Reaped' BY <1>3 DEF Logins, Reaped
<1>7. OwnLogins'
  <2>1. Fresher(c)' BY <1>1, <1>2, <1>3, <1>4 DEF Logins, OwnLogins, Fresher, Types
  <2>2. \A d \in Callers \ {c} : Fresher(d)'
    <3>1. \A q \in Procs : q < nextLogin => q < nextLogin' BY <1>3, <1>4
    <3>2. \A d \in Callers : Fresher(d) BY DEF Logins, OwnLogins
    <3> QED BY <1>2, <1>3, <3>1, <3>2 DEF Fresher
  <2>3. \A d \in Callers : d # c /\ caller[d].pc \in Beginning => caller[d].on # nextLogin
      BY <1>4 DEF Logins, OwnLogins, Fresher
  <2>4. \A d, e \in Callers : caller'[d].pc \in Beginning /\ caller'[e].pc \in Beginning /\ d # e =>
            caller'[d].on # caller'[e].on
      BY <1>1, <1>2, <2>3 DEF Logins, OwnLogins
  <2>5. flight' < nextLogin' /\ \A p \in handed' : p < nextLogin'
    <3>1. \A p \in handed : p \in Nat /\ p < nextLogin BY <1>4 DEF Logins, OwnLogins, Types
    <3>2. flight < nextLogin BY DEF Logins, OwnLogins
    <3> QED BY <1>3, <1>4, <3>1, <3>2
  <2> QED BY <2>1, <2>2, <2>4, <2>5 DEF OwnLogins
<1>8. Unknown'
  <2>1. flight < nextLogin BY DEF Logins, OwnLogins
  <2>2. flight # nextLogin BY <1>4, <2>1
  <2> QED BY <1>1, <1>2, <1>3, <2>2 DEF Logins, Unknown
<1>9. Reasons' BY <1>1, <1>2, <1>3 DEF Logins, Reasons, Replacing, Completing
<1>10. Running' BY <1>1, <1>2, <1>3 DEF Logins, Running, Runs, Coming
<1>11. Kept' BY <1>1, <1>2, <1>3 DEF Logins, Kept, LoginKept
<1>12. Tended'
  <2>1. \A d \in Callers : \A p \in Procs : Holds(d, p) => Holds(d, p)' BY <1>2, <1>3 DEF Holds
  <2> QED BY <1>3, <2>1 DEF Logins, Tended, InHand
<1>13. DownSince'
  <2>1. flight # nextLogin /\ (flight # 0 => flight \in Procs) BY <1>4 DEF Logins, OwnLogins, Types, TypeOK
  <2>2. flight # 0 => era'[flight] = era[flight] BY <1>3, <2>1 DEF Types
  <2> QED BY <1>3, <2>2 DEF Logins, DownSince
<1> QED BY <1>5, <1>6, <1>7, <1>8, <1>9, <1>10, <1>11, <1>12, <1>13 DEF Logins

\* The CLI of a login is started, or it cannot be.
LEMMA BegunLogins ==
    ASSUME Types, Logins, NEW c \in Callers, Begun(c)
    PROVE  Types' /\ Logins'
<1>0. PICK p : p = caller[c].on OBVIOUS
<1> DEFINE spawns == Spawn(p) /\ Goto(c, "spawned")
           r == IF spawns THEN [caller[c] EXCEPT !.pc = "spawned"] ELSE Idle
<1>1. caller[c].pc = "begun" /\ caller[c] \in CallRec BY DEF Begun, At, Types
<1>2. /\ spawns \/ (Return(c) /\ UNCHANGED procVars)
      /\ UNCHANGED <<flight, sweeper, handed, ended, epoch, nextLogin, expired, said, main, memo, models,
                     modelsLock, forgets, clears, probe, plan, signedIn, losses, confirmed, nature, era>>
    BY <1>0 DEF Begun, beginRest, memoVars, worldVars
<1>3. r \in CallRec /\ r.pc \in {"spawned", "idle"} /\ (spawns => r.pc = "spawned" /\ r.on = p) /\ (r.pc = "spawned" => spawns)
    BY <1>0, <1>1, IdleType DEF CallRec, Places, LoginPlaces, Beginning, Idle
<1>4. caller' \in [Callers -> CallRec] /\ caller'[c] = r /\ \A d \in Callers \ {c} : caller'[d] = caller[d]
  <2>1. caller' = [caller EXCEPT ![c] = r] /\ caller \in [Callers -> CallRec]
      BY <1>1, <1>2 DEF Return, Goto, Types
  <2> HIDE DEF r
  <2> QED BY <1>3, <2>1, CallType
<1> HIDE DEF r
<1>5. p \in Procs /\ p # flight /\ p \notin handed /\ p # 0
    BY <1>0, <1>1, AccountsAssumption DEF Logins, OwnLogins, Unknown, Fresher, Beginning
<1>6. /\ proc' \in [Procs -> ProcRec] /\ ProcTypeOK' /\ Reaped' /\ (\A q \in Procs \ {p} : proc'[q] = proc[q])
      /\ (spawns => proc'[p].os = "up" /\ proc'[p].stop = "no") /\ (~spawns => proc' = proc)
  <2>1. Fresh \in ProcRec /\ Sound(Fresh) /\ Fresh.os = "up" /\ Fresh.stop = "no" BY DEF Fresh, ProcRec, Sound
  <2>2. CASE spawns
    <3>1. proc' = [proc EXCEPT ![p] = Fresh] /\ proc \in [Procs -> ProcRec]
        BY <2>2 DEF Spawn, Types, TypeOK, ProcTypeOK, ProcRec
    <3>2. proc' \in [Procs -> ProcRec] /\ proc'[p] = Fresh /\ \A q \in Procs \ {p} : proc'[q] = proc[q]
        BY <1>5, <2>1, <3>1, ProcType
    <3>3. helper' \subseteq Procs /\ owner' \in BOOLEAN /\ guardian' \in [Procs -> {"none", "watching", "eof", "gone"}]
        BY <2>2 DEF Spawn, Guarded, Types, TypeOK, ProcTypeOK
    <3>4. ProcTypeOK' BY <3>2, <3>3 DEF ProcTypeOK, ProcRec
    <3> QED BY <2>1, <2>2, <3>2, <3>4 DEF Logins, Reaped
  <2>3. CASE ~spawns BY <1>2, <2>3 DEF procVars, Logins, Reaped, Types, TypeOK, ProcTypeOK, ProcRec
  <2> QED BY <2>2, <2>3
<1> HIDE DEF spawns
<1>7. Types' BY <1>2, <1>4, <1>6 DEF Types, TypeOK
<1>8. OwnLogins'
  <2>1. \A d \in Callers : caller'[d].pc \in Beginning => caller[d].pc \in Beginning /\ caller'[d].on = caller[d].on
      BY <1>0, <1>1, <1>3, <1>4 DEF Beginning
  <2> QED BY <1>2, <2>1 DEF Logins, OwnLogins, Fresher
<1>9. Unknown' BY <1>1, <1>2, <1>3, <1>4, <1>5 DEF Logins, Unknown
<1>10. Reasons' BY <1>2, <1>3, <1>4 DEF Logins, Reasons, Replacing, Completing
<1>11. Running'
  <2>1. \A q \in Procs : Runs(q) => Runs(q)' BY <1>2, <1>6 DEF Runs
  <2>2. spawns => Runs(p)' BY <1>6 DEF Runs
  <2>3. flight # 0 => flight \in Procs BY DEF Types, TypeOK
  <2>4. \A d \in Callers \ {c} : Coming(d)' => Coming(d) /\ caller[d].on \in Procs
      BY <1>4 DEF Logins, OwnLogins, Fresher, Beginning, Coming
  <2>5. flight' # 0 => Runs(flight)' BY <1>2, <2>1, <2>3 DEF Logins, Running, Runs
  <2>6. \A q \in handed' : Runs(q)' BY <1>2, <2>1 DEF Logins, Running, Types
  <2>7. \A d \in Callers \ {c} : Coming(d)' => Runs(caller[d].on)'
    <3>1. \A d \in Callers \ {c} : Coming(d)' => Runs(caller[d].on) BY <2>4 DEF Logins, Running
    <3> QED BY <3>1, <2>1, <2>4, <1>4 DEF Runs
  <2>8. Coming(c)' => Runs(caller[c].on)' BY <1>0, <1>3, <1>4, <2>2 DEF Coming, Runs
  <2> QED BY <2>5, <2>6, <2>7, <2>8 DEF Running
<1>12. Kept' BY <1>1, <1>2, <1>3, <1>4 DEF Logins, Kept, LoginKept
<1>13. Tended'
  <2>1. \A d \in Callers : \A q \in Procs : Holds(d, q) => Holds(d, q)' BY <1>1, <1>4 DEF Holds
  <2>2. spawns => Holds(c, p)' BY <1>3, <1>4 DEF Holds
  <2> QED BY <1>2, <1>6, <2>1, <2>2 DEF Logins, Tended, InHand
<1>14. DownSince' BY <1>2 DEF Logins, DownSince
<1> QED BY <1>6, <1>7, <1>8, <1>9, <1>10, <1>11, <1>12, <1>13, <1>14 DEF Logins

\* track takes the new login in flight and the older one out, or, when there was
\* a shutdown since the epoch was read, keeps the login to stop it.
LEMMA TrackLogins ==
    ASSUME Types, Logins, NEW c \in Callers, Track(c)
    PROVE  Types' /\ Logins'
<1>0. PICK p : p = caller[c].on OBVIOUS
<1>1. caller[c].pc = "spawned" /\ caller[c] \in CallRec /\ caller \in [Callers -> CallRec] BY DEF Track, At, Types
<1>2. p \in Procs /\ p < nextLogin /\ p # flight /\ p \notin handed /\ p # 0 /\ Runs(p)
    BY <1>0, <1>1, AccountsAssumption DEF Logins, OwnLogins, Unknown, Fresher, Beginning, Running, Coming
<1>3. UNCHANGED <<sweeper, handed, epoch, nextLogin, expired, said, main, memo, models,
                  modelsLock, forgets, clears, probe, plan, signedIn, losses, confirmed, nature, era>>
    BY DEF Track, beginRest, memoVars, worldVars
<1>4. flight \in Nat /\ (flight # 0 => flight \in Procs) BY AccountsAssumption DEF Types, TypeOK
<1>5. \A d \in Callers \ {c} : caller[d].pc \in Beginning => caller[d].on # p
    BY <1>0, <1>1 DEF Logins, OwnLogins, Beginning
<1>6. CASE era[p] = epoch /\ flight' = p /\ UNCHANGED procVars
           /\ ended' = ended \cup ({flight} \ {0})
           /\ caller' = [caller EXCEPT ![c].pc = "tracked", ![c].old = flight]
  <2> DEFINE r == [caller[c] EXCEPT !.pc = "tracked", !.old = flight]
  <2>1. r \in CallRec /\ r.pc = "tracked" /\ r.on = p /\ r.old = flight
      BY <1>0, <1>1, <1>4 DEF CallRec, Places, LoginPlaces, Beginning
  <2>2. caller' \in [Callers -> CallRec] /\ caller'[c] = r /\ \A d \in Callers \ {c} : caller'[d] = caller[d]
    <3>1. caller' = [caller EXCEPT ![c] = r] BY <1>1, <1>6
    <3> HIDE DEF r
    <3> QED BY <1>1, <2>1, <3>1, CallType
  <2> HIDE DEF r
  <2>3. ended \subseteq ended' /\ ended' \subseteq Procs /\ (flight # 0 => flight \in ended')
      BY <1>4, <1>6 DEF Types
  <2>4. Types' BY <1>2, <1>3, <1>6, <2>2, <2>3 DEF Types, TypeOK, ProcTypeOK, procVars
  <2>5. Reaped' BY <1>6 DEF procVars, Logins, Reaped
  <2>6. OwnLogins'
    <3>1. \A d \in Callers : caller'[d].pc \in Beginning => caller[d].pc \in Beginning /\ caller'[d].on = caller[d].on
        BY <1>0, <1>1, <2>1, <2>2 DEF Beginning
    <3>2. OwnLogins BY DEF Logins
    <3>3. \A d \in Callers : Fresher(d)' BY <1>3, <3>1, <3>2 DEF OwnLogins, Fresher
    <3>4. \A d, e \in Callers : caller'[d].pc \in Beginning /\ caller'[e].pc \in Beginning /\ d # e =>
              caller'[d].on # caller'[e].on
        BY <3>1, <3>2 DEF OwnLogins
    <3> QED BY <1>2, <1>3, <1>6, <3>2, <3>3, <3>4 DEF OwnLogins
  <2>7. Unknown' BY <1>5, <1>6, <2>1, <2>2 DEF Unknown, Beginning
  <2>8. Reasons' BY <1>1, <1>4, <2>1, <2>2, <2>3 DEF Logins, Reasons, Replacing, Completing
  <2>9. Running'
    <3>1. \A q \in Procs : Runs(q) => Runs(q)' BY <1>6, <2>3 DEF Runs, procVars
    <3>2. \A d \in Callers : Coming(d)' => Coming(d) /\ caller'[d].on = caller[d].on /\ caller[d].on \in Procs
        BY <1>0, <1>1, <1>2, <2>1, <2>2 DEF Coming, Logins, OwnLogins, Fresher, Beginning
    <3>3. \A d \in Callers : Coming(d)' => Runs(caller[d].on)'
      <4>1. \A d \in Callers : Coming(d)' => Runs(caller[d].on) BY <3>2 DEF Logins, Running
      <4> QED BY <3>1, <3>2, <4>1 DEF Runs
    <3>4. Runs(flight)' BY <1>2, <1>6, <3>1 DEF Runs
    <3>5. \A q \in handed' : Runs(q)' BY <1>3, <3>1 DEF Logins, Running, Types
    <3> QED BY <3>3, <3>4, <3>5 DEF Running
  <2>10. Kept'
    <3>1. \A q \in Procs : flight = q => q \in ended' BY <2>3, <1>2, AccountsAssumption
    <3>2. \A q \in handed' : q \in ended' BY <1>3, <2>3, <3>1 DEF Logins, Kept, LoginKept, Types
    <3>3. \A d \in Callers \ {c} : caller'[d].pc \in {"tracked", "replacing", "url"} => caller'[d].on \in ended'
      <4>1. \A d \in Callers : caller[d].pc \in {"tracked", "replacing", "url"} => caller[d].on \in Procs
          BY DEF Logins, OwnLogins, Fresher, Beginning
      <4> QED BY <2>2, <2>3, <3>1, <4>1 DEF Logins, Kept
    <3> QED BY <1>6, <2>1, <2>2, <3>2, <3>3 DEF Kept, LoginKept
  <2>11. Tended'
    <3>1. \A d \in Callers : \A q \in Procs : Holds(d, q) => Holds(d, q)' \/ q = p
        BY <1>0, <1>1, <2>2 DEF Holds
    <3>2. \A q \in Procs : flight = q => Holds(c, q)' BY <2>1, <2>2 DEF Holds
    <3>3. \A q \in Procs : InHand(q) => InHand(q)' BY <1>3, <1>6, <3>1, <3>2 DEF InHand
    <3> QED BY <1>6, <3>3 DEF Logins, Tended, procVars
  <2>12. DownSince' BY <1>3, <1>6 DEF Logins, DownSince
  <2> QED BY <2>4, <2>5, <2>6, <2>7, <2>8, <2>9, <2>10, <2>11, <2>12 DEF Logins
<1>7. CASE Stop(p) /\ Goto(c, "given up") /\ UNCHANGED <<helper, guardian, owner, flight, ended>>
  <2> DEFINE r == [caller[c] EXCEPT !.pc = "given up"]
  <2>1. r \in CallRec /\ r.pc = "given up" /\ r.on = p
      BY <1>0, <1>1 DEF CallRec, Places, LoginPlaces, Beginning
  <2>2. caller' \in [Callers -> CallRec] /\ caller'[c] = r /\ \A d \in Callers \ {c} : caller'[d] = caller[d]
    <3>1. caller' = [caller EXCEPT ![c] = r] BY <1>1, <1>7 DEF Goto
    <3> HIDE DEF r
    <3> QED BY <1>1, <2>1, <3>1, CallType
  <2> HIDE DEF r
  <2>3. /\ proc' \in [Procs -> ProcRec] /\ Reaped' /\ (\A q \in Procs : proc'[q].os = proc[q].os)
        /\ \A q \in Procs \ {p} : proc'[q] = proc[q]
      BY <1>2, <1>7, StopIs DEF Logins, Types, TypeOK
  <2>4. Types'
    <3>1. ProcTypeOK' BY <1>7, <2>3 DEF Types, TypeOK, ProcTypeOK, ProcRec
    <3>2. UNCHANGED <<flight, ended>> BY <1>7
    <3>3. TypeOK' BY <1>3, <2>2, <3>1, <3>2 DEF Types, TypeOK
    <3> QED BY <1>3, <2>2, <3>2, <3>3 DEF Types
  <2>5. \A q \in Procs \ {p} : Runs(q) => Runs(q)' BY <1>7, <2>3 DEF Runs
  <2>6. \A d \in Callers : caller'[d].pc \in Beginning => caller[d].pc \in Beginning /\ caller'[d].on = caller[d].on
      BY <1>0, <1>1, <2>1, <2>2 DEF Beginning
  <2>7. OwnLogins' BY <1>3, <1>7, <2>6 DEF Logins, OwnLogins, Fresher
  <2>8. Unknown' BY <1>2, <1>7, <2>1, <2>2 DEF Logins, Unknown
  <2>9. Reasons' BY <1>7, <2>1, <2>2 DEF Logins, Reasons, Replacing, Completing
  <2>10. Running'
    <3>1. flight' # 0 => Runs(flight)' BY <1>2, <1>4, <1>7, <2>5 DEF Logins, Running, Runs
    <3>2. \A q \in handed' : Runs(q)' BY <1>2, <1>3, <2>5 DEF Logins, Running, Types
    <3>3. \A d \in Callers : Coming(d)' => d # c /\ Coming(d) /\ caller'[d].on = caller[d].on
                                        /\ caller[d].on \in Procs \ {p}
        BY <1>5, <2>1, <2>2 DEF Coming, Logins, OwnLogins, Fresher, Beginning
    <3>4. \A d \in Callers : Coming(d)' => Runs(caller[d].on)'
      <4>1. \A d \in Callers : Coming(d)' => Runs(caller[d].on) BY <3>3 DEF Logins, Running
      <4> QED BY <2>5, <3>3, <4>1 DEF Runs
    <3> QED BY <3>1, <3>2, <3>4 DEF Running
  <2>11. Kept' BY <1>3, <1>7, <2>1, <2>2 DEF Logins, Kept, LoginKept
  <2>12. Tended'
    <3>1. \A d \in Callers : \A q \in Procs : Holds(d, q) => Holds(d, q)'
        BY <1>0, <1>1, <2>1, <2>2 DEF Holds
    <3>2. \A q \in Procs : InHand(q) => InHand(q)' BY <1>3, <1>7, <3>1 DEF InHand
    <3> QED BY <2>3, <3>2 DEF Logins, Tended
  <2>13. DownSince' BY <1>3, <1>7 DEF Logins, DownSince
  <2> QED BY <2>3, <2>4, <2>7, <2>8, <2>9, <2>10, <2>11, <2>12, <2>13 DEF Logins
<1> QED BY <1>0, <1>6, <1>7 DEF Track

\* The rest of track: a login that is already over is not left in flight, and the
\* older one is stopped.
LEMMA TrackedLogins ==
    ASSUME Types, Logins, NEW c \in Callers, Tracked(c)
    PROVE  Types' /\ Logins'
<1>0. PICK p, o : p = caller[c].on /\ o = caller[c].old OBVIOUS
<1>1. caller[c].pc = "tracked" /\ caller[c] \in CallRec /\ caller \in [Callers -> CallRec] BY DEF Tracked, At, Types
<1>2. p \in Procs /\ p # 0 /\ o \in Procs \cup {0} /\ (o # 0 => o \in ended) /\ Runs(p)
    BY <1>0, <1>1, AccountsAssumption
       DEF Logins, OwnLogins, Fresher, Beginning, Reasons, Replacing, Running, Coming
<1>3. /\ UNCHANGED <<helper, guardian, owner, handed, ended, epoch, nextLogin, expired, said, main, memo, models,
                     modelsLock, forgets, clears, probe, plan, signedIn, losses, confirmed, nature, era>>
      /\ sweeper' = [sweeper EXCEPT !.up = TRUE] /\ flight' = StillThere(p)
      /\ IF o = 0 THEN UNCHANGED proc ELSE Stop(o)
    BY <1>0 DEF Tracked, beginRest, memoVars, worldVars
<1>4. flight \in Nat /\ (flight # 0 => flight \in Procs) BY AccountsAssumption DEF Types, TypeOK
<1> DEFINE r == [caller[c] EXCEPT !.pc = "replacing"]
<1>5. r \in CallRec /\ r.pc = "replacing" /\ r.on = p /\ r.old = o
    BY <1>0, <1>1 DEF CallRec, Places, LoginPlaces, Beginning
<1>6. caller' \in [Callers -> CallRec] /\ caller'[c] = r /\ \A d \in Callers \ {c} : caller'[d] = caller[d]
  <2>1. caller' = [caller EXCEPT ![c] = r] BY <1>1 DEF Tracked, Goto
  <2> HIDE DEF r
  <2> QED BY <1>1, <1>5, <2>1, CallType
<1> HIDE DEF r
<1>7. /\ proc' \in [Procs -> ProcRec] /\ Reaped' /\ (\A q \in Procs : proc'[q].os = proc[q].os)
      /\ \A q \in Procs : q # o \/ o = 0 => proc'[q] = proc[q]
  <2>1. CASE o = 0 BY <1>3, <2>1 DEF Logins, Reaped, Types, TypeOK, ProcTypeOK, ProcRec
  <2>2. CASE o # 0
    <3>1. o \in Procs /\ Stop(o) BY <1>2, <1>3, <2>2
    <3> QED BY <2>2, <3>1, StopIs DEF Logins, Types, TypeOK
  <2> QED BY <2>1, <2>2
<1>8. \A q \in Procs : Runs(q) => Runs(q)' BY <1>2, <1>3, <1>7 DEF Runs
<1>9. flight' \in {0, flight} /\ (flight' # flight => flight = p /\ proc[p].os # "up" /\ p \in ended)
  <2>1. ~Alive(p) => proc[p].os # "up" /\ p \in ended BY <1>2 DEF Alive, Logins, Reaped, Sound, Runs
  <2> QED BY <1>3, <2>1 DEF StillThere, Untracked
<1>10. Types'
  <2>1. sweeper' \in [up : BOOLEAN, on : Procs \cup {0}] BY <1>3 DEF Types, TypeOK
  <2> QED BY <1>3, <1>6, <1>7, <1>9, <2>1 DEF Types, TypeOK, ProcTypeOK, ProcRec
<1>11. \A d \in Callers : /\ caller'[d].on = caller[d].on /\ caller'[d].old = caller[d].old
                          /\ caller'[d].pc = caller[d].pc \/ d = c
    BY <1>0, <1>5, <1>6
<1>12. OwnLogins'
  <2>1. \A d \in Callers : caller'[d].pc \in Beginning => caller[d].pc \in Beginning
      BY <1>1, <1>11 DEF Beginning
  <2>2. flight' < nextLogin BY <1>4, <1>9 DEF Logins, OwnLogins, Types, TypeOK
  <2> QED BY <1>3, <1>11, <2>1, <2>2 DEF Logins, OwnLogins, Fresher
<1>13. Unknown'
  <2>1. \A d \in Callers : caller'[d].pc \in {"begun", "spawned", "given up"} =>
            caller[d].pc \in {"begun", "spawned", "given up"} /\ caller[d].on # 0
      BY <1>5, <1>6, AccountsAssumption DEF Logins, OwnLogins, Fresher, Beginning
  <2> QED BY <1>9, <1>11, <2>1 DEF Logins, Unknown
<1>14. Reasons' BY <1>1, <1>2, <1>3, <1>5, <1>6 DEF Logins, Reasons, Replacing, Completing
<1>15. Running'
  <2>1. flight' # 0 => Runs(flight)' BY <1>4, <1>8, <1>9 DEF Logins, Running, Runs
  <2>2. \A q \in handed' : Runs(q)' BY <1>3, <1>8 DEF Logins, Running, Types
  <2>3. \A d \in Callers : Coming(d)' => Coming(d) /\ caller[d].on \in Procs
      BY <1>1, <1>11 DEF Coming, Logins, OwnLogins, Fresher, Beginning
  <2>4. \A d \in Callers : Coming(d)' => Runs(caller[d].on)'
    <3>1. \A d \in Callers : Coming(d)' => Runs(caller[d].on) BY <2>3 DEF Logins, Running
    <3> QED BY <1>8, <1>11, <2>3, <3>1 DEF Runs
  <2> QED BY <2>1, <2>2, <2>4 DEF Running
<1>16. Kept'
  <2>1. \A d \in Callers : caller'[d].pc \in {"tracked", "replacing", "url"} =>
            caller[d].pc \in {"tracked", "replacing", "url"}
      BY <1>1, <1>11
  <2> QED BY <1>3, <1>9, <1>11, <2>1 DEF Logins, Kept, LoginKept
<1>17. Tended'
  <2>1. \A d \in Callers : \A q \in Procs : Holds(d, q) => Holds(d, q)' BY <1>1, <1>5, <1>11, <1>6 DEF Holds
  <2>2. sweeper'.on = sweeper.on BY <1>3 DEF Types, TypeOK
  <2>3. \A q \in Procs : InHand(q) /\ proc[q].os = "up" => InHand(q)' BY <1>3, <1>9, <2>1, <2>2 DEF InHand
  <2> QED BY <1>7, <2>3 DEF Logins, Tended
<1>18. DownSince' BY <1>3, <1>9 DEF Logins, DownSince
<1> QED BY <1>7, <1>10, <1>12, <1>13, <1>14, <1>15, <1>16, <1>17, <1>18 DEF Logins

\* Whoever has waited for the end of a CLI lets go of it.
LEMMA LetsGo ==
    ASSUME Types, Logins, LoginsRest, UNCHANGED <<proc, ended>>, NEW c \in Callers,
           \A d \in Callers \ {c} : caller'[d] = caller[d],
           \/ caller'[c].pc = "url" /\ caller[c].pc = "replacing" /\ caller'[c].on = caller[c].on
           \/ caller'[c].pc \in {"idle", "forget"},
           \A q \in Procs : Holds(c, q) => proc[q].os # "up"
    PROVE  Logins'
<1> USE DEF LoginsRest
<1>1. \A d \in Callers : caller'[d].pc \in LoginPlaces =>
          /\ caller[d].pc \in LoginPlaces /\ caller'[d].on = caller[d].on
          /\ caller'[d] = caller[d] \/ (d = c /\ caller'[d].pc = "url" /\ caller[d].pc = "replacing")
    BY DEF LoginPlaces, Beginning
<1>2. Reaped' BY DEF Logins, Reaped
<1>3. OwnLogins'
  <2>1. OwnLogins BY DEF Logins
  <2>2. \A d \in Callers : caller'[d].pc \in Beginning => caller[d].pc \in Beginning /\ caller'[d].on = caller[d].on
      BY <1>1 DEF LoginPlaces, Beginning
  <2>3. \A d \in Callers : Fresher(d)' BY <2>1, <2>2 DEF OwnLogins, Fresher
  <2>4. \A d, e \in Callers : caller'[d].pc \in Beginning /\ caller'[e].pc \in Beginning /\ d # e =>
            caller'[d].on # caller'[e].on
      BY <2>1, <2>2 DEF OwnLogins
  <2> QED BY <2>1, <2>3, <2>4 DEF OwnLogins
<1>4. Unknown' BY <1>1 DEF Logins, Unknown, LoginPlaces, Beginning
<1>5. Reasons' BY <1>1 DEF Logins, Reasons, Replacing, Completing, LoginPlaces, Beginning
<1>6. Running'
  <2>1. \A d \in Callers : Coming(d)' => Coming(d) /\ caller'[d].on = caller[d].on
      BY <1>1 DEF Coming, LoginPlaces, Beginning
  <2> QED BY <2>1 DEF Logins, Running, Runs
<1>7. Kept' BY <1>1 DEF Logins, Kept, LoginKept, LoginPlaces, Beginning
<1>8. Tended'
  <2>1. \A d \in Callers \ {c} : \A q \in Procs : Holds(d, q) => Holds(d, q)' BY DEF Holds
  <2>2. \A q \in Procs : InHand(q) /\ proc[q].os = "up" => InHand(q)' BY <2>1 DEF InHand
  <2> QED BY <2>2 DEF Logins, Tended
<1>9. DownSince' BY DEF Logins, DownSince
<1> QED BY <1>2, <1>3, <1>4, <1>5, <1>6, <1>7, <1>8, <1>9 DEF Logins

\* The older login has ended, and begin waits for the URL of its own.
LEMMA ReplacedLogins ==
    ASSUME Types, Logins, NEW c \in Callers, Replaced(c)
    PROVE  Types' /\ Logins'
<1> DEFINE r == [caller[c] EXCEPT !.pc = "url"]
<1>1. caller[c].pc = "replacing" /\ caller[c] \in CallRec /\ caller \in [Callers -> CallRec]
    BY DEF Replaced, At, Types
<1>2. /\ UNCHANGED <<proc, helper, guardian, owner, flight, sweeper, handed, ended, epoch, nextLogin, expired, said, main,
                     memo, models, modelsLock, forgets, clears, probe, plan, signedIn, losses, confirmed, nature, era>>
      /\ caller[c].old # 0 => HasStopped(caller[c].old)
    BY DEF Replaced, beginRest, memoVars, worldVars, procVars
<1>3. r \in CallRec /\ r.pc = "url" /\ r.on = caller[c].on
    BY <1>1 DEF CallRec, Places, LoginPlaces, Beginning
<1>4. caller' \in [Callers -> CallRec] /\ caller'[c] = r /\ \A d \in Callers \ {c} : caller'[d] = caller[d]
  <2>1. caller' = [caller EXCEPT ![c] = r] BY <1>1 DEF Replaced, Goto
  <2> HIDE DEF r
  <2> QED BY <1>1, <1>3, <2>1, CallType
<1> HIDE DEF r
<1>5. Types' BY <1>2, <1>4 DEF Types, TypeOK, ProcTypeOK
<1>6. \A q \in Procs : Holds(c, q) => proc[q].os # "up"
    BY <1>1, <1>2, AccountsAssumption DEF Holds, HasStopped, Logins, Reaped, Sound
<1>7. Logins'
  <2>1. LoginsRest BY <1>2 DEF LoginsRest
  <2>2. UNCHANGED <<proc, ended>> BY <1>2
  <2>3. caller'[c].pc = "url" /\ caller[c].pc = "replacing" /\ caller'[c].on = caller[c].on BY <1>1, <1>3, <1>4
  <2> QED BY <1>4, <1>6, <2>1, <2>2, <2>3, LetsGo
<1> QED BY <1>5, <1>7

\* A begin that failed has stopped its CLI.
LEMMA GivenUpLogins ==
    ASSUME Types, Logins, NEW c \in Callers, GivenUp(c)
    PROVE  Types' /\ Logins'
<1>1. caller[c].pc = "given up" /\ caller \in [Callers -> CallRec]
    BY DEF GivenUp, At, Types
<1>2. /\ UNCHANGED <<proc, helper, guardian, owner, flight, sweeper, handed, ended, epoch, nextLogin, expired, said, main,
                     memo, models, modelsLock, forgets, clears, probe, plan, signedIn, losses, confirmed, nature, era>>
      /\ HasStopped(caller[c].on)
    BY DEF GivenUp, beginRest, memoVars, worldVars, procVars
<1>4. caller' \in [Callers -> CallRec] /\ caller'[c] = Idle /\ \A d \in Callers \ {c} : caller'[d] = caller[d]
  <2>1. caller' = [caller EXCEPT ![c] = Idle] BY DEF GivenUp, Return
  <2> QED BY <1>1, IdleType, <2>1, CallType
<1>5. Types' BY <1>2, <1>4 DEF Types, TypeOK, ProcTypeOK
<1>6. \A q \in Procs : Holds(c, q) => proc[q].os # "up"
    BY <1>1, <1>2 DEF Holds, HasStopped, Logins, Reaped, Sound
<1>7. Logins'
  <2>1. LoginsRest BY <1>2 DEF LoginsRest
  <2>2. UNCHANGED <<proc, ended>> BY <1>2
  <2>3. caller'[c].pc = "idle" BY <1>4 DEF Idle
  <2> QED BY <1>4, <1>6, <2>1, <2>2, <2>3, LetsGo
<1> QED BY <1>5, <1>7

\* complete is over: what follows has nothing to do with the login.
LEMMA CompletedLogins ==
    ASSUME Types, Logins, NEW c \in Callers, Completed(c)
    PROVE  Types' /\ Logins'
<1> DEFINE r == [caller[c] EXCEPT !.pc = "forget", !.was = signedIn]
<1>1. caller[c].pc = "completing" /\ caller[c] \in CallRec /\ caller \in [Callers -> CallRec] /\ signedIn \in BOOLEAN
    BY DEF Completed, At, Types, TypeOK
<1>2. /\ UNCHANGED <<proc, helper, guardian, owner, flight, sweeper, handed, ended, epoch, nextLogin, expired, said, main,
                     memo, models, modelsLock, forgets, clears, probe, plan, signedIn, losses, confirmed, nature, era>>
      /\ HasStopped(caller[c].on)
    BY DEF Completed, finishRest, memoVars, worldVars, procVars
<1>3. r \in CallRec /\ r.pc = "forget"
    BY <1>1 DEF CallRec, Places, LoginPlaces, Beginning
<1>4. caller' \in [Callers -> CallRec] /\ caller'[c] = r /\ \A d \in Callers \ {c} : caller'[d] = caller[d]
  <2>1. caller' = [caller EXCEPT ![c] = r] BY <1>1 DEF Completed
  <2> HIDE DEF r
  <2> QED BY <1>1, <1>3, <2>1, CallType
<1> HIDE DEF r
<1>5. Types' BY <1>2, <1>4 DEF Types, TypeOK, ProcTypeOK
<1>6. \A q \in Procs : Holds(c, q) => proc[q].os # "up"
    BY <1>1, <1>2 DEF Holds, HasStopped, Logins, Reaped, Sound
<1>7. Logins'
  <2>1. LoginsRest BY <1>2 DEF LoginsRest
  <2>2. UNCHANGED <<proc, ended>> BY <1>2
  <2>3. caller'[c].pc = "forget" BY <1>3, <1>4
  <2> QED BY <1>4, <1>6, <2>1, <2>2, <2>3, LetsGo
<1> QED BY <1>5, <1>7

\* begin returns: its login is one that the user knows.
LEMMA UrlLogins ==
    ASSUME Types, Logins, NEW c \in Callers, Url(c)
    PROVE  Types' /\ Logins'
<1>0. PICK p : p = caller[c].on OBVIOUS
<1>1. caller[c].pc = "url" /\ caller \in [Callers -> CallRec]
    BY DEF Url, At, Types
<1>2. /\ UNCHANGED <<proc, helper, guardian, owner, flight, sweeper, ended, epoch, nextLogin, expired, said, main,
                     memo, models, modelsLock, forgets, clears, probe, plan, signedIn, losses, confirmed, nature, era>>
      /\ handed' = handed \cup {p}
    BY <1>0 DEF Url, beginRest, memoVars, worldVars, procVars
<1>3. p \in Procs /\ p < nextLogin /\ Runs(p) /\ (flight = p \/ p \in ended)
    BY <1>0, <1>1 DEF Logins, OwnLogins, Fresher, Beginning, Running, Coming, Kept
<1>4. caller' \in [Callers -> CallRec] /\ caller'[c] = Idle /\ \A d \in Callers \ {c} : caller'[d] = caller[d]
  <2>1. caller' = [caller EXCEPT ![c] = Idle] BY DEF Url, Return
  <2> QED BY <1>1, IdleType, <2>1, CallType
<1>5. Types' BY <1>2, <1>3, <1>4 DEF Types, TypeOK, ProcTypeOK
<1>6. \A d \in Callers : caller'[d].pc # "idle" => d # c /\ caller'[d] = caller[d]
    BY <1>4 DEF Idle
<1>7. Reaped' BY <1>2 DEF Logins, Reaped
<1>8. OwnLogins'
  <2>1. OwnLogins BY DEF Logins
  <2>2. \A d \in Callers : caller'[d].pc \in Beginning => d # c /\ caller[d].pc \in Beginning /\ caller'[d] = caller[d]
      BY <1>6 DEF Beginning
  <2>3. \A d \in Callers : caller'[d].pc \in Beginning => caller[d].on # p
      BY <1>0, <1>1, <2>1, <2>2 DEF OwnLogins, Beginning
  <2>4. \A d \in Callers : Fresher(d)' BY <1>2, <2>1, <2>2, <2>3 DEF OwnLogins, Fresher
  <2>5. \A d, e \in Callers : caller'[d].pc \in Beginning /\ caller'[e].pc \in Beginning /\ d # e =>
            caller'[d].on # caller'[e].on
      BY <2>1, <2>2 DEF OwnLogins
  <2> QED BY <1>2, <1>3, <2>1, <2>4, <2>5 DEF OwnLogins
<1>9. Unknown' BY <1>2, <1>6 DEF Logins, Unknown
<1>10. Reasons' BY <1>2, <1>6 DEF Logins, Reasons, Replacing, Completing
<1>11. Running'
  <2>1. \A d \in Callers : Coming(d)' => Coming(d) /\ caller'[d].on = caller[d].on
      BY <1>6 DEF Coming
  <2> QED BY <1>2, <1>3, <2>1 DEF Logins, Running, Runs
<1>12. Kept' BY <1>2, <1>3, <1>6 DEF Logins, Kept, LoginKept
<1>13. Tended'
  <2>1. \A d \in Callers : \A q \in Procs : Holds(d, q) => Holds(d, q)' BY <1>1, <1>4 DEF Holds
  <2> QED BY <1>2, <2>1 DEF Logins, Tended, InHand
<1>14. DownSince' BY <1>2 DEF Logins, DownSince
<1> QED BY <1>5, <1>7, <1>8, <1>9, <1>10, <1>11, <1>12, <1>13, <1>14 DEF Logins

\* A login without a URL is taken out of flight, if it still is there, and
\* stopped; nobody else knows it.
LEMMA NoUrlLogins ==
    ASSUME Types, Logins, NEW c \in Callers, NoUrl(c)
    PROVE  Types' /\ Logins'
<1>0. PICK p : p = caller[c].on OBVIOUS
<1>1. caller[c].pc = "url" /\ caller[c] \in CallRec /\ caller \in [Callers -> CallRec] BY DEF NoUrl, At, Types
<1>2. p \in Procs /\ p < nextLogin /\ p \notin handed /\ p # 0 /\ 0 < nextLogin
  <2>1. p \in Procs /\ p < nextLogin /\ p \notin handed
      BY <1>0, <1>1 DEF Logins, OwnLogins, Fresher, Beginning
  <2>2. p \in Nat /\ p # 0 /\ nextLogin \in Nat BY <2>1, AccountsAssumption DEF Types, TypeOK
  <2> QED BY <2>1, <2>2
<1>3. /\ UNCHANGED <<helper, guardian, owner, ended, sweeper, handed, epoch, nextLogin, expired, said, main, memo, models,
                  modelsLock, forgets, clears, probe, plan, signedIn, losses, confirmed, nature, era>>
      /\ flight' = Untracked(p) /\ Stop(p)
    BY <1>0 DEF NoUrl, beginRest, memoVars, worldVars
<1>4. flight \in Nat /\ (flight # 0 => flight \in Procs) BY AccountsAssumption DEF Types, TypeOK
<1>5. \A d \in Callers \ {c} : caller[d].pc \in Beginning => caller[d].on # p
    BY <1>0, <1>1 DEF Logins, OwnLogins, Beginning
<1>6. flight' \in {0, flight} /\ flight' # p /\ (flight' # flight => flight = p)
    BY <1>2, <1>3 DEF Untracked
<1> DEFINE r == [caller[c] EXCEPT !.pc = "given up"]
<1>7. r \in CallRec /\ r.pc = "given up" /\ r.on = p
    BY <1>0, <1>1 DEF CallRec, Places, LoginPlaces, Beginning
<1>8. caller' \in [Callers -> CallRec] /\ caller'[c] = r /\ \A d \in Callers \ {c} : caller'[d] = caller[d]
  <2>1. caller' = [caller EXCEPT ![c] = r] BY <1>1 DEF NoUrl, Goto
  <2> HIDE DEF r
  <2> QED BY <1>1, <1>7, <2>1, CallType
<1> HIDE DEF r
<1>9. /\ proc' \in [Procs -> ProcRec] /\ Reaped' /\ (\A q \in Procs : proc'[q].os = proc[q].os)
      /\ \A q \in Procs \ {p} : proc'[q] = proc[q]
    BY <1>2, <1>3, StopIs DEF Logins, Types, TypeOK
<1>10. Types'
  <2>1. ProcTypeOK' BY <1>3, <1>9 DEF Types, TypeOK, ProcTypeOK, ProcRec
  <2>2. TypeOK' BY <1>3, <1>6, <1>8, <2>1 DEF Types, TypeOK
  <2> QED BY <1>3, <1>8, <2>2 DEF Types
<1>11. \A q \in Procs \ {p} : Runs(q) => Runs(q)' BY <1>3, <1>9 DEF Runs
<1>12. \A d \in Callers : caller'[d].pc \in Beginning => caller[d].pc \in Beginning /\ caller'[d].on = caller[d].on
    BY <1>0, <1>1, <1>7, <1>8 DEF Beginning
<1>13. OwnLogins'
  <2>1. OwnLogins BY DEF Logins
  <2>2. \A d \in Callers : Fresher(d)' BY <1>3, <1>12, <2>1 DEF OwnLogins, Fresher
  <2>3. \A d, e \in Callers : caller'[d].pc \in Beginning /\ caller'[e].pc \in Beginning /\ d # e =>
            caller'[d].on # caller'[e].on
      BY <1>12, <2>1 DEF OwnLogins
  <2> QED BY <1>2, <1>3, <1>6, <2>1, <2>2, <2>3 DEF OwnLogins
<1>14. Unknown'
  <2>1. \A d \in Callers : caller'[d].pc \in {"begun", "spawned", "given up"} => caller'[d].on # 0
      BY <1>12, AccountsAssumption DEF Logins, OwnLogins, Fresher, Beginning
  <2>2. \A d \in Callers \ {c} : caller'[d].pc \in {"begun", "spawned", "given up"} => flight # caller'[d].on
      BY <1>8 DEF Logins, Unknown
  <2> QED BY <1>6, <1>7, <1>8, <2>1, <2>2 DEF Unknown
<1>15. Reasons' BY <1>3, <1>7, <1>8 DEF Logins, Reasons, Replacing, Completing
<1>16. Running'
  <2>1. flight' # 0 => Runs(flight)' BY <1>4, <1>6, <1>11 DEF Logins, Running, Runs
  <2>2. \A q \in handed' : Runs(q)' BY <1>2, <1>3, <1>11 DEF Logins, Running, Types
  <2>3. \A d \in Callers : Coming(d)' => d # c /\ Coming(d) /\ caller'[d].on = caller[d].on
                                      /\ caller[d].on \in Procs \ {p}
      BY <1>5, <1>7, <1>8 DEF Coming, Logins, OwnLogins, Fresher, Beginning
  <2>4. \A d \in Callers : Coming(d)' => Runs(caller[d].on)'
    <3>1. \A d \in Callers : Coming(d)' => Runs(caller[d].on) BY <2>3 DEF Logins, Running
    <3> QED BY <1>11, <2>3, <3>1 DEF Runs
  <2> QED BY <2>1, <2>2, <2>4 DEF Running
<1>17. Kept'
  <2>1. \A d \in Callers : caller'[d].pc \in {"tracked", "replacing", "url"} =>
            d # c /\ caller'[d] = caller[d] /\ caller[d].on # p
      BY <1>5, <1>7, <1>8 DEF Beginning
  <2>2. \A q \in handed : q # p BY <1>2
  <2> QED BY <1>3, <1>6, <2>1, <2>2 DEF Logins, Kept, LoginKept
<1>18. Tended'
  <2>1. \A d \in Callers : \A q \in Procs : Holds(d, q) => Holds(d, q)'
      BY <1>0, <1>1, <1>7, <1>8 DEF Holds
  <2>2. Holds(c, p)' BY <1>7, <1>8 DEF Holds
  <2>3. \A q \in Procs : InHand(q) => InHand(q)' BY <1>3, <1>6, <2>1, <2>2 DEF InHand
  <2> QED BY <1>9, <2>3 DEF Logins, Tended
<1>19. DownSince' BY <1>3, <1>6 DEF Logins, DownSince
<1> QED BY <1>9, <1>10, <1>13, <1>14, <1>15, <1>16, <1>17, <1>18, <1>19 DEF Logins

\* Login::begin.
LEMMA BeginLogins ==
    ASSUME Types, Logins, NEW c \in Callers, Begin(c)
    PROVE  Types' /\ Logins'
BY StartAuthLogins, BegunLogins, TrackLogins, TrackedLogins, ReplacedLogins, UrlLogins, NoUrlLogins, GivenUpLogins
   DEF Begin

-----------------------------------------------------------------------------
(* Login::complete. *)

\* finish_auth takes what is in flight: that is a reason for it to end.
LEMMA FinishAuthLogins ==
    ASSUME Types, Logins, NEW c \in Callers, FinishAuth(c)
    PROVE  Types' /\ Logins'
<1> DEFINE r == [Idle EXCEPT !.pc = IF flight = 0 THEN "forget" ELSE "settling",
                             !.op = "finish_auth", !.on = flight, !.was = signedIn]
<1>1. caller[c].pc = "idle" /\ caller \in [Callers -> CallRec] /\ flight \in Procs \cup {0} /\ signedIn \in BOOLEAN
    BY DEF FinishAuth, Asks, At, Types, TypeOK
<1>2. /\ UNCHANGED <<proc, helper, guardian, owner, sweeper, handed, epoch, nextLogin, expired, said, main,
                     memo, models, modelsLock, forgets, clears, probe, signedIn, losses, confirmed, nature, era>>
      /\ flight' = 0 /\ ended' = ended \cup ({flight} \ {0})
    BY DEF FinishAuth, finishRest, memoVars, worldVars, procVars
<1>3. r \in CallRec /\ (r.pc = "forget" \/ (r.pc = "settling" /\ flight # 0)) /\ r.on = flight /\ (flight # 0 => r.pc = "settling")
    BY <1>1 DEF CallRec, Places, LoginPlaces, Beginning, Idle
<1>4. caller' \in [Callers -> CallRec] /\ caller'[c] = r /\ \A d \in Callers \ {c} : caller'[d] = caller[d]
  <2>1. caller' = [caller EXCEPT ![c] = r] BY <1>1 DEF FinishAuth
  <2> HIDE DEF r
  <2> QED BY <1>1, <1>3, <2>1, CallType
<1> HIDE DEF r
<1>5. ended \subseteq ended' /\ ended' \subseteq Procs /\ (flight # 0 => flight \in ended') BY <1>1, <1>2 DEF Types
<1>6. Types'
  <2>1. plan' \in [Callers -> Seq(AccountOps)] BY AskedType DEF FinishAuth, Asks, Types, TypeOK
  <2>2. TypeOK' BY <1>2, <2>1 DEF Types, TypeOK, ProcTypeOK
  <2> QED BY <1>2, <1>4, <1>5, <2>2 DEF Types
<1>7. \A d \in Callers : caller'[d].pc \in Beginning => d # c /\ caller[d].pc \in Beginning /\ caller'[d] = caller[d]
    BY <1>3, <1>4 DEF Beginning
<1>8. Reaped' BY <1>2 DEF Logins, Reaped
<1>9. OwnLogins'
  <2>1. OwnLogins BY DEF Logins
  <2>2. \A d \in Callers : Fresher(d)' BY <1>2, <1>7, <2>1 DEF OwnLogins, Fresher
  <2>3. \A d, e \in Callers : caller'[d].pc \in Beginning /\ caller'[e].pc \in Beginning /\ d # e =>
            caller'[d].on # caller'[e].on
      BY <1>7, <2>1 DEF OwnLogins
  <2>4. 0 < nextLogin BY <1>1, <2>1, AccountsAssumption DEF OwnLogins, Types, TypeOK
  <2> QED BY <1>2, <2>1, <2>2, <2>3, <2>4 DEF OwnLogins
<1>10. Unknown'
  <2>1. \A d \in Callers : caller'[d].pc \in Beginning => caller'[d].on # 0
      BY <1>7, AccountsAssumption DEF Logins, OwnLogins, Fresher
  <2> QED BY <1>2, <2>1 DEF Unknown, Beginning
<1>11. Reasons' BY <1>3, <1>4, <1>5 DEF Logins, Reasons, Replacing, Completing
<1>12. Running'
  <2>1. \A q : Runs(q) => Runs(q)' BY <1>2, <1>5 DEF Runs
  <2>2. \A d \in Callers : Coming(d)' => Coming(d) /\ caller'[d].on = caller[d].on
      BY <1>7 DEF Coming, Beginning
  <2>3. \A d \in Callers : Coming(d)' => Runs(caller'[d].on) BY <2>2 DEF Logins, Running
  <2> QED BY <1>2, <1>5, <2>3 DEF Logins, Running, Runs
<1>13. Kept'
  <2>1. \A q \in Procs : flight = q => q \in ended' BY <1>5, AccountsAssumption
  <2>2. \A q \in handed' : q \in ended' BY <1>2, <1>5, <2>1 DEF Logins, Kept, LoginKept, Types
  <2>3. \A d \in Callers : caller'[d].pc \in {"tracked", "replacing", "url"} => caller'[d].on \in ended'
    <3>1. \A d \in Callers : caller[d].pc \in {"tracked", "replacing", "url"} => caller[d].on \in Procs
        BY DEF Logins, OwnLogins, Fresher, Beginning
    <3> QED BY <1>5, <1>7, <2>1, <3>1 DEF Logins, Kept, Beginning
  <2> QED BY <2>2, <2>3 DEF Kept, LoginKept
<1>14. Tended'
  <2>1. \A d \in Callers : \A q \in Procs : Holds(d, q) => Holds(d, q)' BY <1>1, <1>4 DEF Holds
  <2>2. \A q \in Procs : flight = q => Holds(c, q)' BY <1>3, <1>4, AccountsAssumption DEF Holds
  <2>3. \A q \in Procs : InHand(q) => InHand(q)' BY <1>2, <2>1, <2>2 DEF InHand
  <2> QED BY <1>2, <2>3 DEF Logins, Tended
<1>15. DownSince' BY <1>2 DEF Logins, DownSince
<1> QED BY <1>6, <1>8, <1>9, <1>10, <1>11, <1>12, <1>13, <1>14, <1>15 DEF Logins

\* complete stops what it has taken.
LEMMA SettledLogins ==
    ASSUME Types, Logins, NEW c \in Callers, Settled(c)
    PROVE  Types' /\ Logins'
<1>0. PICK p : p = caller[c].on OBVIOUS
<1>1. caller[c].pc = "settling" /\ caller[c] \in CallRec /\ caller \in [Callers -> CallRec] BY DEF Settled, At, Types
<1>2. p \in ended /\ p \in Procs BY <1>0, <1>1 DEF Logins, Reasons, Completing, Types
<1>3. /\ UNCHANGED <<helper, guardian, owner, ended, flight, sweeper, handed, epoch, nextLogin, expired, said, main, memo,
                  models, modelsLock, forgets, clears, probe, plan, signedIn, losses, confirmed, nature, era>>
      /\ Stop(p)
    BY <1>0 DEF Settled, finishRest, memoVars, worldVars
<1> DEFINE r == [caller[c] EXCEPT !.pc = "completing"]
<1>4. r \in CallRec /\ r.pc = "completing" /\ r.on = p /\ r.old = caller[c].old
    BY <1>0, <1>1 DEF CallRec, Places, LoginPlaces, Beginning
<1>5. caller' \in [Callers -> CallRec] /\ caller'[c] = r /\ \A d \in Callers \ {c} : caller'[d] = caller[d]
  <2>1. caller' = [caller EXCEPT ![c] = r] BY <1>1 DEF Settled, Goto
  <2> HIDE DEF r
  <2> QED BY <1>1, <1>4, <2>1, CallType
<1> HIDE DEF r
<1>6. /\ proc' \in [Procs -> ProcRec] /\ Reaped' /\ (\A q \in Procs : proc'[q].os = proc[q].os)
      /\ \A q \in Procs \ {p} : proc'[q] = proc[q]
    BY <1>2, <1>3, StopIs DEF Logins, Types, TypeOK
<1>7. Types'
  <2>1. ProcTypeOK' BY <1>3, <1>6 DEF Types, TypeOK, ProcTypeOK, ProcRec
  <2>2. TypeOK' BY <1>3, <2>1 DEF Types, TypeOK
  <2> QED BY <1>3, <1>5, <2>2 DEF Types
<1>8. \A q \in Procs : Runs(q) => Runs(q)' BY <1>2, <1>3, <1>6 DEF Runs
<1>9. \A d \in Callers : caller'[d].pc \in Beginning => d # c /\ caller[d].pc \in Beginning /\ caller'[d] = caller[d]
    BY <1>4, <1>5 DEF Beginning
<1>10. OwnLogins'
  <2>1. OwnLogins BY DEF Logins
  <2>2. \A d \in Callers : Fresher(d)' BY <1>3, <1>9, <2>1 DEF OwnLogins, Fresher
  <2>3. \A d, e \in Callers : caller'[d].pc \in Beginning /\ caller'[e].pc \in Beginning /\ d # e =>
            caller'[d].on # caller'[e].on
      BY <1>9, <2>1 DEF OwnLogins
  <2> QED BY <1>3, <2>1, <2>2, <2>3 DEF OwnLogins
<1>11. Unknown' BY <1>3, <1>9 DEF Logins, Unknown, Beginning
<1>12. Reasons' BY <1>2, <1>3, <1>4, <1>5 DEF Logins, Reasons, Replacing, Completing
<1>13. Running'
  <2>1. flight' # 0 => Runs(flight)' BY <1>3, <1>8 DEF Logins, Running, Runs, Types, TypeOK
  <2>2. \A q \in handed' : Runs(q)' BY <1>3, <1>8 DEF Logins, Running, Types
  <2>3. \A d \in Callers : Coming(d)' => Coming(d) /\ caller'[d].on = caller[d].on /\ caller[d].on \in Procs
      BY <1>9 DEF Coming, Logins, OwnLogins, Fresher, Beginning
  <2>4. \A d \in Callers : Coming(d)' => Runs(caller[d].on)'
    <3>1. \A d \in Callers : Coming(d)' => Runs(caller[d].on) BY <2>3 DEF Logins, Running
    <3> QED BY <1>8, <2>3, <3>1 DEF Runs
  <2> QED BY <2>1, <2>2, <2>3, <2>4 DEF Running, Runs
<1>14. Kept' BY <1>3, <1>9 DEF Logins, Kept, LoginKept, Beginning
<1>15. Tended'
  <2>1. \A d \in Callers : \A q \in Procs : Holds(d, q) => Holds(d, q)'
      BY <1>0, <1>1, <1>4, <1>5 DEF Holds
  <2>2. \A q \in Procs : InHand(q) => InHand(q)' BY <1>3, <2>1 DEF InHand
  <2> QED BY <1>6, <2>2 DEF Logins, Tended
<1>16. DownSince' BY <1>3 DEF Logins, DownSince
<1> QED BY <1>6, <1>7, <1>10, <1>11, <1>12, <1>13, <1>14, <1>15, <1>16 DEF Logins

-----------------------------------------------------------------------------
(* Who asks, and what the daemon, the CLIs and the user do. *)

\* A step that has to do with what is asked and remembered, and not with logins.
LEMMA AsksLogins ==
    ASSUME Types, Logins,
           UNCHANGED <<proc, helper, guardian, owner, flight, epoch, nextLogin, sweeper, main, era, handed, ended>>,
           \A c \in Callers : caller'[c] = caller[c] \/
               (caller[c].pc \notin LoginPlaces /\ caller'[c].pc \notin LoginPlaces)
    PROVE  Logins'
<1>1. LoginsRest BY DEF LoginsRest
<1>2. \A c \in Callers : SamePlace(c) BY DEF SamePlace
<1>3. ended \subseteq ended' OBVIOUS
<1>4. Reaped' BY DEF Logins, Reaped
<1>5. \A p \in Procs : proc'[p].os = "up" => proc[p].os = "up" OBVIOUS
<1>6. \A p \in Procs : Runs(p) => Runs(p)' BY DEF Runs
<1> QED BY <1>1, <1>2, <1>3, <1>4, <1>5, <1>6, LoginsKeep

\* One caller moves on in what it asks.
LEMMA AskerMoves ==
    ASSUME Types, Logins, NEW c \in Callers, NEW r \in CallRec,
           UNCHANGED <<proc, helper, guardian, owner, flight, epoch, nextLogin, sweeper, main, era, handed, ended>>,
           caller' = [caller EXCEPT ![c] = r],
           caller[c].pc \notin LoginPlaces, r.pc \notin LoginPlaces
    PROVE  caller' \in [Callers -> CallRec] /\ Logins'
<1>1. /\ caller' \in [Callers -> CallRec] /\ caller'[c] = r
      /\ \A d \in Callers \ {c} : caller'[d] = caller[d]
    BY CallType DEF Types
<1> QED BY <1>1, AsksLogins

\* ... and writes what it has a hand in with its type.
LEMMA AskerTypes ==
    ASSUME TypeOK,
           UNCHANGED <<proc, helper, guardian, owner, flight, epoch, nextLogin, expired, said, sweeper, main, signedIn>>,
           memo' \in [says : {"none", "yes", "no"}, raced : BOOLEAN, blip : BOOLEAN],
           models'.says \in {"none", "yes", "no"}, modelsLock' \in Callers \cup {"nobody"},
           plan' \in [Callers -> Seq(AccountOps)]
    PROVE  TypeOK'
BY DEF TypeOK, ProcTypeOK

\* The rest of finish_auth, and forget.
LEMMA ForgettingLogins ==
    ASSUME Types, Logins, NEW c \in Callers, Forget(c) \/ ForgetMemo(c) \/ ForgetModels(c)
    PROVE  Types' /\ Logins'
<1> USE DEF askRest, procVars, loginVars, worldVars, historyVars, memoVars
<1>1. caller \in [Callers -> CallRec] /\ caller[c] \in CallRec BY DEF Types
<1>2. CASE Forget(c)
  <2> DEFINE r == [Idle EXCEPT !.pc = "forget", !.op = "forget"]
  <2>1. r \in CallRec /\ r.pc \notin LoginPlaces BY DEF CallRec, Places, LoginPlaces, Beginning, Idle
  <2>2. caller[c].pc \notin LoginPlaces BY <1>2 DEF Forget, Asks, At, LoginPlaces, Beginning
  <2>3. caller' = [caller EXCEPT ![c] = r] BY <1>2 DEF Forget
  <2> HIDE DEF r
  <2>4. caller' \in [Callers -> CallRec] /\ Logins' BY <1>2, <2>1, <2>2, <2>3, AskerMoves DEF Forget
  <2>5. plan' \in [Callers -> Seq(AccountOps)] BY <1>2, AskedType DEF Forget, Asks, Types, TypeOK
  <2>6. TypeOK' BY <1>2, <2>5, AskerTypes DEF Forget, Types, TypeOK
  <2> QED BY <1>2, <2>4, <2>6 DEF Forget, Types
<1>3. CASE ForgetMemo(c)
  <2> DEFINE r == [caller[c] EXCEPT !.pc = "forget models"]
  <2>1. r \in CallRec /\ r.pc \notin LoginPlaces
      BY <1>1 DEF CallRec, Places, LoginPlaces, AskPlaces, Beginning
  <2>2. caller[c].pc \notin LoginPlaces BY <1>3 DEF ForgetMemo, At, LoginPlaces, Beginning
  <2>3. caller' = [caller EXCEPT ![c] = r] BY <1>1, <1>3 DEF ForgetMemo, Goto
  <2> HIDE DEF r
  <2>4. caller' \in [Callers -> CallRec] /\ Logins' BY <1>3, <2>1, <2>2, <2>3, AskerMoves DEF ForgetMemo
  <2>5. TypeOK'
    <3>1. ProcTypeOK' BY <1>3 DEF ForgetMemo, Types, TypeOK, ProcTypeOK
    <3> QED BY <1>3, <3>1 DEF ForgetMemo, NoMemo, Types, TypeOK
  <2>7. UNCHANGED <<probe, models, clears, era, handed, ended, confirmed>> /\ forgets' = forgets + 1
      BY <1>3 DEF ForgetMemo
  <2>6. UNCHANGED <<probe, models, clears, era, handed, ended, confirmed>> /\ forgets' \in Nat
      BY <2>7 DEF Types
  <2> QED BY <2>4, <2>5, <2>6 DEF Types
<1>4. CASE ForgetModels(c)
  <2> DEFINE r == IF caller[c].op = "forget" THEN Idle ELSE [caller[c] EXCEPT !.pc = "probe"]
  <2>1. r \in CallRec /\ r.pc \notin LoginPlaces
      BY <1>1, IdleType DEF CallRec, Places, LoginPlaces, AskPlaces, Beginning, Idle
  <2>2. caller[c].pc \notin LoginPlaces BY <1>4 DEF ForgetModels, At, LoginPlaces, Beginning
  <2>3. caller' = [caller EXCEPT ![c] = r] BY <1>1, <1>4 DEF ForgetModels, Goto, Return
  <2> HIDE DEF r
  <2>4. caller' \in [Callers -> CallRec] /\ Logins' BY <1>4, <2>1, <2>2, <2>3, AskerMoves DEF ForgetModels
  <2>5. models' = NoModels /\ clears' = clears + 1
      /\ UNCHANGED <<probe, plan, modelsLock, memo, forgets, era, handed, ended, confirmed>> BY <1>4 DEF ForgetModels
  <2>6. models' \in [says : {"none", "yes", "no"}, since : Nat] /\ clears' \in Nat
      BY <2>5 DEF NoModels, Types
  <2>7. TypeOK' BY <1>4, <2>5, <2>6, AskerTypes DEF ForgetModels, Types, TypeOK
  <2> QED BY <2>4, <2>5, <2>6, <2>7 DEF Types
<1> QED BY <1>2, <1>3, <1>4

\* auth_status, probe and models.
LEMMA AskingLogins ==
    ASSUME Types, Logins, NEW c \in Callers, Asking(c)
    PROVE  Types' /\ Logins'
<1> USE DEF askRest, procVars, loginVars, worldVars, historyVars, memoVars
<1>1. caller \in [Callers -> CallRec] /\ caller[c] \in CallRec BY DEF Types
<1>2. CASE AuthStatus(c)
  <2> DEFINE r == IF memo.says # "none" THEN caller[c]
                  ELSE [Idle EXCEPT !.pc = "probe", !.op = "auth_status", !.since = forgets]
  <2>0. caller[c].pc \notin LoginPlaces BY <1>2 DEF AuthStatus, Asks, At, LoginPlaces, Beginning
  <2>1. r \in CallRec /\ r.pc \notin LoginPlaces
    <3>1. CASE memo.says # "none" BY <1>1, <2>0, <3>1
    <3>2. CASE memo.says = "none"
      <4>1. r = [Idle EXCEPT !.pc = "probe", !.op = "auth_status", !.since = forgets] BY <3>2
      <4>2. forgets \in Nat BY DEF Types
      <4> HIDE DEF r
      <4>3. "probe" \in Places /\ "probe" \notin LoginPlaces BY DEF Places, AskPlaces, LoginPlaces, Beginning
      <4> QED BY <4>1, <4>2, <4>3, IdleType DEF CallRec
    <3> QED BY <3>1, <3>2
  <2>3. caller' = [caller EXCEPT ![c] = r] BY <1>1, <1>2 DEF AuthStatus
  <2> HIDE DEF r
  <2>4. caller' \in [Callers -> CallRec] /\ Logins' BY <1>2, <2>0, <2>1, <2>3, AskerMoves DEF AuthStatus
  <2>5. plan' \in [Callers -> Seq(AccountOps)] BY <1>2, AskedType DEF AuthStatus, Asks, Types, TypeOK
  <2>6. TypeOK' BY <1>2, <2>5 DEF AuthStatus, Types, TypeOK, ProcTypeOK
  <2> QED BY <1>2, <2>4, <2>6 DEF AuthStatus, Types
<1>3. CASE Models(c)
  <2> DEFINE r == [Idle EXCEPT !.pc = "probe", !.op = "models"]
  <2>0. caller[c].pc \notin LoginPlaces BY <1>3 DEF Models, Asks, At, LoginPlaces, Beginning
  <2>1. r \in CallRec /\ r.pc \notin LoginPlaces
      BY DEF CallRec, Places, LoginPlaces, AskPlaces, Beginning, Idle
  <2>3. caller' = [caller EXCEPT ![c] = r] BY <1>3 DEF Models
  <2> HIDE DEF r
  <2>4. caller' \in [Callers -> CallRec] /\ Logins' BY <1>3, <2>0, <2>1, <2>3, AskerMoves DEF Models
  <2>5. plan' \in [Callers -> Seq(AccountOps)] BY <1>3, AskedType DEF Models, Asks, Types, TypeOK
  <2>6. TypeOK' BY <1>3, <2>5, AskerTypes DEF Models, Types, TypeOK
  <2> QED BY <1>3, <2>4, <2>6 DEF Models, Types
<1>4. CASE Probe(c)
  <2> DEFINE r == [caller[c] EXCEPT !.pc = "probing", !.old = clears]
             q == [NoProbe EXCEPT !.os = "up", !.held = TRUE]
  <2>0. caller[c].pc \notin LoginPlaces BY <1>4 DEF Probe, At, LoginPlaces, Beginning
  <2>1. r \in CallRec /\ r.pc \notin LoginPlaces
      BY <1>1 DEF CallRec, Places, LoginPlaces, AskPlaces, Beginning, Types
  <2>2. q \in ProbeRec /\ probe \in [Callers -> ProbeRec] BY DEF NoProbe, ProbeRec, Types
  <2>3. caller' = [caller EXCEPT ![c] = r] /\ probe' = [probe EXCEPT ![c] = q] BY <1>1, <1>4 DEF Probe
  <2> HIDE DEF r, q
  <2>4. caller' \in [Callers -> CallRec] /\ Logins' BY <1>4, <2>0, <2>1, <2>3, AskerMoves DEF Probe
  <2>5. probe' \in [Callers -> ProbeRec] BY <2>2, <2>3
  <2>6. TypeOK' BY <1>4 DEF Probe, Types, TypeOK, ProcTypeOK
  <2> QED BY <1>4, <2>4, <2>5, <2>6 DEF Probe, Types
<1>5. CASE Remembered(c)
  <2>0. caller[c].pc \notin LoginPlaces BY <1>5 DEF Remembered, At, LoginPlaces, Beginning
  <2>1. Idle.pc \notin LoginPlaces BY DEF Idle, LoginPlaces, Beginning
  <2>2. caller' = [caller EXCEPT ![c] = Idle] BY <1>5 DEF Remembered, Return
  <2>4. caller' \in [Callers -> CallRec] /\ Logins' BY <1>5, <2>0, <2>1, <2>2, IdleType, AskerMoves DEF Remembered
  <2>6. TypeOK' BY <1>5 DEF Remembered, Types, TypeOK, ProcTypeOK
  <2> QED BY <1>5, <2>4, <2>6 DEF Remembered, Types
<1>6. ASSUME At(c, "probing"), NEW says \in {"yes", "no"}, NEW blip \in BOOLEAN, Says(c, says, blip)
      PROVE  Types' /\ Logins'
  <2> DEFINE r == IF caller[c].op = "auth_status"
                  THEN [caller[c] EXCEPT !.pc = "insert", !.says = says, !.blip = blip, !.old = 0]
                  ELSE Idle
  <2>0. caller[c].pc \notin LoginPlaces BY <1>6 DEF At, LoginPlaces, Beginning
  <2>1. r \in CallRec /\ r.pc \notin LoginPlaces
    <3>1. CASE caller[c].op = "auth_status"
      <4>1. r = [caller[c] EXCEPT !.pc = "insert", !.says = says, !.blip = blip, !.old = 0] BY <3>1
      <4> HIDE DEF r
      <4>2. "insert" \in Places /\ "insert" \notin LoginPlaces BY DEF Places, AskPlaces, LoginPlaces, Beginning
      <4> QED BY <1>1, <4>1, <4>2 DEF CallRec
    <3>2. CASE caller[c].op # "auth_status" BY <3>2, IdleType DEF LoginPlaces, Beginning, Idle
    <3> QED BY <3>1, <3>2
  <2>2. NoProbe \in ProbeRec BY DEF NoProbe, ProbeRec
  <2>3. caller' = [caller EXCEPT ![c] = r] /\ probe' = [probe EXCEPT ![c] = NoProbe] BY <1>1, <1>6 DEF Says
  <2> HIDE DEF r
  <2>4. caller' \in [Callers -> CallRec] /\ Logins' BY <1>6, <2>0, <2>1, <2>3, AskerMoves DEF Says
  <2>5. probe' \in [Callers -> ProbeRec] BY <2>2, <2>3 DEF Types
  <2>6. models' \in [says : {"none", "yes", "no"}, since : Nat] /\ confirmed' \in BOOLEAN
      BY <1>1, <1>6 DEF Says, Inventory, NoModels, Types, CallRec
  <2>7. TypeOK' BY <1>6, <2>6 DEF Says, Types, TypeOK, ProcTypeOK
  <2> QED BY <1>6, <2>4, <2>5, <2>6, <2>7 DEF Says, Types
<1>7. CASE Collected(c)
  <2>1. probe[c].says \in {"yes", "no"} BY DEF Types, ProbeRec
  <2> QED BY <1>6, <1>7, <2>1 DEF Collected
<1>8. CASE Deadline(c) BY <1>6, <1>8 DEF Deadline
<1>9. CASE Insert(c)
  <2>0. caller[c].pc \notin LoginPlaces BY <1>9 DEF Insert, At, LoginPlaces, Beginning
  <2>1. Idle.pc \notin LoginPlaces BY DEF Idle, LoginPlaces, Beginning
  <2>2. caller' = [caller EXCEPT ![c] = Idle] BY <1>9 DEF Insert, Return
  <2>4. caller' \in [Callers -> CallRec] /\ Logins' BY <1>9, <2>0, <2>1, <2>2, IdleType, AskerMoves DEF Insert
  <2>5. memo' \in [says : {"none", "yes", "no"}, raced : BOOLEAN, blip : BOOLEAN]
      BY <1>1, <1>9 DEF Insert, CallRec
  <2>6. TypeOK' BY <1>9, <2>5 DEF Insert, Types, TypeOK, ProcTypeOK
  <2> QED BY <1>9, <2>4, <2>6 DEF Insert, Types
<1> QED BY <1>2, <1>3, <1>4, <1>5, <1>7, <1>8, <1>9 DEF Asking

\* The daemon itself takes a login out of flight, at most, and has a reason.
LEMMA FlightEnds ==
    ASSUME Types, Logins, UNCHANGED <<nextLogin, handed, caller>>, flight' \in {0, flight},
           flight' # flight => flight \in ended', ended \subseteq ended',
           \A p \in Procs : Runs(p) => Runs(p)'
    PROVE  OwnLogins' /\ Unknown' /\ Reasons' /\ Running' /\ Kept'
<1>0. flight \in Nat /\ (flight # 0 => flight \in Procs) /\ 0 \notin Procs
  <2>1. flight \in Procs \cup {0} BY DEF Types, TypeOK
  <2> QED BY <2>1, AccountsAssumption
<1>1. OwnLogins'
  <2>1. flight' < nextLogin BY <1>0 DEF Logins, OwnLogins, Types, TypeOK
  <2> QED BY <2>1 DEF Logins, OwnLogins, Fresher
<1>2. Unknown'
  <2>1. \A c \in Callers : caller[c].pc \in {"begun", "spawned", "given up"} => caller[c].on # 0
      BY <1>0 DEF Logins, OwnLogins, Fresher, Beginning
  <2> QED BY <2>1 DEF Logins, Unknown
<1>3. Reasons' BY DEF Logins, Reasons, Replacing, Completing
<1>4. Running'
  <2>1. flight' # 0 => Runs(flight)' BY <1>0 DEF Logins, Running, Runs
  <2>2. \A p \in handed' : Runs(p)' BY DEF Logins, Running, Types
  <2>3. \A c \in Callers : Coming(c) => Runs(caller[c].on) /\ caller[c].on \in Procs
      BY DEF Coming, Logins, Running, OwnLogins, Fresher, Beginning
  <2>4. \A c \in Callers : Coming(c)' => Runs(caller[c].on)' BY <2>3 DEF Coming, Runs
  <2> QED BY <2>1, <2>2, <2>4 DEF Running
<1>5. Kept' BY <1>0 DEF Logins, Kept, LoginKept
<1> QED BY <1>1, <1>2, <1>3, <1>4, <1>5

\* reap_expired takes a login that is over, and stops it.
LEMMA SweepLogins ==
    ASSUME Types, Logins, Sweep
    PROVE  Types' /\ Logins'
<1>0. flight \in Procs /\ flight # 0 /\ sweeper.on = 0 BY DEF Sweep, Types, TypeOK
<1>1. /\ UNCHANGED <<helper, guardian, owner, main, epoch, nextLogin, expired, said, memo, models, modelsLock, forgets,
                     clears, probe, caller, plan, signedIn, losses, confirmed, nature, era, handed>>
      /\ sweeper' = [sweeper EXCEPT !.on = flight] /\ flight' = 0 /\ Stop(flight) /\ ended' = ended \cup {flight}
    BY DEF Sweep, sweepRest, memoVars, callVars, worldVars
<1>2. /\ proc' \in [Procs -> ProcRec] /\ Reaped' /\ (\A q \in Procs : proc'[q].os = proc[q].os)
      /\ \A q \in Procs \ {flight} : proc'[q] = proc[q]
    BY <1>0, <1>1, StopIs DEF Logins, Types, TypeOK
<1>3. \A q \in Procs : Runs(q) => Runs(q)' BY <1>1, <1>2 DEF Runs
<1>4. sweeper' \in [up : BOOLEAN, on : Procs \cup {0}] /\ sweeper'.on = flight
    BY <1>0, <1>1 DEF Types, TypeOK
<1>5. Types'
  <2>1. ProcTypeOK' BY <1>1, <1>2 DEF Types, TypeOK, ProcTypeOK, ProcRec
  <2>2. TypeOK' BY <1>1, <1>4, <2>1 DEF Types, TypeOK
  <2> QED BY <1>0, <1>1, <2>2 DEF Types
<1>6. OwnLogins' /\ Unknown' /\ Reasons' /\ Running' /\ Kept'
  <2>1. UNCHANGED <<nextLogin, handed, caller>> BY <1>1
  <2>2. flight' \in {0, flight} /\ flight \in ended' /\ ended \subseteq ended' BY <1>1
  <2> QED BY <1>3, <2>1, <2>2, FlightEnds
<1>7. Tended'
  <2>1. \A q \in Procs : InHand(q) => InHand(q)' BY <1>0, <1>1, <1>4 DEF InHand, Holds
  <2> QED BY <1>2, <2>1 DEF Logins, Tended
<1>8. DownSince' BY <1>1 DEF Logins, DownSince
<1> QED BY <1>2, <1>5, <1>6, <1>7, <1>8 DEF Logins

\* The sweeper is done with what it has stopped.
LEMMA SweptLogins ==
    ASSUME Types, Logins, Swept
    PROVE  Types' /\ Logins'
<1>1. /\ UNCHANGED <<proc, helper, guardian, owner, flight, main, ended, epoch, nextLogin, expired, said, memo, models,
                     modelsLock, forgets, clears, probe, caller, plan, signedIn, losses, confirmed, nature, era, handed>>
      /\ sweeper' = [sweeper EXCEPT !.on = 0] /\ HasStopped(sweeper.on)
    BY DEF Swept, sweepRest, memoVars, callVars, worldVars, procVars
<1>2. sweeper' \in [up : BOOLEAN, on : Procs \cup {0}] BY <1>1 DEF Types, TypeOK
<1>3. Types'
  <2>1. TypeOK' BY <1>1, <1>2 DEF Types, TypeOK, ProcTypeOK
  <2> QED BY <1>1, <2>1 DEF Types
<1>4. Reaped' BY <1>1 DEF Logins, Reaped
<1>5. OwnLogins' /\ Unknown' /\ Reasons' /\ Running' /\ Kept'
  <2>1. UNCHANGED <<nextLogin, handed, caller>> /\ flight' = flight /\ ended \subseteq ended' BY <1>1
  <2>2. \A q \in Procs : Runs(q) => Runs(q)' BY <1>1 DEF Runs
  <2> QED BY <2>1, <2>2, FlightEnds
<1>6. Tended'
  <2>1. \A q \in Procs : sweeper.on = q => proc[q].os # "up" BY <1>1 DEF HasStopped, Logins, Reaped, Sound
  <2> QED BY <1>1, <2>1 DEF Logins, Tended, InHand, Holds
<1>7. DownSince' BY <1>1 DEF Logins, DownSince
<1> QED BY <1>3, <1>4, <1>5, <1>6, <1>7 DEF Logins

\* shutdown, its three steps: the epoch, the login in flight, and its end.
LEMMA ShutdownLogins ==
    ASSUME Types, Logins, Shutdown \/ Drain \/ ShutDown
    PROVE  Types' /\ Logins'
<1>0. /\ main \in [pc : {"up", "away", "draining", "stopping", "done"}, on : Procs \cup {0}]
      /\ epoch \in Nat /\ flight \in Procs \cup {0} /\ 0 \notin Procs
    BY AccountsAssumption DEF Types, TypeOK
<1>1. CASE Shutdown
  <2>1. /\ UNCHANGED <<proc, helper, guardian, owner, flight, sweeper, ended, nextLogin, expired, said, memo, models,
                       modelsLock, forgets, clears, probe, caller, plan, signedIn, losses, confirmed, nature, era, handed>>
        /\ main.pc = "up" /\ main' = [main EXCEPT !.pc = "draining"] /\ epoch' = epoch + 1
      BY <1>1 DEF Shutdown, procVars, memoVars, callVars, worldVars, historyVars
  <2>2. /\ main' \in [pc : {"up", "away", "draining", "stopping", "done"}, on : Procs \cup {0}]
        /\ main'.pc = "draining" /\ main'.on = main.on /\ main.on = 0
      BY <1>0, <2>1 DEF Logins, DownSince
  <2>3. Types'
    <3>1. epoch' \in Nat BY <1>0, <2>1
    <3>2. TypeOK' BY <2>1, <2>2, <3>1 DEF Types, TypeOK, ProcTypeOK
    <3> QED BY <2>1, <3>2 DEF Types
  <2>4. Reaped' BY <2>1 DEF Logins, Reaped
  <2>5. OwnLogins' /\ Unknown' /\ Reasons' /\ Running' /\ Kept'
    <3>1. UNCHANGED <<nextLogin, handed, caller>> /\ flight' = flight /\ ended \subseteq ended' BY <2>1
    <3>2. \A q \in Procs : Runs(q) => Runs(q)' BY <2>1 DEF Runs
    <3> QED BY <3>1, <3>2, FlightEnds
  <2>6. Tended'
    <3>1. \A q \in Procs : InHand(q) => InHand(q)' BY <2>1, <2>2 DEF InHand, Holds
    <3> QED BY <2>1, <3>1 DEF Logins, Tended
  <2>7. DownSince' BY <2>2 DEF DownSince
  <2> QED BY <2>3, <2>4, <2>5, <2>6, <2>7 DEF Logins
<1>2. CASE Drain
  <2>1. /\ UNCHANGED <<helper, guardian, owner, sweeper, epoch, nextLogin, expired, said, memo, models, modelsLock, forgets,
                       clears, probe, caller, plan, signedIn, losses, confirmed, nature, era, handed>>
        /\ main.pc = "draining" /\ main' = [pc |-> "stopping", on |-> flight] /\ flight' = 0
        /\ IF flight = 0 THEN UNCHANGED proc ELSE Stop(flight)
        /\ ended' = ended \cup ({flight} \ {0})
      BY <1>2 DEF Drain, sweepRest, memoVars, callVars, worldVars
  <2>2. /\ proc' \in [Procs -> ProcRec] /\ Reaped' /\ (\A q \in Procs : proc'[q].os = proc[q].os)
        /\ \A q \in Procs \ {flight} : proc'[q] = proc[q]
    <3>1. CASE flight = 0 BY <2>1, <3>1 DEF Logins, Reaped, Types, TypeOK, ProcTypeOK, ProcRec
    <3>2. CASE flight # 0
      <4>1. flight \in Procs /\ Stop(flight) BY <1>0, <2>1, <3>2
      <4> QED BY <4>1, StopIs DEF Logins, Types, TypeOK
    <3> QED BY <3>1, <3>2
  <2>3. \A q \in Procs : flight = q => q \in ended' BY <1>0, <2>1
  <2>4. \A q \in Procs : Runs(q) => Runs(q)' BY <2>1, <2>2, <2>3 DEF Runs
  <2>5. main'.on = flight /\ main'.pc = "stopping" /\ main.on = 0 BY <2>1 DEF Logins, DownSince
  <2>6. Types'
    <3>1. ProcTypeOK' BY <2>1, <2>2 DEF Types, TypeOK, ProcTypeOK, ProcRec
    <3>2. TypeOK' BY <1>0, <2>1, <3>1 DEF Types, TypeOK
    <3>3. ended' \subseteq Procs BY <1>0, <2>1 DEF Types
    <3> QED BY <2>1, <3>2, <3>3 DEF Types
  <2>7. OwnLogins' /\ Unknown' /\ Reasons' /\ Running' /\ Kept'
    <3>1. UNCHANGED <<nextLogin, handed, caller>> BY <2>1
    <3>2. flight' \in {0, flight} /\ (flight' # flight => flight \in ended') /\ ended \subseteq ended' BY <2>1
    <3> QED BY <2>4, <3>1, <3>2, FlightEnds
  <2>8. Tended'
    <3>1. \A q \in Procs : InHand(q) => InHand(q)' BY <1>0, <2>1, <2>5 DEF InHand, Holds
    <3> QED BY <2>2, <3>1 DEF Logins, Tended
  <2>9. DownSince' BY <2>1, <2>5 DEF Logins, DownSince
  <2> QED BY <2>2, <2>6, <2>7, <2>8, <2>9 DEF Logins
<1>3. CASE ShutDown
  <2>1. /\ UNCHANGED <<proc, helper, guardian, owner, flight, sweeper, ended, epoch, nextLogin, expired, said, memo, models,
                       modelsLock, forgets, clears, probe, caller, plan, signedIn, losses, confirmed, nature, era, handed>>
        /\ main.pc = "stopping" /\ main' = [pc |-> "done", on |-> 0] /\ (main.on # 0 => HasStopped(main.on))
      BY <1>3 DEF ShutDown, sweepRest, memoVars, callVars, worldVars, procVars
  <2>2. Types'
    <3>1. TypeOK' BY <1>0, <2>1 DEF Types, TypeOK, ProcTypeOK
    <3> QED BY <2>1, <3>1 DEF Types
  <2>3. Reaped' BY <2>1 DEF Logins, Reaped
  <2>4. OwnLogins' /\ Unknown' /\ Reasons' /\ Running' /\ Kept'
    <3>1. UNCHANGED <<nextLogin, handed, caller>> /\ flight' = flight /\ ended \subseteq ended' BY <2>1
    <3>2. \A q \in Procs : Runs(q) => Runs(q)' BY <2>1 DEF Runs
    <3> QED BY <3>1, <3>2, FlightEnds
  <2>5. Tended'
    <3>1. \A q \in Procs : main.on = q => proc[q].os # "up" BY <1>0, <2>1 DEF HasStopped, Logins, Reaped, Sound
    <3> QED BY <2>1, <3>1 DEF Logins, Tended, InHand, Holds
  <2>6. DownSince' BY <2>1 DEF Logins, DownSince
  <2> QED BY <2>2, <2>3, <2>4, <2>5, <2>6 DEF Logins
<1> QED BY <1>1, <1>2, <1>3

\* The callback of a login that is over takes it out of flight, and no other.
LEMMA ExitCallbackLogins ==
    ASSUME Types, Logins, NEW p \in Procs, ExitCallback(p)
    PROVE  Types' /\ Logins'
<1> DEFINE drops(q) == flight # 0 /\ flight' = 0 /\ q = flight /\ ~Held(q)
<1>0. proc \in [Procs -> ProcRec] /\ flight \in Procs \cup {0} /\ 0 \notin Procs
    BY AccountsAssumption DEF Types, TypeOK, ProcTypeOK, ProcRec
<1>1. /\ UNCHANGED <<helper, owner, sweeper, main, ended, epoch, nextLogin, expired, said, memo, models,
                     modelsLock, forgets, clears, probe, caller, plan, signedIn, losses, confirmed, nature, era, handed>>
      /\ proc[p].reaper = "calling" /\ flight' = Untracked(p)
    BY DEF ExitCallback, OnExit, sweepRest, memoVars, callVars, worldVars
<1>2. /\ proc' = [q \in Procs |-> [IF drops(q) THEN Dropped(q) ELSE proc[q]
                                   EXCEPT !.reaper = IF q = p THEN "done" ELSE @]]
      /\ guardian' = [q \in Procs |-> IF drops(q) /\ guardian[q] = "watching" THEN "eof" ELSE guardian[q]]
    BY DEF ExitCallback
<1>3. proc[p].os # "up" BY <1>1 DEF Logins, Reaped, Sound
<1>4. flight' \in {0, flight} /\ (flight' # flight => flight = p /\ p \in ended)
  <2>1. flight' \in {0, flight} /\ (flight' # flight => flight = p) BY <1>1 DEF Untracked
  <2>2. flight = p => p \in ended BY <1>0, <1>3 DEF Logins, Running, Runs
  <2> QED BY <2>1, <2>2
<1>5. \A q \in Procs : drops(q) => q = p BY <1>0, <1>4
<1>6. \A q \in Procs : /\ proc'[q] \in ProcRec /\ proc'[q].os = proc[q].os /\ proc'[q].stop = proc[q].stop
                       /\ proc'[q].running = proc[q].running /\ (q # p => proc'[q] = proc[q])
  <2> HIDE DEF drops
  <2> SUFFICES ASSUME NEW q \in Procs
               PROVE  /\ proc'[q] \in ProcRec /\ proc'[q].os = proc[q].os /\ proc'[q].stop = proc[q].stop
                      /\ proc'[q].running = proc[q].running /\ (q # p => proc'[q] = proc[q])
      OBVIOUS
  <2>1. proc[q] \in ProcRec BY <1>0
  <2>2. CASE q # p
    <3>1. proc'[q] = [proc[q] EXCEPT !.reaper = proc[q].reaper] BY <1>2, <1>5, <2>2
    <3>2. proc'[q] = proc[q] BY <2>1, <3>1 DEF ProcRec
    <3> QED BY <2>1, <2>2, <3>2
  <2>3. CASE q = p
    <3>1. CASE drops(q)
      <4>1. proc'[q] = [Dropped(q) EXCEPT !.reaper = "done"] BY <1>2, <2>3, <3>1
      <4>2. Dropped(q) = [proc[q] EXCEPT !.gate = FALSE, !.stdin = FALSE] BY <1>3, <2>1, <2>3 DEF Dropped, ProcRec
      <4>3. proc'[q] = [proc[q] EXCEPT !.gate = FALSE, !.stdin = FALSE, !.reaper = "done"]
          BY <2>1, <4>1, <4>2 DEF ProcRec
      <4> QED BY <2>1, <2>3, <4>3 DEF ProcRec
    <3>2. CASE ~drops(q)
      <4>1. proc'[q] = [proc[q] EXCEPT !.reaper = "done"] BY <1>2, <2>3, <3>2
      <4> QED BY <2>1, <2>3, <4>1 DEF ProcRec
    <3> QED BY <3>1, <3>2
  <2> QED BY <2>2, <2>3
<1> HIDE DEF drops
<1>7. Reaped'
  <2>1. proc'[p].os # "up" BY <1>3, <1>6
  <2>2. Sound(proc'[p]) BY <2>1 DEF Sound
  <2> QED BY <1>6, <2>2 DEF Logins, Reaped
<1>8. Types'
  <2>1. proc' \in [Procs -> ProcRec] BY <1>2, <1>6
  <2>2. guardian' \in [Procs -> {"none", "watching", "eof", "gone"}] BY <1>2 DEF Types, TypeOK, ProcTypeOK
  <2>3. ProcTypeOK' BY <1>1, <2>1, <2>2 DEF Types, TypeOK, ProcTypeOK, ProcRec
  <2>4. TypeOK' BY <1>0, <1>1, <1>4, <2>3 DEF Types, TypeOK
  <2> QED BY <1>1, <2>4 DEF Types
<1>9. OwnLogins' /\ Unknown' /\ Reasons' /\ Running' /\ Kept'
  <2>1. UNCHANGED <<nextLogin, handed, caller>> /\ ended' = ended BY <1>1
  <2>2. \A q \in Procs : Runs(q) => Runs(q)' BY <1>1, <1>6 DEF Runs
  <2> QED BY <1>4, <2>1, <2>2, FlightEnds
<1>10. Tended'
  <2>1. \A q \in Procs : InHand(q) /\ q # p => InHand(q)' BY <1>1, <1>4 DEF InHand, Holds
  <2> QED BY <1>3, <1>6, <2>1 DEF Logins, Tended
<1>11. DownSince' BY <1>1, <1>4 DEF Logins, DownSince
<1> QED BY <1>7, <1>8, <1>9, <1>10, <1>11 DEF Logins

\* Processes, CLIs, the user and time: no login changes hands.
LEMMA OutsideLogins ==
    ASSUME Types, Logins, World \/ \E p \in Procs : Process(p)
    PROVE  Types' /\ Logins'
<1>0. Reaped /\ ProcTypeOK BY DEF Logins, Types, TypeOK
<1>1. CASE \E p \in Procs : Process(p)
  <2>1. PICK p \in Procs : Process(p) BY <1>1
  <2>2. /\ UNCHANGED <<flight, epoch, nextLogin, expired, said, sweeper, main, memo, models, modelsLock, forgets, clears,
                       probe, caller, plan, signedIn, losses, confirmed, nature, era, handed, ended>>
        /\ Stopping(p) \/ Noticed(p) \/ ExitCall(p)
      BY <2>1 DEF Process, loginVars, memoVars, callVars, worldVars, historyVars
  <2>4. proc[p].os # "up" \/ proc[p].stop # "no"
    <3>1. SUFFICES ASSUME proc[p].os = "up", proc[p].stop = "no" PROVE FALSE OBVIOUS
    <3>2. proc[p].reaper = "wait" BY <1>0, <3>1 DEF Reaped, Sound
    <3> QED BY <2>2, <3>1, <3>2 DEF Stopping, StopTerm, StopKill, StopClose, StopDone, Noticed, ExitCall
  <2>5. /\ ProcTypeOK' /\ Reaped'
        /\ \A q \in Procs : proc'[q].os = "up" => proc[q].os = "up"
        /\ \A q \in Procs \ {p} : proc'[q] = proc[q]
      BY <1>0, <2>2, ProcessMoves
  <2>6. \A q \in Procs : Runs(q) => Runs(q)' BY <2>2, <2>4, <2>5 DEF Runs
  <2>7. Types'
    <3>1. TypeOK' BY <2>2, <2>5 DEF Types, TypeOK
    <3> QED BY <2>2, <3>1 DEF Types
  <2>8. LoginsRest /\ (\A c \in Callers : SamePlace(c)) /\ ended \subseteq ended' BY <2>2 DEF LoginsRest, SamePlace
  <2> QED BY <2>5, <2>6, <2>7, <2>8, LoginsKeep
<1>2. ASSUME NEW p \in Procs, Prints(p) \/ Expires(p)
      PROVE  Types' /\ Logins'
  <2>1. /\ UNCHANGED <<proc, helper, guardian, owner, flight, epoch, nextLogin, sweeper, main, memo, models, modelsLock,
                       forgets, clears, probe, caller, plan, signedIn, losses, confirmed, nature, era, handed, ended>>
        /\ expired' \in {expired, expired \cup {p}} /\ said' \in {said, said \cup {p}}
      BY <1>2 DEF Prints, Expires, outsideRest, procVars, memoVars, worldVars
  <2>2. Types'
    <3>1. TypeOK' BY <2>1 DEF Types, TypeOK, ProcTypeOK
    <3> QED BY <2>1, <3>1 DEF Types
  <2>3. Logins' BY <2>1, AsksLogins
  <2> QED BY <2>2, <2>3
<1>3. ASSUME NEW p \in Procs, Leaves(p)
      PROVE  Types' /\ Logins'
  <2>1. /\ UNCHANGED <<flight, epoch, nextLogin, expired, said, sweeper, main, memo, models, modelsLock, forgets, clears,
                       probe, caller, plan, losses, confirmed, nature, era, handed>>
        /\ ended' = ended \cup {p} /\ Die(p) /\ signedIn' \in {signedIn, TRUE}
      BY <1>3 DEF Leaves, outsideRest, memoVars
  <2>2. /\ ProcTypeOK' /\ Reaped'
        /\ \A q \in Procs : proc'[q].os = "up" => proc[q].os = "up"
        /\ \A q \in Procs \ {p} : proc'[q] = proc[q]
      BY <1>0, <2>1, ProcessMoves
  <2>3. \A q \in Procs : Runs(q) => Runs(q)' BY <2>1, <2>2 DEF Runs
  <2>4. Types'
    <3>0. signedIn' \in BOOLEAN BY <2>1 DEF Types, TypeOK
    <3>1. TypeOK' BY <2>1, <2>2, <3>0 DEF Types, TypeOK
    <3>2. ended' \subseteq Procs BY <2>1 DEF Types
    <3> QED BY <2>1, <3>1, <3>2 DEF Types
  <2>5. LoginsRest /\ (\A c \in Callers : SamePlace(c)) /\ ended \subseteq ended' BY <2>1 DEF LoginsRest, SamePlace
  <2> QED BY <2>2, <2>3, <2>4, <2>5, LoginsKeep
<1>4. ASSUME NEW c \in Callers, Answers(c) \/ Drained(c)
      PROVE  Types' /\ Logins'
  <2>1. UNCHANGED <<proc, helper, guardian, owner, flight, epoch, nextLogin, expired, said, sweeper, main, memo, models,
                    modelsLock, forgets, clears, caller, plan, signedIn, losses, confirmed, nature, era, handed, ended>>
      BY <1>4 DEF Answers, Drained, askRest, procVars, loginVars, memoVars, worldVars, historyVars
  <2>2. probe' \in [Callers -> ProbeRec]
    <3>1. probe \in [Callers -> ProbeRec] /\ probe[c] \in ProbeRec BY DEF Types
    <3>2. CASE Answers(c)
      <4> DEFINE r == [probe[c] EXCEPT !.os = "gone", !.says = IF signedIn THEN "yes" ELSE "no"]
      <4>1. r \in ProbeRec BY <3>1 DEF ProbeRec
      <4>2. probe' = [probe EXCEPT ![c] = r] BY <3>1, <3>2 DEF Answers, ProbeRec
      <4> QED BY <3>1, <4>1, <4>2
    <3>3. CASE Drained(c)
      <4> DEFINE r == [probe[c] EXCEPT !.held = FALSE]
      <4>1. r \in ProbeRec BY <3>1 DEF ProbeRec
      <4>2. probe' = [probe EXCEPT ![c] = r] BY <3>1, <3>3 DEF Drained, ProbeRec
      <4> QED BY <3>1, <4>1, <4>2
    <3> QED BY <1>4, <3>2, <3>3
  <2>3. Types'
    <3>1. TypeOK' BY <2>1 DEF Types, TypeOK, ProcTypeOK
    <3> QED BY <2>1, <2>2, <3>1 DEF Types
  <2>4. Logins' BY <2>1, AsksLogins
  <2> QED BY <2>3, <2>4
<1>5. CASE SignsOut
  <2>1. /\ UNCHANGED <<proc, helper, guardian, owner, flight, epoch, nextLogin, expired, said, sweeper, main, memo, models,
                       modelsLock, forgets, clears, probe, plan, nature, era, handed, ended>>
        /\ signedIn' = FALSE /\ confirmed' = FALSE
        /\ caller' = [c \in Callers |-> [caller[c] EXCEPT !.was = FALSE]]
      BY <1>5 DEF SignsOut, outsideRest, procVars, memoVars
  <2>2. \A c \in Callers : /\ caller'[c] \in CallRec /\ caller'[c].pc = caller[c].pc
                           /\ caller'[c].on = caller[c].on /\ caller'[c].old = caller[c].old
    <3> TAKE c \in Callers
    <3>1. caller[c] \in CallRec BY DEF Types
    <3>2. caller'[c] = [caller[c] EXCEPT !.was = FALSE] BY <2>1
    <3> QED BY <3>1, <3>2 DEF CallRec
  <2>3. Types'
    <3>0. signedIn' \in BOOLEAN /\ ProcTypeOK' BY <1>0, <2>1 DEF ProcTypeOK
    <3>1. TypeOK' BY <2>1, <3>0 DEF Types, TypeOK
    <3>2. caller' \in [Callers -> CallRec] BY <2>1, <2>2
    <3> QED BY <2>1, <3>1, <3>2 DEF Types
  <2>4. LoginsRest /\ (\A c \in Callers : SamePlace(c)) BY <2>1, <2>2 DEF LoginsRest, SamePlace
  <2>5. Reaped' /\ ended \subseteq ended' BY <1>0, <2>1 DEF Reaped
  <2>6. \A q \in Procs : proc'[q].os = "up" => proc[q].os = "up" BY <2>1
  <2>7. \A q \in Procs : Runs(q) => Runs(q)' BY <2>1 DEF Runs
  <2> QED BY <2>3, <2>4, <2>5, <2>6, <2>7, LoginsKeep
<1>6. CASE MemoAges
  <2>1. UNCHANGED <<proc, helper, guardian, owner, flight, epoch, nextLogin, expired, said, sweeper, main, models,
                    modelsLock, forgets, clears, probe, caller, plan, signedIn, losses, confirmed, nature, era, handed, ended>>
      BY <1>6 DEF MemoAges, askRest, procVars, loginVars, worldVars, historyVars, callVars
  <2>2. memo' \in [says : {"none", "yes", "no"}, raced : BOOLEAN, blip : BOOLEAN] BY <1>6 DEF MemoAges, NoMemo
  <2>3. Types'
    <3>1. TypeOK' BY <2>1, <2>2, AskerTypes DEF Types, TypeOK
    <3> QED BY <2>1, <3>1 DEF Types
  <2>4. Logins' BY <2>1, AsksLogins
  <2> QED BY <2>3, <2>4
<1> QED BY <1>1, <1>2, <1>3, <1>4, <1>5, <1>6 DEF World

-----------------------------------------------------------------------------
(* The logins keep their invariant. *)

\* The initial states.
LEMMA InitLogins == Init => Types /\ Logins
<1> SUFFICES ASSUME Init PROVE Types /\ Logins OBVIOUS
<1>1. \A p \in Procs : proc[p] = NoProc BY DEF Init
<1>2. caller = [c \in Callers |-> Idle] BY DEF Init
<1>3. main \in [pc : {"up", "away", "draining", "stopping", "done"}, on : Procs \cup {0}] /\ main.on = 0
      /\ main.pc \in {"up", "away"}
    BY DEF Init
<1>4. plan \in [Callers -> Seq(AccountOps)] /\ signedIn \in BOOLEAN BY AccountsAssumption DEF Init
<1>5. ProcTypeOK BY <1>1 DEF Init, ProcTypeOK, NoProc
<1>6. TypeOK BY <1>3, <1>4, <1>5 DEF Init, TypeOK, NoMemo, NoModels
<1>7. probe \in [Callers -> ProbeRec] /\ models \in [says : {"none", "yes", "no"}, since : Nat]
    BY DEF Init, NoProbe, NoModels, ProbeRec
<1>8. Types BY <1>2, <1>6, <1>7, IdleType DEF Init, Types
<1>9. \A c \in Callers : caller[c].pc = "idle" BY <1>2 DEF Idle
<1>10. Reaped
  <2>1. Sound(NoProc) BY DEF Sound, NoProc
  <2> QED BY <1>1, <2>1 DEF Reaped
<1>11. OwnLogins /\ Unknown /\ Reasons
  <2>1. flight < nextLogin /\ handed = {} BY DEF Init
  <2>2. OwnLogins BY <1>9, <2>1 DEF OwnLogins, Fresher, Beginning
  <2> QED BY <1>9, <2>2 DEF Unknown, Reasons, Replacing, Completing
<1>12. Running /\ Kept BY <1>9 DEF Init, Running, Kept, LoginKept, Coming
<1>13. Tended BY <1>1 DEF Tended, NoProc
<1>14. DownSince BY <1>3 DEF DownSince
<1> QED BY <1>8, <1>10, <1>11, <1>12, <1>13, <1>14 DEF Logins

\* A step that changes nothing.
LEMMA StutterLogins ==
    ASSUME Types, Logins, UNCHANGED vars
    PROVE  Types' /\ Logins'
<1>1. UNCHANGED <<proc, helper, guardian, owner, flight, epoch, nextLogin, expired, said, sweeper, main, memo, models,
                  modelsLock, forgets, clears, probe, caller, plan, signedIn, losses, confirmed, nature, era, handed, ended>>
    BY DEF vars, procVars, loginVars, memoVars, callVars, worldVars, historyVars
<1>2. TypeOK' BY <1>1 DEF Types, TypeOK, ProcTypeOK
<1>3. Types' BY <1>1, <1>2 DEF Types
<1>4. Logins' BY <1>1, AsksLogins
<1> QED BY <1>3, <1>4

\* Every step.
LEMMA NextLogins ==
    ASSUME Types, Logins, [Next]_vars
    PROVE  Types' /\ Logins'
<1>1. ASSUME NEW c \in Callers, Call(c) PROVE Types' /\ Logins'
  <2>1. CASE Begin(c) BY <2>1, BeginLogins
  <2>2. CASE Finish(c)
      BY <2>2, FinishAuthLogins, SettledLogins, CompletedLogins, ForgettingLogins DEF Finish
  <2>3. CASE Asking(c) BY <2>3, AskingLogins
  <2> QED BY <1>1, <2>1, <2>2, <2>3 DEF Call
<1>2. CASE Daemon
    BY <1>2, SweepLogins, SweptLogins, ShutdownLogins, ExitCallbackLogins DEF Daemon
<1>3. CASE World \/ \E p \in Procs : Process(p) BY <1>3, OutsideLogins
<1>4. CASE UNCHANGED vars BY <1>4, StutterLogins
<1> QED BY <1>1, <1>2, <1>3, <1>4 DEF Next

-----------------------------------------------------------------------------
(* What is remembered. *)

\* Who is sure knows that the user is signed in.
LEMMA SureSignedIn ==
    ASSUME Memory, Sure
    PROVE  signedIn
BY DEF Memory, Asker, Sure, Knows

\* A step that asks nothing, forgets nothing and remembers nothing.
Aside(c) == \/ caller'[c] = caller[c]
            \/ /\ caller[c].pc \notin AskPlaces /\ caller'[c].pc \notin AskPlaces
               /\ caller'[c].was => signedIn'
               /\ caller'[c].since = 0 \/ caller'[c].since = caller[c].since
               /\ caller'[c].op # "auth_status"

\* Such a step keeps what is remembered.
LEMMA MemoKeeps ==
    ASSUME Types, Stock, Memory, UNCHANGED <<memo, models, modelsLock, forgets, clears, probe, confirmed>>,
           signedIn => signedIn', \A c \in Callers : Aside(c)
    PROVE  Stock' /\ Memory'
<1>0. 0 <= forgets
  <2>1. forgets \in Nat BY DEF Types
  <2> QED BY <2>1
<1> USE DEF Aside, AskPlaces
<1>1. Stock' BY DEF Stock, ModelsFresh
<1>2. \A c \in Callers : Asker(c)'
  <2> SUFFICES ASSUME NEW c \in Callers PROVE Asker(c)' OBVIOUS
  <2>2. Asker(c) /\ Aside(c) BY DEF Memory
  <2>3. caller'[c].since <= forgets' BY <1>0, <2>2 DEF Asker
  <2>4. caller'[c].was => signedIn' BY <2>2 DEF Asker
  <2>5. /\ caller'[c].op = "auth_status" => caller'[c].pc \in {"probe", "probing", "insert"}
        /\ caller'[c].pc = "insert" => caller'[c].op = "auth_status"
      BY <2>2 DEF Asker
  <2> QED BY <2>3, <2>4, <2>5 DEF Asker
<1>3. Sure' => Sure BY DEF Sure, Knows
<1>4. \A c \in Callers : Hears(c) => Hears(c)' BY DEF Hears
<1> HIDE DEF Aside, AskPlaces
<1>5. confirmed' => signedIn' BY DEF Memory
<1>6. Sure' => (memo'.says = "no" => memo'.raced \/ memo'.blip) /\ \A c \in Callers : Hears(c)'
    BY <1>3, <1>4 DEF Memory
<1> QED BY <1>1, <1>2, <1>5, <1>6 DEF Memory

\* One caller moves on; it is at most as sure as it was.
LEMMA AskerKeeps ==
    ASSUME Types, Stock, Memory, NEW c \in Callers, NEW r \in CallRec,
           caller' = [caller EXCEPT ![c] = r],
           r.was => caller[c].was, r.since <= forgets,
           r.op = "auth_status" => r.pc \in {"probe", "probing", "insert"},
           r.pc = "insert" => r.op = "auth_status",
           r.op = "finish_auth" /\ r.was /\ r.pc \in {"forget models", "probe", "probing"} => Sure,
           confirmed' => Sure, UNCHANGED <<forgets, signedIn>>,
           \A d \in Callers \ {c} : probe'[d] = probe[d],
           Sure /\ Sure' => (memo'.says = "no" => memo'.raced \/ memo'.blip) /\ Hears(c)'
    PROVE  Memory'
<1>1. caller'[c] = r /\ \A d \in Callers \ {c} : caller'[d] = caller[d] BY CallType DEF Types
<1>2. \A d \in Callers : Asker(d)'
  <2>1. \A d \in Callers : Asker(d) BY DEF Memory
  <2>2. Asker(c)' BY <1>1, <2>1 DEF Asker
  <2>3. ASSUME NEW d \in Callers \ {c} PROVE Asker(d)'
    <3>1. Asker(d) /\ caller'[d] = caller[d] BY <1>1, <2>1
    <3> QED BY <3>1 DEF Asker
  <2> QED BY <2>2, <2>3
<1>3. Sure' => Sure BY <1>1 DEF Sure, Knows
<1>4. confirmed' => signedIn' BY SureSignedIn
<1>5. \A d \in Callers \ {c} : Hears(d) => Hears(d)' BY <1>1 DEF Hears
<1>6. Sure' => \A d \in Callers : Hears(d)' BY <1>3, <1>5 DEF Memory
<1> QED BY <1>2, <1>3, <1>4, <1>6 DEF Memory

\* MEMO is cleared: whoever is asking has asked before.
LEMMA ForgetMemoKeeps ==
    ASSUME Types, Stock, Memory, NEW c \in Callers, ForgetMemo(c)
    PROVE  Stock' /\ Memory'
<1>0. caller \in [Callers -> CallRec] /\ caller[c] \in CallRec /\ forgets \in Nat BY DEF Types
<1>1. /\ caller[c].pc = "forget" /\ memo' = NoMemo /\ forgets' = forgets + 1
      /\ UNCHANGED <<models, modelsLock, clears, probe, signedIn, confirmed>>
    BY DEF ForgetMemo, At, askRest, worldVars
<1>2. /\ caller'[c].pc = "forget models" /\ caller'[c].was = caller[c].was /\ caller'[c].op = caller[c].op
      /\ caller'[c].since = caller[c].since /\ \A d \in Callers \ {c} : caller'[d] = caller[d]
    BY <1>0 DEF ForgetMemo, Goto, CallRec
<1>3. Stock' BY <1>1, <1>2 DEF Stock, ModelsFresh
<1>4. \A d \in Callers : caller'[d].since \in Nat /\ caller'[d].since < forgets'
  <2>1. \A d \in Callers : caller'[d].since \in Nat /\ caller'[d].since <= forgets
      BY <1>0, <1>2 DEF Memory, Asker, CallRec
  <2> QED BY <1>0, <1>1, <2>1
<1>5. \A d \in Callers : Hears(d)' BY <1>4 DEF Hears
<1>6. \A d \in Callers : Asker(d)'
  <2>1. \A d \in Callers : caller'[d].since <= forgets' BY <1>0, <1>1, <1>4
  <2>2. \A d \in Callers : Asker(d) BY DEF Memory
  <2> QED BY <1>1, <1>2, <2>1, <2>2 DEF Asker
<1>7. memo'.says # "no" BY <1>1 DEF NoMemo
<1>8. confirmed' => signedIn' BY <1>1 DEF Memory
<1> QED BY <1>3, <1>5, <1>6, <1>7, <1>8 DEF Memory

\* MODELS is cleared, while nobody probes.
LEMMA ForgetModelsKeeps ==
    ASSUME Types, Stock, Memory, NEW c \in Callers, ForgetModels(c)
    PROVE  Stock' /\ Memory'
<1>0. caller \in [Callers -> CallRec] /\ caller[c] \in CallRec /\ forgets \in Nat BY DEF Types
<1>1. /\ caller[c].pc = "forget models" /\ modelsLock = "nobody" /\ models' = NoModels
      /\ UNCHANGED <<memo, modelsLock, forgets, probe, signedIn, confirmed>>
    BY DEF ForgetModels, At, askRest, worldVars
<1> DEFINE r == IF caller[c].op = "forget" THEN Idle ELSE [caller[c] EXCEPT !.pc = "probe"]
<1>2. caller' = [caller EXCEPT ![c] = r] BY <1>0 DEF ForgetModels, Goto, Return
<1>3. r \in CallRec /\ r.pc \in {"idle", "probe"} /\ (r.was => caller[c].was) /\ (r.pc = "probe" => r.op = caller[c].op)
      /\ (r.pc = "idle" => ~r.was) /\ r.op \in {"none", caller[c].op} /\ r.since \in {0, caller[c].since}
    BY <1>0, IdleType DEF CallRec, Places, AskPlaces, Idle
<1> HIDE DEF r
<1>4. caller'[c] = r /\ \A d \in Callers \ {c} : caller'[d] = caller[d] BY <1>0, <1>2, <1>3, CallType
<1>5. Stock'
  <2>1. \A d \in Callers : caller'[d].pc # "probing"
      BY <1>1, <1>3, <1>4, AccountsAssumption DEF Stock
  <2> QED BY <1>1, <2>1 DEF Stock, ModelsFresh, NoModels
<1>6. caller[c].op # "auth_status" BY <1>1 DEF Memory, Asker
<1>7. r.since <= forgets BY <1>0, <1>3 DEF Memory, Asker
<1>8. r.op = "finish_auth" /\ r.was /\ r.pc \in {"forget models", "probe", "probing"} => Sure
    BY <1>1, <1>3 DEF Sure, Knows
<1>9. confirmed' => Sure BY <1>1 DEF Sure
<1>10. Hears(c)' BY <1>3, <1>4, <1>6 DEF Hears
<1>11. Memory'
    BY <1>1, <1>2, <1>3, <1>6, <1>7, <1>8, <1>9, <1>10, AskerKeeps DEF Memory
<1> QED BY <1>5, <1>11

\* auth_status and models start to ask, with what is forgotten by then.
LEMMA StartsKeeps ==
    ASSUME Types, Stock, Memory, NEW c \in Callers, AuthStatus(c) \/ Models(c)
    PROVE  Stock' /\ Memory'
<1>0. caller \in [Callers -> CallRec] /\ caller[c] \in CallRec /\ forgets \in Nat BY DEF Types
<1>1. /\ caller[c].pc = "idle"
      /\ UNCHANGED <<memo, models, modelsLock, forgets, clears, probe, signedIn, confirmed>>
    BY DEF AuthStatus, Models, Asks, At, askRest, worldVars, memoVars
<1>2. PICK r \in CallRec :
          /\ caller' = [caller EXCEPT ![c] = r]
          /\ r = caller[c] \/ (r.pc = "probe" /\ ~r.was /\ r.since \in {0, forgets})
  <2>1. CASE AuthStatus(c) /\ memo.says # "none" BY <1>0, <2>1 DEF AuthStatus
  <2>2. CASE AuthStatus(c) /\ memo.says = "none"
    <3> DEFINE r == [Idle EXCEPT !.pc = "probe", !.op = "auth_status", !.since = forgets]
    <3>1. r \in CallRec /\ r.pc = "probe" /\ ~r.was /\ r.since \in {0, forgets}
        BY <1>0 DEF CallRec, Places, AskPlaces, Idle
    <3>2. caller' = [caller EXCEPT ![c] = r] BY <2>2 DEF AuthStatus
    <3> QED BY <3>1, <3>2
  <2>3. CASE Models(c)
    <3> DEFINE r == [Idle EXCEPT !.pc = "probe", !.op = "models"]
    <3>1. r \in CallRec /\ r.pc = "probe" /\ ~r.was /\ r.since \in {0, forgets}
        BY <1>0 DEF CallRec, Places, AskPlaces, Idle
    <3>2. caller' = [caller EXCEPT ![c] = r] BY <2>3 DEF Models
    <3> QED BY <3>1, <3>2
  <2> QED BY <2>1, <2>2, <2>3
<1>3. caller'[c] = r /\ \A d \in Callers \ {c} : caller'[d] = caller[d] BY <1>0, <1>2, CallType
<1>4. Stock'
  <2>1. \A d \in Callers : caller'[d].pc = "probing" => d # c BY <1>1, <1>2, <1>3
  <2> QED BY <1>1, <1>3, <2>1 DEF Stock, ModelsFresh
<1>5. Asker(c) /\ caller[c].op # "auth_status" BY <1>1 DEF Memory, Asker
<1>6. r.since <= forgets
  <2>1. 0 <= forgets /\ forgets <= forgets BY <1>0
  <2> QED BY <1>2, <1>5, <2>1 DEF Asker
<1>7. Hears(c)' BY <1>1, <1>2, <1>3, <1>5 DEF Hears
<1>8. /\ r.op = "auth_status" => r.pc \in {"probe", "probing", "insert"}
      /\ r.pc = "insert" => r.op = "auth_status"
      /\ r.was => caller[c].was
      /\ ~(r.op = "finish_auth" /\ r.was /\ r.pc \in {"forget models", "probe", "probing"})
    BY <1>1, <1>2, <1>5
<1>9. confirmed' => Sure BY <1>1 DEF Sure
<1>10. Memory' BY <1>1, <1>2, <1>6, <1>7, <1>8, <1>9, AskerKeeps DEF Memory
<1> QED BY <1>4, <1>10

\* The CLI is started with MODELS locked: nobody else probes.
LEMMA ProbeKeeps ==
    ASSUME Types, Stock, Memory, NEW c \in Callers, Probe(c)
    PROVE  Stock' /\ Memory'
<1>0. /\ caller \in [Callers -> CallRec] /\ caller[c] \in CallRec /\ forgets \in Nat /\ clears \in Nat
      /\ probe \in [Callers -> ProbeRec]
    BY DEF Types
<1>1. /\ caller[c].pc = "probe" /\ modelsLock = "nobody" /\ modelsLock' = c
      /\ probe' = [probe EXCEPT ![c] = [NoProbe EXCEPT !.os = "up", !.held = TRUE]]
      /\ UNCHANGED <<memo, models, forgets, clears, signedIn, confirmed>>
    BY DEF Probe, At, askRest, worldVars
<1> DEFINE r == [caller[c] EXCEPT !.pc = "probing", !.old = clears]
<1>2. caller' = [caller EXCEPT ![c] = r] BY <1>0 DEF Probe
<1>3. r \in CallRec /\ r.pc = "probing" /\ r.old = clears /\ r.was = caller[c].was /\ r.op = caller[c].op
      /\ r.since = caller[c].since
    BY <1>0 DEF CallRec, Places, AskPlaces
<1> HIDE DEF r
<1>4. caller'[c] = r /\ \A d \in Callers \ {c} : caller'[d] = caller[d] BY <1>0, <1>2, <1>3, CallType
<1>5. probe'[c].os = "up" /\ \A d \in Callers \ {c} : probe'[d] = probe[d]
    BY <1>0, <1>1 DEF NoProbe
<1>6. Stock'
  <2>1. \A d \in Callers : caller[d].pc # "probing" BY <1>1, AccountsAssumption DEF Stock
  <2>2. \A d \in Callers : caller'[d].pc = "probing" => d = c BY <1>4, <2>1
  <2> QED BY <1>1, <1>3, <1>4, <2>2 DEF Stock, ModelsFresh
<1>7. Hears(c)' BY <1>3, <1>4, <1>5 DEF Hears
<1>8. r.op = "finish_auth" /\ r.was /\ r.pc \in {"forget models", "probe", "probing"} => Sure
    BY <1>1, <1>3 DEF Sure, Knows
<1>9. confirmed' => Sure BY <1>1 DEF Sure
<1>10. r.since <= forgets BY <1>3 DEF Memory, Asker
<1>11. Memory' BY <1>1, <1>2, <1>3, <1>5, <1>7, <1>8, <1>9, <1>10, AskerKeeps DEF Memory
<1> QED BY <1>6, <1>11

\* models uses an inventory that is there.
LEMMA RememberedKeeps ==
    ASSUME Types, Stock, Memory, NEW c \in Callers, Remembered(c)
    PROVE  Stock' /\ Memory'
<1>0. caller \in [Callers -> CallRec] /\ forgets \in Nat BY DEF Types
<1>1. /\ caller' = [caller EXCEPT ![c] = Idle]
      /\ UNCHANGED <<memo, models, modelsLock, forgets, clears, probe, signedIn, confirmed>>
    BY DEF Remembered, Return, askRest, worldVars, memoVars
<1>2. /\ Idle \in CallRec /\ Idle.pc = "idle" /\ Idle.op = "none" /\ Idle.since = 0 /\ ~Idle.was
    BY IdleType DEF Idle
<1>3. caller'[c] = Idle /\ \A d \in Callers \ {c} : caller'[d] = caller[d] BY <1>0, <1>1, <1>2, CallType
<1>4. Stock' BY <1>1, <1>2, <1>3 DEF Stock, ModelsFresh
<1>5. Hears(c)' BY <1>2, <1>3 DEF Hears
<1>6. confirmed' => Sure BY <1>1 DEF Sure
<1>7. Idle.since <= forgets BY <1>0, <1>2
<1>8. Memory' BY <1>1, <1>2, <1>5, <1>6, <1>7, AskerKeeps DEF Memory
<1> QED BY <1>4, <1>8

\* The answer of the CLI, or none: who is sure and has asked since the last
\* forget hears "yes", or that the CLI could not be asked.
LEMMA SaysKeeps ==
    ASSUME Types, Stock, Memory, NEW c \in Callers, At(c, "probing"),
           NEW says \in {"yes", "no"}, NEW blip \in BOOLEAN, Says(c, says, blip),
           blip \/ (says = probe[c].says /\ probe[c].os = "gone")
    PROVE  Stock' /\ Memory'
<1>0. /\ caller \in [Callers -> CallRec] /\ caller[c] \in CallRec /\ forgets \in Nat /\ clears \in Nat
      /\ probe \in [Callers -> ProbeRec]
    BY DEF Types
<1>1. /\ caller[c].pc = "probing" /\ modelsLock' = "nobody" /\ models' = Inventory(c, says)
      /\ probe' = [probe EXCEPT ![c] = NoProbe]
      /\ confirmed' = (confirmed \/ (caller[c].op = "finish_auth" /\ says = "yes" /\ caller[c].was))
      /\ UNCHANGED <<memo, forgets, clears, signedIn>>
    BY DEF Says, At
<1> DEFINE r == IF caller[c].op = "auth_status"
                THEN [caller[c] EXCEPT !.pc = "insert", !.says = says, !.blip = blip, !.old = 0]
                ELSE Idle
<1>2. caller' = [caller EXCEPT ![c] = r] BY <1>0 DEF Says
<1>3. /\ r \in CallRec
      /\ \/ /\ caller[c].op = "auth_status" /\ r.op = "auth_status" /\ r.pc = "insert" /\ r.says = says /\ r.blip = blip
            /\ r.was = caller[c].was /\ r.since = caller[c].since
         \/ r.op = "none" /\ r.pc = "idle" /\ ~r.was /\ r.since = 0
  <2>1. CASE caller[c].op = "auth_status"
    <3>1. r = [caller[c] EXCEPT !.pc = "insert", !.says = says, !.blip = blip, !.old = 0] BY <2>1
    <3>2. r \in CallRec
      <4> HIDE DEF r
      <4>1. "insert" \in Places BY DEF Places, AskPlaces
      <4> QED BY <1>0, <3>1, <4>1 DEF CallRec
    <3>3. /\ r.op = "auth_status" /\ r.pc = "insert" /\ r.says = says /\ r.blip = blip
          /\ r.was = caller[c].was /\ r.since = caller[c].since
        BY <1>0, <2>1, <3>1 DEF CallRec
    <3> QED BY <2>1, <3>2, <3>3
  <2>2. CASE caller[c].op # "auth_status" BY <2>2, IdleType DEF Idle
  <2> QED BY <2>1, <2>2
<1> HIDE DEF r
<1>4. caller'[c] = r /\ \A d \in Callers \ {c} : caller'[d] = caller[d] BY <1>0, <1>2, <1>3, CallType
<1>5. Stock'
  <2>1. \A d \in Callers \ {c} : caller[d].pc # "probing" BY <1>1 DEF Stock
  <2>2. \A d \in Callers : caller'[d].pc # "probing" BY <1>3, <1>4, <2>1
  <2>3. models'.says # "none" => models'.since = clears
      BY <1>1 DEF Inventory, NoModels, Stock
  <2> QED BY <1>1, <2>2, <2>3 DEF Stock, ModelsFresh
<1>6. confirmed' => Sure BY <1>1 DEF Sure, Knows
<1>7. Asker(c) BY DEF Memory
<1>8. r.since <= forgets
  <2>1. 0 <= forgets BY <1>0
  <2> QED BY <1>3, <1>7, <2>1 DEF Asker
<1>9. Sure => Hears(c)'
  <2>1. SUFFICES ASSUME Sure, r.op = "auth_status", r.since = forgets PROVE r.says = "yes" \/ r.blip
      BY <1>1, <1>3, <1>4 DEF Hears
  <2>2. Hears(c) BY <2>1 DEF Memory
  <2> QED BY <1>1, <1>3, <2>1, <2>2 DEF Hears
<1>10. Sure => (memo'.says = "no" => memo'.raced \/ memo'.blip) BY <1>1 DEF Memory
<1>11. \A d \in Callers \ {c} : probe'[d] = probe[d] BY <1>0, <1>1
<1>12. Memory' BY <1>1, <1>2, <1>3, <1>6, <1>8, <1>9, <1>10, <1>11, AskerKeeps
<1> QED BY <1>5, <1>12

\* An answer is remembered.
LEMMA InsertKeeps ==
    ASSUME Types, Stock, Memory, NEW c \in Callers, Insert(c)
    PROVE  Stock' /\ Memory'
<1>0. caller \in [Callers -> CallRec] /\ caller[c] \in CallRec /\ forgets \in Nat BY DEF Types
<1>1. /\ caller[c].pc = "insert" /\ caller' = [caller EXCEPT ![c] = Idle]
      /\ memo' = [says |-> caller[c].says, raced |-> caller[c].since < forgets, blip |-> caller[c].blip]
      /\ UNCHANGED <<models, modelsLock, forgets, clears, probe, signedIn, confirmed>>
    BY DEF Insert, At, Return, askRest, worldVars
<1>2. /\ Idle \in CallRec /\ Idle.pc = "idle" /\ Idle.op = "none" /\ Idle.since = 0 /\ ~Idle.was
    BY IdleType DEF Idle
<1>3. caller'[c] = Idle /\ \A d \in Callers \ {c} : caller'[d] = caller[d] BY <1>0, <1>1, <1>2, CallType
<1>4. Stock' BY <1>1, <1>2, <1>3 DEF Stock, ModelsFresh
<1>5. Hears(c)' BY <1>2, <1>3 DEF Hears
<1>6. confirmed' => Sure BY <1>1 DEF Sure
<1>7. Idle.since <= forgets BY <1>0, <1>2
<1>8. Sure => (memo'.says = "no" => memo'.raced \/ memo'.blip)
  <2>1. caller[c].op = "auth_status" /\ caller[c].since <= forgets /\ caller[c].since \in Nat
      BY <1>0, <1>1 DEF Memory, Asker, CallRec
  <2>2. ~(caller[c].since < forgets) => caller[c].since = forgets BY <1>0, <2>1
  <2>3. Sure => Hears(c) BY DEF Memory
  <2> QED BY <1>1, <2>1, <2>2, <2>3 DEF Hears
<1>9. Memory' BY <1>1, <1>2, <1>5, <1>6, <1>7, <1>8, AskerKeeps
<1> QED BY <1>4, <1>9

\* The CLI answers as the user is signed in or not; what is remembered ages; the
\* user is signed out.
LEMMA OutsideKeeps ==
    ASSUME Types, Stock, Memory,
           (\E c \in Callers : Answers(c) \/ Drained(c)) \/ MemoAges \/ SignsOut
    PROVE  Stock' /\ Memory'
<1>1. ASSUME NEW c \in Callers, Answers(c) \/ Drained(c)
      PROVE  Stock' /\ Memory'
  <2>1. /\ UNCHANGED <<memo, models, modelsLock, forgets, clears, caller, signedIn, confirmed>>
        /\ \A d \in Callers : probe'[d].os # "gone" \/ probe'[d] = probe[d]
                              \/ (probe'[d].says = probe[d].says /\ probe[d].os = "gone")
                              \/ probe'[d].says = IF signedIn THEN "yes" ELSE "no"
    <3>1. UNCHANGED <<memo, models, modelsLock, forgets, clears, caller, signedIn, confirmed>>
        BY <1>1 DEF Answers, Drained, askRest, worldVars, memoVars
    <3>2. probe \in [Callers -> ProbeRec] BY DEF Types
    <3> QED BY <1>1, <3>1, <3>2 DEF Answers, Drained, ProbeRec
  <2>2. Stock' BY <2>1 DEF Stock, ModelsFresh
  <2>3. Sure' => Sure BY <2>1 DEF Sure, Knows
  <2>4. Sure => \A d \in Callers : Hears(d)'
    <3>1. Sure => signedIn /\ \A d \in Callers : Hears(d) BY SureSignedIn DEF Memory
    <3> QED BY <2>1, <3>1 DEF Hears
  <2>5. \A d \in Callers : Asker(d)' BY <2>1 DEF Memory, Asker
  <2> QED BY <2>1, <2>2, <2>3, <2>4, <2>5 DEF Memory
<1>2. CASE MemoAges
  <2>1. UNCHANGED <<models, modelsLock, forgets, clears, probe, caller, signedIn, confirmed>> /\ memo' = NoMemo
      BY <1>2 DEF MemoAges, askRest, worldVars, callVars
  <2>2. Stock' BY <2>1 DEF Stock, ModelsFresh
  <2>3. Sure' => Sure BY <2>1 DEF Sure, Knows
  <2>4. \A d \in Callers : (Hears(d) => Hears(d)') /\ (Asker(d) => Asker(d)') BY <2>1 DEF Hears, Asker
  <2>5. memo'.says # "no" BY <2>1 DEF NoMemo
  <2> QED BY <2>1, <2>2, <2>3, <2>4, <2>5 DEF Memory
<1>3. CASE SignsOut
  <2>1. /\ UNCHANGED <<memo, models, modelsLock, forgets, clears, probe>>
        /\ signedIn' = FALSE /\ confirmed' = FALSE
        /\ caller' = [c \in Callers |-> [caller[c] EXCEPT !.was = FALSE]]
      BY <1>3 DEF SignsOut, outsideRest, memoVars
  <2>2. \A c \in Callers : /\ ~caller'[c].was /\ caller'[c].pc = caller[c].pc /\ caller'[c].op = caller[c].op
                           /\ caller'[c].since = caller[c].since /\ caller'[c].old = caller[c].old
    <3>1. \A c \in Callers : caller[c] \in CallRec BY DEF Types
    <3> QED BY <2>1, <3>1 DEF CallRec
  <2>3. Stock' BY <2>1, <2>2 DEF Stock, ModelsFresh
  <2>4. ~Sure' BY <2>1, <2>2 DEF Sure, Knows
  <2>5. \A c \in Callers : Asker(c)'
    <3>1. \A c \in Callers : Asker(c) BY DEF Memory
    <3> QED BY <2>1, <2>2, <3>1 DEF Asker
  <2> QED BY <2>1, <2>3, <2>4, <2>5 DEF Memory
<1> QED BY <1>1, <1>2, <1>3

\* One caller moves on, aside from what is asked and remembered.
LEMMA CallerAside ==
    ASSUME Types, Memory, NEW c \in Callers, NEW r \in CallRec, caller' = [caller EXCEPT ![c] = r],
           caller[c].pc \notin AskPlaces, r.pc \notin AskPlaces, UNCHANGED signedIn,
           r.was => caller[c].was \/ signedIn, r.since \in {0, caller[c].since},
           r.op \in {"none", "finish_auth", "forget", caller[c].op}
    PROVE  \A d \in Callers : Aside(d)
<1>1. caller'[c] = r /\ \A d \in Callers \ {c} : caller'[d] = caller[d] BY CallType DEF Types
<1>2. Asker(c) BY DEF Memory
<1>3. caller[c].op # "auth_status" /\ (caller[c].was => signedIn) BY <1>2 DEF Asker, AskPlaces
<1> QED BY <1>1, <1>3 DEF Aside

\* Login::begin, Login::complete and the start of a forget.
LEMMA LoginCallsKeep ==
    ASSUME Types, Stock, Memory, NEW c \in Callers,
           Begin(c) \/ FinishAuth(c) \/ Settled(c) \/ Completed(c) \/ Forget(c)
    PROVE  Stock' /\ Memory'
<1>0. caller \in [Callers -> CallRec] /\ caller[c] \in CallRec /\ signedIn \in BOOLEAN /\ flight \in Procs \cup {0}
    BY DEF Types, TypeOK
<1>1. /\ UNCHANGED <<memo, models, modelsLock, forgets, clears, probe, confirmed, signedIn>>
      /\ caller[c].pc \notin AskPlaces
  <2>1. CASE Begin(c)
      BY <2>1 DEF Begin, StartAuth, Begun, Track, Tracked, Replaced, Url, NoUrl, GivenUp, Asks, At, AskPlaces,
                  beginRest, memoVars, worldVars
  <2>2. CASE FinishAuth(c) \/ Settled(c) \/ Completed(c)
      BY <2>2 DEF FinishAuth, Settled, Completed, Asks, At, AskPlaces, finishRest, memoVars, worldVars
  <2>3. CASE Forget(c)
      BY <2>3 DEF Forget, Asks, At, AskPlaces, askRest, memoVars, worldVars
  <2> QED BY <2>1, <2>2, <2>3
<1>2. ASSUME NEW r \in CallRec, caller' = [caller EXCEPT ![c] = r], r.pc \notin AskPlaces,
             r.was => caller[c].was \/ signedIn, r.since \in {0, caller[c].since},
             r.op \in {"none", "finish_auth", "forget", caller[c].op}
      PROVE  Stock' /\ Memory'
  <2>1. \A d \in Callers : Aside(d) BY <1>1, <1>2, CallerAside
  <2> QED BY <1>1, <2>1, MemoKeeps
<1>3. CASE Return(c)
  <2>1. Idle \in CallRec /\ Idle.pc \notin AskPlaces /\ ~Idle.was /\ Idle.since = 0 /\ Idle.op = "none"
      BY IdleType DEF Idle, AskPlaces
  <2>2. caller' = [caller EXCEPT ![c] = Idle] BY <1>3 DEF Return
  <2> QED BY <1>2, <2>1, <2>2
<1>4. ASSUME NEW place \in LoginPlaces, Goto(c, place)
      PROVE  Stock' /\ Memory'
  <2> DEFINE r == [caller[c] EXCEPT !.pc = place]
  <2>1. caller' = [caller EXCEPT ![c] = r] BY <1>0, <1>4 DEF Goto
  <2>2. /\ r \in CallRec /\ r.pc \notin AskPlaces /\ r.was = caller[c].was /\ r.since = caller[c].since
        /\ r.op = caller[c].op
      BY <1>0, <1>4 DEF CallRec, Places, LoginPlaces, Beginning, AskPlaces
  <2> HIDE DEF r
  <2> QED BY <1>2, <2>1, <2>2
<1>5. CASE StartAuth(c)
  <2> DEFINE r == [Idle EXCEPT !.pc = "begun", !.on = nextLogin]
  <2>1. caller' = [caller EXCEPT ![c] = r] BY <1>5 DEF StartAuth
  <2>2. r \in CallRec /\ r.pc \notin AskPlaces /\ ~r.was /\ r.since = 0 /\ r.op = "none"
      BY <1>5 DEF StartAuth, Idle, CallRec, Places, LoginPlaces, Beginning, AskPlaces
  <2> HIDE DEF r
  <2> QED BY <1>2, <2>1, <2>2
<1>6. CASE Track(c)
  <2>1. CASE Goto(c, "given up") BY <1>4, <2>1 DEF LoginPlaces, Beginning
  <2>2. CASE caller' = [caller EXCEPT ![c].pc = "tracked", ![c].old = flight]
    <3> DEFINE r == [caller[c] EXCEPT !.pc = "tracked", !.old = flight]
    <3>1. caller' = [caller EXCEPT ![c] = r] BY <1>0, <2>2
    <3>0. flight \in Nat
      <4>1. Procs \subseteq Nat BY AccountsAssumption
      <4> QED BY <1>0, <4>1
    <3>2. /\ r \in CallRec /\ r.pc \notin AskPlaces /\ r.was = caller[c].was /\ r.since = caller[c].since
          /\ r.op = caller[c].op
        BY <1>0, <3>0 DEF CallRec, Places, LoginPlaces, Beginning, AskPlaces
    <3> HIDE DEF r
    <3> QED BY <1>2, <3>1, <3>2
  <2> QED BY <1>6, <2>1, <2>2 DEF Track
<1>7. CASE FinishAuth(c)
  <2> DEFINE r == [Idle EXCEPT !.pc = IF flight = 0 THEN "forget" ELSE "settling",
                               !.op = "finish_auth", !.on = flight, !.was = signedIn]
  <2>1. caller' = [caller EXCEPT ![c] = r] BY <1>7 DEF FinishAuth
  <2>2. r \in CallRec /\ r.pc \notin AskPlaces /\ r.was = signedIn /\ r.since = 0 /\ r.op = "finish_auth"
    <3>1. \A place \in {"forget", "settling"} :
              LET q == [Idle EXCEPT !.pc = place, !.op = "finish_auth", !.on = flight, !.was = signedIn]
              IN  q \in CallRec /\ q.pc = place /\ q.was = signedIn /\ q.since = 0 /\ q.op = "finish_auth"
        BY <1>0 DEF Idle, CallRec, Places, LoginPlaces, Beginning
    <3>2. (IF flight = 0 THEN "forget" ELSE "settling") \in {"forget", "settling"} \ AskPlaces BY DEF AskPlaces
    <3> QED BY <3>1, <3>2
  <2> HIDE DEF r
  <2> QED BY <1>2, <2>1, <2>2
<1>8. CASE Completed(c)
  <2> DEFINE r == [caller[c] EXCEPT !.pc = "forget", !.was = signedIn]
  <2>1. caller' = [caller EXCEPT ![c] = r] BY <1>0, <1>8 DEF Completed
  <2>2. /\ r \in CallRec /\ r.pc \notin AskPlaces /\ r.was = signedIn /\ r.since = caller[c].since
        /\ r.op = caller[c].op
      BY <1>0 DEF CallRec, Places, AskPlaces
  <2> HIDE DEF r
  <2> QED BY <1>2, <2>1, <2>2
<1>9. CASE Forget(c)
  <2> DEFINE r == [Idle EXCEPT !.pc = "forget", !.op = "forget"]
  <2>1. caller' = [caller EXCEPT ![c] = r] BY <1>9 DEF Forget
  <2>2. r \in CallRec /\ r.pc \notin AskPlaces /\ ~r.was /\ r.since = 0 /\ r.op = "forget"
      BY DEF Idle, CallRec, Places, AskPlaces
  <2> HIDE DEF r
  <2> QED BY <1>2, <2>1, <2>2
<1>10. CASE Begun(c) \/ Tracked(c) \/ Replaced(c) \/ Url(c) \/ NoUrl(c) \/ GivenUp(c) \/ Settled(c)
  <2>1. Return(c) \/ \E place \in LoginPlaces : Goto(c, place)
      BY <1>10 DEF Begun, Tracked, Replaced, Url, NoUrl, GivenUp, Settled, LoginPlaces, Beginning
  <2> QED BY <1>3, <1>4, <2>1
<1> QED BY <1>5, <1>6, <1>7, <1>8, <1>9, <1>10 DEF Begin

\* The daemon, processes and what goes on outside.
LEMMA OthersKeep ==
    ASSUME Types, Stock, Memory,
           \/ Daemon \/ UNCHANGED vars
           \/ \E p \in Procs : Process(p) \/ Prints(p) \/ Expires(p) \/ Leaves(p)
    PROVE  Stock' /\ Memory'
<1>1. UNCHANGED <<memo, models, modelsLock, forgets, clears, probe, confirmed, caller>> /\ (signedIn => signedIn')
  <2>1. CASE Daemon
      BY <2>1 DEF Daemon, Sweep, Swept, Shutdown, Drain, ShutDown, ExitCallback, sweepRest, memoVars, callVars, worldVars
  <2>2. CASE UNCHANGED vars BY <2>2 DEF vars, memoVars, callVars, worldVars
  <2>3. CASE \E p \in Procs : Process(p) BY <2>3 DEF Process, memoVars, callVars, worldVars
  <2>4. CASE \E p \in Procs : Prints(p) \/ Expires(p) \/ Leaves(p)
      BY <2>4 DEF Prints, Expires, Leaves, outsideRest, memoVars, worldVars
  <2> QED BY <2>1, <2>2, <2>3, <2>4
<1>2. \A c \in Callers : Aside(c) BY <1>1 DEF Aside
<1> QED BY <1>1, <1>2, MemoKeeps

\* Every step.
LEMMA NextKeeps ==
    ASSUME Types, Stock, Memory, [Next]_vars
    PROVE  Stock' /\ Memory'
<1>1. ASSUME NEW c \in Callers, Finish(c) \/ Begin(c) PROVE Stock' /\ Memory'
    BY <1>1, LoginCallsKeep, ForgetMemoKeeps, ForgetModelsKeeps DEF Finish
<1>2. ASSUME NEW c \in Callers, Asking(c) PROVE Stock' /\ Memory'
  <2>1. CASE Collected(c)
    <3>1. probe[c].says \in {"yes", "no"} BY DEF Types, ProbeRec
    <3> QED BY <2>1, <3>1, SaysKeeps DEF Collected
  <2>2. CASE Deadline(c) BY <2>2, SaysKeeps DEF Deadline
  <2> QED BY <1>2, <2>1, <2>2, StartsKeeps, ProbeKeeps, RememberedKeeps, InsertKeeps DEF Asking
<1>3. CASE World BY <1>3, OutsideKeeps, OthersKeep DEF World
<1>4. CASE Daemon \/ (\E p \in Procs : Process(p)) \/ UNCHANGED vars BY <1>4, OthersKeep
<1> QED BY <1>1, <1>2, <1>3, <1>4 DEF Next, Call

-----------------------------------------------------------------------------
(* The theorems. *)

\* The initial states have everything that the invariant says.
LEMMA InitInv == Init => Inv
<1> SUFFICES ASSUME Init PROVE Inv OBVIOUS
<1>1. Types /\ Logins BY InitLogins
<1>2. \A c \in Callers : caller[c] = Idle BY DEF Init
<1>3. models = NoModels /\ memo = NoMemo /\ confirmed = FALSE /\ forgets = 0 BY DEF Init
<1>4. Stock BY <1>2, <1>3 DEF Stock, ModelsFresh, NoModels, Idle
<1>5. \A c \in Callers : Asker(c) BY <1>2, <1>3 DEF Asker, Idle
<1>6. ~Sure
  <2>1. Idle.op # "finish_auth" BY DEF Idle
  <2> QED BY <1>2, <1>3, <2>1 DEF Sure, Knows
<1> QED BY <1>1, <1>3, <1>4, <1>5, <1>6 DEF Inv, Memory

\* What holds in every reachable state of accounts, whoever asks what and
\* whatever CLIs and the user do.
LEMMA Keeps == Spec => []Inv
<1>1. Inv /\ [Next]_vars => Inv' BY NextLogins, NextKeeps DEF Inv
<1> QED BY InitInv, <1>1, PTL DEF Spec

\* Every variable of login.rs, of MEMO and of MODELS has its type.
THEOREM TypesKept == Spec => []TypeOK
<1>1. Inv => TypeOK BY DEF Inv, Types
<1> QED BY Keeps, <1>1, PTL

\* The login whose URL the user was given stays in flight until it is finished,
\* replaced, swept, shut down or its CLI has left (take and its token in
\* login.rs): no exit of another CLI, no failed begin and no timeout takes it.
THEOREM LoginStays == Spec => []LoginKept
<1>1. Inv => LoginKept BY DEF Inv, Logins, Kept
<1> QED BY Keeps, <1>1, PTL

\* When shutdown has returned, every CLI of a login that was begun before it has
\* ended or is in the hands of a thread that stops it, also the login of a begin
\* that was between the spawn and track (LOGIN_EPOCH).
THEOREM ShutdownLeavesNone == Spec => []NoneAfterShutdown
<1>1. Inv => NoneAfterShutdown
  <2> SUFFICES ASSUME Inv, main.pc = "done", NEW p \in Procs, proc[p].os = "up", era[p] < epoch
               PROVE  Held(p) \/ sweeper.on = p
      BY DEF NoneAfterShutdown
  <2>1. main.on = 0 /\ p # 0 BY AccountsAssumption DEF Inv, Logins, DownSince
  <2>2. flight # p
    <3>1. SUFFICES ASSUME flight = p PROVE FALSE OBVIOUS
    <3>2. era[p] = epoch BY <2>1, <3>1 DEF Inv, Logins, DownSince
    <3>3. epoch \in Nat BY DEF Inv, Types, TypeOK
    <3> QED BY <3>2, <3>3
  <2>3. InHand(p) BY DEF Inv, Logins, Tended
  <2>4. \A c \in Callers : Holds(c, p) => ~At(c, "idle") /\ p \in {caller[c].on, caller[c].old}
      BY DEF Holds, At
  <2> QED BY <2>1, <2>2, <2>3, <2>4 DEF InHand, Held
<1> QED BY Keeps, <1>1, PTL

\* After a finish_auth that said the user is signed in, and until a sign-out,
\* MEMO holds no "no" but of a CLI that could not be asked or of an answer that
\* was asked for before a forget (forget and auth_status of providers/mod.rs).
THEOREM FinishIsSeen == Spec => []FinishSeen
<1>1. Inv => FinishSeen BY DEF Inv, Memory, Sure, FinishSeen
<1> QED BY Keeps, <1>1, PTL

\* An inventory of models that Antigravity's account.rs keeps was asked for after
\* the last forget: a probe that races with a forget leaves nothing older.
THEOREM InventoryFresh == Spec => []ModelsFresh
<1>1. Inv => ModelsFresh BY DEF Inv, Stock
<1> QED BY Keeps, <1>1, PTL
=============================================================================
