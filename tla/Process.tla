------------------------------ MODULE Process ------------------------------
(***************************************************************************)
(* The processes that omni starts, LineProcess of shared/proc.rs: a child  *)
(* in a process group of its own, the threads that read its output and     *)
(* wait for it (pump, reaper), the gate that they pass to call back into   *)
(* omni, stop, and the guardian that outlives the daemon.                  *)
(***************************************************************************)
EXTENDS Naturals

CONSTANT Procs   \* the processes that may be started

VARIABLES
    proc,       \* LineProcess, its pump, its reaper and who stops it
    helper,     \* processes whose CLI has started another one in the group
    guardian,   \* the guardian of a process
    owner       \* the daemon lives

procVars == <<proc, helper, guardian, owner>>

NoProc == [os |-> "none", stdin |-> FALSE, running |-> FALSE, gate |-> FALSE,
           pump |-> "idle", reaper |-> "none", stop |-> "no"]
Fresh == [os |-> "up", stdin |-> TRUE, running |-> TRUE, gate |-> TRUE,
          pump |-> "idle", reaper |-> "wait", stop |-> "no"]

ProcTypeOK ==
    /\ proc \in [Procs -> [os : {"none", "up", "dead"}, stdin : BOOLEAN, running : BOOLEAN,
                           gate : BOOLEAN, pump : {"idle", "calling"},
                           reaper : {"none", "wait", "seen", "calling", "telling", "done"},
                           stop : {"no", "eof", "term", "kill", "closing", "done"}]]
    /\ helper \subseteq Procs /\ owner \in BOOLEAN
    /\ guardian \in [Procs -> {"none", "watching", "eof", "gone"}]

\* alive: a flag, which the reaper lowers.
Alive(p) == proc[p].running

\* send_line: a pipe that is closed or that nobody reads takes no line.
Writable(p) == proc[p].stdin /\ proc[p].os = "up"

\* CallbackGate::active.
Calling(p) == proc[p].pump = "calling" \/ proc[p].reaper \in {"calling", "telling"}

\* guarded_spawn: the guardian is there before the CLI is.
Guarded(p) == guardian' = [guardian EXCEPT ![p] = "watching"]
Spawn(p) ==
    /\ proc[p].os = "none"
    /\ proc' = [proc EXCEPT ![p] = Fresh]
    /\ Guarded(p)
    /\ UNCHANGED <<helper, owner>>

-----------------------------------------------------------------------------
(* The operating system, and what the CLI does in it. *)

Killed(p) == proc' = [proc EXCEPT ![p].os = "dead"]

\* A CLI exits by itself, at the end of its input or because it crashes.
Die(p) ==
    /\ proc[p].os = "up"
    /\ Killed(p)
    /\ UNCHANGED <<helper, guardian, owner>>
Fork(p) ==
    /\ proc[p].os = "up" /\ p \notin helper
    /\ helper' = helper \cup {p}
    /\ UNCHANGED <<proc, guardian, owner>>

\* The daemon dies, and with it its ends of the pipes.
OwnerDies ==
    /\ owner /\ owner' = FALSE
    /\ guardian' = [p \in Procs |-> IF guardian[p] = "watching" THEN "eof" ELSE guardian[p]]
    /\ UNCHANGED <<proc, helper>>

\* (Mutant of GuardianKills: only the CLI is killed, not its group.)
GuardianKillsOne(p) ==
    /\ guardian[p] = "eof"
    /\ Killed(p) /\ guardian' = [guardian EXCEPT ![p] = "gone"]
    /\ UNCHANGED <<helper, owner>>

\* guardian_main: at the end of its pipe the whole group is killed; a group
\* that is empty needs no guardian.
GuardianKills(p) ==
    /\ guardian[p] = "eof"
    /\ Killed(p) /\ helper' = helper \ {p}
    /\ guardian' = [guardian EXCEPT ![p] = "gone"]
    /\ UNCHANGED owner
GuardianLeaves(p) ==
    /\ guardian[p] = "watching" /\ proc[p].os = "dead" /\ p \notin helper
    /\ guardian' = [guardian EXCEPT ![p] = "gone"]
    /\ UNCHANGED <<proc, helper, owner>>

-----------------------------------------------------------------------------
(* The reaper, up to the callback, which is its user's. *)

Noticed(p) ==
    /\ proc[p].reaper = "wait" /\ proc[p].os = "dead"
    /\ proc' = [proc EXCEPT ![p].running = FALSE, ![p].reaper = "seen"]
    /\ UNCHANGED <<helper, guardian, owner>>

\* CallbackGate::call: entered if the gate is open, skipped if it is not.
ExitCall(p) ==
    /\ proc[p].reaper = "seen"
    /\ proc' = [proc EXCEPT ![p].reaper = IF proc[p].gate THEN "calling" ELSE "done"]
    /\ UNCHANGED <<helper, guardian, owner>>

-----------------------------------------------------------------------------
(* stop, by the thread that is in it. *)

StopAt(p, place) == proc' = [proc EXCEPT ![p].stop = place]

\* A grace period passes, and the flag is not down.
StopTerm(p) ==
    /\ proc[p].stop = "eof" /\ Alive(p)
    /\ \E dies \in BOOLEAN :
          proc' = [proc EXCEPT ![p].stop = "term", ![p].os = IF dies THEN "dead" ELSE @]
    /\ \E H \in {helper, helper \ {p}} : helper' = H
    /\ UNCHANGED <<guardian, owner>>
StopKill(p) ==
    /\ proc[p].stop = "term" /\ Alive(p)
    /\ proc' = [proc EXCEPT ![p].stop = "kill", ![p].os = "dead"]
    /\ helper' = helper \ {p}
    /\ UNCHANGED <<guardian, owner>>

\* The guardian's pipe is closed, and the gate; whoever is in a callback is
\* waited for, whoever reads a pipe that somebody still holds is not.
StopClose(p) ==
    /\ proc[p].stop \in {"eof", "term", "kill"}
    /\ ~Alive(p) \/ proc[p].stop = "kill"
    /\ proc' = [proc EXCEPT ![p].stop = "closing", ![p].gate = FALSE]
    /\ guardian' = [guardian EXCEPT ![p] = IF @ = "watching" THEN "eof" ELSE @]
    /\ UNCHANGED <<helper, owner>>
StopDone(p) ==
    /\ proc[p].stop = "closing" /\ ~Calling(p)
    /\ StopAt(p, "done")
    /\ UNCHANGED <<helper, guardian, owner>>

Stopping(p) == StopTerm(p) \/ StopKill(p) \/ StopClose(p) \/ StopDone(p)

\* What goes on without the daemon.
Outside(p) == GuardianKills(p) \/ GuardianLeaves(p)

-----------------------------------------------------------------------------
\* Nothing that was started outlives a stop, or the daemon: not the CLI and not
\* what it has started itself (stop, guardian_main).
Ended(p) == proc[p].stop = "done" \/ (~owner /\ proc[p].os # "none")
Orphans == {p \in Procs : Ended(p) /\ (proc[p].os = "up" \/ p \in helper)}
NoOrphans == Orphans # {} ~> Orphans = {}
=============================================================================
