------------------------------ MODULE Startup ------------------------------
(***************************************************************************)
(* How programs come by a daemon: Client::connect, ensure_daemon and       *)
(* connect_to (omni-client/src/lib.rs) against lock_daemon, claim and run  *)
(* (omni-daemon/src/main.rs).  Daemons meet in three places: the lock on   *)
(* omnid.pid, the path of the socket, and the sockets themselves, which    *)
(* take connections as long as their daemon has not exited.                *)
(***************************************************************************)
EXTENDS Naturals

CONSTANTS
    Programs,    \* programs that connect; each starts at most one daemon
    MaxCrashes   \* bound: daemons that are killed

None == "none"
Litter == "litter"   \* the socket of a daemon of earlier times, long dead

ASSUME StartupAssumption == {None, Litter} \cap Programs = {} /\ MaxCrashes \in Nat

VARIABLES
    lock,       \* who holds the lock on omnid.pid
    path,       \* whose socket is at the path, also when its daemon is dead
    daemon,     \* how far the daemon that a program has started is
    program,    \* how far a program is
    peer,       \* the daemon that a program is connected to
    crashes,    \* how many daemons were killed
    disturbed   \* history: programs that waited while a daemon went down

homeVars == <<lock, path, daemon>>
startVars == <<lock, path, daemon, program, peer, crashes, disturbed>>

StartupInit ==
    /\ lock = None /\ path \in {None, Litter}
    /\ daemon = [d \in Programs |-> "none"]
    /\ program = [p \in Programs |-> "new"]
    /\ peer = [p \in Programs |-> None]
    /\ crashes = 0 /\ disturbed = {}

-----------------------------------------------------------------------------
(* A daemon: run. *)

Leaving == {"closing", "unlinked"}
Listening(d) == d \in Programs /\ daemon[d] \in {"serving"} \cup Leaving

\* UnixStream::connect as a test, by a client and by claim.
Reachable == Listening(path)

Waiting == {p \in Programs : program[p] = "waiting"}
DaemonGoes(d, place) == daemon' = [daemon EXCEPT ![d] = place]
progRest == <<program, peer, crashes, disturbed>>

\* (Mutant of Free: the lock is not asked for.)
AlwaysFree == TRUE

\* flock, LOCK_EX | LOCK_NB.
Free == lock = None

\* lock_daemon: whoever comes second leaves.
LockDaemon(d) ==
    /\ daemon[d] = "started"
    /\ IF Free THEN lock' = d /\ DaemonGoes(d, "locked")
       ELSE DaemonGoes(d, "exited") /\ UNCHANGED lock
    /\ UNCHANGED <<path, progRest>>

\* (Mutant of Claimed: a socket that was left behind is respected.)
ClaimedTimidly == IF path = None THEN "claimed" ELSE "exited"

\* claim: nothing is there, somebody listens, or it is litter, to be removed.
Claimed == IF path = None THEN "claimed" ELSE IF Reachable THEN "exited" ELSE "clearing"
Claim(d) ==
    /\ daemon[d] = "locked"
    /\ DaemonGoes(d, Claimed)
    /\ lock' = IF Claimed = "exited" /\ lock = d THEN None ELSE lock
    /\ UNCHANGED <<path, progRest>>
Clear(d) ==
    /\ daemon[d] = "clearing"
    /\ path' = None /\ DaemonGoes(d, "claimed")
    /\ UNCHANGED <<lock, progRest>>

\* A path that exists cannot be bound.
Bind(d) ==
    /\ daemon[d] = "claimed"
    /\ path' = IF path = None THEN d ELSE path
    /\ lock' = IF path # None /\ lock = d THEN None ELSE lock
    /\ DaemonGoes(d, IF path = None THEN "serving" ELSE "exited")
    /\ UNCHANGED progRest

\* The end of run: chats are put down, the path is removed, whatever is there,
\* and the lock goes with the process.
Unlink(d) ==
    /\ daemon[d] = "closing"
    /\ path' = None /\ DaemonGoes(d, "unlinked")
    /\ UNCHANGED <<lock, progRest>>
Exit(d) ==
    /\ daemon[d] = "unlinked"
    /\ DaemonGoes(d, "exited")
    /\ lock' = IF lock = d THEN None ELSE lock
    /\ UNCHANGED <<path, progRest>>

Crash(d) ==
    /\ crashes < MaxCrashes
    /\ daemon[d] \notin {"none", "exited"}
    /\ DaemonGoes(d, "exited")
    /\ lock' = IF lock = d THEN None ELSE lock
    /\ crashes' = crashes + 1 /\ disturbed' = disturbed \cup Waiting
    /\ UNCHANGED <<path, program, peer>>

-----------------------------------------------------------------------------
(* A program: ensure_daemon, then connect_to with its handshake. *)

ProgramGoes(p, place) == program' = [program EXCEPT ![p] = place]

\* Somebody listens, or a daemon is started.
Look(p) ==
    /\ program[p] = "new"
    /\ IF Reachable THEN ProgramGoes(p, "ready") /\ UNCHANGED <<daemon, disturbed>>
       ELSE /\ ProgramGoes(p, "waiting") /\ DaemonGoes(p, "started")
            /\ disturbed' = IF \E d \in Programs : daemon[d] \in Leaving
                            THEN disturbed \cup {p} ELSE disturbed
    /\ UNCHANGED <<lock, path, peer, crashes>>

\* It is looked at again every 20 ms, for STARTUP_TIMEOUT.
Poll(p) ==
    /\ program[p] = "waiting" /\ Reachable
    /\ ProgramGoes(p, "ready")
    /\ UNCHANGED <<homeVars, peer, crashes, disturbed>>
StartupTimeout(p) ==
    /\ program[p] = "waiting"
    /\ ProgramGoes(p, "failed")
    /\ UNCHANGED <<homeVars, peer, crashes, disturbed>>

Connect(p) ==
    /\ program[p] = "ready"
    /\ IF Reachable THEN ProgramGoes(p, "greeting") /\ peer' = [peer EXCEPT ![p] = path]
       ELSE ProgramGoes(p, "failed") /\ UNCHANGED peer
    /\ UNCHANGED <<homeVars, crashes, disturbed>>

\* The handshake: an answer, or none in HANDSHAKE_TIMEOUT, or the end.
Greet(p) ==
    /\ program[p] = "greeting"
    /\ \/ daemon[peer[p]] = "serving" /\ ProgramGoes(p, "connected")
       \/ ProgramGoes(p, "failed")
    /\ UNCHANGED <<homeVars, peer, crashes, disturbed>>

\* Client::shutdown.
AskShutdown(p) ==
    /\ program[p] = "connected" /\ daemon[peer[p]] = "serving"
    /\ ProgramGoes(p, "done")
    /\ DaemonGoes(peer[p], "closing")
    /\ disturbed' = disturbed \cup Waiting
    /\ UNCHANGED <<lock, path, peer, crashes>>

-----------------------------------------------------------------------------
DaemonStep(d) ==
    LockDaemon(d) \/ Claim(d) \/ Clear(d) \/ Bind(d)
    \/ Unlink(d) \/ Exit(d)
ProgramStep(p) == Look(p) \/ Poll(p) \/ Connect(p) \/ Greet(p)

StartupTypeOK ==
    /\ lock \in Programs \cup {None} /\ path \in Programs \cup {None, Litter}
    /\ daemon \in [Programs -> {"none", "started", "locked", "clearing", "claimed", "serving",
                                "closing", "unlinked", "exited"}]
    /\ program \in [Programs -> {"new", "waiting", "ready", "greeting", "connected", "failed", "done"}]
    /\ peer \in [Programs -> Programs \cup {None}]
    /\ crashes \in 0 .. MaxCrashes /\ disturbed \subseteq Programs

\* A daemon that serves can be reached, and is the only one: nobody takes its
\* path away or binds another socket there (lock_daemon, claim, run).
DaemonReachable == \A d \in Programs : daemon[d] = "serving" => path = d

\* A program that has started a daemon, and waits, gets to one, also past a
\* socket that a killed daemon left behind.  It may not if a daemon was on its
\* way out: that one still has the lock when the new one asks for it, and a
\* program starts a daemon only once (ensure_daemon).
WaitEnds == Waiting # {} ~> Waiting \subseteq disturbed
=============================================================================
