------------------------------ MODULE Registry ------------------------------
(***************************************************************************)
(* The daemon around one session: connections and their request lanes      *)
(* (main.rs), the requests (serve.rs), the registry of live chats and its  *)
(* gates (registry.rs), listeners and bounded outgoing queues (wiring.rs), *)
(* and, as far as they can see of it, the chat itself: a thread that       *)
(* records events in the session's file and publishes them.                *)
(*                                                                         *)
(* Sessions share nothing but the admission of requests and a map that is  *)
(* locked for a moment, so one session is modelled and every request is    *)
(* about it.  The Closing flag of the registry is not: it is set when no   *)
(* request is in progress and none can begin, so no test of it fails.      *)
(***************************************************************************)
EXTENDS Jsonl, FiniteSets

CONSTANTS
    Conns,        \* connections, one for each client
    Plans,        \* what the clients may ask, and whether a signal comes
    Limit,        \* MAX_IN_FLIGHT
    MaxRequests,  \* bound: the length of a plan
    MaxEvents,    \* bound: events that chats record before they are stopped
    MaxFaults     \* bound: writes that fail

AllOps == {"open", "follow", "send", "set", "stop", "detach", "shutdown", "signal"}
Peers == Conns \cup {"main"}

ASSUME ConstantsAssumption ==
    /\ IsFiniteSet(Conns) /\ {"sweep", "main", "none"} \cap Conns = {}
    /\ \A p \in Plans : p \in [Peers -> Seq(AllOps)] /\ \A c \in Peers : Len(p[c]) <= MaxRequests
    /\ Limit \in Nat \ {0}
    /\ MaxRequests \in Nat /\ MaxEvents \in Nat /\ MaxFaults \in Nat

VARIABLES
    file,       \* the session's log on disk
    faults,     \* how many writes have failed
    chats,      \* every chat the daemon has had: Live, Chat and Handle
    entry,      \* Registry::sessions: the chat of the session, 0 for none
    lock,       \* the chat whose listener list an attach holds, 0 for none
    listeners,  \* every Listener: its connection and its next sequence number
    gate,       \* Registry::gates: the session's gate, 0 for none
    want,       \* the gate that a thread has cloned, 0 for none
    holder,     \* who has locked a gate
    open,       \* Connection: open
    gone,       \* history: the client was told that a chat is gone
    reader,     \* the thread that reads a connection's requests
    plan,       \* the requests that each client has still to make
    lane,       \* admitted requests of a connection; the first one is served
    accepting,  \* Admission: accepting
    stopping,   \* Daemon: stopping
    pc,         \* where each thread is: connections' tasks, the sweep, main
    then,       \* where a thread goes on after shut
    target,     \* the chat a thread works on
    replay      \* the events an attach has still to replay

chatVars == <<chats, listeners>>
gateVars == <<gate, want, holder>>
wireVars == <<open, gone>>
mainVars == <<accepting, stopping>>
taskVars == <<pc, then, target, replay>>
readVars == <<reader, plan, lane>>
vars == <<file, faults, chats, entry, lock, listeners, gate, want, holder, open, gone,
          reader, plan, lane, accepting, stopping, pc, then, target, replay>>

Actors == Conns \cup {"sweep", "main"}
GateIds == 1 .. Cardinality(Actors)
Notice == 0    \* the unpersisted terminal notice, among the events to publish

Init ==
    /\ file = Empty /\ faults = 0
    /\ chats = << >> /\ listeners = << >>
    /\ entry = 0 /\ lock = 0
    /\ gate = 0
    /\ want = [a \in Actors |-> 0]
    /\ holder = [g \in GateIds |-> "none"]
    /\ open = [c \in Conns |-> TRUE]
    /\ gone = [c \in Conns |-> FALSE]
    /\ reader = [c \in Conns |-> "reading"]
    /\ plan \in Plans
    /\ lane = [c \in Conns |-> << >>]
    /\ accepting = TRUE /\ stopping = FALSE
    /\ pc = [a \in Actors |-> "idle"]
    /\ then = [a \in Actors |-> "reply"]
    /\ target = [a \in Actors |-> 0]
    /\ replay = [c \in Conns |-> << >>]

-----------------------------------------------------------------------------
(* Connections: Connection::write.  How full a queue is depends on how fast *)
(* its client reads; a write that finds it full closes the connection.      *)

Close(C) == open' = [c \in Conns |-> open[c] /\ c \notin C]
Write(C) == \E full \in SUBSET C : Close(full)

-----------------------------------------------------------------------------
(* Readers: talk, Admission and the lanes. *)

Active == {c \in Conns : lane[c] # << >>}
InFlight == LET S == {w \in Conns \X (1 .. MaxRequests) : w[2] <= Len(lane[w[1]])}
            IN  Cardinality(S)

Asks(c) == reader[c] = "reading" /\ open[c] /\ plan[c] # << >>

\* A request is read.  With Limit tasks in progress the reader waits.
Submit(c) ==
    /\ Asks(c) /\ Head(plan[c]) # "shutdown"
    /\ accepting /\ InFlight < Limit
    /\ plan' = [plan EXCEPT ![c] = Tail(@)]
    /\ lane' = [lane EXCEPT ![c] = Append(@, Head(plan[c]))]
    /\ UNCHANGED <<file, faults, chatVars, entry, lock, gateVars, wireVars, reader, mainVars, taskVars>>

\* The daemon takes no more work: the client is told so and let go.
Refuse(c) ==
    /\ Asks(c) /\ Head(plan[c]) # "shutdown"
    /\ ~accepting
    /\ plan' = [plan EXCEPT ![c] = Tail(@)]
    /\ reader' = [reader EXCEPT ![c] = "closing"]
    /\ Close({c})
    /\ UNCHANGED <<file, faults, chatVars, entry, lock, gateVars, gone, lane, mainVars, taskVars>>

\* "shutdown" is served by the reader itself: close admission, wait, answer.
SubmitShutdown(c) ==
    /\ Asks(c) /\ Head(plan[c]) = "shutdown"
    /\ plan' = [plan EXCEPT ![c] = Tail(@)]
    /\ reader' = [reader EXCEPT ![c] = "draining"]
    /\ accepting' = FALSE
    /\ UNCHANGED <<file, faults, chatVars, entry, lock, gateVars, wireVars, lane, stopping, taskVars>>

Shutdown(c) ==
    /\ reader[c] = "draining" /\ Active = {}
    /\ stopping' = TRUE
    /\ reader' = [reader EXCEPT ![c] = "closing"]
    /\ Close({c})
    /\ UNCHANGED <<file, faults, chatVars, entry, lock, gateVars, gone, plan, lane, accepting, taskVars>>

\* (Mutant of Hangup: the connection stays open for what is in progress.)
HangupOpen(c) ==
    /\ reader[c] = "reading"
    /\ reader' = [reader EXCEPT ![c] = "closing"]
    /\ UNCHANGED <<file, faults, chatVars, entry, lock, gateVars, wireVars, plan, lane, mainVars, taskVars>>

\* The client hangs up, or the reader finds that the connection was closed.
Hangup(c) ==
    /\ reader[c] = "reading"
    /\ reader' = [reader EXCEPT ![c] = "closing"]
    /\ Close({c})
    /\ UNCHANGED <<file, faults, chatVars, entry, lock, gateVars, gone, plan, lane, mainVars, taskVars>>

\* (Mutant of Unlisten: since when a chat is alone is not noted.)
UnlistenUnnoted(k, c) ==
    [chats[k] EXCEPT !.listeners = {l \in @ : listeners[l].conn # c}]

Unlisten(k, c) ==
    LET left == {l \in chats[k].listeners : listeners[l].conn # c}
    IN  [chats[k] EXCEPT !.listeners = left, !.alone = IF left = {} THEN TRUE ELSE @]

\* Registry::forget.
Forget(c) ==
    /\ reader[c] = "closing"
    /\ entry # 0 => lock # entry
    /\ reader' = [reader EXCEPT ![c] = "ended"]
    /\ chats' = IF entry = 0 THEN chats ELSE [chats EXCEPT ![entry] = Unlisten(entry, c)]
    /\ UNCHANGED <<file, faults, listeners, entry, lock, gateVars, wireVars, plan, lane, mainVars, taskVars>>

-----------------------------------------------------------------------------
(* with_lifecycle: a gate is cloned, locked, and taken out of the map again *)
(* by the last thread that refers to it.                                    *)

Goto(a, place) == pc' = [pc EXCEPT ![a] = place]

CloneGate(a) ==
    LET g == IF gate # 0 THEN gate
             ELSE CHOOSE n \in GateIds : \A b \in Actors : want[b] # n
    IN  gate' = g /\ want' = [want EXCEPT ![a] = g]

LockGate(a) ==
    /\ pc[a] = "wait" /\ holder[want[a]] = "none"
    /\ holder' = [holder EXCEPT ![want[a]] = a]
    /\ Goto(a, "op")
    /\ UNCHANGED <<file, faults, chatVars, entry, lock, gate, want, wireVars, readVars, mainVars,
                   then, target, replay>>

\* (Mutant of Reclaimed: a gate that others wait for goes too.)
ReclaimedAlways(a) == IF gate = want[a] THEN 0 ELSE gate

\* The current gate goes if this thread and the map are all that know of it.
Reclaimed(a) == IF gate = want[a] /\ \A b \in Actors \ {a} : want[b] # gate THEN 0 ELSE gate

Release(a) ==
    /\ gate' = IF want[a] = 0 THEN gate ELSE Reclaimed(a)
    /\ want' = [want EXCEPT ![a] = 0]
    /\ holder' = [g \in GateIds |-> IF g = want[a] THEN "none" ELSE holder[g]]

-----------------------------------------------------------------------------
(* The chat: Chat::run and the handle, as the registry sees them. *)

\* Store::seq of a session that is opened.
StoredSeq == Prefix(file)

NewChat(c) ==
    [status |-> "waiting", ended |-> FALSE, todo |-> << >>, telling |-> {}, acks |-> {},
     inbox |-> <<[op |-> "settings", conn |-> c], [op |-> "launch", conn |-> c]>>,
     seq |-> StoredSeq, owns |-> FALSE,
     listeners |-> {}, alone |-> FALSE, stopping |-> FALSE]

Ready(k) == ~chats[k].ended /\ chats[k].todo = << >>
Wake(k) == Head(chats[k].inbox)

\* Handle::post; a chat that has ended takes no wake.
Posted(k, wake) == [chats[k] EXCEPT !.inbox = IF chats[k].ended THEN @ ELSE Append(@, wake)]

\* persistence_failed: the chat is over, and says so without a record.
Failed(ch) == [ch EXCEPT !.status = "stopped", !.todo = Append(@, Notice)]

\* A request that waits for the chat goes on when it is answered.
Onward(c, ok) ==
    CASE pc[c] = "configured" /\ ok -> "attach"
      [] pc[c] = "launched" -> IF ok THEN "attach" ELSE "drop"
      [] OTHER -> "reply"

\* (Mutant of Waiters: those behind the last request are forgotten.)
NoWaiters(ch) == {}

\* reject_waiters: who waits in the inbox of a chat.
Waiters(ch) == {ch.inbox[i].conn : i \in DOMAIN ch.inbox} \cap Conns

\* A step leaves chat k as ch.  When everything is published the handler's
\* request is acknowledged; if the chat has stopped, it ends and whoever still
\* waits for it is rejected.
Becomes(k, ch) ==
    LET over == ch.status = "stopped"
        left == Waiters(ch)
        free == IF over THEN ch.acks \cup left ELSE ch.acks
    IN  IF ch.todo # << >>
        THEN chats' = [chats EXCEPT ![k] = ch] /\ UNCHANGED pc
        ELSE /\ chats' = [chats EXCEPT ![k] =
                    [ch EXCEPT !.acks = {}, !.ended = over,
                               !.inbox = IF over THEN << >> ELSE @]]
             /\ pc' = [a \in Actors |-> IF a \in free THEN Onward(a, ~over) ELSE pc[a]]

\* Store::append opens the file, and repairs it, with the first event.
Prefixed(k) == ~chats[k].owns /\ Whole(file)
Repaired(k) == IF chats[k].owns THEN file ELSE RepairTail(file)

\* A handler leaves the chat as ch with an event ...
Logs(k, ch) ==
    /\ UNCHANGED faults
    /\ file' = Written(Repaired(k), Prefixed(k), ch.seq + 1)
    /\ Becomes(k, [ch EXCEPT !.seq = @ + 1, !.owns = TRUE, !.todo = Append(@, ch.seq + 1)])
\* ... or a write fails: of the metadata, which is staged and replaced as a
\* whole and leaves the log alone, or of the log, at any byte.
MetaFails == file' = file
LogFails(k, ch) == file' \in Failures(Repaired(k), Prefixed(k), ch.seq + 1)
Fails(k, ch) ==
    /\ faults < MaxFaults /\ faults' = faults + 1
    /\ MetaFails \/ LogFails(k, ch)
    /\ Becomes(k, Failed(ch))

chatRest == <<entry, lock, gateVars, readVars, mainVars, then, target, replay>>

\* Configure, LaunchReady and SendDurable.
Handle(k) ==
    /\ Ready(k) /\ chats[k].inbox # << >> /\ Wake(k).op # "stop"
    /\ LET w == Wake(k)
           ch == [chats[k] EXCEPT !.inbox = Tail(@),
                                  !.status = IF w.op = "send" THEN "busy" ELSE @,
                                  !.acks = IF w.op = "settings" THEN {} ELSE {w.conn}]
       IN  \/ Becomes(k, ch) /\ UNCHANGED <<file, faults>>
           \/ ch.seq < MaxEvents /\ (Logs(k, ch) \/ Fails(k, ch))
    /\ UNCHANGED <<listeners, wireVars, chatRest>>

\* Something the provider said; it may end the turn.
Heard(k) ==
    /\ Ready(k) /\ chats[k].seq < MaxEvents
    /\ \E st \in {chats[k].status, "waiting"} :
          LET ch == [chats[k] EXCEPT !.status = st] IN Logs(k, ch) \/ Fails(k, ch)
    /\ UNCHANGED <<listeners, wireVars, chatRest>>

\* Stop: Chat::shutdown records that it stops.
Halt(k) ==
    /\ Ready(k) /\ chats[k].inbox # << >> /\ Wake(k).op = "stop"
    /\ LET ch == [chats[k] EXCEPT !.inbox = Tail(@), !.status = "stopped"]
       IN  Logs(k, ch) \/ Fails(k, ch)
    /\ UNCHANGED <<listeners, wireVars, chatRest>>

\* Chat::publish has an event to hand on ...
Publishing(k) == chats[k].todo # << >> /\ chats[k].telling = {}

\* ... to the registry's sink: the list is copied under its lock ...
Copy(k) ==
    LET ch == chats[k]
    IN  /\ Publishing(k) /\ lock # k
        /\ Becomes(k, IF ch.listeners = {} THEN [ch EXCEPT !.todo = Tail(@)]
                      ELSE [ch EXCEPT !.telling = ch.listeners])
        /\ UNCHANGED <<file, faults, listeners, wireVars, chatRest>>

\* ... and told without it: Listener::deliver.
Deliver(k) ==
    LET ch == chats[k]
        e == Head(ch.todo)
        New(l) == l \in ch.telling /\ (e = Notice \/ e >= listeners[l].next)
    IN  /\ ch.telling # {}
        /\ listeners' = [l \in DOMAIN listeners |->
                            IF New(l) /\ e # Notice THEN [listeners[l] EXCEPT !.next = e + 1]
                            ELSE listeners[l]]
        /\ Write({c \in Conns : open[c] /\ \E l \in ch.telling : New(l) /\ listeners[l].conn = c})
        /\ Becomes(k, [ch EXCEPT !.telling = {}, !.todo = Tail(@)])
        /\ UNCHANGED <<file, faults, gone, chatRest>>

-----------------------------------------------------------------------------
(* Requests: Daemon::dispatch and the registry's operations, one task each. *)

Op(c) == Head(lane[c])
IsOpen(op) == op \in {"open", "follow"}
taskRest == <<file, faults, listeners, lock, wireVars, readVars, mainVars>>

\* The task's turn in its lane; a closed connection gets no answer.
Skip(c) ==
    /\ pc[c] = "idle" /\ lane[c] # << >> /\ ~open[c]
    /\ lane' = [lane EXCEPT ![c] = Tail(@)]
    /\ UNCHANGED <<file, faults, chatVars, entry, lock, gateVars, wireVars, reader, plan, mainVars, taskVars>>

Begin(c) ==
    /\ pc[c] = "idle" /\ lane[c] # << >> /\ open[c] /\ Op(c) # "detach"
    /\ CloneGate(c)
    /\ Goto(c, "wait")
    /\ UNCHANGED <<taskRest, chats, entry, holder, then, target, replay>>

Detach(c) ==
    /\ pc[c] = "idle" /\ lane[c] # << >> /\ open[c] /\ Op(c) = "detach"
    /\ entry # 0 => lock # entry
    /\ chats' = IF entry = 0 THEN chats ELSE [chats EXCEPT ![entry] = Unlisten(entry, c)]
    /\ Goto(c, "reply")
    /\ UNCHANGED <<taskRest, entry, gateVars, then, target, replay>>

\* The task ends: the gate is released and the client answered.
Reply(c) ==
    /\ pc[c] = "reply"
    /\ Release(c)
    /\ Write({c})
    /\ lane' = [lane EXCEPT ![c] = Tail(@)]
    /\ Goto(c, "idle")
    /\ target' = [target EXCEPT ![c] = 0]
    /\ then' = [then EXCEPT ![c] = "reply"]
    /\ UNCHANGED <<file, faults, chatVars, entry, lock, gone, reader, plan, mainVars, replay>>

\* send, set, stop: the session is not open.
Missing(c) ==
    /\ pc[c] = "op" /\ ~IsOpen(Op(c)) /\ entry = 0
    /\ Goto(c, "reply")
    /\ UNCHANGED <<taskRest, gateVars, chats, entry, then, target, replay>>

\* Handle::send_durable marks the chat busy before it posts the message.
Send(c) ==
    /\ pc[c] = "op" /\ Op(c) = "send" /\ entry # 0
    /\ chats' = [chats EXCEPT ![entry] = [Posted(entry, [op |-> "send", conn |-> c])
                    EXCEPT !.status = IF @ \in {"waiting", "busy"} THEN "busy" ELSE @]]
    /\ Goto(c, IF chats[entry].ended THEN "reply" ELSE "asked")
    /\ UNCHANGED <<taskRest, gateVars, entry, then, target, replay>>

Configure(c, place) ==
    /\ chats' = [chats EXCEPT ![entry] = Posted(entry, [op |-> "configure", conn |-> c])]
    /\ Goto(c, IF chats[entry].ended THEN "reply" ELSE place)

Set(c) ==
    /\ pc[c] = "op" /\ Op(c) = "set" /\ entry # 0
    /\ Configure(c, "asked")
    /\ UNCHANGED <<taskRest, gateVars, entry, then, target, replay>>

\* Takes chat k out of the map, to shut it and go on at place.
TakeOut(a, k, place) ==
    /\ entry' = 0
    /\ target' = [target EXCEPT ![a] = k]
    /\ then' = [then EXCEPT ![a] = place]
    /\ Goto(a, "mark")

Stop(c) ==
    /\ pc[c] = "op" /\ Op(c) = "stop" /\ entry # 0
    /\ TakeOut(c, entry, "reply")
    /\ UNCHANGED <<taskRest, gateVars, chats, replay>>

\* Registry::open_locked.  The session is up: settings, then attach ...
OpenWarm(c) ==
    /\ pc[c] = "op" /\ IsOpen(Op(c)) /\ entry # 0 /\ chats[entry].status # "stopped"
    /\ Configure(c, "configured")
    /\ target' = [target EXCEPT ![c] = entry]
    /\ UNCHANGED <<taskRest, gateVars, entry, then, replay>>

\* ... it has ended by itself and is cleared away first ...
OpenStale(c) ==
    /\ pc[c] = "op" /\ IsOpen(Op(c)) /\ entry # 0 /\ chats[entry].status = "stopped"
    /\ TakeOut(c, entry, "probe")
    /\ UNCHANGED <<taskRest, gateVars, chats, replay>>

\* ... or there is none: providers are probed, which takes its time,
OpenCold(c) ==
    /\ pc[c] = "op" /\ IsOpen(Op(c)) /\ entry = 0
    /\ Goto(c, "probe")
    /\ UNCHANGED <<taskRest, gateVars, chats, entry, then, target, replay>>

\* for a client that may have left,
ProbedLate(c) ==
    /\ pc[c] = "probe" /\ ~open[c]
    /\ Goto(c, "reply")
    /\ UNCHANGED <<taskRest, gateVars, chats, entry, then, target, replay>>

\* and a chat is started; it fails at once if its log or its metadata cannot be
\* read: Meta::open of a file that is there and does not load is an error.
Unloaded(c) ==
    /\ faults < MaxFaults /\ faults' = faults + 1
    /\ chats' = Append(chats, Failed(NewChat(c)))
Loaded(c) ==
    /\ UNCHANGED faults
    /\ chats' = Append(chats, IF LoadError(file) THEN Failed(NewChat(c)) ELSE NewChat(c))
Probed(c) ==
    /\ pc[c] = "probe" /\ open[c]
    /\ Loaded(c) \/ Unloaded(c)
    /\ entry' = Len(chats) + 1
    /\ target' = [target EXCEPT ![c] = Len(chats) + 1]
    /\ then' = [then EXCEPT ![c] = "drop"]
    /\ Goto(c, "launched")
    /\ UNCHANGED <<file, listeners, lock, wireVars, readVars, mainVars, gateVars, replay>>

\* A session that could not be opened is not left behind.
Drop(c) ==
    /\ pc[c] = "drop"
    /\ TakeOut(c, target[c], "reply")
    /\ UNCHANGED <<taskRest, gateVars, chats, replay>>

-----------------------------------------------------------------------------
(* Live::attach, with the listener list locked from the first step to the   *)
(* last.  then[c] says what a failure leads to.                             *)

attachRest == <<file, faults, gateVars, readVars, mainVars, entry, then, target, gone>>

AttachRefused(c) ==
    LET ch == chats[target[c]]
    IN  /\ pc[c] = "attach" /\ lock # target[c]
        /\ ~open[c] \/ ch.stopping \/ ch.status = "stopped"
        /\ Goto(c, then[c])
        /\ UNCHANGED <<attachRest, chatVars, lock, open, replay>>

\* (Mutant of Attach: the list is not locked during the replay.)
AttachUnlocked(c) ==
    LET k == target[c]
        ch == chats[k]
        from == IF Op(c) = "follow" THEN ch.seq + 1 ELSE 1
    IN  /\ pc[c] = "attach" /\ lock # k
        /\ open[c] /\ ~ch.stopping /\ ch.status # "stopped"
        /\ UNCHANGED lock
        /\ chats' = [chats EXCEPT ![k].listeners = {l \in @ : listeners[l].conn # c}]
        /\ listeners' = Append(listeners, [conn |-> c, next |-> from])
        /\ replay' = [replay EXCEPT ![c] = [i \in 1 .. Prefix(file) + 1 - from |-> from + i - 1]]
        /\ Goto(c, "replay")
        /\ UNCHANGED <<attachRest, open>>

Attach(c) ==
    LET k == target[c]
        ch == chats[k]
        from == IF Op(c) = "follow" THEN ch.seq + 1 ELSE 1
    IN  /\ pc[c] = "attach" /\ lock # k
        /\ open[c] /\ ~ch.stopping /\ ch.status # "stopped"
        /\ lock' = k
        /\ chats' = [chats EXCEPT ![k].listeners = {l \in @ : listeners[l].conn # c}]
        /\ listeners' = Append(listeners, [conn |-> c, next |-> from])
        /\ replay' = [replay EXCEPT ![c] = [i \in 1 .. Prefix(file) + 1 - from |-> from + i - 1]]
        /\ Goto(c, "replay")
        /\ UNCHANGED <<attachRest, open>>

\* The listener of an attach in progress is the newest one.
Mine == Len(listeners)

\* Listener::replay moves the cursor over the event.
Replayed(l, e) == [listeners EXCEPT ![l].next = e + 1]

\* A queue that is full gets REPLAY_OUTBOX_TIMEOUT to make room.
Replay(c) ==
    /\ pc[c] = "replay" /\ replay[c] # << >> /\ open[c]
    /\ Write({c})
    /\ listeners' = Replayed(Mine, Head(replay[c]))
    /\ replay' = [replay EXCEPT ![c] = Tail(@)]
    /\ UNCHANGED <<attachRest, chats, lock, pc>>

AttachEnd(c) ==
    LET k == target[c]
    IN  /\ pc[c] = "replay"
        /\ replay[c] = << >> \/ ~open[c]
        /\ lock' = 0
        /\ replay' = [replay EXCEPT ![c] = << >>]
        /\ chats' = IF open[c]
                    THEN [chats EXCEPT ![k].listeners = @ \cup {Mine}, ![k].alone = FALSE]
                    ELSE [chats EXCEPT ![k] = Unlisten(k, c)]
        /\ Goto(c, IF open[c] THEN "reply" ELSE then[c])
        /\ UNCHANGED <<attachRest, listeners, open>>

-----------------------------------------------------------------------------
(* Live::shut, by whichever thread took the chat out of the map. *)

shutRest == <<file, faults, listeners, entry, lock, gateVars, readVars, mainVars, then, target, replay>>

Mark(a) ==
    LET k == target[a]
    IN  /\ pc[a] = "mark" /\ lock # k
        /\ IF chats[k].stopping THEN Goto(a, then[a]) /\ UNCHANGED chats
           ELSE /\ chats' = [chats EXCEPT ![k] =
                       [Posted(k, [op |-> "stop", conn |-> "none"]) EXCEPT !.stopping = TRUE]]
                /\ Goto(a, "join")
        /\ UNCHANGED <<shutRest, wireVars>>

\* (Mutant of Farewell: nobody is told.)
JoinOnly(a) ==
    /\ pc[a] = "join" /\ chats[target[a]].ended
    /\ Goto(a, then[a])
    /\ UNCHANGED <<shutRest, wireVars, chats>>

Farewell(a) ==
    LET k == target[a]
        C == {c \in Conns : open[c] /\ \E l \in chats[k].listeners : listeners[l].conn = c}
    IN  /\ pc[a] = "join" /\ chats[k].ended /\ lock # k
        /\ Write(C)
        /\ gone' = [c \in Conns |-> gone[c] \/ (c \in C /\ open'[c])]
        /\ Goto(a, then[a])
        /\ UNCHANGED <<shutRest, chats>>

-----------------------------------------------------------------------------
(* The sweep: Registry::reap, once the grace of a chat may have passed. *)

Cold(k) == chats[k].status # "busy" /\ chats[k].alone
Eligible(k) == chats[k].status = "stopped" \/ Cold(k)

SweepLook ==
    /\ pc["sweep"] = "idle" /\ ~stopping
    /\ entry # 0 /\ Eligible(entry)
    /\ CloneGate("sweep")
    /\ Goto("sweep", "wait")
    /\ UNCHANGED <<taskRest, chats, entry, holder, then, target, replay>>

\* (Mutant of SweepPick: without a second look.)
SweepPickBlind ==
    /\ pc["sweep"] = "op"
    /\ IF entry # 0 THEN TakeOut("sweep", entry, "reply")
       ELSE Goto("sweep", "reply") /\ UNCHANGED <<entry, then, target>>
    /\ UNCHANGED <<taskRest, gateVars, chats, replay>>

\* stop_locked_if looks again, now with the gate.
SweepPick ==
    /\ pc["sweep"] = "op"
    /\ IF entry # 0 /\ Eligible(entry) THEN TakeOut("sweep", entry, "reply")
       ELSE Goto("sweep", "reply") /\ UNCHANGED <<entry, then, target>>
    /\ UNCHANGED <<taskRest, gateVars, chats, replay>>

SweepDone ==
    /\ pc["sweep"] = "reply"
    /\ Release("sweep")
    /\ Goto("sweep", "idle")
    /\ target' = [target EXCEPT !["sweep"] = 0]
    /\ UNCHANGED <<taskRest, chats, entry, then, replay>>

-----------------------------------------------------------------------------
(* The end: a signal, the accept loop, Registry::shutdown. *)

mainRest == <<file, faults, chatVars, lock, gateVars, wireVars, replay>>

Signal ==
    /\ plan["main"] # << >>
    /\ plan' = [plan EXCEPT !["main"] = << >>]
    /\ accepting' = FALSE
    /\ UNCHANGED <<mainRest, reader, lane, entry, stopping, pc, then, target>>

Signalled ==
    /\ ~accepting /\ ~stopping /\ Active = {}
    /\ stopping' = TRUE
    /\ UNCHANGED <<mainRest, readVars, entry, accepting, pc, then, target>>

\* (Mutant of ShutdownAll: the chats are left as they are.)
ShutdownNone ==
    /\ pc["main"] = "idle" /\ stopping /\ Active = {}
    /\ Goto("main", "reply")
    /\ UNCHANGED <<mainRest, readVars, mainVars, entry, then, target>>

\* The accept loop ends with the next connection, which a shutdown makes itself.
ShutdownAll ==
    /\ pc["main"] = "idle" /\ stopping /\ Active = {}
    /\ IF entry = 0 THEN Goto("main", "reply") /\ UNCHANGED <<entry, then, target>>
       ELSE TakeOut("main", entry, "reply")
    /\ UNCHANGED <<mainRest, readVars, mainVars>>

Exited == pc["main"] = "reply"

-----------------------------------------------------------------------------
Open(c) ==
    \/ OpenWarm(c) \/ OpenStale(c) \/ OpenCold(c) \/ ProbedLate(c) \/ Probed(c) \/ Drop(c)
    \/ AttachRefused(c) \/ Attach(c) \/ Replay(c) \/ AttachEnd(c)
Task(c) ==
    \/ Skip(c) \/ Begin(c) \/ Detach(c) \/ Reply(c) \/ Missing(c) \/ Send(c) \/ Set(c)
    \/ Stop(c) \/ Open(c)
Reading(c) == Shutdown(c) \/ Forget(c) \/ (~open[c] /\ Hangup(c))
Shut(a) == Mark(a) \/ Farewell(a)
Sweep == SweepLook \/ SweepPick \/ SweepDone
Thread(k) == Handle(k) \/ Halt(k) \/ Copy(k) \/ Deliver(k)

Next ==
    \/ \E c \in Conns : \/ Submit(c) \/ Refuse(c) \/ SubmitShutdown(c) \/ Shutdown(c)
                       \/ Hangup(c) \/ Forget(c) \/ Task(c)
    \/ \E a \in Actors : LockGate(a) \/ Shut(a)
    \/ \E k \in DOMAIN chats : Thread(k) \/ Heard(k)
    \/ Sweep \/ Signal \/ Signalled \/ ShutdownAll

Spec == Init /\ [][Next]_vars

\* The daemon goes on while any of its threads can: less than the scheduling of
\* every thread, and enough because clients and providers act a bounded number
\* of times.  Nothing obliges a client to ask, to read or to hang up, or a
\* provider to speak.
Daemon ==
    \/ \E c \in Conns : Task(c) \/ Reading(c)
    \/ \E a \in Actors : LockGate(a) \/ Shut(a)
    \/ \E k \in DOMAIN chats : Thread(k)
    \/ Sweep \/ Signalled \/ ShutdownAll
FairSpec == Spec /\ WF_vars(Daemon)

-----------------------------------------------------------------------------
(* Properties. *)

Up(k) == ~chats[k].ended

\* Every variable has its type.
TypeOK ==
    /\ file \in File
    /\ chats \in Seq([status : {"waiting", "busy", "stopped"}, ended : BOOLEAN,
                      inbox : Seq([op : {"settings", "launch", "configure", "send", "stop"},
                                   conn : Conns \cup {"none"}]),
                      todo : Seq(Nat), telling : SUBSET DOMAIN listeners,
                      acks : SUBSET Conns, seq : Nat, owns : BOOLEAN,
                      listeners : SUBSET DOMAIN listeners, alone : BOOLEAN, stopping : BOOLEAN])
    /\ listeners \in Seq([conn : Conns, next : Nat])
    /\ entry \in 0 .. Len(chats) /\ lock \in 0 .. Len(chats)
    /\ gate \in 0 .. Cardinality(Actors)
    /\ want \in [Actors -> 0 .. Cardinality(Actors)]
    /\ holder \in [GateIds -> Actors \cup {"none"}]
    /\ open \in [Conns -> BOOLEAN] /\ gone \in [Conns -> BOOLEAN]
    /\ reader \in [Conns -> {"reading", "draining", "closing", "ended"}]
    /\ plan \in [Peers -> Seq(AllOps)] /\ faults \in 0 .. MaxFaults
    /\ lane \in [Conns -> Seq(AllOps)]
    /\ accepting \in BOOLEAN /\ stopping \in BOOLEAN
    /\ pc \in [Actors -> {"idle", "wait", "op", "asked", "configured", "probe", "launched",
                          "attach", "replay", "drop", "mark", "join", "reply"}]
    /\ then \in [Actors -> {"reply", "drop", "probe"}]
    /\ target \in [Actors -> 0 .. Len(chats)]
    /\ replay \in [Conns -> Seq(Nat)]

\* The registry holds at most one conductor for a session: two would write one
\* log (Registry::with_lifecycle, shut joins the thread before an open goes on).
OneConductor ==
    \A j, k \in DOMAIN chats : Up(j) /\ Up(k) => j = k

\* Wherever a write stops, the log can be read to its end, and every event a
\* client was told of is in it (Appender::append, repair_tail, Chat::record).
LogKept ==
    /\ ~LoadError(file)
    /\ \A l \in DOMAIN listeners : listeners[l].next <= Prefix(file) + 1

\* An event that is in the log and that a listener has not had is still to be
\* published to it: nothing falls between replay and subscription (Live::attach).
NoGap ==
    \A k \in DOMAIN chats : \A l \in chats[k].listeners :
        \A e \in listeners[l].next .. chats[k].seq :
            \E i \in DOMAIN chats[k].todo :
                /\ chats[k].todo[i] = e
                /\ i = 1 /\ chats[k].telling # {} => l \in chats[k].telling

\* A chat that the sweep puts down while it is up has nobody listening and
\* nobody waiting for it: the second look and the gate see to it (reap).
ReapedAlone ==
    \A k \in DOMAIN chats :
        /\ pc["sweep"] \in {"mark", "join"} /\ target["sweep"] = k
        /\ chats[k].status # "stopped"
        => chats[k].listeners = {} /\ chats[k].acks = {}

\* A connection that was forgotten listens to nothing: otherwise its chat would
\* never be cold (talk, Live::attach).
NoneLeft ==
    \A c \in Conns :
        reader[c] = "ended" /\ entry # 0 /\ lock # entry
        => \A l \in chats[entry].listeners : listeners[l].conn # c

\* When the daemon exits, every request was served and every chat has ended;
\* only one that the sweep is putting down may be left (run, close_and_wait).
ExitsClean ==
    Exited => /\ Active = {}
              /\ \A k \in DOMAIN chats :
                    Up(k) => target["sweep"] = k /\ pc["sweep"] \in {"mark", "join"}

\* No request waits for ever: not on a gate, a lane, a listener list, a chat
\* that ended, or a client that does not read.
Answered == Active # {} ~> Active = {}

\* Who listens to a chat that has ended and has not been told.
Untold ==
    {c \in Conns : open[c] /\ ~gone[c] /\ \E k \in DOMAIN chats :
        ~Up(k) /\ \E l \in chats[k].listeners : listeners[l].conn = c}

\* A client that listens to a chat is told when it ends, also when it ends by
\* itself (Live::farewell, Registry::reap).
EndIsTold == Untold # {} ~> Untold = {} \/ Exited

\* A chat that nobody listens to any more is put down unless it is busy.
PutDown ==
    (entry # 0 /\ \A c \in Conns : reader[c] = "ended" /\ lane[c] = << >>)
    ~> (entry = 0 \/ stopping \/ (entry # 0 /\ chats[entry].status = "busy"))
=============================================================================
