--------------------------- MODULE RegistryProofs ---------------------------
(***************************************************************************)
(* What Registry promises of every state, for any number of connections,   *)
(* any plans and any bounds.                                               *)
(*                                                                         *)
(* The inductive invariant is Inv.  Gated says that everybody who refers   *)
(* to a gate refers to one gate, and that who works on the session holds   *)
(* it; Owned, that a chat which is up is in the map or is being put down   *)
(* by the one thread that took it out; Closing, that nothing is served     *)
(* once the daemon stops; Awaited, that whoever waits for a chat waits for *)
(* the one in the map, once; Logged, that the log is the events in         *)
(* sequence up to what a chat has counted, wherever a write stopped;       *)
(* Subscribed, that what a listener has not had is still to be published,  *)
(* also for the listener that an attach is about to add; and Deserted,     *)
(* that closed connections are in no list once they are forgotten.         *)
(*                                                                         *)
(* First come lemmas about the file and the records, then one lemma for    *)
(* each group of actions, then the theorems.                               *)
(***************************************************************************)
EXTENDS Registry, FiniteSetTheorems, SequenceTheorems, TLAPS

(***************************************************************************)
(* The inductive invariant. *)

ChatRec ==
    [status : {"waiting", "busy", "stopped"}, ended : BOOLEAN,
     inbox : Seq([op : {"settings", "launch", "configure", "send", "stop"},
                  conn : Conns \cup {"none"}]),
     todo : Seq(Nat), telling : SUBSET Nat, acks : SUBSET Conns, seq : Nat, owns : BOOLEAN,
     listeners : SUBSET Nat, alone : BOOLEAN, stopping : BOOLEAN]

Cursor == [conn : Conns, next : Nat \ {0}]
Places == {"idle", "wait", "op", "asked", "configured", "probe", "launched",
           "attach", "replay", "drop", "mark", "join", "reply"}
Waits == {"asked", "configured", "launched"}
Putting(a) == pc[a] \in {"mark", "join"}
Inside(a) == want[a] # 0 /\ pc[a] # "wait"

Types ==
    /\ chats \in Seq(ChatRec)
    /\ listeners \in Seq(Cursor)
    /\ entry \in 0 .. Len(chats)
    /\ gate \in GateIds \cup {0}
    /\ want \in [Actors -> GateIds \cup {0}]
    /\ holder \in [GateIds -> Actors \cup {"none"}]
    /\ open \in [Conns -> BOOLEAN]
    /\ reader \in [Conns -> {"reading", "draining", "closing", "ended"}]
    /\ lane \in [Conns -> Seq(AllOps)] /\ plan \in [Peers -> Seq(AllOps)]
    /\ accepting \in BOOLEAN /\ stopping \in BOOLEAN
    /\ pc \in [Actors -> Places]
    /\ then \in [Actors -> {"reply", "drop", "probe"}]
    /\ target \in [Actors -> Nat]
    /\ replay \in [Conns -> Seq(Nat)]

\* with_lifecycle: everybody refers to one gate, and who works on the session
\* has locked it.
Gated ==
    /\ \A a \in Actors : want[a] # 0 => want[a] = gate
    /\ \A a \in Actors : Inside(a) => holder[gate] = a
    /\ \A a \in Actors \ {"main"} :
          /\ pc[a] = "idle" => want[a] = 0
          /\ pc[a] \notin {"idle", "reply"} => want[a] # 0
    /\ want["main"] = 0

Closing ==
    /\ stopping => ~accepting /\ \A c \in Conns : lane[c] = << >>
    /\ \A c \in Conns : reader[c] = "draining" => ~accepting
    /\ \A c \in Conns : pc[c] # "idle" => lane[c] # << >>
    /\ pc["main"] # "idle" => stopping /\ entry = 0
    /\ pc["main"] \in {"idle", "mark", "join", "reply"}
    /\ pc["sweep"] \in {"idle", "wait", "op", "mark", "join", "reply"}

Owned ==
    /\ \A k \in DOMAIN chats : Up(k) => k = entry \/ \E a \in Actors : Putting(a) /\ target[a] = k
    /\ \A a \in Actors : Putting(a) => entry = 0 /\ target[a] \in DOMAIN chats
    /\ \A a, b \in Actors : Putting(a) /\ Putting(b) => a = b
    /\ \A a \in Actors : pc[a] = "mark" => ~chats[target[a]].stopping
    /\ entry # 0 => ~chats[entry].stopping
    /\ \A c \in Conns :
          /\ pc[c] \in {"configured", "launched", "attach", "replay", "drop"} => entry = target[c]
          /\ pc[c] \in {"asked", "configured", "launched", "attach", "replay", "drop"} => entry # 0
          /\ pc[c] = "probe" => entry = 0
          /\ pc[c] \in {"idle", "wait", "op", "asked", "configured"} => then[c] = "reply"
          /\ pc[c] \in {"launched", "attach", "replay"} => then[c] \in {"reply", "drop"}
          /\ Putting(c) => then[c] \in {"reply", "probe"}
    /\ then["sweep"] = "reply" /\ then["main"] = "reply"

Awaited ==
    \A k \in DOMAIN chats :
        /\ \A c \in Waiters(chats[k]) \cup chats[k].acks : pc[c] \in Waits /\ entry = k
        /\ Waiters(chats[k]) \cap chats[k].acks = {}
        /\ \A i \in DOMAIN chats[k].inbox :
              /\ chats[k].inbox[i].op # "stop" => chats[k].inbox[i].conn \in Conns
              /\ \A j \in DOMAIN chats[k].inbox :
                  i < j /\ chats[k].inbox[i].conn = chats[k].inbox[j].conn => chats[k].inbox[i].op \in {"settings", "stop"}

Ident(n) == [i \in 1 .. n |-> i]
Intact(f) ==
    /\ f.lines = Ident(Len(f.lines))
    /\ f.tail \in {<< >>, <<Bad>>, <<Len(f.lines) + 1>>}
Logged ==
    /\ file \in File /\ Intact(file)
    /\ \A k \in DOMAIN chats :
        /\ chats[k].seq <= Prefix(file)
        /\ \A i \in DOMAIN chats[k].todo : chats[k].todo[i] <= chats[k].seq
        /\ chats[k].ended => chats[k].status = "stopped" /\ chats[k].todo = << >>
        /\ Up(k) /\ chats[k].status = "stopped" => chats[k].todo # << >>
        /\ chats[k].status # "stopped" => chats[k].seq = Prefix(file)
        /\ chats[k].status # "stopped" /\ chats[k].owns => file.tail = << >>
        /\ chats[k].telling # {} => chats[k].todo # << >>
    /\ \A l \in DOMAIN listeners : listeners[l].next <= Prefix(file) + 1
    /\ \A c \in Conns : \A i \in DOMAIN replay[c] : replay[c][i] <= Prefix(file)

\* What a listener l of chat k has still to get, and that it will: the event e
\* is among those to publish, and l is told of it.
Coming(k, l, e) ==
    \E i \in DOMAIN chats[k].todo :
        chats[k].todo[i] = e /\ (i = 1 /\ chats[k].telling # {} => l \in chats[k].telling)
ComingNew(k, e) ==
    \E i \in DOMAIN chats[k].todo : chats[k].todo[i] = e /\ (i = 1 => chats[k].telling = {})

Subscribed ==
    /\ \A k \in DOMAIN chats : chats[k].listeners \cup chats[k].telling \subseteq DOMAIN listeners
    /\ NoGap
    /\ \A c \in Conns : pc[c] = "replay" =>
        /\ lock = target[c]
        /\ listeners # << >> /\ listeners[Mine].conn = c
        /\ \A k \in DOMAIN chats : Mine \notin chats[k].listeners \cup chats[k].telling
        /\ \A i \in DOMAIN replay[c] : replay[c][i] = listeners[Mine].next + i - 1
        /\ \A e \in listeners[Mine].next + Len(replay[c]) .. chats[target[c]].seq :
              ComingNew(target[c], e)

Deserted ==
    /\ \A c \in Conns : reader[c] \in {"closing", "ended"} => ~open[c]
    /\ entry # 0 => \A l \in chats[entry].listeners : reader[listeners[l].conn] # "ended"
    /\ \A k \in DOMAIN chats : chats[k].alone => chats[k].listeners = {}
    /\ Putting("sweep") /\ chats[target["sweep"]].status # "stopped" => chats[target["sweep"]].listeners = {}

-----------------------------------------------------------------------------
(* The file. *)

\* What a whole tail adds to the complete lines of a log.
Unfinished(f) == IF f.tail = <<Len(f.lines) + 1>> THEN 1 ELSE 0

\* Store::open reads a log of events in sequence to its end, and a tail that
\* merely lacks its newline counts.
LEMMA IntactRecords ==
    ASSUME NEW f \in File, Intact(f)
    PROVE  /\ Records(f) = Ident(Len(f.lines) + Unfinished(f))
           /\ Len(f.lines) \in Nat
<1> DEFINE n == Len(f.lines)
<1>1. n \in Nat /\ f.lines \in Seq(Nat) /\ f.lines = Ident(n) BY DEF File, Intact
<1>2. Bad \notin Range(f.lines)
  <2>1. \A i \in DOMAIN f.lines : f.lines[i] = i /\ i \in 1 .. n BY <1>1 DEF Ident
  <2> QED BY <2>1 DEF Range, Bad
<1>3. CASE f.tail = <<n + 1>>
  <2>1. Whole(f) BY <1>1, <1>3 DEF Whole, Bad
  <2>2. f.lines \o <<n + 1>> = Ident(n + 1) BY <1>1 DEF Ident
  <2> QED BY <2>1, <2>2, <1>1, <1>2, <1>3 DEF Records, Unfinished
<1>4. CASE f.tail = << >>
  <2>1. ~Whole(f) BY <1>4 DEF Whole
  <2>2. f.tail # <<n + 1>> BY <1>4, <1>1
  <2>3. Unfinished(f) = 0 /\ n + 0 = n BY <2>2, <1>1 DEF Unfinished
  <2> QED BY <2>1, <2>3, <1>1 DEF Records
<1>5. CASE f.tail = <<Bad>>
  <2>1. ~Whole(f) BY <1>5 DEF Whole
  <2>2. f.tail # <<n + 1>> BY <1>5, <1>1 DEF Bad
  <2>3. Unfinished(f) = 0 /\ n + 0 = n BY <2>2, <1>1 DEF Unfinished
  <2> QED BY <2>1, <2>3, <1>1 DEF Records
<1> QED BY <1>1, <1>3, <1>4, <1>5 DEF Intact

\* ... so its prefix is all of it, and it loads.
LEMMA IntactPrefix ==
    ASSUME NEW f \in File, Intact(f)
    PROVE  /\ Prefix(f) = Len(f.lines) + Unfinished(f) /\ Prefix(f) \in Nat
           /\ ~LoadError(f)
<1> DEFINE r == Len(f.lines) + Unfinished(f)
           P(n) == Good(f, n) /\ (n < Len(Records(f)) => ~Good(f, n + 1))
<1>0. Unfinished(f) \in {0, 1} BY DEF Unfinished
<1>1. r \in Nat /\ Records(f) = Ident(r) BY <1>0, IntactRecords
<1> HIDE DEF r
<1>2. Len(Records(f)) = r BY <1>1 DEF Ident
<1>3. \A n \in 0 .. r : Good(f, n)
  <2> SUFFICES ASSUME NEW n \in 0 .. r, NEW i \in 1 .. n PROVE Records(f)[i] = i BY DEF Good
  <2> QED BY <1>1 DEF Ident
<1>4. r \in 0 .. r /\ P(r) BY <1>1, <1>2, <1>3
<1>5. \A n \in 0 .. r : P(n) => n = r BY <1>1, <1>2, <1>3
<1> HIDE DEF P
<1>6. Prefix(f) = CHOOSE n \in 0 .. r : P(n) BY <1>2 DEF Prefix, P
<1>7. Prefix(f) = r BY <1>4, <1>5, <1>6
<1> QED BY <1>1, <1>2, <1>7 DEF LoadError, r

\* A file is its lines and its tail.
LEMMA FileIs ==
    ASSUME NEW ls \in Seq(Nat), NEW t \in Seq(Nat), Len(t) <= 1
    PROVE  [lines |-> ls, tail |-> t] \in File
BY DEF File

\* One more event in sequence.
LEMMA NextIdent ==
    ASSUME NEW n \in Nat
    PROVE  Ident(n) \o <<n + 1>> = Ident(n + 1)
<1> DEFINE s == Ident(n)
           t == <<n + 1>>
<1>1. /\ s \in Seq(Nat) /\ Len(s) = n /\ (\A i \in 1 .. n : s[i] = i)
      /\ Ident(n + 1) \in Seq(Nat) /\ Len(Ident(n + 1)) = n + 1 /\ (\A i \in 1 .. n + 1 : Ident(n + 1)[i] = i)
    BY DEF Ident
<1>2. t \in Seq(Nat) /\ Len(t) = 1 /\ t[1] = n + 1 OBVIOUS
<1> HIDE DEF s, t
<1>3. /\ s \o t \in Seq(Nat) /\ Len(s \o t) = n + 1
      /\ \A i \in 1 .. n + 1 : (s \o t)[i] = IF i <= n THEN s[i] ELSE t[i - n]
  <2>1. /\ s \o t \in Seq(Nat) /\ Len(s \o t) = Len(s) + Len(t)
        /\ \A i \in 1 .. Len(s) + Len(t) : (s \o t)[i] = IF i <= Len(s) THEN s[i] ELSE t[i - Len(s)]
    <3>1. s \in Seq(Nat) /\ t \in Seq(Nat) BY <1>1, <1>2
    <3> QED BY <3>1, ConcatProperties
  <2>2. Len(s) = n /\ Len(s) + Len(t) = n + 1 BY <1>1, <1>2
  <2> QED BY <2>1, <2>2, Zenon
<1>4. \A i \in 1 .. n + 1 : (s \o t)[i] = i
  <2> TAKE i \in 1 .. n + 1
  <2>1. CASE i <= n BY <1>1, <1>3, <2>1
  <2>2. CASE i = n + 1
    <3>1. ~(i <= n) /\ i - n = 1 BY <2>2
    <3> QED BY <1>2, <1>3, <2>2, <3>1
  <2>3. i \in Nat /\ (i <= n \/ i = n + 1) OBVIOUS
  <2> QED BY <2>1, <2>2, <2>3
<1>5. s \o t = Ident(n + 1)
    BY <1>1, <1>3, <1>4, SeqEqual
<1> QED BY <1>5 DEF s, t

\* A log of n events in sequence with an empty tail, and what each of the
\* places a write may stop at makes of it.
LEMMA Outcomes ==
    ASSUME NEW g \in File, NEW n \in Nat, g.lines = Ident(n), g.tail = << >>
    PROVE  /\ Intact(g) /\ Prefix(g) = n
           /\ Torn(g) \in File /\ Intact(Torn(g)) /\ Prefix(Torn(g)) = n
           /\ Unended(g, n + 1) \in File /\ Intact(Unended(g, n + 1)) /\ Prefix(Unended(g, n + 1)) = n + 1
           /\ Ended(g, n + 1) \in File /\ Intact(Ended(g, n + 1)) /\ Prefix(Ended(g, n + 1)) = n + 1
           /\ Ended(g, n + 1).tail = << >>
<1>0. Ident(n) \in Seq(Nat) /\ Len(Ident(n)) = n BY DEF Ident
<1>1. Intact(g) /\ Unfinished(g) = 0
  <2>1. g.tail # <<n + 1>> OBVIOUS
  <2> QED BY <1>0, <2>1 DEF Intact, Unfinished
<1>2. Torn(g) \in File /\ Intact(Torn(g)) /\ Unfinished(Torn(g)) = 0 /\ Torn(g).lines = g.lines
  <2>1. <<Bad>> \in Seq(Nat) /\ Len(<<Bad>>) = 1 /\ <<Bad>> # <<n + 1>> BY DEF Bad
  <2>2. Torn(g).lines = g.lines /\ Torn(g).tail = <<Bad>> BY DEF Torn, File
  <2>3. Torn(g) = [lines |-> g.lines, tail |-> <<Bad>>] /\ g.lines \in Seq(Nat) BY DEF Torn, File
  <2>4. Torn(g) \in File
    <3> DEFINE t == <<Bad>>
    <3>1. t \in Seq(Nat) /\ Len(t) <= 1 BY <2>1
    <3>2. Torn(g) = [lines |-> g.lines, tail |-> t] BY <2>3
    <3> HIDE DEF t
    <3> QED BY <3>1, <3>2, <2>3, FileIs
  <2> QED BY <1>0, <2>1, <2>2, <2>4 DEF Intact, Unfinished
<1>3. /\ Unended(g, n + 1) \in File /\ Intact(Unended(g, n + 1))
      /\ Unfinished(Unended(g, n + 1)) = 1 /\ Unended(g, n + 1).lines = g.lines
  <2>1. <<n + 1>> \in Seq(Nat) /\ Len(<<n + 1>>) = 1 OBVIOUS
  <2>2. Unended(g, n + 1).lines = g.lines /\ Unended(g, n + 1).tail = <<n + 1>> BY DEF Unended, Line, File
  <2>3. Unended(g, n + 1) = [lines |-> g.lines, tail |-> <<n + 1>>] /\ g.lines \in Seq(Nat)
      BY DEF Unended, Line, File
  <2>4. Unended(g, n + 1) \in File
    <3> DEFINE t == <<n + 1>>
    <3>1. t \in Seq(Nat) /\ Len(t) <= 1 BY <2>1
    <3>2. Unended(g, n + 1) = [lines |-> g.lines, tail |-> t] BY <2>3
    <3> HIDE DEF t
    <3> QED BY <3>1, <3>2, <2>3, FileIs
  <2> QED BY <1>0, <2>1, <2>2, <2>4 DEF Intact, Unfinished
<1>4. /\ Ended(g, n + 1) \in File /\ Intact(Ended(g, n + 1)) /\ Unfinished(Ended(g, n + 1)) = 0
      /\ Len(Ended(g, n + 1).lines) = n + 1 /\ Ended(g, n + 1).tail = << >>
  <2>1. Append(Ident(n), n + 1) = Ident(n + 1) BY DEF Ident
  <2>2. Ident(n + 1) \in Seq(Nat) /\ Len(Ident(n + 1)) = n + 1 BY DEF Ident
  <2>3. Ended(g, n + 1).lines = Ident(n + 1) /\ Ended(g, n + 1).tail = << >> BY <2>1 DEF Ended, Line
  <2>4. << >> \in Seq(Nat) /\ Len(<< >>) <= 1 /\ << >> # <<n + 2>> OBVIOUS
  <2>5. Ended(g, n + 1) \in File BY <2>1, <2>2, <2>4 DEF Ended, Line, File
  <2>6. Ended(g, n + 1).lines = Ident(Len(Ended(g, n + 1).lines)) BY <2>2, <2>3
  <2>7. Ended(g, n + 1).tail # <<Len(Ended(g, n + 1).lines) + 1>> BY <2>3
  <2> QED BY <2>2, <2>3, <2>5, <2>6, <2>7 DEF Intact, Unfinished
<1>5. Prefix(g) = n BY <1>0, <1>1, IntactPrefix
<1>6. Prefix(Torn(g)) = n BY <1>0, <1>2, IntactPrefix
<1>7. Prefix(Unended(g, n + 1)) = n + 1 BY <1>0, <1>3, IntactPrefix
<1>8. Prefix(Ended(g, n + 1)) = n + 1 BY <1>4, IntactPrefix
<1> QED BY <1>1, <1>2, <1>3, <1>4, <1>5, <1>6, <1>7, <1>8

\* Where Appender::append finds a tail, repair_tail and the newline in front of
\* the record leave a log of the same events that ends with a newline.
LEMMA Starting ==
    ASSUME NEW f \in File, Intact(f), NEW owns \in BOOLEAN, owns => f.tail = << >>
    PROVE  LET r == IF owns THEN f ELSE RepairTail(f)
               g == Start(r, ~owns /\ Whole(f))
           IN  /\ r \in File /\ Intact(r) /\ Prefix(r) = Prefix(f)
               /\ g \in File /\ g.lines = Ident(Prefix(f)) /\ g.tail = << >>
<1> DEFINE r == IF owns THEN f ELSE RepairTail(f)
           g == Start(r, ~owns /\ Whole(f))
           n == Len(f.lines)
<1>0. n \in Nat /\ f.lines = Ident(n) /\ f.lines \in Seq(Nat) BY DEF File, Intact
<1>1. CASE f.tail = << >>
  <2>1. ~Whole(f) /\ r = f /\ g = f BY <1>1 DEF Whole, RepairTail, Start, File
  <2>2. Unfinished(f) = 0 BY <1>1 DEF Unfinished
  <2>3. Prefix(f) = n BY <1>0, <2>2, IntactPrefix
  <2> QED BY <1>0, <1>1, <2>1, <2>3
<1>2. CASE f.tail = <<Bad>>
  <2>1. ~Whole(f) /\ ~owns BY <1>2 DEF Whole
  <2>2. r.lines = f.lines /\ r.tail = << >> /\ g = r BY <2>1 DEF RepairTail, Start, File
  <2>3. r = [lines |-> f.lines, tail |-> << >>] BY <2>1 DEF RepairTail, File
  <2>7. r \in File
    <3> DEFINE t == << >>
    <3>1. t \in Seq(Nat) /\ Len(t) <= 1 OBVIOUS
    <3>2. r = [lines |-> f.lines, tail |-> t] BY <2>3
    <3> HIDE DEF t, r
    <3> QED BY <3>1, <3>2, <1>0, FileIs
  <2> HIDE DEF r
  <2>4. Intact(r) /\ Unfinished(r) = 0 BY <1>0, <2>2 DEF Intact, Unfinished
  <2>5. Unfinished(f) = 0 BY <1>0, <1>2 DEF Unfinished, Bad
  <2>6. Prefix(r) = n /\ Prefix(f) = n BY <1>0, <2>2, <2>7, <2>4, <2>5, IntactPrefix
  <2> QED BY <1>0, <2>2, <2>7, <2>4, <2>6 DEF r
<1>3. CASE f.tail = <<n + 1>>
  <2>1. Whole(f) /\ ~owns /\ r = f BY <1>0, <1>3 DEF Whole, RepairTail, Bad
  <2>2. Unfinished(f) = 1 BY <1>3 DEF Unfinished
  <2>3. Prefix(f) = n + 1 BY <1>0, <2>2, IntactPrefix
  <2>8. g = Newline(f) /\ f.tail # << >>
    <3>1. g = Newline(r) BY <2>1 DEF Start
    <3> QED BY <1>3, <2>1, <3>1
  <2>4. g = [lines |-> f.lines \o f.tail, tail |-> << >>] BY <2>8 DEF Newline
  <2>5. f.lines \o <<n + 1>> = Ident(n + 1) BY <1>0, NextIdent
  <2>6. Ident(n + 1) \in Seq(Nat) BY <1>0 DEF Ident
  <2>9. g = [lines |-> Ident(n + 1), tail |-> << >>] BY <1>3, <2>4, <2>5
  <2>7. g.lines = Ident(n + 1) /\ g.tail = << >> /\ g \in File
    <3> DEFINE t == << >>
    <3>1. t \in Seq(Nat) /\ Len(t) <= 1 OBVIOUS
    <3>2. g = [lines |-> Ident(n + 1), tail |-> t] BY <2>9
    <3>3. g.lines = Ident(n + 1) /\ g.tail = << >> BY <2>9
    <3> HIDE DEF t, g
    <3> QED BY <3>1, <3>2, <3>3, <2>6, FileIs
  <2> QED BY <2>1, <2>3, <2>7
<1> QED BY <1>1, <1>2, <1>3 DEF Intact

\* A record that is written is the next one of the log ...
LEMMA WrittenNext ==
    ASSUME NEW f \in File, Intact(f), NEW owns \in BOOLEAN, owns => f.tail = << >>
    PROVE  LET g == Written(IF owns THEN f ELSE RepairTail(f), ~owns /\ Whole(f), Prefix(f) + 1)
           IN  g \in File /\ Intact(g) /\ Prefix(g) = Prefix(f) + 1 /\ g.tail = << >>
<1> Prefix(f) \in Nat BY IntactPrefix
<1> QED BY Starting, Outcomes DEF Written

\* ... and one that fails, wherever it stops, loses nothing.
LEMMA FailureKeeps ==
    ASSUME NEW f \in File, Intact(f), NEW owns \in BOOLEAN, owns => f.tail = << >>,
           NEW g \in Failures(IF owns THEN f ELSE RepairTail(f), ~owns /\ Whole(f), Prefix(f) + 1)
    PROVE  g \in File /\ Intact(g) /\ Prefix(g) >= Prefix(f)
<1> DEFINE r == IF owns THEN f ELSE RepairTail(f)
           s == Start(r, ~owns /\ Whole(f))
           n == Prefix(f)
<1>1. n \in Nat BY IntactPrefix
<1>2. /\ r \in File /\ Intact(r) /\ Prefix(r) = n
      /\ s \in File /\ s.lines = Ident(n) /\ s.tail = << >> BY Starting
<1>3. g \in {r, s, Torn(s), Unended(s, n + 1), Ended(s, n + 1)} BY DEF Failures
<1> HIDE DEF r, s, n
<1> QED BY <1>1, <1>2, <1>3, Outcomes DEF n

-----------------------------------------------------------------------------
(* The records of chats keep their type. *)

\* One chat of the registry changes.
LEMMA OneChanges ==
    ASSUME chats \in Seq(ChatRec), NEW k \in DOMAIN chats, NEW d \in ChatRec
    PROVE  /\ [chats EXCEPT ![k] = d] \in Seq(ChatRec)
           /\ Len([chats EXCEPT ![k] = d]) = Len(chats)
           /\ DOMAIN [chats EXCEPT ![k] = d] = DOMAIN chats
OBVIOUS

\* A chat that a client stops to listen to, and nothing else of it changes.
LEMMA UnlistenType ==
    ASSUME NEW k, chats[k] \in ChatRec, NEW c
    PROVE  LET d == Unlisten(k, c)
           IN  /\ d \in ChatRec
               /\ d = [chats[k] EXCEPT !.listeners = d.listeners, !.alone = d.alone]
               /\ d.listeners = {l \in chats[k].listeners : listeners[l].conn # c}
               /\ d.alone = IF d.listeners = {} THEN TRUE ELSE chats[k].alone
BY DEF Unlisten, ChatRec

\* A chat that gets a wake, unless it has ended.
LEMMA PostedType ==
    ASSUME NEW k, chats[k] \in ChatRec,
           NEW w \in [op : {"settings", "launch", "configure", "send", "stop"}, conn : Conns \cup {"none"}]
    PROVE  /\ Posted(k, w) \in ChatRec
           /\ Posted(k, w) = [chats[k] EXCEPT !.inbox = Posted(k, w).inbox]
           /\ Posted(k, w).inbox = IF chats[k].ended THEN chats[k].inbox ELSE Append(chats[k].inbox, w)
<1>1. chats[k].inbox \in Seq([op : {"settings", "launch", "configure", "send", "stop"},
                              conn : Conns \cup {"none"}])
    BY DEF ChatRec
<1>2. Append(chats[k].inbox, w) \in Seq([op : {"settings", "launch", "configure", "send", "stop"},
                                         conn : Conns \cup {"none"}])
    BY <1>1
<1> QED BY <1>1, <1>2 DEF Posted, ChatRec

\* A chat that is over for a failure.
LEMMA FailedType ==
    ASSUME NEW ch \in ChatRec
    PROVE  /\ Failed(ch) \in ChatRec
           /\ Failed(ch) = [ch EXCEPT !.status = "stopped", !.todo = Append(ch.todo, 0)]
<1>1. Append(ch.todo, 0) \in Seq(Nat) BY DEF ChatRec
<1> QED BY <1>1 DEF Failed, Notice, ChatRec

\* A chat as Chat::run starts.
LEMMA NewChatType ==
    ASSUME NEW c \in Conns, file \in File, Intact(file)
    PROVE  NewChat(c) \in ChatRec
<1> DEFINE W == [op : {"settings", "launch", "configure", "send", "stop"}, conn : Conns \cup {"none"}]
           ib == <<[op |-> "settings", conn |-> c], [op |-> "launch", conn |-> c]>>
<1>1. ib \in Seq(W) OBVIOUS
<1>2. StoredSeq \in Nat BY IntactPrefix DEF StoredSeq
<1>3. NewChat(c) = [status |-> "waiting", ended |-> FALSE, todo |-> << >>, telling |-> {}, acks |-> {},
                    inbox |-> ib, seq |-> StoredSeq, owns |-> FALSE,
                    listeners |-> {}, alone |-> FALSE, stopping |-> FALSE] BY DEF NewChat
<1> HIDE DEF ib
<1> QED BY <1>1, <1>2, <1>3 DEF ChatRec

\* What Becomes leaves of a chat ...
Left(ch) ==
    IF ch.todo # << >> THEN ch
    ELSE [ch EXCEPT !.acks = {}, !.ended = (ch.status = "stopped"),
                    !.inbox = IF ch.status = "stopped" THEN << >> ELSE ch.inbox]

\* ... and whom it lets go on.
Freed(ch) ==
    IF ch.todo # << >> THEN {}
    ELSE IF ch.status = "stopped" THEN ch.acks \cup Waiters(ch) ELSE ch.acks

\* Its type, and the fields it has from the handler.
LEMMA LeftType ==
    ASSUME NEW ch \in ChatRec
    PROVE  /\ Left(ch) \in ChatRec
           /\ Left(ch).status = ch.status /\ Left(ch).todo = ch.todo /\ Left(ch).telling = ch.telling
           /\ Left(ch).seq = ch.seq /\ Left(ch).owns = ch.owns /\ Left(ch).listeners = ch.listeners
           /\ Left(ch).alone = ch.alone /\ Left(ch).stopping = ch.stopping
           /\ Left(ch).ended = IF ch.todo # << >> THEN ch.ended ELSE ch.status = "stopped"
           /\ Left(ch).acks = IF ch.todo # << >> THEN ch.acks ELSE {}
           /\ Left(ch).inbox = IF ch.todo = << >> /\ ch.status = "stopped" THEN << >> ELSE ch.inbox
<1>1. CASE ch.todo # << >> BY <1>1 DEF Left
<1>2. CASE ch.todo = << >>
  <2> DEFINE ib == IF ch.status = "stopped" THEN << >> ELSE ch.inbox
             en == ch.status = "stopped"
  <2>1. ib \in Seq([op : {"settings", "launch", "configure", "send", "stop"}, conn : Conns \cup {"none"}])
      BY DEF ChatRec
  <2>2. Left(ch) = [ch EXCEPT !.acks = {}, !.ended = en, !.inbox = ib] BY <1>2 DEF Left
  <2>3. en \in BOOLEAN OBVIOUS
  <2>4. en <=> ch.status = "stopped" OBVIOUS
  <2>5. ib = IF ch.status = "stopped" THEN << >> ELSE ch.inbox OBVIOUS
  <2> HIDE DEF ib, en
  <2>6. /\ Left(ch) \in ChatRec
        /\ Left(ch).status = ch.status /\ Left(ch).todo = ch.todo /\ Left(ch).telling = ch.telling
        /\ Left(ch).seq = ch.seq /\ Left(ch).owns = ch.owns /\ Left(ch).listeners = ch.listeners
        /\ Left(ch).alone = ch.alone /\ Left(ch).stopping = ch.stopping
        /\ Left(ch).ended = en /\ Left(ch).acks = {} /\ Left(ch).inbox = ib
      BY <2>1, <2>2, <2>3 DEF ChatRec
  <2>7. Left(ch).ended = (ch.status = "stopped") BY <2>6 DEF en
  <2> QED BY <1>2, <2>5, <2>6, <2>7
<1> QED BY <1>1, <1>2

\* A step of a chat, in those terms.
LEMMA BecomesIs ==
    ASSUME pc \in [Actors -> Places], NEW k, NEW ch, Becomes(k, ch)
    PROVE  /\ chats' = [chats EXCEPT ![k] = Left(ch)]
           /\ pc' = [a \in Actors |-> IF a \in Freed(ch) THEN Onward(a, ~(ch.status = "stopped")) ELSE pc[a]]
<1>1. CASE ch.todo # << >> BY <1>1 DEF Becomes, Left, Freed
<1>2. CASE ch.todo = << >>
  <2>1. chats' = [chats EXCEPT ![k] = Left(ch)] BY <1>2 DEF Becomes, Left
  <2>2. pc' = [a \in Actors |-> IF a \in Freed(ch) THEN Onward(a, ~(ch.status = "stopped")) ELSE pc[a]]
      BY <1>2 DEF Becomes, Freed
  <2> QED BY <2>1, <2>2
<1> QED BY <1>1, <1>2

-----------------------------------------------------------------------------
(* What the thread of a chat does. *)

\* The wake that a handler takes, and whom it will answer.
Hears(k, ch) ==
    \/ ch.inbox = chats[k].inbox /\ ch.acks = chats[k].acks
    \/ /\ chats[k].inbox # << >> /\ ch.inbox = Tail(chats[k].inbox)
       /\ \/ Head(chats[k].inbox).op = "settings" /\ ch.acks = {}
          \/ Head(chats[k].inbox).op \notin {"settings", "stop"} /\ ch.acks = {Head(chats[k].inbox).conn}
          \/ Head(chats[k].inbox).op = "stop" /\ ch.acks = chats[k].acks

\* What a handler makes of its chat before it records anything.
Handler(k, h) ==
    /\ ~chats[k].ended /\ chats[k].todo = << >> /\ h.todo = << >> /\ h.ended = chats[k].ended
    /\ h.seq = chats[k].seq /\ h.owns = chats[k].owns /\ h.telling = chats[k].telling
    /\ h.listeners = chats[k].listeners /\ h.alone = chats[k].alone /\ h.stopping = chats[k].stopping
    /\ Hears(k, h)

\* Chat::record succeeds, it fails, or there is nothing to record; an event is
\* for nobody, or for everyone who listens, and is told.
Recorded(k, ch) ==
    /\ ch.todo = <<chats[k].seq + 1>> /\ ch.seq = chats[k].seq + 1
    /\ ch.telling = chats[k].telling
    /\ file' \in File /\ Intact(file') /\ Prefix(file') = chats[k].seq + 1 /\ file'.tail = << >>
    /\ UNCHANGED listeners
Unrecorded(k, ch) ==
    /\ ch.todo = <<Notice>> /\ ch.seq = chats[k].seq /\ ch.status = "stopped"
    /\ ch.telling = chats[k].telling
    /\ file' \in File /\ Intact(file') /\ Prefix(file') >= Prefix(file)
    /\ UNCHANGED listeners
Silent(k, ch) ==
    /\ ch.todo = chats[k].todo /\ ch.seq = chats[k].seq /\ ch.owns = chats[k].owns
    /\ ch.telling = chats[k].telling /\ ch.status # "stopped"
    /\ UNCHANGED <<file, listeners>>
Hushed(k, ch) ==
    /\ chats[k].todo # << >> /\ chats[k].telling = {} /\ chats[k].listeners = {} /\ lock # k
    /\ ch = [chats[k] EXCEPT !.todo = Tail(chats[k].todo)]
    /\ UNCHANGED <<file, listeners>>
Announced(k, ch) ==
    /\ chats[k].todo # << >> /\ chats[k].telling = {} /\ lock # k
    /\ ch = [chats[k] EXCEPT !.telling = chats[k].listeners]
    /\ UNCHANGED <<file, listeners>>
Told(k, ch) ==
    /\ chats[k].telling # {}
    /\ ch = [chats[k] EXCEPT !.telling = {}, !.todo = Tail(chats[k].todo)]
    /\ listeners' = [l \in DOMAIN listeners |->
                        IF /\ l \in chats[k].telling
                           /\ Head(chats[k].todo) = Notice \/ Head(chats[k].todo) >= listeners[l].next
                           /\ Head(chats[k].todo) # Notice
                        THEN [listeners[l] EXCEPT !.next = Head(chats[k].todo) + 1]
                        ELSE listeners[l]]
    /\ UNCHANGED file

\* A step of the thread of chat k, before Becomes.
ChatStep(k, ch) ==
    /\ ~chats[k].ended /\ ch.ended = chats[k].ended
    /\ ch.listeners = chats[k].listeners /\ ch.alone = chats[k].alone /\ ch.stopping = chats[k].stopping
    /\ Hears(k, ch)
    /\ \/ chats[k].todo = << >> /\ (Recorded(k, ch) \/ Unrecorded(k, ch) \/ Silent(k, ch))
       \/ chats[k].todo # << >> /\ (Hushed(k, ch) \/ Announced(k, ch) \/ Told(k, ch))

Inv == Types /\ Gated /\ Closing /\ Owned /\ Awaited /\ Logged /\ Subscribed /\ Deserted

\* Chat::handle and Chat::run's events from the provider come to a handler and
\* what it records.
LEMMA Handlers ==
    ASSUME Inv, NEW k \in DOMAIN chats, Handle(k) \/ Heard(k) \/ Halt(k)
    PROVE  \E h \in ChatRec :
              /\ Handler(k, h)
              /\ \/ Becomes(k, h) /\ UNCHANGED <<file, faults>> /\ h.status # "stopped"
                 \/ Logs(k, h)
                 \/ Fails(k, h)
              /\ UNCHANGED <<listeners, wireVars, chatRest>>
<1> DEFINE c == chats[k]
           W == [op : {"settings", "launch", "configure", "send", "stop"}, conn : Conns \cup {"none"}]
<1>1. c \in ChatRec BY DEF Inv, Types
<1>2. c.inbox \in Seq(W) /\ c.acks \subseteq Conns BY <1>1 DEF ChatRec
<1>3. c.todo = << >> /\ ~c.ended => c.status # "stopped" BY DEF Inv, Logged, Up
<1>4. CASE Handle(k)
  <2> DEFINE w == Head(c.inbox)
             st == IF w.op = "send" THEN "busy" ELSE c.status
             ac == IF w.op = "settings" THEN {} ELSE {w.conn}
             h == [c EXCEPT !.inbox = Tail(c.inbox), !.status = st, !.acks = ac]
  <2>1. ~c.ended /\ c.todo = << >> /\ c.inbox # << >> /\ w.op # "stop" BY <1>4 DEF Handle, Ready, Wake
  <2>2. w \in W /\ Tail(c.inbox) \in Seq(W)
    <3> HIDE DEF W
    <3> QED BY <2>1, <1>2
  <2>3. w.conn \in Conns
    <3>1. 1 \in DOMAIN c.inbox /\ w = c.inbox[1] BY <1>2, <2>1
    <3> QED BY <2>1, <3>1 DEF Inv, Awaited
  <2>4. st \in {"waiting", "busy"} BY <1>1, <1>3, <2>1 DEF ChatRec
  <2>5. ac \subseteq Conns BY <2>3
  <2>6. \/ Becomes(k, h) /\ UNCHANGED <<file, faults>>
        \/ Logs(k, h) \/ Fails(k, h)
      BY <1>4 DEF Handle, Wake
  <2>7. UNCHANGED <<listeners, wireVars, chatRest>> BY <1>4 DEF Handle
  <2>8. \/ w.op = "settings" /\ ac = {}
        \/ w.op \notin {"settings", "stop"} /\ ac = {w.conn} BY <2>1
  <2> HIDE DEF st, ac, w
  <2>9. h \in ChatRec /\ h.status = st BY <1>1, <2>2, <2>4, <2>5 DEF ChatRec
  <2>10. Handler(k, h)
    <3>1. /\ h.inbox = Tail(c.inbox) /\ h.acks = ac /\ h.todo = c.todo /\ h.ended = c.ended
          /\ h.seq = c.seq /\ h.owns = c.owns /\ h.telling = c.telling
          /\ h.listeners = c.listeners /\ h.alone = c.alone /\ h.stopping = c.stopping
        BY <1>1 DEF ChatRec
    <3>2. Hears(k, h) BY <2>1, <2>8, <3>1 DEF Hears, w
    <3> QED BY <2>1, <3>1, <3>2 DEF Handler
  <2> HIDE DEF h
  <2> QED BY <2>4, <2>6, <2>7, <2>9, <2>10
<1>5. CASE Heard(k)
  <2>1. ~c.ended /\ c.todo = << >> BY <1>5 DEF Heard, Ready
  <2>2. PICK st \in {c.status, "waiting"} : Logs(k, [c EXCEPT !.status = st]) \/ Fails(k, [c EXCEPT !.status = st])
      BY <1>5 DEF Heard
  <2>3. UNCHANGED <<listeners, wireVars, chatRest>> BY <1>5 DEF Heard
  <2> DEFINE h == [c EXCEPT !.status = st]
  <2>4. h \in ChatRec BY <1>1, <1>3, <2>1, <2>2 DEF ChatRec
  <2>5. Handler(k, h) BY <1>1, <2>1 DEF Handler, Hears, ChatRec
  <2> QED BY <2>2, <2>3, <2>4, <2>5
<1>6. CASE Halt(k)
  <2> DEFINE h == [c EXCEPT !.inbox = Tail(c.inbox), !.status = "stopped"]
  <2>1. ~c.ended /\ c.todo = << >> /\ c.inbox # << >> /\ Head(c.inbox).op = "stop" BY <1>6 DEF Halt, Ready, Wake
  <2>2. Tail(c.inbox) \in Seq(W) BY <2>1, <1>2
  <2>3. Logs(k, h) \/ Fails(k, h) BY <1>6 DEF Halt
  <2>4. UNCHANGED <<listeners, wireVars, chatRest>> BY <1>6 DEF Halt
  <2>5. h \in ChatRec BY <1>1, <2>2 DEF ChatRec
  <2>6. Handler(k, h)
    <3>1. /\ h.inbox = Tail(c.inbox) /\ h.acks = c.acks /\ h.todo = c.todo /\ h.ended = c.ended
          /\ h.seq = c.seq /\ h.owns = c.owns /\ h.telling = c.telling
          /\ h.listeners = c.listeners /\ h.alone = c.alone /\ h.stopping = c.stopping
        BY <1>1 DEF ChatRec
    <3> QED BY <2>1, <3>1 DEF Handler, Hears
  <2> HIDE DEF h
  <2> QED BY <2>3, <2>4, <2>5, <2>6
<1> QED BY <1>4, <1>5, <1>6

\* Every step of a chat's thread is a ChatStep: what Store::append leaves in
\* the file is known, because the chat that writes is the only one that is up
\* and its numbers are those of the file.
LEMMA ThreadStep ==
    ASSUME Inv, NEW k \in DOMAIN chats, Thread(k) \/ Heard(k)
    PROVE  /\ \E ch \in ChatRec : ChatStep(k, ch) /\ Becomes(k, ch)
           /\ UNCHANGED <<gone, chatRest>> /\ open' \in [Conns -> BOOLEAN]
           /\ \A x \in Conns : open'[x] => open[x]
<1> DEFINE c == chats[k]
<1>1. c \in ChatRec BY DEF Inv, Types
<1>2. CASE Handle(k) \/ Heard(k) \/ Halt(k)
  <2>1. PICK h \in ChatRec :
              /\ Handler(k, h)
              /\ \/ Becomes(k, h) /\ UNCHANGED <<file, faults>> /\ h.status # "stopped"
                 \/ Logs(k, h)
                 \/ Fails(k, h)
              /\ UNCHANGED <<listeners, wireVars, chatRest>>
      BY <1>2, Handlers
  <2>2. open' = open /\ gone' = gone /\ open \in [Conns -> BOOLEAN] BY <2>1 DEF wireVars, Inv, Types
  <2>3. /\ c.seq = Prefix(file) /\ (c.owns => file.tail = << >>)
        /\ file \in File /\ Intact(file) /\ Prefix(file) \in Nat /\ c.owns \in BOOLEAN
    <3>1. file \in File /\ Intact(file) BY DEF Inv, Logged
    <3>2. c.status # "stopped" BY <2>1 DEF Handler, Inv, Logged, Up
    <3> QED BY <1>1, <3>1, <3>2, IntactPrefix DEF Inv, Logged, ChatRec
  <2>4. Repaired(k) = (IF c.owns THEN file ELSE RepairTail(file)) /\ Prefixed(k) = (~c.owns /\ Whole(file))
      BY DEF Repaired, Prefixed
  <2>5. CASE Becomes(k, h) /\ UNCHANGED <<file, faults>> /\ h.status # "stopped"
    <3>1. ChatStep(k, h) BY <2>1, <2>5 DEF ChatStep, Handler, Silent
    <3> QED BY <2>1, <2>2, <2>5, <3>1
  <2>6. CASE Logs(k, h)
    <3> DEFINE t == Append(h.todo, h.seq + 1)
               n == h.seq + 1
               ch == [h EXCEPT !.seq = n, !.owns = TRUE, !.todo = t]
    <3>1. Becomes(k, ch) /\ file' = Written(Repaired(k), Prefixed(k), h.seq + 1) BY <2>6 DEF Logs
    <3>2. h.seq = c.seq /\ h.todo = << >> /\ h.seq \in Nat BY <2>1 DEF Handler, ChatRec
    <3>3. t = <<c.seq + 1>> /\ t \in Seq(Nat) BY <3>2
    <3>4. file' \in File /\ Intact(file') /\ Prefix(file') = c.seq + 1 /\ file'.tail = << >>
      <4>1. file' = Written(IF c.owns THEN file ELSE RepairTail(file), ~c.owns /\ Whole(file), Prefix(file) + 1)
          BY <2>3, <3>1, <3>2 DEF Repaired, Prefixed
      <4> QED BY <2>3, <4>1, WrittenNext
    <3>9. n = h.seq + 1 /\ n \in Nat BY <3>2
    <3> HIDE DEF t, n
    <3>5. /\ ch \in ChatRec /\ ch.seq = n /\ ch.todo = t /\ ch.telling = h.telling
          /\ ch.inbox = h.inbox /\ ch.acks = h.acks /\ ch.ended = h.ended
          /\ ch.listeners = h.listeners /\ ch.alone = h.alone /\ ch.stopping = h.stopping
        BY <3>3, <3>9 DEF ChatRec
    <3> HIDE DEF ch
    <3>6. Hears(k, ch) BY <2>1, <3>5 DEF Handler, Hears
    <3>7. Recorded(k, ch) BY <2>1, <3>2, <3>3, <3>4, <3>5, <3>9 DEF Handler, Recorded
    <3>8. ChatStep(k, ch) BY <2>1, <3>5, <3>6, <3>7 DEF Handler, ChatStep
    <3> QED BY <2>1, <2>2, <3>1, <3>5, <3>8
  <2>7. CASE Fails(k, h)
    <3> DEFINE ch == Failed(h)
    <3>1. Becomes(k, ch) /\ (file' = file \/ file' \in Failures(Repaired(k), Prefixed(k), h.seq + 1))
        BY <2>7 DEF Fails, MetaFails, LogFails
    <3>2. h.seq = c.seq /\ h.todo = << >> /\ Append(h.todo, 0) = <<0>> BY <2>1 DEF Handler
    <3>3. file' \in File /\ Intact(file') /\ Prefix(file') >= Prefix(file)
      <4>1. CASE file' = file BY <2>3, <4>1
      <4>2. CASE file' \in Failures(Repaired(k), Prefixed(k), h.seq + 1)
        <5>1. file' \in Failures(IF c.owns THEN file ELSE RepairTail(file), ~c.owns /\ Whole(file), Prefix(file) + 1)
            BY <2>3, <4>2, <3>2 DEF Repaired, Prefixed
        <5> QED BY <2>3, <5>1, FailureKeeps
      <4> QED BY <3>1, <4>1, <4>2
    <3>4. ch \in ChatRec /\ ch = [h EXCEPT !.status = "stopped", !.todo = Append(h.todo, 0)] BY FailedType
    <3>5. /\ ch.seq = h.seq /\ ch.todo = Append(h.todo, 0) /\ ch.telling = h.telling /\ ch.status = "stopped"
          /\ ch.inbox = h.inbox /\ ch.acks = h.acks /\ ch.ended = h.ended
          /\ ch.listeners = h.listeners /\ ch.alone = h.alone /\ ch.stopping = h.stopping
        BY <3>4 DEF ChatRec
    <3> HIDE DEF ch
    <3>6. Hears(k, ch) BY <2>1, <3>5 DEF Handler, Hears
    <3>7. Unrecorded(k, ch) BY <2>1, <3>2, <3>3, <3>5 DEF Handler, Unrecorded, Notice
    <3>8. ChatStep(k, ch) BY <2>1, <3>5, <3>6, <3>7 DEF Handler, ChatStep
    <3> QED BY <2>1, <2>2, <3>1, <3>4, <3>8
  <2> QED BY <2>1, <2>5, <2>6, <2>7
<1>3. c.todo # << >> => ~c.ended /\ Tail(c.todo) \in Seq(Nat) BY <1>1 DEF Inv, Logged, ChatRec
<1>4. CASE Copy(k)
  <2>1. /\ c.todo # << >> /\ c.telling = {} /\ lock # k
        /\ UNCHANGED <<file, faults, listeners, wireVars, chatRest>>
        /\ Becomes(k, IF c.listeners = {} THEN [c EXCEPT !.todo = Tail(c.todo)]
                      ELSE [c EXCEPT !.telling = c.listeners])
      BY <1>4 DEF Copy, Publishing
  <2>2. open' = open /\ gone' = gone /\ open \in [Conns -> BOOLEAN] BY <2>1 DEF wireVars, Inv, Types
  <2>3. CASE c.listeners = {}
    <3> DEFINE ch == [c EXCEPT !.todo = Tail(c.todo)]
    <3>1. /\ ch \in ChatRec /\ ch.inbox = c.inbox /\ ch.acks = c.acks /\ ch.ended = c.ended
          /\ ch.listeners = c.listeners /\ ch.alone = c.alone /\ ch.stopping = c.stopping
        BY <1>1, <1>3, <2>1 DEF ChatRec
    <3>2. Hushed(k, ch) /\ Becomes(k, ch) BY <2>1, <2>3 DEF Hushed
    <3> HIDE DEF ch
    <3>3. ChatStep(k, ch) BY <1>3, <2>1, <3>1, <3>2 DEF ChatStep, Hears
    <3> QED BY <2>1, <2>2, <3>1, <3>2, <3>3
  <2>4. CASE c.listeners # {}
    <3> DEFINE ch == [c EXCEPT !.telling = c.listeners]
    <3>1. /\ ch \in ChatRec /\ ch.inbox = c.inbox /\ ch.acks = c.acks /\ ch.ended = c.ended
          /\ ch.listeners = c.listeners /\ ch.alone = c.alone /\ ch.stopping = c.stopping
        BY <1>1 DEF ChatRec
    <3>2. Announced(k, ch) /\ Becomes(k, ch) BY <2>1, <2>4 DEF Announced
    <3> HIDE DEF ch
    <3>3. ChatStep(k, ch) BY <1>3, <2>1, <3>1, <3>2 DEF ChatStep, Hears
    <3> QED BY <2>1, <2>2, <3>1, <3>2, <3>3
  <2> QED BY <2>3, <2>4
<1>5. CASE Deliver(k)
  <2> DEFINE ch == [c EXCEPT !.telling = {}, !.todo = Tail(c.todo)]
  <2>1. c.telling # {} /\ c.todo # << >> BY <1>5 DEF Deliver, Inv, Logged
  <2>2. Becomes(k, ch) /\ UNCHANGED <<file, faults, gone, chatRest>> BY <1>5 DEF Deliver
  <2>3. open' \in [Conns -> BOOLEAN] /\ \A x \in Conns : open'[x] => open[x]
      BY <1>5 DEF Deliver, Write, Close, Inv, Types
  <2>4. Told(k, ch) BY <1>5, <2>1 DEF Deliver, Told
  <2>5. /\ ch \in ChatRec /\ ch.inbox = c.inbox /\ ch.acks = c.acks /\ ch.ended = c.ended
        /\ ch.listeners = c.listeners /\ ch.alone = c.alone /\ ch.stopping = c.stopping
      BY <1>1, <1>3, <2>1 DEF ChatRec
  <2> HIDE DEF ch
  <2>6. ChatStep(k, ch) BY <1>3, <2>1, <2>4, <2>5 DEF ChatStep, Hears
  <2> QED BY <2>2, <2>3, <2>5, <2>6
<1> QED BY <1>2, <1>4, <1>5 DEF Thread

\* What the inbox of chat k must satisfy, of any inbox.
Queued(ib) ==
    \A i \in DOMAIN ib :
        /\ ib[i].op # "stop" => ib[i].conn \in Conns
        /\ \A j \in DOMAIN ib : i < j /\ ib[i].conn = ib[j].conn => ib[i].op \in {"settings", "stop"}

\* Who waits for a chat waited for it before the step, and nobody waits twice.
LEMMA HearsKeeps ==
    ASSUME Inv, NEW k \in DOMAIN chats, NEW ch \in ChatRec, Hears(k, ch)
    PROVE  /\ ch.acks \cup Waiters(ch) \subseteq chats[k].acks \cup Waiters(chats[k])
           /\ ch.acks \cap Waiters(ch) = {}
           /\ Queued(ch.inbox)
<1> DEFINE W == [op : {"settings", "launch", "configure", "send", "stop"}, conn : Conns \cup {"none"}]
           ib == chats[k].inbox
<1>0. chats[k] \in ChatRec BY DEF Inv, Types
<1>1. ib \in Seq(W) /\ chats[k].acks \subseteq Conns BY <1>0 DEF ChatRec
<1>2. Queued(ib) /\ Waiters(chats[k]) \cap chats[k].acks = {} BY DEF Inv, Awaited, Queued
<1>3. CASE ch.inbox = ib /\ ch.acks = chats[k].acks BY <1>2, <1>3 DEF Waiters
<1>4. CASE ib # << >> /\ ch.inbox = Tail(ib)
  <2> HIDE DEF W
  <2>1. /\ Len(ib) \in Nat \ {0} /\ DOMAIN ib = 1 .. Len(ib) /\ Head(ib) = ib[1]
        /\ DOMAIN ch.inbox = 1 .. Len(ib) - 1
        /\ \A i \in 1 .. Len(ib) - 1 : ch.inbox[i] = ib[i + 1]
      BY <1>1, <1>4
  <2>2. Waiters(ch) \subseteq Waiters(chats[k]) BY <2>1 DEF Waiters
  <2>3. Queued(ch.inbox)
    <3> SUFFICES ASSUME NEW i \in 1 .. Len(ib) - 1
                 PROVE  /\ ch.inbox[i].op # "stop" => ch.inbox[i].conn \in Conns
                        /\ \A j \in 1 .. Len(ib) - 1 :
                              i < j /\ ch.inbox[i].conn = ch.inbox[j].conn => ch.inbox[i].op \in {"settings", "stop"}
        BY <2>1 DEF Queued
    <3>1. i + 1 \in DOMAIN ib /\ ch.inbox[i] = ib[i + 1] BY <2>1
    <3>2. \A j \in 1 .. Len(ib) - 1 : i < j => /\ j + 1 \in DOMAIN ib /\ ch.inbox[j] = ib[j + 1]
                                              /\ i + 1 < j + 1
        BY <2>1
    <3> QED BY <1>2, <3>1, <3>2 DEF Queued
  <2>4. CASE ch.acks = {} BY <2>2, <2>3, <2>4
  <2>5. CASE ch.acks = chats[k].acks BY <1>2, <2>2, <2>3, <2>5
  <2>6. CASE Head(ib).op \notin {"settings", "stop"} /\ ch.acks = {Head(ib).conn}
    <3>1. Head(ib).conn \in Waiters(chats[k]) BY <1>2, <2>1, <2>6 DEF Queued, Waiters
    <3>2. Head(ib).conn \notin Waiters(ch)
      <4> SUFFICES ASSUME NEW i \in 1 .. Len(ib) - 1, ch.inbox[i].conn = ib[1].conn PROVE FALSE
          BY <2>1 DEF Waiters
      <4>1. i + 1 \in DOMAIN ib /\ 1 \in DOMAIN ib /\ 1 < i + 1 /\ ib[i + 1].conn = ib[1].conn BY <2>1
      <4> QED BY <1>2, <2>1, <2>6, <4>1 DEF Queued
    <3> QED BY <2>2, <2>3, <2>6, <3>1, <3>2
  <2> QED BY <1>4, <2>4, <2>5, <2>6 DEF Hears
<1> QED BY <1>3, <1>4 DEF Hears

\* The step leaves alone everything but its chat, the file, cursors and who
\* waits for the chat, and these go on from where they wait.
LEMMA ThreadFrame ==
    ASSUME Inv, NEW k \in DOMAIN chats, NEW ch \in ChatRec, ChatStep(k, ch), Becomes(k, ch)
    PROVE  /\ chats' = [chats EXCEPT ![k] = Left(ch)] /\ chats' \in Seq(ChatRec) /\ Len(chats') = Len(chats)
           /\ DOMAIN chats' = DOMAIN chats
           /\ chats'[k] = Left(ch) /\ \A j \in DOMAIN chats : j # k => chats'[j] = chats[j]
           /\ Freed(ch) \subseteq ch.acks \cup Waiters(ch)
           /\ Freed(ch) # {} => entry = k
           /\ pc' \in [Actors -> Places]
           /\ \A a \in Actors \ Freed(ch) : pc'[a] = pc[a]
           /\ \A a \in Freed(ch) :
                 /\ a \in Conns /\ pc[a] \in Waits
                 /\ \/ pc[a] \in {"asked", "configured"} /\ pc'[a] = "reply"
                    \/ pc[a] \in {"configured", "launched"} /\ pc'[a] = "attach"
                    \/ pc[a] = "launched" /\ pc'[a] = "drop"
<1>1. /\ chats' = [chats EXCEPT ![k] = Left(ch)]
      /\ pc' = [a \in Actors |-> IF a \in Freed(ch) THEN Onward(a, ~(ch.status = "stopped")) ELSE pc[a]]
      /\ pc \in [Actors -> Places]
    BY BecomesIs DEF Inv, Types
<1>2. Left(ch) \in ChatRec /\ chats \in Seq(ChatRec) BY LeftType DEF Inv, Types
<1>3. Freed(ch) \subseteq ch.acks \cup Waiters(ch) BY DEF Freed
<1>4. \A a \in Freed(ch) : a \in Conns /\ pc[a] \in Waits /\ entry = k
  <2>1. Freed(ch) \subseteq chats[k].acks \cup Waiters(chats[k]) BY <1>3, HearsKeeps DEF ChatStep
  <2>2. chats[k].acks \subseteq Conns /\ Waiters(chats[k]) \subseteq Conns
    <3>1. chats[k] \in ChatRec BY DEF Inv, Types
    <3> QED BY <3>1 DEF ChatRec, Waiters
  <2> QED BY <2>1, <2>2 DEF Inv, Awaited
<1>5. \A a \in Freed(ch) : \/ pc[a] \in {"asked", "configured"} /\ pc'[a] = "reply"
                           \/ pc[a] \in {"configured", "launched"} /\ pc'[a] = "attach"
                           \/ pc[a] = "launched" /\ pc'[a] = "drop"
  <2> SUFFICES ASSUME NEW a \in Freed(ch) PROVE
                  \/ pc[a] \in {"asked", "configured"} /\ pc'[a] = "reply"
                  \/ pc[a] \in {"configured", "launched"} /\ pc'[a] = "attach"
                  \/ pc[a] = "launched" /\ pc'[a] = "drop" OBVIOUS
  <2>1. a \in Actors /\ pc[a] \in Waits BY <1>4 DEF Actors
  <2>2. pc'[a] = Onward(a, ~(ch.status = "stopped")) BY <1>1, <2>1
  <2>3. CASE ch.status = "stopped" BY <2>1, <2>2, <2>3 DEF Onward, Waits
  <2>4. CASE ch.status # "stopped" BY <2>1, <2>2, <2>4 DEF Onward, Waits
  <2> QED BY <2>3, <2>4
<1>6. \A a \in Actors \ Freed(ch) : pc'[a] = pc[a] BY <1>1
<1>7. pc' \in [Actors -> Places]
  <2>1. \A a \in Actors : pc'[a] \in Places BY <1>1, <1>5, <1>6 DEF Places
  <2>2. DOMAIN pc' = Actors /\ pc' = [a \in Actors |-> pc'[a]] BY <1>1
  <2> QED BY <2>1, <2>2
<1>8. /\ chats' \in Seq(ChatRec) /\ Len(chats') = Len(chats) /\ DOMAIN chats' = DOMAIN chats
      /\ chats'[k] = Left(ch) /\ \A j \in DOMAIN chats : j # k => chats'[j] = chats[j]
  <2>1. chats' \in Seq(ChatRec) /\ Len(chats') = Len(chats) /\ DOMAIN chats' = DOMAIN chats
      BY <1>1, <1>2, OneChanges
  <2> QED BY <2>1, <1>1, <1>2
<1> QED BY <1>1, <1>3, <1>4, <1>5, <1>6, <1>7, <1>8

\* The thread of a chat and the gates, the requests and the map: who waits for
\* it has the gate and goes on with it.
LEMMA ThreadControl ==
    ASSUME Inv, NEW k \in DOMAIN chats, NEW ch \in ChatRec, ChatStep(k, ch), Becomes(k, ch),
           UNCHANGED chatRest
    PROVE  Gated' /\ Closing' /\ Owned'
<1>1. /\ DOMAIN chats' = DOMAIN chats
      /\ chats'[k] = Left(ch) /\ \A j \in DOMAIN chats : j # k => chats'[j] = chats[j]
      /\ Freed(ch) # {} => entry = k
      /\ pc' \in [Actors -> Places] /\ pc \in [Actors -> Places]
      /\ \A a \in Actors \ Freed(ch) : pc'[a] = pc[a]
      /\ \A a \in Freed(ch) :
            /\ a \in Conns /\ pc[a] \in Waits
            /\ \/ pc[a] \in {"asked", "configured"} /\ pc'[a] = "reply"
               \/ pc[a] \in {"configured", "launched"} /\ pc'[a] = "attach"
               \/ pc[a] = "launched" /\ pc'[a] = "drop"
    BY ThreadFrame DEF Inv, Types
<1>2. UNCHANGED <<entry, gate, want, holder, reader, lane, accepting, stopping, then, target>>
    BY DEF chatRest, gateVars, readVars, mainVars
<1>3. {"sweep", "main"} \cap Conns = {} /\ Conns \subseteq Actors /\ {"sweep", "main"} \subseteq Actors
    BY ConstantsAssumption DEF Actors
<1>4. \A a \in Actors : \/ pc'[a] = pc[a]
                        \/ /\ a \in Conns /\ pc[a] \in Waits
                           /\ \/ pc[a] \in {"asked", "configured"} /\ pc'[a] = "reply"
                              \/ pc[a] \in {"configured", "launched"} /\ pc'[a] = "attach"
                              \/ pc[a] = "launched" /\ pc'[a] = "drop"
    BY <1>1
<1>5. Gated'
  <2>1. \A a \in Actors : Inside(a)' <=> Inside(a) BY <1>2, <1>4 DEF Inside, Waits
  <2> QED BY <1>2, <1>3, <1>4, <2>1 DEF Inv, Gated, Waits
<1>6. Closing' BY <1>2, <1>3, <1>4 DEF Inv, Closing, Waits
<1>7. Owned'
  <2>1. \A j \in DOMAIN chats : /\ chats'[j].stopping = chats[j].stopping
                                /\ Up(j)' => Up(j)
      BY <1>1, LeftType DEF ChatStep, Up
  <2>2. \A a \in Actors : (Putting(a)' <=> Putting(a)) /\ (pc'[a] = "mark" <=> pc[a] = "mark")
      BY <1>4 DEF Putting, Waits
  <2>3. \A j \in DOMAIN chats' : Up(j)' => j = entry' \/ \E a \in Actors : Putting(a)' /\ target'[a] = j
      BY <1>1, <1>2, <2>1, <2>2 DEF Inv, Owned
  <2>4. \A a \in Actors : Putting(a)' => entry' = 0 /\ target'[a] \in DOMAIN chats'
      BY <1>1, <1>2, <2>2 DEF Inv, Owned
  <2>5. \A a, b \in Actors : Putting(a)' /\ Putting(b)' => a = b BY <2>2 DEF Inv, Owned
  <2>6. \A a \in Actors : pc'[a] = "mark" => ~chats'[target'[a]].stopping
    <3> SUFFICES ASSUME NEW a \in Actors, pc[a] = "mark" PROVE ~chats'[target[a]].stopping
        BY <1>2, <2>2
    <3>1. target[a] \in DOMAIN chats /\ ~chats[target[a]].stopping BY DEF Inv, Owned, Putting
    <3> QED BY <2>1, <3>1
  <2>7. entry' # 0 => ~chats'[entry'].stopping
    <3>1. entry # 0 => entry \in DOMAIN chats BY DEF Inv, Types
    <3> QED BY <1>2, <2>1, <3>1 DEF Inv, Owned
  <2>8. \A c \in Conns :
          /\ pc'[c] \in {"configured", "launched", "attach", "replay", "drop"} => entry' = target'[c]
          /\ pc'[c] \in {"asked", "configured", "launched", "attach", "replay", "drop"} => entry' # 0
          /\ pc'[c] = "probe" => entry' = 0
          /\ pc'[c] \in {"idle", "wait", "op", "asked", "configured"} => then'[c] = "reply"
          /\ pc'[c] \in {"launched", "attach", "replay"} => then'[c] \in {"reply", "drop"}
          /\ Putting(c)' => then'[c] \in {"reply", "probe"}
    <3> SUFFICES ASSUME NEW c \in Conns PROVE
          /\ pc'[c] \in {"configured", "launched", "attach", "replay", "drop"} => entry' = target'[c]
          /\ pc'[c] \in {"asked", "configured", "launched", "attach", "replay", "drop"} => entry' # 0
          /\ pc'[c] = "probe" => entry' = 0
          /\ pc'[c] \in {"idle", "wait", "op", "asked", "configured"} => then'[c] = "reply"
          /\ pc'[c] \in {"launched", "attach", "replay"} => then'[c] \in {"reply", "drop"}
          /\ Putting(c)' => then'[c] \in {"reply", "probe"}
        OBVIOUS
    <3>1. \/ pc'[c] = pc[c]
          \/ pc[c] \in {"asked", "configured"} /\ pc'[c] = "reply"
          \/ pc[c] \in {"configured", "launched"} /\ pc'[c] = "attach"
          \/ pc[c] = "launched" /\ pc'[c] = "drop"
        BY <1>3, <1>4
    <3>2. Putting(c)' <=> Putting(c) BY <2>2, <1>3
    <3> QED BY <1>2, <3>1, <3>2 DEF Inv, Owned
  <2> QED BY <1>2, <2>3, <2>4, <2>5, <2>6, <2>7, <2>8 DEF Inv, Owned
<1> QED BY <1>5, <1>6, <1>7

\* ... and whoever waits for a chat waits for the one in the map.
LEMMA ThreadAwaited ==
    ASSUME Inv, NEW k \in DOMAIN chats, NEW ch \in ChatRec, ChatStep(k, ch), Becomes(k, ch),
           UNCHANGED chatRest
    PROVE  Awaited'
<1>1. /\ DOMAIN chats' = DOMAIN chats
      /\ chats'[k] = Left(ch) /\ \A j \in DOMAIN chats : j # k => chats'[j] = chats[j]
      /\ Freed(ch) # {} => entry = k
      /\ \A a \in Actors \ Freed(ch) : pc'[a] = pc[a]
    BY ThreadFrame
<1>2. entry' = entry /\ Conns \subseteq Actors BY DEF chatRest, Actors
<1>3. /\ ch.acks \cup Waiters(ch) \subseteq chats[k].acks \cup Waiters(chats[k])
      /\ ch.acks \cap Waiters(ch) = {}
      /\ Queued(ch.inbox)
    BY HearsKeeps DEF ChatStep
<1>4. /\ Left(ch).acks = IF ch.todo # << >> THEN ch.acks ELSE {}
      /\ Left(ch).inbox = IF ch.todo = << >> /\ ch.status = "stopped" THEN << >> ELSE ch.inbox
    BY LeftType
<1> SUFFICES ASSUME NEW j \in DOMAIN chats
             PROVE  /\ \A c \in Waiters(chats'[j]) \cup chats'[j].acks : pc'[c] \in Waits /\ entry = j
                    /\ Waiters(chats'[j]) \cap chats'[j].acks = {}
                    /\ Queued(chats'[j].inbox)
    BY <1>1, <1>2 DEF Awaited, Queued, Waiters
<1>5. /\ \A c \in Waiters(chats[j]) \cup chats[j].acks : c \in Actors /\ pc[c] \in Waits /\ entry = j
      /\ Waiters(chats[j]) \cap chats[j].acks = {}
      /\ Queued(chats[j].inbox)
  <2>1. chats[j] \in ChatRec BY DEF Inv, Types
  <2>2. Waiters(chats[j]) \cup chats[j].acks \subseteq Actors BY <2>1, <1>2 DEF ChatRec, Waiters
  <2> QED BY <2>2 DEF Inv, Awaited, Queued
<1>6. CASE j # k
  <2>1. Freed(ch) # {} => Waiters(chats[j]) \cup chats[j].acks = {} BY <1>1, <1>5, <1>6
  <2>2. \A c \in Waiters(chats[j]) \cup chats[j].acks : pc'[c] = pc[c] BY <1>1, <1>5, <2>1
  <2> QED BY <1>1, <1>5, <1>6, <2>2
<1>7. CASE j = k
  <2>1. CASE ch.todo # << >>
    <3>1. Freed(ch) = {} BY <2>1 DEF Freed
    <3>2. Waiters(Left(ch)) = Waiters(ch) BY <1>4, <2>1 DEF Waiters
    <3> QED BY <1>1, <1>3, <1>4, <1>5, <1>7, <2>1, <3>1, <3>2
  <2>2. CASE ch.todo = << >> /\ ch.status = "stopped"
    <3>1. Left(ch).inbox = << >> /\ Left(ch).acks = {} BY <1>4, <2>2
    <3>2. Waiters(Left(ch)) = {} /\ Queued(Left(ch).inbox) BY <3>1 DEF Waiters, Queued
    <3> QED BY <1>1, <1>7, <3>1, <3>2
  <2>3. CASE ch.todo = << >> /\ ch.status # "stopped"
    <3>1. Freed(ch) = ch.acks /\ Left(ch).inbox = ch.inbox /\ Left(ch).acks = {} BY <1>4, <2>3 DEF Freed
    <3>2. Waiters(Left(ch)) = Waiters(ch) BY <3>1 DEF Waiters
    <3>3. \A c \in Waiters(ch) : c \notin Freed(ch) /\ pc[c] \in Waits /\ entry = k /\ c \in Actors
        BY <1>3, <1>5, <1>7, <3>1
    <3> QED BY <1>1, <1>3, <1>7, <3>1, <3>2, <3>3
  <2> QED BY <2>1, <2>2, <2>3
<1> QED BY <1>6, <1>7

\* Of the chats that are up, one is in the map or is being put down, and not
\* both at once.
LEMMA OnlyOneUp ==
    ASSUME Inv
    PROVE  OneConductor
<1> SUFFICES ASSUME NEW j \in DOMAIN chats, NEW k \in DOMAIN chats, Up(j), Up(k) PROVE j = k BY DEF OneConductor
<1>1. j # 0 /\ k # 0 BY DEF Inv, Types
<1>2. \A i \in {j, k} : i = entry \/ \E a \in Actors : Putting(a) /\ target[a] = i BY DEF Inv, Owned
<1>3. \A a, b \in Actors : Putting(a) /\ Putting(b) => a = b /\ entry = 0 BY DEF Inv, Owned
<1> QED BY <1>1, <1>2, <1>3

\* The steps of a chat's thread and the log.
LEMMA ThreadLogged ==
    ASSUME Inv, NEW k \in DOMAIN chats, NEW ch \in ChatRec, ChatStep(k, ch), Becomes(k, ch),
           UNCHANGED chatRest
    PROVE  Logged' /\ listeners' \in Seq(Cursor) /\ DOMAIN listeners' = DOMAIN listeners
<1>1. /\ DOMAIN chats' = DOMAIN chats
      /\ chats'[k] = Left(ch) /\ \A j \in DOMAIN chats : j # k => chats'[j] = chats[j]
    BY ThreadFrame
<1>2. /\ Left(ch).status = ch.status /\ Left(ch).todo = ch.todo /\ Left(ch).telling = ch.telling
      /\ Left(ch).seq = ch.seq /\ Left(ch).owns = ch.owns
      /\ Left(ch).ended = IF ch.todo # << >> THEN ch.ended ELSE ch.status = "stopped"
    BY LeftType
<1>3. replay' = replay BY DEF chatRest
<1>4. /\ chats[k] \in ChatRec /\ chats[k].todo \in Seq(Nat) /\ chats[k].seq \in Nat
      /\ \A j \in DOMAIN chats : chats[j] \in ChatRec /\ chats[j].seq \in Nat /\ chats[j].todo \in Seq(Nat)
      /\ ch.seq \in Nat /\ ch.todo \in Seq(Nat)
      /\ listeners \in Seq(Cursor)
  <2>1. \A d \in ChatRec : d.seq \in Nat /\ d.todo \in Seq(Nat) BY DEF ChatRec
  <2>2. \A j \in DOMAIN chats : chats[j] \in ChatRec BY DEF Inv, Types
  <2>3. listeners \in Seq(Cursor) BY DEF Inv, Types
  <2> QED BY <2>1, <2>2, <2>3
<1>5. \A j \in DOMAIN chats : j # k => ~Up(j) /\ chats[j].status = "stopped"
    BY OnlyOneUp DEF OneConductor, ChatStep, Up, Inv, Logged
<1>6. file \in File /\ Intact(file) /\ Prefix(file) \in Nat BY IntactPrefix DEF Inv, Logged
<1>7. /\ file' \in File /\ Intact(file') /\ Prefix(file') \in Nat /\ Prefix(file') >= Prefix(file)
  <2>1. CASE file' = file BY <1>6, <2>1
  <2>2. CASE chats[k].todo = << >> /\ Recorded(k, ch)
    <3>1. chats[k].status # "stopped" BY <2>2 DEF ChatStep, Inv, Logged, Up
    <3>2. chats[k].seq = Prefix(file) BY <3>1 DEF Inv, Logged
    <3> QED BY <1>6, <2>2, <3>2 DEF Recorded
  <2>3. CASE Unrecorded(k, ch)
    <3>1. file' \in File /\ Intact(file') /\ Prefix(file') >= Prefix(file) BY <2>3 DEF Unrecorded
    <3> QED BY <3>1, IntactPrefix
  <2> QED BY <2>1, <2>2, <2>3 DEF ChatStep, Silent, Hushed, Announced, Told
<1>8. \A j \in DOMAIN chats : j # k =>
        /\ chats'[j].seq <= Prefix(file')
        /\ \A i \in DOMAIN chats'[j].todo : chats'[j].todo[i] <= chats'[j].seq
        /\ chats'[j].ended => chats'[j].status = "stopped" /\ chats'[j].todo = << >>
        /\ chats'[j].ended /\ chats'[j].status = "stopped"
        /\ chats'[j].telling # {} => chats'[j].todo # << >>
  <2> SUFFICES ASSUME NEW j \in DOMAIN chats, j # k PROVE
        /\ chats[j].seq <= Prefix(file')
        /\ \A i \in DOMAIN chats[j].todo : chats[j].todo[i] <= chats[j].seq
        /\ chats[j].ended => chats[j].status = "stopped" /\ chats[j].todo = << >>
        /\ chats[j].ended /\ chats[j].status = "stopped"
        /\ chats[j].telling # {} => chats[j].todo # << >>
      BY <1>1
  <2>1. chats[j].seq <= Prefix(file) BY DEF Inv, Logged
  <2>2. chats[j].seq <= Prefix(file') BY <1>4, <1>6, <1>7, <2>1
  <2> QED BY <1>5, <2>2 DEF Inv, Logged, Up
<1>9. /\ ch.seq <= Prefix(file')
      /\ \A i \in DOMAIN ch.todo : ch.todo[i] <= ch.seq
      /\ ch.status # "stopped" => ch.seq = Prefix(file')
      /\ ch.status # "stopped" /\ ch.owns => file'.tail = << >>
      /\ ch.telling # {} => ch.todo # << >>
  <2>0. /\ chats[k].seq <= Prefix(file)
        /\ \A i \in DOMAIN chats[k].todo : chats[k].todo[i] <= chats[k].seq
        /\ chats[k].status # "stopped" => chats[k].seq = Prefix(file)
        /\ chats[k].status # "stopped" /\ chats[k].owns => file.tail = << >>
        /\ chats[k].telling # {} => chats[k].todo # << >>
        /\ chats[k].todo = << >> => chats[k].status # "stopped"
      BY DEF Inv, Logged, ChatStep, Up
  <2>1. CASE Recorded(k, ch)
    <3>1. DOMAIN ch.todo = {1} /\ ch.todo[1] = chats[k].seq + 1 BY <1>4, <2>1 DEF Recorded
    <3> QED BY <1>4, <1>7, <2>0, <2>1, <3>1 DEF Recorded
  <2>2. CASE Unrecorded(k, ch)
    <3>1. DOMAIN ch.todo = {1} /\ ch.todo[1] = 0 /\ ch.todo # << >> BY <2>2 DEF Unrecorded, Notice
    <3> QED BY <1>4, <1>6, <1>7, <2>0, <2>2, <3>1 DEF Unrecorded
  <2>3. CASE chats[k].todo = << >> /\ Silent(k, ch) BY <1>4, <2>0, <2>3 DEF Silent
  <2>4. CASE chats[k].todo # << >> /\ (Hushed(k, ch) \/ Told(k, ch))
    <3>1. /\ ch.todo = Tail(chats[k].todo) /\ ch.telling = {} /\ ch.seq = chats[k].seq
          /\ ch.status = chats[k].status /\ ch.owns = chats[k].owns /\ file' = file
        BY <1>4, <2>4 DEF Hushed, Told, ChatRec
    <3>2. \A i \in DOMAIN ch.todo : i + 1 \in DOMAIN chats[k].todo /\ ch.todo[i] = chats[k].todo[i + 1]
        BY <1>4, <2>4, <3>1
    <3> QED BY <2>0, <3>1, <3>2
  <2>5. CASE chats[k].todo # << >> /\ Announced(k, ch)
    <3>1. /\ ch.todo = chats[k].todo /\ ch.seq = chats[k].seq
          /\ ch.status = chats[k].status /\ ch.owns = chats[k].owns /\ file' = file
        BY <1>4, <2>5 DEF Announced, ChatRec
    <3> QED BY <2>0, <2>5, <3>1
  <2> QED BY <2>1, <2>2, <2>3, <2>4, <2>5 DEF ChatStep
<1>10. /\ listeners' \in Seq(Cursor) /\ DOMAIN listeners' = DOMAIN listeners
       /\ \A l \in DOMAIN listeners : listeners'[l].next <= Prefix(file') + 1
  <2>1. \A l \in DOMAIN listeners : listeners[l] \in Cursor /\ listeners[l].next <= Prefix(file) + 1
    <3>1. \A l \in DOMAIN listeners : listeners[l] \in Cursor BY <1>4
    <3> QED BY <3>1 DEF Inv, Logged
  <2>2. CASE listeners' = listeners
    <3>1. \A l \in DOMAIN listeners : listeners[l].next <= Prefix(file') + 1 BY <1>6, <1>7, <2>1 DEF Cursor
    <3> QED BY <1>4, <2>2, <3>1
  <2>3. CASE chats[k].todo # << >> /\ Told(k, ch)
    <3> DEFINE e == Head(chats[k].todo)
    <3>1. e \in Nat /\ e <= Prefix(file) /\ file' = file
      <4>1. e = chats[k].todo[1] /\ 1 \in DOMAIN chats[k].todo /\ e \in Nat BY <1>4, <2>3
      <4> QED BY <1>4, <1>6, <2>3, <4>1 DEF Inv, Logged, Told
    <3>2. listeners' = [l \in DOMAIN listeners |->
                        IF /\ l \in chats[k].telling /\ (e = Notice \/ e >= listeners[l].next) /\ e # Notice
                        THEN [listeners[l] EXCEPT !.next = e + 1]
                        ELSE listeners[l]]
        BY <2>3 DEF Told
    <3>3. DOMAIN listeners = 1 .. Len(listeners) /\ Len(listeners) \in Nat BY <1>4
    <3>6. e + 1 \in Nat \ {0} BY <3>1
    <3> HIDE DEF e
    <3>4. \A l \in DOMAIN listeners : listeners'[l] = listeners[l] \/ listeners'[l] = [listeners[l] EXCEPT !.next = e + 1]
        BY <3>2
    <3>5. \A l \in DOMAIN listeners : listeners'[l] \in Cursor /\ listeners'[l].next <= Prefix(file) + 1
      <4> SUFFICES ASSUME NEW l \in DOMAIN listeners
                   PROVE listeners'[l] \in Cursor /\ listeners'[l].next <= Prefix(file) + 1
          OBVIOUS
      <4>1. CASE listeners'[l] = listeners[l] BY <2>1, <4>1
      <4>2. CASE listeners'[l] = [listeners[l] EXCEPT !.next = e + 1]
        <5>1. listeners'[l].next = e + 1 /\ listeners'[l] \in Cursor BY <2>1, <3>6, <4>2 DEF Cursor
        <5> QED BY <5>1, <3>1, <1>6
      <4> QED BY <3>4, <4>1, <4>2
    <3>7. listeners' \in Seq(Cursor) /\ DOMAIN listeners' = DOMAIN listeners
      <4>1. DOMAIN listeners' = 1 .. Len(listeners) BY <3>2, <3>3
      <4>2. \A l \in 1 .. Len(listeners) : listeners'[l] \in Cursor BY <3>3, <3>5
      <4>3. listeners' = [l \in 1 .. Len(listeners) |-> listeners'[l]] BY <3>2, <4>1
      <4>4. [l \in 1 .. Len(listeners) |-> listeners'[l]] \in Seq(Cursor) BY <3>3, <4>2
      <4> QED BY <3>3, <4>1, <4>3, <4>4
    <3> QED BY <3>1, <3>5, <3>7
  <2> QED BY <2>2, <2>3 DEF ChatStep, Recorded, Unrecorded, Silent, Hushed, Announced
<1>11. \A c \in Conns : \A i \in DOMAIN replay[c] : replay[c][i] <= Prefix(file')
  <2> SUFFICES ASSUME NEW c \in Conns, NEW i \in DOMAIN replay[c] PROVE replay[c][i] <= Prefix(file') OBVIOUS
  <2>1. replay[c] \in Seq(Nat) BY DEF Inv, Types
  <2>2. replay[c][i] \in Nat /\ replay[c][i] <= Prefix(file) BY <2>1 DEF Inv, Logged
  <2> QED BY <1>6, <1>7, <2>2
<1>12. \A j \in DOMAIN chats' :
        /\ chats'[j].seq <= Prefix(file')
        /\ \A i \in DOMAIN chats'[j].todo : chats'[j].todo[i] <= chats'[j].seq
        /\ chats'[j].ended => chats'[j].status = "stopped" /\ chats'[j].todo = << >>
        /\ ~chats'[j].ended /\ chats'[j].status = "stopped" => chats'[j].todo # << >>
        /\ chats'[j].status # "stopped" => chats'[j].seq = Prefix(file')
        /\ chats'[j].status # "stopped" /\ chats'[j].owns => file'.tail = << >>
        /\ chats'[j].telling # {} => chats'[j].todo # << >>
  <2>1. ch.ended = FALSE BY <1>4 DEF ChatStep, ChatRec
  <2> QED BY <1>1, <1>2, <1>8, <1>9, <2>1
<1> QED BY <1>3, <1>7, <1>10, <1>11, <1>12 DEF Logged, Up

\* What is to be published, with an event at its end or without its first one.
LEMMA Publication ==
    ASSUME Inv, NEW k \in DOMAIN chats, NEW ch \in ChatRec, ChatStep(k, ch), Becomes(k, ch)
    PROVE  /\ \A l \in chats[k].listeners : \A e \in listeners'[l].next .. ch.seq : Coming(k, l, e)'
           /\ \A e \in Nat :
                 /\ lock = k
                 /\ e <= ch.seq
                 /\ e \in 0 .. chats[k].seq => ComingNew(k, e)
                 => ComingNew(k, e)'
<1> DEFINE c == chats[k]
<1>1. DOMAIN chats' = DOMAIN chats /\ chats'[k] = Left(ch) BY ThreadFrame
<1>2. chats'[k].todo = ch.todo /\ chats'[k].telling = ch.telling BY <1>1, LeftType
<1>3. c \in ChatRec BY DEF Inv, Types
<1>4. c.todo \in Seq(Nat) /\ c.seq \in Nat /\ ch.seq \in Nat BY <1>3 DEF ChatRec
<1>5. \A l \in c.listeners : l \in DOMAIN listeners BY DEF Inv, Subscribed
<1>6. \A l \in DOMAIN listeners : listeners[l] \in Cursor BY DEF Inv, Types
<1>7. \A l \in c.listeners : \A e \in listeners[l].next .. c.seq : Coming(k, l, e)
    BY DEF Inv, Subscribed, NoGap, Coming
<1>8. c.telling # {} => c.todo # << >> BY DEF Inv, Logged
<1>9. CASE c.todo = << >> /\ Recorded(k, ch)
  <2>1. /\ DOMAIN ch.todo = {1} /\ ch.todo[1] = c.seq + 1 /\ ch.telling = {} /\ ch.seq = c.seq + 1
        /\ listeners' = listeners
      BY <1>4, <1>8, <1>9 DEF Recorded
  <2>2. \A e \in Nat : ~ComingNew(k, e) BY <1>9 DEF ComingNew
  <2>3. \A l : ~\E e : Coming(k, l, e) BY <1>9 DEF Coming
  <2>4. \A e : e = c.seq + 1 => ComingNew(k, e)' /\ \A l : Coming(k, l, e)'
      BY <1>2, <2>1 DEF ComingNew, Coming
  <2>5. ASSUME NEW l \in c.listeners, NEW e \in listeners[l].next .. ch.seq PROVE e = c.seq + 1
    <3>1. listeners[l].next \in Nat BY <1>5, <1>6 DEF Cursor
    <3>2. e \notin listeners[l].next .. c.seq BY <1>7, <2>3
    <3> QED BY <1>4, <2>1, <3>1, <3>2
  <2>6. \A e \in Nat : e <= ch.seq /\ e \notin 0 .. c.seq => e = c.seq + 1 BY <1>4, <2>1
  <2> QED BY <2>1, <2>2, <2>4, <2>5, <2>6
<1>10. CASE c.todo = << >> /\ (Unrecorded(k, ch) \/ Silent(k, ch))
  <2>1. ch.seq = c.seq /\ listeners' = listeners BY <1>10 DEF Unrecorded, Silent
  <2>2. \A e \in Nat : ~ComingNew(k, e) BY <1>10 DEF ComingNew
  <2>3. \A l : ~\E e : Coming(k, l, e) BY <1>10 DEF Coming
  <2>4. \A e \in Nat : e <= ch.seq => e \in 0 .. c.seq BY <1>4, <2>1
  <2> QED BY <1>7, <2>1, <2>2, <2>3, <2>4
<1>11. CASE c.todo # << >> /\ Hushed(k, ch)
  <2>1. c.listeners = {} /\ lock # k BY <1>11 DEF Hushed
  <2> QED BY <2>1
<1>12. CASE c.todo # << >> /\ Announced(k, ch)
  <2>1. ch.seq = c.seq /\ listeners' = listeners /\ ch.todo = c.todo /\ ch.telling = c.listeners /\ lock # k
      BY <1>3, <1>12 DEF Announced, ChatRec
  <2>2. \A l \in c.listeners : \A e : Coming(k, l, e) => Coming(k, l, e)' BY <1>2, <2>1 DEF Coming
  <2> QED BY <1>7, <2>1, <2>2
<1>13. CASE c.todo # << >> /\ Told(k, ch)
  <2> DEFINE h == Head(c.todo)
  <2>1. /\ ch.seq = c.seq /\ ch.todo = Tail(c.todo) /\ ch.telling = {} /\ c.telling # {}
      BY <1>3, <1>13 DEF Told, ChatRec
  <2>2. h = c.todo[1] /\ h \in Nat /\ h <= c.seq
    <3>1. h = c.todo[1] /\ 1 \in DOMAIN c.todo /\ h \in Nat BY <1>4, <1>13
    <3> QED BY <3>1 DEF Inv, Logged
  <2>3. \A i \in DOMAIN c.todo : i # 1 => i - 1 \in DOMAIN ch.todo /\ ch.todo[i - 1] = c.todo[i]
    <3>1. DOMAIN ch.todo = 1 .. Len(c.todo) - 1 /\ DOMAIN c.todo = 1 .. Len(c.todo) /\ Len(c.todo) \in Nat
        BY <1>4, <1>13, <2>1
    <3>2. \A i \in 1 .. Len(c.todo) - 1 : ch.todo[i] = c.todo[i + 1] BY <1>4, <1>13, <2>1
    <3> SUFFICES ASSUME NEW i \in DOMAIN c.todo, i # 1
                 PROVE  i - 1 \in DOMAIN ch.todo /\ ch.todo[i - 1] = c.todo[i]
        OBVIOUS
    <3>3. i - 1 \in 1 .. Len(c.todo) - 1 /\ (i - 1) + 1 = i BY <3>1
    <3> QED BY <3>1, <3>2, <3>3
  <2>4. \A l \in DOMAIN listeners :
            /\ listeners'[l].next \in Nat
            /\ listeners'[l].next >= listeners[l].next
            /\ l \in c.telling /\ h # Notice => listeners'[l].next > h
    <3> SUFFICES ASSUME NEW l \in DOMAIN listeners PROVE
            /\ listeners'[l].next \in Nat
            /\ listeners'[l].next >= listeners[l].next
            /\ l \in c.telling /\ h # Notice => listeners'[l].next > h
        OBVIOUS
    <3>1. listeners'[l] = IF l \in c.telling /\ (h = Notice \/ h >= listeners[l].next) /\ h # Notice
                          THEN [listeners[l] EXCEPT !.next = h + 1]
                          ELSE listeners[l]
        BY <1>13 DEF Told
    <3>2. listeners[l] \in Cursor BY <1>6
    <3> HIDE DEF h
    <3>3. CASE l \in c.telling /\ h # Notice /\ h >= listeners[l].next
      <4>1. listeners'[l] = [listeners[l] EXCEPT !.next = h + 1] BY <3>1, <3>3
      <4>2. listeners'[l].next = h + 1 BY <3>2, <4>1 DEF Cursor
      <4> QED BY <2>2, <3>2, <3>3, <4>2 DEF Cursor
    <3>4. CASE ~(l \in c.telling /\ h # Notice /\ h >= listeners[l].next)
      <4>1. listeners'[l] = listeners[l] BY <3>1, <3>4
      <4>2. listeners[l].next \in Nat BY <3>2 DEF Cursor
      <4> QED BY <2>2, <3>4, <4>1, <4>2
    <3> QED BY <3>3, <3>4
  <2>5. \A l \in c.listeners : \A e \in listeners'[l].next .. ch.seq : Coming(k, l, e)'
    <3> SUFFICES ASSUME NEW l \in c.listeners, NEW e \in listeners'[l].next .. ch.seq PROVE Coming(k, l, e)'
        OBVIOUS
    <3>1. l \in DOMAIN listeners /\ listeners[l].next \in Nat \ {0} BY <1>5, <1>6 DEF Cursor
    <3>2. e \in listeners[l].next .. c.seq BY <2>1, <2>4, <3>1, <1>4
    <3>3. PICK i \in DOMAIN c.todo : c.todo[i] = e /\ (i = 1 /\ c.telling # {} => l \in c.telling)
        BY <1>7, <3>2 DEF Coming
    <3>4. i # 1
      <4> SUFFICES ASSUME i = 1 PROVE FALSE OBVIOUS
      <4>1. l \in c.telling /\ e = h BY <2>1, <2>2, <3>3
      <4>2. CASE h # Notice BY <2>2, <2>4, <3>1, <4>1, <4>2
      <4>3. CASE h = Notice
        <5>1. e = 0 /\ e >= listeners[l].next BY <3>1, <3>2, <4>1, <4>3 DEF Notice
        <5> QED BY <3>1, <5>1
      <4> QED BY <4>2, <4>3
    <3> QED BY <1>2, <2>1, <2>3, <3>3, <3>4 DEF Coming
  <2>6. \A e \in Nat : ComingNew(k, e) => ComingNew(k, e)'
    <3> SUFFICES ASSUME NEW e \in Nat, NEW i \in DOMAIN c.todo, c.todo[i] = e, i = 1 => c.telling = {}
                 PROVE  ComingNew(k, e)'
        BY DEF ComingNew
    <3> QED BY <1>2, <2>1, <2>3 DEF ComingNew
  <2>7. \A e \in Nat : e <= ch.seq => e \in 0 .. c.seq BY <1>4, <2>1
  <2> QED BY <2>5, <2>6, <2>7
<1> QED BY <1>9, <1>10, <1>11, <1>12, <1>13 DEF ChatStep

\* Cursors only move ahead, and only those of who is told.
LEMMA Cursors ==
    ASSUME Inv, NEW k \in DOMAIN chats, NEW ch \in ChatRec, ChatStep(k, ch)
    PROVE  /\ DOMAIN listeners' = DOMAIN listeners
           /\ \A l \in DOMAIN listeners :
                 /\ listeners[l].next \in Nat \ {0} /\ listeners'[l].next \in Nat
                 /\ listeners'[l].conn = listeners[l].conn /\ listeners'[l].next >= listeners[l].next
                 /\ l \notin chats[k].telling => listeners'[l] = listeners[l]
<1>1. \A l \in DOMAIN listeners : listeners[l] \in Cursor /\ listeners[l].next \in Nat \ {0}
  <2>1. \A l \in DOMAIN listeners : listeners[l] \in Cursor BY DEF Inv, Types
  <2> QED BY <2>1 DEF Cursor
<1>2. CASE listeners' = listeners BY <1>1, <1>2
<1>3. CASE chats[k].todo # << >> /\ Told(k, ch)
  <2> DEFINE h == Head(chats[k].todo)
  <2>1. h \in Nat
    <3>1. chats[k] \in ChatRec BY DEF Inv, Types
    <3>2. chats[k].todo \in Seq(Nat) BY <3>1 DEF ChatRec
    <3> QED BY <1>3, <3>2
  <2>2. listeners' = [l \in DOMAIN listeners |->
                        IF l \in chats[k].telling /\ (h = Notice \/ h >= listeners[l].next) /\ h # Notice
                        THEN [listeners[l] EXCEPT !.next = h + 1]
                        ELSE listeners[l]]
      BY <1>3 DEF Told
  <2> HIDE DEF h
  <2>3. ASSUME NEW l \in DOMAIN listeners
        PROVE  /\ listeners'[l].next \in Nat
               /\ listeners'[l].conn = listeners[l].conn /\ listeners'[l].next >= listeners[l].next
               /\ l \notin chats[k].telling => listeners'[l] = listeners[l]
    <3>1. CASE l \in chats[k].telling /\ h # Notice /\ h >= listeners[l].next
      <4>1. listeners'[l] = [listeners[l] EXCEPT !.next = h + 1] BY <2>2, <3>1
      <4>2. listeners'[l].next = h + 1 /\ listeners'[l].conn = listeners[l].conn BY <1>1, <4>1 DEF Cursor
      <4> QED BY <1>1, <2>1, <3>1, <4>2
    <3>2. CASE ~(l \in chats[k].telling /\ h # Notice /\ h >= listeners[l].next)
      <4>1. listeners'[l] = listeners[l] BY <2>2, <3>2
      <4> QED BY <1>1, <4>1
    <3> QED BY <3>1, <3>2
  <2> QED BY <1>1, <2>2, <2>3
<1> QED BY <1>2, <1>3 DEF ChatStep, Recorded, Unrecorded, Silent, Hushed, Announced

\* The steps of a chat's thread and its listeners.
LEMMA ThreadSubscribed ==
    ASSUME Inv, NEW k \in DOMAIN chats, NEW ch \in ChatRec, ChatStep(k, ch), Becomes(k, ch),
           UNCHANGED chatRest, open' \in [Conns -> BOOLEAN], \A x \in Conns : open'[x] => open[x]
    PROVE  Subscribed' /\ Deserted'
<1>1. /\ DOMAIN chats' = DOMAIN chats
      /\ chats'[k] = Left(ch) /\ \A j \in DOMAIN chats : j # k => chats'[j] = chats[j]
      /\ \A a \in Actors \ Freed(ch) : pc'[a] = pc[a]
      /\ \A a \in Freed(ch) : pc'[a] \in {"reply", "attach", "drop"} /\ a \in Conns
    BY ThreadFrame
<1>2. /\ Left(ch).telling = ch.telling /\ Left(ch).seq = ch.seq
      /\ Left(ch).listeners = ch.listeners /\ Left(ch).alone = ch.alone /\ Left(ch).status = ch.status
    BY LeftType
<1>3. ch.listeners = chats[k].listeners /\ ch.alone = chats[k].alone BY DEF ChatStep
<1>4. UNCHANGED <<entry, lock, reader, target, replay>> /\ Conns \subseteq Actors /\ "sweep" \in Actors \ Conns
    BY ConstantsAssumption DEF chatRest, readVars, Actors
<1>5. /\ DOMAIN listeners' = DOMAIN listeners
      /\ \A l \in DOMAIN listeners :
            /\ listeners[l].next \in Nat \ {0} /\ listeners'[l].next \in Nat
            /\ listeners'[l].conn = listeners[l].conn /\ listeners'[l].next >= listeners[l].next
            /\ l \notin chats[k].telling => listeners'[l] = listeners[l]
    BY Cursors
<1>6. ch.telling \subseteq chats[k].telling \cup chats[k].listeners
  <2>1. chats[k] \in ChatRec BY DEF Inv, Types
  <2> QED BY <2>1 DEF ChatStep, Recorded, Unrecorded, Silent, Hushed, Announced, Told, ChatRec
<1>7. \A j \in DOMAIN chats : /\ chats'[j].listeners = chats[j].listeners /\ chats'[j].alone = chats[j].alone
                              /\ chats'[j].telling \subseteq chats[j].telling \cup chats[j].listeners
    BY <1>1, <1>2, <1>3, <1>6
<1>8. \A j \in DOMAIN chats' : chats'[j].listeners \cup chats'[j].telling \subseteq DOMAIN listeners'
    BY <1>1, <1>5, <1>7 DEF Inv, Subscribed
<1>9. NoGap'
  <2> SUFFICES ASSUME NEW j \in DOMAIN chats, NEW l \in chats[j].listeners,
                      NEW e \in listeners'[l].next .. chats'[j].seq
               PROVE  Coming(j, l, e)'
      BY <1>1, <1>7 DEF NoGap, Coming
  <2>1. CASE j = k BY <1>1, <1>2, <2>1, Publication
  <2>2. CASE j # k
    <3>1. chats'[j] = chats[j] /\ l \in DOMAIN listeners BY <1>1, <2>2 DEF Inv, Subscribed
    <3>2. chats[j].seq \in Nat
      <4>1. chats[j] \in ChatRec BY DEF Inv, Types
      <4> QED BY <4>1 DEF ChatRec
    <3>3. e \in listeners[l].next .. chats[j].seq BY <1>5, <3>1, <3>2
    <3>4. Coming(j, l, e) BY <3>3 DEF Inv, Subscribed, NoGap, Coming
    <3> QED BY <3>1, <3>4 DEF Coming
  <2> QED BY <2>1, <2>2
<1>10. ASSUME NEW c \in Conns, pc'[c] = "replay"
       PROVE  /\ lock' = target'[c]
              /\ listeners' # << >> /\ listeners'[Mine'].conn = c
              /\ \A j \in DOMAIN chats' : Mine' \notin chats'[j].listeners \cup chats'[j].telling
              /\ \A i \in DOMAIN replay'[c] : replay'[c][i] = listeners'[Mine'].next + i - 1
              /\ \A e \in listeners'[Mine'].next + Len(replay'[c]) .. chats'[target'[c]].seq :
                    ComingNew(target[c], e)'
  <2>1. pc[c] = "replay" BY <1>1, <1>4, <1>10
  <2>2. listeners \in Seq(Cursor) /\ listeners # << >> BY <2>1 DEF Inv, Types, Subscribed
  <2>3. listeners' \in Seq(Cursor) BY ThreadLogged
  <2>4. Mine' = Mine /\ Mine \in DOMAIN listeners /\ listeners' # << >> BY <1>5, <2>2, <2>3 DEF Mine
  <2>5. Mine \notin chats[k].telling /\ listeners'[Mine] = listeners[Mine] BY <1>5, <2>1, <2>4 DEF Inv, Subscribed
  <2>6. \A j \in DOMAIN chats : Mine \notin chats'[j].listeners \cup chats'[j].telling
      BY <1>7, <2>1 DEF Inv, Subscribed
  <2>7. ASSUME NEW e \in listeners[Mine].next + Len(replay[c]) .. chats'[target[c]].seq
        PROVE  ComingNew(target[c], e)'
    <3>1. entry = target[c] /\ entry # 0 BY <2>1 DEF Inv, Owned
    <3>2. target[c] \in DOMAIN chats BY <3>1 DEF Inv, Types
    <3>3. replay[c] \in Seq(Nat) BY DEF Inv, Types
    <3>4. \A x \in ChatRec : x.seq \in Nat BY DEF ChatRec
    <3>5. chats[target[c]] \in ChatRec BY <3>2 DEF Inv, Types
    <3>6. listeners[Mine].next \in Nat BY <1>5, <2>4
    <3>7. \A x \in listeners[Mine].next + Len(replay[c]) .. chats[target[c]].seq : ComingNew(target[c], x)
        BY <2>1 DEF Inv, Subscribed
    <3>8. CASE target[c] # k
      <4>1. chats'[target[c]] = chats[target[c]] BY <1>1, <3>2, <3>8
      <4>2. ComingNew(target[c], e) BY <3>7, <4>1
      <4> QED BY <1>4, <4>1, <4>2 DEF ComingNew
    <3>9. CASE target[c] = k
      <4>1. lock = k BY <2>1, <3>9 DEF Inv, Subscribed
      <4>2. chats'[k].seq = ch.seq BY <1>1, <1>2
      <4>3. e \in Nat /\ e <= ch.seq BY <3>3, <3>4, <3>6, <3>9, <4>2
      <4>4. e \in 0 .. chats[k].seq => ComingNew(k, e) BY <3>3, <3>4, <3>5, <3>6, <3>7, <3>9
      <4>5. ComingNew(k, e)' BY <4>1, <4>3, <4>4, Publication
      <4> QED BY <1>4, <3>9, <4>5 DEF ComingNew
    <3> QED BY <3>8, <3>9
  <2> QED BY <1>1, <1>4, <2>1, <2>4, <2>5, <2>6, <2>7 DEF Inv, Subscribed
<1>11. Subscribed'
  <2>1. \A c \in Conns : pc'[c] = "replay" =>
          /\ lock' = target'[c]
          /\ listeners' # << >> /\ listeners'[Mine'].conn = c
          /\ \A j \in DOMAIN chats' : Mine' \notin chats'[j].listeners \cup chats'[j].telling
          /\ \A i \in DOMAIN replay'[c] : replay'[c][i] = listeners'[Mine'].next + i - 1
          /\ \A e \in listeners'[Mine'].next + Len(replay'[c]) .. chats'[target'[c]].seq :
                ComingNew(target[c], e)'
      BY <1>10
  <2> QED BY <1>8, <1>9, <2>1 DEF Subscribed
<1>12. Deserted'
  <2>1. \A c \in Conns : reader[c] \in {"closing", "ended"} => ~open'[c] BY DEF Inv, Deserted
  <2>2. entry # 0 => \A l \in chats'[entry].listeners : reader[listeners'[l].conn] # "ended"
    <3> SUFFICES ASSUME entry # 0, NEW l \in chats'[entry].listeners PROVE reader[listeners'[l].conn] # "ended"
        OBVIOUS
    <3>1. entry \in DOMAIN chats BY DEF Inv, Types
    <3>2. l \in chats[entry].listeners BY <1>7, <3>1
    <3>3. listeners'[l].conn = listeners[l].conn BY <1>5, <3>1, <3>2 DEF Inv, Subscribed
    <3> QED BY <3>2, <3>3 DEF Inv, Deserted
  <2>3. \A j \in DOMAIN chats' : chats'[j].alone => chats'[j].listeners = {} BY <1>1, <1>7 DEF Inv, Deserted
  <2>4. pc'["sweep"] \in {"mark", "join"} /\ chats'[target["sweep"]].status # "stopped"
        => chats'[target["sweep"]].listeners = {}
    <3> SUFFICES ASSUME pc["sweep"] \in {"mark", "join"}, chats'[target["sweep"]].status # "stopped"
                 PROVE  chats'[target["sweep"]].listeners = {}
        BY <1>1, <1>4
    <3>1. target["sweep"] \in DOMAIN chats BY <1>4 DEF Inv, Owned, Putting
    <3>2. chats[target["sweep"]].status # "stopped"
      <4>1. CASE target["sweep"] # k BY <1>1, <3>1, <4>1
      <4>2. CASE target["sweep"] = k
        <5>1. ch.status # "stopped" BY <1>1, <1>2, <4>2
        <5>2. chats[k] \in ChatRec BY DEF Inv, Types
        <5>3. CASE chats[k].todo # << >>
            BY <5>1, <5>2, <5>3, <4>2 DEF ChatStep, Hushed, Announced, Told, ChatRec
        <5>4. CASE chats[k].todo = << >> BY <5>4, <4>2 DEF ChatStep, Inv, Logged, Up
        <5> QED BY <5>3, <5>4
      <4> QED BY <4>1, <4>2
    <3> QED BY <1>7, <3>1, <3>2 DEF Inv, Deserted, Putting
  <2> QED BY <1>4, <2>1, <2>2, <2>3, <2>4 DEF Deserted, Putting
<1> QED BY <1>11, <1>12

\* The thread of a chat keeps the invariant.
LEMMA ThreadInv ==
    ASSUME Inv, NEW k \in DOMAIN chats, Thread(k) \/ Heard(k)
    PROVE  Inv'
<1>1. PICK ch \in ChatRec : ChatStep(k, ch) /\ Becomes(k, ch) BY ThreadStep
<1>2. /\ UNCHANGED <<gone, chatRest>> /\ open' \in [Conns -> BOOLEAN]
      /\ \A x \in Conns : open'[x] => open[x]
    BY ThreadStep
<1>3. UNCHANGED chatRest BY <1>2
<1>4. Gated' /\ Closing' /\ Owned' BY <1>1, <1>3, ThreadControl
<1>5. Awaited' BY <1>1, <1>3, ThreadAwaited
<1>6. Logged' /\ listeners' \in Seq(Cursor) BY <1>1, <1>3, ThreadLogged
<1>7. Subscribed' /\ Deserted' BY <1>1, <1>2, <1>3, ThreadSubscribed
<1>8. chats' \in Seq(ChatRec) /\ Len(chats') = Len(chats) /\ pc' \in [Actors -> Places] BY <1>1, ThreadFrame
<1>9. Types' BY <1>2, <1>3, <1>6, <1>8 DEF Types, Inv, chatRest, gateVars, readVars, mainVars
<1> QED BY <1>4, <1>5, <1>6, <1>7, <1>9 DEF Inv

-----------------------------------------------------------------------------
(* Readers, signals and the end of tasks that were not begun. *)

\* Who has nothing to do with chats, gates and tasks disturbs none of them.
LEMMA CalmParts ==
    ASSUME Inv, UNCHANGED <<file, chatVars, entry, lock, gateVars, taskVars>>
    PROVE  Gated' /\ Owned' /\ Awaited' /\ Logged' /\ Subscribed'
<1>1. UNCHANGED <<file, chats, listeners, entry, lock, gate, want, holder, pc, then, target, replay>>
    BY DEF chatVars, gateVars, taskVars
<1>2. Gated' BY <1>1 DEF Inv, Gated, Inside
<1>3. Owned' BY <1>1 DEF Inv, Owned, Putting, Up
<1>4. Awaited' BY <1>1 DEF Inv, Awaited, Waiters
<1>5. Logged' BY <1>1 DEF Inv, Logged, Up
<1>6. Subscribed' BY <1>1 DEF Inv, Subscribed, NoGap, Mine, ComingNew
<1> QED BY <1>2, <1>3, <1>4, <1>5, <1>6

\* talk, Admission and the signal: a request is taken or refused, and nothing
\* is taken any more once the daemon stops.
LEMMA ReaderInv ==
    ASSUME Inv, NEW c \in Peers,
           \/ /\ c \in Conns
              /\ Submit(c) \/ Refuse(c) \/ SubmitShutdown(c) \/ Shutdown(c) \/ Hangup(c) \/ Skip(c)
           \/ Signal \/ Signalled
    PROVE  Inv'
<1>1. UNCHANGED <<file, chatVars, entry, lock, gateVars, taskVars>>
    BY DEF Submit, Refuse, SubmitShutdown, Shutdown, Hangup, Skip, Signal, Signalled, mainRest, taskVars, readVars, chatVars
<1>2. Gated' /\ Owned' /\ Awaited' /\ Logged' /\ Subscribed' BY <1>1, CalmParts
<1>3. UNCHANGED <<chats, listeners, entry, gate, want, holder, pc, then, target, replay>>
    BY <1>1 DEF chatVars, gateVars, taskVars
<1>4. /\ lane \in [Conns -> Seq(AllOps)] /\ plan \in [Peers -> Seq(AllOps)]
      /\ open \in [Conns -> BOOLEAN]
      /\ reader \in [Conns -> {"reading", "draining", "closing", "ended"}]
      /\ c \in Peers /\ accepting \in BOOLEAN /\ stopping \in BOOLEAN
    BY DEF Inv, Types, Peers
<1>5. \A x \in Conns : lane[x] \in Seq(AllOps) BY <1>4
<1>6. /\ lane' \in [Conns -> Seq(AllOps)] /\ plan' \in [Peers -> Seq(AllOps)]
      /\ open' \in [Conns -> BOOLEAN] /\ \A x \in Conns : open'[x] => open[x]
      /\ reader' \in [Conns -> {"reading", "draining", "closing", "ended"}]
      /\ accepting' \in BOOLEAN /\ stopping' \in BOOLEAN
      /\ \A x \in Conns : reader'[x] \in {"closing", "ended"} => reader'[x] = reader[x] \/ ~open'[x]
      /\ \A x \in Conns : reader'[x] = "ended" => reader[x] = "ended"
      /\ \A x \in Conns : pc[x] # "idle" => lane'[x] # << >>
      /\ stopping' => ~accepting' /\ \A x \in Conns : lane'[x] = << >>
      /\ \A x \in Conns : reader'[x] = "draining" => ~accepting'
      /\ stopping => stopping'
  <2>0. /\ stopping => ~accepting /\ \A x \in Conns : lane[x] = << >>
        /\ \A x \in Conns : reader[x] = "draining" => ~accepting
        /\ \A x \in Conns : pc[x] # "idle" => lane[x] # << >>
      BY DEF Inv, Closing
  <2>1. CASE c \in Conns /\ Submit(c)
    <3>1. /\ c \in Conns /\ plan' = [plan EXCEPT ![c] = Tail(plan[c])] /\ plan[c] # << >>
          /\ lane' = [lane EXCEPT ![c] = Append(lane[c], Head(plan[c]))]
          /\ accepting /\ UNCHANGED <<open, reader, accepting, stopping>>
        BY <2>1 DEF Submit, Asks, wireVars, mainVars
    <3>2. plan[c] \in Seq(AllOps) BY <1>4
    <3>3. Head(plan[c]) \in AllOps /\ Tail(plan[c]) \in Seq(AllOps) BY <3>1, <3>2
    <3>4. Append(lane[c], Head(plan[c])) \in Seq(AllOps) /\ Append(lane[c], Head(plan[c])) # << >>
      <4>1. lane[c] \in Seq(AllOps) BY <1>5, <3>1
      <4> QED BY <3>3, <4>1
    <3>5. lane' \in [Conns -> Seq(AllOps)] /\ plan' \in [Peers -> Seq(AllOps)] BY <1>4, <3>1, <3>3, <3>4
    <3>6. \A x \in Conns : pc[x] # "idle" => lane'[x] # << >> BY <1>4, <2>0, <3>1, <3>4
    <3> QED BY <1>4, <2>0, <3>1, <3>5, <3>6
  <2>2. CASE c \in Conns /\ Refuse(c)
    <3>1. /\ c \in Conns /\ plan' = [plan EXCEPT ![c] = Tail(plan[c])] /\ plan[c] # << >>
          /\ reader' = [reader EXCEPT ![c] = "closing"]
          /\ open' = [x \in Conns |-> open[x] /\ x \notin {c}]
          /\ UNCHANGED <<lane, accepting, stopping>>
        BY <2>2 DEF Refuse, Asks, Close, mainVars
    <3>2. plan[c] \in Seq(AllOps) BY <1>4
    <3>3. Tail(plan[c]) \in Seq(AllOps) BY <3>1, <3>2
    <3>4. plan' \in [Peers -> Seq(AllOps)] BY <1>4, <3>1, <3>3
    <3> QED BY <1>4, <2>0, <3>1, <3>4
  <2>3. CASE c \in Conns /\ SubmitShutdown(c)
    <3>1. /\ c \in Conns /\ plan' = [plan EXCEPT ![c] = Tail(plan[c])] /\ plan[c] # << >>
          /\ reader' = [reader EXCEPT ![c] = "draining"]
          /\ accepting' = FALSE
          /\ UNCHANGED <<open, lane, stopping>>
        BY <2>3 DEF SubmitShutdown, Asks, wireVars
    <3>2. plan[c] \in Seq(AllOps) BY <1>4
    <3>3. Tail(plan[c]) \in Seq(AllOps) BY <3>1, <3>2
    <3>4. plan' \in [Peers -> Seq(AllOps)] BY <1>4, <3>1, <3>3
    <3> QED BY <1>4, <2>0, <3>1, <3>4
  <2>4. CASE c \in Conns /\ Shutdown(c)
    <3>1. /\ c \in Conns /\ reader[c] = "draining" /\ \A x \in Conns : lane[x] = << >>
          /\ stopping' = TRUE
          /\ reader' = [reader EXCEPT ![c] = "closing"]
          /\ open' = [x \in Conns |-> open[x] /\ x \notin {c}]
          /\ UNCHANGED <<plan, lane, accepting>>
        BY <2>4 DEF Shutdown, Active, Close
    <3> QED BY <1>4, <2>0, <3>1
  <2>5. CASE c \in Conns /\ Hangup(c)
    <3>1. /\ reader' = [reader EXCEPT ![c] = "closing"]
          /\ open' = [x \in Conns |-> open[x] /\ x \notin {c}]
          /\ UNCHANGED <<plan, lane, accepting, stopping>>
        BY <2>5 DEF Hangup, Close, mainVars
    <3> QED BY <1>4, <2>0, <3>1
  <2>6. CASE c \in Conns /\ Skip(c)
    <3>1. /\ c \in Conns /\ pc[c] = "idle" /\ lane[c] # << >> /\ lane' = [lane EXCEPT ![c] = Tail(lane[c])]
          /\ UNCHANGED <<open, reader, plan, accepting, stopping>>
        BY <2>6 DEF Skip, wireVars, mainVars
    <3>2. Tail(lane[c]) \in Seq(AllOps) BY <1>5, <3>1
    <3>3. lane' \in [Conns -> Seq(AllOps)] BY <1>4, <3>1, <3>2
    <3>4. \A x \in Conns : pc[x] # "idle" => lane'[x] # << >> BY <1>4, <2>0, <3>1
    <3> QED BY <1>4, <2>0, <3>1, <3>3, <3>4
  <2>7. CASE Signal
    <3>1. /\ plan' = [plan EXCEPT !["main"] = << >>] /\ accepting' = FALSE
          /\ UNCHANGED <<open, reader, lane, stopping>>
        BY <2>7 DEF Signal, mainRest, wireVars
    <3>2. plan' \in [Peers -> Seq(AllOps)]
      <4> DEFINE t == << >>
      <4>1. t \in Seq(AllOps) OBVIOUS
      <4>2. plan' = [plan EXCEPT !["main"] = t] BY <3>1
      <4> HIDE DEF t
      <4> QED BY <1>4, <4>1, <4>2
    <3> QED BY <1>4, <2>0, <3>1, <3>2
  <2>8. CASE Signalled
    <3>1. /\ ~accepting /\ stopping' = TRUE /\ \A x \in Conns : lane[x] = << >>
          /\ UNCHANGED <<open, reader, lane, plan, accepting>>
        BY <2>8 DEF Signalled, Active, mainRest, wireVars, readVars
    <3> QED BY <1>4, <2>0, <3>1
  <2> QED BY <2>1, <2>2, <2>3, <2>4, <2>5, <2>6, <2>7, <2>8
<1>7. Types' BY <1>3, <1>6 DEF Inv, Types
<1>8. Closing' BY <1>3, <1>6 DEF Inv, Closing
<1>9. Deserted'
  <2>1. \A x \in Conns : reader'[x] \in {"closing", "ended"} => ~open'[x]
      BY <1>6 DEF Inv, Deserted
  <2>2. entry # 0 => \A l \in chats[entry].listeners : reader'[listeners[l].conn] # "ended"
    <3> SUFFICES ASSUME entry # 0, NEW l \in chats[entry].listeners PROVE reader'[listeners[l].conn] # "ended"
        OBVIOUS
    <3>1. entry \in DOMAIN chats BY DEF Inv, Types
    <3>2. l \in DOMAIN listeners /\ listeners \in Seq(Cursor) BY <3>1 DEF Inv, Subscribed, Types
    <3>3. listeners[l] \in Cursor BY <3>2
    <3>4. listeners[l].conn \in Conns BY <3>3 DEF Cursor
    <3> QED BY <1>6, <3>4 DEF Inv, Deserted
  <2> QED BY <1>3, <2>1, <2>2 DEF Inv, Deserted, Putting
<1> QED BY <1>2, <1>7, <1>8, <1>9 DEF Inv

-----------------------------------------------------------------------------
(* Gates. *)

\* Who works on the session under its gate does so alone, and while a request
\* is served the daemon does not exit.
LEMMA Exclusive ==
    ASSUME Inv, NEW a \in Actors, a # "main", pc[a] \notin {"idle", "wait", "reply"}
    PROVE  /\ Inside(a)
           /\ \A b \in Actors \ {a, "main"} : pc[b] \in {"idle", "wait", "reply"}
           /\ a \in Conns => pc["main"] = "idle" /\ ~stopping
<1>1. \A b \in Actors \ {"main"} : pc[b] \notin {"idle", "wait", "reply"} => Inside(b)
    BY DEF Inv, Gated, Inside
<1>2. \A b \in Actors : Inside(b) => holder[gate] = b BY DEF Inv, Gated
<1> QED BY <1>1, <1>2 DEF Inv, Closing

\* A gate for someone who has none.
LEMMA Cloned ==
    ASSUME Inv, NEW a \in Actors, a # "main", pc[a] = "idle", CloneGate(a)
    PROVE  /\ gate' \in GateIds /\ want' = [want EXCEPT ![a] = gate']
           /\ \A b \in Actors : want[b] # 0 => gate' = gate
<1> DEFINE Q(n) == \A b \in Actors : want[b] # n
<1>1. IsFiniteSet(Actors) /\ Actors # {}
  <2>1. IsFiniteSet(Conns) BY ConstantsAssumption
  <2>2. IsFiniteSet({"sweep", "main"})
    <3>1. IsFiniteSet({"sweep"}) BY FS_Singleton
    <3>2. IsFiniteSet({"sweep"} \cup {"main"}) BY <3>1, FS_AddElement
    <3>3. {"sweep", "main"} = {"sweep"} \cup {"main"} OBVIOUS
    <3> QED BY <3>2, <3>3
  <2>3. IsFiniteSet(Actors) BY <2>1, <2>2, FS_Union DEF Actors
  <2> QED BY <2>3
<1>2. Cardinality(Actors) \in Nat /\ Cardinality(Actors) # 0 BY <1>1, FS_CardinalityType, FS_EmptySet
<1>3. 1 \in GateIds BY <1>2 DEF GateIds
<1>4. gate = 0 => \A b \in Actors : want[b] = 0 BY DEF Inv, Gated
<1>5. gate \in GateIds \cup {0} BY DEF Inv, Types
<1>6. CASE gate # 0 BY <1>5, <1>6 DEF CloneGate
<1>7. CASE gate = 0
  <2>1. gate' = (CHOOSE n \in GateIds : Q(n)) /\ want' = [want EXCEPT ![a] = gate'] BY <1>7 DEF CloneGate
  <2>2. \E n \in GateIds : Q(n) BY <1>3, <1>4, <1>7
  <2> HIDE DEF Q
  <2>3. gate' \in GateIds BY <2>1, <2>2
  <2> QED BY <1>4, <1>7, <2>1, <2>3
<1> QED BY <1>6, <1>7

\* Begin and the sweep's first look: whoever comes gets the gate of the others.
LEMMA CloneGated ==
    ASSUME Inv, NEW a \in Actors, a # "main", pc[a] = "idle", CloneGate(a), Goto(a, "wait"), UNCHANGED holder
    PROVE  Gated' /\ gate' \in GateIds /\ want' \in [Actors -> GateIds \cup {0}]
<1>1. /\ gate' \in GateIds /\ want' = [want EXCEPT ![a] = gate']
      /\ \A b \in Actors : want[b] # 0 => gate' = gate
    BY Cloned
<1>2. pc' = [pc EXCEPT ![a] = "wait"] /\ pc \in [Actors -> Places] /\ want \in [Actors -> GateIds \cup {0}]
    BY DEF Goto, Inv, Types
<1>3. want' \in [Actors -> GateIds \cup {0}] BY <1>1, <1>2
<1>4. \A b \in Actors : b # a => want'[b] = want[b] /\ pc'[b] = pc[b] BY <1>1, <1>2
<1>5. want'[a] = gate' /\ pc'[a] = "wait" BY <1>1, <1>2
<1>6. \A b \in Actors : want'[b] # 0 => want'[b] = gate' BY <1>1, <1>4, <1>5 DEF Inv, Gated
<1>7. \A b \in Actors : Inside(b)' => holder'[gate'] = b BY <1>1, <1>4, <1>5 DEF Inv, Gated, Inside
<1>8. 0 \notin GateIds
  <2>1. \A n \in GateIds : n # 0 BY DEF GateIds
  <2> QED BY <2>1
<1>9. \A b \in Actors \ {"main"} : /\ pc'[b] = "idle" => want'[b] = 0
                                   /\ pc'[b] \notin {"idle", "reply"} => want'[b] # 0
    BY <1>1, <1>4, <1>5, <1>8 DEF Inv, Gated
<1>10. want'["main"] = 0 BY <1>4 DEF Inv, Gated, Actors
<1> QED BY <1>1, <1>3, <1>6, <1>7, <1>9, <1>10 DEF Gated

\* The end of a task and of a sweep: the gate is given up, and goes if nobody
\* waits for it.
LEMMA ReleaseGated ==
    ASSUME Inv, NEW a \in Actors, a # "main", pc[a] = "reply", Release(a), Goto(a, "idle")
    PROVE  /\ Gated' /\ gate' \in GateIds \cup {0} /\ want' \in [Actors -> GateIds \cup {0}]
           /\ holder' \in [GateIds -> Actors \cup {"none"}]
<1>1. /\ gate' = IF want[a] = 0 THEN gate ELSE Reclaimed(a)
      /\ want' = [want EXCEPT ![a] = 0]
      /\ holder' = [g \in GateIds |-> IF g = want[a] THEN "none" ELSE holder[g]]
      /\ pc' = [pc EXCEPT ![a] = "idle"]
      /\ pc \in [Actors -> Places] /\ want \in [Actors -> GateIds \cup {0}]
      /\ holder \in [GateIds -> Actors \cup {"none"}] /\ gate \in GateIds \cup {0}
    BY DEF Release, Goto, Inv, Types
<1>2. \A b \in Actors : b # a => want'[b] = want[b] /\ pc'[b] = pc[b] BY <1>1
<1>3. want'[a] = 0 /\ pc'[a] = "idle" BY <1>1
<1>4. gate' \in GateIds \cup {0} BY <1>1 DEF Reclaimed
<1>5. \A b \in Actors : want[b] # 0 => want[b] = gate BY DEF Inv, Gated
<1>6. \A b \in Actors : want'[b] # 0 => want'[b] = gate' /\ gate' = gate
    BY <1>1, <1>2, <1>3, <1>5 DEF Reclaimed
<1>7. \A b \in Actors : Inside(b)' => holder'[gate'] = b
  <2> SUFFICES ASSUME NEW b \in Actors, Inside(b)' PROVE holder'[gate'] = b OBVIOUS
  <2>1. b # a /\ Inside(b) BY <1>2, <1>3 DEF Inside
  <2>2. want[b] = gate /\ gate' = gate /\ gate \in GateIds BY <1>1, <1>2, <1>5, <1>6, <2>1 DEF Inside
  <2>3. want[a] # gate
    <3> SUFFICES ASSUME want[a] = gate PROVE FALSE OBVIOUS
    <3>1. Inside(a) BY <2>1, <2>2 DEF Inside
    <3> QED BY <2>1, <3>1 DEF Inv, Gated
  <2> QED BY <1>1, <2>1, <2>2, <2>3 DEF Inv, Gated
<1>8. \A b \in Actors \ {"main"} : /\ pc'[b] = "idle" => want'[b] = 0
                                   /\ pc'[b] \notin {"idle", "reply"} => want'[b] # 0
    BY <1>2, <1>3 DEF Inv, Gated
<1>9. want'["main"] = 0 BY <1>2 DEF Inv, Gated, Actors
<1> QED BY <1>1, <1>4, <1>6, <1>7, <1>8, <1>9 DEF Gated

\* Moves of who has the gate, and of main, which needs none.
LEMMA InsideGated ==
    ASSUME Inv, NEW a \in Actors, pc[a] \notin {"idle", "wait", "reply"} \/ a = "main",
           pc' \in [Actors -> Places], pc'[a] \notin {"idle", "wait"},
           \A b \in Actors \ {a} : pc'[b] = pc[b], UNCHANGED gateVars
    PROVE  Gated'
<1>1. UNCHANGED <<gate, want, holder>> BY DEF gateVars
<1>2. \A b \in Actors : Inside(b)' <=> Inside(b) BY <1>1 DEF Inside, Inv, Gated
<1> QED BY <1>1, <1>2 DEF Inv, Gated

-----------------------------------------------------------------------------
(* Moves: a thread goes on, and no chat changes. *)

\* Thread a goes to p, and its target and its then may change.
Moves(a, p) ==
    /\ pc' = [pc EXCEPT ![a] = p] /\ p \in Places
    /\ \A b \in Actors \ {a} : target'[b] = target[b] /\ then'[b] = then[b]

\* A move that waits for no chat, attaches to none and takes none away from who
\* waits for it, keeps what is awaited, logged and subscribed.
LEMMA MoveParts ==
    ASSUME Inv, NEW a \in Actors, NEW p, Moves(a, p),
           UNCHANGED <<file, chats, listeners, lock, replay, reader>>,
           pc[a] \notin Waits, pc[a] # "replay", p # "replay",
           entry' = entry \/ (entry' = 0 /\ \A c \in Conns : pc[c] \notin Waits),
           open' \in [Conns -> BOOLEAN], \A x \in Conns : open'[x] => open[x],
           a = "sweep" /\ p \in {"mark", "join"} /\ chats[target'["sweep"]].status # "stopped"
               => chats[target'["sweep"]].listeners = {}
    PROVE  /\ Awaited' /\ Logged' /\ Subscribed' /\ Deserted'
           /\ pc' \in [Actors -> Places] /\ pc'[a] = p /\ \A b \in Actors \ {a} : pc'[b] = pc[b]
<1>1. pc' \in [Actors -> Places] /\ pc'[a] = p /\ \A b \in Actors \ {a} : pc'[b] = pc[b]
    BY DEF Inv, Types, Moves
<1>2. Conns \subseteq Actors /\ "sweep" \in Actors BY DEF Actors
<1>3. Awaited'
  <2> SUFFICES ASSUME NEW k \in DOMAIN chats, NEW c \in Waiters(chats[k]) \cup chats[k].acks
               PROVE  pc'[c] \in Waits /\ entry' = k
      BY DEF Inv, Awaited, Waiters
  <2>1. chats[k] \in ChatRec BY DEF Inv, Types
  <2>2. c \in Conns BY <2>1 DEF ChatRec, Waiters
  <2>3. pc[c] \in Waits /\ entry = k BY DEF Inv, Awaited
  <2> QED BY <1>1, <1>2, <2>2, <2>3
<1>4. Logged' BY DEF Inv, Logged, Up
<1>5. Subscribed'
  <2>1. \A c \in Conns : pc'[c] = "replay" => pc[c] = "replay" /\ target'[c] = target[c]
      BY <1>1, <1>2 DEF Moves
  <2>2. NoGap' /\ Mine' = Mine BY DEF Inv, Subscribed, NoGap, Mine
  <2>3. \A k, e : ComingNew(k, e)' <=> ComingNew(k, e) BY DEF ComingNew
  <2>4. ASSUME NEW c \in Conns, pc'[c] = "replay"
        PROVE  /\ lock' = target'[c]
               /\ listeners' # << >> /\ listeners'[Mine'].conn = c
               /\ \A k \in DOMAIN chats' : Mine' \notin chats'[k].listeners \cup chats'[k].telling
               /\ \A i \in DOMAIN replay'[c] : replay'[c][i] = listeners'[Mine'].next + i - 1
               /\ \A e \in listeners'[Mine'].next + Len(replay'[c]) .. chats'[target'[c]].seq :
                     ComingNew(target[c], e)'
    <3>1. pc[c] = "replay" /\ target'[c] = target[c] BY <2>1, <2>4
    <3>2. \A e \in listeners[Mine].next + Len(replay[c]) .. chats[target[c]].seq : ComingNew(target[c], e)
        BY <3>1 DEF Inv, Subscribed
    <3>3. \A e \in listeners'[Mine'].next + Len(replay'[c]) .. chats'[target'[c]].seq : ComingNew(target[c], e)'
        BY <2>2, <3>1, <3>2 DEF ComingNew
    <3> QED BY <2>2, <3>1, <3>3 DEF Inv, Subscribed
  <2> QED BY <2>2, <2>4 DEF Inv, Subscribed
<1>6. Deserted'
  <2>1. \A c \in Conns : reader[c] \in {"closing", "ended"} => ~open'[c] BY DEF Inv, Deserted
  <2>2. Putting("sweep")' /\ chats[target'["sweep"]].status # "stopped" => chats[target'["sweep"]].listeners = {}
    <3>1. CASE a = "sweep" BY <1>1, <3>1 DEF Putting
    <3>2. CASE a # "sweep" BY <1>1, <1>2, <3>2 DEF Putting, Moves, Inv, Deserted
    <3> QED BY <3>1, <3>2
  <2>3. entry' # 0 => entry' = entry OBVIOUS
  <2> QED BY <2>1, <2>2, <2>3 DEF Inv, Deserted
<1> QED BY <1>1, <1>3, <1>4, <1>5, <1>6

\* What a connection at pc[c] knows of the map: the clauses of Owned for c.
Knows(c) ==
    /\ pc[c] \in {"configured", "launched", "attach", "replay", "drop"} => entry = target[c]
    /\ pc[c] \in {"asked", "configured", "launched", "attach", "replay", "drop"} => entry # 0
    /\ pc[c] = "probe" => entry = 0
    /\ pc[c] \in {"idle", "wait", "op", "asked", "configured"} => then[c] = "reply"
    /\ pc[c] \in {"launched", "attach", "replay"} => then[c] \in {"reply", "drop"}
    /\ Putting(c) => then[c] \in {"reply", "probe"}

\* A move that puts no chat down leaves the map with who it was.
LEMMA MoveOwned ==
    ASSUME Inv, NEW a \in Actors, NEW p, Moves(a, p), UNCHANGED entry,
           DOMAIN chats' = DOMAIN chats,
           \A j \in DOMAIN chats : chats'[j].stopping = chats[j].stopping /\ chats'[j].ended = chats[j].ended,
           ~Putting(a), p \notin {"mark", "join"},
           a \in Conns => Knows(a)', a \notin Conns => then'[a] = then[a]
    PROVE  Owned'
<1>1. pc'[a] = p /\ \A b \in Actors \ {a} : pc'[b] = pc[b] BY DEF Inv, Types, Moves
<1>2. \A b \in Actors : /\ Putting(b)' <=> Putting(b)
                        /\ Putting(b)' => pc'[b] = pc[b] /\ target'[b] = target[b]
    BY <1>1 DEF Putting, Moves
<1>3. \A k \in DOMAIN chats' : Up(k)' => k = entry' \/ \E b \in Actors : Putting(b)' /\ target'[b] = k
    BY <1>2 DEF Inv, Owned, Up
<1>4. \A b \in Actors : Putting(b)' => entry' = 0 /\ target'[b] \in DOMAIN chats' BY <1>2 DEF Inv, Owned
<1>5. \A b, c \in Actors : Putting(b)' /\ Putting(c)' => b = c BY <1>2 DEF Inv, Owned
<1>6. \A b \in Actors : pc'[b] = "mark" => ~chats'[target'[b]].stopping
  <2> SUFFICES ASSUME NEW b \in Actors, pc'[b] = "mark" PROVE ~chats'[target'[b]].stopping OBVIOUS
  <2>1. Putting(b)' /\ pc[b] = "mark" /\ target'[b] = target[b] BY <1>2 DEF Putting
  <2>2. target[b] \in DOMAIN chats /\ ~chats[target[b]].stopping BY <2>1 DEF Inv, Owned, Putting
  <2> QED BY <2>1, <2>2
<1>7. entry' # 0 => ~chats'[entry'].stopping
  <2>1. entry # 0 => entry \in DOMAIN chats BY DEF Inv, Types
  <2> QED BY <2>1 DEF Inv, Owned
<1>8. \A c \in Conns : Knows(c)'
  <2> SUFFICES ASSUME NEW c \in Conns, c # a PROVE Knows(c)' OBVIOUS
  <2>1. c \in Actors /\ pc'[c] = pc[c] /\ target'[c] = target[c] /\ then'[c] = then[c] BY <1>1 DEF Moves, Actors
  <2>2. Knows(c) BY DEF Inv, Owned, Knows
  <2> QED BY <2>1, <2>2 DEF Knows, Putting
<1>9. then'["sweep"] = "reply" /\ then'["main"] = "reply"
  <2>1. {"sweep", "main"} \subseteq Actors \ Conns BY ConstantsAssumption DEF Actors
  <2> QED BY <2>1 DEF Moves, Inv, Owned
<1> QED BY <1>3, <1>4, <1>5, <1>6, <1>7, <1>8, <1>9 DEF Owned, Knows

\* with_lifecycle begins: a gate is cloned, or locked.
LEMMA GateInv ==
    ASSUME Inv, NEW a \in Actors, (a \in Conns /\ Begin(a)) \/ (a = "sweep" /\ SweepLook) \/ LockGate(a)
    PROVE  Inv'
<1>0. Conns \subseteq Actors /\ {"sweep", "main"} \subseteq Actors \ Conns BY ConstantsAssumption DEF Actors
<1>1. pc \in [Actors -> Places] /\ then \in [Actors -> {"reply", "drop", "probe"}] /\ target \in [Actors -> Nat]
      /\ open \in [Conns -> BOOLEAN]
    BY DEF Inv, Types
<1>2. CASE (a \in Conns /\ Begin(a)) \/ (a = "sweep" /\ SweepLook)
  <2>1. /\ pc[a] = "idle" /\ CloneGate(a) /\ Goto(a, "wait") /\ a # "main"
        /\ UNCHANGED <<file, listeners, lock, wireVars, readVars, mainVars, chats, entry, holder, then, target, replay>>
        /\ a \in Conns => lane[a] # << >>
      BY <1>0, <1>2 DEF Begin, SweepLook, taskRest
  <2>2. UNCHANGED <<open, reader, lane, plan, accepting, stopping>> BY <2>1 DEF wireVars, readVars, mainVars
  <2>3. Moves(a, "wait") BY <2>1 DEF Moves, Goto, Places
  <2>4. /\ Awaited' /\ Logged' /\ Subscribed' /\ Deserted'
        /\ pc' \in [Actors -> Places] /\ pc'[a] = "wait" /\ \A b \in Actors \ {a} : pc'[b] = pc[b]
      BY <1>1, <2>1, <2>2, <2>3, MoveParts DEF Waits
  <2>5. Gated' /\ gate' \in GateIds /\ want' \in [Actors -> GateIds \cup {0}] BY <2>1, CloneGated
  <2>6. a \in Conns => Knows(a)' BY <2>1, <2>4 DEF Knows, Putting, Inv, Owned
  <2>7. Owned' BY <2>1, <2>3, <2>6, MoveOwned DEF Putting
  <2>8. Closing' BY <1>0, <2>1, <2>2, <2>4 DEF Inv, Closing
  <2>9. Types' BY <2>1, <2>2, <2>4, <2>5 DEF Inv, Types
  <2> QED BY <2>4, <2>5, <2>7, <2>8, <2>9 DEF Inv
<1>3. CASE LockGate(a)
  <2>1. /\ pc[a] = "wait" /\ holder[want[a]] = "none" /\ Goto(a, "op")
        /\ holder' = [holder EXCEPT ![want[a]] = a]
        /\ UNCHANGED <<file, chats, listeners, entry, lock, gate, want, open, reader, plan, lane, accepting, stopping,
                       then, target, replay>>
      BY <1>3 DEF LockGate, chatVars, wireVars, readVars, mainVars
  <2>2. a # "main" BY <2>1 DEF Inv, Closing
  <2>3. Moves(a, "op") BY <2>1 DEF Moves, Goto, Places
  <2>4. /\ Awaited' /\ Logged' /\ Subscribed' /\ Deserted'
        /\ pc' \in [Actors -> Places] /\ pc'[a] = "op" /\ \A b \in Actors \ {a} : pc'[b] = pc[b]
      BY <1>1, <2>1, <2>3, MoveParts DEF Waits
  <2>5. a \in Conns => Knows(a)' BY <2>1, <2>4 DEF Knows, Putting, Inv, Owned
  <2>6. Owned' BY <2>1, <2>3, <2>5, MoveOwned DEF Putting
  <2>7. Closing' BY <1>0, <2>1, <2>2, <2>4 DEF Inv, Closing
  <2>8. want[a] # 0 /\ want[a] = gate /\ gate \in GateIds
      BY <2>1, <2>2 DEF Inv, Gated, Types
  <2>9. holder' \in [GateIds -> Actors \cup {"none"}] /\ holder'[gate] = a BY <2>1, <2>8 DEF Inv, Types
  <2>10. Gated'
    <3>1. \A b \in Actors : ~Inside(b) BY <2>1, <2>8, <1>0, ConstantsAssumption DEF Inv, Gated, Actors
    <3>2. \A b \in Actors : Inside(b)' => holder'[gate'] = b BY <2>1, <2>4, <2>9, <3>1 DEF Inside
    <3> QED BY <2>1, <2>2, <2>4, <2>8, <3>2 DEF Inv, Gated
  <2>11. Types' BY <2>1, <2>4, <2>9 DEF Inv, Types
  <2> QED BY <2>4, <2>6, <2>7, <2>10, <2>11 DEF Inv
<1> QED BY <1>2, <1>3

\* A step of who has the gate that finds nothing to do, or goes on to the next:
\* no session, a cold open, a client that has left, a refused attach, and a
\* sweep whose second look finds the chat in use.
LEMMA WorkInv ==
    ASSUME Inv, NEW a \in Actors,
           \/ a \in Conns /\ (Missing(a) \/ OpenCold(a) \/ ProbedLate(a) \/ AttachRefused(a))
           \/ a = "sweep" /\ SweepPick /\ ~(entry # 0 /\ Eligible(entry))
    PROVE  Inv'
<1>0. Conns \subseteq Actors /\ {"sweep", "main"} \subseteq Actors \ Conns BY ConstantsAssumption DEF Actors
<1>1. pc \in [Actors -> Places] /\ then \in [Actors -> {"reply", "drop", "probe"}] /\ open \in [Conns -> BOOLEAN]
    BY DEF Inv, Types
<1>2. UNCHANGED <<file, chats, listeners, entry, lock, gate, want, holder, open, reader, plan, lane,
                  accepting, stopping, then, target, replay>>
    BY DEF Missing, OpenCold, ProbedLate, AttachRefused, SweepPick, taskRest, attachRest, chatVars, gateVars,
           wireVars, readVars, mainVars
<1>3. /\ pc[a] \in {"op", "probe", "attach"} /\ a # "main"
      /\ \E p \in {"reply", "probe", "drop"} :
            /\ pc' = [pc EXCEPT ![a] = p]
            /\ p = "probe" => entry = 0 /\ a \in Conns
            /\ p = "drop" => pc[a] = "attach" /\ a \in Conns
  <2>1. CASE a \in Conns /\ (Missing(a) \/ ProbedLate(a)) BY <1>0, <2>1 DEF Missing, ProbedLate, Goto
  <2>2. CASE a \in Conns /\ OpenCold(a) BY <1>0, <2>2 DEF OpenCold, Goto
  <2>3. CASE a \in Conns /\ AttachRefused(a)
    <3>1. pc[a] = "attach" /\ pc' = [pc EXCEPT ![a] = then[a]] BY <2>3 DEF AttachRefused, Goto
    <3>2. then[a] \in {"reply", "drop"} BY <2>3, <3>1 DEF Inv, Owned
    <3> QED BY <1>0, <2>3, <3>1, <3>2
  <2>4. CASE a = "sweep" /\ SweepPick /\ ~(entry # 0 /\ Eligible(entry))
      BY <1>0, <2>4 DEF SweepPick, Goto
  <2> QED BY <2>1, <2>2, <2>3, <2>4
<1>4. PICK p \in {"reply", "probe", "drop"} :
            /\ pc' = [pc EXCEPT ![a] = p]
            /\ p = "probe" => entry = 0 /\ a \in Conns
            /\ p = "drop" => pc[a] = "attach" /\ a \in Conns
    BY <1>3
<1>5. Moves(a, p) BY <1>2, <1>4 DEF Moves, Places
<1>6. /\ Awaited' /\ Logged' /\ Subscribed' /\ Deserted'
      /\ pc' \in [Actors -> Places] /\ pc'[a] = p /\ \A b \in Actors \ {a} : pc'[b] = pc[b]
    BY <1>1, <1>2, <1>3, <1>5, MoveParts DEF Waits
<1>7. a \in Conns => Knows(a)' BY <1>2, <1>3, <1>4, <1>6 DEF Knows, Putting, Inv, Owned
<1>8. Owned' BY <1>2, <1>3, <1>4, <1>5, <1>7, MoveOwned DEF Putting
<1>9. Closing' BY <1>0, <1>2, <1>3, <1>4, <1>6 DEF Inv, Closing
<1>10. Gated' BY <1>2, <1>3, <1>6, InsideGated DEF gateVars
<1>11. Types' BY <1>2, <1>6 DEF Inv, Types
<1> QED BY <1>6, <1>8, <1>9, <1>10, <1>11 DEF Inv

\* A task is answered, a sweep is done: the gate goes back.
LEMMA ReplyInv ==
    ASSUME Inv, NEW a \in Actors, (a \in Conns /\ Reply(a)) \/ (a = "sweep" /\ SweepDone)
    PROVE  Inv'
<1>0. Conns \subseteq Actors /\ {"sweep", "main"} \subseteq Actors \ Conns BY ConstantsAssumption DEF Actors
<1>1. /\ pc \in [Actors -> Places] /\ then \in [Actors -> {"reply", "drop", "probe"}] /\ open \in [Conns -> BOOLEAN]
      /\ target \in [Actors -> Nat] /\ lane \in [Conns -> Seq(AllOps)]
    BY DEF Inv, Types
<1>2. /\ pc[a] = "reply" /\ Release(a) /\ Goto(a, "idle") /\ a # "main"
      /\ target' = [target EXCEPT ![a] = 0]
      /\ UNCHANGED <<file, chats, listeners, entry, lock, reader, plan, accepting, stopping, replay>>
    BY <1>0 DEF Reply, SweepDone, taskRest, chatVars, wireVars, readVars, mainVars
<1>3. /\ then' \in [Actors -> {"reply", "drop", "probe"}] /\ then'[a] = "reply"
      /\ \A b \in Actors \ {a} : then'[b] = then[b]
  <2>1. CASE a \in Conns /\ Reply(a) BY <1>1, <2>1 DEF Reply
  <2>2. CASE a = "sweep" /\ SweepDone BY <1>1, <2>2 DEF SweepDone, Inv, Owned
  <2> QED BY <2>1, <2>2
<1>4. /\ lane' \in [Conns -> Seq(AllOps)]
      /\ \A c \in Conns : c # a => lane'[c] = lane[c]
  <2>1. CASE a \in Conns /\ Reply(a)
    <3>1. lane' = [lane EXCEPT ![a] = Tail(lane[a])] BY <2>1 DEF Reply
    <3>2. lane[a] \in Seq(AllOps) /\ lane[a] # << >> BY <1>1, <1>2, <2>1 DEF Inv, Closing
    <3>3. Tail(lane[a]) \in Seq(AllOps) BY <3>2
    <3> QED BY <1>1, <3>1, <3>3
  <2>2. CASE a = "sweep" /\ SweepDone BY <1>1, <2>2 DEF SweepDone, taskRest, readVars
  <2> QED BY <2>1, <2>2
<1>5. open' \in [Conns -> BOOLEAN] /\ \A x \in Conns : open'[x] => open[x]
  <2>1. CASE a \in Conns /\ Reply(a) BY <1>1, <2>1 DEF Reply, Write, Close
  <2>2. CASE a = "sweep" /\ SweepDone BY <1>1, <2>2 DEF SweepDone, taskRest, wireVars
  <2> QED BY <2>1, <2>2
<1>6. Moves(a, "idle") /\ target' \in [Actors -> Nat] BY <1>1, <1>2, <1>3 DEF Moves, Goto, Places
<1>7. /\ Awaited' /\ Logged' /\ Subscribed' /\ Deserted'
      /\ pc' \in [Actors -> Places] /\ pc'[a] = "idle" /\ \A b \in Actors \ {a} : pc'[b] = pc[b]
    BY <1>2, <1>5, <1>6, MoveParts DEF Waits
<1>8. a \in Conns => Knows(a)' BY <1>3, <1>7 DEF Knows, Putting
<1>9. a \notin Conns => then'[a] = then[a] BY <1>0, <1>3 DEF Inv, Owned, Actors
<1>10. Owned' BY <1>2, <1>6, <1>8, <1>9, MoveOwned DEF Putting
<1>11. /\ Gated' /\ gate' \in GateIds \cup {0} /\ want' \in [Actors -> GateIds \cup {0}]
       /\ holder' \in [GateIds -> Actors \cup {"none"}]
    BY <1>2, ReleaseGated
<1>12. Closing'
  <2>1. a \in Conns => ~stopping BY <1>2 DEF Inv, Closing
  <2>2. a \notin Conns => \A c \in Conns : lane'[c] = lane[c] BY <1>4
  <2>3. \A c \in Conns : pc'[c] # "idle" => lane'[c] # << >> BY <1>0, <1>4, <1>7 DEF Inv, Closing
  <2> QED BY <1>0, <1>2, <1>7, <2>1, <2>2, <2>3 DEF Inv, Closing
<1>13. Types' BY <1>2, <1>3, <1>4, <1>5, <1>6, <1>7, <1>11 DEF Inv, Types
<1> QED BY <1>7, <1>10, <1>11, <1>12, <1>13 DEF Inv

\* The chat is taken out of the map by who has the gate, or by main when no
\* request can begin any more.
LEMMA TakeOutInv ==
    ASSUME Inv, NEW a \in Actors, NEW place \in {"reply", "probe"}, entry # 0, TakeOut(a, entry, place),
           UNCHANGED <<file, chats, listeners, lock, gateVars, open, reader, plan, lane, accepting, stopping, replay>>,
           \/ a # "main" /\ pc[a] \in {"op", "drop"}
           \/ a = "main" /\ pc[a] = "idle" /\ stopping,
           a \notin Conns => place = "reply",
           a = "sweep" => Eligible(entry)
    PROVE  Inv'
<1>0. Conns \subseteq Actors /\ {"sweep", "main"} \subseteq Actors \ Conns BY ConstantsAssumption DEF Actors
<1>1. /\ pc \in [Actors -> Places] /\ then \in [Actors -> {"reply", "drop", "probe"}] /\ open \in [Conns -> BOOLEAN]
      /\ target \in [Actors -> Nat] /\ entry \in DOMAIN chats /\ entry \in Nat
    BY DEF Inv, Types
<1>2. /\ entry' = 0 /\ target' = [target EXCEPT ![a] = entry] /\ then' = [then EXCEPT ![a] = place]
      /\ pc' = [pc EXCEPT ![a] = "mark"]
    BY DEF TakeOut, Goto
<1>3. Moves(a, "mark") /\ target' \in [Actors -> Nat] /\ then' \in [Actors -> {"reply", "drop", "probe"}]
    BY <1>1, <1>2 DEF Moves, Places
<1>4. \A c \in Conns : c # a => pc[c] \in {"idle", "wait", "reply"}
  <2>1. CASE a # "main" BY <1>0, <2>1, Exclusive
  <2>2. CASE a = "main" BY <2>2 DEF Inv, Closing
  <2> QED BY <2>1, <2>2
<1>5. pc[a] \notin Waits \cup {"replay"} /\ \A c \in Conns : pc[c] \notin Waits BY <1>4 DEF Waits
<1>6. a = "sweep" /\ chats[target'["sweep"]].status # "stopped" => chats[target'["sweep"]].listeners = {}
    BY <1>0, <1>1, <1>2 DEF Eligible, Cold, Inv, Deserted
<1>7. /\ Awaited' /\ Logged' /\ Subscribed' /\ Deserted'
      /\ pc' \in [Actors -> Places] /\ pc'[a] = "mark" /\ \A b \in Actors \ {a} : pc'[b] = pc[b]
    BY <1>1, <1>2, <1>3, <1>5, <1>6, MoveParts
<1>8. \A b \in Actors : ~Putting(b) BY DEF Inv, Owned
<1>9. Owned'
  <2>1. \A b \in Actors : Putting(b)' <=> b = a BY <1>7, <1>8 DEF Putting
  <2>2. target'[a] = entry /\ Putting(a)' BY <1>1, <1>2, <2>1
  <2>3. \A k \in DOMAIN chats' : Up(k)' => \E b \in Actors : Putting(b)' /\ target'[b] = k
    <3> SUFFICES ASSUME NEW k \in DOMAIN chats, Up(k) PROVE k = entry BY <2>2 DEF Up
    <3> QED BY <1>8 DEF Inv, Owned
  <2>4. \A c \in Conns : Knows(c)'
    <3> SUFFICES ASSUME NEW c \in Conns PROVE Knows(c)' OBVIOUS
    <3>1. CASE c = a BY <1>1, <1>2, <1>7, <3>1 DEF Knows, Putting
    <3>2. CASE c # a
      <4>1. pc'[c] = pc[c] /\ then'[c] = then[c] BY <1>0, <1>2, <1>7, <3>2
      <4> QED BY <1>4, <3>2, <4>1 DEF Knows, Putting, Inv, Owned
    <3> QED BY <3>1, <3>2
  <2>5. then'["sweep"] = "reply" /\ then'["main"] = "reply" BY <1>0, <1>1, <1>2 DEF Inv, Owned
  <2>6. \A b \in Actors : pc'[b] = "mark" => ~chats'[target'[b]].stopping
    <3>1. \A b \in Actors : pc'[b] = "mark" => b = a BY <2>1 DEF Putting
    <3> QED BY <2>2, <3>1 DEF Inv, Owned
  <2> QED BY <1>1, <1>2, <2>1, <2>2, <2>3, <2>4, <2>5, <2>6 DEF Owned, Knows
<1>10. Closing' BY <1>0, <1>2, <1>7 DEF Inv, Closing
<1>11. Gated' BY <1>7, InsideGated
<1>12. Types' BY <1>1, <1>2, <1>3, <1>7 DEF Inv, Types, gateVars
<1> QED BY <1>7, <1>9, <1>10, <1>11, <1>12 DEF Inv

\* stop, an open that finds a chat that is over, an open that failed, the sweep
\* and the end of the daemon: all who take a chat out of the map.
LEMMA TakersInv ==
    ASSUME Inv, NEW a \in Actors,
           \/ a \in Conns /\ (Stop(a) \/ OpenStale(a) \/ Drop(a))
           \/ a = "sweep" /\ SweepPick /\ entry # 0 /\ Eligible(entry)
           \/ a = "main" /\ ShutdownAll /\ entry # 0
    PROVE  Inv'
<1>0. Conns \subseteq Actors /\ {"sweep", "main"} \subseteq Actors \ Conns BY ConstantsAssumption DEF Actors
<1> DEFINE Rest == UNCHANGED <<file, chats, listeners, lock, gateVars, open, reader, plan, lane, accepting,
                               stopping, replay>>
<1>1. CASE a \in Conns /\ Stop(a)
  <2>1. entry # 0 /\ TakeOut(a, entry, "reply") /\ pc[a] = "op" /\ Rest
      BY <1>1 DEF Stop, taskRest, wireVars, readVars, mainVars
  <2> QED BY <1>0, <1>1, <2>1, TakeOutInv
<1>2. CASE a \in Conns /\ OpenStale(a)
  <2>1. entry # 0 /\ TakeOut(a, entry, "probe") /\ pc[a] = "op" /\ Rest
      BY <1>2 DEF OpenStale, taskRest, wireVars, readVars, mainVars
  <2> QED BY <1>0, <1>2, <2>1, TakeOutInv
<1>3. CASE a \in Conns /\ Drop(a)
  <2>1. pc[a] = "drop" /\ TakeOut(a, target[a], "reply") /\ Rest
      BY <1>3 DEF Drop, taskRest, wireVars, readVars, mainVars
  <2>2. entry # 0 /\ target[a] = entry BY <1>3, <2>1 DEF Inv, Owned
  <2> QED BY <1>0, <1>3, <2>1, <2>2, TakeOutInv
<1>4. CASE a = "sweep" /\ SweepPick /\ entry # 0 /\ Eligible(entry)
  <2>1. TakeOut(a, entry, "reply") /\ pc[a] = "op" /\ Rest
      BY <1>4 DEF SweepPick, taskRest, wireVars, readVars, mainVars
  <2> QED BY <1>0, <1>4, <2>1, TakeOutInv
<1>5. CASE a = "main" /\ ShutdownAll /\ entry # 0
  <2>1. TakeOut(a, entry, "reply") /\ pc[a] = "idle" /\ stopping /\ Rest
      BY <1>5 DEF ShutdownAll, mainRest, chatVars, wireVars, readVars, mainVars
  <2> QED BY <1>0, <1>5, <2>1, TakeOutInv
<1> QED BY <1>1, <1>2, <1>3, <1>4, <1>5

\* The daemon ends and there is nothing to put down.
LEMMA ShutdownNothing ==
    ASSUME Inv, ShutdownAll, entry = 0
    PROVE  Inv'
<1>0. Conns \subseteq Actors /\ {"sweep", "main"} \subseteq Actors \ Conns BY ConstantsAssumption DEF Actors
<1>1. /\ pc["main"] = "idle" /\ stopping /\ pc' = [pc EXCEPT !["main"] = "reply"]
      /\ UNCHANGED <<file, chats, listeners, lock, gateVars, open, reader, plan, lane, accepting, stopping,
                     entry, then, target, replay>>
    BY DEF ShutdownAll, Goto, mainRest, chatVars, wireVars, readVars, mainVars
<1>2. Moves("main", "reply") /\ open \in [Conns -> BOOLEAN] BY <1>1 DEF Moves, Places, Inv, Types
<1>3. /\ Awaited' /\ Logged' /\ Subscribed' /\ Deserted'
      /\ pc' \in [Actors -> Places] /\ pc'["main"] = "reply" /\ \A b \in Actors \ {"main"} : pc'[b] = pc[b]
    BY <1>0, <1>1, <1>2, MoveParts DEF Waits
<1>4. Owned' BY <1>0, <1>1, <1>2, MoveOwned DEF Putting
<1>5. Closing' BY <1>0, <1>1, <1>3 DEF Inv, Closing
<1>6. Gated' BY <1>0, <1>1, <1>3, InsideGated
<1>7. Types' BY <1>1, <1>3 DEF Inv, Types, gateVars
<1> QED BY <1>3, <1>4, <1>5, <1>6, <1>7 DEF Inv

-----------------------------------------------------------------------------
(* Wakes: a chat gets something to do. *)

\* A chat d is like chat k but for its inbox, and it is busy or not.
Like(d, k) ==
    /\ (d.status = "stopped") = (chats[k].status = "stopped")
    /\ d.ended = chats[k].ended /\ d.todo = chats[k].todo /\ d.telling = chats[k].telling
    /\ d.acks = chats[k].acks /\ d.seq = chats[k].seq /\ d.owns = chats[k].owns
    /\ d.listeners = chats[k].listeners /\ d.alone = chats[k].alone

\* Nothing is logged, published or listened to by that.
LEMMA LikeParts ==
    ASSUME Inv, NEW a \in Actors, NEW p, Moves(a, p), NEW k \in DOMAIN chats, NEW d \in ChatRec,
           chats' = [chats EXCEPT ![k] = d], Like(d, k),
           UNCHANGED <<file, listeners, entry, lock, replay, reader, open>>,
           pc[a] # "replay", p # "replay",
           a \notin Conns => Putting(a) /\ target'[a] = target[a]
    PROVE  /\ Logged' /\ Subscribed' /\ Deserted'
           /\ chats' \in Seq(ChatRec) /\ Len(chats') = Len(chats) /\ DOMAIN chats' = DOMAIN chats
           /\ chats'[k] = d /\ \A j \in DOMAIN chats : j # k => chats'[j] = chats[j]
           /\ pc' \in [Actors -> Places] /\ pc'[a] = p /\ \A b \in Actors \ {a} : pc'[b] = pc[b]
<1>1. pc' \in [Actors -> Places] /\ pc'[a] = p /\ \A b \in Actors \ {a} : pc'[b] = pc[b]
    BY DEF Inv, Types, Moves
<1>2. Conns \subseteq Actors /\ "sweep" \in Actors \ Conns BY ConstantsAssumption DEF Actors
<1>3. /\ chats' \in Seq(ChatRec) /\ Len(chats') = Len(chats) /\ DOMAIN chats' = DOMAIN chats
      /\ chats'[k] = d /\ \A j \in DOMAIN chats : j # k => chats'[j] = chats[j]
  <2>1. chats \in Seq(ChatRec) BY DEF Inv, Types
  <2> QED BY <2>1, OneChanges
<1>4. \A j \in DOMAIN chats :
          /\ (chats'[j].status = "stopped") = (chats[j].status = "stopped")
          /\ chats'[j].ended = chats[j].ended /\ chats'[j].todo = chats[j].todo
          /\ chats'[j].telling = chats[j].telling /\ chats'[j].seq = chats[j].seq
          /\ chats'[j].owns = chats[j].owns
          /\ chats'[j].listeners = chats[j].listeners /\ chats'[j].alone = chats[j].alone
    BY <1>3 DEF Like
<1>5. Logged' BY <1>3, <1>4 DEF Inv, Logged, Up
<1>6. Subscribed'
  <2>1. \A c \in Conns : pc'[c] = "replay" => pc[c] = "replay" /\ target'[c] = target[c]
      BY <1>1, <1>2 DEF Moves
  <2>2. Mine' = Mine BY DEF Mine
  <2>3. NoGap' BY <1>3, <1>4 DEF Inv, Subscribed, NoGap
  <2>4. ASSUME NEW c \in Conns, pc'[c] = "replay"
        PROVE  /\ lock' = target'[c]
               /\ listeners' # << >> /\ listeners'[Mine'].conn = c
               /\ \A j \in DOMAIN chats' : Mine' \notin chats'[j].listeners \cup chats'[j].telling
               /\ \A i \in DOMAIN replay'[c] : replay'[c][i] = listeners'[Mine'].next + i - 1
               /\ \A e \in listeners'[Mine'].next + Len(replay'[c]) .. chats'[target'[c]].seq :
                     ComingNew(target[c], e)'
    <3>1. pc[c] = "replay" /\ target'[c] = target[c] BY <2>1, <2>4
    <3>2. \A e \in listeners[Mine].next + Len(replay[c]) .. chats[target[c]].seq : ComingNew(target[c], e)
        BY <3>1 DEF Inv, Subscribed
    <3>3. target[c] \in DOMAIN chats
      <4>1. entry = target[c] /\ entry # 0 BY <3>1 DEF Inv, Owned
      <4> QED BY <4>1 DEF Inv, Types
    <3>4. \A e \in listeners'[Mine'].next + Len(replay'[c]) .. chats'[target'[c]].seq : ComingNew(target[c], e)'
        BY <1>4, <2>2, <3>1, <3>2, <3>3 DEF ComingNew
    <3> QED BY <1>3, <1>4, <2>2, <3>1, <3>4 DEF Inv, Subscribed
  <2> QED BY <1>3, <1>4, <2>3, <2>4 DEF Inv, Subscribed
<1>7. Deserted'
  <2>1. entry # 0 => entry \in DOMAIN chats BY DEF Inv, Types
  <2>2. Putting("sweep")' => Putting("sweep") /\ target'["sweep"] = target["sweep"]
      BY <1>1, <1>2 DEF Putting, Moves
  <2>3. Putting("sweep") => target["sweep"] \in DOMAIN chats BY <1>2 DEF Inv, Owned
  <2> QED BY <1>3, <1>4, <2>1, <2>2, <2>3 DEF Inv, Deserted
<1> QED BY <1>1, <1>3, <1>5, <1>6, <1>7

Wakes == [op : {"settings", "launch", "configure", "send", "stop"}, conn : Conns \cup {"none"}]

\* A wake at the end of the inbox of chat k: a request of c, which waits for
\* nothing else, or the word to stop, for which nobody waits.
LEMMA PostAwaited ==
    ASSUME Inv, NEW a \in Actors, NEW p, NEW k \in DOMAIN chats, NEW d \in ChatRec,
           DOMAIN chats' = DOMAIN chats, chats'[k] = d, \A j \in DOMAIN chats : j # k => chats'[j] = chats[j],
           NEW w \in Wakes,
           d.acks = chats[k].acks,
           d.inbox = IF chats[k].ended THEN chats[k].inbox ELSE Append(chats[k].inbox, w),
           UNCHANGED entry, pc[a] \notin Waits, pc'[a] = p, \A b \in Actors \ {a} : pc'[b] = pc[b],
           \/ w.op = "stop" /\ w.conn = "none"
           \/ /\ w.op # "stop" /\ w.conn = a /\ a \in Conns /\ entry = k
              /\ ~chats[k].ended => p \in Waits
    PROVE  Awaited'
<1> DEFINE ib == chats[k].inbox
           W == Wakes
<1>0. Conns \subseteq Actors /\ "none" \notin Conns BY ConstantsAssumption DEF Actors
<1>1. ib \in Seq(W) /\ chats[k].acks \subseteq Conns
  <2>1. chats[k] \in ChatRec BY DEF Inv, Types
  <2> QED BY <2>1 DEF ChatRec, Wakes
<1>2. \A j \in DOMAIN chats : /\ \A c \in Waiters(chats[j]) \cup chats[j].acks : c \in Actors \ {a} /\ pc[c] \in Waits /\ entry = j
                              /\ Waiters(chats[j]) \cap chats[j].acks = {}
                              /\ Queued(chats[j].inbox)
  <2> SUFFICES ASSUME NEW j \in DOMAIN chats
               PROVE /\ \A c \in Waiters(chats[j]) \cup chats[j].acks : c \in Actors \ {a} /\ pc[c] \in Waits /\ entry = j
                     /\ Waiters(chats[j]) \cap chats[j].acks = {}
                     /\ Queued(chats[j].inbox)
      OBVIOUS
  <2>1. chats[j] \in ChatRec BY DEF Inv, Types
  <2>2. Waiters(chats[j]) \cup chats[j].acks \subseteq Actors BY <1>0, <2>1 DEF ChatRec, Waiters
  <2> QED BY <2>2 DEF Inv, Awaited, Queued
<1> SUFFICES ASSUME NEW j \in DOMAIN chats
             PROVE  /\ \A c \in Waiters(chats'[j]) \cup chats'[j].acks : pc'[c] \in Waits /\ entry = j
                    /\ Waiters(chats'[j]) \cap chats'[j].acks = {}
                    /\ Queued(chats'[j].inbox)
    BY DEF Awaited, Queued, Waiters
<1>3. CASE j # k BY <1>2, <1>3
<1>4. CASE j = k /\ chats[k].ended
  <2>1. Waiters(d) = Waiters(chats[k]) BY <1>4 DEF Waiters
  <2> QED BY <1>2, <1>4, <2>1
<1>5. CASE j = k /\ ~chats[k].ended
  <2> HIDE DEF W
  <2>0. w \in W BY DEF W
  <2>1. /\ Len(ib) \in Nat /\ DOMAIN ib = 1 .. Len(ib) /\ DOMAIN d.inbox = 1 .. Len(ib) + 1
        /\ d.inbox[Len(ib) + 1] = w /\ \A i \in 1 .. Len(ib) : d.inbox[i] = ib[i]
      BY <1>1, <1>5, <2>0
  <2>2. Waiters(d) \subseteq Waiters(chats[k]) \cup ({w.conn} \cap Conns)
    <3> SUFFICES ASSUME NEW i \in 1 .. Len(ib) + 1, d.inbox[i].conn \in Conns
                 PROVE  d.inbox[i].conn \in Waiters(chats[k]) \/ d.inbox[i].conn = w.conn
        BY <2>1 DEF Waiters
    <3>1. CASE i = Len(ib) + 1 BY <2>1, <3>1
    <3>2. CASE i # Len(ib) + 1
      <4>1. i \in DOMAIN ib /\ d.inbox[i] = ib[i] BY <2>1, <3>2
      <4> QED BY <4>1 DEF Waiters
    <3> QED BY <3>1, <3>2
  <2>3. \A c \in Waiters(d) \cup d.acks : pc'[c] \in Waits /\ entry = k BY <1>0, <1>2, <1>5, <2>2
  <2>4. Waiters(d) \cap d.acks = {} BY <1>0, <1>2, <1>5, <2>2
  <2>5. \A i \in DOMAIN ib : ib[i].conn = w.conn => ib[i].op = "stop"
    <3> SUFFICES ASSUME NEW i \in DOMAIN ib, ib[i].conn = w.conn, ib[i].op # "stop" PROVE FALSE OBVIOUS
    <3>1. ib[i].conn \in Conns BY <1>2 DEF Queued
    <3>2. ib[i].conn \in Waiters(chats[k]) BY <3>1 DEF Waiters
    <3> QED BY <1>0, <1>2, <3>1, <3>2
  <2>6. Queued(d.inbox)
    <3> SUFFICES ASSUME NEW i \in 1 .. Len(ib) + 1
                 PROVE  /\ d.inbox[i].op # "stop" => d.inbox[i].conn \in Conns
                        /\ \A h \in 1 .. Len(ib) + 1 :
                              i < h /\ d.inbox[i].conn = d.inbox[h].conn => d.inbox[i].op \in {"settings", "stop"}
        BY <2>1 DEF Queued
    <3>1. CASE i = Len(ib) + 1 BY <2>1, <3>1
    <3>2. CASE i # Len(ib) + 1
      <4>1. i \in DOMAIN ib /\ d.inbox[i] = ib[i] BY <2>1, <3>2
      <4>2. ib[i].op # "stop" => ib[i].conn \in Conns BY <1>2, <4>1 DEF Queued
      <4>3. ASSUME NEW h \in 1 .. Len(ib) + 1, i < h, ib[i].conn = d.inbox[h].conn
            PROVE  ib[i].op \in {"settings", "stop"}
        <5>1. CASE h = Len(ib) + 1 BY <2>1, <2>5, <4>1, <4>3, <5>1
        <5>2. CASE h # Len(ib) + 1
          <6>1. h \in DOMAIN ib /\ d.inbox[h] = ib[h] BY <2>1, <5>2
          <6> QED BY <1>2, <4>1, <4>3, <6>1 DEF Queued
        <5> QED BY <5>1, <5>2
      <4> QED BY <4>1, <4>2, <4>3
    <3> QED BY <3>1, <3>2
  <2> QED BY <1>5, <2>3, <2>4, <2>6
<1> QED BY <1>3, <1>4, <1>5

\* send, set and the settings of an open that finds the session up: a request
\* is posted to the chat in the map, and waits for it unless it has ended.
LEMMA PostInv ==
    ASSUME Inv, NEW c \in Conns, Send(c) \/ Set(c) \/ OpenWarm(c)
    PROVE  Inv'
<1>0. Conns \subseteq Actors /\ {"sweep", "main"} \subseteq Actors \ Conns BY ConstantsAssumption DEF Actors
<1>1. /\ pc \in [Actors -> Places] /\ then \in [Actors -> {"reply", "drop", "probe"}] /\ target \in [Actors -> Nat]
    BY DEF Inv, Types
<1>2. /\ pc[c] = "op" /\ entry # 0
      /\ UNCHANGED <<file, listeners, entry, lock, gate, want, holder, open, reader, plan, lane,
                     accepting, stopping, then, replay>>
    BY DEF Send, Set, OpenWarm, taskRest, gateVars, wireVars, readVars, mainVars
<1>3. entry \in DOMAIN chats /\ entry \in Nat /\ chats[entry] \in ChatRec
  <2>1. entry \in DOMAIN chats /\ entry \in Nat BY <1>2 DEF Inv, Types
  <2> QED BY <2>1 DEF Inv, Types
<1>4. target' \in [Actors -> Nat] /\ \A b \in Actors \ {c} : target'[b] = target[b]
  <2>1. CASE Send(c) \/ Set(c) BY <1>1, <2>1 DEF Send, Set
  <2>2. CASE OpenWarm(c) BY <1>1, <1>3, <2>2 DEF OpenWarm
  <2> QED BY <2>1, <2>2
<1>5. \E p \in {"reply", "asked", "configured"}, d \in ChatRec, o \in {"send", "configure"} :
        /\ pc' = [pc EXCEPT ![c] = p]
        /\ p = "configured" => target'[c] = entry
        /\ (p = "reply") = chats[entry].ended
        /\ chats' = [chats EXCEPT ![entry] = d]
        /\ Like(d, entry) /\ d.stopping = chats[entry].stopping
        /\ d.inbox = IF chats[entry].ended THEN chats[entry].inbox
                     ELSE Append(chats[entry].inbox, [op |-> o, conn |-> c])
  <2>1. CASE Send(c)
    <3> DEFINE w == [op |-> "send", conn |-> c]
               q == Posted(entry, w)
               st == IF q.status \in {"waiting", "busy"} THEN "busy" ELSE q.status
               d == [q EXCEPT !.status = st]
               p == IF chats[entry].ended THEN "reply" ELSE "asked"
    <3>1. /\ q \in ChatRec /\ q = [chats[entry] EXCEPT !.inbox = q.inbox]
          /\ q.inbox = IF chats[entry].ended THEN chats[entry].inbox ELSE Append(chats[entry].inbox, w)
        BY <1>3, PostedType
    <3>2. chats' = [chats EXCEPT ![entry] = d] /\ pc' = [pc EXCEPT ![c] = p] BY <2>1 DEF Send, Goto
    <3>3. p \in {"reply", "asked"} /\ (p = "reply") = chats[entry].ended BY <1>3 DEF ChatRec
    <3>4. q.status = chats[entry].status /\ st \in {"waiting", "busy", "stopped"}
          /\ (st = "stopped") = (chats[entry].status = "stopped")
      <4>1. q.status = chats[entry].status /\ chats[entry].status \in {"waiting", "busy", "stopped"}
        <5> HIDE DEF q
        <5> QED BY <1>3, <3>1 DEF ChatRec
      <4> HIDE DEF q
      <4> QED BY <4>1
    <3> HIDE DEF q, st, p
    <3>5. d \in ChatRec /\ Like(d, entry) /\ d.stopping = chats[entry].stopping /\ d.inbox = q.inbox
      <4>1. /\ q.ended = chats[entry].ended /\ q.todo = chats[entry].todo /\ q.telling = chats[entry].telling
            /\ q.acks = chats[entry].acks /\ q.seq = chats[entry].seq /\ q.owns = chats[entry].owns
            /\ q.listeners = chats[entry].listeners /\ q.alone = chats[entry].alone
            /\ q.stopping = chats[entry].stopping
          BY <1>3, <3>1 DEF ChatRec
      <4>2. /\ d \in ChatRec /\ d.status = st /\ d.ended = q.ended /\ d.todo = q.todo /\ d.telling = q.telling
            /\ d.acks = q.acks /\ d.seq = q.seq /\ d.owns = q.owns /\ d.listeners = q.listeners
            /\ d.alone = q.alone /\ d.stopping = q.stopping /\ d.inbox = q.inbox
          BY <3>1, <3>4 DEF ChatRec
      <4> QED BY <3>4, <4>1, <4>2 DEF Like
    <3> HIDE DEF d
    <3> QED BY <3>1, <3>2, <3>3, <3>5
  <2>2. CASE Set(c) \/ OpenWarm(c)
    <3> DEFINE w == [op |-> "configure", conn |-> c]
               d == Posted(entry, w)
               place == IF Set(c) THEN "asked" ELSE "configured"
               p == IF chats[entry].ended THEN "reply" ELSE place
    <3>1. /\ d \in ChatRec /\ d = [chats[entry] EXCEPT !.inbox = d.inbox]
          /\ d.inbox = IF chats[entry].ended THEN chats[entry].inbox ELSE Append(chats[entry].inbox, w)
        BY <1>3, PostedType
    <3>2. chats' = [chats EXCEPT ![entry] = d] BY <2>2 DEF Set, OpenWarm, Configure
    <3>3. /\ p \in {"reply", "asked", "configured"} /\ (p = "reply") = chats[entry].ended
          /\ pc' = [pc EXCEPT ![c] = p] /\ (p = "configured" => target'[c] = entry)
      <4>1. chats[entry].ended \in BOOLEAN BY <1>3 DEF ChatRec
      <4>2. p \in {"reply", "asked", "configured"} /\ (p = "reply") = chats[entry].ended BY <4>1
      <4>3. CASE Set(c)
        <5>1. place = "asked" BY <4>3
        <5>2. pc' = [pc EXCEPT ![c] = p] BY <4>3, <5>1 DEF Set, Configure, Goto
        <5>3. p # "configured" BY <5>1
        <5> QED BY <4>2, <5>2, <5>3
      <4>4. CASE ~Set(c) /\ OpenWarm(c)
        <5>1. place = "configured" BY <4>4
        <5>2. pc' = [pc EXCEPT ![c] = p] BY <4>4, <5>1 DEF OpenWarm, Configure, Goto
        <5>3. target'[c] = entry BY <1>0, <1>1, <4>4 DEF OpenWarm
        <5> QED BY <4>2, <5>2, <5>3
      <4> QED BY <2>2, <4>3, <4>4
    <3> HIDE DEF d, p
    <3>4. Like(d, entry) /\ d.stopping = chats[entry].stopping BY <1>3, <3>1 DEF Like, ChatRec
    <3> QED BY <3>1, <3>2, <3>3, <3>4
  <2> QED BY <2>1, <2>2
<1>6. PICK p \in {"reply", "asked", "configured"}, d \in ChatRec, o \in {"send", "configure"} :
        /\ pc' = [pc EXCEPT ![c] = p]
        /\ p = "configured" => target'[c] = entry
        /\ (p = "reply") = chats[entry].ended
        /\ chats' = [chats EXCEPT ![entry] = d]
        /\ Like(d, entry) /\ d.stopping = chats[entry].stopping
        /\ d.inbox = IF chats[entry].ended THEN chats[entry].inbox
                     ELSE Append(chats[entry].inbox, [op |-> o, conn |-> c])
    BY <1>5
<1>7. Moves(c, p) BY <1>2, <1>4, <1>6 DEF Moves, Places
<1>8. /\ Logged' /\ Subscribed' /\ Deserted'
      /\ chats' \in Seq(ChatRec) /\ Len(chats') = Len(chats) /\ DOMAIN chats' = DOMAIN chats
      /\ chats'[entry] = d /\ \A j \in DOMAIN chats : j # entry => chats'[j] = chats[j]
      /\ pc' \in [Actors -> Places] /\ pc'[c] = p /\ \A b \in Actors \ {c} : pc'[b] = pc[b]
    BY <1>0, <1>2, <1>3, <1>6, <1>7, LikeParts
<1>9. Awaited'
  <2> DEFINE w == [op |-> o, conn |-> c]
  <2>1. w \in Wakes /\ w.op # "stop" /\ w.conn = c BY DEF Wakes
  <2>2. d.inbox = IF chats[entry].ended THEN chats[entry].inbox ELSE Append(chats[entry].inbox, w) BY <1>6
  <2>3. d.acks = chats[entry].acks BY <1>6 DEF Like
  <2>4. ~chats[entry].ended => p \in Waits BY <1>6 DEF Waits
  <2>5. pc[c] \notin Waits BY <1>2 DEF Waits
  <2>6. c \in Actors /\ entry' = entry BY <1>0, <1>2
  <2> HIDE DEF w
  <2>7. \/ w.op = "stop" /\ w.conn = "none"
        \/ /\ w.op # "stop" /\ w.conn = c /\ c \in Conns /\ entry = entry
           /\ ~chats[entry].ended => p \in Waits
      BY <2>1, <2>4
  <2> QED BY <1>3, <1>8, <2>1, <2>2, <2>3, <2>5, <2>6, <2>7, PostAwaited
<1>10. Knows(c)' BY <1>2, <1>6, <1>8 DEF Knows, Putting, Inv, Owned
<1>11. Owned'
  <2>1. \A j \in DOMAIN chats : chats'[j].stopping = chats[j].stopping /\ chats'[j].ended = chats[j].ended
      BY <1>6, <1>8 DEF Like
  <2> QED BY <1>0, <1>2, <1>7, <1>8, <1>10, <2>1, MoveOwned DEF Putting
<1>12. Closing' BY <1>0, <1>2, <1>8 DEF Inv, Closing
<1>13. Gated' BY <1>0, <1>2, <1>8, InsideGated DEF gateVars
<1>14. Types' BY <1>2, <1>4, <1>8 DEF Inv, Types
<1> QED BY <1>8, <1>9, <1>11, <1>12, <1>13, <1>14 DEF Inv

-----------------------------------------------------------------------------
(* Live::shut. *)

\* The chat is told to stop, by the one thread that took it out of the map.
LEMMA MarkInv ==
    ASSUME Inv, NEW a \in Actors, Mark(a)
    PROVE  Inv'
<1> DEFINE k == target[a]
           w == [op |-> "stop", conn |-> "none"]
           q == Posted(k, w)
           d == [q EXCEPT !.stopping = TRUE]
<1>0. Conns \subseteq Actors /\ {"sweep", "main"} \subseteq Actors \ Conns BY ConstantsAssumption DEF Actors
<1>1. pc[a] = "mark" /\ Putting(a) BY DEF Mark, Putting
<1>2. k \in DOMAIN chats /\ ~chats[k].stopping /\ entry = 0 /\ \A b \in Actors : Putting(b) => b = a
    BY <1>1 DEF Inv, Owned
<1>3. /\ chats' = [chats EXCEPT ![k] = d] /\ pc' = [pc EXCEPT ![a] = "join"]
      /\ UNCHANGED <<file, listeners, entry, lock, gate, want, holder, open, reader, plan, lane, accepting, stopping,
                     then, target, replay>>
    BY <1>2 DEF Mark, Goto, shutRest, gateVars, readVars, mainVars, wireVars
<1>4. chats[k] \in ChatRec BY <1>2 DEF Inv, Types
<1>5. w \in Wakes /\ w.op = "stop" /\ w.conn = "none" BY DEF Wakes
<1>6. /\ q \in ChatRec /\ q = [chats[k] EXCEPT !.inbox = q.inbox]
      /\ q.inbox = IF chats[k].ended THEN chats[k].inbox ELSE Append(chats[k].inbox, w)
  <2>1. w \in [op : {"settings", "launch", "configure", "send", "stop"}, conn : Conns \cup {"none"}] BY <1>5 DEF Wakes
  <2> HIDE DEF w
  <2> QED BY <1>4, <2>1, PostedType
<1> HIDE DEF q, w
<1>7. d \in ChatRec /\ Like(d, k) /\ d.inbox = q.inbox
  <2>1. /\ q.status = chats[k].status /\ q.ended = chats[k].ended /\ q.todo = chats[k].todo
        /\ q.telling = chats[k].telling /\ q.acks = chats[k].acks /\ q.seq = chats[k].seq /\ q.owns = chats[k].owns
        /\ q.listeners = chats[k].listeners /\ q.alone = chats[k].alone
      BY <1>4, <1>6 DEF ChatRec
  <2>2. /\ d \in ChatRec /\ d.status = q.status /\ d.ended = q.ended /\ d.todo = q.todo /\ d.telling = q.telling
        /\ d.acks = q.acks /\ d.seq = q.seq /\ d.owns = q.owns /\ d.listeners = q.listeners
        /\ d.alone = q.alone /\ d.inbox = q.inbox
      BY <1>6 DEF ChatRec
  <2> QED BY <2>1, <2>2 DEF Like
<1> HIDE DEF d
<1>8. Moves(a, "join") BY <1>3 DEF Moves, Places
<1>9. /\ Logged' /\ Subscribed' /\ Deserted'
      /\ chats' \in Seq(ChatRec) /\ Len(chats') = Len(chats) /\ DOMAIN chats' = DOMAIN chats
      /\ chats'[k] = d /\ \A j \in DOMAIN chats : j # k => chats'[j] = chats[j]
      /\ pc' \in [Actors -> Places] /\ pc'[a] = "join" /\ \A b \in Actors \ {a} : pc'[b] = pc[b]
  <2>1. k \in DOMAIN chats /\ d \in ChatRec /\ chats' = [chats EXCEPT ![k] = d] /\ Like(d, k) BY <1>2, <1>3, <1>7
  <2>2. UNCHANGED <<file, listeners, entry, lock, replay, reader, open>> BY <1>3
  <2>3. pc[a] # "replay" /\ "join" # "replay" /\ (a \notin Conns => Putting(a) /\ target'[a] = target[a]) BY <1>1, <1>3
  <2> HIDE DEF k
  <2> QED BY <1>8, <2>1, <2>2, <2>3, LikeParts
<1>10. Awaited'
  <2>1. d.inbox = IF chats[k].ended THEN chats[k].inbox ELSE Append(chats[k].inbox, w) BY <1>6, <1>7
  <2>2. d.acks = chats[k].acks /\ entry' = entry BY <1>3, <1>7 DEF Like
  <2>3. pc[a] \notin Waits BY <1>1 DEF Waits
  <2> HIDE DEF k
  <2> QED BY <1>2, <1>5, <1>7, <1>9, <2>1, <2>2, <2>3, PostAwaited
<1>11. Owned'
  <2>1. \A b \in Actors : Putting(b)' <=> Putting(b) BY <1>1, <1>9 DEF Putting
  <2>2. \A j \in DOMAIN chats : chats'[j].ended = chats[j].ended BY <1>7, <1>9 DEF Like
  <2>3. \A b \in Actors : pc'[b] # "mark" BY <1>2, <1>9 DEF Putting
  <2>4. \A j \in DOMAIN chats' : Up(j)' => j = entry' \/ \E b \in Actors : Putting(b)' /\ target'[b] = j
      BY <1>3, <1>9, <2>1, <2>2 DEF Inv, Owned, Up
  <2>5. \A c \in Conns : Knows(c)'
    <3> SUFFICES ASSUME NEW c \in Conns PROVE Knows(c)' OBVIOUS
    <3>1. Knows(c) BY DEF Inv, Owned, Knows
    <3>2. CASE c = a BY <1>1, <1>3, <1>9, <3>1, <3>2 DEF Knows, Putting
    <3>3. CASE c # a BY <1>0, <1>3, <1>9, <3>1, <3>3 DEF Knows, Putting
    <3> QED BY <3>2, <3>3
  <2>6. then'["sweep"] = "reply" /\ then'["main"] = "reply" BY <1>3 DEF Inv, Owned
  <2>7. \A b \in Actors : Putting(b)' => entry' = 0 /\ target'[b] \in DOMAIN chats'
      BY <1>3, <1>9, <2>1 DEF Inv, Owned
  <2>8. \A b, c \in Actors : Putting(b)' /\ Putting(c)' => b = c BY <2>1 DEF Inv, Owned
  <2>9. entry' = 0 BY <1>2, <1>3
  <2> QED BY <2>3, <2>4, <2>5, <2>6, <2>7, <2>8, <2>9 DEF Owned, Knows
<1>12. Closing' BY <1>0, <1>1, <1>3, <1>9 DEF Inv, Closing
<1>13. Gated' BY <1>1, <1>3, <1>9, InsideGated DEF gateVars
<1>14. Types' BY <1>3, <1>9 DEF Inv, Types
<1> QED BY <1>9, <1>10, <1>11, <1>12, <1>13, <1>14 DEF Inv

\* Its thread has been joined: whoever listened is told, and the session is free
\* for an open that waits for that.
LEMMA FarewellInv ==
    ASSUME Inv, NEW a \in Actors, Farewell(a)
    PROVE  Inv'
<1> DEFINE p == then[a]
<1>0. Conns \subseteq Actors /\ {"sweep", "main"} \subseteq Actors \ Conns BY ConstantsAssumption DEF Actors
<1>1. pc[a] = "join" /\ Putting(a) /\ chats[target[a]].ended BY DEF Farewell, Putting
<1>2. entry = 0 /\ target[a] \in DOMAIN chats /\ \A b \in Actors : Putting(b) => b = a BY <1>1 DEF Inv, Owned
<1>3. /\ pc' = [pc EXCEPT ![a] = p]
      /\ UNCHANGED <<file, chats, listeners, entry, lock, gate, want, holder, reader, plan, lane, accepting, stopping,
                     then, target, replay>>
    BY DEF Farewell, Goto, shutRest, gateVars, readVars, mainVars
<1>4. open' \in [Conns -> BOOLEAN] /\ \A x \in Conns : open'[x] => open[x]
  <2>1. open \in [Conns -> BOOLEAN] BY DEF Inv, Types
  <2> QED BY <2>1 DEF Farewell, Write, Close
<1>5. p \in {"reply", "probe"} /\ (a \notin Conns => p = "reply") BY <1>1 DEF Inv, Owned, Actors
<1> HIDE DEF p
<1>6. Moves(a, p) BY <1>3, <1>5 DEF Moves, Places
<1>7. /\ Awaited' /\ Logged' /\ Subscribed' /\ Deserted'
      /\ pc' \in [Actors -> Places] /\ pc'[a] = p /\ \A b \in Actors \ {a} : pc'[b] = pc[b]
    BY <1>1, <1>3, <1>4, <1>5, <1>6, MoveParts DEF Waits
<1>8. Owned'
  <2>1. \A b \in Actors : ~Putting(b)' BY <1>2, <1>5, <1>7 DEF Putting
  <2>2. \A j \in DOMAIN chats : chats[j].ended
    <3> SUFFICES ASSUME NEW j \in DOMAIN chats, Up(j) PROVE FALSE BY DEF Up
    <3>1. j # entry BY <1>2 DEF Inv, Types
    <3>2. PICK b \in Actors : Putting(b) /\ target[b] = j BY <3>1 DEF Inv, Owned
    <3> QED BY <1>1, <1>2, <3>2 DEF Up
  <2>3. \A c \in Conns : Knows(c)'
    <3> SUFFICES ASSUME NEW c \in Conns PROVE Knows(c)' OBVIOUS
    <3>1. Knows(c) BY DEF Inv, Owned, Knows
    <3>2. CASE c = a BY <1>2, <1>3, <1>5, <1>7, <3>2 DEF Knows, Putting
    <3>3. CASE c # a BY <1>0, <1>3, <1>7, <3>1, <3>3 DEF Knows, Putting
    <3> QED BY <3>2, <3>3
  <2>4. then'["sweep"] = "reply" /\ then'["main"] = "reply" BY <1>3 DEF Inv, Owned
  <2>5. \A j \in DOMAIN chats' : ~Up(j)' BY <1>3, <2>2 DEF Up
  <2>6. \A b \in Actors : pc'[b] # "mark" BY <2>1 DEF Putting
  <2>7. entry' = 0 BY <1>2, <1>3
  <2> QED BY <2>1, <2>3, <2>4, <2>5, <2>6, <2>7 DEF Owned, Knows
<1>9. Closing' BY <1>0, <1>1, <1>3, <1>5, <1>7 DEF Inv, Closing
<1>10. Gated' BY <1>1, <1>3, <1>5, <1>7, InsideGated DEF gateVars
<1>11. Types' BY <1>3, <1>4, <1>7 DEF Inv, Types
<1> QED BY <1>7, <1>8, <1>9, <1>10, <1>11 DEF Inv

-----------------------------------------------------------------------------
(* Connections that leave a chat. *)

\* forget, when a connection is closed, and detach: the connection's listeners
\* go, and nothing else of the chat changes.
LEMMA LeaveInv ==
    ASSUME Inv, NEW c \in Conns, Forget(c) \/ Detach(c)
    PROVE  Inv'
<1>0. Conns \subseteq Actors /\ {"sweep", "main"} \subseteq Actors \ Conns BY ConstantsAssumption DEF Actors
<1>1. /\ UNCHANGED <<file, listeners, entry, lock, gate, want, holder, open, plan, lane, accepting, stopping,
                     then, target, replay>>
      /\ chats' = IF entry = 0 THEN chats ELSE [chats EXCEPT ![entry] = Unlisten(entry, c)]
      /\ entry # 0 => lock # entry
    BY DEF Forget, Detach, taskRest, gateVars, wireVars, readVars, mainVars, taskVars
<1>2. /\ reader' \in [Conns -> {"reading", "draining", "closing", "ended"}]
      /\ \A x \in Conns : reader'[x] = reader[x] \/ (x = c /\ reader[x] = "closing" /\ reader'[x] = "ended")
  <2>1. reader \in [Conns -> {"reading", "draining", "closing", "ended"}] BY DEF Inv, Types
  <2>2. CASE Forget(c) BY <2>1, <2>2 DEF Forget
  <2>3. CASE Detach(c) BY <2>1, <2>3 DEF Detach, taskRest, readVars
  <2> QED BY <2>2, <2>3
<1>3. /\ pc' \in [Actors -> Places] /\ \A b \in Actors \ {c} : pc'[b] = pc[b]
      /\ pc'[c] = pc[c] \/ (pc[c] = "idle" /\ pc'[c] = "reply" /\ lane[c] # << >>)
  <2>1. pc \in [Actors -> Places] BY DEF Inv, Types
  <2>2. CASE Forget(c) BY <2>1, <2>2 DEF Forget, taskVars
  <2>3. CASE Detach(c) BY <1>0, <2>1, <2>3 DEF Detach, Goto, Places
  <2> QED BY <2>2, <2>3
<1>4. /\ chats' \in Seq(ChatRec) /\ Len(chats') = Len(chats) /\ DOMAIN chats' = DOMAIN chats
      /\ \A j \in DOMAIN chats :
            /\ chats'[j].status = chats[j].status /\ chats'[j].ended = chats[j].ended
            /\ chats'[j].inbox = chats[j].inbox /\ chats'[j].todo = chats[j].todo
            /\ chats'[j].telling = chats[j].telling /\ chats'[j].acks = chats[j].acks
            /\ chats'[j].seq = chats[j].seq /\ chats'[j].owns = chats[j].owns
            /\ chats'[j].stopping = chats[j].stopping
            /\ chats'[j].listeners \subseteq chats[j].listeners
            /\ chats'[j].alone => chats'[j].listeners = {}
      /\ entry # 0 => \A l \in chats'[entry].listeners : listeners[l].conn # c
  <2>0. chats \in Seq(ChatRec) /\ \A j \in DOMAIN chats : chats[j].alone => chats[j].listeners = {}
      BY DEF Inv, Types, Deserted
  <2>1. CASE entry = 0 BY <1>1, <2>0, <2>1
  <2>2. CASE entry # 0
    <3> DEFINE d == Unlisten(entry, c)
    <3>1. entry \in DOMAIN chats BY <2>2 DEF Inv, Types
    <3>2. chats[entry] \in ChatRec BY <2>0, <3>1
    <3>3. /\ d \in ChatRec
          /\ d = [chats[entry] EXCEPT !.listeners = d.listeners, !.alone = d.alone]
          /\ d.listeners = {l \in chats[entry].listeners : listeners[l].conn # c}
          /\ d.alone = IF d.listeners = {} THEN TRUE ELSE chats[entry].alone
        BY <3>2, UnlistenType
    <3>4. chats' = [chats EXCEPT ![entry] = d] BY <1>1, <2>2
    <3> HIDE DEF d
    <3>5. /\ chats' \in Seq(ChatRec) /\ Len(chats') = Len(chats) /\ DOMAIN chats' = DOMAIN chats
          /\ chats'[entry] = d /\ \A j \in DOMAIN chats : j # entry => chats'[j] = chats[j]
        BY <2>0, <3>1, <3>3, <3>4, OneChanges
    <3>6. /\ d.status = chats[entry].status /\ d.ended = chats[entry].ended
          /\ d.inbox = chats[entry].inbox /\ d.todo = chats[entry].todo
          /\ d.telling = chats[entry].telling /\ d.acks = chats[entry].acks
          /\ d.seq = chats[entry].seq /\ d.owns = chats[entry].owns /\ d.stopping = chats[entry].stopping
        BY <3>2, <3>3 DEF ChatRec
    <3>7. d.listeners \subseteq chats[entry].listeners BY <3>3
    <3>8. d.alone => d.listeners = {} BY <2>0, <3>1, <3>3, <3>7
    <3> QED BY <2>0, <3>3, <3>5, <3>6, <3>7, <3>8
  <2> QED BY <2>1, <2>2
<1>5. Types' BY <1>1, <1>2, <1>3, <1>4 DEF Inv, Types
<1>6. Gated' BY <1>0, <1>1, <1>3 DEF Inv, Gated, Inside
<1>7. Closing'
  <2>1. \A x \in Conns : reader'[x] = "draining" => ~accepting BY <1>2 DEF Inv, Closing
  <2> QED BY <1>0, <1>1, <1>3, <2>1 DEF Inv, Closing
<1>8. Owned'
  <2>1. \A b \in Actors : Putting(b)' <=> Putting(b) BY <1>3 DEF Putting
  <2>2. \A j \in DOMAIN chats' : Up(j)' => j = entry' \/ \E b \in Actors : Putting(b)' /\ target'[b] = j
      BY <1>1, <1>4, <2>1 DEF Inv, Owned, Up
  <2>3. \A b \in Actors : Putting(b)' => entry' = 0 /\ target'[b] \in DOMAIN chats'
      BY <1>1, <1>4, <2>1 DEF Inv, Owned
  <2>4. \A a, b \in Actors : Putting(a)' /\ Putting(b)' => a = b BY <2>1 DEF Inv, Owned
  <2>5. \A b \in Actors : pc'[b] = "mark" => ~chats'[target'[b]].stopping
    <3> SUFFICES ASSUME NEW b \in Actors, pc'[b] = "mark" PROVE ~chats'[target'[b]].stopping OBVIOUS
    <3>1. pc[b] = "mark" /\ Putting(b) BY <1>3 DEF Putting
    <3> QED BY <1>1, <1>4, <3>1 DEF Inv, Owned
  <2>6. entry' # 0 => ~chats'[entry'].stopping
    <3>1. entry # 0 => entry \in DOMAIN chats BY DEF Inv, Types
    <3> QED BY <1>1, <1>4, <3>1 DEF Inv, Owned
  <2>7. \A x \in Conns : Knows(x)'
    <3> SUFFICES ASSUME NEW x \in Conns PROVE Knows(x)' OBVIOUS
    <3>1. Knows(x) BY DEF Inv, Owned, Knows
    <3>2. pc'[x] = pc[x] \/ pc'[x] = "reply" BY <1>0, <1>3
    <3> QED BY <1>1, <3>1, <3>2 DEF Knows, Putting
  <2>8. then'["sweep"] = "reply" /\ then'["main"] = "reply" BY <1>1 DEF Inv, Owned
  <2> QED BY <2>2, <2>3, <2>4, <2>5, <2>6, <2>7, <2>8 DEF Owned, Knows
<1>9. Awaited'
  <2> SUFFICES ASSUME NEW k \in DOMAIN chats
               PROVE  /\ \A x \in Waiters(chats'[k]) \cup chats'[k].acks : pc'[x] \in Waits /\ entry' = k
                      /\ Waiters(chats'[k]) \cap chats'[k].acks = {}
                      /\ Queued(chats'[k].inbox)
      BY <1>4 DEF Awaited, Queued
  <2>1. Waiters(chats'[k]) = Waiters(chats[k]) /\ chats'[k].acks = chats[k].acks BY <1>4 DEF Waiters
  <2>2. chats[k] \in ChatRec BY DEF Inv, Types
  <2>3. Waiters(chats[k]) \cup chats[k].acks \subseteq Conns BY <2>2 DEF ChatRec, Waiters
  <2>4. \A x \in Conns : pc[x] \in Waits => pc'[x] \in Waits BY <1>0, <1>3 DEF Waits
  <2> QED BY <1>1, <1>4, <2>1, <2>3, <2>4 DEF Inv, Awaited, Queued
<1>10. Logged' BY <1>1, <1>4 DEF Inv, Logged, Up
<1>11. Subscribed'
  <2>1. \A x \in Conns : pc'[x] = "replay" => pc[x] = "replay" BY <1>0, <1>3
  <2>2. Mine' = Mine BY <1>1 DEF Mine
  <2>3. NoGap' BY <1>1, <1>4 DEF Inv, Subscribed, NoGap
  <2>4. ASSUME NEW x \in Conns, pc'[x] = "replay"
        PROVE  /\ lock' = target'[x]
               /\ listeners' # << >> /\ listeners'[Mine'].conn = x
               /\ \A j \in DOMAIN chats' : Mine' \notin chats'[j].listeners \cup chats'[j].telling
               /\ \A i \in DOMAIN replay'[x] : replay'[x][i] = listeners'[Mine'].next + i - 1
               /\ \A e \in listeners'[Mine'].next + Len(replay'[x]) .. chats'[target'[x]].seq :
                     ComingNew(target[x], e)'
    <3>1. pc[x] = "replay" /\ target'[x] = target[x] BY <1>1, <2>1, <2>4
    <3>2. \A e \in listeners[Mine].next + Len(replay[x]) .. chats[target[x]].seq : ComingNew(target[x], e)
        BY <3>1 DEF Inv, Subscribed
    <3>3. target[x] \in DOMAIN chats
      <4>1. entry = target[x] /\ entry # 0 BY <3>1 DEF Inv, Owned
      <4> QED BY <4>1 DEF Inv, Types
    <3>4. \A e \in listeners'[Mine'].next + Len(replay'[x]) .. chats'[target'[x]].seq : ComingNew(target[x], e)'
        BY <1>1, <1>4, <2>2, <3>1, <3>2, <3>3 DEF ComingNew
    <3>5. \A j \in DOMAIN chats : Mine \notin chats'[j].listeners \cup chats'[j].telling
        BY <1>4, <3>1 DEF Inv, Subscribed
    <3> QED BY <1>1, <1>4, <2>2, <3>1, <3>4, <3>5 DEF Inv, Subscribed
  <2>5. \A j \in DOMAIN chats' : chats'[j].listeners \cup chats'[j].telling \subseteq DOMAIN listeners'
      BY <1>1, <1>4 DEF Inv, Subscribed
  <2> QED BY <2>3, <2>4, <2>5 DEF Subscribed
<1>12. Deserted'
  <2>1. \A x \in Conns : reader'[x] \in {"closing", "ended"} => ~open'[x] BY <1>1, <1>2 DEF Inv, Deserted
  <2>2. entry # 0 => \A l \in chats'[entry].listeners : reader'[listeners[l].conn] # "ended"
    <3> SUFFICES ASSUME entry # 0, NEW l \in chats'[entry].listeners PROVE reader'[listeners[l].conn] # "ended"
        OBVIOUS
    <3>1. entry \in DOMAIN chats BY DEF Inv, Types
    <3>2. l \in chats[entry].listeners /\ listeners[l].conn # c BY <1>4, <3>1
    <3>3. l \in DOMAIN listeners /\ listeners \in Seq(Cursor) BY <3>1, <3>2 DEF Inv, Subscribed, Types
    <3>4. listeners[l] \in Cursor BY <3>3
    <3>5. listeners[l].conn \in Conns BY <3>4 DEF Cursor
    <3> QED BY <1>2, <3>2, <3>5 DEF Inv, Deserted
  <2>3. Putting("sweep")' => Putting("sweep") /\ target["sweep"] \in DOMAIN chats
      BY <1>0, <1>3 DEF Putting, Inv, Owned
  <2>4. Putting("sweep")' /\ chats'[target["sweep"]].status # "stopped" => chats'[target["sweep"]].listeners = {}
      BY <1>4, <2>3 DEF Inv, Deserted
  <2> QED BY <1>1, <1>4, <2>1, <2>2, <2>4 DEF Deserted
<1> QED BY <1>5, <1>6, <1>7, <1>8, <1>9, <1>10, <1>11, <1>12 DEF Inv

-----------------------------------------------------------------------------
(* A chat is started. *)

\* What a chat is at its start, whether or not its log or its metadata loaded.
LEMMA FreshChat ==
    ASSUME Inv, NEW c \in Conns, Loaded(c) \/ Unloaded(c)
    PROVE  \E d \in ChatRec :
              /\ chats' = Append(chats, d)
              /\ ~d.ended /\ d.telling = {} /\ d.acks = {} /\ d.seq = Prefix(file) /\ ~d.owns
              /\ d.listeners = {} /\ ~d.alone /\ ~d.stopping
              /\ d.inbox = <<[op |-> "settings", conn |-> c], [op |-> "launch", conn |-> c]>>
              /\ \/ d.status = "waiting" /\ d.todo = << >>
                 \/ d.status = "stopped" /\ d.todo = <<0>>
<1> DEFINE ib == <<[op |-> "settings", conn |-> c], [op |-> "launch", conn |-> c]>>
           n == NewChat(c)
           f == Failed(n)
<1>1. file \in File /\ Intact(file) /\ ~LoadError(file) BY IntactPrefix DEF Inv, Logged
<1>2. chats' = Append(chats, n) \/ chats' = Append(chats, f) BY <1>1 DEF Loaded, Unloaded
<1>3. n \in ChatRec BY <1>1, NewChatType
<1>4. /\ n.status = "waiting" /\ n.todo = << >> /\ n.ended = FALSE /\ n.telling = {} /\ n.acks = {}
      /\ n.seq = Prefix(file) /\ n.owns = FALSE /\ n.listeners = {} /\ n.alone = FALSE /\ n.stopping = FALSE
      /\ n.inbox = ib
  <2> HIDE DEF ib
  <2>1. n = [status |-> "waiting", ended |-> FALSE, todo |-> << >>, telling |-> {}, acks |-> {},
             inbox |-> ib, seq |-> StoredSeq, owns |-> FALSE,
             listeners |-> {}, alone |-> FALSE, stopping |-> FALSE] BY DEF NewChat, ib
  <2> HIDE DEF n
  <2> QED BY <2>1 DEF StoredSeq
<1> HIDE DEF n, ib
<1>5. f \in ChatRec /\ f = [n EXCEPT !.status = "stopped", !.todo = Append(n.todo, 0)] BY <1>3, FailedType
<1>6. /\ f.status = "stopped" /\ f.todo = Append(n.todo, 0) /\ f.ended = n.ended /\ f.telling = n.telling
      /\ f.acks = n.acks /\ f.seq = n.seq /\ f.owns = n.owns /\ f.listeners = n.listeners
      /\ f.alone = n.alone /\ f.stopping = n.stopping /\ f.inbox = n.inbox
    BY <1>3, <1>5 DEF ChatRec
<1>7. f.todo = <<0>> BY <1>4, <1>6
<1> HIDE DEF f
<1>8. CASE chats' = Append(chats, n) BY <1>3, <1>4, <1>8 DEF ib
<1>9. CASE chats' = Append(chats, f) BY <1>4, <1>5, <1>6, <1>7, <1>9 DEF ib
<1> QED BY <1>2, <1>8, <1>9

\* An open starts a chat: there was none that is up.
LEMMA ProbedInv ==
    ASSUME Inv, NEW c \in Conns, Probed(c)
    PROVE  Inv'
<1> DEFINE n == Len(chats) + 1
<1>0. Conns \subseteq Actors /\ {"sweep", "main"} \subseteq Actors \ Conns BY ConstantsAssumption DEF Actors
<1>1. /\ pc \in [Actors -> Places] /\ then \in [Actors -> {"reply", "drop", "probe"}] /\ target \in [Actors -> Nat]
      /\ chats \in Seq(ChatRec)
    BY DEF Inv, Types
<1>2. /\ pc[c] = "probe" /\ (Loaded(c) \/ Unloaded(c)) /\ entry' = n
      /\ target' = [target EXCEPT ![c] = n] /\ then' = [then EXCEPT ![c] = "drop"]
      /\ pc' = [pc EXCEPT ![c] = "launched"]
      /\ UNCHANGED <<file, listeners, lock, gate, want, holder, open, reader, plan, lane, accepting, stopping, replay>>
    BY DEF Probed, Goto, gateVars, wireVars, readVars, mainVars
<1>3. PICK d \in ChatRec :
              /\ chats' = Append(chats, d)
              /\ ~d.ended /\ d.telling = {} /\ d.acks = {} /\ d.seq = Prefix(file) /\ ~d.owns
              /\ d.listeners = {} /\ ~d.alone /\ ~d.stopping
              /\ d.inbox = <<[op |-> "settings", conn |-> c], [op |-> "launch", conn |-> c]>>
              /\ \/ d.status = "waiting" /\ d.todo = << >>
                 \/ d.status = "stopped" /\ d.todo = <<0>>
    BY <1>2, FreshChat
<1>4. /\ n \in Nat \ {0} /\ chats' \in Seq(ChatRec) /\ Len(chats') = n /\ DOMAIN chats' = 1 .. n
      /\ DOMAIN chats = 1 .. n - 1 /\ chats'[n] = d /\ \A j \in DOMAIN chats : chats'[j] = chats[j] /\ j # n
      /\ \A j \in DOMAIN chats' : j \in DOMAIN chats \/ j = n
  <2>1. chats' = Append(chats, d) BY <1>3
  <2> QED BY <1>1, <2>1
<1> HIDE DEF n
<1>5. entry = 0 /\ 0 \notin DOMAIN chats BY <1>2, <1>4 DEF Inv, Owned
<1>6. /\ \A b \in Actors \ {c} : pc[b] \in {"idle", "wait", "reply"}
      /\ pc["main"] = "idle" /\ ~stopping
  <2>1. \A b \in Actors \ {c, "main"} : pc[b] \in {"idle", "wait", "reply"} BY <1>0, <1>2, Exclusive
  <2>2. pc["main"] = "idle" /\ ~stopping BY <1>0, <1>2, Exclusive
  <2> QED BY <2>1, <2>2
<1>7. /\ pc' \in [Actors -> Places] /\ pc'[c] = "launched" /\ \A b \in Actors \ {c} : pc'[b] = pc[b]
      /\ target'[c] = n /\ then'[c] = "drop" /\ \A b \in Actors \ {c} : then'[b] = then[b]
    BY <1>0, <1>1, <1>2 DEF Places
<1>8. \A b \in Actors : ~Putting(b) /\ ~Putting(b)' BY <1>2, <1>6, <1>7 DEF Putting
<1>9. \A j \in DOMAIN chats : ~Up(j) BY <1>5, <1>8 DEF Inv, Owned
<1>10. Types'
  <2>1. target' \in [Actors -> Nat] /\ then' \in [Actors -> {"reply", "drop", "probe"}] BY <1>1, <1>2, <1>4
  <2>2. entry' \in 0 .. Len(chats') BY <1>2, <1>4
  <2> QED BY <1>2, <1>4, <1>7, <2>1, <2>2 DEF Inv, Types
<1>11. Gated' BY <1>0, <1>2, <1>7, InsideGated DEF gateVars
<1>12. Closing'
  <2>1. lane[c] # << >> BY <1>2 DEF Inv, Closing
  <2> QED BY <1>0, <1>2, <1>6, <1>7, <2>1 DEF Inv, Closing
<1>13. Owned'
  <2>1. \A j \in DOMAIN chats' : Up(j)' => j = entry' BY <1>2, <1>4, <1>9 DEF Up
  <2>2. \A x \in Conns : Knows(x)'
    <3> SUFFICES ASSUME NEW x \in Conns PROVE Knows(x)' OBVIOUS
    <3>1. CASE x = c BY <1>2, <1>4, <1>7, <3>1 DEF Knows, Putting
    <3>2. CASE x # c
      <4>1. pc'[x] = pc[x] /\ then'[x] = then[x] /\ pc[x] \in {"idle", "wait", "reply"} BY <1>0, <1>6, <1>7, <3>2
      <4>2. pc[x] \in {"idle", "wait"} => then[x] = "reply" BY DEF Inv, Owned
      <4> QED BY <4>1, <4>2 DEF Knows, Putting
    <3> QED BY <3>1, <3>2
  <2>3. then'["sweep"] = "reply" /\ then'["main"] = "reply" BY <1>0, <1>7 DEF Inv, Owned
  <2>4. ~chats'[entry'].stopping BY <1>2, <1>3, <1>4
  <2>5. \A b \in Actors : pc'[b] # "mark" BY <1>8 DEF Putting
  <2> QED BY <1>8, <2>1, <2>2, <2>3, <2>4, <2>5 DEF Owned, Knows
<1>14. Awaited'
  <2> SUFFICES ASSUME NEW k \in DOMAIN chats'
               PROVE  /\ \A x \in Waiters(chats'[k]) \cup chats'[k].acks : pc'[x] \in Waits /\ entry' = k
                      /\ Waiters(chats'[k]) \cap chats'[k].acks = {}
                      /\ Queued(chats'[k].inbox)
      BY DEF Awaited, Queued
  <2>1. CASE k \in DOMAIN chats
    <3>1. chats'[k] = chats[k] /\ entry # k BY <1>4, <1>5, <2>1
    <3>2. Waiters(chats[k]) \cup chats[k].acks = {} /\ Queued(chats[k].inbox) BY <2>1, <3>1 DEF Inv, Awaited, Queued
    <3> QED BY <3>1, <3>2
  <2>2. CASE k = n
    <3> DEFINE u == [op |-> "settings", conn |-> c]
               v == [op |-> "launch", conn |-> c]
    <3>1. d.inbox = <<u, v>> /\ u.conn = c /\ v.conn = c /\ u.op = "settings" /\ v.op = "launch" BY <1>3
    <3> HIDE DEF u, v
    <3>2. DOMAIN d.inbox = {1, 2} /\ d.inbox[1] = u /\ d.inbox[2] = v BY <3>1
    <3>3. Waiters(d) = {c}
      <4>1. {d.inbox[i].conn : i \in DOMAIN d.inbox} = {c} BY <3>1, <3>2
      <4> QED BY <4>1 DEF Waiters
    <3>4. Queued(d.inbox) BY <3>1, <3>2 DEF Queued
    <3>5. chats'[k] = d /\ d.acks = {} /\ entry' = k BY <1>2, <1>3, <1>4, <2>2
    <3> QED BY <1>7, <3>3, <3>4, <3>5 DEF Waits
  <2> QED BY <1>4, <2>1, <2>2
<1>15. Logged'
  <2>1. Prefix(file) \in Nat BY IntactPrefix DEF Inv, Logged
  <2>2. /\ \A i \in DOMAIN d.todo : d.todo[i] <= d.seq
        /\ d.status = "stopped" => d.todo # << >>
    <3>1. d.seq \in Nat BY <1>3, <2>1
    <3>2. CASE d.status = "waiting" /\ d.todo = << >> BY <3>2
    <3>3. CASE d.todo = <<0>>
      <4>1. DOMAIN d.todo = {1} /\ d.todo[1] = 0 /\ d.todo # << >> BY <3>3
      <4> QED BY <3>1, <4>1
    <3> QED BY <1>3, <3>2, <3>3
  <2>3. ASSUME NEW k \in DOMAIN chats'
        PROVE  /\ chats'[k].seq <= Prefix(file)
               /\ \A i \in DOMAIN chats'[k].todo : chats'[k].todo[i] <= chats'[k].seq
               /\ chats'[k].ended => chats'[k].status = "stopped" /\ chats'[k].todo = << >>
               /\ ~chats'[k].ended /\ chats'[k].status = "stopped" => chats'[k].todo # << >>
               /\ chats'[k].status # "stopped" => chats'[k].seq = Prefix(file)
               /\ chats'[k].status # "stopped" /\ chats'[k].owns => file.tail = << >>
               /\ chats'[k].telling # {} => chats'[k].todo # << >>
    <3>1. CASE k \in DOMAIN chats BY <1>4, <3>1 DEF Inv, Logged, Up
    <3>2. CASE k = n BY <1>3, <1>4, <2>1, <2>2, <3>2
    <3> QED BY <1>4, <3>1, <3>2
  <2>4. /\ \A l \in DOMAIN listeners : listeners[l].next <= Prefix(file) + 1
        /\ \A x \in Conns : \A i \in DOMAIN replay[x] : replay[x][i] <= Prefix(file)
        /\ file \in File /\ Intact(file)
      BY DEF Inv, Logged
  <2> QED BY <1>2, <2>3, <2>4 DEF Logged, Up
<1>16. Subscribed'
  <2>1. \A x \in Conns : pc'[x] # "replay" BY <1>0, <1>6, <1>7
  <2>2. \A k \in DOMAIN chats' : chats'[k].listeners \cup chats'[k].telling \subseteq DOMAIN listeners'
      BY <1>2, <1>3, <1>4 DEF Inv, Subscribed
  <2>3. NoGap'
    <3> SUFFICES ASSUME NEW k \in DOMAIN chats', NEW l \in chats'[k].listeners,
                        NEW e \in listeners'[l].next .. chats'[k].seq
                 PROVE  Coming(k, l, e)'
        BY DEF NoGap, Coming
    <3>1. k \in DOMAIN chats /\ chats'[k] = chats[k] BY <1>3, <1>4
    <3>2. Coming(k, l, e) BY <1>2, <3>1 DEF Inv, Subscribed, NoGap, Coming
    <3> QED BY <3>1, <3>2 DEF Coming
  <2> QED BY <2>1, <2>2, <2>3 DEF Subscribed
<1>17. Deserted'
  <2>1. \A k \in DOMAIN chats' : chats'[k].alone => chats'[k].listeners = {} BY <1>3, <1>4 DEF Inv, Deserted
  <2>2. chats'[entry'].listeners = {} BY <1>2, <1>3, <1>4
  <2>3. ~Putting("sweep")' BY <1>0, <1>8
  <2> QED BY <1>2, <2>1, <2>2, <2>3 DEF Inv, Deserted
<1> QED BY <1>10, <1>11, <1>12, <1>13, <1>14, <1>15, <1>16, <1>17 DEF Inv

-----------------------------------------------------------------------------
(* Live::attach. *)

\* A chat d is like chat k but for who listens to it.
Listed(d, k) ==
    /\ d.status = chats[k].status /\ d.ended = chats[k].ended
    /\ d.inbox = chats[k].inbox /\ d.todo = chats[k].todo /\ d.telling = chats[k].telling
    /\ d.acks = chats[k].acks /\ d.seq = chats[k].seq /\ d.owns = chats[k].owns
    /\ d.stopping = chats[k].stopping

\* A step of an attach changes who listens to the chat in the map, the cursors
\* and what is to be replayed, and leaves the rest of the invariant.
LEMMA ListParts ==
    ASSUME Inv, NEW c \in Conns, NEW p \in {"replay", "reply", "drop"}, pc[c] \in {"attach", "replay"},
           pc' = [pc EXCEPT ![c] = p], NEW d \in ChatRec, Listed(d, entry), chats' = [chats EXCEPT ![entry] = d],
           UNCHANGED <<file, entry, gate, want, holder, reader, plan, lane, accepting, stopping, then, target>>,
           open' \in [Conns -> BOOLEAN], \A x \in Conns : open'[x] => open[x],
           listeners' \in Seq(Cursor), replay' \in [Conns -> Seq(Nat)],
           \A l \in DOMAIN listeners' : listeners'[l].next <= Prefix(file) + 1,
           \A x \in Conns : \A i \in DOMAIN replay'[x] : replay'[x][i] <= Prefix(file),
           d.alone => d.listeners = {},
           \A l \in d.listeners : reader[listeners'[l].conn] # "ended"
    PROVE  /\ Types' /\ Gated' /\ Closing' /\ Owned' /\ Awaited' /\ Logged' /\ Deserted'
           /\ entry \in DOMAIN chats /\ entry = target[c] /\ DOMAIN chats' = DOMAIN chats
           /\ chats'[entry] = d /\ \A j \in DOMAIN chats : j # entry => chats'[j] = chats[j]
           /\ pc'[c] = p /\ \A x \in Conns \ {c} : pc'[x] # "replay"
<1>0. Conns \subseteq Actors /\ {"sweep", "main"} \subseteq Actors \ Conns BY ConstantsAssumption DEF Actors
<1>1. entry \in DOMAIN chats /\ entry = target[c] /\ entry # 0
  <2>1. entry = target[c] /\ entry # 0 BY DEF Inv, Owned
  <2> QED BY <2>1 DEF Inv, Types
<1>2. /\ chats' \in Seq(ChatRec) /\ Len(chats') = Len(chats) /\ DOMAIN chats' = DOMAIN chats
      /\ chats'[entry] = d /\ \A j \in DOMAIN chats : j # entry => chats'[j] = chats[j]
  <2>1. chats \in Seq(ChatRec) BY DEF Inv, Types
  <2> QED BY <1>1, <2>1, OneChanges
<1>3. pc' \in [Actors -> Places] /\ pc'[c] = p /\ \A b \in Actors \ {c} : pc'[b] = pc[b]
    BY <1>0 DEF Inv, Types, Places
<1>4. \A j \in DOMAIN chats :
          /\ chats'[j].status = chats[j].status /\ chats'[j].ended = chats[j].ended
          /\ chats'[j].inbox = chats[j].inbox /\ chats'[j].todo = chats[j].todo
          /\ chats'[j].telling = chats[j].telling /\ chats'[j].acks = chats[j].acks
          /\ chats'[j].seq = chats[j].seq /\ chats'[j].owns = chats[j].owns
          /\ chats'[j].stopping = chats[j].stopping
    BY <1>2 DEF Listed
<1>5. \A b \in Actors \ {c, "main"} : pc[b] \in {"idle", "wait", "reply"} BY <1>0, Exclusive
<1>6. Types' BY <1>2, <1>3 DEF Inv, Types
<1>7. Gated' BY <1>0, <1>3, InsideGated DEF gateVars
<1>8. Closing' BY <1>0, <1>3 DEF Inv, Closing
<1>9. Owned'
  <2>1. Moves(c, p) BY DEF Moves, Places
  <2>2. Knows(c)' BY <1>1, <1>3 DEF Knows, Putting, Inv, Owned
  <2>3. ~Putting(c) /\ p \notin {"mark", "join"} BY DEF Putting
  <2> QED BY <1>0, <1>2, <1>4, <2>1, <2>2, <2>3, MoveOwned
<1>10. Awaited'
  <2> SUFFICES ASSUME NEW k \in DOMAIN chats
               PROVE  /\ \A x \in Waiters(chats'[k]) \cup chats'[k].acks : pc'[x] \in Waits /\ entry' = k
                      /\ Waiters(chats'[k]) \cap chats'[k].acks = {}
                      /\ Queued(chats'[k].inbox)
      BY <1>2 DEF Awaited, Queued
  <2>1. Waiters(chats'[k]) = Waiters(chats[k]) /\ chats'[k].acks = chats[k].acks BY <1>4 DEF Waiters
  <2>2. chats[k] \in ChatRec BY DEF Inv, Types
  <2>3. Waiters(chats[k]) \cup chats[k].acks \subseteq Conns BY <2>2 DEF ChatRec, Waiters
  <2>4. \A x \in Conns : pc[x] \in Waits => pc'[x] \in Waits BY <1>0, <1>3 DEF Waits
  <2> QED BY <1>4, <2>1, <2>3, <2>4 DEF Inv, Awaited, Queued
<1>11. Logged' BY <1>2, <1>4 DEF Inv, Logged, Up
<1>12. Deserted'
  <2>1. \A x \in Conns : reader[x] \in {"closing", "ended"} => ~open'[x] BY DEF Inv, Deserted
  <2>2. \A j \in DOMAIN chats : chats'[j].alone => chats'[j].listeners = {} BY <1>2 DEF Inv, Deserted
  <2>3. ~Putting("sweep")' BY <1>0, <1>3, <1>5 DEF Putting
  <2> QED BY <1>2, <2>1, <2>2, <2>3 DEF Deserted
<1>13. \A x \in Conns \ {c} : pc'[x] # "replay" BY <1>0, <1>3, <1>5
<1> QED BY <1>1, <1>2, <1>3, <1>6, <1>7, <1>8, <1>9, <1>10, <1>11, <1>12, <1>13

\* A listener is made under the list's lock, with what is in the log to replay
\* to it: nothing for who follows, all of it for who opens.
LEMMA AttachInv ==
    ASSUME Inv, NEW c \in Conns, Attach(c)
    PROVE  Inv'
<1> DEFINE k == entry
           from == IF Op(c) = "follow" THEN chats[k].seq + 1 ELSE 1
           n == Prefix(file)
           d == [chats[k] EXCEPT !.listeners = {l \in chats[k].listeners : listeners[l].conn # c}]
           new == [conn |-> c, next |-> from]
           rep == [i \in 1 .. n + 1 - from |-> from + i - 1]
<1>0. Conns \subseteq Actors BY DEF Actors
<1>1. pc[c] = "attach" /\ entry = target[c] /\ entry # 0 BY DEF Attach, Inv, Owned
<1>2. k \in DOMAIN chats /\ chats[k] \in ChatRec
  <2>1. k \in DOMAIN chats BY <1>1 DEF Inv, Types
  <2> QED BY <2>1 DEF Inv, Types
<1>3. /\ open[c] /\ chats[k].status # "stopped" /\ lock' = k
      /\ chats' = [chats EXCEPT ![k] = d]
      /\ listeners' = Append(listeners, new) /\ replay' = [replay EXCEPT ![c] = rep]
      /\ pc' = [pc EXCEPT ![c] = "replay"]
      /\ UNCHANGED <<file, entry, gate, want, holder, open, reader, plan, lane, accepting, stopping, then, target>>
    BY <1>1 DEF Attach, Goto, attachRest, gateVars, readVars, mainVars
<1>4. n \in Nat BY IntactPrefix DEF Inv, Logged
<1>5. chats[k].seq = n BY <1>2, <1>3 DEF Inv, Logged
<1>6. from \in Nat \ {0} /\ from <= n + 1 BY <1>4, <1>5
<1>7. /\ d \in ChatRec /\ Listed(d, k) /\ d.alone = chats[k].alone
      /\ d.listeners = {l \in chats[k].listeners : listeners[l].conn # c}
    BY <1>2 DEF ChatRec, Listed
<1>8. d.listeners \subseteq chats[k].listeners /\ (d.alone => d.listeners = {})
    BY <1>2, <1>7 DEF Inv, Deserted
<1> HIDE DEF d
<1>9. listeners \in Seq(Cursor) /\ replay \in [Conns -> Seq(Nat)] /\ open \in [Conns -> BOOLEAN] BY DEF Inv, Types
<1>10. new \in Cursor /\ new.conn = c /\ new.next = from BY <1>6 DEF Cursor
<1>11. /\ rep \in Seq(Nat) /\ Len(rep) = n + 1 - from /\ DOMAIN rep = 1 .. n + 1 - from
       /\ \A i \in DOMAIN rep : rep[i] = from + i - 1 /\ rep[i] <= n
  <2> HIDE DEF from, n
  <2>1. n + 1 - from \in Nat BY <1>4, <1>6
  <2>2. \A i \in 1 .. n + 1 - from : from + i - 1 \in Nat /\ from + i - 1 <= n BY <1>4, <1>6
  <2> QED BY <2>1, <2>2
<1> HIDE DEF new, rep, from
<1>12. /\ listeners' \in Seq(Cursor) /\ listeners' # << >> /\ Mine' = Mine + 1 /\ Mine \in Nat
       /\ DOMAIN listeners = 1 .. Mine /\ DOMAIN listeners' = 1 .. Mine + 1
       /\ listeners'[Mine + 1] = new /\ \A l \in 1 .. Mine : listeners'[l] = listeners[l]
  <2>1. Mine = Len(listeners) /\ Mine' = Len(listeners') /\ listeners' = Append(listeners, new) BY <1>3 DEF Mine
  <2>2. listeners' \in Seq(Cursor) /\ Len(listeners') = Len(listeners) + 1 BY <1>9, <1>10, <2>1
  <2>3. listeners'[Len(listeners) + 1] = new /\ \A l \in 1 .. Len(listeners) : listeners'[l] = listeners[l]
      BY <1>9, <1>10, <2>1
  <2>4. Len(listeners) \in Nat /\ DOMAIN listeners = 1 .. Len(listeners) /\ DOMAIN listeners' = 1 .. Len(listeners')
      BY <1>9, <2>2
  <2>5. listeners' # << >> BY <2>2, <2>4
  <2> QED BY <2>1, <2>2, <2>3, <2>4, <2>5
<1>13. replay' \in [Conns -> Seq(Nat)] /\ replay'[c] = rep /\ \A x \in Conns : x # c => replay'[x] = replay[x]
    BY <1>3, <1>9, <1>11
<1>14. \A l \in DOMAIN listeners' : listeners'[l].next <= Prefix(file) + 1
  <2> SUFFICES ASSUME NEW l \in DOMAIN listeners' PROVE listeners'[l].next <= Prefix(file) + 1 OBVIOUS
  <2>1. CASE l \in 1 .. Mine BY <1>12, <2>1 DEF Inv, Logged
  <2>2. CASE l = Mine + 1 BY <1>6, <1>10, <1>12, <2>2
  <2> QED BY <1>12, <2>1, <2>2
<1>15. \A x \in Conns : \A i \in DOMAIN replay'[x] : replay'[x][i] <= Prefix(file)
    BY <1>11, <1>13 DEF Inv, Logged
<1>16. \A j \in DOMAIN chats : chats[j].listeners \cup chats[j].telling \subseteq 1 .. Mine
    BY <1>12 DEF Inv, Subscribed
<1>17. \A l \in d.listeners : reader[listeners'[l].conn] # "ended"
    BY <1>1, <1>2, <1>8, <1>12, <1>16 DEF Inv, Deserted
<1>18. /\ Types' /\ Gated' /\ Closing' /\ Owned' /\ Awaited' /\ Logged' /\ Deserted'
       /\ entry \in DOMAIN chats /\ entry = target[c] /\ DOMAIN chats' = DOMAIN chats
       /\ chats'[entry] = d /\ \A j \in DOMAIN chats : j # entry => chats'[j] = chats[j]
       /\ pc'[c] = "replay" /\ \A x \in Conns \ {c} : pc'[x] # "replay"
  <2>1. \A x \in Conns : open'[x] => open[x] BY <1>3
  <2>2. open' \in [Conns -> BOOLEAN] BY <1>3, <1>9
  <2>3. UNCHANGED <<file, entry, gate, want, holder, reader, plan, lane, accepting, stopping, then, target>> BY <1>3
  <2>4. pc[c] \in {"attach", "replay"} /\ pc' = [pc EXCEPT ![c] = "replay"] BY <1>1, <1>3
  <2> QED BY <1>3, <1>7, <1>8, <1>12, <1>13, <1>14, <1>15, <1>17, <2>1, <2>2, <2>3, <2>4, ListParts
<1>19. \A j \in DOMAIN chats : /\ chats'[j].listeners \subseteq chats[j].listeners
                               /\ chats'[j].telling = chats[j].telling
                               /\ chats'[j].todo = chats[j].todo /\ chats'[j].seq = chats[j].seq
    BY <1>7, <1>8, <1>18 DEF Listed
<1>20. Subscribed'
  <2>1. \A j \in DOMAIN chats' : chats'[j].listeners \cup chats'[j].telling \subseteq 1 .. Mine BY <1>16, <1>18, <1>19
  <2>2. \A j \in DOMAIN chats' : chats'[j].listeners \cup chats'[j].telling \subseteq DOMAIN listeners'
      BY <1>12, <2>1
  <2>3. \A j \in DOMAIN chats' : Mine' \notin chats'[j].listeners \cup chats'[j].telling BY <1>12, <2>1
  <2>4. NoGap'
    <3> SUFFICES ASSUME NEW j \in DOMAIN chats, NEW l \in chats'[j].listeners,
                        NEW e \in listeners'[l].next .. chats'[j].seq
                 PROVE  Coming(j, l, e)'
        BY <1>18 DEF NoGap, Coming
    <3>1. l \in chats[j].listeners /\ listeners'[l] = listeners[l] BY <1>12, <1>16, <1>19
    <3>2. e \in listeners[l].next .. chats[j].seq BY <1>19, <3>1
    <3>3. Coming(j, l, e) BY <3>1, <3>2 DEF Inv, Subscribed, NoGap, Coming
    <3> QED BY <1>19, <3>3 DEF Coming
  <2>5. \A i \in DOMAIN replay'[c] : replay'[c][i] = listeners'[Mine'].next + i - 1
      BY <1>10, <1>11, <1>12, <1>13
  <2>6. listeners'[Mine'].next + Len(replay'[c]) = n + 1 /\ chats'[target'[c]].seq = n
    <3>1. listeners'[Mine'].next = from /\ Len(replay'[c]) = n + 1 - from BY <1>10, <1>11, <1>12, <1>13
    <3>2. from + (n + 1 - from) = n + 1 BY <1>4, <1>6
    <3>3. target'[c] = k BY <1>1, <1>3
    <3> QED BY <1>2, <1>5, <1>19, <3>1, <3>2, <3>3
  <2>7. \A e \in listeners'[Mine'].next + Len(replay'[c]) .. chats'[target'[c]].seq : ComingNew(target[c], e)'
      BY <1>4, <2>6
  <2>8. lock' = target'[c] /\ listeners'[Mine'].conn = c BY <1>1, <1>3, <1>10, <1>12
  <2> QED BY <1>12, <1>18, <2>2, <2>3, <2>4, <2>5, <2>7, <2>8 DEF Subscribed
<1> QED BY <1>18, <1>20 DEF Inv

\* An event of the log is replayed: the cursor moves over it.
LEMMA ReplayInv ==
    ASSUME Inv, NEW c \in Conns, Replay(c)
    PROVE  Inv'
<1> DEFINE k == entry
           d == chats[k]
           rep == replay[c]
           old == listeners[Mine]
           new == [old EXCEPT !.next = Head(rep) + 1]
<1>1. /\ pc[c] = "replay" /\ entry = target[c] /\ entry # 0
      /\ lock = target[c] /\ listeners # << >> /\ old.conn = c
      /\ \A j \in DOMAIN chats : Mine \notin chats[j].listeners \cup chats[j].telling
      /\ \A i \in DOMAIN rep : rep[i] = old.next + i - 1
      /\ \A e \in old.next + Len(rep) .. chats[k].seq : ComingNew(k, e)
    BY DEF Replay, Inv, Owned, Subscribed
<1>2. k \in DOMAIN chats /\ d \in ChatRec /\ chats \in Seq(ChatRec)
  <2>1. k \in DOMAIN chats BY <1>1 DEF Inv, Types
  <2> QED BY <2>1 DEF Inv, Types
<1>3. /\ rep # << >>
      /\ listeners' = [listeners EXCEPT ![Mine].next = Head(rep) + 1] /\ replay' = [replay EXCEPT ![c] = Tail(rep)]
      /\ UNCHANGED <<file, chats, entry, lock, gate, want, holder, reader, plan, lane, accepting, stopping, pc, then, target>>
    BY DEF Replay, Replayed, attachRest, gateVars, readVars, mainVars
<1>4. /\ listeners \in Seq(Cursor) /\ replay \in [Conns -> Seq(Nat)] /\ pc \in [Actors -> Places]
      /\ open \in [Conns -> BOOLEAN] BY DEF Inv, Types
<1>5. open' \in [Conns -> BOOLEAN] /\ \A x \in Conns : open'[x] => open[x]
    BY <1>4 DEF Replay, Write, Close
<1>6. Mine \in DOMAIN listeners /\ Mine = Len(listeners) BY <1>1, <1>4 DEF Mine
<1>7. old \in Cursor /\ old.next \in Nat \ {0}
  <2>1. old \in Cursor BY <1>4, <1>6
  <2> QED BY <2>1 DEF Cursor
<1>8. Prefix(file) \in Nat BY IntactPrefix DEF Inv, Logged
<1>9. rep \in Seq(Nat) /\ \A i \in DOMAIN rep : rep[i] <= Prefix(file) BY <1>4 DEF Inv, Logged
<1>10. /\ Tail(rep) \in Seq(Nat) /\ Len(Tail(rep)) = Len(rep) - 1 /\ Len(rep) \in Nat \ {0}
       /\ Head(rep) = old.next /\ Head(rep) <= Prefix(file)
       /\ \A i \in DOMAIN Tail(rep) : Tail(rep)[i] = old.next + 1 + i - 1 /\ Tail(rep)[i] <= Prefix(file)
  <2>1. /\ Tail(rep) \in Seq(Nat) /\ Len(Tail(rep)) = Len(rep) - 1 /\ Len(rep) \in Nat \ {0}
        /\ DOMAIN rep = 1 .. Len(rep) /\ DOMAIN Tail(rep) = 1 .. Len(rep) - 1
        /\ Head(rep) = rep[1] /\ 1 \in DOMAIN rep
        /\ \A i \in DOMAIN Tail(rep) : Tail(rep)[i] = rep[i + 1] /\ i + 1 \in DOMAIN rep
      BY <1>3, <1>9
  <2>2. rep[1] = old.next + 1 - 1 BY <1>1, <2>1
  <2>3. Head(rep) = old.next /\ Head(rep) <= Prefix(file) BY <1>7, <1>9, <2>1, <2>2
  <2>4. ASSUME NEW i \in DOMAIN Tail(rep)
        PROVE  Tail(rep)[i] = old.next + 1 + i - 1 /\ Tail(rep)[i] <= Prefix(file)
    <3>1. i \in Nat /\ Tail(rep)[i] = rep[i + 1] /\ i + 1 \in DOMAIN rep BY <2>1
    <3>2. rep[i + 1] = old.next + (i + 1) - 1 BY <1>1, <3>1
    <3> QED BY <1>7, <1>9, <3>1, <3>2
  <2> QED BY <2>1, <2>3, <2>4
<1>11. new \in Cursor /\ new.conn = c /\ new.next = old.next + 1
  <2>1. old \in Cursor /\ Head(rep) + 1 \in Nat \ {0} /\ Head(rep) = old.next /\ old.conn = c BY <1>1, <1>7, <1>10
  <2> HIDE DEF old, rep
  <2> QED BY <2>1 DEF Cursor
<1>12. listeners' = [listeners EXCEPT ![Mine] = new] BY <1>3
<1> HIDE DEF new, old, rep, d
<1>13. /\ listeners' \in Seq(Cursor) /\ Len(listeners') = Len(listeners) /\ DOMAIN listeners' = DOMAIN listeners
       /\ listeners'[Mine] = new /\ \A l \in DOMAIN listeners : l # Mine => listeners'[l] = listeners[l]
    BY <1>4, <1>6, <1>11, <1>12
<1>14. Mine' = Mine /\ listeners' # << >> BY <1>6, <1>13 DEF Mine
<1>15. replay' \in [Conns -> Seq(Nat)] /\ replay'[c] = Tail(rep) /\ \A x \in Conns : x # c => replay'[x] = replay[x]
    BY <1>3, <1>4, <1>10
<1>16. \A l \in DOMAIN listeners' : listeners'[l].next <= Prefix(file) + 1
  <2> SUFFICES ASSUME NEW l \in DOMAIN listeners PROVE listeners'[l].next <= Prefix(file) + 1 BY <1>13
  <2>1. CASE l = Mine
    <3>1. listeners'[l].next = old.next + 1 BY <1>11, <1>13, <2>1
    <3> QED BY <1>7, <1>8, <1>10, <3>1
  <2>2. CASE l # Mine BY <1>13, <2>2 DEF Inv, Logged
  <2> QED BY <2>1, <2>2
<1>17. \A x \in Conns : \A i \in DOMAIN replay'[x] : replay'[x][i] <= Prefix(file)
    BY <1>10, <1>15 DEF Inv, Logged
<1>18. \A j \in DOMAIN chats : \A l \in chats[j].listeners \cup chats[j].telling :
            l \in DOMAIN listeners /\ l # Mine /\ listeners'[l] = listeners[l]
    BY <1>1, <1>13 DEF Inv, Subscribed
<1>19. /\ Types' /\ Gated' /\ Closing' /\ Owned' /\ Awaited' /\ Logged' /\ Deserted'
       /\ pc'[c] = "replay" /\ \A x \in Conns \ {c} : pc'[x] # "replay"
  <2>1. Listed(d, entry) BY DEF Listed, d
  <2>2. chats' = [chats EXCEPT ![entry] = d] BY <1>2, <1>3 DEF d
  <2>3. pc' = [pc EXCEPT ![c] = "replay"] BY <1>1, <1>3, <1>4 DEF Actors
  <2>4. d.alone => d.listeners = {} BY <1>2 DEF Inv, Deserted, d
  <2>5. \A l \in d.listeners : reader[listeners'[l].conn] # "ended" BY <1>1, <1>2, <1>18 DEF Inv, Deserted, d
  <2>6. UNCHANGED <<file, entry, gate, want, holder, reader, plan, lane, accepting, stopping, then, target>> BY <1>3
  <2>7. pc[c] \in {"attach", "replay"} /\ d \in ChatRec BY <1>1, <1>2
  <2> QED BY <1>5, <1>13, <1>15, <1>16, <1>17, <2>1, <2>2, <2>3, <2>4, <2>5, <2>6, <2>7, ListParts
<1>20. Subscribed'
  <2>1. NoGap' BY <1>3, <1>18 DEF Inv, Subscribed, NoGap
  <2>2. \A i \in DOMAIN replay'[c] : replay'[c][i] = listeners'[Mine'].next + i - 1
      BY <1>10, <1>11, <1>13, <1>14, <1>15
  <2>3. listeners'[Mine'].next + Len(replay'[c]) = old.next + Len(rep)
    <3>1. listeners'[Mine'].next = old.next + 1 /\ Len(replay'[c]) = Len(rep) - 1 BY <1>10, <1>11, <1>13, <1>14, <1>15
    <3>2. old.next \in Nat /\ Len(rep) \in Nat BY <1>7, <1>10
    <3>3. (old.next + 1) + (Len(rep) - 1) = old.next + Len(rep) BY <3>2
    <3> QED BY <3>1, <3>3
  <2>4. \A e \in listeners'[Mine'].next + Len(replay'[c]) .. chats'[target'[c]].seq : ComingNew(target[c], e)'
      BY <1>1, <1>3, <2>3 DEF ComingNew, old, rep
  <2>5. listeners'[Mine'].conn = c BY <1>11, <1>13, <1>14
  <2>6. \A j \in DOMAIN chats' : chats'[j].listeners \cup chats'[j].telling \subseteq DOMAIN listeners'
      BY <1>3, <1>13, <1>18
  <2> QED BY <1>1, <1>3, <1>14, <1>19, <2>1, <2>2, <2>4, <2>5, <2>6 DEF Subscribed
<1> QED BY <1>19, <1>20 DEF Inv

\* The attach ends and the list is given back: with the new listener in it, who
\* misses nothing, or without the connection if it was closed meanwhile.
LEMMA AttachEndInv ==
    ASSUME Inv, NEW c \in Conns, AttachEnd(c)
    PROVE  Inv'
<1>1. /\ pc[c] = "replay" /\ entry = target[c] /\ entry # 0 /\ then[c] \in {"reply", "drop"}
      /\ listeners # << >> /\ listeners[Mine].conn = c
      /\ \A e \in listeners[Mine].next + Len(replay[c]) .. chats[entry].seq : ComingNew(entry, e)
    BY DEF AttachEnd, Inv, Owned, Subscribed
<1>2. entry \in DOMAIN chats /\ chats[entry] \in ChatRec
  <2>1. entry \in DOMAIN chats BY <1>1 DEF Inv, Types
  <2> QED BY <2>1 DEF Inv, Types
<1>3. /\ replay[c] = << >> \/ ~open[c]
      /\ lock' = 0 /\ replay' = [replay EXCEPT ![c] = << >>]
      /\ UNCHANGED <<file, listeners, entry, gate, want, holder, open, reader, plan, lane, accepting, stopping, then, target>>
    BY DEF AttachEnd, attachRest, gateVars, readVars, mainVars
<1>4. listeners \in Seq(Cursor) /\ replay \in [Conns -> Seq(Nat)] /\ open \in [Conns -> BOOLEAN] BY DEF Inv, Types
<1>5. Mine \in DOMAIN listeners BY <1>1, <1>4 DEF Mine
<1>6. replay' \in [Conns -> Seq(Nat)] /\ \A x \in Conns : replay'[x] = << >> \/ replay'[x] = replay[x]
  <2> DEFINE t == << >>
  <2>1. t \in Seq(Nat) /\ replay' = [replay EXCEPT ![c] = t] BY <1>3
  <2>2. t = << >> OBVIOUS
  <2> HIDE DEF t
  <2> QED BY <1>4, <2>1, <2>2
<1>7. \A x \in Conns : \A i \in DOMAIN replay'[x] : replay'[x][i] <= Prefix(file)
  <2>1. \A i \in DOMAIN << >> : FALSE OBVIOUS
  <2>2. \A x \in Conns : \A i \in DOMAIN replay[x] : replay[x][i] <= Prefix(file) BY DEF Inv, Logged
  <2> QED BY <1>6, <2>1, <2>2
<1>8. \E d \in ChatRec, p \in {"reply", "drop"} :
        /\ pc' = [pc EXCEPT ![c] = p] /\ chats' = [chats EXCEPT ![entry] = d] /\ Listed(d, entry)
        /\ d.alone => d.listeners = {}
        /\ \A l \in d.listeners : \/ l \in chats[entry].listeners
                                  \/ l = Mine /\ open[c]
  <2>1. CASE open[c]
    <3> DEFINE d == [chats[entry] EXCEPT !.listeners = chats[entry].listeners \cup {Mine}, !.alone = FALSE]
    <3>1. chats' = [chats EXCEPT ![entry] = d] /\ pc' = [pc EXCEPT ![c] = "reply"]
        BY <1>1, <2>1 DEF AttachEnd, Goto
    <3>2. Mine \in Nat BY <1>4 DEF Mine
    <3>3. d \in ChatRec /\ Listed(d, entry) /\ d.alone = FALSE /\ d.listeners = chats[entry].listeners \cup {Mine}
        BY <1>2, <3>2 DEF ChatRec, Listed
    <3> HIDE DEF d
    <3> QED BY <2>1, <3>1, <3>3
  <2>2. CASE ~open[c]
    <3> DEFINE d == Unlisten(entry, c)
    <3>1. /\ d \in ChatRec
          /\ d = [chats[entry] EXCEPT !.listeners = d.listeners, !.alone = d.alone]
          /\ d.listeners = {l \in chats[entry].listeners : listeners[l].conn # c}
          /\ d.alone = IF d.listeners = {} THEN TRUE ELSE chats[entry].alone
        BY <1>2, UnlistenType
    <3>2. chats' = [chats EXCEPT ![entry] = d] /\ pc' = [pc EXCEPT ![c] = then[c]] /\ then[c] \in {"reply", "drop"}
        BY <1>1, <2>2 DEF AttachEnd, Goto
    <3> HIDE DEF d
    <3>3. Listed(d, entry) BY <1>2, <3>1 DEF ChatRec, Listed
    <3>4. d.listeners \subseteq chats[entry].listeners BY <3>1
    <3>5. chats[entry].alone => chats[entry].listeners = {} BY <1>2 DEF Inv, Deserted
    <3>6. d.alone => d.listeners = {} BY <3>1, <3>4, <3>5
    <3> QED BY <3>1, <3>2, <3>3, <3>4, <3>6
  <2> QED BY <2>1, <2>2
<1>9. PICK d \in ChatRec, p \in {"reply", "drop"} :
        /\ pc' = [pc EXCEPT ![c] = p] /\ chats' = [chats EXCEPT ![entry] = d] /\ Listed(d, entry)
        /\ d.alone => d.listeners = {}
        /\ \A l \in d.listeners : \/ l \in chats[entry].listeners
                                  \/ l = Mine /\ open[c]
    BY <1>8
<1>10. \A l \in d.listeners : reader[listeners'[l].conn] # "ended"
  <2> SUFFICES ASSUME NEW l \in d.listeners PROVE reader[listeners[l].conn] # "ended" BY <1>3
  <2>1. CASE l \in chats[entry].listeners BY <1>1, <2>1 DEF Inv, Deserted
  <2>2. CASE l = Mine /\ open[c] BY <1>1, <2>2 DEF Inv, Deserted
  <2> QED BY <1>9, <2>1, <2>2
<1>11. /\ Types' /\ Gated' /\ Closing' /\ Owned' /\ Awaited' /\ Logged' /\ Deserted'
       /\ DOMAIN chats' = DOMAIN chats
       /\ chats'[entry] = d /\ \A j \in DOMAIN chats : j # entry => chats'[j] = chats[j]
       /\ pc'[c] = p /\ \A x \in Conns \ {c} : pc'[x] # "replay"
  <2>1. \A x \in Conns : open'[x] => open[x] BY <1>3
  <2>2. open' \in [Conns -> BOOLEAN] /\ listeners' \in Seq(Cursor) BY <1>3, <1>4
  <2>3. \A l \in DOMAIN listeners' : listeners'[l].next <= Prefix(file) + 1 BY <1>3 DEF Inv, Logged
  <2>4. UNCHANGED <<file, entry, gate, want, holder, reader, plan, lane, accepting, stopping, then, target>> BY <1>3
  <2>5. pc[c] \in {"attach", "replay"} BY <1>1
  <2>6. p \in {"replay", "reply", "drop"} OBVIOUS
  <2> QED BY <1>6, <1>7, <1>9, <1>10, <2>1, <2>2, <2>3, <2>4, <2>5, <2>6, ListParts
<1>12. Subscribed'
  <2>1. \A x \in Conns : pc'[x] # "replay" BY <1>11
  <2>2. \A j \in DOMAIN chats' : chats'[j].listeners \cup chats'[j].telling \subseteq DOMAIN listeners'
    <3> SUFFICES ASSUME NEW j \in DOMAIN chats
                 PROVE  chats'[j].listeners \cup chats'[j].telling \subseteq DOMAIN listeners
        BY <1>3, <1>11
    <3>1. CASE j = entry BY <1>5, <1>9, <1>11, <3>1 DEF Listed, Inv, Subscribed
    <3>2. CASE j # entry BY <1>11, <3>2 DEF Inv, Subscribed
    <3> QED BY <3>1, <3>2
  <2>3. NoGap'
    <3> SUFFICES ASSUME NEW j \in DOMAIN chats, NEW l \in chats'[j].listeners,
                        NEW e \in listeners[l].next .. chats'[j].seq
                 PROVE  Coming(j, l, e)'
        BY <1>3, <1>11 DEF NoGap, Coming
    <3>1. CASE l \in chats[j].listeners
      <4>1. /\ chats'[j].seq = chats[j].seq /\ chats'[j].todo = chats[j].todo /\ chats'[j].telling = chats[j].telling
          BY <1>9, <1>11 DEF Listed
      <4>2. Coming(j, l, e) BY <3>1, <4>1 DEF Inv, Subscribed, NoGap, Coming
      <4> QED BY <4>1, <4>2 DEF Coming
    <3>2. CASE l \notin chats[j].listeners
      <4>1. j = entry /\ l = Mine /\ open[c] BY <1>9, <1>11, <3>2
      <4>2. replay[c] = << >> /\ Len(replay[c]) = 0 BY <1>3, <4>1
      <4>3. /\ chats'[entry].seq = chats[entry].seq /\ chats'[entry].todo = chats[entry].todo /\ chats'[entry].telling = chats[entry].telling
          BY <1>9, <1>11 DEF Listed
      <4>4. listeners[Mine].next + 0 = listeners[Mine].next
        <5>1. listeners[Mine] \in Cursor BY <1>4, <1>5
        <5>2. listeners[Mine].next \in Nat BY <5>1 DEF Cursor
        <5> QED BY <5>2
      <4>5. ComingNew(entry, e) BY <1>1, <4>1, <4>2, <4>3, <4>4
      <4> QED BY <4>1, <4>3, <4>5 DEF Coming, ComingNew
    <3> QED BY <3>1, <3>2
  <2> QED BY <2>1, <2>2, <2>3 DEF Subscribed
<1> QED BY <1>11, <1>12 DEF Inv

-----------------------------------------------------------------------------
(* The invariant holds, and what the runs check follows from it. *)

\* At its start the daemon has no chat, no gate and nobody at work.
LEMMA InitInv == Init => Inv
<1> SUFFICES ASSUME Init PROVE Inv OBVIOUS
<1> DEFINE t == << >>
<1>0. Conns \subseteq Actors /\ {"sweep", "main"} \subseteq Actors \ Conns BY ConstantsAssumption DEF Actors
<1>1. /\ file = Empty /\ chats = t /\ listeners = t /\ entry = 0 /\ lock = 0 /\ gate = 0
      /\ want = [a \in Actors |-> 0] /\ holder = [g \in GateIds |-> "none"]
      /\ open = [c \in Conns |-> TRUE] /\ reader = [c \in Conns |-> "reading"] /\ plan \in Plans
      /\ lane = [c \in Conns |-> t] /\ accepting = TRUE /\ stopping = FALSE
      /\ pc = [a \in Actors |-> "idle"] /\ then = [a \in Actors |-> "reply"]
      /\ target = [a \in Actors |-> 0] /\ replay = [c \in Conns |-> t]
    BY DEF Init
<1>2. plan \in [Peers -> Seq(AllOps)] BY <1>1, ConstantsAssumption
<1>3. /\ t \in Seq(ChatRec) /\ t \in Seq(Cursor) /\ t \in Seq(AllOps) /\ t \in Seq(Nat)
      /\ DOMAIN t = {} /\ Len(t) = 0 /\ t = << >>
    OBVIOUS
<1> HIDE DEF t
<1>4. Types
  <2>1. chats \in Seq(ChatRec) /\ listeners \in Seq(Cursor) /\ entry \in 0 .. Len(chats) BY <1>1, <1>3
  <2>2. lane \in [Conns -> Seq(AllOps)] /\ replay \in [Conns -> Seq(Nat)] BY <1>1, <1>3
  <2>3. /\ gate \in GateIds \cup {0} /\ want \in [Actors -> GateIds \cup {0}]
        /\ holder \in [GateIds -> Actors \cup {"none"}] /\ open \in [Conns -> BOOLEAN]
        /\ reader \in [Conns -> {"reading", "draining", "closing", "ended"}]
        /\ accepting \in BOOLEAN /\ stopping \in BOOLEAN
      BY <1>1
  <2>4. /\ pc \in [Actors -> Places] /\ then \in [Actors -> {"reply", "drop", "probe"}]
        /\ target \in [Actors -> Nat]
      BY <1>1 DEF Places
  <2> QED BY <1>2, <2>1, <2>2, <2>3, <2>4 DEF Types
<1>5. Gated BY <1>0, <1>1 DEF Gated, Inside
<1>6. Closing BY <1>0, <1>1, <1>3 DEF Closing
<1>7. Owned BY <1>0, <1>1, <1>3 DEF Owned, Putting
<1>8. Awaited BY <1>1, <1>3 DEF Awaited
<1>9. Logged
  <2>1. file.lines = t /\ file.tail = t BY <1>1 DEF Empty, t
  <2>2. file = [lines |-> t, tail |-> t] BY <1>1 DEF Empty, t
  <2>3. file \in File
    <3>1. t \in Seq(Nat) /\ Len(t) <= 1 BY <1>3
    <3> QED BY <2>2, <3>1, FileIs
  <2>4. t = Ident(0)
    <3>1. Ident(0) = << >> BY DEF Ident
    <3> QED BY <1>3, <3>1
  <2>5. Intact(file) BY <1>3, <2>1, <2>4 DEF Intact
  <2> QED BY <1>1, <1>3, <2>3, <2>5 DEF Logged
<1>10. Subscribed BY <1>0, <1>1, <1>3 DEF Subscribed, NoGap
<1>11. Deserted BY <1>0, <1>1, <1>3 DEF Deserted, Putting
<1> QED BY <1>4, <1>5, <1>6, <1>7, <1>8, <1>9, <1>10, <1>11 DEF Inv

\* A step that changes nothing.
LEMMA StutterInv == Inv /\ UNCHANGED vars => Inv'
<1> SUFFICES ASSUME Inv, UNCHANGED vars PROVE Inv' OBVIOUS
<1>1. UNCHANGED <<file, chatVars, entry, lock, gateVars, taskVars, reader, plan, lane, open, accepting, stopping>>
    BY DEF vars, chatVars, gateVars, taskVars
<1>2. Gated' /\ Owned' /\ Awaited' /\ Logged' /\ Subscribed' BY <1>1, CalmParts
<1>3. UNCHANGED <<file, chats, listeners, entry, lock, gate, want, holder, pc, then, target, replay>>
    BY <1>1 DEF chatVars, gateVars, taskVars
<1>4. Types' BY <1>1, <1>3 DEF Inv, Types
<1>5. Closing' BY <1>1, <1>3 DEF Inv, Closing
<1>6. Deserted' BY <1>1, <1>3 DEF Inv, Deserted, Putting
<1> QED BY <1>2, <1>4, <1>5, <1>6 DEF Inv

\* Every step keeps the invariant.
LEMMA NextInv == Inv /\ [Next]_vars => Inv'
<1> SUFFICES ASSUME Inv, [Next]_vars PROVE Inv' OBVIOUS
<1>0. Conns \subseteq Actors /\ {"sweep", "main"} \subseteq Actors /\ Conns \subseteq Peers /\ "main" \in Peers
    BY DEF Actors, Peers
<1>1. ASSUME NEW c \in Conns, Submit(c) \/ Refuse(c) \/ SubmitShutdown(c) \/ Shutdown(c) \/ Hangup(c) PROVE Inv'
    BY <1>0, <1>1, ReaderInv
<1>2. ASSUME NEW c \in Conns, Forget(c) \/ Detach(c) PROVE Inv' BY <1>2, LeaveInv
<1>3. ASSUME NEW c \in Conns, Open(c) PROVE Inv'
  <2>1. CASE OpenWarm(c) BY <2>1, PostInv
  <2>2. CASE OpenStale(c) \/ Drop(c) BY <1>0, <2>2, TakersInv
  <2>3. CASE OpenCold(c) \/ ProbedLate(c) \/ AttachRefused(c) BY <1>0, <2>3, WorkInv
  <2>4. CASE Probed(c) BY <2>4, ProbedInv
  <2>5. CASE Attach(c) BY <2>5, AttachInv
  <2>6. CASE Replay(c) BY <2>6, ReplayInv
  <2>7. CASE AttachEnd(c) BY <2>7, AttachEndInv
  <2> QED BY <1>3, <2>1, <2>2, <2>3, <2>4, <2>5, <2>6, <2>7 DEF Open
<1>4. ASSUME NEW c \in Conns, Task(c) PROVE Inv'
  <2>1. CASE Skip(c) BY <1>0, <2>1, ReaderInv
  <2>2. CASE Begin(c) BY <1>0, <2>2, GateInv
  <2>3. CASE Reply(c) BY <1>0, <2>3, ReplyInv
  <2>4. CASE Missing(c) BY <1>0, <2>4, WorkInv
  <2>5. CASE Send(c) \/ Set(c) BY <2>5, PostInv
  <2>6. CASE Stop(c) BY <1>0, <2>6, TakersInv
  <2> QED BY <1>2, <1>3, <1>4, <2>1, <2>2, <2>3, <2>4, <2>5, <2>6 DEF Task
<1>5. ASSUME NEW a \in Actors, LockGate(a) \/ Shut(a) PROVE Inv'
    BY <1>5, GateInv, MarkInv, FarewellInv DEF Shut
<1>6. ASSUME NEW k \in DOMAIN chats, Thread(k) \/ Heard(k) PROVE Inv' BY <1>6, ThreadInv
<1>7. CASE Sweep
  <2>1. CASE SweepLook BY <1>0, <2>1, GateInv
  <2>2. CASE SweepPick BY <1>0, <2>2, TakersInv, WorkInv
  <2>3. CASE SweepDone BY <1>0, <2>3, ReplyInv
  <2> QED BY <1>7, <2>1, <2>2, <2>3 DEF Sweep
<1>8. CASE Signal \/ Signalled BY <1>0, <1>8, ReaderInv
<1>9. CASE ShutdownAll BY <1>0, <1>9, TakersInv, ShutdownNothing
<1>10. CASE UNCHANGED vars BY <1>10, StutterInv
<1> QED BY <1>1, <1>2, <1>4, <1>5, <1>6, <1>7, <1>8, <1>9, <1>10 DEF Next

\* The inductive invariant, in every state the daemon reaches.
LEMMA Kept == Spec => []Inv
<1>1. Init => Inv BY InitInv
<1>2. Inv /\ [Next]_vars => Inv' BY NextInv
<1> QED BY <1>1, <1>2, PTL DEF Spec

\* What the runs check of a state follows.
LEMMA Shown == Inv => LogKept /\ NoGap /\ ReapedAlone /\ NoneLeft /\ ExitsClean
<1> SUFFICES ASSUME Inv PROVE LogKept /\ NoGap /\ ReapedAlone /\ NoneLeft /\ ExitsClean OBVIOUS
<1>0. Conns \subseteq Actors /\ {"sweep", "main"} \subseteq Actors \ Conns BY ConstantsAssumption DEF Actors
<1>1. LogKept BY IntactPrefix DEF Inv, Logged, LogKept
<1>2. NoGap BY DEF Inv, Subscribed
<1>3. ReapedAlone
  <2> SUFFICES ASSUME NEW k \in DOMAIN chats, Putting("sweep"), target["sweep"] = k, chats[k].status # "stopped"
               PROVE  chats[k].listeners = {} /\ chats[k].acks = {}
      BY DEF ReapedAlone, Putting
  <2>1. entry = 0 BY <1>0 DEF Inv, Owned
  <2>2. k # 0 BY DEF Inv, Types
  <2>3. chats[k].acks = {} BY <2>1, <2>2 DEF Inv, Awaited
  <2>4. chats[k].listeners = {} BY DEF Inv, Deserted
  <2> QED BY <2>3, <2>4
<1>4. NoneLeft BY DEF Inv, Deserted, NoneLeft
<1>5. ExitsClean
  <2> SUFFICES ASSUME Exited
               PROVE  /\ Active = {}
                      /\ \A k \in DOMAIN chats : Up(k) => target["sweep"] = k /\ pc["sweep"] \in {"mark", "join"}
      BY DEF ExitsClean
  <2>1. pc["main"] = "reply" /\ stopping /\ entry = 0 BY DEF Exited, Inv, Closing
  <2>2. \A c \in Conns : lane[c] = << >> /\ pc[c] = "idle" BY <2>1 DEF Inv, Closing
  <2>3. ASSUME NEW k \in DOMAIN chats, Up(k) PROVE target["sweep"] = k /\ pc["sweep"] \in {"mark", "join"}
    <3>1. k # entry BY <2>1 DEF Inv, Types
    <3>2. PICK a \in Actors : Putting(a) /\ target[a] = k BY <2>3, <3>1 DEF Inv, Owned
    <3>3. a \notin Conns /\ a # "main" BY <2>1, <2>2, <3>2 DEF Putting
    <3> QED BY <3>2, <3>3 DEF Putting, Actors
  <2> QED BY <2>2, <2>3 DEF Active
<1> QED BY <1>1, <1>2, <1>3, <1>4, <1>5

\* Registry::with_lifecycle and Live::shut: a session never has two chats that
\* are up, however opens, stops, sweeps and the end of the daemon interleave.
THEOREM OneAtATime == Spec => []OneConductor
<1>1. Inv => OneConductor BY OnlyOneUp
<1> QED BY <1>1, Kept, PTL

\* Appender::append and repair_tail: wherever a write stops, the log is read to
\* its end, and every event a listener was given is in it.
THEOREM LogReadable == Spec => []LogKept
<1>1. Inv => LogKept BY Shown
<1> QED BY <1>1, Kept, PTL

\* Live::attach: an event in the log that a listener has not had is still to be
\* published to it.
THEOREM NothingMissed == Spec => []NoGap
<1>1. Inv => NoGap BY Shown
<1> QED BY <1>1, Kept, PTL

\* Registry::reap: a chat that the sweep puts down while it is up has nobody
\* listening and nobody waiting.
THEOREM SweptAlone == Spec => []ReapedAlone
<1>1. Inv => ReapedAlone BY Shown
<1> QED BY <1>1, Kept, PTL

\* Registry::forget and Live::attach: a connection that was forgotten listens to
\* nothing, although an attach may have been in progress when it closed.
THEOREM ForgottenListens == Spec => []NoneLeft
<1>1. Inv => NoneLeft BY Shown
<1> QED BY <1>1, Kept, PTL

\* run, close_and_wait and Registry::shutdown: when the daemon exits every
\* request has been served, and only a chat that the sweep is putting down is up.
THEOREM CleanExit == Spec => []ExitsClean
<1>1. Inv => ExitsClean BY Shown
<1> QED BY <1>1, Kept, PTL

-----------------------------------------------------------------------------
(* Types. *)

\* What of the types the invariant has no use for.
Spare ==
    /\ faults \in 0 .. MaxFaults
    /\ gone \in [Conns -> BOOLEAN]
    /\ lock \in 0 .. Len(chats)
    /\ target \in [Actors -> 0 .. Len(chats)]

\* Chats are never forgotten: their list only grows.
LEMMA StillThere ==
    ASSUME Inv, NEW i, NEW d, chats' = [chats EXCEPT ![i] = d] \/ chats' = chats
    PROVE  Len(chats') = Len(chats)
BY DEF Inv, Types

\* Failed writes are counted to their bound, and the lock of a listener list
\* names a chat.
LEMMA SpareNext == Inv /\ Spare /\ [Next]_vars => Spare'
<1> SUFFICES ASSUME Inv, Spare, [Next]_vars PROVE Spare' OBVIOUS
<1> DEFINE Aims == target' = target \/ \E a \in Actors, e \in 0 .. Len(chats) : target' = [target EXCEPT ![a] = e]
           Same == UNCHANGED <<faults, gone>> /\ (lock' = lock \/ lock' = 0 \/ lock' = entry)
           There == Len(chats') = Len(chats)
<1>0. Len(chats) \in Nat /\ entry \in 0 .. Len(chats) /\ MaxFaults \in Nat
    BY ConstantsAssumption DEF Inv, Types
<1>1. ASSUME Same, There, Aims PROVE Spare'
  <2>1. target' \in [Actors -> 0 .. Len(chats)] BY <1>1 DEF Spare
  <2> QED BY <1>0, <1>1, <2>1 DEF Spare
<1>2. ASSUME UNCHANGED <<faults, gone, lock, chats>>, Aims PROVE Spare' BY <1>1, <1>2
<1>all. Conns \subseteq Actors /\ {"sweep", "main"} \subseteq Actors BY DEF Actors
<1>aim. /\ \A c \in Conns : target[c] \in 0 .. Len(chats)
      /\ 0 \in 0 .. Len(chats)
    BY <1>0, <1>all DEF Spare
<1>3. ASSUME NEW c \in Conns, Submit(c) \/ Refuse(c) \/ SubmitShutdown(c) \/ Shutdown(c) \/ Hangup(c) PROVE Spare'
  <2>1. UNCHANGED <<faults, gone, lock, chats, target>>
      BY <1>3 DEF Submit, Refuse, SubmitShutdown, Shutdown, Hangup, chatVars, wireVars, taskVars
  <2> QED BY <1>2, <2>1
<1>4. ASSUME NEW c \in Conns, Forget(c) \/ Detach(c) PROVE Spare'
  <2>1. /\ chats' = chats \/ chats' = [chats EXCEPT ![entry] = Unlisten(entry, c)]
        /\ UNCHANGED <<faults, gone, lock, target>>
      BY <1>4 DEF Forget, Detach, taskRest, wireVars, taskVars
  <2>2. There BY <2>1, StillThere
  <2> QED BY <1>1, <2>1, <2>2
<1>5. ASSUME NEW c \in Conns, Skip(c) \/ Begin(c) \/ Reply(c) \/ Missing(c) \/ Stop(c) PROVE Spare'
  <2>1. UNCHANGED <<faults, gone, lock, chats>>
      BY <1>5 DEF Skip, Begin, Reply, Missing, Stop, taskRest, chatVars, wireVars
  <2>2. target' = target \/ target' = [target EXCEPT ![c] = 0] \/ target' = [target EXCEPT ![c] = entry]
      BY <1>5 DEF Skip, Begin, Reply, Missing, Stop, TakeOut, taskVars
  <2>3. Aims BY <1>0, <1>all, <1>aim, <2>2
  <2> QED BY <1>2, <2>1, <2>3
<1>6. ASSUME NEW c \in Conns, Send(c) \/ Set(c) \/ OpenWarm(c) PROVE Spare'
  <2>1. UNCHANGED <<faults, gone, lock>> BY <1>6 DEF Send, Set, OpenWarm, taskRest, wireVars
  <2>2. \E d : chats' = [chats EXCEPT ![entry] = d] BY <1>6 DEF Send, Set, OpenWarm, Configure
  <2>3. There BY <2>2, StillThere
  <2>4. target' = target \/ target' = [target EXCEPT ![c] = entry] BY <1>6 DEF Send, Set, OpenWarm
  <2>5. Aims BY <1>0, <1>all, <2>4
  <2> QED BY <1>1, <2>1, <2>3, <2>5
<1>7. ASSUME NEW c \in Conns, OpenStale(c) \/ OpenCold(c) \/ ProbedLate(c) \/ Drop(c) \/ AttachRefused(c) \/ Replay(c)
      PROVE  Spare'
  <2>1. UNCHANGED <<faults, gone, lock, chats>>
      BY <1>7 DEF OpenStale, OpenCold, ProbedLate, Drop, AttachRefused, Replay, taskRest, attachRest, chatVars, wireVars
  <2>2. target' = target \/ target' = [target EXCEPT ![c] = entry] \/ target' = [target EXCEPT ![c] = target[c]]
      BY <1>7 DEF OpenStale, OpenCold, ProbedLate, Drop, AttachRefused, Replay, TakeOut, attachRest
  <2>3. Aims BY <1>0, <1>all, <1>aim, <2>2
  <2> QED BY <1>2, <2>1, <2>3
<1>8. ASSUME NEW c \in Conns, Probed(c) PROVE Spare'
  <2>1. UNCHANGED <<gone, lock>> BY <1>8 DEF Probed, wireVars
  <2>2. faults' = faults \/ (faults < MaxFaults /\ faults' = faults + 1) BY <1>8 DEF Probed, Loaded, Unloaded
  <2>3. PICK d \in ChatRec : chats' = Append(chats, d) BY <1>8, FreshChat DEF Probed
  <2>4. Len(chats') = Len(chats) + 1 BY <2>3 DEF Inv, Types
  <2>5. target' = [target EXCEPT ![c] = Len(chats) + 1] BY <1>8 DEF Probed
  <2>6. target' \in [Actors -> 0 .. Len(chats) + 1]
    <3>1. \A n \in 0 .. Len(chats) : n \in 0 .. Len(chats) + 1 BY <1>0
    <3>2. target \in [Actors -> 0 .. Len(chats) + 1] BY <3>1 DEF Spare
    <3>3. Len(chats) + 1 \in 0 .. Len(chats) + 1 BY <1>0
    <3> QED BY <1>all, <2>5, <3>2, <3>3
  <2> QED BY <1>0, <2>1, <2>2, <2>4, <2>6 DEF Spare
<1>9. ASSUME NEW c \in Conns, Attach(c) PROVE Spare'
  <2>1. lock' = entry /\ UNCHANGED <<faults, gone, target>> BY <1>9 DEF Attach, attachRest, Inv, Owned
  <2>2. \E d : chats' = [chats EXCEPT ![target[c]] = d] BY <1>9 DEF Attach
  <2>3. There BY <2>2, StillThere
  <2> QED BY <1>1, <2>1, <2>3
<1>10. ASSUME NEW c \in Conns, AttachEnd(c) PROVE Spare'
  <2>1. lock' = 0 /\ UNCHANGED <<faults, gone, target>> BY <1>10 DEF AttachEnd, attachRest
  <2>2. \E d : chats' = [chats EXCEPT ![target[c]] = d] BY <1>10 DEF AttachEnd
  <2>3. There BY <2>2, StillThere
  <2> QED BY <1>1, <2>1, <2>3
<1>11. ASSUME NEW a \in Actors, LockGate(a) PROVE Spare'
  <2>1. UNCHANGED <<faults, gone, lock, chats, target>> BY <1>11 DEF LockGate, chatVars, wireVars
  <2> QED BY <1>2, <2>1
<1>12. ASSUME NEW a \in Actors, Mark(a) PROVE Spare'
  <2>1. UNCHANGED <<faults, gone, lock, target>> BY <1>12 DEF Mark, shutRest, wireVars
  <2>2. chats' = chats \/ \E d : chats' = [chats EXCEPT ![target[a]] = d] BY <1>12 DEF Mark
  <2>3. There BY <2>2, StillThere
  <2> QED BY <1>1, <2>1, <2>3
<1>13. ASSUME NEW a \in Actors, Farewell(a) PROVE Spare'
  <2>1. UNCHANGED <<faults, lock, chats, target>> BY <1>13 DEF Farewell, shutRest
  <2>2. gone' \in [Conns -> BOOLEAN] BY <1>13 DEF Farewell
  <2> QED BY <2>1, <2>2 DEF Spare
<1>14. ASSUME NEW k \in DOMAIN chats, Thread(k) \/ Heard(k) PROVE Spare'
  <2>1. PICK ch \in ChatRec : ChatStep(k, ch) /\ Becomes(k, ch) BY <1>14, ThreadStep
  <2>2. UNCHANGED <<gone, lock, target>> BY <1>14, ThreadStep DEF chatRest
  <2>3. \E d : chats' = [chats EXCEPT ![k] = d] BY <2>1 DEF Becomes
  <2>4. There BY <2>3, StillThere
  <2>5. faults' = faults \/ (faults < MaxFaults /\ faults' = faults + 1)
      BY <1>14 DEF Thread, Handle, Heard, Halt, Copy, Deliver, Logs, Fails
  <2> QED BY <1>0, <2>2, <2>4, <2>5 DEF Spare
<1>15. CASE Sweep \/ Signal \/ Signalled \/ ShutdownAll
  <2>1. UNCHANGED <<faults, gone, lock, chats>>
      BY <1>15 DEF Sweep, SweepLook, SweepPick, SweepDone, Signal, Signalled, ShutdownAll, taskRest, mainRest, chatVars, wireVars
  <2>2. \/ target' = target
        \/ \E a \in {"sweep", "main"} : target' = [target EXCEPT ![a] = entry] \/ target' = [target EXCEPT ![a] = 0]
      BY <1>15 DEF Sweep, SweepLook, SweepPick, SweepDone, Signal, Signalled, ShutdownAll, TakeOut
  <2>3. Aims BY <1>0, <1>all, <1>aim, <2>2
  <2> QED BY <1>2, <2>1, <2>3
<1>16. CASE UNCHANGED vars
  <2>1. UNCHANGED <<faults, gone, lock, chats, target>> BY <1>16 DEF vars
  <2> QED BY <1>2, <2>1
<1>17. ASSUME NEW c \in Conns, Task(c) PROVE Spare'
    BY <1>4, <1>5, <1>6, <1>7, <1>8, <1>9, <1>10, <1>17 DEF Task, Open
<1> QED BY <1>3, <1>4, <1>11, <1>12, <1>13, <1>14, <1>15, <1>16, <1>17 DEF Next, Shut

\* Every variable keeps its type, and what a chat refers to is there: the
\* cursors of its listeners and of whom it is telling, and the chat in the map.
THEOREM TypesKept == Spec => []TypeOK
<1>1. Init => Spare
  <2> SUFFICES ASSUME Init PROVE Spare OBVIOUS
  <2>1. MaxFaults \in Nat BY ConstantsAssumption
  <2>2. faults = 0 /\ gone = [c \in Conns |-> FALSE] /\ lock = 0 /\ Len(chats) = 0
        /\ target = [a \in Actors |-> 0]
      BY DEF Init
  <2> QED BY <2>1, <2>2 DEF Spare
<1>2. Inv /\ Spare => TypeOK
  <2> SUFFICES ASSUME Inv, Spare PROVE TypeOK OBVIOUS
  <2> DEFINE D == DOMAIN listeners
             Rec == [status : {"waiting", "busy", "stopped"}, ended : BOOLEAN,
                     inbox : Seq([op : {"settings", "launch", "configure", "send", "stop"},
                                  conn : Conns \cup {"none"}]),
                     todo : Seq(Nat), telling : SUBSET D,
                     acks : SUBSET Conns, seq : Nat, owns : BOOLEAN,
                     listeners : SUBSET D, alone : BOOLEAN, stopping : BOOLEAN]
  <2>1. chats \in Seq(Rec)
    <3>1. chats \in Seq(ChatRec) BY DEF Inv, Types
    <3>2. \A k \in DOMAIN chats : chats[k] \in Rec
      <4> SUFFICES ASSUME NEW k \in DOMAIN chats PROVE chats[k] \in Rec OBVIOUS
      <4>1. chats[k] \in ChatRec BY <3>1
      <4>2. chats[k].listeners \subseteq D /\ chats[k].telling \subseteq D BY DEF Inv, Subscribed
      <4> HIDE DEF D
      <4> QED BY <4>1, <4>2 DEF ChatRec
    <3> HIDE DEF Rec
    <3> QED BY <3>1, <3>2
  <2>2. listeners \in Seq([conn : Conns, next : Nat])
    <3> DEFINE R == [conn : Conns, next : Nat]
    <3>1. listeners \in Seq(Cursor) BY DEF Inv, Types
    <3>2. \A l \in DOMAIN listeners : listeners[l] \in R
      <4> SUFFICES ASSUME NEW l \in DOMAIN listeners PROVE listeners[l] \in R OBVIOUS
      <4>1. listeners[l] \in Cursor BY <3>1
      <4> QED BY <4>1 DEF Cursor
    <3> HIDE DEF R
    <3>3. listeners \in Seq(R) BY <3>1, <3>2
    <3> QED BY <3>3 DEF R
  <2>3. target \in [Actors -> 0 .. Len(chats)] BY DEF Spare
  <2>4. Cardinality(Actors) \in Nat
    <3>1. IsFiniteSet({"sweep", "main"})
      <4>1. IsFiniteSet({"sweep"} \cup {"main"}) BY FS_Singleton, FS_AddElement
      <4>2. {"sweep", "main"} = {"sweep"} \cup {"main"} OBVIOUS
      <4> QED BY <4>1, <4>2
    <3>2. IsFiniteSet(Actors) BY <3>1, ConstantsAssumption, FS_Union DEF Actors
    <3> QED BY <3>2, FS_CardinalityType
  <2>5. GateIds \cup {0} = 0 .. Cardinality(Actors) BY <2>4 DEF GateIds
  <2>6. file \in File BY DEF Inv, Logged
  <2> QED BY <2>1, <2>2, <2>3, <2>5, <2>6 DEF TypeOK, Inv, Types, Spare, Places
<1>3. Inv /\ Spare /\ [Next]_vars => Spare' BY SpareNext
<1> QED BY <1>1, <1>2, <1>3, Kept, PTL DEF Spec
=============================================================================
