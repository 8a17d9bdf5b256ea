---------------------------- MODULE ClientProofs ----------------------------
(***************************************************************************)
(* Proofs about Startup and Client.  That a daemon which serves is at the  *)
(* path of the socket follows from two facts that carry each other: who is *)
(* past lock_daemon holds the lock on omnid.pid, and who serves has bound  *)
(* the path.  Only who holds the lock removes or binds it, so nobody else  *)
(* can take it away.                                                       *)
(*                                                                         *)
(* That events are handed out in order follows from where the events of an *)
(* attachment are on their way: in the channel of the subscription, then   *)
(* on the wire, each one more than the last, from what was seen on and,    *)
(* while the attachment is on, to the last that was published (Flow).      *)
(* This holds of the attachment of a Chat, of the one that is being        *)
(* served, and of one that an answer on its way tells of, so that it holds *)
(* when the answer arrives.  Calls and answers find each other by their    *)
(* ids, attachments by the order in which they were served.                *)
(*                                                                         *)
(* That daemon and client agree on who listens follows from one thread     *)
(* at a time having the session or opening it (OneHas), from every id      *)
(* being in one place on its way to the daemon and back (Once), and from   *)
(* a detach standing in front of any open (Behind), for as long as the     *)
(* connection works and no open was given up (Steady).                     *)
(***************************************************************************)
EXTENDS Client, TLAPS, SequenceTheorems

\* A daemon past lock_daemon, until it exits.
Held == {"locked", "clearing", "claimed", "serving", "closing", "unlinked"}

LockHeld == \A d \in Programs : daemon[d] \in Held => lock = d
PathHeld == \A d \in Programs : daemon[d] \in {"serving", "closing"} => path = d
Single == StartupTypeOK /\ LockHeld /\ PathHeld

-----------------------------------------------------------------------------
(* What programs and daemons do with lock and path. *)

\* One step of a daemon of run in omni-daemon/src/main.rs: lock_daemon, claim,
\* bind, unlink and the exit keep lock and path with who serves.
LEMMA DaemonStepSingle ==
    ASSUME Single, NEW d \in Programs, DaemonStep(d)
    PROVE  Single'
<1> USE StartupAssumption DEF progRest, DaemonGoes, Single, StartupTypeOK
<1>1. CASE LockDaemon(d)
    BY <1>1 DEF LockDaemon, Free, LockHeld, PathHeld, Held
<1>2. CASE Claim(d)
    BY <1>2 DEF Claim, Claimed, LockHeld, PathHeld, Held
<1>3. CASE Clear(d)
    BY <1>3 DEF Clear, LockHeld, PathHeld, Held
<1>4. CASE Bind(d)
    BY <1>4 DEF Bind, LockHeld, PathHeld, Held
<1>5. CASE Unlink(d)
    BY <1>5 DEF Unlink, LockHeld, PathHeld, Held
<1>6. CASE Exit(d)
    BY <1>6 DEF Exit, LockHeld, PathHeld, Held
<1> QED BY <1>1, <1>2, <1>3, <1>4, <1>5, <1>6 DEF DaemonStep

\* A daemon that is killed leaves its socket at the path and gives up the lock.
LEMMA CrashSingle ==
    ASSUME Single, NEW d \in Programs, Crash(d)
    PROVE  Single'
BY StartupAssumption
   DEF Crash, Waiting, DaemonGoes, Single, StartupTypeOK, LockHeld, PathHeld, Held

\* Nothing a program does in ensure_daemon and connect_to touches lock or path:
\* it starts a daemon, or it tells one that serves to close.
LEMMA ProgramSingle ==
    ASSUME Single, NEW p \in Programs,
           ProgramStep(p) \/ StartupTimeout(p) \/ AskShutdown(p)
    PROVE  Single'
<1> USE StartupAssumption DEF homeVars, ProgramGoes, DaemonGoes, Single, StartupTypeOK
<1>1. CASE Look(p)
    BY <1>1 DEF Look, LockHeld, PathHeld, Held
<1>2. CASE Poll(p) \/ StartupTimeout(p)
    BY <1>2 DEF Poll, StartupTimeout, LockHeld, PathHeld, Held
<1>3. CASE Connect(p)
    BY <1>3 DEF Connect, Reachable, Listening, LockHeld, PathHeld, Held
<1>4. CASE Greet(p)
    BY <1>4 DEF Greet, LockHeld, PathHeld, Held
<1>5. CASE AskShutdown(p)
    BY <1>5 DEF AskShutdown, Waiting, LockHeld, PathHeld, Held
<1> QED BY <1>1, <1>2, <1>3, <1>4, <1>5 DEF ProgramStep

-----------------------------------------------------------------------------
(* The specification of the start. *)

\* Nobody serves yet, or the program's own daemon does.
LEMMA InitSingle == Init => Single
<1> SUFFICES ASSUME Init PROVE Single OBVIOUS
<1> USE StartupAssumption, ClientAssumption DEF Single, StartupTypeOK, LockHeld, PathHeld, Held
<1>1. CASE StartupWarm BY <1>1 DEF StartupWarm
<1>2. CASE StartupInit BY <1>2 DEF StartupInit
<1> QED BY <1>1, <1>2 DEF Init

\* What happens on a connection leaves lock, path and daemons alone.
LEMMA NextSingle == Single /\ [Next]_vars => Single'
<1> SUFFICES ASSUME Single, [Next]_vars PROVE Single' OBVIOUS
<1>1. CASE StartupNext
    BY <1>1, DaemonStepSingle, CrashSingle, ProgramSingle DEF StartupNext
<1>2. CASE UNCHANGED startVars
    BY <1>2 DEF startVars, Single, StartupTypeOK, LockHeld, PathHeld
<1> QED BY <1>1, <1>2 DEF Next, vars

\* A daemon that serves can be reached, and is the only one, however many
\* programs start daemons at the same time, however these are killed or shut
\* down, and whatever socket an earlier daemon has left: lock_daemon, claim and
\* run of omni-daemon/src/main.rs against ensure_daemon of the client.
THEOREM ServingIsReachable == Spec => []DaemonReachable
<1>1. Single => DaemonReachable BY DEF Single, PathHeld, DaemonReachable
<1> QED BY <1>1, InitSingle, NextSingle, PTL DEF Spec

-----------------------------------------------------------------------------
(* The events of one attachment. *)

Frames == [kind : {"event", "gone"}, id : {-1}, seq : Int, attach : Nat]
Replies == [kind : {"reply"}, id : Nat, ok : BOOLEAN, seq : Int, attach : Nat]
Refusals == [ok : {FALSE}]
Requests == [op : {"none", "open", "detach", "stop"} \cup Plain, id : Nat, since : Int]

\* Where in a sequence of frames the events of attachment a are, and which.
Of(s, a) == {i \in DOMAIN s : s[i].kind = "event" /\ s[i].attach = a}
Seqs(s, a) == {s[i].seq : i \in Of(s, a)}
Rising(s, a) == \A i, j \in Of(s, a) : i < j => s[i].seq < s[j].seq

\* Frames q that were read and frames r that are still to be read, of an
\* attachment that needs no event up to lo any more, and that is behind those in
\* h; if it is on, event n is the next that it will be sent, and none before that
\* is missing.
Flow(q, r, a, lo, h, n, on) ==
    /\ Rising(q, a) /\ Rising(r, a)
    /\ \A x \in Seqs(q, a), y \in Seqs(r, a) : x < y
    /\ \A x \in Seqs(q, a) \cup Seqs(r, a) :
          /\ \A k \in h : k < x
          /\ x <= lo + 1 \/ x - 1 \in Seqs(q, a) \cup Seqs(r, a)
    /\ on => /\ \A x \in h \cup Seqs(q, a) \cup Seqs(r, a) : x < n
             /\ n - 1 <= lo \/ n - 1 \in Seqs(q, a) \cup Seqs(r, a)

Wire == Frames \cup Replies

\* What is appended to a sequence of frames, taken off it, or cut off.
LEMMA SeqsAppend ==
    ASSUME NEW s \in Seq(Wire), NEW m \in Wire, NEW a
    PROVE  LET t == Append(s, m)
               mine == m.kind = "event" /\ m.attach = a
           IN  /\ ~mine => Seqs(t, a) = Seqs(s, a) /\ (Rising(s, a) => Rising(t, a))
               /\ mine => /\ Seqs(t, a) = Seqs(s, a) \cup {m.seq}
                          /\ Rising(s, a) /\ (\A x \in Seqs(s, a) : x < m.seq) => Rising(t, a)
  <1> DEFINE t == Append(s, m)
             mine == m.kind = "event" /\ m.attach = a
  <1>1. /\ t \in Seq(Wire) /\ Len(t) = Len(s) + 1 /\ t[Len(s) + 1] = m /\ Len(s) \in Nat
        /\ \A i \in 1 .. Len(s) : t[i] = s[i]
    BY AppendProperties
  <1>2. DOMAIN s = 1 .. Len(s) /\ DOMAIN t = 1 .. Len(s) + 1
    BY <1>1
  <1>3. Of(t, a) = Of(s, a) \cup (IF mine THEN {Len(s) + 1} ELSE {})
    BY <1>1, <1>2 DEF Of
  <1>4. \A i \in Of(s, a) : i \in 1 .. Len(s) /\ t[i] = s[i]
    BY <1>1, <1>2 DEF Of
  <1>5. CASE ~mine
    BY <1>3, <1>4, <1>5 DEF Seqs, Rising
  <1>6. CASE mine
    <2>1. Seqs(t, a) = Seqs(s, a) \cup {m.seq}
      BY <1>1, <1>3, <1>4, <1>6 DEF Seqs
    <2>2. ASSUME Rising(s, a), \A x \in Seqs(s, a) : x < m.seq,
                 NEW i \in Of(t, a), NEW j \in Of(t, a), i < j
          PROVE  t[i].seq < t[j].seq
      <3>1. i \in Of(s, a)
        BY <1>1, <1>3, <1>4, <1>6, <2>2
      <3>2. CASE j \in Of(s, a)
        BY <1>4, <2>2, <3>1, <3>2 DEF Rising
      <3>3. CASE j = Len(s) + 1
        BY <1>1, <1>4, <2>2, <3>1, <3>3 DEF Seqs
      <3> QED BY <1>3, <1>6, <3>2, <3>3
    <2> QED BY <1>6, <2>1, <2>2 DEF Rising
  <1> QED BY <1>5, <1>6

\* What is taken off the front of one is the least of its attachment.
LEMMA SeqsTail ==
    ASSUME NEW s \in Seq(Wire), s # << >>, NEW a
    PROVE  LET m == Head(s)
               mine == m.kind = "event" /\ m.attach = a
           IN  /\ m \in Wire /\ Tail(s) \in Seq(Wire)
               /\ Rising(s, a) => Rising(Tail(s), a)
               /\ ~mine => Seqs(Tail(s), a) = Seqs(s, a)
               /\ mine => /\ Seqs(s, a) = Seqs(Tail(s), a) \cup {m.seq}
                          /\ Rising(s, a) => \A x \in Seqs(Tail(s), a) : m.seq < x
  <1> DEFINE m == Head(s)
             t == Tail(s)
             mine == m.kind = "event" /\ m.attach = a
  <1>1. /\ m \in Wire /\ t \in Seq(Wire) /\ Len(s) \in Nat \ {0} /\ m = s[1]
        /\ Len(t) = Len(s) - 1 /\ \A i \in 1 .. Len(t) : t[i] = s[i + 1]
    BY HeadTailProperties, EmptySeq
  <1>2. DOMAIN s = 1 .. Len(s) /\ DOMAIN t = 1 .. Len(s) - 1
    BY <1>1
  <1>3. \A i \in Of(t, a) : i + 1 \in Of(s, a) /\ i \in 1 .. Len(s) - 1 /\ t[i] = s[i + 1]
    BY <1>1, <1>2 DEF Of
  <1>4. \A i \in Of(s, a) : (i = 1 /\ mine)
                            \/ (i - 1 \in Of(t, a) /\ t[i - 1] = s[i] /\ i \in 2 .. Len(s))
    <2> SUFFICES ASSUME NEW i \in Of(s, a), i # 1
                 PROVE  i - 1 \in Of(t, a) /\ t[i - 1] = s[i] /\ i \in 2 .. Len(s)
      BY <1>1 DEF Of
    <2>1. i - 1 \in 1 .. Len(t) /\ (i - 1) + 1 = i
      BY <1>1, <1>2 DEF Of
    <2> QED BY <1>1, <1>2, <2>1 DEF Of
  <1>5. Rising(s, a) => Rising(t, a)
    BY <1>3 DEF Rising
  <1>6. mine => 1 \in Of(s, a)
    BY <1>1, <1>2 DEF Of
  <1>7. Seqs(t, a) \subseteq Seqs(s, a)
    BY <1>3 DEF Seqs
  <1>8. \A x \in Seqs(s, a) : x \in Seqs(t, a) \/ (mine /\ x = m.seq)
    BY <1>1, <1>4 DEF Seqs
  <1>9. mine /\ Rising(s, a) => \A x \in Seqs(t, a) : m.seq < x
    BY <1>1, <1>3, <1>6 DEF Seqs, Rising
  <1>10. mine => m.seq \in Seqs(s, a)
    BY <1>1, <1>6 DEF Seqs
  <1> QED BY <1>1, <1>5, <1>7, <1>8, <1>9, <1>10

\* A prefix has, of an attachment, the least of its events.
LEMMA SeqsPrefix ==
    ASSUME NEW s \in Seq(Wire), NEW n \in 0 .. Len(s), NEW a, Rising(s, a)
    PROVE  LET t == SubSeq(s, 1, n)
           IN  /\ Rising(t, a) /\ Seqs(t, a) \subseteq Seqs(s, a)
               /\ \A x \in Seqs(t, a), y \in Seqs(s, a) : y < x => y \in Seqs(t, a)
  <1> DEFINE t == SubSeq(s, 1, n)
  <1>1. Len(s) \in Nat /\ DOMAIN s = 1 .. Len(s) /\ n \in Nat /\ n <= Len(s)
    OBVIOUS
  <1>2. Len(t) = n /\ DOMAIN t = 1 .. n /\ \A i \in 1 .. n : t[i] = s[i]
    BY <1>1, SubSeqProperties
  <1>3. Of(t, a) = {i \in Of(s, a) : i <= n} /\ \A i \in Of(t, a) : t[i] = s[i]
    BY <1>1, <1>2 DEF Of
  <1>4. \A i \in Of(s, a) : i \in 1 .. Len(s) /\ s[i].seq \in Int
    <2> SUFFICES ASSUME NEW i \in Of(s, a) PROVE i \in 1 .. Len(s) /\ s[i].seq \in Int
      OBVIOUS
    <2>1. i \in 1 .. Len(s) /\ s[i] \in Wire
      BY <1>1 DEF Of
    <2> QED BY <2>1 DEF Wire, Frames, Replies
  <1>5. ASSUME NEW i \in Of(t, a), NEW j \in Of(s, a), s[j].seq < t[i].seq
        PROVE  j \in Of(t, a)
    <2>1. i \in Of(s, a) /\ i <= n /\ t[i] = s[i]
      BY <1>3
    <2>2. j < i
      BY <1>4, <1>5, <2>1 DEF Rising
    <2> QED BY <1>1, <1>3, <1>4, <2>1, <2>2
  <1>6. Rising(t, a) /\ Seqs(t, a) \subseteq Seqs(s, a)
    BY <1>3 DEF Rising, Seqs
  <1>7. \A x \in Seqs(t, a), y \in Seqs(s, a) : y < x => y \in Seqs(t, a)
    BY <1>3, <1>5 DEF Seqs
  <1> QED BY <1>6, <1>7

\* Events are numbers.
LEMMA SeqsInt ==
    ASSUME NEW s \in Seq(Wire), NEW a
    PROVE  Seqs(s, a) \subseteq Int
  <1>1. \A i \in DOMAIN s : s[i] \in Wire
    OBVIOUS
  <1>2. \A m \in Wire : m.seq \in Int
    BY DEF Wire, Frames, Replies
  <1> QED BY <1>1, <1>2 DEF Seqs, Of

\* What is cut off behind a place is missing at the end and nowhere else.
LEMMA FlowCut ==
    ASSUME NEW q \in Seq(Wire), NEW r \in Seq(Wire), NEW k \in 0 .. Len(r),
           NEW a, NEW lo \in Int, NEW h \in SUBSET Int, NEW n \in Int, NEW on, Flow(q, r, a, lo, h, n, on)
    PROVE  Flow(q, SubSeq(r, 1, k), a, lo, h, n, FALSE)
  <1> DEFINE t == SubSeq(r, 1, k)
             Q == Seqs(q, a)
             R == Seqs(r, a)
             T == Seqs(t, a)
  <1>1. /\ Rising(t, a) /\ T \subseteq R /\ \A x \in T, y \in R : y < x => y \in T
        /\ Q \subseteq Int /\ R \subseteq Int /\ Rising(q, a)
    BY SeqsPrefix, SeqsInt DEF Flow
  <1>2. /\ \A x \in Q, y \in R : x < y
        /\ \A x \in Q \cup R : /\ \A y \in h : y < x
                               /\ x <= lo + 1 \/ x - 1 \in Q \cup R
    BY DEF Flow
  <1> HIDE DEF t, Q, R, T
  <1>3. ASSUME NEW x \in Q \cup T, ~(x <= lo + 1) PROVE x - 1 \in Q \cup T
    <2>1. x \in Int /\ x - 1 \in Int /\ x - 1 < x /\ ~(x < x - 1) /\ x - 1 \in Q \cup R
      BY <1>1, <1>2, <1>3
    <2>2. CASE x \in Q
      BY <1>2, <2>1, <2>2
    <2>3. CASE x \in T
      BY <1>1, <2>1, <2>3
    <2> QED BY <2>2, <2>3
  <1>4. Rising(q, a) /\ Rising(t, a) /\ \A x \in Q, y \in T : x < y
    BY <1>1, <1>2
  <1>5. \A x \in Q \cup T : \A j \in h : j < x
    BY <1>1, <1>2
  <1> QED BY <1>3, <1>4, <1>5 DEF Flow, t, Q, T

\* The reader takes a frame off the wire and puts it into the channel.
LEMMA FlowRead ==
    ASSUME NEW q \in Seq(Frames), NEW r \in Seq(Wire), r # << >>,
           NEW a, NEW lo \in Int, NEW h \in SUBSET Int, NEW n \in Int, NEW on, Flow(q, r, a, lo, h, n, on),
           NEW t, t = IF Head(r).kind = "reply" THEN q ELSE Append(q, Head(r))
    PROVE  Flow(t, Tail(r), a, lo, h, n, on)
  <1> DEFINE m == Head(r)
             mine == m.kind = "event" /\ m.attach = a
             Q == Seqs(q, a)
             R == Seqs(r, a)
             T == Seqs(t, a)
             S == Seqs(Tail(r), a)
  <1>0. q \in Seq(Wire)
    BY SeqMonotonic DEF Wire
  <1>1. /\ m \in Wire /\ Rising(Tail(r), a)
        /\ ~mine => S = R
        /\ mine => R = S \cup {m.seq} /\ \A x \in S : m.seq < x
    BY SeqsTail DEF Flow
  <1>2. /\ ~mine => T = Q /\ Rising(t, a)
        /\ mine => T = Q \cup {m.seq} /\ ((\A x \in Q : x < m.seq) => Rising(t, a))
    BY <1>0, <1>1, SeqsAppend DEF Flow
  <1>3. /\ \A x \in Q, y \in R : x < y
        /\ \A x \in Q \cup R : /\ \A k \in h : k < x
                               /\ x <= lo + 1 \/ x - 1 \in Q \cup R
        /\ on => /\ \A x \in h \cup Q \cup R : x < n
                 /\ n - 1 <= lo \/ n - 1 \in Q \cup R
    BY DEF Flow
  <1> HIDE DEF mine, Q, R, T, S
  <1>4. Q \cup R = T \cup S
    BY <1>1, <1>2
  <1>5. Rising(t, a) /\ \A x \in T, y \in S : x < y
    BY <1>1, <1>2, <1>3
  <1> QED BY <1>1, <1>3, <1>4, <1>5 DEF Flow, T, S

\* next_event takes an event of the attachment out of the channel: it is the
\* one after those that were seen, or one of them that was not handed out.
LEMMA FlowTake ==
    ASSUME NEW q \in Seq(Frames), q # << >>, NEW r \in Seq(Wire),
           NEW a, NEW lo \in Int, NEW h \in SUBSET Int, NEW n \in Int, NEW on,
           Flow(q, r, a, lo, h, n, on), Head(q).kind = "event", Head(q).attach = a
    PROVE  LET e == Head(q).seq
           IN  /\ e \in Int /\ e <= lo + 1 /\ (\A k \in h : k < e)
               /\ Flow(Tail(q), r, a, MaxOf(lo, e), h \cup {e}, n, on)
  <1> DEFINE e == Head(q).seq
             Q == Seqs(q, a)
             R == Seqs(r, a)
             T == Seqs(Tail(q), a)
             g == h \cup {e}
             l == MaxOf(lo, e)
  <1>0. q \in Seq(Wire)
    BY SeqMonotonic DEF Wire
  <1>1. /\ Rising(Tail(q), a) /\ Rising(r, a) /\ Q = T \cup {e} /\ \A x \in T : e < x
        /\ Q \subseteq Int /\ R \subseteq Int
    BY <1>0, SeqsTail, SeqsInt DEF Flow
  <1>2. /\ \A x \in Q, y \in R : x < y
        /\ \A x \in Q \cup R : /\ \A k \in h : k < x
                               /\ x <= lo + 1 \/ x - 1 \in Q \cup R
        /\ on => /\ \A x \in h \cup Q \cup R : x < n
                 /\ n - 1 <= lo \/ n - 1 \in Q \cup R
    BY DEF Flow
  <1> HIDE DEF Q, R, T, e
  <1>3. e \in Int /\ e \in Q /\ ~(e < e) /\ e - 1 < e /\ ~(e < e - 1)
    <2>1. e \in Q /\ e \in Int
      BY <1>1
    <2> QED BY <2>1
  <1>4. /\ on => e < n
        /\ \A k \in h : k < e
        /\ \A x \in T \cup R : e < x
        /\ e - 1 \notin T \cup R
    BY <1>1, <1>2, <1>3
  <1>5. e <= lo + 1
    BY <1>1, <1>2, <1>3, <1>4
  <1>6. l \in Int /\ e <= l /\ lo <= l
    BY <1>3 DEF MaxOf
  <1>7. \A k \in g : k = e \/ k \in h
    OBVIOUS
  <1> HIDE DEF g, l
  <1>9. ASSUME NEW x \in T \cup R
        PROVE  /\ \A k \in g : k < x
               /\ x <= l + 1 \/ x - 1 \in T \cup R
    <2>1. x \in Q \cup R /\ x \in Int /\ e < x
      BY <1>1, <1>4
    <2>2. x - 1 = e => x <= l + 1
      BY <1>3, <1>6, <2>1
    <2>3. x <= lo + 1 => x <= l + 1
      BY <1>6, <2>1
    <2>4. x <= l + 1 \/ x - 1 \in T \cup R
      BY <1>1, <1>2, <2>1, <2>2, <2>3
    <2> QED BY <1>2, <1>7, <2>1, <2>4
  <1>8. on => \A x \in g \cup T \cup R : x < n
    BY <1>1, <1>2, <1>4, <1>7
  <1>10. on => n - 1 <= l \/ n - 1 \in T \cup R
    <2>1. n - 1 = e => n - 1 <= l
      BY <1>3, <1>6
    <2>2. n - 1 <= lo => n - 1 <= l
      BY <1>6
    <2> QED BY <1>1, <1>2, <2>1, <2>2
  <1>11. \A x \in T, y \in R : x < y
    BY <1>1, <1>2
  <1>12. Flow(Tail(q), r, a, l, g, n, on)
    BY <1>1, <1>8, <1>9, <1>10, <1>11 DEF Flow, T, R
  <1> QED BY <1>3, <1>4, <1>5, <1>12 DEF e, g, l

\* What else is taken out of it is none of its events.
LEMMA FlowGone ==
    ASSUME NEW q \in Seq(Frames), q # << >>, NEW r \in Seq(Wire),
           NEW a, NEW lo \in Int, NEW h \in SUBSET Int, NEW n \in Int, NEW on,
           Flow(q, r, a, lo, h, n, on), Head(q).kind # "event"
    PROVE  Flow(Tail(q), r, a, lo, h, n, on)
  <1>0. q \in Seq(Wire)
    BY SeqMonotonic DEF Wire
  <1>1. Rising(Tail(q), a) /\ Seqs(Tail(q), a) = Seqs(q, a)
    BY <1>0, SeqsTail DEF Flow
  <1> QED BY <1>1 DEF Flow

\* Something else is written to the connection.
LEMMA FlowOther ==
    ASSUME NEW q, NEW r \in Seq(Wire), NEW m \in Wire,
           NEW a, NEW lo \in Int, NEW h \in SUBSET Int, NEW n \in Int, NEW on,
           Flow(q, r, a, lo, h, n, on), m.kind # "event" \/ m.attach # a
    PROVE  Flow(q, Append(r, m), a, lo, h, n, on)
  <1>1. Rising(Append(r, m), a) /\ Seqs(Append(r, m), a) = Seqs(r, a)
    BY SeqsAppend DEF Flow
  <1> QED BY <1>1 DEF Flow

\* An event is published to the attachment.
LEMMA FlowPost ==
    ASSUME NEW q \in Seq(Wire), NEW r \in Seq(Wire), NEW m \in Wire,
           NEW a, NEW lo \in Int, NEW h \in SUBSET Int, NEW n \in Int, NEW on,
           Flow(q, r, a, lo, h, n, on), on, m.kind = "event", m.attach = a, m.seq = n
    PROVE  Flow(q, Append(r, m), a, lo, h, n + 1, on)
  <1> DEFINE Q == Seqs(q, a)
             R == Seqs(r, a)
             T == Seqs(Append(r, m), a)
  <1>1. /\ Q \subseteq Int /\ R \subseteq Int /\ Rising(q, a) /\ Rising(r, a)
        /\ \A x \in Q, y \in R : x < y
        /\ \A x \in Q \cup R : /\ \A k \in h : k < x
                               /\ x <= lo + 1 \/ x - 1 \in Q \cup R
        /\ \A x \in h \cup Q \cup R : x < n
        /\ n - 1 <= lo \/ n - 1 \in Q \cup R
    BY SeqsInt DEF Flow
  <1>2. T = R \cup {n} /\ Rising(Append(r, m), a)
    BY <1>1, SeqsAppend
  <1> HIDE DEF Q, R, T
  <1>3. \A x \in Q, y \in T : x < y
    BY <1>1, <1>2
  <1>4. ASSUME NEW x \in Q \cup T
        PROVE  /\ x < n + 1 /\ \A k \in h : k < x
               /\ x <= lo + 1 \/ x - 1 \in Q \cup T
    <2>1. CASE x = n
      BY <1>1, <1>2, <2>1
    <2>2. CASE x # n
      BY <1>1, <1>2, <2>2
    <2> QED BY <2>1, <2>2
  <1>5. (n + 1) - 1 = n /\ n \in T /\ \A k \in h : k < n + 1
    BY <1>1, <1>2
  <1> QED BY <1>1, <1>2, <1>3, <1>4, <1>5 DEF Flow, Q, T

\* More is not needed, more was published of what is not needed, or what is at
\* the end does not count.
LEMMA FlowLess ==
    ASSUME NEW q \in Seq(Wire), NEW r \in Seq(Wire),
           NEW a, NEW lo \in Int, NEW h \in SUBSET Int, NEW n \in Int, NEW on \in BOOLEAN,
           Flow(q, r, a, lo, h, n, on),
           NEW l \in Int, lo <= l, NEW m \in Int, NEW off \in BOOLEAN,
           off => on /\ n <= m /\ (m = n \/ m - 1 <= l)
    PROVE  Flow(q, r, a, l, h, m, off)
  <1>1. Seqs(q, a) \subseteq Int /\ Seqs(r, a) \subseteq Int
    BY SeqsInt
  <1> DEFINE A == Seqs(q, a) \cup Seqs(r, a)
  <1>2. /\ \A x \in A : /\ \A k \in h : k < x
                        /\ x <= lo + 1 \/ x - 1 \in A
        /\ on => /\ \A x \in h \cup A : x < n
                 /\ n - 1 <= lo \/ n - 1 \in A
    BY DEF Flow
  <1>3. A \subseteq Int
    BY <1>1
  <1> HIDE DEF A
  <1>4. /\ \A x \in A : /\ \A k \in h : k < x
                        /\ x <= l + 1 \/ x - 1 \in A
        /\ off => /\ \A x \in h \cup A : x < m
                  /\ m - 1 <= l \/ m - 1 \in A
    BY <1>2, <1>3
  <1> QED BY <1>4 DEF Flow, A

\* Nothing of the attachment is anywhere.
NoneOf(s, a) == \A i \in DOMAIN s : s[i].attach # a

\* An attachment that is new has nothing on its way, and misses nothing.
LEMMA FlowNone ==
    ASSUME NEW q, NEW r, NEW a, NEW lo \in Int, NEW h \in SUBSET Int, NEW n \in Int, NEW on,
           NoneOf(q, a), NoneOf(r, a), on => n - 1 <= lo /\ \A k \in h : k < n
    PROVE  Flow(q, r, a, lo, h, n, on)
  <1>1. Of(q, a) = {} /\ Of(r, a) = {}
    BY DEF NoneOf, Of
  <1> QED BY <1>1 DEF Flow, Seqs, Rising

\* What an open replays: the events from one on.
Replayed(from, n, a) == [i \in 1 .. n - from |-> Frame("event", from + i - 1, a)]

\* What is replayed are frames of the attachment it is replayed to.
LEMMA ReplayedType ==
    ASSUME NEW from \in Int, NEW n \in Int, NEW a \in Nat
    PROVE  /\ Replayed(from, n, a) \in Seq(Frames)
           /\ \A i \in DOMAIN Replayed(from, n, a) : Replayed(from, n, a)[i].attach = a
  <1> DEFINE s == Replayed(from, n, a)
             k == IF n - from >= 0 THEN n - from ELSE 0
  <1>1. k \in Nat /\ 1 .. n - from = 1 .. k
    OBVIOUS
  <1>2. \A i \in 1 .. k : Frame("event", from + i - 1, a) \in Frames
    <2> TAKE i \in 1 .. k
    <2>1. from + i - 1 \in Int
      BY <1>1
    <2> QED BY <2>1 DEF Frame, Frames
  <1>3. s = [i \in 1 .. k |-> Frame("event", from + i - 1, a)]
    BY <1>1 DEF Replayed
  <1>4. s \in Seq(Frames)
    BY <1>1, <1>2, <1>3, IsASeq
  <1>5. \A i \in DOMAIN s : s[i].attach = a
    BY <1>3 DEF Frame
  <1> QED BY <1>4, <1>5

\* It is for others.
LEMMA FlowOthers ==
    ASSUME NEW q, NEW r \in Seq(Wire), NEW s \in Seq(Wire),
           NEW a, NEW lo \in Int, NEW h \in SUBSET Int, NEW n \in Int, NEW on,
           Flow(q, r, a, lo, h, n, on), NoneOf(s, a)
    PROVE  Flow(q, r \o s, a, lo, h, n, on)
  <1> DEFINE t == r \o s
  <1>1. /\ t \in Seq(Wire) /\ Len(t) = Len(r) + Len(s) /\ Len(r) \in Nat /\ Len(s) \in Nat
        /\ \A i \in 1 .. Len(r) + Len(s) : t[i] = IF i <= Len(r) THEN r[i] ELSE s[i - Len(r)]
    BY ConcatProperties
  <1>2. Of(t, a) = Of(r, a) /\ \A i \in Of(t, a) : t[i] = r[i]
    <2>1. \A i \in DOMAIN t : i \in 1 .. Len(r) + Len(s)
                              /\ (i <= Len(r) \/ i - Len(r) \in DOMAIN s)
      BY <1>1
    <2>2. \A i \in DOMAIN r : i \in DOMAIN t /\ i \in 1 .. Len(r) + Len(s) /\ i <= Len(r)
      BY <1>1
    <2>3. \A i \in Of(t, a) : i \in Of(r, a) /\ t[i] = r[i]
      BY <1>1, <2>1 DEF Of, NoneOf
    <2>4. \A i \in Of(r, a) : i \in Of(t, a)
      BY <1>1, <2>2 DEF Of
    <2> QED BY <2>3, <2>4
  <1> HIDE DEF t
  <1>3. Seqs(t, a) = Seqs(r, a)
    BY <1>2 DEF Seqs
  <1>4. Rising(r, a) => Rising(t, a)
    BY <1>2 DEF Rising
  <1> QED BY <1>3, <1>4 DEF Flow, t

\* It is for this one, and begins with the first event that is needed; if there
\* are not as many yet, that is the next to be sent.
LEMMA FlowReplayed ==
    ASSUME NEW q \in Seq(Wire), NEW r \in Seq(Wire), NEW a \in Nat,
           NoneOf(q, a), NoneOf(r, a), NEW lo \in Int, NEW h \in SUBSET Int, NEW n \in Int, NEW on,
           \A k \in h : k <= lo
    PROVE  Flow(q, r \o Replayed(lo + 1, n, a), a, lo, h, MaxOf(n, lo + 1), on)
  <1> DEFINE s == Replayed(lo + 1, n, a)
             t == r \o s
             k == IF n <= lo THEN 0 ELSE n - (lo + 1)
  <1>0. k \in Nat /\ s = [i \in 1 .. k |-> Frame("event", lo + 1 + i - 1, a)]
    <2>1. 1 .. n - (lo + 1) = 1 .. k
      OBVIOUS
    <2> QED BY <2>1 DEF Replayed
  <1>1. /\ s \in Seq(Wire) /\ DOMAIN s = 1 .. k /\ Len(s) = k
        /\ \A i \in 1 .. k : s[i] = [kind |-> "event", id |-> -1, seq |-> lo + i, attach |-> a]
    <2>1. s \in Seq(Frames)
      BY ReplayedType
    <2>2. DOMAIN s = 1 .. k
      BY <1>0
    <2>3. Len(s) = k
      BY <1>0, <2>1, <2>2
    <2>4. \A i \in 1 .. k : lo + 1 + i - 1 = lo + i
      BY <1>0
    <2> QED BY <1>0, <2>1, <2>2, <2>3, <2>4, SeqMonotonic DEF Wire, Frame
  <1>2. /\ t \in Seq(Wire) /\ Len(t) = Len(r) + k /\ Len(r) \in Nat /\ DOMAIN t = 1 .. Len(r) + k
        /\ \A i \in 1 .. Len(r) + k : t[i] = IF i <= Len(r) THEN r[i] ELSE s[i - Len(r)]
    <2> HIDE DEF s, k
    <2> QED BY <1>0, <1>1, ConcatProperties
  <1> HIDE DEF s, t, k
  <1>3. /\ Of(t, a) = {i \in 1 .. Len(r) + k : i > Len(r)}
        /\ \A i \in Of(t, a) : t[i].seq = lo + (i - Len(r))
    <2>1. ASSUME NEW i \in 1 .. Len(r) + k, i > Len(r)
          PROVE  i \in Of(t, a) /\ t[i].seq = lo + (i - Len(r))
      <3>1. i - Len(r) \in 1 .. k
        BY <1>0, <1>2, <2>1
      <3> QED BY <1>1, <1>2, <2>1, <3>1 DEF Of
    <2>2. ASSUME NEW i \in Of(t, a) PROVE i \in 1 .. Len(r) + k /\ i > Len(r)
      BY <1>2 DEF Of, NoneOf
    <2> QED BY <2>1, <2>2
  <1>4. Rising(t, a)
    BY <1>0, <1>2, <1>3 DEF Rising
  <1>5. Seqs(t, a) = lo + 1 .. n - 1
    <2>1. ASSUME NEW x \in Seqs(t, a) PROVE x \in lo + 1 .. n - 1
      <3>1. PICK i \in Of(t, a) : x = lo + (i - Len(r))
        BY <1>3 DEF Seqs
      <3>2. i \in 1 .. Len(r) + k /\ i > Len(r)
        BY <1>3
      <3> QED BY <1>0, <1>2, <3>1, <3>2 DEF k
    <2>2. ASSUME NEW x \in lo + 1 .. n - 1 PROVE x \in Seqs(t, a)
      <3>1. /\ (x - lo) + Len(r) \in 1 .. Len(r) + k /\ (x - lo) + Len(r) > Len(r)
            /\ lo + (((x - lo) + Len(r)) - Len(r)) = x
        BY <1>0, <1>2 DEF k
      <3> QED BY <1>3, <3>1 DEF Seqs
    <2> QED BY <2>1, <2>2
  <1>6. Seqs(q, a) = {} /\ Rising(q, a)
    BY DEF Seqs, Rising, Of, NoneOf
  <1>7. \A x \in lo + 1 .. n - 1 : /\ \A i \in h : i < x
                                   /\ x <= lo + 1 \/ x - 1 \in lo + 1 .. n - 1
    OBVIOUS
  <1>8. LET m == MaxOf(n, lo + 1)
        IN  /\ \A x \in h \cup lo + 1 .. n - 1 : x < m
            /\ m - 1 <= lo \/ m - 1 \in lo + 1 .. n - 1
    BY DEF MaxOf
  <1> QED BY <1>4, <1>5, <1>6, <1>7, <1>8 DEF Flow, s, t

-----------------------------------------------------------------------------
(* The invariant of a connection. *)

\* Where a thread is, and where it goes on after disconnect.
Onward == {"idle", "failed", "drop", "unmark", "ended"}
Places == {"idle", "write", "await", "failed", "cut", "clear", "drop", "unmark", "ended"}

WireTypes ==
    /\ requests \in Seq(Requests) /\ serving \in Seq(Requests) /\ answers \in Seq(Wire)
    /\ inbox \in [Users -> Seq(Frames)] /\ answer \in [Users -> Seq(Replies \cup Refusals)]
    /\ session \in [up : BOOLEAN, dying : BOOLEAN, listener : Nat, old : Nat, events : Nat,
                    next : Int, attaches : Nat]
    /\ stops \in Nat
ChatTypes ==
    /\ chat \in [Users -> [attached : Nat, seen : Int, started : BOOLEAN, finished : BOOLEAN]]
    /\ handed \in [Users -> Seq(Int)] /\ origin \in [Users -> [asked : Int, full : Int]]
    /\ covered \in [Users -> SUBSET Int]
    /\ foreign \in BOOLEAN
CallTypes ==
    /\ nextId \in Nat \ {0} /\ pending \subseteq Nat \X Users /\ subs \subseteq Users
    /\ alive \in BOOLEAN /\ closed \in BOOLEAN
    /\ job \in [Users -> Requests] /\ plan \in [Users -> Seq(Ops)]
    /\ pc \in [Threads -> Places] /\ then \in [Threads -> Onward]
ConnTypes == WireTypes /\ ChatTypes /\ CallTypes

\* Whoever listens listens to a session that is up, or was when it was put down.
Listened ==
    /\ session.listener # 0 => session.up
    /\ session.old # 0 => session.dying
    /\ session.dying => ~session.up
    /\ session.listener <= session.attaches /\ session.old <= session.attaches

\* A request, wherever it is, is known by its id.
Known ==
    /\ \A u \in Users : job[u].id < nextId
    /\ \A u, v \in Users : job[u].id = job[v].id /\ job[u].id # 0 => u = v
    /\ \A i \in DOMAIN requests :
          /\ requests[i].id < nextId
          /\ \A u \in Users : requests[i].id = job[u].id /\ job[u].id # 0 => requests[i] = job[u]
    /\ \A i \in DOMAIN serving :
          /\ serving[i].id < nextId
          /\ \A u \in Users : serving[i].id = job[u].id /\ job[u].id # 0 => serving[i] = job[u]
    /\ \A i \in DOMAIN answers : answers[i].kind = "reply" => answers[i].id < nextId

\* Who is called waits for the answer to the call it is busy with, and has none yet.
Waits(u) ==
    \/ pc[u] \in {"write", "await", "failed"}
    \/ pc[u] \in {"cut", "clear"} /\ then[u] = "failed"
Registered ==
    /\ \A w \in pending : w[1] = job[w[2]].id /\ w[1] # 0 /\ Waits(w[2]) /\ answer[w[2]] = << >>
    /\ \A u \in Users : \A i \in DOMAIN answer[u] : answer[u][i].ok => answer[u][i] \in Replies /\ answer[u][i].id = job[u].id

\* Attachments and events are numbered as they are served and published.
Numbered ==
    /\ \A u \in Users : chat[u].attached <= session.attaches
    /\ \A i \in DOMAIN answers : answers[i].attach <= session.attaches /\ answers[i].seq < session.events
    /\ \A u \in Users : \A i \in DOMAIN inbox[u] :
          inbox[u][i].attach <= session.attaches /\ inbox[u][i].seq < session.events
    /\ \A u \in Users : \A i \in DOMAIN answer[u] :
          answer[u][i].ok => answer[u][i].attach <= session.attaches /\ answer[u][i].seq < session.events
    /\ serving # << >> => session.attaches # 0

\* What a Chat has seen, and what it has handed out.
Opens(u) == pc[u] \in {"write", "await"} /\ job[u].op = "open"
HasSeen ==
    \A u \in Users :
        /\ -1 <= chat[u].seen /\ origin[u].full - 1 <= chat[u].seen
        /\ \A k \in DOMAIN handed[u] : handed[u][k] <= chat[u].seen
        /\ Opens(u) => job[u].id # 0

\* The event that the listener is told next.
NextFrame == MaxOf(session.events, session.next)

\* Up to where a Chat has handed out all that its attachment owes its owner, and
\* what nothing that comes may be below.
LastOf(s, lo) == IF s = << >> THEN lo ELSE MaxOf(lo, s[Len(s)])
Lo(u) == LastOf(handed[u], origin[u].full - 1)
Below(u) == {origin[u].asked - 1} \cup Range(handed[u])

\* The same of an attachment that is asked for.
AskedFor(r) == {IF r.since < 0 THEN -1 ELSE r.since - 1}
LoServed(r) == IF r.since < 0 THEN session.events - 1 ELSE r.since - 1

\* What is on its way to user u, of attachment a, when it has all up to lo and
\* was handed h.
Heard(u) == IF u \in subs THEN answers ELSE << >>
On(u, a) == u \in subs /\ ~closed /\ a # 0 /\ a \in {session.listener, session.old}
Comes(u, a, lo, h) == Flow(inbox[u], Heard(u), a, lo, h, NextFrame, On(u, a))

\* Of an open that was served, the attachment is known to the daemon, or from
\* the answer.
AnsweredSo(u, m) == Comes(u, m.attach, SeenAfter(u, m), AskedFor(job[u]))
Ordered(u) ==
    /\ chat[u].attached # 0 => Comes(u, chat[u].attached, Lo(u), Below(u))
    /\ Opens(u) /\ serving # << >> /\ Head(serving).id = job[u].id
          => Comes(u, session.attaches, LoServed(job[u]), AskedFor(job[u]))
    /\ \A i \in DOMAIN answers :
          Opens(u) /\ answers[i].kind = "reply" /\ answers[i].id = job[u].id /\ answers[i].ok
          => AnsweredSo(u, answers[i])
    /\ \A i \in DOMAIN answer[u] : Opens(u) /\ answer[u][i].ok => AnsweredSo(u, answer[u][i])
    /\ \A i \in DOMAIN handed[u] : origin[u].asked <= handed[u][i] /\ handed[u][i] <= Lo(u)
    /\ \A i \in 2 .. Len(handed[u]) : handed[u][i - 1] < handed[u][i]
    /\ \A e \in origin[u].full .. Lo(u) : e \in Range(handed[u])
    /\ 0 .. chat[u].seen \subseteq covered[u]
    /\ Opens(u) /\ job[u].since >= 0 => 0 .. job[u].since - 1 \subseteq covered[u]

Connection == ConnTypes /\ Listened /\ Known /\ Registered /\ Numbered /\ HasSeen
Inv == Connection /\ (foreign \/ \A u \in Users : Ordered(u))

-----------------------------------------------------------------------------
(* Steps of a thread that neither read nor serve anything. *)

\* A thread goes on: it gives up what it waited for, or lets a session go, and
\* at most writes the request it is busy with, or one that nobody waits for.
Aside ==
    /\ UNCHANGED <<nextId, answer, inbox, job, handed, origin, covered, foreign, answers, closed, sessionVars>>
    /\ pending' \subseteq pending /\ subs' \subseteq subs
    /\ \A w \in pending' : Waits(w[2])'
    /\ \A u \in Users : /\ chat'[u].seen = chat[u].seen
                        /\ chat'[u].attached \in {0, chat[u].attached}
                        /\ pc'[u] \in {"write", "await"} => pc[u] \in {"write", "await"}
    /\ chat' \in [Users -> [attached : Nat, seen : Int, started : BOOLEAN, finished : BOOLEAN]]
    /\ plan' \in [Users -> Seq(Ops)] /\ alive' \in BOOLEAN
    /\ pc' \in [Threads -> Places] /\ then' \in [Threads -> Onward]
    /\ requests' \in Seq(Requests)
    /\ \A i \in DOMAIN requests' :
          \/ requests'[i].id = 0
          \/ \E u \in Users : requests'[i] = job[u]
          \/ \E j \in DOMAIN requests : requests'[i] = requests[j]

USE DEF innerVars, threadVars, chatVars, wireVars, sessionVars

\* Such a step keeps types, ids, calls and numbers as they should be.
LEMMA AsideBase ==
    ASSUME Connection, Aside
    PROVE  Connection'
  <1>1. ConnTypes'
    BY DEF Connection, Aside, ConnTypes, WireTypes, ChatTypes, CallTypes
  <1>2. Listened'
    BY DEF Connection, Aside, Listened
  <1>3. Known'
    <2>1. ASSUME NEW i \in DOMAIN requests'
          PROVE  /\ requests'[i].id < nextId
                 /\ \A u \in Users : requests'[i].id = job[u].id /\ job[u].id # 0 => requests'[i] = job[u]
      <3>1. nextId \in Nat /\ nextId > 0
        BY DEF Connection, ConnTypes, CallTypes
      <3>2. CASE requests'[i].id = 0
        BY <3>1, <3>2
      <3>3. CASE \E u \in Users : requests'[i] = job[u]
        BY <3>3 DEF Connection, Known
      <3>4. CASE \E j \in DOMAIN requests : requests'[i] = requests[j]
        BY <3>4 DEF Connection, Known
      <3> QED BY <3>2, <3>3, <3>4 DEF Aside
    <2> QED BY <2>1 DEF Connection, Aside, Known
  <1>4. Registered'
    BY DEF Connection, Aside, Registered
  <1>5. Numbered'
    <2>1. session.attaches \in Nat
      BY DEF Connection, ConnTypes, WireTypes
    <2> QED BY <2>1 DEF Connection, Aside, Numbered
  <1>6. HasSeen'
    BY DEF Connection, Aside, HasSeen, Opens
  <1> QED BY <1>1, <1>2, <1>3, <1>4, <1>5, <1>6 DEF Connection

\* What is on its way stays so, or is not waited for any more.
LEMMA ComesAside ==
    ASSUME ConnTypes, NEW u \in Users, NEW a, NEW lo \in Int, NEW h \in SUBSET Int,
           UNCHANGED <<inbox, answers, closed, session>>, subs' \subseteq subs,
           Comes(u, a, lo, h)
    PROVE  Flow(inbox[u], Heard(u)', a, lo, h, NextFrame,
                u \in subs' /\ ~closed /\ a # 0 /\ a \in {session.listener, session.old})
  <1>1. /\ inbox[u] \in Seq(Wire) /\ answers \in Seq(Wire) /\ NextFrame \in Int
    <2>1. /\ inbox[u] \in Seq(Frames) /\ answers \in Seq(Wire)
          /\ session.events \in Int /\ session.next \in Int
      BY DEF ConnTypes, WireTypes
    <2> QED BY <2>1, SeqMonotonic DEF Wire, NextFrame, MaxOf
  <1>2. CASE u \in subs'
    BY <1>2 DEF Heard, On, Comes
  <1>3. CASE u \notin subs' /\ u \in subs
    <2>1. SubSeq(answers, 1, 0) = << >> /\ 0 \in 0 .. Len(answers)
      BY <1>1
    <2>2. Flow(inbox[u], << >>, a, lo, h, NextFrame, FALSE)
      BY <1>1, <1>3, <2>1, FlowCut DEF Heard, Comes
    <2> QED BY <1>3, <2>2 DEF Heard
  <1>4. CASE u \notin subs
    BY <1>4 DEF Heard, On, Comes
  <1> QED BY <1>2, <1>3, <1>4

\* How far a Chat is, and what an open asks for, are numbers.
LEMMA LoType ==
    ASSUME ConnTypes, NEW u \in Users
    PROVE  /\ Lo(u) \in Int /\ Below(u) \in SUBSET Int /\ chat[u].seen \in Int
           /\ origin[u].asked \in Int /\ origin[u].full \in Int /\ handed[u] \in Seq(Int)
           /\ job[u].since \in Int /\ AskedFor(job[u]) \in SUBSET Int /\ LoServed(job[u]) \in Int
           /\ session.events \in Int /\ session.next \in Int /\ NextFrame \in Int
           /\ \A m : m.seq \in Int => SeenAfter(u, m) \in Int
  <1>1. /\ chat[u].seen \in Int /\ job[u].since \in Int
        /\ origin[u].asked \in Int /\ origin[u].full \in Int /\ handed[u] \in Seq(Int)
        /\ session.events \in Int /\ session.next \in Int
    <2>1. /\ chat[u] \in [attached : Nat, seen : Int, started : BOOLEAN, finished : BOOLEAN]
          /\ origin[u] \in [asked : Int, full : Int] /\ handed[u] \in Seq(Int)
      BY DEF ConnTypes, ChatTypes
    <2>2. job[u] \in Requests
      BY DEF ConnTypes, CallTypes
    <2>3. session \in [up : BOOLEAN, dying : BOOLEAN, listener : Nat, old : Nat, events : Nat,
                      next : Int, attaches : Nat]
      BY DEF ConnTypes, WireTypes
    <2> HIDE DEF innerVars, threadVars, chatVars, wireVars, sessionVars
    <2>4. chat[u].seen \in Int /\ origin[u].asked \in Int /\ origin[u].full \in Int
      BY <2>1
    <2>5. job[u].since \in Int
      BY <2>2 DEF Requests
    <2>6. session.events \in Int /\ session.next \in Int
      BY <2>3
    <2> QED BY <2>1, <2>4, <2>5, <2>6
  <1>2. Range(handed[u]) \subseteq Int /\ (handed[u] # << >> => handed[u][Len(handed[u])] \in Int)
    BY <1>1 DEF Range
  <1>3. Lo(u) \in Int /\ Below(u) \in SUBSET Int
    BY <1>1, <1>2 DEF Lo, LastOf, MaxOf, Below
  <1> QED BY <1>1, <1>3 DEF AskedFor, LoServed, SeenAfter, NextFrame, MaxOf

\* The frames and answers on the way have their types.
LEMMA MessageSeq ==
    ASSUME ConnTypes, NEW u \in Users
    PROVE  /\ \A i \in DOMAIN answers : answers[i] \in Wire /\ answers[i].seq \in Int /\ answers[i].attach \in Nat
           /\ \A i \in DOMAIN inbox[u] : inbox[u][i] \in Frames
           /\ \A i \in DOMAIN answer[u] : answer[u][i] \in Replies \cup Refusals
           /\ Registered => \A i \in DOMAIN answer[u] : answer[u][i].ok => answer[u][i].seq \in Int
  <1>1. /\ answers \in Seq(Wire) /\ inbox[u] \in Seq(Frames) /\ answer[u] \in Seq(Replies \cup Refusals)
    BY DEF ConnTypes, WireTypes
  <1>2. \A m \in Wire : m.seq \in Int /\ m.attach \in Nat
    BY DEF Wire, Frames, Replies
  <1>3. \A m \in Replies : m.seq \in Int
    BY DEF Replies
  <1>4. /\ \A i \in DOMAIN answers : answers[i] \in Wire
        /\ \A i \in DOMAIN inbox[u] : inbox[u][i] \in Frames
        /\ \A i \in DOMAIN answer[u] : answer[u][i] \in Replies \cup Refusals
    BY <1>1
  <1> QED BY <1>2, <1>3, <1>4 DEF Registered

\* What is on its way to u goes on to be so, an open that is being served sees
\* to it, and answers are those of before or tell of an attachment in order.
FlowGoesOn(u) ==
    \A a \in Nat, lo \in Int, h \in SUBSET Int :
        a <= session.attaches /\ Comes(u, a, lo, h)
        => Flow(inbox'[u], Heard(u)', a, lo, h, NextFrame',
                u \in subs' /\ ~closed' /\ a # 0 /\ a \in {session'.listener, session'.old})
OpenGoesOn(u) ==
    Opens(u) /\ serving' # << >> /\ Head(serving').id = job[u].id
    => Flow(inbox'[u], Heard(u)', session'.attaches,
            IF job[u].since < 0 THEN session'.events - 1 ELSE job[u].since - 1,
            AskedFor(job[u]), NextFrame',
            u \in subs' /\ ~closed' /\ session'.attaches # 0
            /\ session'.attaches \in {session'.listener, session'.old})
AnswersGoOn(u) ==
    /\ \A i \in DOMAIN answers' :
          Opens(u) /\ answers'[i].kind = "reply" /\ answers'[i].id = job[u].id /\ answers'[i].ok
          => \/ \E j \in DOMAIN answers : answers'[i] = answers[j]
             \/ /\ AnsweredSo(u, answers'[i])
                /\ answers'[i].seq \in Int /\ answers'[i].attach \in Nat
                /\ answers'[i].attach <= session.attaches
    /\ \A i \in DOMAIN answer'[u] :
          Opens(u) /\ answer'[u][i].ok
          => \/ \E j \in DOMAIN answer[u] : answer'[u][i] = answer[u][j]
             \/ \E j \in DOMAIN answers : /\ answer'[u][i] = answers[j]
                                          /\ answers[j].kind = "reply" /\ answers[j].id = job[u].id

\* A step that touches neither what u was handed nor what it asks for keeps
\* u in order, if what is on its way to u goes on to be so.
LEMMA OrderedStep ==
    ASSUME Connection, NEW u \in Users, Ordered(u),
           handed'[u] = handed[u], origin'[u] = origin[u], covered'[u] = covered[u], job'[u] = job[u],
           chat'[u].seen = chat[u].seen, chat'[u].attached \in {0, chat[u].attached},
           Opens(u)' => Opens(u),
           FlowGoesOn(u), OpenGoesOn(u), AnswersGoOn(u)
    PROVE  Ordered(u)'
  <1>0. ConnTypes /\ Registered /\ Numbered
    BY DEF Connection
  <1>1. /\ chat[u].attached \in Nat /\ chat[u].attached <= session.attaches
        /\ Lo(u) \in Int /\ Below(u) \in SUBSET Int /\ AskedFor(job[u]) \in SUBSET Int
        /\ \A m : m.seq \in Int => SeenAfter(u, m) \in Int
    BY <1>0, LoType DEF ConnTypes, ChatTypes, Numbered
  <1>2. Lo(u)' = Lo(u) /\ Below(u)' = Below(u)
    BY DEF Lo, Below
  <1>3. ASSUME NEW m, m.seq \in Int, m.attach \in Nat, m.attach <= session.attaches, AnsweredSo(u, m)
        PROVE  Flow(inbox'[u], Heard(u)', m.attach, SeenAfter(u, m), AskedFor(job[u]), NextFrame',
                    u \in subs' /\ ~closed' /\ m.attach # 0
                    /\ m.attach \in {session'.listener, session'.old})
    BY <1>1, <1>3 DEF AnsweredSo, FlowGoesOn
  <1>4. chat'[u].attached # 0 => Comes(u, chat[u].attached, Lo(u), Below(u))'
    <2> SUFFICES ASSUME chat'[u].attached # 0
                 PROVE  Comes(u, chat[u].attached, Lo(u), Below(u))'
      OBVIOUS
    <2>1. chat'[u].attached = chat[u].attached /\ chat[u].attached # 0
      OBVIOUS
    <2>2. Comes(u, chat[u].attached, Lo(u), Below(u))
      BY <2>1 DEF Ordered
    <2>3. Flow(inbox'[u], Heard(u)', chat[u].attached, Lo(u), Below(u), NextFrame',
               u \in subs' /\ ~closed' /\ chat[u].attached # 0
               /\ chat[u].attached \in {session'.listener, session'.old})
      BY <1>1, <2>2 DEF FlowGoesOn
    <2> QED BY <1>2, <2>1, <2>3 DEF Comes, On
  <1>5. Opens(u)' /\ serving' # << >> /\ Head(serving').id = job'[u].id
          => Comes(u, session.attaches, LoServed(job[u]), AskedFor(job[u]))'
    BY DEF Comes, On, OpenGoesOn, LoServed, AskedFor
  <1>6. ASSUME NEW m, m.seq \in Int, m.attach \in Nat, m.attach <= session.attaches, AnsweredSo(u, m)
        PROVE  Flow(inbox'[u], Heard(u)', m.attach,
                    IF job'[u].since < 0 THEN m.seq ELSE job'[u].since - 1, AskedFor(job'[u]), NextFrame',
                    u \in subs' /\ ~closed' /\ m.attach # 0
                    /\ m.attach \in {session'.listener, session'.old})
    BY <1>3, <1>6 DEF SeenAfter
  <1>7. ASSUME NEW j \in DOMAIN answers, Opens(u), answers[j].kind = "reply",
               answers[j].id = job[u].id, answers[j].ok
        PROVE  /\ AnsweredSo(u, answers[j]) /\ answers[j].seq \in Int
               /\ answers[j].attach \in Nat /\ answers[j].attach <= session.attaches
    BY <1>0, <1>7, MessageSeq DEF Ordered, Numbered
  <1>8. ASSUME NEW j \in DOMAIN answer[u], Opens(u), answer[u][j].ok
        PROVE  /\ AnsweredSo(u, answer[u][j]) /\ answer[u][j].seq \in Int
               /\ answer[u][j].attach \in Nat /\ answer[u][j].attach <= session.attaches
    <2>1. answer[u][j] \in Replies
      BY <1>0, <1>8 DEF Registered
    <2> QED BY <1>0, <1>8, <2>1 DEF Ordered, Numbered, Replies
  <1>9. ASSUME NEW i \in DOMAIN answers', Opens(u)', answers'[i].kind = "reply",
               answers'[i].id = job'[u].id, answers'[i].ok
        PROVE  AnsweredSo(u, answers[i])'
    <2>1. /\ AnsweredSo(u, answers'[i]) /\ answers'[i].seq \in Int
          /\ answers'[i].attach \in Nat /\ answers'[i].attach <= session.attaches
      BY <1>7, <1>9 DEF AnswersGoOn
    <2> QED BY <1>6, <2>1 DEF AnsweredSo, Comes, On, SeenAfter, AskedFor
  <1>10. ASSUME NEW i \in DOMAIN answer'[u], Opens(u)', answer'[u][i].ok
         PROVE  AnsweredSo(u, answer[u][i])'
    <2>1. /\ AnsweredSo(u, answer'[u][i]) /\ answer'[u][i].seq \in Int
          /\ answer'[u][i].attach \in Nat /\ answer'[u][i].attach <= session.attaches
      BY <1>7, <1>8, <1>10 DEF AnswersGoOn
    <2> QED BY <1>6, <2>1 DEF AnsweredSo, Comes, On, SeenAfter, AskedFor
  <1>11. /\ \A i \in DOMAIN handed'[u] : origin'[u].asked <= handed'[u][i] /\ handed'[u][i] <= Lo(u)'
         /\ \A i \in 2 .. Len(handed'[u]) : handed'[u][i - 1] < handed'[u][i]
         /\ \A e \in origin'[u].full .. Lo(u)' : e \in Range(handed'[u])
         /\ 0 .. chat'[u].seen \subseteq covered'[u]
         /\ Opens(u)' /\ job'[u].since >= 0 => 0 .. job'[u].since - 1 \subseteq covered'[u]
    BY <1>2 DEF Ordered
  <1> QED BY <1>2, <1>4, <1>5, <1>9, <1>10, <1>11 DEF Ordered

\* A step aside keeps everybody in order: it takes nothing off the way.
LEMMA AsideOrdered ==
    ASSUME Connection, Aside, NEW u \in Users, Ordered(u)
    PROVE  Ordered(u)'
  <1>0. ConnTypes
    BY DEF Connection
  <1>1. /\ UNCHANGED <<answer, inbox, job, handed, origin, covered, answers, closed, serving, session>>
        /\ chat'[u].seen = chat[u].seen /\ chat'[u].attached \in {0, chat[u].attached}
        /\ (Opens(u)' => Opens(u)) /\ subs' \subseteq subs
    BY DEF Aside, Opens
  <1>2. AskedFor(job[u]) \in SUBSET Int /\ LoServed(job[u]) \in Int /\ NextFrame' = NextFrame
    BY <1>0, <1>1, LoType DEF NextFrame
  <1>3. \A a, lo, h : lo \in Int /\ h \in SUBSET Int /\ Comes(u, a, lo, h)
            => Flow(inbox[u], Heard(u)', a, lo, h, NextFrame,
                    u \in subs' /\ ~closed /\ a # 0 /\ a \in {session.listener, session.old})
    BY <1>0, <1>1, ComesAside
  <1>4. Opens(u) /\ serving # << >> /\ Head(serving).id = job[u].id
          => Flow(inbox[u], Heard(u)', session.attaches, LoServed(job[u]), AskedFor(job[u]), NextFrame,
                  u \in subs' /\ ~closed /\ session.attaches # 0
                  /\ session.attaches \in {session.listener, session.old})
    BY <1>2, <1>3 DEF Ordered
  <1>5. FlowGoesOn(u) /\ AnswersGoOn(u)
    BY <1>1, <1>2, <1>3 DEF FlowGoesOn, AnswersGoOn
  <1>6. OpenGoesOn(u)
    BY <1>1, <1>2, <1>4 DEF OpenGoesOn, LoServed
  <1> QED BY <1>1, <1>5, <1>6, OrderedStep

\* A thread that was called is the one that waits.
LEMMA OneGoes ==
    ASSUME Connection, NEW t \in Threads, NEW place \in Places,
           pc' = [pc EXCEPT ![t] = place], pending' \subseteq pending,
           then' = then \/ (place = "cut" /\ then' = [then EXCEPT ![t] = "failed"])
             \/ \A w \in pending' : w[2] # t /\ then'[w[2]] = then[w[2]],
           (\A w \in pending' : w[2] # t) \/ place \in {"write", "await", "failed"}
             \/ (place = "cut" /\ then' = [then EXCEPT ![t] = "failed"])
    PROVE  (\A w \in pending' : Waits(w[2])') /\ pc' \in [Threads -> Places]
  <1>1. pc \in [Threads -> Places] /\ then \in [Threads -> Onward] /\ Users \subseteq Threads
        /\ pending \subseteq Nat \X Users
    BY DEF Connection, ConnTypes, CallTypes, Threads
  <1>2. ASSUME NEW w \in pending' PROVE Waits(w[2])'
    <2>1. w \in pending /\ w[2] \in Users /\ w[2] \in Threads
      BY <1>1
    <2>2. Waits(w[2])
      BY <2>1 DEF Connection, Registered
    <2>3. CASE w[2] # t
      BY <1>1, <1>2, <2>1, <2>2, <2>3 DEF Waits
    <2>4. CASE w[2] = t
      BY <1>1, <1>2, <2>1, <2>2, <2>4 DEF Waits
    <2> QED BY <2>3, <2>4
  <1> QED BY <1>1, <1>2

\* Who does not wait, or has an answer, has no call pending (Inner::pending).
LEMMA NotCalled ==
    ASSUME Connection, NEW u \in Users, ~Waits(u) \/ answer[u] # << >>
    PROVE  \A w \in pending : w[2] # u
  BY DEF Connection, Registered

\* A call that is taken out of Inner::pending was the only one of its thread.
LEMMA CallTaken ==
    ASSUME Connection, NEW u \in Users
    PROVE  /\ pending \ Owned({job[u].id}) \subseteq pending
           /\ \A w \in pending \ Owned({job[u].id}) : w[2] # u
  BY DEF Connection, Registered, Owned

\* What a request that has failed leads to.
LEMMA FailGoes ==
    ASSUME Connection, NEW u \in Users, Fail(u)
    PROVE  /\ pc' \in {[pc EXCEPT ![u] = p] : p \in {"idle", "cut", "drop"}}
           /\ then' \in [Threads -> Onward] /\ \A t \in Threads : t # u => then'[t] = then[t]
           /\ alive' \in BOOLEAN /\ subs' \subseteq subs
  <1>1. then \in [Threads -> Onward] /\ u \in Threads /\ alive \in BOOLEAN
    BY DEF Connection, ConnTypes, CallTypes, Threads
  <1>2. CASE OpenFailed(u)
    BY <1>1, <1>2 DEF OpenFailed, Goto, Unsubscribed
  <1>3. CASE LifecycleFailed(u)
    <2>1. pc' = [pc EXCEPT ![u] = "cut"] \/ pc' = [pc EXCEPT ![u] = "drop"]
      BY <1>3 DEF LifecycleFailed, Goto
    <2> QED BY <1>1, <1>3, <2>1 DEF LifecycleFailed, Onward
  <1>4. CASE CallFailed(u)
    BY <1>1, <1>4 DEF CallFailed, Goto
  <1> QED BY <1>2, <1>3, <1>4 DEF Fail

\* A thread whose request has failed steps aside.
LEMMA FailAside ==
    ASSUME Connection, NEW u \in Users, Fail(u), pending' \subseteq pending,
           \A w \in pending' : w[2] # u,
           UNCHANGED <<nextId, answer, inbox, plan, job, chat, handed, origin, covered, foreign, wireVars, sessionVars>>
    PROVE  Aside
  <1>1. PICK p \in {"idle", "cut", "drop"} : pc' = [pc EXCEPT ![u] = p]
    BY FailGoes
  <1>2. /\ then' \in [Threads -> Onward] /\ \A t \in Threads : t # u => then'[t] = then[t]
        /\ alive' \in BOOLEAN /\ subs' \subseteq subs
    BY FailGoes
  <1>3. u \in Threads /\ p \in Places /\ pending \subseteq Nat \X Users /\ Users \subseteq Threads
        /\ pc \in [Threads -> Places]
    BY DEF Connection, ConnTypes, CallTypes, Threads, Places
  <1>4. \A w \in pending' : then'[w[2]] = then[w[2]]
    BY <1>2, <1>3
  <1>5. (\A w \in pending' : Waits(w[2])') /\ pc' \in [Threads -> Places]
    BY <1>1, <1>3, <1>4, OneGoes
  <1>6. \A v \in Users : pc'[v] \in {"write", "await"} => pc[v] \in {"write", "await"}
    BY <1>1, <1>3
  <1> QED BY <1>2, <1>5, <1>6 DEF Aside, Connection, ConnTypes, ChatTypes, CallTypes, WireTypes

\* A thread that only goes somewhere else.
LEMMA GoAside ==
    ASSUME Connection, NEW t \in Threads, NEW place \in Places \ {"write", "await"},
           pc' = [pc EXCEPT ![t] = place], pending' = pending, subs' \subseteq subs, alive' \in BOOLEAN,
           \/ then' = then
           \/ then' \in [Threads -> Onward] /\ \A s \in Threads : s # t => then'[s] = then[s],
           UNCHANGED <<nextId, answer, inbox, job, handed, origin, covered, foreign, wireVars, sessionVars>>,
           \A u \in Users : /\ chat'[u].seen = chat[u].seen
                            /\ chat'[u].attached \in {0, chat[u].attached},
           chat' \in [Users -> [attached : Nat, seen : Int, started : BOOLEAN, finished : BOOLEAN]],
           plan' \in [Users -> Seq(Ops)],
           \/ \A w \in pending : w[2] # t
           \/ then' = then /\ place = "failed"
           \/ then' = [then EXCEPT ![t] = "failed"] /\ place = "cut"
    PROVE  Aside
  <1>1. /\ pending \subseteq Nat \X Users /\ Users \subseteq Threads
        /\ pc \in [Threads -> Places] /\ then \in [Threads -> Onward] /\ then' \in [Threads -> Onward]
    BY DEF Connection, ConnTypes, CallTypes, Threads, Places
  <1>2. (\A w \in pending' : Waits(w[2])') /\ pc' \in [Threads -> Places]
    <2>1. (\A w \in pending : w[2] # t) => \A w \in pending : then'[w[2]] = then[w[2]]
      BY <1>1
    <2> QED BY <2>1, OneGoes
  <1>3. \A v \in Users : pc'[v] \in {"write", "await"} => pc[v] \in {"write", "await"}
    BY <1>1
  <1> QED BY <1>1, <1>2, <1>3 DEF Aside, Connection, ConnTypes, ChatTypes, CallTypes, WireTypes

\* The steps of that kind.
LEMMA UserAside ==
    ASSUME Connection, NEW u \in Users,
           \/ Write(u) \/ WriteDead(u) \/ WriteBroken(u) \/ WriteFailed(u) \/ Refused(u)
           \/ Timeout(u) \/ Return(u) \/ Told(u) \/ LetGo(u) \/ Abandon(u)
           \/ Notify(u) \/ NotifyBroken(u) \/ NotifyDead(u) \/ Unmark(u)
    PROVE  Aside
  <1>0. ConnTypes /\ u \in Threads /\ Users \subseteq Threads
    BY DEF Connection, Threads
  <1>1. CASE Write(u)
    <2>1. requests' \in Seq(Requests)
          /\ \A i \in DOMAIN requests' : \/ requests'[i] = job[u]
                                         \/ \E j \in DOMAIN requests : requests'[i] = requests[j]
      <3>1. requests \in Seq(Requests) /\ job[u] \in Requests
        BY <1>0 DEF ConnTypes, WireTypes, CallTypes
      <3>2. requests' = Append(requests, job[u])
        BY <1>1 DEF Write
      <3> QED BY <3>1, <3>2, AppendProperties
    <2>2. pc' = [pc EXCEPT ![u] = "await"] /\ pc[u] = "write" /\ "await" \in Places
      BY <1>1 DEF Write, Goto, Places
    <2>3. (\A w \in pending' : Waits(w[2])') /\ pc' \in [Threads -> Places]
      BY <1>0, <1>1, <2>2, OneGoes DEF Write
    <2>4. \A v \in Users : pc'[v] \in {"write", "await"} => pc[v] \in {"write", "await"}
      BY <1>0, <2>2 DEF ConnTypes, CallTypes
    <2>5. /\ UNCHANGED <<nextId, answer, inbox, job, handed, origin, covered, foreign, answers, closed,
                         sessionVars, pending, subs, chat, plan, alive, then>>
      BY <1>1 DEF Write
    <2> QED BY <1>0, <2>1, <2>3, <2>4, <2>5 DEF Aside, ConnTypes, ChatTypes, CallTypes
  <1>2. CASE WriteDead(u) \/ WriteFailed(u)
    BY <1>2, CallTaken, FailAside DEF WriteDead, WriteFailed
  <1>3. CASE WriteBroken(u)
    <2>1. /\ pc' = [pc EXCEPT ![u] = "cut"] /\ then' = [then EXCEPT ![u] = "failed"]
          /\ "cut" \in Places \ {"write", "await"} /\ "failed" \in Onward
      BY <1>3 DEF WriteBroken, Goto, Places, Onward
    <2>2. then' \in [Threads -> Onward] /\ \A s \in Threads : s # u => then'[s] = then[s]
      BY <1>0, <2>1 DEF ConnTypes, CallTypes
    <2> QED BY <1>0, <1>3, <2>1, <2>2, GoAside DEF WriteBroken, ConnTypes, ChatTypes, CallTypes
  <1>4. CASE Refused(u)
    BY <1>4, NotCalled, FailAside DEF Refused
  <1>5. CASE Timeout(u)
    BY <1>5, CallTaken, FailAside DEF Timeout
  <1>6. CASE Return(u)
    <2>1. /\ plan' \in [Users -> Seq(Ops)]
          /\ chat' \in [Users -> [attached : Nat, seen : Int, started : BOOLEAN, finished : BOOLEAN]]
          /\ \A v \in Users : chat'[v].seen = chat[v].seen /\ chat'[v].attached = chat[v].attached
      <3>1. plan[u] \in Seq(Ops) /\ plan[u] # << >> /\ plan' = [plan EXCEPT ![u] = Tail(@)]
        BY <1>0, <1>6 DEF Return, Wants, Done, ConnTypes, CallTypes
      <3>2. Tail(plan[u]) \in Seq(Ops)
        BY <3>1
      <3>3. plan' \in [Users -> Seq(Ops)]
        BY <1>0, <3>1, <3>2 DEF ConnTypes, CallTypes
      <3>4. PICK f \in BOOLEAN : chat' = [chat EXCEPT ![u].finished = f]
        BY <1>6 DEF Return
      <3>5. chat \in [Users -> [attached : Nat, seen : Int, started : BOOLEAN, finished : BOOLEAN]]
        BY <1>0 DEF ConnTypes, ChatTypes
      <3> QED BY <3>3, <3>4, <3>5
    <2>2. \A w \in pending' : Waits(w[2])'
      BY <1>6 DEF Return, Connection, Registered, Waits
    <2> QED BY <1>0, <1>6, <2>1, <2>2 DEF Return, Aside, ConnTypes, CallTypes, WireTypes
  <1>7. CASE Told(u)
    BY <1>0, <1>7, NotCalled, GoAside DEF Told, Goto, Places, ConnTypes, ChatTypes, CallTypes
  <1>8. CASE LetGo(u)
    <2>1. /\ chat' \in [Users -> [attached : Nat, seen : Int, started : BOOLEAN, finished : BOOLEAN]]
          /\ \A v \in Users : /\ chat'[v].seen = chat[v].seen
                              /\ chat'[v].attached \in {0, chat[v].attached}
      <3> DEFINE f == chat[u].finished \/ job[u].op = "stop"
      <3>1. chat' = [chat EXCEPT ![u].attached = 0, ![u].finished = f]
        BY <1>8 DEF LetGo
      <3>2. f \in BOOLEAN
        OBVIOUS
      <3>3. chat \in [Users -> [attached : Nat, seen : Int, started : BOOLEAN, finished : BOOLEAN]]
        BY <1>0 DEF ConnTypes, ChatTypes
      <3> HIDE DEF f
      <3> QED BY <3>1, <3>2, <3>3
    <2>2. subs' \subseteq subs
      BY <1>8 DEF LetGo, Unsubscribed
    <2> QED BY <1>0, <1>8, <2>1, <2>2, NotCalled, GoAside DEF LetGo, Goto, Places, ConnTypes, CallTypes
  <1>9. CASE Abandon(u)
    <2>1. /\ plan' \in [Users -> Seq(Ops)]
          /\ chat' \in [Users -> [attached : Nat, seen : Int, started : BOOLEAN, finished : BOOLEAN]]
          /\ \A v \in Users : chat'[v].seen = chat[v].seen /\ chat'[v].attached = chat[v].attached
      <3>1. plan[u] \in Seq(Ops) /\ plan[u] # << >> /\ plan' = [plan EXCEPT ![u] = Tail(@)]
        BY <1>0, <1>9 DEF Abandon, Wants, Done, ConnTypes, CallTypes
      <3>2. Tail(plan[u]) \in Seq(Ops)
        BY <3>1
      <3>3. plan' \in [Users -> Seq(Ops)]
        BY <1>0, <3>1, <3>2 DEF ConnTypes, CallTypes
      <3>4. PICK f \in BOOLEAN : chat' = [chat EXCEPT ![u].finished = f]
        BY <1>9 DEF Abandon
      <3>5. chat \in [Users -> [attached : Nat, seen : Int, started : BOOLEAN, finished : BOOLEAN]]
        BY <1>0 DEF ConnTypes, ChatTypes
      <3> QED BY <3>3, <3>4, <3>5
    <2>2. ~Waits(u)
      BY <1>9 DEF Abandon, Wants, Waits
    <2> QED BY <1>0, <1>9, <2>1, <2>2, NotCalled, GoAside DEF Abandon, Goto, Places, ConnTypes, CallTypes
  <1>10. CASE Notify(u)
    <2>1. requests' \in Seq(Requests)
          /\ \A i \in DOMAIN requests' : \/ requests'[i].id = 0
                                         \/ \E j \in DOMAIN requests : requests'[i] = requests[j]
      <3>1. /\ requests \in Seq(Requests) /\ [op |-> "detach", id |-> 0, since |-> 0] \in Requests
        BY <1>0 DEF ConnTypes, WireTypes, Requests
      <3>2. requests' = Append(requests, [op |-> "detach", id |-> 0, since |-> 0])
        BY <1>10 DEF Notify
      <3> QED BY <3>1, <3>2, AppendProperties
    <2>2. pc' = [pc EXCEPT ![u] = "unmark"] /\ pc[u] = "drop" /\ "unmark" \in Places
      BY <1>10 DEF Notify, Goto, Places
    <2>3. (\A w \in pending' : Waits(w[2])') /\ pc' \in [Threads -> Places]
      <3>1. \A w \in pending : w[2] # u
        BY <2>2, NotCalled DEF Waits
      <3> QED BY <1>0, <1>10, <2>2, <3>1, OneGoes DEF Notify
    <2>4. \A v \in Users : pc'[v] \in {"write", "await"} => pc[v] \in {"write", "await"}
      BY <1>0, <2>2 DEF ConnTypes, CallTypes
    <2>5. /\ UNCHANGED <<nextId, answer, inbox, job, handed, origin, covered, foreign, answers, closed,
                         sessionVars, pending, subs, chat, plan, alive, then>>
      BY <1>10 DEF Notify
    <2> QED BY <1>0, <2>1, <2>3, <2>4, <2>5 DEF Aside, ConnTypes, ChatTypes, CallTypes
  <1>11. CASE NotifyBroken(u)
    <2>1. /\ pc' = [pc EXCEPT ![u] = "cut"] /\ then' = [then EXCEPT ![u] = "unmark"]
          /\ "cut" \in Places \ {"write", "await"} /\ "unmark" \in Onward /\ ~Waits(u)
      BY <1>11 DEF NotifyBroken, Goto, Places, Onward, Waits
    <2>2. then' \in [Threads -> Onward] /\ \A s \in Threads : s # u => then'[s] = then[s]
      BY <1>0, <2>1 DEF ConnTypes, CallTypes
    <2> QED BY <1>0, <1>11, <2>1, <2>2, NotCalled, GoAside DEF NotifyBroken, ConnTypes, ChatTypes, CallTypes
  <1>12. CASE NotifyDead(u)
    <2>1. ~Waits(u)
      BY <1>12 DEF NotifyDead, Waits
    <2> QED BY <1>0, <1>12, <2>1, NotCalled, GoAside DEF NotifyDead, Goto, Places, ConnTypes, ChatTypes, CallTypes
  <1>13. CASE Unmark(u)
    <2>1. /\ chat' \in [Users -> [attached : Nat, seen : Int, started : BOOLEAN, finished : BOOLEAN]]
          /\ \A v \in Users : /\ chat'[v].seen = chat[v].seen
                              /\ chat'[v].attached \in {0, chat[v].attached}
      <3>1. chat' = [chat EXCEPT ![u].attached = 0]
        BY <1>13 DEF Unmark, Detached
      <3>2. chat \in [Users -> [attached : Nat, seen : Int, started : BOOLEAN, finished : BOOLEAN]]
        BY <1>0 DEF ConnTypes, ChatTypes
      <3> QED BY <3>1, <3>2
    <2>2. subs' \subseteq subs /\ ~Waits(u)
      BY <1>13 DEF Unmark, Detached, Unsubscribed, Waits
    <2> QED BY <1>0, <1>13, <2>1, <2>2, NotCalled, GoAside DEF Unmark, Goto, Places, ConnTypes, CallTypes
  <1> QED BY <1>1, <1>2, <1>3, <1>4, <1>5, <1>6, <1>7, <1>8, <1>9, <1>10, <1>11, <1>12, <1>13

\* So do the reader at the end of the stream, and disconnect when it clears.
LEMMA OtherAside ==
    ASSUME Connection, Eof \/ \E t \in Threads : ClearAll(t)
    PROVE  Aside
  <1>0. ConnTypes /\ "reader" \in Threads
    BY DEF Connection, Threads
  <1>1. CASE Eof
    <2>1. \A w \in pending : w[2] # "reader"
      BY <1>0, ClientAssumption DEF ConnTypes, CallTypes
    <2>2. then' \in [Threads -> Onward] /\ \A s \in Threads : s # "reader" => then'[s] = then[s]
      BY <1>0, <1>1 DEF Eof, ConnTypes, CallTypes, Onward
    <2>3. \E p \in {"cut", "ended"} : pc' = [pc EXCEPT !["reader"] = p]
      BY <1>1 DEF Eof, Goto
    <2>4. PICK p \in {"cut", "ended"} : pc' = [pc EXCEPT !["reader"] = p]
      BY <2>3
    <2> QED BY <1>0, <1>1, <2>1, <2>2, <2>4, GoAside DEF Eof, Places, ConnTypes, ChatTypes, CallTypes
  <1>2. ASSUME NEW t \in Threads, ClearAll(t) PROVE Aside
    <2>1. /\ pc[t] = "clear" /\ pc' = [pc EXCEPT ![t] = then[t]] /\ then' = then
          /\ then[t] \in Places \ {"write", "await"}
      BY <1>0, <1>2 DEF ClearAll, Goto, ConnTypes, CallTypes, Onward, Places
    <2>2. (\A w \in pending : w[2] # t) \/ then[t] = "failed"
      BY <2>1 DEF Connection, Registered, Waits
    <2> QED BY <1>0, <1>2, <2>1, <2>2, GoAside DEF ClearAll, ConnTypes, ChatTypes, CallTypes
  <1> QED BY <1>1, <1>2

-----------------------------------------------------------------------------
(* Steps of the daemon. *)

\* Every element of t is one of s.
From(t, s) == \A i \in DOMAIN t : \E j \in DOMAIN s : t[i] = s[j]

\* The rest of a sequence, and its first element, are from it.
LEMMA FromTail ==
    ASSUME NEW S, NEW s \in Seq(S), s # << >>
    PROVE  Tail(s) \in Seq(S) /\ From(Tail(s), s) /\ Head(s) \in S /\ \E j \in DOMAIN s : Head(s) = s[j]
  <1>1. /\ Tail(s) \in Seq(S) /\ Head(s) \in S /\ Len(s) \in Nat \ {0} /\ Head(s) = s[1]
        /\ Len(Tail(s)) = Len(s) - 1 /\ \A i \in 1 .. Len(Tail(s)) : Tail(s)[i] = s[i + 1]
    BY HeadTailProperties, EmptySeq
  <1>2. DOMAIN s = 1 .. Len(s) /\ DOMAIN Tail(s) = 1 .. Len(s) - 1
    BY <1>1
  <1>3. 1 \in DOMAIN s /\ \A i \in DOMAIN Tail(s) : i + 1 \in DOMAIN s
    BY <1>1, <1>2
  <1> QED BY <1>1, <1>2, <1>3 DEF From

\* What was appended is the one element that is new.
LEMMA FromAppend ==
    ASSUME NEW S, NEW s \in Seq(S), NEW m \in S
    PROVE  /\ Append(s, m) \in Seq(S)
           /\ \A i \in DOMAIN Append(s, m) :
                 Append(s, m)[i] = m \/ \E j \in DOMAIN s : Append(s, m)[i] = s[j]
  <1>1. /\ Append(s, m) \in Seq(S) /\ Len(Append(s, m)) = Len(s) + 1 /\ Len(s) \in Nat
        /\ Append(s, m)[Len(s) + 1] = m
        /\ \A i \in 1 .. Len(s) : Append(s, m)[i] = s[i]
    BY AppendProperties
  <1> QED BY <1>1

\* Every element of r is one of s or of t.
FromBoth(r, s, t) ==
    /\ r \in Seq(Wire)
    /\ \A i \in DOMAIN r : (\E j \in DOMAIN s : r[i] = s[j]) \/ (\E j \in DOMAIN t : r[i] = t[j])

\* Of two sequences in a row, every element is from one of them.
LEMMA FromConcat ==
    ASSUME NEW s \in Seq(Wire), NEW t \in Seq(Wire)
    PROVE  FromBoth(s \o t, s, t)
  <1> DEFINE r == s \o t
  <1>1. /\ r \in Seq(Wire) /\ Len(r) = Len(s) + Len(t) /\ Len(s) \in Nat /\ Len(t) \in Nat
        /\ \A i \in 1 .. Len(s) + Len(t) : r[i] = IF i <= Len(s) THEN s[i] ELSE t[i - Len(s)]
    BY ConcatProperties
  <1>2. \A i \in DOMAIN r : \/ i \in DOMAIN s /\ r[i] = s[i]
                            \/ i - Len(s) \in DOMAIN t /\ r[i] = t[i - Len(s)]
    BY <1>1
  <1> HIDE DEF r
  <1>3. FromBoth(r, s, t)
    BY <1>1, <1>2 DEF FromBoth
  <1> QED BY <1>3 DEF r

\* A prefix is from its sequence.
LEMMA FromPrefix ==
    ASSUME NEW S, NEW s \in Seq(S), NEW n \in 0 .. Len(s)
    PROVE  SubSeq(s, 1, n) \in Seq(S) /\ From(SubSeq(s, 1, n), s)
  <1>1. Len(s) \in Nat /\ DOMAIN s = 1 .. Len(s) /\ n \in Nat /\ n <= Len(s)
    OBVIOUS
  <1>2. /\ SubSeq(s, 1, n) \in Seq(S) /\ Len(SubSeq(s, 1, n)) = n
        /\ \A i \in 1 .. n : SubSeq(s, 1, n)[i] = s[i]
    BY <1>1, SubSeqProperties
  <1> QED BY <1>1, <1>2 DEF From

\* The daemon takes requests in their order, answers what it has taken, and
\* numbers its attachments and events.
Serves ==
    /\ UNCHANGED <<innerVars, threadVars, chatVars>>
    /\ requests' \in Seq(Requests) /\ serving' \in Seq(Requests) /\ answers' \in Seq(Wire)
    /\ session' \in [up : BOOLEAN, dying : BOOLEAN, listener : Nat, old : Nat, events : Nat, next : Int,
                     attaches : Nat]
    /\ stops' \in Nat /\ closed' \in BOOLEAN
    /\ From(requests', requests)
    /\ \A i \in DOMAIN serving' : \/ \E j \in DOMAIN requests : serving'[i] = requests[j]
                                  \/ \E j \in DOMAIN serving : serving'[i] = serving[j]
    /\ \A i \in DOMAIN answers' : \/ \E j \in DOMAIN answers : answers'[i] = answers[j]
                                  \/ /\ answers'[i].attach <= session'.attaches
                                     /\ answers'[i].seq < session'.events
                                     /\ answers'[i].kind = "reply" => answers'[i].id < nextId
    /\ session.attaches <= session'.attaches /\ session.events <= session'.events
    /\ serving' # << >> => session'.attaches # 0
    /\ Listened'

\* Such a step keeps types, ids, calls and numbers as they should be.
LEMMA ServesBase ==
    ASSUME Connection, Serves
    PROVE  Connection'
  <1>0. ConnTypes
    BY DEF Connection
  <1>1. ConnTypes'
    BY <1>0 DEF Serves, ConnTypes, WireTypes, ChatTypes, CallTypes
  <1>2. Known'
    <2>1. /\ UNCHANGED <<job, nextId>> /\ Known
          /\ \A i \in DOMAIN requests' : \E j \in DOMAIN requests : requests'[i] = requests[j]
          /\ \A i \in DOMAIN serving' : \/ \E j \in DOMAIN requests : serving'[i] = requests[j]
                                        \/ \E j \in DOMAIN serving : serving'[i] = serving[j]
          /\ \A i \in DOMAIN answers' : \/ \E j \in DOMAIN answers : answers'[i] = answers[j]
                                        \/ answers'[i].kind = "reply" => answers'[i].id < nextId
      BY DEF Connection, Serves, From
    <2>2. \A i \in DOMAIN requests' :
             /\ requests'[i].id < nextId
             /\ \A u \in Users : requests'[i].id = job[u].id /\ job[u].id # 0 => requests'[i] = job[u]
      BY <2>1 DEF Known
    <2>3. \A i \in DOMAIN serving' :
             /\ serving'[i].id < nextId
             /\ \A u \in Users : serving'[i].id = job[u].id /\ job[u].id # 0 => serving'[i] = job[u]
      BY <2>1 DEF Known
    <2>4. \A i \in DOMAIN answers' : answers'[i].kind = "reply" => answers'[i].id < nextId
      BY <2>1 DEF Known
    <2> QED BY <2>1, <2>2, <2>3, <2>4 DEF Known
  <1>3. Registered'
    BY DEF Connection, Serves, Registered, Waits
  <1>4. Numbered'
    <2>1. /\ session.attaches \in Nat /\ session'.attaches \in Nat
          /\ session.events \in Nat /\ session'.events \in Nat
          /\ \A u \in Users : chat[u].attached \in Nat
          /\ \A u \in Users : \A i \in DOMAIN inbox[u] :
                inbox[u][i].attach \in Nat /\ inbox[u][i].seq \in Int
          /\ \A u \in Users : \A i \in DOMAIN answer[u] :
                answer[u][i].ok => answer[u][i].attach \in Nat /\ answer[u][i].seq \in Int
          /\ \A i \in DOMAIN answers : answers[i].attach \in Nat /\ answers[i].seq \in Int
      <3>1. \A m \in Frames \cup Replies : m.attach \in Nat /\ m.seq \in Int
        BY DEF Frames, Replies
      <3>2. /\ \A u \in Users : inbox[u] \in Seq(Frames) /\ chat[u].attached \in Nat
            /\ answers \in Seq(Wire)
        BY <1>0 DEF ConnTypes, WireTypes, ChatTypes
      <3>3. /\ \A u \in Users : \A i \in DOMAIN inbox[u] : inbox[u][i] \in Frames
            /\ \A i \in DOMAIN answers : answers[i] \in Frames \cup Replies
        BY <3>2 DEF Wire
      <3>4. \A u \in Users : \A i \in DOMAIN answer[u] : answer[u][i].ok => answer[u][i] \in Replies
        BY DEF Connection, Registered
      <3> QED BY <1>0, <3>1, <3>2, <3>3, <3>4 DEF Serves, ConnTypes, WireTypes
    <2>3. /\ Numbered /\ UNCHANGED <<chat, inbox, answer>>
          /\ session.attaches <= session'.attaches /\ session.events <= session'.events
          /\ serving' # << >> => session'.attaches # 0
      BY DEF Connection, Serves
    <2>4. /\ \A x \in Nat : x <= session.attaches => x <= session'.attaches
          /\ \A y \in Int : y < session.events => y < session'.events
      BY <2>1, <2>3
    <2>5. \A i \in DOMAIN answers' :
             answers'[i].attach <= session'.attaches /\ answers'[i].seq < session'.events
      <3> SUFFICES ASSUME NEW i \in DOMAIN answers'
                   PROVE  answers'[i].attach <= session'.attaches /\ answers'[i].seq < session'.events
        OBVIOUS
      <3>1. \/ \E j \in DOMAIN answers : answers'[i] = answers[j]
            \/ answers'[i].attach <= session'.attaches /\ answers'[i].seq < session'.events
        BY DEF Serves
      <3>2. CASE \E j \in DOMAIN answers : answers'[i] = answers[j]
        <4>1. PICK j \in DOMAIN answers : answers'[i] = answers[j]
          BY <3>2
        <4>2. answers[j].attach <= session.attaches /\ answers[j].seq < session.events
          BY <2>3 DEF Numbered
        <4>3. answers[j].attach \in Nat /\ answers[j].seq \in Int
          BY <2>1
        <4> QED BY <2>4, <4>1, <4>2, <4>3
      <3> QED BY <3>1, <3>2
    <2> QED BY <2>1, <2>3, <2>4, <2>5 DEF Numbered
  <1>5. HasSeen'
    <2>1. session.events \in Nat /\ session'.events \in Nat /\ \A u \in Users : chat[u].seen \in Int
      BY <1>0 DEF Serves, ConnTypes, WireTypes, ChatTypes
    <2> QED BY <2>1 DEF Connection, Serves, HasSeen, Opens
  <1> QED BY <1>1, <1>2, <1>3, <1>4, <1>5 DEF Connection, Serves

\* The request that is served next is one that a thread has sent.
LEMMA RequestTaken ==
    ASSUME Connection, requests # << >>
    PROVE  /\ Tail(requests) \in Seq(Requests) /\ From(Tail(requests), requests)
           /\ Head(requests) \in Requests /\ \E j \in DOMAIN requests : Head(requests) = requests[j]
           /\ Head(requests).id < nextId /\ Head(requests).id \in Nat
           /\ \A u \in Users : Head(requests).id = job[u].id /\ job[u].id # 0 => Head(requests) = job[u]
  <1>1. /\ Tail(requests) \in Seq(Requests) /\ From(Tail(requests), requests)
        /\ Head(requests) \in Requests /\ \E j \in DOMAIN requests : Head(requests) = requests[j]
    BY FromTail DEF Connection, ConnTypes, WireTypes
  <1> QED BY <1>1 DEF Connection, Known, Requests

\* An answer is one to the call it was made for.
LEMMA ReplyType ==
    ASSUME Connection, NEW r, r.id \in Nat, NEW ok \in BOOLEAN
    PROVE  /\ Reply(r, ok) \in Replies /\ Reply(r, ok) \in Wire /\ Reply(r, ok).kind = "reply"
           /\ Reply(r, ok).id = r.id /\ Reply(r, ok).ok = ok
           /\ Reply(r, ok).attach = session.attaches /\ Reply(r, ok).seq = session.events - 1
  <1>1. session.events - 1 \in Int /\ session.attaches \in Nat
    BY DEF Connection, ConnTypes, WireTypes
  <1> QED BY <1>1 DEF Reply, Replies, Wire

\* The steps of that kind: open, its answer, the other requests, a session that
\* is put down, its farewell, an event, and the end of the connection.
LEMMA DaemonServes ==
    ASSUME Connection,
           ServeOpen \/ ServeOpened \/ Serve \/ TakeDown \/ Farewell \/ Publish \/ Close
    PROVE  Serves
  <1>0. /\ ConnTypes /\ Listened
        /\ session \in [up : BOOLEAN, dying : BOOLEAN, listener : Nat, old : Nat, events : Nat, next : Int,
                        attaches : Nat]
        /\ answers \in Seq(Wire) /\ requests \in Seq(Requests) /\ serving \in Seq(Requests)
    BY DEF Connection, ConnTypes, WireTypes
  <1>1. CASE ServeOpen
    <2> DEFINE r == Head(requests)
               from == IF r.since < 0 THEN session.events ELSE r.since
               s == Replayed(from, session.events, session.attaches + 1)
    <2>1. /\ requests # << >> /\ ~session.dying /\ serving' = <<r>> /\ requests' = Tail(requests)
          /\ session' = [session EXCEPT !.up = TRUE, !.listener = session.attaches + 1, !.next = from,
                                        !.attaches = session.attaches + 1]
          /\ answers' = answers \o s
          /\ UNCHANGED <<innerVars, threadVars, chatVars, closed, stops>>
      BY <1>1 DEF ServeOpen, Replayed, daemonRest
    <2>2. from \in Int /\ session.events \in Int /\ session.attaches + 1 \in Nat
      <3>1. r.since \in Int
        BY <2>1, RequestTaken DEF Requests
      <3>2. session.events \in Nat /\ session.attaches \in Nat
        BY <1>0
      <3> HIDE DEF r
      <3> QED BY <3>1, <3>2
    <2> HIDE DEF from
    <2>3. /\ s \in Seq(Wire)
          /\ \A i \in DOMAIN s : /\ s[i].attach = session.attaches + 1 /\ s[i].kind = "event"
                                /\ s[i].seq < session.events
      <3>1. s \in Seq(Frames) /\ \A i \in DOMAIN s : s[i].attach = session.attaches + 1
        BY <2>2, ReplayedType
      <3>2. \A i \in DOMAIN s : s[i].kind = "event" /\ s[i].seq < session.events
        BY <2>2 DEF Replayed, Frame
      <3> QED BY <3>1, <3>2, SeqMonotonic DEF Wire
    <2> HIDE DEF s
    <2>4. /\ answers' \in Seq(Wire)
          /\ \A i \in DOMAIN answers' : \/ \E j \in DOMAIN answers : answers'[i] = answers[j]
                                        \/ \E j \in DOMAIN s : answers'[i] = s[j]
      <3>1. answers' = answers \o s /\ answers \in Seq(Wire) /\ s \in Seq(Wire)
        BY <1>0, <2>1, <2>3
      <3>2. FromBoth(answers \o s, answers, s)
        BY <3>1, FromConcat
      <3> QED BY <3>1, <3>2 DEF FromBoth
    <2>5. /\ serving' \in Seq(Requests) /\ serving' # << >>
          /\ \A i \in DOMAIN serving' : serving'[i] = r
      BY <2>1, RequestTaken
    <2>6. /\ session'.attaches = session.attaches + 1 /\ session'.attaches # 0
          /\ session'.events = session.events
          /\ session' \in [up : BOOLEAN, dying : BOOLEAN, listener : Nat, old : Nat, events : Nat, next : Int,
                           attaches : Nat]
      <3>1. session.attaches \in Nat /\ session.attaches + 1 \in Nat /\ session.attaches + 1 # 0
        BY <1>0
      <3>2. session' = [session EXCEPT !.up = TRUE, !.listener = session.attaches + 1, !.next = from,
                                       !.attaches = session.attaches + 1]
        BY <2>1
      <3> QED BY <1>0, <2>2, <3>1, <3>2
    <2>7. Listened'
      BY <1>0, <2>1 DEF Listened
    <2>8. session.attaches <= session'.attaches /\ session.events <= session'.events
          /\ session.attaches + 1 <= session'.attaches
      BY <1>0, <2>6
    <2> HIDE DEF r
    <2>9. \A i \in DOMAIN answers' : \/ \E j \in DOMAIN answers : answers'[i] = answers[j]
                                     \/ /\ answers'[i].attach <= session'.attaches
                                        /\ answers'[i].seq < session'.events
                                        /\ answers'[i].kind = "reply" => answers'[i].id < nextId
      BY <2>3, <2>4, <2>6, <2>8
    <2>10. /\ UNCHANGED <<innerVars, threadVars, chatVars>>
           /\ stops' \in Nat /\ closed' \in BOOLEAN
      BY <1>0, <2>1 DEF ConnTypes, WireTypes, CallTypes
    <2>11. /\ requests' \in Seq(Requests) /\ From(requests', requests)
           /\ \A i \in DOMAIN serving' : \E j \in DOMAIN requests : serving'[i] = requests[j]
      BY <2>1, <2>5, RequestTaken DEF r
    <2> QED BY <2>4, <2>5, <2>6, <2>7, <2>8, <2>9, <2>10, <2>11 DEF Serves
  <1>2. CASE ServeOpened
    <2>1. /\ serving # << >> /\ serving' = << >> /\ answers' = Append(answers, Reply(Head(serving), TRUE))
          /\ UNCHANGED <<innerVars, threadVars, chatVars, closed, requests, session, stops>>
      BY <1>2 DEF ServeOpened, daemonRest
    <2>2. /\ Head(serving) \in Requests /\ Head(serving).id \in Nat /\ Head(serving).id < nextId
      <3>1. Head(serving) \in Requests /\ \E j \in DOMAIN serving : Head(serving) = serving[j]
        BY <1>0, <2>1, FromTail
      <3> QED BY <3>1 DEF Connection, Known, Requests
    <2>3. /\ answers' \in Seq(Wire)
          /\ \A i \in DOMAIN answers' : \/ answers'[i] = Reply(Head(serving), TRUE)
                                        \/ \E j \in DOMAIN answers : answers'[i] = answers[j]
      <3>1. Reply(Head(serving), TRUE) \in Wire
        BY <2>2, ReplyType
      <3>2. \A m \in Wire :
               /\ Append(answers, m) \in Seq(Wire)
               /\ \A i \in DOMAIN Append(answers, m) :
                     \/ Append(answers, m)[i] = m
                     \/ \E j \in DOMAIN answers : Append(answers, m)[i] = answers[j]
        BY <1>0, FromAppend
      <3> QED BY <2>1, <3>1, <3>2
    <2>4. /\ Reply(Head(serving), TRUE).attach <= session.attaches /\ Reply(Head(serving), TRUE).id < nextId
          /\ Reply(Head(serving), TRUE).seq < session.events
      <3>1. session.attaches <= session.attaches /\ session.events - 1 < session.events
        BY <1>0
      <3> QED BY <2>2, <3>1 DEF Reply
    <2>5. Listened' /\ From(requests', requests)
      BY <1>0, <2>1 DEF Listened, From
    <2>6. session.attaches <= session.attaches /\ session.events <= session.events
      BY <1>0
    <2>7. serving' \in Seq(Requests) /\ DOMAIN serving' = {}
      BY <2>1
    <2> QED BY <1>0, <2>1, <2>3, <2>4, <2>5, <2>6, <2>7 DEF Serves, ConnTypes, WireTypes, CallTypes
  <1>3. CASE Serve
    <2>1. /\ serving = << >> /\ requests # << >> /\ requests' = Tail(requests)
          /\ UNCHANGED <<innerVars, threadVars, chatVars, closed, serving, stops>>
          /\ session' = session \/ session' = [session EXCEPT !.listener = IF session.up THEN 0 ELSE @]
      BY <1>3 DEF Serve, daemonRest
    <2>2. \E ok \in BOOLEAN : answers' = Append(answers, Reply(Head(requests), ok))
      BY <1>0, <1>3 DEF Serve
    <2>3. PICK ok \in BOOLEAN : answers' = Append(answers, Reply(Head(requests), ok))
      BY <2>2
    <2>4. Head(requests).id \in Nat /\ Head(requests).id < nextId
      BY <2>1, RequestTaken
    <2>5. /\ answers' \in Seq(Wire)
          /\ \A i \in DOMAIN answers' : \/ answers'[i] = Reply(Head(requests), ok)
                                        \/ \E j \in DOMAIN answers : answers'[i] = answers[j]
      BY <1>0, <2>3, <2>4, ReplyType, FromAppend
    <2>6. /\ session'.attaches = session.attaches /\ session'.events = session.events
          /\ session' \in [up : BOOLEAN, dying : BOOLEAN, listener : Nat, old : Nat, events : Nat, next : Int,
                           attaches : Nat]
      <3>1. CASE session' = session
        BY <1>0, <3>1
      <3>2. CASE session' = [session EXCEPT !.listener = IF session.up THEN 0 ELSE @]
        BY <1>0, <3>2
      <3> QED BY <2>1, <3>1, <3>2
    <2>7. Listened'
      BY <1>0, <2>1 DEF Listened
    <2>8. /\ Reply(Head(requests), ok).attach <= session'.attaches /\ Reply(Head(requests), ok).id < nextId
          /\ Reply(Head(requests), ok).seq < session'.events
      BY <1>0, <2>4, <2>6, ReplyType
    <2>9. session.attaches <= session'.attaches /\ session.events <= session'.events
      BY <1>0, <2>6
    <2> QED BY <1>0, <2>1, <2>5, <2>6, <2>7, <2>8, <2>9, RequestTaken
            DEF Serves, ConnTypes, WireTypes, CallTypes
  <1>4. CASE TakeDown
    <2>1. /\ UNCHANGED <<innerVars, threadVars, chatVars, closed, requests, answers, serving>>
          /\ session' = [session EXCEPT !.up = FALSE, !.dying = TRUE, !.old = session.listener, !.listener = 0]
          /\ stops' \in {stops, stops + 1} /\ serving = << >>
      BY <1>4 DEF TakeDown, daemonRest
    <2>2. /\ session'.attaches = session.attaches /\ session'.events = session.events
          /\ session' \in [up : BOOLEAN, dying : BOOLEAN, listener : Nat, old : Nat, events : Nat, next : Int,
                           attaches : Nat]
      BY <1>0, <2>1
    <2>3. Listened' /\ From(requests', requests)
      BY <1>0, <2>1 DEF Listened, From
    <2>4. session.attaches <= session'.attaches /\ session.events <= session'.events
      BY <1>0, <2>2
    <2> QED BY <1>0, <2>1, <2>2, <2>3, <2>4 DEF Serves, ConnTypes, WireTypes, CallTypes
  <1>5. CASE Farewell \/ Publish
    <2>1. /\ UNCHANGED <<innerVars, threadVars, chatVars, closed, requests, serving, stops>>
          /\ \/ session' = [session EXCEPT !.dying = FALSE, !.old = 0]
             \/ session' = [session EXCEPT !.events = @ + 1]
      BY <1>5 DEF Farewell, Publish, daemonRest
    <2>2. /\ session'.attaches = session.attaches /\ session.events <= session'.events
          /\ session' \in [up : BOOLEAN, dying : BOOLEAN, listener : Nat, old : Nat, events : Nat, next : Int,
                           attaches : Nat]
          /\ session.attaches <= session'.attaches
      <3>0. /\ session.events \in Nat /\ session.attaches \in Nat
            /\ session.events <= session.events /\ session.events <= session.events + 1
            /\ session.attaches <= session.attaches /\ session.events + 1 \in Nat
        BY <1>0
      <3>1. CASE session' = [session EXCEPT !.dying = FALSE, !.old = 0]
        BY <1>0, <3>0, <3>1
      <3>2. CASE session' = [session EXCEPT !.events = @ + 1]
        BY <1>0, <3>0, <3>2
      <3> QED BY <2>1, <3>1, <3>2
    <2>3. \/ answers' = answers
          \/ \E l \in {session.listener, session.old}, m \in Frames :
                answers' = Append(answers, m) /\ m.attach = l /\ m.seq < session'.events
      <3>1. CASE Farewell
        <4>1. session.old # 0 => Frame("gone", -1, session.old) \in Frames
                                 /\ Frame("gone", -1, session.old).attach = session.old
                                 /\ Frame("gone", -1, session.old).seq < session'.events
          BY <1>0, <2>2 DEF Frame, Frames
        <4> QED BY <3>1, <4>1 DEF Farewell
      <3>2. CASE Publish
        <4>1. \A l \in {session.listener, session.old} :
                 Frame("event", session.events, l) \in Frames
                 /\ Frame("event", session.events, l).attach = l
                 /\ Frame("event", session.events, l).seq < session'.events
          <5>1. session' = [session EXCEPT !.events = @ + 1]
            BY <3>2 DEF Publish
          <5>2. session'.events = session.events + 1 /\ session.events \in Nat
            BY <1>0, <5>1
          <5> QED BY <1>0, <5>2 DEF Frame, Frames
        <4> QED BY <3>2, <4>1 DEF Publish
      <3> QED BY <1>5, <3>1, <3>2
    <2>4. /\ answers' \in Seq(Wire)
          /\ \A i \in DOMAIN answers' : \/ \E j \in DOMAIN answers : answers'[i] = answers[j]
                                        \/ /\ answers'[i].attach \in {session.listener, session.old}
                                           /\ answers'[i].kind # "reply"
                                           /\ answers'[i].seq < session'.events
      <3>1. CASE answers' = answers
        BY <1>0, <3>1
      <3>2. ASSUME NEW l \in {session.listener, session.old}, NEW m \in Frames,
                   answers' = Append(answers, m), m.attach = l, m.seq < session'.events
            PROVE  <2>4!1 /\ <2>4!2
        <4>1. m \in Wire /\ m.kind # "reply"
          BY DEF Wire, Frames
        <4> QED BY <1>0, <3>2, <4>1, FromAppend
      <3> QED BY <2>3, <3>1, <3>2
    <2>5. Listened'
      BY <1>0, <1>5, <2>1 DEF Listened, Farewell, Publish
    <2>6. \A l \in {session.listener, session.old} : l <= session'.attaches
      BY <1>0, <2>2 DEF Listened
    <2>7. From(requests', requests) /\ (serving' # << >> => session'.attaches # 0)
      BY <2>1, <2>2 DEF From, Connection, Numbered
    <2> QED BY <1>0, <2>1, <2>2, <2>4, <2>5, <2>6, <2>7 DEF Serves, ConnTypes, WireTypes, CallTypes
  <1>6. CASE Close
    <2>1. /\ UNCHANGED <<innerVars, threadVars, chatVars, requests, serving, session, stops>>
          /\ closed' = TRUE
      BY <1>6 DEF Close
    <2>2. PICK n \in 0 .. Len(answers) : answers' = SubSeq(answers, 1, n)
      BY <1>6 DEF Close
    <2>3. answers' \in Seq(Wire) /\ From(answers', answers)
      BY <1>0, <2>2, FromPrefix
    <2>4. Listened' /\ From(requests', requests) /\ (serving' # << >> => session'.attaches # 0)
      BY <1>0, <2>1 DEF Listened, From, Connection, Numbered
    <2>5. session.attaches <= session.attaches /\ session.events <= session.events
      BY <1>0
    <2> QED BY <1>0, <2>1, <2>3, <2>4, <2>5 DEF Serves, From, ConnTypes, WireTypes, CallTypes
  <1> QED BY <1>1, <1>2, <1>3, <1>4, <1>5, <1>6

-----------------------------------------------------------------------------
(* Calls. *)

\* What an open passes over was handed out, or its owner has asked to pass over it.
Passes(u, since) ==
    /\ covered' \in [Users -> SUBSET Int] /\ \A v \in Users : v # u => covered'[v] = covered[v]
    /\ covered[u] \subseteq covered'[u]
    /\ 0 .. chat[u].seen \subseteq covered[u] => 0 .. since - 1 \subseteq covered'[u]

\* A thread takes an id and waits for the answer; if it opens, it has a new
\* subscription.
Called(u) ==
    \E op \in {"open", "detach", "stop"} \cup Plain, since \in Int :
        /\ pc[u] = "idle" /\ Call(u, op, since)
        /\ \/ op = "open" /\ chat[u].attached = 0 /\ Passes(u, since) /\ Subscribe(u)
           \/ op # "open" /\ UNCHANGED <<subs, inbox, covered>>
        /\ plan' \in [Users -> Seq(Ops)]
        /\ UNCHANGED <<alive, then, chat, handed, origin, foreign, late, wireVars, sessionVars>>

\* What a thread is still going to do is shorter by one.
LEMMA PlanDone ==
    ASSUME Connection, NEW u \in Users, plan[u] # << >>, Done(u)
    PROVE  plan' \in [Users -> Seq(Ops)]
  BY DEF Connection, ConnTypes, CallTypes, Done

\* start_since, send, change, refresh, detach, stop and the calls about nothing
\* in particular are calls.
LEMMA CallsCalled ==
    ASSUME Connection, NEW u \in Users,
           Start(u) \/ Send(u) \/ Change(u) \/ Refresh(u) \/ Ask(u) \/ Detach(u) \/ Stop(u)
    PROVE  Called(u)
  <1>0. /\ plan \in [Users -> Seq(Ops)] /\ chat[u].seen \in Int /\ chat[u].seen + 1 \in Int
        /\ -1 \in Int /\ 0 \in Int /\ MaxEvents \in Nat /\ covered \in [Users -> SUBSET Int]
    BY ClientAssumption DEF Connection, ConnTypes, CallTypes, ChatTypes
  <1>1. CASE Start(u)
    <2>1. PICK since \in Position(u) :
             /\ Call(u, "open", since)
             /\ covered' = IF Head(plan[u]) = "from" THEN [covered EXCEPT ![u] = @ \cup 0 .. since - 1]
                           ELSE covered
      BY <1>1 DEF Start
    <2>2. since \in Int
      BY <1>0 DEF Position
    <2>3. plan' \in [Users -> Seq(Ops)]
      BY <1>0, <1>1, PlanDone DEF Start, Wants
    <2>4. Passes(u, since)
      <3>1. CASE Head(plan[u]) = "from"
        <4>1. 0 .. since - 1 \subseteq Int
          BY <2>2
        <4> QED BY <1>0, <2>1, <3>1, <4>1 DEF Passes
      <3>2. CASE Head(plan[u]) \in {"start", "live"}
        <4>1. 0 .. since - 1 = {}
          BY <3>2 DEF Position
        <4> QED BY <1>0, <2>1, <3>2, <4>1 DEF Passes
      <3>3. CASE Head(plan[u]) \notin Starts
        <4>1. since - 1 = chat[u].seen
          BY <1>0, <3>3 DEF Position, Starts
        <4> QED BY <1>0, <2>1, <3>3, <4>1 DEF Passes, Starts
      <3> QED BY <3>1, <3>2, <3>3 DEF Starts
    <2> QED BY <1>1, <2>1, <2>2, <2>3, <2>4 DEF Start, Called, Wants, Attached
  <1>2. CASE Send(u) \/ Change(u) \/ Refresh(u) \/ Ask(u) \/ Detach(u) \/ Stop(u)
    <2>1. plan' \in [Users -> Seq(Ops)] /\ pc[u] = "idle"
      BY <1>2, PlanDone DEF Send, Change, Refresh, Ask, Detach, Stop, Wants
    <2>2. \E op \in {"detach", "stop"} \cup Plain : Call(u, op, 0)
      BY <1>2 DEF Send, Change, Refresh, Ask, Detach, Stop, Plain
    <2>3. UNCHANGED <<subs, inbox, alive, then, chatVars, wireVars, sessionVars>>
      BY <1>2 DEF Send, Change, Refresh, Ask, Detach, Stop
    <2>4. \A op \in {"detach", "stop"} \cup Plain : op # "open"
      BY DEF Plain
    <2> QED BY <1>0, <2>1, <2>2, <2>3, <2>4 DEF Called
  <1> QED BY <1>1, <1>2

\* Of a call nothing is known yet, and everybody else is as before.
LEMMA CalledFresh ==
    ASSUME Connection, NEW u \in Users, Called(u)
    PROVE  /\ nextId \in Nat \ {0} /\ nextId' = nextId + 1
           /\ job'[u].id = nextId /\ job'[u] \in Requests /\ answer'[u] = << >>
           /\ \A v \in Users : v # u => /\ job'[v] = job[v] /\ answer'[v] = answer[v] /\ pc'[v] = pc[v]
                                        /\ inbox'[v] = inbox[v] /\ (v \in subs' <=> v \in subs)
           /\ pc'[u] = "write" /\ job' \in [Users -> Requests]
           /\ answer' \in [Users -> Seq(Replies \cup Refusals)]
           /\ inbox' \in [Users -> Seq(Frames)] /\ subs' \subseteq Users
           /\ pc' \in [Threads -> Places] /\ pending' = pending \cup {<<nextId, u>>}
           /\ \/ job'[u].op # "open" /\ inbox' = inbox /\ subs' = subs
              \/ job'[u].op = "open" /\ inbox'[u] = << >> /\ u \in subs' /\ chat[u].attached = 0
           /\ UNCHANGED <<alive, then, chat, handed, origin, foreign, late, wireVars, sessionVars>>
           /\ plan' \in [Users -> Seq(Ops)]
           /\ covered' \in [Users -> SUBSET Int] /\ \A v \in Users : v # u => covered'[v] = covered[v]
           /\ covered[u] \subseteq covered'[u]
           /\ job'[u].op = "open" /\ 0 .. chat[u].seen \subseteq covered[u]
              => 0 .. job'[u].since - 1 \subseteq covered'[u]
  <1>1. PICK op \in {"open", "detach", "stop"} \cup Plain, since \in Int :
          /\ Call(u, op, since)
          /\ \/ op = "open" /\ chat[u].attached = 0 /\ Passes(u, since) /\ Subscribe(u)
             \/ op # "open" /\ UNCHANGED <<subs, inbox, covered>>
    BY DEF Called
  <1>2. /\ nextId \in Nat \ {0} /\ job \in [Users -> Requests] /\ subs \subseteq Users
        /\ answer \in [Users -> Seq(Replies \cup Refusals)] /\ inbox \in [Users -> Seq(Frames)]
        /\ pc \in [Threads -> Places] /\ u \in Threads /\ Users \subseteq Threads
        /\ << >> \in Seq(Frames) /\ << >> \in Seq(Replies \cup Refusals) /\ "write" \in Places
        /\ covered \in [Users -> SUBSET Int]
    <2>1. /\ nextId \in Nat \ {0} /\ job \in [Users -> Requests] /\ subs \subseteq Users
          /\ pc \in [Threads -> Places]
      BY DEF Connection, ConnTypes, CallTypes
    <2>2. /\ answer \in [Users -> Seq(Replies \cup Refusals)] /\ inbox \in [Users -> Seq(Frames)]
          /\ covered \in [Users -> SUBSET Int]
      BY DEF Connection, ConnTypes, ChatTypes, WireTypes
    <2>3. u \in Threads /\ Users \subseteq Threads /\ "write" \in Places
      BY DEF Threads, Places
    <2>4. << >> \in Seq(Frames) /\ << >> \in Seq(Replies \cup Refusals)
      OBVIOUS
    <2> QED BY <2>1, <2>2, <2>3, <2>4
  <1>3. [op |-> op, id |-> nextId, since |-> since] \in Requests
    BY <1>2 DEF Requests
  <1>4. /\ nextId' = nextId + 1 /\ pending' = pending \cup {<<nextId, u>>}
        /\ job' = [job EXCEPT ![u] = [op |-> op, id |-> nextId, since |-> since]]
        /\ answer' = [answer EXCEPT ![u] = << >>] /\ pc' = [pc EXCEPT ![u] = "write"]
    BY <1>1 DEF Call, Goto
  <1>5. /\ UNCHANGED <<alive, then, chat, handed, origin, foreign, late, wireVars, sessionVars>>
        /\ plan' \in [Users -> Seq(Ops)]
    BY DEF Called
  <1>6. CASE op = "open"
    <2>1. Passes(u, since)
      BY <1>1, <1>6
    <2> QED BY <1>1, <1>2, <1>3, <1>4, <1>5, <1>6, <2>1 DEF Subscribe, Passes
  <1>7. CASE op # "open"
    BY <1>1, <1>2, <1>3, <1>4, <1>5, <1>7
  <1> QED BY <1>6, <1>7

\* A call keeps types, ids, calls and numbers: its id is a fresh one.
LEMMA CalledBase ==
    ASSUME Connection, NEW u \in Users, Called(u)
    PROVE  Connection'
  <1>0. ConnTypes /\ Listened /\ Known /\ Registered /\ Numbered /\ HasSeen
    BY DEF Connection
  <1>1. /\ nextId \in Nat \ {0} /\ nextId' = nextId + 1
        /\ job'[u].id = nextId /\ job'[u] \in Requests /\ answer'[u] = << >>
        /\ \A v \in Users : v # u => /\ job'[v] = job[v] /\ answer'[v] = answer[v] /\ pc'[v] = pc[v]
                                     /\ inbox'[v] = inbox[v]
        /\ pc'[u] = "write" /\ job' \in [Users -> Requests]
        /\ answer' \in [Users -> Seq(Replies \cup Refusals)]
        /\ inbox' \in [Users -> Seq(Frames)] /\ subs' \subseteq Users
        /\ pc' \in [Threads -> Places] /\ pending' = pending \cup {<<nextId, u>>}
        /\ UNCHANGED <<alive, then, chat, handed, origin, foreign, late, wireVars, sessionVars>>
        /\ plan' \in [Users -> Seq(Ops)] /\ covered' \in [Users -> SUBSET Int]
    BY CalledFresh
  <1>2. inbox'[u] \in {inbox[u], << >>}
    BY CalledFresh
  <1>3. ConnTypes'
    <2>1. nextId' \in Nat \ {0} /\ pending' \subseteq Nat \X Users
      BY <1>0, <1>1 DEF ConnTypes, CallTypes
    <2> QED BY <1>0, <1>1, <2>1 DEF ConnTypes, WireTypes, ChatTypes, CallTypes
  <1>4. Listened'
    BY <1>0, <1>1 DEF Listened
  <1>9. UNCHANGED <<requests, answers, serving, session, chat>>
    BY <1>1
  <1>5. Known'
    <2>1. /\ \A v \in Users : job[v].id \in Nat
          /\ \A i \in DOMAIN requests : requests[i].id \in Nat
          /\ \A i \in DOMAIN serving : serving[i].id \in Nat
      <3>1. \A r \in Requests : r.id \in Nat
        BY DEF Requests
      <3>2. /\ \A v \in Users : job[v] \in Requests
            /\ \A i \in DOMAIN requests : requests[i] \in Requests
            /\ \A i \in DOMAIN serving : serving[i] \in Requests
        BY <1>0 DEF ConnTypes, WireTypes, CallTypes
      <3> QED BY <3>1, <3>2
    <2>2. \A i \in DOMAIN answers : answers[i].kind = "reply" => answers[i].id \in Nat
      <3>1. \A m \in Wire : m.kind = "reply" => m.id \in Nat
        BY DEF Wire, Frames, Replies
      <3> QED BY <1>0, <3>1, MessageSeq DEF ConnTypes, WireTypes
    <2>3. \A n \in Nat : n < nextId => n < nextId' /\ n # nextId
      BY <1>1
    <2>4. \A r : r.id \in Nat /\ r.id < nextId
                 /\ (\A v \in Users : r.id = job[v].id /\ job[v].id # 0 => r = job[v])
              => /\ r.id < nextId'
                 /\ \A v \in Users : r.id = job'[v].id /\ job'[v].id # 0 => r = job'[v]
      <3> SUFFICES ASSUME NEW r, r.id \in Nat, r.id < nextId,
                          \A v \in Users : r.id = job[v].id /\ job[v].id # 0 => r = job[v]
                   PROVE  /\ r.id < nextId'
                          /\ \A v \in Users : r.id = job'[v].id /\ job'[v].id # 0 => r = job'[v]
        OBVIOUS
      <3>1. r.id < nextId' /\ r.id # nextId
        BY <2>3
      <3>2. ASSUME NEW v \in Users, r.id = job'[v].id, job'[v].id # 0
            PROVE  r = job'[v]
        <4>1. v # u
          BY <1>1, <3>1, <3>2
        <4> QED BY <1>1, <3>2, <4>1
      <3> QED BY <3>1, <3>2
    <2>5. /\ \A i \in DOMAIN requests : requests[i].id < nextId /\ \A v \in Users : requests[i].id = job[v].id /\ job[v].id # 0 => requests[i] = job[v]
          /\ \A i \in DOMAIN serving : serving[i].id < nextId /\ \A v \in Users : serving[i].id = job[v].id /\ job[v].id # 0 => serving[i] = job[v]
      BY <1>0 DEF Known
    <2>6. \A i \in DOMAIN answers : answers[i].kind = "reply" => answers[i].id < nextId'
      BY <1>0, <2>2, <2>3 DEF Known
    <2>7. \A v \in Users : job'[v].id < nextId' /\ (v # u => job'[v].id # nextId /\ job'[v] = job[v])
      BY <1>0, <1>1, <2>1, <2>3 DEF Known
    <2>8. ASSUME NEW v \in Users, NEW w \in Users, job'[v].id = job'[w].id, job'[v].id # 0
          PROVE  v = w
      <3>1. CASE v = u \/ w = u
        BY <1>1, <2>7, <2>8, <3>1
      <3>2. CASE v # u /\ w # u
        BY <1>0, <2>7, <2>8, <3>2 DEF Known
      <3> QED BY <3>1, <3>2
    <2>9. /\ \A i \in DOMAIN requests :
                /\ requests[i].id < nextId'
                /\ \A v \in Users : requests[i].id = job'[v].id /\ job'[v].id # 0 => requests[i] = job'[v]
          /\ \A i \in DOMAIN serving :
                /\ serving[i].id < nextId'
                /\ \A v \in Users : serving[i].id = job'[v].id /\ job'[v].id # 0 => serving[i] = job'[v]
      BY <2>1, <2>4, <2>5
    <2> QED BY <1>9, <2>6, <2>7, <2>8, <2>9 DEF Known
  <1>6. Registered'
    <2>1. \A w \in pending : w[2] # u /\ w[2] \in Users
      <3>1. ~Waits(u)
        <4>1. pc[u] = "idle"
          BY DEF Called
        <4> QED BY <4>1 DEF Waits
      <3> QED BY <1>0, <3>1, NotCalled DEF ConnTypes, CallTypes
    <2>2. \A v \in Users : v # u => (Waits(v)' <=> Waits(v))
      BY <1>1 DEF Waits
    <2>3. Waits(u)'
      BY <1>1 DEF Waits
    <2>4. ASSUME NEW w \in pending'
          PROVE  w[1] = job'[w[2]].id /\ w[1] # 0 /\ Waits(w[2])' /\ answer'[w[2]] = << >>
      <3>1. CASE w \in pending
        <4>1. w[1] = job[w[2]].id /\ w[1] # 0 /\ Waits(w[2]) /\ answer[w[2]] = << >>
          BY <1>0, <3>1 DEF Registered
        <4> QED BY <1>1, <2>1, <2>2, <3>1, <4>1
      <3>2. CASE w = <<nextId, u>>
        BY <1>1, <2>3, <3>2
      <3> QED BY <1>1, <3>1, <3>2
    <2>5. ASSUME NEW v \in Users, NEW i \in DOMAIN answer'[v], answer'[v][i].ok
          PROVE  answer'[v][i] \in Replies /\ answer'[v][i].id = job'[v].id
      <3>1. v # u
        BY <1>1, <2>5
      <3>2. answer'[v] = answer[v] /\ job'[v] = job[v]
        BY <1>1, <3>1
      <3>3. answer[v][i].ok => answer[v][i] \in Replies /\ answer[v][i].id = job[v].id
        <4>1. i \in DOMAIN answer[v]
          BY <2>5, <3>2
        <4> QED BY <1>0, <4>1 DEF Registered
      <3> QED BY <2>5, <3>2, <3>3
    <2> QED BY <2>4, <2>5 DEF Registered
  <1>7. Numbered'
    <2>1. ASSUME NEW v \in Users, NEW i \in DOMAIN inbox'[v]
          PROVE  inbox'[v][i].attach <= session.attaches /\ inbox'[v][i].seq < session.events
      <3>1. inbox'[v] = inbox[v]
        BY <1>1, <1>2, <2>1
      <3> QED BY <1>0, <2>1, <3>1 DEF Numbered
    <2>2. ASSUME NEW v \in Users, NEW i \in DOMAIN answer'[v], answer'[v][i].ok
          PROVE  answer'[v][i].attach <= session.attaches /\ answer'[v][i].seq < session.events
      <3>1. answer'[v] = answer[v]
        BY <1>1, <2>2
      <3> QED BY <1>0, <2>2, <3>1 DEF Numbered
    <2> QED BY <1>0, <1>9, <2>1, <2>2 DEF Numbered
  <1>8. HasSeen'
    BY <1>0, <1>1, <1>2 DEF HasSeen, Opens
  <1> QED BY <1>3, <1>4, <1>5, <1>6, <1>7, <1>8 DEF Connection

-----------------------------------------------------------------------------
(* An open that was answered, and what is received. *)

\* A Chat that was attached has seen what it asked for.
LEMMA StartedBase ==
    ASSUME Connection, NEW u \in Users, Started(u)
    PROVE  /\ Connection' /\ Opens(u) /\ ~Opens(u)' /\ answer[u] # << >> /\ answer[u][1] = Head(answer[u])
           /\ 1 \in DOMAIN answer[u] /\ Head(answer[u]).ok /\ Head(answer[u]) \in Replies
           /\ chat'[u].attached = Head(answer[u]).attach
           /\ chat'[u].seen = MaxOf(chat[u].seen, SeenAfter(u, Head(answer[u])))
           /\ \A v \in Users : v # u => chat'[v] = chat[v] /\ (Opens(v)' <=> Opens(v))
  <1> DEFINE m == Head(answer[u])
  <1>0. ConnTypes /\ Listened /\ Known /\ Registered /\ Numbered /\ HasSeen
    BY DEF Connection
  <1>1. /\ pc[u] = "await" /\ job[u].op = "open" /\ answer[u] # << >> /\ m.ok
        /\ chat' = [chat EXCEPT ![u].attached = m.attach, ![u].started = TRUE,
                                 ![u].seen = MaxOf(@, SeenAfter(u, m))]
        /\ handed' = [handed EXCEPT ![u] = << >>]
        /\ pc' = [pc EXCEPT ![u] = "idle"]
        /\ UNCHANGED <<innerVars, answer, inbox, plan, job, then, foreign, late, wireVars, sessionVars>>
    BY DEF Started, Goto
  <1>2. answer[u] \in Seq(Replies \cup Refusals) /\ u \in Threads /\ Users \subseteq Threads
    BY <1>0 DEF ConnTypes, WireTypes, Threads
  <1>3. m = answer[u][1] /\ 1 \in DOMAIN answer[u]
    BY <1>1, <1>2
  <1>4. m \in Replies /\ m.attach <= session.attaches /\ m.seq < session.events
    BY <1>0, <1>1, <1>3 DEF Registered, Numbered
  <1>5. m.seq \in Int /\ m.attach \in Nat
    BY <1>4 DEF Replies
  <1>6. /\ chat[u].seen \in Int /\ session.events \in Int /\ job[u].since \in Int
        /\ chat[u] \in [attached : Nat, seen : Int, started : BOOLEAN, finished : BOOLEAN]
    BY SMTT(30), <1>0 DEF ConnTypes, ChatTypes, CallTypes, WireTypes, Requests
  <1>7. Opens(u)
    BY <1>0, <1>1 DEF Opens
  <1> DEFINE seen == MaxOf(chat[u].seen, SeenAfter(u, m))
             new == IF job[u].since < 0 THEN [asked |-> 0, full |-> m.seq + 1]
                    ELSE [asked |-> job[u].since, full |-> job[u].since]
  <1>17. /\ origin' = [origin EXCEPT ![u] = new]
         /\ covered' = IF job[u].since < 0 THEN [covered EXCEPT ![u] = @ \cup 0 .. m.seq] ELSE covered
    BY DEF Started
  <1> HIDE DEF m
  <1>8. seen \in Int /\ -1 <= seen /\ new.full - 1 <= seen /\ new \in [asked : Int, full : Int]
    <2>1. -1 <= chat[u].seen
      BY <1>0 DEF HasSeen
    <2>2. SeenAfter(u, m) = new.full - 1 /\ SeenAfter(u, m) \in Int
      BY <1>5, <1>6 DEF SeenAfter
    <2>3. new \in [asked : Int, full : Int]
      BY <1>5, <1>6
    <2> HIDE DEF new
    <2> QED BY <1>6, <2>1, <2>2, <2>3 DEF MaxOf
  <1> HIDE DEF seen, new
  <1>9. /\ chat'[u].attached = m.attach /\ chat'[u].seen = seen
        /\ chat' \in [Users -> [attached : Nat, seen : Int, started : BOOLEAN, finished : BOOLEAN]]
        /\ \A v \in Users : v # u => chat'[v] = chat[v]
    <2>1. chat \in [Users -> [attached : Nat, seen : Int, started : BOOLEAN, finished : BOOLEAN]]
      BY <1>0 DEF ConnTypes, ChatTypes
    <2> QED BY <1>1, <1>5, <1>6, <1>8, <2>1 DEF seen
  <1>10. /\ pc \in [Threads -> Places] /\ pc' \in [Threads -> Places] /\ pc'[u] = "idle"
         /\ \A v \in Users : v # u => pc'[v] = pc[v]
    <2>1. pc \in [Threads -> Places] /\ "idle" \in Places
      BY <1>0 DEF ConnTypes, CallTypes, Places
    <2> QED BY <1>1, <1>2, <2>1
  <1>11. ConnTypes'
    <2>1. origin' \in [Users -> [asked : Int, full : Int]] /\ covered' \in [Users -> SUBSET Int]
      <3>1. /\ origin \in [Users -> [asked : Int, full : Int]] /\ covered \in [Users -> SUBSET Int]
            /\ 0 .. m.seq \subseteq Int
        BY <1>0, <1>5 DEF ConnTypes, ChatTypes
      <3> QED BY <1>8, <1>17, <3>1
    <2>2. handed' \in [Users -> Seq(Int)]
      <3>1. handed \in [Users -> Seq(Int)] /\ << >> \in Seq(Int)
        BY <1>0 DEF ConnTypes, ChatTypes
      <3> QED BY <1>1, <3>1
    <2> QED BY <1>0, <1>1, <1>9, <1>10, <2>1, <2>2 DEF ConnTypes, WireTypes, ChatTypes, CallTypes
  <1>12. Listened' /\ Known'
    BY <1>0, <1>1 DEF Listened, Known
  <1>13. Registered'
    <2>1. \A w \in pending : w[2] # u /\ w[2] \in Users
      BY <1>0, <1>1, NotCalled DEF ConnTypes, CallTypes
    <2>2. \A v \in Users : v # u => (Waits(v)' <=> Waits(v))
      BY <1>1, <1>10 DEF Waits
    <2> QED BY <1>0, <1>1, <2>1, <2>2 DEF Registered
  <1>14. Numbered'
    BY <1>0, <1>1, <1>4, <1>9 DEF Numbered
  <1>15. ~Opens(u)' /\ \A v \in Users : v # u => (Opens(v)' <=> Opens(v))
    BY <1>1, <1>10 DEF Opens
  <1>16. HasSeen'
    <2>1. /\ handed'[u] = << >> /\ origin'[u] = new
          /\ \A v \in Users : v # u => handed'[v] = handed[v] /\ origin'[v] = origin[v]
      BY <1>0, <1>1, <1>17 DEF ConnTypes, ChatTypes
    <2>2. ASSUME NEW v \in Users
          PROVE  /\ -1 <= chat'[v].seen /\ origin'[v].full - 1 <= chat'[v].seen
                 /\ \A k \in DOMAIN handed'[v] : handed'[v][k] <= chat'[v].seen
                 /\ Opens(v)' => job'[v].id # 0
      <3>1. CASE v = u
        BY <1>1, <1>8, <1>9, <1>15, <2>1, <3>1
      <3>2. CASE v # u
        BY <1>0, <1>1, <1>9, <1>15, <2>1, <3>2 DEF HasSeen
      <3> QED BY <3>1, <3>2
    <2> QED BY <2>2 DEF HasSeen
  <1> QED BY <1>1, <1>3, <1>4, <1>7, <1>9, <1>11, <1>12, <1>13, <1>14, <1>15, <1>16 DEF Connection, m, seen

\* A frame is taken out of the channel of a thread that is idle.
LEMMA InboxTail ==
    ASSUME Connection, NEW u \in Users, inbox[u] # << >>, inbox' = [inbox EXCEPT ![u] = Tail(@)]
    PROVE  /\ inbox' \in [Users -> Seq(Frames)] /\ inbox'[u] = Tail(inbox[u])
           /\ \A v \in Users : v # u => inbox'[v] = inbox[v]
           /\ \A v \in Users : From(inbox'[v], inbox[v])
           /\ Head(inbox[u]) \in Frames /\ Head(inbox[u]).seq < session.events
  <1>1. inbox \in [Users -> Seq(Frames)]
    BY DEF Connection, ConnTypes, WireTypes
  <1>2. /\ Tail(inbox[u]) \in Seq(Frames) /\ From(Tail(inbox[u]), inbox[u]) /\ Head(inbox[u]) \in Frames
        /\ \E j \in DOMAIN inbox[u] : Head(inbox[u]) = inbox[u][j]
    BY <1>1, FromTail
  <1>3. Head(inbox[u]).seq < session.events
    BY <1>2 DEF Connection, Numbered
  <1> QED BY <1>1, <1>2, <1>3 DEF From

\* next_event hands one event out and has seen it.
LEMMA ReceiveBase ==
    ASSUME Connection, NEW u \in Users, Receive(u)
    PROVE  /\ Connection' /\ ~Opens(u)'
           /\ \A v \in Users : v # u => chat'[v] = chat[v] /\ handed'[v] = handed[v]
           /\ chat'[u].attached = chat[u].attached
           /\ chat'[u].seen = MaxOf(chat[u].seen, Head(inbox[u]).seq)
           /\ handed'[u] = Append(handed[u], Head(inbox[u]).seq)
  <1> DEFINE m == Head(inbox[u])
  <1>0. ConnTypes /\ Listened /\ Known /\ Registered /\ Numbered /\ HasSeen
    BY DEF Connection
  <1>1. /\ pc[u] = "idle" /\ inbox[u] # << >>
        /\ chat' = [chat EXCEPT ![u].seen = MaxOf(@, m.seq)]
        /\ handed' = [handed EXCEPT ![u] = Append(@, m.seq)]
        /\ foreign' = (foreign \/ m.attach # chat[u].attached)
        /\ covered' = [covered EXCEPT ![u] = @ \cup {m.seq}]
        /\ inbox' = [inbox EXCEPT ![u] = Tail(@)]
        /\ UNCHANGED <<innerVars, answer, pc, plan, job, then, origin, late, wireVars, sessionVars>>
    BY DEF Receive, Incoming
  <1>2. /\ inbox' \in [Users -> Seq(Frames)] /\ m \in Frames /\ m.seq < session.events
        /\ \A v \in Users : From(inbox'[v], inbox[v])
    BY <1>1, InboxTail
  <1>3. /\ chat \in [Users -> [attached : Nat, seen : Int, started : BOOLEAN, finished : BOOLEAN]]
        /\ handed \in [Users -> Seq(Int)] /\ m.seq \in Int /\ chat[u].seen \in Int
        /\ session.events \in Int
    <2>1. \A f \in Frames : f.seq \in Int
      BY DEF Frames
    <2>2. m.seq \in Int
      BY <1>2, <2>1
    <2> QED BY SMTT(30), <1>0, <2>2 DEF ConnTypes, ChatTypes, WireTypes
  <1> HIDE DEF m
  <1>4. /\ MaxOf(chat[u].seen, m.seq) \in Int /\ chat[u].seen <= MaxOf(chat[u].seen, m.seq)
        /\ m.seq <= MaxOf(chat[u].seen, m.seq) /\ -1 <= MaxOf(chat[u].seen, m.seq)
        /\ origin[u].full - 1 <= MaxOf(chat[u].seen, m.seq)
    <2>1. -1 <= chat[u].seen /\ origin[u].full - 1 <= chat[u].seen /\ origin[u].full \in Int
      BY <1>0, LoType DEF HasSeen
    <2> QED BY <1>3, <2>1 DEF MaxOf
  <1>5. /\ chat' \in [Users -> [attached : Nat, seen : Int, started : BOOLEAN, finished : BOOLEAN]]
        /\ chat'[u].seen = MaxOf(chat[u].seen, m.seq) /\ chat'[u].attached = chat[u].attached
        /\ \A v \in Users : v # u => chat'[v] = chat[v]
    BY <1>1, <1>3, <1>4
  <1>6. /\ handed' \in [Users -> Seq(Int)] /\ handed'[u] = Append(handed[u], m.seq)
        /\ \A v \in Users : v # u => handed'[v] = handed[v]
    <2>1. Append(handed[u], m.seq) \in Seq(Int)
      BY <1>3
    <2> QED BY <1>1, <1>3, <2>1
  <1>7. ConnTypes'
    <2>1. foreign' \in BOOLEAN
      BY <1>0, <1>1 DEF ConnTypes, ChatTypes
    <2>2. covered' \in [Users -> SUBSET Int]
      <3>1. covered \in [Users -> SUBSET Int] /\ {m.seq} \subseteq Int
        BY <1>0, <1>3 DEF ConnTypes, ChatTypes
      <3> QED BY <1>1, <3>1
    <2> QED BY <1>0, <1>1, <1>2, <1>5, <1>6, <2>1, <2>2 DEF ConnTypes, WireTypes, ChatTypes, CallTypes
  <1>8. Listened' /\ Known' /\ Registered'
    BY <1>0, <1>1 DEF Listened, Known, Registered, Waits
  <1>9. Numbered'
    <2>1. \A v \in Users : chat'[v].attached = chat[v].attached
      BY <1>5
    <2>2. \A v \in Users : \A i \in DOMAIN inbox'[v] :
             inbox'[v][i].attach <= session.attaches /\ inbox'[v][i].seq < session.events
      BY <1>0, <1>2 DEF Numbered, From
    <2> QED BY <1>0, <1>1, <2>1, <2>2 DEF Numbered
  <1>10. ~Opens(u)' /\ \A v \in Users : v # u => (Opens(v)' <=> Opens(v))
    BY <1>1 DEF Opens
  <1>11. HasSeen'
    <2>1. \A k \in DOMAIN handed'[u] : handed'[u][k] <= MaxOf(chat[u].seen, m.seq)
      <3>1. \A k \in DOMAIN handed[u] : handed[u][k] \in Int /\ handed[u][k] <= chat[u].seen
        BY <1>0, <1>3 DEF HasSeen
      <3>2. \A k \in DOMAIN handed'[u] : handed'[u][k] = m.seq \/ \E j \in DOMAIN handed[u] : handed'[u][k] = handed[u][j]
        BY <1>3, <1>6, FromAppend
      <3>3. \A x \in Int : x = m.seq \/ x <= chat[u].seen => x <= MaxOf(chat[u].seen, m.seq)
        BY <1>3 DEF MaxOf
      <3>4. \A k \in DOMAIN handed'[u] :
               handed'[u][k] \in Int /\ (handed'[u][k] = m.seq \/ handed'[u][k] <= chat[u].seen)
        BY <1>3, <3>1, <3>2
      <3> QED BY <3>3, <3>4
    <2>2. ASSUME NEW v \in Users
          PROVE  /\ -1 <= chat'[v].seen /\ origin'[v].full - 1 <= chat'[v].seen
                 /\ \A k \in DOMAIN handed'[v] : handed'[v][k] <= chat'[v].seen
                 /\ Opens(v)' => job'[v].id # 0
      <3>1. CASE v = u
        BY <1>1, <1>4, <1>5, <1>10, <2>1, <3>1
      <3>2. CASE v # u
        BY <1>0, <1>1, <1>5, <1>6, <1>10, <3>2 DEF HasSeen
      <3> QED BY <3>1, <3>2
    <2> QED BY <2>2 DEF HasSeen
  <1> QED BY <1>5, <1>6, <1>7, <1>8, <1>9, <1>10, <1>11 DEF Connection, m

\* A session that is gone leaves what was seen and handed out as it was.
LEMMA ReceiveGoneBase ==
    ASSUME Connection, NEW u \in Users, ReceiveGone(u)
    PROVE  /\ Connection' /\ ~Opens(u)'
           /\ \A v \in Users : v # u => chat'[v] = chat[v]
           /\ \A v \in Users : v # u => (Opens(v)' <=> Opens(v))
           /\ chat'[u].attached = chat[u].attached /\ chat'[u].seen = chat[u].seen
  <1>0. ConnTypes /\ Listened /\ Known /\ Registered /\ Numbered /\ HasSeen
    BY DEF Connection
  <1>1. /\ pc[u] = "idle" /\ inbox[u] # << >> /\ pc' = [pc EXCEPT ![u] = "drop"]
        /\ chat' = [chat EXCEPT ![u].finished = TRUE]
        /\ foreign' = (foreign \/ Head(inbox[u]).attach # chat[u].attached)
        /\ inbox' = [inbox EXCEPT ![u] = Tail(@)]
        /\ UNCHANGED <<innerVars, answer, plan, job, then, handed, origin, covered, late, wireVars, sessionVars>>
    BY DEF ReceiveGone, Incoming, Goto
  <1>2. inbox' \in [Users -> Seq(Frames)] /\ \A v \in Users : From(inbox'[v], inbox[v])
    BY <1>1, InboxTail
  <1>3. /\ chat' \in [Users -> [attached : Nat, seen : Int, started : BOOLEAN, finished : BOOLEAN]]
        /\ \A v \in Users : v # u => chat'[v] = chat[v]
        /\ \A v \in Users : chat'[v].attached = chat[v].attached /\ chat'[v].seen = chat[v].seen
    <2>1. chat \in [Users -> [attached : Nat, seen : Int, started : BOOLEAN, finished : BOOLEAN]]
      BY <1>0 DEF ConnTypes, ChatTypes
    <2> QED BY <1>1, <2>1
  <1>4. /\ pc' \in [Threads -> Places] /\ pc'[u] = "drop" /\ \A v \in Users : v # u => pc'[v] = pc[v]
    <2>1. pc \in [Threads -> Places] /\ "drop" \in Places /\ u \in Threads /\ Users \subseteq Threads
      BY <1>0 DEF ConnTypes, CallTypes, Places, Threads
    <2> QED BY <1>1, <2>1
  <1>5. ConnTypes'
    <2>1. foreign' \in BOOLEAN
      BY <1>0, <1>1 DEF ConnTypes, ChatTypes
    <2> QED BY <1>0, <1>1, <1>2, <1>3, <1>4, <2>1 DEF ConnTypes, WireTypes, ChatTypes, CallTypes
  <1>6. Listened' /\ Known'
    BY <1>0, <1>1 DEF Listened, Known
  <1>7. Registered'
    <2>1. \A w \in pending : w[2] # u /\ w[2] \in Users
      BY <1>0, <1>1, NotCalled DEF ConnTypes, CallTypes, Waits
    <2>2. \A v \in Users : v # u => (Waits(v)' <=> Waits(v))
      BY <1>1, <1>4 DEF Waits
    <2> QED BY <1>0, <1>1, <2>1, <2>2 DEF Registered
  <1>8. Numbered'
    <2>1. \A v \in Users : \A i \in DOMAIN inbox'[v] :
             inbox'[v][i].attach <= session.attaches /\ inbox'[v][i].seq < session.events
      BY <1>0, <1>2 DEF Numbered, From
    <2> QED BY <1>0, <1>1, <1>3, <2>1 DEF Numbered
  <1>9. ~Opens(u)' /\ \A v \in Users : v # u => (Opens(v)' <=> Opens(v))
    BY <1>1, <1>4 DEF Opens
  <1>10. HasSeen'
    BY <1>0, <1>1, <1>3, <1>9 DEF HasSeen
  <1> QED BY <1>3, <1>5, <1>6, <1>7, <1>8, <1>9, <1>10 DEF Connection

-----------------------------------------------------------------------------
(* The reader and disconnect. *)

\* Of those who wait, everyone is refused.
LEMMA CutBase ==
    ASSUME Connection, NEW t \in Threads, Cut(t)
    PROVE  /\ Connection' /\ (\A v \in Users : Opens(v)' => Opens(v))
           /\ \A v \in Users : \A i \in DOMAIN answer'[v] :
                 answer'[v][i].ok => \E j \in DOMAIN answer[v] : answer'[v][i] = answer[v][j]
  <1> DEFINE no == [ok |-> FALSE]
  <1>0. ConnTypes /\ Listened /\ Known /\ Registered /\ Numbered /\ HasSeen
    BY DEF Connection
  <1>1. /\ answer' = [u \in Users |-> IF \E w \in pending : w[2] = u THEN Append(answer[u], no) ELSE answer[u]]
        /\ pending' = {} /\ pc' = [pc EXCEPT ![t] = "clear"]
        /\ UNCHANGED <<alive, nextId, subs, reserved, shut, inbox, plan, job, then, chatVars, wireVars, sessionVars>>
    BY DEF Cut, Goto
  <1>2. no \in Replies \cup Refusals /\ ~no.ok
    BY DEF Refusals
  <1> HIDE DEF no
  <1>3. ASSUME NEW v \in Users
        PROVE  /\ answer'[v] \in Seq(Replies \cup Refusals)
               /\ \A i \in DOMAIN answer'[v] :
                     answer'[v][i] = no \/ \E j \in DOMAIN answer[v] : answer'[v][i] = answer[v][j]
    <2>1. answer[v] \in Seq(Replies \cup Refusals)
      BY <1>0 DEF ConnTypes, WireTypes
    <2>2. answer'[v] = Append(answer[v], no) \/ answer'[v] = answer[v]
      BY <1>1
    <2>3. /\ Append(answer[v], no) \in Seq(Replies \cup Refusals)
          /\ \A i \in DOMAIN Append(answer[v], no) :
                \/ Append(answer[v], no)[i] = no
                \/ \E j \in DOMAIN answer[v] : Append(answer[v], no)[i] = answer[v][j]
      BY <1>2, <2>1, FromAppend
    <2> QED BY <2>1, <2>2, <2>3
  <1>4. /\ pc' \in [Threads -> Places] /\ \A v \in Users : pc'[v] = pc[v] \/ pc'[v] = "clear"
    <2>1. pc \in [Threads -> Places] /\ "clear" \in Places /\ Users \subseteq Threads
      BY <1>0 DEF ConnTypes, CallTypes, Places, Threads
    <2> QED BY <1>1, <2>1
  <1>5. \A v \in Users : Opens(v)' => Opens(v)
    BY <1>1, <1>4 DEF Opens
  <1>6. \A v \in Users : \A i \in DOMAIN answer'[v] :
           answer'[v][i].ok => \E j \in DOMAIN answer[v] : answer'[v][i] = answer[v][j]
    BY <1>2, <1>3
  <1>7. ConnTypes'
    <2>1. answer' \in [Users -> Seq(Replies \cup Refusals)]
      BY <1>1, <1>3
    <2> QED BY <1>0, <1>1, <1>4, <2>1 DEF ConnTypes, WireTypes, ChatTypes, CallTypes
  <1>8. Listened' /\ Known'
    BY <1>0, <1>1 DEF Listened, Known
  <1>9. Registered' /\ Numbered'
    <2>1. ASSUME NEW v \in Users, NEW i \in DOMAIN answer'[v], answer'[v][i].ok
          PROVE  /\ answer'[v][i] \in Replies /\ answer'[v][i].id = job[v].id
                 /\ answer'[v][i].attach <= session.attaches /\ answer'[v][i].seq < session.events
      <3>1. PICK j \in DOMAIN answer[v] : answer'[v][i] = answer[v][j]
        BY <1>6, <2>1
      <3> QED BY <1>0, <2>1, <3>1 DEF Registered, Numbered
    <2> QED BY <1>0, <1>1, <2>1 DEF Registered, Numbered
  <1>10. HasSeen'
    BY <1>0, <1>1, <1>5 DEF HasSeen
  <1> QED BY <1>5, <1>6, <1>7, <1>8, <1>9, <1>10 DEF Connection

\* A frame goes to whoever is subscribed, an answer to whoever waits for it.
LEMMA ReadGoes ==
    ASSUME Connection, Read
    PROVE  LET m == Head(answers)
           IN  /\ answers # << >> /\ answers' = Tail(answers) /\ m \in Wire
               /\ \E j \in DOMAIN answers : m = answers[j]
               /\ \A v \in Users :
                     /\ inbox'[v] = IF m.kind = "reply" \/ v \notin subs THEN inbox[v] ELSE Append(inbox[v], m)
                     /\ \/ answer'[v] = answer[v]
                        \/ m.kind = "reply" /\ m.id = job[v].id /\ answer'[v] = <<m>>
               /\ inbox' \in [Users -> Seq(Frames)] /\ answer' \in [Users -> Seq(Replies \cup Refusals)]
               /\ m.kind # "reply" => m \in Frames
               /\ m.kind = "reply" => m \in Replies
               /\ pending' \subseteq pending /\ \A w \in pending' : answer'[w[2]] = << >>
               /\ UNCHANGED <<alive, nextId, subs, reserved, shut, pc, plan, job, then, chatVars, requests, closed, sessionVars>>
  <1> DEFINE m == Head(answers)
             W == Owned({m.id})
  <1>0. ConnTypes /\ Registered
    BY DEF Connection
  <1>1. /\ answers # << >> /\ answers' = Tail(answers)
        /\ UNCHANGED <<alive, nextId, subs, reserved, shut, pc, plan, job, then, chatVars, requests, closed, sessionVars>>
        /\ m.kind = "reply" =>
              /\ pending' = pending \ W /\ inbox' = inbox
              /\ answer' = [u \in Users |-> IF \E w \in W : w[2] = u THEN Append(answer[u], m) ELSE answer[u]]
        /\ m.kind # "reply" =>
              /\ inbox' = [u \in Users |-> IF u \in subs THEN Append(inbox[u], m) ELSE inbox[u]]
              /\ UNCHANGED <<pending, answer>>
    BY DEF Read, Settled, Dispatched
  <1>2. /\ answers \in Seq(Wire) /\ inbox \in [Users -> Seq(Frames)]
        /\ answer \in [Users -> Seq(Replies \cup Refusals)] /\ pending \subseteq Nat \X Users
    BY <1>0 DEF ConnTypes, WireTypes, CallTypes
  <1>3. m \in Wire /\ \E j \in DOMAIN answers : m = answers[j]
    BY <1>1, <1>2, FromTail
  <1> HIDE DEF m
  <1>4. (m.kind = "reply" => m \in Replies) /\ (m.kind # "reply" => m \in Frames)
    BY <1>3 DEF Wire, Frames, Replies
  <1>5. CASE m.kind # "reply"
    <2>1. \A w \in pending : answer[w[2]] = << >>
      BY <1>0 DEF Registered
    <2>2. \A v \in Users : Append(inbox[v], m) \in Seq(Frames)
      BY <1>2, <1>4, <1>5
    <2> QED BY <1>1, <1>2, <1>3, <1>4, <1>5, <2>1, <2>2 DEF m
  <1>6. CASE m.kind = "reply"
    <2>1. \A w \in W : w \in pending /\ w[1] = m.id /\ m.id = job[w[2]].id /\ answer[w[2]] = << >>
      BY <1>0 DEF Registered, Owned
    <2>2. \A v \in Users : \/ answer'[v] = answer[v]
                           \/ m.id = job[v].id /\ answer'[v] = <<m>>
      <3> SUFFICES ASSUME NEW v \in Users, \E w \in W : w[2] = v
                   PROVE  m.id = job[v].id /\ answer'[v] = <<m>>
        BY <1>1, <1>6
      <3>1. answer[v] = << >> /\ m.id = job[v].id
        BY <2>1
      <3>2. answer'[v] = Append(answer[v], m)
        BY <1>1, <1>6
      <3>3. Append(<< >>, m) = <<m>>
        OBVIOUS
      <3> QED BY <3>1, <3>2, <3>3
    <2>3. \A w \in pending \ W : answer'[w[2]] = << >>
      <3> SUFFICES ASSUME NEW w \in pending \ W
                   PROVE  answer'[w[2]] = << >>
        OBVIOUS
      <3>1. w[2] \in Users /\ w[1] = job[w[2]].id /\ answer[w[2]] = << >>
        BY <1>0, <1>2 DEF Registered
      <3>2. w[1] # m.id
        BY DEF Owned
      <3>3. ~\E x \in W : x[2] = w[2]
        BY <2>1, <3>1, <3>2
      <3> QED BY <1>1, <1>6, <3>1, <3>3
    <2>4. answer' \in [Users -> Seq(Replies \cup Refusals)]
      <3>1. <<m>> \in Seq(Replies \cup Refusals)
        BY <1>4, <1>6
      <3>2. \A v \in Users : answer'[v] \in Seq(Replies \cup Refusals)
        BY <1>2, <2>2, <3>1
      <3> QED BY <1>1, <1>6, <3>2
    <2> HIDE DEF W
    <2> QED BY <1>1, <1>2, <1>3, <1>4, <1>6, <2>2, <2>3, <2>4 DEF m
  <1> QED BY <1>5, <1>6

\* dispatch_frame keeps types, ids, calls and numbers: an answer is for the one
\* thread whose call it names, and that thread has no other.
LEMMA ReadBase ==
    ASSUME Connection, Read
    PROVE  Connection'
  <1> DEFINE m == Head(answers)
  <1>0. ConnTypes /\ Listened /\ Known /\ Registered /\ Numbered /\ HasSeen
    BY DEF Connection
  <1>1. /\ answers # << >> /\ answers' = Tail(answers) /\ m \in Wire /\ \E j \in DOMAIN answers : m = answers[j]
        /\ \A v \in Users : /\ inbox'[v] = inbox[v] \/ (inbox'[v] = Append(inbox[v], m) /\ m \in Frames)
                            /\ \/ answer'[v] = answer[v]
                               \/ m \in Replies /\ m.id = job[v].id /\ answer'[v] = <<m>>
        /\ inbox' \in [Users -> Seq(Frames)] /\ answer' \in [Users -> Seq(Replies \cup Refusals)]
        /\ pending' \subseteq pending /\ \A w \in pending' : answer'[w[2]] = << >>
        /\ UNCHANGED <<alive, nextId, subs, reserved, shut, pc, plan, job, then, chatVars, requests, closed, sessionVars>>
    <2>1. \A v \in Users :
             /\ inbox'[v] = IF m.kind = "reply" \/ v \notin subs THEN inbox[v] ELSE Append(inbox[v], m)
             /\ answer'[v] = answer[v] \/ (m.kind = "reply" /\ m.id = job[v].id /\ answer'[v] = <<m>>)
      BY ReadGoes
    <2>2. (m.kind # "reply" => m \in Frames) /\ (m.kind = "reply" => m \in Replies)
      BY ReadGoes
    <2>3. /\ answers # << >> /\ answers' = Tail(answers) /\ m \in Wire /\ \E j \in DOMAIN answers : m = answers[j]
          /\ inbox' \in [Users -> Seq(Frames)] /\ answer' \in [Users -> Seq(Replies \cup Refusals)]
          /\ pending' \subseteq pending /\ \A w \in pending' : answer'[w[2]] = << >>
          /\ UNCHANGED <<alive, nextId, subs, reserved, shut, pc, plan, job, then, chatVars, requests, closed, sessionVars>>
      BY ReadGoes
    <2> HIDE DEF m
    <2>4. \A v \in Users : /\ inbox'[v] = inbox[v] \/ (inbox'[v] = Append(inbox[v], m) /\ m \in Frames)
                          /\ \/ answer'[v] = answer[v]
                             \/ m \in Replies /\ m.id = job[v].id /\ answer'[v] = <<m>>
      BY <2>1, <2>2
    <2> QED BY <2>3, <2>4
  <1>2. answers' \in Seq(Wire) /\ From(answers', answers)
    BY <1>0, <1>1, FromTail DEF ConnTypes, WireTypes
  <1>3. m.attach <= session.attaches /\ m.seq < session.events
    BY <1>0, <1>1 DEF Numbered
  <1> HIDE DEF m
  <1>4. ConnTypes'
    BY <1>0, <1>1, <1>2 DEF ConnTypes, WireTypes, ChatTypes, CallTypes
  <1>5. Listened'
    BY <1>0, <1>1 DEF Listened
  <1>6. Known'
    <2>1. \A i \in DOMAIN answers' : answers'[i].kind = "reply" => answers'[i].id < nextId
      BY <1>0, <1>2 DEF Known, From
    <2> QED BY <1>0, <1>1, <2>1 DEF Known
  <1>7. ASSUME NEW v \in Users, NEW i \in DOMAIN answer'[v], answer'[v][i].ok
        PROVE  /\ answer'[v][i] \in Replies /\ answer'[v][i].id = job[v].id
               /\ answer'[v][i].attach <= session.attaches /\ answer'[v][i].seq < session.events
    <2>1. CASE answer'[v] = answer[v]
      BY <1>0, <1>7, <2>1 DEF Registered, Numbered
    <2>2. CASE m \in Replies /\ m.id = job[v].id /\ answer'[v] = <<m>>
      <3>1. answer'[v][i] = m
        BY <1>7, <2>2
      <3> QED BY <1>3, <2>2, <3>1
    <2> QED BY <1>1, <2>1, <2>2
  <1>8. Registered'
    <2>1. \A v \in Users : Waits(v)' <=> Waits(v)
      BY <1>1 DEF Waits
    <2>2. \A w \in pending' : w[1] = job[w[2]].id /\ w[1] # 0 /\ Waits(w[2])' /\ answer'[w[2]] = << >>
      <3>1. pending \subseteq Nat \X Users
        BY <1>0 DEF ConnTypes, CallTypes
      <3> QED BY <1>0, <1>1, <2>1, <3>1 DEF Registered
    <2> QED BY <1>1, <1>7, <2>2 DEF Registered
  <1>9. Numbered'
    <2>1. ASSUME NEW v \in Users, NEW i \in DOMAIN inbox'[v]
          PROVE  inbox'[v][i].attach <= session.attaches /\ inbox'[v][i].seq < session.events
      <3>1. CASE inbox'[v] = inbox[v]
        BY <1>0, <2>1, <3>1 DEF Numbered
      <3>2. CASE inbox'[v] = Append(inbox[v], m) /\ m \in Frames
        <4>1. inbox[v] \in Seq(Frames)
          BY <1>0 DEF ConnTypes, WireTypes
        <4>2. inbox'[v][i] = m \/ \E j \in DOMAIN inbox[v] : inbox'[v][i] = inbox[v][j]
          BY <2>1, <3>2, <4>1, FromAppend
        <4> QED BY <1>0, <1>3, <4>2 DEF Numbered
      <3> QED BY <1>1, <3>1, <3>2
    <2>2. \A i \in DOMAIN answers' : answers'[i].attach <= session.attaches /\ answers'[i].seq < session.events
      BY <1>0, <1>2 DEF Numbered, From
    <2> QED BY <1>0, <1>1, <1>7, <2>1, <2>2 DEF Numbered
  <1>10. HasSeen'
    BY <1>0, <1>1 DEF HasSeen, Opens
  <1> QED BY <1>4, <1>5, <1>6, <1>8, <1>9, <1>10 DEF Connection

-----------------------------------------------------------------------------
(* What is on its way to those who are not concerned by a step. *)

\* What holds of an attachment that is on holds of one that is not.
LEMMA FlowOff ==
    ASSUME NEW q, NEW r, NEW a, NEW lo, NEW h, NEW n, NEW on, NEW off, off => on,
           Flow(q, r, a, lo, h, n, on)
    PROVE  Flow(q, r, a, lo, h, n, off)
  BY DEF Flow

\* Whoever a step does not concern stays in order.
LEMMA OrderedSame ==
    ASSUME Connection, NEW v \in Users, Ordered(v),
           UNCHANGED <<answers, closed, serving, session>>,
           inbox'[v] = inbox[v], v \in subs' <=> v \in subs,
           handed'[v] = handed[v], origin'[v] = origin[v], covered'[v] = covered[v], job'[v] = job[v],
           chat'[v].seen = chat[v].seen, chat'[v].attached \in {0, chat[v].attached},
           Opens(v)' => Opens(v),
           \A i \in DOMAIN answer'[v] : answer'[v][i].ok => \E j \in DOMAIN answer[v] : answer'[v][i] = answer[v][j]
    PROVE  Ordered(v)'
  <1>2. Heard(v)' = Heard(v) /\ NextFrame' = NextFrame
    BY DEF Heard, NextFrame
  <1>3. \A a : (v \in subs' /\ ~closed' /\ a # 0 /\ a \in {session'.listener, session'.old}) => On(v, a)
    BY DEF On
  <1>4. \A a, lo, h : Comes(v, a, lo, h)
            => Flow(inbox'[v], Heard(v)', a, lo, h, NextFrame',
                    v \in subs' /\ ~closed' /\ a # 0 /\ a \in {session'.listener, session'.old})
    BY <1>2, <1>3, FlowOff DEF Comes
  <1>5. FlowGoesOn(v) /\ AnswersGoOn(v)
    BY <1>4 DEF FlowGoesOn, AnswersGoOn
  <1>6. OpenGoesOn(v)
    BY <1>4 DEF OpenGoesOn, Ordered, LoServed
  <1> QED BY <1>5, <1>6, OrderedStep

\* disconnect refuses calls, which hands nothing out.
LEMMA CutOrdered ==
    ASSUME Connection, NEW t \in Threads, Cut(t), NEW v \in Users, Ordered(v)
    PROVE  Ordered(v)'
  <1>1. UNCHANGED <<answers, closed, serving, session, inbox, subs, handed, origin, covered, job, chat>>
    BY DEF Cut
  <1>2. /\ Opens(v)' => Opens(v)
        /\ \A i \in DOMAIN answer'[v] :
              answer'[v][i].ok => \E j \in DOMAIN answer[v] : answer'[v][i] = answer[v][j]
    BY CutBase
  <1> QED BY <1>1, <1>2, OrderedSame

\* The reader passes frames on in the order it reads them, and hands an open's
\* answer on as it came.
LEMMA ReadOrdered ==
    ASSUME Connection, Read, NEW v \in Users, Ordered(v)
    PROVE  Ordered(v)'
  <1> DEFINE m == Head(answers)
  <1>0. ConnTypes /\ answers \in Seq(Wire) /\ inbox[v] \in Seq(Frames)
    BY DEF Connection, ConnTypes, WireTypes
  <1>1. /\ answers # << >> /\ answers' = Tail(answers) /\ m \in Wire /\ \E j \in DOMAIN answers : m = answers[j]
        /\ UNCHANGED <<alive, nextId, subs, reserved, shut, pc, plan, job, then, chatVars, requests, closed, sessionVars>>
    BY ReadGoes
  <1>2. /\ inbox'[v] = IF m.kind = "reply" \/ v \notin subs THEN inbox[v] ELSE Append(inbox[v], m)
        /\ answer'[v] = answer[v] \/ (m.kind = "reply" /\ m.id = job[v].id /\ answer'[v] = <<m>>)
    BY ReadGoes
  <1>3. From(answers', answers)
    BY <1>0, <1>1, FromTail
  <1>4. /\ session.attaches \in Nat /\ session.attaches <= session.attaches
        /\ NextFrame \in Int /\ NextFrame' = NextFrame
        /\ AskedFor(job[v]) \in SUBSET Int /\ LoServed(job[v]) \in Int
    BY SMTT(30), <1>0, <1>1, LoType DEF ConnTypes, WireTypes, NextFrame
  <1>5. \A a : (v \in subs' /\ ~closed' /\ a # 0 /\ a \in {session'.listener, session'.old}) => On(v, a)
    BY <1>1 DEF On
  <1>6. ASSUME NEW a \in Nat, NEW lo \in Int, NEW h \in SUBSET Int, Comes(v, a, lo, h)
        PROVE  Flow(inbox'[v], Heard(v)', a, lo, h, NextFrame, On(v, a))
    <2>1. CASE v \in subs
      <3>1. inbox'[v] = IF m.kind = "reply" THEN inbox[v] ELSE Append(inbox[v], m)
        BY <1>2, <2>1
      <3>2. Heard(v) = answers /\ Heard(v)' = Tail(answers)
        BY <1>1, <2>1 DEF Heard
      <3>3. Flow(inbox[v], answers, a, lo, h, NextFrame, On(v, a))
        BY <1>6, <3>2 DEF Comes
      <3>4. Flow(inbox'[v], Tail(answers), a, lo, h, NextFrame, On(v, a))
        BY <1>0, <1>1, <1>4, <3>1, <3>3, FlowRead
      <3> QED BY <3>2, <3>4
    <2>2. CASE v \notin subs
      BY <1>1, <1>2, <1>6, <2>2 DEF Heard, Comes
    <2> QED BY <2>1, <2>2
  <1> HIDE DEF m
  <1>7. FlowGoesOn(v)
    BY <1>1, <1>4, <1>5, <1>6, FlowOff DEF FlowGoesOn
  <1>8. OpenGoesOn(v)
    <2> SUFFICES ASSUME Opens(v), serving # << >>, Head(serving).id = job[v].id
                 PROVE  Flow(inbox'[v], Heard(v)', session.attaches, LoServed(job[v]),
                             AskedFor(job[v]), NextFrame',
                             v \in subs' /\ ~closed' /\ session.attaches # 0
                             /\ session.attaches \in {session.listener, session.old})
      BY <1>1 DEF OpenGoesOn, LoServed
    <2>2. Comes(v, session.attaches, LoServed(job[v]), AskedFor(job[v]))
      BY DEF Ordered
    <2> QED BY <1>1, <1>4, <1>7, <2>2 DEF FlowGoesOn
  <1>9. AnswersGoOn(v)
    <2>1. ASSUME NEW i \in DOMAIN answer'[v], answer'[v][i].ok
          PROVE  \/ \E j \in DOMAIN answer[v] : answer'[v][i] = answer[v][j]
                 \/ \E j \in DOMAIN answers : /\ answer'[v][i] = answers[j]
                                              /\ answers[j].kind = "reply" /\ answers[j].id = job[v].id
      <3>1. CASE answer'[v] = answer[v]
        BY <2>1, <3>1
      <3>2. CASE m.kind = "reply" /\ m.id = job[v].id /\ answer'[v] = <<m>>
        <4>1. answer'[v][i] = m
          BY <2>1, <3>2
        <4> QED BY <1>1, <3>2, <4>1
      <3> QED BY <1>2, <3>1, <3>2
    <2> QED BY <1>3, <2>1 DEF AnswersGoOn, From
  <1>10. Opens(v)' <=> Opens(v)
    BY <1>1 DEF Opens
  <1> QED BY <1>1, <1>7, <1>8, <1>9, <1>10, OrderedStep

\* Nothing answers a call that was only just made.
LEMMA CalledOrdered ==
    ASSUME Connection, NEW u \in Users, Called(u), NEW v \in Users, Ordered(v)
    PROVE  Ordered(v)'
  <1>0. ConnTypes /\ Known
    BY DEF Connection
  <1>1. UNCHANGED <<answers, closed, serving, session, handed, origin, chat>>
    BY CalledFresh
  <1>2. CASE v # u
    <2>1. /\ job'[v] = job[v] /\ covered'[v] = covered[v] /\ answer'[v] = answer[v] /\ pc'[v] = pc[v]
          /\ inbox'[v] = inbox[v] /\ (v \in subs' <=> v \in subs)
      BY <1>2, CalledFresh
    <2>2. Opens(v)' <=> Opens(v)
      BY <2>1 DEF Opens
    <2> QED BY <1>1, <2>1, <2>2, OrderedSame
  <1>3. CASE v = u
    <2>0. /\ nextId \in Nat /\ job'[u].id = nextId /\ answer'[u] = << >>
          /\ covered[u] \subseteq covered'[u]
          /\ job'[u].op = "open" /\ 0 .. chat[u].seen \subseteq covered[u]
             => 0 .. job'[u].since - 1 \subseteq covered'[u]
      BY CalledFresh
    <2>1. CASE job'[u].op # "open" /\ inbox' = inbox /\ subs' = subs
      <3>1. ~Opens(u)'
        BY <2>1 DEF Opens
      <3>2. Lo(u)' = Lo(u) /\ Below(u)' = Below(u)
        BY <1>1 DEF Lo, Below
      <3>3. chat[u].attached # 0 => Comes(u, chat[u].attached, Lo(u), Below(u))'
        BY <1>1, <1>3, <2>1, <3>2 DEF Ordered, Comes, Heard, On, NextFrame
      <3> QED BY <1>1, <1>3, <2>0, <3>1, <3>2, <3>3 DEF Ordered
    <2>2. CASE chat[u].attached = 0
      <3>1. \A i \in DOMAIN answers : answers[i].kind = "reply" => answers[i].id # nextId
        <4>1. \A n \in Nat : n < nextId => n # nextId
          BY <2>0
        <4>2. \A w \in Wire : w.kind = "reply" => w.id \in Nat
          BY DEF Wire, Frames, Replies
        <4>3. \A i \in DOMAIN answers : answers[i] \in Wire
          BY <1>0, MessageSeq
        <4> QED BY <1>0, <4>1, <4>2, <4>3 DEF Known
      <3>2. serving # << >> => Head(serving).id # nextId
        <4> SUFFICES ASSUME serving # << >> PROVE Head(serving).id # nextId
          OBVIOUS
        <4>1. serving \in Seq(Requests)
          BY <1>0 DEF ConnTypes, WireTypes
        <4>2. Head(serving) \in Requests /\ \E j \in DOMAIN serving : Head(serving) = serving[j]
          BY <4>1, FromTail
        <4>3. Head(serving).id \in Nat /\ Head(serving).id < nextId
          BY <1>0, <4>2 DEF Known, Requests
        <4> QED BY <2>0, <4>3
      <3>3. Lo(u)' = Lo(u)
        BY <1>1 DEF Lo
      <3>4. /\ chat'[u].attached = 0
            /\ ~(serving' # << >> /\ Head(serving').id = job'[u].id)
            /\ \A i \in DOMAIN answers' : ~(answers'[i].kind = "reply" /\ answers'[i].id = job'[u].id)
            /\ DOMAIN answer'[u] = {}
        BY <1>1, <2>0, <2>2, <3>1, <3>2
      <3>5. /\ \A i \in DOMAIN handed'[u] : origin'[u].asked <= handed'[u][i] /\ handed'[u][i] <= Lo(u)'
            /\ \A i \in 2 .. Len(handed'[u]) : handed'[u][i - 1] < handed'[u][i]
            /\ \A e \in origin'[u].full .. Lo(u)' : e \in Range(handed'[u])
        BY <1>1, <1>3, <3>3 DEF Ordered
      <3>6. 0 .. chat[u].seen \subseteq covered[u] /\ chat'[u] = chat[u]
        BY <1>1, <1>3 DEF Ordered
      <3>7. 0 .. chat'[u].seen \subseteq covered'[u]
        BY <2>0, <3>6
      <3>8. Opens(u)' /\ job'[u].since >= 0 => 0 .. job'[u].since - 1 \subseteq covered'[u]
        BY <2>0, <3>6 DEF Opens
      <3> QED BY <1>3, <3>4, <3>5, <3>7, <3>8 DEF Ordered
    <2> QED BY <2>1, <2>2, CalledFresh
  <1> QED BY <1>2, <1>3

-----------------------------------------------------------------------------
(* What a Chat has seen and handed out. *)

\* An answered open makes the attachment of its answer the one of the Chat.
LEMMA StartedOrdered ==
    ASSUME Connection, NEW u \in Users, Started(u), NEW v \in Users, Ordered(v)
    PROVE  Ordered(v)'
  <1> DEFINE m == Head(answer[u])
             new == IF job[u].since < 0 THEN [asked |-> 0, full |-> m.seq + 1]
                    ELSE [asked |-> job[u].since, full |-> job[u].since]
  <1>1. /\ UNCHANGED <<answers, closed, serving, session, inbox, subs, job, answer>>
        /\ handed' = [handed EXCEPT ![u] = << >>]
        /\ origin' = [origin EXCEPT ![u] = new]
        /\ covered' = IF job[u].since < 0 THEN [covered EXCEPT ![u] = @ \cup 0 .. m.seq] ELSE covered
    BY DEF Started
  <1>2. /\ Opens(u) /\ ~Opens(u)' /\ answer[u][1] = m /\ 1 \in DOMAIN answer[u] /\ m.ok /\ m \in Replies
        /\ chat'[u].attached = m.attach /\ chat'[u].seen = MaxOf(chat[u].seen, SeenAfter(u, m))
        /\ \A w \in Users : w # u => chat'[w] = chat[w] /\ (Opens(w)' <=> Opens(w))
    BY StartedBase
  <1>3. /\ chat[u].seen \in Int /\ job[u].since \in Int /\ m.seq \in Int
        /\ origin \in [Users -> [asked : Int, full : Int]] /\ covered \in [Users -> SUBSET Int]
        /\ handed \in [Users -> Seq(Int)]
    <2>1. chat[u].seen \in Int /\ job[u].since \in Int
      BY LoType DEF Connection
    <2>2. m.seq \in Int
      <3>1. \A r \in Replies : r.seq \in Int
        BY DEF Replies
      <3> QED BY <1>2, <3>1
    <2> QED BY <2>1, <2>2 DEF Connection, ConnTypes, ChatTypes
  <1> HIDE DEF m
  <1>4. CASE v # u
    <2>1. origin'[v] = origin[v] /\ handed'[v] = handed[v] /\ covered'[v] = covered[v]
      BY <1>1, <1>3, <1>4
    <2>2. chat'[v] = chat[v] /\ (Opens(v)' <=> Opens(v))
      BY <1>2, <1>4
    <2> QED BY <1>1, <2>1, <2>2, OrderedSame
  <1>5. CASE v = u
    <2>1. AnsweredSo(u, m)
      BY <1>2, <1>5 DEF Ordered
    <2>2. handed'[u] = << >> /\ origin'[u] = new /\ Range(<< >>) = {}
      BY <1>1, <1>3 DEF Range
    <2>3. new.full - 1 = SeenAfter(u, m) /\ {new.asked - 1} = AskedFor(job[u]) /\ new.full \in Int
      BY <1>3 DEF SeenAfter, AskedFor
    <2>8. new.full > new.full - 1 /\ new.full .. new.full - 1 = {}
      BY <2>3
    <2> HIDE DEF new
    <2>4. Lo(u)' = SeenAfter(u, m) /\ Below(u)' = AskedFor(job[u]) /\ Lo(u)' = new.full - 1
      BY <2>2, <2>3 DEF Lo, LastOf, Below
    <2>5. chat'[u].attached # 0 => Comes(u, chat[u].attached, Lo(u), Below(u))'
      BY <1>1, <1>2, <2>1, <2>4 DEF AnsweredSo, Comes, Heard, On, NextFrame
    <2>6. 0 .. chat'[u].seen \subseteq covered'[u]
      <3>1. 0 .. chat[u].seen \subseteq covered[u]
        BY <1>5 DEF Ordered
      <3>2. CASE job[u].since < 0
        <4>1. covered'[u] = covered[u] \cup 0 .. m.seq /\ SeenAfter(u, m) = m.seq
          BY <1>1, <1>3, <3>2 DEF SeenAfter
        <4>2. chat'[u].seen = chat[u].seen \/ chat'[u].seen = m.seq
          BY <1>2, <4>1 DEF MaxOf
        <4> QED BY <3>1, <4>1, <4>2
      <3>3. CASE ~(job[u].since < 0)
        <4>1. covered' = covered /\ 0 .. job[u].since - 1 \subseteq covered[u]
          BY <1>1, <1>2, <1>3, <1>5, <3>3 DEF Ordered
        <4>2. chat'[u].seen = chat[u].seen \/ chat'[u].seen = job[u].since - 1
          BY <1>2, <3>3 DEF MaxOf, SeenAfter
        <4> QED BY <3>1, <4>1, <4>2
      <3> QED BY <3>2, <3>3
    <2>7. /\ \A i \in DOMAIN handed'[u] : origin'[u].asked <= handed'[u][i] /\ handed'[u][i] <= Lo(u)'
          /\ \A i \in 2 .. Len(handed'[u]) : handed'[u][i - 1] < handed'[u][i]
          /\ \A e \in origin'[u].full .. Lo(u)' : e \in Range(handed'[u])
      BY <2>2, <2>4, <2>8
    <2> QED BY <1>1, <1>2, <1>5, <2>5, <2>6, <2>7 DEF Ordered
  <1> QED BY <1>4, <1>5

\* The session is gone for whoever is told so.
LEMMA ReceiveGoneOrdered ==
    ASSUME Connection, NEW u \in Users, ReceiveGone(u), NEW v \in Users, Ordered(v)
    PROVE  Ordered(v)'
  <1>1. /\ inbox[u] # << >> /\ Head(inbox[u]).kind = "gone" /\ inbox' = [inbox EXCEPT ![u] = Tail(@)]
        /\ UNCHANGED <<answers, closed, serving, session, subs, handed, origin, covered, job, answer>>
    BY DEF ReceiveGone, Incoming
  <1>2. /\ ~Opens(u)' /\ \A w \in Users : w # u => chat'[w] = chat[w]
        /\ \A w \in Users : w # u => (Opens(w)' <=> Opens(w))
        /\ chat'[u].attached = chat[u].attached /\ chat'[u].seen = chat[u].seen
    BY ReceiveGoneBase
  <1>3. inbox'[u] = Tail(inbox[u]) /\ \A w \in Users : w # u => inbox'[w] = inbox[w]
    BY <1>1, InboxTail
  <1>4. CASE v # u
    BY <1>1, <1>2, <1>3, <1>4, OrderedSame
  <1>5. CASE v = u
    <2>1. /\ inbox[u] \in Seq(Frames) /\ answers \in Seq(Wire) /\ << >> \in Seq(Wire)
          /\ Lo(u) \in Int /\ Below(u) \in SUBSET Int /\ NextFrame \in Int
      BY SMTT(30), LoType DEF Connection, ConnTypes, WireTypes
    <2>2. /\ Heard(u) \in Seq(Wire) /\ Heard(u)' = Heard(u) /\ NextFrame' = NextFrame
          /\ Lo(u)' = Lo(u) /\ Below(u)' = Below(u)
      BY <1>1, <2>1 DEF Heard, NextFrame, Lo, Below
    <2>3. chat[u].attached # 0 => Comes(u, chat[u].attached, Lo(u), Below(u))
      BY <1>5 DEF Ordered
    <2>4. chat[u].attached # 0 => Flow(Tail(inbox[u]), Heard(u), chat[u].attached, Lo(u), Below(u),
                                       NextFrame, On(u, chat[u].attached))
      BY <1>1, <2>1, <2>2, <2>3, FlowGone DEF Comes
    <2>5. chat'[u].attached # 0 => Comes(u, chat[u].attached, Lo(u), Below(u))'
      BY <1>1, <1>2, <1>3, <2>2, <2>4 DEF Comes, On
    <2>6. /\ \A i \in DOMAIN handed'[u] : origin'[u].asked <= handed'[u][i] /\ handed'[u][i] <= Lo(u)'
          /\ \A i \in 2 .. Len(handed'[u]) : handed'[u][i - 1] < handed'[u][i]
          /\ \A e \in origin'[u].full .. Lo(u)' : e \in Range(handed'[u])
          /\ 0 .. chat'[u].seen \subseteq covered'[u]
      BY <1>1, <1>2, <1>5, <2>2 DEF Ordered
    <2> QED BY <1>1, <1>2, <1>5, <2>5, <2>6 DEF Ordered
  <1> QED BY <1>4, <1>5

\* An event of the attachment is the next one.
LEMMA ReceiveOrdered ==
    ASSUME Connection, NEW u \in Users, Receive(u), ~foreign', NEW v \in Users, Ordered(v)
    PROVE  Ordered(v)'
  <1> DEFINE m == Head(inbox[u])
  <1>1. /\ inbox[u] # << >> /\ m.kind = "event" /\ inbox' = [inbox EXCEPT ![u] = Tail(@)]
        /\ m.attach = chat[u].attached /\ chat[u].attached # 0
        /\ covered' = [covered EXCEPT ![u] = @ \cup {m.seq}]
        /\ UNCHANGED <<answers, closed, serving, session, subs, origin, job, answer, pc>>
    BY DEF Receive, Incoming, Attached
  <1>2. /\ ~Opens(u)' /\ \A w \in Users : w # u => chat'[w] = chat[w] /\ handed'[w] = handed[w]
        /\ chat'[u].attached = chat[u].attached /\ chat'[u].seen = MaxOf(chat[u].seen, m.seq)
        /\ handed'[u] = Append(handed[u], m.seq)
    BY ReceiveBase
  <1>3. inbox'[u] = Tail(inbox[u]) /\ \A w \in Users : w # u => inbox'[w] = inbox[w]
    BY <1>1, InboxTail
  <1>6. covered \in [Users -> SUBSET Int]
    BY DEF Connection, ConnTypes, ChatTypes
  <1>4. CASE v # u
    <2>1. (Opens(v)' <=> Opens(v)) /\ covered'[v] = covered[v]
      BY <1>1, <1>4, <1>6 DEF Opens
    <2> QED BY <1>1, <1>2, <1>3, <1>4, <2>1, OrderedSame
  <1>5. CASE v = u
    <2>1. /\ inbox[u] \in Seq(Frames) /\ answers \in Seq(Wire) /\ << >> \in Seq(Wire)
          /\ Lo(u) \in Int /\ Below(u) \in SUBSET Int /\ NextFrame \in Int
          /\ chat[u].seen \in Int /\ handed[u] \in Seq(Int)
          /\ origin[u].asked \in Int /\ origin[u].full \in Int
      BY SMTT(30), LoType DEF Connection, ConnTypes, WireTypes
    <2>2. Heard(u) \in Seq(Wire) /\ Heard(u)' = Heard(u) /\ NextFrame' = NextFrame
      BY <1>1, <2>1 DEF Heard, NextFrame
    <2>3. Flow(inbox[u], Heard(u), m.attach, Lo(u), Below(u), NextFrame, On(u, m.attach))
      BY <1>1, <1>5 DEF Ordered, Comes
    <2>4. /\ m.seq \in Int /\ m.seq <= Lo(u) + 1 /\ \A k \in Below(u) : k < m.seq
          /\ Flow(Tail(inbox[u]), Heard(u), m.attach, MaxOf(Lo(u), m.seq), Below(u) \cup {m.seq},
                  NextFrame, On(u, m.attach))
      <3> DEFINE a == m.attach
                 on == On(u, a)
                 n == NextFrame
                 h == Below(u)
                 r == Heard(u)
                 lo == Lo(u)
      <3>1. /\ inbox[u] \in Seq(Frames) /\ inbox[u] # << >> /\ r \in Seq(Wire) /\ lo \in Int
            /\ h \in SUBSET Int /\ n \in Int /\ Flow(inbox[u], r, a, lo, h, n, on)
            /\ m.kind = "event" /\ m.attach = a
        BY <1>1, <2>1, <2>2, <2>3
      <3> HIDE DEF a, on, n, h, r, lo
      <3>2. /\ m.seq \in Int /\ m.seq <= lo + 1 /\ (\A k \in h : k < m.seq)
            /\ Flow(Tail(inbox[u]), r, a, MaxOf(lo, m.seq), h \cup {m.seq}, n, on)
        BY <3>1, FlowTake
      <3> QED BY <3>2 DEF a, on, n, h, r, lo
    <2> HIDE DEF m
    <2>6. /\ Len(handed'[u]) = Len(handed[u]) + 1 /\ Len(handed[u]) \in Nat
          /\ handed'[u][Len(handed[u]) + 1] = m.seq /\ handed'[u] # << >>
          /\ \A i \in 1 .. Len(handed[u]) : handed'[u][i] = handed[u][i]
          /\ DOMAIN handed[u] = 1 .. Len(handed[u]) /\ DOMAIN handed'[u] = 1 .. Len(handed[u]) + 1
      <3>1. handed'[u] = Append(handed[u], m.seq) /\ handed[u] \in Seq(Int) /\ m.seq \in Int
        BY <1>2, <2>1, <2>4
      <3>2. \A s \in Seq(Int), x \in Int :
               /\ Len(Append(s, x)) = Len(s) + 1 /\ Len(s) \in Nat /\ Append(s, x)[Len(s) + 1] = x
               /\ \A i \in 1 .. Len(s) : Append(s, x)[i] = s[i]
               /\ DOMAIN s = 1 .. Len(s) /\ DOMAIN Append(s, x) = 1 .. Len(s) + 1
        BY AppendProperties
      <3>3. \A s \in Seq(Int), x \in Int : Append(s, x) # << >>
        <4>1. Len(<< >>) = 0 /\ \A n \in Nat : n + 1 # 0
          OBVIOUS
        <4> QED BY <3>2, <4>1
      <3> QED BY <3>1, <3>2, <3>3
    <2>9. /\ Range(handed'[u]) = Range(handed[u]) \cup {m.seq}
          /\ \A i \in DOMAIN handed[u] : handed[u][i] \in Below(u) /\ handed[u][i] \in Int
          /\ origin[u].asked - 1 \in Below(u)
      <3>1. \A i \in DOMAIN handed'[u] : handed'[u][i] \in Range(handed[u]) \cup {m.seq}
        BY <2>6 DEF Range
      <3>2. \A i \in DOMAIN handed[u] : i \in DOMAIN handed'[u] /\ handed'[u][i] = handed[u][i]
        BY <2>6
      <3>3. Len(handed[u]) + 1 \in DOMAIN handed'[u]
        BY <2>6
      <3>4. Range(handed'[u]) = Range(handed[u]) \cup {m.seq}
        BY SMTT(30), <2>6, <3>1, <3>2, <3>3 DEF Range
      <3>5. \A i \in DOMAIN handed[u] : handed[u][i] \in Below(u)
        BY DEF Range, Below
      <3>6. origin[u].asked - 1 \in Below(u)
        BY DEF Below
      <3> QED BY <2>1, <3>4, <3>5, <3>6
    <2>10. Below(u)' = Below(u) \cup {m.seq}
      BY <1>1, <2>9 DEF Below
    <2>11. Lo(u)' = MaxOf(Lo(u), m.seq)
      <3> DEFINE lo == origin[u].full - 1
                 k == Len(handed[u])
      <3>1. Lo(u)' = MaxOf(lo, m.seq)
        BY <1>1, <2>6 DEF Lo, LastOf
      <3>2. CASE handed[u] = << >>
        BY <3>1, <3>2 DEF Lo, LastOf
      <3>3. CASE handed[u] # << >>
        <4>1. Lo(u) = MaxOf(lo, handed[u][k]) /\ k \in DOMAIN handed[u]
          BY <2>1, <2>6, <3>3 DEF Lo, LastOf
        <4>2. handed[u][k] \in Int /\ handed[u][k] < m.seq
          BY <2>4, <2>9, <4>1
        <4>3. \A x, y, z \in Int : y < z => MaxOf(MaxOf(x, y), z) = MaxOf(x, z)
          BY DEF MaxOf
        <4>4. lo \in Int
          BY <2>1
        <4> HIDE DEF lo, k
        <4> QED BY <2>4, <3>1, <4>1, <4>2, <4>3, <4>4
      <3> QED BY <3>2, <3>3
    <2>12. /\ Lo(u) <= Lo(u)' /\ m.seq <= Lo(u)' /\ Lo(u)' \in Int
           /\ \A e \in Int : e <= Lo(u)' => e <= Lo(u) \/ e = m.seq
      BY <2>1, <2>4, <2>11 DEF MaxOf
    <2>5. Comes(u, chat[u].attached, Lo(u), Below(u))'
      BY <1>1, <1>2, <1>3, <2>2, <2>4, <2>10, <2>11 DEF Comes, On
    <2>7. ASSUME NEW i \in 2 .. Len(handed'[u]) PROVE handed'[u][i - 1] < handed'[u][i]
      <3>1. CASE i <= Len(handed[u])
        <4>1. i \in 2 .. Len(handed[u]) /\ i - 1 \in 1 .. Len(handed[u]) /\ i \in 1 .. Len(handed[u])
          BY <2>6, <2>7, <3>1
        <4> QED BY <1>5, <2>6, <4>1 DEF Ordered
      <3>2. CASE i = Len(handed[u]) + 1
        <4>1. i - 1 \in 1 .. Len(handed[u])
          BY <2>6, <2>7, <3>2
        <4> QED BY <2>4, <2>6, <2>9, <3>2, <4>1
      <3> QED BY <2>6, <2>7, <3>1, <3>2
    <2>8. ASSUME NEW e \in origin[u].full .. Lo(u)' PROVE e \in Range(handed'[u])
      <3>1. e \in origin[u].full .. Lo(u) \/ e = m.seq
        BY <2>1, <2>12
      <3> QED BY <1>5, <2>9, <3>1 DEF Ordered
    <2>13. ASSUME NEW i \in DOMAIN handed'[u]
           PROVE  origin[u].asked <= handed'[u][i] /\ handed'[u][i] <= Lo(u)'
      <3>1. CASE i \in DOMAIN handed[u]
        <4>1. /\ origin[u].asked <= handed[u][i] /\ handed[u][i] <= Lo(u)
              /\ handed'[u][i] = handed[u][i] /\ handed[u][i] \in Int
          BY <1>5, <2>6, <2>9, <3>1 DEF Ordered
        <4> QED BY <2>1, <2>12, <4>1
      <3>2. CASE i = Len(handed[u]) + 1
        <4>1. origin[u].asked - 1 < m.seq
          BY <2>4, <2>9
        <4>2. handed'[u][i] = m.seq /\ m.seq <= Lo(u)'
          BY <2>6, <2>12, <3>2
        <4>3. \A x, y \in Int : x - 1 < y => x <= y
          OBVIOUS
        <4> QED BY <2>1, <2>4, <4>1, <4>2, <4>3
      <3> QED BY <2>6, <2>13, <3>1, <3>2
    <2>14. 0 .. chat'[u].seen \subseteq covered'[u]
      <3>1. Lo(u) <= chat[u].seen
        <4>1. origin[u].full - 1 <= chat[u].seen /\ \A k \in DOMAIN handed[u] : handed[u][k] <= chat[u].seen
          BY DEF Connection, HasSeen
        <4>2. handed[u] # << >> => Len(handed[u]) \in DOMAIN handed[u]
          BY <2>1
        <4> QED BY <4>1, <4>2 DEF Lo, LastOf, MaxOf
      <3>2. \A e \in 0 .. chat'[u].seen : e \in 0 .. chat[u].seen \/ e = m.seq
        BY SMTT(30), <1>2, <2>1, <2>4, <3>1 DEF MaxOf
      <3>3. covered'[u] = covered[u] \cup {m.seq} /\ 0 .. chat[u].seen \subseteq covered[u]
        BY <1>1, <1>5, <1>6 DEF Ordered
      <3> QED BY <3>2, <3>3
    <2> QED BY <1>1, <1>2, <1>5, <2>5, <2>7, <2>8, <2>13, <2>14 DEF Ordered
  <1> QED BY <1>4, <1>5

-----------------------------------------------------------------------------
(* What the daemon does to the order of events. *)

\* Nothing happens in the program.
Apart == UNCHANGED <<innerVars, threadVars, chatVars>>

\* What the lemmas below need of the types and numbers of a connection.
LEMMA ConnectionFacts ==
    ASSUME Connection, NEW v \in Users
    PROVE  /\ ConnTypes /\ Listened /\ Known /\ Registered /\ Numbered /\ HasSeen
           /\ inbox[v] \in Seq(Frames) /\ inbox[v] \in Seq(Wire) /\ answers \in Seq(Wire)
           /\ << >> \in Seq(Wire) /\ Heard(v) \in Seq(Wire)
           /\ session.events \in Nat /\ session.attaches \in Nat /\ session.listener \in Nat /\ session.old \in Nat
           /\ session.events - 1 \in Int /\ session.events <= session.events /\ session.attaches <= session.attaches
           /\ session.next \in Int /\ NextFrame \in Int
           /\ AskedFor(job[v]) \in SUBSET Int /\ LoServed(job[v]) \in Int /\ job[v].since \in Int
           /\ session \in [up : BOOLEAN, dying : BOOLEAN, listener : Nat, old : Nat, events : Nat, next : Int,
                           attaches : Nat]
  <1>1. ConnTypes /\ Listened /\ Known /\ Registered /\ Numbered /\ HasSeen
    BY DEF Connection
  <1>2. /\ inbox[v] \in Seq(Frames) /\ answers \in Seq(Wire) /\ << >> \in Seq(Wire)
        /\ session \in [up : BOOLEAN, dying : BOOLEAN, listener : Nat, old : Nat, events : Nat, next : Int,
                        attaches : Nat]
        /\ session.next \in Int /\ NextFrame \in Int
        /\ AskedFor(job[v]) \in SUBSET Int /\ LoServed(job[v]) \in Int /\ job[v].since \in Int
    BY <1>1, LoType DEF ConnTypes, WireTypes
  <1>3. inbox[v] \in Seq(Wire)
    BY <1>2, SeqMonotonic DEF Wire
  <1>4. Heard(v) \in Seq(Wire)
    BY <1>2 DEF Heard
  <1> QED BY <1>1, <1>2, <1>3, <1>4

\* An open that is still being served goes on, if no event was published.
LEMMA OpenStays ==
    ASSUME Connection, NEW v \in Users, Ordered(v), FlowGoesOn(v), Apart,
           serving' = serving, session'.attaches = session.attaches, session'.events = session.events
    PROVE  OpenGoesOn(v)
  <1>1. /\ session.attaches \in Nat /\ session.attaches <= session.attaches
        /\ AskedFor(job[v]) \in SUBSET Int /\ LoServed(job[v]) \in Int
    BY ConnectionFacts
  <1>2. Opens(v) /\ serving # << >> /\ Head(serving).id = job[v].id
        => Comes(v, session.attaches, LoServed(job[v]), AskedFor(job[v]))
    BY DEF Ordered
  <1>3. Opens(v) /\ serving' # << >> /\ Head(serving').id = job[v].id
        => Flow(inbox'[v], Heard(v)', session'.attaches, LoServed(job[v]), AskedFor(job[v]), NextFrame',
                v \in subs' /\ ~closed' /\ session'.attaches # 0
                /\ session'.attaches \in {session'.listener, session'.old})
    BY <1>1, <1>2 DEF FlowGoesOn
  <1> QED BY <1>3 DEF OpenGoesOn, LoServed

\* A step of the daemon keeps a thread in order, if what is on its way does.
LEMMA ApartOrdered ==
    ASSUME Connection, NEW v \in Users, Ordered(v), Apart,
           FlowGoesOn(v), OpenGoesOn(v),
           \A i \in DOMAIN answers' :
              Opens(v) /\ answers'[i].kind = "reply" /\ answers'[i].id = job[v].id /\ answers'[i].ok
              => \/ \E j \in DOMAIN answers : answers'[i] = answers[j]
                 \/ /\ AnsweredSo(v, answers'[i])
                    /\ answers'[i].seq \in Int /\ answers'[i].attach \in Nat
                    /\ answers'[i].attach <= session.attaches
    PROVE  Ordered(v)'
  <1>1. /\ UNCHANGED <<handed, origin, covered, job, chat>>
        /\ answer' = answer /\ pc' = pc
    BY DEF Apart
  <1>2. Opens(v)' => Opens(v)
    BY <1>1 DEF Opens
  <1>3. AnswersGoOn(v)
    BY <1>1 DEF AnswersGoOn
  <1> QED BY <1>1, <1>2, <1>3, OrderedStep

\* What the daemon had not sent when the connection closed is lost at the end.
LEMMA CloseOrdered ==
    ASSUME Connection, Close, NEW v \in Users, Ordered(v)
    PROVE  Ordered(v)'
  <1>1. Apart /\ UNCHANGED <<serving, session>> /\ closed' = TRUE /\ inbox' = inbox /\ subs' = subs
    BY DEF Close, Apart
  <1>2. PICK k \in 0 .. Len(answers) : answers' = SubSeq(answers, 1, k)
    BY DEF Close
  <1>3. inbox[v] \in Seq(Wire) /\ answers \in Seq(Wire) /\ NextFrame \in Int
    BY ConnectionFacts
  <1>4. FlowGoesOn(v)
    <2>1. ASSUME NEW a \in Nat, NEW lo \in Int, NEW h \in SUBSET Int, Comes(v, a, lo, h)
          PROVE  Flow(inbox[v], Heard(v)', a, lo, h, NextFrame, FALSE)
      <3>1. CASE v \in subs
        <4>1. Heard(v) = answers /\ Heard(v)' = SubSeq(answers, 1, k)
          BY <1>1, <1>2, <3>1 DEF Heard
        <4>2. Flow(inbox[v], SubSeq(answers, 1, k), a, lo, h, NextFrame, FALSE)
          BY <1>3, <2>1, <4>1, FlowCut DEF Comes
        <4> QED BY <4>1, <4>2
      <3>2. CASE v \notin subs
        <4>1. Heard(v)' = Heard(v)
          BY <1>1, <3>2 DEF Heard
        <4> QED BY <2>1, <4>1, FlowOff DEF Comes
      <3> QED BY <3>1, <3>2
    <2>3. NextFrame' = NextFrame
      BY <1>1 DEF NextFrame
    <2>2. \A a : (v \in subs' /\ ~closed' /\ a # 0 /\ a \in {session'.listener, session'.old}) => FALSE
      BY <1>1
    <2> QED BY <1>1, <2>1, <2>2, <2>3, FlowOff DEF FlowGoesOn
  <1>5. OpenGoesOn(v)
    BY <1>1, <1>4, OpenStays
  <1>6. From(answers', answers)
    BY <1>2, <1>3, FromPrefix
  <1> QED BY <1>1, <1>4, <1>5, <1>6, ApartOrdered DEF From

\* A session that is put down has the listener it had, for its last events.
LEMMA TakeDownOrdered ==
    ASSUME Connection, TakeDown, NEW v \in Users, Ordered(v)
    PROVE  Ordered(v)'
  <1>1. /\ Apart /\ UNCHANGED <<serving, answers, closed, inbox, subs>> /\ serving = << >>
        /\ session' = [session EXCEPT !.up = FALSE, !.dying = TRUE, !.old = session.listener, !.listener = 0]
    BY DEF TakeDown, Apart, daemonRest
  <1>2. session \in [up : BOOLEAN, dying : BOOLEAN, listener : Nat, old : Nat, events : Nat, next : Int,
                      attaches : Nat]
    BY ConnectionFacts
  <1>3. session'.old = session.listener /\ session'.listener = 0 /\ NextFrame' = NextFrame
    BY <1>1, <1>2 DEF NextFrame
  <1>4. \A a : (v \in subs' /\ ~closed' /\ a # 0 /\ a \in {session'.listener, session'.old}) => On(v, a)
    BY <1>1, <1>3 DEF On
  <1>5. Heard(v)' = Heard(v)
    BY <1>1 DEF Heard
  <1>6. FlowGoesOn(v) /\ OpenGoesOn(v)
    BY <1>1, <1>3, <1>4, <1>5, FlowOff DEF FlowGoesOn, OpenGoesOn, Comes
  <1> QED BY <1>1, <1>6, ApartOrdered

\* Something else is written: an answer, or a farewell.
LEMMA OtherWritten ==
    ASSUME Connection, NEW v \in Users, Apart, UNCHANGED closed,
           session'.events = session.events, session'.next = session.next,
           answers' = answers \/ \E m \in Wire : answers' = Append(answers, m) /\ m.kind # "event",
           \A a \in Nat : a # 0 /\ a \in {session'.listener, session'.old} => a \in {session.listener, session.old}
    PROVE  FlowGoesOn(v)
  <1>1. inbox' = inbox /\ subs' = subs
    BY DEF Apart
  <1>2. answers \in Seq(Wire) /\ inbox[v] \in Seq(Wire) /\ NextFrame \in Int /\ NextFrame' = NextFrame
    BY ConnectionFacts DEF NextFrame
  <1>3. ASSUME NEW a \in Nat, NEW lo \in Int, NEW h \in SUBSET Int, Comes(v, a, lo, h)
        PROVE  Flow(inbox[v], Heard(v)', a, lo, h, NextFrame, On(v, a))
    <2>1. CASE answers' = answers \/ v \notin subs
      BY <1>1, <1>3, <2>1 DEF Heard, Comes
    <2>2. ASSUME NEW m \in Wire, answers' = Append(answers, m), m.kind # "event", v \in subs
          PROVE  Flow(inbox[v], Heard(v)', a, lo, h, NextFrame, On(v, a))
      <3>1. Heard(v) = answers /\ Heard(v)' = Append(answers, m)
        BY <1>1, <2>2 DEF Heard
      <3>2. Flow(inbox[v], answers, a, lo, h, NextFrame, On(v, a))
        BY <1>3, <3>1 DEF Comes
      <3>3. Flow(inbox[v], Append(answers, m), a, lo, h, NextFrame, On(v, a))
        BY <1>2, <2>2, <3>2, FlowOther
      <3> QED BY <3>1, <3>3
    <2> QED BY <2>1, <2>2
  <1>4. \A a \in Nat : (v \in subs' /\ ~closed' /\ a # 0 /\ a \in {session'.listener, session'.old}) => On(v, a)
    BY <1>1 DEF On
  <1> QED BY <1>1, <1>2, <1>3, <1>4, FlowOff DEF FlowGoesOn

\* A farewell is no event, and after it nobody listens to what was put down.
LEMMA FarewellOrdered ==
    ASSUME Connection, Farewell, NEW v \in Users, Ordered(v)
    PROVE  Ordered(v)'
  <1>1. /\ Apart /\ UNCHANGED <<serving, closed, inbox, subs>>
        /\ session' = [session EXCEPT !.dying = FALSE, !.old = 0]
        /\ answers' = IF session.old = 0 THEN answers ELSE Append(answers, Frame("gone", -1, session.old))
    BY DEF Farewell, Apart, daemonRest
  <1>2. /\ session.old \in Nat
        /\ session \in [up : BOOLEAN, dying : BOOLEAN, listener : Nat, old : Nat, events : Nat, next : Int,
                        attaches : Nat]
        /\ answers \in Seq(Wire)
    BY ConnectionFacts
  <1>3. /\ session'.events = session.events /\ session'.attaches = session.attaches
        /\ session'.next = session.next /\ session'.old = 0 /\ session'.listener = session.listener
    BY <1>1, <1>2
  <1> DEFINE m == Frame("gone", -1, session.old)
  <1>4. m \in Wire /\ m.kind = "gone"
    BY <1>2 DEF Frame, Frames, Wire
  <1>5. answers' = answers \/ answers' = Append(answers, m)
    BY <1>1
  <1> HIDE DEF m
  <1>6. FlowGoesOn(v)
    BY <1>1, <1>3, <1>4, <1>5, OtherWritten
  <1>7. OpenGoesOn(v)
    BY <1>1, <1>3, <1>6, OpenStays
  <1>8. \A i \in DOMAIN answers' : answers'[i].kind = "reply" => \E j \in DOMAIN answers : answers'[i] = answers[j]
    <2>1. \A i \in DOMAIN Append(answers, m) :
             Append(answers, m)[i] = m \/ \E j \in DOMAIN answers : Append(answers, m)[i] = answers[j]
      BY <1>2, <1>4, FromAppend
    <2> QED BY <1>4, <1>5, <2>1
  <1> QED BY <1>1, <1>6, <1>7, <1>8, ApartOrdered

\* Only an open that was served is answered with ok.
LEMMA ServeOrdered ==
    ASSUME Connection, Serve, NEW v \in Users, Ordered(v)
    PROVE  Ordered(v)'
  <1> DEFINE r == Head(requests)
  <1>1. /\ Apart /\ UNCHANGED <<serving, closed, inbox, subs>> /\ requests # << >> /\ serving = << >>
        /\ session' = session \/ session' = [session EXCEPT !.listener = IF session.up THEN 0 ELSE @]
    BY DEF Serve, Apart, daemonRest
  <1>2. /\ session \in [up : BOOLEAN, dying : BOOLEAN, listener : Nat, old : Nat, events : Nat, next : Int,
                        attaches : Nat]
        /\ answers \in Seq(Wire)
    BY ConnectionFacts
  <1>3. /\ session'.events = session.events /\ session'.next = session.next /\ session'.old = session.old
        /\ session'.listener \in {0, session.listener}
    <2>1. CASE session' = session
      BY <2>1
    <2>2. CASE session' = [session EXCEPT !.listener = IF session.up THEN 0 ELSE @]
      BY <1>2, <2>2
    <2> QED BY <1>1, <2>1, <2>2
  <1>4. \E ok \in BOOLEAN : answers' = Append(answers, Reply(r, ok)) /\ (ok => r.op # "open")
    BY <1>2 DEF Serve
  <1>5. PICK ok \in BOOLEAN : answers' = Append(answers, Reply(r, ok)) /\ (ok => r.op # "open")
    BY <1>4
  <1>6. r.id \in Nat /\ (r.id = job[v].id /\ job[v].id # 0 => r = job[v])
    BY <1>1, RequestTaken
  <1> DEFINE m == Reply(r, ok)
  <1>7. m \in Wire /\ m.kind = "reply" /\ m.id = r.id /\ m.ok = ok
    BY <1>6, ReplyType
  <1>8. answers' = Append(answers, m)
    BY <1>5
  <1> HIDE DEF m, r
  <1>9. FlowGoesOn(v)
    BY <1>1, <1>3, <1>7, <1>8, OtherWritten
  <1>10. OpenGoesOn(v)
    BY <1>1 DEF OpenGoesOn
  <1>11. \A i \in DOMAIN answers' : answers'[i] = m \/ \E j \in DOMAIN answers : answers'[i] = answers[j]
    BY <1>2, <1>7, <1>8, FromAppend
  <1>12. ~(Opens(v) /\ m.id = job[v].id /\ m.ok)
    <2> SUFFICES ASSUME Opens(v), m.id = job[v].id, m.ok PROVE FALSE
      OBVIOUS
    <2>1. job[v].id # 0 /\ job[v].op = "open"
      BY DEF Connection, HasSeen, Opens
    <2> QED BY <1>5, <1>6, <1>7, <2>1
  <1> QED BY <1>1, <1>9, <1>10, <1>11, <1>12, ApartOrdered

\* The answer to an open tells of the attachment that serves it.
LEMMA ServeOpenedOrdered ==
    ASSUME Connection, ServeOpened, NEW v \in Users, Ordered(v)
    PROVE  Ordered(v)'
  <1> DEFINE m == Reply(Head(serving), TRUE)
  <1>1. /\ Apart /\ UNCHANGED <<session, closed, inbox, subs>> /\ serving # << >> /\ serving' = << >>
        /\ answers' = Append(answers, m)
    BY DEF ServeOpened, Apart, daemonRest
  <1>2. /\ session.events - 1 \in Int /\ session.attaches \in Nat
        /\ session.attaches <= session.attaches /\ answers \in Seq(Wire)
    BY ConnectionFacts
  <1>3. Head(serving).id \in Nat
    <2>1. serving \in Seq(Requests)
      BY DEF Connection, ConnTypes, WireTypes
    <2>2. Head(serving) \in Requests
      BY <1>1, <2>1, FromTail
    <2> QED BY <2>2 DEF Requests
  <1>4. /\ m \in Wire /\ m.kind = "reply" /\ m.id = Head(serving).id /\ m.ok
        /\ m.attach = session.attaches /\ m.seq = session.events - 1
    BY <1>3, ReplyType
  <1> HIDE DEF m
  <1>5. FlowGoesOn(v)
    BY <1>1, <1>4, OtherWritten
  <1>6. OpenGoesOn(v)
    BY <1>1 DEF OpenGoesOn
  <1>7. \A i \in DOMAIN answers' : answers'[i] = m \/ \E j \in DOMAIN answers : answers'[i] = answers[j]
    BY <1>1, <1>2, <1>4, FromAppend
  <1>8. ASSUME Opens(v), m.id = job[v].id
        PROVE  AnsweredSo(v, m) /\ m.seq \in Int /\ m.attach \in Nat /\ m.attach <= session.attaches
    <2>1. Comes(v, session.attaches, LoServed(job[v]), AskedFor(job[v]))
      BY <1>1, <1>4, <1>8 DEF Ordered
    <2>2. SeenAfter(v, m) = LoServed(job[v])
      BY <1>4 DEF SeenAfter, LoServed
    <2> QED BY <1>2, <1>4, <2>1, <2>2 DEF AnsweredSo
  <1> QED BY <1>1, <1>5, <1>6, <1>7, <1>8, ApartOrdered

\* An event goes to whoever listens, and to nobody else.
LEMMA PublishOrdered ==
    ASSUME Connection, Publish, NEW v \in Users, Ordered(v)
    PROVE  Ordered(v)'
  <1> DEFINE l == IF session.up THEN session.listener ELSE session.old
             n == session.events
             m == Frame("event", n, l)
             f == NextFrame
             g == NextFrame'
  <1>1. /\ Apart /\ UNCHANGED <<serving, closed, inbox, subs>>
        /\ session' = [session EXCEPT !.events = @ + 1] /\ ~closed
        /\ answers' = IF l = 0 \/ n < session.next THEN answers ELSE Append(answers, m)
    BY DEF Publish, Apart, daemonRest, Up, Broken
  <1>2. /\ n \in Nat /\ session.attaches \in Nat /\ session.attaches <= session.attaches
        /\ answers \in Seq(Wire) /\ inbox[v] \in Seq(Wire) /\ Heard(v) \in Seq(Wire)
        /\ session.listener \in Nat /\ session.old \in Nat /\ session.next \in Int
        /\ AskedFor(job[v]) \in SUBSET Int /\ LoServed(job[v]) \in Int /\ job[v].since \in Int
        /\ session \in [up : BOOLEAN, dying : BOOLEAN, listener : Nat, old : Nat, events : Nat, next : Int,
                        attaches : Nat]
    BY ConnectionFacts
  <1>3. /\ session'.events = n + 1 /\ session'.attaches = session.attaches /\ session'.next = session.next
        /\ session'.old = session.old /\ session'.listener = session.listener
    BY <1>1, <1>2
  <1>4. m \in Wire /\ m.kind = "event" /\ m.attach = l /\ m.seq = n /\ l \in Nat
    BY <1>2 DEF Frame, Frames, Wire
  <1>5. \A a : On(v, a) => a = l /\ l # 0
    BY DEF On, Connection, Listened
  <1>6. \A a : (v \in subs' /\ ~closed' /\ a # 0 /\ a \in {session'.listener, session'.old}) => On(v, a)
    BY <1>1, <1>3 DEF On
  <1>7. /\ f \in Int /\ g \in Int
        /\ \/ g = f /\ answers' = answers
           \/ f = n /\ g = n + 1 /\ answers' = IF l = 0 THEN answers ELSE Append(answers, m)
    <2> HIDE DEF m, l, n
    <2>1. f = MaxOf(n, session.next) /\ g = MaxOf(n + 1, session.next)
      BY <1>3 DEF NextFrame, n
    <2> HIDE DEF f, g
    <2>2. n \in Int /\ session.next \in Int /\ n + 1 \in Int
      BY <1>2
    <2>3. CASE n < session.next
      <3>1. f = session.next /\ g = session.next
        BY <2>1, <2>2, <2>3 DEF MaxOf
      <3> QED BY <1>1, <2>2, <2>3, <3>1
    <2>4. CASE ~(n < session.next)
      <3>1. f = n /\ g = n + 1
        BY <2>1, <2>2, <2>4 DEF MaxOf
      <3> QED BY <1>1, <2>2, <2>4, <3>1
    <2> QED BY <2>3, <2>4
  <1> HIDE DEF m, l, n, f, g
  <1>8. ASSUME NEW a \in Nat, NEW lo \in Int, NEW h \in SUBSET Int, Comes(v, a, lo, h)
        PROVE  Flow(inbox[v], Heard(v)', a, lo, h, g, On(v, a))
    <2>0. n \in Int /\ lo <= lo
      BY <1>2
    <2>9. Flow(inbox[v], Heard(v), a, lo, h, f, On(v, a))
      BY <1>8 DEF Comes, f
    <2>3. CASE g = f /\ answers' = answers
      <3>1. Heard(v)' = Heard(v)
        BY <1>1, <2>3 DEF Heard
      <3> QED BY <2>3, <2>9, <3>1
    <2>4. CASE f = n /\ g = n + 1 /\ answers' = IF l = 0 THEN answers ELSE Append(answers, m)
      <3>1. CASE On(v, a)
        <4>1. v \in subs /\ a = l /\ l # 0
          BY <1>5, <3>1 DEF On
        <4>2. Heard(v) = answers /\ Heard(v)' = Append(answers, m)
          BY <1>1, <2>4, <4>1 DEF Heard
        <4>3. Flow(inbox[v], answers, a, lo, h, n, On(v, a))
          BY <2>4, <2>9, <4>2
        <4>4. Flow(inbox[v], Append(answers, m), a, lo, h, n + 1, On(v, a))
          BY <1>2, <1>4, <2>0, <3>1, <4>1, <4>3, FlowPost
        <4> QED BY <2>4, <4>2, <4>4
      <3>2. CASE ~On(v, a)
        <4>1. Flow(inbox[v], Heard(v), a, lo, h, f, FALSE)
          BY <2>9, <3>2, FlowOff
        <4>2. Flow(inbox[v], Heard(v), a, lo, h, g, FALSE)
          BY <1>2, <1>7, <2>0, <4>1, FlowLess
        <4>3. CASE Heard(v)' = Heard(v)
          BY <3>2, <4>2, <4>3, FlowOff
        <4>4. CASE Heard(v)' # Heard(v)
          <5>1. v \in subs /\ l # 0 /\ Heard(v) = answers /\ Heard(v)' = Append(answers, m)
            BY <1>1, <2>4, <4>4 DEF Heard
          <5>2. a # l
            <6>1. l \in {session.listener, session.old}
              BY DEF l
            <6> QED BY <1>1, <3>2, <5>1, <6>1 DEF On
          <5>3. Flow(inbox[v], answers, a, lo, h, g, FALSE)
            BY <4>2, <5>1
          <5>4. Flow(inbox[v], Append(answers, m), a, lo, h, g, FALSE)
            BY <1>2, <1>4, <1>7, <5>2, <5>3, FlowOther
          <5> QED BY <3>2, <5>1, <5>4, FlowOff
        <4> QED BY <4>3, <4>4
      <3> QED BY <3>1, <3>2
    <2> QED BY <1>7, <2>3, <2>4
  <1>9. FlowGoesOn(v)
    BY <1>1, <1>3, <1>6, <1>8, FlowOff DEF FlowGoesOn, g
  <1>10. OpenGoesOn(v)
    <2> SUFFICES ASSUME Opens(v), serving # << >>, Head(serving).id = job[v].id
                 PROVE  Flow(inbox[v], Heard(v)', session.attaches,
                             IF job[v].since < 0 THEN n ELSE job[v].since - 1, AskedFor(job[v]), g,
                             v \in subs' /\ ~closed' /\ session.attaches # 0
                             /\ session.attaches \in {session'.listener, session'.old})
      <3>1. (n + 1) - 1 = n
        BY <1>2
      <3> QED BY <1>1, <1>3, <3>1 DEF OpenGoesOn, g
    <2> DEFINE a == session.attaches
               on == v \in subs' /\ ~closed' /\ a # 0 /\ a \in {session'.listener, session'.old}
               was == LoServed(job[v])
               is == IF job[v].since < 0 THEN n ELSE job[v].since - 1
               h == AskedFor(job[v])
    <2>1. was \in Int /\ is \in Int /\ was <= is
      <3>1. n \in Nat /\ job[v].since \in Int /\ was = IF job[v].since < 0 THEN n - 1 ELSE job[v].since - 1
        BY <1>2 DEF LoServed, n
      <3> HIDE DEF was
      <3>2. CASE job[v].since < 0
        BY <3>1, <3>2
      <3>3. CASE ~(job[v].since < 0)
        BY <3>1, <3>3
      <3> QED BY <3>2, <3>3
    <2>2. Comes(v, a, was, h)
      BY DEF Ordered
    <2>3. on => On(v, a)
      BY <1>6
    <2>4. Heard(v)' \in Seq(Wire)
      <3>1. Append(answers, m) \in Seq(Wire)
        BY <1>2, <1>4, FromAppend
      <3> QED BY <1>1, <1>2, <3>1 DEF Heard
    <2>9. h \in SUBSET Int
      BY <1>2
    <2> HIDE DEF was, is, h
    <2>5. Flow(inbox[v], Heard(v)', a, was, h, g, On(v, a))
      BY <1>2, <1>8, <2>1, <2>2, <2>9
    <2>6. Flow(inbox[v], Heard(v)', a, was, h, g, on)
      BY <2>3, <2>5, FlowOff
    <2>7. on \in BOOLEAN /\ g <= g
      BY <1>7
    <2> HIDE DEF a, on
    <2>8. Flow(inbox[v], Heard(v)', a, is, h, g, on)
      BY SMTT(30), <1>2, <1>7, <2>1, <2>4, <2>6, <2>7, <2>9, FlowLess
    <2> QED BY <2>8 DEF a, on, is, h
  <1>11. \A i \in DOMAIN answers' : answers'[i].kind = "reply" => \E j \in DOMAIN answers : answers'[i] = answers[j]
    <2>1. \A i \in DOMAIN Append(answers, m) :
             Append(answers, m)[i] = m \/ \E j \in DOMAIN answers : Append(answers, m)[i] = answers[j]
      <3>1. answers \in Seq(Wire) /\ m \in Wire
        BY <1>2, <1>4
      <3> QED BY <3>1, FromAppend
    <2> QED BY <1>1, <1>4, <2>1
  <1> QED BY <1>1, <1>9, <1>10, <1>11, ApartOrdered

\* What is replayed goes to the new attachment, and begins where its Chat has
\* asked it to.
LEMMA ServeOpenOrdered ==
    ASSUME Connection, ServeOpen, NEW v \in Users, Ordered(v)
    PROVE  Ordered(v)'
  <1> DEFINE r == Head(requests)
             from == IF r.since < 0 THEN session.events ELSE r.since
             n == session.events
             b == session.attaches + 1
             s == Replayed(from, n, b)
             g == NextFrame'
  <1>1. /\ Apart /\ UNCHANGED <<closed, inbox, subs>> /\ requests # << >> /\ serving' = <<r>>
        /\ session' = [session EXCEPT !.up = TRUE, !.listener = b, !.next = from, !.attaches = b]
        /\ answers' = answers \o s /\ ~session.dying
    BY DEF ServeOpen, Replayed, Apart, daemonRest
  <1>2. /\ n \in Nat /\ session.attaches \in Nat /\ answers \in Seq(Wire)
        /\ inbox[v] \in Seq(Wire) /\ Heard(v) \in Seq(Wire) /\ Numbered /\ Listened /\ NextFrame \in Int
        /\ AskedFor(job[v]) \in SUBSET Int /\ LoServed(job[v]) \in Int /\ job[v].since \in Int
        /\ session \in [up : BOOLEAN, dying : BOOLEAN, listener : Nat, old : Nat, events : Nat, next : Int,
                        attaches : Nat]
    BY ConnectionFacts
  <1>4. r \in Requests /\ (r.id = job[v].id /\ job[v].id # 0 => r = job[v])
    BY <1>1, RequestTaken
  <1>5. from \in Int
    <2>1. r.since \in Int
      BY <1>4 DEF Requests
    <2> HIDE DEF r
    <2> QED BY <1>2, <2>1
  <1>3. /\ b \in Nat /\ b # 0 /\ session.attaches < b
        /\ session'.events = n /\ session'.attaches = b /\ session'.listener = b /\ session'.old = 0
        /\ g = MaxOf(n, from) /\ g \in Int
    <2>1. b \in Nat /\ b # 0 /\ session.attaches < b
      BY <1>2
    <2> HIDE DEF b, from
    <2>2. /\ session'.events = n /\ session'.attaches = b /\ session'.listener = b
          /\ session'.old = session.old /\ session'.next = from
      BY <1>1, <1>2, <1>5, <2>1
    <2>3. session.old = 0
      BY <1>1, <1>2 DEF Listened
    <2>4. g = MaxOf(n, from) /\ g \in Int
      BY <1>2, <1>5, <2>2 DEF NextFrame, MaxOf
    <2> QED BY <2>1, <2>2, <2>3, <2>4
  <1>6. /\ s \in Seq(Frames)
        /\ \A i \in DOMAIN s : s[i].attach = b /\ s[i].kind = "event"
    <2> HIDE DEF from, b, n
    <2>1. s \in Seq(Frames) /\ \A i \in DOMAIN s : s[i].attach = b
      <3>1. n \in Int /\ from \in Int /\ b \in Nat
        BY <1>2, <1>3, <1>5
      <3> QED BY <3>1, ReplayedType
    <2>2. \A i \in DOMAIN s : s[i].kind = "event"
      BY DEF Replayed, Frame
    <2> QED BY <2>1, <2>2
  <1>7. s \in Seq(Wire)
    BY <1>6, SeqMonotonic DEF Wire
  <1> HIDE DEF s, from, b, g
  <1>8. \A a \in Nat : a <= session.attaches =>
           /\ ~(v \in subs' /\ ~closed' /\ a # 0 /\ a \in {session'.listener, session'.old})
           /\ a # b
    <2> SUFFICES ASSUME NEW a \in Nat, a <= session.attaches
                 PROVE  /\ ~(v \in subs' /\ ~closed' /\ a # 0 /\ a \in {session'.listener, session'.old})
                        /\ a # b
      OBVIOUS
    <2>1. a # b
      BY <1>2, <1>3
    <2> QED BY <1>3, <2>1
  <1>9. ASSUME NEW a \in Nat, a <= session.attaches, NEW lo \in Int, NEW h \in SUBSET Int, Comes(v, a, lo, h)
        PROVE  Flow(inbox[v], Heard(v)', a, lo, h, g, FALSE)
    <2>1. Flow(inbox[v], Heard(v), a, lo, h, g, FALSE)
      <3>1. Flow(inbox[v], Heard(v), a, lo, h, NextFrame, FALSE)
        BY <1>9, FlowOff DEF Comes
      <3>2. lo <= lo
        OBVIOUS
      <3> QED BY <1>2, <1>3, <3>1, <3>2, FlowLess
    <2>2. CASE v \in subs
      <3>1. Heard(v) = answers /\ Heard(v)' = answers \o s
        BY <1>1, <2>2 DEF Heard
      <3>2. NoneOf(s, a)
        BY <1>6, <1>8, <1>9 DEF NoneOf
      <3>3. Flow(inbox[v], answers, a, lo, h, g, FALSE)
        BY <2>1, <3>1
      <3>4. Flow(inbox[v], answers \o s, a, lo, h, g, FALSE)
        BY <1>2, <1>3, <1>7, <3>2, <3>3, FlowOthers
      <3> QED BY <3>1, <3>4
    <2>3. CASE v \notin subs
      BY <1>1, <2>1, <2>3 DEF Heard
    <2> QED BY <2>2, <2>3
  <1>10. FlowGoesOn(v)
    BY <1>1, <1>8, <1>9, FlowOff DEF FlowGoesOn, g
  <1>11. OpenGoesOn(v)
    <2> DEFINE lo == IF job[v].since < 0 THEN n - 1 ELSE job[v].since - 1
               on == v \in subs' /\ ~closed' /\ b # 0 /\ b \in {session'.listener, session'.old}
               h == AskedFor(job[v])
    <2> SUFFICES ASSUME Opens(v), r.id = job[v].id
                 PROVE  Flow(inbox[v], Heard(v)', b, lo, h, g, on)
      BY <1>1, <1>3 DEF OpenGoesOn, g
    <2>1. job[v].id # 0
      BY DEF Connection, HasSeen
    <2>2. r = job[v]
      BY <1>4, <2>1
    <2>3. from = lo + 1 /\ lo \in Int /\ \A k \in h : k <= lo
      <3>1. from = IF job[v].since < 0 THEN n ELSE job[v].since
        BY <2>2 DEF from
      <3>2. AskedFor(job[v]) = {IF job[v].since < 0 THEN -1 ELSE job[v].since - 1}
        BY DEF AskedFor
      <3>3. \A x, y \in Int : /\ (IF x < 0 THEN y ELSE x) = (IF x < 0 THEN y - 1 ELSE x - 1) + 1
                              /\ (IF x < 0 THEN y - 1 ELSE x - 1) \in Int
                              /\ y >= 0 => (IF x < 0 THEN -1 ELSE x - 1) <= (IF x < 0 THEN y - 1 ELSE x - 1)
        OBVIOUS
      <3>4. job[v].since \in Int /\ n \in Int /\ n >= 0
        BY <1>2
      <3> HIDE DEF n
      <3>5. h = {IF job[v].since < 0 THEN -1 ELSE job[v].since - 1}
        BY <3>2
      <3>6. from = lo + 1 /\ lo \in Int
        BY <3>1, <3>3, <3>4
      <3>7. \A k \in h : k <= lo
        BY <3>3, <3>4, <3>5
      <3> QED BY <3>6, <3>7
    <2>5. NoneOf(inbox[v], b) /\ NoneOf(answers, b)
      <3>1. /\ \A i \in DOMAIN inbox[v] : inbox[v][i].attach <= session.attaches
            /\ \A i \in DOMAIN answers : answers[i].attach <= session.attaches
        BY <1>2 DEF Numbered
      <3>2. /\ \A i \in DOMAIN inbox[v] : inbox[v][i].attach \in Nat
            /\ \A i \in DOMAIN answers : answers[i].attach \in Nat
        <4>1. \A w \in Wire : w.attach \in Nat
          BY DEF Wire, Frames, Replies
        <4> QED BY <1>2, <4>1
      <3>3. \A a \in Nat : a <= session.attaches => a # b
        BY <1>8
      <3> QED BY <3>1, <3>2, <3>3 DEF NoneOf
    <2>6. n \in Int /\ h \in SUBSET Int
      BY <1>2
    <2> HIDE DEF lo, on, n, h
    <2>4. g = MaxOf(n, lo + 1)
      BY <1>3, <2>3
    <2>7. CASE v \in subs
      <3>1. Heard(v)' = answers \o Replayed(lo + 1, n, b)
        BY <1>1, <2>3, <2>7 DEF Heard, s
      <3>2. Flow(inbox[v], answers \o Replayed(lo + 1, n, b), b, lo, h, MaxOf(n, lo + 1), on)
        BY <1>2, <1>3, <2>3, <2>5, <2>6, FlowReplayed
      <3> QED BY <2>4, <3>1, <3>2
    <2>8. CASE v \notin subs
      <3>1. Heard(v)' = << >> /\ ~on /\ NoneOf(<< >>, b)
        BY <1>1, <2>8 DEF Heard, on, NoneOf
      <3>2. Flow(inbox[v], << >>, b, lo, h, g, on)
        BY <1>3, <2>3, <2>5, <2>6, <3>1, FlowNone
      <3> QED BY <3>1, <3>2
    <2> QED BY <2>7, <2>8
  <1>12. \A i \in DOMAIN answers' : answers'[i].kind = "reply" => \E j \in DOMAIN answers : answers'[i] = answers[j]
    <2>1. FromBoth(answers \o s, answers, s)
      BY <1>2, <1>7, FromConcat
    <2> QED BY <1>1, <1>6, <2>1 DEF FromBoth
  <1> QED BY <1>1, <1>10, <1>11, <1>12, ApartOrdered

-----------------------------------------------------------------------------
(* The specification of the connection. *)

\* Nobody has called, nothing is attached, and the log has what it has.
LEMMA InitInv == Init => Inv
  <1> SUFFICES ASSUME Init PROVE Inv
    OBVIOUS
  <1>1. PICK s \in Scenarios :
          /\ plan = s.plan /\ stops = s.stops
          /\ session = [up |-> FALSE, dying |-> FALSE, listener |-> 0, old |-> 0, events |-> s.log,
                      next |-> 0, attaches |-> 0]
    BY DEF Init
  <1>2. plan \in [Users -> Seq(Ops)] /\ stops \in Nat /\ s.log \in Nat
    BY <1>1, ClientAssumption
  <1>3. /\ alive = TRUE /\ nextId = 1 /\ pending = {} /\ subs = {} /\ closed = FALSE /\ foreign = FALSE
        /\ answer = [u \in Users |-> << >>] /\ inbox = [u \in Users |-> << >>]
        /\ pc = [t \in Threads |-> "idle"] /\ job = [u \in Users |-> NoJob] /\ then = [t \in Threads |-> "idle"]
        /\ chat = [u \in Users |-> [attached |-> 0, seen |-> -1, started |-> FALSE, finished |-> FALSE]]
        /\ handed = [u \in Users |-> << >>] /\ origin = [u \in Users |-> [asked |-> 0, full |-> 0]]
        /\ covered = [u \in Users |-> {}]
        /\ requests = << >> /\ answers = << >> /\ serving = << >>
    BY DEF Init
  <1>4. /\ session.up = FALSE /\ session.dying = FALSE /\ session.listener = 0 /\ session.old = 0
        /\ session.events = s.log /\ session.attaches = 0
        /\ session \in [up : BOOLEAN, dying : BOOLEAN, listener : Nat, old : Nat, events : Nat, next : Int, attaches : Nat]
    BY <1>1, <1>2
  <1>5. WireTypes
    BY <1>2, <1>3, <1>4 DEF WireTypes
  <1>6. ChatTypes
    <2>1. << >> \in Seq(Int) /\ -1 \in Int /\ 0 \in Nat
      OBVIOUS
    <2>2. handed \in [Users -> Seq(Int)]
      BY <1>3, <2>1
    <2>3. origin \in [Users -> [asked : Int, full : Int]] /\ covered \in [Users -> SUBSET Int]
      BY <1>3, <2>1
    <2>4. chat \in [Users -> [attached : Nat, seen : Int, started : BOOLEAN, finished : BOOLEAN]]
      BY <1>3, <2>1
    <2> QED BY <1>3, <2>2, <2>3, <2>4 DEF ChatTypes
  <1>7. CallTypes
    <2>1. NoJob \in Requests
      BY DEF NoJob, Requests
    <2>2. job \in [Users -> Requests]
      BY <1>3, <2>1
    <2>3. pc \in [Threads -> Places] /\ then \in [Threads -> Onward]
      BY <1>3 DEF Places, Onward
    <2>4. nextId \in Nat \ {0} /\ pending \subseteq Nat \X Users /\ subs \subseteq Users
      BY <1>3
    <2>5. alive \in BOOLEAN /\ closed \in BOOLEAN
      BY <1>3
    <2> QED BY <1>2, <2>2, <2>3, <2>4, <2>5 DEF CallTypes
  <1>8. Listened
    BY <1>4 DEF Listened
  <1>9. Known
    <2>1. \A u \in Users : job[u].id = 0
      BY <1>3 DEF NoJob
    <2> QED BY <1>3, <2>1 DEF Known
  <1>10. Registered
    BY <1>3 DEF Registered
  <1>11. Numbered
    BY <1>3, <1>4 DEF Numbered
  <1>12. HasSeen
    <2>1. -1 <= -1 /\ 0 - 1 <= -1
      OBVIOUS
    <2> QED BY <1>3, <2>1 DEF HasSeen, Opens, Threads
  <1>13. \A u \in Users : Ordered(u)
    <2> SUFFICES ASSUME NEW u \in Users PROVE Ordered(u)
      OBVIOUS
    <2>1. /\ chat[u].attached = 0 /\ chat[u].seen = -1 /\ answer[u] = << >> /\ handed[u] = << >>
          /\ origin[u].full = 0 /\ ~Opens(u)
      BY <1>3 DEF Opens, Threads
    <2>2. Lo(u) = -1 /\ 0 .. -1 = {}
      BY <2>1 DEF Lo, LastOf
    <2> QED BY <1>3, <2>1, <2>2 DEF Ordered
  <1> QED BY <1>5, <1>6, <1>7, <1>8, <1>9, <1>10, <1>11, <1>12, <1>13 DEF Inv, Connection, ConnTypes

\* One step of the program, its connection or the daemon's end of it.
LEMMA ClientInv ==
    ASSUME Inv, ClientNext
    PROVE  Inv'
  <1>0. Connection /\ (foreign \/ \A v \in Users : Ordered(v))
    BY DEF Inv
  <1>1. ASSUME Aside PROVE Inv'
    BY <1>0, <1>1, AsideBase, AsideOrdered DEF Inv, Aside
  <1>2. ASSUME NEW u \in Users, Called(u) PROVE Inv'
    <2>1. foreign' = foreign
      BY <1>2 DEF Called
    <2> QED BY <1>0, <1>2, <2>1, CalledBase, CalledOrdered DEF Inv
  <1>3. ASSUME NEW u \in Users, Started(u) PROVE Inv'
    <2>1. foreign' = foreign
      BY <1>3 DEF Started
    <2> QED BY <1>0, <1>3, <2>1, StartedBase, StartedOrdered DEF Inv
  <1>4. ASSUME NEW u \in Users, Receive(u) PROVE Inv'
    <2>1. foreign => foreign'
      BY <1>4 DEF Receive
    <2> QED BY <1>0, <1>4, <2>1, ReceiveBase, ReceiveOrdered DEF Inv
  <1>5. ASSUME NEW u \in Users, ReceiveGone(u) PROVE Inv'
    <2>1. foreign => foreign'
      BY <1>5 DEF ReceiveGone
    <2> QED BY <1>0, <1>5, <2>1, ReceiveGoneBase, ReceiveGoneOrdered DEF Inv
  <1>6. ASSUME NEW t \in Threads, Cut(t) PROVE Inv'
    <2>1. foreign' = foreign
      BY <1>6 DEF Cut
    <2> QED BY <1>0, <1>6, <2>1, CutBase, CutOrdered DEF Inv
  <1>7. ASSUME Read PROVE Inv'
    <2>1. foreign' = foreign
      BY <1>7 DEF Read
    <2> QED BY <1>0, <1>7, <2>1, ReadBase, ReadOrdered DEF Inv
  <1>8. ASSUME ServeOpen \/ ServeOpened \/ Serve \/ TakeDown \/ Farewell \/ Publish \/ Close PROVE Inv'
    <2>1. Serves
      BY <1>0, <1>8, DaemonServes
    <2>2. Connection' /\ foreign' = foreign
      BY <1>0, <2>1, ServesBase DEF Serves
    <2>3. \A v \in Users : Ordered(v) => Ordered(v)'
      BY <1>0, <1>8, ServeOpenOrdered, ServeOpenedOrdered, ServeOrdered, TakeDownOrdered, FarewellOrdered,
         PublishOrdered, CloseOrdered
    <2> QED BY <1>0, <2>2, <2>3 DEF Inv
  <1>9. ASSUME NEW u \in Users,
               \/ Return(u) \/ Start(u) \/ Send(u) \/ Change(u) \/ Refresh(u) \/ Ask(u)
               \/ Detach(u) \/ Stop(u) \/ Abandon(u)
               \/ Receive(u) \/ ReceiveGone(u) \/ Timeout(u) \/ Thread(u)
        PROVE  Inv'
    <2>1. CASE Start(u) \/ Send(u) \/ Change(u) \/ Refresh(u) \/ Ask(u) \/ Detach(u) \/ Stop(u)
      BY <1>0, <1>2, <2>1, CallsCalled
    <2>2. CASE \/ Write(u) \/ WriteDead(u) \/ WriteBroken(u) \/ WriteFailed(u) \/ Refused(u)
               \/ Timeout(u) \/ Return(u) \/ Told(u) \/ LetGo(u) \/ Abandon(u)
               \/ Notify(u) \/ NotifyBroken(u) \/ NotifyDead(u) \/ Unmark(u)
      BY <1>0, <1>1, <2>2, UserAside
    <2>3. CASE Started(u)
      BY <1>3, <2>3
    <2>4. CASE Receive(u) \/ ReceiveGone(u)
      BY <1>4, <1>5, <2>4
    <2> QED BY <1>9, <2>1, <2>2, <2>3, <2>4 DEF Thread
  <1>10. ASSUME NEW t \in Threads, Cut(t) \/ ClearAll(t) PROVE Inv'
    BY <1>0, <1>1, <1>6, <1>10, OtherAside
  <1>11. CASE Eof
    BY <1>0, <1>1, <1>11, OtherAside
  <1> QED BY <1>7, <1>8, <1>9, <1>10, <1>11 DEF ClientNext

\* What programs and daemons do to start does not touch the connection.
LEMMA NextInv == Inv /\ [Next]_vars => Inv'
  <1> SUFFICES ASSUME Inv, [Next]_vars PROVE Inv'
    OBVIOUS
  <1>1. CASE UNCHANGED connVars
    <2>1. UNCHANGED <<innerVars, threadVars, chatVars, wireVars, sessionVars>>
      BY <1>1 DEF connVars
    <2>2. Connection'
      <3>1. ConnTypes'
        BY <2>1 DEF Inv, Connection, ConnTypes, WireTypes, ChatTypes, CallTypes
      <3>2. Known' /\ Listened'
        BY <2>1 DEF Inv, Connection, Known, Listened
      <3>3. Registered'
        BY <2>1 DEF Inv, Connection, Registered, Waits
      <3>4. Numbered' /\ HasSeen'
        BY <2>1 DEF Inv, Connection, Numbered, HasSeen, Opens
      <3> QED BY <3>1, <3>2, <3>3, <3>4 DEF Connection
    <2>3. ASSUME NEW v \in Users, Ordered(v) PROVE Ordered(v)'
      <3>1. /\ Lo(v)' = Lo(v) /\ Below(v)' = Below(v) /\ Heard(v)' = Heard(v) /\ NextFrame' = NextFrame
            /\ LoServed(job[v])' = LoServed(job[v]) /\ AskedFor(job[v])' = AskedFor(job[v])
            /\ Opens(v)' = Opens(v)
        BY <2>1 DEF Lo, Below, Heard, NextFrame, LoServed, AskedFor, Opens
      <3>2. \A a, lo, h : Comes(v, a, lo, h)' = Comes(v, a, lo, h)
        BY <2>1, <3>1 DEF Comes, On
      <3>3. \A m : AnsweredSo(v, m)' = AnsweredSo(v, m)
        BY <2>1, <3>1 DEF Comes, On, AnsweredSo, SeenAfter
      <3> QED BY <2>1, <2>3, <3>1, <3>2, <3>3 DEF Ordered
    <2> QED BY <2>1, <2>2, <2>3 DEF Inv
  <1>2. CASE ClientNext
    BY <1>2, ClientInv
  <1> QED BY <1>1, <1>2 DEF Next, vars

\* A chat that is attached hands out every event once, in order, none below the
\* position that its start asked for and none left out from there on (from the
\* answer on, if it was live only), whatever calls time out and wherever the
\* connection breaks: open subscribes before it asks, the daemon replays before
\* it answers, and tells a listener nothing below its position.  And however
\* often the chat is detached and attached again by the way, it has passed over
\* no event that its owner has not asked it to: next_event, send and refresh ask
\* from the first event on that was not seen (start_since).  The one condition
\* is that no frame of one attachment was taken for one of another.
THEOREM HandedInOrder == Spec => []InOrderUnlessForeign
  <1>1. Inv => InOrderUnlessForeign
    <2> SUFFICES ASSUME Inv, ~foreign, NEW u \in Users
                 PROVE  /\ \A i \in DOMAIN handed[u] : handed[u][i] >= origin[u].asked
                        /\ \A i \in 2 .. Len(handed[u]) : handed[u][i - 1] < handed[u][i]
                        /\ \A i \in DOMAIN handed[u] :
                              \A e \in origin[u].full .. handed[u][i] : e \in Range(handed[u])
                        /\ 0 .. chat[u].seen \subseteq covered[u]
      BY DEF InOrderUnlessForeign, InOrder
    <2>1. Ordered(u) /\ ConnTypes
      BY DEF Inv, Connection
    <2>2. /\ Lo(u) \in Int /\ origin[u].asked \in Int /\ origin[u].full \in Int
          /\ \A i \in DOMAIN handed[u] : handed[u][i] \in Int
      BY <2>1, LoType
    <2>3. \A i \in DOMAIN handed[u] : \A e \in origin[u].full .. handed[u][i] : e \in origin[u].full .. Lo(u)
      BY <2>1, <2>2 DEF Ordered
    <2>4. \A i \in DOMAIN handed[u] : handed[u][i] >= origin[u].asked
      BY <2>1, <2>2 DEF Ordered
    <2> QED BY <2>1, <2>3, <2>4 DEF Ordered
  <1> QED BY <1>1, InitInv, NextInv, PTL DEF Spec

-----------------------------------------------------------------------------
(* Who listens: what the client and the daemon know of each other. *)

\* The connection works, and no open was given up.
Steady == alive /\ ~late /\ ~closed

\* The one who has the session, or is about to have it (Inner::open_sessions).
Holds(u) == Attached(u) \/ Opens(u)

\* Who gives the session up.
Parts(u) == pc[u] \in {"drop", "unmark"} \/ (pc[u] \in {"write", "await"} /\ job[u].op \in {"detach", "stop"})

\* The answers that grant u what it asks for.
Granted(u) ==
    {m \in Range(answers) : m.kind = "reply" /\ m.ok /\ m.id = job[u].id}
    \cup (IF answer[u] = << >> THEN {} ELSE {m \in {Head(answer[u])} : m.ok})

Served(u) == serving # << >> /\ Head(serving).id = job[u].id
Detaching == \E r \in Range(requests) : r.op = "detach"
Gone(u) == \E m \in Range(inbox[u]) \cup Range(answers) : m.kind = "gone"

\* An attachment of u is on, or u is going to hear that it is not.
Kept(u, a) == a # 0 /\ (a \in {session.listener, session.old} \/ Gone(u))

\* One thread at a time has the session or is opening it.
OneHas ==
    /\ \A t \in Threads : pc[t] \notin {"cut", "clear", "failed"}
    /\ \A u \in Users : pc[u] \in {"drop", "unmark"} => Attached(u)
    /\ \A u \in Users : pc[u] \in {"write", "await"} /\ job[u].op = "detach" => Attached(u)
    /\ \A u \in Users : Opens(u) => ~Attached(u)
    /\ \A u \in Users : Holds(u) => reserved /\ u \in subs
    /\ \A u, v \in Users : Holds(u) /\ Holds(v) => u = v

\* An id is in one place on its way to the daemon and back.
Ids(s) == {s[i].id : i \in DOMAIN s}
Unique(s) == \A i, j \in DOMAIN s : s[i].id = s[j].id /\ s[i].id > 0 => i = j
Travels(i) == i \in Ids(requests) \/ i \in Ids(serving) \/ i \in Ids(answers)
Once ==
    /\ Unique(requests) /\ Unique(answers)
    /\ \A i \in Ids(requests) : i > 0 => i \notin Ids(serving) /\ i \notin Ids(answers)
    /\ \A i \in Ids(serving) : i > 0 => i \notin Ids(answers)
    /\ \A u \in Users : pc[u] = "write" => ~Travels(job[u].id)

\* Who waits for an answer that is not there is in Inner::pending.
Awaited ==
    /\ \A u \in Users : pc[u] \in {"write", "await"} => job[u].id > 0
    /\ \A u \in Users : pc[u] = "write" \/ (pc[u] = "await" /\ answer[u] = << >>) => <<job[u].id, u>> \in pending
    /\ \A u \in Users : pc[u] = "await" /\ Travels(job[u].id) => answer[u] = << >>

\* An open on its way is that of a thread that waits for it.
Belongs ==
    /\ \A r \in Range(serving) : r.op = "open"
    /\ \A r \in Range(requests) \cup Range(serving) :
        r.op = "open" => \E u \in Users : Opens(u) /\ pc[u] = "await" /\ job[u] = r

\* A detach is in front of any open, and whoever has the session gives it up.
Behind ==
    /\ \A i, j \in DOMAIN requests : requests[i].op = "detach" /\ requests[j].op = "open" => i < j
    /\ Detaching => \A u \in Users : /\ Attached(u) => Parts(u)
                                     /\ Opens(u) => ~Served(u) /\ Granted(u) = {}

Attends ==
    \/ Detaching
    \/ \E u \in Users : chat[u].attached = session.listener
    \/ \E u \in Users : Opens(u) /\ (Served(u) \/ \E m \in Granted(u) : m.attach = session.listener)
Released(u) ==
    \/ pc[u] = "unmark" /\ ~Detaching
    \/ pc[u] = "await" /\ job[u].op \in {"detach", "stop"} /\ Granted(u) # {}
Listens ==
    /\ serving # << >> => session.up /\ session.listener = session.attaches
    /\ session.listener # 0 => Attends
    /\ \A u \in Users : Attached(u) /\ ~Parts(u) => Kept(u, chat[u].attached)
    /\ \A u \in Users : Opens(u) => \A m \in Granted(u) : Kept(u, m.attach)
    /\ \A u \in Users : Attached(u) /\ Released(u) => session.listener = 0

Agreed == OneHas /\ Once /\ Awaited /\ Belongs /\ Behind /\ Listens
Agreement == Steady => Agreed

\* What is at the front of a sequence, and what is behind it.
LEMMA IdsTail ==
    ASSUME NEW S, NEW s \in Seq(S), s # << >>
    PROVE  LET t == Tail(s)
               m == Head(s)
           IN  /\ Ids(s) = Ids(t) \cup {m.id}
               /\ Range(s) = Range(t) \cup {m}
               /\ Unique(s) => Unique(t) /\ (m.id > 0 => m.id \notin Ids(t))
               /\ \A i \in DOMAIN t : i \in Nat /\ i + 1 \in DOMAIN s /\ t[i] = s[i + 1]
               /\ 1 \in DOMAIN s /\ m = s[1] /\ \A i \in DOMAIN s : i # 1 => i > 1
  <1> DEFINE t == Tail(s)
             m == Head(s)
  <1>1. /\ t \in Seq(S) /\ Len(s) \in Nat \ {0} /\ m = s[1]
        /\ Len(t) = Len(s) - 1 /\ \A i \in 1 .. Len(t) : t[i] = s[i + 1]
    BY HeadTailProperties, EmptySeq
  <1>2. DOMAIN s = 1 .. Len(s) /\ DOMAIN t = 1 .. Len(s) - 1
    BY <1>1
  <1> HIDE DEF t, m
  <1>3. /\ \A i \in DOMAIN t : i \in Nat /\ i + 1 \in DOMAIN s /\ t[i] = s[i + 1] /\ i + 1 # 1
        /\ \A i \in DOMAIN s : i # 1 => i > 1 /\ i - 1 \in DOMAIN t /\ s[i] = t[i - 1]
        /\ 1 \in DOMAIN s
        /\ \A i, j \in DOMAIN t : i + 1 = j + 1 => i = j
    <2>1. \A i \in DOMAIN s : i # 1 => i > 1 /\ i - 1 \in 1 .. Len(s) - 1 /\ (i - 1) + 1 = i
      BY <1>1, <1>2
    <2> QED BY <1>1, <1>2, <2>1
  <1>4. Ids(s) = Ids(t) \cup {m.id} /\ Range(s) = Range(t) \cup {m}
    <2>1. \A x \in Ids(s) : x \in Ids(t) \cup {m.id}
      BY <1>1, <1>3 DEF Ids
    <2>2. m.id \in Ids(s) /\ \A x \in Ids(t) : x \in Ids(s)
      <3>1. s[1].id \in Ids(s)
        BY <1>3 DEF Ids
      <3>2. ASSUME NEW i \in DOMAIN t PROVE t[i].id \in Ids(s)
        BY <1>3, <3>2 DEF Ids
      <3> QED BY <1>1, <3>1, <3>2 DEF Ids
    <2>3. ASSUME NEW i \in DOMAIN s PROVE s[i] \in Range(t) \cup {m}
      <3>1. CASE i = 1
        BY <1>1, <3>1
      <3>2. CASE i # 1
        <4>1. i - 1 \in DOMAIN t /\ s[i] = t[i - 1]
          BY <1>3, <2>3, <3>2
        <4> QED BY <4>1 DEF Range
      <3> QED BY <3>1, <3>2
    <2>4. \A x \in Range(t) \cup {m} : x \in Range(s)
      BY <1>1, <1>3 DEF Range
    <2>5. Range(s) \subseteq Range(t) \cup {m}
      BY <2>3 DEF Range
    <2> QED BY <2>1, <2>2, <2>4, <2>5
  <1>5. ASSUME Unique(s) PROVE Unique(t) /\ (m.id > 0 => m.id \notin Ids(t))
    <2>1. ASSUME NEW i \in DOMAIN t, NEW j \in DOMAIN t, t[i].id = t[j].id, t[i].id > 0 PROVE i = j
      <3>0. /\ i + 1 \in DOMAIN s /\ j + 1 \in DOMAIN s
            /\ s[i + 1].id = s[j + 1].id /\ s[i + 1].id > 0
        BY <1>3, <2>1
      <3>1. i + 1 = j + 1
        BY <1>5, <3>0 DEF Unique
      <3> QED BY <1>3, <3>1
    <2>2. ASSUME m.id > 0, NEW i \in DOMAIN t, t[i].id = m.id PROVE FALSE
      BY <1>1, <1>3, <1>5, <2>2 DEF Unique
    <2> QED BY <2>1, <2>2 DEF Unique, Ids
  <1> QED BY <1>1, <1>3, <1>4, <1>5 DEF t, m

\* What is put behind a sequence.
LEMMA IdsAppend ==
    ASSUME NEW S, NEW s \in Seq(S), NEW m \in S
    PROVE  LET t == Append(s, m)
           IN  /\ Ids(t) = Ids(s) \cup {m.id}
               /\ Range(t) = Range(s) \cup {m}
               /\ Unique(s) /\ (m.id > 0 => m.id \notin Ids(s)) => Unique(t)
               /\ \A i \in DOMAIN t : \/ i \in DOMAIN s /\ t[i] = s[i]
                                      \/ t[i] = m /\ i \notin DOMAIN s /\ \A j \in DOMAIN s : j < i
  <1> DEFINE t == Append(s, m)
  <1>1. /\ t \in Seq(S) /\ Len(t) = Len(s) + 1 /\ Len(s) \in Nat /\ t[Len(s) + 1] = m
        /\ \A i \in 1 .. Len(s) : t[i] = s[i]
    BY AppendProperties
  <1>2. DOMAIN s = 1 .. Len(s) /\ DOMAIN t = 1 .. Len(s) + 1
    BY <1>1
  <1> DEFINE k == Len(s) + 1
  <1> HIDE DEF t
  <1>3. /\ \A i \in DOMAIN t : (i \in DOMAIN s /\ t[i] = s[i]) \/ i = k
        /\ \A i \in DOMAIN s : i \in DOMAIN t /\ t[i] = s[i] /\ i < k
        /\ k \in DOMAIN t /\ t[k] = m /\ k \notin DOMAIN s
    BY <1>1, <1>2
  <1> HIDE DEF k
  <1>4. Ids(t) = Ids(s) \cup {m.id} /\ Range(t) = Range(s) \cup {m}
    <2>1. \A x \in Ids(t) : x \in Ids(s) \cup {m.id}
      BY <1>3 DEF Ids
    <2>2. \A x \in Ids(s) \cup {m.id} : x \in Ids(t)
      BY <1>3 DEF Ids
    <2>3. \A x \in Range(t) : x \in Range(s) \cup {m}
      BY <1>3 DEF Range
    <2>4. \A x \in Range(s) \cup {m} : x \in Range(t)
      BY <1>3 DEF Range
    <2> QED BY <2>1, <2>2, <2>3, <2>4
  <1>5. ASSUME Unique(s), m.id > 0 => m.id \notin Ids(s) PROVE Unique(t)
    BY <1>3, <1>5 DEF Unique, Ids
  <1> QED BY <1>3, <1>4, <1>5 DEF t

\* What is replayed is no answer and no farewell.
LEMMA IdsReplayed ==
    ASSUME NEW s \in Seq(Wire), NEW from \in Int, NEW n \in Int, NEW a \in Nat
    PROVE  LET t == s \o Replayed(from, n, a)
           IN  /\ \A i \in Ids(t) : i \in Ids(s) \/ ~(i > 0)
               /\ \A m \in Range(t) : m \in Range(s) \/ m.kind = "event"
               /\ Range(s) \subseteq Range(t)
               /\ Unique(s) => Unique(t)
  <1> DEFINE q == Replayed(from, n, a)
             t == s \o q
  <1>1. q \in Seq(Wire) /\ \A i \in DOMAIN q : q[i].id = -1 /\ q[i].kind = "event"
    <2>1. q \in Seq(Frames)
      BY ReplayedType
    <2>2. \A i \in DOMAIN q : q[i].id = -1 /\ q[i].kind = "event"
      BY DEF Replayed, Frame
    <2> QED BY <2>1, <2>2, SeqMonotonic DEF Wire
  <1> HIDE DEF q
  <1>2. /\ t \in Seq(Wire) /\ Len(t) = Len(s) + Len(q) /\ Len(s) \in Nat /\ Len(q) \in Nat
        /\ \A i \in 1 .. Len(s) + Len(q) : t[i] = IF i <= Len(s) THEN s[i] ELSE q[i - Len(s)]
    BY <1>1, ConcatProperties
  <1> HIDE DEF t
  <1>3. /\ \A i \in DOMAIN t : \/ i \in DOMAIN s /\ t[i] = s[i]
                               \/ \E j \in DOMAIN q : t[i] = q[j]
        /\ \A i \in DOMAIN s : i \in DOMAIN t /\ t[i] = s[i]
    <2>1. DOMAIN t = 1 .. Len(s) + Len(q) /\ DOMAIN s = 1 .. Len(s) /\ DOMAIN q = 1 .. Len(q)
      BY <1>1, <1>2
    <2>2. \A i \in DOMAIN t : i > Len(s) => i - Len(s) \in DOMAIN q /\ t[i] = q[i - Len(s)]
      BY <1>2, <2>1
    <2> QED BY SMTT(30), <1>2, <2>1, <2>2
  <1>4. \A i \in DOMAIN t : \/ i \in DOMAIN s /\ t[i] = s[i]
                            \/ t[i].id = -1 /\ t[i].kind = "event"
    BY <1>1, <1>3
  <1>5. ~(-1 > 0)
    OBVIOUS
  <1>6. \A i \in Ids(t) : i \in Ids(s) \/ ~(i > 0)
    BY <1>4, <1>5 DEF Ids
  <1>7. (\A m \in Range(t) : m \in Range(s) \/ m.kind = "event") /\ Range(s) \subseteq Range(t)
    BY <1>3, <1>4 DEF Range
  <1>8. Unique(s) => Unique(t)
    BY <1>4, <1>5 DEF Unique
  <1> QED BY <1>6, <1>7, <1>8 DEF t, q

\* What is granted depends on the answers alone, and what is gone on the frames.
LEMMA SameWire ==
    ASSUME UNCHANGED <<requests, answers, serving, session>>
    PROVE  /\ Detaching' = Detaching
           /\ \A i : Travels(i)' = Travels(i)
           /\ \A v \in Users : job'[v] = job[v] => Served(v)' = Served(v)
           /\ \A v \in Users : job'[v] = job[v] /\ answer'[v] = answer[v] => Granted(v)' = Granted(v)
           /\ \A v \in Users : inbox'[v] = inbox[v] => Gone(v)' = Gone(v)
           /\ Unique(requests)' = Unique(requests) /\ Unique(answers)' = Unique(answers)
           /\ Ids(requests)' = Ids(requests) /\ Ids(answers)' = Ids(answers) /\ Ids(serving)' = Ids(serving)
           /\ Range(requests)' = Range(requests) /\ Range(serving)' = Range(serving)
  BY DEF Detaching, Travels, Served, Granted, Gone

\* A thread that neither calls nor lets a session go.
Moves(u) ==
    /\ UNCHANGED <<reserved, subs, job, answer, requests, answers, serving, session>>
    /\ \A v \in Users : chat'[v].attached = chat[v].attached
    /\ \A v \in Users : v # u => inbox'[v] = inbox[v]
    /\ Gone(u) => Gone(u)' \/ pc'[u] = "drop"
    /\ \A t \in Threads : t # u => pc'[t] = pc[t]
    /\ \A w \in pending : w[2] # u => w \in pending'
    /\ \/ pc'[u] = "idle" /\ pc[u] = "idle"
       \/ /\ pc'[u] = "idle" /\ pc[u] = "await"
          /\ job[u].op \in Plain \/ (job[u].op = "stop" /\ ~Attached(u))
       \/ pc'[u] = "drop" /\ pc[u] = "idle" /\ Attached(u)

\* Such a step leaves who has the session, and what is on its way, as it was.
LEMMA MovesAgreed ==
    ASSUME Connection, Agreed, NEW u \in Users, Moves(u)
    PROVE  Agreed'
  <1>0. OneHas /\ Once /\ Awaited /\ Belongs /\ Behind /\ Listens
    BY DEF Agreed
  <1>1. /\ UNCHANGED <<reserved, subs, job, answer, requests, answers, serving, session>>
        /\ \A v \in Users : v # u => inbox'[v] = inbox[v] /\ pc'[v] = pc[v]
        /\ \A v \in Users : Attached(v)' = Attached(v) /\ chat'[v].attached = chat[v].attached
        /\ pc'[u] \in {"idle", "drop"} /\ pc[u] \in {"idle", "await"}
        /\ pc[u] = "await" => job[u].op # "open"
        /\ Users \subseteq Threads
    BY DEF Moves, Attached, Threads, Plain
  <1>2. /\ Detaching' = Detaching
        /\ \A i : Travels(i)' = Travels(i)
        /\ \A v \in Users : Served(v)' = Served(v) /\ Granted(v)' = Granted(v)
        /\ Unique(requests)' = Unique(requests) /\ Unique(answers)' = Unique(answers)
        /\ Ids(requests)' = Ids(requests) /\ Ids(answers)' = Ids(answers) /\ Ids(serving)' = Ids(serving)
        /\ Range(requests)' = Range(requests) /\ Range(serving)' = Range(serving)
    BY <1>1, SameWire
  <1>3. \A v \in Users : Opens(v)' = Opens(v) /\ Holds(v)' = Holds(v)
    <2>1. \A v \in Users : Opens(v)' = Opens(v)
      BY <1>1 DEF Opens
    <2> QED BY <1>1, <2>1 DEF Holds
  <1>4. \A v \in Users : Attached(v) /\ ~Parts(v)' => ~Parts(v)
    BY <1>1 DEF Moves, Parts, Plain
  <1>5. \A v \in Users : Released(v)' => Released(v)
    BY <1>1, <1>2 DEF Released
  <1>6. \A a : \A v \in Users : Kept(v, a) /\ ~Parts(v)' => Kept(v, a)'
    <2>1. \A v \in Users : Gone(v) => Gone(v)' \/ Parts(v)'
      BY <1>1, SameWire DEF Moves, Parts
    <2> QED BY <1>1, <2>1 DEF Kept
  <1>7. OneHas'
    BY <1>0, <1>1, <1>3 DEF OneHas, Moves
  <1>8. Once'
    BY <1>0, <1>1, <1>2 DEF Once
  <1>9. Awaited'
    <2>1. \A v \in Users : v # u => (<<job[v].id, v>> \in pending => <<job[v].id, v>> \in pending')
      BY DEF Moves
    <2> QED BY <1>0, <1>1, <1>2, <2>1 DEF Awaited
  <1>10. Belongs'
    BY <1>0, <1>1, <1>2, <1>3 DEF Belongs, Opens
  <1>11. Behind'
    <2>1. \A v \in Users : Attached(v) /\ Parts(v) => Parts(v)'
      BY <1>4
    <2> QED BY <1>0, <1>1, <1>2, <1>3, <2>1 DEF Behind
  <1>12. Listens'
    <2>1. Attends' = Attends
      BY <1>1, <1>2, <1>3 DEF Attends
    <2>2. ASSUME NEW v \in Users, Opens(v)', NEW m \in Granted(v)' PROVE Kept(v, m.attach)'
      <3>1. ~Parts(v)' /\ Kept(v, m.attach)
        BY <1>0, <1>1, <1>2, <1>3, <2>2 DEF Listens, Opens, Parts
      <3> QED BY <1>6, <3>1
    <2>3. ASSUME NEW v \in Users, Attached(v)', ~Parts(v)' PROVE Kept(v, chat[v].attached)'
      BY <1>0, <1>1, <1>4, <1>6, <2>3 DEF Listens
    <2> QED BY <1>0, <1>1, <1>5, <2>1, <2>2, <2>3 DEF Listens
  <1> QED BY <1>7, <1>8, <1>9, <1>10, <1>11, <1>12 DEF Agreed

\* A thread lets the session go, or could not open it.
Ends(u) ==
    /\ UNCHANGED <<job, answer, pending, requests, answers, serving, session>>
    /\ reserved' = FALSE /\ subs' = subs \ {u}
    /\ Holds(u) /\ chat'[u].attached = 0
    /\ \A v \in Users : v # u => chat'[v].attached = chat[v].attached
    /\ pc'[u] = "idle" /\ \A t \in Threads : t # u => pc'[t] = pc[t]

\* Once the daemon has no listener, or is about to drop it, nobody is left.
LEMMA EndsAgreed ==
    ASSUME Agreed, NEW u \in Users, Ends(u), session.listener = 0 \/ Detaching,
           \A r \in Range(requests) \cup Range(serving) : r.op # "open"
    PROVE  Agreed'
  <1>0. OneHas /\ Once /\ Awaited /\ Belongs /\ Behind /\ Listens
    BY DEF Agreed
  <1>1. /\ UNCHANGED <<job, answer, pending, requests, answers, serving, session>> /\ pc'[u] = "idle"
        /\ \A v \in Users : v # u => pc'[v] = pc[v]
        /\ Users \subseteq Threads
    BY DEF Ends, Threads
  <1>2. /\ Detaching' = Detaching
        /\ \A i : Travels(i)' = Travels(i)
        /\ Unique(requests)' = Unique(requests) /\ Unique(answers)' = Unique(answers)
        /\ Ids(requests)' = Ids(requests) /\ Ids(answers)' = Ids(answers) /\ Ids(serving)' = Ids(serving)
        /\ Range(requests)' = Range(requests) /\ Range(serving)' = Range(serving)
    BY <1>1, SameWire
  <1>3. \A v \in Users : ~Attached(v)' /\ ~Opens(v)' /\ ~Holds(v)'
    <2>1. \A v \in Users : v # u => ~Attached(v) /\ ~Opens(v)
      BY <1>0 DEF Ends, OneHas, Holds
    <2> QED BY <1>1, <2>1 DEF Ends, Attached, Opens, Holds
  <1>4. OneHas'
    <2>1. \A t \in Threads : pc'[t] \notin {"cut", "clear", "failed"}
      BY <1>0 DEF Ends, OneHas
    <2>2. \A v \in Users : /\ pc'[v] \notin {"drop", "unmark"}
                           /\ ~(pc'[v] \in {"write", "await"} /\ job'[v].op = "detach")
      <3>1. \A v \in Users : v # u => ~Attached(v)
        BY <1>0 DEF Ends, OneHas, Holds
      <3> QED BY <1>0, <1>1, <3>1 DEF OneHas
    <2> QED BY <1>3, <2>1, <2>2 DEF OneHas
  <1>5. Once' /\ Awaited'
    BY <1>0, <1>1, <1>2 DEF Once, Awaited
  <1>6. Belongs'
    BY <1>0, <1>2 DEF Belongs
  <1>7. Behind'
    BY <1>0, <1>1, <1>3 DEF Behind
  <1>8. Listens'
    BY <1>0, <1>1, <1>2, <1>3 DEF Listens, Attends
  <1> QED BY <1>4, <1>5, <1>6, <1>7, <1>8 DEF Agreed

\* What travels is known by its id; who has an answer waits for no other.
LEMMA TravelsSo ==
    ASSUME Agreed, NEW u \in Users, pc[u] = "await", answer[u] # << >>
    PROVE  /\ ~Travels(job[u].id)
           /\ \A r \in Range(requests) \cup Range(serving) : r # job[u]
           /\ serving \in Seq(Requests) => ~Served(u)
           /\ \A m \in Range(answers) : m.id # job[u].id
           /\ Granted(u) \subseteq {Head(answer[u])}
  <1>1. ~Travels(job[u].id)
    BY DEF Agreed, Awaited
  <1>2. \A r \in Range(requests) \cup Range(serving) : r # job[u]
    BY <1>1 DEF Travels, Ids, Range
  <1>3. serving \in Seq(Requests) => ~Served(u)
    <2> SUFFICES ASSUME serving \in Seq(Requests), serving # << >> PROVE Head(serving).id # job[u].id
      BY DEF Served
    <2>1. Ids(serving) = Ids(Tail(serving)) \cup {Head(serving).id}
      BY IdsTail
    <2> QED BY <1>1, <2>1 DEF Travels
  <1>4. \A m \in Range(answers) : m.id # job[u].id
    BY <1>1 DEF Travels, Ids, Range
  <1> QED BY <1>1, <1>2, <1>3, <1>4 DEF Granted

\* Who has the session, or is opening it, is the only one; then every open on
\* its way is that thread's.
LEMMA OneHolds ==
    ASSUME Agreed, NEW u \in Users, Holds(u)
    PROVE  /\ \A v \in Users : v # u => ~Attached(v) /\ ~Opens(v)
           /\ \A r \in Range(requests) \cup Range(serving) :
                 r.op = "open" => Opens(u) /\ pc[u] = "await" /\ job[u] = r
           /\ Attached(u) => ~Opens(u) /\ \A r \in Range(requests) \cup Range(serving) : r.op # "open"
  <1>1. \A v \in Users : v # u => ~Attached(v) /\ ~Opens(v)
    BY DEF Agreed, OneHas, Holds
  <1>2. \A r \in Range(requests) \cup Range(serving) :
           r.op = "open" => Opens(u) /\ pc[u] = "await" /\ job[u] = r
    BY <1>1 DEF Agreed, Belongs
  <1>3. Attached(u) => ~Opens(u)
    BY DEF Agreed, OneHas
  <1> QED BY <1>1, <1>2, <1>3

\* start and its kind, send, change, refresh, detach, stop and ask call.
LEMMA CalledAgreed ==
    ASSUME Connection, Agreed, NEW u \in Users, Called(u), pc[u] = "idle",
           job'[u].op = "detach" => Attached(u),
           job'[u].op = "open" => ~reserved /\ reserved',
           job'[u].op # "open" => reserved' = reserved
    PROVE  Agreed'
  <1>0. OneHas /\ Once /\ Awaited /\ Belongs /\ Behind /\ Listens
    BY DEF Agreed
  <1>1. /\ nextId \in Nat \ {0} /\ job'[u].id = nextId /\ answer'[u] = << >>
        /\ \A v \in Users : v # u => /\ job'[v] = job[v] /\ answer'[v] = answer[v] /\ pc'[v] = pc[v]
                                     /\ inbox'[v] = inbox[v] /\ (v \in subs' <=> v \in subs)
        /\ pc'[u] = "write" /\ pending' = pending \cup {<<nextId, u>>}
        /\ \/ job'[u].op # "open" /\ inbox' = inbox /\ subs' = subs
           \/ job'[u].op = "open" /\ u \in subs' /\ chat[u].attached = 0
        /\ UNCHANGED <<chat, requests, answers, serving, session>>
    BY CalledFresh
  <1>2. /\ Detaching' = Detaching
        /\ \A i : Travels(i)' = Travels(i)
        /\ \A v \in Users : v # u => Served(v)' = Served(v) /\ Granted(v)' = Granted(v)
        /\ Unique(requests)' = Unique(requests) /\ Unique(answers)' = Unique(answers)
        /\ Ids(requests)' = Ids(requests) /\ Ids(answers)' = Ids(answers) /\ Ids(serving)' = Ids(serving)
        /\ Range(requests)' = Range(requests) /\ Range(serving)' = Range(serving)
    BY <1>1, SameWire
  <1>3. ~Travels(nextId)
    <2>1. /\ requests \in Seq(Requests) /\ serving \in Seq(Requests) /\ answers \in Seq(Wire) /\ Known
      BY DEF Connection, ConnTypes, WireTypes
    <2>2. \A n \in Nat : n < nextId => n # nextId
      BY <1>1
    <2>3. (\A r \in Requests : r.id \in Nat) /\ \A m \in Wire : m.id = -1 \/ (m.kind = "reply" /\ m.id \in Nat)
      BY DEF Requests, Wire, Frames, Replies
    <2>4. nextId \notin Ids(requests)
      BY <2>1, <2>2, <2>3 DEF Ids, Known
    <2>5. nextId \notin Ids(serving)
      BY <2>1, <2>2, <2>3 DEF Ids, Known
    <2>6. nextId # -1
      BY <1>1
    <2>7. nextId \notin Ids(answers)
      BY <2>1, <2>2, <2>3, <2>6 DEF Ids, Known
    <2> QED BY <2>4, <2>5, <2>7 DEF Travels
  <1>4. ~Served(u)' /\ Granted(u)' = {}
    <2>1. serving \in Seq(Requests)
      BY DEF Connection, ConnTypes, WireTypes
    <2>2. ASSUME serving # << >>, Head(serving).id = nextId PROVE FALSE
      <3>1. Ids(serving) = Ids(Tail(serving)) \cup {Head(serving).id}
        BY <2>1, <2>2, IdsTail
      <3> QED BY <1>3, <2>2, <3>1 DEF Travels
    <2>3. \A m \in Range(answers) : m.id # nextId
      BY <1>3 DEF Travels, Ids, Range
    <2> QED BY <1>1, <2>2, <2>3 DEF Served, Granted
  <1>5. /\ \A v \in Users : Attached(v)' = Attached(v) /\ chat'[v].attached = chat[v].attached
        /\ \A v \in Users : v # u => Opens(v)' = Opens(v) /\ Parts(v)' = Parts(v)
        /\ ~Opens(u) /\ ~Parts(u) /\ (Opens(u)' <=> job'[u].op = "open")
    BY <1>1 DEF Attached, Opens, Parts
  <1>6. OneHas'
    <2>1. \A t \in Threads : pc'[t] \notin {"cut", "clear", "failed"}
      <3>1. pc \in [Threads -> Places] /\ u \in Threads
        BY DEF Connection, ConnTypes, CallTypes, Threads
      <3>2. pc' = [pc EXCEPT ![u] = "write"]
        BY DEF Called, Call, Goto
      <3> QED BY <1>0, <3>1, <3>2 DEF OneHas
    <2>2. \A v \in Users : pc'[v] \in {"drop", "unmark"} => Attached(v)'
      BY <1>0, <1>1, <1>5 DEF OneHas
    <2>3. \A v \in Users : pc'[v] \in {"write", "await"} /\ job'[v].op = "detach" => Attached(v)'
      BY <1>0, <1>1, <1>5 DEF OneHas
    <2>4. CASE job'[u].op # "open"
      <3>1. \A v \in Users : (Opens(v)' <=> Opens(v)) /\ (Holds(v)' <=> Holds(v))
        BY <1>5, <2>4 DEF Holds
      <3>2. subs' = subs /\ reserved' = reserved
        BY <1>1, <2>4
      <3> QED BY <1>0, <1>5, <2>1, <2>2, <2>3, <3>1, <3>2 DEF OneHas
    <2>5. CASE job'[u].op = "open"
      <3>1. \A v \in Users : ~Holds(v)
        BY <1>0, <2>5 DEF OneHas
      <3>2. \A v \in Users : v # u => ~Holds(v)' /\ ~Opens(v)' /\ ~Attached(v)'
        BY <1>5, <3>1 DEF Holds
      <3>3. ~Attached(u)' /\ u \in subs' /\ reserved'
        BY <1>1, <1>5, <2>5 DEF Attached
      <3> QED BY <2>1, <2>2, <2>3, <3>2, <3>3 DEF OneHas
    <2> QED BY <2>4, <2>5
  <1>7. Once'
    BY <1>0, <1>1, <1>2, <1>3 DEF Once
  <1>8. Awaited'
    <2>1. nextId > 0
      BY <1>1
    <2> QED BY <1>0, <1>1, <1>2, <2>1 DEF Awaited
  <1>9. Belongs'
    <2>1. \A v \in Users : Opens(v) => v # u
      BY <1>5
    <2> QED BY <1>0, <1>1, <1>2, <1>5, <2>1 DEF Belongs
  <1>10. Behind'
    <2>1. ASSUME Detaching, NEW v \in Users
          PROVE  (Attached(v)' => Parts(v)') /\ (Opens(v)' => ~Served(v)' /\ Granted(v)' = {})
      <3>1. CASE v = u
        BY <1>0, <1>4, <1>5, <2>1, <3>1 DEF Behind
      <3>2. CASE v # u
        BY <1>0, <1>2, <1>5, <2>1, <3>2 DEF Behind
      <3> QED BY <3>1, <3>2
    <2> QED BY <1>0, <1>1, <1>2, <2>1 DEF Behind
  <1>11. Listens'
    <2>1. Attends => Attends'
      <3>1. \A v \in Users : Opens(v) => v # u /\ Opens(v)' /\ Served(v)' = Served(v) /\ Granted(v)' = Granted(v)
        BY <1>2, <1>5
      <3> QED BY <1>1, <1>2, <1>5, <3>1 DEF Attends
    <2>2. ASSUME NEW v \in Users, Opens(v)', NEW m \in Granted(v)' PROVE Kept(v, m.attach)'
      <3>1. v # u
        BY <1>4, <2>2
      <3>2. Kept(v, m.attach)
        BY <1>0, <1>2, <1>5, <2>2, <3>1 DEF Listens
      <3> QED BY <1>1, <3>1, <3>2 DEF Kept, Gone
    <2>3. ASSUME NEW v \in Users, Attached(v)', ~Parts(v)' PROVE Kept(v, chat[v].attached)'
      <3>1. Kept(v, chat[v].attached)
        BY <1>0, <1>5, <2>3 DEF Listens
      <3>2. inbox'[v] = inbox[v]
        BY <1>1, <1>5, <2>3 DEF Attached
      <3> QED BY <1>1, <3>1, <3>2 DEF Kept, Gone
    <2>4. ASSUME NEW v \in Users, Released(v)' PROVE v # u /\ Released(v)
      <3>1. v # u
        BY <1>1, <2>4 DEF Released
      <3> QED BY <1>1, <1>2, <2>4, <3>1 DEF Released
    <2> QED BY <1>0, <1>1, <1>5, <2>1, <2>2, <2>3, <2>4 DEF Listens
  <1> QED BY <1>6, <1>7, <1>8, <1>9, <1>10, <1>11 DEF Agreed

\* A request is written: a thread's own, or the detach of a session that goes.
Posts(u, r) ==
    /\ requests' = Append(requests, r) /\ r \in Requests
    /\ UNCHANGED <<reserved, subs, job, answer, inbox, pending, chat, answers, serving, session>>
    /\ \A t \in Threads : t # u => pc'[t] = pc[t]
    /\ \/ pc[u] = "write" /\ pc'[u] = "await" /\ r = job[u]
       \/ pc[u] = "drop" /\ pc'[u] = "unmark" /\ r.op = "detach" /\ r.id = 0

\* A request that is written comes behind all others; a detach behind no open.
LEMMA PostsAgreed ==
    ASSUME Connection, Agreed, NEW u \in Users, NEW r, Posts(u, r)
    PROVE  Agreed'
  <1>0. OneHas /\ Once /\ Awaited /\ Belongs /\ Behind /\ Listens /\ Known /\ Registered
    BY DEF Agreed, Connection
  <1>1. /\ UNCHANGED <<reserved, subs, job, answer, inbox, pending, chat, answers, serving, session>>
        /\ \A v \in Users : v # u => pc'[v] = pc[v]
        /\ requests \in Seq(Requests) /\ r \in Requests /\ requests' = Append(requests, r)
        /\ \/ pc[u] = "write" /\ pc'[u] = "await" /\ r = job[u]
           \/ pc[u] = "drop" /\ pc'[u] = "unmark" /\ r.op = "detach" /\ r.id = 0
        /\ Users \subseteq Threads
    BY DEF Posts, Threads, Connection, ConnTypes, WireTypes
  <1>2. /\ Ids(requests') = Ids(requests) \cup {r.id}
        /\ Range(requests') = Range(requests) \cup {r}
        /\ Unique(requests) /\ (r.id > 0 => r.id \notin Ids(requests)) => Unique(requests')
        /\ \A i \in DOMAIN requests' : \/ i \in DOMAIN requests /\ requests'[i] = requests[i]
                                       \/ /\ requests'[i] = r /\ i \notin DOMAIN requests
                                          /\ \A j \in DOMAIN requests : j < i
    BY <1>1, IdsAppend
  <1>3. r.id > 0 => r = job[u] /\ pc[u] = "write" /\ ~Travels(r.id)
    <2>1. ~(0 > 0)
      OBVIOUS
    <2> QED BY <1>0, <1>1, <2>1 DEF Once
  <1>4. /\ \A v \in Users : /\ Attached(v)' = Attached(v) /\ Opens(v)' = Opens(v) /\ Holds(v)' = Holds(v)
                            /\ Served(v)' = Served(v) /\ Granted(v)' = Granted(v) /\ Gone(v)' = Gone(v)
                            /\ Parts(v)' = Parts(v)
    <2>1. \A v \in Users : /\ Attached(v)' = Attached(v) /\ Opens(v)' = Opens(v) /\ Parts(v)' = Parts(v)
      BY <1>1 DEF Attached, Opens, Parts
    <2>2. \A v \in Users : Served(v)' = Served(v) /\ Granted(v)' = Granted(v) /\ Gone(v)' = Gone(v)
      BY <1>1 DEF Served, Granted, Gone
    <2> QED BY <2>1, <2>2 DEF Holds
  <1>5. r.op = "detach" => Attached(u) /\ Parts(u)
    BY <1>0, <1>1 DEF OneHas, Parts
  <1>6. Detaching' <=> Detaching \/ r.op = "detach"
    BY <1>2 DEF Detaching
  <1>7. OneHas'
    <2>1. \A t \in Threads : pc'[t] \notin {"cut", "clear", "failed"}
      <3>1. u \in Threads /\ pc'[u] \in {"await", "unmark"}
        BY <1>1
      <3> QED BY <1>0, <3>1 DEF OneHas, Posts
    <2>2. \A v \in Users : pc'[v] \in {"drop", "unmark"} => Attached(v)'
      BY <1>0, <1>1, <1>4 DEF OneHas
    <2>3. \A v \in Users : pc'[v] \in {"write", "await"} /\ job'[v].op = "detach" => Attached(v)'
      BY <1>0, <1>1, <1>4 DEF OneHas
    <2> QED BY <1>0, <1>1, <1>4, <2>1, <2>2, <2>3 DEF OneHas
  <1>8. Once'
    <2>1. Unique(requests)' /\ Unique(answers)'
      BY <1>0, <1>1, <1>2, <1>3 DEF Once, Travels
    <2>2. \A i \in Ids(requests') : i > 0 => i \notin Ids(serving) /\ i \notin Ids(answers)
      BY <1>0, <1>2, <1>3 DEF Once, Travels
    <2>3. ASSUME NEW v \in Users, pc'[v] = "write" PROVE ~Travels(job[v].id)'
      <3>1. v # u /\ pc[v] = "write" /\ ~Travels(job[v].id) /\ job[v].id > 0
        BY <1>0, <1>1, <2>3 DEF Once, Awaited
      <3>2. job[v].id # r.id
        <4>1. CASE r = job[u]
          <5>1. job[v].id # 0
            <6>1. ~(0 > 0)
              OBVIOUS
            <6> QED BY <3>1, <6>1
          <5> QED BY <1>0, <3>1, <4>1, <5>1 DEF Known
        <4>2. CASE r.id = 0
          BY <3>1, <4>2
        <4> QED BY <1>1, <4>1, <4>2
      <3> QED BY <1>1, <1>2, <3>1, <3>2 DEF Travels
    <2> QED BY <1>0, <1>1, <2>1, <2>2, <2>3 DEF Once
  <1>9. Awaited'
    <2>1. ASSUME NEW v \in Users, pc'[v] = "await", Travels(job[v].id)' PROVE answer'[v] = << >>
      <3>1. CASE v = u
        <4>1. <<job[u].id, u>> \in pending
          BY <1>0, <1>1, <2>1, <3>1 DEF Awaited
        <4> QED BY <1>0, <1>1, <3>1, <4>1 DEF Registered
      <3>2. CASE v # u
        <4>1. pc[v] = "await" /\ job[v].id > 0 /\ ~(0 > 0)
          BY <1>0, <1>1, <2>1, <3>2 DEF Awaited
        <4>2. job[v].id # r.id
          BY <1>0, <1>1, <3>2, <4>1 DEF Known
        <4>3. Travels(job[v].id)
          BY <1>1, <1>2, <2>1, <4>2 DEF Travels
        <4> QED BY <1>0, <1>1, <4>1, <4>3 DEF Awaited
      <3> QED BY <3>1, <3>2
    <2>2. \A v \in Users : pc'[v] \in {"write", "await"} => pc[v] \in {"write", "await"}
      BY <1>1
    <2>3. \A v \in Users : pc'[v] = "write" \/ (pc'[v] = "await" /\ answer[v] = << >>)
                           => pc[v] = "write" \/ (pc[v] = "await" /\ answer[v] = << >>)
      BY <1>1
    <2> QED BY <1>0, <1>1, <2>1, <2>2, <2>3 DEF Awaited
  <1>10. Belongs'
    <2>1. ASSUME NEW q \in Range(requests) \cup Range(serving), q.op = "open"
          PROVE  \E v \in Users : Opens(v)' /\ pc'[v] = "await" /\ job'[v] = q
      <3>1. PICK v \in Users : Opens(v) /\ pc[v] = "await" /\ job[v] = q
        BY <1>0, <2>1 DEF Belongs
      <3>2. v # u
        BY <1>1, <3>1
      <3> QED BY <1>1, <1>4, <3>1, <3>2
    <2>2. r.op = "open" => Opens(u)' /\ pc'[u] = "await" /\ job'[u] = r
      BY <1>1 DEF Opens
    <2> QED BY <1>0, <1>1, <1>2, <2>1, <2>2 DEF Belongs
  <1>11. Behind'
    <2>1. ASSUME r.op = "detach"
          PROVE  /\ \A j \in DOMAIN requests : requests[j].op # "open"
                 /\ \A v \in Users : (Attached(v) => Parts(v)) /\ ~Opens(v)
      <3>1. Attached(u) /\ Parts(u) /\ Holds(u)
        BY <1>5, <2>1 DEF Holds
      <3>2. \A q \in Range(requests) : q.op # "open"
        BY <3>1, OneHolds
      <3>3. \A v \in Users : (Attached(v) => Parts(v)) /\ ~Opens(v)
        BY <3>1, OneHolds
      <3> QED BY <3>2, <3>3 DEF Range
    <2>2. \A i, j \in DOMAIN requests' : requests'[i].op = "detach" /\ requests'[j].op = "open" => i < j
      BY <1>0, <1>2, <2>1 DEF Behind
    <2>3. Detaching' => \A v \in Users : /\ Attached(v) => Parts(v)
                                         /\ Opens(v) => ~Served(v) /\ Granted(v) = {}
      BY <1>0, <1>6, <2>1 DEF Behind
    <2> QED BY <1>4, <2>2, <2>3 DEF Behind
  <1>12. Listens'
    <2>1. Attends => Attends'
      BY <1>1, <1>4, <1>6 DEF Attends
    <2>2. \A a : \A v \in Users : Kept(v, a)' = Kept(v, a)
      BY <1>1, <1>4 DEF Kept
    <2>3. ASSUME NEW v \in Users, Released(v)' PROVE Released(v)
      <3>1. CASE v = u
        <4>1. CASE pc'[u] = "unmark"
          BY <1>1, <1>6, <2>3, <3>1, <4>1 DEF Released
        <4>2. CASE pc'[u] = "await"
          <5>1. pc[u] = "write" /\ Granted(u) # {} /\ ~Travels(job[u].id) /\ <<job[u].id, u>> \in pending
            BY <1>0, <1>1, <1>4, <2>3, <3>1, <4>2 DEF Released, Once, Awaited
          <5>2. answer[u] = << >>
            BY <1>0, <5>1 DEF Registered
          <5> QED BY <5>1, <5>2 DEF Granted, Travels, Ids, Range
        <4> QED BY <1>1, <4>1, <4>2
      <3>2. CASE v # u
        BY <1>1, <1>4, <1>6, <2>3, <3>2 DEF Released
      <3> QED BY <3>1, <3>2
    <2> QED BY <1>0, <1>1, <1>4, <2>1, <2>2, <2>3 DEF Listens
  <1> QED BY <1>7, <1>8, <1>9, <1>10, <1>11, <1>12 DEF Agreed

\* An answered open is the session's, and its attachment is what is listened to
\* or will be known to be gone.
LEMMA StartedAgreed ==
    ASSUME Connection, Agreed, NEW u \in Users, Started(u)
    PROVE  Agreed'
  <1> DEFINE m == Head(answer[u])
  <1>0. OneHas /\ Once /\ Awaited /\ Belongs /\ Behind /\ Listens
    BY DEF Agreed
  <1>1. /\ Opens(u) /\ pc[u] = "await" /\ answer[u] # << >> /\ m.ok
        /\ UNCHANGED <<innerVars, answer, inbox, job, wireVars, sessionVars>>
        /\ chat'[u].attached = m.attach /\ \A v \in Users : v # u => chat'[v] = chat[v]
        /\ pc' = [pc EXCEPT ![u] = "idle"] /\ pc \in [Threads -> Places] /\ Users \subseteq Threads /\ u \in Threads
    BY StartedBase DEF Started, Goto, Connection, ConnTypes, CallTypes, Threads
  <1>2. /\ Detaching' = Detaching
        /\ \A i : Travels(i)' = Travels(i)
        /\ \A v \in Users : Served(v)' = Served(v) /\ Granted(v)' = Granted(v) /\ Gone(v)' = Gone(v)
        /\ Unique(requests)' = Unique(requests) /\ Unique(answers)' = Unique(answers)
        /\ Ids(requests)' = Ids(requests) /\ Ids(answers)' = Ids(answers) /\ Ids(serving)' = Ids(serving)
        /\ Range(requests)' = Range(requests) /\ Range(serving)' = Range(serving)
    BY <1>1, SameWire
  <1>3. /\ pc'[u] = "idle" /\ \A t \in Threads : t # u => pc'[t] = pc[t]
        /\ Holds(u) /\ \A v \in Users : v # u => ~Attached(v) /\ ~Opens(v)
        /\ ~Attached(u) /\ reserved /\ u \in subs
    BY <1>0, <1>1, OneHolds DEF Holds, OneHas
  <1>4. m \in Granted(u) /\ Granted(u) \subseteq {m} /\ ~Detaching /\ Kept(u, m.attach)
    <2>1. m \in Granted(u)
      BY <1>1 DEF Granted
    <2>2. Granted(u) \subseteq {m}
      BY <1>1, TravelsSo
    <2> QED BY <1>0, <1>1, <2>1, <2>2 DEF Behind, Listens
  <1>5. /\ ~Served(u) /\ serving \in Seq(Requests)
        /\ \A r \in Range(requests) \cup Range(serving) : r.op # "open"
    <2>1. serving \in Seq(Requests)
      BY DEF Connection, ConnTypes, WireTypes
    <2>2. \A r \in Range(requests) \cup Range(serving) : r.op = "open" => job[u] = r
      BY <1>3, OneHolds
    <2> QED BY <1>1, <2>1, <2>2, TravelsSo
  <1> HIDE DEF m
  <1>6. /\ Attached(u)' /\ \A v \in Users : v # u => ~Attached(v)' /\ ~Opens(v)' /\ ~Holds(v)'
        /\ ~Opens(u)' /\ ~Parts(u)'
    BY <1>1, <1>3, <1>4 DEF Attached, Opens, Holds, Kept, Parts
  <1>7. OneHas'
    <2>1. \A t \in Threads : pc'[t] \notin {"cut", "clear", "failed"}
      BY <1>0, <1>3 DEF OneHas
    <2>2. \A v \in Users : pc'[v] \in {"drop", "unmark"} => Attached(v)'
      BY <1>0, <1>1, <1>3, <1>6 DEF OneHas
    <2>3. \A v \in Users : pc'[v] \in {"write", "await"} /\ job'[v].op = "detach" => Attached(v)'
      BY <1>0, <1>1, <1>3, <1>6 DEF OneHas
    <2> QED BY <1>1, <1>3, <1>6, <2>1, <2>2, <2>3 DEF OneHas
  <1>8. \A v \in Users : pc'[v] \in {"write", "await"} => pc'[v] = pc[v]
    BY <1>1, <1>3
  <1>9. Once' /\ Awaited'
    BY <1>0, <1>1, <1>2, <1>8 DEF Once, Awaited
  <1>10. Belongs' /\ Behind'
    BY <1>0, <1>1, <1>2, <1>4, <1>5 DEF Belongs, Behind
  <1>11. Listens'
    <2>1. session.listener # 0 => chat'[u].attached = session.listener
      <3> SUFFICES ASSUME session.listener # 0 PROVE m.attach = session.listener
        BY <1>1
      <3>1. Attends
        BY <1>0 DEF Listens
      <3>2. \A v \in Users : chat[v].attached # session.listener
        BY <1>3 DEF Attached
      <3>3. PICK v \in Users : Opens(v) /\ (Served(v) \/ \E k \in Granted(v) : k.attach = session.listener)
        BY <1>4, <3>1, <3>2 DEF Attends
      <3>4. v = u
        BY <1>3, <3>3
      <3> QED BY <1>4, <1>5, <3>3, <3>4
    <2>2. Kept(u, chat[u].attached)'
      BY <1>1, <1>2, <1>4 DEF Kept
    <2>3. ~Released(u)'
      BY <1>3 DEF Released
    <2> QED BY <1>0, <1>1, <1>2, <1>6, <2>1, <2>2, <2>3 DEF Listens, Attends
  <1> QED BY <1>7, <1>9, <1>10, <1>11 DEF Agreed

\* Every call is one of these: a detach is that of a Session, and an open has
\* reserved the session.
LEMMA CallsAgreed ==
    ASSUME Connection, Agreed, NEW u \in Users,
           Start(u) \/ Send(u) \/ Change(u) \/ Refresh(u) \/ Ask(u) \/ Detach(u) \/ Stop(u)
    PROVE  Agreed'
  <1>0. job \in [Users -> Requests]
    BY DEF Connection, ConnTypes, CallTypes
  <1>1. Called(u)
    BY CallsCalled
  <1>2. CASE Start(u)
    <2>1. pc[u] = "idle" /\ reserved' = TRUE /\ ~reserved
      BY <1>2 DEF Start, Wants, AtOnce
    <2>2. job'[u].op = "open"
      BY <1>0, <1>2 DEF Start, Call
    <2> QED BY <1>1, <2>1, <2>2, CalledAgreed
  <1>3. CASE Detach(u)
    <2>1. pc[u] = "idle" /\ reserved' = reserved /\ Attached(u)
      BY <1>3 DEF Detach, Wants, AtOnce
    <2>2. job'[u].op = "detach"
      BY <1>0, <1>3 DEF Detach, Call
    <2> QED BY <1>1, <2>1, <2>2, CalledAgreed
  <1>4. CASE Send(u) \/ Change(u) \/ Refresh(u) \/ Ask(u) \/ Stop(u)
    <2>1. pc[u] = "idle" /\ reserved' = reserved
      BY <1>4 DEF Send, Change, Refresh, Ask, Stop, Wants
    <2>2. job'[u].op \in {"send", "set", "status", "ask", "stop"}
      BY <1>0, <1>4 DEF Send, Change, Refresh, Ask, Stop, Call
    <2> QED BY <1>1, <2>1, <2>2, CalledAgreed
  <1> QED BY <1>2, <1>3, <1>4

\* What a thread does whose session stays.
LEMMA UserMoves ==
    ASSUME Connection, Agreed, NEW u \in Users,
           \/ Return(u) \/ Receive(u) \/ ReceiveGone(u) \/ Told(u) \/ Abandon(u)
           \/ LetGo(u) /\ ~Attached(u)
           \/ (Refused(u) \/ Timeout(u)) /\ CallFailed(u)
    PROVE  Moves(u)
  <1>0. /\ chat \in [Users -> [attached : Nat, seen : Int, started : BOOLEAN, finished : BOOLEAN]]
        /\ pc \in [Threads -> Places] /\ u \in Threads /\ Users \subseteq Threads
        /\ inbox \in [Users -> Seq(Frames)] /\ pending \subseteq Nat \X Users /\ Known /\ Registered
    BY DEF Connection, ConnTypes, ChatTypes, CallTypes, WireTypes, Threads
  <1>1. CASE Return(u)
    <2>1. \A v \in Users : chat'[v].attached = chat[v].attached
      BY <1>0, <1>1 DEF Return
    <2> QED BY <1>1, <2>1 DEF Return, Wants, Moves, Gone
  <1>2. CASE Receive(u)
    <2>1. \A v \in Users : chat'[v].attached = chat[v].attached
      BY <1>0, <1>2 DEF Receive
    <2>2. \A v \in Users : v # u => inbox'[v] = inbox[v]
      BY <1>0, <1>2 DEF Receive
    <2>3. /\ inbox'[u] = Tail(inbox[u]) /\ inbox[u] # << >> /\ inbox[u] \in Seq(Frames)
          /\ Head(inbox[u]).kind = "event" /\ pc[u] = "idle" /\ answers' = answers
      BY <1>0, <1>2 DEF Receive, Incoming
    <2>4. Range(inbox[u]) = Range(Tail(inbox[u])) \cup {Head(inbox[u])}
      BY <2>3, IdsTail
    <2>5. Gone(u) => Gone(u)'
      BY <2>3, <2>4 DEF Gone
    <2> QED BY <1>2, <2>1, <2>2, <2>3, <2>5 DEF Receive, Moves
  <1>3. CASE ReceiveGone(u)
    <2>1. \A v \in Users : chat'[v].attached = chat[v].attached
      BY <1>0, <1>3 DEF ReceiveGone
    <2>2. \A v \in Users : v # u => inbox'[v] = inbox[v]
      BY <1>0, <1>3 DEF ReceiveGone
    <2>3. pc[u] = "idle" /\ Attached(u) /\ pc'[u] = "drop" /\ \A t \in Threads : t # u => pc'[t] = pc[t]
      BY <1>0, <1>3 DEF ReceiveGone, Incoming, Goto
    <2> QED BY <1>3, <2>1, <2>2, <2>3 DEF ReceiveGone, Moves
  <1>4. CASE Told(u)
    <2>1. pc[u] = "await" /\ job[u].op \in Plain /\ pc'[u] = "idle" /\ \A t \in Threads : t # u => pc'[t] = pc[t]
      BY <1>0, <1>4 DEF Told, Goto
    <2> QED BY <1>4, <2>1 DEF Told, Moves, Gone
  <1>5. CASE Abandon(u)
    <2>1. \A v \in Users : chat'[v].attached = chat[v].attached
      BY <1>0, <1>5 DEF Abandon
    <2>2. pc[u] = "idle" /\ Attached(u) /\ pc'[u] = "drop" /\ \A t \in Threads : t # u => pc'[t] = pc[t]
      BY <1>0, <1>5 DEF Abandon, Goto, Wants, AtOnce
    <2> QED BY <1>5, <2>1, <2>2 DEF Abandon, Moves, Gone
  <1>6. CASE LetGo(u) /\ ~Attached(u)
    <2>1. \A v \in Users : chat'[v].attached = chat[v].attached
      BY <1>0, <1>6 DEF LetGo, Attached
    <2>2. pc[u] = "await" /\ job[u].op = "stop" /\ pc'[u] = "idle" /\ \A t \in Threads : t # u => pc'[t] = pc[t]
      BY <1>0, <1>6 DEF LetGo, Goto, Agreed, OneHas
    <2> QED BY <1>6, <2>1, <2>2 DEF LetGo, Moves, Gone
  <1>7. CASE (Refused(u) \/ Timeout(u)) /\ CallFailed(u)
    <2>1. pc[u] = "await" /\ pc'[u] = "idle" /\ \A t \in Threads : t # u => pc'[t] = pc[t]
      BY <1>0, <1>7 DEF Refused, Timeout, CallFailed, Goto
    <2>2. job[u].op \in Plain \/ (job[u].op = "stop" /\ ~Attached(u))
      BY <1>7 DEF CallFailed, Attached
    <2>3. ASSUME NEW w \in pending, w[2] # u PROVE w \in pending'
      <3>1. w[1] = job[w[2]].id /\ w[1] # 0 /\ w[2] \in Users
        BY <1>0 DEF Registered
      <3>2. w[1] # job[u].id
        BY <1>0, <2>3, <3>1 DEF Known
      <3>3. w \notin Owned({job[u].id})
        BY <3>2 DEF Owned
      <3> QED BY <1>7, <3>3 DEF Refused, Timeout
    <2>4. UNCHANGED <<reserved, subs, job, answer, inbox, chat, requests, answers, serving, session>>
      BY <1>7 DEF Refused, Timeout, CallFailed
    <2> QED BY <2>1, <2>2, <2>3, <2>4 DEF Moves, Gone
  <1> QED BY <1>1, <1>2, <1>3, <1>4, <1>5, <1>6, <1>7

\* A session is let go of when the daemon has no listener for it any more.
LEMMA UserEnds ==
    ASSUME Connection, Agreed, NEW u \in Users,
           \/ LetGo(u) /\ Attached(u)
           \/ Refused(u) /\ OpenFailed(u)
           \/ Unmark(u)
    PROVE  Agreed'
  <1>0. /\ chat \in [Users -> [attached : Nat, seen : Int, started : BOOLEAN, finished : BOOLEAN]]
        /\ pc \in [Threads -> Places] /\ u \in Threads /\ Users \subseteq Threads
        /\ serving \in Seq(Requests)
        /\ OneHas /\ Listens
    BY DEF Connection, ConnTypes, ChatTypes, CallTypes, WireTypes, Threads, Agreed
  <1>1. CASE LetGo(u) /\ Attached(u)
    <2>1. /\ chat'[u].attached = 0 /\ \A v \in Users : v # u => chat'[v].attached = chat[v].attached
          /\ pc'[u] = "idle" /\ \A t \in Threads : t # u => pc'[t] = pc[t]
          /\ pc[u] = "await" /\ job[u].op \in {"detach", "stop"} /\ answer[u] # << >> /\ Head(answer[u]).ok
      BY <1>0, <1>1 DEF LetGo, Goto
    <2>2. Holds(u) /\ Ends(u)
      BY <1>1, <2>1 DEF LetGo, Holds, Ends, Unsubscribed
    <2>3. Released(u)
      BY <2>1 DEF Released, Granted
    <2>4. session.listener = 0
      BY <1>0, <1>1, <2>3 DEF Listens
    <2>5. \A r \in Range(requests) \cup Range(serving) : r.op # "open"
      BY <1>1, <2>2, OneHolds
    <2> QED BY <2>2, <2>4, <2>5, EndsAgreed
  <1>2. CASE Refused(u) /\ OpenFailed(u)
    <2>1. /\ Opens(u) /\ ~Attached(u) /\ Holds(u) /\ pc[u] = "await" /\ answer[u] # << >> /\ ~Head(answer[u]).ok
          /\ pc'[u] = "idle" /\ \A t \in Threads : t # u => pc'[t] = pc[t]
      BY <1>0, <1>2 DEF Refused, OpenFailed, Goto, Opens, OneHas, Holds
    <2>2. Ends(u)
      BY <1>2, <2>1 DEF Refused, OpenFailed, Ends, Attached, Unsubscribed
    <2>3. /\ ~Served(u) /\ \A r \in Range(requests) \cup Range(serving) : r # job[u]
          /\ Granted(u) \subseteq {Head(answer[u])}
      BY <1>0, <2>1, TravelsSo
    <2>4. Granted(u) = {}
      <3>1. \A m \in Granted(u) : m.ok
        BY DEF Granted
      <3> QED BY <2>1, <2>3, <3>1
    <2>5. \A r \in Range(requests) \cup Range(serving) : r.op # "open"
      BY <2>1, <2>3, OneHolds
    <2>6. ASSUME session.listener # 0, ~Detaching PROVE FALSE
      <3>1. Attends
        BY <1>0, <2>6 DEF Listens
      <3>2. \A v \in Users : chat[v].attached # session.listener
        BY <2>1, <2>6, OneHolds DEF Attached
      <3>3. PICK v \in Users : Opens(v) /\ (Served(v) \/ \E k \in Granted(v) : k.attach = session.listener)
        BY <2>6, <3>1, <3>2 DEF Attends
      <3>4. v = u
        BY <2>1, <3>3, OneHolds
      <3> QED BY <2>3, <2>4, <3>3, <3>4
    <2> QED BY <2>2, <2>5, <2>6, EndsAgreed
  <1>3. CASE Unmark(u)
    <2>1. /\ chat'[u].attached = 0 /\ \A v \in Users : v # u => chat'[v].attached = chat[v].attached
          /\ pc'[u] = "idle" /\ \A t \in Threads : t # u => pc'[t] = pc[t] /\ pc[u] = "unmark" /\ Attached(u)
      BY <1>0, <1>3 DEF Unmark, Detached, Goto, OneHas
    <2>2. pc[u] = "unmark" /\ Attached(u)
      BY <1>0, <1>3 DEF Unmark, OneHas
    <2>3. Holds(u) /\ Ends(u)
      BY <1>3, <2>1, <2>2 DEF Unmark, Detached, Holds, Ends, Unsubscribed
    <2>4. session.listener = 0 \/ Detaching
      BY <1>0, <2>2 DEF Listens, Released
    <2>5. \A r \in Range(requests) \cup Range(serving) : r.op # "open"
      BY <2>2, <2>3, OneHolds
    <2> QED BY <2>3, <2>4, <2>5, EndsAgreed
  <1> QED BY <1>1, <1>2, <1>3

\* The steps of a thread, as long as they do not end the connection.
LEMMA UserAgreed ==
    ASSUME Connection, Steady, Steady', Agreed, NEW u \in Users,
           \/ Return(u) \/ Start(u) \/ Send(u) \/ Change(u) \/ Refresh(u) \/ Ask(u)
           \/ Detach(u) \/ Stop(u) \/ Abandon(u)
           \/ Receive(u) \/ ReceiveGone(u) \/ Timeout(u) \/ Thread(u)
    PROVE  Agreed'
  <1>0. alive /\ alive' /\ ~late' /\ u \in Threads /\ pc \in [Threads -> Places] /\ requests \in Seq(Requests)
        /\ job \in [Users -> Requests] /\ OneHas
    BY DEF Steady, Threads, Connection, ConnTypes, CallTypes, WireTypes, Agreed
  <1>1. CASE Start(u) \/ Send(u) \/ Change(u) \/ Refresh(u) \/ Ask(u) \/ Detach(u) \/ Stop(u)
    BY <1>1, CallsAgreed
  <1>2. CASE Return(u) \/ Receive(u) \/ ReceiveGone(u) \/ Told(u) \/ Abandon(u)
    BY <1>2, UserMoves, MovesAgreed
  <1>3. CASE Started(u)
    BY <1>3, StartedAgreed
  <1>4. CASE LetGo(u) \/ Unmark(u)
    BY <1>4, UserMoves, MovesAgreed, UserEnds
  <1>5. Fail(u) => OpenFailed(u) \/ CallFailed(u)
    BY <1>0 DEF Fail, LifecycleFailed
  <1>6. CASE Refused(u)
    <2>1. Fail(u)
      BY <1>6 DEF Refused
    <2> QED BY <1>5, <1>6, <2>1, UserMoves, MovesAgreed, UserEnds
  <1>7. CASE Timeout(u)
    <2>1. Fail(u) /\ late' = (late \/ job[u].op = "open")
      BY <1>7 DEF Timeout
    <2>2. ~OpenFailed(u)
      BY <1>0, <2>1 DEF OpenFailed
    <2> QED BY <1>5, <1>7, <2>1, <2>2, UserMoves, MovesAgreed
  <1>8. CASE Write(u)
    <2>1. Posts(u, job[u])
      <3>1. pc'[u] = "await" /\ \A t \in Threads : t # u => pc'[t] = pc[t]
        BY <1>0, <1>8 DEF Write, Goto
      <3> QED BY <1>0, <1>8, <3>1 DEF Write, Posts
    <2> QED BY <2>1, PostsAgreed
  <1>9. CASE Notify(u)
    <2> DEFINE r == [op |-> "detach", id |-> 0, since |-> 0]
    <2>1. r \in Requests /\ r.op = "detach" /\ r.id = 0
      BY DEF Requests
    <2>2. pc'[u] = "unmark" /\ \A t \in Threads : t # u => pc'[t] = pc[t]
      BY <1>0, <1>9 DEF Notify, Goto
    <2>3. Posts(u, r)
      BY <1>9, <2>1, <2>2 DEF Notify, Posts
    <2> HIDE DEF r
    <2> QED BY <2>3, PostsAgreed
  <1>10. ~(WriteDead(u) \/ WriteBroken(u) \/ WriteFailed(u) \/ NotifyBroken(u) \/ NotifyDead(u))
    BY <1>0 DEF WriteDead, WriteBroken, WriteFailed, NotifyBroken, NotifyDead, OneHas
  <1> QED BY <1>1, <1>2, <1>3, <1>4, <1>6, <1>7, <1>8, <1>9, <1>10 DEF Thread

\* dispatch_frame takes an answer to who waits for it, and a farewell to all
\* who listen.
LEMMA ReadAgreed ==
    ASSUME Connection, Agreed, Read
    PROVE  Agreed'
  <1> DEFINE m == Head(answers)
  <1>0. OneHas /\ Once /\ Awaited /\ Belongs /\ Behind /\ Listens /\ Known /\ Registered
    BY DEF Agreed, Connection
  <1>1. /\ answers # << >> /\ answers' = Tail(answers) /\ m \in Wire /\ answers \in Seq(Wire)
        /\ \A v \in Users :
              /\ inbox'[v] = IF m.kind = "reply" \/ v \notin subs THEN inbox[v] ELSE Append(inbox[v], m)
              /\ \/ answer'[v] = answer[v]
                 \/ m.kind = "reply" /\ m.id = job[v].id /\ answer'[v] = <<m>>
        /\ m.kind # "reply" => m \in Frames
        /\ m.kind = "reply" => m \in Replies
        /\ inbox \in [Users -> Seq(Frames)]
        /\ UNCHANGED <<alive, nextId, subs, reserved, shut, pc, plan, job, then, chatVars, requests, closed, sessionVars>>
    BY ReadGoes DEF Connection, ConnTypes, WireTypes
  <1>2. /\ m.kind # "reply" => pending' = pending
        /\ m.kind = "reply" =>
              /\ pending' = pending \ Owned({m.id})
              /\ answer' = [u \in Users |-> IF \E w \in Owned({m.id}) : w[2] = u THEN Append(answer[u], m)
                                            ELSE answer[u]]
    BY DEF Read, Settled
  <1>3. /\ Ids(answers) = Ids(answers') \cup {m.id}
        /\ Range(answers) = Range(answers') \cup {m}
        /\ Unique(answers) => Unique(answers') /\ (m.id > 0 => m.id \notin Ids(answers'))
    BY <1>1, IdsTail
  <1> HIDE DEF m
  <1>4. /\ Unique(requests)' = Unique(requests) /\ Ids(requests)' = Ids(requests) /\ Ids(serving)' = Ids(serving)
        /\ Range(requests)' = Range(requests) /\ Range(serving)' = Range(serving) /\ Detaching' = Detaching
        /\ \A v \in Users : /\ Opens(v)' = Opens(v) /\ Attached(v)' = Attached(v) /\ Holds(v)' = Holds(v)
                            /\ Parts(v)' = Parts(v) /\ Served(v)' = Served(v)
    BY <1>1 DEF Detaching, Opens, Attached, Holds, Parts, Served
  <1>5. /\ \A i : Travels(i)' => Travels(i)
        /\ \A i : i > 0 /\ i = m.id => Travels(i) /\ ~Travels(i)'
        /\ Unique(answers')
    <2>1. \A i : Travels(i)' => Travels(i)
      BY <1>3, <1>4 DEF Travels
    <2>2. m.id > 0 => m.id \notin Ids(requests) /\ m.id \notin Ids(serving) /\ m.id \notin Ids(answers')
      BY <1>0, <1>3 DEF Once
    <2>3. \A i : i > 0 /\ i = m.id => Travels(i) /\ ~Travels(i)'
      BY <1>3, <1>4, <2>2 DEF Travels
    <2> QED BY <1>0, <1>3, <2>1, <2>3 DEF Once
  <1>6. ASSUME NEW v \in Users, pc[v] = "await", m.kind = "reply", m.id = job[v].id
        PROVE  answer[v] = << >> /\ answer'[v] = <<m>>
    <2>1. job[v].id > 0 /\ Travels(job[v].id)
      BY <1>0, <1>5, <1>6 DEF Awaited
    <2>2. answer[v] = << >> /\ <<job[v].id, v>> \in pending
      BY <1>0, <1>6, <2>1 DEF Awaited
    <2>3. <<job[v].id, v>> \in Owned({m.id})
      BY <1>6, <2>2 DEF Owned
    <2>4. answer'[v] = Append(answer[v], m)
      BY <1>2, <1>6, <2>3
    <2>5. Append(<< >>, m) = <<m>>
      OBVIOUS
    <2> QED BY <2>2, <2>4, <2>5
  <1>7. ASSUME NEW v \in Users, pc[v] \in {"write", "await"} PROVE Granted(v)' = Granted(v)
    <2>0. job[v].id > 0 /\ job'[v] = job[v]
      BY <1>0, <1>1, <1>7 DEF Awaited
    <2>1. CASE m.kind = "reply" /\ m.id = job[v].id
      <3>1. pc[v] = "await"
        BY <1>0, <1>5, <1>7, <2>0, <2>1 DEF Once
      <3>2. answer[v] = << >> /\ answer'[v] = <<m>>
        BY <1>6, <2>1, <3>1
      <3>3. Head(<<m>>) = m /\ <<m>> # << >>
        OBVIOUS
      <3>4. Granted(v)' = {k \in Range(answers') : k.kind = "reply" /\ k.ok /\ k.id = job[v].id} \cup {k \in {m} : k.ok}
        BY <2>0, <3>2, <3>3 DEF Granted
      <3>5. Granted(v) = {k \in Range(answers) : k.kind = "reply" /\ k.ok /\ k.id = job[v].id}
        BY <3>2 DEF Granted
      <3> QED BY <1>3, <2>1, <3>4, <3>5
    <2>2. CASE ~(m.kind = "reply" /\ m.id = job[v].id)
      <3>1. answer'[v] = answer[v]
        BY <1>1, <2>2
      <3>2. {k \in Range(answers') : k.kind = "reply" /\ k.ok /\ k.id = job[v].id}
              = {k \in Range(answers) : k.kind = "reply" /\ k.ok /\ k.id = job[v].id}
        BY <1>3, <2>2
      <3> QED BY <2>0, <3>1, <3>2 DEF Granted
    <2> QED BY <2>1, <2>2
  <1>8. ASSUME NEW v \in Users, v \in subs, Gone(v) PROVE Gone(v)'
    <2>1. PICK k \in Range(inbox[v]) \cup Range(answers) : k.kind = "gone"
      BY <1>8 DEF Gone
    <2>2. Range(inbox[v]) \subseteq Range(inbox'[v]) /\ (m.kind # "reply" => m \in Range(inbox'[v]))
      <3>1. CASE m.kind = "reply"
        BY <1>1, <3>1
      <3>2. CASE m.kind # "reply"
        <4>1. inbox'[v] = Append(inbox[v], m) /\ inbox[v] \in Seq(Frames) /\ m \in Frames
          BY <1>1, <1>8, <3>2
        <4>2. Range(Append(inbox[v], m)) = Range(inbox[v]) \cup {m}
          BY <4>1, IdsAppend
        <4> QED BY <4>1, <4>2
      <3> QED BY <3>1, <3>2
    <2>3. k \in Range(inbox'[v]) \cup Range(answers')
      BY <1>3, <2>1, <2>2
    <2> QED BY <2>1, <2>3 DEF Gone
  <1>9. OneHas'
    BY <1>0, <1>1, <1>4 DEF OneHas
  <1>10. Once'
    <2>1. \A i \in Ids(requests) : i > 0 => i \notin Ids(serving) /\ i \notin Ids(answers')
      BY <1>0, <1>3 DEF Once
    <2>2. \A i \in Ids(serving) : i > 0 => i \notin Ids(answers')
      BY <1>0, <1>3 DEF Once
    <2>3. \A v \in Users : pc[v] = "write" => ~Travels(job[v].id)'
      <3>1. \A v \in Users : pc[v] = "write" => ~Travels(job[v].id)
        BY <1>0 DEF Once
      <3>2. \A v \in Users : Travels(job[v].id)' => Travels(job[v].id)
        BY <1>1, <1>3 DEF Travels
      <3> QED BY <3>1, <3>2
    <2> QED BY <1>0, <1>1, <1>4, <1>5, <2>1, <2>2, <2>3 DEF Once
  <1>11. Awaited'
    <2>1. ASSUME NEW v \in Users, pc[v] = "write" \/ (pc[v] = "await" /\ answer'[v] = << >>)
          PROVE  <<job[v].id, v>> \in pending'
      <3>1. <<m>> # << >>
        OBVIOUS
      <3>2. <<job[v].id, v>> \in pending /\ job[v].id > 0
        BY <1>0, <1>1, <2>1, <3>1 DEF Awaited
      <3>3. m.kind = "reply" => m.id # job[v].id
        BY <1>0, <1>5, <1>6, <2>1, <3>1, <3>2 DEF Once
      <3>4. m.kind = "reply" => <<job[v].id, v>> \notin Owned({m.id})
        BY <3>3 DEF Owned
      <3> QED BY <1>2, <3>2, <3>4
    <2>2. ASSUME NEW v \in Users, pc[v] = "await", Travels(job[v].id)' PROVE answer'[v] = << >>
      <3> DEFINE n == job[v].id
      <3>0. n > 0 /\ n' = n
        BY <1>0, <1>1, <2>2 DEF Awaited
      <3> HIDE DEF n
      <3>1. Travels(n) /\ answer[v] = << >>
        <4>1. Travels(n)
          BY <1>3, <1>1, <2>2 DEF Travels, n
        <4> QED BY <1>0, <2>2, <4>1 DEF Awaited, n
      <3>2. m.id # job[v].id
        <4>1. ASSUME NEW i, i = n, m.id = i PROVE FALSE
          <5>1. ~Travels(i)'
            BY <1>5, <3>0, <4>1
          <5>2. Travels(i)'
            BY <1>1, <2>2, <4>1 DEF Travels, n
          <5> QED BY <5>1, <5>2
        <4> QED BY <4>1 DEF n
      <3> QED BY <1>1, <3>1, <3>2
    <2>3. job' = job /\ pc' = pc
      BY <1>1
    <2> QED BY <1>0, <2>1, <2>2, <2>3 DEF Awaited
  <1>12. Belongs'
    BY <1>0, <1>1, <1>4 DEF Belongs
  <1>13. Behind'
    <2>1. \A v \in Users : Opens(v) => Granted(v)' = Granted(v)
      BY <1>7 DEF Opens
    <2> QED BY <1>0, <1>1, <1>4, <2>1 DEF Behind
  <1>14. Listens'
    <2>1. \A v \in Users : Opens(v) => Granted(v)' = Granted(v)
      BY <1>7 DEF Opens
    <2>2. Attends => Attends'
      BY <1>1, <1>4, <2>1 DEF Attends
    <2>3. ASSUME NEW v \in Users, Holds(v), NEW a, Kept(v, a) PROVE Kept(v, a)'
      <3>1. v \in subs
        BY <1>0, <2>3 DEF OneHas
      <3> QED BY <1>1, <1>8, <2>3, <3>1 DEF Kept
    <2>4. \A v \in Users : Released(v)' => Released(v)
      BY <1>1, <1>4, <1>7 DEF Released
    <2>5. ASSUME NEW v \in Users, Opens(v)', NEW k \in Granted(v)' PROVE Kept(v, k.attach)'
      <3>1. Opens(v) /\ Holds(v) /\ k \in Granted(v)
        BY <1>4, <2>1, <2>5 DEF Holds
      <3>2. Kept(v, k.attach)
        BY <1>0, <3>1 DEF Listens
      <3> QED BY <2>3, <3>1, <3>2
    <2>6. ASSUME NEW v \in Users, Attached(v)', ~Parts(v)' PROVE Kept(v, chat[v].attached)'
      <3>1. Holds(v) /\ Kept(v, chat[v].attached) /\ chat' = chat
        BY <1>0, <1>1, <1>4, <2>6 DEF Listens, Holds
      <3> QED BY <2>3, <3>1
    <2> QED BY <1>0, <1>1, <1>4, <2>2, <2>4, <2>5, <2>6 DEF Listens
  <1> QED BY <1>9, <1>10, <1>11, <1>12, <1>13, <1>14 DEF Agreed

\* The daemon's steps leave the threads where they are.
LEMMA ApartSame ==
    ASSUME Apart
    PROVE  /\ UNCHANGED <<alive, nextId, pending, subs, reserved, shut, answer, inbox, pc, plan, job, then, chat, late>>
           /\ \A v \in Users : /\ Opens(v)' = Opens(v) /\ Attached(v)' = Attached(v) /\ Holds(v)' = Holds(v)
                               /\ Parts(v)' = Parts(v)
           /\ OneHas' = OneHas
  <1>1. UNCHANGED <<alive, nextId, pending, subs, reserved, shut, answer, inbox, pc, plan, job, then, chat, late>>
    BY DEF Apart
  <1>2. \A v \in Users : /\ Opens(v)' = Opens(v) /\ Attached(v)' = Attached(v) /\ Holds(v)' = Holds(v)
                         /\ Parts(v)' = Parts(v)
    BY <1>1 DEF Opens, Attached, Holds, Parts
  <1>3. OneHas' = OneHas
    <2> HIDE DEF innerVars
    <2>1. OneHas => OneHas'
      BY <1>1, <1>2 DEF OneHas
    <2>2. OneHas' => OneHas
      BY <1>1, <1>2 DEF OneHas
    <2> QED BY <2>1, <2>2 DEF OneHas
  <1> QED BY <1>1, <1>2, <1>3

\* A session is put down, says farewell or publishes.
LEMMA FramesAgreed ==
    ASSUME Connection, Agreed, TakeDown \/ Farewell \/ Publish
    PROVE  Agreed'
  <1>0. OneHas /\ Once /\ Awaited /\ Belongs /\ Behind /\ Listens /\ Listened
        /\ answers \in Seq(Wire) /\ session.listener \in Nat /\ session.old \in Nat /\ session.events \in Int
        /\ session \in [up : BOOLEAN, dying : BOOLEAN, listener : Nat, old : Nat, events : Nat, next : Int, attaches : Nat]
    BY DEF Agreed, Connection, ConnTypes, WireTypes
  <1>1. /\ Apart /\ UNCHANGED <<requests, serving>>
        /\ answers' = answers \/ \E f \in Frames : answers' = Append(answers, f)
    <2>1. Apart /\ UNCHANGED <<requests, serving>>
      BY DEF TakeDown, Farewell, Publish, Apart, daemonRest
    <2>2. Frame("gone", -1, session.old) \in Frames /\ Frame("event", session.events, session.old) \in Frames
          /\ Frame("event", session.events, session.listener) \in Frames
      BY <1>0 DEF Frame, Frames
    <2> QED BY <2>1, <2>2 DEF TakeDown, Farewell, Publish
  <1>2. /\ \A i \in Ids(answers') : i \in Ids(answers) \/ ~(i > 0)
        /\ \A k \in Range(answers') : k \in Range(answers) \/ k.kind # "reply"
        /\ Range(answers) \subseteq Range(answers') /\ (Unique(answers) => Unique(answers'))
    <2>1. CASE answers' = answers
      BY <2>1
    <2>2. ASSUME NEW f \in Frames, answers' = Append(answers, f) PROVE <1>2
      <3>1. f \in Wire /\ ~(f.id > 0) /\ f.kind # "reply"
        <4>1. ~(-1 > 0)
          OBVIOUS
        <4> QED BY <4>1 DEF Wire, Frames
      <3>2. /\ Ids(Append(answers, f)) = Ids(answers) \cup {f.id}
            /\ Range(Append(answers, f)) = Range(answers) \cup {f}
            /\ Unique(answers) /\ (f.id > 0 => f.id \notin Ids(answers)) => Unique(Append(answers, f))
        BY <1>0, <3>1, IdsAppend
      <3> QED BY <2>2, <3>1, <3>2
    <2> QED BY <1>1, <2>1, <2>2
  <1>3. /\ UNCHANGED <<alive, nextId, pending, subs, reserved, shut, answer, inbox, pc, plan, job, then, chat, late>>
        /\ \A v \in Users : /\ Opens(v)' = Opens(v) /\ Attached(v)' = Attached(v) /\ Holds(v)' = Holds(v)
                            /\ Parts(v)' = Parts(v)
        /\ OneHas'
    BY <1>0, <1>1, ApartSame
  <1>4. /\ Detaching' = Detaching /\ \A v \in Users : Served(v)' = Served(v)
        /\ \A v \in Users : Granted(v)' = Granted(v)
        /\ \A v \in Users : Gone(v) => Gone(v)'
        /\ \A i : i > 0 /\ Travels(i)' => Travels(i)
        /\ Range(requests)' = Range(requests) /\ Range(serving)' = Range(serving)
        /\ Ids(requests)' = Ids(requests) /\ Ids(serving)' = Ids(serving) /\ Unique(requests)' = Unique(requests)
    <2>1. /\ Range(requests)' = Range(requests) /\ Range(serving)' = Range(serving)
          /\ Ids(requests)' = Ids(requests) /\ Ids(serving)' = Ids(serving) /\ Unique(requests)' = Unique(requests)
      BY <1>1
    <2>2. Detaching' = Detaching /\ \A v \in Users : Served(v)' = Served(v)
      BY <1>1, <1>3 DEF Detaching, Served
    <2>3. ASSUME NEW v \in Users PROVE Granted(v)' = Granted(v)
      <3>1. {k \in Range(answers') : k.kind = "reply" /\ k.ok /\ k.id = job[v].id}
              = {k \in Range(answers) : k.kind = "reply" /\ k.ok /\ k.id = job[v].id}
        BY <1>2
      <3> QED BY <1>3, <3>1 DEF Granted
    <2>4. \A v \in Users : Gone(v) => Gone(v)'
      BY <1>2, <1>3 DEF Gone
    <2>5. \A i : i > 0 /\ Travels(i)' => Travels(i)
      BY <1>2, <2>1 DEF Travels
    <2> QED BY <2>1, <2>2, <2>3, <2>4, <2>5
  <1>5. /\ session'.listener \in {0, session.listener}
        /\ serving # << >> => session'.up /\ session'.listener = session'.attaches
        /\ \A v \in Users : \A a : Kept(v, a) => Kept(v, a)'
    <2>1. CASE TakeDown
      <3>1. serving = << >> /\ session.up /\ session.old = 0
            /\ session'.listener = 0 /\ session'.old = session.listener
        BY <1>0, <2>1 DEF TakeDown, Listened
      <3> QED BY <1>1, <1>4, <3>1 DEF Kept
    <2>2. CASE Farewell
      <3>1. /\ session'.listener = session.listener /\ session'.up = session.up
            /\ session'.attaches = session.attaches
            /\ session.old # 0 => answers' = Append(answers, Frame("gone", -1, session.old))
        BY <1>0, <2>2 DEF Farewell
      <3>2. ASSUME session.old # 0, NEW v \in Users PROVE Gone(v)'
        <4> DEFINE f == Frame("gone", -1, session.old)
        <4>1. f \in Wire /\ f.kind = "gone"
          BY <1>0 DEF Frame, Frames, Wire
        <4> HIDE DEF f
        <4>2. Range(Append(answers, f)) = Range(answers) \cup {f}
          BY <1>0, <4>1, IdsAppend
        <4>3. answers' = Append(answers, f)
          BY <3>1, <3>2 DEF f
        <4> QED BY <4>1, <4>2, <4>3 DEF Gone
      <3>3. \A v \in Users : \A a : Kept(v, a) => Kept(v, a)'
        BY <1>4, <3>1, <3>2 DEF Kept
      <3> QED BY <1>0, <3>1, <3>3 DEF Listens
    <2>3. CASE Publish
      <3>1. /\ session'.listener = session.listener /\ session'.up = session.up
            /\ session'.attaches = session.attaches /\ session'.old = session.old
        BY <1>0, <2>3 DEF Publish
      <3> QED BY <1>0, <1>4, <3>1 DEF Kept, Listens
    <2> QED BY <2>1, <2>2, <2>3
  <1>6. Once'
    <2>1. \A v \in Users : pc[v] = "write" => ~Travels(job[v].id)'
      <3>1. \A v \in Users : pc[v] = "write" => job[v].id > 0 /\ ~Travels(job[v].id)
        BY <1>0 DEF Once, Awaited
      <3>2. \A v \in Users : job[v].id > 0 /\ Travels(job[v].id)' => Travels(job[v].id)
        BY <1>1, <1>2, <1>3 DEF Travels
      <3> QED BY <3>1, <3>2
    <2>2. \A i \in Ids(requests) : i > 0 => i \notin Ids(serving) /\ i \notin Ids(answers')
      BY <1>0, <1>2 DEF Once
    <2>3. \A i \in Ids(serving) : i > 0 => i \notin Ids(answers')
      BY <1>0, <1>2 DEF Once
    <2> QED BY <1>0, <1>2, <1>3, <1>4, <2>1, <2>2, <2>3 DEF Once
  <1>7. Awaited'
    BY <1>0, <1>3, <1>4 DEF Awaited
  <1>8. Belongs' /\ Behind'
    BY <1>0, <1>1, <1>3, <1>4 DEF Belongs, Behind
  <1>9. Listens'
    <2>1. session'.listener # 0 => session'.listener = session.listener /\ Attends'
      BY <1>0, <1>3, <1>4, <1>5 DEF Listens, Attends
    <2>2. \A v \in Users : Released(v)' = Released(v)
      BY <1>3, <1>4 DEF Released
    <2> QED BY <1>0, <1>1, <1>3, <1>4, <1>5, <2>1, <2>2 DEF Listens
  <1> QED BY <1>3, <1>6, <1>7, <1>8, <1>9 DEF Agreed

\* The request that is served: what is left behind it, and who has sent it.
LEMMA Taken ==
    ASSUME Connection, Agreed, requests # << >>
    PROVE  LET r == Head(requests)
               t == Tail(requests)
           IN  /\ r \in Requests /\ t \in Seq(Requests)
               /\ Ids(requests) = Ids(t) \cup {r.id} /\ Range(requests) = Range(t) \cup {r}
               /\ Unique(t)
               /\ r.id > 0 => r.id \notin Ids(t) /\ r.id \notin Ids(serving) /\ r.id \notin Ids(answers)
               /\ \A i, j \in DOMAIN t : t[i].op = "detach" /\ t[j].op = "open" => i < j
               /\ r.op = "open" => \A q \in Range(t) : q.op # "detach"
               /\ \A u \in Users : pc[u] \in {"write", "await"} /\ r.id = job[u].id => r = job[u]
  <1> DEFINE r == Head(requests)
             t == Tail(requests)
  <1>1. /\ r \in Requests /\ t \in Seq(Requests) /\ requests \in Seq(Requests)
        /\ \A u \in Users : r.id = job[u].id /\ job[u].id # 0 => r = job[u]
    BY RequestTaken DEF Connection, ConnTypes, WireTypes
  <1>2. /\ Ids(requests) = Ids(t) \cup {r.id} /\ Range(requests) = Range(t) \cup {r}
        /\ Unique(requests) => Unique(t) /\ (r.id > 0 => r.id \notin Ids(t))
        /\ \A i \in DOMAIN t : i \in Nat /\ i + 1 \in DOMAIN requests /\ t[i] = requests[i + 1]
        /\ 1 \in DOMAIN requests /\ r = requests[1]
    BY <1>1, IdsTail
  <1> HIDE DEF r, t
  <1>3. Once /\ Behind /\ Awaited
    BY DEF Agreed
  <1>4. Unique(t) /\ (r.id > 0 => r.id \notin Ids(t) /\ r.id \notin Ids(serving) /\ r.id \notin Ids(answers))
    BY <1>2, <1>3 DEF Once
  <1>5. ASSUME NEW i \in DOMAIN t, NEW j \in DOMAIN t, t[i].op = "detach", t[j].op = "open" PROVE i < j
    <2>1. i + 1 < j + 1
      BY <1>2, <1>3, <1>5 DEF Behind
    <2> QED BY <1>2, <2>1
  <1>6. ASSUME r.op = "open", NEW i \in DOMAIN t, t[i].op = "detach" PROVE FALSE
    <2>1. i + 1 < 1
      BY <1>2, <1>3, <1>6 DEF Behind
    <2> QED BY <1>2, <2>1
  <1>7. \A u \in Users : pc[u] \in {"write", "await"} => job[u].id # 0
    <2>1. ~(0 > 0)
      OBVIOUS
    <2> QED BY <1>3, <2>1 DEF Awaited
  <1>8. r.op = "open" => \A q \in Range(t) : q.op # "detach"
    BY <1>6 DEF Range
  <1> QED BY <1>1, <1>2, <1>4, <1>5, <1>7, <1>8 DEF r, t

\* An open that is served is that of the one who opens, who has no answer yet.
LEMMA ServeOpenAgreed ==
    ASSUME Connection, Agreed, ServeOpen
    PROVE  Agreed'
  <1> DEFINE r == Head(requests)
             from == IF r.since < 0 THEN session.events ELSE r.since
             a == session.attaches + 1
             t == answers \o Replayed(from, session.events, a)
  <1>0. OneHas /\ Once /\ Awaited /\ Belongs /\ Behind /\ Listens /\ answers \in Seq(Wire)
        /\ session \in [up : BOOLEAN, dying : BOOLEAN, listener : Nat, old : Nat, events : Nat, next : Int, attaches : Nat]
    BY DEF Agreed, Connection, ConnTypes, WireTypes
  <1>1. /\ serving = << >> /\ requests # << >> /\ r.op = "open" /\ serving' = <<r>> /\ answers' = t
        /\ requests' = Tail(requests)
        /\ session' = [session EXCEPT !.up = TRUE, !.listener = a, !.next = from, !.attaches = a] /\ Apart
    BY DEF ServeOpen, Replayed, Apart, daemonRest
  <1>2. /\ r \in Requests /\ requests' \in Seq(Requests)
        /\ Ids(requests) = Ids(requests') \cup {r.id} /\ Range(requests) = Range(requests') \cup {r}
        /\ Unique(requests')
        /\ r.id > 0 => r.id \notin Ids(requests') /\ r.id \notin Ids(serving) /\ r.id \notin Ids(answers)
        /\ \A i, j \in DOMAIN requests' : requests'[i].op = "detach" /\ requests'[j].op = "open" => i < j
        /\ \A q \in Range(requests') : q.op # "detach"
    BY <1>1, Taken
  <1>3. from \in Int /\ a \in Nat /\ session.events \in Int
    BY <1>0, <1>2 DEF Requests
  <1>4. /\ \A i \in Ids(t) : i \in Ids(answers) \/ ~(i > 0)
        /\ \A k \in Range(t) : k \in Range(answers) \/ k.kind = "event"
        /\ Range(answers) \subseteq Range(t)
        /\ Unique(answers) => Unique(t)
    BY <1>0, <1>3, IdsReplayed
  <1>5. session'.up = TRUE /\ session'.listener = a /\ session'.attaches = a
    BY <1>0, <1>1
  <1> HIDE DEF r, from, a, t
  <1>6. /\ UNCHANGED <<alive, nextId, pending, subs, reserved, shut, answer, inbox, pc, plan, job, then, chat, late>>
        /\ \A v \in Users : /\ Opens(v)' = Opens(v) /\ Attached(v)' = Attached(v) /\ Holds(v)' = Holds(v)
                            /\ Parts(v)' = Parts(v)
        /\ OneHas'
    BY <1>0, <1>1, ApartSame
  <1>7. PICK u \in Users : Opens(u) /\ pc[u] = "await" /\ job[u] = r
    BY <1>0, <1>1, <1>2 DEF Belongs
  <1>8. \A v \in Users : ~Attached(v) /\ (v # u => ~Opens(v))
    BY <1>0, <1>7, OneHolds DEF Holds, OneHas
  <1>9. /\ Ids(serving') = {r.id} /\ Range(serving') = {r} /\ Ids(serving) = {} /\ Range(serving) = {}
        /\ serving' # << >> /\ Head(serving') = r
    <2>1. /\ DOMAIN <<r>> = {1} /\ <<r>>[1] = r /\ DOMAIN << >> = {} /\ <<r>> # << >> /\ Head(<<r>>) = r
      OBVIOUS
    <2> QED BY <1>1, <2>1 DEF Ids, Range
  <1>10. r.id > 0 /\ Travels(r.id) /\ answer[u] = << >>
    BY <1>0, <1>2, <1>7 DEF Awaited, Travels
  <1>11. Granted(u)' = {}
    <2>1. \A k \in Range(answers) : k.id # r.id
      BY <1>2, <1>10 DEF Ids, Range
    <2> QED BY <1>1, <1>4, <1>6, <1>7, <1>10, <2>1 DEF Granted
  <1>12. ~Detaching'
    BY <1>2 DEF Detaching
  <1>13. \A v \in Users : job[v].id > 0 /\ Travels(job[v].id)' => Travels(job[v].id)
    BY <1>1, <1>2, <1>4, <1>6, <1>9 DEF Travels
  <1>14. Once'
    <2>1. \A i \in Ids(requests') : i > 0 => i \notin Ids(serving') /\ i \notin Ids(answers')
      BY <1>0, <1>1, <1>2, <1>4, <1>9 DEF Once
    <2>2. \A i \in Ids(serving') : i > 0 => i \notin Ids(answers')
      BY <1>1, <1>2, <1>4, <1>9
    <2>3. \A v \in Users : pc[v] = "write" => ~Travels(job[v].id)'
      BY <1>0, <1>13 DEF Once, Awaited
    <2> QED BY <1>0, <1>1, <1>2, <1>4, <1>6, <2>1, <2>2, <2>3 DEF Once
  <1>15. Awaited'
    BY <1>0, <1>6, <1>13 DEF Awaited
  <1>16. Belongs'
    <2>1. \A q \in Range(serving') : q.op = "open"
      BY <1>1, <1>9
    <2>2. Range(requests') \cup Range(serving') = Range(requests) \cup Range(serving)
      BY <1>2, <1>9
    <2>3. \A v \in Users : Opens(v)' = Opens(v) /\ pc'[v] = pc[v] /\ job'[v] = job[v]
      BY <1>6
    <2> QED BY <1>0, <2>1, <2>2, <2>3 DEF Belongs
  <1>17. Behind'
    BY <1>2, <1>12 DEF Behind
  <1>18. Listens'
    <2>1. Served(u)'
      BY <1>6, <1>7, <1>9 DEF Served
    <2>2. Attends'
      BY <1>6, <1>7, <2>1 DEF Attends
    <2> QED BY <1>5, <1>6, <1>8, <1>11, <2>2 DEF Listens
  <1> QED BY <1>6, <1>14, <1>15, <1>16, <1>17, <1>18 DEF Agreed

\* Its answer tells of the attachment that listens.
LEMMA ServeOpenedAgreed ==
    ASSUME Connection, Agreed, ServeOpened
    PROVE  Agreed'
  <1> DEFINE r == Head(serving)
             m == Reply(r, TRUE)
  <1>0. OneHas /\ Once /\ Awaited /\ Belongs /\ Behind /\ Listens /\ answers \in Seq(Wire) /\ serving \in Seq(Requests)
        /\ Numbered
    BY DEF Agreed, Connection, ConnTypes, WireTypes
  <1>1. /\ serving # << >> /\ serving' = << >> /\ answers' = Append(answers, m)
        /\ UNCHANGED <<requests, session>> /\ Apart
    BY DEF ServeOpened, Apart, daemonRest
  <1>2. Range(serving) = Range(Tail(serving)) \cup {r} /\ Ids(serving) = Ids(Tail(serving)) \cup {r.id} /\ r \in Requests
    BY <1>0, <1>1, IdsTail, FromTail
  <1>3. /\ m \in Wire /\ m.kind = "reply" /\ m.id = r.id /\ m.ok = TRUE /\ m.attach = session.attaches
    BY <1>2, ReplyType DEF Requests
  <1> HIDE DEF r, m
  <1>4. /\ Ids(answers') = Ids(answers) \cup {r.id} /\ Range(answers') = Range(answers) \cup {m}
        /\ Unique(answers) /\ (r.id > 0 => r.id \notin Ids(answers)) => Unique(answers')
    BY <1>0, <1>1, <1>3, IdsAppend
  <1>5. /\ UNCHANGED <<alive, nextId, pending, subs, reserved, shut, answer, inbox, pc, plan, job, then, chat, late>>
        /\ \A v \in Users : /\ Opens(v)' = Opens(v) /\ Attached(v)' = Attached(v) /\ Holds(v)' = Holds(v)
                            /\ Parts(v)' = Parts(v)
        /\ OneHas'
    BY <1>0, <1>1, ApartSame
  <1>6. PICK u \in Users : Opens(u) /\ pc[u] = "await" /\ job[u] = r
    BY <1>0, <1>2 DEF Belongs
  <1>7. \A v \in Users : ~Attached(v) /\ (v # u => ~Opens(v))
    BY <1>0, <1>6, OneHolds DEF Holds, OneHas
  <1>8. Ids(serving') = {} /\ Range(serving') = {} /\ Ids(requests)' = Ids(requests) /\ Range(requests)' = Range(requests)
    <2>1. DOMAIN << >> = {}
      OBVIOUS
    <2> QED BY <1>1, <2>1 DEF Ids, Range
  <1>9. r.id > 0 /\ Travels(r.id) /\ answer[u] = << >> /\ r.id \notin Ids(answers) /\ r.id \notin Ids(requests)
    BY <1>0, <1>2, <1>6 DEF Awaited, Travels, Once
  <1>10. Granted(u)' = {m}
    <2>1. \A k \in Range(answers) : k.id # r.id
      BY <1>9 DEF Ids, Range
    <2>2. {k \in Range(answers') : k.kind = "reply" /\ k.ok /\ k.id = r.id} = {m}
      BY <1>3, <1>4, <2>1
    <2> QED BY <1>5, <1>6, <1>9, <2>2 DEF Granted
  <1>11. ~Detaching'
    <2>1. Served(u)
      BY <1>1, <1>6 DEF Served, r
    <2>2. ~Detaching
      BY <1>0, <1>6, <2>1 DEF Behind
    <2> QED BY <1>1, <2>2 DEF Detaching
  <1>12. \A v \in Users : Travels(job[v].id)' => Travels(job[v].id)
    BY <1>2, <1>4, <1>5, <1>8 DEF Travels
  <1>13. Once'
    <2>1. \A i \in Ids(requests) : i > 0 => i \notin Ids(answers')
      BY <1>0, <1>4, <1>9 DEF Once
    <2>2. \A v \in Users : pc[v] = "write" => ~Travels(job[v].id)'
      BY <1>0, <1>12 DEF Once
    <2> QED BY <1>0, <1>1, <1>4, <1>5, <1>8, <1>9, <2>1, <2>2 DEF Once
  <1>14. Awaited'
    BY <1>0, <1>5, <1>12 DEF Awaited
  <1>15. Belongs' /\ Behind'
    BY <1>0, <1>1, <1>5, <1>8, <1>11 DEF Belongs, Behind
  <1>16. Listens'
    <2>1. m.attach = session.listener /\ session.listener # 0
      BY <1>0, <1>1, <1>3 DEF Listens, Numbered
    <2>2. Attends'
      BY <1>1, <1>5, <1>6, <1>10, <2>1 DEF Attends
    <2>3. \A k \in Granted(u)' : Kept(u, k.attach)'
      <3>1. ASSUME NEW k, k = m PROVE Kept(u, k.attach)'
        BY <1>1, <2>1, <3>1 DEF Kept
      <3> QED BY <1>10, <3>1
    <2> QED BY <1>1, <1>5, <1>7, <1>10, <2>2, <2>3 DEF Listens
  <1> QED BY <1>5, <1>13, <1>14, <1>15, <1>16 DEF Agreed

\* Any other request is answered; a detach leaves no listener.
LEMMA ServeAgreed ==
    ASSUME Connection, Agreed, Serve
    PROVE  Agreed'
  <1> DEFINE r == Head(requests)
  <1>0. OneHas /\ Once /\ Awaited /\ Belongs /\ Behind /\ Listens /\ answers \in Seq(Wire) /\ Listened
        /\ session \in [up : BOOLEAN, dying : BOOLEAN, listener : Nat, old : Nat, events : Nat, next : Int, attaches : Nat]
    BY DEF Agreed, Connection, ConnTypes, WireTypes
  <1>1. requests # << >> /\ serving = << >> /\ requests' = Tail(requests) /\ serving' = serving /\ Apart
    BY DEF Serve, Apart, daemonRest
  <1>2. /\ r \in Requests /\ requests' \in Seq(Requests)
        /\ Ids(requests) = Ids(requests') \cup {r.id} /\ Range(requests) = Range(requests') \cup {r}
        /\ Unique(requests')
        /\ r.id > 0 => r.id \notin Ids(requests') /\ r.id \notin Ids(serving) /\ r.id \notin Ids(answers)
        /\ \A i, j \in DOMAIN requests' : requests'[i].op = "detach" /\ requests'[j].op = "open" => i < j
        /\ \A v \in Users : pc[v] \in {"write", "await"} /\ r.id = job[v].id => r = job[v]
    BY <1>1, Taken
  <1>3. PICK ok \in BOOLEAN :
          /\ answers' = Append(answers, Reply(r, ok))
          /\ r.op = "open" => ok = FALSE
          /\ r.op = "detach" => session' = [session EXCEPT !.listener = IF session.up THEN 0 ELSE @]
          /\ r.op # "detach" => session' = session
          /\ r.op = "stop" => ~session.up
          /\ r.op # "none"
    <2>1. session.up \in BOOLEAN
      BY <1>0
    <2> QED BY <2>1 DEF Serve
  <1> DEFINE m == Reply(r, ok)
  <1>4. /\ m \in Wire /\ m.kind = "reply" /\ m.id = r.id /\ m.ok = ok
    BY <1>2, ReplyType DEF Requests
  <1> HIDE DEF m
  <1>5. /\ Ids(answers') = Ids(answers) \cup {r.id} /\ Range(answers') = Range(answers) \cup {m}
        /\ Unique(answers) /\ (r.id > 0 => r.id \notin Ids(answers)) => Unique(answers')
    <2>1. answers' = Append(answers, m)
      BY <1>3 DEF m
    <2> QED BY <1>0, <1>4, <2>1, IdsAppend
  <1>6. /\ session'.up = session.up /\ session'.attaches = session.attaches /\ session'.old = session.old
        /\ r.op # "detach" => session'.listener = session.listener
        /\ r.op = "detach" \/ r.op = "stop" => session'.listener = 0
    BY <1>0, <1>3 DEF Listened
  <1> HIDE DEF r
  <1>7. /\ UNCHANGED <<alive, nextId, pending, subs, reserved, shut, answer, inbox, pc, plan, job, then, chat, late>>
        /\ \A v \in Users : /\ Opens(v)' = Opens(v) /\ Attached(v)' = Attached(v) /\ Holds(v)' = Holds(v)
                            /\ Parts(v)' = Parts(v)
        /\ OneHas'
    BY <1>0, <1>1, ApartSame
  <1>8. /\ Ids(serving)' = Ids(serving) /\ Range(serving)' = Range(serving)
        /\ \A v \in Users : Served(v)' = Served(v) /\ (Gone(v) => Gone(v)')
        /\ Detaching <=> Detaching' \/ r.op = "detach"
    BY <1>1, <1>2, <1>5, <1>7 DEF Served, Gone, Detaching
  <1>9. ASSUME NEW v \in Users, pc[v] \in {"write", "await"}, Granted(v)' # Granted(v)
        PROVE  r = job[v] /\ ok
    <2>1. job'[v] = job[v] /\ answer'[v] = answer[v]
      BY <1>7
    <2>2. CASE ~(ok /\ r.id = job[v].id)
      <3>1. {k \in Range(answers') : k.kind = "reply" /\ k.ok /\ k.id = job[v].id}
              = {k \in Range(answers) : k.kind = "reply" /\ k.ok /\ k.id = job[v].id}
        BY <1>4, <1>5, <2>2
      <3> QED BY <1>9, <2>1, <3>1 DEF Granted
    <2>3. CASE ok /\ r.id = job[v].id
      BY <1>2, <1>9, <2>3
    <2> QED BY <2>2, <2>3
  <1>10. ASSUME NEW v \in Users, Opens(v) PROVE Granted(v)' = Granted(v)
    <2>1. pc[v] \in {"write", "await"} /\ job[v].op = "open"
      BY <1>10 DEF Opens
    <2> QED BY <1>3, <1>9, <2>1
  <1>11. \A v \in Users : Travels(job[v].id)' => Travels(job[v].id)
    BY <1>2, <1>5, <1>7, <1>8 DEF Travels
  <1>12. Once'
    <2>1. \A i \in Ids(requests') : i > 0 => i \notin Ids(serving) /\ i \notin Ids(answers')
      BY <1>0, <1>2, <1>5 DEF Once
    <2>2. \A i \in Ids(serving) : i > 0 => i \notin Ids(answers')
      BY <1>0, <1>2, <1>5 DEF Once
    <2>3. \A v \in Users : pc[v] = "write" => ~Travels(job[v].id)'
      BY <1>0, <1>11 DEF Once
    <2> QED BY <1>0, <1>2, <1>5, <1>7, <1>8, <2>1, <2>2, <2>3 DEF Once
  <1>13. Awaited'
    BY <1>0, <1>7, <1>11 DEF Awaited
  <1>14. Belongs'
    BY <1>0, <1>2, <1>7, <1>8 DEF Belongs
  <1>15. Behind'
    BY <1>0, <1>2, <1>7, <1>8, <1>10 DEF Behind
  <1>16. Listens'
    <2>1. CASE r.op = "detach"
      <3>1. Detaching /\ session'.listener = 0
        BY <1>6, <1>8, <2>1
      <3>2. \A v \in Users : /\ Attached(v) => Parts(v)
                             /\ Opens(v) => Granted(v)' = {}
        BY <1>0, <1>10, <3>1 DEF Behind
      <3> QED BY <1>1, <1>7, <3>1, <3>2 DEF Listens
    <2>2. CASE r.op # "detach"
      <3>1. session'.listener = session.listener /\ (Detaching' <=> Detaching)
        BY <1>6, <1>8, <2>2
      <3>2. Attends => Attends'
        BY <1>7, <1>8, <1>10, <3>1 DEF Attends
      <3>3. \A v \in Users : \A a : Kept(v, a) => Kept(v, a)'
        BY <1>6, <1>8, <3>1 DEF Kept
      <3>4. ASSUME NEW v \in Users, Attached(v), Released(v)' PROVE session.listener = 0
        <4>1. CASE Granted(v)' = Granted(v)
          <5>1. Released(v)
            BY <1>7, <3>1, <3>4, <4>1 DEF Released
          <5> QED BY <1>0, <3>4, <5>1 DEF Listens
        <4>2. CASE pc[v] = "await" /\ Granted(v)' # Granted(v)
          <5>1. r = job[v]
            BY <1>9, <4>2
          <5>2. r.op = "stop"
            BY <1>7, <2>2, <3>4, <4>2, <5>1 DEF Released
          <5> QED BY <1>6, <3>1, <5>2
        <4>3. CASE pc[v] = "unmark"
          <5>1. Released(v)
            BY <1>7, <3>1, <3>4, <4>3 DEF Released
          <5> QED BY <1>0, <3>4, <5>1 DEF Listens
        <4> QED BY <1>7, <3>4, <4>1, <4>2, <4>3 DEF Released
      <3> QED BY <1>0, <1>1, <1>6, <1>7, <1>10, <3>1, <3>2, <3>3, <3>4 DEF Listens
    <2> QED BY <2>1, <2>2
  <1> QED BY <1>7, <1>12, <1>13, <1>14, <1>15, <1>16 DEF Agreed

\* A connection that has ended does not come back, and an open that was given
\* up stays so.
LEMMA SteadyBefore ==
    ASSUME ClientNext, Steady'
    PROVE  Steady
  <1>0. alive' /\ ~late' /\ ~closed'
    BY DEF Steady
  <1>1. ASSUME NEW u \in Users,
               \/ Return(u) \/ Start(u) \/ Send(u) \/ Change(u) \/ Refresh(u) \/ Ask(u)
               \/ Detach(u) \/ Stop(u) \/ Abandon(u) \/ Receive(u) \/ ReceiveGone(u)
        PROVE  Steady
    <2>1. Return(u) => Steady
      BY <1>0 DEF Steady, Return
    <2>2. Start(u) => Steady
      BY <1>0 DEF Steady, Start
    <2>3. Send(u) => Steady
      BY <1>0 DEF Steady, Send
    <2>4. Change(u) => Steady
      BY <1>0 DEF Steady, Change
    <2>5. Refresh(u) => Steady
      BY <1>0 DEF Steady, Refresh
    <2>6. Ask(u) => Steady
      BY <1>0 DEF Steady, Ask
    <2>7. Detach(u) => Steady
      BY <1>0 DEF Steady, Detach
    <2>8. Stop(u) => Steady
      BY <1>0 DEF Steady, Stop
    <2>9. Abandon(u) => Steady
      BY <1>0 DEF Steady, Abandon
    <2>10. Receive(u) => Steady
      BY <1>0 DEF Steady, Receive
    <2>11. ReceiveGone(u) => Steady
      BY <1>0 DEF Steady, ReceiveGone
    <2> QED BY <1>1, <2>1, <2>2, <2>3, <2>4, <2>5, <2>6, <2>7, <2>8, <2>9, <2>10, <2>11
  <1>2. ASSUME NEW u \in Users, Fail(u) PROVE alive
    BY <1>0, <1>2 DEF Fail, OpenFailed, LifecycleFailed, CallFailed
  <1>3. ASSUME NEW u \in Users, Timeout(u) PROVE Steady
    <2>1. Fail(u) /\ late' = (late \/ job[u].op = "open") /\ closed' = closed
      BY <1>3 DEF Timeout
    <2> QED BY <1>0, <1>2, <2>1 DEF Steady
  <1>4. ASSUME NEW u \in Users, Thread(u) PROVE Steady
    <2>1. CASE WriteDead(u) \/ WriteFailed(u) \/ Refused(u)
      <3>1. Fail(u) /\ late' = late /\ closed' = closed
        BY <2>1 DEF WriteDead, WriteFailed, Refused
      <3> QED BY <1>0, <1>2, <3>1 DEF Steady
    <2>2. CASE \/ Write(u) \/ WriteBroken(u) \/ Started(u) \/ Told(u) \/ LetGo(u)
               \/ Notify(u) \/ NotifyBroken(u) \/ NotifyDead(u) \/ Unmark(u)
      <3>1. Write(u) => Steady
        BY <1>0 DEF Steady, Write
      <3>2. WriteBroken(u) => Steady
        BY <1>0 DEF Steady, WriteBroken
      <3>3. Started(u) => Steady
        BY <1>0 DEF Steady, Started
      <3>4. Told(u) => Steady
        BY <1>0 DEF Steady, Told
      <3>5. LetGo(u) => Steady
        BY <1>0 DEF Steady, LetGo
      <3>6. Notify(u) => Steady
        BY <1>0 DEF Steady, Notify
      <3>7. NotifyBroken(u) => Steady
        BY <1>0 DEF Steady, NotifyBroken
      <3>8. NotifyDead(u) => Steady
        BY <1>0 DEF Steady, NotifyDead
      <3>9. Unmark(u) => Steady
        BY <1>0 DEF Steady, Unmark
      <3> QED BY <2>2, <3>1, <3>2, <3>3, <3>4, <3>5, <3>6, <3>7, <3>8, <3>9
    <2> QED BY <1>4, <2>1, <2>2 DEF Thread
  <1>5. ASSUME \/ \E t \in Threads : Cut(t) \/ ClearAll(t)
               \/ Read \/ Eof
        PROVE  Steady
    <2>1. ASSUME NEW t \in Threads, Cut(t) \/ ClearAll(t) PROVE Steady
      <3>1. Cut(t) => Steady
        BY <1>0 DEF Steady, Cut
      <3>2. ClearAll(t) => Steady
        BY <1>0 DEF Steady, ClearAll
      <3> QED BY <2>1, <3>1, <3>2
    <2>2. Read => Steady
      BY <1>0 DEF Steady, Read
    <2>3. Eof => Steady
      BY <1>0 DEF Steady, Eof
    <2> QED BY <1>5, <2>1, <2>2, <2>3
  <1>6. ASSUME ServeOpen \/ ServeOpened \/ Serve \/ TakeDown \/ Farewell \/ Publish \/ Close PROVE Steady
    <2>1. ServeOpen => Steady
      BY <1>0 DEF Steady, ServeOpen, daemonRest
    <2>2. ServeOpened => Steady
      BY <1>0 DEF Steady, ServeOpened, daemonRest
    <2>3. Serve => Steady
      BY <1>0 DEF Steady, Serve, daemonRest
    <2>4. TakeDown => Steady
      BY <1>0 DEF Steady, TakeDown, daemonRest
    <2>5. Farewell => Steady
      BY <1>0 DEF Steady, Farewell, daemonRest
    <2>6. Publish => Steady
      BY <1>0 DEF Steady, Publish, daemonRest
    <2>7. Close => Steady
      BY <1>0 DEF Steady, Close
    <2> QED BY <1>6, <2>1, <2>2, <2>3, <2>4, <2>5, <2>6, <2>7
  <1> QED BY <1>1, <1>3, <1>4, <1>5, <1>6 DEF ClientNext

\* Nobody has called, and nobody listens.
LEMMA InitAgreement == Init => Agreement
  <1> SUFFICES ASSUME Init PROVE Agreed
    BY DEF Agreement
  <1>1. /\ pending = {} /\ subs = {} /\ answer = [u \in Users |-> << >>] /\ inbox = [u \in Users |-> << >>]
        /\ pc = [t \in Threads |-> "idle"] /\ Users \subseteq Threads
        /\ \A u \in Users : chat[u].attached = 0
        /\ requests = << >> /\ answers = << >> /\ serving = << >> /\ session.listener = 0
    BY DEF Init, Threads
  <1>2. \A u \in Users : pc[u] = "idle" /\ ~Attached(u) /\ ~Opens(u) /\ ~Holds(u)
    BY <1>1 DEF Attached, Opens, Holds
  <1>3. DOMAIN requests = {} /\ DOMAIN answers = {} /\ DOMAIN serving = {}
    BY <1>1
  <1>4. OneHas /\ Once /\ Awaited
    BY <1>1, <1>2, <1>3 DEF OneHas, Once, Unique, Ids, Travels, Awaited
  <1>5. Belongs /\ Behind
    BY <1>3 DEF Belongs, Behind, Detaching, Range
  <1>6. Listens
    BY <1>1, <1>2 DEF Listens
  <1> QED BY <1>4, <1>5, <1>6 DEF Agreed

\* Every step keeps the two in agreement, while the connection works.
LEMMA NextAgreement == Inv /\ Agreement /\ [Next]_vars => Agreement'
  <1> SUFFICES ASSUME Inv, Agreement, [Next]_vars, Steady' PROVE Agreed'
    BY DEF Agreement
  <1>0. Connection
    BY DEF Inv
  <1>1. CASE UNCHANGED connVars
    <2>1. UNCHANGED <<innerVars, threadVars, chatVars, wireVars, sessionVars>>
      BY <1>1 DEF connVars
    <2>2. Steady /\ Agreed
      BY <2>1 DEF Agreement, Steady
    <2> QED BY <2>1, <2>2 DEF Agreed, OneHas, Once, Awaited, Belongs, Behind, Listens, Attends, Released, Kept, Gone,
                              Detaching, Served, Granted, Parts, Holds, Opens, Attached, Travels
  <1>2. CASE ClientNext
    <2>0. Steady /\ Agreed
      BY <1>2, SteadyBefore DEF Agreement
    <2>1. ASSUME NEW u \in Users,
                 \/ Return(u) \/ Start(u) \/ Send(u) \/ Change(u) \/ Refresh(u) \/ Ask(u)
                 \/ Detach(u) \/ Stop(u) \/ Abandon(u)
                 \/ Receive(u) \/ ReceiveGone(u) \/ Timeout(u) \/ Thread(u)
          PROVE  Agreed'
      BY <1>0, <2>0, <2>1, UserAgreed
    <2>2. ASSUME NEW t \in Threads, Cut(t) \/ ClearAll(t) PROVE FALSE
      BY <2>0, <2>2 DEF Agreed, OneHas, Cut, ClearAll
    <2>3. CASE Read \/ ServeOpen \/ ServeOpened \/ Serve \/ TakeDown \/ Farewell \/ Publish
      BY <1>0, <2>0, <2>3, ReadAgreed, ServeOpenAgreed, ServeOpenedAgreed, ServeAgreed, FramesAgreed
    <2>4. ~Eof /\ ~Close
      BY DEF Steady, Eof, Close
    <2> QED BY <1>2, <2>1, <2>2, <2>3, <2>4 DEF ClientNext
  <1> QED BY <1>1, <1>2 DEF Next, vars

\* Daemon and client agree on who listens, whatever of detach, stop, drop and
\* the stops of others overlap: a session has one thread at a time that opens or
\* has it (Inner::open_sessions), an open that is served is answered while its
\* thread waits, a detach is written before the session is given up (Drop for
\* Session), and a listener whose session is put down hears of it.  It takes that
\* no open was given up, as its answer would come for nobody.
THEOREM ListenersKnown == Spec => []ListenersAgree
  <1>1. Inv /\ Agreement => ListenersAgree
    <2> SUFFICES ASSUME Inv, Agreement, Quiet, ~late
                 PROVE  /\ session.listener # 0 => \E u \in Users : chat[u].attached = session.listener
                        /\ \A u \in Users : Attached(u) =>
                              \/ chat[u].attached = session.listener
                              \/ \E i \in DOMAIN inbox[u] : inbox[u][i].kind = "gone"
      BY DEF ListenersAgree
    <2>1. /\ Agreed /\ ~session.dying /\ DOMAIN requests = {} /\ DOMAIN answers = {}
          /\ \A u \in Users : pc[u] = "idle"
      BY DEF Quiet, Broken, Agreement, Steady
    <2>2. Listens /\ Listened
      BY <2>1 DEF Agreed, Inv, Connection
    <2>3. ~Detaching /\ Range(answers) = {} /\ \A u \in Users : ~Opens(u) /\ ~Parts(u)
      BY <2>1 DEF Detaching, Range, Opens, Parts
    <2>4. session.listener # 0 => \E u \in Users : chat[u].attached = session.listener
      BY <2>2, <2>3 DEF Listens, Attends
    <2>5. ASSUME NEW u \in Users, Attached(u), chat[u].attached # session.listener
          PROVE  \E i \in DOMAIN inbox[u] : inbox[u][i].kind = "gone"
      <3>1. Kept(u, chat[u].attached)
        BY <2>2, <2>3, <2>5 DEF Listens
      <3>2. session.old = 0
        BY <2>1, <2>2 DEF Listened
      <3>3. Gone(u)
        BY <2>5, <3>1, <3>2 DEF Kept
      <3> QED BY <2>3, <3>3 DEF Gone, Range
    <2> QED BY <2>4, <2>5
  <1> QED BY <1>1, InitInv, NextInv, InitAgreement, NextAgreement, PTL DEF Spec
=============================================================================
