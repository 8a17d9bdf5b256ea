------------------------ MODULE ConductorTurnProofs ------------------------
(***************************************************************************)
(* How the turns of a chat begin and end, where no provider runs out of    *)
(* context: no turn is ended more often than it was opened, a chat that    *)
(* says it is idle is idle, and nobody takes over before the messages of an*)
(* unfinished turn are back in the queue.                                  *)
(*                                                                         *)
(* What the conductor knows of its runner is what the runner has posted and*)
(* the conductor has not heard yet.  So the invariant, Accounts, counts    *)
(* along the inbox.  A runner that does not echo its messages has no more  *)
(* native turns open or just ended than the log has running (Plain).  One  *)
(* that does has one at a time, opened by an echo and ended by an END, and *)
(* echoes what is awaiting, in its order (Echoing).  Either way every turn *)
(* of the log has at least as many openings as ENDs, and the newest one    *)
(* has as many more as are still to end (Balanced).                        *)
(***************************************************************************)
EXTENDS ConductorPromiseProofs, FiniteSetTheorems

USE DEF disk, settings, control, queues, unanswered, turnVars, runVars, native,
        history, bounds

-----------------------------------------------------------------------------
(* Counting along a sequence. *)

\* How many of the first p elements of a sequence are in a set.
Seen(s, p, S) == Cardinality({i \in 1 .. p : s[i] \in S})
Count(s, S) == Seen(s, Len(s), S)

\* What is counted is a natural number, and is counted over a finite set.
LEMMA SeenType ==
    ASSUME NEW s, NEW p \in Nat, NEW S
    PROVE  /\ Seen(s, p, S) \in Nat /\ Seen(s, 0, S) = 0
           /\ IsFiniteSet({i \in 1 .. p : s[i] \in S})
           /\ Cardinality({i \in 1 .. p : s[i] \in S}) \in Nat
  <1>1. IsFiniteSet(1 .. p) /\ 1 .. 0 = {}
    BY FS_Interval
  <1>2. {i \in 1 .. p : s[i] \in S} \in SUBSET (1 .. p) /\ {i \in 1 .. 0 : s[i] \in S} = {}
    BY <1>1
  <1>3. IsFiniteSet({i \in 1 .. p : s[i] \in S})
    BY <1>1, <1>2, FS_Subset
  <1>4. Cardinality({i \in 1 .. p : s[i] \in S}) \in Nat
    BY <1>3, FS_CardinalityType
  <1>5. Cardinality({i \in 1 .. 0 : s[i] \in S}) = 0
    BY <1>2, FS_EmptySet
  <1> QED BY <1>3, <1>4, <1>5 DEF Seen

\* One more element is looked at.
LEMMA SeenNext ==
    ASSUME NEW s, NEW p \in Nat, NEW S
    PROVE  Seen(s, p + 1, S) = Seen(s, p, S) + (IF s[p + 1] \in S THEN 1 ELSE 0)
  <1> DEFINE A == {i \in 1 .. p : s[i] \in S}
             B == {i \in 1 .. p + 1 : s[i] \in S}
  <1>1. B = IF s[p + 1] \in S THEN A \cup {p + 1} ELSE A
    OBVIOUS
  <1>2. p + 1 \notin A
    OBVIOUS
  <1>3. IsFiniteSet(A) /\ Cardinality(A) \in Nat
    BY SeenType
  <1> HIDE DEF A, B
  <1>4. Cardinality(A \cup {p + 1}) = Cardinality(A) + 1
    BY <1>2, <1>3, FS_AddElement
  <1> QED BY <1>1, <1>3, <1>4 DEF Seen, A, B

\* An element is put at the end.
LEMMA CountAppend ==
    ASSUME NEW T, NEW s \in Seq(T), NEW x \in T, NEW S
    PROVE  /\ Count(Append(s, x), S) = Count(s, S) + (IF x \in S THEN 1 ELSE 0)
           /\ \A p \in 0 .. Len(s) : Seen(Append(s, x), p, S) = Seen(s, p, S)
  <1>1. /\ Len(s) \in Nat /\ Len(Append(s, x)) = Len(s) + 1
        /\ \A i \in 1 .. Len(s) : Append(s, x)[i] = s[i]
        /\ Append(s, x)[Len(s) + 1] = x
    OBVIOUS
  <1>2. ASSUME NEW p \in 0 .. Len(s) PROVE Seen(Append(s, x), p, S) = Seen(s, p, S)
    <2>1. {i \in 1 .. p : Append(s, x)[i] \in S} = {i \in 1 .. p : s[i] \in S}
      BY <1>1
    <2> QED BY <2>1 DEF Seen
  <1> DEFINE t == Append(s, x)
  <1>3. Seen(t, Len(s) + 1, S) = Seen(t, Len(s), S) + (IF t[Len(s) + 1] \in S THEN 1 ELSE 0)
    <2> HIDE DEF t
    <2> QED BY <1>1, SeenNext
  <1>4. Seen(t, Len(s), S) = Seen(s, Len(s), S)
    BY <1>1, <1>2
  <1>5. Count(t, S) = Count(s, S) + (IF x \in S THEN 1 ELSE 0)
    BY <1>1, <1>3, <1>4 DEF Count
  <1> QED BY <1>2, <1>5

\* The first element is taken off.
LEMMA SeenShift ==
    ASSUME NEW s, NEW t, NEW p \in Nat, NEW S, \A i \in 1 .. p : t[i] = s[i + 1]
    PROVE  Seen(s, p + 1, S) = Seen(t, p, S) + (IF s[1] \in S THEN 1 ELSE 0)
  <1> DEFINE A == {i \in 1 .. p + 1 : s[i] \in S}
             B == {i \in 1 .. p : t[i] \in S}
             C == {i \in 1 .. p + 1 : i > 1 /\ s[i] \in S}
             f == [i \in B |-> i + 1]
  <1>1. f \in Bijection(B, C)
    <2>1. f \in [B -> C]
      OBVIOUS
    <2>2. \A i, j \in B : f[i] = f[j] => i = j
      OBVIOUS
    <2>3. \A k \in C : \E i \in B : f[i] = k
      <3> TAKE k \in C
      <3>1. k - 1 \in B
        OBVIOUS
      <3>2. f[k - 1] = k
        BY <3>1
      <3> QED BY <3>1, <3>2
    <2> HIDE DEF B, C, f
    <2> QED BY <2>1, <2>2, <2>3 DEF Bijection, Injection, Surjection, IsInjective
  <1>2. IsFiniteSet(B) /\ Cardinality(B) \in Nat
    BY SeenType
  <1>3. Cardinality(C) = Cardinality(B) /\ IsFiniteSet(C)
    <2> HIDE DEF B, C, f
    <2> QED BY <1>1, <1>2, FS_Bijection DEF ExistsBijection
  <1>4. A = IF s[1] \in S THEN C \cup {1} ELSE C
    OBVIOUS
  <1>5. 1 \notin C
    OBVIOUS
  <1>6. Seen(s, p + 1, S) = Cardinality(A) /\ Seen(t, p, S) = Cardinality(B)
    BY DEF Seen
  <1> HIDE DEF A, B, C, f
  <1>7. Cardinality(C \cup {1}) = Cardinality(C) + 1
    BY <1>3, <1>5, FS_AddElement
  <1> QED BY <1>2, <1>3, <1>4, <1>6, <1>7

\* The same, for the tail of a sequence.
LEMMA SeenTail ==
    ASSUME NEW T, NEW s \in Seq(T), s # << >>, NEW p \in 0 .. Len(s) - 1, NEW S
    PROVE  Seen(s, p + 1, S) = Seen(Tail(s), p, S) + (IF Head(s) \in S THEN 1 ELSE 0)
  <1>1. /\ Len(s) \in Nat \ {0} /\ Head(s) = s[1] /\ p \in Nat
        /\ \A i \in 1 .. Len(s) - 1 : Tail(s)[i] = s[i + 1]
    BY HeadTailProperties, EmptySeq
  <1> DEFINE t == Tail(s)
  <1>2. \A i \in 1 .. p : t[i] = s[i + 1]
    BY <1>1
  <1> HIDE DEF t
  <1>3. Seen(s, p + 1, S) = Seen(t, p, S) + (IF s[1] \in S THEN 1 ELSE 0)
    BY <1>1, <1>2, SeenShift
  <1> QED BY <1>1, <1>3 DEF t

\* The whole of a sequence counts what its tail does, and its head.
LEMMA CountTail ==
    ASSUME NEW T, NEW s \in Seq(T), s # << >>, NEW S
    PROVE  Count(s, S) = Count(Tail(s), S) + (IF Head(s) \in S THEN 1 ELSE 0)
  <1>1. /\ Len(s) \in Nat \ {0} /\ Len(Tail(s)) = Len(s) - 1
        /\ Len(s) - 1 \in 0 .. Len(s) - 1
    BY HeadTailProperties, EmptySeq
  <1>2. Seen(s, (Len(s) - 1) + 1, S)
            = Seen(Tail(s), Len(s) - 1, S) + (IF Head(s) \in S THEN 1 ELSE 0)
    BY <1>1, SeenTail
  <1> QED BY <1>1, <1>2 DEF Count

\* Nothing is counted where nothing is in the set.
LEMMA CountNone ==
    ASSUME NEW T, NEW s \in Seq(T), NEW S, \A i \in DOMAIN s : s[i] \notin S
    PROVE  Count(s, S) = 0
  <1>1. {i \in 1 .. Len(s) : s[i] \in S} = {}
    OBVIOUS
  <1> QED BY <1>1, FS_EmptySet DEF Count, Seen

\* What is in the set is counted.
LEMMA CountSome ==
    ASSUME NEW T, NEW s \in Seq(T), NEW S, NEW i \in DOMAIN s, s[i] \in S
    PROVE  Count(s, S) > 0
  <1> DEFINE A == {j \in 1 .. Len(s) : s[j] \in S}
  <1>1. i \in A /\ Len(s) \in Nat
    OBVIOUS
  <1>2. IsFiniteSet(A) /\ Cardinality(A) \in Nat
    BY <1>1, SeenType
  <1>3. Cardinality(A) # 0
    BY <1>1, <1>2, FS_EmptySet
  <1> QED BY <1>2, <1>3 DEF Count, Seen

-----------------------------------------------------------------------------
(* What a runner has posted. *)

\* The ENDs and the echoes of the runner of epoch e, the echoes that open a
\* native turn, and those of messages that were put into a running one.
EndsOf(e) == {h \in Heard : h.epoch = e /\ h.type = "END"}
EchoesOf(e) == {h \in Heard : h.epoch = e /\ h.type = "CONFIRM"}
StartsOf(e) == {h \in EchoesOf(e) : h.why = "START"}
JoinsOf(e) == {h \in EchoesOf(e) : h.why = "INJECTED"}

\* How many native turns are open after the first p events of q, if n were open
\* before them.
Level(q, e, n, p) == n + Seen(q, p, StartsOf(e)) - Seen(q, p, EndsOf(e))

\* The runner of epoch e has one native turn open at a time.
Alternates(q, e, n) ==
    \A p \in 0 .. Len(q) :
        /\ Level(q, e, n, p) \in {0, 1}
        /\ p > 0 /\ q[p] \in JoinsOf(e) => Level(q, e, n, p) = 1

\* It has echoed the first of the messages ms, in their order.
Echoed(q, e, ms) ==
    \A p \in 1 .. Len(q) :
        q[p] \in EchoesOf(e) =>
            /\ Seen(q, p, EchoesOf(e)) <= Len(ms)
            /\ ms[Seen(q, p, EchoesOf(e))].text = q[p].text

\* What is posted last changes the level only after it.
LEMMA LevelAppend ==
    ASSUME NEW q \in Seq(Heard), NEW h \in Heard, NEW e, NEW n \in Nat
    PROVE  /\ \A p \in 0 .. Len(q) : Level(Append(q, h), e, n, p) = Level(q, e, n, p)
           /\ Level(Append(q, h), e, n, Len(q) + 1)
                  = Level(q, e, n, Len(q)) + (IF h \in StartsOf(e) THEN 1 ELSE 0)
                    - (IF h \in EndsOf(e) THEN 1 ELSE 0)
           /\ Level(q, e, n, Len(q)) \in Int
           /\ Len(Append(q, h)) = Len(q) + 1
  <1>1. Len(q) \in Nat /\ Len(Append(q, h)) = Len(q) + 1
    OBVIOUS
  <1>2. /\ Count(Append(q, h), StartsOf(e))
              = Count(q, StartsOf(e)) + (IF h \in StartsOf(e) THEN 1 ELSE 0)
        /\ \A p \in 0 .. Len(q) : Seen(Append(q, h), p, StartsOf(e)) = Seen(q, p, StartsOf(e))
    BY CountAppend
  <1>3. /\ Count(Append(q, h), EndsOf(e))
              = Count(q, EndsOf(e)) + (IF h \in EndsOf(e) THEN 1 ELSE 0)
        /\ \A p \in 0 .. Len(q) : Seen(Append(q, h), p, EndsOf(e)) = Seen(q, p, EndsOf(e))
    BY CountAppend
  <1>4. Seen(q, Len(q), StartsOf(e)) \in Nat /\ Seen(q, Len(q), EndsOf(e)) \in Nat
    BY <1>1, SeenType
  <1> QED BY <1>1, <1>2, <1>3, <1>4 DEF Level, Count

\* One more event is posted.
LEMMA AlternatesAppend ==
    ASSUME NEW q \in Seq(Heard), NEW h \in Heard, NEW e, NEW n \in Nat, Alternates(q, e, n),
           Level(Append(q, h), e, n, Len(q) + 1) \in {0, 1},
           h \in JoinsOf(e) => Level(Append(q, h), e, n, Len(q) + 1) = 1
    PROVE  Alternates(Append(q, h), e, n)
  <1>1. /\ Len(q) \in Nat /\ \A i \in 1 .. Len(q) : Append(q, h)[i] = q[i]
        /\ Append(q, h)[Len(q) + 1] = h
    OBVIOUS
  <1> DEFINE r == Append(q, h)
  <1>2. /\ \A p \in 0 .. Len(q) : Level(r, e, n, p) = Level(q, e, n, p)
        /\ Len(r) = Len(q) + 1
    BY LevelAppend
  <1>3. /\ \A i \in 1 .. Len(q) : r[i] = q[i]
        /\ r[Len(q) + 1] = h
        /\ Level(r, e, n, Len(q) + 1) \in {0, 1}
        /\ h \in JoinsOf(e) => Level(r, e, n, Len(q) + 1) = 1
    BY <1>1
  <1> HIDE DEF r
  <1>4. ASSUME NEW p \in 0 .. Len(r)
        PROVE  /\ Level(r, e, n, p) \in {0, 1}
               /\ p > 0 /\ r[p] \in JoinsOf(e) => Level(r, e, n, p) = 1
    <2>1. CASE p = Len(q) + 1
      BY <1>3, <2>1
    <2>2. CASE p # Len(q) + 1
      <3>1. p \in 0 .. Len(q) /\ (p > 0 => p \in 1 .. Len(q))
        BY <1>1, <1>2, <2>2
      <3> QED BY <1>2, <1>3, <3>1 DEF Alternates
    <2> QED BY <2>1, <2>2
  <1> QED BY <1>4 DEF Alternates, r

\* The first event is heard.
LEMMA AlternatesTail ==
    ASSUME NEW q \in Seq(Heard), q # << >>, NEW e, NEW n \in Nat, NEW m \in Nat,
           Alternates(q, e, n),
           m = n + (IF Head(q) \in StartsOf(e) THEN 1 ELSE 0)
                 - (IF Head(q) \in EndsOf(e) THEN 1 ELSE 0)
    PROVE  /\ Alternates(Tail(q), e, m)
           /\ Level(Tail(q), e, m, Len(Tail(q))) = Level(q, e, n, Len(q))
  <1> DEFINE t == Tail(q)
  <1>1. /\ Len(q) \in Nat \ {0} /\ Len(t) = Len(q) - 1
        /\ \A i \in 1 .. Len(q) - 1 : t[i] = q[i + 1]
    BY HeadTailProperties, EmptySeq
  <1>2. ASSUME NEW p \in 0 .. Len(q) - 1
        PROVE  Level(t, e, m, p) = Level(q, e, n, p + 1)
    <2>1. /\ Seen(q, p + 1, StartsOf(e))
               = Seen(t, p, StartsOf(e)) + (IF Head(q) \in StartsOf(e) THEN 1 ELSE 0)
          /\ Seen(q, p + 1, EndsOf(e))
               = Seen(t, p, EndsOf(e)) + (IF Head(q) \in EndsOf(e) THEN 1 ELSE 0)
      BY SeenTail
    <2>2. p \in Nat
      BY <1>1
    <2> HIDE DEF t
    <2>3. Seen(t, p, StartsOf(e)) \in Nat /\ Seen(t, p, EndsOf(e)) \in Nat
      BY <2>2, SeenType
    <2>4. /\ Level(t, e, m, p) = m + Seen(t, p, StartsOf(e)) - Seen(t, p, EndsOf(e))
          /\ Level(q, e, n, p + 1) = n + Seen(q, p + 1, StartsOf(e)) - Seen(q, p + 1, EndsOf(e))
      BY DEF Level
    <2> DEFINE a == IF Head(q) \in StartsOf(e) THEN 1 ELSE 0
               b == IF Head(q) \in EndsOf(e) THEN 1 ELSE 0
    <2>5. /\ a \in Int /\ b \in Int /\ m = n + a - b
          /\ Seen(q, p + 1, StartsOf(e)) = Seen(t, p, StartsOf(e)) + a
          /\ Seen(q, p + 1, EndsOf(e)) = Seen(t, p, EndsOf(e)) + b
      BY <2>1
    <2> HIDE DEF a, b
    <2> DEFINE x == Seen(t, p, StartsOf(e))
               y == Seen(t, p, EndsOf(e))
               u == Seen(q, p + 1, StartsOf(e))
               v == Seen(q, p + 1, EndsOf(e))
    <2>6. /\ x \in Int /\ y \in Int /\ u = x + a /\ v = y + b
          /\ Level(t, e, m, p) = m + x - y
          /\ Level(q, e, n, p + 1) = n + u - v
      BY <2>3, <2>4, <2>5
    <2> HIDE DEF x, y, u, v
    <2>7. m + x - y = n + u - v
      BY <2>5, <2>6
    <2> QED BY <2>6, <2>7
  <1> HIDE DEF t
  <1>3. ASSUME NEW p \in 0 .. Len(t)
        PROVE  /\ Level(t, e, m, p) \in {0, 1}
               /\ p > 0 /\ t[p] \in JoinsOf(e) => Level(t, e, m, p) = 1
    <2>1. /\ p \in 0 .. Len(q) - 1 /\ p + 1 \in 0 .. Len(q) /\ p + 1 > 0
          /\ p > 0 => t[p] = q[p + 1]
      BY <1>1
    <2> QED BY <1>2, <2>1 DEF Alternates
  <1>4. Level(t, e, m, Len(t)) = Level(q, e, n, Len(q))
    BY <1>1, <1>2
  <1> QED BY <1>3, <1>4 DEF Alternates, t

\* What the first event says of the turn that is running.
LEMMA AlternatesHead ==
    ASSUME NEW q \in Seq(Heard), q # << >>, NEW e, NEW n \in {0, 1}, Alternates(q, e, n)
    PROVE  /\ Head(q) \in StartsOf(e) => n = 0
           /\ Head(q) \in EndsOf(e) \cup JoinsOf(e) => n = 1
  <1>1. /\ Len(q) \in Nat \ {0} /\ Head(q) = q[1]
    BY HeadTailProperties, EmptySeq
  <1>2. /\ Seen(q, 0, StartsOf(e)) = 0 /\ Seen(q, 0, EndsOf(e)) = 0
    BY SeenType
  <1>3. /\ Seen(q, 0 + 1, StartsOf(e)) = Seen(q, 0, StartsOf(e)) + (IF q[0 + 1] \in StartsOf(e) THEN 1 ELSE 0)
        /\ Seen(q, 0 + 1, EndsOf(e)) = Seen(q, 0, EndsOf(e)) + (IF q[0 + 1] \in EndsOf(e) THEN 1 ELSE 0)
    BY SeenNext
  <1>4. Level(q, e, n, 1) = n + (IF q[1] \in StartsOf(e) THEN 1 ELSE 0)
                              - (IF q[1] \in EndsOf(e) THEN 1 ELSE 0)
    BY <1>2, <1>3 DEF Level
  <1>5. Level(q, e, n, 1) \in {0, 1} /\ (q[1] \in JoinsOf(e) => Level(q, e, n, 1) = 1)
    BY <1>1 DEF Alternates
  <1>6. /\ q[1] \in StartsOf(e) => q[1] \notin EndsOf(e)
        /\ q[1] \in JoinsOf(e) => q[1] \notin EndsOf(e) /\ q[1] \notin StartsOf(e)
    BY DEF StartsOf, EndsOf, JoinsOf, EchoesOf
  <1> QED BY <1>1, <1>4, <1>5, <1>6

\* An echo is posted, of the next message.
LEMMA EchoedAppend ==
    ASSUME NEW q \in Seq(Heard), NEW h \in Heard, NEW e, NEW ms, Echoed(q, e, ms),
           h \in EchoesOf(e) => /\ Count(q, EchoesOf(e)) + 1 <= Len(ms)
                                /\ ms[Count(q, EchoesOf(e)) + 1].text = h.text
    PROVE  Echoed(Append(q, h), e, ms)
  <1> DEFINE r == Append(q, h)
             S == EchoesOf(e)
  <1>1. /\ Len(q) \in Nat /\ \A i \in 1 .. Len(q) : r[i] = q[i]
        /\ r[Len(q) + 1] = h /\ Len(r) = Len(q) + 1
    OBVIOUS
  <1>2. /\ Count(r, S) = Count(q, S) + (IF h \in S THEN 1 ELSE 0)
        /\ \A p \in 0 .. Len(q) : Seen(r, p, S) = Seen(q, p, S)
    BY CountAppend
  <1> HIDE DEF r, S
  <1>3. ASSUME NEW p \in 1 .. Len(r), r[p] \in S
        PROVE  Seen(r, p, S) <= Len(ms) /\ ms[Seen(r, p, S)].text = r[p].text
    <2>1. CASE p = Len(q) + 1
      <3>1. Seen(r, p, S) = Count(q, S) + 1
        BY <1>1, <1>2, <1>3, <2>1 DEF Count
      <3> QED BY <1>1, <1>3, <2>1, <3>1 DEF S
    <2>2. CASE p # Len(q) + 1
      <3>1. p \in 1 .. Len(q) /\ p \in 0 .. Len(q)
        BY <1>1, <2>2
      <3> QED BY <1>1, <1>2, <1>3, <3>1 DEF Echoed, S
    <2> QED BY <2>1, <2>2
  <1> QED BY <1>3 DEF Echoed, r, S

\* Another message is written to the runner.
LEMMA EchoedMore ==
    ASSUME NEW q \in Seq(Heard), NEW e, NEW ms \in Seq(Message), NEW m \in Message,
           Echoed(q, e, ms)
    PROVE  Echoed(q, e, Append(ms, m))
  <1> DEFINE S == EchoesOf(e)
  <1>1. /\ Len(ms) \in Nat /\ Len(Append(ms, m)) = Len(ms) + 1
        /\ \A i \in 1 .. Len(ms) : Append(ms, m)[i] = ms[i]
    OBVIOUS
  <1>2. ASSUME NEW p \in 1 .. Len(q), q[p] \in S
        PROVE  /\ Seen(q, p, S) <= Len(Append(ms, m))
               /\ Append(ms, m)[Seen(q, p, S)].text = q[p].text
    <2>1. Seen(q, p, S) \in Nat /\ Seen(q, p, S) > 0
      <3>1. p \in Nat /\ p - 1 \in Nat /\ (p - 1) + 1 = p /\ Len(q) \in Nat
        OBVIOUS
      <3>2. Seen(q, p - 1, S) \in Nat
        BY <3>1, SeenType
      <3>3. Seen(q, (p - 1) + 1, S) = Seen(q, p - 1, S) + (IF q[(p - 1) + 1] \in S THEN 1 ELSE 0)
        BY <3>1, SeenNext
      <3> HIDE DEF S
      <3> QED BY <1>2, <3>1, <3>2, <3>3
    <2>2. Seen(q, p, S) <= Len(ms) /\ ms[Seen(q, p, S)].text = q[p].text
      BY <1>2 DEF Echoed
    <2>3. Seen(q, p, S) \in 1 .. Len(ms)
      BY <1>1, <2>1, <2>2
    <2> HIDE DEF S
    <2> QED BY <1>1, <2>2, <2>3
  <1> QED BY <1>2 DEF Echoed

\* An event is heard: an echo is that of the oldest message.
LEMMA EchoedTail ==
    ASSUME NEW q \in Seq(Heard), q # << >>, NEW e, NEW ms \in Seq(Message),
           Echoed(q, e, ms)
    PROVE  /\ Head(q) \notin EchoesOf(e) => Echoed(Tail(q), e, ms)
           /\ Head(q) \in EchoesOf(e) =>
                  /\ ms # << >> /\ Head(ms).text = Head(q).text
                  /\ Echoed(Tail(q), e, Tail(ms))
  <1> DEFINE t == Tail(q)
             S == EchoesOf(e)
             one == IF Head(q) \in S THEN 1 ELSE 0
  <1>1. /\ Len(q) \in Nat \ {0} /\ Len(t) = Len(q) - 1 /\ Head(q) = q[1]
        /\ \A i \in 1 .. Len(q) - 1 : t[i] = q[i + 1]
    BY HeadTailProperties, EmptySeq
  <1>2. ASSUME NEW p \in 1 .. Len(q) - 1, t[p] \in S
        PROVE  /\ Seen(q, p + 1, S) = Seen(t, p, S) + one
               /\ Seen(t, p, S) \in Nat /\ Seen(t, p, S) > 0
               /\ Seen(q, p + 1, S) <= Len(ms)
               /\ ms[Seen(q, p + 1, S)].text = t[p].text
    <2>1. Seen(q, p + 1, S) = Seen(t, p, S) + one
      BY SeenTail
    <2>2. p \in Nat /\ p - 1 \in Nat /\ (p - 1) + 1 = p /\ p + 1 \in 1 .. Len(q)
      BY <1>1
    <2> HIDE DEF t, S, one
    <2>3. Seen(t, p - 1, S) \in Nat /\ Seen(t, p, S) \in Nat
      BY <2>2, SeenType
    <2>4. Seen(t, (p - 1) + 1, S) = Seen(t, p - 1, S) + (IF t[(p - 1) + 1] \in S THEN 1 ELSE 0)
      BY <2>2, SeenNext
    <2>5. q[p + 1] = t[p]
      BY <1>1
    <2>6. /\ Seen(q, p + 1, S) <= Len(ms) /\ ms[Seen(q, p + 1, S)].text = t[p].text
      BY <1>2, <2>2, <2>5 DEF Echoed, S
    <2>7. Seen(t, p, S) > 0
      BY <1>2, <2>2, <2>3, <2>4
    <2> QED BY <2>1, <2>3, <2>6, <2>7
  <1>3. CASE Head(q) \notin S
    <2>1. ASSUME NEW p \in 1 .. Len(t), t[p] \in S
          PROVE  Seen(t, p, S) <= Len(ms) /\ ms[Seen(t, p, S)].text = t[p].text
      <3>1. p \in 1 .. Len(q) - 1
        BY <1>1
      <3>2. one = 0
        BY <1>3
      <3> HIDE DEF t, S, one
      <3> QED BY <1>2, <2>1, <3>1, <3>2
    <2> QED BY <1>3, <2>1 DEF Echoed
  <1>4. CASE Head(q) \in S
    <2>1. 0 \in Nat /\ 0 + 1 = 1
      OBVIOUS
    <2>2. 1 \in 1 .. Len(q) /\ q[1] \in S
      BY <1>1, <1>4
    <2>3. Seen(q, 1, S) = 1
      <3> HIDE DEF S
      <3>1. Seen(q, 0, S) = 0
        BY <2>1, SeenType
      <3>2. Seen(q, 0 + 1, S) = Seen(q, 0, S) + (IF q[0 + 1] \in S THEN 1 ELSE 0)
        BY <2>1, SeenNext
      <3> QED BY <2>1, <2>2, <3>1, <3>2
    <2>4. 1 <= Len(ms) /\ ms[1].text = q[1].text
      BY <2>2, <2>3 DEF Echoed
    <2>5. /\ ms # << >> /\ Head(ms) = ms[1] /\ Len(Tail(ms)) = Len(ms) - 1 /\ Len(ms) \in Nat
          /\ \A i \in 1 .. Len(ms) - 1 : Tail(ms)[i] = ms[i + 1]
      BY <2>4, HeadTailProperties, EmptySeq
    <2>6. ASSUME NEW p \in 1 .. Len(t), t[p] \in S
          PROVE  Seen(t, p, S) <= Len(Tail(ms)) /\ Tail(ms)[Seen(t, p, S)].text = t[p].text
      <3>1. p \in 1 .. Len(q) - 1
        BY <1>1
      <3>2. one = 1
        BY <1>4
      <3> DEFINE k == Seen(t, p, S)
      <3>3. /\ Seen(q, p + 1, S) = k + 1 /\ k \in Nat /\ k > 0 /\ k + 1 <= Len(ms)
            /\ ms[Seen(q, p + 1, S)].text = t[p].text
        <4> HIDE DEF t, S, one
        <4> QED BY <1>2, <2>6, <3>1, <3>2
      <3> HIDE DEF k
      <3>4. k \in 1 .. Len(ms) - 1 /\ ms[k + 1].text = t[p].text
        BY <2>5, <3>3
      <3>5. k <= Len(Tail(ms)) /\ Tail(ms)[k].text = t[p].text
        <4> HIDE DEF t
        <4> QED BY <2>5, <3>4
      <3> QED BY <3>5 DEF k
    <2>7. Echoed(t, e, Tail(ms))
      BY <2>6 DEF Echoed
    <2> QED BY <1>1, <1>4, <2>4, <2>5, <2>7
  <1> QED BY <1>3, <1>4

\* The runner of epoch e has posted nothing, or nothing but its last words.
LEMMA NothingPosted ==
    ASSUME NEW q \in Seq(Heard), NEW e, NEW n \in {0, 1}, NEW ms,
           \A i \in DOMAIN q : q[i].epoch # e
    PROVE  /\ Alternates(q, e, n) /\ Echoed(q, e, ms) /\ Level(q, e, n, Len(q)) = n
           /\ Count(q, EndsOf(e)) = 0 /\ Count(q, EchoesOf(e)) = 0
  <1>1. \A i \in 1 .. Len(q) : /\ q[i] \notin EchoesOf(e) /\ q[i] \notin EndsOf(e)
                               /\ q[i] \notin StartsOf(e) /\ q[i] \notin JoinsOf(e)
    BY DEF EndsOf, EchoesOf, StartsOf, JoinsOf
  <1>2. ASSUME NEW p \in 0 .. Len(q)
        PROVE  Level(q, e, n, p) = n
    <2>1. /\ {i \in 1 .. p : q[i] \in StartsOf(e)} = {}
          /\ {i \in 1 .. p : q[i] \in EndsOf(e)} = {}
      BY <1>1
    <2>2. Seen(q, p, StartsOf(e)) = 0 /\ Seen(q, p, EndsOf(e)) = 0
      BY <2>1, FS_EmptySet DEF Seen
    <2> QED BY <2>2 DEF Level
  <1>3. Alternates(q, e, n)
    BY <1>1, <1>2 DEF Alternates
  <1>4. Echoed(q, e, ms)
    BY <1>1 DEF Echoed
  <1>5. Count(q, EndsOf(e)) = 0 /\ Count(q, EchoesOf(e)) = 0
    BY <1>1, CountNone
  <1>6. Len(q) \in 0 .. Len(q)
    OBVIOUS
  <1> QED BY <1>2, <1>3, <1>4, <1>5, <1>6

-----------------------------------------------------------------------------
(* What the log says of a turn. *)

Starting(t) == {r \in Record : r.turn = t /\ (r.type = "START" \/ r.why = "next_turn")}
Ending(t) == {r \in Record : r.turn = t /\ r.type = "END" /\ ~r.late}

\* How many native turns of turn t were started and have not ended.
Balance(l, t) == Count(l, Starting(t)) - Count(l, Ending(t))

\* A step adds d native turns to turn u of the log.
Adds(u, d) == \A t \in Int : Balance(log', t) = Balance(log, t) + (IF t = u THEN d ELSE 0)

\* A turn's balance is an integer.
LEMMA BalanceType ==
    ASSUME TypeOK, NEW t
    PROVE  Balance(log, t) \in Int
  <1>1. Len(log) \in Nat
    BY DEF TypeOK, DiskOK
  <1>2. Count(log, Starting(t)) \in Nat /\ Count(log, Ending(t)) \in Nat
    BY <1>1, SeenType DEF Count
  <1> QED BY <1>2 DEF Balance

\* What a record adds to its turn.
Weight(r) == (IF r.type = "START" \/ r.why = "next_turn" THEN 1 ELSE 0)
             - (IF r.type = "END" /\ ~r.late THEN 1 ELSE 0)

\* A record adds its weight to its own turn and nothing to another.
LEMMA BalanceAppend ==
    ASSUME TypeOK, NEW r \in Record, log' = Append(log, r)
    PROVE  Adds(r.turn, Weight(r))
  <1> SUFFICES ASSUME NEW t \in Int
               PROVE  Balance(log', t) = Balance(log, t) + (IF t = r.turn THEN Weight(r) ELSE 0)
    BY DEF Adds
  <1>1. /\ Count(log', Starting(t)) = Count(log, Starting(t)) + (IF r \in Starting(t) THEN 1 ELSE 0)
        /\ Count(log', Ending(t)) = Count(log, Ending(t)) + (IF r \in Ending(t) THEN 1 ELSE 0)
    BY CountAppend DEF TypeOK, DiskOK
  <1>2. Len(log) \in Nat
    BY DEF TypeOK, DiskOK
  <1>3. Count(log, Starting(t)) \in Nat /\ Count(log, Ending(t)) \in Nat
    BY <1>2, SeenType DEF Count
  <1> DEFINE a == IF r \in Starting(t) THEN 1 ELSE 0
             b == IF r \in Ending(t) THEN 1 ELSE 0
             x == Count(log, Starting(t))
             y == Count(log, Ending(t))
             u == Count(log', Starting(t))
             v == Count(log', Ending(t))
  <1>4. a - b = IF t = r.turn THEN Weight(r) ELSE 0
    BY DEF Starting, Ending, Record, Weight
  <1>5. a \in Int /\ b \in Int /\ x \in Int /\ y \in Int /\ u = x + a /\ v = y + b
    BY <1>1, <1>3
  <1>6. Balance(log', t) = u - v /\ Balance(log, t) = x - y
    BY DEF Balance
  <1> HIDE DEF a, b, x, y, u, v
  <1>7. u - v = x - y + (a - b)
    BY <1>5
  <1> QED BY <1>4, <1>6, <1>7

\* Errors, texts and what stragglers report count for nothing.
LEMMA NothingAdded ==
    ASSUME TypeOK, NEW r \in Record, log' \in {log, Append(log, r)}, r.why # "next_turn",
           r.type # "START", r.type = "END" => r.late
    PROVE  \A t \in Int : Balance(log', t) = Balance(log, t)
  <1>0. \A t \in Int : Balance(log, t) \in Int
    BY BalanceType
  <1>1. CASE log' = log
    BY <1>1
  <1>2. CASE log' = Append(log, r)
    <2>1. Adds(r.turn, Weight(r))
      BY <1>2, BalanceAppend
    <2>2. Weight(r) = 0
      BY DEF Weight
    <2> QED BY <1>0, <2>1, <2>2 DEF Adds
  <1> QED BY <1>1, <1>2

-----------------------------------------------------------------------------
(* The conductor's account of the turns.                                   *)

\* Is a turn of the log running?  One is from its opening event on.
Running == IF turnRecorded \/ pc \in {"complete", "confirmed"} THEN 1 ELSE 0

\* What the conductor's epochs, turns and places have to do with each other.
Clock ==
    /\ runnerEpoch # 0 => epochTurns[runnerEpoch] = turn
    /\ runnerEpoch < nextEpoch
    /\ \A i \in DOMAIN inbox : inbox[i].epoch < nextEpoch
    /\ stopping => runner = "none" /\ pc \in {"drain", "confirmed"}
    /\ pc = "drain" => stopping
    /\ runner = "none" /\ ~stopping => runnerEpoch = 0
    /\ runner = "none" => piped = << >>
    /\ turnRecorded => inTurn
    /\ pc = "finish" => ~inTurn
    /\ goal # "finish"
    /\ pc = "down" => ~inTurn /\ nextTurns = 0 /\ runner = "none"

\* Between turns no native turn is left to be waited for.
Settled ==
    (~inTurn /\ pc \notin {"finish", "close"}) \/ pc = "closeEnd" => nextTurns = 0

\* A runner that does not echo, or none at all: every native turn that it has
\* open, and every END of it that was not heard yet, is one that the log knows.
Plain ==
    /\ \A i \in DOMAIN inbox : inbox[i] \notin EchoesOf(runnerEpoch)
    /\ awaiting = << >> /\ piped = << >> /\ pc # "confirmed"
    /\ pc # "closeEnd" => inTurn = turnRecorded
    /\ ~stopping => open + Count(inbox, EndsOf(runnerEpoch)) <= Running + nextTurns
    /\ stopping => Count(inbox, EndsOf(runnerEpoch)) <= Balance(log, turn)

\* A runner that echoes: what it echoed and has yet to echo is what waits to be
\* confirmed, and it opens and ends its turns by turns.
Waiting == IF pc = "confirmed" THEN Tail(awaiting) ELSE awaiting
InStep ==
    /\ Len(Waiting) = Count(inbox, EchoesOf(runnerEpoch)) + Len(piped)
    /\ \A j \in 1 .. Len(piped) :
           Waiting[Count(inbox, EchoesOf(runnerEpoch)) + j].text = piped[j]
Echoing ==
    /\ nextTurns = 0 /\ pc # "complete"
    /\ Alternates(inbox, runnerEpoch, Running)
    /\ Echoed(inbox, runnerEpoch, Waiting)
    /\ ~stopping => /\ Level(inbox, runnerEpoch, Running, Len(inbox)) = open
                    /\ InStep

Sides ==
    /\ runner # "none" /\ Delivery[runner] = "echoed" => Echoing
    /\ runner # "none" /\ Delivery[runner] # "echoed" => Plain
    /\ runner = "none" => Plain \/ (stopping /\ Echoing)

\* No turn ends more often than it starts, and those that are to end once more
\* have started once more.
Balanced ==
    /\ \A t \in Int : Balance(log, t) >= 0
    /\ pc # "down" => Balance(log, turn) >= Running + nextTurns

Accounts == Clock /\ Settled /\ Sides /\ Balanced

\* A new runner takes over from one that has nothing left to report, or of which
\* nothing is recorded twice.
Ready == pc = "attempt" => awaiting = << >> /\ (NoEcho \/ ~inTurn)

\* The places between two steps of which none counts a turn.
Calm == {"reconcile", "recv", "ack", "attempt", "blocked", "flush", "deliver", "auth",
         "failed", "drain"}

\* Steps that neither count a turn nor look at one.
LEMMA AccountsStay ==
    ASSUME TypeOK, Accounts,
           UNCHANGED <<inbox, open, piped, awaiting, runner, runnerEpoch, nextEpoch,
                       inTurn, turnRecorded, nextTurns, stopping, turn>>,
           \A t \in Int : Balance(log', t) = Balance(log, t),
           runnerEpoch # 0 => epochTurns'[runnerEpoch] = turn,
           pc \in Calm, pc' \in Calm \cup {"close"}, goal' # "finish",
           pc' = pc \/ (~stopping /\ pc' # "drain")
    PROVE  Accounts'
  <1>0. Clock /\ Settled /\ Sides /\ Balanced
    BY DEF Accounts
  <1>1. Clock'
    BY <1>0 DEF Clock, Calm
  <1>2. Settled'
    BY <1>0 DEF Settled, Calm
  <1>3. Running' = Running /\ Waiting' = Waiting
    BY DEF Running, Waiting, Calm
  <1>4. turn \in Int /\ pc # "down"
    BY DEF TypeOK, TurnOK, Calm
  <1>5. Balanced'
    BY <1>0, <1>3, <1>4 DEF Balanced
  <1>6. Plain => Plain'
    BY <1>3, <1>4 DEF Plain, Calm
  <1>7. Echoing => Echoing'
    BY <1>3 DEF Echoing, InStep, Calm
  <1>8. Sides'
    BY <1>0, <1>6, <1>7 DEF Sides
  <1> QED BY <1>1, <1>2, <1>5, <1>8 DEF Accounts

\* Most steps are of that kind.
LEMMA QuietAccounts ==
    ASSUME TypeOK, Shape, Unrecovered, Accounts,
           \/ LaunchOnce \/ Acknowledge \/ AttemptKept \/ AttemptRetune \/ AttemptNoRung
           \/ Blocked \/ Flush \/ DeliverDone \/ Unauthenticated \/ Failed
           \/ \E k \in Kinds : Refused(k)
           \/ \E S \in SUBSET Providers : SetProviders(S)
           \/ SetAutoremove \/ SetOther \/ \E w \in Words : Send(w)
           \/ ReconcileDrop \/ ReconcileCommit
    PROVE  Accounts'
  <1>0. /\ ~Recovering /\ Clock
        /\ runnerEpoch # 0 => runnerEpoch \in 1 .. MaxEpochs
        /\ epochTurns \in [1 .. MaxEpochs -> Int]
    BY DEF Unrecovered, NoRecovery, Recovering, Accounts, TypeOK, RunnerOK
  <1>1. UNCHANGED <<inbox, open, piped, awaiting, runner, runnerEpoch, nextEpoch, inTurn,
                    turnRecorded, nextTurns, stopping, turn>>
    BY DEF LaunchOnce, Acknowledge, AttemptKept, AttemptRetune, AttemptNoRung, Blocked, Flush,
           DeliverDone, Unauthenticated, Failed, Refused, SetProviders, SetAutoremove,
           SetOther, Send, ReconcileDrop, ReconcileCommit
  <1>2. runnerEpoch # 0 => epochTurns'[runnerEpoch] = turn
    <2>1. CASE AttemptKept
      BY <1>0, <2>1 DEF AttemptKept
    <2>2. CASE ~AttemptKept
      <3>1. epochTurns' = epochTurns
        BY <2>2 DEF LaunchOnce, Acknowledge, AttemptRetune, AttemptNoRung, Blocked, Flush,
           DeliverDone, Unauthenticated, Failed, Refused, SetProviders, SetAutoremove,
           SetOther, Send, ReconcileDrop, ReconcileCommit
      <3> QED BY <1>0, <3>1 DEF Clock
    <2> QED BY <2>1, <2>2
  <1>3. \A t \in Int : Balance(log', t) = Balance(log, t)
    <2>1. CASE Blocked
      <3> DEFINE r == Rec("ERROR", 0, turn, FALSE, "crash")
      <3>1. r \in Record /\ r.type = "ERROR" /\ r.why = "crash"
        BY LoggedError, RecordMade DEF Rec, Kinds, TypeOK, TurnOK
      <3>2. log' = Append(log, r)
        BY <2>1 DEF Blocked
      <3> HIDE DEF r
      <3> QED BY <3>1, <3>2, NothingAdded
    <2>2. CASE \E k \in Kinds : Refused(k)
      <3>1. PICK k \in Kinds : Refused(k)
        BY <2>2
      <3> DEFINE r == Rec("ERROR", 0, turn, FALSE, k)
      <3>2. r \in Record /\ r.type = "ERROR" /\ r.why = k
        BY RecordMade DEF Rec, TypeOK, TurnOK
      <3>3. log' \in {log, Append(log, r)} /\ k # "next_turn"
        BY <3>1 DEF Refused, Kinds
      <3> HIDE DEF r
      <3> QED BY <3>2, <3>3, NothingAdded
    <2>3. CASE ~Blocked /\ ~\E k \in Kinds : Refused(k)
      <3>1. log' = log
        BY <2>3 DEF LaunchOnce, Acknowledge, AttemptKept, AttemptRetune, AttemptNoRung, Flush,
           DeliverDone, Unauthenticated, Failed, SetProviders, SetAutoremove,
           SetOther, Send, ReconcileDrop, ReconcileCommit
      <3> QED BY <3>1
    <2> QED BY <2>1, <2>2, <2>3
  <1>4. pc \in Calm /\ (pc = "drain" => FALSE)
    BY DEF LaunchOnce, Acknowledge, AttemptKept, AttemptRetune, AttemptNoRung, Blocked, Flush,
           DeliverDone, Unauthenticated, Failed, Refused, Refusal, Delivering, SetProviders,
           SetAutoremove, SetOther, Send, ReconcileDrop, ReconcileCommit, Receiving, Calm
  <1>5. ~stopping
    BY <1>0, <1>4 DEF Clock, Calm
  <1>6. pc' \in (Calm \ {"drain"}) \cup {"close"} /\ goal' # "finish"
    <2>1. CASE \/ LaunchOnce \/ Acknowledge \/ AttemptNoRung \/ Blocked \/ Flush
               \/ DeliverDone \/ Unauthenticated \/ Failed
      BY <1>0, <1>5, <2>1
         DEF LaunchOnce, Acknowledge, AttemptNoRung, Blocked, Flush, DeliverDone,
             Unauthenticated, Failed, GoTo, Back, MoveOn, Dispatch, DispatchPc, Calm
    <2>2. CASE AttemptKept \/ AttemptRetune
      BY <1>0, <2>2 DEF AttemptKept, AttemptRetune, Shape, Clock, Calm
    <2>3. CASE \E k \in Kinds : Refused(k)
      BY <2>3 DEF Refused, Closing, Calm
    <2>4. CASE \/ \E S \in SUBSET Providers : SetProviders(S)
               \/ SetAutoremove \/ SetOther \/ \E w \in Words : Send(w)
               \/ ReconcileDrop \/ ReconcileCommit
      BY <1>0, <2>4 DEF SetProviders, SetAutoremove, SetOther, Send, ReconcileDrop,
                        ReconcileCommit, Receiving, Clock, Calm
    <2> QED BY <2>1, <2>2, <2>3, <2>4
  <1> QED BY <1>1, <1>2, <1>3, <1>4, <1>5, <1>6, AccountsStay

\* The parts of Plain and Echoing that are about what was posted and is open.
PlainBox(q, o) ==
    /\ \A i \in DOMAIN q : q[i] \notin EchoesOf(runnerEpoch)
    /\ o + Count(q, EndsOf(runnerEpoch)) <= Running + nextTurns
EchoBox(q, o) ==
    /\ Alternates(q, runnerEpoch, Running) /\ Echoed(q, runnerEpoch, awaiting)
    /\ Level(q, runnerEpoch, Running, Len(q)) = o
    /\ Len(awaiting) = Count(q, EchoesOf(runnerEpoch)) + Len(piped)
    /\ \A j \in 1 .. Len(piped) :
           awaiting[Count(q, EchoesOf(runnerEpoch)) + j].text = piped[j]

\* A count is a natural number.
LEMMA CountType ==
    ASSUME NEW T, NEW q \in Seq(T), NEW S
    PROVE  Count(q, S) \in Nat
  <1>1. Len(q) \in Nat
    OBVIOUS
  <1> QED BY <1>1, SeenType DEF Count

\* A runner that does not echo posts an event: an END is one of a native turn
\* it has open.
LEMMA PlainBoxPost ==
    ASSUME TypeOK, NEW q \in Seq(Heard), NEW o \in Nat, PlainBox(q, o), NEW h \in Heard,
           h.type # "CONFIRM", h.type = "END" => o > 0
    PROVE  PlainBox(Append(q, h), IF h \in EndsOf(runnerEpoch) THEN o - 1 ELSE o)
  <1> DEFINE S == EndsOf(runnerEpoch)
             r == Append(q, h)
  <1>1. Count(r, S) = Count(q, S) + (IF h \in S THEN 1 ELSE 0)
    BY CountAppend
  <1>2. Count(q, S) \in Nat /\ Running \in Nat /\ nextTurns \in Nat
    BY CountType DEF Running, TypeOK, QueuesOK
  <1>3. o + Count(q, S) <= Running + nextTurns
    BY DEF PlainBox
  <1>4. \A i \in DOMAIN r : r[i] \notin EchoesOf(runnerEpoch)
    BY DEF PlainBox, EchoesOf
  <1> HIDE DEF S, r
  <1>5. (IF h \in S THEN o - 1 ELSE o) + Count(r, S) <= Running + nextTurns
    BY <1>1, <1>2, <1>3
  <1> QED BY <1>4, <1>5 DEF PlainBox, S, r

\* A runner that echoes posts something else than an echo: an END is one of the
\* turn it has open.
LEMMA EchoBoxPost ==
    ASSUME TypeOK, NEW q \in Seq(Heard), NEW o \in Nat, EchoBox(q, o), NEW h \in Heard,
           h.type # "CONFIRM", h \in EndsOf(runnerEpoch) => o > 0
    PROVE  EchoBox(Append(q, h), IF h \in EndsOf(runnerEpoch) THEN o - 1 ELSE o)
  <1> DEFINE e == runnerEpoch
             r == Append(q, h)
             o2 == IF h \in EndsOf(e) THEN o - 1 ELSE o
  <1>1. h \notin EchoesOf(e) /\ h \notin StartsOf(e) /\ h \notin JoinsOf(e)
    BY DEF EchoesOf, StartsOf, JoinsOf
  <1>2. Running \in Nat /\ Len(q) \in Nat
    BY DEF Running
  <1>3. /\ Alternates(q, e, Running) /\ Echoed(q, e, awaiting)
        /\ Level(q, e, Running, Len(q)) = o /\ o \in {0, 1}
        /\ h \in EndsOf(e) => o > 0
    <2>1. Len(q) \in 0 .. Len(q)
      BY <1>2
    <2> QED BY <2>1 DEF EchoBox, Alternates
  <1>4. /\ Level(r, e, Running, Len(q) + 1)
              = Level(q, e, Running, Len(q)) + (IF h \in StartsOf(e) THEN 1 ELSE 0)
                    - (IF h \in EndsOf(e) THEN 1 ELSE 0)
        /\ Len(r) = Len(q) + 1
    BY <1>2, LevelAppend
  <1>5. Level(r, e, Running, Len(q) + 1) = o2 /\ o2 \in {0, 1}
    <2> HIDE DEF r, e
    <2> QED BY <1>1, <1>3, <1>4
  <1>6. Alternates(r, e, Running)
    <2> HIDE DEF e
    <2> QED BY <1>1, <1>2, <1>3, <1>5, AlternatesAppend
  <1>7. Echoed(r, e, awaiting)
    <2> HIDE DEF e
    <2> QED BY <1>1, <1>3, EchoedAppend
  <1>8. Count(r, EchoesOf(e)) = Count(q, EchoesOf(e)) + (IF h \in EchoesOf(e) THEN 1 ELSE 0)
    <2> HIDE DEF e
    <2> QED BY CountAppend
  <1>9. Count(r, EchoesOf(e)) = Count(q, EchoesOf(e))
    <2>1. Count(q, EchoesOf(e)) \in Nat
      BY CountType
    <2> HIDE DEF e, r
    <2> QED BY <1>1, <1>8, <2>1
  <1>10. /\ Len(awaiting) = Count(r, EchoesOf(e)) + Len(piped)
         /\ \A j \in 1 .. Len(piped) : awaiting[Count(r, EchoesOf(e)) + j].text = piped[j]
    BY <1>9 DEF EchoBox
  <1>11. Level(r, e, Running, Len(r)) = o2
    BY <1>4, <1>5
  <1> QED BY <1>6, <1>7, <1>10, <1>11 DEF EchoBox

\* Steps of the runner: only its side changes.
LEMMA PostedAccounts ==
    ASSUME TypeOK, Accounts, RunnerOnly, pc \in {"recv", "deliver"}, runner # "none",
           NEW more \in Seq(Heard), inbox' = inbox \o more,
           \A i \in DOMAIN more : more[i].epoch = runnerEpoch,
           piped' = piped,
           PlainBox(inbox, open) => PlainBox(inbox', open'),
           EchoBox(inbox, open) => EchoBox(inbox', open')
    PROVE  Accounts'
  <1>0. Clock /\ Settled /\ Sides /\ Balanced
    BY DEF Accounts
  <1>1. ~stopping /\ runnerEpoch < nextEpoch
    BY <1>0 DEF Clock
  <1>2. UNCHANGED <<log, pc, goal, awaiting, runner, runnerEpoch, nextEpoch, epochTurns, inTurn,
                    turnRecorded, nextTurns, stopping, turn>>
    BY DEF RunnerOnly
  <1>3. Running' = Running /\ Waiting' = awaiting /\ Waiting = awaiting
    BY <1>2 DEF Running, Waiting
  <1>4. \A i \in DOMAIN inbox' : inbox'[i].epoch < nextEpoch
    <2>1. /\ Len(inbox) \in Nat /\ Len(more) \in Nat
          /\ DOMAIN inbox = 1 .. Len(inbox) /\ DOMAIN more = 1 .. Len(more)
          /\ DOMAIN inbox' = 1 .. Len(inbox) + Len(more)
          /\ \A i \in 1 .. Len(inbox) + Len(more) :
                inbox'[i] = IF i <= Len(inbox) THEN inbox[i] ELSE more[i - Len(inbox)]
      BY ConcatProperties DEF TypeOK, NativeOK
    <2>2. ASSUME NEW i \in DOMAIN inbox' PROVE inbox'[i].epoch < nextEpoch
      <3>1. CASE i <= Len(inbox)
        BY <1>0, <2>1, <3>1 DEF Clock
      <3>2. CASE ~(i <= Len(inbox))
        <4>1. i - Len(inbox) \in DOMAIN more /\ inbox'[i] = more[i - Len(inbox)]
          BY <2>1, <3>2
        <4> QED BY <1>1, <4>1
      <3> QED BY <3>1, <3>2
    <2> QED BY <2>2
  <1>5. Clock'
    BY <1>0, <1>1, <1>2, <1>4 DEF Clock
  <1>6. Settled' /\ Balanced'
    BY <1>0, <1>2, <1>3 DEF Settled, Balanced
  <1>7. Plain => Plain'
    <2>1. Plain => PlainBox(inbox, open)
      BY <1>1 DEF Plain, PlainBox
    <2>2. PlainBox(inbox', open') /\ Plain => Plain'
      BY <1>1, <1>2, <1>3 DEF Plain, PlainBox
    <2> QED BY <2>1, <2>2
  <1>8. Echoing => Echoing'
    <2>1. Echoing => EchoBox(inbox, open)
      BY <1>1, <1>3 DEF Echoing, InStep, EchoBox
    <2>2. EchoBox(inbox', open') /\ Echoing => Echoing'
      BY <1>1, <1>2, <1>3 DEF Echoing, InStep, EchoBox
    <2> QED BY <2>1, <2>2
  <1>9. Sides'
    BY <1>0, <1>2, <1>7, <1>8 DEF Sides
  <1> QED BY <1>5, <1>6, <1>9 DEF Accounts

\* Claude echoes a line that was written to it.
LEMMA EchoAccounts ==
    ASSUME TypeOK, Shape, Accounts, Echo
    PROVE  Accounts'
  <1>0. Clock /\ Settled /\ Sides /\ Balanced
    BY DEF Accounts
  <1> DEFINE e == runnerEpoch
             h == Post("CONFIRM", Head(piped), IF open = 0 THEN "START" ELSE "INJECTED")
             r == Append(inbox, h)
             c == Count(inbox, EchoesOf(e))
  <1>1. /\ UNCHANGED <<log, pc, goal, awaiting, runner, runnerEpoch, nextEpoch, epochTurns,
                       inTurn, turnRecorded, nextTurns, stopping, turn>>
        /\ pc \in {"recv", "deliver"} /\ runner # "none" /\ piped # << >>
        /\ inbox' = r /\ piped' = Tail(piped) /\ open' = IF open = 0 THEN 1 ELSE open
    BY DEF Echo, Runs, RunnerOnly
  <1>2. ~stopping /\ runnerEpoch < nextEpoch /\ e \in 1 .. MaxEpochs /\ open \in Nat
    BY <1>0, <1>1 DEF Clock, Shape, TypeOK, NativeOK
  <1>3. /\ Len(piped) \in Nat \ {0} /\ Head(piped) = piped[1] /\ Head(piped) \in Text
        /\ Len(Tail(piped)) = Len(piped) - 1
        /\ \A i \in 1 .. Len(piped) - 1 : Tail(piped)[i] = piped[i + 1]
    BY <1>1, HeadTailProperties, EmptySeq DEF TypeOK, NativeOK
  <1>4. /\ h \in Heard /\ h \in EchoesOf(e) /\ h \notin EndsOf(e) /\ h.epoch = e
        /\ h.text = piped[1]
        /\ open = 0 => h \in StartsOf(e) /\ h \notin JoinsOf(e)
        /\ open # 0 => h \notin StartsOf(e)
    BY <1>2, <1>3 DEF Post, Heard, EchoesOf, EndsOf, StartsOf, JoinsOf, Openings
  <1>5. Echoing
    BY <1>0, <1>1 DEF Sides, Plain
  <1>6. Running' = Running /\ Waiting' = awaiting /\ Waiting = awaiting /\ Running \in Nat
    BY <1>1 DEF Running, Waiting
  <1>7. /\ inbox \in Seq(Heard) /\ Len(inbox) \in Nat /\ Len(inbox) \in 0 .. Len(inbox)
        /\ c \in Nat
    BY CountType DEF TypeOK, NativeOK
  <1>8. open \in {0, 1}
    BY <1>2, <1>5, <1>7 DEF Echoing, Alternates
  <1> HIDE DEF h
  <1>9. /\ Level(r, e, Running, Len(inbox) + 1)
              = Level(inbox, e, Running, Len(inbox)) + (IF h \in StartsOf(e) THEN 1 ELSE 0)
                    - (IF h \in EndsOf(e) THEN 1 ELSE 0)
        /\ Len(r) = Len(inbox) + 1
    BY <1>4, <1>6, <1>7, LevelAppend
  <1>10. Level(r, e, Running, Len(inbox) + 1) = 1
    <2>1. Level(inbox, e, Running, Len(inbox)) = open
      BY <1>2, <1>5 DEF Echoing
    <2> HIDE DEF r, e
    <2> QED BY <1>4, <1>8, <1>9, <2>1
  <1>11. Alternates(r, e, Running)
    <2>1. Alternates(inbox, e, Running)
      BY <1>5 DEF Echoing
    <2> HIDE DEF e
    <2> QED BY <1>4, <1>6, <1>7, <1>10, <2>1, AlternatesAppend
  <1>12. /\ Len(awaiting) = c + Len(piped)
         /\ \A j \in 1 .. Len(piped) : awaiting[c + j].text = piped[j]
    BY <1>2, <1>5, <1>6 DEF Echoing, InStep
  <1>13. Echoed(r, e, awaiting)
    <2>1. Echoed(inbox, e, awaiting)
      BY <1>5, <1>6 DEF Echoing
    <2>2. c + 1 <= Len(awaiting) /\ awaiting[c + 1].text = h.text
      <3> HIDE DEF c
      <3> QED BY <1>3, <1>4, <1>7, <1>12
    <2> HIDE DEF e
    <2> QED BY <1>4, <1>7, <2>1, <2>2, EchoedAppend
  <1>14. Count(r, EchoesOf(e)) = c + 1
    <2>1. Count(r, EchoesOf(e)) = c + (IF h \in EchoesOf(e) THEN 1 ELSE 0)
      <3> HIDE DEF e
      <3> QED BY <1>4, <1>7, CountAppend
    <2> QED BY <1>4, <2>1
  <1>15. /\ Len(awaiting) = c + 1 + Len(Tail(piped))
         /\ \A j \in 1 .. Len(Tail(piped)) : awaiting[c + 1 + j].text = Tail(piped)[j]
    <2> HIDE DEF c
    <2>1. Len(awaiting) = c + 1 + Len(Tail(piped))
      BY <1>3, <1>7, <1>12
    <2>2. ASSUME NEW j \in 1 .. Len(Tail(piped))
          PROVE  awaiting[c + 1 + j].text = Tail(piped)[j]
      <3>1. j + 1 \in 1 .. Len(piped) /\ c + (j + 1) = c + 1 + j /\ Tail(piped)[j] = piped[j + 1]
        BY <1>3, <1>7
      <3> QED BY <1>12, <3>1
    <2> QED BY <2>1, <2>2
  <1>16. Echoing'
    <2>1. Level(r, e, Running, Len(r)) = open'
      BY <1>1, <1>8, <1>9, <1>10
    <2>2. InStep'
      <3> HIDE DEF c
      <3> QED BY <1>1, <1>6, <1>14, <1>15 DEF InStep
    <2> QED BY <1>1, <1>5, <1>6, <1>11, <1>13, <2>1, <2>2 DEF Echoing
  <1>17. Sides'
    BY <1>0, <1>1, <1>5, <1>16 DEF Sides, Plain
  <1>18. Clock'
    <2>1. \A i \in DOMAIN r : r[i].epoch < nextEpoch
      BY <1>0, <1>2, <1>4, <1>7 DEF Clock
    <2> QED BY <1>0, <1>1, <2>1 DEF Clock
  <1> QED BY <1>0, <1>1, <1>6, <1>17, <1>18 DEF Accounts, Settled, Balanced

\* What else a runner does.
LEMMA ProviderAccounts ==
    ASSUME TypeOK, Shape, Accounts, Provider
    PROVE  Accounts'
  <1>0. inbox \in Seq(Heard) /\ open \in Nat /\ (runner # "none" => runnerEpoch \in 1 .. MaxEpochs)
    BY DEF TypeOK, NativeOK, Shape
  <1>1. CASE Echo
    BY <1>1, EchoAccounts
  <1>2. ASSUME RunnerOnly, pc \in {"recv", "deliver"}, runner # "none", piped' = piped,
               NEW h \in Heard, h.epoch = runnerEpoch, h.type # "CONFIRM",
               inbox' = Append(inbox, h), h.type = "END" => open > 0,
               open' = IF h.type = "END" THEN open - 1 ELSE open
        PROVE  Accounts'
    <2>1. inbox' = inbox \o <<h>> /\ <<h>> \in Seq(Heard)
      BY <1>0, <1>2, AppendIsConcat
    <2>2. h \in EndsOf(runnerEpoch) <=> h.type = "END"
      BY <1>2 DEF EndsOf
    <2>3. PlainBox(inbox, open) => PlainBox(inbox', open')
      BY <1>0, <1>2, <2>2, PlainBoxPost
    <2>4. EchoBox(inbox, open) => EchoBox(inbox', open')
      BY <1>0, <1>2, <2>2, EchoBoxPost
    <2>5. \A i \in DOMAIN <<h>> : <<h>>[i].epoch = runnerEpoch
      BY <1>2
    <2> QED BY <1>2, <2>1, <2>3, <2>4, <2>5, PostedAccounts
  <1>3. CASE Speak
    <2> DEFINE h == Post("TEXT", "", "none")
    <2>1. /\ RunnerOnly /\ pc \in {"recv", "deliver"} /\ runner # "none"
          /\ piped' = piped /\ open' = open /\ inbox' = Append(inbox, h)
      BY <1>3 DEF Speak, Runs
    <2>2. h \in Heard /\ h.epoch = runnerEpoch /\ h.type = "TEXT"
      BY <1>0, <2>1 DEF Post, Heard
    <2> HIDE DEF h
    <2> QED BY <1>2, <2>1, <2>2
  <1>4. CASE \E why \in {"none", "status"} : EndTurn(why)
    <2>1. PICK why \in {"none", "status"} : EndTurn(why)
      BY <1>4
    <2> DEFINE h == Post("END", "", why)
    <2>2. /\ RunnerOnly /\ pc \in {"recv", "deliver"} /\ runner # "none" /\ open > 0
          /\ piped' = piped /\ open' = open - 1 /\ inbox' = Append(inbox, h)
      BY <2>1 DEF EndTurn, Runs
    <2>3. h \in Heard /\ h.epoch = runnerEpoch /\ h.type = "END"
      BY <1>0, <2>2 DEF Post, Heard
    <2> HIDE DEF h
    <2> QED BY <1>2, <2>2, <2>3
  <1>5. CASE \E k \in ErrorKinds : FailTurn(k)
    <2>1. PICK k \in ErrorKinds : FailTurn(k)
      BY <1>5
    <2> DEFINE x == Post("ERROR", "", k)
               h == Post("END", "", "none")
    <2>2. /\ RunnerOnly /\ pc \in {"recv", "deliver"} /\ runner # "none" /\ open > 0
          /\ piped' = piped /\ open' = open - 1 /\ inbox' = inbox \o <<x, h>>
      BY <2>1 DEF FailTurn, Runs
    <2>3. /\ x \in Heard /\ x.epoch = runnerEpoch /\ x.type = "ERROR"
          /\ h \in Heard /\ h.epoch = runnerEpoch /\ h.type = "END"
      BY <1>0, <2>2, ConstantsAssumption DEF Post, Heard
    <2> HIDE DEF x, h
    <2> DEFINE q == Append(inbox, x)
    <2>4. inbox' = Append(q, h) /\ q \in Seq(Heard) /\ <<x, h>> \in Seq(Heard)
      BY <1>0, <2>2, <2>3
    <2>5. x \notin EndsOf(runnerEpoch) /\ h \in EndsOf(runnerEpoch)
      BY <2>3 DEF EndsOf
    <2>6. PlainBox(inbox, open) => PlainBox(q, open)
      BY <1>0, <2>3, <2>5, PlainBoxPost
    <2>7. EchoBox(inbox, open) => EchoBox(q, open)
      BY <1>0, <2>3, <2>5, EchoBoxPost
    <2> HIDE DEF q
    <2>8. PlainBox(q, open) => PlainBox(inbox', open')
      BY <1>0, <2>2, <2>3, <2>4, <2>5, PlainBoxPost
    <2>9. EchoBox(q, open) => EchoBox(inbox', open')
      BY <1>0, <2>2, <2>3, <2>4, <2>5, EchoBoxPost
    <2>10. \A i \in DOMAIN <<x, h>> : <<x, h>>[i].epoch = runnerEpoch
      BY <2>3
    <2> QED BY <2>2, <2>4, <2>6, <2>7, <2>8, <2>9, <2>10, PostedAccounts
  <1>6. CASE Exit
    <2>1. /\ RunnerOnly /\ pc \in {"recv", "deliver"} /\ runner # "none"
          /\ piped' = piped /\ open' = open /\ inbox' = inbox
      BY <1>6 DEF Exit, Runs
    <2>2. inbox' = inbox \o << >> /\ << >> \in Seq(Heard)
      BY <1>0, <2>1, ConcatEmptySeq
    <2>3. /\ \A i \in DOMAIN << >> : << >>[i].epoch = runnerEpoch
          /\ PlainBox(inbox, open) => PlainBox(inbox', open')
          /\ EchoBox(inbox, open) => EchoBox(inbox', open')
      BY <2>1
    <2> QED BY <2>1, <2>2, <2>3, PostedAccounts
  <1>7. CASE Reap
    <2> DEFINE h == Post("ERROR", "", "crash")
    <2>1. /\ RunnerOnly /\ pc \in {"recv", "deliver"} /\ runner # "none"
          /\ piped' = piped /\ open' = open /\ inbox' = Append(inbox, h)
      BY <1>7 DEF Reap
    <2>2. h \in Heard /\ h.epoch = runnerEpoch /\ h.type = "ERROR"
      BY <1>0, <2>1 DEF Post, Heard, Kinds
    <2> HIDE DEF h
    <2> QED BY <1>2, <2>1, <2>2
  <1> QED BY <1>1, <1>3, <1>4, <1>5, <1>6, <1>7 DEF Provider

\* A message is written to a runner that will echo it.
LEMMA DeliverEchoedAccounts ==
    ASSUME TypeOK, Shape, Accounts, DeliverEchoed
    PROVE  Accounts'
  <1>0. Clock /\ Settled /\ Sides /\ Balanced
    BY DEF Accounts
  <1> DEFINE e == runnerEpoch
             m == Head(outbox)
             c == Count(inbox, EchoesOf(e))
  <1>1. /\ UNCHANGED <<log, pc, goal, runner, runnerEpoch, nextEpoch, epochTurns, inbox, open,
                       turnRecorded, nextTurns, stopping, turn>>
        /\ pc = "deliver" /\ Delivery[runner] = "echoed" /\ runner # "none" /\ outbox # << >>
        /\ awaiting' = Append(awaiting, m) /\ piped' = Append(piped, m.text) /\ inTurn' = TRUE
    BY DEF DeliverEchoed, Delivering, Shape
  <1>2. ~stopping /\ Echoing
    BY <1>0, <1>1 DEF Clock, Sides
  <1>3. m \in Message /\ m.text \in Text /\ awaiting \in Seq(Message) /\ piped \in Seq(Text)
        /\ inbox \in Seq(Heard)
    <2>1. m \in Message
      BY <1>1 DEF TypeOK, QueuesOK
    <2> HIDE DEF m
    <2> QED BY <2>1 DEF TypeOK, QueuesOK, NativeOK, Message
  <1>4. Running' = Running /\ Waiting = awaiting /\ Waiting' = awaiting'
    BY <1>1 DEF Running, Waiting
  <1>5. c \in Nat /\ Len(awaiting) \in Nat /\ Len(piped) \in Nat
    BY <1>3, CountType
  <1>6. /\ Len(awaiting) = c + Len(piped)
        /\ \A j \in 1 .. Len(piped) : awaiting[c + j].text = piped[j]
    BY <1>2, <1>4 DEF Echoing, InStep
  <1> HIDE DEF m
  <1>7. /\ Len(awaiting') = c + Len(piped')
        /\ \A j \in 1 .. Len(piped') : awaiting'[c + j].text = piped'[j]
    <2> HIDE DEF c
    <2>1. /\ Len(awaiting') = Len(awaiting) + 1 /\ Len(piped') = Len(piped) + 1
          /\ awaiting'[Len(awaiting) + 1] = m /\ piped'[Len(piped) + 1] = m.text
          /\ \A i \in 1 .. Len(awaiting) : awaiting'[i] = awaiting[i]
          /\ \A i \in 1 .. Len(piped) : piped'[i] = piped[i]
      BY <1>1, <1>3
    <2>2. ASSUME NEW j \in 1 .. Len(piped') PROVE awaiting'[c + j].text = piped'[j]
      <3>1. CASE j = Len(piped) + 1
        <4>1. c + j = Len(awaiting) + 1
          BY <1>5, <1>6, <3>1
        <4> QED BY <2>1, <3>1, <4>1
      <3>2. CASE j # Len(piped) + 1
        <4>1. j \in 1 .. Len(piped) /\ c + j \in 1 .. Len(awaiting)
          BY <1>5, <1>6, <2>1, <3>2
        <4> QED BY <1>6, <2>1, <4>1
      <3> QED BY <3>1, <3>2
    <2>3. Len(awaiting') = c + Len(piped')
      BY <1>5, <1>6, <2>1
    <2> QED BY <2>2, <2>3
  <1>8. Echoed(inbox, e, awaiting')
    <2>1. Echoed(inbox, e, awaiting)
      BY <1>2, <1>4 DEF Echoing
    <2> HIDE DEF e
    <2> QED BY <1>1, <1>3, <2>1, EchoedMore
  <1>9. Echoing'
    <2>1. InStep'
      BY <1>1, <1>4, <1>7 DEF InStep
    <2> QED BY <1>1, <1>2, <1>4, <1>8, <2>1 DEF Echoing
  <1>10. Sides'
    BY <1>1, <1>9 DEF Sides
  <1>11. Clock' /\ Settled' /\ Balanced'
    BY <1>0, <1>1, <1>4 DEF Clock, Settled, Balanced
  <1> QED BY <1>10, <1>11 DEF Accounts

\* A message is taken by a runner that does not echo: into the turn that is
\* running, or as a native turn that is counted.
LEMMA DeliverOpeningAccounts ==
    ASSUME TypeOK, Shape, Accounts, DeliverOpening
    PROVE  Accounts'
  <1>0. Clock /\ Settled /\ Sides /\ Balanced
    BY DEF Accounts
  <1> DEFINE immediate == Delivery[runner] = "steered" /\ open > 0
             next == NextTurn(immediate)
             t == IF inTurn THEN turn ELSE turn + 1
             r == Rec(IF inTurn THEN "INJECTED" ELSE "START", Head(outbox).id, t,
                      FALSE, IF next THEN "next_turn" ELSE "same_turn")
             new == inTurn => next
  <1>1. /\ UNCHANGED <<goal, runner, runnerEpoch, nextEpoch, inbox, piped, awaiting, inTurn,
                       turnRecorded, stopping>>
        /\ pc = "deliver" /\ Delivery[runner] # "echoed" /\ runner # "none" /\ outbox # << >>
        /\ open' = (IF immediate THEN open ELSE open + 1)
        /\ log' = Append(log, r) /\ turn' = t
        /\ epochTurns' = [epochTurns EXCEPT ![runnerEpoch] = t]
        /\ nextTurns' = (IF next THEN nextTurns + 1 ELSE nextTurns)
        /\ pc' = "complete"
    BY DEF DeliverOpening, Delivering, Shape
  <1>2. ~stopping /\ Plain /\ inTurn = turnRecorded
    BY <1>0, <1>1 DEF Clock, Sides, Plain
  <1>3. /\ t \in Int /\ Head(outbox).id \in Nat /\ turn \in Int /\ open \in Nat /\ nextTurns \in Nat
        /\ inbox \in Seq(Heard) /\ runnerEpoch \in 1 .. MaxEpochs
        /\ epochTurns \in [1 .. MaxEpochs -> Int]
    BY <1>1, MessageRead DEF TypeOK, TurnOK, QueuesOK, NativeOK, RunnerOK, Shape
  <1>4. next <=> inTurn /\ ~immediate
    BY DEF NextTurn
  <1>5. r \in Record /\ r.turn = t /\ Weight(r) = IF new THEN 1 ELSE 0
    <2>1. r \in Record
      BY <1>3, RecordMade DEF Openings, Kinds
    <2>2. /\ r.turn = t /\ r.type = (IF inTurn THEN "INJECTED" ELSE "START")
          /\ r.why = (IF next THEN "next_turn" ELSE "same_turn") /\ r.late = FALSE
      BY DEF Rec
    <2> HIDE DEF r, next, t
    <2> QED BY <2>1, <2>2 DEF Weight
  <1> HIDE DEF r
  <1>6. Adds(t, IF new THEN 1 ELSE 0)
    BY <1>1, <1>5, BalanceAppend
  <1>7. Running' = 1 /\ Running = (IF inTurn THEN 1 ELSE 0) /\ Waiting' = awaiting
    BY <1>1, <1>2 DEF Running, Waiting
  <1>8. ~inTurn => nextTurns = 0
    BY <1>0, <1>1 DEF Settled
  <1>9. \A u \in Int : Balance(log, u) \in Int /\ Balance(log, u) >= 0
    BY <1>0, BalanceType DEF Balanced
  <1>10. ~inTurn \/ ~immediate \/ open > 0
    OBVIOUS
  <1> DEFINE c == Count(inbox, EndsOf(runnerEpoch))
  <1>11. c \in Nat /\ open + c <= Running + nextTurns
    BY <1>2, <1>3, CountType DEF Plain
  <1>12. open' + c <= Running' + nextTurns'
    <2> HIDE DEF c
    <2>1. CASE inTurn
      BY <1>1, <1>3, <1>4, <1>7, <1>11, <2>1
    <2>2. CASE ~inTurn
      <3>1. open = 0 /\ c = 0
        BY <1>3, <1>7, <1>8, <1>11, <2>2
      <3> QED BY <1>1, <1>3, <1>4, <1>7, <3>1, <2>2
    <2> QED BY <2>1, <2>2
  <1>13. Balanced'
    <2>1. \A u \in Int : Balance(log', u) >= 0
      BY <1>6, <1>9 DEF Adds
    <2>2. Balance(log, turn) >= Running + nextTurns
      BY <1>0, <1>1 DEF Balanced
    <2>3. Balance(log', t) = Balance(log, t) + (IF new THEN 1 ELSE 0)
      BY <1>3, <1>6 DEF Adds
    <2>4. Balance(log', t) >= Running' + nextTurns'
      <3>1. CASE inTurn
        <4>1. t = turn /\ Running = 1 /\ Running' = 1 /\ (new <=> next)
          BY <1>7, <3>1
        <4>2. /\ Balance(log, turn) \in Int /\ Balance(log, turn) >= 1 + nextTurns
              /\ Balance(log', t) = Balance(log, turn) + (IF next THEN 1 ELSE 0)
              /\ nextTurns' = IF next THEN nextTurns + 1 ELSE nextTurns
          BY <1>1, <1>3, <1>9, <2>2, <2>3, <4>1
        <4> HIDE DEF next, t, new
        <4> QED BY <1>3, <4>1, <4>2
      <3>2. CASE ~inTurn
        BY <1>1, <1>3, <1>4, <1>7, <1>8, <1>9, <2>3, <3>2
      <3> QED BY <3>1, <3>2
    <2> QED BY <1>1, <2>1, <2>4 DEF Balanced
  <1>14. Plain'
    BY <1>1, <1>2, <1>12 DEF Plain
  <1>15. Sides'
    BY <1>1, <1>14 DEF Sides
  <1>16. Clock' /\ Settled'
    BY <1>0, <1>1, <1>2, <1>3, <1>4 DEF Clock, Settled
  <1> QED BY <1>13, <1>15, <1>16 DEF Accounts

\* complete: what was recorded of the turn is settled, and the next native turn
\* is looked for.
LEMMA CompleteAccounts ==
    ASSUME TypeOK, Shape, Accounts, Complete
    PROVE  Accounts'
  <1>0. Clock /\ Settled /\ Sides /\ Balanced
    BY DEF Accounts
  <1>1. /\ UNCHANGED <<log, goal, runner, runnerEpoch, nextEpoch, epochTurns, inbox, open, piped,
                       awaiting, nextTurns, stopping, turn>>
        /\ pc = "complete" /\ pc' = "deliver" /\ inTurn' = TRUE /\ turnRecorded' = TRUE
        /\ runner # "none"
    BY DEF Complete, Shape
  <1>2. Running' = 1 /\ Running = 1 /\ ~stopping
    BY <1>0, <1>1 DEF Running, Clock
  <1>3. Plain
    BY <1>0, <1>1 DEF Sides, Echoing
  <1>4. Plain'
    BY <1>1, <1>2, <1>3 DEF Plain
  <1>5. Sides'
    BY <1>0, <1>1, <1>4 DEF Sides, Echoing
  <1>6. Clock' /\ Settled' /\ Balanced'
    BY <1>0, <1>1, <1>2 DEF Clock, Settled, Balanced
  <1> QED BY <1>5, <1>6 DEF Accounts

\* The first event is taken off the inbox.
LEMMA TailCounts ==
    ASSUME TypeOK, inbox # << >>, inbox' = Tail(inbox)
    PROVE  /\ Head(inbox) \in Heard /\ inbox \in Seq(Heard) /\ inbox' \in Seq(Heard)
           /\ \A i \in DOMAIN inbox' : \E j \in DOMAIN inbox : inbox'[i] = inbox[j]
           /\ \E j \in DOMAIN inbox : Head(inbox) = inbox[j]
           /\ \A S : /\ Count(inbox, S) = Count(inbox', S) + (IF Head(inbox) \in S THEN 1 ELSE 0)
                     /\ Count(inbox, S) \in Nat /\ Count(inbox', S) \in Nat
  <1>1. /\ inbox \in Seq(Heard) /\ inbox' \in Seq(Heard) /\ Head(inbox) \in Heard
        /\ Len(inbox) \in Nat \ {0} /\ Head(inbox) = inbox[1] /\ DOMAIN inbox = 1 .. Len(inbox)
        /\ DOMAIN inbox' = 1 .. Len(inbox) - 1
        /\ \A i \in 1 .. Len(inbox) - 1 : inbox'[i] = inbox[i + 1]
    BY HeadTailProperties, EmptySeq DEF TypeOK, NativeOK
  <1>2. \A i \in DOMAIN inbox' : \E j \in DOMAIN inbox : inbox'[i] = inbox[j]
    <2> TAKE i \in DOMAIN inbox'
    <2>1. i + 1 \in DOMAIN inbox /\ inbox'[i] = inbox[i + 1]
      BY <1>1
    <2> QED BY <2>1
  <1>3. ASSUME NEW S
        PROVE  /\ Count(inbox, S) = Count(inbox', S) + (IF Head(inbox) \in S THEN 1 ELSE 0)
               /\ Count(inbox, S) \in Nat /\ Count(inbox', S) \in Nat
    BY <1>1, CountTail, CountType
  <1>4. 1 \in DOMAIN inbox
    BY <1>1
  <1> QED BY <1>1, <1>2, <1>3, <1>4

\* What is heard is neither an END nor an echo of the runner that is up.
LEMMA HearAccounts ==
    ASSUME TypeOK, Accounts, inbox # << >>, inbox' = Tail(inbox), pc \in {"recv", "drain"},
           Head(inbox) \notin EndsOf(runnerEpoch), Head(inbox) \notin EchoesOf(runnerEpoch),
           UNCHANGED <<open, piped, awaiting, runner, runnerEpoch, nextEpoch, epochTurns,
                       inTurn, turnRecorded, nextTurns, stopping, turn>>,
           \A t \in Int : Balance(log', t) = Balance(log, t),
           pc' = pc \/ (~stopping /\ pc' = "close"), goal' # "finish"
    PROVE  Accounts'
  <1>0. Clock /\ Settled /\ Sides /\ Balanced
    BY DEF Accounts
  <1> DEFINE e == runnerEpoch
  <1>1. /\ Head(inbox) \in Heard /\ inbox \in Seq(Heard)
        /\ \A i \in DOMAIN inbox' : \E j \in DOMAIN inbox : inbox'[i] = inbox[j]
        /\ Count(inbox', EndsOf(e)) = Count(inbox, EndsOf(e))
        /\ Count(inbox', EchoesOf(e)) = Count(inbox, EchoesOf(e))
    <2>1. /\ Count(inbox, EndsOf(e)) = Count(inbox', EndsOf(e))
                                       + (IF Head(inbox) \in EndsOf(e) THEN 1 ELSE 0)
          /\ Count(inbox, EchoesOf(e)) = Count(inbox', EchoesOf(e))
                                         + (IF Head(inbox) \in EchoesOf(e) THEN 1 ELSE 0)
          /\ Count(inbox', EndsOf(e)) \in Nat /\ Count(inbox', EchoesOf(e)) \in Nat
      BY TailCounts
    <2>2. /\ Head(inbox) \in Heard /\ inbox \in Seq(Heard)
          /\ \A i \in DOMAIN inbox' : \E j \in DOMAIN inbox : inbox'[i] = inbox[j]
      BY TailCounts
    <2> QED BY <2>1, <2>2
  <1>2. /\ Running' = Running /\ Waiting' = awaiting /\ Waiting = awaiting
        /\ Running \in {0, 1} /\ Running \in Nat /\ turn \in Int /\ awaiting \in Seq(Message)
    BY DEF Running, Waiting, TypeOK, TurnOK, QueuesOK
  <1>3. Clock'
    BY <1>0, <1>1 DEF Clock
  <1>4. Settled' /\ Balanced'
    BY <1>0, <1>2 DEF Settled, Balanced
  <1>5. Plain => Plain'
    BY <1>1, <1>2 DEF Plain
  <1>6. ASSUME Echoing PROVE Echoing'
    <2>1. Head(inbox) \notin StartsOf(e)
      BY DEF StartsOf
    <2>2. Running = Running + (IF Head(inbox) \in StartsOf(e) THEN 1 ELSE 0)
                            - (IF Head(inbox) \in EndsOf(e) THEN 1 ELSE 0)
      BY <1>2, <2>1
    <2>3. /\ Alternates(inbox', e, Running)
          /\ Level(inbox', e, Running, Len(inbox')) = Level(inbox, e, Running, Len(inbox))
      <3>1. Alternates(inbox, e, Running)
        BY <1>6 DEF Echoing
      <3> HIDE DEF e
      <3> QED BY <1>1, <1>2, <2>2, <3>1, AlternatesTail
    <2>4. Echoed(inbox', e, awaiting)
      <3>1. Echoed(inbox, e, awaiting)
        BY <1>2, <1>6 DEF Echoing
      <3>2. Head(inbox) \notin EchoesOf(e)
        OBVIOUS
      <3> HIDE DEF e
      <3> QED BY <1>1, <1>2, <3>1, <3>2, EchoedTail
    <2>5. InStep => InStep'
      BY <1>1, <1>2 DEF InStep
    <2> QED BY <1>2, <1>6, <2>3, <2>4, <2>5 DEF Echoing
  <1>7. Sides'
    BY <1>0, <1>5, <1>6 DEF Sides
  <1> QED BY <1>3, <1>4, <1>7 DEF Accounts

\* Nothing and n is n.
LEMMA ZeroPlus == \A n \in Nat : 0 + n = n
  OBVIOUS

\* It is an END of that runner: of a turn that was started and has not ended.
LEMMA HearEndAccounts ==
    ASSUME TypeOK, Shape, Accounts, inbox # << >>, inbox' = Tail(inbox),
           pc \in {"recv", "drain"}, Head(inbox) \in EndsOf(runnerEpoch), log' = Recorded(FALSE),
           UNCHANGED <<open, piped, awaiting, runner, runnerEpoch, nextEpoch, epochTurns,
                       stopping, turn>>,
           inTurn' = FALSE, turnRecorded' = FALSE,
           stopping => nextTurns' = 0 /\ pc' = pc,
           ~stopping => nextTurns' = nextTurns /\ pc' \in {"finish", "close"},
           goal' # "finish"
    PROVE  Accounts'
  <1>0. Clock /\ Settled /\ Sides /\ Balanced
    BY DEF Accounts
  <1> DEFINE e == runnerEpoch
             b == Count(inbox', EndsOf(e))
  <1>1. /\ Head(inbox) \in Heard /\ inbox \in Seq(Heard)
        /\ \A i \in DOMAIN inbox' : \E j \in DOMAIN inbox : inbox'[i] = inbox[j]
        /\ Count(inbox, EndsOf(e)) = b + 1 /\ b \in Nat
        /\ Count(inbox', EchoesOf(e)) = Count(inbox, EchoesOf(e))
    <2>0. Head(inbox) \notin EchoesOf(e)
      BY DEF EndsOf, EchoesOf
    <2>1. /\ Count(inbox, EndsOf(e)) = Count(inbox', EndsOf(e))
                                       + (IF Head(inbox) \in EndsOf(e) THEN 1 ELSE 0)
          /\ Count(inbox, EchoesOf(e)) = Count(inbox', EchoesOf(e))
                                         + (IF Head(inbox) \in EchoesOf(e) THEN 1 ELSE 0)
          /\ Count(inbox', EndsOf(e)) \in Nat /\ Count(inbox', EchoesOf(e)) \in Nat
      BY TailCounts
    <2>2. /\ Head(inbox) \in Heard /\ inbox \in Seq(Heard)
          /\ \A i \in DOMAIN inbox' : \E j \in DOMAIN inbox : inbox'[i] = inbox[j]
      BY TailCounts
    <2> QED BY <2>0, <2>1, <2>2
  <1>2. /\ Running' = 0 /\ Waiting' = awaiting /\ Waiting = awaiting
        /\ Running = (IF turnRecorded THEN 1 ELSE 0) /\ nextTurns \in Nat /\ open \in Nat
        /\ turn \in Int /\ awaiting \in Seq(Message)
    BY DEF Running, Waiting, TypeOK, TurnOK, QueuesOK, NativeOK
  <1>3. /\ Head(inbox).epoch = e /\ Head(inbox).type = "END" /\ e # 0
        /\ Head(inbox).why # "next_turn" /\ epochTurns[e] = turn
    <2>1. Head(inbox).epoch = e /\ Head(inbox).type = "END"
      BY DEF EndsOf
    <2>2. Head(inbox).epoch \in 1 .. MaxEpochs
      BY <1>1 DEF Heard
    <2>3. Head(inbox).why \in {"none", "interrupted", "status"}
      BY <1>1, <2>1 DEF Heard
    <2>4. e # 0
      BY <2>1, <2>2
    <2> QED BY <1>0, <2>1, <2>3, <2>4 DEF Clock
  <1>4. Adds(turn, -1)
    <2> DEFINE r == Rec(Head(inbox).type, 0, epochTurns[Head(inbox).epoch], FALSE, Head(inbox).why)
    <2>1. r \in Record
      BY <1>3, HeardRecord
    <2>2. r.turn = turn /\ Weight(r) = -1
      BY <1>3 DEF Rec, Weight
    <2>3. log' = Append(log, r)
      BY DEF Recorded
    <2> HIDE DEF r
    <2> QED BY <2>1, <2>2, <2>3, BalanceAppend
  <1>5. ~stopping \/ Echoing => Running = 1
    <2>1. CASE Echoing
      <3>1. Alternates(inbox, e, Running) /\ Running \in {0, 1}
        BY <1>2, <2>1 DEF Echoing
      <3>2. Head(inbox) \in EndsOf(e) \cup JoinsOf(e)
        OBVIOUS
      <3> HIDE DEF e
      <3> QED BY <1>1, <3>1, <3>2, AlternatesHead
    <2>2. CASE Plain /\ ~stopping
      <3>1. open + (b + 1) <= Running + nextTurns /\ inTurn = turnRecorded
        BY <1>1, <2>2 DEF Plain
      <3>2. CASE turnRecorded
        BY <1>2, <3>2
      <3>3. CASE ~turnRecorded
        <4>1. nextTurns = 0
          BY <1>0, <3>1, <3>3 DEF Settled
        <4> HIDE DEF b
        <4> QED BY <1>1, <1>2, <3>1, <3>3, <4>1
      <3> QED BY <3>2, <3>3
    <2> QED BY <1>0, <2>1, <2>2 DEF Sides
  <1>6. Balance(log, turn) >= Running + nextTurns /\ Balance(log, turn) \in Int
    BY <1>0, BalanceType DEF Balanced
  <1>7. Plain /\ stopping => b + 1 <= Balance(log, turn)
    BY <1>1 DEF Plain
  <1> DEFINE x == Balance(log, turn)
             y == Balance(log', turn)
  <1>8. x \in Int /\ y = x - 1
    <2>1. Balance(log', turn) = Balance(log, turn) + (-1)
      BY <1>2, <1>4 DEF Adds
    <2>2. x \in Int /\ y = x + (-1)
      BY <1>6, <2>1
    <2> HIDE DEF x, y
    <2> QED BY <2>2
  <1>8a. /\ x >= Running + nextTurns
         /\ Plain /\ stopping => b + 1 <= x
    BY <1>6, <1>7
  <1> HIDE DEF x, y, b
  <1>9. Balanced'
    <2>1. y >= nextTurns' /\ y \in Int /\ nextTurns' \in Nat
      <3>1. CASE ~stopping \/ Echoing
        <4>1. nextTurns' = nextTurns \/ nextTurns' = 0
          OBVIOUS
        <4> QED BY <1>2, <1>5, <1>8, <1>8a, <3>1, <4>1
      <3>2. CASE Plain /\ stopping
        BY <1>1, <1>8, <1>8a, <3>2
      <3> QED BY <1>0, <3>1, <3>2 DEF Sides
    <2>3. ASSUME NEW t \in Int PROVE Balance(log', t) >= 0
      <3>1. CASE t = turn
        <4>1. y >= 0
          BY <2>1
        <4> QED BY <3>1, <4>1 DEF y
      <3>2. CASE t # turn
        <4> DEFINE u == Balance(log', t)
                   v == Balance(log, t)
        <4>1. u = v + 0 /\ v >= 0 /\ v \in Int
          BY <1>0, <1>4, <3>2, BalanceType DEF Adds, Balanced
        <4>2. u >= 0
          <5> HIDE DEF u, v
          <5> QED BY <4>1
        <4> QED BY <4>2
      <3> QED BY <3>1, <3>2
    <2>4. y >= Running' + nextTurns'
      <3>1. Running' = 0
        BY <1>2
      <3>2. Running' + nextTurns' = nextTurns'
        <4>1. nextTurns' \in Nat
          BY <2>1
        <4>2. 0 + nextTurns' = nextTurns'
          BY <4>1, ZeroPlus
        <4>3. Running' + nextTurns' = 0 + nextTurns'
          BY <3>1
        <4> QED BY <4>2, <4>3
      <3> QED BY <2>1, <3>2
    <2>5. Balance(log', turn') >= Running' + nextTurns'
      BY <2>4 DEF y
    <2> QED BY <2>3, <2>5 DEF Balanced
  <1>10. ASSUME Plain PROVE Plain'
    <2>1. ~stopping => open + b <= Running' + nextTurns'
      <3>1. ~stopping => open + (b + 1) <= Running + nextTurns
        BY <1>1, <1>10 DEF Plain
      <3> QED BY <1>1, <1>2, <1>5, <3>1
    <2>2. stopping => b <= y
      BY <1>1, <1>8, <1>8a, <1>10
    <2>3. \A i \in DOMAIN inbox' : inbox'[i] \notin EchoesOf(e)
      BY <1>1, <1>10 DEF Plain
    <2>4. /\ awaiting' = << >> /\ piped' = << >> /\ pc' # "confirmed"
          /\ inTurn' = turnRecorded' /\ stopping' = stopping /\ open' = open
          /\ runnerEpoch' = e /\ turn' = turn
      BY <1>10 DEF Plain
    <2>5. ~stopping' => open' + Count(inbox', EndsOf(runnerEpoch')) <= Running' + nextTurns'
      BY <2>1, <2>4 DEF b
    <2>6. ASSUME stopping'
          PROVE  Count(inbox', EndsOf(runnerEpoch')) <= Balance(log', turn')
      <3>1. b <= y
        BY <2>2, <2>4, <2>6
      <3>2. b = Count(inbox', EndsOf(runnerEpoch')) /\ y = Balance(log', turn')
        BY <2>4 DEF b, y
      <3> QED BY <3>1, <3>2
    <2> QED BY <2>3, <2>4, <2>5, <2>6 DEF Plain
  <1>11. ASSUME Echoing PROVE Echoing'
    <2>1. Head(inbox) \notin StartsOf(e) /\ Head(inbox) \notin EchoesOf(e)
      BY DEF StartsOf, EchoesOf, EndsOf
    <2>2. 0 = 1 + (IF Head(inbox) \in StartsOf(e) THEN 1 ELSE 0)
                - (IF Head(inbox) \in EndsOf(e) THEN 1 ELSE 0)
      BY <2>1
    <2>3. /\ Alternates(inbox', e, 0)
          /\ Level(inbox', e, 0, Len(inbox')) = Level(inbox, e, 1, Len(inbox))
      <3>1. Alternates(inbox, e, 1)
        BY <1>5, <1>11 DEF Echoing
      <3> HIDE DEF e
      <3> QED BY <1>1, <2>2, <3>1, AlternatesTail
    <2>4. Echoed(inbox', e, awaiting)
      <3>1. Echoed(inbox, e, awaiting)
        BY <1>2, <1>11 DEF Echoing
      <3> HIDE DEF e
      <3> QED BY <1>1, <1>2, <2>1, <3>1, EchoedTail
    <2>5. InStep => InStep'
      BY <1>1, <1>2 DEF InStep
    <2>6. nextTurns' = 0 /\ pc' # "complete"
      BY <1>11 DEF Echoing
    <2> QED BY <1>2, <1>5, <1>11, <2>3, <2>4, <2>5, <2>6 DEF Echoing
  <1>12. Sides'
    BY <1>0, <1>10, <1>11 DEF Sides
  <1>13. Clock' /\ Settled'
    BY <1>0, <1>1, <1>3 DEF Clock, Settled
  <1> QED BY <1>9, <1>12, <1>13 DEF Accounts

\* Everything that is heard but an echo.
LEMMA HeardAccounts ==
    ASSUME TypeOK, Shape, Unrecovered, Accounts,
           \/ HearStraggler \/ HearText \/ HearEnd \/ HearError
           \/ \E type \in {"TEXT", "ERROR", "END"} : HearStopping(type)
    PROVE  Accounts'
  <1>0. Clock /\ ~Recovering /\ turnFailed # "context" /\ inbox # << >>
    BY DEF Accounts, Unrecovered, NoRecovery, Recovering, HearStraggler, HearText, HearEnd,
           HearError, HearStopping, Hears, Hearing
  <1>1. /\ Head(inbox) \in Heard /\ Head(inbox).type \in {"CONFIRM", "TEXT", "ERROR", "END"}
        /\ Head(inbox).why # "next_turn"
    BY <1>0, HeardHead DEF Heard, Kinds, Openings
  <1>2. /\ inbox' = Tail(inbox) /\ pc \in {"recv", "drain"}
        /\ UNCHANGED <<open, piped, awaiting, runner, runnerEpoch, nextEpoch, epochTurns,
                       stopping, turn>>
    BY DEF HearStraggler, HearText, HearEnd, HearError, HearStopping, Hears, Hearing, Receiving
  <1>3. pc = "recv" => ~stopping
    BY <1>0 DEF Clock
  <1>4. ASSUME NEW late \in BOOLEAN, log' \in {log, Recorded(late)}, Head(inbox).type # "CONFIRM",
               Head(inbox).type = "END" => late
        PROVE  \A t \in Int : Balance(log', t) = Balance(log, t)
    <2> DEFINE r == Rec(Head(inbox).type, 0, epochTurns[Head(inbox).epoch], late, Head(inbox).why)
    <2>1. r \in Record
      BY <1>0, <1>4, HeardRecord
    <2>2. /\ r.type = Head(inbox).type /\ r.late = late /\ r.why = Head(inbox).why
          /\ log' \in {log, Append(log, r)}
      BY <1>4 DEF Rec, Recorded
    <2>3. r.type # "START"
      BY <1>1, <2>2
    <2> HIDE DEF r
    <2> QED BY <1>1, <1>4, <2>1, <2>2, <2>3, NothingAdded
  <1>5. CASE HearStraggler
    <2>1. /\ UNCHANGED <<inTurn, turnRecorded, nextTurns, pc, goal>>
          /\ Head(inbox).epoch # runnerEpoch
          /\ Head(inbox).type # "CONFIRM" => log' = Recorded(TRUE)
          /\ Head(inbox).type = "CONFIRM" => log' = log
      BY <1>5 DEF HearStraggler, Straggler
    <2>2. \A t \in Int : Balance(log', t) = Balance(log, t)
      BY <1>4, <2>1
    <2>3. Head(inbox) \notin EndsOf(runnerEpoch) /\ Head(inbox) \notin EchoesOf(runnerEpoch)
      BY <2>1 DEF EndsOf, EchoesOf
    <2>4. goal' # "finish"
      BY <1>0, <2>1 DEF Clock
    <2> QED BY <1>0, <1>2, <2>1, <2>2, <2>3, <2>4, HearAccounts
  <1>6. ASSUME Head(inbox).type \in {"TEXT", "ERROR"}, log' = Recorded(FALSE),
               UNCHANGED <<inTurn, turnRecorded, nextTurns>>,
               pc' = pc \/ (~stopping /\ pc' = "close"), goal' # "finish"
        PROVE  Accounts'
    <2>1. \A t \in Int : Balance(log', t) = Balance(log, t)
      BY <1>4, <1>6
    <2>2. Head(inbox) \notin EndsOf(runnerEpoch) /\ Head(inbox) \notin EchoesOf(runnerEpoch)
      BY <1>6 DEF EndsOf, EchoesOf
    <2> QED BY <1>0, <1>2, <1>6, <2>1, <2>2, HearAccounts
  <1>7. CASE HearText
    <2>1. /\ Head(inbox).type = "TEXT" /\ log' = Recorded(FALSE)
          /\ UNCHANGED <<inTurn, turnRecorded, nextTurns, pc, goal>>
      BY <1>7 DEF HearText, Hears
    <2> QED BY <1>0, <1>6, <2>1 DEF Clock
  <1>8. CASE HearError
    <2>1. /\ Head(inbox).type = "ERROR" /\ log' = Recorded(FALSE) /\ ~stopping
          /\ UNCHANGED <<inTurn, turnRecorded, nextTurns>>
          /\ UNCHANGED <<pc, goal>> \/ (pc' = "close" /\ goal' \in {"auth", "failed"})
      BY <1>0, <1>8 DEF HearError, Hears, Closing
    <2> QED BY <1>0, <1>6, <2>1 DEF Clock
  <1>9. CASE HearEnd
    <2>1. /\ Head(inbox).type = "END" /\ log' = Recorded(FALSE) /\ ~stopping
          /\ Head(inbox).epoch = runnerEpoch
          /\ inTurn' = FALSE /\ turnRecorded' = FALSE /\ nextTurns' = nextTurns
          /\ pc' \in {"finish", "close"} /\ goal' # "finish"
      BY <1>0, <1>9 DEF HearEnd, Hears, Straggler, Closing, GoTo
    <2>2. Head(inbox) \in EndsOf(runnerEpoch)
      BY <1>1, <2>1 DEF EndsOf
    <2> QED BY <1>0, <1>2, <2>1, <2>2, HearEndAccounts
  <1>10. CASE \E type \in {"TEXT", "ERROR", "END"} : HearStopping(type)
    <2>1. PICK type \in {"TEXT", "ERROR", "END"} : HearStopping(type)
      BY <1>10
    <2>2. /\ Head(inbox).type = type /\ log' = Recorded(FALSE) /\ stopping
          /\ Head(inbox).epoch = runnerEpoch /\ UNCHANGED <<pc, goal>> /\ goal' # "finish"
      BY <1>0, <2>1 DEF HearStopping, Hears, Straggler, Clock
    <2>3. CASE type = "END"
      <3>1. inTurn' = FALSE /\ turnRecorded' = FALSE /\ nextTurns' = 0
        BY <2>1, <2>3 DEF HearStopping
      <3>2. Head(inbox) \in EndsOf(runnerEpoch)
        BY <1>1, <2>2, <2>3 DEF EndsOf
      <3> QED BY <1>0, <1>2, <2>2, <3>1, <3>2, HearEndAccounts
    <2>4. CASE type # "END"
      <3>1. UNCHANGED <<inTurn, turnRecorded, nextTurns>>
        BY <2>1, <2>4 DEF HearStopping
      <3> QED BY <1>6, <2>2, <2>4, <3>1
    <2> QED BY <2>3, <2>4
  <1> QED BY <1>5, <1>7, <1>8, <1>9, <1>10

\* One line fewer in front leaves what is behind it.
LEMMA OneFewer ==
    ASSUME NEW c \in Nat, NEW p \in Nat, NEW x, NEW y, x = c + 1 + p, y = x - 1
    PROVE  y = c + p
  OBVIOUS

\* An echo is heard: a turn begins, or a message joins the one that is running.
LEMMA ConfirmAccounts ==
    ASSUME TypeOK, Shape, Accounts, HearConfirm
    PROVE  Accounts'
  <1>0. Clock /\ Settled /\ Sides /\ Balanced
    BY DEF Accounts
  <1> DEFINE e == runnerEpoch
             h == Head(inbox)
             c == Count(inbox', EchoesOf(e))
             start == h.why = "START"
             t == IF start THEN turn + 1 ELSE turn
             r == Rec(h.why, Head(awaiting).id, t, FALSE, "same_turn")
  <1>1. /\ inbox # << >> /\ inbox' = Tail(inbox) /\ pc \in {"recv", "drain"}
        /\ h.epoch = e /\ h.type = "CONFIRM"
        /\ UNCHANGED <<goal, open, piped, awaiting, runner, runnerEpoch, nextEpoch, inTurn,
                       turnRecorded, nextTurns, stopping>>
    BY DEF HearConfirm, Hearing, Receiving, Straggler
  <1>2. /\ h \in Heard /\ inbox \in Seq(Heard)
        /\ \A i \in DOMAIN inbox' : \E j \in DOMAIN inbox : inbox'[i] = inbox[j]
        /\ \E j \in DOMAIN inbox : h = inbox[j]
    BY <1>1, TailCounts
  <1>3. /\ h \in EchoesOf(e) /\ h \notin EndsOf(e) /\ h.why \in {"START", "INJECTED"}
        /\ start <=> h \in StartsOf(e)
        /\ ~start <=> h \in JoinsOf(e)
        /\ e \in 1 .. MaxEpochs
    BY <1>1, <1>2 DEF Heard, EchoesOf, EndsOf, StartsOf, JoinsOf, Openings
  <1>4. ~Plain /\ Echoing
    <2>1. ~Plain
      <3>1. PICK j \in DOMAIN inbox : h = inbox[j]
        BY <1>2
      <3>2. inbox[j] \in EchoesOf(e)
        BY <1>3, <3>1
      <3> HIDE DEF h
      <3> QED BY <3>2 DEF Plain
    <2> QED BY <1>0, <2>1 DEF Sides
  <1>5. /\ Waiting = awaiting /\ awaiting \in Seq(Message) /\ Running \in {0, 1} /\ Running \in Nat
        /\ Running = (IF turnRecorded THEN 1 ELSE 0) /\ turn \in Int
        /\ epochTurns \in [1 .. MaxEpochs -> Int] /\ nextTurns = 0
    BY <1>1, <1>4 DEF Waiting, Running, TypeOK, QueuesOK, TurnOK, RunnerOK, Echoing
  <1>6. awaiting # << >> /\ Head(awaiting).text = h.text /\ Echoed(inbox', e, Tail(awaiting))
    <2>1. Echoed(inbox, e, awaiting)
      BY <1>4, <1>5 DEF Echoing
    <2> HIDE DEF e
    <2> QED BY <1>1, <1>2, <1>3, <1>5, <2>1, EchoedTail
  <1>7. /\ log' = Append(log, r) /\ turn' = t /\ pc' = "confirmed"
        /\ epochTurns' = [epochTurns EXCEPT ![e] = t]
    BY <1>6 DEF HearConfirm
  <1>8. Running' = 1 /\ Waiting' = Tail(awaiting)
    BY <1>1, <1>7 DEF Running, Waiting
  <1>9. 1 = Running + (IF h \in StartsOf(e) THEN 1 ELSE 0) - (IF h \in EndsOf(e) THEN 1 ELSE 0)
        /\ (~start => Running = 1)
    <2>1. Alternates(inbox, e, Running)
      BY <1>4 DEF Echoing
    <2>2. start => Running = 0
      <3> HIDE DEF e
      <3> QED BY <1>1, <1>2, <1>3, <1>5, <2>1, AlternatesHead
    <2>3. ~start => Running = 1
      <3> HIDE DEF e
      <3> QED BY <1>1, <1>2, <1>3, <1>5, <2>1, AlternatesHead
    <2> HIDE DEF e, start, h
    <2> QED BY <1>3, <1>5, <2>2, <2>3
  <1>10. /\ Alternates(inbox', e, 1)
         /\ Level(inbox', e, 1, Len(inbox')) = Level(inbox, e, Running, Len(inbox))
    <2>1. Alternates(inbox, e, Running)
      BY <1>4 DEF Echoing
    <2> HIDE DEF e
    <2> QED BY <1>1, <1>2, <1>5, <1>9, <2>1, AlternatesTail
  <1>11. Count(inbox, EchoesOf(e)) = c + 1 /\ c \in Nat
    <2>1. /\ Count(inbox, EchoesOf(e)) = Count(inbox', EchoesOf(e))
                                         + (IF Head(inbox) \in EchoesOf(e) THEN 1 ELSE 0)
          /\ Count(inbox', EchoesOf(e)) \in Nat
      BY <1>1, TailCounts
    <2> QED BY <1>3, <2>1
  <1>12. ASSUME ~stopping PROVE InStep'
    <2>1. /\ Len(awaiting) = c + 1 + Len(piped)
          /\ \A j \in 1 .. Len(piped) : awaiting[c + 1 + j].text = piped[j]
      BY <1>4, <1>5, <1>11, <1>12 DEF Echoing, InStep
    <2>2. /\ Len(awaiting) \in Nat \ {0} /\ Len(Tail(awaiting)) = Len(awaiting) - 1
          /\ \A i \in 1 .. Len(awaiting) - 1 : Tail(awaiting)[i] = awaiting[i + 1]
      BY <1>5, <1>6, HeadTailProperties, EmptySeq
    <2>3. Len(piped) \in Nat
      BY DEF TypeOK, NativeOK
    <2> HIDE DEF c
    <2>4. Len(Tail(awaiting)) = c + Len(piped)
      <3>1. /\ c \in Nat /\ Len(piped) \in Nat
            /\ Len(awaiting) = c + 1 + Len(piped)
            /\ Len(Tail(awaiting)) = Len(awaiting) - 1
        BY <1>11, <2>1, <2>2, <2>3
      <3> QED BY <3>1, OneFewer
    <2>5. ASSUME NEW j \in 1 .. Len(piped) PROVE Tail(awaiting)[c + j].text = piped[j]
      <3>1. c + j \in 1 .. Len(awaiting) - 1 /\ c + j + 1 = c + 1 + j
        BY <1>11, <2>1, <2>3
      <3> QED BY <2>1, <2>2, <3>1
    <2> QED BY <1>1, <1>8, <2>4, <2>5 DEF InStep, c
  <1>13. Echoing'
    BY <1>1, <1>4, <1>5, <1>6, <1>7, <1>8, <1>10, <1>12 DEF Echoing
  <1>14. Sides'
    BY <1>0, <1>1, <1>4, <1>13 DEF Sides
  <1>15. r \in Record /\ r.turn = t /\ Weight(r) = (IF start THEN 1 ELSE 0) /\ t \in Int
    <2>0. t \in Int
      BY <1>5
    <2>1. r \in Record
      <3>1. Head(awaiting).id \in Nat
        BY <1>5, <1>6, MessageRead
      <3> QED BY <1>3, <2>0, <3>1, RecordMade DEF Openings
    <2>2. r.turn = t /\ r.type = h.why /\ r.why = "same_turn" /\ r.late = FALSE
      BY DEF Rec
    <2> HIDE DEF r, t
    <2> QED BY <1>3, <2>0, <2>1, <2>2 DEF Weight
  <1> HIDE DEF r
  <1>16. Adds(t, IF start THEN 1 ELSE 0)
    BY <1>7, <1>15, BalanceAppend
  <1>17. Balanced'
    <2> HIDE DEF t
    <2>1. ASSUME NEW u \in Int
          PROVE  /\ Balance(log', u) >= 0
                 /\ u = t => Balance(log', u) >= Running' + nextTurns'
      <3> DEFINE x == Balance(log, u)
                 y == Balance(log', u)
      <3>1. /\ y = x + (IF u = t THEN (IF start THEN 1 ELSE 0) ELSE 0)
            /\ x >= 0 /\ x \in Int
        BY <1>0, <1>16, BalanceType DEF Adds, Balanced
      <3>2. u = t /\ ~start => x >= 1
        <4>1. ~start => t = turn
          BY DEF t
        <4>2. Balance(log, turn) >= Running + nextTurns
          BY <1>0, <1>1 DEF Balanced
        <4> QED BY <1>5, <1>9, <4>1, <4>2
      <3>3. Running' + nextTurns' = 1
        BY <1>1, <1>5, <1>8
      <3> HIDE DEF x, y, start
      <3>4. y >= 0 /\ (u = t => y >= 1)
        BY <3>1, <3>2
      <3> QED BY <3>3, <3>4 DEF y
    <2> QED BY <1>7, <1>15, <2>1 DEF Balanced
  <1>18. Clock'
    <2>1. \A i \in DOMAIN inbox' : inbox'[i].epoch < nextEpoch'
      BY <1>0, <1>1, <1>2 DEF Clock
    <2>2. epochTurns'[runnerEpoch'] = turn'
      BY <1>1, <1>3, <1>5, <1>7
    <2> QED BY <1>0, <1>1, <1>7, <2>1, <2>2 DEF Clock
  <1>19. Settled'
    BY <1>1, <1>5, <1>7 DEF Settled
  <1> QED BY <1>14, <1>17, <1>18, <1>19 DEF Accounts

\* The echo is recorded, and the conductor is in the turn it opened or joined.
LEMMA ConfirmedAccounts ==
    ASSUME TypeOK, Shape, Accounts, Confirmed
    PROVE  Accounts'
  <1>0. Clock /\ Settled /\ Sides /\ Balanced
    BY DEF Accounts
  <1>1. /\ UNCHANGED <<log, runner, runnerEpoch, nextEpoch, epochTurns, inbox, open, piped,
                       nextTurns, stopping, turn>>
        /\ pc = "confirmed" /\ pc' = (IF stopping THEN "drain" ELSE "recv") /\ goal' = "none"
        /\ awaiting' = Tail(awaiting) /\ inTurn' = TRUE /\ turnRecorded' = TRUE
    BY DEF Confirmed, Back
  <1>2. Running' = 1 /\ Running = 1 /\ Waiting' = Waiting
    BY <1>1 DEF Running, Waiting
  <1>3. Echoing
    BY <1>0, <1>1 DEF Sides, Plain
  <1>4. Echoing'
    <2>1. InStep => InStep'
      BY <1>1, <1>2 DEF InStep
    <2> QED BY <1>1, <1>2, <1>3, <2>1 DEF Echoing
  <1>5. Sides'
    BY <1>0, <1>1, <1>4 DEF Sides, Plain
  <1>6. Clock' /\ Settled' /\ Balanced'
    BY <1>0, <1>1, <1>2 DEF Clock, Settled, Balanced
  <1> QED BY <1>5, <1>6 DEF Accounts

\* The turn is over: a native turn that is queued already is the next, or a
\* line that is on the pipe begins it.
LEMMA FinishAccounts ==
    ASSUME TypeOK, Shape, Accounts, Finish
    PROVE  Accounts'
  <1>0. Clock /\ Settled /\ Sides /\ Balanced
    BY DEF Accounts
  <1>1. /\ UNCHANGED <<log, runner, runnerEpoch, nextEpoch, epochTurns, inbox, open, piped,
                       awaiting, stopping, turn>>
        /\ pc = "finish"
    BY DEF Finish
  <1>2. ~stopping /\ ~inTurn /\ ~turnRecorded /\ Running = 0 /\ nextTurns \in Nat
    BY <1>0, <1>1 DEF Clock, Running, TypeOK, QueuesOK
  <1>3. Waiting' = awaiting /\ Waiting = awaiting
    <2>1. pc' # "confirmed"
      BY <1>2 DEF Finish, Back
    <2> QED BY <1>1, <2>1 DEF Waiting
  <1>4. CASE nextTurns > 0
    <2>1. /\ nextTurns' = nextTurns - 1 /\ inTurn' = TRUE /\ turnRecorded' = TRUE
          /\ pc' = "recv" /\ goal' = "none"
      BY <1>2, <1>4 DEF Finish, Back
    <2>2. Plain /\ Running' = 1
      BY <1>0, <1>2, <1>4, <2>1 DEF Sides, Echoing, Running
    <2>3. Running' + nextTurns' = Running + nextTurns
      BY <1>2, <2>1, <2>2
    <2>4. Plain'
      BY <1>1, <1>2, <2>1, <2>2, <2>3 DEF Plain
    <2>5. ~(runner # "none" /\ Delivery[runner] = "echoed")
      BY <1>0, <1>4 DEF Sides, Echoing
    <2>6. Sides'
      BY <1>1, <2>4, <2>5 DEF Sides
    <2>7. Balanced'
      BY <1>0, <1>1, <2>3 DEF Balanced
    <2>8. Clock' /\ Settled'
      BY <1>0, <1>1, <1>2, <2>1 DEF Clock, Settled
    <2> QED BY <2>6, <2>7, <2>8 DEF Accounts
  <1>5. CASE nextTurns = 0
    <2>1. /\ nextTurns' = 0 /\ turnRecorded' = FALSE
          /\ awaiting = << >> => inTurn' = FALSE
          /\ pc' \in {"recv", "attempt", "flush"} /\ goal' \in {"none", "flush"}
      <3>1. CASE awaiting # << >>
        BY <1>2, <1>5, <3>1 DEF Finish, Back
      <3>2. CASE awaiting = << >>
        BY <1>2, <1>5, <3>2 DEF Finish
      <3> QED BY <3>1, <3>2
    <2>2. Running' = 0
      BY <2>1 DEF Running
    <2>3. Plain => Plain'
      BY <1>1, <1>2, <1>5, <2>1, <2>2 DEF Plain
    <2>4. InStep => InStep'
      BY <1>1, <1>3 DEF InStep
    <2>5. Echoing => Echoing'
      BY <1>1, <1>2, <1>3, <2>1, <2>2, <2>4 DEF Echoing
    <2>6. Sides'
      BY <1>0, <1>1, <2>3, <2>5 DEF Sides
    <2>7. Balanced'
      BY <1>0, <1>1, <1>2, <1>5, <2>1, <2>2 DEF Balanced
    <2>8. Clock' /\ Settled'
      BY <1>0, <1>1, <1>2, <2>1 DEF Clock, Settled
    <2> QED BY <2>6, <2>7, <2>8 DEF Accounts
  <1> QED BY <1>2, <1>4, <1>5

\* What an END for the turn that is running takes away.
LEMMA EndedBalance ==
    ASSUME TypeOK, Balanced, turnRecorded,
           NEW why \in {"none", "interrupted"}, pc \notin {"down", "complete", "confirmed"},
           log' = Append(log, Rec("END", 0, turn, FALSE, why))
    PROVE  \A t \in Int : Balance(log', t) >= 0
  <1> DEFINE r == Rec("END", 0, turn, FALSE, why)
  <1>1. turn \in Int /\ nextTurns \in Nat /\ Running = 1
    BY DEF TypeOK, TurnOK, QueuesOK, Running
  <1>2. r \in Record /\ r.turn = turn /\ Weight(r) = -1
    <2>1. r \in Record
      BY <1>1, RecordMade
    <2>2. r.turn = turn /\ r.type = "END" /\ r.why # "next_turn" /\ r.late = FALSE
      BY DEF Rec
    <2> HIDE DEF r
    <2> QED BY <2>1, <2>2 DEF Weight
  <1> HIDE DEF r
  <1>3. Adds(turn, Weight(r))
    BY <1>2, BalanceAppend DEF r
  <1> SUFFICES ASSUME NEW t \in Int PROVE Balance(log', t) >= 0
    OBVIOUS
  <1> DEFINE x == Balance(log, t)
             y == Balance(log', t)
  <1>4. y = x + (IF t = turn THEN -1 ELSE 0) /\ x >= 0 /\ x \in Int
    BY <1>2, <1>3, BalanceType DEF Adds, Balanced
  <1>5. t = turn => x >= 1
    <2>1. Balance(log, turn) >= Running + nextTurns
      BY DEF Balanced
    <2>2. t = turn => x >= 1 + nextTurns
      BY <1>1, <2>1
    <2> HIDE DEF x
    <2> QED BY <1>1, <1>4, <2>2
  <1>6. y >= 0
    <2> HIDE DEF x, y
    <2> QED BY <1>4, <1>5
  <1> QED BY <1>6

\* Every event was posted by a runner that was launched.
LEMMA HeardEpoch == \A h \in Heard : h.epoch \in Nat \ {0}
  <1> TAKE h \in Heard
  <1>1. h.epoch \in 1 .. MaxEpochs
    BY DEF Heard
  <1> QED BY <1>1, ConstantsAssumption

\* Nobody is up, so nothing that was posted is the runner's.
LEMMA NobodyPosted ==
    ASSUME NEW q \in Seq(Heard)
    PROVE  Count(q, EndsOf(0)) = 0 /\ \A i \in DOMAIN q : q[i] \notin EchoesOf(0)
  <1>1. \A i \in DOMAIN q : q[i].epoch # 0 /\ q[i] \notin EchoesOf(0)
    <2> TAKE i \in DOMAIN q
    <2>1. q[i] \in Heard
      OBVIOUS
    <2>2. q[i].epoch # 0
      BY <2>1, HeardEpoch
    <2> QED BY <2>2 DEF EchoesOf
  <1>2. Count(q, EndsOf(0)) = 0
    BY <1>1, NothingPosted
  <1> QED BY <1>1, <1>2

\* The session is down, or was never up.
LEMMA ColdAccounts ==
    ASSUME Cold, MaxEpochs \in Nat, \A t \in Int : Balance(log', t) >= 0
    PROVE  Accounts'
  <1>1. /\ pc' = "down" /\ goal' = "none" /\ ~stopping' /\ awaiting' = << >> /\ piped' = << >>
        /\ inbox' = << >> /\ open' = 0 /\ nextTurns' = 0 /\ ~inTurn' /\ ~turnRecorded'
        /\ inTurn' = turnRecorded'
        /\ runner' = "none" /\ runnerEpoch' = 0 /\ nextEpoch' = 1
    BY DEF Cold
  <1>2. Running' = 0
    BY <1>1 DEF Running
  <1>3. Count(inbox', EndsOf(runnerEpoch')) = 0
    <2>1. << >> \in Seq(Heard)
      OBVIOUS
    <2> QED BY <1>1, <2>1, NobodyPosted
  <1>4. Plain'
    BY <1>1, <1>2, <1>3 DEF Plain
  <1> QED BY <1>1, <1>4 DEF Accounts, Clock, Settled, Sides, Balanced

\* The runner is stopped: it may end a turn that it had open.
LEMMA StoppedInbox ==
    ASSUME TypeOK, Shape, Clock, StopRunner
    PROVE  /\ inbox' \in Seq(Heard)
           /\ \A i \in DOMAIN inbox' : inbox'[i].epoch < nextEpoch
           /\ open' = 0 /\ piped' = << >> /\ runner' = "none"
           /\ \/ inbox' = inbox
              \/ /\ open > 0 /\ runner # "none"
                 /\ \E h \in EndsOf(runnerEpoch) : inbox' = Append(inbox, h)
  <1>0. inbox \in Seq(Heard) /\ open \in Nat
    BY DEF TypeOK, NativeOK
  <1>1. PICK bye \in Farewell : inbox' = inbox \o bye
    BY DEF StopRunner
  <1>2. CASE bye = << >>
    <2>1. inbox' = inbox
      BY <1>0, <1>1, <1>2, ConcatEmptySeq
    <2> QED BY <1>0, <2>1 DEF StopRunner, Clock
  <1>3. CASE bye # << >>
    <2> DEFINE h == [epoch |-> runnerEpoch, type |-> "END", text |-> "", why |-> "interrupted"]
    <2>1. open > 0 /\ runner # "none" /\ bye = <<h>>
      <3> DEFINE said == open > 0 /\ life = "up" /\ Len(inbox) < MaxInbox
      <3>1. bye \in IF said THEN {<<h>>} ELSE {}
        BY <1>1, <1>3 DEF Farewell
      <3>2. said /\ bye = <<h>>
        <4> HIDE DEF said, h
        <4> QED BY <3>1
      <3>3. open > 0
        BY <3>2
      <3>4. runner # "none"
        BY <1>0, <3>3 DEF Shape
      <3> QED BY <3>2, <3>3, <3>4
    <2>2. h \in Heard /\ h \in EndsOf(runnerEpoch) /\ h.epoch = runnerEpoch
      BY <2>1 DEF Shape, Heard, EndsOf
    <2> HIDE DEF h
    <2>3. inbox' = Append(inbox, h)
      BY <1>0, <1>1, <2>1, <2>2, AppendIsConcat
    <2>4. \A i \in DOMAIN inbox' : inbox'[i].epoch < nextEpoch
      <3>1. runnerEpoch < nextEpoch
        BY DEF Clock
      <3> QED BY <1>0, <2>2, <2>3, <3>1 DEF Clock
    <2> QED BY <1>0, <2>1, <2>2, <2>3, <2>4 DEF StopRunner
  <1> QED BY <1>2, <1>3

\* close_turn, and the END it makes up.
LEMMA CloseAccounts ==
    ASSUME TypeOK, Shape, Fit, Unrecovered, Accounts, CloseTurn \/ CloseTurnEnd
    PROVE  Accounts'
  <1>0. Clock /\ Settled /\ Sides /\ Balanced /\ turn \in Int /\ nextTurns \in Nat
    BY DEF Accounts, TypeOK, TurnOK, QueuesOK
  <1>1. CASE CloseTurn
    <2>1. /\ StopRunner /\ runnerEpoch' = 0 /\ pc = "close" /\ pc' = "closeEnd"
          /\ awaiting' = << >> /\ nextTurns' = 0
          /\ UNCHANGED <<log, goal, nextEpoch, inTurn, turnRecorded, stopping, turn>>
      BY <1>1 DEF CloseTurn
    <2>2. ~stopping
      BY <1>0, <2>1 DEF Clock
    <2>3. /\ inbox' \in Seq(Heard) /\ \A i \in DOMAIN inbox' : inbox'[i].epoch < nextEpoch
          /\ open' = 0 /\ piped' = << >> /\ runner' = "none"
      BY <1>0, <2>1, StoppedInbox
    <2>4. Running' = Running /\ Running \in Nat
      BY <2>1 DEF Running
    <2>5. Plain'
      <3>1. /\ Count(inbox', EndsOf(runnerEpoch')) = 0
            /\ \A i \in DOMAIN inbox' : inbox'[i] \notin EchoesOf(runnerEpoch')
        BY <2>1, <2>3, NobodyPosted
      <3> QED BY <2>1, <2>2, <2>3, <2>4, <3>1 DEF Plain
    <2>6. Balanced'
      <3> DEFINE x == Balance(log, turn)
      <3>1. x >= Running + nextTurns /\ x \in Int
        BY <1>0, <2>1, BalanceType DEF Balanced
      <3>2. x >= Running
        <4> HIDE DEF x
        <4> QED BY <1>0, <2>4, <3>1
      <3>3. Running' + nextTurns' = Running
        BY <2>1, <2>4
      <3> QED BY <1>0, <2>1, <3>2, <3>3 DEF Balanced
    <2>7. 0 < nextEpoch
      BY DEF TypeOK, RunnerOK
    <2>8. Clock' /\ Settled'
      BY <1>0, <2>1, <2>2, <2>3, <2>7 DEF Clock, Settled
    <2>9. Sides'
      BY <2>3, <2>5 DEF Sides
    <2> QED BY <2>6, <2>8, <2>9 DEF Accounts
  <1>2. CASE CloseTurnEnd
    <2>1. /\ pc = "closeEnd" /\ pc' = goal /\ goal' = "none" /\ goal \in {"auth", "failed"}
          /\ inTurn' = FALSE /\ turnRecorded' = FALSE
          /\ UNCHANGED <<runner, runnerEpoch, nextEpoch, epochTurns, inbox, open, piped,
                         awaiting, nextTurns, stopping, turn>>
      <3>1. ~(inTurn /\ turnRecorded) => ~turnRecorded
        BY <1>0 DEF Clock
      <3>2. turnRecorded' = FALSE
        BY <1>2, <3>1 DEF CloseTurnEnd, TypeOK, TurnOK
      <3> QED BY <1>2, <3>2 DEF CloseTurnEnd, GoTo, Unrecovered
    <2>2. /\ runner = "none" /\ ~stopping /\ runnerEpoch = 0 /\ nextTurns = 0 /\ open = 0
          /\ Plain /\ inbox \in Seq(Heard)
      BY <1>0, <2>1 DEF Fit, Clock, Settled, Shape, Sides, TypeOK, NativeOK
    <2>3. /\ turnRecorded => log' = Append(log, Rec("END", 0, turn, FALSE, "none"))
          /\ ~turnRecorded => log' = log
      BY <1>0, <1>2 DEF CloseTurnEnd, Clock
    <2>4. \A t \in Int : Balance(log', t) >= 0
      <3>1. CASE turnRecorded
        BY <1>0, <2>1, <2>3, <3>1, EndedBalance
      <3>2. CASE ~turnRecorded
        BY <1>0, <2>3, <3>2 DEF Balanced
      <3> QED BY <3>1, <3>2
    <2>5. Running' = 0
      BY <2>1 DEF Running
    <2>6. Plain'
      <3>1. Count(inbox', EndsOf(runnerEpoch')) = 0
        BY <2>1, <2>2, NobodyPosted
      <3>2. \A i \in DOMAIN inbox' : inbox'[i] \notin EchoesOf(runnerEpoch')
        BY <2>1, <2>2 DEF Plain
      <3>3. open' = 0 /\ nextTurns' = 0 /\ ~stopping' /\ awaiting' = << >> /\ piped' = << >>
            /\ pc' # "confirmed"
        BY <2>1, <2>2 DEF Plain
      <3>4. open' + Count(inbox', EndsOf(runnerEpoch')) <= Running' + nextTurns'
        BY <2>5, <3>1, <3>3
      <3> QED BY <2>1, <3>2, <3>3, <3>4 DEF Plain
    <2>7. Balanced' /\ Sides' /\ Settled' /\ Clock'
      BY <1>0, <2>1, <2>2, <2>4, <2>5, <2>6 DEF Balanced, Sides, Settled, Clock
    <2> QED BY <2>7 DEF Accounts
  <1> QED BY <1>1, <1>2

\* Another runner takes over, or none does.
LEMMA AttemptAccounts ==
    ASSUME TypeOK, Shape, Accounts, Ready, AttemptLaunch \/ AttemptFails
    PROVE  Accounts'
  <1>0. /\ Clock /\ Settled /\ Sides /\ Balanced /\ pc = "attempt" /\ ~stopping
        /\ turn \in Int /\ nextTurns \in Nat /\ inbox \in Seq(Heard)
        /\ awaiting = << >> /\ (NoEcho \/ ~inTurn)
    BY DEF Accounts, TypeOK, TurnOK, QueuesOK, NativeOK, AttemptLaunch, AttemptFails, Clock, Ready
  <1>1. inTurn = turnRecorded
    <2>1. CASE NoEcho
      <3>1. Plain
        BY <1>0, <2>1 DEF Sides, NoEcho, TypeOK, RunnerOK
      <3> QED BY <1>0, <3>1 DEF Plain
    <2>2. CASE ~inTurn
      BY <1>0, <2>2 DEF Clock, TypeOK, TurnOK
    <2> QED BY <1>0, <2>1, <2>2
  <1>2. UNCHANGED <<inbox, awaiting, inTurn, turnRecorded, nextTurns, stopping, turn>>
    BY DEF AttemptLaunch, AttemptFails
  <1>3. /\ open' = 0 /\ piped' = << >> /\ pc' \in {"flush", "attempt", "blocked"}
        /\ goal' # "finish"
    <2>1. goal = "flush"
      BY <1>0 DEF Shape, Clock
    <2> QED BY <1>0, <2>1 DEF AttemptLaunch, AttemptFails, MoveOn, GoTo
  <1>4. Running' = Running /\ Running \in {0, 1} /\ Waiting' = << >>
    BY <1>0, <1>2, <1>3 DEF Running, Waiting
  <1>5. Settled'
    BY <1>0, <1>2, <1>3 DEF Settled
  <1>6. Plain' \/ Count(inbox', EndsOf(runnerEpoch')) # 0
              \/ ~(\A i \in DOMAIN inbox' : inbox'[i] \notin EchoesOf(runnerEpoch'))
    BY <1>0, <1>1, <1>2, <1>3, <1>4 DEF Plain
  <1>7. CASE AttemptLaunch
    <2> DEFINE e == nextEpoch
    <2>1. /\ e \in 1 .. MaxEpochs /\ runnerEpoch' = e /\ nextEpoch' = e + 1
          /\ runner' = Rung /\ Rung # "none" /\ log' = log
          /\ epochTurns' = [epochTurns EXCEPT ![e] = turn]
      BY <1>7 DEF AttemptLaunch, TypeOK, RunnerOK
    <2>2. \A i \in DOMAIN inbox : inbox[i].epoch # e /\ inbox[i].epoch < e + 1
      <3> TAKE i \in DOMAIN inbox
      <3>1. inbox[i].epoch < e /\ inbox[i] \in Heard
        BY <1>0 DEF Clock
      <3>2. inbox[i].epoch \in Int
        BY <3>1, HeardEpoch
      <3> HIDE DEF e
      <3> QED BY <2>1, <3>1, <3>2
    <2>3. /\ Count(inbox, EndsOf(e)) = 0 /\ Count(inbox, EchoesOf(e)) = 0
          /\ Alternates(inbox, e, Running) /\ Echoed(inbox, e, << >>)
          /\ Level(inbox, e, Running, Len(inbox)) = Running
      BY <1>0, <1>4, <2>2, NothingPosted
    <2>4. \A i \in DOMAIN inbox : inbox[i] \notin EchoesOf(e)
      BY <2>2 DEF EchoesOf
    <2>5. Plain'
      BY <1>2, <1>6, <2>1, <2>3, <2>4
    <2>6. ASSUME Delivery[runner'] = "echoed" PROVE Echoing'
      <3>1. ~inTurn
        <4>1. runner' \in Providers
          BY <2>1, RungType DEF TypeOK, Usable
        <4> QED BY <1>0, <2>6, <4>1 DEF NoEcho
      <3>2. nextTurns = 0 /\ Running = 0
        BY <1>0, <1>1, <3>1 DEF Settled, Running
      <3>3. InStep'
        BY <1>2, <1>3, <1>4, <2>1, <2>3 DEF InStep
      <3> QED BY <1>2, <1>3, <1>4, <2>1, <2>3, <3>2, <3>3 DEF Echoing
    <2>7. Sides'
      BY <1>0, <1>2, <2>1, <2>5, <2>6 DEF Sides
    <2>8. Balanced'
      BY <1>0, <1>2, <1>3, <1>4, <2>1 DEF Balanced
    <2>9. Clock'
      <3>1. epochTurns'[e] = turn /\ e < e + 1
        BY <2>1 DEF TypeOK, RunnerOK
      <3> QED BY <1>0, <1>2, <1>3, <2>1, <2>2, <3>1 DEF Clock
    <2> QED BY <1>5, <2>7, <2>8, <2>9 DEF Accounts
  <1>8. CASE AttemptFails
    <2>1. /\ runner' = "none" /\ runnerEpoch' = 0
          /\ nextEpoch' \in {nextEpoch, nextEpoch + 1} /\ nextEpoch \in Nat \ {0}
          /\ log' \in {log, Append(log, Rec("ERROR", 0, turn, FALSE, "crash"))}
      <3>1. nextEpoch \in Nat \ {0}
        BY ConstantsAssumption DEF TypeOK, RunnerOK
      <3>2. log' \in {log, Append(log, Rec("ERROR", 0, turn, FALSE, "crash"))}
        BY <1>8 DEF AttemptFails
      <3> QED BY <1>8, <3>1, <3>2 DEF AttemptFails
    <2>2. \A t \in Int : Balance(log', t) = Balance(log, t)
      <3> DEFINE r == Rec("ERROR", 0, turn, FALSE, "crash")
      <3>1. r \in Record /\ r.type = "ERROR" /\ r.why = "crash"
        BY <1>0, RecordMade DEF Rec, Kinds
      <3> HIDE DEF r
      <3> QED BY <2>1, <3>1, NothingAdded DEF r
    <2>3. Plain'
      <3>1. /\ Count(inbox, EndsOf(0)) = 0
            /\ \A i \in DOMAIN inbox : inbox[i] \notin EchoesOf(0)
        BY <1>0, NobodyPosted
      <3> QED BY <1>2, <1>6, <2>1, <3>1
    <2>4. Sides' /\ Balanced'
      BY <1>0, <1>2, <1>3, <1>4, <2>1, <2>2, <2>3 DEF Sides, Balanced
    <2>5. Clock'
      <3>1. \A i \in DOMAIN inbox : inbox[i].epoch < nextEpoch'
        <4> TAKE i \in DOMAIN inbox
        <4>1. inbox[i].epoch < nextEpoch /\ inbox[i] \in Heard
          BY <1>0 DEF Clock
        <4>2. inbox[i].epoch \in Int
          BY <4>1, HeardEpoch
        <4> QED BY <2>1, <4>1, <4>2
      <3> QED BY <1>0, <1>2, <1>3, <2>1, <3>1 DEF Clock
    <2> QED BY <1>5, <2>4, <2>5 DEF Accounts
  <1> QED BY <1>7, <1>8

\* The session is opened.
LEMMA OpenAccounts ==
    ASSUME TypeOK, Shape, Accounts, OpenAt
    PROVE  Accounts'
  <1>0. Clock /\ Settled /\ Sides /\ Balanced
    BY DEF Accounts
  <1>1. /\ pc = "down" /\ pc' = "reconcile" /\ turn' = LastTurn(log)
        /\ UNCHANGED <<log, goal, runner, runnerEpoch, nextEpoch, epochTurns, inbox, open, piped,
                       awaiting, inTurn, turnRecorded, nextTurns, stopping>>
    BY DEF OpenAt
  <1>2. /\ runner = "none" /\ ~stopping /\ runnerEpoch = 0 /\ ~inTurn /\ ~turnRecorded
        /\ nextTurns = 0
    BY <1>0, <1>1 DEF Clock
  <1>3. Running = 0 /\ Running' = 0
    BY <1>1, <1>2 DEF Running
  <1>4. turn' \in Int
    BY <1>1, NewestTurn DEF TypeOK, DiskOK, Shape
  <1>5. Plain'
    <2>1. Plain
      BY <1>0, <1>2 DEF Sides
    <2> QED BY <1>1, <1>2, <1>3, <2>1 DEF Plain
  <1>6. Sides' /\ Settled' /\ Clock'
    BY <1>0, <1>1, <1>2, <1>5 DEF Sides, Settled, Clock
  <1>7. Balanced'
    <2>1. Running' + nextTurns' = 0
      BY <1>1, <1>2, <1>3
    <2>2. Balance(log', turn') >= 0 /\ \A t \in Int : Balance(log', t) >= 0
      BY <1>0, <1>1, <1>4 DEF Balanced
    <2> QED BY <2>1, <2>2 DEF Balanced
  <1> QED BY <1>6, <1>7 DEF Accounts

\* The session goes down: the runner is stopped first.
LEMMA StopAccounts ==
    ASSUME TypeOK, Shape, Accounts, Stop
    PROVE  Accounts'
  <1>0. /\ Clock /\ Settled /\ Sides /\ Balanced /\ inbox \in Seq(Heard) /\ open \in Nat
        /\ turn \in Int
    BY DEF Accounts, TypeOK, NativeOK, TurnOK
  <1> DEFINE e == runnerEpoch
  <1>1. /\ pc = "recv" /\ pc' = "drain" /\ stopping' = TRUE /\ StopRunner
        /\ UNCHANGED <<log, goal, runnerEpoch, nextEpoch, epochTurns, awaiting, inTurn,
                       turnRecorded, nextTurns, turn>>
    BY DEF Stop, Receiving
  <1>2. /\ inbox' \in Seq(Heard)
        /\ \A i \in DOMAIN inbox' : inbox'[i].epoch < nextEpoch
        /\ open' = 0 /\ piped' = << >> /\ runner' = "none"
        /\ \/ inbox' = inbox
           \/ /\ open > 0 /\ runner # "none"
              /\ \E h \in EndsOf(e) : inbox' = Append(inbox, h)
    BY <1>0, <1>1, StoppedInbox
  <1>3. ~stopping /\ Waiting' = awaiting /\ Waiting = awaiting /\ Running' = Running
        /\ Running \in Nat /\ nextTurns \in Nat
    BY <1>0, <1>1 DEF Clock, Waiting, Running, TypeOK, QueuesOK
  <1>4. ASSUME Plain PROVE Plain'
    <2> DEFINE x == Balance(log, turn)
               b == Count(inbox', EndsOf(e))
    <2>1. x >= Running + nextTurns /\ x \in Int
      BY <1>0, <1>1, BalanceType DEF Balanced
    <2>2. PlainBox(inbox, open)
      BY <1>3, <1>4 DEF Plain, PlainBox
    <2>3. PlainBox(inbox', open) \/ PlainBox(inbox', open - 1)
      <3>1. CASE inbox' = inbox
        BY <2>2, <3>1
      <3>2. CASE open > 0 /\ \E h \in EndsOf(e) : inbox' = Append(inbox, h)
        <4>1. PICK h \in EndsOf(e) : inbox' = Append(inbox, h)
          BY <3>2
        <4>2. h \in Heard /\ h.type = "END"
          BY DEF EndsOf
        <4> QED BY <1>0, <2>2, <3>2, <4>1, <4>2, PlainBoxPost
      <3> QED BY <1>2, <3>1, <3>2
    <2>4. /\ \A i \in DOMAIN inbox' : inbox'[i] \notin EchoesOf(e)
          /\ open + b <= Running + nextTurns \/ (open - 1) + b <= Running + nextTurns
      BY <2>3 DEF PlainBox
    <2>5. b \in Nat /\ (open > 0 \/ open + b <= Running + nextTurns)
      <3>1. open = 0 => inbox' = inbox
        BY <1>0, <1>2
      <3> QED BY <1>0, <1>2, <2>2, <3>1, CountType DEF PlainBox
    <2>6. b <= x
      <3> HIDE DEF b, x
      <3> QED BY <1>0, <1>3, <2>1, <2>4, <2>5
    <2>7. awaiting = << >> /\ inTurn = turnRecorded
      BY <1>1, <1>4 DEF Plain
    <2> QED BY <1>1, <1>2, <2>4, <2>6, <2>7 DEF Plain
  <1>5. ASSUME Echoing PROVE Echoing'
    <2>1. EchoBox(inbox, open)
      BY <1>3, <1>5 DEF Echoing, InStep, EchoBox
    <2>2. Alternates(inbox', e, Running) /\ Echoed(inbox', e, awaiting)
      <3>1. CASE inbox' = inbox
        BY <2>1, <3>1 DEF EchoBox
      <3>2. CASE open > 0 /\ \E h \in EndsOf(e) : inbox' = Append(inbox, h)
        <4>1. PICK h \in EndsOf(e) : inbox' = Append(inbox, h)
          BY <3>2
        <4>2. h \in Heard /\ h.type = "END"
          BY DEF EndsOf
        <4>3. EchoBox(inbox', open - 1)
          BY <1>0, <2>1, <3>2, <4>1, <4>2, EchoBoxPost
        <4> QED BY <4>3 DEF EchoBox
      <3> QED BY <1>2, <3>1, <3>2
    <2> QED BY <1>1, <1>3, <1>5, <2>2 DEF Echoing
  <1>6. Sides'
    BY <1>0, <1>1, <1>2, <1>3, <1>4, <1>5 DEF Sides
  <1>7. Clock' /\ Settled' /\ Balanced'
    BY <1>0, <1>1, <1>2, <1>3 DEF Clock, Settled, Balanced
  <1> QED BY <1>6, <1>7 DEF Accounts

\* It is down: the turn that was running is ended, if nobody ended it, or the
\* log is left as it is.
LEMMA DownAccounts ==
    ASSUME TypeOK, Shape, Accounts, StopEnd \/ Crash
    PROVE  Accounts'
  <1>0. Clock /\ Balanced /\ MaxEpochs \in Nat
    BY ConstantsAssumption DEF Accounts
  <1>1. Cold
    BY DEF StopEnd, Crash
  <1>2. \A t \in Int : Balance(log', t) >= 0
    <2>1. CASE log' = log
      BY <1>0, <2>1 DEF Balanced
    <2>2. CASE log' # log
      <3>1. /\ pc = "drain" /\ turnRecorded
            /\ log' = Append(log, Rec("END", 0, turn, FALSE, "interrupted"))
        BY <2>2 DEF StopEnd, Crash
      <3> QED BY <1>0, <3>1, EndedBalance
    <2> QED BY <2>1, <2>2
  <1> QED BY <1>0, <1>1, <1>2, ColdAccounts

\* A chat that was never opened has nothing to account for.
LEMMA InitAccounts == Init => Accounts
  <1> SUFFICES ASSUME Init PROVE Accounts
    OBVIOUS
  <1>1. /\ log = << >> /\ inbox = << >> /\ awaiting = << >> /\ piped = << >> /\ open = 0
        /\ nextTurns = 0 /\ inTurn = FALSE /\ turnRecorded = FALSE /\ runner = "none"
        /\ runnerEpoch = 0 /\ nextEpoch = 1 /\ pc = "down" /\ goal = "none" /\ stopping = FALSE
    BY DEF Init
  <1>2. \A t \in Int : Balance(log, t) = 0
    <2> TAKE t \in Int
    <2>1. Count(log, Starting(t)) = 0 /\ Count(log, Ending(t)) = 0
      <3>1. Len(log) = 0
        BY <1>1
      <3> QED BY <3>1, SeenType DEF Count
    <2> QED BY <2>1 DEF Balance
  <1>3. Running = 0 /\ Count(inbox, EndsOf(runnerEpoch)) = 0
    <2>1. Len(inbox) = 0
      BY <1>1
    <2> QED BY <1>1, <2>1, SeenType DEF Running, Count
  <1>4. Plain
    <2>1. DOMAIN inbox = {}
      BY <1>1
    <2>2. open + Count(inbox, EndsOf(runnerEpoch)) <= Running + nextTurns
      BY <1>1, <1>3
    <2> QED BY <1>1, <2>1, <2>2 DEF Plain
  <1> QED BY <1>1, <1>2, <1>4 DEF Accounts, Clock, Settled, Sides, Balanced

\* Every step keeps the accounts: one case for each action of the conductor, its
\* client and its provider.
LEMMA StepAccounts ==
    ASSUME NoContext, TypeOK, Shape, Fit, Unrecovered, Accounts, Ready, [Next]_vars
    PROVE  Accounts'
  <1>1. ~Recovering /\ pc \notin RecoveryPlaces
    BY DEF Unrecovered, NoRecovery, Recovering
  <1>2. CASE \/ LaunchOnce \/ Acknowledge \/ AttemptKept \/ AttemptRetune \/ AttemptNoRung
             \/ Blocked \/ Flush \/ DeliverDone \/ Unauthenticated \/ Failed
             \/ \E k \in Kinds : Refused(k)
             \/ \E S \in SUBSET Providers : SetProviders(S)
             \/ SetAutoremove \/ SetOther \/ \E w \in Words : Send(w)
             \/ ReconcileDrop \/ ReconcileCommit
    BY <1>2, QuietAccounts
  <1>3. CASE AttemptLaunch \/ AttemptFails
    BY <1>3, AttemptAccounts
  <1>4. CASE DeliverEchoed \/ DeliverOpening \/ Complete \/ HearConfirm \/ Confirmed \/ Finish
    BY <1>4, DeliverEchoedAccounts, DeliverOpeningAccounts, CompleteAccounts, ConfirmAccounts,
       ConfirmedAccounts, FinishAccounts
  <1>5. CASE \/ HearStraggler \/ HearText \/ HearEnd \/ HearError
             \/ \E type \in {"TEXT", "ERROR", "END"} : HearStopping(type)
    BY <1>5, HeardAccounts
  <1>6. CASE CloseTurn \/ CloseTurnEnd
    BY <1>6, CloseAccounts
  <1>7. CASE Stop \/ StopEnd \/ Crash \/ OpenAt
    BY <1>7, StopAccounts, DownAccounts, OpenAccounts
  <1>8. CASE Provider
    BY <1>8, ProviderAccounts
  <1>9. CASE \/ RefusedForContext \/ RecoverContext \/ CompactionTimeout \/ Handoff \/ Continue
             \/ Replay \/ RecoveryEnded \/ GiveUp \/ GaveUp \/ ResumeRecovery
    <2>1. ~RefusedForContext
      BY DEF RefusedForContext, Refusal, NoContext
    <2> QED BY <1>1, <1>9, <2>1
         DEF RecoverContext, CompactionTimeout, Handoff, Continue, Replay, RecoveryMessage,
             RecoveryEnded, GiveUp, GaveUp, ResumeRecovery, RecoveryPlaces, Recovering
  <1>10. CASE UNCHANGED vars
    BY <1>10 DEF vars, Accounts, Clock, Settled, Sides, Balanced, Plain, Echoing, InStep, Waiting,
                 Running
  <1> QED BY <1>2, <1>3, <1>4, <1>5, <1>6, <1>7, <1>8, <1>9, <1>10
       DEF Next, Work, Client, Refuse, Hear

\* No turn is running where the thread looks for a runner, or has none.
Between ==
    /\ pc \in {"attempt", "auth", "failed"} \/ ~launchedOnce => ~inTurn
    /\ pc = "finish" => runner # "none"
    /\ runner = "none" /\ pc # "closeEnd" /\ ~stopping => ~inTurn

\* Steps that leave the turn and the runner alone keep Between.
LEMMA BetweenStays ==
    ASSUME Between, UNCHANGED <<inTurn, runner, stopping, launchedOnce>>, pc # "closeEnd",
           pc' \in {"attempt", "auth", "failed"} => ~inTurn,
           pc' = "finish" => pc = "finish"
    PROVE  Between'
  BY DEF Between

\* Every step keeps Between: attempt_rung is reached only once the turn that ran
\* is closed.
LEMMA StepBetween ==
    ASSUME NoContext, "race" \notin Nature, TypeOK, Shape, Unrecovered, Piped, Accounts,
           Between, [Next]_vars
    PROVE  Between'
  <1>0. Clock /\ Settled /\ Sides /\ ~Recovering /\ pc \notin RecoveryPlaces
        /\ recovery.stage = "none"
    BY DEF Accounts, Unrecovered, NoRecovery, Recovering
  <1>1. CASE \/ Blocked \/ Flush \/ DeliverDone \/ AttemptKept \/ AttemptRetune \/ AttemptNoRung
             \/ (\E k \in Kinds : Refused(k))
    <2>1. /\ UNCHANGED <<inTurn, runner, stopping, launchedOnce>> /\ pc # "closeEnd"
          /\ pc' \notin {"attempt", "auth", "failed", "finish"}
      <3>1. CASE Blocked \/ Flush \/ DeliverDone
        BY <3>1 DEF Blocked, Flush, DeliverDone, GoTo, Back
      <3>2. CASE AttemptKept \/ AttemptRetune \/ AttemptNoRung
        BY <1>0, <3>2 DEF AttemptKept, AttemptRetune, AttemptNoRung, GoTo, Shape, Clock
      <3>3. CASE \E k \in Kinds : Refused(k)
        BY <3>3 DEF Refused, Refusal, Delivering, Closing
      <3> QED BY <1>1, <3>1, <3>2, <3>3
    <2> QED BY <2>1, BetweenStays
  <1>2. CASE Provider \/ DeliverOpening
    <2>1. /\ UNCHANGED <<inTurn, runner, stopping, launchedOnce>>
          /\ pc \in {"recv", "deliver"} /\ pc' \in {pc, "complete"}
      <3>1. CASE Provider
        BY <3>1 DEF Provider, Echo, Speak, Exit, Reap, EndTurn, FailTurn, RunnerOnly, Runs
      <3>2. CASE DeliverOpening
        BY <3>2 DEF DeliverOpening, Delivering
      <3> QED BY <1>2, <3>1, <3>2
    <2> QED BY <2>1, BetweenStays
  <1>3. CASE HearStraggler \/ HearText \/ HearError \/ HearConfirm
    <2>1. /\ UNCHANGED <<inTurn, runner, stopping, launchedOnce>>
          /\ pc \in {"recv", "drain"} /\ pc' \in {pc, "close", "confirmed"}
      BY <1>0, <1>3 DEF HearStraggler, HearText, HearError, HearConfirm, Hears, Hearing, Receiving,
                        Closing
    <2> QED BY <2>1, BetweenStays
  <1>4. CASE \/ SetAutoremove \/ SetOther \/ (\E S \in SUBSET Providers : SetProviders(S))
             \/ (\E w \in Words : Send(w)) \/ OpenAt \/ ReconcileDrop \/ ReconcileCommit
    <2>1. /\ UNCHANGED <<inTurn, runner, stopping, launchedOnce>>
          /\ pc # "closeEnd" /\ pc' \in {"recv", "ack", "reconcile"}
      BY <1>4 DEF SetAutoremove, SetOther, SetProviders, Send, OpenAt, ReconcileDrop,
                  ReconcileCommit, Receiving
    <2> QED BY <2>1, BetweenStays
  <1>5. CASE Unauthenticated \/ Failed
    <2>1. /\ UNCHANGED <<inTurn, runner, stopping, launchedOnce>> /\ pc \in {"auth", "failed"}
          /\ pc' # "finish"
      BY <1>5 DEF Unauthenticated, Failed, Back, GoTo, MoveOn
    <2>2. ~inTurn
      BY <2>1 DEF Between
    <2> QED BY <2>1, <2>2, BetweenStays
  <1>6. CASE Acknowledge
    <2>1. /\ UNCHANGED <<inTurn, runner, stopping, launchedOnce>> /\ pc = "ack"
          /\ pc' = IF ~Alive \/ (~inTurn /\ Stale) THEN "attempt" ELSE "flush"
      BY <1>6 DEF Acknowledge, Dispatch, DispatchPc, GoTo
    <2>2. ~stopping /\ life # "dead"
      BY <2>1 DEF Piped
    <2>3. pc' = "attempt" => ~inTurn
      BY <2>1, <2>2 DEF Alive, Between
    <2> QED BY <2>1, <2>3, BetweenStays
  <1>7. CASE LaunchOnce
    <2>1. /\ UNCHANGED <<inTurn, runner, stopping>> /\ ~launchedOnce /\ launchedOnce'
          /\ pc' \in {"flush", "attempt"}
      BY <1>0, <1>7 DEF LaunchOnce, GoTo
    <2> QED BY <2>1 DEF Between
  <1>8. CASE DeliverEchoed \/ Complete
    <2>1. /\ UNCHANGED <<runner, stopping, launchedOnce>> /\ pc \in {"deliver", "complete"}
          /\ pc' = "deliver"
      BY <1>8 DEF DeliverEchoed, Delivering, Complete
    <2>2. runner # "none" /\ launchedOnce
      BY <2>1 DEF Shape, Piped
    <2> QED BY <2>1, <2>2 DEF Between
  <1>9. CASE Confirmed
    <2>1. /\ UNCHANGED <<runner, stopping, launchedOnce>> /\ pc = "confirmed"
          /\ pc' \in {"recv", "drain"}
      BY <1>9 DEF Confirmed, Back
    <2>2. launchedOnce /\ (runner # "none" \/ stopping)
      BY <1>0, <2>1 DEF Piped, Sides, Plain
    <2> QED BY <2>1, <2>2 DEF Between
  <1>10. CASE HearEnd \/ \E type \in {"TEXT", "ERROR", "END"} : HearStopping(type)
    <2>1. /\ UNCHANGED <<runner, stopping, launchedOnce>> /\ inTurn' \in {FALSE, inTurn}
          /\ pc \in {"recv", "drain"}
          /\ HearEnd => inTurn' = FALSE
          /\ ~HearEnd => pc' = pc
      BY <1>10 DEF HearEnd, HearStopping, Hears, Hearing, Receiving
    <2>2. HearEnd => ~stopping /\ runnerEpoch = Head(inbox).epoch /\ inbox # << >>
      BY DEF HearEnd, Hears, Straggler, Hearing
    <2>3. HearEnd => runner # "none"
      <3>1. HearEnd => Head(inbox).epoch # 0
        BY <2>2, HeardHead, HeardEpoch
      <3> QED BY <1>0, <2>2, <3>1 DEF Clock
    <2>4. CASE HearEnd
      BY <2>1, <2>3, <2>4 DEF Between
    <2>5. CASE ~HearEnd
      <3>1. inTurn' => inTurn
        BY <2>1
      <3>2. pc' \in {"recv", "drain"} /\ UNCHANGED <<runner, stopping, launchedOnce>>
        BY <2>1, <2>5
      <3> QED BY <2>1, <3>1, <3>2 DEF Between
    <2> QED BY <2>4, <2>5
  <1>11. CASE Finish
    <2>1. /\ UNCHANGED <<runner, stopping, launchedOnce>> /\ pc = "finish" /\ pc' # "finish"
          /\ pc' \notin {"auth", "failed"}
      BY <1>11 DEF Finish, Back
    <2>2. pc' = "attempt" => inTurn' = inTurn
      BY <1>11 DEF Finish, Back
    <2>3. ~inTurn /\ launchedOnce /\ runner # "none"
      BY <1>0, <2>1 DEF Clock, Piped, Between
    <2> QED BY <2>1, <2>2, <2>3 DEF Between
  <1>12. CASE CloseTurn
    BY <1>12 DEF CloseTurn, Piped, Between
  <1>13. CASE CloseTurnEnd
    <2>1. inTurn' = FALSE /\ pc' \in {"auth", "failed"}
      BY <1>13 DEF CloseTurnEnd, GoTo, Unrecovered
    <2> QED BY <2>1 DEF Between
  <1>14. CASE AttemptLaunch \/ AttemptFails
    <2>1. /\ UNCHANGED <<inTurn, stopping, launchedOnce>> /\ pc = "attempt"
          /\ pc' \in {"flush", "attempt", "blocked"}
      BY <1>0, <1>14 DEF AttemptLaunch, AttemptFails, MoveOn, GoTo, Shape, Clock
    <2>2. ~inTurn
      BY <2>1 DEF Between
    <2> QED BY <2>1, <2>2 DEF Between
  <1>15. CASE Stop
    <2>1. inTurn' = inTurn /\ launchedOnce /\ launchedOnce' /\ stopping' /\ pc' = "drain"
      BY <1>15 DEF Stop
    <2> QED BY <2>1 DEF Between
  <1>16. CASE StopEnd \/ Crash
    <2>1. inTurn' = FALSE /\ pc' = "down"
      BY <1>16 DEF StopEnd, Crash, Cold
    <2> QED BY <2>1 DEF Between
  <1>17. CASE \/ RefusedForContext \/ RecoverContext \/ CompactionTimeout \/ Handoff \/ Continue
              \/ Replay \/ RecoveryEnded \/ GiveUp \/ GaveUp \/ ResumeRecovery
    <2>1. ~RefusedForContext
      BY DEF RefusedForContext, Refusal, NoContext
    <2> QED BY <1>0, <1>17, <2>1
         DEF RecoverContext, CompactionTimeout, Handoff, Continue, Replay, RecoveryMessage,
             RecoveryEnded, GiveUp, GaveUp, ResumeRecovery, RecoveryPlaces
  <1>18. CASE UNCHANGED vars
    BY <1>18 DEF vars, Between
  <1> QED BY <1>1, <1>2, <1>3, <1>4, <1>5, <1>6, <1>7, <1>8, <1>9, <1>10, <1>11, <1>12, <1>13,
             <1>14, <1>15, <1>16, <1>17, <1>18
       DEF Next, Work, Client, Refuse, Hear

\* The log's turns are accounted for.
LEMMA AccountsMatch ==
    ASSUME TypeOK, Accounts
    PROVE  EndsMatchOpenings
  <1> SUFFICES ASSUME NEW t \in {log[i].turn : i \in DOMAIN log}
               PROVE  Cardinality({i \in DOMAIN log : /\ log[i].turn = t /\ ~log[i].late
                                                      /\ log[i].type = "END"})
                      <= Cardinality({i \in DOMAIN log : /\ log[i].turn = t
                                                         /\ \/ log[i].type = "START"
                                                            \/ log[i].why = "next_turn"})
    BY DEF EndsMatchOpenings
  <1>1. /\ log \in Seq(Record) /\ Len(log) \in Nat /\ DOMAIN log = 1 .. Len(log)
        /\ \A i \in 1 .. Len(log) : log[i] \in Record /\ log[i].turn \in Int
    BY DEF TypeOK, DiskOK, Record
  <1>2. t \in Int
    BY <1>1
  <1>3. {i \in DOMAIN log : /\ log[i].turn = t /\ ~log[i].late /\ log[i].type = "END"}
            = {i \in 1 .. Len(log) : log[i] \in Ending(t)}
    BY <1>1 DEF Ending
  <1>4. {i \in DOMAIN log : /\ log[i].turn = t
                            /\ \/ log[i].type = "START" \/ log[i].why = "next_turn"}
            = {i \in 1 .. Len(log) : log[i] \in Starting(t)}
    BY <1>1 DEF Starting
  <1> DEFINE x == Count(log, Starting(t))
             y == Count(log, Ending(t))
  <1>5. x - y >= 0 /\ x \in Nat /\ y \in Nat
    BY <1>1, <1>2, SeenType DEF Accounts, Balanced, Balance, Count
  <1>6. y <= x
    <2> HIDE DEF x, y
    <2> QED BY <1>5
  <1> QED BY <1>3, <1>4, <1>6 DEF Count, Seen

\* An idle chat's runner has nothing to do.
LEMMA AccountsIdle ==
    ASSUME TypeOK, Accounts, pc = "recv", ~inTurn, runner # "none",
           Delivery[runner] = "echoed" => awaiting = << >>
    PROVE  open = 0 /\ piped = << >>
  <1>0. /\ Clock /\ Settled /\ Sides /\ ~stopping /\ open \in Nat /\ inbox \in Seq(Heard)
        /\ piped \in Seq(Text)
    BY DEF Accounts, Clock, TypeOK, NativeOK
  <1>1. Running = 0 /\ nextTurns = 0 /\ Waiting = awaiting
    BY <1>0 DEF Clock, Settled, Running, Waiting
  <1> DEFINE e == runnerEpoch
             c == Count(inbox, EndsOf(e))
             d == Count(inbox, EchoesOf(e))
  <1>2. c \in Nat /\ d \in Nat
    BY <1>0, CountType
  <1>3. CASE Delivery[runner] # "echoed"
    <2>1. open + c <= 0 /\ piped = << >>
      BY <1>0, <1>1, <1>3 DEF Sides, Plain
    <2> HIDE DEF c
    <2> QED BY <1>0, <1>2, <2>1
  <1>4. CASE Delivery[runner] = "echoed"
    <2>1. Echoing /\ InStep /\ awaiting = << >>
      BY <1>0, <1>4 DEF Sides, Echoing
    <2>2. d = 0 /\ Len(piped) = 0
      <3>1. 0 = d + Len(piped) /\ Len(piped) \in Nat
        BY <1>0, <1>1, <2>1 DEF InStep
      <3> HIDE DEF d
      <3> QED BY <1>2, <3>1
    <2>3. \A i \in DOMAIN inbox : inbox[i] \notin StartsOf(e)
      BY <1>0, <2>2, CountSome DEF StartsOf
    <2>4. Count(inbox, StartsOf(e)) = 0
      BY <1>0, <2>3, CountNone
    <2>5. Level(inbox, e, 0, Len(inbox)) = open /\ open \in {0, 1}
      BY <1>0, <1>1, <2>1 DEF Echoing, Alternates
    <2>6. Level(inbox, e, 0, Len(inbox)) = 0 + 0 - c
      BY <2>4 DEF Level, Count
    <2>7. open = 0 - c
      <3> HIDE DEF c
      <3> QED BY <1>2, <2>5, <2>6
    <2>8. open = 0
      <3> HIDE DEF c
      <3> QED BY <1>2, <2>5, <2>7
    <2> QED BY <1>0, <2>2, <2>8
  <1> QED BY <1>3, <1>4

\* What holds of the turns throughout.
TurnsKept ==
    /\ TypeOK /\ Shape /\ Accounts
    /\ NoEcho \/ (Piped /\ Between)

\* The accounts hold in every reachable state, with what an echoing provider's
\* accounts need besides.
LEMMA TurnsInvariant ==
    ASSUME NoContext, NoEcho \/ "race" \notin Nature
    PROVE  Spec => []TurnsKept
  <1> DEFINE Inv == TypeOK /\ Shape /\ Ledger /\ Single /\ Order /\ Fit /\ Unrecovered
  <1>1. Spec => []Inv
    <2>1. Init => Unrecovered /\ Fit
      BY DEF Init, Unrecovered, Spared, RecoveryPlaces, Fit
    <2>2. (TypeOK /\ Shape /\ Ledger /\ Single) /\ Order /\ Fit /\ Unrecovered /\ [Next]_vars
            => (Order /\ Fit /\ Unrecovered)'
      BY StepUnrecovered, StepOrder, StepFit DEF Unrecovered, RecoveryPlaces
    <2> QED BY <2>1, <2>2, QueueInvariant, InitOrder, PTL DEF Spec
  <1>2. CASE NoEcho
    <2>1. Init => awaiting = << >>
      BY DEF Init
    <2>2. Inv /\ awaiting = << >> /\ Accounts /\ [Next]_vars => (awaiting = << >> /\ Accounts)'
      BY <1>2, StepNoEcho, StepAccounts DEF Ready
    <2>3. Inv /\ Accounts => TurnsKept
      BY <1>2 DEF TurnsKept
    <2> HIDE DEF Inv
    <2> QED BY <1>1, <2>1, <2>2, <2>3, InitAccounts, PTL DEF Spec
  <1>3. CASE "race" \notin Nature
    <2>1. Init => Piped /\ Between
      BY DEF Init, Piped, Between
    <2>2. Inv /\ Piped /\ Between /\ Accounts /\ [Next]_vars => (Piped /\ Between /\ Accounts)'
      <3>1. Piped /\ Between => Ready
        BY DEF Piped, Between, Ready
      <3> QED BY <1>3, <3>1, StepPiped, StepBetween, StepAccounts
    <2>3. Inv /\ Piped /\ Between /\ Accounts => TurnsKept
      BY DEF TurnsKept
    <2> HIDE DEF Inv
    <2> QED BY <1>1, <2>1, <2>2, <2>3, InitAccounts, PTL DEF Spec
  <1> QED BY <1>2, <1>3

\* No turn of the log is ended more often than it was opened: not by the END of
\* a turn that an interruption ended already, not by the END close_turn or stop
\* makes up for a turn nobody ended, not by one that a runner posted before its
\* successor was launched.
THEOREM TurnsMatch ==
    ASSUME NoContext, NoEcho \/ "race" \notin Nature
    PROVE  Spec => []EndsMatchOpenings
  <1>1. TurnsKept => EndsMatchOpenings
    BY AccountsMatch DEF TurnsKept
  <1> QED BY <1>1, TurnsInvariant, PTL

\* A chat that says it is idle is idle: while run waits for its next event and
\* holds no turn, its runner has neither a native turn left nor a line on its
\* pipe that would begin one.
THEOREM IdleIsIdle ==
    ASSUME NoContext, NoEcho \/ "race" \notin Nature
    PROVE  Spec => []NoFalseIdle
  <1>1. TurnsKept => NoFalseIdle
    <2> SUFFICES ASSUME TurnsKept, pc = "recv", ~inTurn, runner # "none"
                 PROVE  open = 0 /\ piped = << >>
      BY DEF NoFalseIdle, Idle
    <2>1. TypeOK /\ Accounts /\ runner \in Providers
      BY DEF TurnsKept, TypeOK, RunnerOK
    <2>2. ~stopping
      BY <2>1 DEF Accounts, Clock
    <2>3. Delivery[runner] = "echoed" => awaiting = << >>
      BY <2>1, <2>2 DEF TurnsKept, NoEcho, Piped
    <2> QED BY <2>1, <2>3, AccountsIdle
  <1> QED BY <1>1, TurnsInvariant, PTL

\* What is unanswered belongs to a turn that is running, and nothing is behind
\* it but the messages of the native turns that are counted.
More == IF pc = "complete" /\ log[Len(log)].why = "next_turn" THEN 1 ELSE 0
Answered ==
    ~stopping =>
        /\ ~inTurn /\ pc \notin {"finish", "close"} => answering = << >> /\ later = << >>
        /\ ~turnRecorded /\ pc \notin {"finish", "close"} => answering = << >>
        /\ pc = "closeEnd" => answering = << >> /\ later = << >>
        /\ pc = "confirmed" /\ log[Len(log)].type = "START" => answering = << >>
        /\ IF runner # "none" /\ Delivery[runner] = "echoed" THEN later = << >>
           ELSE Len(later) + More <= nextTurns

\* Steps that leave the messages of the turn and the runner alone keep Answered.
LEMMA AnsweredStays ==
    ASSUME Answered, UNCHANGED <<answering, later, nextTurns, inTurn, turnRecorded, runner>>,
           stopping' = stopping,
           pc \notin {"complete", "closeEnd", "confirmed", "finish", "close"},
           pc' \notin {"complete", "closeEnd", "confirmed"}
    PROVE  Answered'
  <1>1. More = 0 /\ More' = 0
    BY DEF More
  <1> QED BY <1>1 DEF Answered

\* A turn that begins with an echo begins after the one before it was ended.
LEMMA StartHeard ==
    ASSUME TypeOK, Shape, Accounts, HearConfirm, Head(inbox).why = "START"
    PROVE  ~turnRecorded
  <1> DEFINE e == runnerEpoch
  <1>1. /\ inbox # << >> /\ inbox' = Tail(inbox) /\ pc \in {"recv", "drain"}
        /\ Head(inbox).epoch = e /\ Head(inbox).type = "CONFIRM"
    BY DEF HearConfirm, Hearing, Receiving, Straggler
  <1>2. /\ Head(inbox) \in Heard /\ inbox \in Seq(Heard)
        /\ \E j \in DOMAIN inbox : Head(inbox) = inbox[j]
    BY <1>1, TailCounts
  <1>3. Head(inbox) \in EchoesOf(e) /\ Head(inbox) \in StartsOf(e)
    BY <1>1, <1>2 DEF EchoesOf, StartsOf
  <1>4. ~Plain
    <2>1. PICK j \in DOMAIN inbox : Head(inbox) = inbox[j]
      BY <1>2
    <2>2. inbox[j] \in EchoesOf(e)
      BY <1>3, <2>1
    <2> QED BY <2>2 DEF Plain
  <1>5. Alternates(inbox, e, Running) /\ Running \in {0, 1}
    BY <1>4 DEF Accounts, Sides, Echoing, Running
  <1>6. Running = 0
    <2> HIDE DEF e
    <2> QED BY <1>1, <1>2, <1>3, <1>5, AlternatesHead
  <1> QED BY <1>6 DEF Running

\* Every step keeps Answered: whoever opens a turn has its messages in
\* `answering`, and those that are to open a later one wait in `later`.
LEMMA StepAnswered ==
    ASSUME NoContext, TypeOK, Shape, Fit, Unrecovered, Piped, Accounts, Between, Answered,
           [Next]_vars
    PROVE  Answered'
  <1>0. /\ Clock /\ Settled /\ Sides /\ ~Recovering /\ pc \notin RecoveryPlaces
        /\ recovery.stage = "none" /\ nextTurns \in Nat /\ later \in Seq(Text)
        /\ answering \in Seq(Text) /\ Len(later) \in Nat
    BY DEF Accounts, Unrecovered, NoRecovery, Recovering, TypeOK, QueuesOK
  <1>1. CASE \/ Blocked \/ Flush \/ DeliverDone \/ AttemptKept \/ AttemptRetune \/ AttemptNoRung
             \/ (\E k \in Kinds : Refused(k)) \/ LaunchOnce \/ Acknowledge
             \/ Unauthenticated \/ Failed
    <2>1. UNCHANGED <<answering, later, nextTurns, inTurn, turnRecorded, runner, stopping>>
      BY <1>1 DEF Blocked, Flush, DeliverDone, AttemptKept, AttemptRetune, AttemptNoRung, Refused,
                  LaunchOnce, Acknowledge, Unauthenticated, Failed
    <2>2. pc \in {"blocked", "flush", "deliver", "attempt", "recv", "ack", "auth", "failed"}
      BY <1>1 DEF Blocked, Flush, DeliverDone, AttemptKept, AttemptRetune, AttemptNoRung, Refused,
                  Refusal, Delivering, LaunchOnce, Receiving, Acknowledge, Unauthenticated, Failed
    <2>3. pc' \notin {"complete", "closeEnd", "confirmed"}
      <3>1. CASE Blocked \/ Flush \/ DeliverDone \/ LaunchOnce \/ Acknowledge
        BY <1>0, <3>1 DEF Blocked, Flush, DeliverDone, GoTo, Back, LaunchOnce, Acknowledge, Dispatch,
                          DispatchPc
      <3>2. CASE AttemptKept \/ AttemptRetune \/ AttemptNoRung
        BY <1>0, <3>2 DEF AttemptKept, AttemptRetune, AttemptNoRung, GoTo, Shape, Clock
      <3>3. CASE (\E k \in Kinds : Refused(k)) \/ Unauthenticated \/ Failed
        BY <3>3 DEF Refused, Closing, Unauthenticated, Failed, GoTo, Back, MoveOn
      <3> QED BY <1>1, <3>1, <3>2, <3>3
    <2> QED BY <2>1, <2>2, <2>3, AnsweredStays
  <1>2. CASE \/ SetAutoremove \/ SetOther \/ (\E S \in SUBSET Providers : SetProviders(S))
             \/ (\E w \in Words : Send(w)) \/ OpenAt \/ ReconcileDrop \/ ReconcileCommit
             \/ Provider \/ HearStraggler \/ HearText \/ HearError
    <2>1. UNCHANGED <<answering, later, nextTurns, inTurn, turnRecorded, runner, stopping>>
      BY <1>2 DEF SetAutoremove, SetOther, SetProviders, Send, OpenAt, ReconcileDrop,
                  ReconcileCommit, Provider, Echo, Speak, Exit, Reap, EndTurn, FailTurn, RunnerOnly,
                  HearStraggler, HearText, HearError, Hears
    <2>2. pc \in {"recv", "down", "reconcile", "deliver", "drain"}
      BY <1>2 DEF SetAutoremove, SetOther, SetProviders, Send, OpenAt, ReconcileDrop,
                  ReconcileCommit, Provider, Echo, Speak, Exit, Reap, EndTurn, FailTurn, Runs,
                  HearStraggler, HearText, HearError, Hears, Hearing, Receiving
    <2>3. pc' \in {pc, "recv", "ack", "reconcile", "close"}
      BY <1>2 DEF SetAutoremove, SetOther, SetProviders, Send, OpenAt, ReconcileDrop,
                  ReconcileCommit, Provider, Echo, Speak, Exit, Reap, EndTurn, FailTurn, RunnerOnly,
                  HearStraggler, HearText, HearError, Closing
    <2> QED BY <2>1, <2>2, <2>3, AnsweredStays
  <1>3. CASE AttemptLaunch \/ AttemptFails
    <2>1. /\ UNCHANGED <<answering, later, nextTurns, inTurn, turnRecorded, stopping>>
          /\ pc = "attempt" /\ pc' \in {"flush", "attempt", "blocked"}
      BY <1>0, <1>3 DEF AttemptLaunch, AttemptFails, MoveOn, GoTo, Shape, Clock
    <2>2. ~stopping /\ ~inTurn
      BY <1>0, <2>1 DEF Clock, Between
    <2>3. answering = << >> /\ later = << >>
      BY <2>1, <2>2 DEF Answered
    <2>4. Len(later') = 0 /\ More' = 0
      BY <2>1, <2>3 DEF More
    <2> QED BY <1>0, <2>1, <2>3, <2>4 DEF Answered
  <1>4. CASE DeliverEchoed
    <2>1. /\ UNCHANGED <<answering, later, nextTurns, turnRecorded, runner, stopping>>
          /\ pc = "deliver" /\ pc' = "deliver" /\ inTurn' = TRUE
      BY <1>4 DEF DeliverEchoed, Delivering
    <2>2. More = 0 /\ More' = 0
      BY <2>1 DEF More
    <2> QED BY <2>1, <2>2 DEF Answered
  <1>5. CASE DeliverOpening
    <2> DEFINE next == NextTurn(Delivery[runner] = "steered" /\ open > 0)
    <2>1. /\ UNCHANGED <<answering, later, inTurn, turnRecorded, runner, stopping>>
          /\ pc = "deliver" /\ pc' = "complete" /\ Delivery[runner] # "echoed"
          /\ nextTurns' = (IF next THEN nextTurns + 1 ELSE nextTurns)
      BY <1>5 DEF DeliverOpening, Delivering
    <2>2. next <=> log'[Len(log')].why = "next_turn"
      <3>1. PICK r \in Record : /\ log' = Append(log, r)
                                /\ r.why = IF next THEN "next_turn" ELSE "same_turn"
        <4> DEFINE r == Rec(IF inTurn THEN "INJECTED" ELSE "START", Head(outbox).id,
                            IF inTurn THEN turn ELSE turn + 1, FALSE,
                            IF next THEN "next_turn" ELSE "same_turn")
        <4>1. log' = Append(log, r)
          BY <1>5 DEF DeliverOpening
        <4>2. Head(outbox).id \in Nat /\ turn \in Int
          BY <1>5, MessageRead DEF DeliverOpening, Delivering, TypeOK, QueuesOK, TurnOK
        <4>3. r \in Record
          <5> DEFINE t == IF inTurn THEN turn ELSE turn + 1
          <5>1. t \in Int
            BY <4>2
          <5> HIDE DEF t, next
          <5> QED BY <4>2, <5>1, RecordMade DEF Openings, t
        <4>4. r.why = IF next THEN "next_turn" ELSE "same_turn"
          BY DEF Rec
        <4> HIDE DEF r
        <4> QED BY <4>1, <4>3, <4>4
      <3>2. log'[Len(log')] = r
        BY <3>1 DEF TypeOK, DiskOK
      <3> HIDE DEF next
      <3> QED BY <3>1, <3>2
    <2>3. More = 0 /\ More' = (IF next THEN 1 ELSE 0)
      BY <2>1, <2>2 DEF More
    <2>4. ASSUME ~stopping PROVE Len(later') + More' <= nextTurns'
      <3>1. Len(later) + More <= nextTurns
        BY <2>1, <2>4 DEF Answered
      <3> HIDE DEF next
      <3> QED BY <1>0, <2>1, <2>3, <3>1
    <2> QED BY <2>1, <2>4 DEF Answered
  <1>6. CASE Complete
    <2>1. /\ UNCHANGED <<nextTurns, runner, stopping>> /\ pc = "complete" /\ pc' = "deliver"
          /\ Remember(Head(outbox).text, log[Len(log)].why = "next_turn")
          /\ inTurn' = TRUE /\ turnRecorded' = TRUE
      BY <1>6 DEF Complete
    <2>2. ~stopping /\ Delivery[runner] # "echoed"
      BY <1>0, <2>1 DEF Clock, Sides, Echoing, Shape
    <2>3. Len(later) + More <= nextTurns
      BY <2>2 DEF Answered
    <2>4. More' = 0
      BY <2>1 DEF More
    <2>5. Len(later') <= Len(later) + More /\ Len(later') \in Nat /\ More \in Nat
      <3>1. CASE later' = later
        BY <1>0, <3>1 DEF More
      <3>2. CASE later' # later
        <4>1. log[Len(log)].why = "next_turn" /\ later' = Append(later, Head(outbox).text)
          BY <2>1, <3>2 DEF Remember
        <4> QED BY <1>0, <2>1, <4>1 DEF More
      <3> QED BY <3>1, <3>2
    <2>6. Len(later') + More' <= nextTurns'
      BY <1>0, <2>1, <2>3, <2>4, <2>5
    <2> QED BY <2>1, <2>2, <2>6 DEF Answered
  <1>7. CASE HearConfirm
    <2>1. /\ UNCHANGED <<answering, later, nextTurns, inTurn, turnRecorded, runner, stopping>>
          /\ pc \in {"recv", "drain"} /\ pc' \in {pc, "confirmed"}
      BY <1>7 DEF HearConfirm, Hearing, Receiving
    <2>2. CASE pc' = pc
      BY <2>1, <2>2, AnsweredStays
    <2>3. CASE pc' # pc
      <3>1. More = 0 /\ More' = 0
        BY <2>1, <2>3 DEF More
      <3>2. ASSUME ~stopping, log'[Len(log')].type = "START" PROVE answering = << >>
        <4>1. PICK r : log' = Append(log, r) /\ r.type = Head(inbox).why
          <5> DEFINE r == Rec(Head(inbox).why, Head(awaiting).id,
                              IF Head(inbox).why = "START" THEN turn + 1 ELSE turn, FALSE,
                              "same_turn")
          <5>1. log' = Append(log, r)
            BY <1>7, <2>3 DEF HearConfirm
          <5>2. r.type = Head(inbox).why
            BY DEF Rec
          <5> HIDE DEF r
          <5> QED BY <5>1, <5>2
        <4>2. log'[Len(log')] = r
          BY <4>1 DEF TypeOK, DiskOK
        <4>3. ~turnRecorded
          BY <1>7, <3>2, <4>1, <4>2, StartHeard
        <4> QED BY <2>1, <3>2, <4>3 DEF Answered
      <3>3. pc' = "confirmed"
        BY <2>1, <2>3
      <3> QED BY <2>1, <3>1, <3>2, <3>3 DEF Answered
    <2> QED BY <2>2, <2>3
  <1>8. CASE Confirmed
    <2>1. /\ UNCHANGED <<nextTurns, runner, stopping>> /\ pc = "confirmed"
          /\ pc' \in {"recv", "drain"}
          /\ Remember(Head(awaiting).text, log[Len(log)].type = "START")
          /\ inTurn' = TRUE /\ turnRecorded' = TRUE
      BY <1>8 DEF Confirmed, Back
    <2>2. ASSUME ~stopping PROVE runner # "none" /\ Delivery[runner] = "echoed" /\ later' = << >>
      <3>1. runner # "none" /\ Delivery[runner] = "echoed"
        BY <1>0, <2>1, <2>2 DEF Sides, Plain
      <3>2. later = << >>
        BY <2>2, <3>1 DEF Answered
      <3>3. later' = later
        BY <2>1, <2>2 DEF Answered, Remember
      <3> QED BY <3>1, <3>2, <3>3
    <2> QED BY <2>1, <2>2 DEF Answered
  <1>9. CASE HearEnd \/ \E type \in {"TEXT", "ERROR", "END"} : HearStopping(type)
    <2>1. CASE HearEnd
      <3>1. /\ UNCHANGED <<answering, later, nextTurns, runner, stopping>> /\ pc \in {"recv", "drain"}
            /\ pc' \in {"finish", "close"}
        BY <1>0, <2>1 DEF HearEnd, Hears, Hearing, Receiving, Closing, GoTo, Unrecovered
      <3>2. More = 0 /\ More' = 0
        BY <3>1 DEF More
      <3> QED BY <3>1, <3>2 DEF Answered
    <2>2. CASE \E type \in {"TEXT", "ERROR", "END"} : HearStopping(type)
      BY <2>2 DEF HearStopping, Hears, Answered
    <2> QED BY <1>9, <2>1, <2>2
  <1>10. CASE Finish
    <2>1. /\ UNCHANGED <<runner, stopping>> /\ pc = "finish"
          /\ pc' \in {"recv", "attempt", "flush", "drain"}
          /\ answering' = IF later = << >> THEN << >> ELSE <<Head(later)>>
          /\ later' = IF later = << >> THEN << >> ELSE Tail(later)
      BY <1>10 DEF Finish, Back
    <2>2. ~stopping /\ More = 0 /\ More' = 0
      BY <1>0, <2>1 DEF Clock, More
    <2>3. CASE nextTurns > 0
      <3>1. nextTurns' = nextTurns - 1 /\ inTurn' = TRUE /\ turnRecorded' = TRUE
        BY <1>10, <2>3 DEF Finish
      <3>2. ~(runner # "none" /\ Delivery[runner] = "echoed")
        BY <1>0, <2>3 DEF Sides, Echoing
      <3>3. Len(later) <= nextTurns
        BY <1>0, <2>2, <3>2 DEF Answered
      <3>4. Len(later') <= nextTurns'
        <4>1. CASE later = << >>
          BY <1>0, <2>1, <2>3, <3>1, <4>1
        <4>2. CASE later # << >>
          <5>1. Len(later') = Len(later) - 1
            BY <1>0, <2>1, <4>2
          <5> QED BY <1>0, <3>1, <3>3, <5>1
        <4> QED BY <4>1, <4>2
      <3>5. Len(later') \in Nat
        BY <1>0, <2>1
      <3> QED BY <2>1, <2>2, <3>1, <3>2, <3>4, <3>5 DEF Answered
    <2>4. CASE nextTurns = 0
      <3>1. later = << >>
        <4>1. CASE runner # "none" /\ Delivery[runner] = "echoed"
          BY <2>2, <4>1 DEF Answered
        <4>2. CASE ~(runner # "none" /\ Delivery[runner] = "echoed")
          <5>1. Len(later) <= 0
            BY <1>0, <2>2, <2>4, <4>2 DEF Answered
          <5> QED BY <1>0, <5>1
        <4> QED BY <4>1, <4>2
      <3>2. answering' = << >> /\ later' = << >> /\ nextTurns' = 0
        BY <1>10, <2>1, <2>4, <3>1 DEF Finish
      <3>3. Len(later') + More' <= nextTurns'
        BY <2>2, <3>2
      <3> QED BY <2>1, <3>2, <3>3 DEF Answered
    <2> QED BY <1>0, <2>3, <2>4
  <1>11. CASE CloseTurn
    <2>1. /\ runner' = "none" /\ answering' = << >> /\ later' = << >> /\ nextTurns' = 0
          /\ pc' = "closeEnd"
      BY <1>11 DEF CloseTurn, StopRunner
    <2>2. Len(later') + More' <= nextTurns'
      BY <2>1 DEF More
    <2> QED BY <2>1, <2>2 DEF Answered
  <1>12. CASE CloseTurnEnd
    <2>1. /\ UNCHANGED <<runner, stopping, answering, later, nextTurns>> /\ pc = "closeEnd"
          /\ pc' \in {"auth", "failed"}
      BY <1>12 DEF CloseTurnEnd, GoTo, Unrecovered
    <2>2. ~stopping => answering = << >> /\ later = << >>
      BY <2>1 DEF Answered
    <2>3. ~stopping => Len(later') + More' <= nextTurns'
      BY <1>0, <2>1, <2>2 DEF More
    <2>4. runner = "none"
      BY <2>1 DEF Fit
    <2> QED BY <2>1, <2>2, <2>3, <2>4 DEF Answered
  <1>13. CASE Stop
    BY <1>13 DEF Stop, Answered
  <1>14. CASE StopEnd \/ Crash
    <2>1. /\ answering' = << >> /\ later' = << >> /\ nextTurns' = 0 /\ runner' = "none"
          /\ pc' = "down"
      BY <1>14 DEF StopEnd, Crash, Cold
    <2>2. Len(later') + More' <= nextTurns'
      BY <2>1 DEF More
    <2> QED BY <2>1, <2>2 DEF Answered
  <1>15. CASE \/ RefusedForContext \/ RecoverContext \/ CompactionTimeout \/ Handoff \/ Continue
              \/ Replay \/ RecoveryEnded \/ GiveUp \/ GaveUp \/ ResumeRecovery
    <2>1. ~RefusedForContext
      BY DEF RefusedForContext, Refusal, NoContext
    <2> QED BY <1>0, <1>15, <2>1
         DEF RecoverContext, CompactionTimeout, Handoff, Continue, Replay, RecoveryMessage,
             RecoveryEnded, GiveUp, GaveUp, ResumeRecovery, RecoveryPlaces
  <1>16. CASE UNCHANGED vars
    BY <1>16 DEF vars, Answered, More
  <1> QED BY <1>1, <1>2, <1>3, <1>4, <1>5, <1>6, <1>7, <1>8, <1>9, <1>10, <1>11, <1>12, <1>13,
             <1>14, <1>15, <1>16
       DEF Next, Work, Client, Refuse, Hear

\* attempt_rung puts no runner up while messages of an unfinished turn are not
\* back in the queue: close_turn has requeued those of the turn that ran, those
\* of the native turns behind it and those whose echo was awaited.
THEOREM UnfinishedComeFirst ==
    ASSUME NoContext, "race" \notin Nature
    PROVE  Spec => UnfinishedFirst
  <1> DEFINE Inv == TypeOK /\ Shape /\ Ledger /\ Single
             More1 == Order /\ Fit /\ Unrecovered /\ Piped /\ Between /\ Accounts /\ Answered
  <1>1. Init => More1
    <2>1. Init => Unrecovered /\ Fit /\ Piped /\ Between
      BY DEF Init, Unrecovered, Spared, RecoveryPlaces, Fit, Piped, Between
    <2>2. Init => Answered
      BY DEF Init, Answered, More
    <2> QED BY <2>1, <2>2, InitOrder, InitAccounts
  <1>2. Inv /\ More1 /\ [Next]_vars => More1'
    <2>1. Unrecovered => pc # "replay"
      BY DEF Unrecovered, RecoveryPlaces
    <2>2. Piped /\ Between => Ready
      BY DEF Piped, Between, Ready
    <2> QED BY <2>1, <2>2, StepUnrecovered, StepOrder, StepFit, StepPiped, StepBetween,
               StepAccounts, StepAnswered
  <1>3. Inv /\ More1 /\ [Next]_vars
          => [runnerEpoch' \notin {0, runnerEpoch}
                  => answering = << >> /\ later = << >> /\ awaiting = << >>]_vars
    <2> SUFFICES ASSUME TypeOK, Shape, Unrecovered, Accounts, Piped, Between, Answered, [Next]_vars,
                        runnerEpoch' \notin {0, runnerEpoch}
                 PROVE  answering = << >> /\ later = << >> /\ awaiting = << >>
      OBVIOUS
    <2>1. pc = "attempt"
      <3>1. AttemptLaunch \/ AttemptFails
        <4>1. ~(\/ ReconcileDrop \/ ReconcileCommit \/ LaunchOnce \/ Acknowledge \/ AttemptKept
                \/ AttemptRetune \/ AttemptNoRung \/ Blocked \/ Flush \/ DeliverDone
                \/ DeliverEchoed \/ DeliverOpening \/ Complete \/ Refuse)
          BY DEF ReconcileDrop, ReconcileCommit, LaunchOnce, Acknowledge, AttemptKept,
                 AttemptRetune, AttemptNoRung, Blocked, Flush, DeliverDone, DeliverEchoed,
                 DeliverOpening, Complete, Refuse, RefusedForContext, Refused
        <4>2. ~(\/ Hear \/ Confirmed \/ Finish \/ CloseTurn \/ CloseTurnEnd \/ Unauthenticated
                \/ Failed \/ StopEnd \/ Crash)
          BY DEF Hear, HearStraggler, HearConfirm, HearText, HearEnd, HearError, HearStopping,
                 Hears, Confirmed, Finish, CloseTurn, CloseTurnEnd, Unauthenticated, Failed,
                 StopEnd, Crash, Cold
        <4>3. ~(\/ RecoverContext \/ CompactionTimeout \/ Handoff \/ Continue \/ Replay
                \/ RecoveryEnded \/ GiveUp \/ GaveUp \/ ResumeRecovery)
          BY DEF RecoverContext, CompactionTimeout, Handoff, Continue, Replay, RecoveryMessage,
                 RecoveryEnded, GiveUp, GaveUp, ResumeRecovery
        <4>4. ~(Client \/ Provider)
          BY DEF Client, Send, SetProviders, SetAutoremove, SetOther, Stop, OpenAt, Provider,
                 Echo, Speak, Exit, Reap, EndTurn, FailTurn, RunnerOnly
        <4>5. ~UNCHANGED vars
          BY DEF vars
        <4> QED BY <4>1, <4>2, <4>3, <4>4, <4>5 DEF Next, Work
      <3> QED BY <3>1 DEF AttemptLaunch, AttemptFails
    <2>2. ~stopping /\ ~inTurn /\ awaiting = << >>
      BY <2>1 DEF Accounts, Clock, Between, Piped
    <2> QED BY <2>1, <2>2 DEF Answered
  <1> HIDE DEF Inv, More1
  <1>4. Spec => [](Inv /\ More1)
    BY <1>1, <1>2, QueueInvariant, PTL DEF Spec, Inv
  <1> QED BY <1>3, <1>4, PTL DEF Spec, UnfinishedFirst
=============================================================================
