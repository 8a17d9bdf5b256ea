---------------------------- MODULE DurableSend ----------------------------
(***************************************************************************)
(* What a session promises about messages, whatever fails underneath: a    *)
(* message that was accepted is owed until it is handed to a provider, the *)
(* oldest one first, and it is handed over once.  A crash, a restart or a  *)
(* change of provider is not a step of this specification: none of them is *)
(* allowed to touch what is owed.                                          *)
(*                                                                         *)
(* Omni itself may put new attempts in front of the queue (the messages of *)
(* a turn that a provider failed to finish, the messages of a context      *)
(* recovery), and it may take back a replay it made up, never a message    *)
(* somebody sent.                                                          *)
(***************************************************************************)
EXTENDS Integers, Sequences

CONSTANTS Words,     \* what users say
          MadeUp     \* what recovery says

VARIABLES owed,      \* messages accepted and not handed over, oldest first
          opened,    \* the ids of the messages handed over
          nextId,    \* ids below this one are taken
          sends      \* counts the messages that somebody sends

vars == <<owed, opened, nextId, sends>>

Init == owed = << >> /\ opened = {} /\ nextId = 1 /\ sends \in Nat

Accept(w) ==
    /\ owed' = Append(owed, [id |-> nextId, text |-> w])
    /\ nextId' = nextId + 1 /\ sends' = sends + 1
    /\ UNCHANGED opened

Open ==
    /\ owed # << >>
    /\ owed' = Tail(owed)
    /\ opened' = opened \cup {Head(owed).id}
    /\ UNCHANGED <<nextId, sends>>

\* n new attempts go in front of `rest'.
InFront(n, rest) ==
    /\ n \in 1 .. Len(owed')
    /\ nextId' = nextId + n
    /\ Len(owed') = n + Len(rest)
    /\ \A i \in 1 .. n : /\ owed'[i].id = nextId + i - 1
                         /\ owed'[i].text \in Words \cup MadeUp
    /\ \A i \in 1 .. Len(rest) : owed'[n + i] = rest[i]
    /\ UNCHANGED <<opened, sends>>

Reissue == \E n \in 1 .. Len(owed') : InFront(n, owed)

\* One new attempt, in place of a replay that was still owed.
Drop(k) == [i \in 1 .. Len(owed) - 1 |-> IF i < k THEN owed[i] ELSE owed[i + 1]]

Replace == \E k \in 1 .. Len(owed) : /\ owed[k].text \in MadeUp
                                     /\ InFront(1, Drop(k))

Next == (\E w \in Words : Accept(w)) \/ Open \/ Reissue \/ Replace

Spec == Init /\ [][Next]_vars
=============================================================================
