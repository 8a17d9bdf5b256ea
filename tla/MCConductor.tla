---------------------------- MODULE MCConductor ----------------------------
(* Instances of Conductor for TLC. *)
EXTENDS Conductor

\* The dial: Claude before Codex before Antigravity.  A setting with an odd
\* number names the last of the session's providers, and nobody else will do.
Dial == <<"claude", "codex", "agy">>
First(S) == CHOOSE i \in 1 .. 3 : Dial[i] \in S /\ \A j \in 1 .. i - 1 : Dial[j] \notin S
Named == Dial[CHOOSE i \in 1 .. 3 : /\ Dial[i] \in Providers
                                   /\ \A j \in i + 1 .. 3 : Dial[j] \notin Providers]
MCResolve(c, S) ==
    CASE c % 2 = 1 /\ Named \in S -> Named
      [] c % 2 = 0 /\ S # {} -> Dial[First(S)]
      [] OTHER -> "none"

MCDelivery ==
    [p \in Providers |-> CASE p = "claude" -> "echoed"
                           [] p = "codex" -> "steered"
                           [] OTHER -> "queued"]

\* All of the bounds; or, of two messages, a crash and a change of the settings,
\* any two kinds of three with what is left of the third.
MCNothing == {[sends |-> 0, downs |-> 0, changes |-> 0]}
MCMixes == {[sends |-> 0, downs |-> 0, changes |-> 1], [sends |-> 0, downs |-> 1, changes |-> 0],
            [sends |-> 1, downs |-> 0, changes |-> 0]}
=============================================================================
