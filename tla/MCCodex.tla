------------------------------ MODULE MCCodex ------------------------------
(* Instances of Codex for TLC. *)
EXTENDS Codex

Plans(a, b) == [r \in Runners |-> IF r = "r1" THEN a ELSE b]
Scenario(a, b, sweeps, warm, on, spent) ==
    [plan |-> Plans(a, b), sweeps |-> sweeps, warm |-> warm, on |-> on, timeouts |-> spent, faults |-> 0]
MCScenarios ==
    {Scenario(<<"start", "send", "send">>, << >>, << >>, 0, {}, 1),
     Scenario(<<"start">>, <<"start">>, << >>, 0, {}, 1),
     Scenario(<<"start">>, << >>, <<"reap">>, 1, {}, 1),
     Scenario(<<"send">>, <<"start">>, << >>, 1, {"r1"}, 1),
     Scenario(<<"send", "send", "send">>, << >>, << >>, 1, {"r1"}, 0),
     Scenario(<<"catch_up", "compact">>, << >>, <<"shutdown">>, 1, {"r1"}, 1),
     Scenario(<<"send", "interrupt", "stop">>, << >>, <<"reap">>, 1, {"r1"}, 1)}

\* A chat is attached to a server and sends, and the pool is swept.
MCSwept == {Scenario(<<"send">>, << >>, <<"reap">>, 1, {"r1"}, 1)}
=============================================================================
