----------------------------- MODULE MCClient -----------------------------
(* Instances of Client for TLC. *)
EXTENDS Client

Plans(a, b) == [u \in Users |-> IF u = "u1" THEN a ELSE b]
MCScenarios ==
    {[warm |-> FALSE, log |-> 2, stops |-> 1, plan |-> Plans(<<"start">>, << >>)],
     [warm |-> TRUE, log |-> 0, stops |-> 0, plan |-> Plans(<<"start", "detach", "start">>, << >>)],
     [warm |-> TRUE, log |-> 1, stops |-> 1, plan |-> Plans(<<"from", "detach", "next">>, << >>)],
     [warm |-> TRUE, log |-> 1, stops |-> 1, plan |-> Plans(<<"start", "detach", "stop">>, <<"ask">>)],
     [warm |-> TRUE, log |-> 2, stops |-> 1, plan |-> Plans(<<"start", "drop">>, <<"start", "stop">>)],
     [warm |-> TRUE, log |-> 1, stops |-> 1, plan |-> Plans(<<"live", "send">>, <<"stop">>)],
     [warm |-> TRUE, log |-> 1, stops |-> 0, plan |-> Plans(<<"set", "refresh", "set">>, << >>)]}
=============================================================================
