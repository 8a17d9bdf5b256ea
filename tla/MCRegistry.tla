---------------------------- MODULE MCRegistry ----------------------------
(* Instances of Registry for TLC. *)
EXTENDS Registry

MCPlan(p, q, s) == [c \in Peers |-> CASE c = "c1" -> p [] c = "c2" -> q [] OTHER -> s]
MCPlans ==
    {MCPlan(<<"open", "send">>, <<"stop">>, << >>),
     MCPlan(<<"open">>, <<"open">>, << >>),
     MCPlan(<<"follow", "set">>, << >>, <<"signal">>),
     MCPlan(<<"open", "detach">>, <<"shutdown">>, << >>)}
=============================================================================
