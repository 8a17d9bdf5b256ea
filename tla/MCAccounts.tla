----------------------------- MODULE MCAccounts -----------------------------
(* Instances of Accounts for TLC. *)
EXTENDS Accounts

Scenario(a, b, shuts, in, happens) ==
    [plan |-> [c \in Callers |-> IF c = "c1" THEN a ELSE b], shuts |-> shuts,
     signedIn |-> in, nature |-> happens]
MCScenarios ==
    {Scenario(<<"start_auth", "finish_auth">>, <<"auth_status", "auth_status">>, FALSE, FALSE, {"leave", "age"}),
     Scenario(<<"start_auth", "finish_auth">>, <<"auth_status">>, FALSE, TRUE, {"leave", "sign out"}),
     Scenario(<<"start_auth", "start_auth">>, << >>, FALSE, FALSE, {"leave", "expire"}),
     Scenario(<<"start_auth", "start_auth">>, << >>, TRUE, FALSE, {}),
     Scenario(<<"start_auth">>, <<"start_auth">>, FALSE, FALSE, {}),
     Scenario(<<"start_auth">>, <<"finish_auth">>, FALSE, FALSE, {"expire"}),
     Scenario(<<"start_auth">>, << >>, TRUE, FALSE, {"expire"}),
     Scenario(<<"models", "models">>, <<"forget", "models">>, FALSE, TRUE, {"sign out"}),
     Scenario(<<"auth_status", "models", "auth_status">>, <<"finish_auth", "forget">>, FALSE, TRUE,
              {"sign out", "age"})}
=============================================================================
