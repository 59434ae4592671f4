------------------------------ MODULE MCAgentCalls ------------------------------
(* A project's call whose tier falls back from one account to another, one whose *)
(* tier ends on the platform, one whose tier nobody knows, and a call of the     *)
(* engine on the platform alone.                                                 *)
EXTENDS AgentCalls, TLC

Tiers == "a" :> <<"claude", "pi">> @@ "b" :> <<"pi", "platform">> @@ "p" :> <<"platform">> @@ "u" :> <<>>
================================================================================
