----------------------------- MODULE MCAgentJobs -----------------------------
(* Small instances of AgentJobs: a workflow whose only call may fall back to  *)
(* a second model, and one of two calls, under coordinates of their own as in *)
(* devCycle or under the same ones as in a second validation of prLanding.    *)
EXTENDS AgentJobs

FallbackOrTwoCalls == {<<2>>, <<1, 1>>}
OwnOrShared == {[c \in Calls |-> c], [c \in Calls |-> 1]}
=============================================================================
