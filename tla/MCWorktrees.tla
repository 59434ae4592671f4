------------------------------ MODULE MCWorktrees ------------------------------
(* A landing beside a task of another kind: a repair of the same branch, or a   *)
(* new task.                                                                    *)
EXTENDS Worktrees, TLC

LandingAndRepair == "landing" :> "head" @@ "repair" :> "branch" @@ "cycle" :> "new"
FeatureTwiceAndNew == "landing" :> "feature" @@ "repair" :> "feature" @@ "cycle" :> "agentops"
================================================================================
