---------------------------- MODULE MCRepoSessions ----------------------------
(* Two callers with two requests for one task, beside the sweep.               *)
EXTENDS RepoSessions

CONSTANTS p1, p2, r1, r2

SameOrOther == {<<p1, r1>>, <<p2, r1>>, <<p2, r2>>}
================================================================================
