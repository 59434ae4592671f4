------------------------------- MODULE Exclusion -------------------------------
(* What a RepositorySessionCoordinator promises the calls of withLock for one  *)
(* key (repository-session-coordinator.ts:12-18): one operation at a time, an  *)
(* answer that is an error once the operation was told that its lock is lost.  *)
CONSTANT Calls
VARIABLE stage

Stages == {"new", "waiting", "holding", "lost", "told", "ended", "failed"}
To(c, where) == stage' = [stage EXCEPT ![c] = where]

Init == stage = [c \in Calls |-> "new"]

Arrive(c) == stage[c] = "new" /\ To(c, "waiting")
Refuse(c) == stage[c] \in {"new", "waiting"} /\ To(c, "failed")
Grant(c) ==
  /\ stage[c] = "waiting" /\ \A d \in Calls : stage[d] # "holding"
  /\ To(c, "holding")

\* The lock may go while the operation runs, or before it has begun.
Lose(c) == stage[c] \in {"waiting", "holding"} /\ To(c, "lost")
Tell(c) == stage[c] = "lost" /\ To(c, "told")

End(c) == stage[c] \in {"holding", "lost"} /\ To(c, "ended")
Fail(c) == stage[c] \in {"holding", "lost", "told"} /\ To(c, "failed")

\* The calls of a process die with it.
Die(cs) == stage' = [c \in Calls |-> IF c \in cs THEN "failed" ELSE stage[c]]

Next ==
  \/ \E c \in Calls :
       Arrive(c) \/ Refuse(c) \/ Grant(c) \/ Lose(c) \/ Tell(c) \/ End(c) \/ Fail(c)
  \/ \E cs \in SUBSET Calls : Die(cs)

Spec == Init /\ [][Next]_stage

\* Two operations never run under the lock together.
MutualExclusion == \A c, d \in Calls : stage[c] = "holding" /\ stage[d] = "holding" => c = d

================================================================================
