---- MODULE MCPrLanding ----
\* Instances of PrLanding for TLC.
EXTENDS PrLanding

SmallBrakes ==
  [maxImplementAttempts |-> 1, maxIterations |-> 2, maxTokens |-> 3, maxBabysitRounds |-> 1]

\* Room for repairs on verdicts and on feedback in one run.
RepairBrakes ==
  [maxImplementAttempts |-> 1, maxIterations |-> 4, maxTokens |-> 5, maxBabysitRounds |-> 2]

View(draft, ci, threads) == [draft |-> draft, ci |-> ci, threads |-> threads, labels |-> {}]

\* Owned and external PRs of a project in label mode, where the labels decide.
LabelMode == {i \in PrLandingInputs : i.mode = "label"}
NoForks == {i \in LabelMode : ~i.fork}

\* No property of PrLandingLiveness reads what stands behind the head handed over.
Passed == {i \in NoForks : i.handed \in {"none", "passed"}}

NeverSettles == {}

\* Everything an open PR that is not a draft can settle to.
OpenSettlements ==
  {View(FALSE, ci, threads) : ci \in readCiStatus, threads \in SUBSET Threads}
====
