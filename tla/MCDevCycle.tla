---- MODULE MCDevCycle ----
\* Instances of DevCycle for TLC.
EXTENDS DevCycle

\* The second of three rounds reaches the token brake or the iteration brake.
SmallBrakes ==
  [maxImplementAttempts |-> 3, maxIterations |-> 2, maxTokens |-> 8, maxBabysitRounds |-> 1]
====
