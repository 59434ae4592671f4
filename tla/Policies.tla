------------------------------ MODULE Policies ------------------------------
(***************************************************************************)
(* The pure decision functions of packages/policies that the workflows of  *)
(* packages/workflows call between two awaits.  They hold no state: each   *)
(* is a total function of its arguments, so it is an operator here.        *)
(*                                                                         *)
(* A brake record has the four fields of BrakesSchema (contracts/model.ts) *)
(*   [maxImplementAttempts, maxIterations, maxTokens, maxBabysitRounds]    *)
(* and a counter record the four counters evaluateBrakes compares them to. *)
(***************************************************************************)
EXTENDS Naturals, Sequences, FiniteSets

\* CiStatusSchema of contracts/pr-feedback.ts.
CiStatus == {"pending", "green", "failed", "unreadable"}

\* AutoMergeModeSchema and the two labels a human controls the merge with.
AutoMergeMode == {"disabled", "label", "all"}
AUTO_MERGE_LABEL == "automerge"
AUTO_MERGE_DISABLE_LABEL == "automerge:disable"
MergeLabels == {AUTO_MERGE_LABEL, AUTO_MERGE_DISABLE_LABEL}

NoBrake == "none"

(***************************************************************************)
(* The first brake reached, in the order the code tests them.              *)
(***************************************************************************)
EvaluateBrakes(counters, brakes) ==
  IF counters.cumulativeTokens >= brakes.maxTokens THEN "token-brake"
  ELSE IF counters.iterations >= brakes.maxIterations THEN "iteration-brake"
  ELSE IF counters.babysitRounds >= brakes.maxBabysitRounds THEN "babysit-brake"
  ELSE NoBrake

AttemptsExhausted(counters, brakes) ==
  counters.implementAttempts >= brakes.maxImplementAttempts

NextRepairAction_EitherPasses(counters, fullVerify, review, diffEmpty, brakes) ==
  LET brakeReason == EvaluateBrakes([counters EXCEPT !.babysitRounds = 0], brakes)
  IN IF brakeReason # NoBrake THEN [kind |-> "block", reason |-> brakeReason]
     ELSE IF fullVerify = "pass" \/ review = "pass"
       THEN [kind |-> "continue", reason |-> NoBrake]
     ELSE [kind |-> "fix", reason |-> NoBrake]

(***************************************************************************)
(* What to do with the verdicts of a verify/review round.  A brake wins    *)
(* over a clean pass; the attempt limit is only looked at after a failure. *)
(* The babysit counter is passed as 0, so that brake never fires here.     *)
(***************************************************************************)
NextRepairAction(counters, fullVerify, review, diffEmpty, brakes) ==
  LET brakeReason == EvaluateBrakes([counters EXCEPT !.babysitRounds = 0], brakes)
  IN IF brakeReason # NoBrake THEN [kind |-> "block", reason |-> brakeReason]
     ELSE IF fullVerify = "pass" /\ review = "pass"
       THEN [kind |-> "continue", reason |-> NoBrake]
     ELSE IF ~AttemptsExhausted(counters, brakes)
       THEN [kind |-> "fix", reason |-> NoBrake]
     ELSE IF diffEmpty
       THEN [kind |-> "block", reason |-> "max-attempts"]
     ELSE [kind |-> "open-pr-exhausted", reason |-> NoBrake]

(***************************************************************************)
(* The verdict of an agent's output, seen as the verdict words of the lines*)
(* that start with the sentinel, whatever decorates them.  Without such a  *)
(* line it is unparseable; of several the last one counts.                 *)
(***************************************************************************)
VerdictOutputs == UNION {[1..n -> {"pass", "fail"}] : n \in 0..2}

parseVerdict(output) == IF output = <<>> THEN "unparseable" ELSE output[Len(output)]

(***************************************************************************)
(* The identity of a feedback round: the CI status and the open threads,   *)
(* without the head commit they were reported for.                         *)
(***************************************************************************)
FeedbackHash(feedback) == <<feedback.ci, feedback.threads>>

MergeReady(feedback) == feedback.ci = "green" /\ feedback.threads = {}

RoundsLeft_AtCap(rounds, cap) == rounds <= cap

RoundsLeft(rounds, cap) == rounds < cap

(***************************************************************************)
(* What a poll of the PR does next.  feedback is [ci, threads]; seen holds *)
(* the hashes already repaired; waiting counts polls without progress.     *)
(***************************************************************************)
BabysitDecision(feedback, seen, rounds, cap, waiting, maxWaits, maxPending) ==
  LET actionable == /\ feedback.ci = "failed" \/ feedback.threads # {}
                    /\ FeedbackHash(feedback) \notin seen
      budget == IF feedback.ci = "pending" THEN maxPending ELSE maxWaits
  IN IF MergeReady(feedback) THEN "merge_ready"
     ELSE IF feedback.ci = "unreadable" \/ ~RoundsLeft(rounds, cap) THEN "braked"
     ELSE IF actionable THEN "actionable"
     ELSE IF waiting >= budget THEN "braked"
     ELSE "waiting"

(***************************************************************************)
(* Whether the engine may merge: the project mode and the veto label first.*)
(***************************************************************************)
DecideMergeAuthority(mode, agentCreated, labels) ==
  IF /\ mode # "disabled"
     /\ AUTO_MERGE_DISABLE_LABEL \notin labels
     /\ AUTO_MERGE_LABEL \in labels \/ (mode = "all" /\ agentCreated)
    THEN "merge" ELSE "manual"

=============================================================================
