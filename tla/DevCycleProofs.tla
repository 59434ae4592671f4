--------------------------- MODULE DevCycleProofs ---------------------------
(***************************************************************************)
(* Proofs about DevCycle: its type invariant and the three invariants the  *)
(* run checks, for every bound, every brake of the project and every way a *)
(* run is started.  They are the parts of one inductive invariant; a part  *)
(* says for the points of the coroutine what the invariant it carries      *)
(* leaves implicit: which verdicts the points after a round rest on, which *)
(* points have a worktree, and at which the label agent:working is off.    *)
(***************************************************************************)
EXTENDS DevCycle, TLAPS

USE DevCycleAssumption DEF handle, childSignals, Landing!Open, Landing!Outcomes

\* The points before the worktree and the label, those of the rounds up to
\* their decision, those of the push, and those between it and the child.
Starting == {"resolveConfig", "prepareWorkspace", "labelIssue"}
Rounds == PreStages \cup {"implement", "full_verify", "review", "brake"}
Pushing == {"push", "pushBlocked"}
Opening == {"openPr", "dropWorking", "comment", "snapshot", "startChild"}
WithChild == {"childStarting", "landing"}

\* Where the verdicts of the last round decide what may be pushed.
GatesKept ==
  /\ pc \in Starting \cup Rounds \cup Pushing \cup Teardowns => head = None
  /\ pc \in Starting \cup Rounds => ~exhausted
  /\ pc = "brake" /\ fullVerify = "pass" /\ review = "pass" => verifiedContent = implementAttempts
  /\ pc \in Pushing /\ ~exhausted => verifiedContent = implementAttempts
  /\ OpenedPrPassedTheGates

\* The worktree is there from prepareWorkspace to the start of the child, and
\* from then on it goes with the child.
WorktreeKept ==
  /\ pc \in {"resolveConfig", "prepareWorkspace"} => ws = "none"
  /\ pc \in {"labelIssue"} \cup Rounds \cup Pushing \cup Opening => ws = "live"
  /\ child # "none" => pc \in WithChild \cup Stopped
  /\ landingChild \/ pc \in WithChild => child # "none"
  /\ childCancelled \/ childResumed => child # "none"
  /\ ChildIsOpen => ws = "live"
  /\ child \in LandingOutcomes => ws = "removed"

\* The label is on only in a run for an issue, between labelIssue and the
\* activity that takes it off.
LabelKept ==
  /\ pc = "labelIssue" \/ working => input.issue
  /\ pc \in Starting \cup (Opening \ {"openPr", "dropWorking"}) \cup WithChild => ~working
  /\ pc = "teardownWorkspace" => ~working
  /\ ReturnLeavesNothingBehind

Inv == TypeOK /\ GatesKept /\ WorktreeKept /\ LabelKept

-----------------------------------------------------------------------------
(***************************************************************************)
(* What the decision functions return.                                     *)
(***************************************************************************)

\* A round is continued to a PR only when both verdicts are a pass, and what
\* blocks it is the attempt limit or a brake that a resume lifts: never the
\* brake of the babysit rounds, which the repair loop passes as 0.
LEMMA NextRepairActionResult ==
  ASSUME NEW c \in [implementAttempts : Nat, iterations : Nat, cumulativeTokens : Nat,
                    babysitRounds : Nat],
         NEW fv, NEW rv, NEW empty, NEW b \in [BrakeFields -> Nat \ {0}]
  PROVE  LET a == NextRepairAction(c, fv, rv, empty, b) IN
         /\ a.kind \in {"block", "continue", "fix", "open-pr-exhausted"}
         /\ a.kind = "block" => a.reason \in {"token-brake", "iteration-brake", "max-attempts"}
         /\ a.kind = "continue" => fv = "pass" /\ rv = "pass"
BY DEF NextRepairAction, EvaluateBrakes, NoBrake, BrakeFields

\* The verdict of an output is one of the three words.
LEMMA parseVerdictResult ==
  ASSUME NEW output \in VerdictOutputs
  PROVE  parseVerdict(output) \in Verdicts
<1>1. PICK n \in 0..2 : output \in [1..n -> {"pass", "fail"}]
  BY DEF VerdictOutputs
<1>2. output \in Seq({"pass", "fail"}) /\ Len(output) = n
  BY <1>1
<1>3. output = <<>> \/ output[Len(output)] \in {"pass", "fail"}
  BY <1>1, <1>2
<1> QED
  BY <1>3 DEF parseVerdict, Verdicts

\* What the decision after a round does, whatever it decides.
LEMMA DecideResult ==
  ASSUME TypeOK, Decide, cumulativeTokens' \in 0..CounterCap
  PROVE  /\ pc' \in {"brake", "push", "implement"}
         /\ ControlOK'
         /\ exhausted' = exhausted \/ (pc' = "push" /\ exhausted' = TRUE)
         /\ pc' = "push" /\ ~exhausted' => fullVerify' = "pass" /\ review' = "pass"
<1> DEFINE c == [implementAttempts |-> implementAttempts, iterations |-> iterations,
                 cumulativeTokens |-> cumulativeTokens', babysitRounds |-> 0]
           a == NextRepairAction(c, fullVerify', review', diffEmpty, brakes)
<1>1. /\ c \in [implementAttempts : Nat, iterations : Nat, cumulativeTokens : Nat,
                 babysitRounds : Nat]
      /\ brakes \in [BrakeFields -> Nat \ {0}]
  BY DEF TypeOK, CountersOK, SignalsOK, Unbounded
<1>2. /\ a.kind = "block" => a.reason \in {"token-brake", "iteration-brake", "max-attempts"}
      /\ a.kind = "continue" => fullVerify' = "pass" /\ review' = "pass"
  BY <1>1, NextRepairActionResult
<1> HIDE DEF c
<1>3. \/ a.kind = "block" /\ Block("brake", a.reason) /\ UNCHANGED exhausted
      \/ a.kind = "continue" /\ Go("push", "pr") /\ UNCHANGED exhausted
      \/ a.kind = "open-pr-exhausted" /\ Go("push", "pr") /\ exhausted' = TRUE
      \/ a.kind = "fix" /\ Go("implement", "implement") /\ UNCHANGED exhausted
  BY DEF Decide, c
<1> HIDE DEF a
<1> QED
  BY <1>2, <1>3 DEF TypeOK, ControlOK, Go, Block, Points, Activities, Agents, HumanWaits,
     Statuses, BlockReasons

-----------------------------------------------------------------------------
\* A run starts without a worktree, a label, a PR or a child.
LEMMA InitInv == Init => Inv
<1> SUFFICES ASSUME Init PROVE Inv
  OBVIOUS
<1> USE DEF Init, None, NoBrake
<1>1. TypeOK
  <2>1. ControlOK
    BY DEF ControlOK, Points, Activities, Agents, PreStages, Statuses, BlockReasons
  <2>2. SignalsOK
    <3>1. brakes \in [BrakeFields -> 1..Unbounded] /\ resumes \in 0..MaxResumes
      BY DEF Unbounded
    <3> QED
      BY <3>1 DEF SignalsOK
  <2>3. CountersOK /\ call \in 1..MAX_VERDICT_CALLS
    BY DEF CountersOK
  <2>4. diffEmpty \in BOOLEAN /\ exhausted \in BOOLEAN
    OBVIOUS
  <2>5. VerdictsOK
    BY <2>3, <2>4 DEF VerdictsOK, Verdicts
  <2>6. landingChild \in BOOLEAN /\ childCancelled \in BOOLEAN /\ childResumed \in BOOLEAN /\ working \in BOOLEAN
    OBVIOUS
  <2>7. LandingOK /\ WorldOK
    BY <2>6 DEF LandingOK, WorldOK, Foreign
  <2> QED
    BY <2>1, <2>2, <2>3, <2>5, <2>7 DEF TypeOK
<1>2. GatesKept
  BY DEF GatesKept, OpenedPrPassedTheGates, Starting, Rounds, Pushing, Teardowns
<1>3. WorktreeKept
  BY DEF WorktreeKept, ChildIsOpen, LandingOutcomes, Rounds, Pushing, Opening, WithChild, PreStages
<1>4. LabelKept
  BY DEF LabelKept, ReturnLeavesNothingBehind
<1> QED
  BY <1>1, <1>2, <1>3, <1>4 DEF Inv

-----------------------------------------------------------------------------
(***************************************************************************)
(* Each step keeps the invariant.                                          *)
(***************************************************************************)

\* An unknown repo ends the run before anything was made.
LEMMA ResolveConfigKeeps == ASSUME Inv, ResolveConfig PROVE Inv'
<1> USE DEF Inv, TypeOK, ResolveConfig, Go, Return, counters, signals, verdicts, owned,
     landing, history
<1>1. TypeOK'
  BY DEF ControlOK, CountersOK, SignalsOK, VerdictsOK, LandingOK, WorldOK, Points,
     Activities, Agents, PreStages, HumanWaits, Stopped, Teardowns, Statuses, BlockReasons,
     Verdicts, LandingOutcomes, NoBrake, DevCycleInputs, PromptRuns, IssueRuns, FixRuns
<1>2. GatesKept'
  BY DEF GatesKept, OpenedPrPassedTheGates, Starting, Rounds, Pushing, Opening, WithChild,
     PreStages, Teardowns, Stopped, None, Foreign, ControlOK, CountersOK, WorldOK,
     VerdictsOK, Verdicts
<1>3. WorktreeKept'
  BY DEF WorktreeKept, ChildIsOpen, LandingOutcomes, Starting, Rounds, Pushing, Opening,
     WithChild, PreStages, Teardowns, Stopped
<1>4. LabelKept'
  BY DEF LabelKept, ReturnLeavesNothingBehind, WorktreeKept, LandingOutcomes, Starting,
     Rounds, Pushing, Opening, WithChild, PreStages, Teardowns, Stopped, WorldOK,
     DevCycleInputs, PromptRuns, IssueRuns, FixRuns
<1> QED
  BY <1>1, <1>2, <1>3, <1>4

\* The worktree is made, for a run that has none.
LEMMA PrepareWorkspaceKeeps == ASSUME Inv, PrepareWorkspace PROVE Inv'
<1> USE DEF Inv, TypeOK, PrepareWorkspace, Go, counters, signals, verdicts, landing, history
<1>1. TypeOK'
  BY DEF ControlOK, CountersOK, SignalsOK, VerdictsOK, LandingOK, WorldOK, Points,
     Activities, Agents, PreStages, HumanWaits, Stopped, Teardowns, Statuses, BlockReasons,
     Verdicts, LandingOutcomes, NoBrake, DevCycleInputs, PromptRuns, IssueRuns, FixRuns
<1>2. GatesKept'
  BY DEF GatesKept, OpenedPrPassedTheGates, Starting, Rounds, Pushing, Opening, WithChild,
     PreStages, Teardowns, Stopped, None, Foreign, ControlOK, CountersOK, WorldOK,
     VerdictsOK, Verdicts
<1>3. WorktreeKept'
  BY DEF WorktreeKept, ChildIsOpen, LandingOutcomes, Starting, Rounds, Pushing, Opening,
     WithChild, PreStages, Teardowns, Stopped
<1>4. LabelKept'
  BY DEF LabelKept, ReturnLeavesNothingBehind, Starting, Rounds, Pushing, Opening,
     WithChild, PreStages, Teardowns, Stopped, WorldOK, DevCycleInputs, PromptRuns,
     IssueRuns, FixRuns
<1> QED
  BY <1>1, <1>2, <1>3, <1>4

\* The label is put on by a run for an issue only.
LEMMA LabelIssueKeeps == ASSUME Inv, LabelIssue PROVE Inv'
<1> USE DEF Inv, TypeOK, LabelIssue, Go, counters, signals, verdicts, landing, history
<1>1. TypeOK'
  BY DEF ControlOK, CountersOK, SignalsOK, VerdictsOK, LandingOK, WorldOK, Points,
     Activities, Agents, PreStages, HumanWaits, Stopped, Teardowns, Statuses, BlockReasons,
     Verdicts, LandingOutcomes, NoBrake, DevCycleInputs, PromptRuns, IssueRuns, FixRuns
<1>2. GatesKept'
  BY DEF GatesKept, OpenedPrPassedTheGates, Starting, Rounds, Pushing, Opening, WithChild,
     PreStages, Teardowns, Stopped, None, Foreign, ControlOK, CountersOK, WorldOK,
     VerdictsOK, Verdicts
<1>3. WorktreeKept'
  BY DEF WorktreeKept, ChildIsOpen, LandingOutcomes, Starting, Rounds, Pushing, Opening,
     WithChild, PreStages, Teardowns, Stopped
<1>4. LabelKept'
  BY DEF LabelKept, ReturnLeavesNothingBehind, Starting, Rounds, Pushing, Opening,
     WithChild, PreStages, Teardowns, Stopped, WorldOK, DevCycleInputs, PromptRuns,
     IssueRuns, FixRuns
<1> QED
  BY <1>1, <1>2, <1>3, <1>4

\* A cancel tears down what there is, and a stop returns as pending.
LEMMA PreImplementStageKeeps == ASSUME Inv, PreImplementStage PROVE Inv'
<1> USE DEF Inv, TypeOK, PreImplementStage, PreStages, RunStageAgent, Teardown, Return, Go,
     NextStage, signals, verdicts, owned, landing, history, Bump
<1>1. TypeOK'
  BY DEF ControlOK, CountersOK, SignalsOK, VerdictsOK, LandingOK, WorldOK, Points,
     Activities, Agents, HumanWaits, Stopped, Teardowns, Statuses, BlockReasons, Verdicts,
     LandingOutcomes, NoBrake, DevCycleInputs, PromptRuns, IssueRuns, FixRuns
<1>2. GatesKept'
  BY DEF GatesKept, OpenedPrPassedTheGates, Starting, Rounds, Pushing, Opening, WithChild,
     Teardowns, Stopped, None, Foreign, ControlOK, CountersOK, WorldOK, VerdictsOK, Verdicts
<1>3. WorktreeKept'
  BY DEF WorktreeKept, ChildIsOpen, LandingOutcomes, Starting, Rounds, Pushing, Opening,
     WithChild, Teardowns, Stopped
<1>4. LabelKept'
  BY DEF LabelKept, ReturnLeavesNothingBehind, Starting, Rounds, Pushing, Opening,
     WithChild, Teardowns, Stopped, WorldOK, DevCycleInputs, PromptRuns, IssueRuns, FixRuns
<1> QED
  BY <1>1, <1>2, <1>3, <1>4

\* A round starts: what the last one found does not matter until it has
\* been verified again.
LEMMA ImplementKeeps == ASSUME Inv, Implement PROVE Inv'
<1> USE DEF Inv, TypeOK, Implement, RunStageAgent, Bump, Go, signals, owned, landing,
     history
<1>1. TypeOK'
  BY DEF ControlOK, CountersOK, SignalsOK, VerdictsOK, LandingOK, WorldOK, Points,
     Activities, Agents, PreStages, HumanWaits, Stopped, Teardowns, Statuses, BlockReasons,
     Verdicts, LandingOutcomes, NoBrake
<1>2. GatesKept'
  BY DEF GatesKept, OpenedPrPassedTheGates, Starting, Rounds, Pushing, Opening, WithChild,
     PreStages, Teardowns, Stopped, None, Foreign, ControlOK, CountersOK, WorldOK,
     VerdictsOK, Verdicts
<1>3. WorktreeKept'
  BY DEF WorktreeKept, ChildIsOpen, LandingOutcomes, Starting, Rounds, Pushing, Opening,
     WithChild, PreStages, Teardowns, Stopped
<1>4. LabelKept'
  BY DEF LabelKept, ReturnLeavesNothingBehind, Starting, Rounds, Pushing, Opening,
     WithChild, PreStages, Teardowns, Stopped, WorldOK, DevCycleInputs, PromptRuns,
     IssueRuns, FixRuns
<1> QED
  BY <1>1, <1>2, <1>3, <1>4

\* A failed verification resets the review, so that a later decision cannot
\* rest on an old pass.
LEMMA FullVerifyKeeps == ASSUME Inv, FullVerify PROVE Inv'
<1> USE DEF signals, owned, landing, history
<1>1. cumulativeTokens' \in 0..CounterCap
  BY DEF Inv, TypeOK, CountersOK, FullVerify, RunStageAgent, Bump
<1>2. \/ call < MAX_VERDICT_CALLS /\ call' = call + 1
         /\ UNCHANGED <<control, fullVerify, review, exhausted>>
      \/ call' = 1 /\ fullVerify' = "pass" /\ Go("review", "review")
         /\ UNCHANGED <<review, exhausted>>
      \/ call' = 1 /\ fullVerify' = "fail" /\ review' = "unparseable" /\ Decide
  BY parseVerdictResult DEF FullVerify, AsksAgain, Settled, Verdicts
<1>3. /\ pc = "full_verify"
      /\ UNCHANGED <<implementAttempts, iterations, signals, diffEmpty, owned, head, landing,
                     history, input>>
  BY DEF FullVerify
<1>4. CASE /\ call < MAX_VERDICT_CALLS /\ call' = call + 1
           /\ UNCHANGED <<control, fullVerify, review, exhausted>>
  <2>1. TypeOK'
    BY <1>1, <1>3, <1>4 DEF Inv, TypeOK, ControlOK, CountersOK, SignalsOK, VerdictsOK, LandingOK,
       WorldOK, control
  <2>2. GatesKept' /\ WorktreeKept' /\ LabelKept'
    BY <1>3, <1>4 DEF Inv, GatesKept, OpenedPrPassedTheGates, WorktreeKept, ChildIsOpen,
       LabelKept, ReturnLeavesNothingBehind, control
  <2> QED
    BY <2>1, <2>2 DEF Inv
<1>5. CASE call' = 1 /\ fullVerify' = "pass" /\ Go("review", "review")
           /\ UNCHANGED <<review, exhausted>>
  <2>1. TypeOK'
    BY <1>1, <1>3, <1>5 DEF Inv, TypeOK, ControlOK, CountersOK, SignalsOK, VerdictsOK, LandingOK,
       WorldOK, Go, Points, Activities, Agents, Verdicts
  <2>2. GatesKept' /\ WorktreeKept' /\ LabelKept'
    BY <1>3, <1>5 DEF Inv, GatesKept, OpenedPrPassedTheGates, WorktreeKept, ChildIsOpen,
       LabelKept, ReturnLeavesNothingBehind, Go, Starting, Rounds, Pushing,
       Opening, WithChild, PreStages, Stopped, Teardowns
  <2> QED
    BY <2>1, <2>2 DEF Inv
<1>6. CASE call' = 1 /\ fullVerify' = "fail" /\ review' = "unparseable" /\ Decide
  <2>1. /\ pc' \in {"brake", "push", "implement"} /\ ControlOK'
        /\ exhausted' = exhausted \/ (pc' = "push" /\ exhausted' = TRUE)
        /\ pc' = "push" => exhausted'
    BY <1>1, <1>6, DecideResult DEF Inv
  <2>2. diffEmpty' \in BOOLEAN /\ exhausted' \in BOOLEAN
    BY <1>3, <2>1 DEF Inv, TypeOK, VerdictsOK
  <2>3. TypeOK'
    BY <1>1, <1>3, <1>6, <2>1, <2>2 DEF Inv, TypeOK, CountersOK, SignalsOK, VerdictsOK,
       LandingOK, WorldOK, Verdicts
  <2>4. GatesKept' /\ WorktreeKept' /\ LabelKept'
    BY <1>3, <1>6, <2>1 DEF Inv, GatesKept, OpenedPrPassedTheGates, WorktreeKept, ChildIsOpen,
       LabelKept, ReturnLeavesNothingBehind, Starting, Rounds, Pushing,
       Opening, WithChild, PreStages, Stopped, Teardowns
  <2> QED
    BY <2>3, <2>4 DEF Inv
<1> QED
  BY <1>2, <1>4, <1>5, <1>6

\* A pass of the review, which only follows a pass of full_verify, names
\* the content it is about.
LEMMA ReviewKeeps == ASSUME Inv, Review PROVE Inv'
<1> USE DEF signals, owned, landing
<1>1. cumulativeTokens' \in 0..CounterCap
  BY DEF Inv, TypeOK, CountersOK, Review, RunStageAgent, Bump
<1>2. \/ call < MAX_VERDICT_CALLS /\ call' = call + 1
         /\ UNCHANGED <<control, review, exhausted, verifiedContent>>
      \/ /\ call' = 1 /\ review' \in {"pass", "fail"} /\ Decide
         /\ verifiedContent' = IF review' = "pass" THEN implementAttempts ELSE verifiedContent
  BY parseVerdictResult DEF Review, AsksAgain, Settled, Verdicts
<1>3. /\ pc = "review"
      /\ UNCHANGED <<fullVerify, implementAttempts, iterations, signals, diffEmpty, owned, head,
                     landing, handedOver, input>>
  BY DEF Review
<1>4. CASE /\ call < MAX_VERDICT_CALLS /\ call' = call + 1
           /\ UNCHANGED <<control, review, exhausted, verifiedContent>>
  <2>1. TypeOK'
    BY <1>1, <1>3, <1>4 DEF Inv, TypeOK, ControlOK, CountersOK, SignalsOK, VerdictsOK, LandingOK,
       WorldOK, control
  <2>2. GatesKept' /\ WorktreeKept' /\ LabelKept'
    BY <1>3, <1>4 DEF Inv, GatesKept, OpenedPrPassedTheGates, WorktreeKept, ChildIsOpen,
       LabelKept, ReturnLeavesNothingBehind, control
  <2> QED
    BY <2>1, <2>2 DEF Inv
<1>5. CASE /\ call' = 1 /\ review' \in {"pass", "fail"} /\ Decide
           /\ verifiedContent' = IF review' = "pass" THEN implementAttempts ELSE verifiedContent
  <2>1. /\ pc' \in {"brake", "push", "implement"} /\ ControlOK'
        /\ exhausted' = exhausted \/ (pc' = "push" /\ exhausted' = TRUE)
        /\ pc' = "push" /\ ~exhausted' => review' = "pass"
    BY <1>1, <1>5, DecideResult DEF Inv
  <2>2. diffEmpty' \in BOOLEAN /\ exhausted' \in BOOLEAN
    BY <1>3, <2>1 DEF Inv, TypeOK, VerdictsOK
  <2>3. TypeOK'
    BY <1>1, <1>3, <1>5, <2>1, <2>2 DEF Inv, TypeOK, CountersOK, SignalsOK, VerdictsOK,
       LandingOK, WorldOK, Verdicts
  <2>4. GatesKept' /\ WorktreeKept' /\ LabelKept'
    BY <1>3, <1>5, <2>1 DEF Inv, GatesKept, OpenedPrPassedTheGates, WorktreeKept, ChildIsOpen,
       LabelKept, ReturnLeavesNothingBehind, Starting, Rounds, Pushing,
       Opening, WithChild, PreStages, Stopped, Teardowns
  <2> QED
    BY <2>3, <2>4 DEF Inv
<1> QED
  BY <1>2, <1>4, <1>5

\* At a brake the verdicts and the content they are about have not moved.
LEMMA BrakeReleasedKeeps == ASSUME Inv, BrakeReleased PROVE Inv'
<1> USE DEF signals, owned, landing, history
<1>1. cumulativeTokens' \in 0..CounterCap
  BY DEF Inv, TypeOK, CountersOK, BrakeReleased
<1>2. /\ pc = "brake"
      /\ UNCHANGED <<cumulativeTokens, fullVerify, review, implementAttempts, iterations, signals,
                     call, diffEmpty, owned, head, landing, history, input>>
      /\ (Teardown /\ UNCHANGED exhausted) \/ Decide
  BY DEF BrakeReleased
<1>3. CASE Teardown /\ UNCHANGED exhausted
  <2>1. TypeOK'
    BY <1>2, <1>3 DEF Inv, TypeOK, ControlOK, CountersOK, SignalsOK, VerdictsOK, LandingOK,
       WorldOK, Teardown, Points, Teardowns, Statuses
  <2>2. GatesKept' /\ WorktreeKept' /\ LabelKept'
    BY <1>2, <1>3 DEF Inv, TypeOK, WorldOK, GatesKept, OpenedPrPassedTheGates, WorktreeKept,
       ChildIsOpen, LabelKept, ReturnLeavesNothingBehind, Teardown, Starting, Rounds, Pushing,
       Opening, WithChild, PreStages, Stopped, Teardowns
  <2> QED
    BY <2>1, <2>2 DEF Inv
<1>4. CASE Decide
  <2>1. /\ pc' \in {"brake", "push", "implement"} /\ ControlOK'
        /\ exhausted' = exhausted \/ (pc' = "push" /\ exhausted' = TRUE)
        /\ pc' = "push" /\ ~exhausted' => fullVerify' = "pass" /\ review' = "pass"
    BY <1>1, <1>4, DecideResult DEF Inv
  <2>2. TypeOK'
    <3>1. LandingOK' /\ WorldOK'
      BY <1>2 DEF Inv, TypeOK, LandingOK, WorldOK
    <3> QED
      BY <1>2, <2>1, <3>1 DEF Inv, TypeOK, CountersOK, SignalsOK, VerdictsOK
  <2>3. GatesKept' /\ WorktreeKept' /\ LabelKept'
    BY <1>2, <2>1 DEF Inv, GatesKept, OpenedPrPassedTheGates, WorktreeKept, ChildIsOpen,
       LabelKept, ReturnLeavesNothingBehind, Starting, Rounds, Pushing,
       Opening, WithChild, PreStages, Stopped, Teardowns
  <2> QED
    BY <2>2, <2>3 DEF Inv
<1> QED
  BY <1>2, <1>3, <1>4

\* What is pushed is the content of the last round.
LEMMA PushBranchKeeps == ASSUME Inv, PushBranch PROVE Inv'
<1> USE DEF Inv, TypeOK, PushBranch, Go, Block, counters, signals, verdicts, owned, landing,
     history
<1>1. TypeOK'
  BY DEF ControlOK, CountersOK, SignalsOK, VerdictsOK, LandingOK, WorldOK, Points,
     Activities, Agents, PreStages, HumanWaits, Stopped, Teardowns, Statuses, BlockReasons,
     Verdicts, LandingOutcomes, NoBrake, Foreign, None
<1>2. GatesKept'
  BY DEF GatesKept, OpenedPrPassedTheGates, Starting, Rounds, Pushing, Opening, WithChild,
     PreStages, Teardowns, Stopped, None, Foreign, ControlOK, CountersOK, WorldOK,
     VerdictsOK, Verdicts
<1>3. WorktreeKept'
  BY DEF WorktreeKept, ChildIsOpen, LandingOutcomes, Starting, Rounds, Pushing, Opening,
     WithChild, PreStages, Teardowns, Stopped
<1>4. LabelKept'
  BY DEF LabelKept, ReturnLeavesNothingBehind, Starting, Rounds, Pushing, Opening,
     WithChild, PreStages, Teardowns, Stopped, WorldOK, DevCycleInputs, PromptRuns,
     IssueRuns, FixRuns
<1> QED
  BY <1>1, <1>2, <1>3, <1>4

\* A refused push is tried again with the same content, or the run is torn
\* down.
LEMMA PushReleasedKeeps == ASSUME Inv, PushReleased PROVE Inv'
<1> USE DEF Inv, TypeOK, PushReleased, Teardown, Resumed, Go, counters, signals, verdicts,
     owned, landing, history
<1>1. TypeOK'
  BY DEF ControlOK, CountersOK, SignalsOK, VerdictsOK, LandingOK, WorldOK, Points,
     Activities, Agents, PreStages, HumanWaits, Stopped, Teardowns, Statuses, BlockReasons,
     Verdicts, LandingOutcomes, NoBrake, DevCycleInputs, PromptRuns, IssueRuns, FixRuns
<1>2. GatesKept'
  BY DEF GatesKept, OpenedPrPassedTheGates, Starting, Rounds, Pushing, Opening, WithChild,
     PreStages, Teardowns, Stopped, None, Foreign, ControlOK, CountersOK, WorldOK,
     VerdictsOK, Verdicts
<1>3. WorktreeKept'
  BY DEF WorktreeKept, ChildIsOpen, LandingOutcomes, Starting, Rounds, Pushing, Opening,
     WithChild, PreStages, Teardowns, Stopped
<1>4. LabelKept'
  BY DEF LabelKept, ReturnLeavesNothingBehind, Starting, Rounds, Pushing, Opening,
     WithChild, PreStages, Teardowns, Stopped, WorldOK, DevCycleInputs, PromptRuns,
     IssueRuns, FixRuns
<1> QED
  BY <1>1, <1>2, <1>3, <1>4

\* A run without an issue has no label to drop.
LEMMA OpenPrKeeps == ASSUME Inv, OpenPr PROVE Inv'
<1> USE DEF Inv, TypeOK, OpenPr, Go, AfterOpenPr, counters, signals, verdicts, owned,
     landing, history
<1>1. TypeOK'
  BY DEF ControlOK, CountersOK, SignalsOK, VerdictsOK, LandingOK, WorldOK, Points,
     Activities, Agents, PreStages, HumanWaits, Stopped, Teardowns, Statuses, BlockReasons,
     Verdicts, LandingOutcomes, NoBrake, DevCycleInputs, PromptRuns, IssueRuns, FixRuns
<1>2. GatesKept'
  BY DEF GatesKept, OpenedPrPassedTheGates, Starting, Rounds, Pushing, Opening, WithChild,
     PreStages, Teardowns, Stopped, None, Foreign, ControlOK, CountersOK, WorldOK,
     VerdictsOK, Verdicts
<1>3. WorktreeKept'
  BY DEF WorktreeKept, ChildIsOpen, LandingOutcomes, Starting, Rounds, Pushing, Opening,
     WithChild, PreStages, Teardowns, Stopped
<1>4. LabelKept'
  BY DEF LabelKept, ReturnLeavesNothingBehind, Starting, Rounds, Pushing, Opening,
     WithChild, PreStages, Teardowns, Stopped, WorldOK, DevCycleInputs, PromptRuns,
     IssueRuns, FixRuns
<1> QED
  BY <1>1, <1>2, <1>3, <1>4

\* The label is off from here on.
LEMMA DropAgentWorkingKeeps == ASSUME Inv, DropAgentWorking PROVE Inv'
<1> USE DEF Inv, TypeOK, DropAgentWorking, Go, AfterOpenPr, counters, signals, verdicts,
     landing, history
<1>0. working' \in BOOLEAN
  OBVIOUS
<1>1. TypeOK'
  BY <1>0 DEF ControlOK, CountersOK, SignalsOK, VerdictsOK, LandingOK, WorldOK, Points,
     Activities, Agents, PreStages, HumanWaits, Stopped, Teardowns, Statuses, BlockReasons,
     Verdicts, LandingOutcomes, NoBrake
<1>2. GatesKept'
  BY DEF GatesKept, OpenedPrPassedTheGates, Starting, Rounds, Pushing, Opening, WithChild,
     PreStages, Teardowns, Stopped, None, Foreign, ControlOK, CountersOK, WorldOK,
     VerdictsOK, Verdicts
<1>3. WorktreeKept'
  BY DEF WorktreeKept, ChildIsOpen, LandingOutcomes, Starting, Rounds, Pushing, Opening,
     WithChild, PreStages, Teardowns, Stopped
<1>4. LabelKept'
  BY DEF LabelKept, ReturnLeavesNothingBehind, Starting, Rounds, Pushing, Opening,
     WithChild, PreStages, Teardowns, Stopped, WorldOK, DevCycleInputs, PromptRuns,
     IssueRuns, FixRuns
<1> QED
  BY <1>1, <1>2, <1>3, <1>4

\* A comment touches nothing that is owned.
LEMMA CommentOnIssueKeeps == ASSUME Inv, CommentOnIssue PROVE Inv'
<1> USE DEF Inv, TypeOK, CommentOnIssue, Go, counters, signals, verdicts, owned, landing,
     history
<1>1. TypeOK'
  BY DEF ControlOK, CountersOK, SignalsOK, VerdictsOK, LandingOK, WorldOK, Points,
     Activities, Agents, PreStages, HumanWaits, Stopped, Teardowns, Statuses, BlockReasons,
     Verdicts, LandingOutcomes, NoBrake, DevCycleInputs, PromptRuns, IssueRuns, FixRuns
<1>2. GatesKept'
  BY DEF GatesKept, OpenedPrPassedTheGates, Starting, Rounds, Pushing, Opening, WithChild,
     PreStages, Teardowns, Stopped, None, Foreign, ControlOK, CountersOK, WorldOK,
     VerdictsOK, Verdicts
<1>3. WorktreeKept'
  BY DEF WorktreeKept, ChildIsOpen, LandingOutcomes, Starting, Rounds, Pushing, Opening,
     WithChild, PreStages, Teardowns, Stopped
<1>4. LabelKept'
  BY DEF LabelKept, ReturnLeavesNothingBehind, Starting, Rounds, Pushing, Opening,
     WithChild, PreStages, Teardowns, Stopped, WorldOK, DevCycleInputs, PromptRuns,
     IssueRuns, FixRuns
<1> QED
  BY <1>1, <1>2, <1>3, <1>4

\* A snapshot touches nothing that is owned.
LEMMA SnapshotPrKeeps == ASSUME Inv, SnapshotPr PROVE Inv'
<1> USE DEF Inv, TypeOK, SnapshotPr, Go, counters, signals, verdicts, owned, landing
<1>1. TypeOK'
  BY DEF ControlOK, CountersOK, SignalsOK, VerdictsOK, LandingOK, WorldOK, Points,
     Activities, Agents, PreStages, HumanWaits, Stopped, Teardowns, Statuses, BlockReasons,
     Verdicts, LandingOutcomes, NoBrake
<1>2. GatesKept'
  BY DEF GatesKept, OpenedPrPassedTheGates, Starting, Rounds, Pushing, Opening, WithChild,
     PreStages, Teardowns, Stopped, None, Foreign, ControlOK, CountersOK, WorldOK,
     VerdictsOK, Verdicts
<1>3. WorktreeKept'
  BY DEF WorktreeKept, ChildIsOpen, LandingOutcomes, Starting, Rounds, Pushing, Opening,
     WithChild, PreStages, Teardowns, Stopped
<1>4. LabelKept'
  BY DEF LabelKept, ReturnLeavesNothingBehind, Starting, Rounds, Pushing, Opening,
     WithChild, PreStages, Teardowns, Stopped, WorldOK, DevCycleInputs, PromptRuns,
     IssueRuns, FixRuns
<1> QED
  BY <1>1, <1>2, <1>3, <1>4

\* The child is started on the worktree, which is still there.
LEMMA StartChildKeeps == ASSUME Inv, StartChild PROVE Inv'
<1> USE DEF Inv, TypeOK, StartChild, Go, counters, signals, verdicts, owned, history
<1>1. TypeOK'
  BY DEF ControlOK, CountersOK, SignalsOK, VerdictsOK, LandingOK, WorldOK, Points,
     Activities, Agents, PreStages, HumanWaits, Stopped, Teardowns, Statuses, BlockReasons,
     Verdicts, LandingOutcomes, NoBrake
<1>2. GatesKept'
  BY DEF GatesKept, OpenedPrPassedTheGates, Starting, Rounds, Pushing, Opening, WithChild,
     PreStages, Teardowns, Stopped, None, Foreign, ControlOK, CountersOK, WorldOK,
     VerdictsOK, Verdicts
<1>3. WorktreeKept'
  BY DEF WorktreeKept, ChildIsOpen, LandingOutcomes, Starting, Rounds, Pushing, Opening,
     WithChild, PreStages, Teardowns, Stopped
<1>4. LabelKept'
  BY DEF LabelKept, ReturnLeavesNothingBehind, Starting, Rounds, Pushing, Opening,
     WithChild, PreStages, Teardowns, Stopped, WorldOK, DevCycleInputs, PromptRuns,
     IssueRuns, FixRuns
<1> QED
  BY <1>1, <1>2, <1>3, <1>4

\* The parent has the handle of a child that has started.
LEMMA ChildStartedKeeps == ASSUME Inv, ChildStarted PROVE Inv'
<1> USE DEF Inv, TypeOK, ChildStarted, Go, landing, counters, signals, verdicts, owned,
     history
<1>1. TypeOK'
  BY DEF ControlOK, CountersOK, SignalsOK, VerdictsOK, LandingOK, WorldOK, Points,
     Activities, Agents, PreStages, HumanWaits, Stopped, Teardowns, Statuses, BlockReasons,
     Verdicts, LandingOutcomes, NoBrake
<1>2. GatesKept'
  BY DEF GatesKept, OpenedPrPassedTheGates, Starting, Rounds, Pushing, Opening, WithChild,
     PreStages, Teardowns, Stopped, None, Foreign, ControlOK, CountersOK, WorldOK,
     VerdictsOK, Verdicts
<1>3. WorktreeKept'
  BY DEF WorktreeKept, ChildIsOpen, LandingOutcomes, Starting, Rounds, Pushing, Opening,
     WithChild, PreStages, Teardowns, Stopped
<1>4. LabelKept'
  BY DEF LabelKept, ReturnLeavesNothingBehind, Starting, Rounds, Pushing, Opening,
     WithChild, PreStages, Teardowns, Stopped, WorldOK, DevCycleInputs, PromptRuns,
     IssueRuns, FixRuns
<1> QED
  BY <1>1, <1>2, <1>3, <1>4

\* A child that ended with an outcome has removed the worktree.
LEMMA LandingEndsKeeps == ASSUME Inv, LandingEnds PROVE Inv'
<1> USE DEF Inv, TypeOK, LandingEnds, landing, Go, LandingOutcomes, Return, counters,
     signals, verdicts, owned, history
<1>1. TypeOK'
  BY DEF ControlOK, CountersOK, SignalsOK, VerdictsOK, LandingOK, WorldOK, Points,
     Activities, Agents, PreStages, HumanWaits, Stopped, Teardowns, Statuses, BlockReasons,
     Verdicts, NoBrake
<1>2. GatesKept'
  BY DEF GatesKept, OpenedPrPassedTheGates, Starting, Rounds, Pushing, Opening, WithChild,
     PreStages, Teardowns, Stopped, None, Foreign, ControlOK, CountersOK, WorldOK,
     VerdictsOK, Verdicts
<1>3. WorktreeKept'
  BY DEF WorktreeKept, ChildIsOpen, Starting, Rounds, Pushing, Opening, WithChild,
     PreStages, Teardowns, Stopped
<1>4. LabelKept'
  BY DEF LabelKept, ReturnLeavesNothingBehind, WorktreeKept, LandingOutcomes, Starting,
     Rounds, Pushing, Opening, WithChild, PreStages, Teardowns, Stopped, WorldOK,
     DevCycleInputs, PromptRuns, IssueRuns, FixRuns
<1> QED
  BY <1>1, <1>2, <1>3, <1>4

\* A teardown takes the label off first.
LEMMA TeardownLabelKeeps == ASSUME Inv, TeardownLabel PROVE Inv'
<1> USE DEF Inv, TypeOK, TeardownLabel, Go, counters, signals, verdicts, landing, history
<1>0. working' \in BOOLEAN
  OBVIOUS
<1>1. TypeOK'
  BY <1>0 DEF ControlOK, CountersOK, SignalsOK, VerdictsOK, LandingOK, WorldOK, Points,
     Activities, Agents, PreStages, HumanWaits, Stopped, Teardowns, Statuses, BlockReasons,
     Verdicts, LandingOutcomes, NoBrake
<1>2. GatesKept'
  BY DEF GatesKept, OpenedPrPassedTheGates, Starting, Rounds, Pushing, Opening, WithChild,
     PreStages, Teardowns, Stopped, None, Foreign, ControlOK, CountersOK, WorldOK,
     VerdictsOK, Verdicts
<1>3. WorktreeKept'
  BY DEF WorktreeKept, ChildIsOpen, LandingOutcomes, Starting, Rounds, Pushing, Opening,
     WithChild, PreStages, Teardowns, Stopped
<1>4. LabelKept'
  BY DEF LabelKept, ReturnLeavesNothingBehind, Starting, Rounds, Pushing, Opening,
     WithChild, PreStages, Teardowns, Stopped, WorldOK, DevCycleInputs, PromptRuns,
     IssueRuns, FixRuns
<1> QED
  BY <1>1, <1>2, <1>3, <1>4

\* A teardown ends without a worktree and without the label.
LEMMA TeardownWorkspaceKeeps == ASSUME Inv, TeardownWorkspace PROVE Inv'
<1> USE DEF Inv, TypeOK, TeardownWorkspace, Go, counters, signals, verdicts, landing,
     history
<1>1. TypeOK'
  BY DEF ControlOK, CountersOK, SignalsOK, VerdictsOK, LandingOK, WorldOK, Points,
     Activities, Agents, PreStages, HumanWaits, Stopped, Teardowns, Statuses, BlockReasons,
     Verdicts, LandingOutcomes, NoBrake
<1>2. GatesKept'
  BY DEF GatesKept, OpenedPrPassedTheGates, Starting, Rounds, Pushing, Opening, WithChild,
     PreStages, Teardowns, Stopped, None, Foreign, ControlOK, CountersOK, WorldOK,
     VerdictsOK, Verdicts
<1>3. WorktreeKept'
  BY DEF WorktreeKept, ChildIsOpen, LandingOutcomes, Starting, Rounds, Pushing, Opening,
     WithChild, PreStages, Teardowns, Stopped
<1>4. LabelKept'
  BY DEF LabelKept, ReturnLeavesNothingBehind, Starting, Rounds, Pushing, Opening,
     WithChild, PreStages, Teardowns, Stopped, WorldOK, DevCycleInputs, PromptRuns,
     IssueRuns, FixRuns
<1> QED
  BY <1>1, <1>2, <1>3, <1>4

\* An execution that fails leaves everything where it is.
LEMMA ActivityFailsKeeps == ASSUME Inv, ActivityFails PROVE Inv'
<1> USE DEF Inv, TypeOK, ActivityFails, Activities, Teardowns, Go, counters, signals,
     verdicts, owned, landing, history, Agents, PreStages
<1>1. TypeOK'
  BY DEF ControlOK, CountersOK, SignalsOK, VerdictsOK, LandingOK, WorldOK, Points,
     HumanWaits, Stopped, Statuses, BlockReasons, Verdicts, LandingOutcomes, NoBrake
<1>2. GatesKept'
  BY DEF GatesKept, OpenedPrPassedTheGates, Starting, Rounds, Pushing, Opening, WithChild,
     Stopped, None, Foreign, ControlOK, CountersOK, WorldOK, VerdictsOK, Verdicts
<1>3. WorktreeKept'
  BY DEF WorktreeKept, ChildIsOpen, LandingOutcomes, Starting, Rounds, Pushing, Opening,
     WithChild, Stopped
<1>4. LabelKept'
  BY DEF LabelKept, ReturnLeavesNothingBehind, Starting, Rounds, Pushing, Opening,
     WithChild, Stopped, WorldOK, DevCycleInputs, PromptRuns, IssueRuns, FixRuns
<1> QED
  BY <1>1, <1>2, <1>3, <1>4

\* A stop is a flag until a stage of an agent ends.
LEMMA StopKeeps == ASSUME Inv, Stop PROVE Inv'
<1> USE DEF Inv, TypeOK, Stop, Running, control, counters, verdicts, owned, landing,
     history, Stopped
<1>1. TypeOK'
  BY DEF ControlOK, CountersOK, SignalsOK, VerdictsOK, LandingOK, WorldOK, Points,
     Activities, Agents, PreStages, HumanWaits, Teardowns, Statuses, BlockReasons, Verdicts,
     LandingOutcomes, NoBrake
<1>2. GatesKept'
  BY DEF GatesKept, OpenedPrPassedTheGates, Starting, Rounds, Pushing, Opening, WithChild,
     PreStages, Teardowns, None, Foreign, ControlOK, CountersOK, WorldOK, VerdictsOK,
     Verdicts
<1>3. WorktreeKept'
  BY DEF WorktreeKept, ChildIsOpen, LandingOutcomes, Starting, Rounds, Pushing, Opening,
     WithChild, PreStages, Teardowns
<1>4. LabelKept'
  BY DEF LabelKept, ReturnLeavesNothingBehind, Starting, Rounds, Pushing, Opening,
     WithChild, PreStages, Teardowns, WorldOK, DevCycleInputs, PromptRuns, IssueRuns,
     FixRuns
<1> QED
  BY <1>1, <1>2, <1>3, <1>4

\* A cancel is a flag until the coroutine looks at it.
LEMMA CancelKeeps == ASSUME Inv, Cancel PROVE Inv'
<1> USE DEF Landing!Cancels, Landing!Resumes, Inv, TypeOK, Cancel, Running, ChildIsOpen, control, counters, verdicts, owned,
     history, Stopped
<1>0. /\ childCancelled' \in BOOLEAN /\ childResumed' \in BOOLEAN
      /\ UNCHANGED <<child, ws, working, landingChild, landingOutcome>>
  BY DEF LandingOK
<1>1. TypeOK'
  <2>1. LandingOK' /\ WorldOK'
    BY <1>0 DEF LandingOK, WorldOK
  <2>2. SignalsOK'
    BY DEF SignalsOK, BrakeFields
  <2>3. ControlOK' /\ CountersOK' /\ VerdictsOK'
    BY DEF ControlOK, CountersOK, VerdictsOK, Statuses, BlockReasons, NoBrake
  <2> QED
    BY <2>1, <2>2, <2>3
<1>2. GatesKept'
  BY DEF GatesKept, OpenedPrPassedTheGates, Starting, Rounds, Pushing, Opening, WithChild,
     PreStages, Teardowns, None, Foreign, ControlOK, CountersOK, WorldOK, VerdictsOK,
     Verdicts
<1>3. WorktreeKept'
  BY DEF WorktreeKept, LandingOutcomes, Starting, Rounds, Pushing, Opening, WithChild,
     PreStages, Teardowns
<1>4. LabelKept'
  BY DEF LabelKept, ReturnLeavesNothingBehind, Starting, Rounds, Pushing, Opening,
     WithChild, PreStages, Teardowns, WorldOK, DevCycleInputs, PromptRuns, IssueRuns,
     FixRuns
<1> QED
  BY <1>1, <1>2, <1>3, <1>4

\* A resume lifts the brake and does not touch what the round found.
LEMMA ResumeKeeps == ASSUME Inv, Resume PROVE Inv'
<1> USE DEF Landing!Cancels, Landing!Resumes, Inv, TypeOK, Resume, Running, LiftedBrakes, counters, verdicts, owned, history,
     Stopped, Unbounded
<1>0. /\ childCancelled' \in BOOLEAN /\ childResumed' \in BOOLEAN
      /\ UNCHANGED <<child, ws, working, landingChild, landingOutcome>>
  BY DEF LandingOK
<1>1. TypeOK'
  <2>1. LandingOK' /\ WorldOK'
    BY <1>0 DEF LandingOK, WorldOK
  <2>2. SignalsOK'
    BY DEF SignalsOK, BrakeFields
  <2>3. ControlOK' /\ CountersOK' /\ VerdictsOK'
    BY DEF ControlOK, CountersOK, VerdictsOK, Statuses, BlockReasons, NoBrake
  <2> QED
    BY <2>1, <2>2, <2>3
<1>2. GatesKept'
  BY DEF GatesKept, OpenedPrPassedTheGates, Starting, Rounds, Pushing, Opening, WithChild,
     PreStages, Teardowns, None, Foreign, ControlOK, CountersOK, WorldOK, VerdictsOK,
     Verdicts
<1>3. WorktreeKept'
  BY DEF WorktreeKept, ChildIsOpen, LandingOutcomes, Starting, Rounds, Pushing, Opening,
     WithChild, PreStages, Teardowns
<1>4. LabelKept'
  BY DEF LabelKept, ReturnLeavesNothingBehind, Starting, Rounds, Pushing, Opening,
     WithChild, PreStages, Teardowns, WorldOK, DevCycleInputs, PromptRuns, IssueRuns,
     FixRuns
<1> QED
  BY <1>1, <1>2, <1>3, <1>4

\* Whatever the child does, the parent stays where it is; it has the worktree for as
\* long as it is open, and a child that returns has removed it.
LEMMA ChildKeeps ==
  ASSUME Inv, ChildBrakes \/ ChildAnswers \/ ChildEnds \/ ChildReturns \/ ChildFails PROVE Inv'
<1> USE DEF Inv, TypeOK, TheParent, control, counters, signals, verdicts, history
<1>1. UNCHANGED TheParent
  BY DEF ChildBrakes, ChildAnswers, ChildEnds, ChildReturns, ChildFails
<1>2. /\ child \in {"running", "braked", "ending"} /\ ws = "live"
      /\ childCancelled' = childCancelled /\ childResumed' \in BOOLEAN
      /\ \/ child' \in {"running", "braked", "ending"} /\ ws' = "live"
         \/ child' \in LandingOutcomes /\ ws' = "removed"
         \/ child' = "crashed" /\ ws' = ws
  BY DEF ChildBrakes, ChildAnswers, ChildEnds, ChildReturns, ChildFails, Landing!Brakes,
     Landing!Answers, Landing!Ends, Landing!Returns, Landing!Crashes, LandingOK, WorldOK,
     WorktreeKept, ChildIsOpen, LandingOutcomes
<1>3. TypeOK'
  BY <1>1, <1>2 DEF ControlOK, CountersOK, SignalsOK, VerdictsOK, LandingOK, WorldOK
<1>4. GatesKept'
  BY <1>1 DEF GatesKept, OpenedPrPassedTheGates
<1>5. WorktreeKept'
  BY <1>1, <1>2 DEF WorktreeKept, ChildIsOpen, LandingOutcomes, Rounds, Pushing, Opening,
     WithChild, PreStages, Stopped
<1>6. LabelKept'
  BY <1>1, <1>2 DEF LabelKept, ReturnLeavesNothingBehind
<1> QED
  BY <1>3, <1>4, <1>5, <1>6

\* The head somebody else pushed is not one the gates are about.
LEMMA ExternalPushKeeps == ASSUME Inv, ExternalPush PROVE Inv'
<1> USE DEF Inv, TypeOK, ExternalPush, Foreign, control, counters, signals, verdicts, owned,
     landing, history
<1>1. TypeOK'
  BY DEF ControlOK, CountersOK, SignalsOK, VerdictsOK, LandingOK, WorldOK, Points,
     Activities, Agents, PreStages, HumanWaits, Stopped, Teardowns, Statuses, BlockReasons,
     Verdicts, LandingOutcomes, NoBrake, None
<1>2. GatesKept'
  BY DEF GatesKept, OpenedPrPassedTheGates, Starting, Rounds, Pushing, Opening, WithChild,
     PreStages, Teardowns, Stopped, None, ControlOK, CountersOK, WorldOK, VerdictsOK,
     Verdicts
<1>3. WorktreeKept'
  BY DEF WorktreeKept, ChildIsOpen, LandingOutcomes, Starting, Rounds, Pushing, Opening,
     WithChild, PreStages, Teardowns, Stopped
<1>4. LabelKept'
  BY DEF LabelKept, ReturnLeavesNothingBehind, Starting, Rounds, Pushing, Opening,
     WithChild, PreStages, Teardowns, Stopped, WorldOK, DevCycleInputs, PromptRuns,
     IssueRuns, FixRuns
<1> QED
  BY <1>1, <1>2, <1>3, <1>4

-----------------------------------------------------------------------------
\* Whatever the coroutine, a signal, the child or somebody's push does.
LEMMA StepKeepsInv == Inv /\ [Next]_vars => Inv'
<1> SUFFICES ASSUME Inv, [Next]_vars PROVE Inv'
  OBVIOUS
<1>1. CASE WorkflowStep
  BY <1>1, ResolveConfigKeeps, PrepareWorkspaceKeeps, LabelIssueKeeps, PreImplementStageKeeps,
     ImplementKeeps, FullVerifyKeeps, ReviewKeeps, BrakeReleasedKeeps, PushBranchKeeps,
     PushReleasedKeeps, OpenPrKeeps, DropAgentWorkingKeeps, CommentOnIssueKeeps,
     SnapshotPrKeeps, StartChildKeeps, ChildStartedKeeps, LandingEndsKeeps,
     TeardownLabelKeeps, TeardownWorkspaceKeeps, ActivityFailsKeeps DEF WorkflowStep
<1>2. CASE Stop \/ Cancel \/ Resume
  BY <1>2, StopKeeps, CancelKeeps, ResumeKeeps
<1>3. CASE \/ ChildBrakes \/ ChildAnswers \/ ChildEnds \/ ChildReturns \/ ChildFails
           \/ ExternalPush
  BY <1>3, ChildKeeps, ExternalPushKeeps
<1>4. CASE UNCHANGED vars
  <2> USE <1>4 DEF vars, control, counters, signals, verdicts, owned, landing, history
  <2>1. TypeOK'
    BY DEF Inv, TypeOK, ControlOK, CountersOK, SignalsOK, VerdictsOK, LandingOK, WorldOK
  <2>2. GatesKept'
    BY DEF Inv, GatesKept, OpenedPrPassedTheGates
  <2>3. WorktreeKept' /\ LabelKept'
    BY DEF Inv, WorktreeKept, ChildIsOpen, LabelKept, ReturnLeavesNothingBehind
  <2> QED
    BY <2>1, <2>2, <2>3 DEF Inv
<1> QED
  BY <1>1, <1>2, <1>3, <1>4 DEF Next

\* The invariant the parts make up holds of every run.
LEMMA RunsKeepInv == Spec => []Inv
BY InitInv, StepKeepsInv, PTL DEF Spec

\* Every variable keeps its type, whatever the agents answer, whichever brakes
\* are lifted, and wherever an activity gives up.
THEOREM TypeCorrect == Spec => []TypeOK
<1>1. Inv => TypeOK
  BY DEF Inv
<1> QED
  BY <1>1, RunsKeepInv, PTL

\* OpenedPrPassedTheGates: a PR that is not announced as exhausted carries the
\* content that passed full verification and then review (dev-cycle.ts, the
\* repair loop and the push).
THEOREM OpenedPrPassed == Spec => []OpenedPrPassedTheGates
<1>1. Inv => OpenedPrPassedTheGates
  BY DEF Inv, GatesKept
<1> QED
  BY <1>1, RunsKeepInv, PTL

\* OneWorktreeOwner: while the child may use the worktree the parent is parked
\* at it, and the child never runs without the worktree.
THEOREM WorktreeHasOneOwner == Spec => []OneWorktreeOwner
<1>1. Inv => OneWorktreeOwner
  BY DEF Inv, WorktreeKept, OneWorktreeOwner, ChildIsOpen, WithChild
<1> QED
  BY <1>1, RunsKeepInv, PTL

\* ReturnLeavesNothingBehind: a run that returns other than by a stop has
\* neither a worktree nor agent:working left.
THEOREM NothingIsLeftBehind == Spec => []ReturnLeavesNothingBehind
<1>1. Inv => ReturnLeavesNothingBehind
  BY DEF Inv, LabelKept
<1> QED
  BY <1>1, RunsKeepInv, PTL

-----------------------------------------------------------------------------
\* The child begins as prLanding does and takes none but its steps.
ChildIsALanding ==
  [][IF child = "none" THEN child' # "none" => Landing!Init'
     ELSE [Landing!Next]_(Landing!landingVars)]_vars

\* The parent's activities do not touch the child, nor its worktree once there is one.
LEMMA ParentSparesChild ==
  ASSUME Inv, WorkflowStep
  PROVE  IF child = "none" THEN child' # "none" => Landing!Init'
         ELSE UNCHANGED Landing!landingVars
<1> USE DEF Landing!landingVars, Landing!Init, landing, owned
<1>1. child # "none" => pc \in WithChild \cup Stopped
  BY DEF Inv, WorktreeKept
<1>2. CASE StartChild
  <2>1. pc = "startChild" /\ child = "none" /\ ws = "live"
    BY <1>1, <1>2 DEF StartChild, WithChild, Stopped, Inv, WorktreeKept, Opening
  <2>2. ~childCancelled /\ ~childResumed
    BY <2>1 DEF Inv, WorktreeKept
  <2>3. QED BY <1>2, <2>1, <2>2 DEF StartChild
<1>3. CASE PrepareWorkspace \/ TeardownWorkspace
  BY <1>1, <1>3 DEF PrepareWorkspace, TeardownWorkspace, WithChild, Stopped
<1>4. CASE ~(StartChild \/ PrepareWorkspace \/ TeardownWorkspace)
  BY <1>4 DEF WorkflowStep, ResolveConfig, LabelIssue, PreImplementStage, Implement, FullVerify,
     Review, BrakeReleased, PushBranch, PushReleased, OpenPr, DropAgentWorking, CommentOnIssue,
     SnapshotPr, ChildStarted, LandingEnds, TeardownLabel, ActivityFails
<1> QED BY <1>2, <1>3, <1>4

\* What DevCycle says of its child is what PrLanding keeps (LandingPromiseIsKept): it
\* is started as the promise begins, and signals, the child's own steps and the
\* parent's are no others. (dev-cycle.ts, startChild and forwardToLandingChild)
THEOREM ChildKeepsThePromise == Spec => ChildIsALanding
<1>1. ASSUME Inv, [Next]_vars
      PROVE  IF child = "none" THEN child' # "none" => Landing!Init'
             ELSE [Landing!Next]_(Landing!landingVars)
  <2>1. CASE WorkflowStep
    BY <1>1, <2>1, ParentSparesChild
  <2>2. CASE Stop
    BY <2>2 DEF Stop, landing, owned, Landing!landingVars
  <2>3. CASE Cancel
    BY <2>3 DEF Cancel, Landing!landingVars, Landing!Next, Landing!Cancels
  <2>4. CASE Resume
    BY <2>4 DEF Resume, Landing!landingVars, Landing!Next, Landing!Resumes
  <2>5. CASE ChildBrakes \/ ChildAnswers \/ ChildEnds \/ ChildReturns \/ ChildFails
    <3>1. child # "none"
      BY <2>5 DEF ChildBrakes, ChildAnswers, ChildEnds, ChildReturns, ChildFails, Landing!Brakes,
         Landing!Answers, Landing!Ends, Landing!Returns, Landing!Crashes
    <3>2. QED
      BY <2>5, <3>1 DEF ChildBrakes, ChildAnswers, ChildEnds, ChildReturns, ChildFails, Landing!Next
  <2>6. CASE ExternalPush
    BY <2>6 DEF ExternalPush, landing, owned, Landing!landingVars
  <2>7. CASE UNCHANGED vars
    BY <2>7 DEF vars, landing, owned, Landing!landingVars
  <2>8. QED BY <1>1, <2>1, <2>2, <2>3, <2>4, <2>5, <2>6, <2>7 DEF Next
<1>2. QED BY <1>1, RunsKeepInv, PTL DEF Spec, ChildIsALanding

=============================================================================
