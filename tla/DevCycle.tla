------------------------------ MODULE DevCycle ------------------------------
(***************************************************************************)
(* The devCycle workflow (packages/workflows/src/dev-cycle.ts): from a     *)
(* task to an open PR and the prLanding child that lands it.  pc names the *)
(* await the coroutine is parked at; an action is the code from there to   *)
(* the next await.  The child is seen from outside: it takes the steps of  *)
(* LandingPromise, which PrLanding implements.                             *)
(*                                                                         *)
(* The content of the branch is named by the number of the implement round *)
(* that produced it; Foreign is a head somebody else pushed.               *)
(***************************************************************************)
EXTENDS Policies

CONSTANTS
  Inputs,          \* [config, issue, assess]: what the run was started with
  MaxResumes,      \* bound: resume signals a human sends
  CounterCap,      \* bound: every counter saturates here
  ConfigBrakes,    \* config.brakes of the project
  MAX_VERDICT_CALLS,
  ActivitiesFail,  \* whether an activity may give up after its retries
  ExternalPushes   \* whether anybody else pushes to the task branch

None == 0
Foreign == CounterCap + 1
Unbounded == CounterCap + 1   \* Number.MAX_SAFE_INTEGER
BrakeFields == {"maxImplementAttempts", "maxIterations", "maxTokens", "maxBabysitRounds"}

\* Who starts a run: the control plane with a prompt and no config (resolved
\* by the workflow), a gateway with an issue, a platform run with a fix.
PromptRuns == [config: {FALSE}, issue: {FALSE}, assess: BOOLEAN]
IssueRuns == [config: {TRUE}, issue: {TRUE}, assess: BOOLEAN]
FixRuns == [config: {TRUE}, issue: {FALSE}, assess: BOOLEAN]
DevCycleInputs == PromptRuns \cup IssueRuns \cup FixRuns

ASSUME DevCycleAssumption ==
  /\ Inputs \subseteq DevCycleInputs
  /\ MaxResumes \in Nat
  /\ CounterCap \in Nat
  /\ ConfigBrakes \in [BrakeFields -> 1..CounterCap]
  /\ MAX_VERDICT_CALLS \in Nat \ {0}
  /\ ActivitiesFail \in BOOLEAN /\ ExternalPushes \in BOOLEAN

VARIABLES
  pc,
  \* DevCycleState
  stage, status, blockReason, implementAttempts, iterations, cumulativeTokens,
  landingOutcome,
  \* locals of the workflow function
  cancelled, stopRequested, brakes, resumes, landingChild,
  call, fullVerify, review, diffEmpty, exhausted,
  \* the worktree, the label agent:working, the PR and its head
  input, ws, working, head,
  \* the child: its state and the signals it has received (LandingPromise)
  child, childCancelled, childResumed,
  \* history: the content that last passed both gates, and the head that was
  \* handed to the child as validated
  verifiedContent, handedOver

control == <<pc, stage, status, blockReason>>
counters == <<implementAttempts, iterations, cumulativeTokens>>
signals == <<cancelled, stopRequested, brakes, resumes>>
verdicts == <<call, fullVerify, review, diffEmpty, exhausted>>
owned == <<ws, working>>
handle == <<landingChild, landingOutcome>>
childSignals == <<childCancelled, childResumed>>
landing == <<handle, child, childSignals>>
history == <<verifiedContent, handedOver>>
vars == <<control, counters, signals, verdicts, owned, head, landing, history, input>>

PreStages == {"context", "assess", "design", "plan"}
Agents == PreStages \cup {"implement", "full_verify", "review"}
HumanWaits == {"brake", "pushBlocked"}
Stopped == {"returned", "workflowFailed"}
\* The awaits of an activity (or of the start of the child) outside a teardown.
Activities == Agents \cup {"resolveConfig", "prepareWorkspace", "labelIssue", "push",
                           "openPr", "dropWorking", "comment", "snapshot", "startChild"}
Teardowns == {"teardownLabel", "teardownWorkspace"}
Points == Activities \cup Teardowns \cup HumanWaits \cup {"childStarting", "landing"} \cup Stopped

Statuses == {"running", "pending", "blocked", "failed", "done"}
BlockReasons == {NoBrake, "token-brake", "iteration-brake", "max-attempts",
                 "git-push-permission-denied", "unregistered-repo", "pr-landing-blocked"}
Verdicts == {"pass", "fail", "unparseable"}

\* The child, a prLanding.
Landing == INSTANCE LandingPromise WITH told <- childCancelled, resumed <- childResumed
LandingOutcomes == Landing!Outcomes

Bump(n) == IF n < CounterCap THEN n + 1 ELSE n
Running == pc \notin Stopped

Init ==
  /\ input \in Inputs
  /\ pc = IF input.config THEN "prepareWorkspace" ELSE "resolveConfig"
  /\ stage = "context" /\ status = "running" /\ blockReason = NoBrake
  /\ implementAttempts = 0 /\ iterations = 0 /\ cumulativeTokens = 0
  /\ landingOutcome = "none"
  /\ cancelled = FALSE /\ stopRequested = FALSE /\ brakes = ConfigBrakes /\ resumes = 0
  /\ landingChild = FALSE /\ child = "none"
  /\ childCancelled = FALSE /\ childResumed = FALSE
  /\ call = 1 /\ fullVerify = "unparseable" /\ review = "unparseable"
  /\ diffEmpty = FALSE /\ exhausted = FALSE
  /\ ws = "none" /\ working = FALSE /\ head = None
  /\ verifiedContent = None /\ handedOver = None

-----------------------------------------------------------------------------
(***************************************************************************)
(* Ways a segment of the coroutine ends.                                   *)
(***************************************************************************)
Go(point, newStage) ==
  /\ pc' = point /\ stage' = newStage /\ UNCHANGED <<status, blockReason>>

Return(newStage, newStatus, reason) ==
  /\ pc' = "returned" /\ stage' = newStage /\ status' = newStatus /\ blockReason' = reason

Block(point, reason) ==
  /\ pc' = point /\ status' = "blocked" /\ blockReason' = reason /\ UNCHANGED stage

Teardown_KeepsWorkspace ==
  /\ pc' = IF input.issue THEN "teardownLabel" ELSE "returned"
  /\ stage' = "failed" /\ status' = "failed" /\ UNCHANGED blockReason

\* A cancel is honoured: drop agent:working, remove the worktree, return.
Teardown ==
  /\ pc' = IF input.issue THEN "teardownLabel" ELSE "teardownWorkspace"
  /\ stage' = "failed" /\ status' = "failed" /\ UNCHANGED blockReason

\* waitForResumeOrCancel: what the two waits for a human have in common.
Resumed == ~cancelled /\ status = "running"

\* preImplementStages for a run of devCycle, which passes no triage level.
NextStage(point) ==
  CASE point = "context" /\ input.assess -> "assess"
    [] point = "context" /\ ~input.assess -> "design"
    [] point = "assess" -> "design"
    [] point = "design" -> "plan"
    [] OTHER -> "implement"

(***************************************************************************)
(* evaluate() on the counters and verdicts of the round, and what follows  *)
(* from the action it returns.                                             *)
(***************************************************************************)
Decide ==
  LET action == NextRepairAction(
        [implementAttempts |-> implementAttempts, iterations |-> iterations,
         cumulativeTokens |-> cumulativeTokens', babysitRounds |-> 0],
        fullVerify', review', diffEmpty, brakes)
  IN \/ /\ action.kind = "block" /\ Block("brake", action.reason)
        /\ UNCHANGED exhausted
     \/ /\ action.kind = "continue" /\ Go("push", "pr")
        /\ UNCHANGED exhausted
     \/ /\ action.kind = "open-pr-exhausted" /\ Go("push", "pr")
        /\ exhausted' = TRUE
     \/ /\ action.kind = "fix" /\ Go("implement", "implement")
        /\ UNCHANGED exhausted

\* runStageAgent: the brakes count the tokens of every call, also of one whose
\* answer is useless.
RunStageAgent == cumulativeTokens' = Bump(cumulativeTokens)

\* runVerdictStage: an unparseable answer is asked for again; the last call
\* settles it as a failure.
AsksAgain(kind) == kind = "unparseable" /\ call < MAX_VERDICT_CALLS
Settled(kind) == IF kind = "unparseable" THEN "fail" ELSE kind

-----------------------------------------------------------------------------
(***************************************************************************)
(* Actions of the workflow.                                                *)
(***************************************************************************)

\* Runs started with a prompt carry no config; the repo may be unknown here.
ResolveConfig ==
  /\ pc = "resolveConfig"
  /\ \/ Go("prepareWorkspace", stage)
     \/ Return("failed", "failed", "unregistered-repo")
  /\ UNCHANGED <<counters, signals, verdicts, owned, head, landing, history, input>>

PrepareWorkspace ==
  /\ pc = "prepareWorkspace"
  /\ ws' = "live"
  /\ Go(IF input.issue THEN "labelIssue" ELSE "context", "context")
  /\ UNCHANGED <<counters, signals, verdicts, working, head, landing, history, input>>

LabelIssue ==
  /\ pc = "labelIssue"
  /\ working' = TRUE
  /\ Go("context", "context")
  /\ UNCHANGED <<counters, signals, verdicts, ws, head, landing, history, input>>

\* The only place where a stop is looked at; the worktree is kept then.
PreImplementStage ==
  /\ pc \in PreStages
  /\ RunStageAgent
  /\ \/ cancelled /\ Teardown
     \/ ~cancelled /\ stopRequested /\ Return(stage, "pending", blockReason)
     \/ ~cancelled /\ ~stopRequested /\ Go(NextStage(pc), NextStage(pc))
  /\ UNCHANGED <<implementAttempts, iterations, signals, verdicts, owned, head,
                 landing, history, input>>

Implement_NotCounted ==
  /\ pc = "implement"
  /\ RunStageAgent
  /\ iterations' = Bump(iterations)
  /\ diffEmpty' \in BOOLEAN
  /\ call' = 1
  /\ Go("full_verify", "full_verify")
  /\ UNCHANGED <<implementAttempts, signals, fullVerify, review, exhausted, owned, head,
                 landing, history, input>>

Implement ==
  /\ pc = "implement"
  /\ RunStageAgent
  /\ implementAttempts' = Bump(implementAttempts) /\ iterations' = Bump(iterations)
  /\ diffEmpty' \in BOOLEAN
  /\ call' = 1
  /\ Go("full_verify", "full_verify")
  /\ UNCHANGED <<signals, fullVerify, review, exhausted, owned, head, landing, history,
                 input>>

FullVerify ==
  /\ pc = "full_verify"
  /\ RunStageAgent
  /\ \E output \in VerdictOutputs : LET kind == parseVerdict(output) IN
       \/ /\ AsksAgain(kind)
          /\ call' = call + 1
          /\ UNCHANGED <<control, fullVerify, review, exhausted>>
       \/ /\ ~AsksAgain(kind) /\ call' = 1
          /\ fullVerify' = Settled(kind)
          /\ \/ /\ Settled(kind) = "pass" /\ Go("review", "review")
                /\ UNCHANGED <<review, exhausted>>
             \/ /\ Settled(kind) = "fail" /\ review' = "unparseable"
                /\ Decide
  /\ UNCHANGED <<implementAttempts, iterations, signals, diffEmpty, owned, head, landing,
                 history, input>>

Review ==
  /\ pc = "review"
  /\ RunStageAgent
  /\ UNCHANGED fullVerify
  /\ \E output \in VerdictOutputs : LET kind == parseVerdict(output) IN
       \/ /\ AsksAgain(kind)
          /\ call' = call + 1
          /\ UNCHANGED <<control, review, exhausted, verifiedContent>>
       \/ /\ ~AsksAgain(kind) /\ call' = 1
          /\ review' = Settled(kind)
          /\ verifiedContent' = IF review' = "pass" THEN implementAttempts ELSE verifiedContent
          /\ Decide
  /\ UNCHANGED <<implementAttempts, iterations, signals, diffEmpty, owned, head, landing,
                 handedOver, input>>

BrakeReleased ==
  /\ pc = "brake"
  /\ UNCHANGED <<cumulativeTokens, fullVerify, review>>
  /\ \/ cancelled /\ Teardown /\ UNCHANGED exhausted
     \/ Resumed /\ Decide
  /\ UNCHANGED <<implementAttempts, iterations, signals, call, diffEmpty, owned, head,
                 landing, history, input>>

PushBranch ==
  /\ pc = "push"
  /\ \/ Go("openPr", stage) /\ head' = implementAttempts
     \/ Block("pushBlocked", "git-push-permission-denied") /\ UNCHANGED head
  /\ UNCHANGED <<counters, signals, verdicts, owned, landing, history, input>>

PushReleased ==
  /\ pc = "pushBlocked"
  /\ \/ cancelled /\ Teardown
     \/ Resumed /\ Go("push", stage)
  /\ UNCHANGED <<counters, signals, verdicts, owned, head, landing, history, input>>

AfterOpenPr == IF exhausted THEN "comment" ELSE "snapshot"

OpenPr ==
  /\ pc = "openPr"
  /\ Go(IF input.issue THEN "dropWorking" ELSE AfterOpenPr, stage)
  /\ UNCHANGED <<counters, signals, verdicts, owned, head, landing, history, input>>

DropAgentWorking ==
  /\ pc = "dropWorking"
  /\ working' = FALSE
  /\ Go(AfterOpenPr, stage)
  /\ UNCHANGED <<counters, signals, verdicts, ws, head, landing, history, input>>

\* commentOnIssue(issueRef ?? taskId): a task id is no reference to an issue,
\* so without an issue the activity fails on every attempt.
CommentOnIssue ==
  /\ pc = "comment"
  /\ Go(IF input.issue THEN "snapshot" ELSE "workflowFailed", stage)
  /\ UNCHANGED <<counters, signals, verdicts, owned, head, landing, history, input>>

\* The head of the PR as it is now is handed over as the validated one.
SnapshotPr ==
  /\ pc = "snapshot"
  /\ handedOver' = head
  /\ Go("startChild", stage)
  /\ UNCHANGED <<counters, signals, verdicts, owned, head, landing, verifiedContent, input>>

StartChild_CleansUp ==
  /\ pc = "startChild"
  /\ child' = "running" /\ ws' = "removed"
  /\ Go("childStarting", stage)
  /\ UNCHANGED <<counters, signals, verdicts, working, head, handle, childSignals,
                 history, input>>

\* startChild: the child runs before the parent holds its handle.
StartChild ==
  /\ pc = "startChild"
  /\ child' = "running"
  /\ Go("childStarting", stage)
  /\ UNCHANGED <<counters, signals, verdicts, owned, head, handle, childSignals,
                 history, input>>

ChildStarted ==
  /\ pc = "childStarting"
  /\ landingChild' = TRUE
  /\ Go("landing", stage)
  /\ UNCHANGED <<counters, signals, verdicts, owned, head, landingOutcome, child,
                 childSignals, history, input>>

LandingEnds ==
  /\ pc = "landing"
  /\ \/ /\ child = "crashed" /\ Go("workflowFailed", stage)
        /\ UNCHANGED landingOutcome
     \/ /\ child \in LandingOutcomes
        /\ landingOutcome' = child
        /\ CASE child = "blocked" -> Return("pr_babysit", "blocked", "pr-landing-blocked")
             [] child \in {"failed", "cancelled"} -> Return("failed", "failed", blockReason)
             [] OTHER -> Return("done", "done", blockReason)
  /\ UNCHANGED <<counters, signals, verdicts, owned, head, landingChild, child,
                 childSignals, history, input>>

\* The two activities of a teardown.
TeardownLabel ==
  /\ pc = "teardownLabel"
  /\ working' = FALSE
  /\ Go("teardownWorkspace", stage)
  /\ UNCHANGED <<counters, signals, verdicts, ws, head, landing, history, input>>

TeardownWorkspace ==
  /\ pc = "teardownWorkspace"
  /\ ws' = "removed"
  /\ Go("returned", stage)
  /\ UNCHANGED <<counters, signals, verdicts, working, head, landing, history, input>>

\* Nothing catches an activity that gives up: the execution fails on the spot.
ActivityFails ==
  /\ ActivitiesFail
  /\ pc \in Activities \cup Teardowns
  /\ Go("workflowFailed", stage)
  /\ UNCHANGED <<counters, signals, verdicts, owned, head, landing, history, input>>

WorkflowStep ==
  \/ ResolveConfig \/ PrepareWorkspace \/ LabelIssue \/ PreImplementStage
  \/ Implement \/ FullVerify \/ Review \/ BrakeReleased
  \/ PushBranch \/ PushReleased \/ OpenPr \/ DropAgentWorking \/ CommentOnIssue
  \/ SnapshotPr \/ StartChild \/ ChildStarted \/ LandingEnds
  \/ TeardownLabel \/ TeardownWorkspace \/ ActivityFails

-----------------------------------------------------------------------------
(***************************************************************************)
(* Signal handlers.  A signal is forwarded when the parent holds a handle  *)
(* of the child; forwarding to a child that has ended is logged only.      *)
(***************************************************************************)
ChildIsOpen == Landing!Open

Stop ==
  /\ Running /\ ~stopRequested
  /\ stopRequested' = TRUE
  /\ UNCHANGED <<control, counters, cancelled, brakes, resumes, verdicts, owned, head,
                 landing, history, input>>

Cancel ==
  /\ Running /\ ~cancelled
  /\ cancelled' = TRUE
  /\ \/ landingChild /\ Landing!Cancels
     \/ ~(landingChild /\ ChildIsOpen) /\ UNCHANGED <<child, childSignals, ws>>
  /\ UNCHANGED <<control, counters, stopRequested, brakes, resumes, verdicts, working, head,
                 handle, history, input>>

LiftedBrakes ==
  CASE blockReason = "token-brake" -> [brakes EXCEPT !.maxTokens = Unbounded]
    [] blockReason = "iteration-brake" -> [brakes EXCEPT !.maxIterations = Unbounded]
    [] OTHER -> brakes

\* Before the config is resolved there are no brakes to lift, and nothing
\* the handler would do to the state is visible.
Resume ==
  /\ Running
  /\ resumes < MaxResumes /\ resumes' = resumes + 1
  /\ brakes' = LiftedBrakes
  /\ status' = "running" /\ blockReason' = NoBrake
  /\ \/ landingChild /\ Landing!Resumes
     \/ ~(landingChild /\ child = "braked") /\ UNCHANGED <<child, childSignals, ws>>
  /\ UNCHANGED <<pc, stage, counters, cancelled, stopRequested, verdicts, working, head,
                 handle, history, input>>

-----------------------------------------------------------------------------
(***************************************************************************)
(* The child as prLanding promises it.  It was handed a worktree, so it    *)
(* prepares none.                                                          *)
(***************************************************************************)
TheParent == <<control, counters, signals, verdicts, working, head, handle, history, input>>

ChildBrakes == Landing!Brakes /\ UNCHANGED TheParent
ChildAnswers == Landing!Answers /\ UNCHANGED TheParent
ChildEnds == Landing!Ends /\ UNCHANGED TheParent
ChildReturns == Landing!Returns /\ UNCHANGED TheParent
ChildFails == ActivitiesFail /\ Landing!Crashes /\ UNCHANGED TheParent

ExternalPush ==
  /\ ExternalPushes /\ head # None /\ handedOver = None
  /\ head' = Foreign
  /\ UNCHANGED <<control, counters, signals, verdicts, owned, landing, history, input>>

Next ==
  \/ WorkflowStep
  \/ Stop \/ Cancel \/ Resume
  \/ ChildBrakes \/ ChildAnswers \/ ChildEnds \/ ChildReturns \/ ChildFails
  \/ ExternalPush

Spec == Init /\ [][Next]_vars

(***************************************************************************)
(* Activities have timeouts and at most five attempts.  Of the child no    *)
(* more is assumed than prLanding answers for (AnswersSignals of the       *)
(* promise, checked of PrLanding): a cancel ends it, a resume ends the     *)
(* wait it finds, a cleanup comes to an end.  A child nobody cancels may   *)
(* poll and validate for ever, as it does on a PR that stays a draft or    *)
(* was closed (pr-landing.ts:313-329).  Nothing is assumed of humans.      *)
(***************************************************************************)
FairSpec ==
  /\ Spec
  /\ WF_vars(WorkflowStep)
  /\ WF_vars(ChildAnswers) /\ WF_vars(childCancelled /\ ChildEnds) /\ WF_vars(ChildReturns)

-----------------------------------------------------------------------------
ControlOK ==
  /\ pc \in Points
  /\ stage \in Agents \cup {"pr", "pr_babysit", "done", "failed"}
  /\ status \in Statuses /\ blockReason \in BlockReasons

CountersOK ==
  /\ implementAttempts \in 0..CounterCap /\ iterations \in 0..CounterCap
  /\ cumulativeTokens \in 0..CounterCap

SignalsOK ==
  /\ cancelled \in BOOLEAN /\ stopRequested \in BOOLEAN
  /\ brakes \in [BrakeFields -> 1..Unbounded] /\ resumes \in 0..MaxResumes

VerdictsOK ==
  /\ call \in 1..MAX_VERDICT_CALLS
  /\ fullVerify \in Verdicts /\ review \in Verdicts
  /\ diffEmpty \in BOOLEAN /\ exhausted \in BOOLEAN

LandingOK ==
  /\ landingChild \in BOOLEAN /\ landingOutcome \in LandingOutcomes \cup {"none"}
  /\ child \in LandingOutcomes \cup {"none", "running", "braked", "ending", "crashed"}
  /\ childCancelled \in BOOLEAN /\ childResumed \in BOOLEAN

WorldOK ==
  /\ input \in Inputs
  /\ ws \in {"none", "live", "removed"} /\ working \in BOOLEAN
  /\ head \in 0..Foreign /\ handedOver \in 0..Foreign
  /\ verifiedContent \in 0..CounterCap

TypeOK ==
  ControlOK /\ CountersOK /\ SignalsOK /\ VerdictsOK /\ LandingOK /\ WorldOK

\* A PR whose body does not say that the repairs were exhausted carries the
\* very content that passed full verification and then review, whatever was
\* unparseable on the way and whichever brake a human lifted.
OpenedPrPassedTheGates ==
  head \notin {None, Foreign} /\ ~exhausted => head = verifiedContent

\* A run that returns leaves neither a worktree nor agent:working behind,
\* be it torn down at a brake or landed by the child; a stop keeps both.
ReturnLeavesNothingBehind ==
  pc = "returned" /\ status # "pending" => ws # "live" /\ ~working

\* The worktree has one owner: while the child may use it the parent starts
\* no agent, no push and no cleanup, and the child starts only on a worktree
\* that is there.
OneWorktreeOwner ==
  ChildIsOpen => /\ pc \in {"childStarting", "landing"} \cup Stopped
                 /\ ws = "live"

\* A child waits for a human when no signal is on its way to it.
ChildWaits == child = "braked" /\ ~childCancelled /\ ~childResumed

\* The child is at work and the parent awaits its result, as it must: whether that
\* work comes to an end is a question to PrLanding (SettledRunEnds).
ChildWorks == pc = "landing" /\ child = "running"

\* A run is never busy for ever: it ends, or waits for a human itself or through its
\* child, or has handed the PR over to a child that is at work; no sequence of failing
\* verdicts, lifted brakes or refused pushes keeps it in its own loop, and no child
\* that has ended is awaited.  And a cancel that finds it waiting, at a brake or before
\* a push, or that reaches the child at whatever point, ends it, also when a resume
\* comes at the same time.
RunEndsOrWaits ==
  /\ []<>(~Running \/ pc \in HumanWaits \/ ChildWaits \/ ChildWorks)
  /\ cancelled /\ (pc \in HumanWaits \/ childCancelled) ~> ~Running

=============================================================================
