----------------------------- MODULE PrLanding -----------------------------
(***************************************************************************)
(* The prLanding workflow (packages/workflows/src/pr-landing.ts) beside    *)
(* the pull request it lands.  The workflow is a coroutine: pc names the   *)
(* await it is parked at, and each action is the code from that await to   *)
(* the next one, the result of the awaited activity included.  Between two *)
(* awaits anything else may happen: a signal handler runs, a human pushes, *)
(* closes or merges, an activity's answer is lost and the activity is run  *)
(* again.                                                                  *)
(*                                                                         *)
(* Commits are numbers in the order they appear; commit 1 is the head when *)
(* the workflow starts, or what the worktree handed over holds when the    *)
(* head is a foreign one, and None stands for a null SHA.                  *)
(***************************************************************************)
EXTENDS Policies, CiSignals

CONSTANTS
  Inputs,             \* how the run was started, for which project and PR
  Threads,            \* ids of review threads a snapshot can report open
  MaxCommits,         \* bound: commits that ever exist
  MaxResumes,         \* bound: resume signals a human sends
  MaxLost,            \* bound: answers lost after the activity took effect
  CounterCap,         \* bound: every counter saturates here
  ConfigBrakes,       \* config.brakes of the project
  MAX_BABYSIT_WAITS,
  MAX_PENDING_CI_WAITS,
  ExternalPushes,     \* whether anybody but the workflow pushes to the branch
  ExternalClose,      \* whether anybody closes or merges the PR meanwhile
  Settlements         \* the views of the PR that may become its last one

Commits == 1..MaxCommits
None == 0
Unbounded == CounterCap + 1    \* Number.MAX_SAFE_INTEGER
BrakeFields == {"maxImplementAttempts", "maxIterations", "maxTokens", "maxBabysitRounds"}

\* What a snapshot says beside the head commit and the state of the PR.
PrViews == [draft: BOOLEAN, ci: readCiStatus, threads: SUBSET Threads,
            labels: SUBSET MergeLabels]

\* What stands behind the head devCycle hands over as validated, which it does for
\* every PR it opened: the gates passed it, or its repairs were exhausted before they
\* did, or somebody else pushed it between openPr and the read of the head.
HandOvers == {"passed", "exhausted", "foreign"}

\* devCycle hands its own PR and worktree over; the gateway starts a run for
\* an existing PR, which may come from a fork.
PrLandingInputs ==
  {i \in [adopted: BOOLEAN, handed: HandOvers \cup {"none"}, mode: AutoMergeMode,
          fork: BOOLEAN] :
     (i.adopted <=> i.handed \in HandOvers) /\ ~(i.adopted /\ i.fork)}

\* The brakes of a project are positive (contracts/model.ts); the cap lies
\* above all that the counters can reach before a human lifts a brake.
ASSUME PrLandingAssumption ==
  /\ MaxCommits \in Nat \ {0}
  /\ MaxResumes \in Nat
  /\ MaxLost \in Nat
  /\ Inputs \subseteq PrLandingInputs
  /\ \A i \in Inputs : i.handed = "foreign" => MaxCommits > 1
  /\ CounterCap \in Nat
  /\ ConfigBrakes \in [BrakeFields -> 1..CounterCap]
  /\ MAX_BABYSIT_WAITS \in 1..CounterCap
  /\ MAX_PENDING_CI_WAITS \in MAX_BABYSIT_WAITS..CounterCap
  /\ ExternalPushes \in BOOLEAN /\ ExternalClose \in BOOLEAN
  /\ Settlements \subseteq PrViews

VARIABLES
  \* the coroutine
  pc,                 \* the await it is parked at
  resumeTo,           \* the agent stage a budget stop will retry
  \* PrLandingState
  phase, outcome, blockReason, currentHeadSha, validatedHeadSha,
  implementAttempts, iterations, cumulativeTokens, babysitRounds,
  \* locals of the workflow function
  cancelled, woke, brakes, waiting, waitsLifted, seen, resumes,
  \* the workspace: "none", "live" or "removed", and the commit checked out
  ws, local,
  \* the pull request
  input, pr, nextCommit, settled, lost,
  \* history: the content that passed when validatedHeadSha was recorded, and
  \* the head this workflow merged
  verifiedContent, mergedHead

control == <<pc, phase, outcome, blockReason, woke>>
evidence == <<currentHeadSha, validatedHeadSha>>
attempts == <<implementAttempts, iterations>>
polling == <<babysitRounds, waiting, waitsLifted, seen>>
workspace == <<ws, local>>
environment == <<pr, nextCommit, settled, lost>>
signals == <<cancelled, brakes, resumes>>
history == <<verifiedContent, mergedHead>>
vars == <<control, resumeTo, evidence, attempts, cumulativeTokens, polling,
          workspace, environment, signals, history, input>>

agentCreated == input.adopted

\* The head of the PR when the run starts: what input.workspace.validatedHeadSha names.
FirstHead == IF input.handed = "foreign" THEN 2 ELSE 1

AgentStages == {"full_verify", "review", "implement"}
SnapshotPoints == {"landSnapshot", "repairSnapshot", "babysitSnapshot",
                   "freshSnapshot", "conflictSnapshot"}
LandActivities == AgentStages \cup SnapshotPoints \cup {"pushBranch", "mergePr"}
HumanWaits == {"repairBrake", "babysitBrake", "budget"}
Stopped == {"returned", "workflowFailed"}
Points == {"initialSnapshot", "prepareWorkspace", "poll", "cleanup"}
            \cup LandActivities \cup HumanWaits \cup Stopped

Phases == {"validating", "repairing", "babysitting", "merging", "blocked", "done"}
Outcomes == {"none", "merged", "merge-ready-manual", "blocked", "failed", "cancelled"}
BlockReasons == {"none", "repair-brake", "babysit-brake", "provider-refused",
                 "permission-denied"}

Bump(n) == IF n < CounterCap THEN n + 1 ELSE n

Init ==
  /\ input \in Inputs
  /\ pc = "initialSnapshot" /\ resumeTo = "full_verify"
  /\ phase = "validating" /\ outcome = "none" /\ blockReason = "none"
  /\ currentHeadSha = None /\ validatedHeadSha = None
  /\ implementAttempts = 0 /\ iterations = 0 /\ cumulativeTokens = 0
  /\ babysitRounds = 0 /\ waiting = 0 /\ waitsLifted = FALSE /\ seen = {}
  /\ cancelled = FALSE /\ woke = FALSE /\ brakes = ConfigBrakes /\ resumes = 0
  /\ ws = IF input.adopted THEN "live" ELSE "none"
  /\ local = IF input.adopted THEN 1 ELSE None
  /\ pr = [head |-> FirstHead, state |-> "open"] /\ nextCommit = FirstHead + 1
  /\ settled = {} /\ lost = 0
  /\ verifiedContent = IF input.handed = "passed" THEN 1 ELSE None
  /\ mergedHead = None

-----------------------------------------------------------------------------
(***************************************************************************)
(* Ways a segment of the coroutine ends.                                   *)
(***************************************************************************)
Go(point, newPhase) ==
  /\ pc' = point /\ phase' = newPhase
  /\ UNCHANGED <<outcome, blockReason, woke>>

Finish_KeepsWorkspace(newPhase, out, reason) ==
  /\ pc' = IF out = "blocked" THEN "returned" ELSE "cleanup"
  /\ phase' = newPhase /\ outcome' = out /\ blockReason' = reason
  /\ UNCHANGED woke

\* A return or a throw inside the try: the finally block runs next.
Finish(newPhase, out, reason) ==
  /\ pc' = "cleanup"
  /\ phase' = newPhase /\ outcome' = out /\ blockReason' = reason
  /\ UNCHANGED woke

\* waitAtBrake, and the catch clause of runStageAgent.
Brake(point, reason) ==
  /\ pc' = point
  /\ phase' = "blocked" /\ blockReason' = reason
  /\ UNCHANGED <<outcome, woke>>

\* The top of the loop of babysitAndMerge.
Babysit ==
  /\ pc' = "poll" /\ phase' = "babysitting" /\ woke' = FALSE
  /\ UNCHANGED <<outcome, blockReason>>

\* runStageAgent looks at cancelled before it schedules the activity.
StartAgent(stage, newPhase) ==
  \/ ~cancelled /\ Go(stage, newPhase)
  \/ cancelled /\ Finish("done", "cancelled", blockReason)

\* The top of the loop of validateHead.
ValidateHead == StartAgent("full_verify", "validating")

(***************************************************************************)
(* What a getPrSnapshot answers: the PR as it is when the activity reads   *)
(* it.  Drafts, checks, threads and labels may have changed in any way     *)
(* since the last read, until the PR has settled.                          *)
(***************************************************************************)
Views == IF settled = {} THEN PrViews ELSE settled
Feedback(view) == [ci |-> view.ci, threads |-> view.threads]
EffectiveWaits(n) == IF waitsLifted THEN Unbounded ELSE n

-----------------------------------------------------------------------------
(***************************************************************************)
(* Actions of the workflow.                                                *)
(***************************************************************************)

\* The activities before the try: a failure fails the execution.
InitialSnapshot ==
  /\ pc = "initialSnapshot"
  /\ \/ /\ Go(IF input.adopted THEN "landSnapshot" ELSE "prepareWorkspace", phase)
        /\ validatedHeadSha' = IF input.adopted THEN FirstHead ELSE None
     \/ Go("workflowFailed", phase) /\ UNCHANGED validatedHeadSha
  /\ UNCHANGED <<resumeTo, currentHeadSha, attempts, cumulativeTokens, polling,
                 workspace, environment, signals, history, input>>

\* The PR head is fetched and checked out; a failure leaves nothing owned.
PrepareWorkspace ==
  /\ pc = "prepareWorkspace"
  /\ \/ /\ ws' = "live" /\ local' = pr.head
        /\ Go("landSnapshot", phase)
     \/ /\ pc' = "returned" /\ phase' = "done" /\ outcome' = "failed"
        /\ UNCHANGED <<workspace, blockReason, woke>>
  /\ UNCHANGED <<resumeTo, evidence, attempts, cumulativeTokens, polling,
                 environment, signals, history, input>>

LandSnapshot ==
  /\ pc = "landSnapshot"
  /\ currentHeadSha' = pr.head
  /\ \/ validatedHeadSha = pr.head /\ Babysit /\ UNCHANGED validatedHeadSha
     \/ validatedHeadSha # pr.head /\ ValidateHead /\ validatedHeadSha' = None
  /\ UNCHANGED <<resumeTo, attempts, cumulativeTokens, polling, workspace,
                 environment, signals, history, input>>

\* The tail of validateHead after a verdict that is not a pass, and what
\* each of its callers does with 'blocked'.
RepairAfter(fullVerify, review) ==
  LET counters == [implementAttempts |-> implementAttempts, iterations |-> iterations,
                   cumulativeTokens |-> cumulativeTokens', babysitRounds |-> babysitRounds]
      action == NextRepairAction(counters, fullVerify, review, FALSE, brakes).kind
  IN \/ /\ action # "fix" /\ Brake("repairBrake", "repair-brake")
        /\ UNCHANGED attempts
     \/ /\ action = "fix" /\ input.fork
        /\ Finish("blocked", "blocked", "provider-refused")
        /\ UNCHANGED attempts
     \/ /\ action = "fix" /\ ~input.fork
        /\ implementAttempts' = Bump(implementAttempts) /\ iterations' = Bump(iterations)
        /\ StartAgent("implement", "repairing")

FullVerify ==
  /\ pc = "full_verify"
  /\ cumulativeTokens' = Bump(cumulativeTokens)
  /\ \/ StartAgent("review", phase) /\ UNCHANGED attempts
     \/ RepairAfter("fail", "fail")
  /\ UNCHANGED <<resumeTo, evidence, polling, workspace, environment, signals,
                 history, input>>

\* A pass records the head of the snapshot the validation started from.
Review ==
  /\ pc = "review"
  /\ cumulativeTokens' = Bump(cumulativeTokens)
  /\ \/ /\ Babysit
        /\ validatedHeadSha' = currentHeadSha
        /\ verifiedContent' = local
        /\ UNCHANGED attempts
     \/ RepairAfter("pass", "fail") /\ UNCHANGED <<validatedHeadSha, verifiedContent>>
  /\ UNCHANGED <<resumeTo, currentHeadSha, polling, workspace, environment, signals,
                 mergedHead, input>>

\* The repair agent commits to the workspace, or leaves it as it was.
Implement ==
  /\ pc = "implement"
  /\ cumulativeTokens' = Bump(cumulativeTokens)
  /\ Go("pushBranch", phase)
  /\ \/ /\ nextCommit <= MaxCommits
        /\ local' = nextCommit /\ nextCommit' = nextCommit + 1
     \/ UNCHANGED <<local, nextCommit>>
  /\ UNCHANGED <<resumeTo, evidence, attempts, polling, ws, pr, settled, lost, signals,
                 history, input>>

\* git push --force to the base repository: the head of an open PR whose
\* branch lives there becomes the local commit, whatever it was.
ForcePush ==
  pr' = IF input.fork \/ pr.state # "open" THEN pr
        ELSE [pr EXCEPT !.head = local]

PushBranch ==
  /\ pc = "pushBranch"
  /\ ForcePush
  /\ Go("repairSnapshot", phase)
  /\ UNCHANGED <<resumeTo, evidence, attempts, cumulativeTokens, polling, workspace,
                 nextCommit, settled, lost, signals, history, input>>

RepairSnapshot_Trusted ==
  /\ pc = "repairSnapshot"
  /\ currentHeadSha' = pr.head /\ validatedHeadSha' = pr.head
  /\ Babysit
  /\ UNCHANGED <<resumeTo, attempts, cumulativeTokens, polling, workspace,
                 environment, signals, history, input>>

RepairSnapshot ==
  /\ pc = "repairSnapshot"
  /\ currentHeadSha' = IF cancelled THEN currentHeadSha ELSE pr.head
  /\ ValidateHead
  /\ UNCHANGED <<resumeTo, validatedHeadSha, attempts, cumulativeTokens, polling,
                 workspace, environment, signals, history, input>>

\* condition(() => woke || cancelled, DEFAULT_BABYSIT_POLL_MS): the timer
\* may fire at any moment, a wake or a cancel ends the wait at once.
PollTimeout_Never == FALSE

PollTimeout == TRUE   \* DEFAULT_BABYSIT_POLL_MS elapses

PollEnds ==
  /\ pc = "poll"
  /\ woke \/ cancelled \/ PollTimeout
  /\ \/ ~cancelled /\ Go("babysitSnapshot", phase)
     \/ cancelled /\ Finish("done", "cancelled", blockReason)
  /\ UNCHANGED <<resumeTo, evidence, attempts, cumulativeTokens, polling, workspace,
                 environment, signals, history, input>>

BabysitSnapshot ==
  /\ pc = "babysitSnapshot"
  /\ currentHeadSha' = pr.head
  /\ \E view \in Views :
       LET decision == BabysitDecision(Feedback(view), seen, babysitRounds,
                         brakes.maxBabysitRounds, waiting,
                         EffectiveWaits(MAX_BABYSIT_WAITS),
                         EffectiveWaits(MAX_PENDING_CI_WAITS))
       IN \/ /\ decision = "merge_ready" /\ Go("freshSnapshot", phase)
             /\ UNCHANGED <<attempts, polling>>
          \/ /\ decision = "braked" /\ Brake("babysitBrake", "babysit-brake")
             /\ UNCHANGED <<attempts, polling>>
          \/ /\ decision = "actionable"
             /\ waiting' = 0
             /\ seen' = seen \cup {FeedbackHash(Feedback(view))}
             /\ babysitRounds' = Bump(babysitRounds)
             /\ implementAttempts' = Bump(implementAttempts)
             /\ iterations' = Bump(iterations)
             /\ StartAgent("implement", "repairing")
             /\ UNCHANGED waitsLifted
          \/ /\ decision = "waiting" /\ Babysit
             /\ waiting' = Bump(waiting)
             /\ UNCHANGED <<attempts, babysitRounds, waitsLifted, seen>>
  /\ UNCHANGED <<resumeTo, validatedHeadSha, cumulativeTokens, workspace,
                 environment, signals, history, input>>

HeadIsValidated == pr.head = validatedHeadSha

\* The fresh snapshot a merge is decided on.
FreshSnapshot ==
  /\ pc = "freshSnapshot"
  /\ currentHeadSha' = pr.head
  /\ \E view \in Views :
       LET landable == pr.state = "open" /\ ~view.draft /\ HeadIsValidated
           authority == DecideMergeAuthority(input.mode, agentCreated, view.labels)
       IN \/ /\ pr.state = "merged" /\ Finish("done", "merged", blockReason)
             /\ UNCHANGED validatedHeadSha
          \/ /\ pr.state # "merged" /\ ~landable
             /\ ValidateHead /\ validatedHeadSha' = None
          \/ /\ landable /\ authority = "manual"
             /\ Finish("done", "merge-ready-manual", blockReason)
             /\ UNCHANGED validatedHeadSha
          \/ /\ landable /\ authority = "merge" /\ Go("mergePr", "merging")
             /\ UNCHANGED validatedHeadSha
  /\ UNCHANGED <<resumeTo, attempts, cumulativeTokens, polling, workspace,
                 environment, signals, verifiedContent, mergedHead, input>>

\* mergePr carries fresh.headSha as the expected head and GitHub merges
\* that commit only.
ExpectedHead == currentHeadSha
Mergeable_AnyHead == pr.state = "open"

Mergeable == pr.state = "open" /\ pr.head = ExpectedHead

GithubMerges ==
  /\ Mergeable
  /\ pr' = [pr EXCEPT !.state = "merged"] /\ mergedHead' = pr.head

MergePr ==
  /\ pc = "mergePr"
  /\ \/ /\ GithubMerges \/ (pr.state = "merged" /\ pr.head = ExpectedHead
                              /\ UNCHANGED <<pr, mergedHead>>)
        /\ Finish("done", "merged", blockReason)
        /\ UNCHANGED validatedHeadSha
     \/ /\ pr.state = "open" /\ pr.head # ExpectedHead
        /\ Go("conflictSnapshot", phase)
        /\ validatedHeadSha' = None
        /\ UNCHANGED <<pr, mergedHead>>
     \/ /\ pr.state = "open" /\ Finish("blocked", "blocked", "permission-denied")
        /\ UNCHANGED <<pr, mergedHead, validatedHeadSha>>
     \/ /\ ~(pr.state = "merged" /\ pr.head = ExpectedHead)
        /\ Finish("blocked", "blocked", "provider-refused")
        /\ UNCHANGED <<pr, mergedHead, validatedHeadSha>>
  /\ UNCHANGED <<resumeTo, currentHeadSha, attempts, cumulativeTokens, polling, workspace,
                 nextCommit, settled, lost, signals, verifiedContent, input>>

ConflictSnapshot ==
  /\ pc = "conflictSnapshot"
  /\ currentHeadSha' = IF cancelled THEN currentHeadSha ELSE pr.head
  /\ ValidateHead
  /\ UNCHANGED <<resumeTo, validatedHeadSha, attempts, cumulativeTokens, polling,
                 workspace, environment, signals, history, input>>

\* The LiteLLM budget of the key is spent: the stage waits for a human.
BudgetExceeded ==
  /\ pc \in AgentStages
  /\ Brake("budget", "repair-brake") /\ resumeTo' = pc
  /\ UNCHANGED <<evidence, attempts, cumulativeTokens, polling, workspace,
                 environment, signals, history, input>>

Released_OnAnyWake == cancelled \/ woke \/ blockReason = "none"

Released_NotByCancel == blockReason = "none"

Released == cancelled \/ blockReason = "none"

BudgetReleased ==
  /\ pc = "budget" /\ Released
  /\ StartAgent(resumeTo, phase)
  /\ UNCHANGED <<resumeTo, evidence, attempts, cumulativeTokens, polling, workspace,
                 environment, signals, history, input>>

BrakeReleased ==
  /\ pc \in {"repairBrake", "babysitBrake"} /\ Released
  /\ \/ /\ cancelled /\ Finish("done", "cancelled", blockReason)
        /\ UNCHANGED polling
     \/ /\ ~cancelled /\ pc = "repairBrake" /\ Babysit
        /\ UNCHANGED polling
     \/ /\ ~cancelled /\ pc = "babysitBrake" /\ Babysit
        /\ waitsLifted' = TRUE /\ waiting' = 0
        /\ UNCHANGED <<babysitRounds, seen>>
  /\ UNCHANGED <<resumeTo, evidence, attempts, cumulativeTokens, workspace,
                 environment, signals, history, input>>

\* An activity of land() gives up after its retries: the catch-all clause.
ActivityFails ==
  /\ pc \in LandActivities
  /\ Finish("done", "failed", blockReason)
  /\ UNCHANGED <<resumeTo, evidence, attempts, cumulativeTokens, polling, workspace,
                 environment, signals, history, input>>

\* The finally block; when cleanupWorkspace gives up, the execution fails.
Cleanup ==
  /\ pc = "cleanup"
  /\ \/ Go("returned", phase) /\ ws' = "removed"
     \/ Go("workflowFailed", phase) /\ UNCHANGED ws
  /\ UNCHANGED <<resumeTo, evidence, attempts, cumulativeTokens, polling, local,
                 environment, signals, history, input>>

WorkflowStep ==
  \/ InitialSnapshot \/ PrepareWorkspace \/ LandSnapshot
  \/ FullVerify \/ Review \/ Implement \/ PushBranch \/ RepairSnapshot
  \/ PollEnds \/ BabysitSnapshot \/ FreshSnapshot \/ MergePr \/ ConflictSnapshot
  \/ BudgetExceeded \/ BudgetReleased \/ BrakeReleased
  \/ ActivityFails \/ Cleanup

-----------------------------------------------------------------------------
(***************************************************************************)
(* Signal handlers.  They run between two segments of the coroutine, also  *)
(* while the finally block awaits the cleanup.                             *)
(***************************************************************************)
Running == pc \notin Stopped

Cancel ==
  /\ Running /\ ~cancelled
  /\ cancelled' = TRUE
  /\ UNCHANGED <<control, resumeTo, evidence, attempts, cumulativeTokens, polling,
                 workspace, environment, brakes, resumes, history, input>>

Wake ==
  /\ Running /\ ~woke
  /\ woke' = TRUE
  /\ UNCHANGED <<pc, phase, outcome, blockReason, resumeTo, evidence, attempts,
                 cumulativeTokens, polling, workspace, environment, signals,
                 history, input>>

LiftedBrakes ==
  CASE blockReason = "repair-brake" ->
         [brakes EXCEPT !.maxImplementAttempts = Unbounded,
                        !.maxIterations = Unbounded, !.maxTokens = Unbounded]
    [] blockReason = "babysit-brake" -> [brakes EXCEPT !.maxBabysitRounds = Unbounded]
    [] OTHER -> brakes

Resume ==
  /\ Running
  /\ resumes < MaxResumes /\ resumes' = resumes + 1
  /\ brakes' = LiftedBrakes
  /\ blockReason' = "none"
  /\ phase' = IF validatedHeadSha # None THEN "babysitting" ELSE "validating"
  /\ UNCHANGED <<pc, outcome, woke, resumeTo, evidence, attempts, cumulativeTokens,
                 polling, workspace, environment, cancelled, history, input>>

-----------------------------------------------------------------------------
(***************************************************************************)
(* The environment: other people, and the network to the provider.         *)
(***************************************************************************)
NotTheWorkflow == <<control, resumeTo, evidence, attempts, cumulativeTokens, polling,
                    workspace, signals, input>>

ExternalPush ==
  /\ ExternalPushes /\ settled = {}
  /\ pr.state = "open" /\ nextCommit <= MaxCommits
  /\ pr' = [pr EXCEPT !.head = nextCommit]
  /\ nextCommit' = nextCommit + 1
  /\ UNCHANGED <<NotTheWorkflow, settled, lost, history>>

ExternalStateChange ==
  /\ ExternalClose /\ settled = {}
  /\ pr.state = "open"
  /\ \E state \in {"closed", "merged"} : pr' = [pr EXCEPT !.state = state]
  /\ UNCHANGED <<NotTheWorkflow, nextCommit, settled, lost, history>>

\* From here on nobody but the workflow touches the PR.
Settle ==
  /\ settled = {}
  /\ \E view \in Settlements : settled' = {view}
  /\ UNCHANGED <<NotTheWorkflow, pr, nextCommit, lost, history>>

\* The activity took effect but its answer is lost: Temporal runs it again.
AnswerLost ==
  /\ lost < MaxLost /\ lost' = lost + 1
  /\ \/ pc = "pushBranch" /\ ForcePush /\ UNCHANGED mergedHead
     \/ pc = "mergePr" /\ GithubMerges
  /\ UNCHANGED <<NotTheWorkflow, nextCommit, settled, verifiedContent>>

Next ==
  \/ WorkflowStep
  \/ Cancel \/ Wake \/ Resume
  \/ ExternalPush \/ ExternalStateChange \/ Settle \/ AnswerLost

Spec == Init /\ [][Next]_vars

(***************************************************************************)
(* Every activity has a start-to-close timeout and at most five attempts,  *)
(* and the poll is a durable timer, so a workflow that can take a step     *)
(* takes one.  Nothing is assumed of humans, signals or the provider.      *)
(***************************************************************************)
FairSpec == Spec /\ WF_vars(WorkflowStep)

-----------------------------------------------------------------------------
ControlOK ==
  /\ pc \in Points /\ resumeTo \in AgentStages
  /\ phase \in Phases /\ outcome \in Outcomes /\ blockReason \in BlockReasons

CountersOK ==
  /\ implementAttempts \in 0..CounterCap /\ iterations \in 0..CounterCap
  /\ cumulativeTokens \in 0..CounterCap /\ babysitRounds \in 0..CounterCap
  /\ waiting \in 0..CounterCap /\ waitsLifted \in BOOLEAN
  /\ seen \subseteq CiStatus \X SUBSET Threads

SignalsOK ==
  /\ cancelled \in BOOLEAN /\ woke \in BOOLEAN
  /\ brakes \in [BrakeFields -> 1..Unbounded] /\ resumes \in 0..MaxResumes

EvidenceOK ==
  /\ currentHeadSha \in Commits \cup {None} /\ validatedHeadSha \in Commits \cup {None}
  /\ verifiedContent \in Commits \cup {None} /\ mergedHead \in Commits \cup {None}

WorldOK ==
  /\ ws \in {"none", "live", "removed"} /\ local \in Commits \cup {None}
  /\ input \in Inputs
  /\ pr \in [head: Commits \cup {None}, state: {"open", "closed", "merged"}]
  /\ nextCommit \in 2..MaxCommits + 1
  /\ settled \subseteq Settlements /\ lost \in 0..MaxLost

TypeOK == ControlOK /\ CountersOK /\ SignalsOK /\ EvidenceOK /\ WorldOK

\* What GitHub merged on the request of this workflow is the head the
\* workflow holds evidence for, whatever was pushed between the fresh
\* snapshot and the merge and however often the merge was retried; and it
\* reports a PR ready for a manual merge only with evidence for the head
\* it last read.
MergedHeadIsValidated ==
  /\ mergedHead # None => /\ mergedHead = pr.head
                          /\ mergedHead = validatedHeadSha
  /\ outcome = "merge-ready-manual" => currentHeadSha = validatedHeadSha

\* Until a human lifts a brake, the workflow starts at most
\* maxImplementAttempts repairs on verdicts plus one for each of at most
\* maxBabysitRounds rounds of feedback, in whatever order CI, reviewers and
\* verdicts ask for them.
RepairsAreBounded ==
  /\ brakes.maxImplementAttempts = ConfigBrakes.maxImplementAttempts =>
       implementAttempts <= ConfigBrakes.maxImplementAttempts + babysitRounds
  /\ brakes.maxBabysitRounds = ConfigBrakes.maxBabysitRounds =>
       babysitRounds <= ConfigBrakes.maxBabysitRounds

\* The content of a merged head passed full verification and review, here or in the
\* gates of the devCycle that handed it over.  This needs the workspace to hold that
\* very commit through every repair, push and retried push.  One head may be merged
\* without: the one a devCycle handed over as validated although its gates had not
\* passed it (dev-cycle.ts:380, 445); no commit this run made or was left with later is.
MergedContentWasVerified ==
  mergedHead # None =>
    \/ mergedHead = verifiedContent
    \/ input.handed \in {"exhausted", "foreign"} /\ mergedHead = FirstHead

\* The worktree is there for as long as an agent or a push may use it, and
\* no finished run leaves behind a worktree it owned.
WorkspaceOutlivesUse ==
  /\ pc \in AgentStages \cup {"pushBranch"} => ws = "live"
  /\ pc = "returned" => ws # "live"

\* What a caller sees of a run: devCycle waits for its result and forwards signals.
ChildState ==
  CASE pc \in HumanWaits -> "braked"
    [] pc = "cleanup" -> "ending"
    [] pc = "returned" -> outcome
    [] pc = "workflowFailed" -> "crashed"
    [] OTHER -> "running"

Landing == INSTANCE LandingPromise WITH
  child <- ChildState, told <- cancelled,
  resumed <- pc \in HumanWaits /\ blockReason = "none"

\* The workflow keeps the promise DevCycle relies on: a wait at a brake ends by a
\* cancel or a resume only, a cancel met there ends the run, "cancelled" answers a
\* cancel, and a run that returns leaves no worktree, wherever it was and whatever
\* signals it got. (waitAtBrake, waitForResumeOrCancel, the finally block)
KeepsLandingPromise == Landing!Spec

\* A cancelled run comes to an end from wherever it is, brakes included; a resume ends
\* the wait it finds, and a run that cleans up ends. (waitAtBrake, waitForResumeOrCancel)
SignalsAreAnswered == Landing!AnswersSignals

\* Once the PR is left alone and nobody lifts a brake, the run ends or asks
\* a human, also when every webhook is lost: it does not poll, verify or
\* repair for ever.
SettledRunEnds ==
  settled # {} ~> ~Running \/ pc \in HumanWaits \/ brakes # ConfigBrakes

=============================================================================
