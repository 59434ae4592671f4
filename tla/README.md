# TLA+ models of agentops-engine

Specifications, TLC runs and machine-checked proofs for agentops-engine: the
Temporal workflows that take a task to a landed pull request, the machinery they
run on, and the ways work and configuration enter.  Paths below are relative to
`src/`; file names without a directory are found in `packages/`.

## 1. The system

agentops-engine turns issues, prompts and schedules into pull requests.  A
worker runs Temporal workflows (deterministic coroutines, `packages/workflows`)
that call activities (`packages/activities`): agents in Kubernetes Jobs or local
processes (`packages/backends`), git worktrees, GitHub and Linear
(`packages/ports`), Postgres.  Decisions that need no I/O are pure functions
(`packages/policies`).  A gateway turns webhooks into workflow starts and
signals; a control BFF, a CLI and a UI do the same for people.

| component | state | operations | hard behaviour | what makes it correct |
|---|---|---|---|---|
| `prLanding` (workflows/pr-landing.ts) | phase, outcome, block reason, validated head, counters, lifted brakes, owned worktree | validate, repair, poll, merge, wait at a brake; signals cancel, wake, resume | signals and other people's pushes between any two awaits; lost answers of push and merge; polling without webhooks | merges only the head it validated; repairs bounded; ends or asks a human; worktree released |
| `devCycle` (workflows/dev-cycle.ts) | stage, status, counters, lifted brakes, worktree, label, child handle | pre-implement stages, implement/verify/review rounds, push, open PR, hand over to `prLanding`; signals stop, cancel, resume | signals between awaits, several exits, activities that give up, ownership handoff | only a PR that passed both gates is opened as such; one owner of the worktree; nothing left behind |
| policies | none | brakes, next repair action, babysit decision, merge authority | boundaries, order of tests, missing verdicts | checked through the workflows that use them |
| GitHub port (ports/github) | the PR on GitHub | snapshot, CI signals, open, merge, force push | three sources of CI that disagree or refuse, retries of calls that took effect, non-atomic create + label | a failure is never outvoted; a retry changes nothing twice |
| K8s job runner (backends/k8s) | Job by deterministic name, output files | create, poll, heartbeat, clean up | runner crash, 409 reattach, background delete, timeouts | a call returns what an agent wrote under its coordinates; no agent is forgotten |
| process runner, CLI backends, rate window, tier fallback (backends, policies/resolve-tier.ts) | call times per account; chain of models | admit, refuse, spawn, classify the output, fall back | limits, retries that start over, restarts that forget | quota kept; a refused call waits as long as it must; exhausted means all tried |
| session locks (activities/workspace/repository-session-coordinator.ts) | chain of promises per key; flock helper process | lock, wait, time out, abort, lose | waiters leaving the queue, death of the helper or the worker | mutual exclusion, no stuck successor |
| workspace manager: repository sessions | session directory, staging directories with markers, trash | create, touch, clean, sweep | crash or lost lock between any two steps, a sweep beside creators | a session is whole; the sweep takes what is left over and nothing else |
| workspace manager: task worktrees | shared clone, registrations, branches, directories | prepare, clean, sweep | attempts that outlive their timeout, crashed runs, two tasks on a branch | own worktree at the commit asked for; leftovers keep nobody out |
| filed findings (create-activities.ts, postgres-filed-finding-store.ts) | reservation per fingerprint | reserve, create issue, finalize, release | crash between steps, stale reservations, late attempts | an issue per finding |
| gateway and webhook parsing | none of its own; workflow ids | start or signal | duplicate, late and reordered webhooks, a run ending between two calls | landings are invited, one owner per PR |
| config sync and reconciliation | registry of projects, schedules, singletons | list, plan, apply, sweep orphans | dropped triggers, partial failure, a registry that lost a project | converges to the manifest, spares who is fine |
| platform chat | transcript, one slot per input, proposal | turn, decision, action, fix, continueAsNew | inputs while the agent thinks, superseded proposals, renumbering | only what is approved runs; names stay fresh |
| platform and self-heal runs, settings, tiers | settings row, schedule, tier table, the worker's copy | PUT, GET that seeds, boot, refresh, fire | two-step writes that interleave, READ COMMITTED, failing cleanups | schedule follows the switch, table whole, honest reports |
| trackers, in-memory ports, statistics, GTD, UI, CLI, SDK | rows, files | simple calls | read-modify-write in a few | not modelled, section 7 |

How they interact: the gateway starts `devCycle` (id per issue) and `prLanding`
(id per PR) or signals a running one.  `devCycle` owns a worktree until it has
started `prLanding` as a child with that worktree; the child owns it from then
on.  Both call agents through the same activity, whose identity
(task, stage, attempt, call, backend, model) names the Kubernetes Job.  Sessions
and worktrees live on a volume workers share, under the locks of the coordinator.
The worker's registry decides which projects are synced, which schedules are
orphans and whose worktrees are swept.

## 2. Modules

| module | models |
|---|---|
| `Policies` | the pure functions of `packages/policies` and the schemas they share |
| `CiSignals` | check runs, combined status and rollup of a commit, and how the GitHub port merges them |
| `PrLanding` | the `prLanding` workflow, its PR, other people and the network |
| `LandingPromise` | the abstract promise of `prLanding` to whoever started it |
| `DevCycle` | the `devCycle` workflow, with a child that takes the steps of `LandingPromise` |
| `AgentJobs` | an agent call in the cluster: attempts of `runAgent`, `TierFallbackBackend`, `K8sJobRunner`, Jobs, pods and output files |
| `AgentCalls` | agent calls as processes of a worker: tier, chain, rate windows, `ProcessCliRunner`, the classes of output, Temporal's retries |
| `Exclusion` | the abstract promise of `withLock` |
| `SessionLocks` | both coordinators; implements `Exclusion` |
| `RepoSessions` | creating, touching, cleaning and sweeping one repository session |
| `Worktrees` | task worktrees in one shared clone and the sweep |
| `Intake` | findings that become issues; webhook deliveries; the executions they start |
| `Reconcile` | registry, `configSync`, `reconcileAllProjects` and the sweep of orphans |
| `PlatformChat` | the `platformChat` workflow and its operator |
| `ControlPlane` | self-heal switch, tier table, the worker's copy, platform runs |
| `PrLandingProofs`, `DevCycleProofs`, `AgentJobsProofs`, `AgentCallsProofs` | theorems about the module of that name |
| `SessionLocksProofs` | theorems about `SessionLocks` and, as an instance, `Exclusion` |
| `WorkspaceProofs` | theorems about `RepoSessions` and `Worktrees`, whose names do not meet: the state machine of the second begins with `Worktrees` |
| `EntryProofs` | theorems about `Intake` and `Reconcile`, whose names do not meet: the state machine of the first begins with `Intake` |
| `PlatformProofs` | theorems about `ControlPlane` and `PlatformChat`, whose names do not meet: those of the conversation begin with `Chat` |
| `MC...` | values of the constants for TLC |

`PrLanding` extends `Policies` and `CiSignals`, `DevCycle` extends `Policies`;
`PrLanding` instantiates `LandingPromise` under a refinement mapping (`ChildState`)
and `DevCycle` with its own variables, so the promise one proves is the one the
other is built on; `SessionLocks` instantiates `Exclusion` in the same way, and
`RepoSessions` uses a lock as `Exclusion` promises it.

Operators whose name ends in `_<Variation>` are variations of the operator
defined right after them, each a plausible mistake in that piece of code; they
are not used by any specification and show, put in its place, that a property
notices the mistake.  Variables marked "history" are read by properties only.

### How code becomes a module

A Temporal workflow runs alone between two awaits.  `pc` (or the field `at` of a
record) names the await it is parked at, an action is the code from there to the
next await together with the result of the awaited call.  The same holds for an
activity attempt, a request handler of the gateway or the console, and a boot of
the worker: each is a process parked at an await, and everything else may happen
there.  Signal handlers are actions that may run at any `pc` before the execution
is closed, the awaits of cleanups included.  An agent's output is reduced to what
parsers and decisions tell apart.

`PrLanding`, `DevCycle`.  The two stats activities after an agent call touch
nothing a property speaks of and are part of the agent's action.  An activity
that gives up after its five attempts is `ActivityFails`.  In `PrLanding` commits
are numbers in the order they appear; `pr` is the PR on GitHub, `ws` and `local`
the worktree and the commit checked out in it.  Every snapshot answers with the
head and state of the PR at that moment and with any draft flag, any CI status
`readCiStatus` can give, any set of open threads and merge labels, until `Settle`
fixes them.  What a devCycle hands over is one of `HandOvers`: a head its gates
passed, one of which it had exhausted its attempts, or one somebody else pushed
after its own.  `AnswerLost` lets a push or a merge take effect without an answer;
Temporal runs it again.  In `DevCycle` the content of the branch is named by the
round that produced it; the child is `running`, `braked`, `ending` (cleaning up),
has an outcome or has crashed, and `ChildBrakes`, `ChildAnswers`, `ChildEnds`,
`ChildReturns` and `ChildFails` are the actions of `LandingPromise`, as are the
cancel and the resume the parent forwards, which are taken to arrive at once.

`AgentJobs`.  A runner is parked at an await of `K8sJobRunner.run` or
`cleanupFailedAttempt`; the loop's time checks are `Tick`.  An attempt whose
heartbeat is late is given up; its code is then gone, or goes on in the slot
`late` and still creates, deletes and removes by name.  A Job is a record that
stays when it is no longer `registered`: its pod may start, write and end after
the deletion.  A file keeps who writes it: a removed file takes no more output,
a truncated one takes that of every pod that has it open.  The deletion of a Job
and the removal of its files may fail, which the code swallows.  `Coordinates` are
the ways a workflow may number its calls.

`AgentCalls`.  Time is a small counter, a rate window a sequence of call times
that admission prunes; a call walks the chain of its tier (`pos`) and remembers
which places met a session limit (`met`).  What a process printed is one of the
classes `parseOutput` and `isAuthError` distinguish; what its exit makes of the
attempt is `Never` or `Later`, Temporal's retry policy.  `told` keeps, for the
properties, what a full window told a call.  `WorkerRestarts` forgets
the windows, which live in memory.

`SessionLocks`.  The local coordinator is its map of tails: `before` is the tail
a call waits on, `gate` and `settled` its own promises.  The flock coordinator is
one process per call (`helper`), its sentinel, its exit and the lock the kernel
keeps for it; `told` are operations whose signal was aborted because the helper
died.  `Stage` maps both to the stages of `Exclusion`.

`RepoSessions`.  One session path, its staging directories (`NSlots` names), the
directories renamed out of the way.  Every filesystem step between two awaits is
an action: staging directory, marker by temporary file and rename, clones,
metadata, publication by rename.  A process that crashes, is cancelled or loses
its lock stops wherever it is.

`Worktrees`.  Each task runs prepare, use and clean-up; an attempt of
`prepareWorkspace` is parked at a git command, and one that timed out goes on in
the slot `late`.  Every command may fail, and one that fails or dies with its
worker may leave half of what it does (`HalfAdded`, `HalfRemoved`); where the code
goes on after a failure it does not look at is `AfterFailure`.  `FETCH_HEAD`, local
branches and registrations belong to the shared clone.  `disturbed` marks the
tasks for which one of the known races has happened since their attempt began to
reclaim (section 5): the properties speak of the others.

`Intake`.  One finding with a row and racing `createIssue` attempts; issues by
number, one Linear issue, one PR.  A payload in `sent` may be delivered any
number of times in any order; a request of the gateway is parked at its calls of
Temporal or GitHub.  `cycle` and `landing` are the executions by workflow id,
with the id reuse policies the starters pass.

`Reconcile`.  `file` and `declared` are what people edit, `cached` and `registry`
what the worker knows, refreshed token by token; `sync` and `sweep` are runs
parked at activities, `schedule` and `single` what Temporal holds.  The
activities that apply a plan and delete orphans are loops of calls that begin anew
when their attempt dies: the first with the same plan (`ApplyAgain`), the second
with the schedules it then finds (`PruneAgain`).  A restart of the worker does the
same to all of them, while a workflow keeps which singletons are left to handle.

`PlatformChat`.  Each await of the loop, each signal, and `ContinueAsNew`, which
hands over what the code hands over and nothing else.  Messages are counted, a
proposal has the number of its message.  `executePlatformAction` takes effect and
answers in one step, or takes effect and its answer is lost (`AnswerIsLost`), after
which Temporal runs it again, `MaximumAttempts` times in all.

`ControlPlane`.  The writers of the self-heal switch (requests and a booting
worker) write the row and then the schedule; `PUT /api/tiers` is a transaction
under READ COMMITTED; the boot seeds row by row; a refresh reads and later
stores.  A platform run is parked at its scratch workspace, agent, fixes and
cleanup.  `crossed` and `mixed` mark that writers have overlapped or broken off.

## 3. Properties

Each is stated above its definition; those that matter most:

* `PrLanding`: `MergedHeadIsValidated` (what is merged, or reported ready, is
  what the evidence is for), `MergedContentWasVerified` (the content passed the
  gates, but for a head that was handed over without; true while nobody else
  pushes), `RepairsAreBounded`,
  `WorkspaceOutlivesUse`, `KeepsLandingPromise` - the refinement of
  `LandingPromise!Spec` - and the liveness properties `SignalsAreAnswered` and
  `SettledRunEnds`.
* `DevCycle`: `OpenedPrPassedTheGates`, `ReturnLeavesNothingBehind`,
  `OneWorktreeOwner`; `RunEndsOrWaits` - a run ends, waits for a human, itself or
  through its child, or has a child at work, and a cancel that finds it waiting or
  reaches the child ends it.
* `AgentJobs`: `ResultIsOfItsCoordinates`, `FailuresAreFresh` (what an attempt
  has failed on and removed is not failed on again), `NoAgentIsForgotten` (an agent
  nobody waits for is being stopped, or its call knows of the loss), `CallsEnd`.
* `AgentCalls`: `WindowIsKept` (an account is asked at most so often in any
  window, whatever retries and fallbacks do), `WaitIsExact` (the delay of a refused
  call is neither too short nor too long), `ExhaustedMeansAll`.
* `SessionLocks`: `KeepsPromise` - the refinement of `Exclusion!Spec` - and
  `CallsEnd`.
* `RepoSessions`: `SessionIsWhole`, `SweepSparesTheLiving`, `LeftoversGo`.
* `Worktrees`: `WorktreeIsItsOwn`, `OneWorktreePerBranch`,
  `LeftoversAreReclaimed` (after the reclaim the next `worktree add` can succeed).
* `Intake`: `FindingFiledOnce` (one issue, and one more per mishap at most),
  `FindingGetsFiled`, `OneOwner` (no prLanding beside the devCycle that is about to
  hand the PR over, unless invited before the PR was labelled managed),
  `LandingIsInvited`.
* `Reconcile`: `KeptProjectsKeepTheirAgents`, `DeclaredAgentsRun`,
  `RemovedAgentsGo`.
* `PlatformChat`: `OnlyApprovedRuns`, `NamesAreFresh`, `OpenProposalIsShown`.
* `ControlPlane`: `SwitchIsObeyed`, `TiersAreWhole`, `RunsEndHonestly`,
  `TiersReachTheWorker`.

Type correctness is proved, not run, of every state machine but `ControlPlane`
(`TypeCorrect`, `ChatTypeCorrect`, `WorktreesTypeCorrect`, `IntakeTypeCorrect`); what
the proofs of `ControlPlane` need of the types is in their invariant.

## 4. Runs

| run | instance |
|---|---|
| `PrLandingSolePusher` | own PRs, handed over passed, exhausted or at a foreign head, and external PRs in label mode, nobody else pushes, somebody may close; 3 commits, one review thread, 1 resume, 1 lost answer |
| `PrLandingLiveness` | other people push too; 2 commits, weak fairness, every view an open, non-draft PR can settle to, no webhook assumed; the safety properties and both liveness properties |
| `DevCycle` | prompt, issue and fix runs, with and without assessment, failing activities, other people's pushes, 2 resumes |
| `AgentJobs` | one call with a fallback model, or two calls without, under their own coordinates or the same; 2 attempts, 1 incident (late heartbeat, API error, failing removal) |
| `SessionLocks` | either coordinator, 3 calls, 2 of them in one of 2 workers, 2 accidents (helper dies with a code or by a signal, worker dies) |
| `RepoSessions` | 2 callers with 2 requests, 2 operations, 2 repositories, 2 staging names, the sweep, 1 accident |
| `Worktrees` | a landing and a repair on one branch, and a new task; 2 incidents, each run an attempt and any number of runs |
| `AgentCalls` | 4 calls over 2 accounts and the platform, 2 attempts, windows of one call in 2 moments, 3 moments, 1 incident |
| `PlatformChat` | 4 signals of the operator, 2 calls per turn, continueAsNew after 4 messages, 2 attempts of an action, 2 incidents |
| `Intake` | 2 attempts, 2 concurrent deliveries, 2 acts or mishaps, 3 issues, a Linear issue, a PR |
| `Reconcile` | 2 projects (one on Linear), 1 agent each, 2 edits, 1 fault |
| `ControlPlane` | 2 requests, 2 tiers, a worker, 3 acts and faults together |

Bounds.  `MaxCommits = 3` gives the first head, one commit of the workflow and
one of somebody else in either order; the run with pushes and liveness has one
beside the first.  `MaxResumes` lets each brake be lifted once; a lifted brake
stays lifted.  `MaxLost = 1` because a retried activity that is lost again is in
the state it was in before.  `CounterCap` lies above every configured limit, so a
counter saturates only after the brake it feeds has been lifted, where the code
compares it with `Number.MAX_SAFE_INTEGER` (`Unbounded`).  `MAX_BABYSIT_WAITS`
and `MAX_PENDING_CI_WAITS` keep their order, 1 and 2 for 240 and 2880.  Token
counts are calls: an agent adds one.  Only label mode is enumerated because
`all` and `disabled` differ from it in what `DecideMergeAuthority` answers, and
in label mode the labels of the snapshot make it answer both.  Two of five
attempts are an attempt and its retry; a third meets what the second met.  Calls
of `AgentJobs` under coordinates of their own share neither Job nor file, so two
of them show what one leaves to the next; two under the same coordinates are the
second validation of `prLanding`.  Two callers, requests or writers are
the interleavings of a pair; the third call in `SessionLocks` is the successor of
a waiter that left the queue, in another process.  One incident meets every step
of the others; two at once are outside the bounds, except in `SessionLocks`,
`Worktrees`, `PlatformChat` and `ControlPlane`.  `PrLandingLiveness` starts an adopted run at a
head the gates passed: none of its properties reads what stands behind that head.
In `Worktrees` a second attempt does what the first of a new run does, beside the
same late one, so a run has one attempt there and two incidents meet instead (what
one has left is met by another that fails to remove it; a change of the registry
counts as both); the task alone on its branch
is the new one.  The proofs cover more attempts and other tasks.

Deadlock is not checked: workflows end and inputs are bounded.

Fairness.  An activity has a start-to-close timeout and at most five attempts,
polls are durable timers, so a workflow that can continue does
(`WF(WorkflowStep)`).  In `DevCycle` the child's answers to a
signal at a brake, its end after a cancel and its return are fair too, which is
what `SignalsAreAnswered` establishes for `PrLanding` in the words of the promise.
That a child at work ends without a cancel is not assumed, for it need not: a draft
or closed PR is polled without end (section 5), so `RunEndsOrWaits` lets a run await
a child at work for ever.  No signal, human
or webhook is assumed to come.  In `AgentJobs` Temporal starts the next attempt,
the runner's awaits return (a status read is raced against a timer) and its clock
runs; nothing is assumed of pods.  In `SessionLocks` promises settle, processes
run and operations end, but no wait is assumed to time out and no call to be
made.  In `RepoSessions` an attempt that has the lock runs on, time passes and
the sweep returns every fifteen minutes; nobody is assumed to get the lock in
turn.  In `Intake` hunts return as long as the finding is there (they are
scheduled) and creating an issue, which may fail, does not fail for ever (strong
fairness of the success).  In `Reconcile` timer and schedule fire and workflow
code goes on; edits and faults are bounded, so the liveness properties say what
holds once they have ceased.  In `ControlPlane` Kubernetes boots a dead worker
again and timers fire.

## 5. Divergences between documents and code

`findings` in `PROJECT.json` quotes a document, comment or test for the first of
each group.  The properties above are stated so that they hold of the code; where
one stops short, it is because of one of these.

`prLanding`.  After a push by somebody else the workflow verifies its old
worktree and records the new head as validated, and its repair push then drops
that commit.  The fresh snapshot before the merge is not asked for CI and
threads.  A green draft PR, and a PR closed without merging (only `merged` is
looked for, pr-landing.ts:313), is verified and polled without end, no brake is
consulted.  Feedback on a fork PR is repaired and pushed to the base repository.
A cancel during a repair is still followed by a push, one during the last
snapshots by the merge (263, 344).  A resume during the cleanup clears the block
reason of the result (116).  A failure of the first activities, before the `try`,
leaves the worktree handed over (448).  Right after a push every source of CI may
be empty, which reads as green.

`devCycle`.  An exhausted PR, or a foreign head, is handed over as validated:
`MergedContentWasVerified` excepts exactly that head.
An activity that gives up before the handoff leaves worktree and label
(168-432); a stop returns although a resume is expected (304); a cancel between
the push and the handle of the child is lost (112); an exhausted run without an
issue fails after opening its PR (427); a resume between the awaits of a
teardown overwrites the failed status (140).

`AgentJobs`.  Two calls under the same coordinates, which `prLanding` makes when
it validates a second head without a repair in between: the second is answered
with the output of the first while that Job is kept.  An attempt that throws on
a status read leaves its Job, although k8s-job-runner.ts:367 says a failing
attempt deletes it; a file whose removal fails unnoticed (349-350) is read again by
the retry; the pod of a deleted Job works on beside the retry or the fallback until
Kubernetes has stopped it; an attempt lost on a fallback model is retried from the
primary one beside the running fallback.

`AgentCalls`.  Refusals by a rate window use up the five attempts of the
activity, although create-activities.ts:329-332 says they never block a
workflow.  An unknown tier is retried (resolve-tier.ts:45 says it is not).  A
session limit on a tier of one entry is retried as a generic error.  The process
runner never heartbeats.

`SessionLocks`.  A flock process that dies by a signal keeps `exitCode` null; a
release after that waits for an `exit` that has already been
(repository-session-coordinator.ts:138-143), and the call never settles.
`CallsEnd` names that wait (`WaitsForAnExitPast`) and no other.

`RepoSessions`.  A crash between the rename to `.agentops-removed-*` and the
removal leaves that directory for ever (workspace-manager.ts:732, 774).

`Worktrees`.  `FETCH_HEAD` of the shared clone may be another task's by the time
it is used (workspace-manager.ts:197-208); any failure of the first `worktree add`
of a task that is given a branch only, also after a fetch that failed unnoticed,
puts its branch at base (208-219); a crash or failure between `rm` and `prune`
(556-557), or a `worktree remove` or `add` that is killed, leaves a registration
without a directory, which the guard at 551 never prunes; a late attempt reclaims a
worktree in use; a clone that breaks off leaves a directory in which every later attempt
fails; the sweep decides by a registry it read before.

`Intake`.  A label put on again after a completed run starts nothing, against
start-dev-cycle.ts:24; an automerge label that arrives between the creation of a
PR and its `agentops:managed` label starts a second owner; an empty reservation
whose finalize failed is taken over after fifteen minutes and files a duplicate;
late attempts release a reservation that is not theirs; an attempt that lost the
race answers `deduped` with an empty reference; a hunt on a Linear project always
fails; errors of a wake signal are swallowed.

`Reconcile`.  A token that cannot be read, a malformed file or a restart takes a
project out of a worker's registry for a while; unless this worker has managed it
since it came up, the sweep deletes its schedules as orphans.  Projects whose
names are prefixes of each other before a `:` take each other's schedules for
their own (reconcile-agents.ts:29-34): the pairs of `Ids` are names of which none is
such a prefix of another, and the properties hold of those only.  A manifest that
stays invalid is a failure that has not ceased.  A push during a running sync is dropped.
A disabled agent is created unpaused first, and unpaused and paused again by each
sync.  A continuous agent keeps its old workflow when its declaration changes and
outlives its project.  One project whose sync fails ends the sweep for the
others.

`PlatformChat`.  Signals that arrive while the agent thinks are lost at
`continueAsNew`; a second turn overwrites the first; a decision for an unknown
proposal withdraws the open one; an activity that gives up leaves the scratch
workspace.  An attempt of `executePlatformAction` that dies after its signal or
terminate took effect (create-activities.ts:383) is run again, up to five times: a
signal is sent twice, and a repeated terminate answers "failed" for what was done.

`ControlPlane`.  Row and schedule of the self-heal switch come apart when
requests and a boot interleave or one breaks off, and a GET on an empty table
seeds the row without a schedule, although ensure-self-heal-schedule.ts:11 calls
the flag a true switch.  Turning self-heal off and on while a sweep runs lets two
sweeps run.  Two PUTs of disjoint tiers commit their union; a partial seed stays.
The first fix that fails drops the ones after it.  The preparation of a platform
run's scratch workspace stands before the `try` (platform.ts:35) and may leave its
directory.

Outside the modules: the GTD store writes a task before it validates the due
date and throws on that line from then on; two of its commands share a temporary
file.  `devCyclePrRepair` ignores the brake of its own policy (`block`) and
checks no cancel in its implement loop.

## 6. Proofs

Every theorem holds for every value of the constants its module's ASSUME allows.
Proved is every safety property the runs check, of every module, and the
refinements of `LandingPromise` and `Exclusion`.  The layout is the same
in each: an inductive invariant that is a conjunction of named parts, one lemma
for each action (and, where actions share their effect, for the effect), one that
puts them together, and short theorems.  TLC checked the
inductive invariants on the instances of the modules' runs before they were
proved (not that of `SessionLocks`, which quantifies over sequences).

| invariant or action property | theorem | proved from |
|---|---|---|
| `PrLanding!MergedHeadIsValidated` | `LandsOnlyValidatedHeads` | `LandingInv` |
| `PrLanding!RepairsAreBounded` | `RepairsStayBounded` | `TypeOK` |
| `PrLanding!WorkspaceOutlivesUse` | `WorkspaceIsOwned` | `WorkspaceInv` |
| `PrLanding!MergedContentWasVerified` | `SolePusherLandsVerifiedContent` | `ContentInv`, assuming `SolePusher` |
| `PrLanding!KeepsLandingPromise` | `LandingPromiseIsKept` | `WorkspaceInv`, `PromiseInv` |
| `DevCycle!OpenedPrPassedTheGates` | `OpenedPrPassed` | `GatesKept` |
| `DevCycle!OneWorktreeOwner` | `WorktreeHasOneOwner` | `WorktreeKept` |
| `DevCycle!ReturnLeavesNothingBehind` | `NothingIsLeftBehind` | `WorktreeKept`, `LabelKept` |
| `AgentJobs!ResultIsOfItsCoordinates` | `ResultsAreOfTheirCoordinates` | `JobOK`, `FileOK`, `AnswerOK` |
| `AgentJobs!FailuresAreFresh` | `NoFailureTwice` | `FileOK`, `RejectedOK` |
| `AgentJobs!NoAgentIsForgotten` | `AgentsAreNotForgotten` | `OneOfAName`, `Watched` |
| `AgentCalls!WindowIsKept` | `WindowsAreKept` | `Tallies`, `Spread` |
| `AgentCalls!WaitIsExact` | `WaitsAreExact` | `Told`, `Tallies` |
| `AgentCalls!ExhaustedMeansAll` | `ExhaustedIsAll` | `RecordOK` |
| `SessionLocks!KeepsPromise` | `PromiseIsKept` | kernel and queue |
| `RepoSessions!SessionIsWhole` | `SessionsAreWhole` | `LockOK`, `BuiltOK` |
| `RepoSessions!SweepSparesTheLiving` | `LivingAreSpared` | `SlotsOK`, `SweepOK` |
| `Worktrees!WorktreeIsItsOwn` | `OwnWorktree` | `KeptOK`, `WayIsFree` |
| `Worktrees!OneWorktreePerBranch` | `BranchesAreExclusive` | `GitOK` |
| `Worktrees!LeftoversAreReclaimed` | `LeftoversCostNothing` | `GitOK`, `WayIsFree` |
| `Intake!FindingFiledOnce` | `FindingsAreFiledOnce` | `DebtOK` |
| `Intake!OneOwner` | `PrsHaveOneOwner` | `OwnersOK` |
| `Intake!LandingIsInvited` | `LandingsAreInvited` | `GatewayOK` |
| `Reconcile!KeptProjectsKeepTheirAgents` | `KeptAgentsStay` | `RunsOK`, `KeptOK`, `RegistryOK` |
| `PlatformChat!OnlyApprovedRuns` | `ApprovedOnesRun` | `ProposalKept`, `ApprovalKept` |
| `PlatformChat!NamesAreFresh` | `NamesStayFresh` | `NamesKept` |
| `PlatformChat!OpenProposalIsShown` | `ConsoleIsRight` | `ProposalKept` |
| `ControlPlane!SwitchIsObeyed` | `SwitchIsKept` | `SwitchOK` |
| `ControlPlane!TiersAreWhole` | `TiersStayWhole` | `TableOK` |
| `ControlPlane!RunsEndHonestly` | `RunsTellTheirFirstFailure` | `RunsOK` |

### PrLanding

`PrLandingProofs` is checked by tlapm for every value of the constants that
`PrLandingAssumption` allows (positive brakes, a cap above the limits, any
inputs, commits, threads).

* `TypeCorrect` - `TypeOK` is inductive.  One lemma per conjunct group, one step
  per action.
* `LandsOnlyValidatedHeads` - `MergedHeadIsValidated` is not inductive: it needs
  that while a validation or a merge is under way nothing has been merged by
  this workflow, that the expected head of a pending merge is the validated
  head, and that a merged PR's head no longer moves.  `LandingInv` says so.
* `RepairsStayBounded` - inductive relative to `TypeOK`; two lemmas show that
  the policies start a repair only below the attempt limit and a feedback round
  only below the cap.
* `WorkspaceIsOwned` - `WorkspaceInv` says at which awaits the worktree is
  owned.
* `SolePusherLandsVerifiedContent` - under `SolePusher` (nobody else pushes, no
  fork), `ContentInv` relates worktree, branch and evidence at every await: the
  repair push is the only step between a changed worktree and an equal head.  The
  head that was handed over without a pass is held on trust (`OnTrust`), and what a
  foreign one contains is not what the worktree has; both end with the first repair
  that is pushed.
* `LandingPromiseIsKept` - `Spec => KeepsLandingPromise`, the refinement of
  `LandingPromise`.  Seen from outside an await of `land()` has three ways on:
  another one, a brake, or the finally block (`LandingIsSeen`); the awaits before
  it, the releases, the finally block and the signals have a lemma each.
  `PromiseInv` says what the result tells: a run that cleans up has an outcome, and
  `cancelled` only if it was.
* `WorstSignalWins` - about `mergeCiSignals`: a reported failure is never
  outvoted, running work never reads as green, three unreadable sources are never
  green.  `CiReadings` shows that what is read is a CI status, which
  `TypeCorrect` needs.

### SessionLocks and Exclusion

`SessionLocksProofs` is checked for any calls, any assignment of them to workers
and any number of accidents.

* `PromiseIsKept` - `Spec => KeepsPromise`, the refinement of `Exclusion`.  The
  invariant `Inv` has two parts that do not meet.  For flock: a killed process
  belongs to a failed call, an operation has read what its helper said, who was
  told has seen an exit, and one process holds the kernel's lock.  For the local
  coordinator: the calls with an unsettled tail stand in a queue, each waiting for
  the one before it, the first for nobody, and the key is kept for the last
  (`QueueOK`; the queue is a witness, a ghost the code does not have).  Only the
  first of the queue has its turn (`OneAtFront`), which makes `WaitIsOver` a
  `Grant`.  One lemma per action shows that the step keeps `Inv`, a second which
  step of the promise it is.
* `OperationsExclude` - no two operations run while the lock of each is kept.
* `TypeCorrect` - the key is kept only for an unsettled tail, among the rest of
  `TypeOK`.

* `Excludes` - the promise itself excludes for any set of calls, whoever
  implements it: `Exclusion` is instantiated with calls and stages of its own.  No
  step but `Grant` makes a holder.

### DevCycle

The state is a coroutine at one of its awaits, so every property is about what the
awaits leave implicit.  `Inv` is `TypeOK` and three parts.

* `GatesKept` - which verdicts the points after a round rest on: once the decision
  has been to push and the body does not say `exhausted`, the content that was
  verified is the one that is in the worktree.  It needs what `nextRepairAction`
  returns (`NextRepairActionResult`): it opens a PR only on two passes, or as
  exhausted.
* `WorktreeKept` - the worktree is there from `prepareWorkspace` to the start of
  the child and goes with the child afterwards; no parent step touches it then.
* `ChildKeepsThePromise` - the child begins as `LandingPromise` begins, with the
  worktree that is handed over, and from then on every step of parent and child is
  a step of the promise or leaves what it is about alone; with
  `LandingPromiseIsKept` the two workflows fit.
* `LabelKept` - `agent:working` is on only in a run for an issue, between two
  awaits, and off at the last teardown.

### AgentJobs

Nothing in a Job or a file names the attempt it belongs to; what ties them
together is the name.  `Inv` says so of every place a name or the number of a Job
is kept: Jobs, files, pods that have files open, the output a runner fails on, the
answer of a call.

* `ResultsAreOfTheirCoordinates` - a result was written by a Job of the call's name,
  and a name is coordinates and a model.  No assumption on the coordinates: two
  calls that share them share their Jobs, and the theorem claims no more than that.
* `NoFailureTwice` - a file and the pods that have it open never include a Job whose
  output an attempt has failed on and removed (`FileOK`): a pod that writes late
  writes to a file nobody reads.  A removal that fails removes nothing, so what the
  retry then reads again is not among them.
* `AgentsAreNotForgotten` - the API server knows one Job of a name (`OneOfAName`),
  and a registered Job is watched, or the attempt was lost, or its cleanup was
  unclean (`Watched`).  `NoAgentIsForgotten` alone is not inductive: it forgets the
  points at which the attempt has stopped watching but still has to delete.

### AgentCalls

* `WindowsAreKept` - what a limiter counts and what the subscription is asked
  (`spent`, which no code keeps) are tied by `Tallies`: the limiter has the last of
  all the times, and those it has forgotten are out of the window.  A call is let
  through only while the limiter has fewer than `MaxCalls` times (`SlotIsFree`), so
  the call `MaxCalls` before it has been forgotten (`AppendTallies`).  That the
  times are shifted out up to the first that is in the window needs that there is
  a first: `LeastNumber`, from the library's well-foundedness of the naturals.
* `WaitsAreExact` - as long as a window has counted no call since it refused one, it
  is full, its first call is the one whose leaving was announced, and the refused
  call does not come back before (`Told`).  Kept beside `Inv` and proved from it: that
  the first call of a window is the last to be pruned needs `Tallies`.
* `ExhaustedIsAll` - `RecordOK`: while an attempt is at a
  place of the chain, exactly the places before it have met a session limit in this
  attempt, and no error has been settled on.

### RepoSessions (in `WorkspaceProofs`)

`SessionIsWhole` needs that what a creator publishes is what it counted
(`BuiltOK`), which needs that nobody removes or fills the staging directory under
it (`SlotsOK`, `SweepOK`), which needs the lock (`LockOK`): a process that has not
heard of an abort is alone inside.  A creator that lost the lock goes on for as
long as no step looks, so the parts speak of creators that have not been aborted.
`TouchOK` is for the touch, which writes back the metadata it read before.
`LivingAreSpared` is an action property, proved from the same invariant: only
`removeStaging` and `rmSession` remove, the first without the session's lock.

### Worktrees (in `WorkspaceProofs`)

`WorktreesInv` has parts that hold at different times.  `GitOK` always holds, since
git enforces it: a worktree is registered under its task's branch, which exists,
and no other has it.  `RunOK` says that an attempt is heard only while its workflow
prepares.  `KeptOK` holds until every task is disturbed, which giving the repository
up does: nothing of it is swept.  `TaskOK(t)` holds while `t` is not disturbed, from
where its attempt begins to reclaim (until then an attempt relies on no more than the clone):
`WayIsFree` says of each place what the commands before it have brought about, the
directory gone, then the registration, then the branch, then the right
`FETCH_HEAD`, and finally the worktree, which stays while it is used.

A task is disturbed by what the code does not protect it from: a late attempt of
its own that changes the clone, a `branch -D` that fails, a registration without a
directory, another fetch between its fetch and its worktree, the repository given
up.  An attempt that begins to reclaim in a repository that is kept is undisturbed
again, so a race that is over excuses nothing that comes later.

`LeftoversCostNothing` is about a task alone on its branch; one that makes its branch
at base makes one of the engine's own (workspace-manager.ts:191), the kind a
reclaim may delete (`Reclaimable`).

### Intake (in `EntryProofs`)

* `FindingsAreFiledOnce` - the property bounds how many issues there are by the
  mishaps there were, which is not inductive: an attempt that has reserved the row
  owes an issue before there is one.  `Debt` counts both, the issues filed by hunts
  and the attempts that have yet to call the tracker, and `DebtOK` says that every
  one but the first is paid for by a mishap.  The one that is not (`Covered`)
  belongs to an attempt at work under its reservation, or the row names an issue;
  so whoever reserves the row next can do so only at the price of a mishap that has
  already happened.  Cardinalities are those of the library's finite set theorems.
* `LandingsAreInvited` - an action property about the step that starts a landing,
  while the conditions were read steps earlier, from the payload and the project's
  mode.  `GatewayOK` carries them along: a request that is about to start a landing
  for a pull request's event has an invitation in its payload (`Invited`).
* `PrsHaveOneOwner` - `OwnersOK`: before there is a pull request no payload is about
  one and no landing runs (`NoneYet`), and one devCycle at a time has a pull request to
  hand over.  From then on only an enrolment opens a landing, `LandingsAreInvited`'s
  `GatewayOK` says that it rests on a payload without the label managed, and a payload
  that was sent stays sent.

### Reconcile (in `EntryProofs`)

`KeptAgentsStay` says of every delete that the schedule is not one of a project
that is kept and wants it.  Two actors delete, each on the word of a list it read
some steps ago.

* `RunsOK` - a plan deletes only what the manifest it was made from does not want,
  and keeps that manifest until the run is over.
* `KeptOK` - a project that has been registered and well described all along stands
  on every list under way: the registry's, that of the refresh being read, that of
  the sweep.
* `RegistryOK` - a sweep holds no orphan of a project on its list; the list of
  tokens the worker knows covers the registry.

### PlatformChat (in `PlatformProofs`)

`PlatformProofs` extends `ControlPlane` and `PlatformChat`, which share no
variable; `ChatInit`, `ChatNext`, `ChatSpec` and `chatVars` are named for that.
Proposals, calls and children are numbered, and the proofs are about where each
number can be.  `NumbersOK` orders the sets (shown, and among them approved,
superseded, executed), `ProposalKept` says that a pending proposal is none of the
last two and that a chat at work has none, `ApprovalKept` that a pending yes is to
a proposal the operator approved, and `NamesKept` where the counters stand at each
await, `continueAsNew` included: what it hands over is why no name comes twice.  A
further attempt of an action stays at its await, with the proposal already resolved.

### ControlPlane (in `PlatformProofs`)

Three parts share nothing but their counters, so `Inv` is `CountsOK` and one part
for each, and each lemma shows that a step of one part leaves the others alone.

* `SwitchOK` - the properties excuse writers that crossed; the invariant says of
  those that did not that nobody is beside them (`solo`), so what they read is what
  they act on.
* `TableOK` - under READ COMMITTED a transaction deletes what it saw.  One that is
  solo has seen all of the table, so its commit leaves its own rows; once the
  worker has booted no state of the table is empty.
* `RunsOK` - a run has no failure before its agent ran but its own, keeps the first,
  and after its cleanup has its scratch workspace only if that failed (`uncleaned`)
  or the preparation did.

### What TLC only checks

Liveness is out of the prover's reach: `SignalsAreAnswered`, `SettledRunEnds`,
`RunEndsOrWaits`, `CallsEnd` of both modules, `LeftoversGo`, `FindingGetsFiled`,
`DeclaredAgentsRun`, `RemovedAgentsGo`, `TiersReachTheWorker`.

## 7. Not modelled

The legacy babysit loop of `devCycle` (dev-cycle.ts:467-541), reached only when
an execution from before `shared-pr-landing-v1` is replayed.  `devCyclePrRepair`,
whose starter has no caller.  Temporal's own terminate and cancel of an
execution.  Prompt rendering, escalation of tiers, statistics (inserts nobody
reads back into a decision).  Signatures and malformed bodies of webhooks.
Validation of paths and symlinks in the workspace manager, init commands.  The
trackers beyond what their callers' modules say of them; the in-memory ports.
Attempts of `cleanupWorkspace` that outlive their timeout, and branches that
appear on or vanish from origin while a task prepares (a fetch that fails unnoticed
then finds the ref of the last one).  The deletion of removed backends when the tier
store creates its schema (postgres-tier-store.ts:63-65), which only rows of an older
version meet.
Read-only routes of the BFF, UI, CLI, SDK, tracing and configuration of the
worker: stateless or presentation.  The GTD store, a command line tool that
shares no state with the engine.

## 8. Plan

1. The models above - done.
2. Proofs of every safety property the runs check - done.
3. The refinement of what `DevCycle` assumes of its child by `PrLanding` - done.
4. Possible next: the same for the other starters of `prLanding`; the hazards
   without a property.
