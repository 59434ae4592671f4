------------------------------- MODULE Worktrees -------------------------------
(* Task worktrees of one repository: what workflows do with prepareWorkspace   *)
(* and cleanupWorkspace, the git commands of WorkspaceManager in the clone the *)
(* tasks share, and the sweep that removes what belongs to no live repository. *)
(*                                                                             *)
(* Temporal gives an attempt of prepareWorkspace up after ten minutes without  *)
(* stopping it: it goes on as the task's late attempt and nobody hears it.     *)
EXTENDS Naturals, FiniteSets

CONSTANTS
  Tasks,
  Variant,          \* task -> "head": headRef and headBranch are given;
                    \* "branch": headBranch only; "new": neither
  BranchOf,         \* task -> its branch
  Synthetic,        \* branches named agentops/...
  RemoteBranches,   \* branches origin has
  MaxAttempts,      \* retry.maximumAttempts
  MaxIncidents      \* bound: timeouts, failing commands, crashes, and changes of
                    \* the registry, which count as two

Base == "base"      \* the head of the default branch
Nothing == "none"
Branches == {BranchOf[t] : t \in Tasks}

ASSUME WorktreesAssumption ==
  /\ Variant \in [Tasks -> {"head", "branch", "new"}]
  /\ Synthetic \subseteq Branches /\ RemoteBranches \subseteq Branches
  /\ {Base, Nothing} \cap Branches = {}
  /\ MaxAttempts \in Nat \ {0} /\ MaxIncidents \in Nat

\* Commits are named by the remote branch they are the head of.
Commits == Branches \cup {Base}

\* The commit a task asks for.
Wanted(t) ==
  IF Variant[t] = "head" \/ (Variant[t] = "branch" /\ BranchOf[t] \in RemoteBranches)
  THEN BranchOf[t] ELSE Base

VARIABLES
  cache,            \* the clone: "absent", "partial", "cloned"
  fetchHead,        \* FETCH_HEAD of the clone
  refs,             \* local branches of the clone
  registered,       \* tasks whose worktree the clone knows, and its branch
  dir,              \* task -> what its directory holds
  run,              \* task -> where its workflow is
  tries,            \* task -> attempts of the current activity
  attempt,          \* task, slot -> where an attempt of prepareWorkspace is
  managed, sweep,   \* whether the repository is managed; the pass of the sweep
  incidents,
  disturbed         \* history: tasks for whom, since their attempt began to reclaim,
                    \* a late attempt of theirs has acted, branch -D has failed,
                    \* a registration without a directory was met, another fetch
                    \* came between their fetch and worktree add, or the
                    \* repository was given up

git == <<cache, fetchHead, refs, registered>>
flow == <<run, tries>>
worktreesVars == <<git, dir, flow, attempt, managed, sweep, incidents, disturbed>>

Attempts == {"now", "late"}
AttemptPlaces == {"gone", "base", "clone", "detect", "reclaim", "rm", "prune", "branch",
                  "fetch", "add", "addBase", "init"}
NoDir == [branch |-> Nothing, commit |-> Nothing]

WorktreesInit ==
  /\ cache = "absent" /\ fetchHead = Nothing /\ refs = {}
  /\ registered = [t \in Tasks |-> Nothing]
  /\ dir = [t \in Tasks |-> NoDir]
  /\ run = [t \in Tasks |-> "new"] /\ tries = [t \in Tasks |-> 0]
  /\ attempt = [t \in Tasks |-> [s \in Attempts |-> "gone"]]
  /\ managed = TRUE /\ sweep = "off"
  /\ incidents = 0 /\ disturbed = {}

AttemptAt(t, s, where) == attempt[t][s] = where
AttemptGoto(t, s, where) == attempt' = [attempt EXCEPT ![t][s] = where]
Incident == incidents < MaxIncidents /\ incidents' = incidents + 1
Begin(t, phase) == run' = [run EXCEPT ![t] = phase] /\ tries' = [tries EXCEPT ![t] = 0]

\* An attempt of task t in slot s has changed what the task's next one relies on.
Meddled(t, s) == disturbed' = IF s = "late" THEN disturbed \cup {t} ELSE disturbed

(***************************************************************************)
(* git in the clone.                                                       *)
(***************************************************************************)
\* (Added with --force.)
CheckedOut_Never(branch) == FALSE

CheckedOut(branch) == \E t \in Tasks : registered[t] = branch

\* worktree add makes the branch first: -B resets one that exists and is checked
\* out nowhere, -b takes none that exists.
CanBranch(t, reset) ==
  /\ cache = "cloned"
  /\ IF reset THEN ~CheckedOut(BranchOf[t]) ELSE BranchOf[t] \notin refs

\* It takes no path in use, or registered without a directory.
CanAdd(t, reset) == CanBranch(t, reset) /\ dir[t] = NoDir /\ registered[t] = Nothing

\* The worktree add an attempt is at, if its commit is there: -B, or -b at base.
AddMayBranch(t, s) ==
  \/ AttemptAt(t, s, "add") /\ Wanted(t) # Base /\ CanBranch(t, TRUE)
  \/ AttemptAt(t, s, "addBase") /\ CanBranch(t, FALSE)

\* worktree remove --force: the directory, if it is there, then the registration.
Removable(t) == cache = "cloned" /\ registered[t] # Nothing
RemoveWorktree(t) ==
  dir' = [dir EXCEPT ![t] = NoDir] /\ registered' = [registered EXCEPT ![t] = Nothing]

\* What a git command that fails or dies half-way leaves of the branch, the
\* registration and the directory.
HalfAdded(t, s) ==
  /\ AddMayBranch(t, s)
  /\ refs' = refs \cup {BranchOf[t]}
  /\ \/ UNCHANGED registered
     \/ dir[t] = NoDir /\ registered[t] = Nothing /\ registered' = [registered EXCEPT ![t] = BranchOf[t]]
  /\ UNCHANGED dir
HalfRemoved(t, s) ==
  /\ AttemptAt(t, s, "reclaim") /\ Removable(t)
  /\ dir' = [dir EXCEPT ![t] = NoDir]
  /\ UNCHANGED <<refs, registered>>
Interrupted(t, s) == HalfAdded(t, s) \/ HalfRemoved(t, s) \/ UNCHANGED <<refs, registered, dir>>

(***************************************************************************)
(* The workflow and Temporal.                                              *)
(***************************************************************************)
\* A run of the task, after one that has not ended well too.
StartRun(t) ==
  /\ run[t] \in {"new", "failed", "uncleaned"} /\ managed
  /\ Begin(t, "preparing")
  /\ UNCHANGED <<git, dir, attempt, managed, sweep, incidents, disturbed>>

StartAttempt(t) ==
  /\ run[t] = "preparing" /\ AttemptAt(t, "now", "gone") /\ tries[t] < MaxAttempts
  /\ tries' = [tries EXCEPT ![t] = @ + 1]
  /\ AttemptGoto(t, "now", "base")
  /\ UNCHANGED <<git, dir, run, managed, sweep, incidents, disturbed>>

\* An attempt throws: Temporal tries again or the workflow fails.
Throw(t, s) ==
  /\ AttemptGoto(t, s, "gone")
  /\ IF s = "now" /\ tries[t] = MaxAttempts THEN Begin(t, "failed") ELSE UNCHANGED flow

\* Where prepare goes on, whether or not the branch is deleted.
AfterReclaim(t) == IF Variant[t] = "new" THEN "addBase" ELSE "fetch"

\* Where prepare goes on after a command whose failure it does not look at: a
\* worktree that cannot be removed is deleted, a branch that cannot be fetched or
\* added from origin is begun at base.
AfterFailure(t, where) ==
  CASE where = "reclaim" -> "rm"
    [] where = "branch" -> AfterReclaim(t)
    [] where = "fetch" /\ Variant[t] = "branch" -> "add"
    [] where = "add" /\ Variant[t] = "branch" -> "addBase"
    [] OTHER -> "gone"

CommandFails(t, s) ==
  /\ ~AttemptAt(t, s, "gone") /\ Incident
  /\ AttemptAt(t, s, "reclaim") => dir[t] # NoDir
  /\ LET next == AfterFailure(t, attempt[t][s]) IN
       IF next = "gone" THEN Throw(t, s) ELSE AttemptGoto(t, s, next) /\ UNCHANGED flow
  /\ Interrupted(t, s)
  /\ disturbed' = IF s = "late" \/ AttemptAt(t, s, "branch") THEN disturbed \cup {t} ELSE disturbed
  /\ UNCHANGED <<cache, fetchHead, managed, sweep>>

\* startToCloseTimeout.  The attempt goes on, or its worker is gone.
AttemptTimesOut(t) ==
  /\ ~AttemptAt(t, "now", "gone") /\ Incident
  /\ \/ /\ attempt' = [attempt EXCEPT ![t] =
             [s \in Attempts |-> IF s = "late" THEN attempt[t]["now"] ELSE "gone"]]
        /\ UNCHANGED <<refs, registered, dir>>
     \/ /\ attempt' = [attempt EXCEPT ![t] = [s \in Attempts |-> "gone"]]
        /\ Interrupted(t, "now")
  /\ IF tries[t] = MaxAttempts THEN Begin(t, "failed") ELSE UNCHANGED flow
  /\ UNCHANGED <<cache, fetchHead, managed, sweep, disturbed>>

\* The work in the worktree is over, one way or another.
EndUse(t) ==
  /\ run[t] = "using"
  /\ Begin(t, "cleaning")
  /\ UNCHANGED <<git, dir, attempt, managed, sweep, incidents, disturbed>>

(***************************************************************************)
(* prepare.                                                                *)
(***************************************************************************)
\* Whose worktree is to be made from FETCH_HEAD next.
Waiting(t, s) == AttemptAt(t, s, "add") /\ Variant[t] = "head"
Fetched(t, s, commit) ==
  /\ fetchHead' = commit
  /\ disturbed' = disturbed \cup
       {u \in Tasks : (u # t \/ s = "late") /\ Waiting(u, "now") /\ commit # Wanted(u)}

\* The directory decides between a clone and a fetch.
ensureBaseClone(t, s) ==
  /\ AttemptAt(t, s, "base")
  /\ \/ /\ cache = "absent"
        /\ cache' = "partial" /\ AttemptGoto(t, s, "clone")
        /\ UNCHANGED <<fetchHead, disturbed>>
     \/ /\ cache # "absent"
        /\ Fetched(t, s, Base) /\ AttemptGoto(t, s, "detect")
        /\ UNCHANGED cache
  /\ UNCHANGED <<refs, registered, dir, flow, managed, sweep, incidents>>

CloneEnds(t, s) ==
  /\ AttemptAt(t, s, "clone")
  /\ IF cache = "partial" THEN cache' = "cloned" /\ AttemptGoto(t, s, "detect") /\ UNCHANGED flow
                          ELSE Throw(t, s) /\ UNCHANGED cache
  /\ UNCHANGED <<fetchHead, refs, registered, dir, managed, sweep, incidents, disturbed>>

\* origin/HEAD is written at the end of a clone.
detectDefaultBranch(t, s) ==
  /\ AttemptAt(t, s, "detect")
  /\ IF cache = "cloned" THEN AttemptGoto(t, s, "reclaim") /\ UNCHANGED flow ELSE Throw(t, s)
  /\ UNCHANGED <<git, dir, managed, sweep, incidents, disturbed>>

\* What has disturbed earlier attempts is past for one that begins to reclaim, unless
\* the repository is given up.
Undisturbed(t) ==
  IF managed /\ sweep = "off" /\ cache = "cloned" THEN disturbed \ {t} ELSE disturbed

\* Only a directory that is there is removed, with its registration.
reclaimStaleWorktree(t, s) ==
  /\ AttemptAt(t, s, "reclaim")
  /\ \/ /\ dir[t] = NoDir
        /\ AttemptGoto(t, s, "branch") /\ UNCHANGED <<dir, registered>>
     \/ /\ dir[t] # NoDir /\ Removable(t)
        /\ RemoveWorktree(t) /\ AttemptGoto(t, s, "branch")
     \/ /\ dir[t] # NoDir /\ ~Removable(t)
        /\ AttemptGoto(t, s, "rm") /\ UNCHANGED <<dir, registered>>
  /\ disturbed' = IF s = "now" THEN Undisturbed(t) ELSE disturbed \cup {t}
  /\ UNCHANGED <<cache, fetchHead, refs, flow, managed, sweep, incidents>>

RmWorktree(t, s) ==
  /\ AttemptAt(t, s, "rm")
  /\ dir' = [dir EXCEPT ![t] = NoDir]
  /\ AttemptGoto(t, s, "prune") /\ Meddled(t, s)
  /\ UNCHANGED <<git, flow, managed, sweep, incidents>>

\* git worktree prune, whose failure is not looked at, and which spares what a
\* worktree add that was killed has left locked.
PruneWorktrees(t, s) ==
  /\ AttemptAt(t, s, "prune")
  /\ \E pruned \in SUBSET {u \in Tasks : dir[u] = NoDir} :
       registered' = [u \in Tasks |-> IF u \in pruned THEN Nothing ELSE registered[u]]
  /\ AttemptGoto(t, s, "branch")
  /\ UNCHANGED <<cache, fetchHead, refs, dir, flow, managed, sweep, incidents, disturbed>>

\* (The branch a previous run has left stays.)
KeptBranch_All(t) == refs

\* git branch -D, for synthetic branches only, and not if it is checked out.
KeptBranch(t) ==
  IF BranchOf[t] \in Synthetic /\ cache = "cloned" /\ \A u \in Tasks : registered[u] # BranchOf[t]
  THEN refs \ {BranchOf[t]} ELSE refs

DeleteBranch(t, s) ==
  /\ AttemptAt(t, s, "branch")
  /\ refs' = KeptBranch(t) /\ AttemptGoto(t, s, AfterReclaim(t))
  /\ disturbed' = IF registered[t] # Nothing THEN disturbed \cup {t} ELSE disturbed
  /\ UNCHANGED <<cache, fetchHead, registered, dir, flow, managed, sweep, incidents>>

\* git fetch origin headRef, or the branch, which may fail unnoticed.
FetchHead(t, s) ==
  /\ AttemptAt(t, s, "fetch")
  /\ IF cache # "cloned" /\ Variant[t] = "head"
     THEN Throw(t, s) /\ UNCHANGED <<fetchHead, disturbed>>
     ELSE /\ Fetched(t, s, IF Wanted(t) = Base THEN fetchHead ELSE Wanted(t))
          /\ AttemptGoto(t, s, "add") /\ UNCHANGED flow
  /\ UNCHANGED <<cache, refs, registered, dir, managed, sweep, incidents>>

WorktreeAdd(t, s, commit) ==
  /\ dir' = [dir EXCEPT ![t] = [branch |-> BranchOf[t], commit |-> commit]]
  /\ registered' = [registered EXCEPT ![t] = BranchOf[t]]
  /\ refs' = refs \cup {BranchOf[t]}
  /\ AttemptGoto(t, s, "init")
  /\ UNCHANGED flow

\* The branch that is made before the path is found taken stays.
CannotAdd(t, s) ==
  /\ refs' = IF AddMayBranch(t, s) THEN refs \cup {BranchOf[t]} ELSE refs
  /\ UNCHANGED <<dir, registered>>

AddFromHead(t, s) ==
  /\ AttemptAt(t, s, "add") /\ Variant[t] = "head"
  /\ IF CanAdd(t, TRUE) THEN WorktreeAdd(t, s, fetchHead) ELSE CannotAdd(t, s) /\ Throw(t, s)

\* Whatever keeps the branch of origin from being added, base is tried next.
AddFromBranch(t, s) ==
  /\ AttemptAt(t, s, "add") /\ Variant[t] = "branch"
  /\ IF Wanted(t) # Base /\ CanAdd(t, TRUE) THEN WorktreeAdd(t, s, Wanted(t))
     ELSE CannotAdd(t, s) /\ AttemptGoto(t, s, "addBase") /\ UNCHANGED flow

AddFromBase(t, s) ==
  /\ AttemptAt(t, s, "addBase")
  /\ IF CanAdd(t, FALSE) THEN WorktreeAdd(t, s, Base) ELSE CannotAdd(t, s) /\ Throw(t, s)

AddWorktree(t, s) ==
  /\ AddFromHead(t, s) \/ AddFromBranch(t, s) \/ AddFromBase(t, s)
  /\ Meddled(t, s)
  /\ UNCHANGED <<cache, fetchHead, managed, sweep, incidents>>

\* The init commands have run, if there are any: the workflow has its worktree, if
\* it still waits.
Prepared(t, s) ==
  /\ AttemptAt(t, s, "init")
  /\ \/ dir[t] = NoDir /\ Throw(t, s)
     \/ AttemptGoto(t, s, "gone") /\ IF s = "now" THEN Begin(t, "using") ELSE UNCHANGED flow
  /\ UNCHANGED <<git, dir, managed, sweep, incidents, disturbed>>

(***************************************************************************)
(* cleanup: git worktree remove --force.                                   *)
(***************************************************************************)
CleanupThrows(t) ==
  IF tries[t] + 1 = MaxAttempts THEN Begin(t, "uncleaned")
  ELSE tries' = [tries EXCEPT ![t] = @ + 1] /\ UNCHANGED run

\* An answer that is lost is an attempt that has failed, and one that is killed may
\* leave the registration.
Cleanup(t) ==
  /\ run[t] = "cleaning"
  /\ \/ Removable(t) /\ RemoveWorktree(t) /\ Begin(t, "done") /\ UNCHANGED incidents
     \/ /\ Removable(t) /\ Incident /\ CleanupThrows(t)
        /\ RemoveWorktree(t) \/ (dir' = [dir EXCEPT ![t] = NoDir] /\ UNCHANGED registered)
     \/ ~Removable(t) /\ CleanupThrows(t) /\ UNCHANGED <<dir, registered, incidents>>
  /\ UNCHANGED <<cache, fetchHead, refs, attempt, managed, sweep, disturbed>>

(***************************************************************************)
(* pruneOrphans: worktrees, then the clone, by a list of live repositories *)
(* that was read before.                                                   *)
(***************************************************************************)
RegistryChanges ==
  /\ incidents + 2 <= MaxIncidents /\ incidents' = incidents + 2
  /\ managed' = ~managed
  /\ disturbed' = IF managed THEN disturbed \cup Tasks ELSE disturbed
  /\ UNCHANGED <<git, dir, flow, attempt, sweep>>

\* (The list is not looked at.)
Listed_No == FALSE

Listed == managed

\* A pass over a list that has the repository leaves its files alone.
SweepLists ==
  /\ sweep = "off" /\ ~Listed
  /\ sweep' = "worktrees"
  /\ UNCHANGED <<git, dir, flow, attempt, managed, incidents, disturbed>>

\* By the .git file of a directory; what has none is left alone.
worktreeCloneSlug(t) == IF dir[t] = NoDir THEN Nothing ELSE Base

SweepWorktrees ==
  /\ sweep = "worktrees"
  /\ dir' = [t \in Tasks |-> IF worktreeCloneSlug(t) = Base THEN NoDir ELSE dir[t]]
  /\ sweep' = "cache"
  /\ UNCHANGED <<git, flow, attempt, managed, incidents, disturbed>>

SweepCache ==
  /\ sweep = "cache"
  /\ cache' = "absent" /\ fetchHead' = Nothing /\ refs' = {}
  /\ registered' = [t \in Tasks |-> Nothing]
  /\ sweep' = "off"
  /\ UNCHANGED <<dir, flow, attempt, managed, incidents, disturbed>>

PrepareStep(t, s) ==
  \/ ensureBaseClone(t, s) \/ CloneEnds(t, s) \/ detectDefaultBranch(t, s)
  \/ reclaimStaleWorktree(t, s) \/ RmWorktree(t, s) \/ PruneWorktrees(t, s) \/ DeleteBranch(t, s)
  \/ FetchHead(t, s) \/ AddWorktree(t, s) \/ Prepared(t, s)

WorktreesNext ==
  \/ \E t \in Tasks :
       \/ StartRun(t) \/ StartAttempt(t) \/ AttemptTimesOut(t) \/ EndUse(t) \/ Cleanup(t)
       \/ \E s \in Attempts : PrepareStep(t, s) \/ CommandFails(t, s)
  \/ RegistryChanges \/ SweepLists \/ SweepWorktrees \/ SweepCache

WorktreesSpec == WorktreesInit /\ [][WorktreesNext]_worktreesVars

(***************************************************************************)
(* Properties.                                                             *)
(***************************************************************************)
WorktreesTypeOK ==
  /\ cache \in {"absent", "partial", "cloned"} /\ fetchHead \in Commits \cup {Nothing}
  /\ refs \subseteq Branches /\ registered \in [Tasks -> Branches \cup {Nothing}]
  /\ dir \in [Tasks -> [branch : Branches \cup {Nothing}, commit : Commits \cup {Nothing}]]
  /\ run \in [Tasks -> {"new", "preparing", "using", "cleaning", "done", "failed", "uncleaned"}]
  /\ tries \in [Tasks -> 0..MaxAttempts]
  /\ attempt \in [Tasks -> [Attempts -> AttemptPlaces]]
  /\ managed \in BOOLEAN /\ sweep \in {"off", "worktrees", "cache"}
  /\ disturbed \subseteq Tasks /\ incidents \in 0..MaxIncidents

\* The commit a task may find: one that is given a branch only may be at base
\* instead, where any failure of the first worktree add has led it.
MayFind(t) == IF Variant[t] = "branch" THEN {Wanted(t), Base} ELSE {Wanted(t)}

\* A workflow works in its own worktree on its branch, which the clone knows, at the
\* commit it asked for or, given a branch only, at base, whatever earlier attempts and
\* runs have left and other tasks do: as long as no late attempt of its own has acted
\* since its attempt began to reclaim, the repository is kept, and no other fetch came
\* between its fetch of FETCH_HEAD and its worktree add (workspace-manager.ts:170-243).
HasItsWorktree(t) ==
  /\ dir[t].branch = BranchOf[t] /\ dir[t].commit \in MayFind(t)
  /\ registered[t] = BranchOf[t] /\ cache = "cloned"
WorktreeIsItsOwn == \A t \in Tasks : run[t] = "using" /\ t \notin disturbed => HasItsWorktree(t)

\* What earlier attempts and runs of a task alone on its branch have left, wherever
\* they were cut short, does not keep its next worktree add from succeeding, as the
\* comment at workspace-manager.ts:536-543 promises: directories, what the clone knows
\* of them, and branches of the engine's own.  One leftover does, and who meets it is
\* disturbed: a registration without a directory, left by a worktree remove or add that
\* was killed or by a crash or failure between rm and prune, which the guard at :551
\* never prunes.
Alone(t) == \A u \in Tasks \ {t} : BranchOf[u] # BranchOf[t]
Reclaimable(t) == Wanted(t) = Base => BranchOf[t] \in Synthetic
LeftoversAreReclaimed ==
  \A t \in Tasks : Alone(t) /\ t \notin disturbed /\ Reclaimable(t) =>
    /\ AttemptAt(t, "now", "add") /\ Wanted(t) # Base => CanAdd(t, TRUE)
    /\ AttemptAt(t, "now", "addBase") /\ Wanted(t) = Base => CanAdd(t, FALSE)

\* No branch is checked out in two worktrees, whichever attempts overlap.
OneWorktreePerBranch ==
  \A t, u \in Tasks : registered[t] # Nothing /\ registered[t] = registered[u] => t = u
================================================================================
