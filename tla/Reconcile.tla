------------------------------- MODULE Reconcile -------------------------------
(* How declared agents become Temporal schedules and singleton workflows: the  *)
(* worker's registry of managed projects, configSync for one project, and the  *)
(* periodic reconcileAllProjects with its sweep of orphaned schedules.         *)
EXTENDS Naturals, FiniteSets

CONSTANTS
  Projects,
  Linear,     \* the projects whose tracker is Linear
  Agents,     \* names; an agent is known by its project and its name
  Crons,
  MaxEdits,   \* bound: edits of files and manifests, and pushes
  MaxFaults   \* bound: calls that fail, attempts and workers that die

ASSUME ReconcileAssumption ==
  /\ MaxEdits \in Nat /\ MaxFaults \in Nat /\ Crons # {} /\ Projects # {}
  /\ Linear \subseteq Projects

VARIABLES
  file,       \* each project's file in the mounted ConfigMap
  declared,   \* what each project's agentops.json declares
  cached,     \* the tokens this worker has read
  registry,   \* the worker's managed projects; none while it is not up
  refresh,    \* the registry that is being loaded
  schedule,   \* the schedule of each agent
  single,     \* the agents that run as singletons
  sync,       \* the configSync run of each project
  sweep,      \* the reconcileAllProjects run
  edits, faults,
  kept        \* history: the projects this worker has managed since it came up, their
              \* files fine all the time

worker == <<cached, registry, refresh, kept>>
inputs == <<file, declared, edits>>
temporal == <<schedule, single>>
runs == <<sync, sweep>>
vars == <<worker, inputs, temporal, runs, faults>>

\* The code writes agent:<project>:<name> and finds the agents of a project by the
\* prefix agent:<project>:, which is the same where no project's name continues
\* another's behind a colon; what happens where one does is not seen here.
Ids == Projects \X Agents
Declarations ==
  {[kind |-> "none", enabled |-> FALSE, cron |-> CHOOSE c \in Crons : TRUE]}
    \cup [kind : {"cron"}, enabled : BOOLEAN, cron : Crons]
    \cup [kind : {"continuous"}, enabled : BOOLEAN, cron : {CHOOSE c \in Crons : TRUE}]
Undeclared == CHOOSE d \in Declarations : d.kind = "none"

NoSchedule == [exists |-> FALSE, paused |-> FALSE, cron |-> CHOOSE c \in Crons : TRUE]
Active(cron) == [exists |-> TRUE, paused |-> FALSE, cron |-> cron]
NoSync == [at |-> "idle", child |-> FALSE, wanted |-> [a \in Agents |-> Undeclared],
           plan |-> {}, todo |-> {}]
NoSweep == [at |-> "idle", list |-> {}, todo |-> {}, orphans |-> {}]
NoRefresh == [at |-> "idle", list |-> {}]

\* What is asked for a project, one after the other.
Keys(p) == {"GITHUB_TOKEN"} \cup IF p \in Linear THEN {"LINEAR_API_TOKEN"} ELSE {}
Tokens(list) == UNION {{p} \X Keys(p) : p \in list}

Init ==
  /\ file \in [Projects -> {"fine", "gone"}]
  /\ \E p \in Projects : file[p] = "fine"
  /\ declared = [i \in Ids |-> IF file[i[1]] = "fine"
                               THEN [Undeclared EXCEPT !.kind = "cron", !.enabled = TRUE]
                               ELSE Undeclared]
  /\ registry = {p \in Projects : file[p] = "fine"}
  /\ cached = Tokens(registry) /\ kept = registry /\ refresh = NoRefresh
  /\ schedule = [i \in Ids |-> NoSchedule] /\ single = {}
  /\ sync = [p \in Projects |-> NoSync] /\ sweep = NoSweep
  /\ edits = 0 /\ faults = 0

Up == registry # {}
Fault == faults < MaxFaults /\ faults' = faults + 1
NoFault == UNCHANGED faults

(***************************************************************************)
(* People: the ConfigMap, the manifests, pushes.  A push starts a sync     *)
(* unless one is running; its webhook may also never come.                 *)
(***************************************************************************)
Edit == edits < MaxEdits /\ edits' = edits + 1

EditFile(p, state) ==
  /\ Edit /\ file[p] # state
  /\ file' = [file EXCEPT ![p] = state]
  /\ kept' = kept \ {p}
  /\ UNCHANGED <<declared, cached, registry, refresh, temporal, runs, faults>>

EditManifest(i, d) ==
  /\ Edit /\ declared[i] # d
  /\ declared' = [declared EXCEPT ![i] = d]
  /\ UNCHANGED <<file, worker, temporal, runs, faults>>

resolveManagedProjectEntry(p) == file[p] = "fine"

\* A push that comes while a sync runs starts none.
startConfigSync(p) ==
  sync' = IF sync[p].at = "idle" THEN [sync EXCEPT ![p] = [NoSync EXCEPT !.at = "load"]]
          ELSE sync

handleGithubPush(p) ==
  /\ Edit /\ resolveManagedProjectEntry(p)
  /\ startConfigSync(p)
  /\ UNCHANGED <<file, declared, worker, temporal, sweep, faults>>

(***************************************************************************)
(* The worker's registry: read from the files, then completed with tokens, *)
(* which are asked for once; what has no token is left out, and an empty   *)
(* registry is refused.  At boot there is none to keep.                    *)
(***************************************************************************)
RefreshStarts ==
  /\ refresh.at = "idle"
  /\ refresh' = [at |-> "loading", list |-> {p \in Projects : file[p] = "fine"}]
  /\ UNCHANGED <<cached, registry, kept, inputs, temporal, runs, faults>>

\* (The token is read from Kubernetes every time.)
MayLackToken_Any(token) == TRUE

MayLackToken(token) == token \notin cached

\* The entry of a project is built when all its tokens are there; those read before
\* one that is lacking have been cached.
buildResolvedEntry(p, lacking) == {<<p, k>> : k \in Keys(p)} \cap lacking = {}
TokensRead(p, lacking) == IF <<p, "GITHUB_TOKEN">> \in lacking THEN {} ELSE Tokens({p}) \ lacking

\* An empty registry is refused, and the wiring stays as it was.
buildActivityDependencies(entries) == IF entries = {} THEN registry ELSE entries

\* replace: calls made from now on go to the new wiring, those in flight go on.
Replace(entries) == registry' = entries
Serves(p) == p \in registry

RefreshEnds(lacking) ==
  /\ refresh.at = "loading"
  /\ lacking \subseteq Tokens(refresh.list) /\ \A token \in lacking : MayLackToken(token)
  /\ IF lacking = {} THEN NoFault ELSE Fault
  /\ LET next == {p \in refresh.list : buildResolvedEntry(p, lacking)} IN
     /\ cached' = cached \cup UNION {TokensRead(p, lacking) : p \in refresh.list}
     /\ Replace(buildActivityDependencies(next))
     /\ kept' = IF Up THEN kept
                ELSE {p \in next : file[p] = "fine" /\ (sweep.at = "idle" \/ p \in sweep.list)}
  /\ refresh' = NoRefresh
  /\ UNCHANGED <<inputs, temporal, runs>>

\* An attempt of pruneOrphanAgentSchedules starts with a list of its own.
ListsAgain == [sweep EXCEPT !.at = "children", !.orphans = {}]

\* A new worker; the activities of the old one are tried again from their start.
\* Which singletons are left to start or end is known to the workflow, which goes on.
Restart ==
  /\ Fault /\ Up
  /\ registry' = {} /\ cached' = {} /\ refresh' = NoRefresh /\ kept' = {}
  /\ sync' = [p \in Projects |-> IF sync[p].at = "apply" THEN [sync[p] EXCEPT !.todo = sync[p].plan]
                                 ELSE sync[p]]
  /\ sweep' = IF sweep.orphans # {} THEN ListsAgain ELSE sweep
  /\ UNCHANGED <<inputs, temporal>>

(***************************************************************************)
(* configSync.  Its activities run one after the other; the changes of     *)
(* schedules are one activity, a loop of calls, that starts over when an   *)
(* attempt dies.                                                           *)
(***************************************************************************)
At(p, at) == sync[p].at = at /\ Up

\* The run is over; a sweep that waits for it goes on, or fails with it.
Ends(p, ok) ==
  /\ sync' = [sync EXCEPT ![p] = NoSync]
  /\ sweep' = CASE ~sync[p].child -> sweep
                [] sync[p].child /\ ok -> [sweep EXCEPT !.at = "children"]
                [] OTHER -> NoSweep

\* Reading the manifest needs the ports of the project.
LoadManifest(p) ==
  /\ At(p, "load") /\ Serves(p)
  /\ sync' = [sync EXCEPT ![p].at = "list", ![p].wanted = [a \in Agents |-> declared[<<p, a>>]]]
  /\ UNCHANGED <<worker, inputs, temporal, sweep, faults>>

LoadFails(p) ==
  /\ At(p, "load")
  /\ IF Serves(p) THEN Fault ELSE NoFault
  /\ Ends(p, FALSE)
  /\ UNCHANGED <<worker, inputs, temporal>>

\* (What exists is as declared.)
reconcileAgents_NoUpdate(wanted, existing) ==
  LET cron == {a \in Agents : wanted[a].kind = "cron"} IN
  {<<"create", a>> : a \in cron \ existing}
    \cup {<<"pause", a>> : a \in {b \in cron \cap existing : ~wanted[b].enabled}}
    \cup {<<"delete", a>> : a \in existing \ cron}

\* listAgentSchedules cannot see the spec or the pause of a schedule: what exists
\* is updated each time, which unpauses it, and then paused when it is disabled.
\* A schedule that has just been created is not paused.
reconcileAgents(wanted, existing) ==
  LET cron == {a \in Agents : wanted[a].kind = "cron"} IN
  {<<"create", a>> : a \in cron \ existing} \cup {<<"update", a>> : a \in cron \cap existing}
    \cup {<<"pause", a>> : a \in {b \in cron \cap existing : ~wanted[b].enabled}}
    \cup {<<"delete", a>> : a \in existing \ cron}

\* A list that fails on its way is used as far as it came.
listAgentSchedules(p, existing) ==
  LET all == {a \in Agents : schedule[<<p, a>>].exists}
      plan == reconcileAgents(sync[p].wanted, existing)
  IN /\ At(p, "list") /\ existing \subseteq all
     /\ IF existing = all THEN NoFault ELSE Fault
     /\ sync' = [sync EXCEPT ![p].at = "apply", ![p].plan = plan, ![p].todo = plan]
     /\ UNCHANGED <<worker, inputs, temporal, sweep>>

Rank(op) == CASE op[1] \in {"create", "update"} -> 1 [] op[1] = "pause" -> 2 [] OTHER -> 3
IsNext(p, op) ==
  /\ At(p, "apply") /\ op \in sync[p].todo
  /\ \A other \in sync[p].todo : Rank(op) <= Rank(other)
Done(p, op) == sync' = [sync EXCEPT ![p].todo = @ \ {op}]

\* A create that finds its schedule there fails the run, each attempt alike.
CreateSchedule(p, a) ==
  /\ IsNext(p, <<"create", a>>)
  /\ IF schedule[<<p, a>>].exists
     THEN Ends(p, FALSE) /\ UNCHANGED schedule
     ELSE /\ schedule' = [schedule EXCEPT ![<<p, a>>] = Active(sync[p].wanted[a].cron)]
          /\ Done(p, <<"create", a>>) /\ UNCHANGED sweep
  /\ UNCHANGED <<worker, inputs, single, faults>>

\* The errors of the other calls are swallowed; so is a schedule that is gone.
Changed(op, old, wanted) ==
  IF ~old.exists THEN old
  ELSE CASE op = "update" -> Active(wanted.cron)
         [] op = "pause" -> [old EXCEPT !.paused = TRUE]
         [] OTHER -> NoSchedule

ChangeSchedule(p, op) ==
  /\ IsNext(p, op) /\ op[1] # "create"
  /\ \/ /\ schedule' = [schedule EXCEPT ![<<p, op[2]>>] = Changed(op[1], @, sync[p].wanted[op[2]])]
        /\ NoFault
     \/ Fault /\ UNCHANGED schedule
  /\ Done(p, op)
  /\ UNCHANGED <<worker, inputs, single, sweep>>

\* The attempt dies or its answer is lost.
ApplyAgain(p) ==
  /\ At(p, "apply") /\ Fault
  /\ sync' = [sync EXCEPT ![p].todo = sync[p].plan]
  /\ UNCHANGED <<worker, inputs, temporal, sweep>>

reconcileContinuous(wanted, running) ==
  LET declaredOnes == {a \in Agents : wanted[a].kind = "continuous" /\ wanted[a].enabled} IN
  {<<"start", a>> : a \in declaredOnes \ running}
    \cup {<<"terminate", a>> : a \in running \ declaredOnes}

\* A list that fails on its way is used as far as it came, here too.
listContinuousAgents(p, running) ==
  LET all == {a \in Agents : <<p, a>> \in single}
      plan == reconcileContinuous(sync[p].wanted, running)
  IN /\ At(p, "apply") /\ sync[p].todo = {} /\ running \subseteq all
     /\ IF running = all THEN NoFault ELSE Fault
     /\ sync' = [sync EXCEPT ![p].at = "singles", ![p].plan = {}, ![p].todo = plan]
     /\ UNCHANGED <<worker, inputs, temporal, sweep>>

\* Where one is running already, that is what was wanted.
StartSingle(p, a) ==
  /\ At(p, "singles") /\ <<"start", a>> \in sync[p].todo
  /\ \/ single' = single \cup {<<p, a>>} /\ Done(p, <<"start", a>>) /\ NoFault /\ UNCHANGED sweep
     \/ Fault /\ Ends(p, FALSE) /\ UNCHANGED single
  /\ UNCHANGED <<worker, inputs, schedule>>

Terminate(p, a) ==
  /\ At(p, "singles") /\ <<"terminate", a>> \in sync[p].todo
  /\ \A op \in sync[p].todo : op[1] # "start"
  /\ \/ single' = single \ {<<p, a>>} /\ NoFault
     \/ Fault /\ UNCHANGED single
  /\ Done(p, <<"terminate", a>>)
  /\ UNCHANGED <<worker, inputs, schedule, sweep>>

SyncEnds(p) ==
  /\ At(p, "singles") /\ sync[p].todo = {}
  /\ Ends(p, TRUE)
  /\ UNCHANGED <<worker, inputs, temporal, faults>>

\* A singleton closes by itself.
SingleCloses(i) ==
  /\ i \in single /\ Fault
  /\ single' = single \ {i}
  /\ UNCHANGED <<worker, inputs, schedule, runs>>

(***************************************************************************)
(* reconcileAllProjects, one run at a time: every project as a child, then *)
(* the schedules of projects that are not on the list.                     *)
(***************************************************************************)
listManagedProjects ==
  /\ Up /\ sweep.at = "idle"
  /\ sweep' = [NoSweep EXCEPT !.at = "children", !.list = registry, !.todo = registry]
  /\ UNCHANGED <<worker, inputs, temporal, sync, faults>>

\* A sync that is running already fails the whole run.
StartChild(p) ==
  /\ sweep.at = "children" /\ p \in sweep.todo
  /\ IF sync[p].at = "idle"
     THEN /\ sync' = [sync EXCEPT ![p] = [NoSync EXCEPT !.at = "load", !.child = TRUE]]
          /\ sweep' = [sweep EXCEPT !.at = "waiting", !.todo = @ \ {p}]
     ELSE sweep' = NoSweep /\ UNCHANGED sync
  /\ UNCHANGED <<worker, inputs, temporal, faults>>

\* (No schedule is anybody's orphan.)
orphanScheduleIds_None(ids, live) == {}

orphanScheduleIds(ids, live) == {i \in ids : i[1] \notin live}

\* Nothing is deleted on a list that failed.
pruneOrphanAgentSchedules ==
  /\ Up /\ sweep.at = "children" /\ sweep.todo = {}
  /\ \/ /\ sweep' = [sweep EXCEPT !.at = "prune",
                       !.orphans = orphanScheduleIds({i \in Ids : schedule[i].exists}, sweep.list)]
        /\ NoFault
     \/ Fault /\ sweep' = [sweep EXCEPT !.at = "prune"]
  /\ UNCHANGED <<worker, inputs, temporal, sync>>

DeleteOrphan(i) ==
  /\ Up /\ sweep.at = "prune" /\ i \in sweep.orphans
  /\ \/ schedule' = [schedule EXCEPT ![i] = NoSchedule] /\ NoFault
     \/ Fault /\ UNCHANGED schedule
  /\ sweep' = [sweep EXCEPT !.orphans = @ \ {i}]
  /\ UNCHANGED <<worker, inputs, single, sync>>

\* The attempt dies or its answer is lost.
PruneAgain ==
  /\ Up /\ sweep.at = "prune" /\ Fault
  /\ sweep' = ListsAgain
  /\ UNCHANGED <<worker, inputs, temporal, sync>>

\* The workspaces of those projects go too: see Worktrees and RepoSessions.
SweepEnds ==
  /\ Up /\ sweep.at = "prune" /\ sweep.orphans = {}
  /\ sweep' = NoSweep
  /\ UNCHANGED <<worker, inputs, temporal, sync, faults>>

Operators ==
  \/ \E p \in Projects : handleGithubPush(p) \/ \E state \in {"fine", "broken", "gone"} : EditFile(p, state)
  \/ \E i \in Ids, d \in Declarations : EditManifest(i, d)
Refreshes == RefreshStarts \/ \E lacking \in SUBSET Tokens(Projects) : RefreshEnds(lacking)
Syncs(p) ==
  \/ LoadManifest(p) \/ LoadFails(p) \/ SyncEnds(p)
  \/ \E found \in SUBSET Agents : listAgentSchedules(p, found) \/ listContinuousAgents(p, found)
  \/ \E a \in Agents : CreateSchedule(p, a) \/ StartSingle(p, a) \/ Terminate(p, a)
  \/ \E op \in sync[p].todo : ChangeSchedule(p, op)
Sweeps ==
  \/ listManagedProjects \/ pruneOrphanAgentSchedules \/ SweepEnds
  \/ \E p \in Projects : StartChild(p)
  \/ \E i \in Ids : DeleteOrphan(i)
Mishaps == Restart \/ PruneAgain \/ (\E p \in Projects : ApplyAgain(p)) \/ (\E i \in Ids : SingleCloses(i))

Next == Operators \/ Refreshes \/ (\E p \in Projects : Syncs(p)) \/ Sweeps \/ Mishaps
Spec == Init /\ [][Next]_vars

\* The timer fires, the schedule of the sweep fires, workflow code goes on.
Fairness ==
  /\ WF_vars(Refreshes) /\ WF_vars(Sweeps)
  /\ \A p \in Projects : WF_vars(Syncs(p))
FairSpec == Spec /\ Fairness

(***************************************************************************)
(* Properties.                                                             *)
(***************************************************************************)
TypeOK ==
  /\ file \in [Projects -> {"fine", "broken", "gone"}]
  /\ declared \in [Ids -> Declarations]
  /\ Tokens(registry) \subseteq cached /\ cached \subseteq Tokens(Projects) /\ kept \subseteq registry
  /\ \A i \in Ids : schedule[i] = NoSchedule \/ schedule[i].exists
  /\ single \subseteq Ids
  /\ \A p \in Projects : sync[p].at = "idle" <=> sync[p] = NoSync
  /\ Cardinality({p \in Projects : sync[p].child}) = (IF sweep.at = "waiting" THEN 1 ELSE 0)

\* A project that is well described all the time keeps its agents' schedules while
\* the worker refreshes its registry, other projects come and go, and calls fail:
\* only its own manifest takes them away; said of names that Ids tells apart.
\* (createManagedProjectWiringController, KubeTokenResolver, pruneOrphanAgentSchedules)
KeptProjectsKeepTheirAgents ==
  [][\A i \in Ids : i[1] \in kept /\ schedule[i].exists /\ ~schedule'[i].exists =>
       sync[i[1]].at = "apply" /\ sync[i[1]].wanted[i[2]].kind # "cron"]_vars

Described(p) == file[p] = "fine"
Wants(i, kind) == Described(i[1]) /\ declared[i].kind = kind /\ declared[i].enabled

\* When edits and failures have ceased, the agents a managed project has declared
\* and enabled run as declared, whatever was lost, half done or overtaken before;
\* said of names that Ids tells apart, and a manifest that does not parse is a failure
\* that has not ceased. (configSync, reconcileAllProjects)
DeclaredAgentsRun ==
  \A i \in Ids : <>[](/\ Wants(i, "cron") => schedule[i] = Active(declared[i].cron)
                      /\ Wants(i, "continuous") => i \in single)

\* What nobody declares any more stops being scheduled, also when its project is no
\* longer managed and no sync will ever look at it, as long as some project is.
\* (orphanScheduleIds, reconcileAgents)
RemovedAgentsGo ==
  \A i \in Ids : <>[]((\E p \in Projects : Described(p)) /\ (Described(i[1]) => declared[i].kind # "cron")
                        => ~schedule[i].exists)

=============================================================================
