------------------------------ MODULE ControlPlane ------------------------------
(* What operators set and what follows from it: the self-heal switch and the   *)
(* tier table, written by the console's server and by a worker that boots,     *)
(* the worker's copy of the tiers, and the platform runs that self-heal fires. *)
EXTENDS Naturals, FiniteSets

CONSTANTS
  Puts,      \* requests of the console that may be handled at the same time
  Tiers,     \* names of tiers
  MaxFixes,  \* bound: fixes an agent proposes
  MaxActs,   \* bound: requests of the console and sweeps that are fired
  MaxFaults, \* bound: calls that fail and processes that die
  MaxEvents  \* bound: all of these together

ASSUME ControlPlaneAssumption ==
  {MaxFixes, MaxActs, MaxFaults, MaxEvents} \subseteq Nat /\ Tiers # {}

VARIABLES
  row,       \* the row of engine_settings: "none", "on" or "off"
  schedule,  \* the self-heal schedule, and the run it fired last
  switch,    \* who is at work on the switch, and where
  table,     \* the committed rows of the tier table: a tier, and the write it is of
  tx,        \* the transactions of PUT /api/tiers
  worker,    \* where the worker process is
  tiers,     \* its copy of the tier table
  load,      \* a refresh that has read the table and not stored it yet
  run,       \* the platform runs
  acts, faults,
  crossed,   \* history: since a writer of the switch worked through alone, some have
             \* overlapped, one has broken off, or a GET has seeded the row
  mixed      \* history: the same of the tier table

heal == <<row, schedule, switch, crossed>>
tiering == <<table, tx, mixed>>
copy == <<tiers, load>>
vars == <<heal, tiering, copy, worker, run, acts, faults>>

Worker == "worker"
Writers == Puts \cup {Worker}
Runs == 1..MaxActs

Rest == [at |-> "idle", wants |-> "on", solo |-> TRUE]
NoTx == [at |-> "idle", id |-> 0, seen |-> {}, dead |-> {}, names |-> {}, solo |-> TRUE]
NoLoad == [reads |-> FALSE, rows |-> {}]
NoRun == [at |-> "none", calls |-> 0, fixes |-> 0, scratch |-> FALSE, error |-> "none",
          first |-> "none", uncleaned |-> FALSE]
Rows(id, names) == {<<t, id>> : t \in names}
Defaults == Rows(0, Tiers)

Init ==
  /\ row = "none" /\ schedule = [exists |-> FALSE, last |-> 0]
  /\ switch = [w \in Writers |-> Rest] /\ crossed = FALSE
  /\ table = {} /\ tx = [r \in Puts |-> NoTx] /\ mixed = FALSE
  /\ worker = "down" /\ tiers = {} /\ load = NoLoad
  /\ run = [n \in Runs |-> NoRun]
  /\ acts = 0 /\ faults = 0

Fault == faults < MaxFaults /\ acts + faults < MaxEvents /\ faults' = faults + 1
NoFault == UNCHANGED faults
Act == acts < MaxActs /\ acts + faults < MaxEvents /\ acts' = acts + 1

(***************************************************************************)
(* The switch: PUT /api/settings/self-heal seeds the row, writes it and    *)
(* applies it to the schedule; a booting worker seeds it, reads it and     *)
(* applies it.  Nothing holds the row and the schedule together.           *)
(***************************************************************************)
Busy(w) == switch[w].at # "idle"
Moves(w, at) == switch' = [switch EXCEPT ![w].at = at]
Leaves(w) == switch' = [switch EXCEPT ![w] = Rest]

Enters(w, wants) ==
  LET alone == \A other \in Writers : ~Busy(other) IN
  /\ ~Busy(w)
  /\ switch' = [v \in Writers |->
       IF v = w THEN [at |-> "seed", wants |-> wants, solo |-> alone]
       ELSE [switch[v] EXCEPT !.solo = @ /\ ~Busy(v)]]
  /\ crossed' = (crossed \/ ~alone)

handleUpdateSelfHealSettings(r, wants) ==
  /\ Act /\ Enters(r, wants)
  /\ UNCHANGED <<row, schedule, tiering, copy, worker, run, faults>>

\* A GET seeds the row as well, and the schedule stays as it is; it changes nothing
\* where the row is there.
handleGetSelfHealSettings ==
  /\ Act /\ row = "none"
  /\ row' = "on" /\ crossed' = TRUE
  /\ UNCHANGED <<schedule, switch, tiering, copy, worker, run, faults>>

SeedLooks(w) ==
  /\ switch[w].at = "seed"
  /\ Moves(w, IF row = "none" THEN "insert" ELSE "write")
  /\ UNCHANGED <<row, schedule, crossed, tiering, copy, worker, run, acts, faults>>

\* There is one row at most: the second insert fails.
SeedInserts(w) ==
  /\ switch[w].at = "insert"
  /\ IF row = "none" THEN row' = "on" /\ Moves(w, "write") ELSE Leaves(w) /\ UNCHANGED row
  /\ UNCHANGED <<schedule, crossed, tiering, copy, worker, run, acts, faults>>

\* A PUT writes what it wants; what the worker wants is what it reads.
setSelfHeal(w) ==
  /\ switch[w].at = "write"
  /\ IF w = Worker
     THEN switch' = [switch EXCEPT ![w].at = "ensure", ![w].wants = row] /\ UNCHANGED row
     ELSE row' = switch[w].wants /\ Moves(w, "ensure")
  /\ UNCHANGED <<schedule, crossed, tiering, copy, worker, run, acts, faults>>

\* (Off is what it is when nothing was ever created.)
Applied_NeverDeletes(wants) == [schedule EXCEPT !.exists = @ \/ wants = "on"]

\* A schedule that is there already stays as it is.
Applied(wants) ==
  IF wants = "on" THEN [schedule EXCEPT !.exists = TRUE] ELSE [exists |-> FALSE, last |-> 0]

ensureSelfHealSchedule(w) ==
  /\ switch[w].at = "ensure"
  /\ schedule' = Applied(switch[w].wants)
  /\ Leaves(w) /\ crossed' = (crossed /\ ~switch[w].solo)
  /\ UNCHANGED <<row, tiering, copy, worker, run, acts, faults>>

\* A statement or a call fails; a PUT is answered with 500, a worker boots on.
SwitchFails(w) ==
  /\ Busy(w) /\ Fault
  /\ Leaves(w) /\ crossed' = TRUE
  /\ UNCHANGED <<row, schedule, tiering, copy, worker, run, acts>>

(***************************************************************************)
(* The tier table under READ COMMITTED.  A DELETE sees the rows that are   *)
(* committed when it starts and waits for who is deleting them; an INSERT  *)
(* waits for who is inserting or deleting its key, and fails when the key  *)
(* is there.                                                               *)
(***************************************************************************)
Open(r) == tx[r].at # "idle"
Seeding == worker = "seeding"
Keys(rows) == {x[1] : x \in rows}

handleReplaceTiers(r, names) ==
  LET alone == ~Seeding /\ \A s \in Puts : ~Open(s) IN
  /\ Act /\ ~Open(r) /\ names # {}
  /\ tx' = [s \in Puts |->
       IF s = r THEN [at |-> "deleting", id |-> acts + 1, seen |-> table, dead |-> {},
                      names |-> names, solo |-> alone]
       ELSE [tx[s] EXCEPT !.solo = @ /\ ~Open(s)]]
  /\ mixed' = (mixed \/ ~alone)
  /\ UNCHANGED <<table, heal, copy, worker, run, faults>>

\* (Each statement is a transaction of its own.)
DeleteRows_Commits(r) ==
  /\ tx[r].at = "deleting"
  /\ tx' = [tx EXCEPT ![r].at = "inserting"]
  /\ table' = table \ tx[r].seen
  /\ UNCHANGED <<mixed, heal, copy, worker, run, acts, faults>>

DeleteRows(r) ==
  /\ tx[r].at = "deleting"
  /\ \A s \in Puts \ {r} : tx[s].dead \cap tx[r].seen = {}
  /\ tx' = [tx EXCEPT ![r].at = "inserting", ![r].dead = tx[r].seen \cap table]
  /\ UNCHANGED <<table, mixed, heal, copy, worker, run, acts, faults>>

\* Nobody else has an insert or a delete of these keys open.
KeysAreFree(names, others) ==
  \A s \in others :
    /\ tx[s].at = "inserted" => tx[s].names \cap names = {}
    /\ Keys(tx[s].dead) \cap names = {}

InsertRows(r) ==
  /\ tx[r].at = "inserting" /\ KeysAreFree(tx[r].names, Puts \ {r})
  /\ tx' = [tx EXCEPT ![r] = IF Keys(table \ tx[r].dead) \cap tx[r].names = {}
                             THEN [@ EXCEPT !.at = "inserted"] ELSE NoTx]
  /\ UNCHANGED <<table, mixed, heal, copy, worker, run, acts, faults>>

CommitRows(r) ==
  /\ tx[r].at = "inserted"
  /\ table' = (table \ tx[r].dead) \cup Rows(tx[r].id, tx[r].names)
  /\ tx' = [tx EXCEPT ![r] = NoTx]
  /\ mixed' = (mixed /\ ~tx[r].solo)
  /\ UNCHANGED <<heal, copy, worker, run, acts, faults>>

RollBack(r) ==
  /\ Open(r) /\ Fault
  /\ tx' = [tx EXCEPT ![r] = NoTx]
  /\ UNCHANGED <<table, mixed, heal, copy, worker, run, acts>>

(***************************************************************************)
(* The worker: it seeds an empty table row by row, reads it, applies the   *)
(* switch, and then reads the table every minute.                          *)
(***************************************************************************)
seedIfEmpty ==
  LET alone == \A s \in Puts : ~Open(s) IN
  /\ worker = "down"
  /\ IF table = {}
     THEN /\ worker' = "seeding" /\ mixed' = (mixed \/ ~alone)
          /\ tx' = [s \in Puts |-> [tx[s] EXCEPT !.solo = @ /\ ~Open(s)]]
     ELSE worker' = "loading" /\ UNCHANGED <<mixed, tx>>
  /\ UNCHANGED <<table, heal, copy, run, acts, faults>>

\* A tier that somebody else has written ends the boot.
SeedTier(t) ==
  /\ Seeding /\ <<t, 0>> \notin table /\ KeysAreFree({t}, Puts)
  /\ IF t \in Keys(table)
     THEN worker' = "down" /\ mixed' = TRUE /\ UNCHANGED table
     ELSE table' = table \cup {<<t, 0>>} /\ UNCHANGED <<worker, mixed>>
  /\ UNCHANGED <<tx, heal, copy, run, acts, faults>>

SeedEnds ==
  /\ Seeding /\ Defaults \subseteq table
  /\ worker' = "loading"
  /\ UNCHANGED <<tiering, heal, copy, run, acts, faults>>

\* The first refresh; where it fails, the defaults of the code are kept.
FirstRefresh ==
  /\ worker = "loading"
  /\ \/ tiers' = table /\ NoFault
     \/ tiers' = Defaults /\ Fault
  /\ worker' = "switching"
  /\ Enters(Worker, "on")
  /\ UNCHANGED <<row, schedule, tiering, load, run, acts>>

BootEnds ==
  /\ worker = "switching" /\ ~Busy(Worker)
  /\ worker' = "up"
  /\ UNCHANGED <<tiering, heal, copy, run, acts, faults>>

\* (Only at boot.)
RefreshReads_Never ==
  /\ worker = "up" /\ tiers = {}
  /\ load' = [reads |-> TRUE, rows |-> table]
  /\ UNCHANGED <<tiers, tiering, heal, worker, run, acts, faults>>

RefreshReads ==
  /\ worker = "up" /\ ~load.reads
  /\ load' = [reads |-> TRUE, rows |-> table]
  /\ UNCHANGED <<tiers, tiering, heal, worker, run, acts, faults>>

RefreshStores ==
  /\ worker = "up" /\ load.reads
  /\ \/ tiers' = load.rows /\ NoFault
     \/ UNCHANGED tiers /\ Fault
  /\ load' = NoLoad
  /\ UNCHANGED <<tiering, heal, worker, run, acts>>

WorkerDies ==
  /\ worker # "down" /\ Fault
  /\ worker' = "down" /\ tiers' = {} /\ load' = NoLoad
  /\ switch' = [switch EXCEPT ![Worker] = Rest]
  /\ crossed' = (crossed \/ Busy(Worker)) /\ mixed' = (mixed \/ Seeding)
  /\ UNCHANGED <<row, schedule, table, tx, run, acts>>

(***************************************************************************)
(* Platform runs: fired by the schedule, which skips while the run it      *)
(* fired last is open, or started from the console.                        *)
(***************************************************************************)
Over(n) == run[n].at = "over"
Goes(n, at) == run' = [run EXCEPT ![n].at = at]
\* first is the error the run really met first; uncleaned is whether its cleanup has
\* failed.
Met(n, error) == IF run[n].first = "none" THEN error ELSE run[n].first

selfHeal ==
  /\ Act /\ schedule.exists
  /\ schedule.last \in {0} \cup {n \in Runs : Over(n)}
  /\ schedule' = [schedule EXCEPT !.last = acts + 1]
  /\ run' = [run EXCEPT ![acts + 1].at = "prepare"]
  /\ UNCHANGED <<row, switch, crossed, tiering, copy, worker, faults>>

handleStartRun ==
  /\ Act
  /\ run' = [run EXCEPT ![acts + 1].at = "prepare"]
  /\ UNCHANGED <<heal, tiering, copy, worker, faults>>

Rests == UNCHANGED <<heal, tiering, copy, worker, acts>>

\* An answer that is lost once too often may leave the directory.
PrepareScratch(n) ==
  /\ worker = "up" /\ run[n].at = "prepare"
  /\ \/ run' = [run EXCEPT ![n].at = "agent", ![n].scratch = TRUE] /\ NoFault
     \/ /\ \E left \in BOOLEAN :
             run' = [run EXCEPT ![n].at = "over", ![n].error = "prepare", ![n].first = "prepare",
                                ![n].scratch = left]
        /\ Fault
  /\ Rests

\* MAX_RESULT_CALLS is two; a run whose output says nothing ends without fixes.
Agent(n) ==
  /\ worker = "up" /\ run[n].at = "agent"
  /\ \/ /\ \E k \in 0..MaxFixes : run' = [run EXCEPT ![n].at = "cleanup", ![n].fixes = k]
        /\ NoFault
     \/ /\ run' = [run EXCEPT ![n].calls = @ + 1, ![n].at = IF run[n].calls = 1 THEN "cleanup" ELSE "agent"]
        /\ NoFault
     \/ /\ run' = [run EXCEPT ![n].at = "cleanup", ![n].error = "agent", ![n].first = "agent"]
        /\ Fault
  /\ Rests

\* (What the finally block throws replaces what the body threw.)
Raised_Last(n) == "cleanup"

Raised(n) == IF run[n].error = "none" THEN "cleanup" ELSE run[n].error

CleanupScratch(n) ==
  /\ worker = "up" /\ run[n].at = "cleanup"
  /\ \/ /\ run' = [run EXCEPT ![n].scratch = FALSE,
                              ![n].at = IF run[n].error = "none" THEN "fixes" ELSE "over"]
        /\ NoFault
     \/ /\ run' = [run EXCEPT ![n].at = "over", ![n].error = Raised(n), ![n].first = Met(n, "cleanup"),
                              ![n].uncleaned = TRUE]
        /\ Fault
  /\ Rests

\* A fix of a repository nobody registered is skipped; the others are one devCycle
\* each, waited for, and the first that fails ends the run.
Fix(n) ==
  /\ worker = "up" /\ run[n].at = "fixes" /\ run[n].fixes > 0
  /\ \/ run' = [run EXCEPT ![n].fixes = @ - 1] /\ NoFault
     \/ run' = [run EXCEPT ![n].at = "over", ![n].error = "fix", ![n].first = "fix"] /\ Fault
  /\ Rests

RunEnds(n) ==
  /\ run[n].at = "fixes" /\ run[n].fixes = 0
  /\ Goes(n, "over")
  /\ NoFault /\ Rests

Switches(w) ==
  SeedLooks(w) \/ SeedInserts(w) \/ setSelfHeal(w) \/ ensureSelfHealSchedule(w)
Writes(r) == DeleteRows(r) \/ InsertRows(r) \/ CommitRows(r)
Boots ==
  \/ seedIfEmpty \/ SeedEnds \/ FirstRefresh \/ BootEnds
  \/ \E t \in Tiers : SeedTier(t)
Refreshes == RefreshReads \/ RefreshStores
Platform(n) == PrepareScratch(n) \/ Agent(n) \/ CleanupScratch(n) \/ Fix(n) \/ RunEnds(n)

Next ==
  \/ \E r \in Puts :
       \/ \E wants \in {"on", "off"} : handleUpdateSelfHealSettings(r, wants)
       \/ \E names \in SUBSET Tiers : handleReplaceTiers(r, names)
       \/ Writes(r) \/ RollBack(r)
  \/ handleGetSelfHealSettings
  \/ \E w \in Writers : Switches(w) \/ SwitchFails(w)
  \/ Boots \/ Refreshes \/ WorkerDies
  \/ selfHeal \/ handleStartRun
  \/ \E n \in Runs : Platform(n)
Spec == Init /\ [][Next]_vars

\* Processes and the database go on, Kubernetes boots the worker again, timers fire,
\* and the workflow code of a run goes on.
Fairness ==
  /\ \A w \in Writers : WF_vars(Switches(w))
  /\ \A r \in Puts : WF_vars(Writes(r))
  /\ WF_vars(Boots) /\ WF_vars(Refreshes)
  /\ \A n \in Runs : WF_vars(Platform(n))
FairSpec == Spec /\ Fairness

(***************************************************************************)
(* Properties.                                                             *)
(***************************************************************************)
\* The self-heal schedule is what the switch says, once the last to touch either
\* has worked through alone, be it a PUT or a worker that booted after one; a GET
\* that seeds the row breaks it until then.
\* (handleUpdateSelfHealSettings, ensureSelfHealSchedule, main)
SwitchIsObeyed ==
  (\A w \in Writers : ~Busy(w)) /\ ~crossed => (schedule.exists <=> row = "on")

\* The tier table is the defaults or what one request wrote, never a part of it,
\* unless writers have overlapped or a seed has broken off; and a worker that is up
\* never has an empty copy. (PostgresTierStore, buildGlobalTiers)
TiersAreWhole ==
  /\ ~mixed /\ ~Seeding =>
       \/ table \in {{}, Defaults}
       \/ \E id \in 1..acts, names \in SUBSET Tiers : table = Rows(id, names)
  /\ worker = "up" => tiers # {}

\* A run tells the failure it met first, not the one its cleanup met afterwards, and
\* whatever it met, its scratch workspace stays only where the cleanup itself has
\* failed, or the preparation, which is outside the try (platform.ts:35, 79-94).
RunsEndHonestly ==
  \A n \in Runs : Over(n) =>
    /\ run[n].error = run[n].first
    /\ run[n].scratch => run[n].uncleaned \/ run[n].first = "prepare"

\* What is in the tier table reaches the worker in the end, though refreshes fail and
\* workers die. (buildGlobalTiers)
TiersReachTheWorker == <>[](worker = "up" => tiers = table)
=============================================================================
