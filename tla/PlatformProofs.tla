----------------------------- MODULE PlatformProofs -----------------------------
(* What runs the platform itself: the switch, the tier table and the platform    *)
(* runs of ControlPlane, and the conversation of PlatformChat.                   *)
EXTENDS ControlPlane, PlatformChat, TLAPS

(***************************************************************************)
(* The control plane, for every set of requests, tiers, fixes and faults.  *)
(* The three parts share only their counters, and each has its own         *)
(* invariant.                                                              *)
(***************************************************************************)

(***************************************************************************)
(* The inductive invariant.                                                *)
(***************************************************************************)
Failures == {"none", "prepare", "agent", "fix", "cleanup"}
RunType ==
  [at : {"none", "prepare", "agent", "cleanup", "fixes", "over"}, calls : Nat, fixes : 0..MaxFixes,
   scratch : BOOLEAN, error : Failures, first : Failures, uncleaned : BOOLEAN]
WriterType ==
  [at : {"idle", "seed", "insert", "write", "ensure"}, wants : {"on", "off"}, solo : BOOLEAN]
TxType ==
  [at : {"idle", "deleting", "inserting", "inserted"}, id : Nat, seen : SUBSET (Tiers \X Nat),
   dead : SUBSET (Tiers \X Nat), names : SUBSET Tiers, solo : BOOLEAN]

CountsOK == acts \in 0..MaxActs /\ faults \in 0..MaxFaults

\* A run that has not been cleaned up has no failure but one of its own, and only a
\* cleanup or a preparation that failed leaves the workspace of one that is over.
RunsOK ==
  /\ run \in [Runs -> RunType]
  /\ \A n \in Runs :
       /\ n > acts => run[n].at = "none"
       /\ run[n].error = run[n].first
       /\ run[n].at \in {"none", "prepare", "fixes"} => ~run[n].scratch
       /\ run[n].at \notin {"cleanup", "over"} => run[n].error = "none"
       /\ Over(n) /\ run[n].scratch => run[n].uncleaned \/ run[n].first = "prepare"

\* A writer of the switch that is solo has nobody beside it; without a crossing it
\* is solo, and what it wants is in the row when it applies it.
SwitchOK ==
  /\ row \in {"none", "on", "off"} /\ crossed \in BOOLEAN
  /\ schedule \in [exists : BOOLEAN, last : Nat]
  /\ switch \in [Writers -> WriterType]
  /\ \A w \in Writers :
       /\ switch[w].at \in {"write", "ensure"} => row # "none"
       /\ switch[w].at = "insert" /\ ~crossed => row = "none"
       /\ Busy(w) /\ ~crossed => switch[w].solo
       /\ Busy(w) /\ switch[w].solo =>
            /\ \A v \in Writers \ {w} : ~Busy(v)
            /\ switch[w].at = "ensure" => row = switch[w].wants
  /\ SwitchIsObeyed

\* An open transaction that is solo has nobody beside it, and has seen, and then
\* deleted, all of the table.
TxOK(r) ==
  Open(r) =>
    /\ tx[r].names # {} /\ tx[r].id \in 1..acts
    /\ ~mixed => tx[r].solo
    /\ tx[r].solo =>
         /\ ~Seeding /\ \A s \in Puts \ {r} : ~Open(s)
         /\ (IF tx[r].at = "deleting" THEN tx[r].seen ELSE tx[r].dead) = table

\* The table is the defaults or what one request wrote.
Whole ==
  \/ table \in {{}, Defaults}
  \/ \E id \in 1..acts, ns \in SUBSET Tiers : table = Rows(id, ns)

\* Once the worker has booted there is something in the table and in every copy of it.
TableOK ==
  /\ table \subseteq Tiers \X Nat /\ mixed \in BOOLEAN
  /\ tx \in [Puts -> TxType]
  /\ \A r \in Puts : TxOK(r)
  /\ ~mixed /\ Seeding => table \subseteq Defaults /\ \A r \in Puts : ~Open(r)
  /\ ~mixed /\ ~Seeding => Whole
  /\ worker \in {"loading", "switching", "up"} => table # {}
  /\ worker \in {"switching", "up"} => tiers # {}
  /\ load.reads => load.rows # {}

Inv == CountsOK /\ RunsOK /\ SwitchOK /\ TableOK

(***************************************************************************)
(* What the three parts share.                                             *)
(***************************************************************************)
\* The bounds are numbers.
LEMMA Bounds == MaxFixes \in Nat /\ MaxActs \in Nat /\ MaxFaults \in Nat /\ Tiers # {}
<1>. QED
  BY ControlPlaneAssumption

\* The counters grow by one at most, and within their bounds.
LEMMA CountsStep ==
  ASSUME CountsOK, [Next]_vars
  PROVE  CountsOK' /\ acts \in Nat /\ acts' \in {acts, acts + 1} /\ faults \in Nat /\ faults' \in {faults, faults + 1}
<1>. DEFINE A == acts' = acts \/ (acts < MaxActs /\ acts' = acts + 1)
            F == faults' = faults \/ (faults < MaxFaults /\ faults' = faults + 1)
<1>. SUFFICES A /\ F
  BY Bounds DEF CountsOK
<1>1. ASSUME NEW r \in Puts, NEW wants \in {"on", "off"}, handleUpdateSelfHealSettings(r, wants)
      PROVE  A /\ F
  BY <1>1 DEF handleUpdateSelfHealSettings, Act
<1>2. ASSUME NEW r \in Puts, NEW ns \in SUBSET Tiers, handleReplaceTiers(r, ns)
      PROVE  A /\ F
  BY <1>2 DEF handleReplaceTiers, Act
<1>3. ASSUME NEW r \in Puts, Writes(r) \/ RollBack(r)
      PROVE  A /\ F
  BY <1>3 DEF Writes, RollBack, DeleteRows, InsertRows, CommitRows, Fault
<1>4. ASSUME NEW w \in Writers, Switches(w) \/ SwitchFails(w)
      PROVE  A /\ F
  BY <1>4 DEF Switches, SwitchFails, SeedLooks, SeedInserts, setSelfHeal, ensureSelfHealSchedule, Fault
<1>5. CASE Boots
  <2>1. CASE FirstRefresh
    BY <2>1 DEF FirstRefresh, NoFault, Fault
  <2> QED
    BY <1>5, <2>1 DEF Boots, seedIfEmpty, SeedEnds, BootEnds, SeedTier
<1>6. CASE Refreshes \/ WorkerDies
  BY <1>6 DEF Refreshes, RefreshReads, RefreshStores, WorkerDies, NoFault, Fault
<1>7. CASE handleGetSelfHealSettings \/ selfHeal \/ handleStartRun
  BY <1>7 DEF handleGetSelfHealSettings, selfHeal, handleStartRun, Act
<1>8. ASSUME NEW n \in Runs, Platform(n)
      PROVE  A /\ F
  BY <1>8 DEF Platform, PrepareScratch, Agent, CleanupScratch, Fix, RunEnds, Rests, NoFault, Fault
<1>9. CASE UNCHANGED vars
  BY <1>9 DEF vars
<1> QED
  BY <1>1, <1>2, <1>3, <1>4, <1>5, <1>6, <1>7, <1>8, <1>9 DEF Next

(***************************************************************************)
(* The platform runs.                                                      *)
(***************************************************************************)
\* Runs are touched by their own steps and by what fires them.
LEMMA RunsElsewhere ==
  ASSUME [Next]_vars
  PROVE  run' = run \/ selfHeal \/ handleStartRun \/ \E n \in Runs : Platform(n)
<1>1. ASSUME NEW r \in Puts,
             \/ \E wants \in {"on", "off"} : handleUpdateSelfHealSettings(r, wants)
             \/ \E ns \in SUBSET Tiers : handleReplaceTiers(r, ns)
             \/ Writes(r) \/ RollBack(r)
      PROVE  run' = run
  BY <1>1 DEF handleUpdateSelfHealSettings, handleReplaceTiers, Writes, RollBack, DeleteRows, InsertRows,
              CommitRows
<1>2. ASSUME NEW w \in Writers, Switches(w) \/ SwitchFails(w)
      PROVE  run' = run
  BY <1>2 DEF Switches, SwitchFails, SeedLooks, SeedInserts, setSelfHeal, ensureSelfHealSchedule
<1>3. CASE Boots
  BY <1>3 DEF Boots, seedIfEmpty, SeedEnds, FirstRefresh, BootEnds, SeedTier
<1>4. CASE handleGetSelfHealSettings \/ Refreshes \/ WorkerDies \/ UNCHANGED vars
  BY <1>4 DEF handleGetSelfHealSettings, Refreshes, RefreshReads, RefreshStores, WorkerDies, vars
<1> QED
  BY <1>1, <1>2, <1>3, <1>4 DEF Next

\* A run that is fired was not there before.
LEMMA FiringKeepsRuns ==
  ASSUME CountsOK, RunsOK, selfHeal \/ handleStartRun
  PROVE  RunsOK'
<1>1. /\ run' = [run EXCEPT ![acts + 1].at = "prepare"] /\ acts' = acts + 1 /\ acts < MaxActs
      /\ faults' = faults
  BY DEF selfHeal, handleStartRun, Act
<1>2. acts \in Nat /\ acts + 1 \in Runs
  BY <1>1, Bounds DEF CountsOK, Runs
<1>3. run[acts + 1] \in RunType /\ run[acts + 1].at = "none"
  BY <1>2 DEF RunsOK
<1>. DEFINE x == [run[acts + 1] EXCEPT !.at = "prepare"]
<1>4. /\ x \in RunType /\ x.at = "prepare" /\ x.error = run[acts + 1].error /\ x.first = run[acts + 1].first
      /\ x.scratch = run[acts + 1].scratch
  BY <1>3 DEF RunType
<1>5. run' = [run EXCEPT ![acts + 1] = x]
  BY <1>1
<1>. HIDE DEF x
<1>6. run' \in [Runs -> RunType] /\ run'[acts + 1] = x /\ \A n \in Runs : n # acts + 1 => run'[n] = run[n]
  BY <1>2, <1>4, <1>5 DEF RunsOK
<1> QED
  BY <1>1, <1>2, <1>3, <1>4, <1>6 DEF RunsOK, Runs, Over

\* Every step of a run: the body fails once, and the cleanup replaces nothing.
LEMMA PlatformKeepsRuns ==
  ASSUME CountsOK, RunsOK, NEW n \in Runs, Platform(n)
  PROVE  RunsOK'
<1>. DEFINE old == run[n]
<1>1. old \in RunType /\ acts' = acts /\ acts \in Nat /\ faults \in Nat /\ old.error = old.first
      /\ (faults' = faults \/ (Fault /\ faults' = faults + 1))
  BY DEF RunsOK, CountsOK, Platform, PrepareScratch, Agent, CleanupScratch, Fix, RunEnds, Rests, NoFault, Fault
<1>2. ASSUME NEW x \in RunType, run' = [run EXCEPT ![n] = x], n <= acts \/ old.at = "none",
             old.at # "none", x.at # "none", x.error = x.first,
             x.at \in {"prepare", "fixes"} => ~x.scratch,
             x.at \notin {"cleanup", "over"} => x.error = "none",
             x.at = "over" /\ x.scratch => x.uncleaned \/ x.first = "prepare"
      PROVE  RunsOK'
  <2>1. run' \in [Runs -> RunType] /\ run'[n] = x /\ \A m \in Runs : m # n => run'[m] = run[m]
    BY <1>2 DEF RunsOK
  <2> QED
    BY <1>1, <1>2, <2>1 DEF RunsOK, Over, Runs
<1>3. old.at # "none" => n <= acts
  BY <1>1 DEF RunsOK, Runs
<1>4. CASE PrepareScratch(n)
  <2>1. old.at = "prepare" /\ old.error = "none" /\ old.first = "none" /\ ~old.scratch
    BY <1>1, <1>4 DEF RunsOK, PrepareScratch
  <2>2. CASE run' = [run EXCEPT ![n].at = "agent", ![n].scratch = TRUE]
    <3>. DEFINE x == [old EXCEPT !.at = "agent", !.scratch = TRUE]
    <3>1. x \in RunType /\ x.at = "agent" /\ x.error = old.error /\ x.first = old.first
      BY <1>1 DEF RunType
    <3>2. run' = [run EXCEPT ![n] = x]
      BY <2>2
    <3>. HIDE DEF x
    <3> QED
      BY <1>2, <1>3, <2>1, <3>1, <3>2
  <2>3. ASSUME NEW left \in BOOLEAN,
               run' = [run EXCEPT ![n].at = "over", ![n].error = "prepare", ![n].first = "prepare", ![n].scratch = left]
        PROVE  RunsOK'
    <3>. DEFINE x == [old EXCEPT !.at = "over", !.error = "prepare", !.first = "prepare", !.scratch = left]
    <3>1. x \in RunType /\ x.at = "over" /\ x.error = "prepare" /\ x.first = "prepare"
      BY <1>1 DEF RunType, Failures
    <3>2. run' = [run EXCEPT ![n] = x]
      BY <2>3
    <3>. HIDE DEF x
    <3> QED
      BY <1>2, <1>3, <2>1, <3>1, <3>2
  <2> QED
    BY <1>4, <2>2, <2>3 DEF PrepareScratch
<1>5. CASE Agent(n)
  <2>1. old.at = "agent" /\ old.error = "none" /\ old.first = "none"
    BY <1>1, <1>5 DEF RunsOK, Agent
  <2>2. ASSUME NEW k \in 0..MaxFixes, run' = [run EXCEPT ![n].at = "cleanup", ![n].fixes = k]
        PROVE  RunsOK'
    <3>. DEFINE x == [old EXCEPT !.at = "cleanup", !.fixes = k]
    <3>1. x \in RunType /\ x.at = "cleanup" /\ x.error = old.error /\ x.first = old.first
      BY <1>1 DEF RunType
    <3>2. run' = [run EXCEPT ![n] = x]
      BY <2>2
    <3>. HIDE DEF x
    <3> QED
      BY <1>2, <1>3, <2>1, <3>1, <3>2
  <2>3. CASE run' = [run EXCEPT ![n].calls = @ + 1, ![n].at = IF run[n].calls = 1 THEN "cleanup" ELSE "agent"]
    <3>. DEFINE where == IF run[n].calls = 1 THEN "cleanup" ELSE "agent"
                x == [old EXCEPT !.calls = old.calls + 1, !.at = where]
    <3>1. where \in {"cleanup", "agent"}
      OBVIOUS
    <3>2. run' = [run EXCEPT ![n] = x]
      BY <2>3
    <3>. HIDE DEF where
    <3>3. old.calls + 1 \in Nat
      BY <1>1 DEF RunType
    <3>4. x \in RunType /\ x.at = where /\ x.error = old.error /\ x.first = old.first
      BY <1>1, <3>1, <3>3 DEF RunType
    <3>. HIDE DEF x
    <3> QED
      BY <1>2, <1>3, <2>1, <3>1, <3>2, <3>4
  <2>4. CASE run' = [run EXCEPT ![n].at = "cleanup", ![n].error = "agent", ![n].first = "agent"]
    <3>. DEFINE x == [old EXCEPT !.at = "cleanup", !.error = "agent", !.first = "agent"]
    <3>1. x \in RunType /\ x.at = "cleanup" /\ x.error = "agent" /\ x.first = "agent"
      BY <1>1 DEF RunType, Failures
    <3>2. run' = [run EXCEPT ![n] = x]
      BY <2>4
    <3>. HIDE DEF x
    <3> QED
      BY <1>2, <1>3, <2>1, <3>1, <3>2
  <2> QED
    BY <1>5, <2>2, <2>3, <2>4 DEF Agent
<1>6. CASE CleanupScratch(n)
  <2>1. old.at = "cleanup"
    BY <1>6 DEF CleanupScratch
  <2>2. CASE run' = [run EXCEPT ![n].scratch = FALSE,
                                ![n].at = IF run[n].error = "none" THEN "fixes" ELSE "over"]
    <3>. DEFINE where == IF run[n].error = "none" THEN "fixes" ELSE "over"
                x == [old EXCEPT !.scratch = FALSE, !.at = where]
    <3>1. where \in {"fixes", "over"} /\ (where = "fixes" => old.error = "none")
      OBVIOUS
    <3>2. run' = [run EXCEPT ![n] = x]
      BY <2>2
    <3>. HIDE DEF where
    <3>3. x \in RunType /\ x.at = where /\ x.error = old.error /\ x.first = old.first /\ ~x.scratch
      BY <1>1, <3>1 DEF RunType
    <3>. HIDE DEF x
    <3> QED
      BY <1>1, <1>2, <1>3, <2>1, <3>1, <3>2, <3>3
  <2>3. CASE run' = [run EXCEPT ![n].at = "over", ![n].error = Raised(n), ![n].first = Met(n, "cleanup"),
                                ![n].uncleaned = TRUE]
    <3>. DEFINE e == IF old.error = "none" THEN "cleanup" ELSE old.error
                x == [old EXCEPT !.at = "over", !.error = e, !.first = e, !.uncleaned = TRUE]
    <3>1. e \in Failures \ {"none"} /\ Raised(n) = e /\ Met(n, "cleanup") = e
      BY <1>1 DEF RunType, Failures, Raised, Met
    <3>2. run' = [run EXCEPT ![n] = x]
      BY <2>3, <3>1
    <3>. HIDE DEF e
    <3>3. x \in RunType /\ x.at = "over" /\ x.error = e /\ x.first = e /\ x.uncleaned
      BY <1>1, <3>1 DEF RunType
    <3>. HIDE DEF x
    <3> QED
      BY <1>2, <1>3, <2>1, <3>1, <3>2, <3>3
  <2> QED
    BY <1>6, <2>2, <2>3 DEF CleanupScratch
<1>7. CASE Fix(n)
  <2>1. old.at = "fixes" /\ old.error = "none" /\ old.first = "none" /\ ~old.scratch /\ old.fixes > 0
    BY <1>1, <1>7 DEF RunsOK, Fix
  <2>2. CASE run' = [run EXCEPT ![n].fixes = @ - 1]
    <3>. DEFINE x == [old EXCEPT !.fixes = old.fixes - 1]
    <3>1. old.fixes - 1 \in 0..MaxFixes
      BY <1>1, <2>1, Bounds DEF RunType
    <3>2. x \in RunType /\ x.at = "fixes" /\ x.error = old.error /\ x.first = old.first /\ x.scratch = old.scratch
      BY <1>1, <2>1, <3>1 DEF RunType
    <3>3. run' = [run EXCEPT ![n] = x]
      BY <2>2
    <3>. HIDE DEF x
    <3> QED
      BY <1>2, <1>3, <2>1, <3>2, <3>3
  <2>3. CASE run' = [run EXCEPT ![n].at = "over", ![n].error = "fix", ![n].first = "fix"]
    <3>. DEFINE x == [old EXCEPT !.at = "over", !.error = "fix", !.first = "fix"]
    <3>1. x \in RunType /\ x.at = "over" /\ x.error = "fix" /\ x.first = "fix" /\ x.scratch = old.scratch
      BY <1>1 DEF RunType, Failures
    <3>2. run' = [run EXCEPT ![n] = x]
      BY <2>3
    <3>. HIDE DEF x
    <3> QED
      BY <1>2, <1>3, <2>1, <3>1, <3>2
  <2> QED
    BY <1>7, <2>2, <2>3 DEF Fix
<1>8. CASE RunEnds(n)
  <2>1. old.at = "fixes" /\ ~old.scratch
    BY <1>8 DEF RunsOK, RunEnds
  <2>. DEFINE x == [old EXCEPT !.at = "over"]
  <2>2. x \in RunType /\ x.at = "over" /\ x.error = old.error /\ x.first = old.first /\ x.scratch = old.scratch
    BY <1>1 DEF RunType
  <2>3. run' = [run EXCEPT ![n] = x]
    BY <1>8 DEF RunEnds, Goes
  <2>. HIDE DEF x
  <2> QED
    BY <1>1, <1>2, <1>3, <2>1, <2>2, <2>3
<1> QED
  BY <1>4, <1>5, <1>6, <1>7, <1>8 DEF Platform

\* Every step keeps what is known of the runs.
LEMMA StepKeepsRuns ==
  ASSUME CountsOK, RunsOK, [Next]_vars
  PROVE  RunsOK'
<1>1. CASE run' = run
  BY <1>1, CountsStep DEF RunsOK, Over, Runs
<1> QED
  BY <1>1, RunsElsewhere, FiringKeepsRuns, PlatformKeepsRuns

(***************************************************************************)
(* The switch.                                                             *)
(***************************************************************************)
\* A writer that enters finds itself alone, or what it crosses is noted.
LEMMA EnteringKeepsSwitch ==
  ASSUME SwitchOK, NEW w \in Writers, NEW wants \in {"on", "off"}, Enters(w, wants), row' = row,
         schedule' = schedule
  PROVE  SwitchOK'
<1>. DEFINE alone == \A other \in Writers : ~Busy(other)
            rest(v) == [switch[v] EXCEPT !.solo = @ /\ ~Busy(v)]
            new == [at |-> "seed", wants |-> wants, solo |-> alone]
<1>1. /\ ~Busy(w) /\ switch' = [v \in Writers |-> IF v = w THEN new ELSE rest(v)]
      /\ crossed' = (crossed \/ ~alone)
  BY DEF Enters
<1>2. alone \in BOOLEAN
  OBVIOUS
<1>3. new \in WriterType /\ new.at = "seed" /\ new.solo = alone
  BY <1>2 DEF WriterType
<1>4. ASSUME NEW v \in Writers
      PROVE  /\ rest(v) \in WriterType /\ rest(v).at = switch[v].at /\ rest(v).wants = switch[v].wants
             /\ rest(v).solo = (switch[v].solo /\ ~Busy(v))
  <2>1. switch[v] \in WriterType /\ (switch[v].solo /\ ~Busy(v)) \in BOOLEAN
    BY DEF SwitchOK
  <2> QED
    BY <2>1 DEF WriterType
<1>5. crossed' \in BOOLEAN /\ (crossed' = FALSE => alone /\ crossed = FALSE)
  BY <1>1, <1>2 DEF SwitchOK
<1>. HIDE DEF new, rest
<1>6. switch'[w] = new /\ \A v \in Writers \ {w} : switch'[v] = rest(v)
  BY <1>1
<1>7. switch' \in [Writers -> WriterType]
  BY <1>1, <1>3, <1>4
<1>8. SwitchIsObeyed'
  BY <1>3, <1>6 DEF SwitchIsObeyed, Busy
<1>9. ASSUME NEW v \in Writers
      PROVE  /\ switch'[v].at \in {"write", "ensure"} => row' # "none"
             /\ switch'[v].at = "insert" /\ ~crossed' => row' = "none"
             /\ Busy(v)' /\ ~crossed' => switch'[v].solo
             /\ Busy(v)' /\ switch'[v].solo =>
                  /\ \A u \in Writers \ {v} : ~Busy(u)'
                  /\ switch'[v].at = "ensure" => row' = switch'[v].wants
  <2>1. CASE v = w
    <3>1. alone => \A u \in Writers \ {w} : ~Busy(u)'
      BY <1>4, <1>6 DEF Busy
    <3> QED
      BY <1>3, <1>5, <1>6, <2>1, <3>1
  <2>2. CASE v # w
    <3>1. switch'[v].at = switch[v].at /\ (Busy(v) => ~switch'[v].solo) /\ (Busy(v)' <=> Busy(v))
      BY <1>4, <1>6, <2>2 DEF Busy
    <3>2. Busy(v) => crossed' # FALSE
      BY <1>5
    <3>3. switch[v].at \in {"write", "ensure"} => row # "none"
      BY DEF SwitchOK
    <3> QED
      BY <1>5, <3>1, <3>2, <3>3 DEF Busy
  <2> QED
    BY <2>1, <2>2
<1> QED
  BY <1>5, <1>7, <1>8, <1>9 DEF SwitchOK

\* A writer goes on to its next statement, and may have set the row by this one.
LEMMA MovingKeepsSwitch ==
  ASSUME SwitchOK, NEW w \in Writers, NEW x \in WriterType, Busy(w), switch' = [switch EXCEPT ![w] = x],
         schedule' = schedule, crossed' = crossed, row' = row \/ row' \in {"on", "off"},
         x.at # "idle", x.solo = switch[w].solo,
         x.at \in {"write", "ensure"} => row' # "none",
         x.at = "insert" => row' = "none",
         x.at = "ensure" => row' = x.wants
  PROVE  SwitchOK'
<1>1. switch'[w] = x /\ \A v \in Writers \ {w} : switch'[v] = switch[v]
  BY DEF SwitchOK
<1>2. switch' \in [Writers -> WriterType] /\ row' \in {"none", "on", "off"} /\ crossed' \in BOOLEAN
      /\ schedule' \in [exists : BOOLEAN, last : Nat]
  BY DEF SwitchOK
<1>3. SwitchIsObeyed'
  BY <1>1 DEF SwitchIsObeyed, Busy
<1>4. ASSUME NEW v \in Writers
      PROVE  /\ switch'[v].at \in {"write", "ensure"} => row' # "none"
             /\ switch'[v].at = "insert" /\ ~crossed' => row' = "none"
             /\ Busy(v)' /\ ~crossed' => switch'[v].solo
             /\ Busy(v)' /\ switch'[v].solo =>
                  /\ \A u \in Writers \ {v} : ~Busy(u)'
                  /\ switch'[v].at = "ensure" => row' = switch'[v].wants
  <2>1. CASE v = w
    BY <1>1, <2>1 DEF SwitchOK, Busy
  <2>2. CASE v # w
    <3>1. Busy(v) => ~switch[v].solo /\ (crossed \/ switch[v].solo)
      BY <2>2 DEF SwitchOK
    <3> QED
      BY <1>1, <2>2, <3>1 DEF SwitchOK, Busy
  <2> QED
    BY <2>1, <2>2
<1> QED
  BY <1>2, <1>3, <1>4 DEF SwitchOK

\* A writer that leaves, done or broken off, takes nothing from the others.
LEMMA LeavingKeepsSwitch ==
  ASSUME SwitchOK, NEW w \in Writers, switch' = [switch EXCEPT ![w] = Rest], row' = row,
         schedule' \in [exists : BOOLEAN, last : Nat], crossed' \in BOOLEAN,
         ~crossed' => ~crossed \/ \A v \in Writers \ {w} : ~Busy(v),
         SwitchIsObeyed'
  PROVE  SwitchOK'
<1>1. Rest \in WriterType /\ Rest.at = "idle"
  BY DEF Rest, WriterType
<1>2. switch'[w].at = "idle" /\ \A v \in Writers \ {w} : switch'[v] = switch[v]
  BY <1>1 DEF SwitchOK
<1>3. switch' \in [Writers -> WriterType]
  BY <1>1 DEF SwitchOK
<1>4. ASSUME NEW v \in Writers
      PROVE  /\ switch'[v].at \in {"write", "ensure"} => row' # "none"
             /\ switch'[v].at = "insert" /\ ~crossed' => row' = "none"
             /\ Busy(v)' /\ ~crossed' => switch'[v].solo
             /\ Busy(v)' /\ switch'[v].solo =>
                  /\ \A u \in Writers \ {v} : ~Busy(u)'
                  /\ switch'[v].at = "ensure" => row' = switch'[v].wants
  <2>1. CASE v = w
    BY <1>2, <2>1 DEF Busy
  <2>2. CASE v # w
    BY <1>2, <2>2 DEF SwitchOK, Busy
  <2> QED
    BY <2>1, <2>2
<1> QED
  BY <1>3, <1>4 DEF SwitchOK

\* Every step of a writer of the switch.
LEMMA SwitchesKeepSwitch ==
  ASSUME SwitchOK, NEW w \in Writers, Switches(w) \/ SwitchFails(w)
  PROVE  SwitchOK'
<1>. DEFINE old == switch[w]
<1>1. old \in WriterType /\ row \in {"none", "on", "off"} /\ crossed \in BOOLEAN
      /\ schedule \in [exists : BOOLEAN, last : Nat]
  BY DEF SwitchOK
<1>2. CASE SeedLooks(w)
  <2>. DEFINE where == IF row = "none" THEN "insert" ELSE "write"
              x == [old EXCEPT !.at = where]
  <2>1. where \in {"insert", "write"} /\ (where = "insert" <=> row = "none")
    OBVIOUS
  <2>2. switch' = [switch EXCEPT ![w] = x] /\ row' = row /\ schedule' = schedule /\ crossed' = crossed /\ Busy(w)
    BY <1>2 DEF SeedLooks, Moves, Busy
  <2>. HIDE DEF where
  <2>3. x \in WriterType /\ x.at = where /\ x.solo = old.solo
    BY <1>1, <2>1 DEF WriterType
  <2>. HIDE DEF x
  <2> QED
    BY <2>1, <2>2, <2>3, MovingKeepsSwitch
<1>3. CASE SeedInserts(w)
  <2>1. CASE row = "none"
    <3>. DEFINE x == [old EXCEPT !.at = "write"]
    <3>1. switch' = [switch EXCEPT ![w] = x] /\ row' = "on" /\ schedule' = schedule /\ crossed' = crossed /\ Busy(w)
      BY <1>3, <2>1 DEF SeedInserts, Moves, Busy
    <3>2. x \in WriterType /\ x.at = "write" /\ x.solo = old.solo
      BY <1>1 DEF WriterType
    <3>. HIDE DEF x
    <3> QED
      BY <3>1, <3>2, MovingKeepsSwitch
  <2>2. CASE row # "none"
    <3>1. switch' = [switch EXCEPT ![w] = Rest] /\ row' = row /\ schedule' = schedule /\ crossed' = crossed
      BY <1>3, <2>2 DEF SeedInserts, Leaves
    <3>2. crossed
      BY <1>3, <2>2 DEF SeedInserts, SwitchOK
    <3>3. SwitchIsObeyed'
      BY <3>1, <3>2 DEF SwitchIsObeyed
    <3> QED
      BY <1>1, <3>1, <3>2, <3>3, LeavingKeepsSwitch
  <2> QED
    BY <2>1, <2>2
<1>4. CASE setSelfHeal(w)
  <2>1. old.at = "write" /\ row \in {"on", "off"} /\ Busy(w) /\ schedule' = schedule /\ crossed' = crossed
    BY <1>1, <1>4 DEF setSelfHeal, SwitchOK, Busy
  <2>2. CASE w = Worker
    <3>. DEFINE x == [old EXCEPT !.at = "ensure", !.wants = row]
    <3>1. x \in WriterType /\ x.at = "ensure" /\ x.solo = old.solo /\ x.wants = row
      BY <1>1, <2>1 DEF WriterType
    <3>2. switch' = [switch EXCEPT ![w] = x] /\ row' = row
      BY <1>4, <2>2 DEF setSelfHeal
    <3>. HIDE DEF x
    <3> QED
      BY <2>1, <3>1, <3>2, MovingKeepsSwitch
  <2>3. CASE w # Worker
    <3>. DEFINE x == [old EXCEPT !.at = "ensure"]
    <3>1. x \in WriterType /\ x.at = "ensure" /\ x.solo = old.solo /\ x.wants = old.wants
          /\ old.wants \in {"on", "off"}
      BY <1>1 DEF WriterType
    <3>2. switch' = [switch EXCEPT ![w] = x] /\ row' = old.wants
      BY <1>4, <2>3 DEF setSelfHeal, Moves
    <3>. HIDE DEF x
    <3> QED
      BY <2>1, <3>1, <3>2, MovingKeepsSwitch
  <2> QED
    BY <2>2, <2>3
<1>5. CASE ensureSelfHealSchedule(w)
  <2>1. /\ old.at = "ensure" /\ Busy(w) /\ schedule' = Applied(old.wants) /\ row' = row
        /\ switch' = [switch EXCEPT ![w] = Rest] /\ crossed' = (crossed /\ ~old.solo)
    BY <1>5 DEF ensureSelfHealSchedule, Leaves, Busy
  <2>2. /\ Applied(old.wants) \in [exists : BOOLEAN, last : Nat]
        /\ Applied(old.wants).exists <=> old.wants = "on"
    BY <1>1 DEF Applied
  <2>3. old.solo \in BOOLEAN /\ crossed' \in BOOLEAN
    BY <1>1, <2>1 DEF WriterType
  <2>4. ~crossed' => old.solo
    BY <1>1, <2>1, <2>3 DEF SwitchOK
  <2>5. old.solo => row = old.wants /\ \A v \in Writers \ {w} : ~Busy(v)
    BY <2>1 DEF SwitchOK
  <2>6. SwitchIsObeyed'
    BY <2>1, <2>2, <2>4, <2>5 DEF SwitchIsObeyed
  <2> QED
    BY <2>1, <2>2, <2>3, <2>4, <2>5, <2>6, LeavingKeepsSwitch
<1>6. CASE SwitchFails(w)
  <2>1. switch' = [switch EXCEPT ![w] = Rest] /\ row' = row /\ schedule' = schedule /\ crossed' = TRUE
    BY <1>6 DEF SwitchFails, Leaves
  <2>2. SwitchIsObeyed'
    BY <2>1 DEF SwitchIsObeyed
  <2> QED
    BY <1>1, <2>1, <2>2, LeavingKeepsSwitch
<1> QED
  BY <1>2, <1>3, <1>4, <1>5, <1>6 DEF Switches

\* A worker that dies leaves, and what it was at is noted.
LEMMA WorkerDiesKeepsSwitch ==
  ASSUME SwitchOK, WorkerDies
  PROVE  SwitchOK'
<1>1. /\ switch' = [switch EXCEPT ![Worker] = Rest] /\ row' = row /\ schedule' = schedule
      /\ crossed' = (crossed \/ Busy(Worker)) /\ Worker \in Writers
  BY DEF WorkerDies, Writers
<1>2. crossed \in BOOLEAN /\ crossed' \in BOOLEAN /\ (~crossed' => ~crossed /\ ~Busy(Worker))
      /\ schedule' \in [exists : BOOLEAN, last : Nat] /\ switch \in [Writers -> WriterType]
  BY <1>1 DEF SwitchOK
<1>3. (\A v \in Writers : ~Busy(v)') /\ ~crossed' => (\A v \in Writers : ~Busy(v)) /\ ~crossed
  BY <1>1, <1>2 DEF Busy
<1>4. SwitchIsObeyed'
  BY <1>1, <1>3 DEF SwitchOK, SwitchIsObeyed
<1> QED
  BY <1>1, <1>2, <1>4, LeavingKeepsSwitch

\* A GET that seeds the row is a crossing; a run that is fired does not touch the switch.
LEMMA ReadingAndFiringKeepSwitch ==
  ASSUME CountsOK, SwitchOK, handleGetSelfHealSettings \/ selfHeal
  PROVE  SwitchOK'
<1>1. CASE handleGetSelfHealSettings
  <2>1. row = "none" /\ row' = "on" /\ crossed' = TRUE /\ schedule' = schedule /\ switch' = switch
    BY <1>1 DEF handleGetSelfHealSettings
  <2>2. SwitchIsObeyed'
    BY <2>1 DEF SwitchIsObeyed
  <2> QED
    BY <2>1, <2>2 DEF SwitchOK, Busy
<1>2. CASE selfHeal
  <2>1. schedule' = [schedule EXCEPT !.last = acts + 1] /\ row' = row /\ switch' = switch /\ crossed' = crossed
    BY <1>2 DEF selfHeal
  <2>2. acts + 1 \in Nat
    BY Bounds DEF CountsOK
  <2>3. schedule' \in [exists : BOOLEAN, last : Nat] /\ schedule'.exists = schedule.exists
    BY <2>1, <2>2 DEF SwitchOK
  <2> QED
    BY <2>1, <2>3 DEF SwitchOK, SwitchIsObeyed, Busy
<1> QED
  BY <1>1, <1>2

\* Every step keeps what is known of the switch.
LEMMA StepKeepsSwitch ==
  ASSUME CountsOK, SwitchOK, [Next]_vars
  PROVE  SwitchOK'
<1>1. ASSUME row' = row, schedule' = schedule, switch' = switch, crossed' = crossed
      PROVE  SwitchOK'
  BY <1>1 DEF SwitchOK, SwitchIsObeyed, Busy
<1>2. ASSUME NEW r \in Puts, NEW wants \in {"on", "off"}, handleUpdateSelfHealSettings(r, wants)
      PROVE  SwitchOK'
  <2>1. Enters(r, wants) /\ row' = row /\ schedule' = schedule /\ r \in Writers
    BY <1>2 DEF handleUpdateSelfHealSettings, Writers
  <2> QED
    BY <2>1, EnteringKeepsSwitch
<1>3. ASSUME NEW r \in Puts, (\E ns \in SUBSET Tiers : handleReplaceTiers(r, ns)) \/ Writes(r) \/ RollBack(r)
      PROVE  SwitchOK'
  BY <1>1, <1>3 DEF handleReplaceTiers, Writes, RollBack, DeleteRows, InsertRows, CommitRows, heal
<1>4. ASSUME Boots
      PROVE  SwitchOK'
  <2>1. CASE FirstRefresh
    <3>1. Enters(Worker, "on") /\ row' = row /\ schedule' = schedule /\ Worker \in Writers
      BY <2>1 DEF FirstRefresh, Writers
    <3> QED
      BY <3>1, EnteringKeepsSwitch
  <2>2. CASE seedIfEmpty \/ SeedEnds \/ BootEnds \/ \E t \in Tiers : SeedTier(t)
    BY <1>1, <2>2 DEF seedIfEmpty, SeedEnds, BootEnds, SeedTier, heal
  <2> QED
    BY <1>4, <2>1, <2>2 DEF Boots
<1>5. ASSUME Refreshes \/ handleStartRun \/ UNCHANGED vars
      PROVE  SwitchOK'
  BY <1>1, <1>5 DEF Refreshes, RefreshReads, RefreshStores, handleStartRun, heal, vars
<1>6. ASSUME NEW n \in Runs, Platform(n)
      PROVE  SwitchOK'
  BY <1>1, <1>6 DEF Platform, PrepareScratch, Agent, CleanupScratch, Fix, RunEnds, Rests, heal
<1> QED
  BY <1>2, <1>3, <1>4, <1>5, <1>6, SwitchesKeepSwitch, WorkerDiesKeepsSwitch, ReadingAndFiringKeepSwitch
  DEF Next

(***************************************************************************)
(* The tier table.                                                         *)
(***************************************************************************)
\* The rows of tiers are rows, and there are some.
LEMMA RowsAreRows ==
  ASSUME NEW id \in Nat, NEW ns \in SUBSET Tiers
  PROVE  Rows(id, ns) \subseteq Tiers \X Nat /\ (ns # {} => Rows(id, ns) # {})
<1>1. ASSUME NEW x \in Rows(id, ns)
      PROVE  x \in Tiers \X Nat
  BY DEF Rows
<1>2. ASSUME NEW t \in ns
      PROVE  <<t, id>> \in Rows(id, ns)
  BY DEF Rows
<1> QED
  BY <1>1, <1>2

\* The defaults are rows, and there are some.
LEMMA DefaultsAreRows == Defaults \subseteq Tiers \X Nat /\ Defaults # {}
<1> QED
  BY RowsAreRows, Bounds DEF Defaults

\* A request that has been counted stays counted.
LEMMA CountedStays ==
  ASSUME CountsOK, acts' \in {acts, acts + 1}
  PROVE  1..acts \subseteq 1..acts'
<1> QED
  BY Bounds DEF CountsOK

\* What leaves the table, its writers and the worker alone keeps what is known of them.
LEMMA TableStays ==
  ASSUME CountsOK, TableOK, acts' \in {acts, acts + 1}, table' = table, tx' = tx, mixed' = mixed,
         worker' = worker, tiers' = tiers, load' = load
  PROVE  TableOK'
<1>1. 1..acts \subseteq 1..acts'
  BY CountedStays
<1> QED
  BY <1>1 DEF TableOK, TxOK, Whole, Open, Seeding

\* A transaction that goes on or is over.
LEMMA TransactionKeepsTable ==
  ASSUME TableOK, NEW r \in Puts, NEW x \in TxType, tx' = [tx EXCEPT ![r] = x], table' = table, mixed' = mixed,
         worker' = worker, tiers' = tiers, load' = load, acts' = acts, Open(r),
         x.at # "idle" =>
           /\ x.at # "deleting" /\ x.id = tx[r].id /\ x.names = tx[r].names /\ x.solo = tx[r].solo
           /\ tx[r].solo => x.dead = table
  PROVE  TableOK'
<1>1. tx' \in [Puts -> TxType] /\ tx'[r] = x /\ \A s \in Puts \ {r} : tx'[s] = tx[s]
  BY DEF TableOK
<1>2. \A s \in Puts : Open(s)' => Open(s)
  BY <1>1 DEF Open
<1>3. ASSUME NEW s \in Puts
      PROVE  TxOK(s)'
  <2>1. TxOK(s)
    BY DEF TableOK
  <2>2. CASE s = r
    BY <1>1, <1>2, <2>1, <2>2 DEF TxOK, Open, Seeding
  <2>3. CASE s # r
    BY <1>1, <1>2, <2>1, <2>3 DEF TxOK, Open, Seeding
  <2> QED
    BY <2>2, <2>3
<1>4. Whole' <=> Whole
  BY DEF Whole
<1> QED
  BY <1>1, <1>2, <1>3, <1>4 DEF TableOK, Seeding

\* A request that opens a transaction sees the whole table if it is alone.
LEMMA handleReplaceTiersKeepsTable ==
  ASSUME CountsOK, TableOK, NEW r \in Puts, NEW ns \in SUBSET Tiers, handleReplaceTiers(r, ns)
  PROVE  TableOK'
<1>. DEFINE alone == ~Seeding /\ \A s \in Puts : ~Open(s)
            rest(s) == [tx[s] EXCEPT !.solo = @ /\ ~Open(s)]
            new == [at |-> "deleting", id |-> acts + 1, seen |-> table, dead |-> {}, names |-> ns, solo |-> alone]
<1>1. /\ acts' = acts + 1 /\ ~Open(r) /\ ns # {} /\ table' = table /\ worker' = worker /\ tiers' = tiers
      /\ load' = load
      /\ tx' = [s \in Puts |-> IF s = r THEN new ELSE rest(s)] /\ mixed' = (mixed \/ ~alone)
  BY DEF handleReplaceTiers, Act, copy
<1>2. acts \in Nat /\ acts + 1 \in 1..acts' /\ 1..acts \subseteq 1..acts'
  BY <1>1, Bounds DEF CountsOK
<1>3. alone \in BOOLEAN
  OBVIOUS
<1>4. /\ new \in TxType /\ new.at = "deleting" /\ new.id = acts + 1 /\ new.seen = table /\ new.names = ns
      /\ new.solo = alone
  BY <1>2, <1>3 DEF TxType, TableOK
<1>5. ASSUME NEW s \in Puts
      PROVE  /\ rest(s) \in TxType /\ rest(s).at = tx[s].at /\ rest(s).id = tx[s].id
             /\ rest(s).names = tx[s].names /\ rest(s).solo = (tx[s].solo /\ ~Open(s))
  <2>1. tx[s] \in TxType /\ (tx[s].solo /\ ~Open(s)) \in BOOLEAN
    BY DEF TableOK
  <2> QED
    BY <2>1 DEF TxType
<1>6. mixed' \in BOOLEAN /\ (mixed' = FALSE => alone /\ mixed = FALSE)
  BY <1>1, <1>3 DEF TableOK
<1>. HIDE DEF new, rest
<1>7. tx'[r] = new /\ \A s \in Puts \ {r} : tx'[s] = rest(s)
  BY <1>1
<1>8. tx' \in [Puts -> TxType]
  BY <1>1, <1>4, <1>5
<1>9. ASSUME NEW s \in Puts
      PROVE  TxOK(s)'
  <2>1. CASE s = r
    <3>1. alone => \A u \in Puts \ {r} : ~Open(u)'
      BY <1>5, <1>7 DEF Open
    <3> QED
      BY <1>1, <1>2, <1>4, <1>6, <1>7, <2>1, <3>1 DEF TxOK, Seeding
  <2>2. CASE s # r
    <3>1. /\ tx'[s].id = tx[s].id /\ tx'[s].names = tx[s].names /\ (Open(s) => ~tx'[s].solo)
          /\ (Open(s)' <=> Open(s))
      BY <1>5, <1>7, <2>2 DEF Open
    <3>2. Open(s) => mixed' # FALSE
      BY <1>6
    <3>3. TxOK(s)
      BY DEF TableOK
    <3> QED
      BY <1>2, <1>6, <3>1, <3>2, <3>3 DEF TxOK
  <2> QED
    BY <2>1, <2>2
<1>10. Whole => Whole'
  BY <1>1, <1>2 DEF Whole
<1> QED
  BY <1>1, <1>6, <1>8, <1>9, <1>10 DEF TableOK, Seeding

\* What a request deletes is all it has seen, while it is alone.
LEMMA DeleteRowsKeepsTable ==
  ASSUME TableOK, NEW r \in Puts, DeleteRows(r)
  PROVE  TableOK'
<1>. DEFINE gone == tx[r].seen \cap table
            x == [tx[r] EXCEPT !.at = "inserting", !.dead = gone]
<1>1. tx[r] \in TxType /\ gone \in SUBSET (Tiers \X Nat)
  BY DEF TableOK
<1>2. /\ tx[r].at = "deleting" /\ tx' = [tx EXCEPT ![r] = x] /\ table' = table /\ mixed' = mixed
      /\ worker' = worker /\ tiers' = tiers /\ load' = load /\ acts' = acts /\ Open(r)
  BY DEF DeleteRows, copy, Open
<1>3. tx[r].solo => gone = table
  BY <1>2 DEF TableOK, TxOK
<1>. HIDE DEF gone
<1>4. /\ x \in TxType /\ x.at = "inserting" /\ x.id = tx[r].id /\ x.names = tx[r].names /\ x.solo = tx[r].solo
      /\ x.dead = gone
  BY <1>1 DEF TxType
<1>. HIDE DEF x
<1> QED
  BY <1>2, <1>3, <1>4, TransactionKeepsTable

\* No transaction is one that is over.
LEMMA NoTxType == NoTx \in TxType /\ NoTx.at = "idle"
<1> QED
  BY DEF NoTx, TxType

\* An insert succeeds or ends its transaction.
LEMMA InsertRowsKeepsTable ==
  ASSUME TableOK, NEW r \in Puts, InsertRows(r)
  PROVE  TableOK'
<1>. DEFINE x == [tx[r] EXCEPT !.at = "inserted"]
<1>1. tx[r] \in TxType /\ tx[r].at = "inserting"
  BY DEF TableOK, InsertRows
<1>2. /\ tx' = [tx EXCEPT ![r] = x] \/ tx' = [tx EXCEPT ![r] = NoTx]
      /\ table' = table /\ mixed' = mixed /\ worker' = worker /\ tiers' = tiers /\ load' = load /\ acts' = acts
      /\ Open(r)
  BY <1>1 DEF InsertRows, copy, Open
<1>3. /\ x \in TxType /\ x.at = "inserted" /\ x.id = tx[r].id /\ x.names = tx[r].names /\ x.solo = tx[r].solo
      /\ x.dead = tx[r].dead
  BY <1>1 DEF TxType
<1>. HIDE DEF x
<1>4. tx[r].solo => tx[r].dead = table
  BY <1>1, <1>2 DEF TableOK, TxOK
<1> QED
  BY <1>2, <1>3, <1>4, NoTxType, TransactionKeepsTable

\* A request that commits alone leaves its own rows and no others.
LEMMA CommitRowsKeepsTable ==
  ASSUME CountsOK, TableOK, NEW r \in Puts, CommitRows(r)
  PROVE  TableOK'
<1>. DEFINE own == Rows(tx[r].id, tx[r].names)
<1>1. /\ tx[r].at = "inserted" /\ Open(r) /\ table' = (table \ tx[r].dead) \cup own
      /\ tx' = [tx EXCEPT ![r] = NoTx] /\ mixed' = (mixed /\ ~tx[r].solo)
      /\ worker' = worker /\ tiers' = tiers /\ load' = load /\ acts' = acts
  BY DEF CommitRows, copy, Open
<1>2. tx[r] \in TxType /\ TxOK(r) /\ mixed \in BOOLEAN
  BY DEF TableOK
<1>3. tx[r].solo \in BOOLEAN /\ tx[r].id \in Nat /\ tx[r].names \in SUBSET Tiers
  BY <1>2 DEF TxType
<1>4. own \subseteq Tiers \X Nat /\ own # {}
  BY <1>1, <1>2, <1>3, RowsAreRows DEF TxOK
<1>5. mixed' \in BOOLEAN /\ (~mixed' => tx[r].solo)
  BY <1>1, <1>2, <1>3 DEF TxOK
<1>6. tx[r].solo => ~Seeding /\ table' = own /\ \A s \in Puts \ {r} : ~Open(s)
  BY <1>1, <1>2 DEF TxOK
<1>7. tx[r].id \in 1..acts
  BY <1>1, <1>2 DEF TxOK
<1>8. tx[r].solo => Whole'
  BY <1>1, <1>3, <1>6, <1>7 DEF Whole
<1>. HIDE DEF own
<1>9. tx' \in [Puts -> TxType] /\ ~Open(r)' /\ \A s \in Puts \ {r} : tx'[s] = tx[s]
  BY <1>1, NoTxType DEF TableOK, Open
<1>10. ASSUME NEW s \in Puts
       PROVE  TxOK(s)'
  <2>1. CASE s = r
    BY <1>9, <2>1 DEF TxOK
  <2>2. CASE s # r
    <3>1. TxOK(s) /\ tx'[s] = tx[s] /\ (Open(s)' <=> Open(s)) /\ (Open(s) => ~tx[s].solo /\ ~tx[r].solo)
      BY <1>1, <1>6, <1>9, <2>2 DEF TableOK, TxOK, Open
    <3> QED
      BY <1>1, <1>5, <3>1 DEF TxOK
  <2> QED
    BY <2>1, <2>2
<1>11. table' \subseteq Tiers \X Nat /\ table' # {}
  BY <1>1, <1>4 DEF TableOK
<1> QED
  BY <1>1, <1>5, <1>6, <1>8, <1>9, <1>10, <1>11 DEF TableOK, Seeding

\* Every step of a request on the tiers.
LEMMA WritesKeepTable ==
  ASSUME CountsOK, TableOK, NEW r \in Puts, Writes(r) \/ RollBack(r)
  PROVE  TableOK'
<1>1. CASE RollBack(r)
  <2>1. /\ tx' = [tx EXCEPT ![r] = NoTx] /\ table' = table /\ mixed' = mixed /\ worker' = worker
        /\ tiers' = tiers /\ load' = load /\ acts' = acts /\ Open(r)
    BY <1>1 DEF RollBack, copy
  <2> QED
    BY <2>1, NoTxType, TransactionKeepsTable
<1> QED
  BY <1>1, DeleteRowsKeepsTable, InsertRowsKeepsTable, CommitRowsKeepsTable DEF Writes

\* A worker that finds the table empty seeds it; a request that is open notes it.
LEMMA seedIfEmptyKeepsTable ==
  ASSUME TableOK, seedIfEmpty
  PROVE  TableOK'
<1>. DEFINE alone == \A s \in Puts : ~Open(s)
            rest(s) == [tx[s] EXCEPT !.solo = @ /\ ~Open(s)]
<1>1. worker = "down" /\ table' = table /\ tiers' = tiers /\ load' = load /\ acts' = acts
  BY DEF seedIfEmpty, copy
<1>2. CASE table # {}
  <2>1. worker' = "loading" /\ mixed' = mixed /\ tx' = tx
    BY <1>2 DEF seedIfEmpty
  <2> QED
    BY <1>1, <1>2, <2>1 DEF TableOK, TxOK, Open, Seeding, Whole
<1>3. CASE table = {}
  <2>1. worker' = "seeding" /\ mixed' = (mixed \/ ~alone) /\ tx' = [s \in Puts |-> rest(s)]
    BY <1>3 DEF seedIfEmpty
  <2>2. alone \in BOOLEAN
    OBVIOUS
  <2>3. mixed' \in BOOLEAN /\ (mixed' = FALSE => alone /\ mixed = FALSE)
    BY <2>1, <2>2 DEF TableOK
  <2>4. ASSUME NEW s \in Puts
        PROVE  /\ rest(s) \in TxType /\ rest(s).at = tx[s].at /\ rest(s).id = tx[s].id
               /\ rest(s).names = tx[s].names /\ rest(s).solo = (tx[s].solo /\ ~Open(s))
    <3>1. tx[s] \in TxType /\ (tx[s].solo /\ ~Open(s)) \in BOOLEAN
      BY DEF TableOK
    <3> QED
      BY <3>1 DEF TxType
  <2>. HIDE DEF rest
  <2>5. tx' \in [Puts -> TxType] /\ \A s \in Puts : tx'[s] = rest(s)
    BY <2>1, <2>4
  <2>6. ASSUME NEW s \in Puts
        PROVE  TxOK(s)' /\ (Open(s)' <=> Open(s))
    <3>1. /\ tx'[s].id = tx[s].id /\ tx'[s].names = tx[s].names /\ (Open(s) => ~tx'[s].solo)
          /\ (Open(s)' <=> Open(s))
      BY <2>4, <2>5 DEF Open
    <3>2. Open(s) => mixed' # FALSE
      BY <2>3
    <3>3. TxOK(s)
      BY DEF TableOK
    <3> QED
      BY <1>1, <2>3, <3>1, <3>2, <3>3 DEF TxOK
  <2>7. ~mixed' => \A s \in Puts : ~Open(s)'
    BY <2>3, <2>6
  <2> QED
    BY <1>1, <1>3, <2>1, <2>3, <2>5, <2>6, <2>7 DEF TableOK, Seeding
<1> QED
  BY <1>2, <1>3

\* A worker that seeds adds a default, or gives up and notes it.
LEMMA SeedTierKeepsTable ==
  ASSUME TableOK, NEW t \in Tiers, SeedTier(t)
  PROVE  TableOK'
<1>1. Seeding /\ tx' = tx /\ tiers' = tiers /\ load' = load /\ acts' = acts
  BY DEF SeedTier, copy
<1>2. \A r \in Puts : Open(r) => ~tx[r].solo /\ mixed /\ tx[r].names # {} /\ tx[r].id \in 1..acts
  BY <1>1 DEF TableOK, TxOK
<1>3. CASE t \in Keys(table)
  <2>1. worker' = "down" /\ mixed' = TRUE /\ table' = table
    BY <1>3 DEF SeedTier
  <2>2. \A r \in Puts : TxOK(r)'
    BY <1>1, <1>2, <2>1 DEF TxOK, Open
  <2> QED
    BY <1>1, <2>1, <2>2 DEF TableOK, Seeding
<1>4. CASE t \notin Keys(table)
  <2>1. worker' = worker /\ mixed' = mixed /\ table' = table \cup {<<t, 0>>}
    BY <1>4 DEF SeedTier
  <2>2. \A r \in Puts : TxOK(r)'
    BY <1>1, <1>2, <2>1 DEF TxOK, Open
  <2>3. <<t, 0>> \in Defaults /\ <<t, 0>> \in Tiers \X Nat
    BY DEF Defaults, Rows
  <2> QED
    BY <1>1, <2>1, <2>2, <2>3 DEF TableOK, Seeding, Open
<1> QED
  BY <1>3, <1>4

\* A worker that goes on, refreshes its copy or dies.
LEMMA WorkerKeepsTable ==
  ASSUME TableOK, SeedEnds \/ FirstRefresh \/ BootEnds \/ Refreshes \/ WorkerDies
  PROVE  TableOK'
<1>1. table' = table /\ tx' = tx /\ acts' = acts
  BY DEF SeedEnds, FirstRefresh, BootEnds, Refreshes, RefreshReads, RefreshStores, WorkerDies, tiering
<1>2. CASE SeedEnds
  <2>1. worker = "seeding" /\ Defaults \subseteq table /\ worker' = "loading" /\ mixed' = mixed
        /\ tiers' = tiers /\ load' = load
    BY <1>2 DEF SeedEnds, Seeding, tiering, copy
  <2>2. table # {} /\ (~mixed => table = Defaults)
    BY <2>1, DefaultsAreRows DEF TableOK, Seeding
  <2> QED
    BY <1>1, <2>1, <2>2 DEF TableOK, TxOK, Open, Seeding, Whole
<1>3. CASE FirstRefresh
  <2>1. worker = "loading" /\ worker' = "switching" /\ mixed' = mixed /\ load' = load
        /\ tiers' \in {table, Defaults}
    BY <1>3 DEF FirstRefresh, tiering
  <2> QED
    BY <1>1, <2>1, DefaultsAreRows DEF TableOK, TxOK, Open, Seeding, Whole
<1>4. CASE BootEnds
  <2>1. worker = "switching" /\ worker' = "up" /\ mixed' = mixed /\ tiers' = tiers /\ load' = load
    BY <1>4 DEF BootEnds, tiering, copy
  <2> QED
    BY <1>1, <2>1 DEF TableOK, TxOK, Open, Seeding, Whole
<1>5. CASE Refreshes
  <2>1. worker = "up" /\ worker' = "up" /\ mixed' = mixed
    BY <1>5 DEF Refreshes, RefreshReads, RefreshStores, tiering
  <2>2. CASE RefreshReads
    <3>1. tiers' = tiers /\ load'.rows = table
      BY <2>2 DEF RefreshReads
    <3> QED
      BY <1>1, <2>1, <3>1 DEF TableOK, TxOK, Open, Seeding, Whole
  <2>3. CASE RefreshStores
    <3>1. load.reads /\ tiers' \in {tiers, load.rows} /\ ~load'.reads
      BY <2>3 DEF RefreshStores, NoLoad
    <3> QED
      BY <1>1, <2>1, <3>1 DEF TableOK, TxOK, Open, Seeding, Whole
  <2> QED
    BY <1>5, <2>2, <2>3 DEF Refreshes
<1>6. CASE WorkerDies
  <2>1. worker' = "down" /\ mixed' = (mixed \/ Seeding) /\ ~load'.reads
    BY <1>6 DEF WorkerDies, NoLoad
  <2>2. mixed' \in BOOLEAN /\ (~mixed' => ~mixed /\ ~Seeding) /\ ~Seeding'
    BY <2>1 DEF TableOK, Seeding
  <2>3. \A r \in Puts : TxOK(r)'
    BY <1>1, <2>2 DEF TableOK, TxOK, Open
  <2> QED
    BY <1>1, <2>1, <2>2, <2>3 DEF TableOK, Whole
<1> QED
  BY <1>2, <1>3, <1>4, <1>5, <1>6

\* Every step keeps what is known of the tiers.
LEMMA StepKeepsTable ==
  ASSUME CountsOK, TableOK, [Next]_vars
  PROVE  TableOK'
<1>1. acts' \in {acts, acts + 1}
  BY CountsStep
<1>2. ASSUME table' = table, tx' = tx, mixed' = mixed, worker' = worker, tiers' = tiers, load' = load
      PROVE  TableOK'
  BY <1>1, <1>2, TableStays
<1>3. ASSUME NEW r \in Puts, \E wants \in {"on", "off"} : handleUpdateSelfHealSettings(r, wants)
      PROVE  TableOK'
  BY <1>2, <1>3 DEF handleUpdateSelfHealSettings, tiering, copy
<1>4. ASSUME NEW w \in Writers, Switches(w) \/ SwitchFails(w)
      PROVE  TableOK'
  BY <1>2, <1>4
  DEF Switches, SwitchFails, SeedLooks, SeedInserts, setSelfHeal, ensureSelfHealSchedule, tiering, copy
<1>5. ASSUME handleGetSelfHealSettings \/ selfHeal \/ handleStartRun \/ UNCHANGED vars
      PROVE  TableOK'
  BY <1>2, <1>5 DEF handleGetSelfHealSettings, selfHeal, handleStartRun, tiering, copy, vars
<1>6. ASSUME NEW n \in Runs, Platform(n)
      PROVE  TableOK'
  BY <1>2, <1>6 DEF Platform, PrepareScratch, Agent, CleanupScratch, Fix, RunEnds, Rests, tiering, copy
<1>7. ASSUME Boots \/ Refreshes \/ WorkerDies
      PROVE  TableOK'
  BY <1>7, seedIfEmptyKeepsTable, SeedTierKeepsTable, WorkerKeepsTable DEF Boots
<1> QED
  BY <1>3, <1>4, <1>5, <1>6, <1>7, handleReplaceTiersKeepsTable, WritesKeepTable DEF Next

(***************************************************************************)
(* The invariant holds of every reachable state.                           *)
(***************************************************************************)
\* Nobody is at work on anything, and nothing is stored.
LEMMA InitHasInv ==
  ASSUME Init
  PROVE  Inv
<1>1. CountsOK
  BY Bounds DEF Init, CountsOK
<1>2. RunsOK
  <2>1. NoRun \in RunType /\ NoRun.at = "none" /\ NoRun.error = "none" /\ NoRun.first = "none" /\ ~NoRun.scratch
    BY Bounds DEF NoRun, RunType, Failures
  <2> QED
    BY <2>1 DEF Init, RunsOK, Over
<1>3. SwitchOK
  <2>1. Rest \in WriterType /\ Rest.at = "idle"
    BY DEF Rest, WriterType
  <2>2. schedule.exists = FALSE /\ schedule \in [exists : BOOLEAN, last : Nat]
    BY DEF Init
  <2> QED
    BY <2>1, <2>2 DEF Init, SwitchOK, SwitchIsObeyed, Busy
<1>4. TableOK
  <2>1. ~load.reads
    BY DEF Init, NoLoad
  <2> QED
    BY <2>1, NoTxType DEF Init, TableOK, TxOK, Open, Seeding, Whole
<1> QED
  BY <1>1, <1>2, <1>3, <1>4 DEF Inv

\* The three parts are kept side by side.
LEMMA NextKeepsInv ==
  ASSUME Inv, [Next]_vars
  PROVE  Inv'
<1> QED
  BY CountsStep, StepKeepsRuns, StepKeepsSwitch, StepKeepsTable DEF Inv

\* The inductive invariant holds of every reachable state.
LEMMA RunsKeepInv == Spec => []Inv
<1> QED
  BY InitHasInv, NextKeepsInv, PTL DEF Spec

(***************************************************************************)
(* What operators rely on.                                                 *)
(***************************************************************************)
\* However requests, boots, failures and deaths interleave, the self-heal schedule is
\* what the switch says once the last to touch either has worked through alone.
THEOREM SwitchIsKept == Spec => []SwitchIsObeyed
<1>1. Inv => SwitchIsObeyed
  BY DEF Inv, SwitchOK
<1> QED
  BY <1>1, RunsKeepInv, PTL

\* The tier table is the defaults or what one request wrote, unless writers have
\* overlapped, and a worker that is up always has tiers.
THEOREM TiersStayWhole == Spec => []TiersAreWhole
<1>1. Inv => TiersAreWhole
  BY DEF Inv, TableOK, TiersAreWhole, Whole
<1> QED
  BY <1>1, RunsKeepInv, PTL

\* A platform run always tells the failure it met first, and whatever that is, its
\* scratch workspace stays only where the cleanup or the preparation itself failed.
THEOREM RunsTellTheirFirstFailure == Spec => []RunsEndHonestly
<1>1. Inv => RunsEndHonestly
  BY DEF Inv, RunsOK, RunsEndHonestly
<1> QED
  BY <1>1, RunsKeepInv, PTL

(***************************************************************************)
(* The conversation, for every number of turns, agent calls, children,     *)
(* failures and new executions: nothing runs that was not approved, no     *)
(* name comes twice, and the console shows the proposal that is open.      *)
(***************************************************************************)

(***************************************************************************)
(* The inductive invariant.                                                *)
(***************************************************************************)
\* What is counted is a number; what is approved, superseded or carried out has been
\* shown, and what is shown has been numbered.
NumbersOK ==
  /\ messages \in Nat /\ seq \in Nat /\ children \in Nat /\ carried \in Nat /\ fixes \in Nat
  /\ asked \in Nat \X Nat
  /\ pendingProposal \in [id : Nat, type : {"none", "fix", "action"}]
  /\ pendingDecision \in [proposal : Nat, approve : BOOLEAN]
  /\ prompted \in BOOLEAN
  /\ shown \subseteq 1..seq
  /\ approved \subseteq shown /\ superseded \subseteq shown /\ executed \subseteq shown

\* The proposal that is pending has been shown, and nothing has become of it; while
\* the chat is at work there is none.
ProposalKept ==
  /\ pendingProposal # NoProposal => pendingProposal.id \in shown \ (superseded \cup executed)
  /\ pc \notin {"waiting", "closing", "ended", "failed"} => pendingProposal = NoProposal
  /\ pc \in {"unstarted", "preparing"} => phase = "awaiting-user"
  /\ OpenProposalIsShown

\* A yes that is pending is one to a proposal the operator approved, and what is being
\* carried out is approved, not superseded, and carried out for the first time unless
\* its action is tried again.
ApprovalKept ==
  /\ pendingDecision.approve => pendingDecision.proposal \in approved
  /\ pc \in {"resolving", "fixing", "acting"} => carried \in approved \ superseded
  /\ pc \in {"resolving", "fixing"} \/ (pc = "acting" /\ tries = 1) => carried \notin executed
  /\ pc = "acting" => tries # 0
  /\ OnlyApprovedRuns

\* The last call that was named is of a turn before this one, or of this turn and not
\* yet counted; the last child that was named is the one the chat waits for, if any.
NamesKept ==
  /\ asked[1] <= seq
  /\ pc = "turn" => asked[1] < seq
  /\ pc = "thinking" => asked = <<seq, call>>
  /\ pc = "fix" => fixes = children + 1
  /\ pc \notin {"fix", "failed"} => fixes <= children
  /\ NamesAreFresh

ChatInv == TypeOK /\ NumbersOK /\ ProposalKept /\ ApprovalKept /\ NamesKept

(***************************************************************************)
(* One lemma for each action.                                              *)
(***************************************************************************)
\* The absence of a decision has the form of one.
LEMMA NoDecisionType == NoDecision \in [proposal : Nat, approve : BOOLEAN]
<1>. QED
  BY DEF NoDecision, None

\* Starting the chat leaves it without messages and proposals.
LEMMA handleStartChatKeepsInv ==
  ASSUME ChatInv, handleStartChat
  PROVE  ChatInv'
<1>1. TypeOK'
  BY DEF ChatInv, TypeOK, handleStartChat, signals, told, seen
<1>2. NumbersOK'
  BY DEF ChatInv, NumbersOK, handleStartChat, signals, told, names, seen
<1>3. ProposalKept'
  BY DEF ChatInv, ProposalKept, OpenProposalIsShown, handleStartChat
<1>4. ApprovalKept'
  BY DEF ChatInv, ApprovalKept, OnlyApprovedRuns, handleStartChat, signals, seen
<1>5. NamesKept'
  BY DEF ChatInv, NamesKept, NamesAreFresh, handleStartChat, told, names
<1> QED
  BY <1>1, <1>2, <1>3, <1>4, <1>5 DEF ChatInv

\* Preparing the workspace opens no proposal, and the prompt becomes a turn.
LEMMA PrepareScratchKeepsInv ==
  ASSUME ChatInv, PrepareChat
  PROVE  ChatInv'
<1>1. TypeOK'
  BY DEF ChatInv, TypeOK, PrepareChat, told, seen
<1>2. NumbersOK'
  BY DEF ChatInv, NumbersOK, PrepareChat, told, names, seen
<1>3. ProposalKept'
  BY DEF ChatInv, ProposalKept, OpenProposalIsShown, PrepareChat
<1>4. ApprovalKept'
  BY DEF ChatInv, ApprovalKept, OnlyApprovedRuns, PrepareChat, seen
<1>5. NamesKept'
  BY DEF ChatInv, NamesKept, NamesAreFresh, PrepareChat, told, names
<1> QED
  BY <1>1, <1>2, <1>3, <1>4, <1>5 DEF ChatInv

\* A turn that is sent changes nothing but what is pending.
LEMMA SendTurnKeepsInv ==
  ASSUME ChatInv, SendTurn
  PROVE  ChatInv'
<1>1. TypeOK'
  BY PlatformChatAssumption DEF ChatInv, TypeOK, SendTurn, Input, told, seen
<1>2. NumbersOK'
  BY DEF ChatInv, NumbersOK, SendTurn, told, names, seen
<1>3. ProposalKept'
  BY DEF ChatInv, ProposalKept, OpenProposalIsShown, SendTurn, seen
<1>4. ApprovalKept'
  BY DEF ChatInv, ApprovalKept, OnlyApprovedRuns, SendTurn, seen
<1>5. NamesKept'
  BY DEF ChatInv, NamesKept, NamesAreFresh, SendTurn, told, names
<1> QED
  BY <1>1, <1>2, <1>3, <1>4, <1>5 DEF ChatInv

\* A decision is on a proposal that was shown, and an approval is on record.
LEMMA DecideKeepsInv ==
  ASSUME ChatInv, Decide
  PROVE  ChatInv'
<1>1. TypeOK'
  BY PlatformChatAssumption DEF ChatInv, TypeOK, Decide, Input, told
<1>2. NumbersOK'
  BY DEF ChatInv, NumbersOK, Decide, told, names
<1>3. ProposalKept'
  BY DEF ChatInv, ProposalKept, OpenProposalIsShown, Decide
<1>4. ApprovalKept'
  BY DEF ChatInv, ApprovalKept, OnlyApprovedRuns, Decide
<1>5. NamesKept'
  BY DEF ChatInv, NamesKept, NamesAreFresh, Decide, told, names
<1> QED
  BY <1>1, <1>2, <1>3, <1>4, <1>5 DEF ChatInv

\* Closing changes nothing but what is pending.
LEMMA CloseKeepsInv ==
  ASSUME ChatInv, Close
  PROVE  ChatInv'
<1>1. TypeOK'
  BY PlatformChatAssumption DEF ChatInv, TypeOK, Close, Input, told, seen
<1>2. NumbersOK'
  BY DEF ChatInv, NumbersOK, Close, told, names, seen
<1>3. ProposalKept'
  BY DEF ChatInv, ProposalKept, OpenProposalIsShown, Close, seen
<1>4. ApprovalKept'
  BY DEF ChatInv, ApprovalKept, OnlyApprovedRuns, Close, seen
<1>5. NamesKept'
  BY DEF ChatInv, NamesKept, NamesAreFresh, Close, told, names
<1> QED
  BY <1>1, <1>2, <1>3, <1>4, <1>5 DEF ChatInv

\* A turn does away with the open proposal, which was not carried out before.
LEMMA HearTurnKeepsInv ==
  ASSUME ChatInv, HearTurn
  PROVE  ChatInv'
<1>1. TypeOK'
  <2>1. pendingProposal' = NoProposal /\ messages' = messages + 1 /\ seq' = seq + 1 /\ pendingUserText' = FALSE
        /\ UNCHANGED <<phase, closed, pendingDecision, call, children, carried, tries, inputs, incidents, shown>>
    BY DEF HearTurn, Supersede, push
  <2>2. pc' = "turn"
    BY DEF HearTurn
  <2>3. pendingProposal'.id = None
    BY <2>1 DEF NoProposal
  <2>4. messages' >= children' /\ seq' >= messages'
    BY <2>1 DEF ChatInv, TypeOK, NumbersOK
  <2> QED
    BY <2>1, <2>2, <2>3, <2>4 DEF ChatInv, TypeOK
<1>2. NumbersOK'
  <2>1. superseded' \subseteq shown
    BY DEF ChatInv, TypeOK, NumbersOK, HearTurn
  <2>2. pendingProposal' \in [id : Nat, type : {"none", "fix", "action"}]
    BY DEF HearTurn, Supersede, NoProposal, None
  <2>3. messages' \in Nat /\ seq' \in Nat /\ 1..seq \subseteq 1..seq'
    BY DEF ChatInv, NumbersOK, HearTurn, push
  <2>4. UNCHANGED <<children, carried, fixes, asked, pendingDecision, prompted, shown, approved, executed>>
    BY DEF HearTurn, names
  <2> QED
    BY <2>1, <2>2, <2>3, <2>4 DEF ChatInv, NumbersOK
<1>3. ProposalKept'
  BY DEF ProposalKept, OpenProposalIsShown, HearTurn, Supersede
<1>4. ApprovalKept'
  BY DEF ChatInv, ProposalKept, ApprovalKept, OnlyApprovedRuns, NoProposal, HearTurn
<1>5. NamesKept'
  BY DEF ChatInv, NumbersOK, NamesKept, NamesAreFresh, HearTurn, Waits, push, names
<1> QED
  BY <1>1, <1>2, <1>3, <1>4, <1>5 DEF ChatInv

\* Only the approved open proposal goes on to be carried out.
LEMMA HearDecisionKeepsInv ==
  ASSUME ChatInv, HearDecision
  PROVE  ChatInv'
<1>1. TypeOK'
  <2>1. tries' \in 0..MaximumAttempts
    BY PlatformChatAssumption DEF ChatInv, TypeOK, HearDecision
  <2> QED
    BY <2>1 DEF ChatInv, TypeOK, NumbersOK, NoProposal, NoDecision, HearDecision, push, told, seen
<1>2. NumbersOK'
  BY DEF ChatInv, NumbersOK, NoProposal, NoDecision, None, HearDecision, push, told, names, seen
<1>3. ProposalKept'
  BY DEF ProposalKept, OpenProposalIsShown, HearDecision
<1>4. ApprovalKept'
  BY DEF ChatInv, ProposalKept, ApprovalKept, OnlyApprovedRuns, NoDecision, HearDecision, Matches, seen
<1>5. NamesKept'
  BY DEF ChatInv, NumbersOK, NamesKept, NamesAreFresh, HearDecision, Waits, push, told, names
<1> QED
  BY <1>1, <1>2, <1>3, <1>4, <1>5 DEF ChatInv

\* Resolving the repository carries nothing out.
LEMMA ResolveKeepsInv ==
  ASSUME ChatInv, Resolve
  PROVE  ChatInv'
<1>1. TypeOK'
  BY DEF ChatInv, TypeOK, NumbersOK, Resolve, Done, push, signals, told, seen
<1>2. NumbersOK'
  BY DEF ChatInv, NumbersOK, None, Resolve, Done, push, signals, told, names, seen
<1>3. ProposalKept'
  BY DEF ChatInv, ProposalKept, OpenProposalIsShown, Resolve, Done
<1>4. ApprovalKept'
  BY DEF ChatInv, ApprovalKept, OnlyApprovedRuns, Resolve, Done, signals, seen
<1>5. NamesKept'
  BY DEF ChatInv, NumbersOK, NamesKept, NamesAreFresh, Resolve, Done, push, told, names
<1> QED
  BY <1>1, <1>2, <1>3, <1>4, <1>5 DEF ChatInv

\* The proposal of a fix is carried out here, under a new number.
LEMMA StartFixKeepsInv ==
  ASSUME ChatInv, StartFix
  PROVE  ChatInv'
<1>1. TypeOK'
  BY DEF ChatInv, TypeOK, StartFix, signals, told, seen
<1>2. NumbersOK'
  <2>1. executed' \subseteq shown
    BY DEF ChatInv, NumbersOK, ApprovalKept, StartFix
  <2>2. fixes' \in Nat
    BY DEF ChatInv, NumbersOK, StartFix
  <2>3. UNCHANGED <<messages, seq, children, carried, asked, pendingProposal, pendingDecision, prompted,
                    shown, approved, superseded>>
    BY DEF StartFix, signals, told, seen
  <2> QED
    BY <2>1, <2>2, <2>3 DEF ChatInv, NumbersOK
<1>3. ProposalKept'
  BY DEF ChatInv, ProposalKept, OpenProposalIsShown, StartFix
<1>4. ApprovalKept'
  BY DEF ChatInv, ApprovalKept, OnlyApprovedRuns, StartFix, signals, seen
<1>5. NamesKept'
  <2>1. carried \notin executed /\ ~(children + 1 <= fixes)
    BY DEF ChatInv, NumbersOK, ApprovalKept, NamesKept, StartFix
  <2>2. ~repeated'
    BY <2>1 DEF ChatInv, NamesKept, NamesAreFresh, StartFix
  <2>3. pc' = "fix" /\ fixes' = children + 1 /\ UNCHANGED <<asked, seq, children, call>>
    BY DEF StartFix, told
  <2> QED
    BY <2>2, <2>3 DEF ChatInv, NamesKept, NamesAreFresh
<1> QED
  BY <1>1, <1>2, <1>3, <1>4, <1>5 DEF ChatInv

\* The end of a fix gives its number away.
LEMMA FixEndsKeepsInv ==
  ASSUME ChatInv, FixEnds
  PROVE  ChatInv'
<1>1. TypeOK'
  BY DEF ChatInv, TypeOK, NumbersOK, FixEnds, Done, push, signals, seen
<1>2. NumbersOK'
  BY DEF ChatInv, NumbersOK, None, FixEnds, Done, push, signals, names, seen
<1>3. ProposalKept'
  BY DEF ChatInv, ProposalKept, OpenProposalIsShown, FixEnds, Done
<1>4. ApprovalKept'
  BY DEF ChatInv, ApprovalKept, OnlyApprovedRuns, FixEnds, Done, signals, seen
<1>5. NamesKept'
  BY DEF ChatInv, NumbersOK, NamesKept, NamesAreFresh, FixEnds, Done, push, names
<1> QED
  BY <1>1, <1>2, <1>3, <1>4, <1>5 DEF ChatInv

\* An attempt of an action carries out what is approved, and again only as a retry.
LEMMA AttemptsStay ==
  ASSUME ChatInv, Attempt
  PROVE  /\ executed' \subseteq shown /\ executed' \subseteq approved \ superseded /\ ~repeated'
         /\ pendingProposal = NoProposal
<1>1. carried \in approved \ superseded /\ (tries = 1 => carried \notin executed) /\ approved \subseteq shown
  BY DEF ChatInv, NumbersOK, ApprovalKept, Attempt
<1>2. executed \subseteq shown /\ executed \subseteq approved \ superseded /\ ~repeated
  BY DEF ChatInv, NumbersOK, ApprovalKept, OnlyApprovedRuns, NamesKept, NamesAreFresh
<1>3. pendingProposal = NoProposal
  BY DEF ChatInv, ProposalKept, Attempt
<1>4. CASE executed' = executed \cup {carried} /\ repeated' = (repeated \/ (tries = 1 /\ carried \in executed))
  <2>1. ~repeated'
    BY <1>1, <1>2, <1>4
  <2> QED
    BY <1>1, <1>2, <1>3, <1>4, <2>1
<1>5. CASE executed' = executed /\ repeated' = repeated
  BY <1>2, <1>3, <1>5
<1> QED
  BY <1>4, <1>5 DEF Attempt

\* The answer of an action ends it.
LEMMA ActKeepsInv ==
  ASSUME ChatInv, executePlatformAction
  PROVE  ChatInv'
<1>. Attempt /\ pc = "acting"
  BY DEF executePlatformAction, Attempt
<1>1. TypeOK'
  BY DEF ChatInv, TypeOK, NumbersOK, executePlatformAction, Done, push, signals, seen
<1>2. NumbersOK'
  <2>1. executed' \subseteq shown
    BY AttemptsStay
  <2>2. messages' \in Nat /\ seq' \in Nat /\ carried' \in Nat /\ 1..seq \subseteq 1..seq'
    BY DEF ChatInv, NumbersOK, executePlatformAction, Done, push, None
  <2>3. UNCHANGED <<children, fixes, asked, pendingProposal, pendingDecision, prompted, shown, approved, superseded>>
    BY DEF executePlatformAction, signals, seen
  <2> QED
    BY <2>1, <2>2, <2>3 DEF ChatInv, NumbersOK
<1>3. ProposalKept'
  BY AttemptsStay DEF ChatInv, ProposalKept, OpenProposalIsShown, executePlatformAction, Done
<1>4. ApprovalKept'
  BY AttemptsStay DEF ChatInv, ApprovalKept, OnlyApprovedRuns, executePlatformAction, Done, signals, seen
<1>5. NamesKept'
  <2>1. ~repeated'
    BY AttemptsStay
  <2>2. pc' = "turn" /\ seq' = seq + 1 /\ UNCHANGED <<asked, fixes, children>>
    BY DEF executePlatformAction, Done, push
  <2>3. asked[1] < seq' /\ fixes <= children
    BY <2>2 DEF ChatInv, NumbersOK, NamesKept, executePlatformAction
  <2> QED
    BY <2>1, <2>2, <2>3 DEF ChatInv, NumbersOK, NamesKept, NamesAreFresh
<1> QED
  BY <1>1, <1>2, <1>3, <1>4, <1>5 DEF ChatInv

\* A lost answer leads to another attempt of the same action, or to none.
LEMMA AnswerIsLostKeepsInv ==
  ASSUME ChatInv, AnswerIsLost
  PROVE  ChatInv'
<1>. Attempt /\ pc = "acting" /\ Incident
  BY DEF AnswerIsLost, Attempt
<1>1. /\ UNCHANGED <<phase, closed, pendingUserText, pendingDecision, messages, seq, pendingProposal, call, children,
                      carried, inputs, shown, approved, superseded, asked, fixes, prompted>>
      /\ \/ tries < MaximumAttempts /\ tries' = tries + 1 /\ pc' = "acting"
         \/ tries' = tries /\ pc' = "failed"
  BY DEF AnswerIsLost, signals, told, seen
<1>2. TypeOK'
  <2>1. tries' \in 0..MaximumAttempts /\ incidents' \in 0..MaxIncidents
    BY <1>1, PlatformChatAssumption DEF ChatInv, TypeOK, Incident
  <2> QED
    BY <1>1, <2>1 DEF ChatInv, TypeOK
<1>3. NumbersOK'
  BY <1>1, AttemptsStay DEF ChatInv, NumbersOK
<1>4. ProposalKept'
  BY <1>1, AttemptsStay DEF ChatInv, ProposalKept, OpenProposalIsShown
<1>5. ApprovalKept'
  <2>1. pc' = "acting" => tries' # 1 /\ tries' # 0
    BY <1>1 DEF ChatInv, TypeOK, ApprovalKept
  <2> QED
    BY <1>1, <2>1, AttemptsStay DEF ChatInv, ApprovalKept, OnlyApprovedRuns
<1>6. NamesKept'
  BY <1>1, AttemptsStay DEF ChatInv, NamesKept, NamesAreFresh
<1> QED
  BY <1>2, <1>3, <1>4, <1>5, <1>6 DEF ChatInv

\* A failed workflow goes nowhere.
LEMMA FailsKeepsInv ==
  ASSUME ChatInv, Fails
  PROVE  ChatInv'
<1>1. TypeOK'
  BY PlatformChatAssumption DEF ChatInv, TypeOK, Fails, Incident, signals, told, seen
<1>2. NumbersOK'
  BY DEF ChatInv, NumbersOK, Fails, signals, told, names, seen
<1>3. ProposalKept'
  BY DEF ChatInv, ProposalKept, OpenProposalIsShown, Fails, seen
<1>4. ApprovalKept'
  BY DEF ChatInv, ApprovalKept, OnlyApprovedRuns, Fails, signals, seen
<1>5. NamesKept'
  BY DEF ChatInv, NamesKept, NamesAreFresh, Fails, told, names
<1> QED
  BY <1>1, <1>2, <1>3, <1>4, <1>5 DEF ChatInv

\* The first call of a turn has a later message than any call before it.
LEMMA StartTurnKeepsInv ==
  ASSUME ChatInv, StartTurn
  PROVE  ChatInv'
<1>1. TypeOK'
  BY PlatformChatAssumption DEF ChatInv, TypeOK, StartTurn, Ask, signals, told, seen
<1>2. NumbersOK'
  BY DEF ChatInv, NumbersOK, StartTurn, Ask, signals, told, seen
<1>3. ProposalKept'
  BY DEF ChatInv, ProposalKept, OpenProposalIsShown, StartTurn
<1>4. ApprovalKept'
  BY DEF ChatInv, ApprovalKept, OnlyApprovedRuns, StartTurn, signals, seen
<1>5. NamesKept'
  <2>1. seq > asked[1]
    BY DEF ChatInv, NamesKept, StartTurn
  <2>2. ~repeated'
    BY DEF ChatInv, NamesKept, NamesAreFresh, StartTurn, Ask
  <2>3. pc' = "thinking" /\ call' = 1 /\ asked' = <<seq, 1>> /\ UNCHANGED <<seq, children, fixes>>
    BY DEF StartTurn, Ask, told
  <2>4. fixes <= children
    BY DEF ChatInv, NamesKept, StartTurn
  <2> QED
    BY <2>2, <2>3, <2>4 DEF ChatInv, NumbersOK, NamesKept, NamesAreFresh
<1> QED
  BY <1>1, <1>2, <1>3, <1>4, <1>5 DEF ChatInv

\* A repeated call has the same message and a higher number.
LEMMA UnparseableKeepsInv ==
  ASSUME ChatInv, Unparseable
  PROVE  ChatInv'
<1>1. TypeOK'
  BY PlatformChatAssumption DEF ChatInv, TypeOK, NumbersOK, Unparseable, Ask, push, signals, told, seen
<1>2. NumbersOK'
  BY DEF ChatInv, TypeOK, NumbersOK, Unparseable, Ask, push, signals, told, seen
<1>3. ProposalKept'
  BY DEF ChatInv, ProposalKept, OpenProposalIsShown, Unparseable
<1>4. ApprovalKept'
  BY DEF ChatInv, ApprovalKept, OnlyApprovedRuns, Unparseable, signals, seen
<1>5. NamesKept'
  <2>1. asked = <<seq, call>> /\ fixes <= children /\ seq \in Nat /\ call \in Nat /\ ~repeated
    BY DEF ChatInv, NumbersOK, NamesKept, NamesAreFresh, Unparseable
  <2>2. UNCHANGED <<children, fixes>>
    BY DEF Unparseable
  <2>3. CASE call < MAX_TURN_CALLS
    <3>1. asked' = <<seq, call + 1>> /\ call' = call + 1 /\ pc' = "thinking" /\ seq' = seq
      BY <2>3 DEF Unparseable, Ask, told
    <3>2. seq = asked[1] /\ call + 1 > asked[2]
      BY <2>1
    <3>3. ~repeated'
      BY <2>1, <3>2 DEF Unparseable, Ask
    <3> QED
      BY <2>1, <2>2, <3>1, <3>3 DEF NamesKept, NamesAreFresh
  <2>4. CASE ~(call < MAX_TURN_CALLS)
    <3>1. seq' = seq + 1 /\ pc' = "waiting" /\ UNCHANGED <<call, asked, repeated>>
      BY <2>4 DEF Unparseable, push
    <3> QED
      BY <2>1, <2>2, <3>1 DEF NamesKept, NamesAreFresh
  <2> QED
    BY <2>3, <2>4
<1> QED
  BY <1>1, <1>2, <1>3, <1>4, <1>5 DEF ChatInv

\* A proposal has a new id, and the operator sees it.
LEMMA ProposeKeepsInv ==
  ASSUME ChatInv, Propose
  PROVE  ChatInv'
<1>1. TypeOK'
  BY DEF ChatInv, TypeOK, NumbersOK, Propose, push, signals
<1>2. NumbersOK'
  BY DEF ChatInv, NumbersOK, Propose, push, signals, names
<1>3. ProposalKept'
  BY DEF ChatInv, NumbersOK, ProposalKept, OpenProposalIsShown, NoProposal, Propose
<1>4. ApprovalKept'
  BY DEF ChatInv, ApprovalKept, OnlyApprovedRuns, Propose, signals
<1>5. NamesKept'
  BY DEF ChatInv, NumbersOK, NamesKept, NamesAreFresh, Propose, push, names
<1> QED
  BY <1>1, <1>2, <1>3, <1>4, <1>5 DEF ChatInv

\* A question opens no proposal.
LEMMA AskBackKeepsInv ==
  ASSUME ChatInv, AskBack
  PROVE  ChatInv'
<1>1. TypeOK'
  BY DEF ChatInv, TypeOK, NumbersOK, AskBack, push, signals, seen
<1>2. NumbersOK'
  BY DEF ChatInv, NumbersOK, AskBack, push, signals, names, seen
<1>3. ProposalKept'
  BY DEF ChatInv, ProposalKept, OpenProposalIsShown, AskBack
<1>4. ApprovalKept'
  BY DEF ChatInv, ApprovalKept, OnlyApprovedRuns, AskBack, signals, seen
<1>5. NamesKept'
  BY DEF ChatInv, NumbersOK, NamesKept, NamesAreFresh, AskBack, push, names
<1> QED
  BY <1>1, <1>2, <1>3, <1>4, <1>5 DEF ChatInv

\* The conversation goes on with its numbers, also in a new execution.
LEMMA ReplyKeepsInv ==
  ASSUME ChatInv, Reply
  PROVE  ChatInv'
<1>1. TypeOK'
  <2>1. messages' = messages + 1 /\ seq' = seq + 1 /\ children' = children /\ phase' = "awaiting-user"
        /\ pc' \in {"closing", "waiting"}
    BY DEF Reply, ContinueAsNew, Carry
  <2>2. UNCHANGED <<pendingProposal, call, carried, tries, inputs, incidents, shown>>
    BY DEF Reply, seen
  <2>3. closed' \in BOOLEAN /\ pendingUserText' \in BOOLEAN
    BY DEF ChatInv, TypeOK, Reply, ContinueAsNew, signals
  <2>4. pendingDecision' \in {pendingDecision, NoDecision}
    BY DEF Reply, ContinueAsNew, signals
  <2>5. pendingDecision'.proposal \in shown \cup {None}
    BY <2>4 DEF ChatInv, TypeOK, NoDecision
  <2>6. messages' >= children' /\ seq' >= messages'
    BY <2>1 DEF ChatInv, TypeOK, NumbersOK
  <2> QED
    BY <2>1, <2>2, <2>3, <2>5, <2>6 DEF ChatInv, TypeOK
<1>2. NumbersOK'
  <2>1. messages' \in Nat /\ seq' \in Nat /\ children' = children /\ 1..seq \subseteq 1..seq'
    BY DEF ChatInv, NumbersOK, Reply, ContinueAsNew, Carry
  <2>2. pendingDecision' \in {pendingDecision, NoDecision}
    BY DEF Reply, ContinueAsNew, signals
  <2>3. pendingDecision' \in [proposal : Nat, approve : BOOLEAN]
    BY <2>2, NoDecisionType DEF ChatInv, NumbersOK
  <2>4. UNCHANGED <<carried, fixes, asked, pendingProposal, prompted, shown, approved, superseded, executed>>
    BY DEF Reply, names, seen
  <2> QED
    BY <2>1, <2>3, <2>4 DEF ChatInv, NumbersOK
<1>3. ProposalKept'
  BY DEF ChatInv, ProposalKept, OpenProposalIsShown, Reply
<1>4. ApprovalKept'
  BY DEF ChatInv, ApprovalKept, OnlyApprovedRuns, NoDecision, Reply, ContinueAsNew, signals, seen
<1>5. NamesKept'
  BY DEF ChatInv, NumbersOK, NamesKept, NamesAreFresh, Reply, ContinueAsNew, Carry, names
<1> QED
  BY <1>1, <1>2, <1>3, <1>4, <1>5 DEF ChatInv

\* A chat that stops waiting keeps what it has.
LEMMA StopWaitingKeepsInv ==
  ASSUME ChatInv, StopWaiting
  PROVE  ChatInv'
<1>1. TypeOK'
  BY DEF ChatInv, TypeOK, StopWaiting, signals, told, seen
<1>2. NumbersOK'
  BY DEF ChatInv, NumbersOK, StopWaiting, signals, told, names, seen
<1>3. ProposalKept'
  BY DEF ChatInv, ProposalKept, OpenProposalIsShown, StopWaiting, seen
<1>4. ApprovalKept'
  BY DEF ChatInv, ApprovalKept, OnlyApprovedRuns, StopWaiting, signals, seen
<1>5. NamesKept'
  BY DEF ChatInv, NamesKept, NamesAreFresh, StopWaiting, told, names
<1> QED
  BY <1>1, <1>2, <1>3, <1>4, <1>5 DEF ChatInv

\* The end of the chat keeps what it has.
LEMMA CleanUpKeepsInv ==
  ASSUME ChatInv, CleanUp
  PROVE  ChatInv'
<1>1. TypeOK'
  BY DEF ChatInv, TypeOK, CleanUp, signals, told, seen
<1>2. NumbersOK'
  BY DEF ChatInv, NumbersOK, CleanUp, signals, told, names, seen
<1>3. ProposalKept'
  BY DEF ChatInv, ProposalKept, OpenProposalIsShown, CleanUp, seen
<1>4. ApprovalKept'
  BY DEF ChatInv, ApprovalKept, OnlyApprovedRuns, CleanUp, signals, seen
<1>5. NamesKept'
  BY DEF ChatInv, NamesKept, NamesAreFresh, CleanUp, told, names
<1> QED
  BY <1>1, <1>2, <1>3, <1>4, <1>5 DEF ChatInv

\* The chat begins without proposals, approvals and names.
LEMMA ChatInitHasInv == ChatInit => ChatInv
<1>. SUFFICES ASSUME ChatInit PROVE ChatInv
  OBVIOUS
<1>1. TypeOK
  <2>1. pendingProposal.id = None /\ pendingDecision.proposal = None /\ carried = None
    BY DEF ChatInit, NoProposal, NoDecision
  <2>2. call \in 0..MAX_TURN_CALLS /\ tries \in 0..MaximumAttempts /\ messages >= children /\ seq >= messages
        /\ inputs \in 0..MaxInputs /\ incidents \in 0..MaxIncidents
    BY PlatformChatAssumption DEF ChatInit
  <2> QED
    BY <2>1, <2>2 DEF ChatInit, TypeOK
<1>2. NumbersOK
  BY DEF ChatInit, NumbersOK, NoProposal, NoDecision, None
<1>3. ProposalKept /\ ApprovalKept /\ NamesKept
  BY DEF ChatInit, ProposalKept, ApprovalKept, NamesKept, OpenProposalIsShown, OnlyApprovedRuns, NamesAreFresh,
         NoDecision
<1> QED
  BY <1>1, <1>2, <1>3 DEF ChatInv

\* A step that changes nothing keeps the invariant.
LEMMA ChatStutterKeepsInv ==
  ASSUME ChatInv, UNCHANGED chatVars
  PROVE  ChatInv'
<1>1. TypeOK' /\ NumbersOK'
  BY DEF ChatInv, TypeOK, NumbersOK, chatVars, signals, told, names, seen
<1>2. ProposalKept' /\ ApprovalKept' /\ NamesKept'
  BY DEF ChatInv, ProposalKept, ApprovalKept, NamesKept, OpenProposalIsShown, OnlyApprovedRuns, NamesAreFresh,
         chatVars, signals, told, names, seen
<1> QED
  BY <1>1, <1>2 DEF ChatInv

\* Every step of the chat and of its operator keeps the invariant.
LEMMA ChatNextKeepsInv ==
  ASSUME ChatInv, [ChatNext]_chatVars
  PROVE  ChatInv'
<1>1. CASE handleStartChat \/ SendTurn \/ Decide \/ Close \/ AnswerIsLost \/ Fails
  BY <1>1, handleStartChatKeepsInv, SendTurnKeepsInv, DecideKeepsInv, CloseKeepsInv,
     AnswerIsLostKeepsInv, FailsKeepsInv
<1>2. CASE Work
  BY <1>2, PrepareScratchKeepsInv, HearTurnKeepsInv, HearDecisionKeepsInv, ResolveKeepsInv,
     StartFixKeepsInv, FixEndsKeepsInv, ActKeepsInv, StartTurnKeepsInv, UnparseableKeepsInv,
     ProposeKeepsInv, AskBackKeepsInv, ReplyKeepsInv, StopWaitingKeepsInv, CleanUpKeepsInv
  DEF Work
<1>3. CASE UNCHANGED chatVars
  BY <1>3, ChatStutterKeepsInv
<1> QED
  BY <1>1, <1>2, <1>3 DEF ChatNext

\* The inductive invariant holds of every reachable state.
LEMMA ChatsKeepInv == ChatSpec => []ChatInv
<1>. QED
  BY ChatInitHasInv, ChatNextKeepsInv, PTL DEF ChatSpec

(***************************************************************************)
(* What the console, the operator and the stores of results rely on.       *)
(***************************************************************************)
\* Every variable of the chat stays in its range.
THEOREM ChatTypeCorrect == ChatSpec => []TypeOK
<1>1. ChatInv => TypeOK
  BY DEF ChatInv
<1> QED
  BY <1>1, ChatsKeepInv, PTL

\* However turns, decisions, failures and new executions interleave, nothing is
\* carried out that the operator has not approved under its own id, or that one
\* of his later turns had done away with.
THEOREM ApprovedOnesRun == ChatSpec => []OnlyApprovedRuns
<1>1. ChatInv => OnlyApprovedRuns
  BY DEF ChatInv, ApprovalKept
<1> QED
  BY <1>1, ChatsKeepInv, PTL

\* No agent call and no child is ever named like an earlier one of the
\* conversation, and no proposal is carried out again but by a further attempt of an
\* action whose answer was lost.
THEOREM NamesStayFresh == ChatSpec => []NamesAreFresh
<1>1. ChatInv => NamesAreFresh
  BY DEF ChatInv, NamesKept
<1> QED
  BY <1>1, ChatsKeepInv, PTL

\* While the chat waits, the phase the console reads says whether there is a
\* proposal to decide on.
THEOREM ConsoleIsRight == ChatSpec => []OpenProposalIsShown
<1>1. ChatInv => OpenProposalIsShown
  BY DEF ChatInv, ProposalKept
<1> QED
  BY <1>1, ChatsKeepInv, PTL

================================================================================
