----------------------------- MODULE WorkspaceProofs -----------------------------
(* What runs work in.  The session at its path is whole, and the sweep spares the  *)
(* living, for every number of callers, requests, repositories, staging names and  *)
(* accidents.  A task that nothing known has disturbed works in a worktree of its  *)
(* own at a commit it may find, no branch is checked out twice, and what attempts  *)
(* that were cut short leave does not stop the next, for any tasks and branches.   *)
EXTENDS RepoSessions, Worktrees, TLAPS

(***************************************************************************)
(* Repository sessions: the inductive invariant.  A creator goes on only   *)
(* while it has not heard that it lost the lock, and until then it has the *)
(* lock: nobody else is inside, and the sweep, which may remove a          *)
(* directory without the lock, has none of a creator in its hands.         *)
(***************************************************************************)
\* Where a process has had the lock, and where a creator has a staging directory.
Outside == {"idle", "lock", "listStaging", "nextStaging"}
Building == {"markerTemp", "marker", "clone", "publish", "undo"}
Places == Outside \cup Building \cup
  {"look", "reread", "mkdtemp", "touch", "remove", "removeStaging", "rmStaging", "rmSession"}
Inside(p) == proc[p].at \notin Outside

SessionType ==
  [dir : Slots \cup {None}, req : Requests \cup {None}, clones : 0..NRepos,
   meta : Requests \cup {None}, idle : BOOLEAN]
StagingType ==
  [there : BOOLEAN, marker : {"absent", "temp", "written"}, req : Requests \cup {None},
   clones : 0..NRepos, meta : Requests \cup {None}, old : BOOLEAN]
ProcType ==
  [at : Places, op : {"none", "create", "clean", "touch", "sweep", "sweepStaging"},
   req : Requests \cup {None}, slot : Slots \cup {None}, done : 0..NRepos,
   saw : Slots \cup {None}, live : BOOLEAN, answered : BOOLEAN]
ProcOK == proc \in [Procs -> ProcType] /\ todo \subseteq Slots

\* A process that has not heard of an abort has the lock where it should have it.
LockOK ==
  /\ holder # None => Inside(holder)
  /\ \A p \in Callers : Inside(p) /\ (~lost \/ p \notin aborted) => holder = p
  /\ proc[Sweeper].at \in {"look", "reread", "remove"} /\ (~lost \/ Sweeper \notin aborted) =>
       holder = Sweeper

\* A staging directory of a creator is nobody else's, and never was a session.
SlotsOK ==
  /\ \A p \in Callers : proc[p].slot # None => proc[p].at \in Building \cup {"rmStaging"}
  /\ \A p \in Callers : proc[p].slot # None =>
       /\ proc[p].slot # session.dir
       /\ \A q \in Procs : proc[q].saw # proc[p].slot
       /\ \A q \in Callers : proc[q].slot = proc[p].slot => q = p
  /\ \A p \in Callers : proc[p].at \in Building => proc[p].slot # None
  /\ proc[Sweeper].at \in {"reread", "removeStaging"} => proc[Sweeper].slot # None
  /\ proc[Sweeper].at = "lock" /\ proc[Sweeper].op = "sweepStaging" => proc[Sweeper].slot # None

\* What the sweep removes without the lock, or after it lost the lock, is not of a
\* creator that goes on.
SweepOK ==
  /\ proc[Sweeper].at \notin Building
  /\ \A s \in Slots : staging[s].old /\ staging[s].marker # "written" =>
       \A p \in Callers : proc[p].slot # s
  /\ proc[Sweeper].at = "removeStaging" =>
       \A p \in Callers : proc[p].slot = proc[Sweeper].slot => p \in aborted /\ lost
  /\ ~lost /\ proc[Sweeper].at = "remove" => session.idle \/ ~proc[Sweeper].live

\* What a creator that goes on has built is what it counts.
BuiltOK ==
  /\ \A p \in Callers : proc[p].at \in {"idle", "lock", "look", "mkdtemp"} => proc[p].done = 0
  /\ \A p \in Callers : proc[p].at \in {"markerTemp", "marker"} => staging[proc[p].slot].marker # "written"
  /\ \A p \in Callers \ aborted : proc[p].at \in Building \ {"undo"} =>
       LET mine == staging[proc[p].slot] IN
       /\ mine.there /\ mine.req = proc[p].req /\ mine.clones = proc[p].done
       /\ proc[p].at \in {"clone", "publish"} => mine.marker = "written"
       /\ proc[p].at = "publish" => proc[p].done = NRepos /\ mine.meta = proc[p].req

\* A touch writes back what it read, and only into the directory it read it from.
TouchOK ==
  \A p \in Callers : proc[p].at = "touch" =>
    proc[p].saw # None /\ (proc[p].saw = session.dir => proc[p].req = session.req)

Inv == TypeOK /\ ProcOK /\ LockOK /\ SlotsOK /\ SweepOK /\ BuiltOK /\ TouchOK /\ SessionIsWhole

(***************************************************************************)
(* What the other lemmas need of the constants and of the records.         *)
(***************************************************************************)
\* Nobody is not a process, a name or a request, and the sweep is no caller.
LEMMA Names ==
  /\ None \notin Slots /\ None \notin Procs /\ None \notin Requests
  /\ Sweeper \in Procs /\ Sweeper \notin Callers /\ Callers \subseteq Procs
<1>. QED
  BY RepoSessionsAssumption DEF Procs

\* The values of a fresh start have their types.
LEMMA FreshTypes ==
  NoSession \in SessionType /\ NoStaging \in StagingType /\ Idle \in ProcType
<1>1. 0 \in 0..NRepos
  BY RepoSessionsAssumption
<1>2. NoSession \in SessionType
  BY <1>1 DEF NoSession, SessionType
<1>3. NoStaging \in StagingType
  BY <1>1 DEF NoStaging, StagingType
<1>4. Idle \in ProcType
  BY <1>1 DEF Idle, ProcType, Places, Outside, Building
<1> QED
  BY <1>2, <1>3, <1>4

\* The type invariant by the names of the types.
LEMMA TypeByNames ==
  TypeOK <=>
    /\ session \in SessionType /\ staging \in [Slots -> StagingType] /\ trash \subseteq Slots
    /\ holder \in Procs \cup {None}
    /\ holder # None => proc[holder].at \notin {"idle", "lock"}
    /\ aborted \subseteq Procs /\ lost \in BOOLEAN
    /\ live \in BOOLEAN /\ starts \in 0..MaxStarts /\ accidents \in 0..MaxAccidents
<1>. QED
  BY DEF TypeOK, SessionType, StagingType

(***************************************************************************)
(* Leaving, undoing and building: what the steps of callers have in common.*)
(***************************************************************************)
\* Whoever is gone has nothing any more, and those that stay keep what they have.
LEMMA GoneKeepsInv ==
  ASSUME Inv, NEW p \in Procs, NEW gone \in ProcType, proc' = [proc EXCEPT ![p] = gone],
         gone.at \in {"idle", "listStaging", "nextStaging"}, p # Sweeper => gone.at = "idle",
         gone.slot = None, gone.saw = None, gone.done = 0,
         Unlock(p), lost' = lost,
         aborted' = aborted \ {p} \/ (p = Sweeper /\ aborted' = aborted),
         UNCHANGED <<todo, live, starts>>, accidents' \in 0..MaxAccidents,
         session' \in SessionType, trash' \subseteq Slots,
         session' = session \/ (p \in Callers /\ Inside(p)),
         session'.dir \in {session.dir, None, proc[p].slot},
         session'.dir = session.dir => session'.req = session.req,
         SessionIsWhole',
         \/ staging' = staging
         \/ p \in Callers /\ staging' = [staging EXCEPT ![proc[p].slot] = NoStaging]
  PROVE  Inv'
<1>1. proc[p] \in ProcType /\ proc \in [Procs -> ProcType]
  BY DEF Inv, ProcOK
<1>2. proc'[p] = gone /\ \A q \in Procs : q # p => proc'[q] = proc[q]
  BY <1>1
<1>3. holder' = (IF holder = p THEN None ELSE holder) /\ \A q \in Callers \ {p} : q \in aborted' <=> q \in aborted
  BY Names DEF Unlock
<1>4. ProcOK'
  BY <1>1 DEF Inv, ProcOK
<1>5. holder' # None => Inside(holder)' /\ holder' # p
  BY <1>2, <1>3, TypeByNames DEF Inv, LockOK, Inside
<1>6. staging' \in [Slots -> StagingType]
  BY FreshTypes, TypeByNames DEF Inv
<1>7. TypeOK'
  <2>1. holder' \in Procs \cup {None} /\ aborted' \subseteq Procs
    BY <1>3, TypeByNames DEF Inv
  <2>2. holder' # None => proc'[holder'].at \notin {"idle", "lock"}
    BY <1>5 DEF Inside, Outside
  <2> QED
    BY <1>3, <1>6, <2>1, <2>2, TypeByNames DEF Inv, SessionType, StagingType, TypeOK
<1>8. LockOK'
  <2>1. \A q \in Callers : Inside(q)' /\ (~lost' \/ q \notin aborted') => holder' = q
    BY <1>2, <1>3, Names DEF Inv, LockOK, Inside, Outside
  <2>2. proc'[Sweeper].at \in {"look", "reread", "remove"} /\ (~lost' \/ Sweeper \notin aborted') =>
          holder' = Sweeper
    BY <1>2, <1>3, Names DEF Inv, LockOK
  <2> QED
    BY <1>5, <2>1, <2>2 DEF LockOK
<1>9. SlotsOK'
  BY <1>2, Names DEF Inv, SlotsOK, Building
<1>10. SweepOK'
  <2>1. proc'[Sweeper].at \notin Building
    BY <1>2, Names DEF Inv, SweepOK, Building
  <2>2. \A s \in Slots : staging'[s].old /\ staging'[s].marker # "written" =>
          \A q \in Callers : proc'[q].slot # s
    BY <1>2, Names, TypeByNames DEF Inv, SweepOK, NoStaging
  <2>3. proc'[Sweeper].at = "removeStaging" =>
          \A q \in Callers : proc'[q].slot = proc'[Sweeper].slot => q \in aborted' /\ lost'
    BY <1>2, <1>3, Names DEF Inv, SweepOK, SlotsOK
  <2>4. ~lost' /\ proc'[Sweeper].at = "remove" => session'.idle \/ ~proc'[Sweeper].live
    BY <1>2, <1>3, Names DEF Inv, SweepOK, LockOK
  <2> QED
    BY <2>1, <2>2, <2>3, <2>4 DEF SweepOK
<1>11. BuiltOK'
  <2>1. \A q \in Callers : proc'[q].at \in Building /\ q # p => staging'[proc'[q].slot] = staging[proc[q].slot]
    <3> SUFFICES ASSUME NEW q \in Callers, proc'[q].at \in Building, q # p
                 PROVE  staging'[proc'[q].slot] = staging[proc[q].slot]
      OBVIOUS
    <3>1. proc'[q] = proc[q] /\ proc[q].slot # None /\ proc[q].slot \in Slots
      BY <1>1, <1>2, Names DEF Inv, SlotsOK, ProcType
    <3>2. p \in Callers => proc[q].slot # proc[p].slot
      BY <3>1 DEF Inv, SlotsOK
    <3> QED
      BY <3>1, <3>2, TypeByNames DEF Inv
  <2> QED
    BY <1>2, <1>3, <2>1, Names DEF Inv, BuiltOK, Building
<1>12. TouchOK'
  BY <1>2, Names DEF Inv, TouchOK, SlotsOK, ProcOK, ProcType
<1> QED
  BY <1>4, <1>7, <1>8, <1>9, <1>10, <1>11, <1>12 DEF Inv

\* Leaving an operation under the lock is to be gone in this sense.
LEMMA LeaveKeepsInv ==
  ASSUME Inv, NEW p \in Procs, NEW ok, Leave(p, ok),
         proc[p].at \notin {"idle", "listStaging", "nextStaging"},
         UNCHANGED <<todo, live, starts>>, accidents' \in 0..MaxAccidents,
         session' \in SessionType, trash' \subseteq Slots,
         session' = session \/ (p \in Callers /\ Inside(p)),
         session'.dir \in {session.dir, None, proc[p].slot},
         session'.dir = session.dir => session'.req = session.req,
         SessionIsWhole',
         \/ staging' = staging
         \/ p \in Callers /\ staging' = [staging EXCEPT ![proc[p].slot] = NoStaging]
  PROVE  Inv'
<1>. DEFINE gone == IF p = Sweeper
                    THEN [Idle EXCEPT !.op = "sweepStaging", !.live = proc[p].live,
                            !.at = IF proc[p].op = "sweep" THEN "listStaging" ELSE "nextStaging"]
                    ELSE [Idle EXCEPT !.answered = ok /\ holder = p]
<1>1. proc[p] \in ProcType /\ proc \in [Procs -> ProcType]
  BY DEF Inv, ProcOK
<1>2. gone \in ProcType
  <2>1. CASE p = Sweeper
    <3>1. (IF proc[p].op = "sweep" THEN "listStaging" ELSE "nextStaging") \in Places
      BY DEF Places, Outside
    <3>2. proc[p].live \in BOOLEAN
      BY <1>1 DEF ProcType
    <3> QED
      BY <2>1, <3>1, <3>2, FreshTypes DEF ProcType, Idle
  <2>2. CASE p # Sweeper
    <3>1. (ok /\ holder = p) \in BOOLEAN
      OBVIOUS
    <3> QED
      BY <2>2, <3>1, FreshTypes DEF ProcType, Idle
  <2> QED
    BY <2>1, <2>2
<1>3. /\ gone.at \in {"idle", "listStaging", "nextStaging"}
      /\ gone.slot = None /\ gone.saw = None /\ gone.done = 0
      /\ (p # Sweeper => gone.at = "idle")
  BY DEF Idle
<1>4. proc' = [proc EXCEPT ![p] = gone] /\ Unlock(p) /\ lost' = lost
      /\ aborted' = (IF p = Sweeper THEN aborted ELSE aborted \ {p})
  BY DEF Leave
<1>. HIDE DEF gone
<1> QED
  BY <1>2, <1>3, <1>4, GoneKeepsInv

\* A process goes on to r while the disk and the lock stay as they are.
LEMMA StepKeepsInv ==
  ASSUME Inv, NEW p \in Procs, NEW r \in ProcType, proc' = [proc EXCEPT ![p] = r],
         UNCHANGED <<disk, holder, lost, live>>, todo' \subseteq Slots,
         starts' \in 0..MaxStarts, accidents' \in 0..MaxAccidents,
         aborted' = aborted \/ (r.at = "idle" /\ aborted' = aborted \ {p}),
         holder = p => r.at \notin Outside,
         r.saw \in {None, session.dir, proc[p].saw},
         p \in Callers =>
           /\ r.at \notin Outside => Inside(p)
           /\ r.slot = proc[p].slot
           /\ r.slot # None => r.at \in {"undo", "rmStaging"}
           /\ r.at \in Building => r.at = "undo" /\ r.slot # None
           /\ r.at \in {"idle", "lock", "look", "mkdtemp"} => r.done = 0
           /\ r.at = "touch" => r.saw # None /\ (r.saw = session.dir => r.req = session.req),
         p = Sweeper =>
           /\ r.at \notin Building
           /\ r.at \in {"look", "reread", "remove"} => proc[p].at \in {"look", "reread", "remove"}
           /\ r.at \in {"reread", "removeStaging"} => r.slot # None
           /\ r.at = "lock" /\ r.op = "sweepStaging" => r.slot # None
           /\ r.at = "removeStaging" => \A q \in Callers : proc[q].slot = r.slot => q \in aborted /\ lost
           /\ ~lost /\ r.at = "remove" => session.idle \/ ~r.live
  PROVE  Inv'
<1>1. proc \in [Procs -> ProcType]
  BY DEF Inv, ProcOK
<1>2. proc'[p] = r /\ \A q \in Procs : q # p => proc'[q] = proc[q]
  BY <1>1
<1>3. ProcOK'
  BY <1>1 DEF ProcOK
<1>4. session' = session /\ staging' = staging /\ trash' = trash
  BY DEF disk
<1>5. TypeOK'
  <2>1. aborted' \subseteq Procs
    BY TypeByNames DEF Inv
  <2>2. holder' # None => proc'[holder'].at \notin {"idle", "lock"}
    BY <1>2, TypeByNames DEF Inv, Outside
  <2> QED
    BY <1>4, <2>1, <2>2, TypeByNames DEF Inv, TypeOK
<1>6. LockOK'
  <2>1. holder' # None => Inside(holder)'
    BY <1>2, TypeByNames DEF Inv, LockOK, Inside
  <2>2. \A q \in Callers : Inside(q)' /\ (~lost' \/ q \notin aborted') => holder' = q
    BY <1>2, Names DEF Inv, LockOK, Inside, Outside
  <2>3. proc'[Sweeper].at \in {"look", "reread", "remove"} /\ (~lost' \/ Sweeper \notin aborted') =>
          holder' = Sweeper
    BY <1>2, Names DEF Inv, LockOK
  <2> QED
    BY <2>1, <2>2, <2>3 DEF LockOK
<1>7. SlotsOK'
  <2>1. \A q \in Callers : proc'[q].slot = proc[q].slot
    BY <1>2, Names
  <2>2. \A q \in Procs, t \in Callers : proc[t].slot # None => proc'[q].saw # proc[t].slot
    BY <1>2, Names DEF Inv, SlotsOK
  <2>3. \A q \in Callers : proc'[q].slot # None =>
          /\ proc'[q].slot # session'.dir
          /\ \A t \in Procs : proc'[t].saw # proc'[q].slot
          /\ \A t \in Callers : proc'[t].slot = proc'[q].slot => t = q
    BY <1>4, <2>1, <2>2 DEF Inv, SlotsOK
  <2>4. \A q \in Callers : proc'[q].slot # None => proc'[q].at \in Building \cup {"rmStaging"}
    BY <1>2, Names DEF Inv, SlotsOK, Building
  <2>5. \A q \in Callers : proc'[q].at \in Building => proc'[q].slot # None
    BY <1>2, Names DEF Inv, SlotsOK
  <2>6. /\ proc'[Sweeper].at \in {"reread", "removeStaging"} => proc'[Sweeper].slot # None
        /\ proc'[Sweeper].at = "lock" /\ proc'[Sweeper].op = "sweepStaging" => proc'[Sweeper].slot # None
    BY <1>2, Names DEF Inv, SlotsOK
  <2> QED
    BY <2>3, <2>4, <2>5, <2>6 DEF SlotsOK
<1>8. SweepOK'
  <2>1. \A q \in Callers : proc'[q].slot = proc[q].slot /\ (q \in aborted' \/ q \notin aborted \/ r.at = "idle")
    BY <1>2, Names
  <2>2. proc'[Sweeper].at \notin Building
    BY <1>2, Names DEF Inv, SweepOK
  <2>3. \A s \in Slots : staging'[s].old /\ staging'[s].marker # "written" =>
          \A q \in Callers : proc'[q].slot # s
    BY <1>4, <2>1 DEF Inv, SweepOK
  <2>4. proc'[Sweeper].at = "removeStaging" =>
          \A q \in Callers : proc'[q].slot = proc'[Sweeper].slot => q \in aborted' /\ lost'
    <3> SUFFICES ASSUME proc'[Sweeper].at = "removeStaging", NEW q \in Callers,
                        proc'[q].slot = proc'[Sweeper].slot
                 PROVE  q \in aborted' /\ lost'
      OBVIOUS
    <3>1. q \in aborted /\ lost /\ proc'[q].slot # None
      BY <1>2, <2>1, Names DEF Inv, SweepOK, SlotsOK
    <3>2. proc'[q].at # "idle"
      BY <3>1, <1>2, Names DEF Inv, SlotsOK, Building
    <3> QED
      BY <1>2, <3>1, <3>2, Names
  <2>5. ~lost' /\ proc'[Sweeper].at = "remove" => session'.idle \/ ~proc'[Sweeper].live
    BY <1>2, <1>4, Names DEF Inv, SweepOK
  <2> QED
    BY <2>2, <2>3, <2>4, <2>5 DEF SweepOK
<1>9. BuiltOK'
  BY <1>2, <1>4, Names DEF Inv, BuiltOK, Building
<1>10. TouchOK'
  BY <1>2, <1>4, Names DEF Inv, TouchOK
<1>11. SessionIsWhole'
  BY <1>4 DEF Inv, SessionIsWhole, Exists
<1> QED
  BY <1>3, <1>5, <1>6, <1>7, <1>8, <1>9, <1>10, <1>11 DEF Inv

\* A creator builds on in its own directory, and counts what it has built.
LEMMA BuildKeepsInv ==
  ASSUME Inv, NEW p \in Callers, proc[p].at \in Building \ {"publish", "undo"},
         NEW d \in StagingType, staging' = [staging EXCEPT ![proc[p].slot] = d],
         NEW r \in ProcType, proc' = [proc EXCEPT ![p] = r],
         UNCHANGED <<session, trash, lock, world, todo>>,
         r.slot = proc[p].slot, r.saw = proc[p].saw, r.at \in Building \ {"undo"},
         d.old => d.marker = "written",
         r.at \in {"markerTemp", "marker"} => d.marker # "written",
         p \notin aborted =>
           /\ d.there /\ d.req = r.req /\ d.clones = r.done
           /\ r.at \in {"clone", "publish"} => d.marker = "written"
           /\ r.at = "publish" => r.done = NRepos /\ d.meta = r.req
  PROVE  Inv'
<1>1. proc \in [Procs -> ProcType] /\ staging \in [Slots -> StagingType]
  BY TypeByNames DEF Inv, ProcOK
<1>2. p \in Procs /\ proc'[p] = r /\ \A q \in Procs : q # p => proc'[q] = proc[q]
  BY <1>1, Names
<1>3. proc[p].slot \in Slots /\ proc[p].slot # None
  BY <1>1, <1>2, Names DEF Inv, SlotsOK, ProcType
<1>4. staging'[proc[p].slot] = d /\ \A s \in Slots : s # proc[p].slot => staging'[s] = staging[s]
  BY <1>1, <1>3
<1>5. ProcOK'
  BY <1>1, <1>2 DEF Inv, ProcOK
<1>6. UNCHANGED <<session, trash, holder, aborted, lost, live, starts, accidents>>
  BY DEF lock, world
<1>7. TypeOK'
  <2>1. staging' \in [Slots -> StagingType]
    BY <1>1
  <2>2. holder' # None => proc'[holder'].at \notin {"idle", "lock"}
    BY <1>2, <1>6, TypeByNames DEF Inv, Building
  <2> QED
    BY <1>6, <2>1, <2>2, TypeByNames DEF Inv, TypeOK, StagingType
<1>8. LockOK'
  BY <1>2, <1>6, Names, TypeByNames DEF Inv, LockOK, Inside, Outside, Building
<1>9. SlotsOK'
  BY <1>2, <1>6, Names DEF Inv, SlotsOK
<1>10. SweepOK'
  <2>1. \A s \in Slots : staging'[s].old /\ staging'[s].marker # "written" =>
          \A q \in Callers : proc'[q].slot # s
    BY <1>2, <1>4, Names DEF Inv, SweepOK
  <2> QED
    BY <1>2, <1>6, <2>1, Names DEF Inv, SweepOK
<1>11. BuiltOK'
  <2>1. \A q \in Callers : q # p /\ proc[q].at \in Building => staging'[proc[q].slot] = staging[proc[q].slot]
    BY <1>1, <1>2, <1>3, <1>4, Names DEF Inv, SlotsOK, ProcType
  <2> QED
    BY <1>2, <1>4, <1>6, <2>1, Names DEF Inv, BuiltOK, Building
<1>12. TouchOK'
  BY <1>2, <1>6, Names DEF Inv, TouchOK, Building
<1>13. SessionIsWhole'
  BY <1>6 DEF Inv, SessionIsWhole, Exists
<1> QED
  BY <1>5, <1>7, <1>8, <1>9, <1>10, <1>11, <1>12, <1>13 DEF Inv

\* A staging directory is renamed away or removed: no creator that goes on has it.
LEMMA DropKeepsInv ==
  ASSUME Inv, NEW s \in Slots, staging' = [staging EXCEPT ![s] = NoStaging],
         \A q \in Callers : proc[q].slot = s => q \in aborted \/ proc[q].at = "undo",
         \/ proc' = proc
         \/ \E p \in Procs : proc[p].at \in {"undo", "removeStaging"} /\ Goto(p, "rmStaging"),
         UNCHANGED <<session, lock, world>>, trash' \subseteq Slots, todo' \subseteq Slots
  PROVE  Inv'
<1>1. proc \in [Procs -> ProcType] /\ staging \in [Slots -> StagingType]
  BY TypeByNames DEF Inv, ProcOK
<1>2. \A q \in Procs :
        /\ proc'[q].slot = proc[q].slot /\ proc'[q].saw = proc[q].saw /\ proc'[q].req = proc[q].req
        /\ proc'[q].done = proc[q].done /\ proc'[q].live = proc[q].live /\ proc'[q].op = proc[q].op
        /\ \/ proc'[q].at = proc[q].at
           \/ proc[q].at \in {"undo", "removeStaging"} /\ proc'[q].at = "rmStaging"
  BY <1>1 DEF Goto, ProcType
<1>3. proc' \in [Procs -> ProcType]
  BY <1>1 DEF Goto, ProcType, Places
<1>4. staging'[s] = NoStaging /\ \A t \in Slots : t # s => staging'[t] = staging[t]
  BY <1>1
<1>5. UNCHANGED <<session, holder, aborted, lost, live, starts, accidents>>
  BY DEF lock, world
<1>6. ProcOK'
  BY <1>3 DEF ProcOK
<1>7. TypeOK'
  <2>1. staging' \in [Slots -> StagingType]
    BY <1>1, FreshTypes
  <2>2. holder' # None => proc'[holder'].at \notin {"idle", "lock"}
    BY <1>2, <1>5, TypeByNames DEF Inv
  <2> QED
    BY <1>5, <2>1, <2>2, TypeByNames DEF Inv, TypeOK, StagingType
<1>8. LockOK'
  BY <1>2, <1>5, Names, TypeByNames DEF Inv, LockOK, Inside, Outside
<1>9. SlotsOK'
  BY <1>2, <1>5, Names DEF Inv, SlotsOK, Building
<1>10. SweepOK'
  <2>1. \A t \in Slots : staging'[t].old /\ staging'[t].marker # "written" =>
          \A q \in Callers : proc'[q].slot # t
    BY <1>2, <1>4, Names DEF Inv, SweepOK, NoStaging
  <2> QED
    BY <1>2, <1>5, <2>1, Names DEF Inv, SweepOK, Building
<1>11. BuiltOK'
  <2>1. \A q \in Callers : proc[q].at \in Building \ {"undo"} /\ proc[q].slot # s =>
          staging'[proc[q].slot] = staging[proc[q].slot]
    BY <1>1, <1>4, Names DEF Inv, SlotsOK, ProcType
  <2>2. \A q \in Callers : proc'[q].at \in {"markerTemp", "marker"} =>
          staging'[proc'[q].slot].marker # "written"
    BY <1>2, <1>4, <2>1, Names DEF Inv, BuiltOK, NoStaging, Building
  <2> QED
    BY <1>2, <1>5, <2>1, <2>2, Names DEF Inv, BuiltOK, Building
<1>12. TouchOK'
  BY <1>2, <1>5, Names DEF Inv, TouchOK
<1>13. SessionIsWhole'
  BY <1>5 DEF Inv, SessionIsWhole, Exists
<1> QED
  BY <1>6, <1>7, <1>8, <1>9, <1>10, <1>11, <1>12, <1>13 DEF Inv

(***************************************************************************)
(* One lemma for each action.                                              *)
(***************************************************************************)
\* An operation starts outside the lock, with nothing in its hands.
LEMMA StartKeepsInv ==
  ASSUME Inv, NEW p \in Callers, NEW op \in {"create", "clean", "touch"},
         NEW r \in Requests \cup {None}, Start(p, op, r), UNCHANGED todo
  PROVE  Inv'
<1>. DEFINE x == [Idle EXCEPT !.at = "lock", !.op = op, !.req = r]
<1>1. x \in ProcType
  BY FreshTypes DEF ProcType, Places, Outside
<1>2. x.at = "lock" /\ x.slot = None /\ x.saw = None /\ x.done = 0
  BY DEF Idle
<1>3. /\ proc' = [proc EXCEPT ![p] = x] /\ starts' = starts + 1 /\ starts < MaxStarts
      /\ proc[p].at = "idle" /\ UNCHANGED <<disk, lock, live, accidents, todo>>
  BY DEF Start, At
<1>. HIDE DEF x
<1>4. proc[p].slot = None /\ holder # p /\ todo \subseteq Slots
  BY <1>3, Names DEF Inv, ProcOK, LockOK, SlotsOK, Inside, Outside, Building
<1>5. starts' \in 0..MaxStarts /\ accidents' \in 0..MaxAccidents
  BY <1>3, RepoSessionsAssumption DEF Inv, TypeOK
<1> QED
  BY <1>1, <1>2, <1>3, <1>4, <1>5, StepKeepsInv, Names DEF lock, Outside, Building

\* Whoever gets the lock is the only one inside that has not heard of an abort.
LEMMA AcquireKeepsInv ==
  ASSUME Inv, NEW p \in Procs, Acquire(p), UNCHANGED todo
  PROVE  Inv'
<1>. DEFINE where == IF proc[p].op = "sweepStaging" THEN "reread" ELSE "look"
<1>1. /\ proc[p].at = "lock" /\ p \notin aborted /\ holder = None /\ holder' = p
      /\ UNCHANGED <<disk, aborted, lost, live, starts, accidents, todo>>
      /\ proc' = [proc EXCEPT ![p].at = where]
  BY DEF Acquire, At, Lock, Goto, world
<1>2. where \in {"reread", "look"} /\ (where = "reread" => proc[p].op = "sweepStaging")
  OBVIOUS
<1>. HIDE DEF where
<1>3. proc \in [Procs -> ProcType]
  BY DEF Inv, ProcOK
<1>4. /\ proc' \in [Procs -> ProcType] /\ proc'[p].at = where
      /\ \A q \in Procs : q # p => proc'[q] = proc[q]
      /\ proc'[p].slot = proc[p].slot /\ proc'[p].saw = proc[p].saw /\ proc'[p].done = proc[p].done
  BY <1>1, <1>2, <1>3 DEF ProcType, Places
<1>5. \A q \in Callers : Inside(q) => q \in aborted /\ lost
  BY <1>1, Names DEF Inv, LockOK
<1>6. ProcOK'
  BY <1>1, <1>4 DEF Inv, ProcOK
<1>7. TypeOK'
  BY <1>1, <1>2, <1>4 DEF Inv, TypeOK, disk
<1>8. LockOK'
  <2>1. p \notin Callers => p = Sweeper
    BY DEF Procs
  <2>2. proc[Sweeper].at \in {"look", "reread", "remove"} => lost /\ Sweeper \in aborted
    BY <1>1, Names DEF Inv, LockOK
  <2> QED
    BY <1>1, <1>2, <1>4, <1>5, <2>1, <2>2, Names DEF LockOK, Inside, Outside
<1>9. SlotsOK'
  BY <1>1, <1>2, <1>4, Names DEF Inv, SlotsOK, disk, Building
<1>10. SweepOK'
  BY <1>1, <1>2, <1>4, Names DEF Inv, SweepOK, disk, Building
<1>11. BuiltOK' /\ TouchOK'
  BY <1>1, <1>2, <1>4, Names DEF Inv, BuiltOK, TouchOK, disk, Building
<1>12. SessionIsWhole'
  BY <1>1 DEF Inv, SessionIsWhole, Exists, disk
<1> QED
  BY <1>6, <1>7, <1>8, <1>9, <1>10, <1>11, <1>12 DEF Inv

\* An operation that fails under the lock leaves the disk as it is.
LEMMA FailsKeepsInv ==
  ASSUME Inv, NEW p \in Procs, Fails(p), proc[p].at \notin {"idle", "listStaging", "nextStaging"},
         UNCHANGED todo
  PROVE  Inv'
<1>1. Leave(p, FALSE) /\ UNCHANGED <<session, staging, trash, todo, live, starts, accidents>>
  BY DEF Fails, disk, world
<1>2. session' \in SessionType /\ trash' \subseteq Slots /\ accidents' \in 0..MaxAccidents /\ SessionIsWhole'
  BY <1>1, TypeByNames DEF Inv, SessionIsWhole, Exists
<1> QED
  BY <1>1, <1>2, LeaveKeepsInv

\* The same with a result, or with an accident on the way.
LEMMA LeavesKeepsInv ==
  ASSUME Inv, NEW p \in Procs, NEW ok, Leave(p, ok),
         proc[p].at \notin {"idle", "listStaging", "nextStaging"},
         UNCHANGED <<session, staging, todo, live, starts>>, trash' \subseteq Slots,
         accidents' \in 0..MaxAccidents
  PROVE  Inv'
<1>1. session' \in SessionType /\ SessionIsWhole'
  BY TypeByNames DEF Inv, SessionIsWhole, Exists
<1> QED
  BY <1>1, LeaveKeepsInv

\* A lock that is not got in time is an accident of who waited.
LEMMA LockTimesOutKeepsInv ==
  ASSUME Inv, NEW p \in Procs, LockTimesOut(p), UNCHANGED todo
  PROVE  Inv'
<1>1. accidents' \in 0..MaxAccidents
  BY RepoSessionsAssumption DEF Inv, TypeOK, LockTimesOut, Accident
<1>2. trash' \subseteq Slots
  BY DEF Inv, TypeOK, LockTimesOut, disk
<1> QED
  BY <1>1, <1>2, LeavesKeepsInv DEF LockTimesOut, At, disk

\* A creator goes wrong where it builds: it has its directory to undo.
LEMMA UndoesKeepsInv ==
  ASSUME Inv, NEW p \in Callers, proc[p].at \in Building, Goto(p, "undo"),
         UNCHANGED <<disk, lock, live, starts, todo>>, accidents' \in 0..MaxAccidents
  PROVE  Inv'
<1>. DEFINE x == [proc[p] EXCEPT !.at = "undo"]
<1>1. p \in Procs /\ proc \in [Procs -> ProcType] /\ proc[p] \in ProcType
  BY Names DEF Inv, ProcOK
<1>2. x \in ProcType
  BY <1>1 DEF ProcType, Places, Building
<1>3. x.at = "undo" /\ x.slot = proc[p].slot /\ x.saw = proc[p].saw
  BY <1>1 DEF ProcType
<1>4. proc' = [proc EXCEPT ![p] = x]
  BY DEF Goto
<1>. HIDE DEF x
<1>5. proc[p].slot # None /\ Inside(p)
  BY DEF Inv, SlotsOK, Inside, Building, Outside
<1>6. todo' \subseteq Slots /\ starts' \in 0..MaxStarts
  BY DEF Inv, ProcOK, TypeOK
<1>7. UNCHANGED <<holder, lost, live, aborted>>
  BY DEF lock
<1> QED
  BY <1>1, <1>2, <1>3, <1>4, <1>5, <1>6, <1>7, StepKeepsInv, Names DEF Outside, Building

\* A creator answers the session there is, or goes on to build one.
LEMMA LookForSessionKeepsInv ==
  ASSUME Inv, NEW p \in Callers, LookForSession(p), UNCHANGED todo
  PROVE  Inv'
<1>1. p \in Procs /\ proc[p] \in ProcType /\ proc[p].at = "look"
  BY Names DEF Inv, ProcOK, LookForSession, At
<1>2. CASE p \in aborted \/ Exists \/ ~live
  <2>1. Leave(p, p \notin aborted /\ Exists /\ Matches(p)) /\ UNCHANGED <<disk, world>>
    BY <1>2 DEF LookForSession
  <2>2. trash' \subseteq Slots /\ accidents' \in 0..MaxAccidents
    BY <2>1 DEF Inv, TypeOK, disk, world
  <2> QED
    BY <1>1, <2>1, <2>2, LeavesKeepsInv DEF disk, world
<1>3. CASE ~(p \in aborted \/ Exists \/ ~live)
  <2>. DEFINE x == [proc[p] EXCEPT !.at = "mkdtemp"]
  <2>1. x \in ProcType
    BY <1>1 DEF ProcType, Places
  <2>2. x.at = "mkdtemp" /\ x.slot = proc[p].slot /\ x.saw = proc[p].saw /\ x.done = proc[p].done
    BY <1>1 DEF ProcType
  <2>3. proc' = [proc EXCEPT ![p] = x] /\ UNCHANGED <<disk, lock, world>>
    BY <1>3 DEF LookForSession, Goto
  <2>. HIDE DEF x
  <2>4. proc[p].slot = None /\ Inside(p) /\ proc[p].done = 0
    BY <1>1 DEF Inv, SlotsOK, BuiltOK, Inside, Outside, Building
  <2>5. todo' \subseteq Slots /\ starts' \in 0..MaxStarts /\ accidents' \in 0..MaxAccidents
    BY <2>3 DEF Inv, ProcOK, TypeOK, world
  <2>6. UNCHANGED <<holder, lost, live, aborted>>
    BY <2>3 DEF lock, world
  <2> QED
    BY <1>1, <2>1, <2>2, <2>3, <2>4, <2>5, <2>6, StepKeepsInv, Names DEF Outside, Building
<1> QED
  BY <1>2, <1>3

\* The staging directory has a name that nobody has, remembers or once published.
LEMMA MakeStagingKeepsInv ==
  ASSUME Inv, NEW p \in Callers, MakeStaging(p), UNCHANGED todo
  PROVE  Inv'
<1>1. PICK s \in Slots :
        /\ NewName(s)
        /\ staging' = [staging EXCEPT ![s] = [NoStaging EXCEPT !.there = TRUE, !.req = proc[p].req]]
        /\ proc' = [proc EXCEPT ![p].slot = s,
                                ![p].at = IF p \in aborted THEN "undo" ELSE "markerTemp"]
  BY DEF MakeStaging
<1>. DEFINE d == [NoStaging EXCEPT !.there = TRUE, !.req = proc[p].req]
            where == IF p \in aborted THEN "undo" ELSE "markerTemp"
<1>2. /\ p \in Procs /\ proc \in [Procs -> ProcType] /\ proc[p] \in ProcType
      /\ staging \in [Slots -> StagingType] /\ proc[p].at = "mkdtemp" /\ s # None
  BY Names, TypeByNames DEF Inv, ProcOK, MakeStaging, At
<1>3. d \in StagingType
  BY <1>2, FreshTypes DEF StagingType, ProcType
<1>4. d.there /\ d.req = proc[p].req /\ d.clones = 0 /\ d.old = FALSE /\ d.marker = "absent"
  BY DEF NoStaging
<1>5. where \in {"undo", "markerTemp"} /\ (where = "markerTemp" <=> p \notin aborted)
  OBVIOUS
<1>6. staging' = [staging EXCEPT ![s] = d]
      /\ proc' = [proc EXCEPT ![p] = [proc[p] EXCEPT !.slot = s, !.at = where]]
  BY <1>1
<1>. HIDE DEF d, where
<1>7. staging'[s] = d /\ \A t \in Slots : t # s => staging'[t] = staging[t]
  BY <1>2, <1>6
<1>8. /\ proc' \in [Procs -> ProcType] /\ proc'[p].at = where /\ proc'[p].slot = s
      /\ proc'[p].saw = proc[p].saw /\ proc'[p].done = proc[p].done /\ proc'[p].req = proc[p].req
      /\ \A q \in Procs : q # p => proc'[q] = proc[q]
  BY <1>2, <1>5, <1>6 DEF ProcType, Places, Building
<1>9. UNCHANGED <<session, trash, holder, aborted, lost, live, starts, accidents, todo>>
  BY DEF MakeStaging, lock, world
<1>10. s # session.dir /\ \A q \in Procs : s # proc[q].slot /\ s # proc[q].saw
  BY <1>1 DEF NewName
<1>11. ProcOK'
  BY <1>8, <1>9 DEF Inv, ProcOK
<1>12. TypeOK'
  <2>1. staging' \in [Slots -> StagingType]
    BY <1>2, <1>3, <1>6
  <2>2. holder' # None => proc'[holder'].at \notin {"idle", "lock"}
    BY <1>2, <1>5, <1>8, <1>9, TypeByNames DEF Inv
  <2> QED
    BY <1>9, <2>1, <2>2, TypeByNames DEF Inv, TypeOK, StagingType
<1>13. LockOK'
  BY <1>2, <1>5, <1>8, <1>9, Names, TypeByNames DEF Inv, LockOK, Inside, Outside
<1>14. SlotsOK'
  BY <1>2, <1>5, <1>8, <1>9, <1>10, Names DEF Inv, SlotsOK, Building
<1>15. SweepOK'
  <2>1. \A t \in Slots : staging'[t].old /\ staging'[t].marker # "written" =>
          \A q \in Callers : proc'[q].slot # t
    BY <1>4, <1>7, <1>8, Names DEF Inv, SweepOK
  <2>2. proc'[Sweeper] = proc[Sweeper] /\ s # proc[Sweeper].slot
    BY <1>8, <1>10, Names
  <2> QED
    BY <1>8, <1>9, <2>1, <2>2, Names DEF Inv, SweepOK
<1>16. BuiltOK'
  <2>1. \A q \in Callers : q # p /\ proc[q].at \in Building =>
          proc[q].slot \in Slots /\ staging'[proc[q].slot] = staging[proc[q].slot]
    BY <1>2, <1>7, <1>10, Names DEF Inv, SlotsOK, ProcType
  <2>2. proc[p].done = 0
    BY <1>2 DEF Inv, BuiltOK
  <2> QED
    BY <1>4, <1>5, <1>7, <1>8, <1>9, <2>1, <2>2, Names DEF Inv, BuiltOK, Building
<1>17. TouchOK'
  BY <1>5, <1>8, <1>9, Names DEF Inv, TouchOK
<1>18. SessionIsWhole'
  BY <1>9 DEF Inv, SessionIsWhole, Exists
<1> QED
  BY <1>11, <1>12, <1>13, <1>14, <1>15, <1>16, <1>17, <1>18 DEF Inv

\* The temporary file of the marker is written into a directory that has none.
LEMMA WriteMarkerTempKeepsInv ==
  ASSUME Inv, NEW p \in Callers, WriteMarkerTemp(p), UNCHANGED todo
  PROVE  Inv'
<1>1. /\ p \in Procs /\ proc[p] \in ProcType /\ proc[p].at = "markerTemp" /\ proc[p].slot \in Slots
      /\ staging[proc[p].slot] \in StagingType /\ UNCHANGED <<session, trash, lock, world, todo>>
  BY Names, TypeByNames DEF Inv, ProcOK, ProcType, SlotsOK, Building, WriteMarkerTemp, At
<1>2. CASE Mine(p).there
  <2>. DEFINE d == [staging[proc[p].slot] EXCEPT !.marker = "temp"]
              x == [proc[p] EXCEPT !.at = "marker"]
  <2>1. d \in StagingType /\ x \in ProcType
    BY <1>1 DEF StagingType, ProcType, Places, Building
  <2>2. /\ d.marker = "temp" /\ d.there = staging[proc[p].slot].there /\ d.req = staging[proc[p].slot].req
        /\ d.clones = staging[proc[p].slot].clones /\ d.old = staging[proc[p].slot].old
        /\ x.at = "marker" /\ x.slot = proc[p].slot /\ x.saw = proc[p].saw /\ x.req = proc[p].req
        /\ x.done = proc[p].done
    BY <1>1 DEF StagingType, ProcType
  <2>3. staging' = [staging EXCEPT ![proc[p].slot] = d] /\ proc' = [proc EXCEPT ![p] = x]
    BY <1>2 DEF WriteMarkerTemp, Goto
  <2>. HIDE DEF d, x
  <2>4. ~staging[proc[p].slot].old
    BY <1>1 DEF Inv, SweepOK, BuiltOK
  <2>5. p \notin aborted => d.there /\ d.req = x.req /\ d.clones = x.done
    BY <1>1, <2>2 DEF Inv, BuiltOK, Building
  <2> QED
    BY <1>1, <2>1, <2>2, <2>3, <2>4, <2>5, BuildKeepsInv DEF Building
<1>3. CASE ~Mine(p).there
  BY <1>1, <1>3, UndoesKeepsInv DEF WriteMarkerTemp, Inv, TypeOK, Building, disk, world
<1> QED
  BY <1>2, <1>3

\* From its rename on the marker says that the lock of the session decides.
LEMMA RenameMarkerKeepsInv ==
  ASSUME Inv, NEW p \in Callers, RenameMarker(p), UNCHANGED todo
  PROVE  Inv'
<1>1. /\ p \in Procs /\ proc[p] \in ProcType /\ proc[p].at = "marker" /\ proc[p].slot \in Slots
      /\ staging[proc[p].slot] \in StagingType /\ UNCHANGED <<session, trash, lock, world, todo>>
  BY Names, TypeByNames DEF Inv, ProcOK, ProcType, SlotsOK, Building, RenameMarker, At
<1>2. CASE Mine(p).there /\ Mine(p).marker = "temp"
  <2>. DEFINE d == [staging[proc[p].slot] EXCEPT !.marker = "written"]
              x == [proc[p] EXCEPT !.at = "clone"]
  <2>1. d \in StagingType /\ x \in ProcType
    BY <1>1 DEF StagingType, ProcType, Places, Building
  <2>2. /\ d.marker = "written" /\ d.there = staging[proc[p].slot].there /\ d.req = staging[proc[p].slot].req
        /\ d.clones = staging[proc[p].slot].clones /\ d.old = staging[proc[p].slot].old
        /\ x.at = "clone" /\ x.slot = proc[p].slot /\ x.saw = proc[p].saw /\ x.req = proc[p].req
        /\ x.done = proc[p].done
    BY <1>1 DEF StagingType, ProcType
  <2>3. staging' = [staging EXCEPT ![proc[p].slot] = d] /\ proc' = [proc EXCEPT ![p] = x]
    BY <1>2 DEF RenameMarker, Goto
  <2>. HIDE DEF d, x
  <2>4. p \notin aborted => d.there /\ d.req = x.req /\ d.clones = x.done
    BY <1>1, <2>2 DEF Inv, BuiltOK, Building
  <2> QED
    BY <1>1, <2>1, <2>2, <2>3, <2>4, BuildKeepsInv DEF Building
<1>3. CASE ~(Mine(p).there /\ Mine(p).marker = "temp")
  BY <1>1, <1>3, UndoesKeepsInv DEF RenameMarker, Inv, TypeOK, Building, disk, world
<1> QED
  BY <1>2, <1>3

\* A clone adds to what the creator counts, in the directory it was counted for.
LEMMA CloneKeepsInv ==
  ASSUME Inv, NEW p \in Callers, Clone(p), UNCHANGED todo
  PROVE  Inv'
<1>1. /\ p \in Procs /\ proc[p] \in ProcType /\ proc[p].at = "clone" /\ proc[p].slot \in Slots
      /\ staging[proc[p].slot] \in StagingType /\ UNCHANGED <<session, trash, lock, world, todo>>
      /\ proc[p].done < NRepos
  BY Names, TypeByNames DEF Inv, ProcOK, ProcType, SlotsOK, Building, Clone, At
<1>2. CASE p \notin aborted
  <2>. DEFINE m == staging[proc[p].slot]
              d == [m EXCEPT !.there = TRUE, !.req = proc[p].req, !.clones = m.clones + 1]
              x == [proc[p] EXCEPT !.done = proc[p].done + 1]
  <2>1. m.there /\ m.req = proc[p].req /\ m.clones = proc[p].done /\ m.marker = "written"
    BY <1>1, <1>2 DEF Inv, BuiltOK, Building
  <2>2. proc[p].done + 1 \in 0..NRepos
    BY <1>1, RepoSessionsAssumption DEF ProcType
  <2>3. d \in StagingType /\ x \in ProcType
    BY <1>1, <2>1, <2>2 DEF StagingType, ProcType
  <2>4. /\ d.there /\ d.marker = "written" /\ d.req = proc[p].req /\ d.clones = proc[p].done + 1
        /\ x.at = "clone" /\ x.slot = proc[p].slot /\ x.saw = proc[p].saw /\ x.req = proc[p].req
        /\ x.done = proc[p].done + 1
    BY <1>1, <2>1 DEF StagingType, ProcType
  <2>5. staging' = [staging EXCEPT ![proc[p].slot] = d] /\ proc' = [proc EXCEPT ![p] = x]
    BY <1>2 DEF Clone, Mine
  <2>. HIDE DEF d, x, m
  <2> QED
    BY <1>1, <2>3, <2>4, <2>5, BuildKeepsInv DEF Building
<1>3. CASE p \in aborted
  BY <1>1, <1>3, UndoesKeepsInv DEF Clone, Inv, TypeOK, Building, disk, world
<1> QED
  BY <1>2, <1>3

\* A clone that fails is undone.
LEMMA CloneFailsKeepsInv ==
  ASSUME Inv, NEW p \in Callers, CloneFails(p), UNCHANGED todo
  PROVE  Inv'
<1>1. accidents' \in 0..MaxAccidents
  BY RepoSessionsAssumption DEF Inv, TypeOK, CloneFails, Accident
<1> QED
  BY <1>1, UndoesKeepsInv DEF CloneFails, At, Building

\* The metadata is written when every repository is there.
LEMMA WriteMetadataKeepsInv ==
  ASSUME Inv, NEW p \in Callers, WriteMetadata(p), UNCHANGED todo
  PROVE  Inv'
<1>1. /\ p \in Procs /\ proc[p] \in ProcType /\ proc[p].at = "clone" /\ proc[p].slot \in Slots
      /\ staging[proc[p].slot] \in StagingType /\ UNCHANGED <<session, trash, lock, world, todo>>
      /\ proc[p].done = NRepos
  BY Names, TypeByNames DEF Inv, ProcOK, ProcType, SlotsOK, Building, WriteMetadata, At
<1>2. CASE p \notin aborted /\ Mine(p).there
  <2>. DEFINE d == [staging[proc[p].slot] EXCEPT !.meta = proc[p].req]
              x == [proc[p] EXCEPT !.at = "publish"]
  <2>1. d \in StagingType /\ x \in ProcType
    BY <1>1 DEF StagingType, ProcType, Places, Building
  <2>2. /\ d.meta = proc[p].req /\ d.there = staging[proc[p].slot].there /\ d.req = staging[proc[p].slot].req
        /\ d.clones = staging[proc[p].slot].clones /\ d.marker = staging[proc[p].slot].marker
        /\ x.at = "publish" /\ x.slot = proc[p].slot /\ x.saw = proc[p].saw /\ x.req = proc[p].req
        /\ x.done = proc[p].done
    BY <1>1 DEF StagingType, ProcType
  <2>3. staging' = [staging EXCEPT ![proc[p].slot] = d] /\ proc' = [proc EXCEPT ![p] = x]
    BY <1>2 DEF WriteMetadata, Goto
  <2>. HIDE DEF d, x
  <2>4. d.there /\ d.req = x.req /\ d.clones = x.done /\ d.marker = "written"
    BY <1>1, <1>2, <2>2 DEF Inv, BuiltOK, Building
  <2> QED
    BY <1>1, <2>1, <2>2, <2>3, <2>4, BuildKeepsInv DEF Building
<1>3. CASE ~(p \notin aborted /\ Mine(p).there)
  BY <1>1, <1>3, UndoesKeepsInv DEF WriteMetadata, Inv, TypeOK, Building, disk, world
<1> QED
  BY <1>2, <1>3

\* What is published is what the creator that still has the lock has built.
LEMMA PublishKeepsInv ==
  ASSUME Inv, NEW p \in Callers, Publish(p), UNCHANGED todo
  PROVE  Inv'
<1>1. /\ p \in Procs /\ proc[p] \in ProcType /\ proc[p].at = "publish" /\ proc[p].slot \in Slots
      /\ proc[p].slot # None /\ staging[proc[p].slot] \in StagingType /\ Inside(p)
      /\ UNCHANGED <<trash, live, starts, accidents, todo>>
  BY Names, TypeByNames DEF Inv, ProcOK, ProcType, SlotsOK, Building, Publish, At, world, Inside, Outside
<1>2. trash' \subseteq Slots /\ accidents' \in 0..MaxAccidents
  BY <1>1 DEF Inv, TypeOK
<1>3. CASE Exists
  <2>1. Leave(p, Matches(p)) /\ UNCHANGED <<session, staging>>
    BY <1>3 DEF Publish
  <2> QED
    BY <1>1, <1>2, <2>1, LeavesKeepsInv
<1>4. CASE ~Exists /\ p \notin aborted /\ Mine(p).there
  <2>. DEFINE m == staging[proc[p].slot]
  <2>1. m.req = proc[p].req /\ m.clones = NRepos /\ m.meta = proc[p].req
    BY <1>1, <1>4 DEF Inv, BuiltOK, Building
  <2>2. /\ session' = [dir |-> proc[p].slot, req |-> m.req, clones |-> m.clones, meta |-> m.meta,
                       idle |-> FALSE]
        /\ staging' = [staging EXCEPT ![proc[p].slot] = NoStaging] /\ Leave(p, TRUE)
    BY <1>4 DEF Publish, Published, Mine
  <2>3. session' \in SessionType /\ session'.dir = proc[p].slot /\ session'.dir # session.dir
    BY <1>1, <1>4, <2>2 DEF SessionType, StagingType, Exists
  <2>4. SessionIsWhole'
    BY <2>1, <2>2 DEF SessionIsWhole
  <2> QED
    BY <1>1, <1>2, <2>2, <2>3, <2>4, LeaveKeepsInv
<1>5. CASE ~Exists /\ ~(p \notin aborted /\ Mine(p).there)
  BY <1>1, <1>2, <1>5, UndoesKeepsInv DEF Publish, Building, disk, world
<1> QED
  BY <1>3, <1>4, <1>5

\* A creator removes its own directory, if it is still there.
LEMMA UndoKeepsInv ==
  ASSUME Inv, NEW p \in Callers, Undo(p), UNCHANGED todo
  PROVE  Inv'
<1>1. /\ p \in Procs /\ proc[p] \in ProcType /\ proc[p].at = "undo" /\ proc[p].slot \in Slots
      /\ proc[p].slot # None /\ UNCHANGED <<session, world, todo>> /\ todo \subseteq Slots
  BY Names DEF Inv, ProcOK, ProcType, SlotsOK, Building, Undo, At
<1>2. CASE Mine(p).there
  <2>1. /\ staging' = [staging EXCEPT ![proc[p].slot] = NoStaging]
        /\ trash' = trash \cup {proc[p].slot} /\ Goto(p, "rmStaging") /\ UNCHANGED lock
    BY <1>2 DEF Undo
  <2>2. trash' \subseteq Slots
    BY <1>1, <2>1 DEF Inv, TypeOK
  <2>3. \A q \in Callers : proc[q].slot = proc[p].slot => proc[q].at = "undo"
    BY <1>1 DEF Inv, SlotsOK
  <2> QED
    BY <1>1, <2>1, <2>2, <2>3, DropKeepsInv
<1>3. CASE ~Mine(p).there
  <2>1. Leave(p, FALSE) /\ UNCHANGED <<staging, trash>>
    BY <1>3 DEF Undo
  <2>2. trash' \subseteq Slots /\ accidents' \in 0..MaxAccidents
    BY <1>1, <2>1 DEF Inv, TypeOK, world
  <2> QED
    BY <1>1, <2>1, <2>2, LeavesKeepsInv DEF world
<1> QED
  BY <1>2, <1>3

\* What was renamed out of the way is removed at leisure.
LEMMA RemoveTrashKeepsInv ==
  ASSUME Inv, NEW p \in Procs, RemoveTrash(p), UNCHANGED todo
  PROVE  Inv'
<1>1. trash' \subseteq Slots /\ accidents' \in 0..MaxAccidents
  BY DEF Inv, TypeOK, RemoveTrash, world
<1> QED
  BY <1>1, LeavesKeepsInv DEF RemoveTrash, world

\* A touch and a cleanup remember the directory they have looked at.
LEMMA LookAgainKeepsInv ==
  ASSUME Inv, NEW p \in Callers, LookAgain(p), UNCHANGED todo
  PROVE  Inv'
<1>1. p \in Procs /\ proc[p] \in ProcType /\ proc[p].at = "look" /\ todo \subseteq Slots
  BY Names DEF Inv, ProcOK, LookAgain, At
<1>2. CASE p \in aborted \/ (Exists /\ ~Readable(session))
  BY <1>1, <1>2, FailsKeepsInv DEF LookAgain
<1>3. CASE ~(p \in aborted \/ (Exists /\ ~Readable(session))) /\ ~Exists
  <2>1. Leave(p, TRUE) /\ UNCHANGED <<disk, world>>
    BY <1>3 DEF LookAgain
  <2>2. trash' \subseteq Slots /\ accidents' \in 0..MaxAccidents
    BY <2>1 DEF Inv, TypeOK, disk, world
  <2> QED
    BY <1>1, <2>1, <2>2, LeavesKeepsInv DEF disk, world
<1>4. CASE ~(p \in aborted \/ (Exists /\ ~Readable(session))) /\ Exists
  <2>. DEFINE where == IF proc[p].op = "touch" THEN "touch" ELSE "remove"
              x == [proc[p] EXCEPT !.saw = session.dir, !.req = session.meta, !.at = where]
  <2>1. where \in {"touch", "remove"}
    OBVIOUS
  <2>2. proc' = [proc EXCEPT ![p] = x] /\ UNCHANGED <<disk, lock, world>>
    BY <1>4 DEF LookAgain
  <2>. HIDE DEF where
  <2>3. x \in ProcType
    BY <1>1, <2>1, TypeByNames DEF Inv, SessionType, ProcType, Places
  <2>4. x.at = where /\ x.slot = proc[p].slot /\ x.saw = session.dir /\ x.req = session.meta
    BY <1>1 DEF ProcType
  <2>. HIDE DEF x
  <2>5. session.dir # None /\ session.meta = session.req
    BY <1>4 DEF Inv, SessionIsWhole, Exists
  <2>6. proc[p].slot = None /\ Inside(p)
    BY <1>1 DEF Inv, SlotsOK, Inside, Outside, Building
  <2>7. todo' \subseteq Slots /\ starts' \in 0..MaxStarts /\ accidents' \in 0..MaxAccidents
    BY <1>1, <2>2 DEF Inv, TypeOK, world
  <2>8. UNCHANGED <<holder, lost, live, aborted>>
    BY <2>2 DEF lock, world
  <2> QED
    BY <1>1, <2>1, <2>2, <2>3, <2>4, <2>5, <2>6, <2>7, <2>8, StepKeepsInv, Names DEF Outside, Building
<1> QED
  BY <1>2, <1>3, <1>4

\* The metadata that is written back is that of the directory it is written into.
LEMMA TouchKeepsInv ==
  ASSUME Inv, NEW p \in Callers, Touch(p), UNCHANGED todo
  PROVE  Inv'
<1>1. /\ p \in Procs /\ proc[p] \in ProcType /\ proc[p].at = "touch" /\ Inside(p)
      /\ UNCHANGED <<staging, trash, live, starts, accidents, todo>>
  BY Names DEF Inv, ProcOK, Touch, At, world, Inside, Outside
<1>2. trash' \subseteq Slots /\ accidents' \in 0..MaxAccidents
  BY <1>1 DEF Inv, TypeOK
<1>3. CASE session.dir = proc[p].saw
  <2>1. session' = [session EXCEPT !.idle = FALSE, !.meta = proc[p].req] /\ Leave(p, TRUE)
    BY <1>3 DEF Touch
  <2>2. /\ session' \in SessionType /\ session'.dir = session.dir /\ session'.req = session.req
        /\ session'.clones = session.clones /\ session'.meta = proc[p].req
    BY <1>1, <2>1, TypeByNames DEF Inv, SessionType, ProcType
  <2>3. proc[p].req = session.req
    BY <1>1, <1>3 DEF Inv, TouchOK
  <2>4. SessionIsWhole'
    BY <2>2, <2>3 DEF Inv, SessionIsWhole, Exists
  <2> QED
    BY <1>1, <1>2, <2>1, <2>2, <2>4, LeaveKeepsInv
<1>4. CASE session.dir # proc[p].saw
  BY <1>1, <1>2, <1>4, LeavesKeepsInv DEF Touch
<1> QED
  BY <1>3, <1>4

\* The session is renamed away: there is none, and no creator had its directory.
LEMMA RemoveSessionKeepsInv ==
  ASSUME Inv, NEW p \in Procs, RemoveSession(p), UNCHANGED todo
  PROVE  Inv'
<1>1. /\ proc \in [Procs -> ProcType] /\ proc[p] \in ProcType /\ proc[p].at = "remove"
      /\ UNCHANGED <<staging, live, starts, accidents, todo>>
  BY DEF Inv, ProcOK, RemoveSession, At, world
<1>2. CASE ~Exists
  <2>1. Leave(p, FALSE) /\ UNCHANGED <<session, trash>>
    BY <1>2 DEF RemoveSession
  <2>2. trash' \subseteq Slots /\ accidents' \in 0..MaxAccidents
    BY <1>1, <2>1 DEF Inv, TypeOK
  <2> QED
    BY <1>1, <2>1, <2>2, LeavesKeepsInv
<1>3. CASE Exists
  <2>1. /\ proc' = [proc EXCEPT ![p] = [proc[p] EXCEPT !.saw = session.dir, !.at = "rmSession"]]
        /\ trash' = trash \cup {session.dir} /\ session' = NoSession
        /\ UNCHANGED <<holder, aborted, lost>>
    BY <1>3 DEF RemoveSession, lock
  <2>2. session.dir \in Slots
    BY <1>3, TypeByNames DEF Inv, SessionType, Exists
  <2>3. /\ proc' \in [Procs -> ProcType] /\ proc'[p].at = "rmSession" /\ proc'[p].saw = session.dir
        /\ proc'[p].slot = proc[p].slot /\ proc'[p].done = proc[p].done
        /\ \A q \in Procs : q # p => proc'[q] = proc[q]
    BY <1>1, <2>1, <2>2 DEF ProcType, Places
  <2>4. session'.dir = None
    BY <2>1 DEF NoSession
  <2>5. ProcOK'
    BY <1>1, <2>3 DEF Inv, ProcOK
  <2>6. TypeOK'
    <3>1. session' \in SessionType /\ trash' \subseteq Slots
      BY <2>1, <2>2, FreshTypes, TypeByNames DEF Inv
    <3>2. holder' # None => proc'[holder'].at \notin {"idle", "lock"}
      BY <2>1, <2>3, TypeByNames DEF Inv
    <3> QED
      BY <1>1, <2>1, <3>1, <3>2, TypeByNames DEF Inv, TypeOK, SessionType
  <2>7. LockOK'
    BY <1>1, <2>1, <2>3, Names, TypeByNames DEF Inv, LockOK, Inside, Outside
  <2>8. SlotsOK'
    <3>1. \A q \in Callers : proc'[q].slot = proc[q].slot
      BY <2>3, Names
    <3>2. \A q \in Procs, t \in Callers : proc[t].slot # None => proc'[q].saw # proc[t].slot
      BY <2>3, Names DEF Inv, SlotsOK
    <3> QED
      BY <1>1, <2>3, <2>4, <3>1, <3>2, Names DEF Inv, SlotsOK, Building
  <2>9. SweepOK'
    <3>1. CASE p = Sweeper
      BY <1>1, <2>1, <2>3, <3>1, Names DEF Inv, SweepOK, Building
    <3>2. CASE p # Sweeper
      <4>1. p \in Callers /\ proc'[Sweeper] = proc[Sweeper]
        BY <2>3, <3>2, Names DEF Procs
      <4>2. proc[Sweeper].at = "remove" => lost
        BY <1>1, <4>1, Names DEF Inv, LockOK, Inside, Outside
      <4>3. \A q \in Callers : proc'[q].slot = proc[q].slot
        BY <2>3, Names
      <4> QED
        BY <1>1, <2>1, <4>1, <4>2, <4>3 DEF Inv, SweepOK
    <3> QED
      BY <3>1, <3>2
  <2>10. BuiltOK'
    BY <1>1, <2>1, <2>3, Names DEF Inv, BuiltOK, Building
  <2>11. TouchOK'
    BY <2>3, <2>4, Names DEF Inv, TouchOK
  <2>12. SessionIsWhole'
    BY <2>4 DEF SessionIsWhole, Exists
  <2> QED
    BY <2>5, <2>6, <2>7, <2>8, <2>9, <2>10, <2>11, <2>12 DEF Inv
<1> QED
  BY <1>2, <1>3

\* A sweep begins with the session, if there is one.
LEMMA StartSweepKeepsInv ==
  ASSUME Inv, StartSweep, UNCHANGED todo
  PROVE  Inv'
<1>. DEFINE where == IF Exists THEN "lock" ELSE "listStaging"
            what == IF Exists THEN "sweep" ELSE "sweepStaging"
            x == [Idle EXCEPT !.op = what, !.live = live, !.at = where]
<1>1. /\ where \in {"lock", "listStaging"} /\ what \in {"sweep", "sweepStaging"}
      /\ (where = "lock" => what = "sweep")
  OBVIOUS
<1>2. proc' = [proc EXCEPT ![Sweeper] = x] /\ UNCHANGED <<disk, lock, world>> /\ proc[Sweeper].at = "idle"
  BY DEF StartSweep, At
<1>. HIDE DEF where, what
<1>3. live \in BOOLEAN
  BY DEF Inv, TypeOK
<1>4. x \in ProcType
  BY <1>1, <1>3, FreshTypes DEF ProcType, Places, Outside
<1>5. x.at = where /\ x.op = what /\ x.saw = None /\ x.slot = None
  BY DEF Idle
<1>. HIDE DEF x
<1>6. holder # Sweeper
  BY <1>2, Names DEF Inv, LockOK, Inside, Outside
<1>7. todo' \subseteq Slots /\ starts' \in 0..MaxStarts /\ accidents' \in 0..MaxAccidents
  BY <1>2 DEF Inv, ProcOK, TypeOK, world
<1>8. UNCHANGED <<holder, lost, live, aborted>>
  BY <1>2 DEF lock, world
<1> QED
  BY <1>1, <1>2, <1>4, <1>5, <1>6, <1>7, <1>8, StepKeepsInv, Names DEF Building

\* The sweep goes on to remove only what it saw to be idle or of a project gone.
LEMMA SweepSessionKeepsInv ==
  ASSUME Inv, SweepSession, UNCHANGED todo
  PROVE  Inv'
<1>1. Sweeper \in Procs /\ proc[Sweeper] \in ProcType /\ proc[Sweeper].at = "look" /\ todo \subseteq Slots
  BY Names DEF Inv, ProcOK, SweepSession, At
<1>2. CASE Exists /\ Readable(session) /\ Prunable /\ Sweeper \notin aborted
  <2>. DEFINE x == [proc[Sweeper] EXCEPT !.at = "remove"]
  <2>1. proc' = [proc EXCEPT ![Sweeper] = x] /\ UNCHANGED <<disk, lock, world>>
    BY <1>2 DEF SweepSession, Goto
  <2>2. x \in ProcType
    BY <1>1 DEF ProcType, Places
  <2>3. x.at = "remove" /\ x.saw = proc[Sweeper].saw /\ x.live = proc[Sweeper].live
    BY <1>1 DEF ProcType
  <2>. HIDE DEF x
  <2>4. todo' \subseteq Slots /\ starts' \in 0..MaxStarts /\ accidents' \in 0..MaxAccidents
    BY <1>1, <2>1 DEF Inv, TypeOK, world
  <2>5. UNCHANGED <<holder, lost, live, aborted>>
    BY <2>1 DEF lock, world
  <2> QED
    BY <1>1, <1>2, <2>1, <2>2, <2>3, <2>4, <2>5, StepKeepsInv, Names DEF Prunable, Outside, Building
<1>3. CASE ~(Exists /\ Readable(session) /\ Prunable /\ Sweeper \notin aborted)
  BY <1>1, <1>3, FailsKeepsInv DEF SweepSession
<1> QED
  BY <1>2, <1>3

\* Listing finds what is there.
LEMMA ListStagingKeepsInv ==
  ASSUME Inv, ListStaging
  PROVE  Inv'
<1>. DEFINE x == [proc[Sweeper] EXCEPT !.at = "nextStaging"]
<1>1. Sweeper \in Procs /\ proc[Sweeper] \in ProcType /\ proc[Sweeper].at = "listStaging"
  BY Names DEF Inv, ProcOK, ListStaging, At
<1>2. proc' = [proc EXCEPT ![Sweeper] = x] /\ UNCHANGED <<disk, lock, world>> /\ todo' \subseteq Slots
  BY DEF ListStaging, Goto
<1>3. x \in ProcType
  BY <1>1 DEF ProcType, Places, Outside
<1>4. x.at = "nextStaging" /\ x.saw = proc[Sweeper].saw
  BY <1>1 DEF ProcType
<1>. HIDE DEF x
<1>5. holder # Sweeper
  BY <1>1, Names DEF Inv, LockOK, Inside, Outside
<1>6. starts' \in 0..MaxStarts /\ accidents' \in 0..MaxAccidents
  BY <1>2 DEF Inv, TypeOK, world
<1>7. UNCHANGED <<holder, lost, live, aborted>>
  BY <1>2 DEF lock, world
<1> QED
  BY <1>1, <1>2, <1>3, <1>4, <1>5, <1>6, <1>7, StepKeepsInv, Names DEF Building

\* The next sweep knows nothing of this one.
LEMMA EndSweepKeepsInv ==
  ASSUME Inv, EndSweep
  PROVE  Inv'
<1>1. /\ proc' = [proc EXCEPT ![Sweeper] = Idle] /\ aborted' = aborted \ {Sweeper}
      /\ UNCHANGED <<disk, holder, lost, live, starts, accidents, todo>>
      /\ proc[Sweeper].at = "nextStaging"
  BY DEF EndSweep, At, world
<1>2. Idle.at = "idle" /\ Idle.saw = None
  BY DEF Idle
<1>3. holder # Sweeper
  BY <1>1, Names DEF Inv, LockOK, Inside, Outside
<1>4. todo' \subseteq Slots /\ starts' \in 0..MaxStarts /\ accidents' \in 0..MaxAccidents
  BY <1>1 DEF Inv, ProcOK, TypeOK
<1> QED
  BY <1>1, <1>2, <1>3, <1>4, FreshTypes, StepKeepsInv, Names DEF Building

\* What is stale and without a marker is of no creator.
LEMMA NextStagingKeepsInv ==
  ASSUME Inv, NEW s \in Slots, NextStaging(s)
  PROVE  Inv'
<1>. DEFINE x(where) == [proc[Sweeper] EXCEPT !.slot = s, !.at = where]
<1>1. /\ Sweeper \in Procs /\ proc \in [Procs -> ProcType] /\ proc[Sweeper] \in ProcType
      /\ proc[Sweeper].at = "nextStaging" /\ todo' \subseteq Slots /\ s # None
      /\ UNCHANGED <<session, trash, lock, world>>
  BY Names DEF Inv, ProcOK, NextStaging, At
<1>2. holder # Sweeper
  BY <1>1, Names DEF Inv, LockOK, Inside, Outside
<1>3. /\ starts' \in 0..MaxStarts /\ accidents' \in 0..MaxAccidents /\ trash' \subseteq Slots
      /\ UNCHANGED <<holder, lost, live, aborted>>
  BY <1>1 DEF Inv, TypeOK, lock, world
<1>4. ASSUME NEW where \in {"lock", "removeStaging"}
      PROVE  /\ x(where) \in ProcType /\ x(where).slot = s /\ x(where).at = where
             /\ x(where).saw = proc[Sweeper].saw
  BY <1>1 DEF ProcType, Places, Outside
<1>5. staging[s].old /\ staging[s].marker # "written" => \A q \in Callers : proc[q].slot # s
  BY DEF Inv, SweepOK
<1>6. CASE HasMarker(staging[s]) /\ proc' = [proc EXCEPT ![Sweeper] = x("lock")] /\ UNCHANGED staging
  <2>1. UNCHANGED disk
    BY <1>1, <1>6 DEF disk
  <2> QED
    BY <1>1, <1>2, <1>3, <1>4, <1>6, <2>1, StepKeepsInv, Names DEF Building
<1>7. CASE Stale(staging[s]) /\ staging[s].marker = "absent"
           /\ staging' = [staging EXCEPT ![s] = NoStaging] /\ UNCHANGED proc
  <2>1. \A q \in Callers : proc[q].slot # s
    BY <1>5, <1>7 DEF Stale
  <2> QED
    BY <1>1, <1>3, <1>7, <2>1, DropKeepsInv
<1>8. CASE Stale(staging[s]) /\ staging[s].marker = "temp"
           /\ proc' = [proc EXCEPT ![Sweeper] = x("removeStaging")] /\ UNCHANGED staging
  <2>1. \A q \in Callers : proc[q].slot # s
    BY <1>5, <1>8 DEF Stale
  <2>2. UNCHANGED disk
    BY <1>1, <1>8 DEF disk
  <2> QED
    BY <1>1, <1>2, <1>3, <1>4, <1>8, <2>1, <2>2, StepKeepsInv, Names DEF Building
<1>9. CASE UNCHANGED <<proc, staging>>
  <2>1. proc' = [proc EXCEPT ![Sweeper] = proc[Sweeper]]
    BY <1>1, <1>9
  <2>2. UNCHANGED disk
    BY <1>1, <1>9 DEF disk
  <2> QED
    BY <1>1, <1>2, <1>3, <2>1, <2>2, StepKeepsInv, Names DEF Building
<1> QED
  BY <1>6, <1>7, <1>8, <1>9 DEF NextStaging

\* Under the lock no creator that goes on has the directory whose marker is read.
LEMMA RereadMarkerKeepsInv ==
  ASSUME Inv, RereadMarker, UNCHANGED todo
  PROVE  Inv'
<1>1. Sweeper \in Procs /\ proc[Sweeper] \in ProcType /\ proc[Sweeper].at = "reread" /\ todo \subseteq Slots
  BY Names DEF Inv, ProcOK, RereadMarker, At
<1>2. CASE HasMarker(Mine(Sweeper)) /\ Sweeper \notin aborted /\ (~proc[Sweeper].live \/ Mine(Sweeper).old)
  <2>. DEFINE x == [proc[Sweeper] EXCEPT !.at = "removeStaging"]
  <2>1. proc' = [proc EXCEPT ![Sweeper] = x] /\ UNCHANGED <<disk, lock, world>>
    BY <1>2 DEF RereadMarker, Goto
  <2>2. x \in ProcType
    BY <1>1 DEF ProcType, Places
  <2>3. x.at = "removeStaging" /\ x.saw = proc[Sweeper].saw /\ x.slot = proc[Sweeper].slot
    BY <1>1 DEF ProcType
  <2>. HIDE DEF x
  <2>4. proc[Sweeper].slot # None /\ holder = Sweeper
    BY <1>1, <1>2 DEF Inv, SlotsOK, LockOK
  <2>5. \A q \in Callers : proc[q].slot = proc[Sweeper].slot => q \in aborted /\ lost
    <3> SUFFICES ASSUME NEW q \in Callers, proc[q].slot = proc[Sweeper].slot
                 PROVE  q \in aborted /\ lost
      OBVIOUS
    <3>1. Inside(q)
      BY <2>4 DEF Inv, SlotsOK, Inside, Outside, Building
    <3> QED
      BY <2>4, <3>1, Names DEF Inv, LockOK
  <2>6. todo' \subseteq Slots /\ starts' \in 0..MaxStarts /\ accidents' \in 0..MaxAccidents
    BY <1>1, <2>1 DEF Inv, TypeOK, world
  <2>7. UNCHANGED <<holder, lost, live, aborted>>
    BY <2>1 DEF lock, world
  <2> QED
    BY <1>1, <2>1, <2>2, <2>3, <2>4, <2>5, <2>6, <2>7, StepKeepsInv, Names DEF Outside, Building
<1>3. CASE ~(HasMarker(Mine(Sweeper)) /\ Sweeper \notin aborted /\ (~proc[Sweeper].live \/ Mine(Sweeper).old))
  BY <1>1, <1>3, FailsKeepsInv DEF RereadMarker
<1> QED
  BY <1>2, <1>3

\* The sweep removes a directory only of creators that have lost theirs.
LEMMA SweepStagingKeepsInv ==
  ASSUME Inv, SweepStaging, UNCHANGED todo
  PROVE  Inv'
<1>1. /\ Sweeper \in Procs /\ proc[Sweeper] \in ProcType /\ proc[Sweeper].at = "removeStaging"
      /\ proc[Sweeper].slot \in Slots /\ todo \subseteq Slots /\ UNCHANGED <<session, world>>
  BY Names DEF Inv, ProcOK, ProcType, SlotsOK, SweepStaging, At
<1>2. CASE Mine(Sweeper).there
  <2>1. /\ staging' = [staging EXCEPT ![proc[Sweeper].slot] = NoStaging]
        /\ trash' = trash \cup {proc[Sweeper].slot} /\ Goto(Sweeper, "rmStaging") /\ UNCHANGED lock
    BY <1>2 DEF SweepStaging
  <2>2. trash' \subseteq Slots
    BY <1>1, <2>1 DEF Inv, TypeOK
  <2>3. \A q \in Callers : proc[q].slot = proc[Sweeper].slot => q \in aborted
    BY <1>1 DEF Inv, SweepOK
  <2> QED
    BY <1>1, <2>1, <2>2, <2>3, DropKeepsInv
<1>3. CASE ~Mine(Sweeper).there
  <2>1. Leave(Sweeper, FALSE) /\ UNCHANGED <<staging, trash>>
    BY <1>3 DEF SweepStaging
  <2>2. trash' \subseteq Slots /\ accidents' \in 0..MaxAccidents
    BY <1>1, <2>1 DEF Inv, TypeOK, world
  <2> QED
    BY <1>1, <2>1, <2>2, LeavesKeepsInv DEF world
<1> QED
  BY <1>2, <1>3

(***************************************************************************)
(* Time, the registry and what goes wrong.                                 *)
(***************************************************************************)
\* Nobody touches the session: it stays what it is.
LEMMA SessionAgesKeepsInv ==
  ASSUME Inv, SessionAges, UNCHANGED todo
  PROVE  Inv'
<1>1. /\ session' = [session EXCEPT !.idle = TRUE] /\ session \in SessionType
      /\ UNCHANGED <<staging, trash, holder, aborted, lost, proc, live, starts, accidents, todo>>
  BY TypeByNames DEF Inv, SessionAges, lock, world
<1>2. /\ session' \in SessionType /\ session'.dir = session.dir /\ session'.req = session.req
      /\ session'.clones = session.clones /\ session'.meta = session.meta /\ session'.idle = TRUE
  BY <1>1 DEF SessionType
<1>3. ProcOK' /\ TypeOK'
  BY <1>1, <1>2 DEF Inv, ProcOK, TypeOK, SessionType
<1>4. LockOK' /\ SlotsOK' /\ BuiltOK'
  BY <1>1, <1>2 DEF Inv, LockOK, SlotsOK, BuiltOK, Inside
<1>5. SweepOK'
  BY <1>1, <1>2 DEF Inv, SweepOK
<1>6. TouchOK' /\ SessionIsWhole'
  BY <1>1, <1>2 DEF Inv, TouchOK, SessionIsWhole, Exists
<1> QED
  BY <1>3, <1>4, <1>5, <1>6 DEF Inv

\* A directory without a marker is old only when its creator is gone.
LEMMA StagingAgesKeepsInv ==
  ASSUME Inv, NEW s \in Slots, StagingAges(s), UNCHANGED todo
  PROVE  Inv'
<1>1. /\ staging' = [staging EXCEPT ![s].old = TRUE] /\ staging \in [Slots -> StagingType]
      /\ UNCHANGED <<session, trash, holder, aborted, lost, proc, live, starts, accidents, todo>>
  BY TypeByNames DEF Inv, StagingAges, lock, world
<1>2. /\ staging' \in [Slots -> StagingType]
      /\ \A t \in Slots :
           /\ staging'[t].there = staging[t].there /\ staging'[t].marker = staging[t].marker
           /\ staging'[t].req = staging[t].req /\ staging'[t].clones = staging[t].clones
           /\ staging'[t].meta = staging[t].meta
           /\ t # s => staging'[t].old = staging[t].old
  BY <1>1 DEF StagingType
<1>3. ProcOK' /\ TypeOK'
  BY <1>1, <1>2 DEF Inv, ProcOK, TypeOK, StagingType
<1>4. LockOK' /\ SlotsOK' /\ TouchOK' /\ SessionIsWhole'
  BY <1>1 DEF Inv, LockOK, SlotsOK, TouchOK, SessionIsWhole, Exists, Inside
<1>5. SweepOK'
  <2>1. staging[s].marker = "written" \/ \A q \in Callers : proc[q].slot # s
    BY DEF StagingAges
  <2> QED
    BY <1>1, <1>2, <2>1 DEF Inv, SweepOK
<1>6. BuiltOK'
  <2>1. \A q \in Callers : proc[q].at \in Building => proc[q].slot \in Slots
    BY Names DEF Inv, SlotsOK, ProcOK, ProcType
  <2> QED
    BY <1>1, <1>2, <2>1 DEF Inv, BuiltOK, Building
<1> QED
  BY <1>3, <1>4, <1>5, <1>6 DEF Inv

\* The registry is not the disk.
LEMMA ProjectRemovedKeepsInv ==
  ASSUME Inv, ProjectRemoved, UNCHANGED todo
  PROVE  Inv'
<1>1. /\ live' = FALSE
      /\ UNCHANGED <<session, staging, trash, holder, aborted, lost, proc, starts, accidents, todo>>
  BY DEF ProjectRemoved, disk, lock
<1>2. ProcOK' /\ TypeOK'
  BY <1>1 DEF Inv, ProcOK, TypeOK
<1>3. LockOK' /\ SlotsOK' /\ SweepOK' /\ BuiltOK' /\ TouchOK' /\ SessionIsWhole'
  BY <1>1 DEF Inv, LockOK, SlotsOK, SweepOK, BuiltOK, TouchOK, SessionIsWhole, Exists, Inside
<1> QED
  BY <1>2, <1>3 DEF Inv

\* An accident of p, who hears of an abort, and may have lost the lock.
LEMMA AbortKeepsInv ==
  ASSUME Inv, NEW p \in Procs, aborted' = aborted \cup {p}, accidents' \in 0..MaxAccidents,
         UNCHANGED <<session, staging, trash, proc, live, starts, todo>>,
         \/ UNCHANGED <<holder, lost>>
         \/ holder = p /\ holder' = None /\ lost' = TRUE
  PROVE  Inv'
<1>1. ProcOK'
  BY DEF Inv, ProcOK
<1>2. TypeOK'
  <2>1. holder' \in Procs \cup {None} /\ lost' \in BOOLEAN
    BY DEF Inv, TypeOK
  <2>2. holder' # None => proc'[holder'].at \notin {"idle", "lock"}
    BY DEF Inv, TypeOK
  <2> QED
    BY <2>1, <2>2 DEF Inv, TypeOK
<1>3. LockOK'
  <2>1. holder' # None => Inside(holder)'
    BY DEF Inv, LockOK, Inside
  <2>2. \A q \in Callers : Inside(q)' /\ (~lost' \/ q \notin aborted') => holder' = q
    BY DEF Inv, LockOK, Inside
  <2>3. proc'[Sweeper].at \in {"look", "reread", "remove"} /\ (~lost' \/ Sweeper \notin aborted') =>
          holder' = Sweeper
    BY DEF Inv, LockOK
  <2> QED
    BY <2>1, <2>2, <2>3 DEF LockOK
<1>4. SlotsOK' /\ SweepOK' /\ TouchOK' /\ SessionIsWhole'
  BY DEF Inv, SlotsOK, SweepOK, TouchOK, SessionIsWhole, Exists
<1>5. BuiltOK'
  BY DEF Inv, BuiltOK
<1> QED
  BY <1>1, <1>2, <1>3, <1>4, <1>5 DEF Inv

\* A cancelled attempt keeps its lock until it has noticed.
LEMMA CancelledKeepsInv ==
  ASSUME Inv, NEW p \in Procs, Cancelled(p), UNCHANGED todo
  PROVE  Inv'
<1>1. accidents' \in 0..MaxAccidents
  BY RepoSessionsAssumption DEF Inv, TypeOK, Cancelled, Accident
<1> QED
  BY <1>1, AbortKeepsInv DEF Cancelled, disk

\* Who loses the lock has heard of it before another one gets it.
LEMMA LockLostKeepsInv ==
  ASSUME Inv, NEW p \in Procs, LockLost(p), UNCHANGED todo
  PROVE  Inv'
<1>1. accidents' \in 0..MaxAccidents
  BY RepoSessionsAssumption DEF Inv, TypeOK, LockLost, Accident
<1> QED
  BY <1>1, AbortKeepsInv DEF LockLost, disk

\* A process that dies leaves the disk as it is.
LEMMA CrashKeepsInv ==
  ASSUME Inv, NEW p \in Procs, Crash(p), UNCHANGED todo
  PROVE  Inv'
<1>1. accidents' \in 0..MaxAccidents
  BY RepoSessionsAssumption DEF Inv, TypeOK, Crash, Accident
<1>2. /\ proc' = [proc EXCEPT ![p] = Idle] /\ Unlock(p) /\ aborted' = aborted \ {p}
      /\ UNCHANGED <<session, staging, trash, lost, live, starts, todo>>
  BY DEF Crash, disk
<1>3. session' \in SessionType /\ trash' \subseteq Slots /\ SessionIsWhole'
  BY <1>2, TypeByNames DEF Inv, SessionIsWhole, Exists
<1>4. Idle.at = "idle" /\ Idle.slot = None /\ Idle.saw = None /\ Idle.done = 0
  BY DEF Idle
<1> QED
  BY <1>1, <1>2, <1>3, <1>4, FreshTypes, GoneKeepsInv

(***************************************************************************)
(* Every run keeps the invariant.                                          *)
(***************************************************************************)
\* An empty disk is a whole one.
LEMMA InitHasInv == Init => Inv
<1>. SUFFICES ASSUME Init PROVE Inv
  OBVIOUS
<1>1. /\ session = NoSession /\ staging = [s \in Slots |-> NoStaging] /\ proc = [p \in Procs |-> Idle]
      /\ trash = {} /\ todo = {} /\ holder = None /\ aborted = {} /\ lost = FALSE /\ live = TRUE
      /\ starts = 0 /\ accidents = 0
  BY DEF Init
<1>2. ProcOK
  BY <1>1, FreshTypes DEF ProcOK
<1>3. TypeOK
  <2>1. staging \in [Slots -> StagingType] /\ 0 \in 0..MaxStarts /\ 0 \in 0..MaxAccidents
    BY <1>1, FreshTypes, RepoSessionsAssumption
  <2> QED
    BY <1>1, <2>1, FreshTypes, TypeByNames
<1>4. \A p \in Procs : proc[p].at = "idle" /\ proc[p].slot = None /\ proc[p].done = 0
  BY <1>1 DEF Idle
<1>5. LockOK /\ SlotsOK /\ BuiltOK /\ TouchOK
  BY <1>1, <1>4, Names DEF LockOK, SlotsOK, BuiltOK, TouchOK, Inside, Outside, Building
<1>6. SweepOK
  BY <1>1, <1>4, Names DEF SweepOK, NoStaging, Building
<1>7. SessionIsWhole
  BY <1>1 DEF SessionIsWhole, Exists, NoSession
<1> QED
  BY <1>2, <1>3, <1>5, <1>6, <1>7 DEF Inv

\* The steps of a caller.
LEMMA CallerStepKeepsInv ==
  ASSUME Inv, NEW p \in Callers, CallerStep(p), UNCHANGED todo
  PROVE  Inv'
<1>1. p \in Procs
  BY Names
<1> QED
  BY <1>1, LookForSessionKeepsInv, MakeStagingKeepsInv, WriteMarkerTempKeepsInv, RenameMarkerKeepsInv,
     CloneKeepsInv, WriteMetadataKeepsInv, PublishKeepsInv, UndoKeepsInv, LookAgainKeepsInv,
     TouchKeepsInv, RemoveSessionKeepsInv, RemoveTrashKeepsInv, FailsKeepsInv
  DEF CallerStep, GivesUp, At

\* The steps of the sweep.
LEMMA SweeperStepKeepsInv ==
  ASSUME Inv, SweeperStep
  PROVE  Inv'
<1>1. Sweeper \in Procs
  BY Names
<1> QED
  BY <1>1, StartSweepKeepsInv, SweepSessionKeepsInv, RereadMarkerKeepsInv, SweepStagingKeepsInv,
     AcquireKeepsInv, FailsKeepsInv, RemoveSessionKeepsInv, RemoveTrashKeepsInv, ListStagingKeepsInv,
     EndSweepKeepsInv, NextStagingKeepsInv
  DEF SweeperStep, GivesUp, At

\* A step that changes nothing keeps the invariant.
LEMMA StutterKeepsInv ==
  ASSUME Inv, UNCHANGED vars
  PROVE  Inv'
<1>1. ProcOK' /\ TypeOK'
  BY DEF Inv, ProcOK, TypeOK, vars
<1>2. LockOK' /\ SlotsOK' /\ SweepOK' /\ BuiltOK' /\ TouchOK' /\ SessionIsWhole'
  BY DEF Inv, LockOK, SlotsOK, SweepOK, BuiltOK, TouchOK, SessionIsWhole, Exists, Inside, vars
<1> QED
  BY <1>1, <1>2 DEF Inv

\* Every step keeps the invariant.
LEMMA NextKeepsInv ==
  ASSUME Inv, [Next]_vars
  PROVE  Inv'
<1>1. CASE SweeperStep
  BY <1>1, SweeperStepKeepsInv
<1>2. ASSUME NEW p \in Procs, LockTimesOut(p) \/ Cancelled(p) \/ LockLost(p) \/ Crash(p), UNCHANGED todo
      PROVE  Inv'
  BY <1>2, LockTimesOutKeepsInv, CancelledKeepsInv, LockLostKeepsInv, CrashKeepsInv
<1>3. ASSUME NEW p \in Callers, UNCHANGED todo,
             \/ Acquire(p) \/ CallerStep(p) \/ CloneFails(p)
             \/ CreateRepositorySession(p) \/ CleanupRepositorySession(p) \/ TouchByRunAgent(p)
      PROVE  Inv'
  <2>1. CASE Acquire(p) \/ CallerStep(p) \/ CloneFails(p)
    BY <1>3, <2>1, Names, AcquireKeepsInv, CallerStepKeepsInv, CloneFailsKeepsInv
  <2>2. CASE CreateRepositorySession(p)
    BY <1>3, <2>2, StartKeepsInv DEF CreateRepositorySession
  <2>3. CASE CleanupRepositorySession(p) \/ TouchByRunAgent(p)
    BY <1>3, <2>3, StartKeepsInv DEF CleanupRepositorySession, TouchByRunAgent
  <2> QED
    BY <1>3, <2>1, <2>2, <2>3
<1>4. CASE (Ages \/ ProjectRemoved) /\ UNCHANGED todo
  BY <1>4, SessionAgesKeepsInv, StagingAgesKeepsInv, ProjectRemovedKeepsInv DEF Ages
<1>5. CASE UNCHANGED vars
  BY <1>5, StutterKeepsInv
<1> QED
  BY <1>1, <1>2, <1>3, <1>4, <1>5 DEF Next

\* The inductive invariant holds of every reachable state.
LEMMA RunsKeepInv == Spec => []Inv
<1>. QED
  BY InitHasInv, NextKeepsInv, PTL DEF Spec

(***************************************************************************)
(* What the tasks rely on.                                                 *)
(***************************************************************************)
\* Every variable stays in its range.
THEOREM TypeCorrect == Spec => []TypeOK
<1>1. Inv => TypeOK
  BY DEF Inv
<1> QED
  BY <1>1, RunsKeepInv, PTL

\* Whatever crashed, was cancelled, lost its lock or was pruned on the way: what
\* is at the path of a session is complete and says truly what it is.
THEOREM SessionsAreWhole == Spec => []SessionIsWhole
<1>1. Inv => SessionIsWhole
  BY DEF Inv
<1> QED
  BY <1>1, RunsKeepInv, PTL

(***************************************************************************)
(* What the sweep may remove.                                              *)
(***************************************************************************)
\* A step of a caller removes a staging directory only to publish it or undo it.
LEMMA CallerSpares ==
  ASSUME Inv, NEW p \in Callers, CallerStep(p), NEW s \in Slots, staging[s].there, ~staging'[s].there
  PROVE  session'.dir = s \/ (proc[p].slot = s /\ proc[p].at = "undo")
<1>1. staging \in [Slots -> StagingType]
  BY TypeByNames DEF Inv
<1>2. staging' # staging
  OBVIOUS
<1>3. CASE LookForSession(p) \/ GivesUp(p) \/ LookAgain(p)
  BY <1>2, <1>3 DEF LookForSession, GivesUp, LookAgain, Fails, disk
<1>4. CASE Touch(p) \/ RemoveSession(p) \/ RemoveTrash(p)
  BY <1>2, <1>4 DEF Touch, RemoveSession, RemoveTrash
<1>5. CASE MakeStaging(p)
  BY <1>1, <1>5 DEF MakeStaging, NewName
<1>6. CASE WriteMarkerTemp(p) \/ RenameMarker(p)
  BY <1>1, <1>6 DEF WriteMarkerTemp, RenameMarker, StagingType
<1>7. CASE WriteMetadata(p)
  BY <1>1, <1>7 DEF WriteMetadata, StagingType
<1>8. CASE Clone(p)
  <2>1. UNCHANGED staging \/ staging' = [staging EXCEPT ![proc[p].slot] =
          [staging[proc[p].slot] EXCEPT !.there = TRUE, !.req = proc[p].req, !.clones = @ + 1]]
    BY <1>8 DEF Clone, Mine
  <2>2. proc[p].slot = s => staging'[s].there
    BY <1>1, <1>2, <2>1 DEF StagingType
  <2>3. proc[p].slot # s => staging'[s] = staging[s]
    BY <1>1, <2>1
  <2> QED
    BY <2>2, <2>3
<1>9. CASE Publish(p)
  <2>1. Published(p)
    BY <1>2, <1>9 DEF Publish
  <2>2. session'.dir = proc[p].slot
    BY <2>1 DEF Published
  <2>3. proc[p].slot # s => staging'[s] = staging[s]
    BY <1>1, <2>1 DEF Published
  <2> QED
    BY <2>2, <2>3
<1>10. CASE Undo(p)
  BY <1>1, <1>10 DEF Undo, At
<1> QED
  BY <1>3, <1>4, <1>5, <1>6, <1>7, <1>8, <1>9, <1>10 DEF CallerStep

\* A step of the sweep removes one that is stale, or that it has gone on to remove.
LEMMA SweeperSpares ==
  ASSUME Inv, SweeperStep, NEW s \in Slots, staging[s].there, ~staging'[s].there
  PROVE  \/ staging[s].old /\ staging[s].marker # "written"
         \/ proc[Sweeper].at = "removeStaging" /\ proc[Sweeper].slot = s
<1>1. staging \in [Slots -> StagingType]
  BY TypeByNames DEF Inv
<1>2. staging' # staging
  OBVIOUS
<1>3. CASE StartSweep \/ SweepSession \/ RereadMarker \/ Acquire(Sweeper) \/ GivesUp(Sweeper)
  BY <1>2, <1>3 DEF StartSweep, SweepSession, RereadMarker, Acquire, GivesUp, Fails, disk
<1>4. CASE RemoveSession(Sweeper) \/ RemoveTrash(Sweeper) \/ ListStaging \/ EndSweep
  BY <1>2, <1>4 DEF RemoveSession, RemoveTrash, ListStaging, EndSweep, disk
<1>5. CASE SweepStaging
  BY <1>1, <1>5 DEF SweepStaging, At
<1>6. ASSUME NEW t \in Slots, NextStaging(t)
      PROVE  staging[s].old /\ staging[s].marker # "written"
  BY <1>1, <1>6 DEF NextStaging, Stale
<1> QED
  BY <1>3, <1>4, <1>5, <1>6 DEF SweeperStep

\* While no lock is lost, a step keeps the directory of the creator that has the
\* lock, unless the creator itself publishes it or undoes it.
LEMMA StepSparesTheLiving ==
  ASSUME Inv, [Next]_vars, ~lost, NEW p \in Callers, NEW s \in Slots,
         holder = p, proc[p].slot = s, proc[p].at # "undo", staging[s].there
  PROVE  staging'[s].there \/ session'.dir = s
<1>. SUFFICES ASSUME ~staging'[s].there PROVE session'.dir = s
  OBVIOUS
<1>1. staging \in [Slots -> StagingType] /\ staging' # staging /\ s # None
  BY Names, TypeByNames DEF Inv
<1>2. CASE SweeperStep
  BY <1>1, <1>2, SweeperSpares DEF Inv, SweepOK
<1>3. ASSUME NEW q \in Callers, CallerStep(q)
      PROVE  session'.dir = s
  BY <1>1, <1>3, CallerSpares DEF Inv, SlotsOK
<1>4. ASSUME NEW q \in Procs, LockTimesOut(q) \/ Cancelled(q) \/ LockLost(q) \/ Crash(q) \/ Acquire(q)
      PROVE  FALSE
  BY <1>1, <1>4 DEF LockTimesOut, Cancelled, LockLost, Crash, Acquire, disk
<1>5. ASSUME NEW q \in Callers,
             \/ CloneFails(q) \/ CreateRepositorySession(q) \/ CleanupRepositorySession(q)
             \/ TouchByRunAgent(q)
      PROVE  FALSE
  BY <1>1, <1>5
  DEF CloneFails, CreateRepositorySession, CleanupRepositorySession, TouchByRunAgent, Start, disk
<1>6. CASE SessionAges \/ ProjectRemoved \/ UNCHANGED vars
  BY <1>1, <1>6 DEF SessionAges, ProjectRemoved, disk, vars
<1>7. ASSUME NEW t \in Slots, StagingAges(t)
      PROVE  FALSE
  BY <1>1, <1>7 DEF StagingAges, StagingType
<1> QED
  BY <1>2, <1>3, <1>4, <1>5, <1>6, <1>7, Names DEF Next, Ages

\* The sweep never removes what somebody uses, as long as no lock is lost.
THEOREM LivingAreSpared == Spec => SweepSparesTheLiving
<1>1. Inv /\ [Next]_vars =>
        [~lost =>
           /\ At(Sweeper, "remove") /\ proc'[Sweeper].at = "rmSession" =>
                session.idle \/ ~proc[Sweeper].live
           /\ \A p \in Callers, s \in Slots :
                holder = p /\ proc[p].slot = s /\ ~At(p, "undo") /\ staging[s].there =>
                  staging'[s].there \/ session'.dir = s]_vars
  <2>. SUFFICES ASSUME Inv, [Next]_vars, ~lost
                PROVE  /\ At(Sweeper, "remove") => session.idle \/ ~proc[Sweeper].live
                       /\ \A p \in Callers, s \in Slots :
                            holder = p /\ proc[p].slot = s /\ ~At(p, "undo") /\ staging[s].there =>
                              staging'[s].there \/ session'.dir = s
    OBVIOUS
  <2>1. At(Sweeper, "remove") => session.idle \/ ~proc[Sweeper].live
    BY DEF Inv, SweepOK, At
  <2>2. \A p \in Callers, s \in Slots :
          holder = p /\ proc[p].slot = s /\ ~At(p, "undo") /\ staging[s].there =>
            staging'[s].there \/ session'.dir = s
    BY StepSparesTheLiving DEF At
  <2> QED
    BY <2>1, <2>2
<1> QED
  BY <1>1, RunsKeepInv, PTL DEF Spec, SweepSparesTheLiving

(***************************************************************************)
(* Task worktrees: the inductive invariant.                                *)
(***************************************************************************)
\* An attempt is heard only while the workflow prepares, and a cleanup has attempts left.
RunOK ==
  \A t \in Tasks :
    /\ ~AttemptAt(t, "now", "gone") => run[t] = "preparing"
    /\ run[t] = "cleaning" => tries[t] < MaxAttempts

\* The clone knows a worktree by its branch, which is there and is no other's.
GitOK ==
  /\ \A t \in Tasks :
       /\ registered[t] \in {Nothing, BranchOf[t]}
       /\ registered[t] # Nothing => BranchOf[t] \in refs
       /\ dir[t] # NoDir => dir[t].branch = BranchOf[t]
  /\ OneWorktreePerBranch

\* Nothing is swept of a repository that is kept.
KeptOK == disturbed # Tasks => managed /\ sweep = "off"

\* An undisturbed attempt at a place finds the clone done; what it has reclaimed stays
\* reclaimed until it adds its worktree, which is then there.
AtClone == {"reclaim", "rm", "prune", "branch", "fetch", "add", "addBase", "init"}
WayIsFree(t, at, uses) ==
  /\ at \in AtClone \/ uses => cache = "cloned"
  /\ at \in {"prune", "branch", "fetch", "add", "addBase"} => dir[t] = NoDir
  /\ at \in {"fetch", "add"} \/ (at = "addBase" /\ Wanted(t) = Base) => registered[t] = Nothing
  /\ at \in {"fetch", "add", "addBase"} /\ Wanted(t) = Base /\ Alone(t) /\ Reclaimable(t) =>
       BranchOf[t] \notin refs
  /\ at = "add" /\ Variant[t] = "head" => fetchHead = Wanted(t)
  /\ at = "addBase" => Variant[t] # "head"
  /\ at = "init" \/ uses => HasItsWorktree(t)
TaskOK(t) == t \notin disturbed => WayIsFree(t, attempt[t]["now"], run[t] = "using")

WorktreesInv == WorktreesTypeOK /\ RunOK /\ GitOK /\ KeptOK /\ \A t \in Tasks : TaskOK(t)

(***************************************************************************)
(* Constants, and the two ways an attempt goes on.                         *)
(***************************************************************************)
DirType == [branch : Branches \cup {Nothing}, commit : Commits \cup {Nothing}]
RunType == {"new", "preparing", "using", "cleaning", "done", "failed", "uncleaned"}

\* Branches are neither the default head nor nothing, and there is an attempt.
LEMMA Constants ==
  /\ Base # Nothing /\ MaxAttempts \in Nat \ {0} /\ MaxIncidents \in Nat
  /\ NoDir \in DirType /\ NoDir.branch = Nothing
  /\ \A t \in Tasks : /\ BranchOf[t] \in Branches /\ BranchOf[t] \notin {Base, Nothing}
                      /\ Wanted(t) \in Commits
                      /\ Variant[t] \in {"head", "branch", "new"}
                      /\ Variant[t] = "new" => Wanted(t) = Base
                      /\ Wanted(t) \in {Base, BranchOf[t]}
<1>1. NoDir \in DirType /\ NoDir.branch = Nothing
  BY DEF NoDir, DirType
<1> QED
  BY <1>1, WorktreesAssumption DEF Branches, Base, Nothing, Wanted, Commits

\* Going on to the next command moves one attempt.
LEMMA GoingOn ==
  ASSUME WorktreesTypeOK, NEW t \in Tasks, NEW s \in Attempts, NEW where \in AttemptPlaces, AttemptGoto(t, s, where)
  PROVE  /\ attempt' \in [Tasks -> [Attempts -> AttemptPlaces]]
         /\ attempt'[t][s] = where
         /\ \A r \in Attempts \ {s} : attempt'[t][r] = attempt[t][r]
         /\ \A u \in Tasks \ {t} : attempt'[u] = attempt[u]
<1>. DEFINE y == [attempt[t] EXCEPT ![s] = where]
<1>1. attempt' = [attempt EXCEPT ![t] = y]
  BY DEF AttemptGoto
<1>2. y \in [Attempts -> AttemptPlaces] /\ y[s] = where /\ \A r \in Attempts \ {s} : y[r] = attempt[t][r]
  BY DEF WorktreesTypeOK
<1>. HIDE DEF y
<1> QED
  BY <1>1, <1>2 DEF WorktreesTypeOK

\* A new phase of a run starts to count its attempts again.
LEMMA Beginning ==
  ASSUME WorktreesTypeOK, NEW t \in Tasks, NEW phase \in RunType, Begin(t, phase)
  PROVE  /\ run' \in [Tasks -> RunType] /\ tries' \in [Tasks -> 0..MaxAttempts]
         /\ run'[t] = phase /\ tries'[t] = 0
         /\ \A u \in Tasks \ {t} : run'[u] = run[u] /\ tries'[u] = tries[u]
<1>1. 0 \in 0..MaxAttempts
  BY Constants
<1> QED
  BY <1>1 DEF WorktreesTypeOK, Begin, RunType

\* An attempt that throws is gone, and the last one ends the run.
LEMMA Throwing ==
  ASSUME NEW t \in Tasks, NEW s \in Attempts, Throw(t, s)
  PROVE  /\ AttemptGoto(t, s, "gone")
         /\ (run' = run /\ tries' = tries) \/ (s = "now" /\ Begin(t, "failed"))
<1> QED
  BY DEF Throw, flow

\* What a step leaves of a task it is not a step of.
Untouched(u) ==
  /\ u \notin disturbed /\ dir'[u] = dir[u]
  /\ registered'[u] = registered[u] \/ (dir[u] = NoDir /\ registered'[u] = Nothing)
  /\ cache = "cloned" => cache' = "cloned"
  /\ AttemptAt(u, "now", "add") /\ Variant[u] = "head" => fetchHead' \in {fetchHead, Wanted(u)}
  /\ Alone(u) /\ BranchOf[u] \in refs' => BranchOf[u] \in refs

\* Such a task keeps its way.
LEMMA UntouchedStay ==
  ASSUME WorktreesInv, NEW u \in Tasks, u \notin disturbed' => Untouched(u),
         attempt'[u]["now"] = attempt[u]["now"], run'[u] = run[u]
  PROVE  TaskOK(u)'
<1>. SUFFICES ASSUME u \notin disturbed'
              PROVE  WayIsFree(u, attempt[u]["now"], run[u] = "using")'
  BY DEF TaskOK
<1>1. WayIsFree(u, attempt[u]["now"], run[u] = "using") /\ Untouched(u)
  BY DEF WorktreesInv, TaskOK, Untouched
<1>2. HasItsWorktree(u) => HasItsWorktree(u)'
  <2>1. HasItsWorktree(u) => dir[u] # NoDir
    BY Constants DEF HasItsWorktree
  <2> QED
    BY <1>1, <2>1 DEF HasItsWorktree, Untouched, MayFind, Wanted
<1> QED
  BY <1>1, <1>2 DEF WayIsFree, Untouched, Wanted, Alone, Reclaimable, AttemptAt

\* Where nothing of git changes but a branch that is made.
LEMMA GitStays ==
  ASSUME GitOK, registered' = registered, dir' = dir, refs \subseteq refs'
  PROVE  GitOK'
<1> QED
  BY DEF GitOK, OneWorktreePerBranch

\* A step of an attempt: what is to be shown is that nobody else is touched and that
\* the task's own way is free where the attempt goes on.
LEMMA AttemptKeepsInv ==
  ASSUME WorktreesInv, NEW t \in Tasks, NEW s \in Attempts, NEW where \in AttemptPlaces, NEW uses \in BOOLEAN,
         ~AttemptAt(t, s, "gone"), AttemptGoto(t, s, where),
         \/ ~uses /\ run' = run /\ tries' = tries
         \/ s = "now" /\ where = "gone" /\ Begin(t, IF uses THEN "using" ELSE "failed"),
         managed' = managed, sweep' = sweep, incidents' \in 0..MaxIncidents,
         cache' \in {"absent", "partial", "cloned"}, fetchHead' \in Commits \cup {Nothing},
         refs' \subseteq Branches, registered' \in [Tasks -> Branches \cup {Nothing}],
         dir' \in [Tasks -> DirType], disturbed' \subseteq Tasks, GitOK',
         disturbed \subseteq disturbed' \/ (managed /\ sweep = "off"),
         \A u \in Tasks : (u # t \/ s = "late") /\ u \notin disturbed' => Untouched(u),
         s = "now" /\ t \notin disturbed' => WayIsFree(t, where, uses)'
  PROVE  WorktreesInv'
<1>1. /\ attempt' \in [Tasks -> [Attempts -> AttemptPlaces]] /\ attempt'[t][s] = where
      /\ \A r \in Attempts \ {s} : attempt'[t][r] = attempt[t][r]
      /\ \A u \in Tasks \ {t} : attempt'[u] = attempt[u]
  BY GoingOn DEF WorktreesInv
<1>2. /\ run' \in [Tasks -> RunType] /\ tries' \in [Tasks -> 0..MaxAttempts]
      /\ \A u \in Tasks \ {t} : run'[u] = run[u] /\ tries'[u] = tries[u]
      /\ s = "now" => (run'[t] = "using" <=> uses)
      /\ \/ run' = run /\ tries' = tries
         \/ s = "now" /\ where = "gone" /\ run'[t] \in {"failed", "using"}
  <2>1. CASE run' = run /\ ~uses /\ tries' = tries
    <3>1. s = "now" => run[t] = "preparing"
      BY DEF WorktreesInv, RunOK
    <3> QED
      BY <2>1, <3>1 DEF WorktreesInv, WorktreesTypeOK, RunType
  <2>2. CASE uses /\ Begin(t, "using") /\ s = "now" /\ where = "gone"
    BY <2>2, Beginning DEF WorktreesInv, RunType
  <2>3. CASE ~uses /\ Begin(t, "failed") /\ s = "now" /\ where = "gone"
    BY <2>3, Beginning DEF WorktreesInv, RunType
  <2> QED
    BY <2>1, <2>2, <2>3
<1>3. WorktreesTypeOK'
  BY <1>1, <1>2 DEF WorktreesInv, WorktreesTypeOK, DirType, RunType
<1>4. RunOK'
  <2>1. \A u \in Tasks \ {t} : /\ ~AttemptAt(u, "now", "gone")' => run'[u] = "preparing"
                               /\ run'[u] = "cleaning" => tries'[u] < MaxAttempts
    BY <1>1, <1>2 DEF WorktreesInv, RunOK, AttemptAt
  <2>2. run'[t] = "cleaning" => run' = run /\ tries' = tries
    BY <1>2
  <2>3. ~AttemptAt(t, "now", "gone")' => run'[t] = "preparing"
    BY <1>1, <1>2 DEF WorktreesInv, RunOK, AttemptAt, Attempts
  <2> QED
    BY <2>1, <2>2, <2>3 DEF WorktreesInv, RunOK
<1>5. KeptOK'
  BY DEF WorktreesInv, KeptOK, WorktreesTypeOK
<1>6. ASSUME NEW u \in Tasks, u # t \/ s = "late"
      PROVE  TaskOK(u)'
  <2>1. attempt'[u]["now"] = attempt[u]["now"]
    BY <1>1, <1>6 DEF Attempts
  <2>2. run'[u] = run[u]
    BY <1>2, <1>6
  <2> QED
    BY <1>6, <2>1, <2>2, UntouchedStay
<1>7. s = "now" => TaskOK(t)'
  BY <1>1, <1>2 DEF TaskOK, WayIsFree
<1> QED
  BY <1>3, <1>4, <1>5, <1>6, <1>7 DEF WorktreesInv, Attempts

\* An attempt that leaves git and the directories alone.
LEMMA PlainStepKeepsInv ==
  ASSUME WorktreesInv, NEW t \in Tasks, NEW s \in Attempts, NEW where \in AttemptPlaces, NEW uses \in BOOLEAN,
         ~AttemptAt(t, s, "gone"), AttemptGoto(t, s, where),
         \/ ~uses /\ run' = run /\ tries' = tries
         \/ s = "now" /\ where = "gone" /\ Begin(t, IF uses THEN "using" ELSE "failed"),
         UNCHANGED <<cache, fetchHead, refs, registered, dir, managed, sweep, incidents, disturbed>>,
         s = "now" /\ t \notin disturbed => WayIsFree(t, where, uses)
  PROVE  WorktreesInv'
<1>1. GitOK'
  BY GitStays DEF WorktreesInv
<1>2. \A u \in Tasks : u \notin disturbed' => Untouched(u)
  BY DEF Untouched
<1>3. s = "now" /\ t \notin disturbed' => WayIsFree(t, where, uses)'
  BY DEF WayIsFree, HasItsWorktree, MayFind, Wanted, Alone, Reclaimable
<1> QED
  BY <1>1, <1>2, <1>3, AttemptKeepsInv DEF WorktreesInv, WorktreesTypeOK, DirType

\* An attempt that throws has no way to keep free.
LEMMA ThrowingKeepsInv ==
  ASSUME WorktreesInv, NEW t \in Tasks, NEW s \in Attempts, ~AttemptAt(t, s, "gone"), Throw(t, s),
         managed' = managed, sweep' = sweep, incidents' \in 0..MaxIncidents, cache' = cache,
         fetchHead' = fetchHead, refs \subseteq refs', refs' \subseteq refs \cup {BranchOf[t]},
         registered' \in [Tasks -> Branches \cup {Nothing}], dir' \in [Tasks -> DirType],
         \A u \in Tasks \ {t} : registered'[u] = registered[u] /\ dir'[u] = dir[u],
         GitOK', disturbed \subseteq disturbed', disturbed' \subseteq Tasks,
         s = "late" => t \in disturbed' \/ UNCHANGED <<refs, registered, dir>>
  PROVE  WorktreesInv'
<1>1. (run' = run /\ tries' = tries) \/ (s = "now" /\ Begin(t, "failed"))
  BY Throwing
<1>2. ASSUME NEW u \in Tasks, u # t \/ s = "late", u \notin disturbed'
      PROVE  Untouched(u)
  <2>1. CASE u # t
    BY <1>2, <2>1 DEF Untouched, Alone
  <2>2. CASE u = t
    BY <1>2, <2>2 DEF Untouched
  <2> QED
    BY <2>1, <2>2
<1>4. WayIsFree(t, "gone", FALSE)'
  BY DEF WayIsFree, AtClone
<1>5. AttemptGoto(t, s, "gone") /\ "gone" \in AttemptPlaces
  BY Throwing DEF AttemptPlaces
<1>6. refs' \subseteq Branches
  BY Constants DEF WorktreesInv, WorktreesTypeOK
<1> QED
  BY <1>1, <1>2, <1>4, <1>5, <1>6, AttemptKeepsInv DEF WorktreesInv, WorktreesTypeOK

(***************************************************************************)
(* The workflow and Temporal.                                              *)
(***************************************************************************)
\* Runs begin and end their use without touching what is prepared.
LEMMA WorkflowKeepsInv ==
  ASSUME WorktreesInv, NEW t \in Tasks, StartRun(t) \/ EndUse(t)
  PROVE  WorktreesInv'
<1>1. /\ UNCHANGED <<cache, fetchHead, refs, registered, dir, attempt, managed, sweep, incidents, disturbed>>
      /\ \/ Begin(t, "preparing") /\ run[t] \in {"new", "failed", "uncleaned"}
         \/ Begin(t, "cleaning") /\ run[t] = "using"
  BY DEF StartRun, EndUse, git
<1>2. PICK phase \in {"preparing", "cleaning"} : Begin(t, phase)
  BY <1>1
<1>3. /\ run' \in [Tasks -> RunType] /\ tries' \in [Tasks -> 0..MaxAttempts]
      /\ run'[t] = phase /\ tries'[t] = 0
      /\ \A u \in Tasks \ {t} : run'[u] = run[u] /\ tries'[u] = tries[u]
  BY <1>2, Beginning DEF WorktreesInv, RunType
<1>4. AttemptAt(t, "now", "gone")
  BY <1>1 DEF WorktreesInv, RunOK
<1>5. WorktreesTypeOK'
  BY <1>1, <1>3 DEF WorktreesInv, WorktreesTypeOK, RunType
<1>6. RunOK'
  BY <1>1, <1>3, <1>4, Constants DEF WorktreesInv, RunOK, AttemptAt
<1>7. GitOK' /\ KeptOK'
  BY <1>1, GitStays DEF WorktreesInv, KeptOK
<1>8. ASSUME NEW u \in Tasks \ {t}
      PROVE  TaskOK(u)'
  <2>1. u \notin disturbed' => Untouched(u)
    BY <1>1 DEF Untouched
  <2> QED
    BY <1>1, <1>3, <2>1, UntouchedStay
<1>9. TaskOK(t)'
  BY <1>1, <1>3, <1>4 DEF TaskOK, WayIsFree, AttemptAt, AtClone
<1> QED
  BY <1>5, <1>6, <1>7, <1>8, <1>9 DEF WorktreesInv

\* A new attempt has nothing to keep free yet.
LEMMA StartAttemptKeepsInv ==
  ASSUME WorktreesInv, NEW t \in Tasks, StartAttempt(t)
  PROVE  WorktreesInv'
<1>1. /\ run[t] = "preparing" /\ tries[t] < MaxAttempts
      /\ tries' = [tries EXCEPT ![t] = tries[t] + 1] /\ AttemptGoto(t, "now", "base")
      /\ UNCHANGED <<cache, fetchHead, refs, registered, dir, run, managed, sweep, incidents, disturbed>>
  BY DEF StartAttempt, git
<1>2. /\ attempt' \in [Tasks -> [Attempts -> AttemptPlaces]] /\ attempt'[t]["now"] = "base"
      /\ \A u \in Tasks \ {t} : attempt'[u] = attempt[u]
  BY <1>1, GoingOn DEF WorktreesInv, AttemptPlaces, Attempts
<1>3. tries' \in [Tasks -> 0..MaxAttempts] /\ \A u \in Tasks \ {t} : tries'[u] = tries[u]
  BY <1>1, Constants DEF WorktreesInv, WorktreesTypeOK
<1>4. WorktreesTypeOK'
  BY <1>1, <1>2, <1>3 DEF WorktreesInv, WorktreesTypeOK
<1>5. RunOK'
  BY <1>1, <1>2, <1>3 DEF WorktreesInv, RunOK, AttemptAt
<1>6. GitOK' /\ KeptOK'
  BY <1>1, GitStays DEF WorktreesInv, KeptOK
<1>7. ASSUME NEW u \in Tasks \ {t}
      PROVE  TaskOK(u)'
  <2>1. u \notin disturbed' => Untouched(u)
    BY <1>1 DEF Untouched
  <2> QED
    BY <1>1, <1>2, <2>1, UntouchedStay
<1>8. TaskOK(t)'
  BY <1>1, <1>2 DEF TaskOK, WayIsFree, AtClone
<1> QED
  BY <1>4, <1>5, <1>6, <1>7, <1>8 DEF WorktreesInv

\* What a command that is cut short leaves of git is of its own task.
LEMMA InterruptedStays ==
  ASSUME WorktreesInv, NEW t \in Tasks, NEW s \in Attempts, Interrupted(t, s)
  PROVE  /\ refs \subseteq refs' /\ refs' \subseteq refs \cup {BranchOf[t]}
         /\ registered' \in [Tasks -> Branches \cup {Nothing}] /\ dir' \in [Tasks -> DirType]
         /\ \A u \in Tasks \ {t} : registered'[u] = registered[u] /\ dir'[u] = dir[u]
         /\ dir[t] = NoDir => dir'[t] = NoDir
         /\ registered' # registered \/ refs' # refs => AddMayBranch(t, s)
         /\ dir' # dir => AttemptAt(t, s, "reclaim")
         /\ GitOK'
<1>1. CASE HalfAdded(t, s)
  <2>1. /\ AddMayBranch(t, s) /\ refs' = refs \cup {BranchOf[t]} /\ dir' = dir
        /\ \/ registered' = registered
           \/ registered[t] = Nothing /\ registered' = [registered EXCEPT ![t] = BranchOf[t]]
    BY <1>1 DEF HalfAdded
  <2>2. \A u \in Tasks : registered[u] # BranchOf[t]
    BY <2>1, Constants DEF AddMayBranch, CanBranch, CheckedOut, WorktreesInv, GitOK
  <2>3. registered' \in [Tasks -> Branches \cup {Nothing}] /\ registered'[t] \in {registered[t], BranchOf[t]}
        /\ \A u \in Tasks \ {t} : registered'[u] = registered[u]
    BY <2>1, Constants DEF WorktreesInv, WorktreesTypeOK
  <2>4. GitOK'
    <3>1. \A u \in Tasks : /\ registered'[u] \in {Nothing, BranchOf[u]}
                           /\ registered'[u] # Nothing => BranchOf[u] \in refs'
                           /\ dir'[u] # NoDir => dir'[u].branch = BranchOf[u]
      BY <2>1, <2>3 DEF WorktreesInv, GitOK
    <3>2. OneWorktreePerBranch'
      BY <2>1, <2>2, <2>3 DEF WorktreesInv, GitOK, OneWorktreePerBranch
    <3> QED
      BY <3>1, <3>2 DEF GitOK
  <2> QED
    BY <2>1, <2>3, <2>4 DEF WorktreesInv, WorktreesTypeOK, DirType
<1>2. CASE HalfRemoved(t, s)
  <2>1. /\ AttemptAt(t, s, "reclaim") /\ dir' = [dir EXCEPT ![t] = NoDir]
        /\ refs' = refs /\ registered' = registered
    BY <1>2 DEF HalfRemoved
  <2>2. /\ dir' \in [Tasks -> DirType] /\ dir'[t] = NoDir
        /\ \A u \in Tasks \ {t} : dir'[u] = dir[u]
    BY <2>1, Constants DEF WorktreesInv, WorktreesTypeOK, DirType
  <2>3. GitOK'
    BY <2>1, <2>2 DEF WorktreesInv, GitOK, OneWorktreePerBranch
  <2> QED
    BY <2>1, <2>2, <2>3 DEF WorktreesInv, WorktreesTypeOK
<1>3. CASE UNCHANGED <<refs, registered, dir>>
  BY <1>3, GitStays DEF WorktreesInv, WorktreesTypeOK, DirType
<1> QED
  BY <1>1, <1>2, <1>3 DEF Interrupted

\* A failing command ends the attempt, or leads to the next command.
LEMMA CommandFailsKeepsInv ==
  ASSUME WorktreesInv, NEW t \in Tasks, NEW s \in Attempts, CommandFails(t, s)
  PROVE  WorktreesInv'
<1>. DEFINE next == AfterFailure(t, attempt[t][s])
<1>1. /\ ~AttemptAt(t, s, "gone") /\ Incident /\ Interrupted(t, s)
      /\ IF next = "gone" THEN Throw(t, s) ELSE AttemptGoto(t, s, next) /\ run' = run /\ tries' = tries
      /\ disturbed' = IF s = "late" \/ AttemptAt(t, s, "branch") THEN disturbed \cup {t} ELSE disturbed
      /\ UNCHANGED <<cache, fetchHead, managed, sweep>>
      /\ AttemptAt(t, s, "reclaim") => dir[t] # NoDir
  BY DEF CommandFails, flow
<1>2. incidents' \in 0..MaxIncidents
  BY <1>1, Constants DEF Incident, WorktreesInv, WorktreesTypeOK
<1>3. disturbed \subseteq disturbed' /\ disturbed' \subseteq Tasks
  BY <1>1 DEF WorktreesInv, WorktreesTypeOK
<1>4. CASE next = "gone"
  BY <1>1, <1>2, <1>3, <1>4, InterruptedStays, ThrowingKeepsInv
<1>5. CASE next # "gone"
  <2>1. PICK place \in AttemptPlaces :
        /\ place = next
        /\ \/ AttemptAt(t, s, "reclaim") /\ place = "rm"
           \/ AttemptAt(t, s, "branch")
           \/ AttemptAt(t, s, "fetch") /\ place = "add" /\ Variant[t] = "branch"
           \/ AttemptAt(t, s, "add") /\ place = "addBase" /\ Variant[t] = "branch"
    BY <1>5 DEF AfterFailure, AfterReclaim, AttemptAt, AttemptPlaces
  <2>. HIDE DEF next
  <2>2. refs' \subseteq Branches
    BY <1>1, InterruptedStays, Constants DEF WorktreesInv, WorktreesTypeOK
  <2>3. ASSUME NEW u \in Tasks, u # t \/ s = "late", u \notin disturbed'
        PROVE  Untouched(u)
    <3>1. u # t
      BY <1>1, <2>3
    <3> QED
      BY <1>1, <1>3, <2>3, <3>1, InterruptedStays DEF Untouched, Alone
  <2>4. ASSUME s = "now", t \notin disturbed'
        PROVE  WayIsFree(t, place, FALSE)'
    <3>1. WayIsFree(t, attempt[t]["now"], run[t] = "using") /\ ~AttemptAt(t, s, "branch") /\ run[t] = "preparing"
      BY <1>1, <1>3, <2>4 DEF WorktreesInv, TaskOK, RunOK
    <3>2. CASE AttemptAt(t, s, "reclaim")
      BY <1>1, <2>1, <2>4, <3>1, <3>2 DEF WayIsFree, AttemptAt, AtClone
    <3>3. CASE AttemptAt(t, s, "fetch")
      <4>1. place = "add" /\ UNCHANGED <<refs, registered, dir>>
        BY <1>1, <2>1, <3>3, InterruptedStays DEF AttemptAt, AddMayBranch
      <4> QED
        BY <1>1, <2>1, <2>4, <3>1, <3>3, <4>1 DEF WayIsFree, AttemptAt, AtClone, Wanted, Alone, Reclaimable
    <3>4. CASE AttemptAt(t, s, "add")
      <4>1. place = "addBase" /\ dir' = dir /\ Variant[t] = "branch"
        BY <1>1, <2>1, <3>4, InterruptedStays DEF AttemptAt
      <4>2. Wanted(t) = Base => registered' = registered /\ refs' = refs
        BY <1>1, <3>4, InterruptedStays DEF AddMayBranch, AttemptAt
      <4> QED
        BY <1>1, <2>4, <3>1, <3>4, <4>1, <4>2 DEF WayIsFree, AttemptAt, AtClone, Wanted, Alone, Reclaimable
    <3> QED
      BY <2>1, <3>1, <3>2, <3>3, <3>4
  <2>5. AttemptGoto(t, s, place) /\ run' = run /\ tries' = tries
    BY <1>1, <1>5, <2>1
  <2>6. GitOK' /\ registered' \in [Tasks -> Branches \cup {Nothing}] /\ dir' \in [Tasks -> DirType]
    BY <1>1, InterruptedStays
  <2>7. cache' \in {"absent", "partial", "cloned"} /\ fetchHead' \in Commits \cup {Nothing}
    BY <1>1 DEF WorktreesInv, WorktreesTypeOK
  <2>8. managed' = managed /\ sweep' = sweep
    BY <1>1
  <2> QED
    BY <1>1, <1>2, <1>3, <2>2, <2>3, <2>4, <2>5, <2>6, <2>7, <2>8, AttemptKeepsInv
<1> QED
  BY <1>4, <1>5

\* Nobody hears an attempt that is given up, and what it is cut short at is its own.
LEMMA AttemptTimesOutKeepsInv ==
  ASSUME WorktreesInv, NEW t \in Tasks, AttemptTimesOut(t)
  PROVE  WorktreesInv'
<1>1. /\ Incident /\ Interrupted(t, "now") /\ ~AttemptAt(t, "now", "gone")
      /\ UNCHANGED <<cache, fetchHead, managed, sweep, disturbed>>
  BY DEF AttemptTimesOut, Interrupted
<1>2. PICK y \in [Attempts -> AttemptPlaces] : attempt' = [attempt EXCEPT ![t] = y] /\ y["now"] = "gone"
  <2>. DEFINE a == [s \in Attempts |-> IF s = "late" THEN attempt[t]["now"] ELSE "gone"]
              b == [s \in Attempts |-> "gone"]
  <2>1. a \in [Attempts -> AttemptPlaces] /\ a["now"] = "gone"
    BY DEF Attempts, AttemptPlaces, WorktreesInv, WorktreesTypeOK
  <2>2. b \in [Attempts -> AttemptPlaces] /\ b["now"] = "gone"
    BY DEF Attempts, AttemptPlaces
  <2>3. attempt' = [attempt EXCEPT ![t] = a] \/ attempt' = [attempt EXCEPT ![t] = b]
    BY DEF AttemptTimesOut
  <2>. HIDE DEF a, b
  <2> QED
    BY <2>1, <2>2, <2>3
<1>3. /\ attempt' \in [Tasks -> [Attempts -> AttemptPlaces]] /\ attempt'[t]["now"] = "gone"
      /\ \A u \in Tasks \ {t} : attempt'[u] = attempt[u]
  BY <1>2 DEF WorktreesInv, WorktreesTypeOK
<1>4. /\ run' \in [Tasks -> RunType] /\ tries' \in [Tasks -> 0..MaxAttempts]
      /\ run'[t] \in {run[t], "failed"}
      /\ \A u \in Tasks \ {t} : run'[u] = run[u] /\ tries'[u] = tries[u]
  <2>1. Begin(t, "failed") \/ (run' = run /\ tries' = tries)
    BY DEF AttemptTimesOut, flow
  <2> QED
    BY <2>1, Beginning DEF WorktreesInv, WorktreesTypeOK, RunType
<1>5. run[t] = "preparing"
  BY <1>1 DEF WorktreesInv, RunOK
<1>6. incidents' \in 0..MaxIncidents
  BY <1>1, Constants DEF Incident, WorktreesInv, WorktreesTypeOK
<1>7. refs' \subseteq Branches
  BY <1>1, InterruptedStays, Constants DEF WorktreesInv, WorktreesTypeOK, Attempts
<1>8. WorktreesTypeOK' /\ GitOK'
  <2>1. "now" \in Attempts
    BY DEF Attempts
  <2> QED
    BY <1>1, <1>3, <1>4, <1>6, <1>7, <2>1, InterruptedStays DEF WorktreesInv, WorktreesTypeOK, DirType, RunType
<1>9. RunOK'
  BY <1>3, <1>4, <1>5 DEF WorktreesInv, RunOK, AttemptAt
<1>10. KeptOK'
  BY <1>1 DEF WorktreesInv, KeptOK
<1>11. ASSUME NEW u \in Tasks \ {t}
       PROVE  TaskOK(u)'
  <2>1. "now" \in Attempts
    BY DEF Attempts
  <2>2. u \notin disturbed' => Untouched(u)
    BY <1>1, <2>1, InterruptedStays DEF Untouched, Alone
  <2> QED
    BY <1>3, <1>4, <2>2, UntouchedStay
<1>12. TaskOK(t)'
  BY <1>3, <1>4, <1>5 DEF TaskOK, WayIsFree, AtClone
<1> QED
  BY <1>8, <1>9, <1>10, <1>11, <1>12 DEF WorktreesInv

(***************************************************************************)
(* prepare.                                                                *)
(***************************************************************************)
\* A fetch disturbs whoever is about to use another.
LEMMA FetchingStays ==
  ASSUME WorktreesTypeOK, NEW t \in Tasks, NEW s \in Attempts, NEW commit, Fetched(t, s, commit)
  PROVE  /\ fetchHead' = commit /\ disturbed \subseteq disturbed' /\ disturbed' \subseteq Tasks
         /\ \A u \in Tasks : (u # t \/ s = "late") /\ u \notin disturbed' /\ AttemptAt(u, "now", "add") /\ Variant[u] = "head"
              => commit = Wanted(u)
<1> QED
  BY DEF Fetched, Waiting, WorktreesTypeOK

\* Steps on the clone and FETCH_HEAD alone.
LEMMA CloneStepKeepsInv ==
  ASSUME WorktreesInv, NEW t \in Tasks, NEW s \in Attempts, NEW where \in AttemptPlaces \ AtClone,
         ~AttemptAt(t, s, "gone"), AttemptGoto(t, s, where),
         UNCHANGED <<refs, registered, dir, run, tries, managed, sweep, incidents>>,
         cache' \in {"absent", "partial", "cloned"}, cache = "cloned" => cache' = "cloned",
         (fetchHead' = fetchHead /\ disturbed' = disturbed) \/ Fetched(t, s, Base)
  PROVE  WorktreesInv'
<1>1. /\ fetchHead' \in Commits \cup {Nothing} /\ disturbed \subseteq disturbed' /\ disturbed' \subseteq Tasks
      /\ \A u \in Tasks : (u # t \/ s = "late") /\ u \notin disturbed' /\ AttemptAt(u, "now", "add") /\ Variant[u] = "head"
           => fetchHead' \in {fetchHead, Wanted(u)}
  BY FetchingStays DEF WorktreesInv, WorktreesTypeOK, Commits
<1>2. GitOK'
  BY GitStays DEF WorktreesInv
<1>3. \A u \in Tasks : (u # t \/ s = "late") /\ u \notin disturbed' => Untouched(u)
  BY <1>1 DEF Untouched
<1>4. WayIsFree(t, where, FALSE)'
  BY DEF WayIsFree, AtClone
<1> QED
  BY <1>1, <1>2, <1>3, <1>4, AttemptKeepsInv DEF WorktreesInv, WorktreesTypeOK, DirType

\* The first attempt at a clone makes it, every other fetches.
LEMMA ensureBaseCloneKeepsInv ==
  ASSUME WorktreesInv, NEW t \in Tasks, NEW s \in Attempts, ensureBaseClone(t, s)
  PROVE  WorktreesInv'
<1>1. /\ AttemptAt(t, s, "base") /\ UNCHANGED <<refs, registered, run, tries, dir, managed, sweep, incidents>>
      /\ \/ /\ cache = "absent" /\ cache' = "partial" /\ AttemptGoto(t, s, "clone")
            /\ UNCHANGED <<fetchHead, disturbed>>
         \/ cache # "absent" /\ cache' = cache /\ Fetched(t, s, Base) /\ AttemptGoto(t, s, "detect")
  BY DEF ensureBaseClone, flow
<1>2. {"clone", "detect"} \subseteq AttemptPlaces \ AtClone
  BY DEF AttemptPlaces, AtClone
<1> QED
  BY <1>1, <1>2, CloneStepKeepsInv DEF AttemptAt, WorktreesInv, WorktreesTypeOK

\* The clone is done for whoever comes after it.
LEMMA CloneEndsKeepsInv ==
  ASSUME WorktreesInv, NEW t \in Tasks, NEW s \in Attempts, CloneEnds(t, s)
  PROVE  WorktreesInv'
<1>1. /\ AttemptAt(t, s, "clone")
      /\ UNCHANGED <<fetchHead, refs, registered, dir, managed, sweep, incidents, disturbed>>
      /\ \/ cache' = "cloned" /\ AttemptGoto(t, s, "detect") /\ run' = run /\ tries' = tries
         \/ cache' = cache /\ Throw(t, s)
  BY DEF CloneEnds, flow
<1>2. CASE Throw(t, s) /\ cache' = cache
  <2>1. GitOK'
    BY <1>1, GitStays DEF WorktreesInv
  <2> QED
    BY <1>1, <1>2, <2>1, ThrowingKeepsInv DEF AttemptAt, WorktreesInv, WorktreesTypeOK, DirType
<1>3. CASE ~(Throw(t, s) /\ cache' = cache)
  <2>1. "detect" \in AttemptPlaces \ AtClone
    BY DEF AttemptPlaces, AtClone
  <2> QED
    BY <1>1, <1>3, <2>1, CloneStepKeepsInv DEF AttemptAt
<1> QED
  BY <1>2, <1>3

\* Whoever goes on to reclaim has seen the clone done.
LEMMA detectDefaultBranchKeepsInv ==
  ASSUME WorktreesInv, NEW t \in Tasks, NEW s \in Attempts, detectDefaultBranch(t, s)
  PROVE  WorktreesInv'
<1>1. /\ AttemptAt(t, s, "detect")
      /\ UNCHANGED <<cache, fetchHead, refs, registered, dir, managed, sweep, incidents, disturbed>>
      /\ \/ cache = "cloned" /\ AttemptGoto(t, s, "reclaim") /\ run' = run /\ tries' = tries
         \/ Throw(t, s)
  BY DEF detectDefaultBranch, git, flow
<1>2. CASE Throw(t, s)
  <2>1. GitOK'
    BY <1>1, GitStays DEF WorktreesInv
  <2> QED
    BY <1>1, <1>2, <2>1, ThrowingKeepsInv DEF AttemptAt, WorktreesInv, WorktreesTypeOK, DirType
<1>3. CASE ~Throw(t, s)
  <2>1. cache = "cloned" => WayIsFree(t, "reclaim", FALSE)
    BY DEF WayIsFree
  <2>2. "reclaim" \in AttemptPlaces
    BY DEF AttemptPlaces
  <2> QED
    BY <1>1, <1>3, <2>1, <2>2, PlainStepKeepsInv DEF AttemptAt
<1> QED
  BY <1>2, <1>3

\* Where a worktree and its registration go together, the other worktrees stay.
LEMMA RemovingStays ==
  ASSUME WorktreesInv, NEW t \in Tasks, RemoveWorktree(t), refs' = refs
  PROVE  /\ registered' \in [Tasks -> Branches \cup {Nothing}] /\ dir' \in [Tasks -> DirType]
         /\ dir'[t] = NoDir /\ registered'[t] = Nothing
         /\ \A u \in Tasks \ {t} : dir'[u] = dir[u] /\ registered'[u] = registered[u]
         /\ GitOK'
<1>1. /\ registered' \in [Tasks -> Branches \cup {Nothing}] /\ dir' \in [Tasks -> DirType]
      /\ dir'[t] = NoDir /\ registered'[t] = Nothing
      /\ \A u \in Tasks \ {t} : dir'[u] = dir[u] /\ registered'[u] = registered[u]
  BY Constants DEF RemoveWorktree, WorktreesInv, WorktreesTypeOK, DirType
<1>2. OneWorktreePerBranch'
  BY <1>1 DEF WorktreesInv, GitOK, OneWorktreePerBranch
<1>3. \A u \in Tasks : /\ registered'[u] \in {Nothing, BranchOf[u]} /\ (registered'[u] # Nothing => BranchOf[u] \in refs')
                       /\ dir'[u] # NoDir => dir'[u].branch = BranchOf[u]
  BY <1>1 DEF WorktreesInv, GitOK
<1> QED
  BY <1>1, <1>2, <1>3 DEF GitOK

\* What is reclaimed is the task's own.
LEMMA reclaimStaleWorktreeKeepsInv ==
  ASSUME WorktreesInv, NEW t \in Tasks, NEW s \in Attempts, reclaimStaleWorktree(t, s)
  PROVE  WorktreesInv'
<1>1. /\ AttemptAt(t, s, "reclaim") /\ refs' = refs
      /\ disturbed' = IF s = "now" THEN Undisturbed(t) ELSE disturbed \cup {t}
      /\ UNCHANGED <<cache, fetchHead, run, tries, managed, sweep, incidents>>
  BY DEF reclaimStaleWorktree, flow
<1>2. PICK where \in {"branch", "rm"} :
        /\ AttemptGoto(t, s, where)
        /\ \/ dir' = dir /\ registered' = registered /\ (where = "branch" => dir[t] = NoDir)
           \/ RemoveWorktree(t)
  BY DEF reclaimStaleWorktree
<1>3. /\ registered' \in [Tasks -> Branches \cup {Nothing}] /\ dir' \in [Tasks -> DirType]
      /\ where = "branch" => dir'[t] = NoDir
      /\ \A u \in Tasks \ {t} : dir'[u] = dir[u] /\ registered'[u] = registered[u]
      /\ GitOK'
  <2>1. CASE RemoveWorktree(t)
    BY <1>1, <2>1, RemovingStays
  <2>2. CASE dir' = dir /\ registered' = registered /\ (where = "branch" => dir[t] = NoDir)
    BY <1>1, <2>2, GitStays DEF WorktreesInv, WorktreesTypeOK, DirType
  <2> QED
    BY <1>2, <2>1, <2>2
<1>4. /\ disturbed' \subseteq Tasks /\ (disturbed \subseteq disturbed' \/ (managed /\ sweep = "off"))
      /\ \A u \in Tasks : (u # t \/ s = "late") /\ u \notin disturbed' => u \notin disturbed /\ u # t
  BY <1>1 DEF Undisturbed, WorktreesInv, WorktreesTypeOK, Attempts
<1>5. \A u \in Tasks : (u # t \/ s = "late") /\ u \notin disturbed' => Untouched(u)
  BY <1>1, <1>3, <1>4 DEF Untouched
<1>6. s = "now" /\ t \notin disturbed' => cache = "cloned"
  <2>1. s = "now" /\ t \notin disturbed => cache = "cloned"
    BY <1>1 DEF WorktreesInv, TaskOK, WayIsFree, AttemptAt, AtClone
  <2> QED
    BY <1>1, <2>1 DEF Undisturbed
<1>7. s = "now" /\ t \notin disturbed' => WayIsFree(t, where, FALSE)'
  BY <1>1, <1>2, <1>3, <1>6 DEF WayIsFree
<1>8. {"branch", "rm"} \subseteq AttemptPlaces
  BY DEF AttemptPlaces
<1> QED
  BY <1>1, <1>2, <1>3, <1>4, <1>5, <1>7, <1>8, AttemptKeepsInv DEF AttemptAt, WorktreesInv, WorktreesTypeOK

\* A directory that is removed without its registration is the task's own.
LEMMA RmWorktreeKeepsInv ==
  ASSUME WorktreesInv, NEW t \in Tasks, NEW s \in Attempts, RmWorktree(t, s)
  PROVE  WorktreesInv'
<1>1. /\ AttemptAt(t, s, "rm") /\ dir' = [dir EXCEPT ![t] = NoDir] /\ AttemptGoto(t, s, "prune") /\ Meddled(t, s)
      /\ UNCHANGED <<cache, fetchHead, refs, registered, run, tries, managed, sweep, incidents>>
  BY DEF RmWorktree, git, flow
<1>2. dir' \in [Tasks -> DirType] /\ dir'[t] = NoDir /\ \A u \in Tasks \ {t} : dir'[u] = dir[u]
  BY <1>1, Constants DEF WorktreesInv, WorktreesTypeOK, DirType
<1>3. GitOK'
  BY <1>1, <1>2 DEF WorktreesInv, GitOK, OneWorktreePerBranch
<1>4. disturbed \subseteq disturbed' /\ disturbed' \subseteq Tasks /\ (s = "late" => t \in disturbed')
      /\ (s = "now" => disturbed' = disturbed)
  BY <1>1 DEF Meddled, WorktreesInv, WorktreesTypeOK
<1>5. \A u \in Tasks : (u # t \/ s = "late") /\ u \notin disturbed' => Untouched(u)
  BY <1>1, <1>2, <1>4 DEF Untouched
<1>6. s = "now" /\ t \notin disturbed' => WayIsFree(t, "prune", FALSE)'
  BY <1>1, <1>2, <1>4 DEF WorktreesInv, TaskOK, WayIsFree, AttemptAt, AtClone
<1>7. "prune" \in AttemptPlaces
  BY DEF AttemptPlaces
<1> QED
  BY <1>1, <1>2, <1>3, <1>4, <1>5, <1>6, <1>7, AttemptKeepsInv DEF AttemptAt, WorktreesInv, WorktreesTypeOK

\* What is pruned has no directory.
LEMMA PruneWorktreesKeepsInv ==
  ASSUME WorktreesInv, NEW t \in Tasks, NEW s \in Attempts, PruneWorktrees(t, s)
  PROVE  WorktreesInv'
<1>1. /\ AttemptAt(t, s, "prune") /\ AttemptGoto(t, s, "branch")
      /\ UNCHANGED <<cache, fetchHead, refs, dir, run, tries, managed, sweep, incidents, disturbed>>
  BY DEF PruneWorktrees, flow
<1>2. PICK pruned \in SUBSET {u \in Tasks : dir[u] = NoDir} :
        registered' = [u \in Tasks |-> IF u \in pruned THEN Nothing ELSE registered[u]]
  BY DEF PruneWorktrees
<1>3. /\ registered' \in [Tasks -> Branches \cup {Nothing}]
      /\ \A u \in Tasks : registered'[u] = registered[u] \/ (dir[u] = NoDir /\ registered'[u] = Nothing)
  BY <1>2 DEF WorktreesInv, WorktreesTypeOK
<1>4. GitOK'
  <2>1. OneWorktreePerBranch'
    BY <1>3 DEF WorktreesInv, GitOK, OneWorktreePerBranch
  <2> QED
    BY <1>1, <1>3, <2>1 DEF WorktreesInv, GitOK
<1>5. \A u \in Tasks : u \notin disturbed' => Untouched(u)
  BY <1>1, <1>3 DEF Untouched
<1>6. s = "now" /\ t \notin disturbed' => WayIsFree(t, "branch", FALSE)'
  BY <1>1 DEF WorktreesInv, TaskOK, WayIsFree, AttemptAt, AtClone
<1>7. "branch" \in AttemptPlaces
  BY DEF AttemptPlaces
<1> QED
  BY <1>1, <1>3, <1>4, <1>5, <1>6, <1>7, AttemptKeepsInv DEF AttemptAt, WorktreesInv, WorktreesTypeOK, DirType

\* The branch goes if nobody has it, and a registration that is left disturbs.
LEMMA DeleteBranchKeepsInv ==
  ASSUME WorktreesInv, NEW t \in Tasks, NEW s \in Attempts, DeleteBranch(t, s)
  PROVE  WorktreesInv'
<1>1. /\ AttemptAt(t, s, "branch") /\ refs' = KeptBranch(t) /\ AttemptGoto(t, s, AfterReclaim(t))
      /\ disturbed' = IF registered[t] # Nothing THEN disturbed \cup {t} ELSE disturbed
      /\ UNCHANGED <<cache, fetchHead, registered, dir, run, tries, managed, sweep, incidents>>
  BY DEF DeleteBranch, flow
<1>2. PICK where \in {"fetch", "addBase"} : where = AfterReclaim(t) /\ (where = "addBase" => Variant[t] # "head")
  BY DEF AfterReclaim
<1>3. refs' \subseteq refs /\ \A u \in Tasks : registered[u] # Nothing => BranchOf[u] \in refs'
  <2>1. \A u \in Tasks : registered[u] # Nothing => registered[u] = BranchOf[u] /\ BranchOf[u] \in refs
    BY DEF WorktreesInv, GitOK
  <2> QED
    BY <1>1, <2>1 DEF KeptBranch
<1>4. GitOK'
  BY <1>1, <1>3 DEF WorktreesInv, GitOK, OneWorktreePerBranch
<1>5. disturbed \subseteq disturbed' /\ disturbed' \subseteq Tasks /\ (t \notin disturbed' => registered[t] = Nothing)
  BY <1>1 DEF WorktreesInv, WorktreesTypeOK
<1>6. \A u \in Tasks : u \notin disturbed' => Untouched(u)
  BY <1>1, <1>3, <1>5 DEF Untouched
<1>7. ASSUME s = "now", t \notin disturbed'
      PROVE  WayIsFree(t, where, FALSE)'
  <2>1. cache = "cloned" /\ dir[t] = NoDir
    BY <1>1, <1>5, <1>7 DEF WorktreesInv, TaskOK, WayIsFree, AttemptAt, AtClone
  <2>2. Alone(t) => \A u \in Tasks : registered[u] # BranchOf[t]
    BY <1>5, <1>7, Constants DEF Alone, WorktreesInv, GitOK
  <2>3. Alone(t) /\ Wanted(t) = Base /\ Reclaimable(t) => BranchOf[t] \notin refs'
    BY <1>1, <2>1, <2>2 DEF KeptBranch, Reclaimable
  <2> QED
    BY <1>1, <1>2, <1>5, <1>7, <2>1, <2>3 DEF WayIsFree, Wanted, Alone, Reclaimable
<1>8. {"fetch", "addBase"} \subseteq AttemptPlaces
  BY DEF AttemptPlaces
<1>9. refs' \subseteq Branches
  BY <1>3 DEF WorktreesInv, WorktreesTypeOK
<1> QED
  BY <1>1, <1>2, <1>4, <1>5, <1>6, <1>7, <1>8, <1>9, AttemptKeepsInv DEF AttemptAt, WorktreesInv, WorktreesTypeOK, DirType

\* What the task asks for is in FETCH_HEAD until somebody fetches something else.
LEMMA FetchHeadKeepsInv ==
  ASSUME WorktreesInv, NEW t \in Tasks, NEW s \in Attempts, FetchHead(t, s)
  PROVE  WorktreesInv'
<1>1. AttemptAt(t, s, "fetch") /\ UNCHANGED <<cache, refs, registered, dir, managed, sweep, incidents>>
  BY DEF FetchHead
<1>2. GitOK'
  BY <1>1, GitStays DEF WorktreesInv
<1>3. CASE cache # "cloned" /\ Variant[t] = "head"
  <2>1. Throw(t, s) /\ fetchHead' = fetchHead /\ disturbed' = disturbed
    BY <1>3 DEF FetchHead
  <2> QED
    BY <1>1, <1>2, <2>1, ThrowingKeepsInv DEF AttemptAt, WorktreesInv, WorktreesTypeOK, DirType
<1>4. CASE ~(cache # "cloned" /\ Variant[t] = "head")
  <2>1. PICK commit \in {fetchHead, Wanted(t)} :
          /\ Fetched(t, s, commit) /\ AttemptGoto(t, s, "add") /\ run' = run /\ tries' = tries
          /\ Variant[t] = "head" => commit = Wanted(t)
    <3>1. Variant[t] = "head" => Wanted(t) # Base
      BY Constants DEF Wanted
    <3> QED
      BY <1>4, <3>1 DEF FetchHead, flow
  <2>2. /\ fetchHead' = commit /\ disturbed \subseteq disturbed' /\ disturbed' \subseteq Tasks
        /\ \A u \in Tasks : (u # t \/ s = "late") /\ u \notin disturbed' /\ AttemptAt(u, "now", "add") /\ Variant[u] = "head"
             => commit = Wanted(u)
    BY <2>1, FetchingStays DEF WorktreesInv
  <2>3. \A u \in Tasks : (u # t \/ s = "late") /\ u \notin disturbed' => Untouched(u)
    BY <1>1, <2>2 DEF Untouched
  <2>4. ASSUME s = "now", t \notin disturbed'
        PROVE  WayIsFree(t, "add", FALSE)'
    <3>1. WayIsFree(t, "fetch", run[t] = "using")
      BY <1>1, <2>2, <2>4 DEF WorktreesInv, TaskOK, AttemptAt
    <3> QED
      BY <1>1, <2>1, <2>2, <3>1 DEF WayIsFree, AtClone, Wanted, Alone, Reclaimable
  <2>5. "add" \in AttemptPlaces /\ commit \in Commits \cup {Nothing}
    BY Constants DEF AttemptPlaces, WorktreesInv, WorktreesTypeOK
  <2> QED
    BY <1>1, <1>2, <2>1, <2>2, <2>3, <2>4, <2>5, AttemptKeepsInv DEF AttemptAt, WorktreesInv, WorktreesTypeOK, DirType
<1> QED
  BY <1>3, <1>4

\* A worktree that is added is the only one of its branch.
LEMMA AddingStays ==
  ASSUME WorktreesInv, NEW t \in Tasks, NEW s \in Attempts, NEW reset \in BOOLEAN,
         NEW commit \in Commits \cup {Nothing}, CanAdd(t, reset), WorktreeAdd(t, s, commit)
  PROVE  /\ registered' \in [Tasks -> Branches \cup {Nothing}] /\ dir' \in [Tasks -> DirType]
         /\ refs' = refs \cup {BranchOf[t]} /\ AttemptGoto(t, s, "init") /\ run' = run /\ tries' = tries
         /\ dir'[t].branch = BranchOf[t] /\ dir'[t].commit = commit /\ registered'[t] = BranchOf[t]
         /\ \A u \in Tasks \ {t} : dir'[u] = dir[u] /\ registered'[u] = registered[u]
         /\ GitOK'
<1>. DEFINE made == [branch |-> BranchOf[t], commit |-> commit]
<1>1. /\ dir' = [dir EXCEPT ![t] = made] /\ registered' = [registered EXCEPT ![t] = BranchOf[t]]
      /\ refs' = refs \cup {BranchOf[t]} /\ AttemptGoto(t, s, "init") /\ run' = run /\ tries' = tries
  BY DEF WorktreeAdd, flow
<1>2. made \in DirType /\ made.branch = BranchOf[t] /\ made.commit = commit
  BY Constants DEF DirType
<1>. HIDE DEF made
<1>3. /\ registered' \in [Tasks -> Branches \cup {Nothing}] /\ dir' \in [Tasks -> DirType]
      /\ dir'[t] = made /\ registered'[t] = BranchOf[t]
      /\ \A u \in Tasks \ {t} : dir'[u] = dir[u] /\ registered'[u] = registered[u]
  BY <1>1, <1>2, Constants DEF WorktreesInv, WorktreesTypeOK, DirType
<1>4. \A u \in Tasks : registered[u] # BranchOf[t]
  <2>1. \A u \in Tasks : registered[u] # Nothing => registered[u] \in refs
    BY DEF WorktreesInv, GitOK
  <2> QED
    BY <2>1, Constants DEF CanAdd, CanBranch, CheckedOut
<1>5. OneWorktreePerBranch'
  BY <1>3, <1>4 DEF WorktreesInv, GitOK, OneWorktreePerBranch
<1>6. \A u \in Tasks : /\ registered'[u] \in {Nothing, BranchOf[u]} /\ (registered'[u] # Nothing => BranchOf[u] \in refs')
                       /\ dir'[u] # NoDir => dir'[u].branch = BranchOf[u]
  BY <1>1, <1>2, <1>3 DEF WorktreesInv, GitOK
<1> QED
  BY <1>1, <1>2, <1>3, <1>5, <1>6 DEF GitOK

\* What is added is at the commit its task may find; what is not leaves a branch at most.
LEMMA AddWorktreeKeepsInv ==
  ASSUME WorktreesInv, NEW t \in Tasks, NEW s \in Attempts, AddWorktree(t, s)
  PROVE  WorktreesInv'
<1>1. /\ Meddled(t, s) /\ UNCHANGED <<cache, fetchHead, managed, sweep, incidents>>
      /\ AddFromHead(t, s) \/ AddFromBranch(t, s) \/ AddFromBase(t, s)
  BY DEF AddWorktree
<1>2. PICK at \in {"add", "addBase"} : AttemptAt(t, s, at) /\ (at = "addBase" <=> AddFromBase(t, s))
  BY <1>1 DEF AddFromHead, AddFromBranch, AddFromBase, AttemptAt
<1>3. disturbed \subseteq disturbed' /\ disturbed' \subseteq Tasks /\ (s = "late" => t \in disturbed')
      /\ (s = "now" => disturbed' = disturbed)
  BY <1>1 DEF Meddled, WorktreesInv, WorktreesTypeOK
<1>4. s = "now" /\ t \notin disturbed' => WayIsFree(t, at, run[t] = "using")
  BY <1>2, <1>3 DEF WorktreesInv, TaskOK, AttemptAt
<1>5. ASSUME NEW reset \in BOOLEAN, NEW commit \in {fetchHead, Wanted(t), Base}, CanAdd(t, reset), WorktreeAdd(t, s, commit),
             s = "now" /\ t \notin disturbed' => commit \in MayFind(t)
      PROVE  WorktreesInv'
  <2>1. commit \in Commits \cup {Nothing}
    BY Constants DEF WorktreesInv, WorktreesTypeOK, Commits
  <2>2. /\ registered' \in [Tasks -> Branches \cup {Nothing}] /\ dir' \in [Tasks -> DirType]
        /\ refs' = refs \cup {BranchOf[t]} /\ AttemptGoto(t, s, "init") /\ run' = run /\ tries' = tries
        /\ dir'[t].branch = BranchOf[t] /\ dir'[t].commit = commit /\ registered'[t] = BranchOf[t]
        /\ \A u \in Tasks \ {t} : dir'[u] = dir[u] /\ registered'[u] = registered[u]
        /\ GitOK'
    BY <1>5, <2>1, AddingStays
  <2>3. \A u \in Tasks : (u # t \/ s = "late") /\ u \notin disturbed' => Untouched(u)
    BY <1>1, <1>3, <2>2 DEF Untouched, Alone
  <2>4. cache = "cloned"
    BY <1>5 DEF CanAdd, CanBranch
  <2>5. s = "now" /\ t \notin disturbed' => WayIsFree(t, "init", FALSE)'
    BY <1>1, <1>5, <2>2, <2>4 DEF WayIsFree, HasItsWorktree, MayFind, Wanted
  <2>6. "init" \in AttemptPlaces /\ refs' \subseteq Branches
    BY <2>2, Constants DEF AttemptPlaces, WorktreesInv, WorktreesTypeOK
  <2> QED
    BY <1>1, <1>2, <1>3, <2>2, <2>3, <2>5, <2>6, AttemptKeepsInv DEF AttemptAt, WorktreesInv, WorktreesTypeOK
<1>6. ASSUME CannotAdd(t, s)
      PROVE  /\ refs \subseteq refs' /\ refs' \subseteq refs \cup {BranchOf[t]} /\ dir' = dir /\ registered' = registered
             /\ at = "add" /\ Wanted(t) = Base => refs' = refs
             /\ GitOK'
  <2>1. /\ refs' = (IF AddMayBranch(t, s) THEN refs \cup {BranchOf[t]} ELSE refs) /\ dir' = dir /\ registered' = registered
    BY <1>6 DEF CannotAdd
  <2>2. at = "add" /\ Wanted(t) = Base => ~AddMayBranch(t, s)
    BY <1>2 DEF AddMayBranch, AttemptAt
  <2>3. refs \subseteq refs'
    BY <2>1
  <2>4. GitOK'
    BY <2>1, <2>3, GitStays DEF WorktreesInv
  <2> QED
    BY <2>1, <2>2, <2>3, <2>4
<1>7. CASE CannotAdd(t, s) /\ Throw(t, s)
  BY <1>1, <1>2, <1>3, <1>6, <1>7, ThrowingKeepsInv DEF AttemptAt, WorktreesInv, WorktreesTypeOK, DirType
<1>8. CASE CannotAdd(t, s) /\ AttemptGoto(t, s, "addBase") /\ at = "add" /\ Variant[t] = "branch" /\ run' = run /\ tries' = tries
  <2>1. \A u \in Tasks : (u # t \/ s = "late") /\ u \notin disturbed' => Untouched(u)
    BY <1>1, <1>3, <1>6, <1>8 DEF Untouched, Alone
  <2>2. s = "now" /\ t \notin disturbed' => WayIsFree(t, "addBase", FALSE)'
    BY <1>1, <1>4, <1>6, <1>8 DEF WayIsFree, AtClone, Wanted, Alone, Reclaimable
  <2>3. "addBase" \in AttemptPlaces /\ refs' \subseteq Branches
    BY <1>6, <1>8, Constants DEF AttemptPlaces, WorktreesInv, WorktreesTypeOK
  <2> QED
    BY <1>1, <1>2, <1>3, <1>6, <1>8, <2>1, <2>2, <2>3, AttemptKeepsInv DEF AttemptAt, WorktreesInv, WorktreesTypeOK, DirType
<1>9. CASE AddFromHead(t, s)
  <2>1. AttemptAt(t, s, "add") /\ Variant[t] = "head" /\ at = "add"
    BY <1>2, <1>9 DEF AddFromHead, AttemptAt
  <2>2. CASE CanAdd(t, TRUE) /\ WorktreeAdd(t, s, fetchHead)
    BY <1>4, <1>5, <2>1, <2>2 DEF WayIsFree, MayFind
  <2> QED
    BY <1>7, <1>9, <2>2 DEF AddFromHead
<1>10. CASE AddFromBranch(t, s)
  <2>1. AttemptAt(t, s, "add") /\ Variant[t] = "branch" /\ at = "add"
    BY <1>2, <1>10 DEF AddFromBranch, AttemptAt
  <2>2. CASE CanAdd(t, TRUE) /\ WorktreeAdd(t, s, Wanted(t))
    BY <1>5, <2>1, <2>2 DEF MayFind
  <2> QED
    BY <1>8, <1>10, <2>1, <2>2 DEF AddFromBranch, flow
<1>11. CASE AddFromBase(t, s)
  <2>1. AttemptAt(t, s, "addBase") /\ at = "addBase"
    BY <1>2, <1>11 DEF AddFromBase, AttemptAt
  <2>2. CASE CanAdd(t, FALSE) /\ WorktreeAdd(t, s, Base)
    BY <1>4, <1>5, <2>1, <2>2, Constants DEF WayIsFree, MayFind
  <2> QED
    BY <1>7, <1>11, <2>2 DEF AddFromBase
<1> QED
  BY <1>1, <1>9, <1>10, <1>11

\* A workflow that gets its worktree has one.
LEMMA PreparedKeepsInv ==
  ASSUME WorktreesInv, NEW t \in Tasks, NEW s \in Attempts, Prepared(t, s)
  PROVE  WorktreesInv'
<1>1. /\ AttemptAt(t, s, "init")
      /\ UNCHANGED <<cache, fetchHead, refs, registered, dir, managed, sweep, incidents, disturbed>>
      /\ \/ Throw(t, s)
         \/ AttemptGoto(t, s, "gone") /\ (IF s = "now" THEN Begin(t, "using") ELSE run' = run /\ tries' = tries)
  BY DEF Prepared, git, flow
<1>2. CASE Throw(t, s)
  <2>1. GitOK'
    BY <1>1, GitStays DEF WorktreesInv
  <2> QED
    BY <1>1, <1>2, <2>1, ThrowingKeepsInv DEF AttemptAt, WorktreesInv, WorktreesTypeOK, DirType
<1>3. CASE ~Throw(t, s)
  <2>1. PICK uses \in BOOLEAN : uses <=> s = "now"
    OBVIOUS
  <2>2. \/ ~uses /\ run' = run /\ tries' = tries
        \/ s = "now" /\ Begin(t, IF uses THEN "using" ELSE "failed")
    BY <1>1, <1>3, <2>1
  <2>3. s = "now" /\ t \notin disturbed => WayIsFree(t, "init", run[t] = "using")
    BY <1>1 DEF WorktreesInv, TaskOK, AttemptAt
  <2>4. s = "now" /\ t \notin disturbed => WayIsFree(t, "gone", uses)
    BY <2>3 DEF WayIsFree, AtClone
  <2>5. "gone" \in AttemptPlaces /\ ~AttemptAt(t, s, "gone") /\ AttemptGoto(t, s, "gone")
    BY <1>1, <1>3 DEF AttemptPlaces, AttemptAt
  <2> QED
    BY <1>1, <2>2, <2>4, <2>5, PlainStepKeepsInv
<1> QED
  BY <1>2, <1>3

(***************************************************************************)
(* cleanup and the sweep.                                                  *)
(***************************************************************************)
\* Cleanup removes its own task's worktree only.
LEMMA CleanupKeepsInv ==
  ASSUME WorktreesInv, NEW t \in Tasks, Cleanup(t)
  PROVE  WorktreesInv'
<1>1. run[t] = "cleaning" /\ UNCHANGED <<cache, fetchHead, refs, attempt, managed, sweep, disturbed>>
  BY DEF Cleanup
<1>2. \/ RemoveWorktree(t) \/ (dir' = [dir EXCEPT ![t] = NoDir] /\ registered' = registered)
      \/ dir' = dir /\ registered' = registered
  BY DEF Cleanup
<1>3. Begin(t, "done") \/ CleanupThrows(t)
  BY DEF Cleanup
<1>4. incidents' \in 0..MaxIncidents
  BY Constants DEF Cleanup, Incident, WorktreesInv, WorktreesTypeOK
<1>5. /\ registered' \in [Tasks -> Branches \cup {Nothing}] /\ dir' \in [Tasks -> DirType]
      /\ \A u \in Tasks \ {t} : dir'[u] = dir[u] /\ registered'[u] = registered[u]
      /\ GitOK'
  <2>1. CASE RemoveWorktree(t)
    BY <1>1, <2>1, RemovingStays
  <2>2. CASE dir' = [dir EXCEPT ![t] = NoDir] /\ registered' = registered
    <3>1. dir' \in [Tasks -> DirType] /\ dir'[t] = NoDir /\ \A u \in Tasks \ {t} : dir'[u] = dir[u]
      BY <2>2, Constants DEF WorktreesInv, WorktreesTypeOK, DirType
    <3> QED
      BY <1>1, <2>2, <3>1 DEF WorktreesInv, GitOK, OneWorktreePerBranch, WorktreesTypeOK
  <2>3. CASE dir' = dir /\ registered' = registered
    BY <1>1, <2>3, GitStays DEF WorktreesInv, WorktreesTypeOK, DirType
  <2> QED
    BY <1>2, <2>1, <2>2, <2>3
<1>6. \/ \E phase \in {"done", "uncleaned"} : Begin(t, phase)
      \/ tries[t] + 1 < MaxAttempts /\ tries' = [tries EXCEPT ![t] = tries[t] + 1] /\ run' = run
  <2>1. tries[t] \in Nat /\ tries[t] < MaxAttempts
    BY <1>1, Constants DEF WorktreesInv, WorktreesTypeOK, RunOK
  <2>2. tries[t] + 1 # MaxAttempts => tries[t] + 1 < MaxAttempts
    BY <2>1, Constants
  <2> QED
    BY <1>3, <2>2 DEF CleanupThrows
<1>7. /\ run' \in [Tasks -> RunType] /\ tries' \in [Tasks -> 0..MaxAttempts]
      /\ run'[t] \in {"done", "uncleaned", "cleaning"} /\ (run'[t] = "cleaning" => tries'[t] < MaxAttempts)
      /\ \A u \in Tasks \ {t} : run'[u] = run[u] /\ tries'[u] = tries[u]
  <2>1. CASE \E phase \in {"done", "uncleaned"} : Begin(t, phase)
    <3>1. PICK phase \in {"done", "uncleaned"} : Begin(t, phase)
      BY <2>1
    <3> QED
      BY <3>1, Beginning DEF WorktreesInv, RunType
  <2>2. CASE tries[t] + 1 < MaxAttempts /\ tries' = [tries EXCEPT ![t] = tries[t] + 1] /\ run' = run
    BY <1>1, <2>2, Constants DEF WorktreesInv, WorktreesTypeOK, RunType
  <2> QED
    BY <1>6, <2>1, <2>2
<1>8. AttemptAt(t, "now", "gone")
  BY <1>1 DEF WorktreesInv, RunOK
<1>9. WorktreesTypeOK'
  BY <1>1, <1>4, <1>5, <1>7, Constants DEF WorktreesInv, WorktreesTypeOK, DirType, RunType
<1>10. RunOK'
  BY <1>1, <1>7, <1>8 DEF WorktreesInv, RunOK, AttemptAt
<1>11. KeptOK'
  BY <1>1 DEF WorktreesInv, KeptOK
<1>12. ASSUME NEW u \in Tasks \ {t}
       PROVE  TaskOK(u)'
  <2>1. u \notin disturbed' => Untouched(u)
    BY <1>1, <1>5 DEF Untouched
  <2> QED
    BY <1>1, <1>7, <2>1, UntouchedStay
<1>13. TaskOK(t)'
  BY <1>1, <1>7, <1>8 DEF TaskOK, WayIsFree, AttemptAt, AtClone
<1> QED
  BY <1>5, <1>9, <1>10, <1>11, <1>12, <1>13 DEF WorktreesInv

\* Where the repository is given up, or was, every task is disturbed.
LEMMA SweepKeepsInv ==
  ASSUME WorktreesInv, RegistryChanges \/ SweepLists \/ SweepWorktrees \/ SweepCache
  PROVE  WorktreesInv'
<1>1. disturbed' = Tasks
  BY DEF WorktreesInv, WorktreesTypeOK, KeptOK, RegistryChanges, SweepLists, Listed, SweepWorktrees, SweepCache
<1>2. UNCHANGED <<attempt, run, tries>>
  BY DEF RegistryChanges, SweepLists, SweepWorktrees, SweepCache, flow
<1>3. CASE RegistryChanges \/ SweepLists
  <2>1. /\ UNCHANGED <<cache, fetchHead, refs, registered, dir>> /\ sweep' \in {"worktrees", sweep}
        /\ (incidents' = incidents \/ (incidents + 2 <= MaxIncidents /\ incidents' = incidents + 2))
    BY <1>3 DEF RegistryChanges, SweepLists, git
  <2>2. GitOK'
    BY <2>1, GitStays DEF WorktreesInv
  <2>3. incidents' \in 0..MaxIncidents
    BY <2>1, Constants DEF WorktreesInv, WorktreesTypeOK
  <2>4. managed' \in BOOLEAN
    BY <1>3 DEF RegistryChanges, SweepLists, WorktreesInv, WorktreesTypeOK
  <2>5. WorktreesTypeOK'
    BY <1>1, <1>2, <2>1, <2>3, <2>4 DEF WorktreesInv, WorktreesTypeOK
  <2> QED
    BY <1>1, <1>2, <2>2, <2>5 DEF WorktreesInv, RunOK, KeptOK, TaskOK, AttemptAt
<1>4. CASE SweepWorktrees
  <2>1. /\ dir' \in [Tasks -> DirType] /\ \A u \in Tasks : dir'[u] \in {NoDir, dir[u]}
        /\ sweep' = "cache" /\ UNCHANGED <<cache, fetchHead, refs, registered, managed, incidents>>
    BY <1>4, Constants DEF SweepWorktrees, git, WorktreesInv, WorktreesTypeOK, DirType
  <2>2. WorktreesTypeOK'
    BY <1>1, <1>2, <2>1, Constants DEF WorktreesInv, WorktreesTypeOK, DirType
  <2>3. GitOK'
    BY <2>1 DEF WorktreesInv, GitOK, OneWorktreePerBranch
  <2> QED
    BY <1>1, <1>2, <2>2, <2>3 DEF WorktreesInv, RunOK, KeptOK, TaskOK, AttemptAt
<1>5. CASE SweepCache
  <2>1. /\ cache' = "absent" /\ fetchHead' = Nothing /\ refs' = {} /\ sweep' = "off"
        /\ registered' = [u \in Tasks |-> Nothing] /\ UNCHANGED <<dir, managed, incidents>>
    BY <1>5 DEF SweepCache
  <2>2. WorktreesTypeOK'
    BY <1>1, <1>2, <2>1 DEF WorktreesInv, WorktreesTypeOK
  <2>3. GitOK'
    BY <2>1 DEF WorktreesInv, GitOK, OneWorktreePerBranch
  <2> QED
    BY <1>1, <1>2, <2>2, <2>3 DEF WorktreesInv, RunOK, KeptOK, TaskOK, AttemptAt
<1> QED
  BY <1>3, <1>4, <1>5

(***************************************************************************)
(* The theorems.                                                           *)
(***************************************************************************)
\* Nothing is there at first.
LEMMA WorktreesInitHasInv == WorktreesInit => WorktreesInv
<1>. SUFFICES ASSUME WorktreesInit
              PROVE  WorktreesInv
  OBVIOUS
<1>1. /\ "gone" \in AttemptPlaces /\ 0 \in 0..MaxAttempts /\ 0 \in 0..MaxIncidents
  BY Constants DEF AttemptPlaces
<1>2. WorktreesTypeOK
  BY <1>1, Constants DEF WorktreesInit, WorktreesTypeOK, DirType
<1>3. RunOK /\ GitOK /\ KeptOK
  BY DEF WorktreesInit, RunOK, GitOK, KeptOK, OneWorktreePerBranch, AttemptAt, Attempts
<1>4. \A t \in Tasks : TaskOK(t)
  BY DEF WorktreesInit, TaskOK, WayIsFree, AtClone, Attempts
<1> QED
  BY <1>2, <1>3, <1>4 DEF WorktreesInv

\* Every step keeps the invariant.
LEMMA WorktreesNextKeepsInv == WorktreesInv /\ [WorktreesNext]_worktreesVars => WorktreesInv'
<1>. SUFFICES ASSUME WorktreesInv, [WorktreesNext]_worktreesVars
              PROVE  WorktreesInv'
  OBVIOUS
<1>1. ASSUME NEW t \in Tasks, NEW s \in Attempts, PrepareStep(t, s)
      PROVE  WorktreesInv'
  BY <1>1, ensureBaseCloneKeepsInv, CloneEndsKeepsInv, detectDefaultBranchKeepsInv, reclaimStaleWorktreeKeepsInv,
     RmWorktreeKeepsInv, PruneWorktreesKeepsInv, DeleteBranchKeepsInv, FetchHeadKeepsInv, AddWorktreeKeepsInv,
     PreparedKeepsInv DEF PrepareStep
<1>2. ASSUME NEW t \in Tasks, NEW s \in Attempts, CommandFails(t, s)
      PROVE  WorktreesInv'
  BY <1>2, CommandFailsKeepsInv
<1>3. ASSUME NEW t \in Tasks, StartRun(t) \/ StartAttempt(t) \/ AttemptTimesOut(t) \/ EndUse(t) \/ Cleanup(t)
      PROVE  WorktreesInv'
  BY <1>3, WorkflowKeepsInv, StartAttemptKeepsInv, AttemptTimesOutKeepsInv, CleanupKeepsInv
<1>4. CASE RegistryChanges \/ SweepLists \/ SweepWorktrees \/ SweepCache
  BY <1>4, SweepKeepsInv
<1>5. CASE UNCHANGED worktreesVars
  <2>1. UNCHANGED <<cache, fetchHead, refs, registered, dir, run, tries, attempt, managed, sweep, incidents, disturbed>>
    BY <1>5 DEF worktreesVars, git, flow
  <2> QED
    BY <2>1 DEF WorktreesInv, WorktreesTypeOK, RunOK, GitOK, OneWorktreePerBranch, KeptOK, TaskOK, WayIsFree,
       HasItsWorktree, MayFind, Wanted, Alone, Reclaimable, AttemptAt
<1> QED
  BY <1>1, <1>2, <1>3, <1>4, <1>5 DEF WorktreesNext

\* The invariant holds of every behaviour.
LEMMA WorktreesKeepInv == WorktreesSpec => []WorktreesInv
<1> QED
  BY WorktreesInitHasInv, WorktreesNextKeepsInv, PTL DEF WorktreesSpec

\* What the places and histories of worktrees are.
THEOREM WorktreesTypeCorrect == WorktreesSpec => []WorktreesTypeOK
<1>1. WorktreesInv => WorktreesTypeOK
  BY DEF WorktreesInv
<1> QED
  BY <1>1, WorktreesKeepInv, PTL

\* Whatever other tasks, attempts and runs do to the clone they share, a task that
\* nothing known has disturbed works in its own worktree, at a commit it may find.
THEOREM OwnWorktree == WorktreesSpec => []WorktreeIsItsOwn
<1>1. WorktreesInv => WorktreeIsItsOwn
  BY DEF WorktreesInv, TaskOK, WayIsFree, WorktreeIsItsOwn
<1> QED
  BY <1>1, WorktreesKeepInv, PTL

\* However attempts overlap, time out and go on, and whatever is swept, no branch is
\* checked out in two worktrees.
THEOREM BranchesAreExclusive == WorktreesSpec => []OneWorktreePerBranch
<1>1. WorktreesInv => OneWorktreePerBranch
  BY DEF WorktreesInv, GitOK
<1> QED
  BY <1>1, WorktreesKeepInv, PTL

\* Wherever earlier attempts and runs of a task alone on its branch were cut short, what
\* they have left does not make its next worktree add fail, unless it is a registration
\* without a directory or the task is otherwise disturbed.
THEOREM LeftoversCostNothing == WorktreesSpec => []LeftoversAreReclaimed
<1>1. ASSUME WorktreesInv, NEW t \in Tasks, Alone(t), t \notin disturbed, Reclaimable(t)
      PROVE  /\ AttemptAt(t, "now", "add") /\ Wanted(t) # Base => CanAdd(t, TRUE)
             /\ AttemptAt(t, "now", "addBase") /\ Wanted(t) = Base => CanAdd(t, FALSE)
  <2>1. WayIsFree(t, attempt[t]["now"], run[t] = "using")
    BY <1>1 DEF WorktreesInv, TaskOK
  <2>2. registered[t] = Nothing => ~CheckedOut(BranchOf[t])
    BY <1>1, Constants DEF WorktreesInv, GitOK, Alone, CheckedOut
  <2> QED
    BY <1>1, <2>1, <2>2 DEF WayIsFree, AttemptAt, AtClone, CanAdd, CanBranch
<1>2. WorktreesInv => LeftoversAreReclaimed
  BY <1>1 DEF LeftoversAreReclaimed
<1> QED
  BY <1>2, WorktreesKeepInv, PTL
================================================================================
