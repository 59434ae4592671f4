----------------------------- MODULE RepoSessions -----------------------------
(* Repository sessions of the workspace manager: the directory of one task of  *)
(* one project, the staging directories it is built in, and the sweep that     *)
(* removes what is left over.                                                  *)
(*                                                                             *)
(* A process is an activity attempt, parked at an await; it holds the lock of  *)
(* the session as promised by Exclusion.  A lock that is lost aborts the       *)
(* signal of its operation at once, which here means: before another process   *)
(* has been granted the lock.                                                  *)
EXTENDS Naturals, FiniteSets

CONSTANTS
  Callers,          \* attempts that create, touch or clean the session
  Sweeper,          \* the attempt that prunes
  None,             \* nobody
  Requests,         \* requests for this task; they differ in their repositories
  Asks,             \* who may make which request
  NRepos,           \* repositories of a request
  NSlots,           \* bound: names mkdtemp has for staging directories
  MaxStarts,        \* bound: operations of callers
  MaxAccidents      \* bound: failing clones, cancellations, crashes, lost locks

Procs == Callers \cup {Sweeper}
Slots == 1..NSlots

ASSUME RepoSessionsAssumption ==
  /\ Sweeper \notin Callers /\ None \notin Procs \cup Slots \cup Requests
  /\ Asks \subseteq Callers \X Requests
  /\ NSlots \in Nat /\ NRepos \in Nat \ {0} /\ MaxStarts \in Nat /\ MaxAccidents \in Nat

VARIABLES
  session,          \* the directory of the session
  staging,          \* slot -> staging directory
  todo,             \* staging directories the sweep has yet to look at
  trash,            \* directories renamed out of the way and not yet removed
  holder,           \* who holds the lock of the session
  proc,             \* process -> where it is and what it remembers
  aborted,          \* processes whose signal is aborted
  lost,             \* history: whether a lock was lost
  live,             \* whether the project is in the registry
  starts, accidents

vars == <<session, staging, trash, holder, proc, todo, aborted, lost, live, starts, accidents>>
disk == <<session, staging, trash>>
lock == <<holder, aborted, lost>>
world == <<live, starts, accidents>>

\* dir names the directory a session was published from; clones are those in it.
NoSession == [dir |-> None, req |-> None, clones |-> 0, meta |-> None, idle |-> FALSE]
\* marker: "absent", its temporary file, or written.
NoStaging == [there |-> FALSE, marker |-> "absent", req |-> None, clones |-> 0,
              meta |-> None, old |-> FALSE]
Idle == [at |-> "idle", op |-> "none", req |-> None, slot |-> None, done |-> 0,
         saw |-> None, live |-> TRUE, answered |-> FALSE]

Exists == session.dir # None
At(p, where) == proc[p].at = where
Goto(p, where) == proc' = [proc EXCEPT ![p].at = where]

Init ==
  /\ session = NoSession /\ staging = [s \in Slots |-> NoStaging] /\ trash = {}
  /\ todo = {} /\ holder = None /\ proc = [p \in Procs |-> Idle]
  /\ aborted = {} /\ lost = FALSE /\ live = TRUE
  /\ starts = 0 /\ accidents = 0

(***************************************************************************)
(* withSessionLock.                                                        *)
(***************************************************************************)
Start(p, op, r) ==
  /\ p \in Callers /\ At(p, "idle") /\ starts < MaxStarts
  /\ starts' = starts + 1
  /\ proc' = [proc EXCEPT ![p] = [Idle EXCEPT !.at = "lock", !.op = op, !.req = r]]
  /\ UNCHANGED <<disk, lock, live, accidents>>

\* A project that is not registered may read no repository.
CreateRepositorySession(p) ==
  live /\ \E r \in Requests : <<p, r>> \in Asks /\ Start(p, "create", r)

CleanupRepositorySession(p) == Start(p, "clean", None)

\* runAgent touches the session of its workspace before it calls the agent.
TouchByRunAgent(p) == Start(p, "touch", None)

\* (No lock is taken.)
Lock_None(p) == UNCHANGED holder

Lock(p) == holder = None /\ holder' = p

Acquire(p) ==
  /\ At(p, "lock") /\ p \notin aborted
  /\ Lock(p) /\ Goto(p, IF proc[p].op = "sweepStaging" THEN "reread" ELSE "look")
  /\ UNCHANGED <<disk, aborted, lost, world>>

Unlock(p) == holder' = IF holder = p THEN None ELSE holder

\* What the process does when its operation under the lock is over: the sweep
\* goes on, whatever happened; an operation without its lock has failed.
Leave(p, ok) ==
  /\ Unlock(p)
  /\ aborted' = IF p = Sweeper THEN aborted ELSE aborted \ {p}
  /\ UNCHANGED lost
  /\ proc' = [proc EXCEPT ![p] =
       IF p = Sweeper
       THEN [Idle EXCEPT !.op = "sweepStaging", !.live = proc[p].live,
                         !.at = IF proc[p].op = "sweep" THEN "listStaging" ELSE "nextStaging"]
       ELSE [Idle EXCEPT !.answered = ok /\ holder = p]]

Fails(p) == Leave(p, FALSE) /\ UNCHANGED <<disk, world>>

GivesUp(p) ==
  /\ At(p, "lock") /\ p \in aborted
  /\ Fails(p)

Accident == accidents < MaxAccidents /\ accidents' = accidents + 1

LockTimesOut(p) ==
  /\ At(p, "lock") /\ Accident
  /\ Leave(p, FALSE)
  /\ UNCHANGED <<disk, live, starts>>

(***************************************************************************)
(* prepareRepositorySession.                                               *)
(***************************************************************************)
\* readSessionMetadata and readStagingMetadata: all of it and valid, or an error.
Readable(dir) == dir.meta # None
HasMarker(dir) == dir.there /\ dir.marker = "written"

Creates(p) == proc[p].op = "create"

Matches(p) == Readable(session) /\ session.meta = proc[p].req

LookForSession(p) ==
  /\ At(p, "look") /\ Creates(p)
  /\ IF p \in aborted \/ Exists \/ ~live
     THEN Leave(p, p \notin aborted /\ Exists /\ Matches(p)) /\ UNCHANGED <<disk, world>>
     ELSE Goto(p, "mkdtemp") /\ UNCHANGED <<disk, lock, world>>

\* The names of mkdtemp are new, one nobody has or remembers; which is all one.
NewName(s) ==
  /\ ~staging[s].there /\ s # session.dir /\ s \notin trash
  /\ \A q \in Procs : s \notin {proc[q].slot, proc[q].saw}

MakeStaging(p) ==
  /\ At(p, "mkdtemp")
  /\ \E s \in Slots :
       /\ NewName(s) /\ \A t \in Slots : NewName(t) => s <= t
       /\ staging' = [staging EXCEPT ![s] = [NoStaging EXCEPT !.there = TRUE, !.req = proc[p].req]]
       /\ proc' = [proc EXCEPT ![p].slot = s,
                               ![p].at = IF p \in aborted THEN "undo" ELSE "markerTemp"]
  /\ UNCHANGED <<session, trash, lock, world>>

Mine(p) == staging[proc[p].slot]

WriteMarkerTemp(p) ==
  /\ At(p, "markerTemp")
  /\ IF Mine(p).there
     THEN /\ staging' = [staging EXCEPT ![proc[p].slot].marker = "temp"]
          /\ Goto(p, "marker")
     ELSE Goto(p, "undo") /\ UNCHANGED staging
  /\ UNCHANGED <<session, trash, lock, world>>

RenameMarker(p) ==
  /\ At(p, "marker")
  /\ IF Mine(p).there /\ Mine(p).marker = "temp"
     THEN /\ staging' = [staging EXCEPT ![proc[p].slot].marker = "written"]
          /\ Goto(p, "clone")
     ELSE Goto(p, "undo") /\ UNCHANGED staging
  /\ UNCHANGED <<session, trash, lock, world>>

\* One repository: mkdir, clone, fetch and checkout of its ref, rev-parse.  The
\* mkdir makes a staging directory again that has been removed.
Clone(p) ==
  /\ At(p, "clone") /\ proc[p].done < NRepos
  /\ IF p \in aborted THEN Goto(p, "undo") /\ UNCHANGED staging
     ELSE /\ staging' = [staging EXCEPT ![proc[p].slot] =
                           [Mine(p) EXCEPT !.there = TRUE, !.req = proc[p].req, !.clones = @ + 1]]
          /\ proc' = [proc EXCEPT ![p].done = @ + 1]
  /\ UNCHANGED <<session, trash, lock, world>>

CloneFails(p) ==
  /\ At(p, "clone") /\ Accident
  /\ Goto(p, "undo")
  /\ UNCHANGED <<disk, lock, live, starts>>

\* writeSessionMetadata and the two checks of what it is about to publish.
WriteMetadata(p) ==
  /\ At(p, "clone") /\ proc[p].done = NRepos
  /\ IF p \in aborted \/ ~Mine(p).there THEN Goto(p, "undo") /\ UNCHANGED staging
     ELSE /\ staging' = [staging EXCEPT ![proc[p].slot].meta = proc[p].req]
          /\ Goto(p, "publish")
  /\ UNCHANGED <<session, trash, lock, world>>

Published(p) ==
  /\ session' = [dir |-> proc[p].slot, req |-> Mine(p).req, clones |-> Mine(p).clones,
                 meta |-> Mine(p).meta, idle |-> FALSE]
  /\ staging' = [staging EXCEPT ![proc[p].slot] = NoStaging]

\* A session that appeared meanwhile is answered, the staging directory left.
Publish(p) ==
  /\ At(p, "publish")
  /\ IF Exists
     THEN Leave(p, Matches(p)) /\ UNCHANGED <<session, staging>>
     ELSE IF p \notin aborted /\ Mine(p).there
     THEN Published(p) /\ Leave(p, TRUE)
     ELSE Goto(p, "undo") /\ UNCHANGED <<session, staging, lock>>
  /\ UNCHANGED <<trash, world>>

\* removeOwnedStagingPath in the catch block; its own errors are swallowed.
Undo(p) ==
  /\ At(p, "undo")
  /\ IF Mine(p).there
     THEN /\ staging' = [staging EXCEPT ![proc[p].slot] = NoStaging]
          /\ trash' = trash \cup {proc[p].slot}
          /\ Goto(p, "rmStaging") /\ UNCHANGED lock
     ELSE Leave(p, FALSE) /\ UNCHANGED <<staging, trash>>
  /\ UNCHANGED <<session, world>>

RemoveTrash(p) ==
  /\ proc[p].at \in {"rmStaging", "rmSession"}
  /\ trash' = trash \ {IF At(p, "rmStaging") THEN proc[p].slot ELSE proc[p].saw}
  /\ Leave(p, ~Creates(p))
  /\ UNCHANGED <<session, staging, world>>

(***************************************************************************)
(* touchRepositorySession and cleanupRepositorySession.  Both answer       *)
(* silently when there is no session.                                      *)
(***************************************************************************)
LookAgain(p) ==
  /\ At(p, "look") /\ proc[p].op \in {"touch", "clean"}
  /\ IF p \in aborted \/ (Exists /\ ~Readable(session)) THEN Fails(p)
     ELSE IF ~Exists THEN Leave(p, TRUE) /\ UNCHANGED <<disk, world>>
     ELSE /\ proc' = [proc EXCEPT ![p].saw = session.dir, ![p].req = session.meta,
                                  ![p].at = IF proc[p].op = "touch" THEN "touch" ELSE "remove"]
          /\ UNCHANGED <<disk, lock, world>>

\* The metadata is written beside the old and renamed; both fail when the
\* directory is not the one it was opened in.
Touch(p) ==
  /\ At(p, "touch")
  /\ IF session.dir = proc[p].saw
     THEN /\ session' = [session EXCEPT !.idle = FALSE, !.meta = proc[p].req]
          /\ Leave(p, TRUE)
     ELSE Leave(p, FALSE) /\ UNCHANGED session
  /\ UNCHANGED <<staging, trash, world>>

\* removeSessionDirectory: the directory is renamed, then removed.
RemoveSession(p) ==
  /\ At(p, "remove")
  /\ IF Exists
     THEN /\ proc' = [proc EXCEPT ![p].saw = session.dir, ![p].at = "rmSession"]
          /\ trash' = trash \cup {session.dir}
          /\ session' = NoSession
          /\ UNCHANGED lock
     ELSE Leave(p, FALSE) /\ UNCHANGED <<session, trash>>
  /\ UNCHANGED <<staging, world>>

(***************************************************************************)
(* pruneOrphans: sessions, then staging directories.                       *)
(***************************************************************************)
StartSweep ==
  /\ At(Sweeper, "idle")
  /\ proc' = [proc EXCEPT ![Sweeper] =
                [Idle EXCEPT !.op = IF Exists THEN "sweep" ELSE "sweepStaging", !.live = live,
                             !.at = IF Exists THEN "lock" ELSE "listStaging"]]
  /\ UNCHANGED <<disk, lock, world>>

\* The project is no longer live or the session is idle for more than a day.
Prunable == ~proc[Sweeper].live \/ session.idle

SweepSession ==
  /\ At(Sweeper, "look") /\ proc[Sweeper].op = "sweep"
  /\ IF Exists /\ Readable(session) /\ Prunable /\ Sweeper \notin aborted
     THEN /\ Goto(Sweeper, "remove")
          /\ UNCHANGED <<disk, lock, world>>
     ELSE Fails(Sweeper)

\* readdir of the staging directories; those found are gone through one by one.
ListStaging ==
  /\ At(Sweeper, "listStaging")
  /\ todo' = {s \in Slots : staging[s].there}
  /\ Goto(Sweeper, "nextStaging")
  /\ UNCHANGED <<disk, lock, world>>

EndSweep ==
  /\ At(Sweeper, "nextStaging") /\ todo = {}
  /\ proc' = [proc EXCEPT ![Sweeper] = Idle]
  /\ aborted' = aborted \ {Sweeper}
  /\ UNCHANGED <<disk, holder, todo, lost, world>>

\* (Whatever its age.)
Stale_AnyAge(dir) == dir.there /\ dir.clones = 0

\* (Only if empty.)
Stale_Empty(dir) == dir.there /\ dir.old /\ dir.marker = "absent"

Stale(dir) == dir.there /\ dir.old /\ dir.clones = 0

\* A directory with a marker is decided on under the lock of its session.  One
\* without is removed by its age, if empty or with no more than the temporary
\* file of a marker.
NextStaging(s) ==
  /\ At(Sweeper, "nextStaging") /\ s \in todo
  /\ todo' = todo \ {s}
  /\ LET dir == staging[s]
         next(where) == proc' = [proc EXCEPT ![Sweeper].slot = s, ![Sweeper].at = where] IN
       \/ /\ HasMarker(dir)
          /\ next("lock") /\ UNCHANGED staging
       \/ /\ Stale(dir) /\ dir.marker = "absent"
          /\ staging' = [staging EXCEPT ![s] = NoStaging] /\ UNCHANGED proc
       \/ /\ Stale(dir) /\ dir.marker = "temp"
          /\ next("removeStaging") /\ UNCHANGED staging
       \/ /\ ~Stale(dir) /\ dir.marker # "written"
          /\ UNCHANGED <<proc, staging>>
  /\ UNCHANGED <<session, trash, lock, world>>

RereadMarker ==
  /\ At(Sweeper, "reread")
  /\ LET dir == Mine(Sweeper) IN
       IF /\ HasMarker(dir) /\ Sweeper \notin aborted
          /\ ~proc[Sweeper].live \/ dir.old
       THEN Goto(Sweeper, "removeStaging") /\ UNCHANGED <<disk, lock, world>>
       ELSE Fails(Sweeper)

SweepStaging ==
  /\ At(Sweeper, "removeStaging")
  /\ IF Mine(Sweeper).there
     THEN /\ staging' = [staging EXCEPT ![proc[Sweeper].slot] = NoStaging]
          /\ trash' = trash \cup {proc[Sweeper].slot}
          /\ Goto(Sweeper, "rmStaging") /\ UNCHANGED lock
     ELSE Leave(Sweeper, FALSE) /\ UNCHANGED <<staging, trash>>
  /\ UNCHANGED <<session, world>>

(***************************************************************************)
(* Time, the registry and what goes wrong.                                 *)
(***************************************************************************)
SessionAges ==
  /\ Exists /\ ~session.idle
  /\ session' = [session EXCEPT !.idle = TRUE]
  /\ UNCHANGED <<staging, trash, lock, proc, world>>

\* Without a marker a directory is old only after its creator is gone: the marker
\* follows mkdtemp within moments.
StagingAges(s) ==
  /\ staging[s].there /\ ~staging[s].old
  /\ \/ staging[s].marker = "written"
     \/ \A p \in Callers : proc[p].slot # s
  /\ staging' = [staging EXCEPT ![s].old = TRUE]
  /\ UNCHANGED <<session, trash, lock, proc, world>>

ProjectRemoved ==
  /\ live /\ live' = FALSE
  /\ UNCHANGED <<disk, lock, proc, starts, accidents>>

\* Temporal cancels the attempt or its heartbeat was late: the lock stays.
Cancelled(p) ==
  /\ ~At(p, "idle") /\ p \notin aborted /\ Accident
  /\ aborted' = aborted \cup {p}
  /\ UNCHANGED <<disk, holder, proc, lost, live, starts>>

LockLost(p) ==
  /\ holder = p /\ Accident
  /\ holder' = None /\ aborted' = aborted \cup {p} /\ lost' = TRUE
  /\ UNCHANGED <<disk, proc, live, starts>>

\* The worker dies; the lock is released (SessionLocks).
Crash(p) ==
  /\ ~At(p, "idle") /\ Accident
  /\ proc' = [proc EXCEPT ![p] = Idle]
  /\ Unlock(p) /\ aborted' = aborted \ {p}
  /\ UNCHANGED <<disk, lost, live, starts>>

CallerStep(p) ==
  \/ LookForSession(p) \/ MakeStaging(p) \/ WriteMarkerTemp(p) \/ RenameMarker(p)
  \/ Clone(p) \/ WriteMetadata(p) \/ Publish(p) \/ Undo(p) \/ LookAgain(p) \/ Touch(p)
  \/ RemoveSession(p) \/ RemoveTrash(p) \/ GivesUp(p)

SweeperStep ==
  \/ /\ StartSweep \/ SweepSession \/ RereadMarker \/ SweepStaging
        \/ Acquire(Sweeper) \/ GivesUp(Sweeper) \/ RemoveSession(Sweeper) \/ RemoveTrash(Sweeper)
     /\ UNCHANGED todo
  \/ ListStaging \/ EndSweep \/ \E s \in Slots : NextStaging(s)

Ages == SessionAges \/ \E s \in Slots : StagingAges(s)

Next ==
  \/ SweeperStep
  \/ /\ \/ \E p \in Procs : LockTimesOut(p) \/ Cancelled(p) \/ LockLost(p) \/ Crash(p)
        \/ \E p \in Callers :
             \/ Acquire(p) \/ CallerStep(p) \/ CloneFails(p)
             \/ CreateRepositorySession(p) \/ CleanupRepositorySession(p)
             \/ TouchByRunAgent(p)
        \/ Ages \/ ProjectRemoved
     /\ UNCHANGED todo

Spec == Init /\ [][Next]_vars

\* An attempt that has the lock runs on, time passes, and the sweep comes again
\* and again (every fifteen minutes).  Nobody is assumed to get the lock in turn.
FairSpec ==
  /\ Spec
  /\ WF_vars(SweeperStep) /\ WF_vars(Ages /\ UNCHANGED todo)
  /\ \A p \in Callers : WF_vars(CallerStep(p) /\ UNCHANGED todo)

(***************************************************************************)
(* Properties.                                                             *)
(***************************************************************************)
TypeOK ==
  /\ session \in [dir : Slots \cup {None}, req : Requests \cup {None}, clones : 0..NRepos,
                  meta : Requests \cup {None}, idle : BOOLEAN]
  /\ staging \in [Slots -> [there : BOOLEAN, marker : {"absent", "temp", "written"},
                            req : Requests \cup {None}, clones : 0..NRepos,
                            meta : Requests \cup {None}, old : BOOLEAN]]
  /\ trash \subseteq Slots
  /\ holder \in Procs \cup {None}
  /\ holder # None => proc[holder].at \notin {"idle", "lock"}
  /\ aborted \subseteq Procs /\ lost \in BOOLEAN
  /\ live \in BOOLEAN /\ starts \in 0..MaxStarts /\ accidents \in 0..MaxAccidents

\* The session at its path is always whole: every repository of the request its
\* metadata names, whatever crashed, was cancelled, lost its lock or was pruned
\* on the way (workspace-manager.ts:318-387).
SessionIsWhole == Exists => session.clones = NRepos /\ session.meta = session.req

\* The sweep removes a session only if it is idle at that moment or its project
\* is gone, and a staging directory never from under a creator that holds the
\* lock.  True until a touch or a sweep has lost its lock after its last look.
SweepSparesTheLiving ==
  [][~lost =>
       /\ At(Sweeper, "remove") /\ proc'[Sweeper].at = "rmSession" =>
            session.idle \/ ~proc[Sweeper].live
       /\ \A p \in Callers, s \in Slots :
            holder = p /\ proc[p].slot = s /\ ~At(p, "undo") /\ staging[s].there =>
              staging'[s].there \/ session'.dir = s]_vars

\* What a crash leaves in a staging directory, and a session nobody touches, goes.
Abandoned(s) == staging[s].there /\ \A p \in Callers : proc[p].slot # s
LeftoversGo ==
  /\ \A s \in Slots : Abandoned(s) ~> ~staging[s].there
  /\ []<>(~Exists \/ ~session.idle)
================================================================================
