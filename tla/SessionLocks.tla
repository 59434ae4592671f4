----------------------------- MODULE SessionLocks -----------------------------
(* The two coordinators of repository session locks, for the calls of withLock *)
(* with one key.  LocalRepositorySessionCoordinator chains promises inside a   *)
(* worker process; FlockRepositorySessionCoordinator, used in the cluster,     *)
(* starts a flock process whose helper prints a sentinel once it has the       *)
(* kernel's lock and exits when its stdin is closed.                           *)
EXTENDS Naturals

CONSTANTS
  Calls,            \* calls of withLock, each made at most once
  None,             \* no call
  Workers,          \* worker processes
  WorkerOf,         \* the process a call is made in
  AccidentalDeaths, \* how a flock process may die by itself: "code", "signal"
  MaxAccidents      \* bound: such deaths, and crashes of workers

ASSUME SessionLocksAssumption ==
  /\ None \notin Calls
  /\ WorkerOf \in [Calls -> Workers]
  /\ AccidentalDeaths \subseteq {"code", "signal"}
  /\ MaxAccidents \in Nat

VARIABLES
  kind,             \* the coordinator in use
  pc,               \* where a call is
  before, gate,     \* local: the call whose tail it waits for; gates opened
  settled, tails,   \* local: tails settled; the tail kept for the key
  helper,           \* flock: the process of the call and its helper
  spoken, exited,   \* flock: sentinels in a pipe; exit events delivered
  code,             \* flock: how the process ended
  told,             \* flock: operations whose signal was aborted by lock loss
  accidents

local == <<before, gate, settled, tails>>
flock == <<helper, spoken, exited, code, told>>
vars == <<kind, pc, local, flock, accidents>>

Over == {"ended", "failed", "gone"}
Goto(c, where) == pc' = [pc EXCEPT ![c] = where]
Accident == accidents < MaxAccidents /\ accidents' = accidents + 1

Init ==
  /\ kind \in {"local", "flock"}
  /\ pc = [c \in Calls |-> "new"]
  /\ before = [c \in Calls |-> None] /\ gate = {} /\ settled = {} /\ tails = None
  /\ helper = [c \in Calls |-> "none"]
  /\ spoken = {} /\ exited = {} /\ told = {}
  /\ code = [c \in Calls |-> "none"]
  /\ accidents = 0

(***************************************************************************)
(* The local coordinator.                                                  *)
(***************************************************************************)
Chain(c) ==
  /\ kind = "local" /\ pc[c] = "new"
  /\ before' = [before EXCEPT ![c] = tails]
  /\ tails' = c
  /\ Goto(c, "waiting")
  /\ UNCHANGED <<kind, gate, settled, flock, accidents>>

\* (The map forgets the key with every tail that settles; with none.)
Forget_Any(c) == tails' = None

Forget(c) == tails' = IF tails = c THEN None ELSE tails

\* previous.catch().then(() => gate): a tail waits for the one before it and
\* for its own gate, in whichever order they come.
TailSettles(c) ==
  /\ kind = "local" /\ c \in gate \ settled
  /\ before[c] = None \/ before[c] \in settled
  /\ settled' = settled \cup {c}
  /\ Forget(c)
  /\ UNCHANGED <<kind, pc, before, gate, flock, accidents>>

WaitIsOver(c) ==
  /\ kind = "local" /\ pc[c] = "waiting"
  /\ before[c] = None \/ before[c] \in settled
  /\ Goto(c, "operating")
  /\ UNCHANGED <<kind, local, flock, accidents>>

OpenGate(c) == gate' = gate \cup {c}

\* The wait times out, or is or was aborted.
GiveUp(c) ==
  /\ kind = "local" /\ pc[c] = "waiting"
  /\ Goto(c, "failed") /\ OpenGate(c)
  /\ UNCHANGED <<kind, before, settled, tails, flock, accidents>>

LocalOperationEnds(c) ==
  /\ kind = "local" /\ pc[c] = "operating"
  /\ \E result \in {"ended", "failed"} : Goto(c, result)
  /\ OpenGate(c)
  /\ UNCHANGED <<kind, before, settled, tails, flock, accidents>>

(***************************************************************************)
(* The flock coordinator.                                                  *)
(***************************************************************************)
Holds(c) == helper[c] \in {"locked", "talking"}

\* ensureStableLockFile refuses what is no regular file in a real directory,
\* and a signal already aborted starts no process.
Spawn(c) ==
  /\ kind = "flock" /\ pc[c] = "new"
  /\ \/ Goto(c, "acquiring") /\ helper' = [helper EXCEPT ![c] = "queued"]
     \/ Goto(c, "failed") /\ UNCHANGED helper
  /\ UNCHANGED <<kind, local, spoken, exited, code, told, accidents>>

\* The kernel grants the lock; flock starts the helper.
KernelGrants(c) ==
  /\ helper[c] = "queued" /\ \A d \in Calls : ~Holds(d)
  /\ helper' = [helper EXCEPT ![c] = "locked"]
  /\ UNCHANGED <<kind, pc, local, spoken, exited, code, told, accidents>>

HelperSpeaks(c) ==
  /\ helper[c] = "locked"
  /\ helper' = [helper EXCEPT ![c] = "talking"]
  /\ spoken' = spoken \cup {c}
  /\ UNCHANGED <<kind, pc, local, exited, code, told, accidents>>

\* The sentinel may be read after the process that wrote it has died.
Acquired(c) ==
  /\ pc[c] = "acquiring" /\ c \in spoken
  /\ spoken' = spoken \ {c}
  /\ Goto(c, "operating")
  /\ UNCHANGED <<kind, local, helper, exited, code, told, accidents>>

\* (The process is left alone.)
fail_WithoutKill(c) == Goto(c, "failed") /\ UNCHANGED code

\* fail(): the process is killed; it dies when the signal reaches it.
fail(c) == Goto(c, "failed") /\ code' = [code EXCEPT ![c] = "killed"]

\* An abort, an answer that is no sentinel, or an executable that cannot start.
AcquisitionFails(c) ==
  /\ pc[c] = "acquiring" /\ c \notin exited
  /\ fail(c)
  /\ UNCHANGED <<kind, local, helper, spoken, exited, told, accidents>>

Dies(c, how) ==
  /\ helper' = [helper EXCEPT ![c] = "dead"]
  /\ code' = [code EXCEPT ![c] = how]

StdinIsClosed(c) == pc[c] \in {"releasing", "rejecting", "gone"}

\* The process ends because its call wants it to.  A process that still waits
\* for the kernel's lock does not read its stdin.
HelperExits(c) ==
  /\ \/ Holds(c) /\ StdinIsClosed(c)
     \/ helper[c] # "dead" /\ code[c] = "killed"
  /\ Dies(c, IF code[c] = "killed" THEN "signal" ELSE "code")
  /\ UNCHANGED <<kind, pc, local, spoken, exited, told, accidents>>

\* flock --timeout: exit code 1 without the lock.
FlockTimesOut(c) ==
  /\ helper[c] = "queued"
  /\ Dies(c, "code")
  /\ UNCHANGED <<kind, pc, local, spoken, exited, told, accidents>>

HelperIsLost(c, how) ==
  /\ helper[c] \in {"queued", "locked", "talking"} /\ code[c] = "none" /\ Accident
  /\ Dies(c, how)
  /\ UNCHANGED <<kind, pc, local, spoken, exited, told>>

\* What the operation comes to when it ends now.
Result(c) == IF c \in told THEN {"rejecting"} ELSE {"releasing", "rejecting"}

Answer(release) == IF release = "releasing" THEN "ended" ELSE "failed"

\* child.exitCode !== null: it stays null when a signal ended the process.
ProcessHasExited(c) == c \in exited /\ code[c] = "code"

OperationEnds(c) ==
  /\ kind = "flock" /\ pc[c] = "operating"
  /\ \E result \in Result(c) :
       Goto(c, IF ProcessHasExited(c) THEN Answer(result) ELSE result)
  /\ UNCHANGED <<kind, local, flock, accidents>>

\* The exit event: an acquisition fails, an operation is told, a release is over.
ExitIsSeen(c) ==
  /\ helper[c] = "dead" /\ c \notin exited /\ pc[c] # "gone"
  /\ exited' = exited \cup {c}
  /\ told' = IF pc[c] = "operating" THEN told \cup {c} ELSE told
  /\ CASE pc[c] = "acquiring" -> Goto(c, "failed")
       [] pc[c] \in {"releasing", "rejecting"} -> Goto(c, Answer(pc[c]))
       [] OTHER -> UNCHANGED pc
  /\ UNCHANGED <<kind, local, helper, spoken, code, accidents>>

\* A worker process dies: the pipes to its helpers close.
WorkerDies(w) ==
  /\ kind = "flock" /\ Accident
  /\ \E c \in Calls : WorkerOf[c] = w /\ pc[c] \notin Over \cup {"new"}
  /\ pc' = [c \in Calls |-> IF WorkerOf[c] = w /\ pc[c] \notin Over \cup {"new"} THEN "gone" ELSE pc[c]]
  /\ UNCHANGED <<kind, local, flock>>

LocalStep(c) == TailSettles(c) \/ WaitIsOver(c) \/ LocalOperationEnds(c)
FlockStep(c) ==
  \/ KernelGrants(c) \/ HelperSpeaks(c) \/ Acquired(c)
  \/ HelperExits(c) \/ OperationEnds(c) \/ ExitIsSeen(c)

Next ==
  \/ \E c \in Calls :
       \/ Chain(c) \/ GiveUp(c) \/ LocalStep(c)
       \/ Spawn(c) \/ AcquisitionFails(c) \/ FlockTimesOut(c) \/ FlockStep(c)
       \/ \E how \in AccidentalDeaths : HelperIsLost(c, how)
  \/ \E w \in Workers : WorkerDies(w)

Spec == Init /\ [][Next]_vars

\* Promises settle, processes run, operations end.  No wait is assumed to time
\* out: a call gets its turn because the calls before it end.
FairSpec == Spec /\ \A c \in Calls : WF_vars(LocalStep(c)) /\ WF_vars(FlockStep(c))

(***************************************************************************)
(* Properties.                                                             *)
(***************************************************************************)
\* The key is forgotten with its last tail.
TypeOK ==
  /\ kind \in {"local", "flock"}
  /\ pc \in [Calls -> {"new", "waiting", "acquiring", "operating", "releasing", "rejecting"}
                      \cup Over]
  /\ before \in [Calls -> Calls \cup {None}] /\ tails \in (Calls \ settled) \cup {None}
  /\ gate \subseteq Calls /\ settled \subseteq Calls
  /\ helper \in [Calls -> {"none", "queued", "locked", "talking", "dead"}]
  /\ spoken \subseteq Calls /\ exited \subseteq Calls /\ told \subseteq Calls
  /\ code \in [Calls -> {"none", "killed", "code", "signal"}]
  /\ accidents \in 0..MaxAccidents

\* The stage of a call in the promise of Exclusion.  An operation under flock
\* holds the lock as long as the process lives that was granted it.
StageOf(c) ==
  CASE pc[c] = "new" -> "new"
    [] pc[c] \in {"waiting", "acquiring"} -> "waiting"
    [] pc[c] = "operating" -> IF kind = "local" \/ Holds(c) THEN "holding"
                              ELSE IF c \in told THEN "told" ELSE "lost"
    [] pc[c] \in {"releasing", "ended"} -> "ended"
    [] OTHER -> "failed"

Stage == [c \in Calls |-> StageOf(c)]

Promise == INSTANCE Exclusion WITH stage <- Stage

\* Both coordinators keep the promise of withLock: whichever waiters time out,
\* abort or die with their worker, and wherever the helper dies, operations
\* exclude each other while their lock is kept, and an operation that was told
\* of the loss of its lock does not count as done.
KeepsPromise == Promise!Spec

\* The one release that waits for ever: the operation was told of the exit of
\* its helper, and a helper that a signal ended leaves exitCode null, so that the
\* release waits for the exit event that has already been delivered.
WaitsForAnExitPast(c) == pc[c] = "rejecting" /\ c \in told /\ code[c] = "signal"

\* Every call ends or comes to that wait, which only a signal that ended its
\* helper under its operation brings about: a waiter that gave up does not block
\* the ones behind it (repository-session-coordinator.ts:50-64), nor does a call
\* that waits for ever; a dead worker's process gives the lock back; and a
\* release sees an exit with a code that has already been (:138-143).
CallsEnd == \A c \in Calls : pc[c] # "new" ~> pc[c] \in Over \/ WaitsForAnExitPast(c)

================================================================================
