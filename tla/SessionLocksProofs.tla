-------------------------- MODULE SessionLocksProofs --------------------------
(* Both coordinators implement the promise of Exclusion, for any calls, workers *)
(* and accidents.  The invariant has two parts that do not meet: the kernel     *)
(* keeps the operations of the flock coordinator apart, a queue those of the    *)
(* local one.                                                                   *)
EXTENDS SessionLocks, Sequences, TLAPS

-----------------------------------------------------------------------------
(* The flock coordinator.                                                  *)

\* A call whose process was killed has failed; a call that was told has seen the
\* exit of its process; one that operates has read what its helper said.
ProcessOK(c) ==
  /\ code[c] = "killed" => pc[c] = "failed"
  /\ c \in spoken => helper[c] \in {"talking", "dead"}
  /\ c \in exited => helper[c] = "dead"
  /\ c \in told => c \in exited /\ pc[c] \notin {"new", "waiting", "acquiring"}
  /\ pc[c] = "new" => helper[c] = "none"
  /\ kind = "flock" /\ pc[c] = "operating" => helper[c] \in {"talking", "dead"}

\* Of two coordinators only the one in use leaves traces.
KindOK(c) ==
  /\ kind = "local" => /\ pc[c] \in {"new", "waiting", "operating", "ended", "failed"}
                       /\ helper[c] = "none" /\ code[c] = "none"
  /\ kind = "flock" => pc[c] # "waiting"

OneHolds == \A c, d \in Calls : Holds(c) /\ Holds(d) => c = d

-----------------------------------------------------------------------------
(* The local coordinator.                                                  *)
Unsettled == {c \in Calls : pc[c] # "new"} \ settled
AtFront(c) == before[c] = None \/ before[c] \in settled

\* The calls whose tails are unsettled stand in a queue: each waits for the one
\* before it, the first for nobody, and the key is kept for the last.
Queue(q) ==
  /\ \A c \in Calls : c \in Unsettled <=> \E i \in 1..Len(q) : q[i] = c
  /\ \A i, j \in 1..Len(q) : q[i] = q[j] => i = j
  /\ \A i \in 1..Len(q) : IF i = 1 THEN AtFront(q[i]) ELSE before[q[i]] = q[i - 1]
  /\ tails = IF Len(q) = 0 THEN None ELSE q[Len(q)]

QueueOK == kind = "local" => \E q \in Seq(Calls) : Queue(q)

\* Who operates has its turn; a gate is opened by leaving.
TurnOK(c) ==
  /\ c \in settled => c \in gate
  /\ c \in gate => pc[c] \in Over
  /\ kind = "local" /\ pc[c] = "operating" => AtFront(c)

Inv ==
  /\ TypeOK
  /\ \A c \in Calls : ProcessOK(c) /\ KindOK(c) /\ TurnOK(c)
  /\ OneHolds /\ QueueOK

USE SessionLocksAssumption

\* No call has begun, no tail is kept and no lock is held.
LEMMA InitInv == Init => Inv
<1> SUFFICES ASSUME Init PROVE Inv
  OBVIOUS
<1>1. TypeOK
  BY DEF Init, TypeOK, Over
<1>2. \A c \in Calls : ProcessOK(c) /\ KindOK(c) /\ TurnOK(c)
  BY DEF Init, ProcessOK, KindOK, TurnOK
<1>3. OneHolds
  BY DEF Init, OneHolds, Holds
<1>4. QueueOK
  <2>1. Queue(<<>>)
    BY DEF Init, Queue, Unsettled
  <2>2. <<>> \in Seq(Calls)
    OBVIOUS
  <2>3. QED BY <2>1, <2>2 DEF QueueOK
<1>5. QED BY <1>1, <1>2, <1>3, <1>4 DEF Inv

-----------------------------------------------------------------------------
(* Steps of the flock coordinator.  The queue of the other is not there.   *)

\* A new helper has said nothing and holds nothing.
LEMMA SpawnKeeps ==
  ASSUME Inv, NEW c \in Calls, Spawn(c)
  PROVE  Inv'
<1> USE DEF Spawn, Goto, Inv
<1>1. kind = "flock" /\ kind' = "flock"
  BY DEF KindOK, TypeOK, ProcessOK, Holds
<1>2. TypeOK'
  BY <1>1 DEF TypeOK, Over, local
<1>3. ASSUME NEW d \in Calls PROVE ProcessOK(d)' /\ KindOK(d)' /\ TurnOK(d)'
  BY <1>1 DEF TypeOK, ProcessOK, KindOK, TurnOK, Holds, Over, local
<1>4. OneHolds'
  BY <1>1 DEF TypeOK, OneHolds, ProcessOK, Holds
<1>5. QED BY <1>1, <1>2, <1>3, <1>4 DEF QueueOK

\* The kernel gives the lock only where no living helper holds it: OneHolds.
LEMMA KernelGrantsKeeps ==
  ASSUME Inv, NEW c \in Calls, KernelGrants(c)
  PROVE  Inv'
<1> USE DEF KernelGrants, Goto, Inv
<1>1. kind = "flock" /\ kind' = "flock"
  BY DEF KindOK, TypeOK, ProcessOK, Holds
<1>2. TypeOK'
  BY <1>1 DEF TypeOK, Over, local
<1>3. ASSUME NEW d \in Calls PROVE ProcessOK(d)' /\ KindOK(d)' /\ TurnOK(d)'
  BY <1>1 DEF TypeOK, ProcessOK, KindOK, TurnOK, Holds, Over, local
<1>4. OneHolds'
  BY <1>1 DEF TypeOK, OneHolds, ProcessOK, Holds
<1>5. QED BY <1>1, <1>2, <1>3, <1>4 DEF QueueOK

\* Only what its helper said lets a call operate.
LEMMA HelperSpeaksKeeps ==
  ASSUME Inv, NEW c \in Calls, HelperSpeaks(c)
  PROVE  Inv'
<1> USE DEF HelperSpeaks, Goto, Inv
<1>1. kind = "flock" /\ kind' = "flock"
  BY DEF KindOK, TypeOK, ProcessOK, Holds
<1>2. TypeOK'
  BY <1>1 DEF TypeOK, Over, local
<1>3. ASSUME NEW d \in Calls PROVE ProcessOK(d)' /\ KindOK(d)' /\ TurnOK(d)'
  BY <1>1 DEF TypeOK, ProcessOK, KindOK, TurnOK, Holds, Over, local
<1>4. OneHolds'
  BY <1>1 DEF TypeOK, OneHolds, ProcessOK, Holds
<1>5. QED BY <1>1, <1>2, <1>3, <1>4 DEF QueueOK

\* Who begins to operate has read what its helper said.
LEMMA AcquiredKeeps ==
  ASSUME Inv, NEW c \in Calls, Acquired(c)
  PROVE  Inv'
<1> USE DEF Acquired, Goto, Inv
<1>1. kind = "flock" /\ kind' = "flock"
  BY DEF KindOK, TypeOK, ProcessOK, Holds
<1>2. TypeOK'
  BY <1>1 DEF TypeOK, Over, local
<1>3. ASSUME NEW d \in Calls PROVE ProcessOK(d)' /\ KindOK(d)' /\ TurnOK(d)'
  BY <1>1 DEF TypeOK, ProcessOK, KindOK, TurnOK, Holds, Over, local
<1>4. OneHolds'
  BY <1>1 DEF TypeOK, OneHolds, ProcessOK, Holds
<1>5. QED BY <1>1, <1>2, <1>3, <1>4 DEF QueueOK

\* A call that gives up acquiring fails without having operated.
LEMMA AcquisitionFailsKeeps ==
  ASSUME Inv, NEW c \in Calls, AcquisitionFails(c)
  PROVE  Inv'
<1> USE DEF AcquisitionFails, Goto, fail, Inv
<1>1. kind = "flock" /\ kind' = "flock"
  BY DEF KindOK, TypeOK, ProcessOK, Holds
<1>2. TypeOK'
  BY <1>1 DEF TypeOK, Over, local
<1>3. ASSUME NEW d \in Calls PROVE ProcessOK(d)' /\ KindOK(d)' /\ TurnOK(d)'
  BY <1>1 DEF TypeOK, ProcessOK, KindOK, TurnOK, Holds, Over, local
<1>4. OneHolds'
  BY <1>1 DEF TypeOK, OneHolds, ProcessOK, Holds
<1>5. QED BY <1>1, <1>2, <1>3, <1>4 DEF QueueOK

\* A dead helper gives the lock up; nobody gains one.
LEMMA HelperExitsKeeps ==
  ASSUME Inv, NEW c \in Calls, HelperExits(c)
  PROVE  Inv'
<1> USE DEF HelperExits, Goto, Dies, StdinIsClosed, Inv
<1>1. kind = "flock" /\ kind' = "flock"
  BY DEF KindOK, TypeOK, ProcessOK, Holds
<1>2. TypeOK'
  BY <1>1 DEF TypeOK, Over, local
<1>3. ASSUME NEW d \in Calls PROVE ProcessOK(d)' /\ KindOK(d)' /\ TurnOK(d)'
  BY <1>1 DEF TypeOK, ProcessOK, KindOK, TurnOK, Holds, Over, local
<1>4. OneHolds'
  BY <1>1 DEF TypeOK, OneHolds, ProcessOK, Holds
<1>5. QED BY <1>1, <1>2, <1>3, <1>4 DEF QueueOK

\* flock -w that runs out ends its helper before it held anything.
LEMMA FlockTimesOutKeeps ==
  ASSUME Inv, NEW c \in Calls, FlockTimesOut(c)
  PROVE  Inv'
<1> USE DEF FlockTimesOut, Goto, Dies, Inv
<1>1. kind = "flock" /\ kind' = "flock"
  BY DEF KindOK, TypeOK, ProcessOK, Holds
<1>2. TypeOK'
  BY <1>1 DEF TypeOK, Over, local
<1>3. ASSUME NEW d \in Calls PROVE ProcessOK(d)' /\ KindOK(d)' /\ TurnOK(d)'
  BY <1>1 DEF TypeOK, ProcessOK, KindOK, TurnOK, Holds, Over, local
<1>4. OneHolds'
  BY <1>1 DEF TypeOK, OneHolds, ProcessOK, Holds
<1>5. QED BY <1>1, <1>2, <1>3, <1>4 DEF QueueOK

\* A helper that dies takes the lock from its call, and from no other.
LEMMA HelperIsLostKeeps ==
  ASSUME Inv, NEW c \in Calls, NEW how \in AccidentalDeaths, HelperIsLost(c, how)
  PROVE  Inv'
<1> USE DEF HelperIsLost, Goto, Dies, Accident, Inv
<1>1. kind = "flock" /\ kind' = "flock"
  BY DEF KindOK, TypeOK, ProcessOK, Holds
<1>2. TypeOK'
  BY <1>1 DEF TypeOK, Over, local
<1>3. ASSUME NEW d \in Calls PROVE ProcessOK(d)' /\ KindOK(d)' /\ TurnOK(d)'
  BY <1>1 DEF TypeOK, ProcessOK, KindOK, TurnOK, Holds, Over, local
<1>4. OneHolds'
  BY <1>1 DEF TypeOK, OneHolds, ProcessOK, Holds
<1>5. QED BY <1>1, <1>2, <1>3, <1>4 DEF QueueOK

\* The end of an operation leaves the lock to be released.
LEMMA OperationEndsKeeps ==
  ASSUME Inv, NEW c \in Calls, OperationEnds(c)
  PROVE  Inv'
<1> USE DEF OperationEnds, Goto, Result, Answer, ProcessHasExited, flock, Inv
<1>1. kind = "flock" /\ kind' = "flock"
  BY DEF KindOK, TypeOK, ProcessOK, Holds
<1>2. TypeOK'
  BY <1>1 DEF TypeOK, Over, local
<1>3. ASSUME NEW d \in Calls PROVE ProcessOK(d)' /\ KindOK(d)' /\ TurnOK(d)'
  BY <1>1 DEF TypeOK, ProcessOK, KindOK, TurnOK, Holds, Over, local
<1>4. OneHolds'
  BY <1>1 DEF TypeOK, OneHolds, ProcessOK, Holds
<1>5. QED BY <1>1, <1>2, <1>3, <1>4 DEF QueueOK

\* The exit of a helper is seen once, and told to an operation.
LEMMA ExitIsSeenKeeps ==
  ASSUME Inv, NEW c \in Calls, ExitIsSeen(c)
  PROVE  Inv'
<1> USE DEF ExitIsSeen, Goto, Answer, Inv
<1>1. kind = "flock" /\ kind' = "flock"
  BY DEF KindOK, TypeOK, ProcessOK, Holds
<1>2. \/ pc[c] \in {"acquiring", "rejecting"} /\ pc' = [pc EXCEPT ![c] = "failed"] /\ told' = told
      \/ pc[c] = "releasing" /\ pc' = [pc EXCEPT ![c] = "ended"] /\ told' = told
      \/ pc[c] = "operating" /\ pc' = pc /\ told' = told \cup {c}
      \/ pc[c] \notin {"acquiring", "rejecting", "releasing", "operating"} /\ pc' = pc /\ told' = told
  OBVIOUS
<1>3. TypeOK'
  BY <1>1, <1>2 DEF TypeOK, Over, local
<1>4. ASSUME NEW d \in Calls PROVE ProcessOK(d)' /\ KindOK(d)' /\ TurnOK(d)'
  BY <1>1, <1>2 DEF TypeOK, ProcessOK, KindOK, TurnOK, Over, local
<1>5. OneHolds'
  BY DEF OneHolds, Holds
<1>6. QED BY <1>1, <1>3, <1>4, <1>5 DEF QueueOK

\* The calls of a worker fail together; the locks of their helpers fall.
LEMMA WorkerDiesKeeps ==
  ASSUME Inv, NEW w \in Workers, WorkerDies(w)
  PROVE  Inv'
<1> USE DEF WorkerDies, Accident, Inv
<1>1. TypeOK'
  BY DEF TypeOK, Over, local, flock
<1>2. ASSUME NEW d \in Calls PROVE ProcessOK(d)' /\ KindOK(d)' /\ TurnOK(d)'
  BY DEF TypeOK, ProcessOK, KindOK, TurnOK, Over, local, flock
<1>3. OneHolds'
  BY DEF OneHolds, Holds, flock
<1>4. QED BY <1>1, <1>2, <1>3 DEF QueueOK

-----------------------------------------------------------------------------
(* Steps of the local coordinator.                                         *)

\* The queue is the same where no tail comes, settles or is replaced.
LEMMA QueueStays ==
  ASSUME QueueOK, UNCHANGED <<kind, before, settled, tails>>, Unsettled' = Unsettled
  PROVE  QueueOK'
BY DEF QueueOK, Queue, AtFront

\* Nobody has its turn but the first of the queue.
LEMMA OneAtFront ==
  ASSUME Inv, kind = "local",
         NEW c \in Unsettled, AtFront(c), NEW d \in Unsettled, AtFront(d)
  PROVE  c = d
<1>1. PICK q \in Seq(Calls) : Queue(q)
  BY DEF Inv, QueueOK
<1>2. ASSUME NEW e \in Unsettled, AtFront(e) PROVE e = q[1]
  <2>1. PICK i \in 1..Len(q) : q[i] = e
    BY <1>1, <1>2 DEF Queue, Unsettled
  <2>2. CASE i # 1
    <3>1. i - 1 \in 1..Len(q) /\ before[e] = q[i - 1]
      BY <1>1, <2>1, <2>2 DEF Queue
    <3>2. q[i - 1] \in Unsettled
      BY <1>1, <3>1 DEF Queue
    <3>3. QED BY <1>2, <3>1, <3>2 DEF Unsettled, AtFront
  <2>3. QED BY <2>1, <2>2
<1>3. QED BY <1>2

\* A new call joins the end of the queue, behind the tail it found.
LEMMA ChainKeeps ==
  ASSUME Inv, NEW c \in Calls, Chain(c)
  PROVE  Inv'
<1> USE DEF Chain, Goto, Inv
<1>1. c \notin gate /\ c \notin settled
  BY DEF TurnOK, Over
<1>2. TypeOK'
  BY <1>1 DEF TypeOK, Over, flock
<1>3. ASSUME NEW d \in Calls PROVE ProcessOK(d)' /\ KindOK(d)' /\ TurnOK(d)'
  BY DEF TypeOK, ProcessOK, KindOK, TurnOK, AtFront, Over, flock
<1>4. OneHolds'
  BY DEF OneHolds, Holds, flock
<1>5. QueueOK'
  <2>1. PICK q \in Seq(Calls) : Queue(q)
    BY DEF QueueOK
  <2> DEFINE r == Append(q, c)
  <2>2. /\ r \in Seq(Calls) /\ Len(r) = Len(q) + 1 /\ r[Len(q) + 1] = c
        /\ \A i \in 1..Len(q) : r[i] = q[i]
    OBVIOUS
  <2>3. \A i \in 1..Len(q) : q[i] # c
    BY <2>1 DEF Queue, Unsettled
  <2>4. Unsettled' = Unsettled \cup {c}
    BY <1>1 DEF Unsettled, TypeOK
  <2>5. \A d \in Calls : d \in Unsettled' <=> \E i \in 1..Len(r) : r[i] = d
    <3>1. \A d \in Calls : d \in Unsettled <=> \E i \in 1..Len(q) : q[i] = d
      BY <2>1 DEF Queue
    <3>2. QED BY <2>2, <2>4, <3>1
  <2>6. \A i, j \in 1..Len(r) : r[i] = r[j] => i = j
    BY <2>1, <2>2, <2>3 DEF Queue
  <2>7. ASSUME NEW i \in 1..Len(r)
        PROVE  IF i = 1 THEN AtFront(r[i])' ELSE before'[r[i]] = r[i - 1]
    <3>1. CASE i \in 1..Len(q)
      <4>1. before'[r[i]] = before[q[i]] /\ r[i] = q[i] /\ q[i] \in Calls
        BY <2>2, <2>3, <3>1 DEF TypeOK
      <4>2. i # 1 => r[i - 1] = q[i - 1]
        BY <2>2, <3>1
      <4>3. QED BY <2>1, <3>1, <4>1, <4>2 DEF Queue, AtFront
    <3>2. CASE i = Len(q) + 1
      BY <2>1, <2>2, <3>2 DEF Queue, AtFront, TypeOK
    <3>3. QED BY <2>2, <3>1, <3>2
  <2>8. tails' = r[Len(r)] /\ Len(r) # 0
    BY <2>2
  <2>9. Queue(r)'
    BY <2>5, <2>6, <2>7, <2>8 DEF Queue
  <2>10. QED BY <2>2, <2>9 DEF QueueOK
<1>6. QED BY <1>2, <1>3, <1>4, <1>5

\* The first of the queue leaves it, and the second has nobody before it.
LEMMA TailSettlesKeeps ==
  ASSUME Inv, NEW c \in Calls, TailSettles(c)
  PROVE  Inv'
<1> USE DEF TailSettles, Forget, Inv
<1>1. TypeOK'
  BY DEF TypeOK, Over, flock
<1>2. ASSUME NEW d \in Calls PROVE ProcessOK(d)' /\ KindOK(d)' /\ TurnOK(d)'
  BY DEF TypeOK, ProcessOK, KindOK, TurnOK, AtFront, Over, flock
<1>3. OneHolds'
  BY DEF OneHolds, Holds, flock
<1>4. QueueOK'
  <2>1. PICK q \in Seq(Calls) : Queue(q)
    BY DEF QueueOK
  <2>2. c \in Unsettled /\ AtFront(c)
    BY DEF TurnOK, Over, Unsettled, AtFront
  <2>3. Len(q) # 0 /\ q[1] = c
    <3>1. PICK i \in 1..Len(q) : q[i] = c
      BY <2>1, <2>2 DEF Queue
    <3>2. 1 \in 1..Len(q)
      BY <3>1
    <3>3. q[1] \in Unsettled /\ AtFront(q[1])
      BY <2>1, <3>2 DEF Queue
    <3>4. QED BY <2>2, <3>2, <3>3, OneAtFront
  <2> DEFINE r == Tail(q)
  <2>4. /\ r \in Seq(Calls) /\ Len(r) = Len(q) - 1
        /\ \A i \in 1..Len(r) : r[i] = q[i + 1]
    BY <2>3
  <2>5. \A i \in 2..Len(q) : q[i] # c
    BY <2>1, <2>3 DEF Queue
  <2>6. \A d \in Calls : d \in Unsettled' <=> \E i \in 1..Len(r) : r[i] = d
    <3>1. Unsettled' = Unsettled \ {c}
      BY DEF Unsettled
    <3>2. \A d \in Calls : d \in Unsettled <=> \E i \in 1..Len(q) : q[i] = d
      BY <2>1 DEF Queue
    <3>3. \A d \in Calls : (\E i \in 1..Len(r) : r[i] = d) <=> \E i \in 2..Len(q) : q[i] = d
      <4>1. ASSUME NEW d \in Calls, NEW i \in 1..Len(r), r[i] = d
            PROVE  \E j \in 2..Len(q) : q[j] = d
        BY <2>4, <4>1, i + 1 \in 2..Len(q)
      <4>2. ASSUME NEW d \in Calls, NEW j \in 2..Len(q), q[j] = d
            PROVE  \E i \in 1..Len(r) : r[i] = d
        <5>1. j - 1 \in 1..Len(r) /\ (j - 1) + 1 = j
          BY <2>4
        <5>2. QED BY <2>4, <4>2, <5>1
      <4>3. QED BY <4>1, <4>2
    <3>4. QED BY <2>3, <2>5, <3>1, <3>2, <3>3
  <2>7. \A i, j \in 1..Len(r) : r[i] = r[j] => i = j
    BY <2>1, <2>4 DEF Queue
  <2>8. ASSUME NEW i \in 1..Len(r)
        PROVE  IF i = 1 THEN AtFront(r[i])' ELSE before'[r[i]] = r[i - 1]
    <3>1. i + 1 \in 1..Len(q) /\ i + 1 # 1 /\ r[i] = q[i + 1]
      BY <2>4
    <3>2. before[r[i]] = q[i]
      BY <2>1, <3>1 DEF Queue
    <3>3. i # 1 => r[i - 1] = q[i]
      BY <2>4
    <3>4. QED BY <2>3, <3>2, <3>3 DEF AtFront
  <2>9. tails' = IF Len(r) = 0 THEN None ELSE r[Len(r)]
    <3>1. tails = q[Len(q)]
      BY <2>1, <2>3 DEF Queue
    <3>2. CASE Len(q) = 1
      BY <2>3, <2>4, <3>1, <3>2
    <3>3. CASE Len(q) # 1
      <4>1. Len(q) \in 2..Len(q) /\ Len(r) \in 1..Len(r) /\ Len(r) + 1 = Len(q)
        BY <2>3, <2>4, <3>3
      <4>2. QED BY <2>4, <2>5, <3>1, <4>1
    <3>4. QED BY <3>2, <3>3
  <2>10. Queue(r)'
    BY <2>6, <2>7, <2>8, <2>9 DEF Queue
  <2>11. QED BY <2>4, <2>10 DEF QueueOK
<1>5. QED BY <1>1, <1>2, <1>3, <1>4

\* A call whose predecessor has settled has its turn.
LEMMA WaitIsOverKeeps ==
  ASSUME Inv, NEW c \in Calls, WaitIsOver(c)
  PROVE  Inv'
<1> USE DEF WaitIsOver, Goto, Inv
<1>1. TypeOK'
  BY DEF TypeOK, Over, local, flock
<1>2. ASSUME NEW d \in Calls PROVE ProcessOK(d)' /\ KindOK(d)' /\ TurnOK(d)'
  BY DEF TypeOK, ProcessOK, KindOK, TurnOK, AtFront, Over, local, flock
<1>3. OneHolds'
  BY DEF OneHolds, Holds, flock
<1>4. Unsettled' = Unsettled
  BY DEF Unsettled, TypeOK, local
<1>5. QueueOK'
  BY <1>4, QueueStays DEF local
<1>6. QED BY <1>1, <1>2, <1>3, <1>5

\* A waiter that leaves opens its gate and stays in the queue until its turn.
LEMMA GiveUpKeeps ==
  ASSUME Inv, NEW c \in Calls, GiveUp(c)
  PROVE  Inv'
<1> USE DEF GiveUp, Goto, OpenGate, Inv
<1>1. TypeOK'
  BY DEF TypeOK, Over, local, flock
<1>2. ASSUME NEW d \in Calls PROVE ProcessOK(d)' /\ KindOK(d)' /\ TurnOK(d)'
  BY DEF TypeOK, ProcessOK, KindOK, TurnOK, AtFront, Over, local, flock
<1>3. OneHolds'
  BY DEF OneHolds, Holds, flock
<1>4. Unsettled' = Unsettled
  BY DEF Unsettled, TypeOK, local
<1>5. QueueOK'
  BY <1>4, QueueStays DEF local
<1>6. QED BY <1>1, <1>2, <1>3, <1>5

\* An operation that ends opens its gate.
LEMMA LocalOperationEndsKeeps ==
  ASSUME Inv, NEW c \in Calls, LocalOperationEnds(c)
  PROVE  Inv'
<1> USE DEF LocalOperationEnds, Goto, OpenGate, Inv
<1>1. TypeOK'
  BY DEF TypeOK, Over, local, flock
<1>2. ASSUME NEW d \in Calls PROVE ProcessOK(d)' /\ KindOK(d)' /\ TurnOK(d)'
  BY DEF TypeOK, ProcessOK, KindOK, TurnOK, AtFront, Over, local, flock
<1>3. OneHolds'
  BY DEF OneHolds, Holds, flock
<1>4. Unsettled' = Unsettled
  BY DEF Unsettled, TypeOK, local
<1>5. QueueOK'
  BY <1>4, QueueStays DEF local
<1>6. QED BY <1>1, <1>2, <1>3, <1>5

\* Every step of either coordinator keeps the invariant.
LEMMA StepKeeps ==
  ASSUME Inv, [Next]_vars
  PROVE  Inv'
<1>1. CASE UNCHANGED vars
  <2>1. Unsettled' = Unsettled
    BY <1>1 DEF Unsettled, vars, local
  <2>2. QueueOK'
    BY <1>1, <2>1, QueueStays DEF vars, local, Inv
  <2>3. QED
    BY <1>1, <2>2 DEF Inv, TypeOK, ProcessOK, KindOK, TurnOK, AtFront, OneHolds, Holds,
                      vars, local, flock
<1>2. ASSUME NEW c \in Calls, LocalStep(c) \/ Chain(c) \/ GiveUp(c)
      PROVE  Inv'
  BY <1>2, ChainKeeps, TailSettlesKeeps, WaitIsOverKeeps, GiveUpKeeps, LocalOperationEndsKeeps
     DEF LocalStep
<1>3. ASSUME NEW c \in Calls, Spawn(c) \/ AcquisitionFails(c) \/ FlockTimesOut(c)
      PROVE  Inv'
  BY <1>3, SpawnKeeps, AcquisitionFailsKeeps, FlockTimesOutKeeps
<1>4. ASSUME NEW c \in Calls, FlockStep(c)
      PROVE  Inv'
  BY <1>4, KernelGrantsKeeps, HelperSpeaksKeeps, AcquiredKeeps, HelperExitsKeeps,
     OperationEndsKeeps, ExitIsSeenKeeps DEF FlockStep
<1>5. ASSUME NEW c \in Calls, NEW how \in AccidentalDeaths, HelperIsLost(c, how)
      PROVE  Inv'
  BY <1>5, HelperIsLostKeeps
<1>6. ASSUME NEW w \in Workers, WorkerDies(w)
      PROVE  Inv'
  BY <1>6, WorkerDiesKeeps
<1>7. QED BY <1>1, <1>2, <1>3, <1>4, <1>5, <1>6 DEF Next

\* The types of the calls' state. (repository-session-coordinator.ts)
THEOREM TypeCorrect == Spec => []TypeOK
<1>1. Inv => TypeOK
  BY DEF Inv
<1>2. QED BY <1>1, InitInv, StepKeeps, PTL DEF Spec

-----------------------------------------------------------------------------
(* Every step is a step of the promise, or none.                           *)

\* A step that changes the stage of one call moves that call in the promise.
LEMMA Moves ==
  ASSUME NEW c \in Calls, NEW where, StageOf(c)' = where,
         \A d \in Calls \ {c} : StageOf(d)' = StageOf(d)
  PROVE  Promise!To(c, where)
BY DEF Stage, Promise!To

\* A step that changes no stage is a stutter of the promise.
LEMMA Stays ==
  ASSUME \A d \in Calls : StageOf(d)' = StageOf(d)
  PROVE  UNCHANGED Stage
BY DEF Stage

\* Joining the queue is Arrive.
LEMMA ChainImplements ==
  ASSUME Inv, NEW c \in Calls, Chain(c)
  PROVE  [Promise!Next]_Stage
<1> USE DEF Chain, Goto, Inv
<1>1. \A d \in Calls \ {c} : StageOf(d)' = StageOf(d)
  BY DEF StageOf, TypeOK, Holds, local, flock
<1>2. StageOf(c) = "new" /\ StageOf(c)' \in {"waiting"}
  BY DEF StageOf, TypeOK, Holds, local, flock
<1>3. Promise!To(c, "waiting")
  BY <1>1, <1>2, Moves
<1>4. QED BY <1>2, <1>3 DEF Promise!Next, Stage, Promise!Arrive

\* A tail that settles changes no stage.
LEMMA TailSettlesImplements ==
  ASSUME Inv, NEW c \in Calls, TailSettles(c)
  PROVE  [Promise!Next]_Stage
<1> USE DEF TailSettles, Inv
<1>1. \A d \in Calls : StageOf(d)' = StageOf(d)
  BY DEF StageOf, TypeOK, Holds, ProcessOK, KindOK, TurnOK, Over, local, flock
<1>2. QED BY <1>1, Stays

\* The end of the wait is Grant: nobody else of the queue has its turn.
LEMMA WaitIsOverImplements ==
  ASSUME Inv, NEW c \in Calls, WaitIsOver(c)
  PROVE  [Promise!Next]_Stage
<1> USE DEF WaitIsOver, Goto, Inv
<1>1. \A d \in Calls \ {c} : StageOf(d)' = StageOf(d)
  BY DEF StageOf, TypeOK, Holds, local, flock
<1>2. StageOf(c) = "waiting" /\ StageOf(c)' = "holding"
  BY DEF StageOf, TypeOK, Holds, local, flock
<1>3. \A d \in Calls : StageOf(d) # "holding"
  <2>1. \A d \in Calls : pc[d] \in {"waiting", "operating"} => d \in Unsettled
    BY DEF TurnOK, Unsettled, Over
  <2>2. SUFFICES ASSUME NEW d \in Calls, StageOf(d) = "holding" PROVE FALSE
    OBVIOUS
  <2>3. pc[d] = "operating"
    BY <2>2 DEF StageOf
  <2>4. AtFront(d) /\ AtFront(c)
    BY <2>3 DEF TurnOK, AtFront
  <2>5. QED BY <2>1, <2>3, <2>4, OneAtFront
<1>4. Promise!Grant(c)
  BY <1>1, <1>2, <1>3, Moves DEF Stage, Promise!Grant
<1>5. QED BY <1>4 DEF Promise!Next

\* A waiter that leaves is refused.
LEMMA GiveUpImplements ==
  ASSUME Inv, NEW c \in Calls, GiveUp(c)
  PROVE  [Promise!Next]_Stage
<1> USE DEF GiveUp, Goto, Inv
<1>1. \A d \in Calls \ {c} : StageOf(d)' = StageOf(d)
  BY DEF StageOf, TypeOK, Holds, local, flock
<1>2. StageOf(c) = "waiting" /\ StageOf(c)' \in {"failed"}
  BY DEF StageOf, TypeOK, Holds, local, flock
<1>3. Promise!To(c, "failed")
  BY <1>1, <1>2, Moves
<1>4. QED BY <1>2, <1>3 DEF Promise!Next, Stage, Promise!Refuse

\* The local operation ends or fails with the lock still kept.
LEMMA LocalOperationEndsImplements ==
  ASSUME Inv, NEW c \in Calls, LocalOperationEnds(c)
  PROVE  [Promise!Next]_Stage
<1> USE DEF LocalOperationEnds, Goto, Inv
<1>1. \A d \in Calls \ {c} : StageOf(d)' = StageOf(d)
  BY DEF StageOf, TypeOK, Holds, local, flock
<1>2. StageOf(c) = "holding" /\ StageOf(c)' \in {"ended", "failed"}
  BY DEF StageOf, TypeOK, Holds, local, flock
<1>3. Promise!To(c, "ended") \/ Promise!To(c, "failed")
  BY <1>1, <1>2, Moves
<1>4. QED BY <1>2, <1>3 DEF Promise!Next, Stage, Promise!End, Promise!Fail

\* Spawning the helper is Arrive, and failing to spawn it a refusal.
LEMMA SpawnImplements ==
  ASSUME Inv, NEW c \in Calls, Spawn(c)
  PROVE  [Promise!Next]_Stage
<1> USE DEF Spawn, Goto, Inv
<1>1. \A d \in Calls \ {c} : StageOf(d)' = StageOf(d)
  BY DEF StageOf, TypeOK, Holds, local, flock
<1>2. StageOf(c) = "new" /\ StageOf(c)' \in {"waiting", "failed"}
  BY DEF StageOf, TypeOK, Holds, local, flock
<1>3. Promise!To(c, "waiting") \/ Promise!To(c, "failed")
  BY <1>1, <1>2, Moves
<1>4. QED BY <1>2, <1>3 DEF Promise!Next, Stage, Promise!Arrive, Promise!Refuse

\* The kernel's grant is not yet one of the promise: no operation runs.
LEMMA KernelGrantsImplements ==
  ASSUME Inv, NEW c \in Calls, KernelGrants(c)
  PROVE  [Promise!Next]_Stage
<1> USE DEF KernelGrants, Inv
<1>1. \A d \in Calls : StageOf(d)' = StageOf(d)
  BY DEF StageOf, TypeOK, Holds, ProcessOK, KindOK, TurnOK, Over, local, flock
<1>2. QED BY <1>1, Stays

\* What the helper says changes no stage.
LEMMA HelperSpeaksImplements ==
  ASSUME Inv, NEW c \in Calls, HelperSpeaks(c)
  PROVE  [Promise!Next]_Stage
<1> USE DEF HelperSpeaks, Inv
<1>1. \A d \in Calls : StageOf(d)' = StageOf(d)
  BY DEF StageOf, TypeOK, Holds, ProcessOK, KindOK, TurnOK, Over, local, flock
<1>2. QED BY <1>1, Stays

\* Beginning to operate is Grant, or Lose where the helper is dead by then.
LEMMA AcquiredImplements ==
  ASSUME Inv, NEW c \in Calls, Acquired(c)
  PROVE  [Promise!Next]_Stage
<1> USE DEF Acquired, Goto, Inv
<1>1. kind = "flock"
  BY DEF KindOK, TypeOK
<1>2. \A d \in Calls \ {c} : StageOf(d)' = StageOf(d)
  BY DEF StageOf, TypeOK, Holds, local
<1>3. StageOf(c) = "waiting"
  BY DEF StageOf
<1>4. CASE Holds(c)
  <2>1. StageOf(c)' = "holding"
    BY <1>1, <1>4 DEF StageOf, TypeOK, Holds
  <2>2. \A d \in Calls : StageOf(d) # "holding"
    BY <1>1, <1>3, <1>4 DEF StageOf, OneHolds
  <2>3. Promise!Grant(c)
    BY <1>2, <1>3, <2>1, <2>2, Moves DEF Stage, Promise!Grant
  <2>4. QED BY <2>3 DEF Promise!Next
<1>5. CASE ~Holds(c)
  <2>1. StageOf(c)' = "lost"
    BY <1>1, <1>5 DEF StageOf, TypeOK, Holds, ProcessOK
  <2>2. Promise!Lose(c)
    BY <1>2, <1>3, <2>1, Moves DEF Stage, Promise!Lose
  <2>3. QED BY <2>2 DEF Promise!Next
<1>6. QED BY <1>4, <1>5

\* An acquisition that fails is refused.
LEMMA AcquisitionFailsImplements ==
  ASSUME Inv, NEW c \in Calls, AcquisitionFails(c)
  PROVE  [Promise!Next]_Stage
<1> USE DEF AcquisitionFails, Goto, fail, Inv
<1>1. \A d \in Calls \ {c} : StageOf(d)' = StageOf(d)
  BY DEF StageOf, TypeOK, Holds, local, flock
<1>2. StageOf(c) = "waiting" /\ StageOf(c)' \in {"failed"}
  BY DEF StageOf, TypeOK, Holds, local, flock
<1>3. Promise!To(c, "failed")
  BY <1>1, <1>2, Moves
<1>4. QED BY <1>2, <1>3 DEF Promise!Next, Stage, Promise!Refuse

\* A helper that exits after its call is through changes no stage.
LEMMA HelperExitsImplements ==
  ASSUME Inv, NEW c \in Calls, HelperExits(c)
  PROVE  [Promise!Next]_Stage
<1> USE DEF HelperExits, Dies, StdinIsClosed, Inv
<1>1. \A d \in Calls : StageOf(d)' = StageOf(d)
  BY DEF StageOf, TypeOK, Holds, ProcessOK, KindOK, TurnOK, Over, local, flock
<1>2. QED BY <1>1, Stays

\* The exit of flock -w is not seen yet: no stage changes.
LEMMA FlockTimesOutImplements ==
  ASSUME Inv, NEW c \in Calls, FlockTimesOut(c)
  PROVE  [Promise!Next]_Stage
<1> USE DEF FlockTimesOut, Dies, Inv
<1>1. \A d \in Calls : StageOf(d)' = StageOf(d)
  BY DEF StageOf, TypeOK, Holds, ProcessOK, KindOK, TurnOK, Over, local, flock
<1>2. QED BY <1>1, Stays

\* The death of the helper of an operation is Lose.
LEMMA HelperIsLostImplements ==
  ASSUME Inv, NEW c \in Calls, NEW how \in AccidentalDeaths, HelperIsLost(c, how)
  PROVE  [Promise!Next]_Stage
<1> USE DEF HelperIsLost, Dies, Accident, Inv
<1>1. kind = "flock"
  BY DEF KindOK, TypeOK
<1>2. \A d \in Calls \ {c} : StageOf(d)' = StageOf(d)
  BY DEF StageOf, TypeOK, Holds, local
<1>3. CASE pc[c] = "operating"
  <2>1. StageOf(c) = "holding" /\ StageOf(c)' = "lost"
    BY <1>1, <1>3 DEF StageOf, TypeOK, Holds, ProcessOK
  <2>2. Promise!Lose(c)
    BY <1>2, <2>1, Moves DEF Stage, Promise!Lose
  <2>3. QED BY <2>2 DEF Promise!Next
<1>4. CASE pc[c] # "operating"
  <2>1. StageOf(c)' = StageOf(c)
    BY <1>4 DEF StageOf
  <2>2. QED BY <1>2, <2>1, Stays
<1>5. QED BY <1>3, <1>4

\* An operation that was told ends as a failure, any other as it likes.
LEMMA OperationEndsImplements ==
  ASSUME Inv, NEW c \in Calls, OperationEnds(c)
  PROVE  [Promise!Next]_Stage
<1> USE DEF OperationEnds, Goto, Inv
<1>1. \A d \in Calls \ {c} : StageOf(d)' = StageOf(d)
  BY DEF StageOf, TypeOK, Holds, flock
<1>2. StageOf(c) \in {"holding", "lost", "told"}
  BY DEF StageOf
<1>3. PICK result \in Result(c) :
        pc' = [pc EXCEPT ![c] = IF ProcessHasExited(c) THEN Answer(result) ELSE result]
  OBVIOUS
<1>4. CASE result = "releasing"
  <2>1. c \notin told
    BY <1>4 DEF Result
  <2>2. StageOf(c)' = "ended" /\ StageOf(c) \in {"holding", "lost"}
    BY <1>3, <1>4, <2>1 DEF StageOf, TypeOK, Answer
  <2>3. Promise!End(c)
    BY <1>1, <2>2, Moves DEF Stage, Promise!End
  <2>4. QED BY <2>3 DEF Promise!Next
<1>5. CASE result = "rejecting"
  <2>1. StageOf(c)' = "failed"
    BY <1>3, <1>5 DEF StageOf, TypeOK, Answer
  <2>2. Promise!Fail(c)
    BY <1>1, <1>2, <2>1, Moves DEF Stage, Promise!Fail
  <2>3. QED BY <2>2 DEF Promise!Next
<1>6. QED BY <1>4, <1>5 DEF Result

\* Seeing the exit is Tell for an operation, and a refusal before there is one.
LEMMA ExitIsSeenImplements ==
  ASSUME Inv, NEW c \in Calls, ExitIsSeen(c)
  PROVE  [Promise!Next]_Stage
<1> USE DEF ExitIsSeen, Goto, Answer, Inv
<1>1. kind = "flock" /\ kind' = "flock" /\ helper' = helper
  BY DEF KindOK, TypeOK
<1>2. \A d \in Calls \ {c} : StageOf(d)' = StageOf(d)
  BY DEF StageOf, TypeOK, Holds
<1>3. CASE pc[c] = "acquiring"
  <2>1. StageOf(c) = "waiting" /\ StageOf(c)' = "failed"
    BY <1>3 DEF StageOf, TypeOK
  <2>2. Promise!Refuse(c)
    BY <1>2, <2>1, Moves DEF Stage, Promise!Refuse
  <2>3. QED BY <2>2 DEF Promise!Next
<1>4. CASE pc[c] = "operating"
  <2>1. StageOf(c) = "lost" /\ StageOf(c)' = "told"
    BY <1>1, <1>4 DEF StageOf, TypeOK, Holds, ProcessOK
  <2>2. Promise!Tell(c)
    BY <1>2, <2>1, Moves DEF Stage, Promise!Tell
  <2>3. QED BY <2>2 DEF Promise!Next
<1>5. CASE pc[c] \notin {"acquiring", "operating"}
  <2>1. StageOf(c)' = StageOf(c)
    BY <1>1, <1>5 DEF StageOf, TypeOK
  <2>2. QED BY <1>2, <2>1, Stays
<1>6. QED BY <1>3, <1>4, <1>5

\* The death of a worker is Die of its calls.
LEMMA WorkerDiesImplements ==
  ASSUME Inv, NEW w \in Workers, WorkerDies(w)
  PROVE  [Promise!Next]_Stage
<1> DEFINE cs == {c \in Calls : WorkerOf[c] = w /\ pc[c] \notin Over \cup {"new"}}
<1>1. ASSUME NEW c \in Calls
      PROVE  StageOf(c)' = IF c \in cs THEN "failed" ELSE StageOf(c)
  BY DEF WorkerDies, StageOf, Over, Holds, flock
<1>2. Promise!Die(cs)
  BY <1>1 DEF Stage, Promise!Die
<1>3. cs \in SUBSET Calls
  OBVIOUS
<1>4. QED BY <1>2, <1>3 DEF Promise!Next

\* Every step is a step of the promise, or a stutter of it.
LEMMA StepImplements ==
  ASSUME Inv, [Next]_vars
  PROVE  [Promise!Next]_Stage
<1>1. CASE UNCHANGED vars
  BY <1>1 DEF Stage, StageOf, Holds, vars, flock
<1>2. ASSUME NEW c \in Calls, LocalStep(c) \/ Chain(c) \/ GiveUp(c)
      PROVE  [Promise!Next]_Stage
  BY <1>2, ChainImplements, TailSettlesImplements, WaitIsOverImplements, GiveUpImplements,
     LocalOperationEndsImplements DEF LocalStep
<1>3. ASSUME NEW c \in Calls, Spawn(c) \/ AcquisitionFails(c) \/ FlockTimesOut(c)
      PROVE  [Promise!Next]_Stage
  BY <1>3, SpawnImplements, AcquisitionFailsImplements, FlockTimesOutImplements
<1>4. ASSUME NEW c \in Calls, FlockStep(c)
      PROVE  [Promise!Next]_Stage
  BY <1>4, KernelGrantsImplements, HelperSpeaksImplements, AcquiredImplements,
     HelperExitsImplements, OperationEndsImplements, ExitIsSeenImplements DEF FlockStep
<1>5. ASSUME NEW c \in Calls, NEW how \in AccidentalDeaths, HelperIsLost(c, how)
      PROVE  [Promise!Next]_Stage
  BY <1>5, HelperIsLostImplements
<1>6. ASSUME NEW w \in Workers, WorkerDies(w)
      PROVE  [Promise!Next]_Stage
  BY <1>6, WorkerDiesImplements
<1>7. QED BY <1>1, <1>2, <1>3, <1>4, <1>5, <1>6 DEF Next

\* Both coordinators keep the promise of withLock, whatever calls there are and in
\* whichever workers, however waiters leave, helpers die and workers crash.
\* (repository-session-coordinator.ts:43-223)
THEOREM PromiseIsKept == Spec => KeepsPromise
<1>1. Init => Promise!Init
  BY DEF Init, Stage, StageOf, Promise!Init
<1>2. QED BY <1>1, InitInv, StepKeeps, StepImplements, PTL DEF Spec, KeepsPromise, Promise!Spec

\* So no two operations ever run while their lock is kept.
\* (repository-session-coordinator.ts:12-18)
THEOREM OperationsExclude == Spec => []Promise!MutualExclusion
<1>1. ASSUME Inv PROVE Promise!MutualExclusion
  <2>1. SUFFICES ASSUME NEW c \in Calls, NEW d \in Calls,
                        StageOf(c) = "holding", StageOf(d) = "holding"
                 PROVE  c = d
    BY DEF Promise!MutualExclusion, Stage
  <2>2. pc[c] = "operating" /\ pc[d] = "operating"
    BY <2>1 DEF StageOf
  <2>3. CASE kind = "local"
    <3>1. c \in Unsettled /\ AtFront(c) /\ d \in Unsettled /\ AtFront(d)
      BY <1>1, <2>2, <2>3 DEF Inv, TurnOK, Unsettled, Over
    <3>2. QED BY <1>1, <2>3, <3>1, OneAtFront
  <2>4. CASE kind = "flock"
    <3>1. Holds(c) /\ Holds(d)
      BY <2>1, <2>2, <2>4 DEF StageOf
    <3>2. QED BY <1>1, <3>1 DEF Inv, OneHolds
  <2>5. QED BY <1>1, <2>3, <2>4 DEF Inv, TypeOK
<1>2. QED BY <1>1, InitInv, StepKeeps, PTL DEF Spec

-----------------------------------------------------------------------------
(* The promise itself excludes, for any set of calls, whoever implements it.   *)
CONSTANT AnyCalls
VARIABLE anyStage

Lock == INSTANCE Exclusion WITH Calls <- AnyCalls, stage <- anyStage

\* Every call is at one of the stages.
LockTypeOK == anyStage \in [AnyCalls -> Lock!Stages]

\* The induction: nobody is granted the lock beside a holder, and no other step
\* makes one.
LockInv == LockTypeOK /\ Lock!MutualExclusion

\* A step that moves calls to other stages than holding adds no holder.
LEMMA LockNoNewHolder ==
  ASSUME LockInv, NEW cs \in SUBSET AnyCalls, NEW where \in Lock!Stages \ {"holding"},
         anyStage' = [c \in AnyCalls |-> IF c \in cs THEN where ELSE anyStage[c]]
  PROVE  LockInv'
  BY DEF LockInv, LockTypeOK, Lock!MutualExclusion

\* A call that goes anywhere but into the lock.
LEMMA LockMoveKeeps ==
  ASSUME LockInv, NEW c \in AnyCalls, NEW where \in Lock!Stages \ {"holding"},
         Lock!To(c, where)
  PROVE  LockInv'
<1>1. anyStage' = [d \in AnyCalls |-> IF d \in {c} THEN where ELSE anyStage[d]]
  BY DEF Lock!To, LockInv, LockTypeOK
<1>2. QED BY <1>1, LockNoNewHolder

\* A grant finds nobody inside.
LEMMA LockGrantKeeps ==
  ASSUME LockInv, NEW c \in AnyCalls, Lock!Grant(c)
  PROVE  LockInv'
<1>1. LockTypeOK'
  BY DEF LockInv, LockTypeOK, Lock!Grant, Lock!To, Lock!Stages
<1>2. Lock!MutualExclusion'
  BY DEF LockInv, LockTypeOK, Lock!MutualExclusion, Lock!Grant, Lock!To
<1>3. QED BY <1>1, <1>2 DEF LockInv

\* Every step of the promise keeps it, the death of any set of calls included.
LEMMA LockStepKeeps ==
  ASSUME LockInv, [Lock!Next]_anyStage
  PROVE  LockInv'
<1>1. CASE UNCHANGED anyStage
  BY <1>1 DEF LockInv, LockTypeOK, Lock!MutualExclusion
<1>2. ASSUME NEW cs \in SUBSET AnyCalls, Lock!Die(cs)
      PROVE  LockInv'
  BY <1>2, LockNoNewHolder, "failed" \in Lock!Stages \ {"holding"} DEF Lock!Die, Lock!Stages
<1>3. ASSUME NEW c \in AnyCalls, Lock!Grant(c)
      PROVE  LockInv'
  BY <1>3, LockGrantKeeps
<1>4. ASSUME NEW c \in AnyCalls,
             \/ Lock!Arrive(c) \/ Lock!Refuse(c) \/ Lock!Lose(c)
             \/ Lock!Tell(c) \/ Lock!End(c) \/ Lock!Fail(c)
      PROVE  LockInv'
  <2>1. PICK where \in Lock!Stages \ {"holding"} : Lock!To(c, where)
    BY <1>4 DEF Lock!Arrive, Lock!Refuse, Lock!Lose, Lock!Tell, Lock!End, Lock!Fail,
                Lock!Stages
  <2>2. QED BY <2>1, LockMoveKeeps
<1>5. QED BY <1>1, <1>2, <1>3, <1>4 DEF Lock!Next

\* Whatever calls there are, and whichever are refused, lose the lock or die with
\* their process, two operations never run under the lock together
\* (repository-session-coordinator.ts:12-18).
THEOREM Excludes == Lock!Spec => []Lock!MutualExclusion
<1>1. Lock!Init => LockInv
  BY DEF Lock!Init, LockInv, LockTypeOK, Lock!Stages, Lock!MutualExclusion
<1>2. LockInv /\ [Lock!Next]_anyStage => LockInv'
  BY LockStepKeeps
<1>3. LockInv => Lock!MutualExclusion
  BY DEF LockInv
<1>4. QED BY <1>1, <1>2, <1>3, PTL DEF Lock!Spec

===============================================================================
