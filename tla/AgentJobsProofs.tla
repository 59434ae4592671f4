-------------------------- MODULE AgentJobsProofs --------------------------
(***************************************************************************)
(* Proofs about AgentJobs: its type invariant and the three invariants the *)
(* run checks, for every number of calls, every tier chain, any number of  *)
(* attempts and any number of incidents.                                   *)
(*                                                                         *)
(* Nothing in a Job or a file names the attempt it belongs to: what ties   *)
(* them together is the name.  The inductive invariant says that of every  *)
(* place a name or the number of a Job is kept: the Jobs, the files and    *)
(* the pods that have them open, the output a runner is failing on and the *)
(* answer of a call; and, for the Jobs nobody watches, which incident left *)
(* them alone.                                                             *)
(***************************************************************************)
EXTENDS AgentJobs, SequenceTheorems, TLAPS

USE AgentJobsAssumption

Job == [name : JobNames, call : Calls, tier : Tiers, registered : BOOLEAN,
        pod : {"pending", "running", "ended"}]

\* A Job has the name of its call and tier.
JobOK(j) == jobs[j].name = k8sJobName(jobs[j].call, jobs[j].tier)

\* A file was written by, and is open in, pods of Jobs of its name; none of
\* them is one whose output an attempt has already failed on.
FileOK(n) ==
  /\ \A j \in file[n].writers \cup ({file[n].by} \ {Nobody}) :
       jobs[j].name = n /\ jobs[j].pod # "pending" /\ j \notin rejected
  /\ file[n].text # "empty" => file[n].by # Nobody

\* A runner is at a tier of the chain of its call, and fails on an output of
\* a Job of its name.
RunnerOK(r) ==
  /\ runner[r].call \in 1..Len(chain) /\ runner[r].tier \in 1..chain[runner[r].call]
  /\ runner[r].by # Nobody =>
       /\ runner[r].by \in DOMAIN jobs
       /\ jobs[runner[r].by].name = Name(r) /\ jobs[runner[r].by].pod # "pending"

\* The attempt is at the call the workflow awaits; a late one was lost.
AttemptsOK ==
  /\ ~At("attempt", "gone") => runner["attempt"].call = call
  /\ ~At("late", "gone") => runner["late"].call \in lostIn

\* The result of a call was written by a Job of its name.
AnswerOK(c) ==
  answer[c].state = "result" =>
    answer[c].by # Nobody /\ jobs[answer[c].by].name = k8sJobName(c, answer[c].tier)

\* What was rejected had been written, by a pod that had started.
RejectedOK ==
  FailuresAreFresh /\ \A j \in rejected : jobs[j].pod # "pending"

\* The API server knows one Job of a name.
OneOfAName ==
  \A i, j \in DOMAIN jobs :
    jobs[i].registered /\ jobs[j].registered /\ jobs[i].name = jobs[j].name => i = j

\* NoAgentIsForgotten with the points at which the attempt still has to
\* delete the Job or to hear of its end.
Watched(j) ==
  jobs[j].registered /\ jobs[j].pod # "ended" =>
    \/ Attended(j) /\ runner["attempt"].pc \notin {"read", "removeFiles"}
    \/ jobs[j].call \in lostIn \cup uncleanIn

Inv ==
  /\ TypeOK
  /\ \A j \in DOMAIN jobs : JobOK(j)
  /\ \A n \in JobNames : FileOK(n)
  /\ \A r \in Slots : RunnerOK(r)
  /\ AttemptsOK
  /\ \A c \in Calls : AnswerOK(c)
  /\ RejectedOK
  /\ OneOfAName
  /\ \A j \in DOMAIN jobs : Watched(j)

-----------------------------------------------------------------------------
(***************************************************************************)
(* Lemmas about tiers, names and the operations on Jobs.                   *)
(***************************************************************************)

\* The tiers of a chain are tiers, and its calls are calls.
LEMMA ChainTiers ==
  ASSUME NEW w \in Workflows, NEW c \in 1..Len(w)
  PROVE  c \in Calls /\ w[c] \in Nat \ {0} /\ 1..w[c] \subseteq Tiers
<1>1. w \in Seq(Nat \ {0}) /\ Len(w) \in Calls
  OBVIOUS
<1>2. c \in Calls /\ w[c] \in Nat \ {0}
  BY <1>1 DEF Calls
<1>3. 1..w[c] \subseteq Tiers
  BY DEF Tiers
<1> QED
  BY <1>2, <1>3

\* A tier is a positive number.
LEMMA TiersAreNumbers == Tiers \subseteq Nat \ {0}
<1> SUFFICES ASSUME NEW t \in Tiers PROVE t \in Nat \ {0}
  OBVIOUS
<1>1. PICK w \in Workflows : \E c \in 1..Len(w) : t \in 1..w[c]
  BY DEF Tiers
<1>2. PICK c \in 1..Len(w) : t \in 1..w[c]
  BY <1>1
<1>3. w[c] \in Nat
  BY ChainTiers
<1> QED
  BY <1>2, <1>3

\* Every workflow makes a call, and its routed model is a tier.
LEMMA FirstTier ==
  ASSUME NEW w \in Workflows
  PROVE  1 \in 1..Len(w) /\ 1 \in Calls /\ 1 \in 1..w[1] /\ 1 \in Tiers
<1>1. w \in Seq(Nat \ {0}) /\ Len(w) \in Calls
  OBVIOUS
<1>2. 1 \in 1..Len(w)
  BY <1>1 DEF Calls
<1> QED
  BY <1>2, ChainTiers

\* The name of a Job of a call at a tier is a name.
LEMMA NamesOfJobs ==
  ASSUME coordinate \in Coordinates, NEW c \in Calls, NEW t \in Tiers
  PROVE  k8sJobName(c, t) \in JobNames
BY DEF JobNames, k8sJobName

\* What any operation on Jobs leaves as it was: a Job stays, under its name,
\* and neither a registration nor a pod comes back.
JobsStep ==
  /\ jobs' \in Seq(Job)
  /\ DOMAIN jobs \subseteq DOMAIN jobs'
  /\ \A j \in DOMAIN jobs :
       /\ jobs'[j].name = jobs[j].name /\ jobs'[j].call = jobs[j].call
       /\ jobs'[j].tier = jobs[j].tier
       /\ jobs'[j].registered => jobs[j].registered
       /\ jobs'[j].pod = "pending" => jobs[j].pod = "pending"
       /\ jobs[j].pod = "ended" => jobs'[j].pod = "ended"

\* Unregistering Jobs does nothing else to them.
LEMMA UnregisterResult ==
  ASSUME jobs \in Seq(Job), NEW gone
  PROVE  /\ Unregister(gone) \in Seq(Job) /\ DOMAIN Unregister(gone) = DOMAIN jobs
         /\ \A j \in DOMAIN jobs : LET k == Unregister(gone)[j] IN
              /\ k.name = jobs[j].name /\ k.call = jobs[j].call /\ k.tier = jobs[j].tier
              /\ k.pod = jobs[j].pod
              /\ k.registered => jobs[j].registered /\ j \notin gone
<1> DEFINE u == Unregister(gone)
<1>1. /\ DOMAIN jobs = 1..Len(jobs)
      /\ u = [j \in DOMAIN jobs |-> IF j \in gone THEN [jobs[j] EXCEPT !.registered = FALSE]
                                                  ELSE jobs[j]]
  BY DEF Unregister
<1> HIDE DEF u
<1>2. ASSUME NEW j \in DOMAIN jobs
      PROVE  /\ u[j] \in Job
             /\ u[j].name = jobs[j].name /\ u[j].call = jobs[j].call
             /\ u[j].tier = jobs[j].tier /\ u[j].pod = jobs[j].pod
             /\ u[j].registered => jobs[j].registered /\ j \notin gone
  <2>1. jobs[j] \in Job
    BY <1>1
  <2>2. CASE j \in gone
    <3>1. u[j] = [jobs[j] EXCEPT !.registered = FALSE]
      BY <1>1, <2>2
    <3> QED
      BY <2>1, <3>1 DEF Job
  <2>3. CASE j \notin gone
    BY <1>1, <2>1, <2>3
  <2> QED
    BY <2>2, <2>3
<1>3. DOMAIN u = DOMAIN jobs /\ u = [j \in DOMAIN jobs |-> u[j]]
  BY <1>1
<1>4. u \in [1..Len(jobs) -> Job]
  BY <1>1, <1>2, <1>3
<1>5. u \in Seq(Job)
  BY <1>1, <1>4, SeqDef
<1> QED
  BY <1>2, <1>3, <1>5 DEF u

\* Nor does a step of one pod to anything but the state of that pod.
LEMMA SetPodResult ==
  ASSUME jobs \in Seq(Job), NEW j \in DOMAIN jobs, NEW where \in {"running", "ended"},
         jobs[j].pod # "ended", SetPod(j, where)
  PROVE  /\ JobsStep /\ DOMAIN jobs' = DOMAIN jobs /\ jobs'[j].pod = where
         /\ \A i \in DOMAIN jobs : /\ jobs'[i].registered = jobs[i].registered
                                   /\ i # j => jobs'[i].pod = jobs[i].pod
<1>1. /\ DOMAIN jobs = 1..Len(jobs) /\ jobs[j] \in Job
      /\ jobs' = [jobs EXCEPT ![j] = [jobs[j] EXCEPT !.pod = where]]
  BY DEF SetPod
<1>2. [jobs[j] EXCEPT !.pod = where] \in Job
  BY <1>1 DEF Job
<1>3. jobs' \in Seq(Job)
  BY <1>1, <1>2, ExceptSeq
<1>4. DOMAIN jobs' = DOMAIN jobs
  BY <1>1
<1>5. \A i \in DOMAIN jobs : i # j => jobs'[i] = jobs[i]
  BY <1>1
<1>6. /\ jobs'[j].name = jobs[j].name /\ jobs'[j].call = jobs[j].call
      /\ jobs'[j].tier = jobs[j].tier /\ jobs'[j].registered = jobs[j].registered
      /\ jobs'[j].pod = where
  BY <1>1 DEF Job
<1> QED
  BY <1>3, <1>4, <1>5, <1>6 DEF JobsStep

\* Creating a Job, or attaching to the one there is: of that name exactly one
\* is known afterwards, and Jobs of other names stay as they were.
LEMMA CreateResult ==
  ASSUME jobs \in Seq(Job), \A j \in DOMAIN jobs : JobOK(j), OneOfAName,
         NEW r \in Slots, runner[r].call \in Calls, runner[r].tier \in Tiers,
         createNamespacedJob(r), coordinate \in Coordinates, UNCHANGED coordinate
  PROVE  /\ JobsStep /\ (\A j \in DOMAIN jobs' : JobOK(j)') /\ OneOfAName'
         /\ \A j \in DOMAIN jobs : jobs'[j].pod = jobs[j].pod
         /\ \A j \in DOMAIN jobs' \ DOMAIN jobs :
              jobs'[j].call = runner[r].call /\ jobs'[j].tier = runner[r].tier
<1>1. PICK gone \in Expired(Name(r)) :
        jobs' = IF Registered(Name(r)) \subseteq gone THEN Append(Unregister(gone), NewJob(r))
                ELSE jobs
  BY DEF createNamespacedJob
<1>2. CASE ~(Registered(Name(r)) \subseteq gone)
  BY <1>1, <1>2 DEF JobsStep, JobOK, k8sJobName, OneOfAName
<1>3. CASE Registered(Name(r)) \subseteq gone
  <2> DEFINE u == Unregister(gone)
             new == NewJob(r)
  <2>1. /\ new \in Job /\ new.call = runner[r].call /\ new.tier = runner[r].tier
        /\ new.name = k8sJobName(new.call, new.tier) /\ new.name = Name(r)
    BY NamesOfJobs DEF NewJob, Name, Job
  <2>2. /\ u \in Seq(Job) /\ DOMAIN u = DOMAIN jobs
        /\ \A j \in DOMAIN jobs :
             /\ u[j].name = jobs[j].name /\ u[j].call = jobs[j].call
             /\ u[j].tier = jobs[j].tier /\ u[j].pod = jobs[j].pod
             /\ u[j].registered => jobs[j].registered /\ j \notin gone
    BY UnregisterResult
  <2> HIDE DEF u, new
  <2>3. jobs' = Append(u, new)
    BY <1>1, <1>3 DEF u, new
  <2>4. /\ jobs' \in Seq(Job) /\ DOMAIN jobs = 1..Len(u) /\ DOMAIN jobs' = 1..(Len(u) + 1)
        /\ jobs'[Len(u) + 1] = new
        /\ \A j \in DOMAIN jobs : jobs'[j] = u[j]
    BY <2>1, <2>2, <2>3
  <2>5. \A j \in DOMAIN jobs' : j \in DOMAIN jobs \/ j = Len(u) + 1
    BY <2>2, <2>4
  <2>6. \A j \in DOMAIN jobs :
          /\ jobs'[j].name = jobs[j].name /\ jobs'[j].call = jobs[j].call
          /\ jobs'[j].tier = jobs[j].tier /\ jobs'[j].pod = jobs[j].pod
          /\ jobs'[j].registered => jobs[j].registered /\ j \notin gone
    BY <2>2, <2>4
  <2>7. JobsStep
    BY <2>4, <2>6 DEF JobsStep
  <2>8. \A j \in DOMAIN jobs' : JobOK(j)'
    BY <2>1, <2>4, <2>5, <2>6 DEF JobOK, k8sJobName
  <2>9. \A j \in DOMAIN jobs : jobs'[j].registered => jobs'[j].name # Name(r)
    BY <1>3, <2>6 DEF Registered
  <2>10. OneOfAName'
    <3> SUFFICES ASSUME NEW i \in DOMAIN jobs', NEW j \in DOMAIN jobs',
                        jobs'[i].registered, jobs'[j].registered, jobs'[i].name = jobs'[j].name
                 PROVE  i = j
      BY DEF OneOfAName
    <3>1. CASE i \in DOMAIN jobs /\ j \in DOMAIN jobs
      BY <2>6, <3>1 DEF OneOfAName
    <3>2. CASE i \notin DOMAIN jobs \/ j \notin DOMAIN jobs
      BY <2>1, <2>4, <2>5, <2>9, <3>2
    <3> QED
      BY <3>1, <3>2
  <2> QED
    BY <2>1, <2>4, <2>5, <2>6, <2>7, <2>8, <2>10
<1> QED
  BY <1>2, <1>3

\* What the invariant says of one runner.
LEMMA RunnerFacts ==
  ASSUME Inv, NEW r \in Slots
  PROVE  /\ runner[r] \in Runners /\ RunnerOK(r) /\ chain \in Workflows
         /\ runner[r].call \in Calls /\ runner[r].tier \in Tiers /\ runner[r].tier \in Nat
         /\ chain[runner[r].call] \in Nat
         /\ 1..chain[runner[r].call] \subseteq Tiers
         /\ Name(r) \in JobNames /\ FileOK(Name(r))
<1>1. runner[r] \in Runners /\ RunnerOK(r) /\ chain \in Workflows
  BY DEF Inv, TypeOK
<1>2. runner[r].call \in Calls /\ runner[r].tier \in Tiers
  BY <1>1 DEF Runners
<1>3. /\ chain[runner[r].call] \in Nat /\ 1..chain[runner[r].call] \subseteq Tiers
      /\ runner[r].tier \in Nat
  BY <1>1, ChainTiers DEF RunnerOK
<1>4. Name(r) \in JobNames
  BY <1>2, NamesOfJobs DEF Name, Inv, TypeOK
<1> QED
  BY <1>1, <1>2, <1>3, <1>4 DEF Inv

\* Where the Jobs go on as JobsStep says and a file or a runner does not change,
\* what is said of it stays true.
LEMMA FilesStay ==
  ASSUME Inv, JobsStep, UNCHANGED <<file, rejected>>
  PROVE  /\ file' \in [JobNames -> [writers : SUBSET DOMAIN jobs', by : {Nobody} \cup DOMAIN jobs',
                                   text : Texts]]
         /\ \A n \in JobNames : FileOK(n)'
<1>1. ASSUME NEW n \in JobNames
      PROVE  /\ file[n] \in [writers : SUBSET DOMAIN jobs', by : {Nobody} \cup DOMAIN jobs',
                             text : Texts]
             /\ FileOK(n)'
  <2>1. /\ file[n] \in [writers : SUBSET DOMAIN jobs, by : {Nobody} \cup DOMAIN jobs, text : Texts]
        /\ FileOK(n) /\ DOMAIN jobs \subseteq DOMAIN jobs'
    BY <1>1 DEF Inv, TypeOK, JobsStep
  <2>2. file[n] \in [writers : SUBSET DOMAIN jobs', by : {Nobody} \cup DOMAIN jobs', text : Texts]
    BY <2>1
  <2>3. ASSUME NEW j \in file[n].writers \cup ({file[n].by} \ {Nobody})
        PROVE  j \in DOMAIN jobs /\ jobs'[j].name = n /\ jobs'[j].pod # "pending" /\ j \notin rejected
    BY <2>1, <2>3 DEF FileOK, JobsStep
  <2> QED
    BY <2>1, <2>2, <2>3 DEF FileOK
<1>2. file = [n \in JobNames |-> file[n]]
  BY DEF Inv, TypeOK
<1> QED
  BY <1>1, <1>2

\* A runner that stays with its call and tier.
LEMMA RunnerStays ==
  ASSUME Inv, JobsStep, UNCHANGED <<chain, coordinate>>, NEW r \in Slots,
         runner'[r].call = runner[r].call, runner'[r].tier = runner[r].tier,
         runner'[r].by \in {Nobody, runner[r].by}
  PROVE  RunnerOK(r)'
<1>1. RunnerOK(r) /\ Name(r)' = Name(r)
  BY RunnerFacts DEF Name, k8sJobName
<1>2. CASE runner'[r].by = Nobody
  BY <1>1, <1>2 DEF RunnerOK
<1>3. CASE runner[r].by # Nobody /\ runner'[r].by = runner[r].by
  BY <1>1, <1>3 DEF RunnerOK, JobsStep
<1> QED
  BY <1>2, <1>3

\* A runner that is gone is at the first tier of the first call.
LEMMA GoneIsOK ==
  ASSUME chain' \in Workflows, NEW r \in Slots, runner'[r] = Gone
  PROVE  RunnerOK(r)' /\ Gone \in Runners
<1>1. 1 \in 1..Len(chain') /\ 1 \in 1..chain'[1] /\ 1 \in Calls /\ 1 \in Tiers
  BY FirstTier
<1> QED
  BY <1>1 DEF RunnerOK, Gone, Runners, Nobody

\* Answers that are kept.
LEMMA AnswersStay ==
  ASSUME Inv, JobsStep, UNCHANGED coordinate, NEW c \in Calls,
         answer'[c].state = "result" => answer'[c] = answer[c]
  PROVE  AnswerOK(c)'
<1>1. /\ answer[c].by \in {Nobody} \cup DOMAIN jobs
      /\ AnswerOK(c)
  BY DEF Inv, TypeOK
<1> QED
  BY <1>1 DEF AnswerOK, JobsStep, k8sJobName

\* A Job nobody but an incident leaves alone, while the attempt stays on it.
LEMMA StillWatched ==
  ASSUME Inv, JobsStep, NEW j \in DOMAIN jobs,
         lostIn \subseteq lostIn', uncleanIn \subseteq uncleanIn',
         \/ jobs[j].call \in lostIn' \cup uncleanIn'
         \/ UNCHANGED <<runner["attempt"].call, runner["attempt"].tier>>
            /\ runner'["attempt"].pc \notin {"gone", "read", "removeFiles"}
  PROVE  Watched(j)'
BY DEF Inv, Watched, Attended, JobsStep, At

\* The operations on Jobs, for steps that only need JobsStep: none,
LEMMA SameJobs ==
  ASSUME Inv, UNCHANGED <<jobs, coordinate>>
  PROVE  JobsStep /\ (\A j \in DOMAIN jobs' : JobOK(j)') /\ OneOfAName'
BY DEF Inv, TypeOK, JobsStep, JobOK, k8sJobName, OneOfAName, Job

\* a deletion or an expiry,
LEMMA FewerJobs ==
  ASSUME Inv, NEW gone, jobs' = Unregister(gone), UNCHANGED coordinate
  PROVE  /\ JobsStep /\ (\A j \in DOMAIN jobs' : JobOK(j)') /\ OneOfAName'
         /\ DOMAIN jobs' = DOMAIN jobs
         /\ \A j \in DOMAIN jobs : /\ jobs'[j].pod = jobs[j].pod
                                   /\ jobs'[j].registered => jobs[j].registered /\ j \notin gone
<1>1. jobs \in Seq(Job)
  BY DEF Inv, TypeOK, Job
<1>2. /\ jobs' \in Seq(Job) /\ DOMAIN jobs' = DOMAIN jobs
      /\ \A j \in DOMAIN jobs :
           /\ jobs'[j].name = jobs[j].name /\ jobs'[j].call = jobs[j].call
           /\ jobs'[j].tier = jobs[j].tier /\ jobs'[j].pod = jobs[j].pod
           /\ jobs'[j].registered => jobs[j].registered /\ j \notin gone
  BY <1>1, UnregisterResult
<1>3. JobsStep
  BY <1>2 DEF JobsStep
<1>4. (\A j \in DOMAIN jobs' : JobOK(j)') /\ OneOfAName'
  BY <1>2 DEF Inv, JobOK, k8sJobName, OneOfAName
<1> QED
  BY <1>2, <1>3, <1>4

\* a step of a pod,
LEMMA PodsJobs ==
  ASSUME Inv, NEW j \in DOMAIN jobs, NEW where \in {"running", "ended"},
         jobs[j].pod # "ended", SetPod(j, where), UNCHANGED coordinate
  PROVE  /\ JobsStep /\ (\A i \in DOMAIN jobs' : JobOK(i)') /\ OneOfAName'
         /\ DOMAIN jobs' = DOMAIN jobs /\ jobs'[j].pod = where
<1>1. jobs \in Seq(Job)
  BY DEF Inv, TypeOK, Job
<1>2. /\ JobsStep /\ DOMAIN jobs' = DOMAIN jobs /\ jobs'[j].pod = where
      /\ \A i \in DOMAIN jobs : jobs'[i].registered = jobs[i].registered
  BY <1>1, SetPodResult
<1>3. \A i \in DOMAIN jobs' : JobOK(i)'
  <2>1. \A i \in DOMAIN jobs : JobOK(i)
    BY DEF Inv
  <2> QED
    BY <1>2, <2>1 DEF JobsStep, JobOK, k8sJobName
<1>4. OneOfAName'
  <2>1. OneOfAName
    BY DEF Inv
  <2> QED
    BY <1>2, <2>1 DEF JobsStep, OneOfAName
<1> QED
  BY <1>2, <1>3, <1>4

\* and a creation.
LEMMA NewJobs ==
  ASSUME Inv, NEW r \in Slots, createNamespacedJob(r), UNCHANGED coordinate
  PROVE  /\ JobsStep /\ (\A j \in DOMAIN jobs' : JobOK(j)') /\ OneOfAName'
         /\ \A j \in DOMAIN jobs' \ DOMAIN jobs :
              jobs'[j].call = runner[r].call /\ jobs'[j].tier = runner[r].tier
<1>1. jobs \in Seq(Job)
  BY DEF Inv, TypeOK, Job
<1> QED
  BY <1>1, CreateResult, RunnerFacts DEF Inv, TypeOK

-----------------------------------------------------------------------------
\* A workflow starts without attempts, Jobs, files or answers.
LEMMA InitInv == Init => Inv
<1> SUFFICES ASSUME Init PROVE Inv
  OBVIOUS
<1>1. 1 \in Calls /\ 1 \in Tiers /\ 1 \in 1..Len(chain) /\ 1 \in 1..chain[1]
  BY FirstTier DEF Init
<1>2. jobs = <<>> /\ DOMAIN jobs = {} /\ jobs \in Seq(Job)
  BY DEF Init
<1>3. TypeOK
  <2>1. chain \in Workflows /\ call \in 1..(NCalls + 1) /\ attempt \in 0..MaxAttempts
        /\ incidents \in 0..MaxIncidents /\ coordinate \in Coordinates
    BY DEF Init
  <2>2. runner \in [Slots -> Runners]
    BY <1>1 DEF Init, Gone, Runners, Nobody
  <2>3. file \in [JobNames -> [writers : SUBSET DOMAIN jobs, by : {Nobody} \cup DOMAIN jobs,
                              text : Texts]]
    BY DEF Init, NoFile, Texts
  <2>4. answer \in [Calls -> [state : {"none", "result", "failed"}, by : {Nobody} \cup DOMAIN jobs,
                             tier : Tiers]]
    BY <1>1 DEF Init
  <2>5. lostIn \subseteq Calls /\ uncleanIn \subseteq Calls /\ rejected \subseteq DOMAIN jobs
    BY DEF Init
  <2> QED
    BY <1>2, <2>1, <2>2, <2>3, <2>4, <2>5 DEF TypeOK, Job
<1>4. (\A n \in JobNames : FileOK(n)) /\ (\A c \in Calls : AnswerOK(c))
  BY DEF Init, FileOK, NoFile, AnswerOK
<1>5. (\A r \in Slots : RunnerOK(r)) /\ AttemptsOK /\ RejectedOK
  BY <1>1 DEF Init, RunnerOK, Gone, AttemptsOK, At, RejectedOK, FailuresAreFresh, Slots
<1> QED
  BY <1>2, <1>3, <1>4, <1>5 DEF Inv, OneOfAName

-----------------------------------------------------------------------------
(***************************************************************************)
(* Each step keeps the invariant.                                          *)
(***************************************************************************)

\* What is left to show of a step of a runner that touches no file: where it
\* goes, and, for the one of the attempt, which Jobs it leaves to nobody.
LEMMA RunnerStepKeeps ==
  ASSUME Inv, NEW r \in Slots, UNCHANGED <<chain, coordinate>>, ~At(r, "gone"),
         JobsStep, \A j \in DOMAIN jobs' : JobOK(j)', OneOfAName',
         \A j \in DOMAIN jobs' \ DOMAIN jobs :
           jobs'[j].call = runner[r].call /\ jobs'[j].tier = runner[r].tier,
         NEW x \in Runners, runner' = [runner EXCEPT ![r] = x],
         \/ x = Gone
         \/ x.call = runner[r].call /\ x.tier = runner[r].tier /\ x.by \in {Nobody, runner[r].by},
         UNCHANGED answer \/ CallFails(runner[r].call),
         UNCHANGED <<call, attempt, file, lostIn, rejected>>, incidents' \in 0..MaxIncidents,
         uncleanIn \subseteq uncleanIn', uncleanIn' \subseteq Calls,
         r = "attempt" => \A j \in DOMAIN jobs' : Watched(j)'
  PROVE  Inv'
<1>1. /\ runner[r] \in Runners /\ RunnerOK(r) /\ chain \in Workflows
      /\ runner[r].call \in Calls /\ runner \in [Slots -> Runners] /\ AttemptsOK
  BY RunnerFacts DEF Inv, TypeOK
<1>2. /\ runner' \in [Slots -> Runners] /\ runner'[r] = x
      /\ \A s \in Slots : s # r => runner'[s] = runner[s]
  BY <1>1
<1>3. ASSUME NEW s \in Slots PROVE RunnerOK(s)'
  <2>1. CASE s # r \/ x # Gone
    BY <1>1, <1>2, <2>1, RunnerStays
  <2>2. CASE s = r /\ x = Gone
    BY <1>1, <1>2, <2>2, GoneIsOK
  <2> QED
    BY <2>1, <2>2
<1>4. AttemptsOK'
  BY <1>1, <1>2 DEF AttemptsOK, At, Gone, Slots
<1>5. /\ answer' \in [Calls -> [state : {"none", "result", "failed"},
                                by : {Nobody} \cup DOMAIN jobs', tier : Tiers]]
      /\ \A c \in Calls : AnswerOK(c)'
  <2>1. answer \in [Calls -> [state : {"none", "result", "failed"},
                              by : {Nobody} \cup DOMAIN jobs', tier : Tiers]]
    BY DEF Inv, TypeOK, JobsStep
  <2>2. \A c \in Calls : answer'[c].state = "result" => answer'[c] = answer[c]
    BY <1>1, <2>1 DEF CallFails
  <2>3. answer' \in [Calls -> [state : {"none", "result", "failed"},
                               by : {Nobody} \cup DOMAIN jobs', tier : Tiers]]
    <3>1. CASE UNCHANGED answer
      BY <2>1, <3>1
    <3>2. CASE CallFails(runner[r].call)
      <4>1. answer[runner[r].call] \in [state : {"none", "result", "failed"},
                                        by : {Nobody} \cup DOMAIN jobs', tier : Tiers]
        BY <1>1, <2>1
      <4>2. [answer[runner[r].call] EXCEPT !.state = "failed"] \in
              [state : {"none", "result", "failed"}, by : {Nobody} \cup DOMAIN jobs', tier : Tiers]
        BY <4>1
      <4> QED
        BY <1>1, <2>1, <3>2, <4>2 DEF CallFails
    <3> QED
      BY <3>1, <3>2
  <2> QED
    BY <2>2, <2>3, AnswersStay
<1>6. RejectedOK' /\ rejected' \subseteq DOMAIN jobs'
  <2>1. rejected \subseteq DOMAIN jobs /\ RejectedOK
    BY DEF Inv, TypeOK
  <2>2. runner'["attempt"].by \in {Nobody, runner["attempt"].by}
    BY <1>1, <1>2 DEF Gone, Slots
  <2>3. Nobody \notin rejected
    BY <2>1 DEF Inv, TypeOK, Nobody
  <2>4. rejected' = rejected /\ rejected' \subseteq DOMAIN jobs'
    BY <2>1 DEF JobsStep
  <2>5. FailuresAreFresh'
    BY <2>1, <2>2, <2>3, <2>4 DEF RejectedOK, FailuresAreFresh
  <2>6. \A j \in rejected : j \in DOMAIN jobs /\ jobs'[j].pod # "pending"
    BY <2>1 DEF RejectedOK, JobsStep
  <2> QED
    BY <2>4, <2>5, <2>6 DEF RejectedOK
<1>7. ASSUME NEW j \in DOMAIN jobs' PROVE Watched(j)'
  <2>1. CASE r = "attempt"
    BY <2>1
  <2>2. CASE r = "late" /\ j \in DOMAIN jobs
    <3>1. runner'["attempt"] = runner["attempt"] /\ Watched(j)
      BY <1>2, <2>2 DEF Slots, Inv
    <3> QED
      BY <2>2, <3>1 DEF Watched, Attended, At, JobsStep
  <2>3. CASE r = "late" /\ j \notin DOMAIN jobs
    BY <1>1, <2>3 DEF Watched, AttemptsOK
  <2> QED
    BY <2>1, <2>2, <2>3 DEF Slots
<1>8. TypeOK'
  BY <1>1, <1>2, <1>5, <1>6, FilesStay DEF Inv, TypeOK, JobsStep, Job
<1> QED
  BY <1>3, <1>4, <1>5, <1>6, <1>7, <1>8, FilesStay DEF Inv

\* Another point of the same call and tier, as RunnerStepKeeps asks for it.
MovesTo(r, where) ==
  \E x \in Runners :
    /\ runner' = [runner EXCEPT ![r] = x] /\ x.pc = where
    /\ x.call = runner[r].call /\ x.tier = runner[r].tier /\ x.by = runner[r].by

\* Going to another point.
LEMMA GotoResult ==
  ASSUME Inv, NEW r \in Slots, NEW where \in {"poll", "status", "read", "deleteJob",
         "removeFiles", "cancelDelete"}, Goto(r, where)
  PROVE  MovesTo(r, where)
<1> DEFINE x == [runner[r] EXCEPT !.pc = where]
<1>1. /\ x \in Runners /\ x.pc = where /\ x.call = runner[r].call /\ x.tier = runner[r].tier
      /\ x.by = runner[r].by
  BY RunnerFacts DEF Runners
<1>2. runner' = [runner EXCEPT ![r] = x]
  BY DEF Goto
<1> QED
  BY <1>1, <1>2 DEF MovesTo

\* Throwing, as RunnerStepKeeps asks for it.
LEMMA ThrowResult ==
  ASSUME Inv, NEW r \in Slots, NEW retryable, Throw(r, retryable)
  PROVE  /\ runner' = [runner EXCEPT ![r] = Gone] /\ Gone \in Runners
         /\ UNCHANGED answer \/ CallFails(runner[r].call)
         /\ UNCHANGED <<call, attempt>>
<1>1. Gone \in Runners
  BY FirstTier DEF Inv, TypeOK, Gone, Runners, Nobody
<1> QED
  BY <1>1 DEF Throw

\* The Job is created or attached to, and the attempt watches it.
LEMMA CreateJobKeeps ==
  ASSUME Inv, NEW r \in Slots, CreateJob(r), UNCHANGED <<chain, coordinate>>
  PROVE  Inv'
<1> DEFINE x == [runner[r] EXCEPT !.pc = "poll", !.expired = FALSE]
<1>1. /\ JobsStep /\ (\A j \in DOMAIN jobs' : JobOK(j)') /\ OneOfAName'
      /\ \A j \in DOMAIN jobs' \ DOMAIN jobs :
           jobs'[j].call = runner[r].call /\ jobs'[j].tier = runner[r].tier
  BY NewJobs DEF CreateJob
<1>2. /\ x \in Runners /\ x.pc = "poll" /\ x.call = runner[r].call /\ x.tier = runner[r].tier
      /\ x.by = runner[r].by
  BY RunnerFacts DEF Runners
<1> HIDE DEF x
<1>3. /\ runner' = [runner EXCEPT ![r] = x] /\ ~At(r, "gone")
      /\ UNCHANGED <<call, attempt, answer, file, incidents, lostIn, uncleanIn, rejected>>
  BY DEF CreateJob, x, told, history, At
<1>4. runner'[r] = x
  BY <1>3 DEF Inv, TypeOK
<1>5. ASSUME r = "attempt", NEW j \in DOMAIN jobs' PROVE Watched(j)'
  <2>1. CASE j \in DOMAIN jobs
    BY <1>1, <1>2, <1>3, <1>4, <1>5, <2>1, StillWatched
  <2>2. CASE j \notin DOMAIN jobs
    BY <1>1, <1>2, <1>4, <1>5, <2>2 DEF Watched, Attended, At
  <2> QED
    BY <2>1, <2>2
<1>6. incidents' \in 0..MaxIncidents /\ uncleanIn' \subseteq Calls
  BY <1>3 DEF Inv, TypeOK
<1> QED
  BY <1>1, <1>2, <1>3, <1>5, <1>6, RunnerStepKeeps

\* An error of the API server, before or after it has created the Job, is an
\* incident of the call.
LEMMA CreateJobFailsKeeps ==
  ASSUME Inv, NEW r \in Slots, CreateJobFails(r), UNCHANGED <<chain, coordinate>>
  PROVE  Inv'
<1>1. /\ JobsStep /\ (\A j \in DOMAIN jobs' : JobOK(j)') /\ OneOfAName'
      /\ \A j \in DOMAIN jobs' \ DOMAIN jobs :
           jobs'[j].call = runner[r].call /\ jobs'[j].tier = runner[r].tier
  BY NewJobs, SameJobs DEF CreateJobFails
<1>2. /\ runner' = [runner EXCEPT ![r] = Gone] /\ Gone \in Runners
      /\ UNCHANGED answer \/ CallFails(runner[r].call)
      /\ UNCHANGED <<call, attempt>>
  BY ThrowResult DEF CreateJobFails
<1>3. /\ ~At(r, "gone") /\ UNCHANGED <<file, lostIn, rejected>>
      /\ incidents' \in 0..MaxIncidents /\ uncleanIn' = uncleanIn \cup {runner[r].call}
  BY DEF CreateJobFails, At, Incident, LeavesJob, Inv, TypeOK
<1>4. uncleanIn' \subseteq Calls
  BY <1>3, RunnerFacts DEF Inv, TypeOK
<1>5. ASSUME r = "attempt", NEW j \in DOMAIN jobs' PROVE Watched(j)'
  BY <1>1, <1>3, <1>5 DEF Inv, Watched, Attended, JobsStep
<1> QED
  BY <1>1, <1>2, <1>3, <1>4, <1>5, RunnerStepKeeps

\* A tick goes on polling, or starts the cleanup of an attempt out of time.
LEMMA TickKeeps ==
  ASSUME Inv, NEW r \in Slots, Tick(r), UNCHANGED <<chain, coordinate>>
  PROVE  Inv'
<1>1. JobsStep /\ (\A j \in DOMAIN jobs' : JobOK(j)') /\ OneOfAName'
  BY SameJobs DEF Tick, cluster
<1>2. MovesTo(r, "status") \/ MovesTo(r, "deleteJob")
  <2>1. CASE ~runner[r].expired
    BY <2>1, GotoResult DEF Tick
  <2>2. CASE runner[r].expired
    <3> DEFINE y == [runner[r] EXCEPT !.pc = "deleteJob", !.err = "retry"]
    <3>1. /\ y \in Runners /\ y.pc = "deleteJob" /\ y.call = runner[r].call
          /\ y.tier = runner[r].tier /\ y.by = runner[r].by
      BY RunnerFacts DEF Runners
    <3>2. runner' = [runner EXCEPT ![r] = y]
      BY <2>2 DEF Tick
    <3> QED
      BY <3>1, <3>2 DEF MovesTo
  <2> QED
    BY <2>1, <2>2
<1> PICK x \in Runners :
      /\ runner' = [runner EXCEPT ![r] = x] /\ x.pc \in {"deleteJob", "status"}
      /\ x.call = runner[r].call /\ x.tier = runner[r].tier /\ x.by = runner[r].by
  BY <1>2 DEF MovesTo
<1>3. /\ ~At(r, "gone")
      /\ UNCHANGED <<call, attempt, answer, jobs, file, incidents, lostIn, uncleanIn, rejected>>
  BY DEF Tick, At, told, cluster, history
<1>4. runner'[r] = x /\ incidents' \in 0..MaxIncidents /\ uncleanIn' \subseteq Calls
  BY <1>2, <1>3 DEF Inv, TypeOK
<1>5. ASSUME r = "attempt", NEW j \in DOMAIN jobs' PROVE Watched(j)'
  BY <1>1, <1>2, <1>3, <1>4, <1>5, StillWatched
<1> QED
  BY <1>1, <1>2, <1>3, <1>4, <1>5, RunnerStepKeeps

\* A heartbeat that throws starts the cleanup of a cancelled attempt.
LEMMA HeartbeatThrowsKeeps ==
  ASSUME Inv, NEW r \in Slots, HeartbeatThrows(r), UNCHANGED <<chain, coordinate>>
  PROVE  Inv'
<1>1. JobsStep /\ (\A j \in DOMAIN jobs' : JobOK(j)') /\ OneOfAName'
  BY SameJobs DEF HeartbeatThrows, cluster
<1>2. PICK x \in Runners :
        /\ runner' = [runner EXCEPT ![r] = x] /\ x.pc = "cancelDelete"
        /\ x.call = runner[r].call /\ x.tier = runner[r].tier /\ x.by = runner[r].by
  BY GotoResult DEF HeartbeatThrows, MovesTo
<1>3. /\ ~At(r, "gone") /\ incidents' \in 0..MaxIncidents
      /\ UNCHANGED <<call, attempt, answer, jobs, file, lostIn, uncleanIn, rejected>>
  BY DEF HeartbeatThrows, At, told, cluster, history, Inv, TypeOK, Incident
<1>4. runner'[r] = x /\ uncleanIn' \subseteq Calls
  BY <1>2, <1>3 DEF Inv, TypeOK
<1>5. ASSUME r = "attempt", NEW j \in DOMAIN jobs' PROVE Watched(j)'
  BY <1>1, <1>2, <1>3, <1>4, <1>5, StillWatched
<1> QED
  BY <1>1, <1>2, <1>3, <1>4, <1>5, RunnerStepKeeps

\* A status that is late is asked for again.
LEMMA StatusPollTimesOutKeeps ==
  ASSUME Inv, NEW r \in Slots, StatusPollTimesOut(r), UNCHANGED <<chain, coordinate>>
  PROVE  Inv'
<1>1. JobsStep /\ (\A j \in DOMAIN jobs' : JobOK(j)') /\ OneOfAName'
  BY SameJobs DEF StatusPollTimesOut, cluster
<1>2. PICK x \in Runners :
        /\ runner' = [runner EXCEPT ![r] = x] /\ x.pc = "poll"
        /\ x.call = runner[r].call /\ x.tier = runner[r].tier /\ x.by = runner[r].by
  BY GotoResult DEF StatusPollTimesOut, MovesTo
<1>3. /\ ~At(r, "gone") /\ incidents' \in 0..MaxIncidents
      /\ UNCHANGED <<call, attempt, answer, jobs, file, lostIn, uncleanIn, rejected>>
  BY DEF StatusPollTimesOut, At, told, cluster, history, Inv, TypeOK
<1>4. runner'[r] = x /\ uncleanIn' \subseteq Calls
  BY <1>2, <1>3 DEF Inv, TypeOK
<1>5. ASSUME r = "attempt", NEW j \in DOMAIN jobs' PROVE Watched(j)'
  BY <1>1, <1>2, <1>3, <1>4, <1>5, StillWatched
<1> QED
  BY <1>1, <1>2, <1>3, <1>4, <1>5, RunnerStepKeeps

\* The time of an attempt runs out while it watches.
LEMMA TimeRunsOutKeeps ==
  ASSUME Inv, NEW r \in Slots, TimeRunsOut(r), UNCHANGED <<chain, coordinate>>
  PROVE  Inv'
<1>1. JobsStep /\ (\A j \in DOMAIN jobs' : JobOK(j)') /\ OneOfAName'
  BY SameJobs DEF TimeRunsOut, cluster
<1>2. PICK x \in Runners :
        /\ runner' = [runner EXCEPT ![r] = x] /\ x.pc \in {"poll", "status"}
        /\ x.call = runner[r].call /\ x.tier = runner[r].tier /\ x.by = runner[r].by
  <2> DEFINE y == [runner[r] EXCEPT !.expired = TRUE]
  <2>1. /\ y \in Runners /\ y.pc \in {"poll", "status"} /\ y.call = runner[r].call
        /\ y.tier = runner[r].tier /\ y.by = runner[r].by
    BY RunnerFacts DEF TimeRunsOut, Runners
  <2>2. runner' = [runner EXCEPT ![r] = y]
    BY DEF TimeRunsOut
  <2> QED
    BY <2>1, <2>2
<1>3. /\ ~At(r, "gone") /\ incidents' \in 0..MaxIncidents
      /\ UNCHANGED <<call, attempt, answer, jobs, file, lostIn, uncleanIn, rejected>>
  BY DEF TimeRunsOut, At, told, cluster, history, Inv, TypeOK
<1>4. runner'[r] = x /\ uncleanIn' \subseteq Calls
  BY <1>2, <1>3 DEF Inv, TypeOK
<1>5. ASSUME r = "attempt", NEW j \in DOMAIN jobs' PROVE Watched(j)'
  BY <1>1, <1>2, <1>3, <1>4, <1>5, StillWatched
<1> QED
  BY <1>1, <1>2, <1>3, <1>4, <1>5, RunnerStepKeeps

\* A status names a Job of the runner, of which there is one: if it has ended,
\* the runner leaves no other pod of its name alone.
LEMMA ReadStatusKeeps ==
  ASSUME Inv, NEW r \in Slots, ReadStatus(r), UNCHANGED <<chain, coordinate>>
  PROVE  Inv'
<1>1. JobsStep /\ (\A j \in DOMAIN jobs' : JobOK(j)') /\ OneOfAName'
  BY SameJobs DEF ReadStatus, cluster
<1>2. PICK i \in Registered(Name(r)) :
        Goto(r, IF jobs[i].pod = "ended" THEN "read" ELSE "poll")
  BY DEF ReadStatus
<1>3. PICK x \in Runners :
        /\ runner' = [runner EXCEPT ![r] = x]
        /\ x.pc = (IF jobs[i].pod = "ended" THEN "read" ELSE "poll")
        /\ x.call = runner[r].call /\ x.tier = runner[r].tier /\ x.by = runner[r].by
  BY <1>2, GotoResult DEF MovesTo
<1>4. /\ ~At(r, "gone")
      /\ UNCHANGED <<call, attempt, answer, jobs, file, incidents, lostIn, uncleanIn, rejected>>
  BY DEF ReadStatus, At, told, cluster, history
<1>5. runner'[r] = x /\ incidents' \in 0..MaxIncidents /\ uncleanIn' \subseteq Calls
  BY <1>3, <1>4 DEF Inv, TypeOK
<1>6. ASSUME r = "attempt", NEW j \in DOMAIN jobs' PROVE Watched(j)'
  <2>1. CASE jobs[i].pod # "ended"
    BY <1>1, <1>3, <1>4, <1>5, <1>6, <2>1, StillWatched
  <2>2. CASE jobs[i].pod = "ended" /\ jobs[j].registered /\ jobs[j].pod # "ended"
    <3>1. Watched(j) /\ JobOK(j)
      BY <1>4 DEF Inv
    <3>2. CASE Attended(j)
      <4>1. jobs[j].name = Name(r)
        BY <1>6, <3>1, <3>2 DEF JobOK, Attended, Name
      <4>2. j = i
        BY <1>2, <1>4, <2>2, <4>1 DEF Registered, Inv, OneOfAName
      <4> QED
        BY <2>2, <4>2
    <3>3. CASE jobs[j].call \in lostIn \cup uncleanIn
      BY <1>1, <1>4, <3>3, StillWatched
    <3> QED
      BY <2>2, <3>1, <3>2, <3>3 DEF Watched
  <2>3. CASE ~jobs[j].registered \/ jobs[j].pod = "ended"
    BY <1>4, <2>3 DEF Watched
  <2> QED
    BY <2>1, <2>2, <2>3
<1> QED
  BY <1>1, <1>3, <1>4, <1>5, <1>6, RunnerStepKeeps

\* A status that cannot be read leaves the Job to nobody: an incident, also
\* where the Job has gone.
LEMMA ReadStatusFailsKeeps ==
  ASSUME Inv, NEW r \in Slots, ReadStatusFails(r), UNCHANGED <<chain, coordinate>>
  PROVE  Inv'
<1>1. (\E gone : jobs' = Unregister(gone)) \/ UNCHANGED jobs
  BY DEF ReadStatusFails
<1>2. /\ JobsStep /\ (\A j \in DOMAIN jobs' : JobOK(j)') /\ OneOfAName'
      /\ DOMAIN jobs' = DOMAIN jobs
  BY <1>1, FewerJobs, SameJobs
<1>3. /\ runner' = [runner EXCEPT ![r] = Gone] /\ Gone \in Runners
      /\ UNCHANGED answer \/ CallFails(runner[r].call)
      /\ UNCHANGED <<call, attempt>>
  BY ThrowResult DEF ReadStatusFails
<1>4. /\ ~At(r, "gone") /\ UNCHANGED <<file, lostIn, rejected>>
      /\ incidents' \in 0..MaxIncidents /\ uncleanIn' = uncleanIn \cup {runner[r].call}
  BY DEF ReadStatusFails, At, Incident, LeavesJob, Inv, TypeOK
<1>5. uncleanIn' \subseteq Calls
  BY <1>4, RunnerFacts DEF Inv, TypeOK
<1>6. ASSUME r = "attempt", NEW j \in DOMAIN jobs' PROVE Watched(j)'
  BY <1>2, <1>4, <1>6 DEF Inv, Watched, Attended, JobsStep
<1> QED
  BY <1>2, <1>3, <1>4, <1>5, <1>6, RunnerStepKeeps

\* The cleanup of a failed attempt deletes the Job it watched, or leaves it by
\* an incident; the next point looks at no Job any more.
LEMMA DeleteJobKeeps ==
  ASSUME Inv, NEW r \in Slots, DeleteJob(r), UNCHANGED <<chain, coordinate>>
  PROVE  Inv'
<1>1. \/ jobs' = Unregister(Registered(Name(r))) /\ UNCHANGED <<incidents, uncleanIn>>
      \/ Incident /\ LeavesJob(r) /\ UNCHANGED jobs
  BY DEF DeleteJob, deleteNamespacedJob
<1>2. /\ JobsStep /\ (\A j \in DOMAIN jobs' : JobOK(j)') /\ OneOfAName'
      /\ DOMAIN jobs' = DOMAIN jobs
  BY <1>1, FewerJobs, SameJobs
<1>3. PICK x \in Runners :
        /\ runner' = [runner EXCEPT ![r] = x]
        /\ x.call = runner[r].call /\ x.tier = runner[r].tier /\ x.by = runner[r].by
  BY GotoResult DEF DeleteJob, MovesTo
<1>4. /\ ~At(r, "gone") /\ UNCHANGED <<call, attempt, answer, file, lostIn, rejected>>
  BY DEF DeleteJob, At, told
<1>5. /\ incidents' \in 0..MaxIncidents /\ uncleanIn \subseteq uncleanIn' /\ uncleanIn' \subseteq Calls
  <2>1. /\ incidents \in 0..MaxIncidents /\ uncleanIn \subseteq Calls
        /\ runner[r].call \in Calls
    BY RunnerFacts DEF Inv, TypeOK
  <2>2. /\ uncleanIn' = uncleanIn \/ uncleanIn' = uncleanIn \cup {runner[r].call}
        /\ incidents' = incidents \/ Incident
    BY <1>1 DEF LeavesJob
  <2> QED
    BY <2>1, <2>2 DEF Incident
<1>6. ASSUME r = "attempt", NEW j \in DOMAIN jobs' PROVE Watched(j)'
  <2>1. Watched(j) /\ JobOK(j) /\ j \in DOMAIN jobs
    BY <1>2 DEF Inv
  <2>2. CASE Attended(j) /\ jobs'[j].registered
    <3>1. j \in Registered(Name(r))
      BY <1>2, <1>6, <2>1, <2>2 DEF JobOK, Attended, Name, Registered, JobsStep
    <3>2. LeavesJob(r)
      BY <1>1, <2>1, <2>2, <3>1, FewerJobs
    <3> QED
      BY <1>2, <1>6, <2>1, <2>2, <3>2 DEF Watched, Attended, LeavesJob, JobsStep
  <2>3. CASE ~Attended(j) \/ ~jobs'[j].registered
    BY <1>2, <1>4, <1>5, <2>1, <2>3 DEF Watched, JobsStep
  <2> QED
    BY <2>2, <2>3
<1> QED
  BY <1>2, <1>3, <1>4, <1>5, <1>6, RunnerStepKeeps

\* So does the cleanup of a cancelled one, which throws at once.
LEMMA CancelDeleteKeeps ==
  ASSUME Inv, NEW r \in Slots, CancelDelete(r), UNCHANGED <<chain, coordinate>>
  PROVE  Inv'
<1>1. \/ jobs' = Unregister(Registered(Name(r))) /\ UNCHANGED <<incidents, uncleanIn>>
      \/ Incident /\ LeavesJob(r) /\ UNCHANGED jobs
  BY DEF CancelDelete, deleteNamespacedJob
<1>2. /\ JobsStep /\ (\A j \in DOMAIN jobs' : JobOK(j)') /\ OneOfAName'
      /\ DOMAIN jobs' = DOMAIN jobs
  BY <1>1, FewerJobs, SameJobs
<1>3. /\ runner' = [runner EXCEPT ![r] = Gone] /\ Gone \in Runners
      /\ UNCHANGED answer \/ CallFails(runner[r].call)
      /\ UNCHANGED <<call, attempt>>
  BY ThrowResult DEF CancelDelete
<1>4. /\ ~At(r, "gone") /\ UNCHANGED <<file, lostIn, rejected>>
  BY DEF CancelDelete, At
<1>5. /\ incidents' \in 0..MaxIncidents /\ uncleanIn \subseteq uncleanIn' /\ uncleanIn' \subseteq Calls
  <2>1. /\ incidents \in 0..MaxIncidents /\ uncleanIn \subseteq Calls
        /\ runner[r].call \in Calls
    BY RunnerFacts DEF Inv, TypeOK
  <2>2. /\ uncleanIn' = uncleanIn \/ uncleanIn' = uncleanIn \cup {runner[r].call}
        /\ incidents' = incidents \/ Incident
    BY <1>1 DEF LeavesJob
  <2> QED
    BY <2>1, <2>2 DEF Incident
<1>6. ASSUME r = "attempt", NEW j \in DOMAIN jobs' PROVE Watched(j)'
  <2>1. Watched(j) /\ JobOK(j) /\ j \in DOMAIN jobs
    BY <1>2 DEF Inv
  <2>2. CASE Attended(j) /\ jobs'[j].registered
    <3>1. j \in Registered(Name(r))
      BY <1>2, <1>6, <2>1, <2>2 DEF JobOK, Attended, Name, Registered, JobsStep
    <3>2. LeavesJob(r)
      BY <1>1, <2>1, <2>2, <3>1, FewerJobs
    <3> QED
      BY <1>2, <1>6, <2>1, <2>2, <3>2 DEF Watched, Attended, LeavesJob, JobsStep
  <2>3. CASE ~Attended(j) \/ ~jobs'[j].registered
    BY <1>2, <1>4, <1>5, <2>1, <2>3 DEF Watched, JobsStep
  <2> QED
    BY <2>2, <2>3
<1> QED
  BY <1>2, <1>3, <1>4, <1>5, <1>6, RunnerStepKeeps

\* A step of no pod and no file leaves to show where the runners are and what
\* was told: the rest of the invariant is about Jobs and files.
LEMMA ActivityStepKeeps ==
  ASSUME Inv, UNCHANGED <<chain, coordinate, jobs, file, rejected, uncleanIn>>,
         runner' \in [Slots -> Runners], \A r \in Slots : RunnerOK(r)', AttemptsOK',
         call' \in 1..(NCalls + 1), attempt' \in 0..MaxAttempts, incidents' \in 0..MaxIncidents,
         answer' \in [Calls -> [state : {"none", "result", "failed"}, by : {Nobody} \cup DOMAIN jobs,
                                tier : Tiers]],
         \A c \in Calls : AnswerOK(c)', lostIn' \subseteq Calls, FailuresAreFresh',
         \A j \in DOMAIN jobs : Watched(j)'
  PROVE  Inv'
<1>1. JobsStep /\ (\A j \in DOMAIN jobs' : JobOK(j)') /\ OneOfAName'
  BY SameJobs
<1>2. TypeOK'
  BY DEF Inv, TypeOK
<1>3. RejectedOK'
  BY DEF Inv, RejectedOK
<1> QED
  BY <1>1, <1>2, <1>3, FilesStay DEF Inv

\* Before an attempt starts nobody watches a Job, but for those of incidents.
LEMMA StartAttemptKeeps ==
  ASSUME Inv, StartAttempt, UNCHANGED <<chain, coordinate>>
  PROVE  Inv'
<1> DEFINE x == [Gone EXCEPT !.pc = "create", !.call = call]
<1>1. /\ chain \in Workflows /\ call \in 1..(NCalls + 1) /\ call <= Len(chain)
      /\ Len(chain) \in Calls /\ runner \in [Slots -> Runners]
  BY DEF Inv, TypeOK, StartAttempt, Ended
<1>2. call \in 1..Len(chain)
  BY <1>1 DEF Calls
<1>3. call \in Calls /\ 1 \in 1..chain[call] /\ 1 \in Tiers
  BY <1>1, <1>2, ChainTiers
<1>4. /\ x \in Runners /\ x.pc = "create" /\ x.call = call /\ x.tier = 1 /\ x.by = Nobody
  BY <1>3 DEF Gone, Runners, Nobody
<1> HIDE DEF x
<1>5. /\ runner' = [runner EXCEPT !["attempt"] = x] /\ At("attempt", "gone")
      /\ attempt' \in 0..MaxAttempts
      /\ UNCHANGED <<call, answer, jobs, file, incidents, lostIn, uncleanIn, rejected>>
  BY DEF StartAttempt, x, cluster, history, Inv, TypeOK
<1>6. /\ runner' \in [Slots -> Runners] /\ runner'["attempt"] = x
      /\ runner'["late"] = runner["late"]
  BY <1>1, <1>4, <1>5 DEF Slots
<1>7. ASSUME NEW r \in Slots PROVE RunnerOK(r)'
  <2>1. CASE r = "attempt"
    BY <1>2, <1>3, <1>4, <1>6, <2>1 DEF RunnerOK
  <2>2. CASE r = "late"
    BY <1>5, <1>6, <2>2, SameJobs, RunnerStays
  <2> QED
    BY <2>1, <2>2 DEF Slots
<1>8. AttemptsOK' /\ FailuresAreFresh'
  BY <1>4, <1>5, <1>6 DEF Inv, TypeOK, AttemptsOK, At, FailuresAreFresh, Nobody
<1>9. \A c \in Calls : AnswerOK(c)'
  BY <1>5, SameJobs, AnswersStay
<1>10. \A j \in DOMAIN jobs : Watched(j)'
  BY <1>5 DEF Inv, Watched, Attended
<1>11. /\ call' \in 1..(NCalls + 1) /\ incidents' \in 0..MaxIncidents /\ lostIn' \subseteq Calls
       /\ answer' \in [Calls -> [state : {"none", "result", "failed"},
                                 by : {Nobody} \cup DOMAIN jobs, tier : Tiers]]
  BY <1>5 DEF Inv, TypeOK
<1> QED
  BY <1>5, <1>6, <1>7, <1>8, <1>9, <1>10, <1>11, ActivityStepKeeps

\* An attempt that is lost is an incident of the call it was at, and its code
\* may go on in the other slot.
LEMMA LoseAttemptKeeps ==
  ASSUME Inv, NEW late \in BOOLEAN, LoseAttempt(late), UNCHANGED <<chain, coordinate>>
  PROVE  Inv'
<1>1. /\ runner["attempt"].call = call /\ call \in Calls /\ runner \in [Slots -> Runners]
      /\ chain \in Workflows
  BY RunnerFacts DEF Inv, AttemptsOK, LoseAttempt, Slots, TypeOK
<1>2. /\ UNCHANGED <<call, attempt, jobs, file, uncleanIn, rejected>> /\ lostIn' = lostIn \cup {call}
      /\ incidents' \in 0..MaxIncidents
      /\ runner' = [runner EXCEPT !["attempt"] = Gone,
                                  !["late"] = IF late THEN runner["attempt"] ELSE @]
      /\ UNCHANGED answer \/ CallFails(call)
  BY DEF LoseAttempt, Incident, cluster, Inv, TypeOK
<1>3. Gone \in Runners /\ Gone.pc = "gone" /\ Gone.by = Nobody
  BY <1>1, FirstTier DEF Gone, Runners, Nobody
<1>4. /\ runner' \in [Slots -> Runners] /\ runner'["attempt"] = Gone
      /\ runner'["late"] \in {runner["attempt"], runner["late"]}
  BY <1>1, <1>2, <1>3 DEF Slots
<1>5. RunnerOK("attempt")'
  BY <1>1, <1>4, GoneIsOK DEF Slots
<1>6. RunnerOK("late")'
  BY <1>2, <1>4, RunnerFacts DEF RunnerOK, Name, k8sJobName, Slots
<1>7. AttemptsOK' /\ FailuresAreFresh'
  BY <1>1, <1>2, <1>3, <1>4 DEF Inv, TypeOK, AttemptsOK, At, FailuresAreFresh, Nobody
<1>8. answer' \in [Calls -> [state : {"none", "result", "failed"}, by : {Nobody} \cup DOMAIN jobs,
                             tier : Tiers]]
  <2>1. [answer[call] EXCEPT !.state = "failed"] \in
          [state : {"none", "result", "failed"}, by : {Nobody} \cup DOMAIN jobs, tier : Tiers]
    BY <1>1 DEF Inv, TypeOK
  <2> QED
    BY <1>1, <1>2, <2>1 DEF CallFails, Inv, TypeOK
<1>9. \A c \in Calls : AnswerOK(c)'
  <2>1. \A c \in Calls : answer'[c].state = "result" => answer'[c] = answer[c]
    BY <1>1, <1>2 DEF CallFails, Inv, TypeOK
  <2> QED
    BY <1>2, <2>1, SameJobs, AnswersStay
<1>10. \A j \in DOMAIN jobs : Watched(j)'
  BY <1>1, <1>2 DEF Inv, Watched, Attended
<1>11. call' \in 1..(NCalls + 1) /\ attempt' \in 0..MaxAttempts /\ lostIn' \subseteq Calls
  BY <1>1, <1>2 DEF Inv, TypeOK
<1>12. \A r \in Slots : RunnerOK(r)'
  BY <1>5, <1>6 DEF Slots
<1> QED
  BY <1>2, <1>4, <1>7, <1>8, <1>9, <1>10, <1>11, <1>12, ActivityStepKeeps

\* What a runner reads was written by a Job of its name, and is no output an
\* attempt has failed on: it is the answer of the call, or what this one fails
\* on.  No pod is left alone, as the one it watched has ended.
LEMMA ReadOutputKeeps ==
  ASSUME Inv, NEW r \in Slots, ReadOutput(r), UNCHANGED <<chain, coordinate>>
  PROVE  Inv'
<1> DEFINE out == file[Name(r)]
<1>1. /\ runner[r].pc = "read" /\ runner[r] \in Runners /\ RunnerOK(r) /\ Name(r) \in JobNames
      /\ chain \in Workflows /\ Len(chain) \in Calls
      /\ UNCHANGED <<jobs, file, incidents, lostIn, uncleanIn, rejected>>
  BY RunnerFacts DEF ReadOutput, At, cluster, history
<1>2. /\ out.by \in {Nobody} \cup DOMAIN jobs /\ out.text \in Texts
      /\ out.by # Nobody => /\ jobs[out.by].name = Name(r) /\ jobs[out.by].pod # "pending"
                            /\ out.by \notin rejected
      /\ out.text # "empty" => out.by # Nobody
  BY <1>1, RunnerFacts DEF Inv, TypeOK, FileOK
<1>3. /\ runner \in [Slots -> Runners] /\ AttemptsOK /\ call \in 1..(NCalls + 1)
      /\ attempt \in 0..MaxAttempts /\ Nobody \notin rejected
  BY DEF Inv, TypeOK, Nobody
<1> HIDE DEF out
<1>4. CASE out.text = "result" /\ Return(r)
  <2>1. Gone \in Runners /\ Gone.pc = "gone" /\ Gone.by = Nobody
    BY <1>1, FirstTier DEF Gone, Runners, Nobody
  <2>2. /\ runner' \in [Slots -> Runners] /\ runner'[r] = Gone
        /\ \A s \in Slots : s # r => runner'[s] = runner[s]
    BY <1>3, <1>4, <2>1 DEF Return
  <2>3. ASSUME NEW s \in Slots PROVE RunnerOK(s)'
    <3>1. CASE s = r
      BY <1>1, <2>2, <3>1, GoneIsOK
    <3>2. CASE s # r
      BY <1>1, <2>2, <3>2, SameJobs, RunnerStays
    <3> QED
      BY <3>1, <3>2
  <2>4. r # "attempt" => UNCHANGED <<call, attempt, answer>>
    BY <1>4 DEF Return, told
  <2>5. r = "attempt" =>
          /\ call = runner[r].call /\ call \in Calls /\ call' = call + 1 /\ attempt' = 0
          /\ answer' = [answer EXCEPT ![call] = [state |-> "result", by |-> out.by,
                                                 tier |-> runner[r].tier]]
    BY <1>1, <1>3, <1>4, RunnerFacts DEF Return, AttemptsOK, At, out
  <2>6. call' \in 1..(NCalls + 1) /\ attempt' \in 0..MaxAttempts
    BY <1>3, <2>4, <2>5 DEF Calls
  <2>7. AttemptsOK' /\ FailuresAreFresh'
    BY <1>1, <1>3, <2>1, <2>2, <2>4 DEF AttemptsOK, At, FailuresAreFresh, Slots, Inv, RejectedOK
  <2>8. /\ answer \in [Calls -> [state : {"none", "result", "failed"},
                                 by : {Nobody} \cup DOMAIN jobs, tier : Tiers]]
        /\ runner[r].tier \in Tiers
    BY <1>1 DEF Inv, TypeOK, Runners
  <2>9. answer' \in [Calls -> [state : {"none", "result", "failed"},
                               by : {Nobody} \cup DOMAIN jobs, tier : Tiers]]
    <3>1. CASE r # "attempt"
      BY <2>4, <2>8, <3>1
    <3>2. CASE r = "attempt"
      <4>1. [state |-> "result", by |-> out.by, tier |-> runner[r].tier]
              \in [state : {"none", "result", "failed"}, by : {Nobody} \cup DOMAIN jobs, tier : Tiers]
        BY <1>2, <2>8
      <4> QED
        BY <2>5, <2>8, <3>2, <4>1
    <3> QED
      BY <3>1, <3>2
  <2>10. ASSUME NEW c \in Calls PROVE AnswerOK(c)'
    <3>1. CASE r = "attempt" /\ c = call
      <4>1. /\ answer'[c].by = out.by /\ answer'[c].tier = runner[r].tier
            /\ k8sJobName(c, runner[r].tier) = Name(r)
        BY <2>5, <2>8, <3>1 DEF Name
      <4> QED
        BY <1>1, <1>2, <1>4, <4>1 DEF AnswerOK, k8sJobName
    <3>2. CASE ~(r = "attempt" /\ c = call)
      <4>1. answer'[c] = answer[c]
        BY <2>4, <2>5, <2>8, <3>2
      <4> QED
        BY <1>1, <4>1, SameJobs, AnswersStay
    <3> QED
      BY <3>1, <3>2
  <2>11. ASSUME NEW j \in DOMAIN jobs PROVE Watched(j)'
    <3>1. Watched(j)
      BY DEF Inv
    <3> QED
      BY <1>1, <2>2, <3>1 DEF Watched, Attended, At, Slots
  <2>12. lostIn' \subseteq Calls /\ incidents' \in 0..MaxIncidents
    BY <1>1 DEF Inv, TypeOK
  <2> QED
    BY <1>1, <2>2, <2>3, <2>6, <2>7, <2>9, <2>10, <2>11, <2>12, ActivityStepKeeps
<1>5. CASE /\ runner' = [runner EXCEPT ![r].pc = "deleteJob", ![r].err = ErrorOf(out.text),
                                       ![r].by = out.by]
           /\ UNCHANGED told
  <2> DEFINE x == [runner[r] EXCEPT !.pc = "deleteJob", !.err = ErrorOf(out.text), !.by = out.by]
  <2>1. /\ x \in Runners /\ x.pc = "deleteJob" /\ x.call = runner[r].call
        /\ x.tier = runner[r].tier /\ x.by = out.by
    <3>1. out.by \in Nat /\ ErrorOf(out.text) \in {"retry", "limit", "auth"}
      BY <1>2 DEF Inv, TypeOK, Nobody, ErrorOf
    <3> QED
      BY <1>1, <3>1 DEF Runners
  <2> HIDE DEF x
  <2>2. runner' = [runner EXCEPT ![r] = x] /\ UNCHANGED <<call, attempt, answer>>
    BY <1>5 DEF x, told
  <2>3. /\ runner' \in [Slots -> Runners] /\ runner'[r] = x
        /\ \A s \in Slots : s # r => runner'[s] = runner[s]
    BY <1>3, <2>1, <2>2
  <2>4. ASSUME NEW s \in Slots PROVE RunnerOK(s)'
    <3>1. CASE s = r
      BY <1>1, <1>2, <2>1, <2>3, <3>1 DEF RunnerOK, Name, k8sJobName
    <3>2. CASE s # r
      BY <1>1, <2>3, <3>2, SameJobs, RunnerStays
    <3> QED
      BY <3>1, <3>2
  <2>5. AttemptsOK'
    BY <1>1, <1>3, <2>1, <2>2, <2>3 DEF AttemptsOK, At, Slots
  <2>6. FailuresAreFresh'
    BY <1>1, <1>2, <1>3, <2>1, <2>3 DEF FailuresAreFresh, Slots, Inv, RejectedOK
  <2>7. \A c \in Calls : AnswerOK(c)'
    BY <1>1, <2>2, SameJobs, AnswersStay
  <2>8. ASSUME NEW j \in DOMAIN jobs PROVE Watched(j)'
    <3>1. Watched(j)
      BY DEF Inv
    <3>2. CASE r = "attempt"
      BY <1>1, <2>1, <2>3, <3>1, <3>2 DEF Watched, Attended, At
    <3>3. CASE r = "late"
      BY <1>1, <2>3, <3>1, <3>3 DEF Watched, Attended, At, Slots
    <3> QED
      BY <3>2, <3>3 DEF Slots
  <2>9. /\ call' \in 1..(NCalls + 1) /\ attempt' \in 0..MaxAttempts
        /\ lostIn' \subseteq Calls /\ incidents' \in 0..MaxIncidents
        /\ answer' \in [Calls -> [state : {"none", "result", "failed"},
                                  by : {Nobody} \cup DOMAIN jobs, tier : Tiers]]
    BY <1>1, <2>2 DEF Inv, TypeOK
  <2> QED
    BY <1>1, <2>3, <2>4, <2>5, <2>6, <2>7, <2>8, <2>9, ActivityStepKeeps
<1> QED
  BY <1>4, <1>5 DEF ReadOutput, out

\* What the invariant says of one Job.
LEMMA JobFacts ==
  ASSUME Inv, NEW j \in DOMAIN jobs
  PROVE  /\ jobs[j] \in Job /\ jobs[j].name \in JobNames /\ jobs[j].call \in Calls
         /\ j \in Nat \ {0}
<1>1. jobs \in Seq(Job)
  BY DEF Inv, TypeOK, Job
<1>2. jobs[j] \in Job /\ j \in Nat \ {0}
  BY <1>1
<1> QED
  BY <1>2 DEF Job

\* The output an attempt has failed on leaves its file before the attempt is
\* over, and no pod that could write it again has that file open.
LEMMA RemoveFilesKeeps ==
  ASSUME Inv, NEW r \in Slots, RemoveFiles(r), UNCHANGED <<chain, coordinate>>
  PROVE  Inv'
<1>1. /\ runner[r].pc = "removeFiles" /\ runner[r] \in Runners /\ RunnerOK(r)
      /\ Name(r) \in JobNames /\ chain \in Workflows /\ runner[r].call \in Calls
      /\ UNCHANGED <<jobs, lostIn, uncleanIn>> /\ incidents' \in 0..MaxIncidents
  BY RunnerFacts DEF RemoveFiles, At, Incident, Inv, TypeOK
<1>2. /\ \/ /\ file' = [file EXCEPT ![Name(r)] = NoFile]
            /\ rejected' = IF r = "attempt" THEN rejected \cup ({runner[r].by} \ {Nobody})
                          ELSE rejected
         \/ UNCHANGED <<file, rejected>>
      /\ Nobody \notin rejected /\ rejected \subseteq DOMAIN jobs
  BY DEF RemoveFiles, CleanFiles, Reject, Inv, TypeOK, Nobody
<1>3. JobsStep /\ (\A j \in DOMAIN jobs' : JobOK(j)') /\ OneOfAName'
  BY <1>1, SameJobs
<1>4. PICK x \in Runners :
        /\ runner' = [runner EXCEPT ![r] = x] /\ x.by = Nobody /\ x.pc \in {"gone", "create"}
        /\ x = Gone \/ (/\ x.pc = "create" /\ x.call = runner[r].call
                        /\ x.tier \in 1..chain[runner[r].call])
  <2>1. Gone \in Runners /\ Gone.pc = "gone" /\ Gone.by = Nobody
    BY <1>1, FirstTier DEF Gone, Runners, Nobody
  <2>2. CASE runner' = [runner EXCEPT ![r] = Gone]
    BY <2>1, <2>2
  <2>3. CASE HasFallback(r) /\ FallBack(r)
    <3> DEFINE y == [Gone EXCEPT !.pc = "create", !.call = runner[r].call,
                                 !.tier = runner[r].tier + 1]
    <3>1. runner[r].tier + 1 \in 1..chain[runner[r].call] /\ runner[r].tier + 1 \in Tiers
      BY <2>3, RunnerFacts DEF HasFallback, RunnerOK
    <3>2. /\ y \in Runners /\ y.pc = "create" /\ y.call = runner[r].call
          /\ y.tier = runner[r].tier + 1 /\ y.by = Nobody
      BY <1>1, <3>1 DEF Gone, Runners, Nobody
    <3>3. runner' = [runner EXCEPT ![r] = y]
      BY <2>3 DEF FallBack
    <3> QED
      BY <3>1, <3>2, <3>3
  <2> QED
    BY <2>2, <2>3 DEF RemoveFiles, Throw
<1>5. /\ runner' \in [Slots -> Runners] /\ runner'[r] = x
      /\ \A s \in Slots : s # r => runner'[s] = runner[s]
  BY <1>4 DEF Inv, TypeOK
<1>6. /\ UNCHANGED <<call, attempt>>
      /\ UNCHANGED answer \/ CallFails(runner[r].call)
  BY DEF RemoveFiles, Throw, told
<1>7. ASSUME NEW n \in JobNames PROVE FileOK(n)'
  <2>0. CASE UNCHANGED <<file, rejected>>
    BY <1>1, <2>0 DEF FileOK, Inv
  <2> SUFFICES ASSUME ~UNCHANGED <<file, rejected>> PROVE FileOK(n)'
    BY <2>0
  <2>1. CASE n = Name(r)
    <3>1. file'[n] = NoFile
      BY <1>1, <1>2, <2>1 DEF Inv, TypeOK
    <3> QED
      BY <3>1 DEF FileOK, NoFile
  <2>2. CASE n # Name(r)
    <3>1. file'[n] = file[n] /\ FileOK(n) /\ file[n].writers \subseteq DOMAIN jobs
      BY <1>1, <1>2, <2>2 DEF Inv, TypeOK
    <3>2. runner[r].by # Nobody => jobs[runner[r].by].name # n
      BY <1>1, <2>2 DEF RunnerOK
    <3> QED
      BY <1>1, <1>2, <3>1, <3>2 DEF FileOK
  <2> QED
    BY <2>1, <2>2
<1>8. ASSUME NEW s \in Slots PROVE RunnerOK(s)'
  <2>1. CASE s # r
    BY <1>3, <1>5, <2>1, RunnerStays
  <2>2. CASE s = r /\ x = Gone
    BY <1>1, <1>5, <2>2, GoneIsOK
  <2>3. CASE s = r /\ x # Gone
    BY <1>1, <1>4, <1>5, <2>3 DEF RunnerOK
  <2> QED
    BY <2>1, <2>2, <2>3
<1>9. AttemptsOK'
  <2>1. AttemptsOK /\ Gone.pc = "gone"
    BY DEF Inv, Gone
  <2>2. CASE r = "attempt"
    BY <1>1, <1>4, <1>5, <1>6, <2>1, <2>2 DEF AttemptsOK, At, Slots
  <2>3. CASE r = "late"
    BY <1>1, <1>4, <1>5, <1>6, <2>1, <2>3 DEF AttemptsOK, At, Slots
  <2> QED
    BY <2>2, <2>3 DEF Slots
<1>10. RejectedOK' /\ rejected' \subseteq DOMAIN jobs
  <2>1. rejected' \subseteq DOMAIN jobs /\ \A j \in rejected' : jobs[j].pod # "pending"
    BY <1>1, <1>2 DEF RunnerOK, Inv, RejectedOK
  <2>2. CASE r = "attempt"
    BY <1>1, <1>2, <1>4, <1>5, <2>1, <2>2 DEF RejectedOK, FailuresAreFresh, Nobody, RunnerOK
  <2>3. CASE r = "late"
    BY <1>1, <1>2, <1>5, <2>1, <2>3 DEF RejectedOK, FailuresAreFresh, Slots, Inv
  <2> QED
    BY <2>1, <2>2, <2>3 DEF Slots
<1>11. answer' \in [Calls -> [state : {"none", "result", "failed"}, by : {Nobody} \cup DOMAIN jobs,
                             tier : Tiers]]
  <2>1. [answer[runner[r].call] EXCEPT !.state = "failed"] \in
          [state : {"none", "result", "failed"}, by : {Nobody} \cup DOMAIN jobs, tier : Tiers]
    BY <1>1 DEF Inv, TypeOK
  <2> QED
    BY <1>1, <1>6, <2>1 DEF CallFails, Inv, TypeOK
<1>12. \A c \in Calls : AnswerOK(c)'
  <2>1. \A c \in Calls : answer'[c].state = "result" => answer'[c] = answer[c]
    BY <1>1, <1>6 DEF CallFails, Inv, TypeOK
  <2> QED
    BY <1>3, <2>1, AnswersStay
<1>13. ASSUME NEW j \in DOMAIN jobs PROVE Watched(j)'
  <2>1. Watched(j)
    BY DEF Inv
  <2> QED
    BY <1>1, <1>5, <2>1 DEF Watched, Attended, At, Slots
<1>14. file' \in [JobNames -> [writers : SUBSET DOMAIN jobs, by : {Nobody} \cup DOMAIN jobs,
                              text : Texts]]
  <2>1. NoFile \in [writers : SUBSET DOMAIN jobs, by : {Nobody} \cup DOMAIN jobs, text : Texts]
    BY DEF NoFile, Texts
  <2>2. file \in [JobNames -> [writers : SUBSET DOMAIN jobs, by : {Nobody} \cup DOMAIN jobs,
                              text : Texts]]
    BY DEF Inv, TypeOK
  <2> QED
    BY <1>2, <2>1, <2>2
<1>15. TypeOK'
  <2>1. /\ jobs' \in Seq([name : JobNames, call : Calls, tier : Tiers, registered : BOOLEAN,
                         pod : {"pending", "running", "ended"}])
        /\ DOMAIN jobs' = DOMAIN jobs
    BY <1>1 DEF Inv, TypeOK
  <2>2. call' \in 1..(NCalls + 1) /\ attempt' \in 0..MaxAttempts
    BY <1>6 DEF Inv, TypeOK
  <2>3. /\ incidents' \in 0..MaxIncidents /\ lostIn' \subseteq Calls /\ uncleanIn' \subseteq Calls
        /\ chain' \in Workflows /\ coordinate' \in Coordinates
    BY <1>1 DEF Inv, TypeOK
  <2> QED
    BY <1>1, <1>5, <1>10, <1>11, <1>14, <2>1, <2>2, <2>3 DEF TypeOK
<1> QED
  BY <1>1, <1>3, <1>7, <1>8, <1>9, <1>10, <1>12, <1>13, <1>15 DEF Inv

\* A step of a pod is left to show what it does to its file.
LEMMA PodStepKeeps ==
  ASSUME Inv, NEW j \in DOMAIN jobs, NEW where \in {"running", "ended"},
         jobs[j].pod # "ended", SetPod(j, where),
         UNCHANGED <<chain, coordinate, told, runner, incidents, history>>,
         \/ UNCHANGED file
         \/ \E writers \in SUBSET DOMAIN jobs, text \in Texts :
              /\ file' = [file EXCEPT ![jobs[j].name] = [writers |-> writers, by |-> j, text |-> text]]
              /\ writers \subseteq file[jobs[j].name].writers \cup {j} /\ j \notin rejected
  PROVE  Inv'
<1> DEFINE n == jobs[j].name
<1>1. /\ JobsStep /\ (\A i \in DOMAIN jobs' : JobOK(i)') /\ OneOfAName'
      /\ DOMAIN jobs' = DOMAIN jobs /\ jobs'[j].pod = where
  BY PodsJobs
<1>2. UNCHANGED <<call, attempt, answer, lostIn, uncleanIn, rejected>>
  BY DEF told, history
<1>3. /\ file' \in [JobNames -> [writers : SUBSET DOMAIN jobs', by : {Nobody} \cup DOMAIN jobs',
                                text : Texts]]
      /\ \A m \in JobNames : FileOK(m)'
  <2>1. CASE UNCHANGED file
    BY <1>1, <1>2, <2>1, FilesStay
  <2>2. CASE file' # file
    <3>1. PICK writers \in SUBSET DOMAIN jobs, text \in Texts :
            /\ file' = [file EXCEPT ![n] = [writers |-> writers, by |-> j, text |-> text]]
            /\ writers \subseteq file[n].writers \cup {j} /\ j \notin rejected
      BY <2>2
    <3>2. /\ n \in JobNames /\ file \in [JobNames -> [writers : SUBSET DOMAIN jobs,
               by : {Nobody} \cup DOMAIN jobs, text : Texts]]
          /\ jobs'[j].name = n
      BY <1>1, JobFacts DEF Inv, TypeOK, JobsStep
    <3>3. [writers |-> writers, by |-> j, text |-> text] \in
            [writers : SUBSET DOMAIN jobs, by : {Nobody} \cup DOMAIN jobs, text : Texts]
      OBVIOUS
    <3>4. file' \in [JobNames -> [writers : SUBSET DOMAIN jobs', by : {Nobody} \cup DOMAIN jobs',
                                 text : Texts]]
      BY <1>1, <3>1, <3>2, <3>3
    <3>5. ASSUME NEW m \in JobNames PROVE FileOK(m)'
      <4>1. FileOK(m) /\ file[m].writers \subseteq DOMAIN jobs /\ file[m].by \in {Nobody} \cup DOMAIN jobs
        BY <3>2 DEF Inv
      <4>2. CASE m # n
        <5>1. file'[m] = file[m]
          BY <3>1, <3>2, <4>2
        <5>2. ASSUME NEW i \in file[m].writers \cup ({file[m].by} \ {Nobody})
              PROVE  jobs'[i].name = m /\ jobs'[i].pod # "pending" /\ i \notin rejected'
          BY <1>1, <1>2, <4>1, <5>2 DEF FileOK, JobsStep
        <5> QED
          BY <4>1, <5>1, <5>2 DEF FileOK
      <4>3. CASE m = n
        <5>1. file'[m].writers = writers /\ file'[m].by = j /\ file'[m].text = text
          BY <3>1, <3>2, <4>3
        <5>2. ASSUME NEW i \in file'[m].writers \cup ({file'[m].by} \ {Nobody})
              PROVE  jobs'[i].name = m /\ jobs'[i].pod # "pending" /\ i \notin rejected'
          <6>1. CASE i = j
            BY <1>1, <1>2, <3>1, <3>2, <4>3, <6>1
          <6>2. CASE i # j
            <7>1. i \in file[m].writers /\ i \in DOMAIN jobs
              BY <3>1, <4>1, <4>3, <5>1, <5>2, <6>2
            <7>2. jobs[i].name = m /\ jobs[i].pod # "pending" /\ i \notin rejected
              BY <4>1, <7>1 DEF FileOK
            <7> QED
              BY <1>1, <1>2, <7>1, <7>2 DEF JobsStep
          <6> QED
            BY <6>1, <6>2
        <5>3. j # Nobody
          BY DEF Inv, TypeOK, Nobody
        <5> QED
          BY <5>1, <5>2, <5>3 DEF FileOK
      <4> QED
        BY <4>2, <4>3
    <3> QED
      BY <3>4, <3>5
  <2> QED
    BY <2>1, <2>2
<1>4. \A r \in Slots : RunnerOK(r)'
  BY <1>1, RunnerStays
<1>5. AttemptsOK' /\ \A c \in Calls : AnswerOK(c)'
  BY <1>1, <1>2, AnswersStay DEF Inv, AttemptsOK, At
<1>6. RejectedOK'
  BY <1>1, <1>2 DEF Inv, TypeOK, RejectedOK, FailuresAreFresh, JobsStep
<1>7. ASSUME NEW i \in DOMAIN jobs PROVE Watched(i)'
  <2>1. Watched(i)
    BY DEF Inv
  <2> QED
    BY <1>1, <1>2, <2>1 DEF Watched, Attended, At, JobsStep
<1>8. answer' \in [Calls -> [state : {"none", "result", "failed"}, by : {Nobody} \cup DOMAIN jobs',
                            tier : Tiers]]
  BY <1>1, <1>2 DEF Inv, TypeOK
<1>9. TypeOK'
  BY <1>1, <1>2, <1>3, <1>8 DEF Inv, TypeOK, JobsStep, Job
<1> QED
  BY <1>1, <1>3, <1>4, <1>5, <1>6, <1>7, <1>9 DEF Inv

\* A pod that starts had not been read, and so not been rejected.
LEMMA PodStartsKeeps ==
  ASSUME Inv, NEW j \in DOMAIN jobs, PodStarts(j), UNCHANGED <<chain, coordinate>>
  PROVE  Inv'
<1>1. j \notin rejected /\ jobs[j].name \in JobNames
  BY JobFacts DEF PodStarts, Inv, RejectedOK
<1>2. file' = [file EXCEPT ![jobs[j].name] =
                 [writers |-> file[jobs[j].name].writers \cup {j}, by |-> j, text |-> "empty"]]
  BY <1>1 DEF PodStarts, Inv, TypeOK
<1>3. file[jobs[j].name].writers \cup {j} \in SUBSET DOMAIN jobs /\ "empty" \in Texts
  BY <1>1 DEF Inv, TypeOK, Texts
<1> QED
  BY <1>1, <1>2, <1>3, PodStepKeeps DEF PodStarts

\* A pod that never starts writes nothing.
LEMMA PodNeverStartsKeeps ==
  ASSUME Inv, NEW j \in DOMAIN jobs, PodNeverStarts(j), UNCHANGED <<chain, coordinate>>
  PROVE  Inv'
BY PodStepKeeps DEF PodNeverStarts

\* A pod that ends writes to the file it still has open, if it is there.
LEMMA PodEndsKeeps ==
  ASSUME Inv, NEW j \in DOMAIN jobs, NEW text \in Texts, PodEnds(j, text), UNCHANGED <<chain, coordinate>>
  PROVE  Inv'
<1>1. jobs[j].name \in JobNames
  BY JobFacts
<1>2. CASE j \notin file[jobs[j].name].writers
  BY <1>2, PodStepKeeps DEF PodEnds
<1>3. CASE j \in file[jobs[j].name].writers
  <2>1. file' = [file EXCEPT ![jobs[j].name] =
                   [writers |-> file[jobs[j].name].writers \ {j}, by |-> j, text |-> text]]
    BY <1>1, <1>3 DEF PodEnds, Inv, TypeOK
  <2>2. file[jobs[j].name].writers \ {j} \in SUBSET DOMAIN jobs /\ j \notin rejected
    BY <1>1, <1>3 DEF Inv, TypeOK, FileOK
  <2> QED
    BY <2>1, <2>2, PodStepKeeps DEF PodEnds
<1> QED
  BY <1>2, <1>3

-----------------------------------------------------------------------------
\* Whatever Temporal, a runner or a pod does.
LEMMA StepKeepsInv == Inv /\ [Next]_vars => Inv'
<1> SUFFICES ASSUME Inv, [Next]_vars PROVE Inv'
  OBVIOUS
<1>1. CASE UNCHANGED <<chain, coordinate>> /\ StartAttempt
  BY <1>1, StartAttemptKeeps
<1>2. CASE UNCHANGED <<chain, coordinate>> /\ \E late \in BOOLEAN : LoseAttempt(late)
  BY <1>2, LoseAttemptKeeps
<1>3. CASE UNCHANGED <<chain, coordinate>> /\ \E r \in Slots : RunnerStep(r) \/ TimeRunsOut(r)
  BY <1>3, CreateJobKeeps, CreateJobFailsKeeps, TickKeeps, HeartbeatThrowsKeeps,
     StatusPollTimesOutKeeps, ReadStatusFailsKeeps, ReadStatusKeeps, ReadOutputKeeps,
     DeleteJobKeeps, RemoveFilesKeeps, CancelDeleteKeeps, TimeRunsOutKeeps DEF RunnerStep
<1>4. CASE UNCHANGED <<chain, coordinate>> /\ \E j \in DOMAIN jobs : PodStep(j)
  BY <1>4, PodStartsKeeps, PodNeverStartsKeeps, PodEndsKeeps DEF PodStep
<1>5. CASE UNCHANGED vars
  <2> USE <1>5 DEF vars, workflow, told, cluster, history
  <2>1. (\A r \in Slots : RunnerOK(r)') /\ (\A c \in Calls : AnswerOK(c)')
    BY DEF Inv, RunnerOK, Name, k8sJobName, AnswerOK
  <2>2. AttemptsOK' /\ FailuresAreFresh' /\ \A j \in DOMAIN jobs : Watched(j)'
    BY DEF Inv, AttemptsOK, At, RejectedOK, FailuresAreFresh, Watched, Attended
  <2>3. TypeOK'
    BY DEF Inv, TypeOK
  <2> QED
    BY <2>1, <2>2, <2>3, ActivityStepKeeps DEF TypeOK
<1> QED
  BY <1>1, <1>2, <1>3, <1>4, <1>5 DEF Next, workflow

\* The invariant holds of every run.
LEMMA RunsKeepInv == Spec => []Inv
BY InitInv, StepKeepsInv, PTL DEF Spec

\* Every variable keeps its type.
THEOREM TypeCorrect == Spec => []TypeOK
<1>1. Inv => TypeOK
  BY DEF Inv
<1> QED
  BY <1>1, RunsKeepInv, PTL

\* ResultIsOfItsCoordinates: a result was written by an agent that ran under the
\* coordinates of the call and on the model the answer names, whichever calls share
\* them and however attempts are lost and reattach (k8s-job-runner.ts:136-145).
THEOREM ResultsAreOfTheirCoordinates == Spec => []ResultIsOfItsCoordinates
<1>1. ASSUME Inv PROVE ResultIsOfItsCoordinates
  <2> SUFFICES ASSUME NEW c \in Calls, answer[c].state = "result"
               PROVE  /\ answer[c].by # Nobody
                      /\ coordinate[jobs[answer[c].by].call] = coordinate[c]
                      /\ jobs[answer[c].by].tier = answer[c].tier
    BY DEF ResultIsOfItsCoordinates
  <2> DEFINE j == answer[c].by
  <2>1. /\ j # Nobody /\ j \in DOMAIN jobs /\ jobs[j].name = k8sJobName(c, answer[c].tier)
        /\ JobOK(j) /\ jobs[j].call \in Calls
    <3>1. j \in {Nobody} \cup DOMAIN jobs /\ AnswerOK(c)
      BY <1>1 DEF Inv, TypeOK
    <3> QED
      BY <1>1, <3>1, JobFacts DEF AnswerOK, Inv
  <2> QED
    BY <2>1 DEF JobOK, k8sJobName
<1> QED
  BY <1>1, RunsKeepInv, PTL

\* FailuresAreFresh: no attempt fails on an output an earlier one has failed on and
\* removed, under any coordinates, whatever pods of deleted Jobs still write and
\* whichever removals fail (cleanupFailedAttempt, k8s-job-runner.ts:319-351).
THEOREM NoFailureTwice == Spec => []FailuresAreFresh
<1>1. Inv => FailuresAreFresh
  BY DEF Inv, RejectedOK
<1> QED
  BY <1>1, RunsKeepInv, PTL

\* NoAgentIsForgotten: an agent that no attempt waits for is being stopped, or its
\* call has lost an attempt or left a Job alone on an error of the API server.
THEOREM AgentsAreNotForgotten == Spec => []NoAgentIsForgotten
<1>1. Inv => NoAgentIsForgotten
  BY DEF Inv, NoAgentIsForgotten, BeingStopped, Watched
<1> QED
  BY <1>1, RunsKeepInv, PTL

=============================================================================
