------------------------------ MODULE AgentJobs ------------------------------
(***************************************************************************)
(* How the agent calls of one workflow reach Kubernetes: the attempts of   *)
(* the runAgent activity, TierFallbackBackend and K8sJobRunner, beside the *)
(* Jobs, their pods and the output files on the workspace volume.          *)
(*                                                                         *)
(* A workflow makes one call at a time.  Temporal runs an attempt of it on *)
(* a worker; an attempt whose heartbeat is late is given up and another is *)
(* started, while the old one may be gone with its worker or only slow: it *)
(* then goes on in the slot "late" and nobody hears its answer.  A call    *)
(* that fails for good ends the workflow.                                  *)
(***************************************************************************)
EXTENDS Naturals, Sequences, FiniteSets

CONSTANTS
  NCalls,           \* bound: agent calls the workflow makes
  Coordinates,      \* (stage, attempt, callIndex) of each call: devCycle counts its
                    \* calls, prLanding may give two the same ones (pr-landing.ts:155)
  Workflows,        \* for each call of a workflow the length of its tier chain:
                    \* the routed model is tier 1, its fallbacks follow
  MaxAttempts,      \* retry.maximumAttempts of the activity
  MaxIncidents      \* bound: late heartbeats, errors of the API server or the volume

Calls == 1..NCalls
Tiers == UNION {UNION {1..w[c] : c \in 1..Len(w)} : w \in Workflows}
Nobody == 0

ASSUME AgentJobsAssumption ==
  /\ NCalls \in Nat \ {0} /\ MaxAttempts \in Nat \ {0}
  /\ Workflows # {} /\ \A w \in Workflows : w \in Seq(Nat \ {0}) /\ Len(w) \in Calls
  /\ MaxIncidents \in Nat

ASSUME CoordinatesAssumption == \A of \in Coordinates : DOMAIN of = Calls

\* What a pod leaves in its output and error files, by what isAuthError and
\* parseOutput make of them: nothing, text without a result event (or with an
\* error or a rate limit), an account cap, a refused credential, a result.
Texts == {"empty", "garbage", "limit", "auth", "result"}

VARIABLES
  chain, coordinate,  \* the workflow that runs
  call, attempt,    \* the call the workflow awaits and Temporal's attempt at it
  runner,           \* slot -> the code of one attempt, parked at an await
  jobs,             \* every Job ever created, in order
  file,             \* name -> the output file of that name
  answer,           \* call -> what the workflow was told
  incidents,        \* how much of its bound is used
  \* history: calls with an attempt that was lost, calls with an attempt that
  \* threw and left its Job alone, and the outputs an attempt has thrown on and
  \* removed
  lostIn, uncleanIn, rejected

workflow == <<chain, coordinate>>
told == <<call, attempt, answer>>
cluster == <<jobs, file>>
history == <<lostIn, uncleanIn, rejected>>
vars == <<workflow, told, runner, cluster, incidents, history>>

\* (The name without the model.)
k8sJobName_AnyModel(c, tier) == <<coordinate[c], 1>>

\* runKey hashes the model into the names of the Job and of its files.
k8sJobName(c, tier) == <<coordinate[c], tier>>
JobNames == {<<of[c], t>> : of \in Coordinates, c \in Calls, t \in Tiers}

Slots == {"attempt", "late"}
Gone == [pc |-> "gone", call |-> 1, tier |-> 1, err |-> "none", by |-> Nobody, expired |-> FALSE]
Runners == [pc : {"gone", "create", "poll", "status", "read", "deleteJob", "removeFiles", "cancelDelete"},
            call : Calls, tier : Tiers, err : {"none", "retry", "limit", "auth"},
            by : Nat, expired : BOOLEAN]
NoFile == [writers |-> {}, by |-> Nobody, text |-> "empty"]

Registered(name) == {j \in DOMAIN jobs : jobs[j].registered /\ jobs[j].name = name}
Name(r) == k8sJobName(runner[r].call, runner[r].tier)
At(r, where) == runner[r].pc = where
Goto(r, where) == runner' = [runner EXCEPT ![r].pc = where]
Ended == call > Len(chain) \/ \E c \in Calls : answer[c].state = "failed"

Init ==
  /\ chain \in Workflows /\ coordinate \in Coordinates
  /\ call = 1 /\ attempt = 0
  /\ runner = [r \in Slots |-> Gone]
  /\ jobs = <<>>
  /\ file = [n \in JobNames |-> NoFile]
  /\ answer = [c \in Calls |-> [state |-> "none", by |-> Nobody, tier |-> 1]]
  /\ incidents = 0
  /\ lostIn = {} /\ uncleanIn = {} /\ rejected = {}

(***************************************************************************)
(* The activity.  An attempt starts at the routed model, whatever an       *)
(* earlier attempt had fallen back to.                                     *)
(***************************************************************************)
StartAttempt ==
  /\ ~Ended /\ At("attempt", "gone") /\ attempt < MaxAttempts
  /\ attempt' = attempt + 1
  /\ runner' = [runner EXCEPT !["attempt"] = [Gone EXCEPT !.pc = "create", !.call = call]]
  /\ UNCHANGED <<call, answer, cluster, incidents, history>>

CallFails(c) == answer' = [answer EXCEPT ![c].state = "failed"]

\* An error leaves the attempt in slot r: Temporal tries again unless the error
\* is not retryable or was the last one it allows.  Nobody hears a late one.
Throw(r, retryable) ==
  /\ runner' = [runner EXCEPT ![r] = Gone]
  /\ IF r = "attempt" /\ (~retryable \/ attempt = MaxAttempts)
     THEN CallFails(runner[r].call) ELSE UNCHANGED answer
  /\ UNCHANGED <<call, attempt>>

Incident == incidents < MaxIncidents /\ incidents' = incidents + 1

\* The heartbeat is 15 seconds late.
LoseAttempt(late) ==
  /\ ~At("attempt", "gone") /\ Incident
  /\ lostIn' = lostIn \cup {call}
  /\ late => At("late", "gone")
  /\ runner' = [runner EXCEPT !["attempt"] = Gone,
                              !["late"] = IF late THEN runner["attempt"] ELSE @]
  /\ IF attempt = MaxAttempts THEN CallFails(call) ELSE UNCHANGED answer
  /\ UNCHANGED <<call, attempt, cluster, uncleanIn, rejected>>

LeavesJob(r) == uncleanIn' = uncleanIn \cup {runner[r].call}

(***************************************************************************)
(* K8sJobRunner.run: create the Job or attach to the one of that name,     *)
(* then poll it.                                                           *)
(***************************************************************************)
NewJob(r) == [name |-> Name(r), call |-> runner[r].call, tier |-> runner[r].tier,
              registered |-> TRUE, pod |-> "pending"]

Unregister(gone) ==
  [j \in DOMAIN jobs |-> IF j \in gone THEN [jobs[j] EXCEPT !.registered = FALSE] ELSE jobs[j]]

\* ttlSecondsAfterFinished removes a finished Job, not its files.  Whether it
\* already has shows when somebody asks for the Job.
Expired(name) == {{}} \cup {{j} : j \in {i \in Registered(name) : jobs[i].pod = "ended"}}

createNamespacedJob(r) ==
  \E gone \in Expired(Name(r)) :
    jobs' = IF Registered(Name(r)) \subseteq gone THEN Append(Unregister(gone), NewJob(r)) ELSE jobs

CreateJob(r) ==
  /\ At(r, "create")
  /\ createNamespacedJob(r)
  /\ runner' = [runner EXCEPT ![r].pc = "poll", ![r].expired = FALSE]
  /\ UNCHANGED <<told, file, incidents, history>>

\* Any other error than a conflict; the Job may exist all the same.
CreateJobFails(r) ==
  /\ At(r, "create") /\ Incident
  /\ createNamespacedJob(r) \/ UNCHANGED jobs
  /\ LeavesJob(r) /\ Throw(r, TRUE)
  /\ UNCHANGED <<file, lostIn, rejected>>

\* No output for idleTimeoutMs, or timeoutMs since this attempt began polling.
TimeRunsOut(r) ==
  /\ runner[r].pc \in {"poll", "status"} /\ ~runner[r].expired
  /\ runner' = [runner EXCEPT ![r].expired = TRUE]
  /\ UNCHANGED <<told, cluster, incidents, history>>

\* (The limits are not looked at.)
Tick_NoLimits(r) ==
  /\ At(r, "poll")
  /\ Goto(r, "status")
  /\ UNCHANGED <<told, cluster, incidents, history>>

Tick(r) ==
  /\ At(r, "poll")
  /\ IF runner[r].expired
     THEN runner' = [runner EXCEPT ![r].pc = "deleteJob", ![r].err = "retry"]
     ELSE Goto(r, "status")
  /\ UNCHANGED <<told, cluster, incidents, history>>

HeartbeatThrows(r) ==
  /\ At(r, "poll") /\ Incident
  /\ Goto(r, "cancelDelete")
  /\ UNCHANGED <<told, cluster, history>>

\* A pending answer is dropped after statusPollTimeoutMs and asked for again.
StatusPollTimesOut(r) ==
  /\ At(r, "status")
  /\ Goto(r, "poll")
  /\ UNCHANGED <<told, cluster, incidents, history>>

\* Any other error leaves the loop without cleanup, a Job that is not there too.
ReadStatusFails(r) ==
  /\ At(r, "status")
  /\ \/ \E gone \in Expired(Name(r)) :
          Registered(Name(r)) = gone /\ jobs' = Unregister(gone) /\ UNCHANGED incidents
     \/ Incident /\ UNCHANGED jobs
  /\ LeavesJob(r) /\ Throw(r, TRUE)
  /\ UNCHANGED <<file, lostIn, rejected>>

ReadStatus(r) ==
  /\ At(r, "status")
  /\ \E j \in Registered(Name(r)) :
       Goto(r, IF jobs[j].pod = "ended" THEN "read" ELSE "poll")
  /\ UNCHANGED <<told, cluster, incidents, history>>

Return(r) ==
  /\ runner' = [runner EXCEPT ![r] = Gone]
  /\ IF r = "attempt"
     THEN /\ answer' = [answer EXCEPT ![call] =
                          [state |-> "result", by |-> file[Name(r)].by, tier |-> runner[r].tier]]
          /\ call' = call + 1 /\ attempt' = 0
     ELSE UNCHANGED told

\* The error the output stands for.
ErrorOf(text) == IF text \in {"limit", "auth"} THEN text ELSE "retry"

ReadOutput(r) ==
  /\ At(r, "read")
  /\ LET out == file[Name(r)] IN
       IF out.text = "result"
       THEN Return(r)
       ELSE /\ runner' = [runner EXCEPT ![r].pc = "deleteJob", ![r].err = ErrorOf(out.text),
                                        ![r].by = out.by]
            /\ UNCHANGED told
  /\ UNCHANGED <<cluster, incidents, history>>

(***************************************************************************)
(* cleanupFailedAttempt: the Job, then its files; what fails is swallowed, *)
(* and what could not be removed stays for the retry.  A deleted Job goes  *)
(* at once, its pod when the kubelet has stopped it: until then its agent  *)
(* runs on beside the retry or the fallback.                               *)
(***************************************************************************)
deleteNamespacedJob(r) == jobs' = Unregister(Registered(Name(r)))

\* (Only the files are cleaned up.)
DeleteJob_KeepsJob(r) ==
  /\ At(r, "deleteJob")
  /\ Goto(r, "removeFiles")
  /\ UNCHANGED <<told, cluster, incidents, history>>

DeleteJob(r) ==
  /\ At(r, "deleteJob")
  /\ Goto(r, "removeFiles")
  /\ \/ deleteNamespacedJob(r) /\ UNCHANGED <<incidents, uncleanIn>>
     \/ Incident /\ LeavesJob(r) /\ UNCHANGED jobs
  /\ UNCHANGED <<told, file, lostIn, rejected>>

FallBack(r) == runner' = [runner EXCEPT ![r] = [Gone EXCEPT !.pc = "create", !.call = runner[r].call,
                                                         !.tier = runner[r].tier + 1]]

HasFallback(r) == runner[r].tier < chain[runner[r].call]

\* A call without fallbacks is not wrapped: its account cap is an error like any
\* other, while a chain that is used up is not tried again.
Retryable(r) ==
  \/ runner[r].err = "retry"
  \/ runner[r].err = "limit" /\ chain[runner[r].call] = 1

Reject(r) == rejected' = IF r = "attempt" THEN rejected \cup ({runner[r].by} \ {Nobody}) ELSE rejected

\* (The files stay.)
CleanFiles_Keeps(r) == UNCHANGED file

CleanFiles(r) == file' = [file EXCEPT ![Name(r)] = NoFile]

\* The end of the cleanup and what the error does then: TierFallbackBackend
\* takes an account cap to the next model, and gives up after the last.
RemoveFiles(r) ==
  /\ At(r, "removeFiles")
  /\ \/ CleanFiles(r) /\ Reject(r) /\ UNCHANGED incidents
     \/ Incident /\ UNCHANGED <<file, rejected>>
  /\ IF runner[r].err = "limit" /\ HasFallback(r)
     THEN FallBack(r) /\ UNCHANGED told
     ELSE Throw(r, Retryable(r))
  /\ UNCHANGED <<jobs, lostIn, uncleanIn>>

\* After a heartbeat that throws the files stay.
CancelDelete(r) ==
  /\ At(r, "cancelDelete")
  /\ \/ deleteNamespacedJob(r) /\ UNCHANGED <<incidents, uncleanIn>>
     \/ Incident /\ LeavesJob(r) /\ UNCHANGED jobs
  /\ Throw(r, TRUE)
  /\ UNCHANGED <<file, lostIn, rejected>>

(***************************************************************************)
(* The cluster.                                                            *)
(***************************************************************************)
SetPod(j, where) == jobs' = [jobs EXCEPT ![j].pod = where]

\* tee truncates the file of that name; a pod that still has it open writes on.
\* The pod of a Job just deleted may start before it is collected.
PodStarts(j) ==
  /\ jobs[j].pod = "pending"
  /\ SetPod(j, "running")
  /\ file' = [file EXCEPT ![jobs[j].name] = [writers |-> @.writers \cup {j}, by |-> j, text |-> "empty"]]
  /\ UNCHANGED <<told, runner, incidents, history>>

\* The image cannot be pulled, no node takes the pod, or the Job is deleted.
PodNeverStarts(j) ==
  /\ jobs[j].pod = "pending"
  /\ SetPod(j, "ended")
  /\ UNCHANGED <<told, runner, file, incidents, history>>

\* The CLI ends, or the pod is stopped by activeDeadlineSeconds or after the
\* deletion of its Job.  Output to a file that was removed is gone.
PodEnds(j, text) ==
  /\ jobs[j].pod = "running"
  /\ SetPod(j, "ended")
  /\ file' = IF j \notin file[jobs[j].name].writers THEN file
             ELSE [file EXCEPT ![jobs[j].name] = [writers |-> @.writers \ {j}, by |-> j, text |-> text]]
  /\ UNCHANGED <<told, runner, incidents, history>>

RunnerStep(r) ==
  \/ CreateJob(r) \/ CreateJobFails(r) \/ Tick(r) \/ HeartbeatThrows(r)
  \/ StatusPollTimesOut(r) \/ ReadStatusFails(r) \/ ReadStatus(r) \/ ReadOutput(r)
  \/ DeleteJob(r) \/ RemoveFiles(r) \/ CancelDelete(r)

PodStep(j) ==
  \/ PodStarts(j) \/ PodNeverStarts(j)
  \/ \E text \in Texts \ {"empty"} : PodEnds(j, text)

Next ==
  /\ \/ StartAttempt
     \/ \E late \in BOOLEAN : LoseAttempt(late)
     \/ \E r \in Slots : RunnerStep(r) \/ TimeRunsOut(r)
     \/ \E j \in DOMAIN jobs : PodStep(j)
  /\ UNCHANGED workflow

Spec == Init /\ [][Next]_vars

\* Temporal starts the next attempt, a runner polls every few seconds and its
\* clock runs.  Nothing is assumed of pods: the runner's own limits end a call.
FairSpec ==
  /\ Spec
  /\ WF_vars(StartAttempt /\ UNCHANGED workflow)
  /\ WF_vars(RunnerStep("attempt") /\ UNCHANGED workflow)
  /\ WF_vars(TimeRunsOut("attempt") /\ UNCHANGED workflow)

(***************************************************************************)
(* Properties.                                                             *)
(***************************************************************************)
TypeOK ==
  /\ chain \in Workflows /\ coordinate \in Coordinates
  /\ call \in 1..(NCalls + 1) /\ attempt \in 0..MaxAttempts
  /\ runner \in [Slots -> Runners]
  /\ jobs \in Seq([name : JobNames, call : Calls, tier : Tiers, registered : BOOLEAN,
                   pod : {"pending", "running", "ended"}])
  /\ file \in [JobNames -> [writers : SUBSET DOMAIN jobs, by : {Nobody} \cup DOMAIN jobs,
                            text : Texts]]
  /\ answer \in [Calls -> [state : {"none", "result", "failed"}, by : {Nobody} \cup DOMAIN jobs,
                          tier : Tiers]]
  /\ incidents \in 0..MaxIncidents
  /\ lostIn \subseteq Calls /\ uncleanIn \subseteq Calls /\ rejected \subseteq DOMAIN jobs

\* The result of a call was written by an agent that ran under the coordinates of
\* this call, on the model the answer names (k8s-job-runner.ts:136-145), in whatever
\* order attempts are lost and reattach, Jobs expire and pods write.  A call that
\* shares its coordinates with no other has the answer of its own agent; of two that
\* share them the second may have the answer of the first (pr-landing.ts:155).
ResultIsOfItsCoordinates ==
  \A c \in Calls : answer[c].state = "result" =>
    /\ answer[c].by # Nobody
    /\ coordinate[jobs[answer[c].by].call] = coordinate[c]
    /\ jobs[answer[c].by].tier = answer[c].tier

\* No attempt fails on an output that an earlier one has failed on and removed: not
\* when its own pod never starts, nor when a pod of the deleted Job writes late.  An
\* output whose removal failed unnoticed may be failed on again
\* (cleanupFailedAttempt, k8s-job-runner.ts:319-351).
FailuresAreFresh == runner["attempt"].by \notin rejected

\* An agent runs without an attempt waiting for it only when its Job is deleted, so
\* that Kubernetes is stopping it, which may take until after the retry or the
\* fallback has begun beside it; or when an attempt of its call was lost or left its
\* Job alone on an error of the API server.  No other agent edits the worktree beside
\* a retry, a fallback or the next call, unknown to everybody.
Attended(j) ==
  /\ ~At("attempt", "gone")
  /\ runner["attempt"].call = jobs[j].call /\ runner["attempt"].tier = jobs[j].tier
BeingStopped(j) == ~jobs[j].registered
NoAgentIsForgotten ==
  \A j \in DOMAIN jobs : jobs[j].pod # "ended" =>
    Attended(j) \/ BeingStopped(j) \/ jobs[j].call \in lostIn \cup uncleanIn

\* Each call ends with a result or an error, though pods hang, polls time out
\* and attempts are lost.
CallsEnd == <>Ended
=============================================================================
