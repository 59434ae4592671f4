--------------------------------- MODULE Intake ---------------------------------
(* How work enters the engine: findings of the bug hunts filed as issues,      *)
(* webhook deliveries of GitHub and Linear taken by the gateway, and the       *)
(* workflow executions they start or signal.                                   *)
EXTENDS Naturals, FiniteSets

CONSTANTS
  Filers,         \* attempts of createIssue that may run at the same time
  Requests,       \* deliveries the gateway may handle at the same time
  MaxIssues,      \* bound: GitHub issues, numbered from 1
  MaxEvents,      \* bound: what people do in the trackers and mishaps of filers, together
  MaxDeliveries   \* bound: deliveries and redeliveries

ASSUME IntakeAssumption ==
  /\ MaxIssues \in Nat /\ MaxEvents \in Nat /\ MaxDeliveries \in Nat

VARIABLES
  row,          \* the row of the one finding in filed_findings
  filer,        \* per attempt: where it is and the issue it made
  by,           \* who opened each issue
  linear,       \* the one Linear issue: "none", "plain" or "labelled"
  pr, landing,  \* the one pull request and the execution of its prLanding
  autoMerge,    \* the project's setting
  cycle,        \* the devCycle execution of each issue
  sent,         \* payloads the trackers have sent
  request,      \* deliveries in the gateway's hands
  events, deliveries, incidents

filing == <<row, filer, incidents>>
tracker == <<by, linear, pr, autoMerge, sent, events>>
gateway == <<request, deliveries>>
executions == <<cycle, landing>>
intakeVars == <<filing, tracker, gateway, executions>>

None == 0
LinearNumber == MaxIssues + 1
Issues == 1..MaxIssues
Opened == {i \in Issues : by[i] # "none"}
Closed == {"completed", "failed"}

NoRow == [exists |-> FALSE, ref |-> None, stale |-> FALSE]
Idle == [at |-> "idle", issue |-> None]
NoRequest == [at |-> "idle"]
NoPr == [owner |-> "none", labels |-> {}]

IntakeInit ==
  /\ row = NoRow /\ filer = [f \in Filers |-> Idle] /\ incidents = 0
  /\ by = [i \in Issues |-> "none"] /\ linear = "none" /\ pr = NoPr
  /\ autoMerge \in {"disabled", "label"}
  /\ sent = {} /\ events = 0
  /\ request = [r \in Requests |-> NoRequest] /\ deliveries = 0
  /\ cycle = [i \in Issues \cup {LinearNumber} |-> "none"] /\ landing = "none"

(***************************************************************************)
(* Payloads.  The tracker's own labels are "trigger" and "bug" on issues,  *)
(* "automerge", "disable" and "managed" on pull requests.                  *)
(***************************************************************************)
IssueOpened(i, labels) == [event |-> "issues", action |-> "opened", issue |-> i,
                           label |-> "none", labels |-> labels]
IssueLabeled(i, label) == [event |-> "issues", action |-> "labeled", issue |-> i,
                           label |-> label, labels |-> {}]
PrLabel(action, label, labels) == [event |-> "pull_request", action |-> action,
                                   label |-> label, labels |-> labels]
PrReview(labels) == [event |-> "pull_request_review", action |-> "submitted",
                     label |-> "none", labels |-> labels]
LinearCreate(state) == [event |-> "linear", action |-> "create", state |-> state,
                        from |-> "none"]
\* updatedFrom names the labels only when they changed.
LinearUpdate(state, from) == [event |-> "linear", action |-> "update", state |-> state,
                              from |-> from]

Send(ps) == sent' = sent \cup ps
OpenIssue(i, who) ==
  /\ by' = [by EXCEPT ![i] = who]
  /\ Send({IssueOpened(i, {"trigger", "bug"}), IssueLabeled(i, "trigger"), IssueLabeled(i, "bug")})
NextIssue == Cardinality(Opened) + 1

(***************************************************************************)
(* createIssue with a fingerprint.  A mishap is a create whose answer is   *)
(* lost, a write to the table that fails, a worker that dies, or an        *)
(* attempt that takes longer than a reservation lasts.                     *)
(***************************************************************************)
Mishap == events + incidents < MaxEvents /\ incidents' = incidents + 1

\* (A row with no issue keeps everyone out.)
Free_Never == ~row.exists

Free == row.exists => (row.ref = None /\ row.stale)

\* (Nobody looks at the row.)
Reserve_Any(f) ==
  /\ row' = [exists |-> TRUE, ref |-> row.ref, stale |-> FALSE]
  /\ filer' = [filer EXCEPT ![f] = [at |-> "creating", issue |-> None]]

\* Who does not win is told the issue, or nothing while there is none.
Reserve(f) ==
  /\ Free
  /\ row' = [exists |-> TRUE, ref |-> None, stale |-> FALSE]
  /\ filer' = [filer EXCEPT ![f] = [at |-> "creating", issue |-> None]]

\* whiteboxBugHunt: of what a hunt does with its worktree, its agent and the
\* findings it parses, only their filing is seen here.
Hunt(f) ==
  /\ filer[f].at = "idle"
  /\ Reserve(f)
  /\ UNCHANGED <<incidents, tracker, gateway, executions>>

Create(f) ==
  /\ filer[f].at = "creating" /\ NextIssue \in Issues
  /\ OpenIssue(NextIssue, "hunt")
  /\ \/ /\ filer' = [filer EXCEPT ![f] = [at |-> "finalizing", issue |-> NextIssue]]
        /\ UNCHANGED incidents
     \/ /\ Mishap
        /\ \E at \in {"releasing", "idle"} :
             filer' = [filer EXCEPT ![f] = [at |-> at, issue |-> None]]
  /\ UNCHANGED <<row, linear, pr, autoMerge, events, gateway, executions>>

CreateFails(f) ==
  /\ filer[f].at = "creating"
  /\ filer' = [filer EXCEPT ![f] = [at |-> "releasing", issue |-> None]]
  /\ UNCHANGED <<row, incidents, tracker, gateway, executions>>

Release(f) ==
  /\ filer[f].at = "releasing"
  /\ row' = IF row.ref = None THEN NoRow ELSE row
  /\ filer' = [filer EXCEPT ![f] = Idle]
  /\ UNCHANGED <<incidents, tracker, gateway, executions>>

Finalize(f) ==
  /\ filer[f].at = "finalizing"
  /\ row' = IF row.exists /\ row.ref = None THEN [row EXCEPT !.ref = filer[f].issue] ELSE row
  /\ filer' = [filer EXCEPT ![f] = Idle]
  /\ UNCHANGED <<incidents, tracker, gateway, executions>>

\* The attempt dies, or a statement of its own fails; what it wrote stays.
FilerDies(f) ==
  /\ filer[f].at # "idle" /\ Mishap
  /\ filer' = [filer EXCEPT ![f] = Idle]
  /\ UNCHANGED <<row, tracker, gateway, executions>>

\* STALE_RESERVATION passes: free of charge once no attempt is at work, since an
\* attempt has ten minutes and a reservation fifteen.
ReservationAges ==
  /\ row.exists /\ row.ref = None /\ ~row.stale
  /\ row' = [row EXCEPT !.stale = TRUE]
  /\ IF \E f \in Filers : filer[f].at # "idle" THEN Mishap ELSE UNCHANGED incidents
  /\ UNCHANGED <<filer, tracker, gateway, executions>>

(***************************************************************************)
(* People and GitHub.                                                      *)
(***************************************************************************)
Event == events + incidents < MaxEvents /\ events' = events + 1

OpenByHand ==
  /\ Event /\ NextIssue \in Issues
  /\ OpenIssue(NextIssue, "human")
  /\ UNCHANGED <<filing, linear, pr, autoMerge, gateway, executions>>

\* The label is taken off and put back, or another one is put on.
Relabel(i, label) ==
  /\ Event
  /\ Send({IssueLabeled(i, label)})
  /\ UNCHANGED <<filing, by, linear, pr, autoMerge, gateway, executions>>

LinearIssue(state) ==
  /\ Event /\ linear = "none"
  /\ linear' = state
  /\ Send({LinearCreate(state)})
  /\ UNCHANGED <<filing, by, pr, autoMerge, gateway, executions>>

LinearLabel ==
  /\ Event /\ linear = "plain"
  /\ linear' = "labelled"
  /\ Send({LinearUpdate("labelled", "plain")})
  /\ UNCHANGED <<filing, by, pr, autoMerge, gateway, executions>>

LinearEdit ==
  /\ Event /\ linear # "none"
  /\ Send({LinearUpdate(linear, "unnamed")})
  /\ UNCHANGED <<filing, by, linear, pr, autoMerge, gateway, executions>>

OpenPrByHand ==
  /\ Event /\ pr = NoPr
  /\ pr' = [owner |-> "human", labels |-> {}]
  /\ UNCHANGED <<filing, by, linear, autoMerge, sent, gateway, executions>>

LabelPr(label, action) ==
  LET labels == IF action = "labeled" THEN pr.labels \cup {label} ELSE pr.labels \ {label} IN
  /\ Event /\ pr # NoPr /\ labels # pr.labels
  /\ pr' = [pr EXCEPT !.labels = labels]
  /\ Send({PrLabel(action, label, labels)})
  /\ UNCHANGED <<filing, by, linear, autoMerge, gateway, executions>>

Review ==
  /\ Event /\ pr # NoPr
  /\ Send({PrReview(pr.labels)})
  /\ UNCHANGED <<filing, by, linear, pr, autoMerge, gateway, executions>>

Configure ==
  /\ Event
  /\ autoMerge' \in {"disabled", "label"} \ {autoMerge}
  /\ UNCHANGED <<filing, by, linear, pr, sent, gateway, executions>>

(***************************************************************************)
(* What a delivery means.                                                  *)
(***************************************************************************)
parseIssueTriggerEvent(m) ==
  /\ m.event = "issues"
  /\ \/ (m.action = "labeled" /\ m.label = "trigger")
     \/ (m.action = "opened" /\ "trigger" \in m.labels)

\* previousLabelIds are the current ones unless updatedFrom names them.
matchesLinearTriggerLabel(m) ==
  m.event = "linear" /\ m.state = "labelled" /\ (m.action = "update" => m.from = "plain")

Managed(m) == "managed" \in m.labels
Enrolls(m) == m.event = "pull_request" /\ m.action = "labeled" /\ m.label = "automerge"
Wakes(m) ==
  \/ (m.event = "pull_request" /\ m.action = "labeled" /\ m.label = "disable")
  \/ (m.event = "pull_request" /\ m.action = "unlabeled" /\ m.label \in {"automerge", "disable"})
  \/ (m.event = "pull_request_review" /\ m.labels \cap {"managed", "automerge"} # {})

(***************************************************************************)
(* The gateway.  Between its steps it waits for the registry, for the      *)
(* repository's configuration and for Temporal; each may fail, and then    *)
(* the delivery is answered with an error and forgotten.                   *)
(***************************************************************************)
Answered(r) == request' = [request EXCEPT ![r] = NoRequest]
Advance(r, at) == request' = [request EXCEPT ![r].at = at]

\* A payload of Linear may be redelivered when it is older than MAX_WEBHOOK_AGE_MS;
\* it is refused then.
Ages == {"fresh", "old"}
isFreshLinearWebhook(age) == age = "fresh"

Takes(r, m) ==
  /\ request[r] = NoRequest /\ deliveries < MaxDeliveries
  /\ request' = [request EXCEPT ![r] = [at |-> "resolving", m |-> m, mode |-> "unread"]]
  /\ deliveries' = deliveries + 1
  /\ UNCHANGED <<filing, tracker, executions>>

handleGithubWebhook(r, m) ==
  /\ Enrolls(m) \/ Wakes(m) \/ parseIssueTriggerEvent(m)
  /\ Takes(r, m)

handleLinearWebhook(r, m, age) ==
  /\ matchesLinearTriggerLabel(m) /\ isFreshLinearWebhook(age)
  /\ Takes(r, m)

\* (The label managed is not looked at.)
Resolve_Starts(r) ==
  /\ request[r].at = "resolving"
  /\ request' = [request EXCEPT ![r].mode = autoMerge,
                               ![r].at = IF Wakes(request[r].m) THEN "waking" ELSE "starting"]
  /\ UNCHANGED <<filing, tracker, deliveries, executions>>

Resolve(r) ==
  /\ request[r].at = "resolving"
  /\ IF Enrolls(request[r].m) /\ ~Managed(request[r].m) /\ autoMerge = "disabled"
     THEN Answered(r)
     ELSE request' = [request EXCEPT ![r].mode = autoMerge, ![r].at =
                        IF Wakes(request[r].m) \/ (Enrolls(request[r].m) /\ Managed(request[r].m))
                        THEN "waking" ELSE "starting"]
  /\ UNCHANGED <<filing, tracker, deliveries, executions>>

GiveUp(r) ==
  /\ request[r] # NoRequest
  /\ Answered(r)
  /\ UNCHANGED <<filing, tracker, deliveries, executions>>

\* ALLOW_DUPLICATE_FAILED_ONLY for GitHub, the default policy for Linear.
Startable(i) == cycle[i] = "none" \/ cycle[i] \in (IF i = LinearNumber THEN Closed ELSE {"failed"})

StartCycle(r, i) ==
  /\ request[r].at = "starting"
  /\ request[r].m.event \in {"issues", "linear"}
  /\ i = IF request[r].m.event = "linear" THEN LinearNumber ELSE request[r].m.issue
  /\ cycle' = IF Startable(i) THEN [cycle EXCEPT ![i] = "open"] ELSE cycle
  /\ Answered(r)
  /\ UNCHANGED <<filing, tracker, deliveries, landing>>

\* (Where there is nothing to wake, a run is started.)
Wake_Starts(r) ==
  /\ request[r].at = "waking"
  /\ Answered(r) /\ landing' = "open"
  /\ UNCHANGED <<filing, tracker, deliveries, cycle>>

\* The signal finds an execution or it does not: the answer is the same.
Wake(r) ==
  /\ request[r].at = "waking"
  /\ Answered(r)
  /\ UNCHANGED <<filing, tracker, deliveries, executions>>

StartLanding(r) ==
  /\ request[r].at = "starting" /\ request[r].m.event = "pull_request"
  /\ IF landing = "open"
     THEN Advance(r, "waking") /\ UNCHANGED landing
     ELSE Answered(r) /\ landing' = "open"
  /\ UNCHANGED <<filing, tracker, deliveries, cycle>>

(***************************************************************************)
(* The workflows, as far as their executions go.                           *)
(***************************************************************************)
\* openPr creates the pull request and labels it in two calls.
OpenPr(i) ==
  /\ cycle[i] = "open" /\ pr = NoPr
  /\ pr' = [owner |-> "engine", labels |-> {}]
  /\ cycle' = [cycle EXCEPT ![i] = "labelling"]
  /\ UNCHANGED <<filing, by, linear, autoMerge, sent, events, gateway, landing>>

LabelManaged(i) ==
  /\ cycle[i] = "labelling"
  /\ pr' = [pr EXCEPT !.labels = @ \cup {"managed"}]
  /\ Send({PrLabel("labeled", "managed", pr.labels \cup {"managed"})})
  /\ cycle' = [cycle EXCEPT ![i] = "handing"]
  /\ UNCHANGED <<filing, by, linear, autoMerge, events, gateway, landing>>

\* The landing has the name the gateway would give it; if that one is open, the
\* child cannot start and the cycle fails.
HandOver(i) ==
  /\ cycle[i] = "handing"
  /\ landing' = "open"
  /\ cycle' = [cycle EXCEPT ![i] = IF landing = "open" THEN "failed" ELSE "landing"]
  /\ UNCHANGED <<filing, tracker, gateway>>

CycleCloses(i) ==
  /\ cycle[i] = "open" \/ (cycle[i] = "landing" /\ landing \in Closed)
  /\ \E end \in Closed : cycle' = [cycle EXCEPT ![i] = end]
  /\ UNCHANGED <<filing, tracker, gateway, landing>>

LandingCloses ==
  /\ landing = "open"
  /\ landing' \in Closed
  /\ UNCHANGED <<filing, tracker, gateway, cycle>>

Files ==
  \/ \E f \in Filers : \/ Hunt(f) \/ Create(f) \/ CreateFails(f) \/ Release(f) \/ Finalize(f)
                       \/ FilerDies(f)
  \/ ReservationAges
People ==
  \/ OpenByHand \/ LinearLabel \/ LinearEdit \/ OpenPrByHand \/ Review \/ Configure
  \/ \E i \in Opened, label \in {"trigger", "bug"} : Relabel(i, label)
  \/ \E state \in {"plain", "labelled"} : LinearIssue(state)
  \/ \E label \in {"automerge", "disable"}, action \in {"labeled", "unlabeled"} :
       LabelPr(label, action)
Gateway ==
  \E r \in Requests :
    \/ \E m \in sent : \/ handleGithubWebhook(r, m)
                         \/ \E age \in Ages : handleLinearWebhook(r, m, age)
    \/ Resolve(r) \/ GiveUp(r) \/ Wake(r) \/ StartLanding(r)
    \/ \E i \in Issues \cup {LinearNumber} : StartCycle(r, i)
Works ==
  \/ \E i \in Issues \cup {LinearNumber} : OpenPr(i) \/ LabelManaged(i) \/ HandOver(i) \/ CycleCloses(i)
  \/ LandingCloses

IntakeNext == Files \/ People \/ Gateway \/ Works
IntakeSpec == IntakeInit /\ [][IntakeNext]_intakeVars

\* Hunts come back as long as a finding is there, and an attempt goes on.
Proceeds(f) == Hunt(f) \/ Release(f) \/ Finalize(f)
IntakeFairness ==
  /\ \A f \in Filers : WF_intakeVars(Proceeds(f)) /\ SF_intakeVars(Create(f) /\ incidents' = incidents)
  /\ WF_intakeVars(ReservationAges /\ incidents' = incidents)
IntakeFairSpec == IntakeSpec /\ IntakeFairness

(***************************************************************************)
(* Properties.                                                             *)
(***************************************************************************)
FilerType == [at : {"idle", "creating", "releasing", "finalizing"}, issue : {None} \cup Issues]
RequestType == {NoRequest} \cup [at : {"resolving", "waking", "starting"}, m : sent,
                                mode : {"unread", "disabled", "label"}]

IntakeTypeOK ==
  /\ row \in [exists : BOOLEAN, ref : {None} \cup Issues, stale : BOOLEAN] /\ (~row.exists => row = NoRow)
  /\ filer \in [Filers -> FilerType]
  /\ \A f \in Filers : filer[f].at = "finalizing" => filer[f].issue # None
  /\ by \in [Issues -> {"none", "hunt", "human"}] /\ linear \in {"none", "plain", "labelled"}
  /\ pr \in [owner : {"none", "human", "engine"}, labels : SUBSET {"automerge", "disable", "managed"}]
  /\ autoMerge \in {"disabled", "label"}
  /\ request \in [Requests -> RequestType]
  /\ cycle \in [Issues \cup {LinearNumber} -> {"none", "open", "labelling", "handing", "landing"} \cup Closed]
  /\ landing \in {"none", "open"} \cup Closed
  /\ incidents \in Nat /\ events \in Nat /\ incidents + events <= MaxEvents
  /\ deliveries \in 0..MaxDeliveries

\* A finding becomes one issue, and one more at most for every mishap: attempts
\* that race, fail and come back after the reservation has aged file no other.
\* (create-activities createIssue, PostgresFiledFindingStore)
FindingFiledOnce == Cardinality({i \in Issues : by[i] = "hunt"}) <= 1 + incidents

\* A finding that hunts keep coming back with is filed in the end, whatever became
\* of the attempts before. (PostgresFiledFindingStore.reserve and release)
FindingGetsFiled == <>(row.ref # None \/ Opened = Issues)

\* The pull request a devCycle has created and not handed over yet has a prLanding
\* beside it only if somebody put automerge on it before the devCycle had labelled it
\* managed.  A label that comes later, like any review or veto, however its delivery
\* is delayed or repeated, leaves the name free that the hand-over needs.
\* (openPr, handleGithubWebhook, devCycle's startChild)
OneOwner ==
  \A i \in DOMAIN cycle :
    cycle[i] \in {"labelling", "handing"} /\ landing = "open" =>
      \E m \in sent : Enrolls(m) /\ ~Managed(m)

\* An execution of prLanding begins because devCycle hands over its pull request,
\* or because an unmanaged one was labelled automerge in a project that wants it;
\* a review, a veto or its removal never revives a run that is over.
\* (startOrSignalPrLanding, handleGithubWebhook)
LandingIsInvited ==
  [][landing # "open" /\ landing' = "open" =>
       \/ \E i \in DOMAIN cycle : cycle[i] = "handing" /\ cycle'[i] = "landing"
       \/ \E r \in Requests :
            /\ request[r] # NoRequest /\ request'[r] = NoRequest
            /\ request[r].m.event = "pull_request" /\ request[r].m.label = "automerge" /\ request[r].m.action = "labeled"
            /\ "managed" \notin request[r].m.labels
            /\ request[r].mode # "disabled"]_intakeVars

=============================================================================
