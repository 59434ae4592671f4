----------------------------- MODULE PlatformChat -----------------------------
(* The platformChat workflow with the operator who talks to it through the     *)
(* console: turns, proposals and decisions, approved actions and fixes, and    *)
(* the executions that carry one conversation on.                              *)
EXTENDS Naturals, FiniteSets

CONSTANTS
  MAX_TURN_CALLS,
  CONTINUE_AS_NEW_AFTER,  \* messages
  MaximumAttempts,        \* retry.maximumAttempts
  MaxInputs,              \* bound: signals of the operator
  MaxIncidents            \* bound: failing activities and lost answers

ASSUME PlatformChatAssumption ==
  /\ MAX_TURN_CALLS \in Nat \ {0} /\ MaximumAttempts \in Nat \ {0} /\ CONTINUE_AS_NEW_AFTER \in Nat
  /\ MaxInputs \in Nat /\ MaxIncidents \in Nat

None == 0
NoDecision == [proposal |-> None, approve |-> FALSE]
NoProposal == [id |-> None, type |-> "none"]

VARIABLES
  pc, phase, closed,
  prompted,         \* whether the chat is started with a prompt
  messages, seq,    \* how many messages there are; the number of the last
  pendingProposal, pendingUserText, pendingDecision,
  call,             \* the call of the turn, from 1
  children,         \* childWorkflows
  carried,          \* the approved proposal that is being carried out
  tries,            \* the attempt of its action
  scratch,          \* whether the scratch workspace exists
  inputs, incidents,
  shown,            \* history: proposals the operator has seen
  approved,         \* history: proposals he has approved, open or no longer open
  superseded,       \* history: proposals a later turn did away with
  executed,         \* history: proposals carried out
  asked, fixes,     \* history: the names of the last agent call and child
  repeated          \* history: a name did not come after the last, or a
                    \* proposal was run again and not by a retry

signals == <<closed, pendingUserText, pendingDecision>>
told == <<messages, seq>>
names == <<asked, fixes, repeated>>
seen == <<shown, approved, superseded>>
chatVars == <<pc, phase, prompted, signals, told, pendingProposal, call, children, carried, tries, scratch,
             inputs, incidents, seen, executed, names>>

ChatInit ==
  /\ pc = "unstarted" /\ prompted = FALSE /\ phase = "awaiting-user" /\ closed = FALSE
  /\ messages = 0 /\ seq = 0
  /\ pendingProposal = NoProposal /\ pendingUserText = FALSE /\ pendingDecision = NoDecision
  /\ call = 0 /\ children = 0 /\ scratch = FALSE /\ carried = None /\ tries = 0 /\ inputs = 0 /\ incidents = 0
  /\ shown = {} /\ approved = {} /\ superseded = {} /\ executed = {}
  /\ asked = <<0, 0>> /\ fixes = 0 /\ repeated = FALSE

Running == pc \notin {"unstarted", "ended", "failed"}
push == messages' = messages + 1 /\ seq' = seq + 1
Incident == incidents < MaxIncidents /\ incidents' = incidents + 1

handleStartChat ==
  /\ pc = "unstarted"
  /\ pc' = "preparing" /\ prompted' \in BOOLEAN
  /\ UNCHANGED <<tries, phase, signals, told, pendingProposal, call, children, carried, scratch,
                 inputs, incidents, seen, executed, names>>

\* The prompt takes the place of a turn sent while the workspace was prepared.
PrepareChat ==
  /\ pc = "preparing"
  /\ scratch' = TRUE /\ pc' = "waiting"
  /\ pendingUserText' = (pendingUserText \/ prompted) /\ prompted' = FALSE
  /\ UNCHANGED <<tries, phase, closed, pendingDecision, told, pendingProposal, call, children, carried,
                 inputs, incidents, seen, executed, names>>

(***************************************************************************)
(* The operator.  A second turn takes the place of one that has not been   *)
(* looked at, and so does a second decision.                               *)
(***************************************************************************)
Input == Running /\ inputs < MaxInputs /\ inputs' = inputs + 1

SendTurn ==
  /\ Input
  /\ pendingUserText' = TRUE
  /\ UNCHANGED <<prompted, tries, pc, phase, closed, pendingDecision, told, pendingProposal, call, children,
                 scratch, carried, incidents, seen, executed, names>>

\* He decides on a proposal he has seen, which may not be the one that is open.
Decide ==
  /\ Input
  /\ \E p \in shown, approve \in BOOLEAN :
       /\ pendingDecision' = [proposal |-> p, approve |-> approve]
       /\ approved' = IF approve THEN approved \cup {p} ELSE approved
  /\ UNCHANGED <<prompted, tries, pc, phase, closed, pendingUserText, told, pendingProposal, call, children,
                 scratch, carried, incidents, shown, superseded, executed, names>>

Close ==
  /\ Input
  /\ closed' = TRUE
  /\ UNCHANGED <<prompted, tries, pc, phase, pendingUserText, pendingDecision, told, pendingProposal, call,
                 children, scratch, carried, incidents, seen, executed, names>>

(***************************************************************************)
(* The loop.                                                               *)
(***************************************************************************)
Waits == pc = "waiting" /\ ~closed

\* (The question stays open.)
Supersede_Not == UNCHANGED pendingProposal

Supersede == pendingProposal' = NoProposal

HearTurn ==
  /\ Waits /\ pendingUserText
  /\ push /\ Supersede
  /\ superseded' = superseded \cup ({pendingProposal.id} \ {None})
  /\ pendingUserText' = FALSE
  /\ pc' = "turn"
  /\ UNCHANGED <<prompted, tries, phase, closed, pendingDecision, call, children, scratch, carried, inputs, incidents,
                 shown, approved, executed, names>>

\* (Any decision is about the open proposal.)
Matches_Any == pendingProposal # NoProposal

Matches == pendingProposal # NoProposal /\ pendingProposal.id = pendingDecision.proposal

\* The proposal is closed by every decision, also by one on another.
HearDecision ==
  /\ Waits /\ ~pendingUserText /\ pendingDecision # NoDecision
  /\ pendingDecision' = NoDecision /\ pendingProposal' = NoProposal
  /\ \/ /\ ~Matches
        /\ push /\ phase' = "awaiting-user"
        /\ UNCHANGED <<pc, carried, tries>>
     \/ /\ Matches /\ ~pendingDecision.approve
        /\ push /\ pc' = "turn"
        /\ UNCHANGED <<phase, carried, tries>>
     \/ /\ Matches /\ pendingDecision.approve
        /\ carried' = pendingProposal.id /\ tries' = 1
        /\ pc' = IF pendingProposal.type = "fix" THEN "resolving" ELSE "acting"
        /\ UNCHANGED <<told, phase>>
  /\ UNCHANGED <<prompted, closed, pendingUserText, call, children, scratch, inputs, incidents, seen,
                 executed, names>>

Done == push /\ carried' = None /\ pc' = "turn"

\* resolveRepoConfig: only a registered repository can be fixed.
Resolve ==
  /\ pc = "resolving"
  /\ \/ Done
     \/ pc' = "fixing" /\ UNCHANGED <<told, carried>>
  /\ UNCHANGED <<prompted, tries, phase, signals, pendingProposal, call, children, scratch, inputs, incidents, seen,
                 executed, names>>

\* executeChild: the fix has its number, and the chat waits for its end.
StartFix ==
  /\ pc = "fixing"
  /\ executed' = executed \cup {carried}
  /\ fixes' = children + 1
  /\ repeated' = (repeated \/ carried \in executed \/ children + 1 <= fixes)
  /\ pc' = "fix"
  /\ UNCHANGED <<prompted, tries, phase, signals, told, pendingProposal, call, children, scratch, carried, inputs, incidents,
                 seen, asked>>

FixEnds ==
  /\ pc = "fix"
  /\ Done
  /\ children' = children + 1
  /\ UNCHANGED <<prompted, tries, phase, signals, pendingProposal, call, scratch, inputs, incidents, seen, executed, names>>

\* An attempt of executePlatformAction terminates or signals, or it cannot: either is
\* answered.
Attempt ==
  /\ pc = "acting"
  /\ \/ /\ executed' = executed \cup {carried}
        /\ repeated' = (repeated \/ (tries = 1 /\ carried \in executed))
     \/ UNCHANGED <<executed, repeated>>

executePlatformAction ==
  /\ Attempt /\ Done
  /\ UNCHANGED <<prompted, tries, phase, signals, pendingProposal, call, children, scratch, inputs, incidents, seen,
                 asked, fixes>>

\* The worker dies before the answer is back: Temporal tries again, also what was done.
AnswerIsLost ==
  /\ Incident /\ Attempt
  /\ IF tries < MaximumAttempts THEN tries' = tries + 1 /\ UNCHANGED pc
                                ELSE pc' = "failed" /\ UNCHANGED tries
  /\ UNCHANGED <<prompted, phase, signals, told, pendingProposal, call, children, scratch, carried, inputs, seen,
                 asked, fixes>>

\* An activity or a child fails for good: the workflow fails where it is.
Fails ==
  /\ pc \in {"preparing", "resolving", "fix", "thinking", "closing"} /\ Incident
  /\ pc' = "failed"
  /\ UNCHANGED <<prompted, tries, phase, signals, told, pendingProposal, call, children, scratch, carried, inputs,
                 seen, executed, names>>

(***************************************************************************)
(* The agent's turn.                                                       *)
(***************************************************************************)
\* The number of the last message is the attempt of the call.
Ask(n) ==
  /\ asked' = <<seq, n>>
  /\ repeated' = (repeated \/ ~(seq > asked[1] \/ (seq = asked[1] /\ n > asked[2])))
  /\ call' = n

StartTurn ==
  /\ pc = "turn"
  /\ phase' = "agent-thinking" /\ pc' = "thinking" /\ Ask(1)
  /\ UNCHANGED <<prompted, tries, signals, told, pendingProposal, children, scratch, carried, inputs, incidents, seen,
                 executed, fixes>>

Unparseable ==
  /\ pc = "thinking"
  /\ IF call < MAX_TURN_CALLS
     THEN Ask(call + 1) /\ UNCHANGED <<pc, phase, told>>
     ELSE /\ push /\ phase' = "awaiting-user" /\ pc' = "waiting"
          /\ UNCHANGED <<call, asked, repeated>>
  /\ UNCHANGED <<prompted, tries, signals, pendingProposal, children, scratch, carried, inputs, incidents, seen, executed, fixes>>

Propose ==
  /\ pc = "thinking"
  /\ push
  /\ \E type \in {"fix", "action"} : pendingProposal' = [id |-> seq + 1, type |-> type]
  /\ shown' = shown \cup {seq + 1}
  /\ phase' = "awaiting-approval" /\ pc' = "waiting"
  /\ UNCHANGED <<prompted, tries, signals, call, children, scratch, carried, inputs, incidents, approved, superseded,
                 executed, names>>

AskBack ==
  /\ pc = "thinking"
  /\ push /\ phase' = "awaiting-answer" /\ pc' = "waiting"
  /\ UNCHANGED <<prompted, tries, signals, pendingProposal, call, children, scratch, carried, inputs, incidents, seen,
                 executed, names>>

Carry_Children == seq' = seq + 1 /\ children' = 0

Carry == seq' = seq + 1 /\ UNCHANGED children

\* continueAsNew: what has been signalled to this execution is not handed on.
ContinueAsNew == Carry /\ closed' = FALSE /\ pendingUserText' = FALSE /\ pendingDecision' = NoDecision

Reply ==
  /\ pc = "thinking"
  /\ messages' = messages + 1
  /\ phase' = "awaiting-user"
  /\ \/ seq' = seq + 1 /\ closed' = TRUE /\ pc' = "closing"
        /\ UNCHANGED <<children, pendingUserText, pendingDecision>>
     \/ IF messages + 1 >= CONTINUE_AS_NEW_AFTER THEN ContinueAsNew /\ pc' = "waiting"
        ELSE seq' = seq + 1 /\ pc' = "waiting" /\ UNCHANGED <<signals, children>>
  /\ UNCHANGED <<prompted, tries, pendingProposal, call, scratch, carried, inputs, incidents, seen, executed, names>>

(***************************************************************************)
(* The end.                                                                *)
(***************************************************************************)
\* CHAT_IDLE_TIMEOUT_MS without a signal.
IdleOut == ~pendingUserText /\ pendingDecision = NoDecision

StopWaiting ==
  /\ pc = "waiting" /\ (closed \/ IdleOut)
  /\ pc' = "closing"
  /\ UNCHANGED <<prompted, tries, phase, signals, told, pendingProposal, call, children, scratch, carried, inputs, incidents,
                 seen, executed, names>>

Release == scratch' = FALSE

CleanUp ==
  /\ pc = "closing"
  /\ Release /\ phase' = "closed" /\ pc' = "ended"
  /\ UNCHANGED <<prompted, tries, signals, told, pendingProposal, call, children, carried, inputs, incidents, seen,
                 executed, names>>

Work ==
  \/ PrepareChat \/ HearTurn \/ HearDecision \/ Resolve \/ StartFix \/ FixEnds \/ executePlatformAction
  \/ StartTurn \/ Unparseable \/ Propose \/ AskBack \/ Reply \/ StopWaiting \/ CleanUp

ChatNext == handleStartChat \/ Work \/ SendTurn \/ Decide \/ Close \/ AnswerIsLost \/ Fails

ChatSpec == ChatInit /\ [][ChatNext]_chatVars

(***************************************************************************)
(* Properties.                                                             *)
(***************************************************************************)
TypeOK ==
  /\ pc \in {"unstarted", "preparing", "waiting", "resolving", "fixing", "fix", "acting", "turn", "thinking",
             "closing", "ended", "failed"}
  /\ phase \in {"awaiting-user", "agent-thinking", "awaiting-answer", "awaiting-approval", "closed"}
  /\ closed \in BOOLEAN /\ pendingUserText \in BOOLEAN
  /\ call \in 0..MAX_TURN_CALLS /\ tries \in 0..MaximumAttempts /\ messages >= children /\ seq >= messages
  /\ pendingProposal.id \in shown \cup {None} /\ carried \in shown \cup {None} /\ pendingDecision.proposal \in shown \cup {None}
  /\ inputs \in 0..MaxInputs /\ incidents \in 0..MaxIncidents

\* What is carried out was shown to the operator, approved by him under its own id,
\* and not done away with by a later turn of his.
OnlyApprovedRuns == executed \subseteq approved \ superseded

\* No agent call and no fix has the name of an earlier one, also after the
\* conversation went on in another execution (a repeated name answers with the
\* earlier result), and no proposal is taken up twice: what is carried out again is
\* so by a further attempt of the same executePlatformAction, whose answer was lost
\* (platform-chat.ts:26-29, create-activities.ts:383).
NamesAreFresh == ~repeated

\* While the chat waits, the console shows the buttons of an open proposal if and
\* only if there is one.
OpenProposalIsShown ==
  pc = "waiting" => (phase = "awaiting-approval" <=> pendingProposal # NoProposal)

================================================================================
