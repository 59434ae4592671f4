-------------------------- MODULE PrLandingProofs --------------------------
(***************************************************************************)
(* Theorems about PrLanding, for every set of threads, every bound and     *)
(* every configuration of the brakes that PrLandingAssumption allows.      *)
(***************************************************************************)
EXTENDS PrLanding, TLAPS

\* A counter that is increased stays under its cap.
LEMMA BumpType == ASSUME NEW n \in 0..CounterCap PROVE Bump(n) \in 0..CounterCap
  BY PrLandingAssumption DEF Bump

\* Whatever the three sources answer, what is read of a commit's CI is a CiStatus.
\* (readCiStatus)
LEMMA CiReadings == readCiStatus \subseteq CiStatus
BY DEF readCiStatus, mergeCiSignals, CiStatus

\* A failure that a source reports is never outvoted, nothing is green while a source
\* reports work in progress, and what no source could be read of is never green.
\* (mergeCiSignals)
THEOREM WorstSignalWins ==
  ASSUME NEW checks \in CiSignal, NEW status \in CiSignal, NEW rollup \in CiSignal
  PROVE LET ci == mergeCiSignals(checks, status, rollup)
            said == {checks, status, rollup} IN
        /\ "failed" \in said => ci = "failed"
        /\ "pending" \in said => ci \in {"failed", "pending"}
        /\ said = {"unknown"} => ci = "unreadable"
BY DEF mergeCiSignals, CiSignal

\* The run begins in a state of its types.
LEMMA InitTypeOK == Init => TypeOK
<1> SUFFICES ASSUME Init PROVE TypeOK
  OBVIOUS
<1>1. ControlOK
  BY DEF Init, ControlOK, Points, LandActivities, AgentStages, SnapshotPoints,
         HumanWaits, Stopped, Phases, Outcomes, BlockReasons
<1>2. CountersOK
  <2>1. 0 \in 0..CounterCap
    BY PrLandingAssumption
  <2>2. seen = {} /\ waitsLifted = FALSE
    BY DEF Init
  <2>3. /\ implementAttempts = 0 /\ iterations = 0 /\ cumulativeTokens = 0
        /\ babysitRounds = 0 /\ waiting = 0
    BY DEF Init
  <2> QED
    BY <2>1, <2>2, <2>3 DEF CountersOK
<1>3. SignalsOK
  <2>1. 1..CounterCap \subseteq 1..Unbounded
    BY PrLandingAssumption DEF Unbounded
  <2>2. brakes \in [BrakeFields -> 1..CounterCap]
    BY PrLandingAssumption DEF Init
  <2>3. brakes \in [BrakeFields -> 1..Unbounded]
    BY <2>1, <2>2
  <2>4. 0 \in 0..MaxResumes
    BY PrLandingAssumption
  <2> QED
    BY <2>3, <2>4 DEF Init, SignalsOK
<1>4. EvidenceOK
  <2>1. 1 \in Commits
    BY PrLandingAssumption DEF Commits
  <2>2. verifiedContent = 1 \/ verifiedContent = None
    BY DEF Init
  <2> QED
    BY <2>1, <2>2 DEF Init, EvidenceOK
<1>5. WorldOK
  <2>1. /\ 1 \in Commits /\ 0 \in 0..MaxLost
        /\ FirstHead \in Commits /\ FirstHead + 1 \in 2..MaxCommits + 1
    BY PrLandingAssumption DEF Init, Commits, FirstHead
  <2>2. input \in Inputs /\ input.adopted \in BOOLEAN
    BY PrLandingAssumption DEF Init, PrLandingInputs
  <2>3. pr \in [head: Commits \cup {None}, state: {"open", "closed", "merged"}]
    BY <2>1, <2>2 DEF Init
  <2>4. /\ ws \in {"none", "live"} /\ local \in {1, None}
        /\ nextCommit = FirstHead + 1 /\ settled = {} /\ lost = 0
    BY DEF Init
  <2> QED
    BY <2>1, <2>2, <2>3, <2>4 DEF WorldOK
<1> QED
  BY <1>1, <1>2, <1>3, <1>4, <1>5 DEF TypeOK

\* The await, the phase, the outcome and the reason of a block keep their types.
LEMMA ControlOKStep == TypeOK /\ [Next]_vars => ControlOK'
<1> SUFFICES ASSUME TypeOK, [Next]_vars PROVE ControlOK'
  OBVIOUS
<1> USE DEF TypeOK, ControlOK, control, Points, LandActivities, AgentStages, SnapshotPoints, HumanWaits, Stopped, Phases, Outcomes, BlockReasons
<1>1. CASE InitialSnapshot
  BY <1>1 DEF InitialSnapshot, Go
<1>2. CASE PrepareWorkspace
  BY <1>2 DEF PrepareWorkspace, Go
<1>3. CASE LandSnapshot
  BY <1>3 DEF LandSnapshot, Babysit, ValidateHead, StartAgent, Go, Finish
<1>4. CASE FullVerify
  BY <1>4 DEF FullVerify, StartAgent, Go, Finish, Brake, RepairAfter
<1>5. CASE Review
  BY <1>5 DEF Review, Babysit, StartAgent, Go, Finish, Brake, RepairAfter
<1>6. CASE Implement
  BY <1>6 DEF Implement, Go
<1>7. CASE PushBranch
  BY <1>7 DEF PushBranch, Go, ForcePush
<1>8. CASE RepairSnapshot
  BY <1>8 DEF RepairSnapshot, ValidateHead, StartAgent, Go, Finish
<1>9. CASE PollEnds
  BY <1>9 DEF PollEnds, Go, Finish
<1>10. CASE BabysitSnapshot
  BY <1>10 DEF BabysitSnapshot, Go, Brake, StartAgent, Finish, Babysit
<1>11. CASE FreshSnapshot
  BY <1>11 DEF FreshSnapshot, Go, Finish, ValidateHead, StartAgent
<1>12. CASE MergePr
  BY <1>12 DEF MergePr, Go, Finish, GithubMerges, Mergeable, ExpectedHead
<1>13. CASE ConflictSnapshot
  BY <1>13 DEF ConflictSnapshot, ValidateHead, StartAgent, Go, Finish
<1>14. CASE BudgetExceeded
  BY <1>14 DEF BudgetExceeded, Brake
<1>15. CASE BudgetReleased
  BY <1>15 DEF BudgetReleased, StartAgent, Go, Finish
<1>16. CASE BrakeReleased
  BY <1>16 DEF BrakeReleased, Finish, Babysit
<1>17. CASE ActivityFails
  BY <1>17 DEF ActivityFails, Finish
<1>18. CASE Cleanup
  BY <1>18 DEF Cleanup, Go
<1>19. CASE Cancel
  BY <1>19 DEF Cancel
<1>20. CASE Wake
  BY <1>20 DEF Wake
<1>21. CASE Resume
  BY <1>21 DEF Resume, LiftedBrakes
<1>22. CASE ExternalPush
  BY <1>22 DEF ExternalPush, NotTheWorkflow
<1>23. CASE ExternalStateChange
  BY <1>23 DEF ExternalStateChange, NotTheWorkflow
<1>24. CASE Settle
  BY <1>24 DEF Settle, NotTheWorkflow
<1>25. CASE AnswerLost
  BY <1>25 DEF AnswerLost, NotTheWorkflow, ForcePush, GithubMerges, Mergeable, ExpectedHead
<1>26. CASE UNCHANGED vars
  BY <1>26 DEF vars, attempts, polling, control, signals, evidence, history, workspace, environment
<1> QED
  BY <1>1, <1>2, <1>3, <1>4, <1>5, <1>6, <1>7, <1>8, <1>9, <1>10, <1>11, <1>12, <1>13, <1>14, <1>15, <1>16, <1>17, <1>18, <1>19, <1>20, <1>21, <1>22, <1>23, <1>24, <1>25, <1>26 DEF Next, WorkflowStep

\* The counters of attempts, rounds, polls and tokens stay within the cap.
LEMMA CountersOKStep == TypeOK /\ [Next]_vars => CountersOK'
<1> SUFFICES ASSUME TypeOK, [Next]_vars PROVE CountersOK'
  OBVIOUS
<1> USE DEF TypeOK, CountersOK, attempts, polling
<1>b. /\ 0 \in 0..CounterCap
      /\ Bump(implementAttempts) \in 0..CounterCap /\ Bump(iterations) \in 0..CounterCap
      /\ Bump(cumulativeTokens) \in 0..CounterCap /\ Bump(babysitRounds) \in 0..CounterCap
      /\ Bump(waiting) \in 0..CounterCap
  BY BumpType, PrLandingAssumption
<1>1. CASE InitialSnapshot
  BY <1>1 DEF InitialSnapshot, Go
<1>2. CASE PrepareWorkspace
  BY <1>2 DEF PrepareWorkspace, Go
<1>3. CASE LandSnapshot
  BY <1>3 DEF LandSnapshot, Babysit, ValidateHead, StartAgent, Go, Finish
<1>4. CASE FullVerify
  BY <1>4, <1>b DEF FullVerify, StartAgent, Go, Finish, Brake, RepairAfter
<1>5. CASE Review
  BY <1>5, <1>b DEF Review, Babysit, StartAgent, Go, Finish, Brake, RepairAfter
<1>6. CASE Implement
  BY <1>6, <1>b DEF Implement, Go
<1>7. CASE PushBranch
  BY <1>7 DEF PushBranch, Go, ForcePush
<1>8. CASE RepairSnapshot
  BY <1>8 DEF RepairSnapshot, ValidateHead, StartAgent, Go, Finish
<1>9. CASE PollEnds
  BY <1>9 DEF PollEnds, Go, Finish
<1>10. CASE BabysitSnapshot
  <2>1. PICK view \in Views :
          \/ UNCHANGED <<attempts, polling>>
          \/ /\ waiting' = 0 /\ seen' = seen \cup {FeedbackHash(Feedback(view))}
             /\ babysitRounds' = Bump(babysitRounds)
             /\ implementAttempts' = Bump(implementAttempts)
             /\ iterations' = Bump(iterations) /\ UNCHANGED waitsLifted
          \/ /\ waiting' = Bump(waiting)
             /\ UNCHANGED <<attempts, babysitRounds, waitsLifted, seen>>
    BY <1>10, Zenon DEF BabysitSnapshot
  <2>2. view \in PrViews
    BY PrLandingAssumption DEF Views, WorldOK
  <2>3. FeedbackHash(Feedback(view)) \in CiStatus \X SUBSET Threads
    BY <2>2, CiReadings DEF FeedbackHash, Feedback, PrViews
  <2>4. cumulativeTokens' = cumulativeTokens
    BY <1>10 DEF BabysitSnapshot
  <2> QED
    BY <2>1, <2>3, <2>4, <1>b
<1>11. CASE FreshSnapshot
  BY <1>11 DEF FreshSnapshot, Go, Finish, ValidateHead, StartAgent
<1>12. CASE MergePr
  BY <1>12 DEF MergePr, Go, Finish, GithubMerges, Mergeable, ExpectedHead
<1>13. CASE ConflictSnapshot
  BY <1>13 DEF ConflictSnapshot, ValidateHead, StartAgent, Go, Finish
<1>14. CASE BudgetExceeded
  BY <1>14 DEF BudgetExceeded, Brake
<1>15. CASE BudgetReleased
  BY <1>15 DEF BudgetReleased, StartAgent, Go, Finish
<1>16. CASE BrakeReleased
  <2>1. \/ UNCHANGED polling
        \/ waitsLifted' = TRUE /\ waiting' = 0 /\ UNCHANGED <<babysitRounds, seen>>
    BY <1>16 DEF BrakeReleased
  <2>2. UNCHANGED <<attempts, cumulativeTokens>>
    BY <1>16 DEF BrakeReleased
  <2> QED
    BY <2>1, <2>2, <1>b
<1>17. CASE ActivityFails
  BY <1>17 DEF ActivityFails, Finish
<1>18. CASE Cleanup
  BY <1>18 DEF Cleanup, Go
<1>19. CASE Cancel
  BY <1>19 DEF Cancel
<1>20. CASE Wake
  BY <1>20 DEF Wake
<1>21. CASE Resume
  BY <1>21 DEF Resume, LiftedBrakes
<1>22. CASE ExternalPush
  BY <1>22 DEF ExternalPush, NotTheWorkflow
<1>23. CASE ExternalStateChange
  BY <1>23 DEF ExternalStateChange, NotTheWorkflow
<1>24. CASE Settle
  BY <1>24 DEF Settle, NotTheWorkflow
<1>25. CASE AnswerLost
  BY <1>25 DEF AnswerLost, NotTheWorkflow, ForcePush, GithubMerges, Mergeable, ExpectedHead
<1>26. CASE UNCHANGED vars
  BY <1>26 DEF vars, attempts, polling, control, signals, evidence, history, workspace, environment
<1> QED
  BY <1>1, <1>2, <1>3, <1>4, <1>5, <1>6, <1>7, <1>8, <1>9, <1>10, <1>11, <1>12, <1>13, <1>14, <1>15, <1>16, <1>17, <1>18, <1>19, <1>20, <1>21, <1>22, <1>23, <1>24, <1>25, <1>26 DEF Next, WorkflowStep

\* Signals and lifted brakes keep their types.
LEMMA SignalsOKStep == TypeOK /\ [Next]_vars => SignalsOK'
<1> SUFFICES ASSUME TypeOK, [Next]_vars PROVE SignalsOK'
  OBVIOUS
<1> USE DEF TypeOK, SignalsOK, control, signals
<1>1. CASE InitialSnapshot
  BY <1>1 DEF InitialSnapshot, Go
<1>2. CASE PrepareWorkspace
  BY <1>2 DEF PrepareWorkspace, Go
<1>3. CASE LandSnapshot
  BY <1>3 DEF LandSnapshot, Babysit, ValidateHead, StartAgent, Go, Finish
<1>4. CASE FullVerify
  BY <1>4 DEF FullVerify, StartAgent, Go, Finish, Brake, RepairAfter
<1>5. CASE Review
  BY <1>5 DEF Review, Babysit, StartAgent, Go, Finish, Brake, RepairAfter
<1>6. CASE Implement
  BY <1>6 DEF Implement, Go
<1>7. CASE PushBranch
  BY <1>7 DEF PushBranch, Go, ForcePush
<1>8. CASE RepairSnapshot
  BY <1>8 DEF RepairSnapshot, ValidateHead, StartAgent, Go, Finish
<1>9. CASE PollEnds
  BY <1>9 DEF PollEnds, Go, Finish
<1>10. CASE BabysitSnapshot
  BY <1>10 DEF BabysitSnapshot, Go, Brake, StartAgent, Finish, Babysit
<1>11. CASE FreshSnapshot
  BY <1>11 DEF FreshSnapshot, Go, Finish, ValidateHead, StartAgent
<1>12. CASE MergePr
  BY <1>12 DEF MergePr, Go, Finish, GithubMerges, Mergeable, ExpectedHead
<1>13. CASE ConflictSnapshot
  BY <1>13 DEF ConflictSnapshot, ValidateHead, StartAgent, Go, Finish
<1>14. CASE BudgetExceeded
  BY <1>14 DEF BudgetExceeded, Brake
<1>15. CASE BudgetReleased
  BY <1>15 DEF BudgetReleased, StartAgent, Go, Finish
<1>16. CASE BrakeReleased
  BY <1>16 DEF BrakeReleased, Finish, Babysit
<1>17. CASE ActivityFails
  BY <1>17 DEF ActivityFails, Finish
<1>18. CASE Cleanup
  BY <1>18 DEF Cleanup, Go
<1>19. CASE Cancel
  BY <1>19 DEF Cancel
<1>20. CASE Wake
  BY <1>20 DEF Wake
<1>21. CASE Resume
  <2>1. brakes' \in [BrakeFields -> 1..Unbounded]
    <3>1. Unbounded \in 1..Unbounded
      BY PrLandingAssumption DEF Unbounded
    <3> QED
      BY <1>21, <3>1 DEF Resume, LiftedBrakes
  <2> QED
    BY <1>21, <2>1, PrLandingAssumption DEF Resume
<1>22. CASE ExternalPush
  BY <1>22 DEF ExternalPush, NotTheWorkflow
<1>23. CASE ExternalStateChange
  BY <1>23 DEF ExternalStateChange, NotTheWorkflow
<1>24. CASE Settle
  BY <1>24 DEF Settle, NotTheWorkflow
<1>25. CASE AnswerLost
  BY <1>25 DEF AnswerLost, NotTheWorkflow, ForcePush, GithubMerges, Mergeable, ExpectedHead
<1>26. CASE UNCHANGED vars
  BY <1>26 DEF vars, attempts, polling, control, signals, evidence, history, workspace, environment
<1> QED
  BY <1>1, <1>2, <1>3, <1>4, <1>5, <1>6, <1>7, <1>8, <1>9, <1>10, <1>11, <1>12, <1>13, <1>14, <1>15, <1>16, <1>17, <1>18, <1>19, <1>20, <1>21, <1>22, <1>23, <1>24, <1>25, <1>26 DEF Next, WorkflowStep

\* What was read, validated, verified and merged are commits, or nothing.
LEMMA EvidenceOKStep == TypeOK /\ [Next]_vars => EvidenceOK'
<1> SUFFICES ASSUME TypeOK, [Next]_vars PROVE EvidenceOK'
  OBVIOUS
<1> USE DEF TypeOK, EvidenceOK, evidence, history
<1>h. pr.head \in Commits \cup {None} /\ FirstHead \in Commits
  BY PrLandingAssumption DEF WorldOK, Commits, FirstHead
<1>1. CASE InitialSnapshot
  BY <1>1, <1>h DEF InitialSnapshot, Go
<1>2. CASE PrepareWorkspace
  BY <1>2 DEF PrepareWorkspace, Go
<1>3. CASE LandSnapshot
  BY <1>3, <1>h DEF LandSnapshot, Babysit, ValidateHead, StartAgent, Go, Finish
<1>4. CASE FullVerify
  BY <1>4 DEF FullVerify, StartAgent, Go, Finish, Brake, RepairAfter
<1>5. CASE Review
  BY <1>5, <1>h DEF WorldOK, Review, Babysit, StartAgent, Go, Finish, Brake, RepairAfter
<1>6. CASE Implement
  BY <1>6 DEF Implement, Go
<1>7. CASE PushBranch
  BY <1>7 DEF PushBranch, Go, ForcePush
<1>8. CASE RepairSnapshot
  BY <1>8, <1>h DEF RepairSnapshot, ValidateHead, StartAgent, Go, Finish
<1>9. CASE PollEnds
  BY <1>9 DEF PollEnds, Go, Finish
<1>10. CASE BabysitSnapshot
  BY <1>10, <1>h DEF BabysitSnapshot, Go, Brake, StartAgent, Finish, Babysit
<1>11. CASE FreshSnapshot
  BY <1>11, <1>h DEF MergeReady, FreshSnapshot, Go, Finish, ValidateHead, StartAgent
<1>12. CASE MergePr
  BY <1>12 DEF MergePr, Go, Finish, GithubMerges, Mergeable, ExpectedHead
<1>13. CASE ConflictSnapshot
  BY <1>13, <1>h DEF ConflictSnapshot, ValidateHead, StartAgent, Go, Finish
<1>14. CASE BudgetExceeded
  BY <1>14 DEF BudgetExceeded, Brake
<1>15. CASE BudgetReleased
  BY <1>15 DEF BudgetReleased, StartAgent, Go, Finish
<1>16. CASE BrakeReleased
  BY <1>16 DEF BrakeReleased, Finish, Babysit
<1>17. CASE ActivityFails
  BY <1>17 DEF ActivityFails, Finish
<1>18. CASE Cleanup
  BY <1>18 DEF Cleanup, Go
<1>19. CASE Cancel
  BY <1>19 DEF Cancel
<1>20. CASE Wake
  BY <1>20 DEF Wake
<1>21. CASE Resume
  BY <1>21 DEF Resume, LiftedBrakes
<1>22. CASE ExternalPush
  BY <1>22 DEF ExternalPush, NotTheWorkflow
<1>23. CASE ExternalStateChange
  BY <1>23 DEF ExternalStateChange, NotTheWorkflow
<1>24. CASE Settle
  BY <1>24 DEF Settle, NotTheWorkflow
<1>25. CASE AnswerLost
  BY <1>25 DEF AnswerLost, NotTheWorkflow, ForcePush, GithubMerges, Mergeable, ExpectedHead
<1>26. CASE UNCHANGED vars
  BY <1>26 DEF vars, attempts, polling, control, signals, evidence, history, workspace, environment
<1> QED
  BY <1>1, <1>2, <1>3, <1>4, <1>5, <1>6, <1>7, <1>8, <1>9, <1>10, <1>11, <1>12, <1>13, <1>14, <1>15, <1>16, <1>17, <1>18, <1>19, <1>20, <1>21, <1>22, <1>23, <1>24, <1>25, <1>26 DEF Next, WorkflowStep

\* The PR and the world beside the workflow keep their types.
LEMMA WorldOKStep == TypeOK /\ [Next]_vars => WorldOK'
<1> SUFFICES ASSUME TypeOK, [Next]_vars PROVE WorldOK'
  OBVIOUS
<1> USE DEF TypeOK, WorldOK, workspace, environment
<1>n. nextCommit <= MaxCommits =>
        nextCommit \in Commits /\ nextCommit + 1 \in 2..MaxCommits + 1
  BY PrLandingAssumption DEF Commits
<1>1. CASE InitialSnapshot
  BY <1>1 DEF InitialSnapshot, Go
<1>2. CASE PrepareWorkspace
  BY <1>2 DEF PrepareWorkspace, Go
<1>3. CASE LandSnapshot
  BY <1>3 DEF LandSnapshot, Babysit, ValidateHead, StartAgent, Go, Finish
<1>4. CASE FullVerify
  BY <1>4 DEF FullVerify, StartAgent, Go, Finish, Brake, RepairAfter
<1>5. CASE Review
  BY <1>5 DEF Review, Babysit, StartAgent, Go, Finish, Brake, RepairAfter
<1>6. CASE Implement
  BY <1>6, <1>n DEF Implement, Go
<1>7. CASE PushBranch
  BY <1>7 DEF PushBranch, Go, ForcePush
<1>8. CASE RepairSnapshot
  BY <1>8 DEF RepairSnapshot, ValidateHead, StartAgent, Go, Finish
<1>9. CASE PollEnds
  BY <1>9 DEF PollEnds, Go, Finish
<1>10. CASE BabysitSnapshot
  BY <1>10 DEF BabysitSnapshot, Go, Brake, StartAgent, Finish, Babysit
<1>11. CASE FreshSnapshot
  BY <1>11 DEF FreshSnapshot, Go, Finish, ValidateHead, StartAgent
<1>12. CASE MergePr
  BY <1>12 DEF MergePr, Go, Finish, GithubMerges, Mergeable, ExpectedHead
<1>13. CASE ConflictSnapshot
  BY <1>13 DEF ConflictSnapshot, ValidateHead, StartAgent, Go, Finish
<1>14. CASE BudgetExceeded
  BY <1>14 DEF BudgetExceeded, Brake
<1>15. CASE BudgetReleased
  BY <1>15 DEF BudgetReleased, StartAgent, Go, Finish
<1>16. CASE BrakeReleased
  BY <1>16 DEF BrakeReleased, Finish, Babysit
<1>17. CASE ActivityFails
  BY <1>17 DEF ActivityFails, Finish
<1>18. CASE Cleanup
  BY <1>18 DEF Cleanup, Go
<1>19. CASE Cancel
  BY <1>19 DEF Cancel
<1>20. CASE Wake
  BY <1>20 DEF Wake
<1>21. CASE Resume
  BY <1>21 DEF Resume, LiftedBrakes
<1>22. CASE ExternalPush
  BY <1>22, <1>n DEF ExternalPush, NotTheWorkflow
<1>23. CASE ExternalStateChange
  BY <1>23 DEF ExternalStateChange, NotTheWorkflow
<1>24. CASE Settle
  BY <1>24 DEF Settle, NotTheWorkflow
<1>25. CASE AnswerLost
  <2>1. pr' \in [head: Commits \cup {None}, state: {"open", "closed", "merged"}]
    BY <1>25 DEF AnswerLost, ForcePush, GithubMerges
  <2>2. lost' \in 0..MaxLost
    BY <1>25, PrLandingAssumption DEF AnswerLost
  <2> QED
    BY <1>25, <2>1, <2>2 DEF AnswerLost, NotTheWorkflow
<1>26. CASE UNCHANGED vars
  BY <1>26 DEF vars, attempts, polling, control, signals, evidence, history, workspace, environment
<1> QED
  BY <1>1, <1>2, <1>3, <1>4, <1>5, <1>6, <1>7, <1>8, <1>9, <1>10, <1>11, <1>12, <1>13, <1>14, <1>15, <1>16, <1>17, <1>18, <1>19, <1>20, <1>21, <1>22, <1>23, <1>24, <1>25, <1>26 DEF Next, WorkflowStep

\* Type correctness of every reachable state.
THEOREM TypeCorrect == Spec => []TypeOK
<1>1. TypeOK /\ [Next]_vars => TypeOK'
  BY ControlOKStep, CountersOKStep, SignalsOKStep, EvidenceOKStep, WorldOKStep
  DEF TypeOK
<1> QED
  BY InitTypeOK, <1>1, PTL DEF Spec

-----------------------------------------------------------------------------
(***************************************************************************)
(* MergedHeadIsValidated is not inductive: the merge happens one step      *)
(* after the head was compared.  LandingInv adds what holds at that await, *)
(* that a merged PR keeps its head, and that an outcome is final.          *)
(***************************************************************************)
Finishing == {"cleanup"} \cup Stopped

LandingInv ==
  /\ pc = "mergePr" => currentHeadSha = validatedHeadSha
  /\ mergedHead # None => /\ pc \in {"mergePr"} \cup Finishing
                          /\ pr.state = "merged"
                          /\ mergedHead = pr.head
                          /\ mergedHead = validatedHeadSha
  /\ outcome # "none" => pc \in Finishing
  /\ outcome = "merge-ready-manual" => currentHeadSha = validatedHeadSha

\* At the start nothing is merged and nothing pends.
LEMMA LandingInvInit == Init => LandingInv
  BY DEF Init, LandingInv, Finishing, Stopped, None

\* Between the validation of a head and its merge no step puts another in its place.
LEMMA LandingInvStep == TypeOK /\ LandingInv /\ [Next]_vars => LandingInv'
<1> SUFFICES ASSUME TypeOK, LandingInv, [Next]_vars PROVE LandingInv'
  OBVIOUS
<1> USE DEF LandingInv, Finishing, Stopped, control, evidence, history, environment
<1>1. CASE InitialSnapshot
  BY <1>1 DEF InitialSnapshot, Go
<1>2. CASE PrepareWorkspace
  BY <1>2 DEF PrepareWorkspace, Go
<1>3. CASE LandSnapshot
  BY <1>3 DEF LandSnapshot, Babysit, ValidateHead, StartAgent, Go, Finish
<1>4. CASE FullVerify
  BY <1>4 DEF FullVerify, StartAgent, Go, Finish, Brake, RepairAfter
<1>5. CASE Review
  BY <1>5 DEF Review, Babysit, StartAgent, Go, Finish, Brake, RepairAfter
<1>6. CASE Implement
  BY <1>6 DEF Implement, Go
<1>7. CASE PushBranch
  BY <1>7 DEF PushBranch, Go, ForcePush
<1>8. CASE RepairSnapshot
  BY <1>8 DEF RepairSnapshot, ValidateHead, StartAgent, Go, Finish
<1>9. CASE PollEnds
  BY <1>9 DEF PollEnds, Go, Finish
<1>10. CASE BabysitSnapshot
  BY <1>10 DEF BabysitSnapshot, Go, Brake, StartAgent, Finish, Babysit
<1>11. CASE FreshSnapshot
  BY <1>11 DEF FreshSnapshot, HeadIsValidated, Go, Finish, ValidateHead, StartAgent
<1>12. CASE MergePr
  <2>1. CASE GithubMerges /\ Finish("done", "merged", blockReason)
    <3>1. pr.head = validatedHeadSha /\ mergedHead' = pr.head
      BY <1>12, <2>1 DEF MergePr, GithubMerges, Mergeable, ExpectedHead
    <3>2. pr'.head = pr.head /\ pr'.state = "merged"
      BY <2>1 DEF GithubMerges, TypeOK, WorldOK
    <3>3. UNCHANGED evidence /\ pc' = "cleanup" /\ outcome' = "merged"
      BY <1>12, <2>1 DEF MergePr, Finish, GithubMerges, Mergeable, ExpectedHead
    <3> QED
      BY <3>1, <3>2, <3>3
  <2>2. CASE UNCHANGED <<pr, mergedHead>>
    BY <1>12, <2>2 DEF MergePr, Go, Finish, GithubMerges, Mergeable, ExpectedHead,
       TypeOK, WorldOK
  <2> QED
    BY <1>12, <2>1, <2>2 DEF MergePr
<1>13. CASE ConflictSnapshot
  BY <1>13 DEF ConflictSnapshot, ValidateHead, StartAgent, Go, Finish
<1>14. CASE BudgetExceeded
  BY <1>14 DEF BudgetExceeded, Brake, AgentStages
<1>15. CASE BudgetReleased
  BY <1>15 DEF BudgetReleased, StartAgent, Go, Finish, TypeOK, ControlOK, AgentStages
<1>16. CASE BrakeReleased
  BY <1>16 DEF BrakeReleased, Finish, Babysit
<1>17. CASE ActivityFails
  BY <1>17 DEF ActivityFails, Finish
<1>18. CASE Cleanup
  BY <1>18 DEF Cleanup, Go
<1>19. CASE Cancel
  BY <1>19 DEF Cancel
<1>20. CASE Wake
  BY <1>20 DEF Wake
<1>21. CASE Resume
  BY <1>21 DEF Resume, LiftedBrakes
<1>22. CASE ExternalPush
  BY <1>22 DEF ExternalPush, NotTheWorkflow
<1>23. CASE ExternalStateChange
  BY <1>23 DEF ExternalStateChange, NotTheWorkflow
<1>24. CASE Settle
  BY <1>24 DEF Settle, NotTheWorkflow
<1>25. CASE AnswerLost
  <2>0. UNCHANGED <<control, evidence>>
    BY <1>25 DEF AnswerLost, NotTheWorkflow
  <2>1. CASE pc = "pushBranch" /\ ForcePush /\ UNCHANGED mergedHead
    BY <2>0, <2>1 DEF ForcePush
  <2>2. CASE pc = "mergePr" /\ GithubMerges
    <3>1. pr.head = validatedHeadSha /\ mergedHead' = pr.head
      BY <2>2 DEF GithubMerges, Mergeable, ExpectedHead
    <3>2. pr'.head = pr.head /\ pr'.state = "merged"
      BY <2>2 DEF GithubMerges, TypeOK, WorldOK
    <3> QED
      BY <2>0, <2>2, <3>1, <3>2
  <2> QED
    BY <1>25, <2>1, <2>2 DEF AnswerLost
<1>26. CASE UNCHANGED vars
  BY <1>26 DEF vars
<1> QED
  BY <1>1, <1>2, <1>3, <1>4, <1>5, <1>6, <1>7, <1>8, <1>9, <1>10, <1>11, <1>12, <1>13, <1>14, <1>15, <1>16, <1>17, <1>18, <1>19, <1>20, <1>21, <1>22, <1>23, <1>24, <1>25, <1>26 DEF Next, WorkflowStep

\* Evidence for every merge, for any number of pushes, retries and resumes.
THEOREM LandsOnlyValidatedHeads == Spec => []MergedHeadIsValidated
<1>1. TypeOK /\ LandingInv /\ [Next]_vars => LandingInv'
  BY LandingInvStep
<1>2. LandingInv => MergedHeadIsValidated
  BY DEF LandingInv, MergedHeadIsValidated
<1> QED
  BY TypeCorrect, LandingInvInit, <1>1, <1>2, PTL DEF Spec

-----------------------------------------------------------------------------
(***************************************************************************)
(* The number of repairs.  Beside the types RepairsAreBounded is inductive *)
(* as it stands: a repair on a verdict is started below the limit only, a  *)
(* repair on feedback pays with a round, and a lifted brake never equals   *)
(* the configured one again.                                               *)
(***************************************************************************)
LEMMA FixIsBelowTheLimit ==
  ASSUME NEW counters, NEW fullVerify, NEW review, NEW diffEmpty, NEW limits,
         NextRepairAction(counters, fullVerify, review, diffEmpty, limits).kind = "fix"
  PROVE  ~(counters.implementAttempts >= limits.maxImplementAttempts)
  BY DEF NextRepairAction, AttemptsExhausted

\* A feedback round starts only below its cap (babysitDecision).
LEMMA ActionableIsBelowTheCap ==
  ASSUME NEW feedback, NEW hashes, NEW rounds, NEW cap, NEW n, NEW maxWaits, NEW maxPending,
         BabysitDecision(feedback, hashes, rounds, cap, n, maxWaits, maxPending) = "actionable"
  PROVE  rounds < cap
  BY DEF BabysitDecision, RoundsLeft

\* A repair that starts is counted, and starts only below the attempt limit.
LEMMA RepairAfterCounts ==
  ASSUME TypeOK, RepairsAreBounded, UNCHANGED <<brakes, babysitRounds>>,
         NEW fullVerify, NEW review, RepairAfter(fullVerify, review)
  PROVE  RepairsAreBounded'
<1> DEFINE counters == [implementAttempts |-> implementAttempts, iterations |-> iterations,
                        cumulativeTokens |-> cumulativeTokens', babysitRounds |-> babysitRounds]
           action == NextRepairAction(counters, fullVerify, review, FALSE, brakes).kind
<1>1. CASE UNCHANGED implementAttempts
  BY <1>1 DEF RepairsAreBounded
<1>2. CASE action = "fix" /\ implementAttempts' = Bump(implementAttempts)
  <2>1. ~(counters.implementAttempts >= brakes.maxImplementAttempts)
    BY <1>2, FixIsBelowTheLimit
  <2>2. implementAttempts < brakes.maxImplementAttempts
    BY <2>1, PrLandingAssumption DEF TypeOK, CountersOK, SignalsOK, BrakeFields, Unbounded
  <2>3. implementAttempts' <= implementAttempts + 1
    BY <1>2 DEF Bump, TypeOK, CountersOK
  <2> QED
    BY <2>2, <2>3, BumpType, <1>2, PrLandingAssumption
    DEF RepairsAreBounded, TypeOK, CountersOK, BrakeFields
<1> QED
  BY <1>1, <1>2 DEF RepairAfter, attempts

\* No step counts beyond a limit that no resume has lifted.
LEMMA RepairsAreBoundedStep ==
  TypeOK /\ RepairsAreBounded /\ [Next]_vars => RepairsAreBounded'
<1> SUFFICES ASSUME TypeOK, RepairsAreBounded, [Next]_vars PROVE RepairsAreBounded'
  OBVIOUS
<1> DEFINE counted == <<implementAttempts, babysitRounds, brakes>>
<1>0. ASSUME UNCHANGED counted PROVE RepairsAreBounded'
  BY <1>0 DEF RepairsAreBounded
<1>1. CASE InitialSnapshot
  BY <1>0, <1>1 DEF InitialSnapshot, attempts, polling, signals
<1>2. CASE PrepareWorkspace
  BY <1>0, <1>2 DEF PrepareWorkspace, attempts, polling, signals
<1>3. CASE LandSnapshot
  BY <1>0, <1>3 DEF LandSnapshot, attempts, polling, signals
<1>4. CASE FullVerify
  <2>1. UNCHANGED <<brakes, babysitRounds>>
    BY <1>4 DEF FullVerify, polling, signals
  <2>2. UNCHANGED attempts \/ RepairAfter("fail", "fail")
    BY <1>4 DEF FullVerify
  <2> QED
    BY <1>0, <2>1, <2>2, RepairAfterCounts DEF attempts
<1>5. CASE Review
  <2>1. UNCHANGED <<brakes, babysitRounds>>
    BY <1>5 DEF Review, polling, signals
  <2>2. UNCHANGED attempts \/ RepairAfter("pass", "fail")
    BY <1>5 DEF Review
  <2> QED
    BY <1>0, <2>1, <2>2, RepairAfterCounts DEF attempts
<1>6. CASE Implement
  BY <1>0, <1>6 DEF Implement, attempts, polling, signals
<1>7. CASE PushBranch
  BY <1>0, <1>7 DEF PushBranch, attempts, polling, signals
<1>8. CASE RepairSnapshot
  BY <1>0, <1>8 DEF RepairSnapshot, attempts, polling, signals
<1>9. CASE PollEnds
  BY <1>0, <1>9 DEF PollEnds, attempts, polling, signals
<1>10. CASE BabysitSnapshot
  <2>1. UNCHANGED brakes
    BY <1>10 DEF BabysitSnapshot, signals
  <2>2. CASE UNCHANGED <<attempts, babysitRounds>>
    BY <1>0, <2>1, <2>2 DEF attempts
  <2>3. CASE /\ babysitRounds < brakes.maxBabysitRounds
             /\ babysitRounds' = Bump(babysitRounds)
             /\ implementAttempts' = Bump(implementAttempts)
    <3>1. /\ implementAttempts \in 0..CounterCap /\ babysitRounds \in 0..CounterCap
          /\ brakes.maxBabysitRounds \in Nat /\ brakes.maxImplementAttempts \in Nat
          /\ CounterCap \in Nat
          /\ ConfigBrakes.maxImplementAttempts \in 1..CounterCap
          /\ ConfigBrakes.maxBabysitRounds \in 1..CounterCap
      BY PrLandingAssumption DEF TypeOK, CountersOK, SignalsOK, BrakeFields, Unbounded
    <3> QED
      BY <2>1, <2>3, <3>1 DEF RepairsAreBounded, Bump
  <2>4. UNCHANGED <<attempts, babysitRounds>>
        \/ /\ babysitRounds < brakes.maxBabysitRounds
           /\ babysitRounds' = Bump(babysitRounds)
           /\ implementAttempts' = Bump(implementAttempts)
    BY <1>10, ActionableIsBelowTheCap DEF BabysitSnapshot, polling
  <2> QED
    BY <2>2, <2>3, <2>4
<1>11. CASE FreshSnapshot
  BY <1>0, <1>11 DEF FreshSnapshot, attempts, polling, signals
<1>12. CASE MergePr
  BY <1>0, <1>12 DEF MergePr, attempts, polling, signals
<1>13. CASE ConflictSnapshot
  BY <1>0, <1>13 DEF ConflictSnapshot, attempts, polling, signals
<1>14. CASE BudgetExceeded
  BY <1>0, <1>14 DEF BudgetExceeded, attempts, polling, signals
<1>15. CASE BudgetReleased
  BY <1>0, <1>15 DEF BudgetReleased, attempts, polling, signals
<1>16. CASE BrakeReleased
  BY <1>0, <1>16 DEF BrakeReleased, attempts, polling, signals
<1>17. CASE ActivityFails
  BY <1>0, <1>17 DEF ActivityFails, attempts, polling, signals
<1>18. CASE Cleanup
  BY <1>0, <1>18 DEF Cleanup, attempts, polling, signals
<1>19. CASE Cancel
  BY <1>0, <1>19 DEF Cancel, attempts, polling, signals
<1>20. CASE Wake
  BY <1>0, <1>20 DEF Wake, attempts, polling, signals
<1>21. CASE Resume
  <2>1. UNCHANGED <<implementAttempts, babysitRounds>> /\ brakes' = LiftedBrakes
    BY <1>21 DEF Resume, attempts, polling
  <2>2. /\ ConfigBrakes.maxImplementAttempts < Unbounded
        /\ ConfigBrakes.maxBabysitRounds < Unbounded
    BY PrLandingAssumption DEF Unbounded, BrakeFields
  <2>3. brakes'.maxImplementAttempts \in {brakes.maxImplementAttempts, Unbounded}
        /\ brakes'.maxBabysitRounds \in {brakes.maxBabysitRounds, Unbounded}
    BY <2>1 DEF LiftedBrakes, TypeOK, SignalsOK, BrakeFields
  <2>4. ConfigBrakes.maxImplementAttempts # Unbounded /\ ConfigBrakes.maxBabysitRounds # Unbounded
    BY <2>2, PrLandingAssumption DEF BrakeFields, Unbounded
  <2> QED
    BY <2>1, <2>3, <2>4 DEF RepairsAreBounded
<1>22. CASE ExternalPush
  BY <1>0, <1>22 DEF ExternalPush, attempts, polling, signals, NotTheWorkflow
<1>23. CASE ExternalStateChange
  BY <1>0, <1>23 DEF ExternalStateChange, attempts, polling, signals, NotTheWorkflow
<1>24. CASE Settle
  BY <1>0, <1>24 DEF Settle, attempts, polling, signals, NotTheWorkflow
<1>25. CASE AnswerLost
  BY <1>0, <1>25 DEF AnswerLost, attempts, polling, signals, NotTheWorkflow
<1>26. CASE UNCHANGED vars
  BY <1>0, <1>26 DEF vars, attempts, polling, signals
<1> QED
  BY <1>1, <1>2, <1>3, <1>4, <1>5, <1>6, <1>7, <1>8, <1>9, <1>10, <1>11, <1>12, <1>13, <1>14, <1>15, <1>16, <1>17, <1>18, <1>19, <1>20, <1>21, <1>22, <1>23, <1>24, <1>25, <1>26 DEF Next, WorkflowStep

\* Repairs stay within the brakes of the project until a human lifts one.
THEOREM RepairsStayBounded == Spec => []RepairsAreBounded
<1>1. Init => RepairsAreBounded
  BY PrLandingAssumption DEF Init, RepairsAreBounded, BrakeFields
<1> QED
  BY TypeCorrect, <1>1, RepairsAreBoundedStep, PTL DEF Spec

-----------------------------------------------------------------------------
(***************************************************************************)
(* The worktree.  WorkspaceInv says where the coroutine owns one: from the *)
(* moment it has one to the finally block, through every wait.             *)
(***************************************************************************)
Owning == LandActivities \cup HumanWaits \cup {"poll", "cleanup"}

WorkspaceInv ==
  /\ pc \in Owning => ws = "live"
  /\ pc = "initialSnapshot" => ws = IF input.adopted THEN "live" ELSE "none"
  /\ pc = "prepareWorkspace" => ws = "none"
  /\ pc = "returned" => ws # "live"

\* The worktree stays until the last await that uses it.
LEMMA WorkspaceInvStep == TypeOK /\ WorkspaceInv /\ [Next]_vars => WorkspaceInv'
<1> SUFFICES ASSUME TypeOK, WorkspaceInv, [Next]_vars PROVE WorkspaceInv'
  OBVIOUS
<1> USE DEF WorkspaceInv, Owning, LandActivities, HumanWaits, AgentStages, SnapshotPoints,
            control, workspace
<1>1. CASE InitialSnapshot
  BY <1>1 DEF InitialSnapshot, Go
<1>2. CASE PrepareWorkspace
  BY <1>2 DEF PrepareWorkspace, Go
<1>3. CASE LandSnapshot
  BY <1>3 DEF LandSnapshot, Babysit, ValidateHead, StartAgent, Go, Finish
<1>4. CASE FullVerify
  BY <1>4 DEF FullVerify, StartAgent, Go, Finish, Brake, RepairAfter
<1>5. CASE Review
  BY <1>5 DEF Review, Babysit, StartAgent, Go, Finish, Brake, RepairAfter
<1>6. CASE Implement
  BY <1>6 DEF Implement, Go
<1>7. CASE PushBranch
  BY <1>7 DEF PushBranch, Go, ForcePush
<1>8. CASE RepairSnapshot
  BY <1>8 DEF RepairSnapshot, ValidateHead, StartAgent, Go, Finish
<1>9. CASE PollEnds
  BY <1>9 DEF PollEnds, Go, Finish
<1>10. CASE BabysitSnapshot
  BY <1>10 DEF BabysitSnapshot, Go, Brake, StartAgent, Finish, Babysit
<1>11. CASE FreshSnapshot
  BY <1>11 DEF FreshSnapshot, Go, Finish, ValidateHead, StartAgent, HeadIsValidated
<1>12. CASE MergePr
  BY <1>12 DEF MergePr, Go, Finish, GithubMerges, Mergeable, ExpectedHead
<1>13. CASE ConflictSnapshot
  BY <1>13 DEF ConflictSnapshot, ValidateHead, StartAgent, Go, Finish
<1>14. CASE BudgetExceeded
  BY <1>14 DEF BudgetExceeded, Brake
<1>15. CASE BudgetReleased
  BY <1>15 DEF BudgetReleased, StartAgent, Go, Finish, TypeOK, ControlOK
<1>16. CASE BrakeReleased
  BY <1>16 DEF BrakeReleased, Finish, Babysit
<1>17. CASE ActivityFails
  BY <1>17 DEF ActivityFails, Finish
<1>18. CASE Cleanup
  BY <1>18 DEF Cleanup, Go
<1>19. CASE Cancel
  BY <1>19 DEF Cancel
<1>20. CASE Wake
  BY <1>20 DEF Wake
<1>21. CASE Resume
  BY <1>21 DEF Resume, LiftedBrakes
<1>22. CASE ExternalPush
  BY <1>22 DEF ExternalPush, NotTheWorkflow
<1>23. CASE ExternalStateChange
  BY <1>23 DEF ExternalStateChange, NotTheWorkflow
<1>24. CASE Settle
  BY <1>24 DEF Settle, NotTheWorkflow
<1>25. CASE AnswerLost
  BY <1>25 DEF AnswerLost, NotTheWorkflow, ForcePush, GithubMerges, Mergeable, ExpectedHead
<1>26. CASE UNCHANGED vars
  BY <1>26 DEF vars
<1> QED
  BY <1>1, <1>2, <1>3, <1>4, <1>5, <1>6, <1>7, <1>8, <1>9, <1>10, <1>11, <1>12, <1>13, <1>14, <1>15, <1>16, <1>17, <1>18, <1>19, <1>20, <1>21, <1>22, <1>23, <1>24, <1>25, <1>26 DEF Next, WorkflowStep

\* No agent and no push runs without the worktree, and a run that returns
\* leaves none behind.
THEOREM WorkspaceIsOwned == Spec => []WorkspaceOutlivesUse
<1>1. Init => WorkspaceInv
  BY DEF Init, WorkspaceInv, Owning, LandActivities, HumanWaits, AgentStages, SnapshotPoints
<1>2. WorkspaceInv => WorkspaceOutlivesUse
  BY DEF WorkspaceInv, WorkspaceOutlivesUse, Owning, LandActivities
<1> QED
  BY TypeCorrect, <1>1, WorkspaceInvStep, <1>2, PTL DEF Spec

-----------------------------------------------------------------------------
(***************************************************************************)
(* What the merged head contains.  While only the workflow pushes, and the *)
(* branch is not in a fork, the worktree holds the head of the open PR     *)
(* except between a repair and its push; a validation runs on that head,   *)
(* and the SHA it records is the one of the content it looked at.  Only    *)
(* the head a devCycle handed over is on its word: it may be a foreign one *)
(* or one its gates did not pass.                                          *)
(***************************************************************************)
SolePusher == ~ExternalPushes /\ \A i \in Inputs : ~i.fork

Validating(point) == point \in {"full_verify", "review"}

OnTrust(commit) == input.handed \in {"exhausted", "foreign"} /\ commit = FirstHead
Foreign(commit) == input.handed = "foreign" /\ commit = FirstHead

ContentInv ==
  /\ pc = "initialSnapshot" => /\ pr.head = FirstHead /\ validatedHeadSha = None
                               /\ input.handed = "passed" => verifiedContent = FirstHead
  /\ pr.state = "open" =>
       /\ ws = "live" /\ pc \notin {"pushBranch"} \cup Finishing =>
            local = pr.head \/ Foreign(pr.head)
       /\ validatedHeadSha # None =>
            verifiedContent = validatedHeadSha \/ OnTrust(validatedHeadSha)
       /\ Validating(pc) \/ (pc = "budget" /\ Validating(resumeTo)) => currentHeadSha = pr.head
  /\ mergedHead # None => mergedHead = verifiedContent \/ OnTrust(mergedHead)

\* While nobody else pushes, a changed worktree is pushed or dropped before a merge.
LEMMA ContentInvStep ==
  SolePusher /\ TypeOK /\ LandingInv /\ WorkspaceInv /\ ContentInv /\ [Next]_vars
    => ContentInv'
<1> SUFFICES ASSUME SolePusher, TypeOK, LandingInv, WorkspaceInv, ContentInv, [Next]_vars
             PROVE ContentInv'
  OBVIOUS
<1>0. FirstHead' = FirstHead \/ input' # input
  BY DEF FirstHead
<1> USE <1>0 DEF ContentInv, OnTrust, Foreign, Validating, Finishing, Stopped, control, evidence, workspace, environment, history
<1>1. CASE InitialSnapshot
  <2>1. input.adopted => input.handed \in HandOvers
    BY PrLandingAssumption DEF TypeOK, WorldOK, PrLandingInputs
  <2> QED
    BY <1>1, <2>1 DEF InitialSnapshot, Go, None, HandOvers
<1>2. CASE PrepareWorkspace
  BY <1>2 DEF PrepareWorkspace, Go, TypeOK, WorldOK
<1>3. CASE LandSnapshot
  BY <1>3 DEF LandSnapshot, Babysit, ValidateHead, StartAgent, Go, Finish
<1>4. CASE FullVerify
  BY <1>4 DEF FullVerify, StartAgent, Go, Finish, Brake, RepairAfter
<1>5. CASE Review
  BY <1>5 DEF Review, Babysit, StartAgent, Go, Finish, Brake, RepairAfter, WorkspaceInv, Owning, LandActivities, AgentStages, SnapshotPoints, LandingInv
<1>6. CASE Implement
  BY <1>6 DEF Implement, Go, WorkspaceInv, Owning, LandActivities, AgentStages, SnapshotPoints
<1>7. CASE PushBranch
  BY <1>7 DEF PushBranch, Go, ForcePush, WorkspaceInv, Owning, LandActivities, AgentStages, SnapshotPoints, TypeOK, WorldOK, SolePusher
<1>8. CASE RepairSnapshot
  BY <1>8 DEF RepairSnapshot, ValidateHead, StartAgent, Go, Finish
<1>9. CASE PollEnds
  BY <1>9 DEF PollEnds, Go, Finish
<1>10. CASE BabysitSnapshot
  BY <1>10 DEF BabysitSnapshot, Go, Brake, StartAgent, Finish, Babysit
<1>11. CASE FreshSnapshot
  BY <1>11 DEF FreshSnapshot, Go, Finish, ValidateHead, StartAgent, HeadIsValidated
<1>12. CASE MergePr
  BY <1>12 DEF MergePr, Go, Finish, GithubMerges, Mergeable, ExpectedHead, WorkspaceInv, Owning, LandActivities, AgentStages, SnapshotPoints, LandingInv, Finishing, Stopped, TypeOK, WorldOK
<1>13. CASE ConflictSnapshot
  BY <1>13 DEF ConflictSnapshot, ValidateHead, StartAgent, Go, Finish
<1>14. CASE BudgetExceeded
  BY <1>14 DEF BudgetExceeded, Brake, TypeOK, ControlOK, AgentStages
<1>15. CASE BudgetReleased
  BY <1>15 DEF BudgetReleased, StartAgent, Go, Finish, TypeOK, ControlOK, AgentStages
<1>16. CASE BrakeReleased
  BY <1>16 DEF BrakeReleased, Finish, Babysit
<1>17. CASE ActivityFails
  BY <1>17 DEF ActivityFails, Finish
<1>18. CASE Cleanup
  BY <1>18 DEF Cleanup, Go
<1>19. CASE Cancel
  BY <1>19 DEF Cancel
<1>20. CASE Wake
  BY <1>20 DEF Wake
<1>21. CASE Resume
  BY <1>21 DEF Resume, LiftedBrakes
<1>22. CASE ExternalPush
  BY <1>22 DEF ExternalPush, NotTheWorkflow, SolePusher
<1>23. CASE ExternalStateChange
  BY <1>23 DEF ExternalStateChange, NotTheWorkflow, TypeOK, WorldOK
<1>24. CASE Settle
  BY <1>24 DEF Settle, NotTheWorkflow
<1>25. CASE AnswerLost
  BY <1>25 DEF AnswerLost, NotTheWorkflow, ForcePush, GithubMerges, Mergeable, ExpectedHead, WorkspaceInv, Owning, LandActivities, AgentStages, SnapshotPoints, LandingInv, Finishing, Stopped, TypeOK, WorldOK, SolePusher
<1>26. CASE UNCHANGED vars
  BY <1>26 DEF vars
<1> QED
  BY <1>1, <1>2, <1>3, <1>4, <1>5, <1>6, <1>7, <1>8, <1>9, <1>10, <1>11, <1>12, <1>13, <1>14, <1>15, <1>16, <1>17, <1>18, <1>19, <1>20, <1>21, <1>22, <1>23, <1>24, <1>25, <1>26 DEF Next, WorkflowStep

\* The design's promise, for every run whose branch nobody else pushes to while it
\* lasts, of every head but the one a devCycle handed over without a pass.
THEOREM SolePusherLandsVerifiedContent == SolePusher => (Spec => []MergedContentWasVerified)
<1>1. Init => ContentInv
  BY DEF Init, ContentInv, OnTrust, Foreign, FirstHead, Validating, Finishing, Stopped, None
<1>2. Init => WorkspaceInv
  BY DEF Init, WorkspaceInv, Owning, LandActivities, HumanWaits, AgentStages, SnapshotPoints
<1>3. ContentInv => MergedContentWasVerified
  BY DEF ContentInv, OnTrust, MergedContentWasVerified
<1> SUFFICES ASSUME SolePusher PROVE Spec => []MergedContentWasVerified
  OBVIOUS
<1>4. TypeOK /\ LandingInv /\ WorkspaceInv /\ ContentInv /\ [Next]_vars => ContentInv'
  BY ContentInvStep
<1> QED
  BY TypeCorrect, LandingInvInit, LandingInvStep, WorkspaceInvStep, <1>1, <1>2, <1>3, <1>4,
     PTL DEF Spec

-----------------------------------------------------------------------------
(***************************************************************************)
(* The promise to whoever started the run.  The steps at an await of       *)
(* land() have one effect on what is seen of the run: it goes on, waits,   *)
(* or cleans up.  PromiseInv says what a result tells.                     *)
(***************************************************************************)
Landings == LandActivities \cup {"poll"}

PromiseInv ==
  /\ pc \in {"cleanup", "returned"} => outcome # "none"
  /\ outcome = "cancelled" => cancelled
  /\ outcome # "none" => pc \in Finishing

\* A run that ends has an outcome, and it is "cancelled" only if it was.
LEMMA PromiseInvStep == TypeOK /\ PromiseInv /\ [Next]_vars => PromiseInv'
<1> SUFFICES ASSUME TypeOK, PromiseInv, [Next]_vars PROVE PromiseInv'
  OBVIOUS
<1> USE DEF PromiseInv, Finishing, Stopped, control, signals, Go, Finish, Babysit, Brake,
            StartAgent
<1>1. CASE InitialSnapshot \/ PrepareWorkspace \/ LandSnapshot
  BY <1>1 DEF InitialSnapshot, PrepareWorkspace, LandSnapshot, ValidateHead
<1>2. CASE FullVerify \/ Review \/ Implement \/ PushBranch \/ RepairSnapshot
  BY <1>2 DEF FullVerify, Review, Implement, PushBranch, RepairSnapshot, RepairAfter, ValidateHead
<1>3. CASE PollEnds
  BY <1>3 DEF PollEnds
<1>4. CASE BabysitSnapshot
  BY <1>4 DEF BabysitSnapshot
<1>5. CASE FreshSnapshot
  BY <1>5 DEF FreshSnapshot, ValidateHead
<1>6. CASE MergePr \/ ConflictSnapshot
  BY <1>6 DEF MergePr, ConflictSnapshot, ValidateHead
<1>7. CASE BudgetExceeded \/ BudgetReleased \/ BrakeReleased
  BY <1>7 DEF BudgetExceeded, BudgetReleased, BrakeReleased, TypeOK, ControlOK, AgentStages, HumanWaits
<1>8. CASE ActivityFails \/ Cleanup
  BY <1>8 DEF ActivityFails, Cleanup
<1>9. CASE Cancel \/ Wake \/ Resume
  BY <1>9 DEF Cancel, Wake, Resume
<1>10. CASE ExternalPush \/ ExternalStateChange \/ Settle \/ AnswerLost
  BY <1>10 DEF ExternalPush, ExternalStateChange, Settle, AnswerLost, NotTheWorkflow
<1>11. CASE UNCHANGED vars
  BY <1>11 DEF vars
<1> QED
  BY <1>1, <1>2, <1>3, <1>4, <1>5, <1>6, <1>7, <1>8, <1>9, <1>10, <1>11 DEF Next, WorkflowStep

\* A step at an await of land() is seen as going on, braking or ending.
LEMMA LandingIsSeen ==
  ASSUME WorkspaceInv, pc \in Landings, UNCHANGED <<cancelled, ws>>,
         \/ pc' \in Landings \cup {"cleanup"}
         \/ pc' \in HumanWaits /\ blockReason' # "none"
  PROVE  [Landing!Next]_(Landing!landingVars)
<1> USE DEF ChildState, Landings, LandActivities, AgentStages, SnapshotPoints, HumanWaits
<1>1. ChildState = "running" /\ ~(pc \in HumanWaits /\ blockReason = "none") /\ ws = "live"
  BY DEF WorkspaceInv, Owning
<1>2. CASE pc' \in Landings
  <2>1. ChildState' = "running" /\ ~(pc \in HumanWaits /\ blockReason = "none")'
    BY <1>2
  <2>2. QED BY <1>1, <2>1 DEF Landing!landingVars
<1>3. CASE pc' = "cleanup"
  <2>1. ChildState' = "ending" /\ ~(pc \in HumanWaits /\ blockReason = "none")'
    BY <1>3
  <2>2. QED BY <1>1, <2>1 DEF Landing!Next, Landing!Ends
<1>4. CASE pc' \in HumanWaits /\ blockReason' # "none"
  <2>1. ChildState' = "braked" /\ ~(pc \in HumanWaits /\ blockReason = "none")'
    BY <1>4
  <2>2. QED BY <1>1, <2>1 DEF Landing!Next, Landing!Brakes
<1> QED BY <1>2, <1>3, <1>4

\* A step that touches neither the await nor a signal is not seen.
LEMMA NothingIsSeen ==
  ASSUME UNCHANGED <<pc, outcome, blockReason, cancelled, ws>>
  PROVE  [Landing!Next]_(Landing!landingVars)
BY DEF ChildState, Landing!landingVars

\* The awaits before land(): the worktree is handed over or prepared.
LEMMA BeginningIsSeen ==
  ASSUME TypeOK, WorkspaceInv, PromiseInv, InitialSnapshot \/ PrepareWorkspace
  PROVE  [Landing!Next]_(Landing!landingVars)
<1> USE DEF ChildState, HumanWaits, Go, workspace, signals
<1>1. CASE InitialSnapshot
  <2>1. /\ pc = "initialSnapshot" /\ pc' \in {"landSnapshot", "prepareWorkspace", "workflowFailed"}
        /\ UNCHANGED <<cancelled, ws>>
    BY <1>1 DEF InitialSnapshot
  <2>2. CASE pc' = "workflowFailed"
    BY <2>1, <2>2 DEF Landing!Next, Landing!Crashes
  <2>3. CASE pc' # "workflowFailed"
    BY <2>1, <2>3 DEF Landing!landingVars
  <2>4. QED BY <2>2, <2>3
<1>2. CASE PrepareWorkspace
  <2>1. /\ pc = "prepareWorkspace" /\ ws = "none" /\ UNCHANGED cancelled
        /\ \/ pc' = "landSnapshot" /\ ws' = "live"
           \/ pc' = "returned" /\ ws' = ws /\ outcome' = "failed"
    BY <1>2 DEF PrepareWorkspace, WorkspaceInv
  <2>2. CASE pc' = "landSnapshot" /\ ws' = "live"
    BY <2>1, <2>2 DEF Landing!Next, Landing!Prepares
  <2>3. CASE pc' = "returned" /\ ws' = ws /\ outcome' = "failed"
    BY <2>1, <2>3 DEF Landing!Next, Landing!Returns, Landing!Outcomes
  <2>4. QED BY <2>1, <2>2, <2>3
<1> QED BY <1>1, <1>2

\* A wait at a brake ends by a signal, and by a cancel for good.
LEMMA ReleaseIsSeen ==
  ASSUME TypeOK, WorkspaceInv, BudgetReleased \/ BrakeReleased
  PROVE  [Landing!Next]_(Landing!landingVars)
<1> USE DEF ChildState, HumanWaits
<1>1. /\ pc \in HumanWaits /\ (cancelled \/ blockReason = "none") /\ UNCHANGED <<cancelled, ws>>
      /\ IF cancelled THEN pc' = "cleanup" ELSE pc' \in AgentStages \cup {"poll"}
  BY DEF BudgetReleased, BrakeReleased, Released, StartAgent, Go, Finish, Babysit, TypeOK,
     ControlOK, SignalsOK, workspace, signals
<1>2. ChildState = "braked" /\ ChildState' = (IF cancelled THEN "ending" ELSE "running")
  BY <1>1 DEF AgentStages
<1>3. ~(pc \in HumanWaits /\ blockReason = "none")'
  BY <1>1 DEF AgentStages
<1> QED BY <1>1, <1>2, <1>3 DEF Landing!Next, Landing!Answers

\* The finally block: a result, and no worktree, or no result at all.
LEMMA CleanupIsSeen ==
  ASSUME TypeOK, WorkspaceInv, PromiseInv, Cleanup
  PROVE  [Landing!Next]_(Landing!landingVars)
<1> USE DEF ChildState, HumanWaits
<1>1. /\ pc = "cleanup" /\ ws = "live" /\ UNCHANGED <<cancelled, outcome>>
      /\ \/ pc' = "returned" /\ ws' = "removed"
         \/ pc' = "workflowFailed" /\ ws' = ws
  BY DEF Cleanup, Go, WorkspaceInv, Owning, signals
<1>2. outcome \in Landing!Outcomes /\ (outcome = "cancelled" => cancelled)
  BY <1>1 DEF PromiseInv, TypeOK, ControlOK, Outcomes, Landing!Outcomes
<1>3. CASE pc' = "returned" /\ ws' = "removed"
  BY <1>1, <1>2, <1>3 DEF Landing!Next, Landing!Returns
<1>4. CASE pc' = "workflowFailed" /\ ws' = ws
  BY <1>1, <1>4 DEF Landing!Next, Landing!Crashes
<1> QED BY <1>1, <1>3, <1>4

\* Signals are the caller's.
LEMMA SignalIsSeen ==
  ASSUME TypeOK, Cancel \/ Wake \/ Resume
  PROVE  [Landing!Next]_(Landing!landingVars)
<1> USE DEF ChildState, HumanWaits, Running, Stopped
<1>1. CASE Cancel
  BY <1>1 DEF Cancel, control, workspace, Landing!Next, Landing!Cancels, Landing!Open
<1>2. CASE Wake
  BY <1>2, NothingIsSeen DEF Wake, signals, workspace
<1>3. CASE Resume
  <2>1. pc' = pc /\ outcome' = outcome /\ cancelled' = cancelled /\ ws' = ws /\ blockReason' = "none"
        /\ pc \notin Stopped
    BY <1>3 DEF Resume, workspace
  <2>2. CASE pc \in HumanWaits
    BY <2>1, <2>2 DEF Landing!Next, Landing!Resumes
  <2>3. CASE pc \notin HumanWaits
    BY <2>1, <2>3 DEF Landing!landingVars
  <2>4. QED BY <2>2, <2>3
<1> QED BY <1>1, <1>2, <1>3

\* Every step of the workflow is a step of the promise, or none.
LEMMA StepIsPromised ==
  TypeOK /\ WorkspaceInv /\ PromiseInv /\ [Next]_vars => [Landing!Next]_(Landing!landingVars)
<1> SUFFICES ASSUME TypeOK, WorkspaceInv, PromiseInv, [Next]_vars
             PROVE  [Landing!Next]_(Landing!landingVars)
  OBVIOUS
<1> USE DEF Landings, LandActivities, AgentStages, SnapshotPoints, HumanWaits, Go, Finish,
            Babysit, Brake, StartAgent, workspace, signals
<1>1. CASE InitialSnapshot \/ PrepareWorkspace
  BY <1>1, BeginningIsSeen
<1>2. CASE LandSnapshot
  BY <1>2, LandingIsSeen DEF LandSnapshot, ValidateHead
<1>3. CASE FullVerify
  BY <1>3, LandingIsSeen DEF FullVerify, RepairAfter
<1>4. CASE Review
  BY <1>4, LandingIsSeen DEF Review, RepairAfter
<1>5. CASE Implement
  BY <1>5, LandingIsSeen DEF Implement
<1>6. CASE PushBranch
  BY <1>6, LandingIsSeen DEF PushBranch
<1>7. CASE RepairSnapshot
  BY <1>7, LandingIsSeen DEF RepairSnapshot, ValidateHead
<1>8. CASE PollEnds
  BY <1>8, LandingIsSeen DEF PollEnds
<1>9. CASE BabysitSnapshot
  BY <1>9, LandingIsSeen DEF BabysitSnapshot
<1>10. CASE FreshSnapshot
  BY <1>10, LandingIsSeen DEF FreshSnapshot, ValidateHead
<1>11. CASE MergePr
  BY <1>11, LandingIsSeen DEF MergePr
<1>12. CASE ConflictSnapshot
  BY <1>12, LandingIsSeen DEF ConflictSnapshot, ValidateHead
<1>13. CASE BudgetExceeded
  BY <1>13, LandingIsSeen DEF BudgetExceeded
<1>14. CASE BudgetReleased \/ BrakeReleased
  BY <1>14, ReleaseIsSeen
<1>15. CASE ActivityFails
  BY <1>15, LandingIsSeen DEF ActivityFails
<1>16. CASE Cleanup
  BY <1>16, CleanupIsSeen
<1>17. CASE Cancel \/ Wake \/ Resume
  BY <1>17, SignalIsSeen
<1>18. CASE ExternalPush \/ ExternalStateChange \/ Settle \/ AnswerLost
  BY <1>18, NothingIsSeen DEF ExternalPush, ExternalStateChange, Settle, AnswerLost,
     NotTheWorkflow, control
<1>19. CASE UNCHANGED vars
  BY <1>19, NothingIsSeen DEF vars, control
<1> QED
  BY <1>1, <1>2, <1>3, <1>4, <1>5, <1>6, <1>7, <1>8, <1>9, <1>10, <1>11, <1>12, <1>13, <1>14,
     <1>15, <1>16, <1>17, <1>18, <1>19 DEF Next, WorkflowStep

\* KeepsLandingPromise: prLanding is the child DevCycle assumes, for every start, every
\* sequence of signals, and whatever people and the provider do meanwhile.
THEOREM LandingPromiseIsKept == Spec => KeepsLandingPromise
<1>1. Init => WorkspaceInv
  BY DEF Init, WorkspaceInv, Owning, LandActivities, HumanWaits, AgentStages, SnapshotPoints
<1>2. Init => PromiseInv
  BY DEF Init, PromiseInv, Finishing
<1>3. Init => Landing!Init
  BY DEF Init, Landing!Init, ChildState, HumanWaits
<1> QED
  BY TypeCorrect, <1>1, <1>2, <1>3, WorkspaceInvStep, PromiseInvStep, StepIsPromised,
     PTL DEF Spec, KeepsLandingPromise, Landing!Spec

=============================================================================
