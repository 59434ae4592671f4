---------------------------- MODULE LandingPromise ----------------------------
(* What prLanding promises whoever started it, be it devCycle or the gateway:   *)
(* it works, or waits at a brake until a signal it was sent lets it go, and a   *)
(* cancel that it meets there ends it; it says it was cancelled only when it    *)
(* was; the worktree it had is gone when it returns, and only an execution that *)
(* fails may leave one. (packages/workflows/src/pr-landing.ts)                  *)
VARIABLES
  child,     \* "running", "braked", "ending", the outcome it returned, or "crashed"
  told,      \* a cancel has been received
  resumed,   \* a resume has been received at the brake it waits at
  ws         \* the worktree: "none", "live" or "removed"

landingVars == <<child, told, resumed, ws>>

Outcomes == {"merged", "merge-ready-manual", "blocked", "failed", "cancelled"}
Open == child \in {"running", "braked", "ending"}

\* devCycle hands over a worktree, the gateway has none.
Init == child = "running" /\ told = FALSE /\ resumed = FALSE /\ ws \in {"none", "live"}

(* The signals it is sent. *)
Cancels == Open /\ told' = TRUE /\ UNCHANGED <<child, resumed, ws>>
Resumes == child = "braked" /\ resumed' = TRUE /\ UNCHANGED <<child, told, ws>>

(* What it does. *)
Prepares ==
  /\ child = "running" /\ ws = "none"
  /\ ws' = "live"
  /\ UNCHANGED <<child, told, resumed>>

Brakes == child = "running" /\ child' = "braked" /\ UNCHANGED <<told, resumed, ws>>

Answers ==
  /\ child = "braked" /\ (told \/ resumed)
  /\ child' = IF told THEN "ending" ELSE "running"
  /\ resumed' = FALSE
  /\ UNCHANGED <<told, ws>>

\* The finally block cleans up a worktree it owns before the result is known.
Ends ==
  /\ child = "running" /\ ws = "live"
  /\ child' = "ending"
  /\ UNCHANGED <<told, resumed, ws>>

Returns ==
  /\ child = "ending" \/ (child = "running" /\ ws = "none")
  /\ child' \in IF told THEN Outcomes ELSE Outcomes \ {"cancelled"}
  /\ ws' = IF ws = "live" THEN "removed" ELSE ws
  /\ UNCHANGED <<told, resumed>>

\* An activity before the try, or the cleanup, gives up.
Crashes ==
  /\ child \in {"running", "ending"}
  /\ child' = "crashed"
  /\ UNCHANGED <<told, resumed, ws>>

Next ==
  \/ Cancels \/ Resumes
  \/ Prepares \/ Brakes \/ Answers \/ Ends \/ Returns \/ Crashes

Spec == Init /\ [][Next]_landingVars

\* What a caller may count on in time: a cancel ends it from wherever it is, a resume
\* ends the wait it finds, and a cleanup comes to an end.
AnswersSignals ==
  /\ told \/ child = "ending" ~> ~Open
  /\ resumed ~> child # "braked"

===============================================================================
