----------------------------- MODULE CiSignals -----------------------------
(***************************************************************************)
(* How GithubScmPort reads the CI status of a commit                       *)
(* (packages/ports/src/github/github-scm-port.ts): the check runs, the     *)
(* combined legacy status and the rollup are read in parallel, each is     *)
(* turned into a signal, and the signals are merged.                       *)
(***************************************************************************)
EXTENDS Naturals

\* none is an empty answer, unknown a source the token may not read.
CiSignal == {"none", "pending", "failed", "green", "unknown"}

(***************************************************************************)
(* What the sources answer: the kinds of check runs there are, "failing"   *)
(* standing for FAILING_CHECK_CONCLUSIONS and "passing" for the rest; the  *)
(* combined state, which GitHub says pending where there are no statuses;  *)
(* and the state of the rollup, null where the commit has none.            *)
(***************************************************************************)
CheckRuns == SUBSET {"incomplete", "failing", "passing"}
StatusStates == {"success", "failure", "error", "pending"}
RollupStates == {"null", "SUCCESS", "FAILURE", "ERROR", "PENDING", "EXPECTED", "other"}

mapCheckRuns(runs) ==
  IF runs = {} THEN "none"
  ELSE IF "incomplete" \in runs THEN "pending"
  ELSE IF "failing" \in runs THEN "failed"
  ELSE "green"

mapCombinedStatus(state, total) ==
  IF total = 0 THEN "none"
  ELSE CASE state = "success" -> "green"
         [] state \in {"failure", "error"} -> "failed"
         [] OTHER -> "pending"

mapStatusCheckRollupState(state) ==
  CASE state = "null" -> "none"
    [] state = "SUCCESS" -> "green"
    [] state \in {"FAILURE", "ERROR"} -> "failed"
    [] state \in {"PENDING", "EXPECTED"} -> "pending"
    [] OTHER -> "unknown"

\* A 403 or a 404 makes a source unknown; any other error fails the activity.
readCheckRuns == {mapCheckRuns(runs) : runs \in CheckRuns} \cup {"unknown"}
readCombinedStatus ==
  {mapCombinedStatus(state, total) : state \in StatusStates, total \in 0..1} \cup {"unknown"}
readStatusCheckRollup ==
  {mapStatusCheckRollupState(state) : state \in RollupStates} \cup {"unknown"}

\* A real signal of any source wins, the worst first; nothing at all is green when
\* the rollup, or both of the others, have said so.
mergeCiSignals(checks, status, rollup) ==
  LET signals == {checks, status, rollup} IN
  IF "failed" \in signals THEN "failed"
  ELSE IF "pending" \in signals THEN "pending"
  ELSE IF "green" \in signals \/ rollup = "none" \/ {checks, status} = {"none"} THEN "green"
  ELSE "unreadable"

readCiStatus ==
  {mergeCiSignals(checks, status, rollup) :
     checks \in readCheckRuns, status \in readCombinedStatus, rollup \in readStatusCheckRollup}
=============================================================================
