------------------------------ MODULE AgentCalls ------------------------------
(* The runAgent activity on a worker that runs its agents as processes: the    *)
(* tier a call resolves to, the walk along its fallback chain, the rate windows *)
(* in front of the backends, the processes of ProcessCliRunner, what the       *)
(* outputs of the two CLIs are taken for, and what Temporal does with each     *)
(* error.  Agents run as Jobs of a cluster are the subject of AgentJobs.       *)
EXTENDS Naturals, Sequences, FiniteSetsExt

CONSTANTS
  Calls,            \* executions of the activity
  OfProject,        \* calls made by a project's workflow
  Tier,             \* call -> the backends of its tier, first choice first
  ByTier,           \* calls that name a tier; the others name one backend
  MaxCalls, Window, \* the limit of every rate window and its length
  MaxAttempts,      \* retry.maximumAttempts
  RateLimitDelay,   \* RATE_LIMIT_RETRY_DELAY_MS
  Horizon,          \* bound: the last moment
  MaxIncidents      \* bound: timeouts, restarts, failing touches

Backends == {"claude", "pi", "platform"}
None == "none"

ASSUME AgentCallsAssumption ==
  /\ OfProject \subseteq Calls /\ ByTier \subseteq Calls
  /\ Tier \in [Calls -> Seq(Backends)]
  /\ \A c \in Calls \ ByTier : Len(Tier[c]) = 1
  /\ MaxCalls \in Nat \ {0} /\ Window \in Nat \ {0} /\ MaxAttempts \in Nat \ {0}
  /\ RateLimitDelay \in Nat /\ Horizon \in Nat /\ MaxIncidents \in Nat

\* Whose subscription pays.
Accounts == {"CLAUDE", "PI"}
Account(b) == IF b = "pi" THEN "PI" ELSE "CLAUDE"

\* (Every backend has a window of its own.)
LimiterOf_Own(b) == b
Limiters == Accounts \cup Backends

\* The backends of one subscription share a limiter.
LimiterOf(b) == IF b = "pi" THEN "PI" ELSE "CLAUDE"

VARIABLES
  now,
  calls,            \* limiter -> times of the calls in its window
  capped,           \* accounts that are capped for hours
  call,             \* call -> where it is
  incidents,
  spent             \* history: account -> times of this worker's calls

vars == <<now, calls, capped, call, incidents, spent>>

\* pos is the place in the chain; met the places that met a session limit in
\* this attempt.  told is history: the full window that refused the call last, its
\* count of calls then, and the moment the call was sent away to.
New == [at |-> "ready", attempt |-> 0, wake |-> 0, pos |-> 1, met |-> {},
        told |-> <<None, 0, 0>>, error |-> None]

Init ==
  /\ now = 0 /\ calls = [l \in Limiters |-> <<>>] /\ capped = {}
  /\ call = [c \in Calls |-> New]
  /\ incidents = 0 /\ spent = [a \in Accounts |-> <<>>]

At(c, where) == call[c].at = where
Backend(c) == Tier[c][call[c].pos]
Incident == incidents < MaxIncidents /\ incidents' = incidents + 1
Becomes(c, record) == call' = [call EXCEPT ![c] = record]

(***************************************************************************)
(* What becomes of the record of a call whose attempt throws.              *)
(***************************************************************************)
Never(record, error) == [record EXCEPT !.at = "failed", !.error = error]

\* A retryable failure, to be tried again after delay unless it was the last.
Later(record, error, delay) ==
  IF record.attempt = MaxAttempts
  THEN Never(record, error) ELSE [record EXCEPT !.at = "ready", !.wake = now + delay]

(***************************************************************************)
(* An attempt, up to the dispatch.                                         *)
(***************************************************************************)

Forbidden(c) == c \in OfProject /\ \E i \in DOMAIN Tier[c] : Tier[c][i] = "platform"

\* resolveTier throws a plain error when the tier is in no table.
Attempt(c) ==
  /\ At(c, "ready") /\ call[c].attempt < MaxAttempts /\ now >= call[c].wake
  /\ LET next == [call[c] EXCEPT !.attempt = call[c].attempt + 1, !.pos = 1, !.met = {}] IN
     Becomes(c, IF Tier[c] = <<>> THEN Later(next, "UnknownTier", 0)
                ELSE IF Forbidden(c) THEN Never(next, "ProjectAuthorizationError")
                ELSE [next EXCEPT !.at = "dispatching"])
  /\ UNCHANGED <<now, calls, capped, incidents, spent>>

\* touchRepositorySession fails: WorkspaceError says whether for good.
TouchFails(c) ==
  /\ At(c, "dispatching") /\ call[c].pos = 1 /\ Incident
  /\ \/ Becomes(c, Never(call[c], "WorkspaceError"))
     \/ Becomes(c, Later(call[c], "WorkspaceError", 0))
  /\ UNCHANGED <<now, calls, capped, spent>>

(***************************************************************************)
(* RateWindowLimiter and RateWindowedBackend.                              *)
(***************************************************************************)
\* The times at the head are shifted out, up to the first that is in the window.
InWindow(l) == {i \in DOMAIN calls[l] : calls[l][i] + Window > now}
Pruned(l) ==
  IF InWindow(l) = {} THEN <<>> ELSE SubSeq(calls[l], Min(InWindow(l)), Len(calls[l]))

msUntilSlot(l) ==
  LET kept == Pruned(l) IN IF Len(kept) < MaxCalls THEN 0 ELSE kept[1] + Window - now

\* (The delay is left to Temporal.)
Refuse_AtOnce(c, l) ==
  LET refused == Later(call[c], "RateWindowExceededError", 0) IN
  /\ Becomes(c, [refused EXCEPT !.told = <<l, Len(spent[l]), now + msUntilSlot(l)>>])
  /\ UNCHANGED spent

\* The error of a full window is not one the chain is walked for.
Refuse(c, l) ==
  LET refused == Later(call[c], "RateWindowExceededError", msUntilSlot(l)) IN
  /\ Becomes(c, [refused EXCEPT !.told = <<l, Len(spent[l]), now + msUntilSlot(l)>>])
  /\ UNCHANGED spent

Dispatch(c) ==
  /\ At(c, "dispatching")
  /\ LET l == LimiterOf(Backend(c)) IN
     IF msUntilSlot(l) > 0
     THEN Refuse(c, l) /\ calls' = [calls EXCEPT ![l] = Pruned(l)]
     ELSE /\ calls' = [calls EXCEPT ![l] = Append(Pruned(l), now)]
          /\ spent' = [spent EXCEPT ![Account(Backend(c))] = Append(@, now)]
          /\ Becomes(c, [call[c] EXCEPT !.at = "running"])
  /\ UNCHANGED <<now, capped, incidents>>

(***************************************************************************)
(* The process, and what its output is taken for.                          *)
(***************************************************************************)
\* What a CLI leaves: nothing, text, an error told in its output, or an
\* authentication error on stderr.
Outputs == {"nothing", "text", "told auth", "told session", "told rate", "told other", "stderr auth"}

\* claude looks for an authentication error in its result too, pi does not.
parseOutput(b, output) ==
  CASE output = "stderr auth" -> "AuthError"
    [] output = "told auth" -> IF b = "pi" THEN "ProcessError" ELSE "AuthError"
    [] output = "told session" -> "SessionLimitError"
    [] output = "told rate" -> "RateLimitError"
    [] output = "text" -> "ok"
    [] OTHER -> "ProcessError"

(* TierFallbackBackend is put around the first backend if there is another.     *)
(* It goes to the next for a session limit; the last session limit ends it for *)
(* good, and every other error is the activity's.                              *)

\* (The last tier is never tried.)
OnSessionLimit_ButLast(c) ==
  IF call[c].pos + 1 < Len(Tier[c])
  THEN [call[c] EXCEPT !.at = "dispatching", !.pos = call[c].pos + 1]
  ELSE Never(call[c], "SessionLimitExhaustedError")

OnSessionLimit(c) ==
  LET met == call[c].met \cup {call[c].pos} IN
  IF Len(Tier[c]) = 1 THEN Later(call[c], "SessionLimitError", 0)
  ELSE IF call[c].pos < Len(Tier[c])
  THEN [call[c] EXCEPT !.at = "dispatching", !.pos = call[c].pos + 1, !.met = met]
  ELSE Never([call[c] EXCEPT !.met = met], "SessionLimitExhaustedError")

Outcome(c, verdict) ==
  CASE verdict = "ok" -> [call[c] EXCEPT !.at = "done"]
    [] verdict = "AuthError" -> Never(call[c], "AuthError")
    [] verdict = "SessionLimitError" -> OnSessionLimit(c)
    [] verdict = "RateLimitError" -> Later(call[c], "RateLimitError", RateLimitDelay)
    [] OTHER -> Later(call[c], "ProcessError", 0)

\* An account that is capped answers every call with its session limit.
Possible(b) ==
  IF Account(b) \in capped THEN {"told session"} ELSE Outputs \ {"told session"}

ProcessEnds(c) ==
  /\ At(c, "running")
  /\ \E output \in Possible(Backend(c)) :
       Becomes(c, Outcome(c, parseOutput(Backend(c), output)))
  /\ UNCHANGED <<now, calls, capped, incidents, spent>>

\* The runner's timer, which kills the process, or a timeout of the activity (it
\* heartbeats only when it starts), after which the process goes on: either way
\* the next attempt may begin before this process is gone.
AttemptTimesOut(c) ==
  /\ At(c, "running") /\ Incident
  /\ Becomes(c, Later(call[c], "Timeout", 0))
  /\ UNCHANGED <<now, calls, capped, spent>>

(***************************************************************************)
(* Time, the accounts, and restarts of the worker.                         *)
(***************************************************************************)
Tick ==
  /\ now < Horizon
  /\ now' = now + 1
  /\ UNCHANGED <<calls, capped, call, incidents, spent>>

AccountIsCapped ==
  /\ \E a \in Accounts \ capped : capped' = capped \cup {a}
  /\ UNCHANGED <<now, calls, call, incidents, spent>>

\* The windows are in memory, so what a window told is void; the attempts that ran
\* time out.
WorkerRestarts ==
  /\ Incident
  /\ calls' = [l \in Limiters |-> <<>>]
  /\ spent' = [a \in Accounts |-> <<>>]
  /\ call' = [c \in Calls |->
       LET next == IF call[c].at \in {"dispatching", "running"}
                   THEN Later(call[c], "Timeout", 0) ELSE call[c]
       IN  [next EXCEPT !.told = New.told]]
  /\ UNCHANGED <<now, capped>>

CallStep(c) == Attempt(c) \/ Dispatch(c) \/ ProcessEnds(c)

Next ==
  \/ \E c \in Calls : CallStep(c) \/ TouchFails(c) \/ AttemptTimesOut(c)
  \/ Tick \/ AccountIsCapped \/ WorkerRestarts

Spec == Init /\ [][Next]_vars

(***************************************************************************)
(* Properties.                                                             *)
(***************************************************************************)
Errors == {"UnknownTier", "ProjectAuthorizationError", "WorkspaceError", "RateWindowExceededError",
           "AuthError", "SessionLimitError", "SessionLimitExhaustedError", "RateLimitError",
           "ProcessError", "Timeout"}

TypeOK ==
  /\ now \in 0..Horizon /\ capped \subseteq Accounts /\ incidents \in 0..MaxIncidents
  /\ \A l \in Limiters : Len(calls[l]) <= MaxCalls /\ \A i \in DOMAIN calls[l] : calls[l][i] <= now
  /\ \A c \in Calls :
       /\ call[c].at \in {"ready", "dispatching", "running", "done", "failed"}
       /\ call[c].attempt \in 0..MaxAttempts /\ call[c].error \in Errors \cup {None}
       /\ call[c].at \in {"dispatching", "running"} => call[c].pos \in DOMAIN Tier[c]

\* A subscription is asked no more than MaxCalls times in any window, by all the
\* backends that draw on it and all the attempts and fallbacks of all calls, as
\* long as the worker lives that counts them.
WindowIsKept ==
  \A a \in Accounts : \A i \in DOMAIN spent[a] :
    i + MaxCalls \in DOMAIN spent[a] => spent[a][i + MaxCalls] >= spent[a][i] + Window

\* The moment a refused call is sent away to is the one at which a slot frees up,
\* neither earlier nor later, as long as the window lets no other call in; and the
\* call is back no earlier, whichever chain its next attempts walk.
WaitIsExact ==
  \A c \in Calls : \A l \in Accounts :
    LET until == call[c].told[3] IN
    call[c].told = <<l, Len(spent[l]), until>> =>
      /\ Len(Pruned(l)) < MaxCalls <=> now >= until
      /\ At(c, "dispatching") => now >= until

\* A call given up because every tier is exhausted has met a session limit on each
\* of them, in one attempt.
ExhaustedMeansAll ==
  \A c \in Calls : call[c].error = "SessionLimitExhaustedError" => call[c].met = DOMAIN Tier[c]

================================================================================
