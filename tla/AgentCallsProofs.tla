--------------------------- MODULE AgentCallsProofs ---------------------------
(* The rate window of a subscription, the wait of a call it refuses and the     *)
(* exhaustion of a tier, for any calls, tiers, limits and incidents.           *)
EXTENDS AgentCalls, SequenceTheorems, WellFoundedInduction, TLAPS

USE AgentCallsAssumption

(***************************************************************************)
(* The inductive invariant.                                                *)
(***************************************************************************)
Stages == {"ready", "dispatching", "running", "done", "failed"}
CallType ==
  [at : Stages, attempt : 0..MaxAttempts, wake : Nat, pos : Nat \ {0}, met : SUBSET (Nat \ {0}),
   told : (Accounts \cup {None}) \X Nat \X Nat, error : Errors \cup {None}]

\* In an attempt the places before the one that is tried have met their session
\* limits, and no error has been settled on.
RecordOK(c, record) ==
  /\ record.at \in {"dispatching", "running"} =>
       record.pos \in DOMAIN Tier[c] /\ record.met = 1..(record.pos - 1)
  /\ record.at # "failed" => record.error = None
  /\ record.error = "SessionLimitExhaustedError" => record.met = DOMAIN Tier[c]

\* A limiter has the last of all the times, and those it has forgotten are out of the
\* window at time t.
Tallies(kept, all, t) ==
  LET forgotten == Len(all) - Len(kept) IN
  /\ kept \in Seq(Nat) /\ all \in Seq(Nat)
  /\ Len(kept) <= MaxCalls /\ Len(kept) <= Len(all)
  /\ \A i \in 1..Len(all) : all[i] <= t
  /\ \A i \in 1..Len(kept) : kept[i] = all[forgotten + i]
  /\ \A i \in 1..forgotten : all[i] + Window <= t

\* No MaxCalls + 1 of the times are in one window.
Spread(all) ==
  \A i \in DOMAIN all : i + MaxCalls \in DOMAIN all => all[i + MaxCalls] >= all[i] + Window

Inv ==
  /\ now \in 0..Horizon /\ capped \subseteq Accounts /\ incidents \in 0..MaxIncidents
  /\ call \in [Calls -> CallType] /\ \A c \in Calls : RecordOK(c, call[c])
  /\ calls \in [Limiters -> Seq(Nat)] /\ spent \in [Accounts -> Seq(Nat)]
  /\ \A a \in Accounts : Tallies(calls[a], spent[a], now) /\ Spread(spent[a])
  /\ \A l \in Limiters \ Accounts : calls[l] = <<>>

(***************************************************************************)
(* The least of a set of numbers.                                          *)
(***************************************************************************)
Below == {pair \in Nat \X Nat : pair[1] < pair[2]}

\* A set of numbers that is not empty has a least one.
LEMMA LeastNumber ==
  ASSUME NEW S \in SUBSET Nat, S # {}
  PROVE  Min(S) \in S /\ \A n \in S : Min(S) <= n
<1>1. IsWellFoundedOn(Below, Nat)
  BY NatLessThanWellFounded DEF OpToRel, Below
<1>2. PICK m \in S : \A n \in S : <<n, m>> \notin Below
  BY <1>1, WFMin, Zenon
<1>3. ASSUME NEW n \in S
      PROVE  m <= n
  <2>1. n \in Nat /\ m \in Nat /\ <<n, m>> \in Nat \X Nat /\ <<n, m>>[1] = n /\ <<n, m>>[2] = m
    OBVIOUS
  <2>2. ~(n < m)
    BY <1>2, <2>1 DEF Below
  <2> QED
    BY <2>1, <2>2
<1> QED
  BY <1>2, <1>3 DEF Min

(***************************************************************************)
(* Constants, and what becomes of the record of a call.                    *)
(***************************************************************************)
\* The bounds are numbers, and a chain is a sequence of backends.
LEMMA Constants ==
  /\ MaxCalls \in Nat \ {0} /\ Window \in Nat \ {0} /\ MaxAttempts \in Nat \ {0}
  /\ RateLimitDelay \in Nat /\ Horizon \in Nat /\ MaxIncidents \in Nat
  /\ \A c \in Calls : Tier[c] \in Seq(Backends) /\ Len(Tier[c]) \in Nat
                       /\ DOMAIN Tier[c] = 1..Len(Tier[c])
  OBVIOUS

\* A retryable failure keeps the types, and does not say that the tier is exhausted.
LEMMA LaterIsOK ==
  ASSUME NEW c \in Calls, NEW record \in CallType, record.error = None, now \in Nat,
         NEW error \in Errors \ {"SessionLimitExhaustedError"}, NEW delay \in Nat
  PROVE  Later(record, error, delay) \in CallType /\ RecordOK(c, Later(record, error, delay))
<1>1. None # "SessionLimitExhaustedError"
  BY DEF None
<1>2. CASE record.attempt = MaxAttempts
  BY <1>1, <1>2 DEF Later, Never, CallType, RecordOK, Stages
<1>3. CASE record.attempt # MaxAttempts
  <2> DEFINE later == [record EXCEPT !.at = "ready", !.wake = now + delay]
  <2>1. Later(record, error, delay) = later
    BY <1>3 DEF Later
  <2>2. now + delay \in Nat
    OBVIOUS
  <2>3. later \in CallType /\ later.at = "ready" /\ later.error = None
    BY <2>2 DEF CallType, Stages
  <2> HIDE DEF later
  <2> QED
    BY <1>1, <2>1, <2>3 DEF RecordOK
<1> QED
  BY <1>2, <1>3

\* So does a failure for good.
LEMMA NeverIsOK ==
  ASSUME NEW c \in Calls, NEW record \in CallType,
         NEW error \in Errors \ {"SessionLimitExhaustedError"}
  PROVE  Never(record, error) \in CallType /\ RecordOK(c, Never(record, error))
  BY DEF Never, CallType, RecordOK, Stages

\* What a window tells a call is in order whatever else the record says.
LEMMA RetoldIsOK ==
  ASSUME NEW c \in Calls, NEW record \in CallType, RecordOK(c, record),
         NEW told, \/ told = <<None, 0, 0>>
                   \/ told[1] \in Accounts /\ told[2] \in Nat /\ told[3] \in Nat
                      /\ told = <<told[1], told[2], told[3]>>
  PROVE  /\ [record EXCEPT !.told = told] \in CallType
         /\ RecordOK(c, [record EXCEPT !.told = told])
<1>1. told \in (Accounts \cup {None}) \X Nat \X Nat
  OBVIOUS
<1> DEFINE retold == [record EXCEPT !.told = told]
<1>2. /\ retold \in CallType /\ retold.at = record.at /\ retold.pos = record.pos
      /\ retold.met = record.met /\ retold.error = record.error
  BY <1>1 DEF CallType
<1> HIDE DEF retold
<1>3. retold \in CallType /\ RecordOK(c, retold)
  BY <1>2 DEF RecordOK
<1> QED
  BY <1>3 DEF retold

\* A step that touches the record of one call and no limiter keeps the invariant if
\* what becomes of the record is in order.
LEMMA RecordKeeps ==
  ASSUME Inv, NEW c \in Calls, NEW record \in CallType, RecordOK(c, record),
         Becomes(c, record), UNCHANGED <<now, calls, capped, spent>>,
         incidents' \in 0..MaxIncidents
  PROVE  Inv'
<1>1. call' \in [Calls -> CallType] /\ \A d \in Calls : RecordOK(d, call'[d])
  BY DEF Inv, Becomes
<1> QED
  BY <1>1 DEF Inv

(***************************************************************************)
(* The rate window.                                                        *)
(***************************************************************************)
\* What is pruned is a head of the times, all of it out of the window; the first that
\* is left is in it.
LEMMA PrunedIsATail ==
  ASSUME NEW l, calls[l] \in Seq(Nat), now \in Nat
  PROVE  \E d \in 0..Len(calls[l]) :
           /\ Pruned(l) \in Seq(Nat) /\ Len(Pruned(l)) = Len(calls[l]) - d
           /\ \A i \in 1..Len(Pruned(l)) : Pruned(l)[i] = calls[l][d + i]
           /\ \A i \in 1..d : calls[l][i] + Window <= now
           /\ Len(Pruned(l)) > 0 => Pruned(l)[1] + Window > now
<1>1. /\ Len(calls[l]) \in Nat /\ DOMAIN calls[l] = 1..Len(calls[l])
      /\ \A i \in 1..Len(calls[l]) : calls[l][i] \in Nat
  OBVIOUS
<1>2. CASE InWindow(l) = {}
  <2>1. Pruned(l) = <<>>
    BY <1>2 DEF Pruned
  <2>2. ASSUME NEW i \in 1..Len(calls[l])
        PROVE  calls[l][i] + Window <= now
    <3>1. ~(calls[l][i] + Window > now)
      BY <1>1, <1>2 DEF InWindow
    <3> QED
      BY <1>1, <3>1, Constants
  <2>3. Pruned(l) \in Seq(Nat) /\ Len(Pruned(l)) = 0
    BY <2>1
  <2> QED
    BY <1>1, <2>2, <2>3
<1>3. CASE InWindow(l) # {}
  <2> DEFINE first == Min(InWindow(l))
  <2>1. first \in InWindow(l) /\ \A i \in InWindow(l) : first <= i
    <3>1. InWindow(l) \in SUBSET Nat
      BY <1>1 DEF InWindow
    <3> QED
      BY <1>3, <3>1, LeastNumber
  <2>2. Pruned(l) = SubSeq(calls[l], first, Len(calls[l]))
    BY <1>3 DEF Pruned
  <2> HIDE DEF first
  <2>3. first \in 1..Len(calls[l]) /\ calls[l][first] + Window > now
    BY <1>1, <2>1 DEF InWindow
  <2>4. /\ Pruned(l) \in Seq(Nat) /\ Len(Pruned(l)) = Len(calls[l]) - (first - 1)
        /\ \A i \in 1..Len(Pruned(l)) : Pruned(l)[i] = calls[l][(first - 1) + i]
    BY <1>1, <2>2, <2>3
  <2>5. ASSUME NEW i \in 1..(first - 1)
        PROVE  calls[l][i] + Window <= now
    <3>1. i \in 1..Len(calls[l]) /\ ~(first <= i)
      BY <1>1, <2>3
    <3>2. ~(calls[l][i] + Window > now)
      BY <1>1, <2>1, <3>1 DEF InWindow
    <3> QED
      BY <1>1, <3>1, <3>2, Constants
  <2>6. Pruned(l)[1] + Window > now
    <3>1. 1 \in 1..Len(Pruned(l)) /\ (first - 1) + 1 = first
      BY <1>1, <2>3, <2>4
    <3>2. Pruned(l)[1] = calls[l][first]
      BY <2>4, <3>1
    <3> QED
      BY <2>3, <3>2
  <2>7. first - 1 \in 0..Len(calls[l])
    BY <1>1, <2>3
  <2> QED
    BY <2>4, <2>5, <2>6, <2>7
<1> QED
  BY <1>2, <1>3

\* The backends of a subscription have its limiter.
LEMMA LimiterIsTheAccounts ==
  \A b : LimiterOf(b) = Account(b) /\ LimiterOf(b) \in Accounts /\ Accounts \subseteq Limiters
  BY DEF LimiterOf, Account, Accounts, Limiters

\* An empty window tallies with no calls.
LEMMA NothingTallies ==
  ASSUME now \in Nat
  PROVE  Tallies(<<>>, <<>>, now) /\ Spread(<<>>)
<1>1. <<>> \in Seq(Nat) /\ Len(<<>>) = 0 /\ DOMAIN <<>> = {}
  BY EmptySeq
<1> QED
  BY <1>1, Constants DEF Tallies, Spread

\* Time takes calls out of the window only.
LEMMA LaterTallies ==
  ASSUME NEW kept, NEW all, NEW t \in Nat, Tallies(kept, all, t)
  PROVE  Tallies(kept, all, t + 1)
<1>1. Len(all) \in Nat /\ Len(kept) \in Nat /\ \A i \in 1..Len(all) : all[i] \in Nat
  BY DEF Tallies
<1>2. Len(all) - Len(kept) \in 0..Len(all)
  BY <1>1 DEF Tallies
<1> DEFINE forgotten == Len(all) - Len(kept)
<1>3. \A i \in 1..Len(all) : all[i] <= t /\ all[i] <= t + 1
  BY <1>1 DEF Tallies
<1>4. \A i \in 1..forgotten : all[i] \in Nat /\ all[i] + Window <= t
  BY <1>1, <1>2 DEF Tallies
<1>5. \A i \in 1..forgotten : all[i] + Window <= t + 1
  BY <1>4, Constants
<1> QED
  BY <1>3, <1>5 DEF Tallies

\* What is pruned was out of the window.
LEMMA PrunedTallies ==
  ASSUME NEW l, NEW all, now \in Nat, Tallies(calls[l], all, now)
  PROVE  Tallies(Pruned(l), all, now)
<1>1. calls[l] \in Seq(Nat) /\ all \in Seq(Nat)
  BY DEF Tallies
<1>2. PICK d \in 0..Len(calls[l]) :
           /\ Pruned(l) \in Seq(Nat) /\ Len(Pruned(l)) = Len(calls[l]) - d
           /\ \A i \in 1..Len(Pruned(l)) : Pruned(l)[i] = calls[l][d + i]
           /\ \A i \in 1..d : calls[l][i] + Window <= now
  BY <1>1, PrunedIsATail
<1> DEFINE n == Len(calls[l])
           f == Len(all) - n
<1>3. /\ n \in Nat /\ Len(all) \in Nat /\ f \in Nat /\ n <= MaxCalls /\ n <= Len(all)
      /\ Len(Pruned(l)) = n - d
  BY <1>1, <1>2 DEF Tallies
<1>4. /\ \A i \in 1..n : calls[l][i] = all[f + i]
      /\ \A i \in 1..f : all[i] + Window <= now
      /\ \A i \in 1..Len(all) : all[i] <= now
  BY DEF Tallies
<1> HIDE DEF n, f
<1>5. Len(all) - Len(Pruned(l)) = f + d
  BY <1>3 DEF f
<1>6. ASSUME NEW i \in 1..Len(Pruned(l))
      PROVE  Pruned(l)[i] = all[f + d + i]
  <2>1. d + i \in 1..n /\ f + (d + i) = f + d + i
    BY <1>3
  <2> QED
    BY <1>2, <1>4, <2>1
<1>7. ASSUME NEW i \in 1..(f + d)
      PROVE  all[i] + Window <= now
  <2>1. CASE i <= f
    BY <1>3, <1>4, <2>1
  <2>2. CASE ~(i <= f)
    <3>1. i - f \in 1..d /\ i - f \in 1..n /\ f + (i - f) = i
      BY <1>2, <1>3, <2>2 DEF n
    <3> QED
      BY <1>2, <1>4, <3>1
  <2> QED
    BY <2>1, <2>2
<1>8. Len(Pruned(l)) <= MaxCalls /\ Len(Pruned(l)) <= Len(all)
  BY <1>2, <1>3, Constants DEF n
<1> QED
  BY <1>1, <1>2, <1>4, <1>5, <1>6, <1>7, <1>8 DEF Tallies

\* A wait is a number, and none where the window has a slot.
LEMMA SlotIsFree ==
  ASSUME NEW l, calls[l] \in Seq(Nat), now \in Nat
  PROVE  msUntilSlot(l) \in Nat /\ (~(msUntilSlot(l) > 0) => Len(Pruned(l)) < MaxCalls)
<1>1. /\ Pruned(l) \in Seq(Nat) /\ Len(Pruned(l)) \in Nat
      /\ Len(Pruned(l)) > 0 => Pruned(l)[1] + Window > now
  BY PrunedIsATail
<1>2. CASE Len(Pruned(l)) < MaxCalls
  BY <1>2 DEF msUntilSlot
<1>3. CASE ~(Len(Pruned(l)) < MaxCalls)
  <2>1. Len(Pruned(l)) > 0 /\ Pruned(l)[1] \in Nat
    BY <1>1, <1>3, Constants
  <2>2. msUntilSlot(l) = Pruned(l)[1] + Window - now
    BY <1>3 DEF msUntilSlot
  <2> QED
    BY <1>1, <2>1, <2>2, Constants
<1> QED
  BY <1>2, <1>3

\* A call that finds a slot makes no window too full: the one MaxCalls before it has
\* been forgotten.
LEMMA AppendTallies ==
  ASSUME NEW kept, NEW all, now \in Nat, Tallies(kept, all, now), Spread(all),
         Len(kept) < MaxCalls
  PROVE  Tallies(Append(kept, now), Append(all, now), now) /\ Spread(Append(all, now))
<1> DEFINE n == Len(all)
           k == Len(kept)
           more == Append(all, now)
           keep == Append(kept, now)
<1>1. /\ n \in Nat /\ k \in Nat /\ k <= n /\ kept \in Seq(Nat) /\ all \in Seq(Nat)
      /\ DOMAIN all = 1..n /\ \A i \in 1..n : all[i] \in Nat /\ all[i] <= now
      /\ \A i \in 1..k : kept[i] = all[(n - k) + i]
      /\ \A i \in 1..(n - k) : all[i] + Window <= now
  BY LenProperties, ElementOfSeq DEF Tallies
<1>2. /\ more \in Seq(Nat) /\ keep \in Seq(Nat) /\ Len(more) = n + 1 /\ Len(keep) = k + 1
      /\ \A i \in 1..n : more[i] = all[i]
      /\ \A i \in 1..k : keep[i] = kept[i]
      /\ more[n + 1] = now /\ keep[k + 1] = now
  BY <1>1, AppendProperties
<1>3. DOMAIN more = 1..(n + 1)
  BY <1>2, LenProperties
<1> HIDE DEF n, k, more, keep
<1>4. /\ k + 1 <= MaxCalls /\ k + 1 <= n + 1 /\ (n + 1) - (k + 1) = n - k
      /\ n - k \in 0..n
  BY <1>1, Constants DEF k
<1>5. \A i \in 1..(n + 1) : more[i] <= now
  <2>1. ASSUME NEW i \in 1..(n + 1) PROVE more[i] <= now
    <3>1. i \in 1..n \/ i = n + 1
      BY <1>1
    <3> QED
      BY <1>1, <1>2, <3>1
  <2> QED BY <2>1
<1>6. ASSUME NEW i \in 1..(k + 1)
      PROVE  keep[i] = more[(n - k) + i]
  <2>1. CASE i \in 1..k
    <3>1. (n - k) + i \in 1..n
      BY <1>1, <2>1
    <3> QED
      BY <1>1, <1>2, <2>1, <3>1
  <2>2. CASE i = k + 1
    <3>1. (n - k) + i = n + 1
      BY <1>1, <2>2
    <3> QED
      BY <1>2, <2>2, <3>1
  <2> QED
    BY <1>1, <2>1, <2>2
<1>7. ASSUME NEW i \in 1..(n - k)
      PROVE  more[i] + Window <= now
  <2>1. i \in 1..n
    BY <1>1
  <2> QED
    BY <1>1, <1>2, <2>1
<1>8. Tallies(keep, more, now)
  BY <1>2, <1>4, <1>5, <1>6, <1>7 DEF Tallies
<1>9. ASSUME NEW i \in 1..(n + 1), i + MaxCalls \in 1..(n + 1)
      PROVE  more[i + MaxCalls] >= more[i] + Window
  <2>1. i \in 1..n /\ more[i] = all[i]
    BY <1>1, <1>2, <1>9, Constants
  <2>2. CASE i + MaxCalls \in 1..n
    BY <1>1, <1>2, <2>1, <2>2 DEF Spread
  <2>3. CASE i + MaxCalls = n + 1
    <3>1. i \in 1..(n - k)
      BY <1>1, <1>4, <2>3, Constants
    <3>2. all[i] + Window <= now /\ all[i] + Window \in Nat
      BY <1>1, <2>1, <3>1, Constants
    <3> QED
      BY <1>2, <2>1, <2>3, <3>2
  <2> QED
    BY <1>1, <1>9, <2>2, <2>3, Constants
<1>10. Spread(more)
  BY <1>3, <1>9 DEF Spread
<1> QED
  BY <1>8, <1>10 DEF more, keep

(***************************************************************************)
(* One lemma for each action that changes a record only.                   *)
(***************************************************************************)
\* The first choice is tried with nothing met.
LEMMA AttemptKeeps ==
  ASSUME Inv, NEW c \in Calls, Attempt(c)
  PROVE  Inv'
<1> DEFINE next == [call[c] EXCEPT !.attempt = call[c].attempt + 1, !.pos = 1, !.met = {}]
<1>1. call[c] \in CallType /\ call[c].error = None /\ now \in Nat /\ call[c].attempt < MaxAttempts
  BY DEF Inv, RecordOK, Attempt, At
<1>2. next \in CallType /\ next.error = None /\ next.pos = 1 /\ next.met = {}
  <2>1. call[c].attempt + 1 \in 0..MaxAttempts
    BY <1>1, Constants DEF CallType
  <2>2. ASSUME NEW record \in CallType, record.error = None, NEW n \in 0..MaxAttempts,
               NEW m, m = [record EXCEPT !.attempt = n, !.pos = 1, !.met = {}]
        PROVE  m \in CallType /\ m.error = None /\ m.pos = 1 /\ m.met = {}
    <3>1. m.error = None
      BY <2>2 DEF CallType
    <3>2. m.pos = 1 /\ m.met = {}
      BY <2>2 DEF CallType
    <3>3. {} \in SUBSET (Nat \ {0}) /\ 1 \in Nat \ {0}
      OBVIOUS
    <3>4. m \in CallType
      BY <2>2, <3>3 DEF CallType
    <3> QED BY <3>1, <3>2, <3>4
  <2> QED
    BY <1>1, <2>1, <2>2
<1>3. PICK record : /\ Becomes(c, record)
                    /\ \/ record = Later(next, "UnknownTier", 0)
                       \/ record = Never(next, "ProjectAuthorizationError")
                       \/ Tier[c] # <<>> /\ record = [next EXCEPT !.at = "dispatching"]
  BY DEF Attempt
<1> HIDE DEF next
<1>5. ASSUME Tier[c] # <<>>, record = [next EXCEPT !.at = "dispatching"]
      PROVE  record \in CallType /\ RecordOK(c, record)
  <2>1. 1 \in DOMAIN Tier[c]
    BY <1>5, Constants
  <2>2. record \in CallType /\ record.at = "dispatching" /\ record.pos = 1 /\ record.met = {} /\ record.error = None
    BY <1>2, <1>5 DEF CallType, Stages
  <2> QED
    BY <2>1, <2>2 DEF RecordOK, None
<1>6. record \in CallType /\ RecordOK(c, record)
  <2>1. CASE record = Later(next, "UnknownTier", 0)
    BY <1>1, <1>2, <2>1, LaterIsOK DEF Errors
  <2>2. CASE record = Never(next, "ProjectAuthorizationError")
    BY <1>2, <2>2, NeverIsOK DEF Errors
  <2> QED
    BY <1>3, <1>5, <2>1, <2>2
<1> QED
  BY <1>3, <1>6, RecordKeeps DEF Attempt, Inv

\* A session that cannot be touched fails the attempt.
LEMMA TouchFailsKeeps ==
  ASSUME Inv, NEW c \in Calls, TouchFails(c)
  PROVE  Inv'
<1>1. call[c] \in CallType /\ call[c].error = None /\ now \in Nat
  BY DEF Inv, RecordOK, TouchFails, At
<1>2. PICK record : /\ Becomes(c, record)
                    /\ \/ record = Never(call[c], "WorkspaceError")
                       \/ record = Later(call[c], "WorkspaceError", 0)
  BY DEF TouchFails
<1>3. record \in CallType /\ RecordOK(c, record)
  BY <1>1, <1>2, NeverIsOK, LaterIsOK DEF Errors
<1>4. incidents' \in 0..MaxIncidents
  BY Constants DEF Inv, TouchFails, Incident
<1> QED
  BY <1>2, <1>3, <1>4, RecordKeeps DEF TouchFails

\* So does a process that is killed or outlives its attempt.
LEMMA AttemptTimesOutKeeps ==
  ASSUME Inv, NEW c \in Calls, AttemptTimesOut(c)
  PROVE  Inv'
<1>1. call[c] \in CallType /\ call[c].error = None /\ now \in Nat
  BY DEF Inv, RecordOK, AttemptTimesOut, At
<1>2. LET record == Later(call[c], "Timeout", 0)
      IN  record \in CallType /\ RecordOK(c, record)
  BY <1>1, LaterIsOK DEF Errors
<1>3. incidents' \in 0..MaxIncidents
  BY Constants DEF Inv, AttemptTimesOut, Incident
<1> QED
  BY <1>2, <1>3, RecordKeeps DEF AttemptTimesOut

\* The chain is walked place by place, and ends as exhausted behind its last place.
LEMMA OnSessionLimitIsOK ==
  ASSUME NEW c \in Calls, call[c] \in CallType, RecordOK(c, call[c]), call[c].at = "running",
         now \in Nat
  PROVE  OnSessionLimit(c) \in CallType /\ RecordOK(c, OnSessionLimit(c))
<1> DEFINE met == call[c].met \cup {call[c].pos}
           record == [call[c] EXCEPT !.met = met]
<1>1. /\ call[c].error = None /\ call[c].pos \in 1..Len(Tier[c]) /\ Len(Tier[c]) \in Nat
      /\ call[c].met = 1..(call[c].pos - 1) /\ DOMAIN Tier[c] = 1..Len(Tier[c])
  BY Constants DEF RecordOK
<1>2. met = 1..call[c].pos /\ met \in SUBSET (Nat \ {0})
  BY <1>1
<1> HIDE DEF met
<1>3. CASE Len(Tier[c]) = 1
  BY <1>1, <1>3, LaterIsOK DEF OnSessionLimit, Errors
<1>4. ASSUME Len(Tier[c]) # 1, call[c].pos < Len(Tier[c])
      PROVE  OnSessionLimit(c) \in CallType /\ RecordOK(c, OnSessionLimit(c))
  <2> DEFINE further == [call[c] EXCEPT !.at = "dispatching", !.pos = call[c].pos + 1, !.met = met]
  <2>1. OnSessionLimit(c) = further
    BY <1>4 DEF OnSessionLimit, met
  <2>2. call[c].pos + 1 \in Nat \ {0} /\ call[c].pos + 1 \in DOMAIN Tier[c]
        /\ (call[c].pos + 1) - 1 = call[c].pos
    BY <1>1, <1>4
  <2>3. further \in CallType
    BY <1>2, <2>2 DEF CallType, Stages
  <2>4. /\ further.at = "dispatching" /\ further.pos = call[c].pos + 1
        /\ further.met = 1..call[c].pos /\ further.error = None
    BY <1>1, <1>2 DEF CallType
  <2> HIDE DEF further
  <2>5. further.met = 1..(further.pos - 1) /\ further.pos \in DOMAIN Tier[c]
    BY <2>2, <2>4
  <2> QED
    BY <2>1, <2>3, <2>4, <2>5 DEF RecordOK, None
<1>5. ASSUME Len(Tier[c]) # 1, ~(call[c].pos < Len(Tier[c]))
      PROVE  OnSessionLimit(c) \in CallType /\ RecordOK(c, OnSessionLimit(c))
  <2> DEFINE over == [record EXCEPT !.at = "failed", !.error = "SessionLimitExhaustedError"]
  <2>1. OnSessionLimit(c) = over
    BY <1>5 DEF OnSessionLimit, Never, met
  <2>2. record \in CallType /\ record.met = met
    BY <1>2 DEF CallType
  <2> HIDE DEF record
  <2>3. over \in CallType /\ over.at = "failed" /\ over.met = met
    BY <2>2 DEF CallType, Stages, Errors
  <2>4. met = DOMAIN Tier[c]
    BY <1>1, <1>2, <1>5
  <2> HIDE DEF over
  <2> QED
    BY <2>1, <2>3, <2>4 DEF RecordOK
<1> QED
  BY <1>3, <1>4, <1>5

\* The output of a process ends the call or its attempt.
LEMMA ProcessEndsKeeps ==
  ASSUME Inv, NEW c \in Calls, ProcessEnds(c)
  PROVE  Inv'
<1>1. /\ call[c] \in CallType /\ RecordOK(c, call[c]) /\ call[c].at = "running"
      /\ call[c].error = None /\ now \in Nat
  BY DEF Inv, RecordOK, ProcessEnds, At
<1>3. PICK output \in Outputs :
        Becomes(c, Outcome(c, parseOutput(Backend(c), output)))
  BY DEF ProcessEnds, Possible, Outputs
<1> DEFINE verdict == parseOutput(Backend(c), output)
           outcome == Outcome(c, verdict)
<1> HIDE DEF verdict
<1>5. outcome \in CallType /\ RecordOK(c, outcome)
  <2>1. CASE verdict = "ok"
    <3>1. outcome = [call[c] EXCEPT !.at = "done"]
      BY <2>1 DEF Outcome
    <3>2. outcome \in CallType /\ outcome.at = "done" /\ outcome.error = None
      BY <1>1, <3>1 DEF CallType, Stages
    <3> HIDE DEF outcome
    <3> QED
      BY <3>2 DEF RecordOK, None
  <2>2. CASE verdict = "AuthError"
    BY <1>1, <2>2, NeverIsOK DEF Outcome, Errors
  <2>3. CASE verdict = "SessionLimitError"
    BY <1>1, <2>3, OnSessionLimitIsOK DEF Outcome
  <2>4. CASE verdict = "RateLimitError"
    BY <1>1, <2>4, LaterIsOK, Constants DEF Outcome, Errors
  <2>5. CASE verdict \notin {"ok", "AuthError", "SessionLimitError", "RateLimitError"}
    BY <1>1, <2>5, LaterIsOK DEF Outcome, Errors
  <2> QED
    BY <2>1, <2>2, <2>3, <2>4, <2>5
<1> QED
  BY <1>3, <1>5, RecordKeeps DEF ProcessEnds, Inv, verdict

\* A restart empties the windows and what was counted in them; the attempts that ran
\* time out.
LEMMA WorkerRestartsKeeps ==
  ASSUME Inv, WorkerRestarts
  PROVE  Inv'
<1>0. New.told = <<None, 0, 0>>
  BY DEF New
<1>1. ASSUME NEW c \in Calls
      PROVE  call'[c] \in CallType /\ RecordOK(c, call'[c])
  <2>1. call[c] \in CallType /\ RecordOK(c, call[c]) /\ now \in Nat
    BY DEF Inv
  <2>2. CASE call[c].at \in {"dispatching", "running"}
    <3> DEFINE next == Later(call[c], "Timeout", 0)
    <3>1. call[c].error = None /\ call'[c] = [next EXCEPT !.told = New.told]
      BY <2>1, <2>2 DEF RecordOK, WorkerRestarts
    <3>2. next \in CallType /\ RecordOK(c, next)
      BY <2>1, <3>1, LaterIsOK DEF Errors
    <3> HIDE DEF next
    <3>3. /\ [next EXCEPT !.told = <<None, 0, 0>>] \in CallType
          /\ RecordOK(c, [next EXCEPT !.told = <<None, 0, 0>>])
      BY <3>2, RetoldIsOK
    <3> QED
      BY <1>0, <3>1, <3>3
  <2>3. CASE call[c].at \notin {"dispatching", "running"}
    <3>1. call'[c] = [call[c] EXCEPT !.told = New.told]
      BY <2>3 DEF WorkerRestarts
    <3>2. /\ [call[c] EXCEPT !.told = <<None, 0, 0>>] \in CallType
          /\ RecordOK(c, [call[c] EXCEPT !.told = <<None, 0, 0>>])
      BY <2>1, RetoldIsOK
    <3> QED
      BY <1>0, <3>1, <3>2
  <2> QED
    BY <2>2, <2>3
<1>2. call' \in [Calls -> CallType] /\ \A c \in Calls : RecordOK(c, call'[c])
  BY <1>1 DEF WorkerRestarts
<1>3. \A a \in Accounts : calls'[a] = <<>> /\ spent'[a] = <<>>
  BY DEF WorkerRestarts, Limiters
<1>4. Tallies(<<>>, <<>>, now) /\ Spread(<<>>)
  BY NothingTallies DEF Inv
<1>6. calls' \in [Limiters -> Seq(Nat)] /\ spent' \in [Accounts -> Seq(Nat)]
  BY DEF WorkerRestarts
<1>7. incidents' \in 0..MaxIncidents
  BY Constants DEF Inv, WorkerRestarts, Incident
<1> QED
  BY <1>2, <1>3, <1>4, <1>6, <1>7 DEF Inv, WorkerRestarts

\* Time only takes calls out of the window.
LEMMA TickKeeps ==
  ASSUME Inv, Tick
  PROVE  Inv'
<1>1. now \in Nat /\ now' = now + 1 /\ now' \in 0..Horizon
  BY Constants DEF Inv, Tick
<1>2. ASSUME NEW a \in Accounts
      PROVE  Tallies(calls[a], spent[a], now + 1)
  BY <1>1, LaterTallies DEF Inv
<1> QED
  BY <1>1, <1>2 DEF Inv, Tick

\* An account that is capped answers otherwise, and counts as before.
LEMMA AccountIsCappedKeeps ==
  ASSUME Inv, AccountIsCapped
  PROVE  Inv'
  BY DEF Inv, AccountIsCapped

(***************************************************************************)
(* The dispatch.                                                           *)
(***************************************************************************)
\* A call that is refused leaves its window pruned.
LEMMA RefuseKeeps ==
  ASSUME Inv, NEW c \in Calls, At(c, "dispatching"), NEW l \in Accounts,
         msUntilSlot(l) > 0, Refuse(c, l), calls' = [calls EXCEPT ![l] = Pruned(l)],
         UNCHANGED <<now, capped, incidents>>
  PROVE  Inv'
<1> DEFINE refused == Later(call[c], "RateWindowExceededError", msUntilSlot(l))
           told == <<l, Len(spent[l]), now + msUntilSlot(l)>>
           record == [refused EXCEPT !.told = told]
<1>1. call[c] \in CallType /\ call[c].error = None /\ now \in Nat /\ incidents \in 0..MaxIncidents
  BY DEF Inv, RecordOK, At
<1>2. l \in Limiters /\ Tallies(calls[l], spent[l], now) /\ calls[l] \in Seq(Nat)
  BY LimiterIsTheAccounts DEF Inv, Tallies
<1>3. Tallies(Pruned(l), spent[l], now)
  BY <1>1, <1>2, PrunedTallies
<1>4. msUntilSlot(l) \in Nat
  BY <1>1, <1>2, SlotIsFree
<1>5. record \in CallType /\ RecordOK(c, record)
  <2>1. refused \in CallType /\ RecordOK(c, refused)
    BY <1>1, <1>4, LaterIsOK DEF Errors
  <2>2. Len(spent[l]) \in Nat /\ now + msUntilSlot(l) \in Nat
    BY <1>1, <1>2, <1>4 DEF Tallies
  <2> HIDE DEF refused
  <2> QED
    BY <2>1, <2>2, RetoldIsOK
<1>6. call' = [call EXCEPT ![c] = record] /\ spent' = spent
  BY DEF Refuse, Becomes
<1> HIDE DEF record
<1>7. call' \in [Calls -> CallType] /\ \A d \in Calls : RecordOK(d, call'[d])
  BY <1>5, <1>6 DEF Inv
<1>8. calls' \in [Limiters -> Seq(Nat)]
  BY <1>3 DEF Inv, Tallies
<1>9. \A a \in Accounts : Tallies(calls'[a], spent[a], now)
  BY <1>3, LimiterIsTheAccounts DEF Inv
<1> QED
  BY <1>6, <1>7, <1>8, <1>9 DEF Inv

\* A call that is let through is counted by the limiter of its subscription.
LEMMA AdmitKeeps ==
  ASSUME Inv, NEW c \in Calls, At(c, "dispatching"), NEW l \in Accounts,
         ~(msUntilSlot(l) > 0), calls' = [calls EXCEPT ![l] = Append(Pruned(l), now)],
         spent' = [spent EXCEPT ![l] = Append(spent[l], now)],
         Becomes(c, [call[c] EXCEPT !.at = "running"]), UNCHANGED <<now, capped, incidents>>
  PROVE  Inv'
<1> DEFINE record == [call[c] EXCEPT !.at = "running"]
<1>1. /\ call[c] \in CallType /\ RecordOK(c, call[c]) /\ call[c].at = "dispatching" /\ now \in Nat
  BY DEF Inv, At
<1>2. l \in Limiters /\ Tallies(calls[l], spent[l], now) /\ Spread(spent[l]) /\ calls[l] \in Seq(Nat)
  BY LimiterIsTheAccounts DEF Inv, Tallies
<1>3. Tallies(Pruned(l), spent[l], now) /\ Len(Pruned(l)) < MaxCalls
  BY <1>1, <1>2, PrunedTallies, SlotIsFree
<1>4. Tallies(Append(Pruned(l), now), Append(spent[l], now), now) /\ Spread(Append(spent[l], now))
  BY <1>1, <1>2, <1>3, AppendTallies
<1>5. record \in CallType /\ RecordOK(c, record)
  <2>1. record \in CallType
    BY <1>1 DEF CallType, Stages
  <2>2. /\ record.at = "running" /\ record.pos = call[c].pos /\ record.met = call[c].met
        /\ record.error = call[c].error
    BY <1>1 DEF CallType
  <2> HIDE DEF record
  <2> QED
    BY <1>1, <2>1, <2>2 DEF RecordOK, None
<1> HIDE DEF record
<1>6. call' = [call EXCEPT ![c] = record]
  BY DEF Becomes, record
<1>7. call' \in [Calls -> CallType] /\ \A d \in Calls : RecordOK(d, call'[d])
  BY <1>5, <1>6 DEF Inv
<1>8. calls' \in [Limiters -> Seq(Nat)] /\ spent' \in [Accounts -> Seq(Nat)]
  BY <1>4 DEF Inv, Tallies
<1>9. \A a \in Accounts : Tallies(calls'[a], spent'[a], now) /\ Spread(spent'[a])
  BY <1>4, LimiterIsTheAccounts DEF Inv
<1> QED
  BY <1>7, <1>8, <1>9 DEF Inv

LEMMA DispatchKeeps ==
  ASSUME Inv, NEW c \in Calls, Dispatch(c)
  PROVE  Inv'
<1> DEFINE l == LimiterOf(Backend(c))
<1>1. l \in Accounts /\ Account(Backend(c)) = l
  BY LimiterIsTheAccounts
<1>2. CASE msUntilSlot(l) > 0
  BY <1>1, <1>2, RefuseKeeps DEF Dispatch
<1>3. CASE ~(msUntilSlot(l) > 0)
  BY <1>1, <1>3, AdmitKeeps DEF Dispatch
<1> QED
  BY <1>2, <1>3

(***************************************************************************)
(* All steps, and the theorems.                                            *)
(***************************************************************************)
LEMMA StepKeeps ==
  ASSUME Inv, [Next]_vars
  PROVE  Inv'
<1>1. CASE UNCHANGED vars
  BY <1>1 DEF Inv, vars
<1>2. ASSUME NEW c \in Calls, CallStep(c) \/ TouchFails(c) \/ AttemptTimesOut(c)
      PROVE  Inv'
  BY <1>2, AttemptKeeps, DispatchKeeps, ProcessEndsKeeps, TouchFailsKeeps, AttemptTimesOutKeeps
  DEF CallStep
<1>3. CASE Tick
  BY <1>3, TickKeeps
<1>4. CASE AccountIsCapped
  BY <1>4, AccountIsCappedKeeps
<1>5. CASE WorkerRestarts
  BY <1>5, WorkerRestartsKeeps
<1> QED
  BY <1>1, <1>2, <1>3, <1>4, <1>5 DEF Next

LEMMA InitInv == Init => Inv
<1> SUFFICES ASSUME Init PROVE Inv
  OBVIOUS
<1>1. \A c \in Calls : call[c] = New
  BY DEF Init
<1>2. New \in CallType
  BY Constants DEF New, CallType, Stages
<1>3. \A c \in Calls : RecordOK(c, New)
  BY DEF New, RecordOK, None
<1>4. Tallies(<<>>, <<>>, now) /\ Spread(<<>>)
  BY NothingTallies DEF Init
<1>5. \A a \in Accounts : calls[a] = <<>> /\ spent[a] = <<>>
  BY LimiterIsTheAccounts DEF Init
<1>6. calls \in [Limiters -> Seq(Nat)] /\ spent \in [Accounts -> Seq(Nat)]
  BY EmptySeq DEF Init
<1>7. call \in [Calls -> CallType] /\ \A c \in Calls : RecordOK(c, call[c])
  BY <1>1, <1>2, <1>3 DEF Init
<1> QED
  BY <1>4, <1>5, <1>6, <1>7, Constants DEF Inv, Init

LEMMA RunsKeepInv == Spec => []Inv
  BY InitInv, StepKeeps, PTL DEF Spec

\* A limiter that belongs to no account counts nothing.
LEMMA InvTypes ==
  ASSUME Inv
  PROVE  TypeOK
<1>1. ASSUME NEW l \in Limiters
      PROVE  Len(calls[l]) <= MaxCalls /\ \A i \in DOMAIN calls[l] : calls[l][i] <= now
  <2>1. CASE l \in Accounts
    <3>1. Tallies(calls[l], spent[l], now)
      BY <2>1 DEF Inv
    <3>2. calls[l] \in Seq(Nat) /\ spent[l] \in Seq(Nat) /\ Len(calls[l]) <= Len(spent[l])
      BY <3>1 DEF Tallies
    <3> DEFINE k == Len(calls[l])
               n == Len(spent[l])
    <3>3. k \in Nat /\ n \in Nat /\ k <= n /\ DOMAIN calls[l] = 1..k
      BY <3>2, LenProperties
    <3> HIDE DEF k, n
    <3>4. \A i \in 1..k : (n - k) + i \in 1..n
      BY <3>3
    <3> QED
      BY <3>1, <3>3, <3>4 DEF Tallies, k, n
  <2>2. CASE l \notin Accounts
    <3>1. calls[l] = <<>>
      BY <2>2 DEF Inv
    <3>2. Len(<<>>) = 0 /\ DOMAIN <<>> = {}
      BY EmptySeq
    <3> QED
      BY <3>1, <3>2, Constants
  <2> QED
    BY <2>1, <2>2
<1>2. ASSUME NEW c \in Calls
      PROVE  /\ call[c].at \in Stages /\ call[c].attempt \in 0..MaxAttempts
             /\ call[c].error \in Errors \cup {None}
             /\ call[c].at \in {"dispatching", "running"} => call[c].pos \in DOMAIN Tier[c]
  BY DEF Inv, CallType, RecordOK
<1> QED
  BY <1>1, <1>2 DEF Inv, TypeOK, Stages

(***************************************************************************)
(* The wait of a call that was refused.                                    *)
(***************************************************************************)
\* While a window has counted no call since it refused this one, it is full, the
\* moment it told is the one at which its first call leaves it, and the call does not
\* come back before.
Told(record, windows, counted, t) ==
  \A l \in Accounts : record.told[1] = l =>
    /\ record.told[2] <= Len(counted[l])
    /\ record.told[2] = Len(counted[l]) =>
         /\ Len(windows[l]) = MaxCalls /\ record.told[3] = windows[l][1] + Window
         /\ record.at \in {"dispatching", "running"} => t >= record.told[3]
         /\ record.at = "ready" => record.wake >= record.told[3]

Exact == \A c \in Calls : Told(call[c], calls, spent, now)

\* A step that leaves the windows and the clock alone and sends no call away for less
\* than nothing keeps that.
LEMMA RecordStaysExact ==
  ASSUME Inv, Exact, NEW c \in Calls, NEW record, Becomes(c, record),
         UNCHANGED <<now, calls, spent>>,
         record.told = call[c].told, record.at = "ready" => record.wake \in Nat /\ record.wake >= now,
         \/ call[c].at \in {"dispatching", "running"}
         \/ call[c].at = "ready" /\ now >= call[c].wake
  PROVE  Exact'
<1>1. /\ now \in Nat /\ call[c] \in CallType /\ call[c].wake \in Nat /\ call[c].told[3] \in Nat
  BY DEF Inv, CallType
<1>2. Told(record, calls, spent, now)
  <2> SUFFICES ASSUME NEW l \in Accounts, record.told[1] = l
               PROVE  /\ record.told[2] <= Len(spent[l])
                      /\ record.told[2] = Len(spent[l]) =>
                           /\ Len(calls[l]) = MaxCalls
                           /\ record.told[3] = calls[l][1] + Window
                           /\ record.at \in {"dispatching", "running"} => now >= record.told[3]
                           /\ record.at = "ready" => record.wake >= record.told[3]
    BY DEF Told
  <2>1. Told(call[c], calls, spent, now)
    BY DEF Exact
  <2>2. /\ call[c].told[2] <= Len(spent[l])
        /\ call[c].told[2] = Len(spent[l]) =>
             /\ Len(calls[l]) = MaxCalls /\ call[c].told[3] = calls[l][1] + Window
             /\ call[c].at \in {"dispatching", "running"} => now >= call[c].told[3]
             /\ call[c].at = "ready" => call[c].wake >= call[c].told[3]
    BY <2>1 DEF Told
  <2> QED
    BY <1>1, <2>2
<1>3. \A d \in Calls : call'[d] = IF d = c THEN record ELSE call[d]
  BY DEF Inv, Becomes
<1> QED
  BY <1>2, <1>3 DEF Exact

\* What becomes of a call whose attempt throws remembers what it was told.
LEMMA ThrownRemembers ==
  ASSUME NEW record \in CallType, NEW error, NEW delay \in Nat, now \in Nat
  PROVE  /\ Never(record, error).told = record.told /\ Never(record, error).at = "failed"
         /\ Later(record, error, delay).told = record.told
         /\ Later(record, error, delay).at = "ready" =>
              Later(record, error, delay).wake \in Nat /\ Later(record, error, delay).wake >= now
<1>1. now + delay \in Nat /\ now + delay >= now
  OBVIOUS
<1>2. Never(record, error).told = record.told /\ Never(record, error).at = "failed"
  BY DEF Never, CallType
<1>3. CASE record.attempt = MaxAttempts
  BY <1>2, <1>3 DEF Later
<1>4. CASE record.attempt # MaxAttempts
  <2>1. Later(record, error, delay) = [record EXCEPT !.at = "ready", !.wake = now + delay]
    BY <1>4 DEF Later
  <2>2. /\ Later(record, error, delay).told = record.told
        /\ Later(record, error, delay).wake = now + delay
    BY <2>1 DEF CallType
  <2> QED
    BY <1>1, <1>2, <2>2
<1> QED
  BY <1>2, <1>3, <1>4

LEMMA AttemptStaysExact ==
  ASSUME Inv, Exact, NEW c \in Calls, Attempt(c)
  PROVE  Exact'
<1> DEFINE next == [call[c] EXCEPT !.attempt = call[c].attempt + 1, !.pos = 1, !.met = {}]
<1>1. /\ call[c] \in CallType /\ now \in Nat /\ call[c].attempt < MaxAttempts
      /\ call[c].at = "ready" /\ now >= call[c].wake
  BY DEF Inv, Attempt, At
<1>2. next \in CallType /\ next.told = call[c].told
  <2>1. call[c].attempt + 1 \in 0..MaxAttempts /\ {} \in SUBSET (Nat \ {0}) /\ 1 \in Nat \ {0}
    BY <1>1, Constants DEF CallType
  <2> QED
    BY <1>1, <2>1 DEF CallType
<1>3. PICK record : /\ Becomes(c, record)
                    /\ \/ record = Later(next, "UnknownTier", 0)
                       \/ record = Never(next, "ProjectAuthorizationError")
                       \/ record = [next EXCEPT !.at = "dispatching"]
  BY DEF Attempt
<1> HIDE DEF next
<1>4. /\ record.told = call[c].told
      /\ record.at = "ready" => record.wake \in Nat /\ record.wake >= now
  <2>1. CASE record = [next EXCEPT !.at = "dispatching"]
    <3>1. record.told = next.told /\ record.at = "dispatching"
      BY <1>2, <2>1 DEF CallType
    <3> QED
      BY <1>2, <3>1
  <2>2. CASE record = Later(next, "UnknownTier", 0)
    <3>1. 0 \in Nat
      OBVIOUS
    <3> QED
      BY <1>1, <1>2, <2>2, <3>1, ThrownRemembers, Zenon
  <2>3. CASE record = Never(next, "ProjectAuthorizationError")
    <3>1. Never(next, "ProjectAuthorizationError").told = next.told
          /\ Never(next, "ProjectAuthorizationError").at = "failed"
      BY <1>2 DEF Never, CallType
    <3> QED
      BY <1>2, <2>3, <3>1
  <2> QED
    BY <1>3, <2>1, <2>2, <2>3
<1> QED
  BY <1>1, <1>3, <1>4, RecordStaysExact DEF Attempt

LEMMA ProcessEndsStaysExact ==
  ASSUME Inv, Exact, NEW c \in Calls, ProcessEnds(c)
  PROVE  Exact'
<1>1. call[c] \in CallType /\ now \in Nat /\ call[c].at = "running"
  BY DEF Inv, ProcessEnds, At
<1>2. PICK output \in Outputs :
        Becomes(c, Outcome(c, parseOutput(Backend(c), output)))
  BY DEF ProcessEnds, Possible, Outputs
<1> DEFINE verdict == parseOutput(Backend(c), output)
           outcome == Outcome(c, verdict)
<1> HIDE DEF verdict
<1>3. /\ outcome.told = call[c].told
      /\ outcome.at = "ready" => outcome.wake \in Nat /\ outcome.wake >= now
  <2>1. CASE verdict = "ok"
    <3>1. outcome = [call[c] EXCEPT !.at = "done"]
      BY <2>1 DEF Outcome
    <3>2. outcome.told = call[c].told /\ outcome.at = "done"
      BY <1>1, <3>1 DEF CallType
    <3> HIDE DEF outcome
    <3> QED
      BY <3>2
  <2>2. CASE verdict = "AuthError"
    BY <1>1, <2>2, ThrownRemembers DEF Outcome
  <2>3. CASE verdict = "SessionLimitError"
    <3> DEFINE met == call[c].met \cup {call[c].pos}
               further == [call[c] EXCEPT !.at = "dispatching", !.pos = call[c].pos + 1, !.met = met]
               over == [call[c] EXCEPT !.met = met]
    <3>1. outcome = OnSessionLimit(c)
      BY <2>3 DEF Outcome
    <3>2. further.told = call[c].told /\ further.at = "dispatching"
      BY <1>1 DEF CallType
    <3>3. Never(over, "SessionLimitExhaustedError").told = call[c].told
          /\ Never(over, "SessionLimitExhaustedError").at = "failed"
      <4>1. over.told = call[c].told /\ over \in CallType
        BY <1>1 DEF CallType
      <4> HIDE DEF over
      <4> QED
        BY <1>1, <4>1, ThrownRemembers
    <3>4. \/ outcome = Later(call[c], "SessionLimitError", 0)
          \/ outcome = further
          \/ outcome = Never(over, "SessionLimitExhaustedError")
      BY <3>1 DEF OnSessionLimit
    <3> HIDE DEF outcome, further, over
    <3> QED
      BY <1>1, <3>2, <3>3, <3>4, ThrownRemembers
  <2>4. CASE verdict = "RateLimitError"
    BY <1>1, <2>4, ThrownRemembers, Constants DEF Outcome
  <2>5. CASE verdict \notin {"ok", "AuthError", "SessionLimitError", "RateLimitError"}
    BY <1>1, <2>5, ThrownRemembers DEF Outcome
  <2> QED
    BY <2>1, <2>2, <2>3, <2>4, <2>5
<1>4. Becomes(c, outcome)
  BY <1>2 DEF verdict
<1> HIDE DEF outcome
<1> QED
  BY <1>1, <1>3, <1>4, RecordStaysExact DEF ProcessEnds

LEMMA FailedAttemptsStayExact ==
  ASSUME Inv, Exact, NEW c \in Calls, TouchFails(c) \/ AttemptTimesOut(c)
  PROVE  Exact'
<1>1. call[c] \in CallType /\ now \in Nat /\ call[c].at \in {"dispatching", "running"}
  BY DEF Inv, TouchFails, AttemptTimesOut, At
<1>2. PICK record : /\ Becomes(c, record)
                    /\ \/ record = Never(call[c], "WorkspaceError")
                       \/ record = Later(call[c], "WorkspaceError", 0)
                       \/ record = Later(call[c], "Timeout", 0)
  BY DEF TouchFails, AttemptTimesOut
<1>3. /\ record.told = call[c].told
      /\ record.at = "ready" => record.wake \in Nat /\ record.wake >= now
  <2>1. CASE record = Never(call[c], "WorkspaceError")
    <3>1. /\ Never(call[c], "WorkspaceError").told = call[c].told
          /\ Never(call[c], "WorkspaceError").at = "failed"
      BY <1>1 DEF Never, CallType
    <3> QED
      BY <2>1, <3>1
  <2>2. CASE record # Never(call[c], "WorkspaceError")
    <3>1. 0 \in Nat
      OBVIOUS
    <3>2. CASE record = Later(call[c], "WorkspaceError", 0)
      BY <1>1, <3>1, <3>2, ThrownRemembers, Zenon
    <3>3. CASE record = Later(call[c], "Timeout", 0)
      BY <1>1, <3>1, <3>3, ThrownRemembers, Zenon
    <3> QED
      BY <1>2, <2>2, <3>2, <3>3
  <2> QED
    BY <2>1, <2>2
<1> QED
  BY <1>1, <1>2, <1>3, RecordStaysExact DEF TouchFails, AttemptTimesOut

\* A window that refuses has nothing to forget: it is as full as before, so the calls
\* it refused earlier were told the same moment.
LEMMA RefuseStaysExact ==
  ASSUME Inv, Exact, NEW c \in Calls, NEW l \in Accounts,
         msUntilSlot(l) > 0, Refuse(c, l), calls' = [calls EXCEPT ![l] = Pruned(l)],
         UNCHANGED now
  PROVE  Exact'
<1> DEFINE refused == Later(call[c], "RateWindowExceededError", msUntilSlot(l))
           told == <<l, Len(spent[l]), now + msUntilSlot(l)>>
           record == [refused EXCEPT !.told = told]
<1>1. /\ call[c] \in CallType /\ now \in Nat /\ l \in Limiters /\ calls[l] \in Seq(Nat)
      /\ Len(calls[l]) \in Nat /\ Len(calls[l]) <= MaxCalls /\ Len(spent[l]) \in Nat
  <2>1. call[c] \in CallType /\ now \in Nat
    BY DEF Inv
  <2>2. l \in Limiters
    BY LimiterIsTheAccounts
  <2>3. Tallies(calls[l], spent[l], now)
    BY DEF Inv
  <2> QED
    BY <2>1, <2>2, <2>3, LenProperties DEF Tallies
<1>2. PICK d \in 0..Len(calls[l]) :
           /\ Pruned(l) \in Seq(Nat) /\ Len(Pruned(l)) = Len(calls[l]) - d
           /\ \A i \in 1..Len(Pruned(l)) : Pruned(l)[i] = calls[l][d + i]
           /\ Len(Pruned(l)) > 0 => Pruned(l)[1] + Window > now
  BY <1>1, PrunedIsATail
<1>3. ~(Len(Pruned(l)) < MaxCalls) /\ msUntilSlot(l) = Pruned(l)[1] + Window - now
  BY DEF msUntilSlot
<1>4. d = 0 /\ Len(Pruned(l)) = MaxCalls /\ Len(calls[l]) = MaxCalls
  BY <1>1, <1>2, <1>3, Constants
<1>5. Pruned(l)[1] = calls[l][1] /\ calls[l][1] \in Nat
  BY <1>1, <1>2, <1>4, Constants
<1>6. /\ now + msUntilSlot(l) = calls[l][1] + Window /\ msUntilSlot(l) \in Nat
      /\ calls[l][1] + Window \in Nat
  BY <1>1, <1>2, <1>3, <1>4, <1>5, Constants
<1>7. \A a \in Accounts : Len(calls'[a]) = Len(calls[a]) /\ calls'[a][1] = calls[a][1]
  BY <1>4, <1>5, LimiterIsTheAccounts DEF Inv
<1>8. call' = [call EXCEPT ![c] = record] /\ spent' = spent
  BY DEF Refuse, Becomes
<1>9. /\ record.told = told
      /\ record.at = "ready" => record.wake = calls[l][1] + Window
      /\ record.at \notin {"dispatching", "running"}
  <2>1. CASE call[c].attempt = MaxAttempts
    <3>1. refused \in CallType /\ refused.at = "failed"
      BY <1>1, <2>1 DEF Later, Never, CallType, Stages, Errors
    <3> HIDE DEF refused, told
    <3>2. record.told = told /\ record.at = "failed"
      BY <3>1 DEF CallType
    <3> HIDE DEF record
    <3> QED
      BY <3>2
  <2>2. CASE call[c].attempt # MaxAttempts
    <3>1. refused = [call[c] EXCEPT !.at = "ready", !.wake = now + msUntilSlot(l)]
      BY <2>2 DEF Later
    <3>2. refused \in CallType /\ refused.at = "ready" /\ refused.wake = calls[l][1] + Window
      BY <1>1, <1>6, <3>1 DEF CallType, Stages
    <3> HIDE DEF refused, told
    <3>3. record.told = told /\ record.at = "ready" /\ record.wake = refused.wake
      BY <3>2 DEF CallType
    <3> HIDE DEF record
    <3> QED
      BY <3>2, <3>3
  <2> QED
    BY <2>1, <2>2
<1>10. told[1] = l /\ told[2] = Len(spent[l]) /\ told[3] = calls[l][1] + Window
  BY <1>6
<1> HIDE DEF record, told
<1>11. ASSUME NEW b \in Calls
       PROVE  Told(call'[b], calls', spent, now)
  <2>1. CASE b = c
    <3>1. call'[b] = record
      BY <1>8, <2>1 DEF Inv
    <3>2. ASSUME NEW a \in Accounts, record.told[1] = a
          PROVE  /\ record.told[2] <= Len(spent[a])
                 /\ Len(calls'[a]) = MaxCalls /\ record.told[3] = calls'[a][1] + Window
                 /\ record.at \in {"dispatching", "running"} => now >= record.told[3]
                 /\ record.at = "ready" => record.wake >= record.told[3]
      <4>1. a = l /\ record.told[2] = Len(spent[l]) /\ record.told[3] = calls[l][1] + Window
        BY <1>9, <1>10, <3>2
      <4>2. record.at = "ready" => record.wake >= record.told[3]
        BY <1>6, <1>9, <4>1
      <4> QED
        BY <1>1, <1>4, <1>7, <1>9, <4>1, <4>2
    <3>3. Told(record, calls', spent, now)
      BY <3>2 DEF Told
    <3> QED
      BY <3>1, <3>3
  <2>2. CASE b # c
    <3>1. call'[b] = call[b] /\ Told(call[b], calls, spent, now)
      BY <1>8, <2>2 DEF Inv, Exact
    <3> QED
      BY <1>7, <3>1 DEF Told
  <2> QED
    BY <2>1, <2>2
<1> QED
  BY <1>8, <1>11 DEF Exact

\* A call that is let in is counted, so the window owes its earlier answers nothing.
LEMMA AdmitStaysExact ==
  ASSUME Inv, Exact, NEW c \in Calls, NEW l \in Accounts, At(c, "dispatching"),
         calls' = [calls EXCEPT ![l] = Append(Pruned(l), now)],
         spent' = [spent EXCEPT ![l] = Append(spent[l], now)],
         Becomes(c, [call[c] EXCEPT !.at = "running"]), UNCHANGED now
  PROVE  Exact'
<1>1. /\ call[c] \in CallType /\ call[c].at = "dispatching" /\ now \in Nat
      /\ spent[l] \in Seq(Nat) /\ Len(spent[l]) \in Nat /\ spent \in [Accounts -> Seq(Nat)]
      /\ calls \in [Limiters -> Seq(Nat)] /\ l \in Limiters
  <2>1. /\ call[c] \in CallType /\ call[c].at = "dispatching" /\ now \in Nat
        /\ spent \in [Accounts -> Seq(Nat)] /\ calls \in [Limiters -> Seq(Nat)]
    BY DEF Inv, At
  <2>2. l \in Limiters /\ spent[l] \in Seq(Nat)
    BY <2>1, LimiterIsTheAccounts
  <2> QED
    BY <2>1, <2>2, LenProperties
<1>2. spent'[l] = Append(spent[l], now) /\ Len(spent'[l]) = Len(spent[l]) + 1
  BY <1>1
<1>3. \A a \in Accounts \ {l} : calls'[a] = calls[a] /\ spent'[a] = spent[a]
  BY <1>1, LimiterIsTheAccounts
<1>4. ASSUME NEW old \in CallType, Told(old, calls, spent, now),
             NEW new, new.told = old.told, new.at = "ready" => new = old,
             new.at \in {"dispatching", "running"} => old.at \in {"dispatching", "running"}
      PROVE  Told(new, calls', spent', now)
  <2> SUFFICES ASSUME NEW a \in Accounts, new.told[1] = a
               PROVE  /\ new.told[2] <= Len(spent'[a])
                      /\ new.told[2] = Len(spent'[a]) =>
                           /\ Len(calls'[a]) = MaxCalls
                           /\ new.told[3] = calls'[a][1] + Window
                           /\ new.at \in {"dispatching", "running"} => now >= new.told[3]
                           /\ new.at = "ready" => new.wake >= new.told[3]
    BY DEF Told
  <2>1. old.told[2] \in Nat /\ old.told[2] <= Len(spent[a])
    BY <1>4 DEF Told, CallType
  <2>2. CASE a = l
    BY <1>1, <1>2, <1>4, <2>1, <2>2
  <2>3. CASE a # l
    <3>1. calls'[a] = calls[a] /\ spent'[a] = spent[a]
      BY <1>3, <2>3
    <3> QED
      BY <1>4, <2>1, <3>1 DEF Told
  <2> QED
    BY <2>2, <2>3
<1>5. ASSUME NEW b \in Calls
      PROVE  Told(call'[b], calls', spent', now)
  <2>1. call[b] \in CallType /\ Told(call[b], calls, spent, now)
    BY DEF Inv, Exact
  <2>2. CASE b = c
    <3>1. call'[c] = [call[c] EXCEPT !.at = "running"]
      BY DEF Inv, Becomes
    <3>2. call'[c].told = call[c].told /\ call'[c].at = "running"
      BY <1>1, <3>1 DEF CallType
    <3>3. "running" # "ready"
      OBVIOUS
    <3> QED
      BY <1>1, <1>4, <2>1, <2>2, <3>2, <3>3
  <2>3. CASE b # c
    <3>1. call'[b] = call[b]
      BY <2>3 DEF Inv, Becomes
    <3> QED
      BY <1>4, <2>1, <3>1
  <2> QED
    BY <2>2, <2>3
<1> QED
  BY <1>5 DEF Exact

LEMMA DispatchStaysExact ==
  ASSUME Inv, Exact, NEW c \in Calls, Dispatch(c)
  PROVE  Exact'
<1> DEFINE l == LimiterOf(Backend(c))
<1>1. l \in Accounts /\ Account(Backend(c)) = l
  BY LimiterIsTheAccounts
<1>2. CASE msUntilSlot(l) > 0
  BY <1>1, <1>2, RefuseStaysExact DEF Dispatch
<1>3. CASE ~(msUntilSlot(l) > 0)
  BY <1>1, <1>3, AdmitStaysExact DEF Dispatch
<1> QED
  BY <1>2, <1>3

LEMMA TimeStaysExact ==
  ASSUME Inv, Exact, Tick
  PROVE  Exact'
<1>1. now \in Nat /\ now' = now + 1 /\ call' = call /\ calls' = calls /\ spent' = spent
  BY DEF Inv, Tick
<1>2. ASSUME NEW c \in Calls
      PROVE  Told(call[c], calls, spent, now + 1)
  <2>1. call[c].told[3] \in Nat /\ Told(call[c], calls, spent, now)
    BY DEF Inv, CallType, Exact
  <2> QED
    BY <1>1, <2>1 DEF Told
<1> QED
  BY <1>1, <1>2 DEF Exact

\* A restarted worker has told nobody anything.
LEMMA RestartStaysExact ==
  ASSUME Inv, WorkerRestarts
  PROVE  Exact'
<1>1. ASSUME NEW c \in Calls
      PROVE  call'[c].told = <<None, 0, 0>>
  <2> DEFINE next == IF call[c].at \in {"dispatching", "running"}
                     THEN Later(call[c], "Timeout", 0) ELSE call[c]
  <2>1. call'[c] = [next EXCEPT !.told = New.told]
    BY DEF WorkerRestarts
  <2>2. next \in CallType
    <3>1. call[c] \in CallType /\ RecordOK(c, call[c]) /\ now \in Nat
      BY DEF Inv
    <3>2. call[c].at \in {"dispatching", "running"} => call[c].error = None
      BY <3>1 DEF RecordOK
    <3> QED
      BY <3>1, <3>2, LaterIsOK DEF Errors
  <2> HIDE DEF next
  <2>3. call'[c].told = New.told
    BY <2>1, <2>2 DEF CallType
  <2> QED
    BY <2>3 DEF New
<1>2. <<None, 0, 0>>[1] = None /\ None \notin Accounts
  BY DEF None, Accounts
<1> QED
  BY <1>1, <1>2 DEF Exact, Told

LEMMA StepStaysExact ==
  ASSUME Inv, Exact, [Next]_vars
  PROVE  Exact'
<1>1. CASE UNCHANGED vars
  BY <1>1 DEF Exact, vars
<1>2. ASSUME NEW c \in Calls, CallStep(c) \/ TouchFails(c) \/ AttemptTimesOut(c)
      PROVE  Exact'
  BY <1>2, AttemptStaysExact, DispatchStaysExact, ProcessEndsStaysExact, FailedAttemptsStayExact
  DEF CallStep
<1>3. CASE Tick
  BY <1>3, TimeStaysExact
<1>4. CASE AccountIsCapped
  BY <1>4 DEF Exact, AccountIsCapped
<1>5. CASE WorkerRestarts
  BY <1>5, RestartStaysExact
<1> QED
  BY <1>1, <1>2, <1>3, <1>4, <1>5 DEF Next

LEMMA InitExact == Init => Exact
<1> SUFFICES ASSUME Init PROVE Exact
  OBVIOUS
<1>1. \A c \in Calls : call[c].told = <<None, 0, 0>>
  BY DEF Init, New
<1>2. <<None, 0, 0>>[1] = None /\ None \notin Accounts
  BY DEF None, Accounts
<1> QED
  BY <1>1, <1>2 DEF Exact, Told

LEMMA RunsStayExact == Spec => [](Inv /\ Exact)
<1>1. Init => Inv /\ Exact
  BY InitInv, InitExact
<1>2. Inv /\ Exact /\ [Next]_vars => Inv' /\ Exact'
  BY StepKeeps, StepStaysExact
<1> QED
  BY <1>1, <1>2, PTL DEF Spec

\* A full window loses its first call, and so its fullness, at the moment it told.
LEMMA ExactWaits ==
  ASSUME Inv, Exact
  PROVE  WaitIsExact
<1> SUFFICES ASSUME NEW c \in Calls, NEW l \in Accounts, NEW until, until = call[c].told[3],
                    call[c].told = <<l, Len(spent[l]), until>>
             PROVE  /\ Len(Pruned(l)) < MaxCalls <=> now >= until
                    /\ At(c, "dispatching") => now >= until
  BY DEF WaitIsExact
<1>1. /\ now \in Nat /\ calls[l] \in Seq(Nat) /\ Len(calls[l]) \in Nat
  BY LimiterIsTheAccounts DEF Inv, Tallies
<1>2. call[c].told[1] = l /\ call[c].told[2] = Len(spent[l])
  OBVIOUS
<1>3. /\ Len(calls[l]) = MaxCalls /\ until = calls[l][1] + Window
      /\ call[c].at \in {"dispatching", "running"} => now >= until
  BY <1>2 DEF Exact, Told
<1>4. PICK d \in 0..Len(calls[l]) :
           /\ Pruned(l) \in Seq(Nat) /\ Len(Pruned(l)) = Len(calls[l]) - d
           /\ \A i \in 1..Len(Pruned(l)) : Pruned(l)[i] = calls[l][d + i]
           /\ \A i \in 1..d : calls[l][i] + Window <= now
           /\ Len(Pruned(l)) > 0 => Pruned(l)[1] + Window > now
  BY <1>1, PrunedIsATail
<1>5. calls[l][1] \in Nat
  BY <1>1, <1>3, Constants
<1>6. CASE d = 0
  <2>1. Len(Pruned(l)) = MaxCalls /\ Pruned(l)[1] = calls[l][1]
    BY <1>1, <1>3, <1>4, <1>6, Constants
  <2> QED
    BY <1>1, <1>3, <1>4, <1>5, <2>1, Constants DEF At
<1>7. CASE d # 0
  <2>1. 1 \in 1..d /\ Len(Pruned(l)) < MaxCalls
    BY <1>1, <1>3, <1>4, <1>7, Constants
  <2>2. until <= now
    BY <1>3, <1>4, <2>1
  <2> QED
    BY <1>1, <1>3, <1>5, <2>1, <2>2, Constants DEF At
<1> QED
  BY <1>6, <1>7

\* TypeOK: moments and places stay in their ranges.
THEOREM TypeCorrect == Spec => []TypeOK
<1>1. Inv => TypeOK
  BY InvTypes
<1> QED
  BY <1>1, RunsKeepInv, PTL

\* WindowIsKept: by all the backends, attempts and fallbacks of any calls together a
\* subscription is asked at most MaxCalls times in any window, from one start of the
\* worker to the next (rate-window-limiter.ts:20-39).
THEOREM WindowsAreKept == Spec => []WindowIsKept
<1>1. Inv => WindowIsKept
  BY DEF Inv, Spread, WindowIsKept
<1> QED
  BY <1>1, RunsKeepInv, PTL

\* WaitIsExact: the delay of a refused call is neither too short nor too long, whatever
\* the other calls meet meanwhile, as long as the window lets none of them in
\* (rate-window-limiter.ts:20-27, create-activities.ts:329-339).
THEOREM WaitsAreExact == Spec => []WaitIsExact
<1>1. Inv /\ Exact => WaitIsExact
  BY ExactWaits
<1> QED
  BY <1>1, RunsStayExact, PTL

\* ExhaustedMeansAll: a call is given up as exhausted only when every place of its
\* chain has met a session limit in one attempt (tier-fallback-backend.ts).
THEOREM ExhaustedIsAll == Spec => []ExhaustedMeansAll
<1>1. Inv => ExhaustedMeansAll
  BY DEF Inv, RecordOK, ExhaustedMeansAll
<1> QED
  BY <1>1, RunsKeepInv, PTL

===============================================================================
