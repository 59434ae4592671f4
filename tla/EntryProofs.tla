------------------------------- MODULE EntryProofs -------------------------------
(* How work gets into the engine.  A finding is filed once, a pull request that is  *)
(* handed over has one owner, and a landing is opened by who may, for any attempts, *)
(* deliveries, issues and mishaps.  A project that is kept keeps its schedules, for *)
(* any projects, agents and lists of the registry.                                  *)
EXTENDS Intake, Reconcile, FiniteSetTheorems, TLAPS

(***************************************************************************)
(* Intake: the inductive invariant.  What has been filed and what attempts *)
(* may still file is counted against the mishaps there were, and nothing   *)
(* is left to count while the row is free.                                 *)
(***************************************************************************)
\* Attempts that have promised an issue and not made it, and issues of the hunts.
Promised == {f \in Filers : filer[f].at \in {"creating", "releasing"}}
Promises(z) == IF z.at \in {"creating", "releasing"} THEN 1 ELSE 0
Working == {f \in Filers : filer[f].at # "idle"}
Hunted == {i \in Issues : by[i] = "hunt"}
Debt == Cardinality(Hunted) + Cardinality(Promised)

RowOK == row \in [exists : BOOLEAN, ref : {None} \cup Issues, stale : BOOLEAN] /\ (~row.exists => row = NoRow)
FilingOK ==
  /\ RowOK
  /\ filer \in [Filers -> FilerType] /\ by \in [Issues -> {"none", "hunt", "human"}]
  /\ \A f \in Filers : filer[f].at = "finalizing" => filer[f].issue # None
  /\ incidents \in Nat /\ IsFiniteSet(Working)

\* Every mishap pays for one issue.  The one that no mishap has paid for belongs to an
\* attempt that is at work under a reservation, or the row names an issue.
Reserved == row.exists /\ ~row.stale /\ Working # {}
Covered == row.ref = None /\ Debt = 1 + incidents => Reserved
DebtOK == Debt <= 1 + incidents /\ Covered

TrackerOK ==
  /\ linear \in {"none", "plain", "labelled"}
  /\ pr \in [owner : {"none", "human", "engine"}, labels : SUBSET {"automerge", "disable", "managed"}]
  /\ autoMerge \in {"disabled", "label"}
  /\ events \in Nat /\ incidents + events <= MaxEvents

\* What is about to start a landing is an invitation.
Invited(q) == Enrolls(q.m) /\ ~Managed(q.m) /\ q.mode # "disabled"
GatewayOK ==
  /\ request \in [Requests -> RequestType] /\ deliveries \in 0..MaxDeliveries
  /\ \A r \in Requests : request[r].at = "resolving" =>
       Enrolls(request[r].m) \/ Wakes(request[r].m) \/ request[r].m.event # "pull_request"
  /\ \A r \in Requests : request[r].at = "starting" /\ request[r].m.event = "pull_request" =>
       Invited(request[r])

CycleStates == {"none", "open", "labelling", "handing", "landing"} \cup Closed
ExecutionsOK ==
  /\ cycle \in [Issues \cup {LinearNumber} -> CycleStates]
  /\ landing \in {"none", "open"} \cup Closed

IntakeInv == FilingOK /\ DebtOK /\ TrackerOK /\ GatewayOK /\ ExecutionsOK

\* What grows by no more than is paid stays paid for.
LEMMA Paid ==
  ASSUME NEW debt \in Int, NEW paid \in Int, NEW owed \in Int, NEW pays \in Int, debt <= 1 + paid,
         (owed <= debt /\ paid <= pays) \/ (owed <= debt + 1 /\ paid + 1 <= pays)
  PROVE  owed <= 1 + pays /\ (owed = 1 + pays => debt = 1 + paid)
OBVIOUS

\* There are finitely many issues.
LEMMA IssuesAreFinite ==
  /\ IsFiniteSet(Issues) /\ None \notin Issues /\ LinearNumber \notin Issues
  /\ IsFiniteSet(Hunted)
<1>1. IsFiniteSet(Issues)
  BY IntakeAssumption, FS_Interval DEF Issues
<1>2. None \notin Issues /\ LinearNumber \notin Issues
  BY IntakeAssumption DEF Issues, None, LinearNumber
<1>3. IsFiniteSet(Hunted)
  BY <1>1, FS_Subset DEF Hunted
<1>4. QED BY <1>1, <1>2, <1>3

\* Who is not at work has promised nothing.
LEMMA PromisesAreFinite ==
  ASSUME FilingOK
  PROVE  /\ IsFiniteSet(Promised) /\ Promised \subseteq Working
         /\ Cardinality(Promised) \in Nat /\ Cardinality(Hunted) \in Nat /\ Debt \in Nat
<1>1. Promised \subseteq Working
  BY DEF Promised, Working
<1>2. IsFiniteSet(Promised)
  BY <1>1, FS_Subset DEF FilingOK
<1>3. QED BY <1>1, <1>2, IssuesAreFinite, FS_CardinalityType DEF Debt

\* An attempt that moves gives up its promise or makes one.
LEMMA FilerMoves ==
  ASSUME FilingOK, NEW f \in Filers, NEW x \in FilerType, filer' = [filer EXCEPT ![f] = x]
  PROVE  /\ filer' \in [Filers -> FilerType] /\ IsFiniteSet(Working')
         /\ \A g \in Filers : filer'[g] = IF g = f THEN x ELSE filer[g]
         /\ (f \in Working') <=> (x.at # "idle")
         /\ Cardinality(Promised') = Cardinality(Promised) + Promises(x) - Promises(filer[f])
         /\ Cardinality(Promised') \in Nat
<1>1. /\ filer' \in [Filers -> FilerType]
      /\ \A g \in Filers : filer'[g] = IF g = f THEN x ELSE filer[g]
  BY DEF FilingOK
<1>2. (f \in Working') <=> (x.at # "idle")
  BY <1>1 DEF Working
<1>3. IsFiniteSet(Working')
  <2>1. Working' \subseteq Working \cup {f}
    BY <1>1 DEF Working
  <2>2. IsFiniteSet(Working \cup {f})
    BY FS_AddElement DEF FilingOK
  <2>3. QED BY <2>1, <2>2, FS_Subset
<1>4. IsFiniteSet(Promised) /\ Cardinality(Promised) \in Nat
  BY PromisesAreFinite
<1>. DEFINE others == Promised \ {f}
<1>5. /\ IsFiniteSet(others) /\ Cardinality(others) \in Nat /\ f \notin others
      /\ Cardinality(Promised) = Cardinality(others) + Promises(filer[f])
  <2>1. IsFiniteSet(others) /\ Cardinality(others) = IF f \in Promised THEN Cardinality(Promised) - 1 ELSE Cardinality(Promised)
    BY <1>4, FS_RemoveElement
  <2>2. (f \in Promised) <=> filer[f].at \in {"creating", "releasing"}
    BY DEF Promised
  <2>3. Cardinality(others) \in Nat
    BY <2>1, FS_CardinalityType
  <2>4. QED BY <1>4, <2>1, <2>2, <2>3 DEF Promises
<1>6. Promised' = IF x.at \in {"creating", "releasing"} THEN others \cup {f} ELSE others
  BY <1>1 DEF Promised
<1>. HIDE DEF others
<1>7. Cardinality(Promised') = Cardinality(others) + Promises(x)
  <2>1. Cardinality(others \cup {f}) = Cardinality(others) + 1
    BY <1>5, FS_AddElement
  <2>2. CASE x.at \in {"creating", "releasing"}
    BY <2>1, <2>2, <1>6 DEF Promises
  <2>3. CASE x.at \notin {"creating", "releasing"}
    BY <2>3, <1>5, <1>6 DEF Promises
  <2>4. QED BY <2>2, <2>3
<1>8. Promises(x) \in Nat /\ Promises(filer[f]) \in Nat
  BY DEF Promises
<1>9. QED BY <1>1, <1>2, <1>3, <1>4, <1>5, <1>7, <1>8

\* An issue that is opened is one of the hunts at most.
LEMMA OpeningCounts ==
  ASSUME FilingOK, NEW i \in Issues, NEW who \in {"hunt", "human"}, by' = [by EXCEPT ![i] = who]
  PROVE  /\ by' \in [Issues -> {"none", "hunt", "human"}]
         /\ Cardinality(Hunted') \in Nat
         /\ Cardinality(Hunted') <= Cardinality(Hunted) + (IF who = "hunt" THEN 1 ELSE 0)
<1>1. by' \in [Issues -> {"none", "hunt", "human"}]
  BY DEF FilingOK
<1>2. IsFiniteSet(Hunted) /\ Cardinality(Hunted) \in Nat
  BY IssuesAreFinite, FS_CardinalityType
<1>3. Hunted' \subseteq IF who = "hunt" THEN Hunted \cup {i} ELSE Hunted
  BY DEF FilingOK, Hunted
<1>4. /\ IsFiniteSet(Hunted \cup {i}) /\ Cardinality(Hunted \cup {i}) \in Nat
      /\ Cardinality(Hunted \cup {i}) <= Cardinality(Hunted) + 1
  <2>1. /\ IsFiniteSet(Hunted \cup {i})
        /\ Cardinality(Hunted \cup {i}) = IF i \in Hunted THEN Cardinality(Hunted) ELSE Cardinality(Hunted) + 1
    BY <1>2, FS_AddElement
  <2>2. QED BY <1>2, <2>1
<1>5. IsFiniteSet(Hunted') /\ Cardinality(Hunted') <= Cardinality(IF who = "hunt" THEN Hunted \cup {i} ELSE Hunted)
  BY <1>2, <1>3, <1>4, FS_Subset
<1>6. QED BY <1>1, <1>2, <1>4, <1>5, FS_CardinalityType

(***************************************************************************)
(* Filing.                                                                 *)
(***************************************************************************)
\* An attempt that starts has found no reservation that counts, so nothing is owed.
LEMMA HuntKeeps ==
  ASSUME FilingOK, DebtOK, NEW f \in Filers, Hunt(f)
  PROVE  FilingOK' /\ DebtOK'
<1>. DEFINE x == [at |-> "creating", issue |-> None]
<1>1. /\ Free /\ filer' = [filer EXCEPT ![f] = x] /\ filer[f].at = "idle"
      /\ row' = [exists |-> TRUE, ref |-> None, stale |-> FALSE]
      /\ by' = by /\ incidents' = incidents
  BY DEF Hunt, Reserve, tracker
<1>2. x \in FilerType /\ x.at = "creating"
  BY DEF FilerType
<1>. HIDE DEF x
<1>3. /\ filer' \in [Filers -> FilerType] /\ IsFiniteSet(Working') /\ f \in Working'
      /\ \A g \in Filers : filer'[g] = IF g = f THEN x ELSE filer[g]
      /\ Cardinality(Promised') = Cardinality(Promised) + 1
  <2>1. /\ filer' \in [Filers -> FilerType] /\ IsFiniteSet(Working')
        /\ \A g \in Filers : filer'[g] = IF g = f THEN x ELSE filer[g]
        /\ (f \in Working') <=> (x.at # "idle")
        /\ Cardinality(Promised') = Cardinality(Promised) + Promises(x) - Promises(filer[f])
    BY <1>1, <1>2, FilerMoves
  <2>2. QED BY <2>1, <1>1, <1>2, PromisesAreFinite DEF Promises
<1>4. Debt <= incidents
  <2>1. row.ref = None /\ ~(row.exists /\ ~row.stale)
    BY <1>1 DEF Free, FilingOK, RowOK, NoRow
  <2>2. Debt # 1 + incidents
    BY <2>1 DEF DebtOK, Covered, Reserved
  <2>3. QED BY <2>2, PromisesAreFinite DEF DebtOK, FilingOK
<1>5. Hunted' = Hunted
  BY <1>1 DEF Hunted
<1>6. Debt' = Debt + 1
  BY <1>3, <1>5, PromisesAreFinite DEF Debt
<1>7. FilingOK'
  BY <1>1, <1>2, <1>3 DEF FilingOK, RowOK, NoRow
<1>8. DebtOK'
  <2>1. Debt' <= 1 + incidents'
    BY <1>1, <1>4, <1>6, PromisesAreFinite DEF FilingOK
  <2>2. row'.exists /\ ~row'.stale /\ Working' # {}
    BY <1>1, <1>3
  <2>3. QED BY <2>1, <2>2 DEF DebtOK, Covered, Reserved
<1>9. QED BY <1>7, <1>8

\* An attempt that has made its issue owes none; a mishap pays for the one that the
\* attempt forgets.
LEMMA CreateKeeps ==
  ASSUME FilingOK, DebtOK, NEW f \in Filers, Create(f)
  PROVE  FilingOK' /\ DebtOK'
<1>. DEFINE i == NextIssue
            one == [at |-> "finalizing", issue |-> i]
            two(at) == [at |-> at, issue |-> None]
<1>1. /\ filer[f].at = "creating" /\ i \in Issues /\ by' = [by EXCEPT ![i] = "hunt"] /\ row' = row
      /\ \/ filer' = [filer EXCEPT ![f] = one] /\ incidents' = incidents
         \/ incidents' = incidents + 1 /\ \E at \in {"releasing", "idle"} : filer' = [filer EXCEPT ![f] = two(at)]
  BY DEF Create, OpenIssue, Mishap
<1>2. \E x \in FilerType :
        /\ filer' = [filer EXCEPT ![f] = x] /\ (x.at = "finalizing" => x.issue # None)
        /\ \/ x.at = "finalizing" /\ incidents' = incidents
           \/ x.at \in {"releasing", "idle"} /\ incidents' = incidents + 1
  <2>1. CASE filer' = [filer EXCEPT ![f] = one] /\ incidents' = incidents
    <3>1. one \in FilerType /\ one.at = "finalizing" /\ one.issue # None
      BY <1>1, IssuesAreFinite DEF FilerType
    <3>. HIDE DEF one
    <3>2. QED BY <2>1, <3>1
  <2>2. CASE filer' = [filer EXCEPT ![f] = two("releasing")] /\ incidents' = incidents + 1
    <3>. DEFINE x == two("releasing")
    <3>1. x \in FilerType /\ x.at = "releasing"
      BY DEF FilerType
    <3>2. filer' = [filer EXCEPT ![f] = x] /\ incidents' = incidents + 1
      BY <2>2
    <3>. HIDE DEF x
    <3>3. QED BY <3>1, <3>2
  <2>3. CASE filer' = [filer EXCEPT ![f] = two("idle")] /\ incidents' = incidents + 1
    <3>. DEFINE x == two("idle")
    <3>1. x \in FilerType /\ x.at = "idle"
      BY DEF FilerType
    <3>2. filer' = [filer EXCEPT ![f] = x] /\ incidents' = incidents + 1
      BY <2>3
    <3>. HIDE DEF x
    <3>3. QED BY <3>1, <3>2
  <2>4. QED BY <1>1, <2>1, <2>2, <2>3
<1>. HIDE DEF i, one, two
<1>3. PICK x \in FilerType :
        /\ filer' = [filer EXCEPT ![f] = x] /\ (x.at = "finalizing" => x.issue # None)
        /\ \/ x.at = "finalizing" /\ incidents' = incidents
           \/ x.at \in {"releasing", "idle"} /\ incidents' = incidents + 1
  BY <1>2
<1>4. /\ filer' \in [Filers -> FilerType] /\ IsFiniteSet(Working')
      /\ \A g \in Filers : filer'[g] = IF g = f THEN x ELSE filer[g]
      /\ (f \in Working') <=> (x.at # "idle")
      /\ Cardinality(Promised') = Cardinality(Promised) + Promises(x) - Promises(filer[f])
  BY <1>3, FilerMoves
<1>5. /\ by' \in [Issues -> {"none", "hunt", "human"}] /\ Cardinality(Hunted') \in Nat
      /\ Cardinality(Hunted') <= Cardinality(Hunted) + 1
  <2>1. by' \in [Issues -> {"none", "hunt", "human"}] /\ Cardinality(Hunted') \in Nat
    BY <1>1, OpeningCounts
  <2>2. Cardinality(Hunted') <= Cardinality(Hunted) + (IF "hunt" = "hunt" THEN 1 ELSE 0)
    BY <1>1, OpeningCounts
  <2>3. QED BY <2>1, <2>2
<1>6. FilingOK'
  BY <1>1, <1>3, <1>4, <1>5 DEF FilingOK, RowOK
<1>7. incidents \in Nat /\ Cardinality(Promised) \in Nat /\ Cardinality(Hunted) \in Nat
  BY PromisesAreFinite DEF FilingOK
<1>8. CASE x.at = "idle"
  <2>1. Cardinality(Promised') = Cardinality(Promised) - 1
    BY <1>1, <1>4, <1>7, <1>8 DEF Promises
  <2>2. Debt' <= 1 + incidents /\ incidents' = incidents + 1 /\ Debt' \in Int
    BY <2>1, <1>3, <1>5, <1>7, <1>8 DEF Debt, DebtOK
  <2>3. Debt' < 1 + incidents'
    BY <2>2, <1>7
  <2>4. QED BY <2>2, <2>3, <1>6, <1>7 DEF DebtOK, Covered
<1>9. CASE x.at \in {"finalizing", "releasing"}
  <2>1. /\ Cardinality(Promised') = IF x.at = "finalizing" THEN Cardinality(Promised) - 1 ELSE Cardinality(Promised)
        /\ incidents' = IF x.at = "finalizing" THEN incidents ELSE incidents + 1
    BY <1>1, <1>3, <1>4, <1>7, <1>9 DEF Promises
  <2>2. /\ (Debt' <= Debt /\ incidents <= incidents') \/ (Debt' <= Debt + 1 /\ incidents + 1 <= incidents')
        /\ Debt' \in Int /\ Debt \in Int /\ incidents' \in Int /\ incidents \in Int
    BY <2>1, <1>5, <1>7 DEF Debt
  <2>3. Debt' <= 1 + incidents'
    <3>1. Debt <= 1 + incidents
      BY DEF DebtOK
    <3>2. QED BY <2>2, <3>1, Paid, Zenon
  <2>4. ASSUME row'.ref = None, Debt' = 1 + incidents' PROVE row'.exists /\ ~row'.stale /\ Working' # {}
    <3>1. Debt <= 1 + incidents
      BY DEF DebtOK
    <3>2. Debt = 1 + incidents
      BY <2>2, <2>4, <3>1, Paid, Zenon
    <3>3. row.exists /\ ~row.stale
      BY <3>2, <2>4, <1>1 DEF DebtOK, Covered, Reserved
    <3>4. QED BY <3>3, <1>1, <1>4, <1>9
  <2>5. QED BY <2>3, <2>4, <1>6 DEF DebtOK, Covered, Reserved
<1>10. QED BY <1>3, <1>8, <1>9

\* An attempt that goes on without an issue of its own owes no more than before.
LEMMA AttemptKeeps ==
  ASSUME FilingOK, DebtOK, NEW f \in Filers, NEW x \in FilerType, filer' = [filer EXCEPT ![f] = x],
         x.at # "finalizing", x.at \in {"creating", "releasing"} => filer[f].at \in {"creating", "releasing"},
         by' = by, incidents' \in Nat, incidents <= incidents', RowOK', Covered'
  PROVE  FilingOK' /\ DebtOK'
<1>1. /\ filer' \in [Filers -> FilerType] /\ IsFiniteSet(Working')
      /\ \A g \in Filers : filer'[g] = IF g = f THEN x ELSE filer[g]
      /\ Cardinality(Promised') = Cardinality(Promised) + Promises(x) - Promises(filer[f])
  BY FilerMoves
<1>2. FilingOK'
  BY <1>1 DEF FilingOK
<1>3. Hunted' = Hunted
  BY DEF Hunted
<1>4. Cardinality(Promised') <= Cardinality(Promised) /\ Cardinality(Promised') \in Int
  <2>1. Cardinality(Promised) \in Nat
    BY PromisesAreFinite
  <2>2. Promises(x) <= Promises(filer[f]) /\ Promises(x) \in Nat /\ Promises(filer[f]) \in Nat
    BY DEF Promises
  <2>3. QED BY <2>1, <2>2, <1>1
<1>5. Debt' <= Debt /\ Debt' \in Int /\ Debt \in Int
  BY <1>3, <1>4, PromisesAreFinite DEF Debt
<1>6. Debt' <= 1 + incidents'
  <2>1. Debt <= 1 + incidents /\ incidents \in Int /\ incidents' \in Int
    BY DEF DebtOK, FilingOK
  <2>2. QED BY <1>5, <2>1, Paid, Zenon
<1>7. QED BY <1>2, <1>6 DEF DebtOK

\* An attempt that has to release owes what it owed.
LEMMA CreateFailsKeeps ==
  ASSUME FilingOK, DebtOK, NEW f \in Filers, CreateFails(f)
  PROVE  FilingOK' /\ DebtOK'
<1>. DEFINE x == [at |-> "releasing", issue |-> None]
<1>1. /\ filer[f].at = "creating" /\ filer' = [filer EXCEPT ![f] = x]
      /\ row' = row /\ by' = by /\ incidents' = incidents
  BY DEF CreateFails, tracker
<1>2. x \in FilerType /\ x.at = "releasing"
  BY DEF FilerType
<1>. HIDE DEF x
<1>3. RowOK' /\ incidents \in Nat
  BY <1>1 DEF FilingOK, RowOK, NoRow
<1>4. Cardinality(Promised') = Cardinality(Promised) /\ f \in Working'
  <2>1. /\ (f \in Working') <=> (x.at # "idle")
        /\ Cardinality(Promised') = Cardinality(Promised) + Promises(x) - Promises(filer[f])
    BY <1>1, <1>2, FilerMoves
  <2>2. QED BY <2>1, <1>1, <1>2, PromisesAreFinite DEF Promises
<1>5. Debt' = Debt
  BY <1>1, <1>4 DEF Debt, Hunted
<1>6. Covered'
  BY <1>1, <1>4, <1>5 DEF DebtOK, Covered, Reserved
<1>7. /\ x.at # "finalizing" /\ (x.at \in {"creating", "releasing"} => filer[f].at \in {"creating", "releasing"})
      /\ incidents' \in Nat /\ incidents <= incidents'
  BY <1>1, <1>2, <1>3
<1>8. QED BY <1>1, <1>2, <1>3, <1>6, <1>7, AttemptKeeps

\* Who releases gives up a promise, whether or not the row was its own to take.
LEMMA ReleaseKeeps ==
  ASSUME FilingOK, DebtOK, NEW f \in Filers, Release(f)
  PROVE  FilingOK' /\ DebtOK'
<1>1. /\ filer[f].at = "releasing" /\ filer' = [filer EXCEPT ![f] = Idle]
      /\ row' = (IF row.ref = None THEN NoRow ELSE row) /\ by' = by /\ incidents' = incidents
  BY DEF Release, tracker
<1>2. Idle \in FilerType /\ Idle.at = "idle"
  BY DEF FilerType, Idle
<1>3. RowOK' /\ incidents \in Nat
  BY <1>1 DEF FilingOK, RowOK, NoRow
<1>4. Cardinality(Promised') = Cardinality(Promised) - 1
  <2>1. Cardinality(Promised') = Cardinality(Promised) + Promises(Idle) - Promises(filer[f])
    BY <1>1, <1>2, FilerMoves
  <2>2. QED BY <2>1, <1>1, <1>2, PromisesAreFinite DEF Promises
<1>5. Debt' = Debt - 1
  BY <1>1, <1>4, PromisesAreFinite DEF Debt, Hunted
<1>6. Debt' # 1 + incidents'
  <2>1. Debt \in Nat /\ Debt <= 1 + incidents
    BY PromisesAreFinite DEF DebtOK
  <2>2. QED BY <2>1, <1>1, <1>3, <1>5
<1>7. Covered'
  BY <1>6 DEF Covered
<1>8. /\ Idle.at # "finalizing" /\ (Idle.at \in {"creating", "releasing"} => filer[f].at \in {"creating", "releasing"})
      /\ incidents' \in Nat /\ incidents <= incidents'
  BY <1>1, <1>2, <1>3
<1>9. QED BY <1>1, <1>2, <1>3, <1>7, <1>8, AttemptKeeps

\* Who finalizes gives its issue to the row, or finds that the row has one.
LEMMA FinalizeKeeps ==
  ASSUME FilingOK, DebtOK, NEW f \in Filers, Finalize(f)
  PROVE  FilingOK' /\ DebtOK'
<1>1. /\ filer[f].at = "finalizing" /\ filer' = [filer EXCEPT ![f] = Idle]
      /\ row' = (IF row.exists /\ row.ref = None THEN [row EXCEPT !.ref = filer[f].issue] ELSE row)
      /\ by' = by /\ incidents' = incidents
  BY DEF Finalize, tracker
<1>2. Idle \in FilerType /\ Idle.at = "idle"
  BY DEF FilerType, Idle
<1>3. filer[f].issue \in Issues
  BY <1>1 DEF FilingOK, FilerType
<1>4. RowOK' /\ incidents \in Nat
  <2>1. RowOK /\ incidents \in Nat
    BY DEF FilingOK
  <2>2. CASE row.exists /\ row.ref = None
    BY <2>1, <2>2, <1>1, <1>3 DEF RowOK
  <2>3. CASE ~(row.exists /\ row.ref = None)
    BY <2>1, <2>3, <1>1 DEF RowOK, NoRow
  <2>4. QED BY <2>2, <2>3
<1>5. Debt' = Debt
  <2>1. Cardinality(Promised') = Cardinality(Promised) + Promises(Idle) - Promises(filer[f])
    BY <1>1, <1>2, FilerMoves
  <2>2. Cardinality(Promised') = Cardinality(Promised)
    BY <2>1, <1>1, <1>2, PromisesAreFinite DEF Promises
  <2>3. QED BY <2>2, <1>1 DEF Debt, Hunted
<1>6. Covered'
  <2>1. CASE row.exists /\ row.ref = None
    <3>1. row'.ref # None
      BY <2>1, <1>1, <1>3, IssuesAreFinite DEF FilingOK, RowOK
    <3>2. QED BY <3>1 DEF Covered
  <2>2. CASE ~(row.exists /\ row.ref = None)
    BY <2>2, <1>1, <1>5 DEF DebtOK, Covered, Reserved
  <2>3. QED BY <2>1, <2>2
<1>7. /\ Idle.at # "finalizing" /\ (Idle.at \in {"creating", "releasing"} => filer[f].at \in {"creating", "releasing"})
      /\ incidents' \in Nat /\ incidents <= incidents'
  BY <1>1, <1>2, <1>4
<1>8. QED BY <1>1, <1>2, <1>4, <1>6, <1>7, AttemptKeeps

\* An attempt that dies is paid for, whatever it owed.
LEMMA FilerDiesKeeps ==
  ASSUME FilingOK, DebtOK, NEW f \in Filers, FilerDies(f)
  PROVE  FilingOK' /\ DebtOK'
<1>1. /\ filer' = [filer EXCEPT ![f] = Idle] /\ row' = row /\ by' = by /\ incidents' = incidents + 1
  BY DEF FilerDies, Mishap, tracker
<1>2. Idle \in FilerType /\ Idle.at = "idle"
  BY DEF FilerType, Idle
<1>3. RowOK' /\ incidents \in Nat
  BY <1>1 DEF FilingOK, RowOK, NoRow
<1>4. Cardinality(Promised') <= Cardinality(Promised) /\ Cardinality(Promised') \in Nat
  <2>1. /\ Cardinality(Promised') = Cardinality(Promised) + Promises(Idle) - Promises(filer[f])
        /\ Cardinality(Promised') \in Nat
    BY <1>1, <1>2, FilerMoves
  <2>2. Promises(Idle) = 0 /\ Promises(filer[f]) \in Nat
    BY <1>2 DEF Promises
  <2>3. QED BY <2>1, <2>2, PromisesAreFinite
<1>5. Debt' <= Debt /\ Debt' \in Int /\ Debt \in Int
  BY <1>1, <1>4, PromisesAreFinite DEF Debt, Hunted
<1>6. Debt' # 1 + incidents'
  BY <1>1, <1>3, <1>5 DEF DebtOK
<1>7. Covered'
  BY <1>6 DEF Covered
<1>8. /\ Idle.at # "finalizing" /\ (Idle.at \in {"creating", "releasing"} => filer[f].at \in {"creating", "releasing"})
      /\ incidents' \in Nat /\ incidents <= incidents'
  BY <1>1, <1>2, <1>3
<1>9. QED BY <1>1, <1>2, <1>3, <1>7, <1>8, AttemptKeeps

\* A reservation that lapses while its attempt is at work is a mishap; without one at
\* work nothing is owed.
LEMMA AgeingKeeps ==
  ASSUME FilingOK, DebtOK, ReservationAges
  PROVE  FilingOK' /\ DebtOK'
<1>1. /\ filer' = filer /\ by' = by /\ row' = [row EXCEPT !.stale = TRUE] /\ row.exists
      /\ incidents' = IF Working # {} THEN incidents + 1 ELSE incidents
  BY DEF ReservationAges, Mishap, tracker, Working
<1>2. FilingOK'
  <2>1. Working' = Working
    BY <1>1 DEF Working
  <2>2. RowOK'
    BY <1>1 DEF FilingOK, RowOK
  <2>3. incidents' \in Nat
    BY <1>1 DEF FilingOK
  <2>4. QED BY <1>1, <2>1, <2>2, <2>3 DEF FilingOK
<1>3. Debt' = Debt /\ Debt \in Nat /\ incidents \in Nat /\ Debt <= 1 + incidents
  BY <1>1, PromisesAreFinite DEF Debt, Hunted, Promised, DebtOK, FilingOK
<1>4. Debt' <= 1 + incidents'
  BY <1>1, <1>3
<1>5. Covered'
  <2>1. CASE Working # {}
    BY <2>1, <1>1, <1>3 DEF Covered
  <2>2. CASE Working = {}
    <3>1. row'.ref = row.ref /\ incidents' = incidents
      BY <2>2, <1>1 DEF FilingOK, RowOK
    <3>2. QED BY <3>1, <2>2, <1>3 DEF DebtOK, Covered, Reserved
  <2>3. QED BY <2>1, <2>2
<1>6. QED BY <1>2, <1>4, <1>5 DEF DebtOK

\* What the filers do changes nothing else, and a mishap is counted.
LEMMA FilesKeep ==
  ASSUME IntakeInv, Files
  PROVE  FilingOK' /\ DebtOK' /\ TrackerOK' /\ UNCHANGED <<gateway, executions>> /\ sent \subseteq sent'
<1>1. FilingOK' /\ DebtOK'
  BY HuntKeeps, CreateKeeps, CreateFailsKeeps, ReleaseKeeps, FinalizeKeeps, FilerDiesKeeps, AgeingKeeps
     DEF Files, IntakeInv
<1>2. /\ UNCHANGED <<linear, pr, autoMerge, events, gateway, executions>> /\ sent \subseteq sent'
      /\ incidents' = incidents \/ (events + incidents < MaxEvents /\ incidents' = incidents + 1)
  BY DEF Files, Hunt, Create, CreateFails, Release, Finalize, FilerDies, ReservationAges, Mishap, OpenIssue,
         Send, tracker
<1>3. TrackerOK'
  BY <1>2, IntakeAssumption DEF IntakeInv, TrackerOK, FilingOK
<1>4. QED BY <1>1, <1>2, <1>3

(***************************************************************************)
(* The trackers.                                                           *)
(***************************************************************************)
\* What has been sent can only be sent again.
LEMMA GatewayStays ==
  ASSUME GatewayOK, UNCHANGED gateway, sent \subseteq sent'
  PROVE  GatewayOK'
<1>1. RequestType \subseteq RequestType'
  BY DEF RequestType
<1>2. request' = request /\ deliveries' = deliveries
  BY DEF gateway
<1>3. request' \in [Requests -> RequestType']
  BY <1>1, <1>2 DEF GatewayOK
<1>4. QED BY <1>2, <1>3 DEF GatewayOK, Invited, Enrolls, Wakes, Managed

\* Who touches neither the table, nor an attempt, nor an issue owes nothing new.
LEMMA FilingStays ==
  ASSUME FilingOK, DebtOK, UNCHANGED <<filing, by>>
  PROVE  FilingOK' /\ DebtOK'
<1>1. row' = row /\ filer' = filer /\ incidents' = incidents /\ by' = by
  BY DEF filing
<1>2. Working' = Working /\ Promised' = Promised /\ Hunted' = Hunted
  BY <1>1 DEF Working, Promised, Hunted
<1>3. Debt' = Debt
  BY <1>2 DEF Debt
<1>4. QED BY <1>1, <1>2, <1>3 DEF FilingOK, RowOK, DebtOK, Covered, Reserved

\* An issue that a person opens is owed by nobody.
LEMMA OpenByHandKeeps ==
  ASSUME FilingOK, DebtOK, OpenByHand
  PROVE  FilingOK' /\ DebtOK'
<1>. DEFINE i == NextIssue
<1>1. /\ i \in Issues /\ by' = [by EXCEPT ![i] = "human"]
      /\ row' = row /\ filer' = filer /\ incidents' = incidents
  BY DEF OpenByHand, OpenIssue, filing
<1>. HIDE DEF i
<1>2. by' \in [Issues -> {"none", "hunt", "human"}] /\ Cardinality(Hunted') \in Nat
  BY <1>1, OpeningCounts
<1>3. Cardinality(Hunted') <= Cardinality(Hunted)
  <2>1. Cardinality(Hunted') <= Cardinality(Hunted) + (IF "human" = "hunt" THEN 1 ELSE 0)
    BY <1>1, OpeningCounts
  <2>2. QED BY <2>1, PromisesAreFinite
<1>4. Working' = Working /\ Promised' = Promised
  BY <1>1 DEF Working, Promised
<1>5. FilingOK'
  BY <1>1, <1>2, <1>4 DEF FilingOK, RowOK
<1>6. Debt' <= Debt /\ Debt' \in Int /\ Debt \in Int /\ incidents \in Int /\ incidents' \in Int /\ incidents <= incidents'
  BY <1>1, <1>2, <1>3, <1>4, PromisesAreFinite DEF Debt, FilingOK
<1>7. Debt <= 1 + incidents
  BY DEF DebtOK
<1>8. Debt' <= 1 + incidents' /\ (Debt' = 1 + incidents' => Debt = 1 + incidents)
  BY <1>6, <1>7, Paid, Zenon
<1>9. QED BY <1>1, <1>4, <1>5, <1>8 DEF DebtOK, Covered, Reserved

\* What people do in the trackers.
LEMMA PeopleKeep ==
  ASSUME IntakeInv, People
  PROVE  FilingOK' /\ DebtOK' /\ TrackerOK' /\ UNCHANGED <<gateway, executions>> /\ sent \subseteq sent'
<1>1. FilingOK' /\ DebtOK'
  <2>1. CASE OpenByHand
    BY <2>1, OpenByHandKeeps DEF IntakeInv
  <2>2. CASE ~OpenByHand
    <3>1. UNCHANGED <<filing, by>>
      BY <2>2 DEF People, Relabel, LinearIssue, LinearLabel, LinearEdit, OpenPrByHand, LabelPr, Review, Configure
    <3>2. QED BY <3>1, FilingStays DEF IntakeInv
  <2>3. QED BY <2>1, <2>2
<1>2. /\ UNCHANGED <<gateway, executions>> /\ sent \subseteq sent'
      /\ incidents' = incidents /\ events + incidents < MaxEvents /\ events' = events + 1
  BY DEF People, OpenByHand, Relabel, LinearIssue, LinearLabel, LinearEdit, OpenPrByHand, LabelPr, Review, Configure,
         Event, OpenIssue, Send, filing
<1>3. /\ linear' \in {"none", "plain", "labelled"} /\ autoMerge' \in {"disabled", "label"}
      /\ \/ pr' = pr
         \/ pr' = [owner |-> "human", labels |-> {}]
         \/ \E labels \in SUBSET {"automerge", "disable", "managed"} : pr' = [pr EXCEPT !.labels = labels]
  <2>1. TrackerOK
    BY DEF IntakeInv
  <2>2. CASE \E label \in {"automerge", "disable"}, action \in {"labeled", "unlabeled"} : LabelPr(label, action)
    <3>1. PICK label \in {"automerge", "disable"}, action \in {"labeled", "unlabeled"} : LabelPr(label, action)
      BY <2>2
    <3>. DEFINE labels == IF action = "labeled" THEN pr.labels \cup {label} ELSE pr.labels \ {label}
    <3>2. pr' = [pr EXCEPT !.labels = labels] /\ linear' = linear /\ autoMerge' = autoMerge
      BY <3>1 DEF LabelPr
    <3>3. labels \in SUBSET {"automerge", "disable", "managed"}
      BY <2>1 DEF TrackerOK
    <3>. HIDE DEF labels
    <3>4. QED BY <2>1, <3>2, <3>3 DEF TrackerOK
  <2>3. CASE ~(\E label \in {"automerge", "disable"}, action \in {"labeled", "unlabeled"} : LabelPr(label, action))
    BY <2>1, <2>3 DEF People, OpenByHand, Relabel, LinearIssue, LinearLabel, LinearEdit, OpenPrByHand, Review,
                      Configure, TrackerOK
  <2>4. QED BY <2>2, <2>3
<1>4. TrackerOK'
  <2>1. pr' \in [owner : {"none", "human", "engine"}, labels : SUBSET {"automerge", "disable", "managed"}]
    BY <1>3 DEF IntakeInv, TrackerOK
  <2>2. QED BY <1>2, <1>3, <2>1, IntakeAssumption DEF IntakeInv, TrackerOK, FilingOK
<1>5. QED BY <1>1, <1>2, <1>4

(***************************************************************************)
(* The gateway.                                                            *)
(***************************************************************************)
\* A delivery that one of the parsers takes means something.
LEMMA TakesKeeps ==
  ASSUME GatewayOK, NEW r \in Requests, NEW m \in sent, Takes(r, m),
         Enrolls(m) \/ Wakes(m) \/ m.event # "pull_request", sent' = sent
  PROVE  GatewayOK'
<1>. DEFINE q == [at |-> "resolving", m |-> m, mode |-> "unread"]
<1>1. request' = [request EXCEPT ![r] = q] /\ deliveries' = deliveries + 1 /\ deliveries < MaxDeliveries
  BY DEF Takes
<1>2. q \in RequestType' /\ q.at = "resolving" /\ q.m = m
  BY DEF RequestType
<1>. HIDE DEF q
<1>3. RequestType' = RequestType
  BY DEF RequestType
<1>4. request' \in [Requests -> RequestType'] /\ \A s \in Requests : request'[s] = IF s = r THEN q ELSE request[s]
  BY <1>1, <1>2, <1>3 DEF GatewayOK
<1>5. deliveries' \in 0..MaxDeliveries
  BY <1>1, IntakeAssumption DEF GatewayOK
<1>6. ASSUME NEW s \in Requests, request'[s].at = "resolving"
      PROVE  Enrolls(request'[s].m) \/ Wakes(request'[s].m) \/ request'[s].m.event # "pull_request"
  BY <1>2, <1>4, <1>6 DEF GatewayOK
<1>7. ASSUME NEW s \in Requests, request'[s].at = "starting", request'[s].m.event = "pull_request"
      PROVE  Invited(request'[s])
  BY <1>2, <1>4, <1>7 DEF GatewayOK
<1>8. QED BY <1>4, <1>5, <1>6, <1>7 DEF GatewayOK, Invited, Enrolls, Wakes, Managed

\* A request that goes on goes on as what it is; one that starts something is no wake,
\* and no managed pull request's.
LEMMA MovesKeep ==
  ASSUME GatewayOK, NEW r \in Requests, NEW q \in RequestType, request' = [request EXCEPT ![r] = q],
         q.at # "resolving", q.at = "starting" /\ q.m.event = "pull_request" => Invited(q),
         deliveries' = deliveries, sent' = sent
  PROVE  GatewayOK'
<1>1. RequestType' = RequestType
  BY DEF RequestType
<1>2. request' \in [Requests -> RequestType'] /\ \A s \in Requests : request'[s] = IF s = r THEN q ELSE request[s]
  BY <1>1 DEF GatewayOK
<1>3. ASSUME NEW s \in Requests, request'[s].at = "resolving"
      PROVE  Enrolls(request'[s].m) \/ Wakes(request'[s].m) \/ request'[s].m.event # "pull_request"
  BY <1>2, <1>3 DEF GatewayOK
<1>4. ASSUME NEW s \in Requests, request'[s].at = "starting", request'[s].m.event = "pull_request"
      PROVE  Invited(request'[s])
  BY <1>2, <1>4 DEF GatewayOK
<1>5. QED BY <1>2, <1>3, <1>4 DEF GatewayOK, Invited, Enrolls, Wakes, Managed

\* A delivery is refused, wakes, or starts what it may start.
LEMMA ResolveKeeps ==
  ASSUME GatewayOK, TrackerOK, NEW r \in Requests, Resolve(r)
  PROVE  GatewayOK'
<1>. DEFINE at == IF Wakes(request[r].m) \/ (Enrolls(request[r].m) /\ Managed(request[r].m))
                  THEN "waking" ELSE "starting"
            q == [request[r] EXCEPT !.mode = autoMerge, !.at = at]
            refused == Enrolls(request[r].m) /\ ~Managed(request[r].m) /\ autoMerge = "disabled"
<1>1. /\ request[r].at = "resolving" /\ deliveries' = deliveries /\ sent' = sent
      /\ request' = IF refused THEN [request EXCEPT ![r] = NoRequest] ELSE [request EXCEPT ![r] = q]
  <2>1. /\ request[r].at = "resolving" /\ deliveries' = deliveries /\ sent' = sent
        /\ IF refused THEN request' = [request EXCEPT ![r] = NoRequest]
           ELSE request' = [request EXCEPT ![r].mode = autoMerge, ![r].at = at]
    BY DEF Resolve, Answered, tracker
  <2>2. [request EXCEPT ![r].mode = autoMerge, ![r].at = at] = [request EXCEPT ![r] = q]
    <3>. HIDE DEF at
    <3>1. request \in [Requests -> RequestType] /\ request[r] \in RequestType \ {NoRequest}
      BY <2>1 DEF GatewayOK, NoRequest
    <3>2. QED BY <3>1 DEF GatewayOK, RequestType
  <2>3. QED BY <2>1, <2>2
<1>2. NoRequest \in RequestType /\ NoRequest.at = "idle"
  BY DEF RequestType, NoRequest
<1>3. CASE refused
  BY <1>1, <1>2, <1>3, MovesKeep
<1>4. CASE ~refused
  <2>1. request[r] \in [at : {"resolving", "waking", "starting"}, m : sent, mode : {"unread", "disabled", "label"}]
    BY <1>1 DEF GatewayOK, RequestType, NoRequest
  <2>2. at \in {"waking", "starting"} /\ autoMerge \in {"disabled", "label"}
    BY DEF TrackerOK
  <2>3. q \in RequestType /\ q.at = at /\ q.m = request[r].m /\ q.mode = autoMerge
    <3>. HIDE DEF at
    <3>1. QED BY <2>1, <2>2 DEF RequestType
  <2>4. ASSUME at = "starting", request[r].m.event = "pull_request"
        PROVE  Enrolls(request[r].m) /\ ~Managed(request[r].m) /\ autoMerge # "disabled"
    <3>1. ~Wakes(request[r].m) /\ ~(Enrolls(request[r].m) /\ Managed(request[r].m))
      BY <2>4
    <3>2. Enrolls(request[r].m)
      BY <3>1, <2>4, <1>1 DEF GatewayOK
    <3>3. QED BY <3>1, <3>2, <1>4
  <2>. HIDE DEF at
  <2>5. q.at = "starting" /\ q.m.event = "pull_request" => Invited(q)
    BY <2>3, <2>4 DEF Invited
  <2>6. request' = [request EXCEPT ![r] = q]
    BY <1>1, <1>4
  <2>. HIDE DEF q
  <2>7. QED BY <2>2, <2>3, <2>5, <2>6, <1>1, MovesKeep
<1>5. QED BY <1>3, <1>4

\* A delivery that has been answered is forgotten.
LEMMA AnsweredKeeps ==
  ASSUME GatewayOK, NEW r \in Requests, Answered(r), deliveries' = deliveries, sent' = sent
  PROVE  GatewayOK'
<1>1. NoRequest \in RequestType /\ NoRequest.at = "idle"
  BY DEF RequestType, NoRequest
<1>2. QED BY <1>1, MovesKeep DEF Answered

\* A request that starts a landing is answered, or wakes the one that is open.
LEMMA StartLandingKeeps ==
  ASSUME GatewayOK, NEW r \in Requests, StartLanding(r)
  PROVE  GatewayOK'
<1>1. request[r].at = "starting" /\ deliveries' = deliveries /\ sent' = sent
  BY DEF StartLanding, tracker
<1>2. CASE Answered(r)
  BY <1>1, <1>2, AnsweredKeeps
<1>3. CASE Advance(r, "waking")
  <2>. DEFINE q == [request[r] EXCEPT !.at = "waking"]
  <2>1. request[r] \in [at : {"resolving", "waking", "starting"}, m : sent, mode : {"unread", "disabled", "label"}]
    BY <1>1 DEF GatewayOK, RequestType, NoRequest
  <2>2. q \in RequestType /\ q.at = "waking"
    BY <2>1 DEF RequestType
  <2>3. request' = [request EXCEPT ![r] = q]
    BY <1>3, <2>1 DEF Advance, GatewayOK
  <2>. HIDE DEF q
  <2>4. QED BY <2>2, <2>3, <1>1, MovesKeep
<1>4. QED BY <1>2, <1>3 DEF StartLanding

\* What the gateway does.
LEMMA GatewaysKeep ==
  ASSUME IntakeInv, Gateway
  PROVE  GatewayOK' /\ ExecutionsOK' /\ UNCHANGED <<filing, tracker>>
<1>1. UNCHANGED <<filing, tracker>>
  BY DEF Gateway, handleGithubWebhook, handleLinearWebhook, Takes, Resolve, GiveUp, Wake, StartLanding, StartCycle
<1>2. sent' = sent
  BY <1>1 DEF tracker
<1>3. GatewayOK'
  <2>1. ASSUME NEW r \in Requests, NEW m \in sent,
               handleGithubWebhook(r, m) \/ \E age \in Ages : handleLinearWebhook(r, m, age)
        PROVE  GatewayOK'
    <3>1. Takes(r, m) /\ (Enrolls(m) \/ Wakes(m) \/ m.event # "pull_request")
      BY <2>1 DEF handleGithubWebhook, handleLinearWebhook, parseIssueTriggerEvent, matchesLinearTriggerLabel
    <3>2. QED BY <3>1, <1>2, TakesKeeps DEF IntakeInv
  <2>2. ASSUME NEW r \in Requests, Resolve(r) PROVE GatewayOK'
    BY <2>2, ResolveKeeps DEF IntakeInv
  <2>3. ASSUME NEW r \in Requests, GiveUp(r) \/ Wake(r) \/ \E i \in Issues \cup {LinearNumber} : StartCycle(r, i)
        PROVE  GatewayOK'
    <3>1. Answered(r) /\ deliveries' = deliveries
      BY <2>3 DEF GiveUp, Wake, StartCycle
    <3>2. QED BY <3>1, <1>2, AnsweredKeeps DEF IntakeInv
  <2>4. ASSUME NEW r \in Requests, StartLanding(r) PROVE GatewayOK'
    BY <2>4, StartLandingKeeps DEF IntakeInv
  <2>5. QED BY <2>1, <2>2, <2>3, <2>4 DEF Gateway
<1>4. ExecutionsOK'
  <2>1. /\ cycle' = cycle \/ \E i \in Issues \cup {LinearNumber} : cycle' = [cycle EXCEPT ![i] = "open"]
        /\ landing' \in {landing, "open"}
    BY DEF Gateway, handleGithubWebhook, handleLinearWebhook, Takes, Resolve, GiveUp, Wake, StartLanding, StartCycle,
           executions
  <2>2. QED BY <2>1 DEF IntakeInv, ExecutionsOK, CycleStates
<1>5. QED BY <1>1, <1>3, <1>4

(***************************************************************************)
(* The executions.                                                         *)
(***************************************************************************)
\* What the workflows do to pull requests and to executions.
LEMMA WorksKeep ==
  ASSUME IntakeInv, Works
  PROVE  TrackerOK' /\ ExecutionsOK' /\ UNCHANGED <<filing, by, gateway>> /\ sent \subseteq sent'
<1>1. /\ UNCHANGED <<filing, by, linear, autoMerge, events, gateway>> /\ sent \subseteq sent'
      /\ \/ pr' = pr
         \/ pr' = [owner |-> "engine", labels |-> {}]
         \/ pr' = [pr EXCEPT !.labels = pr.labels \cup {"managed"}]
  BY DEF Works, OpenPr, LabelManaged, HandOver, CycleCloses, LandingCloses, Send, tracker
<1>2. TrackerOK'
  <2>1. pr' \in [owner : {"none", "human", "engine"}, labels : SUBSET {"automerge", "disable", "managed"}]
    BY <1>1 DEF IntakeInv, TrackerOK
  <2>2. incidents' = incidents
    BY <1>1 DEF filing
  <2>3. QED BY <1>1, <2>1, <2>2 DEF IntakeInv, TrackerOK
<1>3. ExecutionsOK'
  <2>1. /\ cycle' = cycle \/ \E i \in Issues \cup {LinearNumber}, state \in CycleStates : cycle' = [cycle EXCEPT ![i] = state]
        /\ landing' \in {landing, "open"} \cup Closed
    <3>1. {"labelling", "handing", "failed", "landing"} \cup Closed \subseteq CycleStates
      BY DEF CycleStates, Closed
    <3>2. ASSUME NEW i \in Issues \cup {LinearNumber}, OpenPr(i) \/ LabelManaged(i) \/ HandOver(i) \/ CycleCloses(i)
          PROVE  (\E state \in CycleStates : cycle' = [cycle EXCEPT ![i] = state]) /\ landing' \in {landing, "open"}
      BY <3>1, <3>2 DEF OpenPr, LabelManaged, HandOver, CycleCloses
    <3>3. QED BY <3>2 DEF Works, LandingCloses
  <2>2. QED BY <2>1 DEF IntakeInv, ExecutionsOK
<1>4. QED BY <1>1, <1>2, <1>3

\* The initial states satisfy the invariant, every step keeps it, and so do runs.
LEMMA IntakeInitHasInv == IntakeInit => IntakeInv
<1>. SUFFICES ASSUME IntakeInit PROVE IntakeInv
  OBVIOUS
<1>1. /\ row = NoRow /\ filer = [f \in Filers |-> Idle] /\ incidents = 0 /\ by = [i \in Issues |-> "none"]
      /\ linear = "none" /\ pr = NoPr /\ autoMerge \in {"disabled", "label"} /\ sent = {} /\ events = 0
      /\ request = [r \in Requests |-> NoRequest] /\ deliveries = 0
      /\ cycle = [i \in Issues \cup {LinearNumber} |-> "none"] /\ landing = "none"
  BY DEF IntakeInit
<1>2. Working = {} /\ Promised = {} /\ Hunted = {}
  BY <1>1 DEF Working, Promised, Hunted, Idle
<1>3. FilingOK
  <2>1. Idle \in FilerType /\ Idle.at = "idle"
    BY DEF Idle, FilerType
  <2>2. RowOK
    BY <1>1 DEF RowOK, NoRow
  <2>3. QED BY <1>1, <1>2, <2>1, <2>2, FS_EmptySet DEF FilingOK
<1>4. DebtOK
  <2>1. Debt = 0
    BY <1>2, FS_EmptySet DEF Debt
  <2>2. QED BY <2>1, <1>1 DEF DebtOK, Covered
<1>5. TrackerOK
  BY <1>1, IntakeAssumption DEF TrackerOK, NoPr
<1>6. GatewayOK
  <2>1. NoRequest \in RequestType /\ NoRequest.at = "idle"
    BY DEF NoRequest, RequestType
  <2>2. QED BY <1>1, <2>1, IntakeAssumption DEF GatewayOK
<1>7. ExecutionsOK
  BY <1>1 DEF ExecutionsOK, CycleStates
<1>8. QED BY <1>3, <1>4, <1>5, <1>6, <1>7 DEF IntakeInv

LEMMA IntakeNextKeepsInv == IntakeInv /\ [IntakeNext]_intakeVars => IntakeInv'
<1>. SUFFICES ASSUME IntakeInv, [IntakeNext]_intakeVars PROVE IntakeInv'
  OBVIOUS
<1>1. CASE Files
  <2>1. FilingOK' /\ DebtOK' /\ TrackerOK' /\ UNCHANGED <<gateway, executions>> /\ sent \subseteq sent'
    BY <1>1, FilesKeep
  <2>2. GatewayOK' /\ ExecutionsOK'
    BY <2>1, GatewayStays DEF IntakeInv, ExecutionsOK, executions
  <2>3. QED BY <2>1, <2>2 DEF IntakeInv
<1>2. CASE People
  <2>1. FilingOK' /\ DebtOK' /\ TrackerOK' /\ UNCHANGED <<gateway, executions>> /\ sent \subseteq sent'
    BY <1>2, PeopleKeep
  <2>2. GatewayOK' /\ ExecutionsOK'
    BY <2>1, GatewayStays DEF IntakeInv, ExecutionsOK, executions
  <2>3. QED BY <2>1, <2>2 DEF IntakeInv
<1>3. CASE Gateway
  <2>1. GatewayOK' /\ ExecutionsOK' /\ UNCHANGED <<filing, tracker>>
    BY <1>3, GatewaysKeep
  <2>2. FilingOK' /\ DebtOK'
    BY <2>1, FilingStays DEF IntakeInv, tracker
  <2>3. TrackerOK'
    BY <2>1 DEF IntakeInv, TrackerOK, filing, tracker
  <2>4. QED BY <2>1, <2>2, <2>3 DEF IntakeInv
<1>4. CASE Works
  <2>1. TrackerOK' /\ ExecutionsOK' /\ UNCHANGED <<filing, by, gateway>> /\ sent \subseteq sent'
    BY <1>4, WorksKeep
  <2>2. FilingOK' /\ DebtOK' /\ GatewayOK'
    BY <2>1, FilingStays, GatewayStays DEF IntakeInv
  <2>3. QED BY <2>1, <2>2 DEF IntakeInv
<1>5. CASE UNCHANGED intakeVars
  <2>1. UNCHANGED <<filing, tracker, gateway, executions>>
    BY <1>5 DEF intakeVars
  <2>2. FilingOK' /\ DebtOK' /\ GatewayOK'
    BY <2>1, FilingStays, GatewayStays DEF IntakeInv, tracker
  <2>3. TrackerOK' /\ ExecutionsOK'
    BY <2>1 DEF IntakeInv, TrackerOK, ExecutionsOK, filing, tracker, executions
  <2>4. QED BY <2>2, <2>3 DEF IntakeInv
<1>6. QED BY <1>1, <1>2, <1>3, <1>4, <1>5 DEF IntakeNext

LEMMA IntakesKeepInv == IntakeSpec => []IntakeInv
<1>. QED BY IntakeInitHasInv, IntakeNextKeepsInv, PTL DEF IntakeSpec

(***************************************************************************)
(* What trackers, people and workflows rely on.                            *)
(***************************************************************************)
\* The state stays within its types. (filed_findings, handleGithubWebhook,
\* startDevCycleForIssue)
THEOREM IntakeTypeCorrect == IntakeSpec => []IntakeTypeOK
<1>1. IntakeInv => IntakeTypeOK
  BY DEF IntakeInv, FilingOK, RowOK, TrackerOK, GatewayOK, ExecutionsOK, CycleStates, IntakeTypeOK
<1>2. QED BY <1>1, IntakesKeepInv, PTL

\* However many attempts there are and however they race, a finding has one issue,
\* and one more at most for every mishap. (create-activities createIssue,
\* PostgresFiledFindingStore)
THEOREM FindingsAreFiledOnce == IntakeSpec => []FindingFiledOnce
<1>1. IntakeInv => FindingFiledOnce
  <2>. SUFFICES ASSUME IntakeInv PROVE Cardinality(Hunted) <= 1 + incidents
    BY DEF FindingFiledOnce, Hunted
  <2>1. /\ Cardinality(Hunted) \in Nat /\ Cardinality(Promised) \in Nat /\ incidents \in Nat
        /\ Cardinality(Hunted) + Cardinality(Promised) <= 1 + incidents
    BY PromisesAreFinite DEF IntakeInv, DebtOK, Debt, FilingOK
  <2>2. QED BY <2>1
<1>2. QED BY <1>1, IntakesKeepInv, PTL

(***************************************************************************)
(* Who owns a pull request.  Before there is one nothing is known of it,   *)
(* one devCycle at a time is between creating and handing over, and a      *)
(* landing that is open beside it was asked for without the label managed. *)
(***************************************************************************)
Handing(i) == cycle[i] \in {"labelling", "handing"}
NoneYet ==
  /\ pr = NoPr /\ landing = "none"
  /\ \A m \in sent : m.event # "pull_request" /\ m.event # "pull_request_review"
  /\ \A i \in DOMAIN cycle : ~Handing(i)
EarlyInvitation == \E m \in sent : Enrolls(m) /\ ~Managed(m)

OwnersOK ==
  /\ pr.owner = "none" => NoneYet
  /\ \A i, j \in DOMAIN cycle : Handing(i) /\ Handing(j) => i = j
  /\ OneOwner

\* What the hunts send is about issues.
LEMMA FilesAreNoOwners ==
  ASSUME IntakeInv, OwnersOK, Files
  PROVE  OwnersOK'
<1>1. UNCHANGED <<pr, landing, cycle>> /\ sent \subseteq sent'
  BY FilesKeep DEF executions, Files, Hunt, Create, CreateFails, Release, Finalize, FilerDies, ReservationAges, tracker
<1>2. \A m \in sent' : m \in sent \/ m.event = "issues"
  BY DEF Files, Hunt, Create, CreateFails, Release, Finalize, FilerDies, ReservationAges, tracker,
         OpenIssue, Send, IssueOpened, IssueLabeled
<1>3. NoneYet => NoneYet'
  BY <1>1, <1>2 DEF NoneYet, Handing
<1>4. EarlyInvitation => EarlyInvitation'
  BY <1>1 DEF EarlyInvitation, Enrolls, Managed
<1> QED
  BY <1>1, <1>3, <1>4 DEF OwnersOK, OneOwner, Handing, EarlyInvitation

\* People label pull requests that are there, and take no part in executions.
LEMMA PeopleAreNoOwners ==
  ASSUME IntakeInv, OwnersOK, People
  PROVE  OwnersOK'
<1>1. UNCHANGED <<landing, cycle>> /\ sent \subseteq sent'
  BY PeopleKeep DEF executions
<1>2. EarlyInvitation => EarlyInvitation'
  BY <1>1 DEF EarlyInvitation, Enrolls, Managed
<1>3. pr'.owner = "none" => NoneYet'
  <2>1. CASE OpenPrByHand
    <3>1. pr'.owner = "human"
      BY <2>1 DEF OpenPrByHand
    <3> QED
      BY <3>1
  <2>2. CASE \E label \in {"automerge", "disable"}, action \in {"labeled", "unlabeled"} : LabelPr(label, action)
    <3>1. pr # NoPr /\ \E labels : pr' = [pr EXCEPT !.labels = labels]
      BY <2>2 DEF LabelPr
    <3>2. pr.owner # "none"
      BY <3>1 DEF OwnersOK, NoneYet
    <3>3. pr'.owner = pr.owner
      BY <3>1 DEF IntakeInv, TrackerOK
    <3> QED
      BY <3>2, <3>3
  <2>3. CASE Review
    BY <2>3, <1>1 DEF Review, OwnersOK, NoneYet
  <2>4. CASE OpenByHand \/ LinearLabel \/ LinearEdit \/ Configure
             \/ (\E i \in Opened, label \in {"trigger", "bug"} : Relabel(i, label))
             \/ (\E state \in {"plain", "labelled"} : LinearIssue(state))
    <3>1. pr' = pr /\ \A m \in sent' : m \in sent \/ m.event \in {"issues", "linear"}
      BY <2>4 DEF OpenByHand, LinearLabel, LinearEdit, Configure, Relabel, LinearIssue, OpenIssue, Send,
                  IssueOpened, IssueLabeled, LinearCreate, LinearUpdate
    <3> QED
      BY <1>1, <3>1 DEF OwnersOK, NoneYet, Handing
  <2> QED
    BY <2>1, <2>2, <2>3, <2>4 DEF People
<1> QED
  BY <1>1, <1>2, <1>3 DEF OwnersOK, OneOwner, Handing, EarlyInvitation

\* The gateway opens a landing on a payload that was sent without the label managed.
LEMMA GatewaysInviteEarly ==
  ASSUME IntakeInv, OwnersOK, Gateway
  PROVE  OwnersOK'
<1>1. pr' = pr /\ sent' = sent /\ cycle \in [Issues \cup {LinearNumber} -> CycleStates]
  BY GatewaysKeep DEF tracker, IntakeInv, ExecutionsOK
<1>2. DOMAIN cycle' = DOMAIN cycle /\ \A i \in DOMAIN cycle : cycle'[i] \in {cycle[i], "open"}
  <2>1. cycle' = cycle \/ \E i \in Issues \cup {LinearNumber} : cycle' = [cycle EXCEPT ![i] = "open"]
    BY DEF Gateway, handleGithubWebhook, handleLinearWebhook, Takes, Resolve, GiveUp, Wake, StartLanding, StartCycle,
           executions
  <2> QED
    BY <1>1, <2>1
<1>3. \A i \in DOMAIN cycle' : Handing(i)' => Handing(i)
  BY <1>2 DEF Handing
<1>4. landing' = landing \/ (EarlyInvitation /\ pr.owner # "none")
  <2>1. CASE \E r \in Requests : StartLanding(r)
    <3>1. PICK r \in Requests : StartLanding(r)
      BY <2>1
    <3>2. request[r].at = "starting" /\ request[r].m.event = "pull_request"
      BY <3>1 DEF StartLanding
    <3>3. request[r] \in RequestType /\ Invited(request[r])
      BY <3>2 DEF IntakeInv, GatewayOK
    <3>4. request[r].m \in sent
      BY <3>2, <3>3 DEF RequestType, NoRequest
    <3> QED
      BY <3>2, <3>3, <3>4 DEF EarlyInvitation, Invited, OwnersOK, NoneYet
  <2>2. CASE ~(\E r \in Requests : StartLanding(r))
    BY <2>2 DEF Gateway, handleGithubWebhook, handleLinearWebhook, Takes, Resolve, GiveUp, Wake, StartCycle, executions
  <2> QED
    BY <2>1, <2>2
<1>5. EarlyInvitation' = EarlyInvitation
  BY <1>1 DEF EarlyInvitation, Enrolls, Managed
<1>6. pr'.owner = "none" => NoneYet'
  BY <1>1, <1>2, <1>3, <1>4 DEF OwnersOK, NoneYet
<1>7. OneOwner'
  BY <1>1, <1>2, <1>3, <1>4, <1>5 DEF OwnersOK, OneOwner, Handing, EarlyInvitation
<1> QED
  BY <1>2, <1>3, <1>6, <1>7 DEF OwnersOK

\* A devCycle finds no landing when it creates its pull request, and has handed it over
\* when it opens one.
LEMMA WorksOwnOne ==
  ASSUME IntakeInv, OwnersOK, Works
  PROVE  OwnersOK'
<1>1. cycle \in [Issues \cup {LinearNumber} -> CycleStates] /\ sent \subseteq sent'
  BY WorksKeep DEF IntakeInv, ExecutionsOK
<1>2. EarlyInvitation => EarlyInvitation'
  BY <1>1 DEF EarlyInvitation, Enrolls, Managed
<1>3. ASSUME NEW i \in Issues \cup {LinearNumber}, OpenPr(i)
      PROVE  OwnersOK'
  <2>1. pr.owner = "none" /\ NoneYet /\ pr'.owner = "engine" /\ landing' = landing
        /\ cycle' = [cycle EXCEPT ![i] = "labelling"]
    BY <1>3 DEF OpenPr, OwnersOK, NoneYet, NoPr
  <2>2. landing' # "open" /\ \A j \in DOMAIN cycle' : Handing(j)' => j = i
    BY <1>1, <2>1 DEF NoneYet, Handing
  <2> QED
    BY <2>1, <2>2 DEF OwnersOK, OneOwner
<1>4. ASSUME NEW i \in Issues \cup {LinearNumber}, LabelManaged(i) \/ HandOver(i) \/ CycleCloses(i),
             NEW state, cycle' = [cycle EXCEPT ![i] = state],
             state \in {"labelling", "handing"} => Handing(i) /\ landing' = landing,
             landing' = "open" /\ landing # "open" => Handing(i) /\ state \notin {"labelling", "handing"},
             pr.owner # "none" /\ pr'.owner = pr.owner
      PROVE  OwnersOK'
  <2>1. \A j \in DOMAIN cycle' : j \in DOMAIN cycle /\ (Handing(j)' => Handing(j))
    BY <1>1, <1>4 DEF Handing
  <2>2. ASSUME NEW j \in DOMAIN cycle', Handing(j)', landing' = "open"
        PROVE  EarlyInvitation'
    <3>1. Handing(j)
      BY <2>1, <2>2
    <3>2. CASE landing = "open"
      BY <1>2, <2>1, <3>1, <3>2 DEF OwnersOK, OneOwner, Handing, EarlyInvitation
    <3>3. CASE landing # "open"
      <4>1. Handing(i) /\ state \notin {"labelling", "handing"} /\ i \in DOMAIN cycle
        BY <1>1, <1>4, <2>2, <3>3
      <4>2. i = j
        BY <2>1, <3>1, <4>1 DEF OwnersOK
      <4> QED
        BY <1>1, <1>4, <2>2, <4>1, <4>2 DEF Handing
    <3> QED
      BY <3>2, <3>3
  <2> QED
    BY <1>4, <2>1, <2>2 DEF OwnersOK, OneOwner, Handing, EarlyInvitation
<1>5. ASSUME NEW i \in Issues \cup {LinearNumber}, LabelManaged(i)
      PROVE  OwnersOK'
  <2>1. Handing(i) /\ i \in DOMAIN cycle
    BY <1>1, <1>5 DEF LabelManaged, Handing
  <2>2. pr.owner # "none"
    BY <2>1 DEF OwnersOK, NoneYet
  <2>3. pr'.owner = pr.owner /\ landing' = landing /\ cycle' = [cycle EXCEPT ![i] = "handing"]
    BY <1>5 DEF LabelManaged, IntakeInv, TrackerOK
  <2> QED
    BY <1>4, <1>5, <2>1, <2>2, <2>3
<1>6. ASSUME NEW i \in Issues \cup {LinearNumber}, HandOver(i)
      PROVE  OwnersOK'
  <2>1. Handing(i) /\ i \in DOMAIN cycle
    BY <1>1, <1>6 DEF HandOver, Handing
  <2>2. pr.owner # "none"
    BY <2>1 DEF OwnersOK, NoneYet
  <2>3. pr' = pr /\ \E state \in {"failed", "landing"} : cycle' = [cycle EXCEPT ![i] = state]
    BY <1>6 DEF HandOver, tracker
  <2> QED
    BY <1>4, <1>6, <2>1, <2>2, <2>3
<1>7. ASSUME UNCHANGED <<pr, sent>>, landing' \in {landing} \cup Closed,
             landing' # landing => landing # "none",
             DOMAIN cycle' = DOMAIN cycle, \A j \in DOMAIN cycle : Handing(j)' => Handing(j)
      PROVE  OwnersOK'
  <2>1. landing' = "open" => landing = "open"
    BY <1>7 DEF Closed
  <2>2. NoneYet => NoneYet'
    BY <1>7 DEF NoneYet
  <2>3. EarlyInvitation' = EarlyInvitation
    BY <1>7 DEF EarlyInvitation, Enrolls, Managed
  <2>4. OneOwner'
    BY <1>7, <2>1, <2>3 DEF OwnersOK, OneOwner, Handing, EarlyInvitation
  <2> QED
    BY <1>7, <2>2, <2>4 DEF OwnersOK
<1>8. ASSUME NEW i \in Issues \cup {LinearNumber}, CycleCloses(i)
      PROVE  OwnersOK'
  <2>1. UNCHANGED <<pr, sent>> /\ landing' = landing
    BY <1>8 DEF CycleCloses, tracker
  <2>2. DOMAIN cycle' = DOMAIN cycle /\ \A j \in DOMAIN cycle : Handing(j)' => Handing(j)
    BY <1>1, <1>8 DEF CycleCloses, Closed, Handing
  <2> QED
    BY <1>7, <2>1, <2>2
<1>9. CASE LandingCloses
  <2>1. UNCHANGED <<pr, sent, cycle>> /\ landing' \in Closed /\ landing # "none"
    BY <1>9 DEF LandingCloses, tracker
  <2> QED
    BY <1>7, <2>1 DEF Handing
<1> QED
  BY <1>3, <1>5, <1>6, <1>8, <1>9 DEF Works

LEMMA StepsOwnOne ==
  ASSUME IntakeInv, OwnersOK, [IntakeNext]_intakeVars
  PROVE  OwnersOK'
<1>1. CASE UNCHANGED intakeVars
  BY <1>1 DEF intakeVars, tracker, executions, OwnersOK, NoneYet, OneOwner, Handing, Enrolls, Managed
<1> QED
  BY <1>1, FilesAreNoOwners, PeopleAreNoOwners, GatewaysInviteEarly, WorksOwnOne DEF IntakeNext

LEMMA NobodyOwnsYet ==
  ASSUME IntakeInit
  PROVE  OwnersOK
<1>1. /\ pr = NoPr /\ landing = "none" /\ sent = {}
      /\ cycle = [i \in Issues \cup {LinearNumber} |-> "none"]
  BY DEF IntakeInit
<1> QED
  BY <1>1 DEF OwnersOK, NoneYet, OneOwner, Handing

\* Whatever is delivered, and however late, prLanding is open beside the devCycle whose
\* pull request it is only after an automerge label that came before the label managed.
\* (openPr, handleGithubWebhook, devCycle's startChild)
THEOREM PrsHaveOneOwner == IntakeSpec => []OneOwner
<1>1. IntakeInit => OwnersOK
  BY NobodyOwnsYet
<1>2. IntakeInv /\ OwnersOK /\ [IntakeNext]_intakeVars => OwnersOK'
  BY StepsOwnOne
<1>3. OwnersOK => OneOwner
  BY DEF OwnersOK
<1> QED
  BY <1>1, <1>2, <1>3, IntakesKeepInv, PTL DEF IntakeSpec

\* Whatever deliveries there are, an execution of prLanding is opened by a devCycle
\* that hands over or by the invitation of a person. (startOrSignalPrLanding,
\* handleGithubWebhook)
THEOREM LandingsAreInvited == IntakeSpec => LandingIsInvited
<1>. DEFINE Handed == \E i \in DOMAIN cycle : cycle[i] = "handing" /\ cycle'[i] = "landing"
            Asked == \E r \in Requests :
                       /\ request[r] # NoRequest /\ request'[r] = NoRequest
                       /\ request[r].m.event = "pull_request" /\ request[r].m.label = "automerge" /\ request[r].m.action = "labeled"
                       /\ "managed" \notin request[r].m.labels
                       /\ request[r].mode # "disabled"
<1>1. ASSUME IntakeInv, [IntakeNext]_intakeVars, landing # "open", landing' = "open"
      PROVE  Handed \/ Asked
  <2>1. ~UNCHANGED landing
    BY <1>1
  <2>2. CASE Files \/ People
    <3>1. UNCHANGED landing
      BY <2>2, <1>1, FilesKeep, PeopleKeep DEF executions
    <3>2. QED BY <2>1, <3>1
  <2>3. CASE Gateway
    <3>1. PICK r \in Requests : StartLanding(r)
      BY <2>1, <2>3 DEF Gateway, handleGithubWebhook, handleLinearWebhook, Takes, Resolve, GiveUp, Wake, StartCycle, executions
    <3>2. /\ Answered(r) /\ request[r].at = "starting" /\ request[r].m.event = "pull_request"
      BY <3>1, <1>1 DEF StartLanding
    <3>3. request \in [Requests -> RequestType] /\ Invited(request[r])
      BY <3>2, <1>1 DEF IntakeInv, GatewayOK
    <3>4. request[r] # NoRequest /\ request'[r] = NoRequest
      BY <3>2, <3>3 DEF Answered, NoRequest
    <3>5. /\ request[r].m.event = "pull_request" /\ request[r].m.label = "automerge" /\ request[r].m.action = "labeled"
          /\ "managed" \notin request[r].m.labels /\ request[r].mode # "disabled"
      BY <3>3 DEF Invited, Enrolls, Managed
    <3>6. QED BY <3>4, <3>5
  <2>4. CASE Works
    <3>1. PICK i \in Issues \cup {LinearNumber} : HandOver(i)
      BY <2>1, <2>4, <1>1 DEF Works, OpenPr, LabelManaged, CycleCloses, LandingCloses, Closed
    <3>2. cycle[i] = "handing" /\ cycle' = [cycle EXCEPT ![i] = "landing"]
      BY <3>1, <1>1 DEF HandOver
    <3>3. i \in DOMAIN cycle /\ cycle'[i] = "landing"
      BY <3>2, <1>1 DEF IntakeInv, ExecutionsOK
    <3>4. QED BY <3>2, <3>3
  <2>5. CASE UNCHANGED intakeVars
    BY <2>1, <2>5 DEF intakeVars, executions
  <2>6. QED BY <1>1, <2>2, <2>3, <2>4, <2>5 DEF IntakeNext
<1>2. IntakeInv /\ [IntakeNext]_intakeVars => [landing # "open" /\ landing' = "open" => Handed \/ Asked]_intakeVars
  BY <1>1
<1>3. QED BY <1>2, IntakesKeepInv, PTL DEF IntakeSpec, LandingIsInvited

(***************************************************************************)
(* Config sync and reconciliation: the inductive invariant.  A plan may    *)
(* delete only what its manifest does not want, a sweep deletes only what  *)
(* no list it has read keeps, and of all runs it waits for one at most.    *)
(***************************************************************************)
ScheduleType == [exists : BOOLEAN, paused : BOOLEAN, cron : Crons]
Changes == {"create", "update", "pause", "delete"}
Ops == Changes \cup {"start", "terminate"}
SyncType == [at : {"idle", "load", "list", "apply", "singles"}, child : BOOLEAN,
             wanted : [Agents -> Declarations],
             plan : SUBSET (Ops \X Agents), todo : SUBSET (Ops \X Agents)]
SweepType == [at : {"idle", "children", "waiting", "prune"}, list : SUBSET Projects,
              todo : SUBSET Projects, orphans : SUBSET Ids]
RefreshType == [at : {"idle", "loading"}, list : SUBSET Projects]

WorldOK ==
  /\ file \in [Projects -> {"fine", "broken", "gone"}]
  /\ declared \in [Ids -> Declarations]
  /\ schedule \in [Ids -> ScheduleType] /\ single \subseteq Ids
  /\ \A i \in Ids : schedule[i].exists \/ schedule[i] = NoSchedule

\* A run that is over is forgotten; a plan deletes what its manifest does not want.
SyncOK(s) ==
  /\ s.at = "idle" => s = NoSync
  /\ s.at = "apply" => /\ s.todo \subseteq s.plan /\ s.plan \subseteq Changes \X Agents
                       /\ \A a \in Agents : <<"delete", a>> \in s.plan => s.wanted[a].kind # "cron"

RunsOK ==
  /\ sync \in [Projects -> SyncType] /\ sweep \in SweepType
  /\ \A p \in Projects : SyncOK(sync[p])

\* A sweep that waits does so for one child, and no other run is a child.
ChildOK ==
  /\ sweep.at = "waiting" => \E p \in Projects : sync[p].child
  /\ \A p \in Projects : sync[p].child => sweep.at = "waiting"
  /\ \A p, q \in Projects : sync[p].child /\ sync[q].child => p = q

\* A project that is kept is well described and stands on every list under way.
KeptOK ==
  /\ kept \subseteq registry /\ \A p \in kept : file[p] = "fine"
  /\ refresh.at = "loading" => kept \subseteq refresh.list
  /\ sweep.at # "idle" => kept \subseteq sweep.list

RegistryOK ==
  /\ registry \subseteq Projects /\ refresh \in RefreshType
  /\ Tokens(registry) \subseteq cached /\ cached \subseteq Tokens(Projects)
  /\ \A i \in sweep.orphans : i[1] \notin sweep.list
  /\ sweep.orphans # {} => sweep.at = "prune"

Inv == WorldOK /\ RunsOK /\ ChildOK /\ KeptOK /\ RegistryOK

USE ReconcileAssumption

(***************************************************************************)
(* Values the model starts from.                                           *)
(***************************************************************************)
\* An agent that is not declared is of no kind, and some cron is the least one.
LEMMA DeclarationTypes ==
  /\ (CHOOSE c \in Crons : TRUE) \in Crons
  /\ Undeclared \in Declarations /\ Undeclared.kind = "none"
  /\ [Undeclared EXCEPT !.kind = "cron", !.enabled = TRUE] \in Declarations
<1>1. (CHOOSE c \in Crons : TRUE) \in Crons
  OBVIOUS
<1>2. PICK c0 \in Crons : c0 = CHOOSE c \in Crons : TRUE
  BY <1>1
<1>3. ASSUME NEW d
      PROVE  d \in Declarations <=> \/ d = [kind |-> "none", enabled |-> FALSE, cron |-> c0]
                                   \/ d \in [kind : {"cron"}, enabled : BOOLEAN, cron : Crons]
                                   \/ d \in [kind : {"continuous"}, enabled : BOOLEAN, cron : {c0}]
  BY <1>2, Zenon DEF Declarations
<1>4. Undeclared \in Declarations /\ Undeclared.kind = "none"
  <2>1. [kind |-> "none", enabled |-> FALSE, cron |-> c0] \in Declarations
    BY <1>3
  <2>2. QED BY <2>1 DEF Undeclared
<1>5. Undeclared = [kind |-> "none", enabled |-> FALSE, cron |-> c0]
  BY <1>3, <1>4
<1>6. [Undeclared EXCEPT !.kind = "cron", !.enabled = TRUE] \in [kind : {"cron"}, enabled : BOOLEAN, cron : Crons]
  BY <1>5
<1>7. QED BY <1>1, <1>3, <1>4, <1>6

\* What is declared is of one of three kinds.
LEMMA DeclarationFields ==
  ASSUME NEW d \in Declarations
  PROVE  d.cron \in Crons /\ d.kind \in {"none", "cron", "continuous"} /\ d.enabled \in BOOLEAN
<1>1. PICK c0 \in Crons : c0 = CHOOSE c \in Crons : TRUE
  BY DeclarationTypes
<1>2. \/ d = [kind |-> "none", enabled |-> FALSE, cron |-> c0]
      \/ d \in [kind : {"cron"}, enabled : BOOLEAN, cron : Crons]
      \/ d \in [kind : {"continuous"}, enabled : BOOLEAN, cron : {c0}]
  BY <1>1, Zenon DEF Declarations
<1>3. CASE d = [kind |-> "none", enabled |-> FALSE, cron |-> c0]
  BY <1>1, <1>3
<1>4. CASE d \in [kind : {"cron"}, enabled : BOOLEAN, cron : Crons]
  BY <1>4
<1>5. CASE d \in [kind : {"continuous"}, enabled : BOOLEAN, cron : {c0}]
  BY <1>1, <1>5
<1>6. QED BY <1>2, <1>3, <1>4, <1>5

\* Nothing is there: no schedule, no run, no sweep.
LEMMA EmptyTypes ==
  /\ NoSchedule \in ScheduleType /\ ~NoSchedule.exists
  /\ NoSync \in SyncType /\ NoSync.at = "idle" /\ ~NoSync.child /\ NoSync.plan = {} /\ NoSync.todo = {}
  /\ SyncOK(NoSync)
  /\ NoSweep \in SweepType /\ NoSweep.at = "idle" /\ NoSweep.orphans = {}
  /\ NoRefresh \in RefreshType /\ NoRefresh.at = "idle"
BY DeclarationTypes DEF NoSchedule, ScheduleType, NoSync, SyncType, NoSweep, SweepType, NoRefresh,
   RefreshType, SyncOK

\* A schedule that is set runs.
LEMMA ActiveTypes ==
  ASSUME NEW c \in Crons
  PROVE  Active(c) \in ScheduleType /\ Active(c).exists
BY DEF Active, ScheduleType

\* The tokens of more projects are more tokens.
LEMMA TokensOf ==
  ASSUME NEW S, NEW t
  PROVE  t \in Tokens(S) <=> \E p \in S : t \in {p} \X Keys(p)
BY DEF Tokens

(***************************************************************************)
(* What the actions have in common.                                        *)
(***************************************************************************)
\* A run goes on: it stays whose child it is.
LEMMA RunGoesOn ==
  ASSUME RunsOK, ChildOK, NEW p \in Projects, NEW s \in SyncType,
         sync' = [sync EXCEPT ![p] = s], SyncOK(s), s.child = sync[p].child, UNCHANGED sweep
  PROVE  RunsOK' /\ ChildOK'
<1>1. /\ sync' \in [Projects -> SyncType]
      /\ \A q \in Projects : sync'[q] = IF q = p THEN s ELSE sync[q]
  BY DEF RunsOK
<1>2. RunsOK'
  <2>1. \A q \in Projects : SyncOK(sync'[q])
    BY <1>1 DEF RunsOK
  <2>2. QED BY <1>1, <2>1 DEF RunsOK
<1>3. \A q \in Projects : sync'[q].child = sync[q].child
  BY <1>1
<1>4. ChildOK'
  BY <1>3 DEF ChildOK
<1>5. QED BY <1>2, <1>4

\* The sweep moves: no project is lost from its list, and no orphan is found on it.
LEMMA SweepMoves ==
  ASSUME KeptOK, RegistryOK, UNCHANGED <<worker, file>>, NEW s \in SweepType, sweep' = s,
         s.at # "idle" => s.list = sweep.list /\ sweep.at # "idle",
         \A i \in s.orphans : i[1] \notin s.list, s.orphans # {} => s.at = "prune"
  PROVE  KeptOK' /\ RegistryOK'
BY DEF KeptOK, RegistryOK, worker

\* Without a step of the worker, of the files or of the sweep, what is kept is kept.
LEMMA KeptStays ==
  ASSUME KeptOK, RegistryOK, UNCHANGED <<worker, file, sweep>>
  PROVE  KeptOK' /\ RegistryOK'
BY DEF KeptOK, RegistryOK, worker

\* A run ends; the sweep it is a child of goes on or fails with it.
LEMMA EndsKeeps ==
  ASSUME Inv, NEW p \in Projects, NEW ok \in BOOLEAN, Ends(p, ok), sync[p].at # "idle",
         UNCHANGED <<worker, file>>
  PROVE  RunsOK' /\ ChildOK' /\ KeptOK' /\ RegistryOK'
<1>1. /\ sync' = [sync EXCEPT ![p] = NoSync] /\ sync' \in [Projects -> SyncType]
      /\ \A q \in Projects : sync'[q] = IF q = p THEN NoSync ELSE sync[q]
  BY EmptyTypes DEF Inv, RunsOK, Ends
<1>2. sweep \in SweepType
  BY DEF Inv, RunsOK
<1>3. \A q \in Projects : SyncOK(sync'[q])
  BY <1>1, EmptyTypes DEF Inv, RunsOK
<1>4. CASE ~sync[p].child
  <2>1. sweep' = sweep
    BY <1>4 DEF Ends
  <2>2. \A q \in Projects : sync'[q].child = sync[q].child
    BY <1>1, <1>4, EmptyTypes DEF Inv, RunsOK, SyncType
  <2>3. RunsOK' /\ ChildOK'
    BY <1>1, <1>2, <1>3, <2>1, <2>2 DEF RunsOK, ChildOK, Inv
  <2>4. QED BY <2>1, <2>3, KeptStays DEF Inv
<1>5. CASE sync[p].child
  <2>1. /\ sweep.at = "waiting" /\ sweep.orphans = {}
        /\ \A q \in Projects : ~sync'[q].child
    BY <1>1, <1>5, EmptyTypes DEF Inv, ChildOK, RegistryOK
  <2>2. sweep' = IF ok THEN [sweep EXCEPT !.at = "children"] ELSE NoSweep
    BY <1>5 DEF Ends
  <2>3. /\ sweep' \in SweepType /\ sweep'.at # "waiting" /\ sweep'.orphans = {}
        /\ sweep'.at # "idle" => sweep'.list = sweep.list /\ sweep.at # "idle"
    BY <1>2, <2>1, <2>2, EmptyTypes DEF SweepType
  <2>4. RunsOK' /\ ChildOK'
    BY <1>1, <1>3, <2>1, <2>3 DEF RunsOK, ChildOK
  <2>5. KeptOK' /\ RegistryOK'
    BY <2>3, SweepMoves DEF Inv
  <2>6. QED BY <2>4, <2>5
<1>6. QED BY <1>4, <1>5

(***************************************************************************)
(* One lemma for each action.                                              *)
(***************************************************************************)
\* A file that changes takes its project from the kept ones.
LEMMA EditFileKeeps ==
  ASSUME Inv, NEW p \in Projects, NEW state \in {"fine", "broken", "gone"}, EditFile(p, state)
  PROVE  Inv'
<1>1. /\ file' = [file EXCEPT ![p] = state] /\ kept' = kept \ {p}
      /\ UNCHANGED <<declared, cached, registry, refresh, schedule, single, sync, sweep>>
  BY DEF EditFile, temporal, runs
<1>2. WorldOK'
  BY <1>1 DEF Inv, WorldOK
<1>3. RunsOK' /\ ChildOK'
  BY <1>1 DEF Inv, RunsOK, ChildOK
<1>4. KeptOK'
  <2>1. registry \subseteq Projects
    BY DEF Inv, RegistryOK
  <2>2. \A q \in kept' : file'[q] = "fine"
    BY <1>1, <2>1 DEF Inv, KeptOK, WorldOK
  <2>3. QED BY <1>1, <2>2 DEF Inv, KeptOK
<1>5. RegistryOK'
  BY <1>1 DEF Inv, RegistryOK
<1>6. QED BY <1>2, <1>3, <1>4, <1>5 DEF Inv

\* A manifest is read only later.
LEMMA EditManifestKeeps ==
  ASSUME Inv, NEW i \in Ids, NEW d \in Declarations, EditManifest(i, d)
  PROVE  Inv'
<1>1. /\ declared' = [declared EXCEPT ![i] = d]
      /\ UNCHANGED <<file, worker, schedule, single, sync, sweep>>
  BY DEF EditManifest, temporal, runs
<1>2. WorldOK'
  BY <1>1 DEF Inv, WorldOK
<1>3. RunsOK' /\ ChildOK'
  BY <1>1 DEF Inv, RunsOK, ChildOK
<1>4. QED BY <1>1, <1>2, <1>3, KeptStays DEF Inv

\* A run that begins has no plan yet.
LEMMA LoadTypes ==
  ASSUME NEW isChild \in BOOLEAN
  PROVE  LET s == [NoSync EXCEPT !.at = "load", !.child = isChild] IN
         s \in SyncType /\ SyncOK(s) /\ s.child = isChild
BY EmptyTypes DEF SyncType, SyncOK

\* A push starts a run or finds one.
LEMMA PushKeeps ==
  ASSUME Inv, NEW p \in Projects, handleGithubPush(p)
  PROVE  Inv'
<1>1. /\ sync' = IF sync[p].at = "idle" THEN [sync EXCEPT ![p] = [NoSync EXCEPT !.at = "load"]] ELSE sync
      /\ UNCHANGED <<file, declared, worker, schedule, single, sweep>>
  BY DEF handleGithubPush, startConfigSync, temporal
<1>2. WorldOK' /\ KeptOK' /\ RegistryOK'
  BY <1>1, KeptStays DEF Inv, WorldOK
<1>3. CASE sync[p].at = "idle"
  <2>. DEFINE s == [NoSync EXCEPT !.at = "load"]
  <2>1. s \in SyncType /\ SyncOK(s) /\ s.child = FALSE
    BY EmptyTypes DEF SyncType, SyncOK
  <2>2. sync[p].child = FALSE
    BY <1>3, EmptyTypes DEF Inv, RunsOK, SyncOK, NoSync
  <2>3. sync' = [sync EXCEPT ![p] = s]
    BY <1>1, <1>3
  <2>. HIDE DEF s
  <2>4. RunsOK' /\ ChildOK'
    BY <1>1, <2>1, <2>2, <2>3, RunGoesOn DEF Inv
  <2>5. QED BY <1>2, <2>4 DEF Inv
<1>4. CASE sync[p].at # "idle"
  BY <1>1, <1>2, <1>4 DEF Inv, RunsOK, ChildOK
<1>5. QED BY <1>3, <1>4

\* Every kept project is on a list that is read now.
LEMMA RefreshStartsKeeps ==
  ASSUME Inv, RefreshStarts
  PROVE  Inv'
<1>1. /\ refresh' = [at |-> "loading", list |-> {p \in Projects : file[p] = "fine"}]
      /\ UNCHANGED <<cached, registry, kept, file, declared, schedule, single, sync, sweep>>
  BY DEF RefreshStarts, inputs, temporal, runs
<1>2. WorldOK' /\ RunsOK' /\ ChildOK'
  BY <1>1 DEF Inv, WorldOK, RunsOK, ChildOK
<1>3. refresh' \in RefreshType /\ kept \subseteq refresh'.list
  BY <1>1 DEF Inv, KeptOK, RegistryOK, RefreshType
<1>4. KeptOK' /\ RegistryOK'
  BY <1>1, <1>3 DEF Inv, KeptOK, RegistryOK
<1>5. QED BY <1>2, <1>4 DEF Inv

\* Whose tokens are cached lacks none: the kept projects are built again.
LEMMA RefreshEndsKeeps ==
  ASSUME Inv, NEW lacking \in SUBSET Tokens(Projects), RefreshEnds(lacking)
  PROVE  Inv'
<1>. DEFINE next == {p \in refresh.list : buildResolvedEntry(p, lacking)}
<1>1. /\ refresh.at = "loading" /\ \A token \in lacking : token \notin cached
      /\ cached' = cached \cup UNION {TokensRead(p, lacking) : p \in refresh.list}
      /\ registry' = IF next = {} THEN registry ELSE next
      /\ kept' = IF Up THEN kept
                 ELSE {p \in next : file[p] = "fine" /\ (sweep.at = "idle" \/ p \in sweep.list)}
      /\ refresh' = NoRefresh
      /\ UNCHANGED <<file, declared, schedule, single, sync, sweep>>
  BY DEF RefreshEnds, MayLackToken, Replace, buildActivityDependencies, inputs, temporal, runs
<1>2. WorldOK' /\ RunsOK' /\ ChildOK'
  BY <1>1 DEF Inv, WorldOK, RunsOK, ChildOK
<1>3. /\ refresh.list \subseteq Projects /\ next \subseteq Projects
      /\ kept \subseteq registry /\ kept \subseteq refresh.list /\ Tokens(registry) \subseteq cached
  BY <1>1 DEF Inv, KeptOK, RegistryOK, RefreshType
<1>4. kept \subseteq next
  <2>1. ASSUME NEW p \in kept
        PROVE  {<<p, k>> : k \in Keys(p)} \cap lacking = {}
    <3>1. ASSUME NEW k \in Keys(p)
          PROVE  <<p, k>> \in cached
      BY <1>3, <2>1, TokensOf
    <3>2. QED BY <1>1, <3>1
  <2>2. QED BY <1>3, <2>1 DEF buildResolvedEntry
<1>5. ASSUME NEW p \in next
      PROVE  Tokens({p}) \subseteq cached'
  <2>1. {<<p, k>> : k \in Keys(p)} \cap lacking = {}
    BY <1>5 DEF buildResolvedEntry
  <2>2. <<p, "GITHUB_TOKEN">> \notin lacking
    BY <2>1 DEF Keys
  <2>3. TokensRead(p, lacking) = Tokens({p})
    BY <2>1, <2>2, TokensOf DEF TokensRead
  <2>4. QED BY <1>1, <1>5, <2>3
<1>6. Tokens(next) \subseteq cached'
  <2>1. ASSUME NEW t \in Tokens(next)
        PROVE  t \in cached'
    <3>1. PICK p \in next : t \in {p} \X Keys(p)
      BY <2>1, TokensOf
    <3>2. t \in Tokens({p})
      BY <3>1, TokensOf
    <3>3. QED BY <1>5, <3>2
  <2>2. QED BY <2>1
<1>7. cached' \subseteq Tokens(Projects)
  <2>1. ASSUME NEW p \in refresh.list
        PROVE  TokensRead(p, lacking) \subseteq Tokens(Projects)
    BY <1>3, <2>1, TokensOf DEF TokensRead
  <2>2. QED BY <1>1, <2>1 DEF Inv, RegistryOK
<1>8. kept' \subseteq next
  BY <1>1, <1>4
<1>9. /\ \A p \in kept' : file[p] = "fine"
      /\ sweep.at # "idle" => kept' \subseteq sweep.list
  BY <1>1 DEF Inv, KeptOK
<1>. HIDE DEF next
<1>10. registry' \subseteq Projects /\ kept' \subseteq registry' /\ Tokens(registry') \subseteq cached'
  BY <1>1, <1>3, <1>6, <1>8 DEF Inv, RegistryOK
<1>11. KeptOK' /\ RegistryOK'
  BY <1>1, <1>7, <1>9, <1>10, EmptyTypes DEF Inv, KeptOK, RegistryOK
<1>12. QED BY <1>2, <1>11 DEF Inv

\* A new worker knows no token and keeps nothing.
LEMMA RestartKeeps ==
  ASSUME Inv, Restart
  PROVE  Inv'
<1>1. /\ registry' = {} /\ cached' = {} /\ refresh' = NoRefresh /\ kept' = {}
      /\ sync' = [p \in Projects |-> IF sync[p].at = "apply" THEN [sync[p] EXCEPT !.todo = sync[p].plan]
                                     ELSE sync[p]]
      /\ sweep' = IF sweep.orphans # {} THEN ListsAgain ELSE sweep
      /\ UNCHANGED <<file, declared, schedule, single>>
  BY DEF Restart, inputs, temporal
<1>2. WorldOK'
  BY <1>1 DEF Inv, WorldOK
<1>3. sync \in [Projects -> SyncType] /\ sweep \in SweepType
  BY DEF Inv, RunsOK
<1>4. ASSUME NEW p \in Projects
      PROVE  sync'[p] \in SyncType /\ SyncOK(sync'[p]) /\ sync'[p].child = sync[p].child
  <2>1. sync[p] \in SyncType /\ SyncOK(sync[p])
    BY DEF Inv, RunsOK
  <2>2. CASE sync[p].at = "apply"
    BY <1>1, <2>1, <2>2 DEF SyncType, SyncOK
  <2>3. CASE sync[p].at # "apply"
    BY <1>1, <2>1, <2>3
  <2>4. QED BY <2>2, <2>3
<1>5. /\ sweep' \in SweepType
      /\ sweep'.orphans # {} => sweep'.at = "prune"
      /\ sweep'.at = "waiting" <=> sweep.at = "waiting"
      /\ sweep'.list = sweep.list /\ sweep'.orphans \subseteq sweep.orphans
  BY <1>1, <1>3 DEF ListsAgain, SweepType, Inv, RegistryOK
<1>6. RunsOK' /\ ChildOK'
  <2>1. sync' \in [Projects -> SyncType]
    BY <1>1, <1>4
  <2>2. QED BY <1>4, <1>5, <2>1 DEF RunsOK, ChildOK, Inv
<1>7. KeptOK' /\ RegistryOK'
  <2>1. Tokens({}) = {}
    BY TokensOf
  <2>2. QED BY <1>1, <1>5, <2>1, EmptyTypes DEF Inv, KeptOK, RegistryOK
<1>8. QED BY <1>2, <1>6, <1>7 DEF Inv

\* A step of a run that leaves its sweep and the world alone.
LEMMA RunStepKeeps ==
  ASSUME Inv, NEW p \in Projects, NEW s \in SyncType, sync' = [sync EXCEPT ![p] = s],
         SyncOK(s), s.child = sync[p].child, UNCHANGED <<worker, file, sweep>>, WorldOK'
  PROVE  Inv'
BY RunGoesOn, KeptStays DEF Inv

\* A schedule that changes is there or is as if it never was.
LEMMA ScheduleStepKeeps ==
  ASSUME Inv, NEW i \in Ids, NEW x \in ScheduleType, x.exists \/ x = NoSchedule,
         schedule' = [schedule EXCEPT ![i] = x], UNCHANGED <<file, declared, single>>
  PROVE  WorldOK'
BY DEF Inv, WorldOK

\* The manifest is read as it is.
LEMMA LoadManifestKeeps ==
  ASSUME Inv, NEW p \in Projects, LoadManifest(p)
  PROVE  Inv'
<1>. DEFINE wanted == [a \in Agents |-> declared[<<p, a>>]]
            s == [sync[p] EXCEPT !.at = "list", !.wanted = wanted]
<1>1. /\ sync' = [sync EXCEPT ![p] = s]
      /\ UNCHANGED <<worker, file, declared, schedule, single, sweep>>
  BY DEF LoadManifest, inputs, temporal, Inv, RunsOK
<1>2. wanted \in [Agents -> Declarations]
  BY DEF Inv, WorldOK, Ids
<1>. HIDE DEF wanted
<1>3. s \in SyncType /\ SyncOK(s) /\ s.child = sync[p].child
  <2>1. sync[p] \in SyncType
    BY DEF Inv, RunsOK
  <2>2. QED BY <1>2, <2>1 DEF SyncType, SyncOK
<1>4. WorldOK'
  BY <1>1 DEF Inv, WorldOK
<1>. HIDE DEF s
<1>5. QED BY <1>1, <1>3, <1>4, RunStepKeeps

\* A run that cannot read its manifest is over.
LEMMA LoadFailsKeeps ==
  ASSUME Inv, NEW p \in Projects, LoadFails(p)
  PROVE  Inv'
<1>1. /\ Ends(p, FALSE) /\ sync[p].at # "idle"
      /\ UNCHANGED <<worker, file, declared, schedule, single>>
  BY DEF LoadFails, At, inputs, temporal
<1>2. WorldOK'
  BY <1>1 DEF Inv, WorldOK
<1>3. QED BY <1>1, <1>2, EndsKeeps DEF Inv

\* The plan deletes only what exists and is wanted by no cron.
LEMMA PlanTypes ==
  ASSUME NEW wanted \in [Agents -> Declarations], NEW existing \in SUBSET Agents
  PROVE  /\ reconcileAgents(wanted, existing) \in SUBSET (Changes \X Agents)
         /\ reconcileContinuous(wanted, existing) \in SUBSET (Ops \X Agents)
         /\ \A a \in Agents : <<"delete", a>> \in reconcileAgents(wanted, existing) =>
                                a \in existing /\ wanted[a].kind # "cron"
<1>1. reconcileAgents(wanted, existing) \in SUBSET (Changes \X Agents)
  <2>1. ASSUME NEW x \in reconcileAgents(wanted, existing)
        PROVE  \E a \in Agents : x \in {<<"create", a>>, <<"update", a>>, <<"pause", a>>, <<"delete", a>>}
    BY DEF reconcileAgents
  <2>2. \A a \in Agents : {<<"create", a>>, <<"update", a>>, <<"pause", a>>, <<"delete", a>>} \subseteq Changes \X Agents
    BY DEF Changes
  <2>3. reconcileAgents(wanted, existing) \subseteq Changes \X Agents
    BY <2>1, <2>2
  <2>4. QED BY <2>3
<1>2. reconcileContinuous(wanted, existing) \in SUBSET (Ops \X Agents)
  <2>1. ASSUME NEW x \in reconcileContinuous(wanted, existing)
        PROVE  \E a \in Agents : x \in {<<"start", a>>, <<"terminate", a>>}
    BY DEF reconcileContinuous
  <2>2. \A a \in Agents : {<<"start", a>>, <<"terminate", a>>} \subseteq Ops \X Agents
    BY DEF Ops
  <2>3. reconcileContinuous(wanted, existing) \subseteq Ops \X Agents
    BY <2>1, <2>2
  <2>4. QED BY <2>3
<1>3. ASSUME NEW a \in Agents, <<"delete", a>> \in reconcileAgents(wanted, existing)
      PROVE  a \in existing /\ wanted[a].kind # "cron"
  BY <1>3 DEF reconcileAgents
<1>4. QED BY <1>1, <1>2, <1>3

\* The plan is made from what is wanted and what was found.
LEMMA ListAgentsKeeps ==
  ASSUME Inv, NEW p \in Projects, NEW existing \in SUBSET Agents, listAgentSchedules(p, existing)
  PROVE  Inv'
<1>. DEFINE plan == reconcileAgents(sync[p].wanted, existing)
            s == [sync[p] EXCEPT !.at = "apply", !.plan = plan, !.todo = plan]
<1>1. /\ sync' = [sync EXCEPT ![p] = s]
      /\ UNCHANGED <<worker, file, declared, schedule, single, sweep>>
  BY DEF listAgentSchedules, inputs, temporal, Inv, RunsOK
<1>2. sync[p] \in SyncType /\ sync[p].wanted \in [Agents -> Declarations]
  BY DEF Inv, RunsOK, SyncType
<1>3. /\ plan \in SUBSET (Ops \X Agents) /\ plan \subseteq Changes \X Agents
      /\ \A a \in Agents : <<"delete", a>> \in plan => sync[p].wanted[a].kind # "cron"
  BY <1>2, PlanTypes DEF Ops
<1>. HIDE DEF plan
<1>4. s \in SyncType /\ SyncOK(s) /\ s.child = sync[p].child
  BY <1>2, <1>3 DEF SyncType, SyncOK
<1>5. WorldOK'
  BY <1>1 DEF Inv, WorldOK
<1>. HIDE DEF s
<1>6. QED BY <1>1, <1>4, <1>5, RunStepKeeps

\* What is done is struck off.
LEMMA DoneTypes ==
  ASSUME Inv, NEW p \in Projects, NEW op, Done(p, op), sync[p].at # "idle"
  PROVE  \E s \in SyncType : /\ sync' = [sync EXCEPT ![p] = s]
                             /\ SyncOK(s) /\ s.child = sync[p].child
<1>. DEFINE s == [sync[p] EXCEPT !.todo = sync[p].todo \ {op}]
<1>1. sync[p] \in SyncType /\ SyncOK(sync[p]) /\ sync \in [Projects -> SyncType]
  BY DEF Inv, RunsOK
<1>2. sync' = [sync EXCEPT ![p] = s]
  BY <1>1 DEF Done
<1>3. s \in SyncType /\ SyncOK(s) /\ s.child = sync[p].child
  BY <1>1 DEF SyncType, SyncOK
<1>4. QED BY <1>2, <1>3

\* A schedule is created where there is none.
LEMMA CreateScheduleKeeps ==
  ASSUME Inv, NEW p \in Projects, NEW a \in Agents, CreateSchedule(p, a)
  PROVE  Inv'
<1>1. sync[p].at # "idle" /\ UNCHANGED <<worker, file, declared, single>>
  BY DEF CreateSchedule, IsNext, At, inputs
<1>2. CASE schedule[<<p, a>>].exists
  <2>1. Ends(p, FALSE) /\ UNCHANGED schedule
    BY <1>2 DEF CreateSchedule
  <2>2. WorldOK'
    BY <1>1, <2>1 DEF Inv, WorldOK
  <2>3. QED BY <1>1, <2>1, <2>2, EndsKeeps DEF Inv
<1>3. CASE ~schedule[<<p, a>>].exists
  <2>1. /\ schedule' = [schedule EXCEPT ![<<p, a>>] = Active(sync[p].wanted[a].cron)]
        /\ Done(p, <<"create", a>>) /\ UNCHANGED sweep
    BY <1>3 DEF CreateSchedule
  <2>2. sync[p].wanted[a].cron \in Crons
    BY DeclarationFields DEF Inv, RunsOK, SyncType
  <2>3. <<p, a>> \in Ids
    BY DEF Ids
  <2>4. WorldOK'
    BY <1>1, <2>1, <2>2, <2>3, ActiveTypes, ScheduleStepKeeps
  <2>5. QED BY <1>1, <2>1, <2>4, DoneTypes, RunStepKeeps
<1>4. QED BY <1>2, <1>3

\* A schedule is changed where there is one.
LEMMA ChangedTypes ==
  ASSUME NEW op, NEW old \in ScheduleType, NEW d \in Declarations, old.exists \/ old = NoSchedule
  PROVE  /\ Changed(op, old, d) \in ScheduleType
         /\ Changed(op, old, d).exists \/ Changed(op, old, d) = NoSchedule
         /\ old.exists /\ ~Changed(op, old, d).exists => op \notin {"update", "pause"}
<1>1. Active(d.cron) \in ScheduleType /\ Active(d.cron).exists
  BY DeclarationFields, ActiveTypes
<1>2. [old EXCEPT !.paused = TRUE] \in ScheduleType /\ [old EXCEPT !.paused = TRUE].exists = old.exists
  BY DEF ScheduleType
<1>3. CASE ~old.exists
  <2>1. Changed(op, old, d) = old
    BY <1>3 DEF Changed
  <2>2. QED BY <1>3, <2>1
<1>4. CASE old.exists /\ op = "update"
  BY <1>1, <1>4 DEF Changed
<1>5. CASE old.exists /\ op = "pause"
  BY <1>2, <1>5 DEF Changed
<1>6. CASE old.exists /\ op \notin {"update", "pause"}
  BY <1>6, EmptyTypes DEF Changed
<1>7. QED BY <1>3, <1>4, <1>5, <1>6

\* Every other change of a schedule, also one whose error is swallowed.
LEMMA ChangeScheduleKeeps ==
  ASSUME Inv, NEW p \in Projects, NEW op \in sync[p].todo, ChangeSchedule(p, op)
  PROVE  Inv'
<1>1. /\ sync[p].at # "idle" /\ Done(p, op)
      /\ UNCHANGED <<worker, file, declared, single, sweep>>
  BY DEF ChangeSchedule, IsNext, At, inputs
<1>. DEFINE i == <<p, op[2]>>
            x == Changed(op[1], schedule[i], sync[p].wanted[op[2]])
<1>2. op[2] \in Agents /\ i \in Ids /\ sync[p].wanted[op[2]] \in Declarations
  BY DEF Inv, RunsOK, SyncType, Ids
<1>3. schedule[i] \in ScheduleType /\ (schedule[i].exists \/ schedule[i] = NoSchedule)
  BY <1>2 DEF Inv, WorldOK
<1>4. x \in ScheduleType /\ (x.exists \/ x = NoSchedule)
  BY <1>2, <1>3, ChangedTypes
<1>5. schedule' = [schedule EXCEPT ![i] = x] \/ UNCHANGED schedule
  BY DEF ChangeSchedule
<1>. HIDE DEF x, i
<1>6. WorldOK'
  <2>1. CASE schedule' = [schedule EXCEPT ![i] = x]
    BY <1>1, <1>2, <1>4, <2>1, ScheduleStepKeeps
  <2>2. CASE UNCHANGED schedule
    BY <1>1, <2>2 DEF Inv, WorldOK
  <2>3. QED BY <1>5, <2>1, <2>2
<1>7. QED BY <1>1, <1>6, DoneTypes, RunStepKeeps

\* The plan is applied from its start again.
LEMMA ApplyAgainKeeps ==
  ASSUME Inv, NEW p \in Projects, ApplyAgain(p)
  PROVE  Inv'
<1>. DEFINE s == [sync[p] EXCEPT !.todo = sync[p].plan]
<1>1. /\ sync' = [sync EXCEPT ![p] = s] /\ sync[p].at = "apply"
      /\ UNCHANGED <<worker, file, declared, schedule, single, sweep>>
  BY DEF ApplyAgain, At, inputs, temporal, Inv, RunsOK
<1>2. s \in SyncType /\ SyncOK(s) /\ s.child = sync[p].child
  <2>1. sync[p] \in SyncType /\ SyncOK(sync[p])
    BY DEF Inv, RunsOK
  <2>2. QED BY <1>1, <2>1 DEF SyncType, SyncOK
<1>3. WorldOK'
  BY <1>1 DEF Inv, WorldOK
<1>. HIDE DEF s
<1>4. QED BY <1>1, <1>2, <1>3, RunStepKeeps

\* The singletons that are to start or to end are a plan of their own.
LEMMA ListContinuousKeeps ==
  ASSUME Inv, NEW p \in Projects, NEW running \in SUBSET Agents, listContinuousAgents(p, running)
  PROVE  Inv'
<1>. DEFINE plan == reconcileContinuous(sync[p].wanted, running)
            s == [sync[p] EXCEPT !.at = "singles", !.plan = {}, !.todo = plan]
<1>1. /\ sync' = [sync EXCEPT ![p] = s]
      /\ UNCHANGED <<worker, file, declared, schedule, single, sweep>>
  BY DEF listContinuousAgents, inputs, temporal, Inv, RunsOK
<1>2. sync[p] \in SyncType /\ sync[p].wanted \in [Agents -> Declarations]
  BY DEF Inv, RunsOK, SyncType
<1>3. plan \in SUBSET (Ops \X Agents)
  BY <1>2, PlanTypes
<1>. HIDE DEF plan
<1>4. s \in SyncType /\ SyncOK(s) /\ s.child = sync[p].child
  BY <1>2, <1>3 DEF SyncType, SyncOK
<1>5. WorldOK'
  BY <1>1 DEF Inv, WorldOK
<1>. HIDE DEF s
<1>6. QED BY <1>1, <1>4, <1>5, RunStepKeeps

\* A singleton starts, or the run fails.
LEMMA StartSingleKeeps ==
  ASSUME Inv, NEW p \in Projects, NEW a \in Agents, StartSingle(p, a)
  PROVE  Inv'
<1>1. sync[p].at # "idle" /\ UNCHANGED <<worker, file, declared, schedule>>
  BY DEF StartSingle, At, inputs
<1>2. WorldOK'
  <2>1. single' \subseteq Ids
    BY DEF StartSingle, Inv, WorldOK, Ids
  <2>2. QED BY <1>1, <2>1 DEF Inv, WorldOK
<1>3. CASE Done(p, <<"start", a>>) /\ UNCHANGED sweep
  BY <1>1, <1>2, <1>3, DoneTypes, RunStepKeeps
<1>4. CASE Ends(p, FALSE)
  BY <1>1, <1>2, <1>4, EndsKeeps DEF Inv
<1>5. QED BY <1>3, <1>4 DEF StartSingle

\* A singleton is ended, or the error of the call is swallowed.
LEMMA TerminateKeeps ==
  ASSUME Inv, NEW p \in Projects, NEW a \in Agents, Terminate(p, a)
  PROVE  Inv'
<1>1. /\ sync[p].at # "idle" /\ Done(p, <<"terminate", a>>)
      /\ UNCHANGED <<worker, file, declared, schedule, sweep>>
  BY DEF Terminate, At, inputs
<1>2. WorldOK'
  <2>1. single' \subseteq Ids
    BY DEF Terminate, Inv, WorldOK
  <2>2. QED BY <1>1, <2>1 DEF Inv, WorldOK
<1>3. QED BY <1>1, <1>2, DoneTypes, RunStepKeeps

\* A run that is through ends well.
LEMMA SyncEndsKeeps ==
  ASSUME Inv, NEW p \in Projects, SyncEnds(p)
  PROVE  Inv'
<1>1. /\ Ends(p, TRUE) /\ sync[p].at # "idle"
      /\ UNCHANGED <<worker, file, declared, schedule, single>>
  BY DEF SyncEnds, At, inputs, temporal
<1>2. WorldOK'
  BY <1>1 DEF Inv, WorldOK
<1>3. QED BY <1>1, <1>2, EndsKeeps DEF Inv

\* A singleton that closes by itself is gone.
LEMMA SingleClosesKeeps ==
  ASSUME Inv, NEW i \in Ids, SingleCloses(i)
  PROVE  Inv'
<1>1. single' = single \ {i} /\ UNCHANGED <<worker, file, declared, schedule, sync, sweep>>
  BY DEF SingleCloses, inputs, runs
<1>2. WorldOK' /\ RunsOK' /\ ChildOK'
  BY <1>1 DEF Inv, WorldOK, RunsOK, ChildOK
<1>3. QED BY <1>1, <1>2, KeptStays DEF Inv

\* A step of the sweep alone.
LEMMA SweepStepKeeps ==
  ASSUME Inv, UNCHANGED <<worker, file, declared, single, sync>>, WorldOK',
         NEW s \in SweepType, sweep' = s, s.at # "waiting", sweep.at # "waiting",
         s.at # "idle" => s.list = sweep.list /\ sweep.at # "idle",
         \A i \in s.orphans : i[1] \notin s.list, s.orphans # {} => s.at = "prune"
  PROVE  Inv'
<1>1. KeptOK' /\ RegistryOK'
  BY SweepMoves DEF Inv
<1>2. RunsOK' /\ ChildOK'
  BY DEF Inv, RunsOK, ChildOK
<1>3. QED BY <1>1, <1>2 DEF Inv

\* The list of a sweep is the registry, and the registry has every kept project.
LEMMA ListProjectsKeeps ==
  ASSUME Inv, listManagedProjects
  PROVE  Inv'
<1>1. /\ sweep.at = "idle"
      /\ sweep' = [NoSweep EXCEPT !.at = "children", !.list = registry, !.todo = registry]
      /\ UNCHANGED <<worker, file, declared, schedule, single, sync>>
  BY DEF listManagedProjects, inputs, temporal
<1>2. /\ sweep' \in SweepType /\ sweep'.at = "children" /\ sweep'.list = registry
      /\ sweep'.orphans = {}
  BY <1>1, EmptyTypes DEF SweepType, Inv, RegistryOK
<1>3. WorldOK'
  BY <1>1 DEF Inv, WorldOK
<1>4. RunsOK' /\ ChildOK'
  BY <1>1, <1>2 DEF Inv, RunsOK, ChildOK
<1>5. KeptOK' /\ RegistryOK'
  BY <1>1, <1>2 DEF Inv, KeptOK, RegistryOK, worker
<1>6. QED BY <1>3, <1>4, <1>5 DEF Inv

\* A child starts and the sweep waits for it, or finds the run taken and fails.
LEMMA StartChildKeeps ==
  ASSUME Inv, NEW p \in Projects, StartChild(p)
  PROVE  Inv'
<1>1. /\ sweep.at = "children" /\ sweep \in SweepType /\ sync \in [Projects -> SyncType]
      /\ UNCHANGED <<worker, file, declared, schedule, single>>
  BY DEF StartChild, inputs, temporal, Inv, RunsOK
<1>2. WorldOK'
  BY <1>1 DEF Inv, WorldOK
<1>3. CASE sync[p].at = "idle"
  <2>. DEFINE s == [NoSync EXCEPT !.at = "load", !.child = TRUE]
  <2>1. /\ sync' = [sync EXCEPT ![p] = s]
        /\ sweep' = [sweep EXCEPT !.at = "waiting", !.todo = sweep.todo \ {p}]
    BY <1>1, <1>3 DEF StartChild
  <2>2. s \in SyncType /\ SyncOK(s) /\ s.child = TRUE
    BY EmptyTypes DEF SyncType, SyncOK
  <2>. HIDE DEF s
  <2>3. /\ sweep' \in SweepType /\ sweep'.at = "waiting" /\ sweep'.list = sweep.list
        /\ sweep'.orphans = {}
    BY <1>1, <2>1 DEF SweepType, Inv, RegistryOK
  <2>4. /\ sync' \in [Projects -> SyncType]
        /\ \A q \in Projects : sync'[q] = IF q = p THEN s ELSE sync[q]
    BY <1>1, <2>1, <2>2
  <2>5. \A q \in Projects : ~sync[q].child
    BY <1>1 DEF Inv, ChildOK
  <2>6. RunsOK'
    <3>1. \A q \in Projects : SyncOK(sync'[q])
      BY <2>2, <2>4 DEF Inv, RunsOK
    <3>2. QED BY <2>3, <2>4, <3>1 DEF RunsOK
  <2>7. ChildOK'
    BY <2>2, <2>3, <2>4, <2>5 DEF ChildOK
  <2>8. KeptOK' /\ RegistryOK'
    BY <1>1, <2>3, SweepMoves DEF Inv
  <2>9. QED BY <1>2, <2>6, <2>7, <2>8 DEF Inv
<1>4. CASE sync[p].at # "idle"
  <2>1. sweep' = NoSweep /\ UNCHANGED sync
    BY <1>4 DEF StartChild
  <2>2. QED BY <1>1, <1>2, <2>1, EmptyTypes, SweepStepKeeps
<1>5. QED BY <1>3, <1>4

\* Orphans are of projects that are not on the list.
LEMMA PruneKeeps ==
  ASSUME Inv, pruneOrphanAgentSchedules
  PROVE  Inv'
<1>1. /\ sweep.at = "children" /\ sweep \in SweepType /\ sweep.orphans = {}
      /\ UNCHANGED <<worker, file, declared, schedule, single, sync>>
  BY DEF pruneOrphanAgentSchedules, inputs, temporal, Inv, RunsOK, RegistryOK
<1>2. WorldOK'
  BY <1>1 DEF Inv, WorldOK
<1>. DEFINE found == orphanScheduleIds({i \in Ids : schedule[i].exists}, sweep.list)
<1>3. found \subseteq Ids /\ \A i \in found : i[1] \notin sweep.list
  BY DEF orphanScheduleIds
<1>4. \/ sweep' = [sweep EXCEPT !.at = "prune", !.orphans = found]
      \/ sweep' = [sweep EXCEPT !.at = "prune"]
  BY DEF pruneOrphanAgentSchedules
<1>. HIDE DEF found
<1>5. /\ sweep' \in SweepType /\ sweep'.at = "prune" /\ sweep'.list = sweep.list
      /\ \A i \in sweep'.orphans : i[1] \notin sweep.list
  BY <1>1, <1>3, <1>4 DEF SweepType
<1>6. QED BY <1>1, <1>2, <1>5, SweepStepKeeps

\* An orphan goes, or stays until the next sweep.
LEMMA DeleteOrphanKeeps ==
  ASSUME Inv, NEW i \in Ids, DeleteOrphan(i)
  PROVE  Inv'
<1>1. /\ sweep.at = "prune" /\ sweep \in SweepType
      /\ sweep' = [sweep EXCEPT !.orphans = sweep.orphans \ {i}]
      /\ UNCHANGED <<worker, file, declared, single, sync>>
  BY DEF DeleteOrphan, inputs, Inv, RunsOK
<1>2. WorldOK'
  <2>1. CASE schedule' = [schedule EXCEPT ![i] = NoSchedule]
    BY <1>1, <2>1, EmptyTypes, ScheduleStepKeeps
  <2>2. CASE UNCHANGED schedule
    BY <1>1, <2>2 DEF Inv, WorldOK
  <2>3. QED BY <2>1, <2>2 DEF DeleteOrphan
<1>3. /\ sweep' \in SweepType /\ sweep'.at = "prune" /\ sweep'.list = sweep.list
      /\ sweep'.orphans \subseteq sweep.orphans
  BY <1>1 DEF SweepType
<1>4. \A j \in sweep.orphans : j[1] \notin sweep.list
  BY DEF Inv, RegistryOK
<1>5. QED BY <1>1, <1>2, <1>3, <1>4, SweepStepKeeps

\* The orphans are looked for again.
LEMMA PruneAgainKeeps ==
  ASSUME Inv, PruneAgain
  PROVE  Inv'
<1>1. /\ sweep.at = "prune" /\ sweep \in SweepType /\ sweep' = ListsAgain
      /\ UNCHANGED <<worker, file, declared, schedule, single, sync>>
  BY DEF PruneAgain, inputs, temporal, Inv, RunsOK
<1>2. WorldOK'
  BY <1>1 DEF Inv, WorldOK
<1>3. /\ sweep' \in SweepType /\ sweep'.at = "children" /\ sweep'.list = sweep.list
      /\ sweep'.orphans = {}
  BY <1>1 DEF SweepType, ListsAgain
<1>4. QED BY <1>1, <1>2, <1>3, SweepStepKeeps

\* A sweep that is over is forgotten.
LEMMA SweepEndsKeeps ==
  ASSUME Inv, SweepEnds
  PROVE  Inv'
<1>1. /\ sweep.at = "prune" /\ sweep' = NoSweep
      /\ UNCHANGED <<worker, file, declared, schedule, single, sync>>
  BY DEF SweepEnds, inputs, temporal
<1>2. WorldOK'
  BY <1>1 DEF Inv, WorldOK
<1>3. QED BY <1>1, <1>2, EmptyTypes, SweepStepKeeps

(***************************************************************************)
(* The invariant holds of every reachable state.                           *)
(***************************************************************************)
\* What is managed at the start is what is well described.
LEMMA InitHasInv == Init => Inv
<1>. SUFFICES ASSUME Init PROVE Inv
  OBVIOUS
<1>1. WorldOK
  <2>1. declared \in [Ids -> Declarations]
    BY DeclarationTypes DEF Init, Ids
  <2>2. schedule \in [Ids -> ScheduleType] /\ \A i \in Ids : schedule[i] = NoSchedule
    BY EmptyTypes DEF Init
  <2>3. QED BY <2>1, <2>2 DEF Init, WorldOK
<1>2. RunsOK /\ ChildOK
  BY EmptyTypes DEF Init, RunsOK, ChildOK
<1>3. registry \subseteq Projects /\ Tokens(registry) \subseteq Tokens(Projects)
  <2>1. registry \subseteq Projects
    BY DEF Init
  <2>2. QED BY <2>1, TokensOf
<1>4. KeptOK /\ RegistryOK
  BY <1>3, EmptyTypes DEF Init, KeptOK, RegistryOK
<1>5. QED BY <1>1, <1>2, <1>4 DEF Inv

\* Every action keeps the invariant.
LEMMA NextKeepsInv ==
  ASSUME Inv, [Next]_vars
  PROVE  Inv'
<1>1. CASE Operators
  BY <1>1, EditFileKeeps, EditManifestKeeps, PushKeeps DEF Operators
<1>2. CASE Refreshes
  BY <1>2, RefreshStartsKeeps, RefreshEndsKeeps DEF Refreshes
<1>3. ASSUME NEW p \in Projects, Syncs(p)
      PROVE  Inv'
  BY <1>3, LoadManifestKeeps, LoadFailsKeeps, SyncEndsKeeps, ListAgentsKeeps, ListContinuousKeeps,
     CreateScheduleKeeps, StartSingleKeeps, TerminateKeeps, ChangeScheduleKeeps DEF Syncs
<1>4. CASE Sweeps
  BY <1>4, ListProjectsKeeps, PruneKeeps, SweepEndsKeeps, StartChildKeeps, DeleteOrphanKeeps DEF Sweeps
<1>5. CASE Mishaps
  BY <1>5, RestartKeeps, PruneAgainKeeps, ApplyAgainKeeps, SingleClosesKeeps DEF Mishaps
<1>6. CASE UNCHANGED vars
  BY <1>6 DEF vars, worker, inputs, temporal, runs, Inv, WorldOK, RunsOK, ChildOK, KeptOK, RegistryOK
<1>7. QED BY <1>1, <1>2, <1>3, <1>4, <1>5, <1>6 DEF Next

\* The invariant is one.
LEMMA RunsKeepInv == Spec => []Inv
<1>1. Inv /\ [Next]_vars => Inv'
  BY NextKeepsInv
<1>2. QED BY InitHasInv, <1>1, PTL DEF Spec

(***************************************************************************)
(* What projects rely on.                                                  *)
(***************************************************************************)
\* Schedules, runs and the registry are what the model says they are, and of all runs
\* of configSync a sweep waits for one at most.
THEOREM TypeCorrect == Spec => []TypeOK
<1>1. Inv => TypeOK
  <2>. SUFFICES ASSUME Inv PROVE TypeOK
    OBVIOUS
  <2>1. \A p \in Projects : sync[p].at = "idle" <=> sync[p] = NoSync
    BY EmptyTypes DEF Inv, RunsOK, SyncOK
  <2>2. Cardinality({p \in Projects : sync[p].child}) = (IF sweep.at = "waiting" THEN 1 ELSE 0)
    <3>1. CASE sweep.at = "waiting"
      <4>1. PICK q \in Projects : sync[q].child
        BY <3>1 DEF Inv, ChildOK
      <4>2. {p \in Projects : sync[p].child} = {q}
        BY <4>1 DEF Inv, ChildOK
      <4>3. QED BY <3>1, <4>2, FS_Singleton
    <3>2. CASE sweep.at # "waiting"
      <4>1. {p \in Projects : sync[p].child} = {}
        BY <3>2 DEF Inv, ChildOK
      <4>2. QED BY <3>2, <4>1, FS_EmptySet
    <3>3. QED BY <3>1, <3>2
  <2>3. \A i \in Ids : schedule[i] = NoSchedule \/ schedule[i].exists
    BY DEF Inv, WorldOK
  <2>4. QED BY <2>1, <2>2, <2>3 DEF Inv, WorldOK, KeptOK, RegistryOK, TypeOK
<1>2. QED BY <1>1, RunsKeepInv, PTL

\* The only steps that take a schedule away: a plan that does not want it, and a sweep
\* whose list has not its project.
LEMMA SchedulesGo ==
  ASSUME Inv, [Next]_vars, NEW i \in Ids, schedule[i].exists, ~schedule'[i].exists
  PROVE  \/ \E p \in Projects : \E op \in sync[p].todo : ChangeSchedule(p, op)
         \/ DeleteOrphan(i)
<1>1. schedule \in [Ids -> ScheduleType]
  BY DEF Inv, WorldOK
<1>2. ASSUME NEW p \in Projects, NEW a \in Agents, CreateSchedule(p, a)
      PROVE  schedule'[i].exists
  <2>1. sync[p].wanted[a].cron \in Crons
    BY DeclarationFields DEF Inv, RunsOK, SyncType
  <2>2. QED BY <1>1, <1>2, <2>1, ActiveTypes DEF CreateSchedule
<1>3. ASSUME NEW j \in Ids, DeleteOrphan(j), j # i
      PROVE  schedule'[i] = schedule[i]
  BY <1>1, <1>3 DEF DeleteOrphan
<1>4. schedule' # schedule
  OBVIOUS
<1>5. CASE Operators
  BY <1>4, <1>5 DEF Operators, EditFile, EditManifest, handleGithubPush, temporal
<1>6. CASE Refreshes
  BY <1>4, <1>6 DEF Refreshes, RefreshStarts, RefreshEnds, temporal
<1>7. ASSUME NEW p \in Projects, Syncs(p)
      PROVE  \E op \in sync[p].todo : ChangeSchedule(p, op)
  BY <1>2, <1>4, <1>7 DEF Syncs, LoadManifest, LoadFails, SyncEnds, listAgentSchedules, listContinuousAgents,
     StartSingle, Terminate, temporal
<1>8. CASE Sweeps
  BY <1>3, <1>4, <1>8 DEF Sweeps, listManagedProjects, pruneOrphanAgentSchedules, SweepEnds, StartChild, temporal
<1>9. CASE Mishaps
  BY <1>4, <1>9 DEF Mishaps, Restart, PruneAgain, ApplyAgain, SingleCloses, temporal
<1>10. CASE UNCHANGED vars
  BY <1>4, <1>10 DEF vars, temporal
<1>11. QED BY <1>5, <1>6, <1>7, <1>8, <1>9, <1>10 DEF Next

\* Whatever registries are read, tokens are lacking, workers come up and other
\* projects go: who is kept loses a schedule only to its own manifest.
THEOREM KeptAgentsStay == Spec => KeptProjectsKeepTheirAgents
<1>1. ASSUME Inv, [Next]_vars, NEW i \in Ids, i[1] \in kept, schedule[i].exists, ~schedule'[i].exists
      PROVE  sync[i[1]].at = "apply" /\ sync[i[1]].wanted[i[2]].kind # "cron"
  <2>1. ~DeleteOrphan(i)
    BY <1>1 DEF DeleteOrphan, Inv, KeptOK, RegistryOK
  <2>2. PICK p \in Projects : \E op \in sync[p].todo : ChangeSchedule(p, op)
    BY <1>1, <2>1, SchedulesGo
  <2>3. PICK op \in sync[p].todo : ChangeSchedule(p, op)
    BY <2>2
  <2>4. /\ sync[p].at = "apply" /\ op[1] # "create" /\ op \in Changes \X Agents
        /\ sync[p].wanted \in [Agents -> Declarations] /\ schedule \in [Ids -> ScheduleType]
        /\ sync[p].todo \subseteq sync[p].plan
        /\ \A a \in Agents : <<"delete", a>> \in sync[p].plan => sync[p].wanted[a].kind # "cron"
    BY <1>1, <2>3 DEF Inv, WorldOK, RunsOK, SyncOK, SyncType, ChangeSchedule, IsNext, At
  <2>5. PICK a \in Agents, o \in Changes : op = <<o, a>>
    BY <2>4
  <2>6. schedule' = [schedule EXCEPT ![<<p, a>>] = Changed(o, schedule[<<p, a>>], sync[p].wanted[a])]
    BY <1>1, <2>3, <2>5, Zenon DEF ChangeSchedule
  <2>7. i = <<p, a>>
    BY <1>1, <2>4, <2>6
  <2>8. o \notin {"update", "pause"}
    <3>1. schedule[i] \in ScheduleType /\ (schedule[i].exists \/ schedule[i] = NoSchedule)
      BY <1>1 DEF Inv, WorldOK
    <3>2. schedule'[i] = Changed(o, schedule[i], sync[p].wanted[a])
      BY <2>4, <2>6, <2>7
    <3>3. QED BY <1>1, <2>4, <3>1, <3>2, ChangedTypes
  <2>9. o = "delete"
    BY <2>4, <2>5, <2>8 DEF Changes
  <2>10. QED BY <2>3, <2>4, <2>5, <2>7, <2>9
<1>2. Inv /\ [Next]_vars => [\A i \in Ids : i[1] \in kept /\ schedule[i].exists /\ ~schedule'[i].exists =>
       sync[i[1]].at = "apply" /\ sync[i[1]].wanted[i[2]].kind # "cron"]_vars
  BY <1>1
<1>3. QED BY <1>2, RunsKeepInv, PTL DEF Spec, KeptProjectsKeepTheirAgents
==================================================================================
