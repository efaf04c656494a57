----------------------- MODULE AbandonedReviewsProofs -----------------------
(***************************************************************************)
(* Theorems about AbandonedReviews, for any number of reviews and of scans *)
(* at one time.                                                            *)
(*                                                                         *)
(* The bounds rest on the scans that deal with a review alone: between the *)
(* check and the commit of such a scan there is no other, every commit in  *)
(* between is of a scan that counts as an overlap, and so what the check   *)
(* read is still true but for the overlaps.                                *)
(***************************************************************************)
EXTENDS AbandonedReviews, TLAPS

-----------------------------------------------------------------------------
(* Types. *)

LEMMA NoScanTyped == NoScan \in Scan
BY DEF NoScan, Nothing, Scan, Measure

LEMMA InitTyped == Init => AbandonedTypeOK
BY NoScanTyped DEF Init, AbandonedTypeOK, Row, Stage

LEMMA UpdatedTyped == ASSUME NEW row \in Row PROVE Updated(row) \in Row
<1>1. row.escalation_count + 1 \in Nat BY DEF Row
<1> QED BY <1>1 DEF Updated, Row

LEMMA EscalatedTyped == ASSUME NEW row \in Row, NEW n \in Nat PROVE Escalated(row, n) \in Row
<1>1. n + 1 \in Nat /\ "review" \in Stage BY DEF Stage
<1> QED BY <1>1 DEF Escalated, Row

LEMMA ScanTyped ==
    ASSUME AbandonedTypeOK, NEW s \in Scans, ScanStep(s)
    PROVE AbandonedTypeOK'
<1> USE LimitsAssumption
<1>0. scan[s] \in Scan BY DEF AbandonedTypeOK
<1>1. CASE Begin(s)
  <2>1. \A r \in Reviews : Plan(review[r]) \in Measure BY DEF Plan, Measure
  <2>2. [NoScan EXCEPT !.running = TRUE, !.todo = {r \in Reviews : Abandoned(r)},
            !.plan = [r \in Reviews |-> IF r \in {q \in Reviews : Abandoned(q)}
                                        THEN Plan(review[r]) ELSE "none"]] \in Scan
    BY <2>1, NoScanTyped DEF Scan, Measure
  <2> QED BY <1>1, <2>2 DEF Begin, AbandonedTypeOK, ledger
<1>2. CASE Check(s)
  <2>1. PICK r \in scan[s].todo :
          \/ scan' = [scan EXCEPT ![s].todo = @ \ {r}, ![s].plan[r] = "none"]
          \/ scan' = [scan EXCEPT ![s].todo = @ \ {r}, ![s].checked = {r},
                 ![s].beside = IF \E u \in Scans \ {s} : DealsWith(u, r)
                               THEN @ \cup {r} ELSE @]
    BY <1>2 DEF Check
  <2>2. r \in Reviews BY <1>0 DEF Scan
  <2>3. CASE scan' = [scan EXCEPT ![s].todo = @ \ {r}, ![s].plan[r] = "none"]
    <3>1. [scan[s] EXCEPT !.todo = @ \ {r}, !.plan[r] = "none"] \in Scan
      BY <1>0, <2>2 DEF Scan, Measure
    <3> QED BY <1>2, <2>3, <3>1 DEF Check, AbandonedTypeOK, ledger
  <2>4. CASE scan' = [scan EXCEPT ![s].todo = @ \ {r}, ![s].checked = {r},
                 ![s].beside = IF \E u \in Scans \ {s} : DealsWith(u, r)
                               THEN @ \cup {r} ELSE @]
    <3> DEFINE beside == IF \E u \in Scans \ {s} : DealsWith(u, r)
                         THEN scan[s].beside \cup {r} ELSE scan[s].beside
    <3>1. beside \in SUBSET Reviews BY <1>0, <2>2 DEF Scan
    <3>2. scan' = [scan EXCEPT ![s].todo = @ \ {r}, ![s].checked = {r}, ![s].beside = beside]
      BY <2>4 DEF AbandonedTypeOK
    <3> HIDE DEF beside
    <3>3. [scan[s] EXCEPT !.todo = @ \ {r}, !.checked = {r}, !.beside = beside] \in Scan
      BY <1>0, <2>2, <3>1 DEF Scan
    <3>4. scan' \in [Scans -> Scan] BY <3>2, <3>3 DEF AbandonedTypeOK
    <3> QED BY <1>2, <3>4 DEF Check, AbandonedTypeOK, ledger
  <2> QED BY <2>1, <2>3, <2>4
<1>3. CASE Act(s)
  <2>1. PICK r \in scan[s].checked :
          scan' = [scan EXCEPT ![s].checked = {}, ![s].plan[r] = "none",
                               ![s].written[r] = scan[s].plan[r],
                               ![s].value[r] = actions[r] + 1]
    BY <1>3 DEF Act
  <2>2. r \in Reviews BY <1>0 DEF Scan
  <2>3. actions[r] + 1 \in Nat BY <2>2 DEF AbandonedTypeOK
  <2>4. scan[s].plan[r] \in Measure BY <1>0, <2>2 DEF Scan
  <2>5. scan' \in [Scans -> Scan]
    BY <1>0, <2>1, <2>2, <2>3, <2>4 DEF AbandonedTypeOK, Scan, Measure
  <2> QED BY <1>3, <2>5 DEF Act, AbandonedTypeOK, ledger
<1>4. CASE Rollback(s)
  BY <1>4, NoScanTyped DEF Rollback, AbandonedTypeOK, ledger
<1>5. CASE Commit(s)
  <2>1. review' \in [Reviews -> Row]
    BY <1>5, UpdatedTyped DEF Commit, AbandonedTypeOK
  <2>2. \A r \in Reviews : actions[r] + 1 \in Nat /\ since[r] + 1 \in Nat /\ overlaps[r] + 1 \in Nat
    BY DEF AbandonedTypeOK
  <2>3. actions' \in [Reviews -> Nat] /\ since' \in [Reviews -> Nat] /\ overlaps' \in [Reviews -> Nat]
    BY <1>5, <2>2 DEF Commit, AbandonedTypeOK
  <2>4. latest' \in [Reviews -> Nat]
    BY <1>0, <1>5 DEF Commit, AbandonedTypeOK, Scan
  <2>5. cooling' \in [Reviews -> BOOLEAN] BY <1>5 DEF Commit, AbandonedTypeOK
  <2>6. scan' \in [Scans -> Scan] /\ manual' = manual
    BY <1>5, NoScanTyped DEF Commit, AbandonedTypeOK
  <2> QED BY <2>1, <2>3, <2>4, <2>5, <2>6 DEF AbandonedTypeOK
<1> QED BY <1>1, <1>2, <1>3, <1>4, <1>5 DEF ScanStep

LEMMA RequestTyped ==
    ASSUME AbandonedTypeOK, NEW r \in Reviews, RequestStep(r)
    PROVE AbandonedTypeOK'
<1>0. review[r] \in Row BY DEF AbandonedTypeOK
<1>1. CASE Work(r)
  <2>1. PICK stage \in Stage, assigned \in BOOLEAN :
          review' = [review EXCEPT ![r] =
              [@ EXCEPT !.stage = stage, !.assigned = assigned, !.idle = FALSE]]
    BY <1>1 DEF Work
  <2>2. [review[r] EXCEPT !.stage = stage, !.assigned = assigned, !.idle = FALSE] \in Row
    BY <1>0 DEF Row
  <2> QED BY <1>1, <2>1, <2>2 DEF Work, AbandonedTypeOK, ledger
<1>2. CASE Escalate(r)
  <2>1. manual[r] + 1 \in Nat BY DEF AbandonedTypeOK
  <2>2. PICK n \in 1..manual[r] + 1, assigned \in BOOLEAN :
          review' = [review EXCEPT ![r] =
              [Escalated(@, n) EXCEPT !.assigned = review[r].assigned \/ assigned]]
    BY <1>2 DEF Escalate
  <2>3. Escalated(review[r], n) \in Row BY <1>0, <2>1, EscalatedTyped
  <2>4. (review[r].assigned \/ assigned) \in BOOLEAN OBVIOUS
  <2>5. [Escalated(review[r], n) EXCEPT !.assigned = review[r].assigned \/ assigned] \in Row
    BY <2>3, <2>4 DEF Row
  <2>6. manual' \in [Reviews -> Nat] BY <1>2, <2>1 DEF Escalate, AbandonedTypeOK
  <2>7. since' \in [Reviews -> Nat] BY <1>2 DEF Escalate, AbandonedTypeOK
  <2> QED BY <1>2, <2>2, <2>5, <2>6, <2>7 DEF Escalate, AbandonedTypeOK, ledger
<1> QED BY <1>1, <1>2 DEF RequestStep

LEMMA TimeTyped ==
    ASSUME AbandonedTypeOK, NEW r \in Reviews, TimeStep(r)
    PROVE AbandonedTypeOK'
<1>0. review[r] \in Row BY DEF AbandonedTypeOK
<1>1. CASE Ages(r) BY <1>0, <1>1 DEF Ages, AbandonedTypeOK, ledger, Row
<1>2. CASE Idles(r) BY <1>0, <1>2 DEF Idles, AbandonedTypeOK, ledger, Row
<1>3. CASE CooldownEnds(r) BY <1>3 DEF CooldownEnds, AbandonedTypeOK
<1> QED BY <1>1, <1>2, <1>3 DEF TimeStep

\* Type correctness of the rows, the ledger and the scans, for every number of
\* reviews, scans and attempts.
THEOREM AbandonedTypeCorrect == Spec => []AbandonedTypeOK
<1>1. AbandonedTypeOK /\ [Next]_vars => AbandonedTypeOK'
  <2> SUFFICES ASSUME AbandonedTypeOK, [Next]_vars PROVE AbandonedTypeOK'
    OBVIOUS
  <2>1. CASE Next BY <2>1, ScanTyped, RequestTyped, TimeTyped DEF Next
  <2>2. CASE UNCHANGED vars BY <2>2 DEF vars, AbandonedTypeOK
  <2> QED BY <2>1, <2>2
<1> QED BY InitTyped, <1>1, PTL DEF Spec

-----------------------------------------------------------------------------
(* escalation_count. *)

Accounted(r) == IF manual[r] = 0 THEN ByHand(r) = 0 ELSE ByHand(r) \in 2..manual[r] + 1

LEMMA AccountedStep ==
    ASSUME AbandonedTypeOK, EscalationsAccounted, Next, NEW r \in Reviews
    PROVE Accounted(r)'
<1>0. /\ review[r] \in Row /\ manual[r] \in Nat /\ since[r] \in Nat
      /\ Accounted(r)
      /\ review \in [Reviews -> Row]
  BY DEF AbandonedTypeOK, EscalationsAccounted, Accounted
<1>a. ASSUME manual'[r] = manual[r],
             review'[r].escalation_count - since'[r] = review[r].escalation_count - since[r]
      PROVE Accounted(r)'
  BY <1>0, <1>a DEF Accounted, ByHand
<1>1. ASSUME NEW s \in Scans, ScanStep(s) PROVE Accounted(r)'
  <2>1. CASE Begin(s) \/ Check(s) \/ Act(s) \/ Rollback(s)
    BY <1>a, <2>1 DEF Begin, Check, Act, Rollback
  <2>2. CASE Commit(s)
    <3>1. CASE Bumps(s, r)
      <4>1. review'[r].escalation_count = review[r].escalation_count + 1
        BY <1>0, <2>2, <3>1 DEF Commit, Updated, Row
      <4>2. since'[r] = since[r] + 1 /\ manual' = manual BY <2>2, <3>1 DEF Commit
      <4>3. review[r].escalation_count \in Nat BY <1>0 DEF Row
      <4> QED BY <1>0, <1>a, <4>1, <4>2, <4>3
    <3>2. CASE ~Bumps(s, r) BY <1>0, <1>a, <2>2, <3>2 DEF Commit
    <3> QED BY <3>1, <3>2
  <2> QED BY <1>1, <2>1, <2>2 DEF ScanStep
<1>2. ASSUME NEW q \in Reviews, RequestStep(q) PROVE Accounted(r)'
  <2>1. CASE Work(q)
    <3>1. review'[r].escalation_count = review[r].escalation_count
      BY <1>0, <2>1 DEF Work, Row
    <3> QED BY <1>a, <2>1, <3>1 DEF Work
  <2>2. CASE Escalate(q)
    <3>1. CASE q = r
      <4>1. PICK n \in 1..manual[r] + 1 : review'[r].escalation_count = n + 1
        BY <1>0, <2>2, <3>1 DEF Escalate, Escalated, Row
      <4>2. manual'[r] = manual[r] + 1 /\ since'[r] = 0
        BY <2>2, <3>1 DEF Escalate, AbandonedTypeOK
      <4> QED BY <1>0, <4>1, <4>2 DEF Accounted, ByHand
    <3>2. CASE q # r BY <1>a, <2>2, <3>2 DEF Escalate, AbandonedTypeOK
    <3> QED BY <3>1, <3>2
  <2> QED BY <1>2, <2>1, <2>2 DEF RequestStep
<1>3. ASSUME NEW q \in Reviews, TimeStep(q) PROVE Accounted(r)'
  <2>1. review'[r].escalation_count = review[r].escalation_count
    BY <1>0, <1>3 DEF TimeStep, Ages, Idles, CooldownEnds, Row
  <2>2. manual' = manual /\ since' = since
    BY <1>3 DEF TimeStep, Ages, Idles, CooldownEnds
  <2> QED BY <1>a, <2>1, <2>2
<1> QED BY <1>1, <1>2, <1>3 DEF Next

\* Less the recovery's escalations since the last one by hand, escalation_count is
\* within one of the number of those, and at least two, for every number of scans
\* and requests that escalate at one time.
THEOREM EscalationsAreAccounted == Spec => []EscalationsAccounted
<1>1. Init => EscalationsAccounted
  <2> SUFFICES ASSUME Init, NEW r \in Reviews
               PROVE Accounted(r)
    BY DEF EscalationsAccounted, Accounted
  <2>1. review[r].escalation_count = 0 /\ since[r] = 0 /\ manual[r] = 0 BY DEF Init
  <2> QED BY <2>1 DEF Accounted, ByHand
<1>2. AbandonedTypeOK /\ EscalationsAccounted /\ [Next]_vars => EscalationsAccounted'
  <2> SUFFICES ASSUME AbandonedTypeOK, EscalationsAccounted, [Next]_vars
               PROVE EscalationsAccounted'
    OBVIOUS
  <2>1. CASE Next BY <2>1, AccountedStep DEF EscalationsAccounted, Accounted
  <2>2. CASE UNCHANGED vars BY <2>2 DEF vars, EscalationsAccounted, ByHand
  <2> QED BY <2>1, <2>2
<1> QED BY <1>1, <1>2, AbandonedTypeCorrect, PTL DEF Spec

-----------------------------------------------------------------------------
(* The bounds. *)

\* scan s deals with r, and no other did when it checked r
Alone(s, r) == DealsWith(s, r) /\ r \notin scan[s].beside

\* What one scan that deals with r alone may rely on.
Reliable(s, r) ==
    /\ actions[r] + 1 <= MAX_RECOVERY_ATTEMPTS + overlaps[r]
    /\ Recorded(s, r) => actions[r] + 1 <= scan[s].value[r] + overlaps[r]
    /\ cooling[r] => overlaps[r] > 0

Bounded(r) ==
    /\ \A s, u \in Scans : Alone(s, r) /\ Alone(u, r) => s = u
    /\ \A s \in Scans : Alone(s, r) => Reliable(s, r)
    /\ actions[r] <= MAX_RECOVERY_ATTEMPTS + overlaps[r]
    /\ actions[r] <= latest[r] + overlaps[r]

AllBounded == \A r \in Reviews : Bounded(r)

LEMMA NoScanDeals ==
    ASSUME NEW s \in Scans, NEW r \in Reviews, scan[s].checked = {}, scan[s].written = Nothing
    PROVE ~DealsWith(s, r) /\ ~Recorded(s, r)
BY DEF DealsWith, Recorded, Nothing

LEMMA InitBounded == Init => AllBounded
<1> SUFFICES ASSUME Init, NEW r \in Reviews PROVE Bounded(r)
  BY DEF AllBounded
<1> USE LimitsAssumption
<1>1. actions[r] = 0 /\ latest[r] = 0 /\ overlaps[r] = 0 BY DEF Init
<1>2. \A s \in Scans : ~Alone(s, r)
  BY NoScanDeals DEF Init, NoScan, Alone
<1> QED BY <1>1, <1>2 DEF Bounded

\* A step that leaves the ledger, and only takes scans off what they deal with.
LEMMA QuietStep ==
    ASSUME NEW r \in Reviews, Bounded(r),
           actions'[r] = actions[r], latest'[r] = latest[r], overlaps'[r] = overlaps[r],
           cooling'[r] => cooling[r],
           \A u \in Scans : Alone(u, r)' =>
               /\ Alone(u, r)
               /\ Recorded(u, r)' => Recorded(u, r) /\ scan'[u].value[r] = scan[u].value[r]
    PROVE Bounded(r)'
<1>1. \A u \in Scans : Alone(u, r)' => Reliable(u, r)' BY DEF Bounded, Reliable
<1> QED BY <1>1 DEF Bounded

LEMMA CheckBounded ==
    ASSUME AbandonedTypeOK, NEW r \in Reviews, Bounded(r), NEW s \in Scans, Check(s)
    PROVE Bounded(r)'
<1> USE LimitsAssumption
<1>0. scan[s] \in Scan /\ scan \in [Scans -> Scan] BY DEF AbandonedTypeOK
<1>1. actions' = actions /\ latest' = latest /\ overlaps' = overlaps /\ cooling' = cooling
  BY DEF Check, ledger
<1>2. \A u \in Scans \ {s} : scan'[u] = scan[u] BY <1>0 DEF Check
<1>3. PICK q \in scan[s].todo :
        \/ /\ MaySkip(q)
           /\ scan' = [scan EXCEPT ![s].todo = @ \ {q}, ![s].plan[q] = "none"]
        \/ /\ ~MaySkip(q)
           /\ scan' = [scan EXCEPT ![s].todo = @ \ {q}, ![s].checked = {q},
                  ![s].beside = IF \E u \in Scans \ {s} : DealsWith(u, q)
                                THEN @ \cup {q} ELSE @]
  BY DEF Check
<1>4. scan'[s].written = scan[s].written /\ scan'[s].value = scan[s].value
  BY <1>0, <1>3 DEF Scan
<1>5. CASE Alone(s, r)' /\ ~Alone(s, r)
  <2>1. scan[s].checked = {} BY DEF Check
  <2>2. ~MaySkip(q) /\ q = r /\ scan'[s].checked = {q}
    <3>1. CASE scan' = [scan EXCEPT ![s].todo = @ \ {q}, ![s].plan[q] = "none"]
      BY <1>0, <1>5, <3>1 DEF Alone, DealsWith, Scan
    <3>2. CASE ~MaySkip(q) /\ scan' = [scan EXCEPT ![s].todo = @ \ {q}, ![s].checked = {q},
                  ![s].beside = IF \E u \in Scans \ {s} : DealsWith(u, q)
                                THEN @ \cup {q} ELSE @]
      <4>1. scan'[s].checked = {q} /\ scan[s].beside \subseteq scan'[s].beside
        BY <1>0, <3>2 DEF Scan
      <4> QED BY <1>4, <1>5, <2>1, <3>2, <4>1 DEF Alone, DealsWith
    <3> QED BY <1>3, <3>1, <3>2
  <2>3. ~ \E u \in Scans \ {s} : DealsWith(u, r)
    <3>1. CASE \E u \in Scans \ {s} : DealsWith(u, r)
      <4>1. r \in scan'[s].beside BY <1>0, <1>3, <2>2, <3>1 DEF Scan
      <4> QED BY <1>5, <4>1 DEF Alone
    <3> QED BY <3>1
  <2>4. \A u \in Scans \ {s} : ~Alone(u, r)' BY <1>2, <2>3 DEF Alone, DealsWith
  <2>5. ~cooling[r] /\ latest[r] < MAX_RECOVERY_ATTEMPTS
    BY <2>2 DEF MaySkip, AbandonedTypeOK
  <2>6. actions[r] \in Nat /\ latest[r] \in Nat /\ overlaps[r] \in Nat BY DEF AbandonedTypeOK
  <2>7. actions[r] + 1 <= MAX_RECOVERY_ATTEMPTS + overlaps[r] BY <2>5, <2>6 DEF Bounded
  <2>8. ~Recorded(s, r)'
    <3>1. r \notin scan'[s].beside BY <1>5 DEF Alone
    <3>2. scan[s].beside \subseteq scan'[s].beside BY <1>0, <1>3 DEF Scan
    <3>3. ~DealsWith(s, r) BY <1>5, <3>1, <3>2 DEF Alone
    <3> QED BY <1>4, <3>3 DEF DealsWith, Recorded
  <2>9. Reliable(s, r)' BY <1>1, <2>5, <2>7, <2>8 DEF Reliable
  <2> QED BY <1>1, <2>4, <2>9 DEF Bounded
<1>6. CASE Alone(s, r)' => Alone(s, r)
  <2>1. \A u \in Scans : Alone(u, r)' =>
          /\ Alone(u, r)
          /\ Recorded(u, r)' => Recorded(u, r) /\ scan'[u].value[r] = scan[u].value[r]
    BY <1>2, <1>4, <1>6 DEF Alone, DealsWith, Recorded
  <2> QED BY <1>1, <2>1, QuietStep
<1> QED BY <1>5, <1>6

LEMMA ActBounded ==
    ASSUME AbandonedTypeOK, NEW r \in Reviews, Bounded(r), NEW s \in Scans, Act(s)
    PROVE Bounded(r)'
<1>0. scan[s] \in Scan /\ scan \in [Scans -> Scan] BY DEF AbandonedTypeOK
<1>1. actions' = actions /\ latest' = latest /\ overlaps' = overlaps /\ cooling' = cooling
  BY DEF Act, ledger
<1>2. \A u \in Scans \ {s} : scan'[u] = scan[u] BY <1>0 DEF Act
<1>3. PICK q \in scan[s].checked :
        scan' = [scan EXCEPT ![s].checked = {}, ![s].plan[q] = "none",
                             ![s].written[q] = scan[s].plan[q],
                             ![s].value[q] = actions[q] + 1]
  BY DEF Act
<1>4. q \in Reviews BY <1>0 DEF Scan
<1>5. /\ scan'[s].checked = {} /\ scan'[s].beside = scan[s].beside
      /\ q # r => scan'[s].written[r] = scan[s].written[r] /\ scan'[s].value[r] = scan[s].value[r]
      /\ q = r => scan'[s].value[r] = actions[r] + 1
  BY <1>0, <1>3, <1>4 DEF Scan
<1>6. Alone(s, r)' => Alone(s, r) BY <1>3, <1>5 DEF Alone, DealsWith
<1>7. CASE q # r
  <2>1. \A u \in Scans : Alone(u, r)' =>
          /\ Alone(u, r)
          /\ Recorded(u, r)' => Recorded(u, r) /\ scan'[u].value[r] = scan[u].value[r]
    BY <1>2, <1>5, <1>6, <1>7 DEF Alone, DealsWith, Recorded
  <2> QED BY <1>1, <2>1, QuietStep
<1>8. CASE q = r
  <2>1. actions[r] \in Nat /\ overlaps[r] \in Nat BY DEF AbandonedTypeOK
  <2>2. actions[r] + 1 <= scan'[s].value[r] + overlaps[r] BY <1>5, <1>8, <2>1
  <2>3. Alone(s, r)' => Reliable(s, r)'
    BY <1>1, <1>6, <2>2 DEF Bounded, Reliable
  <2>4. \A u \in Scans \ {s} : Alone(u, r)' => Alone(u, r) /\ Reliable(u, r)'
    BY <1>1, <1>2 DEF Bounded, Alone, DealsWith, Recorded, Reliable
  <2>5. \A u \in Scans : Alone(u, r)' => Alone(u, r) /\ Reliable(u, r)' BY <1>6, <2>3, <2>4
  <2> QED BY <1>1, <2>5 DEF Bounded
<1> QED BY <1>7, <1>8

\* A scan that is over, or has only begun, deals with nothing.
LEMMA ClearBounded ==
    ASSUME AbandonedTypeOK, NEW r \in Reviews, Bounded(r), NEW s \in Scans,
           Begin(s) \/ Rollback(s)
    PROVE Bounded(r)'
<1>1. actions' = actions /\ latest' = latest /\ overlaps' = overlaps /\ cooling' = cooling
  BY DEF Begin, Rollback, ledger
<1>2. /\ \A u \in Scans \ {s} : scan'[u] = scan[u]
      /\ scan'[s].checked = {} /\ scan'[s].written = Nothing
  <2>1. CASE Begin(s)
    <3> DEFINE found == {q \in Reviews : Abandoned(q)}
               plan == [q \in Reviews |-> IF q \in found THEN Plan(review[q]) ELSE "none"]
    <3>1. scan' = [scan EXCEPT ![s] = [NoScan EXCEPT !.running = TRUE, !.todo = found, !.plan = plan]]
      BY <2>1 DEF Begin
    <3> HIDE DEF found, plan
    <3>2. scan'[s] = [NoScan EXCEPT !.running = TRUE, !.todo = found, !.plan = plan]
      BY <3>1 DEF AbandonedTypeOK
    <3>3. scan'[s].checked = {} /\ scan'[s].written = Nothing BY <3>2 DEF NoScan
    <3> QED BY <3>1, <3>3 DEF AbandonedTypeOK
  <2>2. CASE Rollback(s) BY <2>2 DEF Rollback, NoScan, AbandonedTypeOK
  <2> QED BY <2>1, <2>2
<1>3. ~Alone(s, r)' BY <1>2 DEF Alone, DealsWith, Nothing
<1>4. \A u \in Scans : Alone(u, r)' =>
        /\ Alone(u, r)
        /\ Recorded(u, r)' => Recorded(u, r) /\ scan'[u].value[r] = scan[u].value[r]
  BY <1>2, <1>3 DEF Alone, DealsWith, Recorded
<1> QED BY <1>1, <1>4, QuietStep

LEMMA CommitBounded ==
    ASSUME AbandonedTypeOK, NEW r \in Reviews, Bounded(r), NEW s \in Scans, Commit(s)
    PROVE Bounded(r)'
<1> USE LimitsAssumption
<1>0. /\ scan[s] \in Scan /\ scan \in [Scans -> Scan]
      /\ actions[r] \in Nat /\ latest[r] \in Nat /\ overlaps[r] \in Nat
  BY DEF AbandonedTypeOK
<1>1. \A u \in Scans \ {s} : scan'[u] = scan[u] BY <1>0 DEF Commit
<1>2. scan'[s].checked = {} /\ scan'[s].written = Nothing BY <1>0 DEF Commit, NoScan
<1>3. ~Alone(s, r)' BY <1>2 DEF Alone, DealsWith, Nothing
<1>4. \A u \in Scans : Alone(u, r)' =>
        u # s /\ Alone(u, r) /\ (Recorded(u, r)' => Recorded(u, r)) /\ scan'[u].value[r] = scan[u].value[r]
  BY <1>1, <1>3 DEF Alone, DealsWith, Recorded
<1>5. \A u \in Scans : scan[u].value[r] \in Nat BY <1>0 DEF Scan
<1>6. CASE ~Recorded(s, r)
  <2>1. actions'[r] = actions[r] /\ latest'[r] = latest[r] /\ cooling'[r] = cooling[r]
    BY <1>6 DEF Commit, AbandonedTypeOK
  <2>2. overlaps'[r] \in Nat /\ overlaps'[r] >= overlaps[r] BY <1>0 DEF Commit
  <2>3. \A u \in Scans : Alone(u, r)' => Reliable(u, r)'
    BY <1>0, <1>4, <1>5, <2>1, <2>2 DEF Bounded, Reliable
  <2> QED BY <1>0, <1>4, <2>1, <2>2, <2>3 DEF Bounded
<1>7. CASE Recorded(s, r) /\ r \notin scan[s].beside
  <2>1. Alone(s, r) BY <1>7 DEF Alone, DealsWith, Recorded
  <2>2. Reliable(s, r) BY <2>1 DEF Bounded
  <2>3. actions'[r] = actions[r] + 1 /\ overlaps'[r] = overlaps[r] BY <1>7 DEF Commit
  <2>4. latest'[r] \in Nat /\ latest'[r] >= scan[s].value[r] BY <1>0, <1>5, <1>7 DEF Commit
  <2>5. \A u \in Scans : ~Alone(u, r)' BY <1>4, <2>1 DEF Bounded
  <2>6. actions[r] + 1 <= scan[s].value[r] + overlaps[r] BY <1>7, <2>2 DEF Reliable
  <2>7. actions'[r] <= latest'[r] + overlaps'[r] BY <1>0, <1>5, <2>3, <2>4, <2>6
  <2>8. actions'[r] <= MAX_RECOVERY_ATTEMPTS + overlaps'[r] BY <2>2, <2>3 DEF Reliable
  <2> QED BY <2>5, <2>7, <2>8 DEF Bounded
<1>8. CASE Recorded(s, r) /\ r \in scan[s].beside
  <2>1. actions'[r] = actions[r] + 1 /\ overlaps'[r] = overlaps[r] + 1 BY <1>8 DEF Commit
  <2>2. latest'[r] \in Nat /\ latest'[r] >= latest[r] BY <1>0, <1>5 DEF Commit
  <2>3. \A u \in Scans : Alone(u, r)' => Reliable(u, r)'
    BY <1>0, <1>4, <1>5, <2>1 DEF Bounded, Reliable
  <2>4. /\ actions'[r] <= MAX_RECOVERY_ATTEMPTS + overlaps'[r]
        /\ actions'[r] <= latest'[r] + overlaps'[r]
    BY <1>0, <2>1, <2>2 DEF Bounded
  <2> QED BY <1>4, <2>3, <2>4 DEF Bounded
<1> QED BY <1>6, <1>7, <1>8

LEMMA BoundedStep ==
    ASSUME AbandonedTypeOK, AllBounded, [Next]_vars
    PROVE AllBounded'
<1> SUFFICES ASSUME NEW r \in Reviews PROVE Bounded(r)'
  BY DEF AllBounded
<1>0. Bounded(r) BY DEF AllBounded
<1>1. ASSUME NEW s \in Scans, ScanStep(s) PROVE Bounded(r)'
  BY <1>0, <1>1, CheckBounded, ActBounded, ClearBounded, CommitBounded DEF ScanStep
<1>2. CASE UNCHANGED <<actions, latest, scan, overlaps>> /\ (cooling'[r] => cooling[r])
  BY <1>0, <1>2, QuietStep DEF Alone, DealsWith, Recorded
<1>3. ASSUME NEW q \in Reviews, RequestStep(q) \/ TimeStep(q)
      PROVE UNCHANGED <<actions, latest, scan, overlaps>> /\ (cooling'[r] => cooling[r])
  BY <1>3 DEF RequestStep, Work, Escalate, TimeStep, Ages, Idles, CooldownEnds, ledger,
              AbandonedTypeOK
<1>4. CASE UNCHANGED vars BY <1>2, <1>4 DEF vars
<1> QED BY <1>1, <1>2, <1>3, <1>4 DEF Next

LEMMA AlwaysBounded == Spec => [](AbandonedTypeOK /\ AllBounded)
<1>1. AbandonedTypeOK /\ AllBounded /\ [Next]_vars => AllBounded' BY BoundedStep
<1> QED BY <1>1, InitBounded, AbandonedTypeCorrect, PTL DEF Spec

\* MAX_RECOVERY_ATTEMPTS bounds the actions about a review, with one more for
\* each that was checked beside another scan, for every number of scans.
THEOREM ActionsAreBounded == Spec => []ActionsBounded
<1>1. AllBounded => ActionsBounded BY DEF AllBounded, Bounded, ActionsBounded
<1> QED BY <1>1, AlwaysBounded, PTL

\* The cooldown keeps the scans that do not overlap from a second action, for
\* every number of scans.
THEOREM CooldownIsKept == Spec => CooldownHolds
<1> DEFINE Kept == \A r \in Reviews : cooling[r] /\ actions'[r] > actions[r] => overlaps'[r] > 0
<1>1. AbandonedTypeOK /\ AllBounded /\ [Next]_vars => [Kept]_vars
  <2> SUFFICES ASSUME AbandonedTypeOK, AllBounded, Next, NEW r \in Reviews,
                      cooling[r], actions'[r] > actions[r]
               PROVE overlaps'[r] > 0
    OBVIOUS
  <2>0. actions[r] \in Nat /\ overlaps[r] \in Nat BY DEF AbandonedTypeOK
  <2>1. actions'[r] # actions[r] BY <2>0
  <2>2. PICK s \in Scans : Commit(s) /\ Recorded(s, r)
    BY <2>1 DEF Next, ScanStep, RequestStep, TimeStep, Begin, Check, Act, Rollback, Commit,
                Work, Escalate, Ages, Idles, CooldownEnds, ledger, AbandonedTypeOK
  <2>3. CASE r \in scan[s].beside
    <3>1. overlaps'[r] = overlaps[r] + 1 BY <2>2, <2>3 DEF Commit
    <3> QED BY <2>0, <3>1
  <2>4. CASE r \notin scan[s].beside
    <3>1. Alone(s, r) BY <2>2, <2>4 DEF Alone, DealsWith, Recorded
    <3>2. overlaps[r] > 0 BY <3>1 DEF AllBounded, Bounded, Reliable
    <3>3. overlaps'[r] = overlaps[r] BY <2>2, <2>4 DEF Commit
    <3> QED BY <3>2, <3>3
  <2> QED BY <2>3, <2>4
<1>2. Spec => [][Kept]_vars BY <1>1, AlwaysBounded, PTL DEF Spec
<1> QED BY <1>2 DEF CooldownHolds
=============================================================================
