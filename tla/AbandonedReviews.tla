-------------------------- MODULE AbandonedReviews --------------------------
(***************************************************************************)
(* What the periodic recovery does to abandoned reviews                    *)
(* (app/workers/recovery.py), against the requests of the people who work  *)
(* on them.                                                                *)
(*                                                                         *)
(* recover_stuck_workflows lists the reviews nobody has touched for long   *)
(* enough; for each of them it reads recovery_actions, adds one to         *)
(* escalation_count and records that it did, all in one transaction (READ  *)
(* COMMITTED) that commits at the end.  Two entries of the beat schedule   *)
(* start it at the full hour, so that two scans may overlap.               *)
(*                                                                         *)
(* Between two statements others commit.  A row that was updated is locked *)
(* until its transaction ends, and a scan that updates a locked row waits. *)
(* The list is taken whole: its LIMIT of 20 is above the number of reviews *)
(* here.  Priorities and tiers are left out, nothing below depends on      *)
(* them.  manual, since and overlaps count for the properties alone.       *)
(***************************************************************************)
EXTENDS Integers

CONSTANTS Reviews,
          Scans,                 \* workers that may run the task at one time
          MAX_RECOVERY_ATTEMPTS, \* 3 in the code
          MAX_ESCALATION_COUNT,  \* 5 in the code
          Worked,                \* bound: the reviews that requests touch
          MaxManual              \* bound: escalations by hand, of one review

ASSUME LimitsAssumption ==
    /\ MAX_RECOVERY_ATTEMPTS \in Nat \ {0}
    /\ MAX_ESCALATION_COUNT \in Nat
    /\ Worked \subseteq Reviews
    /\ MaxManual \in Nat

VARIABLES review,    \* the contract_reviews row
          actions,   \* rows of recovery_actions about the review
          latest,    \* escalation_count of the latest of them
          cooling,   \* cooldown_until of the latest is ahead
          scan,      \* the scan each worker is in the middle of
          manual,    \* escalations by hand
          since,     \* escalations by the recovery since the last one by hand
          overlaps   \* actions whose check was made beside another scan's

vars == <<review, actions, latest, cooling, scan, manual, since, overlaps>>
ledger == <<actions, latest, cooling, overlaps>>

\* "review" is every status between the analysis and the decision; "closed"
\* the six statuses that no query lists.
Stage == {"draft", "ai_analyzed", "review", "closed"}

\* aged: created_at is past the threshold of drafts; idle: updated_at is past
\* the threshold of the other stages
Row == [stage : Stage, assigned : BOOLEAN, aged : BOOLEAN, idle : BOOLEAN,
        escalation_count : Nat]

\* What a scan does about a review: nothing, an escalation, or, past
\* MAX_ESCALATION_COUNT, a row of recovery_actions and no more.
Measure == {"none", "bumped", "capped"}

\* todo: listed and not dealt with; checked: past the check, before the writes;
\* beside: checked while another scan was dealing with the review too; plan:
\* what the rows as they were listed call for; written: what was done and is not
\* committed; value: the count it recorded
Scan == [running : BOOLEAN, todo : SUBSET Reviews, checked : SUBSET Reviews,
         beside : SUBSET Reviews, plan : [Reviews -> Measure],
         written : [Reviews -> Measure], value : [Reviews -> Nat]]

Nothing == [r \in Reviews |-> "none"]

NoScan == [running |-> FALSE, todo |-> {}, checked |-> {}, beside |-> {},
           plan |-> Nothing, written |-> Nothing, value |-> [r \in Reviews |-> 0]]

Init ==
    /\ review = [r \in Reviews |->
           [stage |-> "draft", assigned |-> FALSE, aged |-> FALSE, idle |-> FALSE,
            escalation_count |-> 0]]
    /\ actions = [r \in Reviews |-> 0]
    /\ latest = [r \in Reviews |-> 0]
    /\ cooling = [r \in Reviews |-> FALSE]
    /\ scan = [s \in Scans |-> NoScan]
    /\ manual = [r \in Reviews |-> 0]
    /\ since = [r \in Reviews |-> 0]
    /\ overlaps = [r \in Reviews |-> 0]

-----------------------------------------------------------------------------
(* The scan. *)

\* _find_abandoned_reviews: its three queries
Abandoned(r) ==
    /\ ~cooling[r]
    /\ \/ review[r].stage = "draft" /\ review[r].aged
       \/ review[r].stage = "ai_analyzed" /\ ~review[r].assigned /\ review[r].idle
       \/ review[r].stage # "closed" /\ review[r].assigned /\ review[r].idle

\* mutant: the branch by the name of the recorded action
PlanByName(row) ==
    IF row.escalation_count >= MAX_ESCALATION_COUNT THEN "max_escalation_reached" ELSE "bumped"

\* the branch of _flag_abandoned_review, taken on the row as it was listed
Plan(row) == IF row.escalation_count >= MAX_ESCALATION_COUNT THEN "capped" ELSE "bumped"

Begin(s) ==
    LET found == {r \in Reviews : Abandoned(r)}
    IN  /\ ~scan[s].running
        /\ found # {}
        /\ scan' = [scan EXCEPT ![s] =
               [NoScan EXCEPT !.running = TRUE, !.todo = found,
                   !.plan = [r \in Reviews |-> IF r \in found THEN Plan(review[r]) ELSE "none"]]]
        /\ UNCHANGED <<review, ledger, manual, since>>

\* mutants: an attempt too many; only the list minds the cooldown
MaySkipLate(r) == cooling[r] \/ latest[r] > MAX_RECOVERY_ATTEMPTS
MaySkipCooled(r) == latest[r] >= MAX_RECOVERY_ATTEMPTS

\* _check_cooldown_and_escalation: skipped
MaySkip(r) == cooling[r] \/ latest[r] >= MAX_RECOVERY_ATTEMPTS

\* scan u is between the check and the commit of r
DealsWith(u, r) == r \in scan[u].checked \/ scan[u].written[r] # "none"

Check(s) ==
    /\ scan[s].checked = {}
    /\ \E r \in scan[s].todo :
         \/ /\ MaySkip(r)
            /\ scan' = [scan EXCEPT ![s].todo = @ \ {r}, ![s].plan[r] = "none"]
         \/ /\ ~MaySkip(r)
            /\ scan' = [scan EXCEPT ![s].todo = @ \ {r}, ![s].checked = {r},
                   ![s].beside = IF \E u \in Scans \ {s} : DealsWith(u, r)
                                 THEN @ \cup {r} ELSE @]
    /\ UNCHANGED <<review, ledger, manual, since>>

\* scan s has updated the row of r, and holds its lock
Bumps(s, r) == scan[s].written[r] = "bumped"

\* The UPDATE of _flag_abandoned_review and _record_recovery_action, which counts
\* the rows that are committed once it has the lock.
Act(s) ==
    /\ \E r \in scan[s].checked :
         /\ scan[s].plan[r] = "bumped" => \A u \in Scans \ {s} : ~Bumps(u, r)
         /\ scan' = [scan EXCEPT ![s].checked = {}, ![s].plan[r] = "none",
                                 ![s].written[r] = scan[s].plan[r],
                                 ![s].value[r] = actions[r] + 1]
    /\ UNCHANGED <<review, ledger, manual, since>>

\* A statement fails, a lock_timeout, the victim of a deadlock, a crash: nothing
\* of the scan remains.
Rollback(s) ==
    /\ scan[s].running
    /\ scan' = [scan EXCEPT ![s] = NoScan]
    /\ UNCHANGED <<review, ledger, manual, since>>

\* mutant: drafts are flagged and not counted
UpdatedButDrafts(row) ==
    [row EXCEPT !.escalation_count = IF row.stage = "draft" THEN @ ELSE @ + 1, !.idle = FALSE]

Updated(row) == [row EXCEPT !.escalation_count = @ + 1, !.idle = FALSE]

Recorded(s, r) == scan[s].written[r] # "none"

Commit(s) ==
    /\ scan[s].running
    /\ scan[s].todo = {} /\ scan[s].checked = {}
    /\ review' = [r \in Reviews |-> IF Bumps(s, r) THEN Updated(review[r]) ELSE review[r]]
    /\ since' = [r \in Reviews |-> IF Bumps(s, r) THEN since[r] + 1 ELSE since[r]]
    /\ actions' = [r \in Reviews |-> IF Recorded(s, r) THEN actions[r] + 1 ELSE actions[r]]
    /\ latest' = [r \in Reviews |-> IF Recorded(s, r) /\ scan[s].value[r] > latest[r]
                                    THEN scan[s].value[r] ELSE latest[r]]
    /\ cooling' = [r \in Reviews |-> cooling[r] \/ Recorded(s, r)]
    /\ overlaps' = [r \in Reviews |-> IF r \in scan[s].beside THEN overlaps[r] + 1 ELSE overlaps[r]]
    /\ scan' = [scan EXCEPT ![s] = NoScan]
    /\ UNCHANGED manual

-----------------------------------------------------------------------------
(* Requests, which ReviewLifecycle takes step by step; here each is one    *)
(* transaction, and waits for the lock of a scan.  It has read the row     *)
(* before, perhaps before others wrote it, so that any stage may follow    *)
(* any other: a stale request overwrites a closed review.                  *)

Writable(r) == r \in Worked /\ \A s \in Scans : ~Bumps(s, r)

\* Any request but escalate, an analysis, an assignment, a decision..., and
\* check_sla_overdue, which touches the row and leaves the stage alone.  A review
\* that is to be analysed again becomes a draft again.
Work(r) ==
    /\ Writable(r)
    /\ \E stage \in Stage, assigned \in BOOLEAN :
         /\ review[r].assigned => assigned
         /\ review' = [review EXCEPT ![r] =
                [@ EXCEPT !.stage = stage, !.assigned = assigned, !.idle = FALSE]]
    /\ UNCHANGED <<ledger, scan, manual, since>>

\* the repository stores a number of escalations by hand, the service adds one;
\* whatever the target, the status it writes is one of a review in progress
Escalated(row, n) ==
    [row EXCEPT !.stage = "review", !.escalation_count = n + 1, !.idle = FALSE]

\* What has been read allows it: a review in progress or, to compliance, an
\* analysed one.  What it overwrites may be any stage by then, a new draft too;
\* that the first draft cannot be escalated is left out.  The number is counted
\* before the row is locked: its own, and those of the others that had committed
\* by then (the OperationLock of an escalation is one for each reason).
Escalate(r) ==
    /\ Writable(r)
    /\ manual[r] < MaxManual
    /\ manual' = [manual EXCEPT ![r] = @ + 1]
    /\ since' = [since EXCEPT ![r] = 0]
    /\ \E n \in 1..manual[r] + 1, assigned \in BOOLEAN :
         review' = [review EXCEPT ![r] =
             [Escalated(@, n) EXCEPT !.assigned = review[r].assigned \/ assigned]]
    /\ UNCHANGED <<ledger, scan>>

-----------------------------------------------------------------------------
(* Time: a threshold passes, where a query looks at it; a cooldown ends.   *)

Ages(r) ==
    /\ review[r].stage = "draft" /\ ~review[r].aged
    /\ review' = [review EXCEPT ![r].aged = TRUE]
    /\ UNCHANGED <<ledger, scan, manual, since>>

Idles(r) ==
    /\ review[r].stage # "closed" /\ ~review[r].idle
    /\ review[r].stage # "draft" \/ review[r].assigned
    /\ review' = [review EXCEPT ![r].idle = TRUE]
    /\ UNCHANGED <<ledger, scan, manual, since>>

CooldownEnds(r) ==
    /\ cooling[r]
    /\ cooling' = [cooling EXCEPT ![r] = FALSE]
    /\ UNCHANGED <<review, actions, latest, scan, manual, since, overlaps>>

ScanStep(s) == Begin(s) \/ Check(s) \/ Act(s) \/ Rollback(s) \/ Commit(s)
RequestStep(r) == Work(r) \/ Escalate(r)
TimeStep(r) == Ages(r) \/ Idles(r) \/ CooldownEnds(r)

Next ==
    \/ \E s \in Scans : ScanStep(s)
    \/ \E r \in Reviews : RequestStep(r) \/ TimeStep(r)

Spec == Init /\ [][Next]_vars

-----------------------------------------------------------------------------
(* Properties. *)

\* Every field has a value the program can give it.
AbandonedTypeOK ==
    /\ review \in [Reviews -> Row]
    /\ actions \in [Reviews -> Nat]
    /\ latest \in [Reviews -> Nat]
    /\ cooling \in [Reviews -> BOOLEAN]
    /\ scan \in [Scans -> Scan]
    /\ manual \in [Reviews -> Nat]
    /\ since \in [Reviews -> Nat]
    /\ overlaps \in [Reviews -> Nat]

\* what escalation_count holds besides the recovery's escalations since the
\* last one by hand
ByHand(r) == review[r].escalation_count - since[r]

\* escalation_count loses no escalation of the recovery that follows the last
\* one by hand, though two scans and the requests write it at the same time.
\* The rest is nothing before the first escalation by hand and then at least
\* two (the service adds one to what the repository has counted) and at most one
\* more than there were: those that raced may not have counted each other.
EscalationsAccounted ==
    \A r \in Reviews :
        IF manual[r] = 0 THEN ByHand(r) = 0 ELSE ByHand(r) \in 2..manual[r] + 1

\* The recovery gives a review up after MAX_RECOVERY_ATTEMPTS, but for scans
\* that overlapped: each action checked beside another scan may be one more.
ActionsBounded == \A r \in Reviews : actions[r] <= MAX_RECOVERY_ATTEMPTS + overlaps[r]

\* "After a recovery action is taken on an entity, no further recovery actions
\* will be taken on that same entity within the cooldown window": so it is,
\* unless two scans dealt with the review at one time.
CooldownHolds ==
    [][\A r \in Reviews : cooling[r] /\ actions'[r] > actions[r] => overlaps'[r] > 0]_vars
=============================================================================
