--------------------------- MODULE ReviewLifecycle ---------------------------
(***************************************************************************)
(* One contract review, the requests that act on it and the analyses that  *)
(* replace its findings.  A request runs in one of several API processes:  *)
(* it takes an OperationLock of its process, looks for its own audit       *)
(* event, reads the review, and keeps that copy (expire_on_commit is FALSE *)
(* and the session's identity map never re-reads) for every later check;   *)
(* its UPDATE waits for the row lock, overwrites the row by its id, and    *)
(* is committed by get_db after the handler has returned, that is after    *)
(* the OperationLock is released.                                          *)
(*                                                                         *)
(* An exception anywhere rolls the request back (GiveUp): every refusal    *)
(* is therefore a guard here, and the refused request may give up.         *)
(***************************************************************************)
EXTENDS ReviewStatuses, Sequences

CONSTANTS
    Client,        \* the senders of requests, each with one request at a time
    Process,       \* the API processes
    User,          \* who the requests act for
    Analyst,       \* the Celery workers that run analyze_contract
    Reason,        \* reasons of escalations, as far as their locks tell them apart
    Request,       \* the requests that are sent
    MaxRequests,   \* bound: requests sent in all
    MaxAnalyses,   \* bound: analyses asked for by POST /ai/analyze
    LocksExpire,   \* TRUE: a request may outlive the 30 seconds of its lock
    Serial         \* TRUE: nothing overlaps (what a lock on the row read would give)

AdvanceAction ==
    {"legal_review", "procurement_review", "security_review", "approved", "rejected",
     "archived", "in_review", "escalated", "finalized", "exec_approval", "executed"}
Stage == {"none", "legal_approval", "exec_approval", "compliance"}

\* Every request that changes the status, the approvals, the final version or
\* the findings: POST /status, /workflow/advance, /assign (and the routing
\* rules), /escalate, /approve, /bulk/approve, /finalize, /re-analyze, and the
\* resolution of a finding.  /bulk/assign and /bulk/escalate do to each review
\* what /assign and /escalate do, as far as what is modelled goes.
AnyRequest ==
    [op : {"status"}, arg : WorkflowState] \cup
    [op : {"advance"}, arg : AdvanceAction] \cup
    [op : {"assign"}, arg : {"reviewer", "legal_ops"}] \cup
    [op : {"escalate"}, arg : Stage] \cup
    [op : {"decide", "bulk"}, arg : Decision] \cup
    [op : {"finalize", "reanalyze", "resolve"}, arg : {"none"}]

ASSUME RequestAssumption == Request \subseteq AnyRequest
ASSUME ReasonAssumption == "none" \notin Reason
ASSUME BoundAssumption == MaxRequests \in Nat /\ MaxAnalyses \in Nat
ASSUME FlagAssumption == LocksExpire \in BOOLEAN /\ Serial \in BOOLEAN

VARIABLES
    status,     \* contract_reviews.status
    recorded,   \* the decisions among the to_status of review_status_history
    approvals,  \* the decisions of review_approvals, in order
    audit,      \* who decided what, by governance_audit_events
    versions,   \* the last final version number in contract_document_versions
    findings,   \* the run the findings come from; is a critical or high one open
    locks,      \* OperationLock._locks of every process
    client,     \* what each client's request is doing
    analyst,    \* the status each analysis in progress has read
    queue,      \* messages of analyze_contract waiting
    started,    \* requests sent so far
    asked       \* analyses asked for so far

row   == <<status, recorded, approvals, audit, versions, findings>>
count == <<started, asked>>
vars  == <<row, locks, client, analyst, queue, count>>

\* The statuses a review is stored under between two transactions: the others
\* are mapped before they are written, or written over in the same transaction.
StoredStatus ==
    ReviewStatus \ {"ai_reviewed", "review_ready", "negotiation", "changes_requested",
                    "pending_approval", "closed"}
Undecided == StoredStatus \ Immutable

Key == {"approve", "reject", "finalize"} \cup Reason
NoRequest == [op |-> "none", arg |-> "none"]
IdleClient ==
    [pc |-> "idle", req |-> NoRequest, user |-> "none", proc |-> "none", key |-> "none",
     seen |-> "none", run |-> 0, version |-> 0]
InProgress(c) == client[c].pc # "idle"

\* An UPDATE of the review blocks while another transaction that has written it
\* is open; that transaction has its row lock until it commits.
RowFree == \A c \in Client : client[c].pc \notin {"publish", "commit"}

\* With Serial a request or an analysis starts when no other is in progress.
Alone == Serial => /\ \A c \in Client : ~InProgress(c)
                   /\ \A a \in Analyst : analyst[a] = "idle"

-----------------------------------------------------------------------------
(* What a request does with the status s it has read.                      *)

Decides(r) == r.op \in {"decide", "bulk"}
ApprovesFully(r) == Decides(r) /\ r.arg = "approved"

\* The status of the copy when the request's own transition is checked:
\* assignment moves an AI_ANALYZED review to REVIEW_READY first, and
\* advance_workflow assigns one, which leaves it IN_REVIEW.
Base(r, s) ==
    CASE s = "ai_analyzed" /\ r.op = "assign"  -> "review_ready"
      [] s = "ai_analyzed" /\ r.op = "advance" -> "in_review"
      [] OTHER -> s

Target(r, s) ==
    CASE r.op = "status"    -> to_db_status(r.arg)
      [] r.op = "advance"   -> to_db_status(map_legacy_status(ActionStatus(r.arg)))
      [] r.op = "assign"    -> IF Base(r, s) = "review_ready" THEN "in_review" ELSE "legal_approval"
      [] r.op = "escalate"  -> EscalationStatus(r.arg)
      [] Decides(r)         -> DecisionStatus(r.arg)
      [] r.op = "finalize"  -> "finalized"
      [] r.op = "reanalyze" -> "draft"
      [] OTHER -> s

\* The guards at the head of each handler.  An assignment that moves nothing
\* and an action whose status is reached already change nothing modelled here.
Admits(r, s) ==
    CASE r.op = "status"   -> r.arg \in workflow_transitions[map_legacy_status(s)]
      [] r.op = "advance"  -> /\ s # ActionStatus(r.arg)
                              /\ map_legacy_status(ActionStatus(r.arg))
                                   \in workflow_transitions[map_legacy_status(Base(r, s))]
      [] r.op = "assign"   -> /\ guard_mutable(s)
                              /\ \/ Base(r, s) = "review_ready"
                                 \/ s = "escalated" /\ r.arg = "legal_ops"
      [] Decides(r)        -> map_legacy_status(s) \in Decidable
      [] r.op = "finalize" -> "finalized" \in workflow_transitions[map_legacy_status(s)]
      [] OTHER             -> guard_mutable(s)

\* ReviewRepository.update_status: the transition is checked on the copy.
\* Re-analysis writes the status itself, a resolution writes none.
Legal(r, s) ==
    r.op \in {"reanalyze", "resolve"} \/ Target(r, s) \in review_transitions[Base(r, s)]

\* Defect: without uq_single_approval_per_review.
ConflictUnindexed(c) ==
    LET r == client[c].req IN
    \/ r.op = "finalize" /\ client[c].version \in 1 .. versions
    \/ r.op = "resolve" /\ client[c].run # findings.run

\* What the database refuses: a second full approval (uq_single_approval_per_
\* review), a version number in use (uq_version_per_review), a finding that an
\* analysis has deleted.
Conflict(c) ==
    LET r == client[c].req IN
    \/ ApprovesFully(r) /\ \E i \in DOMAIN approvals : approvals[i] = "approved"
    \/ r.op = "finalize" /\ client[c].version \in 1 .. versions
    \/ r.op = "resolve" /\ client[c].run # findings.run

KeysOf(r) ==
    CASE ApprovesFully(r)     -> {"approve"}
      [] Decides(r)           -> {"reject"}
      [] r.op = "finalize"    -> {"finalize"}
      [] r.op = "escalate"    -> Reason
      [] OTHER                -> {"none"}

\* IdempotencyService.is_duplicate of approve: the operation of a conditional
\* approval is "reject", and its own event is neither approved nor rejected.
IsDuplicate(r, u) ==
    /\ Decides(r)
    /\ <<IF ApprovesFully(r) THEN "approved" ELSE "rejected", u>> \in audit

Without(p, k) == locks \ {<<p, k>>}

-----------------------------------------------------------------------------
(* A request.                                                              *)

\* It takes its lock, or finds none held, and is not a repetition.
Begin(c, r, u, p, k) ==
    /\ ~InProgress(c) /\ Alone /\ started < MaxRequests
    /\ k \in KeysOf(r)
    /\ k # "none" => <<p, k>> \notin locks \/ LocksExpire
    /\ ~IsDuplicate(r, u)
    /\ locks' = IF k = "none" THEN locks ELSE locks \cup {<<p, k>>}
    /\ client' = [client EXCEPT ![c] = [IdleClient EXCEPT
                     !.pc = "read", !.req = r, !.user = u, !.proc = p, !.key = k]]
    /\ started' = started + 1
    /\ UNCHANGED <<row, analyst, queue, asked>>

AfterRead(r) ==
    IF ApprovesFully(r) THEN "count" ELSE IF r.op = "finalize" THEN "generate" ELSE "write"

\* get_review, and the guard at the head of the handler.
Read(c) ==
    /\ client[c].pc = "read"
    /\ Admits(client[c].req, status)
    /\ client' = [client EXCEPT ![c].seen = status, ![c].run = findings.run,
                                ![c].pc = AfterRead(client[c].req)]
    /\ UNCHANGED <<row, locks, analyst, queue, count>>

\* Defect: the open findings are not counted.
CountAnything(c) ==
    /\ client[c].pc = "count"
    /\ client' = [client EXCEPT ![c].run = findings.run, ![c].pc = "write"]
    /\ UNCHANGED <<row, locks, analyst, queue, count>>

\* A full approval counts the open critical and high findings: there is none.
CountOpen(c) ==
    /\ client[c].pc = "count"
    /\ ~findings.open
    /\ client' = [client EXCEPT ![c].run = findings.run, ![c].pc = "write"]
    /\ UNCHANGED <<row, locks, analyst, queue, count>>

\* create_finalized_version: the next version number, or no version at all
\* when the document cannot be generated.
Generate(c) ==
    /\ client[c].pc = "generate"
    /\ \E v \in {0, versions + 1} :
          client' = [client EXCEPT ![c].version = v, ![c].pc = "write"]
    /\ UNCHANGED <<row, locks, analyst, queue, count>>

\* Defect: approve catches the refused transition as bulk_approve does.
WriteRegardless(c) ==
    /\ client[c].pc = "write" /\ RowFree /\ ~Conflict(c)
    /\ client' = [client EXCEPT ![c].key = "none",
                     ![c].pc = IF client[c].req.op = "reanalyze" THEN "publish" ELSE "commit"]
    /\ locks' = Without(client[c].proc, client[c].key)
    /\ UNCHANGED <<row, analyst, queue, count>>

\* The INSERTs and the UPDATE are sent and the handler returns.  bulk_approve
\* catches the refused transition of a review and goes on with its session.
Write(c) ==
    /\ client[c].pc = "write"
    /\ RowFree
    /\ Legal(client[c].req, client[c].seen) \/ client[c].req.op = "bulk"
    /\ ~Conflict(c)
    /\ client' = [client EXCEPT ![c].key = "none",
                     ![c].pc = IF client[c].req.op = "reanalyze" THEN "publish" ELSE "commit"]
    /\ locks' = Without(client[c].proc, client[c].key)
    /\ UNCHANGED <<row, analyst, queue, count>>

\* re_analyze publishes the analysis before its transaction commits.
Publish(c) ==
    /\ client[c].pc = "publish"
    /\ client' = [client EXCEPT ![c].pc = "commit"]
    /\ queue' = queue + 1
    /\ UNCHANGED <<row, locks, analyst, count>>

\* What the commit of a request makes visible: the status and its history.
Commits(c) ==
    /\ client[c].pc = "commit"
    /\ client' = [client EXCEPT ![c] = IdleClient]
    /\ UNCHANGED <<locks, analyst, queue, count>>
\* Defect: the status is written without its history, as re_analyze could do.
MovesUnrecorded(c) ==
    /\ status' = Target(client[c].req, client[c].seen)
    /\ UNCHANGED recorded
Moves(c) ==
    LET to == Target(client[c].req, client[c].seen) IN
    /\ status' = to
    /\ recorded' = recorded \cup ({to} \cap {"approved", "rejected"})

CommitMove(c) ==
    /\ Commits(c)
    /\ client[c].req.op \in {"status", "advance", "assign", "escalate", "reanalyze"}
    /\ Moves(c)
    /\ UNCHANGED <<approvals, audit, versions, findings>>

CommitDecision(c) ==
    /\ Commits(c)
    /\ Decides(client[c].req) /\ Legal(client[c].req, client[c].seen)
    /\ Moves(c)
    /\ approvals' = Append(approvals, client[c].req.arg)
    /\ audit' = audit \cup {<<client[c].req.arg, client[c].user>>}
    /\ UNCHANGED <<versions, findings>>

\* bulk_approve commits the approval whose transition was refused.
CommitApprovalAlone(c) ==
    /\ Commits(c)
    /\ Decides(client[c].req) /\ ~Legal(client[c].req, client[c].seen)
    /\ approvals' = Append(approvals, client[c].req.arg)
    /\ UNCHANGED <<status, recorded, audit, versions, findings>>

CommitFinal(c) ==
    /\ Commits(c)
    /\ client[c].req.op = "finalize"
    /\ Moves(c)
    /\ versions' = IF client[c].version = 0 THEN versions ELSE client[c].version
    /\ UNCHANGED <<approvals, audit, findings>>

\* The last open critical or high finding is resolved.
CommitResolution(c) ==
    /\ Commits(c)
    /\ client[c].req.op = "resolve"
    /\ findings' = [findings EXCEPT !.open = FALSE]
    /\ UNCHANGED <<status, recorded, approvals, audit, versions>>

\* Defect: the lock is not released in a "finally".
GiveUpLocked(c) ==
    /\ InProgress(c)
    /\ client' = [client EXCEPT ![c] = IdleClient]
    /\ UNCHANGED <<row, locks, analyst, queue, count>>

\* A guard refuses, a query fails, the client disconnects: get_db rolls back,
\* and "finally" releases the lock.
GiveUp(c) ==
    /\ InProgress(c)
    /\ client' = [client EXCEPT ![c] = IdleClient]
    /\ locks' = Without(client[c].proc, client[c].key)
    /\ UNCHANGED <<row, analyst, queue, count>>

\* An API process dies with the requests it was serving and its locks.
Crash(p) ==
    /\ \E c \in Client : InProgress(c) /\ client[c].proc = p
    /\ client' = [c \in Client |-> IF client[c].proc = p THEN IdleClient ELSE client[c]]
    /\ locks' = {l \in locks : l[1] # p}
    /\ UNCHANGED <<row, analyst, queue, count>>

-----------------------------------------------------------------------------
(* The analyses.                                                           *)

\* POST /ai/analyze/{upload_id} asks for one, whatever the review's status.
AskAnalysis ==
    /\ asked < MaxAnalyses
    /\ asked' = asked + 1
    /\ queue' = queue + 1
    /\ UNCHANGED <<row, locks, client, analyst, started>>

\* _populate_review_from_ai reads the review.
AnalysisReads(a) ==
    /\ analyst[a] = "idle" /\ queue > 0 /\ Alone
    /\ analyst' = [analyst EXCEPT ![a] = status]
    /\ queue' = queue - 1
    /\ UNCHANGED <<row, locks, client, count>>

\* It replaces every finding and moves a review it has read as DRAFT.
AnalysisCommits(a) ==
    /\ analyst[a] # "idle" /\ RowFree
    /\ \E open \in BOOLEAN : findings' = [run |-> findings.run + 1, open |-> open]
    /\ status' = IF analyst[a] = "draft" THEN "ai_analyzed" ELSE status
    /\ analyst' = [analyst EXCEPT ![a] = "idle"]
    /\ UNCHANGED <<recorded, approvals, audit, versions, locks, client, queue, count>>

\* It fails, and is retried or not; or its worker dies and the message returns.
AnalysisFails(a) ==
    /\ analyst[a] # "idle"
    /\ analyst' = [analyst EXCEPT ![a] = "idle"]
    /\ queue' \in {queue, queue + 1}
    /\ UNCHANGED <<row, locks, client, count>>

-----------------------------------------------------------------------------
\* A review in some status before any decision; earlier moves leave no trace.
Init ==
    /\ status \in Undecided
    /\ recorded = {} /\ approvals = <<>> /\ audit = {} /\ versions = 0
    /\ findings \in [run : {0}, open : BOOLEAN]
    /\ locks = {}
    /\ client = [c \in Client |-> IdleClient]
    /\ analyst = [a \in Analyst |-> "idle"]
    /\ queue = 0 /\ started = 0 /\ asked = 0

RequestStep(c) ==
    \/ \E r \in Request, u \in User, p \in Process, k \in Key \cup {"none"} : Begin(c, r, u, p, k)
    \/ Read(c) \/ CountOpen(c) \/ Generate(c) \/ Write(c) \/ Publish(c)
    \/ CommitMove(c) \/ CommitDecision(c) \/ CommitApprovalAlone(c)
    \/ CommitFinal(c) \/ CommitResolution(c) \/ GiveUp(c)
AnalysisStep(a) == AnalysisReads(a) \/ AnalysisCommits(a) \/ AnalysisFails(a)

Next ==
    \/ \E c \in Client : RequestStep(c)
    \/ \E p \in Process : Crash(p)
    \/ AskAnalysis
    \/ \E a \in Analyst : AnalysisStep(a)

Spec == Init /\ [][Next]_vars

-----------------------------------------------------------------------------
(* Properties.                                                             *)

ClientRecord ==
    [pc : {"idle", "read", "count", "generate", "write", "publish", "commit"},
     req : Request \cup {NoRequest}, user : User \cup {"none"},
     proc : Process \cup {"none"}, key : Key \cup {"none"},
     seen : StoredStatus \cup {"none"}, run : Nat, version : Nat]

\* Types; and that six of the statuses are never left in the row.
ReviewTypeOK ==
    /\ status \in StoredStatus
    /\ recorded \subseteq {"approved", "rejected"}
    /\ approvals \in Seq(Decision)
    /\ audit \subseteq Decision \X User
    /\ versions \in Nat
    /\ findings \in [run : Nat, open : BOOLEAN]
    /\ locks \subseteq Process \X Key
    /\ client \in [Client -> ClientRecord]
    /\ analyst \in [Analyst -> StoredStatus \cup {"idle"}]
    /\ queue \in Nat /\ started \in Nat /\ asked \in Nat

\* However the requests race and whatever they overwrite: a review that is
\* APPROVED, FINALIZED or EXECUTED, or that has a final version, was approved
\* by a transition on record in review_status_history.
ApprovedOnRecord ==
    status \in {"approved", "finalized", "executed"} \/ versions > 0
        => "approved" \in recorded

\* A review has at most one full approval, although its OperationLock excludes
\* neither other processes nor a request that outlives 30 seconds, and is
\* released before the approval is committed.
OneFullApproval ==
    \A i, j \in DOMAIN approvals :
        approvals[i] = "approved" /\ approvals[j] = "approved" => i = j

\* A lock in OperationLock._locks belongs to a request in progress in that
\* process: no refused, failed or overtaken request leaves the review locked.
NoOrphanLock ==
    \A l \in locks :
        \E c \in Client : InProgress(c) /\ client[c].proc = l[1] /\ client[c].key = l[2]

\* A full approval about to be committed has seen the findings it approves
\* without an open critical or high one, unless an analysis replaced them.
ApproverSawTheFindings ==
    \A c \in Client :
        /\ client[c].pc \in {"write", "commit"}
        /\ ApprovesFully(client[c].req)
        /\ client[c].run = findings.run
        => ~findings.open

\* Every approval or rejection of review_approvals has taken effect: the status
\* history has the status it stands for.
ApprovalsAreReal ==
    \A i \in DOMAIN approvals : DecisionStatus(approvals[i]) \in recorded

\* A review that is APPROVED, REJECTED, FINALIZED, EXECUTED or ARCHIVED is
\* moved only as the transitions of these statuses allow.
DecisionStands ==
    [][(status \in Immutable) => status' \in {status} \cup review_transitions[status]]_vars

\* Where a review stands, for ReviewDecision.
PhaseOf(s) == IF s \in Immutable THEN s ELSE "open"
Promise == INSTANCE ReviewDecision WITH phase <- PhaseOf(status), finals <- versions

\* When no request or analysis overlaps another (Serial), the two transition
\* tables and the guards of the handlers keep the promise of ReviewDecision: a
\* decision is final, and an approved review gets at most one final version.
KeepsThePromise == Promise!DecisionSpec
=============================================================================
