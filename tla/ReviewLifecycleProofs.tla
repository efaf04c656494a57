------------------------ MODULE ReviewLifecycleProofs ------------------------
(***************************************************************************)
(* Proofs about ReviewLifecycle, for any clients, processes, users,        *)
(* analysts, requests and bounds, with the expiry of locks and without:    *)
(* its types, and the safety properties that survive every race of         *)
(* requests which write from stale copies.  On top of TypeInv there are    *)
(* four independent inductive invariants: what the copies prove, what the  *)
(* row lock and the unique index prove, what the locks belong to, and how  *)
(* old the findings are.                                                   *)
(***************************************************************************)
EXTENDS ReviewLifecycle, TLAPS

-----------------------------------------------------------------------------
(* The statuses.                                                           *)

\* A workflow state is stored under a stored status.
LEMMA StoredTarget ==
    ASSUME NEW w \in WorkflowState
    PROVE  to_db_status(w) \in StoredStatus
BY DEF WorkflowState, to_db_status, StoredStatus, ReviewStatus

\* Every stored status stands for a workflow state.
LEMMA LegacyState ==
    ASSUME NEW s \in StoredStatus
    PROVE  map_legacy_status(s) \in WorkflowState
BY DEF WorkflowState, map_legacy_status, StoredStatus, ReviewStatus

\* An action asks for a workflow state.
LEMMA ActionState ==
    ASSUME NEW a \in AdvanceAction
    PROVE  map_legacy_status(ActionStatus(a)) \in WorkflowState
BY DEF AdvanceAction, ActionStatus, WorkflowState, map_legacy_status

\* The fields of a request, by its operation.
LEMMA RequestFields ==
    ASSUME NEW r \in Request
    PROVE  /\ r.op \in {"status", "advance", "assign", "escalate", "decide", "bulk",
                        "finalize", "reanalyze", "resolve"}
           /\ r.op = "status" => r.arg \in WorkflowState
           /\ r.op = "advance" => r.arg \in AdvanceAction
           /\ Decides(r) => r.arg \in Decision
BY RequestAssumption DEF AnyRequest, Decides

\* Whatever a request writes is stored.
LEMMA TargetType ==
    ASSUME NEW r \in Request, NEW s \in StoredStatus
    PROVE  Target(r, s) \in StoredStatus
<1>1. CASE r.op = "status"
  <2>1. r.arg \in WorkflowState
    BY <1>1, RequestFields
  <2>2. Target(r, s) = to_db_status(r.arg)
    BY <1>1 DEF Target, Decides
  <2> QED
    BY <2>1, <2>2, StoredTarget
<1>2. CASE r.op = "advance"
  <2>1. map_legacy_status(ActionStatus(r.arg)) \in WorkflowState
    BY <1>2, RequestFields, ActionState
  <2>2. Target(r, s) = to_db_status(map_legacy_status(ActionStatus(r.arg)))
    BY <1>2 DEF Target, Decides
  <2> QED
    BY <2>1, <2>2, StoredTarget
<1>3. CASE r.op \in {"assign", "escalate", "decide", "bulk", "finalize", "reanalyze", "resolve"}
  BY <1>3 DEF Target, Decides, DecisionStatus, EscalationStatus, StoredStatus, ReviewStatus
<1> QED
  BY <1>1, <1>2, <1>3, RequestFields

-----------------------------------------------------------------------------
(* Types.                                                                  *)

\* A client without a request.
LEMMA IdleType == IdleClient \in ClientRecord
BY DEF IdleClient, ClientRecord

\* One lemma for each step: it keeps the types.
LEMMA TypeInit == Init => ReviewTypeOK
BY IdleType DEF Init, ReviewTypeOK, Undecided

LEMMA TypeBegin ==
    ASSUME ReviewTypeOK, NEW c \in Client, NEW r \in Request, NEW u \in User, NEW p \in Process,
           NEW k \in Key \cup {"none"}, Begin(c, r, u, p, k)
    PROVE  ReviewTypeOK'
<1>1. [IdleClient EXCEPT !.pc = "read", !.req = r, !.user = u, !.proc = p, !.key = k]
        \in ClientRecord
  BY DEF IdleClient, ClientRecord
<1>2. client' \in [Client -> ClientRecord]
  BY <1>1 DEF Begin, ReviewTypeOK
<1>3. locks' \subseteq Process \X Key
  BY DEF Begin, ReviewTypeOK
<1> QED
  BY <1>2, <1>3 DEF Begin, ReviewTypeOK, row

LEMMA TypeRead ==
    ASSUME ReviewTypeOK, NEW c \in Client, Read(c)
    PROVE  ReviewTypeOK'
<1>1. AfterRead(client[c].req) \in {"count", "generate", "write"}
  BY DEF AfterRead
<1>2. status \in StoredStatus /\ findings.run \in Nat
  BY DEF ReviewTypeOK
<1>3. client[c] \in ClientRecord
  BY DEF ReviewTypeOK
<1>4. [client[c] EXCEPT !.seen = status, !.run = findings.run, !.pc = AfterRead(client[c].req)]
        \in ClientRecord
  BY <1>1, <1>2, <1>3 DEF ClientRecord
<1>5. client' \in [Client -> ClientRecord]
  BY <1>4 DEF Read, ReviewTypeOK
<1> QED
  BY <1>5 DEF Read, ReviewTypeOK, row, count

LEMMA TypeCountOpen ==
    ASSUME ReviewTypeOK, NEW c \in Client, CountOpen(c)
    PROVE  ReviewTypeOK'
<1>1. client' \in [Client -> ClientRecord]
  BY DEF CountOpen, ReviewTypeOK, ClientRecord
<1> QED
  BY <1>1 DEF CountOpen, ReviewTypeOK, row, count

LEMMA TypeGenerate ==
    ASSUME ReviewTypeOK, NEW c \in Client, Generate(c)
    PROVE  ReviewTypeOK'
<1>1. client' \in [Client -> ClientRecord]
  BY DEF Generate, ReviewTypeOK, ClientRecord
<1> QED
  BY <1>1 DEF Generate, ReviewTypeOK, row, count

LEMMA TypeWrite ==
    ASSUME ReviewTypeOK, NEW c \in Client, Write(c)
    PROVE  ReviewTypeOK'
<1>1. client' \in [Client -> ClientRecord]
  BY DEF Write, ReviewTypeOK, ClientRecord
<1> QED
  BY <1>1 DEF Write, Without, ReviewTypeOK, row, count

LEMMA TypePublish ==
    ASSUME ReviewTypeOK, NEW c \in Client, Publish(c)
    PROVE  ReviewTypeOK'
<1>1. client[c] \in ClientRecord
  BY DEF ReviewTypeOK
<1>2. [client[c] EXCEPT !.pc = "commit"] \in ClientRecord
  BY <1>1 DEF ClientRecord
<1>3. client' \in [Client -> ClientRecord]
  BY <1>2 DEF Publish, ReviewTypeOK
<1> QED
  BY <1>3 DEF Publish, ReviewTypeOK, row, count

\* The five commits leave the client idle.
LEMMA TypeCommits ==
    ASSUME ReviewTypeOK, NEW c \in Client, Commits(c)
    PROVE  client' \in [Client -> ClientRecord]
BY IdleType DEF Commits, ReviewTypeOK

\* The move of a request that has written.
LEMMA TypeMoves ==
    ASSUME ReviewTypeOK, NEW c \in Client, Moves(c),
           client[c].req \in Request, client[c].seen \in StoredStatus
    PROVE  /\ status' \in StoredStatus
           /\ recorded' \subseteq {"approved", "rejected"}
BY TargetType DEF Moves, ReviewTypeOK

LEMMA TypeCommitMove ==
    ASSUME ReviewTypeOK, NEW c \in Client, CommitMove(c),
           client[c].req \in Request, client[c].seen \in StoredStatus
    PROVE  ReviewTypeOK'
<1>1. Commits(c) /\ Moves(c)
  BY DEF CommitMove
<1> QED
  BY <1>1, TypeCommits, TypeMoves DEF CommitMove, Commits, ReviewTypeOK, count

LEMMA TypeCommitDecision ==
    ASSUME ReviewTypeOK, NEW c \in Client, CommitDecision(c),
           client[c].req \in Request, client[c].seen \in StoredStatus, client[c].user \in User
    PROVE  ReviewTypeOK'
<1>1. Commits(c) /\ Moves(c)
  BY DEF CommitDecision
<1>2. client[c].req.arg \in Decision
  BY RequestFields DEF CommitDecision
<1>3. approvals' \in Seq(Decision)
  BY <1>2 DEF CommitDecision, ReviewTypeOK
<1>4. audit' \subseteq Decision \X User
  BY <1>2 DEF CommitDecision, ReviewTypeOK
<1> QED
  BY <1>1, <1>3, <1>4, TypeCommits, TypeMoves DEF CommitDecision, Commits, ReviewTypeOK, count

LEMMA TypeCommitApprovalAlone ==
    ASSUME ReviewTypeOK, NEW c \in Client, CommitApprovalAlone(c), client[c].req \in Request
    PROVE  ReviewTypeOK'
<1>1. Commits(c)
  BY DEF CommitApprovalAlone
<1>2. client[c].req.arg \in Decision
  BY RequestFields DEF CommitApprovalAlone
<1>3. approvals' \in Seq(Decision)
  BY <1>2 DEF CommitApprovalAlone, ReviewTypeOK
<1> QED
  BY <1>1, <1>3, TypeCommits DEF CommitApprovalAlone, Commits, ReviewTypeOK, count

LEMMA TypeCommitFinal ==
    ASSUME ReviewTypeOK, NEW c \in Client, CommitFinal(c),
           client[c].req \in Request, client[c].seen \in StoredStatus
    PROVE  ReviewTypeOK'
<1>1. Commits(c) /\ Moves(c)
  BY DEF CommitFinal
<1>2. client[c].version \in Nat
  BY DEF ReviewTypeOK, ClientRecord
<1> QED
  BY <1>1, <1>2, TypeCommits, TypeMoves DEF CommitFinal, Commits, ReviewTypeOK, count

LEMMA TypeCommitResolution ==
    ASSUME ReviewTypeOK, NEW c \in Client, CommitResolution(c)
    PROVE  ReviewTypeOK'
<1>1. Commits(c)
  BY DEF CommitResolution
<1> QED
  BY <1>1, TypeCommits DEF CommitResolution, Commits, ReviewTypeOK, count

LEMMA TypeGiveUp ==
    ASSUME ReviewTypeOK, NEW c \in Client, GiveUp(c)
    PROVE  ReviewTypeOK'
BY IdleType DEF GiveUp, Without, ReviewTypeOK, row, count

LEMMA TypeCrash ==
    ASSUME ReviewTypeOK, NEW p \in Process, Crash(p)
    PROVE  ReviewTypeOK'
BY IdleType DEF Crash, ReviewTypeOK, row, count

LEMMA TypeAskAnalysis == ASSUME ReviewTypeOK, AskAnalysis PROVE ReviewTypeOK'
BY DEF AskAnalysis, ReviewTypeOK, row

LEMMA TypeAnalysis ==
    ASSUME ReviewTypeOK, NEW a \in Analyst, AnalysisStep(a)
    PROVE  ReviewTypeOK'
<1>1. CASE AnalysisReads(a)
  BY <1>1 DEF AnalysisReads, ReviewTypeOK, row, count
<1>2. CASE AnalysisCommits(a)
  BY <1>2 DEF AnalysisCommits, ReviewTypeOK, StoredStatus, ReviewStatus, count
<1>3. CASE AnalysisFails(a)
  BY <1>3 DEF AnalysisFails, ReviewTypeOK, row, count
<1> QED
  BY <1>1, <1>2, <1>3 DEF AnalysisStep

-----------------------------------------------------------------------------
(* What a request in progress has: that makes the types inductive.         *)

\* A request in progress is one of the requests, for a user; past its read it
\* has a copy of a stored status.
InFlight ==
    \A c \in Client :
        /\ InProgress(c) => client[c].req \in Request /\ client[c].user \in User
        /\ client[c].pc \notin {"idle", "read"} => client[c].seen \in StoredStatus

TypeInv == ReviewTypeOK /\ InFlight

\* No step takes from a request in progress what InFlight says it has.
LEMMA FlightRequest ==
    ASSUME TypeInv, NEW c \in Client, RequestStep(c)
    PROVE  InFlight'
<1> USE DEF TypeInv, ReviewTypeOK, InFlight, InProgress
<1>1. ASSUME NEW r \in Request, NEW u \in User, NEW p \in Process, NEW k \in Key \cup {"none"},
             Begin(c, r, u, p, k)
      PROVE  InFlight'
  BY <1>1 DEF Begin, IdleClient
<1>2. CASE Read(c)
  BY <1>2 DEF Read, AfterRead
<1>3. CASE CountOpen(c)
  BY <1>3 DEF CountOpen
<1>4. CASE Generate(c)
  BY <1>4 DEF Generate
<1>5. CASE Write(c)
  BY <1>5 DEF Write
<1>6. CASE Publish(c)
  BY <1>6 DEF Publish
<1>7. CASE Commits(c)
  BY <1>7 DEF Commits, IdleClient
<1>8. CASE GiveUp(c)
  BY <1>8 DEF GiveUp, IdleClient
<1> QED
  BY <1>1, <1>2, <1>3, <1>4, <1>5, <1>6, <1>7, <1>8
     DEF RequestStep, CommitMove, CommitDecision, CommitApprovalAlone, CommitFinal, CommitResolution

LEMMA FlightNext ==
    ASSUME TypeInv, [Next]_vars
    PROVE  InFlight'
<1>1. CASE \E c \in Client : RequestStep(c)
  BY <1>1, FlightRequest
<1>2. ASSUME NEW p \in Process, Crash(p)
      PROVE  InFlight'
  BY <1>2 DEF Crash, IdleClient, TypeInv, ReviewTypeOK, InFlight, InProgress
<1>3. CASE UNCHANGED client
  BY <1>3 DEF TypeInv, InFlight, InProgress
<1> QED
  BY <1>1, <1>2, <1>3
     DEF Next, AskAnalysis, AnalysisStep, AnalysisReads, AnalysisCommits, AnalysisFails, vars

\* Every step keeps the types, because the requests in flight have theirs.
LEMMA TypeNext ==
    ASSUME TypeInv, [Next]_vars
    PROVE  ReviewTypeOK'
<1>1. ASSUME NEW c \in Client, RequestStep(c)
      PROVE  ReviewTypeOK'
  <2>1. ReviewTypeOK
    BY DEF TypeInv
  <2>2. /\ client[c].pc # "idle" => client[c].req \in Request /\ client[c].user \in User
        /\ client[c].pc = "commit" => client[c].seen \in StoredStatus
    BY DEF TypeInv, InFlight, InProgress
  <2>3. Commits(c) => /\ client[c].req \in Request /\ client[c].user \in User
                      /\ client[c].seen \in StoredStatus
    BY <2>2 DEF Commits
  <2>4. CASE \E r \in Request, u \in User, p \in Process, k \in Key \cup {"none"} :
               Begin(c, r, u, p, k)
    BY <2>1, <2>4, TypeBegin
  <2>5. CASE Read(c) \/ CountOpen(c) \/ Generate(c) \/ Write(c) \/ Publish(c) \/ GiveUp(c)
    BY <2>1, <2>5, TypeRead, TypeCountOpen, TypeGenerate, TypeWrite, TypePublish, TypeGiveUp
  <2>6. CASE CommitMove(c)
    BY <2>1, <2>3, <2>6, TypeCommitMove DEF CommitMove
  <2>7. CASE CommitDecision(c)
    BY <2>1, <2>3, <2>7, TypeCommitDecision DEF CommitDecision
  <2>8. CASE CommitApprovalAlone(c)
    BY <2>1, <2>3, <2>8, TypeCommitApprovalAlone DEF CommitApprovalAlone
  <2>9. CASE CommitFinal(c)
    BY <2>1, <2>3, <2>9, TypeCommitFinal DEF CommitFinal
  <2>10. CASE CommitResolution(c)
    BY <2>1, <2>10, TypeCommitResolution
  <2> QED
    BY <1>1, <2>4, <2>5, <2>6, <2>7, <2>8, <2>9, <2>10 DEF RequestStep
<1>2. CASE UNCHANGED vars
  BY <1>2 DEF TypeInv, ReviewTypeOK, vars, row, count
<1>3. CASE \E p \in Process : Crash(p)
  BY <1>3, TypeCrash DEF TypeInv
<1>4. CASE AskAnalysis \/ \E a \in Analyst : AnalysisStep(a)
  BY <1>4, TypeAskAnalysis, TypeAnalysis DEF TypeInv
<1> QED
  BY <1>1, <1>2, <1>3, <1>4 DEF Next

LEMMA TypeInvHolds == Spec => []TypeInv
<1>1. Init => TypeInv
  BY TypeInit DEF TypeInv, InFlight, InProgress, Init, IdleClient
<1>2. TypeInv /\ [Next]_vars => TypeInv'
  BY FlightNext, TypeNext DEF TypeInv
<1> QED
  BY <1>1, <1>2, PTL DEF Spec

\* The type invariant; and with it that a status which is only a workflow
\* state, or one that is written over in the same transaction, is never left
\* in contract_reviews.status.
THEOREM ReviewTypeCorrect == Spec => []ReviewTypeOK
<1>1. TypeInv => ReviewTypeOK
  BY DEF TypeInv
<1> QED
  BY <1>1, TypeInvHolds, PTL

-----------------------------------------------------------------------------
(* What survives every race.                                               *)

HoldsRow(c) == client[c].pc \in {"publish", "commit"}

-----------------------------------------------------------------------------
(* An approval on record.                                                  *)

Approving == {"approved", "finalized", "executed"}

\* A copy of a status that presupposes an approval was made after it; and what
\* a request is about to commit has passed the check on its copy.
CopiesInv ==
    /\ ApprovedOnRecord
    /\ \A c \in Client : client[c].seen \in Approving => "approved" \in recorded
    /\ \A c \in Client : HoldsRow(c) =>
          Legal(client[c].req, client[c].seen) \/ client[c].req.op = "bulk"

\* No transition reaches FINALIZED or EXECUTED but from APPROVED or FINALIZED.
LEMMA LegalFinal ==
    ASSUME NEW r, NEW s \in StoredStatus, Legal(r, s),
           r.op \notin {"reanalyze", "resolve"}, Target(r, s) \in {"finalized", "executed"}
    PROVE  s \in Approving
<1>1. Target(r, s) \in review_transitions[Base(r, s)]
  BY DEF Legal
<1>2. s \in ReviewStatus /\ Base(r, s) \in ReviewStatus
  BY DEF Base, StoredStatus, ReviewStatus
<1>3. Base(r, s) \in {"approved", "finalized"}
  BY <1>1, <1>2 DEF review_transitions, ReviewStatus
<1> QED
  BY <1>3 DEF Base, Approving

\* A legal move to such a status leaves an approval on record.
LEMMA MoveRecorded ==
    ASSUME TypeInv, CopiesInv, NEW c \in Client, Commits(c), Moves(c),
           Legal(client[c].req, client[c].seen), client[c].req.op # "resolve"
    PROVE  /\ recorded \subseteq recorded'
           /\ status' \in Approving => "approved" \in recorded'
<1>1. recorded \subseteq recorded'
  BY DEF Moves
<1>2. CASE status' = "approved"
  BY <1>1, <1>2 DEF Moves
<1>3. CASE status' \in {"finalized", "executed"}
  <2>1. client[c].seen \in StoredStatus
    BY DEF Commits, TypeInv, InFlight
  <2>2. client[c].req.op # "reanalyze"
    BY <1>3 DEF Moves, Target, Decides
  <2>3. client[c].seen \in Approving
    BY <1>3, <2>1, <2>2, LegalFinal DEF Moves
  <2> QED
    BY <1>1, <2>3 DEF CopiesInv
<1> QED
  BY <1>1, <1>2, <1>3 DEF Approving

\* A step of a request keeps CopiesInv: one step per action, the commits last.
LEMMA CopiesRequest ==
    ASSUME TypeInv, CopiesInv, NEW c \in Client, RequestStep(c)
    PROVE  CopiesInv'
<1> USE DEF TypeInv, ReviewTypeOK, CopiesInv, ApprovedOnRecord, HoldsRow
<1>1. ASSUME NEW r \in Request, NEW u \in User, NEW p \in Process, NEW k \in Key \cup {"none"},
             Begin(c, r, u, p, k)
      PROVE  CopiesInv'
  BY <1>1 DEF Begin, IdleClient, row, Approving
<1>2. CASE Read(c)
  BY <1>2 DEF Read, AfterRead, row, Approving
<1>3. CASE CountOpen(c)
  BY <1>3 DEF CountOpen, row
<1>4. CASE Generate(c)
  BY <1>4 DEF Generate, row
<1>5. CASE Write(c)
  BY <1>5 DEF Write, row
<1>6. CASE Publish(c)
  BY <1>6 DEF Publish, row
<1>7. CASE GiveUp(c)
  BY <1>7 DEF GiveUp, IdleClient, row, Approving
<1>8. ASSUME Commits(c), recorded \subseteq recorded',
             status' \in Approving => "approved" \in recorded',
             versions' > 0 => "approved" \in recorded'
      PROVE  CopiesInv'
  BY <1>8 DEF Commits, IdleClient, Approving
<1>9. Commits(c) => Legal(client[c].req, client[c].seen) \/ client[c].req.op = "bulk"
  BY DEF Commits
<1>10. CASE CommitMove(c)
  BY <1>8, <1>9, <1>10, MoveRecorded DEF CommitMove
<1>11. CASE CommitDecision(c)
  BY <1>8, <1>11, MoveRecorded DEF CommitDecision, Decides
<1>12. CASE CommitApprovalAlone(c)
  BY <1>8, <1>12 DEF CommitApprovalAlone, Approving
<1>13. CASE CommitFinal(c)
  <2>1. Commits(c) /\ Moves(c) /\ Legal(client[c].req, client[c].seen)
    BY <1>9, <1>13 DEF CommitFinal
  <2>2. status' = "finalized"
    BY <1>13 DEF CommitFinal, Moves, Target, Decides
  <2>3. recorded \subseteq recorded' /\ "approved" \in recorded'
    BY <1>13, <2>1, <2>2, MoveRecorded DEF CommitFinal, Approving
  <2> QED
    BY <1>8, <2>1, <2>3
<1>14. CASE CommitResolution(c)
  BY <1>8, <1>14 DEF CommitResolution, Approving
<1> QED
  BY <1>1, <1>2, <1>3, <1>4, <1>5, <1>6, <1>7, <1>10, <1>11, <1>12, <1>13, <1>14 DEF RequestStep

LEMMA CopiesInvHolds == Spec => []CopiesInv
<1>1. Init => CopiesInv
  BY DEF Init, CopiesInv, ApprovedOnRecord, HoldsRow, IdleClient, Undecided, Immutable, Approving
<1>2. ASSUME TypeInv, CopiesInv, [Next]_vars
      PROVE  CopiesInv'
  <2> USE DEF TypeInv, ReviewTypeOK, CopiesInv, ApprovedOnRecord, HoldsRow
  <2>1. CASE \E c \in Client : RequestStep(c)
    BY <1>2, <2>1, CopiesRequest
  <2>2. ASSUME NEW p \in Process, Crash(p)
        PROVE  CopiesInv'
    BY <1>2, <2>2 DEF Crash, IdleClient, row, Approving
  <2>3. CASE AskAnalysis
    BY <1>2, <2>3 DEF AskAnalysis, row
  <2>4. ASSUME NEW a \in Analyst, AnalysisStep(a)
        PROVE  CopiesInv'
    BY <1>2, <2>4 DEF AnalysisStep, AnalysisReads, AnalysisCommits, AnalysisFails, row
  <2>5. CASE UNCHANGED vars
    BY <1>2, <2>5 DEF vars, row
  <2> QED
    BY <1>2, <2>1, <2>2, <2>3, <2>4, <2>5 DEF Next
<1> QED
  BY <1>1, <1>2, TypeInvHolds, PTL DEF Spec

\* ApprovedOnRecord: whatever races, a review that is approved, finalized or
\* executed, or that has a final version, was approved on record.
THEOREM ApprovalIsOnRecord == Spec => []ApprovedOnRecord
<1>1. CopiesInv => ApprovedOnRecord
  BY DEF CopiesInv
<1> QED
  BY <1>1, CopiesInvHolds, PTL

-----------------------------------------------------------------------------
(* Approvals that took effect.                                             *)

\* A decision that is not bulk adds an approval and its status together.
LEMMA ApprovalIsReal ==
    ASSUME TypeInv, CopiesInv, ApprovalsAreReal, NEW c \in Client,
           client[c].req.op # "bulk", CommitDecision(c) \/ CommitApprovalAlone(c)
    PROVE  ApprovalsAreReal'
<1> DEFINE d == client[c].req.arg
<1>1. client[c].req \in Request /\ Commits(c) /\ Decides(client[c].req) /\ HoldsRow(c)
  BY DEF TypeInv, InFlight, InProgress, CommitDecision, CommitApprovalAlone, Commits, HoldsRow
<1>2. CommitDecision(c)
  BY <1>1 DEF CopiesInv, CommitApprovalAlone
<1>3. d \in Decision
  BY <1>1, RequestFields
<1>4. /\ status' = DecisionStatus(d)
      /\ recorded' = recorded \cup ({status'} \cap {"approved", "rejected"})
  BY <1>1, <1>2 DEF CommitDecision, Moves, Target, Decides
<1>5. DecisionStatus(d) \in recorded' /\ recorded \subseteq recorded'
  BY <1>4 DEF DecisionStatus
<1>6. approvals \in Seq(Decision) /\ approvals' = Append(approvals, d)
  BY <1>2 DEF CommitDecision, TypeInv, ReviewTypeOK
<1>7. \A i \in DOMAIN approvals' : \/ i \in DOMAIN approvals /\ approvals'[i] = approvals[i]
                                  \/ approvals'[i] = d
  BY <1>3, <1>6
<1> QED
  BY <1>5, <1>7 DEF ApprovalsAreReal

\* ApprovalsAreReal: without bulk_approve, which commits what its refused
\* transitions leave in the session, every approval or rejection on record
\* took effect, whatever races.
THEOREM SingleApprovalsAreReal ==
    ASSUME \A r \in Request : r.op # "bulk"
    PROVE  Spec => []ApprovalsAreReal
<1>1. Init => ApprovalsAreReal
  BY DEF Init, ApprovalsAreReal
<1>2. ASSUME TypeInv, CopiesInv, ApprovalsAreReal, [Next]_vars
      PROVE  ApprovalsAreReal'
  <2>1. CASE \E c \in Client : CommitDecision(c) \/ CommitApprovalAlone(c)
    <3>1. PICK c \in Client : CommitDecision(c) \/ CommitApprovalAlone(c)
      BY <2>1
    <3>2. client[c].req \in Request
      BY <1>2, <3>1 DEF TypeInv, InFlight, InProgress, CommitDecision, CommitApprovalAlone, Commits
    <3> QED
      BY <1>2, <3>1, <3>2, ApprovalIsReal
  <2>2. CASE UNCHANGED approvals /\ recorded \subseteq recorded'
    BY <1>2, <2>2 DEF ApprovalsAreReal
  <2>3. (\E c \in Client : CommitMove(c) \/ CommitFinal(c) \/ CommitResolution(c))
          => UNCHANGED approvals /\ recorded \subseteq recorded'
    BY DEF CommitMove, CommitFinal, CommitResolution, Moves
  <2> QED
    BY <1>2, <2>1, <2>2, <2>3
       DEF Next, RequestStep, Begin, Read, CountOpen, Generate, Write, Publish, GiveUp, Crash,
           AskAnalysis, AnalysisStep, AnalysisReads, AnalysisCommits, AnalysisFails, vars, row
<1> QED
  BY <1>1, <1>2, TypeInvHolds, CopiesInvHolds, PTL DEF Spec

-----------------------------------------------------------------------------
(* One full approval.                                                      *)

FullyApproved == \E i \in DOMAIN approvals : approvals[i] = "approved"

\* One request holds the row; a full approval that does has found none before.
RowInv ==
    /\ OneFullApproval
    /\ \A c, d \in Client : HoldsRow(c) /\ HoldsRow(d) => c = d
    /\ \A c \in Client : HoldsRow(c) /\ ApprovesFully(client[c].req) => ~FullyApproved

\* A further decision leaves at most one full approval, if it is not a second.
LEMMA AppendDecision ==
    ASSUME approvals \in Seq(Decision), NEW d \in Decision, approvals' = Append(approvals, d),
           OneFullApproval, d = "approved" => ~FullyApproved
    PROVE  OneFullApproval'
<1>1. /\ DOMAIN approvals' = 1 .. Len(approvals) + 1
      /\ \A i \in DOMAIN approvals' :
            approvals'[i] = IF i = Len(approvals) + 1 THEN d ELSE approvals[i]
      /\ DOMAIN approvals = 1 .. Len(approvals) /\ Len(approvals) \in Nat
  OBVIOUS
<1> QED
  BY <1>1 DEF OneFullApproval, FullyApproved

\* A step of a request keeps RowInv.
LEMMA RowRequest ==
    ASSUME TypeInv, RowInv, NEW c \in Client, RequestStep(c)
    PROVE  RowInv'
<1> USE DEF TypeInv, ReviewTypeOK, RowInv, OneFullApproval, FullyApproved, HoldsRow
<1>1. ASSUME NEW r \in Request, NEW u \in User, NEW p \in Process, NEW k \in Key \cup {"none"},
             Begin(c, r, u, p, k)
      PROVE  RowInv'
  BY <1>1 DEF Begin, IdleClient, row
<1>2. CASE Read(c)
  BY <1>2 DEF Read, AfterRead, row
<1>3. CASE CountOpen(c)
  BY <1>3 DEF CountOpen, row
<1>4. CASE Generate(c)
  <2>1. ~HoldsRow(c)' /\ \A d \in Client \ {c} : client'[d] = client[d]
    BY <1>4 DEF Generate
  <2> QED
    BY <1>4, <2>1 DEF Generate, row
<1>5. CASE Write(c)
  BY <1>5 DEF Write, row, RowFree, Conflict
<1>6. CASE Publish(c)
  BY <1>6 DEF Publish, row
<1>7. CASE GiveUp(c)
  BY <1>7 DEF GiveUp, IdleClient, row
<1>8. ASSUME Commits(c), OneFullApproval'
      PROVE  RowInv'
  BY <1>8 DEF Commits, IdleClient
<1>9. CASE CommitMove(c) \/ CommitFinal(c) \/ CommitResolution(c)
  BY <1>8, <1>9 DEF CommitMove, CommitFinal, CommitResolution
<1>10. CASE CommitDecision(c) \/ CommitApprovalAlone(c)
  <2>1. /\ Commits(c) /\ Decides(client[c].req)
        /\ approvals' = Append(approvals, client[c].req.arg)
    BY <1>10 DEF CommitDecision, CommitApprovalAlone
  <2>2. client[c].req \in Request
    BY <2>1 DEF Commits, InFlight, InProgress
  <2>3. client[c].req.arg \in Decision
    BY <2>1, <2>2, RequestFields
  <2>4. client[c].req.arg = "approved" => ~FullyApproved
    BY <2>1 DEF Commits, ApprovesFully
  <2>5. OneFullApproval'
    BY <2>1, <2>3, <2>4, AppendDecision
  <2> QED
    BY <1>8, <2>1, <2>5
<1> QED
  BY <1>1, <1>2, <1>3, <1>4, <1>5, <1>6, <1>7, <1>9, <1>10 DEF RequestStep

\* OneFullApproval: the row lock of the UPDATE and the unique index prevent a
\* second full approval; the OperationLock, which may expire, plays no part.
THEOREM FullApprovalIsUnique == Spec => []OneFullApproval
<1>1. Init => RowInv
  BY DEF Init, RowInv, OneFullApproval, HoldsRow, IdleClient
<1>2. ASSUME TypeInv, RowInv, [Next]_vars
      PROVE  RowInv'
  <2> USE DEF TypeInv, ReviewTypeOK, RowInv, OneFullApproval, FullyApproved, HoldsRow
  <2>1. CASE \E c \in Client : RequestStep(c)
    BY <1>2, <2>1, RowRequest
  <2>2. ASSUME NEW p \in Process, Crash(p)
        PROVE  RowInv'
    BY <1>2, <2>2 DEF Crash, IdleClient, row
  <2>3. CASE AskAnalysis
    BY <1>2, <2>3 DEF AskAnalysis, row
  <2>4. ASSUME NEW a \in Analyst, AnalysisStep(a)
        PROVE  RowInv'
    BY <1>2, <2>4 DEF AnalysisStep, AnalysisReads, AnalysisCommits, AnalysisFails, row
  <2>5. CASE UNCHANGED vars
    BY <1>2, <2>5 DEF vars, row
  <2> QED
    BY <1>2, <2>1, <2>2, <2>3, <2>4, <2>5 DEF Next
<1>3. RowInv => OneFullApproval
  BY DEF RowInv
<1> QED
  BY <1>1, <1>2, <1>3, TypeInvHolds, PTL DEF Spec

-----------------------------------------------------------------------------
(* The locks of the processes.                                             *)

\* A request has released its lock when it holds the row.
LockInv ==
    /\ NoOrphanLock
    /\ \A c \in Client : HoldsRow(c) => client[c].key = "none"

\* The key of a request that holds no lock, "none", is not a key.
LEMMA KeyIsNotNone == "none" \notin Key
BY ReasonAssumption DEF Key

\* The commits change no lock, and end a request that has none.
LEMMA LockCommits ==
    ASSUME TypeInv, LockInv, NEW c \in Client, Commits(c)
    PROVE  LockInv'
BY KeyIsNotNone DEF Commits, TypeInv, ReviewTypeOK, LockInv, NoOrphanLock, HoldsRow, InProgress, IdleClient

\* A request that releases its lock is not the owner of any other.
LEMMA LockReleased ==
    ASSUME TypeInv, NoOrphanLock, NEW c \in Client,
           locks' = Without(client[c].proc, client[c].key),
           \A d \in Client \ {c} : client'[d] = client[d]
    PROVE  NoOrphanLock'
<1> SUFFICES ASSUME NEW l \in locks'
             PROVE  \E d \in Client : InProgress(d)' /\ client'[d].proc = l[1] /\ client'[d].key = l[2]
  BY DEF NoOrphanLock
<1>1. l \in locks /\ l # <<client[c].proc, client[c].key>> /\ l \in Process \X Key
  BY DEF Without, TypeInv, ReviewTypeOK
<1>2. PICK d \in Client : InProgress(d) /\ client[d].proc = l[1] /\ client[d].key = l[2]
  BY <1>1 DEF NoOrphanLock
<1>3. d # c
  BY <1>1, <1>2
<1> QED
  BY <1>2, <1>3 DEF InProgress

\* A step of a request keeps LockInv.
LEMMA LockRequest ==
    ASSUME TypeInv, LockInv, NEW c \in Client, RequestStep(c)
    PROVE  LockInv'
<1> USE DEF TypeInv, ReviewTypeOK, LockInv, NoOrphanLock, HoldsRow, InProgress
<1>1. ASSUME NEW r \in Request, NEW u \in User, NEW p \in Process, NEW k \in Key \cup {"none"},
             Begin(c, r, u, p, k)
      PROVE  LockInv'
  BY <1>1 DEF Begin, IdleClient, row
<1>2. CASE Read(c)
  BY <1>2 DEF Read, AfterRead, row
<1>3. CASE CountOpen(c)
  BY <1>3 DEF CountOpen, row
<1>4. CASE Generate(c)
  BY <1>4 DEF Generate, row
<1>5. CASE Write(c)
  BY <1>5, LockReleased DEF Write
<1>6. CASE Publish(c)
  BY <1>6 DEF Publish, row
<1>7. CASE GiveUp(c)
  BY <1>7, LockReleased DEF GiveUp, IdleClient
<1>8. CASE Commits(c)
  BY <1>8, LockCommits
<1> QED
  BY <1>1, <1>2, <1>3, <1>4, <1>5, <1>6, <1>7, <1>8
     DEF RequestStep, CommitMove, CommitDecision, CommitApprovalAlone, CommitFinal, CommitResolution

\* NoOrphanLock: no refused, failed, overtaken or crashed request leaves the
\* review locked in a process.
THEOREM LocksHaveOwners == Spec => []NoOrphanLock
<1>1. Init => LockInv
  BY DEF Init, LockInv, NoOrphanLock, HoldsRow, IdleClient
<1>2. ASSUME TypeInv, LockInv, [Next]_vars
      PROVE  LockInv'
  <2> USE DEF TypeInv, ReviewTypeOK, LockInv, NoOrphanLock, HoldsRow, InProgress
  <2>1. CASE \E c \in Client : RequestStep(c)
    BY <1>2, <2>1, LockRequest
  <2>2. ASSUME NEW p \in Process, Crash(p)
        PROVE  LockInv'
    BY <1>2, <2>2 DEF Crash, IdleClient, row
  <2>3. CASE AskAnalysis
    BY <1>2, <2>3 DEF AskAnalysis, row
  <2>4. ASSUME NEW a \in Analyst, AnalysisStep(a)
        PROVE  LockInv'
    BY <1>2, <2>4 DEF AnalysisStep, AnalysisReads, AnalysisCommits, AnalysisFails, row
  <2>5. CASE UNCHANGED vars
    BY <1>2, <2>5 DEF vars, row
  <2> QED
    BY <1>2, <2>1, <2>2, <2>3, <2>4, <2>5 DEF Next
<1>3. LockInv => NoOrphanLock
  BY DEF LockInv
<1> QED
  BY <1>1, <1>2, <1>3, TypeInvHolds, PTL DEF Spec

-----------------------------------------------------------------------------
(* The findings an approver has seen.                                      *)

\* The runs are numbered upwards, so that a run an approver has seen and that
\* is still the last has no finding reopened.
RunInv ==
    /\ ApproverSawTheFindings
    /\ \A c \in Client : client[c].run <= findings.run
    /\ \A c \in Client : client[c].pc = "publish" => ~ApprovesFully(client[c].req)

\* A step of a request keeps RunInv.
LEMMA RunRequest ==
    ASSUME TypeInv, RunInv, NEW c \in Client, RequestStep(c)
    PROVE  RunInv'
<1> USE DEF TypeInv, ReviewTypeOK, RunInv, ApproverSawTheFindings, ClientRecord
<1>1. ASSUME NEW r \in Request, NEW u \in User, NEW p \in Process, NEW k \in Key \cup {"none"},
             Begin(c, r, u, p, k)
      PROVE  RunInv'
  BY <1>1 DEF Begin, IdleClient, row
<1>2. CASE Read(c)
  BY <1>2 DEF Read, AfterRead, row
<1>3. CASE CountOpen(c)
  BY <1>3 DEF CountOpen, row
<1>4. CASE Generate(c)
  BY <1>4 DEF Generate, row
<1>5. CASE Write(c)
  BY <1>5 DEF Write, row, ApprovesFully, Decides
<1>6. CASE Publish(c)
  BY <1>6 DEF Publish, row
<1>7. CASE GiveUp(c)
  BY <1>7 DEF GiveUp, IdleClient, row
<1>8. CASE Commits(c) /\ (findings' = findings \/ findings' = [findings EXCEPT !.open = FALSE])
  BY <1>8 DEF Commits, IdleClient
<1> QED
  BY <1>1, <1>2, <1>3, <1>4, <1>5, <1>6, <1>7, <1>8
     DEF RequestStep, CommitMove, CommitDecision, CommitApprovalAlone, CommitFinal, CommitResolution

\* ApproverSawTheFindings: a full approval is committed over findings of which
\* none that is critical or high is open, or over those of a later analysis.
THEOREM ApproverHasSeen == Spec => []ApproverSawTheFindings
<1>1. Init => RunInv
  BY DEF Init, RunInv, ApproverSawTheFindings, IdleClient
<1>2. ASSUME TypeInv, RunInv, [Next]_vars
      PROVE  RunInv'
  <2> USE DEF TypeInv, ReviewTypeOK, RunInv, ApproverSawTheFindings, ClientRecord
  <2>1. CASE \E c \in Client : RequestStep(c)
    BY <1>2, <2>1, RunRequest
  <2>2. ASSUME NEW p \in Process, Crash(p)
        PROVE  RunInv'
    BY <1>2, <2>2 DEF Crash, IdleClient, row
  <2>3. CASE AskAnalysis
    BY <1>2, <2>3 DEF AskAnalysis, row
  <2>4. ASSUME NEW a \in Analyst, AnalysisStep(a)
        PROVE  RunInv'
    BY <1>2, <2>4 DEF AnalysisStep, AnalysisReads, AnalysisCommits, AnalysisFails, row
  <2>5. CASE UNCHANGED vars
    BY <1>2, <2>5 DEF vars, row
  <2> QED
    BY <1>2, <2>1, <2>2, <2>3, <2>4, <2>5 DEF Next
<1>3. RunInv => ApproverSawTheFindings
  BY DEF RunInv
<1> QED
  BY <1>1, <1>2, <1>3, TypeInvHolds, PTL DEF Spec
=============================================================================
