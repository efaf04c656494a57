------------------------- MODULE ReviewPromiseProofs -------------------------
(***************************************************************************)
(* When nothing overlaps (Serial), ReviewLifecycle implements              *)
(* ReviewDecision, for any clients, processes, users, analysts, requests   *)
(* and bounds.  The argument: a request that is alone still holds a true   *)
(* copy when it commits, so that the guard of its handler and the          *)
(* transition table have judged the status they change.                    *)
(***************************************************************************)
EXTENDS ReviewLifecycleProofs

Final == {"finalized", "executed", "archived"}

\* At most one request or analysis is in progress, and its copy is true.
SerialInv ==
    /\ \A c, d \in Client : InProgress(c) /\ InProgress(d) => c = d
    /\ \A c \in Client, a \in Analyst : InProgress(c) => analyst[a] = "idle"
    /\ \A a, b \in Analyst : analyst[a] # "idle" /\ analyst[b] # "idle" => a = b
    /\ \A c \in Client : client[c].pc \notin {"idle", "read"} =>
          client[c].seen = status /\ Admits(client[c].req, status)
    /\ \A a \in Analyst : analyst[a] \in {"idle", status}

\* A final version is made once, on the way from APPROVED to FINALIZED.
VersionInv ==
    /\ status \notin Final => versions = 0
    /\ \A c \in Client : client[c].pc = "count" => client[c].req.op # "finalize"
    /\ \A c \in Client :
          /\ client[c].pc \in {"write", "publish", "commit"}
          /\ client[c].req.op = "finalize"
          => client[c].version \in {0, versions + 1}

PromiseInv == TypeInv /\ CopiesInv /\ SerialInv /\ VersionInv

-----------------------------------------------------------------------------
(* What the two tables and the guards allow.                               *)

\* Only a review that is open is analysed again.
LEMMA ReanalysisIsOpen ==
    ASSUME NEW r, NEW s, r.op = "reanalyze", Admits(r, s)
    PROVE  s \notin Immutable /\ Target(r, s) = "draft"
BY DEF Admits, Target, Decides, guard_mutable

\* From the statuses that lock the content, a legal move goes on to the end.
LEMMA LockedMove ==
    ASSUME NEW r, NEW s \in Immutable, Legal(r, s), r.op \notin {"reanalyze", "resolve"},
           Target(r, s) \in StoredStatus
    PROVE  /\ s = "approved"  => Target(r, s) \in {"finalized", "executed", "archived"}
           /\ s = "finalized" => Target(r, s) \in {"executed", "archived"}
           /\ s \in {"rejected", "executed"} => Target(r, s) = "archived"
           /\ s # "archived"
<1>1. Base(r, s) = s /\ s \in ReviewStatus
  BY DEF Base, Immutable, ReviewStatus
<1>2. Target(r, s) \in review_transitions[s]
  BY <1>1 DEF Legal
<1>3. Target(r, s) # "closed"
  BY DEF StoredStatus, ReviewStatus
<1> QED
  BY <1>1, <1>2, <1>3 DEF review_transitions, Immutable

\* From the others, it reaches neither FINALIZED nor EXECUTED.
LEMMA OpenMove ==
    ASSUME NEW r, NEW s \in StoredStatus \ Immutable, Legal(r, s),
           r.op \notin {"reanalyze", "resolve"}
    PROVE  Target(r, s) \notin {"finalized", "executed"}
BY LegalFinal DEF Approving, Immutable

\* The move of a request that is alone.
LEMMA SerialMove ==
    ASSUME PromiseInv, NEW c \in Client, Commits(c), Moves(c),
           Legal(client[c].req, client[c].seen), client[c].req.op # "resolve"
    PROVE  /\ status' \in StoredStatus
           /\ status \notin Immutable => status' \notin {"finalized", "executed"}
           /\ status = "approved"  => status' \in {"finalized", "executed", "archived"}
           /\ status = "finalized" => status' \in {"executed", "archived"}
           /\ status \in {"rejected", "executed"} => status' = "archived"
           /\ status # "archived"
<1> DEFINE r == client[c].req
<1>1. /\ client[c].seen = status /\ Admits(r, status)
      /\ r \in Request /\ status \in StoredStatus
  BY DEF Commits, PromiseInv, SerialInv, TypeInv, InFlight, InProgress, ReviewTypeOK
<1>2. status' = Target(r, status) /\ Legal(r, status)
  BY <1>1 DEF Moves
<1>3. status' \in StoredStatus
  BY <1>1, <1>2, TargetType
<1> HIDE DEF r
<1>4. CASE r.op = "reanalyze"
  <2>1. status \notin Immutable /\ status' = "draft"
    BY <1>1, <1>2, <1>4, ReanalysisIsOpen
  <2> QED
    BY <1>3, <2>1 DEF Immutable
<1>5. CASE r.op # "reanalyze"
  <2>1. r.op \notin {"reanalyze", "resolve"}
    BY <1>5 DEF r
  <2>2. CASE status \in Immutable
    <3>1. Target(r, status) \in StoredStatus
      BY <1>2, <1>3
    <3> QED
      BY <1>2, <1>3, <2>1, <2>2, <3>1, LockedMove
  <2>3. CASE status \notin Immutable
    BY <1>1, <1>2, <1>3, <2>1, <2>3, OpenMove DEF Immutable
  <2> QED
    BY <2>2, <2>3
<1> QED
  BY <1>4, <1>5

-----------------------------------------------------------------------------
(* Requests and analyses stay alone.                                       *)

\* After its last step nothing is in progress.
LEMMA SerialCommits ==
    ASSUME TypeInv, SerialInv, NEW c \in Client, Commits(c)
    PROVE  SerialInv'
<1>1. InProgress(c)
  BY DEF Commits, InProgress
<1>2. \A d \in Client : client'[d].pc = "idle"
  BY <1>1 DEF Commits, SerialInv, InProgress, IdleClient, TypeInv, ReviewTypeOK
<1>3. \A a \in Analyst : analyst'[a] = "idle"
  BY <1>1 DEF Commits, SerialInv
<1> QED
  BY <1>2, <1>3 DEF SerialInv, InProgress

\* A step of a request leaves it alone, with a true copy.
LEMMA SerialRequest ==
    ASSUME Serial, TypeInv, SerialInv, NEW c \in Client, RequestStep(c)
    PROVE  SerialInv'
<1> USE DEF TypeInv, ReviewTypeOK, SerialInv, InProgress, row
<1>1. ASSUME NEW r \in Request, NEW u \in User, NEW p \in Process, NEW k \in Key \cup {"none"},
             Begin(c, r, u, p, k)
      PROVE  SerialInv'
  BY <1>1 DEF Begin, Alone, IdleClient
<1>2. CASE Read(c)
  BY <1>2 DEF Read
<1>3. CASE CountOpen(c)
  BY <1>3 DEF CountOpen
<1>4. CASE Generate(c)
  BY <1>4 DEF Generate
<1>5. CASE Write(c)
  BY <1>5 DEF Write
<1>6. CASE Publish(c)
  BY <1>6 DEF Publish
<1>7. CASE GiveUp(c)
  BY <1>7 DEF GiveUp, IdleClient
<1>8. CASE Commits(c)
  BY <1>8, SerialCommits
<1> QED
  BY <1>1, <1>2, <1>3, <1>4, <1>5, <1>6, <1>7, <1>8
     DEF RequestStep, CommitMove, CommitDecision, CommitApprovalAlone, CommitFinal, CommitResolution

LEMMA SerialNext ==
    ASSUME Serial, TypeInv, SerialInv, [Next]_vars
    PROVE  SerialInv'
<1> USE DEF TypeInv, ReviewTypeOK, SerialInv, InProgress, row
<1>1. CASE \E c \in Client : RequestStep(c)
  BY <1>1, SerialRequest
<1>2. ASSUME NEW p \in Process, Crash(p)
      PROVE  SerialInv'
  BY <1>2 DEF Crash, IdleClient
<1>3. CASE AskAnalysis
  BY <1>3 DEF AskAnalysis
<1>4. ASSUME NEW a \in Analyst, AnalysisStep(a)
      PROVE  SerialInv'
  <2>1. CASE AnalysisReads(a)
    BY <1>4, <2>1 DEF AnalysisReads, Alone
  <2>2. CASE AnalysisCommits(a)
    BY <1>4, <2>2 DEF AnalysisCommits
  <2>3. CASE AnalysisFails(a)
    BY <1>4, <2>3 DEF AnalysisFails
  <2> QED
    BY <1>4, <2>1, <2>2, <2>3 DEF AnalysisStep
<1>5. CASE UNCHANGED vars
  BY <1>5 DEF vars
<1> QED
  BY <1>1, <1>2, <1>3, <1>4, <1>5 DEF Next

-----------------------------------------------------------------------------
(* Every step keeps the promise and VersionInv.                            *)

Kept == [Promise!DecisionNext]_<<PhaseOf(status), versions>>

\* A step that moves nothing.
LEMMA NothingMoves ==
    ASSUME UNCHANGED <<status, versions>>
    PROVE  Kept
BY DEF Kept, PhaseOf

\* A legal move without a version.
LEMMA MoveKeeps ==
    ASSUME PromiseInv, NEW c \in Client, Commits(c), Moves(c),
           Legal(client[c].req, client[c].seen), client[c].req.op # "resolve",
           UNCHANGED versions
    PROVE  Kept /\ VersionInv'
<1>1. /\ status \in StoredStatus /\ status' \in StoredStatus
      /\ status \notin Immutable => status' \notin {"finalized", "executed"}
      /\ status = "approved"  => status' \in {"finalized", "executed", "archived"}
      /\ status = "finalized" => status' \in {"executed", "archived"}
      /\ status \in {"rejected", "executed"} => status' = "archived"
      /\ status # "archived"
  BY SerialMove DEF PromiseInv, TypeInv, ReviewTypeOK
<1>2. status = "approved" => versions = 0
  BY DEF PromiseInv, VersionInv, Final
<1>3. Kept
  BY <1>1, <1>2 DEF Kept, PhaseOf, Immutable, Promise!DecisionNext, Promise!Decide,
     Promise!Finalize, Promise!Execute, Promise!Archive
<1>4. status' \notin Final => versions' = 0
  BY <1>1 DEF PromiseInv, VersionInv, Final, Immutable
<1>5. \A d \in Client : client'[d].pc # "idle" => client'[d] = client[d]
  BY DEF Commits, IdleClient, PromiseInv, TypeInv, ReviewTypeOK
<1> QED
  BY <1>3, <1>4, <1>5 DEF PromiseInv, VersionInv

\* The move of a finalization, with a version or without.
LEMMA FinalizeKeeps ==
    ASSUME PromiseInv, NEW c \in Client, CommitFinal(c)
    PROVE  Kept /\ VersionInv'
<1>1. /\ Commits(c) /\ Moves(c) /\ client[c].req.op = "finalize"
      /\ client[c].pc = "commit"
  BY DEF CommitFinal, Commits
<1>2. Legal(client[c].req, client[c].seen)
  BY <1>1 DEF PromiseInv, CopiesInv, HoldsRow
<1>3. status' = "finalized"
  BY <1>1 DEF Moves, Target, Decides
<1>4. status = "approved"
  <2>1. status \in StoredStatus
    BY DEF PromiseInv, TypeInv, ReviewTypeOK
  <2> QED
    BY <1>1, <1>2, <1>3, <2>1, SerialMove DEF Immutable
<1>5. versions = 0
  BY <1>4 DEF PromiseInv, VersionInv, Final
<1>6. versions' \in {0, 1}
  BY <1>1, <1>5 DEF CommitFinal, PromiseInv, VersionInv
<1>7. Kept
  BY <1>3, <1>4, <1>6 DEF Kept, PhaseOf, Immutable, Promise!DecisionNext, Promise!Finalize
<1>8. \A d \in Client : client'[d].pc = "idle"
  BY <1>1 DEF Commits, PromiseInv, SerialInv, InProgress, IdleClient, TypeInv, ReviewTypeOK
<1> QED
  BY <1>3, <1>7, <1>8 DEF VersionInv, Final

\* A step of a request, and below, any step.
LEMMA RequestKeeps ==
    ASSUME PromiseInv, NEW c \in Client, RequestStep(c)
    PROVE  Kept /\ VersionInv'
<1> USE DEF PromiseInv, TypeInv, ReviewTypeOK, VersionInv, row
<1>1. ASSUME NEW r \in Request, NEW u \in User, NEW p \in Process, NEW k \in Key \cup {"none"},
             Begin(c, r, u, p, k)
      PROVE  Kept /\ VersionInv'
  BY <1>1, NothingMoves DEF Begin, IdleClient
<1>2. CASE Read(c)
  <2>1. AfterRead(client[c].req) \in {"count", "write", "publish", "commit"}
          => client[c].req.op # "finalize"
    BY DEF AfterRead, ApprovesFully, Decides
  <2>2. \A d \in Client : /\ d # c => client'[d] = client[d]
                          /\ client'[d].req = client[d].req
    BY <1>2 DEF Read
  <2>3. client'[c].pc = AfterRead(client[c].req)
    BY <1>2 DEF Read
  <2>4. UNCHANGED <<status, versions>>
    BY <1>2 DEF Read
  <2> QED
    BY <2>1, <2>2, <2>3, <2>4, NothingMoves
<1>3. CASE CountOpen(c)
  BY <1>3, NothingMoves DEF CountOpen
<1>4. CASE Generate(c)
  BY <1>4, NothingMoves DEF Generate
<1>5. CASE Write(c)
  BY <1>5, NothingMoves DEF Write
<1>6. CASE Publish(c)
  BY <1>6, NothingMoves DEF Publish
<1>7. CASE GiveUp(c)
  BY <1>7, NothingMoves DEF GiveUp, IdleClient
<1>8. CASE CommitMove(c)
  <2>1. client[c].req.op \notin {"resolve", "bulk"}
    BY <1>8 DEF CommitMove
  <2>2. Legal(client[c].req, client[c].seen)
    BY <1>8, <2>1 DEF CommitMove, Commits, CopiesInv, HoldsRow
  <2> QED
    BY <1>8, <2>1, <2>2, MoveKeeps DEF CommitMove
<1>9. CASE CommitDecision(c)
  BY <1>9, MoveKeeps DEF CommitDecision, Decides
<1>10. CASE CommitApprovalAlone(c) \/ CommitResolution(c)
  <2>1. Commits(c) /\ UNCHANGED <<status, versions>>
    BY <1>10 DEF CommitApprovalAlone, CommitResolution
  <2>2. \A d \in Client : client'[d].pc = "idle" \/ client'[d] = client[d]
    BY <2>1 DEF Commits, IdleClient
  <2> QED
    BY <2>1, <2>2, NothingMoves
<1>11. CASE CommitFinal(c)
  BY <1>11, FinalizeKeeps
<1> QED
  BY <1>1, <1>2, <1>3, <1>4, <1>5, <1>6, <1>7, <1>8, <1>9, <1>10, <1>11 DEF RequestStep

LEMMA NextKeeps ==
    ASSUME PromiseInv, [Next]_vars
    PROVE  Kept /\ VersionInv'
<1> USE DEF PromiseInv, TypeInv, ReviewTypeOK, VersionInv, row
<1>1. CASE \E c \in Client : RequestStep(c)
  BY <1>1, RequestKeeps
<1>2. ASSUME NEW p \in Process, Crash(p)
      PROVE  Kept /\ VersionInv'
  BY <1>2, NothingMoves DEF Crash, IdleClient
<1>3. CASE AskAnalysis
  BY <1>3, NothingMoves DEF AskAnalysis
<1>4. ASSUME NEW a \in Analyst, AnalysisStep(a)
      PROVE  Kept /\ VersionInv'
  <2>1. CASE AnalysisReads(a) \/ AnalysisFails(a)
    BY <2>1, NothingMoves DEF AnalysisReads, AnalysisFails
  <2>2. CASE AnalysisCommits(a)
    <3>0. analyst[a] = status
      BY <2>2 DEF AnalysisCommits, SerialInv
    <3>1. status' = status \/ (status = "draft" /\ status' = "ai_analyzed")
      BY <2>2, <3>0 DEF AnalysisCommits
    <3>2. UNCHANGED <<versions, client>>
      BY <2>2 DEF AnalysisCommits
    <3>3. PhaseOf(status') = PhaseOf(status)
      BY <3>1 DEF PhaseOf, Immutable
    <3> QED
      BY <3>1, <3>2, <3>3 DEF Kept, PhaseOf, Final
  <2> QED
    BY <1>4, <2>1, <2>2 DEF AnalysisStep
<1>5. CASE UNCHANGED vars
  BY <1>5, NothingMoves DEF vars
<1> QED
  BY <1>1, <1>2, <1>3, <1>4, <1>5 DEF Next

\* KeepsThePromise: when no request or analysis overlaps another, a decision
\* is final, only an approved review is finalized or executed, it has at most
\* one final version, and nothing leaves the archive.  The two transition
\* tables and the guards of the handlers are together enough for that.
THEOREM AlonePromiseIsKept == ASSUME Serial PROVE Spec => KeepsThePromise
<1>1. Init => SerialInv /\ VersionInv /\ Promise!DecisionInit
  BY DEF Init, SerialInv, VersionInv, InProgress, IdleClient, Promise!DecisionInit, PhaseOf, Undecided
<1>2. TypeInv /\ CopiesInv /\ SerialInv /\ VersionInv /\ [Next]_vars
        => Kept /\ SerialInv' /\ VersionInv'
  BY NextKeeps, SerialNext DEF PromiseInv
<1> QED
  BY <1>1, <1>2, TypeInvHolds, CopiesInvHolds, PTL
     DEF Spec, KeepsThePromise, Promise!DecisionSpec, Kept

\* What the promise says of a review whose content is locked.
LEMMA KeptDecisionStands ==
    ASSUME Kept, status \in Immutable
    PROVE  status' \in {status} \cup review_transitions[status]
BY DEF Kept, PhaseOf, Immutable, Promise!DecisionNext, Promise!Decide, Promise!Finalize,
   Promise!Execute, Promise!Archive, review_transitions, ReviewStatus

\* When no request or analysis overlaps another, a decided review is moved only
\* along review_transitions, the table of ReviewRepository.update_status.
THEOREM DecisionStandsAlone == ASSUME Serial PROVE Spec => DecisionStands
<1>1. Init => SerialInv /\ VersionInv
  BY DEF Init, SerialInv, VersionInv, InProgress, IdleClient, Undecided
<1>2. TypeInv /\ CopiesInv /\ SerialInv /\ VersionInv /\ [Next]_vars
        => SerialInv' /\ VersionInv'
           /\ ((status \in Immutable) => status' \in {status} \cup review_transitions[status])
  BY NextKeeps, SerialNext, KeptDecisionStands DEF PromiseInv
<1> QED
  BY <1>1, <1>2, TypeInvHolds, CopiesInvHolds, PTL DEF Spec, DecisionStands
=============================================================================
