----------------------- MODULE IngestionPipelineProofs -----------------------
(***************************************************************************)
(* Proofs about IngestionPipeline, for any workers, clients, documents,    *)
(* limits and failures: its type invariant, and that the state of an       *)
(* upload never claims more than is stored for it.                         *)
(***************************************************************************)
EXTENDS IngestionPipeline, TLAPS

-----------------------------------------------------------------------------
(* What the helpers return.                                                *)

\* Overwriting the state leaves a row.
LEMMA WriteType ==
    ASSUME TypeOK, NEW s \in RowState
    PROVE  Write(s) \in Row
BY DEF TypeOK, Write, Row

\* Publishing a task leaves a bag of messages.
LEMMA PublishType ==
    ASSUME TypeOK, NEW t \in Task
    PROVE  Publish(t) \in [Message -> Nat]
<1>1. [task |-> t, retries |-> 0] \in Message
  BY TaskRetriesAssumption DEF Message
<1> QED
  BY <1>1 DEF TypeOK, Publish

\* So does returning a message to the broker for one more try.
LEMMA RetriedType ==
    ASSUME TypeOK, NEW t \in Task, NEW r \in 0..MaxTaskRetries
    PROVE  Retried(t, r) \in [Message -> Nat]
<1>1. TaskRetries[t] \in 0..MaxTaskRetries
  BY TaskRetriesAssumption
<1>2. CASE r < TaskRetries[t]
  <2>1. [task |-> t, retries |-> r + 1] \in Message
    BY <1>1, <1>2, TaskRetriesAssumption DEF Message
  <2> QED
    BY <1>2, <2>1 DEF TypeOK, Retried
<1>3. CASE ~(r < TaskRetries[t])
  BY <1>3 DEF TypeOK, Retried
<1> QED
  BY <1>2, <1>3

\* ... if somebody waits for the outcome of the task.
LEMMA TriedAgainType ==
    ASSUME TypeOK, NEW w \in Workers, worker[w] \in Busy
    PROVE  TriedAgain(w) \in [Message -> Nat]
BY RetriedType DEF TriedAgain, TypeOK, Busy

\* Taking a message that is there leaves a bag of messages.
LEMMA TakenType ==
    ASSUME TypeOK, NEW m \in Message, queue[m] > 0
    PROVE  Taken(m) \in [Message -> Nat]
BY DEF TypeOK, Taken

\* A worker with a program counter is executing a task.
LEMMA BusyWorker ==
    ASSUME TypeOK, NEW w \in Workers, worker[w] # Idle
    PROVE  worker[w] \in Busy
BY DEF TypeOK

LEMMA BusyAtPC ==
    ASSUME TypeOK, NEW w \in Workers, worker[w].pc \in PC
    PROVE  worker[w] \in Busy
BY DEF TypeOK, Idle, PC

\* The three ways in which a step changes what a worker is doing.
LEMMA GotoType ==
    ASSUME TypeOK, NEW w \in Workers, NEW pc \in PC, worker[w] \in Busy, Goto(w, pc)
    PROVE  worker' \in [Workers -> Busy \cup {Idle}]
BY DEF TypeOK, Goto, Busy

LEMMA GotoSeeingType ==
    ASSUME TypeOK, NEW w \in Workers, NEW pc \in PC, NEW s \in RowState,
           worker[w] \in Busy, GotoSeeing(w, pc, s)
    PROVE  worker' \in [Workers -> Busy \cup {Idle}]
BY DEF TypeOK, GotoSeeing, Busy

LEMMA DoneType ==
    ASSUME TypeOK, NEW w \in Workers, Done(w)
    PROVE  worker' \in [Workers -> Busy \cup {Idle}]
BY DEF TypeOK, Done

\* A task that raises leaves a worker and a bag of messages.
LEMMA FailType ==
    ASSUME TypeOK, NEW w \in Workers, worker[w] \in Busy, Fail(w)
    PROVE  /\ row' = row /\ store' = store
           /\ queue' \in [Message -> Nat]
           /\ worker' \in [Workers -> Busy \cup {Idle}]
<1>1. row.state \in RowState /\ "failing" \in PC
  BY DEF TypeOK, Row, PC
<1>2. CASE MarksFailed(w)
  BY <1>1, <1>2, GotoSeeingType DEF Fail, TypeOK
<1>3. CASE ~MarksFailed(w)
  BY <1>3, DoneType, TriedAgainType DEF Fail
<1> QED
  BY <1>2, <1>3 DEF Fail

-----------------------------------------------------------------------------
(* Type correctness.  On its own TypeOK is not inductive: a task hands over *)
(* to its successor, which the last task does not have.                    *)

AnalyzeIsLast == \A w \in Workers : ~At(w, "analyze", "handoff")

TypeInv == TypeOK /\ AnalyzeIsLast

LEMMA TypeInit == Init => TypeOK
<1>1. [EmptyStore EXCEPT !.object = TRUE] \in Store
  BY DEF EmptyStore, Store
<1>2. [state |-> "uploaded", retry_count |-> 0] \in Row
  BY DEF Row, RowState, IngestionState
<1> QED
  BY <1>1, <1>2, LimitsAssumption
     DEF Init, TypeOK, Idle, ClientPC, BeatPC, Message

\* A worker takes a message.
LEMMA TypeTake ==
    ASSUME TypeOK, NEW w \in Workers, Take(w)
    PROVE  TypeOK'
<1>1. PICK m \in Message : Begin(w, m) \/ Skip(w, m) \/ Refuse(w, m)
  BY DEF Take
<1>2. m.task \in Task /\ m.retries \in 0..MaxTaskRetries
  BY DEF Message
<1>3. CASE Begin(w, m)
  <2>1. FirstPC(m.task) \in PC
    BY DEF FirstPC, PC
  <2>2. row.state \in RowState
    BY DEF TypeOK, Row
  <2>3. worker' \in [Workers -> Busy \cup {Idle}]
    BY <1>2, <1>3, <2>1, <2>2 DEF Begin, TypeOK, Busy
  <2> QED
    BY <1>3, <2>3, TakenType DEF Begin, TypeOK, TaskFrame
<1>4. CASE Skip(w, m)
  BY <1>4, TakenType DEF Skip, TypeOK, TaskFrame
<1>5. CASE Refuse(w, m)
  <2>1. Taken(m) \in [Message -> Nat]
    BY <1>5, TakenType DEF Refuse
  <2>2. TaskRetries[m.task] \in 0..MaxTaskRetries
    BY <1>2, TaskRetriesAssumption
  <2>3. CASE m.retries < TaskRetries[m.task]
    <3>1. [m EXCEPT !.retries = @ + 1] \in Message
      BY <1>2, <2>2, <2>3, TaskRetriesAssumption DEF Message
    <3>2. queue' \in [Message -> Nat]
      BY <1>5, <2>1, <2>3, <3>1 DEF Refuse
    <3> QED
      BY <1>5, <3>2 DEF Refuse, TypeOK, TaskFrame
  <2>4. CASE ~(m.retries < TaskRetries[m.task])
    BY <1>5, <2>1, <2>4 DEF Refuse, TypeOK, TaskFrame
  <2> QED
    BY <2>3, <2>4
<1> QED
  BY <1>1, <1>3, <1>4, <1>5

\* A worker executes a step of its task.
LEMMA TypeWork ==
    ASSUME TypeInv, NEW w \in Workers, Work(w)
    PROVE  TypeOK'
<1> USE DEF TaskFrame, TypeInv
<1>0. worker[w] \in Busy
  BY BusyAtPC DEF Work, Handoff, MarkFailed, IngestClaim, ValidateReject, ValidatePublish,
     ValidateCommit, ValidateNoObject, ConfirmStorage, ExtractClaim, ExtractEncrypted,
     ExtractFails, ExtractComplete, Extracting, ChunkClaim, ChunkNoPages, ChunkStore,
     ChunkConflict, ChunkCommit, Chunking, EmbedNothing, EmbedStore, EmbedNoUpload,
     EmbedCommit, AnalyzeRead, AnalyzeRejected, AnalyzeCommit, At, PC
<1>1. worker[w].task \in Task /\ worker[w].retries \in 0..MaxTaskRetries
      /\ worker[w].seen \in RowState
  BY <1>0 DEF Busy
<1>2. row.state \in RowState
  BY DEF TypeOK, Row
<1>3. /\ {"start", "claimed", "published", "stored", "insert", "update", "handoff",
          "failing"} \subseteq PC
      /\ {"validating", "validated", "storage_confirmed", "ocr_pending", "ocr_processing",
          "ocr_complete", "chunking_pending", "embedding_pending", "analysis_pending",
          "review_ready", "failed", "quarantined"} \subseteq RowState
  BY DEF PC, RowState, IngestionState
<1>4. CASE Fail(w) /\ TaskFrame
  BY <1>0, <1>4, FailType DEF TypeOK
<1>5. CASE Handoff(w)
  <2>1. Successor[worker[w].task] \in Task
    BY <1>1, <1>5 DEF AnalyzeIsLast, At, Handoff, Task, Successor
  <2> QED
    BY <1>5, <2>1, PublishType, DoneType DEF Handoff, TypeOK
<1>6. CASE MarkFailed(w)
  <2>1. row' \in Row
    BY <1>3, <1>6, WriteType DEF MarkFailed, TypeOK
  <2>2. queue' \in [Message -> Nat]
    BY <1>0, <1>6, TriedAgainType DEF MarkFailed, TypeOK
  <2> QED
    BY <1>6, <2>1, <2>2, DoneType DEF MarkFailed, TypeOK
<1>7. CASE IngestClaim(w)
  <2>1. worker' \in [Workers -> Busy \cup {Idle}]
    BY <1>0, <1>3, <1>7, GotoType, DoneType DEF IngestClaim
  <2> QED
    BY <1>3, <1>7, <2>1, WriteType DEF IngestClaim, TypeOK
<1>8. CASE ValidateReject(w)
  BY <1>8, DoneType DEF ValidateReject, TypeOK
<1>9. CASE ValidatePublish(w)
  <2>1. queue' \in [Message -> Nat]
    BY <1>9, PublishType DEF ValidatePublish, Task
  <2> QED
    BY <1>0, <1>3, <1>9, <2>1, GotoType DEF ValidatePublish, TypeOK
<1>10. CASE ValidateCommit(w)
  BY <1>3, <1>10, WriteType, DoneType DEF ValidateCommit, TypeOK
<1>11. CASE ConfirmStorage(w)
  <2>1. CASE store.object
    BY <1>0, <1>3, <1>11, <2>1, WriteType, GotoType DEF ConfirmStorage, TypeOK
  <2>2. CASE ~store.object
    BY <1>3, <1>11, <2>2, WriteType, DoneType DEF ConfirmStorage, TypeOK
  <2> QED
    BY <2>1, <2>2
<1>12. CASE ExtractClaim(w)
  BY <1>0, <1>3, <1>12, WriteType, GotoSeeingType DEF ExtractClaim, TypeOK
<1>13. CASE ExtractEncrypted(w)
  BY <1>0, <1>2, <1>3, <1>13, GotoSeeingType DEF ExtractEncrypted, TypeOK
<1>14. CASE ExtractComplete(w)
  <2>1. store' \in Store
    BY <1>14 DEF ExtractComplete, TypeOK, Store
  <2>2. CASE document = "poor"
    BY <1>3, <1>14, <2>1, <2>2, WriteType, DoneType DEF ExtractComplete, TypeOK
  <2>3. CASE document # "poor"
    BY <1>0, <1>3, <1>14, <2>1, <2>3, WriteType, GotoType DEF ExtractComplete, TypeOK
  <2> QED
    BY <2>2, <2>3
<1>15. CASE ChunkClaim(w)
  BY <1>0, <1>3, <1>15, WriteType, GotoSeeingType DEF ChunkClaim, TypeOK
<1>16. CASE ChunkNoPages(w)
  BY <1>3, <1>16, WriteType, DoneType DEF ChunkNoPages, TypeOK
<1>17. CASE ChunkStore(w)
  <2>1. store' \in Store
    BY <1>17 DEF ChunkStore, TypeOK, Store
  <2> QED
    BY <1>0, <1>3, <1>17, <2>1, GotoType DEF ChunkStore, TypeOK
<1>18. CASE ChunkCommit(w)
  BY <1>0, <1>3, <1>18, WriteType, GotoType DEF ChunkCommit, TypeOK
<1>19. CASE EmbedNothing(w)
  BY <1>3, <1>19, WriteType, DoneType DEF EmbedNothing, TypeOK
<1>20. CASE EmbedStore(w)
  <2>1. store' \in Store
    BY <1>20 DEF EmbedStore, TypeOK, Store
  <2> QED
    BY <1>0, <1>3, <1>20, <2>1, GotoType DEF EmbedStore, TypeOK
<1>21. CASE EmbedCommit(w)
  BY <1>0, <1>3, <1>21, WriteType, GotoType DEF EmbedCommit, TypeOK
<1>22. CASE AnalyzeRead(w)
  BY <1>0, <1>2, <1>3, <1>22, GotoSeeingType DEF AnalyzeRead, TypeOK
<1>23. CASE AnalyzeCommit(w)
  <2>1. store' \in Store
    BY <1>23 DEF AnalyzeCommit, TypeOK, Store
  <2>2. row' \in Row
    BY <1>3, <1>23, WriteType DEF AnalyzeCommit, TypeOK
  <2> QED
    BY <1>23, <2>1, <2>2, DoneType DEF AnalyzeCommit, TypeOK
<1> QED
  BY <1>4, <1>5, <1>6, <1>7, <1>8, <1>9, <1>10, <1>11, <1>12, <1>13, <1>14, <1>15, <1>16,
     <1>17, <1>18, <1>19, <1>20, <1>21, <1>22, <1>23
     DEF Work, ValidateNoObject, ExtractFails, ChunkConflict, EmbedNoUpload, AnalyzeRejected

\* A request of the API begins or goes on.
LEMMA TypeRequest ==
    ASSUME TypeOK, NEW c \in Clients, RetryRead(c) \/ DeleteObject(c) \/ Continue(c)
    PROVE  TypeOK'
<1> USE DEF RequestFrame
<1>1. CASE RetryRead(c)
  BY <1>1 DEF RetryRead, TypeOK, ClientPC
<1>2. CASE DeleteObject(c)
  BY <1>2 DEF DeleteObject, TypeOK, ClientPC, Store
<1>3. CASE RetryCommit(c)
  <2>1. row' \in Row
    BY <1>3 DEF RetryCommit, TypeOK, Row, RowState, IngestionState
  <2>2. client' \in [Clients -> ClientPC]
    BY <1>3 DEF RetryCommit, TypeOK, ClientPC
  <2> QED
    BY <1>3, <2>1, <2>2 DEF RetryCommit, TypeOK
<1>4. CASE RetryDispatch(c)
  <2>1. queue' \in [Message -> Nat]
    BY <1>4, PublishType DEF RetryDispatch, Task
  <2> QED
    BY <1>4, <2>1 DEF RetryDispatch, TypeOK, ClientPC
<1>5. CASE DeleteRow(c)
  <2>1. row' \in Row
    BY <1>5 DEF DeleteRow, TypeOK, Row, RowState
  <2>2. store' \in Store
    BY <1>5 DEF DeleteRow, EmptyStore, Store, TypeOK
  <2> QED
    BY <1>5, <2>1, <2>2 DEF DeleteRow, TypeOK, ClientPC
<1> QED
  BY <1>1, <1>2, <1>3, <1>4, <1>5 DEF Continue

\* The periodic recovery, and everything that fails.
LEMMA TypeRecovery ==
    ASSUME TypeOK, (\E s \in Scans : RecoverScan(s) \/ RecoverCommit(s)) \/ Failures
    PROVE  TypeOK'
<1>1. ASSUME NEW s \in Scans, RecoverScan(s)
      PROVE  TypeOK'
  <2>1. queue' \in [Message -> Nat]
    <3>1. CASE row.state \in Requeueable /\ row.retry_count < MaxRetries
      <4>1. redispatch_ingestion(row.state) \in Task
        BY <3>1 DEF Requeueable, redispatch_ingestion, Task
      <4> QED
        BY <1>1, <3>1, <4>1, PublishType DEF RecoverScan
    <3>2. CASE ~(row.state \in Requeueable /\ row.retry_count < MaxRetries)
      BY <1>1, <3>2 DEF RecoverScan, TypeOK
    <3> QED
      BY <3>1, <3>2
  <2>2. beat' \in [Scans -> BeatPC]
    BY <1>1 DEF RecoverScan, TypeOK, BeatPC
  <2> QED
    BY <1>1, <2>1, <2>2 DEF RecoverScan, BeatFrame, TypeOK
<1>2. ASSUME NEW s \in Scans, RecoverCommit(s)
      PROVE  TypeOK'
  <2>1. Write("failed") \in Row
    BY WriteType DEF RowState, IngestionState
  <2>2. row' \in Row
    BY <1>2, <2>1 DEF RecoverCommit, TypeOK, Row
  <2> QED
    BY <1>2, <2>2 DEF RecoverCommit, BeatFrame, TypeOK, BeatPC
<1>3. CASE Failures
  <2>1. ASSUME NEW w \in Workers, TaskError(w)
        PROVE  TypeOK'
    <3>1. worker[w] \in Busy
      BY <2>1, BusyAtPC DEF TaskError
    <3> QED
      BY <2>1, <3>1, FailType DEF TaskError, Fault, TypeOK
  <2>2. ASSUME NEW w \in Workers, WorkerKilled(w)
        PROVE  TypeOK'
    BY <2>2, DoneType DEF WorkerKilled, Fault, TypeOK
  <2>3. ASSUME NEW w \in Workers, SoftTimeLimit(w)
        PROVE  TypeOK'
    <3>1. worker[w] \in Busy
      BY <2>3, BusyWorker DEF SoftTimeLimit
    <3>2. [worker EXCEPT ![w].awaited = FALSE] \in [Workers -> Busy \cup {Idle}]
      BY <3>1 DEF TypeOK, Busy
    <3>3. worker' \in [Workers -> Busy \cup {Idle}]
      BY <2>3, <3>2, DoneType DEF SoftTimeLimit
    <3> QED
      BY <2>3, <3>1, <3>3, TriedAgainType DEF SoftTimeLimit, Fault, TypeOK
  <2>4. ASSUME NEW w \in Workers, NodeLost(w)
        PROVE  TypeOK'
    <3>1. worker[w] \in Busy
      BY <2>4, BusyWorker DEF NodeLost
    <3>2. [task |-> worker[w].task, retries |-> worker[w].retries] \in Message
      BY <3>1 DEF Busy, Message
    <3>3. queue' \in [Message -> Nat]
      BY <2>4, <3>2 DEF NodeLost, TypeOK
    <3> QED
      BY <2>4, <3>3, DoneType DEF NodeLost, Fault, TypeOK
  <2>5. ASSUME NEW c \in Clients, RequestLost(c) \/ DeleteObjectFails(c)
        PROVE  TypeOK'
    BY <2>5 DEF RequestLost, DeleteObjectFails, Fault, TypeOK, ClientPC
  <2>6. ASSUME NEW s \in Scans, RecoverAbort(s)
        PROVE  TypeOK'
    BY <2>6 DEF RecoverAbort, Fault, TypeOK, BeatPC
  <2>7. CASE Restart
    BY <2>7 DEF Restart, Fault, TypeOK, Row, RowState, IngestionState
  <2> QED
    BY <1>3, <2>1, <2>2, <2>4, <2>5, <2>6, <2>7, <2>3 DEF Failures
<1> QED
  BY <1>1, <1>2, <1>3

LEMMA TypeNext == TypeInv /\ [Next]_vars => TypeOK'
<1>1. ASSUME TypeOK, UNCHANGED vars
      PROVE  TypeOK'
  BY <1>1 DEF vars, TypeOK
<1> QED
  BY <1>1, TypeTake, TypeWork, TypeRequest, TypeRecovery DEF Next, TypeInv

\* No step sends a worker that analyses to the handoff.
LEMMA AnalyzeStaysLast == TypeInv /\ [Next]_vars => AnalyzeIsLast'
<1> SUFFICES ASSUME TypeInv, [Next]_vars, NEW v \in Workers, At(v, "analyze", "handoff")'
             PROVE  FALSE
  BY DEF AnalyzeIsLast
<1> USE DEF TypeInv, AnalyzeIsLast, At
<1>1. worker'[v] # worker[v] /\ worker'[v] # Idle
  BY DEF Idle
<1>2. ASSUME NEW w \in Workers, NEW m \in Message, Begin(w, m)
      PROVE  FALSE
  BY <1>1, <1>2 DEF Begin, FirstPC, TypeOK, Idle
<1>3. ASSUME NEW w \in Workers, Fail(w)
      PROVE  FALSE
  <2>1. CASE GotoSeeing(w, "failing", row.state)
    BY <1>1, <2>1 DEF GotoSeeing, TypeOK, Busy, Idle
  <2>2. CASE Done(w)
    BY <1>1, <2>2 DEF Done, TypeOK
  <2> QED
    BY <1>3, <2>1, <2>2 DEF Fail
<1>4. ASSUME NEW w \in Workers, Done(w)
      PROVE  FALSE
  BY <1>1, <1>4 DEF Done, TypeOK
<1>5. ASSUME NEW w \in Workers, NEW pc, worker[w].task # "analyze", Goto(w, pc)
      PROVE  FALSE
  BY <1>1, <1>5 DEF Goto, TypeOK, Busy, Idle
<1>6. ASSUME NEW w \in Workers, NEW pc, NEW s, pc # "handoff", GotoSeeing(w, pc, s)
      PROVE  FALSE
  BY <1>1, <1>6 DEF GotoSeeing, TypeOK, Busy, Idle
<1>7. ASSUME NEW w \in Workers, Take(w)
      PROVE  FALSE
  BY <1>1, <1>2, <1>7 DEF Take, Skip, Refuse
<1>8. ASSUME NEW w \in Workers, Work(w)
      PROVE  FALSE
  BY <1>3, <1>4, <1>5, <1>6, <1>8
     DEF Work, Handoff, MarkFailed, IngestClaim, ValidateReject, ValidatePublish,
     ValidateCommit, ValidateNoObject, ConfirmStorage, ExtractClaim, ExtractEncrypted,
     ExtractFails, ExtractComplete, Extracting, ChunkClaim, ChunkNoPages, ChunkStore,
     ChunkConflict, ChunkCommit, Chunking, EmbedNothing, EmbedStore, EmbedNoUpload,
     EmbedCommit, AnalyzeRead, AnalyzeRejected, AnalyzeCommit
<1>9. ASSUME NEW c \in Clients, RetryRead(c) \/ DeleteObject(c) \/ Continue(c)
      PROVE  FALSE
  BY <1>1, <1>9 DEF RetryRead, DeleteObject, Continue, RetryCommit, RetryDispatch,
     DeleteRow, RequestFrame
<1>10. ASSUME \/ \E s \in Scans : RecoverScan(s) \/ RecoverCommit(s) \/ RecoverAbort(s)
              \/ Restart
       PROVE  FALSE
  BY <1>1, <1>10 DEF RecoverScan, RecoverCommit, RecoverAbort, Restart, BeatFrame
<1>11. ASSUME NEW w \in Workers, SoftTimeLimit(w)
       PROVE  FALSE
  BY <1>1, <1>4, <1>11 DEF SoftTimeLimit, TypeOK, Busy
<1>12. CASE Failures
  BY <1>1, <1>3, <1>4, <1>10, <1>12, <1>11
     DEF Failures, TaskError, WorkerKilled, NodeLost, RequestLost, DeleteObjectFails
<1>13. CASE UNCHANGED vars
  BY <1>1, <1>13 DEF vars
<1> QED
  BY <1>7, <1>8, <1>9, <1>10, <1>12, <1>13 DEF Next

LEMMA TypeInvariant == Spec => []TypeInv
<1>1. Init => TypeInv
  BY TypeInit DEF Init, TypeInv, AnalyzeIsLast, At, Idle
<1>2. TypeInv /\ [Next]_vars => TypeInv'
  BY TypeNext, AnalyzeStaysLast DEF TypeInv
<1> QED
  BY <1>1, <1>2, PTL DEF Spec

\* The type invariant: every variable stays in its type, for any number of
\* workers, requests, messages and failures; in particular a message is never
\* taken that is not there and none has more retries than its task allows.
THEOREM TypeCorrect == Spec => []TypeOK
<1>1. TypeInv => TypeOK
  BY DEF TypeInv
<1> QED
  BY <1>1, TypeInvariant, PTL
=============================================================================
