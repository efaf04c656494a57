-------------------------- MODULE IngestionPipeline --------------------------
(***************************************************************************)
(* The life of one upload: its row in upload_sessions, what the pipeline   *)
(* has stored for it, the Celery messages about it, the worker processes   *)
(* that execute them, the API requests that retry or delete it, and the    *)
(* two recovery passes that look for stuck uploads.                        *)
(*                                                                         *)
(* Granularity.  A step is what one database transaction, or one publish,  *)
(* makes visible to the others.  A task reads the row once, keeps the      *)
(* object in its session (expire_on_commit = FALSE, so later lookups       *)
(* return the same, possibly stale, object), and every later update_state  *)
(* checks the transition against that copy and then overwrites the row     *)
(* by its id.  worker[w].seen is that copy.  A rollback expires it.        *)
(***************************************************************************)
EXTENDS Naturals, FiniteSets, IngestionStates

CONSTANTS
    Workers,             \* the coroutines of tasks that may be in progress together:
                         \* one for each Celery worker process, and one for each
                         \* task that a soft time limit may leave behind
    Clients,             \* the API requests that may be in progress together
    Requests,            \* what they may ask for: a subset of {"retry", "delete"}
    Scans,               \* the recover_stuck_workflows that may overlap: the beat
                         \* schedule starts one every five minutes, and a second
                         \* one at minute 0
    Documents,           \* the kinds of document that may be uploaded
    TaskRetries,         \* max_retries of each task; 0: it is not retried
    MaxTaskRetries,      \* the largest of them
    MaxRetries,          \* retry_count limit of the API and of the recovery
    MaxRecoveryAttempts, \* recovery actions per upload
    FaultKinds,          \* the failures the environment may cause ...
    MaxFaults,           \* ... and how many of them (a bound of the model)
    Timely               \* TRUE: work in progress never outlasts a recovery
                         \* threshold or a user's patience, nor do scans overlap

ASSUME TaskRetriesAssumption ==
    MaxTaskRetries \in Nat /\ TaskRetries \in [Task -> 0..MaxTaskRetries]
ASSUME LimitsAssumption ==
    MaxRetries \in Nat /\ MaxRecoveryAttempts \in Nat /\ MaxFaults \in Nat
ASSUME FiniteAssumption ==
    IsFiniteSet(Workers) /\ IsFiniteSet(Clients) /\ IsFiniteSet(Scans) /\ Scans # {}

VARIABLES
    document,    \* what was uploaded; nothing changes it
    row,         \* the upload_sessions row: its state and retry_count
    store,       \* what hangs off the row: object in S3, pages, chunks, reviews
    queue,       \* how many messages of each kind wait in the broker
    worker,      \* what each coroutine of a task is doing
    client,      \* what each API request is doing
    beat,        \* what each scan of the periodic recovery is doing
    recoveries,  \* recovery_actions recorded for the upload
    faults       \* how many failures the environment has left

vars == <<document, row, store, queue, worker, client, beat, recoveries, faults>>

-----------------------------------------------------------------------------
(* Types.                                                                  *)

Row == [state : RowState, retry_count : Nat]

\* chunks: none stored, some still without an embedding, or all embedded.
Store == [object : BOOLEAN, pages : BOOLEAN,
          chunks : {"none", "pending", "embedded"}, reviews : Nat]
EmptyStore == [object |-> FALSE, pages |-> FALSE, chunks |-> "none", reviews |-> 0]

Message == [task : Task, retries : 0..MaxTaskRetries]

(***************************************************************************)
(* pc of a worker:                                                         *)
(*   start      the row is read and the task's guard has passed            *)
(*   claimed    the task has committed a state that says it is working     *)
(*   published  validate: successor published, VALIDATED not committed     *)
(*   empty      embed: no chunk is pending                                 *)
(*   stored     the task's results are committed, the next state is not    *)
(*   insert, update   analyze: no review was found, or one was             *)
(*   handoff    all is committed, the successor is not published           *)
(*   failing    rolled back, row read again, about to mark it FAILED       *)
(* awaited: its process waits for it.  SoftTimeLimitExceeded ends the wait *)
(* and not the coroutine, which goes on beside the process's next task.    *)
(***************************************************************************)
PC == {"start", "claimed", "published", "empty", "stored", "insert",
       "update", "handoff", "failing"}
Busy == [task : Task, retries : 0..MaxTaskRetries, pc : PC, seen : RowState,
         awaited : BOOLEAN]
Idle == [task |-> "none", retries |-> 0, pc |-> "idle", seen |-> "none",
         awaited |-> TRUE]

ClientPC == {"idle", "retrying", "dispatching", "deleting"}
BeatPC == {"idle", "requeue", "count", "fail"}

TypeOK ==
    /\ document \in Documents
    /\ row \in Row
    /\ store \in Store
    /\ queue \in [Message -> Nat]
    /\ worker \in [Workers -> Busy \cup {Idle}]
    /\ client \in [Clients -> ClientPC]
    /\ beat \in [Scans -> BeatPC]
    /\ recoveries \in Nat
    /\ faults \in Nat

-----------------------------------------------------------------------------
(* Helpers.                                                                *)

Exists == row.state # "deleted"

\* A blind UPDATE ... WHERE upload_id: it changes nothing when the row is gone.
Write(s) == IF Exists THEN [row EXCEPT !.state = s] ELSE row

\* update_state as a task calls it: get_upload finds no row and nothing is
\* checked, or the copy in the session has to allow the transition.
MayBecome(w, s) == ~Exists \/ can_transition_to(worker[w].seen, s)

At(w, t, pc) == worker[w].task = t /\ worker[w].pc = pc

\* validate has updated the row and not committed: the row is locked.
RowFree(w) == \A v \in Workers \ {w} : worker[v].pc # "published"

\* Variant: no foreign key makes a DELETE wait.
NeverHeld == FALSE

\* Rows that refer to the upload have been inserted and not committed, or the
\* row itself is locked: a DELETE of the upload waits.
RowHeld == \E w \in Workers : worker[w].pc \in {"published", "insert", "update"}

Publish(t) == [queue EXCEPT ![[task |-> t, retries |-> 0]] = @ + 1]

Goto(w, pc) == worker' = [worker EXCEPT ![w].pc = pc]
GotoSeeing(w, pc, s) == worker' = [worker EXCEPT ![w].pc = pc, ![w].seen = s]
Done(w) == worker' = [worker EXCEPT ![w] = Idle]

\* autoretry: the message comes back with one more retry, unless it had them all.
Retried(t, r) ==
    IF r < TaskRetries[t]
    THEN [queue EXCEPT ![[task |-> t, retries |-> r + 1]] = @ + 1]
    ELSE queue

\* The same for the task of w, if anybody still waits for its outcome.
TriedAgain(w) ==
    IF worker[w].awaited THEN Retried(worker[w].task, worker[w].retries) ELSE queue

\* The tasks whose handler of an exception tries to mark the upload FAILED.
MarksFailed(w) ==
    \/ worker[w].task \in {"validate", "chunk", "embed"}
    \/ worker[w].task = "extract" /\ worker[w].retries >= TaskRetries["extract"]

\* The body of a task raises: its transaction is rolled back, and the task
\* either goes on to mark the upload FAILED or lets the exception out.
Fail(w) ==
    /\ UNCHANGED <<row, store>>
    /\ IF MarksFailed(w)
       THEN GotoSeeing(w, "failing", row.state) /\ UNCHANGED queue
       ELSE Done(w) /\ queue' = TriedAgain(w)

\* Nothing is in progress.
Quiet ==
    /\ \A m \in Message : queue[m] = 0
    /\ \A w \in Workers : worker[w] = Idle
    /\ \A c \in Clients : client[c] = "idle"
    /\ \A s \in Scans : beat[s] = "idle"

\* What a step of a task leaves alone.
TaskFrame == UNCHANGED <<document, client, beat, recoveries, faults>>

-----------------------------------------------------------------------------
(* Taking a message.                                                       *)

\* Variant: confirm_storage does not look at the state.
AcceptsUnvalidated(t) ==
    CASE t \in {"ingest", "confirm"} -> Exists
      [] t = "validate" -> row.state = "validating"
      [] t = "extract"  -> row.state \in {"ocr_pending", "storage_confirmed", "ocr_processing"}
      [] t = "chunk"    -> row.state \in {"ocr_complete", "chunking_pending", "embedding_pending"}
      [] t = "embed"    -> row.state = "embedding_pending"
      [] t = "analyze"  -> store.chunks # "none"

Accepts(t) ==
    CASE t = "ingest"   -> Exists
      [] t = "validate" -> row.state = "validating"
      [] t = "confirm"  -> row.state = "validated"
      [] t = "extract"  -> row.state \in {"ocr_pending", "storage_confirmed", "ocr_processing"}
      [] t = "chunk"    -> row.state \in {"ocr_complete", "chunking_pending", "embedding_pending"}
      [] t = "embed"    -> row.state = "embedding_pending"
      [] t = "analyze"  -> store.chunks # "none"

\* A message the task refuses with an exception; the others it just drops.
Raises(t) ==
    \/ t \in {"ingest", "validate"} /\ ~Exists
    \/ t = "analyze" /\ store.chunks = "none"

FirstPC(t) ==
    CASE t = "ingest" /\ row.state # "uploaded"         -> "handoff"
      [] t = "chunk" /\ row.state = "embedding_pending" -> "handoff"
      [] t = "embed" /\ store.chunks # "pending"        -> "empty"
      [] OTHER                                          -> "start"

\* Variant: the message is acknowledged when it is taken and again at the end.
TakenTwice(m) == [queue EXCEPT ![m] = @ - 2]

Taken(m) == [queue EXCEPT ![m] = @ - 1]

\* A worker takes a message, reads the row and passes the task's guard.
Begin(w, m) ==
    /\ worker[w] = Idle /\ queue[m] > 0
    /\ Accepts(m.task)
    /\ queue' = Taken(m)
    /\ worker' = [worker EXCEPT ![w] = [task |-> m.task, retries |-> m.retries,
                                        pc |-> FirstPC(m.task), seen |-> row.state,
                                        awaited |-> TRUE]]
    /\ UNCHANGED <<row, store>> /\ TaskFrame

\* ... or the task returns at once: the upload is not in a state it handles.
Skip(w, m) ==
    /\ worker[w] = Idle /\ queue[m] > 0
    /\ ~Accepts(m.task) /\ ~Raises(m.task)
    /\ queue' = Taken(m)
    /\ UNCHANGED <<row, store, worker>> /\ TaskFrame

\* ... or it raises at once: the row is gone, or there is nothing to analyse.
Refuse(w, m) ==
    /\ worker[w] = Idle /\ queue[m] > 0
    /\ Raises(m.task)
    /\ queue' = IF m.retries < TaskRetries[m.task]
                THEN [Taken(m) EXCEPT ![[m EXCEPT !.retries = @ + 1]] = @ + 1]
                ELSE Taken(m)
    /\ UNCHANGED <<row, store, worker>> /\ TaskFrame

\* The last step of every task but analyze: publish the next one.
Handoff(w) ==
    /\ worker[w].pc = "handoff"
    /\ queue' = Publish(Successor[worker[w].task])
    /\ Done(w)
    /\ UNCHANGED <<row, store>> /\ TaskFrame

\* Variant: a failed upload is cleaned up, so that a retry can start over.
MarkFailedAndPurge(w) ==
    /\ worker[w].pc = "failing" /\ RowFree(w)
    /\ row' = IF MayBecome(w, "failed") THEN Write("failed") ELSE row
    /\ store' = [EmptyStore EXCEPT !.object = store.object]
    /\ queue' = IF worker[w].task = "extract" THEN queue
                ELSE TriedAgain(w)
    /\ Done(w)
    /\ TaskFrame

\* The handler of an exception: mark FAILED what the fresh read found, if the
\* transition is legal, and let the exception out.  extract swallows it.
MarkFailed(w) ==
    /\ worker[w].pc = "failing" /\ RowFree(w)
    /\ row' = IF MayBecome(w, "failed") THEN Write("failed") ELSE row
    /\ queue' = IF worker[w].task = "extract" THEN queue
                ELSE TriedAgain(w)
    /\ Done(w)
    /\ UNCHANGED store /\ TaskFrame

-----------------------------------------------------------------------------
(* ingest_document: UPLOADED -> VALIDATING.  Its coroutine only writes the *)
(* state; the successor is published by the process that waits for it.    *)

IngestClaim(w) ==
    /\ At(w, "ingest", "start") /\ RowFree(w)
    /\ row' = Write("validating")
    /\ IF worker[w].awaited THEN Goto(w, "handoff") ELSE Done(w)
    /\ UNCHANGED <<store, queue>> /\ TaskFrame

-----------------------------------------------------------------------------
(* validate_upload: VALIDATING -> VALIDATED.                               *)

\* A checksum mismatch or bad magic bytes: FAILED is written, and the task
\* returns without a commit, so that nothing of it remains.
ValidateReject(w) ==
    /\ At(w, "validate", "start") /\ RowFree(w)
    /\ store.object /\ document = "mismatch"
    /\ Done(w)
    /\ UNCHANGED <<row, store, queue>> /\ TaskFrame

\* The upload is valid: the row is updated and confirm_storage is published
\* before the transaction commits.
ValidatePublish(w) ==
    /\ At(w, "validate", "start") /\ RowFree(w)
    /\ store.object /\ document # "mismatch"
    /\ queue' = Publish("confirm")
    /\ Goto(w, "published")
    /\ UNCHANGED <<row, store>> /\ TaskFrame

ValidateCommit(w) ==
    /\ At(w, "validate", "published")
    /\ row' = Write("validated")
    /\ Done(w)
    /\ UNCHANGED <<store, queue>> /\ TaskFrame

\* The object cannot be downloaded.
ValidateNoObject(w) ==
    /\ At(w, "validate", "start") /\ ~store.object
    /\ Fail(w) /\ TaskFrame

-----------------------------------------------------------------------------
(* confirm_storage: VALIDATED -> STORAGE_CONFIRMED.                        *)

ConfirmStorage(w) ==
    /\ At(w, "confirm", "start") /\ RowFree(w)
    /\ IF store.object
       THEN row' = Write("storage_confirmed") /\ Goto(w, "handoff")
       ELSE row' = Write("failed") /\ Done(w)
    /\ UNCHANGED <<store, queue>> /\ TaskFrame

-----------------------------------------------------------------------------
(* extract_document: STORAGE_CONFIRMED -> OCR_PENDING -> OCR_PROCESSING -> *)
(* OCR_COMPLETE.                                                           *)

\* The two commits that claim the upload.
ExtractClaim(w) ==
    /\ worker[w].task = "extract" /\ worker[w].pc \in {"start", "claimed"} /\ RowFree(w)
    /\ \E next \in {"ocr_pending", "ocr_processing"} :
         /\ can_transition_to(worker[w].seen, next)
         /\ row' = Write(next)
         /\ GotoSeeing(w, "claimed", next)
    /\ UNCHANGED <<store, queue>> /\ TaskFrame

Extracting(w) ==
    /\ worker[w].task = "extract" /\ worker[w].pc \in {"start", "claimed"}
    /\ worker[w].seen = "ocr_processing"

\* An encrypted document: every attempt ends in FAILED, none is retried.
ExtractEncrypted(w) ==
    /\ Extracting(w) /\ Exists /\ store.object /\ document = "encrypted"
    /\ GotoSeeing(w, "failing", row.state)
    /\ UNCHANGED <<row, store, queue>> /\ TaskFrame

\* The extraction cannot be stored or judged: no upload or object any more,
\* pages that an earlier extraction has committed (uq_page_per_upload), or a
\* scan, which handle_quality_result sends from OCR_PROCESSING back to
\* OCR_PENDING, a transition update_state refuses.
ExtractFails(w) ==
    /\ Extracting(w)
    /\ \/ ~Exists \/ ~store.object
       \/ document # "encrypted" /\ (store.pages \/ document = "scan")
    /\ Fail(w) /\ TaskFrame

\* The pages and the verdict on their quality are committed together.
ExtractComplete(w) ==
    /\ Extracting(w) /\ RowFree(w)
    /\ Exists /\ store.object /\ ~store.pages
    /\ document \notin {"encrypted", "scan"}
    /\ store' = [store EXCEPT !.pages = TRUE]
    /\ IF document = "poor"
       THEN row' = Write("quarantined") /\ Done(w)
       ELSE row' = Write("ocr_complete") /\ Goto(w, "handoff")
    /\ UNCHANGED queue /\ TaskFrame

-----------------------------------------------------------------------------
(* chunk_document: OCR_COMPLETE -> CHUNKING_PENDING -> EMBEDDING_PENDING.  *)

ChunkClaim(w) ==
    /\ At(w, "chunk", "start") /\ worker[w].seen = "ocr_complete" /\ RowFree(w)
    /\ row' = Write("chunking_pending")
    /\ GotoSeeing(w, "claimed", "chunking_pending")
    /\ UNCHANGED <<store, queue>> /\ TaskFrame

Chunking(w) ==
    /\ worker[w].task = "chunk" /\ worker[w].pc \in {"start", "claimed"}
    /\ worker[w].seen = "chunking_pending"

ChunkNoPages(w) ==
    /\ Chunking(w) /\ ~store.pages /\ RowFree(w)
    /\ row' = Write("failed")
    /\ Done(w)
    /\ UNCHANGED <<store, queue>> /\ TaskFrame

ChunkStore(w) ==
    /\ Chunking(w) /\ store.pages /\ store.chunks = "none"
    /\ store' = [store EXCEPT !.chunks = "pending"]
    /\ Goto(w, "stored")
    /\ UNCHANGED <<row, queue>> /\ TaskFrame

\* The chunks are there already (uq_chunk_per_upload).
ChunkConflict(w) ==
    /\ Chunking(w) /\ store.pages /\ store.chunks # "none"
    /\ Fail(w) /\ TaskFrame

ChunkCommit(w) ==
    /\ At(w, "chunk", "stored") /\ RowFree(w)
    /\ row' = Write("embedding_pending")
    /\ Goto(w, "handoff")
    /\ UNCHANGED <<store, queue>> /\ TaskFrame

-----------------------------------------------------------------------------
(* generate_embeddings: EMBEDDING_PENDING -> ANALYSIS_PENDING.             *)

\* No chunk was pending: the state moves on, and analysis is not dispatched.
EmbedNothing(w) ==
    /\ At(w, "embed", "empty") /\ RowFree(w)
    /\ row' = Write("analysis_pending")
    /\ Done(w)
    /\ UNCHANGED <<store, queue>> /\ TaskFrame

\* A batch the provider rejects is recorded and skipped, and only the first
\* 100 pending chunks are read: some chunks may stay without an embedding.
EmbedStore(w) ==
    /\ At(w, "embed", "start") /\ Exists
    /\ \E left \in {"pending", "embedded"} :
         store' = [store EXCEPT !.chunks = IF @ = "pending" THEN left ELSE @]
    /\ Goto(w, "stored")
    /\ UNCHANGED <<row, queue>> /\ TaskFrame

\* The embedding run of a deleted upload cannot be inserted.
EmbedNoUpload(w) ==
    /\ At(w, "embed", "start") /\ ~Exists
    /\ Fail(w) /\ TaskFrame

EmbedCommit(w) ==
    /\ At(w, "embed", "stored") /\ RowFree(w)
    /\ row' = Write("analysis_pending")
    /\ Goto(w, "handoff")
    /\ UNCHANGED <<store, queue>> /\ TaskFrame

-----------------------------------------------------------------------------
(* analyze_contract: ANALYSIS_PENDING -> REVIEW_READY, with a review.      *)

\* Looks for the review of the upload and, for the first time, at its state.
AnalyzeRead(w) ==
    /\ At(w, "analyze", "start")
    /\ row.state \in {"analysis_pending", "review_ready"} /\ store.reviews < 2
    /\ GotoSeeing(w, IF store.reviews = 0 THEN "insert" ELSE "update", row.state)
    /\ UNCHANGED <<row, store, queue>> /\ TaskFrame

\* More than one review (MultipleResultsFound), or an upload that may not
\* become REVIEW_READY: the whole analysis is rolled back.
AnalyzeRejected(w) ==
    /\ At(w, "analyze", "start")
    /\ row.state \notin {"analysis_pending", "review_ready"} \/ store.reviews >= 2
    /\ Fail(w) /\ TaskFrame

\* Variant: the review is committed on its own, and the state in a second
\* transaction; when that fails, the whole block is repeated.
AnalyzeCommitApart(w) ==
    /\ worker[w].task = "analyze" /\ worker[w].pc \in {"insert", "update"} /\ RowFree(w)
    /\ store' = IF worker[w].pc = "insert"
                THEN [store EXCEPT !.reviews = @ + 1] ELSE store
    /\ \/ UNCHANGED <<row, worker>>
       \/ row' = Write("review_ready") /\ Done(w)
    /\ UNCHANGED queue /\ TaskFrame

\* The review and the state are committed together.
AnalyzeCommit(w) ==
    /\ worker[w].task = "analyze" /\ worker[w].pc \in {"insert", "update"} /\ RowFree(w)
    /\ store' = IF worker[w].pc = "insert"
                THEN [store EXCEPT !.reviews = @ + 1] ELSE store
    /\ row' = IF worker[w].seen = "review_ready" THEN row ELSE Write("review_ready")
    /\ Done(w)
    /\ UNCHANGED queue /\ TaskFrame

-----------------------------------------------------------------------------
(* Requests of the API.                                                    *)

RequestFrame == UNCHANGED <<document, worker, beat, recoveries, faults>>

\* Variant: the limit is not checked.
RetryReadUnlimited(c) ==
    /\ "retry" \in Requests /\ client[c] = "idle" /\ (Timely => Quiet)
    /\ row.state = "failed"
    /\ client' = [client EXCEPT ![c] = "retrying"]
    /\ UNCHANGED <<row, store, queue>> /\ RequestFrame

\* retry_ingestion, up to its first write.  For an upload in a stuck state the
\* request always ends in a rollback (update_state refuses to set the state
\* the row already has), which changes nothing and is not an action.
RetryRead(c) ==
    /\ "retry" \in Requests /\ client[c] = "idle" /\ (Timely => Quiet)
    /\ row.state = "failed" /\ row.retry_count < MaxRetries
    /\ client' = [client EXCEPT ![c] = "retrying"]
    /\ UNCHANGED <<row, store, queue>> /\ RequestFrame

\* Variant: a retry discards the pages, so that they can be extracted again.
RetryCommitDiscards(c) ==
    /\ client[c] = "retrying" /\ \A w \in Workers : RowFree(w)
    /\ Exists /\ store.object
    /\ row' = [state |-> "validating", retry_count |-> row.retry_count + 1]
    /\ store' = [store EXCEPT !.pages = FALSE]
    /\ client' = [client EXCEPT ![c] = "dispatching"]
    /\ UNCHANGED queue /\ RequestFrame

\* FAILED -> UPLOADED -> VALIDATING in one transaction; it is rolled back when
\* the upload or its object is gone.
RetryCommit(c) ==
    /\ client[c] = "retrying" /\ \A w \in Workers : RowFree(w)
    /\ IF Exists /\ store.object
       THEN /\ row' = [state |-> "validating", retry_count |-> row.retry_count + 1]
            /\ client' = [client EXCEPT ![c] = "dispatching"]
       ELSE client' = [client EXCEPT ![c] = "idle"] /\ UNCHANGED row
    /\ UNCHANGED <<store, queue>> /\ RequestFrame

RetryDispatch(c) ==
    /\ client[c] = "dispatching"
    /\ client' = [client EXCEPT ![c] = "idle"]
    /\ queue' = Publish("validate")
    /\ UNCHANGED <<row, store>> /\ RequestFrame

\* delete_upload: the object first, then the row and, by cascade, all the rest.
DeleteObject(c) ==
    /\ "delete" \in Requests /\ client[c] = "idle" /\ (Timely => Quiet)
    /\ Exists
    /\ store' = [store EXCEPT !.object = FALSE]
    /\ client' = [client EXCEPT ![c] = "deleting"]
    /\ UNCHANGED <<row, queue>> /\ RequestFrame

DeleteRow(c) ==
    /\ client[c] = "deleting" /\ ~RowHeld
    /\ row' = [row EXCEPT !.state = "deleted"]
    /\ store' = [EmptyStore EXCEPT !.object = store.object]
    /\ client' = [client EXCEPT ![c] = "idle"]
    /\ UNCHANGED queue /\ RequestFrame

-----------------------------------------------------------------------------
(* recover_stuck_workflows, every five minutes and once more at minute 0.  *)

BeatFrame == UNCHANGED <<document, store, worker, client>>

\* Variant: the scan asks what is waiting, and not how long ago the row was
\* written: a task in progress does not hold it back.
DueWhenNoneWaits ==
    /\ \A m \in Message : queue[m] = 0
    /\ \A c \in Clients : client[c] = "idle"
    /\ \A s \in Scans : beat[s] = "idle"

\* The row has not been written for 30 minutes.  A task that has written it is
\* killed (hard limit 30 minutes after its start) before that; one that has
\* read it, or is still in the queue, may be there, and so may one that goes on
\* after its soft limit, which no limit ends.
Due ==
    IF Timely THEN Quiet
    ELSE /\ \A w \in Workers :
              worker[w].awaited =>
                worker[w].pc \notin {"claimed", "published", "stored", "handoff", "failing"}
         /\ \A c \in Clients : client[c] # "dispatching"

\* A scan reads the row and the committed actions, decides, and publishes
\* before it commits: a scan that overlaps it decides on the same.
RecoverScan(s) ==
    /\ beat[s] = "idle" /\ Due
    /\ row.state \in Stuck /\ recoveries < MaxRecoveryAttempts
    /\ IF row.state \in Requeueable /\ row.retry_count < MaxRetries
       THEN /\ beat' = [beat EXCEPT ![s] = "requeue"]
            /\ queue' = Publish(redispatch_ingestion(row.state))
       ELSE /\ beat' = [beat EXCEPT ![s] = IF row.retry_count >= MaxRetries
                                           THEN "fail" ELSE "count"]
            /\ UNCHANGED queue
    /\ UNCHANGED <<row, recoveries, faults>> /\ BeatFrame

\* Variant: what is re-queued starts over from VALIDATING.
RecoverCommitRestarts(s) ==
    /\ beat[s] # "idle"
    /\ row' = IF beat[s] = "fail" THEN Write("failed")
              ELSE [Write("validating") EXCEPT !.retry_count = @ + 1]
    /\ recoveries' = recoveries + 1
    /\ beat' = [beat EXCEPT ![s] = "idle"]
    /\ UNCHANGED <<queue, faults>> /\ BeatFrame

\* The blind UPDATE, which waits for that of another scan, and the audit record.
RecoverCommit(s) ==
    /\ beat[s] # "idle" /\ \A w \in Workers : RowFree(w)
    /\ row' = IF beat[s] = "fail" THEN Write("failed")
              ELSE IF Exists THEN [row EXCEPT !.retry_count = @ + 1] ELSE row
    /\ recoveries' = recoveries + 1
    /\ beat' = [beat EXCEPT ![s] = "idle"]
    /\ UNCHANGED <<queue, faults>> /\ BeatFrame

-----------------------------------------------------------------------------
(* Failures.                                                               *)

Fault(kind) == kind \in FaultKinds /\ faults > 0 /\ faults' = faults - 1

\* S3, the model provider, the database or the broker fails a task at any of
\* its calls.
TaskError(w) ==
    /\ Fault("error") /\ worker[w].pc \in PC \ {"failing"}
    /\ Fail(w)
    /\ UNCHANGED <<document, client, beat, recoveries>>

\* A worker process is killed (out of memory, the hard time limit): its parent
\* acknowledges the message.
WorkerKilled(w) ==
    /\ Fault("killed") /\ worker[w] # Idle
    /\ Done(w)
    /\ UNCHANGED <<document, row, store, queue, client, beat, recoveries>>

\* The storage refuses to delete the object, which delete_upload only logs.
DeleteObjectFails(c) ==
    /\ Fault("error") /\ "delete" \in Requests /\ client[c] = "idle" /\ (Timely => Quiet)
    /\ Exists
    /\ client' = [client EXCEPT ![c] = "deleting"]
    /\ UNCHANGED <<document, row, store, queue, worker, beat, recoveries>>

\* A task has run for 20 minutes: SoftTimeLimitExceeded is raised in the process,
\* out of its wait for the coroutine, and the task is tried again like any that
\* raises.  The coroutine is not cancelled; of ingest_document it is over when
\* the successor is to be published.
SoftTimeLimit(w) ==
    /\ Fault("soft_limit") /\ worker[w] # Idle /\ worker[w].awaited
    /\ queue' = TriedAgain(w)
    /\ IF At(w, "ingest", "handoff") THEN Done(w)
       ELSE worker' = [worker EXCEPT ![w].awaited = FALSE]
    /\ UNCHANGED <<document, row, store, client, beat, recoveries>>

\* The whole node is lost: acks_late returns the message to the queue.
NodeLost(w) ==
    /\ Fault("node_lost") /\ worker[w] # Idle /\ worker[w].awaited
    /\ Done(w)
    /\ queue' = [queue EXCEPT ![[task |-> worker[w].task, retries |-> worker[w].retries]] = @ + 1]
    /\ UNCHANGED <<document, row, store, client, beat, recoveries>>

\* The API process, or the broker, fails between a retry's commit and its publish.
RequestLost(c) ==
    /\ Fault("error") /\ client[c] # "idle"
    /\ client' = [client EXCEPT ![c] = "idle"]
    /\ UNCHANGED <<document, row, store, queue, worker, beat, recoveries>>

\* A recovery scan fails after it has published: it is rolled back.
RecoverAbort(s) ==
    /\ Fault("error") /\ beat[s] # "idle"
    /\ beat' = [beat EXCEPT ![s] = "idle"]
    /\ UNCHANGED <<document, row, store, queue, worker, client, recoveries>>

\* The API starts, and marks FAILED what has not moved for 15 minutes, if it
\* still is in the state the scan has seen.
Restart ==
    /\ Fault("restart") /\ \A w \in Workers : RowFree(w)
    /\ row.state \in NonTerminal
    /\ row' = [state |-> "failed", retry_count |-> row.retry_count + 1]
    /\ UNCHANGED <<document, store, queue, worker, client, beat, recoveries>>

-----------------------------------------------------------------------------

\* The row of an accepted upload, its object stored; publishing ingest_document
\* may have failed, which upload_document only logs.
Init ==
    /\ document \in Documents
    /\ row = [state |-> "uploaded", retry_count |-> 0]
    /\ store = [EmptyStore EXCEPT !.object = TRUE]
    /\ \E queued \in {0, 1} :
         queue = [m \in Message |->
                    IF m = [task |-> "ingest", retries |-> 0] THEN queued ELSE 0]
    /\ worker = [w \in Workers |-> Idle]
    /\ client = [c \in Clients |-> "idle"]
    /\ beat = [s \in Scans |-> "idle"]
    /\ recoveries = 0
    /\ faults = MaxFaults

Take(w) == \E m \in Message : Begin(w, m) \/ Skip(w, m) \/ Refuse(w, m)

\* One step of the task a worker executes.
Work(w) ==
    \/ Handoff(w) \/ MarkFailed(w) \/ IngestClaim(w)
    \/ ValidateReject(w) \/ ValidatePublish(w) \/ ValidateCommit(w) \/ ValidateNoObject(w)
    \/ ConfirmStorage(w)
    \/ ExtractClaim(w) \/ ExtractEncrypted(w) \/ ExtractFails(w) \/ ExtractComplete(w)
    \/ ChunkClaim(w) \/ ChunkNoPages(w) \/ ChunkStore(w) \/ ChunkConflict(w) \/ ChunkCommit(w)
    \/ EmbedNothing(w) \/ EmbedStore(w) \/ EmbedNoUpload(w) \/ EmbedCommit(w)
    \/ AnalyzeRead(w) \/ AnalyzeRejected(w) \/ AnalyzeCommit(w)

\* A request that has begun goes on.
Continue(c) == RetryCommit(c) \/ RetryDispatch(c) \/ DeleteRow(c)

Failures ==
    \/ \E w \in Workers : TaskError(w) \/ WorkerKilled(w) \/ SoftTimeLimit(w) \/ NodeLost(w)
    \/ \E c \in Clients : RequestLost(c) \/ DeleteObjectFails(c)
    \/ \E s \in Scans : RecoverAbort(s)
    \/ Restart

Next ==
    \/ \E w \in Workers : Take(w) \/ Work(w)
    \/ \E c \in Clients : RetryRead(c) \/ DeleteObject(c) \/ Continue(c)
    \/ \E s \in Scans : RecoverScan(s) \/ RecoverCommit(s)
    \/ Failures

Spec == Init /\ [][Next]_vars

\* Celery hands every message to some worker and runs what a worker has begun;
\* the beat schedule repeats the recovery; a request that has begun ends.
\* Nobody has to make a request, and nothing has to fail.
Fairness ==
    /\ \A w \in Workers : WF_vars(Take(w)) /\ WF_vars(Work(w))
    /\ \A c \in Clients : WF_vars(Continue(c))
    /\ WF_vars(\E s \in Scans : RecoverScan(s))
    /\ \A s \in Scans : WF_vars(RecoverCommit(s))

FairSpec == Spec /\ Fairness

-----------------------------------------------------------------------------
(* Properties.                                                             *)

\* What a state promises about what is stored for the upload.
Backed(s) ==
    /\ s \in NeedsPages => store.pages
    /\ s \in NeedsChunks => store.chunks # "none"
    /\ s = "review_ready" => store.reviews > 0

\* The row never claims more than is stored: a state from OCR_COMPLETE on means
\* that the pages are there, one from EMBEDDING_PENDING on that the chunks are,
\* and REVIEW_READY that a review is, although the tasks overwrite the row with
\* what follows from a copy that may be stale, and are killed, repeated, failed
\* by a recovery and restarted by a retry at any point.
StateIsBacked == Exists => Backed(row.state)

\* Nothing is stored for an upload that is not derived from what should come
\* before it: no chunks without pages, no review without chunks.
Provenance ==
    /\ store.chunks # "none" => store.pages
    /\ store.reviews > 0 => store.chunks # "none"

\* Nothing is left of, or added to, an upload that has been deleted while tasks
\* about it were queued or executing ("in-flight workers no-op when the upload
\* record is gone", app/domains/ingestion/service.py).  Only its object may be
\* left, when the storage has refused to delete it.
DeletedIsEmpty ==
    ~Exists => ~store.pages /\ store.chunks = "none" /\ store.reviews = 0

\* What a worker remembers of an upload that still exists is true of what is
\* stored: results are never taken back, whatever becomes of the state, so a
\* task that goes on from an old copy of the row goes on from what is there.
WorkerIsBacked(w) ==
    /\ Exists => Backed(worker[w].seen)
    /\ Exists /\ At(w, "chunk", "stored") => store.chunks # "none"
    /\ worker[w].task = "embed" /\ worker[w].pc # "failing" =>
         worker[w].seen = "embedding_pending"
    /\ worker[w].pc \in {"insert", "update"} => Exists /\ store.chunks # "none"
    /\ worker[w].pc = "update" => store.reviews > 0

WorkersAreBacked == \A w \in Workers : WorkerIsBacked(w)

\* retry_count goes over its limit, because the API and the recovery check it
\* on a copy, two scans do so at once, and the recovery at startup not at all.
\* But the last that may count is one for each request and scan that has read it
\* below the limit before the others wrote, and one for each failure.
RetryCountBounded ==
    row.retry_count <= MaxRetries - 1 + Cardinality(Clients) + Cardinality(Scans)
                         + (MaxFaults - faults)

\* When nothing is redelivered and no recovery overtakes work in progress, the
\* upload has one driver: a single worker or request that may change its state,
\* although confirm_storage is published before VALIDATED is committed and a
\* failed task is both marked FAILED and retried.
OneDriver ==
    Cardinality({w \in Workers : worker[w] # Idle})
        + Cardinality({c \in Clients : client[c] # "idle"}) <= 1
-----------------------------------------------------------------------------
(* What the pipeline promises to those who only watch an upload.           *)

Lifecycle == INSTANCE IngestionLifecycle
               WITH state <- row.state, reviewed <- (store.reviews > 0)

\* When nothing is redelivered and no recovery overtakes work in progress, the
\* pipeline implements the lifecycle: the row only takes transitions of the
\* state machine, review and REVIEW_READY appear in one step, and neither the
\* retries of messages nor the recovery can be told from an ordinary step.
ImplementsLifecycle == Lifecycle!LifecycleSpec

-----------------------------------------------------------------------------
(* What the repository says, and the code does when nothing overtakes work *)
(* in progress, or unless two particular tasks overlap, but not in general. *)

\* valid_transitions (app/domains/ingestion/models.py:69) gives REVIEW_READY no
\* successor: an upload under review does not go back to waiting for analysis.
ReadyIsFinal ==
    [][row.state = "review_ready" => row'.state # "analysis_pending"]_vars

\* app/domains/ai/service.py:525: populating the review is "Idempotent:
\* re-analysis replaces old findings/redlines, increments version".  So an
\* upload has one review.
OneReview == store.reviews <= 1
=============================================================================
