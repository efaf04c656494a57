# A verification project for ContractRiskEdge

TLA+ modules that model the core of ContractRiskEdge, TLC configurations that
check them on small instances, and proofs that hold for every value of the
constants.  Paths below are relative to `src/backend/`, those that begin with
`frontend/` to `src/`.

## 1. The system

ContractRiskEdge takes in contracts, extracts and chunks their text, has it
embedded and analysed by a language model, and runs the human review of the
result.  A FastAPI application keeps everything in PostgreSQL and S3; Celery
workers run the pipeline; Celery beat runs a recovery every five minutes; events
go to browsers over a WebSocket.

| component | state it keeps | operations | interacts by | what makes it correct |
|---|---|---|---|---|
| Ingestion state machine (`app/domains/ingestion/models.py`, `workers/ingestion_dispatch.py`) | `upload_sessions.ingestion_state` | `can_transition_to`, `redispatch_ingestion` | called by all below | only legal transitions are visible; the task dispatched for a state accepts it |
| Pipeline tasks (`workers/ingestion_tasks.py`, `ingestion.py`, `extraction.py`, `vectors.py`, `ai_worker.py`) | pages, chunks, embeddings, review, the row's state | ingest, validate, confirm, extract, chunk, embed, analyze | one Celery message each to the next | the state never claims more than is stored; a lost, repeated or late task does no harm |
| Upload requests (`app/domains/ingestion/service.py`, `router.py`) | row, S3 object, `retry_count` | upload, retry, delete | publish `validate_upload`, cascade delete | a retry restarts, a delete leaves nothing, retries are limited |
| Periodic recovery (`app/workers/recovery.py`) | `recovery_actions`, cooldowns | stuck uploads, stuck AI runs, abandoned reviews | publishes tasks, blind updates | everything stuck ends; never more than a few automatic actions |
| Startup recovery (`app/domains/ingestion/recovery.py`) | – | mark FAILED | guarded update | does not destroy work in progress |
| AI analysis (`app/domains/ai/`) | `ai_runs`, findings, redlines | analyze, populate review | `REVIEW_READY` with the review | one review per upload |
| Celery worker loop (`workers/worker_loop.py`) | event loop, engine, pool per process | start, run, shutdown, after-fork | every task runs on it | one loop per process, usable after a fork |
| Contract review (`app/domains/review/`) | review status, assignment, audit events, `OperationLock` | assign, escalate, approve, reject, finalize, re-analyze, delete | API requests, recovery | legal status changes only; one final decision; no approval over open findings |
| Realtime connection (`frontend/lib/realtime.ts`, `app/kernel/events/realtime.py`, `router.py`) | the client's socket, flags and timers; the server's maps by `id(websocket)` | connect, reconnect, pause, resume, disconnect; register, subscribe, prune | WebSocket | one working connection or an indicator that says so; no entry outlives its connection |
| Notifications and e-mail (`app/domains/notify/`, `app/workers/email_worker.py`) | `notifications`, `email_queue` | notify, process the queue | requests' transactions, the mail provider | "sent" was sent; no duplicate without a cause |
| Outbox (`app/kernel/events/outbox.py`) | `event_outbox` | publish, acknowledge, replay | nobody writes it | not modelled |
| Database sessions (`app/kernel/database/session.py`) | tenant variables of a connection | create session | used by all | a query always runs for its tenant |
| Batch upload, queue, workflow engines | counters, dictionaries | see `PROJECT.json` | | counters agree with what they count |
| Playbooks, benchmark, analytics, search, exports, integrations, older `api/`, frontend, `ml/`, deployment | | | | not modelled, reasons in `PROJECT.json` |

What is hard: a task spans several transactions and works on a copy of the row
that goes stale; a message is published before or after the commit it belongs
to, and either may be lost; Celery retries and redelivers; two recoveries and
the user restart what may still be running; rows are deleted under running
tasks.  `PROJECT.json` lists each hazard at its line with the properties that
cover it, or the reason why none does.

## 2. The life of one upload

| module | what it is |
|---|---|
| `IngestionStates` | the states, `valid_transitions`, `can_transition_to`, the tasks, `redispatch_ingestion`, the sets of states the recoveries use |
| `IngestionPipeline` | one upload: row, stored results, queue, workers, requests, the two recoveries, failures; the safety properties, the mapping to `IngestionLifecycle`, and two statements of the repository that hold only when nothing is overtaken, or unless two particular tasks overlap |
| `IngestionLifecycle` | the abstract specification: an upload moves along the state machine and becomes `review_ready` together with its review |
| `MCIngestionPipeline` | instances for TLC, and liveness |
| `IngestionPipelineProofs`, `IngestionSafetyProofs` | type correctness and the safety properties, proved |
| `IngestionDriverProofs` | one driver, the refinement, one review and the finality of REVIEW_READY, proved under the hypotheses they need |

### State

| variable | in the code |
|---|---|
| `document` | what was uploaded, by what the tasks make of it: `good`, `mismatch` (checksum or magic bytes), `encrypted`, `scan` (needs OCR), `poor` (quarantined) |
| `row` | `upload_sessions.ingestion_state` and `retry_count`; state `deleted` when the row is gone |
| `store` | the S3 object, `document_pages`, `document_chunks` (none, some without embedding, all embedded), the number of reviews |
| `queue` | Celery messages waiting, with the retries they have had; a bag, for queues, backoff and prefetching give no order |
| `worker[w]` | the coroutine of a task: its program counter, `seen`, the copy of the state in its session, and `awaited`, whether its process still waits for it |
| `client[c]` | a retry or delete request in progress |
| `beat[s]` | each recovery scan between its read and its commit |
| `recoveries` | rows of `recovery_actions` for the upload |
| `faults` | failures the environment may still cause (a bound of the model) |

### Steps

A step is one transaction or one publish.  `Begin` takes a message and passes
the guard of the task, `Skip` is its early return, `Refuse` its immediate
exception.  `IngestClaim` ... `AnalyzeCommit` follow the seven tasks line by
line; `Handoff` publishes the next task.  `Fail` is a body that raises: the
rollback, and then either the handler that marks the upload FAILED
(`MarkFailed`) or the exception, and Celery's retry.  `RetryRead`,
`RetryCommit` and `RetryDispatch` are `retry_ingestion` with `complete_upload`;
`DeleteObject` and `DeleteRow` are `delete_upload`; `RecoverScan` and
`RecoverCommit` are `_handle_stuck_upload`; `Restart` is the recovery at startup.
The failures are a call that fails (`TaskError`), a killed process whose message
is lost (`WorkerKilled`; its parent acknowledges it), a lost node whose message
returns (`NodeLost`), a task past its soft time limit (`SoftTimeLimit`), an API process that dies between commit and publish
(`RequestLost`), an S3 that refuses a delete (`DeleteObjectFails`), and a scan
that fails later on and is rolled back (`RecoverAbort`).

### Decisions a reader should know

* `expire_on_commit = False`: after a commit the session still holds its copy, so
  `update_state` checks `seen`, not the row, and its UPDATE names only the id.
  A rollback expires the copy; the handler of an exception reads again.
* `RowFree` is the lock that `validate_upload` holds from its UPDATE until its
  commit.  It is the only one that is held across a publish.  `RowHeld` adds the
  key locks of an analysis that has inserted rows for the upload: they make a
  DELETE wait.
* Retrying an upload in a stuck state always ends in a rollback, because
  `update_state` refuses a state's transition to itself (`service.py:263`).  It
  changes nothing and is not an action.
* `confirm_storage` has `max_retries = 3` and no `autoretry_for`, so it is never
  retried: `TaskRetries["confirm"] = 0`.
* Time is not modelled.  `Due` says what 30 minutes without a write exclude: a
  task that has written the row, for the hard limit kills it before that.  A task
  that has only read it, or a message in the queue, may still be there.  The
  cooldown of two hours only makes the recovery rarer.  `Restart` may come at any
  moment: its 15 minutes are less than the 30 a task may take.
* A worker of the model is a coroutine and not a process.  `task_soft_time_limit`
  raises in the process, out of `future.result()` (`workers/worker_loop.py:200`):
  Celery retries the task, and the coroutine, which nobody cancels, goes on beside
  the retry or the process's next task.  `SoftTimeLimit` sets `awaited` to FALSE.
  What a coroutine left behind raises reaches nobody (`TriedAgain`), and no time
  limit ends it, so `Due` does not count on one.
* `extract_document` asks `task.request.retries` which attempt this is.  The model
  takes the answer the code expects, the retries of the message, although Celery
  keeps the request per thread and the coroutine runs on the thread of the loop.
* Scans overlap.  The beat schedule starts `recover_stuck_workflows` every five
  minutes and, as the clean-up of idempotency records, once more at minute 0
  (`workers/celery_app.py:70-98`), and nothing keeps the two apart: each may read
  the row and the recorded actions before the other commits.  `Scans` is the set of
  those that may.
* `Timely = TRUE` restricts recovery, retry and delete to an upload with nothing
  in progress, an overlapping scan included.
* Row security is assumed not to hide rows from the tasks: the repository's
  deployments connect as a user that bypasses it.

### Not modelled

Texts, chunks and findings themselves; several uploads (the tasks of two uploads
share only the workers); `initiate_upload` and its presigned path; `cancel_upload`,
which no router calls; the cooldown; the `ai_runs` row.  Of the worker's event
loop only what the soft time limit leaves on it is modelled.

### Observed while modelling, and not the subject of a run

* A document with a wrong checksum or wrong magic bytes stays VALIDATING: FAILED
  is written and the task returns without a commit (`workers/ingestion.py:100-121`),
  though its docstring (line 60) says that it "Transitions to VALIDATED or
  FAILED/QUARANTINED."  The recovery re-queues it until its attempts are used up.
* ANALYSIS_PENDING is committed before the analysis is published
  (`workers/vectors.py:215-226`), and is not among the states the recovery
  re-queues (`app/workers/recovery.py:984-997`).  After three recorded actions the
  scan skips the upload (879-881) before the branch that would mark it FAILED.  An
  upload whose worker dies in between stays so for ever; likewise one in UPLOADED
  whose message was not published.
* Chunks and EMBEDDING_PENDING are two transactions (`workers/vectors.py:89-99`).
  A chunking re-queued after a kill between them meets `uq_chunk_per_upload` and
  marks the upload FAILED, though all its chunks are stored;
  `ingestion_dispatch.py:11` calls the state "safe to re-queue".
* The scan runs all tenants in one transaction: an exception for one upload rolls
  back everything, and the next scan meets it again.
* `initiate_upload` compares with three states that do not exist
  (`ingestion/service.py:76`) and raises when the checksum is known.

## 3. The life of one review

The upload's analysis fills a review; people then decide it.  The code has two
transition tables, `ReviewStatus.valid_transitions` and
`WorkflowState.valid_transitions`, and translates between them; handlers guard
with one, the repository checks with the other.

| module | what it is |
|---|---|
| `ReviewStatuses` | both tables, `map_legacy_status`, `to_db_status`, the guards, the decisions, stages and actions of requests |
| `ReviewLifecycle` | one review, the requests that act on it, the analyses that replace its findings; the properties and the mapping to `ReviewDecision` |
| `ReviewDecision` | the abstract specification: open until decided, once; finalized or executed only when approved, with at most one final version |
| `MCReviewLifecycle` | instances for TLC: which requests are sent |
| `ReviewLifecycleProofs`, `ReviewPromiseProofs` | types and safety under every race; the refinement when nothing overlaps |

### State

| variable | in the code |
|---|---|
| `status` | `contract_reviews.status` |
| `recorded` | `review_status_history`: which of APPROVED and REJECTED it has |
| `approvals` | `review_approvals`, their decisions in order |
| `audit` | `governance_audit_events`: who decided what; `is_duplicate` looks here |
| `versions` | the last final version number in `contract_document_versions` |
| `findings` | the analysis they come from, and whether one that is critical or high is open |
| `locks` | `OperationLock._locks` of every API process |
| `client[c]` | a request: program counter, user, process, lock key, `seen` (the copy of the status), the findings it has counted, its version number |
| `analyst[a]` | an analysis between its read of the review and its commit, with the status it has read |
| `queue` | messages of `analyze_contract` |

### Steps

A request is `Begin` (its lock, the search for its own audit event), `Read` (the
review, and the guard at the head of the handler), for a full approval
`CountOpen`, for a finalization `Generate`, then `Write` (the transition check on
the copy, the INSERTs, the UPDATE, the end of the handler with its `finally`) and
one of the five commits.  Re-analysis publishes before its commit (`Publish`).

* The requests are those of `AnyRequest`: change of status, advance, assignment
  (by hand or by a routing rule), escalation, decision, bulk decision,
  finalization, re-analysis and the resolution of a finding.  What differs
  between them is in four operators on the status read: `Base`, `Target`,
  `Admits`, `Legal`.
* The copy.  Sessions have `expire_on_commit = False` and look rows up in their
  identity map, and `update_status` checks the transition on the object it is
  given.  `seen` is read once, therefore.  The UPDATE names only the id.
* The row lock.  `Write` waits until no other request has sent an UPDATE
  (`RowFree`) and holds the row until it commits.  The commit is a step of its
  own: `get_db` commits after the handler has returned and released its lock.
* A refusal, a failed query and a disconnected client are the same thing: the
  session is rolled back and the lock released.  So a guard that fails is a guard
  of an action, and `GiveUp` is always possible.  `Crash` ends a process with its
  requests and its locks.
* `LocksExpire`: a request may take a lock that somebody holds (30 seconds have
  passed), and a release removes the lock whoever holds it.
* `Conflict` is what the two unique indexes refuse, and the finding a
  re-analysis has deleted.
* `bulk_approve` catches the refused transition of one review and commits its
  session, the approval already inserted included: `CommitApprovalAlone`.
* A finalization may fail to generate its document, and then has no version.
* `Serial` lets a request or analysis start only when no other is in progress.
  It stands for a lock on the row read (`SELECT ... FOR UPDATE`), and separates
  what the tables and guards get wrong from what the interleaving does.

### Not modelled

Comments, redlines, soft deletion, document versions before the final one, the
rows of assignments and escalations, routing metadata; the periodic recovery's
escalation of abandoned reviews (section 6).

### Observed while modelling, and not the subject of a run

* `approved_version_id` becomes None in `create_finalized_version`
  (`review/finalized_version.py:194-204`): the id is read before the flush.
* An escalation is counted twice (`review/repository.py:508-522` recounts,
  `review/service.py:913` adds one).
* A rejection from IN_REVIEW is always refused: only one of the tables allows it.
* `advance` and `status` reach APPROVED without the check of the open findings,
  and FINALIZED without a version.
* A re-analysis deletes the findings with their resolutions
  (`ai/service.py:539-556`), and its docstring says that reviewers' decisions are
  kept (`review/service.py:1354-1362`).  `POST /ai/analyze` does so even when the
  review is approved.
* Two finalizations that race write the same S3 object, and the index refuses
  only the second row.

## 4. The realtime connection of a page

One `RealtimeClient` per page keeps a WebSocket open.  Its methods run to
completion, except `connect()`, which waits for a token; close events, timers and
the answer to that wait come when they come, also after the object has moved on to
another socket.

| module | what it is |
|---|---|
| `RealtimeSockets` | the identities of sockets at both ends |
| `RealtimeClient` | the object's fields and methods, and the events that call them |
| `RealtimeServer` | a coroutine of `websocket_events` for each socket and the maps of `ConnectionManager` and `SubscriptionManager` |
| `Realtime` | the two, over links that may break; the properties |
| `MCRealtime` | the instance for TLC |
| `RealtimeProofs` | types and safety, proved |

| variable | in the code |
|---|---|
| `client` | the fields of `RealtimeClient`: `state`, `ws`, `reconnectAttempts`, `reconnectTimer` (`timer`), `heartbeatTimer` (`beat`), `intentionalClose`, `pausedForVisibility`, the visibility handler (`watching`); `tokens` counts the `connect()` calls that wait, `stray` the timers no field refers to |
| `sock` | `readyState` of each socket; "free" when it is not created or its `onclose` has run |
| `page` | the session of `AuthProvider`, `document.hidden` |
| `endpoint` | where the coroutine of the socket is: none, waiting for the auth message, in its loop |
| `connections`, `subscriptions` | the keys, `id(websocket)`, of the two maps |
| `up`, `inbox` | links that are intact; messages the server has not read |
| `faults`, `toggles` | bounds of the model |

* `Connect` is `connect()` up to its `await`, `TokenArrives` and `TokenFails` the
  rest.  Nothing is checked again after the await, so they have no guard.
* `OnOpen` and `OnClose` take no socket: the callbacks close over `this`, and
  those of a replaced socket do the same as the current one's.
* `ScheduleReconnect` overwrites `reconnectTimer`; a timer that was pending there
  becomes stray.
* Python gives an `id` again when the object is gone, so a socket that is free at
  both ends may be any later one.
* No critical section of the manager's lock contains an await: each is one step.
* `PageReloads` is `logout`, or a reload by the user.
* Time.  `ServerIdleCloses` (60 s) does not overtake a reconnect timer (at most
  30 s): its guard says that no timer is pending for the page's own socket.

Not modelled: events and their topics, acknowledgements, the replay cursor,
`_send_replay_events` and the outbox it reads (nobody writes it), rate limits,
metrics, origins, the guard on owners (one owner exists).

Observed, beside the run `never_abandoned`:

* The indicator can stay "reconnecting" while a socket works, when the close of an
  old socket comes after the new one opened and the timer's `connect()` returns
  early.  `Settles` speaks of the connection for that reason, and of the
  indicator only when there is none.
* `disconnect()` does not cancel a `connect()` that waits for its token, nor a
  stray timer, though line 315 says "No reconnect will be attempted".
  `StaysQuiet` states what holds: with nothing in flight.
* Two sockets of one page may be open at once (line 517: "Ensures only one
  WebSocket connection exists per page").  The orphan's `onopen` authenticates the other
  socket, so that the server closes the orphan, whose `onclose` stops the heartbeat
  of the other.
* The attempts are reset in `onopen`, before the server has judged the token: a
  page whose token is refused reconnects for ever.

## 5. Notifications and their e-mails

`send_notification` looks for the deduplication key, inserts a notification and
queues an e-mail in the transaction of the request.  `process_email_queue` reads
the pending rows, sends each and overwrites its row, and commits at the end.  It
runs in a session of its own when an administrator asks for it, and in
development inside the request.

| module | what it is |
|---|---|
| `NotificationMail` | requests, queue, sessions that process it, the provider |
| `MCNotificationMail` | the instance for TLC |
| `NotificationMailProofs` | types and the three safety properties, proved |

| variable | in the code |
|---|---|
| `inline` | `settings.environment = "development"` |
| `request`, `note`, `mail` | a request and its progress, its `notifications` row, its `email_queue` row |
| `session[t]` | what transaction `t` has read (`hold`, with the attempts `seen`), sent, and overwritten but not committed |
| `accepted` | how often the provider took the e-mail |
| `overlaps`, `lost` | causes for a duplicate: reads beside another session that holds the row; acceptances nobody recorded.  Only the properties read them |

`Look` is the search for the key, `Create` the inserts; `Take`, `Send`, `Mark`
follow the loop; `ProcessorCommits`, `RequestCommits` and `Abort` end a
transaction.  `Mark` waits for a session that has overwritten the row (its lock);
the status it writes follows from the attempts it has read, the counter from
the row.  A request that fails later takes back its notification, not its
e-mail.

Not modelled: preferences and mutes, the in-app delivery row, templates, the mode
without an API key (every answer "no id"), `LIMIT 10` (more than the rows here),
the Celery task `send_email`: the beat schedule publishes it every minute and no
module registers it, so nothing has to drain the queue and no liveness is
claimed.

Observed: nothing makes `dedup_key` unique, so two requests that look before
either commits both notify, and from then on the search raises
`MultipleResultsFound` (`notify/repository.py:44-50`), which
`review/service.py:976` does not catch.  The keys `approval:{review_id}` and
`escalation:{review_id}` suppress every later notification about the review.  In
development an e-mail may leave for a request that is rolled back.

## 6. Abandoned reviews

Every five minutes the recovery lists reviews nobody has touched, checks
`recovery_actions` for the cooldown and the number of attempts, adds one to
`escalation_count` and records the action.  Two entries of the beat schedule start
it at minute 0 (`app/workers/celery_beat.py:19-48`), and nothing keeps two scans
apart.

| module | what it is |
|---|---|
| `AbandonedReviews` | reviews, the record of actions, scans that may overlap, the people's requests |
| `MCAbandonedReviews` | the instance for TLC |
| `AbandonedReviewsProofs` | types and the three properties, proved |

| variable | in the code |
|---|---|
| `review` | `contract_reviews`: the stage its status belongs to, whether it is assigned, `escalation_count`, whether `created_at` (`aged`) and `updated_at` (`idle`) are past their thresholds |
| `actions`, `latest`, `cooling` | `recovery_actions` of the review: their number, the count the latest records, whether its `cooldown_until` is ahead |
| `scan[s]` | a scan: what it listed, what it has checked, written and not committed |
| `manual`, `since`, `overlaps` | escalations by hand, those of the recovery since, actions checked beside another scan; only the properties and the recount read them |

`Begin` lists the reviews, `Check` is `_check_cooldown_and_escalation`, `Act` the
UPDATE and the INSERT, `Commit` the end of the scan, `Rollback` any exception.
`Plan` is the branch on the row as it was listed.  `Work` and `Escalate` are
requests, one transaction each; what they do step by step is section 3.
A request overwrites the row from a copy that may be stale, so that `Work` leaves
any stage behind, whatever the row said, and `Escalate` escalates whatever is
there: its guard has looked at the copy (a review in progress or, with compliance
as its target, an analysed one).  `Escalate` counts before it has the lock of the
row, and so chooses any number
of the escalations before it (`OperationLock` excludes only the same reason).

Not modelled: which owner and priority the recovery chooses.  Reassignment
concerns reviews that have an owner (`sla_deadline` and risk give a review without
one too little weight for the critical tier), so `assigned` does not change.
Assignment locks (inserted by a transaction that no reviewer's request looks at),
stuck AI runs (their row is inserted and completed in one transaction, so the
query never finds one), the clean-up of idempotency records, `LIMIT 20`.

Observed:

* Two scans that overlap both act on a review, within the cooldown that
  `recovery.py:79-82` promises and possibly beyond `MAX_RECOVERY_ATTEMPTS`;
  `CooldownHolds` and `ActionsBounded` say by how much.
* An escalation by hand erases the automatic ones from the count.
* `ORDER BY updated_at LIMIT 20`, with the attempt limit checked afterwards: twenty
  reviews that are past their attempts are listed for ever and hide all others.
* Events are emitted before the commit; two scans that take two reviews in
  opposite order deadlock in the database, and one is rolled back.

## 7. What the runs show

| run | shows |
|---|---|
| `pipeline_faults` | `TypeOK`, `StateIsBacked`, `Provenance`, `DeletedIsEmpty`, `WorkersAreBacked`, `RetryCountBounded` hold with everything racing everything, overlapping scans and a task left behind by its soft time limit included |
| `pipeline_timely` | `OneDriver`, `OneReview`, `ReadyIsFinal`, the refinement `ImplementsLifecycle` and the liveness `ResumableSettles`, when nothing overtakes work in progress |
| `ready_is_final` | violated: a stale task takes REVIEW_READY back |
| `one_review` | violated: two reviews of one upload |
| `review_requests` | `ReviewTypeOK`, `ApprovedOnRecord`, `OneFullApproval`, `NoOrphanLock`, `ApproverSawTheFindings` hold with requests of every kind racing in two processes |
| `review_serial` | when nothing overlaps, `KeepsThePromise` (the refinement of `ReviewDecision`) and `ApprovalsAreReal` hold for every request except bulk decisions |
| `decision_stands` | violated: a second decision overwrites the first, REJECTED becomes APPROVED |
| `approvals_are_real` | violated: a bulk decision that was refused leaves its approval |
| `realtime_page` | `TypeOK`, `NoDeadEnd`, `NothingInherited`, `StaysQuiet`, and the liveness `Settles`, with broken links, refused and failing tokens, restarts, reloads and a tab that is hidden and shown |
| `never_abandoned` | violated: a page that was hidden while a reconnect waited for its token gives up silently at the next broken link |
| `mail_queue` | `MailTypeOK`, `SentWasAccepted`, `DuplicateHasCause`, `AttemptsBounded` with requests and endpoints that process the same rows |
| `abandoned_reviews` | `AbandonedTypeOK`, `EscalationsAccounted`, `ActionsBounded`, `CooldownHolds` with two scans and the people's requests |

Bounds, ingestion.  Two coroutines are enough for a task and its rival (every race found is
between two), and two scans are what the schedule starts.  One request suffices to
race them; two requests are covered by the
proofs.  One retry per task keeps "first", "retried" and "last attempt" apart,
which is all the tasks look at; `pipeline_faults` gives it to `extract`, the only
task that asks, and the retries of the others are in `pipeline_timely` and in the
proofs.  `MaxRetries = 1` and `MaxRecoveryAttempts = 1` in
`pipeline_faults` let both limits be reached and exceeded, for two scans that
overlap both pass them.  One failure of any
kind there, two in `pipeline_timely`.  There `MaxRecoveryAttempts = 3`, as in the
code, is one more than `MaxFaults`: one action is kept for the loss that needs no
failure, `confirm_storage` reading the row before VALIDATED is committed.
`mismatch` documents are not in `pipeline_timely`, for they never settle
(section 2, observed).  Deadlock is not checked: an upload that is ready, failed
or deleted, with nothing queued, has nothing left to do.

Bounds, review.  Two clients are a request and its rival; two processes, for a lock
excludes within one only.  Three requests are the rivals and one that prepares or
follows them (an approval, and then a finalization that races); five, one after
the other, lead from DRAFT to a finalized review that is archived.  One user, so that the search for the user's own audit
event can strike.  One analysis beside those that re-analysis publishes.
`review_requests` takes those arguments of each operation whose races differ,
`review_serial` all of them.  A review begins in any undecided status, with
findings open or not.  Deadlock is not checked: when all requests are sent the
system rests.  Clients and processes are symmetric, which is sound here for no
liveness is checked.

Bounds, realtime.  Three sockets: the current one, one it replaced, and one whose
close has not been seen.  Two changes of visibility hide the tab and show it again, two
faults break a connection and its successor.  `MaxAttempts = 1` in `realtime_page`
lets "failed" be reached within them; `never_abandoned` has 2, so that no attempt
need be given up.  Sockets are symmetric, which only `never_abandoned`, without
liveness, uses.  Deadlock is not checked: a page that is signed out rests.

Bounds, mail.  Two requests, the second of which meets the row and the key of the
first; two sessions beside them; one rollback or lost answer; `max_attempts = 2`, so
that a retry and the limit happen and are exceeded by an overlap.

Bounds, reviews.  Two scans, the number the schedule starts; two reviews, so that a
scan holds one while it deals with the next, and people work on the first.
`MAX_RECOVERY_ATTEMPTS = 2` separates the first action, the last, and one too many;
`MAX_ESCALATION_COUNT = 4` is reached by two escalations by hand (3) and one of the
recovery.  Neither run can deadlock but by coming to rest, and neither checks it.

Fairness (ingestion; no liveness is claimed of a review, of mail or of the
recovery of reviews).  Each worker takes messages and continues what it has begun (Celery
consumes every queue); the beat schedule repeats the recovery and its transaction
ends; a request that has begun ends.  Nobody has to make a request, and no failure
has to happen.  The fairness is weak throughout.

Fairness (realtime).  Timers fire; a request for a token is answered; a socket opens, or
its close is reported; the server reads what it was sent and closes what is idle.
That is what a browser's event loop and the coroutine's timeouts do.  Nobody has to
hide the tab, to sign in or out, to broadcast or to fail, and the faults are
finite.  Weak fairness suffices.

## 8. What is proved

**Ingestion.** For any finite sets of workers, requests and scans, any limits, any number of
failures, any subset of documents, requests and failures, timely or not, under
`TaskRetriesAssumption`, `LimitsAssumption` and `FiniteAssumption`:

* `TypeCorrect`: `Spec => []TypeOK`.
* `StateIsAlwaysBacked`, `ProvenanceHolds`, `DeletedStaysEmpty`,
  `WorkersStayBacked`.  The four are one inductive invariant, `SafeInv`.
  None is inductive alone: a worker overwrites the row with what follows from its
  copy, so that the row is backed only if the copies are (`WorkersAreBacked`), and
  the copies stay backed only because nothing that was stored is taken away while
  the row exists, and nothing is stored out of order (`Provenance`).  One step per
  action, one conjunct each.
* `RetryCountStaysBounded`: `retry_count` is at most
  `MaxRetries - 1 + |Clients| + |Scans| + (MaxFaults - faults)`.  Every request and
  scan that has read it below the limit may add one, whatever the others add; the
  first of them is the one the limit allows.  Inductive form: retry_count, plus the
  requests and the scans that have read it and not written, is at most that bound.
* `OneDriverAtATime`: `Spec => []OneDriver` under `NothingOvertakes`, that is `Timely`
  and neither a redelivery nor a soft time limit nor a restart of the API among the
  failures.  Calls that
  fail, killed workers, retries of messages, user retries and deletions, the periodic
  recovery and any number of each remain.  `OneDriver` is far from inductive: a
  message in the queue is a driver to come.  `DriverInv` says who may be where.  A
  request in progress is alone (`RequestAlone`); a task leaves no message behind, but
  for the `confirm_storage` that `validate_upload` publishes before its commit, which
  no task accepts while the row says VALIDATING (`WorkerAlone`); with nobody at work
  one message is left, or two that are spent: a `confirm_storage` announced and a
  `validate_upload` retried for an upload that has just been marked FAILED
  (`SpentMessages`).  And the copy a task works on is true until its last commit
  (`CopyIsTrue`).
* `LifecycleIsImplemented`: `Spec => ImplementsLifecycle`, under the same hypothesis.
  The copy being true, a transition that `can_transition_to` allows on the copy is
  one of the row, and the blind writes that look at nothing (FAILED of the recovery,
  VALIDATED, ANALYSIS_PENDING ...) follow the guard the task has passed.  An analysis
  that finds REVIEW_READY finds its review too (`StateIsBacked`), so that it adds none.
* `OneReviewWhenTimely`, `ReadyIsFinalWhenTimely`: what `ai/service.py:525` and
  `ingestion/models.py:69` promise holds under that hypothesis.
* `OneReviewUnlessAnalysesOverlap`, `ReadyIsFinalUnlessOvertaken`: which overlap it
  takes when everything may overtake: recoveries, redeliveries, retries, deletions,
  restarts, coroutines left behind.  `Spec /\ []OneAnalysis => []OneReview`: a second
  review needs two analyses of the upload in progress together.
  `Spec /\ []NoEmbeddingBesideAnalysis => ReadyIsFinal`: REVIEW_READY is taken back
  only if an embedding and an analysis of the upload have been in progress together;
  no recovery, retry or restart does it alone.  The runs `one_review` and
  `ready_is_final` show exactly these overlaps.  Neither hypothesis is something the
  code enforces, and a single process does not either: past its soft time limit a
  task goes on beside the next.  `OneReviewInv`: an analysis about to insert has
  found no review; `NotOvertaken`: an embedding in progress has not been overtaken
  by an analysis; `ComesFrom` says how a task gets into either position.
* `RequeueIsAccepted`: the task that `redispatch_ingestion` names for a stuck state is
  one whose guard accepts that state.

**Review.** For any clients, processes, users, analysts, reasons, requests and
bounds, with locks that expire or not, under `RequestAssumption`,
`ReasonAssumption`, `BoundAssumption` and `FlagAssumption`:

* `ReviewTypeCorrect`: `Spec => []ReviewTypeOK`.  It needs `InFlight`: a request
  past its read has a copy of a stored status, and what it writes is stored
  because each translation of a workflow state is.
* `ApprovalIsOnRecord` (`ApprovedOnRecord`).  `CopiesInv`: a copy of a status that
  presupposes an approval is younger than the approval, and what a request is
  about to commit has passed the transition check on its copy.  No table leads
  to FINALIZED or EXECUTED but from APPROVED or FINALIZED, so a stale copy
  cannot invent an approval, only forget what came after it.
* `FullApprovalIsUnique` (`OneFullApproval`).  `RowInv`: one request holds the
  row, and a full approval that holds it has found none.  The OperationLock is
  nowhere in the argument.
* `LocksHaveOwners` (`NoOrphanLock`) and `ApproverHasSeen`
  (`ApproverSawTheFindings`), each with an invariant of its own.
* `SingleApprovalsAreReal`: `ApprovalsAreReal`, if no request is a bulk decision.
* `AlonePromiseIsKept`: if `Serial`, then `Spec => KeepsThePromise`.  The copy of a
  request that is alone is true when it commits (`SerialInv`), so the guard and
  the table have judged the status they change; a final version is made once
  (`VersionInv`).  Without `Serial` it is false: `decision_stands`.
* `DecisionStandsAlone`: if `Serial`, then `Spec => DecisionStands`, from the same
  invariant: what the run `decision_stands` refutes is due to the races alone, not
  to the tables.

**Realtime.** For any set of sockets, any attempts and any bounds, under
`SocketsAssumption`, `AttemptsAssumption` and `BoundsAssumption`:

* `RealtimeTypeCorrect`: `Spec => []TypeOK`.
* `NoDeadEndEver` (`NoDeadEnd`).  The heart is that every method that leaves a state behind
  also leaves what ends it; a socket that closes is the last of its own reports, and
  so each close has to set a state that does not count on it.  `PausedIsAsleep`
  joins the invariant: a client is paused only while the handler that will resume
  it is bound and the tab is hidden.
* `MapsNameTheLiving` (`NothingInherited`), from the order of the `finally` clause:
  both maps lose the socket in the step that ends its coroutine.
* `QuietForGood` (`StaysQuiet`), an action property.
* `NeverAbandonedInOneSitting`: `NeverAbandoned`, if `MaxToggles <= 1`: the tab may be
  hidden, and is not shown again but by a reload.  `ShownInv`: in a tab that is shown
  and was not hidden since its page was loaded, a signed-in client has had nothing that sets
  `intentionalClose`.  The run `never_abandoned`, with two toggles, needs exactly the
  return of the tab.

**Mail.** For any finite sets of requests and sessions, any `max_attempts` and any
number of faults, under `RequestsAssumption`, `ProcessorsAssumption`,
`KeysAssumption` and `MailBoundsAssumption`: `MailTypeCorrect`, `SentIsAccepted`,
`DuplicatesHaveCauses`, `AttemptsAreBounded`.  The invariant counts, for each
e-mail, the sessions that hold its row.  A session that holds it alone has seen the
true number of attempts; each further session is an overlap that was counted when it
read; what a session has sent and not recorded becomes a recorded attempt or a loss.

**Abandoned reviews.** For any reviews and scans and any limits, under
`LimitsAssumption`: `AbandonedTypeCorrect`, `EscalationsAreAccounted`,
`ActionsAreBounded`, `CooldownIsKept`.  The last two rest on the scans that deal
with a review alone (`Bounded`): between the check and the commit of such a scan
every other commit is of a scan that was counted as an overlap, so that what the check
read is true but for the overlaps.

Every invariant and action property of every run, and both refinements, are stated by
a theorem.  Those of the runs that expect a violation are proved under the
hypothesis that excludes the violation.

Only model-checked: the liveness properties `Settles` and `ResumableSettles`, which
need fairness and ENABLED and are out of the prover's reach.

## 9. Plan

1. Done: ingestion (`IngestionStates`, `IngestionPipeline`, `IngestionLifecycle`),
   its types and safety proved.
2. Done: review (`ReviewStatuses`, `ReviewLifecycle`, `ReviewDecision`), its
   types, safety and serial refinement proved.
3. Done: the realtime connection (`RealtimeSockets`, `RealtimeClient`,
   `RealtimeServer`, `Realtime`), its types and safety proved.
4. Done: notifications and mail (`NotificationMail`), abandoned reviews
   (`AbandonedReviews`), types and safety proved.
5. `SessionContext`: tenant variables across transactions, rollbacks and pooled
   connections.
6. Done: `OneDriver`, the refinement of `IngestionLifecycle` and the conditional results
   proved.

The outbox is not in the plan: nothing writes it.  Nor are the batch upload, whose
worker imports a function that does not exist, the distributed queue and the
workflow engines, which are dictionaries of one process, and the scoring,
reporting and registry domains, which keep no state that two actors share.
