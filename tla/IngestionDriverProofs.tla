------------------------ MODULE IngestionDriverProofs ------------------------
(***************************************************************************)
(* What holds of an upload when nothing overtakes work in progress: it has *)
(* one driver, its steps implement IngestionLifecycle, and it has one      *)
(* review; and which two tasks have to overlap for this to fail when       *)
(* everything may be overtaken.  For any workers, requests, documents,     *)
(* limits, retries and number of failures.                                 *)
(***************************************************************************)
EXTENDS IngestionSafetyProofs

\* The hypothesis: the recovery and the requests wait for what is in progress,
\* no message is redelivered, no coroutine is left behind by its soft time limit,
\* and no restart of the API fails what is queued.
NothingOvertakes ==
    Timely /\ FaultKinds \cap {"node_lost", "soft_limit", "restart"} = {}

-----------------------------------------------------------------------------
(* The inductive invariant.                                                *)

NoMessage == \A m \in Message : queue[m] = 0
OneMessage ==
    /\ \A m \in Message : queue[m] <= 1
    /\ \A m, n \in Message : queue[m] > 0 /\ queue[n] > 0 => m = n
NobodyWorks == \A w \in Workers : worker[w] = Idle
NobodyAsks == \A c \in Clients : client[c] = "idle"
NobodyRecovers == \A s \in Scans : beat[s] = "idle"

\* validate_upload has published confirm_storage, and not committed VALIDATED.
Announced(w) == worker[w].task = "validate" /\ worker[w].pc \in {"published", "failing"}

\* While a request is in progress nothing else is, and what it has read holds.
RequestAlone(c) ==
    /\ NoMessage /\ NobodyWorks /\ NobodyRecovers
    /\ \A d \in Clients \ {c} : client[d] = "idle"
    /\ client[c] = "retrying" => row.state = "failed"
    /\ client[c] = "deleting" => Exists

\* While a task executes no message is waiting, but for the one that is
\* published too early.
WorkerAlone(w) ==
    /\ \A v \in Workers \ {w} : worker[v] = Idle
    /\ OneMessage
    /\ \A m \in Message : queue[m] > 0 => m.task = "confirm" /\ Announced(w)

\* A task's copy of the row is true, until its last commit, and so are the
\* guards it has passed.
CopyIsTrue(w) ==
    /\ worker[w].pc # "handoff" => worker[w].seen = row.state
    /\ At(w, "ingest", "start") => row.state = "uploaded"
    /\ worker[w].task = "validate" => row.state = "validating"
    /\ At(w, "confirm", "start") => row.state = "validated"
    /\ At(w, "chunk", "stored") => row.state = "chunking_pending"
    /\ worker[w].pc \in {"insert", "update"} =>
         row.state \in {"analysis_pending", "review_ready"}
    /\ worker[w].pc = "insert" => store.reviews = 0

\* A scan that publishes nothing has found nobody at work, and nobody begins
\* before it commits; nor does another scan.
RecoveryAlone ==
    /\ \A s, t \in Scans : beat[s] # "idle" /\ beat[t] # "idle" => s = t
    /\ \A s \in Scans : beat[s] \in {"count", "fail"} => NoMessage /\ NobodyWorks
    /\ \A s \in Scans : beat[s] = "fail" => row.state \in Stuck

\* No scan that publishes nothing is in progress.
NobodyDecides == \A s \in Scans : beat[s] \notin {"count", "fail"}

\* Two messages are left when validate_upload has published its successor, is
\* marked FAILED and retried: no task accepts either of them.
SpentMessages ==
    /\ row.state = "failed"
    /\ \A m \in Message : queue[m] > 0 => m.task \in {"validate", "confirm"}

DriverInv ==
    /\ \A c \in Clients : client[c] # "idle" => RequestAlone(c)
    /\ \A w \in Workers : worker[w] # Idle => WorkerAlone(w) /\ CopyIsTrue(w)
    /\ RecoveryAlone
    /\ NobodyWorks => OneMessage \/ SpentMessages

-----------------------------------------------------------------------------
(* Messages.                                                               *)

\* No message and then one more is one message.
LEMMA AddedToNone ==
    ASSUME TypeOK, NoMessage, NEW k \in Message, queue' = [queue EXCEPT ![k] = @ + 1]
    PROVE  OneMessage' /\ \A m \in Message : queue'[m] > 0 => m = k
<1>1. \A m \in Message : queue'[m] = IF m = k THEN 1 ELSE 0
  BY DEF TypeOK, NoMessage
<1> QED
  BY <1>1 DEF OneMessage

LEMMA PublishedToNone ==
    ASSUME TypeOK, NoMessage, NEW t \in Task, queue' = Publish(t)
    PROVE  OneMessage' /\ \A m \in Message : queue'[m] > 0 => m.task = t
<1>1. [task |-> t, retries |-> 0] \in Message
  BY TaskRetriesAssumption DEF Message
<1>2. queue' = [queue EXCEPT ![[task |-> t, retries |-> 0]] = @ + 1]
  BY DEF Publish
<1>3. OneMessage' /\ \A m \in Message : queue'[m] > 0 => m = [task |-> t, retries |-> 0]
  BY <1>1, <1>2, AddedToNone
<1> QED
  BY <1>3

LEMMA NoneIsOne == NoMessage => OneMessage
BY DEF NoMessage, OneMessage

LEMMA SameMessages ==
    ASSUME OneMessage, queue' = queue
    PROVE  OneMessage'
BY DEF OneMessage

\* A retried message is one message, if there was none.
LEMMA RetriedToNone ==
    ASSUME TypeOK, NoMessage, NEW t \in Task, NEW r \in 0..MaxTaskRetries,
           queue' = Retried(t, r)
    PROVE  OneMessage'
<1>1. TaskRetries[t] \in 0..MaxTaskRetries
  BY TaskRetriesAssumption
<1>2. CASE r < TaskRetries[t]
  <2>1. [task |-> t, retries |-> r + 1] \in Message
    BY <1>1, <1>2, TaskRetriesAssumption DEF Message
  <2> QED
    BY <1>2, <2>1, AddedToNone DEF Retried
<1>3. CASE ~(r < TaskRetries[t])
  BY <1>3, NoneIsOne, SameMessages DEF Retried
<1> QED
  BY <1>2, <1>3

\* Whatever is retried, no other task is waiting afterwards.
LEMMA RetriedTasks ==
    ASSUME TypeOK, NEW t \in Task, NEW r \in 0..MaxTaskRetries, queue' = Retried(t, r),
           NEW m \in Message, queue'[m] > 0
    PROVE  m.task = t \/ queue[m] > 0
<1>1. CASE m = [task |-> t, retries |-> r + 1]
  BY <1>1
<1>2. CASE m # [task |-> t, retries |-> r + 1]
  BY <1>2 DEF Retried, TypeOK
<1> QED
  BY <1>1, <1>2

\* The same whether or not somebody waits for the outcome of the task.
LEMMA TriedAgainToNone ==
    ASSUME TypeOK, NoMessage, NEW w \in Workers, worker[w] \in Busy, queue' = TriedAgain(w)
    PROVE  OneMessage'
<1>1. worker[w].task \in Task /\ worker[w].retries \in 0..MaxTaskRetries
  BY DEF Busy
<1> QED
  BY <1>1, RetriedToNone, NoneIsOne, SameMessages DEF TriedAgain

LEMMA TriedAgainTasks ==
    ASSUME TypeOK, NEW w \in Workers, worker[w] \in Busy, queue' = TriedAgain(w),
           NEW m \in Message, queue'[m] > 0
    PROVE  m.task = worker[w].task \/ queue[m] > 0
<1>1. worker[w].task \in Task /\ worker[w].retries \in 0..MaxTaskRetries
  BY DEF Busy
<1> QED
  BY <1>1, RetriedTasks DEF TriedAgain

\* Taking a message.
LEMMA TakenFromOne ==
    ASSUME TypeOK, OneMessage, NEW k \in Message, queue[k] > 0
    PROVE  \A m \in Message : Taken(k)[m] = 0
BY DEF TypeOK, OneMessage, Taken

LEMMA TakenIsLess ==
    ASSUME TypeOK, NEW k \in Message, queue[k] > 0, queue' = Taken(k)
    PROVE  /\ \A m \in Message : queue'[m] > 0 => queue[m] > 0
           /\ OneMessage => OneMessage'
<1>1. \A m \in Message : queue'[m] <= queue[m] /\ queue[m] \in Nat /\ queue'[m] \in Nat
  BY DEF TypeOK, Taken
<1>2. \A m \in Message : queue'[m] > 0 => queue[m] > 0
  BY <1>1
<1> QED
  BY <1>1, <1>2 DEF OneMessage

-----------------------------------------------------------------------------
(* What a task's step may do.                                              *)

\* While a task executes, no request is in progress, and no recovery that has
\* published nothing.
LEMMA WorkerExcludes ==
    ASSUME DriverInv, NEW w \in Workers, worker[w] # Idle
    PROVE  NobodyAsks /\ NobodyDecides
BY DEF DriverInv, RequestAlone, RecoveryAlone, NobodyWorks, NobodyAsks, NobodyDecides

\* A task without an announcement leaves no message waiting.
LEMMA WorkerHasNone ==
    ASSUME TypeOK, DriverInv, NEW w \in Workers, worker[w] # Idle, ~Announced(w)
    PROVE  NoMessage
BY DEF TypeOK, DriverInv, WorkerAlone, NoMessage

\* A task ends, and leaves at most one message, or messages that are spent.
LEMMA TaskEnds ==
    ASSUME TypeOK, DriverInv, NEW w \in Workers, worker[w] # Idle, Done(w),
           client' = client, beat' = beat, OneMessage' \/ SpentMessages'
    PROVE  DriverInv'
<1>1. NobodyAsks /\ NobodyDecides
  BY WorkerExcludes
<1>2. \A v \in Workers : worker'[v] = Idle
  BY DEF TypeOK, Done, DriverInv, WorkerAlone
<1> QED
  BY <1>1, <1>2 DEF DriverInv, NobodyAsks, NobodyDecides, RecoveryAlone

\* A task goes on.
LEMMA TaskGoesOn ==
    ASSUME TypeOK, DriverInv, NEW w \in Workers, worker[w] # Idle, worker'[w] # Idle,
           \A v \in Workers \ {w} : worker'[v] = worker[v],
           client' = client, beat' = beat, CopyIsTrue(w)', OneMessage',
           \A m \in Message : queue'[m] > 0 => m.task = "confirm" /\ Announced(w)'
    PROVE  DriverInv'
<1>1. NobodyAsks /\ NobodyDecides
  BY WorkerExcludes
<1>2. \A v \in Workers \ {w} : worker'[v] = Idle
  BY DEF DriverInv, WorkerAlone
<1>3. WorkerAlone(w)'
  BY <1>2 DEF WorkerAlone
<1>4. ~NobodyWorks'
  BY DEF NobodyWorks
<1> QED
  BY <1>1, <1>2, <1>3, <1>4 DEF DriverInv, NobodyAsks, NobodyDecides, RecoveryAlone

\* A task goes on, and says nothing.
LEMMA TaskGoesOnSilently ==
    ASSUME TypeOK, DriverInv, NEW w \in Workers, worker[w] \in Busy, worker'[w] # Idle,
           \A v \in Workers \ {w} : worker'[v] = worker[v],
           client' = client, beat' = beat, queue' = queue, CopyIsTrue(w)',
           Announced(w) => Announced(w)'
    PROVE  DriverInv'
<1>1. worker[w] # Idle
  BY DEF Busy, Idle, PC
<1>2. OneMessage' /\ \A m \in Message : queue'[m] > 0 => m.task = "confirm" /\ Announced(w)'
  BY <1>1, SameMessages DEF DriverInv, WorkerAlone
<1> QED
  BY <1>1, <1>2, TaskGoesOn

\* The ways in which a step changes what its own worker is doing.
LEMMA GotoEffect ==
    ASSUME TypeOK, NEW w \in Workers, worker[w] \in Busy, NEW pc \in PC, Goto(w, pc)
    PROVE  /\ worker'[w].task = worker[w].task /\ worker'[w].pc = pc
           /\ worker'[w].seen = worker[w].seen /\ worker'[w] # Idle
           /\ \A v \in Workers \ {w} : worker'[v] = worker[v]
BY DEF TypeOK, Goto, Busy, Idle, PC

LEMMA GotoSeeingEffect ==
    ASSUME TypeOK, NEW w \in Workers, worker[w] \in Busy, NEW pc \in PC, NEW s,
           GotoSeeing(w, pc, s)
    PROVE  /\ worker'[w].task = worker[w].task /\ worker'[w].pc = pc
           /\ worker'[w].seen = s /\ worker'[w] # Idle
           /\ \A v \in Workers \ {w} : worker'[v] = worker[v]
BY DEF TypeOK, GotoSeeing, Busy, Idle, PC

\* Overwriting the state of an upload that exists.
LEMMA WriteEffect ==
    ASSUME TypeOK, NEW s, row' = Write(s)
    PROVE  Exists => row'.state = s
BY DEF TypeOK, Row, Write

\* A task raises.
LEMMA FailKeepsDriver ==
    ASSUME TypeOK, DriverInv, NEW w \in Workers, worker[w] \in Busy, Fail(w),
           client' = client, beat' = beat
    PROVE  DriverInv'
<1>1. worker[w] # Idle /\ "failing" \in PC
  BY DEF Busy, Idle, PC
<1>2. CASE MarksFailed(w)
  <2>1. GotoSeeing(w, "failing", row.state) /\ queue' = queue /\ row' = row
    BY <1>2 DEF Fail
  <2>2. /\ worker'[w].task = worker[w].task /\ worker'[w].pc = "failing"
        /\ worker'[w].seen = row.state /\ worker'[w] # Idle
        /\ \A v \in Workers \ {w} : worker'[v] = worker[v]
    BY <1>1, <2>1, GotoSeeingEffect
  <2>3. CopyIsTrue(w)'
    BY <1>1, <2>1, <2>2 DEF DriverInv, CopyIsTrue, At
  <2>4. Announced(w) => Announced(w)'
    BY <2>2 DEF Announced
  <2> QED
    BY <2>1, <2>2, <2>3, <2>4, TaskGoesOnSilently
<1>3. CASE ~MarksFailed(w)
  <2>1. Done(w) /\ queue' = TriedAgain(w)
    BY <1>3 DEF Fail
  <2>2. NoMessage
    BY <1>1, <1>3, WorkerHasNone DEF MarksFailed, Announced
  <2>3. OneMessage'
    BY <2>1, <2>2, TriedAgainToNone
  <2> QED
    BY <1>1, <2>1, <2>3, TaskEnds
<1> QED
  BY <1>2, <1>3

\* A task says nothing and ends.
LEMMA EndsSilently ==
    ASSUME TypeOK, DriverInv, NEW w \in Workers, worker[w] \in Busy, Done(w),
           queue' = queue, client' = client, beat' = beat
    PROVE  DriverInv'
<1>1. worker[w] # Idle
  BY DEF Busy, Idle, PC
<1> QED
  BY <1>1, SameMessages, TaskEnds DEF DriverInv, WorkerAlone

\* A task commits its last state, and has its successor to publish.
LEMMA GoesToHandoff ==
    ASSUME TypeOK, DriverInv, NEW w \in Workers, worker[w] \in Busy, Goto(w, "handoff"),
           worker[w].task # "validate", queue' = queue, client' = client, beat' = beat
    PROVE  DriverInv'
<1>1. /\ worker'[w].task = worker[w].task /\ worker'[w].pc = "handoff"
      /\ worker'[w] # Idle
      /\ \A v \in Workers \ {w} : worker'[v] = worker[v]
  BY GotoEffect DEF PC
<1>2. CopyIsTrue(w)'
  BY <1>1 DEF CopyIsTrue, At
<1>3. ~Announced(w)
  BY DEF Announced
<1> QED
  BY <1>1, <1>2, <1>3, TaskGoesOnSilently

\* A task claims the upload, and remembers what it has written.
LEMMA ClaimKeepsDriver ==
    ASSUME TypeOK, DriverInv, NEW w \in Workers, worker[w] \in Busy,
           worker[w].task \in {"extract", "chunk"}, Exists,
           NEW s, row' = Write(s), GotoSeeing(w, "claimed", s),
           queue' = queue, client' = client, beat' = beat
    PROVE  DriverInv'
<1>1. /\ worker'[w].task = worker[w].task /\ worker'[w].pc = "claimed"
      /\ worker'[w].seen = s /\ worker'[w] # Idle
      /\ \A v \in Workers \ {w} : worker'[v] = worker[v]
  BY GotoSeeingEffect DEF PC
<1>2. CopyIsTrue(w)'
  BY <1>1, WriteEffect DEF CopyIsTrue, At
<1>3. ~Announced(w)
  BY DEF Announced
<1> QED
  BY <1>1, <1>2, <1>3, TaskGoesOnSilently

\* The handler of an exception marks FAILED and lets the task be retried.
LEMMA MarkFailedKeepsDriver ==
    ASSUME TypeOK, DriverInv, NEW w \in Workers, worker[w] \in Busy, MarkFailed(w)
    PROVE  DriverInv'
<1>1. worker[w] # Idle /\ Done(w) /\ client' = client /\ beat' = beat
  BY DEF MarkFailed, TaskFrame, Busy, Idle, PC
<1>2. CASE worker[w].task = "extract"
  BY <1>1, <1>2, EndsSilently DEF MarkFailed
<1>3. CASE worker[w].task = "validate"
  <2>1. worker[w].seen = row.state /\ row.state = "validating"
    BY <1>1, <1>3 DEF DriverInv, CopyIsTrue, MarkFailed
  <2>2. Exists /\ MayBecome(w, "failed")
    BY <2>1 DEF Exists, MayBecome, can_transition_to, valid_transitions, IngestionState
  <2>3. row'.state = "failed"
    BY <2>2, WriteEffect DEF MarkFailed
  <2>4. queue' = TriedAgain(w)
    BY <1>3 DEF MarkFailed
  <2>5. \A m \in Message : queue[m] > 0 => m.task = "confirm"
    BY <1>1 DEF DriverInv, WorkerAlone
  <2>6. SpentMessages'
    BY <1>3, <2>3, <2>4, <2>5, TriedAgainTasks DEF SpentMessages
  <2> QED
    BY <1>1, <2>6, TaskEnds
<1>4. CASE worker[w].task \notin {"extract", "validate"}
  <2>1. NoMessage
    BY <1>1, <1>4, WorkerHasNone DEF Announced
  <2>2. queue' = TriedAgain(w)
    BY <1>4 DEF MarkFailed
  <2>3. OneMessage'
    BY <2>1, <2>2, TriedAgainToNone
  <2> QED
    BY <1>1, <2>3, TaskEnds
<1> QED
  BY <1>2, <1>3, <1>4

\* A worker executes a step of its task.
LEMMA WorkKeepsDriver ==
    ASSUME SafeInv, DriverInv, NEW w \in Workers, Work(w)
    PROVE  DriverInv'
<1> USE DEF TaskFrame
<1>1. TypeOK /\ AnalyzeIsLast
  BY DEF SafeInv, TypeInv
<1>2. worker[w] \in Busy
  BY <1>1, BusyAtPC DEF Work, Handoff, MarkFailed, IngestClaim, ValidateReject,
     ValidatePublish, ValidateCommit, ValidateNoObject, ConfirmStorage, ExtractClaim,
     ExtractEncrypted, ExtractFails, ExtractComplete, Extracting, ChunkClaim, ChunkNoPages,
     ChunkStore, ChunkConflict, ChunkCommit, Chunking, EmbedNothing, EmbedStore,
     EmbedNoUpload, EmbedCommit, AnalyzeRead, AnalyzeRejected, AnalyzeCommit, At, PC
<1>3. worker[w] # Idle /\ worker[w].task \in Task
  BY <1>2 DEF Busy, Idle, PC
<1>4. WorkerAlone(w) /\ CopyIsTrue(w)
  BY <1>3 DEF DriverInv
<1>5. CASE Fail(w) /\ TaskFrame
  BY <1>1, <1>2, <1>5, FailKeepsDriver
<1>6. CASE Handoff(w)
  <2>1. NoMessage
    BY <1>1, <1>3, <1>6, WorkerHasNone DEF Handoff, Announced
  <2>2. Successor[worker[w].task] \in Task
    BY <1>1, <1>3, <1>6 DEF AnalyzeIsLast, At, Handoff, Task, Successor
  <2>3. OneMessage'
    BY <1>1, <1>6, <2>1, <2>2, PublishedToNone DEF Handoff
  <2> QED
    BY <1>1, <1>3, <1>6, <2>3, TaskEnds DEF Handoff
<1>7. CASE MarkFailed(w)
  BY <1>1, <1>2, <1>7, MarkFailedKeepsDriver
<1>8. CASE IngestClaim(w)
  BY <1>1, <1>2, <1>8, GoesToHandoff, EndsSilently DEF IngestClaim, At
<1>9. CASE ValidateReject(w)
  BY <1>1, <1>2, <1>9, EndsSilently DEF ValidateReject
<1>10. CASE ValidatePublish(w)
  <2>1. NoMessage
    BY <1>1, <1>3, <1>10, WorkerHasNone DEF ValidatePublish, At, Announced
  <2>2. OneMessage' /\ \A m \in Message : queue'[m] > 0 => m.task = "confirm"
    BY <1>1, <1>10, <2>1, PublishedToNone DEF ValidatePublish, Task
  <2>3. /\ worker'[w].task = "validate" /\ worker'[w].pc = "published"
        /\ worker'[w].seen = worker[w].seen /\ worker'[w] # Idle
        /\ \A v \in Workers \ {w} : worker'[v] = worker[v]
    BY <1>1, <1>2, <1>10, GotoEffect DEF ValidatePublish, At, PC
  <2>4. CopyIsTrue(w)' /\ Announced(w)'
    BY <1>4, <1>10, <2>3 DEF ValidatePublish, CopyIsTrue, At, Announced
  <2> QED
    BY <1>1, <1>3, <1>10, <2>2, <2>3, <2>4, TaskGoesOn DEF ValidatePublish
<1>11. CASE ValidateCommit(w)
  BY <1>1, <1>2, <1>11, EndsSilently DEF ValidateCommit
<1>12. CASE ConfirmStorage(w)
  BY <1>1, <1>2, <1>12, GoesToHandoff, EndsSilently DEF ConfirmStorage, At
<1>13. CASE ExtractClaim(w)
  <2>1. Exists
    BY <1>4, <1>13 DEF ExtractClaim, CopyIsTrue, can_transition_to, IngestionState, Exists
  <2> QED
    BY <1>1, <1>2, <1>13, <2>1, ClaimKeepsDriver DEF ExtractClaim
<1>14. CASE ExtractEncrypted(w)
  <2>1. /\ worker'[w].task = "extract" /\ worker'[w].pc = "failing"
        /\ worker'[w].seen = row.state /\ worker'[w] # Idle
        /\ \A v \in Workers \ {w} : worker'[v] = worker[v]
    BY <1>1, <1>2, <1>14, GotoSeeingEffect DEF ExtractEncrypted, Extracting, PC
  <2>2. CopyIsTrue(w)' /\ ~Announced(w)
    BY <1>14, <2>1 DEF ExtractEncrypted, Extracting, CopyIsTrue, At, Announced
  <2> QED
    BY <1>1, <1>2, <1>14, <2>1, <2>2, TaskGoesOnSilently DEF ExtractEncrypted
<1>15. CASE ExtractComplete(w)
  BY <1>1, <1>2, <1>15, GoesToHandoff, EndsSilently DEF ExtractComplete, Extracting
<1>16. CASE ChunkClaim(w)
  <2>1. Exists
    BY <1>4, <1>16 DEF ChunkClaim, At, CopyIsTrue, Exists
  <2> QED
    BY <1>1, <1>2, <1>16, <2>1, ClaimKeepsDriver DEF ChunkClaim, At
<1>17. CASE ChunkNoPages(w)
  BY <1>1, <1>2, <1>17, EndsSilently DEF ChunkNoPages
<1>18. CASE ChunkStore(w)
  <2>1. /\ worker'[w].task = "chunk" /\ worker'[w].pc = "stored"
        /\ worker'[w].seen = worker[w].seen /\ worker'[w] # Idle
        /\ \A v \in Workers \ {w} : worker'[v] = worker[v]
    BY <1>1, <1>2, <1>18, GotoEffect DEF ChunkStore, Chunking, PC
  <2>2. CopyIsTrue(w)' /\ ~Announced(w)
    BY <1>4, <1>18, <2>1 DEF ChunkStore, Chunking, CopyIsTrue, At, Announced
  <2> QED
    BY <1>1, <1>2, <1>18, <2>1, <2>2, TaskGoesOnSilently DEF ChunkStore
<1>19. CASE ChunkCommit(w)
  BY <1>1, <1>2, <1>19, GoesToHandoff DEF ChunkCommit, At
<1>20. CASE EmbedNothing(w)
  BY <1>1, <1>2, <1>20, EndsSilently DEF EmbedNothing
<1>21. CASE EmbedStore(w)
  <2>1. /\ worker'[w].task = "embed" /\ worker'[w].pc = "stored"
        /\ worker'[w].seen = worker[w].seen /\ worker'[w] # Idle
        /\ \A v \in Workers \ {w} : worker'[v] = worker[v]
    BY <1>1, <1>2, <1>21, GotoEffect DEF EmbedStore, At, PC
  <2>2. CopyIsTrue(w)' /\ ~Announced(w)
    BY <1>4, <1>21, <2>1 DEF EmbedStore, CopyIsTrue, At, Announced
  <2> QED
    BY <1>1, <1>2, <1>21, <2>1, <2>2, TaskGoesOnSilently DEF EmbedStore
<1>22. CASE EmbedCommit(w)
  BY <1>1, <1>2, <1>22, GoesToHandoff DEF EmbedCommit, At
<1>23. CASE AnalyzeRead(w)
  <2>1. /\ worker'[w].task = "analyze"
        /\ worker'[w].pc = IF store.reviews = 0 THEN "insert" ELSE "update"
        /\ worker'[w].seen = row.state /\ worker'[w] # Idle
        /\ \A v \in Workers \ {w} : worker'[v] = worker[v]
    BY <1>1, <1>2, <1>23, GotoSeeingEffect DEF AnalyzeRead, At, PC
  <2>2. CopyIsTrue(w)' /\ ~Announced(w)
    BY <1>23, <2>1 DEF AnalyzeRead, CopyIsTrue, At, Announced
  <2> QED
    BY <1>1, <1>2, <1>23, <2>1, <2>2, TaskGoesOnSilently DEF AnalyzeRead
<1>24. CASE AnalyzeCommit(w)
  BY <1>1, <1>2, <1>24, EndsSilently DEF AnalyzeCommit
<1> QED
  BY <1>5, <1>6, <1>7, <1>8, <1>9, <1>10, <1>11, <1>12, <1>13, <1>14, <1>15, <1>16, <1>17,
     <1>18, <1>19, <1>20, <1>21, <1>22, <1>23, <1>24
     DEF Work, ValidateNoObject, ExtractFails, ChunkConflict, EmbedNoUpload, AnalyzeRejected

\* A worker takes a message.
LEMMA TakeKeepsDriver ==
    ASSUME TypeOK, DriverInv, NEW w \in Workers, Take(w)
    PROVE  DriverInv'
<1> USE DEF TaskFrame
<1>1. PICK m \in Message : Begin(w, m) \/ Skip(w, m) \/ Refuse(w, m)
  BY DEF Take
<1>2. worker[w] = Idle /\ queue[m] > 0 /\ client' = client /\ beat' = beat
  BY <1>1 DEF Begin, Skip, Refuse
<1>3. NobodyAsks /\ NobodyDecides
  BY <1>2 DEF DriverInv, RequestAlone, RecoveryAlone, NobodyAsks, NobodyDecides, NoMessage
<1>4. CASE Skip(w, m)
  <2>1. worker' = worker /\ row' = row /\ store' = store /\ queue' = Taken(m)
    BY <1>4 DEF Skip
  <2>2. /\ \A n \in Message : queue'[n] > 0 => queue[n] > 0
        /\ OneMessage => OneMessage'
    BY <1>2, <2>1, TakenIsLess
  <2>3. \A v \in Workers : worker'[v] # Idle => WorkerAlone(v)' /\ CopyIsTrue(v)'
    BY <2>1, <2>2 DEF DriverInv, WorkerAlone, CopyIsTrue, At, Announced
  <2>4. NobodyWorks' => OneMessage' \/ SpentMessages'
    BY <2>1, <2>2 DEF DriverInv, NobodyWorks, SpentMessages
  <2> QED
    BY <1>2, <1>3, <2>3, <2>4 DEF DriverInv, NobodyAsks, NobodyDecides, RecoveryAlone
<1>5. CASE Begin(w, m) \/ Refuse(w, m)
  <2>1. ASSUME NEW v \in Workers, worker[v] # Idle
        PROVE  FALSE
    <3>1. m.task = "confirm" /\ row.state = "validating"
      BY <1>2, <2>1 DEF DriverInv, WorkerAlone, CopyIsTrue, Announced
    <3> QED
      BY <1>5, <3>1 DEF Begin, Refuse, Accepts, Raises
  <2>2. NobodyWorks
    BY <2>1 DEF NobodyWorks
  <2>3. ~SpentMessages
    BY <1>2, <1>5 DEF SpentMessages, Begin, Refuse, Accepts, Raises, Exists
  <2>4. \A n \in Message : Taken(m)[n] = 0
    BY <1>2, <2>2, <2>3, TakenFromOne DEF DriverInv
  <2>5. CASE Begin(w, m)
    <3>1. /\ worker'[w].task = m.task /\ worker'[w].pc = FirstPC(m.task)
          /\ worker'[w].seen = row.state
          /\ \A v \in Workers \ {w} : worker'[v] = Idle
      BY <2>2, <2>5 DEF Begin, TypeOK, NobodyWorks
    <3>2. FirstPC(m.task) \in {"start", "handoff", "empty"}
          /\ (m.task = "ingest" /\ FirstPC(m.task) = "start" => row.state = "uploaded")
      BY DEF FirstPC
    <3>3. worker'[w] # Idle
      BY <3>1, <3>2 DEF Idle
    <3>4. CopyIsTrue(w)'
      BY <2>5, <3>1, <3>2 DEF Begin, Accepts, CopyIsTrue, At
    <3>5. OneMessage' /\ \A n \in Message : ~(queue'[n] > 0)
      BY <2>4, <2>5 DEF Begin, OneMessage
    <3>6. \A v \in Workers : worker'[v] # Idle => WorkerAlone(v)' /\ CopyIsTrue(v)'
      BY <3>1, <3>4, <3>5 DEF WorkerAlone
    <3>7. ~NobodyWorks'
      BY <3>3 DEF NobodyWorks
    <3> QED
      BY <1>2, <1>3, <3>6, <3>7 DEF DriverInv, NobodyAsks, NobodyDecides, RecoveryAlone
  <2>6. CASE Refuse(w, m)
    <3>1. worker' = worker
      BY <2>6 DEF Refuse
    <3>2. OneMessage'
      <4>1. CASE queue' = Taken(m)
        BY <2>4, <4>1 DEF OneMessage
      <4>2. CASE queue' # Taken(m)
        <5>1. \A n \in Message :
                queue'[n] = IF n = [m EXCEPT !.retries = @ + 1] THEN 1 ELSE 0
          BY <1>2, <2>4, <2>6, <4>2, TakenType DEF Refuse
        <5> QED
          BY <5>1 DEF OneMessage
      <4> QED
        BY <4>1, <4>2
    <3> QED
      BY <1>2, <1>3, <2>2, <3>1, <3>2
         DEF DriverInv, NobodyWorks, NobodyAsks, NobodyDecides, RecoveryAlone
  <2> QED
    BY <1>5, <2>5, <2>6
<1> QED
  BY <1>1, <1>4, <1>5

-----------------------------------------------------------------------------
(* What requests, the recovery and failures may do.                        *)

\* With nothing in progress, a request begins.
LEMMA RequestBegins ==
    ASSUME TypeOK, Quiet, NEW c \in Clients,
           NEW pc \in {"retrying", "deleting"}, client' = [client EXCEPT ![c] = pc],
           pc = "retrying" => row.state = "failed", pc = "deleting" => Exists,
           row' = row, UNCHANGED <<queue, worker, beat>>
    PROVE  DriverInv'
<1>1. NoMessage' /\ NobodyWorks' /\ NobodyRecovers'
  BY DEF Quiet, NoMessage, NobodyWorks, NobodyRecovers
<1>2. \A d \in Clients : client'[d] = IF d = c THEN pc ELSE "idle"
  BY DEF TypeOK, Quiet
<1>3. RequestAlone(c)'
  BY <1>1, <1>2 DEF RequestAlone, Exists
<1>4. OneMessage'
  BY <1>1 DEF NoMessage, OneMessage
<1> QED
  BY <1>1, <1>2, <1>3, <1>4 DEF DriverInv, NobodyWorks, NobodyRecovers, RecoveryAlone

\* A request ends, having published a message or none.
LEMMA RequestEnds ==
    ASSUME TypeOK, DriverInv, NEW c \in Clients, client[c] # "idle",
           client' = [client EXCEPT ![c] = "idle"], UNCHANGED <<worker, beat>>,
           OneMessage'
    PROVE  DriverInv'
<1>1. NobodyWorks /\ NobodyRecovers /\ \A d \in Clients \ {c} : client[d] = "idle"
  BY DEF DriverInv, RequestAlone
<1>2. \A d \in Clients : client'[d] = "idle"
  BY <1>1 DEF TypeOK
<1> QED
  BY <1>1, <1>2 DEF DriverInv, NobodyWorks, NobodyRecovers, RecoveryAlone

LEMMA RequestKeepsDriver ==
    ASSUME NothingOvertakes, TypeOK, DriverInv, NEW c \in Clients,
           RetryRead(c) \/ DeleteObject(c) \/ Continue(c)
    PROVE  DriverInv'
<1> USE DEF RequestFrame
<1>1. CASE RetryRead(c)
  BY <1>1, RequestBegins DEF RetryRead, NothingOvertakes
<1>2. CASE DeleteObject(c)
  BY <1>2, RequestBegins DEF DeleteObject, NothingOvertakes
<1>3. CASE RetryCommit(c)
  <2>1. RequestAlone(c)
    BY <1>3 DEF RetryCommit, DriverInv
  <2>2. NoMessage' /\ NobodyWorks' /\ NobodyRecovers' /\ OneMessage'
    BY <1>3, <2>1
       DEF RetryCommit, RequestAlone, NoMessage, NobodyWorks, NobodyRecovers, OneMessage
  <2>3. \A d \in Clients : client'[d] # "idle" => d = c /\ client'[d] = "dispatching"
    BY <1>3, <2>1 DEF RetryCommit, RequestAlone, TypeOK
  <2>4. \A d \in Clients : client'[d] # "idle" => RequestAlone(d)'
    BY <2>2, <2>3 DEF RequestAlone
  <2> QED
    BY <2>2, <2>4 DEF DriverInv, NobodyWorks, NobodyRecovers, RecoveryAlone
<1>4. CASE RetryDispatch(c)
  <2>1. NoMessage
    BY <1>4 DEF RetryDispatch, DriverInv, RequestAlone
  <2>2. OneMessage'
    BY <1>4, <2>1, PublishedToNone DEF RetryDispatch, Task
  <2> QED
    BY <1>4, <2>2, RequestEnds DEF RetryDispatch
<1>5. CASE DeleteRow(c)
  <2>1. OneMessage'
    BY <1>5, NoneIsOne, SameMessages DEF DeleteRow, DriverInv, RequestAlone
  <2> QED
    BY <1>5, <2>1, RequestEnds DEF DeleteRow
<1> QED
  BY <1>1, <1>2, <1>3, <1>4, <1>5 DEF Continue

\* The one scan in progress ends.
LEMMA ScanEnds ==
    ASSUME TypeOK, DriverInv, NEW s \in Scans, beat[s] # "idle",
           beat' = [beat EXCEPT ![s] = "idle"]
    PROVE  NobodyRecovers'
BY DEF TypeOK, DriverInv, RecoveryAlone, NobodyRecovers

LEMMA RecoveryKeepsDriver ==
    ASSUME NothingOvertakes, TypeOK, DriverInv, NEW s \in Scans,
           RecoverScan(s) \/ RecoverCommit(s)
    PROVE  DriverInv'
<1> USE DEF BeatFrame
<1>1. CASE RecoverScan(s)
  <2>1. Quiet
    BY <1>1 DEF RecoverScan, Due, NothingOvertakes
  <2>2. /\ NoMessage /\ NobodyWorks' /\ \A c \in Clients : client'[c] = "idle"
        /\ \A t \in Scans \ {s} : beat'[t] = "idle"
    BY <1>1, <2>1 DEF Quiet, NoMessage, NobodyWorks, RecoverScan, TypeOK
  <2>3. CASE row.state \in Requeueable /\ row.retry_count < MaxRetries
    <3>1. redispatch_ingestion(row.state) \in Task
      BY <2>3 DEF Requeueable, redispatch_ingestion, Task
    <3>2. OneMessage' /\ beat'[s] = "requeue"
      BY <1>1, <2>2, <2>3, <3>1, PublishedToNone DEF RecoverScan, TypeOK
    <3> QED
      BY <2>2, <3>2 DEF DriverInv, NobodyWorks, RecoveryAlone
  <2>4. CASE ~(row.state \in Requeueable /\ row.retry_count < MaxRetries)
    <3>1. queue' = queue /\ row' = row /\ row.state \in Stuck
      BY <1>1, <2>4 DEF RecoverScan
    <3>2. NoMessage' /\ OneMessage'
      BY <2>2, <3>1 DEF NoMessage, OneMessage
    <3> QED
      BY <2>2, <3>1, <3>2 DEF DriverInv, NobodyWorks, RecoveryAlone
  <2> QED
    BY <2>3, <2>4
<1>2. CASE RecoverCommit(s)
  <2>1. NobodyAsks /\ UNCHANGED <<store, queue, worker, client>>
    BY <1>2 DEF RecoverCommit, DriverInv, RequestAlone, NobodyRecovers, NobodyAsks
  <2>2. NobodyRecovers'
    BY <1>2, ScanEnds DEF RecoverCommit
  <2>3. CASE beat[s] \in {"count", "fail"}
    <3>1. NobodyWorks /\ NoMessage
      BY <2>3 DEF DriverInv, RecoveryAlone
    <3>2. NobodyWorks' /\ OneMessage'
      BY <2>1, <3>1 DEF NobodyWorks, NoMessage, OneMessage
    <3> QED
      BY <2>1, <2>2, <3>2 DEF DriverInv, NobodyAsks, NobodyWorks, NobodyRecovers, RecoveryAlone
  <2>4. CASE beat[s] = "requeue"
    <3>1. row'.state = row.state
      BY <1>2, <2>4 DEF RecoverCommit, TypeOK, Row
    <3>2. \A w \in Workers : worker'[w] # Idle => WorkerAlone(w)' /\ CopyIsTrue(w)'
      BY <2>1, <3>1 DEF DriverInv, WorkerAlone, CopyIsTrue, At, Announced, OneMessage
    <3>3. NobodyWorks' => OneMessage' \/ SpentMessages'
      BY <2>1, <3>1 DEF DriverInv, NobodyWorks, OneMessage, SpentMessages
    <3> QED
      BY <2>1, <2>2, <3>2, <3>3 DEF DriverInv, NobodyAsks, NobodyRecovers, RecoveryAlone
  <2> QED
    BY <1>2, <2>3, <2>4 DEF RecoverCommit, TypeOK, BeatPC
<1> QED
  BY <1>1, <1>2

LEMMA FailuresKeepDriver ==
    ASSUME NothingOvertakes, TypeOK, DriverInv, Failures
    PROVE  DriverInv'
<1>1. ASSUME NEW w \in Workers, TaskError(w)
      PROVE  DriverInv'
  BY <1>1, BusyAtPC, FailKeepsDriver DEF TaskError
<1>2. ASSUME NEW w \in Workers, WorkerKilled(w)
      PROVE  DriverInv'
  BY <1>2, BusyWorker, EndsSilently DEF WorkerKilled
<1>3. ASSUME NEW c \in Clients, RequestLost(c)
      PROVE  DriverInv'
  <2>1. OneMessage'
    BY <1>3, NoneIsOne, SameMessages DEF RequestLost, DriverInv, RequestAlone
  <2> QED
    BY <1>3, <2>1, RequestEnds DEF RequestLost
<1>4. ASSUME NEW c \in Clients, DeleteObjectFails(c)
      PROVE  DriverInv'
  BY <1>4, RequestBegins DEF DeleteObjectFails, NothingOvertakes
<1>5. ASSUME NEW s \in Scans, RecoverAbort(s)
      PROVE  DriverInv'
  <2>1. NobodyRecovers' /\ UNCHANGED <<row, store, queue, worker, client>>
    BY <1>5, ScanEnds DEF RecoverAbort
  <2>2. \A c \in Clients : client[c] = "idle"
    BY <1>5 DEF RecoverAbort, DriverInv, RequestAlone, NobodyRecovers
  <2>3. \A w \in Workers : worker'[w] # Idle => WorkerAlone(w)' /\ CopyIsTrue(w)'
    BY <2>1 DEF DriverInv, WorkerAlone, CopyIsTrue, At, Announced, OneMessage
  <2>4. NobodyWorks' => OneMessage' \/ SpentMessages'
    BY <2>1 DEF DriverInv, NobodyWorks, OneMessage, SpentMessages
  <2> QED
    BY <2>1, <2>2, <2>3, <2>4 DEF DriverInv, NobodyRecovers, RecoveryAlone
<1> QED
  BY <1>1, <1>2, <1>3, <1>4, <1>5
     DEF Failures, SoftTimeLimit, NodeLost, Restart, Fault, NothingOvertakes

LEMMA NextKeepsDriver ==
    ASSUME NothingOvertakes, SafeInv, DriverInv, [Next]_vars
    PROVE  DriverInv'
<1>1. TypeOK
  BY DEF SafeInv, TypeInv
<1>2. CASE UNCHANGED vars
  BY <1>2 DEF vars, DriverInv, RequestAlone, WorkerAlone, CopyIsTrue, RecoveryAlone,
     SpentMessages, NoMessage, OneMessage, NobodyWorks, NobodyRecovers, Announced, At,
     Exists
<1> QED
  BY <1>1, <1>2, WorkKeepsDriver, TakeKeepsDriver, RequestKeepsDriver, RecoveryKeepsDriver,
     FailuresKeepDriver DEF Next

LEMMA InitHasDriver == Init => DriverInv
<1>1. ASSUME Init
      PROVE  /\ OneMessage /\ NobodyWorks /\ NobodyRecovers
             /\ \A c \in Clients : client[c] = "idle"
  <2>1. PICK queued \in {0, 1} :
          queue = [m \in Message |->
                     IF m = [task |-> "ingest", retries |-> 0] THEN queued ELSE 0]
    BY <1>1 DEF Init
  <2>2. OneMessage
    BY <2>1 DEF OneMessage
  <2> QED
    BY <1>1, <2>2 DEF Init, NobodyWorks, NobodyRecovers
<1> QED
  BY <1>1 DEF DriverInv, NobodyWorks, NobodyRecovers, RecoveryAlone

LEMMA DriverInvariant == ASSUME NothingOvertakes PROVE Spec => []DriverInv
<1>1. SafeInv /\ DriverInv /\ [Next]_vars => DriverInv'
  BY NextKeepsDriver
<1> QED
  BY <1>1, InitHasDriver, SafeInvariant, PTL DEF Spec

-----------------------------------------------------------------------------
(* One driver.                                                             *)

\* A set whose elements are all the same has at most one.
LEMMA AtMostOneElement ==
    ASSUME NEW S, \A x, y \in S : x = y
    PROVE  Cardinality(S) \in 0..1
<1>1. CASE S = {}
  BY <1>1, FS_EmptySet
<1>2. CASE S # {}
  <2>1. PICK x \in S : TRUE
    BY <1>2
  <2>2. S = {x}
    BY <2>1
  <2> QED
    BY <2>2, FS_Singleton
<1> QED
  BY <1>1, <1>2

\* When nothing overtakes work in progress, a single worker or request drives
\* the upload: confirm_storage, published before VALIDATED is committed, finds
\* nothing to do, and a failed task that is both marked FAILED and retried
\* leaves no message that any task accepts.
THEOREM OneDriverAtATime == ASSUME NothingOvertakes PROVE Spec => []OneDriver
<1> DEFINE working == {w \in Workers : worker[w] # Idle}
           asking == {c \in Clients : client[c] # "idle"}
<1>1. ASSUME DriverInv
      PROVE  OneDriver
  <2>1. Cardinality(working) \in 0..1
    <3>1. \A v, w \in working : v = w
      BY <1>1 DEF DriverInv, WorkerAlone
    <3> QED
      BY <3>1, AtMostOneElement
  <2>2. Cardinality(asking) \in 0..1
    <3>1. \A c, d \in asking : c = d
      BY <1>1 DEF DriverInv, RequestAlone
    <3> QED
      BY <3>1, AtMostOneElement
  <2>3. working = {} \/ asking = {}
    BY <1>1 DEF DriverInv, RequestAlone, NobodyWorks
  <2> QED
    BY <2>1, <2>2, <2>3, FS_EmptySet DEF OneDriver
<1> QED
  BY <1>1, DriverInvariant, PTL

-----------------------------------------------------------------------------
(* The refinement.                                                         *)

\* What those who only watch an upload see of a step.
Seen == [Lifecycle!LifecycleNext]_<<row.state, store.reviews > 0>>

LEMMA NothingSeen ==
    ASSUME row'.state = row.state, store'.reviews = store.reviews
    PROVE  Seen
BY DEF Seen

\* A transition of the state machine that creates no review.
LEMMA AdvanceSeen ==
    ASSUME NEW s \in IngestionState, s # "review_ready", can_transition_to(row.state, s),
           row'.state = s, store'.reviews = store.reviews
    PROVE  Seen
BY DEF Seen, Lifecycle!LifecycleNext, Lifecycle!Advance, Lifecycle!can_transition_to,
   Lifecycle!valid_transitions, Lifecycle!IngestionState, can_transition_to,
   valid_transitions, IngestionState

\* A blind write sees to a transition, or to nothing when the upload is gone.
LEMMA WriteSeen ==
    ASSUME TypeOK, NEW s \in IngestionState, s # "review_ready", row' = Write(s),
           Exists => can_transition_to(row.state, s), store'.reviews = store.reviews
    PROVE  Seen
<1>1. CASE Exists
  BY <1>1, WriteEffect, AdvanceSeen
<1>2. CASE ~Exists
  BY <1>2, NothingSeen DEF Write
<1> QED
  BY <1>1, <1>2

LEMMA InitSeen == Init => Lifecycle!LifecycleInit
BY DEF Init, EmptyStore, Lifecycle!LifecycleInit

\* The steps of a worker.  Its copy of the row being true, what the copy allows
\* the row allows; and the review is committed with REVIEW_READY, so that one
\* found in that state has its review already.
LEMMA WorkSeen ==
    ASSUME SafeInv, DriverInv, NEW w \in Workers, Take(w) \/ Work(w)
    PROVE  Seen
<1>1. TypeOK /\ StateIsBacked /\ WorkerIsBacked(w) /\ store \in Store
  BY DEF SafeInv, TypeInv, TypeOK, WorkersAreBacked
<1>2. CASE row' = row /\ store' = store
  BY <1>2, NothingSeen
<1>3. worker[w] # Idle => CopyIsTrue(w)
  BY DEF DriverInv
<1>4. /\ can_transition_to("uploaded", "validating")
      /\ can_transition_to("validating", "validated")
      /\ can_transition_to("validated", "storage_confirmed")
      /\ can_transition_to("validated", "failed")
      /\ can_transition_to("ocr_processing", "ocr_complete")
      /\ can_transition_to("ocr_processing", "quarantined")
      /\ can_transition_to("ocr_complete", "chunking_pending")
      /\ can_transition_to("chunking_pending", "failed")
      /\ can_transition_to("chunking_pending", "embedding_pending")
      /\ can_transition_to("embedding_pending", "analysis_pending")
      /\ can_transition_to("analysis_pending", "review_ready")
  BY DEF can_transition_to, valid_transitions, IngestionState
<1>5. \A s \in {"validating", "validated", "storage_confirmed", "ocr_pending",
                "ocr_processing", "ocr_complete", "chunking_pending", "embedding_pending",
                "analysis_pending", "failed", "quarantined"} :
        s \in IngestionState /\ s # "review_ready"
  BY DEF IngestionState
<1>6. CASE MarkFailed(w)
  <2>1. worker[w].seen = row.state
    BY <1>3, <1>6 DEF MarkFailed, Idle, CopyIsTrue
  <2> QED
    BY <1>1, <1>5, <1>6, <2>1, WriteSeen, NothingSeen DEF MarkFailed, MayBecome
<1>7. CASE IngestClaim(w)
  BY <1>1, <1>3, <1>4, <1>5, <1>7, WriteSeen DEF IngestClaim, At, Idle, CopyIsTrue
<1>8. CASE ValidateCommit(w)
  BY <1>1, <1>3, <1>4, <1>5, <1>8, WriteSeen DEF ValidateCommit, At, Idle, CopyIsTrue
<1>9. CASE ConfirmStorage(w)
  BY <1>1, <1>3, <1>4, <1>5, <1>9, WriteSeen DEF ConfirmStorage, At, Idle, CopyIsTrue
<1>10. CASE ExtractClaim(w)
  BY <1>1, <1>3, <1>5, <1>10, WriteSeen DEF ExtractClaim, Idle, CopyIsTrue
<1>11. CASE ExtractComplete(w)
  <2>1. row.state = "ocr_processing" /\ store'.reviews = store.reviews
    BY <1>1, <1>3, <1>11 DEF ExtractComplete, Extracting, Idle, CopyIsTrue, Store
  <2> QED
    BY <1>1, <1>4, <1>5, <1>11, <2>1, WriteSeen DEF ExtractComplete
<1>12. CASE ChunkClaim(w)
  BY <1>1, <1>3, <1>4, <1>5, <1>12, WriteSeen DEF ChunkClaim, At, Idle, CopyIsTrue
<1>13. CASE ChunkNoPages(w)
  BY <1>1, <1>3, <1>4, <1>5, <1>13, WriteSeen
     DEF ChunkNoPages, Chunking, Idle, CopyIsTrue
<1>14. CASE ChunkStore(w) \/ EmbedStore(w)
  BY <1>1, <1>14, NothingSeen DEF ChunkStore, EmbedStore, Store
<1>15. CASE ChunkCommit(w)
  BY <1>1, <1>3, <1>4, <1>5, <1>15, WriteSeen DEF ChunkCommit, At, Idle, CopyIsTrue
<1>16. CASE EmbedNothing(w) \/ EmbedCommit(w)
  <2>1. row.state = "embedding_pending"
    BY <1>1, <1>3, <1>16
       DEF EmbedNothing, EmbedCommit, At, Idle, CopyIsTrue, WorkerIsBacked
  <2> QED
    BY <1>1, <1>4, <1>5, <1>16, <2>1, WriteSeen DEF EmbedNothing, EmbedCommit
<1>17. CASE AnalyzeCommit(w)
  <2>1. /\ worker[w].seen = row.state
        /\ row.state \in {"analysis_pending", "review_ready"}
        /\ worker[w].pc = "insert" => store.reviews = 0
        /\ worker[w].pc = "update" => store.reviews > 0
        /\ store.reviews \in Nat
    BY <1>1, <1>3, <1>17
       DEF AnalyzeCommit, Idle, CopyIsTrue, WorkerIsBacked, Store
  <2>2. CASE row.state = "review_ready"
    <3>1. store.reviews > 0
      BY <1>1, <2>2 DEF StateIsBacked, Backed, Exists
    <3>2. row' = row /\ store' = store
      BY <1>17, <2>1, <2>2, <3>1 DEF AnalyzeCommit
    <3> QED
      BY <3>2, NothingSeen
  <2>3. CASE row.state = "analysis_pending"
    <3>1. row'.state = "review_ready"
      BY <1>1, <1>17, <2>1, <2>3, WriteEffect DEF AnalyzeCommit, Exists
    <3>2. store'.reviews > 0
      BY <1>1, <1>17, <2>1 DEF AnalyzeCommit, Store
    <3> QED
      BY <2>3, <3>1, <3>2
         DEF Seen, Lifecycle!LifecycleNext, Lifecycle!Advance, Lifecycle!can_transition_to,
         Lifecycle!valid_transitions, Lifecycle!IngestionState
  <2> QED
    BY <2>1, <2>2, <2>3
<1>18. CASE Take(w)
  BY <1>2, <1>18 DEF Take, Begin, Skip, Refuse
<1> QED
  BY <1>2, <1>6, <1>7, <1>8, <1>9, <1>10, <1>11, <1>12, <1>13, <1>14, <1>15, <1>16, <1>17, <1>18
     DEF Work, Fail, Handoff, ValidateReject, ValidatePublish, ValidateNoObject,
     ExtractEncrypted, ExtractFails, ChunkConflict, EmbedNoUpload, AnalyzeRead,
     AnalyzeRejected

\* The steps of the requests, the recovery and the failures.
LEMMA OthersSeen ==
    ASSUME NothingOvertakes, SafeInv, DriverInv,
           \/ \E c \in Clients : RetryRead(c) \/ DeleteObject(c) \/ Continue(c)
           \/ \E s \in Scans : RecoverScan(s) \/ RecoverCommit(s)
           \/ Failures
    PROVE  Seen
<1>1. TypeOK /\ store \in Store /\ row \in Row
  BY DEF SafeInv, TypeInv, TypeOK
<1>2. CASE row'.state = row.state /\ store'.reviews = store.reviews
  BY <1>2, NothingSeen
<1>3. ASSUME NEW c \in Clients, RetryRead(c) \/ DeleteObject(c) \/ RetryDispatch(c)
      PROVE  Seen
  BY <1>1, <1>2, <1>3 DEF RetryRead, DeleteObject, RetryDispatch, Store
<1>4. ASSUME NEW c \in Clients, RetryCommit(c)
      PROVE  Seen
  <2>1. row.state = "failed"
    BY <1>4 DEF RetryCommit, DriverInv, RequestAlone
  <2> QED
    BY <1>2, <1>4, <2>1 DEF RetryCommit, Seen, Lifecycle!LifecycleNext, Lifecycle!Retry
<1>5. ASSUME NEW c \in Clients, DeleteRow(c)
      PROVE  Seen
  <2>1. Exists
    BY <1>5 DEF DeleteRow, DriverInv, RequestAlone
  <2>2. row.state \in IngestionState
    BY <1>1, <2>1 DEF Row, RowState, Exists
  <2>3. row'.state = "deleted" /\ store'.reviews = 0
    BY <1>1, <1>5 DEF DeleteRow, Row, EmptyStore
  <2> QED
    BY <2>2, <2>3
       DEF Seen, Lifecycle!LifecycleNext, Lifecycle!Delete, Lifecycle!IngestionState,
       IngestionState
<1>6. ASSUME NEW s \in Scans, RecoverScan(s)
      PROVE  Seen
  BY <1>2, <1>6 DEF RecoverScan, BeatFrame
<1>7. ASSUME NEW s \in Scans, RecoverCommit(s)
      PROVE  Seen
  <2>1. CASE beat[s] = "fail"
    <3>1. row.state \in Stuck
      BY <2>1 DEF DriverInv, RecoveryAlone
    <3>2. can_transition_to(row.state, "failed") /\ "failed" \in IngestionState
      BY <3>1 DEF Stuck, can_transition_to, valid_transitions, IngestionState
    <3> QED
      BY <1>1, <1>7, <2>1, <3>2, WriteSeen DEF RecoverCommit, BeatFrame
  <2>2. CASE beat[s] # "fail"
    BY <1>1, <1>2, <1>7, <2>2 DEF RecoverCommit, BeatFrame, Row
  <2> QED
    BY <2>1, <2>2
<1>8. CASE Failures
  BY <1>2, <1>8
     DEF Failures, TaskError, Fail, WorkerKilled, SoftTimeLimit, NodeLost, RequestLost,
     DeleteObjectFails, RecoverAbort, Restart, Fault, NothingOvertakes
<1> QED
  BY <1>3, <1>4, <1>5, <1>6, <1>7, <1>8 DEF Continue

\* When nothing overtakes work in progress, the pipeline implements the
\* lifecycle: every step of every worker, request and recovery is a transition
\* of the state machine, a retry or a deletion, or cannot be seen.
THEOREM LifecycleIsImplemented ==
    ASSUME NothingOvertakes PROVE Spec => ImplementsLifecycle
<1>1. SafeInv /\ DriverInv /\ [Next]_vars => Seen
  <2>1. CASE UNCHANGED vars
    BY <2>1, NothingSeen DEF vars
  <2> QED
    BY <2>1, WorkSeen, OthersSeen DEF Next
<1> QED
  BY <1>1, InitSeen, SafeInvariant, DriverInvariant, PTL
     DEF Spec, Seen, ImplementsLifecycle, Lifecycle!LifecycleSpec

-----------------------------------------------------------------------------
(* One review, and what is ready stays ready.                              *)

\* What those who watch see, an upload under review is only ever deleted.
LEMMA SeenReadyIsFinal ==
    ASSUME Seen, row.state = "review_ready"
    PROVE  row'.state # "analysis_pending"
BY DEF Seen, Lifecycle!LifecycleNext, Lifecycle!Advance, Lifecycle!Retry, Lifecycle!Delete,
   Lifecycle!can_transition_to, Lifecycle!valid_transitions, Lifecycle!IngestionState

\* When nothing overtakes work in progress, an upload that is ready for review
\* does not go back to waiting for its analysis, as valid_transitions promises.
THEOREM ReadyIsFinalWhenTimely == ASSUME NothingOvertakes PROVE Spec => ReadyIsFinal
<1>1. SafeInv /\ DriverInv /\ [Next]_vars =>
        (row.state = "review_ready" => row'.state # "analysis_pending")
  <2>1. CASE UNCHANGED vars
    BY <2>1 DEF vars
  <2> QED
    BY <2>1, WorkSeen, OthersSeen, SeenReadyIsFinal DEF Next
<1> QED
  BY <1>1, SafeInvariant, DriverInvariant, PTL DEF Spec, ReadyIsFinal

\* Only the commit of an analysis adds a review, and only a deletion removes it.
LEMMA ReviewsChange ==
    ASSUME TypeOK, Next, store'.reviews # store.reviews
    PROVE  \/ store'.reviews = 0
           \/ \E w \in Workers : AnalyzeCommit(w) /\ worker[w].pc = "insert"
                                 /\ store'.reviews = store.reviews + 1
<1>1. store \in Store
  BY DEF TypeOK
<1>2. ASSUME NEW w \in Workers, Work(w), ~AnalyzeCommit(w)
      PROVE  FALSE
  BY <1>1, <1>2
     DEF Work, Store, Fail, Handoff, MarkFailed, IngestClaim, ValidateReject, ValidatePublish,
     ValidateCommit, ValidateNoObject, ConfirmStorage, ExtractClaim, ExtractEncrypted,
     ExtractFails, ExtractComplete, ChunkClaim, ChunkNoPages, ChunkStore, ChunkConflict,
     ChunkCommit, EmbedNothing, EmbedStore, EmbedNoUpload, EmbedCommit, AnalyzeRead,
     AnalyzeRejected
<1>3. ASSUME NEW w \in Workers, AnalyzeCommit(w)
      PROVE  worker[w].pc = "insert" /\ store'.reviews = store.reviews + 1
  BY <1>1, <1>3 DEF AnalyzeCommit, Store
<1>4. ASSUME NEW w \in Workers, Take(w)
      PROVE  FALSE
  BY <1>4 DEF Take, Begin, Skip, Refuse
<1>5. ASSUME NEW c \in Clients, RetryRead(c) \/ DeleteObject(c) \/ Continue(c)
      PROVE  store'.reviews = 0
  BY <1>1, <1>5
     DEF Continue, RetryRead, DeleteObject, RetryCommit, RetryDispatch, DeleteRow, Store,
     EmptyStore
<1>6. (\A s \in Scans : ~RecoverScan(s) /\ ~RecoverCommit(s)) /\ ~Failures
  BY DEF RecoverScan, RecoverCommit, BeatFrame, Failures, TaskError, Fail, WorkerKilled,
     SoftTimeLimit, NodeLost, RequestLost, DeleteObjectFails, RecoverAbort, Restart
<1> QED
  BY <1>2, <1>3, <1>4, <1>5, <1>6 DEF Next

\* When nothing overtakes work in progress, an upload has one review, as the
\* analysis promises to be idempotent.
THEOREM OneReviewWhenTimely == ASSUME NothingOvertakes PROVE Spec => []OneReview
<1>1. Init => OneReview
  BY DEF Init, EmptyStore, OneReview
<1>2. SafeInv /\ DriverInv /\ OneReview /\ [Next]_vars => OneReview'
  <2> SUFFICES ASSUME SafeInv, DriverInv, OneReview, Next, store'.reviews # store.reviews
               PROVE  OneReview'
    BY DEF vars, OneReview
  <2>1. TypeOK
    BY DEF SafeInv, TypeInv
  <2>2. ASSUME NEW w \in Workers, worker[w].pc = "insert"
        PROVE  store.reviews = 0
    BY <2>2 DEF Idle, DriverInv, CopyIsTrue
  <2> QED
    BY <2>1, <2>2, ReviewsChange DEF OneReview
<1> QED
  BY <1>1, <1>2, SafeInvariant, DriverInvariant, PTL DEF Spec

-----------------------------------------------------------------------------
(* What has to overlap.  These two hold although everything may overtake:  *)
(* recoveries, redeliveries, retries, deletions, restarts, and coroutines  *)
(* left behind, as long as two particular tasks are not in progress        *)
(* together.                                                               *)

\* The hypotheses: no two analyses, and no embedding beside an analysis.
OneAnalysis ==
    \A v, w \in Workers : worker[v].task = "analyze" /\ worker[w].task = "analyze" => v = w
NoEmbeddingBesideAnalysis ==
    ~ \E v, w \in Workers : worker[v].task = "embed" /\ worker[w].task = "analyze"

\* The embedding task has found the upload in EMBEDDING_PENDING, and will write
\* ANALYSIS_PENDING.
Embedding(w) == worker[w].task = "embed" /\ worker[w].pc \in {"start", "stored", "empty"}

\* A task that is to insert a review was so before, or is an analysis that has just
\* found none; an embedding in progress was so before, or has just begun.
ComesFrom(w) ==
    /\ worker'[w].pc = "insert" =>
         \/ worker[w].pc = "insert" /\ worker'[w].task = worker[w].task
         \/ worker'[w].task = "analyze" /\ store'.reviews = 0
    /\ Embedding(w)' => Embedding(w) \/ row'.state = "embedding_pending"

LEMMA SameComesFrom ==
    ASSUME NEW w \in Workers, worker'[w] = worker[w] \/ worker'[w] = Idle
    PROVE  ComesFrom(w)
BY DEF ComesFrom, Embedding, Idle

LEMMA WorkComesFrom ==
    ASSUME TypeInv, NEW w \in Workers, Work(w)
    PROVE  ComesFrom(w)
<1>1. TypeOK
  BY DEF TypeInv
<1>2. worker[w] \in Busy
  BY <1>1, BusyAtPC DEF Work, Handoff, MarkFailed, IngestClaim, ValidateReject,
     ValidatePublish, ValidateCommit, ValidateNoObject, ConfirmStorage, ExtractClaim,
     ExtractEncrypted, ExtractFails, ExtractComplete, Extracting, ChunkClaim, ChunkNoPages,
     ChunkStore, ChunkConflict, ChunkCommit, Chunking, EmbedNothing, EmbedStore,
     EmbedNoUpload, EmbedCommit, AnalyzeRead, AnalyzeRejected, AnalyzeCommit, At, PC
<1>3. Done(w) => ComesFrom(w)
  BY <1>1, SameComesFrom DEF Done, TypeOK
<1>4. ASSUME NEW pc \in {"handoff", "claimed", "published", "failing", "stored"},
             pc = "stored" => worker[w].task = "chunk" \/ Embedding(w),
             Goto(w, pc) \/ \E s : GotoSeeing(w, pc, s)
      PROVE  ComesFrom(w)
  <2>1. worker'[w].pc = pc /\ worker'[w].task = worker[w].task
    BY <1>1, <1>2, <1>4, GotoEffect, GotoSeeingEffect DEF PC
  <2> QED
    BY <1>4, <2>1 DEF ComesFrom, Embedding
<1>5. CASE Fail(w)
  BY <1>3, <1>4, <1>5 DEF Fail
<1>6. CASE Handoff(w) \/ MarkFailed(w) \/ ValidateReject(w) \/ ValidateCommit(w)
           \/ ChunkNoPages(w) \/ EmbedNothing(w) \/ AnalyzeCommit(w)
  BY <1>3, <1>6 DEF Handoff, MarkFailed, ValidateReject, ValidateCommit, ChunkNoPages,
     EmbedNothing, AnalyzeCommit
<1>7. CASE IngestClaim(w) \/ ValidatePublish(w) \/ ConfirmStorage(w) \/ ExtractEncrypted(w)
           \/ ExtractClaim(w) \/ ExtractComplete(w)
  BY <1>3, <1>4, <1>7 DEF IngestClaim, ValidatePublish, ConfirmStorage, ExtractEncrypted,
     ExtractClaim, ExtractComplete
<1>8. CASE ChunkClaim(w) \/ ChunkStore(w) \/ ChunkCommit(w) \/ EmbedStore(w) \/ EmbedCommit(w)
  BY <1>4, <1>8 DEF ChunkClaim, ChunkStore, Chunking, ChunkCommit, EmbedStore, EmbedCommit,
     At, Embedding
<1>9. CASE AnalyzeRead(w)
  <2>1. /\ worker'[w].task = "analyze" /\ store' = store
        /\ worker'[w].pc = "insert" => store.reviews = 0
    BY <1>1, <1>2, <1>9, GotoSeeingEffect DEF AnalyzeRead, At, PC
  <2> QED
    BY <2>1 DEF ComesFrom, Embedding
<1> QED
  BY <1>5, <1>6, <1>7, <1>8, <1>9
     DEF Work, ValidateNoObject, ExtractFails, ChunkConflict, EmbedNoUpload, AnalyzeRejected

LEMMA TakeComesFrom ==
    ASSUME TypeOK, NEW w \in Workers, Take(w)
    PROVE  ComesFrom(w)
<1>1. PICK m \in Message : Begin(w, m) \/ Skip(w, m) \/ Refuse(w, m)
  BY DEF Take
<1>2. CASE Begin(w, m)
  <2>1. worker'[w].task = m.task /\ worker'[w].pc = FirstPC(m.task) /\ row' = row
    BY <1>2 DEF Begin, TypeOK
  <2>2. FirstPC(m.task) \in {"start", "handoff", "empty"}
    BY DEF FirstPC
  <2>3. m.task = "embed" => row.state = "embedding_pending"
    BY <1>2 DEF Begin, Accepts
  <2> QED
    BY <2>1, <2>2, <2>3 DEF ComesFrom, Embedding
<1>3. CASE Skip(w, m) \/ Refuse(w, m)
  BY <1>3, SameComesFrom DEF Skip, Refuse
<1> QED
  BY <1>1, <1>2, <1>3

\* Whoever takes the step, every task moves like that.
LEMMA TasksComeFrom ==
    ASSUME TypeInv, Next, NEW w \in Workers
    PROVE  ComesFrom(w)
<1>1. TypeOK
  BY DEF TypeInv
<1>2. ASSUME NEW v \in Workers, Take(v) \/ Work(v)
      PROVE  ComesFrom(w)
  <2>1. CASE v = w
    BY <1>1, <1>2, <2>1, WorkComesFrom, TakeComesFrom
  <2>2. CASE v # w
    <3>1. \A pc, s : Goto(v, pc) \/ GotoSeeing(v, pc, s) \/ Done(v) =>
                     worker'[w] = worker[w]
      BY <1>1, <2>2 DEF Goto, GotoSeeing, Done, TypeOK
    <3>2. Take(v) => worker'[w] = worker[w]
      BY <1>1, <2>2 DEF Take, Begin, Skip, Refuse, TypeOK
    <3>3. Work(v) => worker'[w] = worker[w]
      BY <3>1
         DEF Work, Fail, Handoff, MarkFailed, IngestClaim, ValidateReject, ValidatePublish,
         ValidateCommit, ValidateNoObject, ConfirmStorage, ExtractClaim, ExtractEncrypted,
         ExtractFails, ExtractComplete, ChunkClaim, ChunkNoPages, ChunkStore, ChunkConflict,
         ChunkCommit, EmbedNothing, EmbedStore, EmbedNoUpload, EmbedCommit, AnalyzeRead,
         AnalyzeRejected, AnalyzeCommit
    <3> QED
      BY <1>2, <3>2, <3>3, SameComesFrom
  <2> QED
    BY <2>1, <2>2
<1>3. ASSUME NEW c \in Clients, RetryRead(c) \/ DeleteObject(c) \/ Continue(c)
      PROVE  ComesFrom(w)
  BY <1>3, SameComesFrom
     DEF Continue, RetryRead, DeleteObject, RetryCommit, RetryDispatch, DeleteRow, RequestFrame
<1>4. ASSUME NEW s \in Scans, RecoverScan(s) \/ RecoverCommit(s)
      PROVE  ComesFrom(w)
  BY <1>4, SameComesFrom DEF RecoverScan, RecoverCommit, BeatFrame
<1>5. ASSUME NEW v \in Workers,
             TaskError(v) \/ WorkerKilled(v) \/ SoftTimeLimit(v) \/ NodeLost(v)
      PROVE  ComesFrom(w)
  <2>1. \/ Done(v)
        \/ worker[v] \in Busy /\ GotoSeeing(v, "failing", row.state)
        \/ worker[v] \in Busy /\ worker' = [worker EXCEPT ![v].awaited = FALSE]
    BY <1>1, <1>5, BusyAtPC, BusyWorker
       DEF TaskError, WorkerKilled, SoftTimeLimit, NodeLost, Fail
  <2>2. CASE Done(v)
    BY <1>1, <2>2, SameComesFrom DEF Done, TypeOK
  <2>3. CASE worker[v] \in Busy /\ GotoSeeing(v, "failing", row.state)
    <3>1. /\ worker'[v].pc = "failing"
          /\ \A u \in Workers \ {v} : worker'[u] = worker[u]
      BY <1>1, <2>3, GotoSeeingEffect DEF PC
    <3>2. v # w => worker'[w] = worker[w]
      BY <3>1
    <3> QED
      BY <3>1, <3>2, SameComesFrom DEF ComesFrom, Embedding
  <2>4. CASE worker[v] \in Busy /\ worker' = [worker EXCEPT ![v].awaited = FALSE]
    <3>1. worker'[w].task = worker[w].task /\ worker'[w].pc = worker[w].pc
      BY <1>1, <2>4 DEF TypeOK, Busy
    <3> QED
      BY <3>1 DEF ComesFrom, Embedding
  <2> QED
    BY <2>1, <2>2, <2>3, <2>4
<1>6. ASSUME \/ \E c \in Clients : RequestLost(c) \/ DeleteObjectFails(c)
             \/ \E s \in Scans : RecoverAbort(s)
             \/ Restart
      PROVE  ComesFrom(w)
  BY <1>6, SameComesFrom DEF RequestLost, DeleteObjectFails, RecoverAbort, Restart
<1> QED
  BY <1>2, <1>3, <1>4, <1>5, <1>6 DEF Next, Failures

\* An analysis that has found no review inserts the first one.
OneReviewInv ==
    /\ OneReview
    /\ \A w \in Workers : worker[w].pc = "insert" =>
         worker[w].task = "analyze" /\ store.reviews = 0

\* A second review takes two analyses of the upload in progress together: of two
\* messages, retried or redelivered, or one of them left behind by its soft time
\* limit.  Whatever else is redelivered, retried, recovered, deleted or restarted
\* while the upload is analysed leaves it with one.
THEOREM OneReviewUnlessAnalysesOverlap == Spec /\ []OneAnalysis => []OneReview
<1>1. Init => OneReviewInv
  BY DEF Init, OneReviewInv, OneReview, EmptyStore, Idle
<1>2. TypeInv /\ OneAnalysis /\ OneReviewInv /\ [Next]_vars => OneReviewInv'
  <2>1. CASE UNCHANGED vars
    BY <2>1 DEF vars, OneReviewInv, OneReview
  <2>2. ASSUME TypeInv, OneAnalysis, OneReviewInv, Next
        PROVE  OneReviewInv'
    <3>1. TypeOK
      BY <2>2 DEF TypeInv
    <3>2. OneReview'
      BY <2>2, <3>1, ReviewsChange DEF OneReviewInv, OneReview
    <3>3. ASSUME NEW w \in Workers, worker'[w].pc = "insert"
          PROVE  worker'[w].task = "analyze" /\ store'.reviews = 0
      <4>1. CASE worker'[w].task = "analyze" /\ store'.reviews = 0
        BY <4>1
      <4>2. CASE worker[w].pc = "insert" /\ worker'[w].task = worker[w].task
        <5>1. worker[w].task = "analyze" /\ store.reviews = 0
          BY <2>2, <4>2 DEF OneReviewInv
        <5>2. ASSUME NEW v \in Workers, AnalyzeCommit(v)
              PROVE  FALSE
          <6>1. v = w
            BY <2>2, <5>1, <5>2 DEF AnalyzeCommit, OneAnalysis
          <6> QED
            BY <3>1, <3>3, <5>2, <6>1 DEF AnalyzeCommit, Done, TypeOK, Idle
        <5> QED
          BY <2>2, <3>1, <4>2, <5>1, <5>2, ReviewsChange
      <4> QED
        BY <2>2, <3>3, <4>1, <4>2, TasksComeFrom DEF ComesFrom
    <3> QED
      BY <3>2, <3>3 DEF OneReviewInv
  <2> QED
    BY <2>1, <2>2
<1>3. OneReviewInv => OneReview
  BY DEF OneReviewInv
<1> QED
  BY <1>1, <1>2, <1>3, TypeInvariant, PTL DEF Spec

\* REVIEW_READY and ANALYSIS_PENDING have one writer each.
LEMMA WrittenBy ==
    ASSUME TypeOK, Next, row'.state # row.state
    PROVE  /\ row'.state = "review_ready" => \E w \in Workers : AnalyzeCommit(w)
           /\ row'.state = "analysis_pending" => \E w \in Workers : Embedding(w)
<1>1. row \in Row
  BY DEF TypeOK
<1>2. \A s : row' = Write(s) => row'.state \in {s, row.state}
  BY <1>1 DEF Write, Row
<1>3. ASSUME NEW w \in Workers, EmbedNothing(w) \/ EmbedCommit(w)
      PROVE  Embedding(w) /\ row'.state # "review_ready"
  BY <1>2, <1>3 DEF EmbedNothing, EmbedCommit, At, Embedding
<1>4. ASSUME NEW w \in Workers, AnalyzeCommit(w)
      PROVE  row'.state = "review_ready"
  BY <1>2, <1>4 DEF AnalyzeCommit
<1>5. ASSUME NEW w \in Workers, Work(w), ~EmbedNothing(w), ~EmbedCommit(w), ~AnalyzeCommit(w)
      PROVE  row'.state \notin {"review_ready", "analysis_pending"}
  BY <1>2, <1>5
     DEF Work, Fail, Handoff, MarkFailed, IngestClaim, ValidateReject, ValidatePublish,
     ValidateCommit, ValidateNoObject, ConfirmStorage, ExtractClaim, ExtractEncrypted,
     ExtractFails, ExtractComplete, ChunkClaim, ChunkNoPages, ChunkStore, ChunkConflict,
     ChunkCommit, EmbedStore, EmbedNoUpload, AnalyzeRead, AnalyzeRejected
<1>6. ASSUME NEW w \in Workers, Take(w)
      PROVE  FALSE
  BY <1>6 DEF Take, Begin, Skip, Refuse
<1>7. ASSUME NEW c \in Clients, RetryRead(c) \/ DeleteObject(c) \/ Continue(c)
      PROVE  row'.state \notin {"review_ready", "analysis_pending"}
  BY <1>1, <1>7
     DEF Continue, RetryRead, DeleteObject, RetryCommit, RetryDispatch, DeleteRow, Row
<1>8. ASSUME NEW s \in Scans, RecoverScan(s) \/ RecoverCommit(s)
      PROVE  row'.state \notin {"review_ready", "analysis_pending"}
  BY <1>1, <1>2, <1>8 DEF RecoverScan, RecoverCommit, Row
<1>9. Failures => row' = row \/ Restart
  BY DEF Failures, TaskError, Fail, WorkerKilled, SoftTimeLimit, NodeLost, RequestLost,
     DeleteObjectFails, RecoverAbort
<1>10. Restart => row'.state = "failed"
  BY DEF Restart
<1> QED
  BY <1>3, <1>4, <1>5, <1>6, <1>7, <1>8, <1>9, <1>10 DEF Next

\* An embedding in progress has been overtaken by no analysis.
NotOvertaken == \A w \in Workers : Embedding(w) => row.state # "review_ready"

\* An upload that is ready for review goes back to waiting for its analysis only
\* if an embedding and an analysis of it have been in progress together: the
\* embedding task alone writes ANALYSIS_PENDING, and it has found the upload in
\* EMBEDDING_PENDING.  No recovery, redelivery, retry or restart takes it back.
THEOREM ReadyIsFinalUnlessOvertaken ==
    Spec /\ []NoEmbeddingBesideAnalysis => ReadyIsFinal
<1>1. Init => NotOvertaken
  BY DEF Init, NotOvertaken
<1>2. TypeInv /\ NoEmbeddingBesideAnalysis /\ NotOvertaken /\ [Next]_vars => NotOvertaken'
  <2>1. CASE UNCHANGED vars
    BY <2>1 DEF vars, NotOvertaken, Embedding
  <2>2. ASSUME TypeInv, NoEmbeddingBesideAnalysis, NotOvertaken, Next,
               NEW w \in Workers, Embedding(w)', row'.state = "review_ready"
        PROVE  FALSE
    <3>1. Embedding(w)
      BY <2>2, TasksComeFrom DEF ComesFrom
    <3>2. PICK v \in Workers : AnalyzeCommit(v)
      BY <2>2, <3>1, WrittenBy DEF NotOvertaken, TypeInv
    <3> QED
      BY <2>2, <3>1, <3>2 DEF AnalyzeCommit, Embedding, NoEmbeddingBesideAnalysis
  <2> QED
    BY <2>1, <2>2 DEF NotOvertaken
<1>3. TypeInv /\ NotOvertaken /\ [Next]_vars =>
        (row.state = "review_ready" => row'.state # "analysis_pending")
  <2> SUFFICES ASSUME TypeInv, NotOvertaken, [Next]_vars, row.state = "review_ready",
                      row'.state = "analysis_pending"
               PROVE  FALSE
    OBVIOUS
  <2> QED
    BY WrittenBy DEF vars, NotOvertaken, TypeInv
<1> QED
  BY <1>1, <1>2, <1>3, TypeInvariant, PTL DEF Spec, ReadyIsFinal

-----------------------------------------------------------------------------
(* The redispatch table.                                                   *)

\* The task that the recovery publishes for an upload it has found stuck is one
\* that accepts the upload in the state it was found in: redispatch_ingestion
\* (workers/ingestion_dispatch.py) and the guards of the tasks agree on every state that
\* _handle_stuck_upload resumes, so a re-queue is never dropped unless the state
\* has moved in between.
THEOREM RequeueIsAccepted ==
    ASSUME NEW s \in Requeueable, row.state = s
    PROVE  Accepts(redispatch_ingestion(s))
BY DEF Requeueable, redispatch_ingestion, Accepts
=============================================================================
