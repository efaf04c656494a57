------------------------ MODULE IngestionSafetyProofs ------------------------
(***************************************************************************)
(* Proofs that the state of an upload never claims more than is stored for *)
(* it, that nothing is left of a deleted upload, and that retry_count goes *)
(* over its limit by a bounded amount, for any workers, clients,           *)
(* documents, limits and failures.                                         *)
(***************************************************************************)
EXTENDS IngestionPipelineProofs, FiniteSetTheorems

\* The inductive invariant.  The row is overwritten with what follows from a
\* worker's copy of it, so what is stored has to back every copy as well.
SafeInv ==
    /\ TypeInv
    /\ StateIsBacked
    /\ Provenance
    /\ DeletedIsEmpty
    /\ WorkersAreBacked

\* What every step but a deletion does: results are not taken back, and an
\* upload neither appears nor disappears.
Keeps ==
    /\ store.pages => store'.pages
    /\ store.chunks # "none" => store'.chunks # "none"
    /\ store.reviews > 0 => store'.reviews > 0
    /\ Exists' <=> Exists

\* A state that is backed stays backed.
LEMMA BackedStays ==
    ASSUME Keeps, NEW s, Backed(s)
    PROVE  Backed(s)'
BY DEF Keeps, Backed

\* A worker that takes no step still remembers what is true.
LEMMA OthersStayBacked ==
    ASSUME SafeInv, Keeps, NEW v \in Workers, worker'[v] = worker[v]
    PROVE  WorkerIsBacked(v)'
<1>1. WorkerIsBacked(v)
  BY DEF SafeInv, WorkersAreBacked
<1>2. Exists' => Backed(worker[v].seen)'
  BY <1>1 DEF WorkerIsBacked, Keeps, Backed
<1> QED
  BY <1>1, <1>2 DEF WorkerIsBacked, Keeps, At, Backed

\* A worker that ends its task remembers nothing.
LEMMA IdleIsBacked ==
    ASSUME TypeOK, NEW w \in Workers, Done(w)
    PROVE  WorkerIsBacked(w)'
<1>1. worker'[w] = Idle
  BY DEF TypeOK, Done
<1> QED
  BY <1>1 DEF WorkerIsBacked, Backed, At, Idle, NeedsPages, NeedsChunks

\* A step that overwrites the state with one that is backed, and stores nothing.
LEMMA WriteIsSafe ==
    ASSUME SafeInv, NEW s \in IngestionState, Exists => Backed(s),
           row' = Write(s), store' = store
    PROVE  Keeps /\ StateIsBacked' /\ Provenance' /\ DeletedIsEmpty'
<1>1. Exists' <=> Exists
  BY DEF Exists, Write, SafeInv, TypeInv, TypeOK, Row, IngestionState
<1>2. Exists => row'.state = s
  BY DEF Exists, Write, SafeInv, TypeInv, TypeOK, Row
<1> QED
  BY <1>1, <1>2 DEF Keeps, StateIsBacked, Backed, Provenance, DeletedIsEmpty, SafeInv

\* A step that changes neither.
LEMMA NoWriteIsSafe ==
    ASSUME SafeInv, row'.state = row.state, store' = store
    PROVE  Keeps /\ StateIsBacked' /\ Provenance' /\ DeletedIsEmpty'
BY DEF Keeps, Exists, StateIsBacked, Backed, Provenance, DeletedIsEmpty, SafeInv

\* The parts together, for a step of one worker ...
LEMMA WorkerStepIsSafe ==
    ASSUME SafeInv, NEW w \in Workers, Keeps, WorkerIsBacked(w)',
           \A v \in Workers \ {w} : worker'[v] = worker[v]
    PROVE  WorkersAreBacked'
BY OthersStayBacked DEF WorkersAreBacked

\* ... and of nobody.
LEMMA NoWorkerStepIsSafe ==
    ASSUME SafeInv, Keeps, worker' = worker
    PROVE  WorkersAreBacked'
BY OthersStayBacked DEF WorkersAreBacked

\* Everything but the types, which are proved apart.
Safe == StateIsBacked /\ Provenance /\ DeletedIsEmpty /\ WorkersAreBacked

\* A worker's step changes only that worker.
LEMMA OthersUnchanged ==
    ASSUME TypeOK, NEW w \in Workers,
           \/ Done(w)
           \/ \E pc : Goto(w, pc)
           \/ \E pc, s : GotoSeeing(w, pc, s)
    PROVE  \A v \in Workers \ {w} : worker'[v] = worker[v]
BY DEF TypeOK, Done, Goto, GotoSeeing

\* A task that raises remembers, at most, what the row is now.
LEMMA FailIsSafe ==
    ASSUME SafeInv, NEW w \in Workers, worker[w] \in Busy, Fail(w)
    PROVE  Safe'
<1>1. TypeOK /\ StateIsBacked
  BY DEF SafeInv, TypeInv
<1>2. Keeps /\ StateIsBacked' /\ Provenance' /\ DeletedIsEmpty'
  BY NoWriteIsSafe DEF Fail
<1>3. WorkerIsBacked(w)'
  <2>1. CASE Done(w)
    BY <1>1, <2>1, IdleIsBacked
  <2>2. CASE GotoSeeing(w, "failing", row.state)
    <3>1. worker'[w].pc = "failing" /\ worker'[w].seen = row.state
      BY <1>1, <2>2 DEF GotoSeeing, TypeOK, Busy
    <3>2. Exists' => Backed(worker[w].seen)'
      BY <1>2, <3>1 DEF Fail, StateIsBacked, Backed
    <3> QED
      BY <3>1, <3>2 DEF WorkerIsBacked, At
  <2> QED
    BY <2>1, <2>2 DEF Fail
<1>4. \A v \in Workers \ {w} : worker'[v] = worker[v]
  BY <1>1, OthersUnchanged DEF Fail
<1> QED
  BY <1>2, <1>3, <1>4, WorkerStepIsSafe DEF Safe

-----------------------------------------------------------------------------
(* The steps of the workers.                                               *)

\* What follows when a task writes a backed state, stores nothing and ends.
LEMMA WriteAndDone ==
    ASSUME SafeInv, NEW w \in Workers, NEW s \in IngestionState, Exists => Backed(s),
           row' = Write(s) \/ row' = row, store' = store, Done(w)
    PROVE  Safe'
<1>1. TypeOK
  BY DEF SafeInv, TypeInv
<1>2. Keeps /\ StateIsBacked' /\ Provenance' /\ DeletedIsEmpty'
  BY WriteIsSafe, NoWriteIsSafe
<1> QED
  BY <1>1, <1>2, IdleIsBacked, OthersUnchanged, WorkerStepIsSafe DEF Safe

\* ... or goes on, with the copy it had or with the state it has written.
LEMMA WriteAndGo ==
    ASSUME SafeInv, NEW w \in Workers, NEW s \in IngestionState, Exists => Backed(s),
           row' = Write(s) \/ row' = row, store' = store, worker[w] \in Busy,
           NEW pc \in {"claimed", "handoff"},
           worker[w].task = "embed" => worker[w].pc # "failing",
           \/ Goto(w, pc)
           \/ GotoSeeing(w, pc, s) /\ worker[w].task # "embed"
    PROVE  Safe'
<1>1. TypeOK /\ WorkerIsBacked(w)
  BY DEF SafeInv, TypeInv, WorkersAreBacked
<1>2. Keeps /\ StateIsBacked' /\ Provenance' /\ DeletedIsEmpty'
  BY WriteIsSafe, NoWriteIsSafe
<1>3. /\ worker'[w].task = worker[w].task /\ worker'[w].pc = pc
      /\ worker'[w].seen \in {worker[w].seen, s}
      /\ worker[w].task = "embed" => worker'[w].seen = worker[w].seen
  BY <1>1 DEF TypeOK, Goto, GotoSeeing, Busy
<1>4. Exists' => Backed(worker[w].seen)'
  <2>1. CASE worker'[w].seen = worker[w].seen
    BY <1>1, <1>2, <2>1 DEF WorkerIsBacked, Keeps, Backed
  <2>2. CASE worker'[w].seen = s
    BY <1>2, <2>2 DEF Keeps, Backed
  <2> QED
    BY <1>3, <2>1, <2>2
<1>5. WorkerIsBacked(w)'
  BY <1>1, <1>3, <1>4 DEF WorkerIsBacked, At
<1>6. \A v \in Workers \ {w} : worker'[v] = worker[v]
  BY <1>1, OthersUnchanged
<1> QED
  BY <1>2, <1>5, <1>6, WorkerStepIsSafe DEF Safe

\* A message is taken, dropped or refused.
LEMMA TakeIsSafe ==
    ASSUME SafeInv, NEW w \in Workers, Take(w)
    PROVE  Safe'
<1>1. PICK m \in Message : Begin(w, m) \/ Skip(w, m) \/ Refuse(w, m)
  BY DEF Take
<1>2. Keeps /\ StateIsBacked' /\ Provenance' /\ DeletedIsEmpty'
  BY <1>1, NoWriteIsSafe DEF Begin, Skip, Refuse
<1>3. CASE Begin(w, m)
  <2>1. TypeOK /\ StateIsBacked
    BY DEF SafeInv, TypeInv
  <2>2. /\ worker'[w].task = m.task /\ worker'[w].pc = FirstPC(m.task)
        /\ worker'[w].seen = row.state
        /\ \A v \in Workers \ {w} : worker'[v] = worker[v]
    BY <1>3, <2>1 DEF Begin, TypeOK
  <2>3. FirstPC(m.task) \in {"start", "handoff", "empty"}
    BY DEF FirstPC
  <2>4. m.task = "embed" => row.state = "embedding_pending"
    BY <1>3 DEF Begin, Accepts
  <2>5. Exists' => Backed(worker[w].seen)'
    BY <1>2, <1>3, <2>2 DEF Begin, StateIsBacked, Backed
  <2>6. WorkerIsBacked(w)'
    BY <2>2, <2>3, <2>4, <2>5 DEF WorkerIsBacked, At
  <2> QED
    BY <1>2, <2>2, <2>6, WorkerStepIsSafe DEF Safe
<1>4. CASE Skip(w, m) \/ Refuse(w, m)
  BY <1>2, <1>4, NoWorkerStepIsSafe DEF Skip, Refuse, Safe
<1> QED
  BY <1>1, <1>3, <1>4

\* The tasks that move the row along.  Those that store something are apart.
Storing(w) == ExtractComplete(w) \/ ChunkStore(w) \/ EmbedStore(w) \/ AnalyzeCommit(w)

LEMMA MovingIsSafe ==
    ASSUME SafeInv, NEW w \in Workers, Work(w), ~Storing(w)
    PROVE  Safe'
<1>1. TypeOK /\ StateIsBacked /\ Provenance /\ WorkerIsBacked(w)
  BY DEF SafeInv, TypeInv, WorkersAreBacked
<1>2. worker[w] \in Busy
  BY <1>1, BusyAtPC DEF Work, Handoff, MarkFailed, IngestClaim, ValidateReject,
     ValidatePublish, ValidateCommit, ValidateNoObject, ConfirmStorage, ExtractClaim,
     ExtractEncrypted, ExtractFails, ExtractComplete, Extracting, ChunkClaim, ChunkNoPages,
     ChunkStore, ChunkConflict, ChunkCommit, Chunking, EmbedNothing, EmbedStore,
     EmbedNoUpload, EmbedCommit, AnalyzeRead, AnalyzeRejected, AnalyzeCommit, At, PC
<1>3. \A s \in {"validating", "validated", "storage_confirmed", "ocr_pending",
                "ocr_processing", "failed", "quarantined"} :
        s \in IngestionState /\ Backed(s)
  BY DEF Backed, IngestionState, NeedsPages, NeedsChunks
<1>4. "ocr_complete" \in IngestionState /\ "chunking_pending" \in IngestionState
      /\ "embedding_pending" \in IngestionState /\ "analysis_pending" \in IngestionState
  BY DEF IngestionState
<1>5. CASE Fail(w)
  BY <1>2, <1>5, FailIsSafe
<1>6. CASE Handoff(w)
  BY <1>3, <1>6, WriteAndDone DEF Handoff
<1>7. CASE MarkFailed(w)
  BY <1>3, <1>7, WriteAndDone DEF MarkFailed
<1>8. CASE IngestClaim(w)
  BY <1>2, <1>3, <1>8, WriteAndGo, WriteAndDone DEF IngestClaim, At
<1>9. CASE ValidateReject(w)
  BY <1>3, <1>9, WriteAndDone DEF ValidateReject
<1>10. CASE ValidatePublish(w)
  <2>1. Keeps /\ StateIsBacked' /\ Provenance' /\ DeletedIsEmpty'
    BY <1>10, NoWriteIsSafe DEF ValidatePublish
  <2>2. /\ worker'[w].task = "validate" /\ worker'[w].pc = "published"
        /\ worker'[w].seen = worker[w].seen
    BY <1>1, <1>2, <1>10 DEF ValidatePublish, Goto, At, TypeOK, Busy
  <2>3. Exists' => Backed(worker[w].seen)'
    BY <1>1, <2>1, <2>2 DEF WorkerIsBacked, Keeps, Backed
  <2>4. WorkerIsBacked(w)'
    BY <2>2, <2>3 DEF WorkerIsBacked, At
  <2>5. \A v \in Workers \ {w} : worker'[v] = worker[v]
    BY <1>1, <1>10, OthersUnchanged DEF ValidatePublish
  <2> QED
    BY <2>1, <2>4, <2>5, WorkerStepIsSafe DEF Safe
<1>11. CASE ValidateCommit(w)
  BY <1>3, <1>11, WriteAndDone DEF ValidateCommit
<1>12. CASE ConfirmStorage(w)
  <2>1. CASE store.object
    BY <1>2, <1>3, <1>12, <2>1, WriteAndGo DEF ConfirmStorage, At
  <2>2. CASE ~store.object
    BY <1>3, <1>12, <2>2, WriteAndDone DEF ConfirmStorage
  <2> QED
    BY <2>1, <2>2
<1>13. CASE ExtractClaim(w)
  BY <1>2, <1>3, <1>13, WriteAndGo DEF ExtractClaim
<1>14. CASE ExtractEncrypted(w)
  <2>1. Keeps /\ StateIsBacked' /\ Provenance' /\ DeletedIsEmpty'
    BY <1>14, NoWriteIsSafe DEF ExtractEncrypted
  <2>2. /\ worker'[w].task = "extract" /\ worker'[w].pc = "failing"
        /\ worker'[w].seen = row.state
    BY <1>1, <1>2, <1>14 DEF ExtractEncrypted, Extracting, GotoSeeing, TypeOK, Busy
  <2>3. Exists' => Backed(worker[w].seen)'
    BY <1>14, <2>1, <2>2 DEF ExtractEncrypted, StateIsBacked, Backed
  <2>4. WorkerIsBacked(w)'
    BY <2>2, <2>3 DEF WorkerIsBacked, At
  <2>5. \A v \in Workers \ {w} : worker'[v] = worker[v]
    BY <1>1, <1>14, OthersUnchanged DEF ExtractEncrypted
  <2> QED
    BY <2>1, <2>4, <2>5, WorkerStepIsSafe DEF Safe
<1>15. CASE ChunkClaim(w)
  <2>1. Exists => Backed("chunking_pending")
    BY <1>1, <1>15 DEF ChunkClaim, WorkerIsBacked, Backed, NeedsPages, NeedsChunks
  <2> QED
    BY <1>2, <1>4, <1>15, <2>1, WriteAndGo DEF ChunkClaim, At
<1>16. CASE ChunkNoPages(w)
  BY <1>3, <1>16, WriteAndDone DEF ChunkNoPages
<1>17. CASE ChunkCommit(w)
  <2>1. Exists => Backed("embedding_pending")
    BY <1>1, <1>17 DEF ChunkCommit, WorkerIsBacked, Provenance, Backed, NeedsPages, NeedsChunks
  <2> QED
    BY <1>2, <1>4, <1>17, <2>1, WriteAndGo DEF ChunkCommit, At
<1>18. (Exists /\ worker[w].seen = "embedding_pending") => Backed("analysis_pending")
  BY <1>1 DEF WorkerIsBacked, Backed, NeedsPages, NeedsChunks
<1>19. CASE EmbedNothing(w)
  <2>1. worker[w].seen = "embedding_pending"
    BY <1>1, <1>19 DEF EmbedNothing, At, WorkerIsBacked
  <2> QED
    BY <1>4, <1>18, <1>19, <2>1, WriteAndDone DEF EmbedNothing
<1>20. CASE EmbedCommit(w)
  <2>1. worker[w].seen = "embedding_pending" /\ worker[w].pc # "failing"
    BY <1>1, <1>20 DEF EmbedCommit, At, WorkerIsBacked
  <2> QED
    BY <1>2, <1>4, <1>18, <1>20, <2>1, WriteAndGo DEF EmbedCommit
<1>21. CASE AnalyzeRead(w)
  <2>1. Keeps /\ StateIsBacked' /\ Provenance' /\ DeletedIsEmpty'
    BY <1>21, NoWriteIsSafe DEF AnalyzeRead
  <2>2. /\ worker'[w].task = "analyze" /\ worker'[w].seen = row.state
        /\ worker'[w].pc = IF store.reviews = 0 THEN "insert" ELSE "update"
    BY <1>1, <1>2, <1>21 DEF AnalyzeRead, At, GotoSeeing, TypeOK, Busy
  <2>3. Exists' => Backed(worker[w].seen)'
    BY <1>21, <2>1, <2>2 DEF AnalyzeRead, StateIsBacked, Backed
  <2>4. Exists' /\ store'.chunks # "none"
    BY <1>1, <1>21, <2>1
       DEF AnalyzeRead, Keeps, Exists, StateIsBacked, Backed, NeedsChunks
  <2>5. worker'[w].pc = "update" => store'.reviews > 0
    BY <1>1, <1>21, <2>2 DEF AnalyzeRead, TypeOK, Store
  <2>6. WorkerIsBacked(w)'
    BY <2>2, <2>3, <2>4, <2>5 DEF WorkerIsBacked, At
  <2>7. \A v \in Workers \ {w} : worker'[v] = worker[v]
    BY <1>1, <1>21, OthersUnchanged DEF AnalyzeRead
  <2> QED
    BY <2>1, <2>6, <2>7, WorkerStepIsSafe DEF Safe
<1> QED
  BY <1>5, <1>6, <1>7, <1>8, <1>9, <1>10, <1>11, <1>12, <1>13, <1>14, <1>15, <1>16, <1>17,
     <1>19, <1>20, <1>21
     DEF Work, Storing, ValidateNoObject, ExtractFails, ChunkConflict, EmbedNoUpload,
     AnalyzeRejected

\* The tasks that store something: what follows, when the new state is backed
\* by what they have stored.
LEMMA StoreIsSafe ==
    ASSUME SafeInv, NEW w \in Workers, Exists, Keeps, StateIsBacked', Provenance',
           WorkerIsBacked(w)', \A v \in Workers \ {w} : worker'[v] = worker[v]
    PROVE  Safe'
BY WorkerStepIsSafe DEF Safe, Keeps, DeletedIsEmpty

LEMMA StoringIsSafe ==
    ASSUME SafeInv, NEW w \in Workers, Storing(w)
    PROVE  Safe'
<1>1. TypeOK /\ StateIsBacked /\ Provenance /\ DeletedIsEmpty /\ WorkerIsBacked(w)
  BY DEF SafeInv, TypeInv, WorkersAreBacked
<1>2. worker[w] \in Busy
  BY <1>1, BusyAtPC DEF Storing, ExtractComplete, Extracting, ChunkStore, Chunking,
     EmbedStore, AnalyzeCommit, At, PC
<1>3. \A v \in Workers \ {w} : worker'[v] = worker[v]
  BY <1>1, OthersUnchanged DEF Storing, ExtractComplete, ChunkStore, EmbedStore, AnalyzeCommit
<1>4. store \in Store /\ row \in Row
  BY <1>1 DEF TypeOK
<1>5. CASE ExtractComplete(w)
  <2>1. /\ Exists
        /\ store' = [store EXCEPT !.pages = TRUE]
        /\ row' \in {Write("quarantined"), Write("ocr_complete")}
    BY <1>5 DEF ExtractComplete
  <2>2. row'.state \in {"quarantined", "ocr_complete"}
    BY <1>4, <2>1 DEF Row, Write
  <2>3. Keeps /\ StateIsBacked' /\ Provenance'
    BY <1>1, <1>4, <2>1, <2>2
       DEF Keeps, Exists, StateIsBacked, Backed, Provenance, Store, NeedsPages, NeedsChunks
  <2>4. WorkerIsBacked(w)'
    <3>1. CASE Done(w)
      BY <1>1, <3>1, IdleIsBacked
    <3>2. CASE Goto(w, "handoff")
      <4>1. /\ worker'[w].task = "extract" /\ worker'[w].pc = "handoff"
            /\ worker'[w].seen = "ocr_processing"
        BY <1>1, <1>2, <1>5, <3>2 DEF ExtractComplete, Extracting, Goto, TypeOK, Busy
      <4> QED
        BY <4>1 DEF WorkerIsBacked, Backed, At, NeedsPages, NeedsChunks
    <3> QED
      BY <1>5, <3>1, <3>2 DEF ExtractComplete
  <2> QED
    BY <1>3, <2>1, <2>3, <2>4, StoreIsSafe
<1>6. CASE ChunkStore(w)
  <2>1. Exists
    BY <1>1, <1>6 DEF ChunkStore, DeletedIsEmpty
  <2>2. Keeps /\ StateIsBacked' /\ Provenance'
    BY <1>1, <1>4, <1>6
       DEF ChunkStore, Keeps, Exists, StateIsBacked, Backed, Provenance, Store
  <2>3. /\ worker'[w].task = "chunk" /\ worker'[w].pc = "stored"
        /\ worker'[w].seen = "chunking_pending"
    BY <1>1, <1>2, <1>6 DEF ChunkStore, Chunking, Goto, TypeOK, Busy
  <2>4. store'.pages /\ store'.chunks # "none"
    BY <1>4, <1>6 DEF ChunkStore, Store
  <2>5. WorkerIsBacked(w)'
    BY <2>3, <2>4 DEF WorkerIsBacked, Backed, At, NeedsPages, NeedsChunks
  <2> QED
    BY <1>3, <2>1, <2>2, <2>5, StoreIsSafe
<1>7. CASE EmbedStore(w)
  <2>1. Exists /\ row' = row
    BY <1>7 DEF EmbedStore
  <2>2. /\ store'.pages = store.pages /\ store'.reviews = store.reviews
        /\ store'.chunks = "none" <=> store.chunks = "none"
    BY <1>4, <1>7 DEF EmbedStore, Store
  <2>3. Keeps /\ StateIsBacked' /\ Provenance'
    BY <1>1, <2>1, <2>2 DEF Keeps, Exists, StateIsBacked, Backed, Provenance
  <2>4. /\ worker'[w].task = "embed" /\ worker'[w].pc = "stored"
        /\ worker'[w].seen = "embedding_pending"
    BY <1>1, <1>2, <1>7 DEF EmbedStore, At, Goto, TypeOK, Busy, WorkerIsBacked
  <2>5. Backed(worker[w].seen)'
    BY <1>1, <1>7, <2>1, <2>2, <2>4 DEF EmbedStore, At, WorkerIsBacked, Backed
  <2>6. WorkerIsBacked(w)'
    BY <2>4, <2>5 DEF WorkerIsBacked, At
  <2> QED
    BY <1>3, <2>1, <2>3, <2>6, StoreIsSafe
<1>8. CASE AnalyzeCommit(w)
  <2>1. Exists /\ store.chunks # "none"
    BY <1>1, <1>8 DEF AnalyzeCommit, WorkerIsBacked
  <2>2. /\ store'.pages = store.pages /\ store'.chunks = store.chunks
        /\ store'.reviews > 0
    BY <1>1, <1>4, <1>8 DEF AnalyzeCommit, WorkerIsBacked, Store
  <2>3. Keeps /\ Provenance'
    <3>1. Exists'
      BY <1>4, <1>8, <2>1 DEF AnalyzeCommit, Exists, Write, Row
    <3> QED
      BY <1>1, <2>1, <2>2, <3>1 DEF Keeps, Provenance
  <2>4. StateIsBacked'
    BY <1>1, <2>1, <2>2 DEF StateIsBacked, Backed, Provenance
  <2>5. WorkerIsBacked(w)'
    BY <1>1, <1>8, IdleIsBacked DEF AnalyzeCommit
  <2> QED
    BY <1>3, <2>1, <2>3, <2>4, <2>5, StoreIsSafe
<1> QED
  BY <1>5, <1>6, <1>7, <1>8 DEF Storing

-----------------------------------------------------------------------------
(* The steps of the others.                                                *)

\* Retries, and the deletion, which waits for whoever is inserting a review.
LEMMA RequestIsSafe ==
    ASSUME SafeInv, NEW c \in Clients, RetryRead(c) \/ DeleteObject(c) \/ Continue(c)
    PROVE  Safe'
<1>1. /\ TypeOK /\ StateIsBacked /\ Provenance /\ DeletedIsEmpty /\ WorkersAreBacked
      /\ store \in Store /\ row \in Row
  BY DEF SafeInv, TypeInv, TypeOK
<1>2. CASE row'.state = row.state /\ store' = store /\ worker' = worker
  BY <1>2, NoWriteIsSafe, NoWorkerStepIsSafe DEF Safe
<1>3. CASE DeleteObject(c)
  <2>1. /\ store'.pages = store.pages /\ store'.chunks = store.chunks
        /\ store'.reviews = store.reviews /\ row' = row /\ worker' = worker /\ Exists
    BY <1>1, <1>3 DEF DeleteObject, RequestFrame, Store
  <2>2. Keeps /\ StateIsBacked' /\ Provenance' /\ DeletedIsEmpty'
    BY <1>1, <2>1 DEF Keeps, Exists, StateIsBacked, Backed, Provenance, DeletedIsEmpty
  <2> QED
    BY <2>1, <2>2, NoWorkerStepIsSafe DEF Safe
<1>4. CASE RetryCommit(c) /\ row' # row
  <2>1. /\ Exists /\ Exists' /\ row'.state = "validating" /\ store' = store
        /\ worker' = worker
    BY <1>4 DEF RetryCommit, RequestFrame, Exists
  <2>2. Keeps /\ StateIsBacked' /\ Provenance' /\ DeletedIsEmpty'
    BY <1>1, <2>1
       DEF Keeps, StateIsBacked, Backed, Provenance, DeletedIsEmpty, NeedsPages, NeedsChunks
  <2> QED
    BY <2>1, <2>2, NoWorkerStepIsSafe DEF Safe
<1>5. CASE DeleteRow(c)
  <2>1. /\ ~Exists' /\ worker' = worker
        /\ ~store'.pages /\ store'.chunks = "none" /\ store'.reviews = 0
    BY <1>1, <1>5 DEF DeleteRow, RequestFrame, Exists, Row, EmptyStore
  <2>2. StateIsBacked' /\ Provenance' /\ DeletedIsEmpty'
    BY <2>1 DEF StateIsBacked, Provenance, DeletedIsEmpty
  <2>3. ASSUME NEW w \in Workers
        PROVE  WorkerIsBacked(w)'
    <3>1. worker[w].pc \notin {"insert", "update"}
      BY <1>5 DEF DeleteRow, RowHeld
    <3> QED
      BY <1>1, <2>1, <3>1 DEF WorkersAreBacked, WorkerIsBacked
  <2> QED
    BY <2>2, <2>3 DEF Safe, WorkersAreBacked
<1> QED
  BY <1>2, <1>3, <1>4, <1>5
     DEF Continue, RetryRead, RetryCommit, RetryDispatch, RequestFrame

\* A coroutine that nobody waits for any more remembers what it did.
LEMMA LeftBehindIsSafe ==
    ASSUME SafeInv, NEW w \in Workers, worker[w] # Idle, row' = row, store' = store,
           Done(w) \/ worker' = [worker EXCEPT ![w].awaited = FALSE]
    PROVE  Safe'
<1>1. TypeOK /\ WorkerIsBacked(w)
  BY DEF SafeInv, TypeInv, WorkersAreBacked
<1>2. Keeps /\ StateIsBacked' /\ Provenance' /\ DeletedIsEmpty'
  BY NoWriteIsSafe
<1>3. CASE Done(w)
  BY <1>1, <1>2, <1>3, IdleIsBacked, OthersUnchanged, WorkerStepIsSafe DEF Safe
<1>4. CASE worker' = [worker EXCEPT ![w].awaited = FALSE]
  <2>1. /\ worker'[w].task = worker[w].task /\ worker'[w].pc = worker[w].pc
        /\ worker'[w].seen = worker[w].seen
        /\ \A v \in Workers \ {w} : worker'[v] = worker[v]
    BY <1>1, <1>4, BusyWorker DEF TypeOK, Busy
  <2>2. WorkerIsBacked(w)'
    BY <1>1, <1>2, <2>1 DEF WorkerIsBacked, Keeps, Exists, Backed, At
  <2> QED
    BY <1>2, <2>1, <2>2, WorkerStepIsSafe DEF Safe
<1> QED
  BY <1>3, <1>4

\* The recovery passes write FAILED or count a retry; failures lose memory.
LEMMA RecoveryIsSafe ==
    ASSUME SafeInv, (\E s \in Scans : RecoverScan(s) \/ RecoverCommit(s)) \/ Failures
    PROVE  Safe'
<1>1. TypeOK /\ row \in Row
  BY DEF SafeInv, TypeInv, TypeOK
<1>2. "failed" \in IngestionState /\ Backed("failed")
  BY DEF IngestionState, Backed, NeedsPages, NeedsChunks
<1>3. ASSUME row'.state = row.state \/ row' = Write("failed"), store' = store,
             worker' = worker
      PROVE  Safe'
  BY <1>2, <1>3, WriteIsSafe, NoWriteIsSafe, NoWorkerStepIsSafe DEF Safe
<1>4. ASSUME NEW s \in Scans, RecoverScan(s)
      PROVE  Safe'
  BY <1>3, <1>4 DEF RecoverScan, BeatFrame
<1>5. ASSUME NEW s \in Scans, RecoverCommit(s)
      PROVE  Safe'
  <2>1. row'.state = row.state \/ row' = Write("failed")
    BY <1>1, <1>5 DEF RecoverCommit, Row
  <2> QED
    BY <1>3, <1>5, <2>1 DEF RecoverCommit, BeatFrame
<1>6. ASSUME NEW w \in Workers, TaskError(w)
      PROVE  Safe'
  BY <1>1, <1>6, BusyAtPC, FailIsSafe DEF TaskError
<1>7. ASSUME NEW w \in Workers, WorkerKilled(w) \/ NodeLost(w)
      PROVE  Safe'
  BY <1>2, <1>7, WriteAndDone DEF WorkerKilled, NodeLost
<1>8. ASSUME NEW c \in Clients, RequestLost(c) \/ DeleteObjectFails(c)
      PROVE  Safe'
  BY <1>3, <1>8 DEF RequestLost, DeleteObjectFails
<1>9. ASSUME NEW s \in Scans, RecoverAbort(s)
      PROVE  Safe'
  BY <1>3, <1>9 DEF RecoverAbort
<1>10. CASE Restart
  <2>1. /\ Exists /\ Exists' /\ row'.state = "failed" /\ store' = store
        /\ worker' = worker
    BY <1>10 DEF Restart, Exists, NonTerminal, Requeueable
  <2>2. Keeps /\ StateIsBacked' /\ Provenance' /\ DeletedIsEmpty'
    BY <2>1 DEF SafeInv, Keeps, StateIsBacked, Backed, Provenance, DeletedIsEmpty,
       NeedsPages, NeedsChunks
  <2> QED
    BY <2>1, <2>2, NoWorkerStepIsSafe DEF Safe
<1>11. ASSUME NEW w \in Workers, SoftTimeLimit(w)
       PROVE  Safe'
  BY <1>11, LeftBehindIsSafe DEF SoftTimeLimit
<1> QED
  BY <1>4, <1>5, <1>6, <1>7, <1>8, <1>9, <1>10, <1>11 DEF Failures

-----------------------------------------------------------------------------
(* The theorems.                                                           *)

LEMMA SafeInvariant == Spec => []SafeInv
<1>1. Init => Safe
  BY DEF Init, Safe, StateIsBacked, Backed, Provenance, DeletedIsEmpty, EmptyStore,
     WorkersAreBacked, WorkerIsBacked, Exists, At, Idle, NeedsPages, NeedsChunks
<1>2. ASSUME SafeInv, [Next]_vars
      PROVE  Safe'
  <2>1. CASE UNCHANGED vars
    BY <1>2, <2>1, NoWriteIsSafe, NoWorkerStepIsSafe DEF vars, Safe
  <2>2. ASSUME NEW w \in Workers, Work(w)
        PROVE  Safe'
    BY <1>2, <2>2, MovingIsSafe, StoringIsSafe
  <2> QED
    BY <1>2, <2>1, <2>2, TakeIsSafe, RequestIsSafe, RecoveryIsSafe DEF Next
<1>3. SafeInv <=> TypeInv /\ Safe
  BY DEF SafeInv, Safe
<1> QED
  BY <1>1, <1>2, <1>3, TypeInvariant, PTL DEF Spec

\* The row never claims more than is stored: pages behind OCR_COMPLETE and
\* later states, chunks behind EMBEDDING_PENDING and later ones, a review
\* behind REVIEW_READY; for any number of tasks that write from stale copies,
\* redeliveries, recoveries, retries and deletions.
THEOREM StateIsAlwaysBacked == Spec => []StateIsBacked
<1>1. SafeInv => StateIsBacked
  BY DEF SafeInv
<1> QED
  BY <1>1, SafeInvariant, PTL

\* Nothing is stored that is not derived from what comes before it.
THEOREM ProvenanceHolds == Spec => []Provenance
<1>1. SafeInv => Provenance
  BY DEF SafeInv
<1> QED
  BY <1>1, SafeInvariant, PTL

\* Nothing is left of a deleted upload, nor added to it by the tasks about it
\* that were queued or executing.
THEOREM DeletedStaysEmpty == Spec => []DeletedIsEmpty
<1>1. SafeInv => DeletedIsEmpty
  BY DEF SafeInv
<1> QED
  BY <1>1, SafeInvariant, PTL

\* The copies the tasks go on from are true of what is stored.
THEOREM WorkersStayBacked == Spec => []WorkersAreBacked
<1>1. SafeInv => WorkersAreBacked
  BY DEF SafeInv
<1> QED
  BY <1>1, SafeInvariant, PTL

-----------------------------------------------------------------------------
(* How far retry_count goes over its limit.                                *)

\* The requests and the scans that have read retry_count below its limit and
\* are about to increment it.
Retrying == {c \in Clients : client[c] = "retrying"}
Counting == {s \in Scans : beat[s] \in {"requeue", "count"}}

\* One that reads it below the limit adds to the counters of a row that is at
\* most MaxRetries - 1; there is at least one scan, so that the sum is a bound
\* while nobody is about to count.
CountInv ==
    /\ faults <= MaxFaults
    /\ row.retry_count + Cardinality(Retrying) + Cardinality(Counting)
         <= MaxRetries - 1 + Cardinality(Clients) + Cardinality(Scans)
              + (MaxFaults - faults)

LEMMA CountersAreBounded ==
    /\ Cardinality(Clients) \in Nat /\ Cardinality(Scans) \in Nat
    /\ Cardinality(Scans) >= 1
    /\ Cardinality(Retrying) \in Nat /\ Cardinality(Retrying) <= Cardinality(Clients)
    /\ Cardinality(Counting) \in Nat /\ Cardinality(Counting) <= Cardinality(Scans)
<1>1. Retrying \subseteq Clients /\ Counting \subseteq Scans
  BY DEF Retrying, Counting
<1>2. Cardinality(Clients) \in Nat /\ Cardinality(Scans) \in Nat
  BY FiniteAssumption, FS_CardinalityType
<1>3. Cardinality(Scans) # 0
  BY FiniteAssumption, FS_EmptySet
<1>4. IsFiniteSet(Retrying) /\ Cardinality(Retrying) <= Cardinality(Clients)
  BY <1>1, FiniteAssumption, FS_Subset
<1>5. IsFiniteSet(Counting) /\ Cardinality(Counting) <= Cardinality(Scans)
  BY <1>1, FiniteAssumption, FS_Subset
<1> QED
  BY <1>2, <1>3, <1>4, <1>5, FS_CardinalityType

\* The same of the next state.
LEMMA CountersStayBounded ==
    /\ Cardinality(Retrying)' \in Nat /\ Cardinality(Retrying)' <= Cardinality(Clients)
    /\ Cardinality(Counting)' \in Nat /\ Cardinality(Counting)' <= Cardinality(Scans)
<1>1. Retrying' \subseteq Clients /\ Counting' \subseteq Scans
  BY DEF Retrying, Counting
<1>2. IsFiniteSet(Retrying') /\ Cardinality(Retrying') <= Cardinality(Clients)
  BY <1>1, FiniteAssumption, FS_Subset
<1>3. IsFiniteSet(Counting') /\ Cardinality(Counting') <= Cardinality(Scans)
  BY <1>1, FiniteAssumption, FS_Subset
<1> QED
  BY <1>2, <1>3, FS_CardinalityType

\* One that is about to count goes on to something else.
LEMMA OneLess ==
    ASSUME NEW S, IsFiniteSet(S), NEW x \in S, NEW T, T = S \ {x}
    PROVE  Cardinality(T) \in Nat /\ Cardinality(T) = Cardinality(S) - 1
<1>1. Cardinality(T) = Cardinality(S) - 1
  BY FS_RemoveElement
<1> QED
  BY <1>1, FS_Subset, FS_CardinalityType

LEMMA OneLessRetrying ==
    ASSUME NEW c \in Clients, client[c] = "retrying", client \in [Clients -> ClientPC],
           NEW pc, pc # "retrying", client' = [client EXCEPT ![c] = pc]
    PROVE  /\ Cardinality(Retrying)' \in Nat
           /\ Cardinality(Retrying)' = Cardinality(Retrying) - 1
<1>1. Retrying' = Retrying \ {c} /\ c \in Retrying
  BY DEF Retrying
<1>2. IsFiniteSet(Retrying)
  BY FiniteAssumption, FS_Subset DEF Retrying
<1> QED
  BY <1>1, <1>2, OneLess

LEMMA OneLessCounting ==
    ASSUME NEW s \in Scans, beat[s] \in {"requeue", "count"}, beat \in [Scans -> BeatPC],
           beat' = [beat EXCEPT ![s] = "idle"]
    PROVE  /\ Cardinality(Counting)' \in Nat
           /\ Cardinality(Counting)' = Cardinality(Counting) - 1
<1>1. Counting' = Counting \ {s} /\ s \in Counting
  BY DEF Counting
<1>2. IsFiniteSet(Counting)
  BY FiniteAssumption, FS_Subset DEF Counting
<1> QED
  BY <1>1, <1>2, OneLess

\* A step of a request, or of a scan, that neither begins nor ends to count.
LEMMA SameRetrying ==
    ASSUME NEW c \in Clients, client[c] # "retrying", client \in [Clients -> ClientPC],
           NEW pc, pc # "retrying", client' = [client EXCEPT ![c] = pc]
    PROVE  Retrying' = Retrying
BY DEF Retrying

LEMMA SameCounting ==
    ASSUME NEW s \in Scans, beat[s] \in {"idle", "fail"}, beat \in [Scans -> BeatPC],
           NEW pc \in {"idle", "fail"}, beat' = [beat EXCEPT ![s] = pc]
    PROVE  Counting' = Counting
BY DEF Counting

\* A step that leaves all that is counted alone, but for a failure.
LEMMA CountFrame ==
    ASSUME TypeOK, CountInv, row'.retry_count = row.retry_count, Retrying' = Retrying,
           Counting' = Counting, faults' \in {faults, faults - 1}
    PROVE  CountInv'
BY CountersAreBounded, LimitsAssumption DEF CountInv, TypeOK, Row

LEMMA CountStep ==
    ASSUME TypeOK, CountInv, Next
    PROVE  CountInv'
<1>1. /\ row \in Row /\ row.retry_count \in Nat /\ faults \in Nat
      /\ beat \in [Scans -> BeatPC] /\ client \in [Clients -> ClientPC]
      /\ MaxRetries \in Nat /\ MaxFaults \in Nat
  BY LimitsAssumption DEF TypeOK, Row
<1>2. \A s : Write(s).retry_count = row.retry_count
  BY <1>1 DEF Write, Row
<1>3. /\ client' = client => Retrying' = Retrying
      /\ beat' = beat => Counting' = Counting
  BY DEF Retrying, Counting
<1>4. ASSUME NEW w \in Workers, Take(w) \/ Work(w)
      PROVE  CountInv'
  <2>1. /\ row' = row \/ \E s : row' = Write(s)
        /\ client' = client /\ beat' = beat /\ faults' = faults
    BY <1>4 DEF Take, Begin, Skip, Refuse, Work, TaskFrame, Fail, Handoff, MarkFailed,
       IngestClaim, ValidateReject, ValidatePublish, ValidateCommit, ValidateNoObject,
       ConfirmStorage, ExtractClaim, ExtractEncrypted, ExtractFails, ExtractComplete,
       ChunkClaim, ChunkNoPages, ChunkStore, ChunkConflict, ChunkCommit, EmbedNothing,
       EmbedStore, EmbedNoUpload, EmbedCommit, AnalyzeRead, AnalyzeRejected, AnalyzeCommit
  <2> QED
    BY <1>2, <1>3, <2>1, CountFrame
<1>5. ASSUME NEW c \in Clients, RetryRead(c)
      PROVE  CountInv'
  <2>1. /\ row' = row /\ beat' = beat /\ faults' = faults
        /\ row.retry_count < MaxRetries
    BY <1>5 DEF RetryRead, RequestFrame
  <2> QED
    BY <1>1, <2>1, CountersAreBounded, CountersStayBounded DEF CountInv
<1>6. ASSUME NEW c \in Clients, RetryCommit(c)
      PROVE  CountInv'
  <2>1. beat' = beat /\ faults' = faults /\ row'.retry_count <= row.retry_count + 1
        /\ row'.retry_count \in Nat
    BY <1>1, <1>6 DEF RetryCommit, RequestFrame
  <2>2. Cardinality(Retrying)' = Cardinality(Retrying) - 1
    BY <1>1, <1>6, OneLessRetrying DEF RetryCommit
  <2> QED
    BY <1>1, <1>3, <2>1, <2>2, CountersAreBounded DEF CountInv
<1>7. ASSUME NEW c \in Clients, RetryDispatch(c) \/ DeleteObject(c) \/ DeleteRow(c)
      PROVE  CountInv'
  <2>1. Retrying' = Retrying
    BY <1>1, <1>7, SameRetrying DEF RetryDispatch, DeleteObject, DeleteRow
  <2>2. row'.retry_count = row.retry_count
    BY <1>1, <1>7 DEF RetryDispatch, DeleteObject, DeleteRow, Row
  <2>3. beat' = beat /\ faults' = faults
    BY <1>7 DEF RetryDispatch, DeleteObject, DeleteRow, RequestFrame
  <2> QED
    BY <1>3, <2>1, <2>2, <2>3, CountFrame
<1>8. ASSUME NEW s \in Scans, RecoverScan(s)
      PROVE  CountInv'
  <2>1. row' = row /\ faults' = faults /\ client' = client /\ beat[s] = "idle"
    BY <1>8 DEF RecoverScan, BeatFrame
  <2>2. CASE row.retry_count < MaxRetries
    BY <1>1, <1>3, <2>1, <2>2, CountersAreBounded, CountersStayBounded DEF CountInv
  <2>3. CASE ~(row.retry_count < MaxRetries)
    <3>1. beat' = [beat EXCEPT ![s] = "fail"]
      BY <1>1, <1>8, <2>3 DEF RecoverScan
    <3>2. Counting' = Counting
      BY <1>1, <2>1, <3>1, SameCounting
    <3> QED
      BY <1>3, <2>1, <3>2, CountFrame
  <2> QED
    BY <2>2, <2>3
<1>9. ASSUME NEW s \in Scans, RecoverCommit(s)
      PROVE  CountInv'
  <2>1. /\ beat[s] # "idle" /\ beat' = [beat EXCEPT ![s] = "idle"]
        /\ faults' = faults /\ client' = client
    BY <1>9 DEF RecoverCommit, BeatFrame
  <2>2. CASE beat[s] = "fail"
    <3>1. row'.retry_count = row.retry_count
      BY <1>2, <1>9, <2>2 DEF RecoverCommit
    <3>2. Counting' = Counting
      BY <1>1, <2>1, <2>2, SameCounting
    <3> QED
      BY <1>3, <2>1, <3>1, <3>2, CountFrame
  <2>3. CASE beat[s] # "fail"
    <3>1. row'.retry_count <= row.retry_count + 1 /\ row'.retry_count \in Nat
      BY <1>1, <1>9, <2>3 DEF RecoverCommit, Row
    <3>2. beat[s] \in {"requeue", "count"}
      BY <1>1, <2>1, <2>3 DEF BeatPC
    <3>3. Cardinality(Counting)' = Cardinality(Counting) - 1
      BY <1>1, <2>1, <3>2, OneLessCounting
    <3> QED
      BY <1>1, <1>3, <2>1, <3>1, <3>3, CountersAreBounded DEF CountInv
  <2> QED
    BY <2>2, <2>3
<1>10. ASSUME NEW w \in Workers,
              TaskError(w) \/ WorkerKilled(w) \/ SoftTimeLimit(w) \/ NodeLost(w)
       PROVE  CountInv'
  <2>1. row' = row /\ client' = client /\ beat' = beat /\ faults' = faults - 1
    BY <1>10 DEF TaskError, WorkerKilled, SoftTimeLimit, NodeLost, Fault, Fail
  <2> QED
    BY <1>3, <2>1, CountFrame
<1>11. ASSUME NEW c \in Clients, RequestLost(c)
       PROVE  CountInv'
  <2>1. row' = row /\ beat' = beat /\ faults' = faults - 1
    BY <1>11 DEF RequestLost, Fault
  <2>2. CASE client[c] = "retrying"
    <3>1. /\ Cardinality(Retrying)' \in Nat
          /\ Cardinality(Retrying)' = Cardinality(Retrying) - 1
      BY <1>1, <1>11, <2>2, OneLessRetrying DEF RequestLost
    <3> QED
      BY <1>1, <1>3, <2>1, <3>1, CountersAreBounded DEF CountInv
  <2>3. CASE client[c] # "retrying"
    <3>1. Retrying' = Retrying
      BY <1>1, <1>11, <2>3, SameRetrying DEF RequestLost
    <3> QED
      BY <1>3, <2>1, <3>1, CountFrame
  <2> QED
    BY <2>2, <2>3
<1>12. ASSUME NEW c \in Clients, DeleteObjectFails(c)
       PROVE  CountInv'
  <2>1. row' = row /\ beat' = beat /\ faults' = faults - 1 /\ Retrying' = Retrying
    BY <1>1, <1>12, SameRetrying DEF DeleteObjectFails, Fault
  <2> QED
    BY <1>3, <2>1, CountFrame
<1>13. ASSUME NEW s \in Scans, RecoverAbort(s)
       PROVE  CountInv'
  <2>1. /\ row' = row /\ client' = client /\ faults' = faults - 1
        /\ beat[s] # "idle" /\ beat' = [beat EXCEPT ![s] = "idle"]
    BY <1>13 DEF RecoverAbort, Fault
  <2>2. CASE beat[s] = "fail"
    <3>1. Counting' = Counting
      BY <1>1, <2>1, <2>2, SameCounting
    <3> QED
      BY <1>3, <2>1, <3>1, CountFrame
  <2>3. CASE beat[s] # "fail"
    <3>1. beat[s] \in {"requeue", "count"}
      BY <1>1, <2>1, <2>3 DEF BeatPC
    <3>2. /\ Cardinality(Counting)' \in Nat
          /\ Cardinality(Counting)' = Cardinality(Counting) - 1
      BY <1>1, <2>1, <3>1, OneLessCounting
    <3> QED
      BY <1>1, <1>3, <2>1, <3>2, CountersAreBounded DEF CountInv
  <2> QED
    BY <2>2, <2>3
<1>14. CASE Restart
  <2>1. /\ row'.retry_count = row.retry_count + 1 /\ client' = client /\ beat' = beat
        /\ faults' = faults - 1
    BY <1>14 DEF Restart, Fault
  <2> QED
    BY <1>1, <1>3, <2>1, CountersAreBounded DEF CountInv
<1> QED
  BY <1>4, <1>5, <1>6, <1>7, <1>8, <1>9, <1>10, <1>11, <1>12, <1>13, <1>14
     DEF Next, Continue, Failures

\* The limit of retries is exceeded by no more than the requests and scans that
\* may overlap and the failures, whatever their interleaving: two scans that the
\* beat schedule starts in the same minute may both count the last retry.
THEOREM RetryCountStaysBounded == Spec => []RetryCountBounded
<1>1. Init => CountInv
  <2>1. ASSUME Init
        PROVE  Cardinality(Retrying) = 0 /\ Cardinality(Counting) = 0
    <3>1. Retrying = {} /\ Counting = {}
      BY <2>1 DEF Init, Retrying, Counting
    <3> QED
      BY <3>1, FS_EmptySet
  <2> QED
    BY <2>1, CountersAreBounded, LimitsAssumption DEF Init, CountInv
<1>2. TypeOK /\ CountInv /\ [Next]_vars => CountInv'
  <2>1. ASSUME CountInv, UNCHANGED vars
        PROVE  CountInv'
    BY <2>1 DEF CountInv, Retrying, Counting, vars
  <2> QED
    BY <2>1, CountStep
<1>3. TypeOK /\ CountInv => RetryCountBounded
  BY CountersAreBounded, LimitsAssumption DEF TypeOK, Row, CountInv, RetryCountBounded
<1> QED
  BY <1>1, <1>2, <1>3, TypeCorrect, PTL DEF Spec
=============================================================================
