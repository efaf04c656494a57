--------------------------- MODULE IngestionStates ---------------------------
(***************************************************************************)
(* The vocabulary of the ingestion pipeline: the states of an upload, the  *)
(* transitions its state machine allows, the Celery tasks that drive it    *)
(* and the tables that say which task resumes an upload found in a state.  *)
(* Everything here is a constant-level definition.                         *)
(***************************************************************************)
EXTENDS Naturals

\* IngestionState of app/domains/ingestion/models.py.
IngestionState ==
    {"uploaded", "validating", "validated", "storage_confirmed", "ocr_pending",
     "ocr_processing", "ocr_complete", "chunking_pending", "embedding_pending",
     "analysis_pending", "review_ready", "failed", "cancelled", "quarantined"}

\* A row of upload_sessions is in a state of the enum, or it has been deleted.
RowState == IngestionState \cup {"deleted"}

\* IngestionState.valid_transitions().
valid_transitions ==
    [s \in IngestionState |->
        CASE s = "uploaded"          -> {"validating", "cancelled", "failed"}
          [] s = "validating"        -> {"validated", "failed", "quarantined"}
          [] s = "validated"         -> {"storage_confirmed", "failed"}
          [] s = "storage_confirmed" -> {"ocr_pending", "failed"}
          [] s = "ocr_pending"       -> {"ocr_processing", "failed"}
          [] s = "ocr_processing"    -> {"ocr_complete", "failed", "quarantined"}
          [] s = "ocr_complete"      -> {"chunking_pending", "failed"}
          [] s = "chunking_pending"  -> {"embedding_pending", "failed"}
          [] s = "embedding_pending" -> {"analysis_pending", "failed"}
          [] s = "analysis_pending"  -> {"review_ready", "failed"}
          [] s = "failed"            -> {"uploaded"}
          [] OTHER                   -> {}]

can_transition_to(s, t) == s \in IngestionState /\ t \in valid_transitions[s]

\* The tasks of workers/: each one takes an upload over a part of the pipeline.
Task == {"ingest", "validate", "confirm", "extract", "chunk", "embed", "analyze"}

\* The task a task publishes when its own part is done.
Successor ==
    [t \in Task \ {"analyze"} |->
        CASE t = "ingest"   -> "validate"
          [] t = "validate" -> "confirm"
          [] t = "confirm"  -> "extract"
          [] t = "extract"  -> "chunk"
          [] t = "chunk"    -> "embed"
          [] t = "embed"    -> "analyze"]

\* Variant: VALIDATED resumed as the set _REDISPATCH_VALIDATE would have it.
redispatch_by_sets(s) ==
    CASE s \in {"storage_confirmed", "ocr_pending", "ocr_processing"} -> "extract"
      [] s \in {"ocr_complete", "chunking_pending"} -> "chunk"
      [] s = "embedding_pending" -> "embed"
      [] s \in {"uploaded", "validating", "validated"} -> "validate"

\* redispatch_ingestion: the task that resumes an upload stuck in a state.
redispatch_ingestion(s) ==
    CASE s \in {"storage_confirmed", "ocr_pending", "ocr_processing"} -> "extract"
      [] s \in {"ocr_complete", "chunking_pending"} -> "chunk"
      [] s = "embedding_pending" -> "embed"
      [] s = "validated" -> "confirm"
      [] s \in {"uploaded", "validating"} -> "validate"

\* The states _handle_stuck_upload resumes.
Requeueable ==
    {"ocr_pending", "ocr_processing", "storage_confirmed", "ocr_complete",
     "chunking_pending", "embedding_pending", "validating", "validated"}

\* The states _find_stuck_uploads looks for.
Stuck == IngestionState \ {"review_ready", "failed", "cancelled", "quarantined"}

\* _NON_TERMINAL_STATES of the recovery that runs when the API starts.
NonTerminal == Requeueable \cup {"uploaded", "analysis_pending"}

\* The states reached only after the pages, or the chunks, of the document
\* have been stored.
NeedsPages ==
    {"ocr_complete", "chunking_pending", "embedding_pending",
     "analysis_pending", "review_ready"}
NeedsChunks == {"embedding_pending", "analysis_pending", "review_ready"}
=============================================================================
