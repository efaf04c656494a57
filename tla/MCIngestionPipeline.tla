------------------------- MODULE MCIngestionPipeline -------------------------
(***************************************************************************)
(* Instances of IngestionPipeline for TLC, and its liveness.               *)
(***************************************************************************)
EXTENDS IngestionPipeline, TLC

CONSTANTS w1, w2, c1, s1, s2

MCWorkers == {w1, w2}
MCClients == {c1}
MCScans == {s1, s2}
Symmetry == Permutations(MCWorkers) \cup Permutations(MCScans)

\* Retries of a task by Celery: the code has 3 (5 for ingest_document), and 0
\* for confirm_storage, which has max_retries = 3 and no autoretry_for.
OneRetry == [t \in Task |-> IF t = "confirm" THEN 0 ELSE 1]

\* The one task whose handler of an exception asks which attempt this is.
ExtractRetried == [t \in Task |-> IF t = "extract" THEN 1 ELSE 0]

\* Where the recovery leaves an upload alone, or has nothing to resume.
Settled == {"analysis_pending", "review_ready", "failed", "quarantined", "deleted"}

\* An upload in any state the recovery resumes, whose worker was killed or whose
\* next message was never published, gets to the end of the pipeline or to
\* FAILED, as long as fewer failures hit it than recovery actions are allowed.
\* One action is kept for a loss that needs no failure: confirm_storage may look
\* at the row before validate_upload has committed VALIDATED, and return.
ResumableSettles == row.state \in Requeueable ~> row.state \in Settled
=============================================================================
