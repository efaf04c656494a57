-------------------------- MODULE IngestionLifecycle --------------------------
(***************************************************************************)
(* What the ingestion pipeline promises to those who only watch an         *)
(* upload: its state moves along the transitions of the state machine, an  *)
(* upload becomes REVIEW_READY together with its review and not before,    *)
(* a review once there stays, and a deleted upload stays deleted.  No      *)
(* tasks, messages, retries of messages or recovery are visible here.      *)
(***************************************************************************)
EXTENDS IngestionStates

VARIABLES
    state,     \* the state of the upload
    reviewed   \* whether a review of it exists

LifecycleInit == state = "uploaded" /\ reviewed = FALSE

\* One transition of the state machine; the last one creates the review.
Advance ==
    /\ \E next \in IngestionState :
         /\ can_transition_to(state, next)
         /\ state' = next
    /\ reviewed' = (reviewed \/ state' = "review_ready")

\* A retry resets FAILED to UPLOADED and confirms the upload in one transaction.
Retry ==
    /\ state = "failed"
    /\ state' = "validating"
    /\ UNCHANGED reviewed

Delete ==
    /\ state \in IngestionState
    /\ state' = "deleted"
    /\ reviewed' = FALSE

LifecycleNext == Advance \/ Retry \/ Delete

LifecycleSpec == LifecycleInit /\ [][LifecycleNext]_<<state, reviewed>>
=============================================================================
