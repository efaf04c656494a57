--------------------------- MODULE ReviewStatuses ---------------------------
(***************************************************************************)
(* The vocabulary of a contract review: the statuses the database stores,  *)
(* the states of the workflow, the two transition tables that exist side   *)
(* by side, the translations between them and the guards on a status.      *)
(* Everything here is a constant-level definition.                         *)
(***************************************************************************)
EXTENDS Naturals

\* ReviewStatus of app/domains/review/models.py.
ReviewStatus ==
    {"draft", "uploaded", "analyzing", "ai_analyzed", "ai_reviewed", "review_ready",
     "procurement_review", "legal_review", "security_review", "negotiation",
     "in_review", "changes_requested", "pending_approval", "escalated",
     "legal_approval", "exec_approval", "approved", "rejected", "finalized",
     "executed", "archived", "closed"}

\* WorkflowState of app/domains/review/workflow.py.
WorkflowState ==
    {"uploaded", "analyzing", "ai_reviewed", "procurement_review", "legal_review",
     "security_review", "negotiation", "in_review", "escalated", "exec_approval",
     "approved", "rejected", "finalized", "executed", "archived"}

\* WorkflowState.valid_transitions(): the table of validate_transition.
workflow_transitions ==
    [s \in WorkflowState |->
        CASE s = "uploaded"    -> {"analyzing", "archived"}
          [] s = "analyzing"   -> {"ai_reviewed", "uploaded", "archived"}
          [] s = "ai_reviewed" -> {"procurement_review", "legal_review", "in_review", "archived"}
          [] s = "procurement_review" ->
               {"legal_review", "security_review", "negotiation", "rejected", "archived"}
          [] s = "legal_review" ->
               {"exec_approval", "approved", "negotiation", "rejected",
                "procurement_review", "escalated", "archived"}
          [] s = "security_review" ->
               {"legal_review", "negotiation", "rejected", "procurement_review",
                "escalated", "archived"}
          [] s = "negotiation" ->
               {"procurement_review", "legal_review", "approved", "rejected", "archived"}
          [] s = "in_review" ->
               {"procurement_review", "legal_review", "security_review", "exec_approval",
                "approved", "escalated", "rejected", "archived"}
          [] s = "escalated" ->
               {"in_review", "procurement_review", "legal_review", "security_review",
                "exec_approval", "approved", "rejected", "archived"}
          [] s = "exec_approval" ->
               {"approved", "legal_review", "in_review", "rejected", "archived"}
          [] s = "approved"    -> {"finalized", "executed", "archived"}
          [] s = "rejected"    -> {"archived"}
          [] s = "finalized"   -> {"executed", "archived"}
          [] s = "executed"    -> {"archived"}
          [] OTHER             -> {}]

\* ReviewStatus.valid_transitions(): the table of ReviewRepository.update_status.
review_transitions ==
    [s \in ReviewStatus |->
        CASE s = "draft"     -> {"analyzing", "ai_analyzed", "closed"}
          [] s = "uploaded"  -> {"analyzing", "ai_analyzed", "archived", "closed"}
          [] s = "analyzing" -> {"ai_analyzed", "ai_reviewed", "uploaded", "closed"}
          [] s = "ai_analyzed" ->
               {"ai_reviewed", "review_ready", "procurement_review", "legal_review",
                "in_review", "closed"}
          [] s \in {"ai_reviewed", "review_ready"} ->
               {"procurement_review", "legal_review", "in_review", "closed"}
          [] s = "procurement_review" ->
               {"legal_review", "security_review", "negotiation", "rejected", "closed"}
          [] s = "legal_review" ->
               {"approved", "negotiation", "rejected", "procurement_review", "escalated",
                "closed"}
          [] s = "security_review" ->
               {"legal_review", "negotiation", "rejected", "procurement_review",
                "escalated", "closed"}
          [] s = "negotiation" ->
               {"procurement_review", "legal_review", "approved", "rejected", "closed"}
          [] s = "in_review" ->
               {"changes_requested", "procurement_review", "legal_review",
                "security_review", "approved", "legal_approval", "pending_approval",
                "escalated", "closed"}
          [] s = "changes_requested" -> {"in_review", "escalated", "closed"}
          [] s = "pending_approval"  -> {"approved", "rejected", "in_review", "closed"}
          [] s = "escalated" ->
               {"in_review", "procurement_review", "legal_review", "security_review",
                "legal_approval", "exec_approval", "approved", "closed"}
          [] s = "legal_approval" ->
               {"exec_approval", "approved", "rejected", "in_review", "escalated", "closed"}
          [] s = "exec_approval" ->
               {"approved", "rejected", "in_review", "escalated", "closed"}
          [] s = "approved"  -> {"finalized", "executed", "archived", "closed"}
          [] s = "rejected"  -> {"archived", "closed"}
          [] s = "finalized" -> {"executed", "archived", "closed"}
          [] s = "executed"  -> {"archived", "closed"}
          [] OTHER           -> {}]

\* map_legacy_status: the workflow state a stored status stands for.
map_legacy_status(s) ==
    CASE s \in {"draft", "uploaded"} -> "uploaded"
      [] s \in {"ai_analyzed", "ai_reviewed", "review_ready"} -> "ai_reviewed"
      [] s \in {"in_review", "changes_requested", "pending_approval"} -> "in_review"
      [] s \in {"legal_review", "legal_approval"} -> "legal_review"
      [] s \in {"archived", "closed"} -> "archived"
      [] OTHER -> s

\* Defect: workflow states are stored under their own names.
to_db_status_unmapped(w) == w

\* to_db_status: the status under which a workflow state is stored.
to_db_status(w) ==
    CASE w = "ai_reviewed" -> "ai_analyzed"
      [] w = "negotiation" -> "in_review"
      [] OTHER -> w

\* WorkflowState.is_immutable.
Immutable == {"approved", "rejected", "finalized", "executed", "archived"}

\* Defect: only the archive is locked.
guard_archived(s) == s # "archived"

\* guard_mutable: a status that is no workflow state is let through, and no such
\* status stands for an immutable state except "closed", which nothing writes.
guard_mutable(s) == s \notin Immutable

\* assert_can_approve_or_reject.
Decidable ==
    {"procurement_review", "legal_review", "security_review", "negotiation",
     "in_review", "escalated", "exec_approval", "approved"}

\* ApproveRequest.decision, and the status _approve_impl gives each.
Decision == {"approved", "conditionally_approved", "rejected"}
DecisionStatus(d) == IF d = "rejected" THEN "rejected" ELSE "approved"

\* _escalate_impl: the status of a target_workflow_stage; any other is ESCALATED.
EscalationStatus(stage) ==
    CASE stage \in {"legal_approval", "exec_approval"} -> stage
      [] stage = "compliance" -> "in_review"
      [] OTHER -> "escalated"

\* advance_workflow: the status an action asks for.
ActionStatus(action) == IF action = "legal_review" THEN "legal_approval" ELSE action
=============================================================================
