--------------------------- MODULE ReviewDecision ---------------------------
(***************************************************************************)
(* What the review workflow promises of a contract: it is open until it is *)
(* decided, once; only an approved contract is finalized, with at most one *)
(* final version, or executed; and nothing comes back from the archive.    *)
(***************************************************************************)
EXTENDS Naturals

VARIABLES
    phase,    \* "open", or the status in which the content is locked
    finals    \* number of the last final version

DecisionInit == phase = "open" /\ finals = 0

Decide ==
    /\ phase = "open"
    /\ phase' \in {"approved", "rejected"}
    /\ UNCHANGED finals

Finalize ==
    /\ phase = "approved"
    /\ phase' = "finalized"
    /\ finals' \in {0, 1}

Execute ==
    /\ phase \in {"approved", "finalized"}
    /\ phase' = "executed"
    /\ UNCHANGED finals

Archive ==
    /\ phase # "archived"
    /\ phase' = "archived"
    /\ UNCHANGED finals

DecisionNext == Decide \/ Finalize \/ Execute \/ Archive

DecisionSpec == DecisionInit /\ [][DecisionNext]_<<phase, finals>>
=============================================================================
