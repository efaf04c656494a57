-------------------------- MODULE MCReviewLifecycle --------------------------
(***************************************************************************)
(* Instances of ReviewLifecycle for TLC.                                   *)
(***************************************************************************)
EXTENDS ReviewLifecycle, TLC

CONSTANTS c1, c2, p1, p2, u1, a1, r1

MCClient == {c1, c2}
MCProcess == {p1, p2}
Symmetry == Permutations(MCClient) \cup Permutations(MCProcess)

Of(op, args) == {[op |-> op, arg |-> x] : x \in args}

\* Each operation, with the arguments whose races differ.
RacingRequests ==
    Of("status", {"negotiation", "executed"}) \cup Of("advance", {"approved", "finalized"})
      \cup Of("assign", {"reviewer"}) \cup Of("escalate", {"none"})
      \cup Of("decide", Decision) \cup Of("bulk", {"rejected"})
      \cup Of("finalize", {"none"}) \cup Of("reanalyze", {"none"}) \cup Of("resolve", {"none"})

\* Every request there is, except the bulk decisions.
SingleRequests == {r \in AnyRequest : r.op # "bulk"}
BulkDecisions == Of("bulk", Decision)
Decisions == Of("decide", Decision)
=============================================================================
