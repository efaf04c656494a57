------------------------- MODULE MCAbandonedReviews -------------------------
(***************************************************************************)
(* Instances of AbandonedReviews for TLC.                                  *)
(***************************************************************************)
EXTENDS AbandonedReviews, TLC

\* the workers are alike
Symmetry == Permutations(Scans)
=============================================================================
