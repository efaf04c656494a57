------------------------- MODULE MCNotificationMail -------------------------
(***************************************************************************)
(* Instances of NotificationMail for TLC.                                  *)
(***************************************************************************)
EXTENDS NotificationMail, TLC

\* the sessions of the endpoint are alike
Symmetry == Permutations(Processors)
=============================================================================
