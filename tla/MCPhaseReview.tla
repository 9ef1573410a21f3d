--------------------------- MODULE MCPhaseReview ---------------------------
(* The instance TLC checks: two phases, the first of them reviewed. *)
EXTENDS PhaseReview
=============================================================================
