-------------------------- MODULE MCReviewService --------------------------
(* Model-checking instances of ReviewService. *)
EXTENDS ReviewService
=============================================================================
