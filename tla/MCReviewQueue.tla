--------------------------- MODULE MCReviewQueue ---------------------------
(* Model-checking instance of ReviewQueue. *)
EXTENDS ReviewQueue
=============================================================================
