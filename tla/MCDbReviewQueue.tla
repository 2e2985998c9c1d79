-------------------------- MODULE MCDbReviewQueue --------------------------
(* Model-checking instances of DbReviewQueue. *)
EXTENDS DbReviewQueue
=============================================================================
