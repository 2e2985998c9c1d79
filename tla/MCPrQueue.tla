------------------------------ MODULE MCPrQueue ------------------------------
(* Three pull requests of two repositories: a bump of a pinned toolchain      *)
(* package, a bump with platform packages, and a plain change. A scan of two  *)
(* of them is above the threshold and may omit the third. A review finds      *)
(* nothing, or a security concern in a small change.                          *)
EXTENDS PrQueue, TLC

MCRepo == (1 :> "hub") @@ (2 :> "hub") @@ (3 :> "mcpedia")

MCReviews ==
  {[security |-> "none", issues |-> "none", effort |-> 5, error |-> FALSE],
   [security |-> "reported", issues |-> "none", effort |-> 1, error |-> FALSE]}

MCHeaded ==
  {[security |-> "headed", issues |-> "none", effort |-> 1, error |-> FALSE]}
=============================================================================
