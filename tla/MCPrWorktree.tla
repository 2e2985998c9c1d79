---------------------------- MODULE MCPrWorktree ----------------------------
(* Model checking of PrWorktree: one pull request.                         *)
EXTENDS PrWorktree
=============================================================================
