---------------------------- MODULE MCSyncHooks ----------------------------
(* Model-checking instance of SyncHooks. *)
EXTENDS SyncHooks
=============================================================================
