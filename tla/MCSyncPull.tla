----------------------------- MODULE MCSyncPull -----------------------------
(* Rows, scopes (projects) that come and go, and a sweep batch of one row. *)
EXTENDS SyncPull, TLC

PullSymmetry == Permutations(Entity) \cup Permutations(Scope)
=============================================================================
