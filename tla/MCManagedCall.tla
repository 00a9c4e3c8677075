--------------------------- MODULE MCManagedCall ---------------------------
(* Small instances of ManagedCall for TLC.                                 *)
EXTENDS ManagedCall, TLC

Alike == Permutations(Handler) \cup Permutations(Caller)
=============================================================================
