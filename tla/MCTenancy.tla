----------------------------- MODULE MCTenancy -----------------------------
(* Small instances of Tenancy for TLC.                                     *)
EXTENDS Tenancy, TLC

CONSTANT n1

LinkFirst == [i \in Item |-> n1]
Alike == Permutations(Handler) \cup Permutations(Caller)
=============================================================================
