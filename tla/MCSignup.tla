------------------------------ MODULE MCSignup ------------------------------
(* Small instances of Signup for TLC.                                      *)
EXTENDS Signup, TLC

Alike == Permutations(Task) \cup Permutations(Addr) \cup Permutations(Caller)
=============================================================================
