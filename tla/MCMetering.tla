---------------------------- MODULE MCMetering ----------------------------
(* Small instances of Metering for TLC.                                    *)
EXTENDS Metering, TLC

Alike == Permutations(Handler) \cup Permutations(Machine) \cup Permutations(Caller)
=============================================================================
