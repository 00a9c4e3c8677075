--------------------------- MODULE MCPublishCases --------------------------
(* Small instances of PublishCases for TLC: one case of one app.           *)
EXTENDS PublishCases, TLC

CONSTANTS a1, c1

CaseOfAll == [s \in Sub |-> c1]
AppOfAll == [c \in Case |-> a1]
Alike == Permutations(Task)
=============================================================================
