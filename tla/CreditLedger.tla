---------------------------- MODULE CreditLedger ----------------------------
(***************************************************************************)
(* What the credit ledger promises each caller of an app, whatever calls   *)
(* run at once (store.go:25-72, registry.go:38-44): a budget is granted    *)
(* once, only ever goes down, is spent by one caller's call at a time and  *)
(* never beyond what is there.  A process crash may forfeit part of it.    *)
(***************************************************************************)
EXTENDS Naturals

CONSTANTS Caller, Seed

VARIABLES
  purse,      \* purse[c]: what c may still spend, calls under way included
  seeded,     \* the callers the ledger knows
  restarts    \* process crashes so far

ledgerVars == <<purse, seeded, restarts>>

Init ==
  /\ purse = [c \in Caller |-> 0]
  /\ seeded = {}
  /\ restarts = 0

\* First sight: the seed, or nothing for a caller over its network's cap.
Grant(c) ==
  /\ c \notin seeded
  /\ seeded' = seeded \cup {c}
  /\ \E n \in {0, Seed} : purse' = [purse EXCEPT ![c] = n]
  /\ UNCHANGED restarts

\* A successful call is paid for, or a failed one's refund is lost.
Spend(c) ==
  /\ c \in seeded
  /\ purse'[c] \in 0 .. purse[c]
  /\ purse' = [purse EXCEPT ![c] = purse'[c]]
  /\ UNCHANGED <<seeded, restarts>>

\* A crash strands what calls had reserved.
Forfeit ==
  /\ restarts' = restarts + 1
  /\ DOMAIN purse' = Caller
  /\ \A c \in Caller : purse'[c] \in 0 .. purse[c]
  /\ UNCHANGED seeded

Next == Forfeit \/ \E c \in Caller : Grant(c) \/ Spend(c)

Spec == Init /\ [][Next]_ledgerVars
=============================================================================
