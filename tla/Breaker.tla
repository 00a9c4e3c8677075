------------------------------ MODULE Breaker ------------------------------
(***************************************************************************)
(* The per-app circuit breaker of internal/broker/breaker.go, as operators *)
(* on its state; every call the broker forwards goes through one.          *)
(*                                                                         *)
(* Time is abstracted to the one bit Allow reads: cooled is true when      *)
(* now - openedAt >= Cooldown.  Whoever owns the breaker lets that bit     *)
(* turn true with Cools; (re)opening clears it, as setting openedAt does.  *)
(***************************************************************************)
EXTENDS Naturals

CONSTANT Threshold     \* consecutive failures that open it; 0 disables it

ASSUME ThresholdIsNat == Threshold \in Nat

BreakerState == [failures : Nat, open : BOOLEAN, cooled : BOOLEAN, probing : BOOLEAN]

FreshBreaker == [failures |-> 0, open |-> FALSE, cooled |-> FALSE, probing |-> FALSE]

\* Mutant: Allow does not remember that a probe is out.
AfterAllowUnmarked(b) == b

\* What Allow answers, and the state it leaves when it answers true.
Allows(b) == Threshold = 0 \/ ~b.open \/ (b.cooled /\ ~b.probing)

AfterAllow(b) == [b EXCEPT !.probing = @ \/ (Threshold > 0 /\ b.open)]

\* Record(true) closes the breaker whoever the caller is.
AfterSuccess(b) == IF Threshold = 0 THEN b ELSE FreshBreaker

\* Record(false): a failure while open counts as the probe's, restarting the
\* cooldown; while closed it opens the breaker at the threshold.
AfterFailure(b) ==
  IF Threshold = 0 THEN b
  ELSE [failures |-> b.failures + 1,
        open     |-> b.open \/ b.failures + 1 >= Threshold,
        cooled   |-> FALSE,
        probing  |-> ~b.open /\ b.probing]

AfterRecord(b, success) == IF success THEN AfterSuccess(b) ELSE AfterFailure(b)

\* The cooldown of an open breaker runs out.
CanCool(b) == b.open /\ ~b.cooled
Cools(b) == [b EXCEPT !.cooled = TRUE]
=============================================================================
