----------------------------- MODULE Metering -----------------------------
(***************************************************************************)
(* Credit of a provisioned app: pushes (servePush of provision.go) reserve *)
(* a fee and start machines in the cloud, while the metering loop of       *)
(* meter.go charges their owners for the time they run and stops them when *)
(* the money is gone.  Both work on one balance through separate store     *)
(* transactions and separate calls to the cloud, so every such call is a   *)
(* step.                                                                   *)
(*                                                                         *)
(* Only the time since the last metering pass is kept: elapsed saturates   *)
(* at MaxElapsed, the bound on how far a pass may fall behind.             *)
(***************************************************************************)
EXTENDS Breaker, Integers, FiniteSets

CONSTANTS
  Caller, Handler,
  Machine,       \* ids the cloud gives out, each once
  NoOne,         \* the owner of a machine that does not exist
  Seed,          \* SeedCredits
  PushCost,      \* the flat cost_credits of a push; 0 when only usage is billed
  Rate, Scale,   \* a machine costs Rate/Scale micro-dollars per unit of time
  MaxElapsed,    \* bound: units of time between passes
  MaxFaults      \* bound: crashes, failures of the cloud and errors of the store

ASSUME MeteringAssumption ==
  /\ NoOne \notin Caller
  /\ Seed \in Nat /\ PushCost \in Nat /\ Rate \in Nat
  /\ Scale \in Nat \ {0}
  /\ MaxElapsed \in Nat /\ MaxFaults \in Nat
  /\ IsFiniteSet(Handler) /\ IsFiniteSet(Machine)

VARIABLES
  breaker, credits,
  known,      \* callers with a provision row
  owner,      \* owner[m]: the PILOT_OWNER tag of machine m
  running,    \* the machines that are started
  push,       \* push[h]: the push handler h is serving
  meter,      \* the metering loop
  elapsed,    \* time since the pass under way, or the last one, began
  \* History, read by no guard of the code:
  fees,       \* what c paid for pushes
  billed,     \* what c paid for running machines
  lost,       \* reserved by c's pushes and never given back: a crash, a dropped refund
  faults

cloud == <<owner, running>>
history == <<fees, billed, lost, faults>>
vars == <<breaker, credits, known, cloud, push, meter, elapsed, history>>

Idle == [at |-> "idle"]
PushPoint == {"get", "debit", "create", "start", "refund"}
Push == [at : PushPoint, caller : Caller, held : Nat, made : SUBSET Machine]

\* todo: machines of the listing still to meter; bal: what Get saw, less the charge.
MeterPoint == {"idle", "list", "next", "debit", "stop"}
Pass == [at : MeterPoint, todo : SUBSET Machine, on : SUBSET Machine, dur : Nat, bal : Nat, charge : Nat]
NoPass == [at |-> "idle", todo |-> {}, on |-> {}, dur |-> 0, bal |-> 0, charge |-> 0]

Active(h) == push[h].at # "idle"
At(h, p) == push[h].at = p

Init ==
  /\ breaker = FreshBreaker
  /\ credits = [c \in Caller |-> 0] /\ known = {}
  /\ owner = [m \in Machine |-> NoOne] /\ running = {}
  /\ push = [h \in Handler |-> Idle]
  /\ meter = NoPass /\ elapsed = 0
  /\ fees = [c \in Caller |-> 0] /\ billed = [c \in Caller |-> 0]
  /\ lost = [c \in Caller |-> 0]
  /\ faults = 0

\* serveProvision, first call; a refused or repeated one changes no balance.
Provision(c) ==
  /\ c \notin known
  /\ known' = known \cup {c}
  /\ credits' = [credits EXCEPT ![c] = Seed]
  /\ UNCHANGED <<breaker, cloud, push, meter, elapsed, history>>
-----------------------------------------------------------------------------
(* servePush.                                                              *)

Goto(h, p) == push' = [push EXCEPT ![h] = IF p = "idle" THEN Idle ELSE [@ EXCEPT !.at = p]]

PushAllow(h, c) ==
  /\ At(h, "idle")
  /\ Allows(breaker)
  /\ breaker' = AfterAllow(breaker)
  /\ push' = [push EXCEPT ![h] = [at |-> "get", caller |-> c, held |-> 0, made |-> {}]]
  /\ UNCHANGED <<credits, known, cloud, meter, elapsed, history>>

\* A bad envelope, an error of Debit: Record is never told.
PushRefused(h) ==
  /\ push[h].at \in {"get", "debit"}
  /\ Goto(h, "idle")
  /\ UNCHANGED <<breaker, credits, known, cloud, meter, elapsed, history>>

Fault == faults < MaxFaults /\ faults' = faults + 1

PushGet(h) ==
  /\ At(h, "get")
  /\ Goto(h, IF credits[push[h].caller] > 0 THEN "debit" ELSE "idle")
  /\ UNCHANGED <<breaker, credits, known, cloud, meter, elapsed, history>>

\* When Get fails the push goes on.
PushGetFails(h) ==
  /\ At(h, "get")
  /\ Fault
  /\ Goto(h, "debit")
  /\ UNCHANGED <<breaker, credits, known, cloud, meter, elapsed, fees, billed, lost>>

\* Mutant: the balance Get answered is trusted.
PushDebitUnchecked(h) ==
  /\ At(h, "debit")
  /\ credits' = [credits EXCEPT ![push[h].caller] = @ - PushCost]
  /\ push' = [push EXCEPT ![h].at = "create", ![h].held = PushCost]
  /\ UNCHANGED <<breaker, known, cloud, meter, elapsed, history>>

PushDebit(h) ==
  /\ At(h, "debit")
  /\ LET c == push[h].caller
     IN  \/ /\ credits[c] >= PushCost
            /\ credits' = [credits EXCEPT ![c] = @ - PushCost]
            /\ push' = [push EXCEPT ![h].at = "create", ![h].held = PushCost]
         \/ /\ credits[c] < PushCost
            /\ Goto(h, "idle") /\ UNCHANGED credits
  /\ UNCHANGED <<breaker, known, cloud, meter, elapsed, history>>

Keep(h) == fees' = [fees EXCEPT ![push[h].caller] = @ + push[h].held]

\* Mutant: only transport errors are refunded, a refusal of the cloud is not.
PushFailsKept(h, success) ==
  /\ At(h, "create")
  /\ breaker' = AfterRecord(breaker, success)
  /\ IF success
     THEN Keep(h) /\ Goto(h, "idle") /\ UNCHANGED faults
     ELSE Goto(h, "refund") /\ Fault /\ UNCHANGED fees
  /\ UNCHANGED <<credits, known, cloud, meter, elapsed, billed, lost>>

\* The upload or the creation is refused, or the cloud fails.
PushFails(h, success) ==
  /\ At(h, "create")
  /\ breaker' = AfterRecord(breaker, success)
  /\ Goto(h, "refund")
  /\ IF success THEN UNCHANGED faults ELSE Fault
  /\ UNCHANGED <<credits, known, cloud, meter, elapsed, fees, billed, lost>>

\* POST /v1/machines makes a machine tagged with its owner; its answer may be lost.
PushCreates(h, m, heard) ==
  /\ At(h, "create")
  /\ owner[m] = NoOne
  /\ owner' = [owner EXCEPT ![m] = push[h].caller]
  /\ IF heard
     THEN push' = [push EXCEPT ![h].at = "start", ![h].made = {m}] /\ UNCHANGED <<breaker, faults>>
     ELSE Goto(h, "refund") /\ breaker' = AfterRecord(breaker, FALSE) /\ Fault
  /\ UNCHANGED <<credits, known, running, meter, elapsed, fees, billed, lost>>

\* The start call; a failure is not one of the push's.
PushStarts(h, started) ==
  /\ At(h, "start")
  /\ running' = IF started THEN running \cup push[h].made ELSE running
  /\ breaker' = AfterRecord(breaker, TRUE)
  /\ Keep(h) /\ Goto(h, "idle")
  /\ UNCHANGED <<credits, known, owner, meter, elapsed, billed, lost, faults>>

Refund(h) ==
  /\ At(h, "refund")
  /\ credits' = [credits EXCEPT ![push[h].caller] = @ + push[h].held]
  /\ Goto(h, "idle")
  /\ UNCHANGED <<breaker, known, cloud, meter, elapsed, history>>

\* Refund answers no error: what a failing one should have written is never written.
RefundFails(h) ==
  /\ At(h, "refund") /\ push[h].held > 0
  /\ Fault
  /\ lost' = [lost EXCEPT ![push[h].caller] = @ + push[h].held]
  /\ Goto(h, "idle")
  /\ UNCHANGED <<breaker, credits, known, cloud, meter, elapsed, fees, billed>>

BreakerCools ==
  /\ CanCool(breaker)
  /\ breaker' = Cools(breaker)
  /\ UNCHANGED <<credits, known, cloud, push, meter, elapsed, history>>
-----------------------------------------------------------------------------
(* RunMeter and MeterOnce.                                                 *)

TimePasses ==
  /\ elapsed < MaxElapsed
  /\ elapsed' = elapsed + 1
  /\ UNCHANGED <<breaker, credits, known, cloud, push, meter, history>>

\* A tick: the pass is for the time since the previous one began.
MeterTick ==
  /\ meter.at = "idle" /\ elapsed > 0
  /\ meter' = [NoPass EXCEPT !.at = "list", !.dur = elapsed]
  /\ elapsed' = 0
  /\ UNCHANGED <<breaker, credits, known, cloud, push, history>>

MeterLists ==
  /\ meter.at = "list"
  /\ meter' = [meter EXCEPT !.at = "next", !.todo = running]
  /\ UNCHANGED <<breaker, credits, known, cloud, push, elapsed, history>>

\* AllOwned fails: the pass, and the time it was for, are dropped.
ListFails ==
  /\ meter.at = "list"
  /\ Fault
  /\ meter' = NoPass
  /\ UNCHANGED <<breaker, credits, known, cloud, push, elapsed, fees, billed, lost>>

Least(a, b) == IF a < b THEN a ELSE b

\* Mutant: a machine whose owner is broke is passed over.
MeterGetSkipsBroke(m) ==
  /\ meter.at = "next" /\ m \in meter.todo /\ owner[m] \in known
  /\ LET bal == credits[owner[m]]
         charge == Least((Rate * meter.dur) \div Scale, bal)
     IN  meter' = [meter EXCEPT !.todo = @ \ {m}, !.on = {m}, !.bal = bal, !.charge = charge,
                     !.at = IF charge > 0 THEN "debit" ELSE "next"]
  /\ UNCHANGED <<breaker, credits, known, cloud, push, elapsed, history>>

\* Get, and what follows from the balance it answers.
MeterGet(m) ==
  /\ meter.at = "next" /\ m \in meter.todo /\ owner[m] \in known
  /\ LET bal == credits[owner[m]]
         charge == Least((Rate * meter.dur) \div Scale, bal)
     IN  meter' = [meter EXCEPT !.todo = @ \ {m}, !.on = {m}, !.bal = bal, !.charge = charge,
                     !.at = IF charge > 0 THEN "debit" ELSE IF bal = 0 THEN "stop" ELSE "next"]
  /\ UNCHANGED <<breaker, credits, known, cloud, push, elapsed, history>>

\* The owner has no row, or Get fails, which is taken for the same.
MeterSkips(m) ==
  /\ meter.at = "next" /\ m \in meter.todo
  /\ meter' = [meter EXCEPT !.todo = @ \ {m}]
  /\ IF owner[m] \in known THEN Fault ELSE UNCHANGED faults
  /\ UNCHANGED <<breaker, credits, known, cloud, push, elapsed, fees, billed, lost>>

\* Mutant: the write that charges the balance is the one that was read.
MeterDebitStale ==
  /\ meter.at = "debit"
  /\ \E m \in meter.on :
       LET c == owner[m]
       IN  /\ credits' = [credits EXCEPT ![c] = meter.bal - meter.charge]
           /\ billed' = [billed EXCEPT ![c] = @ + meter.charge]
  /\ meter' = [meter EXCEPT !.bal = @ - meter.charge,
                            !.at = IF meter.bal = meter.charge THEN "stop" ELSE "next"]
  /\ UNCHANGED <<breaker, known, cloud, push, elapsed, fees, lost, faults>>

\* Debit refuses when another call has spent the credit since Get; the answer is
\* ignored, and the pass goes on as if it had been charged.
MeterDebit ==
  /\ meter.at = "debit"
  /\ \E m \in meter.on :
       LET c == owner[m]
       IN  IF credits[c] >= meter.charge
           THEN /\ credits' = [credits EXCEPT ![c] = @ - meter.charge]
                /\ billed' = [billed EXCEPT ![c] = @ + meter.charge]
           ELSE UNCHANGED <<credits, billed>>
  /\ meter' = [meter EXCEPT !.bal = @ - meter.charge,
                            !.at = IF meter.bal = meter.charge THEN "stop" ELSE "next"]
  /\ UNCHANGED <<breaker, known, cloud, push, elapsed, fees, lost, faults>>

\* An error of Debit is ignored like its refusal: nothing is charged.
MeterDebitFails ==
  /\ meter.at = "debit"
  /\ Fault
  /\ meter' = [meter EXCEPT !.bal = @ - meter.charge,
                            !.at = IF meter.bal = meter.charge THEN "stop" ELSE "next"]
  /\ UNCHANGED <<breaker, credits, known, cloud, push, elapsed, fees, billed, lost>>

MeterStop ==
  /\ meter.at = "stop"
  /\ running' = running \ meter.on
  /\ meter' = [meter EXCEPT !.at = "next"]
  /\ UNCHANGED <<breaker, credits, known, owner, push, elapsed, history>>

StopFails ==
  /\ meter.at = "stop"
  /\ Fault
  /\ meter' = [meter EXCEPT !.at = "next"]
  /\ UNCHANGED <<breaker, credits, known, cloud, push, elapsed, fees, billed, lost>>

MeterDone ==
  /\ meter.at = "next" /\ meter.todo = {}
  /\ meter' = NoPass
  /\ UNCHANGED <<breaker, credits, known, cloud, push, elapsed, history>>

HeldBy(h, c) == IF Active(h) /\ push[h].caller = c THEN push[h].held ELSE 0
Held(c) == Cardinality(UNION {{h} \X (1 .. HeldBy(h, c)) : h \in Handler})

\* The broker dies and restarts; RunMeter measures from the restart.
Crash ==
  /\ Fault
  /\ breaker' = FreshBreaker
  /\ push' = [h \in Handler |-> Idle]
  /\ meter' = NoPass /\ elapsed' = 0
  /\ lost' = [c \in Caller |-> lost[c] + Held(c)]
  /\ UNCHANGED <<credits, known, cloud, fees, billed>>

MeterPass ==
  \/ MeterTick \/ MeterLists
  \/ \E m \in Machine : MeterGet(m)
  \/ MeterDebit \/ MeterStop \/ MeterDone

Next ==
  \/ \E c \in Caller : Provision(c)
  \/ \E h \in Handler :
       \/ \E c \in Caller : PushAllow(h, c)
       \/ PushRefused(h) \/ PushGet(h) \/ PushGetFails(h) \/ PushDebit(h) \/ Refund(h) \/ RefundFails(h)
       \/ \E b \in BOOLEAN : PushFails(h, b) \/ PushStarts(h, b)
       \/ \E m \in Machine, heard \in BOOLEAN : PushCreates(h, m, heard)
  \/ BreakerCools \/ TimePasses
  \/ MeterPass \/ ListFails \/ StopFails \/ MeterDebitFails
  \/ \E m \in Machine : MeterSkips(m)
  \/ Crash

Spec == Init /\ [][Next]_vars

MeterRuns == MeterPass \/ \E m \in Machine : owner[m] \notin known /\ MeterSkips(m)

\* Time passes and the loop's goroutine runs; the cloud and the store fail finitely often.
FairSpec == Spec /\ WF_vars(TimePasses) /\ WF_vars(MeterRuns)
-----------------------------------------------------------------------------
(* Properties.                                                             *)

\* The type of the state; nothing a pass records about a machine is negative.
TypeOK ==
  /\ breaker \in BreakerState
  /\ credits \in [Caller -> Int] /\ known \subseteq Caller
  /\ owner \in [Machine -> Caller \cup {NoOne}] /\ running \subseteq Machine
  /\ push \in [Handler -> Push \cup {Idle}]
  /\ meter \in Pass /\ elapsed \in Nat
  /\ fees \in [Caller -> Int] /\ billed \in [Caller -> Int] /\ lost \in [Caller -> Int]
  /\ faults \in Nat

\* Pushes and the meter draw on one balance without ever overdrawing it, although
\* both read it in an earlier transaction than they charge it (meter.go:53-66).
NoOverdraft == \A c \in Caller : credits[c] >= 0

\* What a caller was given is in its balance, reserved by a push, paid for pushes,
\* billed for running time, or stranded: by a crash, or by a refund the store dropped
\* although "a failed push never burns credit" (provision.go:470-471, 529, 537).
Conservation ==
  \A c \in Caller :
    credits[c] + Held(c) + fees[c] + billed[c] + lost[c] = IF c \in known THEN Seed ELSE 0

\* A push is paid for only when it left a machine behind (provision.go:470-471).
PaidForMachines ==
  \A c \in Caller : fees[c] <= PushCost * Cardinality({m \in Machine : owner[m] = c})

\* The money is gone: the machine is stopped, or money comes back, whatever passes
\* fail in between (meter.go:34-36, 67-72).
ExhaustedIsStopped ==
  \A m \in Machine, c \in Caller :
    (m \in running /\ owner[m] = c /\ c \in known /\ credits[c] = 0)
      ~> (m \notin running \/ credits[c] > 0)
=============================================================================
