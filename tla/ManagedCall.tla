---------------------------- MODULE ManagedCall ----------------------------
(***************************************************************************)
(* The broker's forward path, ServeHTTP of internal/broker/broker.go, for  *)
(* one managed app: every request passes the circuit breaker, the call     *)
(* quota and the credit ledger before the partner is called with the       *)
(* master key, and the outcome is recorded, refunded or settled after it.  *)
(*                                                                         *)
(* Each handler goroutine is a process; a step of it is one call on state  *)
(* another handler can see (the breaker's mutex, a store transaction), so  *)
(* TLC interleaves exactly what the locks of the code allow.  The store is *)
(* SQLite (BROKER_DB set): it survives a crash, the breaker does not.      *)
(***************************************************************************)
EXTENDS Breaker, Integers, FiniteSets

CONSTANTS
  Caller,        \* verified pilot identities
  Handler,       \* request goroutines that may run at the same time
  IP,            \* source addresses
  NoIP,          \* the address of a caller the ledger has not seen
  Mode,          \* "none", "fixed" or "response": the app's credit block
  Price,         \* what costForCall may answer
  Reported,      \* the partner-reported cost of a 2xx, in micro-dollars
  Seed,          \* creditSeed
  MaxPerIP,      \* creditMaxPerIP; 0 is unlimited
  Quota,         \* registry quota; 0 is unlimited
  MintCooldown,  \* whether creditMintCooldown > 0
  MaxCrashes     \* bound: how often the process may crash

ASSUME ManagedAssumption ==
  /\ NoIP \notin IP
  /\ Mode \in {"none", "fixed", "response"}
  /\ Price \subseteq Nat /\ Reported \subseteq Nat
  /\ Seed \in Nat /\ MaxPerIP \in Nat /\ Quota \in Nat /\ MaxCrashes \in Nat
  /\ MintCooldown \in BOOLEAN
  /\ IsFiniteSet(Caller) /\ IsFiniteSet(Handler)

VARIABLES
  breaker,    \* the current registry entry's breaker
  call,       \* call[h]: the request handler h is serving
  calls,      \* usage.calls: calls[c] admitted so far
  cents,      \* usage.cents: cents[c] reported so far
  home,       \* provision.ip: the address c was first seen from
  warm,       \* provision.last_mint: whether the mint cooldown has elapsed
  credits,    \* provision.credits
  \* History, read by no guard of the code:
  granted,    \* the seed c received
  kept,       \* what c paid for calls that succeeded
  lost,       \* what c had reserved when the process crashed or a refund failed
  absorbed,   \* what Settle's clamp did not charge c
  forwarded,  \* calls of c sent to the partner
  sinceOpen,  \* calls the breaker let through since it (re)opened
  crashes

store == <<calls, cents, home, warm, credits>>
history == <<granted, kept, lost, absorbed, forwarded, sinceOpen, crashes>>
vars == <<breaker, call, store, history>>

\* at: the next shared-state step; read: a balance request, not a call;
\* held: debited and not yet kept or refunded; cost: what the partner reported;
\* stale: the registry was swapped, so Record goes to a breaker nobody reads;
\* trial: the breaker was open when Allow let it through.
Point == {"idle", "quota", "get", "seed", "zero", "charge", "send",
          "refund", "addcost", "settle"}

Request == [at : Point, caller : Caller, ip : IP, read : BOOLEAN, price : Price \cup {0},
            held : Nat, cost : Nat, stale : BOOLEAN, trial : BOOLEAN]

Idle == [at |-> "idle"]

Active(h) == call[h].at # "idle"
At(h, p) == call[h].at = p

Goto(h, p) ==
  call' = [call EXCEPT ![h] = IF p = "idle" THEN Idle ELSE [@ EXCEPT !.at = p]]

Init ==
  /\ breaker = FreshBreaker
  /\ call = [h \in Handler |-> Idle]
  /\ calls = [c \in Caller |-> 0]
  /\ cents = [c \in Caller |-> 0]
  /\ home = [c \in Caller |-> NoIP]
  /\ warm = [c \in Caller |-> FALSE]
  /\ credits = [c \in Caller |-> 0]
  /\ granted = [c \in Caller |-> 0]
  /\ kept = [c \in Caller |-> 0]
  /\ lost = [c \in Caller |-> 0]
  /\ absorbed = [c \in Caller |-> 0]
  /\ forwarded = [c \in Caller |-> 0]
  /\ sinceOpen = 0
  /\ crashes = 0
-----------------------------------------------------------------------------
(* Before the partner is called.                                           *)

NewRequest(c, ip, read, price, p) ==
  [at |-> p, caller |-> c, ip |-> ip, read |-> read, price |-> price,
   held |-> 0, cost |-> 0, stale |-> FALSE, trial |-> ~read /\ breaker.open]

\* breaker.Allow: a refused call is answered 503 and leaves no trace.
Allow(h, c, ip, price) ==
  /\ ~Active(h)
  /\ Allows(breaker)
  /\ breaker' = AfterAllow(breaker)
  /\ call' = [call EXCEPT ![h] = NewRequest(c, ip, FALSE, price, "quota")]
  /\ sinceOpen' = IF breaker.open THEN sinceOpen + 1 ELSE 0
  /\ UNCHANGED <<store, granted, kept, lost, absorbed, forwarded, crashes>>

\* Store.Admit: check and count in one transaction.
Admit(h) ==
  /\ At(h, "quota")
  /\ LET c == call[h].caller
     IN  IF Quota > 0 /\ calls[c] >= Quota
         THEN Goto(h, "idle") /\ UNCHANGED calls
         ELSE /\ Goto(h, IF Mode = "none" THEN "send" ELSE "seed")
              /\ calls' = [calls EXCEPT ![c] = @ + 1]
  /\ UNCHANGED <<breaker, cents, home, warm, credits, history>>

\* serveCreditBalance: a known caller is answered from Get, a new one is seeded.
BalanceRead(h, c, ip) ==
  /\ ~Active(h)
  /\ Mode # "none"
  /\ call' = [call EXCEPT ![h] = NewRequest(c, ip, TRUE, 0, "get")]
  /\ UNCHANGED <<breaker, store, history>>

BalanceGet(h) ==
  /\ At(h, "get")
  /\ Goto(h, IF home[call[h].caller] = NoIP THEN "seed" ELSE "idle")
  /\ UNCHANGED <<breaker, store, history>>

Seen(c) == home[c] # NoIP
SeenFrom(ip) == {c \in Caller : home[c] = ip}

\* Where a request goes once its caller is in the ledger.
AfterSeed(h) == Goto(h, IF call[h].read THEN "idle" ELSE "charge")

\* Mutant: a repeat call tops the budget up.
RefreshAndSeed(h) ==
  /\ warm' = [warm EXCEPT ![call[h].caller] = FALSE]
  /\ credits' = [credits EXCEPT ![call[h].caller] = @ + Seed]
  /\ granted' = [granted EXCEPT ![call[h].caller] = @ + Seed]
  /\ AfterSeed(h)
  /\ UNCHANGED home

\* Provision of a known caller: last_mint is refreshed, nothing is granted.
Refresh(h) ==
  /\ warm' = [warm EXCEPT ![call[h].caller] = FALSE]
  /\ AfterSeed(h)
  /\ UNCHANGED <<home, credits, granted>>

\* Provision of a new caller with a seed of n.
Insert(h, n) ==
  LET c == call[h].caller
  IN  /\ home' = [home EXCEPT ![c] = call[h].ip]
      /\ warm' = [warm EXCEPT ![c] = FALSE]
      /\ credits' = [credits EXCEPT ![c] = n]
      /\ granted' = [granted EXCEPT ![c] = n]
      /\ AfterSeed(h)

\* seedCaller's first Provision, with the seed, the cap and the cooldown.
Provision(h) ==
  /\ At(h, "seed")
  /\ LET c == call[h].caller
         capped == MaxPerIP > 0 /\ Cardinality(SeenFrom(call[h].ip)) >= MaxPerIP
     IN  \/ /\ Seen(c) /\ MintCooldown /\ ~warm[c]
            /\ Goto(h, "idle")
            /\ UNCHANGED <<home, warm, credits, granted>>
         \/ /\ Seen(c) /\ (MintCooldown => warm[c])
            /\ Refresh(h)
         \/ /\ ~Seen(c) /\ ~capped
            /\ Insert(h, Seed)
         \/ /\ ~Seen(c) /\ capped
            /\ Goto(h, "zero")
            /\ UNCHANGED <<home, warm, credits, granted>>
  /\ UNCHANGED <<breaker, calls, cents, kept, lost, absorbed, forwarded, sinceOpen, crashes>>

\* Mutants: the second Provision passes the seed; the refusal is retried.
ProvisionZeroSeeded(h) ==
  /\ At(h, "zero")
  /\ \/ Seen(call[h].caller) /\ Refresh(h)
     \/ ~Seen(call[h].caller) /\ Insert(h, Seed)
  /\ UNCHANGED <<breaker, calls, cents, kept, lost, absorbed, forwarded, sinceOpen, crashes>>

ProvisionZeroRetried(h) ==
  /\ At(h, "zero")
  /\ Goto(h, "seed")
  /\ UNCHANGED <<breaker, store, history>>

\* ErrIPCap: a second Provision, in its own transaction, with seed 0 and no
\* cap or cooldown.  Another handler may have inserted the caller meanwhile.
ProvisionZero(h) ==
  /\ At(h, "zero")
  /\ \/ Seen(call[h].caller) /\ Refresh(h)
     \/ ~Seen(call[h].caller) /\ Insert(h, 0)
  /\ UNCHANGED <<breaker, calls, cents, kept, lost, absorbed, forwarded, sinceOpen, crashes>>

\* Mutant: the balance is not looked at.
ChargeUnchecked(h) ==
  /\ At(h, "charge")
  /\ LET c == call[h].caller
         p == call[h].price
     IN  \/ /\ Mode = "fixed"
            /\ credits' = [credits EXCEPT ![c] = @ - p]
            /\ call' = [call EXCEPT ![h].at = "send", ![h].held = p]
         \/ /\ Mode = "response"
            /\ Goto(h, "send") /\ UNCHANGED credits
  /\ UNCHANGED <<breaker, calls, cents, home, warm, history>>

\* Fixed mode debits the price; response mode only asks whether a billable
\* call finds any budget left.  Refusals are answered 402.
Charge(h) ==
  /\ At(h, "charge")
  /\ LET c == call[h].caller
         p == call[h].price
     IN  \/ /\ Mode = "fixed" /\ credits[c] >= p
            /\ credits' = [credits EXCEPT ![c] = @ - p]
            /\ call' = [call EXCEPT ![h].at = "send", ![h].held = p]
         \/ /\ Mode = "fixed" /\ credits[c] < p
            /\ Goto(h, "idle") /\ UNCHANGED credits
         \/ /\ Mode = "response"
            /\ Goto(h, IF p > 0 /\ credits[c] <= 0 THEN "idle" ELSE "send")
            /\ UNCHANGED credits
  /\ UNCHANGED <<breaker, calls, cents, home, warm, history>>

\* A store error before the call is sent: 429 from Admit, 500 elsewhere.
StoreFails(h) ==
  /\ call[h].at \in {"quota", "get", "seed", "zero", "charge"}
  /\ Goto(h, "idle")
  /\ UNCHANGED <<breaker, store, history>>
-----------------------------------------------------------------------------
(* The partner call and what follows it.                                   *)

\* breaker.Record, by a call admitted under the current registry or not.
Record(h, success) ==
  /\ breaker' = IF call[h].stale THEN breaker ELSE AfterRecord(breaker, success)
  /\ sinceOpen' = IF call[h].stale THEN sinceOpen ELSE 0

AfterFailedCall(h) == Goto(h, IF call[h].held > 0 THEN "refund" ELSE "idle")

\* Mutant: the early return forgets refundCredit.
BuildFailsKeepsDebit(h) ==
  /\ At(h, "send")
  /\ Goto(h, "idle")
  /\ UNCHANGED <<breaker, store, history>>

\* http.NewRequest rejects the URL: refunded, but the breaker is not told.
BuildFails(h) ==
  /\ At(h, "send")
  /\ AfterFailedCall(h)
  /\ UNCHANGED <<breaker, store, history>>

\* Client.Do fails or the partner answers a status outside 2xx; only an error
\* or a 5xx is a failure to the breaker.
CallFails(h, success) ==
  /\ At(h, "send")
  /\ Record(h, success)
  /\ AfterFailedCall(h)
  /\ forwarded' = [forwarded EXCEPT ![call[h].caller] = @ + 1]
  /\ UNCHANGED <<store, granted, kept, lost, absorbed, crashes>>

\* A 2xx keeps the debit; cost is what extractCost finds in its body.
CallSucceeds(h, cost) ==
  /\ At(h, "send")
  /\ Record(h, TRUE)
  /\ LET c == call[h].caller
     IN  /\ forwarded' = [forwarded EXCEPT ![c] = @ + 1]
         /\ kept' = [kept EXCEPT ![c] = @ + call[h].held]
  /\ call' = [call EXCEPT ![h] =
                IF cost = 0 THEN Idle
                ELSE [@ EXCEPT !.at = "addcost", !.held = 0, !.cost = cost]]
  /\ UNCHANGED <<store, granted, lost, absorbed, crashes>>

\* Mutant: the refund restores the seed instead of this call's debit.
RefundToSeed(h) ==
  /\ At(h, "refund")
  /\ credits' = [credits EXCEPT ![call[h].caller] = granted[call[h].caller]]
  /\ Goto(h, "idle")
  /\ UNCHANGED <<breaker, calls, cents, home, warm, history>>

\* refundCredit: Store.Refund of what this call debited.
Refund(h) ==
  /\ At(h, "refund")
  /\ credits' = [credits EXCEPT ![call[h].caller] = @ + call[h].held]
  /\ Goto(h, "idle")
  /\ UNCHANGED <<breaker, calls, cents, home, warm, history>>

AfterAddCost(h) == Goto(h, IF Mode = "response" /\ call[h].price > 0 THEN "settle" ELSE "idle")

AddCost(h) ==
  /\ At(h, "addcost")
  /\ cents' = [cents EXCEPT ![call[h].caller] = @ + call[h].cost]
  /\ AfterAddCost(h)
  /\ UNCHANGED <<breaker, calls, home, warm, credits, history>>

\* Mutant: Settle refuses like Debit when the balance is short.
SettleOrNothing(h) ==
  /\ At(h, "settle")
  /\ LET c == call[h].caller
         charge == IF call[h].cost > credits[c] THEN 0 ELSE call[h].cost
     IN  /\ credits' = [credits EXCEPT ![c] = @ - charge]
         /\ kept' = [kept EXCEPT ![c] = @ + charge]
         /\ absorbed' = [absorbed EXCEPT ![c] = @ + call[h].cost - charge]
  /\ Goto(h, "idle")
  /\ UNCHANGED <<breaker, calls, cents, home, warm, granted, lost, forwarded, sinceOpen, crashes>>

\* Settle charges what the partner reported, clamped to the balance.
Settle(h) ==
  /\ At(h, "settle")
  /\ LET c == call[h].caller
         charge == IF call[h].cost > credits[c] THEN credits[c] ELSE call[h].cost
     IN  /\ credits' = [credits EXCEPT ![c] = @ - charge]
         /\ kept' = [kept EXCEPT ![c] = @ + charge]
         /\ absorbed' = [absorbed EXCEPT ![c] = @ + call[h].cost - charge]
  /\ Goto(h, "idle")
  /\ UNCHANGED <<breaker, calls, cents, home, warm, granted, lost, forwarded, sinceOpen, crashes>>
\* Refund and AddCost answer no error and Settle's is ignored: whatever a failing
\* one should have written is never written.
LateStoreFails(h) ==
  /\ \/ /\ At(h, "refund")
        /\ lost' = [lost EXCEPT ![call[h].caller] = @ + call[h].held]
        /\ Goto(h, "idle")
     \/ At(h, "addcost") /\ AfterAddCost(h) /\ UNCHANGED lost
     \/ At(h, "settle") /\ Goto(h, "idle") /\ UNCHANGED lost
  /\ UNCHANGED <<breaker, store, granted, kept, absorbed, forwarded, sinceOpen, crashes>>
-----------------------------------------------------------------------------
(* What happens around the handlers.                                       *)

BreakerCools ==
  /\ CanCool(breaker)
  /\ breaker' = Cools(breaker)
  /\ UNCHANGED <<call, store, history>>

MintCools(c) ==
  /\ MintCooldown /\ Seen(c) /\ ~warm[c]
  /\ warm' = [warm EXCEPT ![c] = TRUE]
  /\ UNCHANGED <<breaker, call, calls, cents, home, credits, history>>

\* SIGHUP: SetRegistry swaps in entries with new breakers; requests under way
\* keep the entry, and so the breaker, they started with.
Reload ==
  /\ breaker' = FreshBreaker
  /\ call' = [h \in Handler |-> IF Active(h) THEN [call[h] EXCEPT !.stale = TRUE] ELSE Idle]
  /\ sinceOpen' = 0
  /\ UNCHANGED <<store, granted, kept, lost, absorbed, forwarded, crashes>>

\* What h has reserved of c's budget, and what all calls have, as sets of units.
HeldBy(h, c) == IF Active(h) /\ call[h].caller = c THEN call[h].held ELSE 0
Reserved(c) == UNION {{h} \X (1 .. HeldBy(h, c)) : h \in Handler}
Held(c) == Cardinality(Reserved(c))

\* The process dies and restarts on the same database.
Crash ==
  /\ crashes < MaxCrashes
  /\ crashes' = crashes + 1
  /\ breaker' = FreshBreaker
  /\ call' = [h \in Handler |-> Idle]
  /\ lost' = [c \in Caller |-> lost[c] + Held(c)]
  /\ sinceOpen' = 0
  /\ UNCHANGED <<store, granted, kept, absorbed, forwarded>>

Arrive(h) ==
  \E c \in Caller, ip \in IP :
    BalanceRead(h, c, ip) \/ \E price \in Price : Allow(h, c, ip, price)

Serve(h) ==
  \/ Admit(h) \/ BalanceGet(h) \/ Provision(h) \/ ProvisionZero(h)
  \/ Charge(h) \/ StoreFails(h)
  \/ BuildFails(h)
  \/ \E success \in BOOLEAN : CallFails(h, success)
  \/ \E cost \in Reported : CallSucceeds(h, cost)
  \/ Refund(h) \/ AddCost(h) \/ Settle(h) \/ LateStoreFails(h)

Next ==
  \/ \E h \in Handler : Arrive(h) \/ Serve(h)
  \/ \E c \in Caller : MintCools(c)
  \/ BreakerCools \/ Reload \/ Crash

Spec == Init /\ [][Next]_vars

\* A goroutine that has work does it, and TimeoutMs bounds the partner's
\* answer; requests, cooldowns, reloads and crashes are never forced.
FairSpec == Spec /\ \A h \in Handler : WF_vars(Serve(h))
-----------------------------------------------------------------------------
(* Properties.                                                             *)

\* The type of the state; grants are all or nothing.
TypeOK ==
  /\ breaker \in BreakerState
  /\ call \in [Handler -> Request \cup {Idle}]
  /\ calls \in [Caller -> Nat] /\ cents \in [Caller -> Nat]
  /\ home \in [Caller -> IP \cup {NoIP}] /\ warm \in [Caller -> BOOLEAN]
  /\ credits \in [Caller -> Int]
  /\ granted \in [Caller -> {0, Seed}]
  /\ kept \in [Caller -> Int] /\ lost \in [Caller -> Int] /\ absorbed \in [Caller -> Int]
  /\ forwarded \in [Caller -> Nat]
  /\ sinceOpen \in Nat /\ crashes \in Nat

\* Every micro-dollar granted is in the balance, reserved by a call under way,
\* paid for a call that succeeded, or stranded by a crash or a failed refund
\* (broker.go:402-408: a failed call is refunded exactly what it debited).
Conservation ==
  \A c \in Caller : credits[c] + Held(c) + kept[c] + lost[c] = granted[c]

\* Concurrent debits and settlements never drive a balance below zero
\* (store.go:29, 46-48, 56-62).
NoOverdraft == \A c \in Caller : credits[c] >= 0

\* One source address never yields more than MaxPerIP budgets, however the two
\* Provision transactions of seedCaller interleave (broker.go:199-221).
GrantCap ==
  MaxPerIP > 0 =>
    \A ip \in IP : Cardinality({c \in SeenFrom(ip) : granted[c] > 0}) <= MaxPerIP

\* The partner is never called more often for one caller than the quota, counted
\* where it hurts and not where it is checked (broker.go:330-335, store.go:15-17).
ForwardsWithinQuota == Quota > 0 => \A c \in Caller : forwarded[c] <= Quota

\* While open, the breaker lets at most one call through per cooldown, even when
\* calls from before it opened report late (breaker.go:44-51, 68-73).
OneTrialPerCooldown == breaker.open => sinceOpen <= 1

\* Response mode: Settle charges less than was reported only when that takes the
\* caller's last credit, and nothing gives credit back afterwards (broker.go:447-455).
AbsorbedOnlyWhenExhausted ==
  Mode = "response" => \A c \in Caller : absorbed[c] > 0 => credits[c] = 0

\* Response mode admits on a positive balance and charges after the fact, so the
\* calls already past the check overshoot it, and no others: what Settle cannot
\* charge is at most one dearest call per handler (broker.go:365-384).
OvershootBounded ==
  Mode = "response" =>
    \A c \in Caller : \E most \in Reported : absorbed[c] <= Cardinality(Handler) * most

\* Once the ledger knows a caller its grant and its address are final: no repeat
\* call, cooldown, crash or reload seeds it again (store.go:31-33, broker.go:207-208).
GrantIsFinal ==
  [][\A c \in Caller : Seen(c) => granted'[c] = granted[c] /\ home'[c] = home[c]]_vars

\* Seen from outside, balance plus reservations is a purse that is granted once
\* and drained by one successful call at a time.
Ledger == INSTANCE CreditLedger WITH
            purse    <- [c \in Caller |-> credits[c] + Held(c)],
            seeded   <- {c \in Caller : Seen(c)},
            restarts <- crashes
ImplementsLedger == Ledger!Spec

\* Every request that gets in is answered, whichever way its steps interleave with
\* other handlers, reloads and crashes (broker.go:224-484 has no wait but the partner's).
EveryRequestAnswered == \A h \in Handler : Active(h) ~> ~Active(h)

\* breaker.go:23: "a single half-open trial call is in flight" while probing is set.
ProbingMeansTrialInFlight ==
  breaker.probing => \E h \in Handler : Active(h) /\ call[h].trial /\ ~call[h].stale
=============================================================================
