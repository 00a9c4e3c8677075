--------------------------- MODULE MeteringProofs ---------------------------
(***************************************************************************)
(* Theorems about Metering, for every set of callers, handlers and         *)
(* machines, every seed, price and rate, and any number of faults.         *)
(***************************************************************************)
EXTENDS Metering, FiniteSetTheorems, TLAPS

\* The units of credit that pushes under way hold are finitely many, and change by
\* what the one push that moves changes (sums are cardinalities, so no induction).
LEMMA UnitsOfOne ==
  ASSUME NEW h, NEW n \in Nat
  PROVE  IsFiniteSet({h} \X (1 .. n)) /\ Cardinality({h} \X (1 .. n)) = n
<1>1. IsFiniteSet({h}) /\ Cardinality({h}) = 1
  BY FS_Singleton
<1>2. IsFiniteSet(1 .. n) /\ Cardinality(1 .. n) = n
  BY FS_Interval
<1> DEFINE S == {h}
           T == 1 .. n
<1> HIDE DEF S, T
<1>3. IsFiniteSet(S) /\ IsFiniteSet(T) /\ Cardinality(S) = 1 /\ Cardinality(T) = n
  BY <1>1, <1>2 DEF S, T
<1>4. IsFiniteSet(S \X T) /\ Cardinality(S \X T) = Cardinality(S) * Cardinality(T)
  BY <1>3, FS_Product
<1>5. QED
  BY <1>3, <1>4 DEF S, T

\* Finitely many elements, each with a count, make finitely many units: what Held counts.
LEMMA UnitsFinite ==
  ASSUME NEW S, IsFiniteSet(S), NEW f \in [S -> Nat]
  PROVE  IsFiniteSet(UNION {{s} \X (1 .. f[s]) : s \in S})
<1> DEFINE T == {{s} \X (1 .. f[s]) : s \in S}
           g == [s \in S |-> {s} \X (1 .. f[s])]
<1>1. g \in Surjection(S, T)
  BY DEF Surjection
<1>2. IsFiniteSet(T)
  BY <1>1, FS_Surjection
<1>3. ASSUME NEW s \in S PROVE IsFiniteSet({s} \X (1 .. f[s]))
  <2>1. f[s] \in Nat
    OBVIOUS
  <2>2. QED
    BY <2>1, UnitsOfOne
<1>4. QED
  BY <1>2, <1>3, FS_UNION

\* The sum of f when only one of its values changes.
LEMMA UnitsChange ==
  ASSUME NEW S, IsFiniteSet(S), NEW f \in [S -> Nat], NEW g \in [S -> Nat], NEW x \in S,
         \A s \in S \ {x} : f[s] = g[s]
  PROVE  Cardinality(UNION {{s} \X (1 .. g[s]) : s \in S})
           = Cardinality(UNION {{s} \X (1 .. f[s]) : s \in S}) - f[x] + g[x]
<1> DEFINE U(h) == UNION {{s} \X (1 .. h[s]) : s \in S}
           Rest(h) == UNION {{s} \X (1 .. h[s]) : s \in S \ {x}}
           One(h) == {x} \X (1 .. h[x])
<1>1. Rest(f) = Rest(g)
  OBVIOUS
<1>2. ASSUME NEW h \in [S -> Nat]
      PROVE  Cardinality(U(h)) = Cardinality(Rest(h)) + h[x] /\ Cardinality(Rest(h)) \in Nat
  <2>1. U(h) = Rest(h) \cup One(h)
    OBVIOUS
  <2>2. Rest(h) \cap One(h) = {}
    OBVIOUS
  <2>3. IsFiniteSet(U(h))
    BY UnitsFinite
  <2>4. IsFiniteSet(Rest(h))
    BY <2>1, <2>3, FS_Subset
  <2>5. h[x] \in Nat
    OBVIOUS
  <2>6. IsFiniteSet(One(h)) /\ Cardinality(One(h)) = h[x]
    BY <2>5, UnitsOfOne
  <2> HIDE DEF U, Rest, One
  <2>7. Cardinality(Rest(h)) \in Nat
    BY <2>4, FS_CardinalityType
  <2>8. Cardinality(Rest(h) \cap One(h)) = 0
    BY <2>2, FS_EmptySet
  <2>9. Cardinality(U(h)) = Cardinality(Rest(h)) + Cardinality(One(h)) - 0
    BY <2>1, <2>4, <2>6, <2>8, FS_Union
  <2>10. QED
    BY <2>5, <2>6, <2>7, <2>9
<1>3. f[x] \in Nat /\ g[x] \in Nat
  OBVIOUS
<1> SUFFICES Cardinality(U(g)) = Cardinality(U(f)) - f[x] + g[x]
  OBVIOUS
<1> HIDE DEF U, Rest
<1>4. QED
  BY <1>1, <1>2, <1>3

(***************************************************************************)
(* The invariant.                                                          *)
(***************************************************************************)
\* A fee is reserved only between the debit and the end of the push, and is the fee.
HeldIsFee ==
  \A h \in Handler : Active(h) =>
    /\ push[h].held \in {0, PushCost}
    /\ push[h].at \in {"get", "debit"} => push[h].held = 0

\* A caller with no row has no credit, and none of its pushes has reserved any.
UnseenIsPoor ==
  /\ \A c \in Caller \ known : credits[c] = 0
  /\ \A h \in Handler : Active(h) /\ push[h].held > 0 => push[h].caller \in known

\* What the pass is about to charge is within what it read, and its machine is owned.
ChargeCovered ==
  meter.at = "debit" => /\ meter.charge <= meter.bal
                        /\ \A m \in meter.on : owner[m] \in Caller

LedgerInv ==
  /\ TypeOK /\ NoOverdraft /\ Conservation
  /\ HeldIsFee /\ UnseenIsPoor /\ ChargeCovered

\* The fields of a push and their types.
LEMMA PushFields ==
  ASSUME NEW r \in Push
  PROVE  r.at \in PushPoint /\ r.caller \in Caller /\ r.held \in Nat /\ r.made \subseteq Machine
  BY DEF Push

\* An active handler serves a push.
LEMMA ActivePush == ASSUME TypeOK, NEW h \in Handler, Active(h) PROVE push[h] \in Push
  BY DEF TypeOK, Active, Idle

\* What each handler holds of a caller's credits is a natural number.
LEMMA HeldByType ==
  ASSUME TypeOK, NEW c \in Caller
  PROVE  [h \in Handler |-> HeldBy(h, c)] \in [Handler -> Nat]
<1> SUFFICES ASSUME NEW h \in Handler PROVE HeldBy(h, c) \in Nat
  OBVIOUS
<1> QED
  BY ActivePush, PushFields DEF HeldBy

\* So the sum over the handlers is one too.
LEMMA HeldType == ASSUME TypeOK, NEW c \in Caller PROVE Held(c) \in Nat
<1> DEFINE f == [h \in Handler |-> HeldBy(h, c)]
           U == UNION {{h} \X (1 .. f[h]) : h \in Handler}
<1>1. Held(c) = Cardinality(U)
  BY DEF Held
<1>2. f \in [Handler -> Nat]
  BY HeldByType
<1> HIDE DEF f
<1>3. IsFiniteSet(U)
  BY <1>2, UnitsFinite, MeteringAssumption
<1> QED
  BY <1>1, <1>3, FS_CardinalityType

\* What the pushes of a caller hold changes by what the push that moves changes.
LEMMA HeldChange ==
  ASSUME TypeOK, TypeOK', NEW h \in Handler, NEW c \in Caller,
         \A g \in Handler \ {h} : push'[g] = push[g]
  PROVE  Held(c)' = Held(c) - HeldBy(h, c) + HeldBy(h, c)'
<1> DEFINE f == [g \in Handler |-> HeldBy(g, c)]
           k == [g \in Handler |-> HeldBy(g, c)']
<1>1. f \in [Handler -> Nat]
  BY HeldByType
<1>2. k \in [Handler -> Nat]
  <2> SUFFICES ASSUME NEW g \in Handler PROVE HeldBy(g, c)' \in Nat
    OBVIOUS
  <2>1. Active(g)' => push'[g] \in Push
    BY DEF TypeOK, Active, Idle
  <2> QED
    BY <2>1, PushFields DEF HeldBy
<1>3. \A g \in Handler \ {h} : f[g] = k[g]
  BY DEF HeldBy, Active
<1>4. Held(c) = Cardinality(UNION {{g} \X (1 .. f[g]) : g \in Handler})
  BY DEF Held
<1>5. Held(c)' = Cardinality(UNION {{g} \X (1 .. k[g]) : g \in Handler})
  BY DEF Held
<1>6. f[h] = HeldBy(h, c) /\ k[h] = HeldBy(h, c)'
  OBVIOUS
<1> HIDE DEF f, k
<1> QED
  BY <1>1, <1>2, <1>3, <1>4, <1>5, <1>6, UnitsChange, MeteringAssumption

\* When the pushes do not change, neither does what they hold.
LEMMA HeldSame == ASSUME push' = push, NEW c \in Caller PROVE Held(c)' = Held(c)
  BY DEF Held, HeldBy, Active

\* When every share is zero, so is the sum.
LEMMA HeldNone ==
  ASSUME NEW c \in Caller, \A h \in Handler : HeldBy(h, c) = 0
  PROVE  Held(c) = 0
<1>1. \A h \in Handler : {h} \X (1 .. HeldBy(h, c)) = {}
  OBVIOUS
<1>2. UNION {{h} \X (1 .. HeldBy(h, c)) : h \in Handler} = {}
  BY <1>1
<1> QED
  BY <1>2, FS_EmptySet DEF Held

\* Each of the breaker's operations returns a state of the breaker.
LEMMA BreakerTyped ==
  ASSUME breaker \in BreakerState, NEW success \in BOOLEAN
  PROVE  /\ AfterAllow(breaker) \in BreakerState /\ AfterRecord(breaker, success) \in BreakerState
         /\ FreshBreaker \in BreakerState /\ Cools(breaker) \in BreakerState
<1>1. AfterAllow(breaker) \in BreakerState
  BY DEF AfterAllow, BreakerState
<1>2. FreshBreaker \in BreakerState
  BY DEF FreshBreaker, BreakerState
<1>3. AfterFailure(breaker) \in BreakerState
  BY DEF AfterFailure, BreakerState
<1>4. AfterRecord(breaker, success) \in BreakerState
  BY <1>2, <1>3 DEF AfterRecord, AfterSuccess
<1>5. Cools(breaker) \in BreakerState
  BY DEF Cools, BreakerState
<1> QED
  BY <1>1, <1>2, <1>4, <1>5

\* A step of one push that moves no credit it did not reserve: the changes of the balance
\* and of the fees of its caller are those of what it holds.
PushMoves(h, c) ==
  credits[c]' + fees[c]' + HeldBy(h, c)' = credits[c] + fees[c] + HeldBy(h, c)

\* The ledger's invariant holds at the start.
LEMMA LedgerInit == Init => LedgerInv
<1> SUFFICES ASSUME Init PROVE LedgerInv
  OBVIOUS
<1>1. TypeOK
  BY MeteringAssumption DEF Init, TypeOK, FreshBreaker, BreakerState, Idle, NoPass, Pass, MeterPoint
<1>2. \A h \in Handler : ~Active(h)
  BY DEF Init, Active, Idle
<1>3. ASSUME NEW c \in Caller PROVE Held(c) = 0
  BY <1>2, HeldNone DEF HeldBy
<1>4. Conservation
  BY <1>3 DEF Init, Conservation
<1> QED
  BY <1>1, <1>2, <1>4 DEF Init, LedgerInv, NoOverdraft, HeldIsFee, UnseenIsPoor, ChargeCovered, NoPass

\* A push step of handler h, given its effect on its own record.
LEMMA PushStep ==
  ASSUME LedgerInv, NEW h \in Handler,
         push' \in [Handler -> Push \cup {Idle}],
         \A g \in Handler \ {h} : push'[g] = push[g],
         breaker' \in BreakerState,
         credits' \in [Caller -> Int], fees' \in [Caller -> Int],
         owner' \in [Machine -> Caller \cup {NoOne}],
         \A m \in Machine : owner[m] \in Caller => owner'[m] = owner[m],
         running' \subseteq Machine, faults' \in Nat,
         UNCHANGED <<known, meter, elapsed, billed, lost>>,
         \A c \in Caller : credits'[c] >= 0,
         \A c \in Caller : PushMoves(h, c),
         \A c \in Caller \ known : credits'[c] = 0,
         Active(h)' => /\ push'[h].held \in {0, PushCost}
                       /\ push'[h].at \in {"get", "debit"} => push'[h].held = 0
                       /\ push'[h].held > 0 => push'[h].caller \in known
  PROVE  LedgerInv'
<1>1. TypeOK'
  BY DEF LedgerInv, TypeOK
<1>2. NoOverdraft'
  BY DEF NoOverdraft
<1>3. Conservation'
  <2> SUFFICES ASSUME NEW c \in Caller
               PROVE  credits'[c] + Held(c)' + fees'[c] + billed'[c] + lost'[c]
                        = IF c \in known' THEN Seed ELSE 0
    BY DEF Conservation
  <2>1. Held(c)' = Held(c) - HeldBy(h, c) + HeldBy(h, c)'
    BY <1>1, HeldChange DEF LedgerInv
  <2>2. credits[c] + Held(c) + fees[c] + billed[c] + lost[c] = IF c \in known THEN Seed ELSE 0
    BY DEF LedgerInv, Conservation
  <2>3. Held(c) \in Nat
    BY HeldType DEF LedgerInv
  <2>4. HeldBy(h, c) \in Nat
    BY ActivePush, PushFields DEF LedgerInv, HeldBy
  <2>5. HeldBy(h, c)' \in Nat
    <3>1. Active(h)' => push'[h] \in Push
      BY DEF Active, Idle
    <3> QED
      BY <3>1, PushFields DEF HeldBy
  <2>6. credits'[c] + fees'[c] + HeldBy(h, c)' = credits[c] + fees[c] + HeldBy(h, c)
    BY DEF PushMoves
  <2>7. /\ credits[c] \in Int /\ fees[c] \in Int /\ billed[c] \in Int /\ lost[c] \in Int
        /\ credits'[c] \in Int /\ fees'[c] \in Int
    BY DEF LedgerInv, TypeOK
  <2> HIDE DEF HeldBy
  <2> QED
    BY <2>1, <2>2, <2>3, <2>4, <2>5, <2>6, <2>7
<1>4. HeldIsFee'
  BY DEF LedgerInv, HeldIsFee, Active
<1>5. UnseenIsPoor'
  BY DEF LedgerInv, UnseenIsPoor, Active
<1>6. ChargeCovered'
  BY DEF LedgerInv, TypeOK, Pass, ChargeCovered
<1> QED
  BY <1>1, <1>2, <1>3, <1>4, <1>5, <1>6 DEF LedgerInv

\* A step that moves no push and no credit of pushes.
LEMMA OtherStep ==
  ASSUME LedgerInv, UNCHANGED <<push, fees, lost>>,
         breaker' \in BreakerState,
         credits' \in [Caller -> Int], billed' \in [Caller -> Int],
         running' \subseteq Machine, owner' = owner, faults' \in Nat, elapsed' \in Nat,
         meter' \in Pass, ChargeCovered', known \subseteq known', known' \subseteq Caller,
         \A c \in Caller : credits'[c] >= 0,
         \A c \in Caller \ known' : credits'[c] = 0,
         \A c \in Caller : credits'[c] + billed'[c] - (credits[c] + billed[c])
                             = IF c \in known' \ known THEN Seed ELSE 0
  PROVE  LedgerInv'
<1>1. TypeOK'
  BY DEF LedgerInv, TypeOK
<1>2. NoOverdraft'
  BY DEF NoOverdraft
<1>3. Conservation'
  <2> SUFFICES ASSUME NEW c \in Caller
               PROVE  credits'[c] + Held(c)' + fees'[c] + billed'[c] + lost'[c]
                        = IF c \in known' THEN Seed ELSE 0
    BY DEF Conservation
  <2>1. Held(c)' = Held(c)
    BY HeldSame
  <2>2. credits[c] + Held(c) + fees[c] + billed[c] + lost[c] = IF c \in known THEN Seed ELSE 0
    BY DEF LedgerInv, Conservation
  <2>3. Held(c) \in Nat
    BY HeldType DEF LedgerInv
  <2>4. /\ credits[c] \in Int /\ fees[c] \in Int /\ billed[c] \in Int /\ lost[c] \in Int
        /\ credits'[c] \in Int /\ billed'[c] \in Int /\ Seed \in Nat
    BY MeteringAssumption DEF LedgerInv, TypeOK
  <2> QED
    BY <2>1, <2>2, <2>3, <2>4
<1>4. HeldIsFee' /\ UnseenIsPoor'
  BY DEF LedgerInv, HeldIsFee, UnseenIsPoor, Active
<1> QED
  BY <1>1, <1>2, <1>3, <1>4 DEF LedgerInv

\* Each action keeps the ledger: first those of a push.
LEMMA PushSteps ==
  ASSUME LedgerInv, NEW h \in Handler,
         \/ \E c \in Caller : PushAllow(h, c)
         \/ PushRefused(h) \/ PushGet(h) \/ PushGetFails(h) \/ PushDebit(h) \/ Refund(h)
         \/ \E b \in BOOLEAN : PushFails(h, b) \/ PushStarts(h, b)
         \/ \E m \in Machine, heard \in BOOLEAN : PushCreates(h, m, heard)
  PROVE  LedgerInv'
<1>1. /\ push \in [Handler -> Push \cup {Idle}] /\ breaker \in BreakerState
      /\ credits \in [Caller -> Int] /\ fees \in [Caller -> Int]
      /\ owner \in [Machine -> Caller \cup {NoOne}] /\ running \subseteq Machine
      /\ faults \in Nat /\ known \subseteq Caller
      /\ \A c \in Caller : credits[c] >= 0 /\ (c \notin known => credits[c] = 0)
  BY DEF LedgerInv, TypeOK, NoOverdraft, UnseenIsPoor
<1>2. Active(h) => /\ push[h] \in Push /\ push[h].held \in {0, PushCost}
                   /\ push[h].at \in {"get", "debit"} => push[h].held = 0
                   /\ push[h].held > 0 => push[h].caller \in known
  BY ActivePush DEF LedgerInv, HeldIsFee, UnseenIsPoor
<1>3. /\ AfterAllow(breaker) \in BreakerState
      /\ \A b \in BOOLEAN : AfterRecord(breaker, b) \in BreakerState
  BY <1>1, BreakerTyped
<1>4. PushCost \in Nat
  BY MeteringAssumption
<1>5. CASE \E c \in Caller : PushAllow(h, c)
  <2>1. PICK c \in Caller : PushAllow(h, c)
    BY <1>5
  <2>2. push[h].at = "idle" /\ push'[h] = [at |-> "get", caller |-> c, held |-> 0, made |-> {}]
    BY <1>1, <2>1 DEF PushAllow, At
  <2>3. \A g \in Handler \ {h} : push'[g] = push[g]
    BY <1>1, <2>1 DEF PushAllow
  <2>4. push' \in [Handler -> Push \cup {Idle}]
    BY <1>1, <2>1 DEF PushAllow, Push, PushPoint
  <2>5. \A d \in Caller : PushMoves(h, d)
    BY <1>1, <2>1, <2>2 DEF PushAllow, PushMoves, HeldBy, Active, history
  <2>6. /\ UNCHANGED <<credits, known, owner, running, meter, elapsed, fees, billed, lost, faults>>
        /\ breaker' \in BreakerState
    BY <1>3, <2>1 DEF PushAllow, cloud, history
  <2>7. push'[h].held = 0
    BY <2>2
  <2> QED
    BY <1>1, <1>4, <2>3, <2>4, <2>5, <2>6, <2>7, PushStep
<1>6. CASE PushRefused(h) \/ PushGet(h) \/ PushGetFails(h)
  <2>1. At(h, "get") \/ At(h, "debit")
    BY <1>6 DEF PushRefused, PushGet, PushGetFails, At
  <2>2. Active(h) /\ push[h].held = 0 /\ push[h] \in Push
    BY <1>2, <2>1 DEF At, Active
  <2>3. PICK p \in {"idle", "debit"} : Goto(h, p)
    BY <1>6 DEF PushRefused, PushGet, PushGetFails
  <2>4. push'[h] = IF p = "idle" THEN Idle ELSE [push[h] EXCEPT !.at = "debit"]
    BY <1>1, <2>3 DEF Goto
  <2>5. \A g \in Handler \ {h} : push'[g] = push[g]
    BY <1>1, <2>3 DEF Goto
  <2>6. push'[h] \in Push \cup {Idle} /\ (Active(h)' => push'[h].held = 0)
    BY <2>2, <2>4 DEF Push, PushPoint, Active, Idle
  <2>7. push' \in [Handler -> Push \cup {Idle}]
    BY <1>1, <2>3, <2>6 DEF Goto
  <2>9. /\ UNCHANGED <<breaker, credits, known, cloud, meter, elapsed, fees, billed, lost>>
        /\ faults' \in Nat
    BY <1>1, <1>6 DEF PushRefused, PushGet, PushGetFails, Fault, history
  <2>10. \A d \in Caller : PushMoves(h, d)
    BY <1>1, <2>2, <2>6, <2>9 DEF PushMoves, HeldBy
  <2> QED
    BY <1>1, <1>4, <2>5, <2>6, <2>7, <2>9, <2>10, PushStep DEF cloud
<1>7. CASE PushDebit(h)
  <2>1. Active(h) /\ push[h].held = 0 /\ push[h] \in Push
    BY <1>2, <1>7 DEF PushDebit, At, Active
  <2> DEFINE c == push[h].caller
  <2>2. c \in Caller
    BY <2>1, PushFields
  <2>3. \A g \in Handler \ {h} : push'[g] = push[g]
    BY <1>1, <1>7 DEF PushDebit, Goto
  <2>4. UNCHANGED <<breaker, known, cloud, meter, elapsed, fees, billed, lost, faults>>
    BY <1>7 DEF PushDebit, history
  <2>5. CASE credits[c] >= PushCost /\ credits' = [credits EXCEPT ![c] = @ - PushCost]
             /\ push' = [push EXCEPT ![h].at = "create", ![h].held = PushCost]
    <3>1. push'[h] = [push[h] EXCEPT !.at = "create", !.held = PushCost]
      BY <1>1, <2>5
    <3>2. push'[h] \in Push /\ push'[h].held = PushCost /\ push'[h].caller = c /\ push'[h].at = "create"
      BY <1>4, <2>1, <3>1 DEF Push, PushPoint
    <3>3. push' \in [Handler -> Push \cup {Idle}]
      BY <1>1, <2>5, <3>2
    <3>4. /\ credits' \in [Caller -> Int] /\ credits'[c] = credits[c] - PushCost
          /\ \A d \in Caller \ {c} : credits'[d] = credits[d]
      BY <1>1, <1>4, <2>2, <2>5
    <3>5. PushCost > 0 => c \in known
      BY <1>1, <1>4, <2>2, <2>5
    <3>6. \A d \in Caller : PushMoves(h, d)
      <4> SUFFICES ASSUME NEW d \in Caller PROVE PushMoves(h, d)
        OBVIOUS
      <4>1. Active(h)'
        BY <3>2 DEF Active
      <4>2. HeldBy(h, d) = 0 /\ HeldBy(h, d)' = IF d = c THEN PushCost ELSE 0
        BY <2>1, <3>2, <4>1 DEF HeldBy
      <4>3. fees'[d] = fees[d] /\ fees[d] \in Int /\ credits[d] \in Int
        BY <1>1, <2>4
      <4> HIDE DEF c
      <4> QED
        BY <1>4, <3>4, <4>2, <4>3 DEF PushMoves
    <3>7. \A d \in Caller : credits'[d] >= 0 /\ (d \notin known => credits'[d] = 0)
      BY <1>1, <1>4, <2>2, <2>5, <3>4, <3>5
    <3> QED
      BY <1>1, <2>3, <2>4, <3>2, <3>3, <3>4, <3>5, <3>6, <3>7, PushStep DEF cloud
  <2>6. CASE Goto(h, "idle") /\ UNCHANGED credits
    <3>1. push'[h] = Idle /\ push' \in [Handler -> Push \cup {Idle}]
      BY <1>1, <2>6 DEF Goto
    <3>2. ~Active(h)'
      BY <3>1 DEF Active, Idle
    <3>3. \A d \in Caller : PushMoves(h, d)
      BY <1>1, <2>1, <2>4, <2>6, <3>2 DEF PushMoves, HeldBy
    <3> QED
      BY <1>1, <2>3, <2>4, <2>6, <3>1, <3>2, <3>3, PushStep DEF cloud
  <2> QED
    BY <1>7, <2>5, <2>6 DEF PushDebit
<1>8. CASE Refund(h)
  <2>1. Active(h) /\ push[h] \in Push
    BY <1>2, <1>8 DEF Refund, At, Active
  <2> DEFINE c == push[h].caller
  <2>2. c \in Caller /\ push[h].held \in Nat
    BY <2>1, PushFields
  <2>3. /\ \A g \in Handler \ {h} : push'[g] = push[g]
        /\ push'[h] = Idle /\ push' \in [Handler -> Push \cup {Idle}]
    BY <1>1, <1>8 DEF Refund, Goto
  <2>4. UNCHANGED <<breaker, known, cloud, meter, elapsed, fees, billed, lost, faults>>
    BY <1>8 DEF Refund, history
  <2>5. /\ credits' \in [Caller -> Int] /\ credits'[c] = credits[c] + push[h].held
        /\ \A d \in Caller \ {c} : credits'[d] = credits[d]
    BY <1>1, <1>8, <2>2 DEF Refund
  <2>6. ~Active(h)'
    BY <2>3 DEF Active, Idle
  <2>7. \A d \in Caller : PushMoves(h, d)
    <3> SUFFICES ASSUME NEW d \in Caller PROVE PushMoves(h, d)
      OBVIOUS
    <3>1. HeldBy(h, d)' = 0 /\ HeldBy(h, d) = IF c = d THEN push[h].held ELSE 0
      BY <2>1, <2>6 DEF HeldBy
    <3>2. fees'[d] = fees[d] /\ fees[d] \in Int /\ credits[d] \in Int
      BY <1>1, <2>4
    <3> HIDE DEF c
    <3> QED
      BY <2>2, <2>5, <3>1, <3>2 DEF PushMoves
  <2>8. \A d \in Caller : credits'[d] >= 0 /\ (d \notin known => credits'[d] = 0)
    BY <1>1, <1>2, <2>1, <2>2, <2>5
  <2> QED
    BY <1>1, <2>3, <2>4, <2>5, <2>6, <2>7, <2>8, PushStep DEF cloud
<1>9. CASE \/ \E b \in BOOLEAN : PushFails(h, b)
           \/ \E m \in Machine, heard \in BOOLEAN : PushCreates(h, m, heard)
  <2>1. push[h].at = "create" /\ Active(h) /\ push[h] \in Push
    BY <1>2, <1>9 DEF PushFails, PushCreates, At, Active
  <2>2. PICK r \in Push : /\ push' = [push EXCEPT ![h] = r] /\ r.at \in {"refund", "start"}
                          /\ r.held = push[h].held /\ r.caller = push[h].caller
    <3>1. [push[h] EXCEPT !.at = "refund"] \in Push
      BY <2>1 DEF Push, PushPoint
    <3>2. ASSUME NEW m \in Machine PROVE [push[h] EXCEPT !.at = "start", !.made = {m}] \in Push
      BY <2>1 DEF Push, PushPoint
    <3>3. \A m \in Machine : LET r == [push[h] EXCEPT !.at = "start", !.made = {m}]
                             IN  r.at = "start" /\ r.held = push[h].held /\ r.caller = push[h].caller
      BY <2>1 DEF Push
    <3>4. LET r == [push[h] EXCEPT !.at = "refund"]
          IN  r.at = "refund" /\ r.held = push[h].held /\ r.caller = push[h].caller
      BY <2>1 DEF Push
    <3>5. \/ push' = [push EXCEPT ![h] = [push[h] EXCEPT !.at = "refund"]]
          \/ \E m \in Machine : push' = [push EXCEPT ![h] = [push[h] EXCEPT !.at = "start", !.made = {m}]]
      BY <1>1, <1>9 DEF PushFails, PushCreates, Goto
    <3> QED
      BY <3>1, <3>2, <3>3, <3>4, <3>5
  <2>3. /\ push'[h] = r /\ push' \in [Handler -> Push \cup {Idle}]
        /\ \A g \in Handler \ {h} : push'[g] = push[g]
    BY <1>1, <2>2
  <2>4. UNCHANGED <<credits, known, running, meter, elapsed, fees, billed, lost>>
    BY <1>9 DEF PushFails, PushCreates, cloud
  <2>5. breaker' \in BreakerState /\ faults' \in Nat
    <3>1. CASE \E b \in BOOLEAN : PushFails(h, b)
      BY <1>1, <1>3, <3>1 DEF PushFails, Fault
    <3>2. CASE \E m \in Machine, heard \in BOOLEAN : PushCreates(h, m, heard)
      <4>1. AfterRecord(breaker, FALSE) \in BreakerState
        BY <1>3
      <4>2. \/ UNCHANGED <<breaker, faults>>
            \/ breaker' = AfterRecord(breaker, FALSE) /\ Fault
        BY <3>2 DEF PushCreates
      <4>3. breaker' = breaker \/ breaker' = AfterRecord(breaker, FALSE)
        BY <4>2
      <4>4. faults' = faults \/ faults' = faults + 1
        BY <4>2 DEF Fault
      <4>5. breaker \in BreakerState /\ faults \in Nat
        BY <1>1
      <4>6. breaker' \in BreakerState
        BY <4>1, <4>3, <4>5, Zenon
      <4>7. faults' \in Nat
        BY <4>4, <4>5
      <4> QED
        BY <4>6, <4>7
    <3> QED
      BY <1>9, <3>1, <3>2
  <2>6. /\ owner' \in [Machine -> Caller \cup {NoOne}]
        /\ \A m \in Machine : owner[m] \in Caller => owner'[m] = owner[m]
    <3>1. CASE owner' = owner
      BY <1>1, <3>1
    <3>2. CASE \E m \in Machine : owner[m] = NoOne /\ owner' = [owner EXCEPT ![m] = push[h].caller]
      BY <1>1, <2>1, <3>2, PushFields, MeteringAssumption
    <3> QED
      BY <1>9, <3>1, <3>2 DEF PushFails, PushCreates, cloud
  <2>7. \A d \in Caller : PushMoves(h, d)
    <3>1. \A d \in Caller : HeldBy(h, d)' = HeldBy(h, d)
      BY <2>1, <2>2, <2>3 DEF HeldBy, Active
    <3> QED
      BY <2>4, <3>1 DEF PushMoves
  <2> QED
    BY <1>1, <1>2, <2>1, <2>2, <2>3, <2>4, <2>5, <2>6, <2>7, PushStep DEF Active
<1>10. CASE \E b \in BOOLEAN : PushStarts(h, b)
  <2>1. Active(h) /\ push[h] \in Push
    BY <1>2, <1>10 DEF PushStarts, At, Active
  <2> DEFINE c == push[h].caller
  <2>2. c \in Caller /\ push[h].held \in Nat /\ push[h].made \subseteq Machine
    BY <2>1, PushFields
  <2>3. /\ \A g \in Handler \ {h} : push'[g] = push[g]
        /\ push'[h] = Idle /\ push' \in [Handler -> Push \cup {Idle}]
    BY <1>1, <1>10 DEF PushStarts, Goto
  <2>4. UNCHANGED <<credits, known, owner, meter, elapsed, billed, lost, faults>>
    BY <1>10 DEF PushStarts
  <2>5. /\ fees' \in [Caller -> Int] /\ fees'[c] = fees[c] + push[h].held
        /\ \A d \in Caller \ {c} : fees'[d] = fees[d]
    BY <1>1, <1>10, <2>2 DEF PushStarts, Keep
  <2>6. ~Active(h)'
    BY <2>3 DEF Active, Idle
  <2>7. \A d \in Caller : PushMoves(h, d)
    <3> SUFFICES ASSUME NEW d \in Caller PROVE PushMoves(h, d)
      OBVIOUS
    <3>1. HeldBy(h, d)' = 0 /\ HeldBy(h, d) = IF c = d THEN push[h].held ELSE 0
      BY <2>1, <2>6 DEF HeldBy
    <3>2. credits'[d] = credits[d] /\ fees[d] \in Int /\ credits[d] \in Int
      BY <1>1, <2>4
    <3> HIDE DEF c
    <3> QED
      BY <2>2, <2>5, <3>1, <3>2 DEF PushMoves
  <2>8. breaker' \in BreakerState /\ running' \subseteq Machine
    BY <1>1, <1>3, <1>10, <2>2 DEF PushStarts
  <2> QED
    BY <1>1, <2>3, <2>4, <2>5, <2>6, <2>7, <2>8, PushStep
<1> QED
  BY <1>5, <1>6, <1>7, <1>8, <1>9, <1>10

\* Then those of the metering loop, the cloud and the process.
LEMMA OtherSteps ==
  ASSUME LedgerInv,
         \/ \E c \in Caller : Provision(c)
         \/ BreakerCools \/ TimePasses
         \/ MeterPass \/ ListFails \/ StopFails \/ MeterDebitFails
         \/ \E m \in Machine : MeterSkips(m)
  PROVE  LedgerInv'
<1>1. /\ breaker \in BreakerState
      /\ credits \in [Caller -> Int] /\ billed \in [Caller -> Int] /\ fees \in [Caller -> Int]
      /\ owner \in [Machine -> Caller \cup {NoOne}] /\ running \subseteq Machine
      /\ meter \in Pass /\ elapsed \in Nat
      /\ faults \in Nat /\ known \subseteq Caller
      /\ \A c \in Caller : credits[c] >= 0 /\ (c \notin known => credits[c] = 0)
      /\ ChargeCovered
  BY DEF LedgerInv, TypeOK, NoOverdraft, UnseenIsPoor
<1>2. Seed \in Nat /\ Rate \in Nat /\ Scale \in Nat \ {0}
  BY MeteringAssumption
<1>3. /\ meter.at \in MeterPoint /\ meter.todo \subseteq Machine /\ meter.on \subseteq Machine
      /\ meter.dur \in Nat /\ meter.bal \in Nat /\ meter.charge \in Nat
  BY <1>1 DEF Pass
<1>4. CASE \E c \in Caller : Provision(c)
  <2>1. PICK c \in Caller : Provision(c)
    BY <1>4
  <2>2. /\ c \notin known /\ known' = known \cup {c}
        /\ UNCHANGED <<breaker, owner, running, push, meter, elapsed, fees, billed, lost, faults>>
    BY <2>1 DEF Provision, cloud, history
  <2>3. /\ credits' \in [Caller -> Int] /\ credits'[c] = Seed
        /\ \A d \in Caller \ {c} : credits'[d] = credits[d]
    BY <1>1, <1>2, <2>1 DEF Provision
  <2>4. ChargeCovered'
    BY <1>1, <2>2 DEF ChargeCovered
  <2>5. \A d \in Caller : credits'[d] + billed'[d] - (credits[d] + billed[d])
                            = IF d \in known' \ known THEN Seed ELSE 0
    BY <1>1, <1>2, <2>2, <2>3
  <2> QED
    BY <1>1, <1>2, <2>2, <2>3, <2>4, <2>5, OtherStep
\* A step that changes no balance; the pass stays well formed.
<1>5. ASSUME UNCHANGED <<credits, known, owner, push, fees, billed, lost>>,
             breaker' \in BreakerState, running' \subseteq Machine, elapsed' \in Nat,
             faults' \in Nat, meter' \in Pass, ChargeCovered'
      PROVE  LedgerInv'
  BY <1>1, <1>5, OtherStep
<1>6. CASE BreakerCools \/ TimePasses
  <2>1. Cools(breaker) \in BreakerState
    BY <1>1, BreakerTyped
  <2>2. ChargeCovered'
    BY <1>1, <1>6 DEF BreakerCools, TimePasses, ChargeCovered, cloud
  <2> QED
    BY <1>1, <1>5, <1>6, <2>1, <2>2 DEF BreakerCools, TimePasses, cloud, history
\* A step of the loop that charges nothing.
<1>7. ASSUME UNCHANGED <<breaker, credits, known, owner, push, fees, billed, lost>>,
             running' \subseteq running, elapsed' \in Nat, faults' \in Nat,
             meter' \in Pass, meter'.at # "debit"
      PROVE  LedgerInv'
  <2>1. ChargeCovered'
    BY <1>7 DEF ChargeCovered
  <2> QED
    BY <1>1, <1>5, <1>7, <2>1
<1>8. NoPass \in Pass /\ NoPass.at # "debit"
  BY DEF NoPass, Pass, MeterPoint
<1>9. CASE MeterTick \/ MeterLists \/ MeterDone \/ ListFails
  <2>1. [NoPass EXCEPT !.at = "list", !.dur = elapsed] \in Pass
    BY <1>1 DEF NoPass, Pass, MeterPoint
  <2>2. [meter EXCEPT !.at = "next", !.todo = running] \in Pass
    BY <1>1 DEF Pass, MeterPoint
  <2>3. meter' \in Pass /\ meter'.at # "debit"
    BY <1>1, <1>8, <1>9, <2>1, <2>2 DEF MeterTick, MeterLists, MeterDone, ListFails, NoPass, Pass
  <2>4. /\ UNCHANGED <<breaker, credits, known, owner, running, push, fees, billed, lost>>
        /\ elapsed' \in Nat /\ faults' \in Nat
    BY <1>1, <1>9 DEF MeterTick, MeterLists, MeterDone, ListFails, Fault, cloud, history
  <2> QED
    BY <1>7, <2>3, <2>4
<1>10. CASE MeterStop \/ StopFails
  <2>1. meter' = [meter EXCEPT !.at = "next"]
    BY <1>10 DEF MeterStop, StopFails
  <2>2. meter' \in Pass /\ meter'.at # "debit"
    BY <1>1, <2>1 DEF Pass, MeterPoint
  <2>3. /\ UNCHANGED <<breaker, credits, known, owner, push, elapsed, fees, billed, lost>>
        /\ running' \subseteq running /\ faults' \in Nat
    BY <1>1, <1>10 DEF MeterStop, StopFails, Fault, cloud, history
  <2> QED
    BY <1>1, <1>7, <2>2, <2>3
<1>11. CASE \E m \in Machine : MeterSkips(m)
  <2>1. PICK m \in Machine : MeterSkips(m)
    BY <1>11
  <2>2. meter' = [meter EXCEPT !.todo = @ \ {m}] /\ meter.at = "next"
    BY <2>1 DEF MeterSkips
  <2>3. meter' \in Pass /\ meter'.at # "debit"
    BY <1>1, <2>2 DEF Pass, MeterPoint
  <2>4. /\ UNCHANGED <<breaker, credits, known, owner, running, push, elapsed, fees, billed, lost>>
        /\ faults' \in Nat
    BY <1>1, <2>1 DEF MeterSkips, Fault, cloud
  <2> QED
    BY <1>1, <1>7, <2>3, <2>4
<1>12. CASE \E m \in Machine : MeterGet(m)
  <2>1. PICK m \in Machine : MeterGet(m)
    BY <1>12
  <2> DEFINE bal == credits[owner[m]]
             full == (Rate * meter.dur) \div Scale
             charge == Least(full, bal)
  <2>2. owner[m] \in Caller /\ bal \in Nat
    BY <1>1, <2>1 DEF MeterGet
  <2>3. full \in Nat
    <3>1. Rate * meter.dur \in Nat
      BY <1>2, <1>3
    <3> DEFINE x == Rate * meter.dur
    <3>2. x \in Nat
      BY <3>1
    <3> HIDE DEF x
    <3>3. x \div Scale \in Nat
      BY <1>2, <3>2
    <3> QED
      BY <3>3 DEF x
  <2>4. /\ UNCHANGED <<breaker, credits, known, owner, running, push, elapsed, fees, billed, lost, faults>>
        /\ meter' = [meter EXCEPT !.todo = @ \ {m}, !.on = {m}, !.bal = bal, !.charge = charge,
                       !.at = IF charge > 0 THEN "debit" ELSE IF bal = 0 THEN "stop" ELSE "next"]
    BY <2>1 DEF MeterGet, cloud, history
  <2> HIDE DEF bal, full
  <2>5. charge \in Nat /\ charge <= bal
    BY <2>2, <2>3 DEF Least
  <2> HIDE DEF charge
  <2>6. /\ meter' \in Pass /\ meter'.on = {m} /\ meter'.bal = bal /\ meter'.charge = charge
    BY <1>1, <2>2, <2>4, <2>5 DEF Pass, MeterPoint
  <2>7. ChargeCovered'
    BY <2>2, <2>4, <2>5, <2>6 DEF ChargeCovered
  <2> QED
    BY <1>1, <1>5, <2>4, <2>6, <2>7
<1>13. CASE MeterDebit \/ MeterDebitFails
  <2>1. meter.at = "debit" /\ meter.charge <= meter.bal /\ \A m \in meter.on : owner[m] \in Caller
    BY <1>1, <1>13 DEF MeterDebit, MeterDebitFails, ChargeCovered
  <2>2. meter' \in Pass /\ meter'.at # "debit"
    <3>1. meter.bal - meter.charge \in Nat
      BY <1>3, <2>1
    <3>2. meter' = [meter EXCEPT !.bal = @ - meter.charge,
                                 !.at = IF meter.bal = meter.charge THEN "stop" ELSE "next"]
      BY <1>13 DEF MeterDebit, MeterDebitFails
    <3> QED
      BY <1>1, <3>1, <3>2 DEF Pass, MeterPoint
  <2>3. /\ UNCHANGED <<breaker, known, owner, running, push, elapsed, fees, lost>>
        /\ faults' \in Nat
    BY <1>1, <1>13 DEF MeterDebit, MeterDebitFails, Fault, cloud
  <2>4. CASE UNCHANGED <<credits, billed>>
    BY <1>1, <1>7, <2>2, <2>3, <2>4
  <2>5. CASE \E c \in Caller : /\ credits[c] >= meter.charge
                               /\ credits' = [credits EXCEPT ![c] = @ - meter.charge]
                               /\ billed' = [billed EXCEPT ![c] = @ + meter.charge]
    <3>1. PICK c \in Caller : /\ credits[c] >= meter.charge
                              /\ credits' = [credits EXCEPT ![c] = @ - meter.charge]
                              /\ billed' = [billed EXCEPT ![c] = @ + meter.charge]
      BY <2>5
    <3>2. /\ credits' \in [Caller -> Int] /\ billed' \in [Caller -> Int]
          /\ credits'[c] = credits[c] - meter.charge /\ billed'[c] = billed[c] + meter.charge
          /\ \A d \in Caller \ {c} : credits'[d] = credits[d] /\ billed'[d] = billed[d]
      BY <1>1, <1>3, <3>1
    <3>3. \A d \in Caller : /\ credits'[d] >= 0 /\ (d \notin known => credits'[d] = 0)
                            /\ credits'[d] + billed'[d] - (credits[d] + billed[d]) = 0
      BY <1>1, <1>3, <3>1, <3>2
    <3>4. ChargeCovered'
      BY <2>2 DEF ChargeCovered
    <3> QED
      BY <1>1, <2>2, <2>3, <3>2, <3>3, <3>4, OtherStep
  <2>6. UNCHANGED <<credits, billed>> \/ \E c \in Caller :
          /\ credits[c] >= meter.charge
          /\ credits' = [credits EXCEPT ![c] = @ - meter.charge]
          /\ billed' = [billed EXCEPT ![c] = @ + meter.charge]
    BY <1>13, <2>1 DEF MeterDebit, MeterDebitFails
  <2> QED
    BY <2>4, <2>5, <2>6
<1> QED
  BY <1>4, <1>6, <1>9, <1>10, <1>11, <1>12, <1>13 DEF MeterPass

\* A refund the store drops keeps it: what the push held is stranded.
LEMMA RefundFailsStep == ASSUME LedgerInv, NEW h \in Handler, RefundFails(h) PROVE LedgerInv'
<1>1. /\ push \in [Handler -> Push \cup {Idle}] /\ lost \in [Caller -> Int] /\ faults \in Nat
  BY DEF LedgerInv, TypeOK
<1>2. Active(h) /\ push[h] \in Push
  BY ActivePush DEF RefundFails, At, Active, LedgerInv
<1> DEFINE c == push[h].caller
<1>3. c \in Caller /\ push[h].held \in Nat
  BY <1>2, PushFields
<1>4. /\ \A g \in Handler \ {h} : push'[g] = push[g]
      /\ push'[h] = Idle /\ push' \in [Handler -> Push \cup {Idle}]
  BY <1>1 DEF RefundFails, Goto
<1>5. /\ lost' \in [Caller -> Int] /\ lost'[c] = lost[c] + push[h].held
      /\ \A d \in Caller \ {c} : lost'[d] = lost[d]
  BY <1>1, <1>3 DEF RefundFails
<1>6. UNCHANGED <<breaker, credits, known, owner, running, meter, elapsed, fees, billed>>
  BY DEF RefundFails, cloud
<1>7. TypeOK'
  BY <1>1, <1>4, <1>5, <1>6 DEF LedgerInv, TypeOK, RefundFails, Fault
<1>8. ~Active(h)'
  BY <1>4 DEF Active, Idle
<1>9. Conservation'
  <2> SUFFICES ASSUME NEW d \in Caller
               PROVE  credits'[d] + Held(d)' + fees'[d] + billed'[d] + lost'[d]
                        = IF d \in known' THEN Seed ELSE 0
    BY DEF Conservation
  <2>1. Held(d)' = Held(d) - HeldBy(h, d) + HeldBy(h, d)'
    BY <1>4, <1>7, HeldChange DEF LedgerInv
  <2>2. HeldBy(h, d)' = 0 /\ HeldBy(h, d) = IF c = d THEN push[h].held ELSE 0
    BY <1>2, <1>8 DEF HeldBy
  <2>3. credits[d] + Held(d) + fees[d] + billed[d] + lost[d] = IF d \in known THEN Seed ELSE 0
    BY DEF LedgerInv, Conservation
  <2>4. /\ credits[d] \in Int /\ fees[d] \in Int /\ billed[d] \in Int /\ lost[d] \in Int
        /\ Held(d) \in Nat
    BY HeldType DEF LedgerInv, TypeOK
  <2>5. known' = known
    BY DEF RefundFails
  <2> HIDE DEF c
  <2> QED
    BY <1>3, <1>5, <1>6, <2>1, <2>2, <2>3, <2>4, <2>5
<1>10. NoOverdraft' /\ ChargeCovered'
  BY <1>6 DEF LedgerInv, NoOverdraft, ChargeCovered
<1>11. HeldIsFee' /\ UnseenIsPoor'
  BY <1>4, <1>6, <1>8 DEF LedgerInv, HeldIsFee, UnseenIsPoor, Active, RefundFails
<1> QED
  BY <1>7, <1>9, <1>10, <1>11 DEF LedgerInv

\* A crash keeps the ledger's invariant: it loses the pushes with what they held.
LEMMA CrashStep == ASSUME LedgerInv, Crash PROVE LedgerInv'
<1>1. \A h \in Handler : ~Active(h)'
  BY DEF Crash, Active, Idle
<1>2. TypeOK'
  <2>1. FreshBreaker \in BreakerState
    BY BreakerTyped DEF LedgerInv, TypeOK
  <2>2. NoPass \in Pass
    BY DEF NoPass, Pass, MeterPoint
  <2>3. lost' \in [Caller -> Int]
    BY HeldType DEF LedgerInv, TypeOK, Crash
  <2>4. push' \in [Handler -> Push \cup {Idle}]
    BY DEF Crash
  <2> QED
    BY <2>1, <2>2, <2>3, <2>4 DEF LedgerInv, TypeOK, Crash, cloud, Fault
<1>3. Conservation'
  <2> SUFFICES ASSUME NEW c \in Caller
               PROVE  credits'[c] + Held(c)' + fees'[c] + billed'[c] + lost'[c]
                        = IF c \in known' THEN Seed ELSE 0
    BY DEF Conservation
  <2>1. Held(c)' = 0
    <3>1. \A h \in Handler : HeldBy(h, c)' = 0
      BY <1>1 DEF HeldBy
    <3>2. \A h \in Handler : {h} \X (1 .. HeldBy(h, c)') = {}
      BY <3>1
    <3>3. (UNION {{h} \X (1 .. HeldBy(h, c)) : h \in Handler})' = {}
      BY <3>2
    <3> QED
      BY <3>3, FS_EmptySet DEF Held
  <2>2. lost'[c] = lost[c] + Held(c)
    BY DEF Crash
  <2>3. credits[c] + Held(c) + fees[c] + billed[c] + lost[c] = IF c \in known THEN Seed ELSE 0
    BY DEF LedgerInv, Conservation
  <2>4. /\ credits[c] \in Int /\ fees[c] \in Int /\ billed[c] \in Int /\ lost[c] \in Int
        /\ Held(c) \in Nat
    BY HeldType DEF LedgerInv, TypeOK
  <2>5. UNCHANGED <<credits, known, fees, billed>>
    BY DEF Crash
  <2> QED
    BY <2>1, <2>2, <2>3, <2>4, <2>5
<1>4. NoOverdraft' /\ HeldIsFee' /\ UnseenIsPoor' /\ ChargeCovered'
  BY <1>1 DEF LedgerInv, NoOverdraft, HeldIsFee, UnseenIsPoor, ChargeCovered, Crash, NoPass
<1> QED
  BY <1>2, <1>3, <1>4 DEF LedgerInv

\* Every step keeps the ledger's invariant.
LEMMA LedgerStep == LedgerInv /\ [Next]_vars => LedgerInv'
<1> SUFFICES ASSUME LedgerInv, [Next]_vars PROVE LedgerInv'
  OBVIOUS
<1>1. CASE Next
  BY <1>1, PushSteps, OtherSteps, RefundFailsStep, CrashStep DEF Next
<1>2. CASE UNCHANGED vars
  <2>1. \A c \in Caller : Held(c)' = Held(c)
    BY <1>2, HeldSame DEF vars
  <2>2. Conservation'
    BY <1>2, <2>1 DEF LedgerInv, Conservation, vars, history
  <2> QED
    BY <1>2, <2>2 DEF LedgerInv, TypeOK, NoOverdraft, HeldIsFee, UnseenIsPoor, ChargeCovered,
                      vars, cloud, history, Active
<1> QED
  BY <1>1, <1>2

\* The ledger's invariant holds in every behaviour; the theorems below cite it.
LEMMA Ledger == Spec => []LedgerInv
  BY LedgerInit, LedgerStep, PTL DEF Spec

\* Whatever the pushes, the metering loop, the cloud and the crashes do, no balance, fee
\* or charge leaves its type (RunMeter and servePush, meter.go, provision.go).
THEOREM TypeCorrect == Spec => []TypeOK
  BY Ledger, PTL DEF LedgerInv

\* Pushes and the metering loop never overdraw a balance, although both read it in an
\* earlier transaction than they charge it (meter.go:53-66, provision.go:455-468).
THEOREM NeverOverdrawn == Spec => []NoOverdraft
  BY Ledger, PTL DEF LedgerInv

\* Every unit a caller was given is accounted for, crashes, dropped refunds and failed
\* debits included (Seed of provision.go to the debits, refunds and charges of servePush
\* and MeterOnce).
THEOREM CreditConserved == Spec => []Conservation
  BY Ledger, PTL DEF LedgerInv

(***************************************************************************)
(* What pushes were paid for.                                              *)
(***************************************************************************)
Owned(c) == {m \in Machine : owner[m] = c}

\* The pushes of c whose machine exists but that are not paid for yet.
Unpaid(c) == {h \in Handler : At(h, "start") /\ push[h].caller = c}

FeesBacked ==
  \A c \in Caller : fees[c] + PushCost * Cardinality(Unpaid(c)) <= PushCost * Cardinality(Owned(c))

\* The arithmetic of one more fee.
LEMMA OneMore ==
  ASSUME NEW n \in Nat, NEW a \in Nat
  PROVE  n * a \in Nat /\ n * (a + 1) = n * a + n
  OBVIOUS

\* The machines a caller owns are finitely many.
LEMMA OwnedCounts == ASSUME NEW c PROVE IsFiniteSet(Owned(c)) /\ Cardinality(Owned(c)) \in Nat
  BY MeteringAssumption, FS_Subset, FS_CardinalityType DEF Owned

\* The pushes not yet paid for are finitely many.
LEMMA UnpaidCounts == ASSUME NEW c PROVE IsFiniteSet(Unpaid(c)) /\ Cardinality(Unpaid(c)) \in Nat
  BY MeteringAssumption, FS_Subset, FS_CardinalityType DEF Unpaid

\* A step after which no fee is higher, no machine is anybody else's and no more pushes
\* wait to be paid for.
LEMMA FeesKept ==
  ASSUME TypeOK, FeesBacked, fees' = fees,
         \A m \in Machine : owner[m] \in Caller => owner'[m] = owner[m],
         \A h \in Handler, c \in Caller : h \in Unpaid(c)' => h \in Unpaid(c)
  PROVE  FeesBacked'
<1> SUFFICES ASSUME NEW c \in Caller
             PROVE  fees'[c] + PushCost * Cardinality(Unpaid(c)') <= PushCost * Cardinality(Owned(c)')
  BY DEF FeesBacked, Unpaid, Owned, At
<1>1. Unpaid(c)' \subseteq Unpaid(c) /\ Owned(c) \subseteq Owned(c)'
  BY DEF Unpaid, Owned
<1>2. IsFiniteSet(Owned(c)') /\ IsFiniteSet(Unpaid(c)')
  BY MeteringAssumption, FS_Subset DEF Owned, Unpaid
<1>3. Cardinality(Unpaid(c)') \in Nat /\ Cardinality(Owned(c)') \in Nat
  BY <1>2, FS_CardinalityType
<1>4. /\ Cardinality(Unpaid(c)') <= Cardinality(Unpaid(c))
      /\ Cardinality(Owned(c)) <= Cardinality(Owned(c)')
  BY <1>1, <1>2, FS_Subset, UnpaidCounts
<1> DEFINE u == Cardinality(Unpaid(c))
           v == Cardinality(Unpaid(c)')
           o == Cardinality(Owned(c))
           p == Cardinality(Owned(c)')
<1>5. /\ u \in Nat /\ v \in Nat /\ o \in Nat /\ p \in Nat /\ v <= u /\ o <= p
      /\ PushCost \in Nat /\ fees[c] \in Int /\ fees'[c] = fees[c]
  BY <1>3, <1>4, OwnedCounts, UnpaidCounts, MeteringAssumption DEF TypeOK
<1>6. fees[c] + PushCost * u <= PushCost * o
  BY DEF FeesBacked
<1> HIDE DEF u, v, o, p
<1>7. PushCost * v <= PushCost * u /\ PushCost * o <= PushCost * p
  BY <1>5
<1>8. /\ PushCost * u \in Int /\ PushCost * v \in Int
      /\ PushCost * o \in Int /\ PushCost * p \in Int
  BY <1>5
<1>9. fees'[c] + PushCost * v <= PushCost * p
  BY <1>5, <1>6, <1>7, <1>8
<1> QED
  BY <1>9 DEF v, p

\* The fees are within what the machines cost at the start.
LEMMA FeesInit == Init => FeesBacked
<1> SUFFICES ASSUME Init, NEW c \in Caller
             PROVE  fees[c] + PushCost * Cardinality(Unpaid(c)) <= PushCost * Cardinality(Owned(c))
  BY DEF FeesBacked
<1>1. Unpaid(c) = {}
  BY DEF Init, Unpaid, At, Idle
<1>2. Cardinality(Unpaid(c)) = 0
  BY <1>1, FS_EmptySet
<1>3. PushCost * Cardinality(Owned(c)) \in Nat /\ PushCost * 0 = 0 /\ fees[c] = 0
  BY OwnedCounts, OneMore, MeteringAssumption DEF Init
<1> QED
  BY <1>2, <1>3

\* Every step keeps the fees within what the machines cost.
LEMMA FeesStep == LedgerInv /\ FeesBacked /\ [Next]_vars => FeesBacked'
<1> SUFFICES ASSUME LedgerInv, FeesBacked, [Next]_vars PROVE FeesBacked'
  OBVIOUS
<1>1. /\ TypeOK /\ push \in [Handler -> Push \cup {Idle}] /\ fees \in [Caller -> Int]
      /\ owner \in [Machine -> Caller \cup {NoOne}] /\ PushCost \in Nat /\ NoOne \notin Caller
  BY MeteringAssumption DEF LedgerInv, TypeOK
\* Steps of a push that neither start a machine's push nor end it.
<1>2. CASE \E h \in Handler :
             \/ \E c \in Caller : PushAllow(h, c)
             \/ PushRefused(h) \/ PushGet(h) \/ PushGetFails(h) \/ PushDebit(h) \/ Refund(h) \/ RefundFails(h)
             \/ \E b \in BOOLEAN : PushFails(h, b)
             \/ \E m \in Machine : PushCreates(h, m, FALSE)
  <2>1. PICK h \in Handler :
             \/ \E c \in Caller : PushAllow(h, c)
             \/ PushRefused(h) \/ PushGet(h) \/ PushGetFails(h) \/ PushDebit(h) \/ Refund(h) \/ RefundFails(h)
             \/ \E b \in BOOLEAN : PushFails(h, b)
             \/ \E m \in Machine : PushCreates(h, m, FALSE)
    BY <1>2
  <2>2. fees' = fees
    BY <2>1 DEF PushAllow, PushRefused, PushGet, PushGetFails, PushDebit, Refund, RefundFails, PushFails,
                PushCreates, history
  <2>3. \A m \in Machine : owner[m] \in Caller => owner'[m] = owner[m]
    <3>1. owner' = owner \/ \E m \in Machine : owner[m] = NoOne
                                             /\ owner' = [owner EXCEPT ![m] = push[h].caller]
      BY <2>1 DEF PushAllow, PushRefused, PushGet, PushGetFails, PushDebit, Refund, RefundFails, PushFails,
                  PushCreates, cloud
    <3> QED
      BY <1>1, <3>1
  <2>4. (\A g \in Handler \ {h} : push'[g] = push[g]) /\ push'[h].at # "start"
    <3>1. CASE \E c \in Caller : PushAllow(h, c)
      BY <1>1, <3>1 DEF PushAllow
    <3>2. CASE PushRefused(h) \/ PushGet(h) \/ PushGetFails(h) \/ Refund(h) \/ RefundFails(h)
               \/ (\E b \in BOOLEAN : PushFails(h, b)) \/ \E m \in Machine : PushCreates(h, m, FALSE)
      <4>1. PICK p \in {"idle", "debit", "refund"} : Goto(h, p)
        BY <3>2 DEF PushRefused, PushGet, PushGetFails, Refund, RefundFails, PushFails, PushCreates
      <4>2. push[h].at # "idle"
        BY <3>2 DEF PushRefused, PushGet, PushGetFails, Refund, RefundFails, PushFails, PushCreates, At
      <4>3. push[h] \in Push
        BY <1>1, <4>2 DEF Idle
      <4>4. push'[h] = IF p = "idle" THEN Idle ELSE [push[h] EXCEPT !.at = p]
        BY <1>1, <4>1 DEF Goto
      <4>5. \A g \in Handler \ {h} : push'[g] = push[g]
        BY <1>1, <4>1 DEF Goto
      <4> QED
        BY <4>3, <4>4, <4>5 DEF Push, Idle
    <3>3. CASE PushDebit(h)
      <4>1. push[h] \in Push
        BY <1>1, <3>3 DEF PushDebit, At, Idle
      <4> QED
        BY <1>1, <3>3, <4>1 DEF PushDebit, Goto, Push, Idle
    <3> QED
      BY <2>1, <3>1, <3>2, <3>3
  <2>5. \A g \in Handler, c \in Caller : g \in Unpaid(c)' => g \in Unpaid(c)
    BY <2>4 DEF Unpaid, At
  <2> QED
    BY <1>1, <2>2, <2>3, <2>5, FeesKept
\* A machine is made: its owner owns one more, and one more push waits to be paid for.
<1>3. CASE \E h \in Handler, m \in Machine : PushCreates(h, m, TRUE)
  <2>1. PICK h \in Handler, m \in Machine : PushCreates(h, m, TRUE)
    BY <1>3
  <2>2. /\ push[h].at = "create" /\ push[h] \in Push /\ owner[m] = NoOne /\ fees' = fees
        /\ owner' = [owner EXCEPT ![m] = push[h].caller]
        /\ push' = [push EXCEPT ![h].at = "start", ![h].made = {m}]
    BY <1>1, <2>1 DEF PushCreates, At, Idle
  <2>3. /\ \A g \in Handler \ {h} : push'[g] = push[g]
        /\ push'[h].at = "start" /\ push'[h].caller = push[h].caller
    BY <1>1, <2>2 DEF Push
  <2> SUFFICES ASSUME NEW c \in Caller
               PROVE  fees'[c] + PushCost * Cardinality(Unpaid(c)') <= PushCost * Cardinality(Owned(c)')
    BY DEF FeesBacked, Unpaid, Owned, At
  <2>4. fees[c] + PushCost * Cardinality(Unpaid(c)) <= PushCost * Cardinality(Owned(c)) /\ fees[c] \in Int
    BY <1>1 DEF FeesBacked
  <2>5. CASE push[h].caller # c
    <3>1. Unpaid(c)' = Unpaid(c) /\ Owned(c)' = Owned(c)
      BY <1>1, <2>2, <2>3, <2>5 DEF Unpaid, Owned, At
    <3> QED
      BY <2>2, <2>4, <3>1
  <2>6. CASE push[h].caller = c
    <3>1. Unpaid(c)' = Unpaid(c) \cup {h} /\ h \notin Unpaid(c)
      BY <2>2, <2>3, <2>6 DEF Unpaid, At
    <3>2. Owned(c)' = Owned(c) \cup {m} /\ m \notin Owned(c)
      BY <1>1, <2>2, <2>6 DEF Owned
    <3>3. /\ Cardinality(Unpaid(c)') = Cardinality(Unpaid(c)) + 1
          /\ Cardinality(Owned(c)') = Cardinality(Owned(c)) + 1
      BY <3>1, <3>2, OwnedCounts, UnpaidCounts, FS_AddElement
    <3> DEFINE u == Cardinality(Unpaid(c))
               o == Cardinality(Owned(c))
    <3>4. u \in Nat /\ o \in Nat
      BY OwnedCounts, UnpaidCounts
    <3>5. fees[c] + PushCost * u <= PushCost * o
      BY <2>4
    <3> HIDE DEF u, o
    <3>6. /\ PushCost * (u + 1) = PushCost * u + PushCost /\ PushCost * (o + 1) = PushCost * o + PushCost
          /\ PushCost * u \in Nat /\ PushCost * o \in Nat
      BY <1>1, <3>4, OneMore
    <3>7. fees[c] + PushCost * (u + 1) <= PushCost * (o + 1)
      BY <1>1, <2>4, <3>5, <3>6
    <3> QED
      BY <2>2, <3>3, <3>7 DEF u, o
  <2> QED
    BY <2>5, <2>6
\* It is started: the push is paid for, at most its fee.
<1>4. CASE \E h \in Handler, b \in BOOLEAN : PushStarts(h, b)
  <2>1. PICK h \in Handler, b \in BOOLEAN : PushStarts(h, b)
    BY <1>4
  <2>2. push[h].at = "start" /\ push[h] \in Push /\ Active(h) /\ push[h].caller \in Caller
    BY <1>1, <2>1, PushFields DEF PushStarts, At, Idle, Active
  <2>3. push[h].held <= PushCost /\ push[h].held \in Nat
    BY <1>1, <2>2, PushFields DEF LedgerInv, HeldIsFee
  <2>4. /\ \A g \in Handler \ {h} : push'[g] = push[g]
        /\ push'[h].at = "idle" /\ owner' = owner
        /\ fees' = [fees EXCEPT ![push[h].caller] = @ + push[h].held]
    BY <1>1, <2>1 DEF PushStarts, Goto, Keep, Idle
  <2> SUFFICES ASSUME NEW c \in Caller
               PROVE  fees'[c] + PushCost * Cardinality(Unpaid(c)') <= PushCost * Cardinality(Owned(c)')
    BY DEF FeesBacked, Unpaid, Owned, At
  <2>5. fees[c] + PushCost * Cardinality(Unpaid(c)) <= PushCost * Cardinality(Owned(c)) /\ fees[c] \in Int
    BY <1>1 DEF FeesBacked
  <2>6. Owned(c)' = Owned(c)
    BY <2>4 DEF Owned
  <2>7. CASE push[h].caller # c
    <3>1. Unpaid(c)' = Unpaid(c) /\ fees'[c] = fees[c]
      BY <1>1, <2>4, <2>7 DEF Unpaid, At
    <3> QED
      BY <2>5, <2>6, <3>1
  <2>8. CASE push[h].caller = c
    <3>1. Unpaid(c)' = Unpaid(c) \ {h} /\ h \in Unpaid(c) /\ fees'[c] = fees[c] + push[h].held
      BY <1>1, <2>2, <2>4, <2>8 DEF Unpaid, At
    <3>2. Cardinality(Unpaid(c)') = Cardinality(Unpaid(c)) - 1
      BY <3>1, UnpaidCounts, FS_RemoveElement
    <3>3. Cardinality(Unpaid(c)') \in Nat
      BY <3>1, UnpaidCounts, FS_Subset, FS_CardinalityType
    <3> DEFINE v == Cardinality(Unpaid(c)')
               o == Cardinality(Owned(c))
    <3>4. v \in Nat /\ o \in Nat /\ Cardinality(Unpaid(c)) = v + 1
      BY <3>2, <3>3, OwnedCounts, UnpaidCounts
    <3>5. fees[c] + PushCost * (v + 1) <= PushCost * o
      BY <2>5, <3>4
    <3> HIDE DEF v, o
    <3>6. PushCost * (v + 1) = PushCost * v + PushCost /\ PushCost * v \in Nat /\ PushCost * o \in Nat
      BY <1>1, <3>4, OneMore
    <3>7. fees[c] + push[h].held + PushCost * v <= PushCost * o
      BY <1>1, <2>3, <2>5, <3>5, <3>6
    <3> QED
      BY <2>6, <3>1, <3>7 DEF v, o
  <2> QED
    BY <2>7, <2>8
\* The other steps change neither fees nor machines; a crash ends the pushes.
<1>5. CASE \/ \E c \in Caller : Provision(c)
           \/ BreakerCools \/ TimePasses \/ MeterPass \/ ListFails \/ StopFails \/ MeterDebitFails
           \/ \E m \in Machine : MeterSkips(m)
           \/ UNCHANGED vars
  <2>1. UNCHANGED <<push, owner, fees>>
    BY <1>5 DEF Provision, BreakerCools, TimePasses, MeterPass, ListFails, StopFails, MeterDebitFails, MeterSkips,
       MeterTick, MeterLists, MeterGet, MeterDebit, MeterStop, MeterDone, vars, cloud, history
  <2> QED
    BY <1>1, <2>1, FeesKept DEF Unpaid, At
<1>6. CASE Crash
  <2>1. owner' = owner /\ fees' = fees /\ \A h \in Handler : push'[h].at = "idle"
    BY <1>6 DEF Crash, cloud, Idle
  <2> QED
    BY <1>1, <2>1, FeesKept DEF Unpaid, At
<1>7. \A h \in Handler, m \in Machine, heard \in BOOLEAN :
        PushCreates(h, m, heard) => PushCreates(h, m, TRUE) \/ PushCreates(h, m, FALSE)
  OBVIOUS
<1> QED
  BY <1>2, <1>3, <1>4, <1>5, <1>6, <1>7 DEF Next

\* A caller never pays for more pushes than it has machines, whatever fails between the
\* debit, the creation and the refund (provision.go:470-471).
THEOREM PushesLeaveMachines == Spec => []PaidForMachines
<1>1. LedgerInv /\ FeesBacked => PaidForMachines
  <2> SUFFICES ASSUME LedgerInv, FeesBacked, NEW c \in Caller
               PROVE  fees[c] <= PushCost * Cardinality(Owned(c))
    BY DEF PaidForMachines, Owned
  <2>1. fees[c] + PushCost * Cardinality(Unpaid(c)) <= PushCost * Cardinality(Owned(c))
    BY DEF FeesBacked
  <2>2. /\ PushCost * Cardinality(Unpaid(c)) \in Nat /\ PushCost * Cardinality(Owned(c)) \in Nat
        /\ fees[c] \in Int
    BY OwnedCounts, UnpaidCounts, OneMore, MeteringAssumption DEF LedgerInv, TypeOK
  <2> QED
    BY <2>1, <2>2
<1>2. Spec => []FeesBacked
  BY Ledger, FeesInit, FeesStep, PTL DEF Spec
<1> QED
  BY <1>1, <1>2, Ledger, PTL

(***************************************************************************)
(* Why the metering loop stops an exhausted caller's machine.  Two facts   *)
(* carry ExhaustedIsStopped when fairness is taken away: a pass only comes *)
(* nearer to its end, and it does not let go of such a machine without     *)
(* stopping it, unless the cloud or the store fails (meter.go:34-72).      *)
(***************************************************************************)
\* What is left of a pass: three steps at most for every machine still to meter.
StepsAt == [next |-> 1, stop |-> 2, debit |-> 3]
PassLeft ==
    IF meter.at = "idle" THEN 0
    ELSE IF meter.at = "list" THEN 3 * Cardinality(Machine) + 4
    ELSE 3 * Cardinality(meter.todo) + StepsAt[meter.at]

\* The machines still to meter can be counted, and one less is one less.
LEMMA TodoCounts ==
  ASSUME meter \in Pass
  PROVE  /\ Cardinality(Machine) \in Nat /\ Cardinality(meter.todo) \in Nat
         /\ \A m \in meter.todo : Cardinality(meter.todo \ {m}) = Cardinality(meter.todo) - 1
<1>1. meter.todo \subseteq Machine /\ IsFiniteSet(Machine)
  BY MeteringAssumption DEF Pass
<1>2. IsFiniteSet(meter.todo)
  BY <1>1, FS_Subset
<1> QED
  BY <1>1, <1>2, FS_CardinalityType, FS_RemoveElement

\* The pass, while it is under way, is left as it is or comes nearer to its end.
LEMMA PassSteps ==
  ASSUME TypeOK, [Next]_vars, meter.at # "idle", meter' # meter PROVE PassLeft' < PassLeft
<1>1. meter \in Pass /\ running \subseteq Machine
  BY DEF TypeOK
<1>2. meter.at \in MeterPoint
  BY <1>1 DEF Pass
<1>3. /\ Cardinality(Machine) \in Nat /\ Cardinality(meter.todo) \in Nat
      /\ \A m \in meter.todo : Cardinality(meter.todo \ {m}) = Cardinality(meter.todo) - 1
  BY <1>1, TodoCounts
<1>4. PassLeft \in Nat /\ PassLeft > 0
  BY <1>2, <1>3 DEF PassLeft, StepsAt, MeterPoint
<1>5. CASE meter' = NoPass
  BY <1>4, <1>5 DEF PassLeft, NoPass
<1>6. CASE MeterLists
  <2>1. meter' = [meter EXCEPT !.at = "next", !.todo = running]
    BY <1>6 DEF MeterLists
  <2>2. meter'.at = "next" /\ meter'.todo = running
    BY <1>1, <2>1 DEF Pass
  <2>3. Cardinality(running) \in Nat /\ Cardinality(running) <= Cardinality(Machine)
    BY <1>1, MeteringAssumption, FS_Subset, FS_CardinalityType
  <2> QED
    BY <1>3, <1>6, <2>2, <2>3 DEF MeterLists, PassLeft, StepsAt
<1>7. ASSUME NEW m \in Machine, MeterGet(m) PROVE PassLeft' < PassLeft
  <2>1. meter.at = "next" /\ m \in meter.todo
    BY <1>7 DEF MeterGet
  <2>2. meter'.at \in {"next", "stop", "debit"} /\ meter'.todo = meter.todo \ {m}
    BY <1>1, <1>7 DEF MeterGet, Pass
  <2>3. PassLeft = 3 * Cardinality(meter.todo) + 1
    BY <2>1 DEF PassLeft, StepsAt
  <2>4. Cardinality(meter'.todo) = Cardinality(meter.todo) - 1
    BY <1>3, <2>1, <2>2
  <2>5. PassLeft' \in {3 * Cardinality(meter'.todo) + k : k \in 1 .. 3}
    BY <2>2 DEF PassLeft, StepsAt
  <2> QED
    BY <1>3, <2>3, <2>4, <2>5
<1>8. ASSUME NEW m \in Machine, MeterSkips(m) PROVE PassLeft' < PassLeft
  <2>1. meter.at = "next" /\ m \in meter.todo
    BY <1>8 DEF MeterSkips
  <2>2. meter'.at = "next" /\ meter'.todo = meter.todo \ {m}
    BY <1>1, <1>8, <2>1 DEF MeterSkips, Pass
  <2> QED
    BY <1>3, <2>1, <2>2 DEF PassLeft, StepsAt
<1>9. CASE MeterDebit \/ MeterDebitFails \/ MeterStop \/ StopFails
  <2>1. \/ meter.at = "debit" /\ meter'.at \in {"stop", "next"}
        \/ meter.at = "stop" /\ meter'.at = "next"
    BY <1>1, <1>9 DEF MeterDebit, MeterDebitFails, MeterStop, StopFails, Pass
  <2>2. meter'.todo = meter.todo
    BY <1>1, <1>9 DEF MeterDebit, MeterDebitFails, MeterStop, StopFails, Pass
  <2> QED
    BY <1>3, <2>1, <2>2 DEF PassLeft, StepsAt
<1>10. ~MeterTick
  BY DEF MeterTick
<1>11. \/ meter' = NoPass \/ MeterLists \/ MeterDebit \/ MeterDebitFails \/ MeterStop \/ StopFails
       \/ \E m \in Machine : MeterGet(m) \/ MeterSkips(m)
  <2>1. \A h \in Handler : ~(\/ PushRefused(h) \/ PushGet(h) \/ PushGetFails(h) \/ PushDebit(h) \/ Refund(h) \/ RefundFails(h)
                             \/ \E c \in Caller : PushAllow(h, c)
                             \/ \E b \in BOOLEAN : PushFails(h, b) \/ PushStarts(h, b)
                             \/ \E m \in Machine, heard \in BOOLEAN : PushCreates(h, m, heard))
    BY DEF PushRefused, PushGet, PushGetFails, PushDebit, Refund, RefundFails, PushAllow, PushFails, PushStarts, PushCreates
  <2>2. ~(BreakerCools \/ TimePasses \/ UNCHANGED vars \/ \E c \in Caller : Provision(c))
    BY DEF BreakerCools, TimePasses, vars, Provision
  <2> QED
    BY <1>10, <2>1, <2>2 DEF Next, MeterPass, MeterDone, ListFails, Crash
<1> QED
  BY <1>5, <1>6, <1>7, <1>8, <1>9, <1>11

\* A pass of the metering loop ends: no step lets it start over or go round in circles,
\* whatever fails and however many machines there are.
THEOREM PassComesNearer ==
  Spec => [][meter.at # "idle" /\ meter' # meter => PassLeft' < PassLeft]_vars
  BY PassSteps, TypeCorrect, PTL DEF Spec

\* A running machine whose owner has no credit left, and whether the pass under way has
\* yet to come to it.
Due(m)   == m \in running /\ owner[m] \in known /\ credits[owner[m]] = 0
Holds(m) == \/ meter.at = "list"
            \/ meter.at \in {"next", "debit", "stop"} /\ m \in meter.todo
            \/ meter.at = "stop" /\ m \in meter.on

\* A pass that has yet to come to such a machine keeps it in sight, or a fault is counted.
LEMMA PassHolds ==
  ASSUME TypeOK, [Next]_vars, NEW m \in Machine, Due(m), Holds(m), Due(m)'
  PROVE  Holds(m)' \/ faults' = faults + 1
<1>1. meter \in Pass /\ running \subseteq Machine
  BY DEF TypeOK
<1>2. CASE meter' = meter
  BY <1>2 DEF Holds
<1>3. CASE ListFails \/ StopFails \/ MeterDebitFails \/ Crash
  BY <1>3 DEF ListFails, StopFails, MeterDebitFails, Crash, Fault
<1>4. CASE MeterTick \/ MeterDone
  BY <1>4 DEF MeterTick, MeterDone, Holds
<1>5. CASE MeterLists
  <2>1. meter'.at = "next" /\ meter'.todo = running
    BY <1>1, <1>5 DEF MeterLists, Pass
  <2> QED
    BY <2>1 DEF Due, Holds
<1>6. ASSUME NEW k \in Machine, MeterGet(k) PROVE Holds(m)'
  <2>1. meter'.at \in {"next", "stop", "debit"} /\ meter'.todo = meter.todo \ {k} /\ meter'.on = {k}
    BY <1>1, <1>6 DEF MeterGet, Pass
  <2>2. CASE k # m
    BY <1>6, <2>1, <2>2 DEF MeterGet, Holds
  <2>3. CASE k = m
    <3> DEFINE full == (Rate * meter.dur) \div Scale
    <3>1. full \in Nat
      <4>1. meter.dur \in Nat /\ Rate \in Nat /\ Scale \in Nat \ {0}
        BY <1>1, MeteringAssumption DEF Pass
      <4>2. PICK x \in Nat : x = Rate * meter.dur
        BY <4>1
      <4>3. x \div Scale \in Nat
        BY <4>1, <4>2
      <4> QED
        BY <4>2, <4>3
    <3>2. credits[owner[m]] = 0
      BY DEF Due
    <3>3. meter' = [meter EXCEPT !.todo = @ \ {m}, !.on = {m}, !.bal = 0, !.charge = Least(full, 0),
                      !.at = IF Least(full, 0) > 0 THEN "debit" ELSE IF 0 = 0 THEN "stop" ELSE "next"]
      BY <1>6, <2>3, <3>2 DEF MeterGet
    <3> HIDE DEF full
    <3>4. Least(full, 0) = 0
      BY <3>1 DEF Least
    <3>5. meter'.at = "stop"
      BY <1>1, <3>3, <3>4 DEF Pass
    <3> QED
      BY <2>1, <2>3, <3>5 DEF Holds
  <2> QED
    BY <2>2, <2>3
<1>7. ASSUME NEW k \in Machine, MeterSkips(k) PROVE Holds(m)' \/ faults' = faults + 1
  <2>1. meter.at = "next" /\ meter'.at = "next" /\ meter'.todo = meter.todo \ {k}
    BY <1>1, <1>7 DEF MeterSkips, Pass
  <2>2. CASE k # m
    BY <2>1, <2>2 DEF Holds
  <2>3. CASE k = m
    BY <1>7, <2>3 DEF MeterSkips, Due, Fault
  <2> QED
    BY <2>2, <2>3
<1>8. CASE MeterDebit
  <2>1. meter.at = "debit" /\ meter'.at \in {"stop", "next"} /\ meter'.todo = meter.todo
    BY <1>1, <1>8 DEF MeterDebit, Pass
  <2> QED
    BY <2>1 DEF Holds
<1>9. CASE MeterStop
  <2>1. meter.at = "stop" /\ meter'.at = "next" /\ meter'.todo = meter.todo
    BY <1>1, <1>9 DEF MeterStop, Pass
  <2>2. m \notin meter.on
    BY <1>9 DEF MeterStop, Due
  <2> QED
    BY <2>1, <2>2 DEF Holds
<1>10. \/ meter' = meter \/ ListFails \/ StopFails \/ MeterDebitFails \/ Crash
       \/ MeterTick \/ MeterDone \/ MeterLists \/ MeterDebit \/ MeterStop
       \/ \E k \in Machine : MeterGet(k) \/ MeterSkips(k)
  <2>1. ASSUME NEW h \in Handler,
               \/ PushRefused(h) \/ PushGet(h) \/ PushGetFails(h) \/ PushDebit(h) \/ Refund(h) \/ RefundFails(h)
               \/ \E c \in Caller : PushAllow(h, c)
               \/ \E b \in BOOLEAN : PushFails(h, b) \/ PushStarts(h, b)
               \/ \E k \in Machine, heard \in BOOLEAN : PushCreates(h, k, heard)
        PROVE  meter' = meter
    BY <2>1 DEF PushRefused, PushGet, PushGetFails, PushDebit, Refund, RefundFails, PushAllow, PushFails, PushStarts, PushCreates
  <2>2. BreakerCools \/ TimePasses \/ UNCHANGED vars \/ (\E c \in Caller : Provision(c)) => meter' = meter
    BY DEF BreakerCools, TimePasses, vars, Provision
  <2> QED
    BY <2>1, <2>2 DEF Next, MeterPass
<1> QED
  BY <1>2, <1>3, <1>4, <1>5, <1>6, <1>7, <1>8, <1>9, <1>10

\* Such a machine stays in sight of the pass, or is no longer due, or a fault is counted.
KeepsDue ==
    \A m \in Machine : Due(m) /\ Holds(m) => Holds(m)' \/ ~Due(m)' \/ faults' = faults + 1

\* The pass that lists the running machines comes to every one whose owner has no credit
\* left, and is done with it only when it has stopped it, money has come back, or a call
\* to the cloud or the store has failed.
THEOREM DueAreNotForgotten == Spec => [][KeepsDue]_vars
<1>1. TypeOK /\ [Next]_vars => KeepsDue
  BY PassHolds DEF KeepsDue
<1> QED
  BY <1>1, TypeCorrect, PTL DEF Spec
=============================================================================
