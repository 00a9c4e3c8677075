------------------------- MODULE ManagedCallProofs -------------------------
(***************************************************************************)
(* Theorems about ManagedCall, for every set of callers, handlers and      *)
(* addresses and every price list, seed, cap, quota and threshold.         *)
(***************************************************************************)
EXTENDS ManagedCall, FiniteSetTheorems, TLAPS

\* The units of credit that calls under way hold are finitely many, and change by
\* what the one call that moves changes (sums are cardinalities, so no induction).
LEMMA UnitsOfOne ==
  ASSUME NEW h, NEW n \in Nat
  PROVE  IsFiniteSet({h} \X (1 .. n)) /\ Cardinality({h} \X (1 .. n)) = n
<1>1. IsFiniteSet({h}) /\ Cardinality({h}) = 1
  BY FS_Singleton
<1>2. IsFiniteSet(1 .. n) /\ Cardinality(1 .. n) = n
  BY FS_Interval
<1> DEFINE S == {h}
           T == 1 .. n
<1> HIDE DEF S, T
<1>3. IsFiniteSet(S) /\ IsFiniteSet(T) /\ Cardinality(S) = 1 /\ Cardinality(T) = n
  BY <1>1, <1>2 DEF S, T
<1>4. IsFiniteSet(S \X T) /\ Cardinality(S \X T) = Cardinality(S) * Cardinality(T)
  BY <1>3, FS_Product
<1>5. QED
  BY <1>3, <1>4 DEF S, T

\* Finitely many elements, each with a count, make finitely many units: what Held counts.
LEMMA UnitsFinite ==
  ASSUME NEW S, IsFiniteSet(S), NEW f \in [S -> Nat]
  PROVE  IsFiniteSet(UNION {{s} \X (1 .. f[s]) : s \in S})
<1> DEFINE T == {{s} \X (1 .. f[s]) : s \in S}
           g == [s \in S |-> {s} \X (1 .. f[s])]
<1>1. g \in Surjection(S, T)
  BY DEF Surjection
<1>2. IsFiniteSet(T)
  BY <1>1, FS_Surjection
<1>3. ASSUME NEW s \in S PROVE IsFiniteSet({s} \X (1 .. f[s]))
  <2>1. f[s] \in Nat
    OBVIOUS
  <2>2. QED
    BY <2>1, UnitsOfOne
<1>4. QED
  BY <1>2, <1>3, FS_UNION

\* The sum of f when only one of its values changes.
LEMMA UnitsChange ==
  ASSUME NEW S, IsFiniteSet(S), NEW f \in [S -> Nat], NEW g \in [S -> Nat], NEW x \in S,
         \A s \in S \ {x} : f[s] = g[s]
  PROVE  Cardinality(UNION {{s} \X (1 .. g[s]) : s \in S})
           = Cardinality(UNION {{s} \X (1 .. f[s]) : s \in S}) - f[x] + g[x]
<1> DEFINE U(h) == UNION {{s} \X (1 .. h[s]) : s \in S}
           Rest(h) == UNION {{s} \X (1 .. h[s]) : s \in S \ {x}}
           One(h) == {x} \X (1 .. h[x])
<1>1. Rest(f) = Rest(g)
  OBVIOUS
<1>2. ASSUME NEW h \in [S -> Nat]
      PROVE  Cardinality(U(h)) = Cardinality(Rest(h)) + h[x] /\ Cardinality(Rest(h)) \in Nat
  <2>1. U(h) = Rest(h) \cup One(h)
    OBVIOUS
  <2>2. Rest(h) \cap One(h) = {}
    OBVIOUS
  <2>3. IsFiniteSet(U(h))
    BY UnitsFinite
  <2>4. IsFiniteSet(Rest(h))
    BY <2>1, <2>3, FS_Subset
  <2>5. h[x] \in Nat
    OBVIOUS
  <2>6. IsFiniteSet(One(h)) /\ Cardinality(One(h)) = h[x]
    BY <2>5, UnitsOfOne
  <2> HIDE DEF U, Rest, One
  <2>7. Cardinality(Rest(h)) \in Nat
    BY <2>4, FS_CardinalityType
  <2>8. Cardinality(Rest(h) \cap One(h)) = 0
    BY <2>2, FS_EmptySet
  <2>9. Cardinality(U(h)) = Cardinality(Rest(h)) + Cardinality(One(h)) - 0
    BY <2>1, <2>4, <2>6, <2>8, FS_Union
  <2>10. QED
    BY <2>5, <2>6, <2>7, <2>9
<1>3. f[x] \in Nat /\ g[x] \in Nat
  OBVIOUS
<1> SUFFICES Cardinality(U(g)) = Cardinality(U(f)) - f[x] + g[x]
  OBVIOUS
<1> HIDE DEF U, Rest
<1>4. QED
  BY <1>1, <1>2, <1>3

\* The state has its type initially, and every step keeps it.
LEMMA InitTyped == Init => TypeOK
  BY ManagedAssumption DEF Init, TypeOK, FreshBreaker, BreakerState, Idle

\* The fields of a request and their types.
LEMMA RequestFields ==
  ASSUME NEW r \in Request
  PROVE  /\ r.caller \in Caller /\ r.ip \in IP /\ r.price \in Nat
         /\ r.held \in Nat /\ r.cost \in Nat
<1>1. r.price \in Price \cup {0}
  BY DEF Request
<1>2. r.price \in Nat
  <2>1. \A p \in Price \cup {0} : p \in Nat
    BY ManagedAssumption
  <2>2. QED
    BY <1>1, <2>1, Zenon
<1>3. r.caller \in Caller /\ r.ip \in IP
  BY DEF Request
<1>4. r.held \in Nat /\ r.cost \in Nat
  BY DEF Request
<1>5. QED
  BY <1>2, <1>3, <1>4

\* What each handler holds of a caller's credits is a natural number.
LEMMA HeldByType ==
  ASSUME TypeOK, NEW c \in Caller
  PROVE  [h \in Handler |-> HeldBy(h, c)] \in [Handler -> Nat]
<1> SUFFICES ASSUME NEW h \in Handler PROVE HeldBy(h, c) \in Nat
  OBVIOUS
<1>1. Active(h) => call[h] \in Request
  BY DEF TypeOK, Active, Idle
<1>2. QED
  BY <1>1 DEF HeldBy, Request

\* So the sum over the handlers is one too.
LEMMA HeldType ==
  ASSUME TypeOK, NEW c \in Caller
  PROVE  IsFiniteSet(Reserved(c)) /\ Held(c) \in Nat
<1> DEFINE f == [h \in Handler |-> HeldBy(h, c)]
<1>1. Reserved(c) = UNION {{h} \X (1 .. f[h]) : h \in Handler}
  BY DEF Reserved
<1>2. f \in [Handler -> Nat]
  BY HeldByType
<1> HIDE DEF f
<1>3. IsFiniteSet(Reserved(c))
  BY <1>1, <1>2, UnitsFinite, ManagedAssumption
<1>4. QED
  BY <1>3, FS_CardinalityType DEF Held

\* Every step keeps the types.
LEMMA NextTyped == TypeOK /\ [Next]_vars => TypeOK'
<1> SUFFICES ASSUME TypeOK, [Next]_vars PROVE TypeOK'
  OBVIOUS
<1> USE ManagedAssumption, ThresholdIsNat DEF TypeOK, history, store
<1>1. ASSUME NEW h \in Handler, NEW c \in Caller, NEW ip \in IP, NEW price \in Price,
             Allow(h, c, ip, price)
      PROVE  TypeOK'
  <2>1. NewRequest(c, ip, FALSE, price, "quota") \in Request
    BY DEF NewRequest, Request, Point, BreakerState
  <2>2. AfterAllow(breaker) \in BreakerState
    BY DEF AfterAllow, BreakerState
  <2>3. call' \in [Handler -> Request \cup {Idle}]
    BY <1>1, <2>1 DEF Allow
  <2>4. breaker' \in BreakerState /\ sinceOpen' \in Nat
    BY <1>1, <2>2 DEF Allow
  <2>5. QED
    BY <1>1, <2>3, <2>4 DEF Allow
<1>2. ASSUME NEW h \in Handler, NEW c \in Caller, NEW ip \in IP, BalanceRead(h, c, ip)
      PROVE  TypeOK'
  <2>1. NewRequest(c, ip, TRUE, 0, "get") \in Request
    BY DEF NewRequest, Request, Point, BreakerState
  <2>2. QED
    BY <1>2, <2>1 DEF BalanceRead
<1>3. ASSUME NEW h \in Handler, Active(h)
      PROVE  call[h] \in Request
  BY <1>3 DEF Active, Idle
<1>4. ASSUME NEW h \in Handler, NEW p \in Point, Active(h), Goto(h, p)
      PROVE  call' \in [Handler -> Request \cup {Idle}]
  BY <1>3, <1>4 DEF Goto, Request
<1>5. ASSUME NEW h \in Handler, Serve(h)
      PROVE  TypeOK'
  <2>0. Active(h) /\ call[h] \in Request
    BY <1>5, <1>3 DEF Serve, Admit, BalanceGet, Provision, ProvisionZero, Charge,
       StoreFails, BuildFails, CallFails, CallSucceeds, Refund, AddCost, Settle,
       LateStoreFails, At, Active
  <2>a. call[h].caller \in Caller /\ call[h].ip \in IP /\ call[h].price \in Nat
        /\ call[h].held \in Nat /\ call[h].cost \in Nat
    BY <2>0, RequestFields
  <2>b. ASSUME NEW p \in Point, Goto(h, p)
        PROVE  call' \in [Handler -> Request \cup {Idle}]
    BY <1>4, <2>0, <2>b
  <2>c. ASSUME NEW success \in BOOLEAN, Record(h, success)
        PROVE  breaker' \in BreakerState /\ sinceOpen' \in Nat
    <3>1. FreshBreaker \in BreakerState
      BY DEF FreshBreaker, BreakerState
    <3>2. AfterFailure(breaker) \in BreakerState
      BY DEF AfterFailure, BreakerState
    <3>3. QED
      BY <2>c, <3>1, <3>2 DEF Record, AfterRecord, AfterSuccess
  <2>1. CASE Admit(h)
    <3>1. call' \in [Handler -> Request \cup {Idle}]
      BY <2>1, <2>b DEF Admit, Point
    <3>2. QED
      BY <2>1, <2>a, <3>1 DEF Admit
  <2>2. CASE BalanceGet(h)
    BY <2>2, <2>b DEF BalanceGet, Point
  <2>3. CASE Refresh(h) /\ UNCHANGED <<breaker, calls, cents, kept, lost, absorbed,
                                       forwarded, sinceOpen, crashes>>
    BY <2>3, <2>a, <2>b DEF Refresh, AfterSeed, Point
  <2>4. ASSUME NEW n \in {0, Seed}, Insert(h, n),
               UNCHANGED <<breaker, calls, cents, kept, lost, absorbed,
                           forwarded, sinceOpen, crashes>>
        PROVE  TypeOK'
    BY <2>4, <2>a, <2>b DEF Insert, AfterSeed, Point
  <2>5. CASE Provision(h)
    BY <2>5, <2>b, <2>3, <2>4 DEF Provision, Point
  <2>6. CASE ProvisionZero(h)
    BY <2>6, <2>3, <2>4 DEF ProvisionZero
  <2>7. CASE Charge(h)
    <3>1. call' \in [Handler -> Request \cup {Idle}]
      BY <2>7, <2>0, <2>a, <2>b DEF Charge, Request, Point
    <3>2. QED
      BY <2>7, <2>a, <3>1 DEF Charge
  <2>8. CASE StoreFails(h)
    BY <2>8, <2>b DEF StoreFails, Point
  <2>9. CASE BuildFails(h)
    BY <2>9, <2>b DEF BuildFails, AfterFailedCall, Point
  <2>10. ASSUME NEW success \in BOOLEAN, CallFails(h, success)
         PROVE  TypeOK'
    BY <2>10, <2>a, <2>b, <2>c DEF CallFails, AfterFailedCall, Point
  <2>11. ASSUME NEW cost \in Reported, CallSucceeds(h, cost)
         PROVE  TypeOK'
    <3>1. call' \in [Handler -> Request \cup {Idle}]
      BY <2>11, <2>0 DEF CallSucceeds, Request, Point
    <3>2. breaker' \in BreakerState /\ sinceOpen' \in Nat
      BY <2>11, <2>c DEF CallSucceeds
    <3>3. QED
      BY <2>11, <2>a, <3>1, <3>2 DEF CallSucceeds
  <2>12. CASE Refund(h)
    BY <2>12, <2>a, <2>b DEF Refund, Point
  <2>13. CASE AddCost(h)
    BY <2>13, <2>a, <2>b DEF AddCost, AfterAddCost, Point
  <2>14. CASE Settle(h)
    BY <2>14, <2>a, <2>b DEF Settle, Point
  <2>15. CASE LateStoreFails(h)
    <3>1. call' \in [Handler -> Request \cup {Idle}]
      BY <2>15, <2>b DEF LateStoreFails, AfterAddCost, Point
    <3>2. lost' \in [Caller -> Int]
      BY <2>15, <2>a DEF LateStoreFails
    <3>3. QED
      BY <2>15, <3>1, <3>2 DEF LateStoreFails
  <2>16. QED
    BY <1>5, <2>1, <2>2, <2>5, <2>6, <2>7, <2>8, <2>9, <2>10, <2>11, <2>12, <2>13, <2>14, <2>15
    DEF Serve
<1>6. CASE Reload
  <2>1. breaker' \in BreakerState
    BY <1>6 DEF Reload, FreshBreaker, BreakerState
  <2>2. ASSUME NEW h \in Handler, Active(h)
        PROVE  [call[h] EXCEPT !.stale = TRUE] \in Request
    BY <1>3, <2>2 DEF Request
  <2>3. call' \in [Handler -> Request \cup {Idle}]
    BY <1>6, <2>2 DEF Reload
  <2>4. QED
    BY <1>6, <2>1, <2>3 DEF Reload
<1>7. CASE Crash
  <2>1. \A c \in Caller : Held(c) \in Nat
    BY HeldType
  <2>2. QED
    <3>1. lost' \in [Caller -> Int]
      BY <1>7, <2>1 DEF Crash
    <3>2. breaker' \in BreakerState
      BY <1>7 DEF Crash, FreshBreaker, BreakerState
    <3>3. call' \in [Handler -> Request \cup {Idle}]
      BY <1>7 DEF Crash
    <3>4. QED
      BY <1>7, <3>1, <3>2, <3>3 DEF Crash
<1>8. CASE BreakerCools
  BY <1>8 DEF BreakerCools, Cools, BreakerState
<1>9. ASSUME NEW c \in Caller, MintCools(c)
      PROVE  TypeOK'
  BY <1>9 DEF MintCools
<1>10. CASE UNCHANGED vars
  BY <1>10 DEF vars
<1>11. QED
  BY <1>1, <1>2, <1>5, <1>6, <1>7, <1>8, <1>9, <1>10 DEF Next, Arrive

\* ManagedCall's state always has its type, whatever the constants.
THEOREM TypeCorrect == Spec => []TypeOK
  BY InitTyped, NextTyped, PTL DEF Spec
-----------------------------------------------------------------------------
(* The ledger: Conservation, by way of where a debit can be.               *)

\* A debit is outstanding only while the partner is called or a refund is due.
HeldInFlight ==
  \A h \in Handler : call[h].at \notin {"idle", "send", "refund"} => call[h].held = 0

\* When one handler moves, the sum changes by the change of that handler's share.
LEMMA HeldChange ==
  ASSUME TypeOK, TypeOK', NEW h \in Handler, NEW c \in Caller,
         \A g \in Handler \ {h} : call'[g] = call[g]
  PROVE  Held(c)' = Held(c) - HeldBy(h, c) + HeldBy(h, c)'
<1> DEFINE f == [g \in Handler |-> HeldBy(g, c)]
           k == [g \in Handler |-> HeldBy(g, c)']
<1>1. f \in [Handler -> Nat]
  BY HeldByType
<1>2. k \in [Handler -> Nat]
  <2> SUFFICES ASSUME NEW g \in Handler PROVE HeldBy(g, c)' \in Nat
    OBVIOUS
  <2>1. Active(g)' => call'[g] \in Request
    BY DEF TypeOK, Active, Idle
  <2>2. QED
    BY <2>1, RequestFields DEF HeldBy
<1>3. \A g \in Handler \ {h} : f[g] = k[g]
  BY DEF HeldBy, Active
<1>4. Reserved(c) = UNION {{g} \X (1 .. f[g]) : g \in Handler}
  BY DEF Reserved
<1>5. Reserved(c)' = UNION {{g} \X (1 .. k[g]) : g \in Handler}
  BY DEF Reserved
<1>6. f[h] = HeldBy(h, c) /\ k[h] = HeldBy(h, c)'
  OBVIOUS
<1> HIDE DEF f, k
<1>7. QED
  BY <1>1, <1>2, <1>3, <1>4, <1>5, <1>6, UnitsChange, ManagedAssumption DEF Held

\* When no share changes, neither does the sum.
LEMMA HeldSame ==
  ASSUME NEW c \in Caller, \A h \in Handler : HeldBy(h, c)' = HeldBy(h, c)
  PROVE  Held(c)' = Held(c)
  BY DEF Held, Reserved

\* When every share is zero, so is the sum.
LEMMA HeldNone ==
  ASSUME NEW c \in Caller, \A h \in Handler : HeldBy(h, c) = 0
  PROVE  Held(c) = 0
<1>1. \A h \in Handler : {h} \X (1 .. HeldBy(h, c)) = {}
  OBVIOUS
<1>2. Reserved(c) = {}
  BY <1>1 DEF Reserved
<1>3. QED
  BY <1>2, FS_EmptySet DEF Held

\* What a step of h that neither keeps nor changes a balance does to Held.
LEMMA GotoHeld ==
  ASSUME TypeOK, TypeOK', NEW h \in Handler, NEW p \in Point, NEW c \in Caller,
         Active(h), Goto(h, p), p = "idle" => call[h].held = 0
  PROVE  Held(c)' = Held(c)
<1>1. call[h] \in Request /\ call[h].held \in Nat
  BY RequestFields DEF TypeOK, Active, Idle
<1>2. \A g \in Handler \ {h} : call'[g] = call[g]
  BY DEF Goto, TypeOK
<1>3. HeldBy(h, c)' = HeldBy(h, c)
  BY <1>1 DEF Goto, HeldBy, Active, Idle, TypeOK, Request
<1>4. Held(c) \in Nat /\ HeldBy(h, c) \in Nat
  BY <1>1, HeldType DEF HeldBy
<1>5. QED
  BY <1>2, <1>3, <1>4, HeldChange

\* A step of h that changes only its caller's account, by as much as it releases.
LEMMA BalancedStep ==
  ASSUME TypeOK, TypeOK', Conservation, NEW h \in Handler, Active(h),
         \A g \in Handler \ {h} : call'[g] = call[g],
         NEW c \in Caller,
         c = call[h].caller =>
           credits'[c] + HeldBy(h, c)' + kept'[c] + lost'[c] - granted'[c]
             = credits[c] + HeldBy(h, c) + kept[c] + lost[c] - granted[c],
         c # call[h].caller =>
           /\ HeldBy(h, c)' = 0
           /\ credits'[c] = credits[c] /\ kept'[c] = kept[c]
           /\ lost'[c] = lost[c] /\ granted'[c] = granted[c]
  PROVE  credits'[c] + Held(c)' + kept'[c] + lost'[c] = granted'[c]
<1>1. Held(c)' = Held(c) - HeldBy(h, c) + HeldBy(h, c)'
  BY HeldChange
<1>2. Held(c) \in Nat /\ HeldBy(h, c) \in Nat
  <2>1. call[h] \in Request
    BY DEF TypeOK, Active, Idle
  <2>2. QED
    BY <2>1, HeldType, RequestFields DEF HeldBy
<1>3. HeldBy(h, c)' \in Nat
  <2>1. Active(h)' => call'[h] \in Request
    BY DEF TypeOK, Active, Idle
  <2>2. QED
    BY <2>1, RequestFields DEF HeldBy
<1>4. c # call[h].caller => HeldBy(h, c) = 0
  BY DEF HeldBy
<1>5. /\ credits[c] \in Int /\ kept[c] \in Int /\ lost[c] \in Int /\ granted[c] \in Int
      /\ credits'[c] \in Int /\ kept'[c] \in Int /\ lost'[c] \in Int /\ granted'[c] \in Int
  BY ManagedAssumption DEF TypeOK
<1>6. credits[c] + Held(c) + kept[c] + lost[c] = granted[c]
  BY DEF Conservation
<1>7. CASE c = call[h].caller
  <2>1. credits'[c] + HeldBy(h, c)' + kept'[c] + lost'[c] - granted'[c]
          = credits[c] + HeldBy(h, c) + kept[c] + lost[c] - granted[c]
    BY <1>7
  <2>2. QED
    BY <2>1, <1>1, <1>2, <1>3, <1>5, <1>6
<1>8. CASE c # call[h].caller
  BY <1>8, <1>1, <1>2, <1>4, <1>5, <1>6
<1>9. QED
  BY <1>7, <1>8

\* A handler's step moves that handler alone, and it ends or stays with its caller.
LEMMA ServeMoves ==
  ASSUME TypeOK, NEW h \in Handler, Serve(h)
  PROVE  /\ Active(h) /\ call[h] \in Request
         /\ \A g \in Handler \ {h} : call'[g] = call[g]
         /\ call'[h] = Idle \/ (call'[h].at # "idle" /\ call'[h].caller = call[h].caller)
<1>1. Active(h)
  BY DEF Serve, Admit, BalanceGet, Provision, ProvisionZero, Charge,
     StoreFails, BuildFails, CallFails, CallSucceeds, Refund, AddCost, Settle,
       LateStoreFails, At, Active
<1>2. call[h] \in Request
  BY <1>1 DEF TypeOK, Active, Idle
<1>3. ASSUME NEW p \in Point, Goto(h, p)
      PROVE  /\ \A g \in Handler \ {h} : call'[g] = call[g]
             /\ call'[h] = Idle \/ (call'[h].at # "idle" /\ call'[h].caller = call[h].caller)
  BY <1>2, <1>3 DEF Goto, TypeOK, Request, Idle
<1>4. ASSUME NEW n, call' = [call EXCEPT ![h].at = "send", ![h].held = n]
      PROVE  /\ \A g \in Handler \ {h} : call'[g] = call[g]
             /\ call'[h].at # "idle" /\ call'[h].caller = call[h].caller
  BY <1>2, <1>4 DEF TypeOK, Request
<1>5. CASE Charge(h)
  BY <1>1, <1>2, <1>3, <1>4, <1>5 DEF Charge, Point
<1>6. ASSUME NEW cost \in Reported, CallSucceeds(h, cost)
      PROVE  /\ \A g \in Handler \ {h} : call'[g] = call[g]
             /\ call'[h] = Idle \/ (call'[h].at # "idle" /\ call'[h].caller = call[h].caller)
  BY <1>2, <1>6 DEF CallSucceeds, TypeOK, Request, Idle
<1>7. CASE Admit(h) \/ BalanceGet(h) \/ Provision(h) \/ ProvisionZero(h) \/ StoreFails(h)
           \/ BuildFails(h) \/ Refund(h) \/ AddCost(h) \/ Settle(h) \/ LateStoreFails(h)
  <2>1. CASE Admit(h) \/ BalanceGet(h) \/ StoreFails(h) \/ Refund(h) \/ AddCost(h) \/ Settle(h)
           \/ LateStoreFails(h)
    BY <1>1, <1>2, <1>3, <2>1 DEF Admit, BalanceGet, StoreFails, Refund, AddCost, AfterAddCost,
       Settle, LateStoreFails, Point
  <2>2. AfterSeed(h) => \E p \in Point : Goto(h, p)
    BY DEF AfterSeed, Point
  <2>3. CASE Provision(h) \/ ProvisionZero(h)
    <3>1. \E p \in Point : Goto(h, p)
      BY <2>2, <2>3 DEF Provision, ProvisionZero, Refresh, Insert, Point
    <3>2. QED
      BY <1>1, <1>2, <1>3, <3>1
  <2>4. CASE BuildFails(h)
    BY <1>1, <1>2, <1>3, <2>4 DEF BuildFails, AfterFailedCall, Point
  <2>5. QED
    BY <1>7, <2>1, <2>3, <2>4
<1>8. ASSUME NEW success \in BOOLEAN, CallFails(h, success)
      PROVE  /\ \A g \in Handler \ {h} : call'[g] = call[g]
             /\ call'[h] = Idle \/ (call'[h].at # "idle" /\ call'[h].caller = call[h].caller)
  BY <1>3, <1>8 DEF CallFails, AfterFailedCall, Point
<1>9. QED
  BY <1>1, <1>2, <1>5, <1>6, <1>7, <1>8 DEF Serve

\* Only a request in flight holds credits: kept by every step.
LEMMA InFlightStep == TypeOK /\ HeldInFlight /\ [Next]_vars => HeldInFlight'
<1> SUFFICES ASSUME TypeOK, HeldInFlight, [Next]_vars PROVE HeldInFlight'
  OBVIOUS
<1> USE DEF HeldInFlight
<1>1. ASSUME NEW h \in Handler, Serve(h)
      PROVE  HeldInFlight'
  <2>1. /\ Active(h) /\ call[h] \in Request
        /\ \A g \in Handler \ {h} : call'[g] = call[g]
    BY <1>1, ServeMoves
  <2>2. SUFFICES call'[h].at \notin {"idle", "send", "refund"} => call'[h].held = 0
    BY <2>1
  <2>3. ASSUME NEW p \in Point, Goto(h, p),
               p \in {"idle", "send", "refund"} \/ call[h].at \notin {"send", "refund"}
        PROVE  call'[h].at \notin {"idle", "send", "refund"} => call'[h].held = 0
    BY <2>1, <2>3 DEF Goto, TypeOK, Request, Idle, Active
  <2>4. CASE Admit(h) \/ BalanceGet(h) \/ StoreFails(h) \/ Refund(h) \/ AddCost(h) \/ Settle(h)
           \/ LateStoreFails(h)
    BY <2>1, <2>3, <2>4 DEF Admit, BalanceGet, StoreFails, Refund, AddCost, AfterAddCost,
       Settle, LateStoreFails, Point, At
  <2>5. CASE Provision(h) \/ ProvisionZero(h)
    <3>1. AfterSeed(h) => \E p \in Point : Goto(h, p)
      BY DEF AfterSeed, Point
    <3>2. \E p \in Point : Goto(h, p)
      BY <2>5, <3>1 DEF Provision, ProvisionZero, Refresh, Insert, Point
    <3>3. call[h].at \notin {"send", "refund"}
      BY <2>5 DEF Provision, ProvisionZero, At
    <3>4. QED
      BY <2>3, <3>2, <3>3
  <2>6. CASE BuildFails(h) \/ \E success \in BOOLEAN : CallFails(h, success)
    BY <2>3, <2>6 DEF BuildFails, CallFails, AfterFailedCall, Point
  <2>7. CASE \E cost \in Reported : CallSucceeds(h, cost)
    BY <2>1, <2>7 DEF CallSucceeds, TypeOK, Request, Idle
  <2>8. CASE Charge(h)
    <3>1. CASE call' = [call EXCEPT ![h].at = "send", ![h].held = call[h].price]
      BY <2>1, <3>1 DEF TypeOK, Request
    <3>2. CASE \E p \in {"idle", "send"} : Goto(h, p)
      BY <2>3, <3>2 DEF Point
    <3>3. QED
      BY <2>8, <3>1, <3>2 DEF Charge
  <2>9. QED
    BY <1>1, <2>4, <2>5, <2>6, <2>7, <2>8 DEF Serve
<1>2. ASSUME NEW h \in Handler, Arrive(h)
      PROVE  HeldInFlight'
  BY <1>2 DEF Arrive, Allow, BalanceRead, NewRequest, TypeOK
<1>3. CASE Reload
  <2>1. ASSUME NEW h \in Handler, Active(h)
        PROVE  call'[h].at = call[h].at /\ call'[h].held = call[h].held
    BY <1>3, <2>1 DEF Reload, TypeOK, Active, Idle, Request
  <2>2. ASSUME NEW h \in Handler, ~Active(h)
        PROVE  call'[h].at = "idle"
    BY <1>3, <2>2 DEF Reload, Idle
  <2>3. QED
    BY <2>1, <2>2 DEF Active
<1>4. CASE Crash
  BY <1>4 DEF Crash, Idle
<1>5. CASE BreakerCools \/ (\E c \in Caller : MintCools(c)) \/ UNCHANGED vars
  BY <1>5 DEF BreakerCools, MintCools, vars
<1>6. QED
  BY <1>1, <1>2, <1>3, <1>4, <1>5 DEF Next

\* A caller the ledger has not seen has nothing, and nothing is debited from it.
UnseenIsPoor == \A c \in Caller : ~Seen(c) => credits[c] = 0 /\ granted[c] = 0
HeldIsSeen == \A h \in Handler : Active(h) /\ call[h].held > 0 => Seen(call[h].caller)

\* What Serve(h) may do to the balance, the grant and the reservation of one call.
LEMMA ServePays ==
  ASSUME TypeOK, HeldInFlight, UnseenIsPoor, HeldIsSeen, NoOverdraft,
         NEW h \in Handler, Serve(h),
         NEW c, c = call[h].caller, NEW held, held = IF Active(h)' THEN call'[h].held ELSE 0
  PROVE  /\ \A d \in Caller \ {c} :
              /\ credits'[d] = credits[d] /\ kept'[d] = kept[d] /\ lost'[d] = lost[d]
              /\ granted'[d] = granted[d] /\ home'[d] = home[d]
         /\ credits'[c] + held + kept'[c] + lost'[c] - granted'[c]
              = credits[c] + call[h].held + kept[c] + lost[c] - granted[c]
         /\ credits'[c] >= 0
         /\ Seen(c) => home'[c] = home[c]
         /\ (Seen(c) \/ home'[c] = home[c]) => granted'[c] = granted[c]
         /\ ~Seen(c) /\ home'[c] = home[c] => credits'[c] = credits[c] /\ held = 0
<1> DEFINE Others == \A d \in Caller \ {c} :
              /\ credits'[d] = credits[d] /\ kept'[d] = kept[d] /\ lost'[d] = lost[d]
              /\ granted'[d] = granted[d] /\ home'[d] = home[d]
           Kept == credits'[c] + held + kept'[c] + lost'[c] - granted'[c]
                     = credits[c] + call[h].held + kept[c] + lost[c] - granted[c]
           Mine == /\ Kept
                   /\ credits'[c] >= 0
                   /\ Seen(c) => home'[c] = home[c]
                   /\ (Seen(c) \/ home'[c] = home[c]) => granted'[c] = granted[c]
                   /\ ~Seen(c) /\ home'[c] = home[c] => credits'[c] = credits[c] /\ held = 0
<1>1. /\ Active(h) /\ call[h] \in Request /\ call[h] # Idle
      /\ c \in Caller /\ call[h].ip \in IP /\ call[h].price \in Nat
      /\ call[h].held \in Nat /\ call[h].cost \in Nat
  BY ServeMoves, RequestFields DEF Active, Idle
<1>2. /\ credits[c] \in Int /\ kept[c] \in Int /\ lost[c] \in Int /\ granted[c] \in Int
      /\ credits[c] >= 0 /\ absorbed[c] \in Int
  BY <1>1, ManagedAssumption DEF TypeOK, NoOverdraft
<1>3. /\ call[h].at \notin {"send", "refund"} => call[h].held = 0
      /\ ~Seen(c) => call[h].held = 0 /\ credits[c] = 0 /\ granted[c] = 0
  BY <1>1, <1>2 DEF HeldInFlight, HeldIsSeen, UnseenIsPoor, Active
<1>4. ASSUME NEW p \in Point, Goto(h, p)
      PROVE  held = IF p = "idle" THEN 0 ELSE call[h].held
  BY <1>1, <1>4 DEF Goto, Idle, TypeOK, Request, Active
<1>5. ASSUME UNCHANGED <<credits, kept, lost, granted, home>>, held = call[h].held
      PROVE  Others /\ Mine
  BY <1>1, <1>2, <1>3, <1>5
<1>6. CASE Admit(h) \/ BalanceGet(h) \/ StoreFails(h)
  BY <1>3, <1>4, <1>5, <1>6 DEF Admit, BalanceGet, StoreFails, Point, At, store, history
<1>7. CASE AddCost(h)
  BY <1>3, <1>4, <1>5, <1>7 DEF AddCost, AfterAddCost, Point, At, history
<1>8. CASE BuildFails(h) \/ \E success \in BOOLEAN : CallFails(h, success)
  <2>1. held = call[h].held
    BY <1>1, <1>4, <1>8 DEF BuildFails, CallFails, AfterFailedCall, Point
  <2>2. QED
    BY <1>5, <1>8, <2>1 DEF BuildFails, CallFails, store, history
<1>9. ASSUME Refresh(h), call[h].held = 0, UNCHANGED <<kept, lost>>
      PROVE  Others /\ Mine
  BY <1>4, <1>5, <1>9 DEF Refresh, AfterSeed, Point
<1>10. ASSUME NEW n \in {0, Seed}, Insert(h, n), ~Seen(c), call[h].held = 0,
              UNCHANGED <<kept, lost>>
       PROVE  Others /\ Mine
  <2>1. n \in Nat
    BY ManagedAssumption
  <2>2. /\ home' = [home EXCEPT ![c] = call[h].ip]
        /\ credits' = [credits EXCEPT ![c] = n]
        /\ granted' = [granted EXCEPT ![c] = n]
    BY <1>10 DEF Insert
  <2>3. Others
    BY <1>1, <1>10, <2>2 DEF TypeOK
  <2>4. credits'[c] = n /\ granted'[c] = n /\ home'[c] # home[c] /\ kept'[c] = kept[c]
        /\ lost'[c] = lost[c]
    BY <1>1, <1>10, <2>2, ManagedAssumption DEF TypeOK, Seen
  <2>5. held = 0
    BY <1>4, <1>10 DEF Insert, AfterSeed, Point
  <2>6. /\ credits[c] = 0 /\ call[h].held = 0 /\ granted[c] = 0
        /\ kept[c] \in Int /\ lost[c] \in Int
    BY <1>2, <1>3, <1>10
  <2>7. Kept /\ credits'[c] >= 0
    BY <2>1, <2>4, <2>5, <2>6
  <2>8. Mine
    BY <1>10, <2>4, <2>7, Zenon
  <2>9. QED
    BY <2>3, <2>8
<1>11. CASE Provision(h)
  <2>1. call[h].held = 0 /\ UNCHANGED <<kept, lost>>
    BY <1>3, <1>11 DEF Provision, At
  <2>2. Refresh(h) \/ (Insert(h, Seed) /\ ~Seen(c))
        \/ (UNCHANGED <<credits, granted, home>> /\ \E p \in {"idle", "zero"} : Goto(h, p))
    BY <1>11 DEF Provision
  <2>3. CASE UNCHANGED <<credits, granted, home>> /\ \E p \in {"idle", "zero"} : Goto(h, p)
    BY <1>4, <1>5, <2>1, <2>3 DEF Point
  <2>4. QED
    BY <1>9, <1>10, <2>1, <2>2, <2>3
<1>12. CASE ProvisionZero(h)
  <2>1. call[h].held = 0 /\ UNCHANGED <<kept, lost>>
    BY <1>3, <1>12 DEF ProvisionZero, At
  <2>2. QED
    BY <1>9, <1>10, <1>12, <2>1 DEF ProvisionZero
<1>13. ASSUME UNCHANGED <<granted, home>>,
              \A d \in Caller \ {c} :
                credits'[d] = credits[d] /\ kept'[d] = kept[d] /\ lost'[d] = lost[d],
              credits'[c] >= 0, Kept, ~Seen(c) => credits'[c] = credits[c] /\ held = 0
       PROVE  Others /\ Mine
  BY <1>13, Zenon
<1>14. CASE Charge(h)
  <2>1. call[h].held = 0 /\ UNCHANGED <<kept, lost, granted, home>>
    BY <1>3, <1>14 DEF Charge, At, history
  <2>2. CASE credits[c] >= call[h].price
             /\ credits' = [credits EXCEPT ![c] = @ - call[h].price]
             /\ call' = [call EXCEPT ![h].at = "send", ![h].held = call[h].price]
    <3>1. held = call[h].price
      BY <1>1, <2>2 DEF TypeOK, Request, Active
    <3>2. credits' = [credits EXCEPT ![c] = credits[c] - call[h].price]
      BY <2>2
    <3>3. ~Seen(c) => call[h].price = 0
      BY <1>1, <1>2, <1>3, <2>2
    <3>4. /\ credits'[c] = credits[c] - call[h].price
          /\ \A d \in Caller \ {c} : credits'[d] = credits[d]
      BY <1>1, <3>2 DEF TypeOK
    <3>5. credits'[c] >= 0 /\ Kept
      BY <1>1, <1>2, <2>1, <2>2, <3>1, <3>4
    <3>6. ~Seen(c) => credits'[c] = credits[c] /\ held = 0
      BY <1>2, <3>1, <3>3, <3>4
    <3>7. QED
      BY <1>13, <2>1, <3>4, <3>5, <3>6
  <2>3. CASE UNCHANGED credits /\ \E p \in {"idle", "send"} : Goto(h, p)
    BY <1>4, <1>5, <2>1, <2>3 DEF Point
  <2>4. QED
    BY <1>14, <2>2, <2>3 DEF Charge
<1>15. ASSUME NEW cost \in Reported, CallSucceeds(h, cost)
       PROVE  Others /\ Mine
  <2>1. held = 0
    BY <1>1, <1>15 DEF CallSucceeds, TypeOK, Request, Active, Idle
  <2>2. UNCHANGED <<credits, lost, granted, home>>
    BY <1>15 DEF CallSucceeds, store
  <2>3. kept' = [kept EXCEPT ![c] = @ + call[h].held]
    BY <1>15 DEF CallSucceeds
  <2>4. kept'[c] = kept[c] + call[h].held
    BY <1>1, <2>3 DEF TypeOK
  <2>5. Others
    BY <1>1, <2>2, <2>3 DEF TypeOK
  <2>6. Mine
    BY <1>1, <1>2, <2>1, <2>2, <2>4
  <2>7. QED
    BY <2>5, <2>6
<1>16. CASE Refund(h)
  <2>1. held = 0
    BY <1>4, <1>16 DEF Refund, Point
  <2>2. credits' = [credits EXCEPT ![c] = credits[c] + call[h].held]
        /\ UNCHANGED <<kept, lost, granted, home>>
    BY <1>16 DEF Refund, history
  <2>3. /\ credits'[c] = credits[c] + call[h].held
        /\ \A d \in Caller \ {c} : credits'[d] = credits[d]
    BY <1>1, <2>2 DEF TypeOK
  <2>4. credits'[c] >= 0 /\ Kept
    BY <1>1, <1>2, <2>1, <2>2, <2>3
  <2>5. ~Seen(c) => credits'[c] = credits[c] /\ held = 0
    BY <1>2, <1>3, <2>1, <2>3
  <2>6. QED
    BY <1>13, <2>2, <2>3, <2>4, <2>5
<1>17. CASE Settle(h)
  <2>1. held = 0 /\ call[h].held = 0
    BY <1>3, <1>4, <1>17 DEF Settle, Point, At
  <2>2. PICK charge \in Int :
          /\ charge <= credits[c] /\ charge >= 0
          /\ credits' = [credits EXCEPT ![c] = @ - charge]
          /\ kept' = [kept EXCEPT ![c] = @ + charge]
          /\ UNCHANGED <<lost, granted, home>>
    <3>1. DEFINE charge == IF call[h].cost > credits[c] THEN credits[c] ELSE call[h].cost
    <3>2. charge \in Int /\ charge <= credits[c] /\ charge >= 0
      BY <1>1, <1>2
    <3>3. /\ credits' = [credits EXCEPT ![c] = @ - charge]
          /\ kept' = [kept EXCEPT ![c] = @ + charge]
          /\ UNCHANGED <<lost, granted, home>>
      BY <1>17 DEF Settle
    <3>4. QED
      BY <3>2, <3>3
  <2>3. kept'[c] = kept[c] + charge /\ \A d \in Caller \ {c} : kept'[d] = kept[d]
    BY <1>1, <2>2 DEF TypeOK
  <2>4. /\ credits'[c] = credits[c] - charge
        /\ \A d \in Caller \ {c} : credits'[d] = credits[d]
    BY <1>1, <2>2 DEF TypeOK
  <2>5. credits'[c] >= 0 /\ Kept
    BY <1>2, <2>1, <2>2, <2>3, <2>4
  <2>6. ~Seen(c) => credits'[c] = credits[c] /\ held = 0
    BY <1>2, <1>3, <2>1, <2>2, <2>4
  <2>7. QED
    BY <1>13, <2>2, <2>3, <2>4, <2>5, <2>6
<1>18. CASE LateStoreFails(h)
  <2>1. UNCHANGED <<credits, kept, granted, home>>
    BY <1>18 DEF LateStoreFails, store
  <2>2. CASE At(h, "refund") /\ lost' = [lost EXCEPT ![c] = @ + call[h].held] /\ Goto(h, "idle")
    <3>1. held = 0
      BY <1>4, <2>2 DEF Point
    <3>2. lost'[c] = lost[c] + call[h].held
      BY <1>1, <2>2 DEF TypeOK
    <3>3. Others
      BY <1>1, <2>1, <2>2 DEF TypeOK
    <3>4. Mine
      BY <1>1, <1>2, <2>1, <3>1, <3>2
    <3>5. QED
      BY <3>3, <3>4
  <2>3. CASE call[h].at \in {"addcost", "settle"} /\ UNCHANGED lost /\ \E p \in Point : Goto(h, p)
    BY <1>3, <1>4, <1>5, <2>1, <2>3
  <2>4. QED
    BY <1>18, <2>2, <2>3 DEF LateStoreFails, AfterAddCost, At, Point
<1>19. QED
  <2>1. Others /\ Mine
    BY <1>6, <1>7, <1>8, <1>11, <1>12, <1>14, <1>15, <1>16, <1>17, <1>18 DEF Serve
  <2>2. QED
    BY <2>1

\* The inductive invariant of the ledger.
LedgerInv ==
  TypeOK /\ HeldInFlight /\ UnseenIsPoor /\ HeldIsSeen /\ NoOverdraft /\ Conservation

\* The ledger's invariant holds at the start.
LEMMA LedgerInit == Init => LedgerInv
<1> SUFFICES ASSUME Init PROVE LedgerInv
  OBVIOUS
<1>1. TypeOK
  BY InitTyped
<1>2. HeldInFlight /\ HeldIsSeen
  BY DEF Init, HeldInFlight, HeldIsSeen, Active, Idle
<1>3. UnseenIsPoor /\ NoOverdraft
  BY DEF Init, UnseenIsPoor, NoOverdraft
<1>4. \A c \in Caller : Held(c) = 0
  BY HeldNone DEF Init, HeldBy, Active, Idle
<1>5. Conservation
  BY <1>4 DEF Init, Conservation
<1>6. QED
  BY <1>1, <1>2, <1>3, <1>5 DEF LedgerInv

\* A handler's step keeps the four parts of the ledger's invariant.
LEMMA LedgerServe ==
  ASSUME LedgerInv, TypeOK', NEW h \in Handler, Serve(h)
  PROVE  UnseenIsPoor' /\ HeldIsSeen' /\ NoOverdraft' /\ Conservation'
<1> DEFINE c == call[h].caller
           held == IF Active(h)' THEN call'[h].held ELSE 0
<1>1. /\ Active(h) /\ call[h] \in Request
      /\ \A g \in Handler \ {h} : call'[g] = call[g]
      /\ call'[h] = Idle \/ (call'[h].at # "idle" /\ call'[h].caller = c)
  BY ServeMoves DEF LedgerInv
<1>2. /\ \A d \in Caller \ {c} :
           /\ credits'[d] = credits[d] /\ kept'[d] = kept[d] /\ lost'[d] = lost[d]
           /\ granted'[d] = granted[d] /\ home'[d] = home[d]
      /\ credits'[c] + held + kept'[c] + lost'[c] - granted'[c]
           = credits[c] + call[h].held + kept[c] + lost[c] - granted[c]
      /\ credits'[c] >= 0
      /\ Seen(c) => home'[c] = home[c]
      /\ (Seen(c) \/ home'[c] = home[c]) => granted'[c] = granted[c]
      /\ ~Seen(c) /\ home'[c] = home[c] => credits'[c] = credits[c] /\ held = 0
  BY ServePays DEF LedgerInv
<1>3. c \in Caller
  BY <1>1, RequestFields
<1>4. NoOverdraft'
  BY <1>2 DEF LedgerInv, NoOverdraft
<1>5. UnseenIsPoor'
  BY <1>2 DEF LedgerInv, UnseenIsPoor, Seen
<1>6. HeldIsSeen'
  <2> SUFFICES ASSUME NEW g \in Handler, Active(g)', call'[g].held > 0
               PROVE  home'[call'[g].caller] # NoIP
    BY DEF HeldIsSeen, Seen
  <2>1. CASE g = h
    <3>1. call'[g].caller = c /\ held = call'[g].held
      BY <1>1, <2>1 DEF Active, Idle
    <3>2. held # 0
      BY <3>1
    <3>3. ~(~Seen(c) /\ home'[c] = home[c])
      BY <1>2, <3>2, Zenon
    <3>4. home'[c] # NoIP
      BY <1>2, <3>3 DEF Seen
    <3>5. QED
      BY <3>1, <3>4
  <2>2. CASE g # h
    <3>1. call'[g] = call[g] /\ Active(g)
      BY <1>1, <2>2 DEF Active
    <3>2. Seen(call[g].caller) /\ call[g].caller \in Caller
      <4>1. call[g] \in Request
        BY <3>1 DEF LedgerInv, TypeOK, Active, Idle
      <4>2. QED
        BY <3>1, <4>1, RequestFields DEF LedgerInv, HeldIsSeen
    <3>3. home'[call[g].caller] = home[call[g].caller]
      BY <1>2, <3>2
    <3>4. QED
      BY <3>1, <3>2, <3>3 DEF Seen
  <2>3. QED
    BY <2>1, <2>2
<1>7. Conservation'
  <2> SUFFICES ASSUME NEW d \in Caller
               PROVE  credits'[d] + Held(d)' + kept'[d] + lost'[d] = granted'[d]
    BY DEF Conservation
  <2>1. d = c => HeldBy(h, d)' = held /\ HeldBy(h, d) = call[h].held
    BY <1>1 DEF HeldBy, Active, Idle
  <2>2. d # c => HeldBy(h, d)' = 0
    BY <1>1 DEF HeldBy, Active, Idle
  <2>3. d = c =>
           credits'[d] + HeldBy(h, d)' + kept'[d] + lost'[d] - granted'[d]
             = credits[d] + HeldBy(h, d) + kept[d] + lost[d] - granted[d]
    BY <1>2, <2>1
  <2>4. d # c =>
           /\ HeldBy(h, d)' = 0
           /\ credits'[d] = credits[d] /\ kept'[d] = kept[d]
           /\ lost'[d] = lost[d] /\ granted'[d] = granted[d]
    BY <1>2, <2>2
  <2>5. TypeOK /\ Conservation
    BY DEF LedgerInv
  <2> HIDE DEF held
  <2>6. QED
    BY <1>1, <2>3, <2>4, <2>5, BalancedStep
<1>8. QED
  BY <1>4, <1>5, <1>6, <1>7

\* Every step keeps the ledger's invariant.
LEMMA LedgerStep == LedgerInv /\ [Next]_vars => LedgerInv'
<1> SUFFICES ASSUME LedgerInv, [Next]_vars PROVE LedgerInv'
  OBVIOUS
<1>1. TypeOK' /\ HeldInFlight'
  BY NextTyped, InFlightStep DEF LedgerInv
<1>2. ASSUME NEW h \in Handler, Serve(h)
      PROVE  LedgerInv'
  BY <1>1, <1>2, LedgerServe DEF LedgerInv
<1>3. ASSUME UNCHANGED <<credits, kept, lost, granted, home>>,
             \A h \in Handler, c \in Caller : HeldBy(h, c)' = HeldBy(h, c)
      PROVE  LedgerInv'
  <2>1. \A c \in Caller : Held(c)' = Held(c)
    BY <1>3, HeldSame
  <2>2. Conservation' /\ NoOverdraft' /\ UnseenIsPoor'
    BY <1>3, <2>1 DEF LedgerInv, Conservation, NoOverdraft, UnseenIsPoor, Seen
  <2>3. HeldIsSeen'
    <3> SUFFICES ASSUME NEW h \in Handler, NEW c \in Caller, Active(h)',
                        c = call'[h].caller, call'[h].held > 0
                 PROVE  home'[c] # NoIP
      <4>1. \A h \in Handler : Active(h)' => call'[h].caller \in Caller
        BY <1>1, RequestFields DEF TypeOK, Active, Idle
      <4>2. QED
        BY <4>1 DEF HeldIsSeen, Seen
    <3>1. HeldBy(h, c)' = call'[h].held
      BY DEF HeldBy
    <3>2. HeldBy(h, c) = call'[h].held
      BY <1>3, <3>1
    <3>3. Active(h) /\ call[h].caller = c /\ call[h].held > 0
      BY <3>2 DEF HeldBy
    <3>4. Seen(c)
      BY <3>3 DEF LedgerInv, HeldIsSeen
    <3>5. QED
      BY <1>3, <3>4 DEF Seen
  <2>4. QED
    BY <1>1, <2>2, <2>3 DEF LedgerInv
<1>4. ASSUME NEW h \in Handler, Arrive(h)
      PROVE  LedgerInv'
  <2>1. PICK c \in Caller, ip \in IP :
          BalanceRead(h, c, ip) \/ \E price \in Price : Allow(h, c, ip, price)
    BY <1>4 DEF Arrive
  <2>2. /\ ~Active(h) /\ \A g \in Handler \ {h} : call'[g] = call[g]
        /\ UNCHANGED <<credits, kept, lost, granted, home>>
    BY <2>1 DEF BalanceRead, Allow, store, history, LedgerInv, TypeOK
  <2>3. call'[h].held = 0
    BY <2>1 DEF BalanceRead, Allow, NewRequest, LedgerInv, TypeOK
  <2>4. \A g \in Handler, d \in Caller : HeldBy(g, d)' = HeldBy(g, d)
    BY <2>2, <2>3 DEF HeldBy, Active
  <2>5. QED
    BY <1>3, <2>2, <2>4
<1>5. CASE Reload
  <2>1. ASSUME NEW h \in Handler, NEW c \in Caller
        PROVE  HeldBy(h, c)' = HeldBy(h, c)
    <3>1. CASE Active(h)
      <4>1. call[h] \in Request
        BY <3>1 DEF LedgerInv, TypeOK, Active, Idle
      <4>2. call'[h] = [call[h] EXCEPT !.stale = TRUE]
        BY <1>5, <3>1 DEF Reload
      <4>3. call'[h].at = call[h].at /\ call'[h].held = call[h].held
            /\ call'[h].caller = call[h].caller
        BY <4>1, <4>2 DEF Request
      <4>4. QED
        BY <4>3 DEF HeldBy, Active
    <3>2. CASE ~Active(h)
      BY <1>5, <3>2 DEF Reload, HeldBy, Active, Idle
    <3>3. QED
      BY <3>1, <3>2
  <2>2. QED
    BY <1>3, <1>5, <2>1 DEF Reload, store
<1>6. CASE Crash
  <2>1. /\ \A h \in Handler : ~Active(h)'
        /\ UNCHANGED <<credits, kept, granted, home>>
        /\ lost' = [c \in Caller |-> lost[c] + Held(c)]
    BY <1>6 DEF Crash, Active, Idle, store
  <2>2. \A c \in Caller : Held(c)' = 0
    <3> SUFFICES ASSUME NEW c \in Caller PROVE Held(c)' = 0
      OBVIOUS
    <3>1. \A h \in Handler : {h} \X (1 .. HeldBy(h, c)') = {}
      BY <2>1 DEF HeldBy
    <3>2. Reserved(c)' = {}
      BY <3>1 DEF Reserved
    <3>3. QED
      BY <3>2, FS_EmptySet DEF Held
  <2>3. \A c \in Caller : Held(c) \in Nat
    BY HeldType DEF LedgerInv
  <2>4. Conservation'
    <3> SUFFICES ASSUME NEW c \in Caller
                 PROVE  credits'[c] + Held(c)' + kept'[c] + lost'[c] = granted'[c]
      BY DEF Conservation
    <3>1. credits[c] \in Int /\ kept[c] \in Int /\ lost[c] \in Int
      BY DEF LedgerInv, TypeOK
    <3>2. credits[c] + Held(c) + kept[c] + lost[c] = granted[c]
      BY DEF LedgerInv, Conservation
    <3>3. QED
      BY <2>1, <2>2, <2>3, <3>1, <3>2
  <2>5. HeldIsSeen' /\ NoOverdraft' /\ UnseenIsPoor'
    BY <2>1 DEF LedgerInv, HeldIsSeen, NoOverdraft, UnseenIsPoor, Seen
  <2>6. QED
    BY <1>1, <2>4, <2>5 DEF LedgerInv
<1>7. CASE BreakerCools \/ (\E c \in Caller : MintCools(c)) \/ UNCHANGED vars
  <2>1. UNCHANGED <<call, credits, kept, lost, granted, home>>
    BY <1>7 DEF BreakerCools, MintCools, vars, store, history
  <2>2. QED
    BY <1>3, <2>1 DEF HeldBy, Active
<1>8. QED
  BY <1>2, <1>4, <1>5, <1>6, <1>7 DEF Next

\* The ledger's invariant holds in every behaviour; the theorems below cite it.
LEMMA LedgerInvariant == Spec => []LedgerInv
  BY LedgerInit, LedgerStep, PTL DEF Spec

\* Whatever runs at once, crashes or fails, no credit appears and none goes
\* missing: it is in the balance, reserved, kept by a paid call, or stranded.
THEOREM CreditConserved == Spec => []Conservation
<1>1. LedgerInv => Conservation
  BY DEF LedgerInv
<1>2. QED
  BY <1>1, LedgerInvariant, PTL

\* No interleaving of debits, refunds and settlements overdraws a balance.
THEOREM NeverOverdrawn == Spec => []NoOverdraft
<1>1. LedgerInv => NoOverdraft
  BY DEF LedgerInv
<1>2. QED
  BY <1>1, LedgerInvariant, PTL

\* Once the ledger knows a caller, nothing seeds it again.
THEOREM GrantsAreFinal == Spec => GrantIsFinal
<1> DEFINE Final == \A c \in Caller : Seen(c) => granted'[c] = granted[c] /\ home'[c] = home[c]
<1>1. LedgerInv /\ [Next]_vars => [Final]_vars
  <2> SUFFICES ASSUME LedgerInv, Next PROVE Final
    OBVIOUS
  <2>1. CASE \E h \in Handler : Serve(h)
    <3>1. PICK h \in Handler : Serve(h)
      BY <2>1
    <3>2. ASSUME NEW c \in Caller, Seen(c)
          PROVE  granted'[c] = granted[c] /\ home'[c] = home[c]
      BY <3>1, <3>2, ServePays DEF LedgerInv
    <3>3. QED
      BY <3>2
  <2>2. CASE ~\E h \in Handler : Serve(h)
    <3>1. UNCHANGED <<granted, home>>
      BY <2>2 DEF Next, Arrive, Allow, BalanceRead, MintCools, BreakerCools, Reload, Crash,
         store, history
    <3>2. QED
      BY <3>1
  <2>3. QED
    BY <2>1, <2>2
<1>2. QED
  BY <1>1, LedgerInvariant, PTL DEF Spec, GrantIsFinal
-----------------------------------------------------------------------------
(* The breaker and the grant cap.                                          *)

\* An open breaker has let at most its trial through, and none once it failed.
TrialInv == breaker.open => Threshold > 0 /\ sinceOpen <= IF breaker.probing THEN 1 ELSE 0

\* Every step keeps the trial's invariant.
LEMMA TrialStep == TypeOK /\ TrialInv /\ [Next]_vars => TrialInv'
<1> SUFFICES ASSUME TypeOK, TrialInv, [Next]_vars PROVE TrialInv'
  OBVIOUS
<1> USE ThresholdIsNat DEF TrialInv
<1>1. breaker \in BreakerState /\ sinceOpen \in Nat
  BY DEF TypeOK
<1>2. ASSUME NEW h \in Handler, NEW success \in BOOLEAN, Record(h, success)
      PROVE  TrialInv'
  <2>1. CASE call[h].stale
    BY <1>2, <2>1 DEF Record
  <2>2. CASE ~call[h].stale /\ success
    BY <1>1, <1>2, <2>2 DEF Record, AfterRecord, AfterSuccess, FreshBreaker
  <2>3. CASE ~call[h].stale /\ ~success
    <3>1. breaker' = AfterFailure(breaker) /\ sinceOpen' = 0
      BY <1>2, <2>3 DEF Record, AfterRecord
    <3>2. CASE Threshold = 0
      BY <1>1, <3>1, <3>2 DEF AfterFailure
    <3>3. CASE Threshold > 0
      BY <3>1, <3>3
    <3>4. QED
      BY <3>2, <3>3
  <2>4. QED
    BY <2>1, <2>2, <2>3
<1>3. ASSUME NEW h \in Handler, NEW c \in Caller, NEW ip \in IP, NEW price \in Price,
             Allow(h, c, ip, price)
      PROVE  TrialInv'
  <2>1. CASE breaker.open
    <3>1. ~breaker.probing /\ Threshold > 0 /\ sinceOpen = 0
      BY <1>1, <1>3, <2>1 DEF Allow, Allows, BreakerState
    <3>2. breaker'.probing /\ sinceOpen' = 1
      BY <1>1, <1>3, <2>1, <3>1 DEF Allow, AfterAllow, BreakerState
    <3>3. QED
      BY <3>1, <3>2
  <2>2. CASE ~breaker.open
    BY <1>1, <1>3, <2>2 DEF Allow, AfterAllow, BreakerState
  <2>3. QED
    BY <2>1, <2>2
<1>4. CASE Reload \/ Crash
  BY <1>4 DEF Reload, Crash, FreshBreaker
<1>5. CASE BreakerCools
  BY <1>1, <1>5 DEF BreakerCools, Cools, BreakerState, history
<1>6. ASSUME UNCHANGED <<breaker, sinceOpen>>
      PROVE  TrialInv'
  BY <1>6
<1>7. ASSUME NEW h \in Handler, Serve(h)
      PROVE  TrialInv'
  <2>1. CASE \E success \in BOOLEAN : CallFails(h, success)
    BY <1>2, <2>1 DEF CallFails
  <2>2. CASE \E cost \in Reported : CallSucceeds(h, cost)
    BY <1>2, <2>2 DEF CallSucceeds
  <2>3. CASE Admit(h) \/ BalanceGet(h) \/ Provision(h) \/ ProvisionZero(h) \/ Charge(h)
             \/ StoreFails(h) \/ BuildFails(h) \/ Refund(h) \/ AddCost(h) \/ Settle(h)
             \/ LateStoreFails(h)
    BY <1>6, <2>3 DEF Admit, BalanceGet, Provision, ProvisionZero, Charge, StoreFails,
       BuildFails, Refund, AddCost, Settle, LateStoreFails, history
  <2>4. QED
    BY <1>7, <2>1, <2>2, <2>3 DEF Serve
<1>8. CASE (\E c \in Caller : MintCools(c)) \/ UNCHANGED vars
           \/ \E h \in Handler, c \in Caller, ip \in IP : BalanceRead(h, c, ip)
  BY <1>6, <1>8 DEF MintCools, BalanceRead, vars, history
<1>9. QED
  BY <1>3, <1>4, <1>5, <1>7, <1>8 DEF Next, Arrive

\* However late the outcomes of calls from before it opened come in, an open
\* breaker lets one call through per cooldown.
THEOREM OneTrial == Spec => []OneTrialPerCooldown
<1>1. Init => TrialInv
  BY DEF Init, FreshBreaker, TrialInv
<1>2. TypeOK /\ TrialInv => OneTrialPerCooldown
  BY DEF TypeOK, BreakerState, TrialInv, OneTrialPerCooldown
<1>3. QED
  BY <1>1, <1>2, TypeCorrect, TrialStep, PTL DEF Spec

\* The callers on ip with a budget.
Funded(ip) == {c \in SeenFrom(ip) : granted[c] > 0}

\* The callers of an address are finitely many, and those granted credits among those seen.
LEMMA FundedFinite ==
  ASSUME NEW ip
  PROVE  /\ IsFiniteSet(Funded(ip)) /\ Cardinality(Funded(ip)) \in Nat
         /\ IsFiniteSet(SeenFrom(ip)) /\ Cardinality(SeenFrom(ip)) \in Nat
         /\ Cardinality(Funded(ip)) <= Cardinality(SeenFrom(ip))
<1>1. IsFiniteSet(SeenFrom(ip))
  BY ManagedAssumption, FS_Subset DEF SeenFrom
<1>2. QED
  BY <1>1, FS_Subset, FS_CardinalityType DEF Funded

\* Every step keeps the cap on the grants of one address.
LEMMA GrantCapStep == LedgerInv /\ GrantCap /\ [Next]_vars => GrantCap'
<1> SUFFICES ASSUME LedgerInv, GrantCap, [Next]_vars, MaxPerIP > 0, NEW ip \in IP
             PROVE  Cardinality(Funded(ip)') <= MaxPerIP
  BY DEF GrantCap, Funded
<1>1. Cardinality(Funded(ip)) <= MaxPerIP
  BY DEF GrantCap, Funded
<1>2. ASSUME UNCHANGED <<granted, home>>
      PROVE  Cardinality(Funded(ip)') <= MaxPerIP
  BY <1>1, <1>2 DEF Funded, SeenFrom
<1>3. ASSUME NEW h \in Handler, Serve(h)
      PROVE  Cardinality(Funded(ip)') <= MaxPerIP
  <2> DEFINE c == call[h].caller
  <2>1. c \in Caller /\ call[h].ip \in IP
    BY <1>3, ServeMoves, RequestFields DEF LedgerInv
  <2>2. ASSUME NEW n, Insert(h, n), ~Seen(c)
        PROVE  /\ Funded(ip)' \subseteq Funded(ip) \cup {c}
               /\ call[h].ip # ip \/ ~(n > 0) => Funded(ip)' \subseteq Funded(ip)
    BY <2>1, <2>2 DEF Insert, Funded, SeenFrom, Seen, LedgerInv, TypeOK
  <2>3. ASSUME Funded(ip)' \subseteq Funded(ip)
        PROVE  Cardinality(Funded(ip)') <= MaxPerIP
    <3>1. Cardinality(Funded(ip)') <= Cardinality(Funded(ip)) /\ Cardinality(Funded(ip)') \in Nat
      BY <2>3, FundedFinite, FS_Subset, FS_CardinalityType
    <3>2. QED
      BY <1>1, <3>1, FundedFinite, ManagedAssumption
  <2>4. CASE Provision(h)
    <3>1. CASE Insert(h, Seed) /\ ~Seen(c) /\ Cardinality(SeenFrom(call[h].ip)) < MaxPerIP
      <4>1. CASE call[h].ip = ip
        <5>1. Cardinality(Funded(ip)) < MaxPerIP
          BY <3>1, <4>1, FundedFinite, ManagedAssumption
        <5>2. /\ IsFiniteSet(Funded(ip) \cup {c})
              /\ Cardinality(Funded(ip) \cup {c}) <= Cardinality(Funded(ip)) + 1
          <6>1. IsFiniteSet(Funded(ip)) /\ Cardinality(Funded(ip)) \in Nat
            BY FundedFinite
          <6>2. Cardinality(Funded(ip) \cup {c}) = IF c \in Funded(ip) THEN Cardinality(Funded(ip))
                                                   ELSE Cardinality(Funded(ip)) + 1
            BY <6>1, FS_AddElement
          <6>3. IsFiniteSet(Funded(ip) \cup {c})
            BY <6>1, FS_AddElement
          <6>4. QED
            BY <6>1, <6>2, <6>3
        <5>3. /\ Cardinality(Funded(ip)') <= Cardinality(Funded(ip) \cup {c})
              /\ Cardinality(Funded(ip)') \in Nat /\ Cardinality(Funded(ip) \cup {c}) \in Nat
          BY <2>2, <3>1, <5>2, FS_Subset, FS_CardinalityType
        <5>4. QED
          BY <5>1, <5>2, <5>3, FundedFinite, ManagedAssumption
      <4>2. CASE call[h].ip # ip
        BY <2>2, <2>3, <3>1, <4>2
      <4>3. QED
        BY <4>1, <4>2
    <3>2. CASE UNCHANGED <<granted, home>>
      BY <1>2, <3>2
    <3>3. Refresh(h) => UNCHANGED <<granted, home>>
      BY DEF Refresh
    <3>4. Cardinality(SeenFrom(call[h].ip)) \in Nat
      BY FundedFinite
    <3>5. QED
      BY <2>4, <3>1, <3>2, <3>3, <3>4, ManagedAssumption DEF Provision
  <2>5. CASE ProvisionZero(h)
    <3>1. (Insert(h, 0) /\ ~Seen(c)) \/ UNCHANGED <<granted, home>>
      BY <2>5 DEF ProvisionZero, Refresh
    <3>2. CASE Insert(h, 0) /\ ~Seen(c)
      BY <2>2, <2>3, <3>2
    <3>3. QED
      BY <1>2, <3>1, <3>2
  <2>6. CASE ~Provision(h) /\ ~ProvisionZero(h)
    BY <1>2, <1>3, <2>6 DEF Serve, Admit, BalanceGet, Charge, StoreFails, BuildFails, CallFails,
       CallSucceeds, Refund, AddCost, Settle, LateStoreFails, store, history
  <2>7. QED
    BY <2>4, <2>5, <2>6
<1>4. CASE ~\E h \in Handler : Serve(h)
  BY <1>2, <1>4 DEF Next, Arrive, Allow, BalanceRead, MintCools, BreakerCools, Reload, Crash,
     store, history, vars
<1>5. QED
  BY <1>3, <1>4

\* However the transactions of first calls from one address interleave, no more
\* than creditMaxPerIP of its callers get a budget.
THEOREM CapHolds == Spec => []GrantCap
<1>1. Init => GrantCap
  <2> SUFFICES ASSUME Init, NEW ip \in IP, MaxPerIP > 0
               PROVE  Cardinality({c \in SeenFrom(ip) : granted[c] > 0}) <= MaxPerIP
    BY DEF GrantCap
  <2>1. {c \in SeenFrom(ip) : granted[c] > 0} = {}
    BY DEF Init, SeenFrom
  <2>2. QED
    BY <2>1, FS_EmptySet, ManagedAssumption
<1>2. QED
  BY <1>1, LedgerInvariant, GrantCapStep, PTL DEF Spec
-----------------------------------------------------------------------------
(* The quota, counted where the partner is called.                         *)

\* h serves a call that Admit has counted and that is not at the partner yet.
Owes(h) == call[h].at \in {"seed", "zero", "charge", "send"} /\ ~call[h].read
Owing(c) == {h \in Handler : Owes(h) /\ call[h].caller = c}

\* Only balance reads begin with Get, and no balance read is counted, charged or sent.
ReadsApart ==
  \A h \in Handler : /\ call[h].at = "get" => call[h].read
                     /\ call[h].at \in {"quota", "charge", "send"} => ~call[h].read

\* What is forwarded or may yet be is counted; only what Admit counts is.
Counted == \A c \in Caller : forwarded[c] + Cardinality(Owing(c)) <= calls[c]
WithinQuota == Quota > 0 => \A c \in Caller : calls[c] <= Quota
QuotaInv == TypeOK /\ ReadsApart /\ Counted /\ WithinQuota

\* The requests that owe a unit of quota are finitely many.
LEMMA OwingFinite == ASSUME NEW c PROVE IsFiniteSet(Owing(c)) /\ Cardinality(Owing(c)) \in Nat
  BY ManagedAssumption, FS_Subset, FS_CardinalityType DEF Owing

\* A step of handler h after which what it owes, what is counted and what is forwarded agree.
LEMMA QuotaMoves ==
  ASSUME QuotaInv, TypeOK', ReadsApart', WithinQuota', NEW h \in Handler, NEW c \in Caller,
         \A g \in Handler \ {h} : call'[g] = call[g],
         Owes(h) => call[h].caller = c,
         Owes(h)' => call'[h].caller = c,
         \A d \in Caller \ {c} : forwarded'[d] = forwarded[d] /\ calls'[d] = calls[d],
         \/ ~Owes(h) /\ Owes(h)' /\ calls'[c] = calls[c] + 1 /\ forwarded'[c] = forwarded[c]
         \/ Owes(h) /\ ~Owes(h)' /\ calls'[c] = calls[c] /\ forwarded'[c] = forwarded[c] + 1
         \/ (Owes(h)' => Owes(h)) /\ calls'[c] = calls[c] /\ forwarded'[c] = forwarded[c]
  PROVE  QuotaInv'
<1>1. Counted'
  <2> SUFFICES ASSUME NEW d \in Caller
               PROVE  forwarded'[d] + Cardinality(Owing(d)') <= calls'[d]
    BY DEF Counted, Owing, Owes
  <2>1. /\ forwarded[d] + Cardinality(Owing(d)) <= calls[d]
        /\ forwarded[d] \in Nat /\ calls[d] \in Nat /\ Cardinality(Owing(d)) \in Nat
    BY OwingFinite DEF QuotaInv, Counted, TypeOK
  <2>2. CASE d # c
    <3>1. Owing(d)' = Owing(d)
      BY <2>2 DEF Owing, Owes
    <3> QED
      BY <2>1, <2>2, <3>1
  <2>3. CASE d = c
    <3>1. CASE ~Owes(h) /\ Owes(h)' /\ calls'[c] = calls[c] + 1 /\ forwarded'[c] = forwarded[c]
      <4>1. Owing(c)' = Owing(c) \cup {h} /\ h \notin Owing(c)
        BY <3>1 DEF Owing, Owes
      <4>2. Cardinality(Owing(c)') = Cardinality(Owing(c)) + 1
        BY <4>1, OwingFinite, FS_AddElement
      <4> QED
        BY <2>1, <2>3, <3>1, <4>2
    <3>2. CASE Owes(h) /\ ~Owes(h)' /\ calls'[c] = calls[c] /\ forwarded'[c] = forwarded[c] + 1
      <4>1. Owing(c)' = Owing(c) \ {h} /\ h \in Owing(c)
        BY <3>2 DEF Owing, Owes
      <4>2. Cardinality(Owing(c)') = Cardinality(Owing(c)) - 1
        BY <4>1, OwingFinite, FS_RemoveElement
      <4> QED
        BY <2>1, <2>3, <3>2, <4>2
    <3>3. CASE (Owes(h)' => Owes(h)) /\ calls'[c] = calls[c] /\ forwarded'[c] = forwarded[c]
      <4>1. Owing(c)' \subseteq Owing(c)
        BY <3>3 DEF Owing, Owes
      <4>2. Cardinality(Owing(c)') <= Cardinality(Owing(c)) /\ Cardinality(Owing(c)') \in Nat
        BY <4>1, OwingFinite, FS_Subset, FS_CardinalityType
      <4> QED
        BY <2>1, <2>3, <3>3, <4>2
    <3> QED
      BY <3>1, <3>2, <3>3
  <2> QED
    BY <2>2, <2>3
<1> QED
  BY <1>1 DEF QuotaInv

\* The steps of a handler that is serving a request.
LEMMA QuotaServes ==
  ASSUME QuotaInv, TypeOK', NEW h \in Handler, Serve(h)
  PROVE  QuotaInv'
<1>1. /\ call \in [Handler -> Request \cup {Idle}]
      /\ calls \in [Caller -> Nat] /\ forwarded \in [Caller -> Nat]
      /\ call[h].at = "get" => call[h].read
      /\ call[h].at \in {"quota", "charge", "send"} => ~call[h].read
  BY DEF QuotaInv, TypeOK, ReadsApart
<1>2. call[h].at # "idle"
  BY DEF Serve, Admit, BalanceGet, Provision, ProvisionZero, Charge, StoreFails, BuildFails,
     CallFails, CallSucceeds, Refund, AddCost, Settle, LateStoreFails, At
<1>3. call[h] \in Request
  BY <1>1, <1>2 DEF Idle
<1> DEFINE c == call[h].caller
<1>4. c \in Caller /\ call[h].read \in BOOLEAN
  BY <1>3 DEF Request
\* What a step may make of the request: where it goes on, or that it ends.
<1>5. ASSUME NEW p \in Point, Goto(h, p)
      PROVE  /\ \A g \in Handler \ {h} : call'[g] = call[g]
             /\ call'[h].at = p
             /\ p # "idle" => call'[h].caller = c /\ call'[h].read = call[h].read
  BY <1>1, <1>3, <1>5 DEF Goto, Request, Idle
<1>6. ASSUME \A g \in Handler \ {h} : call'[g] = call[g],
             call'[h].at = "get" => call'[h].read,
             call'[h].at \in {"quota", "charge", "send"} => ~call'[h].read
      PROVE  ReadsApart'
  BY <1>6 DEF QuotaInv, ReadsApart
\* A step that counts and forwards nothing, and owes nothing it did not owe.
<1>7. ASSUME NEW p \in Point, Goto(h, p), UNCHANGED <<calls, forwarded>>,
             p \in {"get", "quota"} => FALSE,
             p \in {"charge", "send"} => ~call[h].read,
             p \in {"seed", "zero", "charge", "send"} /\ ~call[h].read => Owes(h)
      PROVE  QuotaInv'
  <2>1. ReadsApart'
    BY <1>5, <1>6, <1>7
  <2>2. WithinQuota'
    BY <1>7 DEF QuotaInv, WithinQuota
  <2>3. (Owes(h)' => Owes(h)) /\ (Owes(h)' => call'[h].caller = c)
    BY <1>5, <1>7 DEF Owes
  <2> QED
    BY <1>4, <1>5, <1>7, <2>1, <2>2, <2>3, QuotaMoves
<1>8. CASE Admit(h)
  <2>1. call[h].at = "quota" /\ ~call[h].read /\ forwarded' = forwarded
    BY <1>1, <1>8 DEF Admit, At, history
  <2>2. CASE Goto(h, "idle") /\ UNCHANGED calls
    BY <1>7, <2>1, <2>2 DEF Point
  <2>3. CASE /\ Goto(h, IF Mode = "none" THEN "send" ELSE "seed")
             /\ calls' = [calls EXCEPT ![c] = @ + 1]
             /\ ~(Quota > 0 /\ calls[c] >= Quota)
    <3>1. PICK p \in {"send", "seed"} : Goto(h, p)
      BY <2>3
    <3>2. /\ \A g \in Handler \ {h} : call'[g] = call[g]
          /\ call'[h].at = p /\ call'[h].caller = c /\ call'[h].read = call[h].read
      BY <1>5, <3>1 DEF Point
    <3>3. ReadsApart'
      BY <1>6, <2>1, <3>2
    <3>4. calls'[c] = calls[c] + 1 /\ \A d \in Caller \ {c} : calls'[d] = calls[d]
      BY <1>1, <1>4, <2>3
    <3>5. WithinQuota'
      BY <1>1, <1>4, <2>3, <3>4, ManagedAssumption DEF QuotaInv, WithinQuota
    <3>6. ~Owes(h) /\ Owes(h)'
      BY <2>1, <3>2 DEF Owes
    <3> QED
      BY <1>4, <2>1, <3>2, <3>3, <3>4, <3>5, <3>6, QuotaMoves
  <2> QED
    BY <1>8, <2>2, <2>3 DEF Admit
<1>9. CASE BalanceGet(h)
  <2>1. call[h].at = "get" /\ UNCHANGED <<calls, forwarded>>
    BY <1>9 DEF BalanceGet, At, store, history
  <2>2. PICK p \in {"seed", "idle"} : Goto(h, p)
    BY <1>9 DEF BalanceGet
  <2> QED
    BY <1>1, <1>7, <2>1, <2>2 DEF Point
<1>10. CASE Provision(h) \/ ProvisionZero(h)
  <2>1. call[h].at \in {"seed", "zero"} /\ UNCHANGED <<calls, forwarded>>
    BY <1>10 DEF Provision, ProvisionZero, At
  <2>2. Goto(h, "idle") \/ Goto(h, "zero") \/ (Goto(h, "charge") /\ ~call[h].read)
    BY <1>10 DEF Provision, ProvisionZero, Refresh, Insert, AfterSeed
  <2>3. ~call[h].read => Owes(h)
    BY <2>1 DEF Owes
  <2>4. CASE Goto(h, "idle")
    BY <1>7, <2>1, <2>4 DEF Point
  <2>5. CASE Goto(h, "zero")
    BY <1>7, <2>1, <2>3, <2>5 DEF Point
  <2>6. CASE Goto(h, "charge") /\ ~call[h].read
    BY <1>7, <2>1, <2>3, <2>6 DEF Point
  <2> QED
    BY <2>2, <2>4, <2>5, <2>6
<1>11. CASE Charge(h)
  <2>1. Owes(h) /\ ~call[h].read /\ UNCHANGED <<calls, forwarded>>
    BY <1>1, <1>11 DEF Charge, At, Owes, history
  <2>2. CASE call' = [call EXCEPT ![h].at = "send", ![h].held = call[h].price]
    <3>1. /\ \A g \in Handler \ {h} : call'[g] = call[g]
          /\ call'[h] = [call[h] EXCEPT !.at = "send", !.held = call[h].price]
      BY <1>1, <2>2
    <3>2. call'[h].at = "send" /\ call'[h].caller = c /\ call'[h].read = call[h].read
      BY <1>3, <3>1 DEF Request
    <3>3. ReadsApart'
      BY <1>6, <2>1, <3>1, <3>2
    <3>4. WithinQuota'
      BY <2>1 DEF QuotaInv, WithinQuota
    <3> QED
      BY <1>4, <2>1, <3>1, <3>2, <3>3, <3>4, QuotaMoves
  <2>3. CASE Goto(h, "idle")
    BY <1>7, <2>1, <2>3 DEF Point
  <2>4. CASE Goto(h, "send")
    BY <1>7, <2>1, <2>4 DEF Point
  <2> QED
    BY <1>11, <2>2, <2>3, <2>4 DEF Charge
<1>12. CASE StoreFails(h) \/ BuildFails(h) \/ Refund(h) \/ AddCost(h) \/ Settle(h) \/ LateStoreFails(h)
  <2>1. UNCHANGED <<calls, forwarded>>
    BY <1>12 DEF StoreFails, BuildFails, Refund, AddCost, Settle, LateStoreFails, store, history
  <2>2. PICK p \in {"idle", "refund", "settle"} : Goto(h, p)
    BY <1>12 DEF StoreFails, BuildFails, Refund, AddCost, Settle, LateStoreFails, AfterFailedCall,
       AfterAddCost
  <2> QED
    BY <1>7, <2>1, <2>2 DEF Point
<1>13. CASE (\E success \in BOOLEAN : CallFails(h, success)) \/ (\E cost \in Reported : CallSucceeds(h, cost))
  <2>1. Owes(h) /\ calls' = calls /\ forwarded' = [forwarded EXCEPT ![c] = @ + 1]
    BY <1>1, <1>13 DEF CallFails, CallSucceeds, At, Owes, store
  <2>2. (\A g \in Handler \ {h} : call'[g] = call[g]) /\ call'[h].at \in {"idle", "refund", "addcost"}
    <3>1. CASE \E success \in BOOLEAN : CallFails(h, success)
      <4>1. PICK p \in {"idle", "refund"} : Goto(h, p)
        BY <3>1 DEF CallFails, AfterFailedCall
      <4> QED
        BY <1>5, <4>1 DEF Point
    <3>2. CASE \E cost \in Reported : CallSucceeds(h, cost)
      <4>1. PICK cost \in Reported :
              call' = [call EXCEPT ![h] = IF cost = 0 THEN Idle
                         ELSE [call[h] EXCEPT !.at = "addcost", !.held = 0, !.cost = cost]]
        BY <1>1, <3>2 DEF CallSucceeds
      <4>2. call'[h] = IF cost = 0 THEN Idle
                       ELSE [call[h] EXCEPT !.at = "addcost", !.held = 0, !.cost = cost]
        BY <1>1, <4>1
      <4>3. \A g \in Handler \ {h} : call'[g] = call[g]
        BY <1>1, <4>1
      <4> QED
        BY <1>3, <4>2, <4>3 DEF Request, Idle
    <3> QED
      BY <1>13, <3>1, <3>2
  <2>3. ReadsApart'
    BY <1>6, <2>2
  <2>4. WithinQuota'
    BY <2>1 DEF QuotaInv, WithinQuota
  <2>5. ~Owes(h)'
    BY <2>2 DEF Owes
  <2>6. forwarded'[c] = forwarded[c] + 1 /\ \A d \in Caller \ {c} : forwarded'[d] = forwarded[d]
    BY <1>1, <1>4, <2>1
  <2> QED
    BY <1>4, <2>1, <2>2, <2>3, <2>4, <2>5, <2>6, QuotaMoves
<1> QED
  BY <1>8, <1>9, <1>10, <1>11, <1>12, <1>13 DEF Serve

\* Every step keeps the quota's invariant.
LEMMA QuotaStep == QuotaInv /\ [Next]_vars => QuotaInv'
<1> SUFFICES ASSUME QuotaInv, [Next]_vars PROVE QuotaInv'
  OBVIOUS
<1>1. TypeOK' /\ call \in [Handler -> Request \cup {Idle}]
  BY NextTyped DEF QuotaInv, TypeOK
<1>2. CASE \E h \in Handler : Serve(h)
  BY <1>1, <1>2, QuotaServes
<1>3. CASE \E h \in Handler : Arrive(h)
  <2>1. PICK h \in Handler, c \in Caller, ip \in IP :
          BalanceRead(h, c, ip) \/ \E price \in Price : Allow(h, c, ip, price)
    BY <1>3 DEF Arrive
  <2>2. UNCHANGED <<calls, forwarded>>
    BY <2>1 DEF BalanceRead, Allow, store, history
  <2>3. /\ \A g \in Handler \ {h} : call'[g] = call[g]
        /\ \/ call'[h].at = "get" /\ call'[h].read
           \/ call'[h].at = "quota" /\ ~call'[h].read
    BY <1>1, <2>1 DEF BalanceRead, Allow, NewRequest
  <2>4. ~Owes(h)' /\ ~Owes(h)
    BY <2>1, <2>3 DEF BalanceRead, Allow, Active, Owes
  <2>5. ReadsApart' /\ WithinQuota'
    BY <2>2, <2>3 DEF QuotaInv, ReadsApart, WithinQuota
  <2> QED
    BY <1>1, <2>2, <2>3, <2>4, <2>5, QuotaMoves
\* Around the handlers, nobody comes to owe a call.
<1>4. ASSUME UNCHANGED <<calls, forwarded>>,
             \A h \in Handler : \/ call'[h].at = "idle"
                                \/ /\ call'[h].at = call[h].at /\ call'[h].read = call[h].read
                                   /\ call'[h].caller = call[h].caller
      PROVE  QuotaInv'
  <2>1. \A c \in Caller : Owing(c)' \subseteq Owing(c)
    BY <1>4 DEF Owing, Owes
  <2>2. Counted'
    <3> SUFFICES ASSUME NEW c \in Caller
                 PROVE  forwarded'[c] + Cardinality(Owing(c)') <= calls'[c]
      BY DEF Counted, Owing, Owes
    <3>1. Cardinality(Owing(c)') <= Cardinality(Owing(c)) /\ Cardinality(Owing(c)') \in Nat
      BY <2>1, OwingFinite, FS_Subset, FS_CardinalityType
    <3>2. /\ forwarded[c] + Cardinality(Owing(c)) <= calls[c]
          /\ forwarded[c] \in Nat /\ calls[c] \in Nat /\ Cardinality(Owing(c)) \in Nat
      BY OwingFinite DEF QuotaInv, Counted, TypeOK
    <3> QED
      BY <1>4, <3>1, <3>2
  <2>3. ReadsApart' /\ WithinQuota'
    BY <1>4 DEF QuotaInv, ReadsApart, WithinQuota
  <2> QED
    BY <1>1, <2>2, <2>3 DEF QuotaInv
<1>5. CASE Reload
  <2>1. ASSUME NEW h \in Handler, Active(h)
        PROVE  /\ call'[h].at = call[h].at /\ call'[h].read = call[h].read
               /\ call'[h].caller = call[h].caller
    <3>1. call[h] \in Request
      BY <1>1, <2>1 DEF Active, Idle
    <3>2. call'[h] = [call[h] EXCEPT !.stale = TRUE]
      BY <1>5, <2>1 DEF Reload
    <3> QED
      BY <3>1, <3>2 DEF Request
  <2>2. ASSUME NEW h \in Handler, ~Active(h) PROVE call'[h].at = "idle"
    BY <1>5, <2>2 DEF Reload, Idle
  <2> QED
    BY <1>4, <1>5, <2>1, <2>2 DEF Reload, store
<1>6. CASE Crash
  BY <1>4, <1>6 DEF Crash, Idle, store
<1>7. CASE BreakerCools \/ (\E c \in Caller : MintCools(c)) \/ UNCHANGED vars
  <2>1. UNCHANGED <<call, calls, forwarded>>
    BY <1>7 DEF BreakerCools, MintCools, vars, store, history
  <2> QED
    BY <1>4, <2>1
<1> QED
  BY <1>2, <1>3, <1>5, <1>6, <1>7 DEF Next

\* However calls, reloads and crashes interleave, the partner is never called more often
\* for a caller than its quota (broker.go:330-335).
THEOREM QuotaHolds == Spec => []ForwardsWithinQuota
<1>1. Init => QuotaInv
  <2> SUFFICES ASSUME Init PROVE QuotaInv
    OBVIOUS
  <2>1. \A c \in Caller : Owing(c) = {}
    BY DEF Init, Owing, Owes, Idle
  <2>2. Counted
    BY <2>1, FS_EmptySet DEF Init, Counted
  <2> QED
    BY <2>2, InitTyped, ManagedAssumption DEF Init, QuotaInv, ReadsApart, WithinQuota, Idle
<1>2. QuotaInv => ForwardsWithinQuota
  <2> SUFFICES ASSUME QuotaInv, Quota > 0, NEW c \in Caller PROVE forwarded[c] <= Quota
    BY DEF ForwardsWithinQuota
  <2>1. /\ forwarded[c] + Cardinality(Owing(c)) <= calls[c] /\ calls[c] <= Quota
        /\ forwarded[c] \in Nat /\ calls[c] \in Nat
    BY DEF QuotaInv, Counted, WithinQuota, TypeOK
  <2> QED
    BY <2>1, OwingFinite, ManagedAssumption
<1> QED
  BY <1>1, <1>2, QuotaStep, PTL DEF Spec
-----------------------------------------------------------------------------
(* Response mode: what Settle could not charge.                            *)

\* Nothing is reserved, whoever may still be settled is in the ledger, and a caller the
\* ledger does not know has been spared nothing.
SettleInv ==
  /\ TypeOK
  /\ Mode = "response" =>
       /\ \A h \in Handler : call[h].at # "idle" => call[h].held = 0
       /\ \A h \in Handler : call[h].at \in {"charge", "send", "addcost", "settle"}
                               => home[call[h].caller] # NoIP
       /\ \A c \in Caller : absorbed[c] > 0 => credits[c] = 0 /\ home[c] # NoIP

\* A step of handler h that moves its request and no credit.
LEMMA SettleMoves ==
  ASSUME SettleInv, TypeOK', NEW h \in Handler,
         \A g \in Handler \ {h} : call'[g] = call[g],
         \A c \in Caller : home[c] # NoIP => home'[c] # NoIP,
         Mode = "response" => \A c \in Caller : absorbed'[c] > 0 => credits'[c] = 0 /\ home'[c] # NoIP,
         Mode = "response" /\ call'[h].at # "idle" =>
           /\ call'[h].held = 0
           /\ call'[h].at \in {"charge", "send", "addcost", "settle"} => home'[call'[h].caller] # NoIP
  PROVE  SettleInv'
<1>1. ASSUME Mode = "response", NEW g \in Handler, g # h,
             call[g].at \in {"charge", "send", "addcost", "settle"}
      PROVE  home'[call[g].caller] # NoIP
  <2>1. call[g] \in Request
    BY <1>1 DEF SettleInv, TypeOK, Idle
  <2>2. call[g].caller \in Caller /\ home[call[g].caller] # NoIP
    BY <1>1, <2>1 DEF SettleInv, Request
  <2> QED
    BY <2>2
<1> QED
  BY <1>1 DEF SettleInv

\* A handler's step reserves nothing and settles only callers in the ledger.
LEMMA SettleServes ==
  ASSUME SettleInv, TypeOK', NEW h \in Handler, Serve(h)
  PROVE  SettleInv'
<1>1. /\ call \in [Handler -> Request \cup {Idle}] /\ credits \in [Caller -> Int]
      /\ absorbed \in [Caller -> Int] /\ home \in [Caller -> IP \cup {NoIP}] /\ NoIP \notin IP
  BY ManagedAssumption DEF SettleInv, TypeOK
<1>2. call[h].at # "idle"
  BY DEF Serve, Admit, BalanceGet, Provision, ProvisionZero, Charge, StoreFails, BuildFails,
     CallFails, CallSucceeds, Refund, AddCost, Settle, LateStoreFails, At
<1>3. call[h] \in Request
  BY <1>1, <1>2 DEF Idle
<1> DEFINE c == call[h].caller
<1>4. c \in Caller /\ call[h].ip \in IP /\ call[h].held \in Nat /\ call[h].cost \in Nat
  BY <1>3, RequestFields
<1>5. ASSUME NEW p \in Point, Goto(h, p)
      PROVE  /\ \A g \in Handler \ {h} : call'[g] = call[g]
             /\ call'[h].at = p
             /\ p # "idle" => call'[h].caller = c /\ call'[h].held = call[h].held
  BY <1>1, <1>3, <1>5 DEF Goto, Request, Idle
\* A step that moves no balance and no row.
<1>6. ASSUME NEW p \in Point, Goto(h, p), UNCHANGED <<credits, home, absorbed>>,
             Mode = "response" /\ p \in {"charge", "send", "addcost", "settle"} => home[c] # NoIP
      PROVE  SettleInv'
  <2>1. Mode = "response" => call[h].held = 0
    BY <1>2 DEF SettleInv
  <2>2. Mode = "response" => \A d \in Caller : absorbed'[d] > 0 => credits'[d] = 0 /\ home'[d] # NoIP
    BY <1>6 DEF SettleInv
  <2> QED
    BY <1>5, <1>6, <2>1, <2>2, SettleMoves
<1>7. CASE Admit(h)
  <2>1. PICK p \in {"idle", "send", "seed"} : Goto(h, p) /\ (p = "send" => Mode = "none")
    BY <1>7 DEF Admit
  <2> QED
    BY <1>6, <1>7, <2>1 DEF Admit, Point, history
<1>8. CASE BalanceGet(h) \/ StoreFails(h)
  <2>1. PICK p \in {"idle", "seed"} : Goto(h, p)
    BY <1>8 DEF BalanceGet, StoreFails
  <2> QED
    BY <1>6, <1>8, <2>1 DEF BalanceGet, StoreFails, Point, store, history
<1>9. CASE Refresh(h) /\ Seen(c) /\ UNCHANGED absorbed
  <2>1. PICK p \in {"idle", "charge"} : Goto(h, p)
    BY <1>9 DEF Refresh, AfterSeed
  <2> QED
    BY <1>6, <1>9, <2>1 DEF Refresh, Seen, Point
<1>10. ASSUME NEW n \in Nat, Insert(h, n), ~Seen(c), UNCHANGED absorbed
       PROVE  SettleInv'
  <2>1. PICK p \in {"idle", "charge"} : Goto(h, p)
    BY <1>10 DEF Insert, AfterSeed
  <2>2. /\ home'[c] # NoIP /\ \A d \in Caller \ {c} : home'[d] = home[d] /\ credits'[d] = credits[d]
    BY <1>1, <1>4, <1>10 DEF Insert
  <2>3. Mode = "response" => \A d \in Caller : absorbed'[d] > 0 => credits'[d] = 0 /\ home'[d] # NoIP
    BY <1>10, <2>2 DEF SettleInv, Seen
  <2>4. Mode = "response" => call[h].held = 0
    BY <1>2 DEF SettleInv
  <2> QED
    BY <1>5, <2>1, <2>2, <2>3, <2>4, SettleMoves DEF Point
<1>11. CASE Provision(h)
  <2>1. CASE Goto(h, "idle") /\ UNCHANGED <<home, credits, absorbed>>
    BY <1>6, <2>1 DEF Point
  <2>2. CASE Goto(h, "zero") /\ UNCHANGED <<home, credits, absorbed>>
    BY <1>6, <2>2 DEF Point
  <2> QED
    BY <1>9, <1>10, <1>11, <2>1, <2>2, ManagedAssumption DEF Provision
<1>12. CASE ProvisionZero(h)
  BY <1>9, <1>10, <1>12 DEF ProvisionZero
<1>13. CASE Charge(h)
  <2>1. call[h].at = "charge" /\ UNCHANGED <<home, absorbed>>
    BY <1>13 DEF Charge, At, history
  <2>2. CASE Mode = "response"
    <3>1. UNCHANGED credits /\ (Goto(h, "idle") \/ Goto(h, "send")) /\ home[c] # NoIP
      BY <1>13, <2>1, <2>2 DEF Charge, SettleInv
    <3> QED
      BY <1>6, <2>1, <3>1 DEF Point
  <2>3. CASE Mode # "response"
    BY <2>3 DEF SettleInv
  <2> QED
    BY <2>2, <2>3
<1>14. CASE BuildFails(h) \/ \E success \in BOOLEAN : CallFails(h, success)
  <2>1. PICK p \in {"idle", "refund"} : Goto(h, p)
    BY <1>14 DEF BuildFails, CallFails, AfterFailedCall
  <2>2. UNCHANGED <<credits, home, absorbed>>
    BY <1>14 DEF BuildFails, CallFails, store, history
  <2> QED
    BY <1>6, <2>1, <2>2 DEF Point
<1>15. CASE \E cost \in Reported : CallSucceeds(h, cost)
  <2>1. UNCHANGED <<credits, home, absorbed>> /\ call[h].at = "send"
    BY <1>15 DEF CallSucceeds, At, store
  <2>2. PICK cost \in Reported :
          call' = [call EXCEPT ![h] = IF cost = 0 THEN Idle
                     ELSE [call[h] EXCEPT !.at = "addcost", !.held = 0, !.cost = cost]]
    BY <1>1, <1>15 DEF CallSucceeds
  <2>3. /\ \A g \in Handler \ {h} : call'[g] = call[g]
        /\ call'[h] = IF cost = 0 THEN Idle
                      ELSE [call[h] EXCEPT !.at = "addcost", !.held = 0, !.cost = cost]
    BY <1>1, <2>2
  <2>4. call'[h].at # "idle" => call'[h].held = 0 /\ call'[h].caller = c
    BY <1>3, <2>3 DEF Request, Idle
  <2>5. Mode = "response" => home[c] # NoIP
    BY <2>1 DEF SettleInv
  <2>6. Mode = "response" => \A d \in Caller : absorbed'[d] > 0 => credits'[d] = 0 /\ home'[d] # NoIP
    BY <2>1 DEF SettleInv
  <2> QED
    BY <2>1, <2>3, <2>4, <2>5, <2>6, SettleMoves
\* With nothing reserved, a refund gives nothing back.
<1>16. CASE Refund(h)
  <2>1. Goto(h, "idle") /\ UNCHANGED <<home, absorbed>>
    BY <1>16 DEF Refund, history
  <2>2. CASE Mode = "response"
    <3>1. call[h].held = 0
      BY <1>2, <2>2 DEF SettleInv
    <3>2. \A d \in Caller : credits'[d] = credits[d]
      BY <1>1, <1>4, <1>16, <3>1 DEF Refund
    <3> QED
      BY <1>5, <2>1, <3>2, SettleMoves DEF SettleInv, Point
  <2>3. CASE Mode # "response"
    BY <2>3 DEF SettleInv
  <2> QED
    BY <2>2, <2>3
<1>17. CASE AddCost(h) \/ LateStoreFails(h)
  <2>1. PICK p \in {"idle", "settle"} : Goto(h, p) /\ (p = "settle" => call[h].at = "addcost")
    BY <1>17 DEF AddCost, LateStoreFails, AfterAddCost, At
  <2>2. UNCHANGED <<credits, home, absorbed>>
    BY <1>17 DEF AddCost, LateStoreFails, store, history
  <2>3. Mode = "response" /\ p = "settle" => home[c] # NoIP
    BY <2>1 DEF SettleInv
  <2> QED
    BY <1>6, <2>1, <2>2, <2>3 DEF Point
\* The clamp: what is not charged has taken the last credit.
<1>18. CASE Settle(h)
  <2> DEFINE charge == IF call[h].cost > credits[c] THEN credits[c] ELSE call[h].cost
  <2>1. /\ Goto(h, "idle") /\ home' = home /\ call[h].at = "settle"
        /\ credits'[c] = credits[c] - charge /\ absorbed'[c] = absorbed[c] + call[h].cost - charge
        /\ \A d \in Caller \ {c} : credits'[d] = credits[d] /\ absorbed'[d] = absorbed[d]
    BY <1>1, <1>4, <1>18 DEF Settle, At
  <2>2. CASE Mode = "response"
    <3>1. home[c] # NoIP /\ (absorbed[c] > 0 => credits[c] = 0)
      BY <1>4, <2>1, <2>2 DEF SettleInv
    <3>2. absorbed'[c] > 0 => credits'[c] = 0
      BY <1>1, <1>4, <2>1, <3>1
    <3>3. \A d \in Caller : absorbed'[d] > 0 => credits'[d] = 0 /\ home'[d] # NoIP
      BY <2>1, <2>2, <3>1, <3>2 DEF SettleInv
    <3> QED
      BY <1>5, <2>1, <3>3, SettleMoves DEF Point
  <2>3. CASE Mode # "response"
    BY <2>3 DEF SettleInv
  <2> QED
    BY <2>2, <2>3
<1> QED
  BY <1>7, <1>8, <1>11, <1>12, <1>13, <1>14, <1>15, <1>16, <1>17, <1>18 DEF Serve

\* So does every step.
LEMMA SettleStep == SettleInv /\ [Next]_vars => SettleInv'
<1> SUFFICES ASSUME SettleInv, [Next]_vars PROVE SettleInv'
  OBVIOUS
<1>1. TypeOK' /\ call \in [Handler -> Request \cup {Idle}]
  BY NextTyped DEF SettleInv, TypeOK
<1>2. CASE \E h \in Handler : Serve(h)
  BY <1>1, <1>2, SettleServes
<1>3. CASE \E h \in Handler : Arrive(h)
  <2>1. PICK h \in Handler, c \in Caller, ip \in IP :
          BalanceRead(h, c, ip) \/ \E price \in Price : Allow(h, c, ip, price)
    BY <1>3 DEF Arrive
  <2>2. UNCHANGED <<credits, home, absorbed>>
    BY <2>1 DEF BalanceRead, Allow, store, history
  <2>3. /\ \A g \in Handler \ {h} : call'[g] = call[g]
        /\ call'[h].at \in {"get", "quota"} /\ call'[h].held = 0
    BY <1>1, <2>1 DEF BalanceRead, Allow, NewRequest
  <2>4. Mode = "response" => \A d \in Caller : absorbed'[d] > 0 => credits'[d] = 0 /\ home'[d] # NoIP
    BY <2>2 DEF SettleInv
  <2> QED
    BY <1>1, <2>2, <2>3, <2>4, SettleMoves
<1>4. ASSUME UNCHANGED <<credits, home, absorbed>>,
             \A h \in Handler : \/ call'[h].at = "idle"
                                \/ /\ call'[h].at = call[h].at /\ call'[h].held = call[h].held
                                   /\ call'[h].caller = call[h].caller
      PROVE  SettleInv'
  BY <1>1, <1>4 DEF SettleInv
<1>5. CASE Reload
  <2>1. ASSUME NEW h \in Handler, Active(h)
        PROVE  /\ call'[h].at = call[h].at /\ call'[h].held = call[h].held
               /\ call'[h].caller = call[h].caller
    <3>1. call[h] \in Request
      BY <1>1, <2>1 DEF Active, Idle
    <3>2. call'[h] = [call[h] EXCEPT !.stale = TRUE]
      BY <1>5, <2>1 DEF Reload
    <3> QED
      BY <3>1, <3>2 DEF Request
  <2>2. ASSUME NEW h \in Handler, ~Active(h) PROVE call'[h].at = "idle"
    BY <1>5, <2>2 DEF Reload, Idle
  <2> QED
    BY <1>4, <1>5, <2>1, <2>2 DEF Reload, store
<1>6. CASE Crash
  BY <1>4, <1>6 DEF Crash, Idle, store
<1>7. CASE BreakerCools \/ (\E c \in Caller : MintCools(c)) \/ UNCHANGED vars
  <2>1. UNCHANGED <<call, credits, home, absorbed>>
    BY <1>7 DEF BreakerCools, MintCools, vars, store, history
  <2> QED
    BY <1>4, <2>1
<1> QED
  BY <1>2, <1>3, <1>5, <1>6, <1>7 DEF Next

\* In response mode a call is spared a part of what it cost only when it takes the
\* caller's last credit, and nothing gives credit back afterwards (broker.go:447-455).
THEOREM SparedOnlyWhenExhausted == Spec => []AbsorbedOnlyWhenExhausted
<1>1. Init => SettleInv
  BY InitTyped DEF Init, SettleInv, Idle
<1>2. SettleInv => AbsorbedOnlyWhenExhausted
  BY DEF SettleInv, AbsorbedOnlyWhenExhausted
<1> QED
  BY <1>1, <1>2, SettleStep, PTL DEF Spec
-----------------------------------------------------------------------------
(* The refinement: what the ledger promises, whatever the handlers do.     *)

Purse(c) == credits[c] + Held(c)
Spent(c) == kept[c] + lost[c]

PursesAdd ==
  \A c \in Caller : /\ Purse(c) \in Nat /\ Spent(c) \in Int /\ granted[c] \in Int
                    /\ Purse(c) = granted[c] - Spent(c)

\* Under the ledger's invariant the purses of the abstract ledger add up.
LEMMA LedgerAdds == LedgerInv => PursesAdd
<1> SUFFICES ASSUME LedgerInv, NEW c \in Caller
             PROVE  /\ Purse(c) \in Nat /\ Spent(c) \in Int /\ granted[c] \in Int
                    /\ Purse(c) = granted[c] - Spent(c)
  BY DEF PursesAdd
<1>1. /\ credits[c] \in Int /\ credits[c] >= 0 /\ kept[c] \in Int /\ lost[c] \in Int
      /\ granted[c] \in Int /\ credits[c] + Held(c) + kept[c] + lost[c] = granted[c]
  BY ManagedAssumption DEF LedgerInv, TypeOK, NoOverdraft, Conservation
<1>2. Held(c) \in Nat
  BY HeldType DEF LedgerInv
<1> QED
  BY <1>1, <1>2 DEF Purse, Spent

\* What a step of a handler pays is never taken back, and nothing is paid as a caller
\* enters the ledger.
LEMMA ServeSpends ==
  ASSUME LedgerInv, NEW h \in Handler, Serve(h)
  PROVE  /\ UNCHANGED crashes
         /\ \A c \in Caller : Spent(c)' >= Spent(c)
         /\ home' # home => UNCHANGED <<kept, lost>>
<1> DEFINE c == call[h].caller
           Grows == \A d \in Caller : Spent(d)' >= Spent(d)
<1>1. /\ call[h] \in Request /\ c \in Caller /\ call[h].held \in Nat /\ call[h].cost \in Nat
      /\ credits[c] \in Int /\ credits[c] >= 0
      /\ kept \in [Caller -> Int] /\ lost \in [Caller -> Int]
  BY ServeMoves, RequestFields DEF LedgerInv, TypeOK, NoOverdraft
<1>2. ASSUME UNCHANGED <<kept, lost>> PROVE Grows
  BY <1>1, <1>2 DEF Spent
<1>3. ASSUME NEW n \in Nat, kept' = [kept EXCEPT ![c] = @ + n], lost' = lost PROVE Grows
  BY <1>1, <1>3 DEF Spent
<1>4. ASSUME NEW n \in Nat, lost' = [lost EXCEPT ![c] = @ + n], kept' = kept PROVE Grows
  BY <1>1, <1>4 DEF Spent
<1>5. CASE Admit(h) \/ BalanceGet(h) \/ Charge(h) \/ StoreFails(h) \/ BuildFails(h)
  BY <1>2, <1>5 DEF Admit, BalanceGet, Charge, StoreFails, BuildFails, store, history
<1>6. CASE Provision(h) \/ ProvisionZero(h)
  BY <1>2, <1>6 DEF Provision, ProvisionZero
<1>7. CASE (\E success \in BOOLEAN : CallFails(h, success)) \/ Refund(h) \/ AddCost(h)
  BY <1>2, <1>7 DEF CallFails, Refund, AddCost, store, history
<1>8. CASE \E cost \in Reported : CallSucceeds(h, cost)
  BY <1>1, <1>3, <1>8 DEF CallSucceeds, store
<1>9. CASE Settle(h)
  <2> DEFINE charge == IF call[h].cost > credits[c] THEN credits[c] ELSE call[h].cost
  <2>1. charge \in Nat
    BY <1>1
  <2>2. kept' = [kept EXCEPT ![c] = @ + charge] /\ UNCHANGED <<lost, home, crashes>>
    BY <1>9 DEF Settle
  <2> HIDE DEF charge
  <2> QED
    BY <1>3, <2>1, <2>2
<1>10. CASE LateStoreFails(h)
  <2>1. UNCHANGED <<kept, home, crashes>>
        /\ (lost' = lost \/ lost' = [lost EXCEPT ![c] = @ + call[h].held])
    BY <1>10 DEF LateStoreFails, store
  <2> QED
    BY <1>1, <1>2, <1>4, <2>1
<1> QED
  BY <1>5, <1>6, <1>7, <1>8, <1>9, <1>10 DEF Serve

\* A step of a handler is a grant to its caller, a payment by it, or nothing.
LEMMA ServeRefines ==
  ASSUME LedgerInv, LedgerInv', PursesAdd', NEW h \in Handler, Serve(h)
  PROVE  \E c \in Caller :
           /\ UNCHANGED crashes
           /\ \A d \in Caller \ {c} : Purse(d)' = Purse(d) /\ home'[d] = home[d]
           /\ \/ ~Seen(c) /\ Seen(c)' /\ Purse(c)' \in {0, Seed}
              \/ Seen(c) /\ Seen(c)' /\ Purse(c)' <= Purse(c)
              \/ ~Seen(c) /\ ~Seen(c)' /\ Purse(c)' = Purse(c)
<1>1. PICK c \in Caller : c = call[h].caller
  BY ServeMoves, RequestFields DEF LedgerInv
<1>2. /\ \A d \in Caller \ {c} :
           /\ credits'[d] = credits[d] /\ kept'[d] = kept[d] /\ lost'[d] = lost[d]
           /\ granted'[d] = granted[d] /\ home'[d] = home[d]
      /\ Seen(c) => home'[c] = home[c]
      /\ (Seen(c) \/ home'[c] = home[c]) => granted'[c] = granted[c]
  <2> DEFINE held == IF Active(h)' THEN call'[h].held ELSE 0
  <2> HIDE DEF held
  <2> QED
    BY <1>1, ServePays DEF LedgerInv, held
<1>3. \A d \in Caller : /\ Purse(d) \in Nat /\ Spent(d) \in Int /\ Purse(d) = granted[d] - Spent(d)
                        /\ Purse(d)' \in Nat /\ Spent(d)' \in Int
                        /\ Purse(d)' = granted'[d] - Spent(d)'
                        /\ granted[d] \in Int /\ granted'[d] \in Int
  BY LedgerAdds DEF PursesAdd
<1>4. UNCHANGED crashes /\ Spent(c)' >= Spent(c) /\ (home' # home => Spent(c)' = Spent(c))
  BY <1>1, ServeSpends DEF Spent
<1>5. \A d \in Caller \ {c} : Purse(d)' = Purse(d) /\ home'[d] = home[d]
  <2>1. ASSUME NEW d \in Caller \ {c} PROVE Spent(d)' = Spent(d) /\ granted'[d] = granted[d]
    BY <1>2 DEF Spent
  <2> QED
    BY <1>2, <1>3, <2>1
<1>6. CASE Seen(c)
  <2>1. Seen(c)' /\ Purse(c)' <= Purse(c)
    BY <1>1, <1>2, <1>3, <1>4, <1>6 DEF Seen
  <2> QED
    BY <1>4, <1>5, <1>6, <2>1
<1>7. CASE ~Seen(c)
  <2>1. Purse(c) = 0 /\ granted[c] = 0 /\ Spent(c) = 0
    <3>1. granted[c] = 0 /\ credits[c] = 0
      BY <1>1, <1>7 DEF LedgerInv, UnseenIsPoor
    <3>2. \A g \in Handler : HeldBy(g, c) = 0
      <4> SUFFICES ASSUME NEW g \in Handler, Active(g), call[g].caller = c PROVE call[g].held = 0
        BY DEF HeldBy
      <4>1. call[g] \in Request
        BY DEF LedgerInv, TypeOK, Active, Idle
      <4>2. ~(call[g].held > 0)
        BY <1>7 DEF LedgerInv, HeldIsSeen
      <4> QED
        BY <4>1, <4>2, RequestFields
    <3>3. Held(c) = 0
      BY <1>1, <3>2, HeldNone
    <3> QED
      BY <1>1, <1>3, <3>1, <3>3 DEF Purse
  <2>2. CASE home'[c] = home[c]
    <3>1. ~Seen(c)' /\ granted'[c] = 0
      BY <1>2, <1>7, <2>1, <2>2 DEF Seen
    <3>2. Purse(c)' = 0
      BY <1>1, <1>3, <1>4, <2>1, <3>1
    <3> QED
      BY <1>1, <1>4, <1>5, <1>7, <2>1, <3>1, <3>2
  <2>3. CASE home'[c] # home[c]
    <3>1. Seen(c)' /\ Spent(c)' = 0 /\ granted'[c] \in {0, Seed}
      BY <1>1, <1>4, <1>7, <2>1, <2>3 DEF Seen, LedgerInv, TypeOK
    <3>2. Purse(c)' \in {0, Seed}
      BY <1>1, <1>3, <3>1
    <3> QED
      BY <1>1, <1>4, <1>5, <1>7, <3>1, <3>2
  <2> QED
    BY <2>2, <2>3
<1> QED
  BY <1>6, <1>7

\* Initial states map to initial states of the abstract ledger.
LEMMA LedgerStarts == Init => Ledger!Init
<1> SUFFICES ASSUME Init PROVE Ledger!Init
  OBVIOUS
<1>1. \A c \in Caller : Held(c) = 0 /\ credits[c] = 0 /\ ~Seen(c)
  BY HeldNone DEF Init, HeldBy, Active, Idle, Seen
<1> QED
  BY <1>1 DEF Init, Ledger!Init

\* A step that leaves every purse, address and crash alone is none of the ledger's.
LEMMA LedgerStutters ==
  ASSUME UNCHANGED <<credits, home, crashes>>,
         \A h \in Handler, c \in Caller : HeldBy(h, c)' = HeldBy(h, c)
  PROVE  UNCHANGED Ledger!ledgerVars
<1>1. \A c \in Caller : Held(c)' = Held(c)
  BY HeldSame
<1> QED
  BY <1>1 DEF Ledger!ledgerVars, Seen

\* Every step maps to a step of the abstract ledger or to a stutter.
LEMMA LedgerRefines ==
  ASSUME LedgerInv, LedgerInv', PursesAdd', [Next]_vars
  PROVE  [Ledger!Next]_(Ledger!ledgerVars)
<1>1. call \in [Handler -> Request \cup {Idle}]
  BY DEF LedgerInv, TypeOK
<1>2. ASSUME NEW h \in Handler, Serve(h) PROVE [Ledger!Next]_(Ledger!ledgerVars)
  <2>1. PICK c \in Caller :
           /\ UNCHANGED crashes
           /\ \A d \in Caller \ {c} : Purse(d)' = Purse(d) /\ home'[d] = home[d]
           /\ \/ ~Seen(c) /\ Seen(c)' /\ Purse(c)' \in {0, Seed}
              \/ Seen(c) /\ Seen(c)' /\ Purse(c)' <= Purse(c)
              \/ ~Seen(c) /\ ~Seen(c)' /\ Purse(c)' = Purse(c)
    BY <1>2, ServeRefines
  <2>2. \A d \in Caller \ {c} : Seen(d)' = Seen(d)
    BY <2>1 DEF Seen
  <2>3. CASE ~Seen(c) /\ Seen(c)' /\ Purse(c)' \in {0, Seed}
    <3>1. Ledger!Grant(c)
      BY <2>1, <2>2, <2>3 DEF Ledger!Grant, Purse
    <3> QED
      BY <3>1 DEF Ledger!Next
  <2>4. CASE Seen(c) /\ Seen(c)' /\ Purse(c)' <= Purse(c)
    <3>1. Purse(c)' \in 0 .. Purse(c)
      BY <2>4, LedgerAdds DEF PursesAdd
    <3>2. Ledger!Spend(c)
      BY <2>1, <2>2, <2>4, <3>1 DEF Ledger!Spend, Purse
    <3> QED
      BY <3>2 DEF Ledger!Next
  <2>5. CASE ~Seen(c) /\ ~Seen(c)' /\ Purse(c)' = Purse(c)
    BY <2>1, <2>2, <2>5 DEF Ledger!ledgerVars, Purse
  <2> QED
    BY <2>1, <2>3, <2>4, <2>5
<1>3. ASSUME NEW h \in Handler, Arrive(h) PROVE UNCHANGED Ledger!ledgerVars
  <2>1. PICK c \in Caller, ip \in IP :
          BalanceRead(h, c, ip) \/ \E price \in Price : Allow(h, c, ip, price)
    BY <1>3 DEF Arrive
  <2>2. /\ ~Active(h) /\ call'[h].held = 0 /\ \A g \in Handler \ {h} : call'[g] = call[g]
        /\ UNCHANGED <<credits, home, crashes>>
    BY <1>1, <2>1 DEF BalanceRead, Allow, NewRequest, store, history
  <2>3. \A g \in Handler, d \in Caller : HeldBy(g, d)' = HeldBy(g, d)
    BY <2>2 DEF HeldBy, Active
  <2> QED
    BY <2>2, <2>3, LedgerStutters
<1>4. CASE Reload
  <2>1. ASSUME NEW h \in Handler, NEW c \in Caller PROVE HeldBy(h, c)' = HeldBy(h, c)
    <3>1. CASE Active(h)
      <4>1. call[h] \in Request
        BY <1>1, <3>1 DEF Active, Idle
      <4>2. call'[h] = [call[h] EXCEPT !.stale = TRUE]
        BY <1>4, <3>1 DEF Reload
      <4> QED
        BY <4>1, <4>2 DEF HeldBy, Active, Request
    <3>2. CASE ~Active(h)
      BY <1>4, <3>2 DEF Reload, HeldBy, Active, Idle
    <3> QED
      BY <3>1, <3>2
  <2> QED
    BY <1>4, <2>1, LedgerStutters DEF Reload, store
\* A crash forfeits what was reserved.
<1>5. CASE Crash
  <2>1. /\ UNCHANGED <<credits, home>> /\ crashes' = crashes + 1
        /\ lost' = [c \in Caller |-> lost[c] + Held(c)]
        /\ UNCHANGED <<kept, granted>>
    BY <1>5 DEF Crash, store
  <2>2. \A c \in Caller : Purse(c)' \in 0 .. Purse(c)
    <3> SUFFICES ASSUME NEW c \in Caller PROVE Purse(c)' \in 0 .. Purse(c)
      OBVIOUS
    <3>1. Held(c) \in Nat /\ kept[c] \in Int /\ lost[c] \in Int
      BY HeldType DEF LedgerInv, TypeOK
    <3>2. Spent(c)' = Spent(c) + Held(c)
      BY <2>1, <3>1 DEF Spent
    <3> QED
      BY <2>1, <3>1, <3>2, LedgerAdds DEF PursesAdd
  <2>3. \A c \in Caller : Seen(c)' = Seen(c)
    BY <2>1 DEF Seen
  <2>4. Ledger!Forfeit
    BY <2>1, <2>2, <2>3 DEF Ledger!Forfeit, Purse
  <2> QED
    BY <2>4 DEF Ledger!Next
<1>6. CASE BreakerCools \/ (\E c \in Caller : MintCools(c)) \/ UNCHANGED vars
  <2>1. UNCHANGED <<call, credits, home, crashes>>
    BY <1>6 DEF BreakerCools, MintCools, vars, store, history
  <2> QED
    BY <2>1, LedgerStutters DEF HeldBy, Active
<1> QED
  BY <1>2, <1>3, <1>4, <1>5, <1>6 DEF Next

\* The forward path implements the ledger: whatever handlers, reloads, crashes and failing
\* stores do, a caller's purse is granted once and from then on only spent
\* (store.go:25-72, broker.go:199-221, 365-455).
THEOREM ImplementsTheLedger == Spec => ImplementsLedger
<1>1. LedgerInv /\ LedgerInv' /\ PursesAdd' /\ [Next]_vars => [Ledger!Next]_(Ledger!ledgerVars)
  BY LedgerRefines
<1>2. Ledger!Init /\ [][Ledger!Next]_(Ledger!ledgerVars) => ImplementsLedger
  BY DEF ImplementsLedger, Ledger!Spec
<1> QED
  BY <1>1, <1>2, LedgerStarts, LedgerInvariant, LedgerAdds, PTL DEF Spec
-----------------------------------------------------------------------------
(* Response mode: how far calls may overshoot a balance.                   *)

\* Billable calls of c past the balance check whose cost is not settled yet.
Unsettled(h) == call[h].at \in {"send", "addcost", "settle"} /\ call[h].price > 0
UnsettledOf(c) == {h \in Handler : Unsettled(h) /\ call[h].caller = c}

CostsReported ==
  \A h \in Handler : /\ call[h].at \in {"addcost", "settle"} => call[h].cost \in Reported
                     /\ call[h].at = "settle" => call[h].price > 0

\* Once a call was spared something the balance is gone, so nobody passes the check any
\* more: what may still be spared is owed by those that have passed it.
Bounded(most) ==
  \A c \in Caller : absorbed[c] + most * Cardinality(UnsettledOf(c)) <= most * Cardinality(Handler)

OvershootInv(most) == SettleInv /\ (Mode = "response" => CostsReported /\ Bounded(most))

\* The arithmetic of a product the solver needs spelt out.
LEMMA TimesGrows ==
  ASSUME NEW m \in Nat, NEW i \in Nat, NEW j \in Nat, i <= j
  PROVE  m * i \in Nat /\ m * j \in Nat /\ m * i <= m * j /\ m * (i + 1) = m * i + m
<1>1. \A k \in Nat : m * k \in Nat
  OBVIOUS
<1>2. PICK k \in Nat : j = i + k
  <2>1. j - i \in Nat /\ j = i + (j - i)
    OBVIOUS
  <2> QED
    BY <2>1
<1>3. m * j = m * i + m * k
  BY <1>2
<1> QED
  BY <1>1, <1>2, <1>3

\* The requests not yet settled are finitely many, at most one a handler.
LEMMA UnsettledFinite ==
  ASSUME NEW c
  PROVE  /\ IsFiniteSet(UnsettledOf(c)) /\ Cardinality(UnsettledOf(c)) \in Nat
         /\ Cardinality(Handler) \in Nat /\ Cardinality(UnsettledOf(c)) <= Cardinality(Handler)
  BY ManagedAssumption, FS_Subset, FS_CardinalityType DEF UnsettledOf

\* A step of handler h passes the check, settles, or does neither.
LEMMA OvershootMoves ==
  ASSUME NEW most \in Nat, SettleInv, TypeOK', Mode = "response", Bounded(most),
         NEW h \in Handler, NEW c \in Caller,
         \A g \in Handler \ {h} : call'[g] = call[g],
         Unsettled(h) => call[h].caller = c,
         Unsettled(h)' => call'[h].caller = c,
         \A d \in Caller \ {c} : absorbed'[d] = absorbed[d],
         \/ (Unsettled(h)' => Unsettled(h)) /\ absorbed'[c] = absorbed[c]
         \/ credits[c] > 0 /\ absorbed'[c] = absorbed[c]
         \/ Unsettled(h) /\ ~Unsettled(h)' /\ absorbed'[c] <= absorbed[c] + most
  PROVE  Bounded(most)'
<1> SUFFICES ASSUME NEW d \in Caller
             PROVE  absorbed'[d] + most * Cardinality(UnsettledOf(d)') <= most * Cardinality(Handler)
  BY DEF Bounded, UnsettledOf, Unsettled
<1> DEFINE n == Cardinality(UnsettledOf(d))
           k == Cardinality(UnsettledOf(d)')
           N == Cardinality(Handler)
<1>1. /\ n \in Nat /\ N \in Nat /\ absorbed[d] \in Int /\ absorbed'[d] \in Int
      /\ absorbed[d] + most * n <= most * N
  BY UnsettledFinite DEF Bounded, SettleInv, TypeOK
<1>2. k \in Nat /\ k <= N /\ IsFiniteSet(UnsettledOf(d)')
  BY ManagedAssumption, FS_Subset, FS_CardinalityType DEF UnsettledOf
<1>3. ASSUME UnsettledOf(d)' \subseteq UnsettledOf(d), absorbed'[d] = absorbed[d]
      PROVE  absorbed'[d] + most * k <= most * N
  <2>1. k <= n
    BY <1>3, UnsettledFinite, FS_Subset
  <2> HIDE DEF n, k, N
  <2>2. most * k <= most * n /\ most * k \in Nat /\ most * n \in Nat
    BY <1>1, <1>2, <2>1, TimesGrows
  <2>3. most * N \in Nat
    BY <1>1, TimesGrows
  <2> QED
    BY <1>1, <1>3, <2>2, <2>3
<1>4. CASE d # c
  <2>1. UnsettledOf(d)' \subseteq UnsettledOf(d)
    BY <1>4 DEF UnsettledOf, Unsettled
  <2> QED
    BY <1>3, <1>4, <2>1
<1>5. CASE d = c /\ (Unsettled(h)' => Unsettled(h)) /\ absorbed'[c] = absorbed[c]
  <2>1. UnsettledOf(d)' \subseteq UnsettledOf(d)
    BY <1>5 DEF UnsettledOf, Unsettled
  <2> QED
    BY <1>3, <1>5, <2>1
<1>6. ASSUME d = c, credits[c] > 0, absorbed'[c] = absorbed[c]
      PROVE  absorbed'[d] + most * k <= most * N
  <2>1. ~(absorbed[c] > 0)
    BY <1>6 DEF SettleInv, TypeOK
  <2> HIDE DEF n, k, N
  <2>2. most * k <= most * N /\ most * k \in Nat /\ most * N \in Nat
    BY <1>1, <1>2, TimesGrows
  <2> QED
    BY <1>1, <1>6, <2>1, <2>2
<1>7. ASSUME d = c, Unsettled(h), ~Unsettled(h)', absorbed'[c] <= absorbed[c] + most
      PROVE  absorbed'[d] + most * k <= most * N
  <2>1. UnsettledOf(d)' = UnsettledOf(d) \ {h} /\ h \in UnsettledOf(d)
    BY <1>7 DEF UnsettledOf, Unsettled
  <2>2. n = k + 1
    BY <1>1, <1>2, <2>1, UnsettledFinite, FS_RemoveElement
  <2> HIDE DEF n, k, N
  <2>3. most * n = most * k + most /\ most * k \in Nat /\ most * N \in Nat
    BY <1>1, <1>2, <2>2, TimesGrows
  <2> QED
    BY <1>1, <1>7, <2>3
<1> QED
  BY <1>4, <1>5, <1>6, <1>7

\* The steps of a handler that is serving a request.
LEMMA OvershootServes ==
  ASSUME NEW most \in Nat, \A r \in Reported : r <= most, SettleInv, NoOverdraft, TypeOK',
         Mode = "response", CostsReported, Bounded(most), NEW h \in Handler, Serve(h)
  PROVE  CostsReported' /\ Bounded(most)'
<1>1. /\ call \in [Handler -> Request \cup {Idle}] /\ credits \in [Caller -> Int]
      /\ absorbed \in [Caller -> Int]
  BY DEF SettleInv, TypeOK
<1>2. call[h].at # "idle"
  BY DEF Serve, Admit, BalanceGet, Provision, ProvisionZero, Charge, StoreFails, BuildFails,
     CallFails, CallSucceeds, Refund, AddCost, Settle, LateStoreFails, At
<1>3. call[h] \in Request
  BY <1>1, <1>2 DEF Idle
<1>4. PICK c \in Caller : c = call[h].caller
  BY <1>3, RequestFields
<1>5. call[h].price \in Nat /\ call[h].cost \in Nat
  BY <1>3, RequestFields
<1>6. ASSUME NEW p \in Point, Goto(h, p)
      PROVE  /\ \A g \in Handler \ {h} : call'[g] = call[g]
             /\ call'[h].at = p
             /\ p # "idle" => /\ call'[h].caller = c /\ call'[h].cost = call[h].cost
                              /\ call'[h].price = call[h].price
  BY <1>1, <1>3, <1>4, <1>6 DEF Goto, Request, Idle
\* A step after which the call is no nearer to be settled than before, or has none to settle.
<1>7. ASSUME NEW p \in Point, Goto(h, p), absorbed' = absorbed,
             p = "send" => call[h].price = 0 \/ credits[c] > 0, p # "addcost",
             p = "settle" => call[h].at = "addcost" /\ call[h].price > 0
      PROVE  CostsReported' /\ Bounded(most)'
  <2>1. CostsReported'
    BY <1>6, <1>7 DEF CostsReported
  <2>2. Unsettled(h)' => call'[h].caller = c /\ (Unsettled(h) \/ credits[c] > 0)
    BY <1>6, <1>7 DEF Unsettled
  <2>3. Unsettled(h) => call[h].caller = c
    BY <1>4
  <2> QED
    BY <1>6, <1>7, <2>1, <2>2, <2>3, OvershootMoves
<1>8. CASE Admit(h) \/ BalanceGet(h) \/ StoreFails(h) \/ BuildFails(h) \/ Refund(h)
  <2>1. PICK p \in {"idle", "seed", "refund"} : Goto(h, p)
    BY <1>8 DEF Admit, BalanceGet, StoreFails, BuildFails, Refund, AfterFailedCall
  <2>2. absorbed' = absorbed
    BY <1>8 DEF Admit, BalanceGet, StoreFails, BuildFails, Refund, history
  <2> QED
    BY <1>7, <2>1, <2>2 DEF Point
<1>9. CASE Provision(h) \/ ProvisionZero(h) \/ \E success \in BOOLEAN : CallFails(h, success)
  <2>1. PICK p \in {"idle", "zero", "charge", "refund"} : Goto(h, p)
    BY <1>9 DEF Provision, ProvisionZero, Refresh, Insert, AfterSeed, CallFails, AfterFailedCall
  <2>2. absorbed' = absorbed
    BY <1>9 DEF Provision, ProvisionZero, CallFails
  <2> QED
    BY <1>7, <2>1, <2>2 DEF Point
\* The check: a billable call passes only on a balance, so nothing was spared yet.
<1>10. CASE Charge(h)
  <2>1. absorbed' = absorbed /\ Goto(h, IF call[h].price > 0 /\ credits[c] <= 0 THEN "idle" ELSE "send")
    BY <1>4, <1>10 DEF Charge, history
  <2>2. PICK p \in {"idle", "send"} : Goto(h, p) /\ (p = "send" => ~(call[h].price > 0 /\ credits[c] <= 0))
    BY <2>1
  <2>3. p = "send" => call[h].price = 0 \/ credits[c] > 0
    BY <1>1, <1>5, <2>2
  <2> QED
    BY <1>7, <2>1, <2>2, <2>3 DEF Point
<1>11. CASE \E cost \in Reported : CallSucceeds(h, cost)
  <2>1. PICK cost \in Reported :
          call' = [call EXCEPT ![h] = IF cost = 0 THEN Idle
                     ELSE [call[h] EXCEPT !.at = "addcost", !.held = 0, !.cost = cost]]
    BY <1>1, <1>11 DEF CallSucceeds
  <2>2. absorbed' = absorbed /\ call[h].at = "send"
    BY <1>11 DEF CallSucceeds, At
  <2>3. /\ \A g \in Handler \ {h} : call'[g] = call[g]
        /\ call'[h] = IF cost = 0 THEN Idle
                      ELSE [call[h] EXCEPT !.at = "addcost", !.held = 0, !.cost = cost]
    BY <1>1, <2>1
  <2>4. \/ call'[h].at = "idle"
        \/ /\ call'[h].at = "addcost" /\ call'[h].cost \in Reported /\ call'[h].caller = c
           /\ call'[h].price = call[h].price
    BY <1>3, <1>4, <2>3 DEF Request, Idle
  <2>5. CostsReported'
    BY <2>3, <2>4 DEF CostsReported
  <2>6. Unsettled(h)' => Unsettled(h) /\ call'[h].caller = c
    BY <2>2, <2>4 DEF Unsettled
  <2> QED
    BY <1>4, <2>2, <2>3, <2>5, <2>6, OvershootMoves
<1>12. CASE AddCost(h) \/ LateStoreFails(h)
  <2>1. PICK p \in {"idle", "settle"} :
          Goto(h, p) /\ (p = "settle" => call[h].at = "addcost" /\ call[h].price > 0)
    BY <1>12 DEF AddCost, LateStoreFails, AfterAddCost, At
  <2>2. absorbed' = absorbed
    BY <1>12 DEF AddCost, LateStoreFails, history
  <2> QED
    BY <1>7, <2>1, <2>2 DEF Point
<1>13. CASE Settle(h)
  <2> DEFINE charge == IF call[h].cost > credits[c] THEN credits[c] ELSE call[h].cost
  <2>1. /\ Goto(h, "idle") /\ call[h].at = "settle"
        /\ absorbed' = [absorbed EXCEPT ![c] = @ + call[h].cost - charge]
    BY <1>4, <1>13 DEF Settle, At
  <2>2. /\ absorbed'[c] = absorbed[c] + call[h].cost - charge
        /\ \A d \in Caller \ {c} : absorbed'[d] = absorbed[d]
    BY <1>1, <2>1
  <2>3. /\ call[h].cost <= most /\ call[h].price > 0
        /\ credits[c] \in Int /\ credits[c] >= 0 /\ absorbed[c] \in Int
    BY <1>1, <2>1 DEF CostsReported, NoOverdraft
  <2>4. absorbed'[c] <= absorbed[c] + most
    BY <1>5, <2>2, <2>3
  <2>5. Unsettled(h) /\ call'[h].at = "idle" /\ \A g \in Handler \ {h} : call'[g] = call[g]
    BY <1>6, <2>1, <2>3 DEF Unsettled, Point
  <2>6. CostsReported' /\ ~Unsettled(h)'
    BY <2>5 DEF CostsReported, Unsettled
  <2> QED
    BY <1>4, <2>2, <2>4, <2>5, <2>6, OvershootMoves
<1> QED
  BY <1>8, <1>9, <1>10, <1>11, <1>12, <1>13 DEF Serve

\* Every step keeps the debt within what the unsettled requests can cost.
LEMMA OvershootStep ==
  ASSUME NEW most \in Nat, \A r \in Reported : r <= most, SettleInv, NoOverdraft,
         Mode = "response" => CostsReported /\ Bounded(most), [Next]_vars
  PROVE  Mode = "response" => CostsReported' /\ Bounded(most)'
<1> SUFFICES ASSUME Mode = "response" PROVE CostsReported' /\ Bounded(most)'
  OBVIOUS
<1>1. TypeOK' /\ call \in [Handler -> Request \cup {Idle}]
  BY NextTyped DEF SettleInv, TypeOK
<1>2. CASE \E h \in Handler : Serve(h)
  BY <1>1, <1>2, OvershootServes
<1>3. CASE \E h \in Handler : Arrive(h)
  <2>1. PICK h \in Handler, c \in Caller, ip \in IP :
          BalanceRead(h, c, ip) \/ \E price \in Price : Allow(h, c, ip, price)
    BY <1>3 DEF Arrive
  <2>2. UNCHANGED absorbed
    BY <2>1 DEF BalanceRead, Allow, history
  <2>3. /\ \A g \in Handler \ {h} : call'[g] = call[g]
        /\ call'[h].at \in {"get", "quota"} /\ call[h].at = "idle"
    BY <1>1, <2>1 DEF BalanceRead, Allow, NewRequest, Active
  <2>4. CostsReported' /\ ~Unsettled(h)' /\ ~Unsettled(h)
    BY <2>3 DEF CostsReported, Unsettled
  <2> QED
    BY <1>1, <2>2, <2>3, <2>4, OvershootMoves
\* Around the handlers, nobody passes the check.
<1>4. ASSUME UNCHANGED absorbed,
             \A h \in Handler : \/ call'[h].at = "idle"
                                \/ /\ call'[h].at = call[h].at /\ call'[h].cost = call[h].cost
                                   /\ call'[h].caller = call[h].caller
                                   /\ call'[h].price = call[h].price
      PROVE  CostsReported' /\ Bounded(most)'
  <2>1. CostsReported'
    BY <1>4 DEF CostsReported
  <2>2. ASSUME NEW c \in Caller
        PROVE  absorbed'[c] + most * Cardinality(UnsettledOf(c)') <= most * Cardinality(Handler)
    <3> DEFINE n == Cardinality(UnsettledOf(c))
               k == Cardinality(UnsettledOf(c)')
               N == Cardinality(Handler)
    <3>1. UnsettledOf(c)' \subseteq UnsettledOf(c)
      BY <1>4 DEF UnsettledOf, Unsettled
    <3>2. k <= n /\ k \in Nat /\ n \in Nat /\ N \in Nat
      BY <3>1, UnsettledFinite, FS_Subset, FS_CardinalityType
    <3>3. absorbed'[c] = absorbed[c] /\ absorbed[c] \in Int /\ absorbed[c] + most * n <= most * N
      BY <1>4 DEF Bounded, SettleInv, TypeOK
    <3> SUFFICES absorbed'[c] + most * k <= most * N
      OBVIOUS
    <3> HIDE DEF n, k, N
    <3>4. most * k <= most * n /\ most * k \in Nat /\ most * n \in Nat /\ most * N \in Nat
      BY <3>2, TimesGrows
    <3> QED
      BY <3>3, <3>4
  <2> QED
    BY <2>1, <2>2 DEF Bounded, UnsettledOf, Unsettled
<1>5. CASE Reload
  <2>1. ASSUME NEW h \in Handler, Active(h)
        PROVE  /\ call'[h].at = call[h].at /\ call'[h].cost = call[h].cost
               /\ call'[h].caller = call[h].caller /\ call'[h].price = call[h].price
    <3>1. call[h] \in Request
      BY <1>1, <2>1 DEF Active, Idle
    <3>2. call'[h] = [call[h] EXCEPT !.stale = TRUE]
      BY <1>5, <2>1 DEF Reload
    <3> QED
      BY <3>1, <3>2 DEF Request
  <2>2. ASSUME NEW h \in Handler, ~Active(h) PROVE call'[h].at = "idle"
    BY <1>5, <2>2 DEF Reload, Idle
  <2> QED
    BY <1>4, <1>5, <2>1, <2>2 DEF Reload
<1>6. CASE Crash
  BY <1>4, <1>6 DEF Crash, Idle
<1>7. CASE BreakerCools \/ (\E c \in Caller : MintCools(c)) \/ UNCHANGED vars
  <2>1. UNCHANGED <<call, absorbed>>
    BY <1>7 DEF BreakerCools, MintCools, vars, history
  <2> QED
    BY <1>4, <2>1
<1> QED
  BY <1>2, <1>3, <1>5, <1>6, <1>7 DEF Next

\* Response mode: if the partner reports no cost above most, what a caller was spared is at
\* most that for each handler, however its calls interleave (broker.go:365-384, 447-455).
THEOREM OvershootHolds ==
  ASSUME NEW most \in Reported, \A r \in Reported : r <= most
  PROVE  Spec => []OvershootBounded
<1>1. most \in Nat
  BY ManagedAssumption
<1>2. Init => OvershootInv(most)
  <2> SUFFICES ASSUME Init PROVE SettleInv /\ CostsReported /\ Bounded(most)
    BY DEF OvershootInv
  <2>1. SettleInv /\ CostsReported
    BY InitTyped DEF Init, SettleInv, CostsReported, Idle
  <2>2. ASSUME NEW c \in Caller
        PROVE  absorbed[c] + most * Cardinality(UnsettledOf(c)) <= most * Cardinality(Handler)
    <3>1. /\ most * Cardinality(UnsettledOf(c)) <= most * Cardinality(Handler)
          /\ most * Cardinality(UnsettledOf(c)) \in Nat
      BY <1>1, UnsettledFinite, TimesGrows
    <3>2. absorbed[c] = 0
      BY DEF Init
    <3> QED
      BY <3>1, <3>2
  <2> QED
    BY <2>1, <2>2 DEF Bounded
<1>3. OvershootInv(most) /\ NoOverdraft /\ [Next]_vars => OvershootInv(most)'
  BY <1>1, SettleStep, OvershootStep DEF OvershootInv
<1>4. OvershootInv(most) => OvershootBounded
  <2> SUFFICES ASSUME OvershootInv(most), Mode = "response", NEW c \in Caller
               PROVE  absorbed[c] <= Cardinality(Handler) * most
    BY DEF OvershootBounded
  <2> DEFINE n == Cardinality(UnsettledOf(c))
             N == Cardinality(Handler)
  <2>1. n \in Nat /\ N \in Nat /\ absorbed[c] \in Int /\ absorbed[c] + most * n <= most * N
    BY UnsettledFinite DEF OvershootInv, Bounded, SettleInv, TypeOK
  <2> SUFFICES absorbed[c] <= N * most
    OBVIOUS
  <2> HIDE DEF n, N
  <2>2. most * n \in Nat /\ most * N \in Nat /\ N * most = most * N
    BY <1>1, <2>1, TimesGrows
  <2> QED
    BY <2>1, <2>2
<1> QED
  BY <1>2, <1>3, <1>4, NeverOverdrawn, PTL DEF Spec

(***************************************************************************)
(* How near a request is to its answer.  What is left of EveryRequest-     *)
(* Answered when fairness is taken away: every step of a handler that      *)
(* serves brings it nearer, and nothing else takes it back, so a request   *)
(* is answered within seven steps of its own handler (broker.go:224-484).  *)
(***************************************************************************)
Left == [idle |-> 0, settle |-> 1, refund |-> 1, addcost |-> 2, send |-> 3, charge |-> 4,
         zero |-> 5, seed |-> 6, get |-> 7, quota |-> 7]

StepsLeft(h) == Left[call[h].at]

\* A request that goes to a later point is nearer to its answer.
LEMMA GoesNearer ==
  ASSUME TypeOK, NEW h \in Handler, NEW p \in Point, Goto(h, p), Left[p] < StepsLeft(h)
  PROVE  StepsLeft(h)' < StepsLeft(h)
<1>1. call' = [call EXCEPT ![h] = IF p = "idle" THEN Idle ELSE [call[h] EXCEPT !.at = p]]
  BY DEF Goto
<1>2. Active(h)
  <2>1. Left[p] \in Nat /\ Left["idle"] = 0
    BY DEF Left, Point
  <2> QED
    BY <2>1 DEF StepsLeft, Active
<1>3. call'[h].at = p
  BY <1>1, <1>2 DEF TypeOK, Active, Idle, Request
<1> QED
  BY <1>3 DEF StepsLeft

\* Every step of a handler brings the request it serves nearer to its answer.
LEMMA ServesNearer ==
  ASSUME TypeOK, NEW h \in Handler, Serve(h) PROVE StepsLeft(h)' < StepsLeft(h)
<1> USE DEF StepsLeft, Left, At
<1>1. call[h] \in Request
  BY ServeMoves
<1>2. CASE Admit(h)
  BY <1>2, GoesNearer DEF Admit, Point
<1>3. CASE BalanceGet(h)
  BY <1>3, GoesNearer DEF BalanceGet, Point
<1>4. CASE Provision(h) \/ ProvisionZero(h)
  <2>1. AfterSeed(h) => \E p \in {"idle", "charge"} : Goto(h, p)
    BY DEF AfterSeed
  <2>2. \/ At(h, "seed") /\ \E p \in {"idle", "charge", "zero"} : Goto(h, p)
        \/ At(h, "zero") /\ \E p \in {"idle", "charge"} : Goto(h, p)
    BY <1>4, <2>1 DEF Provision, ProvisionZero, Refresh, Insert
  <2> QED
    BY <2>2, GoesNearer DEF Point
<1>5. CASE Charge(h)
  <2>1. At(h, "charge")
    BY <1>5 DEF Charge
  <2>2. CASE \E p \in {"idle", "send"} : Goto(h, p)
    BY <2>1, <2>2, GoesNearer DEF Point
  <2>3. CASE call' = [call EXCEPT ![h].at = "send", ![h].held = call[h].price]
    BY <1>1, <2>1, <2>3 DEF TypeOK, Request
  <2> QED
    BY <1>5, <2>2, <2>3 DEF Charge
<1>6. CASE StoreFails(h)
  BY <1>6, GoesNearer DEF StoreFails, Point
<1>7. AfterFailedCall(h) => \E p \in {"idle", "refund"} : Goto(h, p)
  BY DEF AfterFailedCall
<1>8. CASE BuildFails(h)
  BY <1>7, <1>8, GoesNearer DEF BuildFails, Point
<1>9. ASSUME NEW success \in BOOLEAN, CallFails(h, success) PROVE StepsLeft(h)' < StepsLeft(h)
  BY <1>7, <1>9, GoesNearer DEF CallFails, Point
<1>10. ASSUME NEW cost \in Reported, CallSucceeds(h, cost) PROVE StepsLeft(h)' < StepsLeft(h)
  <2>1. At(h, "send") /\ call'[h].at \in {"idle", "addcost"}
    BY <1>1, <1>10 DEF CallSucceeds, TypeOK, Request, Idle
  <2> QED
    BY <2>1
<1>11. CASE Refund(h)
  BY <1>11, GoesNearer DEF Refund, Point
<1>12. AfterAddCost(h) => \E p \in {"idle", "settle"} : Goto(h, p)
  BY DEF AfterAddCost
<1>13. CASE AddCost(h)
  BY <1>12, <1>13, GoesNearer DEF AddCost, Point
<1>14. CASE Settle(h)
  BY <1>14, GoesNearer DEF Settle, Point
<1>15. CASE LateStoreFails(h)
  BY <1>12, <1>15, GoesNearer DEF LateStoreFails, Point
<1> QED
  BY <1>2, <1>3, <1>4, <1>5, <1>6, <1>8, <1>9, <1>10, <1>11, <1>13, <1>14, <1>15 DEF Serve

\* A request only ever comes nearer to its answer: its own handler's steps bring it
\* nearer, and those of other handlers, cooldowns, reloads and crashes take nothing back.
ComesNearer ==
    \A h \in Handler : /\ Serve(h) => StepsLeft(h)' < StepsLeft(h)
                       /\ Active(h) => StepsLeft(h)' <= StepsLeft(h)

\* No retry and no reload makes a request start over, in any reachable state.
THEOREM RequestsComeNearer == Spec => [][ComesNearer]_vars
<1>1. ASSUME TypeOK, [Next]_vars, NEW h \in Handler
      PROVE  /\ Serve(h) => StepsLeft(h)' < StepsLeft(h)
             /\ Active(h) => StepsLeft(h)' <= StepsLeft(h)
  <2>1. StepsLeft(h) \in 0 .. 7
    <3>1. call[h].at \in Point
      BY <1>1 DEF TypeOK, Request, Idle, Point
    <3> QED
      BY <3>1 DEF StepsLeft, Left, Point
  <2>2. ASSUME Active(h) PROVE StepsLeft(h)' <= StepsLeft(h) \/ Serve(h)
    <3>1. SUFFICES call'[h].at = call[h].at \/ call'[h] = Idle \/ Serve(h)
      <4>1. Left["idle"] = 0 /\ Idle.at = "idle"
        BY DEF Left, Idle
      <4> QED
        BY <2>1, <3>1, <4>1, ServesNearer DEF StepsLeft
    <3>2. ASSUME NEW g \in Handler, Arrive(g) PROVE call'[h] = call[h]
      <4>1. g # h
        BY <2>2, <3>2 DEF Arrive, Allow, BalanceRead
      <4> QED
        BY <1>1, <3>2, <4>1 DEF Arrive, Allow, BalanceRead, TypeOK
    <3>3. ASSUME NEW g \in Handler \ {h}, Serve(g) PROVE call'[h] = call[h]
      BY <1>1, <3>3, ServeMoves
    <3>4. CASE Reload
      <4>1. call[h] \in Request
        BY <1>1, <2>2 DEF TypeOK, Active, Idle
      <4>2. call'[h] = [call[h] EXCEPT !.stale = TRUE]
        BY <2>2, <3>4 DEF Reload
      <4> QED
        BY <4>1, <4>2 DEF Request
    <3>5. CASE Crash
      BY <3>5 DEF Crash
    <3>6. CASE BreakerCools \/ (\E c \in Caller : MintCools(c)) \/ UNCHANGED vars
      BY <3>6 DEF BreakerCools, MintCools, vars
    <3> QED
      BY <1>1, <3>2, <3>3, <3>4, <3>5, <3>6 DEF Next
  <2>3. Serve(h) => StepsLeft(h)' < StepsLeft(h)
    BY <1>1, ServesNearer
  <2>4. ASSUME Serve(h) PROVE StepsLeft(h)' <= StepsLeft(h)
    <3>1. StepsLeft(h)' \in Int
      <4>1. call'[h].at \in Point
        BY <1>1, NextTyped DEF TypeOK, Request, Idle, Point
      <4> QED
        BY <4>1 DEF StepsLeft, Left, Point
    <3> QED
      BY <2>1, <2>3, <2>4, <3>1
  <2> QED
    BY <2>2, <2>3, <2>4
<1>2. TypeOK /\ [Next]_vars => ComesNearer
  BY <1>1 DEF ComesNearer
<1> QED
  BY <1>2, TypeCorrect, PTL DEF Spec
=============================================================================
