--------------------------- MODULE TenancyProofs ---------------------------
(***************************************************************************)
(* Theorems about Tenancy: its type, and the isolation of callers, for     *)
(* every set of callers, handlers, numbers and items, and whichever ids    *)
(* the partner gives out again.                                            *)
(***************************************************************************)
EXTENDS Tenancy, TLAPS

\* Init gives every variable its type.
LEMMA InitTyped == Init => TypeOK
  BY DEF Init, TypeOK, Idle, Resource

\* A request under way has all its fields.
LEMMA RequestFields ==
  ASSUME TypeOK, NEW h \in Handler, req[h].at # "idle"
  PROVE  /\ req[h] \in Request
         /\ req[h].at \in Point /\ req[h].kind \in Kind /\ req[h].caller \in Caller
         /\ req[h].todo \subseteq Resource /\ req[h].on \subseteq Resource
         /\ req[h].kept \subseteq Resource
<1>1. req[h] \in Request
  BY DEF TypeOK, Idle
<1>2. QED
  BY <1>1 DEF Request

\* Every step keeps the type.
LEMMA NextTyped == TypeOK /\ [Next]_vars => TypeOK'
<1> SUFFICES ASSUME TypeOK, [Next]_vars PROVE TypeOK'
  OBVIOUS
<1> USE TenancyAssumption
<1>1. ASSUME NEW h \in Handler, NEW c \in Caller, NEW kind \in Kind,
             NEW refs \in SUBSET Resource, Arrive(h, c, kind, refs)
      PROVE  TypeOK'
  BY <1>1 DEF Arrive, TypeOK, Request, Point, partner, history
<1>2. ASSUME NEW h \in Handler, Serve(h) PROVE TypeOK'
  <2> USE DEF At, TypeOK, Becomes
  <2>0. CASE req[h].at # "idle"
    <3>0. /\ req[h] \in Request
          /\ req[h].at \in Point /\ req[h].kind \in Kind /\ req[h].caller \in Caller
          /\ req[h].todo \subseteq Resource /\ req[h].on \subseteq Resource
          /\ req[h].kept \subseteq Resource
      BY <2>0, RequestFields
    <3> USE <3>0
    <3>1. CASE Enforce(h)
      <4>1. PICK q \in Request \cup {Idle} : req' = [req EXCEPT ![h] = q]
        <5>1. CASE req[h].todo = {}
          <6>1. [req[h] EXCEPT !.at = "send"] \in Request
            BY DEF Request, Point
          <6>2. QED
            BY <3>1, <5>1, <6>1 DEF Enforce
        <5>2. CASE req[h].todo # {}
          <6>1. PICK r \in req[h].todo :
                  Becomes(h, IF Owns(req[h].caller, r)
                             THEN [req[h] EXCEPT !.todo = @ \ {r}] ELSE Idle)
            BY <3>1, <5>2 DEF Enforce
          <6>2. [req[h] EXCEPT !.todo = @ \ {r}] \in Request
            BY DEF Request
          <6>3. QED
            BY <6>1, <6>2 DEF Becomes
        <5>3. QED
          BY <5>1, <5>2
      <4>2. QED
        BY <3>1, <4>1 DEF Enforce, partner, history
    <3>2. CASE Refused(h)
      BY <3>2 DEF Refused, partner, history
    <3>3. CASE PartnerUses(h) \/ Summarise(h)
      BY <3>3 DEF PartnerUses, Summarise, partner, history
    <3>4. ASSUME NEW array \in BOOLEAN, PartnerLists(h, array) PROVE TypeOK'
      <4>1. items \subseteq Resource
        BY DEF Resource
      <4>2. [req[h] EXCEPT !.at = IF array THEN "filter" ELSE "answer",
                           !.todo = items, !.kept = IF array THEN {} ELSE items] \in Request
        BY <4>1 DEF Request, Point
      <4>3. QED
        BY <3>4, <4>2 DEF PartnerLists, partner, history
    <3>5. CASE Filtered(h)
      <4>1. [req[h] EXCEPT !.at = "answer"] \in Request
        BY DEF Request, Point
      <4>2. QED
        BY <3>5, <4>1 DEF Filtered, partner, history
    <3>6. ASSUME NEW n \in Number, NEW heard \in BOOLEAN, PartnerCreates(h, n, heard)
          PROVE  TypeOK'
      <4>1. n \in Resource /\ items \subseteq Resource
        BY DEF Resource
      <4>2. disputed' \subseteq Resource
        BY <3>6, <4>1 DEF PartnerCreates, Reused
      <4>3. [req[h] EXCEPT !.at = "claim", !.on = {n}] \in Request
        BY <4>1 DEF Request, Point
      <4>4. req' \in [Handler -> Request \cup {Idle}]
        BY <3>6, <4>3 DEF PartnerCreates, Then
      <4>5. QED
        BY <3>6, <4>1, <4>2, <4>4 DEF PartnerCreates
    <3>7. ASSUME NEW n \in Number, NEW heard \in BOOLEAN, PartnerDeletes(h, n, heard)
          PROVE  TypeOK'
      BY <3>7 DEF PartnerDeletes, Then, Request, Point
    <3>8. CASE ClaimCreated(h)
      <4>1. PICK n \in req[h].on :
              /\ Claim(n, req[h].caller)
              /\ settled' = IF n \in live /\ maker[n] = req[h].caller
                            THEN settled \cup {n} ELSE settled \ {n}
        BY <3>8 DEF ClaimCreated
      <4>2. settled' \subseteq Resource
        BY <4>1
      <4>3. owner' \in [Resource -> Caller \cup {Nobody}]
        BY <4>1 DEF Claim
      <4>4. QED
        BY <3>8, <4>2, <4>3 DEF ClaimCreated, partner
    <3>9. CASE Release(h)
      BY <3>9 DEF Release, partner
    <3>10. CASE Filter(h)
      <4>1. PICK i \in req[h].todo :
              Becomes(h, IF Owns(req[h].caller, Link[i])
                         THEN [req[h] EXCEPT !.at = "keep", !.todo = @ \ {i}, !.on = {i}]
                         ELSE [req[h] EXCEPT !.todo = @ \ {i}])
        BY <3>10 DEF Filter
      <4>2. [req[h] EXCEPT !.at = "keep", !.todo = @ \ {i}, !.on = {i}] \in Request
        BY DEF Request, Point
      <4>3. [req[h] EXCEPT !.todo = @ \ {i}] \in Request
        BY DEF Request
      <4>4. req' \in [Handler -> Request \cup {Idle}]
        BY <4>1, <4>2, <4>3 DEF Becomes
      <4>5. QED
        BY <3>10, <4>4 DEF Filter, partner, history
    <3>11. CASE Keep(h)
      <4>1. PICK i \in req[h].on :
              /\ Claim(i, req[h].caller)
              /\ req' = [req EXCEPT ![h].at = "filter", ![h].on = {}, ![h].kept = @ \cup {i}]
        BY <3>11 DEF Keep
      <4>2. [req[h] EXCEPT !.at = "filter", !.on = {}, !.kept = @ \cup {i}] \in Request
        BY DEF Request, Point
      <4>3. req' \in [Handler -> Request \cup {Idle}]
        BY <4>1, <4>2
      <4>4. owner' \in [Resource -> Caller \cup {Nobody}]
        BY <4>1 DEF Claim
      <4>5. QED
        BY <3>11, <4>3, <4>4 DEF Keep, partner, history
    <3>12. CASE Answer(h)
      BY <3>12 DEF Answer, partner, history
    <3>13. CASE LedgerFails(h)
      <4>1. [req[h] EXCEPT !.at = "filter", !.on = {}, !.kept = @ \cup req[h].on] \in Request
        BY DEF Request, Point
      <4>2. QED
        BY <3>13, <4>1 DEF LedgerFails, partner, history
    <3>14. QED
      BY <1>2, <3>1, <3>2, <3>3, <3>4, <3>5, <3>6, <3>7, <3>8, <3>9, <3>10, <3>11, <3>12,
         <3>13 DEF Serve
  <2>1. CASE req[h].at = "idle"
    BY <1>2, <2>1 DEF Serve, Enforce, Refused, PartnerUses, PartnerLists, Summarise,
       PartnerCreates, PartnerDeletes, ClaimCreated, Release, Filter, Keep, Filtered, Answer, LedgerFails
  <2>2. QED
    BY <2>0, <2>1
<1>3. ASSUME NEW i \in Item, ItemArrives(i) PROVE TypeOK'
  BY <1>3 DEF ItemArrives, TypeOK, Resource
<1>4. CASE Crash
  BY <1>4 DEF Crash, TypeOK, Idle, partner
<1>5. CASE UNCHANGED vars
  BY <1>5 DEF vars, partner, history, TypeOK
<1>6. QED
  BY <1>1, <1>2, <1>3, <1>4, <1>5 DEF Next

\* tenancy.go and the ledger keep every variable of the model within its type.
THEOREM TypeCorrect == Spec => []TypeOK
  BY InitTyped, NextTyped, PTL DEF Spec
-----------------------------------------------------------------------------
(* Isolation.                                                              *)

\* Who a resource is attributed to: a number that exists has a maker; an item has one
\* exactly from its arrival, the maker of its number, unless one of them is in dispute.
Made ==
  /\ \A n \in live : maker[n] # Nobody
  /\ \A i \in items : maker[i] # Nobody
  /\ \A i \in Item \ items : maker[i] = Nobody /\ i \notin disputed
  /\ \A i \in items \ disputed : Link[i] \notin disputed /\ maker[i] = maker[Link[i]]

\* A ledger row names the maker of the resource.
RowNamesMaker == \A r \in Resource \ disputed : owner[r] # Nobody => owner[r] = maker[r]

\* A number that is gone and whose deletion the ledger has recorded has no row.
SettledGone == \A n \in (Number \cap settled) \ live : owner[n] = Nobody

Active(h) == req[h].at # "idle"

\* What h holds was made by its caller, and so was what it keeps for the answer.
Vouched(h) ==
  Active(h) =>
    /\ OwnOf(req[h].caller, Holds(h))
    /\ OwnOf(req[h].caller, IF At(h, "answer") THEN req[h].kept \ req[h].todo ELSE req[h].kept)
    /\ req[h].kept \subseteq items
    /\ req[h].at \in {"filter", "keep"} => req[h].kind = "list" /\ req[h].todo \subseteq items
    /\ At(h, "keep") => req[h].on \subseteq items
    /\ req[h].kind \in {"create", "list", "summary"} /\ req[h].at \in {"check", "send"} => req[h].on = {}
    /\ req[h].kind = "delete" => \E n \in Number : req[h].on = {n}
    /\ At(h, "release") => req[h].kind = "delete" /\ req[h].on \cap live \subseteq disputed

\* The inductive invariant of isolation.
Isolated ==
  /\ TypeOK /\ Made /\ RowNamesMaker /\ SettledGone
  /\ \A h \in Handler : Vouched(h)
  /\ CreatorOwns

\* What a step does to the partner: items stay, and so does the attribution of an
\* item; whatever a handler holds keeps its maker, or is disputed from then on.
MakersKept ==
  /\ items \subseteq items'
  /\ \A i \in items : maker'[i] = maker[i] /\ (i \in disputed => i \in disputed')
  /\ \A h \in Handler : \A r \in Holds(h) :
       /\ r \in disputed => r \in disputed'
       /\ maker[r] # Nobody => r \in disputed' \/ maker'[r] = maker[r]
       /\ r \in live' => r \in live \/ r \in disputed'

\* Each step keeps what is known of the makers.
LEMMA PartnerStep ==
  ASSUME TypeOK, Made, [Next]_vars
  PROVE  MakersKept /\ Made'
<1> USE TenancyAssumption DEF TypeOK, Made, MakersKept
<1>0. \A h \in Handler : Holds(h) \subseteq Resource
  BY RequestFields DEF Holds, At
<1>1. CASE UNCHANGED <<live, items, maker, disputed>>
  BY <1>1
<1>2. ASSUME NEW h \in Handler, NEW n \in Number, NEW heard \in BOOLEAN,
             PartnerCreates(h, n, heard)
      PROVE  MakersKept /\ Made'
  <2>1. /\ live' = live \cup {n} /\ items' = items
        /\ maker' = [maker EXCEPT ![n] = req[h].caller] /\ disputed' = Reused(n)
    BY <1>2 DEF PartnerCreates
  <2>2. req[h].caller \in Caller
    BY <1>2, RequestFields DEF PartnerCreates, At
  <2>3. n \in Resource /\ n \notin Item /\ items \subseteq Resource
    BY DEF Resource
  <2>4. \A r \in Resource \ {n} : maker'[r] = maker[r] /\ (r \in disputed => r \in disputed')
    BY <2>1, <2>3 DEF Reused
  <2>5. \A g \in Handler : n \in Holds(g) => n \in disputed'
    BY <2>1 DEF Reused, Reopened
  <2>6. \A i \in items \ disputed' : i \notin disputed /\ Link[i] # n
    BY <2>1, <2>3 DEF Reused
  <2>7. \A i \in items \ disputed' : Link[i] \notin disputed' /\ maker'[i] = maker'[Link[i]]
    <3> SUFFICES ASSUME NEW i \in items \ disputed'
                 PROVE  Link[i] \notin disputed' /\ maker'[i] = maker'[Link[i]]
      OBVIOUS
    <3>1. /\ Link[i] \in Resource \ {n} /\ i \in Resource \ {n}
          /\ Link[i] \notin Item /\ Link[i] \notin disputed /\ maker[i] = maker[Link[i]]
      BY <2>3, <2>6 DEF Resource
    <3>2. Link[i] \notin disputed'
      BY <2>1, <3>1 DEF Reused
    <3>3. QED
      BY <2>4, <3>1, <3>2
  <2>8. \A i \in Item \ items' : i \notin disputed'
    BY <2>1, <2>3 DEF Reused
  <2>9. MakersKept
    <3>1. \A i \in items : maker'[i] = maker[i] /\ (i \in disputed => i \in disputed')
      BY <2>3, <2>4
    <3>2. \A g \in Handler : \A r \in Holds(g) :
            /\ r \in disputed => r \in disputed'
            /\ r \in disputed' \/ maker'[r] = maker[r]
            /\ r \in live' => r \in live \/ r \in disputed'
      BY <1>0, <2>1, <2>4, <2>5
    <3>3. QED
      BY <2>1, <3>1, <3>2
  <2>10. Made'
    <3>1. \A m \in live' : maker'[m] # Nobody
      BY <2>1, <2>2, <2>3 DEF Resource
    <3>2. \A i \in Item \ items' : maker'[i] = Nobody
      BY <2>1, <2>3, <2>4 DEF Resource
    <3>3. \A i \in items' : maker'[i] # Nobody
      BY <2>1, <2>3, <2>4
    <3>4. QED
      BY <2>1, <2>7, <2>8, <3>1, <3>2, <3>3
  <2>11. QED
    BY <2>9, <2>10
<1>3. ASSUME NEW h \in Handler, NEW n \in Number, NEW heard \in BOOLEAN,
             PartnerDeletes(h, n, heard)
      PROVE  MakersKept /\ Made'
  BY <1>3 DEF PartnerDeletes
<1>4. ASSUME NEW i \in Item, ItemArrives(i) PROVE MakersKept /\ Made'
  <2>1. /\ i \notin items /\ Link[i] \in live /\ items' = items \cup {i} /\ live' = live
        /\ maker' = [maker EXCEPT ![i] = maker[Link[i]]] /\ maker[i] = Nobody
        /\ disputed' = IF Link[i] \in disputed THEN disputed \cup {i} ELSE disputed
    BY <1>4 DEF ItemArrives
  <2>2. i \in Resource /\ i \notin Number /\ Link[i] \in Resource \ {i}
    BY DEF Resource
  <2>3. /\ \A r \in Resource \ {i} : maker'[r] = maker[r]
        /\ maker'[i] = maker[Link[i]]
    BY <2>1, <2>2
  <2>4. MakersKept
    <3>1. \A r \in Resource : maker[r] # Nobody => maker'[r] = maker[r]
      BY <2>1, <2>3
    <3>2. QED
      BY <1>0, <2>1, <3>1 DEF Resource
  <2>5. \A j \in items' \ disputed' : Link[j] \notin disputed' /\ maker'[j] = maker'[Link[j]]
    <3> SUFFICES ASSUME NEW j \in items' \ disputed'
                 PROVE  Link[j] \notin disputed' /\ maker'[j] = maker'[Link[j]]
      OBVIOUS
    <3>1. Link[j] \in Resource \ {i}
      BY <2>1, <2>2 DEF Resource
    <3>2. CASE j = i
      BY <2>1, <2>3, <3>1, <3>2
    <3>3. CASE j # i
      <4>1. j \in items \ disputed /\ j \in Resource
        BY <2>1, <3>3 DEF Resource
      <4>2. QED
        BY <2>1, <2>3, <3>1, <3>3, <4>1
    <3>4. QED
      BY <3>2, <3>3
  <2>6. \A m \in live' : maker'[m] # Nobody
    BY <2>1, <2>2, <2>3 DEF Resource
  <2>7. \A j \in items' : maker'[j] # Nobody
    BY <2>1, <2>3 DEF Resource
  <2>8. \A j \in Item \ items' : maker'[j] = Nobody /\ j \notin disputed'
    BY <2>1, <2>3 DEF Resource
  <2>9. QED
    BY <2>4, <2>5, <2>6, <2>7, <2>8
<1>5. ASSUME NEW h \in Handler, Serve(h),
             ~\E n \in Number, heard \in BOOLEAN : PartnerCreates(h, n, heard) \/ PartnerDeletes(h, n, heard)
      PROVE  UNCHANGED <<live, items, maker, disputed>>
  BY <1>5 DEF Serve, Enforce, Refused, PartnerUses, PartnerLists, Summarise, ClaimCreated,
     Release, Filter, Keep, Filtered, Answer, LedgerFails, partner, history
<1>6. ASSUME NEW h \in Handler, NEW c \in Caller, NEW kind \in Kind,
             NEW refs \in SUBSET Resource, Arrive(h, c, kind, refs)
      PROVE  UNCHANGED <<live, items, maker, disputed>>
  BY <1>6 DEF Arrive, partner, history
<1>7. CASE Crash
  BY <1>1, <1>7 DEF Crash, partner
<1>8. CASE UNCHANGED vars
  BY <1>1, <1>8 DEF vars, partner, history
<1>9. QED
  BY <1>1, <1>2, <1>3, <1>4, <1>5, <1>6, <1>7, <1>8 DEF Next

\* A handler that does not move stays vouched for.
LEMMA StaysVouched ==
  ASSUME TypeOK, MakersKept, NEW h \in Handler, Vouched(h), req'[h] = req[h]
  PROVE  Vouched(h)'
<1> SUFFICES ASSUME Active(h) PROVE Vouched(h)'
  BY DEF Vouched, Active
<1>1. /\ req[h].caller \in Caller /\ req[h].on \subseteq Resource /\ req[h].kept \subseteq Resource
  BY RequestFields DEF Active
<1>2. Holds(h)' = Holds(h)
  BY DEF Holds, At
<1>3. OwnOf(req[h].caller, Holds(h))'
  <2> SUFFICES ASSUME NEW r \in Holds(h), r \notin disputed' PROVE maker'[r] = req[h].caller
    BY <1>2 DEF OwnOf
  <2>1. r \notin disputed /\ maker[r] = req[h].caller
    BY DEF MakersKept, Vouched, OwnOf
  <2>2. QED
    BY <1>1, <2>1, TenancyAssumption DEF MakersKept
<1>4. ASSUME NEW s \in SUBSET req[h].kept, OwnOf(req[h].caller, s)
      PROVE  \A r \in s \ disputed' : maker'[r] = req[h].caller
  BY <1>4 DEF Vouched, MakersKept, OwnOf
<1>5. OwnOf(req[h].caller, IF At(h, "answer") THEN req[h].kept \ req[h].todo ELSE req[h].kept)'
  BY <1>4 DEF Vouched, OwnOf, At
<1>6. At(h, "release") => req[h].on \cap live' \subseteq disputed'
  <2> SUFFICES ASSUME At(h, "release"), NEW n \in req[h].on, n \in live', n \notin disputed'
               PROVE  FALSE
    OBVIOUS
  <2>1. n \in Holds(h)
    BY DEF Holds, At
  <2>2. QED
    BY <2>1 DEF Vouched, MakersKept
<1>7. QED
  BY <1>3, <1>5, <1>6 DEF Vouched, Active, At, MakersKept

\* The initial states are isolated.
LEMMA InitIsolated == Init => Isolated
  BY InitTyped DEF Init, Isolated, Made, RowNamesMaker, SettledGone, Vouched, CreatorOwns, Active,
     Idle, Resource

\* What Serve(h) leaves to show once the partner's part is known.
Preserved(h) ==
  /\ RowNamesMaker' /\ SettledGone' /\ CreatorOwns'
  /\ Vouched(h)' /\ \A g \in Handler \ {h} : req'[g] = req[g]

\* A handler that has answered has nothing to vouch for.
LEMMA IdleVouched ==
  ASSUME NEW h \in Handler, req'[h] = Idle
  PROVE  Vouched(h)'
  BY DEF Vouched, Active, Idle

\* The checks before the partner is called, the refusals, and the calls that change
\* neither the partner nor the ledger.
LEMMA ChecksPreserve ==
  ASSUME Isolated, NEW h \in Handler, Active(h), TypeOK',
         \/ Enforce(h) \/ Refused(h) \/ PartnerUses(h) \/ Summarise(h) \/ Answer(h)
         \/ \E array \in BOOLEAN : PartnerLists(h, array)
  PROVE  Preserved(h)
<1>0. /\ req[h] \in Request
      /\ req[h].caller \in Caller /\ req[h].todo \subseteq Resource
      /\ req[h].on \subseteq Resource /\ req[h].kept \subseteq Resource
  BY RequestFields DEF Isolated, Active
<1> USE <1>0 DEF Isolated, Preserved, TypeOK, Becomes, partner, history
<1>1. UNCHANGED <<owner, live, items, maker, settled, disputed>>
  BY DEF Enforce, Refused, PartnerLists, PartnerUses, Summarise, Answer
<1>2. RowNamesMaker' /\ SettledGone' /\ CreatorOwns'
  BY <1>1 DEF RowNamesMaker, SettledGone, CreatorOwns, Owns
<1>3. CASE Refused(h) \/ PartnerUses(h) \/ Summarise(h) \/ Answer(h)
  <2>1. req' = [req EXCEPT ![h] = Idle]
    BY <1>3 DEF Refused, PartnerUses, Summarise, Answer
  <2>2. QED
    BY <1>2, <2>1, IdleVouched
<1>4. ASSUME NEW array \in BOOLEAN, PartnerLists(h, array) PROVE Preserved(h)
  <2>1. /\ At(h, "send") /\ req[h].kind = "list"
        /\ req' = [req EXCEPT ![h] = [req[h] EXCEPT !.at = IF array THEN "filter" ELSE "answer",
                                      !.todo = items, !.kept = IF array THEN {} ELSE items]]
    BY <1>4 DEF PartnerLists
  <2>2. /\ req'[h].at = IF array THEN "filter" ELSE "answer"
        /\ req'[h].kind = "list" /\ req'[h].caller = req[h].caller /\ req'[h].on = {}
        /\ req'[h].todo = items /\ req'[h].kept = IF array THEN {} ELSE items
    <3>1. req[h].on = {}
      BY <2>1 DEF Vouched, At
    <3>2. req'[h] = [req[h] EXCEPT !.at = IF array THEN "filter" ELSE "answer",
                                   !.todo = items, !.kept = IF array THEN {} ELSE items]
      BY <2>1
    <3>3. QED
      BY <2>1, <3>1, <3>2 DEF Request
  <2>3. Holds(h)' = {}
    BY <2>2 DEF Holds, At
  <2>4. Vouched(h)'
    BY <1>1, <2>2, <2>3 DEF Vouched, Active, At, OwnOf
  <2>5. QED
    BY <1>2, <2>1, <2>4
<1>5. CASE Enforce(h)
  <2>0. At(h, "check")
    BY <1>5 DEF Enforce
  <2>1. CASE req[h].todo = {}
    <3>1. req' = [req EXCEPT ![h] = [req[h] EXCEPT !.at = "send"]]
      BY <1>5, <2>1 DEF Enforce
    <3>2. /\ req'[h].at = "send" /\ req'[h].kind = req[h].kind /\ req'[h].caller = req[h].caller
          /\ req'[h].on = req[h].on /\ req'[h].kept = req[h].kept
      BY <3>1 DEF Request
    <3>3. Holds(h)' = Holds(h)
      BY <2>0, <2>1, <3>2 DEF Holds, At
    <3>4. Vouched(h)'
      BY <1>1, <2>0, <3>2, <3>3 DEF Vouched, Active, At, OwnOf
    <3>5. QED
      BY <1>2, <3>1, <3>4
  <2>2. CASE req[h].todo # {}
    <3>1. PICK r \in req[h].todo :
            Becomes(h, IF Owns(req[h].caller, r)
                       THEN [req[h] EXCEPT !.todo = @ \ {r}] ELSE Idle)
      BY <1>5, <2>2 DEF Enforce
    <3>2. CASE Owns(req[h].caller, r)
      <4>1. r \in disputed \/ maker[r] = req[h].caller
        BY <3>1, <3>2, TenancyAssumption DEF Owns, RowNamesMaker
      <4>2. req'[h] = [req[h] EXCEPT !.todo = @ \ {r}]
        BY <3>1, <3>2
      <4>3. /\ req'[h].at = "check" /\ req'[h].kind = req[h].kind /\ req'[h].caller = req[h].caller
            /\ req'[h].todo = req[h].todo \ {r} /\ req'[h].on = req[h].on /\ req'[h].kept = req[h].kept
        BY <2>0, <4>2 DEF Request, At
      <4>4. Holds(h)' \subseteq Holds(h) \cup {r}
        BY <2>0, <4>3 DEF Holds, At
      <4>5. OwnOf(req[h].caller, Holds(h))'
        BY <1>1, <4>1, <4>3, <4>4 DEF Vouched, OwnOf
      <4>6. Vouched(h)'
        BY <1>1, <2>0, <4>3, <4>5 DEF Vouched, Active, At, OwnOf
      <4>7. QED
        BY <1>2, <3>1, <4>6
    <3>3. CASE ~Owns(req[h].caller, r)
      <4>1. req' = [req EXCEPT ![h] = Idle]
        BY <3>1, <3>3
      <4>2. QED
        BY <1>2, <4>1, IdleVouched
    <3>4. QED
      BY <3>2, <3>3
  <2>3. QED
    BY <2>1, <2>2
<1>6. QED
  BY <1>3, <1>4, <1>5

\* A number is created under an id whose earlier life is over, or it is disputed; one
\* is deleted by a caller who holds it.
LEMMA PartnerPreserves ==
  ASSUME Isolated, NEW h \in Handler, Active(h), TypeOK', MakersKept,
         NEW n \in Number, NEW heard \in BOOLEAN, PartnerCreates(h, n, heard) \/ PartnerDeletes(h, n, heard)
  PROVE  Preserved(h)
<1>0. /\ req[h] \in Request
      /\ req[h].caller \in Caller /\ req[h].todo \subseteq Resource
      /\ req[h].on \subseteq Resource /\ req[h].kept \subseteq Resource
  BY RequestFields DEF Isolated, Active
<1> USE <1>0 DEF Isolated, Preserved, TypeOK, Becomes
<1>1. owner' = owner /\ items' = items /\ settled' = settled \ {n} /\ n \in Resource
  BY DEF PartnerCreates, PartnerDeletes, Resource
<1>2. CASE PartnerCreates(h, n, heard)
  <2>1. /\ maker' = [maker EXCEPT ![n] = req[h].caller] /\ live' = live \cup {n}
        /\ disputed' = Reused(n) /\ n \notin live
    BY <1>2 DEF PartnerCreates
  <2>2. \A r \in Resource \ {n} : maker'[r] = maker[r] /\ (r \in disputed => r \in disputed')
    BY <2>1 DEF Reused
  <2>3. n \in disputed' \/ owner[n] = Nobody
    BY <2>1 DEF Reused, Reopened, SettledGone
  <2>4. RowNamesMaker'
    BY <1>1, <2>2, <2>3 DEF RowNamesMaker
  <2>5. SettledGone' /\ CreatorOwns'
    BY <1>1, <2>1, <2>2 DEF SettledGone, CreatorOwns, Owns, Resource
  <2>6. \A g \in Handler \ {h} : req'[g] = req[g]
    BY <1>2 DEF PartnerCreates, Then
  <2>7. CASE ~heard
    BY <1>2, <2>4, <2>5, <2>6, <2>7, IdleVouched DEF PartnerCreates, Then
  <2>8. CASE heard
    <3>1. req' = [req EXCEPT ![h] = [req[h] EXCEPT !.at = "claim", !.on = {n}]]
      BY <1>2, <2>8 DEF PartnerCreates, Then
    <3>2. /\ req'[h].at = "claim" /\ req'[h].kind = "create" /\ req'[h].caller = req[h].caller
          /\ req'[h].on = {n} /\ req'[h].kept = req[h].kept /\ At(h, "send")
      BY <1>2, <3>1 DEF PartnerCreates, At, Request
    <3>3. Holds(h)' = {n} /\ maker'[n] = req[h].caller
      BY <1>1, <2>1, <3>2 DEF Holds, At
    <3>4. OwnOf(req[h].caller, req[h].kept)'
      BY <3>2 DEF Vouched, OwnOf, MakersKept, At
    <3>5. Vouched(h)'
      BY <1>1, <3>2, <3>3, <3>4 DEF Vouched, Active, At, OwnOf
    <3>6. QED
      BY <2>4, <2>5, <2>6, <3>5
  <2>9. QED
    BY <2>7, <2>8
<1>3. CASE PartnerDeletes(h, n, heard)
  <2>1. UNCHANGED <<maker, disputed>> /\ live' = live \ {n}
    BY <1>3 DEF PartnerDeletes
  <2>2. RowNamesMaker' /\ SettledGone' /\ CreatorOwns'
    BY <1>1, <2>1 DEF RowNamesMaker, SettledGone, CreatorOwns, Owns
  <2>3. \A g \in Handler \ {h} : req'[g] = req[g]
    BY <1>3 DEF PartnerDeletes, Then
  <2>4. CASE ~heard
    <3>1. req' = [req EXCEPT ![h] = Idle]
      BY <1>3, <2>4 DEF PartnerDeletes, Then
    <3>2. QED
      BY <2>2, <2>3, <3>1, IdleVouched
  <2>5. CASE heard
    <3>1. /\ req' = [req EXCEPT ![h] = [req[h] EXCEPT !.at = "release"]]
          /\ At(h, "send") /\ req[h].kind = "delete" /\ req[h].on = {n}
      <4>1. /\ req' = [req EXCEPT ![h] = [req[h] EXCEPT !.at = "release"]]
            /\ At(h, "send") /\ req[h].kind = "delete" /\ n \in req[h].on
        BY <1>3, <2>5 DEF PartnerDeletes, Then
      <4>2. \E m \in Number : req[h].on = {m}
        BY <4>1 DEF Vouched, At
      <4>3. QED
        BY <4>1, <4>2
    <3>2. /\ req'[h].at = "release" /\ req'[h].kind = "delete" /\ req'[h].caller = req[h].caller
          /\ req'[h].on = {n} /\ req'[h].kept = req[h].kept
      BY <3>1 DEF Request
    <3>3. Holds(h)' = Holds(h)
      BY <3>1, <3>2 DEF Holds, At
    <3>4. Vouched(h)'
      BY <1>1, <2>1, <3>1, <3>2, <3>3 DEF Vouched, Active, At, OwnOf
    <3>5. QED
      BY <2>2, <2>3, <3>4
  <2>6. QED
    BY <2>4, <2>5
<1>4. QED
  BY <1>2, <1>3

\* A claim by the maker, or of a disputed resource, keeps the ledger right.
LEMMA ClaimPreserves ==
  ASSUME Isolated, NEW c \in Caller, NEW r \in Resource, Claim(r, c),
         r \in disputed \/ maker[r] = c,
         UNCHANGED <<maker, live, disputed>>
  PROVE  /\ RowNamesMaker'
         /\ \A n \in (settled \cap live) \ disputed : owner'[n] = maker[n]
         /\ r \notin disputed => owner'[r] = c
         /\ \A n \in Resource \ {r} : owner'[n] = owner[n]
<1> USE TenancyAssumption DEF Isolated, TypeOK
<1>1. \A x \in Resource : owner'[x] = IF x = r /\ owner[x] = Nobody THEN c ELSE owner[x]
  BY DEF Claim
<1>2. RowNamesMaker'
  BY <1>1 DEF RowNamesMaker
<1>3. r \notin disputed => owner'[r] = c
  BY <1>1 DEF RowNamesMaker
<1>4. \A n \in (settled \cap live) \ disputed : owner'[n] = maker[n]
  BY <1>1 DEF CreatorOwns, Owns, Made, Resource
<1>5. QED
  BY <1>1, <1>2, <1>3, <1>4

\* The bookkeeping after a 2xx, one transaction at a time.
LEMMA LedgerPreserves ==
  ASSUME Isolated, NEW h \in Handler, Active(h), TypeOK',
         ClaimCreated(h) \/ Release(h) \/ Keep(h) \/ LedgerFails(h)
  PROVE  Preserved(h)
<1>0. /\ req[h] \in Request
      /\ req[h].caller \in Caller /\ req[h].todo \subseteq Resource
      /\ req[h].on \subseteq Resource /\ req[h].kept \subseteq Resource
  BY RequestFields DEF Isolated, Active
<1> USE <1>0 DEF Isolated, Preserved, TypeOK, Becomes, partner, history
<1>1. UNCHANGED <<live, items, maker, disputed>>
  BY DEF ClaimCreated, Release, Keep, LedgerFails
<1>2. ~At(h, "check") /\ ~At(h, "idle") /\ ~At(h, "answer") => Holds(h) = req[h].on
  BY DEF Holds, At
<1>3. CASE ClaimCreated(h)
  <2>1. PICK n \in req[h].on :
          /\ Claim(n, req[h].caller)
          /\ settled' = IF n \in live /\ maker[n] = req[h].caller
                        THEN settled \cup {n} ELSE settled \ {n}
    BY <1>3 DEF ClaimCreated
  <2>2. n \in disputed \/ maker[n] = req[h].caller
    BY <1>2, <1>3 DEF ClaimCreated, Vouched, At, OwnOf
  <2>3. /\ RowNamesMaker'
        /\ \A m \in (settled \cap live) \ disputed : owner'[m] = maker[m]
        /\ n \notin disputed => owner'[n] = req[h].caller
        /\ \A m \in Resource \ {n} : owner'[m] = owner[m]
    BY <1>1, <2>1, <2>2, ClaimPreserves
  <2>4. CreatorOwns'
    BY <1>1, <2>1, <2>2, <2>3 DEF CreatorOwns, Owns
  <2>5. SettledGone'
    <3> SUFFICES ASSUME NEW m \in (Number \cap settled') \ live PROVE owner'[m] = Nobody
      BY <1>1 DEF SettledGone
    <3>1. m \in settled /\ m # n /\ m \in Resource
      BY <2>1
    <3>2. QED
      BY <2>3, <3>1 DEF SettledGone
  <2>6. req' = [req EXCEPT ![h] = Idle]
    BY <1>3 DEF ClaimCreated
  <2>7. QED
    BY <2>3, <2>4, <2>5, <2>6, IdleVouched
<1>4. CASE Release(h)
  <2>1. req[h].on \cap live \subseteq disputed
    BY <1>4 DEF Release, Vouched, At, Active
  <2>2. /\ \A r \in Resource : owner'[r] = IF r \in req[h].on THEN Nobody ELSE owner[r]
        /\ settled' = settled \cup (req[h].on \ live)
    BY <1>4 DEF Release
  <2>3. RowNamesMaker'
    BY <1>1, <2>2 DEF RowNamesMaker
  <2>4. SettledGone'
    BY <1>1, <2>2 DEF SettledGone
  <2>5. CreatorOwns'
    BY <1>1, <2>1, <2>2 DEF CreatorOwns, Owns
  <2>6. req' = [req EXCEPT ![h] = Idle]
    BY <1>4 DEF Release
  <2>7. QED
    BY <2>3, <2>4, <2>5, <2>6, IdleVouched
<1>5. CASE Keep(h)
  <2>1. PICK i \in req[h].on :
          /\ Claim(i, req[h].caller)
          /\ req' = [req EXCEPT ![h].at = "filter", ![h].on = {}, ![h].kept = @ \cup {i}]
    BY <1>5 DEF Keep
  <2>2. At(h, "keep") /\ settled' = settled
    BY <1>5 DEF Keep
  <2>3. (i \in disputed \/ maker[i] = req[h].caller) /\ i \in items
    BY <1>2, <2>2 DEF Vouched, At, OwnOf
  <2>4. /\ RowNamesMaker'
        /\ \A m \in (settled \cap live) \ disputed : owner'[m] = maker[m]
        /\ \A m \in Resource \ {i} : owner'[m] = owner[m]
    BY <1>1, <2>1, <2>3, ClaimPreserves
  <2>5. CreatorOwns'
    BY <1>1, <2>2, <2>4 DEF CreatorOwns, Owns
  <2>6. SettledGone'
    <3>1. \A m \in Number : m \in Resource \ {i}
      BY <2>3, TenancyAssumption DEF Resource
    <3>2. QED
      BY <1>1, <2>2, <2>4, <3>1 DEF SettledGone
  <2>7. /\ req'[h].at = "filter" /\ req'[h].kind = req[h].kind /\ req'[h].caller = req[h].caller
        /\ req'[h].todo = req[h].todo /\ req'[h].on = {}
        /\ req'[h].kept = req[h].kept \cup {i}
    BY <2>1 DEF Request
  <2>8. Holds(h)' = {}
    BY <2>7 DEF Holds, At
  <2>9. Vouched(h)'
    BY <1>1, <2>2, <2>3, <2>7, <2>8 DEF Vouched, Active, At, OwnOf
  <2>10. QED
    BY <2>1, <2>4, <2>5, <2>6, <2>9
<1>6. CASE LedgerFails(h)
  <2>1. RowNamesMaker' /\ SettledGone' /\ CreatorOwns'
    BY <1>1, <1>6 DEF LedgerFails, RowNamesMaker, SettledGone, CreatorOwns, Owns
  <2>2. CASE At(h, "keep")
    <3>1. req' = [req EXCEPT ![h] = [req[h] EXCEPT !.at = "filter", !.on = {},
                                                   !.kept = @ \cup req[h].on]]
      BY <1>6, <2>2 DEF LedgerFails
    <3>2. /\ req'[h].at = "filter" /\ req'[h].kind = req[h].kind /\ req'[h].caller = req[h].caller
          /\ req'[h].todo = req[h].todo /\ req'[h].on = {}
          /\ req'[h].kept = req[h].kept \cup req[h].on
      BY <3>1 DEF Request
    <3>3. Holds(h)' = {}
      BY <3>2 DEF Holds, At
    <3>4. OwnOf(req[h].caller, req[h].kept \cup req[h].on)
      BY <1>2, <2>2 DEF Vouched, At, OwnOf
    <3>5. Vouched(h)'
      BY <1>1, <2>2, <3>2, <3>3, <3>4 DEF Vouched, Active, At, OwnOf
    <3>6. QED
      BY <2>1, <3>1, <3>5
  <2>3. CASE ~At(h, "keep")
    BY <1>6, <2>1, <2>3, IdleVouched DEF LedgerFails
  <2>4. QED
    BY <2>2, <2>3
<1>7. QED
  BY <1>3, <1>4, <1>5, <1>6

\* The rows of a list, one lookup at a time, until none is left.
LEMMA FilterPreserves ==
  ASSUME Isolated, NEW h \in Handler, Active(h), TypeOK', Filter(h) \/ Filtered(h)
  PROVE  Preserved(h)
<1>0. /\ req[h] \in Request
      /\ req[h].caller \in Caller /\ req[h].todo \subseteq Resource
      /\ req[h].on \subseteq Resource /\ req[h].kept \subseteq Resource
  BY RequestFields DEF Isolated, Active
<1> USE <1>0 DEF Isolated, Preserved, TypeOK, Becomes, partner, history
<1>1. UNCHANGED <<owner, live, items, maker, settled, disputed>> /\ At(h, "filter")
  BY DEF Filter, Filtered
<1>2. RowNamesMaker' /\ SettledGone' /\ CreatorOwns'
  BY <1>1 DEF RowNamesMaker, SettledGone, CreatorOwns, Owns
<1>3. CASE Filtered(h)
  <2>1. req' = [req EXCEPT ![h].at = "answer"]
    BY <1>3 DEF Filtered
  <2>2. /\ req'[h].at = "answer" /\ req'[h].kind = req[h].kind /\ req'[h].caller = req[h].caller
        /\ req'[h].on = req[h].on /\ req'[h].kept = req[h].kept
    BY <2>1 DEF Request
  <2>3. Holds(h)' = Holds(h)
    BY <1>1, <2>2 DEF Holds, At
  <2>4. Vouched(h)'
    BY <1>1, <2>2, <2>3 DEF Vouched, Active, At, OwnOf
  <2>5. QED
    BY <1>2, <2>1, <2>4
<1>4. CASE Filter(h)
  <2>1. PICK i \in req[h].todo :
          Becomes(h, IF Owns(req[h].caller, Link[i])
                     THEN [req[h] EXCEPT !.at = "keep", !.todo = @ \ {i}, !.on = {i}]
                     ELSE [req[h] EXCEPT !.todo = @ \ {i}])
    BY <1>4 DEF Filter
  <2>2. i \in items
    BY <1>1 DEF Vouched, At
  <2>3. CASE Owns(req[h].caller, Link[i])
    <3>1. i \in Item /\ Link[i] \in Resource
      BY <2>2, TenancyAssumption DEF Resource
    <3>2. i \in disputed \/ maker[i] = req[h].caller
      BY <2>2, <2>3, <3>1, TenancyAssumption DEF Owns, RowNamesMaker, Made
    <3>3. req' = [req EXCEPT ![h] = [req[h] EXCEPT !.at = "keep", !.todo = @ \ {i}, !.on = {i}]]
      BY <2>1, <2>3
    <3>4. /\ req'[h].at = "keep" /\ req'[h].kind = req[h].kind /\ req'[h].caller = req[h].caller
          /\ req'[h].todo = req[h].todo \ {i} /\ req'[h].on = {i} /\ req'[h].kept = req[h].kept
      BY <3>3 DEF Request
    <3>5. Holds(h)' = {i}
      BY <3>4 DEF Holds, At
    <3>6. Vouched(h)'
      BY <1>1, <2>2, <3>2, <3>4, <3>5 DEF Vouched, Active, At, OwnOf
    <3>7. QED
      BY <1>2, <3>3, <3>6
  <2>4. CASE ~Owns(req[h].caller, Link[i])
    <3>1. req' = [req EXCEPT ![h] = [req[h] EXCEPT !.todo = @ \ {i}]]
      BY <2>1, <2>4
    <3>2. /\ req'[h].at = "filter" /\ req'[h].kind = req[h].kind /\ req'[h].caller = req[h].caller
          /\ req'[h].todo = req[h].todo \ {i} /\ req'[h].on = req[h].on /\ req'[h].kept = req[h].kept
      BY <1>1, <3>1 DEF Request, At
    <3>3. Holds(h)' = Holds(h)
      BY <1>1, <3>2 DEF Holds, At
    <3>4. Vouched(h)'
      BY <1>1, <3>2, <3>3 DEF Vouched, Active, At, OwnOf
    <3>5. QED
      BY <1>2, <3>1, <3>4
  <2>5. QED
    BY <2>3, <2>4
<1>5. QED
  BY <1>3, <1>4

\* Every step preserves isolation.
LEMMA StepIsolated == Isolated /\ [Next]_vars => Isolated'
<1> SUFFICES ASSUME Isolated, [Next]_vars PROVE Isolated'
  OBVIOUS
<1>1. TypeOK /\ TypeOK' /\ Made' /\ MakersKept
  BY NextTyped, PartnerStep DEF Isolated
<1>2. ASSUME NEW g \in Handler, req'[g] = req[g] PROVE Vouched(g)'
  BY <1>1, <1>2, StaysVouched DEF Isolated
<1>3. ASSUME UNCHANGED <<owner, live, settled, maker, disputed>>
      PROVE  RowNamesMaker' /\ SettledGone' /\ CreatorOwns'
  BY <1>3 DEF Isolated, RowNamesMaker, SettledGone, CreatorOwns, Owns
<1>4. ASSUME NEW h \in Handler, NEW c \in Caller, NEW kind \in Kind,
             NEW refs \in SUBSET Resource, Arrive(h, c, kind, refs)
      PROVE  Isolated'
  <2>1. UNCHANGED <<owner, live, items, settled, maker, disputed>>
    BY <1>4 DEF Arrive, partner, history
  <2>2. req' = [req EXCEPT ![h] = [at |-> "check", kind |-> kind, caller |-> c,
                                   todo |-> refs, on |-> refs, kept |-> {}]]
    BY <1>4 DEF Arrive
  <2>3. /\ req'[h].at = "check" /\ req'[h].kind = kind /\ req'[h].todo = refs
        /\ req'[h].on = refs /\ req'[h].kept = {}
    BY <1>1, <2>2 DEF TypeOK
  <2>4. Holds(h)' = {}
    BY <2>3 DEF Holds, At
  <2>5. Vouched(h)'
    BY <1>4, <2>3, <2>4 DEF Arrive, Vouched, Active, At, OwnOf
  <2>6. \A g \in Handler \ {h} : req'[g] = req[g]
    BY <1>1, <2>2 DEF TypeOK
  <2>7. QED
    BY <1>1, <1>2, <1>3, <2>1, <2>5, <2>6 DEF Isolated
<1>5. ASSUME NEW h \in Handler, Serve(h) PROVE Isolated'
  <2>1. Active(h)
    BY <1>5 DEF Serve, Enforce, Refused, PartnerUses, PartnerLists, Summarise, PartnerCreates,
       PartnerDeletes, ClaimCreated, Release, Filter, Keep, Filtered, Answer, LedgerFails, Active, At
  <2>2. Preserved(h)
    BY <1>1, <1>5, <2>1, ChecksPreserve, PartnerPreserves, LedgerPreserves, FilterPreserves DEF Serve
  <2>3. QED
    BY <1>1, <1>2, <2>2 DEF Preserved, Isolated
<1>6. ASSUME NEW i \in Item, ItemArrives(i) PROVE Isolated'
  <2>1. UNCHANGED <<owner, live, settled, req>> /\ disputed \subseteq disputed' /\ i \notin items
    BY <1>6 DEF ItemArrives
  <2>2. i \in Resource /\ owner[i] = Nobody /\ i \notin Number
    BY <2>1, TenancyAssumption DEF Isolated, Made, RowNamesMaker, Resource
  <2>3. \A r \in Resource \ {i} : maker'[r] = maker[r]
    BY <1>6 DEF ItemArrives, Isolated, TypeOK
  <2>4. RowNamesMaker'
    BY <2>1, <2>2, <2>3 DEF Isolated, RowNamesMaker
  <2>5. SettledGone'
    BY <2>1 DEF Isolated, SettledGone
  <2>6. CreatorOwns'
    <3>1. \A n \in live : n \in Resource \ {i}
      BY <2>2 DEF Isolated, TypeOK, Resource
    <3>2. QED
      BY <2>1, <2>3, <3>1 DEF Isolated, CreatorOwns, Owns
  <2>7. QED
    BY <1>1, <1>2, <2>1, <2>4, <2>5, <2>6 DEF Isolated
<1>7. CASE Crash
  <2>1. UNCHANGED <<owner, live, items, settled, maker, disputed>>
    BY <1>7 DEF Crash, partner
  <2>2. \A h \in Handler : Vouched(h)'
    BY <1>7, IdleVouched DEF Crash
  <2>3. QED
    BY <1>1, <1>3, <2>1, <2>2 DEF Isolated
<1>8. CASE UNCHANGED vars
  <2>1. UNCHANGED <<owner, live, items, settled, maker, disputed, req>>
    BY <1>8 DEF vars, partner, history
  <2>2. QED
    BY <1>1, <1>2, <1>3, <2>1 DEF Isolated
<1>9. QED
  BY <1>4, <1>5, <1>6, <1>7, <1>8 DEF Next

\* Every behaviour stays isolated.
LEMMA StaysIsolated == Spec => []Isolated
  BY InitIsolated, StepIsolated, PTL DEF Spec

\* Whatever requests, lost answers, failed ledger writes, crashes and reused ids
\* interleave, the partner acts for a caller only on what is that caller's, except under
\* an id given out again with its earlier life still open (tenancy.go:23-30, 313-435).
THEOREM NobodyActsOnOthers == Spec => []ActsOnOwn
<1>1. Isolated => ActsOnOwn
  <2> SUFFICES ASSUME Isolated, NEW h \in Handler, At(h, "send")
               PROVE  OwnOf(req[h].caller, req[h].on)
    BY DEF ActsOnOwn
  <2>1. Holds(h) = req[h].on
    BY DEF Holds, At
  <2>2. QED
    BY <2>1 DEF Isolated, Vouched, Active, At
<1>2. QED
  BY <1>1, StaysIsolated, PTL

\* Lists and summaries describe a caller's own resources only, apart from the rows no
\* filter looks at and the ids in dispute (tenancy.go:181-219, 497-581).
THEOREM NobodySeesOthers == Spec => []ShownAreOwn
<1>1. Isolated => ShownAreOwn
  <2> SUFFICES ASSUME Isolated, NEW h \in Handler
               PROVE  /\ At(h, "answer") => OwnOf(req[h].caller, req[h].kept \ req[h].todo)
                      /\ At(h, "send") => OwnOf(req[h].caller, OwnedSet(req[h].caller))
    BY DEF ShownAreOwn
  <2>1. At(h, "answer") => OwnOf(req[h].caller, req[h].kept \ req[h].todo)
    BY DEF Isolated, Vouched, Active, At
  <2>2. ASSUME At(h, "send") PROVE OwnOf(req[h].caller, OwnedSet(req[h].caller))
    <3>1. req[h].caller \in Caller
      BY <2>2, RequestFields DEF At, Isolated
    <3>2. QED
      BY <3>1, TenancyAssumption DEF OwnOf, OwnedSet, Owns, Isolated, RowNamesMaker, Resource
  <2>3. QED
    BY <2>1, <2>2
<1>2. QED
  BY <1>1, StaysIsolated, PTL

\* An item's row names the caller whose number received it, unless the number's id was
\* given out again since (tenancy.go:551-581).
THEOREM ItemsStayAttributed == Spec => []ItemOwnerReceived
<1>1. Isolated => ItemOwnerReceived
  BY DEF Isolated, RowNamesMaker, Made, ItemOwnerReceived, Resource
<1>2. QED
  BY <1>1, StaysIsolated, PTL

\* A claimed creation stays its creator's while it exists, under a new id and under one
\* whose earlier life was over when it was given out again (tenancy.go:436-483).
THEOREM CreatorsOwn == Spec => []CreatorOwns
<1>1. Isolated => CreatorOwns
  BY DEF Isolated
<1>2. QED
  BY <1>1, StaysIsolated, PTL
=============================================================================
