------------------------------ MODULE Tenancy ------------------------------
(***************************************************************************)
(* One shared partner account made to behave like one account per caller:  *)
(* internal/broker/tenancy.go on the ownership ledger of store_sqlite.go.  *)
(* A request's references are checked before it is forwarded; afterwards a *)
(* created resource is claimed, a deleted one released, and a list is cut  *)
(* down to the caller's rows, which are claimed on the way (lazy claim).   *)
(*                                                                         *)
(* Every ledger call is a transaction of its own, so each is one step here *)
(* and the partner, which knows nothing of callers, acts between them.     *)
(* Numbers are created and deleted through the broker, and the partner may *)
(* give the id of a deleted one out again; items (an inbound message)      *)
(* appear at the partner, attached to a number.                            *)
(***************************************************************************)
EXTENDS Naturals, FiniteSets

CONSTANTS
  Caller, Handler,
  Number, Item,    \* resource ids of the two types
  Link,            \* the number an item is attached to (owner_by)
  Nobody,          \* the owner of a resource with no ledger row
  Recycled,        \* the numbers whose id the partner gives out more than once
  MaxRefs          \* bound: how many resources a request names

Resource == Number \cup Item

ASSUME TenancyAssumption ==
  /\ Nobody \notin Caller
  /\ Number \cap Item = {}
  /\ Link \in [Item -> Number]
  /\ Recycled \subseteq Number

VARIABLES
  owner,      \* the ownership table: owner[r], or Nobody
  live,       \* at the partner: the numbers that exist
  items,      \* at the partner: the items that have arrived
  req,        \* req[h]: the request handler h is serving
  \* History, read by no guard of the code:
  maker,      \* who created the number; whose number it was when the item arrived
  settled,    \* numbers whose last creation or deletion the ledger has recorded
  disputed    \* ids given out again with their earlier life still open (see Reused)

partner == <<live, items>>
history == <<maker, settled, disputed>>
vars == <<owner, partner, req, history>>

Kind == {"use", "create", "delete", "list", "summary"}
Point == {"check", "send", "claim", "release", "filter", "keep", "answer"}

\* todo: references still to check, then list rows no filter has looked at; on:
\* what the partner call is about, what it made, or the row being kept; kept: the
\* rows of the answer.
Idle == [at |-> "idle"]
Request == [at : Point, kind : Kind, caller : Caller, todo : SUBSET Resource,
            on : SUBSET Resource, kept : SUBSET Resource]

At(h, p) == req[h].at = p
Becomes(h, r) == req' = [req EXCEPT ![h] = r]
Owns(c, r) == owner[r] = c

Init ==
  /\ owner = [r \in Resource |-> Nobody]
  /\ live = {} /\ items = {}
  /\ req = [h \in Handler |-> Idle]
  /\ maker = [r \in Resource |-> Nobody]
  /\ settled = Number /\ disputed = {}
-----------------------------------------------------------------------------
(* Before the partner is called: EnforceRequest.                           *)

\* A request names resources in its path, query and body.
Arrive(h, c, kind, refs) ==
  /\ At(h, "idle")
  /\ kind = "use" => refs # {} /\ Cardinality(refs) <= MaxRefs
  /\ kind = "delete" => \E n \in Number : refs = {n}
  /\ kind \in {"create", "list", "summary"} => refs = {}
  /\ req' = [req EXCEPT ![h] = [at |-> "check", kind |-> kind, caller |-> c,
                                todo |-> refs, on |-> refs, kept |-> {}]]
  /\ UNCHANGED <<owner, partner, history>>

\* Mutant: only the first reference is checked.
EnforceFirst(h) ==
  /\ At(h, "check")
  /\ IF req[h].todo = {}
     THEN req' = [req EXCEPT ![h].at = "send"]
     ELSE \E r \in req[h].todo :
            Becomes(h, IF Owns(req[h].caller, r)
                       THEN [req[h] EXCEPT !.todo = {}] ELSE Idle)
  /\ UNCHANGED <<owner, partner, history>>

\* Each reference is looked up in the ledger; one that is not the caller's, or
\* nobody's, is answered 404 and nothing is forwarded.
Enforce(h) ==
  /\ At(h, "check")
  /\ IF req[h].todo = {}
     THEN req' = [req EXCEPT ![h].at = "send"]
     ELSE \E r \in req[h].todo :
            Becomes(h, IF Owns(req[h].caller, r)
                       THEN [req[h] EXCEPT !.todo = @ \ {r}] ELSE Idle)
  /\ UNCHANGED <<owner, partner, history>>

\* A ledger error, the breaker, the quota, the budget: refused; or the partner
\* answers without having done anything.
Refused(h) ==
  /\ req[h].at \in {"check", "send"}
  /\ Becomes(h, Idle)
  /\ UNCHANGED <<owner, partner, history>>
-----------------------------------------------------------------------------
(* The partner acts; the broker hears a 2xx, or (heard = FALSE) the answer  *)
(* is lost to a timeout, a 5xx or an unreadable body.                      *)

Then(h, heard, next) == Becomes(h, IF heard THEN next ELSE Idle)

PartnerUses(h) ==
  /\ At(h, "send") /\ req[h].kind = "use"
  /\ Becomes(h, Idle)
  /\ UNCHANGED <<owner, partner, history>>

\* What h holds on to: the ledger has vouched for it, or the partner has.
Holds(h) == IF At(h, "idle") THEN {}
            ELSE IF At(h, "check") THEN req[h].on \ req[h].todo ELSE req[h].on

\* An id is given out again with its earlier life still open: the ledger never heard
\* of the deletion, or a request that held the id then is still under way.
Reopened(n) == n \notin settled \/ \E h \in Handler : n \in Holds(h)

\* The items of a number's earlier life are in dispute from then on.
Reused(n) ==
  (disputed \ {n}) \cup (IF Reopened(n) THEN {n} ELSE {}) \cup {i \in items : Link[i] = n}

PartnerCreates(h, n, heard) ==
  /\ At(h, "send") /\ req[h].kind = "create"
  /\ n \notin live /\ (n \in Recycled \/ maker[n] = Nobody)
  /\ live' = live \cup {n}
  /\ maker' = [maker EXCEPT ![n] = req[h].caller]
  /\ settled' = settled \ {n}
  /\ disputed' = Reused(n)
  /\ Then(h, heard, [req[h] EXCEPT !.at = "claim", !.on = {n}])
  /\ UNCHANGED <<owner, items>>

PartnerDeletes(h, n, heard) ==
  /\ At(h, "send") /\ req[h].kind = "delete"
  /\ n \in req[h].on \cap live
  /\ live' = live \ {n}
  /\ settled' = settled \ {n}
  /\ Then(h, heard, [req[h] EXCEPT !.at = "release"])
  /\ UNCHANGED <<owner, items, maker, disputed>>

\* The answer holds the rows of the whole shared account. Without the configured
\* array in it there is nothing to filter, and it goes to the caller as it is.
PartnerLists(h, array) ==
  /\ At(h, "send") /\ req[h].kind = "list"
  /\ Becomes(h, [req[h] EXCEPT !.at = IF array THEN "filter" ELSE "answer",
                               !.todo = items, !.kept = IF array THEN {} ELSE items])
  /\ UNCHANGED <<owner, partner, history>>

\* FilterObject replaces the account's count by the size of the caller's OwnedSet.
OwnedSet(c) == {n \in Number : Owns(c, n)}

Summarise(h) ==
  /\ At(h, "send") /\ req[h].kind = "summary"
  /\ Becomes(h, Idle)
  /\ UNCHANGED <<owner, partner, history>>

ItemArrives(i) ==
  /\ i \notin items /\ Link[i] \in live
  /\ items' = items \cup {i}
  /\ maker' = [maker EXCEPT ![i] = maker[Link[i]]]
  /\ disputed' = IF Link[i] \in disputed THEN disputed \cup {i} ELSE disputed
  /\ UNCHANGED <<owner, live, req, settled>>
-----------------------------------------------------------------------------
(* After a 2xx.                                                            *)

\* Claim: first writer wins; ErrOwned changes nothing and is ignored.
Claim(r, c) == owner' = [owner EXCEPT ![r] = IF @ = Nobody THEN c ELSE @]

\* ClaimFrom.
ClaimCreated(h) ==
  /\ At(h, "claim")
  /\ \E n \in req[h].on :
       /\ Claim(n, req[h].caller)
       /\ settled' = IF n \in live /\ maker[n] = req[h].caller
                     THEN settled \cup {n} ELSE settled \ {n}
  /\ Becomes(h, Idle)
  /\ UNCHANGED <<partner, maker, disputed>>

\* Mutant: the row of a deleted resource stays.
NeverReleased(h) ==
  /\ At(h, "release")
  /\ settled' = settled \cup (req[h].on \ live)
  /\ Becomes(h, Idle)
  /\ UNCHANGED <<owner, partner, maker, disputed>>

\* ReleaseFrom: the row goes, whoever holds it by now.
Release(h) ==
  /\ At(h, "release")
  /\ owner' = [r \in Resource |-> IF r \in req[h].on THEN Nobody ELSE owner[r]]
  /\ settled' = settled \cup (req[h].on \ live)
  /\ Becomes(h, Idle)
  /\ UNCHANGED <<partner, maker, disputed>>

\* Mutant: a row nobody has claimed is anybody's.
FilterByAnyRow(h) ==
  /\ At(h, "filter")
  /\ \E i \in req[h].todo :
       Becomes(h, IF Owns(req[h].caller, Link[i]) \/ owner[i] = Nobody
                  THEN [req[h] EXCEPT !.at = "keep", !.todo = @ \ {i}, !.on = {i}]
                  ELSE [req[h] EXCEPT !.todo = @ \ {i}])
  /\ UNCHANGED <<owner, partner, history>>

\* keepElement: a row is the caller's when the number it links to is.
Filter(h) ==
  /\ At(h, "filter")
  /\ \E i \in req[h].todo :
       Becomes(h, IF Owns(req[h].caller, Link[i])
                  THEN [req[h] EXCEPT !.at = "keep", !.todo = @ \ {i}, !.on = {i}]
                  ELSE [req[h] EXCEPT !.todo = @ \ {i}])
  /\ UNCHANGED <<owner, partner, history>>

\* The lazy claim of a kept row, in a transaction after the lookup.
Keep(h) ==
  /\ At(h, "keep")
  /\ \E i \in req[h].on :
       /\ Claim(i, req[h].caller)
       /\ req' = [req EXCEPT ![h].at = "filter", ![h].on = {}, ![h].kept = @ \cup {i}]
  /\ UNCHANGED <<partner, history>>

Filtered(h) ==
  /\ At(h, "filter") /\ req[h].todo = {}
  /\ req' = [req EXCEPT ![h].at = "answer"]
  /\ UNCHANGED <<owner, partner, history>>

Answer(h) ==
  /\ At(h, "answer")
  /\ Becomes(h, Idle)
  /\ UNCHANGED <<owner, partner, history>>

\* Claim and Release drop their errors: nothing is written, the answer goes out.
LedgerFails(h) ==
  /\ req[h].at \in {"claim", "release", "keep"}
  /\ Becomes(h, IF At(h, "keep")
                THEN [req[h] EXCEPT !.at = "filter", !.on = {}, !.kept = @ \cup req[h].on] ELSE Idle)
  /\ UNCHANGED <<owner, partner, history>>

Crash ==
  /\ req' = [h \in Handler |-> Idle]
  /\ UNCHANGED <<owner, partner, maker, settled, disputed>>

Serve(h) ==
  \/ Enforce(h) \/ Refused(h)
  \/ PartnerUses(h) \/ Summarise(h) \/ \E array \in BOOLEAN : PartnerLists(h, array)
  \/ \E n \in Number, heard \in BOOLEAN : PartnerCreates(h, n, heard) \/ PartnerDeletes(h, n, heard)
  \/ ClaimCreated(h) \/ Release(h)
  \/ Filter(h) \/ Keep(h) \/ Filtered(h) \/ Answer(h) \/ LedgerFails(h)

Next ==
  \/ \E h \in Handler :
       \/ \E c \in Caller, kind \in Kind, refs \in SUBSET Resource : Arrive(h, c, kind, refs)
       \/ Serve(h)
  \/ \E i \in Item : ItemArrives(i)
  \/ Crash

Spec == Init /\ [][Next]_vars
-----------------------------------------------------------------------------
(* Properties.                                                             *)

\* The type of the state.
TypeOK ==
  /\ owner \in [Resource -> Caller \cup {Nobody}]
  /\ live \subseteq Number /\ items \subseteq Item
  /\ req \in [Handler -> Request \cup {Idle}]
  /\ maker \in [Resource -> Caller \cup {Nobody}]
  /\ settled \subseteq Resource /\ disputed \subseteq Resource

OwnOf(c, resources) == \A r \in resources \ disputed : maker[r] = c

\* The one rule of tenancy.go:23-30: whatever the partner is about to act on for a
\* caller, that caller created or received, although every reference was checked in
\* an earlier transaction. Only an id given out again while its earlier life was open
\* is beyond the rule: then the check or the row was about the number's former life.
ActsOnOwn == \A h \in Handler : At(h, "send") => OwnOf(req[h].caller, req[h].on)

\* A list or a summary describes the caller's own resources, although the partner
\* answered for the whole account (tenancy.go:486-496, 552-581): another's row goes
\* out only in an answer without the configured array, which is not filtered
\* (tenancy.go:515-518), or for an id given out again as in ActsOnOwn.
ShownAreOwn ==
  \A h \in Handler :
    /\ At(h, "answer") => OwnOf(req[h].caller, req[h].kept \ req[h].todo)
    /\ At(h, "send") /\ req[h].kind = "summary" => OwnOf(req[h].caller, OwnedSet(req[h].caller))

\* The caller whose creation was claimed owns the number for as long as it exists, also
\* where the id had an earlier life (tenancy.go:465-467: a recycled id "can be claimed
\* by whoever gets it next"), as long as that life was over: its row released and no
\* request of that time under way.
CreatorOwns == \A n \in (settled \cap live) \ disputed : Owns(maker[n], n)

\* An item is reachable by id only for a caller who was shown it attached to a number
\* of its own: a row for an item outlives the number, never its attribution, unless
\* the number's id was given out again since.
ItemOwnerReceived ==
  \A i \in Item : owner[i] # Nobody => i \in items /\ (i \in disputed \/ owner[i] = maker[i])
=============================================================================
