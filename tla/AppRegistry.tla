----------------------------- MODULE AppRegistry -----------------------------
(***************************************************************************)
(* The broker's view of apps.json (internal/broker/registry.go): which     *)
(* files load, which calls an entry lets through and which tenancy blocks  *)
(* are refused (internal/broker/tenancy.go).                               *)
(*                                                                         *)
(* A pattern is a sequence of segments [kind, text]; a call's path is a    *)
(* sequence of texts.  Only a segment that is a placeholder as a whole     *)
(* ("hole") stands for any value; text with a placeholder in it ("part")   *)
(* matches nothing but itself.                                             *)
(***************************************************************************)
EXTENDS Naturals, Sequences, FiniteSets

Templated(segs) == \E i \in DOMAIN segs : segs[i].kind \in {"hole", "part"}

Literally(seg) == IF seg.kind = "part" THEN <<"{", seg.text, "}">> ELSE <<seg.text>>

\* Mutant: a placeholder matches only itself.
SegmentsMatchText(segs, path) == path = [i \in DOMAIN segs |-> Literally(segs[i])]

SegmentsMatch(segs, path) ==
    /\ Len(segs) = Len(path)
    /\ \A i \in DOMAIN segs :
          IF segs[i].kind = "hole" THEN path[i] # <<"">> ELSE path[i] = Literally(segs[i])

(***************************************************************************)
(* Routing.                                                                *)
(***************************************************************************)
Allowed(entry, path) == \E segs \in entry.allow : SegmentsMatch(segs, path)

\* A provisioned app answers its reserved routes and forwards nothing.
ReservedRoutes == {"_provision", "_balance", "_key", "_rotate", "push", "list"}

Routed(entry, path) ==
    IF entry.provision # {}
    THEN \E word \in ReservedRoutes : path = <<<<word>>>>
    ELSE \/ entry.credit /\ path = <<<<"_pilot">>, <<"balance">>>>
         \/ Allowed(entry, path)

(***************************************************************************)
(* validateTenancy, and the types a caller can come to own: what a create  *)
(* route claims, and what a list route claims of the elements it keeps.    *)
(***************************************************************************)
Created(t)     == t.create
LazyClaimed(t) == {l.claimAs : l \in t.list}

\* Mutant: a type may be named that nothing creates or claims.
ValidTenancyUncreated(t) ==
    LET types == t.params \cup t.bodyRefs \cup Created(t) IN
    /\ t.params # {} \/ t.bodyRefs # {}
    /\ \A l \in t.list : l.owner # {} /\ l.owner \subseteq types
    /\ t.bodyRefs # {} \/ ~t.multipart

ValidTenancy(t) ==
    LET types == t.params \cup t.bodyRefs \cup Created(t) IN
    /\ t.params # {} \/ t.bodyRefs # {}
    /\ \A l \in t.list : l.owner # {} /\ l.owner \subseteq types
    /\ t.bodyRefs # {} \/ ~t.multipart
    /\ t.params \subseteq Created(t) \cup LazyClaimed(t)

Ownable(t) ==
    LET Step(own) == own \cup Created(t)
                         \cup {l.claimAs : l \in {k \in t.list : k.owner \cap own # {}}}
        own[n \in 0..Cardinality(t.list)] == IF n = 0 THEN Created(t) ELSE Step(own[n - 1])
    IN  own[Cardinality(t.list)]

(***************************************************************************)
(* ParseRegistry: one entry that does not load refuses the whole file.     *)
(***************************************************************************)
ProvisionResolves(p, env) ==
    /\ p.secretEnv \in env
    /\ \/ p.provider \in {"", "master"}
       \/ p.provider = "tokenmint" /\ p.adminEnv \in env

EntryLoads(e, env) ==
    /\ e.upstream
    /\ e.keyEnv \in env
    /\ e.provision = {} /\ e.allow # {} => e.header
    /\ \A p \in e.provision : ProvisionResolves(p, env) /\ ~e.credit
    /\ \A t \in e.tenancy : ValidTenancy(t)

FileLoads(file, env) == \A e \in file : EntryLoads(e, env)
=============================================================================
