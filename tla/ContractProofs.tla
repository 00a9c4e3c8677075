--------------------------- MODULE ContractProofs ---------------------------
(***************************************************************************)
(* Proofs about Contract: the registry a broker serves by, through every   *)
(* order of registrations, edits, secrets, reloads and restarts, for any   *)
(* forms, specifications and neighbouring apps.                            *)
(***************************************************************************)
EXTENDS Contract, FiniteSetTheorems, TLAPS

(***************************************************************************)
(* The types.                                                              *)
(***************************************************************************)
LEMMA StepTyped == TypeOK /\ [Next]_vars => TypeOK'
<1> SUFFICES ASSUME TypeOK, [Next]_vars PROVE TypeOK'
  OBVIOUS
<1> USE DEF TypeOK, app, broker, host
<1>1. ASSUME NEW s \in Forms, Submit(s) PROVE TypeOK'
  BY <1>1 DEF Submit
<1>2. ASSUME NEW spec \in Specs, Author(spec) PROVE TypeOK'
  BY <1>2 DEF Author
<1>3. CASE Build
  <2>1. cfg' = {ToConfig(s) : s \in form}
    BY <1>3 DEF Build
  <2>2. \A c, d \in cfg' : c = d
    BY <2>1
  <2>3. cfg' \subseteq {ToConfig(s) : s \in Forms}
    BY <2>1
  <2> QED
    BY <1>3, <2>2, <2>3 DEF Build
<1>4. CASE Register
  BY <1>4 DEF Register
<1>5. ASSUME NEW k, SetSecret(k) PROVE TypeOK'
  BY <1>5 DEF SetSecret
<1>6. ASSUME NEW e, WriteNeighbour(e) PROVE TypeOK'
  BY <1>6 DEF WriteNeighbour
<1>7. CASE Reload
  BY <1>7 DEF Reload
<1>8. CASE Restart
  BY <1>8 DEF Restart, Boots, FileLoads
<1>9. CASE HostStep
  BY <1>9 DEF HostStep, FollowHint
<1>10. CASE AskForCloudKey
  BY <1>10 DEF AskForCloudKey
<1>11. CASE AdapterExits
  BY <1>11 DEF AdapterExits
<1>12. CASE UNCHANGED vars
  BY <1>12 DEF vars
<1> QED
  BY <1>1, <1>2, <1>3, <1>4, <1>5, <1>6, <1>7, <1>8, <1>9, <1>10, <1>11, <1>12 DEF Next

\* Every reachable state has its type.
THEOREM TypeCorrect == Spec => []TypeOK
<1>1. Init => TypeOK
  BY DEF Init, TypeOK
<1> QED
  BY <1>1, StepTyped, PTL DEF Spec

(***************************************************************************)
(* Which steps touch the broker, and how.                                  *)
(***************************************************************************)
Ids(entries) == {e.id : e \in entries}

\* The entry a submission is registered with bears the app's name.
LEMMA EntryNamed == ASSUME NEW s, NEW name PROVE BrokerEntry(s, name).id = name
  BY DEF BrokerEntry, AppEntry

\* A step leaves the broker alone, writes an entry in place of the one of its name,
\* sets a secret, reloads or restarts.
Written  == {BrokerEntry(s, AppName) : s \in form} \cup Neighbours
Rewrites == \E e \in Written : /\ file' = {x \in file : x.id # e.id} \cup {e}
                              /\ UNCHANGED <<live, procEnv, opsEnv, up>>
Sets     == opsEnv \subseteq opsEnv' /\ UNCHANGED <<file, live, procEnv, up>>

\* A step of the system rewrites an entry of the file, sets secrets, reloads, restarts,
\* or leaves the broker as it is.
LEMMA BrokerSteps ==
  ASSUME [Next]_vars PROVE UNCHANGED broker \/ Rewrites \/ Sets \/ Reload \/ Restart
<1> USE DEF app, broker, host
<1>1. ASSUME NEW s \in Forms, Submit(s) PROVE UNCHANGED broker
  BY <1>1 DEF Submit
<1>2. ASSUME NEW spec \in Specs, Author(spec) PROVE UNCHANGED broker
  BY <1>2 DEF Author
<1>3. CASE Build
  BY <1>3 DEF Build
<1>4. CASE Register
  <2>1. PICK s \in form : file' = {e \in file : e.id # AppName} \cup {BrokerEntry(s, AppName)}
    BY <1>4 DEF Register
  <2>2. BrokerEntry(s, AppName).id = AppName
    BY EntryNamed
  <2> QED
    BY <1>4, <2>1, <2>2 DEF Register, Rewrites, Written
<1>5. ASSUME NEW k, SetSecret(k) PROVE Sets
  BY <1>5 DEF SetSecret, Sets
<1>6. ASSUME NEW e \in Neighbours, WriteNeighbour(e) PROVE Rewrites
  BY <1>6 DEF WriteNeighbour, Rewrites, Written
<1>7. CASE HostStep
  BY <1>7 DEF HostStep, FollowHint
<1>8. CASE AskForCloudKey
  BY <1>8 DEF AskForCloudKey
<1>9. CASE AdapterExits
  BY <1>9 DEF AdapterExits
<1>10. CASE UNCHANGED vars
  BY <1>10 DEF vars
<1> QED
  BY <1>1, <1>2, <1>3, <1>4, <1>5, <1>6, <1>7, <1>8, <1>9, <1>10 DEF Next

(***************************************************************************)
(* What is live loads again: the environment of the next start holds every *)
(* secret of this one, and an entry that loads keeps loading with more.    *)
(***************************************************************************)
LEMMA EntryLoadsWithMore ==
  ASSUME NEW e, NEW env, NEW more, env \subseteq more, EntryLoads(e, env)
  PROVE  EntryLoads(e, more)
  BY DEF EntryLoads, ProvisionResolves

\* And so does a file of such entries.
LEMMA FileLoadsWithMore ==
  ASSUME NEW entries, NEW env, NEW more, env \subseteq more, FileLoads(entries, env)
  PROVE  FileLoads(entries, more)
  BY EntryLoadsWithMore DEF FileLoads

LiveLoads == procEnv \subseteq opsEnv /\ FileLoads(live, procEnv)

\* What the broker runs on loads in the environment it was started with, after any step.
LEMMA StepLoads == LiveLoads /\ [Next]_vars => LiveLoads'
<1> SUFFICES ASSUME LiveLoads, [Next]_vars PROVE LiveLoads'
  OBVIOUS
<1>1. CASE UNCHANGED broker
  BY <1>1 DEF LiveLoads, broker, FileLoads
<1>2. CASE Rewrites
  BY <1>2 DEF LiveLoads, Rewrites, FileLoads
<1>3. CASE Sets
  BY <1>3 DEF LiveLoads, Sets, FileLoads
<1>4. CASE Reload
  BY <1>4 DEF LiveLoads, Reload, FileLoads
<1>5. CASE Restart
  BY <1>5 DEF LiveLoads, Restart, Boots, FileLoads
<1> QED
  BY <1>1, <1>2, <1>3, <1>4, <1>5, BrokerSteps

\* A file the running broker has loaded is one it can be started on again, but for
\* an app that asks for an access key when there are none (main.go:37-50, 84-98).
THEOREM LoadedBoots == Spec => []LoadedFileBoots
<1>1. Init => LiveLoads
  BY DEF Init, LiveLoads, FileLoads
<1>2. LiveLoads => LoadedFileBoots
  BY FileLoadsWithMore, AccessKeysAssumption DEF LiveLoads, LoadedFileBoots, Boots
<1> QED
  BY <1>1, <1>2, StepLoads, PTL DEF Spec

(***************************************************************************)
(* No app is lost: whatever is live has an entry of its name in the file,  *)
(* because every write of the file replaces an entry by one of its name.   *)
(***************************************************************************)
Backed == Ids(live) \subseteq Ids(file) /\ (up \/ live = {})

\* A rewritten entry keeps its name: no name leaves the file.
LEMMA RewriteKeepsIds == ASSUME Rewrites PROVE Ids(file) \subseteq Ids(file')
<1>1. PICK e \in Written : file' = {x \in file : x.id # e.id} \cup {e}
  BY DEF Rewrites
<1>2. ASSUME NEW x \in file PROVE \E y \in file' : y.id = x.id
  BY <1>1
<1> QED
  BY <1>2 DEF Ids

\* The names the broker serves stay in the file, after any step.
LEMMA StepBacked == Backed /\ [Next]_vars => Backed'
<1> SUFFICES ASSUME Backed, [Next]_vars PROVE Backed'
  OBVIOUS
<1>1. CASE UNCHANGED broker
  BY <1>1 DEF Backed, broker, Ids
<1>2. CASE Rewrites
  <2>1. Ids(live') = Ids(live) /\ (up' \/ live' = {})
    BY <1>2 DEF Rewrites, Backed, Ids
  <2> QED
    BY <1>2, <2>1, RewriteKeepsIds DEF Backed
<1>3. CASE Sets
  BY <1>3 DEF Backed, Sets, Ids
<1>4. CASE Reload
  BY <1>4 DEF Backed, Reload, Ids
<1>5. CASE Restart
  BY <1>5 DEF Backed, Restart, Ids
<1> QED
  BY <1>1, <1>2, <1>3, <1>4, <1>5, BrokerSteps

\* A step after which the broker runs takes no served name away.
LEMMA StepKeepsApps == Backed /\ [Next]_vars => (up' => Ids(live) \subseteq Ids(live'))
<1> SUFFICES ASSUME Backed, [Next]_vars, up' PROVE Ids(live) \subseteq Ids(live')
  OBVIOUS
<1>1. CASE UNCHANGED broker
  BY <1>1 DEF broker, Ids
<1>2. CASE Rewrites
  BY <1>2 DEF Rewrites, Ids
<1>3. CASE Sets
  BY <1>3 DEF Sets, Ids
<1>4. CASE Reload
  BY <1>4 DEF Backed, Reload, Ids
<1>5. CASE Restart
  BY <1>5 DEF Backed, Restart, Ids
<1> QED
  BY <1>1, <1>2, <1>3, <1>4, <1>5, BrokerSteps

\* As long as the broker runs no app it serves stops being served, whatever is
\* written, reloaded or restarted (main.go:84-98).
THEOREM AppsStayServed == Spec => ReloadKeepsApps
<1>1. Init => Backed
  BY DEF Init, Backed, Ids
<1>2. Backed /\ [Next]_vars => [up' => {e.id : e \in live} \subseteq {e.id : e \in live'}]_<<live, up>>
  BY StepKeepsApps DEF Ids
<1> QED
  BY <1>1, <1>2, StepBacked, PTL DEF Spec, ReloadKeepsApps

(***************************************************************************)
(* Induction over the naturals, stated with sets. The library's induction  *)
(* theorems take a predicate as a parameter; that a set of naturals has a  *)
(* least element says the same of a set, and a recursive function is, to   *)
(* the provers, some function that satisfies its equation: once one is     *)
(* shown to exist, the equation holds of it.                               *)
(***************************************************************************)

\* A set of naturals that is not empty has a least element.
LEMMA LeastNatural ==
  ASSUME NEW S \in SUBSET Nat, S # {}
  PROVE  \E m \in S : \A n \in S : m <= n
<1> DEFINE R == {p \in Nat \X Nat : p[1] < p[2]}
<1>1. IsWellFoundedOn(R, Nat)
  BY NatLessThanWellFounded DEF OpToRel
<1>2. PICK m \in S : \A n \in S : ~(<<n, m>> \in R)
  <2> HIDE DEF R
  <2> QED
    BY <1>1, WFMin
<1>3. \A n \in S : ~(n < m)
  BY <1>2
<1> QED
  BY <1>3

\* Induction up to a bound, over the set of the numbers of which the claim holds.
LEMMA UpTo ==
  ASSUME NEW k \in Nat, NEW S, 0 \in S, \A n \in 0..(k - 1) : n \in S => n + 1 \in S
  PROVE  \A n \in 0..k : n \in S
<1> DEFINE T == {n \in 0..k : n \notin S}
<1> SUFFICES ASSUME T # {} PROVE FALSE
  OBVIOUS
<1>1. PICK m \in T : \A n \in T : m <= n
  <2>1. T \in SUBSET Nat
    OBVIOUS
  <2> HIDE DEF T
  <2> QED
    BY <2>1, LeastNatural
<1>2. m # 0 /\ m - 1 \in 0..(k - 1)
  BY <1>1
<1>3. m - 1 \in S
  BY <1>1, <1>2
<1> QED
  BY <1>1, <1>2, <1>3

(***************************************************************************)
(* The types a caller can come to own (validateTenancy,                    *)
(* tenancy.go:609-678). One step claims what the lists whose owner is      *)
(* owned lead to; as many steps as there are lists reach all there is.     *)
(***************************************************************************)
Links(t) == Cardinality(t.list)
Step(t, own) == own \cup Created(t) \cup {l.claimAs : l \in {k \in t.list : k.owner \cap own # {}}}

\* Ownable is the last of the steps from what create routes claim.
LEMMA UnrollOwnable ==
  ASSUME NEW t, Links(t) \in Nat
  PROVE  \E own : /\ own = [n \in 0..Links(t) |-> IF n = 0 THEN Created(t) ELSE Step(t, own[n - 1])]
                  /\ Ownable(t) = own[Links(t)]
<1> DEFINE Rec(k, f) == f = [n \in 0..k |-> IF n = 0 THEN Created(t) ELSE Step(t, f[n - 1])]
           K == Links(t)
           S == {k \in 0..K : \E f : Rec(k, f)}
<1>1. 0 \in S
  <2>1. Rec(0, [n \in 0..0 |-> Created(t)])
    OBVIOUS
  <2> HIDE DEF Rec
  <2> QED
    BY <2>1
<1>2. ASSUME NEW k \in 0..(K - 1), k \in S PROVE k + 1 \in S
  <2>1. PICK f : Rec(k, f)
    BY <1>2
  <2> DEFINE g == [n \in 0..(k + 1) |-> IF n = k + 1 THEN Step(t, f[k]) ELSE f[n]]
  <2>2. ASSUME NEW n \in 0..(k + 1)
        PROVE g[n] = IF n = 0 THEN Created(t) ELSE Step(t, g[n - 1])
    <3>1. CASE n = k + 1
      BY <1>2, <3>1
    <3>2. CASE n # k + 1
      <4>1. n \in 0..k /\ (n # 0 => n - 1 \in 0..k)
        BY <1>2, <3>2
      <4>2. f[n] = IF n = 0 THEN Created(t) ELSE Step(t, f[n - 1])
        BY <2>1, <4>1
      <4> QED
        BY <4>1, <4>2, <3>2
    <3> QED
      BY <3>1, <3>2
  <2>3. Rec(k + 1, g)
    BY <2>2
  <2> HIDE DEF g, Rec
  <2> QED
    BY <1>2, <2>3
<1>3. K \in S
  <2> HIDE DEF S
  <2>1. \A n \in 0..K : n \in S
    BY <1>1, <1>2, UpTo
  <2> QED
    BY <2>1
<1>4. PICK some : Rec(K, some)
  BY <1>3
<1> DEFINE own == CHOOSE f : Rec(K, f)
<1>5. Rec(K, own)
  BY <1>4
<1>6. Ownable(t) = own[K]
  BY DEF Ownable, Step, Links
<1> QED
  BY <1>5, <1>6

\* The lists whose claims are owned.  A step that adds a type adds a list to them.
Used(t, own) == {l \in t.list : l.claimAs \in own}

\* A further step adds nothing: Ownable holds what is created and is closed.
LEMMA OwnableSettles ==
  ASSUME NEW t, IsFiniteSet(t.list)
  PROVE  Step(t, Ownable(t)) = Ownable(t) /\ Created(t) \subseteq Ownable(t)
<1>0. Links(t) \in Nat
  BY FS_CardinalityType DEF Links
<1> DEFINE K == Links(t)
<1>1. PICK own : /\ own = [n \in 0..K |-> IF n = 0 THEN Created(t) ELSE Step(t, own[n - 1])]
                 /\ Ownable(t) = own[K]
  BY <1>0, UnrollOwnable
<1>2. \A n \in 0..(K - 1) : own[n + 1] = Step(t, own[n])
  BY <1>0, <1>1
<1>3. own[0] = Created(t)
  BY <1>0, <1>1
<1>4. \A o : IsFiniteSet(Used(t, o)) /\ Cardinality(Used(t, o)) \in Nat
  BY FS_Subset, FS_CardinalityType DEF Used
<1> DEFINE S == {n \in 0..K : /\ Step(t, own[n]) = own[n] \/ Cardinality(Used(t, own[n])) >= n
                              /\ Created(t) \subseteq own[n]}
<1>5. 0 \in S
  BY <1>0, <1>3, <1>4
<1>6. ASSUME NEW n \in 0..(K - 1), n \in S PROVE n + 1 \in S
  <2>1. own[n + 1] = Step(t, own[n])
    BY <1>2
  <2>2. CASE Step(t, own[n]) = own[n]
    BY <1>0, <1>6, <2>1, <2>2
  <2>3. CASE Step(t, own[n]) # own[n]
    <3>1. PICK l \in t.list : l.claimAs \in Step(t, own[n]) /\ l.claimAs \notin own[n]
      BY <1>6, <2>3 DEF Step
    <3> DEFINE old == Used(t, own[n])
               new == Used(t, own[n + 1])
    <3>2. old \subseteq new /\ old # new
      BY <2>1, <3>1 DEF Used, Step
    <3>3. Cardinality(old) < Cardinality(new)
      <4>1. IsFiniteSet(new) /\ Cardinality(old) \in Nat /\ Cardinality(new) \in Nat
        BY <1>4
      <4> HIDE DEF old, new
      <4> QED
        BY <3>2, <4>1, FS_Subset
    <3>4. Cardinality(old) >= n
      BY <1>6, <2>3
    <3>5. Cardinality(new) >= n + 1
      BY <1>4, <3>3, <3>4
    <3>6. Created(t) \subseteq own[n + 1] /\ n + 1 \in 0..K
      BY <1>0, <1>6, <2>1 DEF Step
    <3> QED
      BY <3>5, <3>6
  <2> QED
    BY <2>2, <2>3
<1>7. K \in S
  <2> HIDE DEF S
  <2>1. \A n \in 0..K : n \in S
    BY <1>0, <1>5, <1>6, UpTo
  <2> QED
    BY <1>0, <2>1
<1>8. ASSUME Cardinality(Used(t, own[K])) >= K PROVE Step(t, own[K]) = own[K]
  <2>1. Used(t, own[K]) = t.list
    <3>1. Used(t, own[K]) \in SUBSET t.list /\ Cardinality(Used(t, own[K])) \in Nat
      BY <1>4 DEF Used
    <3>2. Cardinality(Used(t, own[K])) <= K
      BY <3>1, FS_Subset DEF Links
    <3>3. Cardinality(Used(t, own[K])) = Cardinality(t.list)
      BY <1>0, <1>8, <3>1, <3>2 DEF Links
    <3> QED
      BY <3>1, <3>3, FS_Subset
  <2> QED
    BY <1>7, <2>1 DEF Used, Step
<1> QED
  BY <1>1, <1>7, <1>8

\* A valid block strands a type only where a list that claims it is owned by nothing ownable.
LEMMA ValidStrands ==
  ASSUME NEW t, IsFiniteSet(t.list), ValidTenancy(t), NEW ty \in t.params \ Ownable(t)
  PROVE  \E l \in t.list : l.claimAs = ty /\ l.owner \cap Ownable(t) = {}
<1>1. PICK l \in t.list : l.claimAs = ty
  BY OwnableSettles DEF ValidTenancy, LazyClaimed
<1>2. l.owner \cap Ownable(t) = {}
  BY <1>1, OwnableSettles DEF Step
<1> QED
  BY <1>1, <1>2

(***************************************************************************)
(* The install order of native assets (ResolveAssets,                      *)
(* config.go:1742-1796): the assets of a platform, what a name still       *)
(* needs, which of two assets comes first, and one round of the loop,      *)
(* which appends the soonest of the assets that are ready.                 *)
(***************************************************************************)
Here(a, plat)        == {i \in DOMAIN a : a[i].plat = plat}
NeedsOf(a, plat, n)  == UNION {a[i].deps : i \in {j \in Here(a, plat) : AssetName(a[j]) = n}}
Sooner(a, i, j)      == \/ a[i].order < a[j].order
                        \/ a[i].order = a[j].order /\ AssetName(a[i]) < AssetName(a[j])
DoneBy(a, o)         == {AssetName(a[i]) : i \in Range(o)}
ReadyWith(a, plat, done) ==
  {i \in Here(a, plat) : AssetName(a[i]) \notin done /\ NeedsOf(a, plat, AssetName(a[i])) \subseteq done}
NextOf(a, ready)     == CHOOSE i \in ready : \A j \in ready : ~Sooner(a, j, i)
Extended(a, plat, o) == IF ReadyWith(a, plat, DoneBy(a, o)) = {} THEN o
                        ELSE Append(o, NextOf(a, ReadyWith(a, plat, DoneBy(a, o))))

\* ResolveAssets is the order the last round leaves, unless an asset is missing from it
\* or depends on one that is not there.
LEMMA UnrollAssets ==
  ASSUME NEW a, NEW plat, Cardinality(Here(a, plat)) \in Nat
  PROVE  \E out :
           /\ out = [n \in 0..Cardinality(Here(a, plat)) |->
                       IF n = 0 THEN <<>> ELSE Extended(a, plat, out[n - 1])]
           /\ ResolveAssets(a, plat) =
                IF /\ \A i \in Here(a, plat) :
                        a[i].deps \subseteq {AssetName(a[j]) : j \in Here(a, plat)}
                   /\ Len(out[Cardinality(Here(a, plat))]) = Cardinality(Here(a, plat))
                THEN {out[Cardinality(Here(a, plat))]} ELSE {}
<1> DEFINE Rec(k, f) == f = [n \in 0..k |-> IF n = 0 THEN <<>> ELSE Extended(a, plat, f[n - 1])]
           K == Cardinality(Here(a, plat))
           S == {k \in 0..K : \E f : Rec(k, f)}
<1>1. 0 \in S
  <2>1. Rec(0, [n \in 0..0 |-> <<>>])
    OBVIOUS
  <2> HIDE DEF Rec
  <2> QED
    BY <2>1
<1>2. ASSUME NEW k \in 0..(K - 1), k \in S PROVE k + 1 \in S
  <2>1. PICK f : Rec(k, f)
    BY <1>2
  <2> DEFINE g == [n \in 0..(k + 1) |-> IF n = k + 1 THEN Extended(a, plat, f[k]) ELSE f[n]]
  <2>2. ASSUME NEW n \in 0..(k + 1)
        PROVE g[n] = IF n = 0 THEN <<>> ELSE Extended(a, plat, g[n - 1])
    <3>1. CASE n = k + 1
      BY <1>2, <3>1
    <3>2. CASE n # k + 1
      <4>1. n \in 0..k /\ (n # 0 => n - 1 \in 0..k)
        BY <1>2, <3>2
      <4>2. f[n] = IF n = 0 THEN <<>> ELSE Extended(a, plat, f[n - 1])
        BY <2>1, <4>1
      <4> QED
        BY <4>1, <4>2, <3>2
    <3> QED
      BY <3>1, <3>2
  <2>3. Rec(k + 1, g)
    BY <2>2
  <2> HIDE DEF g, Rec
  <2> QED
    BY <1>2, <2>3
<1>3. K \in S
  <2> HIDE DEF S
  <2>1. \A n \in 0..K : n \in S
    BY <1>1, <1>2, UpTo
  <2> QED
    BY <2>1
<1>4. PICK some : Rec(K, some)
  BY <1>3
<1> DEFINE out == CHOOSE f : Rec(K, f)
<1>5. Rec(K, out)
  BY <1>4
<1>6. ResolveAssets(a, plat) =
        IF /\ \A i \in Here(a, plat) :
                a[i].deps \subseteq {AssetName(a[j]) : j \in Here(a, plat)}
           /\ Len(out[K]) = K
        THEN {out[K]} ELSE {}
  BY DEF ResolveAssets, Here, NeedsOf, Sooner, DoneBy, ReadyWith, NextOf, Extended
<1> QED
  BY <1>5, <1>6

\* Orders and names are compared as numbers.
Comparable(a, I) == \A i \in I : a[i].order \in Int /\ AssetName(a[i]) \in Int

\* Of the assets that are ready one is behind no other: the one with the fewest before it.
LEMMA SoonestExists ==
  ASSUME NEW a, NEW ready, IsFiniteSet(ready), ready # {}, Comparable(a, ready)
  PROVE  NextOf(a, ready) \in ready /\ \A j \in ready : ~Sooner(a, j, NextOf(a, ready))
<1> DEFINE Below(i) == {j \in ready : Sooner(a, j, i)}
           Counts   == {n \in Nat : \E i \in ready : Cardinality(Below(i)) = n}
<1>1. \A i \in ready : IsFiniteSet(Below(i)) /\ Cardinality(Below(i)) \in Nat
  BY FS_Subset, FS_CardinalityType
<1>2. PICK least \in Counts : \A n \in Counts : least <= n
  <2>1. Counts \in SUBSET Nat /\ Counts # {}
    BY <1>1
  <2> HIDE DEF Counts
  <2> QED
    BY <2>1, LeastNatural
<1>3. PICK i \in ready : Cardinality(Below(i)) = least
  BY <1>2
<1>4. ASSUME NEW j \in ready, Sooner(a, j, i) PROVE FALSE
  <2>1. \A h \in ready : Sooner(a, h, j) => Sooner(a, h, i)
    BY <1>4 DEF Sooner, Comparable
  <2>2. ~Sooner(a, j, j)
    BY DEF Sooner, Comparable
  <2>3. Below(j) \subseteq Below(i) /\ Below(j) # Below(i)
    BY <1>4, <2>1, <2>2
  <2>4. Cardinality(Below(j)) < Cardinality(Below(i))
    <3>1. IsFiniteSet(Below(i)) /\ Cardinality(Below(j)) \in Nat /\ Cardinality(Below(i)) \in Nat
      BY <1>1
    <3> HIDE DEF Below
    <3> QED
      BY <2>3, <3>1, FS_Subset
  <2>5. Cardinality(Below(j)) \in Counts
    BY <1>1
  <2>6. Cardinality(Below(j)) \in Nat /\ least = Cardinality(Below(i)) /\ least \in Nat
    BY <1>1, <1>3
  <2> HIDE DEF Counts, Below
  <2> QED
    BY <1>2, <2>4, <2>5, <2>6
<1> QED
  BY <1>4 DEF NextOf

\* The names in front of place k, and the orders that take, at each place, the soonest
\* of the assets that are ready there.
Before(a, o, k) == {AssetName(a[o[j]]) : j \in 1..(k - 1)}
GreedyAt(a, plat, o, k) ==
  /\ o[k] \in ReadyWith(a, plat, Before(a, o, k))
  /\ \A j \in ReadyWith(a, plat, Before(a, o, k)) : ~Sooner(a, j, o[k])
Greedy(a, plat, o) ==
  /\ o \in Seq(Here(a, plat))
  /\ \A k \in 1..Len(o) : GreedyAt(a, plat, o, k)

\* A round of the loop keeps the order greedy and makes it longer by one.
LEMMA ExtendsGreedily ==
  ASSUME NEW a, NEW plat, IsFiniteSet(Here(a, plat)), Comparable(a, Here(a, plat)),
         NEW o, Greedy(a, plat, o), ReadyWith(a, plat, DoneBy(a, o)) # {}
  PROVE  Greedy(a, plat, Extended(a, plat, o)) /\ Len(Extended(a, plat, o)) = Len(o) + 1
<1> DEFINE ready == ReadyWith(a, plat, DoneBy(a, o))
           x     == NextOf(a, ready)
           p     == Append(o, x)
<1>1. x \in ready /\ \A j \in ready : ~Sooner(a, j, x)
  <2>1. ready \in SUBSET Here(a, plat)
    BY DEF ReadyWith
  <2>2. IsFiniteSet(ready) /\ Comparable(a, ready) /\ ready # {}
    BY <2>1, FS_Subset DEF Comparable
  <2> HIDE DEF ready
  <2> QED
    BY <2>2, SoonestExists
<1>2. o \in Seq(Here(a, plat)) /\ x \in Here(a, plat)
  BY <1>1 DEF Greedy, ReadyWith
<1>3. /\ p \in Seq(Here(a, plat)) /\ Len(p) = Len(o) + 1 /\ p[Len(o) + 1] = x
      /\ \A k \in 1..Len(o) : p[k] = o[k]
  <2> HIDE DEF x
  <2> QED
    BY <1>2
<1>4. \A k \in 1..(Len(o) + 1) : Before(a, p, k) = Before(a, o, k)
  <2> HIDE DEF p
  <2> SUFFICES ASSUME NEW k \in 1..(Len(o) + 1) PROVE Before(a, p, k) = Before(a, o, k)
    OBVIOUS
  <2>1. \A j \in 1..(k - 1) : p[j] = o[j]
    BY <1>2, <1>3
  <2> QED
    BY <2>1 DEF Before
<1>5. DoneBy(a, o) = Before(a, o, Len(o) + 1)
  BY <1>2 DEF DoneBy, Before, Range
<1>6. GreedyAt(a, plat, p, Len(o) + 1)
  <2>1. Before(a, p, Len(o) + 1) = DoneBy(a, o)
    BY <1>2, <1>4, <1>5
  <2> HIDE DEF p, x
  <2> QED
    BY <1>1, <1>3, <2>1 DEF GreedyAt
<1>7. \A k \in 1..Len(o) : GreedyAt(a, plat, p, k)
  <2> HIDE DEF p
  <2> QED
    BY <1>2, <1>3, <1>4 DEF GreedyAt, Greedy
<1>8. Extended(a, plat, o) = p
  BY DEF Extended
<1> HIDE DEF p
<1> QED
  BY <1>2, <1>3, <1>6, <1>7, <1>8 DEF Greedy

Count(a, plat) == Cardinality(Here(a, plat))
DepsAreHere(a, plat) ==
  \A i \in Here(a, plat) : a[i].deps \subseteq {AssetName(a[j]) : j \in Here(a, plat)}
NamesClash(a, plat) == \E i, j \in Here(a, plat) : i # j /\ AssetName(a[i]) = AssetName(a[j])

\* What the loop ends with is greedy, and covers the platform or is stuck.
LEMMA ResolvesGreedily ==
  ASSUME NEW a, NEW plat, IsFiniteSet(Here(a, plat)), Comparable(a, Here(a, plat))
  PROVE  \E o : /\ Greedy(a, plat, o)
                /\ Len(o) = Count(a, plat) \/ ReadyWith(a, plat, DoneBy(a, o)) = {}
                /\ ResolveAssets(a, plat) =
                     IF DepsAreHere(a, plat) /\ Len(o) = Count(a, plat) THEN {o} ELSE {}
<1> DEFINE K == Count(a, plat)
<1>0. K \in Nat
  BY FS_CardinalityType DEF Count
<1>1. PICK out : /\ out = [n \in 0..K |-> IF n = 0 THEN <<>> ELSE Extended(a, plat, out[n - 1])]
                 /\ ResolveAssets(a, plat) =
                      IF DepsAreHere(a, plat) /\ Len(out[K]) = K THEN {out[K]} ELSE {}
  BY <1>0, UnrollAssets DEF Count, DepsAreHere
<1>2. out[0] = <<>> /\ \A n \in 0..(K - 1) : out[n + 1] = Extended(a, plat, out[n])
  BY <1>0, <1>1
<1> DEFINE S == {n \in 0..K : /\ Greedy(a, plat, out[n])
                              /\ Len(out[n]) = n \/ ReadyWith(a, plat, DoneBy(a, out[n])) = {}}
<1>3. 0 \in S
  <2>1. Greedy(a, plat, <<>>) /\ Len(<<>>) = 0
    BY DEF Greedy
  <2> QED
    BY <1>0, <1>2, <2>1
<1>4. ASSUME NEW n \in 0..(K - 1), n \in S PROVE n + 1 \in S
  <2> DEFINE o == out[n]
  <2>1. /\ Greedy(a, plat, o) /\ out[n + 1] = Extended(a, plat, o) /\ n + 1 \in 0..K
        /\ Len(o) = n \/ ReadyWith(a, plat, DoneBy(a, o)) = {}
    BY <1>0, <1>2, <1>4
  <2> HIDE DEF o
  <2>2. CASE ReadyWith(a, plat, DoneBy(a, o)) = {}
    <3>1. Extended(a, plat, o) = o
      BY <2>2 DEF Extended
    <3> QED
      BY <2>1, <2>2, <3>1
  <2>3. CASE ReadyWith(a, plat, DoneBy(a, o)) # {}
    <3>1. Greedy(a, plat, Extended(a, plat, o)) /\ Len(Extended(a, plat, o)) = Len(o) + 1
      BY <2>1, <2>3, ExtendsGreedily
    <3> QED
      BY <2>1, <2>3, <3>1
  <2> QED
    BY <2>2, <2>3
<1>5. K \in S
  <2> HIDE DEF S
  <2>1. \A n \in 0..K : n \in S
    BY <1>0, <1>3, <1>4, UpTo
  <2> QED
    BY <1>0, <2>1
<1> QED
  BY <1>1, <1>5

\* Nothing is put in order twice: an order that is as long as the set covers it.
LEMMA GreedyCovers ==
  ASSUME NEW a, NEW plat, IsFiniteSet(Here(a, plat)), NEW o, Greedy(a, plat, o)
  PROVE  /\ \A j, k \in 1..Len(o) : j # k => AssetName(a[o[j]]) # AssetName(a[o[k]])
         /\ Len(o) = Count(a, plat) <=> Range(o) = Here(a, plat)
<1>1. o \in [1..Len(o) -> Here(a, plat)] /\ Len(o) \in Nat
  BY DEF Greedy
<1>2. ASSUME NEW j \in 1..Len(o), NEW k \in 1..Len(o), j < k
      PROVE  AssetName(a[o[j]]) # AssetName(a[o[k]])
  <2>1. AssetName(a[o[j]]) \in Before(a, o, k)
    BY <1>1, <1>2 DEF Before
  <2>2. AssetName(a[o[k]]) \notin Before(a, o, k)
    BY DEF Greedy, GreedyAt, ReadyWith
  <2> QED
    BY <2>1, <2>2
<1>3. \A j, k \in 1..Len(o) : j # k => AssetName(a[o[j]]) # AssetName(a[o[k]])
  <2> SUFFICES ASSUME NEW j \in 1..Len(o), NEW k \in 1..Len(o), j # k
               PROVE  AssetName(a[o[j]]) # AssetName(a[o[k]])
    OBVIOUS
  <2>1. j < k \/ k < j
    BY <1>1
  <2> QED
    BY <1>2, <2>1
<1>4. o \in Injection(1..Len(o), Here(a, plat))
  BY <1>1, <1>3 DEF Injection, IsInjective
<1>5. Cardinality(1..Len(o)) = Len(o)
  <2>1. ASSUME NEW n \in Nat PROVE Cardinality(1..n) = n
    <3>1. Cardinality(1..n) = IF 1 > n THEN 0 ELSE n - 1 + 1
      BY FS_Interval
    <3> QED
      BY <3>1
  <2> QED
    BY <1>1, <2>1
<1>6. Len(o) = Count(a, plat) <=> o \in Surjection(1..Len(o), Here(a, plat))
  BY <1>4, <1>5, FS_Injection DEF Count
<1>7. o \in Surjection(1..Len(o), Here(a, plat)) <=> Range(o) = Here(a, plat)
  BY <1>1 DEF Surjection, Range
<1> QED
  BY <1>3, <1>6, <1>7

\* A greedy order that covers the platform is sound, and no name is used twice.
LEMMA CoversNames ==
  ASSUME NEW a, NEW plat, IsFiniteSet(Here(a, plat)), NEW o, Greedy(a, plat, o),
         Len(o) = Count(a, plat)
  PROVE  o \in SoundOrders(a, plat) /\ ~NamesClash(a, plat)
<1>1. Range(o) = Here(a, plat) /\ o \in [1..Count(a, plat) -> Here(a, plat)]
  BY GreedyCovers DEF Greedy
<1>2. ~NamesClash(a, plat)
  <2> SUFFICES ASSUME NEW i \in Here(a, plat), NEW j \in Here(a, plat), i # j
               PROVE  AssetName(a[i]) # AssetName(a[j])
    BY DEF NamesClash
  <2>1. PICK h \in 1..Len(o), k \in 1..Len(o) : o[h] = i /\ o[k] = j
    BY <1>1 DEF Range
  <2> QED
    BY <2>1, GreedyCovers
<1>3. ASSUME NEW k \in 1..Len(o) PROVE a[o[k]].deps \subseteq Before(a, o, k)
  <2>1. o[k] \in ReadyWith(a, plat, Before(a, o, k))
    BY DEF Greedy, GreedyAt
  <2>2. a[o[k]].deps \subseteq NeedsOf(a, plat, AssetName(a[o[k]])) /\ o[k] \in Here(a, plat)
    BY <2>1 DEF ReadyWith, NeedsOf
  <2> QED
    BY <2>1, <2>2 DEF ReadyWith
<1>4. o \in SoundOrders(a, plat)
  <2>1. DOMAIN o = 1..Len(o)
    BY DEF Greedy
  <2> QED
    BY <1>1, <1>3, <2>1 DEF SoundOrders, Before, Here, Count
<1> QED
  BY <1>2, <1>4

\* A sound order has each asset of the platform at one place.
LEMMA SoundOrdersInject ==
  ASSUME NEW a, NEW plat, IsFiniteSet(Here(a, plat)), NEW p \in SoundOrders(a, plat)
  PROVE  /\ p \in [1..Count(a, plat) -> Here(a, plat)] /\ Count(a, plat) \in Nat
         /\ Range(p) = Here(a, plat)
         /\ \A k \in 1..Count(a, plat) : a[p[k]].deps \subseteq Before(a, p, k)
         /\ \A j, k \in 1..Count(a, plat) : j # k => p[j] # p[k]
<1>1. /\ p \in [1..Count(a, plat) -> Here(a, plat)] /\ Range(p) = Here(a, plat)
      /\ \A k \in 1..Count(a, plat) : a[p[k]].deps \subseteq Before(a, p, k)
  BY DEF SoundOrders, Before, Here, Count
<1>2. Count(a, plat) \in Nat
  BY FS_CardinalityType DEF Count
<1>3. IsFiniteSet(1..Count(a, plat)) /\ Cardinality(1..Count(a, plat)) = Count(a, plat)
  <2>1. ASSUME NEW n \in Nat PROVE IsFiniteSet(1..n) /\ Cardinality(1..n) = n
    <3>1. IsFiniteSet(1..n) /\ Cardinality(1..n) = IF 1 > n THEN 0 ELSE n - 1 + 1
      BY FS_Interval
    <3> QED
      BY <3>1
  <2> QED
    BY <1>2, <2>1
<1>4. p \in Surjection(1..Count(a, plat), Here(a, plat))
  BY <1>1 DEF Surjection, Range
<1>5. p \in Injection(1..Count(a, plat), Here(a, plat))
  BY <1>3, <1>4, FS_Surjection DEF Count
<1> QED
  BY <1>1, <1>2, <1>5 DEF Injection, IsInjective

\* Where no two assets share a name, what an order has put before an asset is done, and
\* what it has not put there is not.
LEMMA UnclashedReady ==
  ASSUME NEW a, NEW plat, IsFiniteSet(Here(a, plat)), ~NamesClash(a, plat),
         NEW p \in SoundOrders(a, plat), NEW k \in 1..Count(a, plat), NEW done,
         Before(a, p, k) \subseteq done, AssetName(a[p[k]]) \notin done
  PROVE  p[k] \in ReadyWith(a, plat, done)
<1>1. p[k] \in Here(a, plat) /\ a[p[k]].deps \subseteq Before(a, p, k)
  BY SoundOrdersInject
<1>2. NeedsOf(a, plat, AssetName(a[p[k]])) = a[p[k]].deps
  BY <1>1 DEF NeedsOf, NamesClash
<1> QED
  BY <1>1, <1>2 DEF ReadyWith

\* Where there is a sound order and no two assets share a name, the loop is not stuck
\* before the end: the first asset of the sound order it has not taken is ready.
LEMMA UnclashedCovers ==
  ASSUME NEW a, NEW plat, IsFiniteSet(Here(a, plat)), ~NamesClash(a, plat),
         NEW p \in SoundOrders(a, plat), NEW o, Greedy(a, plat, o),
         ReadyWith(a, plat, DoneBy(a, o)) = {}
  PROVE  Len(o) = Count(a, plat)
<1> SUFFICES ASSUME Range(o) # Here(a, plat) PROVE FALSE
  BY GreedyCovers
<1>0. Range(o) \subseteq Here(a, plat)
  BY DEF Greedy, Range
<1> DEFINE Left == {k \in 1..Count(a, plat) : p[k] \notin Range(o)}
<1>1. PICK k \in Left : \A j \in Left : k <= j
  <2>1. Left \in SUBSET Nat
    BY SoundOrdersInject
  <2>2. Left # {}
    BY <1>0, SoundOrdersInject DEF Range
  <2> HIDE DEF Left
  <2> QED
    BY <2>1, <2>2, LeastNatural
<1>2. \A j \in 1..(k - 1) : p[j] \in Range(o)
  BY <1>1, SoundOrdersInject
<1>3. Before(a, p, k) \subseteq DoneBy(a, o)
  BY <1>2 DEF Before, DoneBy
<1>4. AssetName(a[p[k]]) \notin DoneBy(a, o)
  <2> SUFFICES ASSUME NEW i \in Range(o), AssetName(a[i]) = AssetName(a[p[k]]) PROVE FALSE
    BY DEF DoneBy
  <2>1. p[k] \in Here(a, plat) /\ i \in Here(a, plat)
    BY <1>0, <1>1, SoundOrdersInject
  <2>2. i = p[k]
    BY <2>1 DEF NamesClash
  <2> QED
    BY <1>1, <2>2
<1>5. p[k] \in ReadyWith(a, plat, DoneBy(a, o))
  BY <1>1, <1>3, <1>4, UnclashedReady
<1> QED
  BY <1>5

\* No sound order has an asset of a lower `order` where it first differs.
LEMMA GreedyIsFirst ==
  ASSUME NEW a, NEW plat, IsFiniteSet(Here(a, plat)), ~NamesClash(a, plat),
         NEW o \in SoundOrders(a, plat), Greedy(a, plat, o),
         NEW p \in SoundOrders(a, plat), NEW k \in DOMAIN p,
         \A j \in 1..(k - 1) : p[j] = o[j]
  PROVE  ~(a[p[k]].order < a[o[k]].order)
<1>1. k \in 1..Count(a, plat) /\ k \in 1..Len(o) /\ k \in Nat
  BY SoundOrdersInject DEF Greedy
<1>2. Before(a, p, k) = Before(a, o, k)
  BY DEF Before
<1>3. AssetName(a[p[k]]) \notin Before(a, p, k)
  <2> SUFFICES ASSUME NEW j \in 1..(k - 1), AssetName(a[p[j]]) = AssetName(a[p[k]]) PROVE FALSE
    BY DEF Before
  <2>1. p[j] \in Here(a, plat) /\ p[k] \in Here(a, plat) /\ p[j] # p[k]
    BY <1>1, SoundOrdersInject
  <2> QED
    BY <2>1 DEF NamesClash
<1>4. p[k] \in ReadyWith(a, plat, Before(a, o, k))
  BY <1>1, <1>2, <1>3, UnclashedReady
<1> QED
  BY <1>1, <1>4 DEF Greedy, GreedyAt, Sooner

\* What InstallOrderSound says of one platform.
InstallsSoundly(a, plat) ==
  LET Earlier(o, p) == \E k \in DOMAIN o : /\ \A j \in 1..(k - 1) : o[j] = p[j]
                                           /\ a[o[k]].order < a[p[k]].order
      sound == SoundOrders(a, plat)
  IN  /\ NamesClash(a, plat) \/ sound = {} => ResolveAssets(a, plat) = {}
      /\ ~NamesClash(a, plat) /\ sound # {} =>
            \E o \in ResolveAssets(a, plat) :
                /\ o \in sound
                /\ \A p \in sound : ~Earlier(p, o)

\* The algorithm is sound for any assets.
LEMMA AlgorithmIsSound ==
  ASSUME NEW a, NEW plat, IsFiniteSet(Here(a, plat)), Comparable(a, Here(a, plat))
  PROVE  InstallsSoundly(a, plat)
<1>1. PICK o : /\ Greedy(a, plat, o)
               /\ Len(o) = Count(a, plat) \/ ReadyWith(a, plat, DoneBy(a, o)) = {}
               /\ ResolveAssets(a, plat) =
                    IF DepsAreHere(a, plat) /\ Len(o) = Count(a, plat) THEN {o} ELSE {}
  BY ResolvesGreedily
<1>2. NamesClash(a, plat) \/ SoundOrders(a, plat) = {} => ResolveAssets(a, plat) = {}
  BY <1>1, CoversNames
<1>3. ASSUME ~NamesClash(a, plat), NEW q \in SoundOrders(a, plat)
      PROVE  /\ o \in ResolveAssets(a, plat) /\ o \in SoundOrders(a, plat)
             /\ \A p \in SoundOrders(a, plat) : \A k \in DOMAIN p :
                   (\A j \in 1..(k - 1) : p[j] = o[j]) => ~(a[p[k]].order < a[o[k]].order)
  <2>1. Len(o) = Count(a, plat)
    BY <1>1, <1>3, UnclashedCovers
  <2>2. o \in SoundOrders(a, plat)
    BY <1>1, <2>1, CoversNames
  <2>3. DepsAreHere(a, plat)
    <3> SUFFICES ASSUME NEW i \in Here(a, plat)
                 PROVE  a[i].deps \subseteq {AssetName(a[j]) : j \in Here(a, plat)}
      BY DEF DepsAreHere
    <3>1. PICK k \in 1..Count(a, plat) : q[k] = i
      BY SoundOrdersInject DEF Range
    <3>2. a[i].deps \subseteq Before(a, q, k)
      BY <3>1, SoundOrdersInject
    <3>3. Before(a, q, k) \subseteq {AssetName(a[j]) : j \in Here(a, plat)}
      BY SoundOrdersInject DEF Before
    <3> QED
      BY <3>2, <3>3
  <2> QED
    BY <1>1, <1>3, <2>1, <2>2, <2>3, GreedyIsFirst
<1>4. ~NamesClash(a, plat) /\ SoundOrders(a, plat) # {} =>
        /\ o \in ResolveAssets(a, plat) /\ o \in SoundOrders(a, plat)
        /\ \A p \in SoundOrders(a, plat) : \A k \in DOMAIN p :
              (\A j \in 1..(k - 1) : p[j] = o[j]) => ~(a[p[k]].order < a[o[k]].order)
  BY <1>3
<1> QED
  BY <1>2, <1>4 DEF InstallsSoundly

(***************************************************************************)
(* The entries a broker holds.  Each is an app's registered submission or  *)
(* one an operator wrote, and no two bear one name.                        *)
(***************************************************************************)
Entries == {BrokerEntry(s, AppName) : s \in Forms} \cup Neighbours

Unique(entries) == \A e, f \in entries : e.id = f.id => e = f

RegistryOK ==
  /\ file \subseteq Entries /\ Unique(file)
  /\ live \subseteq Entries /\ Unique(live)

\* Rewriting an entry leaves entries of known origin, one for each name.
LEMMA RewrittenOK ==
  ASSUME NEW entries \in SUBSET Entries, Unique(entries), NEW e \in Entries
  PROVE  LET new == {x \in entries : x.id # e.id} \cup {e}
         IN  new \subseteq Entries /\ Unique(new)
  BY DEF Unique

\* The file and the routes keep such entries, after any step.
LEMMA StepRegistryOK == TypeOK /\ RegistryOK /\ [Next]_vars => RegistryOK'
<1> SUFFICES ASSUME TypeOK, RegistryOK, [Next]_vars PROVE RegistryOK'
  OBVIOUS
<1>1. CASE UNCHANGED broker
  BY <1>1 DEF RegistryOK, broker
<1>2. CASE Rewrites
  <2>1. PICK e \in Written : file' = {x \in file : x.id # e.id} \cup {e}
    BY <1>2 DEF Rewrites
  <2>2. e \in Entries
    BY DEF Written, Entries, TypeOK
  <2>3. file' \subseteq Entries /\ Unique(file')
    BY <2>1, <2>2, RewrittenOK DEF RegistryOK
  <2> QED
    BY <1>2, <2>3 DEF RegistryOK, Rewrites
<1>3. CASE Sets
  BY <1>3 DEF RegistryOK, Sets
<1>4. CASE Reload
  BY <1>4 DEF RegistryOK, Reload
<1>5. CASE Restart
  BY <1>5 DEF RegistryOK, Restart, Unique
<1> QED
  BY <1>1, <1>2, <1>3, <1>4, <1>5, BrokerSteps

\* The tenancy block of an entry has finitely many list rules.
LEMMA EntryTenancy ==
  ASSUME NEW e \in Entries, NEW t \in e.tenancy PROVE IsFiniteSet(t.list)
<1>1. ASSUME NEW s \in Forms PROVE BrokerEntry(s, AppName).tenancy = {}
  BY DEF BrokerEntry, AppEntry
<1> QED
  BY <1>1, NeighboursAssumption DEF Entries

\* A type a live tenancy block names can be owned, unless the lists that claim it are
\* themselves never owned (validateTenancy, tenancy.go:614-667).
THEOREM StrandedTypesAreCircular == Spec => []StrandedOnlyInCircle
<1>1. Init => LiveLoads /\ RegistryOK
  BY DEF Init, LiveLoads, FileLoads, RegistryOK, Unique
<1>2. LiveLoads /\ RegistryOK => StrandedOnlyInCircle
  <2> SUFFICES ASSUME LiveLoads, RegistryOK,
                      NEW e \in live, NEW t \in e.tenancy, NEW ty \in t.params \ Ownable(t)
               PROVE  \E l \in t.list : l.claimAs = ty /\ l.owner \cap Ownable(t) = {}
    BY DEF StrandedOnlyInCircle
  <2>1. ValidTenancy(t)
    BY DEF LiveLoads, FileLoads, EntryLoads
  <2>2. IsFiniteSet(t.list)
    BY EntryTenancy DEF RegistryOK
  <2> QED
    BY <2>1, <2>2, ValidStrands
<1> QED
  BY <1>1, <1>2, TypeCorrect, StepLoads, StepRegistryOK, PTL DEF Spec

(***************************************************************************)
(* What Resolve makes of a specification (config.go:1060-1246): the        *)
(* backend gets a type, an asset without a URL the one derived for it, and *)
(* the methods their defaults, behind the ones the generator adds.         *)
(***************************************************************************)
AssetAt(a)  == [a EXCEPT !.url = IF @ = NoUrl /\ a.file THEN ArtifactUrl ELSE @]
PartOf(mp)  == [file |-> Default(mp.file, "file"), blob |-> Default(mp.blob, "blob_id"),
                max |-> IF mp.max = 0 THEN 24 ELSE mp.max]
RouteOf(r)  == [r EXCEPT !.multipart = {PartOf(mp) : mp \in @}]
MethodOf(m) == [m EXCEPT !.http = {RouteOf(r) : r \in @}]
Defaults(c) == [c EXCEPT !.backend.type = Default(@, "http"),
                         !.assets  = [i \in DOMAIN @ |-> AssetAt(@[i])],
                         !.methods = [i \in DOMAIN c.methods |-> MethodOf(c.methods[i])]]
Complete(c) == WithBalance(WithUploads(Defaults(c)))

\* Resolve, in the parts above.
LEMMA ResolveParts ==
  ASSUME NEW c
  PROVE  Resolve(c) = [Complete(c) EXCEPT !.methods = [i \in DOMAIN @ |-> ResolvedMethod(@[i])]]
  BY DEF Resolve, Complete, Defaults, AssetAt, PartOf, RouteOf, MethodOf

Fields == {"id", "version", "descr", "backend", "methods", "assets"}

\* Resolve touches the backend's type, the assets' URLs and the methods only.
Kept(d, c) == /\ DOMAIN d = Fields /\ d.id = c.id /\ d.version = c.version /\ d.descr = c.descr
              /\ d.backend = c.backend /\ d.assets = c.assets

\* What each field of a resolved specification is.
LEMMA ResolveFields ==
  ASSUME NEW c, DOMAIN c = Fields
  PROVE  LET d == Resolve(c) IN
         /\ d.id = c.id /\ d.version = c.version /\ d.descr = c.descr
         /\ d.backend = [c.backend EXCEPT !.type = Default(@, "http")]
         /\ d.assets = [i \in DOMAIN c.assets |-> AssetAt(c.assets[i])]
         /\ d.methods = [i \in DOMAIN Complete(c).methods |-> ResolvedMethod(Complete(c).methods[i])]
<1> PICK d : d = Defaults(c)
  OBVIOUS
<1>1. /\ DOMAIN d = Fields /\ d.id = c.id /\ d.version = c.version /\ d.descr = c.descr
      /\ d.backend = [c.backend EXCEPT !.type = Default(@, "http")]
      /\ d.assets = [i \in DOMAIN c.assets |-> AssetAt(c.assets[i])]
  BY DEF Defaults, Fields
<1>2. ASSUME NEW f, DOMAIN f = Fields, NEW m PROVE Kept(Added(f, m), f)
  BY <1>2 DEF Added, Kept, Fields
<1>3. ASSUME NEW f, DOMAIN f = Fields PROVE Kept(WithUploads(f), f)
  <2>1. ASSUME NEW k, NEW m, NEW n PROVE Kept(Added(Added(Added(f, k), m), n), f)
    <3>1. Kept(Added(f, k), f)
      BY <1>2, <1>3
    <3>2. Kept(Added(Added(f, k), m), f)
      BY <1>2, <3>1 DEF Kept
    <3> QED
      BY <1>2, <3>2 DEF Kept
  <2>2. Kept(f, f)
    BY <1>3 DEF Kept
  <2> QED
    BY <2>1, <2>2 DEF WithUploads
<1>4. ASSUME NEW f, DOMAIN f = Fields PROVE Kept(WithBalance(f), f)
  BY <1>2, <1>4 DEF WithBalance, Kept
<1>5. Kept(Complete(c), d)
  <2>1. Kept(WithUploads(d), d)
    BY <1>1, <1>3
  <2>2. Kept(WithBalance(WithUploads(d)), WithUploads(d))
    BY <1>4, <2>1 DEF Kept
  <2> QED
    BY <2>1, <2>2 DEF Complete, Kept
<1> QED
  BY <1>1, <1>5, ResolveParts DEF Fields, Kept

\* A specification whose methods are a sequence.
WellFormed(c) == DOMAIN c = Fields /\ c.methods \in Seq(Range(c.methods))

\* A sequence is one over the elements it has.
LEMMA OverItsRange == ASSUME NEW S, NEW x \in Seq(S) PROVE x \in Seq(Range(x)) /\ Range(x) \subseteq S
<1>0. PICK R : R = Range(x)
  OBVIOUS
<1>1. x = [i \in 1..Len(x) |-> x[i]] /\ Len(x) \in Nat
  OBVIOUS
<1>2. \A i \in 1..Len(x) : x[i] \in R
  BY <1>0 DEF Range
<1>3. R \subseteq S
  BY <1>0 DEF Range
<1>5. x \in Seq(R)
  BY <1>1, <1>2
<1> QED
  BY <1>3, <1>5, <1>0, SMT

\* Adding a method adds that method at most.
LEMMA AddedMethods ==
  ASSUME NEW c, WellFormed(c), NEW m
  PROVE  WellFormed(Added(c, m)) /\ Methods(Added(c, m)) \subseteq Methods(c) \cup {m}
<1> DEFINE x == Append(c.methods, m)
<1>1. c.methods \in Seq(Methods(c) \cup {m})
  BY DEF WellFormed, Methods
<1>2. x \in Seq(Methods(c) \cup {m})
  BY <1>1
<1>3. x \in Seq(Range(x)) /\ Range(x) \subseteq Methods(c) \cup {m}
  BY <1>2, OverItsRange
<1> HIDE DEF x
<1>4. [c EXCEPT !.methods = x].methods = x /\ DOMAIN [c EXCEPT !.methods = x] = Fields
  BY DEF WellFormed, Fields
<1>5. Added(c, m) = c \/ Added(c, m) = [c EXCEPT !.methods = x]
  BY DEF Added, x
<1> QED
  BY <1>3, <1>4, <1>5 DEF WellFormed, Methods

UploadSteps == {UploadStep("upload_begin"), UploadStep("upload_chunk"), UploadStep("upload_abort")}

\* The generator adds its upload steps and the balance at most.
LEMMA WithMethods ==
  ASSUME NEW c, WellFormed(c)
  PROVE  /\ WellFormed(WithBalance(c)) /\ WellFormed(WithUploads(c))
         /\ Methods(WithBalance(c)) \subseteq Methods(c) \cup {BalanceMethod}
         /\ Methods(WithUploads(c)) \subseteq Methods(c) \cup UploadSteps
<1>1. /\ WellFormed(WithBalance(c))
      /\ Methods(WithBalance(c)) \subseteq Methods(c) \cup {BalanceMethod}
  BY AddedMethods DEF WithBalance
<1>2. ASSUME NEW k, NEW m, NEW n
      PROVE  LET d == Added(Added(Added(c, k), m), n)
             IN  WellFormed(d) /\ Methods(d) \subseteq Methods(c) \cup {k, m, n}
  <2> DEFINE d == Added(c, k)
             e == Added(d, m)
  <2>1. WellFormed(d) /\ Methods(d) \subseteq Methods(c) \cup {k}
    BY AddedMethods
  <2> HIDE DEF d
  <2>2. WellFormed(e) /\ Methods(e) \subseteq Methods(d) \cup {m}
    BY <2>1, AddedMethods
  <2> HIDE DEF e
  <2>3. WellFormed(Added(e, n)) /\ Methods(Added(e, n)) \subseteq Methods(e) \cup {n}
    BY <2>2, AddedMethods
  <2> QED
    BY <2>1, <2>2, <2>3 DEF d, e
<1>3. WellFormed(WithUploads(c)) /\ Methods(WithUploads(c)) \subseteq Methods(c) \cup UploadSteps
  BY <1>2 DEF WithUploads, UploadSteps
<1> QED
  BY <1>1, <1>3

\* The fields of a method, and of a route.
MethodFields == {"name", "kind", "duration", "timeout", "params", "http", "cli", "local", "signup",
                 "mcp", "upload"}
RouteFields  == {"verb", "path", "in", "capture", "public", "save", "multipart"}

\* What Resolve keeps of a method: all but the defaults of its routes and steps.
LEMMA ResolvedMethodFields ==
  ASSUME NEW m, DOMAIN m = MethodFields
  PROVE  LET d == ResolvedMethod(MethodOf(m)) IN
         /\ DOMAIN d = MethodFields
         /\ d.name = m.name /\ d.cli = m.cli /\ d.local = m.local /\ d.mcp = m.mcp
         /\ d.upload = m.upload /\ d.timeout = m.timeout /\ d.params = m.params
         /\ d.kind = Default(m.kind, "utility") /\ d.duration = Default(m.duration, "fast")
         /\ d.signup = {[s EXCEPT !.step = Default(@, "register")] : s \in m.signup}
         /\ d.http = {[r EXCEPT !.verb = Default(@, "GET")] : r \in {RouteOf(r) : r \in m.http}}
<1> DEFINE e == MethodOf(m)
<1>1. /\ DOMAIN e = MethodFields /\ e.http = {RouteOf(r) : r \in m.http}
      /\ e.name = m.name /\ e.cli = m.cli /\ e.local = m.local /\ e.mcp = m.mcp
      /\ e.upload = m.upload /\ e.timeout = m.timeout /\ e.params = m.params
      /\ e.kind = m.kind /\ e.duration = m.duration /\ e.signup = m.signup
  BY DEF MethodOf, MethodFields
<1> HIDE DEF e
<1>2. LET d == ResolvedMethod(e) IN
         /\ DOMAIN d = MethodFields
         /\ d.name = e.name /\ d.cli = e.cli /\ d.local = e.local /\ d.mcp = e.mcp
         /\ d.upload = e.upload /\ d.timeout = e.timeout /\ d.params = e.params
         /\ d.kind = Default(e.kind, "utility") /\ d.duration = Default(e.duration, "fast")
         /\ d.signup = {[s EXCEPT !.step = Default(@, "register")] : s \in e.signup}
         /\ d.http = {[r EXCEPT !.verb = Default(@, "GET")] : r \in e.http}
  BY <1>1 DEF ResolvedMethod, MethodFields
<1> QED
  BY <1>1, <1>2 DEF e

\* What Resolve keeps of a route: all but the verb and the defaults of its parts.
LEMMA ResolvedRoutes ==
  ASSUME NEW r, DOMAIN r = RouteFields
  PROVE  LET d == [RouteOf(r) EXCEPT !.verb = Default(@, "GET")] IN
         /\ DOMAIN d = RouteFields /\ d.path = r.path /\ d.in = r.in /\ d.capture = r.capture
         /\ d.public = r.public /\ d.save = r.save
         /\ d.multipart = {PartOf(mp) : mp \in r.multipart}
<1> DEFINE e == RouteOf(r)
<1>1. /\ DOMAIN e = RouteFields /\ e.path = r.path /\ e.in = r.in /\ e.capture = r.capture
      /\ e.public = r.public /\ e.save = r.save
      /\ e.multipart = {PartOf(mp) : mp \in r.multipart}
  BY DEF RouteOf, RouteFields
<1> HIDE DEF e
<1>2. LET d == [e EXCEPT !.verb = Default(@, "GET")] IN
         /\ DOMAIN d = RouteFields /\ d.path = e.path /\ d.in = e.in /\ d.capture = e.capture
         /\ d.public = e.public /\ d.save = e.save /\ d.multipart = e.multipart
  BY <1>1 DEF RouteFields
<1> QED
  BY <1>1, <1>2 DEF e

\* The methods a specification is completed with: the author's, and the generator's.
LEMMA CompleteMethods ==
  ASSUME NEW c, WellFormed(c)
  PROVE  /\ WellFormed(Complete(c))
         /\ Methods(Complete(c)) \subseteq {MethodOf(m) : m \in Methods(c)} \cup UploadSteps \cup {BalanceMethod}
<1> DEFINE e == Defaults(c)
<1>1. WellFormed(e) /\ Methods(e) = {MethodOf(m) : m \in Methods(c)}
  <2> DEFINE x == c.methods
             y == [i \in DOMAIN x |-> MethodOf(x[i])]
             T == {MethodOf(m) : m \in Methods(c)}
  <2>1. e.methods = y /\ DOMAIN e = Fields
    BY DEF Defaults, WellFormed, Fields
  <2>2. Range(y) = T
    BY DEF Range, Methods
  <2>3. \A i \in DOMAIN x : MethodOf(x[i]) \in Range(y)
    BY DEF Range
  <2>4. DOMAIN x = 1..Len(x) /\ Len(x) \in Nat
    BY DEF WellFormed
  <2> HIDE DEF x, T
  <2>5. y \in Seq(Range(y))
    BY <2>3, <2>4
  <2> QED
    BY <2>1, <2>2, <2>5 DEF WellFormed, Methods, T
<1> HIDE DEF e
<1>2. /\ WellFormed(Complete(c))
      /\ Methods(Complete(c)) \subseteq Methods(e) \cup UploadSteps \cup {BalanceMethod}
  <2>1. WellFormed(WithUploads(e)) /\ Methods(WithUploads(e)) \subseteq Methods(e) \cup UploadSteps
    BY <1>1, WithMethods
  <2>2. /\ WellFormed(WithBalance(WithUploads(e)))
        /\ Methods(WithBalance(WithUploads(e))) \subseteq Methods(WithUploads(e)) \cup {BalanceMethod}
    BY <2>1, WithMethods
  <2> QED
    BY <2>1, <2>2 DEF Complete, e
<1> QED
  BY <1>1, <1>2

\* A resolved specification has an author's method, or one the generator adds.
LEMMA ResolvedMethods ==
  ASSUME NEW c, WellFormed(c), NEW d \in Methods(Resolve(c))
  PROVE  \/ \E m \in Methods(c) : d = ResolvedMethod(MethodOf(m))
         \/ \E m \in UploadSteps \cup {BalanceMethod} : d = ResolvedMethod(m)
<1>1. Methods(Resolve(c)) = {ResolvedMethod(m) : m \in Methods(Complete(c))}
  <2>1. PICK x : x = Complete(c).methods
    OBVIOUS
  <2>2. Resolve(c).methods = [i \in DOMAIN x |-> ResolvedMethod(x[i])]
    <3>1. DOMAIN c = Fields
      BY DEF WellFormed
    <3>2. Resolve(c).methods =
            [i \in DOMAIN Complete(c).methods |-> ResolvedMethod(Complete(c).methods[i])]
      BY <3>1, ResolveFields
    <3> QED
      BY <2>1, <3>2
  <2>3. Methods(Resolve(c)) = {ResolvedMethod(m) : m \in Range(x)}
    BY <2>2 DEF Methods, Range
  <2> QED
    BY <2>1, <2>3 DEF Methods
<1> QED
  BY <1>1, CompleteMethods

\* Locating an asset leaves its order and its name.
LEMMA AssetKept ==
  ASSUME NEW a \in Assets
  PROVE  AssetAt(a).order \in Int /\ AssetName(AssetAt(a)) \in Int
<1>1. ASSUME NEW u PROVE LET b == [a EXCEPT !.url = u]
                         IN  b.order = a.order /\ b.name = a.name /\ b.path = a.path
  BY DEF Assets
<1>2. a.order \in Int /\ a.name \in Nat /\ a.path.base \in Nat
  BY DEF Assets
<1> QED
  BY <1>1, <1>2 DEF AssetAt, AssetName

\* The form's fields, as a specification.
FormSpec(s) ==
  [id |-> s.id, version |-> s.version, descr |-> s.descr, backend |-> ConfigBackend(s),
   methods |-> [i \in DOMAIN s.methods |-> ConfigMethod(s, s.methods[i])], assets |-> s.assets]

\* ToConfig is Resolve of the form, field by field.
LEMMA ConfigFields ==
  ASSUME NEW s PROVE ToConfig(s) = Resolve(FormSpec(s)) /\ DOMAIN FormSpec(s) = Fields
  BY DEF ToConfig, FormSpec, Fields

\* The route of a declared method goes where the form says, and carries no file.
LEMMA ConfigRoutes ==
  ASSUME NEW m
  PROVE  LET r == ConfigRoute(m)
         IN  DOMAIN r = RouteFields /\ r.path = m.http.path /\ r.multipart = {}
  BY DEF ConfigRoute, Route, RouteFields

\* A declared method becomes a method of one route.
LEMMA ConfigBranches ==
  ASSUME NEW s, NEW m
  PROVE  LET d == ConfigMethod(s, m)
             At(route, value) == IF MethodRoute(s, m) = route THEN value ELSE {}
         IN  /\ DOMAIN d = MethodFields
             /\ d.name = m.name /\ d.kind = "" /\ d.duration = m.latency /\ d.timeout = m.timeout
             /\ d.upload = "" /\ d.mcp = {}
             /\ d.signup = At("signup", m.signup) /\ d.local = At("local", m.local)
             /\ d.cli = At("cli", {m.cli}) /\ d.http = At("http", {ConfigRoute(m)})
  BY DEF ConfigMethod, BareMethod, MethodFields

\* Its http route, if that is the one it has.
LEMMA ConfigMethods ==
  ASSUME NEW s, NEW m
  PROVE  LET d == ConfigMethod(s, m) IN
         /\ DOMAIN d = MethodFields /\ d.upload = ""
         /\ d.http # {} =>
              /\ d.http = {ConfigRoute(m)}
              /\ ~HasSignupRoute(m) /\ ~HasLocalRoute(m)
              /\ ~IsCLI(s) /\ ~(IsHybrid(s) /\ HasCLIRoute(m))
<1>1. /\ DOMAIN ConfigMethod(s, m) = MethodFields /\ ConfigMethod(s, m).upload = ""
      /\ ConfigMethod(s, m).http =
           IF MethodRoute(s, m) = "http" THEN {ConfigRoute(m)} ELSE {}
  BY ConfigBranches
<1> QED
  BY <1>1 DEF MethodRoute

\* What a form's backend becomes.
LEMMA FormBackend ==
  ASSUME NEW s
  PROVE  LET c == ToConfig(s)
             b == c.backend
         IN  /\ b.type = IF IsCLI(s) THEN "cli" ELSE IF IsHybrid(s) THEN "hybrid" ELSE "http"
             /\ Managed(c) <=> BrokerFronted(s)
             /\ BrokerFronted(s) => b.auth = s.backend.auth
             /\ b.x402 = {}
             /\ ~IsHTTP(s) => b.command = s.backend.command
             /\ IsHTTP(s) => b.baseUrl = s.backend.baseUrl
<1> PICK c : c = ToConfig(s)
  OBVIOUS
<1> PICK b : b = ConfigBackend(s)
  OBVIOUS
<1>1. /\ b.type = IF IsCLI(s) THEN "cli" ELSE IF IsHybrid(s) THEN "hybrid" ELSE "http"
      /\ b.auth \in {"managed", "provisioned"} <=> BrokerFronted(s)
      /\ BrokerFronted(s) => b.auth = s.backend.auth
      /\ b.x402 = {}
      /\ ~IsHTTP(s) => b.command = s.backend.command
      /\ IsHTTP(s) => b.baseUrl = s.backend.baseUrl
      /\ DOMAIN b = {"type", "baseUrl", "command", "auth", "brokerUrl", "urlSecret",
                     "headers", "x402", "mcp"}
  BY DEF ConfigBackend, BrokerFronted, IsHTTP, IsCLI, IsHybrid
<1>2. c.backend = [b EXCEPT !.type = Default(@, "http")]
  <2>1. PICK F : F = FormSpec(s)
    OBVIOUS
  <2>2. F.backend = b
    BY <2>1 DEF FormSpec
  <2>3. c = Resolve(F) /\ DOMAIN F = Fields
    BY <2>1, ConfigFields
  <2>4. Resolve(F).backend = [F.backend EXCEPT !.type = Default(@, "http")]
    BY <2>3, ResolveFields
  <2> QED
    BY <2>2, <2>3, <2>4
<1>3. /\ c.backend.auth = b.auth /\ c.backend.x402 = b.x402
      /\ c.backend.command = b.command /\ c.backend.baseUrl = b.baseUrl
      /\ c.backend.type = b.type
  BY <1>1, <1>2 DEF Default
<1> QED
  BY <1>1, <1>3 DEF Managed

\* A form makes a specification of its declared methods.
LEMMA FormSpecFormed ==
  ASSUME NEW s \in Submissions
  PROVE  /\ WellFormed(FormSpec(s))
         /\ Methods(FormSpec(s)) = {ConfigMethod(s, m) : m \in Declared(s)}
         /\ Declared(s) \subseteq FormMethods
<1> DEFINE x == s.methods
           y == [i \in DOMAIN x |-> ConfigMethod(s, x[i])]
<1>1. FormSpec(s).methods = y /\ DOMAIN FormSpec(s) = Fields
  BY ConfigFields DEF FormSpec
<1>2. Range(y) = {ConfigMethod(s, m) : m \in Declared(s)}
  BY DEF Range, Declared
<1>3. \A i \in DOMAIN x : ConfigMethod(s, x[i]) \in Range(y)
  BY DEF Range
<1>4. x \in Seq(FormMethods)
  BY DEF Submissions
<1>5. DOMAIN x = 1..Len(x) /\ Len(x) \in Nat /\ \A i \in DOMAIN x : x[i] \in FormMethods
  BY <1>4
<1>6. Declared(s) \subseteq FormMethods
  BY <1>5 DEF Declared, Range
<1> HIDE DEF x
<1>7. y \in Seq(Range(y))
  BY <1>3, <1>5
<1> QED
  BY <1>1, <1>2, <1>6, <1>7 DEF WellFormed, Methods

\* The cloud routes of an accepted form's adapter: those of its methods, and the balance.
LEMMA CallRoutes ==
  ASSUME NEW s \in Submissions, Accepted(s),
         NEW d \in Methods(ToConfig(s)), NEW r \in d.http
  PROVE  \/ r.path = BalancePath
         \/ \E m \in Declared(s) : HasHTTPRoute(m) /\ r.path = m.http.path
<1>1. CASE \E k \in Methods(FormSpec(s)) : d = ResolvedMethod(MethodOf(k))
  <2>1. PICK m \in Declared(s) : d = ResolvedMethod(MethodOf(ConfigMethod(s, m)))
    BY <1>1, FormSpecFormed
  <2>2. d.http = {[t EXCEPT !.verb = Default(@, "GET")] :
                    t \in {RouteOf(u) : u \in ConfigMethod(s, m).http}}
    BY <2>1, ConfigMethods, ResolvedMethodFields
  <2>3. ConfigMethod(s, m).http # {}
    BY <2>2
  <2>4. r = [RouteOf(ConfigRoute(m)) EXCEPT !.verb = Default(@, "GET")]
    <3>1. ConfigMethod(s, m).http = {ConfigRoute(m)}
      BY <2>3, ConfigMethods
    <3> QED
      BY <2>2, <3>1
  <2>5. r.path = m.http.path
    BY <2>4, ConfigRoutes, ResolvedRoutes
  <2>6. HasHTTPRoute(m)
    <3>1. SubRouteOK(s, m)
      BY DEF Accepted
    <3>2. /\ ~HasSignupRoute(m) /\ ~HasLocalRoute(m)
          /\ ~IsCLI(s) /\ ~(IsHybrid(s) /\ HasCLIRoute(m))
      BY <2>3, ConfigMethods
    <3> QED
      BY <3>1, <3>2 DEF SubRouteOK, SubHTTPOK, HasHTTPRoute
  <2> QED
    BY <2>5, <2>6
<1>2. ASSUME NEW w, d = ResolvedMethod(UploadStep(w)) PROVE FALSE
  BY <1>2 DEF UploadStep, BareMethod, ResolvedMethod
<1>3. CASE d = ResolvedMethod(BalanceMethod)
  <2>1. DOMAIN BalanceMethod = MethodFields /\ BalanceMethod.http = {Route("GET", BalancePath)}
    BY DEF BalanceMethod, BareMethod, MethodFields
  <2>2. d.http = {[t EXCEPT !.verb = Default(@, "GET")] : t \in {Route("GET", BalancePath)}}
    BY <1>3, <2>1 DEF ResolvedMethod, MethodFields
  <2>3. r = [Route("GET", BalancePath) EXCEPT !.verb = Default(@, "GET")]
    BY <2>2
  <2>4. r.path = BalancePath
    BY <2>3 DEF Route
  <2> QED
    BY <2>4
<1> QED
  BY <1>1, <1>2, <1>3, FormSpecFormed, ResolvedMethods, ConfigFields DEF UploadSteps

\* Resolved assets can be compared.
LEMMA ResolvedAssets ==
  ASSUME NEW c, DOMAIN c = Fields, c.assets \in Seq(Assets)
  PROVE  \E n \in Nat : /\ DOMAIN Resolve(c).assets = 1..n
                        /\ Comparable(Resolve(c).assets, 1..n)
<1>1. Resolve(c).assets = [i \in DOMAIN c.assets |-> AssetAt(c.assets[i])]
  BY ResolveFields
<1>2. \A i \in DOMAIN c.assets : c.assets[i] \in Assets
  OBVIOUS
<1>3. DOMAIN c.assets = 1..Len(c.assets) /\ Len(c.assets) \in Nat
  OBVIOUS
<1> QED
  BY <1>1, <1>2, <1>3, AssetKept DEF Comparable

\* So can those of a configured adapter.
LEMMA ConfigsAssets ==
  ASSUME TypeOK, NEW c \in cfg
  PROVE  \E n \in Nat : DOMAIN c.assets = 1..n /\ Comparable(c.assets, 1..n)
<1>1. CASE \E s \in Forms : c = ToConfig(s)
  <2>1. PICK s \in Forms : c = Resolve(FormSpec(s))
    BY <1>1, ConfigFields
  <2>2. FormSpec(s).assets \in Seq(Assets) /\ DOMAIN FormSpec(s) = Fields
    BY ConfigFields, FormsAssumption DEF Submissions, FormSpec
  <2> QED
    BY <2>1, <2>2, ResolvedAssets
<1>2. CASE \E spec \in Specs : c = Resolve(spec)
  BY <1>2, SpecsAssumption, ResolvedAssets DEF Authored, Fields
<1> QED
  BY <1>1, <1>2 DEF TypeOK

\* The install order is the sound order that takes the lowest `order` first, and is
\* missing only where no order is sound or two assets share a name (config.go:1742-1796).
THEOREM InstallsInOrder == Spec => []InstallOrderSound
<1>1. TypeOK => InstallOrderSound
  <2> SUFFICES ASSUME TypeOK, NEW c \in cfg, NEW plat \in AssetPlatforms(c.assets)
               PROVE  InstallsSoundly(c.assets, plat)
    BY DEF InstallOrderSound, InstallsSoundly, NamesClash, Here
  <2>1. PICK n \in Nat : DOMAIN c.assets = 1..n /\ Comparable(c.assets, 1..n)
    BY ConfigsAssets
  <2>2. Here(c.assets, plat) \subseteq 1..n
    BY <2>1 DEF Here
  <2>3. IsFiniteSet(Here(c.assets, plat))
    <3>1. IsFiniteSet(1..n)
      BY FS_Interval
    <3> QED
      BY <2>2, <3>1, FS_Subset
  <2>4. Comparable(c.assets, Here(c.assets, plat))
    BY <2>1, <2>2 DEF Comparable
  <2> QED
    BY <2>3, <2>4, AlgorithmIsSound
<1> QED
  BY <1>1, TypeCorrect, PTL

(***************************************************************************)
(* The app that is followed: what is built comes from an accepted form,    *)
(* and only a broker-fronted one is registered.                            *)
(***************************************************************************)
AppOK ==
  /\ stage # "rejected" => \A s \in form : Accepted(s)
  /\ stage \in {"built", "registered"} => cfg = {ToConfig(s) : s \in form}
  /\ stage = "registered" => \A s \in form : BrokerFronted(s)

\* These facts about the followed app last, after any step.
LEMMA StepAppOK == TypeOK /\ AppOK /\ [Next]_vars => AppOK'
<1> SUFFICES ASSUME TypeOK, AppOK, [Next]_vars PROVE AppOK'
  OBVIOUS
<1>1. CASE UNCHANGED app
  BY <1>1 DEF AppOK, app
<1>2. ASSUME NEW s \in Forms, Submit(s) PROVE AppOK'
  BY <1>2 DEF AppOK, Submit
<1>3. ASSUME NEW spec \in Specs, Author(spec) PROVE AppOK'
  BY <1>3 DEF AppOK, Author
<1>4. CASE Build
  BY <1>4 DEF AppOK, Build
<1>5. CASE Register
  <2>1. \A s \in form : BrokerFronted(s)
    BY <1>5 DEF Register, TypeOK
  <2> QED
    BY <1>5, <2>1 DEF AppOK, Register
<1>6. UNCHANGED app \/ Build \/ Register \/ (\E s \in Forms : Submit(s))
         \/ \E spec \in Specs : Author(spec)
  BY DEF Next, vars, app, SetSecret, WriteNeighbour, Reload, Restart, HostStep, FollowHint,
         AskForCloudKey, AdapterExits
<1> QED
  BY <1>1, <1>2, <1>3, <1>4, <1>5, <1>6

(***************************************************************************)
(* Texts of segments: a call's segment matches its own pattern unless a    *)
(* blank follows it or a placeholder is inside it, and then it matches     *)
(* only a placeholder.                                                     *)
(***************************************************************************)
\* A segment, and a sequence of them.
IsSegment(seg) ==
  seg.kind \in {"lit", "hole", "part"} /\ seg = [kind |-> seg.kind, text |-> seg.text]
AreSegments(segs) == segs \in Seq(Range(segs)) /\ \A i \in DOMAIN segs : IsSegment(segs[i])

TextOf(c, seg) == CASE seg.kind = "lit" \/ c.backend.type = "hybrid" -> Literally(seg)
                    [] seg.kind = "hole" /\ c.backend.type # "hybrid" -> <<"v">>
                    [] OTHER                                          -> <<"v", seg.text>>
Padded(text, pad) == IF pad THEN Append(text, " ") ELSE text

\* A call has one text for each segment of its route, the last one padded perhaps.
LEMMA CallPathShape ==
  ASSUME NEW c, NEW r, AreSegments(r.path.segs), r.path.pad \in BOOLEAN
  PROVE  LET n == Len(r.path.segs)
         IN  /\ n \in Nat /\ CallPath(c, r) \in [1..n -> Range(CallPath(c, r))]
             /\ Len(CallPath(c, r)) = n
             /\ \A i \in 1..n : CallPath(c, r)[i] =
                                  Padded(TextOf(c, r.path.segs[i]), i = n /\ r.path.pad)
<1> DEFINE n == Len(r.path.segs)
<1>1. CallPath(c, r) = [i \in 1..n |-> Padded(TextOf(c, r.path.segs[i]), i = n /\ r.path.pad)]
  BY DEF CallPath, TextOf, Padded
<1>2. n \in Nat
  BY DEF AreSegments
<1> QED
  BY <1>1, <1>2 DEF Range

\* Appending to a text of one or two pieces.
LEMMA PaddedTexts ==
  ASSUME NEW a, NEW b, NEW d
  PROVE  Append(<<a>>, b) = <<a, b>> /\ Append(<<a, d>>, b) = <<a, d, b>>
<1>1. ASSUME NEW x \in Seq({a, b, d}), Len(x) = 2 PROVE x = <<x[1], x[2]>>
  BY <1>1
<1>2. ASSUME NEW x \in Seq({a, b, d}), Len(x) = 3 PROVE x = <<x[1], x[2], x[3]>>
  BY <1>2
<1>3. Append(<<a>>, b) = <<a, b>>
  <2> DEFINE x == Append(<<a>>, b)
  <2>1. <<a>> \in Seq({a, b, d}) /\ Len(<<a>>) = 1 /\ <<a>>[1] = a
    OBVIOUS
  <2>2. x \in Seq({a, b, d}) /\ Len(x) = 2 /\ x[1] = a /\ x[2] = b
    BY <2>1
  <2> HIDE DEF x
  <2>3. x = <<a, b>>
    BY <1>1, <2>2
  <2> QED
    BY <2>3 DEF x
<1>4. Append(<<a, d>>, b) = <<a, d, b>>
  <2> DEFINE x == Append(<<a, d>>, b)
  <2>1. /\ <<a, d>> \in Seq({a, b, d}) /\ Len(<<a, d>>) = 2
        /\ <<a, d>>[1] = a /\ <<a, d>>[2] = d
    OBVIOUS
  <2>2. x \in Seq({a, b, d}) /\ Len(x) = 3 /\ x[1] = a /\ x[2] = d /\ x[3] = b
    BY <2>1
  <2> HIDE DEF x
  <2>3. x = <<a, d, b>>
    BY <1>2, <2>2
  <2> QED
    BY <2>3 DEF x
<1> QED
  BY <1>3, <1>4

\* Texts of these lengths and first parts differ.
LEMMA TextsApart ==
  ASSUME NEW x, NEW y,
         Len(x) \in {1, 3}, Len(x) = 3 => x[1] = "{",
         Len(y) \in {2, 3}, Len(y) = 3 => y[1] = "v"
  PROVE  x # y
<1> SUFFICES ASSUME x = y PROVE FALSE
  OBVIOUS
<1>1. CASE Len(x) = 3
  BY <1>1
<1>2. CASE Len(x) # 3
  BY <1>2
<1> QED
  BY <1>1, <1>2

\* The lengths of texts tell a pattern's own text from a text with a blank behind it or
\* a value in front of it.
LEMMA OwnTextLengths ==
  ASSUME NEW x, NEW a
  PROVE  /\ x = <<a>> => Len(x) \in {1, 3} /\ (Len(x) = 3 => x[1] = "{")
         /\ x = <<"{", a, "}">> => Len(x) \in {1, 3} /\ (Len(x) = 3 => x[1] = "{")
<1>1. ASSUME x = <<a>> PROVE Len(x) \in {1, 3} /\ (Len(x) = 3 => x[1] = "{")
  BY <1>1
<1>2. ASSUME x = <<"{", a, "}">> PROVE Len(x) \in {1, 3} /\ (Len(x) = 3 => x[1] = "{")
  BY <1>2
<1> QED
  BY <1>1, <1>2

\* The lengths of the texts that are no literal.
LEMMA OtherTextLengths ==
  ASSUME NEW y, NEW b
  PROVE  /\ y = <<b, " ">> => Len(y) \in {2, 3} /\ (Len(y) = 3 => y[1] = "v")
         /\ y = <<"v", b>> => Len(y) \in {2, 3} /\ (Len(y) = 3 => y[1] = "v")
         /\ y = <<"v", b, " ">> => Len(y) \in {2, 3} /\ (Len(y) = 3 => y[1] = "v")
<1>1. ASSUME y = <<b, " ">> PROVE Len(y) \in {2, 3} /\ (Len(y) = 3 => y[1] = "v")
  <2>1. Len(y) = 2
    BY <1>1
  <2> QED
    BY <2>1
<1>2. ASSUME y = <<"v", b>> PROVE Len(y) \in {2, 3} /\ (Len(y) = 3 => y[1] = "v")
  BY <1>2
<1>3. ASSUME y = <<"v", b, " ">> PROVE Len(y) \in {2, 3} /\ (Len(y) = 3 => y[1] = "v")
  <2>1. Len(y) = 3
    BY <1>3
  <2>2. y[1] = "v"
    BY <1>3
  <2> QED
    BY <2>1, <2>2
<1> QED
  BY <1>1, <1>2, <1>3

\* A pattern's own text is no text with a blank behind it or a value in front of it.
LEMMA OtherTexts ==
  ASSUME NEW a, NEW b, NEW x, NEW y,
         x = <<a>> \/ x = <<"{", a, "}">>,
         y = <<b, " ">> \/ y = <<"v", b>> \/ y = <<"v", b, " ">>
  PROVE  x # y
<1>1. Len(x) \in {1, 3} /\ (Len(x) = 3 => x[1] = "{")
  BY OwnTextLengths, Zenon
<1>2. Len(y) \in {2, 3} /\ (Len(y) = 3 => y[1] = "v")
  BY OtherTextLengths, Zenon
<1> QED
  BY <1>1, <1>2, TextsApart, Zenon

\* A plain segment's text is matched by the segment itself.
LEMMA OwnPattern ==
  ASSUME NEW c, NEW seg, IsSegment(seg), NEW pad \in BOOLEAN,
         seg.kind # "part", pad => seg.kind = "hole",
         c.backend.type = "hybrid" => seg.kind # "hole"
  PROVE  IF seg.kind = "hole" THEN Padded(TextOf(c, seg), pad) # <<"">>
                              ELSE Padded(TextOf(c, seg), pad) = Literally(seg)
<1>1. CASE seg.kind = "hole"
  <2>1. TextOf(c, seg) = <<"v">>
    BY <1>1 DEF TextOf
  <2>2. \/ Padded(TextOf(c, seg), pad) = <<"v">>
        \/ Padded(TextOf(c, seg), pad) = <<"v", " ">>
    BY <2>1, PaddedTexts DEF Padded
  <2>3. <<"">> # <<"v">> /\ <<"">> # <<"v", " ">>
    <3>1. <<"">>[1] = "" /\ <<"v">>[1] = "v"
      OBVIOUS
    <3> QED
      BY <3>1, OtherTexts
  <2> QED
    BY <1>1, <2>2, <2>3
<1>2. CASE seg.kind = "lit"
  BY <1>2 DEF TextOf, Padded, Literally
<1> QED
  BY <1>1, <1>2 DEF IsSegment

\* The text of a padded segment, or of one with a placeholder inside, is matched by no
\* other segment but a placeholder.
LEMMA SpoiltPattern ==
  ASSUME NEW c, NEW seg, IsSegment(seg), NEW pad \in BOOLEAN, NEW other, IsSegment(other),
         (pad /\ seg.kind # "hole") \/ seg.kind = "part",
         c.backend.type = "hybrid" => seg.kind # "part", other.kind # "hole"
  PROVE  Padded(TextOf(c, seg), pad) # Literally(other)
<1>1. Literally(other) = <<other.text>> \/ Literally(other) = <<"{", other.text, "}">>
  BY DEF Literally
<1>2. \/ Padded(TextOf(c, seg), pad) = <<seg.text, " ">>
      \/ Padded(TextOf(c, seg), pad) = <<"v", seg.text>>
      \/ Padded(TextOf(c, seg), pad) = <<"v", seg.text, " ">>
  <2>1. CASE seg.kind = "lit"
    <3>1. TextOf(c, seg) = <<seg.text>> /\ pad
      BY <2>1 DEF TextOf, Literally
    <3> QED
      BY <3>1, PaddedTexts DEF Padded
  <2>2. CASE seg.kind = "part"
    <3>1. TextOf(c, seg) = <<"v", seg.text>>
      BY <2>2 DEF TextOf
    <3> QED
      BY <3>1, PaddedTexts DEF Padded
  <2> QED
    BY <2>1, <2>2 DEF IsSegment
<1> QED
  BY <1>1, <1>2, OtherTexts

\* A literal's text is matched by that literal alone, or by a placeholder.
LEMMA WordPattern ==
  ASSUME NEW c, NEW seg, IsSegment(seg), NEW other, IsSegment(other),
         seg.kind = "lit", other.kind # "hole", TextOf(c, seg) = Literally(other)
  PROVE  other = seg
<1>1. TextOf(c, seg) = <<seg.text>>
  BY DEF TextOf, Literally
<1>2. other.kind # "part"
  <2>1. <<seg.text>> # <<"{", other.text, "}">>
    OBVIOUS
  <2> QED
    BY <1>1, <2>1 DEF Literally
<1>3. other.text = seg.text
  BY <1>1, <1>2 DEF Literally
<1> QED
  BY <1>2, <1>3 DEF IsSegment

\* The segments of a form, and of the balance call.
LEMMA SegmentsAre ==
  /\ \A segs \in Seq(Segments) : AreSegments(segs)
  /\ AreSegments(BalancePath.segs)
<1>1. ASSUME NEW segs \in Seq(Segments) PROVE AreSegments(segs)
  <2>1. segs \in Seq(Range(segs))
    BY OverItsRange
  <2>2. \A i \in DOMAIN segs : segs[i] \in Segments
    OBVIOUS
  <2>3. \A x \in Segments : IsSegment(x)
    BY DEF Segments, IsSegment
  <2> QED
    BY <2>1, <2>2, <2>3 DEF AreSegments
<1>2. AreSegments(BalancePath.segs)
  <2>1. PICK a : a = [kind |-> "lit", text |-> "_pilot"]
    OBVIOUS
  <2>2. PICK b : b = [kind |-> "lit", text |-> "balance"]
    OBVIOUS
  <2>3. IsSegment(a) /\ IsSegment(b)
    BY <2>1, <2>2 DEF IsSegment
  <2>4. PICK x : x = <<a, b>>
    OBVIOUS
  <2>5. BalancePath.segs = x
    BY <2>1, <2>2, <2>4 DEF BalancePath
  <2>6. x \in Seq({a, b}) /\ \A i \in DOMAIN x : x[i] \in {a, b}
    BY <2>4
  <2>7. x \in Seq(Range(x))
    BY <2>6, OverItsRange
  <2> QED
    BY <2>3, <2>5, <2>6, <2>7 DEF AreSegments
<1> QED
  BY <1>1, <1>2

\* The calls a set of patterns lets through, for a route whose own pattern is in the
\* set or which is the balance call.
LEMMA MatchedCalls ==
  ASSUME NEW c, NEW r, NEW allow, \A segs \in allow : AreSegments(segs),
         AreSegments(r.path.segs), r.path.pad \in BOOLEAN,
         r.path = BalancePath \/ r.path.segs \in allow,
         c.backend.type = "hybrid" => ~Templated(r.path.segs)
  PROVE  LET segs == r.path.segs
             path == CallPath(c, r)
         IN  (\E by \in allow : SegmentsMatch(by, path)) <=>
               \/ \E by \in allow : (\E i \in DOMAIN by : by[i].kind = "hole") /\ SegmentsMatch(by, path)
               \/ ~(\/ segs = BalancePath.segs /\ segs \notin allow
                    \/ r.path.pad /\ segs # <<>> /\ segs[Len(segs)].kind # "hole"
                    \/ \E i \in DOMAIN segs : segs[i].kind = "part")
<1> PICK segs : segs = r.path.segs
  OBVIOUS
<1> PICK path : path = CallPath(c, r)
  OBVIOUS
<1> PICK n : n = Len(segs)
  OBVIOUS
<1> DEFINE Pad(i) == i = n /\ r.path.pad
           Text(i) == Padded(TextOf(c, segs[i]), Pad(i))
<1>1. /\ n \in Nat /\ Len(path) = n /\ DOMAIN path = 1..n
      /\ DOMAIN segs = 1..n /\ \A i \in 1..n : IsSegment(segs[i])
  BY CallPathShape DEF AreSegments
<1>2. \A i \in 1..n : path[i] = Text(i)
  BY CallPathShape
<1>3. \A i \in 1..n : Pad(i) \in BOOLEAN
  OBVIOUS
<1>4. c.backend.type = "hybrid" => \A i \in 1..n : segs[i].kind \notin {"hole", "part"}
  BY <1>1 DEF Templated
<1> HIDE DEF Pad
<1>5. ASSUME ~(segs = BalancePath.segs /\ segs \notin allow),
             ~(r.path.pad /\ segs # <<>> /\ segs[Len(segs)].kind # "hole"),
             ~\E i \in DOMAIN segs : segs[i].kind = "part"
      PROVE  segs \in allow /\ SegmentsMatch(segs, path)
  <2>1. segs \in allow
    BY <1>5
  <2>2. ASSUME NEW i \in 1..n
        PROVE  IF segs[i].kind = "hole" THEN path[i] # <<"">> ELSE path[i] = Literally(segs[i])
    <3>1. segs[i].kind # "part"
      BY <1>1, <1>5
    <3>2. Pad(i) => segs[i].kind = "hole"
      <4>1. segs # <<>>
        BY <1>1
      <4> QED
        BY <1>5, <4>1 DEF Pad
    <3>3. IF segs[i].kind = "hole" THEN Text(i) # <<"">> ELSE Text(i) = Literally(segs[i])
      BY <1>1, <1>3, <1>4, <3>1, <3>2, OwnPattern
    <3> QED
      BY <1>2, <3>3
  <2> QED
    BY <1>1, <2>1, <2>2 DEF SegmentsMatch
<1>6. ASSUME NEW by \in allow, SegmentsMatch(by, path), ~\E i \in DOMAIN by : by[i].kind = "hole"
      PROVE  /\ ~(segs = BalancePath.segs /\ segs \notin allow)
             /\ ~(r.path.pad /\ segs # <<>> /\ segs[Len(segs)].kind # "hole")
             /\ ~\E i \in DOMAIN segs : segs[i].kind = "part"
  <2>1. by \in Seq(Range(by)) /\ DOMAIN by = 1..n
    <3>1. by \in Seq(Range(by))
      BY DEF AreSegments
    <3>2. Len(by) = n
      BY <1>1, <1>6 DEF SegmentsMatch
    <3> QED
      BY <3>1, <3>2
  <2>2. ASSUME NEW i \in 1..n
        PROVE  /\ IsSegment(by[i]) /\ by[i].kind # "hole" /\ Text(i) = Literally(by[i])
               /\ ~((Pad(i) /\ segs[i].kind # "hole") \/ segs[i].kind = "part")
    <3>1. /\ IsSegment(by[i]) /\ by[i].kind # "hole" /\ Text(i) = Literally(by[i])
      BY <1>2, <1>6, <2>1 DEF SegmentsMatch, AreSegments
    <3>2. IsSegment(segs[i]) /\ (c.backend.type = "hybrid" => segs[i].kind # "part")
      BY <1>1, <1>4
    <3> QED
      BY <1>3, <3>1, <3>2, SpoiltPattern
  <2>3. ~\E i \in DOMAIN segs : segs[i].kind = "part"
    BY <1>1, <2>2
  <2>4. ~(r.path.pad /\ segs # <<>> /\ segs[Len(segs)].kind # "hole")
    <3> SUFFICES ASSUME r.path.pad, segs # <<>>, segs[n].kind # "hole" PROVE FALSE
      OBVIOUS
    <3>1. n \in 1..n
      BY <1>1 DEF AreSegments
    <3> QED
      BY <2>2, <3>1 DEF Pad
  <2>5. ASSUME segs = BalancePath.segs, segs \notin allow PROVE FALSE
    <3>1. r.path = BalancePath
      BY <2>5
    <3>2. ~r.path.pad /\ \A i \in 1..n : ~Pad(i)
      BY <3>1 DEF BalancePath, Pad
    <3>3. \A i \in 1..n : segs[i].kind = "lit"
      <4>1. n = 2 /\ segs[1].kind = "lit" /\ segs[2].kind = "lit"
        BY <2>5 DEF BalancePath
      <4> QED
        BY <4>1
    <3>4. ASSUME NEW i \in 1..n PROVE by[i] = segs[i]
      <4>1. TextOf(c, segs[i]) = Literally(by[i])
        BY <2>2, <3>2 DEF Padded
      <4> QED
        BY <1>1, <2>2, <3>3, <4>1, WordPattern
    <3>5. by = segs
      BY <1>1, <2>1, <3>4 DEF AreSegments
    <3> QED
      BY <2>5, <3>5
  <2> QED
    BY <2>3, <2>4, <2>5
<1> QED
  BY <1>5, <1>6

\* The calls a provisioned app's entry answers, whatever it allows.
LEMMA ReservedCalls ==
  ASSUME NEW c, NEW r, AreSegments(r.path.segs), r.path.pad \in BOOLEAN,
         c.backend.type = "hybrid" => ~Templated(r.path.segs)
  PROVE  LET segs == r.path.segs
         IN  (\E word \in ReservedRoutes : CallPath(c, r) = <<<<word>>>>) <=>
               ~(r.path.pad \/ Len(segs) # 1 \/ segs[1].kind # "lit"
                   \/ segs[1].text \notin ReservedRoutes)
<1> PICK segs : segs = r.path.segs
  OBVIOUS
<1> PICK path : path = CallPath(c, r)
  OBVIOUS
<1> PICK n : n = Len(segs)
  OBVIOUS
<1>1. /\ n \in Nat /\ Len(path) = n /\ path \in [1..n -> Range(path)]
      /\ DOMAIN segs = 1..n /\ \A i \in 1..n : IsSegment(segs[i])
  BY CallPathShape DEF AreSegments
<1>2. n = 1 => path[1] = Padded(TextOf(c, segs[1]), r.path.pad)
  BY CallPathShape, <1>1
<1>3. ASSUME ~r.path.pad, n = 1, segs[1].kind = "lit", segs[1].text \in ReservedRoutes
      PROVE  \E word \in ReservedRoutes : path = <<<<word>>>>
  <2>1. path[1] = <<segs[1].text>>
    BY <1>2, <1>3 DEF Padded, TextOf, Literally
  <2>2. path = <<path[1]>>
    BY <1>1, <1>3
  <2> QED
    BY <1>3, <2>1, <2>2
<1>4. ASSUME NEW word \in ReservedRoutes, path = <<<<word>>>>
      PROVE  ~r.path.pad /\ n = 1 /\ segs[1].kind = "lit" /\ segs[1].text \in ReservedRoutes
  <2>1. n = 1 /\ path[1] = <<word>>
    BY <1>1, <1>4
  <2>2. IsSegment(segs[1]) /\ Padded(TextOf(c, segs[1]), r.path.pad) = <<word>>
    BY <1>1, <1>2, <2>1
  <2>3. c.backend.type = "hybrid" => segs[1].kind \notin {"hole", "part"}
    BY <1>1, <2>1 DEF Templated
  <2>4. CASE segs[1].kind = "lit"
    <3>1. TextOf(c, segs[1]) = <<segs[1].text>>
      BY <2>4 DEF TextOf, Literally
    <3>2. ~r.path.pad
      <4> SUFFICES ASSUME r.path.pad PROVE FALSE
        OBVIOUS
      <4>1. Padded(TextOf(c, segs[1]), r.path.pad) = <<segs[1].text, " ">>
        BY <3>1, PaddedTexts DEF Padded
      <4> QED
        BY <2>2, <4>1, OtherTexts, Zenon
    <3>3. segs[1].text = word
      BY <2>2, <3>1, <3>2 DEF Padded
    <3> QED
      BY <2>1, <2>4, <3>2, <3>3
  <2>5. CASE segs[1].kind = "part"
    <3>1. TextOf(c, segs[1]) = <<"v", segs[1].text>>
      BY <2>3, <2>5 DEF TextOf
    <3>2. \/ Padded(TextOf(c, segs[1]), r.path.pad) = <<"v", segs[1].text>>
          \/ Padded(TextOf(c, segs[1]), r.path.pad) = <<"v", segs[1].text, " ">>
      BY <3>1, PaddedTexts DEF Padded
    <3> QED
      BY <2>2, <3>2, OtherTexts, Zenon
  <2>6. CASE segs[1].kind = "hole"
    <3>1. TextOf(c, segs[1]) = <<"v">>
      BY <2>3, <2>6 DEF TextOf
    <3>2. CASE r.path.pad
      <4>1. Padded(TextOf(c, segs[1]), r.path.pad) = <<"v", " ">>
        BY <3>1, <3>2, PaddedTexts DEF Padded
      <4> QED
        BY <2>2, <4>1, OtherTexts, Zenon
    <3>3. CASE ~r.path.pad
      <4>1. word = "v"
        BY <2>2, <3>1, <3>3 DEF Padded
      <4> QED
        BY <4>1 DEF ReservedRoutes
    <3> QED
      BY <3>2, <3>3
  <2> QED
    BY <2>2, <2>4, <2>5, <2>6 DEF IsSegment
<1> QED
  BY <1>3, <1>4, <1>1

\* How a registered app's entry routes.
LEMMA EntryRoutes ==
  ASSUME NEW s, NEW path
  PROVE  Routed(BrokerEntry(s, AppName), path) <=>
           IF PerUserKeys(s) THEN \E word \in ReservedRoutes : path = <<<<word>>>>
                             ELSE \E segs \in AllowPaths(s) : SegmentsMatch(segs, path)
<1>1. CASE PerUserKeys(s)
  <2>1. BrokerEntry(s, AppName).provision # {}
    BY <1>1 DEF BrokerEntry, AppEntry
  <2> QED
    BY <1>1, <2>1 DEF Routed
<1>2. CASE ~PerUserKeys(s)
  <2>1. /\ BrokerEntry(s, AppName).provision = {} /\ ~BrokerEntry(s, AppName).credit
        /\ BrokerEntry(s, AppName).allow = AllowPaths(s)
    BY <1>2 DEF BrokerEntry, AppEntry
  <2> QED
    BY <1>2, <2>1 DEF Routed, Allowed
<1> QED
  BY <1>1, <1>2

\* A call of a registered app is answered, or is one of the named lapses.
LEMMA CallIsAnswered ==
  ASSUME RegistryOK, up, NEW s \in Forms, Accepted(s), BrokerFronted(s),
         BrokerEntry(s, AppName) \in live,
         NEW c, c = ToConfig(s), NEW d \in Methods(c), NEW r \in d.http
  PROVE  Answered(c, r) <=> ~CallLapse(s, c, r)
<1>1. s \in Submissions
  BY FormsAssumption
<1>2. r.path = BalancePath \/ \E m \in Declared(s) : HasHTTPRoute(m) /\ r.path = m.http.path
  BY <1>1, CallRoutes
<1>3. AreSegments(r.path.segs) /\ r.path.pad \in BOOLEAN
  <2>1. CASE r.path = BalancePath
    BY <2>1, SegmentsAre DEF BalancePath
  <2>2. ASSUME NEW m \in Declared(s), r.path = m.http.path
        PROVE  AreSegments(r.path.segs) /\ r.path.pad \in BOOLEAN
    <3>1. m.http.path \in Paths
      BY <1>1, FormSpecFormed DEF FormMethods
    <3> QED
      BY <2>2, <3>1, SegmentsAre DEF Paths
  <2> QED
    BY <1>2, <2>1, <2>2
<1>4. \A segs \in AllowPaths(s) : AreSegments(segs)
  <2>1. \A m \in Declared(s) : m.http.path \in Paths
    BY <1>1, FormSpecFormed DEF FormMethods
  <2> QED
    BY <2>1, SegmentsAre DEF AllowPaths, Paths
<1>5. r.path = BalancePath \/ r.path.segs \in AllowPaths(s)
  BY <1>2 DEF AllowPaths
<1>6. (c.backend.type = "hybrid" <=> IsHybrid(s)) /\ (Provisioned(c) <=> PerUserKeys(s))
  <2>1. /\ c.backend.type = IF IsCLI(s) THEN "cli" ELSE IF IsHybrid(s) THEN "hybrid" ELSE "http"
        /\ c.backend.auth = s.backend.auth
    BY FormBackend
  <2> QED
    BY <2>1 DEF Provisioned, PerUserKeys, BrokerFronted
<1>7. \A path : BrokerRoutes(path) <=> Routed(BrokerEntry(s, AppName), path)
  BY EntryNamed DEF BrokerRoutes, RegistryOK, Unique
<1>8. CASE c.backend.type = "hybrid" /\ (prov # "ok" \/ Templated(r.path.segs))
  BY <1>8 DEF Answered, CallLapse
<1>9. CASE ~(c.backend.type = "hybrid" /\ (prov # "ok" \/ Templated(r.path.segs)))
  <2>1. c.backend.type = "hybrid" => ~Templated(r.path.segs)
    BY <1>9
  <2>2. Answered(c, r) <=> Routed(BrokerEntry(s, AppName), CallPath(c, r))
    BY <1>7, <1>9 DEF Answered
  <2>3. CASE PerUserKeys(s)
    BY <1>3, <1>6, <1>9, <2>1, <2>2, <2>3, EntryRoutes, ReservedCalls DEF CallLapse
  <2>4. CASE ~PerUserKeys(s)
    <3>1. Answered(c, r) <=> \E segs \in AllowPaths(s) : SegmentsMatch(segs, CallPath(c, r))
      BY <2>2, <2>4, EntryRoutes
    <3>2. (\E segs \in AllowPaths(s) : SegmentsMatch(segs, CallPath(c, r))) <=>
            \/ LetThrough(s, CallPath(c, r))
            \/ ~(\/ r.path.segs = BalancePath.segs /\ r.path.segs \notin AllowPaths(s)
                 \/ r.path.pad /\ r.path.segs # <<>> /\ r.path.segs[Len(r.path.segs)].kind # "hole"
                 \/ \E i \in DOMAIN r.path.segs : r.path.segs[i].kind = "part")
      BY <1>3, <1>4, <1>5, <2>1, MatchedCalls DEF LetThrough
    <3>3. CallLapse(s, c, r) <=>
            /\ ~LetThrough(s, CallPath(c, r))
            /\ \/ r.path.segs = BalancePath.segs /\ r.path.segs \notin AllowPaths(s)
               \/ r.path.pad /\ r.path.segs # <<>> /\ r.path.segs[Len(r.path.segs)].kind # "hole"
               \/ \E i \in DOMAIN r.path.segs : r.path.segs[i].kind = "part"
      BY <1>6, <1>9, <2>4 DEF CallLapse
    <3> QED
      BY <3>1, <3>2, <3>3
  <2> QED
    BY <2>3, <2>4
<1> QED
  BY <1>8, <1>9

\* Once an app's entry is live every cloud call of its adapter is answered, but for the
\* named ones (submission.go:634-783, broker_register.go:40-119, config.go:1060-1246).
THEOREM CallsAreAnswered == Spec => []CallsAnswered
<1>1. Init => RegistryOK /\ AppOK
  BY DEF Init, RegistryOK, AppOK, Unique
<1>2. TypeOK /\ RegistryOK /\ AppOK => CallsAnswered
  <2> SUFFICES ASSUME TypeOK, RegistryOK, AppOK, NEW s \in form, NEW c \in cfg,
                      stage = "registered", up, BrokerEntry(s, AppName) \in live,
                      NEW d \in Methods(c), NEW r \in d.http
               PROVE  Answered(c, r) <=> ~CallLapse(s, c, r)
    BY DEF CallsAnswered
  <2>1. s \in Forms /\ Accepted(s) /\ BrokerFronted(s) /\ c = ToConfig(s)
    BY DEF TypeOK, AppOK
  <2> QED
    BY <2>1, CallIsAnswered
<1> QED
  BY <1>1, <1>2, TypeCorrect, StepRegistryOK, StepAppOK, PTL DEF Spec

(***************************************************************************)
(* What an adapter uses and what its manifest grants, one kind at a time.  *)
(***************************************************************************)
DialsGranted(c, h) ==
  \/ HasHTTPMethods(c) /\ h = AdapterBackendHost(c)
  \/ HasMCP(c) /\ h \in {Hostname(b.url) : b \in c.backend.mcp}
  \/ h \in SignupHosts(c)
  \/ c.assets # <<>> /\ h \in AssetHosts(c)

\* The dials and the secrets a manifest grants.
LEMMA Granted ==
  ASSUME NEW c
  PROVE  /\ \A h : <<"dial", h>> \in Grants(c) <=> DialsGranted(c, h)
         /\ <<"read", "secrets">> \in Grants(c) <=> NeedsSecrets(c) \/ Provisioned(c) \/ HasSignup(c)
         /\ <<"write", "secrets">> \in Grants(c) <=> Provisioned(c) \/ HasSignup(c)
<1>1. ASSUME NEW h PROVE <<"dial", h>> \in Grants(c) <=> DialsGranted(c, h)
  BY DEF Grants, DialsGranted
<1>2. /\ <<"read", "secrets">> \in Grants(c) <=> NeedsSecrets(c) \/ Provisioned(c) \/ HasSignup(c)
      /\ <<"write", "secrets">> \in Grants(c) <=> Provisioned(c) \/ HasSignup(c)
  BY DEF Grants
<1> QED
  BY <1>1, <1>2

\* What is granted as it is used: files of the app, stores, signatures, payments.
LEMMA GrantedAlike ==
  ASSUME NEW c
  PROVE  /\ Managed(c) \/ HasBrokerSignup(c) => <<"sign", "self">> \in Grants(c)
         /\ HasMultipart(c) => {<<"read", "blobs">>, <<"write", "blobs">>} \subseteq Grants(c)
         /\ {<<"read store", s>> : s \in StoresRead(c) \cup StoresWritten(c)} \subseteq Grants(c)
         /\ {<<"write store", s>> : s \in StoresWritten(c)} \subseteq Grants(c)
         /\ c.backend.x402 # {} => <<"call", "wallet">> \in Grants(c)
         /\ HasCLIMethods(c) => {<<"exec", n>> : n \in c.backend.command} \subseteq Grants(c)
         /\ c.assets # <<>> => {<<"read", "install">>, <<"write", "app">>} \subseteq Grants(c)
<1>1. Managed(c) \/ HasBrokerSignup(c) => <<"sign", "self">> \in Grants(c)
  BY DEF Grants
<1>2. HasMultipart(c) => {<<"read", "blobs">>, <<"write", "blobs">>} \subseteq Grants(c)
  BY DEF Grants
<1>3. {<<"read store", s>> : s \in StoresRead(c) \cup StoresWritten(c)} \subseteq Grants(c)
  BY DEF Grants
<1>4. {<<"write store", s>> : s \in StoresWritten(c)} \subseteq Grants(c)
  BY DEF Grants
<1>5. c.backend.x402 # {} => <<"call", "wallet">> \in Grants(c)
  BY DEF Grants
<1>6. HasCLIMethods(c) => {<<"exec", n>> : n \in c.backend.command} \subseteq Grants(c)
  BY DEF Grants
<1>7. c.assets # <<>> => {<<"read", "install">>, <<"write", "app">>} \subseteq Grants(c)
  BY DEF Grants
<1> QED
  BY <1>1, <1>2, <1>3, <1>4, <1>5, <1>6, <1>7

\* The hosts signup steps dial.
SignupDials(c) == UNION {Dialled(s) : s \in UNION {m.signup : m \in Methods(c)}}

\* The grants an http adapter lacks can only be a dial of a signup step or its secrets.
LEMMA HttpUses ==
  ASSUME NEW c, c.backend.type = "http"
  PROVE  Uses(c) \subseteq Grants(c) <=>
           /\ \A h \in SignupDials(c) : DialsGranted(c, h)
           /\ c.backend.headers \/ c.backend.urlSecret # "" =>
                NeedsSecrets(c) \/ Provisioned(c) \/ HasSignup(c)
<1> DEFINE A == {<<"dial", h>> : h \in SignupDials(c)}
           B == IF c.backend.headers \/ c.backend.urlSecret # "" THEN {<<"read", "secrets">>} ELSE {}
<1>1. A \subseteq Uses(c) /\ B \subseteq Uses(c)
  BY DEF Uses, SignupDials
<1>2. ASSUME NEW u \in Uses(c), u \notin A, u \notin B PROVE u \in Grants(c)
  <2>1. HasHTTPMethods(c) => DialsGranted(c, AdapterBackendHost(c))
    BY DEF DialsGranted
  <2>2. HasMCP(c) => \A b \in c.backend.mcp : DialsGranted(c, Hostname(b.url))
    BY DEF DialsGranted
  <2>3. \/ HasHTTPMethods(c) /\ u = <<"dial", AdapterBackendHost(c)>>
        \/ HasMCP(c) /\ \E b \in c.backend.mcp : u = <<"dial", Hostname(b.url)>>
        \/ (Managed(c) \/ HasBrokerSignup(c)) /\ u = <<"sign", "self">>
        \/ HasSignup(c) /\ u \in {<<"read", "secrets">>, <<"write", "secrets">>}
        \/ HasMultipart(c) /\ u \in {<<"read", "blobs">>, <<"write", "blobs">>}
        \/ u \in {<<"read store", s>> : s \in StoresRead(c) \cup StoresWritten(c)}
        \/ u \in {<<"write store", s>> : s \in StoresWritten(c)}
        \/ c.backend.x402 # {} /\ u = <<"call", "wallet">>
    BY <1>2 DEF Uses, SignupDials
  <2> QED
    BY <2>1, <2>2, <2>3, Granted, GrantedAlike
<1>3. A \subseteq Grants(c) <=> \A h \in SignupDials(c) : DialsGranted(c, h)
  BY Granted
<1>4. B \subseteq Grants(c) <=> (c.backend.headers \/ c.backend.urlSecret # "" =>
                                   NeedsSecrets(c) \/ Provisioned(c) \/ HasSignup(c))
  BY Granted
<1> HIDE DEF A, B
<1> QED
  BY <1>1, <1>2, <1>3, <1>4

\* A sequence with an element is not empty.
LEMMA NoElements == ASSUME NEW s, NEW a \in Range(s) PROVE s # <<>>
<1>1. DOMAIN <<>> = {}
  OBVIOUS
<1> QED
  BY <1>1 DEF Range

\* The hosts of the assets are granted.
LEMMA AssetsDialled ==
  ASSUME NEW c, NEW a \in Range(c.assets), Absolute(a.url) PROVE DialsGranted(c, Hostname(a.url))
<1>1. c.assets # <<>>
  BY NoElements
<1>2. Hostname(a.url) \in AssetHosts(c)
  BY DEF AssetHosts, Absolute
<1> QED
  BY <1>1, <1>2 DEF DialsGranted

\* Those a hybrid adapter lacks are the dial of its broker and the secrets it writes.
LEMMA HybridUses ==
  ASSUME NEW c, c.backend.type = "hybrid", Managed(c),
         \A a \in Range(c.assets) : Absolute(a.url)
  PROVE  Uses(c) \subseteq Grants(c) <=>
           DialsGranted(c, AdapterBackendHost(c)) /\ (Provisioned(c) \/ HasSignup(c))
<1>1. \A a \in Range(c.assets) : DialsGranted(c, Hostname(a.url))
  BY AssetsDialled
<1>2. {<<"read", "secrets">>, <<"write", "secrets">>, <<"dial", AdapterBackendHost(c)>>} \subseteq Uses(c)
  BY DEF Uses
<1>3. ASSUME NEW u \in Uses(c) 
      PROVE  \/ u = <<"read", "secrets">> \/ u = <<"write", "secrets">> \/ u = <<"sign", "self">>
             \/ u = <<"dial", AdapterBackendHost(c)>>
             \/ HasCLIMethods(c) /\ u \in {<<"exec", n>> : n \in c.backend.command}
             \/ c.assets # <<>> /\ u \in {<<"read", "install">>, <<"write", "app">>}
             \/ \E a \in Range(c.assets) : u = <<"dial", Hostname(a.url)>>
  BY DEF Uses
<1> QED
  BY <1>1, <1>2, <1>3, Granted, GrantedAlike

\* A cli adapter lacks none.
LEMMA CliUses ==
  ASSUME NEW c, c.backend.type = "cli", \A a \in Range(c.assets) : Absolute(a.url)
  PROVE  Uses(c) \subseteq Grants(c)
<1>1. \A a \in Range(c.assets) : DialsGranted(c, Hostname(a.url))
  BY AssetsDialled
<1>2. ASSUME NEW u \in Uses(c) 
      PROVE  \/ HasCLIMethods(c) /\ u \in {<<"exec", n>> : n \in c.backend.command}
             \/ c.assets # <<>> /\ u \in {<<"read", "install">>, <<"write", "app">>}
             \/ \E a \in Range(c.assets) : u = <<"dial", Hostname(a.url)>>
  BY DEF Uses
<1> QED
  BY <1>1, <1>2, Granted, GrantedAlike

\* A step the generator adds for uploads does nothing else.
Bare(m) == m.http = {} /\ m.cli = {} /\ m.local = {} /\ m.signup = {} /\ m.mcp = {}

\* What RouteOK asks of an http method, route by route.
LEMMA HttpRoutes ==
  ASSUME NEW c, NEW m, c.backend.type = "http", RouteOK(c, m), m.upload = ""
  PROVE  /\ m.local = {} \/ m.http = {}
         /\ m.signup # {} => m.http = {}
         /\ m.mcp # {} => MCPMethodOK(c, m)
         /\ m.mcp = {} /\ m.signup # {} => SignupMethodOK(c, m)
         /\ m.mcp = {} /\ m.signup = {} /\ m.local = {} => HTTPMethodOK(c, m)
  BY DEF RouteOK, HTTPRouteOK

\* The rules a valid http specification keeps for its signups and saved keys.
LEMMA ValidSignup ==
  ASSUME NEW c, Validate(c), c.backend.type = "http",
         \A m \in Methods(c) : m.upload = "" \/ Bare(m)
  PROVE  /\ HasSignup(c) => ~Managed(c)
         /\ \A h \in SignupDials(c) : h # "" /\ h \in SignupHosts(c) \cup {AdapterBackendHost(c)}
<1>1. \A m \in Methods(c) : RouteOK(c, m)
  BY DEF Validate, MethodOK
<1>2. ASSUME NEW m \in Methods(c), m.signup # {} PROVE SignupMethodOK(c, m)
  <2>1. m.upload = ""
    BY <1>2 DEF Bare
  <2>2. m.mcp = {}
    BY <1>1, <1>2, <2>1, HttpRoutes DEF MCPMethodOK
  <2> QED
    BY <1>1, <1>2, <2>1, <2>2, HttpRoutes
<1>3. ASSUME NEW m \in Methods(c), SaveKeys(m) # {} PROVE ~Managed(c)
  <2>1. PICK r \in m.http : r.save # {}
    BY <1>3 DEF SaveKeys
  <2>2. m.upload = ""
    BY <2>1 DEF Bare
  <2>3. m.mcp = {} /\ m.signup = {} /\ m.local = {}
    BY <1>1, <2>1, <2>2, HttpRoutes DEF MCPMethodOK
  <2>4. HTTPMethodOK(c, m)
    BY <1>1, <2>2, <2>3, HttpRoutes
  <2> QED
    BY <2>1, <2>4 DEF HTTPMethodOK, SaveKeyOK
<1>4. HasSignup(c) => ~Managed(c)
  BY <1>2, <1>3 DEF HasSignup, SignupMethodOK
<1>5. ASSUME NEW m \in Methods(c), NEW s \in m.signup, NEW h \in Dialled(s)
      PROVE  h # "" /\ h \in SignupHosts(c) \cup {AdapterBackendHost(c)}
  <2>1. SignupStepOK(s)
    BY <1>2 DEF SignupMethodOK
  <2>2. h # "" /\ h \in {Hostname(s.url), Hostname(s.brokerUrl)}
    BY <2>1, <1>5 DEF Dialled, SignupStepOK, Https, Absolute
  <2>3. {s.url, s.brokerUrl} \subseteq
          UNION {{t.url, t.brokerUrl} : t \in UNION {n.signup : n \in Methods(c)}}
    OBVIOUS
  <2> QED
    BY <2>2, <2>3 DEF SignupHosts
<1> QED
  BY <1>4, <1>5 DEF SignupDials

\* The uses of a valid adapter are granted, or it is one of the named lapses.
LEMMA ValidGrants ==
  ASSUME NEW c, Validate(c), \A m \in Methods(c) : m.upload = "" \/ Bare(m)
  PROVE  Uses(c) \subseteq Grants(c) <=> ~GrantLapse(c)
<1>1. BackendOK(c) /\ AssetsOK(c)
  BY DEF Validate
<1>2. \A a \in Range(c.assets) : Absolute(a.url)
  <2>1. \A a \in Range(c.assets) : c.assets # <<>>
    BY NoElements
  <2> QED
    BY <1>1, <2>1 DEF AssetsOK, AssetOK, Https
<1>3. DialsGranted(c, AdapterBackendHost(c)) <=> BackendGranted(c)
  <2>1. AdapterBackendHost(c) \notin SignupHosts(c)
    BY DEF SignupHosts
  <2>2. AssetHosts(c) # {} => c.assets # <<>>
    BY NoElements DEF AssetHosts
  <2> QED
    BY <2>1, <2>2 DEF DialsGranted, BackendGranted
<1>4. CASE c.backend.type = "cli"
  BY <1>2, <1>4, CliUses DEF GrantLapse
<1>5. CASE c.backend.type = "hybrid"
  <2>1. Managed(c)
    BY <1>1, <1>5 DEF BackendOK
  <2> QED
    BY <1>2, <1>3, <1>5, <2>1, HybridUses DEF GrantLapse
<1>6. CASE c.backend.type = "http"
  <2>1. /\ HasSignup(c) => ~Managed(c)
        /\ \A h \in SignupDials(c) : h # "" /\ h \in SignupHosts(c) \cup {AdapterBackendHost(c)}
    BY <1>6, ValidSignup
  <2>2. (\A h \in SignupDials(c) : DialsGranted(c, h)) <=>
          ~(~BackendGranted(c) /\ AdapterBackendHost(c) \in SignupDials(c))
    BY <1>3, <2>1 DEF DialsGranted
  <2>3. (c.backend.headers \/ c.backend.urlSecret # "" =>
           NeedsSecrets(c) \/ Provisioned(c) \/ HasSignup(c)) <=>
        ~(\/ c.backend.urlSecret # "" /\ ~HasSignup(c) /\ ~Provisioned(c) /\ ~NeedsSecrets(c)
          \/ c.backend.auth = "managed" /\ c.backend.headers)
    BY <2>1 DEF NeedsSecrets, Provisioned, Managed
  <2>4. AdapterBackendHost(c) \in SignupDials(c) <=>
          \E m \in Methods(c) : \E s \in m.signup : AdapterBackendHost(c) \in Dialled(s)
    BY DEF SignupDials
  <2> QED
    BY <1>6, <2>2, <2>3, <2>4, HttpUses DEF GrantLapse
<1> QED
  BY <1>1, <1>4, <1>5, <1>6 DEF BackendOK

\* Every method of a configured adapter is the author's or does nothing but an upload step.
LEMMA ConfigsMethods ==
  ASSUME TypeOK, NEW c \in cfg, NEW m \in Methods(c) PROVE m.upload = "" \/ Bare(m)
<1>1. ASSUME NEW spec, WellFormed(spec), c = Resolve(spec),
             \A k \in Methods(spec) : DOMAIN k = MethodFields /\ k.upload = ""
      PROVE  m.upload = "" \/ Bare(m)
  <2>1. ASSUME NEW k \in Methods(spec), m = ResolvedMethod(MethodOf(k)) PROVE m.upload = ""
    BY <1>1, <2>1, ResolvedMethodFields
  <2>2. ASSUME NEW w, m = ResolvedMethod(UploadStep(w)) PROVE Bare(m)
    <3>1. DOMAIN UploadStep(w) = MethodFields /\ Bare(UploadStep(w))
      BY DEF UploadStep, BareMethod, MethodFields, Bare
    <3> QED
      BY <2>2, <3>1 DEF ResolvedMethod, MethodFields, Bare
  <2>3. CASE m = ResolvedMethod(BalanceMethod)
    <3>1. DOMAIN BalanceMethod = MethodFields /\ BalanceMethod.upload = ""
      BY DEF BalanceMethod, BareMethod, MethodFields
    <3> QED
      BY <2>3, <3>1 DEF ResolvedMethod, MethodFields
  <2> QED
    BY <1>1, <2>1, <2>2, <2>3, ResolvedMethods DEF UploadSteps
<1>2. CASE \E s \in Forms : c = ToConfig(s)
  <2>1. PICK s \in Forms : c = Resolve(FormSpec(s))
    BY <1>2, ConfigFields
  <2>2. WellFormed(FormSpec(s)) /\ \A k \in Methods(FormSpec(s)) : DOMAIN k = MethodFields /\ k.upload = ""
    <3>1. s \in Submissions
      BY FormsAssumption
    <3>2. WellFormed(FormSpec(s)) /\ Methods(FormSpec(s)) = {ConfigMethod(s, k) : k \in Declared(s)}
      BY <3>1, FormSpecFormed
    <3> QED
      BY <3>2, ConfigMethods
  <2> QED
    BY <1>1, <2>1, <2>2
<1>3. CASE \E spec \in Specs : c = Resolve(spec)
  <2>1. PICK spec \in Specs : c = Resolve(spec)
    BY <1>3
  <2>2. WellFormed(spec) /\ \A k \in Methods(spec) : DOMAIN k = MethodFields /\ k.upload = ""
    BY SpecsAssumption DEF Authored, WellFormed, Fields, Methods, BareMethod, MethodFields
  <2> QED
    BY <1>1, <2>1, <2>2
<1> QED
  BY <1>2, <1>3 DEF TypeOK

\* A valid adapter dials, reads, writes, signs and pays nothing its manifest does not
\* grant, but for the named specifications (manifest.json.tmpl, config.go:449-468).
THEOREM UsesGranted == Spec => []UsesAreGranted
<1>1. TypeOK => UsesAreGranted
  BY ValidGrants, ConfigsMethods DEF UsesAreGranted
<1> QED
  BY <1>1, TypeCorrect, PTL

(***************************************************************************)
(* The adapter of an accepted form, method by method.                      *)
(***************************************************************************)
Adapted(s, m) == ResolvedMethod(MethodOf(ConfigMethod(s, m)))

\* The route of an adapted http method.
AdaptedRoute(m) == [RouteOf(ConfigRoute(m)) EXCEPT !.verb = Default(@, "GET")]

\* It goes where the form says, and is sent as the form says.
LEMMA AdaptedRoutes ==
  ASSUME NEW m
  PROVE  LET d == AdaptedRoute(m)
             r == ConfigRoute(m)
         IN  d.path = m.http.path /\ d.in = r.in /\ d.save = r.save /\ d.multipart = {}
             /\ d.verb = r.verb
<1>1. LET r == ConfigRoute(m)
      IN  DOMAIN r = RouteFields /\ r.path = m.http.path /\ r.multipart = {}
  BY ConfigRoutes
<1>2. AdaptedRoute(m).multipart = {}
  BY <1>1, ResolvedRoutes DEF AdaptedRoute
<1>3. ConfigRoute(m).verb = Default(m.http.verb, "GET")
  BY DEF ConfigRoute, Route
<1>4. RouteOf(ConfigRoute(m)).verb = ConfigRoute(m).verb /\ DOMAIN RouteOf(ConfigRoute(m)) = RouteFields
  BY <1>1 DEF RouteOf, RouteFields
<1>5. AdaptedRoute(m).verb = ConfigRoute(m).verb
  BY <1>3, <1>4 DEF AdaptedRoute, Default, RouteFields
<1> QED
  BY <1>1, <1>2, <1>5, ResolvedRoutes DEF AdaptedRoute

\* Its fields, when the form is accepted.
LEMMA AdaptedFields ==
  ASSUME NEW s, NEW m \in FormMethods, m.latency \in {"fast", "med", "slow"}
  PROVE  LET d == Adapted(s, m)
             At(route, value) == IF MethodRoute(s, m) = route THEN value ELSE {}
         IN  /\ d.name = m.name /\ d.kind = "utility" /\ d.duration = m.latency
             /\ d.timeout = m.timeout /\ d.params = ConfigMethod(s, m).params
             /\ d.upload = "" /\ d.mcp = {} /\ d.local = At("local", m.local)
             /\ d.cli = At("cli", {m.cli}) /\ d.http = At("http", {AdaptedRoute(m)})
             /\ (\A g \in m.signup : g.step # "") => d.signup = At("signup", m.signup)
<1> DEFINE At(route, value) == IF MethodRoute(s, m) = route THEN value ELSE {}
<1> PICK k : k = ConfigMethod(s, m)
  OBVIOUS
<1> PICK d : d = Adapted(s, m)
  OBVIOUS
<1>1. /\ DOMAIN k = MethodFields
      /\ k.name = m.name /\ k.kind = "" /\ k.duration = m.latency /\ k.timeout = m.timeout
      /\ k.upload = "" /\ k.mcp = {}
      /\ k.signup = At("signup", m.signup) /\ k.local = At("local", m.local)
      /\ k.cli = At("cli", {m.cli}) /\ k.http = At("http", {ConfigRoute(m)})
  BY ConfigBranches
<1>2. /\ d.name = k.name /\ d.cli = k.cli /\ d.local = k.local /\ d.mcp = k.mcp
      /\ d.upload = k.upload /\ d.timeout = k.timeout /\ d.params = k.params
      /\ d.kind = Default(k.kind, "utility") /\ d.duration = Default(k.duration, "fast")
      /\ d.signup = {[g EXCEPT !.step = Default(@, "register")] : g \in k.signup}
      /\ d.http = {[r EXCEPT !.verb = Default(@, "GET")] : r \in {RouteOf(r) : r \in k.http}}
  <2>1. d = ResolvedMethod(MethodOf(k))
    BY DEF Adapted
  <2>2. DOMAIN k = MethodFields
    BY <1>1
  <2> QED
    BY <2>1, <2>2, ResolvedMethodFields
<1>3. ASSUME \A g \in m.signup : g.step # ""
      PROVE  \A g \in m.signup : [g EXCEPT !.step = Default(@, "register")] = g
  <2>1. m.signup \subseteq [step : STRING, url : Urls, brokerUrl : Urls, secret : STRING]
    BY DEF FormMethods, Optional
  <2>2. ASSUME NEW g \in [step : STRING, url : Urls, brokerUrl : Urls, secret : STRING]
        PROVE  [g EXCEPT !.step = g.step] = g
    OBVIOUS
  <2> QED
    BY <1>3, <2>1, <2>2 DEF Default
<1>4. ASSUME \A g \in m.signup : g.step # "" PROVE d.signup = At("signup", m.signup)
  <2>1. ASSUME k.signup = m.signup PROVE d.signup = m.signup
    <3> DEFINE F(g) == [g EXCEPT !.step = Default(@, "register")]
    <3>1. d.signup = {F(g) : g \in m.signup}
      BY <1>2, <2>1
    <3>2. \A g \in m.signup : F(g) = g
      BY <1>3, <1>4
    <3> HIDE DEF F
    <3>3. d.signup \subseteq m.signup
      BY <3>1, <3>2, Zenon
    <3>4. m.signup \subseteq d.signup
      <4> SUFFICES ASSUME NEW g \in m.signup PROVE g \in d.signup
        OBVIOUS
      <4>1. F(g) \in d.signup
        BY <3>1, Zenon
      <4> QED
        BY <3>2, <4>1
    <3> QED
      BY <3>3, <3>4
  <2>2. ASSUME k.signup = {} PROVE d.signup = {}
    BY <1>2, <2>2
  <2> QED
    BY <1>1, <2>1, <2>2
<1>5. d.http = At("http", {AdaptedRoute(m)})
  <2>1. ASSUME k.http = {ConfigRoute(m)} PROVE d.http = {AdaptedRoute(m)}
    <3>1. d.http = {[r EXCEPT !.verb = Default(@, "GET")] : r \in {RouteOf(ConfigRoute(m))}}
      BY <1>2, <2>1
    <3> QED
      BY <3>1 DEF AdaptedRoute
  <2>2. ASSUME k.http = {} PROVE d.http = {}
    BY <1>2, <2>2
  <2> QED
    BY <1>1, <2>1, <2>2
<1>6. d.kind = "utility" /\ d.duration = m.latency
  BY <1>1, <1>2 DEF Default
<1> QED
  BY <1>1, <1>2, <1>4, <1>5, <1>6

\* A form has no upload methods, so none of the generator's upload steps is added.
LEMMA FormsUploadNothing ==
  ASSUME NEW s \in Submissions PROVE Complete(FormSpec(s)) = WithBalance(Defaults(FormSpec(s)))
<1> DEFINE D == Defaults(FormSpec(s))
<1>1. WellFormed(FormSpec(s)) /\ Methods(FormSpec(s)) = {ConfigMethod(s, m) : m \in Declared(s)}
  BY FormSpecFormed
<1>2. Methods(D) \subseteq {MethodOf(k) : k \in Methods(FormSpec(s))}
  <2>1. PICK x : x = FormSpec(s).methods
    OBVIOUS
  <2>2. D.methods = [i \in DOMAIN x |-> MethodOf(x[i])]
    BY <1>1, <2>1 DEF Defaults, WellFormed, Fields
  <2> HIDE DEF D
  <2>3. Range(D.methods) = {MethodOf(k) : k \in Range(x)}
    BY <2>2 DEF Range
  <2> QED
    BY <2>1, <2>3 DEF Methods
<1>3. ASSUME NEW m \in Declared(s), NEW r \in MethodOf(ConfigMethod(s, m)).http PROVE r.multipart = {}
  <2>1. PICK k : k = ConfigMethod(s, m)
    OBVIOUS
  <2>2. DOMAIN k = MethodFields /\ k.http \subseteq {ConfigRoute(m)}
    BY <2>1, ConfigBranches
  <2>3. MethodOf(k).http = {RouteOf(t) : t \in k.http}
    BY <2>2 DEF MethodOf, MethodFields
  <2>4. r = RouteOf(ConfigRoute(m))
    BY <2>1, <2>2, <2>3
  <2>5. DOMAIN ConfigRoute(m) = RouteFields /\ ConfigRoute(m).multipart = {}
    BY ConfigRoutes
  <2> QED
    BY <2>4, <2>5 DEF RouteOf, RouteFields
<1> HIDE DEF D
<1>4. ~HasMultipart(D)
  BY <1>1, <1>2, <1>3 DEF HasMultipart
<1> QED
  BY <1>4 DEF Complete, WithUploads, D

\* The methods of a form's adapter, in their order.
LEMMA FormAdapter ==
  ASSUME NEW s \in Submissions
  PROVE  LET c == ToConfig(s)
             n == Len(s.methods)
             k == Len(c.methods)
         IN  /\ n \in Nat /\ k \in Nat /\ DOMAIN s.methods = 1..n /\ DOMAIN c.methods = 1..k
             /\ \A i \in 1..n : c.methods[i] = Adapted(s, s.methods[i])
             /\ \/ k = n
                \/ /\ k = n + 1 /\ c.methods[k] = ResolvedMethod(BalanceMethod)
                   /\ Managed(c)
                   /\ \A i \in 1..n : s.methods[i].name # BalanceMethod.name
<1> PICK n : n = Len(s.methods)
  OBVIOUS
<1> PICK F : F = FormSpec(s)
  OBVIOUS
<1> PICK D : D = Defaults(F)
  OBVIOUS
<1> PICK c : c = ToConfig(s)
  OBVIOUS
<1>1. n \in Nat /\ DOMAIN s.methods = 1..n
  <2>1. s.methods \in Seq(FormMethods)
    BY DEF Submissions
  <2> QED
    BY <2>1
<1>2. DOMAIN F = Fields /\ F.methods = [i \in 1..n |-> ConfigMethod(s, s.methods[i])]
  BY <1>1, ConfigFields DEF FormSpec
<1>3. D.methods = [i \in 1..n |-> MethodOf(ConfigMethod(s, s.methods[i]))] /\ DOMAIN D = Fields
  BY <1>2 DEF Defaults, Fields
<1>4. PICK x : x = D.methods
  OBVIOUS
<1>5. /\ x \in Seq(Range(x)) /\ Len(x) = n
      /\ \A i \in 1..n : x[i] = MethodOf(ConfigMethod(s, s.methods[i]))
  <2>1. x = [i \in 1..n |-> MethodOf(ConfigMethod(s, s.methods[i]))]
    BY <1>3, <1>4
  <2>2. DOMAIN x = 1..n /\ x = [i \in 1..n |-> x[i]] /\ \A i \in 1..n : x[i] \in Range(x)
    BY <2>1 DEF Range
  <2>3. x \in Seq(Range(x))
    BY <1>1, <2>2
  <2> QED
    BY <1>1, <2>1, <2>2, <2>3
<1>6. PICK y : y = WithBalance(D).methods
  OBVIOUS
<1>7. \/ y = x
      \/ /\ y = Append(x, BalanceMethod)
         /\ Managed(D) /\ \A m \in Methods(D) : m.name # BalanceMethod.name
  BY <1>3, <1>4, <1>6 DEF WithBalance, Added, Fields
<1>8. c.methods = [i \in DOMAIN y |-> ResolvedMethod(y[i])] /\ c.backend = D.backend
  <2>1. Complete(F) = WithBalance(D)
    BY FormsUploadNothing
  <2>2. c = Resolve(F)
    BY ConfigFields
  <2>3. PICK z : z = Complete(F).methods
    OBVIOUS
  <2>5. \A e : DOMAIN e = Fields =>
          Resolve(e).methods = [i \in DOMAIN Complete(e).methods |-> ResolvedMethod(Complete(e).methods[i])]
    BY ResolveFields
  <2>6. Resolve(F).methods = [i \in DOMAIN z |-> ResolvedMethod(z[i])]
    BY <1>2, <2>3, <2>5, Zenon
  <2>4. Resolve(F).backend = D.backend
    <3>1. Resolve(F).backend = [F.backend EXCEPT !.type = Default(@, "http")]
      BY <1>2, ResolveFields
    <3>2. D.backend = [F.backend EXCEPT !.type = Default(@, "http")]
      BY <1>2 DEF Defaults, Fields
    <3> QED
      BY <3>1, <3>2
  <2> QED
    BY <1>6, <2>1, <2>2, <2>3, <2>4, <2>6
<1>9. \A i \in 1..n : x[i].name = s.methods[i].name
  <2> SUFFICES ASSUME NEW i \in 1..n PROVE x[i].name = s.methods[i].name
    OBVIOUS
  <2>0. PICK m : m = s.methods[i]
    OBVIOUS
  <2>1. PICK k : k = ConfigMethod(s, m)
    OBVIOUS
  <2>2. DOMAIN k = MethodFields /\ k.name = m.name
    BY <2>1, ConfigBranches
  <2>3. MethodOf(k).name = k.name
    BY <2>2 DEF MethodOf, MethodFields
  <2> QED
    BY <1>5, <2>0, <2>1, <2>2, <2>3
<1>10. CASE y = x
  <2>1. DOMAIN y = 1..n
    BY <1>5, <1>10
  <2>2. Len(c.methods) = n /\ DOMAIN c.methods = 1..n
    BY <1>1, <1>8, <2>1
  <2>3. \A i \in 1..n : c.methods[i] = Adapted(s, s.methods[i])
    BY <1>5, <1>8, <1>10, <2>1 DEF Adapted
  <2> QED
    BY <1>1, <2>2, <2>3
<1>11. CASE /\ y = Append(x, BalanceMethod)
            /\ Managed(D) /\ \A m \in Methods(D) : m.name # BalanceMethod.name
  <2>1. DOMAIN y = 1..(n + 1) /\ y[n + 1] = BalanceMethod /\ \A i \in 1..n : y[i] = x[i]
    BY <1>1, <1>5, <1>11
  <2>2. Len(c.methods) = n + 1 /\ DOMAIN c.methods = 1..(n + 1)
    BY <1>1, <1>8, <2>1
  <2>3. \A i \in 1..n : c.methods[i] = Adapted(s, s.methods[i])
    BY <1>1, <1>5, <1>8, <2>1 DEF Adapted
  <2>4. c.methods[n + 1] = ResolvedMethod(BalanceMethod)
    BY <1>1, <1>8, <2>1
  <2>5. Managed(c)
    BY <1>8, <1>11 DEF Managed
  <2>6. \A i \in 1..n : s.methods[i].name # BalanceMethod.name
    <3> SUFFICES ASSUME NEW i \in 1..n PROVE s.methods[i].name # BalanceMethod.name
      OBVIOUS
    <3>1. x[i] \in Methods(D)
      BY <1>4, <1>5 DEF Methods, Range
    <3> QED
      BY <1>9, <1>11, <3>1
  <2> QED
    BY <1>1, <2>2, <2>3, <2>4, <2>5, <2>6
<1> QED
  BY <1>7, <1>10, <1>11

\* The parameters of an accepted form's route pass the specification's rule, unless a
\* padded one is sent at a place the form did not check.
LEMMA FormParams ==
  ASSUME NEW s, NEW m \in FormMethods, SubParamsOK(m),
         NEW n \in DOMAIN ConfigRoute(m).in
  PROVE  LET at   == ConfigRoute(m).in[n]
             hole == n \in Placeholders(m.http.path)
         IN  (/\ at \in {"query", "path", "path_raw", "body", "body_raw", "header"}
              /\ n \in ConfigMethod(s, m).params
              /\ at \in {"path", "path_raw"} => hole)
             <=> ~(n.pad /\ at \notin {"query", "body", "body_raw", "header"})
<1> DEFINE placed == {p \in m.params : ~Unnamed(p) /\ p.in # ""}
<1>1. ConfigRoute(m).in = [k \in {ParamName(p) : p \in placed} |->
                             (CHOOSE p \in placed : ParamName(p) = k).in]
  BY DEF ConfigRoute, Route
<1>2. PICK p : p \in placed /\ ParamName(p) = n /\ ConfigRoute(m).in[n] = p.in
  <2>1. \E p \in placed : ParamName(p) = n
    BY <1>1
  <2>2. ConfigRoute(m).in[n] = (CHOOSE p \in placed : ParamName(p) = n).in
    BY <1>1
  <2> QED
    BY <2>1, <2>2, Zenon
<1>3. p \in m.params /\ ~Unnamed(p) /\ p.in # "" /\ n = [text |-> p.text, pad |-> p.pad]
  BY <1>2 DEF ParamName
<1>4. p.pad \in BOOLEAN
  BY <1>3 DEF FormMethods
<1>5. n \in ConfigMethod(s, m).params
  <2>1. ConfigMethod(s, m).params = {ParamName(q) : q \in {t \in m.params : ~Unnamed(t)}}
    BY DEF ConfigMethod, BareMethod
  <2> QED
    BY <1>2, <1>3, <2>1
<1>6. CASE ~p.pad
  <2>1. p.text # ""
    BY <1>3, <1>6 DEF Unnamed
  <2>2. /\ p.in \in {"query", "path", "path_raw", "body", "body_raw", "header"}
        /\ p.in \in {"path", "path_raw"} => p.text \in {h.text : h \in Placeholders(m.http.path)}
    BY <1>3, <2>1 DEF SubParamsOK
  <2>3. \A h \in Placeholders(m.http.path) : h = [text |-> h.text, pad |-> FALSE]
    BY DEF Placeholders
  <2>4. ASSUME p.in \in {"path", "path_raw"} PROVE n \in Placeholders(m.http.path)
    <3>1. PICK h \in Placeholders(m.http.path) : h.text = p.text
      BY <2>2, <2>4
    <3>2. n = h
      BY <1>3, <1>4, <1>6, <2>3, <3>1
    <3> QED
      BY <3>2
  <2>5. ~n.pad
    BY <1>3, <1>6
  <2> QED
    BY <1>2, <1>5, <2>2, <2>4, <2>5
<1>7. CASE p.pad
  <2>1. n.pad
    BY <1>3, <1>7
  <2>2. n \notin Placeholders(m.http.path)
    BY <2>1 DEF Placeholders
  <2> QED
    BY <1>2, <1>5, <2>1, <2>2
<1> QED
  BY <1>4, <1>6, <1>7

\* An http method the form accepts has a route Validate accepts, but for HTTPLapse.
LEMMA FormHTTP ==
  ASSUME NEW s \in Submissions, NEW m \in FormMethods, SubHTTPOK(m),
         NEW d, d.http = {AdaptedRoute(m)}, d.params = ConfigMethod(s, m).params
  PROVE  HTTPMethodOK(ToConfig(s), d) <=> ~HTTPLapse(s, m)
<1> PICK c : c = ToConfig(s)
  OBVIOUS
<1> PICK r : r = ConfigRoute(m)
  OBVIOUS
<1> PICK t : t = AdaptedRoute(m)
  OBVIOUS
<1>1. r.path = m.http.path /\ t.path = m.http.path /\ t.in = r.in /\ t.save = r.save
      /\ t.multipart = {} /\ t.verb = r.verb
  BY AdaptedRoutes, ConfigRoutes
<1>2. MultipartOK(c, t)
  BY <1>1 DEF MultipartOK
<1>3. SaveKeyOK(c, t) <=> SaveKeyOK(c, r)
  BY <1>1 DEF SaveKeyOK
<1>4. ParamsOK(d, t) <=>
        /\ Placeholders(m.http.path) \subseteq d.params
        /\ \A p \in DOMAIN r.in : ~(p.pad /\ r.in[p] \notin {"query", "body", "body_raw", "header"})
  <2>1. SubParamsOK(m)
    BY DEF SubHTTPOK
  <2>2. \A p \in DOMAIN r.in :
           (/\ r.in[p] \in {"query", "path", "path_raw", "body", "body_raw", "header"}
            /\ p \in d.params
            /\ r.in[p] \in {"path", "path_raw"} => p \in Placeholders(m.http.path))
           <=> ~(p.pad /\ r.in[p] \notin {"query", "body", "body_raw", "header"})
    BY <2>1, FormParams
  <2> QED
    BY <1>1, <2>2 DEF ParamsOK
<1>5. HTTPMethodOK(c, d) <=>
        /\ t.path.abs /\ t.verb \in {"GET", "POST", "PATCH", "PUT", "DELETE"}
        /\ MultipartOK(c, t) /\ SaveKeyOK(c, t) /\ ParamsOK(d, t)
  BY DEF HTTPMethodOK
<1>6. t.path.abs
  BY <1>1 DEF SubHTTPOK
<1>7. HTTPLapse(s, m) <=>
        \/ r.verb \notin {"GET", "POST", "PATCH", "PUT", "DELETE"}
        \/ ~SaveKeyOK(c, r)
        \/ ~(Placeholders(m.http.path) \subseteq d.params)
        \/ \E p \in DOMAIN r.in : p.pad /\ r.in[p] \notin {"query", "body", "body_raw", "header"}
  BY DEF HTTPLapse
<1> QED
  BY <1>1, <1>2, <1>3, <1>4, <1>5, <1>6, <1>7

\* The faults by which a declared method's route fails.
LEMMA FormRoute ==
  ASSUME NEW s \in Submissions, Accepted(s), NEW m \in Declared(s)
  PROVE  RouteOK(ToConfig(s), Adapted(s, m)) <=> ~RouteLapse(s, m)
<1> PICK c : c = ToConfig(s)
  OBVIOUS
<1> PICK d : d = Adapted(s, m)
  OBVIOUS
<1> DEFINE At(route, value) == IF MethodRoute(s, m) = route THEN value ELSE {}
<1>1. m \in FormMethods /\ m.latency \in {"fast", "med", "slow"} /\ SubRouteOK(s, m)
  BY FormSpecFormed DEF Accepted
<1>2. /\ d.params = ConfigMethod(s, m).params
      /\ d.upload = "" /\ d.mcp = {} /\ d.local = At("local", m.local)
      /\ d.cli = At("cli", {m.cli}) /\ d.http = At("http", {AdaptedRoute(m)})
      /\ (\A g \in m.signup : g.step # "") => d.signup = At("signup", m.signup)
  BY <1>1, AdaptedFields
<1>3. /\ c.backend.type = IF IsCLI(s) THEN "cli" ELSE IF IsHybrid(s) THEN "hybrid" ELSE "http"
      /\ Managed(c) <=> BrokerFronted(s)
  BY FormBackend
<1>4. ConfigMethod(s, m).http = At("http", {ConfigRoute(m)})
  BY ConfigBranches
<1>5. /\ HasSignupRoute(m) => MethodRoute(s, m) = "signup"
      /\ ~HasSignupRoute(m) /\ HasLocalRoute(m) => MethodRoute(s, m) = "local"
  BY DEF MethodRoute
<1>6. MethodRoute(s, m) = "http" =>
        (SubHTTPOK(m) => (HTTPMethodOK(c, d) <=> ~HTTPLapse(s, m)))
  BY <1>1, <1>2, FormHTTP
<1>7. CASE IsCLI(s)
  <2>1. d.http = {} /\ ConfigMethod(s, m).http = {} /\ ~BrokerFronted(s) /\ ~IsHTTP(s)
    BY <1>2, <1>4, <1>7 DEF MethodRoute, BrokerFronted, IsHTTP
  <2>2. RouteOK(c, d) <=> CLIMethodOK(d)
    BY <1>3, <1>7 DEF RouteOK
  <2>3. SubCLIOK(m)
    BY <1>1, <1>7 DEF SubRouteOK, IsCLI, IsHybrid
  <2>4. CASE HasSignupRoute(m) \/ HasLocalRoute(m)
    <3>1. d.cli = {}
      BY <1>2, <1>5, <2>4
    <3> QED
      BY <2>1, <2>2, <2>4, <3>1 DEF CLIMethodOK, RouteLapse
  <2>5. CASE ~HasSignupRoute(m) /\ ~HasLocalRoute(m)
    <3>1. d.cli = {m.cli}
      BY <1>2, <1>7, <2>5 DEF MethodRoute
    <3> QED
      BY <2>1, <2>2, <2>3, <2>5, <3>1 DEF CLIMethodOK, SubCLIOK, RouteLapse
  <2> QED
    BY <2>4, <2>5
<1>8. CASE IsHybrid(s)
  <2>1. ~IsHTTP(s) /\ ~IsCLI(s) /\ (RouteOK(c, d) <=> HybridRouteOK(c, d))
    BY <1>3, <1>8 DEF RouteOK, IsHTTP, IsCLI, IsHybrid
  <2>2. IF HasCLIRoute(m) THEN ~HasHTTPRoute(m) /\ SubCLIOK(m) ELSE SubHTTPOK(m)
    BY <1>1, <1>8, <2>1 DEF SubRouteOK
  <2>3. CASE HasSignupRoute(m) \/ HasLocalRoute(m)
    <3>1. d.http = {} /\ d.cli = {}
      BY <1>2, <1>5, <2>3
    <3> QED
      BY <2>1, <2>3, <3>1 DEF HybridRouteOK, CLIMethodOK, RouteLapse
  <2>4. CASE ~HasSignupRoute(m) /\ ~HasLocalRoute(m) /\ HasCLIRoute(m)
    <3>1. MethodRoute(s, m) = "cli"
      BY <1>8, <2>4 DEF MethodRoute
    <3>2. d.cli = {m.cli} /\ d.http = {} /\ ConfigMethod(s, m).http = {}
      BY <1>2, <1>4, <3>1
    <3> QED
      BY <2>1, <2>2, <2>4, <3>2 DEF HybridRouteOK, CLIMethodOK, SubCLIOK, RouteLapse
  <2>5. CASE ~HasSignupRoute(m) /\ ~HasLocalRoute(m) /\ ~HasCLIRoute(m)
    <3>1. MethodRoute(s, m) = "http"
      BY <2>1, <2>5 DEF MethodRoute
    <3>2. d.cli = {} /\ d.http # {} /\ ConfigMethod(s, m).http # {}
      BY <1>2, <1>4, <3>1
    <3>3. HTTPMethodOK(c, d) <=> ~HTTPLapse(s, m)
      BY <1>6, <2>2, <2>5, <3>1
    <3> QED
      BY <2>1, <2>5, <3>2, <3>3 DEF HybridRouteOK, RouteLapse
  <2> QED
    BY <2>3, <2>4, <2>5
<1>9. CASE ~IsCLI(s) /\ ~IsHybrid(s)
  <2>1. IsHTTP(s) /\ (RouteOK(c, d) <=> HTTPRouteOK(c, d))
    BY <1>3, <1>9 DEF RouteOK, IsHTTP
  <2>2. IF HasSignupRoute(m) THEN SubSignupOK(m)
        ELSE IF HasLocalRoute(m) THEN SubLocalOK(m) ELSE SubHTTPOK(m)
    BY <1>1, <1>9 DEF SubRouteOK
  <2>3. CASE HasSignupRoute(m)
    <3>1. \A g \in m.signup : SignupStepOK(g) /\ g.step # ""
      <4>1. \A g \in m.signup : SignupStepOK(g)
        BY <2>2, <2>3 DEF SubSignupOK
      <4>2. ASSUME NEW g, g.step = "" PROVE ~SignupStepOK(g)
        BY <4>2 DEF SignupStepOK
      <4> QED
        BY <4>1, <4>2
    <3>2. /\ d.signup = m.signup /\ m.signup # {}
          /\ d.http = {} /\ d.local = {} /\ d.cli = {} /\ ConfigMethod(s, m).http = {}
      BY <1>2, <1>4, <1>5, <2>3, <3>1 DEF HasSignupRoute
    <3>3. HTTPRouteOK(c, d) <=> ~Managed(c)
      BY <1>2, <3>1, <3>2 DEF HTTPRouteOK, SignupMethodOK
    <3> QED
      BY <1>3, <2>1, <2>3, <3>2, <3>3 DEF RouteLapse
  <2>4. CASE ~HasSignupRoute(m) /\ HasLocalRoute(m)
    <3>1. \A g \in m.signup : g.step # ""
      BY <2>4 DEF HasSignupRoute
    <3>2. /\ d.signup = {} /\ d.local = m.local
          /\ d.http = {} /\ d.cli = {} /\ ConfigMethod(s, m).http = {}
      BY <1>2, <1>4, <1>5, <2>4, <3>1
    <3>3. m.local # {} /\ "" \notin m.local
      BY <1>1, <2>4 DEF HasLocalRoute, FormMethods, Optional
    <3>4. HTTPRouteOK(c, d)
      BY <1>2, <3>2, <3>3 DEF HTTPRouteOK, LocalMethodOK
    <3> QED
      BY <2>1, <2>4, <3>2, <3>4 DEF RouteLapse
  <2>5. CASE ~HasSignupRoute(m) /\ ~HasLocalRoute(m)
    <3>1. \A g \in m.signup : g.step # ""
      BY <2>5 DEF HasSignupRoute
    <3>2. MethodRoute(s, m) = "http"
      BY <1>9, <2>5 DEF MethodRoute
    <3>3. d.signup = {} /\ d.local = {} /\ ConfigMethod(s, m).http # {}
      BY <1>2, <1>4, <3>1, <3>2
    <3>4. HTTPRouteOK(c, d) <=> HTTPMethodOK(c, d)
      BY <1>2, <3>3 DEF HTTPRouteOK
    <3>5. HTTPMethodOK(c, d) <=> ~HTTPLapse(s, m)
      BY <1>6, <2>2, <2>5, <3>2
    <3> QED
      BY <2>1, <2>5, <3>3, <3>4, <3>5 DEF RouteLapse
  <2> QED
    BY <2>3, <2>4, <2>5
<1> QED
  BY <1>7, <1>8, <1>9

\* A declared method passes Validate, but for its lapses.
LEMMA FormMethod ==
  ASSUME NEW s \in Submissions, Accepted(s), NEW m \in Declared(s)
  PROVE  MethodOK(ToConfig(s), Adapted(s, m)) <=>
           /\ m.name.pad # "lead" /\ m.name # OwnName("help") /\ m.timeout # "bad"
           /\ ~RouteLapse(s, m)
<1> PICK d : d = Adapted(s, m)
  OBVIOUS
<1>1. m \in FormMethods /\ m.latency \in {"fast", "med", "slow"} /\ m.name.own
  BY FormSpecFormed DEF Accepted
<1>2. d.name = m.name /\ d.kind = "utility" /\ d.duration = m.latency /\ d.timeout = m.timeout
  BY <1>1, AdaptedFields
<1>3. RouteOK(ToConfig(s), d) <=> ~RouteLapse(s, m)
  BY FormRoute
<1> QED
  BY <1>1, <1>2, <1>3 DEF MethodOK

\* The balance method the generator adds passes Validate.
LEMMA BalancePasses ==
  ASSUME NEW c, c.backend.type \in {"http", "hybrid"}
  PROVE  /\ MethodOK(c, ResolvedMethod(BalanceMethod))
         /\ ResolvedMethod(BalanceMethod).cli = {}
         /\ ResolvedMethod(BalanceMethod).name = BalanceMethod.name
<1> PICK b : b = BalanceMethod
  OBVIOUS
<1> PICK d : d = ResolvedMethod(b)
  OBVIOUS
<1> PICK r : r = Route("GET", BalancePath)
  OBVIOUS
<1>1. /\ DOMAIN b = MethodFields /\ b.name = OwnName("balance") /\ b.kind = "meta"
      /\ b.duration = "" /\ b.timeout = "" /\ b.params = {} /\ b.http = {r} /\ b.cli = {}
      /\ b.local = {} /\ b.signup = {} /\ b.mcp = {} /\ b.upload = ""
  BY DEF BalanceMethod, BareMethod, MethodFields
<1>2. /\ d.name = b.name /\ d.cli = b.cli /\ d.local = b.local /\ d.mcp = b.mcp
      /\ d.upload = b.upload /\ d.timeout = b.timeout /\ d.params = b.params
      /\ d.kind = Default(b.kind, "utility") /\ d.duration = Default(b.duration, "fast")
      /\ d.signup = {[s EXCEPT !.step = Default(@, "register")] : s \in b.signup}
      /\ d.http = {[t EXCEPT !.verb = Default(@, "GET")] : t \in b.http}
  BY <1>1 DEF ResolvedMethod, MethodFields
<1>3. /\ DOMAIN r = RouteFields /\ r.verb = "GET" /\ r.path = BalancePath /\ r.in = <<>>
      /\ r.save = {} /\ r.multipart = {}
  BY DEF Route, RouteFields
<1> DEFINE V(u) == [u EXCEPT !.verb = Default(@, "GET")]
           W(g) == [g EXCEPT !.step = Default(@, "register")]
<1> PICK t : t = V(r)
  OBVIOUS
<1>4. d.http = {t} /\ d.signup = {}
  <2>1. d.http = {V(u) : u \in {r}} /\ d.signup = {W(g) : g \in {}}
    BY <1>1, <1>2
  <2> HIDE DEF V, W
  <2>2. {V(u) : u \in {r}} = {t} /\ {W(g) : g \in {}} = {}
    OBVIOUS
  <2> QED
    BY <2>1, <2>2
<1>5. /\ d.http = {t} /\ t.verb = "GET" /\ t.path = BalancePath /\ t.in = <<>>
      /\ t.save = {} /\ t.multipart = {}
  BY <1>3, <1>4 DEF Default, RouteFields
<1> HIDE DEF V, W
<1>6. Placeholders(BalancePath) = {}
  <2>1. BalancePath.segs = <<[kind |-> "lit", text |-> "_pilot"], [kind |-> "lit", text |-> "balance"]>>
    BY DEF BalancePath
  <2>2. \A i \in DOMAIN BalancePath.segs : BalancePath.segs[i].kind = "lit"
    BY <2>1
  <2> QED
    BY <2>2 DEF Placeholders
<1>7. DOMAIN t.in = {} /\ t.path.abs
  BY <1>5 DEF BalancePath
<1>8. HTTPMethodOK(c, d)
  BY <1>5, <1>6, <1>7 DEF HTTPMethodOK, MultipartOK, SaveKeyOK, ParamsOK
<1>9. RouteOK(c, d)
  BY <1>1, <1>2, <1>4, <1>8 DEF RouteOK, HybridRouteOK, HTTPRouteOK
<1>10. d.name = OwnName("balance") /\ d.name # OwnName("help") /\ d.name.own /\ d.name.pad = "no"
  <2>1. d.name = OwnName("balance")
    BY <1>1, <1>2
  <2>2. OwnName("balance").word = "balance" /\ OwnName("help").word = "help"
        /\ OwnName("balance").own /\ OwnName("balance").pad = "no"
    BY DEF OwnName
  <2> QED
    BY <2>1, <2>2
<1> QED
  BY <1>1, <1>2, <1>9, <1>10 DEF MethodOK, Default

\* Whether an order exists does not depend on where the assets come from.
LEMMA InstallsAlike ==
  ASSUME NEW n \in Nat, NEW a, NEW b, DOMAIN a = 1..n, DOMAIN b = 1..n,
         Comparable(a, 1..n), Comparable(b, 1..n), NEW plat,
         \A i \in 1..n : /\ b[i].plat = a[i].plat /\ b[i].deps = a[i].deps
                         /\ AssetName(b[i]) = AssetName(a[i])
  PROVE  ResolveAssets(a, plat) = {} <=> ResolveAssets(b, plat) = {}
<1>1. Here(a, plat) = Here(b, plat) /\ Here(a, plat) \subseteq 1..n
  BY DEF Here
<1> PICK H : H = Here(a, plat)
  OBVIOUS
<1>2. IsFiniteSet(H)
  <2>1. IsFiniteSet(1..n)
    BY FS_Interval
  <2> QED
    BY <1>1, <2>1, FS_Subset
<1>3. InstallsSoundly(a, plat) /\ InstallsSoundly(b, plat)
  <2>1. Comparable(a, H) /\ Comparable(b, H)
    BY <1>1 DEF Comparable
  <2> QED
    BY <1>1, <1>2, <2>1, AlgorithmIsSound
<1>4. NamesClash(a, plat) <=> NamesClash(b, plat)
  BY <1>1 DEF NamesClash
<1>5. SoundOrders(a, plat) = SoundOrders(b, plat)
  <2>1. ASSUME NEW x, NEW y, DOMAIN x = 1..n, DOMAIN y = 1..n, Here(x, plat) = H, Here(y, plat) = H,
               \A i \in 1..n : x[i].deps = y[i].deps /\ AssetName(x[i]) = AssetName(y[i]),
               NEW o \in SoundOrders(x, plat)
        PROVE  o \in SoundOrders(y, plat)
    <3>1. /\ o \in [1..Cardinality(H) -> H] /\ Range(o) = H
          /\ \A k \in DOMAIN o :
                x[o[k]].deps \subseteq {AssetName(x[o[j]]) : j \in 1..(k - 1)}
      BY <2>1 DEF SoundOrders, Here
    <3>2. ASSUME NEW k \in DOMAIN o
          PROVE  y[o[k]].deps \subseteq {AssetName(y[o[j]]) : j \in 1..(k - 1)}
      <4>1. Cardinality(H) \in Nat
        BY <1>2, FS_CardinalityType
      <4>2. k \in 1..Cardinality(H) /\ o[k] \in 1..n /\ \A j \in 1..(k - 1) : o[j] \in 1..n
        BY <1>1, <3>1, <4>1
      <4> SUFFICES ASSUME NEW z \in y[o[k]].deps
                   PROVE  \E j \in 1..(k - 1) : z = AssetName(y[o[j]])
        OBVIOUS
      <4>3. z \in x[o[k]].deps
        BY <2>1, <4>2
      <4>4. PICK j \in 1..(k - 1) : z = AssetName(x[o[j]])
        BY <3>1, <4>3
      <4> QED
        BY <2>1, <4>2, <4>4
    <3> QED
      BY <2>1, <3>1, <3>2 DEF SoundOrders, Here
  <2>2. SoundOrders(a, plat) \subseteq SoundOrders(b, plat)
    BY <1>1, <2>1
  <2>3. SoundOrders(b, plat) \subseteq SoundOrders(a, plat)
    BY <1>1, <2>1
  <2> QED
    BY <2>2, <2>3
<1>6. ResolveAssets(a, plat) = {} <=> NamesClash(a, plat) \/ SoundOrders(a, plat) = {}
  BY <1>3 DEF InstallsSoundly
<1>7. ResolveAssets(b, plat) = {} <=> NamesClash(b, plat) \/ SoundOrders(b, plat) = {}
  BY <1>3 DEF InstallsSoundly
<1> QED
  BY <1>4, <1>5, <1>6, <1>7

\* A sequence of no length is empty.
LEMMA NothingListed == ASSUME NEW S, NEW x \in Seq(S), Len(x) = 0 PROVE x = <<>>
  OBVIOUS

\* The assets of an accepted form pass Validate, but for their lapses.
LEMMA FormAssets ==
  ASSUME NEW s \in Submissions, Accepted(s)
  PROVE  AssetsOK(ToConfig(s)) <=> ~AssetLapse(s)
<1> PICK a : a = s.assets
  OBVIOUS
<1> PICK c : c = ToConfig(s)
  OBVIOUS
<1> PICK b : b = c.assets
  OBVIOUS
<1> PICK n : n = Len(a)
  OBVIOUS
<1>1. a \in Seq(Assets) /\ n \in Nat /\ DOMAIN a = 1..n
  BY DEF Submissions
<1>2. b = [i \in 1..n |-> AssetAt(a[i])]
  <2>1. PICK F : F = FormSpec(s)
    OBVIOUS
  <2>2. F.assets = a
    BY <2>1 DEF FormSpec
  <2>3. c = Resolve(F) /\ DOMAIN F = Fields
    BY <2>1, ConfigFields
  <2>4. Resolve(F).assets = [i \in DOMAIN F.assets |-> AssetAt(F.assets[i])]
    BY <2>3, ResolveFields
  <2> QED
    BY <1>1, <2>2, <2>3, <2>4
<1>3. ASSUME NEW i \in 1..n
      PROVE  /\ b[i].role = a[i].role /\ b[i].unpack = a[i].unpack /\ b[i].sha = a[i].sha
             /\ b[i].plat = a[i].plat /\ b[i].order = a[i].order /\ b[i].deps = a[i].deps
             /\ b[i].path = a[i].path /\ b[i].name = a[i].name
             /\ b[i].url = IF a[i].url = NoUrl /\ a[i].file THEN ArtifactUrl ELSE a[i].url
             /\ AssetName(b[i]) = AssetName(a[i])
             /\ a[i].order \in Int /\ AssetName(a[i]) \in Int
  <2>1. PICK x : x = a[i]
    OBVIOUS
  <2>2. x \in Assets /\ b[i] = AssetAt(x)
    BY <1>1, <1>2, <2>1
  <2>3. ASSUME NEW u
        PROVE  LET y == [x EXCEPT !.url = u]
               IN  /\ y.role = x.role /\ y.unpack = x.unpack /\ y.sha = x.sha
                   /\ y.plat = x.plat /\ y.order = x.order /\ y.deps = x.deps
                   /\ y.path = x.path /\ y.name = x.name /\ y.url = u
    BY <2>2 DEF Assets
  <2>4. x.order \in Int /\ x.name \in Nat /\ x.path.base \in Nat
    BY <2>2 DEF Assets
  <2> QED
    BY <2>1, <2>2, <2>3, <2>4 DEF AssetAt, AssetName
<1>4. Range(a) = {a[i] : i \in 1..n} /\ Range(b) = {b[i] : i \in 1..n} /\ DOMAIN b = 1..n
  BY <1>1, <1>2 DEF Range
<1>5. Installable(c) <=> Installable(s)
  <2>1. AssetPlatforms(b) = AssetPlatforms(a)
    BY <1>3, <1>4 DEF AssetPlatforms
  <2>2. Comparable(a, 1..n) /\ Comparable(b, 1..n)
    BY <1>3 DEF Comparable
  <2>3. \A p : ResolveAssets(a, p) = {} <=> ResolveAssets(b, p) = {}
    <3>1. \A i \in 1..n : /\ b[i].plat = a[i].plat /\ b[i].deps = a[i].deps
                          /\ AssetName(b[i]) = AssetName(a[i])
      BY <1>3
    <3> QED
      BY <1>1, <1>4, <2>2, <3>1, InstallsAlike
  <2> QED
    BY <2>1, <2>3 DEF Installable
<1>6. CASE n = 0
  <2>1. a = <<>> /\ b = <<>>
    <3>1. a = <<>>
      BY <1>1, <1>6, NothingListed
    <3>2. b = <<>>
      <4>1. b \in Seq(Range(b)) /\ Len(b) = 0
        BY <1>2, <1>4, <1>6
      <4> QED
        BY <4>1, NothingListed
    <3> QED
      BY <3>1, <3>2
  <2>2. Range(a) = {} /\ DOMAIN a = {}
    BY <1>1, <1>4, <1>6
  <2>3. ~AssetLapse(s)
    BY <2>2 DEF AssetLapse, Installable, AssetPlatforms
  <2> QED
    BY <2>1, <2>3 DEF AssetsOK
<1>7. CASE n # 0
  <2>1. a # <<>> /\ b # <<>>
    <3>1. DOMAIN <<>> = {} /\ 1 \in 1..n
      BY <1>1, <1>7
    <3> QED
      BY <1>1, <1>4, <3>1
  <2>2. /\ ~IsHTTP(s)
        /\ \A i \in 1..n : SubArtifactOK(a[i])
        /\ \A i, j \in 1..n : i # j /\ a[i].plat = a[j].plat => a[i].order # a[j].order
    BY <1>1, <1>4, <2>1 DEF Accepted, SubArtifactsOK
  <2>3. c.backend.type \in {"cli", "hybrid"}
    BY <2>2, FormBackend DEF IsHTTP
  <2>4. ASSUME NEW i \in 1..n PROVE AssetOK(b[i]) <=> a[i].url.ok
    <3>1. SubArtifactOK(a[i])
      BY <2>2
    <3>2. NoUrl.ok /\ Https(ArtifactUrl)
      BY DEF NoUrl, ArtifactUrl, Https, Absolute, Hostname
    <3>3. Https(b[i].url) <=> a[i].url.ok
      <4>1. CASE a[i].url = NoUrl
        <5>1. b[i].url = ArtifactUrl
          BY <1>3, <3>1, <4>1 DEF SubArtifactOK
        <5> QED
          BY <3>2, <4>1, <5>1
      <4>2. CASE a[i].url # NoUrl
        <5>1. PICK u : u = a[i].url
          OBVIOUS
        <5>2. b[i].url = u /\ u.scheme = "https" /\ u.host # ""
          BY <1>3, <3>1, <4>2, <5>1 DEF SubArtifactOK
        <5> QED
          BY <5>1, <5>2 DEF Https, Absolute, Hostname
      <4> QED
        BY <4>1, <4>2
    <3> QED
      BY <1>3, <3>1, <3>3 DEF SubArtifactOK, AssetOK
  <2>5. AssetsOK(c) <=>
          /\ \A i \in 1..n : AssetOK(b[i])
          /\ \A i, j \in 1..n : i # j /\ b[i].plat = b[j].plat =>
                b[i].order # b[j].order /\ b[i].path # b[j].path
          /\ Installable(c)
    BY <1>4, <2>1, <2>3 DEF AssetsOK
  <2>6. AssetLapse(s) <=>
          \/ \E i \in 1..n : ~a[i].url.ok
          \/ \E i, j \in 1..n : i # j /\ a[i].plat = a[j].plat /\ a[i].path = a[j].path
          \/ ~Installable(s)
    BY <1>1, <1>4 DEF AssetLapse
  <2> QED
    BY <1>3, <1>5, <2>2, <2>4, <2>5, <2>6
<1> QED
  BY <1>6, <1>7

\* The methods of an accepted form's adapter have names of their own.
LEMMA FormNames ==
  ASSUME NEW s \in Submissions, Accepted(s)
  PROVE  LET c == ToConfig(s)
         IN  /\ c.methods # <<>>
             /\ \A i, j \in DOMAIN c.methods : i # j => c.methods[i].name # c.methods[j].name
<1> PICK c : c = ToConfig(s)
  OBVIOUS
<1> PICK n : n = Len(s.methods)
  OBVIOUS
<1> PICK k : k = Len(c.methods)
  OBVIOUS
<1>1. /\ n \in Nat /\ k \in Nat /\ DOMAIN s.methods = 1..n /\ DOMAIN c.methods = 1..k
      /\ \A i \in 1..n : c.methods[i] = Adapted(s, s.methods[i])
      /\ \/ k = n
         \/ /\ k = n + 1 /\ c.methods[k] = ResolvedMethod(BalanceMethod)
            /\ Managed(c)
            /\ \A i \in 1..n : s.methods[i].name # BalanceMethod.name
  BY FormAdapter
<1>2. n # 0
  <2>1. s.methods \in Seq(FormMethods) /\ s.methods # <<>>
    BY DEF Submissions, Accepted
  <2> QED
    BY <2>1, NothingListed
<1>3. c.methods # <<>>
  <2>1. DOMAIN <<>> = {} /\ 1 \in 1..k
    BY <1>1, <1>2
  <2> QED
    BY <1>1, <2>1
<1>4. ASSUME NEW i \in 1..n PROVE c.methods[i].name = s.methods[i].name
  <2>1. PICK m : m = s.methods[i]
    OBVIOUS
  <2>2. m \in Declared(s)
    BY <1>1, <2>1 DEF Declared, Range
  <2>3. m \in FormMethods /\ m.latency \in {"fast", "med", "slow"}
    BY <2>2, FormSpecFormed DEF Accepted
  <2>4. Adapted(s, m).name = m.name
    BY <2>3, AdaptedFields
  <2> QED
    BY <1>1, <2>1, <2>4
<1>5. \A i, j \in 1..n : i # j => s.methods[i].name # s.methods[j].name
  BY <1>1 DEF Accepted
<1>6. CASE k = n
  BY <1>1, <1>3, <1>4, <1>5, <1>6
<1>7. CASE /\ k = n + 1 /\ c.methods[k] = ResolvedMethod(BalanceMethod)
           /\ Managed(c)
           /\ \A i \in 1..n : s.methods[i].name # BalanceMethod.name
  <2>1. c.backend.type \in {"http", "hybrid"}
    BY <1>7, FormBackend DEF BrokerFronted
  <2>2. c.methods[k].name = BalanceMethod.name
    BY <1>7, <2>1, BalancePasses
  <2>3. \A i \in 1..k : i \in 1..n \/ i = k
    BY <1>1, <1>7
  <2>4. \A i \in 1..n : c.methods[i].name # c.methods[k].name
    BY <1>4, <1>7, <2>2
  <2>5. \A i, j \in 1..n : i # j => c.methods[i].name # c.methods[j].name
    BY <1>4, <1>5
  <2>6. \A i, j \in 1..k : i # j => c.methods[i].name # c.methods[j].name
    BY <2>3, <2>4, <2>5
  <2> QED
    BY <1>1, <1>3, <2>6
<1> QED
  BY <1>1, <1>6, <1>7

\* What holds of every method of the adapter holds of the declared ones, and of the balance.
LEMMA FormMethodsPass ==
  ASSUME NEW s \in Submissions, Accepted(s)
  PROVE  LET c == ToConfig(s)
         IN  (\A d \in Methods(c) : MethodOK(c, d))
             <=> \A m \in Declared(s) :
                   /\ m.name.pad # "lead" /\ m.name # OwnName("help") /\ m.timeout # "bad"
                   /\ ~RouteLapse(s, m)
<1> PICK c : c = ToConfig(s)
  OBVIOUS
<1> PICK n : n = Len(s.methods)
  OBVIOUS
<1> PICK k : k = Len(c.methods)
  OBVIOUS
<1>1. /\ n \in Nat /\ k \in Nat /\ DOMAIN s.methods = 1..n /\ DOMAIN c.methods = 1..k
      /\ \A i \in 1..n : c.methods[i] = Adapted(s, s.methods[i])
      /\ \/ k = n
         \/ /\ k = n + 1 /\ c.methods[k] = ResolvedMethod(BalanceMethod)
            /\ Managed(c)
            /\ \A i \in 1..n : s.methods[i].name # BalanceMethod.name
  BY FormAdapter
<1>2. Declared(s) = {s.methods[i] : i \in 1..n} /\ Methods(c) = {c.methods[i] : i \in 1..k}
  BY <1>1 DEF Declared, Methods, Range
<1>3. \A m \in Declared(s) : Adapted(s, m) \in Methods(c)
  <2> SUFFICES ASSUME NEW i \in 1..n PROVE Adapted(s, s.methods[i]) \in Methods(c)
    BY <1>2
  <2>1. i \in 1..k
    BY <1>1
  <2> QED
    BY <1>1, <1>2, <2>1
<1>4. ASSUME NEW d \in Methods(c)
      PROVE  (\E m \in Declared(s) : d = Adapted(s, m)) \/ MethodOK(c, d)
  <2>1. PICK i \in 1..k : d = c.methods[i]
    BY <1>2
  <2>2. CASE i \in 1..n
    BY <1>1, <1>2, <2>1, <2>2
  <2>3. CASE i \notin 1..n
    <3>1. d = ResolvedMethod(BalanceMethod) /\ Managed(c)
      BY <1>1, <2>1, <2>3
    <3>2. c.backend.type \in {"http", "hybrid"}
      BY <3>1, FormBackend DEF BrokerFronted
    <3> QED
      BY <3>1, <3>2, BalancePasses
  <2> QED
    BY <2>2, <2>3
<1>5. (\A d \in Methods(c) : MethodOK(c, d)) <=> \A m \in Declared(s) : MethodOK(c, Adapted(s, m))
  BY <1>3, <1>4
<1> QED
  BY <1>5, FormMethod

\* The backend of an accepted form passes, unless its URL does not parse.
LEMMA FormBackendPasses ==
  ASSUME NEW s \in Submissions, Accepted(s)
  PROVE  BackendOK(ToConfig(s)) <=> ~UrlLapse(s)
<1> PICK c : c = ToConfig(s)
  OBVIOUS
<1> PICK b : b = c.backend
  OBVIOUS
<1>1. /\ b.type = IF IsCLI(s) THEN "cli" ELSE IF IsHybrid(s) THEN "hybrid" ELSE "http"
      /\ Managed(c) <=> BrokerFronted(s)
      /\ b.x402 = {}
      /\ ~IsHTTP(s) => b.command = s.backend.command
      /\ IsHTTP(s) => b.baseUrl = s.backend.baseUrl
  BY FormBackend
<1>2. SubBackendOK(s)
  BY DEF Accepted
<1>3. CASE IsCLI(s)
  <2>1. b.type = "cli" /\ ~IsHTTP(s)
    BY <1>1, <1>3 DEF IsHTTP
  <2>2. b.command # {}
    BY <1>1, <1>2, <1>3, <2>1 DEF SubBackendOK, HasCommand, IsCLI, IsHybrid
  <2> QED
    BY <1>1, <2>1, <2>2 DEF BackendOK, UrlLapse
<1>4. CASE IsHybrid(s)
  <2>1. b.type = "hybrid" /\ ~IsHTTP(s) /\ ~IsCLI(s)
    BY <1>1, <1>4 DEF IsHTTP, IsCLI, IsHybrid
  <2>2. BrokerFronted(s) /\ ((\E m \in Declared(s) : HasCLIRoute(m)) => HasCommand(s.backend))
    BY <1>2, <1>4, <2>1 DEF SubBackendOK
  <2>3. ASSUME NEW d \in Methods(c), d.cli # {} PROVE \E m \in Declared(s) : HasCLIRoute(m)
    <3>1. (\E m \in Declared(s) : d = Adapted(s, m)) \/ d = ResolvedMethod(BalanceMethod)
      BY FormAdapter DEF Methods, Declared, Range
    <3>2. d # ResolvedMethod(BalanceMethod)
      BY <2>1, <2>3, BalancePasses
    <3>3. PICK m \in Declared(s) : d = Adapted(s, m)
      BY <3>1, <3>2
    <3>4. m \in FormMethods /\ m.latency \in {"fast", "med", "slow"}
      BY FormSpecFormed DEF Accepted
    <3>5. MethodRoute(s, m) = "cli"
      BY <2>3, <3>3, <3>4, AdaptedFields
    <3> QED
      BY <2>1, <3>5 DEF MethodRoute
  <2>4. HasCLIMethods(c) => b.command # {}
    BY <1>1, <2>1, <2>2, <2>3 DEF HasCLIMethods, HasCommand
  <2> QED
    BY <1>1, <2>1, <2>2, <2>4 DEF BackendOK, UrlLapse
<1>5. CASE IsHTTP(s)
  <2>1. b.type = "http" /\ WebUrl(s.backend.baseUrl) /\ b.baseUrl = s.backend.baseUrl
    BY <1>1, <1>2, <1>5 DEF IsHTTP, SubBackendOK
  <2>2. Absolute(b.baseUrl) <=> s.backend.baseUrl.ok
    BY <2>1 DEF Absolute, Hostname, WebUrl
  <2> QED
    BY <1>1, <1>5, <2>1, <2>2 DEF BackendOK, UrlLapse
<1> QED
  BY <1>3, <1>4, <1>5 DEF IsHTTP

\* Of an accepted form Validate refuses the named faults and nothing else.
LEMMA FormFaults ==
  ASSUME NEW s \in Submissions, Accepted(s)
  PROVE  Validate(ToConfig(s)) <=> ~FormLapse(s)
<1> PICK c : c = ToConfig(s)
  OBVIOUS
<1>1. c.id = s.id /\ c.version = s.version /\ c.descr = s.descr
  <2>1. PICK F : F = FormSpec(s)
    OBVIOUS
  <2>2. F.id = s.id /\ F.version = s.version /\ F.descr = s.descr
    BY <2>1 DEF FormSpec
  <2>3. c = Resolve(F) /\ DOMAIN F = Fields
    BY <2>1, ConfigFields
  <2> QED
    BY <2>2, <2>3, ResolveFields
<1>2. c.id # "malformed" /\ c.version /\ c.descr
  BY <1>1 DEF Accepted
<1>3. Validate(c) <=> BackendOK(c) /\ AssetsOK(c) /\ \A d \in Methods(c) : MethodOK(c, d)
  BY <1>2, FormNames DEF Validate
<1>4. (\A d \in Methods(c) : MethodOK(c, d)) <=>
        ~NameLapse(s) /\ ~TimeLapse(s) /\ \A m \in Declared(s) : ~RouteLapse(s, m)
  BY FormMethodsPass DEF NameLapse, TimeLapse
<1> QED
  BY <1>3, <1>4, FormBackendPasses, FormAssets DEF FormLapse

\* An accepted form makes a specification Validate accepts, unless it has one of the named
\* faults (submission.go:319-632, config.go:1309-1722).
THEOREM GapsAreNamed == Spec => []FormGapsAreNamed
<1>1. Init => AppOK
  BY DEF Init, AppOK
<1>2. TypeOK /\ AppOK => FormGapsAreNamed
  <2> SUFFICES ASSUME TypeOK, AppOK, NEW s \in form, stage # "rejected"
               PROVE  Validate(ToConfig(s)) <=> ~FormLapse(s)
    BY DEF FormGapsAreNamed
  <2>1. s \in Submissions /\ Accepted(s)
    BY FormsAssumption DEF TypeOK, AppOK
  <2> QED
    BY <2>1, FormFaults
<1> QED
  BY <1>1, <1>2, TypeCorrect, StepAppOK, PTL DEF Spec

(***************************************************************************)
(* The signup hint (config.go:344-383, main.go.tmpl): where it applies, the *)
(* method it names can be called, and what that leads to stores the key    *)
(* requireKey asks for.                                                    *)
(***************************************************************************)
\* The methods of a configured adapter are numbered from 1.
LEMMA ConfigsIndices ==
  ASSUME TypeOK, NEW c \in cfg PROVE \E n \in Nat : DOMAIN c.methods = 1..n
<1>1. ASSUME NEW spec, WellFormed(spec), c = Resolve(spec)
      PROVE  \E n \in Nat : DOMAIN c.methods = 1..n
  <2>1. PICK x : x = Complete(spec).methods
    OBVIOUS
  <2>2. DOMAIN x = 1..Len(x) /\ Len(x) \in Nat
    BY <1>1, <2>1, CompleteMethods DEF WellFormed
  <2>3. DOMAIN spec = Fields
    BY <1>1 DEF WellFormed
  <2>4. Resolve(spec).methods =
          [i \in DOMAIN Complete(spec).methods |-> ResolvedMethod(Complete(spec).methods[i])]
    BY <2>3, ResolveFields
  <2> QED
    BY <1>1, <2>1, <2>2, <2>4
<1>2. CASE \E s \in Forms : c = ToConfig(s)
  BY <1>1, <1>2, ConfigFields, FormSpecFormed, FormsAssumption
<1>3. CASE \E spec \in Specs : c = Resolve(spec)
  BY <1>1, <1>3, SpecsAssumption DEF Authored, WellFormed, Fields, Methods
<1> QED
  BY <1>2, <1>3 DEF TypeOK

\* The least of some indices is one of them.
LEMMA LeastIndex ==
  ASSUME NEW n \in Nat, NEW S \in SUBSET (1..n), S # {} PROVE Min(S) \in S
<1>1. \E x \in S : \A y \in S : x <= y
  BY LeastNatural
<1> QED
  BY <1>1 DEF Min

\* The methods AuthSecretKey and SignupMethodName look for.
AtStep(c, steps) == First(c, LAMBDA m : \E s \in m.signup : s.step \in steps)
Issuer(c)        == First(c, LAMBDA m : SaveKeys(m) # {})
Minter(c)        == First(c, LAMBDA m : Minted(m) # {})

\* The first method with a step of some kind is found whenever there is one.
LEMMA FirstStep ==
  ASSUME NEW c, NEW n \in Nat, DOMAIN c.methods = 1..n, NEW steps
  PROVE  \/ AtStep(c, steps) = {} /\ \A m \in Methods(c) : \A s \in m.signup : s.step \notin steps
         \/ \E m \in Methods(c) : AtStep(c, steps) = {m} /\ \E s \in m.signup : s.step \in steps
<1> DEFINE found == {i \in DOMAIN c.methods : \E s \in c.methods[i].signup : s.step \in steps}
<1>1. AtStep(c, steps) = IF found = {} THEN {} ELSE {c.methods[Min(found)]}
  BY DEF AtStep, First
<1>2. CASE found = {}
  BY <1>1, <1>2 DEF Methods, Range
<1>3. CASE found # {}
  <2>1. Min(found) \in found
    BY <1>3, LeastIndex
  <2> QED
    BY <1>1, <1>3, <2>1 DEF Methods, Range
<1> QED
  BY <1>2, <1>3

\* So is the first whose answer holds a key.
LEMMA FirstIssuer ==
  ASSUME NEW c, NEW n \in Nat, DOMAIN c.methods = 1..n
  PROVE  \/ Issuer(c) = {} /\ \A m \in Methods(c) : SaveKeys(m) = {}
         \/ \E m \in Methods(c) : Issuer(c) = {m} /\ SaveKeys(m) # {}
<1> DEFINE found == {i \in DOMAIN c.methods : SaveKeys(c.methods[i]) # {}}
<1>1. Issuer(c) = IF found = {} THEN {} ELSE {c.methods[Min(found)]}
  BY DEF Issuer, First
<1>2. CASE found = {}
  BY <1>1, <1>2 DEF Methods, Range
<1>3. CASE found # {}
  <2>1. Min(found) \in found
    BY <1>3, LeastIndex
  <2> QED
    BY <1>1, <1>3, <2>1 DEF Methods, Range
<1> QED
  BY <1>2, <1>3

\* And the first that mints, in a specification that has one.
LEMMA FirstMinter ==
  ASSUME NEW c, NEW n \in Nat, DOMAIN c.methods = 1..n, HasKeyMintSignup(c)
  PROVE  \E m \in Methods(c) : Minter(c) = {m} /\ Minted(m) # {}
<1> DEFINE found == {i \in DOMAIN c.methods : Minted(c.methods[i]) # {}}
<1>1. Minter(c) = IF found = {} THEN {} ELSE {c.methods[Min(found)]}
  BY DEF Minter, First
<1>2. found # {}
  BY DEF HasKeyMintSignup, Methods, Range
<1>3. Min(found) \in found
  BY <1>2, LeastIndex
<1> QED
  BY <1>1, <1>2, <1>3 DEF Methods, Range

\* Where signup is coherent, every method that mints stores the one key requireKey asks for.
LEMMA OneKey ==
  ASSUME TypeOK, NEW c \in cfg, HasKeyMintSignup(c), SignupCoherent(c),
         NEW m \in Methods(c), Minted(m) # {}
  PROVE  Minted(m) = AuthSecretKey(c) /\ AuthSecretKey(c) \subseteq Stored(m)
<1>1. PICK n \in Nat : DOMAIN c.methods = 1..n
  BY ConfigsIndices
<1>2. PICK k \in Methods(c) : Minter(c) = {k} /\ Minted(k) # {}
  BY <1>1, FirstMinter
<1>3. AuthSecretKey(c) = UNION {Minted(x) : x \in Minter(c)}
  BY DEF AuthSecretKey, Minter
<1>4. AuthSecretKey(c) = Minted(k)
  BY <1>2, <1>3
<1>5. Minted(m) = Minted(k)
  BY <1>2 DEF SignupCoherent
<1>6. Minted(m) \subseteq Stored(m)
  <2>1. \A r \in m.http : SaveKeys(m) # {} => r.multipart = {}
    BY DEF SignupCoherent
  <2> QED
    BY <2>1 DEF Minted, Stored, SaveKeys
<1> QED
  BY <1>4, <1>5, <1>6

\* A method of a valid http specification has a signup step, or a route whose rules hold.
LEMMA ValidMethods ==
  ASSUME TypeOK, NEW c \in cfg, c.backend.type = "http", Validate(c), NEW m \in Methods(c)
  PROVE  /\ m.signup # {} => m.http = {}
         /\ \A r \in m.http : SaveKeyOK(c, r)
<1>1. RouteOK(c, m)
  BY DEF Validate, MethodOK
<1>2. m.upload = "" \/ Bare(m)
  BY ConfigsMethods
<1>3. CASE Bare(m)
  BY <1>3 DEF Bare
<1>4. CASE m.upload = ""
  <2>1. m.http # {} => m.mcp = {} /\ m.signup = {} /\ m.local = {}
    BY <1>1, <1>4, HttpRoutes DEF MCPMethodOK
  <2> QED
    BY <1>1, <1>4, <2>1, HttpRoutes DEF HTTPMethodOK
<1> QED
  BY <1>2, <1>3, <1>4

\* The method the hint of an adapter names, and one it leads to, that can both be called
\* and of which the second stores a key not stored yet.
LeadsOn(c, m, n) ==
    /\ m.name \in SignupMethodName(c) /\ Callable(c, m) /\ Callable(c, n) /\ Follows(m, n)
    /\ keys \cup Stored(n) # keys

HintLeads == \E c \in cfg : \E m, n \in Methods(c) : LeadsOn(c, m, n)

\* The name in the hint, by what is found first (SignupMethodName, config.go:358-383).
LEMMA HintNames ==
  ASSUME NEW c
  PROVE  SignupMethodName(c) =
           Either({m.name : m \in AtStep(c, {"create"})},
           Either({m.name : m \in AtStep(c, {"broker", "register"})},
           Either(UNION {k.start : k \in UNION {SaveKeys(m) : m \in Issuer(c)}},
           Either({m.name : m \in Issuer(c)}, {m.name : m \in AtStep(c, {"set_key"})}))))
  BY DEF SignupMethodName, AtStep, Issuer

\* Where the hint applies and the key is missing, what it names leads to a call that
\* stores the key.
LEMMA LeadsWhereApplies ==
  ASSUME TypeOK, HintApplies, ~Unlocked PROVE HintLeads
<1>1. PICK c \in cfg : ~(AuthSecretKey(c) \subseteq keys)
  BY DEF Unlocked
<1>2. c.backend.type = "http" /\ HasKeyMintSignup(c) /\ Validate(c) /\ SignupCoherent(c)
  BY DEF HintApplies
<1>3. PICK n \in Nat : DOMAIN c.methods = 1..n
  BY ConfigsIndices
<1>4. \A m \in Methods(c) : Minted(m) # {} => keys \cup Stored(m) # keys
  BY <1>1, <1>2, OneKey
<1>5. ASSUME NEW m \in Methods(c), NEW s \in m.signup
      PROVE  Callable(c, m) /\ (Mints(s) => Minted(m) # {})
  BY <1>2, <1>5, ValidMethods DEF Callable, Minted
<1>6. ASSUME NEW m \in Methods(c), SaveKeys(m) # {}
      PROVE  /\ Callable(c, m) /\ Minted(m) # {}
             /\ \A k \in SaveKeys(m) : \A o \in Methods(c) : o.name \in k.start => Callable(c, o)
             /\ \A k \in SaveKeys(m) : \A st \in k.start : \E o \in Methods(c) : o.name = st
  <2>1. Callable(c, m) /\ \A k \in SaveKeys(m) : \A o \in Methods(c) : o.name \in k.start => Callable(c, o)
    BY <1>2, <1>6 DEF SignupCoherent, Callable
  <2>2. \A r \in m.http : SaveKeyOK(c, r)
    BY <1>2, <1>6, ValidMethods
  <2>3. \A k \in SaveKeys(m) : \A st \in k.start : \E o \in Methods(c) : o.name = st
    BY <2>2 DEF SaveKeyOK, SaveKeys
  <2>4. Minted(m) # {}
    BY <1>6 DEF Minted
  <2> QED
    BY <2>1, <2>3, <2>4
<1> SUFFICES \E l, m \in Methods(c) : LeadsOn(c, l, m)
  BY DEF HintLeads
<1>7. ASSUME NEW l \in Methods(c), AtStep(c, {"create"}) = {l}, NEW s \in l.signup, s.step = "create"
      PROVE  LeadsOn(c, l, l)
  BY <1>4, <1>5, <1>7, HintNames DEF LeadsOn, Either, Follows, Mints
<1>8. ASSUME AtStep(c, {"create"}) = {},
             NEW l \in Methods(c), AtStep(c, {"broker", "register"}) = {l},
             NEW s \in l.signup, s.step \in {"broker", "register"}
      PROVE  \E m \in Methods(c) : LeadsOn(c, l, m)
  <2>1. l.name \in SignupMethodName(c)
    BY <1>8, HintNames DEF Either
  <2>2. CASE s.step = "broker"
    BY <1>4, <1>5, <1>8, <2>1, <2>2 DEF LeadsOn, Follows, Mints
  <2>3. CASE s.step = "register"
    <3>1. PICK m \in Methods(c) : \E t \in m.signup : t.step = "verify"
      BY <1>2, <1>8, <2>3 DEF SignupCoherent
    <3> QED
      BY <1>4, <1>5, <1>8, <2>1, <2>3, <3>1 DEF LeadsOn, Follows, Mints
  <2> QED
    BY <1>8, <2>2, <2>3
<1>9. ASSUME AtStep(c, {"create"}) = {}, AtStep(c, {"broker", "register"}) = {},
             NEW i \in Methods(c), Issuer(c) = {i}, SaveKeys(i) # {}
      PROVE  \E l \in Methods(c) : LeadsOn(c, l, i)
  <2>1. SignupMethodName(c) = Either(UNION {k.start : k \in SaveKeys(i)}, {i.name})
    BY <1>9, HintNames DEF Either
  <2>2. CASE \A k \in SaveKeys(i) : k.start = {}
    <3>1. SignupMethodName(c) = {i.name}
      BY <2>1, <2>2 DEF Either
    <3> QED
      BY <1>4, <1>6, <1>9, <3>1 DEF LeadsOn, Follows
  <2>3. ASSUME NEW k \in SaveKeys(i), NEW st \in k.start PROVE \E l \in Methods(c) : LeadsOn(c, l, i)
    <3>1. PICK o \in Methods(c) : o.name = st
      BY <1>6, <1>9, <2>3
    <3>2. o.name \in SignupMethodName(c)
      BY <2>1, <2>3, <3>1 DEF Either
    <3>3. Callable(c, o) /\ Follows(o, i)
      BY <1>6, <1>9, <2>3, <3>1 DEF Follows
    <3> QED
      BY <1>4, <1>6, <1>9, <3>2, <3>3 DEF LeadsOn
  <2> QED
    BY <2>2, <2>3
<1>10. ASSUME AtStep(c, {"create"}) = {}, AtStep(c, {"broker", "register"}) = {}, Issuer(c) = {}
       PROVE  \E l \in Methods(c) : LeadsOn(c, l, l)
  <2>1. \A m \in Methods(c) : SaveKeys(m) = {} /\ \A s \in m.signup : s.step \notin {"create", "broker", "register"}
    BY <1>3, <1>10, FirstIssuer, FirstStep
  <2>2. \A m \in Methods(c) : \A s \in m.signup : s.step # "verify"
    BY <1>2, <2>1 DEF SignupCoherent
  <2>3. PICK m \in Methods(c) : Minted(m) # {}
    BY <1>2 DEF HasKeyMintSignup
  <2>4. PICK s \in m.signup : Mints(s)
    BY <2>1, <2>3 DEF Minted
  <2>5. s.step = "set_key"
    BY <2>1, <2>2, <2>4 DEF Mints
  <2>6. PICK l \in Methods(c) : AtStep(c, {"set_key"}) = {l} /\ \E t \in l.signup : t.step = "set_key"
    BY <1>3, <2>5, FirstStep
  <2>7. l.name \in SignupMethodName(c)
    BY <1>10, <2>6, HintNames DEF Either
  <2> QED
    BY <1>4, <1>5, <2>6, <2>7 DEF LeadsOn, Follows, Mints
<1> QED
  BY <1>3, <1>7, <1>8, <1>9, <1>10, FirstStep, FirstIssuer

\* An agent told "no key yet" is never stuck: while the key is missing, the method the
\* hint names can be called and leads to a call that stores it.
THEOREM HintLeadsOn == Spec => [](HintApplies /\ ~Unlocked => HintLeads)
  BY TypeCorrect, LeadsWhereApplies, PTL

\* Where the hint applies it stays so: the specification of a running adapter is settled.
THEOREM HintHolds == Spec => [][HintApplies => HintApplies']_vars
<1>1. ASSUME HintApplies, [Next]_vars PROVE HintApplies'
  <2>1. cfg' = cfg /\ stage' \in {stage, "registered"}
    <3>1. stage \in {"built", "registered", "scaffolded"}
      BY <1>1 DEF HintApplies, Runs
    <3> QED
      BY <1>1, <3>1 DEF Next, vars, app, broker, host, Submit, Author, Build, Register, SetSecret,
         WriteNeighbour, Reload, Restart, HostStep, FollowHint, AskForCloudKey, AdapterExits
  <2> QED
    BY <1>1, <2>1 DEF HintApplies, Runs
<1> QED
  BY <1>1, PTL DEF Spec

\* One step of the agent that stores something stores the key: with HintLeadsOn, HintHolds
\* and the agent's fairness this is why HintUnlocks holds.
THEOREM HintStepUnlocks == Spec => [][HintApplies /\ HostStep => Unlocked']_vars
<1>1. ASSUME TypeOK, HintApplies, HostStep PROVE Unlocked'
  <2>1. PICK c \in cfg : \E n \in Methods(c) : FollowHint(n) /\ keys' # keys
    BY <1>1 DEF HostStep
  <2>0. PICK n \in Methods(c) : FollowHint(n) /\ keys' # keys
    BY <2>1
  <2>2. keys' = keys \cup Stored(n) /\ cfg' = cfg
    BY <2>0 DEF FollowHint, app
  <2>3. Minted(n) # {}
    BY <2>0, <2>2 DEF Stored, Minted, SaveKeys
  <2>4. AuthSecretKey(c) \subseteq keys'
    BY <1>1, <2>2, <2>3, OneKey DEF HintApplies
  <2> QED
    BY <1>1, <2>2, <2>4 DEF TypeOK, Unlocked
<1> QED
  BY <1>1, TypeCorrect, PTL DEF Spec
=============================================================================
