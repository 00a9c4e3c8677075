---------------------------- MODULE CatalogueProofs ----------------------------
(***************************************************************************)
(* Theorems about Catalogue, for every set of submissions, keys and        *)
(* uploads and any number of rotations.                                    *)
(***************************************************************************)
EXTENDS Catalogue, TLAPS

(***************************************************************************)
(* What a step of a submission is; every other action leaves the           *)
(* submissions, what they have seen and what is released alone.            *)
(***************************************************************************)
SubStep(s) ==
    \/ Ingest(s) \/ OpenPR(s) \/ SubmissionValidate(s) \/ MergeSubmission(s)
    \/ PublishGate(s) \/ Release(s) \/ Propose(s) \/ JobFails(s) \/ Dispatch(s)

RegistryStep == \E x \in Content : PresignPut(x) \/ Upload(x) \/ Expires(x)

\* A step is a submission's, a publisher's rotation, an answer to a proposal, the registry's, or none.
LEMMA Cases ==
    ASSUME [Next]_vars
    PROVE  \/ \E s \in Sub : SubStep(s)
           \/ \E k \in Key : RotatePublisher(k)
           \/ \E p \in proposals : MergeProposal(p) \/ CloseProposal(p)
           \/ RegistryStep
           \/ UNCHANGED vars
BY DEF Next, SubStep, RegistryStep

\* The value of an empty catalogue slot is no entry.
LEMMA NoEntryIsNone == NoEntry \notin Entry
<1> SUFFICES ASSUME NoEntry \in Entry PROVE FALSE
    OBVIOUS
<1>1. DOMAIN NoEntry = {"ver"}
    BY DEF NoEntry
<1>2. "pin" \in DOMAIN NoEntry
    BY DEF Entry
<1> QED
    BY <1>1, <1>2

-----------------------------------------------------------------------------
(***************************************************************************)
(* Types.                                                                  *)
(***************************************************************************)
LEMMA SubStepTyped ==
    ASSUME TypeOK, NEW s \in Sub, SubStep(s)
    PROVE  TypeOK'
<1> USE SubAssumption
<1>1. CASE Ingest(s) \/ OpenPR(s) \/ MergeSubmission(s) \/ Dispatch(s)
    BY <1>1, SMTT(30) DEF TypeOK, Ingest, OpenPR, MergeSubmission, Dispatch, Goes, Places, registry
<1>2. CASE SubmissionValidate(s) \/ PublishGate(s)
    BY <1>2, SMTT(30) DEF TypeOK, SubmissionValidate, PublishGate, Gated, Goes, Places, registry
<1>3. CASE Release(s)
    BY <1>3, SMTT(30) DEF TypeOK, Release, Goes, Places, registry
<1>4. CASE JobFails(s)
    BY <1>4, SMTT(30) DEF TypeOK, JobFails, Forgotten, Goes, Places, registry
<1>5. CASE Propose(s)
    <2>1. [ver |-> Ver[s], pin |-> Signer[s], bundle |-> s] \in Entry
        BY DEF Entry
    <2>2. [by |-> s, seen |-> seen[s], base |-> live,
           entry |-> [ver |-> Ver[s], pin |-> Signer[s], bundle |-> s]] \in Proposal
        BY <2>1 DEF TypeOK, Proposal
    <2>3. proposals' \subseteq Proposal
        BY <1>5, <2>2 DEF Propose, TypeOK
    <2>4. place' \in [Sub -> Places] /\ seen' \in [Sub -> Entry \cup {NoEntry}]
        BY <1>5 DEF Propose, TypeOK, Goes, Forgotten, Places
    <2> QED
        BY <1>5, <2>3, <2>4 DEF Propose, Goes, TypeOK, registry
<1> QED
    BY <1>1, <1>2, <1>3, <1>4, <1>5 DEF SubStep

\* Every variable keeps its type.
THEOREM TypeCorrect == Spec => []TypeOK
<1>1. Init => TypeOK
    BY SubAssumption, RotationBound DEF Init, TypeOK, Places
<1>2. ASSUME TypeOK, [Next]_vars
      PROVE  TypeOK'
    <2>1. ASSUME NEW s \in Sub, SubStep(s) PROVE TypeOK'
        BY <1>2, <2>1, SubStepTyped
    <2>2. ASSUME NEW k \in Key, RotatePublisher(k) PROVE TypeOK'
        <3>1. live \in Entry
            BY <1>2, <2>2 DEF RotatePublisher, Listed, TypeOK
        <3>2. [live EXCEPT !.pin = k] \in Entry
            BY <3>1, <2>2 DEF Entry
        <3>3. [by |-> Rotation, seen |-> live, base |-> live, entry |-> [live EXCEPT !.pin = k]] \in Proposal
            BY <3>1, <3>2 DEF Proposal
        <3> QED
            BY <1>2, <2>2, <3>3, RotationBound DEF RotatePublisher, TypeOK, registry
    <2>3. ASSUME NEW p \in proposals, MergeProposal(p) \/ CloseProposal(p) PROVE TypeOK'
        <3>1. p.entry \in Entry
            BY <1>2, <2>3 DEF TypeOK, Proposal
        <3> QED
            BY <1>2, <2>3, <3>1 DEF MergeProposal, CloseProposal, TypeOK, registry
    <2>4. CASE RegistryStep
        BY <1>2, <2>4 DEF RegistryStep, PresignPut, Upload, Expires, catalogueUnchanged, TypeOK
    <2>5. CASE UNCHANGED vars
        BY <1>2, <2>5 DEF vars, registry, TypeOK
    <2> QED
        BY <1>2, <2>1, <2>2, <2>3, <2>4, <2>5, Cases
<1> QED
    BY <1>1, <1>2, PTL DEF Spec

-----------------------------------------------------------------------------
(***************************************************************************)
(* What the last gate a submission passed has established about the entry  *)
(* it read, and what of it a proposal carries.                             *)
(***************************************************************************)
Passes(s, entry) ==
    entry # NoEntry => Ver[s] >= entry.ver /\ (s \in Rich \/ Signer[s] = entry.pin)

Vouched(p) ==
    IF p.by = Rotation
    THEN p.base # NoEntry /\ p.entry = [p.base EXCEPT !.pin = p.entry.pin]
    ELSE Passes(p.by, p.seen) /\ p.entry.ver = Ver[p.by] /\ p.entry.pin = Signer[p.by]

GateInv ==
    /\ TypeOK
    /\ \A s \in Sub : Passes(s, seen[s])
    /\ \A p \in proposals : Vouched(p)

\* What VerifyUpdate lets through passes against the live entry.
LEMMA GateChecks ==
    ASSUME TypeOK, NEW s \in Sub, VerifyUpdate(s)
    PROVE  Passes(s, live)
<1>1. CASE live = NoEntry
    BY <1>1 DEF Passes
<1>2. CASE live \in Entry
    <2>1. Ver[s] \in Nat /\ live.ver \in Nat /\ Signer[s] \in Key
        BY <1>2, SubAssumption DEF Entry
    <2> QED
        BY <1>2, <2>1, SubAssumption, NoEntryIsNone
        DEF VerifyUpdate, CheckUpdate, NewPublisher, Downgrade, Passes
<1> QED
    BY <1>1, <1>2 DEF TypeOK

\* A submission's step keeps every proposal vouched for by the gate its maker passed.
LEMMA SubStepVouched ==
    ASSUME GateInv, NEW s \in Sub, SubStep(s)
    PROVE  GateInv'
<1>1. TypeOK'
    BY SubStepTyped DEF GateInv
<1>2. \A t \in Sub : Passes(t, seen'[t])
    <2>1. CASE Ingest(s) \/ OpenPR(s) \/ MergeSubmission(s) \/ Release(s) \/ Dispatch(s)
        BY <2>1 DEF GateInv, Ingest, OpenPR, MergeSubmission, Release, Dispatch
    <2>2. CASE SubmissionValidate(s) \/ PublishGate(s)
        BY <2>2, GateChecks DEF GateInv, TypeOK, SubmissionValidate, PublishGate, Gated
    <2>3. CASE Propose(s) \/ JobFails(s)
        BY <2>3 DEF GateInv, TypeOK, Propose, JobFails, Forgotten, Passes
    <2> QED
        BY <2>1, <2>2, <2>3 DEF SubStep
<1>3. \A p \in proposals' : Vouched(p)
    <2>1. CASE Propose(s)
        <3> DEFINE new == [by |-> s, seen |-> seen[s], base |-> live,
                           entry |-> [ver |-> Ver[s], pin |-> Signer[s], bundle |-> s]]
        <3>1. Vouched(new)
            BY SubAssumption DEF GateInv, Vouched
        <3> QED
            BY <2>1, <3>1 DEF Propose, GateInv
    <2>2. CASE ~Propose(s)
        BY <2>2 DEF SubStep, GateInv, Ingest, OpenPR, SubmissionValidate, PublishGate, Gated,
                    MergeSubmission, Release, JobFails, Dispatch
    <2> QED
        BY <2>1, <2>2
<1> QED
    BY <1>1, <1>2, <1>3 DEF GateInv, Vouched, Passes

\* Every step keeps what the gates established.
LEMMA GateInductive ==
    ASSUME GateInv, [Next]_vars, TypeOK'
    PROVE  GateInv'
<1>1. ASSUME NEW s \in Sub, SubStep(s) PROVE GateInv'
    BY <1>1, SubStepVouched
<1>2. ASSUME NEW k \in Key, RotatePublisher(k) PROVE GateInv'
    <2> DEFINE new == [by |-> Rotation, seen |-> live, base |-> live, entry |-> [live EXCEPT !.pin = k]]
    <2>1. live \in Entry /\ live # NoEntry
        BY <1>2 DEF GateInv, TypeOK, RotatePublisher, Listed
    <2>2. new.entry = [new.base EXCEPT !.pin = new.entry.pin]
        BY <2>1 DEF Entry
    <2>3. Vouched(new)
        BY <2>1, <2>2 DEF Vouched
    <2> QED
        BY <1>2, <2>3 DEF GateInv, RotatePublisher, Vouched, Passes
<1>3. ASSUME NEW p \in proposals, MergeProposal(p) \/ CloseProposal(p) PROVE GateInv'
    BY <1>3 DEF GateInv, MergeProposal, CloseProposal, Vouched, Passes
<1>4. CASE RegistryStep
    BY <1>4 DEF GateInv, RegistryStep, PresignPut, Upload, Expires,
                catalogueUnchanged, Vouched, Passes
<1>5. CASE UNCHANGED vars
    BY <1>5 DEF GateInv, vars, Vouched, Passes
<1> QED
    BY <1>1, <1>2, <1>3, <1>4, <1>5, Cases

(***************************************************************************)
(* UpdatesAreGated: the owner and the version of a listed app, whatever is *)
(* submitted, published and rotated beside each other.                     *)
(***************************************************************************)
THEOREM OwnersUpdate == Spec => UpdatesAreGated
<1> DEFINE Gated_step ==
        Listed /\ live' # live =>
           \E p \in proposals :
              /\ p.entry = live'
              /\ p.by = Rotation => live' = [live EXCEPT !.pin = live'.pin]
              /\ Regular(p) => /\ live'.ver >= live.ver
                               /\ p.by \in Rich \/ live'.pin = live.pin
<1>1. Init /\ TypeOK => GateInv
    BY DEF Init, GateInv, Passes
<1>2. GateInv /\ [Next]_vars /\ TypeOK' => GateInv'
    BY GateInductive
<1>3. ASSUME GateInv, [Next]_vars
      PROVE  [Gated_step]_vars
    <2>1. SUFFICES ASSUME Listed, live' # live PROVE Gated_step
        OBVIOUS
    <2>2. PICK p \in proposals : MergeProposal(p)
        <3>1. ASSUME NEW s \in Sub, SubStep(s) PROVE live' = live
            BY <3>1 DEF SubStep, Ingest, OpenPR, SubmissionValidate, PublishGate, Gated,
                        MergeSubmission, Release, Propose, JobFails, Dispatch
        <3>2. RegistryStep => live' = live
            BY DEF RegistryStep, PresignPut, Upload, Expires, catalogueUnchanged
        <3> QED
            BY <1>3, <2>1, <3>1, <3>2, Cases DEF RotatePublisher, CloseProposal, vars
    <2>3. p.entry = live' /\ p.base = live /\ Vouched(p)
        BY <1>3, <2>2 DEF MergeProposal, GateInv
    <2>4. p.by = Rotation => live' = [live EXCEPT !.pin = live'.pin]
        BY <2>3 DEF Vouched
    <2>5. Regular(p) => live'.ver >= live.ver /\ (p.by \in Rich \/ live'.pin = live.pin)
        BY <2>1, <2>3 DEF Regular, Vouched, Passes, Listed
    <2> QED
        BY <2>3, <2>4, <2>5
<1>4. Spec => [][Gated_step]_vars
    BY <1>1, <1>2, <1>3, TypeCorrect, PTL DEF Spec
<1> QED
    BY <1>4 DEF UpdatesAreGated

-----------------------------------------------------------------------------
(***************************************************************************)
(* LiveIsServed: what was served when it was merged stays so until another *)
(* submission of its version is released, which is then past its merge for *)
(* good.                                                                   *)
(***************************************************************************)
Before == {"new", "case", "pull_request", "checked"}

OwnVersion(entry) == entry.ver = Ver[entry.bundle]

ServedInv ==
    /\ TypeOK
    /\ \A s \in Rich \cap Sub : place[s] \notin {"gated", "released"}
    /\ \A p \in proposals : OwnVersion(p.entry)
    /\ Listed => OwnVersion(live) /\ (SecondOfItsVersion(live.bundle) \/ Served(live))

\* No submission goes back before the gate once it is past it.
LEMMA PlacesAdvance ==
    ASSUME TypeOK, NEW s \in Sub, SubStep(s), NEW t \in Sub, place[t] \notin Before
    PROVE  place'[t] \notin Before
BY DEF SubStep, Ingest, OpenPR, SubmissionValidate, PublishGate, Gated, MergeSubmission,
       Release, Propose, JobFails, Dispatch, Goes, TypeOK, Places, Before

\* Every step keeps the live entry one that is served, or second of its version.
LEMMA ServedInductive ==
    ASSUME ServedInv, [Next]_vars, TypeOK'
    PROVE  ServedInv'
<1>1. ASSUME NEW s \in Sub, SubStep(s) PROVE ServedInv'
    <2>1. \A p \in proposals' : OwnVersion(p.entry)
        <3>1. CASE Propose(s)
            BY <3>1 DEF Propose, ServedInv, OwnVersion
        <3>2. CASE ~Propose(s)
            BY <1>1, <3>2 DEF SubStep, ServedInv, Ingest, OpenPR, SubmissionValidate, PublishGate,
                              Gated, MergeSubmission, Release, JobFails, Dispatch
        <3> QED
            BY <3>1, <3>2
    <2>2. live' = live
        BY <1>1 DEF SubStep, Ingest, OpenPR, SubmissionValidate, PublishGate, Gated,
                    MergeSubmission, Release, Propose, JobFails, Dispatch
    <2>3. ASSUME Listed
          PROVE  SecondOfItsVersion(live.bundle)' \/ Served(live)'
        <3> DEFINE b == live.bundle
        <3>1. b \in Sub /\ live.ver = Ver[b] /\ (SecondOfItsVersion(b) \/ Served(live))
            BY <2>3 DEF ServedInv, Listed, TypeOK, Entry, OwnVersion
        <3>2. CASE SecondOfItsVersion(b)
            BY <1>1, <2>2, <3>2, PlacesAdvance DEF ServedInv, SecondOfItsVersion, Before
        <3>3. CASE Served(live) /\ ~Release(s)
            <4>1. release' = release
                BY <1>1, <3>3 DEF SubStep, Ingest, OpenPR, SubmissionValidate, PublishGate, Gated,
                                  MergeSubmission, Propose, JobFails, Dispatch
            <4> QED
                BY <2>2, <3>3, <4>1 DEF Served
        <3>4. CASE Served(live) /\ Release(s)
            <4>1. CASE b \in Rich
                BY <2>2, <4>1 DEF Served
            <4>2. CASE b \notin Rich /\ (s = b \/ Ver[s] # Ver[b])
                BY <2>2, <3>1, <3>4, <4>2 DEF Served, Release, Tag, ServedInv, TypeOK
            <4>3. CASE b \notin Rich /\ s # b /\ Ver[s] = Ver[b]
                <5>1. place'[s] = "released"
                    BY <3>4 DEF Release, Goes, ServedInv, TypeOK
                <5>2. CASE s \in Rich
                    BY <3>4, <5>2 DEF Release, ServedInv
                <5>3. CASE s \notin Rich
                    BY <2>2, <4>3, <5>1, <5>3 DEF SecondOfItsVersion
                <5> QED
                    BY <5>2, <5>3
            <4> QED
                BY <4>1, <4>2, <4>3
        <3> QED
            BY <3>1, <3>2, <3>3, <3>4
    <2>4. \A t \in Rich \cap Sub : place'[t] \notin {"gated", "released"}
        BY <1>1 DEF SubStep, Ingest, OpenPR, SubmissionValidate, PublishGate, Gated, MergeSubmission,
                    Release, Propose, JobFails, Dispatch, Goes, ServedInv, TypeOK
    <2> QED
        BY <2>1, <2>2, <2>3, <2>4 DEF ServedInv, Listed, OwnVersion
<1>2. ASSUME NEW k \in Key, RotatePublisher(k) PROVE ServedInv'
    BY <1>2 DEF ServedInv, RotatePublisher, Listed, OwnVersion, SecondOfItsVersion, Served, TypeOK, Entry
<1>3. ASSUME NEW p \in proposals, MergeProposal(p) \/ CloseProposal(p) PROVE ServedInv'
    BY <1>3 DEF ServedInv, MergeProposal, CloseProposal, Listed, OwnVersion, SecondOfItsVersion, Served
<1>4. CASE RegistryStep
    BY <1>4 DEF ServedInv, RegistryStep, PresignPut, Upload, Expires,
                catalogueUnchanged, Listed, OwnVersion, SecondOfItsVersion, Served
<1>5. CASE UNCHANGED vars
    BY <1>5 DEF ServedInv, vars, Listed, OwnVersion, SecondOfItsVersion, Served
<1> QED
    BY <1>1, <1>2, <1>3, <1>4, <1>5, Cases
\* The bundle the live entry pins is the one released under its tag.
THEOREM LiveStaysServed == Spec => []LiveIsServed
<1>1. Init /\ TypeOK => ServedInv
    BY DEF Init, ServedInv, Listed
<1>2. ServedInv /\ [Next]_vars /\ TypeOK' => ServedInv'
    BY ServedInductive
<1>3. ServedInv => LiveIsServed
    BY DEF ServedInv, LiveIsServed
<1> QED
    BY <1>1, <1>2, <1>3, TypeCorrect, PTL DEF Spec

-----------------------------------------------------------------------------
(***************************************************************************)
(* WriteOnce: from the first upload on, every URL that is out is a rival   *)
(* of that upload or was given out on a refused HEAD.                      *)
(***************************************************************************)
RegistryInv == object # NoObject => urls \subseteq rivals

\* Nothing but the registry's own steps touches it.
LEMMA RegistryAlone ==
    ASSUME [Next]_vars, ~RegistryStep
    PROVE  UNCHANGED registry
<1>1. ASSUME NEW s \in Sub, SubStep(s) PROVE UNCHANGED registry
    BY <1>1 DEF SubStep, Ingest, OpenPR, SubmissionValidate, PublishGate, Gated,
                MergeSubmission, Release, Propose, JobFails, Dispatch, Goes
<1> QED
    BY <1>1, Cases DEF RotatePublisher, MergeProposal, CloseProposal, vars

\* Every step keeps the URLs that are out those of rivals.
LEMMA RegistryInductive ==
    ASSUME RegistryInv, [Next]_vars
    PROVE  RegistryInv'
<1>1. ASSUME NEW x \in Content, PresignPut(x) PROVE RegistryInv'
    <2>1. PICK status \in HeadStatus :
             /\ Free(status)
             /\ rivals' = IF object # NoObject /\ status = 403 THEN rivals \cup {x} ELSE rivals
        BY <1>1 DEF PresignPut, ObjectExists
    <2>2. urls' = urls \cup {x} /\ UNCHANGED object
        BY <1>1 DEF PresignPut
    <2>3. object # NoObject => status = 403
        BY <2>1 DEF HeadStatus, Free
    <2> QED
        BY <2>1, <2>2, <2>3 DEF RegistryInv
<1>2. ASSUME NEW x \in Content, Upload(x) PROVE RegistryInv'
    BY <1>2 DEF RegistryInv, Upload
<1>3. ASSUME NEW x \in Content, Expires(x) PROVE RegistryInv'
    BY <1>3 DEF RegistryInv, Expires
<1>4. CASE ~RegistryStep
    BY <1>4, RegistryAlone DEF RegistryInv, registry
<1> QED
    BY <1>1, <1>2, <1>3, <1>4 DEF RegistryStep

(***************************************************************************)
(* Nobody who asks after the first upload gets to replace an artifact, but *)
(* by a HEAD the store refuses.                                            *)
(***************************************************************************)
THEOREM ArtifactsStay == Spec => WriteOnce
<1>1. Init => RegistryInv
    BY DEF Init, RegistryInv
<1>2. RegistryInv /\ [Next]_vars => RegistryInv'
    BY RegistryInductive
<1>3. ASSUME RegistryInv, [Next]_vars
      PROVE  [object # NoObject /\ object' # object => object' \in rivals]_registry
    <2>1. SUFFICES ASSUME object # NoObject, object' # object PROVE object' \in rivals
        OBVIOUS
    <2>2. PICK x \in Content : Upload(x)
        BY <1>3, <2>1, RegistryAlone DEF registry, RegistryStep, PresignPut, Expires
    <2> QED
        BY <1>3, <2>1, <2>2 DEF Upload, RegistryInv
<1> QED
    BY <1>1, <1>2, <1>3, PTL DEF Spec, WriteOnce
=============================================================================
