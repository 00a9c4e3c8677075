------------------------------- MODULE Catalogue -------------------------------
(***************************************************************************)
(* The catalogue entry of one app: who owns it, and how a submission       *)
(* becomes it (internal/catalogue, internal/publish, cmd/publish-server).  *)
(*                                                                         *)
(* A submission is gated against the live catalogue where it comes in, in  *)
(* the check of its pull request and once more when it is published; the   *)
(* publisher then clones the catalogue and proposes it with the entry      *)
(* replaced.  Publications run beside each other and beside rotations of   *)
(* the app's publisher key.  Catalogue and signature are replaced whole,   *)
(* so that a proposal merges only into what it was cloned from.            *)
(***************************************************************************)
EXTENDS Naturals

CONSTANTS
    Sub,          \* submissions of the app
    Ver, Signer,  \* their version, by rank, and the key their bundle is signed with
    Form, Rich,   \* those of the web form; those whose bundle is not with them
    Key, PlatformKey,
    Content,      \* what is uploaded as the app's artifact
    MaxRotations  \* bound

NoEntry  == [ver |-> "none"]
NoObject == "no_object"
Nothing  == "nothing"
Rotation == "rotation"
Unknown  == "unknown"      \* the signer of a bundle that is not built yet

ASSUME SubAssumption ==
    /\ Ver \in [Sub -> Nat] /\ Signer \in [Sub -> Key]
    /\ Form \cap Rich = {}
    /\ \A s \in Form : Signer[s] = PlatformKey
    /\ {Rotation, Nothing} \cap Sub = {} /\ Unknown \notin Key
ASSUME RotationBound == MaxRotations \in Nat

Places == {"new", "case", "pull_request", "checked", "main", "gated", "released", "proposed", "failed"}

VARIABLES
    live,       \* the entry of the live catalogue
    place,      \* where each submission is
    seen,       \* the entry its last gate read
    main,       \* the submission in submissions/<id>/
    release,    \* per version: whose bundle is released under its tag
    proposals,  \* open pull requests with a new catalogue
    rotations,
    object,     \* the artifact in the registry
    urls,       \* upload URLs that have not expired
    rivals      \* history: those of them that were out at the first upload, or
                \* were given out later on a HEAD the store refused

registry == <<object, urls, rivals>>
vars     == <<live, place, seen, main, release, proposals, rotations, registry>>

Init ==
    /\ live = NoEntry
    /\ place = [s \in Sub |-> "new"] /\ seen = [s \in Sub |-> NoEntry]
    /\ main = Nothing
    /\ release = [v \in {Ver[s] : s \in Sub} |-> Nothing]
    /\ proposals = {} /\ rotations = 0
    /\ object = NoObject /\ urls = {} /\ rivals = {}

Listed == live # NoEntry

(***************************************************************************)
(* The gate.                                                               *)
(***************************************************************************)
Downgrade(version, owner) == version < owner.ver

\* Mutant: the version is compared, the signer is not.
CheckUpdateVersion(owner, version, publisher) ==
    owner # NoEntry => ~Downgrade(version, owner)

CheckUpdate(owner, version, publisher) ==
    owner # NoEntry => ~Downgrade(version, owner) /\ publisher \in {owner.pin, Unknown}

NewPublisher(s) == IF s \in Rich THEN Unknown ELSE Signer[s]

VerifyUpdate(s) == CheckUpdate(live, Ver[s], NewPublisher(s))

gateOwnership(s, isUpdate) ==
    /\ isUpdate <=> Listed
    /\ CheckUpdate(live, Ver[s], PlatformKey)

(***************************************************************************)
(* A submission, to the main branch.                                       *)
(***************************************************************************)
Goes(s, to) ==
    /\ place' = [place EXCEPT ![s] = to]
    /\ UNCHANGED <<rotations, registry>>

\* The last gate a submission passes: a rich one is not gated when published.
Gates(s, from) == from = "main" \/ s \in Rich

Gated(s, from, to) ==
    /\ place[s] = from /\ VerifyUpdate(s)
    /\ seen' = IF Gates(s, from) THEN [seen EXCEPT ![s] = live] ELSE seen
    /\ Goes(s, to)
    /\ UNCHANGED <<live, main, release, proposals>>

Ingest(s) ==
    /\ place[s] = "new" /\ s \in Form
    /\ \E isUpdate \in BOOLEAN : gateOwnership(s, isUpdate)
    /\ Goes(s, "case")
    /\ UNCHANGED <<live, seen, main, release, proposals>>

\* The approval of a case, or the author: either opens the pull request.
OpenPR(s) ==
    /\ place[s] = IF s \in Form THEN "case" ELSE "new"
    /\ Goes(s, "pull_request")
    /\ UNCHANGED <<live, seen, main, release, proposals>>

SubmissionValidate(s) == Gated(s, "pull_request", "checked")

\* Merged by hand, however old the check is.
MergeSubmission(s) ==
    /\ place[s] = "checked"
    /\ main' = s
    /\ Goes(s, "main")
    /\ UNCHANGED <<live, seen, release, proposals>>

(***************************************************************************)
(* Publication (publish-on-merge), a job for each merge, or started again  *)
(* by hand for what is on main.                                            *)
(***************************************************************************)
PublishGate(s) == s \notin Rich /\ Gated(s, "main", "gated")

\* Mutant: the tag of a release is the app's name alone.
TagOfApp(s) == DOMAIN release

Tag(s) == {Ver[s]}

\* gh release upload --clobber.
Release(s) ==
    /\ place[s] = "gated"
    /\ release' = [v \in DOMAIN release |-> IF v \in Tag(s) THEN s ELSE release[v]]
    /\ Goes(s, "released")
    /\ UNCHANGED <<live, seen, main, proposals>>

Forgotten(s) == seen' = IF s \in Rich THEN seen ELSE [seen EXCEPT ![s] = NoEntry]

\* The bundles of a rich submission are elsewhere, and it is not gated again.
Publishable(s) == place[s] = IF s \in Rich THEN "main" ELSE "released"

BranchTaken(s) == \E p \in proposals : p.by # Rotation /\ Ver[p.by] = Ver[s]

Propose(s) ==
    /\ Publishable(s) /\ ~BranchTaken(s)
    /\ proposals' = proposals \cup
         {[by |-> s, seen |-> seen[s], base |-> live,
           entry |-> [ver |-> Ver[s], pin |-> Signer[s], bundle |-> s]]}
    /\ Forgotten(s)
    /\ Goes(s, "proposed")
    /\ UNCHANGED <<live, main, release>>

JobFails(s) ==
    /\ place[s] \in {"main", "gated", "released"}
    /\ Forgotten(s)
    /\ Goes(s, "failed")
    /\ UNCHANGED <<live, main, release, proposals>>

Dispatch(s) ==
    /\ main = s /\ place[s] \in {"failed", "proposed"}
    /\ Goes(s, "main")
    /\ UNCHANGED <<live, seen, main, release, proposals>>

RotatePublisher(k) ==
    /\ Listed /\ rotations < MaxRotations
    /\ rotations' = rotations + 1
    /\ proposals' = proposals \cup
         {[by |-> Rotation, seen |-> live, base |-> live, entry |-> [live EXCEPT !.pin = k]]}
    /\ UNCHANGED <<live, place, seen, main, release, registry>>

(***************************************************************************)
(* The catalogue repository: a proposal whose bundle is served             *)
(* (VerifyCatalogue) may be merged if nothing was merged since its clone.  *)
(***************************************************************************)
Served(entry) == entry.bundle \in Rich \/ release[entry.ver] = entry.bundle

MergeProposal(p) ==
    /\ p.base = live /\ Served(p.entry)
    /\ live' = p.entry
    /\ proposals' = proposals \ {p}
    /\ UNCHANGED <<place, seen, main, release, rotations, registry>>

CloseProposal(p) ==
    /\ proposals' = proposals \ {p}
    /\ UNCHANGED <<live, place, seen, main, release, rotations, registry>>

(***************************************************************************)
(* The artifact registry: one key, of one version and platform.            *)
(***************************************************************************)
catalogueUnchanged == UNCHANGED <<live, place, seen, main, release, proposals, rotations>>

\* What the object store answers a HEAD: 403 is for it to decide.
HeadStatus == {IF object = NoObject THEN 404 ELSE 200, 403}

\* Mutant: nobody looks at the answer.
FreeAlways(status) == TRUE

Free(status) == status \in {404, 403}

ObjectExists(status) == ~Free(status)

\* The look and the signature are one step: an upload that comes between them
\* finds what it finds right after them.
PresignPut(x) ==
    /\ x \notin urls
    /\ \E status \in HeadStatus :
          /\ ~ObjectExists(status)
          /\ rivals' = IF object # NoObject /\ status = 403 THEN rivals \cup {x} ELSE rivals
    /\ urls' = urls \cup {x}
    /\ UNCHANGED object /\ catalogueUnchanged

Upload(x) ==
    /\ x \in urls
    /\ object' = x
    /\ rivals' = IF object = NoObject THEN urls ELSE rivals
    /\ UNCHANGED urls /\ catalogueUnchanged

Expires(x) ==
    /\ x \in urls
    /\ urls' = urls \ {x} /\ rivals' = rivals \ {x}
    /\ UNCHANGED object /\ catalogueUnchanged

Next ==
    \/ \E s \in Sub :
          \/ Ingest(s) \/ OpenPR(s) \/ SubmissionValidate(s) \/ MergeSubmission(s)
          \/ PublishGate(s) \/ Release(s) \/ Propose(s) \/ JobFails(s) \/ Dispatch(s)
    \/ \E k \in Key : RotatePublisher(k)
    \/ \E p \in proposals : MergeProposal(p) \/ CloseProposal(p)
    \/ \E x \in Content : PresignPut(x) \/ Upload(x) \/ Expires(x)

Spec == Init /\ [][Next]_vars
-----------------------------------------------------------------------------
(***************************************************************************)
(* Properties.                                                             *)
(***************************************************************************)
Entry == [ver : Nat, pin : Key, bundle : Sub]

Proposal ==
    [by : Sub \cup {Rotation}, seen : Entry \cup {NoEntry}, base : Entry \cup {NoEntry}, entry : Entry]

\* Every variable has its type.
TypeOK ==
    /\ live \in Entry \cup {NoEntry}
    /\ place \in [Sub -> Places]
    /\ seen \in [Sub -> Entry \cup {NoEntry}]
    /\ main \in Sub \cup {Nothing}
    /\ release \in [{Ver[s] : s \in Sub} -> Sub \cup {Nothing}]
    /\ proposals \subseteq Proposal
    /\ rotations \in 0 .. MaxRotations
    /\ object \in Content \cup {NoObject}
    /\ urls \subseteq Content /\ rivals \subseteq Content

(***************************************************************************)
(* UPDATING.md:61-76, remote.go:77-88: a listed app changes hands only by  *)
(* a rotation and its version never goes back, whatever was submitted,     *)
(* checked, merged and proposed in which order.  Two lapses: a proposal    *)
(* whose gate read an older entry than its clone, and a rich submission,   *)
(* whose signer no gate of the publication compares.                       *)
(***************************************************************************)
Regular(p) == p.by # Rotation /\ p.seen = live

UpdatesAreGated ==
    [][Listed /\ live' # live =>
         \E p \in proposals :
            /\ p.entry = live'
            /\ p.by = Rotation => live' = [live EXCEPT !.pin = live'.pin]
            /\ Regular(p) => /\ live'.ver >= live.ver
                             /\ p.by \in Rich \/ live'.pin = live.pin]_vars

(***************************************************************************)
(* publish-submission.sh:91-96 and VerifyCatalogue: the bundle the live    *)
(* entry pins is the one released under its tag, whatever later            *)
(* submissions release or fail at; excepted is a second submission of the  *)
(* same version, whose bundle takes the place of the first at once, before *)
(* its catalogue is merged, or if it never is.                             *)
(***************************************************************************)
SecondOfItsVersion(s) ==
    \E t \in Sub \ (Rich \cup {s}) : Ver[t] = Ver[s] /\ place[t] \notin {"new", "case", "pull_request", "checked"}

LiveIsServed == Listed /\ ~SecondOfItsVersion(live.bundle) => Served(live)

(***************************************************************************)
(* apiArtifactPresign (main.go:328-333): an artifact is write-once, though *)
(* the look for it and the upload are minutes apart and nothing joins them.*)
(* What replaces an uploaded artifact comes by a URL that was out at the   *)
(* first upload and has not expired since: nobody who asks later gets to   *)
(* replace it, and once those have expired it is final.  The lapse is a    *)
(* HEAD that the store refuses: ObjectExists calls that key free too       *)
(* (artifact.go:160), whatever is there.                                   *)
(***************************************************************************)
WriteOnce ==
    [][object # NoObject /\ object' # object => object' \in rivals]_registry
=============================================================================
