---------------------------- MODULE PublishCases ---------------------------
(***************************************************************************)
(* A submission from its arrival to the pull request that publishes it:    *)
(* the handlers of cmd/publish-server/main.go on the case store of         *)
(* internal/publish/case.go, with the broker registration of Registrar.    *)
(*                                                                         *)
(* A case is a directory of files, each written in place by os.WriteFile   *)
(* (truncate, then write) and never locked. A request is a goroutine; so   *)
(* is the build a request leaves behind. One action per file operation.    *)
(***************************************************************************)
EXTENDS Registrar

CONSTANTS
  Sub,          \* submissions: what a publisher may post
  Case,         \* case ids, which are <app>-<version>
  CaseOf,       \* the case a submission is filed under
  AppOf,        \* the app of a case
  Managed,      \* submissions whose app the broker serves
  NoBuild,      \* the build of a case that has none
  MaxMishaps    \* bound: crashes and failed disk writes

ASSUME CasesAssumption ==
  /\ CaseOf \in [Sub -> Case] /\ AppOf \in [Case -> App]
  /\ Managed \subseteq Sub /\ NoBuild \notin Sub
  /\ MaxMishaps \in Nat
  /\ {Missing, Empty, Torn} \cap Sub = {}

VARIABLES
  disk,         \* disk[c][f]: what file f of the directory of case c holds
  call,         \* call[t]: the request, or the build, goroutine t is running
  \* History, read by no guard of the code:
  prs,          \* pull requests opened: the case, and what was staged
  raced,        \* cases a request came for while another one was at work on it
  mishaps

vars == <<registrarVars, disk, call, prs, raced, mishaps>>

Status == {"submitted", "building", "build_failed", "pending", "approved", "rejected"}

\* case.json: the submission, the review status, and what the bundle was built from.
CaseRecord == [status : Status, sub : Sub, build : Sub \cup {NoBuild}]
\* "bundle" is the tarballs with the metadata and the submission.json that pins them:
\* a submission where all of them are of that one, Torn where they do not agree.
File == {"bundle", "case"}
Unparsed == {Missing, Empty, Torn}
PR == [case : Case, of : Sub \cup {Missing, Torn}]

\* at: the next step. sub: the submission being built. new: the case record to be
\* written. file: which file is next, and then: what follows the last one. staged:
\* what the branch holds.
Idle == [at |-> "idle"]
Busy(t) == call[t] # Idle
At(t, p) == Busy(t) /\ call[t].at = p
Goes(t, p) == call' = [call EXCEPT ![t] = [at |-> p, case |-> call[t].case]]
Builds(t, p) == call' = [call EXCEPT ![t] = [at |-> p, case |-> call[t].case, sub |-> call[t].sub]]
Ends(t) == call' = [call EXCEPT ![t] = Idle]

CaseFile(c) == disk[c].case
Parses(c) == CaseFile(c) \notin Unparsed
HasStatus(c, st) == Parses(c) /\ CaseFile(c).status = st

Init ==
  /\ RegistrarInit
  /\ disk = [c \in Case |-> [bundle |-> Missing, case |-> Missing]]
  /\ call = [t \in Task |-> Idle]
  /\ prs = {} /\ raced = {} /\ mishaps = 0
-----------------------------------------------------------------------------
(* Writing files.                                                          *)

\* Task t is about to write file f, and case.json after it.
Write(t, c, sub, new, f, then) ==
  call' = [call EXCEPT ![t] = [at |-> "open", case |-> c, sub |-> sub, new |-> new,
                               file |-> f, then |-> then]]

Truncate(t) ==
  /\ At(t, "open")
  /\ disk' = [disk EXCEPT ![call[t].case][call[t].file] = Empty]
  /\ call' = [call EXCEPT ![t].at = "fill"]
  /\ UNCHANGED <<registrarVars, prs, raced, mishaps>>

\* writeBundleArtifacts stores the bundles that were built and a submission.json of
\* the submission that AttachBundle read.
Content(k) == IF k.file = "case" THEN k.new ELSE IF k.new.sub = k.sub THEN k.sub ELSE Torn

Fill(t) ==
  LET k == call[t] IN
  /\ At(t, "fill")
  /\ \E new \in Filled(disk[k.case][k.file], Content(k)) :
       disk' = [disk EXCEPT ![k.case][k.file] = new]
  /\ CASE k.file = "bundle" -> call' = [call EXCEPT ![t].at = "open", ![t].file = "case"]
       [] k.file = "case" /\ k.then = "compile" -> Builds(t, "compile")
       [] OTHER -> Ends(t)
  /\ UNCHANGED <<registrarVars, prs, raced, mishaps>>

\* A full disk: a handler answers 500 or goes on as if nothing had happened; a
\* build that cannot store its bundle is marked as failed.
WriteFails(t) ==
  /\ At(t, "open") \/ At(t, "fill")
  /\ mishaps < MaxMishaps /\ mishaps' = mishaps + 1
  /\ IF call[t].then = "attached" THEN Goes(t, "fail") ELSE Ends(t)
  /\ UNCHANGED <<registrarVars, disk, prs, raced>>
-----------------------------------------------------------------------------
(* Requests.                                                               *)

\* A request for case c begins; it may meet another one there.
Arrives(t, c) ==
  /\ ~Busy(t)
  /\ raced' = IF \E u \in Task : Busy(u) /\ call[u].case = c THEN raced \cup {c} ELSE raced

\* apiSubmit, apiUpdate (CreateSubmitted): refused when the case reads as approved.
Submit(t, s) ==
  LET c == CaseOf[s] IN
  /\ Arrives(t, c)
  /\ ~HasStatus(c, "approved")
  /\ Write(t, c, s, [status |-> "submitted", sub |-> s, build |-> NoBuild], "case", "idle")
  /\ UNCHANGED <<registrarVars, disk, prs, mishaps>>

\* An admin's request reads the case and goes on at p with what it read.
Admin(t, c, p) ==
  /\ Arrives(t, c) /\ Parses(c)
  /\ call' = [call EXCEPT ![t] = [at |-> p, case |-> c]]

\* Build: adminBuild.
Build(t, c) ==
  /\ Arrives(t, c)
  /\ HasStatus(c, "submitted") \/ HasStatus(c, "build_failed")
  /\ call' = [call EXCEPT ![t] = [at |-> "mark", case |-> c, sub |-> CaseFile(c).sub]]
  /\ UNCHANGED <<registrarVars, disk, prs, mishaps>>

Reject(t, c) ==
  /\ Admin(t, c, "rejected")
  /\ UNCHANGED <<registrarVars, disk, prs, mishaps>>

\* Mutant: any case may be approved.
ApproveAny(t, c) ==
  /\ Admin(t, c, IF CaseFile(c).sub \in Managed THEN "register" ELSE "stage")
  /\ IF CaseFile(c).sub \in Managed THEN Register(t, AppOf[c]) ELSE UNCHANGED registrarVars
  /\ UNCHANGED <<disk, prs, mishaps>>

\* Approve: adminApprove. A managed app is registered with the broker first.
Approve(t, c) ==
  /\ HasStatus(c, "pending")
  /\ Admin(t, c, IF CaseFile(c).sub \in Managed THEN "register" ELSE "stage")
  /\ IF CaseFile(c).sub \in Managed THEN Register(t, AppOf[c]) ELSE UNCHANGED registrarVars
  /\ UNCHANGED <<disk, prs, mishaps>>
-----------------------------------------------------------------------------
(* The rest of a request.                                                  *)

\* Where SetStatus is called, and what with.
Verdict == [mark |-> "building", fail |-> "build_failed", approved |-> "approved",
            retry |-> "pending", rejected |-> "rejected"]

\* Mutant: an unpublished case is marked like a published one.
PublishFailsApproved(t) ==
  /\ At(t, "stage") \/ At(t, "pr")
  /\ Goes(t, "approved")
  /\ UNCHANGED <<registrarVars, disk, prs, raced, mishaps>>

\* SetStatus reads the case again. When it does not parse, nothing is written; a
\* build then is not started, and nobody else looks at the error.
SetStatus(t) ==
  /\ Busy(t) /\ call[t].at \in DOMAIN Verdict
  /\ LET c == call[t].case IN
     IF Parses(c)
     THEN LET new == [CaseFile(c) EXCEPT !.status = Verdict[call[t].at]] IN
          IF At(t, "mark") THEN Write(t, c, call[t].sub, new, "case", "compile")
                           ELSE Write(t, c, new.sub, new, "case", "idle")
     ELSE Ends(t)
  /\ UNCHANGED <<registrarVars, disk, prs, raced, mishaps>>

\* buildAsync: BuildBundle, of the submission read by the request, ends or panics.
Compile(t) ==
  /\ At(t, "compile")
  /\ Builds(t, "attach") \/ Goes(t, "fail")
  /\ UNCHANGED <<registrarVars, disk, prs, raced, mishaps>>

\* AttachBundle reads the case that is there now.
Attach(t) ==
  /\ At(t, "attach")
  /\ LET c == call[t].case IN
     IF Parses(c)
     THEN Write(t, c, call[t].sub,
                [CaseFile(c) EXCEPT !.status = "pending", !.build = call[t].sub],
                "bundle", "attached")
     ELSE Goes(t, "fail")
  /\ UNCHANGED <<registrarVars, disk, prs, raced, mishaps>>

\* registerManaged returns, whether or not the app is registered.
Registered(t) ==
  /\ At(t, "register") /\ ~Working(t)
  /\ Goes(t, "stage")
  /\ UNCHANGED <<registrarVars, disk, prs, raced, mishaps>>

\* TriggerPublish: clone, copyDir, commit and push to a branch ...
Stage(t) ==
  LET c == call[t].case IN
  /\ At(t, "stage")
  /\ call' = [call EXCEPT ![t] = [at |-> "pr", case |-> c,
                                  staged |-> IF disk[c].bundle = Empty THEN Torn
                                             ELSE disk[c].bundle]]
  /\ UNCHANGED <<registrarVars, disk, prs, raced, mishaps>>

\* ... and a pull request, whose answer may be lost.
OpenPR(t) ==
  /\ At(t, "pr")
  /\ prs' = prs \cup {[case |-> call[t].case, of |-> call[t].staged]}
  /\ Goes(t, "approved") \/ Goes(t, "retry")
  /\ UNCHANGED <<registrarVars, disk, raced, mishaps>>

PublishFails(t) ==
  /\ At(t, "stage") \/ At(t, "pr")
  /\ Goes(t, "retry")
  /\ UNCHANGED <<registrarVars, disk, prs, raced, mishaps>>

Registers(t) == RegisterStep(t) /\ UNCHANGED <<disk, call, prs, raced, mishaps>>

Crash ==
  /\ mishaps < MaxMishaps /\ mishaps' = mishaps + 1
  /\ call' = [t \in Task |-> Idle]
  /\ RegistrarCrash
  /\ UNCHANGED <<disk, prs, raced>>

Serve(t) ==
  \/ Truncate(t) \/ Fill(t) \/ SetStatus(t) \/ Compile(t) \/ Attach(t)
  \/ Registers(t) \/ Registered(t) \/ Stage(t) \/ OpenPR(t) \/ PublishFails(t)

Next ==
  \/ \E t \in Task :
       \/ \E s \in Sub : Submit(t, s)
       \/ \E c \in Case : Build(t, c) \/ Approve(t, c) \/ Reject(t, c)
       \/ Serve(t) \/ WriteFails(t)
  \/ Crash

Spec == Init /\ [][Next]_vars
-----------------------------------------------------------------------------
(* Properties.                                                             *)

\* What a task holds at each of its points.
Waiter == [at : {"register", "stage", "fail", "approved", "retry", "rejected"}, case : Case]
Builder == [at : {"mark", "compile", "attach"}, case : Case, sub : Sub]
Writer == [at : {"open", "fill"}, case : Case, sub : Sub, new : CaseRecord, file : File,
           then : {"idle", "compile", "attached"}]
Opener == [at : {"pr"}, case : Case, staged : Sub \cup {Missing, Torn}]
Call == Waiter \cup Builder \cup Writer \cup Opener

\* The state has its type: above all, a case has one of the six statuses.
TypeOK ==
  /\ RegistrarTypeOK
  /\ disk \in [Case -> [bundle : Unparsed \cup Sub, case : Unparsed \cup CaseRecord]]
  /\ call \in [Task -> Call \cup {Idle}]
  /\ prs \subseteq PR
  /\ raced \subseteq Case /\ mishaps \in Nat

\* A case that reads as approved has a pull request, whatever runs beside its
\* approval, fails or crashes ("approved + broker-registered; catalog PR opened",
\* main.go:530).
ApprovedHasPR ==
  \A c \in Case : HasStatus(c, "approved") => \E p \in prs : p.case = c

\* Where the requests for a case, and the builds they leave behind, come one at a
\* time, it is what was reviewed that is published: an approved case has a pull
\* request with bundles built from its own submission and pinned beside it, although
\* it may have been submitted again, half built when the process died, or retried.
ReviewedIsPublished ==
  \A c \in Case \ raced :
    HasStatus(c, "approved") =>
      LET s == CaseFile(c).sub IN
      /\ CaseFile(c).build = s
      /\ [case |-> c, of |-> s] \in prs

\* Only apps with a stored build are staged or known to the broker: approval is for
\* pending cases (main.go:514-517), and a case is pending when its files are there.
OnlyBuiltIsReleased ==
  /\ \A p \in prs : p.of # Missing
  /\ \A a \in Entries(registry) \ Existing :
       \E c \in Case : AppOf[c] = a /\ disk[c].bundle # Missing

\* Task t will write what became of the build of case c.
WillFinish(t, c) ==
  /\ Busy(t) /\ call[t].case = c
  /\ \/ call[t].at \in {"compile", "attach", "fail"}
     \/ /\ call[t].at \in {"open", "fill"}
        /\ call[t].then = "compile" \/ call[t].new.status # "building"

\* A build ends: "submitted/build_failed -> building -> pending (or build_failed)"
\* (main.go:365-366). A case that reads as building has a task that will write what
\* became of it, however many builds and requests meet on it, as long as the process
\* lives and can write.
BuildingHasBuilder ==
  \A c \in Case : HasStatus(c, "building") /\ mishaps = 0 => \E t \in Task : WillFinish(t, c)
=============================================================================
