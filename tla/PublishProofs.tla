---------------------------- MODULE PublishProofs --------------------------
(***************************************************************************)
(* Theorems about Registrar and PublishCases, for every number of tasks,   *)
(* cases, submissions and apps.                                            *)
(***************************************************************************)
EXTENDS PublishCases, TLAPS

(* The registrar.                                                          *)

\* A registration under way has all its fields.
LEMMA JobFields ==
  ASSUME RegistrarTypeOK, NEW t \in Task, job[t].at # "idle" \/ Working(t)
  PROVE  /\ Working(t) /\ job[t] \in Job
         /\ job[t].at \in {"read", "open", "write", "rename"}
         /\ job[t].app \in App /\ job[t].entries \subseteq App
         /\ job[t].file \in {"none", "temp", "registry", "gone"}
<1>1. job[t] # NoJob
  BY DEF NoJob, Working
<1>2. job[t] \in Job
  BY <1>1 DEF RegistrarTypeOK
<1>3. QED
  BY <1>1, <1>2 DEF Job, Working

\* A list of entries is readable, and is what a reader takes from the file.
LEMMA ListsAreReadable ==
  ASSUME NEW e \in SUBSET App
  PROVE  Readable(e) /\ Entries(e) = e
BY UnreadableIsNoList DEF Readable, Entries

\* What is in a file is a list of apps for whoever reads it.
LEMMA EntriesAreApps ==
  ASSUME RegistrarTypeOK PROVE Entries(registry) \subseteq App
BY DEF RegistrarTypeOK, Entries

\* With one registration at a time, nothing that was confirmed is missing: not in the
\* file, not in the list about to replace it, and .tmp belongs to that registration.
Alone ==
  /\ \A t, u \in Task : Working(t) /\ Working(u) => t = u
  /\ Readable(registry)
  /\ confirmed \subseteq Entries(registry)
  /\ \A t \in Task : Working(t) =>
       /\ job[t].at # "read" => confirmed \cup {job[t].app} \subseteq job[t].entries
       /\ job[t].at \in {"write", "rename"} => job[t].file = "temp"
       /\ job[t].at = "write" => temp = Empty
       /\ job[t].at = "rename" => temp = job[t].entries

RegistryInv == RegistrarTypeOK /\ (~overlapped => Alone)

\* The registry's invariant holds at the start.
LEMMA RegistryInit == RegistrarInit => RegistryInv
<1> SUFFICES ASSUME RegistrarInit PROVE RegistryInv
  OBVIOUS
<1>1. RegistrarTypeOK
  BY ExistingAreApps DEF RegistrarInit, RegistrarTypeOK
<1>2. Readable(registry) /\ confirmed \subseteq Entries(registry)
  BY ExistingAreApps, FilesDiffer, UnreadableIsNoList, ListsAreReadable
     DEF RegistrarInit, Entries, Readable
<1>3. QED
  BY <1>1, <1>2 DEF RegistryInv, Alone, RegistrarInit, Working

\* Every step of the registrar keeps the invariant.
LEMMA RegistryNext == RegistryInv /\ [RegistrarNext]_registrarVars => RegistryInv'
<1> SUFFICES ASSUME RegistryInv, [RegistrarNext]_registrarVars PROVE RegistryInv'
  OBVIOUS
<1> USE DEF RegistryInv, Working
<1>0. RegistrarTypeOK
  OBVIOUS
<1>1. ASSUME NEW t \in Task, NEW a \in App, Register(t, a) PROVE RegistryInv'
  <2>1. RegistrarTypeOK'
    BY <1>0, <1>1 DEF Register, RegistrarTypeOK, Job
  <2>2. ASSUME ~overlapped' PROVE Alone'
    <3>1. ~overlapped /\ \A u \in Task : ~Working(u)
      BY <1>1, <2>2 DEF Register
    <3>2. Alone
      BY <3>1
    <3>3. \A u \in Task : Working(u)' => u = t
      BY <1>0, <1>1, <3>1 DEF Register, RegistrarTypeOK
    <3>4. job'[t].at = "read"
      BY <1>0, <1>1 DEF Register, RegistrarTypeOK
    <3>5. QED
      BY <1>1, <3>2, <3>3, <3>4 DEF Register, Alone, Entries, Readable
  <2>3. QED
    BY <2>1, <2>2
<1>2. ASSUME NEW t \in Task, ReadEntries(t) PROVE RegistryInv'
  <2>0. /\ Working(t) /\ job[t] \in Job /\ job[t].app \in App /\ Entries(registry) \subseteq App
    BY <1>0, <1>2, JobFields, EntriesAreApps DEF ReadEntries
  <2>1. RegistrarTypeOK'
    <3>1. [job[t] EXCEPT !.at = "open", !.entries = Entries(registry) \cup {job[t].app}] \in Job
      BY <2>0 DEF Job
    <3>2. QED
      BY <1>0, <1>2, <3>1 DEF ReadEntries, Leaves, RegistrarTypeOK
  <2>2. ASSUME ~overlapped' PROVE Alone'
    <3>1. Alone /\ UNCHANGED <<registry, temp, confirmed>>
      BY <1>2, <2>2 DEF ReadEntries
    <3>2. \A u \in Task : Working(u)' => u = t
      BY <1>0, <1>2, <2>0, <3>1 DEF ReadEntries, Alone, RegistrarTypeOK, Leaves
    <3>3. Working(t)' => job'[t].at = "open" /\ confirmed \cup {job'[t].app} \subseteq job'[t].entries
      BY <1>0, <1>2, <2>0, <3>1 DEF ReadEntries, Alone, RegistrarTypeOK, Leaves, Job
    <3>4. QED
      BY <3>1, <3>2, <3>3 DEF Alone, Entries, Readable
  <2>3. QED
    BY <2>1, <2>2
<1>3. ASSUME NEW t \in Task, OpenTemp(t) PROVE RegistryInv'
  <2>0. Working(t) /\ job[t] \in Job
    BY <1>0, <1>3, JobFields DEF OpenTemp
  <2>1. RegistrarTypeOK'
    <3>1. [job[t] EXCEPT !.at = "write", !.file = "temp"] \in Job
      BY <2>0 DEF Job
    <3>2. QED
      BY <1>0, <1>3, <3>1 DEF OpenTemp, RegistrarTypeOK
  <2>2. ASSUME ~overlapped' PROVE Alone'
    <3>1. Alone /\ UNCHANGED <<registry, confirmed>> /\ temp' = Empty
      BY <1>3, <2>2 DEF OpenTemp
    <3>2. \A u \in Task : Working(u)' => u = t
      BY <1>0, <1>3, <2>0, <3>1 DEF OpenTemp, Alone, RegistrarTypeOK
    <3>3. /\ job'[t].at = "write" /\ job'[t].file = "temp"
          /\ confirmed \cup {job'[t].app} \subseteq job'[t].entries
      BY <1>0, <1>3, <2>0, <3>1 DEF OpenTemp, Alone, RegistrarTypeOK, Job
    <3>4. QED
      BY <3>1, <3>2, <3>3 DEF Alone, Entries, Readable
  <2>3. QED
    BY <2>1, <2>2
<1>4. ASSUME NEW t \in Task, WriteTemp(t) PROVE RegistryInv'
  <2>0. Working(t) /\ job[t] \in Job /\ job[t].entries \in SUBSET App
    BY <1>0, <1>4, JobFields DEF WriteTemp
  <2>1. RegistrarTypeOK'
    <3>1. [job[t] EXCEPT !.at = "rename"] \in Job
      BY <2>0 DEF Job
    <3>2. QED
      BY <1>0, <1>4, <2>0, <3>1 DEF WriteTemp, RegistrarTypeOK, Filled
  <2>2. ASSUME ~overlapped' PROVE Alone'
    <3>0. Alone /\ UNCHANGED confirmed
      BY <1>4, <2>2 DEF WriteTemp
    <3>1. registry' = registry /\ temp' = job[t].entries
      BY <1>4, <2>0, <3>0 DEF WriteTemp, Alone, Filled
    <3>2. \A u \in Task : Working(u)' => u = t
      BY <1>0, <1>4, <2>0, <3>0 DEF WriteTemp, Alone, RegistrarTypeOK
    <3>3. /\ job'[t].at = "rename" /\ job'[t].file = "temp" /\ temp' = job'[t].entries
          /\ confirmed \cup {job'[t].app} \subseteq job'[t].entries
      BY <1>0, <1>4, <2>0, <3>0, <3>1 DEF WriteTemp, Alone, RegistrarTypeOK, Job
    <3>4. QED
      BY <3>0, <3>1, <3>2, <3>3 DEF Alone, Entries, Readable
  <2>3. QED
    BY <2>1, <2>2
<1>5. ASSUME NEW t \in Task, Rename(t) PROVE RegistryInv'
  <2>0. /\ Working(t) /\ job[t] \in Job /\ job[t].app \in App
        /\ job[t].entries \in SUBSET App
    BY <1>0, <1>5, JobFields DEF Rename
  <2>1. RegistrarTypeOK'
    <3>1. job' \in [Task -> Job \cup {NoJob}]
      <4>1. CASE temp = Missing
        BY <1>0, <1>5, <4>1 DEF Rename, Leaves, RegistrarTypeOK
      <4>2. CASE temp # Missing
        <5>1. job' = [u \in Task |-> IF u = t \/ ~Working(u) THEN NoJob
                                     ELSE [job[u] EXCEPT !.file = AfterRename(@)]]
          BY <1>5, <4>2 DEF Rename
        <5>2. ASSUME NEW u \in Task, Working(u)
              PROVE  [job[u] EXCEPT !.file = AfterRename(@)] \in Job
          BY <1>0, <5>2, JobFields DEF Job, AfterRename
        <5>3. QED
          BY <5>1, <5>2
      <4>3. QED
        BY <4>1, <4>2
    <3>2. QED
      BY <1>0, <1>5, <2>0, <3>1 DEF Rename, RegistrarTypeOK
  <2>2. ASSUME ~overlapped' PROVE Alone'
    <3>0. Alone
      BY <1>5, <2>2 DEF Rename
    <3>1. temp = job[t].entries /\ temp \in SUBSET App /\ temp # Missing
      BY <1>5, <2>0, <3>0, UnreadableIsNoList DEF Rename, Alone
    <3>2. registry' = temp /\ confirmed' = confirmed \cup {job[t].app}
      BY <1>5, <3>1 DEF Rename
    <3>3. \A u \in Task : ~Working(u)'
      BY <1>5, <2>0, <3>0, <3>1 DEF Rename, Alone
    <3>4. Readable(registry)' /\ Entries(registry)' = temp
      BY <3>1, <3>2, ListsAreReadable DEF Readable, Entries
    <3>5. confirmed' \subseteq temp
      BY <1>5, <2>0, <3>0, <3>1, <3>2 DEF Rename, Alone
    <3>6. QED
      BY <3>3, <3>4, <3>5 DEF Alone
  <2>3. QED
    BY <2>1, <2>2
<1>6. ASSUME NEW t \in Task, RegisterFails(t) PROVE RegistryInv'
  <2>1. RegistrarTypeOK'
    BY <1>0, <1>6 DEF RegisterFails, Leaves, RegistrarTypeOK
  <2>2. ASSUME ~overlapped' PROVE Alone'
    <3>1. Alone /\ UNCHANGED <<registry, temp, confirmed>>
      BY <1>6, <2>2 DEF RegisterFails
    <3>2. \A u \in Task : ~Working(u)'
      BY <1>0, <1>6, <3>1 DEF RegisterFails, Leaves, Alone, RegistrarTypeOK
    <3>3. QED
      BY <3>1, <3>2 DEF Alone, Entries, Readable
  <2>3. QED
    BY <2>1, <2>2
<1>7. CASE RegistrarCrash
  BY <1>0, <1>7 DEF RegistrarCrash, Alone, RegistrarTypeOK, Entries, Readable
<1>8. CASE UNCHANGED registrarVars
  BY <1>0, <1>8 DEF registrarVars, Alone, RegistrarTypeOK, Entries, Readable
<1>9. QED
  BY <1>1, <1>2, <1>3, <1>4, <1>5, <1>6, <1>7, <1>8 DEF RegistrarNext, RegisterStep

\* Registrations that come one at a time always leave the broker a whole file and
\* drop no entry, whatever fails and whenever the process dies.
THEOREM RegistrarKeeps == RegistrarSpec => [](RegistryComplete /\ RegistrationsKept)
<1>1. RegistryInv => RegistryComplete /\ RegistrationsKept
  BY DEF RegistryInv, Alone, RegistryComplete, NeverHalfWritten, RegistrationsKept
<1>2. RegistrarSpec => []RegistryInv
  BY RegistryInit, RegistryNext, PTL DEF RegistrarSpec
<1>3. QED
  BY <1>1, <1>2, PTL
-----------------------------------------------------------------------------
(* The publish server.                                                     *)

\* A step of the publish server is a step of the registrar or leaves it alone.
LEMMA ServerRegisters == [Next]_vars => [RegistrarNext]_registrarVars
<1> SUFFICES ASSUME [Next]_vars PROVE [RegistrarNext]_registrarVars
  OBVIOUS
<1>1. ASSUME NEW t \in Task, NEW c \in Case, Approve(t, c)
      PROVE  [RegistrarNext]_registrarVars
  <2>1. AppOf[c] \in App
    BY CasesAssumption
  <2>2. QED
    BY <1>1, <2>1 DEF Approve, RegistrarNext
<1>2. ASSUME NEW t \in Task, Registers(t) PROVE RegistrarNext
  BY <1>2 DEF Registers, RegistrarNext
<1>3. CASE Crash
  BY <1>3 DEF Crash, RegistrarNext
<1>4. QED
  BY <1>1, <1>2, <1>3
     DEF Next, Serve, Submit, Build, Reject, Truncate, Fill, SetStatus, Compile, Attach,
         Registered, Stage, OpenPR, PublishFails, WriteFails, vars

\* The publish server implements the registrar.
THEOREM ServerImplementsRegistrar == Spec => RegistrarSpec
<1>1. Init => RegistrarInit
  BY DEF Init
<1>2. QED
  BY <1>1, ServerRegisters, PTL DEF Spec, RegistrarSpec

\* "atomic swap so the broker never reads a half-written file"
\* (broker_register.go:177), where approvals do not overlap.
THEOREM RegistryWhole == Spec => []RegistryComplete
  BY ServerImplementsRegistrar, RegistrarKeeps, PTL

\* What Register reported as done, and what operators had written, stays in the
\* registry where approvals do not overlap (broker_register.go:119-123).
THEOREM NothingDropped == Spec => []RegistrationsKept
  BY ServerImplementsRegistrar, RegistrarKeeps, PTL

\* A request or build under way has the fields of its point.
LEMMA CallFields ==
  ASSUME TypeOK, NEW t \in Task, Busy(t)
  PROVE  /\ call[t] \in Call /\ call[t].case \in Case
         /\ call[t].at \in {"open", "fill"} => call[t] \in Writer
         /\ call[t].at \in {"mark", "compile", "attach"} => call[t] \in Builder
         /\ call[t].at = "pr" => call[t] \in Opener
<1>1. call[t] \in Call
  BY DEF TypeOK, Busy
<1>2. QED
  BY <1>1 DEF Call, Waiter, Builder, Writer, Opener

\* A case that parses is a record.
LEMMA ParsedIsRecord ==
  ASSUME TypeOK, NEW c \in Case, Parses(c)
  PROVE  CaseFile(c) \in CaseRecord
BY DEF TypeOK, Parses, CaseFile

\* The initial states have the types.
LEMMA InitTyped == Init => TypeOK
<1> SUFFICES ASSUME Init PROVE TypeOK
  OBVIOUS
<1>1. RegistrarTypeOK
  BY RegistryInit DEF Init, RegistryInv
<1>2. QED
  BY <1>1, CasesAssumption DEF Init, TypeOK, Unparsed

\* A task that begins to write has a writer's fields.
LEMMA WriteTyped ==
  ASSUME TypeOK, NEW t \in Task, NEW c \in Case, NEW sub \in Sub, NEW new \in CaseRecord,
         NEW f \in File, NEW then \in {"idle", "compile", "attached"},
         Write(t, c, sub, new, f, then)
  PROVE  call' \in [Task -> Call \cup {Idle}]
BY DEF Write, TypeOK, Call, Writer

\* Every step keeps the type.
LEMMA NextTyped == TypeOK /\ RegistryInv /\ [Next]_vars => TypeOK'
<1> SUFFICES ASSUME TypeOK, RegistryInv, [Next]_vars PROVE TypeOK'
  OBVIOUS
<1>0. RegistrarTypeOK'
  BY ServerRegisters, RegistryNext DEF RegistryInv
<1> USE <1>0, CasesAssumption
<1>1. ASSUME NEW t \in Task, NEW s \in Sub, Submit(t, s) PROVE TypeOK'
  <2>1. /\ CaseOf[s] \in Case
        /\ [status |-> "submitted", sub |-> s, build |-> NoBuild] \in CaseRecord
    BY DEF CaseRecord, Status
  <2>2. call' \in [Task -> Call \cup {Idle}]
    BY <1>1, <2>1, WriteTyped DEF Submit, File
  <2>3. QED
    BY <1>1, <2>1, <2>2 DEF Submit, Arrives, TypeOK
<1>2. ASSUME NEW t \in Task, NEW c \in Case, Build(t, c) PROVE TypeOK'
  <2>1. CaseFile(c) \in CaseRecord
    BY <1>2, ParsedIsRecord DEF Build, HasStatus
  <2>2. [at |-> "mark", case |-> c, sub |-> CaseFile(c).sub] \in Call
    BY <2>1 DEF Call, Builder, CaseRecord
  <2>3. QED
    BY <1>2, <2>2 DEF Build, Arrives, TypeOK
<1>3. ASSUME NEW t \in Task, NEW c \in Case, Approve(t, c) \/ Reject(t, c) PROVE TypeOK'
  <2>1. PICK p \in {"register", "stage", "rejected"} : Admin(t, c, p)
    BY <1>3 DEF Approve, Reject
  <2>2. [at |-> p, case |-> c] \in Call
    BY DEF Call, Waiter
  <2>3. QED
    BY <1>3, <2>1, <2>2 DEF Approve, Reject, Admin, Arrives, TypeOK
<1>4. ASSUME NEW t \in Task, Truncate(t) PROVE TypeOK'
  <2>1. /\ call[t] \in Writer /\ call[t].case \in Case /\ call[t].file \in File
    BY <1>4, CallFields DEF Truncate, At, Writer
  <2>2. [call[t] EXCEPT !.at = "fill"] \in Call
    BY <2>1 DEF Call, Writer
  <2>3. disk' \in [Case -> [bundle : Unparsed \cup Sub, case : Unparsed \cup CaseRecord]]
    BY <1>4, <2>1 DEF Truncate, TypeOK, File, Unparsed
  <2>4. QED
    BY <1>4, <2>2, <2>3 DEF Truncate, TypeOK
<1>5. ASSUME NEW t \in Task, Fill(t) PROVE TypeOK'
  <2>1. /\ call[t] \in Writer /\ call[t].case \in Case /\ call[t].file \in File
        /\ call[t].sub \in Sub /\ call[t].new \in CaseRecord
    BY <1>5, CallFields DEF Fill, At, Writer
  <2>2. PICK new \in Filled(disk[call[t].case][call[t].file], Content(call[t])) :
          disk' = [disk EXCEPT ![call[t].case][call[t].file] = new]
    BY <1>5 DEF Fill
  <2>3. /\ call[t].file = "case" => new \in CaseRecord \cup {Torn}
        /\ call[t].file = "bundle" => new \in Sub \cup {Torn}
    BY <2>1, <2>2 DEF Filled, Content
  <2>4. disk' \in [Case -> [bundle : Unparsed \cup Sub, case : Unparsed \cup CaseRecord]]
    BY <2>1, <2>2, <2>3 DEF TypeOK, File, Unparsed
  <2>5. call' \in [Task -> Call \cup {Idle}]
    <3>1. [call[t] EXCEPT !.at = "open", !.file = "case"] \in Call
      BY <2>1 DEF Call, Writer, File
    <3>2. [at |-> "compile", case |-> call[t].case, sub |-> call[t].sub] \in Call
      BY <2>1 DEF Call, Builder
    <3>3. PICK k \in Call \cup {Idle} : call' = [call EXCEPT ![t] = k]
      <4>1. CASE call[t].file = "bundle"
        <5>1. call' = [call EXCEPT ![t].at = "open", ![t].file = "case"]
          BY <1>5, <4>1 DEF Fill
        <5>2. call' = [call EXCEPT ![t] = [call[t] EXCEPT !.at = "open", !.file = "case"]]
          BY <5>1 DEF TypeOK
        <5>3. QED
          BY <3>1, <5>2
      <4>2. CASE call[t].file = "case" /\ call[t].then = "compile"
        BY <1>5, <3>2, <4>2 DEF Fill, Builds
      <4>3. CASE call[t].file = "case" /\ call[t].then # "compile"
        BY <1>5, <4>3 DEF Fill, Ends
      <4>4. QED
        BY <2>1, <4>1, <4>2, <4>3 DEF File
    <3>4. QED
      BY <3>3 DEF TypeOK
  <2>6. QED
    BY <1>5, <2>4, <2>5 DEF Fill, TypeOK
<1>6. ASSUME NEW t \in Task, SetStatus(t) PROVE TypeOK'
  <2>1. Busy(t) /\ call[t].case \in Case
    BY <1>6, CallFields DEF SetStatus
  <2>2. call' \in [Task -> Call \cup {Idle}]
    <3>1. CASE ~Parses(call[t].case)
      BY <1>6, <3>1 DEF SetStatus, Ends, TypeOK
    <3>2. CASE Parses(call[t].case)
      <4> DEFINE new == [CaseFile(call[t].case) EXCEPT !.status = Verdict[call[t].at]]
      <4>1. new \in CaseRecord
        BY <1>6, <2>1, <3>2, ParsedIsRecord DEF SetStatus, Verdict, CaseRecord, Status
      <4>2. new.sub \in Sub
        BY <4>1 DEF CaseRecord
      <4>3. At(t, "mark") => call[t].sub \in Sub
        BY <2>1, CallFields DEF At, Builder
      <4>4. \/ At(t, "mark") /\ Write(t, call[t].case, call[t].sub, new, "case", "compile")
            \/ Write(t, call[t].case, new.sub, new, "case", "idle")
        BY <1>6, <3>2 DEF SetStatus
      <4> HIDE DEF new
      <4>5. QED
        BY <2>1, <4>1, <4>2, <4>3, <4>4, WriteTyped DEF File
    <3>3. QED
      BY <3>1, <3>2
  <2>3. QED
    BY <1>6, <2>2 DEF SetStatus, TypeOK
<1>7. ASSUME NEW t \in Task, Compile(t) PROVE TypeOK'
  <2>1. call[t] \in Builder /\ call[t].case \in Case /\ call[t].sub \in Sub
    BY <1>7, CallFields DEF Compile, At, Builder
  <2>2. /\ [at |-> "attach", case |-> call[t].case, sub |-> call[t].sub] \in Call
        /\ [at |-> "fail", case |-> call[t].case] \in Call
    BY <2>1 DEF Call, Builder, Waiter
  <2>3. QED
    BY <1>7, <2>2 DEF Compile, Builds, Goes, TypeOK
<1>8. ASSUME NEW t \in Task, Attach(t) PROVE TypeOK'
  <2>1. call[t] \in Builder /\ call[t].case \in Case /\ call[t].sub \in Sub
    BY <1>8, CallFields DEF Attach, At, Builder
  <2>2. call' \in [Task -> Call \cup {Idle}]
    <3>1. CASE ~Parses(call[t].case)
      <4>1. [at |-> "fail", case |-> call[t].case] \in Call
        BY <2>1 DEF Call, Waiter
      <4>2. QED
        BY <1>8, <3>1, <4>1 DEF Attach, Goes, TypeOK
    <3>2. CASE Parses(call[t].case)
      <4> DEFINE new == [CaseFile(call[t].case) EXCEPT !.status = "pending", !.build = call[t].sub]
      <4>1. new \in CaseRecord
        BY <2>1, <3>2, ParsedIsRecord DEF CaseRecord, Status
      <4>2. Write(t, call[t].case, call[t].sub, new, "bundle", "attached")
        BY <1>8, <3>2 DEF Attach
      <4> HIDE DEF new
      <4>3. QED
        BY <2>1, <4>1, <4>2, WriteTyped DEF File
    <3>3. QED
      BY <3>1, <3>2
  <2>3. QED
    BY <1>8, <2>2 DEF Attach, TypeOK
<1>9. ASSUME NEW t \in Task, Registered(t) \/ PublishFails(t) \/ WriteFails(t) PROVE TypeOK'
  <2>1. call[t].case \in Case
    BY <1>9, CallFields DEF Registered, PublishFails, WriteFails, At
  <2>2. /\ [at |-> "stage", case |-> call[t].case] \in Call
        /\ [at |-> "retry", case |-> call[t].case] \in Call
        /\ [at |-> "fail", case |-> call[t].case] \in Call
    BY <2>1 DEF Call, Waiter
  <2>3. PICK k \in Call \cup {Idle} : call' = [call EXCEPT ![t] = k]
    BY <1>9, <2>2 DEF Registered, PublishFails, WriteFails, Goes, Ends
  <2>4. mishaps' \in Nat
    BY <1>9 DEF Registered, PublishFails, WriteFails, TypeOK
  <2>5. QED
    BY <1>9, <2>3, <2>4 DEF Registered, PublishFails, WriteFails, TypeOK
<1>10. ASSUME NEW t \in Task, Stage(t) PROVE TypeOK'
  <2>1. call[t].case \in Case
    BY <1>10, CallFields DEF Stage, At
  <2>2. disk[call[t].case].bundle \in Unparsed \cup Sub
    BY <2>1 DEF TypeOK
  <2>3. (IF disk[call[t].case].bundle = Empty THEN Torn ELSE disk[call[t].case].bundle)
          \in Sub \cup {Missing, Torn}
    BY <2>2 DEF Unparsed
  <2>4. PICK k \in Opener : call' = [call EXCEPT ![t] = k]
    BY <1>10, <2>1, <2>3 DEF Stage, Opener
  <2>5. QED
    BY <1>10, <2>4 DEF Stage, TypeOK, Call
<1>11. ASSUME NEW t \in Task, OpenPR(t) PROVE TypeOK'
  <2>1. call[t] \in Opener /\ call[t].case \in Case
    BY <1>11, CallFields DEF OpenPR, At
  <2>2. [case |-> call[t].case, of |-> call[t].staged] \in PR
    BY <2>1 DEF Opener, PR
  <2>3. /\ [at |-> "approved", case |-> call[t].case] \in Call
        /\ [at |-> "retry", case |-> call[t].case] \in Call
    BY <2>1 DEF Call, Waiter
  <2>4. QED
    BY <1>11, <2>2, <2>3 DEF OpenPR, Goes, TypeOK
<1>12. ASSUME NEW t \in Task, Registers(t) PROVE TypeOK'
  BY <1>12 DEF Registers, TypeOK
<1>13. CASE Crash
  BY <1>13 DEF Crash, TypeOK
<1>14. CASE UNCHANGED vars
  BY <1>14 DEF vars, TypeOK
<1>15. QED
  BY <1>1, <1>2, <1>3, <1>4, <1>5, <1>6, <1>7, <1>8, <1>9, <1>10, <1>11, <1>12, <1>13, <1>14
     DEF Next, Serve

\* The state has its type, for every configuration.
THEOREM TypeCorrect == Spec => []TypeOK
<1>1. Init => TypeOK /\ RegistryInv
  BY InitTyped, RegistryInit DEF Init
<1>2. TypeOK /\ RegistryInv /\ [Next]_vars => TypeOK' /\ RegistryInv'
  BY NextTyped, RegistryNext, ServerRegisters
<1>3. QED
  BY <1>1, <1>2, PTL DEF Spec

Writing(t) == Busy(t) /\ call[t].at \in {"open", "fill"}
HasPR(c) == \E p \in prs : p.case = c

\* Whoever is about to write "approved" has seen the pull request; whoever writes
\* "building" goes on to the build, and writes only case.json.
ReviewInv ==
  /\ \A c \in Case : HasStatus(c, "approved") => HasPR(c)
  /\ \A t \in Task : At(t, "approved") \/ (Writing(t) /\ call[t].new.status = "approved")
       => HasPR(call[t].case)
BuildInv ==
  /\ BuildingHasBuilder
  /\ \A t \in Task : Writing(t) =>
       /\ call[t].new.status = "building" => call[t].then = "compile"
       /\ call[t].then = "compile" => call[t].file = "case"

\* Only Fill makes a case read otherwise than before, or not at all.
LEMMA CasesChange ==
  ASSUME TypeOK, NEW t \in Task, Serve(t) \/ WriteFails(t), NEW c \in Case, NEW st, HasStatus(c, st)'
  PROVE  \/ HasStatus(c, st) /\ ~(Fill(t) /\ call[t].case = c /\ call[t].file = "case")
         \/ /\ Fill(t) /\ At(t, "fill") /\ call[t].case = c
            /\ call[t].file = "case" /\ call[t].new.status = st
<1>1. CASE Truncate(t)
  <2>1. call[t].case \in Case /\ call[t].file \in File
    BY <1>1, CallFields DEF Truncate, At, Writer
  <2>2. disk' = [disk EXCEPT ![call[t].case][call[t].file] = Empty]
    BY <1>1 DEF Truncate
  <2>3. disk'[c].case \in {disk[c].case, Empty}
    BY <2>1, <2>2 DEF TypeOK, File
  <2>4. ~Fill(t)
    BY <1>1 DEF Truncate, Fill, At
  <2>5. QED
    BY <2>3, <2>4 DEF HasStatus, Parses, CaseFile, Unparsed
<1>2. CASE Fill(t)
  <2>1. /\ call[t] \in Writer /\ call[t].case \in Case /\ call[t].file \in File
        /\ At(t, "fill")
    BY <1>2, CallFields DEF Fill, At, Writer
  <2>2. PICK new \in Filled(disk[call[t].case][call[t].file], Content(call[t])) :
          disk' = [disk EXCEPT ![call[t].case][call[t].file] = new]
    BY <1>2 DEF Fill
  <2>3. CASE call[t].file = "case" /\ call[t].case = c
    <3>1. disk'[c].case = new /\ new \in {call[t].new, Torn}
      BY <2>1, <2>2, <2>3 DEF TypeOK, Filled, Content
    <3>2. QED
      BY <1>2, <2>1, <2>3, <3>1 DEF HasStatus, Parses, CaseFile, Unparsed
  <2>4. CASE call[t].file # "case" \/ call[t].case # c
    <3>1. disk'[c].case = disk[c].case
      BY <2>1, <2>2, <2>4 DEF TypeOK, File
    <3>2. QED
      BY <2>4, <3>1 DEF HasStatus, Parses, CaseFile
  <2>5. QED
    BY <2>3, <2>4
<1>3. CASE ~Truncate(t) /\ ~Fill(t)
  <2>1. disk' = disk
    BY <1>3 DEF Serve, SetStatus, Compile, Attach, Registers, Registered, Stage, OpenPR,
                PublishFails, WriteFails
  <2>2. QED
    BY <1>3, <2>1 DEF HasStatus, Parses, CaseFile
<1>4. QED
  BY <1>1, <1>2, <1>3

\* A step of one task leaves the others alone.
LEMMA OthersStay ==
  ASSUME TypeOK, NEW t \in Task, Serve(t) \/ WriteFails(t), NEW u \in Task, u # t
  PROVE  call'[u] = call[u]
BY DEF TypeOK, Serve, WriteFails, Truncate, Fill, SetStatus, Compile, Attach, Registers,
       Registered, Stage, OpenPR, PublishFails, Write, Goes, Builds, Ends

\* What a task that goes on writing will write: the same as before, the verdict it
\* came with, or a case pending review.
LEMMA WritersChange ==
  ASSUME TypeOK, NEW t \in Task, Serve(t) \/ WriteFails(t), Writing(t)'
  PROVE  /\ call'[t].case = call[t].case /\ Busy(t)
         /\ \/ /\ Writing(t) /\ call'[t].new = call[t].new /\ call'[t].then = call[t].then
               /\ call'[t].file = call[t].file \/ call'[t].file = "case"
            \/ /\ call[t].at \in DOMAIN Verdict /\ call'[t].new.status = Verdict[call[t].at]
               /\ call'[t].then = (IF At(t, "mark") THEN "compile" ELSE "idle")
               /\ call'[t].file = "case"
            \/ /\ At(t, "attach") /\ call'[t].new.status = "pending"
               /\ call'[t].then = "attached" /\ call'[t].file = "bundle"
<1>1. CASE Truncate(t)
  BY <1>1 DEF Truncate, At, Writing, TypeOK
<1>2. CASE Fill(t)
  <2>1. call[t] \in Writer /\ At(t, "fill") /\ Busy(t)
    BY <1>2, CallFields DEF Fill, At
  <2>2. call[t].file = "bundle"
    <3>1. CASE call[t].file = "case" /\ call[t].then = "compile"
      BY <1>2, <3>1 DEF Fill, Builds, Writing, TypeOK
    <3>2. CASE call[t].file = "case" /\ call[t].then # "compile"
      BY <1>2, <3>2 DEF Fill, Ends, Writing, Busy, TypeOK
    <3>3. QED
      BY <2>1, <3>1, <3>2 DEF Writer, File
  <2>3. call' = [call EXCEPT ![t].at = "open", ![t].file = "case"]
    BY <1>2, <2>2 DEF Fill
  <2>4. call'[t] = [call[t] EXCEPT !.at = "open", !.file = "case"]
    BY <2>3 DEF TypeOK
  <2>5. QED
    BY <2>1, <2>4 DEF At, Writing, Writer
<1>3. CASE SetStatus(t)
  <2>1. Busy(t) /\ call[t].at \in DOMAIN Verdict /\ call[t].case \in Case
    BY <1>3, CallFields DEF SetStatus
  <2>2. Parses(call[t].case)
    BY <1>3 DEF SetStatus, Ends, Writing, Busy, TypeOK
  <2>3. CaseFile(call[t].case) \in CaseRecord
    BY <2>1, <2>2, ParsedIsRecord
  <2> DEFINE new == [CaseFile(call[t].case) EXCEPT !.status = Verdict[call[t].at]]
  <2>4. new.status = Verdict[call[t].at]
    BY <2>3 DEF CaseRecord
  <2>5. IF At(t, "mark") THEN Write(t, call[t].case, call[t].sub, new, "case", "compile")
                         ELSE Write(t, call[t].case, new.sub, new, "case", "idle")
    BY <1>3, <2>2 DEF SetStatus
  <2> HIDE DEF new
  <2>6. /\ call'[t].case = call[t].case /\ call'[t].new = new /\ call'[t].file = "case"
        /\ call'[t].then = (IF At(t, "mark") THEN "compile" ELSE "idle")
    BY <2>5 DEF Write, TypeOK
  <2>7. QED
    BY <2>1, <2>4, <2>6
<1>4. CASE Attach(t)
  <2>1. Busy(t) /\ At(t, "attach") /\ call[t].case \in Case
    BY <1>4, CallFields DEF Attach, At
  <2>2. Parses(call[t].case)
    BY <1>4, <2>1 DEF Attach, Goes, Writing, TypeOK
  <2>3. CaseFile(call[t].case) \in CaseRecord
    BY <2>1, <2>2, ParsedIsRecord
  <2> DEFINE new == [CaseFile(call[t].case) EXCEPT !.status = "pending", !.build = call[t].sub]
  <2>4. new.status = "pending"
    BY <2>3 DEF CaseRecord
  <2>5. Write(t, call[t].case, call[t].sub, new, "bundle", "attached")
    BY <1>4, <2>2 DEF Attach
  <2> HIDE DEF new
  <2>6. /\ call'[t].case = call[t].case /\ call'[t].new = new
        /\ call'[t].then = "attached" /\ call'[t].file = "bundle"
    BY <2>5 DEF Write, TypeOK
  <2>7. QED
    BY <2>1, <2>4, <2>6
<1>5. CASE Registers(t)
  BY <1>5 DEF Registers, Writing, Busy
<1>6. CASE Compile(t) \/ Registered(t) \/ Stage(t) \/ OpenPR(t) \/ PublishFails(t) \/ WriteFails(t)
  BY <1>6 DEF Compile, Registered, Stage, OpenPR, PublishFails, WriteFails, Goes, Builds, Ends,
              Writing, Busy, TypeOK
<1>7. QED
  BY <1>1, <1>2, <1>3, <1>4, <1>5, <1>6 DEF Serve

\* A new request holds nothing that says "approved"; a submission says "submitted".
LEMMA RequestsChange ==
  ASSUME TypeOK, NEW t \in Task,
         \/ \E s \in Sub : Submit(t, s)
         \/ \E c \in Case : Build(t, c) \/ Approve(t, c) \/ Reject(t, c)
  PROVE  /\ UNCHANGED <<disk, prs, mishaps>> /\ ~Busy(t)
         /\ \A u \in Task : u # t => call'[u] = call[u]
         /\ call'[t].at \in {"open", "mark", "register", "stage", "rejected"}
         /\ Writing(t)' => call'[t].new.status = "submitted" /\ call'[t].then = "idle"
<1>1. ASSUME NEW s \in Sub, Submit(t, s)
      PROVE  /\ UNCHANGED <<disk, prs, mishaps>> /\ ~Busy(t)
             /\ \A u \in Task : u # t => call'[u] = call[u]
             /\ call'[t].at = "open"
             /\ call'[t].new.status = "submitted" /\ call'[t].then = "idle"
  BY <1>1 DEF Submit, Arrives, Write, TypeOK
<1>2. ASSUME NEW c \in Case, Build(t, c) \/ Approve(t, c) \/ Reject(t, c)
      PROVE  /\ UNCHANGED <<disk, prs, mishaps>> /\ ~Busy(t)
             /\ \A u \in Task : u # t => call'[u] = call[u]
             /\ call'[t].at \in {"mark", "register", "stage", "rejected"}
  BY <1>2 DEF Build, Approve, Reject, Admin, Arrives, TypeOK
<1>3. QED
  BY <1>1, <1>2 DEF Writing

\* Pull requests are never withdrawn.
LEMMA PRsStay ==
  ASSUME [Next]_vars, NEW c \in Case, HasPR(c) PROVE HasPR(c)'
<1>1. prs \subseteq prs'
  BY DEF Next, Serve, Submit, Build, Approve, Reject, Truncate, Fill, SetStatus, Compile,
         Attach, Registers, Registered, Stage, OpenPR, PublishFails, WriteFails, Crash, vars
<1>2. QED
  BY <1>1 DEF HasPR

\* Every step keeps an approval from coming before its pull request.
LEMMA ReviewNext == TypeOK /\ ReviewInv /\ [Next]_vars => ReviewInv'
<1> SUFFICES ASSUME TypeOK, ReviewInv, [Next]_vars PROVE ReviewInv'
  OBVIOUS
<1>0. \A c \in Case : HasPR(c) => HasPR(c)'
  BY PRsStay
<1>1. ASSUME NEW t \in Task,
             \/ \E s \in Sub : Submit(t, s)
             \/ \E c \in Case : Build(t, c) \/ Approve(t, c) \/ Reject(t, c)
      PROVE  ReviewInv'
  BY <1>1, RequestsChange DEF ReviewInv, HasStatus, Parses, CaseFile, HasPR, At, Writing, Busy
<1>2. ASSUME NEW t \in Task, Serve(t) \/ WriteFails(t) PROVE ReviewInv'
  <2>1. ASSUME NEW c \in Case, HasStatus(c, "approved")' PROVE HasPR(c)'
    <3>1. HasPR(c)
      BY <1>2, <2>1, CasesChange DEF ReviewInv, At, Writing
    <3>2. QED
      BY <1>0, <3>1
  <2>2. ASSUME NEW u \in Task, u # t,
               At(u, "approved")' \/ (Writing(u)' /\ call'[u].new.status = "approved")
        PROVE  HasPR(call[u].case)' /\ call'[u] = call[u]
    <3>1. call'[u] = call[u]
      BY <1>2, <2>2, OthersStay
    <3>2. HasPR(call[u].case) /\ call[u].case \in Case
      BY <2>2, <3>1, CallFields DEF ReviewInv, At, Writing, Busy
    <3>3. QED
      BY <1>0, <3>1, <3>2 DEF HasPR
  <2>3. ASSUME At(t, "approved")' PROVE HasPR(call[t].case)' /\ call'[t].case = call[t].case
    <3>1. OpenPR(t) \/ Registers(t)
      <4>1. CASE SetStatus(t) \/ Attach(t)
        BY <2>3, <4>1 DEF SetStatus, Attach, Write, Goes, Ends, At, Busy, TypeOK
      <4>2. CASE Truncate(t) \/ Compile(t) \/ Registered(t) \/ Stage(t) \/ PublishFails(t)
                 \/ WriteFails(t)
        <5>1. ASSUME Truncate(t) PROVE FALSE
          <6>1. call[t] \in Writer /\ call' = [call EXCEPT ![t].at = "fill"]
            BY <5>1, CallFields DEF Truncate, At
          <6>2. call'[t] = [call[t] EXCEPT !.at = "fill"]
            BY <6>1 DEF TypeOK
          <6>3. QED
            BY <2>3, <6>1, <6>2 DEF At, Writer
        <5>2. ~Compile(t) /\ ~Registered(t) /\ ~PublishFails(t)
          BY <2>3 DEF Compile, Registered, PublishFails, Goes, Builds, At, TypeOK
        <5>3. ~Stage(t)
          BY <2>3 DEF Stage, At, TypeOK
        <5>4. ~WriteFails(t)
          BY <2>3 DEF WriteFails, Goes, Ends, At, Busy, TypeOK
        <5>5. QED
          BY <4>2, <5>1, <5>2, <5>3, <5>4
      <4>3. CASE Fill(t)
        <5>1. call[t] \in Writer
          BY <4>3, CallFields DEF Fill, At
        <5>2. CASE call[t].file = "bundle"
          <6>1. call' = [call EXCEPT ![t].at = "open", ![t].file = "case"]
            BY <4>3, <5>2 DEF Fill
          <6>2. call'[t] = [call[t] EXCEPT !.at = "open", !.file = "case"]
            BY <6>1 DEF TypeOK
          <6>3. QED
            BY <2>3, <5>1, <6>2 DEF At, Writer
        <5>3. CASE call[t].file = "case" /\ call[t].then = "compile"
          BY <2>3, <4>3, <5>3 DEF Fill, Builds, At, TypeOK
        <5>4. CASE call[t].file = "case" /\ call[t].then # "compile"
          BY <2>3, <4>3, <5>4 DEF Fill, Ends, At, Busy, TypeOK
        <5>5. QED
          BY <5>1, <5>2, <5>3, <5>4 DEF Writer, File
      <4>4. QED
        BY <1>2, <4>1, <4>2, <4>3 DEF Serve
    <3>2. CASE OpenPR(t)
      <4>1. [case |-> call[t].case, of |-> call[t].staged] \in prs'
        BY <3>2 DEF OpenPR
      <4>2. call'[t].case = call[t].case
        BY <3>2 DEF OpenPR, Goes, TypeOK
      <4>3. QED
        BY <4>1, <4>2 DEF HasPR
    <3>3. CASE Registers(t)
      <4>1. call' = call
        BY <3>3 DEF Registers
      <4>2. HasPR(call[t].case) /\ call[t].case \in Case
        BY <2>3, <4>1, CallFields DEF ReviewInv, At, Busy
      <4>3. QED
        BY <1>0, <4>1, <4>2 DEF HasPR
    <3>4. QED
      BY <3>1, <3>2, <3>3
  <2>4. ASSUME Writing(t)', call'[t].new.status = "approved"
        PROVE  HasPR(call[t].case)' /\ call'[t].case = call[t].case
    <3>1. call'[t].case = call[t].case /\ Busy(t) /\ call[t].case \in Case
      BY <1>2, <2>4, WritersChange, CallFields
    <3>2. \/ Writing(t) /\ call[t].new.status = "approved"
          \/ At(t, "approved")
      BY <1>2, <2>4, WritersChange DEF Verdict, At
    <3>3. HasPR(call[t].case)
      BY <3>2 DEF ReviewInv
    <3>4. QED
      BY <1>0, <3>1, <3>3 DEF HasPR
  <2>5. ASSUME NEW u \in Task,
               At(u, "approved")' \/ (Writing(u)' /\ call'[u].new.status = "approved")
        PROVE  HasPR(call[u].case)' /\ call'[u].case = call[u].case
    BY <2>2, <2>3, <2>4, <2>5
  <2>6. QED
    BY <2>1, <2>5 DEF ReviewInv, HasPR
<1>3. CASE Crash \/ UNCHANGED vars
  BY <1>3 DEF Crash, vars, ReviewInv, HasStatus, Parses, CaseFile, HasPR, At, Writing, Busy
<1>4. QED
  BY <1>1, <1>2, <1>3 DEF Next

\* A case that reads as approved has a pull request (main.go:530).
THEOREM ApprovedIsPublished == Spec => []ApprovedHasPR
<1>1. Init => TypeOK /\ RegistryInv /\ ReviewInv
  <2>1. Init => ReviewInv
    BY DEF Init, ReviewInv, HasStatus, Parses, CaseFile, Unparsed, At, Writing, Busy
  <2>2. QED
    BY <2>1, InitTyped, RegistryInit DEF Init
<1>2. TypeOK /\ RegistryInv /\ ReviewInv /\ [Next]_vars => TypeOK' /\ RegistryInv' /\ ReviewInv'
  BY NextTyped, RegistryNext, ServerRegisters, ReviewNext
<1>3. ReviewInv => ApprovedHasPR
  BY DEF ReviewInv, ApprovedHasPR, HasPR
<1>4. QED
  BY <1>1, <1>2, <1>3, PTL DEF Spec

\* A task that will finish the build of a case goes on doing so, unless the case no
\* longer reads as building.
LEMMA FinishersStay ==
  ASSUME TypeOK, NEW t \in Task, Serve(t), NEW c \in Case, WillFinish(t, c),
         HasStatus(c, "building"), HasStatus(c, "building")'
  PROVE  WillFinish(t, c)'
<1>1. call[t].case = c /\ Busy(t) /\ Parses(c)
  BY DEF WillFinish, HasStatus
<1>2. CASE call[t].at \in {"compile", "attach", "fail"}
  <2>1. CASE Compile(t)
    BY <1>1, <2>1 DEF Compile, Builds, Goes, WillFinish, Busy, Idle, TypeOK
  <2>2. CASE Attach(t) \/ SetStatus(t)
    <3>1. CASE Attach(t)
      <4> DEFINE new == [CaseFile(c) EXCEPT !.status = "pending", !.build = call[t].sub]
      <4>1. new.status = "pending"
        BY <1>1, ParsedIsRecord DEF CaseRecord
      <4>2. Write(t, c, call[t].sub, new, "bundle", "attached")
        BY <1>1, <3>1 DEF Attach
      <4> HIDE DEF new
      <4>3. QED
        BY <4>1, <4>2 DEF Write, WillFinish, Busy, Idle, TypeOK
    <3>2. CASE SetStatus(t)
      <4> DEFINE new == [CaseFile(c) EXCEPT !.status = Verdict[call[t].at]]
      <4>1. call[t].at = "fail"
        BY <1>2, <3>2 DEF SetStatus, Verdict
      <4>2. new.status = "build_failed"
        BY <1>1, <4>1, ParsedIsRecord DEF CaseRecord, Verdict
      <4>3. Write(t, c, new.sub, new, "case", "idle")
        BY <1>1, <3>2, <4>1 DEF SetStatus, At
      <4> HIDE DEF new
      <4>4. QED
        BY <4>2, <4>3 DEF Write, WillFinish, Busy, Idle, TypeOK
    <3>3. QED
      BY <2>2, <3>1, <3>2
  <2>3. CASE Registers(t)
    BY <2>3 DEF Registers, WillFinish, Busy
  <2>4. QED
    BY <1>2, <2>1, <2>2, <2>3
       DEF Serve, Truncate, Fill, Registered, Stage, OpenPR, PublishFails, At
<1>3. CASE /\ call[t].at \in {"open", "fill"}
           /\ call[t].then = "compile" \/ call[t].new.status # "building"
  <2>1. call[t] \in Writer
    BY <1>1, <1>3, CallFields
  <2>2. CASE Truncate(t) \/ (Fill(t) /\ call[t].file = "bundle")
    <3>1. \/ call' = [call EXCEPT ![t].at = "fill"]
          \/ call' = [call EXCEPT ![t].at = "open", ![t].file = "case"]
      BY <2>2 DEF Truncate, Fill
    <3>2. \/ call'[t] = [call[t] EXCEPT !.at = "fill"]
          \/ call'[t] = [call[t] EXCEPT !.at = "open", !.file = "case"]
      BY <3>1 DEF TypeOK
    <3>3. /\ call'[t].case = c /\ call'[t].at \in {"open", "fill"}
          /\ call'[t].then = call[t].then /\ call'[t].new = call[t].new
          /\ call'[t] # Idle
      BY <1>1, <2>1, <3>2 DEF Writer, Idle
    <3>4. QED
      BY <1>3, <3>3 DEF WillFinish, Busy
  <2>3. CASE Fill(t) /\ call[t].file = "case"
    <3>1. call[t].new.status = "building"
      BY <1>1, <2>3, CasesChange
    <3>2. Builds(t, "compile")
      BY <1>3, <2>3, <3>1 DEF Fill
    <3>3. QED
      BY <1>1, <3>2 DEF Builds, WillFinish, Busy, Idle, TypeOK
  <2>4. CASE Registers(t)
    BY <2>4 DEF Registers, WillFinish, Busy
  <2>5. QED
    BY <1>3, <2>1, <2>2, <2>3, <2>4
       DEF Serve, SetStatus, Verdict, Compile, Attach, Registered, Stage, OpenPR, PublishFails,
           At, Writer, File
<1>4. QED
  BY <1>2, <1>3 DEF WillFinish

\* Every step keeps a case that reads building with a task that builds it.
LEMMA BuildNext == TypeOK /\ BuildInv /\ [Next]_vars => BuildInv'
<1> SUFFICES ASSUME TypeOK, BuildInv, [Next]_vars PROVE BuildInv'
  OBVIOUS
<1>1. ASSUME NEW t \in Task,
             \/ \E s \in Sub : Submit(t, s)
             \/ \E c \in Case : Build(t, c) \/ Approve(t, c) \/ Reject(t, c)
      PROVE  BuildInv'
  <2>1. ASSUME NEW c \in Case, HasStatus(c, "building")', mishaps' = 0
        PROVE  \E u \in Task : WillFinish(u, c)'
    <3>1. HasStatus(c, "building") /\ mishaps = 0
      BY <1>1, <2>1, RequestsChange DEF HasStatus, Parses, CaseFile
    <3>2. PICK u \in Task : WillFinish(u, c)
      BY <3>1 DEF BuildInv, BuildingHasBuilder
    <3>3. call'[u] = call[u]
      BY <1>1, <3>2, RequestsChange DEF WillFinish
    <3>4. QED
      BY <3>2, <3>3 DEF WillFinish, Busy
  <2>2. ASSUME NEW u \in Task, Writing(u)'
        PROVE  /\ call'[u].new.status = "building" => call'[u].then = "compile"
               /\ call'[u].then = "compile" => call'[u].file = "case"
    BY <1>1, <2>2, RequestsChange DEF BuildInv, Writing, Busy
  <2>3. QED
    BY <2>1, <2>2 DEF BuildInv, BuildingHasBuilder
<1>2. ASSUME NEW t \in Task, Serve(t) \/ WriteFails(t) PROVE BuildInv'
  <2>1. ASSUME NEW c \in Case, HasStatus(c, "building")', mishaps' = 0
        PROVE  \E u \in Task : WillFinish(u, c)'
    <3>1. Serve(t) /\ mishaps = 0
      <4>1. ~WriteFails(t)
        BY <2>1 DEF WriteFails, TypeOK
      <4>2. Serve(t) => mishaps' = mishaps
        BY DEF Serve, Truncate, Fill, SetStatus, Compile, Attach, Registers, Registered,
               Stage, OpenPR, PublishFails
      <4>3. QED
        BY <1>2, <2>1, <4>1, <4>2
    <3>2. CASE HasStatus(c, "building")
      <4>1. PICK u \in Task : WillFinish(u, c)
        BY <3>1, <3>2 DEF BuildInv, BuildingHasBuilder
      <4>2. CASE u = t
        BY <2>1, <3>1, <3>2, <4>1, <4>2, FinishersStay
      <4>3. CASE u # t
        <5>1. call'[u] = call[u]
          BY <1>2, <4>3, OthersStay
        <5>2. QED
          BY <4>1, <5>1 DEF WillFinish, Busy
      <4>4. QED
        BY <4>2, <4>3
    <3>3. CASE ~HasStatus(c, "building")
      <4>1. /\ Fill(t) /\ At(t, "fill") /\ call[t].case = c
            /\ call[t].file = "case" /\ call[t].new.status = "building"
        BY <1>2, <2>1, <3>3, CasesChange
      <4>2. call[t].then = "compile"
        BY <4>1 DEF BuildInv, Writing, At
      <4>3. Builds(t, "compile")
        BY <4>1, <4>2 DEF Fill
      <4>4. WillFinish(t, c)'
        BY <4>1, <4>3 DEF Builds, WillFinish, Busy, Idle, TypeOK
      <4>5. QED
        BY <4>4
    <3>4. QED
      BY <3>2, <3>3
  <2>2. ASSUME NEW u \in Task, Writing(u)'
        PROVE  /\ call'[u].new.status = "building" => call'[u].then = "compile"
               /\ call'[u].then = "compile" => call'[u].file = "case"
    <3>1. CASE u = t
      BY <1>2, <2>2, <3>1, WritersChange DEF BuildInv, Verdict, At
    <3>2. CASE u # t
      <4>1. call'[u] = call[u]
        BY <1>2, <3>2, OthersStay
      <4>2. QED
        BY <2>2, <4>1 DEF BuildInv, Writing, Busy
    <3>3. QED
      BY <3>1, <3>2
  <2>3. QED
    BY <2>1, <2>2 DEF BuildInv, BuildingHasBuilder
<1>3. CASE Crash
  BY <1>3 DEF Crash, BuildInv, BuildingHasBuilder, Writing, Busy, TypeOK
<1>4. CASE UNCHANGED vars
  BY <1>4 DEF vars, BuildInv, BuildingHasBuilder, WillFinish, HasStatus, Parses, CaseFile,
              Writing, Busy
<1>5. QED
  BY <1>1, <1>2, <1>3, <1>4 DEF Next

\* A case that reads as building has a task that will write what became of its build
\* (main.go:365-366), for any number of tasks, cases and submissions.
THEOREM BuildsAreWatched == Spec => []BuildingHasBuilder
<1>1. Init => TypeOK /\ RegistryInv /\ BuildInv
  <2>1. Init => BuildInv
    BY DEF Init, BuildInv, BuildingHasBuilder, HasStatus, Parses, CaseFile, Unparsed, Writing, Busy
  <2>2. QED
    BY <2>1, InitTyped, RegistryInit DEF Init
<1>2. TypeOK /\ RegistryInv /\ BuildInv /\ [Next]_vars => TypeOK' /\ RegistryInv' /\ BuildInv'
  BY NextTyped, RegistryNext, ServerRegisters, BuildNext
<1>3. BuildInv => BuildingHasBuilder
  BY DEF BuildInv
<1>4. QED
  BY <1>1, <1>2, <1>3, PTL DEF Spec
-----------------------------------------------------------------------------
(* Nothing is released that was not built.                                 *)

Stored(c) == disk[c].bundle # Missing

\* Every app of a list was in the registry before, or has a stored build.
Known(apps) == \A a \in apps \ Existing : \E c \in Case : AppOf[c] = a /\ Stored(c)

\* Where a task publishes a case, and whoever is about to write that it is pending.
Publishes(t) == Busy(t) /\ call[t].at \in {"register", "stage", "pr", "retry"}
MarksPending(t) == Writing(t) /\ call[t].file = "case" /\ call[t].new.status = "pending"

BuiltInv ==
  /\ \A p \in prs : p.of # Missing
  /\ \A c \in Case : HasStatus(c, "pending") => Stored(c)
  /\ \A t \in Task : /\ Publishes(t) \/ MarksPending(t) => Stored(call[t].case)
                     /\ At(t, "pr") => call[t].staged # Missing
  /\ Known(Entries(registry)) /\ Known(Entries(temp))
  /\ \A t \in Task : Working(t) => Known(job[t].entries \cup {job[t].app})

\* A bundle that is stored may be cut off or replaced, but is not removed.
LEMMA BundlesStay ==
  ASSUME TypeOK, [Next]_vars, NEW c \in Case, Stored(c)
  PROVE  Stored(c)'
<1>1. ASSUME NEW t \in Task, Truncate(t) PROVE Stored(c)'
  <2>1. call[t].case \in Case /\ call[t].file \in File
    BY <1>1, CallFields DEF Truncate, At, Writer
  <2>2. disk' = [disk EXCEPT ![call[t].case][call[t].file] = Empty]
    BY <1>1 DEF Truncate
  <2>3. disk'[c].bundle \in {disk[c].bundle, Empty}
    BY <2>1, <2>2 DEF TypeOK, File
  <2> QED
    BY <2>3, FilesDiffer DEF Stored
<1>2. ASSUME NEW t \in Task, Fill(t) PROVE Stored(c)'
  <2>1. /\ call[t] \in Writer /\ call[t].case \in Case /\ call[t].file \in File
        /\ call[t].sub \in Sub
    BY <1>2, CallFields DEF Fill, At, Writer
  <2>2. PICK new \in Filled(disk[call[t].case][call[t].file], Content(call[t])) :
          disk' = [disk EXCEPT ![call[t].case][call[t].file] = new]
    BY <1>2 DEF Fill
  <2>3. call[t].file = "bundle" => new \in Sub \cup {Torn}
    BY <2>1, <2>2 DEF Filled, Content
  <2>4. disk'[c].bundle \in {disk[c].bundle} \cup Sub \cup {Torn}
    BY <2>1, <2>2, <2>3 DEF TypeOK, File
  <2> QED
    BY <2>4, FilesDiffer, CasesAssumption DEF Stored
<1>3. CASE disk' = disk
  BY <1>3 DEF Stored
<1> QED
  BY <1>1, <1>2, <1>3
     DEF Next, Serve, Submit, Build, Approve, Reject, SetStatus, Compile, Attach, Registers,
         Registered, Stage, OpenPR, PublishFails, WriteFails, Crash, vars

\* Filling the bundle stores it.
LEMMA FillStores ==
  ASSUME TypeOK, NEW t \in Task, Serve(t) \/ WriteFails(t), Writing(t), Writing(t)',
         call[t].file = "bundle", call'[t].file # "bundle"
  PROVE  disk'[call[t].case].bundle # Missing
<1>1. call[t] \in Writer /\ call[t].case \in Case /\ call[t].sub \in Sub
  BY CallFields DEF Writing, Writer
<1>2. Fill(t)
  <2>1. ~Truncate(t)
    <3> SUFFICES ASSUME Truncate(t) PROVE FALSE
      OBVIOUS
    <3>1. call'[t] = [call[t] EXCEPT !.at = "fill"]
      BY DEF Truncate, TypeOK
    <3> QED
      BY <1>1, <3>1 DEF Writer
  <2>2. ~Registers(t)
    BY DEF Registers
  <2>3. ~WriteFails(t)
    BY DEF WriteFails, Goes, Ends, Writing, Busy, TypeOK
  <2> QED
    BY <2>1, <2>2, <2>3 DEF Serve, SetStatus, Verdict, Compile, Attach, Registered, Stage, OpenPR,
       PublishFails, At, Writing
<1>3. PICK new \in Filled(disk[call[t].case].bundle, Content(call[t])) :
        disk' = [disk EXCEPT ![call[t].case].bundle = new]
  BY <1>2 DEF Fill
<1>4. new \in Sub \cup {Torn}
  BY <1>1, <1>3 DEF Filled, Content
<1>5. disk'[call[t].case].bundle = new
  BY <1>1, <1>3 DEF TypeOK
<1> QED
  BY <1>4, <1>5, FilesDiffer, CasesAssumption

\* A task comes to publish only as an admin approves, and goes from one point to the next.
LEMMA PublishersChange ==
  ASSUME TypeOK, NEW t \in Task, Serve(t) \/ WriteFails(t), Publishes(t)'
  PROVE  /\ Publishes(t) /\ call'[t].case = call[t].case
         /\ call'[t].at = "pr" =>
              \/ At(t, "pr") /\ call'[t].staged = call[t].staged
              \/ call'[t].staged \in {disk[call[t].case].bundle, Torn}
<1>1. CASE Truncate(t)
  BY <1>1, CallFields DEF Truncate, At, Publishes, TypeOK
<1>2. CASE Fill(t)
  <2>1. call[t] \in Writer
    BY <1>2, CallFields DEF Fill, At
  <2>2. CASE call[t].file = "bundle"
    <3>1. call' = [call EXCEPT ![t].at = "open", ![t].file = "case"]
      BY <1>2, <2>2 DEF Fill
    <3>2. call'[t] = [call[t] EXCEPT !.at = "open", !.file = "case"]
      BY <3>1 DEF TypeOK
    <3> QED
      BY <2>1, <3>2 DEF Publishes, Writer
  <2>3. CASE call[t].file = "case" /\ call[t].then = "compile"
    BY <1>2, <2>3 DEF Fill, Builds, Publishes, TypeOK
  <2>4. CASE call[t].file = "case" /\ call[t].then # "compile"
    BY <1>2, <2>4 DEF Fill, Ends, Publishes, Busy, TypeOK
  <2> QED
    BY <2>1, <2>2, <2>3, <2>4 DEF Writer, File
<1>3. CASE SetStatus(t) \/ Attach(t)
  BY <1>3 DEF SetStatus, Attach, Write, Goes, Ends, Publishes, Busy, TypeOK
<1>4. CASE Compile(t) \/ WriteFails(t)
  BY <1>4 DEF Compile, WriteFails, Builds, Goes, Ends, Publishes, Busy, TypeOK
<1>5. CASE Registered(t) \/ PublishFails(t) \/ OpenPR(t)
  BY <1>5 DEF Registered, PublishFails, OpenPR, Goes, Publishes, At, TypeOK
<1>6. CASE Stage(t)
  BY <1>6 DEF Stage, Publishes, At, TypeOK
<1>7. CASE Registers(t)
  BY <1>7 DEF Registers, Publishes, At, Busy
<1> QED
  BY <1>1, <1>2, <1>3, <1>4, <1>5, <1>6, <1>7 DEF Serve

\* What a step of the registrar puts into a file was in one, or in a list, before.
LEMMA ListsChange ==
  ASSUME RegistrarTypeOK, NEW t \in Task, RegisterStep(t),
         Known(Entries(registry)), Known(Entries(temp)),
         \A u \in Task : Working(u) => Known(job[u].entries \cup {job[u].app}),
         \A c \in Case : Stored(c) => Stored(c)'
  PROVE  /\ Known(Entries(registry))' /\ Known(Entries(temp))'
         /\ \A u \in Task : Working(u)' => Known(job[u].entries \cup {job[u].app})'
<1> DEFINE Was(S) == \/ S \subseteq Entries(registry) \/ S \subseteq Entries(temp)
                     \/ \E u \in Task : Working(u) /\ S \subseteq job[u].entries \cup {job[u].app}
                     \/ \E u \in Task : Working(u) /\ S \subseteq Entries(registry) \cup {job[u].app}
           Stays(S) == \A a \in S \ Existing : \E c \in Case : AppOf[c] = a /\ Stored(c)'
<1>1. ASSUME NEW S, Was(S) PROVE Stays(S)
  <2>1. \A a \in S \ Existing : \E c \in Case : AppOf[c] = a /\ Stored(c)
    BY <1>1 DEF Known
  <2> QED
    BY <2>1
<1>2. Was({}) /\ Was(Entries(registry)) /\ Was(Entries(temp))
  OBVIOUS
<1> SUFFICES /\ Was(Entries(registry')) /\ Was(Entries(temp'))
             /\ \A u \in Task : Working(u)' => Was(job'[u].entries \cup {job'[u].app})
  <2> HIDE DEF Was
  <2> QED
    BY <1>1 DEF Known, Entries
<1>3. ASSUME NEW u \in Task, Working(u) PROVE Was(job[u].entries \cup {job[u].app}) /\ Was(job[u].entries)
  BY <1>3
<1>4. CASE ReadEntries(t)
  <2>1. /\ Working(t) /\ job[t] \in Job
        /\ UNCHANGED <<registry, temp>>
    BY <1>4, JobFields DEF ReadEntries
  <2>2. ASSUME NEW u \in Task, Working(u)'
        PROVE  Was(job'[u].entries \cup {job'[u].app})
    <3>1. CASE registry = Torn \/ u # t
      <4>1. job'[u] = job[u] /\ Working(u)
        BY <1>4, <2>2, <3>1 DEF ReadEntries, Leaves, RegistrarTypeOK, Working
      <4> QED
        BY <1>3, <4>1
    <3>2. CASE registry # Torn /\ u = t
      <4>1. job'[u] = [job[t] EXCEPT !.at = "open", !.entries = Entries(registry) \cup {job[t].app}]
        BY <1>4, <3>2 DEF ReadEntries, RegistrarTypeOK
      <4>2. job'[u].entries \cup {job'[u].app} \subseteq Entries(registry) \cup {job[t].app}
        BY <2>1, <4>1 DEF Job
      <4> QED
        BY <2>1, <4>2
    <3> QED
      BY <3>1, <3>2
  <2> QED
    BY <1>2, <2>1, <2>2
<1>5. CASE OpenTemp(t) \/ WriteTemp(t)
  <2>1. Working(t) /\ job[t] \in Job
    BY <1>5, JobFields DEF OpenTemp, WriteTemp
  <2>2. /\ registry' \in {registry, job[t].entries, Torn}
        /\ temp' \in {temp, job[t].entries, Torn, Empty}
    BY <1>5 DEF OpenTemp, WriteTemp, Filled
  <2>3. Was(Entries(job[t].entries)) /\ Entries(Torn) = {} /\ Entries(Empty) = {}
    BY <1>3, <2>1 DEF Entries
  <2>4. Was(Entries(registry')) /\ Was(Entries(temp'))
    <3> HIDE DEF Was
    <3> QED
      BY <1>2, <2>2, <2>3
  <2>5. ASSUME NEW u \in Task, Working(u)'
        PROVE  Working(u) /\ job'[u].entries = job[u].entries /\ job'[u].app = job[u].app
    <3>1. CASE u # t
      BY <1>5, <2>5, <3>1 DEF OpenTemp, WriteTemp, RegistrarTypeOK, Working
    <3>2. CASE u = t
      <4>1. \/ job'[t] = [job[t] EXCEPT !.at = "write", !.file = "temp"]
            \/ job'[t] = [job[t] EXCEPT !.at = "rename"]
        BY <1>5 DEF OpenTemp, WriteTemp, RegistrarTypeOK
      <4> QED
        BY <2>1, <3>2, <4>1 DEF Job
    <3> QED
      BY <3>1, <3>2
  <2> QED
    BY <1>3, <2>4, <2>5
<1>6. CASE Rename(t) \/ RegisterFails(t)
  <2>1. /\ registry' \in {registry, temp} /\ temp' \in {temp, Missing}
    BY <1>6 DEF Rename, RegisterFails
  <2>2. Was(Entries(registry')) /\ Was(Entries(temp'))
    <3>1. Entries(Missing) = {}
      BY DEF Entries
    <3> HIDE DEF Was
    <3> QED
      BY <1>2, <2>1, <3>1
  <2>3. ASSUME NEW u \in Task, Working(u)'
        PROVE  Working(u) /\ job'[u].entries = job[u].entries /\ job'[u].app = job[u].app
    <3>1. CASE Leaves(t)
      BY <2>3, <3>1 DEF Leaves, RegistrarTypeOK, Working
    <3>2. CASE ~Leaves(t)
      <4>1. job' = [v \in Task |-> IF v = t \/ ~Working(v) THEN NoJob
                                   ELSE [job[v] EXCEPT !.file = AfterRename(@)]]
        BY <1>6, <3>2 DEF Rename, RegisterFails
      <4>2. Working(u) /\ job'[u] = [job[u] EXCEPT !.file = AfterRename(@)]
        BY <2>3, <4>1 DEF Working
      <4>3. job[u] \in Job
        BY <4>2, JobFields
      <4> QED
        BY <4>2, <4>3 DEF Job
    <3> QED
      BY <3>1, <3>2
  <2> QED
    BY <1>3, <2>2, <2>3
<1> QED
  BY <1>4, <1>5, <1>6 DEF RegisterStep

\* Every step keeps what is pending or published a bundle that was stored.
LEMMA BuiltNext == TypeOK /\ BuiltInv /\ [Next]_vars => BuiltInv'
<1> SUFFICES ASSUME TypeOK, BuiltInv, [Next]_vars PROVE BuiltInv'
  OBVIOUS
<1>1. \A c \in Case : Stored(c) => Stored(c)'
  BY BundlesStay
\* The registrar's files and lists, unless it moves.
<1>2. ASSUME UNCHANGED <<registry, temp>>,
             \A u \in Task : Working(u)' =>
               \/ Working(u) /\ job'[u] = job[u]
               \/ \E c \in Case : Stored(c) /\ job'[u].entries = {} /\ job'[u].app = AppOf[c]
      PROVE  /\ Known(Entries(registry))' /\ Known(Entries(temp))'
             /\ \A u \in Task : Working(u)' => Known(job[u].entries \cup {job[u].app})'
  <2>1. Known(Entries(registry))' /\ Known(Entries(temp))'
    BY <1>1, <1>2 DEF BuiltInv, Known, Entries
  <2>2. ASSUME NEW u \in Task, Working(u)' PROVE Known(job[u].entries \cup {job[u].app})'
    <3>1. CASE Working(u) /\ job'[u] = job[u]
      <4>1. Known(job[u].entries \cup {job[u].app})
        BY <3>1 DEF BuiltInv
      <4> QED
        BY <1>1, <3>1, <4>1 DEF Known
    <3>2. CASE \E c \in Case : Stored(c) /\ job'[u].entries = {} /\ job'[u].app = AppOf[c]
      BY <1>1, <3>2 DEF Known
    <3> QED
      BY <1>2, <2>2, <3>1, <3>2
  <2> QED
    BY <2>1, <2>2
\* A request: what an admin approves is pending, so it is stored.
<1>3. ASSUME NEW t \in Task,
             \/ \E s \in Sub : Submit(t, s)
             \/ \E c \in Case : Build(t, c) \/ Approve(t, c) \/ Reject(t, c)
      PROVE  BuiltInv'
  <2>1. /\ UNCHANGED <<disk, prs>> /\ ~Busy(t) /\ \A u \in Task : u # t => call'[u] = call[u]
        /\ call'[t].at \in {"open", "mark", "register", "stage", "rejected"}
        /\ Writing(t)' => call'[t].new.status = "submitted"
    BY <1>3, RequestsChange
  <2>2. ASSUME Publishes(t)' PROVE Stored(call'[t].case)
    <3>1. PICK c \in Case : Approve(t, c)
      <4>1. \A s \in Sub : ~Submit(t, s)
        BY <2>2 DEF Submit, Write, Publishes, TypeOK
      <4>2. \A c \in Case : ~Build(t, c) /\ ~Reject(t, c)
        BY <2>2 DEF Build, Reject, Admin, Publishes, TypeOK
      <4> QED
        BY <1>3, <4>1, <4>2
    <3>2. HasStatus(c, "pending") /\ call'[t].case = c
      BY <3>1 DEF Approve, Admin, TypeOK
    <3> QED
      BY <3>2 DEF BuiltInv
  <2>3. ASSUME NEW u \in Task
        PROVE  /\ (Publishes(u) \/ MarksPending(u))' => Stored(call'[u].case)
               /\ At(u, "pr")' => call'[u].staged # Missing
    BY <2>1, <2>2 DEF BuiltInv, Publishes, MarksPending, Writing, Busy, At
  <2>4. /\ UNCHANGED <<registry, temp>>
        /\ \A u \in Task : Working(u)' =>
             \/ Working(u) /\ job'[u] = job[u]
             \/ \E c \in Case : Stored(c) /\ job'[u].entries = {} /\ job'[u].app = AppOf[c]
    <3>1. CASE UNCHANGED registrarVars
      BY <3>1 DEF registrarVars, Working
    <3>2. CASE \E c \in Case : HasStatus(c, "pending") /\ Register(t, AppOf[c])
      <4>1. PICK c \in Case : HasStatus(c, "pending") /\ Register(t, AppOf[c])
        BY <3>2
      <4>2. Stored(c)
        BY <4>1 DEF BuiltInv
      <4>3. /\ UNCHANGED <<registry, temp>>
            /\ job' = [job EXCEPT ![t] = [at |-> "read", app |-> AppOf[c], entries |-> {}, file |-> "none"]]
        BY <4>1 DEF Register
      <4> QED
        BY <4>2, <4>3 DEF TypeOK, RegistrarTypeOK, Working
    <3> QED
      BY <1>3, <3>1, <3>2 DEF Submit, Build, Approve, Reject
  <2>5. /\ \A p \in prs' : p.of # Missing
        /\ \A c \in Case : HasStatus(c, "pending")' => Stored(c)'
        /\ \A c : Stored(c)' = Stored(c)
    BY <2>1 DEF BuiltInv, HasStatus, Parses, CaseFile, Stored
  <2> QED
    BY <1>2, <2>3, <2>4, <2>5 DEF BuiltInv
<1>4. ASSUME NEW t \in Task, Serve(t) \/ WriteFails(t) PROVE BuiltInv'
  <2>1. ASSUME NEW c \in Case, HasStatus(c, "pending")' PROVE Stored(c)'
    <3>1. HasStatus(c, "pending") \/ (MarksPending(t) /\ call[t].case = c)
      BY <1>4, <2>1, CasesChange DEF MarksPending, Writing, At
    <3> QED
      BY <1>1, <3>1 DEF BuiltInv
  <2>2. ASSUME Publishes(t)'
        PROVE  Stored(call[t].case)' /\ call'[t].case = call[t].case
               /\ (call'[t].at = "pr" => call'[t].staged # Missing)
    <3>1. /\ Publishes(t) /\ call'[t].case = call[t].case
          /\ call'[t].at = "pr" =>
               \/ At(t, "pr") /\ call'[t].staged = call[t].staged
               \/ call'[t].staged \in {disk[call[t].case].bundle, Torn}
      BY <1>4, <2>2, PublishersChange
    <3>2. Stored(call[t].case) /\ call[t].case \in Case
      BY <3>1, CallFields DEF BuiltInv, Publishes
    <3>3. call'[t].at = "pr" => call'[t].staged # Missing
      BY <3>1, <3>2, FilesDiffer DEF BuiltInv, Stored
    <3>4. Stored(call[t].case)'
      BY <1>1, <3>1, <3>2 DEF Stored
    <3> QED
      BY <3>1, <3>3, <3>4
  <2>3. ASSUME MarksPending(t)'
        PROVE  disk'[call[t].case].bundle # Missing /\ call'[t].case = call[t].case
    <3>1. /\ call'[t].case = call[t].case /\ Busy(t)
          /\ \/ /\ Writing(t) /\ call'[t].new = call[t].new
                /\ call'[t].file = call[t].file \/ call'[t].file = "case"
             \/ call[t].at \in DOMAIN Verdict /\ call'[t].new.status = Verdict[call[t].at]
             \/ call'[t].file = "bundle"
      BY <1>4, <2>3, WritersChange DEF MarksPending
    <3>2. call[t].case \in Case
      BY <3>1, CallFields
    <3>3. CASE Writing(t) /\ call'[t].new = call[t].new /\ call[t].file = "case"
      <4>1. Stored(call[t].case)
        BY <2>3, <3>3 DEF BuiltInv, MarksPending
      <4> QED
        BY <1>1, <3>1, <3>2, <4>1 DEF Stored
    <3>4. CASE Writing(t) /\ call[t].file # "case"
      <4>1. call[t].file = "bundle"
        BY <3>4, CallFields DEF Writing, Writer, File
      <4> QED
        BY <1>4, <2>3, <3>1, <3>4, <4>1, FillStores DEF MarksPending
    <3>5. CASE call[t].at \in DOMAIN Verdict /\ call'[t].new.status = Verdict[call[t].at]
      <4>1. call[t].at = "retry"
        BY <2>3, <3>5 DEF MarksPending, Verdict
      <4>2. Publishes(t)
        BY <3>1, <4>1 DEF Publishes
      <4> QED
        BY <1>1, <3>1, <3>2, <4>2 DEF BuiltInv, Stored
    <3> QED
      BY <2>3, <3>1, <3>3, <3>4, <3>5 DEF MarksPending
  <2>4. ASSUME NEW u \in Task
        PROVE  /\ (Publishes(u) \/ MarksPending(u))' => disk'[call'[u].case].bundle # Missing
               /\ At(u, "pr")' => call'[u].staged # Missing
    <3>1. CASE u = t
      BY <2>2, <2>3, <3>1 DEF Publishes, At, Stored
    <3>2. CASE u # t
      <4>1. call'[u] = call[u]
        BY <1>4, <3>2, OthersStay
      <4>2. Busy(u) => call[u].case \in Case
        BY CallFields
      <4> QED
        BY <1>1, <4>1, <4>2 DEF BuiltInv, Publishes, MarksPending, Writing, Busy, At, Stored
    <3> QED
      BY <3>1, <3>2
  <2>5. \A p \in prs' : p.of # Missing
    <3>1. CASE OpenPR(t)
      BY <3>1 DEF OpenPR, BuiltInv
    <3>2. CASE ~OpenPR(t)
      <4>1. prs' = prs
        BY <1>4, <3>2 DEF Serve, Truncate, Fill, SetStatus, Compile, Attach, Registers, Registered,
           Stage, PublishFails, WriteFails
      <4> QED
        BY <4>1 DEF BuiltInv
    <3> QED
      BY <3>1, <3>2
  <2>6. /\ Known(Entries(registry))' /\ Known(Entries(temp))'
        /\ \A u \in Task : Working(u)' => Known(job[u].entries \cup {job[u].app})'
    <3>1. CASE Registers(t)
      <4>1. RegisterStep(t) /\ RegistrarTypeOK
        BY <3>1 DEF Registers, TypeOK
      <4> QED
        BY <1>1, <4>1, ListsChange DEF BuiltInv
    <3>2. CASE ~Registers(t)
      <4>1. UNCHANGED registrarVars
        BY <1>4, <3>2 DEF Serve, Truncate, Fill, SetStatus, Compile, Attach, Registered,
           Stage, OpenPR, PublishFails, WriteFails
      <4> QED
        BY <1>2, <4>1 DEF registrarVars, Working
    <3> QED
      BY <3>1, <3>2
  <2> QED
    BY <2>1, <2>4, <2>5, <2>6 DEF BuiltInv, Stored
<1>5. CASE Crash
  <2>1. /\ UNCHANGED <<disk, prs, registry, temp>>
        /\ \A u \in Task : call'[u] = Idle /\ ~Working(u)'
    BY <1>5 DEF Crash, RegistrarCrash, Working
  <2>2. \A u \in Task : ~Publishes(u)' /\ ~MarksPending(u)' /\ ~At(u, "pr")'
    BY <2>1 DEF Publishes, MarksPending, Writing, At, Busy
  <2>3. /\ \A p \in prs' : p.of # Missing
        /\ \A c \in Case : HasStatus(c, "pending")' => Stored(c)'
    BY <2>1 DEF BuiltInv, HasStatus, Parses, CaseFile, Stored
  <2> QED
    BY <1>2, <2>1, <2>2, <2>3 DEF BuiltInv
<1>6. CASE UNCHANGED vars
  <2>1. UNCHANGED <<disk, prs, call, registry, temp, job>>
    BY <1>6 DEF vars, registrarVars
  <2> QED
    BY <2>1 DEF BuiltInv, HasStatus, Parses, CaseFile, Stored, Known, Entries, Working,
       Publishes, MarksPending, Writing, At, Busy
<1> QED
  BY <1>3, <1>4, <1>5, <1>6 DEF Next

\* Whatever meets, fails or crashes, only apps with a stored build are staged or made
\* known to the broker (main.go:514-517).
THEOREM OnlyBuiltReleased == Spec => []OnlyBuiltIsReleased
<1>1. Init => TypeOK /\ RegistryInv /\ BuiltInv
  <2> SUFFICES ASSUME Init PROVE BuiltInv
    BY InitTyped, RegistryInit DEF Init
  <2>1. Entries(registry) \subseteq Existing /\ Entries(temp) = {}
    BY DEF Init, RegistrarInit, Entries
  <2>2. /\ prs = {} /\ \A c \in Case : ~HasStatus(c, "pending")
        /\ \A t \in Task : ~Working(t) /\ ~Busy(t)
    BY DEF Init, RegistrarInit, HasStatus, Parses, CaseFile, Unparsed, Working, Busy
  <2> QED
    BY <2>1, <2>2 DEF BuiltInv, Known, Publishes, MarksPending, Writing, At
<1>2. TypeOK /\ RegistryInv /\ BuiltInv /\ [Next]_vars => TypeOK' /\ RegistryInv' /\ BuiltInv'
  BY NextTyped, RegistryNext, ServerRegisters, BuiltNext
<1>3. BuiltInv => OnlyBuiltIsReleased
  BY DEF BuiltInv, OnlyBuiltIsReleased, Known, Stored
<1> QED
  BY <1>1, <1>2, <1>3, PTL DEF Spec
-----------------------------------------------------------------------------
(* What is published is what was reviewed, where a case has one task at a  *)
(* time.                                                                   *)

\* Record r of case c was built from its own submission, which is what the bundles are
\* of; approved, they are what a pull request has.
Good(c, r) ==
  /\ r.build = r.sub /\ disk[c].bundle = r.sub
  /\ r.status = "approved" => [case |-> c, of |-> r.sub] \in prs

Unreviewed(c) == Parses(c) => CaseFile(c).status \notin {"pending", "approved"}

OneTask(c) ==
  \A t, u \in Task : Busy(t) /\ Busy(u) /\ call[t].case = c /\ call[u].case = c => t = u

\* What the one task of case c has established where it is. Bundles are replaced only
\* while the case is not pending, and a verdict is about the case that is there.
StepOK(c, k) ==
  /\ k.at = "fill" => disk[c][k.file] = Empty
  /\ k.at \in {"open", "fill"} =>
       /\ k.file = "case" /\ k.new.status \in {"pending", "approved"} => Good(c, k.new)
       /\ k.file = "bundle" => /\ k.new.status = "pending" /\ k.new.build = k.sub
                               /\ k.new.sub = k.sub /\ Unreviewed(c)
       /\ k.then = "compile" => /\ k.file = "case" /\ k.new.status = "building"
                                /\ k.new.sub = k.sub
  /\ k.at \in {"mark", "compile", "attach"} =>
       Unreviewed(c) /\ (Parses(c) => CaseFile(c).sub = k.sub)
  /\ k.at \in {"register", "stage", "pr", "approved", "retry"} => HasStatus(c, "pending")
  /\ k.at = "pr" => k.staged = CaseFile(c).sub
  /\ k.at = "approved" => [case |-> c, of |-> CaseFile(c).sub] \in prs

CaseInv(c) ==
  /\ OneTask(c)
  /\ ~Unreviewed(c) => Good(c, CaseFile(c))
  /\ \A t \in Task : Busy(t) /\ call[t].case = c => StepOK(c, call[t])

ReviewedInv == \A c \in Case \ raced : CaseInv(c)

\* A task of a case keeps to it.
LEMMA TasksStay ==
  ASSUME TypeOK, NEW t \in Task, Serve(t) \/ WriteFails(t), ~Registers(t)
  PROVE  Busy(t) /\ (Busy(t)' => call'[t].case = call[t].case)
<1>1. Busy(t)
  BY DEF Serve, WriteFails, Truncate, Fill, SetStatus, Compile, Attach, Registered, Stage,
     OpenPR, PublishFails, At
<1>2. CASE Truncate(t) \/ Fill(t)
  <2>1. call[t] \in Writer
    BY <1>2, CallFields DEF Truncate, Fill, At
  <2>2. \/ call' = [call EXCEPT ![t].at = "fill"]
        \/ call' = [call EXCEPT ![t].at = "open", ![t].file = "case"]
        \/ Builds(t, "compile") \/ Ends(t)
    BY <1>2, <2>1 DEF Truncate, Fill, Writer, File
  <2>3. CASE \/ call' = [call EXCEPT ![t].at = "fill"]
             \/ call' = [call EXCEPT ![t].at = "open", ![t].file = "case"]
    <3>1. \/ call'[t] = [call[t] EXCEPT !.at = "fill"]
          \/ call'[t] = [call[t] EXCEPT !.at = "open", !.file = "case"]
      BY <2>3 DEF TypeOK
    <3> QED
      BY <1>1, <2>1, <3>1 DEF Writer
  <2>4. CASE Builds(t, "compile") \/ Ends(t)
    BY <1>1, <2>4 DEF Builds, Ends, Busy, TypeOK
  <2> QED
    BY <2>2, <2>3, <2>4
<1>3. CASE SetStatus(t) \/ Attach(t)
  BY <1>1, <1>3 DEF SetStatus, Attach, Write, Goes, Ends, Busy, TypeOK
<1>4. CASE Compile(t) \/ Registered(t) \/ Stage(t) \/ OpenPR(t) \/ PublishFails(t) \/ WriteFails(t)
  BY <1>1, <1>4 DEF Compile, Registered, Stage, OpenPR, PublishFails, WriteFails,
     Goes, Builds, Ends, Busy, TypeOK
<1> QED
  BY <1>1, <1>2, <1>3, <1>4 DEF Serve

\* A step of one task leaves the files of other cases alone, and withdraws nothing.
LEMMA OtherCasesStay ==
  ASSUME TypeOK, NEW t \in Task, Serve(t) \/ WriteFails(t)
  PROVE  /\ \A c \in Case : c # call[t].case => disk'[c] = disk[c]
         /\ prs \subseteq prs' /\ raced' = raced
<1>1. ASSUME Truncate(t) \/ Fill(t) PROVE \A c \in Case : c # call[t].case => disk'[c] = disk[c]
  <2>1. call[t] \in Writer /\ call[t].case \in Case /\ call[t].file \in File
    BY <1>1, CallFields DEF Truncate, Fill, At, Writer
  <2>2. \E new : disk' = [disk EXCEPT ![call[t].case][call[t].file] = new]
    BY <1>1 DEF Truncate, Fill
  <2> QED
    BY <2>1, <2>2 DEF TypeOK
<1> QED
  BY <1>1 DEF Serve, Truncate, Fill, SetStatus, Compile, Attach, Registers, Registered, Stage,
     OpenPR, PublishFails, WriteFails

\* What a case rests on: its files, its task, and pull requests that stay.
LEMMA CaseStays ==
  ASSUME NEW c \in Case, CaseInv(c), disk'[c] = disk[c], prs \subseteq prs',
         \A t \in Task : Busy(t)' /\ call'[t].case = c => Busy(t) /\ call'[t] = call[t]
  PROVE  CaseInv(c)'
<1>1. ASSUME NEW k, StepOK(c, k) PROVE
        /\ k.at = "fill" => disk'[c][k.file] = Empty
        /\ k.at \in {"open", "fill"} =>
             /\ k.file = "case" /\ k.new.status \in {"pending", "approved"} =>
                  /\ k.new.build = k.new.sub /\ disk'[c].bundle = k.new.sub
                  /\ k.new.status = "approved" => [case |-> c, of |-> k.new.sub] \in prs'
             /\ k.file = "bundle" => /\ k.new.status = "pending" /\ k.new.build = k.sub
                                     /\ k.new.sub = k.sub /\ Unreviewed(c)'
             /\ k.then = "compile" => /\ k.file = "case" /\ k.new.status = "building"
                                      /\ k.new.sub = k.sub
        /\ k.at \in {"mark", "compile", "attach"} =>
             Unreviewed(c)' /\ (Parses(c)' => CaseFile(c)'.sub = k.sub)
        /\ k.at \in {"register", "stage", "pr", "approved", "retry"} => HasStatus(c, "pending")'
        /\ k.at = "pr" => k.staged = CaseFile(c)'.sub
        /\ k.at = "approved" => [case |-> c, of |-> CaseFile(c)'.sub] \in prs'
  BY <1>1 DEF StepOK, Good, Unreviewed, HasStatus, Parses, CaseFile
<1>2. \A t \in Task : Busy(t)' /\ call'[t].case = c => StepOK(c, call[t])'
  <2> SUFFICES ASSUME NEW t \in Task, Busy(t)', call'[t].case = c PROVE StepOK(c, call[t])'
    OBVIOUS
  <2>1. call'[t] = call[t] /\ StepOK(c, call[t])
    BY DEF CaseInv
  <2> QED
    BY <1>1, <2>1 DEF StepOK, Good
<1>3. OneTask(c)'
  BY DEF CaseInv, OneTask
<1>4. ~Unreviewed(c)' => Good(c, CaseFile(c))'
  BY DEF CaseInv, Unreviewed, Good, Parses, CaseFile
<1> QED
  BY <1>2, <1>3, <1>4 DEF CaseInv

\* The same, where only task t has moved and what it has established is shown apart.
LEMMA CaseMoves ==
  ASSUME NEW t \in Task, NEW c \in Case, CaseInv(c), Busy(t), call[t].case = c,
         \A u \in Task : u # t => call'[u] = call[u],
         Busy(t)' => StepOK(c, call[t])',
         ~Unreviewed(c)' => Good(c, CaseFile(c))'
  PROVE  CaseInv(c)'
<1>1. \A u \in Task : u # t => ~(Busy(u)' /\ call'[u].case = c)
  BY DEF CaseInv, OneTask, Busy
<1> QED
  BY <1>1 DEF CaseInv, OneTask

\* Where the files stay as they are, only what the task goes on with is to be shown.
LEMMA TaskMoves ==
  ASSUME TypeOK, NEW t \in Task, NEW c \in Case, CaseInv(c), Busy(t), call[t].case = c,
         Serve(t) \/ WriteFails(t), disk' = disk, Busy(t)' => StepOK(c, call[t])'
  PROVE  CaseInv(c)'
<1>1. \A u \in Task : u # t => call'[u] = call[u]
  BY OthersStay
<1>2. ~Unreviewed(c)' => Good(c, CaseFile(c))'
  BY OtherCasesStay DEF CaseInv, Unreviewed, Good, Parses, CaseFile
<1> QED
  BY <1>1, <1>2, CaseMoves

\* The writes.
LEMMA ReviewTruncate ==
  ASSUME TypeOK, NEW t \in Task, NEW c \in Case, CaseInv(c), call[t].case = c, Truncate(t)
  PROVE  CaseInv(c)'
<1>1. Busy(t) /\ call[t] \in Writer /\ call[t].at = "open"
  BY CallFields DEF Truncate, At
<1>2. StepOK(c, call[t])
  BY <1>1 DEF CaseInv
<1>3. call'[t] = [call[t] EXCEPT !.at = "fill"]
  BY DEF Truncate, TypeOK
<1>4. disk' = [disk EXCEPT ![c][call[t].file] = Empty] /\ prs' = prs
  BY DEF Truncate
<1>5. /\ call'[t].at = "fill" /\ call'[t].file = call[t].file /\ call'[t].new = call[t].new
      /\ call'[t].then = call[t].then /\ call'[t].sub = call[t].sub
  BY <1>1, <1>3 DEF Writer
<1>6. CASE call[t].file = "case"
  <2>1. disk'[c].case = Empty /\ disk'[c].bundle = disk[c].bundle
    BY <1>4, <1>6 DEF TypeOK
  <2>2. Unreviewed(c)'
    BY <2>1 DEF Unreviewed, Parses, CaseFile, Unparsed
  <2>3. StepOK(c, call[t])'
    BY <1>1, <1>2, <1>4, <1>5, <1>6, <2>1 DEF StepOK, Good
  <2> QED
    BY <1>1, <2>2, <2>3, CaseMoves, OthersStay DEF Serve
<1>7. CASE call[t].file = "bundle"
  <2>1. disk'[c].case = disk[c].case /\ disk'[c].bundle = Empty
    BY <1>4, <1>7 DEF TypeOK
  <2>2. Unreviewed(c)
    BY <1>1, <1>2, <1>7 DEF StepOK
  <2>3. Unreviewed(c)'
    BY <2>1, <2>2 DEF Unreviewed, Parses, CaseFile
  <2>4. StepOK(c, call[t])'
    BY <1>1, <1>2, <1>5, <1>7, <2>1, <2>3 DEF StepOK
  <2> QED
    BY <1>1, <2>3, <2>4, CaseMoves, OthersStay DEF Serve
<1> QED
  BY <1>1, <1>6, <1>7 DEF Writer, File

\* Reading the case into a writer keeps the case's invariant.
LEMMA ReviewFill ==
  ASSUME TypeOK, NEW t \in Task, NEW c \in Case, CaseInv(c), call[t].case = c, Fill(t)
  PROVE  CaseInv(c)'
<1>1. Busy(t) /\ call[t] \in Writer /\ call[t].at = "fill"
  BY CallFields DEF Fill, At
<1>2. StepOK(c, call[t]) /\ disk[c][call[t].file] = Empty
  BY <1>1 DEF CaseInv, StepOK
<1>3. disk' = [disk EXCEPT ![c][call[t].file] = Content(call[t])] /\ prs' = prs
  BY <1>2 DEF Fill, Filled
<1>4. call[t].new \in CaseRecord /\ call[t].sub \in Sub
  BY <1>1 DEF Writer
<1>6. CASE call[t].file = "case"
  <2>1. disk'[c].case = call[t].new /\ disk'[c].bundle = disk[c].bundle
    BY <1>3, <1>6 DEF TypeOK, Content
  <2>2. ~Unreviewed(c)' => Good(c, CaseFile(c))'
    BY <1>1, <1>2, <1>3, <1>6, <2>1 DEF StepOK, Unreviewed, Good, CaseFile
  <2>3. CASE call[t].then = "compile"
    <3>1. Builds(t, "compile")
      BY <1>6, <2>3 DEF Fill
    <3>2. call'[t] = [at |-> "compile", case |-> c, sub |-> call[t].sub]
      BY <3>1 DEF Builds, TypeOK
    <3>3. call[t].new.status = "building" /\ call[t].new.sub = call[t].sub
      BY <1>1, <1>2, <2>3 DEF StepOK
    <3>4. StepOK(c, call[t])'
      BY <2>1, <3>2, <3>3 DEF StepOK, Unreviewed, CaseFile
    <3> QED
      BY <1>1, <2>2, <3>4, CaseMoves, OthersStay DEF Serve
  <2>4. CASE call[t].then # "compile"
    <3>1. ~Busy(t)'
      BY <1>6, <2>4 DEF Fill, Ends, Busy, TypeOK
    <3> QED
      BY <1>1, <2>2, <3>1, CaseMoves, OthersStay DEF Serve
  <2> QED
    BY <2>3, <2>4
<1>7. CASE call[t].file = "bundle"
  <2>1. /\ call[t].new.status = "pending" /\ call[t].new.build = call[t].sub
        /\ call[t].new.sub = call[t].sub /\ Unreviewed(c)
    BY <1>1, <1>2, <1>7 DEF StepOK
  <2>2. disk'[c].case = disk[c].case /\ disk'[c].bundle = call[t].sub
    BY <1>3, <1>7, <2>1 DEF TypeOK, Content
  <2>3. Unreviewed(c)'
    BY <2>1, <2>2 DEF Unreviewed, Parses, CaseFile
  <2>4. call'[t] = [call[t] EXCEPT !.at = "open", !.file = "case"]
    BY <1>7 DEF Fill, TypeOK
  <2>5. /\ call'[t].at = "open" /\ call'[t].file = "case" /\ call'[t].new = call[t].new
        /\ call'[t].then = call[t].then /\ call'[t].sub = call[t].sub
    BY <1>1, <2>4 DEF Writer
  <2>6. call[t].then # "compile"
    BY <1>1, <1>2, <1>7 DEF StepOK
  <2>7. StepOK(c, call[t])'
    BY <2>1, <2>2, <2>5, <2>6 DEF StepOK, Good
  <2> QED
    BY <1>1, <2>3, <2>7, CaseMoves, OthersStay DEF Serve
<1> QED
  BY <1>1, <1>6, <1>7 DEF Writer, File

\* A verdict on the case that is there.
LEMMA ReviewSetStatus ==
  ASSUME TypeOK, NEW t \in Task, NEW c \in Case, CaseInv(c), call[t].case = c, SetStatus(t)
  PROVE  CaseInv(c)'
<1>1. /\ Busy(t) /\ call[t].at \in DOMAIN Verdict /\ disk' = disk /\ prs' = prs
      /\ StepOK(c, call[t])
  BY DEF SetStatus, CaseInv
<1>2. CASE ~Parses(c)
  <2>1. ~Busy(t)'
    BY <1>2 DEF SetStatus, Ends, Busy, TypeOK
  <2> QED
    BY <1>1, <2>1, TaskMoves DEF Serve
<1>3. CASE Parses(c)
  <2> DEFINE new == [CaseFile(c) EXCEPT !.status = Verdict[call[t].at]]
  <2>1. CaseFile(c) \in CaseRecord
    BY <1>3, ParsedIsRecord
  <2>2. /\ new.status = Verdict[call[t].at] /\ new.sub = CaseFile(c).sub
        /\ new.build = CaseFile(c).build
    BY <2>1 DEF CaseRecord
  <2>3. IF At(t, "mark") THEN Write(t, c, call[t].sub, new, "case", "compile")
                         ELSE Write(t, c, new.sub, new, "case", "idle")
    BY <1>3 DEF SetStatus
  <2> HIDE DEF new
  <2>4. /\ call'[t].at = "open" /\ call'[t].new = new /\ call'[t].file = "case"
        /\ call'[t].then = (IF At(t, "mark") THEN "compile" ELSE "idle")
        /\ At(t, "mark") => call'[t].sub = call[t].sub
    BY <2>3 DEF Write, TypeOK
  <2>5. ASSUME new.status \in {"pending", "approved"} PROVE Good(c, new)
    <3>1. call[t].at \in {"approved", "retry"}
      BY <1>1, <2>2, <2>5 DEF Verdict
    <3>2. HasStatus(c, "pending")
      BY <1>1, <3>1 DEF StepOK
    <3>3. Good(c, CaseFile(c))
      BY <3>2 DEF CaseInv, Unreviewed, HasStatus
    <3>4. new.status = "approved" => call[t].at = "approved"
      BY <2>2, <3>1 DEF Verdict
    <3> QED
      BY <1>1, <2>2, <3>3, <3>4 DEF StepOK, Good
  <2>6. ASSUME At(t, "mark") PROVE new.status = "building" /\ new.sub = call[t].sub
    BY <1>1, <1>3, <2>2, <2>6 DEF StepOK, At, Verdict
  <2>7. StepOK(c, call[t])'
    BY <1>1, <2>4, <2>5, <2>6 DEF StepOK, Good
  <2> QED
    BY <1>1, <2>7, TaskMoves DEF Serve
<1> QED
  BY <1>2, <1>3

\* Attaching the pull request to the writer keeps the case's invariant.
LEMMA ReviewAttach ==
  ASSUME TypeOK, NEW t \in Task, NEW c \in Case, CaseInv(c), call[t].case = c, Attach(t)
  PROVE  CaseInv(c)'
<1>1. /\ Busy(t) /\ call[t].at = "attach" /\ disk' = disk /\ prs' = prs
      /\ StepOK(c, call[t])
  BY DEF Attach, At, CaseInv
<1>2. Unreviewed(c) /\ (Parses(c) => CaseFile(c).sub = call[t].sub)
  BY <1>1 DEF StepOK
<1>3. CASE ~Parses(c)
  <2>1. call'[t].at = "fail"
    BY <1>3 DEF Attach, Goes, TypeOK
  <2>2. StepOK(c, call[t])'
    BY <2>1 DEF StepOK
  <2> QED
    BY <1>1, <2>2, TaskMoves DEF Serve
<1>4. CASE Parses(c)
  <2> DEFINE new == [CaseFile(c) EXCEPT !.status = "pending", !.build = call[t].sub]
  <2>1. CaseFile(c) \in CaseRecord
    BY <1>4, ParsedIsRecord
  <2>2. new.status = "pending" /\ new.sub = call[t].sub /\ new.build = call[t].sub
    BY <1>2, <1>4, <2>1 DEF CaseRecord
  <2>3. Write(t, c, call[t].sub, new, "bundle", "attached")
    BY <1>4 DEF Attach
  <2> HIDE DEF new
  <2>4. /\ call'[t].at = "open" /\ call'[t].new = new /\ call'[t].file = "bundle"
        /\ call'[t].then = "attached" /\ call'[t].sub = call[t].sub
    BY <2>3 DEF Write, TypeOK
  <2>5. Unreviewed(c)'
    BY <1>1, <1>2 DEF Unreviewed, Parses, CaseFile
  <2>6. StepOK(c, call[t])'
    BY <2>2, <2>4, <2>5 DEF StepOK
  <2> QED
    BY <1>1, <2>6, TaskMoves DEF Serve
<1> QED
  BY <1>3, <1>4

\* The steps that write nothing.
LEMMA ReviewGoesOn ==
  ASSUME TypeOK, NEW t \in Task, NEW c \in Case, CaseInv(c), call[t].case = c,
         Compile(t) \/ Registered(t) \/ Stage(t) \/ OpenPR(t) \/ PublishFails(t) \/ WriteFails(t)
  PROVE  CaseInv(c)'
<1>1. Busy(t) /\ disk' = disk /\ prs \subseteq prs'
  BY DEF Compile, Registered, Stage, OpenPR, PublishFails, WriteFails, At
<1>2. StepOK(c, call[t])
  BY <1>1 DEF CaseInv
<1>3. CaseFile(c)' = CaseFile(c) /\ (HasStatus(c, "pending") => HasStatus(c, "pending")')
      /\ (Unreviewed(c) => Unreviewed(c)') /\ (Parses(c)' => Parses(c))
  BY <1>1 DEF CaseFile, HasStatus, Unreviewed, Parses
<1>4. CASE Compile(t)
  <2>1. \/ call'[t] = [at |-> "attach", case |-> c, sub |-> call[t].sub]
        \/ call'[t] = [at |-> "fail", case |-> c]
    BY <1>4 DEF Compile, Builds, Goes, TypeOK
  <2>2. /\ call'[t].at \in {"attach", "fail"}
        /\ call'[t].at = "attach" => call'[t].sub = call[t].sub
    BY <2>1
  <2>3. StepOK(c, call[t])'
    BY <1>2, <1>3, <1>4, <2>2 DEF StepOK, Compile, At
  <2> QED
    BY <1>1, <1>4, <2>3, TaskMoves DEF Serve
<1>5. CASE Registered(t) \/ PublishFails(t)
  <2>1. call'[t].at \in {"stage", "retry"} /\ call[t].at \in {"register", "stage", "pr"}
    BY <1>5 DEF Registered, PublishFails, Goes, At, TypeOK
  <2>2. StepOK(c, call[t])'
    BY <1>2, <1>3, <2>1 DEF StepOK
  <2> QED
    BY <1>1, <1>5, <2>2, TaskMoves DEF Serve
<1>6. CASE Stage(t)
  <2>1. HasStatus(c, "pending") /\ Good(c, CaseFile(c)) /\ CaseFile(c) \in CaseRecord
    BY <1>2, <1>6, ParsedIsRecord DEF Stage, At, StepOK, CaseInv, Unreviewed, HasStatus
  <2>2. disk[c].bundle = CaseFile(c).sub /\ CaseFile(c).sub \in Sub
    BY <2>1 DEF Good, CaseRecord
  <2>3. call'[t].at = "pr" /\ call'[t].staged = CaseFile(c).sub
    BY <1>6, <2>2, CasesAssumption DEF Stage, TypeOK
  <2>4. StepOK(c, call[t])'
    BY <1>3, <2>1, <2>3 DEF StepOK
  <2> QED
    BY <1>1, <1>6, <2>4, TaskMoves DEF Serve
<1>7. CASE OpenPR(t)
  <2>1. HasStatus(c, "pending") /\ call[t].staged = CaseFile(c).sub
    BY <1>2, <1>7 DEF OpenPR, At, StepOK
  <2>2. call'[t].at \in {"approved", "retry"} /\ [case |-> c, of |-> CaseFile(c).sub] \in prs'
    BY <1>7, <2>1 DEF OpenPR, Goes, TypeOK
  <2>3. StepOK(c, call[t])'
    BY <1>3, <2>1, <2>2 DEF StepOK
  <2> QED
    BY <1>1, <1>7, <2>3, TaskMoves DEF Serve
<1>8. CASE WriteFails(t)
  <2>1. Busy(t)' => call'[t].at = "fail"
    BY <1>8 DEF WriteFails, Goes, Ends, Busy, TypeOK
  <2>2. Busy(t)' => StepOK(c, call[t])'
    BY <2>1 DEF StepOK
  <2> QED
    BY <1>1, <1>8, <2>2, TaskMoves
<1> QED
  BY <1>4, <1>5, <1>6, <1>7, <1>8

\* Every step of a task, a failed write included, keeps the invariant of each case.
LEMMA ReviewServes ==
  ASSUME TypeOK, NEW t \in Task, Serve(t) \/ WriteFails(t), NEW c \in Case, CaseInv(c)
  PROVE  CaseInv(c)'
<1>1. prs \subseteq prs' /\ \A u \in Task : u # t => call'[u] = call[u]
  BY OtherCasesStay, OthersStay
<1>2. CASE Registers(t)
  BY <1>1, <1>2, CaseStays DEF Registers, Busy
<1>3. CASE ~Registers(t) /\ call[t].case = c
  BY <1>3, ReviewTruncate, ReviewFill, ReviewSetStatus, ReviewAttach, ReviewGoesOn DEF Serve
<1>4. CASE ~Registers(t) /\ call[t].case # c
  <2>1. disk'[c] = disk[c]
    BY <1>4, OtherCasesStay
  <2>2. \A u \in Task : Busy(u)' /\ call'[u].case = c => Busy(u) /\ call'[u] = call[u]
    BY <1>1, <1>4, TasksStay DEF Busy
  <2> QED
    BY <1>1, <2>1, <2>2, CaseStays
<1> QED
  BY <1>2, <1>3, <1>4

\* A request that does not race is the only one of its case; what it starts from is
\* what it has read.
LEMMA ReviewRequests ==
  ASSUME TypeOK, NEW t \in Task, NEW c \in Case, CaseInv(c), c \notin raced',
         \/ \E s \in Sub : Submit(t, s)
         \/ \E d \in Case : Build(t, d) \/ Approve(t, d) \/ Reject(t, d)
  PROVE  CaseInv(c)'
<1>1. /\ disk' = disk /\ prs' = prs /\ ~Busy(t)
      /\ \A u \in Task : u # t => call'[u] = call[u]
  BY RequestsChange
<1>2. PICK d \in Case : /\ Arrives(t, d) /\ call'[t].case = d
                        /\ \/ \E s \in Sub : Submit(t, s) /\ d = CaseOf[s]
                           \/ Build(t, d) \/ Approve(t, d) \/ Reject(t, d)
  <2>1. ASSUME NEW s \in Sub, Submit(t, s)
        PROVE  CaseOf[s] \in Case /\ Arrives(t, CaseOf[s]) /\ call'[t].case = CaseOf[s]
    BY <2>1, CasesAssumption DEF Submit, Write, TypeOK
  <2>2. ASSUME NEW d \in Case, Build(t, d) \/ Approve(t, d) \/ Reject(t, d)
        PROVE  Arrives(t, d) /\ call'[t].case = d
    BY <2>2 DEF Build, Approve, Reject, Admin, TypeOK
  <2> QED
    BY <2>1, <2>2
<1>3. CASE d # c
  <2>1. \A u \in Task : Busy(u)' /\ call'[u].case = c => Busy(u) /\ call'[u] = call[u]
    BY <1>1, <1>2, <1>3 DEF Busy
  <2> QED
    BY <1>1, <2>1, CaseStays
<1>4. CASE d = c
  <2>1. \A u \in Task : Busy(u) => call[u].case # c
    BY <1>2, <1>4 DEF Arrives
  <2>2. OneTask(c)'
    BY <1>1, <2>1 DEF OneTask, Busy
  <2>3. ~Unreviewed(c)' => Good(c, CaseFile(c))'
    BY <1>1 DEF CaseInv, Unreviewed, Good, Parses, CaseFile
  <2>4. StepOK(c, call[t])'
    <3>1. ASSUME NEW s \in Sub, Submit(t, s) PROVE StepOK(c, call[t])'
      <4>1. /\ call'[t].at = "open" /\ call'[t].new.status = "submitted"
            /\ call'[t].file = "case" /\ call'[t].then = "idle"
        BY <3>1 DEF Submit, Write, TypeOK
      <4> QED
        BY <4>1 DEF StepOK
    <3>2. ASSUME Build(t, c) PROVE StepOK(c, call[t])'
      <4>1. call'[t].at = "mark" /\ call'[t].sub = CaseFile(c).sub
        BY <3>2 DEF Build, TypeOK
      <4>2. Unreviewed(c)'
        BY <1>1, <3>2 DEF Build, Unreviewed, HasStatus, Parses, CaseFile
      <4> QED
        BY <1>1, <4>1, <4>2 DEF StepOK, CaseFile
    <3>3. ASSUME Approve(t, c) PROVE StepOK(c, call[t])'
      <4>1. call'[t].at \in {"register", "stage"}
        BY <3>3 DEF Approve, Admin, TypeOK
      <4>2. HasStatus(c, "pending")'
        BY <1>1, <3>3 DEF Approve, HasStatus, Parses, CaseFile
      <4> QED
        BY <4>1, <4>2 DEF StepOK
    <3>4. ASSUME Reject(t, c) PROVE StepOK(c, call[t])'
      <4>1. call'[t].at = "rejected"
        BY <3>4 DEF Reject, Admin, TypeOK
      <4> QED
        BY <4>1 DEF StepOK
    <3> QED
      BY <1>2, <1>4, <3>1, <3>2, <3>3, <3>4
  <2>5. \A u \in Task : Busy(u)' /\ call'[u].case = c => StepOK(c, call[u])'
    <3>1. \A u \in Task : u # t => ~(Busy(u)' /\ call'[u].case = c)
      BY <1>1, <2>1 DEF Busy
    <3> QED
      BY <2>4, <3>1
  <2> QED
    BY <2>2, <2>3, <2>5 DEF CaseInv
<1> QED
  BY <1>3, <1>4

\* Every step keeps the invariant of the cases no two writers raced on.
LEMMA ReviewedNext == TypeOK /\ ReviewedInv /\ [Next]_vars => ReviewedInv'
<1> SUFFICES ASSUME TypeOK, ReviewedInv, [Next]_vars, NEW c \in Case, c \notin raced'
             PROVE  CaseInv(c)'
  BY DEF ReviewedInv
<1>1. CaseInv(c)
  <2>1. raced \subseteq raced'
    BY DEF Next, Serve, Submit, Build, Approve, Reject, Admin, Arrives, Truncate, Fill,
       SetStatus, Compile, Attach, Registers, Registered, Stage, OpenPR, PublishFails,
       WriteFails, Crash, vars
  <2> QED
    BY <2>1 DEF ReviewedInv
<1>2. ASSUME NEW t \in Task,
             \/ \E s \in Sub : Submit(t, s)
             \/ \E d \in Case : Build(t, d) \/ Approve(t, d) \/ Reject(t, d)
      PROVE  CaseInv(c)'
  BY <1>1, <1>2, ReviewRequests
<1>3. ASSUME NEW t \in Task, Serve(t) \/ WriteFails(t) PROVE CaseInv(c)'
  BY <1>1, <1>3, ReviewServes
<1>4. CASE Crash
  <2>1. disk' = disk /\ prs' = prs /\ \A u \in Task : ~Busy(u)'
    BY <1>4 DEF Crash, Busy
  <2> QED
    BY <1>1, <2>1, CaseStays
<1>5. CASE UNCHANGED vars
  BY <1>1, <1>5, CaseStays DEF vars, Busy
<1> QED
  BY <1>2, <1>3, <1>4, <1>5 DEF Next

\* Where the requests for a case come one at a time, an approved case has a pull request
\* with the bundles that were built from its own submission, whatever was submitted
\* again, retried, failed or cut off (main.go:514-530).
THEOREM ReviewedPublished == Spec => []ReviewedIsPublished
<1>1. Init => TypeOK /\ RegistryInv /\ ReviewedInv
  <2> SUFFICES ASSUME Init PROVE ReviewedInv
    BY InitTyped, RegistryInit DEF Init
  <2>1. /\ \A c \in Case : ~Parses(c)
        /\ \A t \in Task : ~Busy(t)
    BY DEF Init, Parses, CaseFile, Unparsed, Busy
  <2> QED
    BY <2>1 DEF ReviewedInv, CaseInv, OneTask, Unreviewed
<1>2. TypeOK /\ RegistryInv /\ ReviewedInv /\ [Next]_vars
        => TypeOK' /\ RegistryInv' /\ ReviewedInv'
  BY NextTyped, RegistryNext, ServerRegisters, ReviewedNext
<1>3. ReviewedInv => ReviewedIsPublished
  <2> SUFFICES ASSUME ReviewedInv, NEW c \in Case \ raced, HasStatus(c, "approved")
               PROVE  CaseFile(c).build = CaseFile(c).sub
                      /\ [case |-> c, of |-> CaseFile(c).sub] \in prs
    BY DEF ReviewedIsPublished
  <2>1. Good(c, CaseFile(c))
    BY DEF ReviewedInv, CaseInv, Unreviewed, HasStatus
  <2> QED
    BY <2>1 DEF Good, HasStatus
<1> QED
  BY <1>1, <1>2, <1>3, PTL DEF Spec
=============================================================================
