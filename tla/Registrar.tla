----------------------------- MODULE Registrar -----------------------------
(***************************************************************************)
(* FileRegistrar.Register of internal/publish/broker_register.go: read the *)
(* broker's registry file, add an entry, write the whole list to           *)
(* <path>.tmp and rename that over the file. No lock is held, so every     *)
(* file operation is a step. All registrations use the same .tmp.          *)
(*                                                                         *)
(* Two names, registry and temp, lead to files. A registration that has    *)
(* opened .tmp holds the file, not the name: when another one renames it   *)
(* meanwhile, the first goes on writing into the live registry.            *)
(***************************************************************************)
EXTENDS Naturals

CONSTANTS
  Task,                   \* goroutines of the publish server
  App,                    \* app ids; an entry is known by its app
  Existing,               \* apps that operators have put into the registry
  Missing, Empty, Torn    \* contents of a file that cannot be parsed

ASSUME ExistingAreApps == Existing \subseteq App
ASSUME FilesDiffer == Missing # Empty /\ Missing # Torn /\ Empty # Torn
ASSUME UnreadableIsNoList == \A e \in SUBSET App : e \notin {Missing, Empty, Torn}

VARIABLES
  registry,    \* what the broker's registry file holds: a set of entries
  temp,        \* what <path>.tmp holds
  job,         \* job[t]: the registration task t is doing
  \* History, read by no guard of the code:
  confirmed,   \* apps that were there before, or whose Register returned nil
  overlapped   \* two registrations have been under way at once

registrarVars == <<registry, temp, job, confirmed, overlapped>>

NoJob == [at |-> "idle"]
Job == [at : {"read", "open", "write", "rename"}, app : App,
        entries : SUBSET App, file : {"none", "temp", "registry", "gone"}]

Working(t) == job[t] # NoJob
Leaves(t) == job' = [job EXCEPT ![t] = NoJob]

\* os.WriteFile truncates when it opens the file and then writes. Where another
\* writer has filled the file in between, a shorter text leaves its tail behind.
Filled(old, new) == IF old \in {Empty, new} THEN {new} ELSE {new, Torn}

\* readEntries: a missing or empty file holds no entries.
Entries(f) == IF f \in {Missing, Empty, Torn} THEN {} ELSE f

RegistrarInit ==
  /\ registry = (IF Existing = {} THEN Missing ELSE Existing) /\ temp = Missing
  /\ job = [t \in Task |-> NoJob]
  /\ confirmed = Existing /\ overlapped = FALSE

Register(t, a) ==
  /\ ~Working(t)
  /\ job' = [job EXCEPT ![t] = [at |-> "read", app |-> a, entries |-> {}, file |-> "none"]]
  /\ overlapped' = (overlapped \/ \E u \in Task : Working(u))
  /\ UNCHANGED <<registry, temp, confirmed>>

\* Mutant: the entries that were already there are not kept.
ReadEntriesAfresh(t) ==
  /\ job[t].at = "read"
  /\ job' = [job EXCEPT ![t].at = "open", ![t].entries = {job[t].app}]
  /\ UNCHANGED <<registry, temp, confirmed, overlapped>>

\* A file that does not parse is an error. An entry of the same app is replaced.
ReadEntries(t) ==
  /\ job[t].at = "read"
  /\ IF registry = Torn
     THEN Leaves(t)
     ELSE job' = [job EXCEPT ![t].at = "open",
                             ![t].entries = Entries(registry) \cup {job[t].app}]
  /\ UNCHANGED <<registry, temp, confirmed, overlapped>>

\* Mutant: the registry is rewritten in place.
OpenInPlace(t) ==
  /\ job[t].at = "open"
  /\ temp' = Empty /\ registry' = Empty
  /\ job' = [job EXCEPT ![t].at = "write", ![t].file = "temp"]
  /\ UNCHANGED <<confirmed, overlapped>>

OpenTemp(t) ==
  /\ job[t].at = "open"
  /\ temp' = Empty
  /\ job' = [job EXCEPT ![t].at = "write", ![t].file = "temp"]
  /\ UNCHANGED <<registry, confirmed, overlapped>>

WriteTemp(t) ==
  /\ job[t].at = "write"
  /\ job' = [job EXCEPT ![t].at = "rename"]
  /\ temp' \in IF job[t].file = "temp" THEN Filled(temp, job[t].entries) ELSE {temp}
  /\ registry' \in IF job[t].file = "registry" THEN Filled(registry, job[t].entries)
                   ELSE {registry}
  /\ UNCHANGED <<confirmed, overlapped>>

\* Where the file at .tmp is known to the other registrations after it is renamed.
AfterRename(f) == CASE f = "temp" -> "registry" [] f = "registry" -> "gone" [] OTHER -> f

\* .tmp becomes the registry, unless another registration has renamed it already.
Rename(t) ==
  /\ job[t].at = "rename"
  /\ IF temp = Missing
     THEN Leaves(t) /\ UNCHANGED <<registry, temp, confirmed>>
     ELSE /\ registry' = temp /\ temp' = Missing
          /\ confirmed' = confirmed \cup {job[t].app}
          /\ job' = [u \in Task |->
                       IF u = t \/ ~Working(u) THEN NoJob
                       ELSE [job[u] EXCEPT !.file = AfterRename(@)]]
  /\ UNCHANGED overlapped

\* A file operation fails; .tmp stays as it is.
RegisterFails(t) ==
  /\ Working(t)
  /\ Leaves(t)
  /\ UNCHANGED <<registry, temp, confirmed, overlapped>>

\* The process dies: files stay, registrations are gone.
RegistrarCrash ==
  /\ job' = [t \in Task |-> NoJob]
  /\ UNCHANGED <<registry, temp, confirmed, overlapped>>

RegisterStep(t) ==
  ReadEntries(t) \/ OpenTemp(t) \/ WriteTemp(t) \/ Rename(t) \/ RegisterFails(t)

RegistrarNext ==
  \/ \E t \in Task : RegisterStep(t) \/ \E a \in App : Register(t, a)
  \/ RegistrarCrash

RegistrarSpec == RegistrarInit /\ [][RegistrarNext]_registrarVars
-----------------------------------------------------------------------------
(* Properties.                                                             *)

Readable(f) == f \notin {Empty, Torn}

RegistrarTypeOK ==
  /\ registry \in {Missing, Empty, Torn} \cup SUBSET App
  /\ temp \in {Missing, Empty, Torn} \cup SUBSET App
  /\ job \in [Task -> Job \cup {NoJob}]
  /\ confirmed \subseteq App
  /\ overlapped \in BOOLEAN

\* "atomic swap so the broker never reads a half-written file"
\* (broker_register.go:177): whenever the broker reloads, the file is a list.
NeverHalfWritten == Readable(registry)

\* The same where registrations come one at a time, whatever fails and whenever the
\* process dies: the next one starts with the .tmp that was left.
RegistryComplete == ~overlapped => NeverHalfWritten

\* One at a time, no registration drops the entry of another app: what Register
\* reported as done stays in the registry (broker_register.go:119-123).
RegistrationsKept == ~overlapped => confirmed \subseteq Entries(registry)
=============================================================================
