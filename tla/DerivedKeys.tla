----------------------------- MODULE DerivedKeys -----------------------------
(***************************************************************************)
(* The key of one caller of a provisioned app: the broker derives it from  *)
(* its secret, a version and the caller's rotation counter                 *)
(* (internal/broker/derive.go, provision.go), and the adapter processes on *)
(* the caller's host keep it in one secrets.json (cloud.go.tmpl,           *)
(* main.go.tmpl).                                                          *)
(*                                                                         *)
(* A request is sent, meets the registry that is loaded when it arrives,   *)
(* then the ledger, and is answered; the answer is read and written to the *)
(* file by as many system calls.  Every process writes the same .tmp file, *)
(* and an open file stays itself when it is renamed.                       *)
(***************************************************************************)
EXTENDS Naturals

CONSTANTS
    Proc,        \* adapter processes of the caller's host
    Configs,     \* [ver, secret] pairs the registry is loaded with
    First,       \* the one it is first loaded with
    MaxRot,      \* bound: rotations
    MaxMishaps   \* bound: lost answers, processes that die, writes that fail

ASSUME ConfigAssumption == First \in Configs
ASSUME BoundAssumption  == MaxRot \in Nat /\ MaxMishaps \in Nat

NoKey   == [ver |-> "none"]    \* no such entry: the file is absent or empty
NoFile  == [ver |-> "no_file"]

VARIABLES
    cfg,      \* the loaded [ver, secret]
    known,    \* has the caller a row in the ledger?
    rot,      \* its rotation counter
    store,    \* the entry in secrets.json
    tmp,      \* secrets.json.tmp
    pc,       \* per process: where its call is
    req,      \* per process: which call
    snap,     \* per process: the registry its request met
    key,      \* per process: the key in its answer
    handle,   \* per process: what its open file has become
    once,     \* per process: the answer EnsureProvisioned keeps
    leak,     \* a key that got into other hands
    mishaps,
    \* History: no rotation since the leak, calls nothing else ran beside,
    \* and whether the last such call has not been followed by a change.
    revoked, alone, clean

ledger  == <<known, rot>>
files   == <<store, tmp, handle>>
calls   == <<pc, req, snap, key, once>>
history == <<revoked, alone, clean>>
vars    == <<cfg, ledger, files, calls, leak, mishaps, history>>

Places == {"idle", "sent", "arrived", "answered", "open", "write", "rename"}

Init ==
    /\ cfg = First /\ known = FALSE /\ rot = 0
    /\ store = NoKey /\ tmp = NoFile
    /\ pc = [p \in Proc |-> "idle"] /\ req = [p \in Proc |-> "provision"]
    /\ snap = [p \in Proc |-> First] /\ key = [p \in Proc |-> NoKey]
    /\ handle = [p \in Proc |-> "none"]
    /\ once = [p \in Proc |-> "not_asked"]
    /\ leak = NoKey /\ mishaps = 0
    /\ revoked = FALSE /\ alone = [p \in Proc |-> FALSE] /\ clean = FALSE

(***************************************************************************)
(* Keys.                                                                   *)
(***************************************************************************)
\* Mutant: the rotation counter is not part of what is sealed.
MacWithoutRot(secret, ver, r) == <<secret, ver>>

Mac(secret, ver, r) == <<secret, ver, r>>

DeriveKey(c, r) == [ver |-> c.ver, mac |-> Mac(c.secret, c.ver, r)]

\* secretsByVersion holds the loaded version's secret only.
SecretsByVersion == [v \in {cfg.ver} |-> cfg.secret]

\* callerFromKey: a key as the Bearer credential of a push or a list.
Accepts(k) ==
    /\ known
    /\ k.ver \in DOMAIN SecretsByVersion
    /\ k.mac = Mac(SecretsByVersion[k.ver], k.ver, rot)

(***************************************************************************)
(* The history of a call: it is alone while no other process of the host   *)
(* is in a call, and nothing else happens to the key.                      *)
(***************************************************************************)
Idle(p) == pc[p] = "idle"

Beside(p) == \A q \in Proc \ {p} : Idle(q)

\* p goes on; a call of another process is not alone any more.
Disturbed(p) == alone' = [q \in Proc |-> q = p /\ alone[p]]

Ends(p, done) == clean' = (clean \/ (done /\ alone[p] /\ req[p] # "provision"))

Done(p) ==
    /\ pc'     = [pc EXCEPT ![p] = "idle"]
    /\ handle' = [handle EXCEPT ![p] = "none"]
    /\ once'   = IF req[p] = "provision" THEN [once EXCEPT ![p] = "ok"] ELSE once

(***************************************************************************)
(* An adapter process.  EnsureProvisioned comes before every call, asks    *)
(* once per process, and keeps the answer.                                 *)
(***************************************************************************)
Send(p, r) ==
    /\ pc'    = [pc EXCEPT ![p] = "sent"]
    /\ req'   = [req EXCEPT ![p] = r]
    /\ alone' = [q \in Proc |-> q = p /\ Beside(p)]
    /\ UNCHANGED <<cfg, ledger, files, snap, key, once, leak, mishaps, revoked, clean>>

EnsureProvisioned(p) ==
    /\ Idle(p) /\ once[p] = "not_asked"
    /\ IF store # NoKey
       THEN /\ once' = [once EXCEPT ![p] = "ok"]
            /\ UNCHANGED <<cfg, ledger, files, pc, req, snap, key, leak, mishaps, history>>
       ELSE Send(p, "provision")

Call(p, r) == Idle(p) /\ once[p] = "ok" /\ Send(p, r)

\* Any other status, no answer in time, or the process dies.
CallFails(p) ==
    /\ pc[p] \in {"sent", "arrived", "answered"} /\ mishaps < MaxMishaps
    /\ mishaps' = mishaps + 1
    /\ pc'   = [pc EXCEPT ![p] = "idle"]
    /\ once' = IF req[p] = "provision" THEN [once EXCEPT ![p] = "failed"] ELSE once
    /\ Disturbed(p)
    /\ UNCHANGED <<cfg, ledger, files, req, snap, key, leak, revoked, clean>>

ProcessDies(p) ==
    /\ mishaps < MaxMishaps /\ (~Idle(p) \/ once[p] = "failed")
    /\ mishaps' = mishaps + 1
    /\ pc'     = [pc EXCEPT ![p] = "idle"]
    /\ handle' = [handle EXCEPT ![p] = "none"]
    /\ once'   = [once EXCEPT ![p] = "not_asked"]
    /\ Disturbed(p)
    /\ UNCHANGED <<cfg, ledger, store, tmp, req, snap, key, leak, revoked, clean>>

(***************************************************************************)
(* The broker.                                                             *)
(***************************************************************************)
Arrive(p) ==
    /\ pc[p] = "sent"
    /\ pc'   = [pc EXCEPT ![p] = "arrived"]
    /\ snap' = [snap EXCEPT ![p] = cfg]
    /\ Disturbed(p)
    /\ UNCHANGED <<cfg, ledger, files, req, key, once, leak, mishaps, revoked, clean>>

Answer(p, r) ==
    /\ pc'  = [pc EXCEPT ![p] = "answered"]
    /\ key' = [key EXCEPT ![p] = DeriveKey(snap[p], r)]
    /\ Disturbed(p)
    /\ UNCHANGED <<cfg, files, req, snap, once, leak, mishaps>>

serveProvision(p) ==
    /\ pc[p] = "arrived" /\ req[p] = "provision"
    /\ known' = TRUE
    /\ Answer(p, rot)
    /\ UNCHANGED <<rot, revoked, clean>>

serveKey(p) ==
    /\ pc[p] = "arrived" /\ req[p] = "key" /\ known
    /\ Answer(p, rot)
    /\ UNCHANGED <<ledger, revoked, clean>>

serveRotate(p) ==
    /\ pc[p] = "arrived" /\ req[p] = "rotate" /\ known /\ rot < MaxRot
    /\ rot' = rot + 1
    /\ Answer(p, rot')
    /\ revoked' = (leak # NoKey)
    /\ clean' = FALSE
    /\ UNCHANGED known

\* SIGHUP with another key version.
Reload ==
    /\ cfg' \in Configs \ {cfg}
    /\ alone' = [p \in Proc |-> FALSE] /\ clean' = FALSE
    /\ UNCHANGED <<ledger, files, calls, leak, mishaps, revoked>>

(***************************************************************************)
(* The answer's key is kept: cacheKey (provision) leaves an entry alone,   *)
(* writeKey (every other call) replaces one that is not the same.  The     *)
(* provision handler's own goroutine is the only one to use cacheKey.      *)
(***************************************************************************)
\* Mutant: no entry is replaced, whichever call brought the key.
KeepsEntryAlways(p) == store # NoKey

KeepsEntry(p) == IF req[p] = "provision" THEN store # NoKey ELSE store = key[p]

ReadFile(p) ==
    /\ pc[p] = "answered"
    /\ IF KeepsEntry(p)
       THEN Done(p) /\ Ends(p, TRUE)
       ELSE /\ pc' = [pc EXCEPT ![p] = "open"]
            /\ UNCHANGED <<handle, once, clean>>
    /\ Disturbed(p)
    /\ UNCHANGED <<cfg, ledger, store, tmp, req, snap, key, leak, mishaps, revoked>>

\* os.WriteFile truncates, then writes.
OpenTmp(p) ==
    /\ pc[p] = "open"
    /\ pc'     = [pc EXCEPT ![p] = "write"]
    /\ tmp'    = NoKey
    /\ handle' = [handle EXCEPT ![p] = "tmp"]
    /\ Disturbed(p)
    /\ UNCHANGED <<cfg, ledger, store, req, snap, key, once, leak, mishaps, revoked, clean>>

WriteTmp(p) ==
    /\ pc[p] = "write"
    /\ pc'    = [pc EXCEPT ![p] = "rename"]
    /\ tmp'   = IF handle[p] = "tmp" THEN key[p] ELSE tmp
    /\ store' = IF handle[p] = "store" THEN key[p] ELSE store
    /\ Disturbed(p)
    /\ UNCHANGED <<cfg, ledger, handle, req, snap, key, once, leak, mishaps, revoked, clean>>

Rename(p) ==
    /\ pc[p] = "rename"
    /\ IF tmp = NoFile
       THEN UNCHANGED <<store, tmp>> /\ handle' = [handle EXCEPT ![p] = "none"]
       ELSE /\ store' = tmp
            /\ tmp'   = NoFile
            /\ handle' = [q \in Proc |-> IF q = p THEN "none"
                                       ELSE CASE handle[q] = "tmp"   -> "store"
                                              [] handle[q] = "store" -> "gone"
                                              [] OTHER               -> handle[q]]
    /\ pc'   = [pc EXCEPT ![p] = "idle"]
    /\ once' = IF req[p] = "provision" THEN [once EXCEPT ![p] = "ok"] ELSE once
    /\ Ends(p, TRUE) /\ Disturbed(p)
    /\ UNCHANGED <<cfg, ledger, req, snap, key, leak, mishaps, revoked>>

\* A full disk: neither writeKey nor EnsureProvisioned hands the error on, so
\* the call ends as one that kept its key.  A write that fails leaves the .tmp
\* as the open left it, a rename that fails leaves it in place.
KeepFails(p) ==
    /\ mishaps < MaxMishaps
    /\ mishaps' = mishaps + 1
    /\ Done(p) /\ Ends(p, FALSE) /\ Disturbed(p)
    /\ UNCHANGED <<cfg, ledger, store, tmp, req, snap, key, leak, revoked>>

WriteFails(p) == pc[p] \in {"open", "write"} /\ KeepFails(p)

RenameFails(p) == pc[p] = "rename" /\ KeepFails(p)

Leak ==
    /\ leak = NoKey /\ store # NoKey
    /\ leak' = store
    /\ UNCHANGED <<cfg, ledger, files, calls, mishaps, history>>

Next ==
    \/ \E p \in Proc :
          \/ EnsureProvisioned(p)
          \/ \E r \in {"key", "rotate"} : Call(p, r)
          \/ CallFails(p) \/ ProcessDies(p)
          \/ Arrive(p) \/ serveProvision(p) \/ serveKey(p) \/ serveRotate(p)
          \/ ReadFile(p) \/ OpenTmp(p) \/ WriteTmp(p) \/ Rename(p)
          \/ WriteFails(p) \/ RenameFails(p)
    \/ Reload \/ Leak

Spec == Init /\ [][Next]_vars
-----------------------------------------------------------------------------
(***************************************************************************)
(* Properties.                                                             *)
(***************************************************************************)
Keys == {DeriveKey(c, r) : c \in Configs, r \in 0 .. MaxRot}

\* Every variable has its type.
TypeOK ==
    /\ cfg \in Configs /\ known \in BOOLEAN /\ rot \in 0 .. MaxRot
    /\ store \in Keys \cup {NoKey} /\ tmp \in Keys \cup {NoKey, NoFile}
    /\ pc \in [Proc -> Places] /\ req \in [Proc -> {"provision", "key", "rotate"}]
    /\ snap \in [Proc -> Configs] /\ key \in [Proc -> Keys \cup {NoKey}]
    /\ handle \in [Proc -> {"none", "tmp", "store", "gone"}]
    /\ once \in [Proc -> {"not_asked", "ok", "failed"}]
    /\ leak \in Keys \cup {NoKey} /\ mishaps \in 0 .. MaxMishaps
    /\ revoked \in BOOLEAN /\ alone \in [Proc -> BOOLEAN] /\ clean \in BOOLEAN

(***************************************************************************)
(* Leak recovery (derive.go:11-16, serveRotate): a key that was in the     *)
(* file before a rotation is refused after it, for good: no reload, to     *)
(* whichever version, brings it back.                                      *)
(***************************************************************************)
LeakedKeyStaysDead == revoked => ~Accepts(leak)

(***************************************************************************)
(* The cache follows the broker (cloudHandler main.go.tmpl:755-757) where  *)
(* nothing interferes: a key or rotate call that ran with no other call of *)
(* the host beside it, no reload, and no write of the file that failed,    *)
(* leaves the key the broker accepts in the file, whatever was there       *)
(* before: a truncated .tmp, a key two rotations old, or the dead key of a *)
(* rotate whose write failed and which answered success all the same       *)
(* (cloud.go.tmpl:152-154).  It stays there until the next rotation or     *)
(* reload, whatever the processes do and wherever they die or fail.        *)
(***************************************************************************)
LoneCallRepairs == clean => Accepts(store)
=============================================================================
