-------------------------- MODULE DerivedKeysProofs --------------------------
(***************************************************************************)
(* Theorems about DerivedKeys, for every set of processes, every set of    *)
(* key versions the broker is reloaded with, and any number of rotations,  *)
(* lost answers, deaths and failed writes.                                *)
(***************************************************************************)
EXTENDS DerivedKeys, TLAPS

ProcStep(p) ==
    \/ EnsureProvisioned(p)
    \/ \E r \in {"key", "rotate"} : Call(p, r)
    \/ CallFails(p) \/ ProcessDies(p)
    \/ Arrive(p) \/ serveProvision(p) \/ serveKey(p) \/ serveRotate(p)
    \/ ReadFile(p) \/ OpenTmp(p) \/ WriteTmp(p) \/ Rename(p)
    \/ WriteFails(p) \/ RenameFails(p)

\* A step is one process's, a broker reload, a leak of a key, or none.
LEMMA Cases ==
    ASSUME [Next]_vars
    PROVE  (\E p \in Proc : ProcStep(p)) \/ Reload \/ Leak \/ UNCHANGED vars
BY DEF Next, ProcStep

\* The missing key is not a key.
LEMMA NoKeyIsNone == NoKey \notin Keys
<1> SUFFICES ASSUME NoKey \in Keys PROVE FALSE
    OBVIOUS
<1>1. DOMAIN NoKey = {"ver"}
    BY DEF NoKey
<1>2. "mac" \in DOMAIN NoKey
    BY DEF Keys, DeriveKey
<1> QED
    BY <1>1, <1>2

\* DeriveKey returns a key.
LEMMA KeyTyped ==
    ASSUME NEW c \in Configs, NEW r \in 0 .. MaxRot
    PROVE  DeriveKey(c, r) \in Keys
BY DEF Keys

-----------------------------------------------------------------------------
(***************************************************************************)
(* Types.                                                                  *)
(***************************************************************************)
LEMMA AloneTyped ==
    ASSUME NEW p \in Proc, ProcStep(p), alone \in [Proc -> BOOLEAN]
    PROVE  alone' \in [Proc -> BOOLEAN]
<1>1. ASSUME Disturbed(p) PROVE alone' \in [Proc -> BOOLEAN]
    BY <1>1, Zenon DEF Disturbed
<1>2. ASSUME NEW r, Send(p, r) PROVE alone' \in [Proc -> BOOLEAN]
    BY <1>2, Zenon DEF Send, Beside, Idle
<1>3. \/ Disturbed(p)
      \/ \E r : Send(p, r)
      \/ alone' = alone
    BY DEF ProcStep, EnsureProvisioned, Call, CallFails, ProcessDies, Arrive, serveProvision, serveKey,
           serveRotate, Answer, ReadFile, OpenTmp, WriteTmp, Rename, WriteFails, RenameFails, KeepFails, history
<1> QED
    BY <1>1, <1>2, <1>3

\* A process's step keeps the types.
LEMMA StepTyped ==
    ASSUME TypeOK, NEW p \in Proc, ProcStep(p)
    PROVE  TypeOK'
<1> USE BoundAssumption DEF Places
<1>0. alone' \in [Proc -> BOOLEAN]
    BY AloneTyped DEF TypeOK
<1>1. CASE EnsureProvisioned(p)
    <2>1. CASE store # NoKey
        BY <1>1, <2>1, SMTT(30) DEF TypeOK, EnsureProvisioned, ledger, files, calls, history
    <2>2. CASE Send(p, "provision")
        BY <1>0, <2>2, SMTT(30) DEF TypeOK, Send, ledger, files
    <2> QED
        BY <1>1, <2>1, <2>2 DEF EnsureProvisioned
<1>2. ASSUME NEW r \in {"key", "rotate"}, Call(p, r) PROVE TypeOK'
    BY <1>0, <1>2, SMTT(30) DEF TypeOK, Call, Send, ledger, files
<1>3. CASE CallFails(p) \/ ProcessDies(p)
    BY <1>0, <1>3, SMTT(30) DEF TypeOK, CallFails, ProcessDies, ledger, files
<1>4. CASE Arrive(p)
    BY <1>0, <1>4, SMTT(30) DEF TypeOK, Arrive, ledger, files
<1>5. CASE serveProvision(p) \/ serveKey(p)
    <2>1. key' = [key EXCEPT ![p] = DeriveKey(snap[p], rot)] /\ DeriveKey(snap[p], rot) \in Keys
        BY <1>5, KeyTyped DEF serveProvision, serveKey, Answer, TypeOK
    <2>2. key' \in [Proc -> Keys \cup {NoKey}]
        BY <2>1 DEF TypeOK
    <2>3. pc' \in [Proc -> Places] /\ known' \in BOOLEAN /\ UNCHANGED <<rot, revoked, clean>>
        BY <1>5 DEF TypeOK, serveProvision, serveKey, Answer, ledger
    <2>4. UNCHANGED <<cfg, files, req, snap, once, leak, mishaps>>
        BY <1>5 DEF serveProvision, serveKey, Answer
    <2> QED
        BY <1>0, <2>2, <2>3, <2>4 DEF TypeOK, files
<1>6. CASE serveRotate(p)
    <2>1. rot' \in 0 .. MaxRot
        BY <1>6 DEF TypeOK, serveRotate
    <2>2. key' = [key EXCEPT ![p] = DeriveKey(snap[p], rot')] /\ DeriveKey(snap[p], rot') \in Keys
        BY <1>6, <2>1, KeyTyped DEF serveRotate, Answer, TypeOK
    <2>3. key' \in [Proc -> Keys \cup {NoKey}]
        BY <2>2 DEF TypeOK
    <2> QED
        <3>1. revoked' \in BOOLEAN
            BY <1>6, Zenon DEF serveRotate
        <3>2. pc' \in [Proc -> Places] /\ clean' \in BOOLEAN /\ UNCHANGED known
            BY <1>6 DEF TypeOK, serveRotate, Answer
        <3>3. UNCHANGED <<cfg, files, req, snap, once, leak, mishaps>>
            BY <1>6 DEF serveRotate, Answer
        <3> QED
            BY <1>0, <2>1, <2>3, <3>1, <3>2, <3>3 DEF TypeOK, files
<1>7. CASE ReadFile(p)
    BY <1>0, <1>7, SMTT(30) DEF TypeOK, ReadFile, Done, Ends, ledger
<1>8. CASE OpenTmp(p) \/ WriteTmp(p)
    BY <1>0, <1>8, SMTT(30) DEF TypeOK, OpenTmp, WriteTmp, ledger
<1>9. CASE Rename(p)
    <2>1. handle' \in [Proc -> {"none", "tmp", "store", "gone"}]
        BY <1>9 DEF TypeOK, Rename
    <2>2. store' \in Keys \cup {NoKey} /\ tmp' \in Keys \cup {NoKey, NoFile}
        BY <1>9 DEF TypeOK, Rename
    <2> QED
        BY <1>0, <1>9, <2>1, <2>2, SMTT(30) DEF TypeOK, Rename, Ends, ledger
<1>10. CASE WriteFails(p) \/ RenameFails(p)
    BY <1>0, <1>10, SMTT(30) DEF TypeOK, WriteFails, RenameFails, KeepFails, Done, Ends, ledger
<1> QED
    BY <1>1, <1>2, <1>3, <1>4, <1>5, <1>6, <1>7, <1>8, <1>9, <1>10 DEF ProcStep

\* Every variable keeps its type.
THEOREM TypeCorrect == Spec => []TypeOK
<1>1. Init => TypeOK
    <2>1. Init => alone \in [Proc -> BOOLEAN]
        BY Zenon DEF Init
    <2>2. ASSUME Init PROVE /\ pc \in [Proc -> Places]
                            /\ req \in [Proc -> {"provision", "key", "rotate"}]
                            /\ snap \in [Proc -> Configs]
                            /\ key \in [Proc -> Keys \cup {NoKey}]
                            /\ handle \in [Proc -> {"none", "tmp", "store", "gone"}]
                            /\ once \in [Proc -> {"not_asked", "ok", "failed"}]
        BY <2>2, ConfigAssumption DEF Init, Places
    <2>3. ASSUME Init PROVE /\ cfg \in Configs /\ rot \in 0 .. MaxRot /\ mishaps \in 0 .. MaxMishaps
                            /\ store = NoKey /\ tmp = NoFile /\ leak = NoKey
        BY <2>3, ConfigAssumption, BoundAssumption DEF Init
    <2>4. Init => known \in BOOLEAN /\ revoked \in BOOLEAN /\ clean \in BOOLEAN
        BY Zenon DEF Init
    <2> QED
        BY <2>1, <2>2, <2>3, <2>4, Zenon DEF TypeOK
<1>2. ASSUME TypeOK, [Next]_vars
      PROVE  TypeOK'
    <2>1. CASE Reload
        BY <1>2, <2>1 DEF Reload, TypeOK, ledger, files, calls
    <2>2. CASE Leak
        BY <1>2, <2>2 DEF Leak, TypeOK, ledger, files, calls, history
    <2>3. CASE UNCHANGED vars
        BY <1>2, <2>3 DEF vars, TypeOK, ledger, files, calls, history
    <2> QED
        BY <1>2, <2>1, <2>2, <2>3, StepTyped, Cases
<1> QED
    BY <1>1, <1>2, PTL DEF Spec

-----------------------------------------------------------------------------
(***************************************************************************)
(* LeakedKeyStaysDead.  A key carries the counter it was sealed under; no  *)
(* key in a file, in an answer or leaked is ahead of the ledger's, and a   *)
(* leaked one is behind it once it is revoked.                             *)
(***************************************************************************)
Sealed(k, r) == k \in Keys => \E c \in Configs, q \in 0 .. r : k = DeriveKey(c, q)

LeakInv ==
    /\ TypeOK
    /\ Sealed(store, rot) /\ Sealed(tmp, rot) /\ Sealed(leak, rot)
    /\ \A p \in Proc : Sealed(key[p], rot)
    /\ revoked => leak \in Keys /\ rot > 0 /\ Sealed(leak, rot - 1)

\* A key that is not ahead of a rotation is not ahead of a later one.
LEMMA SealedLater ==
    ASSUME NEW k, NEW r \in Nat, NEW r2 \in Nat, r <= r2, Sealed(k, r)
    PROVE  Sealed(k, r2)
BY DEF Sealed

\* A key derived at a rotation is not ahead of it.
LEMMA SealedNow ==
    ASSUME NEW c \in Configs, NEW r \in Nat
    PROVE  Sealed(DeriveKey(c, r), r)
BY DEF Sealed

\* The inductive invariant gives the property of the run: a revoked key is not accepted.
LEMMA RevokedIsDead ==
    ASSUME LeakInv
    PROVE  LeakedKeyStaysDead
<1> SUFFICES ASSUME revoked, Accepts(leak) PROVE FALSE
    BY DEF LeakedKeyStaysDead
<1>1. PICK c \in Configs, q \in 0 .. rot - 1 : leak = DeriveKey(c, q)
    BY DEF LeakInv, Sealed
<1>2. leak.mac = <<c.secret, c.ver, q>>
    BY <1>1 DEF DeriveKey, Mac
<1>3. leak.mac = <<SecretsByVersion[leak.ver], leak.ver, rot>>
    BY DEF Accepts, Mac
<1>4. q = rot
    BY <1>2, <1>3
<1> QED
    BY <1>1, <1>4 DEF LeakInv, TypeOK

\* A process's step keeps the invariant of the leaked key.
LEMMA StepSealed ==
    ASSUME LeakInv, NEW p \in Proc, ProcStep(p)
    PROVE  LeakInv'
<1>1. TypeOK'
    BY StepTyped DEF LeakInv
<1>2. CASE serveRotate(p)
    <2>1. rot \in Nat /\ rot' = rot + 1 /\ UNCHANGED <<store, tmp, leak>>
        BY <1>2 DEF serveRotate, Answer, files, LeakInv, TypeOK
    <2>2. Sealed(store, rot') /\ Sealed(tmp, rot') /\ Sealed(leak, rot')
        BY <2>1, SealedLater DEF LeakInv, Sealed
    <2>3. key' = [key EXCEPT ![p] = DeriveKey(snap[p], rot')]
        BY <1>2 DEF serveRotate, Answer
    <2>4. \A q \in Proc : Sealed(key'[q], rot')
        BY <2>1, <2>3, SealedLater, SealedNow DEF LeakInv, TypeOK
    <2>5. revoked' => leak' \in Keys /\ rot' > 0 /\ Sealed(leak', rot' - 1)
        <3>1. rot' - 1 = rot
            BY <2>1
        <3>2. revoked' => leak \in Keys
            BY <1>2 DEF serveRotate, LeakInv, TypeOK
        <3> QED
            BY <2>1, <3>1, <3>2 DEF LeakInv
    <2> QED
        BY <1>1, <2>1, <2>2, <2>4, <2>5 DEF LeakInv, Sealed
<1>3. CASE serveProvision(p) \/ serveKey(p)
    <2>1. key' = [key EXCEPT ![p] = DeriveKey(snap[p], rot)] /\ UNCHANGED <<rot, store, tmp, leak, revoked>>
        BY <1>3 DEF serveProvision, serveKey, Answer, ledger, files
    <2>2. \A q \in Proc : Sealed(key'[q], rot)
        BY <2>1, SealedNow DEF LeakInv, TypeOK
    <2> QED
        BY <1>1, <2>1, <2>2 DEF LeakInv, Sealed
<1>4. CASE ~serveRotate(p) /\ ~serveProvision(p) /\ ~serveKey(p)
    <2>1. UNCHANGED <<rot, key, leak, revoked>>
        BY <1>4 DEF ProcStep, EnsureProvisioned, Call, Send, CallFails, ProcessDies, Arrive, ReadFile,
                    OpenTmp, WriteTmp, Rename, WriteFails, RenameFails, KeepFails, ledger, files, calls, history
    <2>2. store' \in {store, key[p], tmp} /\ tmp' \in {tmp, key[p], NoKey, NoFile}
        BY <1>4 DEF ProcStep, EnsureProvisioned, Call, Send, CallFails, ProcessDies, Arrive, ReadFile,
                    OpenTmp, WriteTmp, Rename, WriteFails, RenameFails, KeepFails, ledger, files, calls, history
    <2>3. NoFile \notin Keys
        <3> SUFFICES ASSUME NoFile \in Keys PROVE FALSE
            OBVIOUS
        <3>1. DOMAIN NoFile = {"ver"}
            BY DEF NoFile
        <3>2. "mac" \in DOMAIN NoFile
            BY DEF Keys, DeriveKey
        <3> QED
            BY <3>1, <3>2
    <2>4. Sealed(store', rot) /\ Sealed(tmp', rot)
        BY <2>2, <2>3, NoKeyIsNone DEF LeakInv, Sealed
    <2> QED
        BY <1>1, <2>1, <2>4 DEF LeakInv, Sealed
<1> QED
    BY <1>2, <1>3, <1>4

\* A key that was in the file before a rotation is refused after it, for good.
THEOREM LeakedKeysDie == Spec => []LeakedKeyStaysDead
<1>1. Init /\ TypeOK => LeakInv
    BY NoKeyIsNone DEF Init, LeakInv, Sealed, Keys, DeriveKey, NoKey, NoFile
<1>2. ASSUME LeakInv, [Next]_vars, TypeOK'
      PROVE  LeakInv'
    <2>1. CASE Reload
        BY <1>2, <2>1 DEF Reload, LeakInv, Sealed, ledger, files, calls
    <2>2. CASE Leak
        <3>1. ~revoked
            BY <1>2, <2>2, NoKeyIsNone DEF Leak, LeakInv
        <3> QED
            BY <1>2, <2>2, <3>1 DEF Leak, LeakInv, Sealed, ledger, files, calls, history
    <2>3. CASE UNCHANGED vars
        BY <1>2, <2>3 DEF vars, LeakInv, Sealed, ledger, files, calls, history
    <2> QED
        BY <1>2, <2>1, <2>2, <2>3, StepSealed, Cases
<1>3. LeakInv => LeakedKeyStaysDead
    BY RevokedIsDead
<1> QED
    BY <1>1, <1>2, <1>3, TypeCorrect, PTL DEF Spec
-----------------------------------------------------------------------------
(***************************************************************************)
(* LoneCallRepairs.  While the file is right, every call under way will    *)
(* find it so; and a call nothing ran beside carries the current key from  *)
(* its answer to the rename.                                               *)
(***************************************************************************)
Current == DeriveKey(cfg, rot)

Agrees(p) ==
    \/ pc[p] \in {"idle", "sent"}
    \/ pc[p] = "arrived" /\ snap[p] = cfg
    \/ pc[p] = "answered" /\ key[p] = Current

Undisturbed(p) ==
    /\ \A q \in Proc \ {p} : pc[q] = "idle"
    /\ pc[p] = "arrived" => snap[p] = cfg
    /\ pc[p] \in {"answered", "open", "write", "rename"} /\ req[p] # "provision" =>
          known /\ key[p] = Current
    /\ pc[p] = "write" => handle[p] = "tmp"
    /\ pc[p] = "rename" => tmp = key[p]

RepairInv ==
    /\ TypeOK
    /\ clean => known /\ store = Current /\ \A p \in Proc : Agrees(p)
    /\ \A p \in Proc : alone[p] => Undisturbed(p)

\* The current key is a key.
LEMMA CurrentIsKey ==
    ASSUME TypeOK
    PROVE  Current \in Keys /\ Current # NoKey
BY KeyTyped, NoKeyIsNone DEF TypeOK, Current

\* Whatever p does, no other process stays alone.
LEMMA OthersDisturbed ==
    ASSUME NEW p \in Proc, NEW q \in Proc \ {p}, ProcStep(p), alone'[q]
    PROVE  alone' = alone /\ alone[q] /\ store # NoKey /\ EnsureProvisioned(p)
BY DEF ProcStep, EnsureProvisioned, Call, Send, Disturbed, CallFails, ProcessDies, Arrive, serveProvision,
       serveKey, serveRotate, Answer, ReadFile, OpenTmp, WriteTmp, Rename, WriteFails, RenameFails, KeepFails,
       history

\* The call of p itself.
LEMMA OwnStep ==
    ASSUME RepairInv, NEW p \in Proc, ProcStep(p), alone'[p]
    PROVE  Undisturbed(p)'
<1> USE DEF RepairInv, Undisturbed, TypeOK
<1>1. CASE EnsureProvisioned(p) /\ store # NoKey
    BY <1>1 DEF EnsureProvisioned, Send, Idle, history, calls, files
<1>2. ASSUME NEW r, Send(p, r), Idle(p) PROVE Undisturbed(p)'
    BY <1>2 DEF Send, Beside, Idle
<1>3. ASSUME Disturbed(p), \A q \in Proc \ {p} : pc'[q] = pc[q]
      PROVE  alone[p] /\ \A q \in Proc \ {p} : pc'[q] = "idle"
    BY <1>3 DEF Disturbed
<1>4. CASE CallFails(p) \/ ProcessDies(p)
    BY <1>3, <1>4 DEF CallFails, ProcessDies
<1>5. CASE Arrive(p)
    BY <1>3, <1>5 DEF Arrive
<1>6. CASE serveProvision(p)
    BY <1>3, <1>6 DEF serveProvision, Answer
<1>7. CASE serveKey(p) \/ serveRotate(p)
    BY <1>3, <1>7 DEF serveKey, serveRotate, Answer, ledger, Current
<1>8. CASE ReadFile(p)
    <2>1. CASE KeepsEntry(p)
        BY <1>3, <1>8, <2>1 DEF ReadFile, Done
    <2>2. CASE ~KeepsEntry(p)
        <3>1. pc[p] = "answered" /\ pc' = [pc EXCEPT ![p] = "open"] /\ UNCHANGED <<cfg, ledger, req, key>>
            BY <1>8, <2>2 DEF ReadFile
        <3>2. alone[p] /\ \A q \in Proc \ {p} : pc'[q] = "idle"
            BY <1>3, <1>8, <3>1 DEF ReadFile
        <3>3. Undisturbed(p)
            BY <3>2
        <3> QED
            BY <3>1, <3>2, <3>3 DEF ledger, Current
    <2> QED
        BY <2>1, <2>2
<1>9. CASE OpenTmp(p)
    BY <1>3, <1>9 DEF OpenTmp, ledger, Current
<1>10. CASE WriteTmp(p)
    BY <1>3, <1>10 DEF WriteTmp, ledger, Current
<1>11. CASE Rename(p)
    BY <1>3, <1>11 DEF Rename
<1>12. CASE WriteFails(p) \/ RenameFails(p)
    <2>1. pc' = [pc EXCEPT ![p] = "idle"] /\ Disturbed(p)
        BY <1>12 DEF WriteFails, RenameFails, KeepFails, Done
    <2> QED
        BY <1>3, <2>1
<1> QED
    BY <1>1, <1>2, <1>4, <1>5, <1>6, <1>7, <1>8, <1>9, <1>10, <1>11, <1>12 DEF ProcStep, EnsureProvisioned, Call

\* A step of p while the file is right.
LEMMA StaysClean ==
    ASSUME RepairInv, NEW p \in Proc, ProcStep(p), clean, clean'
    PROVE  known' /\ store' = Current' /\ \A q \in Proc : Agrees(q)'
<1>1. store = Current /\ store # NoKey /\ known /\ \A q \in Proc : Agrees(q)
    BY CurrentIsKey DEF RepairInv
<1>2. ~serveRotate(p)
    BY DEF serveRotate
<1>3. UNCHANGED <<cfg, rot>> /\ known'
    BY <1>1, <1>2 DEF ProcStep, EnsureProvisioned, Call, Send, CallFails, ProcessDies, Arrive, serveProvision,
                      serveKey, Answer, ReadFile, OpenTmp, WriteTmp, Rename, WriteFails, RenameFails, KeepFails,
                      ledger
<1>4. Current' = Current
    BY <1>3 DEF Current
<1>5. ~OpenTmp(p) /\ ~WriteTmp(p) /\ ~Rename(p) /\ ~WriteFails(p) /\ ~RenameFails(p)
    BY <1>1 DEF Agrees, OpenTmp, WriteTmp, Rename, WriteFails, RenameFails
<1>6. store' = store
    BY <1>2, <1>5 DEF ProcStep, EnsureProvisioned, Call, Send, CallFails, ProcessDies, Arrive, serveProvision,
                      serveKey, Answer, ReadFile, files
<1>7. \A q \in Proc \ {p} : pc'[q] = pc[q] /\ snap'[q] = snap[q] /\ key'[q] = key[q]
    BY <1>2, <1>5 DEF RepairInv, TypeOK, ProcStep, EnsureProvisioned, Call, Send, CallFails, ProcessDies, Arrive,
                      serveProvision, serveKey, Answer, ReadFile, Done, calls
<1>8. Agrees(p)'
    <2>1. CASE EnsureProvisioned(p) \/ \E r \in {"key", "rotate"} : Call(p, r)
        BY <1>1, <1>3, <1>4, <2>1 DEF EnsureProvisioned, Call, Send, Idle, Agrees, RepairInv, TypeOK
    <2>2. CASE CallFails(p) \/ ProcessDies(p)
        BY <2>2 DEF CallFails, ProcessDies, Agrees, RepairInv, TypeOK
    <2>3. CASE Arrive(p)
        BY <1>3, <2>3 DEF Arrive, Agrees, RepairInv, TypeOK
    <2>4. CASE serveProvision(p) \/ serveKey(p)
        <3>1. snap[p] = cfg
            BY <1>1, <2>4 DEF serveProvision, serveKey, Agrees
        <3> QED
            BY <1>3, <1>4, <2>4, <3>1 DEF serveProvision, serveKey, Answer, Agrees, Current, RepairInv, TypeOK
    <2>5. CASE ReadFile(p)
        <3>1. KeepsEntry(p)
            BY <1>1, <2>5 DEF ReadFile, KeepsEntry, Agrees
        <3> QED
            BY <2>5, <3>1 DEF ReadFile, Done, Agrees, RepairInv, TypeOK
    <2> QED
        BY <1>2, <1>5, <2>1, <2>2, <2>3, <2>4, <2>5 DEF ProcStep
<1> QED
    BY <1>1, <1>3, <1>4, <1>6, <1>7, <1>8 DEF Agrees

\* The step that makes the file right.
LEMMA BecomesClean ==
    ASSUME RepairInv, NEW p \in Proc, ProcStep(p), ~clean, clean'
    PROVE  known' /\ store' = Current' /\ \A q \in Proc : Agrees(q)'
<1> USE DEF RepairInv, TypeOK
<1>1. (ReadFile(p) /\ KeepsEntry(p)) \/ Rename(p)
    BY DEF ProcStep, EnsureProvisioned, Call, Send, CallFails, ProcessDies, Arrive, serveProvision, serveKey,
           serveRotate, Answer, ReadFile, OpenTmp, WriteTmp, WriteFails, RenameFails, KeepFails, Ends, history
<1>2. Ends(p, TRUE) /\ alone[p] /\ req[p] # "provision"
    BY <1>1 DEF ReadFile, Rename, Ends
<1>3. Undisturbed(p) /\ known /\ key[p] = Current
    BY <1>1, <1>2 DEF ReadFile, Rename, Undisturbed
<1>4. UNCHANGED <<cfg, rot, known>> /\ Current' = Current
    BY <1>1 DEF ReadFile, Rename, ledger, Current
<1>5. \A q \in Proc : pc'[q] = "idle"
    <2>1. pc' = [pc EXCEPT ![p] = "idle"]
        BY <1>1 DEF ReadFile, Done, Rename
    <2>2. \A q \in Proc \ {p} : pc[q] = "idle"
        BY <1>3 DEF Undisturbed
    <2> QED
        BY <2>1, <2>2
<1>6. store' = Current
    <2>1. CASE ReadFile(p) /\ KeepsEntry(p)
        BY <1>2, <1>3, <2>1 DEF ReadFile, KeepsEntry
    <2>2. CASE Rename(p)
        <3>1. tmp = Current /\ tmp # NoFile
            <4>1. DOMAIN NoFile = {"ver"} /\ "mac" \in DOMAIN Current
                BY DEF NoFile, Current, DeriveKey
            <4> QED
                BY <1>3, <2>2, <4>1 DEF Rename, Undisturbed
        <3> QED
            BY <2>2, <3>1 DEF Rename
    <2> QED
        BY <1>1, <2>1, <2>2
<1> QED
    BY <1>3, <1>4, <1>5, <1>6 DEF Agrees

\* A process's step keeps the store current while nothing disturbs it.
LEMMA StepRepairs ==
    ASSUME RepairInv, NEW p \in Proc, ProcStep(p)
    PROVE  RepairInv'
<1>1. TypeOK'
    BY StepTyped DEF RepairInv
<1>2. clean' => known' /\ store' = Current' /\ \A q \in Proc : Agrees(q)'
    BY StaysClean, BecomesClean DEF RepairInv, TypeOK
<1>3. ASSUME NEW q \in Proc, alone'[q] PROVE Undisturbed(q)'
    <2>1. CASE q = p
        BY <1>3, <2>1, OwnStep
    <2>2. CASE q # p
        <3>1. EnsureProvisioned(p) /\ store # NoKey /\ alone[q]
            BY <1>3, <2>2, OthersDisturbed
        <3> QED
            BY <1>3, <3>1 DEF EnsureProvisioned, RepairInv, Undisturbed, Current, ledger, files, history
    <2> QED
        BY <2>1, <2>2
<1> QED
    BY <1>1, <1>2, <1>3 DEF RepairInv

(***************************************************************************)
(* A key or rotate call nothing ran beside leaves the key the broker       *)
(* accepts in the file, until the next rotation or reload.                 *)
(***************************************************************************)
THEOREM LoneCallsRepair == Spec => []LoneCallRepairs
<1>1. Init /\ TypeOK => RepairInv
    BY DEF Init, RepairInv
<1>2. ASSUME RepairInv, [Next]_vars, TypeOK'
      PROVE  RepairInv'
    <2>1. CASE Reload
        BY <1>2, <2>1 DEF Reload, RepairInv
    <2>2. CASE Leak
        BY <1>2, <2>2 DEF Leak, RepairInv, Agrees, Undisturbed, Current, ledger, files, calls, history
    <2>3. CASE UNCHANGED vars
        BY <1>2, <2>3 DEF vars, RepairInv, Agrees, Undisturbed, Current, ledger, files, calls, history
    <2> QED
        BY <1>2, <2>1, <2>2, <2>3, StepRepairs, Cases
<1>3. ASSUME RepairInv
      PROVE  LoneCallRepairs
    <2>1. Accepts(Current) <=> known
        BY DEF Accepts, Current, DeriveKey, SecretsByVersion
    <2> QED
        BY <1>3, <2>1 DEF RepairInv, LoneCallRepairs
<1> QED
    BY <1>1, <1>2, <1>3, TypeCorrect, PTL DEF Spec
=============================================================================
