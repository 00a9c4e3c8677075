----------------------------- MODULE SignupProofs --------------------------
(***************************************************************************)
(* Theorems about Signup and OtpMail, for every number of tasks, callers   *)
(* and addresses.                                                          *)
(***************************************************************************)
EXTENDS Signup, FiniteSetTheorems, TLAPS

Call == Asking \cup Waiting \cup Minted \cup Leaving

\* A signup under way has the fields of its point.
LEMMA CallFields ==
  ASSUME TypeOK, NEW t \in Task, Busy(t)
  PROVE  /\ call[t] \in Call /\ call[t].caller \in Caller /\ call[t].ip \in IP
         /\ call[t].at \in {"get", "gate"} => call[t] \in Asking
         /\ call[t].at \in {"provision", "register", "poll", "verify"} => call[t] \in Waiting
         /\ call[t].at \in {"put", "mark"} => call[t] \in Minted
         /\ call[t].at \in {"teardown", "closing"} => call[t] \in Leaving
<1>1. call[t] \in Call
  BY DEF TypeOK, Busy, Call
<1>2. QED
  BY <1>1 DEF Call, Asking, Waiting, Minted, Leaving

\* A call in progress is not the idle one.
LEMMA NotIdle == \A k \in Call : k # Idle /\ k.at # "idle"
BY DEF Call, Asking, Waiting, Minted, Leaving, Idle

\* The two steps that set two fields keep the others.
LEMMA Reached ==
  ASSUME NEW r \in Waiting
  PROVE  [r EXCEPT !.at = "put", !.acct = r.addr] \in Minted
BY DEF Waiting, Minted

\* A call that fails while it waits or after it minted is one that is leaving.
LEMMA Failed ==
  ASSUME NEW r \in Waiting \cup Minted
  PROVE  [r EXCEPT !.at = "teardown", !.acct = NoAccount] \in Leaving
<1>1. CASE r \in Waiting
  BY <1>1 DEF Waiting, Leaving
<1>2. CASE r \in Minted
  BY <1>2 DEF Minted, Leaving
<1>3. QED
  BY <1>1, <1>2

\* What a step of a signup makes of it: it ends, or goes on to a later point.
LEMMA Moves ==
  ASSUME TypeOK, NEW t \in Task, Serve(t)
  PROVE  /\ Busy(t) /\ \A u \in Task : u # t => call'[u] = call[u]
         /\ \/ call'[t] = Idle
            \/ Get(t) /\ call'[t] = [call[t] EXCEPT !.at = "gate"]
            \/ GetFails(t) /\ call'[t] = [call[t] EXCEPT !.at = "gate"]
            \/ Gate(t) /\ \E a \in Fresh :
                 /\ given' = given \cup {a}
                 /\ call'[t] = [call[t] EXCEPT !.at = "provision", !.addr = a]
            \/ ProvisionMailbox(t) /\ call'[t] = [call[t] EXCEPT !.at = "register"]
            \/ Register(t) /\ \E p \in {"poll", "teardown"} :
                 call'[t] = [call[t] EXCEPT !.at = p]
            \/ Poll(t) /\ call'[t] \in {call[t], [call[t] EXCEPT !.at = "verify"]}
            \/ Verify(t) /\ call'[t] = [call[t] EXCEPT !.at = "put", !.acct = call[t].addr]
            \/ Put(t) /\ call'[t] = [call[t] EXCEPT !.at = "mark"]
            \/ MarkMinted(t) /\ call'[t] = [call[t] EXCEPT !.at = "teardown"]
            \/ StepFails(t) /\ call'[t] = [call[t] EXCEPT !.at = "teardown", !.acct = NoAccount]
            \/ Teardown(t) /\ call'[t] = [call[t] EXCEPT !.at = "closing"]
<1> USE DEF TypeOK, Goes, Ends
<1>1. CASE Get(t) \/ TeardownFails(t) \/ Return(t)
  BY <1>1 DEF Get, TeardownFails, Return, Answer, At
<1>2. CASE GetFails(t)
  BY <1>2 DEF GetFails, At
<1>3. CASE Gate(t)
  <2>1. CASE MayMint(call[t].caller, call[t].ip) /\ Fresh # {}
    <3>1. PICK a \in Fresh :
            /\ given' = given \cup {a}
            /\ call' = [call EXCEPT ![t].at = "provision", ![t].addr = a]
      BY <1>3, <2>1 DEF Gate
    <3>2. call'[t] = [call[t] EXCEPT !.at = "provision", !.addr = a]
      BY <3>1
    <3>3. Busy(t) /\ \A u \in Task : u # t => call'[u] = call[u]
      BY <1>3, <3>1 DEF Gate, At
    <3>4. QED
      BY <1>3, <3>1, <3>2, <3>3
  <2>2. CASE ~(MayMint(call[t].caller, call[t].ip) /\ Fresh # {})
    BY <1>3, <2>2 DEF Gate, At
  <2>3. QED
    BY <2>1, <2>2
<1>4. CASE ProvisionMailbox(t) \/ ProvisionFails(t)
  BY <1>4 DEF ProvisionMailbox, ProvisionFails, At
<1>5. CASE Register(t)
  BY <1>5 DEF Register, At
<1>6. CASE Poll(t)
  BY <1>6 DEF Poll, At
<1>7. CASE Verify(t)
  <2>1. call'[t] = [call[t] EXCEPT !.at = "put", !.acct = call[t].addr]
    BY <1>7 DEF Verify
  <2>2. QED
    BY <1>7, <2>1 DEF Verify, At
<1>8. CASE Put(t) \/ MarkMinted(t) \/ Teardown(t)
  BY <1>8 DEF Put, MarkMinted, Teardown, At
<1>9. CASE StepFails(t)
  <2>1. call'[t] = [call[t] EXCEPT !.at = "teardown", !.acct = NoAccount]
    BY <1>9 DEF StepFails
  <2>2. QED
    BY <1>9, <2>1 DEF StepFails
<1>10. QED
  BY <1>1, <1>2, <1>3, <1>4, <1>5, <1>6, <1>7, <1>8, <1>9 DEF Serve

\* The mail server on its own keeps its type.
LEMMA MailTyped ==
  ASSUME MailTypeOK, NEW a \in Addr, MailStep(a)
  PROVE  MailTypeOK'
BY DEF MailTypeOK, MailStep, Receive, MakeDir, StoreLetter, RemoveBox

\* Nor does a signup's request to it.
LEMMA RequestTyped ==
  ASSUME MailTypeOK, NEW a \in Addr,
         \/ UNCHANGED mailVars
         \/ Provision(a) \/ Close(a)
         \/ Sent(a) /\ UNCHANGED <<active, letters, closing, late>>
         \/ HasCode(a) /\ TakeCode(a)
  PROVE  MailTypeOK'
<1>1. CASE HasCode(a) /\ TakeCode(a)
  BY <1>1 DEF MailTypeOK, HasCode, TakeCode
<1>2. CASE UNCHANGED mailVars \/ Provision(a) \/ Close(a)
           \/ (Sent(a) /\ UNCHANGED <<active, letters, closing, late>>)
  BY <1>2 DEF MailTypeOK, mailVars, Provision, Close, Sent
<1>3. QED
  BY <1>1, <1>2

\* The initial states have the types.
LEMMA InitTyped == Init => TypeOK
BY SignupAssumption DEF Init, MailInit, TypeOK, MailTypeOK

\* A task's step keeps the types.
LEMMA ServeTyped == ASSUME TypeOK, NEW t \in Task, Serve(t) PROVE TypeOK'
<1>0. Busy(t) /\ call[t] \in Call
  BY Moves, CallFields
<1>1. call' \in [Task -> {Idle} \cup Call]
  <2>1. call'[t] \in {Idle} \cup Call
    <3>1. CASE Get(t) /\ call'[t] = [call[t] EXCEPT !.at = "gate"]
      BY <1>0, <3>1, CallFields DEF Get, At, Asking, Call
    <3>2. CASE GetFails(t) /\ call'[t] = [call[t] EXCEPT !.at = "gate"]
      BY <1>0, <3>2, CallFields DEF GetFails, At, Asking, Call
    <3>3. CASE Gate(t) /\ \E a \in Fresh : call'[t] = [call[t] EXCEPT !.at = "provision", !.addr = a]
      BY <1>0, <3>3, CallFields DEF Gate, At, Asking, Waiting, Call, Fresh
    <3>4. CASE ProvisionMailbox(t) /\ call'[t] = [call[t] EXCEPT !.at = "register"]
      BY <1>0, <3>4, CallFields DEF ProvisionMailbox, At, Waiting, Call
    <3>5. CASE Register(t) /\ \E p \in {"poll", "teardown"} : call'[t] = [call[t] EXCEPT !.at = p]
      BY <1>0, <3>5, CallFields DEF Register, At, Waiting, Leaving, Call
    <3>6. CASE Poll(t) /\ call'[t] \in {call[t], [call[t] EXCEPT !.at = "verify"]}
      BY <1>0, <3>6, CallFields DEF Poll, At, Waiting, Call
    <3>7. CASE Verify(t) /\ call'[t] = [call[t] EXCEPT !.at = "put", !.acct = call[t].addr]
      <4>1. call[t] \in Waiting /\ call[t].addr \in Addr
        BY <1>0, <3>7, CallFields DEF Verify, At, Waiting
      <4>2. [call[t] EXCEPT !.at = "put", !.acct = call[t].addr] \in Minted
        BY <4>1, Reached
      <4>3. QED
        BY <3>7, <4>2 DEF Call
    <3>8. CASE Put(t) /\ call'[t] = [call[t] EXCEPT !.at = "mark"]
      BY <1>0, <3>8, CallFields DEF Put, At, Minted, Call
    <3>9. CASE MarkMinted(t) /\ call'[t] = [call[t] EXCEPT !.at = "teardown"]
      BY <1>0, <3>9, CallFields DEF MarkMinted, At, Minted, Leaving, Call
    <3>10. CASE StepFails(t) /\ call'[t] = [call[t] EXCEPT !.at = "teardown", !.acct = NoAccount]
      <4>1. call[t] \in Waiting \cup Minted
        BY <1>0, <3>10, CallFields DEF StepFails
      <4>2. [call[t] EXCEPT !.at = "teardown", !.acct = NoAccount] \in Leaving
        BY <4>1, Failed
      <4>3. QED
        BY <3>10, <4>2 DEF Call
    <3>11. CASE Teardown(t) /\ call'[t] = [call[t] EXCEPT !.at = "closing"]
      BY <1>0, <3>11, CallFields DEF Teardown, At, Leaving, Call
    <3>12. QED
      BY <3>1, <3>2, <3>3, <3>4, <3>5, <3>6, <3>7, <3>8, <3>9, <3>10, <3>11, Moves
  <2>2. DOMAIN call' = Task /\ call' = [u \in Task |-> call'[u]]
    BY DEF TypeOK, Serve, Get, GetFails, Gate, ProvisionMailbox, ProvisionFails, Register, Poll,
           Verify, Put, MarkMinted, StepFails, Teardown, TeardownFails, Return, Answer, Goes, Ends
  <2>3. QED
    BY <2>1, <2>2, Moves DEF TypeOK, Call
<1>2. MailTypeOK'
  <2>1. CASE UNCHANGED mailVars
    BY <2>1 DEF TypeOK, MailTypeOK, mailVars
  <2>2. CASE ProvisionMailbox(t) \/ ProvisionFails(t) \/ Register(t) \/ Poll(t) \/ Teardown(t)
    <3>1. call[t].addr \in Addr
      BY <1>0, <2>2, CallFields
         DEF ProvisionMailbox, ProvisionFails, Register, Poll, Teardown, At, Waiting, Leaving
    <3>2. QED
      BY <2>2, <3>1, RequestTyped
         DEF ProvisionMailbox, ProvisionFails, Register, Poll, Teardown, TypeOK, mailVars
  <2>3. QED
    BY <2>1, <2>2 DEF Serve, Get, GetFails, Gate, Verify, Put, MarkMinted, StepFails,
                      TeardownFails, Return
<1>3. /\ accounts' \in [Caller -> Addr \cup {NoAccount}]
      /\ ipSeen' \in [IP -> SUBSET Caller] /\ ipHot' \subseteq IP
  <2>1. CASE Put(t)
    BY <1>0, <2>1, CallFields DEF Put, At, Minted, TypeOK
  <2>2. CASE MarkMinted(t)
    BY <1>0, <2>2, CallFields DEF MarkMinted, TypeOK
  <2>3. CASE UNCHANGED <<accounts, ipSeen, ipHot>>
    BY <2>3 DEF TypeOK
  <2>4. QED
    BY <2>1, <2>2, <2>3 DEF Serve, Get, GetFails, Gate, ProvisionMailbox, ProvisionFails, Register,
       Poll, Verify, StepFails, Teardown, TeardownFails, Return
<1>4. given' \subseteq Addr /\ leaked' \subseteq Addr /\ apart' \subseteq Caller
  <2>1. CASE ProvisionFails(t) \/ TeardownFails(t)
    BY <1>0, <2>1, CallFields DEF ProvisionFails, TeardownFails, At, Waiting, Leaving, TypeOK
  <2>2. CASE GetFails(t)
    BY <1>0, <2>2, CallFields DEF GetFails, TypeOK
  <2>3. CASE Gate(t)
    BY <2>3 DEF Gate, Fresh, TypeOK
  <2>4. CASE UNCHANGED <<given, leaked, apart>>
    BY <2>4 DEF TypeOK
  <2>5. QED
    BY <2>1, <2>2, <2>3, <2>4 DEF Serve, Get, ProvisionMailbox, Register, Poll, Verify, Put,
       MarkMinted, StepFails, Teardown, Return
<1>5. answers' \subseteq [caller : Caller, acct : Addr]
  <2>1. CASE Get(t)
    BY <1>0, <2>1, CallFields DEF Get, Answer, TypeOK
  <2>2. CASE TeardownFails(t) \/ Return(t)
    BY <1>0, <2>2, CallFields DEF TeardownFails, Return, Answer, At, Leaving, TypeOK
  <2>3. CASE UNCHANGED answers
    BY <2>3 DEF TypeOK
  <2>4. QED
    BY <2>1, <2>2, <2>3 DEF Serve, GetFails, Gate, ProvisionMailbox, ProvisionFails, Register,
       Poll, Verify, Put, MarkMinted, StepFails, Teardown
<1>6. mishaps' \in Nat
  BY DEF TypeOK, Mishap, Serve, Get, GetFails, Gate, ProvisionMailbox, ProvisionFails, Register,
         Poll, Verify, Put, MarkMinted, StepFails, Teardown, TeardownFails, Return
<1>7. QED
  BY <1>1, <1>2, <1>3, <1>4, <1>5, <1>6 DEF TypeOK, Call

\* Every step keeps the types.
LEMMA NextTyped == TypeOK /\ [Next]_vars => TypeOK'
<1> SUFFICES ASSUME TypeOK, [Next]_vars PROVE TypeOK'
  OBVIOUS
<1>1. ASSUME NEW t \in Task, Serve(t) PROVE TypeOK'
  BY <1>1, ServeTyped
<1>2. ASSUME NEW t \in Task, NEW c \in Caller, NEW i \in IP, Arrive(t, c, i) PROVE TypeOK'
  <2>1. [at |-> "get", caller |-> c, ip |-> i, addr |-> NoAccount, acct |-> NoAccount] \in Asking
    BY DEF Asking
  <2>2. QED
    BY <1>2, <2>1 DEF Arrive, TypeOK, MailTypeOK, mailVars
<1>3. CASE \E i \in IP : IPCools(i)
  BY <1>3 DEF IPCools, TypeOK, MailTypeOK, mailVars
<1>4. CASE Mail
  BY <1>4, MailTyped DEF Mail, signupVars, TypeOK
<1>5. CASE Crash
  BY <1>5 DEF Crash, Mishap, TypeOK, MailTypeOK, mailVars
<1>6. CASE UNCHANGED vars
  BY <1>6 DEF vars, signupVars, mailVars, TypeOK, MailTypeOK
<1>7. QED
  BY <1>1, <1>2, <1>3, <1>4, <1>5, <1>6 DEF Next

\* The state has its type, for every configuration.
THEOREM TypeCorrect == Spec => []TypeOK
BY InitTyped, NextTyped, PTL DEF Spec

-----------------------------------------------------------------------------
\* A step leaves a caller's account alone unless it is Put, which stores a first one.
LEMMA NextKeepsAccounts ==
  TypeOK /\ [Next]_vars =>
    [\A c \in Caller : accounts[c] # NoAccount => accounts'[c] = accounts[c]]_vars
<1> SUFFICES ASSUME TypeOK, [Next]_vars, NEW c \in Caller, accounts[c] # NoAccount
             PROVE  accounts'[c] = accounts[c]
  OBVIOUS
<1>1. ASSUME NEW t \in Task, Put(t) PROVE accounts'[c] = accounts[c]
  BY <1>1 DEF Put, TypeOK
<1>2. ASSUME NEW t \in Task, Serve(t), ~Put(t) PROVE accounts'[c] = accounts[c]
  BY <1>2 DEF Serve, Get, GetFails, Gate, ProvisionMailbox, ProvisionFails, Register, Poll, Verify,
              MarkMinted, StepFails, Teardown, TeardownFails, Return
<1>3. QED
  BY <1>1, <1>2 DEF Next, Arrive, IPCools, Mail, Crash, signupVars, vars

\* The account in the ledger is final: the loser of a race never replaces it.
THEOREM FirstAccountIsKept == Spec => FirstAccountKept
<1>1. Init => TypeOK
  BY InitTyped
<1>2. TypeOK /\ [Next]_vars => TypeOK'
  BY NextTyped
<1>3. TypeOK /\ [Next]_vars =>
        [\A c \in Caller : accounts[c] # NoAccount => accounts'[c] = accounts[c]]_vars
  BY NextKeepsAccounts
<1>4. QED
  BY <1>1, <1>2, <1>3, PTL DEF Spec, FirstAccountKept
-----------------------------------------------------------------------------
\* A message is being stored, or is in a mailbox, only where one was open.
Kept(a) ==
  /\ letters[a] > 0 => a \in active \cup closing \cup late
  /\ delivery[a] \in {"accepted", "storing"} => a \in active \cup late
MailKept == \A a \in Addr : Kept(a)

\* A step of the mail server leaves letters only at addresses that are open, closing or late.
LEMMA MailStepKept ==
  ASSUME MailTypeOK, MailKept, NEW a \in Addr, MailStep(a)
  PROVE  MailKept'
<1> SUFFICES ASSUME NEW b \in Addr PROVE Kept(b)'
  BY DEF MailKept
<1>1. Kept(b) /\ Kept(a)
  BY DEF MailKept
<1>2. CASE Receive(a) \/ MakeDir(a)
  BY <1>1, <1>2 DEF Receive, MakeDir, Kept, MailTypeOK
<1>3. CASE StoreLetter(a)
  BY <1>1, <1>3 DEF StoreLetter, Kept, MailTypeOK
<1>4. CASE RemoveBox(a)
  BY <1>1, <1>4 DEF RemoveBox, Kept, MailTypeOK
<1>5. QED
  BY <1>2, <1>3, <1>4 DEF MailStep

\* So does each request that a signup makes of the mail server.
LEMMA RequestKept ==
  ASSUME MailTypeOK, MailKept, NEW a \in Addr,
         \/ UNCHANGED mailVars
         \/ Provision(a) \/ Close(a)
         \/ Sent(a) /\ UNCHANGED <<active, letters, closing, late>>
         \/ HasCode(a) /\ TakeCode(a)
  PROVE  MailKept'
<1> SUFFICES ASSUME NEW b \in Addr PROVE Kept(b)'
  BY DEF MailKept
<1>1. Kept(b) /\ Kept(a)
  BY DEF MailKept
<1>2. CASE UNCHANGED mailVars \/ Provision(a)
  BY <1>1, <1>2 DEF mailVars, Provision, Kept
<1>3. CASE Close(a)
  BY <1>1, <1>3 DEF Close, Kept
<1>4. CASE Sent(a) /\ UNCHANGED <<active, letters, closing, late>>
  BY <1>1, <1>4 DEF Sent, Kept, MailTypeOK
<1>5. CASE HasCode(a) /\ TakeCode(a)
  BY <1>1, <1>5 DEF HasCode, TakeCode, Kept, MailTypeOK
<1>6. QED
  BY <1>2, <1>3, <1>4, <1>5

\* What a signup asks of the mail server, at the address that it has.
LEMMA Requests ==
  ASSUME TypeOK, NEW t \in Task, Serve(t)
  PROVE  \/ UNCHANGED mailVars
         \/ /\ call[t].addr \in Addr
            /\ LET a == call[t].addr IN
               \/ Provision(a) \/ Close(a)
               \/ Sent(a) /\ UNCHANGED <<active, letters, closing, late>>
               \/ HasCode(a) /\ TakeCode(a)
<1>1. CASE ProvisionMailbox(t) \/ ProvisionFails(t) \/ Register(t) \/ Poll(t) \/ Teardown(t)
  <2>1. call[t].addr \in Addr
    BY <1>1, Moves, CallFields
       DEF ProvisionMailbox, ProvisionFails, Register, Poll, Teardown, At, Waiting, Leaving
  <2>2. QED
    BY <1>1, <2>1 DEF ProvisionMailbox, ProvisionFails, Register, Poll, Teardown
<1>2. QED
  BY <1>1 DEF Serve, Get, GetFails, Gate, Verify, Put, MarkMinted, StepFails, TeardownFails, Return

\* So does every step.
LEMMA NextKept == TypeOK /\ MailKept /\ [Next]_vars => MailKept'
<1> SUFFICES ASSUME TypeOK, MailKept, [Next]_vars PROVE MailKept'
  OBVIOUS
<1>0. MailTypeOK
  BY DEF TypeOK
<1>1. CASE UNCHANGED mailVars
  BY <1>1 DEF mailVars, MailKept, Kept
<1>2. ASSUME NEW t \in Task, Serve(t) PROVE MailKept'
  BY <1>0, <1>1, <1>2, Requests, RequestKept
<1>3. CASE Mail
  BY <1>0, <1>3, MailStepKept DEF Mail
<1>4. QED
  BY <1>1, <1>2, <1>3 DEF Next, Arrive, IPCools, Crash, vars

\* A message is kept only for an open mailbox, unless its delivery had begun when the
\* mailbox was closed (server.go:14-15).
THEOREM KeptOnlyWhileOpen == Spec => []KeptWhileOpen
<1>1. Init => TypeOK /\ MailKept
  BY InitTyped DEF Init, MailInit, MailKept, Kept
<1>2. TypeOK /\ MailKept /\ [Next]_vars => (TypeOK /\ MailKept)'
  BY NextTyped, NextKept
<1>3. TypeOK /\ MailKept => KeptWhileOpen
  BY DEF MailKept, Kept, KeptWhileOpen
<1>4. QED
  BY <1>1, <1>2, <1>3, PTL DEF Spec

-----------------------------------------------------------------------------
\* Signup t has the mailbox of a open and is going to close it.
Watches(t, a) ==
  /\ Busy(t) /\ call[t].addr = a
  /\ call[t].at \in {"register", "poll", "verify", "put", "mark", "teardown"}

\* A signup that watches a mailbox goes on to, closes it, or loses its request to.
LEMMA StillWatched ==
  ASSUME TypeOK, NEW t \in Task, Serve(t), NEW a, Watches(t, a)
  PROVE  Watches(t, a)' \/ a \notin active' \/ a \in leaked'
<1>1. CASE Teardown(t)
  BY <1>1 DEF Teardown, Close, Watches
<1>2. CASE TeardownFails(t)
  BY <1>2 DEF TeardownFails, Watches
<1>3. ASSUME NEW p \in {"poll", "verify", "put", "mark", "teardown"},
             \/ call'[t] = [call[t] EXCEPT !.at = p]
             \/ call'[t] = [call[t] EXCEPT !.at = p, !.acct = NoAccount]
             \/ call'[t] = [call[t] EXCEPT !.at = p, !.acct = call[t].addr]
      PROVE Watches(t, a)'
  <2>1. call[t] \in Waiting \cup Minted \cup Leaving
    BY CallFields DEF Watches
  <2>2. call'[t].at = p /\ call'[t].addr = call[t].addr
    BY <1>3, <2>1 DEF Waiting, Minted, Leaving
  <2>3. call'[t] # Idle
    BY <1>3, <2>1 DEF Waiting, Minted, Leaving, Idle
  <2>4. QED
    BY <2>2, <2>3 DEF Watches, Busy
<1>4. CASE Register(t) \/ Verify(t) \/ Put(t) \/ MarkMinted(t) \/ StepFails(t)
  BY <1>3, <1>4, NotIdle DEF Register, Verify, Put, MarkMinted, StepFails, Goes, TypeOK
<1>5. CASE Poll(t)
  <2>1. call' = call \/ call'[t] = [call[t] EXCEPT !.at = "verify"]
    BY <1>5 DEF Poll, Goes, TypeOK
  <2>2. QED
    BY <1>3, <2>1 DEF Watches, Busy
<1>6. QED
  BY <1>1, <1>2, <1>4, <1>5 DEF Serve, Get, GetFails, Gate, ProvisionMailbox, ProvisionFails,
     Return, At, Watches

\* Every step keeps each open mailbox watched, unless it was leaked.
LEMMA NextWatched == TypeOK /\ MailboxWatched /\ [Next]_vars => MailboxWatched'
<1> SUFFICES ASSUME TypeOK, MailboxWatched, [Next]_vars,
                    NEW a \in active', a \notin leaked'
             PROVE  (\E t \in Task : Watches(t, a))'
  BY DEF MailboxWatched, Watches
<1>1. ASSUME a \in active, a \notin leaked PROVE \E u \in Task : Watches(u, a)
  BY <1>1 DEF MailboxWatched, Watches
<1>2. ASSUME NEW t \in Task, Serve(t) PROVE (\E u \in Task : Watches(u, a))'
  <2>1. CASE ProvisionMailbox(t) /\ a = call[t].addr
    <3>1. call[t] \in Waiting
      BY <2>1, CallFields DEF ProvisionMailbox, At
    <3>2. call'[t] = [call[t] EXCEPT !.at = "register"]
      BY <2>1 DEF ProvisionMailbox, Goes, TypeOK
    <3>3. call'[t].at = "register" /\ call'[t].addr = a /\ call'[t] # Idle
      BY <2>1, <3>1, <3>2 DEF Waiting, Idle
    <3>4. Watches(t, a)'
      BY <3>3 DEF Watches, Busy
    <3>5. QED
      BY <3>4
  <2>2. CASE ~(ProvisionMailbox(t) /\ a = call[t].addr)
    <3>1. a \in active /\ a \notin leaked
      BY <1>2, <2>2 DEF Serve, Get, GetFails, Gate, ProvisionMailbox, ProvisionFails, Register,
         Poll, Verify, Put, MarkMinted, StepFails, Teardown, TeardownFails, Return, Provision,
         Close, TakeCode, mailVars
    <3>2. PICK u \in Task : Watches(u, a)
      BY <1>1, <3>1
    <3>3. CASE u = t
      BY <1>2, <3>2, <3>3, StillWatched
    <3>4. CASE u # t
      BY <1>2, <3>2, <3>4, Moves DEF Watches, Busy
    <3>5. QED
      BY <3>3, <3>4
  <2>3. QED
    BY <2>1, <2>2
<1>3. ASSUME NEW t \in Task, NEW c \in Caller, NEW i \in IP, Arrive(t, c, i)
      PROVE (\E u \in Task : Watches(u, a))'
  <2>1. PICK u \in Task : Watches(u, a)
    BY <1>1, <1>3 DEF Arrive, mailVars
  <2>2. call'[u] = call[u]
    BY <1>3, <2>1 DEF Arrive, Watches, TypeOK
  <2>3. QED
    BY <2>1, <2>2 DEF Watches, Busy
<1>4. CASE Mail
  BY <1>1, <1>4 DEF Mail, MailStep, Receive, MakeDir, StoreLetter, RemoveBox, signupVars,
                    Watches, Busy
<1>5. CASE (\E i \in IP : IPCools(i)) \/ UNCHANGED vars
  BY <1>1, <1>5 DEF IPCools, vars, signupVars, mailVars, Watches, Busy
<1>6. CASE Crash
  BY <1>6 DEF Crash, mailVars
<1>7. QED
  BY <1>2, <1>3, <1>4, <1>5, <1>6 DEF Next

\* "always tear down" (broker.go:163): a mailbox is open only while a signup will close it,
\* unless a request to the mail server was lost or the broker died.
THEOREM OpenMailboxIsWatched == Spec => []MailboxWatched
<1>1. Init => TypeOK /\ MailboxWatched
  BY InitTyped DEF Init, MailInit, MailboxWatched
<1>2. TypeOK /\ MailboxWatched /\ [Next]_vars => (TypeOK /\ MailboxWatched)'
  BY NextTyped, NextWatched
<1>3. QED
  BY <1>1, <1>2, PTL DEF Spec

-----------------------------------------------------------------------------
\* A signup keeps its caller and its network address.
LEMMA CallerKept ==
  ASSUME TypeOK, NEW t \in Task, Serve(t), NEW u \in Task, Busy(u)'
  PROVE  Busy(u) /\ call'[u].caller = call[u].caller /\ call'[u].ip = call[u].ip
<1>1. CASE u # t
  BY <1>1, Moves DEF Busy
<1>2. CASE u = t
  <2>1. call[t] \in Call
    BY Moves, CallFields
  <2>2. ASSUME NEW p, NEW x,
               \/ call'[t] = [call[t] EXCEPT !.at = p]
               \/ call'[t] = [call[t] EXCEPT !.at = p, !.addr = x]
               \/ call'[t] = [call[t] EXCEPT !.at = p, !.acct = x]
        PROVE  call'[t].caller = call[t].caller /\ call'[t].ip = call[t].ip
    BY <2>1, <2>2 DEF Call, Asking, Waiting, Minted, Leaving
  <2>3. call'[t].caller = call[t].caller /\ call'[t].ip = call[t].ip
    <3>1. CASE Gate(t)
      <4>1. PICK a \in Fresh : call'[t] = [call[t] EXCEPT !.at = "provision", !.addr = a]
        BY <1>2, <3>1 DEF Gate, Ends, TypeOK, Busy
      <4>2. QED
        BY <2>2, <4>1
    <3>2. CASE Poll(t)
      <4>1. call'[t] \in {call[t], [call[t] EXCEPT !.at = "verify"]}
        BY <3>2 DEF Poll, Goes, TypeOK
      <4>2. QED
        BY <2>2, <4>1
    <3>3. CASE Register(t)
      <4>1. PICK p \in {"poll", "teardown"} : call'[t] = [call[t] EXCEPT !.at = p]
        BY <3>3 DEF Register, Goes, TypeOK
      <4>2. QED
        BY <2>2, <4>1
    <3>4. CASE ~(Gate(t) \/ Poll(t) \/ Register(t))
      <4>1. \/ call'[t] = [call[t] EXCEPT !.at = "gate"]
            \/ call'[t] = [call[t] EXCEPT !.at = "register"]
            \/ call'[t] = [call[t] EXCEPT !.at = "put", !.acct = call[t].addr]
            \/ call'[t] = [call[t] EXCEPT !.at = "mark"]
            \/ call'[t] = [call[t] EXCEPT !.at = "teardown"]
            \/ call'[t] = [call[t] EXCEPT !.at = "teardown", !.acct = NoAccount]
            \/ call'[t] = [call[t] EXCEPT !.at = "closing"]
        BY <1>2, <3>4, Moves DEF Busy
      <4>2. QED
        BY <2>2, <4>1
    <3>5. QED
      BY <3>1, <3>2, <3>3, <3>4
  <2>4. QED
    BY <1>2, <2>3, Moves
<1>3. QED
  BY <1>1, <1>2

Before == {"gate", "provision", "register", "poll", "verify", "put"}
After == {"mark", "teardown", "closing"}

\* What the ledger holds for caller c, as far as signup t knows.
Agrees(t, c) ==
  Busy(t) /\ call[t].caller = c =>
    /\ call[t].at \in Before => accounts[c] = NoAccount
    /\ call[t].at \in After /\ call[t].acct # NoAccount => accounts[c] = call[t].acct

\* The signups of c come one at a time, and the ledger holds what was answered.
OneAtATime(c) ==
  \A t, u \in Task : Busy(t) /\ Busy(u) /\ call[t].caller = c /\ call[u].caller = c => t = u
Retrievable(c) == \A x \in answers : x.caller = c => accounts[c] = x.acct
InStep(c) == OneAtATime(c) /\ Retrievable(c) /\ \A t \in Task : Agrees(t, c)
AllInStep == \A c \in Caller \ apart : InStep(c)

\* After a task's step each call agrees with what is recorded of its caller.
LEMMA ServeAgrees ==
  ASSUME TypeOK, NEW t \in Task, Serve(t), NEW c \in Caller, InStep(c), c \notin apart'
  PROVE  Agrees(t, c)'
<1> SUFFICES ASSUME Busy(t)', call'[t].caller = c PROVE Agrees(t, c)'
  BY DEF Agrees
<1>1. Busy(t) /\ call[t].caller = c /\ call[t] \in Call
  BY CallerKept, CallFields
<1>2. Agrees(t, c)
  BY DEF InStep
<1>3. CASE Get(t)
  <2>1. accounts' = accounts /\ accounts[c] = NoAccount /\ call'[t] = [call[t] EXCEPT !.at = "gate"]
    BY <1>1, <1>3 DEF Get, Answer, Ends, Goes, TypeOK, Busy
  <2>2. call'[t].at = "gate"
    BY <1>1, <2>1 DEF Call, Asking, Waiting, Minted, Leaving
  <2>3. QED
    BY <2>1, <2>2 DEF Agrees, After
<1>4. CASE GetFails(t)
  BY <1>1, <1>4 DEF GetFails
<1>5. CASE Put(t)
  <2>1. call[t] \in Minted /\ call'[t] = [call[t] EXCEPT !.at = "mark"]
    BY <1>1, <1>5, CallFields DEF Put, At, Goes, TypeOK
  <2>2. call'[t].at = "mark" /\ call'[t].acct = call[t].acct
    BY <2>1 DEF Minted
  <2>3. accounts[c] = NoAccount
    BY <1>1, <1>2, <1>5 DEF Put, At, Agrees, Before
  <2>4. accounts'[c] = call[t].acct
    BY <1>1, <1>5, <2>3 DEF Put, TypeOK
  <2>5. QED
    BY <2>2, <2>4 DEF Agrees, Before
<1>6. ASSUME call[t].at \in Before, call'[t].at \in Before, accounts' = accounts
      PROVE  Agrees(t, c)'
  BY <1>1, <1>2, <1>6 DEF Agrees, Before, After
<1>7. CASE Gate(t) \/ ProvisionMailbox(t) \/ ProvisionFails(t) \/ Poll(t) \/ Verify(t)
  <2>1. call[t].at \in Before /\ accounts' = accounts
    BY <1>7 DEF Gate, ProvisionMailbox, ProvisionFails, Poll, Verify, At, Before
  <2>2. call'[t].at \in Before
    <3>1. CASE Poll(t)
      BY <1>1, <3>1, <2>1 DEF Poll, Goes, TypeOK, Before, Call, Asking, Waiting, Minted, Leaving
    <3>2. CASE Gate(t)
      <4>1. PICK a \in Fresh : call' = [call EXCEPT ![t].at = "provision", ![t].addr = a]
        BY <1>1, <3>2 DEF Gate, Ends, TypeOK, Busy
      <4>2. call'[t] = [call[t] EXCEPT !.at = "provision", !.addr = a]
        BY <4>1 DEF TypeOK
      <4>3. call[t] \in Asking
        BY <1>1, <3>2, CallFields DEF Gate, At
      <4>4. call'[t].at = "provision"
        BY <4>2, <4>3 DEF Asking
      <4>5. QED
        BY <4>4 DEF Before
    <3>3. CASE ProvisionMailbox(t)
      BY <1>1, <3>3 DEF ProvisionMailbox, Goes, TypeOK, Before, Call, Asking, Waiting, Minted, Leaving
    <3>4. CASE ProvisionFails(t)
      BY <3>4 DEF ProvisionFails, Ends, TypeOK, Busy
    <3>5. CASE Verify(t)
      <4>1. call[t] \in Waiting /\ call'[t] = [call[t] EXCEPT !.at = "put", !.acct = call[t].addr]
        BY <1>1, <3>5, CallFields DEF Verify, At, TypeOK
      <4>2. call'[t].at = "put"
        BY <4>1 DEF Waiting
      <4>3. QED
        BY <4>2 DEF Before
    <3>6. QED
      BY <1>7, <3>1, <3>2, <3>3, <3>4, <3>5
  <2>3. QED
    BY <1>6, <2>1, <2>2
<1>8. ASSUME call'[t].at \in After, call'[t].acct = NoAccount PROVE Agrees(t, c)'
  BY <1>8 DEF Agrees, Before, After
<1>9. CASE Register(t)
  <2>1. call[t] \in Waiting /\ accounts' = accounts
    BY <1>1, <1>9, CallFields DEF Register, At
  <2>2. PICK p \in {"poll", "teardown"} : call'[t] = [call[t] EXCEPT !.at = p]
    BY <1>9 DEF Register, Goes, TypeOK
  <2>3. call'[t].at = p /\ call'[t].acct = NoAccount
    BY <2>1, <2>2 DEF Waiting
  <2>4. CASE p = "poll"
    BY <1>6, <1>9, <2>1, <2>3, <2>4 DEF Register, At, Before
  <2>5. CASE p = "teardown"
    BY <1>8, <2>3, <2>5 DEF After
  <2>6. QED
    BY <2>4, <2>5
<1>10. CASE StepFails(t)
  <2>1. call[t] \in Waiting \cup Minted
    BY <1>1, <1>10, CallFields DEF StepFails
  <2>2. call'[t] = [call[t] EXCEPT !.at = "teardown", !.acct = NoAccount]
    BY <1>10 DEF StepFails, TypeOK
  <2>3. call'[t].at = "teardown" /\ call'[t].acct = NoAccount
    BY <2>1, <2>2 DEF Waiting, Minted
  <2>4. QED
    BY <1>8, <2>3 DEF After
<1>11. CASE MarkMinted(t) \/ Teardown(t)
  <2>1. call[t].at \in After /\ accounts' = accounts /\ call[t] \in Minted \cup Leaving
    BY <1>1, <1>11, CallFields DEF MarkMinted, Teardown, At, After
  <2>2. \E p \in After : call'[t] = [call[t] EXCEPT !.at = p]
    BY <1>11 DEF MarkMinted, Teardown, Goes, TypeOK, After
  <2>3. call'[t].at \in After /\ call'[t].acct = call[t].acct
    BY <2>1, <2>2 DEF Minted, Leaving
  <2>4. QED
    BY <1>1, <1>2, <2>1, <2>3 DEF Agrees, Before, After
<1>12. CASE TeardownFails(t) \/ Return(t)
  BY <1>12 DEF TeardownFails, Return, Answer, Ends, TypeOK, Busy
<1>13. QED
  BY <1>3, <1>4, <1>5, <1>7, <1>9, <1>10, <1>11, <1>12 DEF Serve


\* A task's step keeps a caller in step unless two of its calls came apart.
LEMMA ServeInStep ==
  ASSUME TypeOK, NEW t \in Task, Serve(t), NEW c \in Caller, InStep(c), c \notin apart'
  PROVE  InStep(c)'
<1>1. OneAtATime(c)'
  BY CallerKept DEF InStep, OneAtATime
<1>2. accounts[c] # NoAccount => accounts'[c] = accounts[c]
  BY NextKeepsAccounts DEF Next, vars, signupVars
<1>3. ASSUME NEW u \in Task, u # t PROVE Agrees(u, c)'
  <2>1. call'[u] = call[u] /\ Busy(t)
    BY <1>3, Moves
  <2>2. CASE Put(t) /\ call[t].caller = c
    BY <1>3, <2>1, <2>2 DEF InStep, OneAtATime, Agrees, Busy
  <2>3. CASE ~(Put(t) /\ call[t].caller = c)
    <3>1. accounts'[c] = accounts[c]
      BY <2>3 DEF Serve, Get, GetFails, Gate, ProvisionMailbox, ProvisionFails, Register, Poll,
         Verify, Put, MarkMinted, StepFails, Teardown, TeardownFails, Return, TypeOK
    <3>2. QED
      BY <2>1, <3>1 DEF InStep, Agrees, Busy
  <2>4. QED
    BY <2>2, <2>3
<1>4. Agrees(t, c)'
  BY ServeAgrees
<1>5. Retrievable(c)'
  <2>1. ASSUME NEW x \in answers, x.caller = c PROVE accounts'[c] = x.acct
    <3>1. accounts[c] = x.acct /\ x.acct \in Addr
      BY <2>1 DEF InStep, Retrievable, TypeOK
    <3>2. QED
      BY <1>2, <3>1, SignupAssumption
  <2>2. ASSUME NEW x \in answers' \ answers, x.caller = c PROVE accounts'[c] = x.acct
    <3>1. Busy(t) /\ Agrees(t, c)
      BY Moves DEF InStep
    <3>2. CASE Get(t)
      BY <2>2, <3>2 DEF Get, Answer
    <3>3. CASE TeardownFails(t) \/ Return(t)
      <4>1. accounts' = accounts /\ call[t].at \in After
        BY <3>3 DEF TeardownFails, Return, At, After
      <4>2. x.acct = call[t].acct /\ call[t].caller = c /\ call[t].acct # NoAccount
        BY <2>2, <3>3 DEF TeardownFails, Return, Answer
      <4>3. QED
        BY <3>1, <4>1, <4>2 DEF Agrees
    <3>4. QED
      BY <2>2, <3>2, <3>3 DEF Serve, GetFails, Gate, ProvisionMailbox, ProvisionFails, Register,
         Poll, Verify, Put, MarkMinted, StepFails, Teardown
  <2>3. QED
    BY <2>1, <2>2 DEF Retrievable
<1>6. QED
  BY <1>1, <1>3, <1>4, <1>5 DEF InStep

\* Every step keeps every caller in step that is not recorded as apart.
LEMMA NextInStep == TypeOK /\ AllInStep /\ [Next]_vars => AllInStep'
<1> SUFFICES ASSUME TypeOK, AllInStep, [Next]_vars, NEW c \in Caller, c \notin apart'
             PROVE  InStep(c)'
  BY DEF AllInStep
<1>0. InStep(c)
  BY DEF AllInStep, Next, Serve, Get, GetFails, Gate, ProvisionMailbox, ProvisionFails, Register,
         Poll, Verify, Put, MarkMinted, StepFails, Teardown, TeardownFails, Return, Arrive, IPCools,
         Mail, Crash, signupVars, vars
<1>1. ASSUME NEW t \in Task, Serve(t) PROVE InStep(c)'
  BY <1>0, <1>1, ServeInStep
<1>2. ASSUME NEW t \in Task, NEW d \in Caller, NEW i \in IP, Arrive(t, d, i) PROVE InStep(c)'
  <2>1. /\ ~Busy(t) /\ \A u \in Task : u # t => call'[u] = call[u]
        /\ call'[t].caller = d /\ call'[t].at = "get"
        /\ UNCHANGED <<accounts, answers>>
    BY <1>2 DEF Arrive, TypeOK
  <2>2. c = d => \A u \in Task : ~(Busy(u) /\ call[u].caller = c)
    BY <1>2 DEF Arrive
  <2>3. OneAtATime(c)'
    BY <1>0, <2>1, <2>2 DEF InStep, OneAtATime, Busy
  <2>4. \A u \in Task : Agrees(u, c)'
    BY <1>0, <2>1 DEF InStep, Agrees, Busy, Before, After
  <2>5. Retrievable(c)'
    BY <1>0, <2>1 DEF InStep, Retrievable
  <2>6. QED
    BY <2>3, <2>4, <2>5 DEF InStep
<1>3. CASE UNCHANGED <<call, accounts, answers>>
  BY <1>0, <1>3 DEF InStep, OneAtATime, Retrievable, Agrees, Busy
<1>4. CASE Crash
  <2>1. \A u \in Task : ~Busy(u)'
    BY <1>4 DEF Crash, Busy
  <2>2. UNCHANGED <<accounts, answers>>
    BY <1>4 DEF Crash
  <2>3. QED
    BY <1>0, <2>1, <2>2 DEF InStep, OneAtATime, Retrievable, Agrees
<1>5. QED
  BY <1>1, <1>2, <1>3, <1>4 DEF Next, IPCools, Mail, signupVars, vars

\* "so the key is retrievable" (broker.go:15-16): what was answered is in the ledger,
\* for a caller whose signups come one at a time.
THEOREM AnswersAreRetrievable == Spec => []AnswersRetrievable
<1>1. Init => TypeOK /\ AllInStep
  BY InitTyped DEF Init, AllInStep, InStep, OneAtATime, Retrievable, Agrees, Busy
<1>2. TypeOK /\ AllInStep /\ [Next]_vars => (TypeOK /\ AllInStep)'
  BY NextTyped, NextInStep
<1>3. TypeOK /\ AllInStep => AnswersRetrievable
  BY DEF AllInStep, InStep, Retrievable, AnswersRetrievable, TypeOK
<1>4. QED
  BY <1>1, <1>2, <1>3, PTL DEF Spec

-----------------------------------------------------------------------------
\* The account that a signup minted is that of its own mail address.
Named(t) == Busy(t) /\ call[t].acct # NoAccount => call[t].acct = call[t].addr

\* Caller c was answered a, keeps it in the ledger, or is signing up with it.
Owns(c, a) ==
  \/ [caller |-> c, acct |-> a] \in answers
  \/ accounts[c] = a
  \/ \E t \in Task : Busy(t) /\ call[t].caller = c /\ call[t].addr = a

OneOwner ==
  /\ \A t \in Task : Named(t)
  /\ \A c \in Caller, a \in Addr : Owns(c, a) => a \in given
  /\ \A c, d \in Caller, a \in Addr : Owns(c, a) /\ Owns(d, a) => c = d

\* A task's step keeps each minted account that of the call's own address.
LEMMA ServeNamed ==
  ASSUME TypeOK, NEW t \in Task, Serve(t), NEW u \in Task, Named(u)
  PROVE  Named(u)'
<1>1. CASE u # t
  BY <1>1, Moves DEF Named, Busy
<1>2. CASE u = t
  <2> SUFFICES ASSUME Busy(t)' PROVE Named(t)'
    BY <1>2 DEF Named
  <2>0. Busy(t) /\ call[t] \in Call /\ Named(t)
    BY <1>2, Moves, CallFields
  <2>1. ASSUME NEW p, call'[t] = [call[t] EXCEPT !.at = p] PROVE Named(t)'
    BY <2>0, <2>1 DEF Named, Call, Asking, Waiting, Minted, Leaving
  <2>2. CASE Gate(t)
    <3>1. PICK a \in Fresh : call'[t] = [call[t] EXCEPT !.at = "provision", !.addr = a]
      BY <2>2, Moves DEF Gate, Ends, TypeOK, Busy
    <3>2. call[t] \in Asking
      BY <2>0, <2>2, CallFields DEF Gate, At
    <3>3. call'[t].acct = NoAccount
      BY <3>1, <3>2 DEF Asking
    <3>4. QED
      BY <3>3 DEF Named
  <2>3. CASE Verify(t)
    <3>1. call[t] \in Waiting /\ call'[t] = [call[t] EXCEPT !.at = "put", !.acct = call[t].addr]
      BY <2>0, <2>3, CallFields DEF Verify, At, TypeOK
    <3>2. call'[t].acct = call'[t].addr
      BY <3>1 DEF Waiting
    <3>3. QED
      BY <3>2 DEF Named
  <2>4. CASE StepFails(t)
    <3>1. call[t] \in Waiting \cup Minted
      BY <2>0, <2>4, CallFields DEF StepFails
    <3>2. call'[t] = [call[t] EXCEPT !.at = "teardown", !.acct = NoAccount]
      BY <2>4 DEF StepFails, TypeOK
    <3>3. call'[t].acct = NoAccount
      BY <3>1, <3>2 DEF Waiting, Minted
    <3>4. QED
      BY <3>3 DEF Named
  <2>5. CASE Poll(t) \/ Register(t)
    <3>1. call' = call \/ \E p \in {"verify", "poll", "teardown"} : call'[t] = [call[t] EXCEPT !.at = p]
      BY <2>5 DEF Poll, Register, Goes, TypeOK
    <3>2. QED
      BY <2>0, <2>1, <3>1 DEF Named, Busy
  <2>6. CASE ~(Gate(t) \/ Verify(t) \/ StepFails(t) \/ Poll(t) \/ Register(t))
    <3>1. \/ call'[t] = [call[t] EXCEPT !.at = "gate"]
          \/ call'[t] = [call[t] EXCEPT !.at = "register"]
          \/ call'[t] = [call[t] EXCEPT !.at = "mark"]
          \/ call'[t] = [call[t] EXCEPT !.at = "teardown"]
          \/ call'[t] = [call[t] EXCEPT !.at = "closing"]
      BY <2>6, Moves DEF Busy
    <3>2. QED
      BY <2>1, <3>1
  <2>7. QED
    BY <2>2, <2>3, <2>4, <2>5, <2>6
<1>3. QED
  BY <1>1, <1>2

\* A signup keeps its mail address once it has one, and gets it from what was never drawn.
LEMMA AddrKept ==
  ASSUME TypeOK, NEW t \in Task, Serve(t), NEW u \in Task, Busy(u)',
         call'[u].addr # call[u].addr
  PROVE  u = t /\ call'[u].addr \in Fresh /\ given' = given \cup {call'[u].addr}
<1>1. u = t
  BY Moves
<1>2. Busy(t) /\ call[t] \in Call
  BY Moves, CallFields
<1>3. ASSUME NEW p, NEW x, \/ call'[t] = [call[t] EXCEPT !.at = p]
                           \/ call'[t] = [call[t] EXCEPT !.at = p, !.acct = x]
      PROVE FALSE
  BY <1>1, <1>2, <1>3 DEF Call, Asking, Waiting, Minted, Leaving
<1>4. CASE Gate(t)
  <2>1. PICK a \in Fresh : /\ given' = given \cup {a}
                           /\ call'[t] = [call[t] EXCEPT !.at = "provision", !.addr = a]
    BY <1>1, <1>4 DEF Gate, Ends, TypeOK, Busy
  <2>2. call[t] \in Asking
    BY <1>2, <1>4, CallFields DEF Gate, At
  <2>3. call'[t].addr = a
    BY <2>1, <2>2 DEF Asking
  <2>4. QED
    BY <1>1, <2>1, <2>3
<1>5. CASE Poll(t) \/ Register(t)
  <2>1. call' = call \/ \E p \in {"verify", "poll", "teardown"} : call'[t] = [call[t] EXCEPT !.at = p]
    BY <1>5 DEF Poll, Register, Goes, TypeOK
  <2>2. QED
    BY <1>3, <2>1
<1>6. CASE ~(Gate(t) \/ Poll(t) \/ Register(t))
  <2>1. \/ call'[t] = [call[t] EXCEPT !.at = "gate"]
        \/ call'[t] = [call[t] EXCEPT !.at = "register"]
        \/ call'[t] = [call[t] EXCEPT !.at = "put", !.acct = call[t].addr]
        \/ call'[t] = [call[t] EXCEPT !.at = "mark"]
        \/ call'[t] = [call[t] EXCEPT !.at = "teardown"]
        \/ call'[t] = [call[t] EXCEPT !.at = "teardown", !.acct = NoAccount]
        \/ call'[t] = [call[t] EXCEPT !.at = "closing"]
    BY <1>1, <1>6, Moves DEF Busy
  <2>2. QED
    BY <1>3, <2>1
<1>7. QED
  BY <1>4, <1>5, <1>6

\* A step makes nobody own an account, but the signup that draws a new address.
LEMMA ServeOwns ==
  ASSUME TypeOK, OneOwner, NEW t \in Task, Serve(t),
         NEW c \in Caller, NEW a \in Addr, Owns(c, a)'
  PROVE  \/ Owns(c, a)
         \/ a \in Fresh /\ given' = given \cup {a} /\ c = call[t].caller
<1>0. Busy(t) /\ Named(t)
  BY Moves DEF OneOwner
<1>1. ASSUME NEW u \in Task, Busy(u)', call'[u].caller = c, call'[u].addr = a
      PROVE  \/ Owns(c, a)
             \/ a \in Fresh /\ given' = given \cup {a} /\ c = call[t].caller
  <2>1. Busy(u) /\ call[u].caller = c
    BY <1>1, CallerKept
  <2>2. CASE call'[u].addr = call[u].addr
    BY <1>1, <2>1, <2>2 DEF Owns
  <2>3. CASE call'[u].addr # call[u].addr
    BY <1>1, <2>1, <2>3, AddrKept
  <2>4. QED
    BY <2>2, <2>3
<1>2. CASE accounts'[c] = a
  <2>1. CASE Put(t) /\ call[t].caller = c /\ accounts[c] = NoAccount
    <3>1. call[t].acct = a /\ call[t].acct # NoAccount
      BY <1>2, <2>1, SignupAssumption DEF Put, TypeOK
    <3>2. call[t].addr = a
      BY <1>0, <3>1 DEF Named
    <3>3. QED
      BY <1>0, <2>1, <3>2 DEF Owns
  <2>2. CASE ~(Put(t) /\ call[t].caller = c /\ accounts[c] = NoAccount)
    <3>1. accounts'[c] = accounts[c]
      BY <2>2 DEF Serve, Get, GetFails, Gate, ProvisionMailbox, ProvisionFails, Register, Poll,
         Verify, Put, MarkMinted, StepFails, Teardown, TeardownFails, Return, TypeOK
    <3>2. QED
      BY <1>2, <3>1 DEF Owns
  <2>3. QED
    BY <2>1, <2>2
<1>3. CASE [caller |-> c, acct |-> a] \in answers' \ answers
  <2>1. CASE Get(t)
    BY <1>3, <2>1 DEF Get, Answer, Owns
  <2>2. CASE TeardownFails(t) \/ Return(t)
    <3>1. a = call[t].acct /\ call[t].caller = c /\ a # NoAccount
      BY <1>3, <2>2 DEF TeardownFails, Return, Answer
    <3>2. QED
      BY <1>0, <3>1 DEF Named, Owns
  <2>3. QED
    BY <1>3, <2>1, <2>2 DEF Serve, GetFails, Gate, ProvisionMailbox, ProvisionFails, Register,
       Poll, Verify, Put, MarkMinted, StepFails, Teardown
<1>4. QED
  BY <1>1, <1>2, <1>3 DEF Owns

\* Every step keeps each address with one owner.
LEMMA NextOwned == TypeOK /\ OneOwner /\ [Next]_vars => OneOwner'
<1> SUFFICES ASSUME TypeOK, OneOwner, [Next]_vars PROVE OneOwner'
  OBVIOUS
<1>1. ASSUME NEW t \in Task, Serve(t) PROVE OneOwner'
  <2>1. \A u \in Task : Named(u)'
    BY <1>1, ServeNamed DEF OneOwner
  <2>2. given \subseteq given'
    BY <1>1 DEF Serve, Get, GetFails, Gate, ProvisionMailbox, ProvisionFails, Register, Poll,
       Verify, Put, MarkMinted, StepFails, Teardown, TeardownFails, Return
  <2>3. \A c \in Caller, a \in Addr : Owns(c, a)' => a \in given'
    BY <1>1, <2>2, ServeOwns DEF OneOwner
  <2>4. \A c, d \in Caller, a \in Addr : Owns(c, a)' /\ Owns(d, a)' => c = d
    BY <1>1, ServeOwns DEF OneOwner, Fresh
  <2>5. QED
    BY <2>1, <2>3, <2>4 DEF OneOwner
<1>2. ASSUME /\ given' = given /\ UNCHANGED <<accounts, answers>>
             /\ \A u \in Task : Busy(u)' => call'[u] = call[u] \/ call'[u].addr = NoAccount
             /\ \A u \in Task : Named(u)'
      PROVE  OneOwner'
  <2>1. ASSUME NEW c \in Caller, NEW a \in Addr, Owns(c, a)' PROVE Owns(c, a)
    BY <1>2, <2>1, SignupAssumption DEF Owns, Busy
  <2>2. QED
    BY <1>2, <2>1 DEF OneOwner
<1>3. ASSUME NEW t \in Task, NEW c \in Caller, NEW i \in IP, Arrive(t, c, i) PROVE OneOwner'
  <2>1. /\ \A u \in Task : u # t => call'[u] = call[u]
        /\ call'[t].addr = NoAccount /\ call'[t].acct = NoAccount
    BY <1>3 DEF Arrive, TypeOK
  <2>2. \A u \in Task : Named(u)'
    BY <2>1 DEF OneOwner, Named, Busy
  <2>3. QED
    BY <1>2, <1>3, <2>1, <2>2 DEF Arrive
<1>4. CASE UNCHANGED <<call, accounts, answers, given>>
  BY <1>2, <1>4 DEF OneOwner, Named, Busy
<1>5. CASE Crash
  <2>1. \A u \in Task : ~Busy(u)'
    BY <1>5 DEF Crash, Busy
  <2>2. QED
    BY <1>2, <1>5, <2>1 DEF Crash, Named
<1>6. QED
  BY <1>1, <1>3, <1>4, <1>5 DEF Next, IPCools, Mail, signupVars, vars

\* No two callers ever hold the same account, whatever the provider does with a
\* repeated registration (broker.go:217).
THEOREM AccountsAreTheirOwn == Spec => []AccountsAreOwn
<1>1. Init => TypeOK /\ OneOwner
  BY InitTyped, SignupAssumption DEF Init, OneOwner, Named, Owns, Busy
<1>2. TypeOK /\ OneOwner /\ [Next]_vars => (TypeOK /\ OneOwner)'
  BY NextTyped, NextOwned
<1>3. TypeOK /\ OneOwner => AccountsAreOwn
  <2> SUFFICES ASSUME TypeOK, OneOwner,
                      NEW x \in answers \cup {z \in [caller : Caller, acct : Addr] :
                                              accounts[z.caller] = z.acct},
                      NEW y \in answers \cup {z \in [caller : Caller, acct : Addr] :
                                              accounts[z.caller] = z.acct},
                      x.acct = y.acct
               PROVE  x.caller = y.caller
    BY DEF AccountsAreOwn
  <2>1. ASSUME NEW z \in answers \cup {w \in [caller : Caller, acct : Addr] :
                                       accounts[w.caller] = w.acct}
        PROVE  z.caller \in Caller /\ z.acct \in Addr /\ Owns(z.caller, z.acct)
    BY <2>1 DEF TypeOK, Owns
  <2>2. QED
    BY <2>1 DEF OneOwner
<1>4. QED
  BY <1>1, <1>2, <1>3, PTL DEF Spec

-----------------------------------------------------------------------------
\* Past the gate, and not yet counted.
Minting(t, i) ==
  /\ Busy(t) /\ call[t].ip = i
  /\ call[t].at \in {"provision", "register", "poll", "verify", "put", "mark"}

\* Who minted from address i, or is past the gate.
Minters(i) == ipSeen[i] \cup {call[t].caller : t \in {u \in Task : Minting(u, i)}}
Counted(i) == IsFiniteSet(Minters(i)) /\ Cardinality(Minters(i)) < MaxPerIP + Cardinality(Task)

\* As many callers as tasks at most are past the gate.
LEMMA FewAtOnce ==
  ASSUME NEW f, NEW S \in SUBSET Task
  PROVE  /\ IsFiniteSet({f[t] : t \in S})
         /\ Cardinality({f[t] : t \in S}) <= Cardinality(Task)
<1> DEFINE g == [t \in S |-> f[t]]
<1>1. IsFiniteSet(S) /\ Cardinality(S) <= Cardinality(Task) /\ Cardinality(Task) \in Nat
      /\ Cardinality(S) \in Nat
  BY SignupAssumption, FS_Subset, FS_CardinalityType
<1>2. g \in Surjection(S, {f[t] : t \in S})
  BY DEF Surjection
<1>3. IsFiniteSet({f[t] : t \in S}) /\ Cardinality({f[t] : t \in S}) <= Cardinality(S)
  BY <1>1, <1>2, FS_Surjection
<1>4. Cardinality({f[t] : t \in S}) \in Nat
  BY <1>3, FS_CardinalityType
<1>5. QED
  BY <1>1, <1>3, <1>4

\* An address whose minters become fewer stays within the count.
LEMMA FewerCounted ==
  ASSUME NEW i \in IP, Counted(i), Minters(i)' \subseteq Minters(i)
  PROVE  Counted(i)'
<1>1. /\ IsFiniteSet(Minters(i)')
      /\ Cardinality(Minters(i)') <= Cardinality(Minters(i))
  BY FS_Subset DEF Counted
<1>2. /\ Cardinality(Minters(i)') \in Nat /\ Cardinality(Minters(i)) \in Nat
      /\ Cardinality(Task) \in Nat
  BY <1>1, SignupAssumption, FS_CardinalityType DEF Counted
<1>3. QED
  BY <1>1, <1>2, SignupAssumption DEF Counted

\* What passes the gate makes the minters at most the cap, less one, and the tasks.
LEMMA GateCounted ==
  ASSUME TypeOK, NEW t \in Task, Gate(t), NEW i \in IP, Counted(i), MaxPerIP > 0,
         Busy(t)', call[t].ip = i, call[t].caller \notin ipSeen[i]
  PROVE  Counted(i)'
<1> DEFINE S == {u \in Task : Minting(u, i)'}
           f == [u \in Task |-> call'[u].caller]
           C == {f[u] : u \in S}
<1>1. ipSeen' = ipSeen /\ MayMint(call[t].caller, i)
  BY DEF Gate, Ends, TypeOK, Busy
<1>2. Minters(i)' = ipSeen[i] \cup C
  BY <1>1 DEF Minters
<1>3. IsFiniteSet(C) /\ Cardinality(C) <= Cardinality(Task)
  BY FewAtOnce
<1>4. IsFiniteSet(ipSeen[i]) /\ Cardinality(ipSeen[i]) < MaxPerIP
  BY <1>1, FS_Subset DEF MayMint, Counted, Minters
<1> HIDE DEF C
<1>5. /\ IsFiniteSet(ipSeen[i] \cup C)
      /\ Cardinality(ipSeen[i] \cup C)
         = Cardinality(ipSeen[i]) + Cardinality(C) - Cardinality(ipSeen[i] \cap C)
  BY <1>3, <1>4, FS_Union
<1>6. IsFiniteSet(ipSeen[i] \cap C)
  BY <1>3, FS_Intersection
<1>7. /\ Cardinality(C) \in Nat /\ Cardinality(Task) \in Nat
      /\ Cardinality(ipSeen[i]) \in Nat /\ Cardinality(ipSeen[i] \cap C) \in Nat
  BY <1>3, <1>4, <1>6, SignupAssumption, FS_CardinalityType
<1>8. Cardinality(ipSeen[i] \cup C) < MaxPerIP + Cardinality(Task)
  BY <1>3, <1>4, <1>5, <1>7, SignupAssumption
<1>9. QED
  BY <1>2, <1>5, <1>8 DEF Counted

\* Whoever is past the gate after a step was so before, but the one that passes it.
LEMMA ServeMinting ==
  ASSUME TypeOK, NEW t \in Task, Serve(t), ~Gate(t), NEW u \in Task, NEW i \in IP, Minting(u, i)'
  PROVE  Minting(u, i)
<1>0. Busy(u) /\ call[u].ip = i
  BY CallerKept DEF Minting
<1>1. CASE u # t
  BY <1>1, Moves DEF Minting, Busy
<1>2. CASE u = t
  <2>1. call[t] \in Call
    BY Moves, CallFields
  <2>2. CASE Get(t) \/ GetFails(t) \/ Teardown(t) \/ TeardownFails(t) \/ Return(t)
    <3>1. call'[t] # Idle
      BY <1>2 DEF Minting, Busy
    <3>2. \E p \in {"gate", "closing"} : call'[t] = [call[t] EXCEPT !.at = p]
      BY <2>2, <3>1 DEF Get, GetFails, Teardown, TeardownFails, Return, Answer, Goes, Ends, TypeOK
    <3>3. call'[t].at \in {"gate", "closing"}
      BY <2>1, <3>2 DEF Call, Asking, Waiting, Minted, Leaving
    <3>4. QED
      BY <1>2, <3>3 DEF Minting
  <2>3. CASE ~(Get(t) \/ GetFails(t) \/ Teardown(t) \/ TeardownFails(t) \/ Return(t))
    BY <1>0, <1>2, <2>3 DEF Serve, ProvisionMailbox, ProvisionFails, Register, Poll, Verify, Put,
       MarkMinted, StepFails, At, Minting
  <2>4. QED
    BY <2>2, <2>3
<1>3. QED
  BY <1>1, <1>2

\* A task's step keeps each address within the count.
LEMMA ServeCounted ==
  ASSUME TypeOK, NEW t \in Task, Serve(t), NEW i \in IP, Counted(i), MaxPerIP > 0
  PROVE  Counted(i)'
<1>0. Busy(t)
  BY Moves
<1>1. CASE Gate(t)
  <2>1. \A u \in Task : u # t => call'[u] = call[u]
    BY Moves
  <2>2. ipSeen' = ipSeen
    BY <1>1 DEF Gate
  <2>3. CASE Busy(t)' /\ call[t].ip = i /\ call[t].caller \notin ipSeen[i]
    BY <1>1, <2>3, GateCounted
  <2>4. CASE ~(Busy(t)' /\ call[t].ip = i /\ call[t].caller \notin ipSeen[i])
    <3>1. ASSUME NEW u \in Task, Minting(u, i)' PROVE call'[u].caller \in Minters(i)
      <4>1. CASE u # t
        <5>1. Minting(u, i) /\ call'[u] = call[u]
          BY <2>1, <3>1, <4>1 DEF Minting, Busy
        <5>2. QED
          BY <5>1 DEF Minters
      <4>2. CASE u = t
        BY <2>4, <3>1, <4>2, CallerKept DEF Minters, Minting
      <4>3. QED
        BY <4>1, <4>2
    <3>2. Minters(i)' \subseteq Minters(i)
      BY <2>2, <3>1 DEF Minters
    <3>3. QED
      BY <3>2, FewerCounted
  <2>5. QED
    BY <2>3, <2>4
<1>2. CASE ~Gate(t)
  <2>1. ASSUME NEW u \in Task, Minting(u, i)' PROVE call'[u].caller \in Minters(i)
    BY <1>2, <2>1, ServeMinting, CallerKept DEF Minters, Minting
  <2>2. ipSeen'[i] \subseteq Minters(i)
    <3>1. CASE MarkMinted(t)
      BY <1>0, <3>1 DEF MarkMinted, At, Minters, Minting, TypeOK
    <3>2. CASE ~MarkMinted(t)
      <4>1. ipSeen' = ipSeen
        BY <3>2 DEF Serve, Get, GetFails, Gate, ProvisionMailbox, ProvisionFails, Register, Poll,
           Verify, Put, StepFails, Teardown, TeardownFails, Return
      <4>2. QED
        BY <4>1 DEF Minters
    <3>3. QED
      BY <3>1, <3>2
  <2>3. Minters(i)' \subseteq Minters(i)
    BY <2>1, <2>2 DEF Minters
  <2>4. QED
    BY <2>3, FewerCounted
<1>3. QED
  BY <1>1, <1>2


Capped == MaxPerIP > 0 => \A i \in IP : Counted(i)

\* The cap holds at the start.
LEMMA InitCapped == Init => Capped
<1> SUFFICES ASSUME Init, MaxPerIP > 0, NEW i \in IP PROVE Counted(i)
  BY DEF Capped
<1>1. Minters(i) = {}
  BY DEF Init, Minters, Minting, Busy
<1>2. Cardinality(Task) \in Nat
  BY SignupAssumption, FS_CardinalityType
<1>3. QED
  BY <1>1, <1>2, FS_EmptySet, SignupAssumption DEF Counted

\* Every step keeps the cap.
LEMMA NextCapped == TypeOK /\ Capped /\ [Next]_vars => Capped'
<1> SUFFICES ASSUME TypeOK, Capped, [Next]_vars, MaxPerIP > 0, NEW i \in IP PROVE Counted(i)'
  BY DEF Capped
<1>0. Counted(i)
  BY DEF Capped
<1>1. ASSUME NEW t \in Task, Serve(t) PROVE Counted(i)'
  BY <1>0, <1>1, ServeCounted
<1>2. ASSUME NEW t \in Task, NEW c \in Caller, NEW j \in IP, Arrive(t, c, j) PROVE Counted(i)'
  <2>1. /\ \A u \in Task : u # t => call'[u] = call[u]
        /\ call'[t].at = "get" /\ ipSeen' = ipSeen
    BY <1>2 DEF Arrive, TypeOK
  <2>2. Minters(i)' \subseteq Minters(i)
    BY <2>1 DEF Minters, Minting, Busy
  <2>3. QED
    BY <1>0, <2>2, FewerCounted
<1>3. CASE UNCHANGED <<call, ipSeen>>
  BY <1>0, <1>3 DEF Counted, Minters, Minting, Busy
<1>4. CASE Crash
  <2>1. Minters(i)' = {}
    BY <1>4 DEF Crash, Minters, Minting, Busy
  <2>2. QED
    BY <1>0, <2>1, FewerCounted
<1>5. QED
  BY <1>1, <1>2, <1>3, <1>4 DEF Next, IPCools, Mail, signupVars, vars

\* The gate reads the count before the mint and writes it after (broker.go:194-199), so the
\* cap is exceeded, but never by as much as the number of goroutines.
THEOREM CapIsNearlyKept == Spec => []CapOvershoot
<1>1. Init => TypeOK /\ Capped
  BY InitTyped, InitCapped
<1>2. TypeOK /\ Capped /\ [Next]_vars => (TypeOK /\ Capped)'
  BY NextTyped, NextCapped
<1>3. TypeOK /\ Capped => CapOvershoot
  <2> SUFFICES ASSUME Capped, MaxPerIP > 0, NEW i \in IP
               PROVE  Cardinality(ipSeen[i]) < MaxPerIP + Cardinality(Task)
    BY DEF CapOvershoot
  <2>1. IsFiniteSet(Minters(i)) /\ Cardinality(Minters(i)) < MaxPerIP + Cardinality(Task)
    BY DEF Capped, Counted
  <2>2. IsFiniteSet(ipSeen[i]) /\ Cardinality(ipSeen[i]) <= Cardinality(Minters(i))
    BY <2>1, FS_Subset DEF Minters
  <2>3. /\ Cardinality(ipSeen[i]) \in Nat /\ Cardinality(Minters(i)) \in Nat
        /\ Cardinality(Task) \in Nat
    BY <2>1, <2>2, SignupAssumption, FS_CardinalityType
  <2>4. QED
    BY <2>1, <2>2, <2>3, SignupAssumption
<1>4. QED
  BY <1>1, <1>2, <1>3, PTL DEF Spec
=============================================================================
