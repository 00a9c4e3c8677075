------------------------------- MODULE Signup -------------------------------
(***************************************************************************)
(* Broker.Signup of internal/otpsignup: look the caller up, pass the       *)
(* per-address gate, open a mailbox, register at the provider, wait for    *)
(* the code it mails, trade the code for a key, store the account, count   *)
(* the mint, close the mailbox. Every request is a goroutine; what the     *)
(* gate reads is written after the mint. An account is known by its mail   *)
(* address; its key is the provider's and never shown to anyone else.      *)
(***************************************************************************)
EXTENDS OtpMail, FiniteSets

CONSTANTS
  Task,         \* goroutines serving signups
  Caller, IP,   \* who signs up, and from which network address
  MaxPerIP,     \* MaxIdentitiesPerIP; 0 is no limit
  Cooldown,     \* whether there is a MintCooldown
  NoAccount,
  MaxMishaps    \* bound: lost answers, store errors and crashes

ASSUME SignupAssumption ==
  /\ MaxPerIP \in Nat /\ Cooldown \in BOOLEAN /\ MaxMishaps \in Nat
  /\ NoAccount \notin Addr
  /\ IsFiniteSet(Task) /\ Task # {}

VARIABLES
  accounts,     \* the ledger: accounts[c] is the account of caller c
  ipSeen,       \* ipSeen[i]: callers that minted from i since the broker started
  ipHot,        \* ipLast: addresses that minted less than the cooldown ago
  call,         \* call[t]: the signup that task t serves
  \* History, read by no guard of the code:
  given,        \* mail addresses that have been drawn
  answers,      \* accounts that have been returned, and to whom
  apart,        \* callers that signed up twice at once, or could not be looked up
  leaked,       \* addresses whose Provision answer or Teardown request was lost
  mishaps

signupVars == <<accounts, ipSeen, ipHot, call, given, answers, apart, leaked, mishaps>>
vars == <<mailVars, signupVars>>

Idle == [at |-> "idle"]
Busy(t) == call[t] # Idle
At(t, p) == Busy(t) /\ call[t].at = p
Goes(t, p) == call' = [call EXCEPT ![t].at = p]
Ends(t) == call' = [call EXCEPT ![t] = Idle]

Init ==
  /\ MailInit
  /\ accounts = [c \in Caller |-> NoAccount]
  /\ ipSeen = [i \in IP |-> {}] /\ ipHot = {}
  /\ call = [t \in Task |-> Idle]
  /\ given = {} /\ answers = {} /\ apart = {} /\ leaked = {} /\ mishaps = 0

Mishap == mishaps < MaxMishaps /\ mishaps' = mishaps + 1

Arrive(t, c, i) ==
  /\ ~Busy(t)
  /\ call' = [call EXCEPT ![t] = [at |-> "get", caller |-> c, ip |-> i,
                                  addr |-> NoAccount, acct |-> NoAccount]]
  /\ apart' = IF \E u \in Task : Busy(u) /\ call[u].caller = c THEN apart \cup {c} ELSE apart
  /\ UNCHANGED <<mailVars, accounts, ipSeen, ipHot, given, answers, leaked, mishaps>>

\* Signup returns: what it returns is answered after the deferred teardown.
Answer(t, acct) ==
  /\ answers' = IF acct = NoAccount THEN answers
                ELSE answers \cup {[caller |-> call[t].caller, acct |-> acct]}
  /\ Ends(t)

Get(t) ==
  /\ At(t, "get")
  /\ LET a == accounts[call[t].caller] IN
     IF a = NoAccount THEN Goes(t, "gate") /\ UNCHANGED answers ELSE Answer(t, a)
  /\ UNCHANGED <<mailVars, accounts, ipSeen, ipHot, given, apart, leaked, mishaps>>

\* A row that cannot be read or decrypted counts as no row.
GetFails(t) ==
  /\ At(t, "get")
  /\ Mishap
  /\ Goes(t, "gate")
  /\ apart' = apart \cup {call[t].caller}
  /\ UNCHANGED <<mailVars, accounts, ipSeen, ipHot, given, answers, leaked>>

\* Mutant: any address that has no mailbox at the moment.
FreshReused == Addr \ (active \cup closing)

\* The address of a new mailbox: ten random letters, never the same twice. (Addr bounds
\* an instance: when all have been drawn, it mints no more.)
Fresh == Addr \ given

\* Mutant: the cap is off by one.
MayMintOneMore(c, i) ==
  /\ ~(Cooldown /\ i \in ipHot)
  /\ MaxPerIP > 0 => c \in ipSeen[i] \/ Cardinality(ipSeen[i]) <= MaxPerIP

\* gate.
MayMint(c, i) ==
  /\ ~(Cooldown /\ i \in ipHot)
  /\ MaxPerIP > 0 => c \in ipSeen[i] \/ Cardinality(ipSeen[i]) < MaxPerIP

Gate(t) ==
  /\ At(t, "gate")
  /\ IF MayMint(call[t].caller, call[t].ip) /\ Fresh # {}
     THEN \E a \in Fresh :
            /\ given' = given \cup {a}
            /\ call' = [call EXCEPT ![t].at = "provision", ![t].addr = a]
     ELSE Ends(t) /\ UNCHANGED given
  /\ UNCHANGED <<mailVars, accounts, ipSeen, ipHot, answers, apart, leaked, mishaps>>

ProvisionMailbox(t) ==
  /\ At(t, "provision")
  /\ Provision(call[t].addr)
  /\ Goes(t, "register")
  /\ UNCHANGED <<accounts, ipSeen, ipHot, given, answers, apart, leaked, mishaps>>

\* The request fails, or its answer is lost: nothing has been deferred yet.
ProvisionFails(t) ==
  /\ At(t, "provision")
  /\ Mishap
  /\ \/ UNCHANGED <<mailVars, leaked>>
     \/ Provision(call[t].addr) /\ leaked' = leaked \cup {call[t].addr}
  /\ Ends(t)
  /\ UNCHANGED <<accounts, ipSeen, ipHot, given, answers, apart>>

\* The provider mails a code for the registration; its answer may be lost.
Register(t) ==
  /\ At(t, "register")
  /\ Sent(call[t].addr)
  /\ UNCHANGED <<active, letters, closing, late>>
  /\ Goes(t, "poll") \/ Goes(t, "teardown")
  /\ UNCHANGED <<accounts, ipSeen, ipHot, given, answers, apart, leaked, mishaps>>

\* pollOTP gets the code; the answer that carries it may be lost, and the code with it.
Poll(t) ==
  /\ At(t, "poll")
  /\ HasCode(call[t].addr) /\ TakeCode(call[t].addr)
  /\ \/ Goes(t, "verify") /\ UNCHANGED mishaps
     \/ Mishap /\ UNCHANGED call
  /\ UNCHANGED <<accounts, ipSeen, ipHot, given, answers, apart, leaked>>

\* The provider trades the code for the key of the account registered for addr.
Verify(t) ==
  /\ At(t, "verify")
  /\ call' = [call EXCEPT ![t].at = "put", ![t].acct = call[t].addr]
  /\ UNCHANGED <<mailVars, accounts, ipSeen, ipHot, given, answers, apart, leaked, mishaps>>

\* Mutant: the loser of a race overwrites the winner's account.
PutOver(t) ==
  /\ At(t, "put")
  /\ accounts' = [accounts EXCEPT ![call[t].caller] = call[t].acct]
  /\ Goes(t, "mark")
  /\ UNCHANGED <<mailVars, ipSeen, ipHot, given, answers, apart, leaked, mishaps>>

\* Mutant: nothing is stored.
PutNothing(t) ==
  /\ At(t, "put")
  /\ Goes(t, "mark")
  /\ UNCHANGED <<mailVars, accounts, ipSeen, ipHot, given, answers, apart, leaked, mishaps>>

\* store.put: INSERT OR IGNORE, and no look at what was ignored.
Put(t) ==
  /\ At(t, "put")
  /\ accounts' = IF accounts[call[t].caller] = NoAccount
                 THEN [accounts EXCEPT ![call[t].caller] = call[t].acct] ELSE accounts
  /\ Goes(t, "mark")
  /\ UNCHANGED <<mailVars, ipSeen, ipHot, given, answers, apart, leaked, mishaps>>

MarkMinted(t) ==
  /\ At(t, "mark")
  /\ ipSeen' = [ipSeen EXCEPT ![call[t].ip] = @ \cup {call[t].caller}]
  /\ ipHot' = ipHot \cup {call[t].ip}
  /\ Goes(t, "teardown")
  /\ UNCHANGED <<mailVars, accounts, given, answers, apart, leaked, mishaps>>

\* The provider refuses the address or the code, the wait times out, the ledger cannot be written, or
\* the caller hangs up: no account is returned.
StepFails(t) ==
  /\ Busy(t) /\ call[t].at \in {"register", "poll", "verify", "put"}
  /\ call' = [call EXCEPT ![t].at = "teardown", ![t].acct = NoAccount]
  /\ UNCHANGED <<mailVars, accounts, ipSeen, ipHot, given, answers, apart, leaked, mishaps>>

Teardown(t) ==
  /\ At(t, "teardown")
  /\ Close(call[t].addr)
  /\ Goes(t, "closing")
  /\ UNCHANGED <<accounts, ipSeen, ipHot, given, answers, apart, leaked, mishaps>>

\* The request does not arrive; the error is dropped.
TeardownFails(t) ==
  /\ At(t, "teardown")
  /\ Mishap
  /\ leaked' = leaked \cup {call[t].addr}
  /\ Answer(t, call[t].acct)
  /\ UNCHANGED <<mailVars, accounts, ipSeen, ipHot, given, apart>>

\* The mail server has answered, or the client's timeout has passed.
Return(t) ==
  /\ At(t, "closing")
  /\ Answer(t, call[t].acct)
  /\ UNCHANGED <<mailVars, accounts, ipSeen, ipHot, given, apart, leaked, mishaps>>

IPCools(i) ==
  /\ i \in ipHot
  /\ ipHot' = ipHot \ {i}
  /\ UNCHANGED <<mailVars, accounts, ipSeen, call, given, answers, apart, leaked, mishaps>>

\* The broker restarts: the ledger is kept, what the gate counts is not.
Crash ==
  /\ Mishap
  /\ call' = [t \in Task |-> Idle]
  /\ ipSeen' = [i \in IP |-> {}] /\ ipHot' = {}
  /\ leaked' = leaked \cup active
  /\ UNCHANGED <<mailVars, accounts, given, answers, apart>>

\* The mail server works on its own.
Mail == (\E a \in Addr : MailStep(a)) /\ UNCHANGED signupVars

Serve(t) ==
  \/ Get(t) \/ GetFails(t) \/ Gate(t) \/ ProvisionMailbox(t) \/ ProvisionFails(t)
  \/ Register(t) \/ Poll(t) \/ Verify(t) \/ Put(t) \/ MarkMinted(t) \/ StepFails(t)
  \/ Teardown(t) \/ TeardownFails(t) \/ Return(t)

Next ==
  \/ \E t \in Task : Serve(t) \/ \E c \in Caller, i \in IP : Arrive(t, c, i)
  \/ \E i \in IP : IPCools(i)
  \/ Mail \/ Crash

Spec == Init /\ [][Next]_vars
-----------------------------------------------------------------------------
(* Properties.                                                             *)

\* What a signup has at each of its points.
Asking == [at : {"get", "gate"}, caller : Caller, ip : IP,
           addr : {NoAccount}, acct : {NoAccount}]
Waiting == [at : {"provision", "register", "poll", "verify"}, caller : Caller, ip : IP,
            addr : Addr, acct : {NoAccount}]
Minted == [at : {"put", "mark"}, caller : Caller, ip : IP, addr : Addr, acct : Addr]
Leaving == [at : {"teardown", "closing"}, caller : Caller, ip : IP,
            addr : Addr, acct : Addr \cup {NoAccount}]

\* The state has its type: above all, no message is taken that is not there.
TypeOK ==
  /\ MailTypeOK
  /\ accounts \in [Caller -> Addr \cup {NoAccount}]
  /\ ipSeen \in [IP -> SUBSET Caller] /\ ipHot \subseteq IP
  /\ call \in [Task -> {Idle} \cup Asking \cup Waiting \cup Minted \cup Leaving]
  /\ given \subseteq Addr /\ leaked \subseteq Addr /\ apart \subseteq Caller
  /\ answers \subseteq [caller : Caller, acct : Addr] /\ mishaps \in Nat

\* No two callers are ever given, or keep in the ledger, the same account, although
\* the provider takes a repeated registration for a new one (broker.go:217).
AccountsAreOwn ==
  LET held == answers \cup {x \in [caller : Caller, acct : Addr] : accounts[x.caller] = x.acct}
  IN \A x, y \in held : x.acct = y.acct => x.caller = y.caller

\* The account in the ledger is final: whoever loses a race does not replace it
\* (store.go:107).
FirstAccountKept ==
  [][\A c \in Caller : accounts[c] # NoAccount => accounts'[c] = accounts[c]]_vars

\* "a repeat /signup returns the same persisted account, so the key is retrievable"
\* (broker.go:15-16), where the signups of a caller come one at a time, whatever fails
\* or crashes in between.
AnswersRetrievable ==
  \A x \in answers : x.caller \notin apart => accounts[x.caller] = x.acct

\* The gate counts what has been minted, not what is being minted: concurrent signups
\* pass it together, but no more of them than there are goroutines (broker.go:194-199).
CapOvershoot ==
  MaxPerIP > 0 => \A i \in IP : Cardinality(ipSeen[i]) < MaxPerIP + Cardinality(Task)

\* "always tear down" (broker.go:163): an open mailbox has a signup that will close
\* it, unless a request to the mail server was lost or the broker died.
MailboxWatched ==
  \A a \in active \ leaked : \E t \in Task :
    /\ Busy(t) /\ call[t].addr = a
    /\ call[t].at \in {"register", "poll", "verify", "put", "mark", "teardown"}

\* "A message is kept ONLY if its recipient localpart is currently provisioned"
\* (server.go:14-15), where no message was being stored when the address was closed.
KeptWhileOpen == \A a \in Addr \ late : letters[a] > 0 => a \in active \cup closing
=============================================================================
