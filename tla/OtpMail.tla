------------------------------ MODULE OtpMail ------------------------------
(***************************************************************************)
(* The receive-only mail server of internal/otpmail: which addresses are   *)
(* open (under a mutex), and the message files of each address (under no   *)
(* lock). Every delivery is a goroutine of its own, and so is every        *)
(* request of the control API: a caller that gives up does not stop it.    *)
(***************************************************************************)
EXTENDS Naturals

CONSTANT Addr   \* addresses of the configured domain

VARIABLES
  active,       \* addresses that are provisioned
  letters,      \* letters[a]: messages in the mailbox of a
  delivery,     \* delivery[a]: the message being delivered to a
  closing,      \* addresses whose mailbox is being removed
  \* History, read by no guard of the code:
  late          \* addresses closed while a message to them was being stored

mailVars == <<active, letters, delivery, closing, late>>

MailInit ==
  /\ active = {} /\ closing = {} /\ late = {}
  /\ letters = [a \in Addr |-> 0]
  /\ delivery = [a \in Addr |-> "none"]

\* The provider's mail server connects to deliver a code.
Sent(a) ==
  /\ delivery[a] = "none"
  /\ delivery' = [delivery EXCEPT ![a] = "sent"]

\* Mutant: what is delivered is kept for any address of the domain.
ReceiveAny(a) ==
  /\ delivery[a] = "sent"
  /\ delivery' = [delivery EXCEPT ![a] = "accepted"]
  /\ UNCHANGED <<active, letters, closing, late>>

\* deliver: isActive takes the lock and gives it back before anything is stored.
Receive(a) ==
  /\ delivery[a] = "sent"
  /\ delivery' = [delivery EXCEPT ![a] = IF a \in active THEN "accepted" ELSE "none"]
  /\ UNCHANGED <<active, letters, closing, late>>

\* The mailbox is a directory, made when the first message comes, open or not.
MakeDir(a) ==
  /\ delivery[a] = "accepted"
  /\ delivery' = [delivery EXCEPT ![a] = "storing"]
  /\ UNCHANGED <<active, letters, closing, late>>

StoreLetter(a) ==
  /\ delivery[a] = "storing"
  /\ delivery' = [delivery EXCEPT ![a] = "none"]
  /\ letters' = [letters EXCEPT ![a] = @ + 1]
  /\ UNCHANGED <<active, closing, late>>

Provision(a) ==
  /\ active' = active \cup {a}
  /\ UNCHANGED <<letters, delivery, closing, late>>

\* ReadOTP: the first message with a code is deleted and its code returned.
HasCode(a) == a \in active /\ letters[a] > 0
TakeCode(a) ==
  /\ letters' = [letters EXCEPT ![a] = @ - 1]
  /\ UNCHANGED <<active, delivery, closing, late>>

\* teardown closes the address and then removes the directory.
Close(a) ==
  /\ active' = active \ {a} /\ closing' = closing \cup {a}
  /\ late' = IF delivery[a] \in {"accepted", "storing"} THEN late \cup {a} ELSE late
  /\ UNCHANGED <<letters, delivery>>

\* The write of a message whose directory is removed under it fails, unnoticed.
RemoveBox(a) ==
  /\ a \in closing
  /\ closing' = closing \ {a}
  /\ letters' = [letters EXCEPT ![a] = 0]
  /\ delivery' = IF delivery[a] = "storing" THEN [delivery EXCEPT ![a] = "none"] ELSE delivery
  /\ UNCHANGED <<active, late>>

MailStep(a) == Receive(a) \/ MakeDir(a) \/ StoreLetter(a) \/ RemoveBox(a)

MailTypeOK ==
  /\ active \subseteq Addr /\ closing \subseteq Addr /\ late \subseteq Addr
  /\ letters \in [Addr -> Nat]
  /\ delivery \in [Addr -> {"none", "sent", "accepted", "storing"}]
=============================================================================
