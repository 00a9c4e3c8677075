# A verification project for app-template

`app-template` turns an HTTP API or a CLI into an installable Pilot app. Its
repository holds four programs that keep state and run concurrently: the
**broker** in front of partners' master keys (`internal/broker`), the **publish
server** (`cmd/publish-server`, `internal/publish`), the **signup brokers** and
their mail server (`internal/otpsignup`, `internal/insforgesignup`,
`internal/otpmail`), and the **adapters** rendered from
`internal/scaffold/templates`. This directory models the broker, which holds other
people's money and data; the publish server and the catalogue, which decide what users
install; the mailed-code signup with its mail server; the contract that runs from a
publisher's form over the adapter's specification to the broker's registry; and the key
an adapter keeps for its caller.

- `PROJECT.json` lists components, runs, mutants, the lines every definition
  stands for, findings, hazards and theorems.
- `tlc -workers 2 -config managed_fixed.cfg MCManagedCall.tla` runs one
  configuration; `tlapm ManagedCallProofs.tla` checks the proofs.

## 1. Inventory

### The broker

Every request is a goroutine of `net/http`. All requests share the store (SQLite
behind a one-connection pool, so a statement or a transaction is atomic and two
of them are not), the registry (an atomic pointer a SIGHUP swaps) and, per
registry entry, a circuit breaker (a mutex around four fields).

| Part | State | Operations | Correct when |
|---|---|---|---|
| Circuit breaker, `breaker.go` | open, probing, failures, openedAt | `Allow`, `Record` | an open breaker sends one trial per cooldown; the trial's claim is given back |
| Forward path, `broker.go` | per request: what it has charged and claimed | `ServeHTTP`, `serveCreditBalance`, `seedCaller`, `allowBalanceRead`, `SetRegistry` | a call is paid once if it succeeded and not at all if it failed; every request is answered |
| Usage and credit stores, `store.go`, `store_sqlite.go` | `usage`, `provision` rows | `Admit`, `AddCost`, `Provision`, `Debit`, `Refund`, `Settle`, `Credit`, `Get`, `Rotate` | balances never negative, one grant per caller, a cap of grants per address |
| Tenancy, `tenancy.go`, `owner.go` | `ownership` rows | `EnforceRequest`, `ClaimFrom`, `ReleaseFrom`, `FilterResponse`, `FilterObject` | nobody acts on, sees or comes to own another caller's resource |
| Provisioned cloud, `provision.go` | machines at the cloud, tagged with their owner | push, list, provision, balance, key, rotate | a push that left no machine costs nothing |
| Metering, `meter.go` | time of the last pass | `MeterOnce`, `RunMeter` | running time is charged, never more than the balance; machines of a broke owner, and no others, are stopped |
| Derived keys, `derive.go`, `provision.go` | `rot` of a caller, secrets by version | `DeriveKey`, `ValidateDerived`, `serveKey`, `serveRotate` | the current key works, a rotated one does not |
| Registry, `registry.go`, `cmd/broker` | `apps.json`, the parsed entries, the secrets of the environment | `LoadRegistry`, `validateTenancy`, `costForCall`, `allowed`, `segmentsMatch`, SIGHUP | a file that does not load changes nothing; what an adapter calls is let through |
| Identity, access keys | none | `Verify`, `Check` | a request is attributed to who signed it |

The breaker, the store and the cloud are called one after another from one
handler; that is how the parts interact, and where they go wrong: what one call
returned is used after another request has changed it.

### The publish server

A case (`case.go`) is a JSON file and a directory of artifacts; it goes from
*submitted* over *building* and *pending* to *approved* or *rejected*. Requests
(`apiSubmit`, `adminBuild`, `adminApprove`, `adminReject`) and a build goroutine
per build read and rewrite the file without a lock. Approval registers the app in
the broker's registry file (`broker_register.go`, read, modify, rename) and opens
a pull request. Presigned uploads (`artifact.go`) are write-once by a check made
earlier. Correct when an approved case is the one that was reviewed, its bundle is
built from its submission, no registration is lost, and a build ends. What an entry
says is fixed by a chain of pure functions (`Submission.Validate`, `ToConfig`,
`Config.Validate`, `BrokerEntry`, `ParseRegistry`) that have to agree.

### Signup brokers, mail server, payments

`otpsignup` mints a provider account by a mailed code and stores it;
`insforgesignup` also creates a project. Both check a per-address gate first and
raise its count after the mint. `otpmail` keeps mailboxes that are provisioned,
delivered to, read and torn down concurrently. `x402.Do` pays at most once for a
call and within a cap. Correct when a caller ends with one account it holds the
key of, and the caps hold.

### Adapters, generator, catalogue, metadata API

A specification (`config.go`) is completed by `Resolve`, checked by `Validate` and
rendered into an adapter, a manifest with its grants and an install order. The
publisher's form (`submission.go`) has rules of its own and becomes a specification and a
broker entry by two ways. These are pure functions; what makes them hard is that they
have to agree. An adapter keeps keys in one `secrets.json`, which other adapter processes
of the host write too, provisions itself once per process, and answers a call without a
key with a hint. Correct when a hint leads to a key, what an adapter does is granted, and
the file ends with the key the broker accepts.

The catalogue lists for every app a version, a publisher key and a bundle. A submission
is gated against it (`catalogue/remote.go`) where it comes in, in its pull request and
once more when it is published; the publishing job then releases the bundle and proposes
a catalogue cloned later. Keys are rotated beside that. Correct when an app changes hands
only by a rotation, its version does not go back, and what is listed is served. The
metadata API serves files that no request writes.

### What is hard

`PROJECT.json` lists the hazards by line. The recurring ones:

- **stale reads**: `Get` then `Debit` (metering), `EnforceRequest` then the
  partner call, `Allow` then `Record`, `Get` then `Provision` (balance read);
- **partial failure**: a debit, then up to three calls of a partner, then a refund;
- **late outcomes**: a call from before the breaker opened reports while it is open;
- **crashes** between a debit and its refund, a create and its claim, or the
  truncation of a file and its new content;
- **two transactions for one decision**: the seeding of a caller over the cap;
- **files without locks**: the status of a case, the registry and `secrets.json`, each
  with one `.tmp`;
- **a gate and its use apart**: the catalogue is read long before it is replaced, an
  artifact looked for before its upload;
- **one thing derived twice**: form and specification, routes and allow list, grants and
  the code that uses them, the hint and the gate.

Smaller hazards that are not in that list, with what is known of them: two first balance
reads of a caller meet (`broker.go:174`, section 4); the quota is checked before the call
(`broker.go:330`, theorem `QuotaHolds`); `AllOwned` fails after `last` has moved
(`meter.go:47`, action `ListFails`); `costMicros` truncates to whole micro-dollars, so
that short intervals of cheap machines are never charged (`meter.go:31`); the form is
built without the specification's `Validate` (`publish-server/main.go:412`, section 4);
the balance route's token bucket refills by wall time (`broker.go:118`); `last_mint` is
stored in seconds and compared in milliseconds (`store_sqlite.go:158`); an InsForge
project exists before its key is fetched (`insforgesignup/broker.go:275`). The last three
are not modelled.

## 2. Modules

| Module | Models | Uses |
|---|---|---|
| `Breaker` | `breaker.go` as operators on a record | |
| `ManagedCall` | the forward path from the breaker to the answer, with the stores | `Breaker` |
| `CreditLedger` | what the credit ledger promises, without handlers | |
| `ManagedCallProofs` | theorems about `ManagedCall` | `ManagedCall`, `TLAPS` |
| `Metering` | pushes and the metering loop on shared balances | `Breaker` |
| `MeteringProofs` | theorems about `Metering` | `Metering`, `TLAPS` |
| `Tenancy` | the ownership ledger, the checks before and the bookkeeping after a partner call | |
| `TenancyProofs` | theorems about `Tenancy` | `Tenancy`, `TLAPS` |
| `Registrar` | the broker's registry file and its `.tmp` under concurrent registrations | |
| `PublishCases` | a case from its submission to its pull request, file by file | `Registrar` |
| `PublishProofs` | theorems about `PublishCases` and `Registrar` | `PublishCases`, `TLAPS` |
| `OtpMail` | the mailboxes of the mail server: which are open, what is in them | |
| `Signup` | minting a provider account by a mailed code | `OtpMail` |
| `SignupProofs` | theorems about `Signup` and `OtpMail` | `Signup`, `TLAPS` |
| `AdapterConfig` | `config.go`: what `Resolve`, `Validate`, `ResolveAssets` and the templates make of a specification | |
| `Submission` | the form: what it accepts, its specification, its registry entry | `AdapterConfig` |
| `AppRegistry` | which registry files load, and which calls an entry lets through | |
| `Contract` | an app from its form to a call: publish server, registry, broker, adapter, agent | `Submission`, `AppRegistry` |
| `ContractProofs` | theorems about `Contract` | `Contract`, `TLAPS` |
| `DerivedKeys` | a caller's cloud key: broker, rotations, reloads, the processes and the file of its host | |
| `DerivedKeysProofs` | theorems about `DerivedKeys` | `DerivedKeys`, `TLAPS` |
| `Catalogue` | the catalogue entry of an app, its submissions, publications and rotations; an artifact | |
| `CatalogueProofs` | theorems about `Catalogue` | `Catalogue`, `TLAPS` |
| `MC…` | instances and symmetry for TLC | the module of that name |

### Breaker

A record with the code's fields. Time is one bit, `cooled`: the cooldown since
`openedAt` has passed, which `Allow` compares and nothing else reads. A run with
`Threshold = 0` is the disabled breaker.

### ManagedCall

`call[h]` is the request handler `h` is serving, with its program point `at` and
what its local variables hold: the caller, the price, what is reserved (`held`),
the reported cost, whether it is the breaker's trial and whether a reload has
made its entry stale. One action per stretch of `ServeHTTP` that makes one store,
breaker or partner call:

    Allow -> Admit -> Provision [-> ProvisionZero] -> Charge -> BuildFails | CallFails | CallSucceeds
          -> Refund | AddCost -> Settle
    BalanceRead -> BalanceGet -> Provision

`Mode` is the app's `credits.mode`: `fixed` debits first and refunds on failure,
`response` admits on a positive balance and settles the cost the answer reports,
`none` has only the breaker and the quota. `Reload`, `Crash`, `BreakerCools` and
`MintCools` happen around the handlers. The store's variables are its columns
(`calls`, `cents`, `home` for `ip`, `warm` for "last_mint is past the cooldown",
`credits`). History variables (`granted`, `kept`, `lost`, `absorbed`, `forwarded`,
`sinceOpen`) say what became of money and calls; no guard reads them.

### CreditLedger

The abstract ledger: a purse per caller, granted once, from which one successful
call at a time takes its price and of which a crash may forfeit a part.
`ImplementsLedger` maps balance plus reservations to the purse, so that debits and
refunds are invisible and only their outcome counts.

### Metering

`servePush` (breaker, `Get`, `Debit`, upload, create, start, `Record`, refund) for
every handler, beside one `MeterOnce` pass (list, then per machine `Get`, `Debit`,
stop). Each call of the store or the cloud is a step. The price of a machine is
`Rate * dur \div Scale`, truncated as `costMicros` truncates. Machines are
identical; the list endpoint reads only and is left out, as is a second app. An error
of the store ends a `Get`; of a `Debit` in a pass it is ignored (`MeterDebitFails`), and of
a refund it is dropped with the money (`RefundFails`), which `lost` then holds, as it does
what a crash strands.

### Tenancy

Numbers are created and deleted through the broker; items appear at the partner,
attached to a number (`owner_by`), and are claimed lazily when a list shows them.
`Enforce`, `Filter`, `Keep`, `ClaimCreated` and `Release` are one ledger
transaction each. An answer with the configured array is cut down row by row (`filter`,
`keep`); one without it goes to the caller as it is, so that its rows stay in `todo`,
the rows no filter has looked at. The partner's side (`PartnerCreates`, `PartnerDeletes`,
`PartnerLists`, `PartnerUses`, `ItemArrives`) is external: it serves the whole
account and knows no callers. How references are found in a path, a query or a
body is not modelled: a request arrives with the set of resources it names.

The ids in `Recycled` are given out more than once. `settled` and `disputed` are history:
a number is settled once the ledger has recorded its last creation or deletion, and an id
is disputed when it is given out again with its earlier life still open, that is unsettled
or held by a request of that time (`Reopened`). No code reads them; the properties need
them to say for which ids the ledger answers.

### Registrar

`Register` is five steps: read, open (which truncates), write, rename, or a failure
of any of them. A registration that has opened `.tmp` holds the *file*; `job[t].file`
says where that file is now, because another registration may have renamed it over
the registry meanwhile (`AfterRename`), and then `WriteTemp` writes into the live
registry. `Filled` is what `os.WriteFile` leaves: the new text, or, where another
writer has filled the file since it was truncated, possibly a mix (`Torn`). An entry
is its app, so that "replace or append" is a union. `confirmed` and `overlapped`
are history.

### PublishCases

`disk[c]` is the directory of case `c`: `case.json`, and the bundle with the
`submission.json` that pins it as one file. `call[t]` is what goroutine `t` runs,
a request or the build it left behind, with the step it is at and its local
variables:

    Submit  -> open -> fill
    Build   -> mark -> open -> fill -> compile -> attach -> open -> fill (bundle) -> open -> fill
                                              \-> fail -> open -> fill
    Approve [-> register] -> stage -> pr -> approved | retry -> open -> fill
    Reject  -> rejected -> open -> fill

`Truncate` and `Fill` are the two halves of `os.WriteFile`; `SetStatus` and
`Attach` read the file again, as the code does, and write what they computed from
it. `Write` only notes what is about to be written. A case that does not parse is an
unknown case to an admin and no case at all to a submission. `Registers` are the
steps of `Registrar`, composed by conjunction. `prs` is what GitHub has been asked
to publish: `OpenPR` may still be answered with an error.

Left out: the ownership gate before a submission and presigned uploads (both in
`Catalogue`), mails, the pages, `CaseStore.Create` (which no server code calls) and torn reads (a
reader sees a file before, between or after the two halves of a write).

### OtpMail

`active` is the map under the server's mutex, `letters` the files of a mailbox,
`delivery` the goroutine that handles the message of an address, `closing` a teardown
between the map and the directory. What takes the lock is one step, so `deliver` is
three (`Receive`, `MakeDir`, `StoreLetter`) and `teardown` two (`Close`, `RemoveBox`).
A letter is a message with a code in it; others change nothing.

### Signup

`call[t]` is the signup that goroutine `t` serves, at one of

    get -> gate -> provision -> register -> poll -> verify -> put -> mark -> teardown -> closing

with its mail address and, from `put` on, the account it has minted. `accounts` is the
ledger table, `ipSeen` and `ipHot` are the maps of the gate, which a restart forgets.
`StepFails` is every error after the mailbox is open, whatever its cause: the deferred
teardown still runs. An account is known by its mail address, since addresses are
random and registered once (`Fresh` draws one never drawn before). The provider is
external: it mails a code to what registers and trades a code for a key. The ledger is
on disk, as it is in production; a key that no longer decrypts it is `GetFails`.

Left out: a restart of the mail server, which forgets the addresses and keeps the
files; mail nobody asked for; and a control request that the mail server still serves
after its client has given up on it *and* gone on.

### AdapterConfig, Submission, AppRegistry

The pure functions of the chain, as predicates and record transformers over the fields
their rules look at. An optional field is a set of at most one element; a URL is its
scheme and its host; a path is a sequence of segments, of which one may be a placeholder
or text with a placeholder in it; a name is in the namespace or not, with a blank around
it or not (the form trims what it checks and hands on the untrimmed text). `Submissions`
and `Authored` are the forms and the handwritten specifications as they are read, which
the proofs assume of what is filed. `Resolve` adds the upload and balance methods;
`ResolveAssets` is Kahn's algorithm as a recursive function; `Grants` is what the manifest
template writes, `Uses` what the adapter templates do, by the type of the backend: signup,
upload, store and tool handlers are generated for http adapters only. `EntryLoads` is
`ParseRegistry` with the secrets of an environment. Rules the code tries in order are
nested conditions or guards that exclude one another (`HybridRouteOK`, `HTTPRouteOK`),
since the arms of a TLA+ `CASE` have no order.
Formats of texts (semantic versions, e-mail addresses, descriptions, headers apart from
their placeholders) are left out.

### Contract

One app is followed from its form (`Submit`, `Build`, `Register`) or from a specification
written by hand (`Author`). `file` is `apps.json`, to which entries of other apps are
written (`WriteNeighbour`); `live` is the registry the broker routes by. A broker reads
the secrets of the environment it was started with (`procEnv`); what operators set later
(`opsEnv`) is seen by the next `Restart`. On a host, `keys` is `secrets.json`; an agent
that is answered "no key yet" by an http adapter calls what the hint names
(`FollowHint`), which stores the keys of the method called (`Stored`); a hybrid adapter
asks for its cloud key once per process (`AskForCloudKey`, `AdapterExits`).

The properties have the shape "A holds if and only if none of these named faults does":
`FormLapse`, `GrantLapse` and `CallLapse` are the faults the code really has, each a
disjunct of its own; the run shows that there is no other among its forms, the theorems of
section 5 that there is none. `Build` leaves out the Go compile of what was generated and
so builds more than the code does: an adapter whose template calls what it does not define
(`loadSecrets`, `main.go.tmpl:455`, is defined only for http backends with headers,
1150-1184) does not compile. What is shown of all that is built holds of what compiles.

### DerivedKeys

A process of the caller's host is at one of `idle`, `sent`, `arrived`, `answered`, then,
when the answer's key has to be written, `open`, `write`, `rename`. `snap` is the registry
its request met; `handle` what the file it has opened has become, since every process
writes the same `.tmp` and an open file stays itself when it is renamed. A key is its
version and a MAC of secret, version and rotation counter. `EnsureProvisioned` keeps its
first answer (`once`); `cacheKey` leaves an entry alone where `writeKey` replaces it.
`Leak` lets a key of the file get into other hands. A write or a rename that fails is
handed on by nobody (`KeepFails`): the call ends as one that kept its key. A request whose client has given up
is answered before it gives up or not at all.

### Catalogue

`place[s]` is where submission `s` is between *new* and *proposed*, `seen[s]` the entry
its last gate read, `live` the entry of the catalogue. `Gated` is `pilot-app
verify-update` in the check of the pull request and in the publishing job; `gateOwnership`
the one of the web form. A proposal carries the entry it was cloned from (`base`) and
merges only into that: catalogue and signature are one file each, so that a stale clone
conflicts. `Release` replaces what was released under a tag (`--clobber`). Merges,
closings and manual starts of a job (`Dispatch`) are the maintainers'. The last three
variables are one object of the artifact registry: what is uploaded, the upload URLs that
have not expired, and which of them are `rivals` of the first upload. The store may refuse
any HEAD (403), which `Free` takes for an absent object. The checks within one bundle (help method, grants,
binary formats, variants) and the caching of the raw catalogue file are left out.

## 3. Runs

| Run | Question | Instance |
|---|---|---|
| `managed_fixed` | does the ledger conserve credit, never overdraw, grant once, and implement `CreditLedger`? | 1 caller, 2 handlers, prices 1 and 2 of a budget of 2, 3 calls, mint cooldown, a crash |
| `managed_first` | does the grant cap hold and is every request answered? | 2 callers, 1 address, cap 1, quota 1, 2 handlers, a crash; fairness |
| `managed_response` | how far can response-mode calls overspend, and does an open breaker let one call per cooldown through? | 1 caller, 3 handlers, costs 0 and 2 of a budget of 3, 5 calls, threshold 2 |
| `tenancy_isolation` | does anyone act on, see or own what is another's? | 2 callers, 2 handlers, 2 numbers of which one's id is recycled, 1 item, 2 references; any number of crashes |
| `metering` | is credit of pushes and running time accounted for, and are machines of broke owners stopped? | 2 callers, 2 handlers, 2 machines, a budget of 2, one fault; fairness |
| `publish_cases` | is an approved case published, and as it was reviewed? | 2 goroutines, 1 case with 2 submissions, a failed write or a crash |
| `publish_managed` | is only what was built released, and does the registry stay whole? | 2 goroutines, a managed submission, an entry of operators, a failed write or a crash |
| `signup` | does a caller end with one account of its own that it can get back, how far is the cap exceeded, and is mail kept only for open mailboxes? | 2 goroutines, 3 callers behind 1 address, a cap of 1, 3 mail addresses, a lost answer, store error or crash |
| `contract` | do form, specification, manifest, registry and adapter agree, but for the named faults; does a hint lead to a key; does a reload keep what is served? | 800 forms around a sound one and 24 specifications, entries of 3 other apps; fairness |
| `keys` | is a leaked key refused after a rotation, and does a call that runs alone leave the right key in the file? | 2 processes, 2 versions with their secrets, 2 rotations, a lost answer, death or failed write |
| `catalogue` | does an app change hands only by a rotation, is what is listed served, are artifacts write-once? | 3 submissions (an author's, a newer of the form, a rich one), 2 keys, 1 rotation, 2 uploaders |
| `breaker_probe_leak` | *finding*: does `probing` mean a trial is in flight? | 2 handlers, quota 2 |

Every property of a passing run has a mutant in `PROJECT.json`: a change of one
definition, as a plausible bug would make it, under which that run fails.

**Bounds.** `Quota` bounds the calls of a caller in `ManagedCall` (it is the
code's own bound); `MaxCrashes`, `MaxFaults` bound crashes and failures,
`MaxElapsed` the time a metering pass covers. Two handlers show every race of
two requests; three are used where a property needs a third (late outcomes while
a trial is out, three calls past one check of the balance). Two prices around one
budget make a debit succeed, drain and be refused. Two callers behind one address
with a cap of one are the smallest instance where a grant is refused; the theorem
`CapHolds` covers every cap and every number of callers. In `Tenancy` a number
and its item cover `owner_by`, a second number a request with two references
(`MaxRefs`); the item's number is the recycled one, so that an item may outlive the life of
the number it came for, beside a number whose id is given out once. Nothing else of
`Tenancy` is bounded: the recycled id may come and go as often as it likes.
`MaxMishaps` bounds crashes and failed writes of the publish server. Cases share
nothing but the goroutines and the registry, so one case shows what two submissions
of it do to each other, and one managed app beside an existing entry what a
registration does to another's entry. Retries are not bounded: a case goes round from
*pending* to *pending* as often as it likes. In `Signup` two goroutines and a cap of one
let two callers past the gate together, and the third shows that it is shut afterwards;
`Addr` bounds the mints, `MaxMishaps` lost answers, ledger errors and crashes, while
refusals and timeouts are unbounded. A cooldown is assumed; as it may be over at any
time, a broker without one does nothing that this one cannot.

The forms of `contract` are families around a sound form, each varying together what one
part of the code looks at (routes, parameters and saved keys; pairs of signup steps;
backends, secrets and providers of local and hybrid apps; three assets under every
dependency relation and three orders); fields that no rule relates are not combined. The
neighbours are one entry that asks for an access key and has links in a circle, one with
a credit block, one that is refused. In `keys` two processes are enough for one to rename
over what the other has open; two rotations for a key to be two rotations old. In
`catalogue` three submissions are an update gated against an old entry, one that takes its
version, and one whose signer nobody compares; two uploaders, who may ask, upload and let expire as
often as they like, are an earlier and a later one; a second rotation and a third key change
nothing but names (the theorems of these modules bound none of it). `MaxRot`,
`MaxMishaps` and `MaxRotations` are bounds of the models, not of the code.

**Symmetry** is over handlers, goroutines, callers, machines and mail addresses, where
no definition tells them apart; over processes in `keys` and over uploaders in
`catalogue`; runs with a liveness property use none. In `ManagedCall` callers are
permuted only where every one may use every address.

**Deadlock** is checked everywhere but in two runs, whose systems really stop: a rejected
form or a failed build is an end in `contract`; in `keys` an adapter whose first request
failed may stay so when the bounds on rotations and mishaps are used up.

### Fairness

- `ManagedCall`: weak fairness of each handler's `Serve`. A handler waits for
  nothing but the store and the partner, whose answer `TimeoutMs` bounds; the
  store has one connection and no call made while holding it. Arrivals, reloads,
  cooldowns and crashes are not forced.
- `Metering`: weak fairness of `TimePasses` and of the loop's own steps
  (`MeterRuns`). The ticker fires for as long as the process lives and the loop is
  one goroutine. Failures of its calls and crashes are bounded by `MaxFaults`: a
  cloud that refuses every stop keeps its machines running, in the code too.
- `Contract`: weak fairness of `HostStep`, an agent that does what the answer to its
  call tells it, with a provider that issues the key. Nothing else is forced.

## 4. Findings

One place where the code does not do what its comments say has a run of its own;
`PROJECT.json` quotes the lines. The half-open trial is claimed by `Allow` and given back
only by `Record`, with early returns between them (quota, cooldown, balance, request
building): the breaker then refuses every call until a reload. `servePush` has the same
returns (a bad envelope, no credit). `breaker.go:23` says of `probing` that "a single
half-open trial call is in flight".

Met while modelling, with no run of their own. Those where a comment, a doc or a test
says otherwise:

- a number whose deletion was not heard, or whose id is created again before the
  release, still has its old ledger row; the new creator's claim is refused and the
  refusal ignored (`tenancy.go:480`), and what the old row or a check made before lets
  through is the new creator's. `tenancy.go:465-467` has the row released "so the id can be
  claimed by whoever gets it next if the partner recycles ids", and 23-30 the one rule. The
  properties of `Tenancy` hold for recycled ids too, but for those given out again with
  their earlier life still open (`disputed`), and for the items of an earlier life, whose
  rows nothing releases;
- a list answer without the configured array goes to the caller unfiltered
  (`tenancy.go:515-518`), where the comment above says "On any doubt it returns an EMPTY
  array rather than the unfiltered body" (`tenancy.go:495-496`); `ShownAreOwn` speaks of
  the rows a filter has looked at;
- a refund that the store refuses is dropped (`provision.go:529`, `537`;
  `store_sqlite.go:231-236` answers nothing), where `provision.go:470-471` says "On any
  non-success it refunds so a failed push never burns credit"; `Conservation` of `Metering`
  counts it with what crashes strand (`lost`), as that of `ManagedCall` does;
- `MeterOnce` ignores that `Debit` refused or failed (`meter.go:65`), takes the balance for spent and stops a
  machine whose owner has credit (`meter.go:64`), where `meter.go:34-36` says it stops
  "the machines of any owner whose balance is exhausted";
- all registrations write one `.tmp` (`broker_register.go:174`): where two overlap, one
  renames over the live registry what the other has just truncated, although the rename
  is there "so the broker never reads a half-written file" (`broker_register.go:177`);
- the publish server builds a form's specification without its `Validate`
  (`publish-server/main.go:412`), where `scaffold.go:35-36` has "cfg must already be
  Resolve()d and Validate()d"; `FormGapsAreNamed` lists what gets through, among it a
  timeout that is no duration, on which the adapter panics as it starts;
- `cacheKey` looks whether there is a key and writes later (`cloud.go.tmpl:182-200`), so
  that it may put an old key over one just rotated in, where `main.go.tmpl:755-756` keeps
  "the local cache current so the stored key always matches the broker" and
  `cloud.go.tmpl:88-91` calls a cache race benign; the processes also share one `.tmp`. And
  a rotate whose write or rename fails answers success with the dead key still in the file
  (`cloud.go.tmpl:152-154`, `main.go.tmpl:757-758`). `LoneCallRepairs` says what does hold:
  a key or rotate call that ran alone and whose write did not fail puts right whatever was
  there, a key left by such a failure included;
- `ObjectExists` takes a HEAD that is refused (403) for an absent object
  (`artifact.go:160`), where its comment says that "a 404 means" free to upload (138-141)
  and `main.go:301-304` that "a key that already exists is refused"; and between the look
  and the end of the URL lies a quarter of an hour. `WriteOnce` says what is left of it:
  who may replace an artifact held a URL before its first upload, or was let in by a
  refused HEAD;
- an update "must be strictly higher" (`pilot-app/main.go:391`) and "must increase the
  version" (`publish-submission.sh:73`), but `CheckUpdate`, its test and `UPDATING.md`
  allow the same version again (`remote.go:80-83`), which is how one version comes to be
  submitted twice (`LiveIsServed`); `UpdatesAreGated` says that no version goes back;
- `secretsByVersion` never holds two versions (`registry.go:529`, `540`), where
  `derive.go:35`, `110-112` and `registry.go:102` speak of a window in which the previous
  one is still accepted;
- `Record` cannot tell the trial's outcome from that of an older call, so a late failure
  clears `probing` and, a cooldown later, a second trial goes out beside the first, where
  `breaker.go:44-46` says "permit exactly ONE trial call (the probe)";
- two first balance reads of one caller race, and the second is answered 429,
  although a first touch "can never itself hit the cooldown" (`broker.go:153-154`);
- a submission that reads a case before its approval is written, or while it is
  being written, overwrites the approved case, which `CreateSubmitted` "refuses to
  clobber" (`case.go:85-86`); `ReviewedIsPublished` therefore speaks of cases whose
  requests do not overlap;
- `adminReject` checks no status: a published case can be rejected, and its pull
  request stays;
- a process that dies during a build leaves the case *building*, which `adminBuild`
  refuses; `BuildingHasBuilder` excepts it;
- the note "approved + broker-registered" is written whether or not the
  registration worked;
- two signups of one caller at once are answered with two accounts, of which only the
  first is stored, although a signup is "idempotent per caller" (`otpsignup/broker.go:15`);
  `AnswersRetrievable` speaks of callers whose signups come one at a time. A row that
  cannot be read counts as none: a second account is minted, answered and not stored;
- the cap on callers per address counts what has been minted, not what is being minted,
  and starts afresh with the broker; `CapOvershoot` is what it does promise;
- a message whose address is closed between the check and the write is kept, and its
  directory made again, where `otpmail/server.go:14-15` says it is kept "ONLY if its
  recipient localpart is currently provisioned"; `KeptWhileOpen` excepts these (`late`);
- "always tear down" (`otpsignup/broker.go:163`) is deferred after the mailbox is open:
  where the answer to its opening is lost, nobody closes it.

Facts of the code that a reader of the models will ask about:

- Contract: a hybrid app with auth "managed" cannot provision (403); hybrid adapters send
  placeholders unfilled, and read `secrets.json` without a grant if they are managed; a
  failed first request for the cloud key is kept for the life of the process; a managed
  form drops its broker URL; the injected `<ns>.balance` of a published managed app is not
  in its allow list; a specification with `${}` headers or a URL secret and no signup has
  no grant for `secrets.json`; the secret the gate asks for and the method the hint names
  are searched for apart, and a start or issuing method that is not public is behind the
  gate it opens (`SignupCoherent` excludes both); a multipart route's `save_key` counts as
  minting (`config.go:323-354`), but `forwardMultipart` never looks for a key in the answer
  (`main.go.tmpl:352-359`), so that a hint can lead nowhere (excluded there too); of two `body_raw` parameters only the
  last is sent; the price of a path that two templates match depends on map order;
- Registry: `validateTenancy` accepts links that only lead to one another, and looks at no
  body reference (`tenancy.go:655-656`); a reload does not check access keys, a start does;
- Catalogue: the update gate reads the catalogue before the clone that replaces its entry,
  so pin or version can go back; the publication of a rich submission leaves the script
  before the gate, and no gate compares its signer, where `remote.go:86-87` has the
  publisher check run there; an upload under a tag that exists replaces its bundle before
  the catalogue does; `verify-update` compares version and signer of a bundle but not the
  id of its manifest, and not the signers of its platform variants.

## 5. Proofs

`ManagedCallProofs` proves, for every set of callers, handlers and addresses, every
price, budget, cap, quota and threshold, from the named assumptions on the constants
(`ManagedAssumption`, which has the sets of callers and handlers finite, and
`ThresholdIsNat` of `Breaker`):

| Theorem | States |
|---|---|
| `TypeCorrect` | `Spec => []TypeOK` |
| `CreditConserved` | `Spec => []Conservation` |
| `NeverOverdrawn` | `Spec => []NoOverdraft` |
| `GrantsAreFinal` | `Spec => GrantIsFinal` |
| `OneTrial` | `Spec => []OneTrialPerCooldown` |
| `CapHolds` | `Spec => []GrantCap` |
| `QuotaHolds` | `Spec => []ForwardsWithinQuota` |
| `SparedOnlyWhenExhausted` | `Spec => []AbsorbedOnlyWhenExhausted` |
| `OvershootHolds` | `Spec => []OvershootBounded`, if some reported cost is the largest |
| `ImplementsTheLedger` | `Spec => ImplementsLedger` |
| `RequestsComeNearer` | `Spec => [][ComesNearer]_vars` |

The ledger theorems share one inductive invariant, `LedgerInv`: type, `Conservation`
and `NoOverdraft` with three strengthenings. `HeldInFlight` says a debit is
outstanding only while the partner is called or a refund is due, without which a
refused call could drop a reservation unnoticed. `UnseenIsPoor` says a caller with no
row has no credit and no grant, without which an insert could overwrite a balance.
`HeldIsSeen` says a reservation belongs to a caller with a row, without which an
insert could come after a debit. `ServePays` then lists what one step of a handler
does to balance, grant and reservation. `Held(c)` is the cardinality of the set of
units all handlers have reserved, so that no recursive sum is needed; `UnitsChange`
and `HeldChange`, from `FiniteSetTheorems`, say how it moves with one handler.
`OneTrial` rests on `TrialInv`: an open breaker has a threshold, and since it opened
has let out one trial if it is probing and none since the cooldown if it is not.
`CapHolds` follows from `LedgerInv` and `GrantCap` together: a caller is funded only
when it is inserted, and `Provision` inserts only below the cap. `QuotaHolds`, which no
run checks, counts what is still to come: the calls forwarded and those admitted that are
not at the partner yet (`Owing`) are together at most what `Admit` has counted.
`SparedOnlyWhenExhausted` needs that nothing is ever reserved in response mode, so that no
refund can follow the clamp, and that whoever is settled has a row, so that no insert can.
`OvershootHolds` goes on from there: once something was spared the balance is gone for
good, so nobody passes the check any more, and only the calls already past it can add, at
most one for each handler (`Bounded` weighs what was spared and the calls still to settle
together). `ImplementsTheLedger` is the refinement to `CreditLedger` under the mapping of
section 2: by `LedgerInv` the purse is what was granted less what was kept and lost
(`LedgerAdds`), so `ServePays` says which abstract step each step of a handler is
(`ServeRefines`). `RequestsComeNearer` is what `EveryRequestAnswered` comes to without
fairness: a request has one of seven ranks (`StepsLeft`), every step of its handler lowers
it, and no step of anything else raises it, so that a handler that keeps going answers in
seven steps.

`MeteringProofs` proves, for every set of callers and any finite number of handlers and
machines, every seed, push price, rate and number of faults (`MeteringAssumption`), the
safety of the run `metering`:

| Theorem | States |
|---|---|
| `TypeCorrect` | `Spec => []TypeOK` |
| `NeverOverdrawn` | `Spec => []NoOverdraft` |
| `CreditConserved` | `Spec => []Conservation` |
| `PushesLeaveMachines` | `Spec => []PaidForMachines` |
| `PassComesNearer` | a step that changes a pass under way lowers `PassLeft` |
| `DueAreNotForgotten` | `Spec => [][KeepsDue]_vars` |

`LedgerInv` is one invariant, because the parts need each other: that what the pass is
about to charge is not more than what it read (`ChargeCovered`) keeps the type of its
balance, which is natural only as no balance is negative, which holds as a push debits
only what is there. `CreditConserved` covers store errors at every debit and refund, and
crashes; what they strand is in `lost`. `PushStep` and `OtherStep` say once what a step of a push, or any
other step, has to respect; the actions are then cases of the two. `PaidForMachines` is
made inductive by the pushes whose machine exists and that are not paid for yet
(`FeesBacked`). The last two are the argument for `ExhaustedIsStopped` without fairness: a
pass ends, because three steps at most are left for every machine it has still to meter;
and from its listing on it has the running machine of a caller without credit in sight
(`Holds`) until it has stopped it, money is back, or a call has failed, of which there are
finitely many. As the next pass lists every running machine, one without failures stops it.

`TenancyProofs` proves, for every set of callers, handlers, numbers and items
(`TenancyAssumption`; the sets may be infinite):

| Theorem | States |
|---|---|
| `TypeCorrect` | `Spec => []TypeOK` |
| `NobodyActsOnOthers` | `Spec => []ActsOnOwn` |
| `NobodySeesOthers` | `Spec => []ShownAreOwn` |
| `ItemsStayAttributed` | `Spec => []ItemOwnerReceived` |
| `CreatorsOwn` | `Spec => []CreatorOwns` |

No theorem says how ids are given out: any may be recycled, at any time and as often as
the partner likes. The last four share the invariant `Isolated`. Its centre is
`Vouched(h)`: every reference a handler has already checked, and everything it has made or
is keeping (`Holds`), was made by its caller or is disputed. That survives the time
between the check and the partner's act because of `MakersKept`, a step property: what
anybody holds keeps its maker or is disputed from then on, since giving out an id again
that somebody holds is what `Reused` calls a dispute. `RowNamesMaker` turns a ledger
lookup into that fact, `Made` says an item is its number's maker's from its arrival on,
unless the number has another life since; `SettledGone`, that a number whose deletion was
recorded has no row, is what lets the next creator's claim succeed; and the clause on
releases, that a number being released is gone or disputed, is what keeps a late release
from hitting the row of a number that lives.

`PublishProofs` proves, for every set of goroutines, cases, submissions and apps
(`CasesAssumption` and the three assumptions of `Registrar`, which say that contents
of files that differ are told apart; the sets may be infinite):

| Theorem | States |
|---|---|
| `RegistrarKeeps` | `RegistrarSpec => []RegistryComplete /\ []RegistrationsKept`, with its type |
| `ServerImplementsRegistrar` | `Spec => RegistrarSpec` |
| `RegistryWhole`, `NothingDropped` | `Spec => []RegistryComplete`, `Spec => []RegistrationsKept` |
| `TypeCorrect` | `Spec => []TypeOK` |
| `ApprovedIsPublished` | `Spec => []ApprovedHasPR` |
| `BuildsAreWatched` | `Spec => []BuildingHasBuilder` |
| `OnlyBuiltReleased` | `Spec => []OnlyBuiltIsReleased` |
| `ReviewedPublished` | `Spec => []ReviewedIsPublished` |

The registry theorems are proved once, of `Registrar` alone, and carried over by the
composition: every step of the server is a step of the registrar or leaves its
variables alone. Their invariant, `Alone`, says what a registration holds when it has
never met another: the registry reads as a list that keeps `confirmed`, what it has
read includes that list, and once written `.tmp` is exactly what it computed; a `.tmp`
left by a crash is harmless because it is truncated first. The first two case theorems
need what a task is *about* to write: `ReviewInv` that whoever holds or will compute
"approved" has seen the pull request, `BuildInv` that whoever writes "building" goes
on to the build and writes nothing else. `CasesChange` reduces a change of what a
case reads as to one `Fill`, and `WritersChange` what a task will write to where it
got it from; so neither proof looks at the interleavings. `OnlyBuiltReleased` rests on
bundles being replaced but never removed (`BundlesStay`): once a case has one, whoever
publishes it, and every list of the registrar with its app, stays covered. The invariant
of `ReviewedPublished`, `ReviewedInv`, is about a case that has not been raced: it has one
task at most, and `StepOK` says what that task has established at each of its points, above
all that bundles are replaced only while the case file does not read as pending.

`SignupProofs` proves, for every set of callers, addresses and network addresses and
any finite number of goroutines (`SignupAssumption`), every property of the run:

| Theorem | States |
|---|---|
| `TypeCorrect` | `Spec => []TypeOK` |
| `AccountsAreTheirOwn` | `Spec => []AccountsAreOwn` |
| `FirstAccountIsKept` | `Spec => FirstAccountKept` |
| `AnswersAreRetrievable` | `Spec => []AnswersRetrievable` |
| `CapIsNearlyKept` | `Spec => []CapOvershoot` |
| `OpenMailboxIsWatched` | `Spec => []MailboxWatched` |
| `KeptOnlyWhileOpen` | `Spec => []KeptWhileOpen` |

`Moves` says once what a step makes of a signup, and the rest cite it. An answer can be
had again because of `InStep(c)`: a caller that signs up once at a time has no account
until its signup stores one, and from then on its signup and the ledger agree on it.
Accounts are not shared because nobody comes to own an address except by drawing it,
and what is drawn was owned by nobody (`OneOwner`). The cap needs those that are past
the gate but not yet counted: `Counted(i)` bounds the counted and the uncounted of an
address together, and a step either adds nobody or passes the gate below the cap, where
the uncounted are at most one for each goroutine. `MailKept` adds to the property what
is being stored.

`DerivedKeysProofs` proves, for any number of processes, configurations, rotations and
mishaps (`ConfigAssumption`, `BoundAssumption`), both properties of the run:

| Theorem | States |
|---|---|
| `TypeCorrect` | `Spec => []TypeOK` |
| `LeakedKeysDie` | `Spec => []LeakedKeyStaysDead` |
| `LoneCallsRepair` | `Spec => []LoneCallRepairs` |

A leaked key stays dead because every key that is anywhere, in a file, an answer or
somebody's hands, was derived under a counter no greater than the caller's, and a rotation
after the leak makes it greater for good. A lone call repairs the file because its `alone`
bit says that nobody else has moved since it was sent: its answer is the broker's, no
other process has a file open, and what it renames is what it wrote. A failed write ends
the call without touching `clean`, and leaves no file open, so that the next lone call
finds what the argument needs.

`CatalogueProofs` proves, for any number of submissions, keys and rotations
(`SubAssumption`, `RotationBound`), all three properties of the run:

| Theorem | States |
|---|---|
| `TypeCorrect` | `Spec => []TypeOK` |
| `OwnersUpdate` | `Spec => UpdatesAreGated` |
| `LiveStaysServed` | `Spec => []LiveIsServed` |
| `ArtifactsStay` | `Spec => WriteOnce` |

`OwnersUpdate` rests on what a proposal says of its gate: if it is not a rotation, its
entry passed `CheckUpdate` against what it has `seen`; a proposal that merges has seen its
base or is one of the two lapses. `LiveStaysServed` on what a release may replace: the
bundle of its own version only. `ArtifactsStay` on `RegistryInv`: once there is an
artifact, whoever holds a URL is a rival of its first upload or was let in by a refused
HEAD, because nobody else is given one and an expired one is gone.

`ContractProofs` proves, for every set of forms, specifications and neighbours and with or
without access keys, every safety property of the run:

| Theorem | States |
|---|---|
| `TypeCorrect` | `Spec => []TypeOK` |
| `LoadedBoots` | `Spec => []LoadedFileBoots` |
| `AppsStayServed` | `Spec => ReloadKeepsApps` |
| `StrandedTypesAreCircular` | `Spec => []StrandedOnlyInCircle` |
| `InstallsInOrder` | `Spec => []InstallOrderSound` |
| `CallsAreAnswered` | `Spec => []CallsAnswered` |
| `UsesGranted` | `Spec => []UsesAreGranted` |
| `GapsAreNamed` | `Spec => []FormGapsAreNamed` |
| `HintLeadsOn` | `Spec => [](HintApplies /\ ~Unlocked => HintLeads)` |
| `HintHolds` | `Spec => [][HintApplies => HintApplies']_vars` |
| `HintStepUnlocks` | `Spec => [][HintApplies /\ HostStep => Unlocked']_vars` |

The assumptions say what the code's decoders give: a form is a record of the form's fields
(`FormsAssumption`), a handwritten specification has those of `Config` and no method the
generator adds (`SpecsAssumption`), a neighbour's tenancy lists are finite
(`NeighboursAssumption`); `AccessKeysAssumption` gives a Boolean. None bounds a number of
methods, parameters or assets.

*What outlives a step.* A running broker's secrets are among those set for its next start,
its entries load under them, and loading is monotone in the environment (`LiveLoads`,
`EntryLoads`); the apps it serves are all in the file, since every write replaces an entry
by one of its name (`Backed`). `RegistryOK` adds that names in file and registry are
unique and that entries are the app's own or a neighbour's, `AppOK` that what is built
comes of an accepted form and what is registered is broker-fronted.

*Two loops.* `Ownable` (a fixed point) and `ResolveAssets` (Kahn's algorithm) are recursive
functions, and the library's induction theorems are of no use here; what is proved of
them goes by least counterexample instead (`LeastNatural`, `UpTo`), for one set of numbers
at a time. `UnrollOwnable` and `UnrollAssets` first show that a function satisfying the
recursion exists. Of a chain of subsets of a finite set two neighbours are equal before
the set is exhausted (`OwnableSettles`), so that the last is a fixed point, and a type
outside it is claimed only by lists outside it. Of the install order the invariant is
`Greedy`: each prefix takes, of the assets that are ready, the soonest. If it stops short,
no order is sound or two assets share a name (`GreedyCovers`, `UnclashedCovers`); if not,
no sound order has a lower `order` where the two first differ (`GreedyIsFirst`).

*Two sets of rules.* The other three compare predicates written apart. `CallsAreAnswered`
follows a route from the form through `Resolve` into the entry the broker loads and back.
`UsesGranted` goes through the grants one by one. `GapsAreNamed` takes an accepted form
through `ToConfig` field by field (`FormAdapter`: its methods are the form's, resolved,
and those the generator adds) and shows each conjunct of `Validate` to be a rule of the
form or the negation of a lapse (`FormRoute`, `FormAssets`, `FormNames`,
`FormBackendPasses`). `ConfigsMethods` and `ResolvedMethods` say what a resolved
specification has in common with what was written.

*The hint.* `HintUnlocks` is liveness, but all of it that is not fairness is proved: while
the key is missing the agent has a call to make that stores something (`HintLeadsOn`, by
the five ways `SignupMethodName` finds a name), this stays so (`HintHolds`), and the first
such call stores the very key the gate asks for (`HintStepUnlocks`, from `OneKey`).

Not proved, only model-checked: the three liveness properties themselves
(`EveryRequestAnswered`, `ExhaustedIsStopped`, `HintUnlocks`), of which the theorems above
have the steps; TLAPS has no means for fairness and `ENABLED`. Nor for induction over data
with the library's theorems, or for `RECURSIVE` operators, of which no module here has
one. Every invariant and every action property of a passing run is a theorem. Type
invariants are proved rather than run (`TypeCorrect` of each module), as are
`ForwardsWithinQuota`, `BuildingHasBuilder` and `MailboxWatched`.

## 6. Not modelled, and how to go on

The modules were written in the order in which the behaviour matters: money, data of
callers, publishing, signup, then the contract, the keys and the catalogue. Not modelled:

- **InsForge signup**: the gate and the ledger are those of `Signup`; a project that is
  created before its key is fetched, and the access token its goroutines share, would be
  a module beside it. A restart of the mail server in `OtpMail` belongs with it.
- **x402**: one call pays at most once by its straight line of code; choosing an offer is
  a function worth an operator and a run.
- **Reference scanning** in `tenancy.go` (duplicate keys in JSON, multipart parts, paths):
  character-level parsing, of which `Tenancy` has the result, a set of references.
- **The balance route's token bucket** and **`last_mint` in seconds**: real time, where
  `ManagedCall` has one bit.
- **The adapters' child guard, staging and HTTP code, the generator's rendering, the CLI
  commands but verify-update, packaging, the multipart kit, mails and pages, the metadata
  API, the schema migration, demos, next steps and the broker's test tools**: I/O,
  wording, or no state that outlives a call.
- **Signatures and access keys** are taken as having identified the caller.

Worth proving next: that every signup and every task of the publish server comes nearer to
its end with each step, as `StepsLeft` does it for a request.

Runs are few on purpose: what is proved is not also run unless the run's mutants say
something about the code, and a divergence that section 4 can state needs no run.
