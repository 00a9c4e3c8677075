------------------------------ MODULE Contract ------------------------------
(***************************************************************************)
(* From the form to a call: a publisher's form is accepted, turned into an *)
(* adapter specification and built (publish-server), or a specification is *)
(* written by hand and checked (pilot-app); a broker-fronted app is        *)
(* registered in apps.json and served once the broker has loaded the file; *)
(* the adapter of a built app runs on a host, where an agent follows its   *)
(* signup hint.                                                            *)
(*                                                                         *)
(* One app is followed from its form; the entries of other apps            *)
(* (Neighbours) are written to the file beside it.  The broker process     *)
(* reads the secrets of the environment it was started with, so a secret   *)
(* set later is seen by the next start only.                               *)
(***************************************************************************)
EXTENDS Submission, AppRegistry

CONSTANTS
    Forms,      \* submissions a publisher may file
    Specs,      \* specifications an author may write
    Neighbours, \* registry entries of other apps
    AccessKeys  \* are broker access keys configured?

ASSUME FormsAssumption == Forms \subseteq Submissions
ASSUME SpecsAssumption == \A spec \in Specs : Authored(spec)
ASSUME NeighboursAssumption == \A e \in Neighbours : \A t \in e.tenancy : IsFiniteSet(t.list)
ASSUME AccessKeysAssumption == AccessKeys \in BOOLEAN

VARIABLES
    form,    \* the submission under review, {} or {s}
    stage,   \* how far it is
    cfg,     \* its adapter specification, {} or {c}
    file,    \* the entries in apps.json
    live,    \* the entries the broker routes by
    procEnv, \* the secrets the broker process was started with
    opsEnv,  \* the secrets set for its next start
    up,      \* is the broker running?
    keys,    \* secrets.json of the host the adapter runs on
    prov     \* hybrid adapter process: has it asked for its cloud key?

vars == <<form, stage, cfg, file, live, procEnv, opsEnv, up, keys, prov>>
app    == <<form, stage, cfg>>
broker == <<file, live, procEnv, opsEnv, up>>
host   == <<keys, prov>>

AppName == "app"

Init ==
    /\ form = {} /\ stage = "none" /\ cfg = {}
    /\ file = {} /\ live = {} /\ up = TRUE
    /\ procEnv = {} /\ opsEnv = {}
    /\ keys = {} /\ prov = "not_asked"

(***************************************************************************)
(* The publish server and the command line tool.                           *)
(***************************************************************************)
Submit(s) ==
    /\ stage = "none"
    /\ form' = {s}
    /\ stage' = IF Accepted(s) THEN "case" ELSE "rejected"
    /\ UNCHANGED <<cfg, broker, host>>

\* buildRelease builds ToConfig's result; Validate is not called on the way.
Build ==
    /\ stage = "case"
    /\ cfg' = {ToConfig(s) : s \in form}
    /\ stage' = IF \A c \in cfg' : Generates(c) THEN "built" ELSE "build_failed"
    /\ UNCHANGED <<form, broker, host>>

Author(spec) ==
    /\ stage = "none"
    /\ cfg' = {Resolve(spec)}
    /\ stage' = IF Validate(Resolve(spec)) THEN "scaffolded" ELSE "spec_error"
    /\ UNCHANGED <<form, broker, host>>

Register ==
    /\ stage = "built"
    /\ \E s \in form :
          /\ BrokerFronted(s)
          /\ file' = {e \in file : e.id # AppName} \cup {BrokerEntry(s, AppName)}
    /\ stage' = "registered"
    /\ UNCHANGED <<form, cfg, live, procEnv, opsEnv, up, host>>

(***************************************************************************)
(* The broker's operators.                                                 *)
(***************************************************************************)
Secrets(e) ==
    {e.keyEnv} \cup {p.secretEnv : p \in e.provision}
        \cup {p.adminEnv : p \in {q \in e.provision : q.provider = "tokenmint"}}

SetSecret(k) ==
    /\ k \notin opsEnv
    /\ opsEnv' = opsEnv \cup {k}
    /\ UNCHANGED <<app, file, live, procEnv, up, host>>

WriteNeighbour(e) ==
    /\ stage = "registered"
    /\ file' = {x \in file : x.id # e.id} \cup {e}
    /\ UNCHANGED <<app, live, procEnv, opsEnv, up, host>>

\* Mutants: the file is installed before it is checked; the entries that do
\* not load are left out.
ReloadUnchecked == up /\ live' = file /\ UNCHANGED <<app, file, procEnv, opsEnv, up, host>>
ReloadWhatLoads ==
    /\ up
    /\ live' = {e \in file : EntryLoads(e, procEnv)}
    /\ UNCHANGED <<app, file, procEnv, opsEnv, up, host>>

\* SIGHUP: a file that does not load leaves the registry as it is.
Reload ==
    /\ up
    /\ live' = IF FileLoads(file, procEnv) THEN file ELSE live
    /\ UNCHANGED <<app, file, procEnv, opsEnv, up, host>>

\* main: the file must load, and access keys must exist if an app asks for them.
Boots(entries, env) ==
    FileLoads(entries, env) /\ ((\E e \in entries : e.accessKey) => AccessKeys)

Restart ==
    /\ up' = Boots(file, opsEnv)
    /\ live' = IF up' THEN file ELSE {}
    /\ procEnv' = opsEnv
    /\ UNCHANGED <<app, file, opsEnv, host>>

(***************************************************************************)
(* The adapter on a host.  requireKey stops a backend call that is not     *)
(* public while the app's key is missing; signup routes are not stopped.   *)
(***************************************************************************)
Runs == stage \in {"built", "registered", "scaffolded"} /\ \A c \in cfg : Starts(c)

Callable(c, m) ==
    \A r \in m.http : \/ r.public \/ r.multipart # {}
                      \/ AuthSecretKey(c) \subseteq keys

\* The keys a call of a method stores: the answer of a multipart call is not searched.
Stored(m) ==
    {s.secret : s \in {t \in m.signup : Mints(t)}}
        \cup {k.secret : k \in UNION {r.save : r \in {x \in m.http : x.multipart = {}}}}

\* A verify call needs the register call's mailbox; a call that saves a key
\* is reached from the method its Start names.
Follows(m, n) ==
    \/ m = n
    \/ (\E s \in m.signup : s.step = "register") /\ \E s \in n.signup : s.step = "verify"
    \/ \E k \in SaveKeys(n) : m.name \in k.start

\* An agent answered "no key yet" calls the method the hint names, then what
\* that leads to.  Signup routes and the answer are those of http adapters.
FollowHint(n) ==
    /\ Runs
    /\ \E c \in cfg :
          /\ c.backend.type = "http" /\ HasKeyMintSignup(c)
          /\ n \in Methods(c) /\ Callable(c, n)
          /\ \E m \in Methods(c) :
                m.name \in SignupMethodName(c) /\ Callable(c, m) /\ Follows(m, n)
    /\ keys' = keys \cup Stored(n)
    /\ UNCHANGED <<app, broker, prov>>

HostStep == \E c \in cfg : \E n \in Methods(c) : FollowHint(n) /\ keys' # keys

\* EnsureProvisioned asks once per process; the answer, good or bad, is kept
\* until the process ends.  A key in secrets.json saves the next the question.
CloudKey == "CLOUD_KEY"
BrokerRoutes(path) == up /\ \E e \in live : e.id = AppName /\ Routed(e, path)

AskForCloudKey ==
    /\ Runs /\ prov = "not_asked"
    /\ \E c \in cfg : c.backend.type = "hybrid"
    /\ LET got == CloudKey \in keys \/ BrokerRoutes(<<<<"_provision">>>>)
       IN  /\ prov' = IF got THEN "ok" ELSE "failed"
           /\ keys' = IF got THEN keys \cup {CloudKey} ELSE keys
    /\ UNCHANGED <<app, broker>>

AdapterExits ==
    /\ prov # "not_asked"
    /\ prov' = "not_asked"
    /\ UNCHANGED <<app, broker, keys>>

Next ==
    \/ \E s \in Forms : Submit(s)
    \/ \E spec \in Specs : Author(spec)
    \/ Build \/ Register
    \/ \E e \in file : \E k \in Secrets(e) : SetSecret(k)
    \/ \E e \in Neighbours : WriteNeighbour(e)
    \/ Reload \/ Restart
    \/ HostStep
    \/ AskForCloudKey \/ AdapterExits

Spec == Init /\ [][Next]_vars /\ WF_vars(HostStep)
-----------------------------------------------------------------------------
(***************************************************************************)
(* Properties.                                                             *)
(***************************************************************************)
\* Every variable has its type; one submission, and one specification, at most.
TypeOK ==
    /\ stage \in {"none", "case", "rejected", "built", "build_failed", "registered",
                  "scaffolded", "spec_error"}
    /\ form \subseteq Forms /\ \A s, t \in form : s = t
    /\ cfg \subseteq {ToConfig(s) : s \in Forms} \cup {Resolve(spec) : spec \in Specs}
    /\ \A c, d \in cfg : c = d
    /\ up \in BOOLEAN
    /\ prov \in {"not_asked", "ok", "failed"}

\* The faults the form lets through although the specification's own
\* Validate refuses them.
NameLapse(s) == \E m \in Declared(s) : m.name.pad = "lead" \/ m.name = OwnName("help")
TimeLapse(s) == \E m \in Declared(s) : m.timeout = "bad"
UrlLapse(s)  == IsHTTP(s) /\ ~s.backend.baseUrl.ok
HTTPLapse(s, m) ==
    LET r == ConfigRoute(m) IN
    \/ r.verb \notin {"GET", "POST", "PATCH", "PUT", "DELETE"}
    \/ ~SaveKeyOK(ToConfig(s), r)
    \/ ~(Placeholders(m.http.path) \subseteq ConfigMethod(s, m).params)
    \/ \E p \in DOMAIN r.in : p.pad /\ r.in[p] \notin {"query", "body", "body_raw", "header"}
RouteLapse(s, m) ==
    \/ ~IsHTTP(s) /\ (HasSignupRoute(m) \/ HasLocalRoute(m))
    \/ HasSignupRoute(m) /\ BrokerFronted(s)
    \/ ConfigMethod(s, m).http # {} /\ HTTPLapse(s, m)
AssetLapse(s) ==
    \/ \E a \in Range(s.assets) : ~a.url.ok
    \/ \E i, j \in DOMAIN s.assets :
          i # j /\ s.assets[i].plat = s.assets[j].plat /\ s.assets[i].path = s.assets[j].path
    \/ ~Installable(s)
FormLapse(s) ==
    \/ NameLapse(s) \/ TimeLapse(s) \/ UrlLapse(s) \/ AssetLapse(s)
    \/ \E m \in Declared(s) : RouteLapse(s, m)

(***************************************************************************)
(* The form and the specification apply their rules apart (submission.go:  *)
(* 319-632, config.go:1309-1722).  An accepted form makes a specification  *)
(* Validate accepts, unless it has one of the named faults: nothing else   *)
(* that Validate refuses passes the form.                                  *)
(***************************************************************************)
FormGapsAreNamed ==
    \A s \in form : stage # "rejected" => (Validate(ToConfig(s)) <=> ~FormLapse(s))

\* The orders in which every asset of a platform follows what it depends on.
SoundOrders(assets, plat) ==
    LET here == {i \in DOMAIN assets : assets[i].plat = plat}
        Before(o, k) == {AssetName(assets[o[j]]) : j \in 1..(k - 1)}
    IN  {o \in [1..Cardinality(here) -> here] :
            /\ Range(o) = here
            /\ \A k \in DOMAIN o : assets[o[k]].deps \subseteq Before(o, k)}

(***************************************************************************)
(* The install order of ResolveAssets (config.go:1742-1796) is, of all     *)
(* orders that put every asset behind its dependencies, the one that takes *)
(* the lowest `order` first; and none is found only when there is none, or *)
(* when two assets of a platform go by one name.                           *)
(***************************************************************************)
InstallOrderSound ==
    \A c \in cfg : \A plat \in AssetPlatforms(c.assets) :
        LET a     == c.assets
            here  == {i \in DOMAIN a : a[i].plat = plat}
            clash == \E i, j \in here : i # j /\ AssetName(a[i]) = AssetName(a[j])
            Earlier(o, p) ==
                \E k \in DOMAIN o : /\ \A j \in 1..(k - 1) : o[j] = p[j]
                                    /\ a[o[k]].order < a[p[k]].order
            sound == SoundOrders(a, plat)
        IN  /\ clash \/ sound = {} => ResolveAssets(a, plat) = {}
            /\ ~clash /\ sound # {} =>
                  \E o \in ResolveAssets(a, plat) :
                      /\ o \in sound
                      /\ \A p \in sound : ~Earlier(p, o)

\* The host of the backend is granted for another reason than a signup step.
BackendGranted(c) ==
    LET base == AdapterBackendHost(c) IN
    \/ HasHTTPMethods(c)
    \/ HasMCP(c) /\ base \in {Hostname(b.url) : b \in c.backend.mcp}
    \/ base \in AssetHosts(c)

\* The specifications whose adapter does what its manifest does not grant.
GrantLapse(c) ==
    \/ /\ c.backend.type = "http" /\ ~BackendGranted(c)
       /\ \E m \in Methods(c) : \E s \in m.signup : AdapterBackendHost(c) \in Dialled(s)
    \/ c.backend.type = "http" /\ c.backend.urlSecret # "" /\ ~HasSignup(c)
          /\ ~Provisioned(c) /\ ~NeedsSecrets(c)
    \/ c.backend.type = "http" /\ c.backend.auth = "managed" /\ c.backend.headers
    \/ c.backend.type = "hybrid"
          /\ (~BackendGranted(c) \/ (~Provisioned(c) /\ ~HasSignup(c)))

(***************************************************************************)
(* The manifest's grants are derived from the specification apart from the *)
(* code that uses them (manifest.json.tmpl, SignupHosts config.go:449-468, *)
(* main.go.tmpl).  Every dial, file, signature and payment of a valid      *)
(* adapter is granted, but for the named specifications: a signup that     *)
(* calls the backend's own host in an app without http methods; a backend  *)
(* URL or header read from the secrets of an app that is granted none; a   *)
(* hybrid app that caches a cloud key it may not write, or asks a broker   *)
(* it may not call.                                                        *)
(***************************************************************************)
UsesAreGranted ==
    \A c \in cfg : Validate(c) => (Uses(c) \subseteq Grants(c) <=> ~GrantLapse(c))

\* One name for the key, nothing on the way to it behind the key, no key in the
\* answer of a multipart call, and a registration that can be verified.
SignupCoherent(c) ==
    LET Open(m)   == \A r \in m.http : r.public \/ r.multipart # {}
        AtStep(x) == {m \in Methods(c) : \E s \in m.signup : s.step = x}
    IN  /\ \A m, n \in Methods(c) : Minted(m) # {} /\ Minted(n) # {} => Minted(m) = Minted(n)
        /\ \A m \in Methods(c) : SaveKeys(m) # {} =>
              /\ Open(m) /\ \A r \in m.http : r.multipart = {}
              /\ \A k \in SaveKeys(m) : \A n \in Methods(c) : n.name \in k.start => Open(n)
        /\ AtStep("register") # {} <=> AtStep("verify") # {}

(***************************************************************************)
(* The answer "no key yet" names a method (SignupMethodName config.go:     *)
(* 358-383) that is looked for apart from the secret requireKey asks for   *)
(* (AuthSecretKey, 344-354).  On a valid specification whose signup is     *)
(* coherent, an agent that calls the named method, and what that leads to, *)
(* ends with the secret stored.                                            *)
(***************************************************************************)
HintApplies ==
    Runs /\ \A c \in cfg :
              c.backend.type = "http" /\ HasKeyMintSignup(c) /\ Validate(c) /\ SignupCoherent(c)
Unlocked == \A c \in cfg : AuthSecretKey(c) \subseteq keys
HintUnlocks == HintApplies ~> Unlocked

\* The path an adapter dials for a route.  An http adapter fills the
\* placeholders; a hybrid one sends them as they are written.
CallPath(c, r) ==
    LET Text(seg) == CASE seg.kind = "lit" \/ c.backend.type = "hybrid" -> Literally(seg)
                       [] seg.kind = "hole" /\ c.backend.type # "hybrid" -> <<"v">>
                       [] OTHER                                          -> <<"v", seg.text>>
        last == Len(r.path.segs)
    IN  [i \in 1..last |-> IF i = last /\ r.path.pad THEN Append(Text(r.path.segs[i]), " ")
                                                    ELSE Text(r.path.segs[i])]

Answered(c, r) ==
    /\ c.backend.type = "hybrid" => prov = "ok" /\ ~Templated(r.path.segs)
    /\ BrokerRoutes(CallPath(c, r))

\* Another path of the app has a placeholder where this call differs.
LetThrough(s, path) ==
    \E segs \in AllowPaths(s) :
        (\E i \in DOMAIN segs : segs[i].kind = "hole") /\ SegmentsMatch(segs, path)

\* The calls the registered entry does not answer.
CallLapse(s, c, r) ==
    LET segs    == r.path.segs
        literal == segs # <<>> /\ segs[Len(segs)].kind # "hole"
    IN  \/ c.backend.type = "hybrid" /\ (prov # "ok" \/ Templated(segs))
        \/ /\ Provisioned(c)
           /\ r.path.pad \/ Len(segs) # 1 \/ segs[1].kind # "lit"
                 \/ segs[1].text \notin ReservedRoutes
        \/ /\ ~Provisioned(c) /\ ~LetThrough(s, CallPath(c, r))
           /\ \/ segs = BalancePath.segs /\ segs \notin AllowPaths(s)
              \/ r.path.pad /\ literal
              \/ \E i \in DOMAIN segs : segs[i].kind = "part"

(***************************************************************************)
(* The adapter's routes and the broker's allow list come from one form by  *)
(* two ways (ToConfig submission.go:634-783, BrokerEntry                   *)
(* broker_register.go:40-119, Resolve config.go:1060-1246).  Once the      *)
(* entry is live every cloud call of the adapter is let through, but for   *)
(* the named ones: a provisioned app's own paths, whatever follows a       *)
(* failed first request for the cloud key, and, unless another path of the *)
(* app has a placeholder there, an injected balance call, a blank behind a *)
(* path and a placeholder inside a segment.                                *)
(***************************************************************************)
CallsAnswered ==
    \A s \in form : \A c \in cfg :
        stage = "registered" /\ up /\ BrokerEntry(s, AppName) \in live =>
            \A r \in UNION {m.http : m \in Methods(c)} :
                Answered(c, r) <=> ~CallLapse(s, c, r)

(***************************************************************************)
(* A reload that fails keeps every app (cmd/broker/main.go:84-98): as long *)
(* as the broker runs, no app it serves stops being served, whatever was   *)
(* written to the file beside it.                                          *)
(***************************************************************************)
ReloadKeepsApps ==
    [][up' => {e.id : e \in live} \subseteq {e.id : e \in live'}]_<<live, up>>

(***************************************************************************)
(* A file the running broker has loaded is one it can be started on again, *)
(* although secrets are read from the environment at each load, but for an *)
(* app that asks for an access key when there are none: the start checks   *)
(* that (main.go:45-49), the reload does not.                              *)
(***************************************************************************)
LoadedFileBoots ==
    up /\ live = file =>
        Boots(file, opsEnv) \/ (~AccessKeys /\ \E e \in file : e.accessKey)

(***************************************************************************)
(* A tenancy block the broker serves by lets callers own every type its    *)
(* parameters name (validateTenancy tenancy.go:614-667), unless the type   *)
(* is only claimed from a list whose links are themselves never owned.     *)
(***************************************************************************)
StrandedOnlyInCircle ==
    \A e \in live : \A t \in e.tenancy : \A ty \in t.params \ Ownable(t) :
        \E l \in t.list : l.claimAs = ty /\ l.owner \cap Ownable(t) = {}
=============================================================================
