--------------------------- MODULE AdapterConfig ---------------------------
(***************************************************************************)
(* The adapter specification of an app (internal/scaffold/config.go):      *)
(* what Resolve fills in, what Validate accepts, in which order the        *)
(* native assets are installed, what the generated manifest grants and     *)
(* what the generated adapter does.                                        *)
(*                                                                         *)
(* An optional value is a set of at most one element.  A URL is split into *)
(* scheme and host, with ok = FALSE for a text url.Parse refuses; a path   *)
(* into its segments.  Names of assets are numbers, in the alphabetical    *)
(* order of the names they stand for (0: no name).                         *)
(***************************************************************************)
EXTENDS Integers, Sequences, FiniteSets, FiniteSetsExt, SequencesExt

(***************************************************************************)
(* Values.                                                                 *)
(***************************************************************************)
Optional(S) == {t \in SUBSET S : \A x, y \in t : x = y}

Urls     == [scheme : STRING, host : STRING, ok : BOOLEAN]
MethodNames == [own : BOOLEAN, word : STRING, pad : {"no", "lead", "trail"}]
Segments == [kind : {"lit", "hole", "part"}, text : STRING]
Paths    == [abs : BOOLEAN, pad : BOOLEAN, segs : Seq(Segments)]
Assets   == [role : STRING, name : Nat, plat : STRING, file : BOOLEAN, url : Urls,
             sha : BOOLEAN, unpack : STRING, order : Int, deps : SUBSET Nat,
             path : [form : STRING, dir : STRING, base : Nat]]

NoUrl == [scheme |-> "", host |-> "", ok |-> TRUE]
Hostname(u) == IF u.ok THEN u.host ELSE ""
Absolute(u) == Hostname(u) # ""
Https(u)    == Absolute(u) /\ u.scheme = "https"

\* own: the name starts with the namespace and a dot; pad: a blank around it.
OwnName(word) == [own |-> TRUE, word |-> word, pad |-> "no"]

\* A segment is a literal, a placeholder ("hole"), or text with one in it ("part").
Placeholders(path) ==
    {[text |-> path.segs[i].text, pad |-> FALSE] :
        i \in {j \in DOMAIN path.segs : path.segs[j].kind \in {"hole", "part"}}}

Route(verb, path) ==
    [verb |-> verb, path |-> path, in |-> <<>>, capture |-> "",
     public |-> FALSE, save |-> {}, multipart |-> {}]

BareMethod(name) ==
    [name |-> name, kind |-> "", duration |-> "", timeout |-> "", params |-> {},
     http |-> {}, cli |-> {}, local |-> {}, signup |-> {}, mcp |-> {}, upload |-> ""]

\* A specification as it is read from its file, where no method is an upload step.
Authored(c) ==
    /\ DOMAIN c = {"id", "version", "descr", "backend", "methods", "assets"}
    /\ c.assets \in Seq(Assets)
    /\ c.methods \in Seq(Range(c.methods))
    /\ \A m \in Range(c.methods) :
          DOMAIN m = DOMAIN BareMethod(m.name) /\ m.upload = ""

BalancePath == [abs |-> TRUE, pad |-> FALSE,
                segs |-> <<[kind |-> "lit", text |-> "_pilot"],
                           [kind |-> "lit", text |-> "balance"]>>]

(***************************************************************************)
(* Questions the templates and Validate ask of a specification.            *)
(***************************************************************************)
Methods(c) == Range(c.methods)

Managed(c)     == c.backend.auth \in {"managed", "provisioned"}
Provisioned(c) == c.backend.auth = "provisioned"

SaveKeys(m) == UNION {r.save : r \in m.http}
Mints(s)    == s.step \in {"create", "verify", "broker", "set_key"}

\* The secrets.json keys a method fills with the app's key (at most one).
Minted(m) == LET bySignup == {s.secret : s \in {t \in m.signup : Mints(t)}}
             IN  IF bySignup # {} THEN bySignup ELSE {k.secret : k \in SaveKeys(m)}

HasSignup(c)        == \E m \in Methods(c) : m.signup # {} \/ SaveKeys(m) # {}
HasKeyMintSignup(c) == \E m \in Methods(c) : Minted(m) # {}
HasBrokerSignup(c)  == \E m \in Methods(c) : \E s \in m.signup : s.step = "broker"
HasHTTPMethods(c)   == \E m \in Methods(c) : m.http # {}
HasCLIMethods(c)    == \E m \in Methods(c) : m.cli # {}
HasMCP(c)           == \E m \in Methods(c) : m.mcp # {}
HasMultipart(c)     == \E m \in Methods(c) : \E r \in m.http : r.multipart # {}

\* The first method, in declaration order, of which P holds.
First(c, P(_)) ==
    LET found == {i \in DOMAIN c.methods : P(c.methods[i])}
    IN  IF found = {} THEN {} ELSE {c.methods[Min(found)]}

Either(s, t) == IF s # {} THEN s ELSE t

\* Mutant: the first signup step's secret, whether or not the step mints it.
AuthSecretKeyOfAnyStep(c) ==
    LET Named(m) == {t.secret : t \in m.signup} \cup {k.secret : k \in SaveKeys(m)}
    IN  UNION {Named(m) : m \in First(c, LAMBDA m : Named(m) # {})}

AuthSecretKey(c) == UNION {Minted(m) : m \in First(c, LAMBDA m : Minted(m) # {})}

\* The method the "no key yet" answer points to.
SignupMethodName(c) ==
    LET AtStep(steps) == First(c, LAMBDA m : \E s \in m.signup : s.step \in steps)
        Names(ms)     == {m.name : m \in ms}
        Issuer        == First(c, LAMBDA m : SaveKeys(m) # {})
        Starts        == UNION {k.start : k \in UNION {SaveKeys(m) : m \in Issuer}}
    IN  Either(Names(AtStep({"create"})),
        Either(Names(AtStep({"broker", "register"})),
        Either(Starts,
        Either(Names(Issuer), Names(AtStep({"set_key"}))))))

SharedBroker  == [scheme |-> "https", host |-> "broker", ok |-> TRUE]
BrokerBase(c) == IF c.backend.brokerUrl # NoUrl THEN c.backend.brokerUrl ELSE SharedBroker

AdapterBackendHost(c) ==
    Hostname(IF Managed(c) THEN BrokerBase(c) ELSE c.backend.baseUrl)

\* Mutant: the brokers signup steps call are forgotten.
SignupHostsOfUrls(c) ==
    {Hostname(s.url) : s \in UNION {m.signup : m \in Methods(c)}} \ {"", AdapterBackendHost(c)}

SignupHosts(c) ==
    LET urls == UNION {{s.url, s.brokerUrl} : s \in UNION {m.signup : m \in Methods(c)}}
    IN  {Hostname(u) : u \in urls} \ {"", AdapterBackendHost(c)}

StoresRead(c)    == UNION {m.local : m \in Methods(c)} \ {""}
StoresWritten(c) == {r.capture : r \in UNION {m.http : m \in Methods(c)}} \ {""}

AssetHosts(c) == {Hostname(a.url) : a \in Range(c.assets)} \ {""}

\* headers: some header value has a ${} placeholder.
NeedsSecrets(c) == c.backend.auth # "managed" /\ c.backend.headers

(***************************************************************************)
(* Resolve: defaults, then the methods the generator adds.                 *)
(***************************************************************************)
ArtifactUrl == [scheme |-> "https", host |-> "artifacts", ok |-> TRUE]

\* A method the generator adds, unless the author has one of that name.
Added(c, m) ==
    IF \A n \in Methods(c) : n.name # m.name THEN [c EXCEPT !.methods = Append(@, m)] ELSE c

UploadStep(word) == [BareMethod(OwnName(word)) EXCEPT !.upload = word]

WithUploads(c) ==
    IF HasMultipart(c)
    THEN Added(Added(Added(c, UploadStep("upload_begin")), UploadStep("upload_chunk")),
               UploadStep("upload_abort"))
    ELSE c

BalanceMethod == [BareMethod(OwnName("balance")) EXCEPT !.kind = "meta",
                                                        !.http = {Route("GET", BalancePath)}]

WithBalance(c) == IF Managed(c) /\ ~Provisioned(c) THEN Added(c, BalanceMethod) ELSE c

Default(value, default) == IF value = "" THEN default ELSE value

ResolvedMethod(m) ==
    [m EXCEPT !.kind     = Default(@, "utility"),
              !.duration = Default(@, "fast"),
              !.http     = {[r EXCEPT !.verb = Default(@, "GET")] : r \in @},
              !.signup   = {[s EXCEPT !.step = Default(@, "register")] : s \in @}]

Resolve(c) ==
    LET Part(mp)      == [file |-> Default(mp.file, "file"), blob |-> Default(mp.blob, "blob_id"),
                          max |-> IF mp.max = 0 THEN 24 ELSE mp.max]
        Upload(r)     == [r EXCEPT !.multipart = {Part(mp) : mp \in @}]
        parts         == [i \in DOMAIN c.methods |->
                            [c.methods[i] EXCEPT !.http = {Upload(r) : r \in @}]]
        Located(a)    == [a EXCEPT !.url = IF @ = NoUrl /\ a.file THEN ArtifactUrl ELSE @]
        defaults      == [c EXCEPT !.backend.type = Default(@, "http"),
                                   !.assets  = [i \in DOMAIN @ |-> Located(@[i])],
                                   !.methods = parts]
        complete      == WithBalance(WithUploads(defaults))
    IN  [complete EXCEPT !.methods = [i \in DOMAIN @ |-> ResolvedMethod(@[i])]]

\* The parameters of a route sent at loc (resolveParamLocs): placeholders are
\* always in the path.
Located(r, loc) ==
    {p \in DOMAIN r.in \ Placeholders(r.path) : r.in[p] = loc}

(***************************************************************************)
(* Native assets.                                                          *)
(***************************************************************************)
\* The name other assets' deps use.
AssetName(a) == IF a.name # 0 THEN a.name ELSE a.path.base

\* Mutant: the ready asset with the first name, whatever its order says.
ResolveAssetsByName(assets, plat) ==
    LET here == {i \in DOMAIN assets : assets[i].plat = plat}
        Name(i)  == AssetName(assets[i])
        Needs(n) == UNION {assets[i].deps : i \in {j \in here : Name(j) = n}}
        Less(i, j) == Name(i) < Name(j)
        out[n \in 0..Cardinality(here)] ==
            IF n = 0 THEN <<>>
            ELSE LET done  == {Name(i) : i \in Range(out[n - 1])}
                     ready == {i \in here : Name(i) \notin done /\ Needs(Name(i)) \subseteq done}
                 IN  IF ready = {} THEN out[n - 1]
                     ELSE Append(out[n - 1],
                                 CHOOSE i \in ready : \A j \in ready : ~Less(j, i))
        order == out[Cardinality(here)]
    IN  IF /\ \A i \in here : assets[i].deps \subseteq {Name(j) : j \in here}
           /\ Len(order) = Cardinality(here)
        THEN {order} ELSE {}

\* Kahn's algorithm over the assets of one platform: {} on an error, else
\* the install order, as indices into `assets`.
ResolveAssets(assets, plat) ==
    LET here == {i \in DOMAIN assets : assets[i].plat = plat}
        Name(i)  == AssetName(assets[i])
        Needs(n) == UNION {assets[i].deps : i \in {j \in here : Name(j) = n}}
        Less(i, j) == \/ assets[i].order < assets[j].order
                      \/ assets[i].order = assets[j].order /\ Name(i) < Name(j)
        out[n \in 0..Cardinality(here)] ==
            IF n = 0 THEN <<>>
            ELSE LET done  == {Name(i) : i \in Range(out[n - 1])}
                     ready == {i \in here : Name(i) \notin done /\ Needs(Name(i)) \subseteq done}
                 IN  IF ready = {} THEN out[n - 1]
                     ELSE Append(out[n - 1],
                                 CHOOSE i \in ready : \A j \in ready : ~Less(j, i))
        order == out[Cardinality(here)]
    IN  IF /\ \A i \in here : assets[i].deps \subseteq {Name(j) : j \in here}
           /\ Len(order) = Cardinality(here)
        THEN {order} ELSE {}

AssetPlatforms(assets) == {a.plat : a \in Range(assets)}

\* install.json can be written: every platform's order exists.
Installable(c) ==
    \A p \in AssetPlatforms(c.assets) : ResolveAssets(c.assets, p) # {}

(***************************************************************************)
(* Validate.                                                               *)
(***************************************************************************)
AssetOK(a) ==
    /\ a.role # "bad" /\ a.unpack # "bad" /\ a.plat # "bad" /\ a.sha
    /\ Https(a.url)
    /\ a.path.form = "rel"

AssetsOK(c) ==
    c.assets # <<>> =>
        /\ c.backend.type \in {"cli", "hybrid"}
        /\ \A a \in Range(c.assets) : AssetOK(a)
        /\ \A i, j \in DOMAIN c.assets :
              i # j /\ c.assets[i].plat = c.assets[j].plat =>
                  /\ c.assets[i].order # c.assets[j].order
                  /\ c.assets[i].path # c.assets[j].path
        /\ Installable(c)

BackendOK(c) ==
    LET b == c.backend IN
    /\ CASE b.type = "http"   -> Absolute(b.baseUrl)
         [] b.type = "cli"    -> b.command # {}
         [] b.type = "hybrid" -> (HasCLIMethods(c) => b.command # {}) /\ Managed(c)
         [] OTHER             -> FALSE
    /\ \A x \in b.x402 : b.type = "http" /\ x.cap # "zero"

MultipartOK(c, r) ==
    \A mp \in r.multipart :
        /\ c.backend.type = "http"
        /\ r.verb \in {"POST", "PATCH", "PUT"}
        /\ mp.blob # mp.file
        /\ \A p \in DOMAIN r.in : p = [text |-> mp.blob, pad |-> FALSE] => r.in[p] \in {"", "body"}
        /\ mp.max > 0
        /\ Located(r, "body_raw") = {}

SaveKeyOK(c, r) ==
    \A k \in r.save :
        /\ k.path /\ k.secret # ""
        /\ ~Managed(c)
        /\ \A start \in k.start : \E o \in Methods(c) : o.name = start

ParamsOK(m, r) ==
    /\ Placeholders(r.path) \subseteq m.params
    /\ \A p \in DOMAIN r.in :
          /\ r.in[p] \in {"query", "path", "path_raw", "body", "body_raw", "header"}
          /\ p \in m.params
          /\ r.in[p] \in {"path", "path_raw"} => p \in Placeholders(r.path)

HTTPMethodOK(c, m) ==
    /\ m.http # {}
    /\ \A r \in m.http :
          /\ r.path.abs
          /\ r.verb \in {"GET", "POST", "PATCH", "PUT", "DELETE"}
          /\ MultipartOK(c, r) /\ SaveKeyOK(c, r) /\ ParamsOK(m, r)

CLIMethodOK(m) ==
    /\ m.cli # {}
    /\ \A x \in m.cli : IF x.pass THEN ~x.args /\ ~x.flags ELSE x.args \/ x.flags

LocalMethodOK(m) == "" \notin m.local /\ m.http = {} /\ m.cli = {}

SignupStepOK(s) ==
    CASE s.step = "create"   -> Https(s.url) /\ s.secret # ""
      [] s.step = "register" -> Https(s.url)
      [] s.step = "verify"   -> Https(s.url) /\ s.secret # ""
      [] s.step = "broker"   -> Https(s.brokerUrl) /\ s.secret # ""
      [] s.step = "set_key"  -> s.secret # "" /\ (s.url # NoUrl => Https(s.url))
      [] s.step = "account"  -> s.secret # ""
      [] OTHER               -> FALSE

SignupMethodOK(c, m) == (\A s \in m.signup : SignupStepOK(s)) /\ ~Managed(c)

MCPMethodOK(c, m) ==
    /\ c.backend.mcp # {}
    /\ \A b \in c.backend.mcp :
          Hostname(b.url) # "" /\ (b.url.scheme = "https" \/ b.url.host = "localhost") /\ ~b.auth
    /\ \A t \in m.mcp : t.tool /\ (t.keep => t.wrap)
    /\ m.http = {} /\ m.cli = {} /\ m.local = {} /\ m.signup = {}

\* One method, by the backend's type and then by the route it declares.
HybridRouteOK(c, m) ==
    IF m.http # {} THEN m.cli = {} /\ HTTPMethodOK(c, m) ELSE CLIMethodOK(m)

HTTPRouteOK(c, m) ==
    /\ m.local = {} \/ m.http = {}
    /\ m.signup # {} => m.http = {} /\ m.local = {} /\ m.cli = {}
    /\ \/ m.upload # ""
       \/ m.mcp # {} /\ MCPMethodOK(c, m)
       \/ m.mcp = {} /\ m.signup # {} /\ SignupMethodOK(c, m)
       \/ m.mcp = {} /\ m.signup = {} /\ m.local # {} /\ LocalMethodOK(m)
       \/ m.mcp = {} /\ m.signup = {} /\ m.local = {} /\ HTTPMethodOK(c, m)

RouteOK(c, m) ==
    /\ c.backend.type = "cli" => CLIMethodOK(m)
    /\ c.backend.type = "hybrid" => HybridRouteOK(c, m)
    /\ c.backend.type = "http" => HTTPRouteOK(c, m)

MethodOK(c, m) ==
    /\ m.name.own /\ m.name.pad # "lead"
    /\ m.name # OwnName("help")
    /\ m.kind \in {"utility", "status", "meta"}
    /\ m.duration \in {"fast", "med", "slow"}
    /\ m.timeout # "bad"
    /\ RouteOK(c, m)

Validate(c) ==
    /\ c.id # "malformed" /\ c.version /\ c.descr
    /\ BackendOK(c) /\ AssetsOK(c)
    /\ c.methods # <<>>
    /\ \A i, j \in DOMAIN c.methods : i # j => c.methods[i].name # c.methods[j].name
    /\ \A m \in Methods(c) : MethodOK(c, m)

(***************************************************************************)
(* Generate: the templates read the route the backend's type promises, so  *)
(* a method without one ends the generation, as an install order that does *)
(* not exist does.                                                         *)
(***************************************************************************)
Generates(c) ==
    /\ Installable(c)
    /\ \A m \in Methods(c) :
          CASE c.backend.type = "cli"    -> m.cli # {}
            [] c.backend.type = "hybrid" -> m.http # {} \/ m.cli # {}
            [] OTHER                     -> TRUE
    /\ HasCLIMethods(c) => c.backend.command # {}

\* dur panics on the first text that is no duration, as the adapter starts.
Starts(c) == \A m \in Methods(c) : m.timeout # "bad"

\* What the generated manifest grants.
Grants(c) ==
    LET When(cond, set) == IF cond THEN set ELSE {}
        Dial(hosts)     == {<<"dial", h>> : h \in hosts}
    IN  When(NeedsSecrets(c) \/ Provisioned(c) \/ HasSignup(c), {<<"read", "secrets">>})
        \cup When(Provisioned(c) \/ HasSignup(c), {<<"write", "secrets">>})
        \cup When(HasMultipart(c), {<<"read", "blobs">>, <<"write", "blobs">>})
        \cup When(Managed(c) \/ HasBrokerSignup(c), {<<"sign", "self">>})
        \cup When(HasHTTPMethods(c), Dial({AdapterBackendHost(c)}))
        \cup When(HasMCP(c), Dial({Hostname(b.url) : b \in c.backend.mcp}))
        \cup Dial(SignupHosts(c))
        \cup When(HasCLIMethods(c), {<<"exec", n>> : n \in c.backend.command})
        \cup {<<"read store", s>> : s \in StoresRead(c) \cup StoresWritten(c)}
        \cup {<<"write store", s>> : s \in StoresWritten(c)}
        \cup When(c.assets # <<>>, {<<"read", "install">>, <<"write", "app">>} \cup Dial(AssetHosts(c)))
        \cup When(c.backend.x402 # {}, {<<"call", "wallet">>})

\* The hosts a signup step calls.
Dialled(s) ==
    CASE s.step \in {"create", "register", "verify"} -> {Hostname(s.url)}
      [] s.step = "broker"                            -> {Hostname(s.brokerUrl)}
      [] OTHER                                        -> {}

\* What the generated adapter does that the host asks a grant for.  Signup, upload,
\* store and tool handlers are generated for the http type only; a hybrid adapter asks
\* for its cloud key when its help is read, whatever its methods are.
Uses(c) ==
    LET When(cond, set) == IF cond THEN set ELSE {}
        http      == c.backend.type = "http"
        hybrid    == c.backend.type = "hybrid"
        Dial(u)   == <<"dial", Hostname(u)>>
    IN  When(http,
             {<<"dial", h>> : h \in UNION {Dialled(s) : s \in UNION {m.signup : m \in Methods(c)}}}
             \cup When(HasHTTPMethods(c), {<<"dial", AdapterBackendHost(c)>>})
             \cup When(HasMCP(c), {Dial(b.url) : b \in c.backend.mcp})
             \cup When(Managed(c) \/ HasBrokerSignup(c), {<<"sign", "self">>})
             \cup When(c.backend.headers \/ c.backend.urlSecret # "", {<<"read", "secrets">>})
             \cup When(HasSignup(c), {<<"read", "secrets">>, <<"write", "secrets">>})
             \cup When(HasMultipart(c), {<<"read", "blobs">>, <<"write", "blobs">>})
             \cup {<<"read store", s>> : s \in StoresRead(c) \cup StoresWritten(c)}
             \cup {<<"write store", s>> : s \in StoresWritten(c)}
             \cup When(c.backend.x402 # {}, {<<"call", "wallet">>}))
        \cup When(hybrid, {<<"read", "secrets">>, <<"write", "secrets">>, <<"sign", "self">>,
                           <<"dial", AdapterBackendHost(c)>>})
        \cup When(~http,
             When(HasCLIMethods(c), {<<"exec", n>> : n \in c.backend.command})
             \cup When(c.assets # <<>>, {<<"read", "install">>, <<"write", "app">>})
             \cup {Dial(a.url) : a \in Range(c.assets)})
=============================================================================
