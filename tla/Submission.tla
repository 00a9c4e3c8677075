----------------------------- MODULE Submission -----------------------------
(***************************************************************************)
(* The publisher's form (internal/publish/submission.go): what Validate    *)
(* accepts, the adapter specification ToConfig makes of it, and the broker *)
(* registry entry of a managed app (internal/publish/broker_register.go).  *)
(*                                                                         *)
(* The form trims the texts it looks at and hands the untrimmed ones on.   *)
(* A name has pad = "lead" or "trail" when a blank is around it; a URL has *)
(* ok = FALSE when one is before it.                                       *)
(***************************************************************************)
EXTENDS AdapterConfig

FormMethods ==
    [name : MethodNames, latency : STRING, descr : BOOLEAN, timeout : STRING,
     http : [verb : STRING, path : Paths, capture : STRING, public : BOOLEAN,
             save : Optional([path : BOOLEAN, secret : STRING, start : Optional(MethodNames)])],
     cli : [args : BOOLEAN, flags : BOOLEAN, pass : BOOLEAN], local : Optional(STRING),
     signup : Optional([step : STRING, url : Urls, brokerUrl : Urls, secret : STRING]),
     params : SUBSET [text : STRING, pad : BOOLEAN, in : STRING]]

Submissions ==
    [id : STRING, version : BOOLEAN, descr : BOOLEAN, email : BOOLEAN, extras : BOOLEAN,
     backend : [type : STRING, baseUrl : Urls, cloudUrl : Urls, brokerUrl : Urls,
                command : SUBSET Nat, auth : STRING, headers : BOOLEAN,
                provider : STRING, urlSecret : STRING],
     methods : Seq(FormMethods), assets : Seq(Assets)]

IsCLI(s)    == s.backend.type = "cli"
IsHybrid(s) == s.backend.type = "hybrid"
IsHTTP(s)   == ~IsCLI(s) /\ ~IsHybrid(s)

BrokerFronted(s) == ~IsCLI(s) /\ s.backend.auth \in {"managed", "provisioned"}
PerUserKeys(s)   == s.backend.auth = "provisioned"
CloudBase(b)     == IF b.cloudUrl # NoUrl THEN b.cloudUrl ELSE b.baseUrl

\* reURL, on the trimmed text.
WebUrl(u) == u.scheme \in {"http", "https"} /\ u.host # ""

Declared(s) == Range(s.methods)

HasSignupRoute(m) == m.signup # {}
HasLocalRoute(m)  == m.local \ {""} # {}
HasHTTPRoute(m)   == m.http.path.abs \/ m.http.path.segs # <<>>
HasCLIRoute(m)    == m.cli.pass \/ m.cli.args \/ m.cli.flags

(***************************************************************************)
(* Validate.                                                               *)
(***************************************************************************)
HasCommand(b) == b.command \notin {{}, {0}}

SubBackendOK(s) ==
    LET b == s.backend IN
    CASE IsCLI(s)    -> HasCommand(b)
      [] IsHybrid(s) -> /\ BrokerFronted(s)
                        /\ (\E m \in Declared(s) : HasCLIRoute(m)) => HasCommand(b)
                        /\ PerUserKeys(s) => WebUrl(CloudBase(b))
      [] OTHER       -> WebUrl(b.baseUrl)

SubCLIOK(m) == IF m.cli.pass THEN ~m.cli.args /\ ~m.cli.flags ELSE m.cli.args \/ m.cli.flags

SubParamsOK(m) ==
    LET holes == {h.text : h \in Placeholders(m.http.path)} IN
    \A p \in m.params :
        p.text # "" /\ p.in # "" =>
            /\ p.in \in {"query", "path", "path_raw", "body", "body_raw", "header"}
            /\ p.in \in {"path", "path_raw"} => p.text \in holes

SubHTTPOK(m) == m.http.path.abs /\ SubParamsOK(m)

SubSignupOK(m) ==
    /\ \A g \in m.signup : SignupStepOK(g)
    /\ ~HasHTTPRoute(m) /\ ~HasCLIRoute(m) /\ ~HasLocalRoute(m)

SubLocalOK(m) == ~HasHTTPRoute(m) /\ ~HasCLIRoute(m)

SubRouteOK(s, m) ==
    CASE IsHybrid(s) -> IF HasCLIRoute(m) THEN ~HasHTTPRoute(m) /\ SubCLIOK(m)
                                          ELSE HasHTTPRoute(m) /\ SubHTTPOK(m)
      [] IsCLI(s)    -> SubCLIOK(m)
      [] OTHER       -> IF HasSignupRoute(m) THEN SubSignupOK(m)
                        ELSE IF HasLocalRoute(m) THEN SubLocalOK(m) ELSE SubHTTPOK(m)

SubArtifactOK(a) ==
    /\ a.role # "bad" /\ a.unpack # "bad" /\ a.plat # "bad" /\ a.sha
    /\ IF a.url = NoUrl THEN a.file ELSE a.url.scheme = "https" /\ a.url.host # ""
    /\ a.path.form = "rel"

\* Mutant: two assets of a platform may have one place in the order.
SubArtifactsOKTies(s) ==
    s.assets # <<>> => ~IsHTTP(s) /\ \A a \in Range(s.assets) : SubArtifactOK(a)

SubArtifactsOK(s) ==
    s.assets # <<>> =>
        /\ ~IsHTTP(s)
        /\ \A a \in Range(s.assets) : SubArtifactOK(a)
        /\ \A i, j \in DOMAIN s.assets :
              i # j /\ s.assets[i].plat = s.assets[j].plat =>
                  s.assets[i].order # s.assets[j].order

Accepted(s) ==
    /\ s.id = "pilot" /\ s.version /\ s.descr /\ s.email /\ s.extras
    /\ SubBackendOK(s) /\ SubArtifactsOK(s)
    /\ s.methods # <<>>
    /\ \A i, j \in DOMAIN s.methods :
          i # j => s.methods[i].name.word # s.methods[j].name.word
    /\ \A m \in Declared(s) :
          /\ m.name.own /\ m.latency \in {"fast", "med", "slow"} /\ m.descr
          /\ SubRouteOK(s, m)

(***************************************************************************)
(* ToConfig.                                                               *)
(***************************************************************************)
ParamName(p) == [text |-> p.text, pad |-> p.pad]
Unnamed(p)   == p.text = "" /\ ~p.pad

ConfigRoute(m) ==
    LET placed == {p \in m.params : ~Unnamed(p) /\ p.in # ""}
    IN  [Route(Default(m.http.verb, "GET"), m.http.path) EXCEPT
            !.capture = m.http.capture, !.public = m.http.public, !.save = m.http.save,
            !.in = [n \in {ParamName(p) : p \in placed} |->
                        (CHOOSE p \in placed : ParamName(p) = n).in]]

\* The one route a declared method has.
MethodRoute(s, m) ==
    IF HasSignupRoute(m) THEN "signup"
    ELSE IF HasLocalRoute(m) THEN "local"
    ELSE IF IsCLI(s) \/ (IsHybrid(s) /\ HasCLIRoute(m)) THEN "cli" ELSE "http"

ConfigMethod(s, m) ==
    LET At(route, value) == IF MethodRoute(s, m) = route THEN value ELSE {}
    IN  [BareMethod(m.name) EXCEPT
            !.duration = m.latency, !.timeout = m.timeout,
            !.params = {ParamName(p) : p \in {q \in m.params : ~Unnamed(q)}},
            !.signup = At("signup", m.signup), !.local = At("local", m.local),
            !.cli = At("cli", {m.cli}), !.http = At("http", {ConfigRoute(m)})]

\* The fields of the form that reach the specification, by backend type.
ConfigBackend(s) ==
    LET b    == s.backend
        none == [type |-> "", baseUrl |-> NoUrl, command |-> {}, auth |-> "",
                 brokerUrl |-> NoUrl, urlSecret |-> "", headers |-> FALSE,
                 x402 |-> {}, mcp |-> {}]
    IN  CASE IsCLI(s)    -> [none EXCEPT !.type = "cli", !.command = b.command]
          [] IsHybrid(s) -> [none EXCEPT !.type = "hybrid", !.command = b.command,
                                         !.auth = b.auth, !.brokerUrl = b.brokerUrl,
                                         !.headers = b.headers /\ ~BrokerFronted(s)]
          [] OTHER       -> [none EXCEPT !.type = "http", !.baseUrl = b.baseUrl,
                                         !.auth = b.auth, !.urlSecret = b.urlSecret,
                                         !.headers = b.headers /\ ~BrokerFronted(s)]

ToConfig(s) ==
    Resolve([id |-> s.id, version |-> s.version, descr |-> s.descr,
             backend |-> ConfigBackend(s),
             methods |-> [i \in DOMAIN s.methods |-> ConfigMethod(s, s.methods[i])],
             assets  |-> s.assets])

(***************************************************************************)
(* BrokerEntry: upstream, the names of the secrets it needs, and the paths *)
(* the broker forwards.  Allow patterns lose the blank behind a path.      *)
(***************************************************************************)
AllowPaths(s) ==
    {m.http.path.segs : m \in {n \in Declared(s) : HasHTTPRoute(n)}}

AppEntry(name, upstream, allow) ==
    [id |-> name, upstream |-> upstream, keyEnv |-> <<name, "MASTER_KEY">>,
     allow |-> allow, header |-> TRUE, credit |-> FALSE, accessKey |-> FALSE,
     provision |-> {}, tenancy |-> {}]

BrokerEntry(s, name) ==
    IF PerUserKeys(s)
    THEN [AppEntry(name, CloudBase(s.backend).host # "", AllowPaths(s)) EXCEPT
            !.header = FALSE,
            !.provision = {[provider  |-> s.backend.provider,
                            secretEnv |-> <<name, "DERIVE_SECRET">>,
                            adminEnv  |-> <<name, "ADMIN_KEY">>]}]
    ELSE AppEntry(name, s.backend.baseUrl # NoUrl, AllowPaths(s))
=============================================================================
