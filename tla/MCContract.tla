----------------------------- MODULE MCContract -----------------------------
(***************************************************************************)
(* Instances of Contract.  The forms are families around a sound one, each *)
(* varying what one part of the code looks at: routes and parameters,      *)
(* signup steps, backends and secrets, native assets.                      *)
(***************************************************************************)
EXTENDS Contract

Web(h)     == [scheme |-> "https", host |-> h, ok |-> TRUE]
Lit(t)     == [kind |-> "lit", text |-> t]
Hole(t)    == [kind |-> "hole", text |-> t]
Embedded   == [kind |-> "part", text |-> "id"]
Path(segs) == [abs |-> TRUE, pad |-> FALSE, segs |-> segs]
NoPath     == [abs |-> FALSE, pad |-> FALSE, segs |-> <<>>]
NoCLI      == [args |-> FALSE, flags |-> FALSE, pass |-> FALSE]
ArgsCLI    == [NoCLI EXCEPT !.args = TRUE]

FormMethod(word) ==
    [name |-> OwnName(word), latency |-> "fast", descr |-> TRUE, timeout |-> "",
     http |-> [verb |-> "", path |-> Path(<<Lit(word)>>), capture |-> "",
               public |-> FALSE, save |-> {}],
     cli |-> NoCLI, local |-> {}, signup |-> {}, params |-> {}]
NoRoute(word)    == [FormMethod(word) EXCEPT !.http.path = NoPath]
ToolMethod(word) == [NoRoute(word) EXCEPT !.cli = ArgsCLI]

Base ==
    [id |-> "pilot", version |-> TRUE, descr |-> TRUE, email |-> TRUE, extras |-> TRUE,
     backend |-> [type |-> "http", baseUrl |-> Web("api"), cloudUrl |-> NoUrl,
                  brokerUrl |-> NoUrl, command |-> {}, auth |-> "", headers |-> FALSE,
                  provider |-> "", urlSecret |-> ""],
     methods |-> <<FormMethod("get")>>, assets |-> <<>>]

With(methods) == [Base EXCEPT !.methods = methods]

(***************************************************************************)
(* Routes, names and parameters.                                           *)
(***************************************************************************)
Param(t, pad, in) == [text |-> t, pad |-> pad, in |-> in]
Get == FormMethod("get")

NameVariants ==
    {[Get EXCEPT !.name = n] :
        n \in {OwnName("help"), OwnName("balance"), OwnName("upload_begin"),
               [OwnName("get") EXCEPT !.pad = "lead"], [OwnName("get") EXCEPT !.pad = "trail"],
               [OwnName("get") EXCEPT !.own = FALSE]}}
    \cup {[Get EXCEPT !.timeout = t] : t \in {"ok", "bad"}}
    \cup {[Get EXCEPT !.latency = "bad"]}
PathVariants ==
    {[Get EXCEPT !.http.path = p] :
        p \in {NoPath, Path(<<>>), [Path(<<Lit("get")>>) EXCEPT !.abs = FALSE],
               [Path(<<Lit("get")>>) EXCEPT !.pad = TRUE],
               Path(<<Lit("a"), Hole("id")>>), [Path(<<Lit("a"), Hole("id")>>) EXCEPT !.pad = TRUE],
               Path(<<Lit("a"), Embedded>>), Path(<<Lit("push")>>), Path(<<Lit("_balance")>>)}}
    \cup {[Get EXCEPT !.http.verb = v] : v \in {"POST", "FETCH"}}
    \cup {[Get EXCEPT !.cli = ArgsCLI], [Get EXCEPT !.local = {"store"}],
          [Get EXCEPT !.http.capture = "store"],
          [NoRoute("get") EXCEPT !.local = {"store"}], [NoRoute("get") EXCEPT !.local = {""}]}
ParamVariants ==
    {[Get EXCEPT !.http.path = Path(segs), !.params = ps] :
        segs \in {<<Lit("a"), Hole("id")>>, <<Lit("a"), Embedded>>, <<Lit("a")>>},
        ps \in {{}} \cup {{Param("id", pad, in)} : pad \in BOOLEAN, in \in {"", "path", "path_raw", "query", "bad"}}
                 \cup {{Param("", TRUE, "path")}, {Param("", FALSE, "path")},
                       {Param("id", FALSE, ""), Param("q", FALSE, "body_raw")}}}

SaveKey(path, secret, start) == [path |-> path, secret |-> secret, start |-> start]
SaveVariants ==
    {<<[Get EXCEPT !.http.save = {SaveKey(p, k, st)}, !.http.public = pub], FormMethod("begin")>> :
        p \in BOOLEAN, k \in {"", "KEY"}, pub \in BOOLEAN,
        st \in {{}, {OwnName("begin")}, {OwnName("gone")}}}
    \cup {<<[Get EXCEPT !.http.save = {SaveKey(TRUE, "KEY", {OwnName("begin")})}, !.http.public = TRUE],
            [FormMethod("begin") EXCEPT !.http.public = TRUE], FormMethod("use")>>}

RouteForms ==
    {With(<<m>>) : m \in NameVariants \cup PathVariants \cup ParamVariants}
    \cup {With(ms) : ms \in SaveVariants}
    \cup {With(<<m, FormMethod("get")>>) : m \in NameVariants}
    \cup {[Base EXCEPT !.backend.auth = "managed", !.methods = <<m>>] :
             m \in NameVariants \cup PathVariants}
    \cup {[Base EXCEPT !.backend.auth = "managed",
                       !.methods = <<[Get EXCEPT !.http.path = p],
                                     [FormMethod("any") EXCEPT !.http.path = Path(segs)]>>] :
             p \in {[Path(<<Lit("get")>>) EXCEPT !.pad = TRUE], Path(<<Embedded>>)},
             segs \in {<<Hole("x")>>, <<Hole("x"), Hole("y")>>}}
    \cup {[Base EXCEPT !.backend.baseUrl = u] :
             u \in {NoUrl, [Web("api") EXCEPT !.ok = FALSE], [Web("api") EXCEPT !.scheme = "ftp"]}}
    \cup {[Base EXCEPT !.backend.urlSecret = "URL", !.backend.headers = h] : h \in BOOLEAN}
    \cup {[Base EXCEPT !.id = "foreign"], [Base EXCEPT !.extras = FALSE], With(<<>>)}

(***************************************************************************)
(* Signup.                                                                 *)
(***************************************************************************)
SignupStep(step, url, bu, secret) ==
    [step |-> step, url |-> url, brokerUrl |-> bu, secret |-> secret]
Signup(word, sg) == [NoRoute(word) EXCEPT !.signup = {sg}]

Steps == {"create", "register", "verify", "broker", "account", "set_key", "sign_up"}
SignupForms ==
    {With(<<Signup("join", SignupStep(st, u, bu, k))>>) :
        st \in Steps, u \in {NoUrl, Web("api"), [Web("idp") EXCEPT !.scheme = "http"]},
        bu \in {NoUrl, Web("brk")}, k \in {"", "KEY"}}
    \cup {With(<<[FormMethod("join") EXCEPT !.signup = {SignupStep("create", Web("idp"), NoUrl, "KEY")}]>>)}
    \cup {With(<<Signup("one", SignupStep(a, Web("idp"), Web("brk"), "KEY")),
                 Signup("two", SignupStep(b, Web("api"), Web("brk"), k)),
                 [Get EXCEPT !.http.public = pub]>>) :
             a, b \in Steps \ {"sign_up"}, k \in {"KEY", "OTHER"}, pub \in BOOLEAN}
    \cup {[With(<<Signup("join", SignupStep("set_key", NoUrl, NoUrl, "KEY")), Get>>)
              EXCEPT !.backend.auth = a, !.backend.headers = TRUE] : a \in {"", "managed"}}

(***************************************************************************)
(* Local tools, hybrid apps and their secrets.                             *)
(***************************************************************************)
ToolForms ==
    {[With(<<m>>) EXCEPT !.backend.type = "cli", !.backend.command = cmd] :
        m \in {Get, ToolMethod("run"), [ToolMethod("run") EXCEPT !.cli.pass = TRUE],
               [ToolMethod("run") EXCEPT !.local = {"store"}],
               [ToolMethod("run") EXCEPT !.signup = {SignupStep("create", Web("idp"), NoUrl, "KEY")}]},
        cmd \in {{}, {0}, {1}}}
HybridForms ==
    {[With(ms) EXCEPT !.backend.type = "hybrid", !.backend.auth = a, !.backend.command = cmd,
                      !.backend.provider = pr, !.backend.baseUrl = u] :
        ms \in {<<Get>>, <<ToolMethod("run")>>, <<FormMethod("push"), ToolMethod("run")>>,
                <<FormMethod("_provision"), Get>>,
                <<[Get EXCEPT !.cli = ArgsCLI]>>, <<[NoRoute("x") EXCEPT !.local = {"store"}]>>,
                <<[Get EXCEPT !.signup = {SignupStep("account", NoUrl, NoUrl, "KEY")}]>>},
        a \in {"", "managed", "provisioned"}, cmd \in {{}, {1}}, pr \in {"", "other"},
        u \in {NoUrl, Web("cloud")}}
    \cup {[With(<<FormMethod("push")>>) EXCEPT !.backend.type = "hybrid", !.backend.auth = "provisioned",
                      !.backend.provider = "tokenmint", !.backend.cloudUrl = Web("cloud")]}

(***************************************************************************)
(* Native assets.                                                          *)
(***************************************************************************)
Asset(base, order, deps) ==
    [role |-> "", name |-> 0, plat |-> "linux/amd64", file |-> TRUE, url |-> NoUrl, sha |-> TRUE,
     unpack |-> "", path |-> [form |-> "rel", dir |-> "", base |-> base], order |-> order, deps |-> deps]
Native(assets) ==
    [With(<<ToolMethod("run")>>) EXCEPT !.backend.type = "cli", !.backend.command = {1},
                                        !.assets = assets]
AssetForms ==
    {Native(<<Asset(1, o[1], d1), Asset(2, o[2], d2), Asset(3, o[3], d3)>>) :
        o \in {<<1, 2, 3>>, <<3, 2, 1>>, <<2, 3, 1>>},
        d1 \in SUBSET {2, 3}, d2 \in SUBSET {1, 3}, d3 \in SUBSET {1, 2}}
    \cup {Native(<<[Asset(1, 1, {}) EXCEPT !.name = n], [Asset(2, o, d) EXCEPT !.plat = p],
                   Asset(b, 3, {n})>>) :
             n \in {0, 2, 5}, o \in {1, 2}, d \in {{}, {5}}, b \in {1, 3},
             p \in {"linux/amd64", "darwin/arm64"}}
    \cup {Native(<<a>>) :
             a \in {[Asset(1, 1, {}) EXCEPT !.url = u, !.file = f] :
                       u \in {NoUrl, Web("cdn"), [Web("cdn") EXCEPT !.ok = FALSE]}, f \in BOOLEAN}
                   \cup {[Asset(1, 1, {}) EXCEPT !.role = "bad"], [Asset(1, 1, {}) EXCEPT !.path.form = "dots"]}}
    \cup {[Base EXCEPT !.assets = <<Asset(1, 1, {})>>]}

MCForms == RouteForms \cup SignupForms \cup ToolForms \cup HybridForms \cup AssetForms

(***************************************************************************)
(* Specifications written by hand: what a form cannot say.                 *)
(***************************************************************************)
Written(type, methods) ==
    [id |-> "foreign", version |-> TRUE, descr |-> TRUE,
     backend |-> [type |-> type, baseUrl |-> Web("api"), command |-> {}, auth |-> "",
                  brokerUrl |-> NoUrl, urlSecret |-> "", headers |-> FALSE, x402 |-> {}, mcp |-> {}],
     methods |-> methods, assets |-> <<>>]
YMethod(word) == [BareMethod(OwnName(word)) EXCEPT !.http = {Route("", Path(<<Lit(word)>>))}]
Multipart(blob) ==
    [YMethod("send") EXCEPT !.http = {[Route("POST", Path(<<Lit("send")>>)) EXCEPT
        !.multipart = {[file |-> "", blob |-> blob, max |-> 0]}]}]
SendKey == [Multipart("") EXCEPT !.http =
               {[r EXCEPT !.save = {SaveKey(TRUE, "KEY", {})}, !.public = TRUE] : r \in @}]
SetKey  == [BareMethod(OwnName("join")) EXCEPT !.signup = {SignupStep("set_key", NoUrl, NoUrl, "KEY")}]
Tool == [BareMethod(OwnName("ask")) EXCEPT !.mcp = {[tool |-> TRUE, wrap |-> FALSE, keep |-> FALSE]}]

MCSpecs ==
    {Written("", <<Multipart(b)>>) : b \in {"", "file"}}
    \cup {Written("http", <<Multipart(""), [YMethod("upload_begin") EXCEPT !.kind = "status"]>>),
          Written("hybrid", <<YMethod("get")>>), Written("socket", <<YMethod("get")>>),
          Written("http", <<SendKey, YMethod("get")>>), Written("http", <<SetKey, SendKey>>),
          Written("http", <<Tool>>), Written("http", <<BareMethod(OwnName("none"))>>)}
    \cup {[Written("http", <<Tool, YMethod("get")>>) EXCEPT
              !.backend.mcp = {[url |-> [Web(h) EXCEPT !.scheme = "http"], auth |-> FALSE]}] :
             h \in {"mcp", "localhost"}}
    \cup {[Written("http", <<Tool, [BareMethod(OwnName("join")) EXCEPT
              !.signup = {SignupStep("create", Web("api"), NoUrl, "KEY")}]>>) EXCEPT
              !.backend.mcp = {[url |-> Web(h), auth |-> FALSE]}] : h \in {"mcp", "api"}}
    \cup {[Written("hybrid", <<[BareMethod(OwnName("join")) EXCEPT
              !.cli = {ArgsCLI}, !.signup = {SignupStep("set_key", NoUrl, NoUrl, "KEY")}]>>) EXCEPT
              !.backend.auth = "managed", !.backend.command = {1}, !.backend.brokerUrl = Web("own"),
              !.assets = <<[Asset(1, 1, {}) EXCEPT !.url = Web(h)]>>] : h \in {"cdn", "own"}}
    \cup {[Written(t, <<YMethod("get")>>) EXCEPT !.backend.x402 = {[cap |-> x]}] :
             t \in {"http", "hybrid"}, x \in {"none", "some", "zero"}}
    \cup {[Written("http", <<YMethod("get")>>) EXCEPT !.backend.auth = a, !.backend.headers = TRUE,
                                                       !.backend.brokerUrl = Web("own")] :
             a \in {"", "managed", "provisioned"}}

(***************************************************************************)
(* Entries other apps have beside it.                                      *)
(***************************************************************************)
Claim(as, by) == [claimAs |-> as, owner |-> by]
Tenants(list) == [params |-> {"call", "line"}, bodyRefs |-> {}, create |-> {"line"},
                  list |-> list, multipart |-> FALSE]
Other == AppEntry("other", TRUE, {<<Lit("x")>>})
MCNeighbours ==
    {[Other EXCEPT !.accessKey = TRUE, !.tenancy = {Tenants({Claim("call", {"call"})})}],
     [Other EXCEPT !.credit = TRUE, !.tenancy = {Tenants({Claim("call", {"line"})})}],
     [Other EXCEPT !.tenancy = {Tenants({})}]}
=============================================================================
