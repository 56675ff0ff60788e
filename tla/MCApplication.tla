--------------------------- MODULE MCApplication ---------------------------
(* Small projects for the driver: each shows a case of its own. *)
EXTENDS Application

MCWorkers == {"w1", "w2"}
D(anns, node) == <<"Decl", anns, <<>>, "public", node>>
A(name, args) == <<"Annotation", name, args>>
L(w) == <<"Lit", w>>
T(n) == <<"TName", n>>
Cls(name, anns, fields, methods) == D(anns, <<"Class", name, <<>>, <<>>, <<>>, fields, methods>>)
Fld(anns, name, type) == <<"Member", anns, <<>>, "public", "", "", <<"FieldDef", name, T(type)>>>>
Mth(anns, kind, name, params, ret) == <<"Member", anns, <<>>, "public", "", "", <<"Method", kind, name, <<>>, params, ret, <<>>>>>>
Prm(anns, name, type) == <<"Param", anns, name, T(type)>>
Imp(path) == D(<<>>, <<"Import", path, "">>)
File(decls) == [parses |-> TRUE, typed |-> TRUE, decls |-> decls]
Inject(name, type) == Fld(<<A("Inject", <<>>)>>, name, type)

MCLitKind == [w \in {"/api/", "/x", "y", "bearer", "text/plain", "admin", "/ws", "host", "u", "tool", "-n, --name", "-v", "-o",
                              "--name", "--all", "about", "cert"} |-> "String"]
             @@ [w \in {"201", "9001", "9002", "0", "1"} |-> "Integer"]
MCChars == ("/api/" :> <<"/", "api", "/">>) @@ ("/x" :> <<"/", "x">>) @@ ("y" :> <<"y">>)
           @@ ("-n, --name" :> <<"-n", "--name">>) @@ ("-v" :> <<"-v">>) @@ ("-o" :> <<"-o">>)
           @@ ("--name" :> <<"--name">>) @@ ("--all" :> <<"--all">>)
MCDashes == [w \in {"-n", "-v", "-o"} |-> 1] @@ [w \in {"--name", "--all", "--help", "--version"} |-> 2] @@ [w \in {"a", ""} |-> 0]
MCNumber == ("0" :> 0) @@ ("1" :> 1)
MCRank == ("Boot" :> 1) @@ ("Ctx" :> 2) @@ ("Service" :> 3) @@ ("Api" :> 4) @@ ("Per" :> 5)
MCEmptyDirs == {<<"app", "empty">>}
MCCommandLines == UNION {[1..n -> {"-n", "--name", "-v", "-o", "--all", "a", ""}] : n \in 0..4} \cup {<<"--help">>, <<"-v", "--version">>}

MainClass == Cls("Main", <<>>, <<>>, <<Mth(<<>>, "fnc", "main", <<>>, T("Int32"))>>)
Main(imports) == File([i \in 1..Len(imports) |-> Imp(imports[i])] \o <<MainClass>>)
Empty(name) == File(<<Cls(name, <<>>, <<>>, <<>>)>>)
Component1(name, scope, fields) == File(<<Cls(name, <<A(scope, <<>>)>>, fields, <<>>)>>)
Q == Prm(<<A("QueryParam", <<>>)>>, "q", "Int32")
Callback1(n) == Mth(<<A(n, <<>>)>>, "fn", n, <<>>, T("Bool"))
Consumer(n, name, args) == File(<<Cls(n, <<A(name, args)>>, <<>>, <<Callback1("OnMessage")>>)>>)
Route(name, verb, path) == Mth(<<A(verb, path)>>, "fn", name, <<>>, T("Int32"))
Get(name, anns, params) == Mth(<<A(name, anns)>>, "fn", "get", params, T("Int32"))
Round(n, other, methods) == File(<<Imp(<<other>>), Cls(n, <<A("ApplicationComponent", <<>>)>>, <<Inject("other", other)>>, methods)>>)
Test(n) == Mth(<<A("Test", <<L("about")>>)>>, "fn", n, <<>>, T("Bool"))

(* Controllers, shared and of a request, and what is injected into them. *)
RestContent ==
    [Boot |-> Component1("Boot", "Startup", <<>>), Ctx |-> Component1("Ctx", "HttpRequestScoped", <<>>),
     Service |-> Component1("Service", "ApplicationComponent", <<>>),
     Api |-> File(<<Imp(<<"svc">>),
        Cls("Api", <<A("ApplicationComponent", <<>>), A("Path", <<L("/api/")>>)>>, <<Inject("service", "Service"), Inject("ctx", "Ctx")>>,
            <<Mth(<<A("GET", <<L("/x")>>)>>, "fn", "get", <<>>, T("String"))>>)>>),
     Per |-> File(<<Imp(<<"svc", "Service">>), Imp(<<"svc">>),
        Cls("Per", <<A("HttpRequestScoped", <<>>)>>, <<Inject("ctx", "Ctx"), Inject("boot", "Boot")>>,
            <<Mth(<<A("POST", <<L("/x")>>), A("StatusCode", <<L("201")>>)>>, "fn", "post", <<>>, T("Int32"))>>)>>),
     Plain |-> File(<<Cls("Plain", <<A("Path", <<L("y")>>)>>, <<>>, <<Mth(<<A("DELETE", <<L("y")>>)>>, "fnc", "del", <<>>, T("Bool"))>>)>>),
     Closed |-> File(<<Cls("Closed", <<A("Path", <<L("/api/")>>), A("Auth", <<L("bearer")>>)>>, <<>>,
        <<Mth(<<A("GET", <<L("/x")>>), A("Consumes", <<L("text/plain")>>), A("OIDCRolesAllowed", <<<<"AList", <<L("admin")>>>>>>)>>,
              "fn", "get", <<Q>>, T("String"))>>)>>),
     ClosedMain |-> Main(<<<<"Closed">>, <<"Plain">>, <<"AuthValidator">>>>),
     AuthValidator |-> Empty("AuthValidator"), RestMain |-> Main(<<<<"Api">>, <<"Per">>>>)]
(* Paths of classes and methods, with a slash on either side and on none, and missing. *)
PathContent ==
    [Ended |-> File(<<Cls("Ended", <<A("Path", <<L("/api/")>>)>>, <<>>, <<Route("y1", "GET", <<L("y")>>), Route("none", "PUT", <<>>)>>)>>),
     Begun |-> File(<<Cls("Begun", <<A("Path", <<L("y")>>)>>, <<>>, <<Route("x1", "GET", <<L("/x")>>), Route("alone", "PUT", <<>>)>>)>>),
     PathMain |-> Main(<<<<"Ended">>, <<"Begun">>, <<"Closed">>, <<"Plain">>>>)]
(* Services of each kind, and the classes of the library they need. *)
ServiceContent ==
    [Chat |-> File(<<Cls("Chat", <<A("WebsocketEndpoint", <<L("/ws"), L("9001")>>)>>, <<>>,
                         <<Callback1("OnOpen"), Callback1("OnMessage"), Callback1("OnClose")>>)>>),
     C10 |-> Consumer("C10", "Amqp10Consumer", <<L("host"), L("9002"), L("u"), L("u"), L("u")>>),
     C91 |-> Consumer("C91", "Amqp091Consumer", <<L("host"), L("9002"), L("u"), L("u"), L("u"), L("u")>>),
     Sink |-> File(<<Cls("Sink", <<A("Amqp10Consumer", <<L("host"), L("9002"), L("u"), L("u"), L("u")>>)>>, <<>>, <<>>)>>),
     SinkMain |-> Main(<<<<"Sink">>, <<"Amqp10Message">>>>),
     Secret |-> File(<<Cls("Secret", <<A("Http3RestController", <<L("9001"), L("cert"), L("cert")>>)>>, <<>>,
        <<Mth(<<A("PUT", <<L("/x")>>), A("Auth", <<L("bearer")>>)>>, "fn", "put", <<>>, T("HttpContext")),
          Mth(<<A("PATCH", <<>>), A("Path", <<L("y")>>)>>, "fn", "patch", <<Prm(<<A("HttpContext", <<>>)>>, "c", "HttpContext")>>, T("Int64"))>>)>>),
     WsFrame |-> Empty("WsFrame"), Amqp10Message |-> Empty("Amqp10Message"), AmqpMessage091 |-> Empty("AmqpMessage091"),
     Http3Server |-> Empty("Http3Server"), SecretMain |-> Main(<<<<"Secret">>, <<"Http3Server">>>>),
     MqMain |-> Main(<<<<"C10">>, <<"Amqp10Message">>>>),
     ServiceMain |-> Main(<<<<"Chat">>, <<"C91">>, <<"WsFrame">>, <<"AmqpMessage091">>>>)]
(* Components that need each other, files that import each other; mistakes. *)
OddContent ==
    [One |-> Round("One", "Two", <<Get("GET", <<>>, <<>>)>>), Two |-> Round("Two", "One", <<>>), OneMain |-> Main(<<<<"One">>>>),
     Unbound |-> File(<<Cls("Bad", <<>>, <<>>, <<Get("GET", <<>>, <<Q, Prm(<<>>, "free", "Int32")>>)>>)>>),
     Twins |-> File(<<Cls("Bad", <<>>, <<>>, <<Get("GET", <<>>, <<>>), Get("POST", <<>>, <<>>)>>)>>),
     Misnamed |-> Empty("Good"), BadMain |-> Main(<<<<"Bad">>>>), ChatMain |-> Main(<<<<"Chat">>>>), DirMain |-> Main(<<<<"empty">>>>),
     NotCore |-> Main(<<<<"tinox", "core", "json">>>>), CoreMain |-> Main(<<<<"tinox", "core", "queue", "Q">>, <<"Plain">>>>), Q |-> Empty("Q"),
     FrameMain |-> Main(<<<<"WsFrame">>>>)]
(* Files that are edited; tests of a file that imports a controller; a command. *)
WorkContent ==
    [LibDep |-> Main(<<<<"Lib">>, <<"Dep">>>>), Lib |-> Empty("Lib"), LibWrong |-> [Empty("Lib") EXCEPT !.typed = FALSE],
     LibPanics |-> File(<<Cls("Lib", <<A("WebsocketEndpoint", <<L("/ws")>>)>>, <<>>, <<>>)>>),
     Dep |-> Empty("Dep"), DepWrong |-> [Empty("Dep") EXCEPT !.parses = FALSE],
     Suite |-> File(<<Imp(<<"Plain">>), Cls("Suite", <<>>, <<>>, <<Test("t1"), Test("t2")>>)>>),
     Tool |-> File(<<Cls("Tool", <<A("Command", <<L("tool")>>)>>,
        <<Fld(<<A("Option", <<L("-n, --name")>>)>>, "name", "String"), Fld(<<A("Option", <<L("-v")>>)>>, "verbose", "Bool"),
          Fld(<<A("Option", <<L("-o")>>)>>, "out", "String"), Fld(<<A("Argument", <<L("0")>>)>>, "file", "String"),
          Fld(<<A("Argument", <<L("1")>>)>>, "more", "Int64")>>, <<Test("t1")>>)>>),
     Named |-> File(<<Cls("Named", <<A("Command", <<L("tool")>>)>>,
        <<Fld(<<A("Option", <<L("--name")>>)>>, "name", "String"), Fld(<<A("Option", <<L("--all")>>)>>, "all", "Bool"),
          Fld(<<A("Argument", <<L("0")>>)>>, "file", "String"), Fld(<<A("Argument", <<L("1")>>)>>, "more", "String")>>, <<>>)>>)]
MCContent == RestContent @@ PathContent @@ ServiceContent @@ OddContent @@ WorkContent
-----------------------------------------------------------------------------
(* A project: its files in app and in other directories. *)
In(dir, names) == [p \in {dir \o <<n>> : n \in names} |-> Last(p)]
Mq == <<"lib", "g", "mq", "1">>
Project(commands, deps, entry, content, more) ==
    [project |-> [entry |-> <<"app", entry>>, commands |-> commands, deps |-> deps, missing |-> {<<"tinox.core", "json">>}, opt |-> "debug"],
     disk |-> (<<"app", entry>> :> content) @@ more]
MainOf(commands, deps, content, more) == Project(commands, deps, "Main", content, more)
Library == In(Mq, {"WsFrame", "Amqp10Message", "AmqpMessage091", "Http3Server"})
Bad(main1, bad) == MainOf({"build", "check"}, <<>>, main1, <<"app", "Bad">> :> bad)
Dep == <<"dep", "g", "a", "1">>
MCVersions == (<<"app", "Lib">> :> {"Lib", "LibWrong", "LibPanics"}) @@ (<<"dep", "g", "a", "1", "Dep">> :> {"Dep", "DepWrong"})

Rest == MainOf({"run"}, <<>>, "RestMain", In(<<"app", "svc">>, {"Boot", "Ctx", "Service"}) @@ In(<<"app">>, {"Api", "Per"}))
MCRest == {Rest}
MCProjects ==
    {Rest,
     MainOf({"run"}, <<>>, "ClosedMain", In(<<"app">>, {"Closed", "Plain", "AuthValidator"})),
     MainOf({"run"}, <<Mq>>, "ServiceMain", Library @@ In(<<"app">>, {"Chat", "C91"})),
     MainOf({"run"}, <<Mq>>, "MqMain", Library @@ In(<<"app">>, {"C10"})),
     MainOf({"run"}, <<Mq>>, "SinkMain", Library @@ In(<<"app">>, {"Sink"})),
     MainOf({"build"}, <<>>, "PathMain", In(<<"app">>, {"Ended", "Begun", "Closed", "Plain"})),
     Project({"run"}, <<>>, "Named", "Named", <<>>),
     MainOf({"run", "build"}, <<Mq>>, "SecretMain", Library @@ In(<<"app">>, {"Secret"})),
     MainOf({"run"}, <<>>, "OneMain", In(<<"app">>, {"One", "Two"})),
     Bad("BadMain", "Unbound"), Bad("BadMain", "Twins"), Bad("BadMain", "Misnamed"), Bad("DirMain", "Plain"), Bad("NotCore", "Plain"),
     MainOf({"build", "check"}, <<>>, "ChatMain", In(<<"app">>, {"Chat"})),
     [MainOf({"build"}, <<>>, "CoreMain", In(<<"app">>, {"Plain"}) @@ In(<<"core", "queue">>, {"Q"})) EXCEPT !.project.opt = "release"],
     MainOf({"build"}, <<Mq, <<"lib", "g", "nq", "1">>>>, "FrameMain", Library @@ In(<<"lib", "g", "nq", "1">>, {"WsFrame"})),
     MainOf({"dev"}, <<Dep>>, "LibDep", In(<<"app">>, {"Lib"}) @@ In(Dep, {"Dep"})),
     Project({"test"}, <<>>, "Suite", "Suite", In(<<"app">>, {"Plain"})),
     Project({"run", "test"}, <<>>, "Tool", "Tool", <<>>)}
=============================================================================
