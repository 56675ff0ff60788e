----------------------------- MODULE Annotations -----------------------------
(***************************************************************************)
(* The annotations of a program (typecheck/annotations.rs): which may stand  *)
(* where (validate_annotations), and what the code generator is told of      *)
(* them (process_annotations).  Texts are words; where a text is a path,     *)
(* Chars gives its slashes and names in order.                               *)
(***************************************************************************)
EXTENDS Loops, Naturals, Sequences, SequencesExt, FiniteSets, TLC

CONSTANTS LitKind,     \* the kind of a literal: "String", "Integer", "Bool" or another
          Chars,       \* the slashes and names of a literal that is a path
          MaxNesting   \* bound: namespaces in namespaces
ASSUME NestingAssumption == MaxNesting \in Nat

Info(targets, least, most) == [targets |-> targets, least |-> least, most |-> most]
On(names, target, least, most) == [n \in names |-> Info({target}, least, most)]
Verbs == {"GET", "POST", "PUT", "PATCH", "DELETE"}
Bindings == {"PathParam", "QueryParam", "PostParam", "HttpContext"}

RestAnnotations ==
    On(Verbs, "Method", 0, 1) @@ On({"Produces", "Consumes", "StatusCode", "OIDCRolesAllowed"}, "Method", 1, 1)
    @@ [n \in {"Path", "Auth"} |-> Info({"Class", "Method"}, 1, 1)] @@ On(Bindings, "Param", 0, 0)
EndpointAnnotations ==
    On({"annotation"}, "Class", 0, 0) @@ On({"WebsocketEndpoint"}, "Class", 1, 2)
    @@ On({"OnOpen", "OnMessage", "OnClose"}, "Method", 0, 0) @@ On({"Http3RestController"}, "Class", 3, 3)
    @@ On({"Amqp10Consumer"}, "Class", 5, 5) @@ On({"Amqp091Consumer"}, "Class", 6, 6)
ComponentAnnotations ==
    On({"Config"}, "Field", 1, 1) @@ On({"Log", "ApplicationComponent", "Startup", "HttpRequestScoped"}, "Class", 0, 0)
    @@ On({"Inject"}, "Field", 0, 0) @@ On({"Test"}, "Method", 0, 1) @@ On({"Command"}, "Class", 1, 3)
    @@ On({"Option", "Argument"}, "Field", 1, 3)
DataAnnotations ==
    On({"Sensitive", "Masked", "DoNotSerialize", "Id", "GeneratedValue", "NotNull"}, "Field", 0, 0)
    @@ [n \in {"Timed", "Counted", "inline"} |-> Info({"Function", "Method"}, 0, 1)] @@ On({"Gauge"}, "Field", 1, 1)
    @@ On({"Entity"}, "Class", 0, 0) @@ On({"Table"}, "Class", 1, 1) @@ On({"Column"}, "Field", 0, 1)
    @@ [n \in {"deprecated"} |-> Info({"Function", "Method", "Class"}, 0, 1)]
Registry == RestAnnotations @@ EndpointAnnotations @@ ComponentAnnotations @@ DataAnnotations

(* A class marked @annotation is an annotation of its own, for everything but
   parameters and with any number of arguments; it hides a built-in one. *)
Unlimited == 1000
register_custom_annotation(r, n) ==
    (n :> Info({"Function", "Method", "Class", "Field", "Interface", "Enum", "Trait", "Namespace"}, 0, Unlimited)) @@ r

(* The errors of a list of annotations at a target. *)
validate(r, anns, target) ==
    UNION {LET a == anns[i] IN
           IF a[2] \notin DOMAIN r THEN {<<a[2], "unknown">>}
           ELSE {<<a[2], e>> : e \in {x \in {"target", "few", "many"} :
                    \/ x = "target" /\ target \notin r[a[2]].targets
                    \/ x = "few" /\ Len(a[3]) < r[a[2]].least
                    \/ x = "many" /\ Len(a[3]) > r[a[2]].most}} : i \in 1..Len(anns)}
-----------------------------------------------------------------------------
(* The arguments and the parts of declarations. *)
Collect(s, Get(_)) == FlattenSeq([i \in 1..Len(s) |-> Get(s[i])])
Arg(a, i) == IF i <= Len(a[3]) THEN <<a[3][i]>> ELSE <<>>
LitArg(a, i, kind) ==
    IF i <= Len(a[3]) /\ a[3][i][1] = "Lit" /\ LitKind[a[3][i][2]] = kind THEN <<a[3][i][2]>> ELSE <<>>
StringArg(a, i) == LitArg(a, i, "String")
Or(option, default) == IF option = <<>> THEN default ELSE option[1]
Has(anns, n) == \E i \in 1..Len(anns) : anns[i][2] = n
NamedAnns(anns, names) == SelectSeq(anns, LAMBDA a : a[2] \in names)
First(anns, n) == LET found == NamedAnns(anns, {n}) IN IF found = <<>> THEN <<>> ELSE <<found[1]>>
(* The last annotation that says something decides. *)
LastSaid(anns, names, Get(_)) ==
    LET said == {i \in 1..Len(anns) : anns[i][2] \in names /\ Get(anns[i]) # <<>>}
    IN  IF said = {} THEN <<>> ELSE Get(anns[Max(said)])
Fields(c) == c[6]
Methods(c) == c[7]
Anns(member) == member[2]
Body(member) == member[7]

media_type_arg_to_mime(arg) ==
    CASE arg[1] = "AEnum" /\ arg[2] = "MediaType" ->
            CASE arg[3] = "APPLICATION_JSON" -> <<"application/json">>
              [] arg[3] = "PLAIN_TEXT" -> <<"text/plain">>
              [] OTHER -> <<>>
      [] arg[1] = "Lit" /\ LitKind[arg[2]] = "String" -> <<arg[2]>>
      [] OTHER -> <<>>

(* mutant: the slash of the base is kept *)
join_path_plain(base, p) == IF p = <<>> THEN base ELSE base \o p
(* mutant: the path of the class is forgotten *)
join_path_lost(base, p) == IF p = <<>> THEN base ELSE p
(* The path of a route: the base path of its class and its own. *)
join_path(base, p) ==
    LET ends == base # <<>> /\ Last(base) = "/"
        starts == p # <<>> /\ p[1] = "/"
    IN  CASE p = <<>> -> base
          [] p # <<>> /\ ends /\ starts -> Front(base) \o p
          [] p # <<>> /\ ends # starts -> base \o p
          [] OTHER -> base \o <<"/">> \o p

(* mutant: the annotation of the class is forgotten *)
auth_of_method(class_auth, anns) == LastSaid(anns, {"Auth"}, LAMBDA a : StringArg(a, 1))
auth_of(class_auth, anns) ==
    LET own == LastSaid(anns, {"Auth"}, LAMBDA a : StringArg(a, 1)) IN IF own = <<>> THEN class_auth ELSE own

BindingOf(param) ==
    LET found == NamedAnns(param[2], Bindings)
    IN  IF found = <<>> THEN <<>> ELSE <<[kind |-> found[1][2], name |-> param[3], ty |-> param[4]]>>

(* The route of a method: a list of at most one. *)
extract_route_from_method(class, m, base, class_auth) ==
    LET anns == Anns(m)
        verb == NamedAnns(anns, Verbs)
        path == LastSaid(anns, Verbs \cup {"Path"}, LAMBDA a : StringArg(a, 1))
        own  == IF path = <<>> THEN <<>> ELSE Chars[path[1]]
        mime(n) == IF Has(anns, n) THEN Collect(Arg(Last(NamedAnns(anns, {n})), 1), media_type_arg_to_mime) ELSE <<>>
        lists == SelectSeq(NamedAnns(anns, {"OIDCRolesAllowed"}), LAMBDA a : Arg(a, 1) # <<>> /\ a[3][1][1] = "AList")
    IN  IF verb = <<>> THEN <<>>
        ELSE <<[method |-> Last(verb)[2], class |-> class, name |-> Body(m)[3],
                path |-> IF base = <<>> THEN own ELSE join_path(Chars[base[1]], own),
                status |-> LastSaid(anns, {"StatusCode"}, LAMBDA a : LitArg(a, 1, "Integer")),
                produces |-> mime("Produces"), consumes |-> mime("Consumes"), auth |-> auth_of(class_auth, anns),
                roles |-> IF lists = <<>> THEN <<>>
                          ELSE Collect(Last(lists)[3][1][2], LAMBDA x : IF x[1] = "Lit" /\ LitKind[x[2]] = "String" THEN <<x[2]>> ELSE <<>>),
                static |-> Body(m)[2] = "fnc", params |-> Collect(Body(m)[5], BindingOf), ret |-> Body(m)[6]]>>
-----------------------------------------------------------------------------
field_type_to_cli_str(t) == IF t \in {<<"TName", "Bool">>, <<"TName", "String">>} THEN t[2] ELSE "Int"
field_type_to_llvm(t) == IF t = <<"TName", "String">> THEN "i8*" ELSE IF t = <<"TName", "Bool">> THEN "i1" ELSE "i64"

collect_config_fields(c) ==
    Collect(Fields(c), LAMBDA f :
        Collect(First(Anns(f), "Config"), LAMBDA a :
            Collect(StringArg(a, 1), LAMBDA key : <<[class |-> c[2], field |-> Body(f)[2], key |-> key, type |-> field_type_to_llvm(Body(f)[3])]>>)))
PrimitiveNames == {"Int8", "Int16", "Int32", "Int64", "UInt8", "UInt16", "UInt32", "UInt64", "Float32", "Float64",
                   "Bool", "Char", "String", "Nothing", "Never", "Any"}
(* Only fields whose type is a class by its plain name. *)
collect_inject_fields(c) ==
    Collect(Fields(c), LAMBDA f :
        IF Has(Anns(f), "Inject") /\ Body(f)[3][1] = "TName" /\ Body(f)[3][2] \notin PrimitiveNames
        THEN <<[field |-> Body(f)[2], type |-> Body(f)[3][2]]>> ELSE <<>>)
collect_log_mask_fields(n, c) == Collect(Fields(c), LAMBDA f : IF Has(Anns(f), n) THEN <<<<c[2], Body(f)[2]>>>> ELSE <<>>)

command_of(c, a) ==
    LET fields(n, kind) ==
            Collect(Fields(c), LAMBDA f : Collect(NamedAnns(Anns(f), {n}), LAMBDA x :
                <<[field |-> Body(f)[2], what |-> LitArg(x, 1, kind), required |-> LitArg(x, 3, "Bool") = <<"true">>,
                   type |-> field_type_to_cli_str(Body(f)[3])]>>))
    IN  [class |-> c[2], name |-> Or(StringArg(a, 1), c[2]), version |-> StringArg(a, 3),
         options |-> fields("Option", "String"), arguments |-> fields("Argument", "Integer")]
entity_of(c, anns) ==
    [class |-> c[2], table |-> Or(Collect(First(anns, "Table"), LAMBDA a : StringArg(a, 1)), <<"lower case", c[2]>>),
     fields |-> [i \in 1..Len(Fields(c)) |->
        LET f == Fields(c)[i]
        IN  [field |-> Body(f)[2], column |-> Or(Collect(First(Anns(f), "Column"), LAMBDA a : StringArg(a, 1)), Body(f)[2]),
             id |-> Has(Anns(f), "Id"), generated |-> Has(Anns(f), "GeneratedValue"), notNull |-> Has(Anns(f), "NotNull"),
             type |-> field_type_to_llvm(Body(f)[3])]]]

(* The last method with the annotation. *)
Callback(c, n) ==
    LET marked == {i \in 1..Len(Methods(c)) : Has(Anns(Methods(c)[i]), n)}
    IN  IF marked = {} THEN <<>> ELSE <<Body(Methods(c)[Max(marked)])[3]>>
(* The arguments of an endpoint, when each is a literal of its kind. *)
AllArgs(anns, n, kinds) ==
    LastSaid(anns, {n}, LAMBDA a :
        IF \A i \in 1..Len(kinds) : LitArg(a, i, kinds[i]) # <<>> THEN <<[i \in 1..Len(kinds) |-> a[3][i][2]]>> ELSE <<>>)
Scopes == [ApplicationComponent |-> "Application", Startup |-> "Startup", HttpRequestScoped |-> "HttpRequest"]
Str == "String"

(* The endpoints of a class: websocket, AMQP 1.0, AMQP 0-9-1, HTTP/3. *)
process_endpoints(c, anns, k) ==
    LET consumer(n, kinds) == Collect(AllArgs(anns, n, kinds), LAMBDA as : <<[class |-> c[2], args |-> as, on_message |-> Callback(c, "OnMessage")]>>)
    IN  CASE k = "ws_endpoints" ->
                Collect(LastSaid(anns, {"WebsocketEndpoint"}, LAMBDA a : StringArg(a, 1)), LAMBDA path :
                    <<[class |-> c[2], path |-> path, port |-> LastSaid(anns, {"WebsocketEndpoint"}, LAMBDA a : LitArg(a, 2, "Integer")),
                       on_open |-> Callback(c, "OnOpen"), on_message |-> Callback(c, "OnMessage"), on_close |-> Callback(c, "OnClose")]>>)
          [] k = "amqp10_consumers" -> consumer("Amqp10Consumer", <<Str, "Integer", Str, Str, Str>>)
          [] k = "amqp091_consumers" -> consumer("Amqp091Consumer", <<Str, "Integer", Str, Str, Str, Str>>)
          [] k = "http3_rest_controllers" ->
                Collect(AllArgs(anns, "Http3RestController", <<"Integer", Str, Str>>), LAMBDA as : <<[class |-> c[2], args |-> as]>>)

(* What the annotations of methods and functions say besides routes. *)
Marks(anns, owner, name, k) ==
    LET marks(names, Entry(_)) == Collect(NamedAnns(anns, names), LAMBDA a : <<Entry(a)>>)
    IN  CASE k = "inline" -> marks({"inline"}, LAMBDA a : <<owner, name>>)
          [] k = "deprecated_warnings" -> marks({"deprecated"}, LAMBDA a : <<owner, name>>)
          [] k = "test_entries" ->
                IF owner = "" THEN <<>>
                ELSE marks({"Test"}, LAMBDA a : [class |-> owner, method |-> name, about |-> Or(StringArg(a, 1), name)])
          [] k = "metric_entries" -> marks({"Timed", "Counted"}, LAMBDA a :
                [kind |-> a[2], class |-> owner, fn |-> name,
                 name |-> Or(StringArg(a, 1), IF owner = "" THEN name ELSE owner \o "_" \o name)])

process_members(c, anns, k) ==
    LET base == LastSaid(anns, {"Path"}, LAMBDA a : StringArg(a, 1))
        auth == LastSaid(anns, {"Auth"}, LAMBDA a : StringArg(a, 1))
        marks == Collect(Methods(c), LAMBDA m : Marks(Anns(m), c[2], Body(m)[3], k))
    IN  CASE k = "route_entries" -> Collect(Methods(c), LAMBDA m : extract_route_from_method(c[2], m, base, auth))
          [] k = "deprecated_warnings" -> Marks(anns, c[2], "", k) \o marks
          [] k \in {"inline", "test_entries", "metric_entries"} -> marks

(* The lists that processing fills. *)
Endpoints == {"ws_endpoints", "amqp10_consumers", "amqp091_consumers", "http3_rest_controllers"}
Marked    == {"inline", "deprecated_warnings", "test_entries", "metric_entries"}
Lists     == Endpoints \cup Marked \cup
             {"route_entries", "di_components", "cli_commands", "entity_entries", "custom_annotation_names", "log_classes",
              "json_serializable_classes", "config_fields", "sensitive_fields", "masked_fields", "do_not_serialize_fields"}
(* What a class adds to one of them. *)
process_class_annotations(c, anns, k) ==
    LET when(n, x) == IF Has(anns, n) THEN <<x>> ELSE <<>>
    IN  CASE k \in Endpoints -> process_endpoints(c, anns, k)
          [] k \in Marked \cup {"route_entries"} -> process_members(c, anns, k)
          [] k = "di_components" ->
                Collect(LastSaid(anns, DOMAIN Scopes, LAMBDA a : <<Scopes[a[2]]>>), LAMBDA s :
                    <<[class |-> c[2], scope |-> s, inject |-> collect_inject_fields(c)]>>)
          [] k = "cli_commands" -> Collect(NamedAnns(anns, {"Command"}), LAMBDA a : <<command_of(c, a)>>)
          [] k = "entity_entries" -> IF Has(anns, "Entity") \/ Has(anns, "Table") THEN <<entity_of(c, anns)>> ELSE <<>>
          [] k = "custom_annotation_names" -> when("annotation", c[2])
          [] k = "log_classes" -> when("Log", c[2])
          [] k = "json_serializable_classes" -> when("JsonSerializable", c[2])
          [] k = "config_fields" -> collect_config_fields(c)
          [] k = "sensitive_fields" -> collect_log_mask_fields("Sensitive", c)
          [] k = "masked_fields" -> collect_log_mask_fields("Masked", c)
          [] k = "do_not_serialize_fields" -> collect_log_mask_fields("DoNotSerialize", c)

(* The declarations with those of a namespace in its place. *)
Flat(decls) == Collect(decls, LAMBDA d : IF d[5][1] = "Namespace" THEN d[5][3] ELSE <<d>>)
Depths == [n \in 1..MaxNesting |-> n]
(* Namespaces are opened until there are none. *)
Inside(decls) == Scan(LAMBDA ds, n : Flat(ds), decls, Depths)
(* The declarations at any depth, namespaces included. *)
Nested(decls) ==
    Scan(LAMBDA ds, n : ds \cup UNION {IF d[5][1] = "Namespace" THEN ToSet(d[5][3]) ELSE {} : d \in ds}, ToSet(decls), Depths)

(* What the code generator is told of a program, namespaces included. *)
Entries(d, k) ==
    CASE d[5][1] = "Class" -> process_class_annotations(d[5], d[2], k)
      [] d[5][1] = "Function" /\ k \in Marked -> Marks(d[2], "", d[5][2], k)
      [] OTHER -> <<>>
process_annotations(decls) == [k \in Lists |-> Collect(Inside(decls), LAMBDA d : Entries(d, k))]
-----------------------------------------------------------------------------
(* The classes of a program with their annotations. *)
ClassDecls(decls) == {d \in Nested(decls) : d[5][1] = "Class"}
collect_json_serializable_classes(decls) == {d[5][2] : d \in {x \in ClassDecls(decls) : Has(x[2], "JsonSerializable")}}
collect_custom_annotation_classes(decls) == {d[5][2] : d \in {x \in ClassDecls(decls) : Has(x[2], "annotation")}}

is_supported_param_scalar_type(t) == t[1] = "TName" /\ t[2] \in {"String", "Int64", "Int32", "Bool", "Float64", "Float32"}
is_json_serializable_class_type(t, json) == t[1] = "TName" /\ t[2] \in json
is_json_serializable_list_type(t, json) ==
    \/ t[1] = "TGeneric" /\ t[2] \in {"List", "Array"} /\ t[3] # <<>> /\ is_json_serializable_class_type(t[3][1], json)
    \/ t[1] = "TArray" /\ is_json_serializable_class_type(t[2], json)
is_http_context_type(t) == t = <<"TName", "HttpContext">>
ReturnFits(t, json) == \/ is_http_context_type(t) \/ is_json_serializable_class_type(t, json)
                       \/ is_json_serializable_list_type(t, json)
                       \/ t[1] = "TName" /\ t[2] \in {"String", "Int64", "Int32", "Bool"}

(* mutant: a parameter without an annotation is let through *)
param_errors_bound(p, json) == IF BindingOf(p) = <<>> THEN {} ELSE
    IF Len(NamedAnns(p[2], Bindings)) > 1 THEN {<<p[3], "more than one">>} ELSE {}
param_errors(p, json) ==
    LET found == NamedAnns(p[2], Bindings)
        fits  == CASE found[1][2] \in {"PathParam", "QueryParam"} -> is_supported_param_scalar_type(p[4])
                   [] found[1][2] = "PostParam" -> is_json_serializable_class_type(p[4], json)
                   [] OTHER -> is_http_context_type(p[4])
    IN  CASE Len(found) = 0 -> {<<p[3], "none">>}
          [] Len(found) > 1 -> {<<p[3], "more than one">>}
          [] OTHER -> IF fits THEN {} ELSE {<<p[3], "type">>}
(* The parameters and the result of a method that is a route. *)
validate_route_params(m, json) ==
    IF NamedAnns(Anns(m), Verbs) = <<>> THEN {}
    ELSE UNION {param_errors(p, json) : p \in ToSet(Body(m)[5])}
         \cup (IF ReturnFits(Body(m)[6], json) THEN {} ELSE {<<Body(m)[3], "return">>})

ParamErrors(r, params) == UNION {validate(r, p[2], "Param") : p \in ToSet(params)}
validate_decl(r, d, json) ==
    LET node == d[5] IN
    CASE node[1] = "Function" -> validate(r, d[2], "Function") \cup ParamErrors(r, node[4])
      [] node[1] = "Class" ->
            validate(r, d[2], "Class")
            \cup UNION {validate(r, Anns(f), "Field") : f \in ToSet(Fields(node))}
            \cup UNION {validate(r, Anns(m), "Method") \cup ParamErrors(r, Body(m)[5]) \cup validate_route_params(m, json)
                        : m \in ToSet(Methods(node))}
      [] node[1] = "Interface" -> validate(r, d[2], "Interface") \cup UNION {ParamErrors(r, s[3][4]) : s \in ToSet(node[4])}
      [] node[1] = "Trait" -> validate(r, d[2], "Trait") \cup UNION {ParamErrors(r, s[3][4]) : s \in ToSet(node[3])}
      [] node[1] = "Enum" -> validate(r, d[2], "Enum")
      [] node[1] = "Namespace" -> validate(r, d[2], "Namespace")
      [] OTHER -> {}

(* The errors of the annotations of a program, imports merged, in namespaces too. *)
validate_annotations(decls) ==
    UNION {UNION {validate_decl(r, d, json) : d \in Nested(decls)} :
           r \in {FoldSet(LAMBDA n, acc : register_custom_annotation(acc, n), Registry, collect_custom_annotation_classes(decls))},
           json \in {collect_json_serializable_classes(decls)}}
=============================================================================
