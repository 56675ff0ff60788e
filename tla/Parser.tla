-------------------------------- MODULE Parser --------------------------------
(***************************************************************************)
(* The parser (tinox-parser).  A token is its spelling.  Every parse_*      *)
(* function is an operator that looks at the next tokens and returns what   *)
(* the function does next: a node label and a list of items (expect a       *)
(* token, call a function, an optional part, a list ...).  Parse runs items *)
(* on a parser state: tokens t, position p, error flag e, depth d.           *)
(* A function that fails leaves the position where it failed.               *)
(***************************************************************************)
EXTENDS Naturals, Sequences, FiniteSets, FiniteSetsExt

CONSTANTS Inputs,         \* the token sequences
          MaxDepth,       \* MAX_RECURSION_DEPTH
          InterpParts     \* interpolated strings: token -> its parts

Uppers   == {"A", "B", "T", "Int64"}
Idents   == Uppers \cup {"a", "b", "f", "x", "toString"}
Integers == {"0", "1"}
Literals == Integers \cup {"1.5", "str", "'c'", "b'c'", "true", "false", "null"}
AsIdent  == Idents \cup {"_", "default", "new", "send", "recv", "is"}
AsMethod == Idents \cup {"new", "send", "recv", "default", "return", "is", "as"}
Primitive == {"Int64"}
SyncOn   == {"fn", "fnc", "class", "interface", "enum", "trait", "namespace",
             "if", "while", "for", "loop", "return"}
Compound == {"+=", "-=", "*=", "/=", "%="}

Levels == << {"||"}, {"&&"}, {"|"}, {"^"}, {"&"}, {"==", "!="}, {"<", "<=", ">", ">="},
             {"<<", ">>", ">>>"}, {"+", "-"}, {"*", "/", "%"} >>

The(S) == CHOOSE x \in S : TRUE
Start(toks) == [t |-> toks, p |-> 1, e |-> 0, d |-> 0]
Ok(s, n) == [ok |-> TRUE, s |-> s, n |-> n]
Fail(s)  == [ok |-> FALSE, s |-> s, n |-> <<>>]

ahead(s, n) == IF s.p + n <= Len(s.t) THEN s.t[s.p + n] ELSE "eof"
peek(s)     == ahead(s, 0)
bump(s)     == [s EXCEPT !.p = IF @ <= Len(s.t) THEN @ + 1 ELSE @]

(* The items of a rule. *)
K(k)          == <<"expect", k>>
N(f)          == <<"call", f>>
Take          == <<"take">>              \* keep the token that is next
May(k)        == <<"may", k>>            \* consume(k)
Opt(k, items) == <<"opt", k, items>>     \* if consume(k) { items }
Sep(f, close)  == <<"list", f, close, FALSE>>  \* f, f, ... close
SepT(f, close) == <<"list", f, close, TRUE>>   \* the same, a trailing comma allowed
Many(ks, items)     == <<"many", ks, items>>   \* while consume(ks) { items }
Until(close, items) == <<"until", close, items>>
Try(items)    == <<"try", items>>        \* an error is dropped
Some(items)   == <<"some", items>>       \* the items' nodes as one list
None          == <<"none">>              \* an empty list
Chain(f, kind) == <<"chain", f, kind>>   \* f, then its suffixes
Close         == <<"close">>             \* expect_generic_close
R(label, items) == [label |-> label, items |-> items]
Expr == N("expr")
Type == N("type")
Id   == N("ident")
-----------------------------------------------------------------------------
(* The rules: types. *)
parse_type(s) ==
    CASE peek(s) = "(" -> R("TTuple", <<K("("), Sep("type", ")")>>)
      [] peek(s) \in {"*", "?"} -> R("TRef", <<K(peek(s)), Type>>)
      [] peek(s) = "mut" -> R("TMut", <<K("mut"), Type>>)
      [] peek(s) = "fnc" -> R("TFn", <<K("fnc"), K("("), Sep("type", ")"), N("ret")>>)
      [] OTHER -> R("", <<Chain("type_base", "type")>>)

(* base[]..., then at most one *, one ?, one (types) -> type, in this order. *)
TypeSuffix(s, stage) ==
    CASE stage = 0 /\ peek(s) = "[" -> R("TArray", <<K("["), <<"skip", "]">>>>)
      [] stage <= 1 /\ peek(s) = "*" -> R("TRef", <<K("*")>>)
      [] stage <= 2 /\ peek(s) = "?" -> R("TNullable", <<K("?")>>)
      [] stage <= 3 /\ peek(s) = "(" -> R("TFnOf", <<K("("), Sep("type", ")"), K("->"), Type>>)
      [] OTHER -> R("", <<>>)

parse_type_base(s) ==
    CASE peek(s) \in {"Nothing", "Any", "Never"} -> R("TName", <<Take>>)
      [] peek(s) = "Map" -> R("TMap", <<K("Map"), K("<"), Type, K(","), Type, Close>>)
      [] peek(s) \in AsIdent /\ ahead(s, 1) = "<" /\ peek(s) \notin Primitive ->
            R("TGeneric", <<Take, K("<"), Some(<<Type, Many({","}, <<Type>>)>>), Close>>)
      [] OTHER -> R("TName", <<Id>>)

(* Declarations. *)
parse_type_params(s) == R("", IF peek(s) = "<" THEN <<K("<"), Some(<<Id, Many({","}, <<Id>>)>>), K(">")>> ELSE <<None>>)
Signature == <<N("type_params"), K("("), Sep("param", ")"), N("ret")>>
ret_type(s)    == IF peek(s) = "->" THEN R("", <<K("->"), Type>>) ELSE R("TName", <<<<"word", "Nothing">>>>)
parse_param(s) == R("Param", <<N("annotations"), Id, K(":"), Type>>)
parse_fn(s)    == R("Function", <<K("fn"), Id>> \o Signature \o <<N("fn_body")>>)
fn_body(s)     == IF peek(s) = ";" THEN R("Block", <<K(";"), None>>) ELSE R("", <<N("block")>>)
parse_extern_fn(s) == R("Extern", <<K("extern"), K("fn"), Id, K("("), Sep("param", ")"), N("ret"), K(";")>>)
parse_immutable(s) == R("Immutable", <<K("immutable"), Id, K("("), Sep("param", ")"), May(";")>>)
parse_class(s) == R("Class", <<K("class"), Id, N("type_params"), Opt("extends", <<Id>>),
                               Opt("implements", <<Id, Many({","}, <<Id>>)>>), K("{"), Until("}", <<N("member")>>), K("}")>>)
class_member(s) == R("Member", <<N("annotations"), N("doc"), N("visibility"), N("mutable"), N("async"), N("member_kind")>>)
member_kind(s) ==
    IF peek(s) \in {"fn", "fnc"}
    THEN R("Method", <<Take, N("method_name")>> \o Signature \o <<N("block")>>)
    ELSE R("FieldDef", <<Id, K(":"), Type, K(";")>>)
parse_visibility(s) == R("", IF peek(s) \in {"public", "private", "protected"} THEN <<Take>>
                             ELSE <<May("package"), <<"word", "package">>>>)
parse_interface(s) == R("Interface", <<K("interface"), Id, Opt("extends", <<Id, Many({","}, <<Id>>)>>),
                                       K("{"), Some(<<Until("}", <<N("sig")>>)>>), K("}")>>)
method_sig(s) == R("Sig", <<N("doc"), N("fn")>>)
parse_trait(s) == R("Trait", <<K("trait"), Id, K("{"), Some(<<Until("}", <<N("sig")>>)>>), K("}")>>)
parse_enum(s)  == R("Enum", <<K("enum"), Id, K("{"), Some(<<Until("}", <<N("variant")>>)>>), K("}")>>)
variant_end(s) == IF peek(s) \in {"}", ","} THEN R("", <<May(",")>>) ELSE R("", <<K(";")>>)
parse_enum_variant(s) == R("Variant", <<N("doc"), Id, N("variant_args"), N("variant_end")>>)
variant_args(s) == R("", IF peek(s) = "(" THEN <<K("("), SepT("variant_arg", ")")>> ELSE <<None>>)
variant_arg(s) == R("", IF peek(s) \in Idents /\ ahead(s, 1) = ":" THEN <<K(peek(s)), K(":"), Type>> ELSE <<Type>>)
parse_import(s) == R("Import", <<K("import"), Some(<<Id, Many({".", "::"}, <<Id>>)>>), Opt("as", <<Id>>), K(";")>>)
parse_module(s) == R("Module", <<K("module"), Some(<<Id, Many({"."}, <<Id>>)>>), May(";")>>)
parse_namespace(s) == R("Namespace", <<K("namespace"), Some(<<Id, Many({"."}, <<Id>>)>>), K("{"), <<"members">>, K("}")>>)
take_doc(s) == R("", <<IF peek(s) = "doc" THEN Some(<<Take>>) ELSE None>>)


decl_kind(s) ==
    CASE peek(s) = "async" -> R("", <<K("async"), N("fn")>>)
      [] peek(s) \in {"fn", "class", "interface", "enum", "trait", "import", "module",
                      "namespace", "extern", "immutable"} -> R("", <<N(peek(s))>>)
      [] OTHER -> R("", <<K("declaration")>>)
parse_decl(s) == R("Decl", <<N("annotations"), N("doc"), N("async_mark"), N("decl_kind")>>)
NamespaceMembers == {"class", "interface", "enum", "trait", "immutable", "extern", "fn", "async"}

(* @Name or @Name(args): errors in the arguments are dropped. *)
annotation(s) == R("Annotation", <<K("@"), Id, N("annotation_args")>>)
annotation_args(s) ==
    CASE peek(s) # "(" -> R("", <<None>>)
      [] ahead(s, 1) = ")" -> R("", <<K("("), K(")"), None>>)
      [] OTHER -> R("", <<K("("), Some(<<Try(<<N("annotation_arg"), Many({","}, <<Try(<<N("annotation_arg")>>)>>)>>)>>),
                          Try(<<K(")")>>)>>)
parse_annotation_arg(s) ==
    CASE peek(s) \in Literals \ {"'c'", "b'c'", "null"} -> R("Lit", <<Take>>)
      [] peek(s) = "[" -> R("AList", <<K("["), SepT("annotation_arg", "]")>>)
      [] peek(s) \in Idents -> R("AEnum", <<Take, K("."), N("plain_ident")>>)
      [] OTHER -> R("", <<K("argument")>>)

(* Statements. *)
parse_let_stmt(s) == R(IF peek(s) = "let" THEN "Let" ELSE "Var",
                       <<K(peek(s)), Id, Opt(":", <<Type>>), Opt("=", <<Expr>>), K(";")>>)
parse_if_stmt(s)  == R("If", <<K("if"), Expr, N("block"), Opt("else", <<N("else")>>)>>)
else_branch(s)    == R("", <<N(IF peek(s) = "if" THEN "if_stmt" ELSE "block")>>)
parse_while_stmt(s) == R("While", <<K("while"), Expr, N("block")>>)
parse_for_stmt(s) ==
    IF ahead(s, 1) # "(" THEN R("For", <<K("for"), Id, K("in"), Expr, N("block")>>)
    ELSE R("ForC", <<K("for"), K("("), N("for_init"), N("for_cond"), K(";"), N("for_update"), K(")"), N("block")>>)
for_init(s) ==
    CASE peek(s) = ";" -> R("", <<K(";"), None>>)
      [] peek(s) \in {"let", "var"} -> R("", <<Some(<<N("let_stmt")>>)>>)
      [] OTHER -> R("", <<Some(<<N("init_expr")>>)>>)
init_expr(s)  == R("ExprStmt", <<Expr, K(";")>>)
for_cond(s)   == R("", IF peek(s) = ";" THEN <<K(";"), None>> ELSE <<Some(<<Expr>>)>>)
for_update(s) == R("", IF peek(s) = ")" THEN <<None>> ELSE <<Some(<<Expr>>)>>)
parse_loop_stmt(s)   == R("Loop", <<K("loop"), N("block")>>)
parse_return_stmt(s) == R("Return", IF ahead(s, 1) = ";" THEN <<K("return"), None, K(";")>>
                                    ELSE <<K("return"), Some(<<Expr>>), K(";")>>)
parse_throw_stmt(s)  == R("Throw", <<K("throw"), Expr, K(";")>>)
parse_try_stmt(s)    == R("Try", <<K("try"), N("block"), Some(<<Many({"catch"}, <<N("catch")>>)>>), Opt("finally", <<N("block")>>)>>)
catch_clause(s) == R("Catch", IF peek(s) = "(" THEN <<K("("), Id, K(":"), Type, K(")"), N("block")>>
                              ELSE <<Id, K(":"), Type, N("block")>>)
parse_defer_stmt(s)  == R("Defer", <<K("defer"), N("stmt")>>)
parse_select_stmt(s) == R("Select", <<K("select"), K("{"), Until("}", <<N("select_arm")>>), K("}")>>)
select_arm(s) ==
    CASE peek(s) = "default" -> R("Default", <<K("default"), N("block")>>)
      [] peek(s) = "recv" -> R("Arm", <<K("recv"), Expr, K("->"), Id, N("block")>>)
      [] OTHER -> R("", <<K("arm")>>)
parse_block(s) == R("Block", <<K("{"), <<"stmts">>, K("}")>>)

parse_stmt_inner(s) ==
    CASE peek(s) \in {"let", "var"} -> parse_let_stmt(s)
      [] peek(s) = "if" -> parse_if_stmt(s)
      [] peek(s) = "while" -> parse_while_stmt(s)
      [] peek(s) = "for" -> parse_for_stmt(s)
      [] peek(s) = "loop" -> parse_loop_stmt(s)
      [] peek(s) = "return" -> parse_return_stmt(s)
      [] peek(s) = "break" -> R("Break", <<K("break"), K(";")>>)
      [] peek(s) = "continue" -> R("Continue", <<K("continue"), K(";")>>)
      [] peek(s) = "throw" -> parse_throw_stmt(s)
      [] peek(s) = "try" -> parse_try_stmt(s)
      [] peek(s) = "defer" -> parse_defer_stmt(s)
      [] peek(s) = "select" -> parse_select_stmt(s)
      [] peek(s) = "{" -> parse_block(s)
      [] peek(s) = ";" -> R("Empty", <<K(";")>>)
      [] peek(s) \in Idents -> R("", <<<<"ident_stmt">>>>)
      [] OTHER -> R("", <<<<"expr_stmt">>>>)
-----------------------------------------------------------------------------
(* Expressions.  CloseAt: the position after the > that closes a < opened
   before q (a >> closes two, a >>> none), or the end of the tokens. *)
RECURSIVE CloseAt(_, _, _)
CloseAt(t, q, depth) ==
    CASE q > Len(t) \/ depth <= 0 -> q
      [] t[q] = "<"  -> CloseAt(t, q + 1, depth + 1)
      [] t[q] = ">"  -> CloseAt(t, q + 1, depth - 1)
      [] t[q] = ">>" -> CloseAt(t, q + 1, depth - 2)
      [] OTHER -> CloseAt(t, q + 1, depth)

(* Whether <types> starts n tokens ahead and is followed by k. *)
is_generic(s, n, k) ==
    /\ ahead(s, n) = "<" /\ ahead(s, n + 1) \in Idents
    /\ LET q == CloseAt(s.t, s.p + n + 2, 1) IN q <= Len(s.t) /\ s.t[q] = k
TypeArgs == <<K("<"), Some(<<Type, Many({","}, <<Type>>)>>), Close>>
Args == <<K("("), Sep("expr", ")")>>

dot_suffix(s) == IF ahead(s, 2) = "(" THEN R("MethodCall", <<K("."), Id>> \o Args) ELSE R("Field", <<K("."), Id>>)
index_suffix(s) == R("Index", <<K("["), Expr, K("]")>>)
path_suffix(s) == IF peek(s) = "." THEN dot_suffix(s)
                  ELSE R("EnumValue", <<K("::"), Id, None, N("call_args")>>)
call_args(s) == R("", IF peek(s) = "(" THEN Args ELSE <<None>>)
named_arg(s) == R("", IF peek(s) \in Idents /\ ahead(s, 1) = ":" THEN <<K(peek(s)), K(":"), Expr>> ELSE <<Expr>>)

(* An expression without the type arguments that wait for a :: *)
Bare(e) == IF e[1] = "TypeArgs" THEN e[2] ELSE e

(* The suffix that follows e; a type's static call keeps its type arguments
   for the :: that comes next. *)
postfix_suffix(s, e) ==
    LET name == <<K("."), N("method_name")>>
        onType == e[1] = "Ident" /\ e[2] \in Uppers
        named == ahead(s, 2) = "(" /\ ahead(s, 3) \in Idents /\ ahead(s, 4) = ":"
    IN  CASE peek(s) = "." /\ ahead(s, 1) \in Integers -> R("TupleIndex", <<K("."), Take>>)
          [] peek(s) = "." /\ onType /\ named -> R("EnumValue", name \o <<None, K("("), SepT("named_arg", ")")>>)
          [] peek(s) = "." /\ onType /\ ahead(s, 2) # "(" -> R("EnumValue", name \o <<None, None>>)
          [] peek(s) = "." /\ is_generic(s, 2, "(") -> R("MethodCall", name \o <<<<"skip_generic">>>> \o Args)
          [] peek(s) = "." /\ ahead(s, 2) = "(" -> R("MethodCall", name \o Args)
          [] peek(s) = "." -> R("Field", name)
          [] peek(s) = "::" /\ Bare(e)[1] # "Ident" -> R("", <<K("enum name")>>)
          [] peek(s) = "::" /\ e[1] = "Ident" /\ is_generic(s, 2, "(") ->
                R("EnumValue", <<K("::"), N("method_name")>> \o TypeArgs \o <<N("call_args")>>)
          [] peek(s) = "::" -> R("EnumValue", <<K("::"), N("method_name"), None, N("call_args")>>)
          [] is_generic(s, 0, "::") -> R("TypeArgs", TypeArgs)
          [] peek(s) = "[" -> index_suffix(s)
          [] peek(s) = ".." -> R("Range", <<K(".."), N("postfix")>>)
          [] peek(s) = "..." -> R("RangeIncl", <<K("..."), N("postfix")>>)
          [] peek(s) = "(" -> R("Call", Args)
          [] OTHER -> R("", <<>>)

suffix(kind, s, e, stage) ==
    LET when(k, rule) == IF peek(s) = k THEN rule ELSE R("", <<>>)
    IN  CASE kind = "postfix" -> postfix_suffix(s, e)
          [] kind = "type"  -> TypeSuffix(s, stage)
          [] kind = "as"    -> when("as", R("Cast", <<K("as"), Type>>))
          [] kind = "index" -> when("[", index_suffix(s))
          [] kind = "dots"  -> when(".", dot_suffix(s))
          [] kind = "path"  -> IF peek(s) \in {"::", "."} THEN path_suffix(s) ELSE R("", <<>>)
          [] kind = "ternary" -> when("?", R("IfE", <<K("?"), N("or"), K(":"), Some(<<N("ternary")>>)>>))
          [] stage > 0 -> R("", <<>>)
          [] OTHER -> IF peek(s) = "," THEN R("Tuple", <<K(","), Some(<<Expr, Many({","}, <<Expr>>)>>), K(")")>>)
                      ELSE R("Group", <<K(")")>>)

(* e with a suffix x put around it. *)
Wrap(e, x) ==
    CASE x[1] = "Group" -> e
      [] x[1] = "EnumValue" ->
            <<"EnumValue", IF Bare(e)[1] = "Ident" THEN Bare(e)[2] ELSE x[2], x[2],
              IF e[1] = "TypeArgs" THEN e[3] ELSE x[3], x[4]>>
      [] x[1] = "Tuple" -> <<"Tuple", <<Bare(e)>> \o x[2]>>
      [] x[1] = "TFnOf" -> <<"TFn", <<e>> \o x[2], x[3]>>
      [] OTHER -> <<x[1], Bare(e)>> \o Tail(x)

parse_if_expr(s)    == R("IfE", <<K("if"), Expr, Expr, Opt("else", <<Expr>>)>>)
parse_while_expr(s) == R("WhileE", <<K("while"), Expr, Expr>>)
parse_loop_expr(s)  == R("LoopE", <<K("loop"), Expr>>)
parse_match_expr(s) == R("Match", <<K("match"), Expr, K("{"), Some(<<Until("}", <<N("case")>>)>>), K("}")>>)
match_case(s)       == R("Case", <<N("pattern"), Opt("if", <<Expr>>), K("=>"), <<"case_body">>>>)
parse_pattern(s) ==
    CASE peek(s) = "_" -> R("PWild", <<K("_")>>)
      [] peek(s) = "(" -> R("PTuple", <<K("("), Sep("pattern", ")")>>)
      [] peek(s) \in Literals \ {"null"} -> R("PLit", <<Take>>)
      [] ahead(s, 1) \in {"::", "."} -> R("PEnum", <<Id, K(ahead(s, 1)), Id, N("pattern_args")>>)
      [] ahead(s, 1) = "(" -> R("PCtor", <<Id, N("pattern_args")>>)
      [] OTHER -> R("PIdent", <<Id>>)
pattern_args(s) == R("", IF peek(s) = "(" THEN <<K("("), Sep("pattern", ")")>> ELSE <<None>>)
parse_new_expr(s) == R("New", <<K("new"), Id, N("new_types")>> \o Args)
new_types(s) == R("", IF peek(s) = "<" THEN <<K("<"), Some(<<Type, Many({","}, <<Type>>)>>), K(">")>> ELSE <<None>>)
parse_prefix_expr(s) ==
    CASE peek(s) = "spawn" -> R("Spawn", <<K("spawn"), Expr>>)
      [] peek(s) = "await" -> R("Await", <<K("await"), Expr>>)
      [] peek(s) = "send"  -> R("Send", <<K("send"), Expr, K("->"), Expr>>)
      [] peek(s) = "recv"  -> R("Recv", <<K("recv"), Expr>>)
      [] peek(s) = "cast"  -> R("Cast", <<K("cast"), N("unary"), K("as"), Type>>)
      [] OTHER -> R("Is", <<K("is"), Expr, K("->"), Type>>)
parse_lambda(s)       == R("Lambda", <<K("\\"), Sep("lambda_param", "->"), None, Expr>>)
parse_typed_lambda(s) == R("Lambda", <<K("("), SepT("lambda_param", ")"), K("=>"), None, N("assign")>>)
parse_fn_lambda(s)    == R("Lambda", <<K(peek(s)), K("("), SepT("lambda_param", ")"), Opt("->", <<Type>>), Expr>>)
(* mutant: the type of a lambda's parameter is not kept *)
parse_lambda_param_bare(s) == R("LParam", <<Id>>)

parse_lambda_param(s) == R("LParam", <<Id, Opt(":", <<Type>>)>>)
parse_tuple_or_grouped(s) == IF ahead(s, 1) = ")" THEN R("BlockE", <<K("("), K(")"), None>>)
                             ELSE R("", <<K("("), Chain("expr", "group")>>)
field_init(s) == R("Init", <<Id, K(":"), Expr>>)
map_entry(s)  == R("Entry", <<Expr, K("=>"), Expr>>)

(* An identifier, or Name { field: ... }: type arguments before a brace are
   stepped over, whether a struct literal follows or not. *)
ident_expr(s) ==
    LET close == CloseAt(s.t, s.p + 2, 1)
        q == IF ahead(s, 1) = "<" /\ close <= Len(s.t) /\ s.t[close] = "{" THEN close - s.p ELSE 1
        struct == /\ ahead(s, q) = "{"
                  /\ ahead(s, q + 1) = "}" \/ (ahead(s, q + 1) \in Idents /\ ahead(s, q + 2) = ":")
    IN  IF struct THEN R("Struct", <<Take, <<"jump", s.p + q>>, K("{"), SepT("field_init", "}")>>)
        ELSE R("Ident", <<Take, <<"jump", s.p + q>>>>)

(* (Int64)e is a cast only before a token that can start an expression. *)
is_c_cast(s) == /\ ahead(s, 1) \in Primitive /\ ahead(s, 2) = ")"
                /\ ahead(s, 3) \in Idents \cup Integers \cup {"1.5", "-", "!", "(", "this"}

parse_primary_expr(s) ==
    CASE peek(s) = "@" -> R("MapLit", <<K("@"), K("{"), SepT("map_entry", "}")>>)
      [] peek(s) = "[" -> R("Array", <<K("["), SepT("expr", "]")>>)
      [] peek(s) \in Literals -> R("Lit", <<Take>>)
      [] peek(s) \in DOMAIN InterpParts -> R("", <<<<"interp">>>>)
      [] peek(s) \in {"this", "channel", "break", "continue"} -> R("Word", <<Take>>)
      [] peek(s) = "super" -> R("SuperCall", <<K("super"), K("."), Id>> \o Args)
      [] peek(s) = "if" -> parse_if_expr(s)
      [] peek(s) = "while" -> parse_while_expr(s)
      [] peek(s) = "loop" -> parse_loop_expr(s)
      [] peek(s) = "match" -> parse_match_expr(s)
      [] peek(s) = "new" -> parse_new_expr(s)
      [] peek(s) \in {"spawn", "await", "send", "recv", "cast", "is"} -> parse_prefix_expr(s)
      [] peek(s) = "return" -> R("ReturnE", IF ahead(s, 1) \in {";", "}", ")"} THEN <<K("return"), None>>
                                            ELSE <<K("return"), Some(<<Expr>>)>>)
      [] peek(s) = "\\" -> parse_lambda(s)
      [] peek(s) \in {"fn", "fnc"} /\ ahead(s, 1) = "(" -> parse_fn_lambda(s)
      [] peek(s) = "(" /\ ahead(s, 1) \in Idents /\ ahead(s, 2) = ":" -> parse_typed_lambda(s)
      [] peek(s) = "(" /\ is_c_cast(s) -> R("CCast", <<K("("), Type, K(")"), N("unary")>>)
      [] peek(s) = "(" -> parse_tuple_or_grouped(s)
      [] peek(s) = "{" -> R("BlockE", <<K("{"), <<"stmts">>, K("}")>>)
      [] peek(s) \in Idents -> ident_expr(s)
      [] peek(s) = "default" -> R("Ident", <<Take>>)
      [] OTHER -> R("", <<K("expression")>>)

parse_unary_expr(s) ==
    CASE peek(s) = "+" -> R("", <<K("+"), N("unary")>>)
      [] peek(s) \in {"-", "!", "~"} -> R("Unary", <<Take, N("unary")>>)
      [] OTHER -> R("", <<Chain("primary", "postfix")>>)
-----------------------------------------------------------------------------
Word(s, words) == R("", <<IF peek(s) \in words THEN Take ELSE K("identifier")>>)
Flag(s, words, yes, no) == R("", IF peek(s) \in words THEN <<K(peek(s)), <<"word", yes>>>> ELSE <<<<"word", no>>>>)

Rule(f, s) ==
    CASE f = "expr" -> R("", <<N("assign")>>)
      [] f = "stmt" -> parse_stmt_inner(s)
      [] f = "assign" -> R("", <<<<"assign">>>>)
      [] f = "ternary" -> R("", <<Chain("or", "ternary")>>)
      [] f = "or" -> R("", <<<<"binary", 1>>>>)
      [] f = "as" -> R("", <<Chain("unary", "as")>>)
      [] f = "unary" -> parse_unary_expr(s)
      [] f = "postfix" -> R("", <<Chain("primary", "postfix")>>)
      [] f = "primary" -> parse_primary_expr(s)
      [] f = "ident" -> Word(s, AsIdent)
      [] f = "plain_ident" -> Word(s, Idents)
      [] f = "method_name" -> Word(s, AsMethod)
      [] f = "type" -> parse_type(s)
      [] f = "type_base" -> parse_type_base(s)
      [] f = "ret" -> ret_type(s)
      [] f = "block" -> parse_block(s)
      [] f = "if_stmt" -> parse_if_stmt(s)
      [] f = "else" -> else_branch(s)
      [] f = "let_stmt" -> parse_let_stmt(s)
      [] f = "for_init" -> for_init(s)
      [] f = "init_expr" -> init_expr(s)
      [] f = "for_cond" -> for_cond(s)
      [] f = "for_update" -> for_update(s)
      [] f = "catch" -> catch_clause(s)
      [] f = "select_arm" -> select_arm(s)
      [] f = "call_args" -> call_args(s)
      [] f = "named_arg" -> named_arg(s)
      [] f = "new_types" -> new_types(s)
      [] f = "case" -> match_case(s)
      [] f = "pattern" -> parse_pattern(s)
      [] f = "pattern_args" -> pattern_args(s)
      [] f = "lambda_param" -> parse_lambda_param(s)
      [] f = "field_init" -> field_init(s)
      [] f = "map_entry" -> map_entry(s)
      [] f = "annotations" -> R("", <<<<"annotations">>>>)
      [] f = "annotation" -> annotation(s)
      [] f = "annotation_args" -> annotation_args(s)
      [] f = "annotation_arg" -> parse_annotation_arg(s)
      [] f = "decl" -> parse_decl(s)
      [] f = "decl_kind" -> decl_kind(s)
      [] f = "async_mark" -> R("", <<<<"word", IF peek(s) = "async" THEN "async" ELSE "sync">>>>)
      [] f = "doc" -> take_doc(s)
      [] f = "fn" -> parse_fn(s)
      [] f = "fn_body" -> fn_body(s)
      [] f = "param" -> parse_param(s)
      [] f = "type_params" -> parse_type_params(s)
      [] f = "class" -> parse_class(s)
      [] f = "member" -> class_member(s)
      [] f = "member_kind" -> member_kind(s)
      [] f = "visibility" -> parse_visibility(s)
      [] f = "mutable" -> Flag(s, {"var", "let", "mut"}, "var", "fixed")
      [] f = "async" -> Flag(s, {"async"}, "async", "sync")
      [] f = "interface" -> parse_interface(s)
      [] f = "trait" -> parse_trait(s)
      [] f = "enum" -> parse_enum(s)
      [] f = "variant" -> parse_enum_variant(s)
      [] f = "variant_args" -> variant_args(s)
      [] f = "sig" -> method_sig(s)
      [] f = "variant_arg" -> variant_arg(s)
      [] f = "variant_end" -> variant_end(s)
      [] f = "import" -> parse_import(s)
      [] f = "module" -> parse_module(s)
      [] f = "namespace" -> parse_namespace(s)
      [] f = "extern" -> parse_extern_fn(s)
      [] f = "immutable" -> parse_immutable(s)
-----------------------------------------------------------------------------
(* mutant: a keyword where the error was met is not stepped over *)
synchronize_stuck(s) ==
    LET q == Min({i \in s.p..Len(s.t) + 1 : i = Len(s.t) + 1 \/ s.t[i] \in SyncOn \cup {";"}})
    IN  [s EXCEPT !.p = IF q <= Len(s.t) /\ s.t[q] = ";" THEN q + 1 ELSE q, !.e = 1]

(* After an error: to the token after the next semicolon, or to a keyword
   further on. *)
synchronize(s) ==
    LET q == Min({i \in s.p..Len(s.t) + 1 :
                    i = Len(s.t) + 1 \/ s.t[i] = ";" \/ (i > s.p /\ s.t[i] \in SyncOn)})
    IN  [s EXCEPT !.p = IF q <= Len(s.t) /\ s.t[q] = ";" THEN q + 1 ELSE q, !.e = 1]

(* >> and >>> close one type and leave the rest of the token. *)
expect_generic_close(s) ==
    CASE peek(s) = ">"   -> Ok(bump(s), <<>>)
      [] peek(s) = ">>"  -> Ok([s EXCEPT !.t[s.p] = ">"], <<>>)
      [] peek(s) = ">>>" -> Ok([s EXCEPT !.t[s.p] = ">>"], <<>>)
      [] OTHER -> Fail(s)

(* What a declaration keeps of its annotations and doc comment. *)
DeclNode(anns, doc, async, kind, inNamespace) ==
    LET bare == kind[1] \in {"Extern", "Import", "Module"} \/ (inNamespace /\ kind[1] = "Immutable")
        noDoc == bare \/ kind[1] = "Namespace" \/ (inNamespace /\ kind[1] = "Function")
    IN  <<"Decl", IF bare THEN <<>> ELSE anns, IF noDoc THEN <<>> ELSE doc, async, kind>>

(* The nodes a finished rule leaves. *)
Node(label, n) ==
    CASE label = "" -> n
      [] label = "Decl" -> <<DeclNode(n[1], n[2], n[3], n[4], FALSE)>>
      [] label = "CCast" -> <<<<"Cast", n[2], n[1]>>>>
      [] label = "Class" ->
            LET members == SubSeq(n, 5, Len(n))
            IN  <<<<"Class">> \o SubSeq(n, 1, 4) \o <<SelectSeq(members, LAMBDA m : m[7][1] = "FieldDef"),
                                                      SelectSeq(members, LAMBDA m : m[7][1] = "Method")>>>>
      [] label = "Select" ->
            LET defaults == SelectSeq(n, LAMBDA a : a[1] = "Default")
            IN  <<<<"Select", SelectSeq(n, LAMBDA a : a[1] = "Arm"),
                    IF defaults = <<>> THEN <<>> ELSE <<defaults[Len(defaults)][2]>>>>>>
      [] OTHER -> <<<<label>> \o n>>

RECURSIVE Parse(_, _), Items(_, _, _), Call(_, _), Suffixes(_, _, _, _), Binary(_, _), Climb(_, _, _, _), Stmts(_, _),
          Members(_, _), Annotations(_, _), Interp(_, _), List(_, _, _, _), Loop(_, _, _, _, _)

Items(items, s, n) ==
    IF items = <<>> THEN Ok(s, n)
    ELSE The({IF r.ok THEN Items(Tail(items), r.s, n \o r.n) ELSE r : r \in {Parse(Head(items), s)}})

(* r's nodes turned into others. *)
Then(r0, F(_)) == The({IF r.ok THEN Ok(r.s, F(r.n)) ELSE r : r \in {r0}})


(* parse_expr and parse_stmt count their nesting. *)
too_deep(f, s) == f \in {"expr", "stmt"} /\ s.d >= MaxDepth

Call(f, s) ==
    IF too_deep(f, s) THEN Fail(s)
    ELSE The({IF r.ok THEN Ok([r.s EXCEPT !.d = s.d], Node(rule.label, r.n)) ELSE Fail([r.s EXCEPT !.d = s.d]) :
                <<rule, r>> \in {<<rule, Items(rule.items, IF f \in {"expr", "stmt"} THEN [s EXCEPT !.d = @ + 1] ELSE s, <<>>)>> :
                                    rule \in {Rule(f, s)}}})

(* A list already past its first element. *)
List(f, s, item, n) ==
    LET close == item[3]
    IN  IF peek(s) = "," /\ ~(item[4] /\ ahead(s, 1) = close)
        THEN The({IF r.ok THEN List(f, r.s, item, n \o r.n) ELSE r : r \in {Call(f, bump(s))}})
        ELSE LET at == IF peek(s) = "," THEN bump(s) ELSE s
             IN  IF peek(at) = close THEN Ok(bump(at), <<n>>) ELSE Fail(at)

(* items over and over: while one of ks is next and consumed, or until it is. *)
Loop(ks, until, items, s, n) ==
    IF (peek(s) \in ks) = until THEN Ok(s, n)
    ELSE The({IF r.ok THEN Loop(ks, until, items, r.s, n \o r.n) ELSE r :
                r \in {Items(items, IF until THEN s ELSE bump(s), <<>>)}})

StageAfter(label, stage) ==
    CASE label = "TArray" -> 0 [] label = "TRef" -> 2 [] label = "TNullable" -> 3
      [] label = "TFnOf" -> 4 [] OTHER -> stage + 1

(* e and the suffixes that follow it; a postfix chain has a bound of its own. *)
Suffixes(kind, s, e, stage) ==
    IF kind = "postfix" /\ stage >= MaxDepth THEN Fail(s)
    ELSE The({IF rule.items = <<>> THEN Ok(s, <<Bare(e)>>)
              ELSE The({IF r.ok THEN Suffixes(kind, r.s, Wrap(e, <<rule.label>> \o r.n), StageAfter(rule.label, stage)) ELSE r :
                          r \in {Items(rule.items, s, <<>>)}}) :
                rule \in {suffix(kind, s, e, stage)}})

(* The levels of binary operators call each other down to parse_as before they
   look at an operator: the first operand is read, then each level from the
   tightest up to this one takes its operators, to the left. *)
Binary(level, s) ==
    The({IF r.ok THEN Climb(Len(Levels), level, r.s, r.n[1]) ELSE r : r \in {Call("as", s)}})

Operators(s, low, high) == {k \in low..high : peek(s) \in Levels[k]}

(* mutant: operators of one level group to the right *)
ClimbRight(top, level, s, e) ==
    IF Operators(s, level, top) = {} THEN Ok(s, <<e>>)
    ELSE The({IF q[2].ok THEN Climb(q[1], level, q[2].s, <<"Binary", peek(s), e, q[2].n[1]>>) ELSE q[2] :
                q \in {<<k, Binary(k, bump(s))>> : k \in Operators(s, level, top)}})

(* The operand e is read and no operator of a level above top can follow it. *)
Climb(top, level, s, e) ==
    IF Operators(s, level, top) = {} THEN Ok(s, <<e>>)
    ELSE The({IF q[2].ok THEN Climb(q[1], level, q[2].s, <<"Binary", peek(s), e, q[2].n[1]>>) ELSE q[2] :
                q \in {<<k, Binary(k + 1, bump(s))>> : k \in Operators(s, level, top)}})

LambdaParams(e) == LET names == IF e[1] = "Ident" THEN <<e>> ELSE e[2]
                   IN  [i \in 1..Len(names) |-> <<"LParam", names[i][2], <<>>>>]

(* A lambda's arrow, an assignment, or nothing after a ternary; all of them
   group to the right. *)
parse_assign_expr(s, e) ==
    CASE e[1] \in {"Ident", "Tuple"} /\ peek(s) = "=>" ->
            IF e[1] = "Tuple" /\ \E i \in 1..Len(e[2]) : e[2][i][1] # "Ident" THEN Fail(bump(s))
            ELSE Then(Call("assign", bump(s)), LAMBDA n : <<<<"Lambda", LambdaParams(e), <<>>, n[1]>>>>)
      [] peek(s) = "=" -> Then(Call("assign", bump(s)), LAMBDA n : <<<<"Assign", e, n[1]>>>>)
      [] peek(s) \in Compound -> Then(Call("assign", bump(s)), LAMBDA n : <<<<"CompoundAssign", peek(s), e, n[1]>>>>)
      [] OTHER -> Ok(s, <<e>>)

(* mutant: a compound assignment keeps its target only *)
stmt_end_forgets(s, e, kinds) ==
    IF peek(s) = ";" THEN Ok(bump(s), <<<<"ExprStmt", e>>>>)
    ELSE Then(Items(<<Expr, K(";")>>, bump(s), <<>>), LAMBDA n : <<<<"ExprStmt", e>>>>)

(* The end of a statement that began with an identifier: kinds says which
   assignments are taken here. *)
stmt_end(s, e, kinds) ==
    LET finish(at, F(_)) == Then(Items(<<Expr, K(";")>>, at, <<>>), F)
    IN  CASE peek(s) = "=" /\ "=" \in kinds -> finish(bump(s), LAMBDA n : <<<<"Assignment", e, n[1]>>>>)
          [] peek(s) \in Compound /\ "op" \in kinds ->
                finish(bump(s), LAMBDA n : <<<<"ExprStmt", <<"CompoundAssign", peek(s), e, n[1]>>>>>>)
          [] OTHER -> Then(Items(<<K(";")>>, s, <<>>), LAMBDA n : <<<<"ExprStmt", e>>>>)

(* obj.field... : a field may be assigned to; an index after it starts another
   chain, whose end may be assigned to as well. *)
dot_stmt(s, e) ==
    The({CASE ~r.ok -> r
           [] r.ok /\ peek(r.s) # "[" -> stmt_end(r.s, r.n[1], IF r.n[1][1] = "Field" THEN {"="} ELSE {})
           [] OTHER ->
                The({IF i.ok /\ peek(i.s) # "="
                     THEN The({IF c.ok THEN stmt_end(c.s, c.n[1], {"=", "op"}) ELSE c :
                                 c \in {Suffixes("dots", i.s, i.n[1], 0)}})
                     ELSE IF i.ok THEN stmt_end(i.s, i.n[1], {"="}) ELSE i :
                       i \in {Suffixes("index", r.s, r.n[1], 0)}}) :
           r \in {Suffixes("dots", s, e, 0)}})

(* name[i]...: assigned to, called, or followed by a chain of fields. *)
index_stmt(s, e) ==
    The({CASE ~r.ok -> r
           [] r.ok /\ peek(r.s) = "(" -> The({IF c.ok THEN stmt_end(c.s, <<"Call", r.n[1], c.n[1]>>, {}) ELSE c :
                                                c \in {Items(Args, r.s, <<>>)}})
           [] r.ok /\ peek(r.s) = "." -> The({IF c.ok THEN stmt_end(c.s, c.n[1], IF c.n[1][1] = "Field" THEN {"="} ELSE {}) ELSE c :
                                                c \in {Suffixes("dots", r.s, r.n[1], 0)}})
           [] OTHER -> stmt_end(r.s, r.n[1], {"=", "op"}) :
           r \in {Suffixes("index", s, e, 0)}})

ident_stmt(s) ==
    LET e == <<"Ident", peek(s)>>
        at == bump(s)
    IN  CASE peek(at) = "[" -> index_stmt(at, e)
          [] peek(at) = "." -> dot_stmt(at, e)
          [] peek(at) = "(" -> The({IF c.ok THEN stmt_end(c.s, <<"Call", e, c.n[1]>>, {}) ELSE c : c \in {Items(Args, at, <<>>)}})
          [] peek(at) = "::" -> The({IF c.ok THEN stmt_end(c.s, c.n[1], {}) ELSE c : c \in {Suffixes("path", at, e, 0)}})
          [] OTHER -> stmt_end(at, e, {"=", "op"})

(* Any other expression: a block-like one, or the last of a block, needs no
   semicolon. *)
expr_stmt(s) ==
    The({CASE ~r.ok -> r
           [] r.n[1][1] \in {"Match", "BlockE", "IfE"} \/ peek(r.s) = "}" ->
                Ok(IF peek(r.s) = ";" THEN bump(r.s) ELSE r.s, <<<<"ExprStmt", r.n[1]>>>>)
           [] OTHER -> stmt_end(r.s, r.n[1], {}) : r \in {Call("expr", s)}})

(* A case's body: a comma or semicolon after it, unless it is a block or the last. *)
case_body(s) ==
    The({CASE ~r.ok -> r
           [] r.n[1][1] = "BlockE" -> Items(<<May(","), May(";")>>, r.s, r.n)
           [] peek(r.s) = "}" -> r
           [] OTHER -> Items(<<K(IF peek(r.s) = "," THEN "," ELSE ";")>>, r.s, r.n) : r \in {Call("expr", s)}})

(* parse_block_stmts: an error is noted and the block goes on after it. *)
Stmts(s, n) ==
    IF peek(s) \in {"}", "eof"} THEN Ok(s, <<n>>)
    ELSE The({IF r.ok THEN Stmts(r.s, n \o r.n)
              ELSE The({IF peek(at) = "}" THEN Ok(at, <<n>>) ELSE Stmts(at, n) : at \in {synchronize(r.s)}}) :
                r \in {Call("stmt", s)}})

(* A namespace's declarations: doc comment, then annotations. *)
Members(s, n) ==
    IF peek(s) \in {"}", "eof"} THEN Ok(s, <<n>>)
    ELSE The({IF peek(a.s) \notin NamespaceMembers THEN Members(synchronize(a.s), n)
              ELSE The({IF r.ok THEN Members(r.s, Append(n, DeclNode(a.n[2], a.n[1], r.n[1], r.n[2], TRUE))) ELSE r :
                          r \in {Items(<<N("async_mark"), N("decl_kind")>>, a.s, <<>>)}}) :
                a \in {Items(<<N("doc"), N("annotations")>>, s, <<>>)}})

Annotations(s, n) ==
    IF ~(peek(s) = "@" /\ ahead(s, 1) \in Idents) THEN Ok(s, <<n>>)
    ELSE The({Annotations(r.s, n \o r.n) : r \in {Call("annotation", s)}})

(* An interpolated string: the parts, each expression in a toString, added up;
   an expression is read from its own tokens, and what follows it is dropped. *)
Interp(parts, e) ==
    IF parts = <<>> THEN Ok(Start(<<>>), <<e>>)
    ELSE LET part == Head(parts)
             add(x) == Interp(Tail(parts), IF e = <<"Lit", "">> THEN x ELSE <<"Binary", "+", e, x>>)
         IN  IF part.str THEN add(<<"Lit", "str">>)
             ELSE The({IF r.ok THEN add(<<"Call", <<"Ident", "toString">>, r.n>>) ELSE r :
                         r \in {Call("expr", Start(part.toks))}})

Parse(item, s) ==
    LET op == item[1]
    IN  CASE op = "expect" -> IF peek(s) = item[2] THEN Ok(bump(s), <<>>) ELSE Fail(s)
          [] op = "call" -> Call(item[2], s)
          [] op = "take" -> Ok(bump(s), <<peek(s)>>)
          [] op = "word" -> Ok(s, <<item[2]>>)
          [] op = "none" -> Ok(s, <<<<>>>>)
          [] op = "may" -> Ok(IF peek(s) = item[2] THEN bump(s) ELSE s, <<>>)
          [] op = "some" -> Then(Items(item[2], s, <<>>), LAMBDA n : <<n>>)
          [] op = "opt" -> IF peek(s) # item[2] THEN Ok(s, <<<<>>>>)
                           ELSE Then(Items(item[3], bump(s), <<>>), LAMBDA n : <<n>>)
          [] op = "list" -> IF peek(s) = item[3] THEN Ok(bump(s), <<<<>>>>)
                            ELSE The({IF r.ok THEN List(item[2], r.s, item, r.n) ELSE r : r \in {Call(item[2], s)}})
          [] op = "many" -> Loop(item[2], FALSE, item[3], s, <<>>)
          [] op = "until" -> Loop({item[2]}, TRUE, item[3], s, <<>>)
          [] op = "try" -> The({IF r.ok THEN r ELSE Ok(r.s, <<>>) : r \in {Items(item[2], s, <<>>)}})
          [] op = "close" -> expect_generic_close(s)
          [] op = "skip" -> LET q == Min({i \in s.p..Len(s.t) + 1 : i = Len(s.t) + 1 \/ s.t[i] = item[2]})
                            IN  IF q > Len(s.t) THEN Fail([s EXCEPT !.p = q]) ELSE Ok([s EXCEPT !.p = q + 1], <<>>)
          [] op = "skip_generic" -> Ok([s EXCEPT !.p = CloseAt(s.t, s.p + 1, 1)], <<>>)
          [] op = "jump" -> Ok([s EXCEPT !.p = item[2]], <<>>)
          [] op = "binary" -> Binary(item[2], s)
          [] op = "assign" -> The({IF r.ok THEN parse_assign_expr(r.s, r.n[1]) ELSE r : r \in {Call("ternary", s)}})
          [] op = "chain" -> The({IF r.ok THEN Suffixes(item[3], r.s, r.n[1], 0) ELSE r : r \in {Call(item[2], s)}})
          [] op = "stmts" -> Stmts(s, <<>>)
          [] op = "members" -> Members(s, <<>>)
          [] op = "annotations" -> Annotations(s, <<>>)
          [] op = "ident_stmt" -> ident_stmt(s)
          [] op = "expr_stmt" -> expr_stmt(s)
          [] op = "case_body" -> case_body(s)
          [] OTHER -> The({IF r.ok THEN Ok(bump(s), r.n) ELSE Fail(bump(s)) : r \in {Interp(InterpParts[peek(s)], <<"Lit", "">>)}})
-----------------------------------------------------------------------------
VARIABLES src, st, decls, done
pvars == <<src, st, decls, done>>

Init == src \in Inputs /\ st = Start(src) /\ decls = <<>> /\ done = FALSE

(* One round of parse's loop. *)
parse ==
    /\ ~done /\ UNCHANGED src
    /\ IF st.p > Len(st.t) THEN done' = TRUE /\ UNCHANGED <<st, decls>>
       ELSE \E r \in {Call("decl", st)} :
                /\ st' = IF r.ok THEN r.s ELSE synchronize(r.s)
                /\ decls' = IF r.ok THEN decls \o r.n ELSE decls
                /\ UNCHANGED done

Next == parse
Spec == Init /\ [][Next]_pvars /\ WF_pvars(Next)
=============================================================================
