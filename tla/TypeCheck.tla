------------------------------ MODULE TypeCheck ------------------------------
(***************************************************************************)
(* Checking the bodies of functions and methods (typecheck/lib.rs): the     *)
(* statements and expressions in the order the code visits them, with the   *)
(* visible variables, the loop flag and the type recorded for every         *)
(* expression.  An expression is inferred once; its type is looked up by    *)
(* its number afterwards, here by its path in the body.                     *)
(* A node under a path is a pair <<node, path>>; <<>> stands for no number. *)
(***************************************************************************)
EXTENDS Declarations, Loops

CONSTANTS LiteralType,    \* literal -> its type
          Variadic        \* functions of the runtime library whose arguments are not counted

VARIABLE checks    \* what was found, one per body: the state after it and whether it returns
vars == <<program, reg, phase, at, todo, checks>>

Kid(x, i)  == <<x[1][i + 1], x[2] \o <<i, 1>>>>
Kids(x, i) == [j \in 1..Len(x[1][i + 1]) |-> <<x[1][i + 1][j], x[2] \o <<i, j>>>>]
When(c, e) == IF c THEN {e} ELSE {}
Err(s, es) == [s EXCEPT !.errs = @ \cup es]
Bind(s, n, t, mutable) == [s EXCEPT !.vars = Insert(@, n, <<t, mutable>>)]
Restore(s, old) == [s EXCEPT !.vars = old.vars]
Ret(t, s) == [t |-> t, s |-> s]
Fits(a, b) == types_compatible(reg.implements, a, b)
NotCond(t) == t[1] \notin {"Bool", "Any", "Named"}
Wild(t) == t[1] \in {"Any", "Named"}
Numeric(t) == t[1] \in {"Int", "Float"}

Comparisons == {"==", "!=", "<", "<=", ">", ">="}
check_binary_op(op, l, r) ==
    \/ Wild(l) \/ Wild(r)
    \/ op \in {"+", "<", "<=", ">", ">="} /\ ((Numeric(l) /\ Numeric(r)) \/ (l[1] = "String" /\ r[1] = "String"))
    \/ op \in {"-", "*", "/", "%", "<<", ">>"} /\ Numeric(l) /\ Numeric(r)
    \/ op \in {"&&", "||"} /\ l[1] = "Bool" /\ r[1] = "Bool"
    \/ op \in {"&", "|", "^"} /\ l[1] = "Int" /\ r[1] = "Int"
    \/ op \in {"==", "!="} /\ (SameType(l, r) \/ (l = Null /\ is_nullable_ref(r)) \/ (r = Null /\ is_nullable_ref(l)))
(* mutant: a float in an arithmetic expression is forgotten *)
binary_result_type_int(op, l, r) ==
    CASE op \in Comparisons \cup {"&&", "||"} -> Boolean
      [] op = "+" /\ Text \in {l, r} -> Text
      [] OTHER -> IF Wild(l) \/ Wild(r) THEN AnyType ELSE Int64
binary_result_type(op, l, r) ==
    CASE op \in Comparisons \cup {"&&", "||"} -> Boolean
      [] op = "+" /\ Text \in {l, r} -> Text
      [] OTHER -> IF Wild(l) \/ Wild(r) THEN AnyType ELSE IF Float64 \in {l, r} THEN Float64 ELSE Int64
check_unary_op(op, t) == Wild(t) \/ (op = "-" /\ Numeric(t)) \/ (op = "!" /\ t[1] = "Bool") \/ (op = "~" /\ t[1] = "Int")
unary_result_type(op, t) == CASE op = "-" -> t [] op = "!" -> Boolean [] OTHER -> Int64

RECURSIVE LubAll(_)
LubAll(ts) == IF ts = <<>> THEN AnyType ELSE IF Len(ts) = 1 THEN ts[1] ELSE lub(LubAll(SubSeq(ts, 1, Len(ts) - 1)), ts[Len(ts)])

(* Whether member of class may be named inside class from. *)
is_subclass_or_equal(c, base) == c = base \/ \E i \in 1..Len(Ancestors(c)) : Ancestors(c)[i] = base \/ base \in Extends(ClassOf(Ancestors(c)[i]))
check_member_visibility(class, vis, from) ==
    CASE vis = "private" -> from = class
      [] vis = "protected" -> from # "" /\ is_subclass_or_equal(from, class)
      [] OTHER -> TRUE
Hidden(visOf, key, class, s) == key \in DOMAIN visOf /\ ~check_member_visibility(class, visOf[key], s.cls)

(* The variables a pattern binds, against the type of what is matched. *)
RECURSIVE bind_pattern_vars(_, _, _), bind_patterns(_, _, _)
bind_pattern_vars(p, t, s) ==
    CASE p[1] = "PIdent" -> Bind(s, p[2], t, FALSE)
      [] p[1] \in {"PEnum", "PCtor"} ->
            LET variant == IF p[1] = "PEnum" THEN p[3] ELSE p[2]
                args == p[Len(p)]
                key == <<t[2], variant>>
                known == t[1] = "Named" /\ key \in DOMAIN reg.payloads
            IN  bind_patterns(args, [i \in 1..Len(args) |-> IF known /\ i <= Len(reg.payloads[key]) THEN reg.payloads[key][i] ELSE AnyType], s)
      [] p[1] = "PTuple" -> bind_patterns(p[2], [i \in 1..Len(p[2]) |-> AnyType], s)
      [] OTHER -> s
bind_patterns(ps, ts, s) == IF ps = <<>> THEN s ELSE bind_patterns(Tail(ps), Tail(ts), bind_pattern_vars(Head(ps), Head(ts), s))

(* The expressions of a node whose type follows from those of its parts. *)
Operands(x) ==
    LET l == x[1][1]
    IN  CASE l \in {"Binary", "CompoundAssign"} -> <<Kid(x, 2), Kid(x, 3)>>
          [] l = "Unary" -> <<Kid(x, 2)>>
          [] l \in {"Index", "Range", "RangeIncl", "Send", "Assign", "WhileE"} -> <<Kid(x, 1), Kid(x, 2)>>
          [] l \in {"Spawn", "Await", "Recv", "Cast", "Is", "TupleIndex", "Field", "LoopE"} -> <<Kid(x, 1)>>
          [] l \in {"Array", "Tuple", "ReturnE"} -> Kids(x, 1)
          [] l = "IfE" -> <<Kid(x, 1), Kid(x, 2)>> \o Kids(x, 3)
          [] l = "MapLit" -> FlattenSeq([j \in 1..Len(x[1][2]) |-> <<Kid(Kids(x, 1)[j], 1), Kid(Kids(x, 1)[j], 2)>>])
          [] l = "Struct" -> [j \in 1..Len(x[1][3]) |-> Kid(Kids(x, 2)[j], 2)]
          [] l = "New" -> Kids(x, 3)
          [] OTHER -> <<>>

(* Type arguments of a struct literal, if its fields give them all. *)
StructArgs(n, inits, ts, s) ==
    LET tps == reg.tparams[n]
        fields == [j \in 1..Len(inits) |-> IF <<n, inits[j][2]>> \in DOMAIN reg.fields THEN reg.fields[<<n, inits[j][2]>>] ELSE AnyType]
        b == unify_params(fields, ts, ToSet(tps), Empty)
    IN  IF n \in DOMAIN reg.tparams /\ ToSet(tps) \subseteq DOMAIN b /\ ~\E p \in DOMAIN b : contains_type_param(b[p], s.scope)
        THEN [i \in 1..Len(tps) |-> b[tps[i]]] ELSE <<>>

OperandsType(x, ts, s) ==
    LET n == x[1]  l == n[1]
    IN  CASE l = "Lit" -> LiteralType[n[2]]
          [] l = "Word" -> CASE n[2] = "this" -> IF "self" \in DOMAIN s.vars THEN s.vars["self"][1] ELSE Named("Self", <<>>)
                             [] n[2] = "channel" -> Int64
                             [] OTHER -> Never
          [] l = "Binary" -> binary_result_type(n[2], ts[1], ts[2])
          [] l = "Unary" -> unary_result_type(n[2], ts[1])
          [] l = "Index" -> CASE ts[1][1] = "String" -> Text [] ts[1][1] \in {"Array", "Map"} -> ts[1][2] [] OTHER -> AnyType
          [] l = "Field" -> IF ts[1][1] = "Named" /\ <<ts[1][2], n[3]>> \in DOMAIN reg.fields
                            THEN LET f == reg.fields[<<ts[1][2], n[3]>>]
                                 IN  IF ts[1][2] \in DOMAIN reg.tparams THEN substitute_type_params(f, reg.tparams[ts[1][2]], ts[1][3]) ELSE f
                            ELSE AnyType
          [] l \in {"Range", "RangeIncl"} -> <<"Range">>
          [] l \in {"Spawn", "Await"} -> Int64
          [] l = "Recv" -> IF ts[1][1] = "Named" /\ ts[1][2] = "Channel" /\ Len(ts[1][3]) = 1 THEN ts[1][3][1] ELSE Int64
          [] l = "Is" -> Boolean
          [] l = "Cast" -> from_parser_type(n[3])
          [] l = "Tuple" -> <<"Tuple">>
          [] l = "Array" -> ArrayOf(LubAll(ts))
          [] l = "MapLit" -> MapOf(LubAll([j \in 1..Len(ts) \div 2 |-> ts[2 * j]]))
          [] l = "New" -> Named(n[2], <<>>)
          [] l = "Struct" -> Named(n[2], StructArgs(n[2], n[3], ts, s))
          [] l = "IfE" -> IF Len(ts) = 3 THEN lub(ts[2], ts[3]) ELSE Nothing
          [] l \in {"Assign", "CompoundAssign"} -> ts[2]
          [] l \in {"Send", "WhileE"} -> Nothing
          [] l \in {"LoopE", "ReturnE"} -> Never
          [] l = "TupleIndex" -> AnyType

IndexFits(obj, index) == CASE obj[1] = "Map" -> index[1] \in {"String", "Any"}
                           [] obj[1] \in {"String", "Any"} -> TRUE
                           [] OTHER -> index[1] \in {"Int", "Any"}

OperandsErrors(x, ts, s) ==
    LET n == x[1]  l == n[1]
    IN  CASE l = "Binary" -> When(~check_binary_op(n[2], ts[1], ts[2]), "BinaryOp")
          [] l = "Unary" -> When(~check_unary_op(n[2], ts[1]), "UnaryOp")
          [] l = "Index" -> When(~IndexFits(ts[1], ts[2]), "Index")
          [] l \in {"Range", "RangeIncl"} -> When(ts[1][1] # "Int" \/ ts[2][1] # "Int", "Range")
          [] l \in {"IfE", "WhileE"} -> When(NotCond(ts[1]), "TypeMismatch")
          [] l = "Field" ->
                IF ts[1][1] = "Named"
                THEN LET c == ts[1][2]
                         anyField == \E k \in DOMAIN reg.fields : k[1] = c
                     IN  When(Hidden(reg.fieldVis, <<c, n[3]>>, c, s), "Visibility")
                         \cup When(<<c, n[3]>> \notin DOMAIN reg.fields
                                   /\ (anyField \/ (c \in reg.known /\ c \notin DOMAIN reg.tparams)), "FieldNotFound")
                ELSE When(ts[1] # AnyType, "FieldAccess")
          [] l = "Struct" ->
                IF n[2] \in DOMAIN reg.tparams \/ n[2] \notin DOMAIN reg.classFields THEN {}
                ELSE When({n[3][j][2] : j \in 1..Len(n[3])} # reg.classFields[n[2]], "StructFields")
          [] OTHER -> {}

(* The traversal: infer_type gives a type and the state after it, check_stmt
   whether a statement always leaves the body and the state after it. *)
RECURSIVE Visit(_, _, _)
infer_type(x, s) == Visit("expression", x, s)
check_stmt(x, s) == Visit("statement", x, s)

InferEach(xs, s) ==
    Scan(LAMBDA r, x : LET e == infer_type(x, r.s) IN [ts |-> Append(r.ts, e.t), s |-> e.s], [ts |-> <<>>, s |-> s], xs)

(* mutant: an argument that may be anything is not looked at *)
check_args_known(params, xs, s) ==
    LET n == IF Len(params) < Len(xs) THEN Len(params) ELSE Len(xs)
        typed == SelectSeq([i \in 1..n |-> i], LAMBDA i : params[i][2] # AnyType)
        r == InferEach([j \in 1..Len(typed) |-> xs[typed[j]]], s)
    IN  Err(r.s, When(\E j \in 1..Len(typed) : ~Fits(params[typed[j]][2], r.ts[j]), "TypeMismatch"))

(* Arguments against parameters, as many as there are of both. *)
check_args(params, xs, s) ==
    LET n == IF Len(params) < Len(xs) THEN Len(params) ELSE Len(xs)
        r == InferEach(SubSeq(xs, 1, n), s)
    IN  Err(r.s, When(\E i \in 1..n : ~Fits(params[i][2], r.ts[i]), "TypeMismatch"))

(* The return type of a generic method for these arguments, if they give it. *)
unify_generic_return(key, ret, ts, typeArgs, s) ==
    LET u == reg.unerased[key]
        tps == ToSet(u.tps)
        params == IF Len(ts) = Len(u.params) THEN u.params
                  ELSE IF Len(ts) + 1 = Len(u.params) THEN Tail(u.params) ELSE <<>>
        n == IF Len(typeArgs) < Len(u.tps) THEN Len(typeArgs) ELSE Len(u.tps)
        given == [p \in {u.tps[i] : i \in 1..n} |-> from_parser_type(typeArgs[SelectInSeq(u.tps, LAMBDA q : q = p)])]
        resolved == substitute_bindings(ret, unify_params(params, ts, tps, given))
    IN  IF key \in DOMAIN reg.unerased /\ contains_type_param(ret, tps)
           /\ ~contains_type_param(resolved, tps) /\ ~contains_type_param(resolved, s.scope)
        THEN resolved ELSE ret

IsInstance(sig) == sig.params # <<>> /\ sig.params[1][1] = "self"
StaticIn(class, m) == Key(class, m) \in DOMAIN reg.functions /\ ~IsInstance(reg.functions[Key(class, m)])

(* Class::method(args): a method that uses this gets its receiver first, one
   that does not may. *)
check_class_method_call(class, m, xs, typeArgs, s) ==
    LET key == Key(class, m)
        sig == reg.functions[key]
        declared == Len(sig.params) - (IF IsInstance(sig) THEN 1 ELSE 0)
        counts == IF ~IsInstance(sig) THEN {declared}
                  ELSE IF key \in reg.usesThis THEN {declared + 1} ELSE {declared, declared + 1}
        r == InferEach(xs, s)
    IN  Ret(unify_generic_return(key, sig.ret, r.ts, typeArgs, s), Err(r.s, When(Len(xs) \notin counts, "ArgumentCount")))

(* A call of a name; callee is "" if something else is called, of type t. *)
check_call(callee, xs, s) ==
    IF callee \in DOMAIN reg.functions
    THEN LET sig == reg.functions[callee]
             joined == callee \in {"join", "Array_join"} /\ xs # <<>>
             arr == infer_type(xs[1], s)
             s1 == IF joined THEN Err(arr.s, When(arr.t[1] = "Array" /\ arr.t[2][1] \notin {"String", "Any"}, "TypeMismatch")) ELSE s
         IN  IF callee \in Variadic THEN Ret(sig.ret, InferEach(xs, s1).s)
             ELSE Ret(sig.ret, check_args(sig.params, xs, Err(s1, When(Len(sig.params) # Len(xs), "ArgumentCount"))))
    ELSE IF callee \in DOMAIN s.vars /\ s.vars[callee][1] = FnType THEN Ret(AnyType, InferEach(xs, s).s)
    ELSE IF s.cls # "" /\ StaticIn(s.cls, callee) THEN check_class_method_call(s.cls, callee, xs, <<>>, s)
    ELSE Ret(AnyType, InferEach(xs, Err(s, {"UndefinedFunction"})).s)

(* The body of a lambda, its parameters typed by the hints where they have no
   type of their own; returns in it are its own. *)
infer_lambda_with_param_hints(x, hints, s) ==
    LET ps == x[1][2]
        declared(i) == IF ps[i][3] = <<>> THEN AnyType ELSE from_parser_type(ps[i][3][1])
        bound(i) == IF declared(i) = AnyType /\ i <= Len(hints) THEN hints[i] ELSE declared(i)
        inside == [s EXCEPT !.vars = [n \in {ps[i][2] : i \in 1..Len(ps)} |->
                                         <<bound(SelectLastInSeq(ps, LAMBDA p : p[2] = n)), FALSE>>] @@ @,
                            !.ret = IF x[1][3] = <<>> THEN <<>> ELSE <<from_parser_type(x[1][3][1])>>]
        body == infer_type(Kid(x, 3), inside)
    IN  Ret(IF inside.ret = <<>> THEN body.t ELSE inside.ret[1], [body.s EXCEPT !.vars = s.vars, !.ret = s.ret])

(* Receiver.method(args) refined by what the receiver holds. *)
Refined(obj, m, xs, lam, ret, s) ==
    LET known == obj[2] # AnyType
    IN  CASE obj[1] = "Map" /\ m = "get" -> obj[2]
          [] obj[1] = "Map" /\ m = "values" -> ArrayOf(obj[2])
          [] obj[1] = "Array" /\ m \in {"first", "last", "find", "max", "min"} /\ known -> obj[2]
          [] obj[1] = "Array" /\ m \in {"pop", "sort", "reverse", "slice", "unique", "take", "skip", "toList"} /\ known -> obj
          [] obj[1] = "Array" /\ m = "map" -> ArrayOf(IF lam = <<>> \/ lam[1][1] \in {"Nothing", "Never"} THEN AnyType ELSE lam[1])
          [] obj[1] = "Array" /\ m = "filter" -> obj
          [] obj[1] = "Array" /\ m = "forEach" -> Nothing
          [] obj[1] = "Array" /\ m = "reduce" ->
                LET start == infer_type(xs[1], s).t IN IF xs = <<>> \/ start = AnyType THEN obj[2] ELSE start
          [] OTHER -> ret

(* Lambdas among the arguments are inferred first, their parameters bound to
   the element type, or to the types a generic method declares for them. *)
HintedLambdas(idx, xs, hints, key, obj, s) ==
    LET type(h) == IF obj[2] \in DOMAIN reg.tparams THEN substitute_type_params(h, reg.tparams[obj[2]], obj[3]) ELSE h
    IN  Scan(LAMBDA r, i : infer_lambda_with_param_hints(xs[i], [k \in 1..Len(hints[key][i]) |-> type(hints[key][i][k])], r).s,
             s, SelectSeq([i \in 1..Len(xs) |-> i], LAMBDA i : i \in idx))

(* The receiver obj is inferred; lam is what a lambda was inferred to. *)
call_on_type(x, obj, lam, s) ==
    LET xs == Kids(x, 3)  m == x[1][3]
        type == to_string(obj)
        key == Key(type, m)
        all == <<Kid(x, 1)>> \o xs
        hinted == IF obj[1] = "Named" /\ key \in DOMAIN reg.hints THEN {i \in DOMAIN reg.hints[key] : i <= Len(xs) /\ xs[i][1][1] = "Lambda"} ELSE {}
        ret(call) == IF key \in DOMAIN reg.functions THEN unify_generic_return(key, call.t, InferEach(all, call.s).ts, <<>>, s) ELSE call.t
        result(call) == Ret(Refined(obj, m, xs, lam.t, ret(call), call.s), call.s)
    IN  result(check_call(key, all, Err(HintedLambdas(hinted, xs, reg.hints, key, obj, lam.s),
                                        When(Hidden(reg.methodVis, key, type, s), "Visibility"))))

(* The lambda given to an operation on lists is inferred with the element type. *)
call_on_value(x, obj) ==
    LET xs == Kids(x, 3)  m == x[1][3]
        type == to_string(obj.t)
        lamAt == CASE obj.t[1] # "Array" -> 0 [] m \in {"map", "filter", "forEach"} -> 1 [] m = "reduce" -> 2 [] OTHER -> 0
        isLam == 0 < lamAt /\ lamAt <= Len(xs) /\ xs[lamAt][1][1] = "Lambda"
        found(lam) == [t |-> <<lam.t>>, s |-> lam.s]
        given(start) == infer_lambda_with_param_hints(xs[lamAt], IF m = "reduce" THEN <<start.t, obj.t[2]>> ELSE <<obj.t[2]>>, start.s)
        lambda(start) == IF isLam THEN found(given(start)) ELSE [t |-> <<>>, s |-> start.s]
    IN  IF obj.t = AnyType \/ (<<type, m>> \in DOMAIN reg.fields /\ reg.fields[<<type, m>>] = FnType)
        THEN Ret(AnyType, InferEach(xs, obj.s).s)
        ELSE call_on_type(x, obj.t, lambda(IF lamAt = 2 /\ Len(xs) >= 2 THEN infer_type(xs[1], obj.s) ELSE Ret(AnyType, obj.s)), obj.s)

infer_method_call(x, s) ==
    LET n == x[1]  xs == Kids(x, 3)  m == n[3]
        named == n[2][1] = "Ident"
        class == n[2][2]
        sig == reg.functions[Key(class, m)]
        skip == IF IsInstance(sig) THEN Tail(sig.params) ELSE sig.params
    IN  IF named /\ class \notin DOMAIN s.vars /\ Key(class, m) \in DOMAIN reg.functions
        THEN Ret(sig.ret, check_args(skip, xs, Err(s, When(Len(skip) # Len(xs), "ArgumentCount"))))
        ELSE IF named /\ StaticIn(class, m) THEN check_call(Key(class, m), xs, s)
        ELSE call_on_value(x, infer_type(Kid(x, 1), s))

infer_super_call(x, s) ==
    LET xs == Kids(x, 2)
        parent == IF s.cls \in DOMAIN reg.parents THEN reg.parents[s.cls] ELSE ""
        key == Key(parent, x[1][2])
        sig == reg.functions[key]
        params == IF sig.params = <<>> THEN <<>> ELSE Tail(sig.params)
    IN  IF parent = "" \/ key \notin DOMAIN reg.functions THEN Ret(AnyType, InferEach(xs, Err(s, {"Super"})).s)
        ELSE Ret(sig.ret, check_args(params, xs, Err(s, When(Len(params) # Len(xs), "ArgumentCount"))))

(* Name::member(args): a method of a class, or a variant of an enum. *)
infer_enum_value(x, s) ==
    LET name == x[1][2]  member == x[1][3]  xs == Kids(x, 4)
        isEnum == name \in DOMAIN reg.enums
        isClass == name \in reg.known
        isParam == name \in s.scope
        s1 == InferEach(xs, s).s
    IN  CASE Key(name, member) \in DOMAIN reg.functions -> check_class_method_call(name, member, xs, x[1][4], s)
          [] ~isEnum /\ ~isClass /\ ~isParam -> Ret(AnyType, Err(s1, {"UnresolvedPath"}))
          [] isClass /\ name \notin DOMAIN reg.tparams /\ ~isParam -> Ret(AnyType, Err(s1, {"UnknownMethod"}))
          [] ~isEnum -> Ret(AnyType, s1)
          [] OTHER -> Ret(Named(name, <<>>), Err(s1, When(member \notin reg.enums[name], "UnknownVariant")))

(* The cases of a match; their guards are not looked at. *)
check_cases(xs, t, s) ==
    Scan(LAMBDA r, x : LET body == infer_type(Kid(x, 3), bind_pattern_vars(x[1][2], t, r.s))
                       IN  [ts |-> Append(r.ts, body.t), s |-> Restore(body.s, r.s)], [ts |-> <<>>, s |-> s], xs)

infer_ident(n, s) ==
    CASE n \in DOMAIN s.vars -> Ret(s.vars[n][1], s)
      [] n \in DOMAIN reg.functions -> Ret(FnType, s)
      [] n \in reg.known -> Ret(AnyType, s)
      [] OTHER -> Ret(AnyType, Err(s, {"UndefinedVariable"}))

(* Statements: the state after them and whether they always leave the body. *)
Done(s) == [r |-> FALSE, s |-> s]
Leaves(r, s) == [r |-> r, s |-> s]
check_stmts(xs, s) == Scan(LAMBDA r, x : check_stmt(x, r.s), Done(s), xs)

infer_block(x, s) ==
    LET xs == Kids(x, 1)
        r == check_stmts(xs, s)
        last == infer_type(Kid(xs[Len(xs)], 1), r.s)
    IN  IF xs # <<>> /\ xs[Len(xs)][1][1] = "ExprStmt" THEN Ret(last.t, Restore(last.s, s)) ELSE Ret(Nothing, Restore(r.s, s))

infer_type_inner(x, s) ==
    LET n == x[1]  l == n[1]
    IN  CASE l = "Ident" -> infer_ident(n[2], s)
          [] l = "Call" -> IF n[2][1] = "Ident" THEN check_call(n[2][2], Kids(x, 2), s)
                           ELSE Ret(AnyType, InferEach(Kids(x, 2), infer_type(Kid(x, 1), s).s).s)
          [] l = "MethodCall" -> infer_method_call(x, s)
          [] l = "SuperCall" -> infer_super_call(x, s)
          [] l = "EnumValue" -> infer_enum_value(x, s)
          [] l = "BlockE" -> infer_block(x, s)
          [] l = "Match" -> LET m == infer_type(Kid(x, 1), s)
                                cases == check_cases(Kids(x, 2), m.t, m.s)
                            IN  Ret(LubAll(cases.ts), cases.s)
          [] l = "Lambda" -> Ret(FnType, infer_lambda_with_param_hints(x, <<>>, s).s)
          [] OTHER -> LET r == InferEach(Operands(x), s)
                      IN  Ret(OperandsType(x, r.ts, r.s), Err(r.s, OperandsErrors(x, r.ts, r.s)))

(* An expression that has a type keeps it. *)
Typed(path, r) == Ret(r.t, [r.s EXCEPT !.types = Insert(@, path, r.t)])
infer_type_once(x, s) ==
    IF x[2] \in DOMAIN s.types THEN Ret(s.types[x[2]], s) ELSE Typed(x[2], infer_type_inner(x, s))

check_let(x, s) ==
    LET n == x[1]
        s1 == Err(s, When(n[2] \in DOMAIN s.vars, "Duplicate"))
        value == infer_type(Kids(x, 3)[1], s1)
        type == from_parser_type(n[3][1])
    IN  CASE n[3] # <<>> /\ n[4] # <<>> -> Bind(Err(value.s, When(~Fits(type, value.t), "TypeMismatch")), n[2], type, n[1] = "Var")
          [] n[4] # <<>> -> Bind(value.s, n[2], value.t, n[1] = "Var")
          [] n[3] # <<>> -> Bind(s1, n[2], type, n[1] = "Var")
          [] OTHER -> Err(s1, {"CannotInfer"})

(* The body of a loop statement. *)
(* mutant: the flag is cleared instead of put back *)
in_loop_cleared(x, s) == [check_stmt(x, [s EXCEPT !.loop = TRUE]).s EXCEPT !.loop = FALSE]
in_loop(x, s) == [check_stmt(x, [s EXCEPT !.loop = TRUE]).s EXCEPT !.loop = s.loop]

Condition(x, s) == LET c == infer_type(x, s) IN Err(c.s, When(NotCond(c.t), "TypeMismatch"))

check_catches(xs, s) ==
    Scan(LAMBDA r, x : check_stmt(Kid(x, 3), Bind(r, x[1][2], from_parser_type(x[1][3]), FALSE)).s, s, xs)
check_arms(xs, s) ==
    Scan(LAMBDA r, x : LET ch == infer_type(Kid(x, 1), r).s
                       IN  Restore(check_stmt(Kid(x, 3), Bind(ch, x[1][3], Int64, FALSE)).s, ch), s, xs)

check_assignment(x, s) ==
    LET target == infer_type(Kid(x, 1), s)
        value == infer_type(Kid(x, 2), target.s)
        n == x[1][2]
    IN  Err(value.s, When(~Fits(target.t, value.t), "TypeMismatch")
                     \cup When(n[1] = "Ident" /\ n[2] \in DOMAIN value.s.vars /\ ~value.s.vars[n[2]][2], "Immutable"))

check_return(x, s) ==
    LET value == infer_type(Kids(x, 1)[1], s)
    IN  IF x[1][2] = <<>> THEN s
        ELSE Err(value.s, When(s.ret # <<>> /\ ~Fits(s.ret[1], value.t), "TypeMismatch"))

ElementOf(t) == CASE t[1] = "Range" -> Int64 [] t[1] = "Array" -> t[2] [] OTHER -> t

(* mutant: an if without else counts as leaving when its branch does *)
if_leaves_then(then, else) == then
if_leaves(then, else) == then /\ else

check_stmt_inner(x, s) ==
    LET n == x[1]  l == n[1]
        opt(i, t) == IF n[i + 1] = <<>> THEN t ELSE check_stmt(Kids(x, i)[1], t).s
        optE(i, t) == IF n[i + 1] = <<>> THEN t ELSE infer_type(Kids(x, i)[1], t).s
    IN  CASE l \in {"Let", "Var"} -> Done(check_let(x, s))
          [] l = "Assignment" -> Done(check_assignment(x, s))
          [] l = "If" -> LET then == check_stmt(Kid(x, 2), Condition(Kid(x, 1), s))
                             else == IF n[4] = <<>> THEN Done(then.s) ELSE check_stmt(Kids(x, 3)[1], then.s)
                         IN  Leaves(if_leaves(then.r, else.r), else.s)
          [] l = "While" -> Done(in_loop(Kid(x, 2), Condition(Kid(x, 1), s)))
          [] l = "For" -> LET i == infer_type(Kid(x, 2), s) IN Done(in_loop(Kid(x, 3), Bind(i.s, n[2], ElementOf(i.t), FALSE)))
          [] l = "ForC" -> LET init == opt(1, s)
                               cond == IF n[3] = <<>> THEN init ELSE Condition(Kids(x, 2)[1], init)
                           IN  Done(in_loop(Kid(x, 4), optE(3, cond)))
          [] l = "Loop" -> Done(in_loop(Kid(x, 1), s))
          [] l = "Return" -> Leaves(TRUE, check_return(x, s))
          [] l \in {"Break", "Continue"} -> Done(Err(s, When(~s.loop, "OutsideLoop")))
          [] l = "Throw" -> LET e == infer_type(Kid(x, 1), s) IN Leaves(TRUE, Err(e.s, When(to_string(e.t) # "String" /\ e.t # AnyType, "Throw")))
          [] l = "Try" -> Done(opt(3, check_catches(Kids(x, 2), check_stmt(Kid(x, 1), s).s)))
          [] l = "ExprStmt" -> LET e == infer_type(Kid(x, 1), s) IN Leaves(e.t = Never, e.s)
          [] l = "Block" -> LET r == check_stmts(Kids(x, 1), s) IN Leaves(r.r, Restore(r.s, s))
          [] l = "Defer" -> Done(check_stmt(Kid(x, 1), s).s)
          [] l = "Select" -> Done(opt(2, check_arms(Kids(x, 1), s)))
          [] l = "Empty" -> Done(s)

Visit(what, x, s) == IF what = "statement" THEN check_stmt_inner(x, s) ELSE infer_type_once(x, s)

(* A body with its parameters: who checks it and what is found. *)
check_body(who, params, ret, body, cls, scope) ==
    LET s0 == [vars |-> params, loop |-> FALSE, ret |-> <<ret>>, errs |-> {}, types |-> Empty, cls |-> cls, scope |-> scope]
        report(r) == [who |-> who, body |-> body, params |-> params, ret |-> ret, returns |-> r.r, types |-> r.s.types,
                      errs |-> r.s.errs \cup When(ret \notin {Nothing, Never} /\ ~r.r, "MissingReturn")]
    IN  report(check_stmt(<<body, <<who>>>>, s0))

ParamVars(ps, Of(_)) == [n \in {ps[i][3] : i \in 1..Len(ps)} |-> <<Of(ps[SelectLastInSeq(ps, LAMBDA p : p[3] = n)][4]), FALSE>>]

check_function(f) ==
    LET scope == ToSet(f[3])
        resolve(t) == resolve_type(t, scope)
    IN  check_body(f[2], ParamVars(f[4], resolve), resolve(f[5]), f[6], "", scope)

check_method(c, method) ==
    LET erased == ToSet(c[3] \o method[4])
        erase(t) == type_to_value_erasing(t, erased)
    IN  check_body(Key(c[2], method[3]), ParamVars(method[5], erase) @@ ("self" :> <<Named(c[2], <<>>), FALSE>>), erase(method[6]), method[7], c[2], ToSet(method[4]))

(* Whether class c has what interface i asks for; the receiver is not counted. *)
conforms(c, i) ==
    i \in DOMAIN reg.interfaces =>
        \A k \in 1..Len(reg.interfaces[i]) :
            LET m == reg.interfaces[i][k]
                key == Key(c[2], m[1])
                sig == reg.functions[key]
                given == IF sig.params = <<>> THEN <<>> ELSE Tail(sig.params)
            IN  key \in DOMAIN reg.functions /\ Agree(reg, Sig(given, sig.ret), m[2])

check_class(c) ==
    [k \in 1..Len(c[7]) |-> check_method(c, c[7][k][7])]
    \o <<[who |-> c[2], body |-> <<"Empty">>, params |-> Empty, ret |-> Nothing, returns |-> FALSE, types |-> Empty,
          errs |-> When(\E i \in 1..Len(c[5]) : ~conforms(c, c[5][i]), "Interface")]>>

(* The bodies of the next declaration. *)
CheckDecl ==
    /\ phase = "check"
    /\ IF at > Len(Decls) THEN phase' = "done" /\ UNCHANGED <<at, checks>>
       ELSE /\ at' = at + 1 /\ UNCHANGED phase
            /\ LET d == Decls[at][5]
               IN  checks' = checks \o CASE d[1] = "Function" -> <<check_function(d)>>
                                         [] d[1] = "Class" -> check_class(d)
                                         [] OTHER -> <<>>
    /\ UNCHANGED <<program, reg, todo>>

Init == DeclInit /\ checks = <<>>
Next == (DeclNext /\ UNCHANGED checks) \/ CheckDecl
Spec == Init /\ [][Next]_vars

Accepted == phase = "done" /\ reg.errors = {} /\ \A k \in 1..Len(checks) : checks[k].errs = {}
=============================================================================
