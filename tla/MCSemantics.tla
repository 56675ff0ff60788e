------------------------------ MODULE MCSemantics ------------------------------
(* Programs for the type checker, each about one matter: expressions over      *)
(* values of every kind, statements two by two, hierarchies of three classes,  *)
(* interfaces, generic classes, calls.                                         *)
EXTENDS Semantics

Ty(n) == <<"TName", n>>
Maybe(t) == <<"TNullable", t>>
List(t) == <<"TArray", t>>
Id(n) == <<"Ident", n>>
Lit(w) == <<"Lit", w>>
Bin(o, a, b) == <<"Binary", o, a, b>>
Blk(ss) == <<"Block", ss>>
Param(n, t) == <<"Param", <<>>, n, t>>
Decl(anns, d) == <<"Decl", anns, <<>>, "", d>>
Fun(name, tps, params, ret, body) == Decl(<<>>, <<"Function", name, tps, params, ret, Blk(body)>>)
Mem(vis, m) == <<"Member", <<>>, <<>>, vis, "", "", m>>
Fld(vis, n, t) == Mem(vis, <<"FieldDef", n, t>>)
Meth(vis, kind, n, tps, params, ret, body) == Mem(vis, <<"Method", kind, n, tps, params, ret, Blk(body)>>)
Class(n, tps, ext, impl, fields, methods) == Decl(<<>>, <<"Class", n, tps, ext, impl, fields, methods>>)
Return(e) == <<"Return", <<e>>>>
Do(e) == <<"ExprStmt", e>>
Let(n, t, e) == <<"Let", n, t, <<e>>>>
Var(n, t, e) == <<"Var", n, t, <<e>>>>
MCall(o, m, as) == <<"MethodCall", o, m, as>>
Static(c, m, as) == <<"EnumValue", c, m, <<>>, as>>
Lam(ps, e) == <<"Lambda", [i \in 1..Len(ps) |-> <<"LParam", ps[i], <<>>>>], <<>>, e>>
UpTo(S, n) == UNION {[1..k -> S] : k \in 1..n}

MCLiteral == [w \in {"1", "1.5", "str", "true", "null"} |->
                CASE w = "1" -> Int64 [] w = "1.5" -> Float64 [] w = "str" -> Text [] w = "true" -> Boolean [] OTHER -> Null]
P(n, t) == <<n, t>>
MCBuiltins == [n \in {"println", "assert", "Array_first", "Array_map", "Array_reduce", "Array_join", "Array_forEach", "Map_get"} |->
    CASE n = "println" -> Sig(<<P("value", AnyType)>>, Nothing)
      [] n = "assert" -> Sig(<<P("cond", Boolean)>>, Nothing)
      [] n = "Array_first" -> Sig(<<P("arr", ArrayOf(AnyType))>>, AnyType)
      [] n \in {"Array_map"} -> Sig(<<P("arr", ArrayOf(AnyType)), P("f", FnType)>>, ArrayOf(AnyType))
      [] n = "Array_forEach" -> Sig(<<P("arr", ArrayOf(AnyType)), P("f", FnType)>>, Nothing)
      [] n = "Array_reduce" -> Sig(<<P("arr", ArrayOf(AnyType)), P("init", AnyType), P("f", FnType)>>, AnyType)
      [] n = "Array_join" -> Sig(<<P("arr", ArrayOf(AnyType)), P("sep", Text)>>, Text)
      [] OTHER -> Sig(<<P("m", MapOf(AnyType)), P("k", Text)>>, AnyType)]

(* Expressions. *)
Params == <<Param("a", Ty("Int64")), Param("c", Maybe(Ty("Int64"))), Param("g", List(Ty("Int64")))>>
Atoms == {Lit("1"), Lit("1.5"), Lit("str"), Lit("true"), Lit("null"), Id("a"), Id("c"), Id("g")}
Binaries == {Bin(o, x, y) : o \in {"+", "<", "==", "&&"}, x, y \in Atoms}
Exprs == Atoms \cup Binaries \cup {<<"Index", x, y>> : x, y \in Atoms} \cup {<<"Array", <<x, y>>>> : x, y \in Atoms}
         \cup {<<"IfE", x, y, <<z>>>> : x \in {Lit("true"), Bin("==", Id("c"), Lit("null"))}, y, z \in Atoms}
         \cup {<<"Array", <<<<"Array", <<x>>>>, <<"Array", <<y>>>>>>>> : x, y \in Atoms}
         \cup {Bin("*", b, x) : b \in {Bin("+", Id("a"), Lit("1.5")), Bin("-", Id("c"), Lit("1")), <<"Index", Id("g"), Id("a")>>}, x \in Atoms}
         \cup {<<"Unary", o, x>> : o \in {"-", "!"}, x \in Atoms}
ExprPrograms == {<<Fun("f", <<>>, Params, r, <<Let("x", <<>>, e), Return(Id("x"))>>)>> : e \in Exprs, r \in {Ty("Int64"), Ty("Float64"), Ty("Any"), Maybe(Ty("Int64"))}}

(* Statements. *)
One == Lit("1")
Yes == Lit("true")
Brk == <<"Break">>
Match(cases) == <<"Match", Id("a"), cases>>
Case(p, g, e) == <<"Case", p, g, e>>
Ret1 == <<"ReturnE", <<One>>>>
Simple == {Return(One), <<"Throw", Lit("str")>>, Brk, Let("x", <<Ty("Int64")>>, One), Var("x", <<>>, Id("c")), <<"Assignment", Id("x"), One>>, <<"Assignment", Id("x"), Lit("null")>>,
           Do(<<"Call", Id("println"), <<Id("a")>>>>), Do(Match(<<Case(<<"PLit", "1">>, <<>>, Ret1), Case(<<"PWild">>, <<>>, Ret1)>>)),
           Do(Match(<<Case(<<"PLit", "1">>, <<>>, <<"BlockE", <<Return(One)>>>>), Case(<<"PIdent", "y">>, <<>>, Id("y"))>>)), <<"Empty">>,
           Let("y", <<>>, Match(<<Case(<<"PIdent", "z">>, <<Bin("<", Id("q"), One)>>, Bin("+", Id("z"), One))>>)), Return(Id("x"))}
Wrapped(s) == {<<"If", Yes, Blk(<<s>>), <<>>>>, <<"If", Yes, s, <<Return(One)>>>>, <<"While", Yes, s>>, <<"Loop", Blk(<<s>>)>>, <<"For", "i", <<"Range", One, Id("a")>>, Blk(<<s>>)>>,
               <<"ForC", <<Var("j", <<>>, One)>>, <<Bin("<", Id("j"), One)>>, <<<<"Assign", Id("j"), One>>>>, s>>, <<"Defer", s>>, Blk(<<s>>),
               <<"Try", Blk(<<s>>), <<<<"Catch", "e", Ty("String"), Blk(<<Return(One)>>)>>>>, <<Blk(<<s>>)>>>>, <<"Select", <<<<"Arm", Id("a"), "v", s>>>>, <<s>>>>,
               Do(<<"BlockE", <<s>>>>), Let("l", <<>>, Lam(<<"p">>, <<"BlockE", <<s>>>>))}
Stmts == Simple \cup UNION {Wrapped(s) : s \in Simple}
Deep == UNION {Wrapped(w) : w \in UNION {Wrapped(s) : s \in {Return(One), Brk}}}
StmtPrograms == {<<Fun("f", <<>>, Params, Ty("Int64"), ss)>> : ss \in {<<s, t>> : s \in Stmts, t \in Simple} \cup {<<s>> : s \in Stmts \cup Deep}
                                                                     \cup {<<<<"While", Yes, Blk(<<s, Brk>>)>>, Return(One)>> : s \in Stmts}}

(* Classes: every shape of inheritance among three, with members that meet. *)
Get == Meth("public", "fn", "get", <<>>, <<Param("k", Ty("Int64"))>>, Ty("Int64"), <<Return(Id("k"))>>)
Own == Meth("private", "fn", "own", <<>>, <<>>, Ty("Int64"), <<Return(<<"Field", <<"Word", "this">>, "x">>)>>)
A(ext) == Class("A", <<>>, ext, <<>>, <<Fld("protected", "x", Ty("Int64"))>>, <<Get, Own>>)
B(ext) == Class("B", <<>>, ext, <<>>, <<Fld("public", "y", Ty("String"))>>, <<Meth("public", "fn", "get", <<>>, <<>>, Ty("String"), <<Return(Lit("str"))>>)>>)
C(ext, body) == Class("C", <<>>, ext, <<>>, <<>>, <<Meth("public", "fn", "go", <<>>, <<>>, Ty("Any"), body)>>)
Parents == {<<>>, <<"A">>, <<"B">>, <<"C">>, <<"X">>}
Goes == {<<Return(<<"Field", <<"Word", "this">>, "x">>)>>, <<Return(MCall(<<"Word", "this">>, "get", <<One>>))>>, <<Return(<<"SuperCall", "get", <<>>>>)>>}
ClassPrograms == {<<C(pc, g), A(pa), B(pb)>> : pa, pb, pc \in Parents, g \in {<<Return(One)>>}}
                 \cup {<<A(<<>>), B(pb), C(pc, g)>> : pb \in {<<>>, <<"A">>}, pc \in {<<>>, <<"A">>, <<"B">>}, g \in Goes}
                 \cup {<<A(<<>>), Fun("f", <<>>, <<Param("o", Ty("A"))>>, Ty("Int64"), <<Return(e)>>)>> :
                        e \in {MCall(Id("o"), m, as) : m \in {"get", "own", "none"}, as \in {<<>>, <<One>>, <<Lit("str")>>}} \cup {<<"Field", Id("o"), n>> : n \in {"x", "z"}}
                              \cup {Static("A", m, as) : m \in {"get", "own", "none"}, as \in {<<>>, <<Id("o")>>, <<Id("o"), One>>}} \cup {Static("X", "y", <<>>), Bin("+", Id("o"), One)}
                              \cup {<<"New", "A", <<>>, <<One>>>>, <<"Struct", "A", <<<<"Init", "x", One>>>>>>, <<"Struct", "A", <<>>>>}}

(* Interfaces. *)
Ask(n, ps) == <<"Sig", <<>>, <<"Function", n, <<>>, ps, Ty("Int64"), <<"Empty">>>>>>
Iface(n, ext, sigs) == Decl(<<>>, <<"Interface", n, ext, sigs>>)
K1 == <<Param("k", Ty("Int64"))>>
InterfacePrograms ==
    {<<Iface("I", <<"J">>, own), Iface("J", jext, <<Ask("get", ps)>>), Iface("K", <<>>, <<Ask("own", <<>>)>>),
       Class("D", <<>>, ext, <<"I">>, <<>>, ms), A(<<>>)>> :
     own \in {<<>>, <<Ask("get", <<>>)>>, <<Ask("go", K1)>>}, jext \in {<<>>, <<"K">>, <<"X">>}, ps \in {<<>>, K1}, ext \in {<<>>, <<"A">>}, ms \in {<<>>, <<Get>>}}

(* Generic classes and calls. *)
T == Ty("T")
Box == Class("Box", <<"T">>, <<>>, <<>>, <<Fld("public", "v", T)>>,
             <<Meth("public", "fnc", "make", <<>>, <<Param("v", T)>>, <<"TGeneric", "Box", <<T>>>>, <<Return(<<"Struct", "Box", <<<<"Init", "v", Id("v")>>>>>>)>>),
               Meth("public", "fnc", "all", <<>>, <<Param("vs", <<"TGeneric", "List", <<T>>>>)>>, <<"TGeneric", "Box", <<T>>>>, <<Return(<<"Struct", "Box", <<<<"Init", "v", <<"Index", Id("vs"), One>>>>>>>>)>>),
               Meth("public", "fnc", "none", <<>>, <<>>, <<"TGeneric", "Box", <<T>>>>, <<Return(<<"New", "Box", <<>>, <<>>>>)>>),
               Meth("public", "fn", "then", <<"U">>, <<Param("via", <<"TFn", <<T>>, Ty("U")>>)>>, <<"TGeneric", "Box", <<Ty("U")>>>>, <<Return(Static("Box", "make", <<<<"Call", Id("via"), <<<<"Field", <<"Word", "this">>, "v">>>>>>>>))>>)>>)
Made == {Static("Box", "make", <<x>>) : x \in {One, Lit("str"), <<"Array", <<One>>>>}} \cup {Static("Box", "all", <<<<"Array", <<x>>>>>>) : x \in {One, Lit("str")}}
        \cup {Static("Box", "none", <<>>), <<"EnumValue", "Box", "none", <<Ty("Int64")>>, <<>>>>, <<"Struct", "Box", <<<<"Init", "v", One>>>>>>}
GenericPrograms == {<<Box, Fun("f", <<>>, Params, Ty("Any"), <<Let("b", <<>>, m), Return(e)>>)>> : m \in Made,
                      e \in {Id("b"), <<"Field", Id("b"), "v">>, MCall(Id("b"), "then", <<Lam(<<"n">>, Bin("+", Id("n"), One))>>), Bin("+", <<"Field", Id("b"), "v">>, One)}}
                   \cup {<<Box, Fun("f", <<"T">>, <<Param("t", T)>>, T, <<Return(e)>>)>> : e \in {Id("t"), <<"Field", Static("Box", "make", <<Id("t")>>), "v">>, Static("T", "of", <<>>)}}
Color == Decl(<<>>, <<"Enum", "Color", <<<<"Variant", <<>>, "Red", <<>>>>, <<"Variant", <<>>, "Mix", <<Ty("Int64"), Ty("String")>>>>>>>>)
Calls == {<<"Call", Id(n), as>> : n \in {"println", "assert", "f", "h", "g", "use"}, as \in {<<>>, <<One>>, <<Yes>>}}
         \cup {MCall(Id("g"), m, as) : m \in {"first", "map", "reduce", "join", "forEach", "gone"},
                                       as \in {<<>>, <<Lam(<<"n">>, Bin("*", Id("n"), One))>>, <<Lit("1.5"), Lam(<<"p", "n">>, Bin("+", Id("p"), Id("n")))>>, <<Lit("str")>>}}
         \cup {Static("Color", v, as) : v \in {"Red", "Mix", "Blue"}, as \in {<<>>, <<One, Lit("str")>>}}
         \cup {<<"MapLit", <<<<"Entry", Lit("str"), x>>>>>> : x \in Atoms} \cup {<<"Index", <<"MapLit", <<<<"Entry", Lit("str"), One>>>>>>, x>> : x \in Atoms}
         \cup {<<"Match", Static("Color", "Red", <<>>), <<Case(<<"PEnum", "Color", "Mix", <<<<"PIdent", "u">>, <<"PWild">>>>>>, <<>>, Bin("+", Id("u"), One)), Case(<<"PWild">>, <<>>, One)>>>>}
         \cup {<<"Cast", Id("a"), Ty("Float64")>>, <<"Is", Id("a"), Ty("Float64")>>, <<"Tuple", <<One, Yes>>>>, <<"TupleIndex", <<"Tuple", <<One>>>>, "0">>, <<"Spawn", <<"Call", Id("h"), <<One>>>>>>,
               <<"Await", Id("a")>>, <<"Word", "channel">>, <<"Word", "break">>, <<"Word", "this">>, <<"Send", Id("a"), One>>, <<"Recv", Id("a")>>, <<"Recv", Id("ch")>>, <<"RangeIncl", One, Lit("str")>>,
               <<"WhileE", Yes, <<"BlockE", <<Brk>>>>>>, <<"LoopE", One>>, <<"CompoundAssign", "+=", Id("a"), Lit("str")>>, <<"Call", Lam(<<>>, One), <<>>>>, <<"SuperCall", "get", <<>>>>, Id("A"), Id("nope")}
CallPrograms == {<<Color, Decl(<<>>, <<"Extern", "h", K1, Ty("Int64")>>), Decl(<<>>, <<"Extern", "use", <<Param("v", Ty("Any"))>>, Ty("Int64")>>), Decl(<<>>, <<"Immutable", "P", <<Param("x", Ty("Int64"))>>>>), Decl(<<>>, <<"Trait", "Q", <<Ask("own", <<>>)>>>>),
                   Fun("f", <<>>, Params \o <<Param("ch", <<"TGeneric", "Channel", <<Ty("String")>>>>)>>, Ty("Any"), <<Return(e)>>)>> : e \in Calls}
                \cup {<<Decl(<<>>, <<"Namespace", <<"n">>, <<Class("M", <<>>, <<>>, <<>>, <<>>, <<Meth("public", "fnc", "h", <<>>, K1, Ty("Int64"), <<Return(Id("k"))>>),
                                                                           Meth("public", "fnc", "go", <<>>, <<>>, Ty("Int64"), <<Return(<<"Call", Id(n), <<One>>>>)>>)>>)>>>>)>> : n \in {"h", "go"}}

MCPrograms == ExprPrograms \cup StmtPrograms \cup ClassPrograms \cup InterfacePrograms \cup GenericPrograms \cup CallPrograms
=============================================================================
