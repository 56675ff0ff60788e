------------------------------ MODULE Formatter ------------------------------
(***************************************************************************)
(* The formatter (formatter.rs), without its layout: the tokens it writes   *)
(* for a tree.  A template lists what is written for a node: a token, the   *)
(* part n, a list of parts, a list only if it is not empty.  Parts are      *)
(* written as they stand: no template has a parenthesis for grouping.       *)
(***************************************************************************)
EXTENDS Ast

Tk(t)    == <<"token", t>>
P(i)     == <<"part", i>>
L(i)     == <<"list", i, ",">>                \* a, b, c
Path(i, sep) == <<"list", i, sep>>
Cat(i)   == <<"list", i, "">>                 \* a b c
If(i, before, after) == <<"if", i, before, after>>  \* before list after, if there is a list
Body(i)  == <<"body", i>>                     \* fmt_block_stmt
Chars(ts) == [k \in 1..Len(ts) |-> Tk(ts[k])]
Args(i)  == <<Tk("("), L(i), Tk(")")>>
Braced(i) == <<Tk("{"), P(i), Tk("}")>>

fmt_type ==
    [TName |-> <<P(1)>>, TGeneric |-> <<P(1), Tk("<"), L(2), Tk(">")>>,
     TMap |-> <<Tk("Map"), Tk("<"), P(1), Tk(","), P(2), Tk(">")>>, TArray |-> <<Tk("Array"), Tk("<"), P(1), Tk(">")>>,
     TRef |-> <<Tk("&"), P(1)>>, TMut |-> <<Tk("mut"), P(1)>>, TNullable |-> <<P(1), Tk("?")>>,
     TTuple |-> Args(1), TFn |-> <<Tk("fn")>> \o Args(1) \o <<Tk("->"), P(2)>>]

fmt_pattern ==
    [PWild |-> <<Tk("_")>>, PIdent |-> <<P(1)>>, PLit |-> <<P(1)>>, PTuple |-> Args(1),
     PEnum |-> <<P(1), Tk("::"), P(2), If(3, "(", ")")>>, PCtor |-> <<P(1), Tk("::"), If(2, "(", ")")>>]

fmt_expr ==
    [Lit |-> <<P(1)>>, Ident |-> <<P(1)>>, Word |-> <<P(1)>>, Array |-> <<Tk("["), L(1), Tk("]")>>,
     MapLit |-> <<Tk("@"), Tk("{"), L(1), Tk("}")>>, Tuple |-> Args(1),
     Binary |-> <<P(2), P(1), P(3)>>, Unary |-> <<P(1), P(2)>>, Call |-> <<P(1)>> \o Args(2),
     MethodCall |-> <<P(1), Tk("."), P(2)>> \o Args(3), Index |-> <<P(1), Tk("["), P(2), Tk("]")>>,
     Field |-> <<P(1), Tk("."), P(2)>>, TupleIndex |-> <<P(1), Tk("."), P(2)>>,
     SuperCall |-> <<Tk("super"), Tk("."), P(1)>> \o Args(2), New |-> <<Tk("new"), P(1), If(2, "<", ">")>> \o Args(3),
     Struct |-> <<P(1), Tk("{"), L(2), Tk("}")>>, EnumValue |-> <<P(1), Tk("::"), P(2), If(4, "(", ")")>>,
     BlockE |-> <<Tk("{"), Cat(1), Tk("}")>>, WhileE |-> <<Tk("while"), P(1)>> \o Braced(2), LoopE |-> <<Tk("loop")>> \o Braced(1),
     IfE |-> <<Tk("if"), P(1)>> \o Braced(2) \o <<<<"else", 3>>>>,
     Match |-> <<Tk("match"), P(1), Tk("{"), Cat(2), Tk("}")>>, ReturnE |-> <<Tk("return"), Cat(1)>>,
     Assign |-> <<P(1), Tk("="), P(2)>>, CompoundAssign |-> <<P(2), P(1), P(3)>>,
     Lambda |-> <<Tk("|"), L(1), Tk("|"), If(2, "->", ""), Tk("=>"), P(3)>>, Spawn |-> <<Tk("spawn"), P(1)>>,
     Await |-> <<Tk("await"), P(1)>>, Send |-> <<Tk("send"), P(1), Tk("->"), P(2)>>, Recv |-> <<Tk("recv"), P(1)>>,
     Cast |-> <<P(1), Tk("as"), P(2)>>, Is |-> <<P(1), Tk("is"), P(2)>>, Range |-> <<P(1), Tk(".."), P(2)>>,
     RangeIncl |-> <<P(1), Tk("..."), P(2)>>]

fmt_stmt_kind ==
    [ExprStmt |-> <<P(1), Tk(";")>>, Let |-> <<Tk("let"), P(1), If(2, ":", ""), If(3, "=", ""), Tk(";")>>,
     Var |-> <<Tk("var"), P(1), If(2, ":", ""), If(3, "=", ""), Tk(";")>>, Assignment |-> <<P(1), Tk("="), P(2), Tk(";")>>,
     If |-> <<Tk("if"), P(1), Body(2), If(3, "else", "")>>, While |-> <<Tk("while"), P(1), Body(2)>>,
     For |-> <<Tk("for"), P(1), Tk("in"), P(2), Body(3)>>,
     ForC |-> <<Tk("for"), <<"bare", 1>>, Tk(";"), Cat(2), Tk(";"), Cat(3), Body(4)>>,
     Loop |-> <<Tk("loop"), Body(1)>>, Return |-> <<Tk("return"), Cat(1), Tk(";")>>, Break |-> Chars(<<"break", ";">>),
     Continue |-> Chars(<<"continue", ";">>), Throw |-> <<Tk("throw"), P(1), Tk(";")>>,
     Try |-> <<Tk("try"), Body(1), Cat(2), If(3, "finally", "")>>, Defer |-> <<Tk("defer")>> \o Braced(1),
     Block |-> <<Tk("{"), Cat(1), Tk("}")>>, Select |-> <<Tk("select"), Tk("{"), Cat(1), If(2, "default", ""), Tk("}")>>,
     Empty |-> <<>>]

(* Parameters lose their annotations, methods their type parameters. *)
FmtPart ==
    [Case |-> <<P(1), If(2, "if", ""), Tk("=>"), P(3), Tk(";")>>, Catch |-> <<Tk("catch"), P(1), Tk(":"), P(2), Body(3)>>,
     Arm |-> <<Tk("recv"), P(1), Tk("->"), P(2), Body(3)>>, Entry |-> <<P(1), Tk("=>"), P(2)>>, Init |-> <<P(1), Tk(":"), P(2)>>,
     LParam |-> <<P(1), Tk(":"), <<"infer", 2>>>>, Param |-> <<P(2), Tk(":"), P(3)>>,
     Sig |-> <<Cat(1), <<"signature", 2>>, Tk(";")>>, FieldDef |-> <<P(1), Tk(":"), P(2), Tk(";")>>,
     Member |-> <<Cat(1), Cat(2), <<"visibility", 3>>, <<"flag", 4, "var">>, <<"flag", 5, "async">>, P(6)>>,
     Method |-> <<P(1), P(2)>> \o Args(4) \o <<Tk("->"), P(5), Body(6)>>, Variant |-> <<Cat(1), P(2), If(3, "(", ")"), Tk(";")>>,
     Annotation |-> <<Tk("@"), P(1), If(2, "(", ")")>>, AList |-> <<Tk("["), L(1), Tk("]")>>, AEnum |-> <<P(1), Tk("."), P(2)>>]

Header == <<P(1), If(2, "<", ">")>> \o Args(3) \o <<Tk("->"), P(4)>>

(* An extern function is a Function with an empty body. *)
fmt_decl ==
    [Function |-> <<Tk("fn")>> \o Header \o <<Body(5)>>, Extern |-> <<Tk("fn"), P(1)>> \o Args(2) \o <<Tk("->"), P(3), Tk("{"), Tk("}")>>,
     Class |-> <<Tk("class"), P(1), If(2, "<", ">"), If(3, "extends", ""), If(4, "implements", ""), Tk("{"), Cat(5), Cat(6), Tk("}")>>,
     Interface |-> <<Tk("interface"), P(1), If(2, "extends", ""), Tk("{"), Cat(3), Tk("}")>>,
     Trait |-> <<Tk("trait"), P(1), Tk("{"), Cat(2), Tk("}")>>, Enum |-> <<Tk("enum"), P(1), Tk("{"), Cat(2), Tk("}")>>,
     Import |-> <<Tk("import"), Path(1, "::"), If(2, "as", ""), Tk(";")>>, Module |-> <<Tk("module"), Path(1, "."), Tk(";")>>,
     Namespace |-> <<Tk("namespace"), Path(1, "."), Tk("{"), Cat(2), Tk("}")>>, Immutable |-> <<Tk("immutable"), P(1)>> \o Args(2),
     Decl |-> <<<<"decl">>>>]

Tables == <<fmt_type, fmt_pattern, fmt_expr, fmt_stmt_kind, FmtPart, fmt_decl>>
Template(label) == LET k == CHOOSE k \in 1..Len(Tables) : label \in DOMAIN Tables[k] IN Tables[k][label]

(* A byte is written as its number and a b. *)
fmt_literal(w) == IF w = "b'c'" THEN <<"1", "b">> ELSE <<w>>

(* A part that is a word stands for itself. *)
RECURSIVE Fmt(_, _), Render(_, _), FmtList(_, _, _)
FmtList(ns, words, sep) ==
    IF ns = <<>> THEN <<>>
    ELSE Fmt(Head(ns), words) \o (IF Len(ns) > 1 /\ sep # "" THEN <<sep>> ELSE <<>>) \o FmtList(Tail(ns), words, sep)

Fmt(n, word) == IF word THEN fmt_literal(n) ELSE Render(Template(n[1]), n)

(* Annotations and doc comment, of the declarations that print them. *)
Lead(n) == LET kind == n[5][1]
           IN  (IF kind \in {"Function", "Class", "Interface", "Enum", "Trait"} THEN FmtList(n[2], FALSE, "") ELSE <<>>)
               \o (IF kind \in {"Function", "Class", "Interface", "Enum", "Trait", "Immutable"} THEN n[3] ELSE <<>>)
               \o (IF kind = "Function" /\ n[4] = "async" THEN <<"async">> ELSE <<>>)

fmt_block_stmt(b) == IF b[1] = "Block" THEN Fmt(b, FALSE) ELSE <<"{">> \o Fmt(b, FALSE) \o <<"}">>
(* mutant: protected members become package members *)
fmt_visibility_private(w) == IF w = "private" THEN <<w>> ELSE <<>>

fmt_visibility(w) == IF w \in {"private", "protected"} THEN <<w>> ELSE <<>>

Piece(op, n) ==
    LET part == n[op[2] + 1]
        words == AllShapes[n[1]][op[2]] \in Words
    IN  CASE op[1] = "part" -> Fmt(part, words)
          [] op[1] = "list" -> FmtList(part, words, op[3])
          [] op[1] = "if" -> IF part = <<>> THEN <<>>
                             ELSE <<op[3]>> \o FmtList(part, words, ",") \o (IF op[4] = "" THEN <<>> ELSE <<op[4]>>)
          [] op[1] = "else" -> IF part = <<>> THEN <<>> ELSE <<"else", "{">> \o Fmt(part[1], FALSE) \o <<"}">>
          [] op[1] = "body" -> fmt_block_stmt(part)
          [] op[1] = "bare" -> IF part = <<>> THEN <<>> ELSE LET ts == Fmt(part[1], FALSE) IN SubSeq(ts, 1, Len(ts) - 1)
          [] op[1] = "infer" -> IF part = <<>> THEN <<"_">> ELSE Fmt(part[1], FALSE)
          [] op[1] = "signature" -> <<"fn">> \o Render(Header, part)
          [] op[1] = "visibility" -> fmt_visibility(part)
          [] OTHER -> IF part = op[3] THEN <<part>> ELSE <<>>

Render(template, n) ==
    IF template = <<>> THEN <<>>
    ELSE LET op == Head(template)
         IN  (CASE op[1] = "token" -> <<op[2]>>
                [] op[1] = "decl" -> Lead(n) \o Fmt(n[5], FALSE)
                [] OTHER -> Piece(op, n))
             \o Render(Tail(template), n)

format(decls) == FmtList(decls, FALSE, "")
=============================================================================
