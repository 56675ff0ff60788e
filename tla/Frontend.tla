------------------------------- MODULE Frontend -------------------------------
(***************************************************************************)
(* Parser, node numbering and formatter together: what the rest of the      *)
(* compiler and tinox fmt rely on.                                          *)
(***************************************************************************)
EXTENDS Parser, Ast

F == INSTANCE Formatter

CONSTANT Chains    \* the sources  fn f() -> T { return a op a op ... a; }
ASSUME ChainsAssumption == Chains \subseteq Inputs

Clean == done /\ st.e = 0

(* A finished parse gives trees of the shapes ast.rs declares. *)
TreesWellFormed == done => \A k \in 1..Len(decls) : WellFormed(decls[k], "d")

(* The tree a chain of operands and operators stands for: the operator applied
   last is the rightmost one of the weakest level. *)
LevelOf(o) == CHOOSE k \in 1..Len(Levels) : o \in Levels[k]
RECURSIVE Grouped(_)
Grouped(c) ==
    IF Len(c) = 1 THEN <<"Ident", c[1]>>
    ELSE LET ops == {i \in 1..Len(c) : i % 2 = 0}
             weakest == {i \in ops : \A j \in ops : LevelOf(c[i]) <= LevelOf(c[j])}
             last == Max(weakest)
         IN  <<"Binary", c[last], Grouped(SubSeq(c, 1, last - 1)), Grouped(SubSeq(c, last + 1, Len(c)))>>

(* Ten functions of the parser, one per level, group every chain of binary
   operators by precedence and to the left (parse_or_expr .. parse_mul_expr). *)
PrecedenceRight ==
    done /\ src \in Chains =>
        /\ st.e = 0
        /\ decls[1][5][6][2][1][2][1] = Grouped(SubSeq(src, 9, Len(src) - 2))

(* The words of a tree, in order. *)
RECURSIVE Leaves(_, _)
Leaves(n, sort) ==
    LET shape == Shapes(sort)[n[1]]
        RECURSIVE parts(_, _), each(_, _, _)
        parts(i, acc) ==
            IF i > Len(shape) THEN acc
            ELSE parts(i + 1, acc \o CASE shape[i] = "w" -> <<n[i + 1]>>
                                       [] shape[i] = "W" -> n[i + 1]
                                       [] shape[i] \in Lists -> each(n[i + 1], shape[i], 1)
                                       [] OTHER -> Leaves(n[i + 1], shape[i]))
        each(list, kind, j) == IF j > Len(list) THEN <<>> ELSE Leaves(list[j], kind) \o each(list, kind, j + 1)
    IN  parts(1, <<>>)
IsWord(w) == w \in Idents \cup Literals \cup {"this", "||", "&&", "==", "<=", "-", "+="}
RECURSIVE WordsOf(_)
WordsOf(ds) == IF ds = <<>> THEN 0
               ELSE Len(SelectSeq(Leaves(Head(ds), "d"), IsWord)) + WordsOf(Tail(ds))

(* Where the parser steps over tokens without keeping them: what may be type
   arguments of a call or before a brace, also where < and > compare; argument
   names, an array type's length. *)
MayDrop(t) ==
    \/ \E i, j \in 1..Len(t) - 1 : i < j /\ t[i] = "<" /\ t[j] \in {">", ">>"} /\ t[j + 1] \in {"{", "(", ".", "::"}
    \/ \E i \in 1..Len(t) : t[i] = "[" \/ t[i] \in DOMAIN InterpParts
    \/ \E i, j \in 1..Len(t) : i + 1 < j /\ t[i] = "(" /\ t[j] = ":"

(* No name, literal or operator of a source that parses without an error is
   missing from the trees, beyond those places; an annotation and a doc comment
   go where their declaration has room for them (parse_decl). *)
NoTokenLost ==
    Clean /\ ~MayDrop(src) /\ (\A i \in 1..Len(src) : src[i] \notin {"@", "doc"}) =>
        Len(SelectSeq(src, IsWord)) = WordsOf(decls)

(* Whatever the tokens, parse comes to an end: every error makes synchronize
   move on. *)
ParsingEnds == <>done

(* n lists, parentheses, calls or blocks inside each other; n operators before
   an operand, n ternaries or assignments in each other's last part. *)
InReturn(e) == <<"fn", "f", "(", ")", "->", "T", "{", "return">> \o e \o <<";", "}">>
Copies(n, t) == [i \in 1..n * Len(t) |-> t[((i - 1) % Len(t)) + 1]]
Nested(n) == {InReturn(Copies(n, <<"[">>) \o <<"a">> \o Copies(n, <<"]">>)),
              InReturn(Copies(n, <<"(">>) \o <<"a">> \o Copies(n, <<")">>)),
              InReturn(Copies(n, <<"f", "(">>) \o <<"a">> \o Copies(n, <<")">>)),
              <<"fn", "f", "(", ")", "{">> \o Copies(n, <<"{">>) \o <<"let", "x", "=", "a", ";">> \o Copies(n, <<"}">>) \o <<"}">>}
Chained(n) == {InReturn(Copies(n, t) \o <<"a">>) :
                  t \in {<<"-">>, <<"!">>, <<"a", "?", "b", ":">>, <<"x", "=">>, <<"x", "+=">>, <<"x", "=>">>}}

(* MAX_RECURSION_DEPTH bounds, exactly, how many statements and expressions in
   brackets of any kind are open at a time (parse_stmt, parse_expr): one more
   is an error, and no fewer.  Operators, ternaries, assignments and types in
   each other are not counted: see NestingBounded. *)
DepthBounded ==
    \A n \in 0..MaxDepth : done /\ src \in Nested(n) => (st.e = 0) = (n + 2 <= MaxDepth)

(* How many expressions are inside each other. *)
RECURSIVE Height(_, _)
Height(n, sort) ==
    LET parts == Parts(n, sort)
    IN  Max({0} \cup {Height(parts[i][2], parts[i][1]) : i \in 1..Len(parts)}) + (IF sort \in {"e", "E"} THEN 1 ELSE 0)

(* What the comment on MAX_RECURSION_DEPTH says (parser.rs, 17-20): no tree of
   a source that parses without an error nests deeper than the limit. *)
NestingBounded == Clean => \A k \in 1..Len(decls) : Height(decls[k], "d") <= MaxDepth


(* Every expression of the trees is numbered once, and nothing else is: the
   type checker keys its annotations by these numbers (assign_node_ids). *)
EveryExprNumberedOnce ==
    Clean => \A ids \in {assign_node_ids(decls)} :
        /\ \A i, j \in 1..Len(ids) : ids[i] = ids[j] => i = j
        /\ {ids[i] : i \in 1..Len(ids)} = UNION {ExprPaths(decls[k], "d", <<k>>) : k \in 1..Len(decls)}
-----------------------------------------------------------------------------
(* What the formatter keeps: nodes it writes as the parser reads them. *)
KeptLabels == {"Decl", "Function", "Class", "Interface", "Trait", "Enum", "Import", "Module", "Member", "Method", "FieldDef",
               "Param", "Sig", "Variant", "TName", "TGeneric", "TMap", "TNullable", "TMut", "TTuple", "Annotation", "AEnum", "AList",
               "Block", "ExprStmt", "Let", "Var", "Assignment", "If", "While", "For", "Loop", "Return", "Break", "Continue",
               "Throw", "Try", "Catch", "Select", "Arm", "Match", "Case", "PWild", "PIdent", "PLit", "PTuple", "PEnum",
               "Lit", "Ident", "Word", "Array", "Tuple", "Binary", "Unary", "Call", "MethodCall", "Index", "Field",
               "SuperCall", "New", "Struct", "EnumValue", "Init"}

(* How tightly an expression holds together when it is written bare. *)
Strength(e) == CASE e[1] \in {"Lit", "Ident", "Word", "Array", "Tuple", "Call", "MethodCall", "Index", "Field", "EnumValue",
                              "SuperCall"} -> 20
                 [] e[1] = "Unary" -> 15
                 [] e[1] = "Binary" -> LevelOf(e[2])
                 [] OTHER -> 0

(* A tree whose meaning needs no parentheses, at a node. *)
Bound(n) ==
    CASE n[1] = "Binary" -> Strength(n[3]) >= LevelOf(n[2]) /\ Strength(n[4]) > LevelOf(n[2])
      [] n[1] = "Unary" -> Strength(n[3]) = 20
      [] n[1] = "Call" -> n[2][1] = "Ident"
      [] n[1] \in {"MethodCall", "Index", "Field"} -> Strength(n[2]) = 20 /\ n[2][1] # "Lit"
      [] n[1] = "Tuple" -> Len(n[2]) # 1
      [] n[1] = "EnumValue" -> n[4] = <<>> /\ n[2] \in Uppers
      [] n[1] = "Member" -> n[4] # "public" /\ (n[7][1] = "Method" => n[7][4] = <<>> /\ n[5] = "fixed") /\ (n[7][1] = "FieldDef" => n[6] = "sync")
      [] n[1] = "Param" -> n[2] = <<>>
      [] n[1] \in {"Lit", "PLit"} -> n[2] # "b'c'"
      [] n[1] = "Sig" -> n[3][1] = "Function" /\ n[3][6] = <<"Block", <<>>>>
      [] OTHER -> TRUE

RECURSIVE Keeps(_, _)
Keeps(n, sort) ==
    /\ n[1] \in KeptLabels /\ Bound(n)
    /\ \A ps \in {Parts(n, sort)} : \A i \in 1..Len(ps) : Keeps(ps[i][2], ps[i][1])

RECURSIVE ParseAll(_, _)
ParseAll(s, ds) ==
    IF s.p > Len(s.t) THEN [ok |-> TRUE, ds |-> ds]
    ELSE The({IF r.ok /\ r.s.e = 0 THEN ParseAll(r.s, ds \o r.n) ELSE [ok |-> FALSE, ds |-> ds] : r \in {Call("decl", s)}})

(* A file of such trees means the same after tinox fmt: the text it writes
   parses without an error to the trees it was given. *)
FormatReparses ==
    Clean /\ (\A k \in 1..Len(decls) : Keeps(decls[k], "d")) =>
        \A text \in {F!format(decls)} : ParseAll(Start(text), <<>>) = [ok |-> TRUE, ds |-> decls]
=============================================================================
