--------------------------------- MODULE Ast ---------------------------------
(***************************************************************************)
(* The syntax tree (ast.rs): for every node label the sorts of its parts.   *)
(*   w a word   e an expression   s a statement   t a type   p a pattern     *)
(*   d a declaration   a an annotation   m anything else with parts          *)
(* A capital letter is a list of them (an option is a list of at most one).  *)
(***************************************************************************)
EXTENDS Naturals, Sequences, TLC

TypeShapes == [TName |-> <<"w">>, TGeneric |-> <<"w", "T">>, TMap |-> <<"t", "t">>, TArray |-> <<"t">>,
               TRef |-> <<"t">>, TMut |-> <<"t">>, TNullable |-> <<"t">>, TTuple |-> <<"T">>, TFn |-> <<"T", "t">>]

PatternShapes == [PWild |-> <<>>, PIdent |-> <<"w">>, PLit |-> <<"w">>, PTuple |-> <<"P">>,
                  PEnum |-> <<"w", "w", "P">>, PCtor |-> <<"w", "P">>]

ExprShapes ==
    [Lit |-> <<"w">>, Ident |-> <<"w">>, Word |-> <<"w">>, Array |-> <<"E">>, MapLit |-> <<"M">>, Tuple |-> <<"E">>,
     Binary |-> <<"w", "e", "e">>, Unary |-> <<"w", "e">>, Call |-> <<"e", "E">>, MethodCall |-> <<"e", "w", "E">>,
     Index |-> <<"e", "e">>, Field |-> <<"e", "w">>, TupleIndex |-> <<"e", "w">>, SuperCall |-> <<"w", "E">>,
     New |-> <<"w", "T", "E">>, Struct |-> <<"w", "M">>, EnumValue |-> <<"w", "w", "T", "E">>,
     BlockE |-> <<"S">>, IfE |-> <<"e", "e", "E">>, WhileE |-> <<"e", "e">>, LoopE |-> <<"e">>,
     Match |-> <<"e", "M">>, ReturnE |-> <<"E">>, Assign |-> <<"e", "e">>, CompoundAssign |-> <<"w", "e", "e">>,
     Lambda |-> <<"M", "T", "e">>, Spawn |-> <<"e">>, Await |-> <<"e">>, Send |-> <<"e", "e">>, Recv |-> <<"e">>,
     Cast |-> <<"e", "t">>, Is |-> <<"e", "t">>, Range |-> <<"e", "e">>, RangeIncl |-> <<"e", "e">>]

StmtShapes ==
    [ExprStmt |-> <<"e">>, Let |-> <<"w", "T", "E">>, Var |-> <<"w", "T", "E">>, Assignment |-> <<"e", "e">>,
     If |-> <<"e", "s", "S">>, While |-> <<"e", "s">>, For |-> <<"w", "e", "s">>, ForC |-> <<"S", "E", "E", "s">>,
     Loop |-> <<"s">>, Return |-> <<"E">>, Break |-> <<>>, Continue |-> <<>>, Throw |-> <<"e">>,
     Try |-> <<"s", "M", "S">>, Defer |-> <<"s">>, Block |-> <<"S">>, Select |-> <<"M", "S">>, Empty |-> <<>>]

(* Cases, catch clauses, select arms, entries, parameters, members. *)
PartShapes ==
    [Case |-> <<"p", "E", "e">>, Catch |-> <<"w", "t", "s">>, Arm |-> <<"e", "w", "s">>, Entry |-> <<"e", "e">>,
     Init |-> <<"w", "e">>, LParam |-> <<"w", "T">>, Param |-> <<"A", "w", "t">>, Sig |-> <<"W", "d">>,
     Member |-> <<"A", "W", "w", "w", "w", "m">>, FieldDef |-> <<"w", "t">>,
     Method |-> <<"w", "w", "W", "M", "t", "s">>, Variant |-> <<"W", "w", "T">>]

AnnotationShapes == [Annotation |-> <<"w", "A">>, Lit |-> <<"w">>, AList |-> <<"A">>, AEnum |-> <<"w", "w">>]

DeclShapes ==
    [Decl |-> <<"A", "W", "w", "d">>, Function |-> <<"w", "W", "M", "t", "s">>, Extern |-> <<"w", "M", "t">>,
     Class |-> <<"w", "W", "W", "W", "M", "M">>, Interface |-> <<"w", "W", "M">>, Trait |-> <<"w", "M">>,
     Enum |-> <<"w", "M">>, Import |-> <<"W", "W">>, Module |-> <<"W">>, Namespace |-> <<"W", "D">>,
     Immutable |-> <<"w", "M">>]

Shapes(sort) == CASE sort \in {"t", "T"} -> TypeShapes
                  [] sort \in {"p", "P"} -> PatternShapes
                  [] sort \in {"e", "E"} -> ExprShapes
                  [] sort \in {"s", "S"} -> StmtShapes
                  [] sort \in {"a", "A"} -> AnnotationShapes
                  [] sort \in {"d", "D"} -> DeclShapes
                  [] OTHER -> PartShapes
AllShapes == TypeShapes @@ PatternShapes @@ ExprShapes @@ StmtShapes @@ PartShapes @@ AnnotationShapes @@ DeclShapes
Lists == {"T", "P", "E", "S", "A", "D", "M"}
Words == {"w", "W"}

(* Whether n is a tree of the sort. *)
RECURSIVE WellFormed(_, _)
WellFormed(n, sort) ==
    /\ n[1] \in DOMAIN Shapes(sort)
    /\ LET shape == Shapes(sort)[n[1]]
       IN  /\ Len(n) = Len(shape) + 1
           /\ \A i \in 1..Len(shape) :
                 CASE shape[i] \in Words -> TRUE
                   [] shape[i] \in Lists -> \A j \in 1..Len(n[i + 1]) : WellFormed(n[i + 1][j], shape[i])
                   [] OTHER -> WellFormed(n[i + 1], shape[i])

(* The parts of n that are trees, with the sort of each, in order. *)
RECURSIVE PartsFrom(_, _, _)
PartsFrom(n, shape, i) ==
    IF i > Len(shape) THEN <<>>
    ELSE (CASE shape[i] \in Words -> <<>>
            [] shape[i] \in Lists -> [j \in 1..Len(n[i + 1]) |-> <<shape[i], n[i + 1][j], <<i, j>>>>]
            [] OTHER -> <<<<shape[i], n[i + 1], <<i, 1>>>>>>)
         \o PartsFrom(n, shape, i + 1)
Parts(n, sort) == PartsFrom(n, Shapes(sort)[n[1]], 1)

(* Where the expressions of a tree are, as paths of part numbers. *)
RECURSIVE ExprPaths(_, _, _)
ExprPaths(n, sort, path) ==
    (IF sort \in {"e", "E"} THEN {path} ELSE {})
    \cup UNION {ExprPaths(part[2], part[1], path \o part[3]) : part \in {Parts(n, sort)[i] : i \in 1..Len(Parts(n, sort))}}
-----------------------------------------------------------------------------
(***************************************************************************)
(* Numbering the expressions of the tree (node_ids.rs).  The numberer has a *)
(* case for every kind of node and visits the parts it names; Visited gives *)
(* those parts, in order.  The result is the sequence of the expressions    *)
(* numbered 1, 2, 3, ..., each by its path in the tree.                     *)
(***************************************************************************)

(* Parts a number i: the part itself, or every element if it is a list. *)
DeclVisits ==
    [Decl |-> <<4>>, Function |-> <<5>>, Extern |-> <<>>, Class |-> <<6>>, Interface |-> <<3>>, Trait |-> <<2>>,
     Namespace |-> <<2>>, Enum |-> <<>>, Import |-> <<>>, Module |-> <<>>, Immutable |-> <<>>]

StmtVisits ==
    [ExprStmt |-> <<1>>, Throw |-> <<1>>, Let |-> <<3>>, Var |-> <<3>>, Assignment |-> <<1, 2>>, If |-> <<1, 2, 3>>,
     While |-> <<1, 2>>, For |-> <<2, 3>>, ForC |-> <<1, 2, 3, 4>>, Loop |-> <<1>>, Defer |-> <<1>>, Return |-> <<1>>,
     Try |-> <<1, 2, 3>>, Block |-> <<1>>, Select |-> <<1, 2>>, Break |-> <<>>, Continue |-> <<>>, Empty |-> <<>>]

(* mutant: the body of a lambda is forgotten *)
ExprVisitsNoLambda ==
    [l \in DOMAIN ExprShapes |->
        SelectSeq([i \in 1..Len(ExprShapes[l]) |-> i], LAMBDA i : l # "Lambda" /\ ExprShapes[l][i] \in {"e", "E", "S", "M"})]

ExprVisits ==
    [Lit |-> <<>>, Ident |-> <<>>, Word |-> <<>>, Array |-> <<1>>, MapLit |-> <<1>>, Tuple |-> <<1>>,
     Binary |-> <<2, 3>>, Unary |-> <<2>>, Call |-> <<1, 2>>, MethodCall |-> <<1, 3>>, Index |-> <<1, 2>>,
     Field |-> <<1>>, TupleIndex |-> <<1>>, SuperCall |-> <<2>>, New |-> <<3>>, Struct |-> <<2>>, EnumValue |-> <<4>>,
     BlockE |-> <<1>>, IfE |-> <<1, 2, 3>>, WhileE |-> <<1, 2>>, LoopE |-> <<1>>, Match |-> <<1, 2>>,
     ReturnE |-> <<1>>, Assign |-> <<1, 2>>, CompoundAssign |-> <<2, 3>>, Lambda |-> <<3>>, Spawn |-> <<1>>,
     Await |-> <<1>>, Send |-> <<1, 2>>, Recv |-> <<1>>, Cast |-> <<1>>, Is |-> <<1>>, Range |-> <<1, 2>>,
     RangeIncl |-> <<1, 2>>]

PartVisits ==
    [Case |-> <<2, 3>>, Catch |-> <<3>>, Arm |-> <<1, 3>>, Entry |-> <<1, 2>>, Init |-> <<2>>, Sig |-> <<2>>,
     Member |-> <<6>>, Method |-> <<6>>]

Visited(n, sort) ==
    CASE sort \in {"e", "E"} -> ExprVisits[n[1]]
      [] sort \in {"s", "S"} -> StmtVisits[n[1]]
      [] sort \in {"d", "D"} -> DeclVisits[n[1]]
      [] OTHER -> PartVisits[n[1]]

RECURSIVE Number(_, _, _), NumberParts(_, _, _, _)
Number(n, sort, path) ==
    (IF sort \in {"e", "E"} THEN <<path>> ELSE <<>>) \o NumberParts(n, sort, path, Visited(n, sort))

NumberParts(n, sort, path, visits) ==
    IF visits = <<>> THEN <<>>
    ELSE LET i == Head(visits)
             kind == Shapes(sort)[n[1]][i]
             list == IF kind \in Lists THEN n[i + 1] ELSE <<n[i + 1]>>
             RECURSIVE each(_)
             each(j) == IF j > Len(list) THEN <<>> ELSE Number(list[j], kind, path \o <<i, j>>) \o each(j + 1)
         IN  each(1) \o NumberParts(n, sort, path, Tail(visits))

assign_node_ids(decls) ==
    LET RECURSIVE each(_)
        each(k) == IF k > Len(decls) THEN <<>> ELSE Number(decls[k], "d", <<k>>) \o each(k + 1)
    IN  each(1)
=============================================================================
