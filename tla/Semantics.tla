------------------------------ MODULE Semantics ------------------------------
(***************************************************************************)
(* What the rest of the compiler and a running program may rely on once the *)
(* type checker has accepted a program.                                     *)
(***************************************************************************)
EXTENDS TypeCheck

Checked(k) == checks[k]
Bodies == 1..Len(checks)
ToSetOfParts(n, sort) == {Parts(n, sort)[i] : i \in 1..Len(Parts(n, sort))}

(* Whatever the order in which the classes come, a class ends up with every
   field and method of its ancestors, the nearest one where there are several
   (register_declarations, third pass). *)
ParentOf == {<<c[2], c[4][1]>> : c \in {d \in Classes : d[4] # <<>>}}
RECURSIVE Above(_, _)
Above(n, k) == IF k = 0 THEN {n} ELSE LET r == Above(n, k - 1) IN r \cup {p[2] : p \in {q \in ParentOf : q[1] \in r}}
Upwards(n) == Above(n, Cardinality(ClassNames))
Circular(n) == \E m \in Upwards(n) : \E p \in ParentOf : p[1] = m /\ m \in Upwards(p[2])
Sound(n) == ~Circular(n) /\ Upwards(n) \subseteq ClassNames
Nearer(a, b) == b \in Upwards(a)
MethodsOf(n) == {ClassOf(n)[7][i] : i \in 1..Len(ClassOf(n)[7])}
FieldsOf(n)  == {ClassOf(n)[6][i] : i \in 1..Len(ClassOf(n)[6])}
InheritedWhole ==
    phase = "check" /\ at = 1 => \A n \in ClassNames : Sound(n) =>
        /\ n \in reg.known
        /\ \A a \in Upwards(n) : \A m \in MethodsOf(a) :
              (\A b \in Upwards(n) : (\E o \in MethodsOf(b) : o[7][3] = m[7][3]) => Nearer(a, b)) =>
                 /\ Key(n, m[7][3]) \in DOMAIN reg.functions
                 /\ \A i \in 1..Len(m[7][5]) : \E j \in 1..Len(reg.functions[Key(n, m[7][3])].params) :
                       reg.functions[Key(n, m[7][3])].params[j][1] = m[7][5][i][3]
                 /\ reg.methodVis[Key(n, m[7][3])] = m[4]
        /\ \A a \in Upwards(n) : \A m \in FieldsOf(a) :
              (\A b \in Upwards(n) : (\E o \in FieldsOf(b) : o[7][2] = m[7][2]) => Nearer(a, b)) =>
                 reg.fields[<<n, m[7][2]>>] = from_parser_type(m[7][3]) /\ m[7][2] \in reg.classFields[n]

(* The interfaces extend each other in a chain of any length; they are expanded
   one after the other in the order of a hash map (register_declarations, second
   pass), so what an interface has of the methods of its parents' parents is what
   its parents had at its turn.  Whatever the order, it ends up with its own
   methods and those its parents declare, and with none from outside the chain;
   and an accepted class has, by itself or from an ancestor, with as many
   parameters, those of each interface it names (check_class). *)
InterfaceOf(i) == {Decls[k][5] : k \in {j \in 1..Len(Decls) : Decls[j][5][1] = "Interface" /\ Decls[j][5][2] = i}}
Asked(d) == {d[4][k][3] : k \in 1..Len(d[4])}
ExtendedBy(i) == UNION {ToSet(d[3]) : d \in InterfaceOf(i)}
RECURSIVE ChainOf(_, _)
ChainOf(S, n) == IF n = 0 THEN S ELSE ChainOf(S \cup UNION {ExtendedBy(i) : i \in S}, n - 1)
Declared(S) == {f[2] : f \in UNION {Asked(d) : d \in UNION {InterfaceOf(i) : i \in S}}}
InterfaceWhole ==
    phase = "check" /\ at = 1 => \A i \in {j \in DOMAIN reg.interfaces : InterfaceOf(j) # {}} :
        /\ Declared({i} \cup ExtendedBy(i)) \subseteq MethodNames(reg.interfaces[i])
        /\ MethodNames(reg.interfaces[i]) \subseteq Declared(ChainOf({i}, Cardinality(DOMAIN reg.interfaces)))
ClassKeeps ==
    Accepted => \A c \in Classes : Sound(c[2]) => \A i \in ToSet(c[5]) : \A d \in InterfaceOf(i) :
        \A f \in Asked(d) \cup UNION {Asked(e) : e \in UNION {InterfaceOf(p) : p \in ToSet(d[3])}} :
            (\E own \in Asked(d) : own[2] = f[2] /\ own # f) \/
            \E a \in Upwards(c[2]) : \E m \in MethodsOf(a) :
                m[7][3] = f[2] /\ (m[7][2] = "fn" => Len(m[7][5]) = Len(f[4]))
InterfaceKept == InterfaceWhole /\ ClassKeeps

(* Whether a name or a whole subtree goes without a type: what is called, and
   the guard of a match case. *)
RECURSIVE MustHaveType(_, _, _)
MustHaveType(n, sort, path) ==
    (IF sort \in {"e", "E"} THEN {path} ELSE {})
    \cup UNION {MustHaveType(p[2], p[1], path \o p[3]) :
                  p \in {q \in ToSetOfParts(n, sort) : ~(n[1] \in {"Call", "MethodCall"} /\ q[3] = <<1, 1>> /\ q[2][1] = "Ident")
                                                       /\ ~(n[1] = "Case" /\ q[1] = "E")}}

(* The code generator finds a type for every expression of an accepted program
   (infer_type, expr_value_types). *)
EveryExprTyped ==
    Accepted => \A k \in Bodies : MustHaveType(Checked(k).body, "s", <<Checked(k).who>>) \subseteq DOMAIN Checked(k).types

(* How a statement or expression can end. *)
Irrefutable(case) == case[2][1] \in {"PWild", "PIdent"} /\ case[3] = <<>>
RECURSIVE Ends(_, _), EndsAll(_, _), Jumps(_, _)
EndsAll(parts, i) ==    \* the parts from i on, one after the other
    IF i > Len(parts) THEN {"normal"}
    ELSE LET first == Ends(parts[i][2], parts[i][1])
         IN  (first \ {"normal"}) \cup IF "normal" \in first THEN EndsAll(parts, i + 1) ELSE {}
Loops == {"While", "For", "ForC", "Loop"}
Ends(n, sort) ==
    LET l == n[1]  parts == Parts(n, sort)
        ends(i) == Ends(parts[i][2], parts[i][1])
    IN  CASE l \in {"Return", "Throw", "ReturnE"} -> {"exit"}
          [] l \in {"Break", "Continue"} -> {"jump"}
          [] l = "Lambda" -> {"normal"}
          [] l \in Loops \cup {"WhileE", "LoopE", "Select", "Defer"} ->
                {"normal"} \cup (EndsAll(parts, 1) \ {"jump"})
          [] l \in {"If", "IfE"} -> (ends(1) \ {"normal"}) \cup ends(2) \cup IF Len(parts) = 3 THEN ends(3) ELSE {"normal"}
          [] l = "Match" ->
                (ends(1) \ {"normal"}) \cup UNION {Ends(n[3][i][4], "e") : i \in 1..Len(n[3])}
                \cup IF \E i \in 1..Len(n[3]) : Irrefutable(n[3][i]) THEN {} ELSE {"normal"}
          [] l = "Try" -> {"normal"} \cup UNION {Ends(parts[i][2], parts[i][1]) : i \in 1..Len(parts)}
          [] OTHER -> EndsAll(parts, 1)

(* Where the checker takes more for an exit than is one: break and continue as
   expressions, loops as expressions, matches that may match nothing. *)
RECURSIVE Honest(_, _)
Honest(n, sort) ==
    /\ n \notin {<<"Word", "break">>, <<"Word", "continue">>}
    /\ n[1] # "LoopE"
    /\ n[1] = "Match" => \E i \in 1..Len(n[3]) : Irrefutable(n[3][i])
    /\ \A p \in ToSetOfParts(n, sort) : Honest(p[2], p[1])

(* An accepted function with a result never runs off its end
   (check_function, check_stmt). *)
ReturnsOnEveryPath ==
    Accepted => \A k \in Bodies :
        Checked(k).ret \notin {Nothing, Never} /\ Honest(Checked(k).body, "s") => "normal" \notin Ends(Checked(k).body, "s")

(* break and continue statements outside every loop of a body are found, and
   no others (check_stmt, in_loop). *)
Jumps(n, sort) ==    \* a jump that no loop statement of n catches
    \/ n[1] \in {"Break", "Continue"}
    \/ n[1] \notin Loops /\ \E p \in ToSetOfParts(n, sort) : Jumps(p[2], p[1])
    \/ n[1] = "ForC" /\ n[2] # <<>> /\ Jumps(n[2][1], "s")
JumpsInsideLoops ==
    phase = "done" => \A k \in Bodies : ("OutsideLoop" \in Checked(k).errs) = Jumps(Checked(k).body, "s")

(* What is chosen among several values has a type all of them fit: branches,
   cases and elements, as recorded for the code generator (lub). *)
RECURSIVE Joins(_, _, _)
Joins(n, sort, path) ==
    (CASE n[1] = "IfE" /\ n[4] # <<>> -> {<<path, path \o <<2, 1>>>>, <<path, path \o <<3, 1>>>>}
       [] n[1] = "Match" -> {<<path, path \o <<2, i, 3, 1>>>> : i \in 1..Len(n[3])}
       [] n[1] = "Array" -> {<<path, path \o <<1, i>>>> : i \in 1..Len(n[2])}
       [] OTHER -> {})
    \cup UNION {Joins(p[2], p[1], path \o p[3]) : p \in ToSetOfParts(n, sort)}
JoinsCover ==
    Accepted => \A k \in Bodies : \A j \in Joins(Checked(k).body, "s", <<Checked(k).who>>) :
        j[1] \in DOMAIN Checked(k).types /\ j[2] \in DOMAIN Checked(k).types =>
            LET whole == Checked(k).types[j[1]]  part == Checked(k).types[j[2]]
            IN  Fits(IF whole[1] = "Array" /\ j[2] = j[1] \o <<1, j[2][Len(j[2])]>> THEN whole[2] ELSE whole, part)

(* Values, to run accepted bodies with. *)
RECURSIVE Conforms(_, _)
Conforms(v, t) == CASE t[1] = "Nullable" -> v[1] = "Null" \/ Conforms(v, t[2])
                    [] t[1] = "Array" -> v[1] = "Array" /\ \A i \in 1..Len(v[2]) : Conforms(v[2][i], t[2])
                    [] t[1] = "Float" -> v[1] \in {"Int", "Float"}    \* whole numbers are converted
                    [] t[1] \in {"Any", "Nothing", "Never"} -> TRUE
                    [] OTHER -> v[1] = t[1]

Sample == [Int |-> {<<"Int", 0>>, <<"Int", 1>>}, Float |-> {<<"Float", 1>>}, Bool |-> {<<"Bool", TRUE>>, <<"Bool", FALSE>>},
           String |-> {<<"String", 0>>}]
RECURSIVE ValuesOf(_)
ValuesOf(t) == CASE t[1] = "Nullable" -> {<<"Null">>} \cup ValuesOf(t[2])
                 [] t[1] = "Array" -> {<<"Array", <<>>>>} \cup {<<"Array", <<v>>>> : v \in ValuesOf(t[2])}
                 [] t[1] \in DOMAIN Sample -> Sample[t[1]]
                 [] OTHER -> {<<t[1]>>}    \* a value no operation here looks into

LiteralValue(w) == CASE LiteralType[w] = Int64 -> <<"Int", 1>> [] LiteralType[w] = Boolean -> <<"Bool", TRUE>>
                     [] LiteralType[w] = Null -> <<"Null">> [] OTHER -> <<LiteralType[w][1], 0>>

(* A machine state: the variables, what was seen (path and value), and whether
   it goes on, returned, or got stuck on a value an operation has no use for. *)
Stop(m, how) == [m EXCEPT !.how = how]
See(m, path, v) == [v |-> v, m |-> [m EXCEPT !.seen = @ \cup {<<path, v>>}]]
Halt(m, how) == [v |-> <<"Null">>, m |-> Stop(m, how)]
Kinds(op) == CASE op \in {"-", "*"} -> {"Int", "Float"} [] op \in {"+", "<"} -> {"Int", "Float", "String"} [] OTHER -> {"Bool"}
ApplyBinary(op, a, b) ==
    CASE op \in {"==", "!="} -> <<"Bool", (a = b) = (op = "==")>>
      [] op = "<" -> <<"Bool", a[2] < b[2]>>
      [] op \in {"&&", "||"} -> <<"Bool", IF op = "&&" THEN a[2] /\ b[2] ELSE a[2] \/ b[2]>>
      [] OTHER -> <<IF a[1] = b[1] THEN a[1] ELSE "Float", IF op = "+" THEN a[2] + b[2] ELSE 0>>
Usable(op, a, b) == op \in {"==", "!="} \/ ({a[1], b[1]} \subseteq Kinds(op) /\ (a[1] = b[1] \/ {a[1], b[1]} = {"Int", "Float"}))

(* A part is only looked at while the machine goes on: with what Go(r) makes of
   the value and the machine before it. *)
Going(r, Go(_)) == IF r.m.how = "on" THEN Go(r) ELSE r
OnMachine(r, Go(_)) == IF r.m.how = "on" THEN Go(r) ELSE r.m

RECURSIVE Eval(_, _)
EvalAll(xs, m) ==
    Scan(LAMBDA r, x : Going(r, LAMBDA q : LET e == Eval(x, q.m) IN [v |-> Append(q.v, e.v), m |-> e.m]), [v |-> <<>>, m |-> m], xs)
(* A form whose parts have the values vs. *)
Apply(x, vs, m) ==
    LET n == x[1]  l == n[1]
    IN  CASE l = "Lit" -> See(m, x[2], LiteralValue(n[2]))
          [] l = "Ident" -> IF n[2] \in DOMAIN m.env THEN See(m, x[2], m.env[n[2]]) ELSE Halt(m, "stuck")
          [] l = "Binary" -> IF Usable(n[2], vs[1], vs[2]) THEN See(m, x[2], ApplyBinary(n[2], vs[1], vs[2])) ELSE Halt(m, "stuck")
          [] l = "Unary" -> IF vs[1][1] \in (IF n[2] = "-" THEN {"Int", "Float"} ELSE {"Bool"})
                            THEN See(m, x[2], IF n[2] = "-" THEN <<vs[1][1], 0>> ELSE <<"Bool", ~vs[1][2]>>) ELSE Halt(m, "stuck")
          [] l = "Array" -> See(m, x[2], <<"Array", vs>>)
          [] l = "Index" -> IF vs[1][1] = "Array" /\ vs[2][1] = "Int"
                            THEN IF vs[2][2] + 1 \in DOMAIN vs[1][2] THEN See(m, x[2], vs[1][2][vs[2][2] + 1]) ELSE Halt(m, "range")
                            ELSE Halt(m, IF vs[1][1] = "String" THEN "unknown" ELSE "stuck")    \* the index of a text is not checked
          [] l = "IfE" -> IF vs[1][1] # "Bool" THEN Halt(m, "stuck")
                          ELSE Going(Eval(IF vs[1][2] THEN Kid(x, 2) ELSE Kids(x, 3)[1], m), LAMBDA b : See(b.m, x[2], b.v))
          [] OTHER -> Halt(m, "unknown")
Eval(x, m) == Going(EvalAll(IF x[1][1] = "IfE" THEN <<Kid(x, 1)>> ELSE Operands(x), m), LAMBDA r : Apply(x, r.v, r.m))

(* A number of one kind where the other is declared is not followed further. *)
Mixed(v, t) == {v[1], t[1]} = {"Int", "Float"} \/ (t[1] = "Nullable" /\ {v[1], t[2][1]} = {"Int", "Float"})
Store(m, n, v, t) == IF Mixed(v, t) THEN Stop(m, "mixed") ELSE [m EXCEPT !.env = Insert(@, n, v)]
RECURSIVE Run(_, _)
RunAll(xs, m) == Scan(LAMBDA q, x : IF q.how = "on" THEN Run(x, q) ELSE q, m, xs)
Run(x, m) ==
    LET n == x[1]  l == n[1]
        part == CASE l \in {"Let", "Var"} -> Kids(x, 3)[1]
                  [] l = "Assignment" -> Kid(x, 2)
                  [] l = "Return" -> Kids(x, 1)[1]
                  [] OTHER -> Kid(x, 1)
        known == CASE l \in {"Let", "Var"} -> n[4] # <<>>
                   [] l = "Assignment" -> n[2][1] = "Ident" /\ n[2][2] \in DOMAIN m.env
                   [] OTHER -> l \in {"If", "Return", "ExprStmt"}
        after(e) ==
            CASE l \in {"Let", "Var"} -> Store(e.m, n[2], e.v, IF n[3] = <<>> THEN AnyType ELSE from_parser_type(n[3][1]))
              [] l = "Assignment" -> Store(e.m, n[2][2], e.v, <<m.env[n[2][2]][1]>>)
              [] l = "If" -> IF e.v[1] # "Bool" THEN Stop(e.m, "stuck") ELSE RunAll(IF e.v[2] THEN <<Kid(x, 2)>> ELSE Kids(x, 3), e.m)
              [] l = "Return" -> [Stop(e.m, "exit") EXCEPT !.result = <<e.v>>]
              [] OTHER -> e.m
    IN  CASE l = "Block" -> [RunAll(Kids(x, 1), m) EXCEPT !.env = [k \in DOMAIN m.env |-> @[k]]]
          [] l = "Return" /\ n[2] = <<>> -> Stop(m, "exit")
          [] l # "Block" /\ known -> OnMachine(Eval(part, m), after)
          [] OTHER -> Stop(m, "unknown")

Arguments(params) ==
    IF params = Empty THEN {Empty}
    ELSE {a \in [DOMAIN params -> UNION {ValuesOf(params[p][1]) : p \in DOMAIN params}] : \A p \in DOMAIN params : a[p] \in ValuesOf(params[p][1])}

(* An accepted body whose types are all known, run with any arguments of their
   declared types, never meets a null, a number or a list where its operation
   has no use for it, and every expression has a value of the type recorded
   for it (infer_type, types_compatible). *)
TypesPredictValues ==
    Accepted => \A k \in Bodies :
        (\A p \in DOMAIN Checked(k).types : ~contains_type_param(Checked(k).types[p], {}) /\ Checked(k).types[p] # AnyType) =>
            \A a \in Arguments(Checked(k).params) :
                \A m \in {Run(<<Checked(k).body, <<Checked(k).who>>>>, [env |-> a, seen |-> {}, how |-> "on", result |-> <<>>])} :
                    /\ m.how # "stuck"
                    /\ \A o \in m.seen : Conforms(o[2], Checked(k).types[o[1]])
                    /\ m.result # <<>> /\ ~Mixed(m.result[1], Checked(k).ret) => Conforms(m.result[1], Checked(k).ret)

(* A call of a generic static method outside generic code has a type without
   type parameters, provided each of them is the type of a parameter and the
   arguments have known types (unify_generic_return). *)
RECURSIVE StaticCalls(_, _, _)
StaticCalls(n, sort, path) ==
    (IF n[1] = "EnumValue" THEN {<<n, path>>} ELSE {}) \cup UNION {StaticCalls(p[2], p[1], path \o p[3]) : p \in ToSetOfParts(n, sort)}
RECURSIVE Mentions(_)
Mentions(t) == CASE t[1] = "Named" -> {t[2]} \cup UNION {Mentions(t[3][i]) : i \in 1..Len(t[3])}
                 [] t[1] \in Boxes -> Mentions(t[2]) [] OTHER -> {}
RECURSIVE SameShape(_, _)
SameShape(p, a) == \/ p[1] = "Named" /\ p[3] = <<>> /\ a[1] \notin {"Any", "Null"}
                   \/ p[1] \in {"Array", "Map"} /\ a[1] = p[1] /\ SameShape(p[2], a[2])
GenericsResolved ==
    Accepted => \A k \in Bodies : \A c \in StaticCalls(Checked(k).body, "s", <<Checked(k).who>>) :
        LET key == Key(c[1][2], c[1][3])
            u == reg.unerased[key]
            args == [i \in 1..Len(c[1][5]) |-> Checked(k).types[c[2] \o <<4, i>>]]
        IN  /\ key \in DOMAIN reg.unerased
            /\ Len(args) = Len(u.params)
            /\ ToSet(u.tps) \subseteq UNION {Mentions(u.params[i]) : i \in 1..Len(u.params)}
            /\ \A i \in 1..Len(args) : SameShape(u.params[i], args[i])
            => Mentions(Checked(k).types[c[2]]) \cap ToSet(u.tps) = {}

(* The members a class has, by inheritance and by its interfaces, do not depend
   on the order in which declarations come or hash maps are walked, but for what
   an interface takes from its parents' parents (InterfaceWhole). *)
DeclarationsRight == InheritedWhole /\ InterfaceKept

(* In an accepted program control goes where it may: functions end with a
   result, jumps stay inside their loops. *)
FlowRight == ReturnsOnEveryPath /\ JumpsInsideLoops

(* In an accepted program every expression has a type, and its values, joins and
   generic calls are what the types say. *)
TypesRight == EveryExprTyped /\ JoinsCover /\ TypesPredictValues /\ GenericsResolved
=============================================================================
