----------------------------- MODULE Declarations -----------------------------
(***************************************************************************)
(* Registering the declarations of a program (typecheck/lib.rs,             *)
(* register_declarations): one pass over the declarations in order, one     *)
(* over the interfaces that extend others and one over the classes, parents *)
(* first.  The second and third pass go through hash maps, so in any order. *)
(***************************************************************************)
EXTENDS Types, FiniteSets

CONSTANTS Programs,    \* the programs: sequences of declarations (Ast.tla)
          Builtins     \* name -> signature of the functions of the runtime library

VARIABLES program,     \* the program
          reg,         \* what is registered so far
          phase,       \* "register", "expand", "inherit", "check", "done"
          at,          \* the next declaration of the phases in order
          todo         \* the interfaces or classes left of the phases in any order
decl_vars == <<program, reg, phase, at, todo>>

Empty == <<>>
Insert(f, k, v) == (k :> v) @@ f
Key(class, member) == class \o "_" \o member
Sig(params, ret) == [params |-> params, ret |-> ret]
SelfParam(class) == <<"self", Named(class, <<>>)>>
Signatures(ps, Of(_)) == [i \in 1..Len(ps) |-> <<ps[i][3], Of(ps[i][4])>>]
HasAnnotation(anns, n) == \E i \in 1..Len(anns) : anns[i][2] = n

(* One level of namespaces is part of the program. *)
flatten_decls(p) ==
    FlattenSeq([i \in 1..Len(p) |-> IF p[i][5][1] = "Namespace" THEN p[i][5][3] ELSE <<p[i]>>])
Decls == flatten_decls(program)
Classes == {Decls[i][5] : i \in {j \in 1..Len(Decls) : Decls[j][5][1] = "Class"}}
ClassNames == {c[2] : c \in Classes}
(* Of two classes of a name the later one counts. *)
ClassOf(n) == Decls[CHOOSE i \in 1..Len(Decls) :
                      /\ Decls[i][5][1] = "Class" /\ Decls[i][5][2] = n
                      /\ \A j \in i + 1..Len(Decls) : Decls[j][5][1] = "Class" => Decls[j][5][2] # n][5]
Extends(c) == IF c[4] = <<>> THEN {} ELSE {c[4][1]}

(* Whether a method is called with its receiver: it mentions this somewhere but
   in the channel of a select arm. *)
RECURSIVE uses_this(_, _)
uses_this(n, sort) ==
    \/ n = <<"Word", "this">>
    \/ \E i \in 1..Len(Parts(n, sort)) :
          LET part == Parts(n, sort)[i] IN (n[1] = "Arm" => part[1] = "s") /\ uses_this(part[2], part[1])

NewRegistry ==
    [functions |-> Builtins, fields |-> Empty, fieldVis |-> Empty, methodVis |-> Empty, classFields |-> Empty,
     parents |-> Empty, implements |-> Empty, interfaces |-> Empty, extends |-> Empty, enums |-> Empty,
     payloads |-> Empty, known |-> {}, tparams |-> Empty, usesThis |-> {}, unerased |-> Empty, hints |-> Empty,
     errors |-> {}]

register_function(r, f, params, ret) ==
    [r EXCEPT !.functions = Insert(@, f[2],
        LET erase(t) == type_to_value_erasing(t, IF f[1] = "Extern" THEN {} ELSE ToSet(f[3]))
        IN  Sig(Signatures(params, erase), erase(ret)))]

register_field(r, class, name, type, vis) ==
    [r EXCEPT !.fields = Insert(@, <<class, name>>, from_parser_type(type)), !.fieldVis = Insert(@, <<class, name>>, vis)]

(* A method of class c: m is its Member node. *)
register_method(r, c, m) ==
    LET method == m[7]
        static == method[2] = "fnc"
        own    == ToSet(method[4])
        tps    == c[3] \o method[4]
        erased == ToSet(tps)
        key    == Key(c[2], method[3])
        erase(t) == type_to_value_erasing(t, erased)
        sig    == Sig((IF static THEN <<>> ELSE <<SelfParam(c[2])>>) \o Signatures(method[5], erase),
                      erase_method_return_type(method[6], own, erased))
        full   == (IF static THEN <<>> ELSE <<Named(c[2], [i \in 1..Len(c[3]) |-> Named(c[3][i], <<>>)])>>)
                  \o [i \in 1..Len(method[5]) |-> from_parser_type(method[5][i][4])]
        fns    == {i \in 1..Len(method[5]) : method[5][i][4][1] = "TFn" /\ method[5][i][4][2] # <<>>}
        hint   == [i \in fns |-> [k \in 1..Len(method[5][i][4][2]) |-> from_parser_type(method[5][i][4][2][k])]]
    IN  [r EXCEPT !.functions = Insert(@, key, sig),
                  !.methodVis = Insert(@, key, m[4]),
                  !.usesThis  = IF ~static /\ uses_this(method[7], "s") THEN @ \cup {key} ELSE @,
                  !.unerased  = IF tps # <<>> THEN Insert(@, key, [params |-> full, tps |-> tps]) ELSE @,
                  !.hints     = IF tps # <<>> /\ fns # {} THEN Insert(@, key, hint) ELSE @]

register_class(r, c, anns) ==
    LET named == [r EXCEPT !.parents = IF c[4] = <<>> THEN @ ELSE Insert(@, c[2], c[4][1]),
                           !.implements = Insert(@, c[2], c[5]),
                           !.classFields = Insert(@, c[2], {c[6][i][7][2] : i \in 1..Len(c[6])})]
        fields == FoldLeft(LAMBDA x, m : register_field(x, c[2], m[7][2], m[7][3], m[4]), named, c[6])
        logged == IF HasAnnotation(anns, "Log") THEN register_field(fields, c[2], "log", <<"TName", "Logger">>, "public") ELSE fields
        methods == FoldLeft(LAMBDA x, m : register_method(x, c, m), logged, c[7])
    IN  IF HasAnnotation(anns, "JsonSerializable")
        THEN [methods EXCEPT !.functions =
                (Key(c[2], "toJson") :> Sig(<<SelfParam(c[2])>>, Text))
                @@ (Key(c[2], "fromJson") :> Sig(<<<<"json_val", Named("JsonValue", <<>>)>>>>, Named(c[2], <<>>))) @@ @]
        ELSE methods

(* Variants of enums of one name are put together. *)
register_enum_variants(r, e) ==
    LET variants == {e[3][i] : i \in 1..Len(e[3])}
        old == IF e[2] \in DOMAIN r.enums THEN r.enums[e[2]] ELSE {}
    IN  [r EXCEPT !.enums = Insert(@, e[2], old \cup {v[3] : v \in variants}),
                  !.payloads = [k \in {<<e[2], v[3]>> : v \in variants} |->
                                  LET v == CHOOSE w \in variants : w[3] = k[2]
                                  IN  [i \in 1..Len(v[4]) |-> from_parser_type(v[4][i])]] @@ @,
                  !.fields = [k \in {<<e[2], v[3]>> : v \in variants} |-> Named(k[1] \o "." \o k[2], <<>>)] @@ @]

(* An interface or a trait with its own methods. *)
register_interface(r, d, sigs) ==
    [r EXCEPT !.interfaces = Insert(@, d[2],
        [i \in 1..Len(sigs) |->
            <<sigs[i][3][2], Sig(Signatures(sigs[i][3][4], from_parser_type), from_parser_type(sigs[i][3][5]))>>])]

register_immutable(r, d) ==
    LET fields == FoldLeft(LAMBDA x, p : register_field(x, d[2], p[3], p[4], "public"), r, d[3])
        key == Key(d[2], "new")
    IN  [fields EXCEPT !.functions = Insert(@, key, Sig(Signatures(d[3], from_parser_type), Named(d[2], <<>>))),
                       !.methodVis = Insert(@, key, "public")]

register_decl(r, decl) ==
    LET d == decl[5]
    IN  CASE d[1] = "Function"  -> register_function(r, d, d[4], d[5])
          [] d[1] = "Extern"    -> register_function(r, d, d[3], d[4])
          [] d[1] = "Class"     -> register_class(r, d, decl[2])
          [] d[1] = "Enum"      -> register_enum_variants(r, d)
          [] d[1] = "Interface" -> [register_interface(r, d, d[4]) EXCEPT
                                      !.extends = IF d[3] = <<>> THEN @ ELSE Insert(@, d[2], d[3])]
          [] d[1] = "Trait"     -> register_interface(r, d, d[3])
          [] d[1] = "Immutable" -> register_immutable(r, d)
          [] OTHER -> r

(* First pass: the next declaration. *)
Register ==
    /\ phase = "register"
    /\ IF at > Len(Decls)
       THEN /\ phase' = "expand" /\ todo' = DOMAIN reg.extends /\ UNCHANGED <<reg, at>>
       ELSE /\ reg' = register_decl(reg, Decls[at]) /\ at' = at + 1 /\ UNCHANGED <<phase, todo>>
    /\ UNCHANGED program

(* The methods interface i has after taking those its parents have by now. *)
MethodNames(ms) == {ms[k][1] : k \in 1..Len(ms)}
Lookup(ms, n) == ms[SelectInSeq(ms, LAMBDA m : m[1] = n)][2]
Agree(r, a, b) == /\ Len(a.params) = Len(b.params)
                  /\ \A k \in 1..Len(a.params) : types_compatible(r.implements, a.params[k][2], b.params[k][2])
                  /\ types_compatible(r.implements, a.ret, b.ret)
(* mutant: the methods of the parents are compared and not added *)
expand_interface_own(r, i) ==
    LET parents == r.extends[i]
    IN  [r EXCEPT !.errors = @ \cup IF \E k \in 1..Len(parents) : parents[k] \notin DOMAIN r.interfaces THEN {"UndefinedInterface"} ELSE {}]
expand_interface(r, i) ==
    LET parents == r.extends[i]
        own == r.interfaces[i]
        inherited == FlattenSeq([k \in 1..Len(parents) |-> IF parents[k] \in DOMAIN r.interfaces THEN r.interfaces[parents[k]] ELSE <<>>])
        added == SelectSeq(inherited, LAMBDA m : m[1] \notin MethodNames(own))
    IN  [r EXCEPT !.interfaces[i] = own \o added,
                  !.errors = @ \cup (IF \E k \in 1..Len(parents) : parents[k] \notin DOMAIN r.interfaces THEN {"UndefinedInterface"} ELSE {})
                     \cup (IF \E k \in 1..Len(inherited) : inherited[k][1] \in MethodNames(own)
                                /\ ~Agree(r, Lookup(own, inherited[k][1]), inherited[k][2])
                           THEN {"InterfaceMethodConflict"} ELSE {})]

(* A method of an interface is a function of its own, with a receiver. *)
name_interface_methods(r) ==
    LET named(i) == [k \in {Key(i, m) : m \in MethodNames(r.interfaces[i])} |->
                        LET m == CHOOSE x \in MethodNames(r.interfaces[i]) : Key(i, x) = k
                            ms == SelectSeq(r.interfaces[i], LAMBDA x : x[1] = m)
                            sig == ms[Len(ms)][2]
                        IN  Sig(<<SelfParam(i)>> \o sig.params, sig.ret)]
    IN  [r EXCEPT !.functions = FoldLeft(LAMBDA f, i : named(i) @@ f, @, SetToSeq(DOMAIN r.interfaces))]

(* Second pass: one interface that extends others, whichever comes next. *)
ExpandInterface ==
    /\ phase = "expand"
    /\ \/ \E i \in todo : reg' = expand_interface(reg, i) /\ todo' = todo \ {i} /\ UNCHANGED phase
       \/ todo = {} /\ reg' = name_interface_methods(reg) /\ phase' = "inherit" /\ todo' = ClassNames
    /\ UNCHANGED <<program, at>>

(* mutant: only the parent itself is looked at *)
Ancestors_parent(n) == IF n \in ClassNames THEN <<n>> ELSE <<>>

(* The classes above class n that the program declares, nearest first. *)
RECURSIVE Ancestors(_)
Ancestors(n) == IF n \notin ClassNames THEN <<>>
                ELSE <<n>> \o IF ClassOf(n)[4] = <<>> THEN <<>> ELSE Ancestors(ClassOf(n)[4][1])

inherit_field(r, n, own, m) ==
    LET key == <<n, m[7][2]>>
    IN  IF m[7][2] \in own \/ key \in DOMAIN r.fields THEN r
        ELSE [r EXCEPT !.fields = Insert(@, key, from_parser_type(m[7][3])),
                       !.fieldVis = @ @@ (key :> m[4]),
                       !.classFields[n] = @ \cup {m[7][2]}]

(* An inherited method always takes a receiver, a static one too. *)
inherit_method(r, n, own, m) ==
    LET method == m[7]
        key == Key(n, method[3])
    IN  IF method[3] \in own \/ key \in DOMAIN r.functions THEN r
        ELSE [r EXCEPT !.functions = Insert(@, key, Sig(<<SelfParam(n)>> \o Signatures(method[5], from_parser_type), from_parser_type(method[6]))),
                       !.usesThis = IF uses_this(method[7], "s") THEN @ \cup {key} ELSE @,
                       !.methodVis = @ @@ (key :> m[4])]

inherit(r, n) ==
    LET c == ClassOf(n)
        ownFields == {c[6][i][7][2] : i \in 1..Len(c[6])}
        ownMethods == {c[7][i][7][3] : i \in 1..Len(c[7])}
        from(x, a) == FoldLeft(LAMBDA y, m : inherit_method(y, n, ownMethods, m),
                               FoldLeft(LAMBDA y, m : inherit_field(y, n, ownFields, m), x, ClassOf(a)[6]), ClassOf(a)[7])
        all == IF c[4] = <<>> THEN r ELSE FoldLeft(from, r, Ancestors(c[4][1]))
    IN  IF c[4] # <<>> /\ c[4][1] \notin ClassNames
        THEN [r EXCEPT !.errors = @ \cup {"UndefinedParent"}]
        ELSE [all EXCEPT !.known = @ \cup {n}, !.tparams = IF c[3] = <<>> THEN @ ELSE Insert(@, n, c[3])]

(* Third pass: one class whose parent is done, or is not of this program.
   Classes whose parents form a circle are never done. *)
Ready(n) == n \in todo /\ Extends(ClassOf(n)) \cap todo = {}
InheritClass ==
    /\ phase = "inherit"
    /\ \/ \E n \in todo : Ready(n) /\ reg' = inherit(reg, n) /\ todo' = todo \ {n} /\ UNCHANGED <<phase, at>>
       \/ (\A n \in todo : ~Ready(n)) /\ phase' = "check" /\ at' = 1 /\ UNCHANGED <<reg, todo>>
    /\ UNCHANGED program

DeclInit == /\ program \in Programs /\ reg = NewRegistry /\ phase = "register" /\ at = 1 /\ todo = {}
DeclNext == Register \/ ExpandInterface \/ InheritClass
=============================================================================
