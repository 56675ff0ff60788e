-------------------------------- MODULE Types --------------------------------
(***************************************************************************)
(* The types of the type checker (typecheck/lib.rs, ValueType) and what it  *)
(* does with them: translation from the syntax, erasure of type parameters, *)
(* compatibility, joins, unification and substitution.                      *)
(* A type is <<kind, ...>>: <<"Int">>, <<"Array", t>>, <<"Named", n, args>>. *)
(***************************************************************************)
EXTENDS Ast, SequencesExt

AnyType     == <<"Any">>
Int64   == <<"Int">>
Float64 == <<"Float">>
Boolean == <<"Bool">>
Text    == <<"String">>
Nothing == <<"Nothing">>
Never   == <<"Never">>
Null    == <<"Null">>
FnType  == <<"Fn">>
Primitive ==
    [Int8 |-> Int64, Int16 |-> Int64, Int32 |-> Int64, Int64 |-> Int64, UInt8 |-> Int64, UInt16 |-> Int64,
     UInt32 |-> Int64, UInt64 |-> Int64, Float32 |-> Float64, Float64 |-> Float64, Bool |-> Boolean,
     Char |-> <<"Char">>, String |-> Text, Nothing |-> Nothing, Never |-> Never, Any |-> AnyType]

Named(n, args) == <<"Named", n, args>>
ArrayOf(t)     == <<"Array", t>>
MapOf(t)       == <<"Map", t>>
NullableOf(t)  == <<"Nullable", t>>
Boxes == {"Array", "Map", "Nullable"}    \* the kinds with one type inside

RECURSIVE from_parser_type(_)
from_parser_type(t) ==
    LET args == [i \in 1..Len(t[3]) |-> from_parser_type(t[3][i])]
    IN  CASE t[1] = "TName"     -> IF t[2] \in DOMAIN Primitive THEN Primitive[t[2]] ELSE Named(t[2], <<>>)
          [] t[1] = "TGeneric"  -> CASE t[2] \in {"Array", "List"} -> ArrayOf(IF args = <<>> THEN AnyType ELSE args[1])
                                     [] t[2] = "Map" -> MapOf(IF Len(args) < 2 THEN AnyType ELSE args[2])
                                     [] OTHER -> Named(t[2], args)
          [] t[1] = "TArray"    -> ArrayOf(from_parser_type(t[2]))
          [] t[1] = "TMap"      -> MapOf(from_parser_type(t[3]))
          [] t[1] = "TNullable" -> NullableOf(from_parser_type(t[2]))
          [] t[1] \in {"TRef", "TMut"} -> <<"Ref">>
          [] t[1] = "TFn"       -> FnType
          [] t[1] = "TTuple"    -> <<"Tuple">>

(* Equality of the checker: the arguments of a Named type do not count. *)
RECURSIVE SameType(_, _)
SameType(a, b) == /\ a[1] = b[1]
                  /\ a[1] \in Boxes => SameType(a[2], b[2])
                  /\ a[1] = "Named" => a[2] = b[2]

(* The word a type is called by in method keys; element types are left out. *)
RECURSIVE to_string(_)
to_string(t) == CASE t[1] = "Named" -> t[2]
                  [] t[1] = "Int" -> "Int64"
                  [] t[1] = "Float" -> "Float64"
                  [] t[1] = "Nullable" -> to_string(t[2]) \o "?"
                  [] t[1] = "Null" -> "null"
                  [] OTHER -> t[1]

(* Whether a value of type b may stand where a is expected; implements gives
   the interfaces each class declares. *)
RECURSIVE types_compatible(_, _, _)
types_compatible(implements, a, b) ==
    \/ SameType(a, b)
    \/ {a[1], b[1]} = {"Int", "Float"}
    \/ "Any" \in {a[1], b[1]}
    \/ a[1] \in {"Array", "Map"} /\ b[1] = a[1] /\ types_compatible(implements, a[2], b[2])
    \/ a[1] = "Nullable" /\ (b[1] = "Null" \/ types_compatible(implements, a[2], b))
    \/ a[1] = "Named" /\ b[1] = "Named" /\ b[2] \in DOMAIN implements /\ a[2] \in ToSet(implements[b[2]])
    \/ a[1] = "Named" /\ a[2] = "Channel" /\ b[1] = "Int"

(* mutant: the first of the two types is taken whenever both are of a kind *)
RECURSIVE lub_first(_, _)
lub_first(a, b) == IF SameType(a, b) \/ a[1] = b[1] THEN a
                   ELSE IF {a[1], b[1]} = {"Int", "Float"} THEN Float64 ELSE AnyType

RECURSIVE lub(_, _)
lub(a, b) == CASE SameType(a, b) -> a
               [] {a[1], b[1]} = {"Int", "Float"} -> Float64
               [] a[1] = b[1] /\ a[1] \in {"Array", "Map"} -> <<a[1], lub(a[2], b[2])>>
               [] OTHER -> AnyType

(* Type parameters: ps is the sequence or set of their names. *)
RECURSIVE contains_type_param(_, _)
contains_type_param(t, ps) ==
    CASE t[1] = "Named" -> t[2] \in ps \/ \E i \in 1..Len(t[3]) : contains_type_param(t[3][i], ps)
      [] t[1] \in Boxes -> contains_type_param(t[2], ps)
      [] OTHER -> FALSE

RECURSIVE type_to_value_erasing(_, _)
type_to_value_erasing(t, ps) ==
    CASE t[1] \in {"TName", "TGeneric"} /\ t[2] \in ps -> AnyType
      [] t[1] = "TArray" -> ArrayOf(type_to_value_erasing(t[2], ps))
      [] t[1] = "TGeneric" /\ t[2] \in {"Array", "List"} /\ Len(t[3]) = 1 -> ArrayOf(type_to_value_erasing(t[3][1], ps))
      [] t[1] = "TGeneric" /\ t[2] = "Map" /\ Len(t[3]) = 2 -> MapOf(type_to_value_erasing(t[3][2], ps))
      [] t[1] = "TMap" -> MapOf(type_to_value_erasing(t[3], ps))
      [] OTHER -> from_parser_type(t)

RECURSIVE type_references_param(_, _)
type_references_param(t, ps) ==
    \/ t[1] \in {"TName", "TGeneric"} /\ t[2] \in ps
    \/ \E i \in 1..Len(Parts(t, "t")) : type_references_param(Parts(t, "t")[i][2], ps)

erase_method_return_type(ret, own, erased) ==
    IF own # {} /\ ret[1] = "TGeneric" /\ type_references_param(ret, own) THEN AnyType
    ELSE type_to_value_erasing(ret, erased)

(* Only the type itself: what is inside a container keeps its parameters. *)
resolve_type(t, scope) == IF t[1] \in {"TName", "TGeneric"} /\ t[2] \in scope THEN AnyType ELSE from_parser_type(t)

(* The bindings of the parameters ps that make param fit arg, added to b; the
   first binding of a parameter stays. *)
RECURSIVE unify_param(_, _, _, _), unify_params(_, _, _, _)
(* mutant: what is inside a list or a map is not unified *)
unify_param_flat(param, arg, ps, b) ==
    CASE param[1] = "Named" /\ param[2] \in ps -> IF arg = AnyType THEN b ELSE b @@ (param[2] :> arg)
      [] param[1] = "Named" /\ arg[1] = "Named" /\ param[2] = arg[2] -> unify_params(param[3], arg[3], ps, b)
      [] OTHER -> b
unify_param(param, arg, ps, b) ==
    CASE param[1] = "Named" /\ param[2] \in ps -> IF arg = AnyType THEN b ELSE b @@ (param[2] :> arg)
      [] param[1] = "Named" /\ arg[1] = "Named" /\ param[2] = arg[2] -> unify_params(param[3], arg[3], ps, b)
      [] param[1] \in Boxes /\ arg[1] = param[1] -> unify_param(param[2], arg[2], ps, b)
      [] param[1] = "Nullable" -> unify_param(param[2], arg, ps, b)
      [] OTHER -> b
unify_params(params, args, ps, b) ==
    IF params = <<>> \/ args = <<>> THEN b
    ELSE unify_params(Tail(params), Tail(args), ps, unify_param(Head(params), Head(args), ps, b))

RECURSIVE substitute_bindings(_, _)
substitute_bindings(t, b) ==
    CASE t[1] = "Named" /\ t[2] \in DOMAIN b -> b[t[2]]
      [] t[1] = "Named" -> Named(t[2], [i \in 1..Len(t[3]) |-> substitute_bindings(t[3][i], b)])
      [] t[1] \in Boxes -> <<t[1], substitute_bindings(t[2], b)>>
      [] OTHER -> t

(* The parameters tparams of a class replaced by the arguments of an instance;
   the arguments of another class inside t stay as they are. *)
RECURSIVE substitute_type_params(_, _, _)
substitute_type_params(t, tparams, targs) ==
    CASE targs = <<>> -> t
      [] t[1] = "Named" /\ Contains(tparams, t[2]) ->
            LET i == SelectInSeq(tparams, LAMBDA p : p = t[2]) IN IF i <= Len(targs) THEN targs[i] ELSE t
      [] t[1] \in Boxes -> <<t[1], substitute_type_params(t[2], tparams, targs)>>
      [] OTHER -> t

is_nullable_ref(t) == t[1] \in {"Array", "Map", "Named", "String", "Nullable", "Null", "Fn", "Ref"}
=============================================================================
