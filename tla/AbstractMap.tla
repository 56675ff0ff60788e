---------------------------- MODULE AbstractMap ----------------------------
(***************************************************************************)
(* What a Tinox Map promises its user: a finite partial function m from    *)
(* keys to values, and the result ret of the last call.  The hash table of *)
(* runtime.c (module TinoxMap) is meant to implement this specification.   *)
(***************************************************************************)
EXTENDS Integers, FiniteSets

CONSTANTS Keys, Vals

VARIABLES m,    \* the map: a function whose domain is the set of present keys
          ret   \* what the last call returned

vars == <<m, ret>>

Void == <<"void">>

(* tinox_map_get answers 0 for an absent key. *)
Missing == 0

Init == m = << >> /\ ret = Void

Put(k, v) ==
    /\ ret' = Void
    /\ LET old == m
       IN  m' = [x \in DOMAIN old \cup {k} |-> IF x = k THEN v ELSE old[x]]

Del(k) ==
    /\ ret' = Void
    /\ LET old == m
       IN  m' = [x \in DOMAIN old \ {k} |-> old[x]]

Clear == ret' = Void /\ m' = << >>

(* The answer of a read, which leaves the map as it is. *)
Answers(a) == ret' = a /\ UNCHANGED m

Get(k) == Answers(<<"get", IF k \in DOMAIN m THEN m[k] ELSE Missing>>)
Has(k) == Answers(<<"contains", k \in DOMAIN m>>)
Size == Answers(<<"len", Cardinality(DOMAIN m)>>)
Enumerate == Answers(<<"entries", {<<k, m[k]>> : k \in DOMAIN m}>>)

Next ==
    \/ \E k \in Keys : \/ \E v \in Vals : Put(k, v)
                       \/ Del(k)
                       \/ Get(k)
                       \/ Has(k)
    \/ Clear
    \/ Size
    \/ Enumerate

Spec == Init /\ [][Next]_vars
=============================================================================
