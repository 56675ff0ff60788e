----------------------------- MODULE MCTinoxMap -----------------------------
(* TLC instances of TinoxMap: two keys that share a home slot before and    *)
(* after the table has grown, and a third next to it across the wrap-around *)
(* of the initial table.                                                    *)
EXTENDS TinoxMap, TLC

CONSTANTS k1, k2, k3, k4

MCKeys == {k1, k2, k3}
MCMoreKeys == MCKeys \cup {k4}
MCHashAll == k1 :> 3 @@ k2 :> 11 @@ k3 :> 0 @@ k4 :> 7
MCHash == [k \in MCKeys |-> MCHashAll[k]]

(* The calls of user code that also removes. *)
WithRemove == {"set", "remove", "free"}

(* The calls of a handler that removes a header from its request. *)
HeaderRemove == {"set_borrow", "get", "remove"}

(* The calls made on the per-thread header maps of the HTTP server. *)
HeaderOps == {"set", "set_borrow", "get", "contains", "len", "entries", "reset"}
=============================================================================
