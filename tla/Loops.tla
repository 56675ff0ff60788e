------------------------------ MODULE Loops -------------------------------
(***************************************************************************)
(* A loop of the code over the elements of a sequence, with the state it    *)
(* carries from one round to the next.                                      *)
(***************************************************************************)
EXTENDS Naturals, Sequences

(* The singleton makes TLC evaluate the state before each round once. *)
Scan(Op(_, _), init, seq) ==
    LET at[i \in 0..Len(seq)] ==
          IF i = 0 THEN init
          ELSE CHOOSE after \in {Op(before, seq[i]) : before \in {at[i - 1]}} : TRUE
    IN  at[Len(seq)]
=============================================================================
