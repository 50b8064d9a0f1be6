-------------------------------- MODULE Totals --------------------------------
(***************************************************************************)
(* The sum of a sequence of numbers, as a recursive function: a definition *)
(* the proofs can take apart, which the folds over operators are not.      *)
(***************************************************************************)
EXTENDS Integers, Sequences

Total(ns) ==
    LET upto[k \in 0 .. Len(ns)] == IF k = 0 THEN 0 ELSE upto[k - 1] + ns[k]
    IN  upto[Len(ns)]
=============================================================================
