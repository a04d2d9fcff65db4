------------------------------ MODULE Selection ------------------------------
(***************************************************************************)
(* What a loop or comprehension with a condition keeps of a list, written  *)
(* with a set of positions: unlike SelectSeq and the folds it can be       *)
(* reasoned about.                                                         *)
(***************************************************************************)
EXTENDS Naturals, FiniteSets, SequencesExt

(* A set of positions as a sequence, in order.                             *)
InOrder(positions) ==
    CHOOSE p \in SetToSeqs(positions) : \A i, j \in DOMAIN p : i < j => p[i] < p[j]

(* The elements of a sequence at the given positions, in order.            *)
Those(seq, positions) ==
    LET p == InOrder(positions) IN [k \in DOMAIN p |-> seq[p[k]]]
==============================================================================
