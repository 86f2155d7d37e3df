------------------------------ MODULE Selection ------------------------------
(***************************************************************************)
(* Taking some elements of a list, in its order, as the loops of the node  *)
(* do that skip or drop transactions.  It is SelectSeq written as a        *)
(* recursive function, which the provers can reason about (OnlyElements in *)
(* the modules of the proofs).                                             *)
(***************************************************************************)
EXTENDS Integers, Sequences

\* The elements of s that are in T.
Only(s, T) ==
    LET only[n \in 0..Len(s)] ==
          IF n = 0 THEN <<>>
          ELSE IF s[n] \in T THEN Append(only[n-1], s[n]) ELSE only[n-1]
    IN  only[Len(s)]
=============================================================================
