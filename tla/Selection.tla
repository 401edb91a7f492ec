------------------------------ MODULE Selection ------------------------------
(***************************************************************************)
(* The elements of a sequence that belong to a set, in their order: the    *)
(* SelectSeq of module Sequences, unfolded step by step.                   *)
(***************************************************************************)
EXTENDS Naturals, Sequences

\* The selection of the first i elements of s, for every i.
ChosenSoFar(s, T) ==
    LET f[i \in 0 .. Len(s)] ==
            IF i = 0 THEN <<>>
            ELSE IF s[i] \in T THEN Append(f[i - 1], s[i]) ELSE f[i - 1]
    IN  f

Chosen(s, T) == ChosenSoFar(s, T)[Len(s)]
=============================================================================
