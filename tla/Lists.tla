-------------------------------- MODULE Lists --------------------------------
(***************************************************************************)
(* What stays of a list: SelectSeq of the elements that are not gone, as a *)
(* recursive function, which the provers can reason about.                 *)
(***************************************************************************)
EXTENDS Naturals, Sequences

\* The elements of s that are not in gone, in their order.
Without(s, gone) ==
    LET left[n \in 0..Len(s)] ==
            IF n = 0 THEN <<>>
            ELSE IF s[n] \in gone THEN left[n - 1] ELSE Append(left[n - 1], s[n])
    IN left[Len(s)]
=============================================================================
