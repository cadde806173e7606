----------------------------- MODULE MCTaskBoard -----------------------------
(***************************************************************************)
(* A small board: task 2 needs task 1.                                         *)
(***************************************************************************)
EXTENDS TaskBoard

CONSTANTS a1, a2, c1

BoardDeps == [t \in {1, 2} |-> IF t = 2 THEN {1} ELSE {}]

=============================================================================
