--------------------------- MODULE MCParallelExec ----------------------------
(***************************************************************************)
(* A small task graph: tasks 1 and 2 write the same file, 3 needs both.      *)
(***************************************************************************)
EXTENDS ParallelExec

CONSTANTS a1, a2, file

GraphDeps == [t \in {1, 2, 3} |-> IF t = 3 THEN {1, 2} ELSE {}]

GraphFiles == [t \in {1, 2, 3} |-> IF t = 3 THEN {} ELSE {file}]

OneEach == [a \in {a1, a2} |-> 1]

=============================================================================
