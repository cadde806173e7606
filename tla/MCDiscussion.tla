---------------------------- MODULE MCDiscussion -----------------------------
(***************************************************************************)
(* Small instances of Discussion: two agents, with one WebSocket endpoint   *)
(* each or with a second, older one of the first agent.                      *)
(***************************************************************************)
EXTENDS Discussion

CONSTANTS a1, a2, w1, w2, w3

OneSocketEach == [w \in {w1, w2} |-> IF w = w1 THEN a1 ELSE a2]

OldSocketToo == [w \in {w1, w2, w3} |-> IF w = w2 THEN a2 ELSE a1]

=============================================================================
