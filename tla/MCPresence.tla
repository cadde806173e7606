----------------------------- MODULE MCPresence ------------------------------
(***************************************************************************)
(* Small instances of Presence: two agents with one endpoint each, or one    *)
(* agent whose old endpoint is still there when it reconnects.               *)
(***************************************************************************)
EXTENDS Presence

CONSTANTS a1, a2, w1, w2, w3

OneSocketEach == [w \in {w1, w2} |-> IF w = w1 THEN a1 ELSE a2]

OldSocketToo == [w \in {w1, w2, w3} |-> IF w = w2 THEN a2 ELSE a1]

=============================================================================
