--------------------------- MODULE MotionLifecycle ---------------------------
(***************************************************************************)
(* What the coordinator promises of one motion, with every transition      *)
(* atomic: the status only moves along the transition table, a motion is    *)
(* closed on at least one vote, nobody votes before the vote is opened, and *)
(* a vote, once stored, stays.  Discussion is the code's non-atomic         *)
(* implementation of it.                                                    *)
(***************************************************************************)
EXTENDS MotionTable

CONSTANT Agents

VARIABLES status, votes

Init == status = "draft" /\ votes = {}

Move(event) ==
    \E s \in Statuses :
        /\ <<status, event, s>> \in Transitions
        /\ s = "closed" => votes # {}
        /\ status' = s
        /\ UNCHANGED votes

Cast(a) ==
    /\ status \in {"voting", "closed"}
    /\ votes' = votes \cup {a}
    /\ UNCHANGED status

Next ==
    \/ \E t \in Transitions : Move(t[2])
    \/ \E a \in Agents : Cast(a)

Spec == Init /\ [][Next]_<<status, votes>>

=============================================================================
