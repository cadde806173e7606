--------------------------- MODULE MotionHandlers ----------------------------
(***************************************************************************)
(* What the coordinator promises of one motion however many handlers work  *)
(* on it at a time.  A handler decides on a transition by the status it     *)
(* reads and writes the outcome later, when the motion may have moved on;    *)
(* it admits a vote while the vote is open and stores it later, when it may  *)
(* be over.  Nothing is written that was not decided, nothing decided is      *)
(* written twice, a motion is closed on votes only, and votes stay.            *)
(***************************************************************************)
EXTENDS MotionTable

CONSTANTS Agents, Procs, Sockets, Owner

VARIABLES
    status, votes,
    decided,    \* [Procs -> the status a process is about to write, or "none"]
    admitted    \* endpoints about to store a vote

handlingVars == <<status, votes, decided, admitted>>

Init ==
    /\ status = "draft" /\ votes = {}
    /\ decided = [p \in Procs |-> "none"] /\ admitted = {}

Decide(p) ==
    /\ decided[p] = "none"
    /\ \E t \in Transitions :
           /\ t[1] = status
           /\ t[3] = "closed" => votes # {}
           /\ decided' = [decided EXCEPT ![p] = t[3]]
    /\ UNCHANGED <<status, votes, admitted>>

Apply(p) ==
    /\ decided[p] # "none"
    /\ status' = decided[p]
    /\ decided' = [decided EXCEPT ![p] = "none"]
    /\ UNCHANGED <<votes, admitted>>

Admit(w) ==
    /\ status = "voting"
    /\ admitted' = admitted \cup {w}
    /\ UNCHANGED <<status, votes, decided>>

\* The vote is stored, or the agent has voted before.
Settle(w) ==
    /\ w \in admitted
    /\ admitted' = admitted \ {w}
    /\ votes' \in {votes, votes \cup {Owner[w]}}
    /\ UNCHANGED <<status, decided>>

Restart ==
    /\ decided' = [p \in Procs |-> "none"] /\ admitted' = {}
    /\ UNCHANGED <<status, votes>>

Next ==
    \/ Restart
    \/ \E p \in Procs : Decide(p) \/ Apply(p)
    \/ \E w \in Sockets : Admit(w) \/ Settle(w)

Spec == Init /\ [][Next]_handlingVars

=============================================================================
