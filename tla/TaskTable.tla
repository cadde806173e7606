----------------------------- MODULE TaskTable -------------------------------
(***************************************************************************)
(* What the coordinator promises of the rows of its tasks: a status moves    *)
(* along the table of valid transitions, one task at a time, and only an     *)
(* assignment says who works on the task.  TaskBoard is the code's           *)
(* implementation, in which most writers of a row do not look at the table.  *)
(***************************************************************************)
CONSTANTS Tasks, Agents, NoAgent

\* VALID_TRANSITIONS, as pairs.
Valid ==
    { <<"pending",  "assigned">>,
      <<"assigned", "running">>,  <<"assigned", "failed">>,
      <<"running",  "done">>,     <<"running",  "failed">>,
      <<"done",     "accepted">>, <<"done",     "rejected">>,
      <<"rejected", "pending">>,
      <<"failed",   "pending">> }

TaskStatuses == {"pending", "assigned", "running", "done", "accepted",
                 "rejected", "failed"}

VARIABLES row, owner

Init ==
    /\ row = [t \in Tasks |-> "pending"]
    /\ owner = [t \in Tasks |-> NoAgent]

Move(t, s) ==
    /\ <<row[t], s>> \in Valid
    /\ row' = [row EXCEPT ![t] = s]
    /\ IF s = "assigned"
         THEN \E a \in Agents : owner' = [owner EXCEPT ![t] = a]
         ELSE UNCHANGED owner

\* reassign_task takes a task out of the hands of the table.
Reassigned(t) ==
    /\ row' = [row EXCEPT ![t] = "moved"]
    /\ owner' = [owner EXCEPT ![t] = NoAgent]

Next == \E t \in Tasks : Reassigned(t) \/ \E s \in TaskStatuses : Move(t, s)

Spec == Init /\ [][Next]_<<row, owner>>

=============================================================================
