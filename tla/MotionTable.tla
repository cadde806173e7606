----------------------------- MODULE MotionTable -----------------------------
(***************************************************************************)
(* The static part of the discussion state machine of the coordinator      *)
(* (src/agora/coordinator/state.py): the statuses a motion may have, the    *)
(* events, and the transition table.  It has no state of its own, so that   *)
(* the detailed model (Discussion) and the abstract one (MotionLifecycle)   *)
(* read the same table.                                                     *)
(***************************************************************************)

Statuses == {"draft", "discussing", "assessing", "devils_advocate",
             "voting", "closed"}

\* <<status, event, new status>>; a pair that is absent raises
\* InvalidTransitionError.
Transitions ==
    { <<"draft",           "start",                 "discussing">>,
      <<"discussing",      "round_complete",        "discussing">>,
      <<"discussing",      "start_voting",          "voting">>,
      <<"discussing",      "assess",                "assessing">>,
      <<"assessing",       "needs_devils_advocate", "devils_advocate">>,
      <<"assessing",       "start_voting",          "voting">>,
      <<"assessing",       "continue_discussion",   "discussing">>,
      <<"assessing",       "assessment_done",       "discussing">>,
      <<"devils_advocate", "devils_advocate_done",  "discussing">>,
      <<"devils_advocate", "start_voting",          "voting">>,
      <<"voting",          "all_voted",             "closed">>,
      <<"voting",          "force_close",           "closed">> }

\* The statuses in which an agent may speak; the same three are the ones from
\* which the REST API lets a vote be forced.
OpenToSpeech == {"discussing", "assessing", "devils_advocate"}

=============================================================================
