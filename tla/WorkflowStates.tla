--------------------------- MODULE WorkflowStates ---------------------------
(***************************************************************************)
(* The state table of src/workflow/engine/state_machine.py, as constant    *)
(* operators.  WorkflowStateMachine gives it variables of its own;         *)
(* EmailWorkflow drives it the way the orchestrator does.                  *)
(***************************************************************************)

Status == {"RECEIVED", "INGESTED", "DRAFTED", "GUARDRAILS_PASSED",
           "GUARDRAILS_FAILED", "AWAITING_APPROVAL", "APPROVED", "REJECTED",
           "SENDING", "SENT", "AUDITED", "TERMINATED", "ERROR"}

VALID_TRANSITIONS ==
    {<<"RECEIVED", "INGESTED">>,
     <<"INGESTED", "DRAFTED">>,
     <<"INGESTED", "GUARDRAILS_FAILED">>,
     <<"DRAFTED", "GUARDRAILS_PASSED">>,
     <<"DRAFTED", "GUARDRAILS_FAILED">>,
     <<"GUARDRAILS_PASSED", "AWAITING_APPROVAL">>,
     <<"AWAITING_APPROVAL", "APPROVED">>,
     <<"AWAITING_APPROVAL", "REJECTED">>,
     <<"APPROVED", "SENDING">>,
     <<"SENDING", "SENT">>,
     <<"SENT", "AUDITED">>,
     <<"RECEIVED", "ERROR">>,
     <<"INGESTED", "ERROR">>,
     <<"DRAFTED", "ERROR">>,
     <<"GUARDRAILS_PASSED", "ERROR">>,
     <<"AWAITING_APPROVAL", "TERMINATED">>,
     <<"GUARDRAILS_FAILED", "TERMINATED">>,
     <<"REJECTED", "TERMINATED">>,
     <<"SENDING", "ERROR">>}

TERMINAL_STATES == {"AUDITED", "TERMINATED", "ERROR", "GUARDRAILS_FAILED"}

(* Slips in transition() or in its table that the properties must notice:  *)
(* an edge back for a second attempt at sending, a short cut past the      *)
(* reviewer, the last edge of a rejection forgotten.                       *)
MutRetryEdge(from, to) ==
    /\ from \notin TERMINAL_STATES
    /\ <<from, to>> \in VALID_TRANSITIONS \cup {<<"SENDING", "APPROVED">>}

MutShortCutPastReview(from, to) ==
    /\ from \notin TERMINAL_STATES
    /\ <<from, to>> \in VALID_TRANSITIONS
                            \cup {<<"GUARDRAILS_PASSED", "SENDING">>}

MutRejectedStuck(from, to) ==
    /\ from \notin TERMINAL_STATES
    /\ <<from, to>> \in VALID_TRANSITIONS \ {<<"REJECTED", "TERMINATED">>}

(* transition() looks at the terminal states first, at the table second. *)
CanTransition(from, to) ==
    /\ from \notin TERMINAL_STATES
    /\ <<from, to>> \in VALID_TRANSITIONS

-----------------------------------------------------------------------------
(* A machine seen from inside one run: where it is, and whether a call of  *)
(* transition() has raised WorkflowTransitionError.  A raise leaves the    *)
(* state alone and ends the sequence of calls, so calls can be nested.     *)

Machine == [state : Status, raised : BOOLEAN]

At(s) == [state |-> s, raised |-> FALSE]

Transition(m, to) ==
    IF m.raised THEN m
    ELSE IF CanTransition(m.state, to) THEN [m EXCEPT !.state = to]
    ELSE [m EXCEPT !.raised = TRUE]
=============================================================================
