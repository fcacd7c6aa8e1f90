------------------------ MODULE WorkflowStateMachine ------------------------
(***************************************************************************)
(* One WorkflowStateMachine object per workflow                            *)
(* (src/workflow/engine/state_machine.py:65), driven by a caller that may  *)
(* call transition() with any status at any time.  What is true here is    *)
(* what the table alone guarantees, whatever the orchestrator does.        *)
(***************************************************************************)
EXTENDS WorkflowStates, Sequences, Naturals

CONSTANT Machines

VARIABLES state,    \* _state
          history   \* _history

vars == <<state, history>>

Init == /\ state = [m \in Machines |-> "RECEIVED"]
        /\ history = [m \in Machines |-> <<"RECEIVED">>]

(* transition(new_state): an illegal call raises and changes nothing.      *)
TransitionTo(m, to) ==
    /\ CanTransition(state[m], to)
    /\ state' = [state EXCEPT ![m] = to]
    /\ history' = [history EXCEPT ![m] = Append(@, to)]

Next == \E m \in Machines, to \in Status : TransitionTo(m, to)

Spec == Init /\ [][Next]_vars

-----------------------------------------------------------------------------
Visited(m) == {history[m][i] : i \in 1..Len(history[m])}

(* The machine is in a state of the enumeration and its history is a list  *)
(* of such states.                                                         *)
TypeOK == /\ state \in [Machines -> Status]
          /\ history \in [Machines -> Seq(Status)]

(* No sequence of transition() calls reaches SENT around a gate: the       *)
(* history of a workflow that was sent holds the guardrail verdict, the    *)
(* wait for a human and the approval, and neither a block nor a rejection. *)
SentPassedEveryGate ==
    \A m \in Machines :
        "SENT" \in Visited(m) =>
            /\ {"GUARDRAILS_PASSED", "AWAITING_APPROVAL", "APPROVED",
                "SENDING"} \subseteq Visited(m)
            /\ Visited(m) \cap {"GUARDRAILS_FAILED", "REJECTED"} = {}

(* Whatever was called so far, a state that is not terminal has a legal    *)
(* successor: the table strands no workflow half-way.                      *)
NoDeadEnd ==
    \A m \in Machines :
        state[m] \notin TERMINAL_STATES =>
            \E to \in Status : CanTransition(state[m], to)

(* No legal sequence of calls returns to an earlier status, so a workflow  *)
(* is drafted, approved and sent at most once (there is no retry edge).    *)
NeverRevisited ==
    \A m \in Machines : \A i, j \in 1..Len(history[m]) :
        history[m][i] = history[m][j] => i = j

=============================================================================
