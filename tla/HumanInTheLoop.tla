--------------------------- MODULE HumanInTheLoop ---------------------------
(***************************************************************************)
(* What the harness promises, without saying how (docs/architecture/adr/   *)
(* 0001-approval-gate-design.md): a draft is worked on, put before a human *)
(* once it has passed the guardrails, and settled; while it is under       *)
(* review the human may decide and change her mind; after that the verdict *)
(* stands, and at most one e-mail leaves, only for an approved draft.      *)
(***************************************************************************)
EXTENDS Naturals

CONSTANT Workflows

VARIABLES stage,     \* where the draft is in the process
          verdict,   \* the human's decision
          mails      \* e-mails that left for this workflow

vars == <<stage, verdict, mails>>

Init == /\ stage = [w \in Workflows |-> "working"]
        /\ verdict = [w \in Workflows |-> "NONE"]
        /\ mails = [w \in Workflows |-> 0]

PutUnderReview(w) ==
    /\ stage[w] = "working"
    /\ stage' = [stage EXCEPT ![w] = "under_review"]
    /\ UNCHANGED <<verdict, mails>>

Decide(w, v) ==
    /\ stage[w] = "under_review"
    /\ verdict' = [verdict EXCEPT ![w] = v]
    /\ UNCHANGED <<stage, mails>>

(* The verdict takes effect, the run fails, or the process goes away and   *)
(* takes several workflows with it.                                        *)
Settle(S) ==
    /\ stage' = [w \in Workflows |-> IF w \in S THEN "settled" ELSE stage[w]]
    /\ UNCHANGED <<verdict, mails>>

Mail(w) ==
    /\ stage[w] = "settled"
    /\ verdict[w] = "APPROVED"
    /\ mails[w] = 0
    /\ mails' = [mails EXCEPT ![w] = 1]
    /\ UNCHANGED <<stage, verdict>>

Next == \/ \E w \in Workflows : PutUnderReview(w) \/ Mail(w)
        \/ \E w \in Workflows, v \in {"APPROVED", "REJECTED"} : Decide(w, v)
        \/ \E S \in SUBSET Workflows : Settle(S)

Spec == Init /\ [][Next]_vars

=============================================================================
