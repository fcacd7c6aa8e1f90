---------------------------- MODULE EmailWorkflow ----------------------------
(***************************************************************************)
(* The harness end to end: EmailWorkflowOrchestrator.run() for several     *)
(* workflows on one event loop, the steps it calls, the approval gate they *)
(* park on, the human behind the gateway, and Gmail.                       *)
(*                                                                         *)
(* The loop is single-threaded and pumped by the UI's timer (gui/bridge).  *)
(* A coroutine gives it up only where it really suspends: on an LLM reply  *)
(* and on the gate's future.  "running" names the coroutine that holds the *)
(* loop between two such points; a button press, a window closing and the  *)
(* other coroutines wait until it is free.  A crash waits for nothing.     *)
(*                                                                         *)
(* External, modelled from their use: Gmail (its drafts and what it sent), *)
(* the LLM (a reply or an error, after the client's timeouts and retries). *)
(***************************************************************************)
EXTENDS WorkflowStates, Naturals

CONSTANTS
    Workflows,                  \* runs of the pipeline, each with one draft
    Reviewers, NoReviewer,      \* see ApprovalGate
    NoTask,                     \* no coroutine holds the loop
    Bodies,                     \* what the LLM may write: {"plain", "pii"}
    GUARDRAILS_ENABLE_INPUT,    \* settings.guardrails_enable_input
    GUARDRAILS_ENABLE_OUTPUT    \* settings.guardrails_enable_output

ASSUME WorkflowAssumption ==
    /\ NoReviewer \notin Reviewers
    /\ NoTask \notin Workflows
    /\ Bodies \subseteq {"plain", "pii"}
    /\ GUARDRAILS_ENABLE_INPUT \in BOOLEAN
    /\ GUARDRAILS_ENABLE_OUTPUT \in BOOLEAN

VARIABLES
    pc,        \* where run() is for each workflow
    running,   \* the workflow whose coroutine holds the loop, or NoTask
    sm,        \* the state of its WorkflowStateMachine
    ctx,       \* its WorkflowContext
    draft,     \* ctx.draft
    gmail,     \* Gmail: the stored draft's text, the e-mails delivered
    trail,     \* the audit file: events of the steps, per workflow
    app,       \* the process: "open" or "closed"
    pending, future, record, answered, returned      \* ApprovalGate

Gate == INSTANCE ApprovalGate WITH Drafts <- Workflows

gateVars == <<pending, future, record, answered, returned>>
vars == <<pc, running, sm, ctx, draft, gmail, trail, app,
          pending, future, record, answered, returned>>

-----------------------------------------------------------------------------
(* Program points of run().  At those of OnLoop the coroutine holds the    *)
(* loop; at those of Suspended it waits for it, for the LLM or for a       *)
(* human.  At "consent" it holds the loop and waits for a human.           *)

OnLoop == {"consent", "ingest", "input_guardrails", "plan",
           "output_guardrails", "request_approval", "sending", "auditing"}
Suspended == {"start", "summarising", "drafting", "reflecting", "parked"}
Returned == {"returned", "raised"}
Finished == Returned \cup {"cancelled", "lost"}
Labels == {"new"} \cup Suspended \cup OnLoop \cup Finished

(* "watched" is history: injection_escalation looked at this run's draft.  *)
NewContext == [status |-> "RECEIVED", error |-> FALSE, flagged |-> FALSE,
               watched |-> FALSE, escalated |-> FALSE, is_approved |-> FALSE]
NoDraft == [body |-> "none", gmail_draft_id |-> FALSE,
            guardrails_passed |-> FALSE, pii_detected |-> FALSE]

Init == /\ pc = [w \in Workflows |-> "new"]
        /\ running = NoTask
        /\ sm = [w \in Workflows |-> "RECEIVED"]
        /\ ctx = [w \in Workflows |-> NewContext]
        /\ draft = [w \in Workflows |-> NoDraft]
        /\ gmail = [w \in Workflows |-> [body |-> "none", delivered |-> 0]]
        /\ trail = [w \in Workflows |-> {}]
        /\ app = "open"
        /\ Gate!Init

-----------------------------------------------------------------------------
(* How run() moves. *)

(* The coroutine of w holds the loop at l, or is picked up from l.         *)
Runs(w, l) ==
    /\ app = "open"
    /\ pc[w] = l
    /\ running = IF l \in OnLoop THEN w ELSE NoTask

(* Slip: a blocking call where the coroutine should give up the loop.      *)
MutGoToHoldsLoop(w, l) ==
    /\ pc' = [pc EXCEPT ![w] = l]
    /\ running' = IF l \in Finished THEN NoTask ELSE w

GoTo(w, l) ==
    /\ pc' = [pc EXCEPT ![w] = l]
    /\ running' = IF l \in OnLoop THEN w ELSE NoTask

(* The calls of transition() a piece of run() makes, ending in machine m.  *)
(* A WorkflowTransitionError escapes run() before ctx.status is written;   *)
(* otherwise the status becomes "status" and run() goes on at l.           *)
Advance(w, m, c, status, l) ==
    /\ sm' = [sm EXCEPT ![w] = m.state]
    /\ IF m.raised
       THEN /\ ctx' = [ctx EXCEPT ![w] = c]
            /\ GoTo(w, "raised")
       ELSE /\ ctx' = [ctx EXCEPT ![w] = [c EXCEPT !.status = status]]
            /\ GoTo(w, l)

(* _run_step(), the step returned: one transition, status, on at l.        *)
StepSucceeds(w, to, c, l) ==
    LET m == Transition(At(sm[w]), to) IN Advance(w, m, c, m.state, l)

(* Slip: the handler of a failed step forgets ctx.status.                  *)
MutStepFailsStaleStatus(w, l) ==
    LET m == Transition(At(sm[w]), "ERROR") IN
    Advance(w, At(m.state), [ctx[w] EXCEPT !.error = TRUE], ctx[w].status,
            IF m.state \in TERMINAL_STATES THEN "returned" ELSE l)

(* _run_step(), the step raised: the error is kept, ERROR is tried and a   *)
(* refusal of it swallowed; run() returns if the state is terminal.        *)
StepFails(w, l) ==
    LET m == Transition(At(sm[w]), "ERROR") IN
    Advance(w, At(m.state), [ctx[w] EXCEPT !.error = TRUE], m.state,
            IF m.state \in TERMINAL_STATES THEN "returned" ELSE l)

(* A guardrail block: the error is kept, then two transitions.             *)
Blocked(w) ==
    LET m == Transition(Transition(At(sm[w]), "GUARDRAILS_FAILED"), "TERMINATED")
    IN Advance(w, m, [ctx[w] EXCEPT !.error = TRUE], m.state, "returned")

-----------------------------------------------------------------------------
(* The actions of run(). *)

(* DashboardView._on_start: the coroutine is scheduled, not yet run.       *)
Submit(w) ==
    /\ Runs(w, "new")
    /\ GoTo(w, "start")
    /\ UNCHANGED <<sm, ctx, draft, gmail, trail, app, gateVars>>

(* start_workflow() builds the orchestrator, and with it the Gmail         *)
(* clients, before run() is called and without giving up the loop.  It     *)
(* goes on, raises, or finds no usable token and opens the browser.        *)
Construct(w) ==
    /\ Runs(w, "start")
    /\ \E l \in {"ingest", "consent", "raised"} : GoTo(w, l)
    /\ UNCHANGED <<sm, ctx, draft, gmail, trail, app, gateVars>>

(* run_local_server() returns: somebody has consented, or refused, which   *)
(* leaves the mock client.  (What several clients ask in a row is one.)    *)
Consent(w) ==
    /\ Runs(w, "consent")
    /\ \E l \in {"ingest", "raised"} : GoTo(w, l)
    /\ UNCHANGED <<sm, ctx, draft, gmail, trail, app, gateVars>>

(* IngestStep: the thread is found, or ValueError.                         *)
Ingest(w) ==
    /\ Runs(w, "ingest")
    /\ \/ StepSucceeds(w, "INGESTED", ctx[w], "input_guardrails")
       \/ StepFails(w, "input_guardrails")
    /\ UNCHANGED <<draft, gmail, trail, app, gateVars>>

(* The INPUT pipeline: a block ends the run, an injection hit flags it.    *)
InputGuardrails(w) ==
    /\ Runs(w, "input_guardrails")
    /\ \/ \E flagged \in IF GUARDRAILS_ENABLE_INPUT THEN BOOLEAN ELSE {FALSE} :
            /\ ctx' = [ctx EXCEPT ![w].flagged = flagged]
            /\ GoTo(w, "plan")
            /\ UNCHANGED sm
       \/ /\ GUARDRAILS_ENABLE_INPUT
          /\ Blocked(w)
    /\ UNCHANGED <<draft, gmail, trail, app, gateVars>>

(* EmailWritingAgent up to its first LLM call: a long thread is summarised *)
(* first; a missing sender or a failing tool raises.                       *)
Plan(w) ==
    /\ Runs(w, "plan")
    /\ \/ /\ \E l \in {"summarising", "drafting"} : GoTo(w, l)
          /\ UNCHANGED <<sm, ctx>>
       \/ StepFails(w, "output_guardrails")
    /\ UNCHANGED <<draft, gmail, trail, app, gateVars>>

(* The summary or the draft body arrives, and the agent waits for its next *)
(* reply; or the client gives up, the contact lookup fails, the body is    *)
(* empty.                                                                  *)
Replied(w, from, to) ==
    /\ Runs(w, from)
    /\ \/ /\ GoTo(w, to)
          /\ UNCHANGED <<sm, ctx>>
       \/ StepFails(w, "output_guardrails")
    /\ UNCHANGED <<draft, gmail, trail, app, gateVars>>

Summarised(w) == Replied(w, "summarising", "drafting")
Drafted(w) == Replied(w, "drafting", "reflecting")

(* The reflection arrives; the agent stores the reply in Gmail, as it is   *)
(* before the OUTPUT guardrails.  Gmail may refuse it, or store it and     *)
(* lose the answer, which leaves gmail_draft_id None.                      *)
Reflected(w) ==
    /\ Runs(w, "reflecting")
    /\ \/ \E body \in Bodies, stored \in BOOLEAN, known \in BOOLEAN :
            /\ known => stored
            /\ draft' = [draft EXCEPT ![w] =
                            [NoDraft EXCEPT !.body = body, !.gmail_draft_id = known]]
            /\ gmail' = [gmail EXCEPT ![w].body = IF stored THEN body ELSE @]
            /\ StepSucceeds(w, "DRAFTED", ctx[w], "output_guardrails")
       \/ /\ StepFails(w, "output_guardrails")
          /\ UNCHANGED <<draft, gmail>>
    /\ UNCHANGED <<trail, app, gateVars>>

(* The OUTPUT pipeline.  The redactor changes draft.body (or misses, or    *)
(* fails open); a rail blocks; or the verdict asks for approval, which it  *)
(* does for a flagged e-mail if injection_escalation looked: the policy    *)
(* may leave the rail out, and when it raises it is passed over.           *)
OutputGuardrails(w) ==
    /\ Runs(w, "output_guardrails")
    /\ \E redacted, escalated, blocked, watched \in BOOLEAN :
         /\ redacted => draft[w].body = "pii"
         /\ blocked => ~escalated
         /\ ctx[w].flagged /\ watched => escalated \/ blocked
         /\ ~GUARDRAILS_ENABLE_OUTPUT =>
               ~redacted /\ ~escalated /\ ~blocked /\ ~watched
         /\ draft' = [draft EXCEPT ![w] = [draft[w] EXCEPT
               !.body = IF redacted THEN "redacted" ELSE @,
               !.pii_detected = redacted,
               !.guardrails_passed = ~blocked]]
         /\ IF blocked THEN Blocked(w)
            ELSE Advance(w, Transition(At(sm[w]), "GUARDRAILS_PASSED"),
                         [ctx[w] EXCEPT !.escalated = escalated, !.watched = watched],
                         ctx[w].status, "request_approval")
    /\ UNCHANGED <<gmail, trail, app, gateVars>>

(* ApprovalStep up to the gate: the request is audited (the write may      *)
(* fail, which fails the step), then the draft is registered.              *)
RequestApproval(w) ==
    /\ Runs(w, "request_approval")
    /\ \/ /\ trail' = [trail EXCEPT ![w] = @ \cup {"APPROVAL_REQUESTED"}]
          /\ Gate!WaitForDecision(w, ctx[w].escalated)
          /\ GoTo(w, "parked")
          /\ UNCHANGED <<sm, ctx>>
       \/ /\ StepFails(w, "parked")
          /\ UNCHANGED <<trail, gateVars>>
    /\ UNCHANGED <<draft, gmail, app>>

(* The coroutine comes back from the gate: the decision is read, and run() *)
(* makes three transitions before it either starts to send or returns.     *)
Resume(w) ==
    /\ Runs(w, "parked")
    /\ Gate!Resume(w)
    /\ LET approved == returned'[w] = "APPROVED"
           c == [ctx[w] EXCEPT !.is_approved = approved]
           asked == Transition(At(sm[w]), "AWAITING_APPROVAL")
       IN IF approved
          THEN Advance(w, Transition(Transition(asked, "APPROVED"), "SENDING"),
                       c, asked.state, "sending")
          ELSE LET m == Transition(Transition(asked, "REJECTED"), "TERMINATED")
               IN Advance(w, m, c, m.state, "returned")
    /\ UNCHANGED <<draft, gmail, trail, app>>

(* Slip: SendStep does not look at the status Gmail's answer carries.      *)
MutSendIgnoresResult(w) ==
    /\ Runs(w, "sending")
    /\ draft[w].gmail_draft_id
    /\ record[w].decision = "APPROVED"
    /\ \E delivered \in {0, 1} :
           gmail' = [gmail EXCEPT ![w].delivered = @ + delivered]
    /\ StepSucceeds(w, "SENT", ctx[w], "auditing")
    /\ UNCHANGED <<draft, trail, app, gateVars>>

(* Slip: a send that was not answered is tried again.                      *)
MutSendRetries(w) ==
    /\ Runs(w, "sending")
    /\ draft[w].gmail_draft_id
    /\ record[w].decision = "APPROVED"
    /\ gmail' = [gmail EXCEPT ![w].delivered = @ + 1]
    /\ \/ StepSucceeds(w, "SENT", ctx[w], "auditing")
       \/ /\ GoTo(w, "sending")
          /\ UNCHANGED <<sm, ctx>>
    /\ UNCHANGED <<draft, trail, app, gateVars>>

(* SendStep: its own checks, then Gmail.  Gmail sends and answers; sends,  *)
(* but the answer is lost; or does not send.  Only the first is "sent".    *)
Send(w) ==
    /\ Runs(w, "sending")
    /\ \/ /\ draft[w].gmail_draft_id
          /\ record[w].decision = "APPROVED"
          /\ \E delivered \in BOOLEAN, acked \in BOOLEAN :
               /\ acked => delivered
               /\ gmail' = [gmail EXCEPT ![w].delivered = @ + (IF delivered THEN 1 ELSE 0)]
               /\ IF acked THEN StepSucceeds(w, "SENT", ctx[w], "auditing")
                  ELSE StepFails(w, "auditing")
       \/ /\ ~(draft[w].gmail_draft_id /\ record[w].decision = "APPROVED")
          /\ StepFails(w, "auditing")
          /\ UNCHANGED gmail
    /\ UNCHANGED <<draft, trail, app, gateVars>>

(* AuditStep: outcome by metadata["error"].  run() does not wrap it, so a  *)
(* failing write escapes and leaves the machine in SENT.                   *)
Audit(w) ==
    /\ Runs(w, "auditing")
    /\ \/ /\ trail' = [trail EXCEPT ![w] =
                          @ \cup {IF ctx[w].error THEN "WORKFLOW_ERROR" ELSE "EMAIL_SENT"}]
          /\ StepSucceeds(w, "AUDITED", ctx[w], "returned")
       \/ /\ GoTo(w, "raised")
          /\ UNCHANGED <<sm, ctx, trail>>
    /\ UNCHANGED <<draft, gmail, app, gateVars>>

-----------------------------------------------------------------------------
(* The human, and the process. *)

(* Gateway.approve()/reject() through bridge.call(): between two ticks.    *)
(* Nothing gives the session a role (bootstrap_session), and without one   *)
(* can_approve() and can_reject() are true.                                *)
HumanDecides(w, reviewer) ==
    /\ app = "open"
    /\ running = NoTask
    /\ Gate!Approve(w, reviewer) \/ Gate!Reject(w, reviewer)
    /\ UNCHANGED <<pc, running, sm, ctx, draft, gmail, trail, app>>

(* Slip: the tasks are dropped, not cancelled; no "finally" of theirs runs. *)
MutEndsDropsTasks(label) ==
    /\ pc' = [w \in Workflows |-> IF pc[w] \in Suspended \cup OnLoop THEN label ELSE pc[w]]
    /\ running' = NoTask
    /\ app' = "closed"
    /\ UNCHANGED <<sm, ctx, draft, gmail, trail, gateVars>>

Ends(label) ==
    /\ pc' = [w \in Workflows |-> IF pc[w] \in Suspended \cup OnLoop THEN label ELSE pc[w]]
    /\ running' = NoTask
    /\ app' = "closed"
    /\ Gate!CancelAll
    /\ UNCHANGED <<sm, ctx, draft, gmail, trail>>

(* AsyncBridge.stop(): every unfinished task is cancelled.  CancelledError *)
(* is no Exception, so no step handler sees it.                            *)
Close == /\ app = "open"
         /\ running = NoTask
         /\ Ends("cancelled")

(* The process dies, wherever a coroutine is.                              *)
Crash == /\ app = "open"
         /\ Ends("lost")

(* A new process: Gmail and the audit file are as they were; the gate is   *)
(* empty since the end of the old one, whose runs are all over.            *)
Restart == /\ app = "closed"
           /\ app' = "open"
           /\ UNCHANGED <<pc, running, sm, ctx, draft, gmail, trail, gateVars>>

-----------------------------------------------------------------------------
LoopStep(w) ==
    \/ Construct(w) \/ Ingest(w) \/ InputGuardrails(w) \/ Plan(w) \/ Summarised(w)
    \/ Drafted(w) \/ Reflected(w) \/ OutputGuardrails(w)
    \/ RequestApproval(w) \/ Resume(w) \/ Send(w) \/ Audit(w)

Next == \/ \E w \in Workflows : Submit(w) \/ LoopStep(w) \/ Consent(w)
        \/ \E w \in Workflows, r \in Reviewers : HumanDecides(w, r)
        \/ Close \/ Crash \/ Restart

(* The pump runs the loop every 20 ms and the LLM client bounds every call *)
(* (infrastructure/llm/llm_client.py:71), so a coroutine that can go on    *)
(* does.  Humans are not fair, neither the reviewer nor who sits before    *)
(* the browser, which has no time limit; nor are crashes and restarts.     *)
Fairness == \A w \in Workflows : WF_vars(LoopStep(w))

Spec == Init /\ [][Next]_vars /\ Fairness

-----------------------------------------------------------------------------
(* What must hold. *)

Submitted(w) == pc[w] # "new"
Delivered(w) == gmail[w].delivered > 0

Context == [status : Status, error : BOOLEAN, flagged : BOOLEAN,
            watched : BOOLEAN, escalated : BOOLEAN, is_approved : BOOLEAN]
Draft == [body : Bodies \cup {"none", "redacted"}, gmail_draft_id : BOOLEAN,
          guardrails_passed : BOOLEAN, pii_detected : BOOLEAN]
Mailbox == [body : Bodies \cup {"none"}, delivered : Nat]
Events == {"APPROVAL_REQUESTED", "EMAIL_SENT", "WORKFLOW_ERROR"}

TypeOK ==
    /\ pc \in [Workflows -> Labels]
    /\ running \in Workflows \cup {NoTask}
    /\ sm \in [Workflows -> Status]
    /\ ctx \in [Workflows -> Context]
    /\ draft \in [Workflows -> Draft]
    /\ gmail \in [Workflows -> Mailbox]
    /\ trail \in [Workflows -> SUBSET Events]
    /\ app \in {"open", "closed"}
    /\ Gate!TypeOK

(* The reason the harness exists: an e-mail that left did so once, after   *)
(* the guardrails, with a record that says to this day that a named human  *)
(* approved it, after the request for approval was audited - through       *)
(* crashes, lost answers of Gmail, changes of mind, closing and opening    *)
(* again.                                                                  *)
EveryMailWasApproved ==
    \A w \in Workflows :
        Delivered(w) =>
            /\ gmail[w].delivered = 1
            /\ draft[w].guardrails_passed
            /\ record[w].decision = "APPROVED"
            /\ record[w].reviewer \in Reviewers
            /\ "APPROVAL_REQUESTED" \in trail[w]

(* The audit file claims a sent e-mail only if one was delivered and       *)
(* approved.  (The converse is not claimed: a lost answer or a crash after *)
(* the send leaves a delivered e-mail without the entry.)                  *)
AuditClaimsAreTrue ==
    \A w \in Workflows :
        "EMAIL_SENT" \in trail[w] => Delivered(w) /\ ctx[w].is_approved

(* The queue the reviewer sees and the runs agree: an entry is there       *)
(* exactly while its workflow is parked, and it has not acted yet.         *)
QueueMatchesRuns ==
    \A w \in Workflows :
        /\ w \in pending <=> pc[w] = "parked"
        /\ w \in pending => ~Delivered(w) /\ ~ctx[w].is_approved
        /\ w \in pending => (future[w] = "resolved" <=> record[w].decision # "NONE")

(* What run() returns to the caller is the truth: the context carries the  *)
(* machine's final status, success means sent, approved and error-free,    *)
(* and ERROR comes with its reason.                                        *)
ReturnedContextAgrees ==
    \A w \in Workflows :
        pc[w] = "returned" =>
            /\ ctx[w].status = sm[w]
            /\ sm[w] \in TERMINAL_STATES
            /\ sm[w] = "AUDITED" =>
                  Delivered(w) /\ ctx[w].is_approved /\ ~ctx[w].error
            /\ sm[w] = "ERROR" => ctx[w].error

(* A suspicion raised on the inbound e-mail, before anything was drafted,  *)
(* is in the gate's record when a human decides, if the rail that is to    *)
(* pass it on looked at the draft.  The command line prints the record and *)
(* the audit entry of the request carries it; the GUI does not show it     *)
(* (EscalationIsShown below).                                              *)
SuspicionIsOnRecord ==
    \A w \in Workflows :
        w \in pending /\ ctx[w].flagged /\ ctx[w].watched => record[w].escalated

(* The loop is never held for good by a browser nobody looks at.  No code  *)
(* sees to that; it is what the promises below depend on.                  *)
PromptsAreAnswered == []<>(\A w \in Workflows : pc[w] # "consent")

(* Every run ends or comes to wait for a human (or its process ends).      *)
RunReachesReviewerOrEnds ==
    PromptsAreAnswered =>
        \A w \in Workflows : Submitted(w) ~> (pc[w] = "parked" \/ pc[w] \in Finished)

(* A decision that was accepted is acted upon: the run leaves the gate.    *)
DecisionTakesEffect ==
    PromptsAreAnswered =>
        \A w \in Workflows :
            (pc[w] = "parked" /\ record[w].decision # "NONE") ~> (pc[w] \in Finished)

(* The harness keeps its promise (HumanInTheLoop).  A draft is under       *)
(* review while its run is parked; after that the run is settled.          *)
Stage(l) == IF l = "parked" THEN "under_review"
            ELSE IF l \in {"sending", "auditing"} \cup Finished THEN "settled"
            ELSE "working"

StageOf == [w \in Workflows |-> Stage(pc[w])]
VerdictOf == [w \in Workflows |-> record[w].decision]
MailsOf == [w \in Workflows |-> gmail[w].delivered]

Promise == INSTANCE HumanInTheLoop WITH
               stage <- StageOf, verdict <- VerdictOf, mails <- MailsOf

KeepsPromise == Promise!Spec

(* The gate, as the runs, the session and the end of the process use it,   *)
(* is the gate that ApprovalGate is about: nobody changes an entry but by  *)
(* its operations, and an answer that was accepted reaches its run, which  *)
(* other runs, the pump and the window cannot put off for ever - but a     *)
(* browser that waits for consent can.                                     *)
KeepsTheGate == Gate!Behaviour /\ (PromptsAreAnswered => Gate!Fairness)

-----------------------------------------------------------------------------
(* What people are told of a run that is over. *)

(* Slip: the error a run carries is not looked at.                         *)
MutDashboardSays(w) ==
    IF pc[w] # "returned" THEN "failed"
    ELSE IF ctx[w].is_approved THEN "sent"
    ELSE "rejected"

(* DashboardView._on_done(), of what _to_result() keeps of the context.    *)
DashboardSays(w) ==
    IF pc[w] # "returned" \/ ctx[w].error THEN "failed"
    ELSE IF ctx[w].is_approved THEN "sent"
    ELSE "rejected"

(* _display_result(), of ctx.metadata["approval_record"]; without one, it  *)
(* tells how to approve the draft.                                         *)
RunnerSays(w) ==
    IF ctx[w].error THEN "failed"
    ELSE IF returned[w] \notin Gate!Decisions THEN "awaiting approval"
    ELSE IF record[w].decision = "APPROVED" THEN "sent"
    ELSE "rejected"

(* "Draft approved and sent." and "Nothing was sent." are true on both     *)
(* screens, though one reads the context and the other the record, which   *)
(* the gate may have changed since the run was resumed; and nobody is      *)
(* asked to approve the draft of a run that is over.                       *)
ReportsAreTrue ==
    \A w \in Workflows :
        pc[w] = "returned" =>
            /\ RunnerSays(w) = DashboardSays(w)
            /\ DashboardSays(w) = "sent" =>
                  Delivered(w) /\ record[w].decision = "APPROVED"
            /\ DashboardSays(w) = "rejected" =>
                  ~Delivered(w) /\ record[w].decision = "REJECTED"

-----------------------------------------------------------------------------
(* What the documentation says, and the code does not do. *)

(* docs/architecture/architecture.md:83, "GUARDRAILS_FAILED --> TERMINATED": *)
(* a run that was blocked ends in TERMINATED.                              *)
BlockedRunsTerminate ==
    \A w \in Workflows : pc[w] \in Returned => sm[w] # "GUARDRAILS_FAILED"

(* src/guardrails/rails/pii_redactor.py:6: what leaves is the text the     *)
(* redactor left.                                                          *)
DeliveredTextIsRedacted ==
    \A w \in Workflows : Delivered(w) => gmail[w].body = draft[w].body

(* guardrail_state() of the selected draft, which is the badge above the   *)
(* Approve button; _to_pending_item() has dropped the escalations, and the *)
(* pane shows nothing else of the guardrails.                              *)
PaneBadge(w) ==
    IF draft[w].guardrails_passed THEN "PASSED"
    ELSE IF draft[w].pii_detected \/ ctx[w].escalated THEN "FAILED"
    ELSE "NOT_EVALUATED"

(* src/workflow/engine/orchestrator.py:109, "Passed - surface any          *)
(* escalation reasons to the human reviewer.": who reviews an escalated    *)
(* draft in the GUI is not told that the guardrails had nothing to say.    *)
EscalationIsShown ==
    \A w \in Workflows :
        w \in pending /\ record[w].escalated => PaneBadge(w) # "PASSED"
=============================================================================
