------------------------ MODULE EmailWorkflowProofs ------------------------
(***************************************************************************)
(* The end-to-end safety of EmailWorkflow for any sets of workflows and    *)
(* reviewers, and guardrails switched on or off.                           *)
(*                                                                         *)
(* The inductive invariant IInv is a conjunction over the workflows of     *)
(* Story(w), which says for each program point of run() what its state     *)
(* machine, context, draft, gate entry, mailbox and audit trail hold.      *)
(***************************************************************************)
EXTENDS EmailWorkflow, TLAPS

(* What is proved of the gate alone. *)
G == INSTANCE ApprovalGateProofs WITH Drafts <- Workflows

BeforeReview == {"new", "start", "consent", "ingest", "input_guardrails", "plan",
                 "summarising", "drafting", "reflecting", "output_guardrails", "request_approval"}

(* The state machine at each program point; only a returned run shows it   *)
(* to the caller.                                                          *)
Fits(s, l) ==
    /\ l \in {"new", "start", "consent", "ingest"} => s = "RECEIVED"
    /\ l \in {"input_guardrails", "plan", "summarising", "drafting", "reflecting"}
          => s = "INGESTED"
    /\ l = "output_guardrails" => s = "DRAFTED"
    /\ l \in {"request_approval", "parked"} => s = "GUARDRAILS_PASSED"
    /\ l = "sending" => s = "SENDING"
    /\ l = "auditing" => s = "SENT"
    /\ l = "returned" => s \in TERMINAL_STATES

MachineAt(w) == Fits(sm[w], pc[w])

ContextAt(w) ==
    /\ pc[w] \in BeforeReview \cup {"parked"} => ~ctx[w].is_approved
    /\ pc[w] \in BeforeReview \cup {"parked", "sending", "auditing"} => ~ctx[w].error
    /\ pc[w] \in {"sending", "auditing"} => ctx[w].is_approved
    /\ pc[w] = "returned" =>
          /\ ctx[w].status = sm[w]
          /\ sm[w] = "AUDITED" =>
                gmail[w].delivered = 1 /\ ctx[w].is_approved /\ ~ctx[w].error
          /\ sm[w] = "ERROR" => ctx[w].error

(* What a run without an error has to show for it.                         *)
ReportAt(w) ==
    /\ pc[w] \in {"sending", "auditing"} => returned[w] = "APPROVED"
    /\ pc[w] = "returned" /\ ~ctx[w].error =>
          IF ctx[w].is_approved
          THEN /\ gmail[w].delivered = 1
               /\ record[w].decision = "APPROVED"
               /\ returned[w] = "APPROVED"
          ELSE /\ gmail[w].delivered = 0
               /\ record[w].decision = "REJECTED"
               /\ returned[w] = "REJECTED"

(* The gate's entry; a suspicion goes with it.                             *)
EntryAt(w) ==
    /\ w \in pending <=> pc[w] = "parked"
    /\ w \in pending <=> future[w] \in {"waiting", "resolved"}
    /\ w \in pending => (future[w] = "resolved" <=> record[w].decision # "NONE")
    /\ pc[w] \in BeforeReview => future[w] = "none" /\ record[w].decision = "NONE"
    /\ record[w].decision # "NONE" => record[w].reviewer \in Reviewers
    /\ pc[w] = "request_approval" /\ ctx[w].flagged /\ ctx[w].watched
          => ctx[w].escalated
    /\ pc[w] = "parked" /\ ctx[w].flagged /\ ctx[w].watched
          => record[w].escalated

(* What makes a mail legitimate is established before the draft can be     *)
(* decided, and holds from then on.                                        *)
MailAt(w) ==
    /\ gmail[w].delivered \in {0, 1}
    /\ pc[w] \in BeforeReview \cup {"parked", "sending"} => gmail[w].delivered = 0
    /\ pc[w] = "auditing" => gmail[w].delivered = 1
    /\ pc[w] \in {"request_approval", "parked", "sending", "auditing"}
          => draft[w].guardrails_passed
    /\ pc[w] \in {"parked", "sending", "auditing"} => "APPROVAL_REQUESTED" \in trail[w]
    /\ pc[w] \in {"sending", "auditing"} => record[w].decision = "APPROVED"
    /\ gmail[w].delivered = 1 =>
          /\ draft[w].guardrails_passed
          /\ record[w].decision = "APPROVED"
          /\ "APPROVAL_REQUESTED" \in trail[w]
    /\ "EMAIL_SENT" \in trail[w] =>
          pc[w] \in Finished /\ gmail[w].delivered = 1 /\ ctx[w].is_approved

Story(w) == /\ MachineAt(w) /\ ContextAt(w) /\ ReportAt(w)
            /\ EntryAt(w) /\ MailAt(w)

IInv == TypeOK /\ \A w \in Workflows : Story(w)

-----------------------------------------------------------------------------
(* How one workflow moves while the others stay.                           *)

Same(x) ==
    /\ pc'[x] = pc[x] /\ sm'[x] = sm[x] /\ ctx'[x] = ctx[x]
    /\ draft'[x] = draft[x] /\ gmail'[x] = gmail[x] /\ trail'[x] = trail[x]
    /\ record'[x] = record[x] /\ future'[x] = future[x] /\ returned'[x] = returned[x]
    /\ x \in pending' <=> x \in pending

Moved(w, s, c, l) ==
    /\ sm' \in [Workflows -> Status]
    /\ ctx' \in [Workflows -> Context]
    /\ pc' \in [Workflows -> Labels]
    /\ running' \in Workflows \cup {NoTask}
    /\ sm'[w] = s /\ ctx'[w] = c /\ pc'[w] = l
    /\ \A x \in Workflows \ {w} : sm'[x] = sm[x] /\ ctx'[x] = ctx[x] /\ pc'[x] = pc[x]

LEMMA SameStory ==
    ASSUME NEW x \in Workflows, Story(x), Same(x)
    PROVE  Story(x)'
  BY DEF Story, MachineAt, ContextAt, ReportAt, EntryAt, MailAt, Same

LEMMA Types == /\ \A l \in Labels : l \in BeforeReview \cup {"parked", "sending", "auditing"}
                                              \cup Finished
               /\ Finished = {"returned", "raised", "cancelled", "lost"}
  BY DEF Labels, BeforeReview, Finished, Returned, OnLoop, Suspended

LEMMA ContextTyped ==
    ASSUME TypeOK, NEW w \in Workflows
    PROVE  ctx[w] \in Context
  BY DEF TypeOK, Context

LEMMA ErrorContext ==
    ASSUME NEW c \in Context
    PROVE  [c EXCEPT !.error = TRUE] \in Context
  BY DEF Context

LEMMA GoToMoves ==
    ASSUME TypeOK, NEW w \in Workflows, NEW l \in Labels, GoTo(w, l)
    PROVE  /\ pc' \in [Workflows -> Labels]
           /\ running' \in Workflows \cup {NoTask}
           /\ pc'[w] = l
           /\ \A x \in Workflows \ {w} : pc'[x] = pc[x]
  BY DEF TypeOK, GoTo

LEMMA StayMoves ==
    ASSUME TypeOK, NEW w \in Workflows, NEW l \in Labels, GoTo(w, l), UNCHANGED <<sm, ctx>>
    PROVE  Moved(w, sm[w], ctx[w], l)
  BY GoToMoves DEF TypeOK, Context, Moved

(* Advance() with a machine that did not raise, and with one that did.     *)
LEMMA AdvanceMoves ==
    ASSUME TypeOK, NEW w \in Workflows, NEW l \in Labels, NEW c \in Context,
           NEW s \in Status, NEW status \in Status,
           Advance(w, At(s), c, status, l)
    PROVE  Moved(w, s, [c EXCEPT !.status = status], l)
<1>1. /\ sm' = [sm EXCEPT ![w] = s]
      /\ ctx' = [ctx EXCEPT ![w] = [c EXCEPT !.status = status]]
      /\ GoTo(w, l)
  BY DEF Advance, At
<1>2. [c EXCEPT !.status = status] \in Context
  BY DEF Context
<1>3. ctx \in [Workflows -> Context] /\ sm \in [Workflows -> Status]
  BY DEF TypeOK, Context
<1>. QED  BY <1>1, <1>2, <1>3, GoToMoves DEF Moved

LEMMA AdvanceRaises ==
    ASSUME TypeOK, NEW w \in Workflows, NEW l \in Labels, NEW c \in Context,
           NEW s \in Status, NEW status \in Status,
           Advance(w, [state |-> s, raised |-> TRUE], c, status, l)
    PROVE  Moved(w, s, c, "raised")
<1>1. /\ sm' = [sm EXCEPT ![w] = s]
      /\ ctx' = [ctx EXCEPT ![w] = c]
      /\ GoTo(w, "raised")
  BY DEF Advance
<1>2. ctx \in [Workflows -> Context] /\ sm \in [Workflows -> Status]
  BY DEF TypeOK, Context
<1>3. "raised" \in Labels
  BY DEF Labels, Finished, Returned
<1>. QED  BY <1>1, <1>2, <1>3, GoToMoves DEF Moved

LEMMA LegalTransition ==
    ASSUME NEW from, NEW to, CanTransition(from, to)
    PROVE  Transition(At(from), to) = At(to)
  BY DEF Transition, At

LEMMA Table ==
    /\ CanTransition("RECEIVED", "INGESTED") /\ CanTransition("RECEIVED", "ERROR")
    /\ CanTransition("INGESTED", "DRAFTED") /\ CanTransition("INGESTED", "ERROR")
    /\ CanTransition("INGESTED", "GUARDRAILS_FAILED")
    /\ CanTransition("DRAFTED", "GUARDRAILS_FAILED")
    /\ CanTransition("DRAFTED", "GUARDRAILS_PASSED")
    /\ CanTransition("GUARDRAILS_PASSED", "ERROR")
    /\ CanTransition("GUARDRAILS_PASSED", "AWAITING_APPROVAL")
    /\ CanTransition("AWAITING_APPROVAL", "APPROVED")
    /\ CanTransition("AWAITING_APPROVAL", "REJECTED")
    /\ CanTransition("REJECTED", "TERMINATED")
    /\ CanTransition("APPROVED", "SENDING")
    /\ CanTransition("SENDING", "SENT") /\ CanTransition("SENDING", "ERROR")
    /\ CanTransition("SENT", "AUDITED")
    /\ ~CanTransition("GUARDRAILS_FAILED", "TERMINATED")
  BY DEF CanTransition, VALID_TRANSITIONS, TERMINAL_STATES

LEMMA StepSucceedsMoves ==
    ASSUME TypeOK, NEW w \in Workflows, NEW to \in Status, NEW l \in Labels,
           NEW c \in Context, CanTransition(sm[w], to), StepSucceeds(w, to, c, l)
    PROVE  Moved(w, to, [c EXCEPT !.status = to], l)
<1>1. Advance(w, At(to), c, At(to).state, l)
  BY LegalTransition DEF StepSucceeds
<1>2. At(to).state = to
  BY DEF At
<1>. QED  BY <1>1, <1>2, AdvanceMoves

LEMMA StepFailsMoves ==
    ASSUME TypeOK, NEW w \in Workflows, NEW l \in Labels,
           CanTransition(sm[w], "ERROR"), StepFails(w, l)
    PROVE  Moved(w, "ERROR", [ctx[w] EXCEPT !.error = TRUE, !.status = "ERROR"], "returned")
<1>1. At("ERROR").state = "ERROR" /\ "ERROR" \in TERMINAL_STATES /\ "ERROR" \in Status
  BY DEF At, TERMINAL_STATES, Status
<1>2. Advance(w, At("ERROR"), [ctx[w] EXCEPT !.error = TRUE], "ERROR", "returned")
  <2>1. Transition(At(sm[w]), "ERROR") = At("ERROR")
    BY LegalTransition
  <2>. QED  BY <1>1, <2>1, Zenon DEF StepFails
<1>3. [ctx[w] EXCEPT !.error = TRUE] \in Context /\ ctx[w] \in Context
  BY ContextTyped, ErrorContext
<1>4. "returned" \in Labels
  BY DEF Labels, Finished, Returned
<1>5. Moved(w, "ERROR", [[ctx[w] EXCEPT !.error = TRUE] EXCEPT !.status = "ERROR"], "returned")
  BY <1>1, <1>2, <1>3, <1>4, AdvanceMoves
<1>. QED  BY <1>3, <1>5 DEF Context

(* A guardrail block always raises: GUARDRAILS_FAILED is terminal.         *)
LEMMA BlockedMoves ==
    ASSUME TypeOK, NEW w \in Workflows,
           CanTransition(sm[w], "GUARDRAILS_FAILED"), Blocked(w)
    PROVE  Moved(w, "GUARDRAILS_FAILED", [ctx[w] EXCEPT !.error = TRUE], "raised")
<1>. DEFINE m == [state |-> "GUARDRAILS_FAILED", raised |-> TRUE]
<1>1. Transition(Transition(At(sm[w]), "GUARDRAILS_FAILED"), "TERMINATED") = m
  <2>1. Transition(At(sm[w]), "GUARDRAILS_FAILED") = At("GUARDRAILS_FAILED")
    BY LegalTransition
  <2>2. Transition(At("GUARDRAILS_FAILED"), "TERMINATED") = m
    BY Table DEF Transition, At
  <2>. QED  BY <2>1, <2>2
<1>2. Advance(w, m, [ctx[w] EXCEPT !.error = TRUE], "GUARDRAILS_FAILED", "returned")
  BY <1>1 DEF Blocked
<1>3. [ctx[w] EXCEPT !.error = TRUE] \in Context
  BY ContextTyped, ErrorContext
<1>4. "returned" \in Labels /\ "GUARDRAILS_FAILED" \in Status
  BY DEF Labels, Finished, Returned, Status
<1>. QED  BY <1>2, <1>3, <1>4, AdvanceRaises

-----------------------------------------------------------------------------
(* One lemma per action: it keeps the invariant.                           *)

LEMMA OneMoves ==
    ASSUME IInv, NEW w \in Workflows, TypeOK', Story(w)',
           \A x \in Workflows \ {w} : Same(x)
    PROVE  IInv'
<1>1. ASSUME NEW x \in Workflows PROVE Story(x)'
  <2>1. CASE x = w
    BY <2>1
  <2>2. CASE x # w
    BY <2>2, SameStory DEF IInv
  <2>. QED  BY <2>1, <2>2
<1>. QED  BY <1>1 DEF IInv

LEMMA MovedTypes ==
    ASSUME TypeOK, NEW w \in Workflows, NEW s, NEW c, NEW l, Moved(w, s, c, l),
           UNCHANGED <<draft, gmail, trail, app, gateVars>>
    PROVE  TypeOK' /\ \A x \in Workflows \ {w} : Same(x)
<1>1. Gate!TypeOK'
  BY DEF TypeOK, gateVars, Gate!TypeOK
<1>2. TypeOK'
  BY <1>1 DEF TypeOK, Moved, Context
<1>. QED  BY <1>2 DEF Moved, Same, gateVars

(* A move of run() before the approval step touches nothing but its own    *)
(* place, machine and context.                                             *)
LEMMA EarlyMove ==
    ASSUME IInv, NEW w \in Workflows, pc[w] \in BeforeReview,
           NEW s \in Status, NEW c \in Context, NEW l \in Labels, Moved(w, s, c, l),
           UNCHANGED <<draft, gmail, trail, app, gateVars>>,
           ~c.is_approved,
           \/ l \in BeforeReview \ {"request_approval"} /\ Fits(s, l) /\ ~c.error
           \/ l = "returned" /\ s = "ERROR" /\ c.status = "ERROR" /\ c.error
           \/ l = "raised"
    PROVE  IInv'
<1>1. TypeOK' /\ \A x \in Workflows \ {w} : Same(x)
  BY MovedTypes DEF IInv
<1>2. sm'[w] = s /\ ctx'[w] = c /\ pc'[w] = l
  BY DEF Moved
<1>3. /\ draft'[w] = draft[w] /\ gmail'[w] = gmail[w] /\ trail'[w] = trail[w]
      /\ record'[w] = record[w] /\ future'[w] = future[w] /\ pending' = pending
  BY DEF gateVars
<1>4. Story(w)
  BY DEF IInv
<1>5. MachineAt(w)'
  BY <1>2 DEF MachineAt, Fits, TERMINAL_STATES
<1>6. ContextAt(w)'
  BY <1>2, <1>3, <1>4 DEF Story, ContextAt, BeforeReview
<1>7. EntryAt(w)'
  BY <1>2, <1>3, <1>4 DEF Story, EntryAt, BeforeReview
<1>8. MailAt(w)'
  BY <1>2, <1>3, <1>4 DEF Story, MailAt, BeforeReview, Finished, Returned
<1>10. ReportAt(w)'
  BY <1>2 DEF ReportAt, BeforeReview
<1>. QED  BY <1>1, <1>5, <1>6, <1>7, <1>8, <1>10, OneMoves DEF Story

(* The same for the two ways a step of run() ends early.                   *)
LEMMA EarlyFailure ==
    ASSUME IInv, NEW w \in Workflows, pc[w] \in BeforeReview, NEW l \in Labels,
           CanTransition(sm[w], "ERROR"), StepFails(w, l),
           UNCHANGED <<draft, gmail, trail, app, gateVars>>
    PROVE  IInv'
<1>. DEFINE c == [ctx[w] EXCEPT !.error = TRUE, !.status = "ERROR"]
<1>1. Moved(w, "ERROR", c, "returned")
  BY StepFailsMoves DEF IInv
<1>2. ctx[w] \in Context
  BY ContextTyped DEF IInv
<1>3. "ERROR" \in Status /\ "returned" \in Labels
  BY DEF Status, Labels, Finished, Returned
<1>4. ~ctx[w].is_approved
  BY DEF IInv, Story, ContextAt
<1>5. c \in Context /\ c.error /\ c.status = "ERROR" /\ ~c.is_approved
  BY <1>2, <1>3, <1>4 DEF Context
<1>. QED  BY <1>1, <1>3, <1>5, EarlyMove

LEMMA EarlyAdvance ==
    ASSUME IInv, NEW w \in Workflows, pc[w] \in BeforeReview,
           NEW l \in BeforeReview \ {"request_approval"}, Fits(sm[w], l),
           GoTo(w, l), UNCHANGED <<sm, ctx>>,
           UNCHANGED <<draft, gmail, trail, app, gateVars>>
    PROVE  IInv'
<1>1. l \in Labels
  BY DEF BeforeReview, Labels, OnLoop, Suspended, Finished, Returned
<1>2. Moved(w, sm[w], ctx[w], l)
  BY <1>1, StayMoves DEF IInv
<1>3. sm[w] \in Status /\ ctx[w] \in Context
  BY ContextTyped DEF IInv, TypeOK
<1>4. ~ctx[w].is_approved /\ ~ctx[w].error
  BY DEF IInv, Story, ContextAt
<1>. QED  BY <1>1, <1>2, <1>3, <1>4, EarlyMove

LEMMA EarlyBlock ==
    ASSUME IInv, NEW w \in Workflows, pc[w] \in BeforeReview,
           CanTransition(sm[w], "GUARDRAILS_FAILED"), Blocked(w),
           UNCHANGED <<draft, gmail, trail, app, gateVars>>
    PROVE  IInv'
<1>. DEFINE c == [ctx[w] EXCEPT !.error = TRUE]
<1>1. Moved(w, "GUARDRAILS_FAILED", c, "raised")
  BY BlockedMoves DEF IInv
<1>2. ctx[w] \in Context /\ c \in Context
  BY ContextTyped, ErrorContext DEF IInv
<1>3. "GUARDRAILS_FAILED" \in Status /\ "raised" \in Labels
  BY DEF Status, Labels, Finished, Returned
<1>4. ~ctx[w].is_approved
  BY DEF IInv, Story, ContextAt
<1>5. ~c.is_approved
  BY <1>2, <1>4 DEF Context
<1>. QED  BY <1>1, <1>2, <1>3, <1>5, EarlyMove

LEMMA SubmitKeeps == ASSUME IInv, NEW w \in Workflows, Submit(w) PROVE IInv'
<1>1. pc[w] = "new" /\ sm[w] = "RECEIVED"
  BY DEF Submit, Runs, IInv, Story, MachineAt, Fits
<1>2. Fits(sm[w], "start") /\ "start" \in BeforeReview \ {"request_approval"}
  BY <1>1 DEF Fits, BeforeReview
<1>3. pc[w] \in BeforeReview
  BY <1>1 DEF BeforeReview
<1>. QED  BY <1>2, <1>3, EarlyAdvance DEF Submit

(* Before run() is called a raise leaves the context and machine of a run  *)
(* that never began.                                                       *)
LEMMA EarlyRaise ==
    ASSUME IInv, NEW w \in Workflows, pc[w] \in BeforeReview,
           GoTo(w, "raised"), UNCHANGED <<sm, ctx>>,
           UNCHANGED <<draft, gmail, trail, app, gateVars>>
    PROVE  IInv'
<1>1. "raised" \in Labels
  BY DEF Labels, Finished, Returned
<1>2. Moved(w, sm[w], ctx[w], "raised")
  BY <1>1, StayMoves DEF IInv
<1>3. sm[w] \in Status /\ ctx[w] \in Context
  BY ContextTyped DEF IInv, TypeOK
<1>4. ~ctx[w].is_approved
  BY DEF IInv, Story, ContextAt
<1>. QED  BY <1>1, <1>2, <1>3, <1>4, EarlyMove

LEMMA ConstructKeeps ==
    ASSUME IInv, NEW w \in Workflows, Construct(w) \/ Consent(w) PROVE IInv'
<1>1. pc[w] \in {"start", "consent"} /\ sm[w] = "RECEIVED"
  BY DEF Construct, Consent, Runs, IInv, Story, MachineAt, Fits
<1>2. /\ pc[w] \in BeforeReview
      /\ \A l \in {"ingest", "consent"} :
            Fits(sm[w], l) /\ l \in BeforeReview \ {"request_approval"}
  BY <1>1 DEF Fits, BeforeReview
<1>3. UNCHANGED <<sm, ctx>> /\ UNCHANGED <<draft, gmail, trail, app, gateVars>>
  BY DEF Construct, Consent
<1>4. CASE GoTo(w, "raised")
  BY <1>2, <1>3, <1>4, EarlyRaise
<1>5. ASSUME NEW l \in {"ingest", "consent"}, GoTo(w, l) PROVE IInv'
  BY <1>2, <1>3, <1>5, EarlyAdvance
<1>. QED  BY <1>4, <1>5 DEF Construct, Consent

LEMMA IngestKeeps == ASSUME IInv, NEW w \in Workflows, Ingest(w) PROVE IInv'
<1>1. pc[w] = "ingest" /\ sm[w] = "RECEIVED"
  BY DEF Ingest, Runs, IInv, Story, MachineAt, Fits
<1>2. pc[w] \in BeforeReview /\ "input_guardrails" \in Labels /\ "INGESTED" \in Status
  BY <1>1 DEF BeforeReview, Labels, OnLoop, Status
<1>3. CASE StepSucceeds(w, "INGESTED", ctx[w], "input_guardrails")
  <2>. DEFINE c == [ctx[w] EXCEPT !.status = "INGESTED"]
  <2>1. ctx[w] \in Context
    BY ContextTyped DEF IInv
  <2>2. Moved(w, "INGESTED", c, "input_guardrails")
    BY <1>1, <1>2, <1>3, <2>1, Table, StepSucceedsMoves DEF IInv
  <2>3. ~ctx[w].is_approved /\ ~ctx[w].error
    BY <1>2 DEF IInv, Story, ContextAt
  <2>4. c \in Context /\ ~c.is_approved /\ ~c.error
    BY <1>2, <2>1, <2>3 DEF Context
  <2>5. Fits("INGESTED", "input_guardrails")
        /\ "input_guardrails" \in BeforeReview \ {"request_approval"}
    BY DEF Fits, BeforeReview
  <2>. QED  BY <1>2, <2>2, <2>4, <2>5, EarlyMove DEF Ingest
<1>4. CASE StepFails(w, "input_guardrails")
  BY <1>1, <1>2, <1>4, Table, EarlyFailure DEF Ingest
<1>. QED  BY <1>3, <1>4 DEF Ingest

LEMMA InputGuardrailsKeeps ==
    ASSUME IInv, NEW w \in Workflows, InputGuardrails(w) PROVE IInv'
<1>1. pc[w] = "input_guardrails" /\ sm[w] = "INGESTED"
  BY DEF InputGuardrails, Runs, IInv, Story, MachineAt, Fits
<1>2. pc[w] \in BeforeReview /\ "plan" \in Labels
  BY <1>1 DEF BeforeReview, Labels, OnLoop
<1>3. ASSUME NEW flagged \in BOOLEAN,
             ctx' = [ctx EXCEPT ![w].flagged = flagged], GoTo(w, "plan"), UNCHANGED sm
      PROVE  IInv'
  <2>. DEFINE c == [ctx[w] EXCEPT !.flagged = flagged]
  <2>1. ctx[w] \in Context /\ ~ctx[w].is_approved /\ ~ctx[w].error
    BY <1>2, ContextTyped DEF IInv, Story, ContextAt
  <2>2. c \in Context /\ ~c.is_approved /\ ~c.error
    BY <2>1 DEF Context
  <2>3. ctx \in [Workflows -> Context] /\ sm \in [Workflows -> Status]
    BY DEF IInv, TypeOK, Context
  <2>4. ctx' = [ctx EXCEPT ![w] = c]
    BY <1>3
  <2>5. Moved(w, sm[w], c, "plan")
    BY <1>2, <1>3, <2>2, <2>3, <2>4, GoToMoves DEF Moved, IInv
  <2>6. Fits(sm[w], "plan") /\ "plan" \in BeforeReview \ {"request_approval"}
    BY <1>1 DEF Fits, BeforeReview
  <2>. QED  BY <1>2, <2>2, <2>3, <2>5, <2>6, EarlyMove DEF InputGuardrails
<1>4. CASE Blocked(w)
  BY <1>1, <1>2, <1>4, Table, EarlyBlock DEF InputGuardrails
<1>. QED  BY <1>3, <1>4, WorkflowAssumption DEF InputGuardrails

LEMMA PlanKeeps == ASSUME IInv, NEW w \in Workflows, Plan(w) PROVE IInv'
<1>1. pc[w] = "plan" /\ sm[w] = "INGESTED"
  BY DEF Plan, Runs, IInv, Story, MachineAt, Fits
<1>2. pc[w] \in BeforeReview /\ "output_guardrails" \in Labels
  BY <1>1 DEF BeforeReview, Labels, OnLoop
<1>3. ASSUME NEW l \in {"summarising", "drafting"}, GoTo(w, l), UNCHANGED <<sm, ctx>>
      PROVE  IInv'
  <2>1. Fits(sm[w], l) /\ l \in BeforeReview \ {"request_approval"}
    BY <1>1 DEF Fits, BeforeReview
  <2>. QED  BY <1>2, <1>3, <2>1, EarlyAdvance DEF Plan
<1>4. CASE StepFails(w, "output_guardrails")
  BY <1>1, <1>2, <1>4, Table, EarlyFailure DEF Plan
<1>. QED  BY <1>3, <1>4 DEF Plan

LEMMA RepliedKeeps ==
    ASSUME IInv, NEW w \in Workflows, NEW from \in {"summarising", "drafting"},
           NEW to \in {"drafting", "reflecting"}, Replied(w, from, to)
    PROVE  IInv'
<1>1. pc[w] = from /\ sm[w] = "INGESTED"
  BY DEF Replied, Runs, IInv, Story, MachineAt, Fits
<1>2. pc[w] \in BeforeReview /\ "output_guardrails" \in Labels
  BY <1>1 DEF BeforeReview, Labels, OnLoop
<1>3. CASE GoTo(w, to) /\ UNCHANGED <<sm, ctx>>
  <2>1. Fits(sm[w], to) /\ to \in BeforeReview \ {"request_approval"}
    BY <1>1 DEF Fits, BeforeReview
  <2>. QED  BY <1>2, <1>3, <2>1, EarlyAdvance DEF Replied
<1>4. CASE StepFails(w, "output_guardrails")
  BY <1>1, <1>2, <1>4, Table, EarlyFailure DEF Replied
<1>. QED  BY <1>3, <1>4 DEF Replied

LEMMA DraftTyped ==
    ASSUME NEW body \in Bodies, NEW known \in BOOLEAN
    PROVE  [NoDraft EXCEPT !.body = body, !.gmail_draft_id = known] \in Draft
  BY DEF NoDraft, Draft

LEMMA ReflectedKeeps == ASSUME IInv, NEW w \in Workflows, Reflected(w) PROVE IInv'
<1>1. pc[w] = "reflecting" /\ sm[w] = "INGESTED"
  BY DEF Reflected, Runs, IInv, Story, MachineAt, Fits
<1>2. /\ pc[w] \in BeforeReview /\ "output_guardrails" \in Labels /\ "DRAFTED" \in Status
  BY <1>1 DEF BeforeReview, Labels, OnLoop, Status
<1>3. ASSUME NEW body \in Bodies, NEW stored \in BOOLEAN, NEW known \in BOOLEAN,
             draft' = [draft EXCEPT ![w] =
                          [NoDraft EXCEPT !.body = body, !.gmail_draft_id = known]],
             gmail' = [gmail EXCEPT ![w].body = IF stored THEN body ELSE @],
             StepSucceeds(w, "DRAFTED", ctx[w], "output_guardrails")
      PROVE  IInv'
  <2>. DEFINE c == [ctx[w] EXCEPT !.status = "DRAFTED"]
  <2>1. ctx[w] \in Context /\ ~ctx[w].is_approved /\ ~ctx[w].error
    BY <1>2, ContextTyped DEF IInv, Story, ContextAt
  <2>2. c \in Context /\ ~c.is_approved /\ ~c.error
    BY <1>2, <2>1 DEF Context
  <2>3. Moved(w, "DRAFTED", c, "output_guardrails")
    BY <1>1, <1>2, <1>3, <2>1, Table, StepSucceedsMoves DEF IInv
  <2>4. UNCHANGED <<trail, app, pending, future, record, answered, returned>>
    BY DEF Reflected, gateVars
  <2>5. Gate!TypeOK'
    BY <2>4 DEF IInv, TypeOK, Gate!TypeOK
  <2>6. /\ draft' \in [Workflows -> Draft]
        /\ \A x \in Workflows \ {w} : draft'[x] = draft[x]
    BY <1>3, DraftTyped DEF IInv, TypeOK
  <2>7. /\ gmail' \in [Workflows -> Mailbox]
        /\ \A x \in Workflows \ {w} : gmail'[x] = gmail[x]
        /\ gmail'[w].delivered = gmail[w].delivered
    <3>. DEFINE box == [gmail[w] EXCEPT !.body = IF stored THEN body ELSE @]
    <3>1. gmail \in [Workflows -> Mailbox]
      BY DEF IInv, TypeOK
    <3>2. box \in Mailbox /\ box.delivered = gmail[w].delivered
      BY <3>1 DEF Mailbox
    <3>3. gmail' = [gmail EXCEPT ![w] = box]
      BY <1>3, Zenon
    <3>. QED  BY <3>1, <3>2, <3>3
  <2>8. TypeOK'
    <3>1. app' \in {"open", "closed"} /\ trail' \in [Workflows -> SUBSET Events]
      BY <2>4 DEF IInv, TypeOK
    <3>. QED  BY <2>3, <2>5, <2>6, <2>7, <3>1 DEF TypeOK, Moved, Context
  <2>9. \A x \in Workflows \ {w} : Same(x)
    BY <2>3, <2>4, <2>6, <2>7 DEF Same, Moved
  <2>10. Story(w)'
    <3>1. pc'[w] = "output_guardrails" /\ sm'[w] = "DRAFTED" /\ ctx'[w] = c
      BY <2>3 DEF Moved
    <3>2. MachineAt(w)' /\ ContextAt(w)' /\ ReportAt(w)'
      BY <2>2, <3>1 DEF MachineAt, Fits, ContextAt, ReportAt
    <3>3. Story(w)
      BY DEF IInv
    <3>4. EntryAt(w)'
      BY <1>2, <2>4, <3>1, <3>3 DEF Story, EntryAt, BeforeReview
    <3>5. MailAt(w)'
      BY <1>1, <2>4, <2>7, <3>1, <3>3 DEF Story, MailAt, BeforeReview, Finished, Returned
    <3>. QED  BY <3>2, <3>4, <3>5 DEF Story
  <2>. QED  BY <2>4, <2>8, <2>9, <2>10, OneMoves
<1>4. CASE StepFails(w, "output_guardrails") /\ UNCHANGED <<draft, gmail>>
  BY <1>1, <1>2, <1>4, Table, EarlyFailure DEF Reflected
<1>. QED  BY <1>3, <1>4 DEF Reflected

(* A move that writes the draft (and nothing else but the run itself).     *)
LEMMA DraftMoves ==
    ASSUME IInv, NEW w \in Workflows, NEW s, NEW c, NEW l, Moved(w, s, c, l),
           draft' \in [Workflows -> Draft],
           \A x \in Workflows \ {w} : draft'[x] = draft[x],
           UNCHANGED <<gmail, trail, app, gateVars>>
    PROVE  TypeOK' /\ \A x \in Workflows \ {w} : Same(x)
<1>1. Gate!TypeOK'
  BY DEF IInv, TypeOK, gateVars, Gate!TypeOK
<1>2. TypeOK'
  BY <1>1 DEF IInv, TypeOK, Moved
<1>. QED  BY <1>2 DEF Moved, Same, gateVars

LEMMA OutputGuardrailsKeeps ==
    ASSUME IInv, NEW w \in Workflows, OutputGuardrails(w) PROVE IInv'
<1>1. pc[w] = "output_guardrails" /\ sm[w] = "DRAFTED"
  BY DEF OutputGuardrails, Runs, IInv, Story, MachineAt, Fits
<1>2. pc[w] \in BeforeReview /\ "request_approval" \in Labels
  BY <1>1 DEF BeforeReview, Labels, OnLoop
<1>3. PICK redacted, escalated, blocked, watched \in BOOLEAN :
         /\ ctx[w].flagged /\ watched => escalated \/ blocked
         /\ draft' = [draft EXCEPT ![w] = [draft[w] EXCEPT
               !.body = IF redacted THEN "redacted" ELSE @,
               !.pii_detected = redacted,
               !.guardrails_passed = ~blocked]]
         /\ IF blocked THEN Blocked(w)
            ELSE Advance(w, Transition(At(sm[w]), "GUARDRAILS_PASSED"),
                         [ctx[w] EXCEPT !.escalated = escalated, !.watched = watched],
                         ctx[w].status, "request_approval")
  BY DEF OutputGuardrails
<1>4. UNCHANGED <<gmail, trail, app, pending, future, record, answered, returned>>
  BY DEF OutputGuardrails, gateVars
<1>5. /\ draft' \in [Workflows -> Draft]
      /\ \A x \in Workflows \ {w} : draft'[x] = draft[x]
      /\ draft'[w].guardrails_passed = ~blocked
  <2>. DEFINE d == [draft[w] EXCEPT !.body = IF redacted THEN "redacted" ELSE @,
                                    !.pii_detected = redacted,
                                    !.guardrails_passed = ~blocked]
  <2>1. draft \in [Workflows -> Draft] /\ draft[w] \in Draft
    BY DEF IInv, TypeOK
  <2>2. d \in Draft /\ d.guardrails_passed = ~blocked
    BY <2>1 DEF Draft
  <2>3. draft' = [draft EXCEPT ![w] = d]
    BY <1>3, Zenon
  <2>. HIDE DEF d
  <2>. QED  BY <2>1, <2>2, <2>3
<1>6. ctx[w] \in Context /\ ~ctx[w].is_approved /\ ~ctx[w].error
  BY <1>2, ContextTyped DEF IInv, Story, ContextAt
<1>7. Story(w)
  BY DEF IInv
<1>8. CASE blocked
  <2>. DEFINE c == [ctx[w] EXCEPT !.error = TRUE]
  <2>1. Moved(w, "GUARDRAILS_FAILED", c, "raised")
    BY <1>1, <1>3, <1>8, Table, BlockedMoves DEF IInv
  <2>2. ~c.is_approved
    BY <1>6 DEF Context
  <2>3. pc'[w] = "raised" /\ ctx'[w] = c
    BY <2>1 DEF Moved
  <2>4. MachineAt(w)' /\ ContextAt(w)' /\ ReportAt(w)'
    BY <2>2, <2>3 DEF MachineAt, Fits, ContextAt, ReportAt, BeforeReview
  <2>5. EntryAt(w)'
    BY <1>2, <1>4, <1>7, <2>3 DEF Story, EntryAt, BeforeReview
  <2>6. MailAt(w)'
    BY <1>2, <1>4, <1>7, <2>3 DEF Story, MailAt, BeforeReview, Finished, Returned
  <2>7. TypeOK' /\ \A x \in Workflows \ {w} : Same(x)
    BY <1>4, <1>5, <2>1, DraftMoves DEF gateVars
  <2>. QED  BY <1>4, <2>4, <2>5, <2>6, <2>7, OneMoves DEF Story
<1>9. CASE ~blocked
  <2>. DEFINE c == [ctx[w] EXCEPT !.escalated = escalated, !.watched = watched]
  <2>1. c \in Context /\ ctx[w].status \in Status
    BY <1>6 DEF Context
  <2>2. /\ c.flagged = ctx[w].flagged /\ c.escalated = escalated /\ c.watched = watched
        /\ ~c.is_approved /\ ~c.error
        /\ [c EXCEPT !.status = ctx[w].status] = c
    BY <1>6 DEF Context
  <2>3. Transition(At(sm[w]), "GUARDRAILS_PASSED") = At("GUARDRAILS_PASSED")
    BY <1>1, Table, LegalTransition
  <2>4. Advance(w, At("GUARDRAILS_PASSED"), c, ctx[w].status, "request_approval")
    BY <1>3, <1>9, <2>3
  <2>5. "GUARDRAILS_PASSED" \in Status
    BY DEF Status
  <2>6. Moved(w, "GUARDRAILS_PASSED", c, "request_approval")
    <3>. HIDE DEF c
    <3>1. Moved(w, "GUARDRAILS_PASSED", [c EXCEPT !.status = ctx[w].status],
                "request_approval")
      BY <1>2, <2>1, <2>4, <2>5, AdvanceMoves DEF IInv
    <3>. QED  BY <2>2, <3>1
  <2>7. pc'[w] = "request_approval" /\ ctx'[w] = c /\ sm'[w] = "GUARDRAILS_PASSED"
    BY <2>6 DEF Moved
  <2>8. MachineAt(w)' /\ ContextAt(w)' /\ ReportAt(w)'
    BY <2>2, <2>7 DEF MachineAt, Fits, ContextAt, ReportAt, BeforeReview
  <2>9. EntryAt(w)'
    <3>1. c.flagged /\ c.watched => c.escalated
      BY <1>3, <1>9, <2>2
    <3>. QED  BY <1>2, <1>4, <1>7, <2>7, <3>1 DEF Story, EntryAt, BeforeReview
  <2>10. MailAt(w)'
    BY <1>2, <1>4, <1>5, <1>7, <1>9, <2>7 DEF Story, MailAt, BeforeReview, Finished, Returned
  <2>11. TypeOK' /\ \A x \in Workflows \ {w} : Same(x)
    BY <1>4, <1>5, <2>6, DraftMoves DEF gateVars
  <2>. QED  BY <1>4, <2>8, <2>9, <2>10, <2>11, OneMoves DEF Story
<1>. QED  BY <1>8, <1>9

LEMMA RequestApprovalKeeps ==
    ASSUME IInv, NEW w \in Workflows, RequestApproval(w) PROVE IInv'
<1>1. pc[w] = "request_approval" /\ sm[w] = "GUARDRAILS_PASSED"
  BY DEF RequestApproval, Runs, IInv, Story, MachineAt, Fits
<1>2. pc[w] \in BeforeReview /\ "parked" \in Labels
  BY <1>1 DEF BeforeReview, Labels, Suspended
<1>3. Story(w)
  BY DEF IInv
<1>4. CASE StepFails(w, "parked") /\ UNCHANGED <<trail, gateVars>>
  BY <1>1, <1>2, <1>4, Table, EarlyFailure DEF RequestApproval
<1>5. CASE /\ trail' = [trail EXCEPT ![w] = @ \cup {"APPROVAL_REQUESTED"}]
           /\ Gate!WaitForDecision(w, ctx[w].escalated)
           /\ GoTo(w, "parked")
           /\ UNCHANGED <<sm, ctx>>
  <2>1. Moved(w, sm[w], ctx[w], "parked")
    BY <1>2, <1>5, StayMoves DEF IInv
  <2>2. UNCHANGED <<draft, gmail, app>>
    BY DEF RequestApproval
  <2>3. ctx[w].escalated \in BOOLEAN
    BY ContextTyped DEF IInv, Context
  <2>4. Gate!TypeOK'
    BY <1>5, <2>3 DEF IInv, TypeOK, Gate!TypeOK, Gate!WaitForDecision, Gate!NewRecord
  <2>5. trail' \in [Workflows -> SUBSET Events] /\ "APPROVAL_REQUESTED" \in trail'[w]
        /\ ("EMAIL_SENT" \in trail'[w] => "EMAIL_SENT" \in trail[w])
        /\ \A x \in Workflows \ {w} : trail'[x] = trail[x]
    BY <1>5 DEF IInv, TypeOK, Events
  <2>6. TypeOK'
    BY <2>1, <2>2, <2>4, <2>5 DEF IInv, TypeOK, Moved
  <2>7. /\ record'[w].decision = "NONE" /\ record'[w].escalated = ctx[w].escalated
        /\ future'[w] = "waiting" /\ pending' = pending \cup {w}
        /\ \A x \in Workflows \ {w} : /\ record'[x] = record[x] /\ future'[x] = future[x]
                                       /\ returned'[x] = returned[x]
    BY <1>5, <2>3 DEF IInv, TypeOK, Gate!TypeOK, Gate!WaitForDecision, Gate!NewRecord
  <2>8. \A x \in Workflows \ {w} : Same(x)
    BY <2>1, <2>2, <2>5, <2>7 DEF Same, Moved
  <2>9. pc'[w] = "parked" /\ sm'[w] = sm[w] /\ ctx'[w] = ctx[w]
    BY <2>1 DEF Moved
  <2>10. MachineAt(w)' /\ ContextAt(w)' /\ ReportAt(w)'
    BY <1>1, <1>2, <1>3, <2>9 DEF Story, MachineAt, Fits, ContextAt, ReportAt
  <2>11. EntryAt(w)'
    BY <1>1, <1>3, <2>7, <2>9 DEF Story, EntryAt, BeforeReview
  <2>12. MailAt(w)'
    BY <1>1, <1>3, <2>2, <2>5, <2>9 DEF Story, MailAt, BeforeReview, Finished, Returned
  <2>. QED  BY <2>2, <2>6, <2>8, <2>10, <2>11, <2>12, OneMoves DEF Story
<1>. QED  BY <1>4, <1>5 DEF RequestApproval

LEMMA ResumeKeeps == ASSUME IInv, NEW w \in Workflows, Resume(w) PROVE IInv'
<1>. DEFINE approved == returned'[w] = "APPROVED"
            c == [ctx[w] EXCEPT !.is_approved = approved]
<1>1. pc[w] = "parked" /\ sm[w] = "GUARDRAILS_PASSED" /\ Gate!Resume(w)
  BY DEF Resume, Runs, IInv, Story, MachineAt, Fits
<1>2. UNCHANGED <<draft, gmail, trail, app>>
  BY DEF Resume
<1>3. Story(w)
  BY DEF IInv
<1>4. /\ w \in pending /\ record[w].decision # "NONE"
      /\ record[w].decision \in {"APPROVED", "REJECTED"}
  BY <1>1, <1>3 DEF Story, EntryAt, Gate!Resume, IInv, TypeOK, Gate!TypeOK, Gate!Decisions
<1>5. Gate!TypeOK'
  BY <1>1, <1>4 DEF IInv, TypeOK, Gate!TypeOK, Gate!Resume, Gate!Decisions
<1>6. /\ returned'[w] = record[w].decision /\ record' = record
      /\ future'[w] = "consumed" /\ pending' = pending \ {w}
      /\ \A x \in Workflows \ {w} : future'[x] = future[x] /\ returned'[x] = returned[x]
  BY <1>1 DEF IInv, TypeOK, Gate!TypeOK, Gate!Resume
<1>7. c \in Context /\ c.is_approved = approved /\ ~c.error /\ c.status = ctx[w].status
  BY <1>1, <1>3, ContextTyped DEF IInv, Context, Story, ContextAt
<1>8. Transition(At(sm[w]), "AWAITING_APPROVAL") = At("AWAITING_APPROVAL")
  BY <1>1, Table, LegalTransition
<1>9. At("AWAITING_APPROVAL").state = "AWAITING_APPROVAL"
  BY DEF At
<1>10. ASSUME NEW s \in Status, NEW k \in Context, NEW l \in Labels, Moved(w, s, k, l)
       PROVE  TypeOK' /\ \A x \in Workflows \ {w} : Same(x)
  BY <1>2, <1>5, <1>6, <1>10 DEF IInv, TypeOK, Moved, Same
<1>11. /\ {"AWAITING_APPROVAL", "SENDING", "TERMINATED"} \subseteq Status
       /\ "sending" \in Labels /\ "returned" \in Labels
  BY DEF Status, Labels, OnLoop, Finished, Returned
<1>12. CASE approved
  <2>. DEFINE k == [c EXCEPT !.status = "AWAITING_APPROVAL"]
  <2>1. Transition(Transition(At("AWAITING_APPROVAL"), "APPROVED"), "SENDING") = At("SENDING")
    BY Table, LegalTransition
  <2>2. Advance(w, At("SENDING"), c, "AWAITING_APPROVAL", "sending")
    BY <1>8, <1>9, <1>12, <2>1 DEF Resume
  <2>3. Moved(w, "SENDING", k, "sending")
    BY <1>7, <1>11, <2>2, AdvanceMoves DEF IInv
  <2>4. k \in Context /\ k.is_approved /\ ~k.error
    BY <1>7, <1>11, <1>12 DEF Context
  <2>5. pc'[w] = "sending" /\ sm'[w] = "SENDING" /\ ctx'[w] = k
    BY <2>3 DEF Moved
  <2>6. MachineAt(w)' /\ ContextAt(w)' /\ ReportAt(w)'
    BY <1>12, <2>4, <2>5 DEF MachineAt, Fits, ContextAt, ReportAt, BeforeReview
  <2>7. EntryAt(w)'
    BY <1>2, <1>3, <1>6, <2>5 DEF Story, EntryAt, BeforeReview
  <2>8. MailAt(w)'
    BY <1>1, <1>2, <1>3, <1>6, <1>12, <2>5
       DEF Story, MailAt, BeforeReview, Finished, Returned
  <2>. QED  BY <1>2, <1>10, <1>11, <2>3, <2>4, <2>6, <2>7, <2>8, OneMoves DEF Story
<1>13. CASE ~approved
  <2>. DEFINE k == [c EXCEPT !.status = "TERMINATED"]
  <2>1. Transition(Transition(At("AWAITING_APPROVAL"), "REJECTED"), "TERMINATED")
            = At("TERMINATED")
    BY Table, LegalTransition
  <2>2. At("TERMINATED").state = "TERMINATED"
    BY DEF At
  <2>3. Advance(w, At("TERMINATED"), c, "TERMINATED", "returned")
    BY <1>8, <1>9, <1>13, <2>1, <2>2 DEF Resume
  <2>4. Moved(w, "TERMINATED", k, "returned")
    BY <1>7, <1>11, <2>3, AdvanceMoves DEF IInv
  <2>5. k \in Context /\ k.status = "TERMINATED"
    BY <1>7, <1>11 DEF Context
  <2>6. pc'[w] = "returned" /\ sm'[w] = "TERMINATED" /\ ctx'[w] = k
    BY <2>4 DEF Moved
  <2>7. MachineAt(w)' /\ ContextAt(w)'
    BY <2>5, <2>6 DEF MachineAt, Fits, ContextAt, BeforeReview, TERMINAL_STATES
  <2>10. ReportAt(w)'
    <3>1. ~k.is_approved
      BY <1>7, <1>11, <1>13 DEF Context
    <3>2. gmail'[w].delivered = 0
      BY <1>1, <1>2, <1>3 DEF Story, MailAt
    <3>3. record'[w].decision = "REJECTED" /\ returned'[w] = "REJECTED"
      BY <1>4, <1>6, <1>13
    <3>. QED  BY <2>6, <3>1, <3>2, <3>3 DEF ReportAt
  <2>8. EntryAt(w)'
    BY <1>2, <1>3, <1>6, <2>6 DEF Story, EntryAt, BeforeReview
  <2>9. MailAt(w)'
    BY <1>1, <1>2, <1>3, <1>6, <2>6 DEF Story, MailAt, BeforeReview, Finished, Returned
  <2>. QED  BY <1>2, <1>10, <1>11, <2>4, <2>5, <2>7, <2>8, <2>9, <2>10, OneMoves DEF Story
<1>. QED  BY <1>12, <1>13

(* A failing SendStep returns from run(), whatever Gmail has done by then. *)
LEMMA SendKeeps == ASSUME IInv, NEW w \in Workflows, Send(w) PROVE IInv'
<1>1. pc[w] = "sending" /\ sm[w] = "SENDING"
  BY DEF Send, Runs, IInv, Story, MachineAt, Fits
<1>2. UNCHANGED <<draft, trail, app, pending, future, record, answered, returned>>
  BY DEF Send, gateVars
<1>3. Story(w)
  BY DEF IInv
<1>4. ctx[w] \in Context /\ ctx[w].is_approved /\ ~ctx[w].error
  BY <1>1, <1>3, ContextTyped DEF IInv, Story, ContextAt
<1>5. gmail \in [Workflows -> Mailbox] /\ gmail[w] \in Mailbox /\ gmail[w].delivered = 0
  BY <1>1, <1>3 DEF IInv, TypeOK, Story, MailAt
<1>6. Gate!TypeOK'
  BY <1>2 DEF IInv, TypeOK, Gate!TypeOK
<1>7. /\ {"SENT", "ERROR"} \subseteq Status
      /\ "auditing" \in Labels /\ "returned" \in Labels
  BY DEF Status, Labels, OnLoop, Finished, Returned
<1>8. ASSUME NEW s \in Status, NEW k \in Context, NEW l \in Labels, Moved(w, s, k, l),
             NEW n \in {0, 1}, gmail' = [gmail EXCEPT ![w].delivered = @ + n],
             k.is_approved,
             \/ l = "auditing" /\ s = "SENT" /\ n = 1 /\ ~k.error
             \/ l = "returned" /\ s = "ERROR" /\ k.status = "ERROR" /\ k.error
      PROVE  IInv'
  <2>. DEFINE box == [gmail[w] EXCEPT !.delivered = @ + n]
  <2>1. box \in Mailbox /\ box.delivered = n
    BY <1>5 DEF Mailbox
  <2>2. gmail' = [gmail EXCEPT ![w] = box]
    BY <1>8, Zenon
  <2>3. /\ gmail' \in [Workflows -> Mailbox] /\ gmail'[w].delivered = n
        /\ \A x \in Workflows \ {w} : gmail'[x] = gmail[x]
    BY <1>5, <2>1, <2>2
  <2>4. TypeOK'
    BY <1>2, <1>6, <1>8, <2>3 DEF IInv, TypeOK, Moved
  <2>5. \A x \in Workflows \ {w} : Same(x)
    BY <1>2, <1>8, <2>3 DEF Same, Moved
  <2>6. pc'[w] = l /\ sm'[w] = s /\ ctx'[w] = k
    BY <1>8 DEF Moved
  <2>7. MachineAt(w)' /\ ContextAt(w)'
    BY <1>8, <2>3, <2>6 DEF MachineAt, Fits, ContextAt, BeforeReview, TERMINAL_STATES
  <2>10. ReportAt(w)'
    BY <1>1, <1>2, <1>3, <1>8, <2>6 DEF Story, ReportAt
  <2>8. EntryAt(w)'
    BY <1>1, <1>2, <1>3, <1>8, <2>6 DEF Story, EntryAt, BeforeReview
  <2>9. MailAt(w)'
    BY <1>1, <1>2, <1>3, <1>8, <2>3, <2>6 DEF Story, MailAt, BeforeReview, Finished, Returned
  <2>. QED  BY <1>2, <2>4, <2>5, <2>7, <2>8, <2>9, <2>10, OneMoves DEF Story
<1>9. ASSUME NEW n \in {0, 1}, gmail' = [gmail EXCEPT ![w].delivered = @ + n],
             StepFails(w, "auditing")
      PROVE  IInv'
  <2>. DEFINE k == [ctx[w] EXCEPT !.error = TRUE, !.status = "ERROR"]
  <2>1. Moved(w, "ERROR", k, "returned")
    BY <1>1, <1>7, <1>9, Table, StepFailsMoves DEF IInv
  <2>2. k \in Context /\ k.is_approved /\ k.error /\ k.status = "ERROR"
    BY <1>4, <1>7 DEF Context
  <2>. QED  BY <1>7, <1>8, <1>9, <2>1, <2>2
<1>10. ASSUME NEW delivered \in BOOLEAN, NEW acked \in BOOLEAN, acked => delivered,
              gmail' = [gmail EXCEPT ![w].delivered = @ + (IF delivered THEN 1 ELSE 0)],
              IF acked THEN StepSucceeds(w, "SENT", ctx[w], "auditing")
              ELSE StepFails(w, "auditing")
       PROVE  IInv'
  <2>1. CASE acked
    <3>. DEFINE k == [ctx[w] EXCEPT !.status = "SENT"]
    <3>1. Moved(w, "SENT", k, "auditing")
      BY <1>1, <1>4, <1>7, <1>10, <2>1, Table, StepSucceedsMoves DEF IInv
    <3>2. k \in Context /\ k.is_approved /\ ~k.error
      BY <1>4, <1>7 DEF Context
    <3>3. gmail' = [gmail EXCEPT ![w].delivered = @ + 1]
      BY <1>10, <2>1
    <3>. QED  BY <1>7, <1>8, <3>1, <3>2, <3>3
  <2>2. CASE ~acked
    BY <1>9, <1>10, <2>2
  <2>. QED  BY <2>1, <2>2
<1>11. CASE StepFails(w, "auditing") /\ UNCHANGED gmail
  <2>. DEFINE box == [gmail[w] EXCEPT !.delivered = @ + 0]
  <2>1. box = gmail[w]
    BY <1>5 DEF Mailbox
  <2>2. gmail' = [gmail EXCEPT ![w].delivered = @ + 0]
    BY <1>5, <1>11, <2>1
  <2>. QED  BY <1>9, <1>11, <2>2
<1>. QED  BY <1>10, <1>11 DEF Send

LEMMA AuditKeeps == ASSUME IInv, NEW w \in Workflows, Audit(w) PROVE IInv'
<1>1. pc[w] = "auditing" /\ sm[w] = "SENT"
  BY DEF Audit, Runs, IInv, Story, MachineAt, Fits
<1>2. UNCHANGED <<draft, gmail, app, pending, future, record, answered, returned>>
  BY DEF Audit, gateVars
<1>3. Story(w)
  BY DEF IInv
<1>4. ctx[w] \in Context /\ ctx[w].is_approved /\ ~ctx[w].error /\ sm[w] \in Status
  BY <1>1, <1>3, ContextTyped DEF IInv, TypeOK, Story, ContextAt
<1>5. Gate!TypeOK'
  BY <1>2 DEF IInv, TypeOK, Gate!TypeOK
<1>6. "AUDITED" \in Status /\ "raised" \in Labels /\ "returned" \in Labels
  BY DEF Status, Labels, Finished, Returned
<1>7. ASSUME NEW s \in Status, NEW k \in Context, NEW l \in {"returned", "raised"},
             Moved(w, s, k, l), k.is_approved, ~k.error,
             l = "returned" => s = "AUDITED" /\ k.status = "AUDITED",
             trail' \in [Workflows -> SUBSET Events],
             "APPROVAL_REQUESTED" \in trail'[w],
             \A x \in Workflows \ {w} : trail'[x] = trail[x]
      PROVE  IInv'
  <2>1. TypeOK'
    BY <1>2, <1>5, <1>7 DEF IInv, TypeOK, Moved
  <2>2. \A x \in Workflows \ {w} : Same(x)
    BY <1>2, <1>7 DEF Same, Moved
  <2>3. pc'[w] = l /\ sm'[w] = s /\ ctx'[w] = k
    BY <1>7 DEF Moved
  <2>4. gmail'[w].delivered = 1
    BY <1>1, <1>2, <1>3 DEF Story, MailAt
  <2>5. MachineAt(w)' /\ ContextAt(w)'
    BY <1>7, <2>3, <2>4 DEF MachineAt, Fits, ContextAt, BeforeReview, TERMINAL_STATES
  <2>8. ReportAt(w)'
    BY <1>1, <1>2, <1>3, <1>7, <2>3, <2>4 DEF Story, ReportAt, MailAt
  <2>6. EntryAt(w)'
    BY <1>1, <1>2, <1>3, <1>7, <2>3 DEF Story, EntryAt, BeforeReview
  <2>7. MailAt(w)'
    BY <1>1, <1>2, <1>3, <1>7, <2>3, <2>4 DEF Story, MailAt, BeforeReview, Finished, Returned
  <2>. QED  BY <1>2, <2>1, <2>2, <2>5, <2>6, <2>7, <2>8, OneMoves DEF Story
<1>8. "APPROVAL_REQUESTED" \in trail[w]
  BY <1>1, <1>3 DEF Story, MailAt
<1>9. CASE /\ trail' = [trail EXCEPT ![w] =
                @ \cup {IF ctx[w].error THEN "WORKFLOW_ERROR" ELSE "EMAIL_SENT"}]
           /\ StepSucceeds(w, "AUDITED", ctx[w], "returned")
  <2>. DEFINE k == [ctx[w] EXCEPT !.status = "AUDITED"]
  <2>1. Moved(w, "AUDITED", k, "returned")
    BY <1>1, <1>4, <1>6, <1>9, Table, StepSucceedsMoves DEF IInv
  <2>2. k \in Context /\ k.is_approved /\ ~k.error /\ k.status = "AUDITED"
    BY <1>4, <1>6 DEF Context
  <2>3. /\ trail' \in [Workflows -> SUBSET Events] /\ "APPROVAL_REQUESTED" \in trail'[w]
        /\ \A x \in Workflows \ {w} : trail'[x] = trail[x]
    BY <1>8, <1>9 DEF IInv, TypeOK, Events
  <2>. QED  BY <1>6, <1>7, <2>1, <2>2, <2>3
<1>10. CASE GoTo(w, "raised") /\ UNCHANGED <<sm, ctx, trail>>
  <2>1. Moved(w, sm[w], ctx[w], "raised")
    BY <1>6, <1>10, StayMoves DEF IInv
  <2>2. trail' \in [Workflows -> SUBSET Events]
    BY <1>10 DEF IInv, TypeOK
  <2>. QED  BY <1>4, <1>7, <1>8, <1>10, <2>1, <2>2
<1>. QED  BY <1>9, <1>10 DEF Audit

LEMMA HumanDecidesKeeps ==
    ASSUME IInv, NEW w \in Workflows, NEW r \in Reviewers, HumanDecides(w, r)
    PROVE  IInv'
<1>1. PICK v \in {"APPROVED", "REJECTED"} : Gate!Decide(w, r, v)
  BY DEF HumanDecides, Gate!Approve, Gate!Reject
<1>2. UNCHANGED <<pc, running, sm, ctx, draft, gmail, trail, app>>
  BY DEF HumanDecides
<1>3. Gate!TypeOK'
  <2>1. v \in Gate!Decisions
    BY DEF Gate!Decisions
  <2>2. Gate!TypeOK
    BY DEF IInv, TypeOK
  <2>3. record' \in [Workflows -> [decision : Gate!Decisions \cup {"NONE"},
                                  reviewer : Reviewers \cup {NoReviewer},
                                  escalated : BOOLEAN]]
    BY <1>1, <2>1, <2>2 DEF Gate!TypeOK, Gate!Decide
  <2>4. /\ future' \in [Workflows -> {"none", "waiting", "resolved", "consumed", "cancelled"}]
        /\ pending' \subseteq Workflows
    BY <1>1, <2>2 DEF Gate!TypeOK, Gate!Decide
  <2>5. /\ answered' \in [Workflows -> SUBSET Gate!Decisions]
        /\ returned' \in [Workflows -> Gate!Decisions \cup {"none", "cancelled"}]
    BY <1>1, <2>1, <2>2 DEF Gate!TypeOK, Gate!Decide
  <2>. QED  BY <2>3, <2>4, <2>5 DEF Gate!TypeOK
<1>4. TypeOK'
  BY <1>2, <1>3 DEF IInv, TypeOK
<1>5. /\ w \in pending /\ pending' = pending
      /\ record'[w].decision = v /\ record'[w].reviewer = r
      /\ record'[w].escalated = record[w].escalated
      /\ future'[w] = IF future[w] = "waiting" THEN "resolved" ELSE future[w]
      /\ \A x \in Workflows \ {w} : record'[x] = record[x] /\ future'[x] = future[x]
      /\ returned' = returned
  BY <1>1 DEF IInv, TypeOK, Gate!TypeOK, Gate!Decide
<1>6. \A x \in Workflows \ {w} : Same(x)
  BY <1>2, <1>5 DEF Same
<1>7. Story(w) /\ pc[w] = "parked"
  BY <1>5 DEF IInv, Story, EntryAt
<1>8. MachineAt(w)' /\ ContextAt(w)' /\ ReportAt(w)'
  BY <1>2, <1>7 DEF Story, MachineAt, ContextAt, ReportAt
<1>9. EntryAt(w)'
  BY <1>2, <1>5, <1>7 DEF Story, EntryAt, BeforeReview
<1>10. MailAt(w)'
  BY <1>2, <1>5, <1>7 DEF Story, MailAt, BeforeReview
<1>. QED  BY <1>2, <1>4, <1>6, <1>8, <1>9, <1>10, OneMoves DEF Story

(* The end of the process, orderly or not, at whatever point every run is. *)
LEMMA EndsKeeps ==
    ASSUME IInv, NEW label \in {"cancelled", "lost"}, Ends(label) PROVE IInv'
<1>1. /\ pc' = [w \in Workflows |-> IF pc[w] \in Suspended \cup OnLoop THEN label ELSE pc[w]]
      /\ running' = NoTask /\ app' = "closed" /\ Gate!CancelAll
      /\ UNCHANGED <<sm, ctx, draft, gmail, trail>>
  BY DEF Ends
<1>2. /\ pending' = {} /\ UNCHANGED <<record, answered>>
      /\ future' = [w \in Workflows |-> IF w \in pending THEN "cancelled" ELSE future[w]]
      /\ returned' = [w \in Workflows |-> IF w \in pending THEN "cancelled" ELSE returned[w]]
  BY <1>1 DEF Gate!CancelAll
<1>3. Gate!TypeOK'
  BY <1>2 DEF IInv, TypeOK, Gate!TypeOK
<1>4. pc' \in [Workflows -> Labels]
  BY <1>1 DEF IInv, TypeOK, Labels, Finished
<1>5. TypeOK'
  BY <1>1, <1>3, <1>4 DEF IInv, TypeOK
<1>6. ASSUME NEW w \in Workflows PROVE Story(w)'
  <2>1. Story(w) /\ pc[w] \in Labels
    BY DEF IInv, TypeOK
  <2>2. CASE pc[w] \in Suspended \cup OnLoop
    <3>1. pc'[w] = label
      BY <1>1, <2>2
    <3>2. MachineAt(w)' /\ ContextAt(w)' /\ ReportAt(w)'
      BY <3>1 DEF MachineAt, Fits, ContextAt, ReportAt, BeforeReview
    <3>3. EntryAt(w)'
      BY <1>1, <1>2, <2>1, <3>1 DEF Story, EntryAt, BeforeReview
    <3>4. MailAt(w)'
      BY <1>1, <1>2, <2>1, <3>1 DEF Story, MailAt, BeforeReview, Finished
    <3>. QED  BY <3>2, <3>3, <3>4 DEF Story
  <2>3. CASE pc[w] \notin Suspended \cup OnLoop
    <3>1. pc'[w] = pc[w] /\ pc[w] # "parked"
      BY <1>1, <2>3 DEF Suspended
    <3>2. w \notin pending /\ w \notin pending' /\ future'[w] = future[w]
          /\ returned'[w] = returned[w]
      BY <1>2, <2>1, <3>1 DEF Story, EntryAt
    <3>3. Same(w)
      BY <1>1, <1>2, <3>1, <3>2 DEF Same
    <3>. QED  BY <1>1, <2>1, <3>3, SameStory
  <2>. QED  BY <2>2, <2>3
<1>. QED  BY <1>5, <1>6 DEF IInv

LEMMA RestartKeeps == ASSUME IInv, Restart PROVE IInv'
<1>1. app' = "open" /\ UNCHANGED <<pc, running, sm, ctx, draft, gmail, trail,
                                    pending, future, record, answered, returned>>
  BY DEF Restart, gateVars
<1>2. Gate!TypeOK'
  BY <1>1 DEF IInv, TypeOK, Gate!TypeOK
<1>3. TypeOK'
  BY <1>1, <1>2 DEF IInv, TypeOK
<1>4. ASSUME NEW w \in Workflows PROVE Story(w)'
  <2>1. Same(w)
    BY <1>1 DEF Same
  <2>. QED  BY <1>1, <2>1, SameStory DEF IInv
<1>. QED  BY <1>3, <1>4 DEF IInv

-----------------------------------------------------------------------------
(* The invariant holds initially and every step keeps it.                  *)

LEMMA InitIInv == Init => IInv
<1> SUFFICES ASSUME Init PROVE IInv
  OBVIOUS
<1>1. Gate!TypeOK
  BY DEF Init, Gate!Init, Gate!TypeOK, Gate!NewRecord, Gate!Decisions
<1>2. TypeOK
  <2>1. NewContext \in Context /\ NoDraft \in Draft /\ "new" \in Labels
        /\ "RECEIVED" \in Status /\ [body |-> "none", delivered |-> 0] \in Mailbox
    BY DEF NewContext, Context, NoDraft, Draft, Labels, Status, Mailbox
  <2>. QED  BY <1>1, <2>1, WorkflowAssumption DEF Init, TypeOK
<1>3. ASSUME NEW w \in Workflows PROVE Story(w)
  <2>1. /\ pc[w] = "new" /\ sm[w] = "RECEIVED" /\ ctx[w] = NewContext
        /\ gmail[w].delivered = 0 /\ trail[w] = {}
        /\ pending = {} /\ future[w] = "none" /\ record[w].decision = "NONE"
    BY DEF Init, Gate!Init, Gate!NewRecord
  <2>2. MachineAt(w) /\ ContextAt(w) /\ ReportAt(w)
    BY <2>1 DEF MachineAt, Fits, ContextAt, ReportAt, NewContext, BeforeReview
  <2>3. EntryAt(w) /\ MailAt(w)
    BY <2>1 DEF EntryAt, MailAt, BeforeReview
  <2>. QED  BY <2>2, <2>3 DEF Story
<1>. QED  BY <1>2, <1>3 DEF IInv

LEMMA StutterIInv == ASSUME IInv, UNCHANGED vars PROVE IInv'
<1>1. Gate!TypeOK'
  BY DEF IInv, TypeOK, vars, Gate!TypeOK
<1>2. TypeOK'
  BY <1>1 DEF IInv, TypeOK, vars
<1>3. ASSUME NEW w \in Workflows PROVE Story(w)'
  <2>1. Same(w)
    BY DEF vars, Same
  <2>. QED  BY <2>1, SameStory DEF IInv
<1>. QED  BY <1>2, <1>3 DEF IInv

LEMMA NextIInv == IInv /\ [Next]_vars => IInv'
<1> SUFFICES ASSUME IInv, [Next]_vars PROVE IInv'
  OBVIOUS
<1>1. ASSUME NEW w \in Workflows, Submit(w) \/ Consent(w) PROVE IInv'
  BY <1>1, SubmitKeeps, ConstructKeeps
<1>2. ASSUME NEW w \in Workflows, LoopStep(w) PROVE IInv'
  <2>1. CASE Construct(w) \/ Ingest(w) \/ InputGuardrails(w) \/ Plan(w)
    BY <2>1, ConstructKeeps, IngestKeeps, InputGuardrailsKeeps, PlanKeeps
  <2>2. CASE Summarised(w) \/ Drafted(w)
    BY <2>2, RepliedKeeps DEF Summarised, Drafted
  <2>3. CASE Reflected(w) \/ OutputGuardrails(w) \/ RequestApproval(w)
    BY <2>3, ReflectedKeeps, OutputGuardrailsKeeps, RequestApprovalKeeps
  <2>4. CASE Resume(w) \/ Send(w) \/ Audit(w)
    BY <2>4, ResumeKeeps, SendKeeps, AuditKeeps
  <2>. QED  BY <1>2, <2>1, <2>2, <2>3, <2>4 DEF LoopStep
<1>3. ASSUME NEW w \in Workflows, NEW r \in Reviewers, HumanDecides(w, r) PROVE IInv'
  BY <1>3, HumanDecidesKeeps
<1>4. CASE Close \/ Crash
  BY <1>4, EndsKeeps DEF Close, Crash
<1>5. CASE Restart
  BY <1>5, RestartKeeps
<1>6. CASE UNCHANGED vars
  BY <1>6, StutterIInv
<1>. QED  BY <1>1, <1>2, <1>3, <1>4, <1>5, <1>6 DEF Next

LEMMA SpecIInv == Spec => []IInv
  BY InitIInv, NextIInv, PTL DEF Spec

-----------------------------------------------------------------------------
(* The types of all variables, the gate's included.                        *)
THEOREM WorkflowTypeCorrect == Spec => []TypeOK
<1>1. IInv => TypeOK
  BY DEF IInv
<1>. QED  BY <1>1, SpecIInv, PTL

(* Whatever crashes, is lost or is decided when: an e-mail that left did   *)
(* so once, after the guardrails, with the approval of a named human on    *)
(* record and its request in the audit file.                               *)
THEOREM MailsAreApproved == Spec => []EveryMailWasApproved
<1>1. IInv => EveryMailWasApproved
  <2> SUFFICES ASSUME IInv, NEW w \in Workflows, Delivered(w)
               PROVE  /\ gmail[w].delivered = 1
                      /\ draft[w].guardrails_passed
                      /\ record[w].decision = "APPROVED"
                      /\ record[w].reviewer \in Reviewers
                      /\ "APPROVAL_REQUESTED" \in trail[w]
    BY DEF EveryMailWasApproved
  <2>1. gmail[w].delivered = 1
    BY DEF IInv, Story, MailAt, Delivered
  <2>. QED  BY <2>1 DEF IInv, Story, MailAt, EntryAt
<1>. QED  BY <1>1, SpecIInv, PTL

(* The audit file never claims a mail that did not leave or was not        *)
(* approved.                                                               *)
THEOREM AuditNeverLies == Spec => []AuditClaimsAreTrue
<1>1. IInv => AuditClaimsAreTrue
  BY DEF IInv, Story, MailAt, AuditClaimsAreTrue, Delivered
<1>. QED  BY <1>1, SpecIInv, PTL

(* The reviewer's queue holds exactly the runs that wait for her.          *)
THEOREM QueueAndRunsAgree == Spec => []QueueMatchesRuns
<1>1. IInv => QueueMatchesRuns
  BY DEF IInv, Story, EntryAt, MailAt, ContextAt, QueueMatchesRuns, Delivered
<1>. QED  BY <1>1, SpecIInv, PTL

(* The context a caller gets back tells the truth about the run.           *)
THEOREM ReturnedContextIsTrue == Spec => []ReturnedContextAgrees
<1>1. IInv => ReturnedContextAgrees
  BY DEF IInv, Story, MachineAt, Fits, ContextAt, ReturnedContextAgrees, Delivered
<1>. QED  BY <1>1, SpecIInv, PTL

(* A suspicion about the inbound e-mail, if the rail for it looked at the  *)
(* draft, is in the record under decision, whichever rails are left out or *)
(* fail in either stage.                                                   *)
THEOREM SuspicionStaysOnRecord == Spec => []SuspicionIsOnRecord
<1>1. IInv => SuspicionIsOnRecord
  BY DEF IInv, Story, EntryAt, SuspicionIsOnRecord
<1>. QED  BY <1>1, SpecIInv, PTL

(* The screen of the GUI and the report of the command line agree, and     *)
(* what they say of a run that is over is so.                              *)
THEOREM ReportsTrue == Spec => []ReportsAreTrue
<1>1. IInv => ReportsAreTrue
  <2> SUFFICES ASSUME IInv, NEW w \in Workflows, pc[w] = "returned"
               PROVE  /\ RunnerSays(w) = DashboardSays(w)
                      /\ DashboardSays(w) = "sent" =>
                            Delivered(w) /\ record[w].decision = "APPROVED"
                      /\ DashboardSays(w) = "rejected" =>
                            ~Delivered(w) /\ record[w].decision = "REJECTED"
    BY DEF ReportsAreTrue
  <2>1. ReportAt(w)
    BY DEF IInv, Story
  <2>2. CASE ctx[w].error
    BY <2>2 DEF RunnerSays, DashboardSays
  <2>3. CASE ~ctx[w].error /\ ctx[w].is_approved
    BY <2>1, <2>3 DEF ReportAt, RunnerSays, DashboardSays, Delivered, Gate!Decisions
  <2>4. CASE ~ctx[w].error /\ ~ctx[w].is_approved
    BY <2>1, <2>4 DEF ReportAt, RunnerSays, DashboardSays, Delivered, Gate!Decisions
  <2>. QED  BY <2>2, <2>3, <2>4
<1>. QED  BY <1>1, SpecIInv, PTL

-----------------------------------------------------------------------------
(* EmailWorkflow implements HumanInTheLoop: its initial states map to      *)
(* initial states, and each of its steps maps to a step or a stutter.      *)
(* IInv supplies what a step needs to know of its past: nothing was        *)
(* decided before the review, and nothing was sent before the decision.    *)

LEMMA AdvanceGoes ==
    ASSUME NEW w, NEW m, NEW c, NEW status, NEW l, Advance(w, m, c, status, l)
    PROVE  GoTo(w, l) \/ GoTo(w, "raised")
  BY DEF Advance

LEMMA StepSucceedsGoes ==
    ASSUME NEW w, NEW to, NEW c, NEW l, StepSucceeds(w, to, c, l)
    PROVE  GoTo(w, l) \/ GoTo(w, "raised")
  BY AdvanceGoes DEF StepSucceeds

LEMMA StepFailsGoes ==
    ASSUME NEW w, NEW l, StepFails(w, l)
    PROVE  GoTo(w, l) \/ GoTo(w, "returned") \/ GoTo(w, "raised")
  BY AdvanceGoes DEF StepFails

LEMMA BlockedGoes ==
    ASSUME NEW w, Blocked(w)
    PROVE  GoTo(w, "returned") \/ GoTo(w, "raised")
  BY AdvanceGoes DEF Blocked

-----------------------------------------------------------------------------
LEMMA StageOfLabels ==
    /\ \A l \in BeforeReview : Stage(l) = "working"
    /\ Stage("parked") = "under_review"
    /\ \A l \in {"sending", "auditing"} \cup Finished : Stage(l) = "settled"
  BY DEF BeforeReview, Stage, Finished, Returned

(* A run that moves without a decision or a mail: it stays where it was in *)
(* the abstract process, or it is settled.                                 *)
LEMMA QuietMove ==
    ASSUME TypeOK, NEW w \in Workflows, NEW k, GoTo(w, k),
           Stage(k) \in {Stage(pc[w]), "settled"},
           VerdictOf' = VerdictOf, MailsOf' = MailsOf
    PROVE  [Promise!Next]_Promise!vars
<1>1. StageOf' = [StageOf EXCEPT ![w] = Stage(k)]
  BY DEF StageOf, GoTo, TypeOK
<1>2. CASE Stage(k) = Stage(pc[w])
  <2>1. StageOf' = StageOf
    BY <1>1, <1>2 DEF StageOf
  <2>. QED  BY <2>1 DEF Promise!vars
<1>3. CASE Stage(k) = "settled"
  <2>1. StageOf' = [x \in Workflows |-> IF x \in {w} THEN "settled" ELSE StageOf[x]]
    BY <1>1, <1>3 DEF StageOf
  <2>2. Promise!Settle({w})
    BY <2>1 DEF Promise!Settle
  <2>. QED  BY <2>2 DEF Promise!Next
<1>. QED  BY <1>2, <1>3

LEMMA NoDecisionNoMail ==
    ASSUME UNCHANGED <<record, gmail>>
    PROVE  VerdictOf' = VerdictOf /\ MailsOf' = MailsOf
  BY DEF VerdictOf, MailsOf

(* All of run() up to the approval step. *)
LEMMA EarlyStepRefines ==
    ASSUME TypeOK, NEW w \in Workflows, pc[w] \in BeforeReview,
           NEW k \in BeforeReview \cup Finished, GoTo(w, k),
           VerdictOf' = VerdictOf, MailsOf' = MailsOf
    PROVE  [Promise!Next]_Promise!vars
<1>1. Stage(k) \in {Stage(pc[w]), "settled"}
  BY StageOfLabels
<1>. QED  BY <1>1, QuietMove

LEMMA EarlyActionRefines ==
    ASSUME IInv, NEW w \in Workflows,
           \/ Submit(w) \/ Construct(w) \/ Consent(w) \/ Ingest(w)
           \/ InputGuardrails(w) \/ Plan(w) \/ Summarised(w)
           \/ Drafted(w) \/ Reflected(w) \/ OutputGuardrails(w)
    PROVE  [Promise!Next]_Promise!vars
<1>1. pc[w] \in BeforeReview
  BY DEF Submit, Construct, Consent, Ingest, InputGuardrails, Plan, Summarised, Drafted, Replied,
         Reflected, OutputGuardrails, Runs, BeforeReview
<1>2. \E k \in BeforeReview \cup Finished : GoTo(w, k)
  <2>1. CASE Submit(w) \/ Construct(w) \/ Consent(w)
    BY <2>1 DEF Submit, Construct, Consent, BeforeReview, Finished, Returned
  <2>2. CASE Ingest(w)
    BY <2>2, StepSucceedsGoes, StepFailsGoes DEF Ingest, BeforeReview, Finished, Returned
  <2>3. CASE InputGuardrails(w)
    BY <2>3, BlockedGoes DEF InputGuardrails, BeforeReview, Finished, Returned
  <2>4. CASE Plan(w)
    BY <2>4, StepFailsGoes DEF Plan, BeforeReview, Finished, Returned
  <2>5. CASE Summarised(w) \/ Drafted(w)
    BY <2>5, StepFailsGoes DEF Summarised, Drafted, Replied, BeforeReview, Finished, Returned
  <2>6. CASE Reflected(w)
    BY <2>6, StepSucceedsGoes, StepFailsGoes DEF Reflected, BeforeReview, Finished, Returned
  <2>7. CASE OutputGuardrails(w)
    BY <2>7, BlockedGoes, AdvanceGoes DEF OutputGuardrails, BeforeReview, Finished, Returned
  <2>. QED  BY <2>1, <2>2, <2>3, <2>4, <2>5, <2>6, <2>7
<1>3. VerdictOf' = VerdictOf
  BY DEF VerdictOf, Submit, Construct, Consent, Ingest, InputGuardrails, Plan, Summarised, Drafted, Replied,
         Reflected, OutputGuardrails, gateVars
<1>4. MailsOf' = MailsOf
  <2>1. CASE Reflected(w)
    <3>1. ASSUME NEW body \in Bodies, NEW stored \in BOOLEAN,
                 gmail' = [gmail EXCEPT ![w].body = IF stored THEN body ELSE @]
          PROVE  MailsOf' = MailsOf
      <4>. DEFINE box == [gmail[w] EXCEPT !.body = IF stored THEN body ELSE @]
      <4>1. gmail \in [Workflows -> Mailbox]
        BY DEF IInv, TypeOK
      <4>2. box.delivered = gmail[w].delivered
        BY <4>1 DEF Mailbox
      <4>3. gmail' = [gmail EXCEPT ![w] = box]
        BY <3>1, Zenon
      <4>. QED  BY <4>1, <4>2, <4>3 DEF MailsOf
    <3>2. CASE UNCHANGED gmail
      BY <3>2 DEF MailsOf
    <3>. QED  BY <2>1, <3>1, <3>2 DEF Reflected
  <2>2. CASE ~Reflected(w)
    BY <2>2 DEF MailsOf, Submit, Construct, Consent, Ingest, InputGuardrails, Plan, Summarised, Drafted,
                Replied, OutputGuardrails
  <2>. QED  BY <2>1, <2>2
<1>. QED  BY <1>1, <1>2, <1>3, <1>4, EarlyStepRefines DEF IInv

LEMMA RequestApprovalRefines ==
    ASSUME IInv, NEW w \in Workflows, RequestApproval(w)
    PROVE  [Promise!Next]_Promise!vars
<1>1. pc[w] = "request_approval" /\ sm[w] = "GUARDRAILS_PASSED"
      /\ UNCHANGED gmail /\ record[w].decision = "NONE"
  BY DEF RequestApproval, Runs, IInv, Story, MachineAt, Fits, EntryAt, BeforeReview
<1>2. CASE StepFails(w, "parked") /\ UNCHANGED <<trail, gateVars>>
  <2>1. Moved(w, "ERROR", [ctx[w] EXCEPT !.error = TRUE, !.status = "ERROR"], "returned")
    BY <1>1, <1>2, Table, StepFailsMoves DEF IInv, Labels, Suspended
  <2>2. StageOf' = [x \in Workflows |-> IF x \in {w} THEN "settled" ELSE StageOf[x]]
    BY <2>1, StageOfLabels DEF StageOf, Moved, Finished, Returned
  <2>3. VerdictOf' = VerdictOf /\ MailsOf' = MailsOf
    BY <1>1, <1>2, NoDecisionNoMail DEF gateVars
  <2>4. Promise!Settle({w})
    BY <2>2, <2>3 DEF Promise!Settle
  <2>. QED  BY <2>4 DEF Promise!Next
<1>3. CASE Gate!WaitForDecision(w, ctx[w].escalated) /\ GoTo(w, "parked")
  <2>1. StageOf[w] = "working" /\ StageOf' = [StageOf EXCEPT ![w] = "under_review"]
    BY <1>1, <1>3, StageOfLabels DEF StageOf, GoTo, IInv, TypeOK, BeforeReview
  <2>2. \A x \in Workflows : record'[x].decision = record[x].decision
    BY <1>1, <1>3 DEF Gate!WaitForDecision, Gate!NewRecord, IInv, TypeOK, Gate!TypeOK
  <2>3. VerdictOf' = VerdictOf /\ MailsOf' = MailsOf
    BY <1>1, <2>2 DEF VerdictOf, MailsOf
  <2>4. Promise!PutUnderReview(w)
    BY <2>1, <2>3 DEF Promise!PutUnderReview
  <2>. QED  BY <2>4 DEF Promise!Next
<1>. QED  BY <1>2, <1>3 DEF RequestApproval

LEMMA ResumeRefines ==
    ASSUME IInv, NEW w \in Workflows, Resume(w)
    PROVE  [Promise!Next]_Promise!vars
<1>1. \E k \in {"sending"} \cup Finished : GoTo(w, k)
  BY AdvanceGoes DEF Resume, Finished, Returned
<1>2. VerdictOf' = VerdictOf /\ MailsOf' = MailsOf
  BY NoDecisionNoMail DEF Resume, Gate!Resume
<1>3. \A k \in {"sending"} \cup Finished : Stage(k) = "settled"
  BY StageOfLabels
<1>. QED  BY <1>1, <1>2, <1>3, QuietMove DEF IInv

(* Gmail delivers: Mail(w).  It does not: a stutter.                       *)
LEMMA SendRefines ==
    ASSUME IInv, NEW w \in Workflows, Send(w)
    PROVE  [Promise!Next]_Promise!vars
<1>1. /\ pc[w] = "sending" /\ gmail[w].delivered = 0 /\ record[w].decision = "APPROVED"
      /\ record' = record
  BY DEF Send, Runs, gateVars, IInv, Story, MailAt, BeforeReview
<1>2. \E k \in {"auditing"} \cup Finished : GoTo(w, k)
  BY StepSucceedsGoes, StepFailsGoes DEF Send, Finished, Returned
<1>3. StageOf' = StageOf /\ StageOf[w] = "settled"
  BY <1>1, <1>2, StageOfLabels DEF StageOf, GoTo, IInv, TypeOK
<1>4. VerdictOf' = VerdictOf /\ VerdictOf[w] = "APPROVED" /\ MailsOf[w] = 0
  BY <1>1 DEF VerdictOf, MailsOf
<1>5. \/ gmail' = gmail
      \/ \E delivered \in BOOLEAN :
            gmail' = [gmail EXCEPT ![w].delivered = @ + (IF delivered THEN 1 ELSE 0)]
  BY DEF Send
<1>6. MailsOf' = MailsOf \/ MailsOf' = [MailsOf EXCEPT ![w] = 1]
  <2>1. CASE gmail' = gmail
    BY <2>1 DEF MailsOf
  <2>2. ASSUME NEW n \in {0, 1}, gmail' = [gmail EXCEPT ![w].delivered = @ + n]
        PROVE  MailsOf' = MailsOf \/ MailsOf' = [MailsOf EXCEPT ![w] = 1]
    <3>1. gmail'[w].delivered = n /\ \A x \in Workflows \ {w} : gmail'[x] = gmail[x]
      BY <1>1, <2>2 DEF IInv, TypeOK, Mailbox
    <3>2. CASE n = 0
      BY <1>1, <3>1, <3>2 DEF MailsOf
    <3>3. CASE n = 1
      BY <1>1, <3>1, <3>3 DEF MailsOf
    <3>. QED  BY <3>2, <3>3
  <2>. QED  BY <1>5, <2>1, <2>2
<1>7. CASE MailsOf' = MailsOf
  BY <1>3, <1>4, <1>7 DEF Promise!vars
<1>8. CASE MailsOf' = [MailsOf EXCEPT ![w] = 1]
  <2>1. Promise!Mail(w)
    BY <1>3, <1>4, <1>8 DEF Promise!Mail
  <2>. QED  BY <2>1 DEF Promise!Next
<1>. QED  BY <1>6, <1>7, <1>8

LEMMA AuditRefines ==
    ASSUME IInv, NEW w \in Workflows, Audit(w)
    PROVE  [Promise!Next]_Promise!vars
<1>1. \E k \in Finished : GoTo(w, k)
  BY StepSucceedsGoes DEF Audit, Finished, Returned
<1>2. VerdictOf' = VerdictOf /\ MailsOf' = MailsOf
  BY NoDecisionNoMail DEF Audit, gateVars
<1>3. \A k \in Finished : Stage(k) = "settled"
  BY StageOfLabels
<1>. QED  BY <1>1, <1>2, <1>3, QuietMove DEF IInv

LEMMA HumanDecidesRefines ==
    ASSUME IInv, NEW w \in Workflows, NEW r \in Reviewers, HumanDecides(w, r)
    PROVE  [Promise!Next]_Promise!vars
<1>1. PICK v \in {"APPROVED", "REJECTED"} : Gate!Decide(w, r, v)
  BY DEF HumanDecides, Gate!Approve, Gate!Reject
<1>2. pc[w] = "parked" /\ StageOf' = StageOf /\ MailsOf' = MailsOf
  BY <1>1 DEF HumanDecides, Gate!Decide, StageOf, MailsOf, IInv, Story, EntryAt
<1>3. StageOf[w] = "under_review"
  BY <1>2, StageOfLabels DEF StageOf
<1>4. VerdictOf' = [VerdictOf EXCEPT ![w] = v]
  <2>1. record'[w].decision = v /\ \A x \in Workflows \ {w} : record'[x] = record[x]
    BY <1>1 DEF Gate!Decide, IInv, TypeOK, Gate!TypeOK
  <2>. QED  BY <2>1 DEF VerdictOf
<1>5. Promise!Decide(w, v)
  BY <1>2, <1>3, <1>4 DEF Promise!Decide
<1>. QED  BY <1>5 DEF Promise!Next

LEMMA EndsRefines ==
    ASSUME IInv, NEW label \in {"cancelled", "lost"}, Ends(label)
    PROVE  [Promise!Next]_Promise!vars
<1>. DEFINE S == {w \in Workflows : pc[w] \in Suspended \cup OnLoop}
<1>1. pc' = [w \in Workflows |-> IF w \in S THEN label ELSE pc[w]]
  BY DEF Ends
<1>2. Stage(label) = "settled"
  BY StageOfLabels DEF Finished
<1>3. StageOf' = [w \in Workflows |-> IF w \in S THEN "settled" ELSE StageOf[w]]
  BY <1>1, <1>2 DEF StageOf
<1>4. VerdictOf' = VerdictOf /\ MailsOf' = MailsOf
  BY NoDecisionNoMail DEF Ends, Gate!CancelAll
<1>5. Promise!Settle(S)
  BY <1>3, <1>4 DEF Promise!Settle
<1>6. S \in SUBSET Workflows
  OBVIOUS
<1>. QED  BY <1>5, <1>6 DEF Promise!Next

-----------------------------------------------------------------------------
LEMMA InitRefines == Init => Promise!Init
  BY DEF Init, Gate!Init, Gate!NewRecord, Promise!Init, StageOf, VerdictOf, MailsOf, Stage,
         Finished, Returned

LEMMA NextRefines == IInv /\ [Next]_vars => [Promise!Next]_Promise!vars
<1> SUFFICES ASSUME IInv, [Next]_vars PROVE [Promise!Next]_Promise!vars
  OBVIOUS
<1>1. ASSUME NEW w \in Workflows, Submit(w) \/ LoopStep(w) \/ Consent(w)
      PROVE  [Promise!Next]_Promise!vars
  <2>1. CASE Submit(w) \/ Construct(w) \/ Consent(w) \/ Ingest(w)
             \/ InputGuardrails(w) \/ Plan(w) \/ Summarised(w) \/ Drafted(w) \/ Reflected(w) \/ OutputGuardrails(w)
    BY <2>1, EarlyActionRefines
  <2>2. CASE RequestApproval(w)
    BY <2>2, RequestApprovalRefines
  <2>3. CASE Resume(w)
    BY <2>3, ResumeRefines
  <2>4. CASE Send(w)
    BY <2>4, SendRefines
  <2>5. CASE Audit(w)
    BY <2>5, AuditRefines
  <2>. QED  BY <1>1, <2>1, <2>2, <2>3, <2>4, <2>5 DEF LoopStep
<1>2. ASSUME NEW w \in Workflows, NEW r \in Reviewers, HumanDecides(w, r)
      PROVE  [Promise!Next]_Promise!vars
  BY <1>2, HumanDecidesRefines
<1>3. CASE Close \/ Crash
  BY <1>3, EndsRefines DEF Close, Crash
<1>4. CASE Restart \/ UNCHANGED vars
  <2>1. UNCHANGED <<pc, record, gmail>>
    BY <1>4 DEF Restart, vars, gateVars
  <2>2. StageOf' = StageOf /\ VerdictOf' = VerdictOf /\ MailsOf' = MailsOf
    BY <2>1 DEF StageOf, VerdictOf, MailsOf
  <2>. QED  BY <2>2 DEF Promise!vars
<1>. QED  BY <1>1, <1>2, <1>3, <1>4 DEF Next

(* The harness keeps its promise, for any number of workflows and          *)
(* reviewers: drafts go to a human after the guardrails, her last word     *)
(* before the run resumes stands, and only an approved draft is mailed,    *)
(* once.                                                                   *)
THEOREM ImplementsHumanInTheLoop == Spec => KeepsPromise
  BY InitRefines, NextRefines, SpecIInv, PTL DEF Spec, KeepsPromise, Promise!Spec

-----------------------------------------------------------------------------
(* The gate. *)

(* The end of a process in which nobody waits changes nothing of the gate. *)
LEMMA EndsDriveGate ==
    ASSUME IInv, Gate!CancelAll
    PROVE  [Gate!Next]_gateVars
<1>1. CASE pending # {}
  BY <1>1 DEF Gate!Next
<1>2. CASE pending = {}
  <2>1. future \in [Workflows -> {"none", "waiting", "resolved", "consumed", "cancelled"}]
        /\ returned \in [Workflows -> Gate!Decisions \cup {"none", "cancelled"}]
    BY DEF IInv, TypeOK, Gate!TypeOK
  <2>2. future' = [w \in Workflows |-> future[w]] /\ returned' = [w \in Workflows |-> returned[w]]
    BY <1>2 DEF Gate!CancelAll
  <2>3. future' = future /\ returned' = returned
    BY <2>1, <2>2
  <2>. QED  BY <1>2, <2>3 DEF Gate!CancelAll, gateVars
<1>. QED  BY <1>1, <1>2

LEMMA StepsDriveGate == IInv /\ [Next]_vars => [Gate!Next]_gateVars
<1> SUFFICES ASSUME IInv, [Next]_vars PROVE [Gate!Next]_gateVars
  OBVIOUS
<1>1. ASSUME NEW w \in Workflows, Submit(w) \/ LoopStep(w) \/ Consent(w)
      PROVE  [Gate!Next]_gateVars
  <2>1. CASE RequestApproval(w)
    <3>1. ctx[w].escalated \in BOOLEAN
      BY ContextTyped DEF IInv, Context
    <3>. QED  BY <2>1, <3>1 DEF RequestApproval, Gate!Next
  <2>2. CASE Resume(w)
    BY <2>2 DEF Resume, Gate!Next
  <2>3. CASE ~RequestApproval(w) /\ ~Resume(w)
    <3>1. UNCHANGED gateVars
      BY <1>1, <2>3 DEF LoopStep, Submit, Construct, Consent, Ingest, InputGuardrails, Plan, Summarised, Drafted,
                        Replied, Reflected, OutputGuardrails, Send, Audit
    <3>. QED  BY <3>1
  <2>. QED  BY <2>1, <2>2, <2>3
<1>2. ASSUME NEW w \in Workflows, NEW r \in Reviewers, HumanDecides(w, r)
      PROVE  [Gate!Next]_gateVars
  BY <1>2 DEF HumanDecides, Gate!Next
<1>3. CASE Close \/ Crash
  BY <1>3, EndsDriveGate DEF Close, Crash, Ends
<1>4. CASE Restart \/ UNCHANGED vars
  BY <1>4 DEF Restart, vars, gateVars
<1>. QED  BY <1>1, <1>2, <1>3, <1>4 DEF Next

(* The runs, the session and the end of the process use the gate as it may *)
(* be used: however many there are, they are its Behaviour.                *)
THEOREM WorkflowsDriveTheGate == Spec => Gate!Behaviour
<1>1. Init => Gate!Init
  BY DEF Init
<1>. QED  BY <1>1, StepsDriveGate, SpecIInv, PTL DEF Spec, Gate!Behaviour, gateVars, Gate!gateVars

(* The gate of the model and the gate of its proofs are one.               *)
LEMMA SameGate ==
    /\ G!Init <=> Gate!Init
    /\ [G!Next]_(G!gateVars) <=> [Gate!Next]_(Gate!gateVars)
    /\ G!ReturnedIsRecorded <=> Gate!ReturnedIsRecorded
<1>1. G!Init <=> Gate!Init
  BY DEF G!Init, Gate!Init, G!NewRecord, Gate!NewRecord
<1>2. G!Next <=> Gate!Next
  BY DEF G!Next, Gate!Next, G!WaitForDecision, Gate!WaitForDecision, G!NewRecord,
         Gate!NewRecord, G!Approve, Gate!Approve, G!Reject, Gate!Reject, G!Decide, Gate!Decide,
         G!Resume, Gate!Resume, G!CancelAll, Gate!CancelAll
<1>3. G!gateVars = Gate!gateVars /\ (G!gateVars)' = (Gate!gateVars)'
  BY DEF G!gateVars, Gate!gateVars
<1>4. G!ReturnedIsRecorded <=> Gate!ReturnedIsRecorded
  BY DEF G!ReturnedIsRecorded, Gate!ReturnedIsRecorded, G!Decisions, Gate!Decisions
<1>. QED  BY <1>1, <1>2, <1>3, <1>4

(* So what is proved of the gate alone holds of it in the whole harness:   *)
(* a run acts on a decision that its reviewer was told was accepted, and   *)
(* nothing changes the record behind a run that has gone on.               *)
THEOREM DecisionsStand == Spec => []Gate!ReturnedIsRecorded /\ Gate!RecordFrozen
<1>1. NoReviewer \notin Reviewers
  BY WorkflowAssumption
<1>2. G!Behaviour => []G!ReturnedIsRecorded
  BY <1>1, G!BehaviourReturns
<1>3. G!Behaviour => G!RecordFrozen
  BY <1>1, G!BehaviourFreezes
<1>4. G!Behaviour <=> Gate!Behaviour
  BY SameGate, PTL DEF G!Behaviour, Gate!Behaviour
<1>5. G!RecordFrozen <=> Gate!RecordFrozen
  BY PTL DEF G!RecordFrozen, Gate!RecordFrozen, G!gateVars, Gate!gateVars
<1>. QED  BY <1>2, <1>3, <1>4, <1>5, SameGate, WorkflowsDriveTheGate, PTL

-----------------------------------------------------------------------------
(* Why a run comes to an end. *)

(* The program points in the order in which run() comes by.                *)
Position(l) ==
    CASE l = "new" -> 0
      [] l = "start" -> 1
      [] l = "consent" -> 2
      [] l = "ingest" -> 3
      [] l = "input_guardrails" -> 4
      [] l = "plan" -> 5
      [] l = "summarising" -> 6
      [] l = "drafting" -> 7
      [] l = "reflecting" -> 8
      [] l = "output_guardrails" -> 9
      [] l = "request_approval" -> 10
      [] l = "parked" -> 11
      [] l = "sending" -> 12
      [] l = "auditing" -> 13
      [] OTHER -> 14

(* A run only goes forward, and each of its steps takes it on: no failure, *)
(* no decision and no new process sends it back to the LLM, to the gate or *)
(* to Gmail.                                                               *)
RunsGoForward ==
    [][\A w \in Workflows :
          /\ pc'[w] # pc[w] => Position(pc[w]) < Position(pc'[w])
          /\ LoopStep(w) => pc'[w] # pc[w]]_vars

(* What a piece of run() may do next.                                      *)
LEMMA StepsGo ==
    ASSUME NEW w \in Workflows, Submit(w) \/ LoopStep(w) \/ Consent(w)
    PROVE  \E l \in Labels : GoTo(w, l) /\ Position(pc[w]) < Position(l)
<1> DEFINE Ahead(l) == l \in Labels /\ Position(pc[w]) < Position(l)
<1> SUFFICES \E l : Ahead(l) /\ GoTo(w, l)
  OBVIOUS
<1>1. CASE Submit(w)
  <2>1. Ahead("start") /\ GoTo(w, "start")
    BY <1>1 DEF Submit, Runs, Position, Labels, Suspended
  <2>. QED  BY <2>1
<1>13. CASE Construct(w) \/ Consent(w)
  <2>1. \A l \in {"ingest", "raised"} : Ahead(l)
    BY <1>13 DEF Construct, Consent, Runs, Position, Labels, OnLoop, Finished, Returned
  <2>2. Construct(w) => Ahead("consent")
    BY DEF Construct, Runs, Position, Labels, OnLoop
  <2> HIDE DEF Ahead
  <2>. QED  BY <1>13, <2>1, <2>2 DEF Construct, Consent
<1>2. CASE Ingest(w)
  <2>1. Ahead("input_guardrails") /\ Ahead("returned") /\ Ahead("raised")
    BY <1>2 DEF Ingest, Runs, Position, Labels, OnLoop, Finished, Returned
  <2>2. GoTo(w, "input_guardrails") \/ GoTo(w, "returned") \/ GoTo(w, "raised")
    BY <1>2, StepSucceedsGoes, StepFailsGoes DEF Ingest
  <2> HIDE DEF Ahead
  <2>. QED  BY <2>1, <2>2
<1>3. CASE InputGuardrails(w)
  <2>1. Ahead("plan") /\ Ahead("returned") /\ Ahead("raised")
    BY <1>3 DEF InputGuardrails, Runs, Position, Labels, OnLoop, Finished, Returned
  <2>2. GoTo(w, "plan") \/ GoTo(w, "returned") \/ GoTo(w, "raised")
    BY <1>3, BlockedGoes DEF InputGuardrails
  <2> HIDE DEF Ahead
  <2>. QED  BY <2>1, <2>2
<1>4. CASE Plan(w)
  <2>1. /\ Ahead("summarising") /\ Ahead("drafting") /\ Ahead("output_guardrails")
        /\ Ahead("returned") /\ Ahead("raised")
    BY <1>4 DEF Plan, Runs, Position, Labels, OnLoop, Suspended, Finished, Returned
  <2>2. \/ GoTo(w, "summarising") \/ GoTo(w, "drafting") \/ GoTo(w, "output_guardrails")
        \/ GoTo(w, "returned") \/ GoTo(w, "raised")
    BY <1>4, StepFailsGoes DEF Plan
  <2> HIDE DEF Ahead
  <2>. QED  BY <2>1, <2>2
<1>5. CASE Summarised(w)
  <2>1. /\ Ahead("drafting") /\ Ahead("output_guardrails")
        /\ Ahead("returned") /\ Ahead("raised")
    BY <1>5 DEF Summarised, Replied, Runs, Position, Labels, OnLoop, Suspended, Finished, Returned
  <2>2. \/ GoTo(w, "drafting") \/ GoTo(w, "output_guardrails")
        \/ GoTo(w, "returned") \/ GoTo(w, "raised")
    BY <1>5, StepFailsGoes DEF Summarised, Replied
  <2> HIDE DEF Ahead
  <2>. QED  BY <2>1, <2>2
<1>6. CASE Drafted(w)
  <2>1. /\ Ahead("reflecting") /\ Ahead("output_guardrails")
        /\ Ahead("returned") /\ Ahead("raised")
    BY <1>6 DEF Drafted, Replied, Runs, Position, Labels, OnLoop, Suspended, Finished, Returned
  <2>2. \/ GoTo(w, "reflecting") \/ GoTo(w, "output_guardrails")
        \/ GoTo(w, "returned") \/ GoTo(w, "raised")
    BY <1>6, StepFailsGoes DEF Drafted, Replied
  <2> HIDE DEF Ahead
  <2>. QED  BY <2>1, <2>2
<1>7. CASE Reflected(w)
  <2>1. Ahead("output_guardrails") /\ Ahead("returned") /\ Ahead("raised")
    <3>1. pc[w] = "reflecting"
      BY <1>7 DEF Reflected, Runs
    <3>. QED  BY <3>1 DEF Position, Labels, OnLoop, Finished, Returned
  <2>2. GoTo(w, "output_guardrails") \/ GoTo(w, "returned") \/ GoTo(w, "raised")
    BY <1>7, StepSucceedsGoes, StepFailsGoes DEF Reflected
  <2> HIDE DEF Ahead
  <2>. QED  BY <2>1, <2>2
<1>8. CASE OutputGuardrails(w)
  <2>1. Ahead("request_approval") /\ Ahead("returned") /\ Ahead("raised")
    BY <1>8 DEF OutputGuardrails, Runs, Position, Labels, OnLoop, Finished, Returned
  <2>2. GoTo(w, "request_approval") \/ GoTo(w, "returned") \/ GoTo(w, "raised")
    BY <1>8, BlockedGoes, AdvanceGoes DEF OutputGuardrails
  <2> HIDE DEF Ahead
  <2>. QED  BY <2>1, <2>2
<1>9. CASE RequestApproval(w)
  <2>1. Ahead("parked") /\ Ahead("returned") /\ Ahead("raised")
    BY <1>9 DEF RequestApproval, Runs, Position, Labels, OnLoop, Suspended, Finished, Returned
  <2>2. GoTo(w, "parked") \/ GoTo(w, "returned") \/ GoTo(w, "raised")
    BY <1>9, StepFailsGoes DEF RequestApproval
  <2> HIDE DEF Ahead
  <2>. QED  BY <2>1, <2>2
<1>10. CASE Resume(w)
  <2>1. Ahead("sending") /\ Ahead("returned") /\ Ahead("raised")
    BY <1>10 DEF Resume, Runs, Position, Labels, OnLoop, Suspended, Finished, Returned
  <2>2. GoTo(w, "sending") \/ GoTo(w, "returned") \/ GoTo(w, "raised")
    BY <1>10, AdvanceGoes DEF Resume
  <2> HIDE DEF Ahead
  <2>. QED  BY <2>1, <2>2
<1>11. CASE Send(w)
  <2>1. Ahead("auditing") /\ Ahead("returned") /\ Ahead("raised")
    BY <1>11 DEF Send, Runs, Position, Labels, OnLoop, Finished, Returned
  <2>2. GoTo(w, "auditing") \/ GoTo(w, "returned") \/ GoTo(w, "raised")
    BY <1>11, StepSucceedsGoes, StepFailsGoes DEF Send
  <2> HIDE DEF Ahead
  <2>. QED  BY <2>1, <2>2
<1>12. CASE Audit(w)
  <2>1. Ahead("returned") /\ Ahead("raised")
    BY <1>12 DEF Audit, Runs, Position, Labels, OnLoop, Finished, Returned
  <2>2. GoTo(w, "returned") \/ GoTo(w, "raised")
    BY <1>12, StepSucceedsGoes DEF Audit
  <2> HIDE DEF Ahead
  <2>. QED  BY <2>1, <2>2
<1>. QED  BY <1>1, <1>2, <1>3, <1>4, <1>5, <1>6, <1>7, <1>8, <1>9, <1>10, <1>11, <1>12, <1>13
     DEF LoopStep

(* However many runs share the loop, and whatever fails, crashes or is     *)
(* answered twice, each comes by a program point once at most: it asks     *)
(* the LLM for each reply once, a human once and Gmail once.  What         *)
(* RunReachesReviewerOrEnds adds is that it does not stand still           *)
(* (orchestrator.py run).                                                  *)
THEOREM RunsOnlyGoForward == Spec => RunsGoForward
<1> DEFINE Forward(w) == /\ pc'[w] # pc[w] => Position(pc[w]) < Position(pc'[w])
                         /\ LoopStep(w) => pc'[w] # pc[w]
<1>1. ASSUME IInv, NEW w \in Workflows, NEW l \in Labels, GoTo(w, l),
             Position(pc[w]) < Position(l)
      PROVE  /\ pc'[w] = l /\ pc'[w] # pc[w]
             /\ \A x \in Workflows \ {w} : pc'[x] = pc[x]
  <2>1. pc \in [Workflows -> Labels]
    BY <1>1 DEF IInv, TypeOK
  <2>2. \A i \in {Position(k) : k \in Labels} : ~(i < i)
    BY DEF Position
  <2>3. pc'[w] = l /\ \A x \in Workflows \ {w} : pc'[x] = pc[x]
    BY <1>1, <2>1 DEF GoTo
  <2>. QED  BY <1>1, <2>1, <2>2, <2>3
<1>2. ASSUME IInv, [Next]_vars, NEW w \in Workflows PROVE Forward(w)
  <2>1. ASSUME LoopStep(w) PROVE pc'[w] # pc[w]
    BY <1>1, <1>2, <2>1, StepsGo
  <2>2. ASSUME NEW x \in Workflows, Submit(x) \/ LoopStep(x) \/ Consent(x), pc'[w] # pc[w]
        PROVE  Position(pc[w]) < Position(pc'[w])
    BY <1>1, <1>2, <2>2, StepsGo
  <2>3. ASSUME Close \/ Crash, pc'[w] # pc[w]
        PROVE  Position(pc[w]) < Position(pc'[w])
    <3>1. /\ pc'[w] \in {"cancelled", "lost"} /\ pc[w] \in Suspended \cup OnLoop
      BY <2>3 DEF Close, Crash, Ends
    <3>. QED  BY <3>1 DEF Position, Suspended, OnLoop
  <2>4. ASSUME \/ Restart \/ UNCHANGED vars
               \/ \E x \in Workflows, r \in Reviewers : HumanDecides(x, r)
        PROVE  pc'[w] = pc[w]
    BY <2>4 DEF Restart, vars, HumanDecides
  <2>. QED  BY <1>2, <2>1, <2>2, <2>3, <2>4 DEF Next
<1>3. IInv /\ [Next]_vars => \A w \in Workflows : Forward(w)
  BY <1>2
<1>. QED  BY <1>3, SpecIInv, PTL DEF Spec, RunsGoForward
=============================================================================
