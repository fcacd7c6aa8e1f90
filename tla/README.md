# A verification project for the AI e-mail assistant harness

The program drafts replies to Gmail threads with an LLM and sends one only
after a human approved it. This directory holds TLA+ models of the system, the
TLC runs that check them, and TLAPS proofs of the main results.
Paths below are relative to the repository (`src/...`, `docs/...`).

## 1. Inventory

| Part | State | Operations | Why it is hard | Module |
| --- | --- | --- | --- | --- |
| Workflow state machine, `src/workflow/engine/state_machine.py` | `_state`, `_history` | `transition()` | a table, a set of terminal states and a comment that do not agree | `WorkflowStateMachine` |
| Orchestrator and steps, `src/workflow/engine/orchestrator.py`, `src/workflow/steps/` | one `WorkflowContext`, one machine per run | `run()`, `_run_step()`, five `execute()` | every step can fail, the status lives in two places, some returns skip the audit | `EmailWorkflow` |
| Approval gate, `src/approval/gate.py` | `_pending`: draft id -> (record, draft, thread, future) | `wait_for_decision`, `approve`, `reject` | a record shared by a callback and a suspended coroutine; no time limit; lost with the process | `ApprovalGate` |
| GUI loop, `src/gui/bridge.py`, `gateway.py`, `session.py` | event loop, session | `submit`, `call`, `tick`, `stop` | decisions fall between two ticks; closing cancels everything; an orchestrator is constructed on the loop, and that may wait for a browser | `EmailWorkflow` |
| Approval queue on the screen, `src/gui/views/queue_view.py` | rows, selection, detail pane, buttons | `refresh`, `_show_selected`, `_decide` | two timers, a queued virtual event and a click, each looking at an older state than the next | `QueueView` |
| Drafting agent, `src/agents/email_writing_agent/agent.py` | the draft | `run` | suspends on up to three LLM calls; stores the Gmail draft before the OUTPUT rails run | `EmailWorkflow` (its suspensions, failures and draft) |
| Gmail, `src/integrations/gmail/` | clients, token file; Gmail itself is external | construct a client, create and send a draft | each client decides by itself whether it is a mock, and may ask for a consent; the token file is shared and rewritten in place; an effect can happen and its answer be lost | `GmailConnection`, `EmailWorkflow` |
| Guardrails, `src/guardrails/` | rail registry, policy, verdict cache | pipelines of rails | folding, short circuits, fail modes, overrides, judges that suspend and share a cache | `GuardrailRails`, `GuardrailPipeline` |
| Tools and permissions, `src/tools/`, `src/permissions/` | role of a task (context variables), registry | `call`, `acting_as` | the role is held across awaits; a refusal is audited by a task of its own | `ToolAccess` |
| Audit log, `src/audit/logger.py` | JSONL file | `log`, `read_recent` | half-written lines, failing writes | `AuditLog`, `ToolAccess` |
| LLM clients, `src/infrastructure/llm/` | - | `generate` with retries and a fallback chain | time-outs, back-off, missing keys and packages multiply | `LLMClient` |
| Command line, `src/cli/`, `run_demo.py` | a process, and so a gate, of its own | `process`, `demo`, `review`, `approve`, `reject` | `approve` in a second process looks into an empty gate | `CommandLine` |
| Task queue, `src/infrastructure/queue/task_queue.py` | queue, workers | `enqueue`, `stop_workers` | no module imports it | - |

How they interact: a view submits `gateway.start_workflow()` to the loop, which
constructs an orchestrator and its Gmail clients;
`run()` calls the steps one after the other; the agent calls tools through the
registry and its proxy; `ApprovalStep` parks the coroutine on a future of the
gate; a button calls `gateway.approve()` between two ticks of the loop, which
writes the record and resolves the future; in a later tick the coroutine reads
the record, `SendStep` has Gmail send the stored draft, `AuditStep` writes the
closing entry. One thread runs all of it, so a coroutine that does not suspend
is not interrupted - except by the death of the process.

PROJECT.json lists every component with what is modelled of it, and under
`hazards` what is hard to test, each at its line with the properties for it.

## 2. Plan

Modules, in the order of their importance.

1. `WorkflowStates`, `WorkflowStateMachine`, proofs. *(done)*
2. `ApprovalGate`, proofs. *(done)*
3. `HumanInTheLoop` (abstract), `EmailWorkflow` (composes 1, 2, the loop,
   Gmail and the process), invariance proofs, refinement. *(done)*
4. `GuardrailRails`, `GuardrailPipeline`: the rails, their fail modes, the policy
   file, the judges and their shared cache; proofs. *(done)*
5. `AuditLog`, `ToolAccess`: the role of a task across awaits, authorization, one
   audit event per outcome, the audit of a denial, the file; proofs. *(done)*
6. `LLMClient`: retries, back-off, fallback chain; proofs. *(done)*
7. `QueueView` (above `ApprovalGate`), proofs; `GmailConnection` and
   `CommandLine` (one gate and one set of clients per process), proofs. *(done)*
8. Proofs of what counts and filters: the audit trail (`AuditTellsTheCalls`,
   `FailedWriteCostsOneEvent`, `RecentHasNoHoles`) and time (`AnswersInTime`).
   *(done)*
9. `EmailWorkflow` and `QueueView` implement `ApprovalGate`, whose theorems then
   hold under both. *(done)*
10. What liveness leaves to fairness: measures that every step of a call, of a
   guardrail stage and of a run lowers. *(done)*

Composition: `EmailWorkflow` and `QueueView` instantiate `ApprovalGate` and take
its actions as parts of theirs; `ToolAccess` extends `AuditLog`; `CommandLine`
extends `GmailConnection`; `GuardrailPipeline` extends `GuardrailRails`;
`EmailWorkflow` implements `HumanInTheLoop` and, like `QueueView`, `ApprovalGate`.

## 3. The modules and the code

**WorkflowStates** is the table of `state_machine.py` as constant operators.
`Transition(m, to)` is one call of `transition()` inside a piece of `run()`: a
refused call sets `raised` and further calls do nothing, as after an exception.

**WorkflowStateMachine** gives the machine its two fields and a caller that may
call `transition()` with anything. Its invariants are what the table alone
guarantees.

**ApprovalGate** has the keys of `_pending`, the state of each future (`none`,
`waiting`, `resolved`, `consumed`, `cancelled`), the shared record, and two
history variables: `answered` (decisions for which a caller got `True`) and
`returned` (what the coroutine got). `Decide` is the common body of `approve()`
and `reject()`: it finds the entry until the coroutine has run again, and writes
the record even if the future is already done. `Resume` is the rest of
`wait_for_decision()`. `CancelAll` is `AsyncBridge.stop()`.

**EmailWorkflow** is `run()` for a set of workflows. `pc` names where each run
is; `running` is the coroutine that holds the loop. A coroutine gives the loop
up only at the points in `Suspended`: before its first step, on an LLM reply
(`summarising`, `drafting`, `reflecting`) and on the gate (`parked`). All other
points are in `OnLoop`, and there nobody else moves, except that the process may
crash, and then what was already done outside (Gmail, the audit file) stays. One action is one
piece of `run()` between two points where a crash is told apart or the loop is
given up; the calls of `transition()` in it are nested `Transition`s.
`StepSucceeds` and `StepFails` are the two ways out of `_run_step()`.
`HumanDecides` is a button of the queue. (`Session.can_approve()` guards it; but
`bootstrap_session()`, `gateway.py:366-376`, gives the session no role, nothing sets one
later, and without a role the answer is always yes.)
`Construct` is the part of `start_workflow()` before `run()`: it builds the orchestrator
on the loop, and the first of its Gmail clients that finds no token opens the browser
(`auth.py:118`). At `consent` the coroutine holds the loop and waits for a human:
nobody else moves, neither another run nor the reviewer, until `Consent` or a crash.
`Close`, `Crash` and `Restart` are the end of the process and the next one.
Gmail and the LLM are external: Gmail stores or sends, and the answer arrives or
is lost; the LLM answers or fails. `ctx` has the fields of the context
the properties distinguish: `status`, whether `metadata["error"]` is set, the
injection flag, whether the guardrails escalated, `is_approved`; `watched` is history,
that `injection_escalation` looked at the draft. It need not: the policy may leave the
rail out, and an error of it is passed over; then a flagged run goes on with no escalation. `DashboardSays`
and `RunnerSays` are the lines the two front ends print of a run that is over:
one reads the context, the other the record. `PaneBadge` is the badge above the
Approve button.

**HumanInTheLoop** is the promise without the mechanism: a draft is worked on,
put under review, settled; a verdict can only be given under review; one e-mail
at most leaves, after settlement, and only for an approved draft.
`EmailWorkflow!Promise` instantiates it with `StageOf`, `VerdictOf`, `MailsOf`.

**GuardrailRails** holds the facts of `src/guardrails` that do not change in a
run: what `load_policy()` makes of a file (a file it cannot read, or with a
misspelt fail mode, is dropped whole), what is registered for each stage under a
policy, the fail mode of each class, and for every deterministic rail an operator
of its own with the verdict it gives to the facts of a thread or a draft
(its address, its text, a secret, personal data, an injection marker that is raw
or wrapped). Personal data and the marker are those of bodies, which is where the rails
look. A thread's headers are no part of what a rail sees; `MarkedHeaders` says which
threads have a marker there, and `ReadsRawMarker` what the agent makes of both.

**GuardrailPipeline** is `GuardrailPipeline.run()` for both stages of several
workflows. `todo` is the rest of the chain, `verdict` the folded result; `Check`
and `Raise` are the two ways a deterministic rail ends, `Fold` what the pipeline
does with the result. `Judge` runs a judge up to its LLM call, `Answered` and
`NoAnswer` are the return from `_ask()`; the cache is a sequence, least recently
used first. `Start` builds an orchestrator, and with it the process-wide registry
when it has not been built. `DraftIsWritten` is `run()` between the stages, `DraftFails` the end of a run whose
agent raises, for which there is no OUTPUT stage. The module
stands beside `EmailWorkflow`, which takes a verdict of a stage as a choice and
relies on `SuspicionForcesReview`: a verdict after a suspicion is not ALLOW where the
escalating rail was on duty (its watched runs). That this and
the rest of what a stage is taken for hold of the chains is the theorem `StagesKeepTheirContract`. Both
stages are on here; the two switches that skip them are constants of `EmailWorkflow`.
External: the LLM answers with a flag, or there is no usable answer in time.
`Fallible`, the rails that may raise, has no judge in it: what goes wrong in
a judge's check is caught there (`NoAnswer`).
A deterministic rail touches only what belongs to its own workflow, so one step
per rail adds no behaviour, although the loop is not given up between them.

**AuditLog** is the file as a value: a sequence of lines and whether the last one
is open. `Write` is `log()`, `CutShort` the ways a write can be interrupted (the
next event continues the line, and both are lost to `json.loads`), `ReadRecent`
the reader with Python's `lines[-limit:]`, which stops at the first unreadable line.

**ToolAccess** is the way of a call from `ToolRegistry.call()` through
`ToolProxy.call()`, `BaseTool.__call__` and `AuditMiddleware` to that file, for
several tasks on one loop. `role` is the context variable of each task, `blocks`
the `acting_as()` blocks the text puts it in. `CallUnknown`, `CallInvalid`,
`CallDenied`, `CallSuspends`, `CallCompletes` are the outcomes in the order the
code tests them; `BodyResumes` is the summarizer after its LLM reply. `denials`
are the tasks of `asyncio.create_task(self._audit_denied(...))` that have not run:
`WriteDenial` runs one. `Log` may fail and leave part of a line. `ProcessEnds`
cancels what is suspended. `calls`, `logged` and `lost` are histories.

**LLMClient** is one `generate()`: `settings` holds the provider, the keys, the
packages and `llm_max_retries`; `chain` the clients still to be tried. `pc` goes
through `FallbackLLMClient.generate()` (`PassesOver`, `ClientFails`, `EndOfChain`)
and `_with_retry()` (`FirstAttempt`, `Fails`, `BacksOff`); a client without key or
package makes a reply up (`HasNoSdk`, `MakesUp`). Time is counted in units of the
first back-off; `LimitReached` is the caller's own `wait_for` (the judges), `LoopStops` the
end of the loop: both throw `CancelledError`, which nothing here catches.

**QueueView** composes the gate with what is on the screen. `Refresh` is
`refresh()`, run by the poll, after a decision and after the dialog; `ClickRow` is
the reviewer, `ShowSelected` the handler of `<<TreeviewSelect>>`, which Tk calls
later; `Press` queues a click together with the draft its reviewer has before her
(`seen`); `Decide` is `_decide()` for the row that is selected when Tk handles the
click; `PressIsLost` a click on a button disabled meanwhile or with no row
selected. While the "Not pending" dialog is open Tk runs a loop inside
`_decide()`, so polls go on. Tk versions differ in whether deleting the selected
row announces it; `announces` is either. The run is kept as its stay at the gate;
the dashboard has one under way at a time.

**GmailConnection** is the construction of the clients of a process. Each
`GmailClient` decides by itself whether it is a mock, going
through `get_credentials()`: `LoadCredentials` looks for a token (`HasToken`) and begins the
interactive flow if there is none, `OpenBrowser` is a step later, whatever another
process has saved meanwhile; then the browser (`Consent`, `Refuse`),
`SaveToken` in place, `build()` (`Connects`, `BuildFails`). Two processes that save
together write over each other, and a longer token leaves its end behind. `granted` is history: whose
consent is in the file.

**CommandLine** adds the commands as processes: each constructs its clients, and
`process`, `demo` and `run_demo.py` run a workflow (`Ingest`, `Draft`, `Resume`,
`Send`), of which only what the process sees is kept. `PendingIn(p)` is the gate
of process p, and `Decide` the `approve`/`reject` commands looking into theirs.
`DriverPolls` is one look of `run_demo.py`.

`MC...` modules name the constants of the runs.

## 4. The runs

| Run | Bounds | Question |
| --- | --- | --- |
| `state_machine` | two machines, every call sequence (the table has no cycle, so there is no further bound; 361 states) | what the table alone guarantees, among it that a run cannot come back to a status |
| `approval_gate` | two drafts, two reviewers | every order of register, decide (also twice), resume, cancel |
| `email_workflow` | one workflow, two reviewers, both kinds of text, all guardrails on (5776 states) | the whole pipeline, the browser before it, its failures, closing, crashing, reopening; safety, liveness and the refinement |
| `two_workflows` | two workflows, one reviewer, INPUT guardrails switched off | the interleaving of two runs on one loop and one gate, which stays the gate of `ApprovalGate`, fairness included (`KeepsTheGate`; 206896 states) |
| `guardrail_pipeline` | one workflow, two threads, one with a marker in its headers, every draft or none, four policy files (none; judges on; misspelt; two rails off, fail modes swapped, no recipients), every deterministic rail may raise (44264 states) | what the two stages let through, and why they stop something |
| `shared_judges` | two workflows on one thread, two drafts, a cache of one entry, two policy files: judges on, or no OUTPUT rail at all (75629 states) | hits, misses, evictions and failures of the judges in any order |
| `tool_access` | two tasks, three tools and one unknown name, two roles, two calls, two open blocks, one failing write, one end of the process (871000 states) | roles across awaits; what the audit says of the calls; what a failing disk costs |
| `llm_client` | both providers, every combination of keys and packages, 0, 1 or 3 retries, a caller without limit and one whose limit falls into the attempts (6500 states) | the time a call takes and what an outcome means |
| `queue_view` | three drafts one after the other, two unhandled clicks (176000 states) | clicks against polls, redraws and resumed runs |
| `command_line` | two terminals, four machines, two looks of the driver, two processes started, one failure (706000 states, about two minutes) | gates, clients and the token file of several processes |

Why the bounds are enough. One workflow is enough for the properties that speak
of one run's own fields; two show that runs do not disturb each other. The code
treats all runs alike, and a third would add no new pair of steps; the proofs
cover every number. The dashboard disables its button while its run is under way,
but `start_workflow()` and the gate are built for several, and the guarantee
should not rest on a button. A cache of one entry makes each answer evict
another, which 512 entries do only in a long session. In `tool_access`, two calls
suffice for a refused call and another one to be in flight together, two blocks
for a nested one; one failing write followed by another leaves a line of two
events. In `queue_view`, three drafts allow two that left between polls and one that arrived.
In `command_line`, a driver that looks twice can miss on its first look and on
both; 100 looks add no other case. The four machines are the leaves of the
decision of a client: no libraries; a token in the environment; a broken one, which is
as good as none, with a client secret; none, without. In `two_workflows` the INPUT
guardrails are off because its three properties are about the gate and the loop, which
the flag and a block before the draft do not touch; `email_workflow` has them on.

What the main properties say. `NoDeadEnd`, `SentPassedEveryGate`, `NeverRevisited`: no calling order gets an
e-mail to SENT around a gate, none is stranded, and none goes through a status twice. `EveryMailWasApproved`
is the reason the harness exists and holds through lost answers, crashes and
changes of mind. `ReturnedContextAgrees`: the caller's copy of the status is
true. `ReportsAreTrue`: the dashboard and the terminal, which read different
objects, say the same and what happened. `KeepsPromise` and `KeepsTheGate` are the refinements.
`SuspicionIsOnRecord`: what the INPUT stage suspected stands in the gate's record when a human
decides, for the watched runs; the command line and the audit entry show it, the GUI does not (below).
`PassedDraftIsClean`, `BodiesAreNeutralised`, `SuspicionForcesReview`: what
the stages promise, with the exceptions spelled out (a rail off or raising in
fail-open mode), for bodies: personal data in a subject, or a marker in
a header, no rail looks for. `CacheIsSound`: whoever fills the cache in whatever order, a hit is an answer
the LLM gave to that question. `RoleFollowsBlocks`: a task is never under the role of
another or of a block it left. `AuditTellsTheCalls`: every finished call has its
one outcome event, under its caller. `FailedWriteCostsOneEvent`, `RecentHasNoHoles`: a torn line costs at most
the one event that shares it, and the audit view shows an unbroken piece of the
history. `OutcomeIsEarned`, `AnswersInTime`: an error or a made-up reply comes
only when it must, within a time the settings fix. `ClicksAreHonoured`: a click
decides the draft that was read, or nothing. `ConsentLasts`,
`MixedOnlyWhenDisturbed`: one saved consent does for all the clients of a process
unless another process wrote the file since, and a process has mock and real clients together only after a prompt
or a failure. `OnlyTheDriverDecides`, `PrintedOutcomeIsTrue`, `DriverEndsInTime`: what
the commands can and cannot do to a run, and that they tell the truth about it.

Runs that show a disagreement (each checks one documented claim):

| Run | Claim | What the code does |
| --- | --- | --- |
| `blocked_runs` | `docs/architecture/architecture.md:83` GUARDRAILS_FAILED --> TERMINATED | GUARDRAILS_FAILED is terminal, so the second `transition()` raises out of `run()` |
| `redacted_text` | `src/guardrails/rails/pii_redactor.py:6` | Gmail holds, and sends, the text from before the redaction |

Two more claims do not hold. Their formulas stand beside the others, and two configurations
that are no runs of PROJECT.json show a trace
(`tlc -config EscalationShown.cfg MCEmailWorkflow.tla`,
`tlc -config HeaderMarkers.cfg MCGuardrailPipeline.tla`):

| Formula | Claim | What the code does |
| --- | --- | --- |
| `EscalationIsShown` | `src/workflow/engine/orchestrator.py:109` "surface any escalation reasons to the human reviewer" | the gateway drops the escalations the gate lists (`gateway.py:281`), and an escalated draft has `guardrails_passed` (`orchestrator.py:116`), which the badge shows as "Guardrails passed" (`draft_vm.py:32`); the command line prints them |
| `AgentReadsNoRawMarker` | `docs/architecture/adr/0002-guardrails-layer.md:147` inbound markers are wrapped, so that the drafting LLM reads them as quoted data | the rail rewrites `body_plain` only (`prompt_injection.py:46`); senders and subjects are in `full_text` and in the prompt as they came (`email.py:89`, `agent.py:155`) |

Read while modelling, and not given a run, by part:

* State machine: `src/workflow/engine/state_machine.py:45` says any non-terminal state can go to
  ERROR or TERMINATED; APPROVED and SENT have neither edge.
  `docs/architecture/architecture.md:76` draws the wait in AWAITING_APPROVAL; the
  transition is made after the wait, so the machine waits in GUARDRAILS_PASSED, and the
  dashboard's hint to go and approve, triggered by a log line with that name
  (`src/gui/views/dashboard_view.py:71`), comes when the draft has been decided.
* Orchestrator: `docs/architecture/harness-concepts.md:78` has every run end with an
  audit record; failed and rejected runs return before `AuditStep` (`orchestrator.py:134`).
* Gate: `src/config/settings.py:79` names a time limit of an hour; nothing ends the
  wait in `gate.py:58`, which `docs/architecture/gui-gateway-contract.md:279` knows. `src/cli/app.py:181` "The email will NOT be sent": an approval in the same tick
  overwrites an accepted rejection (`gate.py:71`); the run then acts on the approval, as
  `EveryMailWasApproved` says.
* Approval screen: a click
  for which no row is selected any more does nothing and says nothing. A
  comment that was typed stays when another row is selected.
* Guardrails: `src/guardrails/result.py:61` counts PII among the rails that fail CLOSED;
  `PiiRedactorRail` is OPEN, and its own comment says why.
  `src/guardrails/registry.py:50` calls the registration idempotent; it looks at
  the OUTPUT list only, so with a policy that empties that list every
  orchestrator appends the INPUT rails again (`shared_judges` runs such a policy).
  `config/guardrails.example.yaml:24` says an empty `allowed_domains` falls back to
  the environment; `policy.py:164` makes it an empty list, which `policy.py:97`
  takes as configured, so that every recipient is external. One misspelt fail mode
  drops the whole file (`policy.py:206`). `llm_judge.py:10` judges identical inputs
  once; two workflows that ask before the first answer both ask (`llm_judge.py:138`).
* Tools and audit: `src/tools/base_tool.py:60` says an approval-bound tool cannot be called without
  a record; only `get_agent_tools()` looks at the flag, so that of the two defences in
  `OperatorIsConfined` the permission is the one that refuses. `models/audit_event.py:22` has one event per action; a
  refused call has two, an unknown tool and a cancelled call none, and a send that
  Gmail refuses is returned as a status and audited as SUCCESS. `acting_as()` can
  widen a role as well as narrow it. `read_recent(limit=0)` reads the whole file; if
  the newest line is torn, nothing before it is shown. `gateway.py:199` and `audit_vm.py:7` describe a
  defect of `read_recent()` that is no longer there.
* LLM: the Gemini clients do not get `LLM_REQUEST_TIMEOUT` and `LLM_MAX_RETRIES`; a
  client with a key but without its package answers with a made-up reply, also after
  another provider failed (`llm_client.py:120` reserves that for "no valid client");
  `max_retries = 0` is an error without an attempt.
* Gmail: `tools/generate_token.py:15` says the window freezes during `IngestStep`; the
  client that opens the browser is built before, in the constructor. A token is loaded
  without its expiry, so the refresh in `auth.py:75` is not reached. The file is rewritten in
  place. `detect_gmail_mode()` "mirrors the same decision tree" (`gateway.py:338`), but
  calls an unreadable token READY.
* Command line: `src/cli/app.py:85` "no credentials needed": `demo` is not looked at
  (`runner.py:52`), and with real clients the run fails on the thread's id. The branch
  that tells the user to run `email approve` (`runner.py:134`) is reached by no run. If the draft comes after
  the last look of `run_demo.py`, it waits for ever. With a mock client "Email sent!"
  is printed of an e-mail that no one sent.

**Fairness.** `EmailWorkflow`: `WF(LoopStep(w))`, which leaves `Consent` out. The pump runs the loop every 20 ms
(`src/gui/bridge.py:92`), a ready coroutine runs in the next iteration, and every LLM call
ends by its time-outs and bounded retries (`llm_client.py:71`). Weak fairness is
enough, because a coroutine that waits for the loop is enabled again as soon as
the holder gives it up. The holder gives it up after finitely many steps, with one
exception: the browser in `Construct` has no time limit and holds the loop. Nothing in
the code bounds that, so the promises of progress (`RunReachesReviewerOrEnds`,
`DecisionTakesEffect`, the fairness in `KeepsTheGate`) have a premise,
`PromptsAreAnswered`: again and again no run is at a browser. Without it each of them
fails, which is what `tools/generate_token.py` warns of. They count a cancelled run as
one that ended: a decision that was accepted just before the window closes has no other
effect, and there is no promise about how long a human takes.
`ApprovalGate` assumes the same of `Resume`, `GuardrailPipeline` of its steps,
`ToolAccess` of `WriteDenial` and of a suspended body. `LLMClient`: an
attempt ends by its time-out, a sleep by itself, a limit by its timer
(`WF(Proceeds)`). `QueueView`: the pump (`Leave`), the poll, and Tk's event queue
(`ShowSelected`; `PressIsLost \/ Decide`); nothing is assumed of the reviewer, of the
dialog's button or of a run that has not reached the gate. `CommandLine`: a
process goes on by itself except in the browser, and the driver looks on; an LLM reply may come
after its last look. Nowhere is anything assumed of humans, of closing or of crashes.

**Deadlock** is checked in `email_workflow`, `two_workflows`, `tool_access` and
the two runs of claims (the process can always end or go on). The others switch it
off, since what they model does stop: machines in terminal states, drafts that
are all decided, runs that are over, a call that returned, a sitting whose
drafts are through, a bounded number of processes.

**Mutants.** Every property of a passing run has a slip of the code, an operator
`Mut...` beside the definition it replaces, that breaks it.

## 5. What is proved

All for arbitrary sets (workflows, drafts, reviewers, machines, tasks, names, policy
files) and any value of the numeric constants, from the named assumptions of the
modules only (`GateAssumption`, `WorkflowAssumption`, `PipelineAssumption`,
`ToolAssumption`, `GarbledAssumption`, `ClientAssumption`, `QueueAssumption`,
`ConnectionAssumption`, `CommandAssumption`: model values distinct,
constants from their enumerations). Liveness is not proved anywhere.

* `WorkflowStateMachineProofs`: `TypeOK`, `SentPassedEveryGate`, `NoDeadEnd`,
  `NeverRevisited`. Each status gets a rank; the inductive
  invariant says that a history climbs in rank (`Climbs`) and holds exactly the
  statuses of the happy path up to the rank of the current state (`OnTrack`). The
  properties alone are not inductive: they do not tie the history to the current state.
* `ApprovalGateProofs`: `TypeOK`, `EntryMatchesFuture`, `ReturnedIsRecorded`,
  `RecordFrozen`. The invariants, with "a decided record has a reviewer and was answered"
  and "an unregistered draft is undecided", are inductive; `RecordFrozen` follows because a returned
  draft has no entry. The lemmas speak of `Behaviour`, `Spec` without its fairness, because that is
  what the modules above the gate are shown to implement.
* `EmailWorkflowProofs`: `TypeOK` and the safety invariants of
  `email_workflow` and `two_workflows`. `IInv` is `TypeOK` and, for each workflow, `Story(w)`: what
  the machine (`MachineAt`), the context (`ContextAt`), the outcome that is reported
  (`ReportAt`), the gate (`EntryAt`), Gmail and the audit trail (`MailAt`) may be at each
  program point. It is needed because, for instance, `EveryMailWasApproved` at
  `sending` depends on what the gate returned two steps earlier. There is one lemma
  per action; steps of another workflow are handled once, by the fact that they
  leave this workflow's fields alone.
  The last part has the two refinements. `Spec => KeepsPromise`: each action maps
  to `PutUnderReview`, `Decide`, `Settle`, `Mail` or a stutter, and `IInv` supplies what
  a step needs to know of its past. `WorkflowsDriveTheGate`: each step is one of
  `ApprovalGate` or none of its business (`Gate!Behaviour`, the specification without its
  fairness); closing, crashing and reopening are its `CancelAll`. From it
  `DecisionsStand` follows without another invariant: the theorems of
  `ApprovalGateProofs`, instantiated with the gate's variables of this module,
  say that a run gets a decision that was accepted and that the record stands.
  `RunsOnlyGoForward`, the safety half of `RunReachesReviewerOrEnds`: no failure, decision or new
  process takes a run back to a program point it has passed (`Position`).
* `GuardrailPipelineProofs`: `TypeOK`, `PassedDraftIsClean`,
  `BodiesAreNeutralised` (and, from it, that the agent reads no raw marker at all
  when no header holds one: that case is all that keeps `AgentReadsNoRawMarker` from holding), `SuspicionForcesReview`, `EscalationIsNotLost`,
  `BlockHasACause`, `CacheIsSound`. `IInv` ties each run to the chain it is in:
  the rails still to come are a rest of what the policy registers (`ChainAt`), a verdict
  other than ALLOW has a cause among those that ran (`CauseAt`), and what a rail
  that ran has established still holds for the e-mail (`MarkerAt`) and the draft (`OutputAt`), although
  later rails change both. The argument is one lemma on the shape of a step of a chain
  (`Ran`), used by the deterministic rails, the errors and the three outcomes of a judge.
  `StagesKeepTheirContract` is what `EmailWorkflow` takes a stage for when it runs it in one step:
  a flagged e-mail that passes needs approval (unless the rail is off duty), the OUTPUT stage
  leaves the flag alone and only redacts, verdicts never weaken. `RunsUseUpTheirWork` is the safety half of
  `EveryRunGetsAVerdict`: each run has a natural number of things left to do (`Work`), zero only when
  it is over or failed, which each of its steps lowers and no other run raises - also not one
  that builds the registry again, because by then that adds nothing to the OUTPUT chain.
* `ToolAccessProofs`: `TypeOK`, `RoleFollowsBlocks`, `OperatorIsConfined`,
  `AuditNamesTheCaller`, `AuditTellsTheCalls`, `FailedWriteCostsOneEvent`,
  `RecentHasNoHoles`. `RoleFollowsBlocks` needs to know what `Exit` will put
  back: each open block saved the role of the block around it (`NestedAt`). That an event names the caller needs
  that a task whose call is suspended is still where it made the call (`CallAt`).
  - `AuditTellsTheCalls` counts the events of a call with `SelectSeq`. Its inductive invariant
    `VerdictInv` says instead which events are where: none is twice among the
    written, the lost and those a writer still holds, and which ones a call has follows
    from its state (`VerdictAt`). Only the last lemma turns this into counts.
  - `FileInv` ties the file to the log: its whole lines are events in the order
    in which they were written (`Ordered`), an open last line belongs to no written
    event, and the written events without a line (`Missing`), with one more for an
    open line, are no more than the writes that failed. The credit for the open line
    is what makes it inductive: the event that will share the line is not lost yet.
  - `NoLimitShowsHoles` is for every integer limit. `ReadRecent` stops at the first bad line
    of a suffix; what it returns is characterised once (`ReadRecentFacts`), and that no event
    between two shown ones is left out needs the order of the file (`NewestHaveNoHoles`).
    Where an induction over the file seems to be called for, the proofs take the least index with a property
    (`LeastOf`) instead. That a line cut short is no event is assumed of the
    constant `Garbled` (`GarbledAssumption`).
* `LLMClientProofs`: `TypeOK`, `OutcomeIsEarned`, `AnswersInTime`. The chain is a rest of the
  router's (`ChainAt`), the attempts of its first client follow the loop counter
  (`PresentAt`), and whoever is behind had no key or failed (`BehindAt`).
  `AnswersInTime` needs `TimeInv`: while a call goes on, what has elapsed is at most what
  the clients behind may take and what the present one has taken by its counter; only
  a client with a key takes time. The sum of the back-offs is in closed form, 2^n - 1
  (`PowerOfTwo`; that a function with this recursion exists is a lemma,
  `RecursionHasASolution`, and not taken for granted from its definition). `CallsMakeProgress` is the
  safety half of `CallEnds`: every step uses up some of the natural number `Work`.
* `QueueViewProofs`: `TypeOK`, `ClicksAreHonoured`, and as in `EmailWorkflowProofs`
  the refinement `ViewDrivesTheGate` and what follows, `ViewDecisionsStand`. Buttons that can be clicked
  belong to the draft beside the list and, unless a redraw is due, to the selected row or none (`PaneFollows`); until a
  click is handled, what its reviewer saw stays selected or nothing is
  (`ClickStands`); a listed draft waits or has been decided (`Listed`).
* `CommandLineProofs`: `TypeOK`, `MixedOnlyWhenDisturbed`, `ConsentLasts`,
  `OnlyTheDriverDecides`, `PrintedOutcomeIsTrue`. That clients are of one kind holds because
  an undisturbed process has mocks only for a reason no process can remove: libraries
  missing, or neither a token nor the client secret without which nobody writes one
  (`ClientsAt`; `AuthAt` says that who is at the browser has both libraries and secret).
  That a consent lasts holds because the file is a whole token as long as nobody has opened it
  since the process saved it (`GrantedAt`), whoever else is at a browser by then.
  `RunAt` ties the decision, what was sent and what was printed to the stage of a run.

Some of these are in no run of their own: the type invariants,
`EntryMatchesFuture`, `AuditNamesTheCaller`. TLC checked each before its proof was begun.

Only model-checked: liveness (`AnswerIsDelivered`, `RunReachesReviewerOrEnds`,
`DecisionTakesEffect`, `EveryRunGetsAVerdict`, `RefusalIsRecorded`, `CallEnds`,
`PendingIsOffered`, `StalePaneGoes`, `DriverEndsInTime`, and the fairness in `KeepsTheGate`),
which rests on fairness and ENABLED.
Every invariant and action property of a run is a theorem.

## 6. Not modelled, and why

* The task queue: no module of the program imports it, so no order of its calls
  is the program's. Its one hazard, `stop_workers()` joining a queue without
  workers, can be met by no run of the program.
* The cache client, the file store and the database session have no caller.
* The text of drafts, prompts, MIME and regular expressions: data no property
  distinguishes, beyond the facts the rails look for.
* The opt-in LLM judges suspend inside a guardrail stage. `EmailWorkflow` has
  them off, as by default, and so runs a stage without giving up the loop;
  `GuardrailPipeline` has them on.
* The audit log's lock is never contended: its holder does not suspend while it
  holds it.
* Foreign threads: `assert_loop_thread()` refuses them, and the program starts none.
* YAML syntax, argparse flags, the commands `audit` and `config` (they read and
  print), themes and layout, terminal display, configuration reading, log
  formatting, and the packages that are empty (`api`, `memory`, `prompts`,
  `services`, `workflow/triggers`).
