-------------------------- MODULE GuardrailPipeline --------------------------
(***************************************************************************)
(* src/guardrails/pipeline.py and llm_judge.py: the INPUT and the OUTPUT   *)
(* stage of several workflows on one event loop.  Each stage is a chain of *)
(* rails; a judge suspends its workflow until the LLM answers; all judges  *)
(* share one bounded cache.  The rails are registered by the first         *)
(* orchestrator that is built and kept by the process.                     *)
(*                                                                         *)
(* A deterministic rail touches only the state of its own workflow, so     *)
(* that the chain is split into one step per rail adds no behaviour.       *)
(* External: the LLM behind the judges, and the drafting agent.            *)
(***************************************************************************)
EXTENDS GuardrailRails, FiniteSets, SequencesExt

CONSTANTS Runs,        \* workflows
          EmailIds,    \* contents of inbound threads
          MarkedHeaders,  \* those with a marker in a sender or a subject
          Drafts,      \* drafts the agent may write
          Files,       \* policy files the process may be started with
          Fallible,    \* deterministic rails whose check() may raise
          MaxCache     \* _JudgeCache maxsize

ASSUME PipelineAssumption ==
    /\ MarkedHeaders \subseteq EmailIds
    /\ Drafts \subseteq Draft
    /\ \A f \in Files : /\ f.readable \in BOOLEAN /\ f.recipients \in Recipients
                         /\ DOMAIN f.rails \subseteq Rails
                         /\ \A r \in DOMAIN f.rails : f.rails[r] \in Toggles
    /\ Fallible \subseteq Rails \ Judges
    /\ MaxCache \in Nat \ {0}

VARIABLES
    file,       \* the policy file
    policy,     \* get_policy(): loaded once
    llm,        \* is an LLM configured (an API key)
    registry,   \* guardrail_registry._by_stage
    stage,      \* of each run: "new", "INPUT", "OUTPUT", "over", or "failed"
    todo,       \* the rails that have not been run in this stage
    verdict,    \* outcome.final_verdict of this stage
    asking,     \* the run is suspended on a judge's LLM call
    email,      \* the inbound thread as it is now
    flag,       \* metadata[INJECTION_FLAG]
    draft,      \* the draft as it is now
    raised,     \* history: the rails that raised
    suspected,  \* history: did the intent judge suspect an injection
    cache,      \* judge_cache: entries, least recently used first
    judged      \* history: what the LLM answered, in order

vars == <<file, policy, llm, registry, stage, todo, verdict, asking, email, flag,
          draft, raised, suspected, cache, judged>>

NoDraft == [to |-> "missing", text |-> "no_body", secret |-> FALSE, pii |-> FALSE]

Init == /\ file \in Files
        /\ policy = LoadPolicy(file)
        /\ llm \in BOOLEAN
        /\ registry = [s \in Stages |-> <<>>]
        /\ stage = [r \in Runs |-> "new"]
        /\ todo = [r \in Runs |-> <<>>]
        /\ verdict = [r \in Runs |-> "ALLOW"]
        /\ asking = [r \in Runs |-> FALSE]
        /\ email \in [Runs -> {e \in Emails(EmailIds) : e.marker # "wrapped"}]
        /\ flag = [r \in Runs |-> FALSE]
        /\ draft = [r \in Runs |-> NoDraft]
        /\ raised = [r \in Runs |-> {}]
        /\ suspected = [r \in Runs |-> FALSE]
        /\ cache = <<>>
        /\ judged = <<>>

-----------------------------------------------------------------------------
(* The registry. *)

(* build_default_guardrails(): built unless the OUTPUT list is not empty.  *)
BuildDefaultGuardrails ==
    registry' = IF registry["OUTPUT"] # <<>> THEN registry
                ELSE [s \in Stages |-> registry[s] \o Registered(policy)[s]]

(* A workflow starts: its own orchestrator is built, and copies the chains. *)
(* (The OUTPUT chain does not change once it is built, so DraftIsWritten   *)
(* may read the registry instead of the copy.)                             *)
Start(r) ==
    /\ stage[r] = "new"
    /\ BuildDefaultGuardrails
    /\ stage' = [stage EXCEPT ![r] = "INPUT"]
    /\ todo' = [todo EXCEPT ![r] = registry'["INPUT"]]
    /\ UNCHANGED <<file, policy, llm, verdict, asking, email, flag, draft, raised, suspected, cache, judged>>

-----------------------------------------------------------------------------
(* The chain. *)

(* The rail in turn.                                                       *)
InTurn(r, rail) == ~asking[r] /\ todo[r] # <<>> /\ Head(todo[r]) = rail

(* A result is folded into the outcome, and a block ends the stage.        *)
Fold(r, v) ==
    /\ verdict' = [verdict EXCEPT ![r] = Strictest(@, v)]
    /\ todo' = [todo EXCEPT ![r] = IF v = "BLOCK" THEN <<>> ELSE Tail(@)]

(* The rail wraps what it finds in the bodies, and in nothing else.        *)
Wrapped(r) == [email EXCEPT ![r].marker = Neutralised(@)]

(* check() of a deterministic rail, with what it does to the payload.      *)
Check(r, rail) ==
    /\ InTurn(r, rail)
    /\ rail \notin Judges
    /\ LET v == VerdictOf(rail, policy, email[r], draft[r], flag[r]) IN
       /\ Fold(r, v)
       /\ email' = IF rail = "prompt_injection" THEN Wrapped(r) ELSE email
       /\ flag' = [flag EXCEPT ![r] = @ \/ (rail = "prompt_injection" /\ v = "TRANSFORM")]
       /\ draft' = [draft EXCEPT ![r].pii = @ /\ rail # "pii_redactor"]
    /\ UNCHANGED <<file, policy, llm, registry, stage, asking, raised, suspected, cache, judged>>

(* Slip: an error of a rail is always ignored.                             *)
MutRaiseIgnored(r, rail) ==
    /\ InTurn(r, rail)
    /\ rail \in Fallible
    /\ Fold(r, "ALLOW")
    /\ raised' = [raised EXCEPT ![r] = @ \cup {rail}]
    /\ UNCHANGED <<file, policy, llm, registry, stage, asking, email, flag, draft, suspected,
                   cache, judged>>

(* check() raises, for instance on a replacement text of the policy that   *)
(* re.subn() refuses: the fail mode decides.  By then the injection rail   *)
(* may have wrapped what it found in some messages of the thread; the flag *)
(* is not set.                                                             *)
Raise(r, rail) ==
    /\ InTurn(r, rail)
    /\ rail \in Fallible
    /\ Fold(r, IF FailModeOf(policy, rail) = "CLOSED" THEN "BLOCK" ELSE "ALLOW")
    /\ raised' = [raised EXCEPT ![r] = @ \cup {rail}]
    /\ email' \in {email, IF rail = "prompt_injection" THEN Wrapped(r) ELSE email}
    /\ UNCHANGED <<file, policy, llm, registry, stage, asking, flag, draft, suspected, cache,
                   judged>>

-----------------------------------------------------------------------------
(* The judges. *)

(* _cache_key(): the judge and the text it is shown, that is the thread    *)
(* and, in the OUTPUT stage, the body of the draft.                        *)
Key(r, rail) == <<rail, email[r], [draft[r] EXCEPT !.to = "missing"]>>
NothingToJudge(r, rail) == rail = "grounding_rail" /\ draft[r].text = "no_body"

Cached(key) == {i \in 1..Len(cache) : cache[i].key = key}
Answer(key) == cache[CHOOSE i \in Cached(key) : TRUE].flag
Others(key) == IF Cached(key) = {} THEN cache
               ELSE RemoveAt(cache, CHOOSE i \in Cached(key) : TRUE)

(* _JudgeCache.set(), and get() of a hit, which moves it to the end.       *)
Store(key, f) ==
    LET s == Append(Others(key), [key |-> key, flag |-> f]) IN
    IF Len(s) > MaxCache THEN Tail(s) ELSE s

(* _interpret(): a judge escalates or allows; the intent judge also raises *)
(* the flag of the workflow.                                               *)
Interpret(r, rail, f) ==
    /\ Fold(r, IF f THEN "REQUIRE_APPROVAL" ELSE "ALLOW")
    /\ flag' = [flag EXCEPT ![r] = @ \/ (f /\ rail = "injection_intent")]
    /\ suspected' = [suspected EXCEPT ![r] = @ \/ (f /\ rail = "injection_intent")]

(* check() up to the LLM call: no LLM, no text, a hit, or a suspension.    *)
Judge(r, rail) ==
    /\ InTurn(r, rail)
    /\ rail \in Judges
    /\ LET key == Key(r, rail) IN
       \/ /\ ~llm \/ NothingToJudge(r, rail)
          /\ Fold(r, "ALLOW")
          /\ UNCHANGED <<asking, flag, suspected, cache>>
       \/ /\ llm /\ ~NothingToJudge(r, rail)
          /\ Cached(key) # {}
          /\ Interpret(r, rail, Answer(key))
          /\ cache' = Store(key, Answer(key))
          /\ UNCHANGED asking
       \/ /\ llm /\ ~NothingToJudge(r, rail)
          /\ Cached(key) = {}
          /\ asking' = [asking EXCEPT ![r] = TRUE]
          /\ UNCHANGED <<todo, verdict, flag, suspected, cache>>
    /\ UNCHANGED <<file, policy, llm, registry, stage, email, draft, raised, judged>>

(* The LLM answers.                                                        *)
Answered(r, rail, f) ==
    /\ asking[r]
    /\ rail = Head(todo[r])
    /\ asking' = [asking EXCEPT ![r] = FALSE]
    /\ Interpret(r, rail, f)
    /\ cache' = Store(Key(r, rail), f)
    /\ judged' = Append(judged, [key |-> Key(r, rail), flag |-> f])
    /\ UNCHANGED <<file, policy, llm, registry, stage, email, draft, raised>>

(* Slips: a failure is remembered as a clean bill; the judge asks again    *)
(* and again; its failure blocks.                                          *)
MutNoAnswerCached(r) ==
    /\ asking[r]
    /\ asking' = [asking EXCEPT ![r] = FALSE]
    /\ Fold(r, "ALLOW")
    /\ cache' = Store(Key(r, Head(todo[r])), FALSE)
    /\ UNCHANGED <<file, policy, llm, registry, stage, email, flag, draft, raised, suspected, judged>>

MutNoAnswerAsksAgain(r) ==
    /\ asking[r]
    /\ asking' = [asking EXCEPT ![r] = FALSE]
    /\ UNCHANGED <<file, policy, llm, registry, stage, todo, verdict, email, flag,
                   draft, raised, suspected, cache, judged>>

MutNoAnswerBlocks(r) ==
    /\ asking[r]
    /\ asking' = [asking EXCEPT ![r] = FALSE]
    /\ Fold(r, "BLOCK")
    /\ UNCHANGED <<file, policy, llm, registry, stage, email, flag, draft, raised, suspected,
                   cache, judged>>

(* A time-out, an error or an unusable answer: the judge allows.           *)
NoAnswer(r) ==
    /\ asking[r]
    /\ asking' = [asking EXCEPT ![r] = FALSE]
    /\ Fold(r, "ALLOW")
    /\ UNCHANGED <<file, policy, llm, registry, stage, email, flag, draft, raised, suspected, cache, judged>>

-----------------------------------------------------------------------------
(* Between the stages (orchestrator.py:76-118). *)

StageOver(r) == stage[r] \in Stages /\ todo[r] = <<>> /\ ~asking[r]

(* Slip: the OUTPUT stage gets a context of its own.                       *)
MutDraftFreshContext(r) ==
    /\ stage[r] = "INPUT" /\ StageOver(r) /\ verdict[r] # "BLOCK"
    /\ \E d \in Drafts : draft' = [draft EXCEPT ![r] = d]
    /\ stage' = [stage EXCEPT ![r] = "OUTPUT"]
    /\ todo' = [todo EXCEPT ![r] = registry["OUTPUT"]]
    /\ verdict' = [verdict EXCEPT ![r] = "ALLOW"]
    /\ flag' = [flag EXCEPT ![r] = FALSE]
    /\ UNCHANGED <<file, policy, llm, registry, asking, email, raised, suspected, cache, judged>>

(* The INPUT stage let the e-mail pass, the agent wrote a draft, and the   *)
(* OUTPUT stage begins with the same context.  Only a block of the INPUT   *)
(* outcome counts.                                                         *)
DraftIsWritten(r) ==
    /\ stage[r] = "INPUT" /\ StageOver(r) /\ verdict[r] # "BLOCK"
    /\ \E d \in Drafts : draft' = [draft EXCEPT ![r] = d]
    /\ stage' = [stage EXCEPT ![r] = "OUTPUT"]
    /\ todo' = [todo EXCEPT ![r] = registry["OUTPUT"]]
    /\ verdict' = [verdict EXCEPT ![r] = "ALLOW"]
    /\ UNCHANGED <<file, policy, llm, registry, asking, email, flag, raised, suspected, cache,
                   judged>>

(* The agent raises: run() ends in ERROR, and no rail sees a draft.        *)
DraftFails(r) ==
    /\ stage[r] = "INPUT" /\ StageOver(r) /\ verdict[r] # "BLOCK"
    /\ stage' = [stage EXCEPT ![r] = "failed"]
    /\ UNCHANGED <<file, policy, llm, registry, todo, verdict, asking, email, flag,
                   draft, raised, suspected, cache, judged>>

(* run() has the verdict: the run is blocked, or goes to the reviewer.     *)
Conclude(r) ==
    /\ StageOver(r)
    /\ stage[r] = "OUTPUT" \/ verdict[r] = "BLOCK"
    /\ stage' = [stage EXCEPT ![r] = "over"]
    /\ UNCHANGED <<file, policy, llm, registry, todo, verdict, asking, email, flag,
                   draft, raised, suspected, cache, judged>>

Step(r) == \/ \E rail \in Rails : Check(r, rail) \/ Raise(r, rail) \/ Judge(r, rail)
           \/ \E rail \in Judges, f \in BOOLEAN : Answered(r, rail, f)
           \/ NoAnswer(r) \/ DraftIsWritten(r) \/ DraftFails(r) \/ Conclude(r)

Next == \E r \in Runs : Start(r) \/ Step(r)

(* A stage that has begun goes on: the loop is pumped, and a judge waits   *)
(* for its LLM under a hard time-out (llm_judge.py:151).                   *)
Fairness == \A r \in Runs : WF_vars(Step(r))

Spec == Init /\ [][Next]_vars /\ Fairness
-----------------------------------------------------------------------------
(* What must hold. *)

TypeOK ==
    /\ policy \in {LoadPolicy(f) : f \in Files}
    /\ llm \in BOOLEAN
    /\ registry \in [Stages -> Seq(Rails)]
    /\ stage \in [Runs -> Stages \cup {"new", "over", "failed"}]
    /\ todo \in [Runs -> Seq(Rails)]
    /\ verdict \in [Runs -> Verdicts]
    /\ asking \in [Runs -> BOOLEAN]
    /\ email \in [Runs -> Emails(EmailIds)]
    /\ flag \in [Runs -> BOOLEAN]
    /\ draft \in [Runs -> Draft]
    /\ raised \in [Runs -> SUBSET Rails]
    /\ suspected \in [Runs -> BOOLEAN]
    /\ cache \in Seq([key : Judges \X Emails(EmailIds) \X Draft, flag : BOOLEAN])
    /\ judged \in Seq([key : Judges \X Emails(EmailIds) \X Draft, flag : BOOLEAN])

(* The policy lets this rail's error pass, and it did raise.               *)
Ignored(r, rail) == rail \in raised[r] /\ FailModeOf(policy, rail) = "OPEN"

(* Somebody disabled the rail in a policy file that is free of mistakes.   *)
DisabledOnPurpose(rail) ==
    /\ file.readable
    /\ \A n \in DOMAIN file.rails : file.rails[n].fail_mode # "misspelt"
    /\ rail \in DOMAIN file.rails
    /\ ~file.rails[rail].enabled

OffDuty(r, rail) == DisabledOnPurpose(rail) \/ Ignored(r, rail)

(* The verdict of a rail on the draft as it is now.                        *)
OnDraft(r, rail) == VerdictOf(rail, policy, email[r], draft[r], FALSE)

Passed(r) == stage[r] = "over" /\ verdict[r] # "BLOCK"

(* A draft that goes to the reviewer is well-formed, free of secrets and   *)
(* redacted - unless the rail in charge was disabled on purpose, or it     *)
(* raised and the policy (or its class) says to ignore that.  A mistake in *)
(* the policy file disables nothing (load_policy).                         *)
PassedDraftIsClean ==
    \A r \in Runs : Passed(r) =>
        /\ OnDraft(r, "format_validator") = "BLOCK" => OffDuty(r, "format_validator")
        /\ OnDraft(r, "banned_content") = "BLOCK" => OffDuty(r, "banned_content")
        /\ draft[r].pii => OffDuty(r, "pii_redactor")

(* The bodies that the drafting agent was given hold no raw marker.  (Only *)
(* the bodies: AgentReadsNoRawMarker says more, and does not hold.)        *)
BodiesAreNeutralised ==
    \A r \in Runs :
        stage[r] = "OUTPUT" /\ email[r].marker = "raw" => OffDuty(r, "prompt_injection")

(* What the agent is given: full_text, with the From: and Subject: lines   *)
(* of every message, and the sender and subject of the latest.             *)
ReadsRawMarker(r) == email[r].marker = "raw" \/ email[r].id \in MarkedHeaders

(* Inbound injection markers are wrapped as inert text, so that the        *)
(* drafting LLM reads them as quoted data (ADR 0002, "neutralise, don't    *)
(* block").                                                                *)
AgentReadsNoRawMarker ==
    \A r \in Runs :
        stage[r] = "OUTPUT" /\ ReadsRawMarker(r) => OffDuty(r, "prompt_injection")

(* If the INPUT stage wrapped a marker, or its judge suspected an          *)
(* injection, a draft that passes the OUTPUT stage goes to review with a   *)
(* warning - unless the escalating rail is off duty, which is what the     *)
(* watched runs of EmailWorkflow exclude.                                  *)
SuspicionForcesReview ==
    \A r \in Runs :
        Passed(r) /\ ~OffDuty(r, "injection_escalation") =>
            \/ verdict[r] = "REQUIRE_APPROVAL"
            \/ ~suspected[r] /\ (email[r].marker = "none" \/ OffDuty(r, "prompt_injection"))

(* No later rail takes back what an earlier one asked a human to look at.  *)
EscalationIsNotLost ==
    \A r \in Runs :
        /\ Passed(r)
        /\ \E rail \in {"length_rail", "recipient_allowlist"} :
               OnDraft(r, rail) = "REQUIRE_APPROVAL" /\ ~OffDuty(r, rail)
        => verdict[r] = "REQUIRE_APPROVAL"

(* A block has a deterministic cause: no judge, whatever its LLM does, and *)
(* no rail that may fail open ever stops a workflow (llm_judge.py:11-16).  *)
BlockHasACause ==
    \A r \in Runs : verdict[r] = "BLOCK" =>
        \/ \E rail \in Rails \ Judges : Enabled(policy, rail) /\ OnDraft(r, rail) = "BLOCK"
        \/ \E rail \in raised[r] \ Judges : FailModeOf(policy, rail) = "CLOSED"

(* The cache holds at most one entry for a text, each the LLM's own        *)
(* answer, and stays within its bound.                                     *)
CacheIsSound ==
    /\ Len(cache) <= MaxCache
    /\ \A i, j \in 1..Len(cache) : cache[i].key = cache[j].key => i = j
    /\ \A i \in 1..Len(cache) : \E j \in 1..Len(judged) : judged[j] = cache[i]

(* A workflow that started gets a verdict or fails at the drafting, even   *)
(* if no judge is ever answered.                                           *)
EveryRunGetsAVerdict ==
    \A r \in Runs : (stage[r] # "new") ~> (stage[r] \in {"over", "failed"})
=============================================================================
