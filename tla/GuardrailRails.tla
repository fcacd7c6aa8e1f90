--------------------------- MODULE GuardrailRails ---------------------------
(***************************************************************************)
(* src/guardrails: the verdicts, the built-in rails and what a policy may  *)
(* change of them, as constant operators.  An e-mail and a draft are       *)
(* records of the facts the rails look for.                                *)
(***************************************************************************)
EXTENDS Sequences, Naturals

Verdicts == {"ALLOW", "TRANSFORM", "REQUIRE_APPROVAL", "BLOCK"}

(* _VERDICT_RANK and strictest(). *)
VERDICT_RANK == [ALLOW |-> 0, TRANSFORM |-> 1, REQUIRE_APPROVAL |-> 2, BLOCK |-> 3]

(* Slip: the fold keeps the latest verdict that is no ALLOW. *)
MutStrictestLatest(a, b) == IF b = "ALLOW" THEN a ELSE b

Strictest(a, b) == IF VERDICT_RANK[a] >= VERDICT_RANK[b] THEN a ELSE b

-----------------------------------------------------------------------------
Stages == {"INPUT", "OUTPUT"}

Judges == {"injection_intent", "grounding_rail"}      \* opt_in
Rails == {"prompt_injection", "format_validator", "banned_content", "length_rail",
          "pii_redactor", "recipient_allowlist", "injection_escalation"} \cup Judges

(* fail_mode of each class. *)
FAIL_MODE == [r \in Rails |->
    IF r \in {"prompt_injection", "format_validator", "banned_content",
              "recipient_allowlist"} THEN "CLOSED" ELSE "OPEN"]

FailModes == {"OPEN", "CLOSED"}

(* A policy file is there and can be read and parsed, patterns included,   *)
(* or not; its "rails" section names some rails, with a word for the fail  *)
(* mode or none; its "recipient" section is not there, or has a list.      *)
Toggles == [enabled : BOOLEAN, fail_mode : FailModes \cup {"default", "misspelt"}]
Recipients == {"environment", "own list", "nobody"}

(* default_policy(). *)
DEFAULT_POLICY == [rails |-> <<>>, recipients |-> "environment"]

(* Slip: the rails read before the word that is no fail mode are kept.     *)
MutLoadPolicy(file) ==
    IF ~file.readable THEN DEFAULT_POLICY
    ELSE [rails |-> file.rails, recipients |-> file.recipients]

(* load_policy(), _merge(): one mistake, and the whole file is left aside. *)
LoadPolicy(file) ==
    IF ~file.readable \/ \E r \in DOMAIN file.rails : file.rails[r].fail_mode = "misspelt"
    THEN DEFAULT_POLICY
    ELSE [rails |-> file.rails, recipients |-> file.recipients]

(* _register(): a rail is on unless its toggle disables it, and a judge    *)
(* only if the policy names it.                                            *)
Enabled(policy, r) ==
    IF r \in DOMAIN policy.rails THEN policy.rails[r].enabled ELSE r \notin Judges

FailModeOf(policy, r) ==
    IF r \in DOMAIN policy.rails /\ policy.rails[r].fail_mode # "default"
    THEN policy.rails[r].fail_mode ELSE FAIL_MODE[r]

(* What build_default_guardrails() registers, in its order. *)
Registered(policy) ==
    LET If(r) == IF Enabled(policy, r) THEN <<r>> ELSE <<>>
    IN [INPUT  |-> If("prompt_injection") \o If("injection_intent"),
        OUTPUT |-> If("format_validator") \o If("banned_content") \o If("length_rail")
                      \o If("pii_redactor") \o If("grounding_rail")
                      \o If("recipient_allowlist") \o If("injection_escalation")]

-----------------------------------------------------------------------------
(* The facts.  The bodies of a thread hold no injection marker that the    *)
(* patterns know, a raw one, or only markers that were wrapped as          *)
(* "[untrusted-content-neutralised: ...]"; id stands for everything else   *)
(* in the thread, its senders and subjects too, which no rail reads.  The  *)
(* address of a draft is absent, without a domain, off or on the           *)
(* configured list; its text lacks a subject or a body, is too short or    *)
(* too long, or fine; it may hold a secret; its body may hold personal     *)
(* data.                                                                   *)
Emails(ids) == [id : ids, marker : {"none", "raw", "wrapped"}]
Draft == {d \in [to : {"missing", "no_domain", "external", "listed"},
                 text : {"no_subject", "no_body", "odd_length", "fine"},
                 secret : BOOLEAN, pii : BOOLEAN] :
             d.text = "no_body" => ~d.pii}

(* _neutralise() wraps whatever matches, also what is wrapped already.     *)
Neutralised(marker) == IF marker = "none" THEN "none" ELSE "wrapped"

PromptInjection(email) == IF email.marker = "none" THEN "ALLOW" ELSE "TRANSFORM"

FormatValidator(draft) ==
    IF draft.to \in {"missing", "no_domain"} \/ draft.text \in {"no_subject", "no_body"}
    THEN "BLOCK" ELSE "ALLOW"

BannedContent(draft) == IF draft.secret THEN "BLOCK" ELSE "ALLOW"

LengthRail(draft) ==
    IF draft.text \in {"no_body", "odd_length"} THEN "REQUIRE_APPROVAL" ELSE "ALLOW"

PiiRedactor(draft) == IF draft.pii THEN "TRANSFORM" ELSE "ALLOW"

RecipientAllowlist(policy, draft) ==
    CASE draft.to = "missing" -> "BLOCK"
      [] draft.to = "listed" /\ policy.recipients # "nobody" -> "ALLOW"
      [] OTHER -> "REQUIRE_APPROVAL"

InjectionEscalation(flag) == IF flag THEN "REQUIRE_APPROVAL" ELSE "ALLOW"

(* check() of the deterministic rails, when it does not raise. *)
VerdictOf(rail, policy, email, draft, flag) ==
    CASE rail = "prompt_injection" -> PromptInjection(email)
      [] rail = "format_validator" -> FormatValidator(draft)
      [] rail = "banned_content" -> BannedContent(draft)
      [] rail = "length_rail" -> LengthRail(draft)
      [] rail = "pii_redactor" -> PiiRedactor(draft)
      [] rail = "recipient_allowlist" -> RecipientAllowlist(policy, draft)
      [] rail = "injection_escalation" -> InjectionEscalation(flag)
=============================================================================
