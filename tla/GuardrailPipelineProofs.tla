----------------------- MODULE GuardrailPipelineProofs -----------------------
(***************************************************************************)
(* What the two guardrail stages promise, for every policy file, any       *)
(* number of workflows and drafts, and whichever rails raise.              *)
(***************************************************************************)
EXTENDS GuardrailPipeline, SequenceTheorems, TLAPS

(* A rail is still to come in a chain.                                     *)
In(rail, chain) == \E i \in 1..Len(chain) : chain[i] = rail

RailsOf == [INPUT  |-> {"prompt_injection", "injection_intent"},
            OUTPUT |-> {"format_validator", "banned_content", "length_rail",
                        "pii_redactor", "grounding_rail", "recipient_allowlist",
                        "injection_escalation"}]

-----------------------------------------------------------------------------
(* Chains. *)

LEMMA InTail ==
    ASSUME NEW s \in Seq(Rails), s # <<>>, NEW x
    PROVE  In(x, s) <=> x = Head(s) \/ In(x, Tail(s))
<1>1. /\ Len(s) \in Nat \ {0}
      /\ Len(Tail(s)) = Len(s) - 1
      /\ \A i \in 1..Len(Tail(s)) : Tail(s)[i] = s[i + 1]
  BY EmptySeq, HeadTailProperties
<1>2. Head(s) = s[1]
  OBVIOUS
<1>3. ASSUME In(x, s) PROVE x = Head(s) \/ In(x, Tail(s))
  <2>1. PICK i \in 1..Len(s) : s[i] = x
    BY <1>3 DEF In
  <2>2. CASE i = 1
    BY <2>1, <2>2, <1>2
  <2>3. CASE i # 1
    <3>1. i - 1 \in 1..Len(Tail(s)) /\ (i - 1) + 1 = i
      BY <2>3, <1>1
    <3>. QED  BY <3>1, <2>1, <1>1 DEF In
  <2>. QED  BY <2>2, <2>3
<1>4. ASSUME In(x, Tail(s)) PROVE In(x, s)
  <2>1. PICK i \in 1..Len(Tail(s)) : Tail(s)[i] = x
    BY <1>4 DEF In
  <2>2. i + 1 \in 1..Len(s)
    BY <1>1
  <2>. QED  BY <2>1, <2>2, <1>1 DEF In
<1>5. In(Head(s), s)
  BY <1>1, <1>2 DEF In
<1>. QED  BY <1>3, <1>4, <1>5

LEMMA InConcat ==
    ASSUME NEW s \in Seq(Rails), NEW t \in Seq(Rails), NEW x
    PROVE  /\ s \o t \in Seq(Rails)
           /\ In(x, s \o t) <=> In(x, s) \/ In(x, t)
<1>1. /\ s \o t \in Seq(Rails)
      /\ Len(s \o t) = Len(s) + Len(t)
      /\ Len(s) \in Nat /\ Len(t) \in Nat
      /\ \A i \in 1..Len(s) + Len(t) :
            (s \o t)[i] = IF i <= Len(s) THEN s[i] ELSE t[i - Len(s)]
  BY ConcatProperties
<1>2. ASSUME In(x, s \o t) PROVE In(x, s) \/ In(x, t)
  <2>1. PICK i \in 1..Len(s) + Len(t) : (s \o t)[i] = x
    BY <1>1, <1>2 DEF In
  <2>2. CASE i <= Len(s)
    <3>1. i \in 1..Len(s) /\ s[i] = x
      BY <2>1, <2>2, <1>1
    <3>. QED  BY <3>1 DEF In
  <2>3. CASE ~(i <= Len(s))
    <3>1. i - Len(s) \in 1..Len(t) /\ t[i - Len(s)] = x
      BY <2>1, <2>3, <1>1
    <3>. QED  BY <3>1 DEF In
  <2>. QED  BY <2>2, <2>3
<1>3. ASSUME In(x, s) PROVE In(x, s \o t)
  <2>1. PICK i \in 1..Len(s) : s[i] = x
    BY <1>3 DEF In
  <2>2. i \in 1..Len(s \o t) /\ (s \o t)[i] = x
    BY <2>1, <1>1
  <2>. QED  BY <2>2 DEF In
<1>4. ASSUME In(x, t) PROVE In(x, s \o t)
  <2>1. PICK i \in 1..Len(t) : t[i] = x
    BY <1>4 DEF In
  <2>2. /\ i + Len(s) \in 1..Len(s) + Len(t)
        /\ ~(i + Len(s) <= Len(s))
        /\ (i + Len(s)) - Len(s) = i
    BY <1>1
  <2>3. (s \o t)[i + Len(s)] = x
    BY <2>1, <2>2, <1>1
  <2>. QED  BY <2>2, <2>3, <1>1 DEF In
<1>. QED  BY <1>1, <1>2, <1>3, <1>4

LEMMA InSmall ==
    ASSUME NEW y \in Rails, NEW x
    PROVE  /\ <<>> \in Seq(Rails) /\ ~In(x, <<>>)
           /\ <<y>> \in Seq(Rails) /\ (In(x, <<y>>) <=> x = y)
<1>1. <<>> \in Seq(Rails) /\ Len(<<>>) = 0
  BY EmptySeq
<1>2. <<y>> \in Seq(Rails) /\ Len(<<y>>) = 1 /\ <<y>>[1] = y
  OBVIOUS
<1>. QED  BY <1>1, <1>2 DEF In

(* A chain of at most one rail, as _register() makes it.                   *)
LEMMA InOptional ==
    ASSUME NEW y \in Rails, NEW b, NEW x
    PROVE  LET c == IF b THEN <<y>> ELSE <<>>
           IN c \in Seq(Rails) /\ (In(x, c) <=> b /\ x = y)
  BY InSmall

(* What is registered for a stage: the rails of that stage that are on.    *)
LEMMA RegisteredRails ==
    ASSUME NEW p, NEW s \in Stages, NEW x
    PROVE  /\ Registered(p)[s] \in Seq(Rails)
           /\ In(x, Registered(p)[s]) <=> x \in RailsOf[s] /\ Enabled(p, x)
<1> DEFINE If(r) == IF Enabled(p, r) THEN <<r>> ELSE <<>>
<1>1. \A r \in Rails : If(r) \in Seq(Rails) /\ (In(x, If(r)) <=> Enabled(p, r) /\ x = r)
  BY InOptional
<1>2. /\ "prompt_injection" \in Rails /\ "injection_intent" \in Rails
      /\ "format_validator" \in Rails /\ "banned_content" \in Rails
      /\ "length_rail" \in Rails /\ "pii_redactor" \in Rails
      /\ "grounding_rail" \in Rails /\ "recipient_allowlist" \in Rails
      /\ "injection_escalation" \in Rails
  BY DEF Rails, Judges
<1>3. CASE s = "INPUT"
  <2>1. Registered(p)[s] = If("prompt_injection") \o If("injection_intent")
    BY <1>3 DEF Registered
  <2> HIDE DEF If
  <2>2. /\ Registered(p)[s] \in Seq(Rails)
        /\ In(x, Registered(p)[s]) <=>
              \/ Enabled(p, "prompt_injection") /\ x = "prompt_injection"
              \/ Enabled(p, "injection_intent") /\ x = "injection_intent"
    BY <2>1, <1>1, <1>2, InConcat
  <2>. QED  BY <2>2, <1>3 DEF RailsOf
<1>4. CASE s = "OUTPUT"
  <2> DEFINE c1 == If("format_validator") \o If("banned_content")
             c2 == c1 \o If("length_rail")
             c3 == c2 \o If("pii_redactor")
             c4 == c3 \o If("grounding_rail")
             c5 == c4 \o If("recipient_allowlist")
             c6 == c5 \o If("injection_escalation")
  <2>1. Registered(p)[s] = c6
    BY <1>4 DEF Registered
  <2> HIDE DEF If
  <2>2. /\ c1 \in Seq(Rails)
        /\ In(x, c1) <=> In(x, If("format_validator")) \/ In(x, If("banned_content"))
    BY <1>1, <1>2, InConcat
  <2>3. c2 \in Seq(Rails) /\ (In(x, c2) <=> In(x, c1) \/ In(x, If("length_rail")))
    <3> HIDE DEF c1
    <3>. QED  BY <2>2, <1>1, <1>2, InConcat
  <2>4. c3 \in Seq(Rails) /\ (In(x, c3) <=> In(x, c2) \/ In(x, If("pii_redactor")))
    <3> HIDE DEF c2
    <3>. QED  BY <2>3, <1>1, <1>2, InConcat
  <2>5. c4 \in Seq(Rails) /\ (In(x, c4) <=> In(x, c3) \/ In(x, If("grounding_rail")))
    <3> HIDE DEF c3
    <3>. QED  BY <2>4, <1>1, <1>2, InConcat
  <2>6. c5 \in Seq(Rails) /\ (In(x, c5) <=> In(x, c4) \/ In(x, If("recipient_allowlist")))
    <3> HIDE DEF c4
    <3>. QED  BY <2>5, <1>1, <1>2, InConcat
  <2>7. c6 \in Seq(Rails) /\ (In(x, c6) <=> In(x, c5) \/ In(x, If("injection_escalation")))
    <3> HIDE DEF c5
    <3>. QED  BY <2>6, <1>1, <1>2, InConcat
  <2> HIDE DEF c1, c2, c3, c4, c5, c6
  <2>8. In(x, c6) <=>
           \/ Enabled(p, "format_validator") /\ x = "format_validator"
           \/ Enabled(p, "banned_content") /\ x = "banned_content"
           \/ Enabled(p, "length_rail") /\ x = "length_rail"
           \/ Enabled(p, "pii_redactor") /\ x = "pii_redactor"
           \/ Enabled(p, "grounding_rail") /\ x = "grounding_rail"
           \/ Enabled(p, "recipient_allowlist") /\ x = "recipient_allowlist"
           \/ Enabled(p, "injection_escalation") /\ x = "injection_escalation"
    BY <1>1, <1>2, <2>2, <2>3, <2>4, <2>5, <2>6, <2>7
  <2>. QED  BY <2>1, <2>7, <2>8, <1>4 DEF RailsOf
<1>. QED  BY <1>3, <1>4 DEF Stages

-----------------------------------------------------------------------------
(* Verdicts, policies and drafts. *)

LEMMA StrictestFacts ==
    ASSUME NEW a \in Verdicts, NEW b \in Verdicts
    PROVE  /\ Strictest(a, b) \in Verdicts
           /\ Strictest(a, b) = "BLOCK" <=> a = "BLOCK" \/ b = "BLOCK"
           /\ a = "REQUIRE_APPROVAL" \/ b = "REQUIRE_APPROVAL" =>
                  Strictest(a, b) \in {"REQUIRE_APPROVAL", "BLOCK"}
  BY DEF Strictest, Verdicts, VERDICT_RANK

LEMMA VerdictFacts ==
    ASSUME NEW rail \in Rails \ Judges, NEW p, NEW e, NEW d \in Draft, NEW f
    PROVE  VerdictOf(rail, p, e, d, f) \in Verdicts
<1>1. rail \in {"prompt_injection", "format_validator", "banned_content", "length_rail",
                "pii_redactor", "recipient_allowlist", "injection_escalation"}
  BY DEF Rails, Judges
<1>. QED  BY <1>1 DEF VerdictOf, PromptInjection, FormatValidator, BannedContent, LengthRail,
                     PiiRedactor, RecipientAllowlist, InjectionEscalation, Verdicts

(* Redacting a draft changes no verdict but that of the redactor.          *)
LEMMA RedactionIsNeutral ==
    ASSUME NEW rail \in Rails \ Judges, rail # "pii_redactor", NEW p, NEW e, NEW d \in Draft,
           NEW f
    PROVE  VerdictOf(rail, p, e, [d EXCEPT !.pii = FALSE], f) = VerdictOf(rail, p, e, d, f)
<1>1. rail \in {"prompt_injection", "format_validator", "banned_content", "length_rail",
                "recipient_allowlist", "injection_escalation"}
  BY DEF Rails, Judges
<1>2. /\ [d EXCEPT !.pii = FALSE].to = d.to
      /\ [d EXCEPT !.pii = FALSE].text = d.text
      /\ [d EXCEPT !.pii = FALSE].secret = d.secret
  BY DEF Draft
<1>. QED  BY <1>1, <1>2 DEF VerdictOf, PromptInjection, FormatValidator, BannedContent,
                LengthRail, RecipientAllowlist, InjectionEscalation

(* A mistake in the policy file switches nothing: a deterministic rail is  *)
(* off only if somebody disabled it, and a fail mode is one of the two.    *)
PolicyLoaded == file \in Files /\ policy = LoadPolicy(file)

LEMMA PolicyFacts ==
    ASSUME PolicyLoaded, NEW rail \in Rails
    PROVE  /\ rail \notin Judges /\ ~Enabled(policy, rail) => DisabledOnPurpose(rail)
           /\ FailModeOf(policy, rail) \in FailModes
<1>1. FAIL_MODE[rail] \in FailModes
  BY DEF FAIL_MODE, FailModes
<1>2. CASE policy = DEFAULT_POLICY
  <2>1. policy.rails = <<>> /\ DOMAIN <<>> = {}
    BY <1>2 DEF DEFAULT_POLICY
  <2>. QED  BY <1>1, <2>1 DEF Enabled, FailModeOf
<1>3. CASE policy # DEFAULT_POLICY
  <2>1. /\ file.readable
        /\ \A n \in DOMAIN file.rails : file.rails[n].fail_mode # "misspelt"
        /\ policy.rails = file.rails
    BY <1>3 DEF PolicyLoaded, LoadPolicy
  <2>2. ASSUME rail \in DOMAIN file.rails
        PROVE  /\ file.rails[rail].fail_mode \in FailModes \cup {"default", "misspelt"}
               /\ file.rails[rail].enabled \in BOOLEAN
    BY <2>2, PipelineAssumption DEF PolicyLoaded, Toggles
  <2>3. FailModeOf(policy, rail) \in FailModes
    BY <1>1, <2>1, <2>2 DEF FailModeOf
  <2>4. rail \notin Judges /\ ~Enabled(policy, rail) => DisabledOnPurpose(rail)
    BY <2>1, <2>2 DEF Enabled, DisabledOnPurpose
  <2>. QED  BY <2>3, <2>4
<1>. QED  BY <1>2, <1>3

-----------------------------------------------------------------------------
(* The inductive invariant. *)

(* Once the registry is built, its chains hold the rails that are on.      *)
Built == \A s \in Stages : \A x \in RailsOf[s] : Enabled(policy, x) => In(x, registry[s])

RegistryOK ==
    /\ \A s \in Stages : \A x \in Rails :
          In(x, registry[s]) => x \in RailsOf[s] /\ Enabled(policy, x)
    /\ registry["OUTPUT"] # <<>> => Built

ChainAt(r) ==
    /\ stage[r] \in Stages =>
          \A x \in Rails : In(x, todo[r]) => x \in RailsOf[stage[r]] /\ Enabled(policy, x)
    /\ stage[r] \notin Stages => todo[r] = <<>>
    /\ stage[r] = "new" => verdict[r] = "ALLOW"
    /\ stage[r] # "new" => Built
    /\ asking[r] => todo[r] # <<>> /\ Head(todo[r]) \in Judges
    /\ verdict[r] = "BLOCK" => todo[r] = <<>>

CauseAt(r) ==
    verdict[r] = "BLOCK" =>
        \/ \E rail \in Rails \ Judges : Enabled(policy, rail) /\ OnDraft(r, rail) = "BLOCK"
        \/ \E rail \in raised[r] \ Judges : FailModeOf(policy, rail) = "CLOSED"

(* A run that is stopped by the INPUT stage, or is about to be.            *)
Stopped(r) == verdict[r] = "BLOCK" /\ stage[r] # "OUTPUT"

MarkerAt(r) ==
    /\ email[r].marker = "raw" =>
          \/ stage[r] = "new"
          \/ stage[r] = "INPUT" /\ In("prompt_injection", todo[r])
          \/ Stopped(r) \/ OffDuty(r, "prompt_injection")
    /\ email[r].marker = "wrapped" =>
          \/ stage[r] # "new" /\ flag[r]
          \/ Stopped(r) \/ OffDuty(r, "prompt_injection")
    /\ suspected[r] => flag[r]

(* A rail has had its say on the draft as it is now.                       *)
Settled(r, rail) ==
    LET v == VerdictOf(rail, policy, email[r], draft[r], flag[r]) IN
    /\ v # "BLOCK"
    /\ v = "REQUIRE_APPROVAL" => verdict[r] = "REQUIRE_APPROVAL"
    /\ rail = "pii_redactor" => ~draft[r].pii

OutputAt(r) ==
    stage[r] \in {"OUTPUT", "over"} /\ verdict[r] # "BLOCK" =>
        \A rail \in RailsOf["OUTPUT"] \ Judges :
            In(rail, todo[r]) \/ OffDuty(r, rail) \/ Settled(r, rail)

Story(r) == ChainAt(r) /\ CauseAt(r) /\ MarkerAt(r) /\ OutputAt(r)

IInv == TypeOK /\ PolicyLoaded /\ RegistryOK /\ CacheIsSound /\ \A r \in Runs : Story(r)

(* Nothing that belongs to workflow x changes.                             *)
Same(x) ==
    /\ UNCHANGED <<file, policy, llm>>
    /\ stage'[x] = stage[x] /\ todo'[x] = todo[x] /\ verdict'[x] = verdict[x]
    /\ asking'[x] = asking[x] /\ email'[x] = email[x] /\ flag'[x] = flag[x]
    /\ draft'[x] = draft[x] /\ raised'[x] = raised[x] /\ suspected'[x] = suspected[x]

LEMMA SameStory ==
    ASSUME NEW x, Story(x), Same(x), Built => Built'
    PROVE  Story(x)'
<1>1. ChainAt(x)'
  BY DEF Story, Same, ChainAt
<1>2. \A rail : OffDuty(x, rail)' <=> OffDuty(x, rail)
  BY DEF Same, OffDuty, DisabledOnPurpose, Ignored
<1>3. CauseAt(x)'
  BY DEF Story, Same, CauseAt, OnDraft
<1>4. MarkerAt(x)'
  BY <1>2 DEF Story, Same, MarkerAt, Stopped
<1>5. OutputAt(x)'
  <2>1. \A rail : Settled(x, rail)' <=> Settled(x, rail)
    BY DEF Same, Settled
  <2>. QED  BY <1>2, <2>1 DEF Story, Same, OutputAt
<1>. QED  BY <1>1, <1>3, <1>4, <1>5 DEF Story

-----------------------------------------------------------------------------
(* A rail has been run. *)

(* What Check, Raise, Judge, Answered and NoAnswer have in common: the rail *)
(* at the head of the chain of r gave v, a block for a cause, and anything *)
(* else after doing its work, unless it is a judge or is off duty.         *)
Ran(r, rail, v) ==
    /\ UNCHANGED <<file, policy, llm, registry, stage>>
    /\ \A x \in Runs \ {r} : Same(x)
    /\ todo[r] # <<>> /\ Head(todo[r]) = rail
    /\ v \in Verdicts
    /\ verdict'[r] = Strictest(verdict[r], v)
    /\ todo'[r] = IF v = "BLOCK" THEN <<>> ELSE Tail(todo[r])
    /\ ~asking'[r]
    /\ \/ email'[r] = email[r]
       \/ rail = "prompt_injection" /\ email'[r] = [email[r] EXCEPT !.marker = Neutralised(@)]
    /\ flag[r] => flag'[r]
    /\ rail \notin RailsOf["INPUT"] => flag'[r] = flag[r]
    /\ rail # "pii_redactor" => draft'[r] = draft[r]
    /\ draft'[r] \in {draft[r], [draft[r] EXCEPT !.pii = FALSE]}
    /\ raised[r] \subseteq raised'[r]
    /\ suspected'[r] => suspected[r] \/ flag'[r]
    /\ v = "BLOCK" =>
          /\ rail \notin Judges
          /\ \/ VerdictOf(rail, policy, email[r], draft[r], flag[r]) = "BLOCK"
             \/ rail \in raised'[r] /\ FailModeOf(policy, rail) = "CLOSED"
    /\ v # "BLOCK" =>
          \/ rail \in Judges
          \/ OffDuty(r, rail)'
          \/ /\ v = VerdictOf(rail, policy, email[r], draft[r], flag[r])
             /\ rail = "pii_redactor" => ~draft'[r].pii
             /\ rail = "prompt_injection" => /\ email'[r].marker # "raw"
                                             /\ email'[r].marker = "wrapped" => flag'[r]

LEMMA RunTypes ==
    ASSUME TypeOK, NEW r \in Runs
    PROVE  /\ todo[r] \in Seq(Rails) /\ verdict[r] \in Verdicts
           /\ flag[r] \in BOOLEAN /\ draft[r] \in Draft
  BY DEF TypeOK

LEMMA RanLeaves ==
    ASSUME NEW r \in Runs, NEW rail, NEW v, Ran(r, rail, v)
    PROVE  /\ UNCHANGED <<file, policy, llm, registry, stage>>
           /\ v \in Verdicts
           /\ verdict'[r] = Strictest(verdict[r], v)
           /\ rail # "prompt_injection" => email'[r] = email[r]
           /\ rail \notin RailsOf["INPUT"] => flag'[r] = flag[r]
           /\ rail # "pii_redactor" => draft'[r] = draft[r]
           /\ draft'[r] \in {draft[r], [draft[r] EXCEPT !.pii = FALSE]}
  BY DEF Ran

LEMMA RanKeepsChain ==
    ASSUME IInv, NEW r \in Runs, NEW rail \in Rails, NEW v, Ran(r, rail, v)
    PROVE  /\ ChainAt(r)'
           /\ stage[r] \in Stages /\ rail \in RailsOf[stage[r]] /\ Enabled(policy, rail)
           /\ verdict[r] # "BLOCK"
           /\ verdict'[r] = "BLOCK" <=> v = "BLOCK"
           /\ v # "BLOCK" => \A x \in Rails : In(x, todo[r]) <=> x = rail \/ In(x, todo'[r])
<1>1. todo[r] \in Seq(Rails) /\ todo[r] # <<>> /\ Head(todo[r]) = rail /\ verdict[r] \in Verdicts
  BY DEF Ran, IInv, TypeOK
<1>2. \A x : In(x, todo[r]) <=> x = rail \/ In(x, Tail(todo[r]))
  BY <1>1, InTail
<1>3. ChainAt(r)
  BY DEF IInv, Story
<1>4. stage[r] \in Stages /\ rail \in RailsOf[stage[r]] /\ Enabled(policy, rail)
      /\ verdict[r] # "BLOCK"
  BY <1>1, <1>2, <1>3 DEF ChainAt
<1>5. verdict'[r] = "BLOCK" <=> v = "BLOCK"
  BY <1>1, <1>4, StrictestFacts DEF Ran
<1>6. v # "BLOCK" => todo'[r] = Tail(todo[r])
  BY DEF Ran
<1>7. \A x \in Rails : In(x, todo'[r]) => In(x, todo[r])
  BY <1>2, <1>6, InSmall DEF Ran
<1>8. ChainAt(r)'
  <2>1. Built'
    BY <1>3, <1>4 DEF ChainAt, Ran, Built, Stages
  <2>2. stage'[r] = stage[r] /\ policy' = policy /\ ~asking'[r]
    BY DEF Ran
  <2>3. \A x : Enabled(policy, x)' <=> Enabled(policy, x)
    BY <2>2 DEF Enabled
  <2>4. verdict'[r] = "BLOCK" => todo'[r] = <<>>
    BY <1>5 DEF Ran
  <2>. QED  BY <1>3, <1>4, <1>7, <2>1, <2>2, <2>3, <2>4 DEF ChainAt, Stages
<1>. QED  BY <1>2, <1>4, <1>5, <1>6, <1>8

LEMMA RanKeepsCause ==
    ASSUME IInv, NEW r \in Runs, NEW rail \in Rails, NEW v, Ran(r, rail, v)
    PROVE  CauseAt(r)'
<1> SUFFICES ASSUME v = "BLOCK" PROVE CauseAt(r)'
  BY RanKeepsChain DEF CauseAt
<1>1. rail \in Rails \ Judges /\ Enabled(policy, rail) /\ policy' = policy
  BY RanKeepsChain DEF Ran
<1>2. CASE rail \in raised'[r] /\ FailModeOf(policy, rail) = "CLOSED"
  <2>1. FailModeOf(policy, rail)' = "CLOSED"
    BY <1>1, <1>2 DEF FailModeOf
  <2>. QED  BY <1>1, <1>2, <2>1 DEF CauseAt
<1>3. CASE VerdictOf(rail, policy, email[r], draft[r], flag[r]) = "BLOCK"
  <2>1. rail \in {"format_validator", "banned_content", "recipient_allowlist"}
    <3>1. rail \in {"prompt_injection", "format_validator", "banned_content", "length_rail",
                    "pii_redactor", "recipient_allowlist", "injection_escalation"}
      BY <1>1 DEF Rails, Judges
    <3>. QED  BY <1>3, <3>1 DEF VerdictOf, PromptInjection, LengthRail, PiiRedactor,
                               InjectionEscalation
  <2>2. draft'[r] = draft[r]
    BY <2>1 DEF Ran
  <2>3. OnDraft(r, rail)' = "BLOCK"
    BY <1>1, <1>3, <2>1, <2>2 DEF OnDraft, VerdictOf, FormatValidator, BannedContent,
                                  RecipientAllowlist
  <2>4. Enabled(policy, rail)'
    BY <1>1 DEF Enabled
  <2>. QED  BY <1>1, <2>3, <2>4 DEF CauseAt
<1>. QED  BY <1>2, <1>3 DEF Ran

LEMMA OffDutyLasts ==
    ASSUME NEW r, NEW rail, OffDuty(r, rail), UNCHANGED <<file, policy>>,
           raised[r] \subseteq raised'[r]
    PROVE  OffDuty(r, rail)'
  BY DEF OffDuty, DisabledOnPurpose, Ignored, FailModeOf

LEMMA RanKeepsMarker ==
    ASSUME IInv, NEW r \in Runs, NEW rail \in Rails, NEW v, Ran(r, rail, v)
    PROVE  MarkerAt(r)'
<1>1. MarkerAt(r) /\ stage'[r] = stage[r] /\ stage[r] \in Stages /\ verdict[r] # "BLOCK"
      /\ flag[r] \in BOOLEAN
  <2>1. TypeOK /\ MarkerAt(r)
    BY DEF IInv, Story
  <2>. QED  BY <2>1, RanKeepsChain, RanLeaves, RunTypes
<1>2. ~Stopped(r)
  BY <1>1 DEF Stopped
<1>3. suspected'[r] => flag'[r]
  BY <1>1 DEF MarkerAt, Ran
<1>4. OffDuty(r, "prompt_injection") => OffDuty(r, "prompt_injection")'
  BY OffDutyLasts DEF Ran
<1>5. CASE rail = "prompt_injection"
  <2>1. stage[r] = "INPUT"
    BY <1>5, RanKeepsChain DEF RailsOf, Stages
  <2>2. CASE v = "BLOCK"
    <3>1. Stopped(r)'
      BY <1>1, <2>1, <2>2, RanKeepsChain DEF Stopped
    <3>. QED  BY <1>3, <3>1 DEF MarkerAt
  <2>3. CASE v # "BLOCK"
    <3>1. rail \notin Judges
      BY <1>5 DEF Judges
    <3>2. \/ OffDuty(r, rail)'
          \/ email'[r].marker # "raw" /\ (email'[r].marker = "wrapped" => flag'[r])
      BY <1>5, <2>3, <3>1 DEF Ran
    <3>. QED  BY <1>1, <1>3, <1>5, <3>2, <2>1 DEF MarkerAt
  <2>. QED  BY <2>2, <2>3
<1>6. CASE rail # "prompt_injection"
  <2>1. email'[r] = email[r] /\ (flag[r] => flag'[r])
    BY <1>1, <1>6 DEF Ran
  <2>2. CASE v = "BLOCK" /\ stage[r] = "INPUT"
    <3>1. Stopped(r)'
      BY <1>1, <2>2, RanKeepsChain DEF Stopped
    <3>. QED  BY <1>3, <3>1 DEF MarkerAt
  <2>3. CASE ~(v = "BLOCK" /\ stage[r] = "INPUT")
    <3>1. "prompt_injection" \in Rails
      BY DEF Rails
    <3>2. In("prompt_injection", todo[r]) /\ v # "BLOCK" => In("prompt_injection", todo'[r])
      BY <1>6, <3>1, RanKeepsChain
    <3>3. email'[r].marker = "raw" =>
             \/ stage'[r] = "INPUT" /\ In("prompt_injection", todo'[r])
             \/ OffDuty(r, "prompt_injection")'
      BY <1>1, <1>2, <1>4, <2>1, <2>3, <3>2 DEF MarkerAt, Stages
    <3>4. email'[r].marker = "wrapped" =>
             (stage'[r] # "new" /\ flag'[r]) \/ OffDuty(r, "prompt_injection")'
      BY <1>1, <1>2, <1>4, <2>1 DEF MarkerAt, Stages
    <3>. QED  BY <1>3, <3>3, <3>4 DEF MarkerAt
  <2>. QED  BY <2>2, <2>3
<1>. QED  BY <1>5, <1>6

LEMMA RanKeepsOutput ==
    ASSUME IInv, NEW r \in Runs, NEW rail \in Rails, NEW v, Ran(r, rail, v)
    PROVE  OutputAt(r)'
<1> SUFFICES ASSUME stage'[r] \in {"OUTPUT", "over"}, verdict'[r] # "BLOCK",
                    NEW x \in RailsOf["OUTPUT"] \ Judges
             PROVE  In(x, todo'[r]) \/ OffDuty(r, x)' \/ Settled(r, x)'
  BY DEF OutputAt
<1>1. /\ stage[r] = "OUTPUT" /\ v # "BLOCK" /\ verdict[r] # "BLOCK"
      /\ rail \in RailsOf["OUTPUT"]
      /\ \A y \in Rails : In(y, todo[r]) <=> y = rail \/ In(y, todo'[r])
  <2>1. stage'[r] = stage[r]
    BY RanLeaves
  <2>. QED  BY <2>1, RanKeepsChain DEF Stages
<1>2. x \in Rails \ Judges /\ x # "prompt_injection"
  BY DEF RailsOf, Rails, Judges
<1>3. /\ policy' = policy /\ email'[r] = email[r] /\ flag'[r] = flag[r]
      /\ draft[r] \in Draft /\ v \in Verdicts /\ verdict[r] \in Verdicts
      /\ verdict'[r] = Strictest(verdict[r], v)
  <2>1. rail \notin RailsOf["INPUT"] /\ rail # "prompt_injection"
    BY <1>1 DEF RailsOf
  <2>2. TypeOK
    BY DEF IInv
  <2>. QED  BY <2>1, <2>2, RanLeaves, RunTypes
<1>4. verdict[r] = "REQUIRE_APPROVAL" \/ v = "REQUIRE_APPROVAL" =>
         verdict'[r] = "REQUIRE_APPROVAL"
  BY <1>3, StrictestFacts
<1>5. x # "pii_redactor" =>
         VerdictOf(x, policy, email[r], draft'[r], flag[r])
            = VerdictOf(x, policy, email[r], draft[r], flag[r])
  <2>1. ASSUME x # "pii_redactor"
        PROVE  VerdictOf(x, policy, email[r], [draft[r] EXCEPT !.pii = FALSE], flag[r])
                  = VerdictOf(x, policy, email[r], draft[r], flag[r])
    BY <1>2, <1>3, <2>1, RedactionIsNeutral
  <2>. QED  BY <2>1, RanLeaves
<1>6. CASE x # rail
  <2>1. In(x, todo[r]) \/ OffDuty(r, x) \/ Settled(r, x)
    BY <1>1 DEF IInv, Story, OutputAt
  <2>2. OffDuty(r, x) => OffDuty(r, x)'
    BY OffDutyLasts DEF Ran
  <2>3. ASSUME Settled(r, x) PROVE Settled(r, x)'
    <3>1. CASE x # "pii_redactor"
      BY <1>3, <1>4, <1>5, <2>3, <3>1 DEF Settled
    <3>2. CASE x = "pii_redactor"
      <4>1. draft'[r] = draft[r]
        BY <1>6, <3>2 DEF Ran
      <4>. QED  BY <1>3, <1>4, <2>3, <4>1 DEF Settled
    <3>. QED  BY <3>1, <3>2
  <2>. QED  BY <1>1, <1>2, <1>6, <2>1, <2>2, <2>3
<1>7. CASE x = rail
  <2> SUFFICES ASSUME ~OffDuty(r, x)' PROVE Settled(r, x)'
    OBVIOUS
  <2>1. /\ v = VerdictOf(x, policy, email[r], draft[r], flag[r])
        /\ x = "pii_redactor" => ~draft'[r].pii
    BY <1>1, <1>2, <1>7 DEF Ran
  <2>2. CASE x # "pii_redactor"
    BY <1>1, <1>3, <1>4, <1>5, <2>1, <2>2 DEF Settled
  <2>3. CASE x = "pii_redactor"
    <3>1. VerdictOf(x, policy', email'[r], draft'[r], flag'[r]) = "ALLOW"
      BY <2>1, <2>3 DEF VerdictOf, PiiRedactor
    <3>. QED  BY <2>1, <3>1 DEF Settled
  <2>. QED  BY <2>2, <2>3
<1>. QED  BY <1>6, <1>7

LEMMA RanKeeps ==
    ASSUME IInv, NEW r \in Runs, NEW rail \in Rails, NEW v, Ran(r, rail, v)
    PROVE  PolicyLoaded' /\ RegistryOK' /\ \A x \in Runs : Story(x)'
<1>1. PolicyLoaded'
  BY DEF IInv, PolicyLoaded, Ran
<1>2. RegistryOK' /\ (Built => Built')
  BY DEF IInv, RegistryOK, Ran, Enabled, Built
<1>3. ASSUME NEW x \in Runs PROVE Story(x)'
  <2>1. CASE x = r
    BY <2>1, RanKeepsChain, RanKeepsCause, RanKeepsMarker, RanKeepsOutput DEF Story
  <2>2. CASE x # r
    BY <1>2, <2>2, SameStory DEF Ran, IInv
  <2>. QED  BY <2>1, <2>2
<1>. QED  BY <1>1, <1>2, <1>3

-----------------------------------------------------------------------------
(* The cache of the judges. *)

Keys == Judges \X Emails(EmailIds) \X Draft
Entry == [key : Keys, flag : BOOLEAN]

(* Entries of a cache with one entry per key.                              *)
Unique(c) == \A i, j \in 1..Len(c) : c[i].key = c[j].key => i = j

LEMMA KeyType ==
    ASSUME TypeOK, NEW r \in Runs, NEW rail \in Judges
    PROVE  Key(r, rail) \in Keys
<1>1. email[r] \in Emails(EmailIds) /\ draft[r] \in Draft
  BY DEF TypeOK
<1>2. [draft[r] EXCEPT !.to = "missing"] \in Draft
  BY <1>1 DEF Draft
<1>. QED  BY <1>1, <1>2 DEF Key, Keys

LEMMA OthersFacts ==
    ASSUME cache \in Seq(Entry), Unique(cache), NEW key
    PROVE  /\ Others(key) \in Seq(Entry)
           /\ Unique(Others(key))
           /\ Len(Others(key)) <= Len(cache)
           /\ \A k \in 1..Len(Others(key)) :
                 Others(key)[k].key # key /\ \E j \in 1..Len(cache) : Others(key)[k] = cache[j]
<1>1. CASE Cached(key) = {}
  BY <1>1, LenProperties DEF Others, Cached
<1>2. CASE Cached(key) # {}
  <2> DEFINE i == CHOOSE i \in Cached(key) : TRUE
             front == SubSeq(cache, 1, i - 1)
             back == SubSeq(cache, i + 1, Len(cache))
  <2>1. i \in 1..Len(cache) /\ cache[i].key = key
    BY <1>2 DEF Cached
  <2>2. Others(key) = front \o back
    BY <1>2 DEF Others, RemoveAt
  <2> HIDE DEF i
  <2>3. Len(cache) \in Nat /\ \A k \in 1..Len(cache) : cache[k] \in Entry
    BY LenProperties, ElementOfSeq
  <2>4. /\ front \in Seq(Entry)
        /\ Len(front) = i - 1
        /\ \A k \in 1..(i - 1) : front[k] = cache[k]
    <3>1. \A k \in 1..(i - 1) : cache[k] \in Entry
      BY <2>1, <2>3
    <3>2. /\ front \in Seq(Entry)
          /\ Len(front) = IF 1 <= i - 1 THEN (i - 1) - 1 + 1 ELSE 0
          /\ \A k \in 1..(i - 1) - 1 + 1 : front[k] = cache[1 + k - 1]
      BY <2>1, <3>1, SubSeqProperties
    <3>. QED  BY <2>1, <3>2
  <2>5. /\ back \in Seq(Entry)
        /\ Len(back) = Len(cache) - i
        /\ \A k \in 1..(Len(cache) - i) : back[k] = cache[k + i]
    <3>1. \A k \in (i + 1)..Len(cache) : cache[k] \in Entry
      BY <2>1, <2>3
    <3>2. /\ back \in Seq(Entry)
          /\ Len(back) = IF i + 1 <= Len(cache) THEN Len(cache) - (i + 1) + 1 ELSE 0
          /\ \A k \in 1..Len(cache) - (i + 1) + 1 : back[k] = cache[(i + 1) + k - 1]
      BY <2>1, <2>3, <3>1, SubSeqProperties
    <3>. QED  BY <2>1, <2>3, <3>2
  <2> HIDE DEF front, back
  <2>6. /\ Others(key) \in Seq(Entry)
        /\ Len(Others(key)) = Len(cache) - 1
        /\ \A k \in 1..(Len(cache) - 1) :
              Others(key)[k] = cache[IF k < i THEN k ELSE k + 1]
    <3>1. /\ Others(key) \in Seq(Entry)
          /\ Len(Others(key)) = Len(front) + Len(back)
          /\ \A k \in 1..Len(front) + Len(back) :
                Others(key)[k] = IF k <= Len(front) THEN front[k] ELSE back[k - Len(front)]
      <4>1. /\ front \o back \in Seq(Entry)
            /\ Len(front \o back) = Len(front) + Len(back)
            /\ \A k \in 1..Len(front) + Len(back) :
                  (front \o back)[k] = IF k <= Len(front) THEN front[k] ELSE back[k - Len(front)]
        BY <2>4, <2>5, ConcatProperties
      <4>. QED  BY <2>2, <4>1
    <3>2. ASSUME NEW k \in 1..(Len(cache) - 1)
          PROVE  Others(key)[k] = cache[IF k < i THEN k ELSE k + 1]
      <4>1. CASE k < i
        <5>1. k \in 1..(i - 1) /\ k \in 1..Len(front) + Len(back) /\ k <= Len(front)
          BY <2>1, <2>3, <2>4, <2>5, <4>1
        <5>2. Others(key)[k] = front[k] /\ front[k] = cache[k]
          BY <2>4, <3>1, <5>1
        <5>. QED  BY <4>1, <5>2
      <4>2. CASE ~(k < i)
        <5>1. k - Len(front) \in 1..(Len(cache) - i) /\ (k - Len(front)) + i = k + 1
          BY <2>1, <2>3, <2>4, <4>2
        <5>2. k \in 1..Len(front) + Len(back) /\ ~(k <= Len(front))
          BY <2>1, <2>3, <2>4, <2>5, <4>2
        <5>3. Others(key)[k] = back[k - Len(front)]
          BY <3>1, <5>2
        <5>4. back[k - Len(front)] = cache[k + 1]
          BY <2>5, <5>1
        <5>. QED  BY <4>2, <5>3, <5>4
      <4>. QED  BY <4>1, <4>2
    <3>. QED  BY <2>1, <2>3, <2>4, <2>5, <3>1, <3>2
  <2> DEFINE from(k) == IF k < i THEN k ELSE k + 1
  <2>7. ASSUME NEW k \in 1..Len(Others(key))
        PROVE  /\ from(k) \in 1..Len(cache) /\ from(k) # i
               /\ Others(key)[k] = cache[from(k)]
    BY <2>1, <2>3, <2>6
  <2>8. ASSUME NEW k \in 1..Len(Others(key)), NEW l \in 1..Len(Others(key)), from(k) = from(l)
        PROVE  k = l
    BY <2>1, <2>3, <2>6, <2>8
  <2> HIDE DEF from
  <2>9. ASSUME NEW k \in 1..Len(Others(key))
        PROVE  Others(key)[k].key # key /\ \E j \in 1..Len(cache) : Others(key)[k] = cache[j]
    BY <2>1, <2>7 DEF Unique
  <2>10. ASSUME NEW k \in 1..Len(Others(key)), NEW l \in 1..Len(Others(key)),
                Others(key)[k].key = Others(key)[l].key
         PROVE  k = l
    <3>1. from(k) = from(l)
      BY <2>7, <2>10 DEF Unique
    <3>. QED  BY <2>8, <3>1
  <2>11. Unique(Others(key))
    BY <2>10 DEF Unique
  <2>. QED  BY <2>3, <2>6, <2>9, <2>11
<1>. QED  BY <1>1, <1>2

LEMMA StoreFacts ==
    ASSUME TypeOK, CacheIsSound, NEW key \in Keys, NEW f \in BOOLEAN
    PROVE  LET s == Store(key, f) IN
           /\ s \in Seq(Entry) /\ Len(s) <= MaxCache /\ Unique(s)
           /\ \A i \in 1..Len(s) : \/ s[i] = [key |-> key, flag |-> f]
                                   \/ \E j \in 1..Len(cache) : s[i] = cache[j]
<1> DEFINE o == Others(key)
           e == [key |-> key, flag |-> f]
           a == Append(o, e)
<1>1. cache \in Seq(Entry) /\ Len(cache) <= MaxCache /\ Len(cache) \in Nat /\ Unique(cache)
  BY LenProperties DEF TypeOK, CacheIsSound, Entry, Keys, Unique
<1>2. /\ o \in Seq(Entry) /\ Unique(o) /\ Len(o) <= Len(cache) /\ Len(o) \in Nat
      /\ \A k \in 1..Len(o) : o[k].key # key /\ \E j \in 1..Len(cache) : o[k] = cache[j]
  BY <1>1, OthersFacts, LenProperties
<1>3. e \in Entry /\ e.key = key
  BY DEF Entry
<1> HIDE DEF o, e
<1>4. /\ a \in Seq(Entry) /\ a # <<>> /\ Len(a) = Len(o) + 1
      /\ \A k \in 1..Len(o) : a[k] = o[k]
      /\ a[Len(o) + 1] = e
  BY <1>2, <1>3, AppendProperties
<1>5. Store(key, f) = IF Len(a) > MaxCache THEN Tail(a) ELSE a
  BY DEF Store, o, e
<1> HIDE DEF a
<1>6. /\ \A k \in 1..Len(a) : IF k <= Len(o) THEN a[k] = o[k] /\ k \in 1..Len(o)
                              ELSE a[k] = e /\ k = Len(o) + 1
      /\ Unique(a)
      /\ \A k \in 1..Len(a) : a[k] = e \/ \E j \in 1..Len(cache) : a[k] = cache[j]
  <2>1. \A k \in 1..Len(a) : IF k <= Len(o) THEN a[k] = o[k] /\ k \in 1..Len(o)
                              ELSE a[k] = e /\ k = Len(o) + 1
    BY <1>2, <1>4
  <2>2. \A k \in 1..Len(a) : a[k] = e \/ \E j \in 1..Len(cache) : a[k] = cache[j]
    BY <1>2, <2>1
  <2>3. ASSUME NEW i \in 1..Len(a), NEW j \in 1..Len(a), a[i].key = a[j].key PROVE i = j
    BY <1>2, <1>3, <2>1, <2>3 DEF Unique
  <2>. QED  BY <2>1, <2>2, <2>3 DEF Unique
<1>7. /\ Tail(a) \in Seq(Entry) /\ Len(Tail(a)) = Len(a) - 1
      /\ \A k \in 1..Len(Tail(a)) : Tail(a)[k] = a[k + 1]
  BY <1>4, HeadTailProperties
<1>8. /\ Unique(Tail(a))
      /\ \A k \in 1..Len(Tail(a)) : Tail(a)[k] = e \/ \E j \in 1..Len(cache) : Tail(a)[k] = cache[j]
  <2>1. \A k \in 1..Len(Tail(a)) : k + 1 \in 1..Len(a)
    BY <1>2, <1>4, <1>7
  <2>2. ASSUME NEW i \in 1..Len(Tail(a)), NEW j \in 1..Len(Tail(a)),
               Tail(a)[i].key = Tail(a)[j].key
        PROVE  i = j
    <3>1. i + 1 = j + 1
      BY <1>6, <1>7, <2>1, <2>2 DEF Unique
    <3>. QED  BY <3>1
  <2>. QED  BY <1>6, <1>7, <2>1, <2>2 DEF Unique
<1>9. MaxCache \in Nat
  BY PipelineAssumption
<1>10. CASE Len(a) > MaxCache
  <2>1. Store(key, f) = Tail(a)
    BY <1>5, <1>10
  <2>2. Len(Tail(a)) <= MaxCache
    BY <1>1, <1>2, <1>4, <1>7, <1>9
  <2>. QED  BY <1>7, <1>8, <2>1, <2>2 DEF e
<1>11. CASE ~(Len(a) > MaxCache)
  <2>1. Store(key, f) = a
    BY <1>5, <1>11
  <2>2. Len(a) <= MaxCache
    BY <1>2, <1>4, <1>9, <1>11
  <2>. QED  BY <1>4, <1>6, <2>1, <2>2 DEF e
<1>. QED  BY <1>10, <1>11

-----------------------------------------------------------------------------
(* Every action keeps the invariant. *)

LEMMA InitIInv == Init => IInv
<1> SUFFICES ASSUME Init PROVE IInv
  OBVIOUS
<1>1. \A x : ~In(x, <<>>)
  BY DEF In
<1>2. NoDraft \in Draft
  BY DEF NoDraft, Draft
<1>3. TypeOK
  <2>1. <<>> \in Seq(Rails) /\ <<>> \in Seq([key : Judges \X Emails(EmailIds) \X Draft, flag : BOOLEAN])
    BY EmptySeq
  <2>2. email \in [Runs -> Emails(EmailIds)]
    BY DEF Init
  <2>. QED  BY <1>2, <2>1, <2>2 DEF Init, TypeOK, Verdicts
<1>4. PolicyLoaded
  BY DEF Init, PolicyLoaded
<1>5. RegistryOK
  BY <1>1 DEF Init, RegistryOK, Stages
<1>6. CacheIsSound
  BY PipelineAssumption DEF Init, CacheIsSound
<1>7. ASSUME NEW r \in Runs PROVE Story(r)
  <2>1. email[r].marker # "wrapped"
    BY DEF Init
  <2>. QED  BY <2>1 DEF Init, Story, ChainAt, CauseAt, MarkerAt, OutputAt, Stages
<1>. QED  BY <1>3, <1>4, <1>5, <1>6, <1>7 DEF IInv

LEMMA FoldTypes ==
    ASSUME TypeOK, NEW r \in Runs, todo[r] # <<>>, NEW v \in Verdicts, Fold(r, v)
    PROVE  /\ verdict' \in [Runs -> Verdicts]
           /\ todo' \in [Runs -> Seq(Rails)]
           /\ verdict'[r] = Strictest(verdict[r], v)
           /\ todo'[r] = IF v = "BLOCK" THEN <<>> ELSE Tail(todo[r])
           /\ \A x \in Runs \ {r} : verdict'[x] = verdict[x] /\ todo'[x] = todo[x]
<1>1. todo \in [Runs -> Seq(Rails)] /\ verdict \in [Runs -> Verdicts]
  BY DEF TypeOK
<1>2. Strictest(verdict[r], v) \in Verdicts
  BY <1>1, StrictestFacts
<1>3. Tail(todo[r]) \in Seq(Rails) /\ <<>> \in Seq(Rails)
  BY <1>1, HeadTailProperties, EmptySeq
<1>. QED  BY <1>1, <1>2, <1>3 DEF Fold

LEMMA CacheStays == ASSUME CacheIsSound, UNCHANGED <<cache, judged>> PROVE CacheIsSound'
  BY DEF CacheIsSound

LEMMA CheckKeeps ==
    ASSUME IInv, NEW r \in Runs, NEW rail \in Rails, Check(r, rail) PROVE IInv'
<1> DEFINE v == VerdictOf(rail, policy, email[r], draft[r], flag[r])
<1>1. /\ todo[r] # <<>> /\ Head(todo[r]) = rail /\ ~asking[r] /\ rail \in Rails \ Judges
      /\ Fold(r, v)
      /\ email' = IF rail = "prompt_injection" THEN Wrapped(r) ELSE email
      /\ flag' = [flag EXCEPT ![r] = @ \/ (rail = "prompt_injection" /\ v = "TRANSFORM")]
      /\ draft' = [draft EXCEPT ![r].pii = @ /\ rail # "pii_redactor"]
      /\ UNCHANGED <<file, policy, llm, registry, stage, asking, raised, suspected, cache, judged>>
  BY DEF Check, InTurn
<1>2. TypeOK /\ CacheIsSound
  BY DEF IInv
<1>3. v \in Verdicts
  BY <1>1, <1>2, VerdictFacts DEF TypeOK
<1>4. /\ email \in [Runs -> Emails(EmailIds)] /\ flag \in [Runs -> BOOLEAN]
      /\ draft \in [Runs -> Draft]
  BY <1>2 DEF TypeOK
<1>5. /\ email' \in [Runs -> Emails(EmailIds)]
      /\ \A x \in Runs \ {r} : email'[x] = email[x]
      /\ email'[r] = IF rail = "prompt_injection"
                     THEN [email[r] EXCEPT !.marker = Neutralised(@)] ELSE email[r]
  BY <1>1, <1>4 DEF Wrapped, Emails, Neutralised
<1>6. /\ flag' \in [Runs -> BOOLEAN]
      /\ \A x \in Runs \ {r} : flag'[x] = flag[x]
      /\ flag'[r] = (flag[r] \/ (rail = "prompt_injection" /\ v = "TRANSFORM"))
  <2> HIDE DEF v
  <2>. QED  BY <1>1, <1>4
<1>7. /\ draft' \in [Runs -> Draft]
      /\ \A x \in Runs \ {r} : draft'[x] = draft[x]
      /\ rail # "pii_redactor" => draft'[r] = draft[r]
      /\ rail = "pii_redactor" => draft'[r] = [draft[r] EXCEPT !.pii = FALSE]
  <2>1. draft' = [draft EXCEPT ![r] = [draft[r] EXCEPT !.pii = @ /\ rail # "pii_redactor"]]
    BY <1>1
  <2>2. CASE rail # "pii_redactor"
    <3>1. [draft[r] EXCEPT !.pii = @ /\ rail # "pii_redactor"] = draft[r]
      BY <1>4, <2>2 DEF Draft
    <3>. QED  BY <1>4, <2>1, <2>2, <3>1
  <2>3. CASE rail = "pii_redactor"
    <3>1. [draft[r] EXCEPT !.pii = @ /\ rail # "pii_redactor"] = [draft[r] EXCEPT !.pii = FALSE]
      BY <1>4, <2>3 DEF Draft
    <3>2. [draft[r] EXCEPT !.pii = FALSE] \in Draft
      BY <1>4 DEF Draft
    <3>. QED  BY <1>4, <2>1, <2>3, <3>1, <3>2
  <2>. QED  BY <2>2, <2>3
<1>8. /\ verdict' \in [Runs -> Verdicts] /\ todo' \in [Runs -> Seq(Rails)]
      /\ verdict'[r] = Strictest(verdict[r], v)
      /\ todo'[r] = IF v = "BLOCK" THEN <<>> ELSE Tail(todo[r])
      /\ \A x \in Runs \ {r} : verdict'[x] = verdict[x] /\ todo'[x] = todo[x]
  <2> HIDE DEF v
  <2>. QED  BY <1>1, <1>2, <1>3, FoldTypes
<1>9. TypeOK'
  BY <1>1, <1>2, <1>5, <1>6, <1>7, <1>8 DEF TypeOK
<1>10. rail = "prompt_injection" =>
          email'[r].marker # "raw" /\ (email'[r].marker = "wrapped" => flag'[r])
  <2>1. ASSUME rail = "prompt_injection"
        PROVE  v = IF email[r].marker = "none" THEN "ALLOW" ELSE "TRANSFORM"
    BY <2>1 DEF VerdictOf, PromptInjection
  <2>2. rail = "prompt_injection" => email'[r].marker = Neutralised(email[r].marker)
    BY <1>4, <1>5 DEF Emails
  <2> HIDE DEF v
  <2>. QED  BY <1>6, <2>1, <2>2 DEF Neutralised
<1>11. rail = "pii_redactor" => ~draft'[r].pii
  BY <1>4, <1>7 DEF Draft
<1>12. \A x \in Runs \ {r} : Same(x)
  BY <1>1, <1>5, <1>6, <1>7, <1>8 DEF Same
<1>13. Ran(r, rail, v)
  <2>1. /\ flag[r] => flag'[r]
        /\ rail \notin RailsOf["INPUT"] => flag'[r] = flag[r]
    <3>1. rail \notin RailsOf["INPUT"] => rail # "prompt_injection"
      BY DEF RailsOf
    <3>2. flag[r] \in BOOLEAN
      BY <1>4
    <3> HIDE DEF v
    <3>. QED  BY <1>6, <3>1, <3>2
  <2>2. raised'[r] = raised[r] /\ suspected'[r] = suspected[r]
    BY <1>1
  <2> HIDE DEF v
  <2>3. v = "BLOCK" => VerdictOf(rail, policy, email[r], draft[r], flag[r]) = "BLOCK"
    BY DEF v
  <2>4. v = VerdictOf(rail, policy, email[r], draft[r], flag[r])
    BY DEF v
  <2>. QED  BY <1>1, <1>3, <1>5, <1>7, <1>8, <1>10, <1>11, <1>12, <2>1, <2>2, <2>3, <2>4
               DEF Ran
<1>14. PolicyLoaded' /\ RegistryOK' /\ \A x \in Runs : Story(x)'
  BY <1>13, RanKeeps
<1>. QED  BY <1>1, <1>2, <1>9, <1>14, CacheStays DEF IInv

LEMMA RaiseKeeps ==
    ASSUME IInv, NEW r \in Runs, NEW rail \in Rails, Raise(r, rail) PROVE IInv'
<1> DEFINE v == IF FailModeOf(policy, rail) = "CLOSED" THEN "BLOCK" ELSE "ALLOW"
<1>1. /\ todo[r] # <<>> /\ Head(todo[r]) = rail /\ ~asking[r] /\ rail \in Fallible
      /\ Fold(r, v)
      /\ raised' = [raised EXCEPT ![r] = @ \cup {rail}]
      /\ email' \in {email, IF rail = "prompt_injection" THEN Wrapped(r) ELSE email}
      /\ UNCHANGED <<file, policy, llm, registry, stage, asking, flag, draft, suspected, cache,
                     judged>>
  BY DEF Raise, InTurn
<1>2. TypeOK /\ CacheIsSound /\ rail \notin Judges
  BY <1>1, PipelineAssumption DEF IInv
<1>3. v \in Verdicts
  BY DEF Verdicts
<1>4. FailModeOf(policy, rail) \in {"OPEN", "CLOSED"}
  BY PolicyFacts DEF IInv, FailModes
<1>5. /\ email' \in [Runs -> Emails(EmailIds)]
      /\ \A x \in Runs \ {r} : email'[x] = email[x]
      /\ \/ email'[r] = email[r]
         \/ rail = "prompt_injection" /\ email'[r] = [email[r] EXCEPT !.marker = Neutralised(@)]
  <2>1. email \in [Runs -> Emails(EmailIds)]
    BY <1>2 DEF TypeOK
  <2>2. CASE email' = email
    BY <2>1, <2>2
  <2>3. CASE rail = "prompt_injection" /\ email' = Wrapped(r)
    BY <2>1, <2>3 DEF Wrapped, Emails, Neutralised
  <2>. QED  BY <1>1, <2>2, <2>3
<1>6. /\ raised' \in [Runs -> SUBSET Rails]
      /\ raised'[r] = raised[r] \cup {rail}
      /\ \A x \in Runs \ {r} : raised'[x] = raised[x]
  BY <1>1, <1>2 DEF TypeOK
<1> HIDE DEF v
<1>7. /\ verdict' \in [Runs -> Verdicts] /\ todo' \in [Runs -> Seq(Rails)]
      /\ verdict'[r] = Strictest(verdict[r], v)
      /\ todo'[r] = IF v = "BLOCK" THEN <<>> ELSE Tail(todo[r])
      /\ \A x \in Runs \ {r} : verdict'[x] = verdict[x] /\ todo'[x] = todo[x]
  BY <1>1, <1>2, <1>3, FoldTypes
<1>8. TypeOK'
  BY <1>1, <1>2, <1>5, <1>6, <1>7 DEF TypeOK
<1>9. \A x \in Runs \ {r} : Same(x)
  BY <1>1, <1>5, <1>6, <1>7 DEF Same
<1>10. v = "BLOCK" => rail \in raised'[r] /\ FailModeOf(policy, rail) = "CLOSED"
  BY <1>6 DEF v
<1>11. v # "BLOCK" => OffDuty(r, rail)'
  <2>1. v # "BLOCK" => FailModeOf(policy, rail) = "OPEN"
    BY <1>4 DEF v
  <2>2. FailModeOf(policy, rail)' = FailModeOf(policy, rail)
    BY <1>1 DEF FailModeOf
  <2>. QED  BY <1>6, <2>1, <2>2 DEF OffDuty, Ignored
<1>12. Ran(r, rail, v)
  <2>1. flag'[r] = flag[r] /\ draft'[r] = draft[r] /\ suspected'[r] = suspected[r]
        /\ raised[r] \subseteq raised'[r]
    BY <1>1, <1>6
  <2>2. UNCHANGED <<file, policy, llm, registry, stage>> /\ ~asking'[r]
        /\ todo[r] # <<>> /\ Head(todo[r]) = rail
    BY <1>1
  <2>. QED  BY <1>2, <1>3, <1>5, <1>7, <1>9, <1>10, <1>11, <2>1, <2>2 DEF Ran
<1>13. PolicyLoaded' /\ RegistryOK' /\ \A x \in Runs : Story(x)'
  BY <1>12, RanKeeps
<1>. QED  BY <1>1, <1>2, <1>8, <1>13, CacheStays DEF IInv

(* A cache and a history that grow together.                               *)
LEMMA SoundAfter ==
    ASSUME TypeOK, CacheIsSound, NEW key \in Keys, NEW f \in BOOLEAN,
           cache' = Store(key, f),
           judged' \in Seq(Entry),
           \E j \in 1..Len(judged') : judged'[j] = [key |-> key, flag |-> f],
           \A i \in 1..Len(judged) : \E j \in 1..Len(judged') : judged'[j] = judged[i]
    PROVE  CacheIsSound' /\ cache' \in Seq(Entry)
<1>1. /\ cache' \in Seq(Entry) /\ Len(cache') <= MaxCache /\ Unique(cache')
      /\ \A i \in 1..Len(cache') : \/ cache'[i] = [key |-> key, flag |-> f]
                                   \/ \E j \in 1..Len(cache) : cache'[i] = cache[j]
  BY StoreFacts
<1>2. \A i, j \in 1..Len(cache') : cache'[i].key = cache'[j].key => i = j
  BY <1>1 DEF Unique
<1>3. ASSUME NEW i \in 1..Len(cache')
      PROVE  \E j \in 1..Len(judged') : judged'[j] = cache'[i]
  <2>1. CASE cache'[i] = [key |-> key, flag |-> f]
    BY <2>1
  <2>2. CASE \E j \in 1..Len(cache) : cache'[i] = cache[j]
    <3>1. PICK j \in 1..Len(cache) : cache'[i] = cache[j]
      BY <2>2
    <3>2. PICK k \in 1..Len(judged) : judged[k] = cache[j]
      BY DEF CacheIsSound
    <3>. QED  BY <3>1, <3>2
  <2>. QED  BY <1>1, <2>1, <2>2
<1>. QED  BY <1>1, <1>2, <1>3 DEF CacheIsSound

(* What a hit finds is the answer to that very question.                   *)
LEMMA HitFacts ==
    ASSUME TypeOK, CacheIsSound, NEW key, Cached(key) # {}
    PROVE  /\ Answer(key) \in BOOLEAN
           /\ \E j \in 1..Len(judged) : judged[j] = [key |-> key, flag |-> Answer(key)]
<1> DEFINE i == CHOOSE i \in Cached(key) : TRUE
<1>1. i \in 1..Len(cache) /\ cache[i].key = key /\ Answer(key) = cache[i].flag
  BY DEF Cached, Answer
<1> HIDE DEF i
<1>2. cache[i] \in Entry
  BY <1>1, ElementOfSeq DEF TypeOK, Entry, Keys
<1>3. cache[i] = [key |-> key, flag |-> Answer(key)]
  BY <1>1, <1>2 DEF Entry
<1>4. PICK j \in 1..Len(judged) : judged[j] = cache[i]
  BY <1>1 DEF CacheIsSound
<1>. QED  BY <1>1, <1>2, <1>3, <1>4 DEF Entry

(* A judge has given its verdict: it escalates or allows.                  *)
LEMMA JudgedRan ==
    ASSUME IInv, NEW r \in Runs, NEW rail \in Judges, NEW f \in BOOLEAN,
           todo[r] # <<>>, Head(todo[r]) = rail,
           Interpret(r, rail, f),
           asking' \in [Runs -> BOOLEAN], ~asking'[r],
           \A x \in Runs \ {r} : asking'[x] = asking[x],
           UNCHANGED <<file, policy, llm, registry, stage, email, draft, raised>>,
           CacheIsSound', cache' \in Seq(Entry), judged' \in Seq(Entry)
    PROVE  IInv'
<1> DEFINE v == IF f THEN "REQUIRE_APPROVAL" ELSE "ALLOW"
<1>1. v \in Verdicts /\ v # "BLOCK"
  BY DEF Verdicts
<1>2. TypeOK /\ Fold(r, v)
  BY DEF IInv, Interpret
<1> HIDE DEF v
<1>3. /\ verdict' \in [Runs -> Verdicts] /\ todo' \in [Runs -> Seq(Rails)]
      /\ verdict'[r] = Strictest(verdict[r], v)
      /\ todo'[r] = IF v = "BLOCK" THEN <<>> ELSE Tail(todo[r])
      /\ \A x \in Runs \ {r} : verdict'[x] = verdict[x] /\ todo'[x] = todo[x]
  BY <1>1, <1>2, FoldTypes
<1>4. /\ flag' = [flag EXCEPT ![r] = @ \/ (f /\ rail = "injection_intent")]
      /\ suspected' = [suspected EXCEPT ![r] = @ \/ (f /\ rail = "injection_intent")]
      /\ flag \in [Runs -> BOOLEAN] /\ suspected \in [Runs -> BOOLEAN]
  BY <1>2 DEF Interpret, TypeOK
<1>5. /\ flag' \in [Runs -> BOOLEAN] /\ suspected' \in [Runs -> BOOLEAN]
      /\ \A x \in Runs \ {r} : flag'[x] = flag[x] /\ suspected'[x] = suspected[x]
      /\ flag'[r] = (flag[r] \/ (f /\ rail = "injection_intent"))
      /\ suspected'[r] = (suspected[r] \/ (f /\ rail = "injection_intent"))
      /\ flag[r] \in BOOLEAN
  BY <1>4
<1>6. TypeOK'
  BY <1>2, <1>3, <1>5 DEF TypeOK, Entry, Keys
<1>7. \A x \in Runs \ {r} : Same(x)
  BY <1>3, <1>5 DEF Same
<1>8. Ran(r, rail, v)
  <2>1. rail \notin RailsOf["INPUT"] => rail # "injection_intent"
    BY DEF RailsOf
  <2>2. /\ flag[r] => flag'[r]
        /\ rail \notin RailsOf["INPUT"] => flag'[r] = flag[r]
        /\ suspected'[r] => suspected[r] \/ flag'[r]
    BY <1>5, <2>1
  <2>3. email'[r] = email[r] /\ draft'[r] = draft[r] /\ raised'[r] = raised[r]
    OBVIOUS
  <2>. QED  BY <1>1, <1>3, <1>7, <2>2, <2>3 DEF Ran
<1>9. rail \in Rails
  BY DEF Rails
<1>. QED  BY <1>6, <1>8, <1>9, RanKeeps DEF IInv

(* A judge allows without having asked, or without an answer.              *)
LEMMA AllowedKeeps ==
    ASSUME IInv, NEW r \in Runs, NEW rail \in Judges,
           todo[r] # <<>>, Head(todo[r]) = rail,
           Fold(r, "ALLOW"),
           asking' \in [Runs -> BOOLEAN], ~asking'[r],
           \A x \in Runs \ {r} : asking'[x] = asking[x],
           UNCHANGED <<file, policy, llm, registry, stage, email, flag, draft, raised,
                       suspected, cache, judged>>
    PROVE  IInv'
<1>1. TypeOK /\ CacheIsSound /\ "ALLOW" \in Verdicts /\ rail \in Rails
  BY DEF IInv, Verdicts, Rails
<1>2. /\ verdict' \in [Runs -> Verdicts] /\ todo' \in [Runs -> Seq(Rails)]
      /\ verdict'[r] = Strictest(verdict[r], "ALLOW")
      /\ todo'[r] = Tail(todo[r])
      /\ \A x \in Runs \ {r} : verdict'[x] = verdict[x] /\ todo'[x] = todo[x]
  BY <1>1, FoldTypes
<1>3. TypeOK'
  BY <1>1, <1>2 DEF TypeOK
<1>4. \A x \in Runs \ {r} : Same(x)
  BY <1>2 DEF Same
<1>5. Ran(r, rail, "ALLOW")
  BY <1>1, <1>2, <1>4 DEF Ran
<1>. QED  BY <1>1, <1>3, <1>5, RanKeeps, CacheStays DEF IInv

LEMMA JudgeKeeps ==
    ASSUME IInv, NEW r \in Runs, NEW rail \in Rails, Judge(r, rail) PROVE IInv'
<1> DEFINE key == Key(r, rail)
<1>1. /\ ~asking[r] /\ todo[r] # <<>> /\ Head(todo[r]) = rail /\ rail \in Judges
      /\ UNCHANGED <<file, policy, llm, registry, stage, email, draft, raised, judged>>
      /\ TypeOK /\ CacheIsSound
  BY DEF Judge, InTurn, IInv
<1>2. CASE Fold(r, "ALLOW") /\ UNCHANGED <<asking, flag, suspected, cache>>
  BY <1>1, <1>2, AllowedKeeps DEF TypeOK
<1>3. CASE /\ Cached(key) # {} /\ Interpret(r, rail, Answer(key))
           /\ cache' = Store(key, Answer(key)) /\ asking' = asking
  <2>1. key \in Keys
    BY <1>1, KeyType
  <2> HIDE DEF key
  <2>2. /\ Answer(key) \in BOOLEAN
        /\ \E j \in 1..Len(judged) : judged[j] = [key |-> key, flag |-> Answer(key)]
    BY <1>1, <1>3, HitFacts
  <2>3. judged' = judged /\ judged \in Seq(Entry)
    BY <1>1 DEF TypeOK, Entry, Keys
  <2>4. CacheIsSound' /\ cache' \in Seq(Entry)
    BY <1>1, <1>3, <2>1, <2>2, <2>3, SoundAfter
  <2>5. asking' \in [Runs -> BOOLEAN] /\ ~asking'[r] /\ \A x \in Runs \ {r} : asking'[x] = asking[x]
    BY <1>1, <1>3 DEF TypeOK
  <2>. QED  BY <1>1, <1>3, <2>2, <2>3, <2>4, <2>5, JudgedRan
<1>4. CASE /\ asking' = [asking EXCEPT ![r] = TRUE]
           /\ UNCHANGED <<todo, verdict, flag, suspected, cache>>
  <2>1. TypeOK'
    BY <1>1, <1>4 DEF TypeOK
  <2>2. PolicyLoaded' /\ RegistryOK' /\ CacheIsSound' /\ (Built => Built')
    BY <1>1, <1>4, CacheStays DEF IInv, PolicyLoaded, RegistryOK, Enabled, Built
  <2>3. ASSUME NEW x \in Runs PROVE Story(x)'
    <3>1. Story(x)
      BY DEF IInv
    <3>2. CASE x # r
      <4>1. Same(x)
        BY <1>1, <1>4, <3>2 DEF Same, TypeOK
      <4>. QED  BY <2>2, <3>1, <4>1, SameStory
    <3>3. CASE x = r
      <4>1. ChainAt(r)'
        BY <1>1, <1>4, <2>2, <3>1, <3>3 DEF Story, ChainAt, Enabled
      <4>2. \A y : OffDuty(r, y)' <=> OffDuty(r, y)
        BY <1>1 DEF OffDuty, DisabledOnPurpose, Ignored, FailModeOf
      <4>3. CauseAt(r)'
        BY <1>1, <1>4, <3>1, <3>3 DEF Story, CauseAt, OnDraft, Enabled, FailModeOf
      <4>4. MarkerAt(r)'
        BY <1>1, <1>4, <3>1, <3>3, <4>2 DEF Story, MarkerAt, Stopped
      <4>5. OutputAt(r)'
        <5>1. \A y : Settled(r, y)' <=> Settled(r, y)
          BY <1>1, <1>4 DEF Settled
        <5>. QED  BY <1>1, <1>4, <3>1, <3>3, <4>2, <5>1 DEF Story, OutputAt
      <4>. QED  BY <3>3, <4>1, <4>3, <4>4, <4>5 DEF Story
    <3>. QED  BY <3>2, <3>3
  <2>. QED  BY <2>1, <2>2, <2>3 DEF IInv
<1>. QED  BY <1>2, <1>3, <1>4 DEF Judge

(* A workflow that waits for its LLM is in the middle of a stage.          *)
LEMMA WaitingFacts ==
    ASSUME IInv, NEW r \in Runs, asking[r]
    PROVE  TypeOK /\ CacheIsSound /\ todo[r] # <<>> /\ Head(todo[r]) \in Judges
  BY DEF IInv, Story, ChainAt

LEMMA AnsweredKeeps ==
    ASSUME IInv, NEW r \in Runs, NEW rail \in Judges, NEW f \in BOOLEAN, Answered(r, rail, f)
    PROVE  IInv'
<1> DEFINE e == [key |-> Key(r, rail), flag |-> f]
<1>1. /\ TypeOK /\ CacheIsSound /\ todo[r] # <<>> /\ Head(todo[r]) = rail
      /\ asking' = [asking EXCEPT ![r] = FALSE]
      /\ Interpret(r, rail, f)
      /\ cache' = Store(Key(r, rail), f)
      /\ judged' = Append(judged, e)
      /\ UNCHANGED <<file, policy, llm, registry, stage, email, draft, raised>>
  BY WaitingFacts DEF Answered
<1>2. Key(r, rail) \in Keys
  BY <1>1, KeyType
<1>3. judged \in Seq(Entry) /\ e \in Entry
  BY <1>1, <1>2 DEF TypeOK, Entry, Keys
<1>4. /\ judged' \in Seq(Entry)
      /\ \E j \in 1..Len(judged') : judged'[j] = e
      /\ \A i \in 1..Len(judged) : \E j \in 1..Len(judged') : judged'[j] = judged[i]
  <2> HIDE DEF e
  <2>1. /\ judged' \in Seq(Entry) /\ Len(judged') = Len(judged) + 1
        /\ Len(judged) \in Nat
        /\ \A i \in 1..Len(judged) : judged'[i] = judged[i]
        /\ judged'[Len(judged) + 1] = e
    BY <1>1, <1>3, AppendProperties, LenProperties
  <2>2. \A i \in 1..Len(judged) : i \in 1..Len(judged')
    BY <2>1
  <2>3. Len(judged) + 1 \in 1..Len(judged')
    BY <2>1
  <2>. QED  BY <2>1, <2>2, <2>3
<1>5. CacheIsSound' /\ cache' \in Seq(Entry)
  BY <1>1, <1>2, <1>4, SoundAfter
<1>6. asking' \in [Runs -> BOOLEAN] /\ ~asking'[r] /\ \A x \in Runs \ {r} : asking'[x] = asking[x]
  BY <1>1 DEF TypeOK
<1>. QED  BY <1>1, <1>4, <1>5, <1>6, JudgedRan

LEMMA NoAnswerKeeps ==
    ASSUME IInv, NEW r \in Runs, NoAnswer(r) PROVE IInv'
<1>1. TypeOK /\ todo[r] # <<>> /\ Head(todo[r]) \in Judges
  BY WaitingFacts DEF NoAnswer
<1>2. asking' \in [Runs -> BOOLEAN] /\ ~asking'[r] /\ \A x \in Runs \ {r} : asking'[x] = asking[x]
  BY <1>1 DEF NoAnswer, TypeOK
<1>. QED  BY <1>1, <1>2, AllowedKeeps DEF NoAnswer

LEMMA StartKeeps ==
    ASSUME IInv, NEW r \in Runs, Start(r) PROVE IInv'
<1>1. /\ stage[r] = "new" /\ BuildDefaultGuardrails
      /\ stage' = [stage EXCEPT ![r] = "INPUT"]
      /\ todo' = [todo EXCEPT ![r] = registry'["INPUT"]]
      /\ UNCHANGED <<file, policy, llm, verdict, asking, email, flag, draft, raised,
                     suspected, cache, judged>>
      /\ TypeOK /\ RegistryOK /\ Story(r)
  BY DEF Start, IInv
<1>2. /\ registry \in [Stages -> Seq(Rails)]
      /\ \A s \in Stages, x \in Rails :
            In(x, registry[s]) => x \in RailsOf[s] /\ Enabled(policy, x)
      /\ registry["OUTPUT"] # <<>> => Built
      /\ "INPUT" \in Stages /\ "OUTPUT" \in Stages
  BY <1>1 DEF TypeOK, RegistryOK, Stages
<1>3. /\ registry' \in [Stages -> Seq(Rails)]
      /\ \A s \in Stages, x \in Rails :
            In(x, registry'[s]) => x \in RailsOf[s] /\ Enabled(policy, x)
      /\ \A s \in Stages : \A x \in RailsOf[s] : Enabled(policy, x) => In(x, registry'[s])
  <2>1. CASE registry["OUTPUT"] # <<>>
    BY <1>1, <1>2, <2>1 DEF BuildDefaultGuardrails, Built
  <2>2. CASE registry["OUTPUT"] = <<>>
    <3>1. registry' = [s \in Stages |-> registry[s] \o Registered(policy)[s]]
      BY <1>1, <2>2 DEF BuildDefaultGuardrails
    <3>2. ASSUME NEW s \in Stages
          PROVE  /\ registry'[s] \in Seq(Rails)
                 /\ \A x : In(x, registry'[s]) <=>
                              In(x, registry[s]) \/ (x \in RailsOf[s] /\ Enabled(policy, x))
      <4>1. registry[s] \in Seq(Rails) /\ Registered(policy)[s] \in Seq(Rails)
        BY <1>2, RegisteredRails
      <4>2. registry'[s] = registry[s] \o Registered(policy)[s]
        BY <3>1
      <4>3. ASSUME NEW x
            PROVE  /\ registry'[s] \in Seq(Rails)
                   /\ In(x, registry'[s]) <=> In(x, registry[s]) \/ In(x, Registered(policy)[s])
        BY <4>1, <4>2, InConcat
      <4>4. ASSUME NEW x
            PROVE  In(x, Registered(policy)[s]) <=> x \in RailsOf[s] /\ Enabled(policy, x)
        BY RegisteredRails
      <4>. QED  BY <4>3, <4>4
    <3>3. registry' \in [Stages -> Seq(Rails)]
      BY <3>1, <3>2
    <3>4. ASSUME NEW s \in Stages, NEW x \in Rails, In(x, registry'[s])
          PROVE  x \in RailsOf[s] /\ Enabled(policy, x)
      BY <1>2, <3>2, <3>4
    <3>5. ASSUME NEW s \in Stages, NEW x \in RailsOf[s], Enabled(policy, x)
          PROVE  In(x, registry'[s])
      BY <3>2, <3>5
    <3>. QED  BY <3>3, <3>4, <3>5
  <2>. QED  BY <2>1, <2>2
<1>4. UNCHANGED <<file, policy>> /\ \A x : Enabled(policy, x)' <=> Enabled(policy, x)
  BY <1>1 DEF Enabled
<1>5. Built' /\ RegistryOK' /\ PolicyLoaded' /\ CacheIsSound'
  BY <1>1, <1>3, <1>4, CacheStays DEF Built, RegistryOK, PolicyLoaded, IInv
<1>6. /\ stage' \in [Runs -> Stages \cup {"new", "over", "failed"}] /\ todo' \in [Runs -> Seq(Rails)]
      /\ stage'[r] = "INPUT" /\ todo'[r] = registry'["INPUT"]
      /\ \A x \in Runs \ {r} : stage'[x] = stage[x] /\ todo'[x] = todo[x]
  BY <1>1, <1>2, <1>3 DEF TypeOK
<1>7. TypeOK'
  BY <1>1, <1>3, <1>6 DEF TypeOK
<1>8. ASSUME NEW x \in Runs \ {r} PROVE Story(x)'
  <2>1. Story(x) /\ Same(x)
    BY <1>1, <1>6 DEF IInv, Same
  <2>. QED  BY <1>5, <2>1, SameStory
<1>9. Story(r)'
  <2>1. /\ verdict[r] = "ALLOW" /\ verdict'[r] = "ALLOW"
        /\ todo[r] = <<>> /\ asking'[r] = asking[r] /\ ~asking[r]
    BY <1>1 DEF Story, ChainAt, Stages
  <2>2. ChainAt(r)'
    BY <1>2, <1>3, <1>4, <1>5, <1>6, <2>1 DEF ChainAt, Stages
  <2>3. CauseAt(r)' /\ OutputAt(r)'
    BY <1>6, <2>1 DEF CauseAt, OutputAt
  <2>4. MarkerAt(r)'
    <3>1. /\ email'[r] = email[r] /\ flag'[r] = flag[r] /\ suspected'[r] = suspected[r]
          /\ ~Stopped(r) /\ MarkerAt(r)
          /\ OffDuty(r, "prompt_injection")' <=> OffDuty(r, "prompt_injection")
      BY <1>1, <2>1 DEF Stopped, Story, OffDuty, DisabledOnPurpose, Ignored, FailModeOf
    <3>2. ASSUME email'[r].marker = "raw"
          PROVE  In("prompt_injection", todo'[r]) \/ OffDuty(r, "prompt_injection")'
      <4>1. "prompt_injection" \in RailsOf["INPUT"]
            /\ "prompt_injection" \in Rails \ Judges
        BY DEF RailsOf, Rails, Judges
      <4>2. CASE Enabled(policy, "prompt_injection")
        BY <1>2, <1>3, <1>6, <4>1, <4>2
      <4>3. CASE ~Enabled(policy, "prompt_injection")
        <5>1. DisabledOnPurpose("prompt_injection")
          BY <4>1, <4>3, PolicyFacts DEF IInv
        <5>. QED  BY <3>1, <5>1 DEF OffDuty
      <4>. QED  BY <4>2, <4>3
    <3>. QED  BY <1>1, <1>6, <3>1, <3>2 DEF MarkerAt
  <2>. QED  BY <2>2, <2>3, <2>4 DEF Story
<1>. QED  BY <1>5, <1>7, <1>8, <1>9 DEF IInv

LEMMA DraftIsWrittenKeeps ==
    ASSUME IInv, NEW r \in Runs, DraftIsWritten(r) PROVE IInv'
<1>1. /\ stage[r] = "INPUT" /\ verdict[r] # "BLOCK" /\ todo[r] = <<>> /\ ~asking[r]
      /\ stage' = [stage EXCEPT ![r] = "OUTPUT"]
      /\ todo' = [todo EXCEPT ![r] = registry["OUTPUT"]]
      /\ verdict' = [verdict EXCEPT ![r] = "ALLOW"]
      /\ UNCHANGED <<file, policy, llm, registry, asking, email, flag, raised, suspected,
                     cache, judged>>
      /\ TypeOK /\ RegistryOK /\ PolicyLoaded /\ CacheIsSound /\ Story(r)
  BY DEF DraftIsWritten, StageOver, IInv
<1>2. PICK d \in Drafts : draft' = [draft EXCEPT ![r] = d]
  BY DEF DraftIsWritten
<1>3. d \in Draft
  BY PipelineAssumption
<1>4. Built
  BY <1>1 DEF Story, ChainAt
<1>5. /\ Built' /\ RegistryOK' /\ PolicyLoaded' /\ CacheIsSound'
      /\ \A x : Enabled(policy, x)' <=> Enabled(policy, x)
  BY <1>1, <1>4, CacheStays DEF Built, RegistryOK, PolicyLoaded, Enabled
<1>6. /\ stage' \in [Runs -> Stages \cup {"new", "over", "failed"}] /\ todo' \in [Runs -> Seq(Rails)]
      /\ verdict' \in [Runs -> Verdicts] /\ draft' \in [Runs -> Draft]
      /\ stage'[r] = "OUTPUT" /\ todo'[r] = registry["OUTPUT"] /\ verdict'[r] = "ALLOW"
      /\ \A x \in Runs \ {r} : /\ stage'[x] = stage[x] /\ todo'[x] = todo[x]
                               /\ verdict'[x] = verdict[x] /\ draft'[x] = draft[x]
  BY <1>1, <1>2, <1>3 DEF TypeOK, Stages, Verdicts
<1>7. TypeOK'
  BY <1>1, <1>6 DEF TypeOK
<1>8. ASSUME NEW x \in Runs \ {r} PROVE Story(x)'
  <2>1. Story(x) /\ Same(x)
    BY <1>1, <1>6 DEF IInv, Same
  <2>. QED  BY <1>5, <2>1, SameStory
<1>9. Story(r)'
  <2>1. ChainAt(r)'
    BY <1>1, <1>5, <1>6 DEF RegistryOK, ChainAt, Stages
  <2>2. CauseAt(r)'
    BY <1>6 DEF CauseAt
  <2>3. MarkerAt(r)'
    <3>1. /\ email'[r] = email[r] /\ flag'[r] = flag[r] /\ suspected'[r] = suspected[r]
          /\ ~Stopped(r) /\ MarkerAt(r) /\ ~In("prompt_injection", todo[r])
          /\ OffDuty(r, "prompt_injection")' <=> OffDuty(r, "prompt_injection")
      BY <1>1 DEF Stopped, Story, OffDuty, DisabledOnPurpose, Ignored, FailModeOf, In
    <3>. QED  BY <1>1, <1>6, <3>1 DEF MarkerAt
  <2>4. OutputAt(r)'
    <3>1. ASSUME NEW x \in RailsOf["OUTPUT"] \ Judges
          PROVE  In(x, todo'[r]) \/ OffDuty(r, x)'
      <4>1. x \in Rails \ Judges
        BY DEF RailsOf, Rails, Judges
      <4>2. CASE Enabled(policy, x)
        BY <1>4, <1>6, <4>2 DEF Built, Stages
      <4>3. CASE ~Enabled(policy, x)
        BY <1>1, <4>1, <4>3, PolicyFacts DEF OffDuty, DisabledOnPurpose
      <4>. QED  BY <4>2, <4>3
    <3>. QED  BY <3>1 DEF OutputAt
  <2>. QED  BY <2>1, <2>2, <2>3, <2>4 DEF Story
<1>. QED  BY <1>5, <1>7, <1>8, <1>9 DEF IInv

LEMMA DraftFailsKeeps ==
    ASSUME IInv, NEW r \in Runs, DraftFails(r) PROVE IInv'
<1>1. /\ stage[r] = "INPUT" /\ todo[r] = <<>> /\ ~asking[r] /\ verdict[r] # "BLOCK"
      /\ stage' = [stage EXCEPT ![r] = "failed"]
      /\ UNCHANGED <<file, policy, llm, registry, todo, verdict, asking, email, flag,
                     draft, raised, suspected, cache, judged>>
      /\ TypeOK /\ Story(r)
  BY DEF DraftFails, StageOver, IInv
<1>2. /\ RegistryOK' /\ PolicyLoaded' /\ CacheIsSound' /\ (Built => Built')
      /\ \A x : Enabled(policy, x)' <=> Enabled(policy, x)
  BY <1>1, CacheStays DEF Built, RegistryOK, PolicyLoaded, Enabled, IInv
<1>3. /\ stage' \in [Runs -> Stages \cup {"new", "over", "failed"}] /\ stage'[r] = "failed"
      /\ \A x \in Runs \ {r} : stage'[x] = stage[x]
  BY <1>1 DEF TypeOK
<1>4. TypeOK'
  BY <1>1, <1>3 DEF TypeOK
<1>5. ASSUME NEW x \in Runs \ {r} PROVE Story(x)'
  <2>1. Story(x) /\ Same(x)
    BY <1>1, <1>3 DEF IInv, Same
  <2>. QED  BY <1>2, <2>1, SameStory
<1>6. Story(r)'
  <2>1. ChainAt(r)'
    BY <1>1, <1>2, <1>3 DEF Story, ChainAt, Stages
  <2>2. \A y : OffDuty(r, y)' <=> OffDuty(r, y)
    BY <1>1 DEF OffDuty, DisabledOnPurpose, Ignored, FailModeOf
  <2>3. CauseAt(r)'
    BY <1>1 DEF Story, CauseAt, OnDraft, Enabled, FailModeOf
  <2>4. MarkerAt(r)'
    BY <1>1, <1>3, <2>2 DEF Story, MarkerAt, Stopped, In, Stages
  <2>5. OutputAt(r)'
    BY <1>3 DEF OutputAt
  <2>. QED  BY <2>1, <2>3, <2>4, <2>5 DEF Story
<1>. QED  BY <1>2, <1>4, <1>5, <1>6 DEF IInv

LEMMA ConcludeKeeps ==
    ASSUME IInv, NEW r \in Runs, Conclude(r) PROVE IInv'
<1>1. /\ stage[r] \in Stages /\ todo[r] = <<>> /\ ~asking[r]
      /\ stage[r] = "OUTPUT" \/ verdict[r] = "BLOCK"
      /\ stage' = [stage EXCEPT ![r] = "over"]
      /\ UNCHANGED <<file, policy, llm, registry, todo, verdict, asking, email, flag,
                     draft, raised, suspected, cache, judged>>
      /\ TypeOK /\ Story(r)
  BY DEF Conclude, StageOver, IInv
<1>2. /\ RegistryOK' /\ PolicyLoaded' /\ CacheIsSound' /\ (Built => Built')
      /\ \A x : Enabled(policy, x)' <=> Enabled(policy, x)
  BY <1>1, CacheStays DEF Built, RegistryOK, PolicyLoaded, Enabled, IInv
<1>3. /\ stage' \in [Runs -> Stages \cup {"new", "over", "failed"}] /\ stage'[r] = "over"
      /\ \A x \in Runs \ {r} : stage'[x] = stage[x]
  BY <1>1 DEF TypeOK
<1>4. TypeOK'
  BY <1>1, <1>3 DEF TypeOK
<1>5. ASSUME NEW x \in Runs \ {r} PROVE Story(x)'
  <2>1. Story(x) /\ Same(x)
    BY <1>1, <1>3 DEF IInv, Same
  <2>. QED  BY <1>2, <2>1, SameStory
<1>6. Story(r)'
  <2>1. ChainAt(r)'
    BY <1>1, <1>2, <1>3 DEF Story, ChainAt, Stages
  <2>2. \A y : OffDuty(r, y)' <=> OffDuty(r, y)
    BY <1>1 DEF OffDuty, DisabledOnPurpose, Ignored, FailModeOf
  <2>3. CauseAt(r)'
    BY <1>1 DEF Story, CauseAt, OnDraft, Enabled, FailModeOf
  <2>4. MarkerAt(r)'
    BY <1>1, <1>3, <2>2 DEF Story, MarkerAt, Stopped, In, Stages
  <2>5. OutputAt(r)'
    <3>1. \A y : Settled(r, y)' <=> Settled(r, y)
      BY <1>1 DEF Settled
    <3>. QED  BY <1>1, <1>3, <2>2, <3>1 DEF Story, OutputAt, Stages
  <2>. QED  BY <2>1, <2>3, <2>4, <2>5 DEF Story
<1>. QED  BY <1>2, <1>4, <1>5, <1>6 DEF IInv

LEMMA StutterKeeps == ASSUME IInv, UNCHANGED vars PROVE IInv'
<1>1. /\ UNCHANGED <<file, policy, llm, registry, stage, todo, verdict, asking, email, flag,
                     draft, raised, suspected, cache, judged>>
      /\ TypeOK /\ RegistryOK /\ PolicyLoaded /\ CacheIsSound
  BY DEF vars, IInv
<1>2. TypeOK'
  BY <1>1 DEF TypeOK
<1>3. RegistryOK' /\ PolicyLoaded' /\ CacheIsSound' /\ (Built => Built')
  BY <1>1, CacheStays DEF RegistryOK, PolicyLoaded, Built, Enabled
<1>4. ASSUME NEW x \in Runs PROVE Story(x)'
  <2>1. Same(x) /\ Story(x)
    BY <1>1 DEF Same, IInv
  <2>. QED  BY <1>3, <2>1, SameStory
<1>. QED  BY <1>2, <1>3, <1>4 DEF IInv

LEMMA NextIInv == ASSUME IInv, [Next]_vars PROVE IInv'
<1>1. CASE Next
  <2>1. PICK r \in Runs : Start(r) \/ Step(r)
    BY <1>1 DEF Next
  <2>2. CASE Start(r)
    BY <2>2, StartKeeps
  <2>3. CASE \E rail \in Rails : Check(r, rail)
    BY <2>3, CheckKeeps
  <2>4. CASE \E rail \in Rails : Raise(r, rail)
    BY <2>4, RaiseKeeps
  <2>5. CASE \E rail \in Rails : Judge(r, rail)
    BY <2>5, JudgeKeeps
  <2>6. CASE \E rail \in Judges, f \in BOOLEAN : Answered(r, rail, f)
    BY <2>6, AnsweredKeeps
  <2>7. CASE NoAnswer(r)
    BY <2>7, NoAnswerKeeps
  <2>8. CASE DraftIsWritten(r)
    BY <2>8, DraftIsWrittenKeeps
  <2>9. CASE Conclude(r)
    BY <2>9, ConcludeKeeps
  <2>10. CASE DraftFails(r)
    BY <2>10, DraftFailsKeeps
  <2>. QED  BY <2>1, <2>2, <2>3, <2>4, <2>5, <2>6, <2>7, <2>8, <2>9, <2>10 DEF Step
<1>2. CASE UNCHANGED vars
  BY <1>2, StutterKeeps
<1>. QED  BY <1>1, <1>2

(* The inductive invariant holds: what has been run of the chains agrees   *)
(* with the verdicts, the e-mails, the drafts and the flags.               *)
THEOREM SpecIInv == Spec => []IInv
<1>1. Init => IInv
  BY InitIInv
<1>2. IInv /\ [Next]_vars => IInv'
  BY NextIInv
<1>. QED  BY <1>1, <1>2, PTL DEF Spec

-----------------------------------------------------------------------------
(* What the stages promise. *)

(* Every variable keeps its type: no rail makes of an e-mail, a draft or a *)
(* verdict something the next rail does not know.                          *)
THEOREM PipelineTypeCorrect == Spec => []TypeOK
<1>1. IInv => TypeOK
  BY DEF IInv
<1>. QED  BY <1>1, SpecIInv, PTL

(* What has passed the OUTPUT stage: each rail was off duty or settled.    *)
LEMMA PassedFacts ==
    ASSUME IInv, NEW r \in Runs, Passed(r), NEW rail \in RailsOf["OUTPUT"] \ Judges
    PROVE  OffDuty(r, rail) \/ Settled(r, rail)
<1>1. todo[r] = <<>> /\ ~In(rail, <<>>)
  BY DEF IInv, Story, ChainAt, Passed, Stages, In
<1>. QED  BY <1>1 DEF IInv, Story, OutputAt, Passed

(* The verdict of a rail on the draft, whatever the flag.                  *)
LEMMA FlagIsForEscalation ==
    ASSUME NEW rail \in {"format_validator", "banned_content", "length_rail",
                         "recipient_allowlist"}, NEW r
    PROVE  OnDraft(r, rail) = VerdictOf(rail, policy, email[r], draft[r], flag[r])
  BY DEF OnDraft, VerdictOf

(* PassedDraftIsClean: a draft that goes to the reviewer is well-formed,   *)
(* free of secrets and redacted, unless the rail in charge was disabled    *)
(* on purpose, or raised and may fail open (pipeline.py, registry.py).     *)
THEOREM PassedDraftsAreClean == Spec => []PassedDraftIsClean
<1>1. ASSUME IInv PROVE PassedDraftIsClean
  <2> SUFFICES ASSUME NEW r \in Runs, Passed(r)
               PROVE  /\ OnDraft(r, "format_validator") = "BLOCK" => OffDuty(r, "format_validator")
                      /\ OnDraft(r, "banned_content") = "BLOCK" => OffDuty(r, "banned_content")
                      /\ draft[r].pii => OffDuty(r, "pii_redactor")
    BY DEF PassedDraftIsClean
  <2>1. /\ "format_validator" \in RailsOf["OUTPUT"] \ Judges
        /\ "banned_content" \in RailsOf["OUTPUT"] \ Judges
        /\ "pii_redactor" \in RailsOf["OUTPUT"] \ Judges
    BY DEF RailsOf, Judges
  <2>2. \A rail \in RailsOf["OUTPUT"] \ Judges : OffDuty(r, rail) \/ Settled(r, rail)
    BY <1>1, PassedFacts
  <2>3. OnDraft(r, "format_validator") = "BLOCK" => OffDuty(r, "format_validator")
    BY <2>1, <2>2, FlagIsForEscalation DEF Settled
  <2>4. OnDraft(r, "banned_content") = "BLOCK" => OffDuty(r, "banned_content")
    BY <2>1, <2>2, FlagIsForEscalation DEF Settled
  <2>5. draft[r].pii => OffDuty(r, "pii_redactor")
    BY <2>1, <2>2 DEF Settled
  <2>. QED  BY <2>3, <2>4, <2>5
<1>. QED  BY <1>1, SpecIInv, PTL

(* BodiesAreNeutralised: the bodies the agent is given hold no marker the  *)
(* injection rail would have wrapped, unless that rail was off duty        *)
(* (orchestrator.py:76-90).  Where no sender and no subject of a thread    *)
(* holds a marker, that is all the agent reads, and what ADR 0002 says     *)
(* follows: AgentReadsNoRawMarker.                                         *)
THEOREM BodiesReachTheAgentNeutralised ==
    Spec => /\ []BodiesAreNeutralised
            /\ MarkedHeaders = {} => []AgentReadsNoRawMarker
<1>1. ASSUME IInv PROVE BodiesAreNeutralised
  <2>1. ASSUME NEW r \in Runs, stage[r] = "OUTPUT", email[r].marker = "raw"
        PROVE  OffDuty(r, "prompt_injection")
    BY <1>1, <2>1 DEF IInv, Story, MarkerAt, Stopped
  <2>. QED  BY <2>1 DEF BodiesAreNeutralised
<1>2. Spec => []BodiesAreNeutralised
  BY <1>1, SpecIInv, PTL
<1>3. ASSUME MarkedHeaders = {} PROVE BodiesAreNeutralised => AgentReadsNoRawMarker
  BY <1>3 DEF BodiesAreNeutralised, AgentReadsNoRawMarker, ReadsRawMarker
<1>4. CASE MarkedHeaders = {}
  <2>1. BodiesAreNeutralised => AgentReadsNoRawMarker
    BY <1>3, <1>4
  <2>. QED  BY <1>2, <2>1, PTL
<1>5. CASE MarkedHeaders # {}
  BY <1>2, <1>5
<1>. QED  BY <1>4, <1>5

(* SuspicionForcesReview: a run in which the INPUT stage wrapped a marker, *)
(* or its judge suspected an injection, passes the OUTPUT stage only as    *)
(* REQUIRE_APPROVAL (injection_escalation reads the flag of the INPUT      *)
(* stage from the shared context).                                         *)
THEOREM SuspicionIsNotForgotten == Spec => []SuspicionForcesReview
<1>1. ASSUME IInv PROVE SuspicionForcesReview
  <2> SUFFICES ASSUME NEW r \in Runs, Passed(r), ~OffDuty(r, "injection_escalation")
               PROVE  \/ verdict[r] = "REQUIRE_APPROVAL"
                      \/ /\ ~suspected[r]
                         /\ email[r].marker = "none" \/ OffDuty(r, "prompt_injection")
    BY DEF SuspicionForcesReview
  <2>1. "injection_escalation" \in RailsOf["OUTPUT"] \ Judges
    BY DEF RailsOf, Judges
  <2>2. Settled(r, "injection_escalation")
    BY <1>1, <2>1, PassedFacts
  <2>3. flag[r] => verdict[r] = "REQUIRE_APPROVAL"
    BY <2>2 DEF Settled, VerdictOf, InjectionEscalation
  <2>4. /\ email[r].marker \in {"none", "raw", "wrapped"}
        /\ MarkerAt(r) /\ ~Stopped(r) /\ stage[r] = "over"
    BY <1>1 DEF IInv, TypeOK, Emails, Story, Passed, Stopped
  <2>. QED  BY <2>3, <2>4 DEF MarkerAt
<1>. QED  BY <1>1, SpecIInv, PTL

(* EscalationIsNotLost: what the length rail or the allow-list asked a     *)
(* human to look at is still REQUIRE_APPROVAL when the stage is over: the  *)
(* fold never goes back (strictest(), pipeline.py).                        *)
THEOREM EscalationsAreNotLost == Spec => []EscalationIsNotLost
<1>1. ASSUME IInv PROVE EscalationIsNotLost
  <2> SUFFICES ASSUME NEW r \in Runs, Passed(r),
                      NEW rail \in {"length_rail", "recipient_allowlist"},
                      OnDraft(r, rail) = "REQUIRE_APPROVAL", ~OffDuty(r, rail)
               PROVE  verdict[r] = "REQUIRE_APPROVAL"
    BY DEF EscalationIsNotLost
  <2>1. rail \in RailsOf["OUTPUT"] \ Judges
    BY DEF RailsOf, Judges
  <2>2. Settled(r, rail)
    BY <1>1, <2>1, PassedFacts
  <2>. QED  BY <2>2, FlagIsForEscalation DEF Settled
<1>. QED  BY <1>1, SpecIInv, PTL

(* BlockHasACause: a run is blocked only because an enabled deterministic  *)
(* rail objects to the draft as it is, or because a rail that fails closed *)
(* raised; no judge ever stops a workflow (llm_judge.py:11-16).            *)
THEOREM BlocksHaveACause == Spec => []BlockHasACause
<1>1. IInv => BlockHasACause
  BY DEF IInv, Story, CauseAt, BlockHasACause
<1>. QED  BY <1>1, SpecIInv, PTL

(* CacheIsSound: the shared cache of the judges stays within its bound,    *)
(* has one entry per question and answers it as the LLM did, however the   *)
(* look-ups and the late answers of the workflows interleave.              *)
THEOREM CacheStaysSound == Spec => []CacheIsSound
<1>1. IInv => CacheIsSound
  BY DEF IInv
<1>. QED  BY <1>1, SpecIInv, PTL

-----------------------------------------------------------------------------
(* What one step does to a run: a rail, a suspension, or a move to the     *)
(* next stage.                                                             *)

RailIsRun(r) ==
    /\ stage[r] \in Stages /\ stage'[r] = stage[r]
    /\ todo[r] # <<>> /\ todo'[r] \in {<<>>, Tail(todo[r])} /\ ~asking'[r]
    /\ \E v \in Verdicts : verdict'[r] = Strictest(verdict[r], v)
    /\ stage[r] = "OUTPUT" =>
          /\ flag'[r] = flag[r] /\ email'[r] = email[r]
          /\ draft'[r] \in {draft[r], [draft[r] EXCEPT !.pii = FALSE]}

Suspends(r) ==
    /\ stage[r] \in Stages /\ todo[r] # <<>> /\ ~asking[r] /\ asking'[r]
    /\ stage'[r] = stage[r] /\ todo'[r] = todo[r] /\ verdict'[r] = verdict[r]
    /\ flag'[r] = flag[r] /\ email'[r] = email[r] /\ draft'[r] = draft[r]

NextStage(r) ==
    /\ stage[r] = "INPUT" /\ todo[r] = <<>> /\ ~asking[r]
    /\ stage'[r] = "OUTPUT" /\ todo'[r] = registry["OUTPUT"] /\ ~asking'[r]

Ended(r) ==
    /\ stage[r] \in Stages /\ todo[r] = <<>> /\ ~asking[r]
    /\ stage'[r] \in {"over", "failed"} /\ (stage[r] = "OUTPUT" => stage'[r] = "over")
    /\ todo'[r] = <<>> /\ ~asking'[r] /\ verdict'[r] = verdict[r]
    /\ flag'[r] = flag[r] /\ email'[r] = email[r] /\ draft'[r] = draft[r]

Shaped(r) == RailIsRun(r) \/ Suspends(r) \/ NextStage(r) \/ Ended(r)

(* Of a run whose rail is in turn, or that waits for a judge.              *)
LEMMA InTurnFacts ==
    ASSUME IInv, NEW r \in Runs, NEW rail \in Rails, todo[r] # <<>>, Head(todo[r]) = rail
    PROVE  /\ stage[r] \in Stages /\ rail \in RailsOf[stage[r]]
           /\ stage[r] = "OUTPUT" => rail \notin RailsOf["INPUT"]
<1>1. TypeOK /\ ChainAt(r)
  BY DEF IInv, Story
<1>2. In(rail, todo[r])
  BY <1>1, RunTypes, InTail
<1>3. stage[r] \in Stages /\ rail \in RailsOf[stage[r]]
  BY <1>1, <1>2 DEF ChainAt
<1>4. RailsOf["INPUT"] \cap RailsOf["OUTPUT"] = {}
  BY DEF RailsOf
<1>. QED  BY <1>3, <1>4

(* What a fold does to the run it belongs to.                              *)
LEMMA FoldShape ==
    ASSUME IInv, NEW r \in Runs, todo[r] # <<>>, NEW v \in Verdicts, Fold(r, v)
    PROVE  /\ todo'[r] \in {<<>>, Tail(todo[r])}
           /\ verdict'[r] = Strictest(verdict[r], v)
           /\ \A x \in Runs \ {r} : verdict'[x] = verdict[x] /\ todo'[x] = todo[x]
<1>1. TypeOK
  BY DEF IInv
<1>. QED  BY <1>1, FoldTypes

(* Others are left alone: by a step of r, x keeps what is its own.         *)
Alone(x) ==
    /\ stage'[x] = stage[x] /\ todo'[x] = todo[x] /\ asking'[x] = asking[x]
    /\ verdict'[x] = verdict[x] /\ flag'[x] = flag[x] /\ email'[x] = email[x]
    /\ draft'[x] = draft[x]

LEMMA CheckShape ==
    ASSUME IInv, NEW r \in Runs, NEW rail \in Rails, Check(r, rail)
    PROVE  RailIsRun(r) /\ \A x \in Runs \ {r} : Alone(x)
<1> DEFINE v == VerdictOf(rail, policy, email[r], draft[r], flag[r])
<1>1. /\ todo[r] # <<>> /\ Head(todo[r]) = rail /\ ~asking[r] /\ rail \in Rails \ Judges
      /\ Fold(r, v)
      /\ email' = IF rail = "prompt_injection" THEN Wrapped(r) ELSE email
      /\ flag' = [flag EXCEPT ![r] = @ \/ (rail = "prompt_injection" /\ v = "TRANSFORM")]
      /\ draft' = [draft EXCEPT ![r].pii = @ /\ rail # "pii_redactor"]
      /\ UNCHANGED <<stage, asking>>
  BY DEF Check, InTurn
<1>2. TypeOK /\ flag \in [Runs -> BOOLEAN] /\ email \in [Runs -> Emails(EmailIds)]
      /\ draft \in [Runs -> Draft] /\ draft[r] \in Draft
  BY DEF IInv, TypeOK
<1>3. v \in Verdicts
  BY <1>1, <1>2, VerdictFacts
<1> HIDE DEF v
<1>4. /\ todo'[r] \in {<<>>, Tail(todo[r])}
      /\ verdict'[r] = Strictest(verdict[r], v)
      /\ \A x \in Runs \ {r} : verdict'[x] = verdict[x] /\ todo'[x] = todo[x]
  BY <1>1, <1>3, FoldShape
<1>5. /\ stage[r] \in Stages
      /\ stage[r] = "OUTPUT" => rail # "prompt_injection"
  BY <1>1, InTurnFacts DEF RailsOf
<1>6. \A x \in Runs \ {r} : flag'[x] = flag[x] /\ email'[x] = email[x] /\ draft'[x] = draft[x]
  BY <1>1, <1>2 DEF Wrapped
<1>7. rail # "prompt_injection" => email'[r] = email[r] /\ flag'[r] = flag[r]
  BY <1>1, <1>2
<1>8. draft'[r] \in {draft[r], [draft[r] EXCEPT !.pii = FALSE]}
  <2>1. draft'[r] = [draft[r] EXCEPT !.pii = @ /\ rail # "pii_redactor"]
    BY <1>1, <1>2
  <2>2. CASE rail # "pii_redactor"
    <3>1. [draft[r] EXCEPT !.pii = @ /\ rail # "pii_redactor"] = draft[r]
      BY <1>2, <2>2 DEF Draft
    <3>. QED  BY <2>1, <3>1
  <2>3. CASE rail = "pii_redactor"
    <3>1. [draft[r] EXCEPT !.pii = @ /\ rail # "pii_redactor"] = [draft[r] EXCEPT !.pii = FALSE]
      BY <1>2, <2>3 DEF Draft
    <3>. QED  BY <2>1, <3>1
  <2>. QED  BY <2>2, <2>3
<1>9. RailIsRun(r)
  BY <1>1, <1>3, <1>4, <1>5, <1>7, <1>8 DEF RailIsRun
<1>. QED  BY <1>1, <1>4, <1>6, <1>9 DEF Alone

LEMMA RaiseShape ==
    ASSUME IInv, NEW r \in Runs, NEW rail \in Rails, Raise(r, rail)
    PROVE  RailIsRun(r) /\ \A x \in Runs \ {r} : Alone(x)
<1> DEFINE v == IF FailModeOf(policy, rail) = "CLOSED" THEN "BLOCK" ELSE "ALLOW"
<1>1. /\ todo[r] # <<>> /\ Head(todo[r]) = rail /\ ~asking[r]
      /\ Fold(r, v)
      /\ email' \in {email, IF rail = "prompt_injection" THEN Wrapped(r) ELSE email}
      /\ UNCHANGED <<stage, asking, flag, draft>>
  BY DEF Raise, InTurn
<1>2. v \in Verdicts
  BY DEF Verdicts
<1>3. email \in [Runs -> Emails(EmailIds)]
  BY DEF IInv, TypeOK
<1> HIDE DEF v
<1>4. /\ todo'[r] \in {<<>>, Tail(todo[r])}
      /\ verdict'[r] = Strictest(verdict[r], v)
      /\ \A x \in Runs \ {r} : verdict'[x] = verdict[x] /\ todo'[x] = todo[x]
  BY <1>1, <1>2, FoldShape
<1>5. /\ stage[r] \in Stages
      /\ stage[r] = "OUTPUT" => rail # "prompt_injection"
  BY <1>1, InTurnFacts DEF RailsOf
<1>6. \A x \in Runs \ {r} : email'[x] = email[x]
  BY <1>1, <1>3 DEF Wrapped
<1>7. rail # "prompt_injection" => email'[r] = email[r]
  BY <1>1
<1>8. RailIsRun(r)
  BY <1>1, <1>2, <1>4, <1>5, <1>7 DEF RailIsRun
<1>. QED  BY <1>1, <1>4, <1>6, <1>8 DEF Alone

(* A judge has a verdict.                                                  *)
LEMMA InterpretShape ==
    ASSUME IInv, NEW r \in Runs, NEW rail \in Judges, NEW f,
           todo[r] # <<>>, Head(todo[r]) = rail, Interpret(r, rail, f), ~asking'[r],
           \A x \in Runs \ {r} : asking'[x] = asking[x], UNCHANGED <<stage, email, draft>>
    PROVE  RailIsRun(r) /\ \A x \in Runs \ {r} : Alone(x)
<1> DEFINE v == IF f THEN "REQUIRE_APPROVAL" ELSE "ALLOW"
<1>1. v \in Verdicts /\ Fold(r, v)
  BY DEF Verdicts, Interpret
<1>2. /\ flag' = [flag EXCEPT ![r] = @ \/ (f /\ rail = "injection_intent")]
      /\ flag \in [Runs -> BOOLEAN]
  BY DEF Interpret, IInv, TypeOK
<1> HIDE DEF v
<1>3. /\ todo'[r] \in {<<>>, Tail(todo[r])}
      /\ verdict'[r] = Strictest(verdict[r], v)
      /\ \A x \in Runs \ {r} : verdict'[x] = verdict[x] /\ todo'[x] = todo[x]
  BY <1>1, FoldShape
<1>4. /\ stage[r] \in Stages
      /\ stage[r] = "OUTPUT" => rail # "injection_intent"
  BY InTurnFacts DEF RailsOf, Rails
<1>5. \A x \in Runs \ {r} : flag'[x] = flag[x]
  BY <1>2
<1>6. rail # "injection_intent" => flag'[r] = flag[r]
  BY <1>2
<1>7. RailIsRun(r)
  BY <1>1, <1>3, <1>4, <1>6 DEF RailIsRun
<1>. QED  BY <1>3, <1>5, <1>7 DEF Alone

(* A judge allows without having asked, or without an answer.              *)
LEMMA AllowShape ==
    ASSUME IInv, NEW r \in Runs, todo[r] # <<>>, Head(todo[r]) \in Judges, Fold(r, "ALLOW"),
           ~asking'[r], \A x \in Runs \ {r} : asking'[x] = asking[x],
           UNCHANGED <<stage, email, draft, flag>>
    PROVE  RailIsRun(r) /\ \A x \in Runs \ {r} : Alone(x)
<1>1. "ALLOW" \in Verdicts
  BY DEF Verdicts
<1>2. /\ todo'[r] \in {<<>>, Tail(todo[r])}
      /\ verdict'[r] = Strictest(verdict[r], "ALLOW")
      /\ \A x \in Runs \ {r} : verdict'[x] = verdict[x] /\ todo'[x] = todo[x]
  BY <1>1, FoldShape
<1>3. stage[r] \in Stages
  BY InTurnFacts DEF Rails
<1>4. RailIsRun(r)
  BY <1>1, <1>2, <1>3 DEF RailIsRun
<1>. QED  BY <1>2, <1>4 DEF Alone

LEMMA JudgeShape ==
    ASSUME IInv, NEW r \in Runs, NEW rail \in Rails, Judge(r, rail)
    PROVE  (RailIsRun(r) \/ Suspends(r)) /\ \A x \in Runs \ {r} : Alone(x)
<1> DEFINE key == Key(r, rail)
<1>1. /\ ~asking[r] /\ todo[r] # <<>> /\ Head(todo[r]) = rail /\ rail \in Judges
      /\ UNCHANGED <<stage, email, draft>>
      /\ asking \in [Runs -> BOOLEAN]
  BY DEF Judge, InTurn, IInv, TypeOK
<1>2. CASE Fold(r, "ALLOW") /\ UNCHANGED <<asking, flag>>
  BY <1>1, <1>2, AllowShape
<1>3. CASE Interpret(r, rail, Answer(key)) /\ UNCHANGED asking
  <2> HIDE DEF key
  <2>. QED  BY <1>1, <1>3, InterpretShape
<1>4. CASE asking' = [asking EXCEPT ![r] = TRUE] /\ UNCHANGED <<todo, verdict, flag>>
  <2>1. stage[r] \in Stages
    BY <1>1, InTurnFacts
  <2>2. asking'[r] /\ \A x \in Runs \ {r} : asking'[x] = asking[x]
    BY <1>1, <1>4
  <2>. QED  BY <1>1, <1>4, <2>1, <2>2 DEF Suspends, Alone
<1>. QED  BY <1>2, <1>3, <1>4 DEF Judge

LEMMA StepShape ==
    ASSUME IInv, NEW r \in Runs, Step(r)
    PROVE  Shaped(r) /\ registry' = registry /\ \A x \in Runs \ {r} : Alone(x)
<1>1. registry' = registry
  BY DEF Step, Check, Raise, Judge, Answered, NoAnswer, DraftIsWritten, DraftFails, Conclude
<1>2. CASE \E rail \in Rails : Check(r, rail)
  BY <1>1, <1>2, CheckShape DEF Shaped
<1>3. CASE \E rail \in Rails : Raise(r, rail)
  BY <1>1, <1>3, RaiseShape DEF Shaped
<1>4. CASE \E rail \in Rails : Judge(r, rail)
  BY <1>1, <1>4, JudgeShape DEF Shaped
<1>5. ASSUME asking[r], asking' = [asking EXCEPT ![r] = FALSE]
      PROVE  /\ todo[r] # <<>> /\ Head(todo[r]) \in Judges
             /\ ~asking'[r] /\ \A x \in Runs \ {r} : asking'[x] = asking[x]
  <2>1. asking \in [Runs -> BOOLEAN]
    BY DEF IInv, TypeOK
  <2>. QED  BY <1>5, <2>1, WaitingFacts
<1>6. CASE \E rail \in Judges, f \in BOOLEAN : Answered(r, rail, f)
  <2>1. PICK rail \in Judges, f \in BOOLEAN : Answered(r, rail, f)
    BY <1>6
  <2>2. /\ asking[r] /\ asking' = [asking EXCEPT ![r] = FALSE] /\ rail = Head(todo[r])
        /\ Interpret(r, rail, f) /\ UNCHANGED <<stage, email, draft>>
    BY <2>1 DEF Answered
  <2>3. RailIsRun(r) /\ \A x \in Runs \ {r} : Alone(x)
    BY <1>5, <2>2, InterpretShape
  <2>. QED  BY <1>1, <2>3 DEF Shaped
<1>7. CASE NoAnswer(r)
  <2>1. /\ asking[r] /\ asking' = [asking EXCEPT ![r] = FALSE] /\ Fold(r, "ALLOW")
        /\ UNCHANGED <<stage, email, draft, flag>>
    BY <1>7 DEF NoAnswer
  <2>2. RailIsRun(r) /\ \A x \in Runs \ {r} : Alone(x)
    BY <1>5, <2>1, AllowShape
  <2>. QED  BY <1>1, <2>2 DEF Shaped
<1>8. CASE DraftIsWritten(r)
  <2>1. PICK d \in Drafts : draft' = [draft EXCEPT ![r] = d]
    BY <1>8 DEF DraftIsWritten
  <2>2. /\ stage[r] = "INPUT" /\ todo[r] = <<>> /\ ~asking[r]
        /\ stage' = [stage EXCEPT ![r] = "OUTPUT"]
        /\ todo' = [todo EXCEPT ![r] = registry["OUTPUT"]]
        /\ verdict' = [verdict EXCEPT ![r] = "ALLOW"]
        /\ UNCHANGED <<asking, email, flag>>
    BY <1>8 DEF DraftIsWritten, StageOver
  <2>3. TypeOK
    BY DEF IInv
  <2>4. NextStage(r) /\ \A x \in Runs \ {r} : Alone(x)
    BY <2>1, <2>2, <2>3 DEF TypeOK, NextStage, Alone
  <2>. QED  BY <1>1, <2>4 DEF Shaped
<1>9. CASE Conclude(r)
  <2>1. /\ stage[r] \in Stages /\ todo[r] = <<>> /\ ~asking[r]
        /\ stage' = [stage EXCEPT ![r] = "over"]
        /\ UNCHANGED <<todo, verdict, asking, email, flag, draft>>
        /\ stage \in [Runs -> Stages \cup {"new", "over", "failed"}]
    BY <1>9 DEF Conclude, StageOver, IInv, TypeOK
  <2>2. Ended(r) /\ \A x \in Runs \ {r} : Alone(x)
    BY <2>1 DEF Ended, Alone
  <2>. QED  BY <1>1, <2>2 DEF Shaped
<1>10. CASE DraftFails(r)
  <2>1. /\ stage[r] = "INPUT" /\ todo[r] = <<>> /\ ~asking[r]
        /\ stage' = [stage EXCEPT ![r] = "failed"]
        /\ UNCHANGED <<todo, verdict, asking, email, flag, draft>>
        /\ stage \in [Runs -> Stages \cup {"new", "over", "failed"}]
    BY <1>10 DEF DraftFails, StageOver, IInv, TypeOK
  <2>2. Ended(r) /\ \A x \in Runs \ {r} : Alone(x)
    BY <2>1 DEF Ended, Alone, Stages
  <2>. QED  BY <1>1, <2>2 DEF Shaped
<1>. QED  BY <1>2, <1>3, <1>4, <1>6, <1>7, <1>8, <1>9, <1>10 DEF Step

LEMMA StartShape ==
    ASSUME IInv, NEW r \in Runs, Start(r)
    PROVE  /\ \A x \in Runs \ {r} : Alone(x)
           /\ stage[r] = "new" /\ stage'[r] = "INPUT" /\ verdict'[r] = verdict[r]
           /\ Built => registry'["OUTPUT"] = registry["OUTPUT"]
<1>1. /\ stage[r] = "new" /\ BuildDefaultGuardrails
      /\ stage' = [stage EXCEPT ![r] = "INPUT"]
      /\ todo' = [todo EXCEPT ![r] = registry'["INPUT"]]
      /\ UNCHANGED <<verdict, asking, email, flag, draft>>
      /\ TypeOK /\ "OUTPUT" \in Stages
  BY DEF Start, IInv, Stages
<1>2. ASSUME Built PROVE registry'["OUTPUT"] = registry["OUTPUT"]
  <2>1. CASE registry["OUTPUT"] # <<>>
    BY <1>1, <2>1 DEF BuildDefaultGuardrails
  <2>2. CASE registry["OUTPUT"] = <<>>
    <3> DEFINE c == Registered(policy)["OUTPUT"]
    <3>1. \A x : ~In(x, <<>>)
      BY DEF In
    <3>2. \A x \in RailsOf["OUTPUT"] : ~Enabled(policy, x)
      BY <1>1, <1>2, <2>2, <3>1 DEF Built
    <3>3. c \in Seq(Rails) /\ \A x : ~In(x, c)
      BY <1>1, <3>2, RegisteredRails
    <3>4. registry'["OUTPUT"] = <<>> \o c
      BY <1>1, <2>2 DEF BuildDefaultGuardrails
    <3> HIDE DEF c
    <3>5. c = <<>>
      <4>1. c # <<>> => In(Head(c), c)
        BY <3>3, InTail
      <4>. QED  BY <3>3, <4>1
    <3>. QED  BY <2>2, <3>4, <3>5
  <2>. QED  BY <2>1, <2>2
<1>3. stage'[r] = "INPUT" /\ \A x \in Runs \ {r} : stage'[x] = stage[x] /\ todo'[x] = todo[x]
  BY <1>1 DEF TypeOK
<1>. QED  BY <1>1, <1>2, <1>3 DEF Alone

-----------------------------------------------------------------------------
(* What EmailWorkflow takes a stage for: its InputGuardrails and its       *)
(* OutputGuardrails are one step each.                                     *)

(* A flag of the INPUT stage makes the OUTPUT stage ask for a review,      *)
(* unless the escalating rail is off duty: the guard of                    *)
(* EmailWorkflow!OutputGuardrails, whose watched runs are the others.      *)
FlagForcesReview ==
    \A r \in Runs : Passed(r) /\ flag[r] /\ ~OffDuty(r, "injection_escalation")
                        => verdict[r] = "REQUIRE_APPROVAL"

(* In the OUTPUT stage nothing but the draft changes, and of the draft     *)
(* only the personal data go; in neither stage does a verdict weaken.      *)
StagesStayInBounds ==
    [][\A r \in Runs :
          /\ stage[r] = "OUTPUT" =>
                /\ stage'[r] \in {"OUTPUT", "over"}
                /\ flag'[r] = flag[r] /\ email'[r] = email[r]
                /\ draft'[r] \in {draft[r], [draft[r] EXCEPT !.pii = FALSE]}
          /\ stage'[r] \in {stage[r], "over"} =>
                VERDICT_RANK[verdict[r]] <= VERDICT_RANK[verdict'[r]]]_vars

LEMMA FoldNeverWeakens ==
    ASSUME NEW a \in Verdicts, NEW b \in Verdicts
    PROVE  VERDICT_RANK[a] <= VERDICT_RANK[Strictest(a, b)]
  BY DEF Strictest, Verdicts, VERDICT_RANK

(* EmailWorkflow runs a stage in one step and lets its flag stand; that is *)
(* what the chains of rails and judges of pipeline.py come to, whatever    *)
(* other workflows do between two rails.                                   *)
THEOREM StagesKeepTheirContract == Spec => []FlagForcesReview /\ StagesStayInBounds
<1>1. IInv => FlagForcesReview
  <2> SUFFICES ASSUME IInv, NEW r \in Runs, Passed(r), flag[r],
                      ~OffDuty(r, "injection_escalation")
               PROVE  verdict[r] = "REQUIRE_APPROVAL"
    BY DEF FlagForcesReview
  <2>1. "injection_escalation" \in RailsOf["OUTPUT"] \ Judges
    BY DEF RailsOf, Judges
  <2>2. Settled(r, "injection_escalation")
    BY <2>1, PassedFacts
  <2>. QED  BY <2>2 DEF Settled, VerdictOf, InjectionEscalation
<1> DEFINE Bounded(r) ==
          /\ stage[r] = "OUTPUT" =>
                /\ stage'[r] \in {"OUTPUT", "over"}
                /\ flag'[r] = flag[r] /\ email'[r] = email[r]
                /\ draft'[r] \in {draft[r], [draft[r] EXCEPT !.pii = FALSE]}
          /\ stage'[r] \in {stage[r], "over"} =>
                VERDICT_RANK[verdict[r]] <= VERDICT_RANK[verdict'[r]]
<1>2. ASSUME NEW r \in Runs, IInv
      PROVE  verdict[r] \in Verdicts /\ VERDICT_RANK[verdict[r]] <= VERDICT_RANK[verdict[r]]
    BY <1>2 DEF IInv, TypeOK, Verdicts, VERDICT_RANK
<1>3. ASSUME NEW r \in Runs, IInv, Alone(r) PROVE Bounded(r)
    BY <1>2, <1>3 DEF Alone
<1>4. ASSUME NEW r \in Runs, IInv, Shaped(r) PROVE Bounded(r)
  <2>1. CASE RailIsRun(r)
    <3>1. VERDICT_RANK[verdict[r]] <= VERDICT_RANK[verdict'[r]]
      BY <1>2, <1>4, <2>1, FoldNeverWeakens DEF RailIsRun
    <3>. QED  BY <2>1, <3>1 DEF RailIsRun
  <2>2. CASE Suspends(r) \/ Ended(r)
    BY <1>2, <1>4, <2>2 DEF Suspends, Ended
  <2>3. CASE NextStage(r)
    BY <2>3 DEF NextStage
  <2>. QED  BY <1>4, <2>1, <2>2, <2>3 DEF Shaped
<1>5. ASSUME IInv, [Next]_vars, NEW r \in Runs PROVE Bounded(r)
  <2> HIDE DEF Bounded
  <2>1. CASE UNCHANGED vars
    <3>1. Alone(r)
      BY <2>1 DEF vars, Alone
    <3>. QED  BY <1>3, <1>5, <3>1
  <2>2. ASSUME NEW x \in Runs, Step(x) PROVE Bounded(r)
    BY <1>3, <1>4, <1>5, <2>2, StepShape
  <2>3. ASSUME NEW x \in Runs, Start(x) PROVE Bounded(r)
    <3>1. CASE x = r
      <4>1. stage[r] = "new" /\ stage'[r] = "INPUT"
        BY <1>5, <2>3, <3>1, StartShape
      <4>. QED  BY <4>1 DEF Bounded
    <3>2. CASE x # r
      BY <1>3, <1>5, <2>3, <3>2, StartShape
    <3>. QED  BY <3>1, <3>2
  <2>. QED  BY <1>5, <2>1, <2>2, <2>3 DEF Next
<1>6. IInv /\ [Next]_vars => \A r \in Runs : Bounded(r)
  BY <1>5
<1>. QED  BY <1>1, <1>6, SpecIInv, PTL DEF Spec, StagesStayInBounds

-----------------------------------------------------------------------------
(* Why a run comes to an end. *)

(* What a run that has started may still do: a rail in turn is run, or     *)
(* first waits for its judge; the OUTPUT chain is to come; run() gets the  *)
(* verdict.                                                                *)
Chain(r) == 2 * Len(todo[r]) - (IF asking[r] THEN 1 ELSE 0)

Work(r) == CASE stage[r] = "INPUT"  -> Chain(r) + 2 * Len(registry["OUTPUT"]) + 2
             [] stage[r] = "OUTPUT" -> Chain(r) + 1
             [] OTHER               -> 0

(* Every step of a run uses some of its work up, and no other adds to it.  *)
StepsUseUpWork ==
    [][\A r \in Runs : stage[r] # "new" =>
          /\ Work(r)' <= Work(r)
          /\ Step(r) => Work(r)' < Work(r)]_vars

LEMMA LengthFacts ==
    ASSUME IInv, NEW r \in Runs
    PROVE  /\ Len(todo[r]) \in Nat /\ Len(registry["OUTPUT"]) \in Nat
           /\ todo[r] # <<>> => /\ Len(todo[r]) >= 1
                                /\ Len(Tail(todo[r])) = Len(todo[r]) - 1
           /\ Len(<<>>) = 0
<1>1. TypeOK /\ "OUTPUT" \in Stages
  BY DEF IInv, Stages
<1>2. todo[r] \in Seq(Rails) /\ registry["OUTPUT"] \in Seq(Rails)
  BY <1>1 DEF TypeOK
<1>3. todo[r] # <<>> => Len(todo[r]) \in Nat \ {0} /\ Len(Tail(todo[r])) = Len(todo[r]) - 1
  BY <1>2, HeadTailProperties, EmptySeq
<1>. QED  BY <1>2, <1>3, EmptySeq, LenProperties

LEMMA WorkIsNat ==
    ASSUME IInv, NEW r \in Runs
    PROVE  Work(r) \in Nat /\ (stage[r] # "new" => (Work(r) = 0 <=> stage[r] \in {"over", "failed"}))
<1>1. ChainAt(r) /\ stage[r] \in {"INPUT", "OUTPUT", "new", "over", "failed"}
  BY DEF IInv, Story, TypeOK, Stages
<1>2. asking[r] => Len(todo[r]) >= 1
  BY <1>1, LengthFacts DEF ChainAt
<1>3. Chain(r) \in Nat
  BY <1>2, LengthFacts DEF Chain
<1>4. CASE stage[r] = "INPUT"
  BY <1>3, <1>4, LengthFacts DEF Work
<1>5. CASE stage[r] = "OUTPUT"
  BY <1>3, <1>5 DEF Work
<1>6. CASE stage[r] \in {"new", "over", "failed"}
  BY <1>6 DEF Work
<1>. QED  BY <1>1, <1>4, <1>5, <1>6

(* A stage that goes on with a shorter chain has less to do.               *)
LEMMA ShorterIsLess ==
    ASSUME NEW r, stage[r] \in Stages, stage'[r] = stage[r], registry' = registry,
           Len(registry["OUTPUT"]) \in Nat, Chain(r) \in Int, Chain(r)' \in Int,
           Chain(r)' < Chain(r)
    PROVE  Work(r) \in Int /\ Work(r)' \in Int /\ Work(r)' < Work(r)
<1>1. \A c, d \in Int, n \in Nat :
          d < c => c + n \in Int /\ d + n \in Int /\ d + n < c + n
  OBVIOUS
<1>2. CASE stage[r] = "INPUT"
  <2> DEFINE n == 2 * Len(registry["OUTPUT"]) + 2
  <2>1. n \in Nat
    OBVIOUS
  <2>2. Work(r) = Chain(r) + n /\ Work(r)' = Chain(r)' + n
    BY <1>2 DEF Work
  <2> HIDE DEF n
  <2>. QED  BY <1>1, <2>1, <2>2
<1>3. CASE stage[r] = "OUTPUT"
  <2>1. Work(r) = Chain(r) + 1 /\ Work(r)' = Chain(r)' + 1
    BY <1>3 DEF Work
  <2>. QED  BY <1>1, <2>1
<1>. QED  BY <1>2, <1>3 DEF Stages

(* No failure of a rail or a judge, no hit or miss of the cache and no     *)
(* other workflow, also one that builds the registry again, sends a run    *)
(* round in circles: its work is a natural number, zero only when it is    *)
(* over, and shrinks with each of its steps.  EveryRunGetsAVerdict adds    *)
(* that it takes them (pipeline.py run).                                   *)
THEOREM RunsUseUpTheirWork ==
    Spec => /\ [](\A r \in Runs : stage[r] # "new" =>
                      Work(r) \in Nat /\ (Work(r) = 0 <=> stage[r] \in {"over", "failed"}))
            /\ StepsUseUpWork
<1> DEFINE Measured == \A r \in Runs : stage[r] # "new" =>
                          Work(r) \in Nat /\ (Work(r) = 0 <=> stage[r] \in {"over", "failed"})
           Shrinks(r) == stage[r] # "new" => /\ Work(r)' <= Work(r)
                                             /\ Step(r) => Work(r)' < Work(r)
<1>1. IInv => Measured
  BY WorkIsNat
<1>2. ASSUME IInv, NEW r \in Runs, Shaped(r), registry' = registry
      PROVE  Work(r)' \in Int /\ Work(r)' < Work(r)
  <2>1. Len(todo[r]) \in Nat /\ Len(registry["OUTPUT"]) \in Nat /\ Len(<<>>) = 0
    BY <1>2, LengthFacts
  <2>2. CASE RailIsRun(r)
    <3>1. Len(todo'[r]) \in {0, Len(todo[r]) - 1} /\ Len(todo[r]) >= 1
      BY <1>2, <2>2, LengthFacts DEF RailIsRun
    <3>2. ~asking'[r]
      BY <2>2 DEF RailIsRun
    <3>3. /\ Chain(r)' = 2 * Len(todo'[r]) - 0
          /\ \/ Chain(r) = 2 * Len(todo[r]) - 0
             \/ Chain(r) = 2 * Len(todo[r]) - 1
      BY <3>2 DEF Chain
    <3>4. Chain(r) \in Int /\ Chain(r)' \in Int /\ Chain(r)' < Chain(r)
      BY <2>1, <3>1, <3>3
    <3>. QED  BY <1>2, <2>1, <2>2, <3>4, ShorterIsLess DEF RailIsRun
  <2>3. CASE Suspends(r)
    <3>1. Chain(r) \in Int /\ Chain(r)' \in Int /\ Chain(r)' < Chain(r)
      BY <2>1, <2>3 DEF Suspends, Chain
    <3>. QED  BY <1>2, <2>1, <2>3, <3>1, ShorterIsLess DEF Suspends
  <2>4. CASE NextStage(r)
    <3> DEFINE m == Len(registry["OUTPUT"])
    <3>1. Chain(r) = 0 /\ Chain(r)' = 2 * m
      BY <2>1, <2>4 DEF NextStage, Chain
    <3>2. Work(r) = 0 + 2 * m + 2 /\ Work(r)' = 2 * m + 1
      BY <1>2, <2>4, <3>1 DEF NextStage, Work
    <3>. QED  BY <2>1, <3>2
  <2>5. CASE Ended(r)
    <3>1. Chain(r) = 0
      BY <2>1, <2>5 DEF Ended, Chain
    <3>2. Work(r)' = 0
      BY <2>5 DEF Ended, Work
    <3>3. Work(r) \in Nat /\ Work(r) # 0
      BY <1>2, <2>5, WorkIsNat DEF Ended, Stages
    <3>. QED  BY <3>2, <3>3
  <2>. QED  BY <1>2, <2>2, <2>3, <2>4, <2>5 DEF Shaped
<1>3. ASSUME NEW r \in Runs, Alone(r), registry'["OUTPUT"] = registry["OUTPUT"]
      PROVE  Work(r)' = Work(r)
  BY <1>3 DEF Alone, Work, Chain
<1>4. ASSUME IInv, NEW r \in Runs, Step(r) PROVE Work(r)' \in Int /\ Work(r)' < Work(r)
  BY <1>2, <1>4, StepShape
<1>5. ASSUME IInv, [Next]_vars, NEW r \in Runs, stage[r] # "new" PROVE Work(r)' <= Work(r)
  <2>1. Work(r) \in Nat
    BY <1>5, WorkIsNat
  <2>2. CASE UNCHANGED vars
    <3>1. Alone(r) /\ registry'["OUTPUT"] = registry["OUTPUT"]
      BY <2>2 DEF vars, Alone
    <3>. QED  BY <1>3, <2>1, <3>1
  <2>3. ASSUME NEW x \in Runs, Step(x) PROVE Work(r)' <= Work(r)
    <3>1. CASE x = r
      BY <1>4, <1>5, <2>1, <2>3, <3>1
    <3>2. CASE x # r
      <4>1. Alone(r) /\ registry'["OUTPUT"] = registry["OUTPUT"]
        BY <1>5, <2>3, <3>2, StepShape
      <4>. QED  BY <1>3, <2>1, <4>1
    <3>. QED  BY <3>1, <3>2
  <2>4. ASSUME NEW x \in Runs, Start(x) PROVE Work(r)' <= Work(r)
    <3>1. x # r
      BY <1>5, <2>4, StartShape
    <3>2. Built
      BY <1>5 DEF IInv, Story, ChainAt
    <3>3. Alone(r) /\ registry'["OUTPUT"] = registry["OUTPUT"]
      BY <1>5, <2>4, <3>1, <3>2, StartShape
    <3>. QED  BY <1>3, <2>1, <3>3
  <2>. QED  BY <1>5, <2>2, <2>3, <2>4 DEF Next
<1>6. IInv /\ [Next]_vars => \A r \in Runs : Shrinks(r)
  BY <1>4, <1>5
<1> HIDE DEF Measured
<1>7. Spec => []Measured
  BY <1>1, SpecIInv, PTL
<1>8. Spec => StepsUseUpWork
  BY <1>6, SpecIInv, PTL DEF Spec, StepsUseUpWork
<1>. QED  BY <1>7, <1>8 DEF Measured
=============================================================================
