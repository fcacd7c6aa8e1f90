----------------------------- MODULE LLMClient -----------------------------
(***************************************************************************)
(* src/infrastructure/llm: one call of generate(), from the router's       *)
(* choice of clients through the retries of each to an answer, an error or *)
(* the caller's cancellation.                                              *)
(*                                                                         *)
(* With LLM_PROVIDER=openai a FallbackLLMClient asks OpenAI, then Gemini;  *)
(* with gemini there is one client and no wrapper.  A client without key   *)
(* or without its package answers with a made-up reply.  Time is counted   *)
(* in units of the first back-off; an attempt takes any time up to its     *)
(* time-out.                                                               *)
(*                                                                         *)
(* External: a provider answers, fails, answers something unusable, or is  *)
(* too late.                                                               *)
(***************************************************************************)
EXTENDS Integers, Sequences, SequencesExt

CONSTANTS
    Retries,          \* values of settings.llm_max_retries tried
    DEFAULT_RETRIES,  \* max_retries of a client built without it
    TIMEOUT,          \* time-out of an attempt
    Limits,           \* limits of callers: llm_judge has one, the agent none
    Unlimited

Providers == {"openai", "gemini"}

ASSUME ClientAssumption ==
    /\ Retries \subseteq Nat
    /\ {DEFAULT_RETRIES, TIMEOUT} \subseteq Nat \ {0}
    /\ Limits \subseteq Nat \cup {Unlimited}
    /\ Unlimited \notin Nat

VARIABLES
    settings,  \* provider, keys and packages present, llm_max_retries
    limit,     \* the caller's wait_for, or Unlimited
    pc,        \* where generate() is
    chain,     \* clients still to be tried, the present one first
    attempt,   \* range(self.max_retries) of the present client
    last_exc,  \* an exception was kept by the fallback
    elapsed,   \* time since the call
    asked,     \* attempts made of each provider
    failed,    \* why a provider's client raised, or "no"
    answer     \* what generate() returned

vars == <<settings, limit, pc, chain, attempt, last_exc, elapsed, asked, failed, answer>>

NoAnswer == [from |-> "nobody", made_up |-> FALSE]

Over == {"returned", "raised", "cancelled"}

(* LLMRouter._build_clients().  get_client() picks one of two such chains, *)
(* which differ in the model they name.                                    *)
Clients == IF settings.provider = "openai" THEN <<"openai", "gemini">> ELSE <<"gemini">>

Wrapped == settings.provider = "openai"

(* Only the OpenAI clients are given the settings. *)
MaxRetries(c) == IF c = "openai" THEN settings.retries ELSE DEFAULT_RETRIES

(* The client has its SDK: a key was there and the package could be        *)
(* imported.                                                               *)
Live(c) == c \in settings.keys /\ c \in settings.packages

Init == /\ settings \in [provider : Providers, keys : SUBSET Providers,
                         packages : SUBSET Providers, retries : Retries]
        /\ limit \in Limits
        /\ pc = "next_client"
        /\ chain = Clients
        /\ attempt = 0
        /\ last_exc = FALSE
        /\ elapsed = 0
        /\ asked = [c \in Providers |-> 0]
        /\ failed = [c \in Providers |-> "no"]
        /\ answer = NoAnswer

-----------------------------------------------------------------------------
(* The time that passes while a call is suspended. *)

(* d units go by, and wait_for() of the caller does not fire before.       *)
Passes(d) ==
    /\ limit # Unlimited => elapsed + d <= limit
    /\ elapsed' = elapsed + d

Suspensions == {"asking", "backing_off", "making_up"}

(* 2 ** n, as a function that can be reasoned about.                       *)
PowerOfTwo[n \in Nat] == IF n = 0 THEN 1 ELSE 2 * PowerOfTwo[n - 1]

LongestWait == CASE pc = "asking" -> TIMEOUT
                 [] pc = "backing_off" -> PowerOfTwo[attempt]
                 [] OTHER -> 0

(* CancelledError is thrown in where generate() waits; it is no Exception, *)
(* so neither the retries nor the fallback catch it.                       *)
Cancelled ==
    /\ pc \in Suspensions
    /\ pc' = "cancelled"
    /\ UNCHANGED <<settings, limit, chain, attempt, last_exc, asked, failed, answer>>

(* The caller's time is over before the present wait is.                   *)
LimitReached ==
    /\ limit # Unlimited
    /\ elapsed + LongestWait >= limit
    /\ elapsed' = limit
    /\ Cancelled

(* The loop is stopped. *)
LoopStops ==
    /\ \E d \in 0..LongestWait : Passes(d)
    /\ Cancelled

-----------------------------------------------------------------------------
(* The chain: FallbackLLMClient.generate(), or the only client's.          *)

Unchanged == UNCHANGED <<settings, limit, elapsed, asked>>

Present == Head(chain)

(* Slip: "continue" in a loop that takes the same client again.            *)
MutPassesOverStays ==
    /\ pc = "next_client"
    /\ chain # <<>>
    /\ Wrapped
    /\ Present \notin settings.keys
    /\ UNCHANGED vars

(* The wrapper passes over a client without key. *)
PassesOver ==
    /\ pc = "next_client"
    /\ chain # <<>>
    /\ Wrapped
    /\ Present \notin settings.keys
    /\ chain' = Tail(chain)
    /\ Unchanged /\ UNCHANGED <<pc, attempt, last_exc, failed, answer>>

Tries == /\ pc = "next_client"
         /\ chain # <<>>
         /\ Wrapped => Present \in settings.keys

(* A client without SDK sleeps a moment. *)
HasNoSdk ==
    /\ Tries
    /\ ~Live(Present)
    /\ pc' = "making_up"
    /\ Unchanged /\ UNCHANGED <<chain, attempt, last_exc, failed, answer>>

(* A client's generate() raised: the loop keeps the error and goes on.     *)
ClientFails(why) ==
    /\ failed' = [failed EXCEPT ![Present] = why]
    /\ last_exc' = TRUE
    /\ chain' = Tail(chain)
    /\ pc' = "next_client"

(* _with_retry() with max_retries = 0 makes no attempt and raises.         *)
MakesNoAttempt ==
    /\ Tries
    /\ Live(Present)
    /\ MaxRetries(Present) = 0
    /\ ClientFails("exhausted")
    /\ Unchanged /\ UNCHANGED <<attempt, answer>>

FirstAttempt ==
    /\ Tries
    /\ Live(Present)
    /\ MaxRetries(Present) > 0
    /\ pc' = "asking"
    /\ attempt' = 0
    /\ Unchanged /\ UNCHANGED <<chain, last_exc, failed, answer>>

(* Slip: an empty chain always answers.                                    *)
MutEndOfChain ==
    /\ pc = "next_client"
    /\ chain = <<>>
    /\ pc' = "making_up"
    /\ Unchanged /\ UNCHANGED <<chain, attempt, last_exc, failed, answer>>

(* Every client was tried: the last error is raised; if there is none, no  *)
(* client had a key.                                                       *)
EndOfChain ==
    /\ pc = "next_client"
    /\ chain = <<>>
    /\ pc' = IF last_exc THEN "raised" ELSE "making_up"
    /\ Unchanged /\ UNCHANGED <<chain, attempt, last_exc, failed, answer>>

(* The reply of a client without SDK, and that of an empty chain.          *)
MakesUp ==
    /\ pc = "making_up"
    /\ pc' = "returned"
    /\ answer' = [from |-> IF chain = <<>> THEN "fallback" ELSE Present, made_up |-> TRUE]
    /\ Unchanged /\ UNCHANGED <<chain, attempt, last_exc, failed>>

-----------------------------------------------------------------------------
(* The present client: _with_retry(), and the reading of the reply. *)

Attempted ==
    /\ pc = "asking"
    /\ \E d \in 0..TIMEOUT : Passes(d)
    /\ asked' = [asked EXCEPT ![Present] = @ + 1]
    /\ UNCHANGED <<settings, limit, attempt>>

Answers ==
    /\ Attempted
    /\ pc' = "returned"
    /\ answer' = [from |-> Present, made_up |-> FALSE]
    /\ UNCHANGED <<chain, last_exc, failed>>

(* A reply without choices, or whose text cannot be read, raises after the *)
(* retries are left.                                                       *)
AnswersUnusably ==
    /\ Attempted
    /\ ClientFails("unusable")
    /\ UNCHANGED answer

(* Slip: one attempt too many.                                             *)
MutMoreAttempts == attempt < MaxRetries(Present)

MoreAttempts == attempt < MaxRetries(Present) - 1

(* An error of the provider, or its time is over.                          *)
Fails ==
    /\ Attempted
    /\ IF MoreAttempts
       THEN pc' = "backing_off" /\ UNCHANGED <<chain, last_exc, failed>>
       ELSE ClientFails("exhausted")
    /\ UNCHANGED answer

(* await asyncio.sleep(2 ** attempt). *)
BacksOff ==
    /\ pc = "backing_off"
    /\ Passes(PowerOfTwo[attempt])
    /\ attempt' = attempt + 1
    /\ pc' = "asking"
    /\ UNCHANGED <<settings, limit, chain, last_exc, asked, failed, answer>>

Proceeds ==
    \/ PassesOver \/ HasNoSdk \/ MakesNoAttempt \/ FirstAttempt
    \/ EndOfChain \/ MakesUp
    \/ Answers \/ AnswersUnusably \/ Fails \/ BacksOff
    \/ LimitReached

Next == Proceeds \/ LoopStops

(* An attempt ends by its time-out at the latest, a sleep by itself, and a *)
(* caller's limit by its timer.                                            *)
Spec == Init /\ [][Next]_vars /\ WF_vars(Proceeds)

-----------------------------------------------------------------------------
TypeOK ==
    /\ settings \in [provider : Providers, keys : SUBSET Providers,
                     packages : SUBSET Providers, retries : Retries]
    /\ limit \in Limits
    /\ pc \in Suspensions \cup Over \cup {"next_client"}
    /\ chain \in {<<>>, <<"gemini">>, <<"openai", "gemini">>}
    /\ attempt \in Nat
    /\ last_exc \in BOOLEAN
    /\ elapsed \in Int
    /\ asked \in [Providers -> Nat]
    /\ failed \in [Providers -> {"no", "exhausted", "unusable"}]
    /\ answer \in [from : Providers \cup {"nobody", "fallback"}, made_up : BOOLEAN]

(* Clients of the chain that have a key. *)
WithKey == ToSet(Clients) \cap settings.keys

(* The longest a client may take: its attempts, and between them back-offs *)
(* of 1 + 2 + ... + 2^(n-2).                                               *)
Longest(n) == IF n = 0 THEN 0 ELSE n * TIMEOUT + PowerOfTwo[n - 1] - 1

(* What the client may add to a call: nothing without a key.               *)
LongestOf(c) == IF c \in WithKey THEN Longest(MaxRetries(c)) ELSE 0

(* The agent gets an answer or an error in a time the settings fix, and a  *)
(* judge within its own limit, whatever the providers do (_with_retry,     *)
(* FallbackLLMClient, wait_for in llm_judge.py:151).                       *)
AnswersInTime ==
    /\ elapsed <= LongestOf("openai") + LongestOf("gemini")
    /\ limit # Unlimited => elapsed <= limit

(* The next provider is asked only after the one before it had all its     *)
(* attempts, or answered something that asking again will not mend.        *)
RetriesBeforeFallback ==
    \A c \in Providers :
        /\ asked[c] <= MaxRetries(c)
        /\ failed[c] = "exhausted" => asked[c] = MaxRetries(c)

(* An outage is an error, no made-up reply: the fallback makes one up only *)
(* if no client has a key, a client only if it has no SDK.                 *)
MadeUpOnlyWithoutSdk ==
    answer.made_up => IF answer.from = "fallback" THEN WithKey = {} ELSE ~Live(answer.from)

(* The caller sees an error only after every provider it pays for failed.  *)
ErrorMeansAllFailed ==
    pc = "raised" => \A c \in WithKey : failed[c] # "no"

(* The outcome is earned: an answer, a made-up reply or an error comes     *)
(* only after everyone who had to be asked was asked as often as settings  *)
(* say, whatever keys and packages are missing and in whatever order the   *)
(* providers fail.                                                         *)
OutcomeIsEarned == RetriesBeforeFallback /\ MadeUpOnlyWithoutSdk /\ ErrorMeansAllFailed

(* No combination of keys, packages, failures and limits leaves the caller *)
(* waiting for ever.                                                       *)
CallEnds == <>(pc \in Over)
=============================================================================
