--------------------------- MODULE LLMClientProofs ---------------------------
(***************************************************************************)
(* One call of generate(), for any number of retries, any time-out and any *)
(* limits of the callers.                                                  *)
(***************************************************************************)
EXTENDS LLMClient, WellFoundedInduction, TLAPS

Chains == {<<>>, <<"gemini">>, <<"openai", "gemini">>}

(* Neither asked nor failed so far.                                        *)
Fresh(c) == asked[c] = 0 /\ failed[c] = "no"

(* The chain is a rest of the router's, and nobody in it has failed.       *)
ChainAt ==
    /\ settings.provider = "gemini" => chain # <<"openai", "gemini">>
    /\ chain = <<"openai", "gemini">> => failed["openai"] = "no" /\ Fresh("gemini")
    /\ chain = <<"gemini">> => failed["gemini"] = "no"
    /\ pc \in {"asking", "backing_off"} => chain # <<>>

(* The attempts of the present client.                                     *)
PresentAt ==
    /\ pc = "next_client" /\ chain # <<>> => asked[Present] = 0
    /\ pc = "asking" => asked[Present] = attempt /\ attempt < MaxRetries(Present)
    /\ pc = "backing_off" => asked[Present] = attempt + 1 /\ attempt + 1 < MaxRetries(Present)
    /\ pc = "making_up" => IF chain = <<>> THEN WithKey = {} ELSE ~Live(Present)

(* Who is behind the present client had no key, or failed.                 *)
BehindAt ==
    /\ chain # <<"openai", "gemini">> /\ settings.provider = "openai"
          /\ "openai" \in settings.keys => failed["openai"] # "no"
    /\ chain = <<>> /\ "gemini" \in settings.keys => failed["gemini"] # "no"
    /\ \A c \in Providers : failed[c] # "no" => last_exc
    /\ pc = "raised" => chain = <<>>

IInv == TypeOK /\ ChainAt /\ PresentAt /\ BehindAt /\ OutcomeIsEarned

-----------------------------------------------------------------------------
(* PowerOfTwo. *)

(* Every nonempty set of naturals has a least element: what the proofs     *)
(* below use for induction, by the least counterexample.                   *)
LEMMA LeastOf ==
    ASSUME NEW T, T \subseteq Nat, T # {}
    PROVE  \E m \in T : \A k \in T : m <= k
<1>1. PICK R : R = OpToRel(<, Nat)
  OBVIOUS
<1>2. IsWellFoundedOn(R, Nat)
  BY <1>1, NatLessThanWellFounded
<1>3. PICK m \in T : \A k \in T : ~ (<<k, m>> \in R)
  BY <1>2, WFMin
<1>4. ASSUME NEW k \in T, k < m PROVE <<k, m>> \in R
  BY <1>1, <1>4 DEF OpToRel
<1>5. \A k \in T : ~(k < m)
  BY <1>3, <1>4
<1>6. \A k \in T : m <= k
  BY <1>5
<1>. QED  BY <1>6

(* The powers of two up to n.                                              *)
Powers(g, n) ==
    /\ g \in [0..n -> Nat]
    /\ g[0] = 1
    /\ \A k \in 1..n : g[k] = 2 * g[k - 1]

LEMMA PowersExist == \A n \in Nat : \E g : Powers(g, n)
<1> DEFINE T == {n \in Nat : ~ \E g : Powers(g, n)}
<1> SUFFICES ASSUME T # {} PROVE FALSE
  OBVIOUS
<1>1. PICK m \in T : \A k \in T : m <= k
  BY LeastOf
<1>2. CASE m = 0
  <2>1. Powers([k \in 0..0 |-> 1], 0)
    BY DEF Powers
  <2>. QED  BY <1>1, <1>2, <2>1
<1>3. CASE m # 0
  <2>1. m \in Nat /\ m - 1 \in Nat /\ m - 1 \notin T
    BY <1>1, <1>3
  <2>2. PICK g : Powers(g, m - 1)
    BY <2>1
  <2> DEFINE h == [k \in 0..m |-> IF k = m THEN 2 * g[m - 1] ELSE g[k]]
  <2>3. /\ g \in [0..m - 1 -> Nat] /\ g[0] = 1
        /\ \A k \in 1..m - 1 : g[k] = 2 * g[k - 1]
    BY <2>2 DEF Powers
  <2>4. h \in [0..m -> Nat] /\ h[0] = 1
    BY <2>1, <2>3
  <2>5. \A k \in 1..m : h[k] = 2 * h[k - 1]
    BY <2>1, <2>3
  <2>6. Powers(h, m)
    BY <2>4, <2>5 DEF Powers
  <2>. QED  BY <1>1, <2>6
<1>. QED  BY <1>2, <1>3

LEMMA PowersAgree ==
    ASSUME NEW n \in Nat, NEW p \in Nat, NEW g, NEW h, Powers(g, n), Powers(h, p), n <= p
    PROVE  \A k \in 0..n : g[k] = h[k]
<1> DEFINE T == {k \in 0..n : g[k] # h[k]}
<1> SUFFICES ASSUME T # {} PROVE FALSE
  OBVIOUS
<1>1. PICK m \in T : \A k \in T : m <= k
  <2>1. T \subseteq Nat
    OBVIOUS
  <2>. QED  BY <2>1, LeastOf
<1>2. m # 0
  BY <1>1 DEF Powers
<1>3. m - 1 \in 0..n /\ m - 1 \notin T
  BY <1>1, <1>2
<1>4. m \in 1..n /\ m \in 1..p
  BY <1>1, <1>2
<1>5. g[m] = 2 * g[m - 1] /\ h[m] = 2 * h[m - 1]
  BY <1>4 DEF Powers
<1>6. g[m - 1] = h[m - 1]
  BY <1>3
<1>. QED  BY <1>1, <1>5, <1>6

(* A function is defined by the recursion of PowerOfTwo; only by this is   *)
(* PowerOfTwo one.                                                         *)
LEMMA RecursionHasASolution ==
    \E f : /\ f = [n \in Nat |-> IF n = 0 THEN 1 ELSE 2 * f[n - 1]]
           /\ f \in [Nat -> Nat]
<1> DEFINE G(n) == CHOOSE g : Powers(g, n)
           f == [n \in Nat |-> G(n)[n]]
<1>1. \A n \in Nat : Powers(G(n), n)
  BY PowersExist
<1> HIDE DEF G
<1>2. f \in [Nat -> Nat]
  BY <1>1 DEF Powers
<1>3. ASSUME NEW n \in Nat PROVE f[n] = IF n = 0 THEN 1 ELSE 2 * f[n - 1]
  <2>1. CASE n = 0
    BY <1>1, <2>1 DEF Powers
  <2>2. CASE n # 0
    <3>1. n - 1 \in Nat /\ n \in 1..n /\ n - 1 \in 0..(n - 1)
      BY <2>2
    <3>2. G(n)[n] = 2 * G(n)[n - 1]
      BY <1>1, <3>1 DEF Powers
    <3>3. G(n - 1)[n - 1] = G(n)[n - 1]
      BY <1>1, <3>1, PowersAgree
    <3>. QED  BY <2>2, <3>1, <3>2, <3>3
  <2>. QED  BY <2>1, <2>2
<1>4. f = [n \in Nat |-> IF n = 0 THEN 1 ELSE 2 * f[n - 1]]
  BY <1>3
<1>. QED  BY <1>2, <1>4

LEMMA PowerOfTwoIs ==
    PowerOfTwo = [n \in Nat |-> IF n = 0 THEN 1 ELSE 2 * PowerOfTwo[n - 1]]
  BY RecursionHasASolution DEF PowerOfTwo

LEMMA PowerOfTwoFacts ==
    /\ PowerOfTwo[0] = 1
    /\ \A n \in Nat : PowerOfTwo[n] \in Nat /\ PowerOfTwo[n] >= 1
    /\ \A n \in Nat : PowerOfTwo[n + 1] = 2 * PowerOfTwo[n]
<1>1. PowerOfTwo[0] = 1
  BY PowerOfTwoIs
<1>2. ASSUME NEW n \in Nat PROVE PowerOfTwo[n + 1] = 2 * PowerOfTwo[n]
  <2>1. n + 1 \in Nat /\ n + 1 # 0 /\ (n + 1) - 1 = n
    OBVIOUS
  <2>. QED  BY <2>1, PowerOfTwoIs
<1>3. \A n \in Nat : PowerOfTwo[n] \in Nat /\ PowerOfTwo[n] >= 1
  <2> DEFINE T == {n \in Nat : ~(PowerOfTwo[n] \in Nat /\ PowerOfTwo[n] >= 1)}
  <2> SUFFICES ASSUME T # {} PROVE FALSE
    OBVIOUS
  <2>1. PICK m \in T : \A k \in T : m <= k
    BY LeastOf
  <2>2. m \in Nat /\ m - 1 \in Nat /\ m - 1 \notin T
    BY <1>1, <2>1
  <2>3. PowerOfTwo[m] = 2 * PowerOfTwo[m - 1]
    BY <1>2, <2>2
  <2>. QED  BY <2>1, <2>2, <2>3
<1>. QED  BY <1>1, <1>2, <1>3

LEMMA PowerOfTwoGrows ==
    ASSUME NEW a \in Nat, NEW b \in Nat, a <= b
    PROVE  PowerOfTwo[a] <= PowerOfTwo[b]
<1> DEFINE T == {n \in Nat : a <= n /\ ~(PowerOfTwo[a] <= PowerOfTwo[n])}
<1> SUFFICES ASSUME T # {} PROVE FALSE
  OBVIOUS
<1>1. PICK m \in T : \A k \in T : m <= k
  BY LeastOf
<1>2. PowerOfTwo[a] \in Nat /\ \A n \in Nat : PowerOfTwo[n] \in Nat
  BY PowerOfTwoFacts
<1>3. m # a /\ m - 1 \in Nat /\ a <= m - 1 /\ m - 1 \notin T
  BY <1>1, <1>2
<1>4. PowerOfTwo[m] = 2 * PowerOfTwo[m - 1]
  BY <1>3, PowerOfTwoFacts
<1>. QED  BY <1>1, <1>2, <1>3, <1>4

-----------------------------------------------------------------------------
LEMMA ChainFacts ==
    /\ <<>> # <<"gemini">> /\ <<>> # <<"openai", "gemini">>
    /\ <<"gemini">> # <<"openai", "gemini">>
    /\ Head(<<"gemini">>) = "gemini" /\ Tail(<<"gemini">>) = <<>>
    /\ Head(<<"openai", "gemini">>) = "openai" /\ Tail(<<"openai", "gemini">>) = <<"gemini">>
  OBVIOUS

LEMMA WithKeyFacts ==
    ASSUME TypeOK
    PROVE  /\ "gemini" \in WithKey <=> "gemini" \in settings.keys
           /\ "openai" \in WithKey <=> "openai" \in settings.keys /\ settings.provider = "openai"
           /\ WithKey \subseteq Providers
           /\ settings.provider \in Providers /\ settings.keys \subseteq Providers
<1>1. settings.provider \in Providers /\ settings.keys \subseteq Providers
  BY DEF TypeOK
<1>2. ToSet(<<"openai", "gemini">>) = {"openai", "gemini"} /\ ToSet(<<"gemini">>) = {"gemini"}
  BY DEF ToSet
<1>. QED  BY <1>1, <1>2 DEF WithKey, Clients, Providers

(* A client may make only finitely many attempts.                          *)
LEMMA RetriesAreNat == ASSUME TypeOK, NEW c \in Providers PROVE MaxRetries(c) \in Nat
  BY ClientAssumption DEF TypeOK, MaxRetries

LEMMA PresentFacts ==
    ASSUME TypeOK, chain # <<>>
    PROVE  /\ Present \in Providers
           /\ \/ chain = <<"gemini">> /\ Present = "gemini" /\ Tail(chain) = <<>>
              \/ /\ chain = <<"openai", "gemini">> /\ Present = "openai"
                 /\ Tail(chain) = <<"gemini">>
  BY ChainFacts DEF TypeOK, Present, Providers

LEMMA InitIInv == Init => IInv
<1> SUFFICES ASSUME Init PROVE IInv
  OBVIOUS
<1>1. TypeOK
  <2>1. chain \in {<<>>, <<"gemini">>, <<"openai", "gemini">>}
    BY DEF Init, Clients
  <2>2. pc \in Suspensions \cup Over \cup {"next_client"} /\ last_exc \in BOOLEAN
        /\ attempt \in Nat /\ elapsed \in Int
    <3>1. pc = "next_client" /\ last_exc = FALSE /\ attempt = 0 /\ elapsed = 0
      BY DEF Init
    <3>2. last_exc \in BOOLEAN
      BY <3>1
    <3>3. pc \in Suspensions \cup Over \cup {"next_client"}
      BY <3>1
    <3>4. attempt \in Nat /\ elapsed \in Int
      BY <3>1
    <3>. QED  BY <3>2, <3>3, <3>4
  <2>3. /\ asked \in [Providers -> Nat]
        /\ failed \in [Providers -> {"no", "exhausted", "unusable"}]
    BY DEF Init
  <2>4. answer \in [from : Providers \cup {"nobody", "fallback"}, made_up : BOOLEAN]
    BY DEF Init, NoAnswer
  <2>5. /\ limit \in Limits
        /\ settings \in [provider : Providers, keys : SUBSET Providers,
                         packages : SUBSET Providers, retries : Retries]
    BY DEF Init
  <2>. QED  BY <2>1, <2>2, <2>3, <2>4, <2>5 DEF TypeOK
<1>2. ChainAt
  BY ChainFacts DEF Init, ChainAt, Clients, Fresh, Providers
<1>3. PresentAt
  BY <1>1, PresentFacts DEF Init, PresentAt
<1>4. BehindAt
  BY ChainFacts DEF Init, BehindAt, Clients
<1>5. OutcomeIsEarned
  BY <1>1, RetriesAreNat DEF Init, OutcomeIsEarned, RetriesBeforeFallback,
          MadeUpOnlyWithoutSdk, ErrorMeansAllFailed, NoAnswer
<1>. QED  BY <1>1, <1>2, <1>3, <1>4, <1>5 DEF IInv

(* The settings do not change during a call.                               *)
LEMMA SettingsStay ==
    ASSUME settings' = settings
    PROVE  /\ \A c : MaxRetries(c)' = MaxRetries(c)
           /\ \A c : Live(c)' <=> Live(c)
           /\ WithKey' = WithKey
  BY DEF MaxRetries, Live, WithKey, Clients

(* A client that fails has had its attempts, or has answered badly, and    *)
(* the chain is one client shorter.                                        *)
LEMMA ClientFailsKeeps ==
    ASSUME IInv, chain # <<>>, pc \in {"next_client", "asking"},
           NEW why \in {"exhausted", "unusable"}, ClientFails(why),
           UNCHANGED <<settings, limit, attempt, answer>>, elapsed' \in Int,
           asked' \in [Providers -> Nat],
           \A c \in Providers \ {Present} : asked'[c] = asked[c],
           asked'[Present] <= MaxRetries(Present),
           why = "exhausted" => asked'[Present] = MaxRetries(Present)
    PROVE  IInv'
<1>1. /\ failed' = [failed EXCEPT ![Present] = why]
      /\ last_exc' = TRUE /\ chain' = Tail(chain) /\ pc' = "next_client"
      /\ TypeOK /\ ChainAt /\ BehindAt /\ OutcomeIsEarned
  BY DEF ClientFails, IInv
<1>2. /\ Present \in Providers
      /\ \/ chain = <<"gemini">> /\ Present = "gemini" /\ chain' = <<>>
         \/ chain = <<"openai", "gemini">> /\ Present = "openai" /\ chain' = <<"gemini">>
  BY <1>1, PresentFacts
<1>3. /\ failed' \in [Providers -> {"no", "exhausted", "unusable"}]
      /\ failed'[Present] = why /\ why # "no"
      /\ \A c \in Providers \ {Present} : failed'[c] = failed[c]
  BY <1>1, <1>2 DEF TypeOK
<1>4. TypeOK'
  BY <1>1, <1>2, <1>3 DEF TypeOK
<1>5. ChainAt'
  BY <1>1, <1>2, <1>3, ChainFacts DEF ChainAt, Fresh, Providers
<1>6. PresentAt'
  <2>1. chain' # <<>> => Present' = "gemini" /\ asked'["gemini"] = 0
    BY <1>1, <1>2, <1>3, ChainFacts DEF Present, ChainAt, Fresh, Providers
  <2>. QED  BY <1>1, <2>1 DEF PresentAt
<1>7. BehindAt'
  BY <1>1, <1>2, <1>3, ChainFacts DEF BehindAt, Providers
<1>8. OutcomeIsEarned'
  <2>1. RetriesBeforeFallback'
    BY <1>1, <1>2, <1>3, SettingsStay DEF OutcomeIsEarned, RetriesBeforeFallback
  <2>2. MadeUpOnlyWithoutSdk'
    BY <1>1, SettingsStay DEF OutcomeIsEarned, MadeUpOnlyWithoutSdk
  <2>. QED  BY <1>1, <2>1, <2>2 DEF OutcomeIsEarned, ErrorMeansAllFailed
<1>. QED  BY <1>4, <1>5, <1>6, <1>7, <1>8 DEF IInv

(* Only the place in generate() and the number of the attempt change.      *)
LEMMA MovesKeep ==
    ASSUME IInv, PresentAt',
           pc' \in {"asking", "backing_off", "making_up", "cancelled"},
           pc' \in {"asking", "backing_off"} => chain # <<>>,
           attempt' \in Nat, elapsed' \in Int,
           UNCHANGED <<settings, limit, chain, last_exc, asked, failed, answer>>
    PROVE  IInv'
<1>1. TypeOK /\ ChainAt /\ BehindAt /\ OutcomeIsEarned
  BY DEF IInv
<1>2. TypeOK'
  BY <1>1 DEF TypeOK, Suspensions, Over
<1>3. ChainAt' /\ BehindAt'
  BY <1>1 DEF ChainAt, BehindAt, Fresh
<1>4. OutcomeIsEarned'
  BY <1>1, SettingsStay DEF OutcomeIsEarned, RetriesBeforeFallback, MadeUpOnlyWithoutSdk,
                            ErrorMeansAllFailed
<1>. QED  BY <1>2, <1>3, <1>4 DEF IInv

LEMMA WaitTypes ==
    ASSUME TypeOK
    PROVE  /\ LongestWait \in Nat
           /\ TIMEOUT \in Nat
           /\ \A d \in 0..LongestWait : elapsed + d \in Int
           /\ \A d \in 0..TIMEOUT : elapsed + d \in Int
           /\ elapsed + PowerOfTwo[attempt] \in Int /\ attempt + 1 \in Nat
<1>1. TIMEOUT \in Nat /\ attempt \in Nat /\ elapsed \in Int
  BY ClientAssumption DEF TypeOK
<1>2. PowerOfTwo[attempt] \in Nat
  BY <1>1, PowerOfTwoFacts
<1>3. LongestWait \in Nat
  BY <1>1, <1>2 DEF LongestWait
<1>. QED  BY <1>1, <1>2, <1>3

(* The caller's cancellation, from outside or by its own limit.            *)
LEMMA CancelledKeeps == ASSUME IInv, LimitReached \/ LoopStops PROVE IInv'
<1>1. Cancelled /\ elapsed' \in Int /\ TypeOK
  <2>1. CASE LimitReached
    <3>1. limit \in Nat
      BY <2>1, ClientAssumption DEF LimitReached, IInv, TypeOK
    <3>. QED  BY <2>1, <3>1 DEF LimitReached, IInv
  <2>2. CASE LoopStops
    BY <2>2, WaitTypes DEF LoopStops, Passes, IInv
  <2>. QED  BY <2>1, <2>2
<1>2. PresentAt'
  BY <1>1 DEF Cancelled, PresentAt
<1>3. attempt' \in Nat
  BY <1>1 DEF Cancelled, TypeOK
<1>. QED  BY <1>1, <1>2, <1>3, MovesKeep DEF Cancelled

(* The next client is passed over, has no SDK, or is asked; or there is    *)
(* none left.                                                              *)
LEMMA NextClientKeeps ==
    ASSUME IInv, PassesOver \/ HasNoSdk \/ MakesNoAttempt \/ FirstAttempt \/ EndOfChain
    PROVE  IInv'
<1>1. TypeOK /\ ChainAt /\ PresentAt /\ BehindAt /\ OutcomeIsEarned
  BY DEF IInv
<1>2. CASE PassesOver
  <2>1. /\ chain # <<>> /\ pc = "next_client" /\ chain' = Tail(chain)
        /\ settings.provider = "openai" /\ Present \notin settings.keys
        /\ UNCHANGED <<settings, limit, elapsed, asked, pc, attempt, last_exc, failed, answer>>
    BY <1>2 DEF PassesOver, Unchanged, Wrapped
  <2>2. \/ chain = <<"gemini">> /\ Present = "gemini" /\ chain' = <<>>
        \/ chain = <<"openai", "gemini">> /\ Present = "openai" /\ chain' = <<"gemini">>
    BY <1>1, <2>1, PresentFacts
  <2>3. TypeOK'
    BY <1>1, <2>1, <2>2 DEF TypeOK
  <2>4. ChainAt' /\ BehindAt'
    BY <1>1, <2>1, <2>2, ChainFacts DEF ChainAt, BehindAt, Fresh
  <2>5. PresentAt'
    <3>1. chain' # <<>> => Present' = "gemini" /\ asked'["gemini"] = 0
      BY <1>1, <2>1, <2>2, ChainFacts DEF Present, ChainAt, Fresh
    <3>. QED  BY <2>1, <3>1 DEF PresentAt
  <2>6. OutcomeIsEarned'
    BY <1>1, <2>1, SettingsStay DEF OutcomeIsEarned, RetriesBeforeFallback,
            MadeUpOnlyWithoutSdk, ErrorMeansAllFailed
  <2>. QED  BY <2>3, <2>4, <2>5, <2>6 DEF IInv
<1>3. CASE HasNoSdk
  <2>1. /\ chain # <<>> /\ ~Live(Present) /\ pc' = "making_up"
        /\ UNCHANGED <<settings, limit, elapsed, asked, chain, attempt, last_exc, failed, answer>>
    BY <1>3 DEF HasNoSdk, Tries, Unchanged
  <2>2. PresentAt'
    BY <2>1 DEF PresentAt, Present, Live
  <2>. QED  BY <1>1, <2>1, <2>2, MovesKeep DEF TypeOK
<1>4. CASE MakesNoAttempt
  <2>1. /\ chain # <<>> /\ pc = "next_client" /\ ClientFails("exhausted")
        /\ MaxRetries(Present) = 0
        /\ UNCHANGED <<settings, limit, elapsed, asked, attempt, answer>>
    BY <1>4 DEF MakesNoAttempt, Tries, Unchanged
  <2>2. asked[Present] = 0
    BY <1>1, <2>1 DEF PresentAt
  <2>. QED  BY <1>1, <2>1, <2>2, ClientFailsKeeps DEF TypeOK
<1>5. CASE FirstAttempt
  <2>1. /\ chain # <<>> /\ pc = "next_client" /\ pc' = "asking" /\ attempt' = 0
        /\ MaxRetries(Present) > 0
        /\ UNCHANGED <<settings, limit, elapsed, asked, chain, last_exc, failed, answer>>
    BY <1>5 DEF FirstAttempt, Tries, Unchanged
  <2>2. PresentAt'
    <3>1. asked[Present] = 0 /\ Present' = Present
      BY <1>1, <2>1 DEF PresentAt, Present
    <3>. QED  BY <1>1, <2>1, <3>1, SettingsStay, PresentFacts, RetriesAreNat DEF PresentAt
  <2>. QED  BY <1>1, <2>1, <2>2, MovesKeep DEF TypeOK
<1>6. CASE EndOfChain
  <2>1. /\ chain = <<>> /\ pc = "next_client"
        /\ pc' = IF last_exc THEN "raised" ELSE "making_up"
        /\ UNCHANGED <<settings, limit, elapsed, asked, chain, attempt, last_exc, failed, answer>>
    BY <1>6 DEF EndOfChain, Unchanged
  <2>2. \A c \in WithKey : failed[c] # "no"
    BY <1>1, <2>1, WithKeyFacts, ChainFacts DEF BehindAt, Providers
  <2>3. CASE last_exc
    <3>1. TypeOK'
      BY <1>1, <2>1, <2>3 DEF TypeOK, Over
    <3>2. ChainAt' /\ PresentAt' /\ BehindAt'
      BY <1>1, <2>1, <2>3 DEF ChainAt, PresentAt, BehindAt, Fresh
    <3>3. OutcomeIsEarned'
      BY <1>1, <2>1, <2>2, SettingsStay DEF OutcomeIsEarned, RetriesBeforeFallback,
              MadeUpOnlyWithoutSdk, ErrorMeansAllFailed
    <3>. QED  BY <3>1, <3>2, <3>3 DEF IInv
  <2>4. CASE ~last_exc
    <3>1. WithKey = {}
      BY <1>1, <2>2, <2>4, WithKeyFacts DEF BehindAt
    <3>2. PresentAt'
      BY <2>1, <2>4, <3>1, SettingsStay DEF PresentAt
    <3>. QED  BY <1>1, <2>1, <2>4, <3>2, MovesKeep DEF TypeOK
  <2>. QED  BY <2>3, <2>4
<1>. QED  BY <1>2, <1>3, <1>4, <1>5, <1>6

LEMMA MakesUpKeeps == ASSUME IInv, MakesUp PROVE IInv'
<1>1. /\ pc = "making_up" /\ pc' = "returned"
      /\ answer' = [from |-> IF chain = <<>> THEN "fallback" ELSE Present, made_up |-> TRUE]
      /\ UNCHANGED <<settings, limit, elapsed, asked, chain, attempt, last_exc, failed>>
      /\ TypeOK /\ ChainAt /\ PresentAt /\ BehindAt /\ OutcomeIsEarned
  BY DEF MakesUp, Unchanged, IInv
<1>2. chain # <<>> => Present \in Providers
  BY <1>1, PresentFacts
<1>3. TypeOK'
  BY <1>1, <1>2 DEF TypeOK, Over
<1>4. ChainAt' /\ PresentAt' /\ BehindAt'
  BY <1>1 DEF ChainAt, PresentAt, BehindAt, Fresh
<1>5. MadeUpOnlyWithoutSdk'
  <2>1. IF chain = <<>> THEN WithKey = {} ELSE ~Live(Present)
    BY <1>1 DEF PresentAt
  <2>2. answer'.from = (IF chain = <<>> THEN "fallback" ELSE Present)
    BY <1>1
  <2>3. chain # <<>> => Present # "fallback"
    BY <1>2 DEF Providers
  <2>. QED  BY <1>1, <2>1, <2>2, <2>3, SettingsStay DEF MadeUpOnlyWithoutSdk
<1>6. OutcomeIsEarned'
  BY <1>1, <1>5, SettingsStay DEF OutcomeIsEarned, RetriesBeforeFallback, ErrorMeansAllFailed
<1>. QED  BY <1>3, <1>4, <1>6 DEF IInv

(* An attempt is over: the provider answered, or failed.                   *)
LEMMA AttemptKeeps == ASSUME IInv, Answers \/ AnswersUnusably \/ Fails PROVE IInv'
<1>1. /\ pc = "asking" /\ elapsed' \in Int
      /\ asked' = [asked EXCEPT ![Present] = @ + 1]
      /\ UNCHANGED <<settings, limit, attempt>>
      /\ TypeOK /\ ChainAt /\ PresentAt /\ BehindAt /\ OutcomeIsEarned
  BY WaitTypes DEF Answers, AnswersUnusably, Fails, Attempted, Passes, IInv
<1>2. chain # <<>> /\ Present \in Providers /\ MaxRetries(Present) \in Nat
  BY <1>1, PresentFacts, RetriesAreNat DEF ChainAt
<1>3. /\ asked[Present] = attempt /\ attempt < MaxRetries(Present) /\ attempt \in Nat
      /\ asked' \in [Providers -> Nat] /\ asked'[Present] = attempt + 1
      /\ \A c \in Providers \ {Present} : asked'[c] = asked[c]
      /\ asked'[Present] <= MaxRetries(Present)
  BY <1>1, <1>2 DEF PresentAt, TypeOK
<1>4. chain' = chain => ChainAt' \/ pc' \notin {"returned", "backing_off"} \/ failed' # failed
  <2> SUFFICES ASSUME chain' = chain, failed' = failed, pc' \in {"returned", "backing_off"}
               PROVE  ChainAt'
    OBVIOUS
  <2>1. chain = <<"openai", "gemini">> => Present # "gemini"
    BY ChainFacts DEF Present
  <2>. QED  BY <1>1, <1>2, <1>3, <2>1, ChainFacts DEF ChainAt, Fresh, Providers
<1>5. failed' = failed => RetriesBeforeFallback'
  <2>1. failed[Present] = "no"
    BY <1>1, <1>2, PresentFacts DEF ChainAt
  <2>. QED  BY <1>1, <1>3, <2>1, SettingsStay DEF OutcomeIsEarned, RetriesBeforeFallback
<1>6. CASE Answers
  <2>1. /\ pc' = "returned" /\ answer' = [from |-> Present, made_up |-> FALSE]
        /\ UNCHANGED <<chain, last_exc, failed>>
    BY <1>6 DEF Answers
  <2>2. TypeOK'
    BY <1>1, <1>2, <1>3, <2>1 DEF TypeOK, Over
  <2>3. ChainAt' /\ PresentAt' /\ BehindAt'
    BY <1>1, <1>4, <2>1 DEF PresentAt, BehindAt
  <2>4. OutcomeIsEarned'
    BY <1>5, <2>1 DEF OutcomeIsEarned, MadeUpOnlyWithoutSdk, ErrorMeansAllFailed
  <2>. QED  BY <2>2, <2>3, <2>4 DEF IInv
<1>7. CASE AnswersUnusably
  BY <1>1, <1>2, <1>3, <1>7, ClientFailsKeeps DEF AnswersUnusably
<1>8. CASE Fails /\ MoreAttempts
  <2>1. /\ pc' = "backing_off" /\ UNCHANGED <<chain, last_exc, failed, answer>>
        /\ attempt < MaxRetries(Present) - 1
    BY <1>8 DEF Fails, MoreAttempts
  <2>2. TypeOK'
    BY <1>1, <1>3, <2>1 DEF TypeOK, Suspensions
  <2>3. PresentAt'
    <3>1. Present' = Present
      BY <2>1 DEF Present
    <3>. QED  BY <1>1, <1>2, <1>3, <2>1, <3>1, SettingsStay DEF PresentAt
  <2>4. BehindAt' /\ ChainAt'
    BY <1>1, <1>4, <2>1 DEF BehindAt
  <2>5. OutcomeIsEarned'
    BY <1>1, <1>5, <2>1, SettingsStay DEF OutcomeIsEarned, MadeUpOnlyWithoutSdk,
            ErrorMeansAllFailed
  <2>. QED  BY <2>2, <2>3, <2>4, <2>5 DEF IInv
<1>9. CASE Fails /\ ~MoreAttempts
  <2>1. ClientFails("exhausted") /\ answer' = answer
    BY <1>9 DEF Fails
  <2>2. asked'[Present] = MaxRetries(Present)
    BY <1>2, <1>3, <1>9 DEF MoreAttempts
  <2>. QED  BY <1>1, <1>2, <1>3, <2>1, <2>2, ClientFailsKeeps
<1>. QED  BY <1>6, <1>7, <1>8, <1>9

LEMMA BacksOffKeeps == ASSUME IInv, BacksOff PROVE IInv'
<1>1. /\ pc = "backing_off" /\ pc' = "asking" /\ attempt' = attempt + 1
      /\ elapsed' = elapsed + PowerOfTwo[attempt]
      /\ UNCHANGED <<settings, limit, chain, last_exc, asked, failed, answer>>
      /\ TypeOK /\ ChainAt /\ PresentAt
  BY DEF BacksOff, Passes, IInv
<1>2. PresentAt'
  <2>1. Present' = Present
    BY <1>1 DEF Present
  <2>. QED  BY <1>1, <2>1, SettingsStay DEF PresentAt
<1>3. attempt' \in Nat /\ elapsed' \in Int /\ chain # <<>>
  BY <1>1, WaitTypes DEF ChainAt
<1>. QED  BY <1>1, <1>2, <1>3, MovesKeep

LEMMA StutterKeeps == ASSUME IInv, UNCHANGED vars PROVE IInv'
<1>1. /\ UNCHANGED <<settings, limit, pc, chain, attempt, last_exc, elapsed, asked, failed,
                     answer>>
      /\ TypeOK /\ ChainAt /\ PresentAt /\ BehindAt /\ OutcomeIsEarned
  BY DEF vars, IInv
<1>2. TypeOK' /\ ChainAt' /\ BehindAt'
  BY <1>1 DEF TypeOK, ChainAt, BehindAt, Fresh
<1>3. Present' = Present
  BY <1>1 DEF Present
<1>4. PresentAt'
  BY <1>1, <1>3, SettingsStay DEF PresentAt
<1>5. OutcomeIsEarned'
  BY <1>1, SettingsStay DEF OutcomeIsEarned, RetriesBeforeFallback, MadeUpOnlyWithoutSdk,
                            ErrorMeansAllFailed
<1>. QED  BY <1>2, <1>4, <1>5 DEF IInv

LEMMA SpecIInv == Spec => []IInv
<1>1. ASSUME IInv, Next PROVE IInv'
  <2>1. CASE PassesOver \/ HasNoSdk \/ MakesNoAttempt \/ FirstAttempt \/ EndOfChain
    BY <1>1, <2>1, NextClientKeeps
  <2>2. CASE MakesUp
    BY <1>1, <2>2, MakesUpKeeps
  <2>3. CASE Answers \/ AnswersUnusably \/ Fails
    BY <1>1, <2>3, AttemptKeeps
  <2>4. CASE BacksOff
    BY <1>1, <2>4, BacksOffKeeps
  <2>5. CASE LimitReached \/ LoopStops
    BY <1>1, <2>5, CancelledKeeps
  <2>. QED  BY <1>1, <2>1, <2>2, <2>3, <2>4, <2>5 DEF Next, Proceeds
<1>2. IInv /\ [Next]_vars => IInv'
  BY <1>1, StutterKeeps
<1>. QED  BY InitIInv, <1>2, PTL DEF Spec

-----------------------------------------------------------------------------
(* The variables of a call keep their types; the chain is always a rest of *)
(* the one the router built (llm_client.py).                               *)
THEOREM ClientTypeCorrect == Spec => []TypeOK
<1>1. IInv => TypeOK
  BY DEF IInv
<1>. QED  BY <1>1, SpecIInv, PTL

(* OutcomeIsEarned: whatever keys and packages are missing, however many   *)
(* retries are set and in whatever order the providers fail, the next is   *)
(* asked only after the one before it had its attempts, a made-up reply    *)
(* comes only from a client without SDK or a chain without key, and an     *)
(* error only after everyone failed (_with_retry, FallbackLLMClient).      *)
THEOREM OutcomesAreEarned == Spec => []OutcomeIsEarned
<1>1. IInv => OutcomeIsEarned
  BY DEF IInv
<1>. QED  BY <1>1, SpecIInv, PTL
-----------------------------------------------------------------------------
(* The time of a call. *)

(* What the clients that are done may have taken.                          *)
SpentBefore ==
    CASE chain = <<>> -> LongestOf("openai") + LongestOf("gemini")
      [] chain = <<"gemini">> -> LongestOf("openai")
      [] OTHER -> 0

(* What the present one may have taken: its attempts, and the back-offs of *)
(* 1 + 2 + ... between them.                                               *)
SpentNow ==
    CASE pc = "asking" -> attempt * TIMEOUT + PowerOfTwo[attempt] - 1
      [] pc = "backing_off" -> (attempt + 1) * TIMEOUT + PowerOfTwo[attempt] - 1
      [] OTHER -> 0

TimeInv ==
    /\ elapsed \in Nat
    /\ pc \in {"asking", "backing_off"} => Present \in settings.keys
    /\ pc \notin Over => elapsed <= SpentBefore + SpentNow
    /\ AnswersInTime

LEMMA TimesGrow ==
    ASSUME NEW a \in Nat, NEW b \in Nat, NEW t \in Nat, a <= b
    PROVE  a * t \in Nat /\ a * t <= b * t /\ (a + 1) * t = a * t + t
  OBVIOUS

LEMMA LongestIsNat == ASSUME NEW n \in Nat PROVE Longest(n) \in Nat
<1>1. TIMEOUT \in Nat
  BY ClientAssumption
<1>2. CASE n # 0
  <2>1. PowerOfTwo[n - 1] \in Nat /\ PowerOfTwo[n - 1] >= 1
    BY <1>2, PowerOfTwoFacts
  <2>2. n * TIMEOUT \in Nat
    BY <1>1, TimesGrow
  <2>. QED  BY <1>2, <2>1, <2>2 DEF Longest
<1>. QED  BY <1>2 DEF Longest

LEMMA LongestOfIsNat ==
    ASSUME TypeOK, NEW c \in Providers
    PROVE  LongestOf(c) \in Nat
  BY RetriesAreNat, LongestIsNat DEF LongestOf

(* An attempt that lasts as long as it may, and a back-off, stay within    *)
(* what the present client may take.                                       *)
LEMMA PresentInTime ==
    ASSUME IInv, pc \in {"asking", "backing_off"}, Present \in settings.keys
    PROVE  /\ SpentNow + LongestWait <= LongestOf(Present)
           /\ SpentNow \in Nat
<1>1. TypeOK /\ chain # <<>> /\ Present \in Providers /\ Present \in WithKey
  <2>1. TypeOK /\ ChainAt /\ chain # <<>>
    BY DEF IInv, ChainAt
  <2>. QED  BY <2>1, PresentFacts, WithKeyFacts DEF ChainAt, Providers
<1> DEFINE n == MaxRetries(Present)
<1>2. /\ n \in Nat /\ TIMEOUT \in Nat /\ attempt \in Nat
      /\ LongestOf(Present) = Longest(n)
  BY <1>1, RetriesAreNat, ClientAssumption DEF TypeOK, LongestOf
<1>3. /\ pc = "asking" => attempt < n
      /\ pc = "backing_off" => attempt + 1 < n
  BY DEF IInv, PresentAt
<1> HIDE DEF n
<1>4. n # 0 /\ n - 1 \in Nat /\ attempt <= n - 1 /\ attempt + 1 <= n
  BY <1>2, <1>3
<1>5. Longest(n) = n * TIMEOUT + PowerOfTwo[n - 1] - 1
  BY <1>4 DEF Longest
<1>6. /\ attempt * TIMEOUT \in Nat /\ n * TIMEOUT \in Nat
      /\ (attempt + 1) * TIMEOUT = attempt * TIMEOUT + TIMEOUT
      /\ (attempt + 1) * TIMEOUT <= n * TIMEOUT
  <2>1. attempt + 1 \in Nat
    BY <1>2
  <2>. QED  BY <1>2, <1>4, <2>1, TimesGrow
<1>7. /\ PowerOfTwo[attempt] \in Nat /\ PowerOfTwo[attempt] >= 1
      /\ PowerOfTwo[n - 1] \in Nat /\ PowerOfTwo[attempt] <= PowerOfTwo[n - 1]
      /\ PowerOfTwo[attempt + 1] = 2 * PowerOfTwo[attempt]
  BY <1>2, <1>4, PowerOfTwoFacts, PowerOfTwoGrows
<1>8. CASE pc = "asking"
  <2>1. SpentNow = attempt * TIMEOUT + PowerOfTwo[attempt] - 1 /\ LongestWait = TIMEOUT
    BY <1>8 DEF SpentNow, LongestWait
  <2>. QED  BY <1>2, <1>5, <1>6, <1>7, <2>1
<1>9. CASE pc = "backing_off"
  <2>1. /\ SpentNow = (attempt + 1) * TIMEOUT + PowerOfTwo[attempt] - 1
        /\ LongestWait = PowerOfTwo[attempt]
    BY <1>9 DEF SpentNow, LongestWait
  <2>2. attempt + 1 \in Nat /\ attempt + 1 <= n - 1
    BY <1>2, <1>3, <1>4, <1>9
  <2>3. PowerOfTwo[attempt + 1] <= PowerOfTwo[n - 1]
    BY <1>4, <2>2, PowerOfTwoGrows
  <2>. QED  BY <1>2, <1>5, <1>6, <1>7, <2>1, <2>3
<1>. QED  BY <1>8, <1>9

(* However the present wait ends, the whole call is within its time; and   *)
(* once the present client is done, so is what it took.                    *)
LEMMA WaitInTime ==
    ASSUME IInv, TimeInv, pc \notin Over
    PROVE  /\ elapsed + LongestWait <= LongestOf("openai") + LongestOf("gemini")
           /\ SpentBefore \in Nat /\ SpentNow \in Nat /\ LongestWait \in Nat
           /\ pc \in {"asking", "backing_off"} =>
                 SpentBefore + LongestOf(Present) <=
                     (IF chain = <<"gemini">> THEN LongestOf("openai") + LongestOf("gemini")
                                              ELSE LongestOf("openai"))
<1>1. TypeOK /\ ChainAt
  BY DEF IInv
<1>2. LongestOf("openai") \in Nat /\ LongestOf("gemini") \in Nat
  BY <1>1, LongestOfIsNat DEF Providers
<1>3. /\ SpentBefore \in Nat
      /\ SpentBefore <= LongestOf("openai") + LongestOf("gemini")
  BY <1>2 DEF SpentBefore
<1>4. elapsed \in Nat /\ elapsed <= SpentBefore + SpentNow
  BY DEF TimeInv
<1>5. CASE pc \in {"asking", "backing_off"}
  <2>1. SpentNow + LongestWait <= LongestOf(Present) /\ SpentNow \in Nat /\ LongestWait \in Nat
    BY <1>1, <1>5, PresentInTime, WaitTypes DEF TimeInv
  <2>2. SpentBefore + LongestOf(Present) <=
            (IF chain = <<"gemini">> THEN LongestOf("openai") + LongestOf("gemini")
                                     ELSE LongestOf("openai"))
    BY <1>1, <1>2, <1>5, PresentFacts, ChainFacts DEF SpentBefore, ChainAt
  <2>3. LongestOf(Present) \in Nat
    BY <1>1, <1>5, PresentFacts, LongestOfIsNat DEF ChainAt
  <2>. QED  BY <1>2, <1>3, <1>4, <2>1, <2>2, <2>3
<1>6. CASE pc \notin {"asking", "backing_off"}
  <2>1. SpentNow = 0 /\ LongestWait = 0
    BY <1>6 DEF SpentNow, LongestWait
  <2>. QED  BY <1>2, <1>3, <1>4, <1>6, <2>1
<1>. QED  BY <1>5, <1>6

LEMMA TimesStay ==
    ASSUME settings' = settings
    PROVE  LongestOf("openai")' = LongestOf("openai") /\ LongestOf("gemini")' = LongestOf("gemini")
  BY SettingsStay DEF LongestOf

LEMMA InitTimeInv == Init => TimeInv
<1> SUFFICES ASSUME Init PROVE TimeInv
  OBVIOUS
<1>1. IInv /\ elapsed = 0 /\ pc = "next_client"
  BY InitIInv DEF Init
<1>2. LongestOf("openai") \in Nat /\ LongestOf("gemini") \in Nat
  BY <1>1, LongestOfIsNat DEF IInv, Providers
<1>3. SpentBefore \in Nat
  BY <1>2 DEF SpentBefore
<1>4. SpentNow = 0
  BY <1>1 DEF SpentNow
<1>5. limit # Unlimited => 0 <= limit
  BY <1>1, ClientAssumption DEF IInv, TypeOK
<1>. QED  BY <1>1, <1>2, <1>3, <1>4, <1>5 DEF TimeInv, AnswersInTime, Over

(* Steps that take no time.                                                *)
LEMMA NextClientInTime ==
    ASSUME IInv, TimeInv,
           \/ PassesOver \/ HasNoSdk \/ MakesNoAttempt \/ FirstAttempt \/ EndOfChain
           \/ MakesUp
    PROVE  TimeInv'
<1>1. TypeOK /\ ChainAt /\ pc \notin Over /\ UNCHANGED <<settings, limit, elapsed>>
  BY DEF IInv, PassesOver, HasNoSdk, MakesNoAttempt, FirstAttempt, EndOfChain, MakesUp,
         Tries, Unchanged, Over
<1>2. elapsed \in Nat /\ elapsed <= SpentBefore + SpentNow /\ AnswersInTime
  BY <1>1 DEF TimeInv
<1>3. AnswersInTime'
  BY <1>1, <1>2, TimesStay DEF AnswersInTime
<1>4. SpentNow = 0
  BY DEF SpentNow, PassesOver, HasNoSdk, MakesNoAttempt, FirstAttempt, EndOfChain, MakesUp,
         Tries
<1>5. LongestOf("openai") \in Nat /\ LongestOf("gemini") \in Nat
  BY <1>1, LongestOfIsNat DEF Providers
<1>6. CASE PassesOver \/ MakesNoAttempt
  <2>1. /\ chain # <<>> /\ chain' = Tail(chain) /\ pc' = "next_client"
    BY <1>6 DEF PassesOver, MakesNoAttempt, Tries, ClientFails
  <2>2. SpentNow' = 0
    BY <2>1 DEF SpentNow
  <2>3. /\ SpentBefore \in Nat /\ SpentBefore' \in Nat /\ SpentBefore <= SpentBefore'
    BY <1>1, <1>5, <2>1, PresentFacts, ChainFacts, TimesStay DEF SpentBefore
  <2>4. elapsed <= SpentBefore /\ elapsed' = elapsed
    BY <1>1, <1>2, <1>4, <2>3
  <2>5. elapsed <= SpentBefore'
    BY <1>2, <2>3, <2>4
  <2>6. elapsed' <= SpentBefore' + SpentNow'
    BY <2>2, <2>3, <2>4, <2>5
  <2>. QED  BY <1>1, <1>2, <1>3, <2>1, <2>6 DEF TimeInv
<1>7. CASE HasNoSdk \/ EndOfChain \/ MakesUp
  <2>1. /\ chain' = chain
        /\ pc' \in {"making_up", "raised", "returned"}
    BY <1>7 DEF HasNoSdk, EndOfChain, MakesUp
  <2>2. SpentNow' = 0 /\ SpentBefore' = SpentBefore
    BY <1>1, <2>1, TimesStay DEF SpentNow, SpentBefore
  <2>. QED  BY <1>1, <1>2, <1>3, <1>4, <2>1, <2>2 DEF TimeInv
<1>8. CASE FirstAttempt
  <2>1. /\ chain' = chain /\ pc' = "asking" /\ attempt' = 0 /\ Present' = Present
        /\ Present \in settings.keys
    BY <1>8 DEF FirstAttempt, Present, Live
  <2>2. SpentNow' = 0
    BY <2>1, PowerOfTwoFacts, ClientAssumption DEF SpentNow
  <2>3. SpentBefore' = SpentBefore
    BY <1>1, <2>1, TimesStay DEF SpentBefore
  <2>. QED  BY <1>1, <1>2, <1>3, <1>4, <2>1, <2>2, <2>3 DEF TimeInv
<1>. QED  BY <1>6, <1>7, <1>8

LEMMA AttemptInTime ==
    ASSUME IInv, TimeInv, Answers \/ AnswersUnusably \/ Fails
    PROVE  TimeInv'
<1>1. /\ TypeOK /\ ChainAt /\ pc = "asking" /\ pc \notin Over
      /\ UNCHANGED <<settings, limit, attempt>>
  BY DEF IInv, Answers, AnswersUnusably, Fails, Attempted, Over
<1>2. PICK d \in 0..TIMEOUT : Passes(d)
  BY DEF Answers, AnswersUnusably, Fails, Attempted
<1>3. /\ elapsed' = elapsed + d /\ elapsed \in Nat /\ TIMEOUT \in Nat /\ attempt \in Nat
      /\ elapsed <= SpentBefore + SpentNow
      /\ limit # Unlimited => elapsed' <= limit
      /\ LongestWait = TIMEOUT
  BY <1>1, <1>2, ClientAssumption DEF Passes, TimeInv, TypeOK, LongestWait
<1>4. /\ elapsed + LongestWait <= LongestOf("openai") + LongestOf("gemini")
      /\ SpentBefore \in Nat /\ SpentNow \in Nat
  BY <1>1, WaitInTime
<1>5. LongestOf("openai") \in Nat /\ LongestOf("gemini") \in Nat /\ elapsed' \in Nat
  BY <1>1, <1>3, LongestOfIsNat DEF Providers
<1>6. AnswersInTime'
  BY <1>1, <1>3, <1>4, <1>5, TimesStay DEF AnswersInTime
<1>7. Present \in settings.keys /\ chain # <<>>
  BY <1>1 DEF TimeInv, ChainAt
<1>8. CASE Answers
  BY <1>5, <1>6, <1>8 DEF Answers, TimeInv, Over
<1>9. CASE Fails /\ MoreAttempts
  <2>1. pc' = "backing_off" /\ chain' = chain /\ Present' = Present
    BY <1>9 DEF Fails, Present
  <2>2. SpentBefore' = SpentBefore
    BY <1>1, <2>1, TimesStay DEF SpentBefore
  <2>3. SpentNow' = SpentNow + TIMEOUT
    <3>1. /\ SpentNow' = (attempt + 1) * TIMEOUT + PowerOfTwo[attempt] - 1
          /\ SpentNow = attempt * TIMEOUT + PowerOfTwo[attempt] - 1
      BY <1>1, <2>1 DEF SpentNow
    <3>2. /\ (attempt + 1) * TIMEOUT = attempt * TIMEOUT + TIMEOUT /\ attempt * TIMEOUT \in Nat
          /\ PowerOfTwo[attempt] \in Nat
      BY <1>3, TimesGrow, PowerOfTwoFacts
    <3>. QED  BY <1>3, <3>1, <3>2
  <2>4. elapsed' <= SpentBefore' + SpentNow'
    BY <1>3, <1>4, <2>2, <2>3
  <2>. QED  BY <1>1, <1>5, <1>6, <1>7, <2>1, <2>4 DEF TimeInv
<1>10. CASE AnswersUnusably \/ (Fails /\ ~MoreAttempts)
  <2>1. pc' = "next_client" /\ chain' = Tail(chain)
    BY <1>10 DEF AnswersUnusably, Fails, ClientFails
  <2>2. SpentNow' = 0
    BY <2>1 DEF SpentNow
  <2>3. SpentNow + TIMEOUT <= LongestOf(Present)
    BY <1>1, <1>3, <1>7, PresentInTime
  <2>4. SpentBefore + LongestOf(Present) <= SpentBefore' /\ SpentBefore' \in Nat
    BY <1>1, <1>5, <1>7, <2>1, PresentFacts, ChainFacts, TimesStay DEF SpentBefore
  <2>5. LongestOf(Present) \in Nat
    BY <1>1, <1>7, PresentFacts, LongestOfIsNat
  <2>6. elapsed + d <= SpentBefore + LongestOf(Present) /\ elapsed' = elapsed + d
    BY <1>2, <1>3, <1>4, <2>3, <2>5
  <2>7. elapsed' <= SpentBefore'
    BY <1>2, <1>3, <1>4, <2>4, <2>5, <2>6
  <2>8. elapsed' <= SpentBefore' + SpentNow'
    BY <2>2, <2>4, <2>7
  <2>. QED  BY <1>5, <1>6, <2>1, <2>8 DEF TimeInv
<1>. QED  BY <1>8, <1>9, <1>10

LEMMA BacksOffInTime == ASSUME IInv, TimeInv, BacksOff PROVE TimeInv'
<1>1. /\ pc = "backing_off" /\ pc' = "asking" /\ attempt' = attempt + 1 /\ pc \notin Over
      /\ elapsed' = elapsed + PowerOfTwo[attempt] /\ (limit # Unlimited => elapsed' <= limit)
      /\ UNCHANGED <<settings, limit, chain>>
      /\ TypeOK /\ ChainAt /\ attempt \in Nat
      /\ elapsed \in Nat /\ elapsed <= SpentBefore + SpentNow /\ LongestWait = PowerOfTwo[attempt]
  BY DEF BacksOff, Passes, IInv, TypeOK, TimeInv, Over, LongestWait
<1>2. Present' = Present /\ Present \in settings.keys
  BY <1>1 DEF Present, TimeInv
<1>3. /\ elapsed + LongestWait <= LongestOf("openai") + LongestOf("gemini")
      /\ SpentBefore \in Nat /\ SpentNow \in Nat
  BY <1>1, WaitInTime
<1>4. PowerOfTwo[attempt] \in Nat /\ PowerOfTwo[attempt + 1] = 2 * PowerOfTwo[attempt]
  BY <1>1, PowerOfTwoFacts
<1>5. AnswersInTime'
  BY <1>1, <1>3, TimesStay DEF AnswersInTime
<1>6. SpentNow' = SpentNow + PowerOfTwo[attempt]
  <2>1. /\ SpentNow' = (attempt + 1) * TIMEOUT + PowerOfTwo[attempt + 1] - 1
        /\ SpentNow = (attempt + 1) * TIMEOUT + PowerOfTwo[attempt] - 1
    BY <1>1 DEF SpentNow
  <2>2. (attempt + 1) * TIMEOUT \in Nat
    BY <1>1, ClientAssumption
  <2>. QED  BY <1>4, <2>1, <2>2
<1>7. SpentBefore' = SpentBefore
  BY <1>1, TimesStay DEF SpentBefore
<1>8. elapsed' \in Nat /\ elapsed' <= SpentBefore' + SpentNow'
  BY <1>1, <1>3, <1>4, <1>6, <1>7
<1>. QED  BY <1>1, <1>2, <1>5, <1>8 DEF TimeInv

LEMMA CancelledInTime == ASSUME IInv, TimeInv, LimitReached \/ LoopStops PROVE TimeInv'
<1>1. /\ TypeOK /\ pc \notin Over /\ elapsed \in Nat /\ LongestWait \in Nat
      /\ pc' = "cancelled" /\ UNCHANGED <<settings, limit>>
  BY WaitTypes DEF IInv, LimitReached, LoopStops, Cancelled, Suspensions, Over, TimeInv
<1>2. /\ elapsed + LongestWait <= LongestOf("openai") + LongestOf("gemini")
      /\ LongestOf("openai") \in Nat /\ LongestOf("gemini") \in Nat
  BY <1>1, WaitInTime, LongestOfIsNat DEF Providers
<1>3. elapsed' \in Nat /\ elapsed' <= elapsed + LongestWait
      /\ (limit # Unlimited => elapsed' <= limit)
  <2>1. CASE LimitReached
    <3>1. limit \in Nat /\ elapsed' = limit /\ limit <= elapsed + LongestWait
      BY <1>1, <2>1, ClientAssumption DEF LimitReached, TypeOK
    <3>. QED  BY <1>1, <3>1
  <2>2. CASE LoopStops
    BY <1>1, <2>2 DEF LoopStops, Passes
  <2>. QED  BY <2>1, <2>2
<1>4. AnswersInTime'
  BY <1>1, <1>2, <1>3, TimesStay DEF AnswersInTime
<1>. QED  BY <1>1, <1>3, <1>4 DEF TimeInv, Over

LEMMA StutterInTime == ASSUME TimeInv, UNCHANGED vars PROVE TimeInv'
<1>1. UNCHANGED <<settings, limit, pc, chain, attempt, elapsed>>
  BY DEF vars
<1>2. /\ AnswersInTime' <=> AnswersInTime
      /\ SpentBefore' = SpentBefore /\ SpentNow' = SpentNow /\ Present' = Present
  BY <1>1, TimesStay DEF AnswersInTime, SpentBefore, SpentNow, Present
<1>. QED  BY <1>1, <1>2 DEF TimeInv

(* AnswersInTime: for any number of retries and any time-out, whatever the *)
(* providers do, a call is over within its attempts' time-outs and the     *)
(* back-offs between them, summed over the clients with a key, and within  *)
(* the caller's limit (_with_retry, FallbackLLMClient, llm_judge.py:151).  *)
THEOREM CallsStayInTime == Spec => []AnswersInTime
<1>1. ASSUME IInv, TimeInv, Next PROVE TimeInv'
  <2>1. CASE PassesOver \/ HasNoSdk \/ MakesNoAttempt \/ FirstAttempt \/ EndOfChain \/ MakesUp
    BY <1>1, <2>1, NextClientInTime
  <2>2. CASE Answers \/ AnswersUnusably \/ Fails
    BY <1>1, <2>2, AttemptInTime
  <2>3. CASE BacksOff
    BY <1>1, <2>3, BacksOffInTime
  <2>4. CASE LimitReached \/ LoopStops
    BY <1>1, <2>4, CancelledInTime
  <2>. QED  BY <1>1, <2>1, <2>2, <2>3, <2>4 DEF Next, Proceeds
<1>2. IInv /\ TimeInv /\ [Next]_vars => TimeInv'
  BY <1>1, StutterInTime
<1>3. TimeInv => AnswersInTime
  BY DEF TimeInv
<1>. QED  BY InitTimeInv, SpecIInv, <1>2, <1>3, PTL DEF Spec
-----------------------------------------------------------------------------
(* The end of a call: CallEnds without the fairness. *)

(* The steps that are left, at most: two for an attempt and its back-off,  *)
(* two more for a client, and two for the end of the chain.                *)
WorkOf(c) == 2 * MaxRetries(c) + 2

WorkOfChain ==
    CASE chain = <<"openai", "gemini">> -> WorkOf("openai") + WorkOf("gemini")
      [] chain = <<"gemini">> -> WorkOf("gemini")
      [] OTHER -> 0

Work == CASE pc = "next_client" -> WorkOfChain + 2
          [] pc = "asking" -> WorkOfChain + 1 - 2 * attempt
          [] pc = "backing_off" -> WorkOfChain - 2 * attempt
          [] pc = "making_up" -> 1
          [] OTHER -> 0

StepsAreProgress == [][Work' < Work]_vars

LEMMA WorkOfChainFacts ==
    ASSUME TypeOK
    PROVE  /\ WorkOfChain \in Nat
           /\ chain # <<>> =>
                 /\ MaxRetries(Present) \in Nat
                 /\ settings' = settings /\ chain' = Tail(chain) =>
                       /\ WorkOfChain' \in Nat
                       /\ WorkOfChain = WorkOfChain' + 2 * MaxRetries(Present) + 2
                 /\ WorkOfChain >= 2 * MaxRetries(Present) + 2
<1>1. WorkOf("openai") \in Nat /\ WorkOf("gemini") \in Nat
  BY RetriesAreNat DEF WorkOf, Providers
<1>2. WorkOfChain \in Nat
  BY <1>1 DEF WorkOfChain
<1>3. ASSUME chain # <<>> PROVE MaxRetries(Present) \in Nat /\ Present \in Providers
  BY <1>3, PresentFacts, RetriesAreNat
<1>4. ASSUME chain # <<>>, settings' = settings, chain' = Tail(chain)
      PROVE  /\ WorkOfChain' \in Nat
             /\ WorkOfChain = WorkOfChain' + 2 * MaxRetries(Present) + 2
  <2>1. /\ WorkOf("openai")' = WorkOf("openai") /\ WorkOf("gemini")' = WorkOf("gemini")
    BY <1>4, SettingsStay DEF WorkOf
  <2>2. CASE chain = <<"gemini">>
    <3>1. chain' = <<>> /\ Present = "gemini"
      BY <1>4, <2>2, ChainFacts DEF Present
    <3>2. WorkOfChain = WorkOf("gemini") /\ WorkOfChain' = 0
      BY <2>2, <3>1, ChainFacts DEF WorkOfChain
    <3>3. WorkOf("gemini") = 2 * MaxRetries(Present) + 2
      BY <3>1 DEF WorkOf
    <3>. QED  BY <1>1, <1>3, <1>4, <3>2, <3>3
  <2>3. CASE chain = <<"openai", "gemini">>
    <3>1. chain' = <<"gemini">> /\ Present = "openai"
      BY <1>4, <2>3, ChainFacts DEF Present
    <3>2. WorkOfChain = WorkOf("openai") + WorkOf("gemini") /\ WorkOfChain' = WorkOf("gemini")
      BY <2>1, <2>3, <3>1, ChainFacts DEF WorkOfChain
    <3>3. WorkOf("openai") = 2 * MaxRetries(Present) + 2
      BY <3>1 DEF WorkOf
    <3>. QED  BY <1>1, <1>3, <1>4, <3>2, <3>3
  <2>. QED  BY <1>4, <2>2, <2>3 DEF TypeOK
<1>5. ASSUME chain # <<>> PROVE WorkOfChain >= 2 * MaxRetries(Present) + 2
  <2>1. CASE chain = <<"gemini">>
    BY <1>1, <2>1, ChainFacts DEF Present, WorkOfChain, WorkOf
  <2>2. CASE chain = <<"openai", "gemini">>
    <3>1. WorkOfChain = WorkOf("openai") + WorkOf("gemini") /\ Present = "openai"
      BY <2>2, ChainFacts DEF WorkOfChain, Present
    <3>2. WorkOf("openai") = 2 * MaxRetries(Present) + 2
      BY <3>1 DEF WorkOf
    <3>. QED  BY <1>1, <1>3, <1>5, <3>1, <3>2
  <2>. QED  BY <1>5, <2>1, <2>2 DEF TypeOK
<1>. QED  BY <1>2, <1>3, <1>4, <1>5

LEMMA WorkIsNat == ASSUME IInv PROVE Work \in Nat
<1>1. TypeOK /\ ChainAt /\ attempt \in Nat /\ WorkOfChain \in Nat
  BY WorkOfChainFacts DEF IInv, TypeOK
<1>2. CASE pc \in {"asking", "backing_off"}
  <2>1. /\ MaxRetries(Present) \in Nat /\ WorkOfChain >= 2 * MaxRetries(Present) + 2
        /\ attempt < MaxRetries(Present)
    BY <1>1, <1>2, WorkOfChainFacts DEF ChainAt, IInv, PresentAt
  <2>. QED  BY <1>1, <1>2, <2>1 DEF Work
<1>. QED  BY <1>1, <1>2 DEF Work

LEMMA NextIsProgress == ASSUME IInv, Next PROVE Work' < Work
<1>1. /\ TypeOK /\ ChainAt /\ PresentAt /\ attempt \in Nat /\ WorkOfChain \in Nat
      /\ settings' = settings
  BY WorkOfChainFacts DEF IInv, TypeOK, Next, Proceeds, PassesOver, HasNoSdk,
         MakesNoAttempt, FirstAttempt, EndOfChain, MakesUp, Answers, AnswersUnusably, Fails,
         Attempted, BacksOff, LimitReached, LoopStops, Cancelled, Unchanged
<1>2. chain' = chain => WorkOfChain' = WorkOfChain
  BY <1>1, SettingsStay DEF WorkOfChain, WorkOf
<1>3. pc \in {"asking", "backing_off"} =>
          /\ chain # <<>> /\ MaxRetries(Present) \in Nat
          /\ WorkOfChain >= 2 * MaxRetries(Present) + 2
          /\ attempt < MaxRetries(Present)
  BY <1>1, WorkOfChainFacts DEF ChainAt, PresentAt
<1>4. CASE PassesOver \/ MakesNoAttempt
  <2>1. chain # <<>> /\ chain' = Tail(chain) /\ pc = "next_client" /\ pc' = "next_client"
    BY <1>4 DEF PassesOver, MakesNoAttempt, Tries, ClientFails
  <2>2. /\ WorkOfChain = WorkOfChain' + 2 * MaxRetries(Present) + 2 /\ WorkOfChain' \in Nat
        /\ MaxRetries(Present) \in Nat
    BY <1>1, <2>1, WorkOfChainFacts
  <2>3. Work = WorkOfChain + 2 /\ Work' = WorkOfChain' + 2
    BY <2>1 DEF Work
  <2>. QED  BY <1>1, <2>2, <2>3
<1>5. CASE FirstAttempt
  <2>1. pc = "next_client" /\ pc' = "asking" /\ attempt' = 0 /\ chain' = chain
    BY <1>5 DEF FirstAttempt, Tries
  <2>. QED  BY <1>1, <1>2, <2>1 DEF Work
<1>6. CASE HasNoSdk \/ EndOfChain
  <2>1. pc = "next_client" /\ pc' \in {"making_up", "raised"}
    BY <1>6 DEF HasNoSdk, EndOfChain, Tries
  <2>2. Work = WorkOfChain + 2 /\ Work' \in {0, 1}
    BY <2>1 DEF Work
  <2>. QED  BY <1>1, <2>2
<1>7. CASE MakesUp
  BY <1>7 DEF MakesUp, Work
<1>8. CASE Answers \/ LimitReached \/ LoopStops
  <2>1. Work' = 0 /\ pc \in Suspensions
    BY <1>8 DEF Answers, Attempted, LimitReached, LoopStops, Cancelled, Work, Suspensions
  <2>2. Work >= 1
    BY <1>1, <1>3, <2>1 DEF Work, Suspensions
  <2>. QED  BY <1>1, <2>1, <2>2, WorkIsNat
<1>9. CASE AnswersUnusably \/ (Fails /\ ~MoreAttempts)
  <2>1. chain' = Tail(chain) /\ pc = "asking" /\ pc' = "next_client"
    BY <1>9 DEF AnswersUnusably, Fails, Attempted, ClientFails
  <2>2. WorkOfChain = WorkOfChain' + 2 * MaxRetries(Present) + 2 /\ WorkOfChain' \in Nat
    BY <1>1, <1>3, <2>1, WorkOfChainFacts
  <2>3. Work = WorkOfChain + 1 - 2 * attempt /\ Work' = WorkOfChain' + 2
    BY <2>1 DEF Work
  <2>. QED  BY <1>1, <1>3, <2>1, <2>2, <2>3
<1>10. CASE Fails /\ MoreAttempts
  <2>1. pc = "asking" /\ pc' = "backing_off" /\ chain' = chain /\ attempt' = attempt
    BY <1>10 DEF Fails, Attempted
  <2>. QED  BY <1>1, <1>2, <2>1 DEF Work
<1>11. CASE BacksOff
  <2>1. pc = "backing_off" /\ pc' = "asking" /\ chain' = chain /\ attempt' = attempt + 1
    BY <1>11 DEF BacksOff
  <2>. QED  BY <1>1, <1>2, <2>1 DEF Work
<1>. QED  BY <1>4, <1>5, <1>6, <1>7, <1>8, <1>9, <1>10, <1>11 DEF Next, Proceeds

(* Every step of a call uses up some of a finite amount of work, which the *)
(* settings fix: no combination of failures, keys and limits lets it go    *)
(* round in circles.  What CallEnds adds is that it does not stand still   *)
(* (_with_retry, FallbackLLMClient).                                       *)
THEOREM CallsMakeProgress == Spec => [](Work \in Nat) /\ StepsAreProgress
<1>1. IInv => Work \in Nat
  BY WorkIsNat
<1>2. IInv /\ [Next]_vars => [Work' < Work]_vars
  BY NextIsProgress
<1>. QED  BY SpecIInv, <1>1, <1>2, PTL DEF Spec, StepsAreProgress
=============================================================================
