-------------------------- MODULE ToolAccessProofs --------------------------
(***************************************************************************)
(* The role under which a tool is called, what may run under it, what the  *)
(* audit says of each call, and what its file keeps of that, for any       *)
(* tasks, names, blocks, calls, faults and restarts.                       *)
(***************************************************************************)
EXTENDS ToolAccess, SequenceTheorems, FiniteSetTheorems, WellFoundedInduction, TLAPS

Block == [as : ActingRoles, saved : Roles]
CallRecord ==
    [task : Tasks, tool : Names, as : Roles, ran : BOOLEAN,
     outcome : {"unknown", "running", "returned", "raised", "denied", "cancelled"}]

Typed ==
    /\ role \in [Tasks -> Roles]
    /\ blocks \in [Tasks -> Seq(Block)]
    /\ calls \in Seq(CallRecord) /\ Len(calls) <= MaxCalls
    /\ denials \in Seq(Events) /\ logged \in Seq(Events) /\ lost \subseteq Events
    /\ file \in Files(Events)
    /\ faults \in 0..MaxFaults
    /\ restarts \in 0..MaxRestarts

(* A task is under its innermost block, and each open block saved the role *)
(* of the block around it.                                                 *)
NestedAt(t) ==
    /\ role[t] = Within(t)
    /\ \A k \in 1..Len(blocks[t]) :
          blocks[t][k].saved = IF k = 1 THEN "SYSTEM" ELSE blocks[t][k - 1].as

Needs(n) == Tools[n].needs

(* What a call tells of the role it was made under, which is still that of *)
(* its task while its body is suspended.                                   *)
CallAt(i) ==
    /\ calls[i].ran => /\ calls[i].tool \in DOMAIN Tools
                       /\ Needs(calls[i].tool) \in PermissionsFor(calls[i].as)
    /\ calls[i].outcome = "denied" =>
          ~(calls[i].tool \in DOMAIN Tools /\ Needs(calls[i].tool) \in PermissionsFor(calls[i].as))
    /\ calls[i].outcome = "running" =>
          \A t \in Tasks : calls[i].task = t => Within(t) = calls[i].as

(* An event, written or about to be, names the caller. *)
Attributed(e) == e.id \in 1..Len(calls) /\ e.actor = calls[e.id].as

IInv == /\ Typed
        /\ \A t \in Tasks : NestedAt(t)
        /\ \A i \in 1..Len(calls) : CallAt(i)
        /\ \A i \in 1..Len(logged) : Attributed(logged[i])
        /\ \A i \in 1..Len(denials) : Attributed(denials[i])

-----------------------------------------------------------------------------
(* Sequences and the file. *)

LEMMA AppendFacts ==
    ASSUME NEW S, NEW s \in Seq(S), NEW x \in S
    PROVE  /\ Append(s, x) \in Seq(S) /\ Len(Append(s, x)) = Len(s) + 1
           /\ Append(s, x)[Len(s) + 1] = x
           /\ \A i \in 1..Len(s) : Append(s, x)[i] = s[i]
           /\ Len(s) \in Nat
  BY AppendProperties, LenProperties

LEMMA FrontFacts ==
    ASSUME NEW S, NEW s \in Seq(S), s # <<>>
    PROVE  /\ Front(s) \in Seq(S) /\ Len(Front(s)) = Len(s) - 1
           /\ Last(s) = s[Len(s)] /\ Last(s) \in S
           /\ Len(s) \in Nat \ {0} /\ Len(s) \in 1..Len(s)
           /\ \A i \in 1..(Len(s) - 1) : Front(s)[i] = s[i]
<1>1. Len(s) \in Nat /\ Len(s) # 0 /\ DOMAIN s = 1..Len(s)
  BY LenProperties, EmptySeq
<1>2. Front(s) = SubSeq(s, 1, Len(s) - 1) /\ Last(s) = s[Len(s)]
  BY DEF Front, Last
<1>3. \A i \in 1..Len(s) : s[i] \in S
  BY ElementOfSeq
<1>. QED  BY <1>1, <1>2, <1>3, SubSeqProperties

LEMMA ToSetFacts ==
    ASSUME NEW S, NEW s \in Seq(S)
    PROVE  ToSet(s) \subseteq S /\ \A x \in ToSet(s) : \E i \in 1..Len(s) : x = s[i]
  BY ElementOfSeq, LenProperties DEF ToSet

LEMMA FrontOrEmpty ==
    ASSUME NEW S, NEW s \in Seq(S)
    PROVE  Front(s) \in Seq(S)
<1>1. CASE s = <<>>
  BY <1>1, EmptySeq, SubSeqProperties DEF Front
<1>2. CASE s # <<>>
  BY <1>2, FrontFacts
<1>. QED  BY <1>1, <1>2

(* Whatever the disk does, the file holds events and garbled lines.        *)
LEMMA FileFacts ==
    ASSUME NEW e \in Events, file \in Files(Events)
    PROVE  /\ Write(file, e) \in Files(Events)
           /\ CutShort(file, e) \subseteq Files(Events)
<1> DEFINE Lines == Events \cup {Garbled}
<1>1. file.lines \in Seq(Lines)
  BY DEF Files
<1> HIDE DEF Lines
<1>2. Front(file.lines) \in Seq(Lines)
  BY <1>1, FrontOrEmpty
<1>3. ASSUME NEW s \in Seq(Lines), NEW x \in Lines PROVE Append(s, x) \in Seq(Lines)
  BY AppendFacts
<1>4. Garbled \in Lines /\ e \in Lines
  BY DEF Lines
<1>5. ASSUME NEW x \in Lines
      PROVE  (IF file.open THEN Append(Front(file.lines), Garbled)
              ELSE Append(file.lines, x)) \in Seq(Lines)
  <2>1. Append(Front(file.lines), Garbled) \in Seq(Lines)
    BY <1>2, <1>3, <1>4
  <2>2. Append(file.lines, x) \in Seq(Lines)
    BY <1>1, <1>3
  <2>. QED  BY <2>1, <2>2
<1>6. Files(Events) = [lines : Seq(Lines), open : BOOLEAN]
  BY DEF Files, Lines
<1>7. Write(file, e) \in Files(Events)
  BY <1>4, <1>5, <1>6 DEF Write
<1>8. CutShort(file, e) \subseteq Files(Events)
  BY <1>4, <1>5, <1>6 DEF CutShort
<1>. QED  BY <1>7, <1>8

(* One log(), whether it succeeds or not. *)
LEMMA LogFacts ==
    ASSUME Typed, NEW e \in Events, Log(e)
    PROVE  /\ file' \in Files(Events) /\ logged' \in Seq(Events) /\ lost' \subseteq Events
           /\ faults' \in 0..MaxFaults
           /\ \A i \in 1..Len(logged') :
                 logged'[i] = e \/ (i \in 1..Len(logged) /\ logged'[i] = logged[i])
<1>1. /\ file \in Files(Events) /\ logged \in Seq(Events) /\ lost \subseteq Events
      /\ faults \in 0..MaxFaults
  BY DEF Typed
<1>2. MaxFaults \in Nat
  BY ToolAssumption
<1>3. CASE file' = Write(file, e) /\ logged' = Append(logged, e) /\ UNCHANGED <<lost, faults>>
  <2>1. /\ logged' \in Seq(Events) /\ Len(logged') = Len(logged) + 1 /\ Len(logged) \in Nat
        /\ logged'[Len(logged) + 1] = e
        /\ \A i \in 1..Len(logged) : logged'[i] = logged[i]
    BY <1>1, <1>3, AppendFacts
  <2>. QED  BY <1>1, <1>3, <2>1, FileFacts
<1>4. CASE /\ faults < MaxFaults /\ file' \in {file} \cup CutShort(file, e)
           /\ lost' = lost \cup {e} /\ faults' = faults + 1 /\ UNCHANGED logged
  BY <1>1, <1>2, <1>4, FileFacts
<1>. QED  BY <1>3, <1>4 DEF Log

-----------------------------------------------------------------------------
(* The steps. *)

LEMMA InitIInv == Init => IInv
<1> SUFFICES ASSUME Init PROVE IInv
  OBVIOUS
<1>1. /\ role = [t \in Tasks |-> "SYSTEM"] /\ blocks = [t \in Tasks |-> <<>>]
      /\ calls = <<>> /\ denials = <<>> /\ file = EmptyFile /\ logged = <<>>
      /\ lost = {} /\ faults = 0 /\ restarts = 0
  BY DEF Init
<1>2. /\ blocks \in [Tasks -> Seq(Block)] /\ \A t \in Tasks : Len(blocks[t]) = 0
      /\ calls \in Seq(CallRecord) /\ Len(calls) = 0
      /\ denials \in Seq(Events) /\ Len(denials) = 0
      /\ logged \in Seq(Events) /\ Len(logged) = 0
  BY <1>1, EmptySeq
<1>3. file \in Files(Events)
  BY <1>1, EmptySeq DEF EmptyFile, Files
<1>4. Typed
  BY <1>1, <1>2, <1>3, ToolAssumption DEF Typed, Roles
<1>5. \A t \in Tasks : NestedAt(t)
  BY <1>1, <1>2 DEF NestedAt, Within
<1>. QED  BY <1>2, <1>4, <1>5 DEF IInv

LEMMA RoleOfTask ==
    ASSUME IInv, NEW t \in Tasks
    PROVE  role[t] = Within(t) /\ role[t] \in Roles /\ Within(t) \in Roles
  BY DEF IInv, Typed, NestedAt

(* A block of another task is opened or closed: t does not notice. *)
LEMMA OtherTasks ==
    ASSUME IInv, NEW t \in Tasks, role'[t] = role[t], blocks'[t] = blocks[t]
    PROVE  NestedAt(t)' /\ Within(t)' = Within(t)
<1>1. NestedAt(t)
  BY DEF IInv
<1>2. Within(t)' = Within(t)
  BY DEF Within
<1>. QED  BY <1>1, <1>2 DEF NestedAt

(* While blocks come and go, the calls and the events stay as they are.    *)
LEMMA CallsStay ==
    ASSUME IInv, NEW t \in Tasks, ~Suspended(t),
           \A u \in Tasks \ {t} : Within(u)' = Within(u),
           UNCHANGED <<calls, denials, logged>>
    PROVE  /\ \A i \in 1..Len(calls') : CallAt(i)'
           /\ \A i \in 1..Len(logged') : Attributed(logged[i])'
           /\ \A i \in 1..Len(denials') : Attributed(denials[i])'
<1>1. calls \in Seq(CallRecord) /\ DOMAIN calls = 1..Len(calls)
  BY LenProperties DEF IInv, Typed
<1>2. ASSUME NEW i \in 1..Len(calls) PROVE CallAt(i)'
  <2>1. CallAt(i)
    BY DEF IInv
  <2>2. calls[i].outcome = "running" => calls[i].task # t
    BY <1>1 DEF Suspended
  <2>3. ASSUME calls[i].outcome = "running", NEW u \in Tasks, calls[i].task = u
        PROVE  Within(u)' = calls[i].as
    <3>1. u # t
      BY <2>2, <2>3
    <3>. QED  BY <3>1, <2>1, <2>3 DEF CallAt
  <2>. QED  BY <2>1, <2>3 DEF CallAt
<1>3. /\ \A i \in 1..Len(logged) : Attributed(logged[i])
      /\ \A i \in 1..Len(denials) : Attributed(denials[i])
  BY DEF IInv
<1>. QED  BY <1>2, <1>3 DEF Attributed

LEMMA EnterStep ==
    ASSUME IInv, NEW t \in Tasks, NEW r \in ActingRoles, Enter(t, r)
    PROVE  IInv'
<1> DEFINE b == [as |-> r, saved |-> role[t]]
<1>1. Typed /\ r \in Roles /\ b \in Block /\ b.as = r /\ b.saved = role[t]
  BY RoleOfTask, ToolAssumption DEF IInv, Block
<1>2. /\ ~Suspended(t) /\ blocks' = [blocks EXCEPT ![t] = Append(@, b)]
      /\ role' = [role EXCEPT ![t] = r]
      /\ UNCHANGED <<calls, denials, file, logged, lost, faults, restarts>>
  BY DEF Enter, SetRole
<1> HIDE DEF b
<1>3. role \in [Tasks -> Roles] /\ blocks \in [Tasks -> Seq(Block)] /\ blocks[t] \in Seq(Block)
  BY <1>1 DEF Typed
<1>4. /\ blocks'[t] = Append(blocks[t], b) /\ role'[t] = r
      /\ \A u \in Tasks \ {t} : role'[u] = role[u] /\ blocks'[u] = blocks[u]
  BY <1>2, <1>3
<1>5. /\ blocks'[t] \in Seq(Block) /\ Len(blocks'[t]) = Len(blocks[t]) + 1
      /\ blocks'[t][Len(blocks[t]) + 1] = b /\ Len(blocks[t]) \in Nat
      /\ \A k \in 1..Len(blocks[t]) : blocks'[t][k] = blocks[t][k]
  BY <1>1, <1>3, <1>4, AppendFacts
<1>6. role' \in [Tasks -> Roles] /\ blocks' \in [Tasks -> Seq(Block)]
  BY <1>1, <1>2, <1>3, <1>5, <1>4
<1>7. Typed'
  BY <1>1, <1>2, <1>6 DEF Typed
<1>8. blocks'[t] # <<>> /\ Within(t)' = r
  <2>1. blocks'[t] # <<>>
    BY <1>5, EmptySeq
  <2>2. Last(blocks'[t]) = b
    BY <1>5 DEF Last
  <2>. QED  BY <2>1, <2>2, <1>1 DEF Within
<1>9. NestedAt(t)'
  <2>1. NestedAt(t)
    BY DEF IInv
  <2>2. ASSUME NEW k \in 1..Len(blocks'[t])
        PROVE  blocks'[t][k].saved = IF k = 1 THEN "SYSTEM" ELSE blocks'[t][k - 1].as
    <3>1. CASE k \in 1..Len(blocks[t])
      <4>1. k # 1 => k - 1 \in 1..Len(blocks[t])
        BY <3>1, <1>5
      <4>2. blocks[t][k].saved = IF k = 1 THEN "SYSTEM" ELSE blocks[t][k - 1].as
        BY <3>1, <2>1 DEF NestedAt
      <4>. QED  BY <3>1, <4>1, <4>2, <1>5
    <3>2. CASE k = Len(blocks[t]) + 1 /\ Len(blocks[t]) = 0
      <4>1. blocks[t] = <<>>
        BY <3>2, <1>3, EmptySeq
      <4>2. role[t] = "SYSTEM"
        BY <4>1, <2>1 DEF NestedAt, Within
      <4>3. k = 1 /\ blocks'[t][k] = b
        BY <3>2, <1>5
      <4>. QED  BY <4>2, <4>3, <1>1
    <3>3. CASE k = Len(blocks[t]) + 1 /\ Len(blocks[t]) # 0
      <4>1. blocks[t] # <<>>
        BY <3>3, EmptySeq
      <4>2. role[t] = blocks[t][Len(blocks[t])].as
        BY <4>1, <2>1 DEF NestedAt, Within, Last
      <4>. QED  BY <4>2, <3>3, <1>1, <1>5
    <3>. QED  BY <3>1, <3>2, <3>3, <1>5
  <2>. QED  BY <2>2, <1>4, <1>8 DEF NestedAt
<1>10. \A u \in Tasks \ {t} : NestedAt(u)' /\ Within(u)' = Within(u)
  BY <1>4, OtherTasks
<1>. QED  BY <1>2, <1>7, <1>9, <1>10, CallsStay DEF IInv

LEMMA ExitStep ==
    ASSUME IInv, NEW t \in Tasks, Exit(t)
    PROVE  IInv'
<1>1. /\ Typed /\ NestedAt(t)
      /\ ~Suspended(t) /\ blocks[t] # <<>> /\ blocks' = [blocks EXCEPT ![t] = Front(@)]
      /\ role' = [role EXCEPT ![t] = Last(blocks[t]).saved]
      /\ UNCHANGED <<calls, denials, file, logged, lost, faults, restarts>>
  BY DEF IInv, Exit, SetRole
<1>2. role \in [Tasks -> Roles] /\ blocks \in [Tasks -> Seq(Block)] /\ blocks[t] \in Seq(Block)
  BY <1>1 DEF Typed
<1> DEFINE n == Len(blocks[t])
<1>3. /\ Front(blocks[t]) \in Seq(Block) /\ Len(Front(blocks[t])) = n - 1
      /\ n \in Nat \ {0} /\ n \in 1..n
      /\ Last(blocks[t]) = blocks[t][n] /\ Last(blocks[t]) \in Block
      /\ \A k \in 1..(n - 1) : Front(blocks[t])[k] = blocks[t][k]
  BY <1>1, <1>2, FrontFacts
<1> HIDE DEF n
<1>4. /\ blocks'[t] = Front(blocks[t]) /\ role'[t] = blocks[t][n].saved
      /\ \A u \in Tasks \ {t} : role'[u] = role[u] /\ blocks'[u] = blocks[u]
  BY <1>1, <1>2, <1>3
<1>5. Last(blocks[t]).saved \in Roles
  BY <1>3 DEF Block
<1>6. role' \in [Tasks -> Roles] /\ blocks' \in [Tasks -> Seq(Block)]
  BY <1>1, <1>2, <1>3, <1>5
<1>7. Typed'
  BY <1>1, <1>6 DEF Typed
<1>8. role'[t] = Within(t)'
  <2>1. blocks[t][n].saved = IF n = 1 THEN "SYSTEM" ELSE blocks[t][n - 1].as
    BY <1>1, <1>3 DEF NestedAt, n
  <2>2. CASE n = 1
    <3>1. Front(blocks[t]) = <<>>
      BY <2>2, <1>3, EmptySeq
    <3>. QED  BY <3>1, <2>1, <2>2, <1>4 DEF Within
  <2>3. CASE n # 1
    <3>1. n - 1 \in 1..(n - 1) /\ n - 1 # 0
      BY <2>3, <1>3
    <3>2. Front(blocks[t]) # <<>>
      BY <3>1, <1>3, EmptySeq
    <3>3. Last(Front(blocks[t])) = blocks[t][n - 1]
      BY <3>1, <1>3 DEF Last
    <3>. QED  BY <3>2, <3>3, <2>1, <2>3, <1>4 DEF Within
  <2>. QED  BY <2>2, <2>3
<1>9. NestedAt(t)'
  <2>1. ASSUME NEW k \in 1..(n - 1)
        PROVE  blocks'[t][k].saved = IF k = 1 THEN "SYSTEM" ELSE blocks'[t][k - 1].as
    <3>1. k \in 1..n /\ (k # 1 => k - 1 \in 1..(n - 1))
      BY <1>3
    <3>2. blocks[t][k].saved = IF k = 1 THEN "SYSTEM" ELSE blocks[t][k - 1].as
      BY <3>1, <1>1 DEF NestedAt, n
    <3>. QED  BY <3>1, <3>2, <1>3, <1>4
  <2>. QED  BY <2>1, <1>3, <1>4, <1>8 DEF NestedAt
<1>10. \A u \in Tasks \ {t} : NestedAt(u)' /\ Within(u)' = Within(u)
  BY <1>4, OtherTasks
<1>. QED  BY <1>1, <1>7, <1>9, <1>10, CallsStay DEF IInv

(* A call is added under the role of its task. *)
LEMMA CallAppended ==
    ASSUME IInv, NEW t \in Tasks, NEW n \in Names, NEW c \in CallRecord,
           Len(calls) < MaxCalls, calls' = Append(calls, c), UNCHANGED <<role, blocks>>,
           c.task = t, c.tool = n, c.as = Within(t),
           c.ran => Allowed(t, n), c.outcome = "denied" => ~Allowed(t, n)
    PROVE  /\ calls' \in Seq(CallRecord) /\ Len(calls') <= MaxCalls
           /\ Len(calls') \in CallIds /\ Len(calls') \in 1..Len(calls')
           /\ calls'[Len(calls')].as = role[t]
           /\ \A i \in 1..Len(calls') : CallAt(i)'
           /\ \A e : Attributed(e) => Attributed(e)'
           /\ \A u \in Tasks : NestedAt(u)'
<1>1. calls \in Seq(CallRecord) /\ MaxCalls \in Nat
  BY ToolAssumption DEF IInv, Typed
<1>2. /\ calls' \in Seq(CallRecord) /\ Len(calls') = Len(calls) + 1 /\ Len(calls) \in Nat
      /\ calls'[Len(calls) + 1] = c
      /\ \A i \in 1..Len(calls) : calls'[i] = calls[i]
  BY <1>1, AppendFacts
<1>3. Len(calls') <= MaxCalls /\ Len(calls') \in CallIds /\ Len(calls') \in 1..Len(calls')
  BY <1>1, <1>2 DEF CallIds
<1>4. role[t] = Within(t)
  BY RoleOfTask
<1>5. \A u \in Tasks : NestedAt(u)' /\ Within(u)' = Within(u)
  BY OtherTasks
<1>6. ASSUME NEW i \in 1..Len(calls') PROVE CallAt(i)'
  <2>1. CASE i \in 1..Len(calls)
    <3>1. CallAt(i) /\ calls'[i] = calls[i]
      BY <2>1, <1>2 DEF IInv
    <3>. QED  BY <3>1, <1>5 DEF CallAt
  <2>2. CASE i = Len(calls) + 1
    <3>1. calls'[i] = c
      BY <2>2, <1>2
    <3>. QED  BY <3>1, <1>4, <1>5 DEF CallAt, Allowed, Needs
  <2>. QED  BY <2>1, <2>2, <1>2
<1>7. ASSUME NEW e, Attributed(e) PROVE Attributed(e)'
  <2>1. e.id \in 1..Len(calls) /\ e.actor = calls[e.id].as
    BY <1>7 DEF Attributed
  <2>2. e.id \in 1..Len(calls') /\ calls'[e.id] = calls[e.id]
    BY <2>1, <1>2
  <2>. QED  BY <2>1, <2>2 DEF Attributed
<1>. QED  BY <1>2, <1>3, <1>4, <1>5, <1>6, <1>7

(* An event that names the caller goes to the file, or is lost.            *)
LEMMA LogKeeps ==
    ASSUME IInv, NEW e \in Events, Log(e), Attributed(e)',
           \A x : Attributed(x) => Attributed(x)'
    PROVE  (\A i \in 1..Len(logged) : Attributed(logged[i]))'
<1>1. Typed /\ \A i \in 1..Len(logged) : Attributed(logged[i])
  BY DEF IInv
<1>2. \A i \in 1..Len(logged') :
         logged'[i] = e \/ (i \in 1..Len(logged) /\ logged'[i] = logged[i])
  BY <1>1, LogFacts
<1>3. ASSUME NEW i \in 1..Len(logged') PROVE Attributed(logged[i])'
  <2>1. PICK x : x = logged'[i] /\ Attributed(x)'
    BY <1>1, <1>2
  <2>. QED  BY <2>1 DEF Attributed
<1>. QED  BY <1>3

LEMMA EventFacts ==
    ASSUME NEW i \in CallIds, NEW action \in Actions, NEW r \in Roles
    PROVE  LET e == Event(i, action, r) IN e \in Events /\ e.id = i /\ e.actor = r
  BY DEF Event, Events

(* A call that ends at once: the proxy logs its outcome, and a refusal is  *)
(* also left to a task of its own.                                         *)
LEMMA LoggedCall ==
    ASSUME IInv, NEW t \in Tasks, NEW n \in Names, NEW c \in CallRecord, NEW action \in Actions,
           Len(calls) < MaxCalls, calls' = Append(calls, c), UNCHANGED <<role, blocks, restarts>>,
           c.task = t, c.tool = n, c.as = Within(t),
           c.ran => Allowed(t, n), c.outcome = "denied" => ~Allowed(t, n),
           Log(Event(Len(calls'), action, role[t])),
           \/ UNCHANGED denials
           \/ denials' = Append(denials, Event(Len(calls'), "PERMISSION_DENIED", role[t]))
    PROVE  IInv'
<1>1. PICK e : e = Event(Len(calls'), action, role[t])
  OBVIOUS
<1>2. PICK d : d = Event(Len(calls'), "PERMISSION_DENIED", role[t])
  OBVIOUS
<1>3. /\ calls' \in Seq(CallRecord) /\ Len(calls') <= MaxCalls
      /\ Len(calls') \in CallIds /\ Len(calls') \in 1..Len(calls')
      /\ calls'[Len(calls')].as = role[t]
      /\ \A i \in 1..Len(calls') : CallAt(i)'
      /\ \A x : Attributed(x) => Attributed(x)'
      /\ \A u \in Tasks : NestedAt(u)'
  BY CallAppended
<1>4. /\ e \in Events /\ e.id = Len(calls') /\ e.actor = role[t]
      /\ d \in Events /\ d.id = Len(calls') /\ d.actor = role[t]
  BY <1>1, <1>2, <1>3, RoleOfTask, EventFacts DEF Actions
<1>5. Attributed(e)' /\ Attributed(d)'
  BY <1>3, <1>4 DEF Attributed
<1>6. Log(e) /\ (UNCHANGED denials \/ denials' = Append(denials, d))
  BY <1>1, <1>2
<1>7. Typed /\ denials \in Seq(Events)
  BY DEF IInv, Typed
<1>8. /\ file' \in Files(Events) /\ logged' \in Seq(Events) /\ lost' \subseteq Events
      /\ faults' \in 0..MaxFaults
  BY <1>4, <1>6, <1>7, LogFacts
<1>9. /\ denials' \in Seq(Events)
      /\ (\A i \in 1..Len(denials) : Attributed(denials[i]))'
  <2>1. CASE UNCHANGED denials
    <3>1. ASSUME NEW i \in 1..Len(denials) PROVE Attributed(denials[i])'
      <4>1. PICK x : x = denials[i]
        OBVIOUS
      <4>2. Attributed(x)
        BY <4>1 DEF IInv
      <4>. QED  BY <4>1, <4>2, <1>3, <2>1 DEF Attributed
    <3>. QED  BY <2>1, <1>7, <3>1
  <2>2. CASE denials' = Append(denials, d)
    <3>1. /\ denials' \in Seq(Events) /\ Len(denials') = Len(denials) + 1
          /\ denials'[Len(denials) + 1] = d /\ Len(denials) \in Nat
          /\ \A i \in 1..Len(denials) : denials'[i] = denials[i]
      BY <2>2, <1>4, <1>7, AppendFacts
    <3>2. ASSUME NEW i \in 1..Len(denials') PROVE Attributed(denials[i])'
      <4>1. CASE i \in 1..Len(denials)
        <5>1. PICK x : x = denials[i]
          OBVIOUS
        <5>2. Attributed(x)
          BY <4>1, <5>1 DEF IInv
        <5>. QED  BY <4>1, <5>1, <5>2, <1>3, <3>1 DEF Attributed
      <4>2. CASE i = Len(denials) + 1
        BY <4>2, <3>1, <1>5 DEF Attributed
      <4>. QED  BY <4>1, <4>2, <3>1
    <3>. QED  BY <3>1, <3>2
  <2>. QED  BY <2>1, <2>2, <1>6
<1>10. (\A i \in 1..Len(logged) : Attributed(logged[i]))'
  BY <1>3, <1>4, <1>5, <1>6, LogKeeps
<1>11. Typed'
  BY <1>3, <1>7, <1>8, <1>9 DEF Typed
<1>. QED  BY <1>3, <1>9, <1>10, <1>11 DEF IInv

(* A call without an event: no such tool, or a body that suspends.         *)
LEMMA UnloggedCall ==
    ASSUME IInv, NEW t \in Tasks, NEW n \in Names, NEW c \in CallRecord,
           Len(calls) < MaxCalls, calls' = Append(calls, c),
           UNCHANGED <<role, blocks, denials, file, logged, lost, faults, restarts>>,
           c.task = t, c.tool = n, c.as = Within(t),
           c.ran => Allowed(t, n), c.outcome = "denied" => ~Allowed(t, n)
    PROVE  IInv'
<1>1. /\ calls' \in Seq(CallRecord) /\ Len(calls') <= MaxCalls
      /\ \A i \in 1..Len(calls') : CallAt(i)'
      /\ \A x : Attributed(x) => Attributed(x)'
      /\ \A u \in Tasks : NestedAt(u)'
  BY CallAppended
<1>2. Typed'
  BY <1>1 DEF IInv, Typed
<1>3. ASSUME NEW i \in 1..Len(logged) PROVE Attributed(logged[i])'
  <2>1. PICK x : x = logged[i]
    OBVIOUS
  <2>. QED  BY <2>1, <1>1 DEF IInv, Attributed
<1>4. ASSUME NEW i \in 1..Len(denials) PROVE Attributed(denials[i])'
  <2>1. PICK x : x = denials[i]
    OBVIOUS
  <2>. QED  BY <2>1, <1>1 DEF IInv, Attributed
<1>. QED  BY <1>1, <1>2, <1>3, <1>4 DEF IInv

LEMMA CallStep ==
    ASSUME IInv, NEW t \in Tasks, NEW n \in Names,
           \/ CallUnknown(t, n) \/ CallInvalid(t, n) \/ CallDenied(t, n) \/ CallSuspends(t, n)
           \/ \E o \in {"returned", "raised"} : CallCompletes(t, n, o)
    PROVE  IInv'
<1>1. PICK c : c = Call(t, n)
  OBVIOUS
<1>2. /\ c \in CallRecord /\ c.task = t /\ c.tool = n /\ c.as = Within(t)
      /\ c.ran = FALSE /\ c.outcome = "unknown"
  BY <1>1, RoleOfTask DEF Call, CallRecord
<1>3. CASE CallUnknown(t, n)
  BY <1>1, <1>2, <1>3, UnloggedCall DEF CallUnknown, Callable
<1>4. CASE CallInvalid(t, n)
  <2>1. PICK r : r = [c EXCEPT !.outcome = "raised"]
    OBVIOUS
  <2>2. /\ r \in CallRecord /\ r.task = t /\ r.tool = n /\ r.as = Within(t)
        /\ r.ran = FALSE /\ r.outcome = "raised"
    BY <1>2, <2>1 DEF CallRecord
  <2>3. calls' = Append(calls, r)
    BY <1>1, <1>4, <2>1 DEF CallInvalid
  <2>. QED  BY <1>4, <2>2, <2>3, LoggedCall DEF CallInvalid, Callable, Actions
<1>5. CASE CallDenied(t, n)
  <2>1. PICK r : r = [c EXCEPT !.outcome = "denied"]
    OBVIOUS
  <2>2. /\ r \in CallRecord /\ r.task = t /\ r.tool = n /\ r.as = Within(t)
        /\ r.ran = FALSE /\ r.outcome = "denied"
    BY <1>2, <2>1 DEF CallRecord
  <2>3. calls' = Append(calls, r)
    BY <1>1, <1>5, <2>1 DEF CallDenied
  <2>. QED  BY <1>5, <2>2, <2>3, LoggedCall DEF CallDenied, Callable, Actions
<1>6. CASE CallSuspends(t, n)
  <2>1. PICK r : r = [c EXCEPT !.ran = TRUE, !.outcome = "running"]
    OBVIOUS
  <2>2. /\ r \in CallRecord /\ r.task = t /\ r.tool = n /\ r.as = Within(t)
        /\ r.ran = TRUE /\ r.outcome = "running"
    BY <1>2, <2>1 DEF CallRecord
  <2>3. calls' = Append(calls, r)
    BY <1>1, <1>6, <2>1 DEF CallSuspends
  <2>. QED  BY <1>6, <2>2, <2>3, UnloggedCall DEF CallSuspends, Callable
<1>7. ASSUME NEW o \in {"returned", "raised"}, CallCompletes(t, n, o) PROVE IInv'
  <2>1. PICK r : r = [c EXCEPT !.ran = TRUE, !.outcome = o]
    OBVIOUS
  <2>2. /\ r \in CallRecord /\ r.task = t /\ r.tool = n /\ r.as = Within(t)
        /\ r.ran = TRUE /\ r.outcome = o
    BY <1>2, <2>1 DEF CallRecord
  <2>3. calls' = Append(calls, r)
    BY <1>1, <1>7, <2>1 DEF CallCompletes
  <2>4. VerdictOn(o) \in Actions
    BY DEF VerdictOn, Actions
  <2>. QED  BY <1>7, <2>2, <2>3, <2>4, LoggedCall DEF CallCompletes, Callable
<1>. QED  BY <1>3, <1>4, <1>5, <1>6, <1>7

(* The calls keep their roles; at most their outcomes change.              *)
LEMMA AttributionStays ==
    ASSUME Len(calls') = Len(calls), \A i \in 1..Len(calls) : calls'[i].as = calls[i].as, NEW e,
           Attributed(e)
    PROVE  Attributed(e)'
  BY DEF Attributed

LEMMA ResumeStep ==
    ASSUME IInv, NEW i \in DOMAIN calls, NEW o \in {"returned", "raised"}, BodyResumes(i, o)
    PROVE  IInv'
<1>1. /\ Typed /\ calls \in Seq(CallRecord) /\ DOMAIN calls = 1..Len(calls) /\ Len(calls) \in Nat
      /\ i \in 1..Len(calls) /\ CallAt(i) /\ Len(calls) <= MaxCalls
  BY LenProperties DEF IInv, Typed
<1>2. calls[i] \in CallRecord
  BY <1>1, ElementOfSeq
<1>3. PICK c : c = [calls[i] EXCEPT !.outcome = o]
  OBVIOUS
<1>4. /\ c \in CallRecord /\ c.task = calls[i].task /\ c.tool = calls[i].tool
      /\ c.as = calls[i].as /\ c.ran = calls[i].ran /\ c.outcome = o
  BY <1>2, <1>3 DEF CallRecord
<1>5. calls' = [calls EXCEPT ![i] = c] /\ calls[i].outcome = "running"
  BY <1>3 DEF BodyResumes
<1>6. /\ calls' \in Seq(CallRecord) /\ Len(calls') = Len(calls)
      /\ \A j \in 1..Len(calls) : calls'[j] = IF j = i THEN c ELSE calls[j]
  BY <1>1, <1>4, <1>5, ExceptSeq
<1>7. UNCHANGED <<role, blocks, denials, restarts>>
  BY DEF BodyResumes
<1>8. \A u \in Tasks : NestedAt(u)' /\ Within(u)' = Within(u)
  BY <1>7, OtherTasks
<1>9. ASSUME NEW j \in 1..Len(calls') PROVE CallAt(j)'
  <2>1. CallAt(j)
    BY <1>6 DEF IInv
  <2>2. CASE j = i
    BY <2>1, <2>2, <1>4, <1>6, <1>8 DEF CallAt
  <2>3. CASE j # i
    BY <2>1, <2>3, <1>6, <1>8 DEF CallAt
  <2>. QED  BY <2>2, <2>3
<1>10. \A x : Attributed(x) => Attributed(x)'
  BY <1>4, <1>6, AttributionStays
<1>11. PICK e : e = Event(i, VerdictOn(o), role[calls[i].task])
  OBVIOUS
<1>12. role[calls[i].task] = calls[i].as /\ role[calls[i].task] \in Roles
  <2>1. calls[i].task \in Tasks
    BY <1>2 DEF CallRecord
  <2>. QED  BY <2>1, <1>1, <1>5, RoleOfTask DEF CallAt
<1>13. e \in Events /\ e.id = i /\ e.actor = calls[i].as
  <2>1. i \in CallIds
    BY <1>1, ToolAssumption DEF CallIds
  <2>2. VerdictOn(o) \in Actions
    BY DEF VerdictOn, Actions
  <2>. QED  BY <2>1, <2>2, <1>11, <1>12, EventFacts
<1>14. Log(e)
  BY <1>11 DEF BodyResumes
<1>15. Attributed(e)'
  BY <1>1, <1>4, <1>6, <1>13 DEF Attributed
<1>16. (\A j \in 1..Len(logged) : Attributed(logged[j]))'
  BY <1>10, <1>13, <1>14, <1>15, LogKeeps
<1>17. /\ file' \in Files(Events) /\ logged' \in Seq(Events) /\ lost' \subseteq Events
       /\ faults' \in 0..MaxFaults
  BY <1>1, <1>13, <1>14, LogFacts
<1>18. Typed'
  BY <1>1, <1>6, <1>7, <1>17 DEF Typed
<1>19. ASSUME NEW j \in 1..Len(denials) PROVE Attributed(denials[j])'
  <2>1. PICK x : x = denials[j]
    OBVIOUS
  <2>. QED  BY <2>1, <1>7, <1>10 DEF IInv, Attributed
<1>. QED  BY <1>7, <1>8, <1>9, <1>16, <1>18, <1>19 DEF IInv

LEMMA WriteDenialStep == ASSUME IInv, WriteDenial PROVE IInv'
<1>1. /\ Typed /\ denials \in Seq(Events) /\ denials # <<>> /\ denials' = Tail(denials)
      /\ UNCHANGED <<role, blocks, calls, restarts>>
  BY DEF IInv, Typed, WriteDenial
<1>2. PICK e : e = Head(denials)
  OBVIOUS
<1>3. /\ e \in Events /\ e = denials[1] /\ 1 \in 1..Len(denials)
      /\ denials' \in Seq(Events) /\ Len(denials') = Len(denials) - 1 /\ Len(denials) \in Nat
      /\ \A i \in 1..Len(denials') : denials'[i] = denials[i + 1]
  <2>1. /\ Head(denials) \in Events /\ Tail(denials) \in Seq(Events)
        /\ Len(Tail(denials)) = Len(denials) - 1
        /\ \A i \in 1..Len(Tail(denials)) : Tail(denials)[i] = denials[i + 1]
    BY <1>1, HeadTailProperties
  <2>2. Len(denials) \in Nat \ {0}
    BY <1>1, EmptySeq
  <2>3. Head(denials) = denials[1]
    OBVIOUS
  <2>. QED  BY <1>1, <1>2, <2>1, <2>2, <2>3
<1>4. Log(e)
  BY <1>2 DEF WriteDenial
<1>5. \A x : Attributed(x) => Attributed(x)'
  BY <1>1, AttributionStays
<1>6. Attributed(e)'
  BY <1>3, <1>5 DEF IInv
<1>7. (\A i \in 1..Len(logged) : Attributed(logged[i]))'
  BY <1>3, <1>4, <1>5, <1>6, LogKeeps
<1>8. /\ file' \in Files(Events) /\ logged' \in Seq(Events) /\ lost' \subseteq Events
      /\ faults' \in 0..MaxFaults
  BY <1>1, <1>3, <1>4, LogFacts
<1>9. Typed'
  BY <1>1, <1>3, <1>8 DEF Typed
<1>10. ASSUME NEW i \in 1..Len(denials') PROVE Attributed(denials[i])'
  <2>1. PICK x : x = denials[i + 1]
    OBVIOUS
  <2>2. i + 1 \in 1..Len(denials)
    BY <1>3
  <2>. QED  BY <2>1, <2>2, <1>1, <1>3 DEF IInv, Attributed
<1>11. \A t \in Tasks : NestedAt(t)' /\ Within(t)' = Within(t)
  BY <1>1, OtherTasks
<1>12. \A i \in 1..Len(calls') : CallAt(i)'
  BY <1>1, <1>11 DEF IInv, CallAt
<1>. QED  BY <1>7, <1>9, <1>10, <1>11, <1>12 DEF IInv

LEMMA ProcessEndsStep == ASSUME IInv, ProcessEnds PROVE IInv'
<1>1. /\ Typed /\ calls \in Seq(CallRecord) /\ DOMAIN calls = 1..Len(calls) /\ Len(calls) \in Nat
      /\ Len(calls) <= MaxCalls /\ denials \in Seq(Events)
  BY LenProperties DEF IInv, Typed
<1>2. /\ role' = [t \in Tasks |-> "SYSTEM"] /\ blocks' = [t \in Tasks |-> <<>>]
      /\ denials' = <<>> /\ lost' = lost \cup ToSet(denials) /\ UNCHANGED <<file, logged, faults>>
      /\ restarts < MaxRestarts /\ restarts' = restarts + 1
  BY DEF ProcessEnds
<1>3. ASSUME NEW i \in 1..Len(calls)
      PROVE  /\ calls'[i] \in CallRecord /\ calls'[i].as = calls[i].as
             /\ calls'[i].tool = calls[i].tool /\ calls'[i].ran = calls[i].ran
             /\ calls'[i].outcome # "running"
             /\ calls'[i].outcome = "denied" => calls[i].outcome = "denied"
  <2>1. calls[i] \in CallRecord
    BY <1>1, ElementOfSeq
  <2>2. calls'[i] = IF calls[i].outcome = "running"
                    THEN [calls[i] EXCEPT !.outcome = "cancelled"] ELSE calls[i]
    BY <1>1 DEF ProcessEnds
  <2>. QED  BY <2>1, <2>2 DEF CallRecord
<1>4. calls' \in Seq(CallRecord) /\ Len(calls') = Len(calls)
  <2>1. calls' \in [1..Len(calls) -> CallRecord]
    BY <1>1, <1>3 DEF ProcessEnds
  <2>. QED  BY <2>1, <1>1
<1>5. Typed'
  <2>1. lost' \subseteq Events
    BY <1>1, <1>2, ToSetFacts DEF Typed
  <2>2. /\ role' \in [Tasks -> Roles] /\ blocks' \in [Tasks -> Seq(Block)]
        /\ denials' \in Seq(Events)
    BY <1>2, EmptySeq DEF Roles
  <2>3. restarts' \in 0..MaxRestarts
    BY <1>1, <1>2, ToolAssumption DEF Typed
  <2>. QED  BY <1>1, <1>2, <1>4, <2>1, <2>2, <2>3 DEF Typed
<1>6. \A t \in Tasks : NestedAt(t)'
  <2>1. \A t \in Tasks : blocks'[t] = <<>> /\ Len(blocks'[t]) = 0
    BY <1>2, EmptySeq
  <2>. QED  BY <2>1, <1>2 DEF NestedAt, Within
<1>7. ASSUME NEW i \in 1..Len(calls') PROVE CallAt(i)'
  <2>1. CallAt(i)
    BY <1>4 DEF IInv
  <2>. QED  BY <2>1, <1>3, <1>4 DEF CallAt
<1>8. ASSUME NEW i \in 1..Len(logged) PROVE Attributed(logged[i])'
  <2>1. PICK x : x = logged[i]
    OBVIOUS
  <2>2. Attributed(x)'
    BY <2>1, <1>3, <1>4, AttributionStays DEF IInv
  <2>. QED  BY <2>1, <2>2, <1>2 DEF Attributed
<1>9. Len(denials') = 0
  BY <1>2, EmptySeq
<1>. QED  BY <1>2, <1>5, <1>6, <1>7, <1>8, <1>9 DEF IInv

LEMMA StepIInv == IInv /\ [Next]_vars => IInv'
<1> SUFFICES ASSUME IInv, [Next]_vars PROVE IInv'
  OBVIOUS
<1>1. ASSUME NEW t \in Tasks, NEW r \in ActingRoles, Enter(t, r) PROVE IInv'
  BY <1>1, EnterStep
<1>2. ASSUME NEW t \in Tasks, Exit(t) PROVE IInv'
  BY <1>2, ExitStep
<1>3. ASSUME NEW t \in Tasks, NEW n \in Names,
             \/ CallUnknown(t, n) \/ CallInvalid(t, n) \/ CallDenied(t, n) \/ CallSuspends(t, n)
             \/ \E o \in {"returned", "raised"} : CallCompletes(t, n, o)
      PROVE  IInv'
  BY <1>3, CallStep
<1>4. ASSUME NEW i \in DOMAIN calls, NEW o \in {"returned", "raised"}, BodyResumes(i, o)
      PROVE  IInv'
  BY <1>4, ResumeStep
<1>5. CASE WriteDenial
  BY <1>5, WriteDenialStep
<1>6. CASE ProcessEnds
  BY <1>6, ProcessEndsStep
<1>7. CASE UNCHANGED vars
  BY <1>7 DEF vars, IInv, Typed, NestedAt, Within, CallAt, Attributed
<1>. QED  BY <1>1, <1>2, <1>3, <1>4, <1>5, <1>6, <1>7 DEF Next

LEMMA Inductive == Spec => []IInv
  BY InitIInv, StepIInv, PTL DEF Spec

-----------------------------------------------------------------------------
(* Roles, blocks, calls, events and the file have their types.             *)
THEOREM ToolsTypeCorrect == Spec => []TypeOK
<1>1. ASSUME IInv PROVE TypeOK
  <2>1. Typed
    BY <1>1 DEF IInv
  <2>2. ASSUME NEW t \in Tasks PROVE ToSet(blocks[t]) \subseteq [as : ActingRoles, saved : Roles]
    <3>1. blocks[t] \in Seq(Block)
      BY <2>1 DEF Typed
    <3>. QED  BY <3>1, ToSetFacts DEF Block
  <2>3. ToSet(calls) \subseteq CallRecord
    BY <2>1, ToSetFacts DEF Typed
  <2>4. ToSet(denials) \cup ToSet(logged) \cup lost \subseteq Events
    <3>1. ToSet(denials) \subseteq Events
      BY <2>1, ToSetFacts DEF Typed
    <3>2. ToSet(logged) \subseteq Events
      BY <2>1, ToSetFacts DEF Typed
    <3>. QED  BY <3>1, <3>2, <2>1 DEF Typed
  <2>5. ToSet(file.lines) \subseteq Events \cup {Garbled} /\ file.open \in BOOLEAN
    <3>1. file.lines \in Seq(Events \cup {Garbled}) /\ file.open \in BOOLEAN
      BY <2>1 DEF Typed, Files
    <3>. QED  BY <3>1, ToSetFacts
  <2>. QED  BY <2>1, <2>2, <2>3, <2>4, <2>5 DEF TypeOK, Typed, CallRecord
<1>. QED  BY <1>1, Inductive, PTL

(* Across awaits, nested blocks and the steps of other tasks, the context  *)
(* variable of permissions/context.py holds the role of the innermost      *)
(* acting_as() block of the running task.                                  *)
THEOREM RoleIsThatOfTheBlock == Spec => []RoleFollowsBlocks
<1>1. IInv => RoleFollowsBlocks
  BY DEF IInv, NestedAt, RoleFollowsBlocks
<1>. QED  BY <1>1, Inductive, PTL

LEMMA TwoDefences ==
    ASSUME NEW n \in DOMAIN Tools
    PROVE  Needs(n) \in PermissionsFor("OPERATOR") <=> n \in AgentTools
  BY DEF Needs, Tools, PermissionsFor, OperatorPermissions, AgentTools

(* The policy of permissions/policy.py and the list offered by             *)
(* get_agent_tools() agree, call by call: under the drafting role no body  *)
(* runs that is kept from the agent, and none offered to it is refused.    *)
THEOREM OperatorStaysConfined == Spec => []OperatorIsConfined
<1>1. ASSUME IInv PROVE OperatorIsConfined
  <2>1. DOMAIN calls = 1..Len(calls)
    BY <1>1, LenProperties DEF IInv, Typed
  <2>2. \A i \in DOMAIN calls : CallAt(i)
    BY <1>1, <2>1 DEF IInv
  <2>3. \A n : n \in AgentTools => n \in DOMAIN Tools
    BY DEF AgentTools
  <2>. QED  BY <2>2, <2>3, TwoDefences DEF OperatorIsConfined, CallAt
<1>. QED  BY <1>1, Inductive, PTL

(* The actor of every event in the audit log is the one in whose block     *)
(* the call was made, also of the events written by a task of their own.   *)
THEOREM AuditNamesThePrincipal == Spec => []AuditNamesTheCaller
<1>1. ASSUME IInv PROVE AuditNamesTheCaller
  <2>1. \A e \in ToSet(logged) : \E i \in 1..Len(logged) : e = logged[i]
    BY <1>1, ToSetFacts DEF IInv, Typed
  <2>. QED  BY <1>1, <2>1 DEF AuditNamesTheCaller, IInv, Attributed
<1>. QED  BY <1>1, Inductive, PTL

-----------------------------------------------------------------------------
(* Which events there are. *)

EventsOf(i) == {e \in Accounted : e.id = i}

VerdictAt(i) ==
    /\ {e.action : e \in EventsOf(i)} = DueOn(calls[i].outcome)
    /\ \A e, f \in EventsOf(i) : e.action = f.action => e = f

VerdictInv ==
    /\ NoEventTwice
    /\ \A e \in Accounted : e.id \in 1..Len(calls)
    /\ \A i \in 1..Len(calls) : VerdictAt(i)

LEMMA SetOfAppend ==
    ASSUME NEW S, NEW s \in Seq(S), NEW x \in S
    PROVE  /\ ToSet(Append(s, x)) = ToSet(s) \cup {x}
           /\ IsInjective(s) /\ x \notin ToSet(s) => IsInjective(Append(s, x))
<1>1. /\ Append(s, x) \in Seq(S) /\ Len(Append(s, x)) = Len(s) + 1
      /\ Append(s, x)[Len(s) + 1] = x
      /\ \A i \in 1..Len(s) : Append(s, x)[i] = s[i]
      /\ Len(s) \in Nat
  BY AppendFacts
<1>2. DOMAIN s = 1..Len(s) /\ DOMAIN Append(s, x) = 1..(Len(s) + 1)
  BY <1>1, LenProperties
<1>. QED  BY <1>1, <1>2 DEF ToSet, IsInjective

LEMMA SetOfTail ==
    ASSUME NEW S, NEW s \in Seq(S), s # <<>>
    PROVE  /\ ToSet(s) = ToSet(Tail(s)) \cup {Head(s)}
           /\ IsInjective(s) => IsInjective(Tail(s)) /\ Head(s) \notin ToSet(Tail(s))
<1>1. /\ Tail(s) \in Seq(S) /\ Len(Tail(s)) = Len(s) - 1 /\ Len(s) \in Nat \ {0}
      /\ \A i \in 1..Len(Tail(s)) : Tail(s)[i] = s[i + 1]
      /\ Head(s) = s[1]
  BY HeadTailProperties, EmptySeq
<1>2. DOMAIN s = 1..Len(s) /\ DOMAIN Tail(s) = 1..(Len(s) - 1)
  BY <1>1, LenProperties
<1>3. ASSUME NEW i \in 1..Len(s)
      PROVE  s[i] = Head(s) \/ \E j \in 1..(Len(s) - 1) : s[i] = Tail(s)[j]
  <2>1. i # 1 => i - 1 \in 1..(Len(s) - 1) /\ Tail(s)[i - 1] = s[i]
    BY <1>1
  <2>. QED  BY <1>1, <2>1
<1>4. ASSUME NEW j \in 1..(Len(s) - 1)
      PROVE  j + 1 \in 1..Len(s) /\ j + 1 # 1 /\ Tail(s)[j] = s[j + 1]
  BY <1>1
<1>5. 1 \in 1..Len(s)
  BY <1>1
<1>6. ToSet(s) = ToSet(Tail(s)) \cup {Head(s)}
  <2>1. ASSUME NEW x \in ToSet(s) PROVE x \in ToSet(Tail(s)) \cup {Head(s)}
    BY <1>2, <1>3 DEF ToSet
  <2>2. ASSUME NEW x \in ToSet(Tail(s)) PROVE x \in ToSet(s)
    BY <1>2, <1>4 DEF ToSet
  <2>3. Head(s) \in ToSet(s)
    BY <1>1, <1>2, <1>5 DEF ToSet
  <2>. QED  BY <2>1, <2>2, <2>3
<1>7. ASSUME IsInjective(s) PROVE IsInjective(Tail(s)) /\ Head(s) \notin ToSet(Tail(s))
  BY <1>1, <1>2, <1>4, <1>5, <1>7 DEF ToSet, IsInjective
<1>. QED  BY <1>6, <1>7

(* One log() of an event that was not written or lost before.              *)
LEMMA LogAccounts ==
    ASSUME Typed, NEW e \in Events, Log(e), NoEventTwice, e \notin ToSet(logged) \cup lost
    PROVE  /\ IsInjective(logged)' /\ ToSet(logged') \cap lost' = {}
           /\ ToSet(logged') \cup lost' = ToSet(logged) \cup lost \cup {e}
<1>1. logged \in Seq(Events)
  BY DEF Typed
<1>2. CASE logged' = Append(logged, e) /\ lost' = lost
  BY <1>1, <1>2, SetOfAppend DEF NoEventTwice
<1>3. CASE logged' = logged /\ lost' = lost \cup {e}
  BY <1>3 DEF NoEventTwice
<1>. QED  BY <1>2, <1>3 DEF Log

(* A new event is accounted for; a refusal leaves one more to a task.      *)
LEMMA NewEvent ==
    ASSUME Typed, NEW e \in Events, Log(e), NoEventTwice, e \notin Accounted, UNCHANGED denials
    PROVE  NoEventTwice' /\ Accounted' = Accounted \cup {e}
  BY LogAccounts DEF NoEventTwice, Accounted

LEMMA NewEvents ==
    ASSUME Typed, NEW e \in Events, Log(e), NoEventTwice, e \notin Accounted,
           NEW d \in Events, d \notin Accounted, d # e, denials' = Append(denials, d)
    PROVE  NoEventTwice' /\ Accounted' = Accounted \cup {e, d}
<1>1. denials \in Seq(Events)
  BY DEF Typed
<1>2. ToSet(denials') = ToSet(denials) \cup {d} /\ IsInjective(denials)'
  BY <1>1, SetOfAppend DEF NoEventTwice, Accounted
<1>. QED  BY <1>2, LogAccounts DEF NoEventTwice, Accounted

(* The events that are new are those due on call i. *)
LEMMA VerdictOnCall ==
    ASSUME VerdictInv, NEW i \in 1..Len(calls'), EventsOf(i) = {}, NoEventTwice',
           NEW D, Accounted' = Accounted \cup D, \A e \in D : e.id = i,
           \A a : a \in DueOn(calls'[i].outcome) <=> \E e \in D : e.action = a,
           \A e, f \in D : e.action = f.action => e = f,
           \A j \in 1..Len(calls) : j \in 1..Len(calls'),
           \A j \in 1..Len(calls') \ {i} : j \in 1..Len(calls) /\ calls'[j] = calls[j]
    PROVE  VerdictInv'
<1>1. \A e \in Accounted : e.id \in 1..Len(calls)
  BY DEF VerdictInv
<1>2. \A e \in Accounted' : e.id \in 1..Len(calls')
  BY <1>1
<1>3. EventsOf(i)' = D
  BY DEF EventsOf
<1>4. VerdictAt(i)'
  BY <1>3 DEF VerdictAt
<1>5. ASSUME NEW j \in 1..Len(calls') \ {i} PROVE VerdictAt(j)'
  <2>1. VerdictAt(j) /\ calls'[j] = calls[j]
    BY DEF VerdictInv
  <2>2. EventsOf(j)' = EventsOf(j)
    BY DEF EventsOf
  <2>. QED  BY <2>1, <2>2 DEF VerdictAt
<1>. QED  BY <1>2, <1>4, <1>5 DEF VerdictInv

(* No new event, and none is due.                                          *)
LEMMA VerdictsStay ==
    ASSUME VerdictInv, NoEventTwice', Accounted' = Accounted, Len(calls') = Len(calls),
           \A i \in 1..Len(calls) : DueOn(calls'[i].outcome) = DueOn(calls[i].outcome)
    PROVE  VerdictInv'
<1>1. ASSUME NEW i \in 1..Len(calls') PROVE VerdictAt(i)'
  <2>1. VerdictAt(i)
    BY DEF VerdictInv
  <2>2. EventsOf(i)' = EventsOf(i)
    BY DEF EventsOf
  <2>. QED  BY <2>1, <2>2 DEF VerdictAt
<1>. QED  BY <1>1 DEF VerdictInv

LEMMA ActionFacts ==
    ASSUME NEW i, NEW action, NEW r
    PROVE  LET e == Event(i, action, r) IN e.id = i /\ e.action = action
  BY DEF Event

LEMMA CallAppends ==
    ASSUME IInv, VerdictInv, NEW t \in Tasks, Len(calls) < MaxCalls, NEW c \in CallRecord,
           calls' = Append(calls, c)
    PROVE  /\ Len(calls') = Len(calls) + 1 /\ Len(calls') \in 1..Len(calls')
           /\ Len(calls') \in CallIds /\ calls'[Len(calls')] = c
           /\ \A j \in 1..Len(calls) : j \in 1..Len(calls')
           /\ \A j \in 1..Len(calls') \ {Len(calls')} :
                 j \in 1..Len(calls) /\ calls'[j] = calls[j]
           /\ EventsOf(Len(calls')) = {}
           /\ \A e : e.id = Len(calls') => e \notin Accounted
           /\ role[t] \in Roles
<1>1. calls \in Seq(CallRecord) /\ MaxCalls \in Nat
  BY ToolAssumption DEF IInv, Typed
<1>2. /\ Len(calls') = Len(calls) + 1 /\ Len(calls) \in Nat
      /\ calls'[Len(calls) + 1] = c
      /\ \A j \in 1..Len(calls) : calls'[j] = calls[j]
  BY <1>1, AppendFacts
<1>3. \A e \in Accounted : e.id # Len(calls')
  BY <1>2 DEF VerdictInv
<1>4. Len(calls') \in CallIds
  BY <1>1, <1>2 DEF CallIds
<1>. QED  BY <1>2, <1>3, <1>4, RoleOfTask DEF EventsOf

(* The same for a call that is new itself.                                 *)
LEMMA VerdictOnNewCall ==
    ASSUME IInv, VerdictInv, NEW t \in Tasks, Len(calls) < MaxCalls, NEW c \in CallRecord,
           calls' = Append(calls, c), NoEventTwice',
           NEW D, Accounted' = Accounted \cup D, \A e \in D : e.id = Len(calls'),
           \A a : a \in DueOn(c.outcome) <=> \E e \in D : e.action = a,
           \A e, f \in D : e.action = f.action => e = f
    PROVE  VerdictInv'
<1>1. PICK i : i = Len(calls')
  OBVIOUS
<1>2. /\ i \in 1..Len(calls') /\ EventsOf(i) = {} /\ calls'[i] = c
      /\ \A j \in 1..Len(calls) : j \in 1..Len(calls')
      /\ \A j \in 1..Len(calls') \ {i} : j \in 1..Len(calls) /\ calls'[j] = calls[j]
  BY <1>1, CallAppends
<1>3. /\ \A e \in D : e.id = i
      /\ \A a : a \in DueOn(calls'[i].outcome) <=> \E e \in D : e.action = a
  BY <1>1, <1>2
<1>. QED  BY <1>2, <1>3, VerdictOnCall

LEMMA CallVerdict ==
    ASSUME IInv, VerdictInv, NEW t \in Tasks, NEW n \in Names,
           \/ CallUnknown(t, n) \/ CallInvalid(t, n) \/ CallDenied(t, n) \/ CallSuspends(t, n)
           \/ \E o \in {"returned", "raised"} : CallCompletes(t, n, o)
    PROVE  VerdictInv'
<1>1. PICK c : c = Call(t, n)
  OBVIOUS
<1>2. /\ c \in CallRecord /\ c.task = t /\ c.tool = n /\ c.as = Within(t)
      /\ c.ran = FALSE /\ c.outcome = "unknown"
  BY <1>1, RoleOfTask DEF Call, CallRecord
<1>3. Typed /\ NoEventTwice
  BY DEF IInv, VerdictInv
<1>4. CASE CallUnknown(t, n) \/ CallSuspends(t, n)
  <2>1. PICK r : r = [c EXCEPT !.ran = TRUE, !.outcome = "running"]
    OBVIOUS
  <2>2. r \in CallRecord /\ r.outcome = "running"
    BY <1>2, <2>1 DEF CallRecord
  <2>3. /\ calls' = Append(calls, c) \/ calls' = Append(calls, r)
        /\ Len(calls) < MaxCalls /\ UNCHANGED <<denials, logged, lost>>
    BY <1>1, <1>4, <2>1 DEF CallUnknown, CallSuspends, Callable
  <2>4. DueOn(c.outcome) = {} /\ DueOn(r.outcome) = {}
    BY <1>2, <2>2 DEF DueOn
  <2>5. NoEventTwice' /\ Accounted' = Accounted \cup {}
    BY <1>3, <2>3 DEF NoEventTwice, Accounted
  <2>6. CASE calls' = Append(calls, c)
    BY <1>2, <2>3, <2>4, <2>5, <2>6, VerdictOnNewCall
  <2>7. CASE calls' = Append(calls, r)
    BY <2>2, <2>3, <2>4, <2>5, <2>7, VerdictOnNewCall
  <2>. QED  BY <2>3, <2>6, <2>7
<1>5. ASSUME NEW r \in CallRecord, NEW o \in {"returned", "raised"}, r.outcome = o,
             calls' = Append(calls, r), Len(calls) < MaxCalls, UNCHANGED denials,
             Log(Event(Len(calls'), VerdictOn(o), role[t]))
      PROVE  VerdictInv'
  <2>1. PICK e : e = Event(Len(calls'), VerdictOn(o), role[t])
    OBVIOUS
  <2>2. VerdictOn(o) \in Actions /\ {VerdictOn(o)} = DueOn(o)
    BY DEF VerdictOn, Actions, DueOn
  <2>3. e \in Events /\ e.id = Len(calls') /\ e.action = VerdictOn(o) /\ Log(e)
    BY <1>5, <2>1, <2>2, CallAppends, EventFacts, ActionFacts
  <2>4. e \notin Accounted
    BY <1>5, <2>3, CallAppends
  <2>5. NoEventTwice' /\ Accounted' = Accounted \cup {e}
    BY <1>3, <1>5, <2>3, <2>4, NewEvent
  <2>6. PICK D : D = {e}
    OBVIOUS
  <2>7. /\ Accounted' = Accounted \cup D /\ \A x \in D : x.id = Len(calls')
        /\ \A a : a \in DueOn(r.outcome) <=> \E x \in D : x.action = a
        /\ \A x, y \in D : x.action = y.action => x = y
    BY <1>5, <2>2, <2>3, <2>5, <2>6
  <2>. QED  BY <1>5, <2>5, <2>7, VerdictOnNewCall
<1>6. CASE CallInvalid(t, n)
  <2>1. PICK r : r = [c EXCEPT !.outcome = "raised"]
    OBVIOUS
  <2>2. r \in CallRecord /\ r.outcome = "raised"
    BY <1>2, <2>1 DEF CallRecord
  <2>3. VerdictOn("raised") = "TOOL_FAILED"
    BY DEF VerdictOn
  <2>. QED  BY <1>1, <1>5, <1>6, <2>1, <2>2, <2>3 DEF CallInvalid, Callable
<1>7. ASSUME NEW o \in {"returned", "raised"}, CallCompletes(t, n, o) PROVE VerdictInv'
  <2>1. PICK r : r = [c EXCEPT !.ran = TRUE, !.outcome = o]
    OBVIOUS
  <2>2. r \in CallRecord /\ r.outcome = o
    BY <1>2, <2>1 DEF CallRecord
  <2>. QED  BY <1>1, <1>5, <1>7, <2>1, <2>2 DEF CallCompletes, Callable
<1>8. CASE CallDenied(t, n)
  <2>1. PICK r : r = [c EXCEPT !.outcome = "denied"]
    OBVIOUS
  <2>2. r \in CallRecord /\ r.outcome = "denied"
    BY <1>2, <2>1 DEF CallRecord
  <2>3. PICK e : e = Event(Len(calls'), "TOOL_FAILED", role[t])
    OBVIOUS
  <2>4. PICK d : d = Event(Len(calls'), "PERMISSION_DENIED", role[t])
    OBVIOUS
  <2>5. /\ calls' = Append(calls, r) /\ Len(calls) < MaxCalls /\ Log(e)
        /\ denials' = Append(denials, d)
    BY <1>1, <1>8, <2>1, <2>3, <2>4 DEF CallDenied, Callable
  <2>6. /\ e \in Events /\ e.id = Len(calls') /\ e.action = "TOOL_FAILED"
        /\ d \in Events /\ d.id = Len(calls') /\ d.action = "PERMISSION_DENIED"
    BY <2>2, <2>3, <2>4, <2>5, CallAppends, EventFacts, ActionFacts DEF Actions
  <2>7. e \notin Accounted /\ d \notin Accounted /\ d # e
    BY <2>2, <2>5, <2>6, CallAppends
  <2>8. NoEventTwice' /\ Accounted' = Accounted \cup {e, d}
    BY <1>3, <2>5, <2>6, <2>7, NewEvents
  <2>9. PICK D : D = {e, d}
    OBVIOUS
  <2>10. DueOn(r.outcome) = {"TOOL_FAILED", "PERMISSION_DENIED"}
    BY <2>2 DEF DueOn
  <2>11. /\ Accounted' = Accounted \cup D /\ \A x \in D : x.id = Len(calls')
         /\ \A a : a \in DueOn(r.outcome) <=> \E x \in D : x.action = a
         /\ \A x, y \in D : x.action = y.action => x = y
    BY <2>6, <2>8, <2>9, <2>10
  <2>. QED  BY <2>2, <2>5, <2>8, <2>11, VerdictOnNewCall
<1>. QED  BY <1>4, <1>6, <1>7, <1>8

LEMMA ResumeVerdict ==
    ASSUME IInv, VerdictInv, NEW i \in DOMAIN calls, NEW o \in {"returned", "raised"},
           BodyResumes(i, o)
    PROVE  VerdictInv'
<1>1. /\ Typed /\ NoEventTwice /\ calls \in Seq(CallRecord) /\ Len(calls) \in Nat
      /\ i \in 1..Len(calls) /\ VerdictAt(i) /\ CallAt(i) /\ Len(calls) <= MaxCalls
  BY LenProperties DEF IInv, Typed, VerdictInv
<1>2. calls[i] \in CallRecord /\ calls[i].outcome = "running"
  BY <1>1, ElementOfSeq DEF BodyResumes
<1>3. PICK c : c = [calls[i] EXCEPT !.outcome = o]
  OBVIOUS
<1>4. c \in CallRecord /\ c.outcome = o
  BY <1>2, <1>3 DEF CallRecord
<1>5. calls' = [calls EXCEPT ![i] = c] /\ UNCHANGED denials
  BY <1>3 DEF BodyResumes
<1>6. /\ Len(calls') = Len(calls)
      /\ \A j \in 1..Len(calls) : calls'[j] = IF j = i THEN c ELSE calls[j]
  BY <1>1, <1>4, <1>5, ExceptSeq
<1>7. EventsOf(i) = {}
  <2>1. DueOn(calls[i].outcome) = {}
    BY <1>2 DEF DueOn
  <2>. QED  BY <1>1, <2>1 DEF VerdictAt
<1>8. PICK e : e = Event(i, VerdictOn(o), role[calls[i].task])
  OBVIOUS
<1>9. VerdictOn(o) \in Actions /\ {VerdictOn(o)} = DueOn(o)
  BY DEF VerdictOn, Actions, DueOn
<1>10. i \in CallIds /\ role[calls[i].task] \in Roles
  <2>1. calls[i].task \in Tasks
    BY <1>2 DEF CallRecord
  <2>. QED  BY <1>1, <2>1, RoleOfTask, ToolAssumption DEF CallIds
<1>11. e \in Events /\ e.id = i /\ e.action = VerdictOn(o) /\ Log(e)
  BY <1>8, <1>9, <1>10, EventFacts, ActionFacts DEF BodyResumes
<1>12. e \notin Accounted
  BY <1>7, <1>11 DEF EventsOf
<1>13. NoEventTwice' /\ Accounted' = Accounted \cup {e}
  BY <1>1, <1>5, <1>11, <1>12, NewEvent
<1>14. PICK D : D = {e}
  OBVIOUS
<1>15. /\ Accounted' = Accounted \cup D /\ \A x \in D : x.id = i
       /\ \A a : a \in DueOn(calls'[i].outcome) <=> \E x \in D : x.action = a
       /\ \A x, y \in D : x.action = y.action => x = y
  BY <1>1, <1>4, <1>6, <1>9, <1>11, <1>13, <1>14
<1>16. i \in 1..Len(calls')
  BY <1>1, <1>6
<1>17. /\ \A j \in 1..Len(calls) : j \in 1..Len(calls')
       /\ \A j \in 1..Len(calls') \ {i} : j \in 1..Len(calls) /\ calls'[j] = calls[j]
  BY <1>6
<1>. QED  BY <1>7, <1>13, <1>15, <1>16, <1>17, VerdictOnCall

(* A task writes or loses the event of a denial; or all are lost.          *)
LEMMA DenialVerdict == ASSUME IInv, VerdictInv, WriteDenial PROVE VerdictInv'
<1>1. /\ Typed /\ NoEventTwice /\ denials \in Seq(Events) /\ denials # <<>>
      /\ denials' = Tail(denials) /\ UNCHANGED calls
  BY DEF IInv, Typed, WriteDenial, VerdictInv
<1>2. PICK e : e = Head(denials)
  OBVIOUS
<1>3. e \in Events /\ Log(e)
  BY <1>1, <1>2, HeadTailProperties DEF WriteDenial
<1>4. /\ ToSet(denials) = ToSet(denials') \cup {e}
      /\ IsInjective(denials)' /\ e \notin ToSet(denials')
  BY <1>1, <1>2, SetOfTail DEF NoEventTwice
<1>5. e \notin ToSet(logged) \cup lost
  BY <1>1, <1>4 DEF NoEventTwice
<1>6. /\ IsInjective(logged)' /\ ToSet(logged') \cap lost' = {}
      /\ ToSet(logged') \cup lost' = ToSet(logged) \cup lost \cup {e}
  BY <1>1, <1>3, <1>5, LogAccounts
<1>7. NoEventTwice' /\ Accounted' = Accounted
  BY <1>1, <1>4, <1>6 DEF NoEventTwice, Accounted
<1>. QED  BY <1>1, <1>7, VerdictsStay

LEMMA EndVerdict == ASSUME IInv, VerdictInv, ProcessEnds PROVE VerdictInv'
<1>1. /\ Typed /\ NoEventTwice /\ calls \in Seq(CallRecord) /\ DOMAIN calls = 1..Len(calls)
      /\ denials' = <<>> /\ lost' = lost \cup ToSet(denials) /\ logged' = logged
  BY LenProperties DEF IInv, Typed, ProcessEnds, VerdictInv
<1>2. ToSet(denials') = {} /\ IsInjective(denials')
  BY <1>1 DEF ToSet, IsInjective
<1>3. NoEventTwice' /\ Accounted' = Accounted
  BY <1>1, <1>2 DEF NoEventTwice, Accounted
<1>4. ASSUME NEW i \in 1..Len(calls)
      PROVE  /\ calls'[i] \in CallRecord
             /\ DueOn(calls'[i].outcome) = DueOn(calls[i].outcome)
  <2>1. calls[i] \in CallRecord
    BY <1>1, ElementOfSeq
  <2>2. calls'[i] = IF calls[i].outcome = "running"
                    THEN [calls[i] EXCEPT !.outcome = "cancelled"] ELSE calls[i]
    BY <1>1 DEF ProcessEnds
  <2>. QED  BY <2>1, <2>2 DEF CallRecord, DueOn
<1>5. Len(calls') = Len(calls)
  <2>1. calls' \in [1..Len(calls) -> CallRecord]
    BY <1>1, <1>4 DEF ProcessEnds
  <2>. QED  BY <2>1, <1>1, LenProperties
<1>. QED  BY <1>3, <1>4, <1>5, VerdictsStay

LEMMA InitVerdict == Init => VerdictInv
<1> SUFFICES ASSUME Init PROVE VerdictInv
  OBVIOUS
<1>1. logged = <<>> /\ denials = <<>> /\ lost = {} /\ calls = <<>> /\ Len(calls) = 0
  BY DEF Init
<1>2. ToSet(logged) = {} /\ ToSet(denials) = {} /\ IsInjective(logged) /\ IsInjective(denials)
  BY <1>1 DEF ToSet, IsInjective
<1>. QED  BY <1>1, <1>2 DEF VerdictInv, NoEventTwice, Accounted

LEMMA SpecVerdictInv == Spec => []VerdictInv
<1>1. ASSUME IInv, VerdictInv, [Next]_vars PROVE VerdictInv'
  <2>1. ASSUME UNCHANGED <<calls, denials, logged, lost>> PROVE VerdictInv'
    <3>1. NoEventTwice' /\ Accounted' = Accounted
      BY <1>1, <2>1 DEF NoEventTwice, Accounted, VerdictInv
    <3>. QED  BY <1>1, <2>1, <3>1, VerdictsStay
  <2>2. ASSUME NEW t \in Tasks, NEW r \in ActingRoles, Enter(t, r) PROVE VerdictInv'
    BY <2>1, <2>2 DEF Enter
  <2>3. ASSUME NEW t \in Tasks, Exit(t) PROVE VerdictInv'
    BY <2>1, <2>3 DEF Exit
  <2>4. ASSUME NEW t \in Tasks, NEW n \in Names,
               \/ CallUnknown(t, n) \/ CallInvalid(t, n) \/ CallDenied(t, n)
               \/ CallSuspends(t, n)
               \/ \E o \in {"returned", "raised"} : CallCompletes(t, n, o)
        PROVE  VerdictInv'
    BY <1>1, <2>4, CallVerdict
  <2>5. ASSUME NEW i \in DOMAIN calls, NEW o \in {"returned", "raised"}, BodyResumes(i, o)
        PROVE  VerdictInv'
    BY <1>1, <2>5, ResumeVerdict
  <2>6. CASE WriteDenial
    BY <1>1, <2>6, DenialVerdict
  <2>7. CASE ProcessEnds
    BY <1>1, <2>7, EndVerdict
  <2>8. CASE UNCHANGED vars
    BY <2>1, <2>8 DEF vars
  <2>. QED  BY <1>1, <2>2, <2>3, <2>4, <2>5, <2>6, <2>7, <2>8 DEF Next
<1>2. IInv /\ VerdictInv /\ [Next]_vars => VerdictInv'
  BY <1>1
<1>. QED  BY InitVerdict, Inductive, <1>2, PTL DEF Spec

(* AuditTellsTheCalls: whatever blocks nest, tasks interleave, writers are *)
(* late and writes fail, each call that ended at the proxy has its one     *)
(* verdict, a refusal both of its events, nothing has two, and each event  *)
(* names the caller (tools/proxy.py, base_tool.py _authorize).            *)
THEOREM AuditIsTrueToTheCalls == Spec => []AuditTellsTheCalls
<1>1. ASSUME IInv, VerdictInv PROVE OneVerdictPerCall
  <2>1. DOMAIN calls = 1..Len(calls)
    BY <1>1, LenProperties DEF IInv, Typed
  <2>. QED  BY <1>1, <2>1 DEF OneVerdictPerCall, VerdictInv, VerdictAt, EventsOf
<1>2. IInv /\ VerdictInv => OneVerdictPerCall
  BY <1>1
<1>3. AuditTellsTheCalls <=> OneVerdictPerCall /\ AuditNamesTheCaller
  BY DEF AuditTellsTheCalls
<1>. QED  BY <1>2, <1>3, Inductive, SpecVerdictInv, AuditNamesThePrincipal, PTL

-----------------------------------------------------------------------------
(* What the file keeps of the events that were reported written. *)

(* The lines of events are in the order the events were written in, and    *)
(* for one that is missing between two there is a garbled line.            *)
Ordered(lines, log) ==
    /\ \A m, n \in 1..Len(log), j, k \in 1..Len(lines) :
          lines[j] = log[m] /\ lines[k] = log[n] /\ j < k => m < n
    /\ \A a, b \in 1..Len(log), j \in 1..Len(lines) :
          a < b /\ lines[j] = log[a] =>
             \E i \in 1..Len(lines) : j < i /\ lines[i] \in {log[b], Garbled}
    /\ \A a, b, c \in 1..Len(log), j, k \in 1..Len(lines) :
          a < b /\ b < c /\ lines[j] = log[a] /\ lines[k] = log[c] =>
             \E i \in 1..Len(lines) : j < i /\ i < k /\ lines[i] \in {log[b], Garbled}

(* Events reported written that are in no line. *)
Missing == ToSet(logged) \ ToSet(file.lines)

FileInv ==
    /\ \A k \in 1..Len(file.lines) : file.lines[k] \in ToSet(logged) \cup lost \cup {Garbled}
    /\ file.open => file.lines # <<>> /\ Last(file.lines) \notin ToSet(logged)
    /\ Ordered(file.lines, logged)
    /\ IsFiniteSet(Missing)
    /\ Cardinality(Missing) + (IF file.open THEN 1 ELSE 0) <= faults

(* A line comes to the end, or to the place of the last one if that was no *)
(* event's; it is the event just written, or no written event's.  p lines  *)
(* are kept; more says that an event was written.                          *)
OneLineLater(lines, log, lines2, log2, p, more) ==
    /\ Len(lines) \in Nat /\ Len(log) \in Nat /\ Ordered(lines, log)
    /\ p \in Nat /\ p \in {Len(lines) - 1, Len(lines)} /\ Len(lines2) = p + 1
    /\ \A k \in 1..p : lines2[k] = lines[k]
    /\ p # Len(lines) => /\ lines2[p + 1] = Garbled
                         /\ \A n \in 1..Len(log) : lines[Len(lines)] # log[n]
    /\ \A m, n \in 1..Len(log2) : log2[m] = log2[n] => m = n
    /\ \A n \in 1..Len(log2) : log2[n] # Garbled
    /\ \A n \in 1..Len(log) : log2[n] = log[n]
    /\ more => /\ Len(log2) = Len(log) + 1
               /\ lines2[p + 1] \in {log2[Len(log2)], Garbled}
               /\ \A k \in 1..p : lines[k] # log2[Len(log2)]
    /\ ~more => /\ Len(log2) = Len(log)
                /\ \A n \in 1..Len(log) : lines2[p + 1] # log[n]

LEMMA OrderKept ==
    ASSUME NEW lines, NEW log, NEW lines2, NEW log2, NEW p \in Nat, NEW more,
           OneLineLater(lines, log, lines2, log2, p, more)
    PROVE  Ordered(lines2, log2)
<1> DEFINE L == Len(lines)
           N == Len(log)
           N2 == Len(log2)
<1>0. /\ L \in Nat /\ N \in Nat /\ Ordered(lines, log)
      /\ p \in Nat /\ p \in {L - 1, L} /\ Len(lines2) = p + 1
      /\ \A k \in 1..p : lines2[k] = lines[k]
      /\ p # L => /\ lines2[p + 1] = Garbled
                  /\ \A n \in 1..N : lines[L] # log[n]
      /\ \A m, n \in 1..N2 : log2[m] = log2[n] => m = n
      /\ \A n \in 1..N2 : log2[n] # Garbled
      /\ \A n \in 1..N : log2[n] = log[n]
      /\ \/ N2 = N + 1 /\ lines2[p + 1] \in {log2[N2], Garbled}
            /\ \A k \in 1..p : lines[k] # log2[N2]
         \/ N2 = N /\ \A n \in 1..N : lines2[p + 1] # log[n]
  BY DEF OneLineLater
<1> HIDE DEF L, N, N2
<1>1. /\ L \in Nat /\ N \in Nat /\ N2 \in {N, N + 1} /\ Len(lines2) = p + 1
      /\ \A k \in 1..p : k \in 1..L
  BY <1>0
<1>2. /\ \A m, n \in 1..N, j, k \in 1..L :
           lines[j] = log[m] /\ lines[k] = log[n] /\ j < k => m < n
      /\ \A a, b \in 1..N, j \in 1..L :
           a < b /\ lines[j] = log[a] =>
              \E i \in 1..L : j < i /\ lines[i] \in {log[b], Garbled}
      /\ \A a, b, c \in 1..N, j, k \in 1..L :
           a < b /\ b < c /\ lines[j] = log[a] /\ lines[k] = log[c] =>
              \E i \in 1..L : j < i /\ i < k /\ lines[i] \in {log[b], Garbled}
  BY <1>0 DEF Ordered, L, N
<1>3. ASSUME NEW k \in 1..p, NEW n \in 1..N2, lines2[k] = log2[n]
      PROVE  n \in 1..N /\ lines[k] = log[n] /\ k \in 1..L
  <2>1. lines2[k] = lines[k] /\ k \in 1..L
    BY <1>0, <1>1
  <2>2. ASSUME n = N + 1 PROVE FALSE
    <3>1. N2 = n
      BY <1>0, <1>1, <2>2
    <3>2. log2[N2] = lines[k]
      BY <1>0, <1>3, <2>1, <3>1
    <3>3. N2 = N + 1
      BY <2>2, <3>1
    <3>. QED  BY <1>0, <1>1, <3>2, <3>3
  <2>3. n \in 1..N
    BY <1>0, <1>1, <2>2
  <2>. QED  BY <1>0, <1>3, <2>1, <2>3
<1>4. ASSUME NEW n \in 1..N2, lines2[p + 1] = log2[n]
      PROVE  N2 = N + 1 /\ n = N + 1 /\ p = L
  BY <1>0, <1>1, <1>4
<1>5. ASSUME NEW m \in 1..N2, NEW n \in 1..N2, NEW j \in 1..(p + 1), NEW k \in 1..(p + 1),
             lines2[j] = log2[m], lines2[k] = log2[n], j < k
      PROVE  m < n
  <2>1. j \in 1..p
    BY <1>5
  <2>2. m \in 1..N /\ lines[j] = log[m] /\ j \in 1..L
    BY <1>0, <1>3, <1>5, <2>1
  <2>3. CASE k \in 1..p
    BY <1>0, <1>2, <1>3, <1>5, <2>2, <2>3
  <2>4. CASE k = p + 1
    BY <1>0, <1>1, <1>4, <1>5, <2>2, <2>4
  <2>. QED  BY <2>3, <2>4
<1>6. ASSUME NEW a \in 1..N2, NEW b \in 1..N2, NEW j \in 1..(p + 1), a < b, lines2[j] = log2[a]
      PROVE  \E i \in 1..(p + 1) : j < i /\ lines2[i] \in {log2[b], Garbled}
  <2>1. j \in 1..p
    <3>1. j # p + 1
      BY <1>0, <1>1, <1>4, <1>6
    <3>. QED  BY <3>1
  <2>2. a \in 1..N /\ lines[j] = log[a] /\ j \in 1..L
    BY <1>0, <1>3, <1>6, <2>1
  <2>3. CASE lines2[p + 1] \in {log2[b], Garbled}
    BY <2>1, <2>3
  <2>4. CASE lines2[p + 1] \notin {log2[b], Garbled}
    <3>1. p = L /\ b \in 1..N
      BY <1>0, <1>1, <2>4
    <3>2. PICK i \in 1..L : j < i /\ lines[i] \in {log[b], Garbled}
      BY <1>0, <1>2, <1>6, <2>2, <3>1
    <3>3. i \in 1..(p + 1) /\ lines2[i] = lines[i] /\ log2[b] = log[b]
      BY <1>0, <3>1, <3>2
    <3>. QED  BY <3>2, <3>3
  <2>. QED  BY <2>3, <2>4
<1>7. ASSUME NEW a \in 1..N2, NEW b \in 1..N2, NEW c \in 1..N2,
             NEW j \in 1..(p + 1), NEW k \in 1..(p + 1), a < b, b < c,
             lines2[j] = log2[a], lines2[k] = log2[c]
      PROVE  \E i \in 1..(p + 1) : j < i /\ i < k /\ lines2[i] \in {log2[b], Garbled}
  <2>1. j < k
    <3>1. j # k
      BY <1>0, <1>1, <1>7
    <3>2. ~(k < j)
      BY <1>0, <1>1, <1>5, <1>7
    <3>. QED  BY <1>0, <3>1, <3>2
  <2>2. j \in 1..p
    BY <2>1
  <2>3. a \in 1..N /\ lines[j] = log[a] /\ j \in 1..L
    BY <1>0, <1>3, <1>7, <2>2
  <2>4. b \in 1..N /\ log2[b] = log[b]
    BY <1>0, <1>1, <1>7
  <2>5. CASE k \in 1..p
    <3>1. c \in 1..N /\ lines[k] = log[c] /\ k \in 1..L
      BY <1>0, <1>3, <1>7, <2>5
    <3>2. PICK i \in 1..L : j < i /\ i < k /\ lines[i] \in {log[b], Garbled}
      BY <1>0, <1>2, <1>7, <2>3, <2>4, <3>1
    <3>3. i \in 1..(p + 1) /\ lines2[i] = lines[i]
      BY <1>0, <2>5, <3>2, <1>1
    <3>. QED  BY <2>4, <3>2, <3>3
  <2>6. CASE k = p + 1
    <3>1. p = L
      BY <1>4, <1>7, <2>6
    <3>2. PICK i \in 1..L : j < i /\ lines[i] \in {log[b], Garbled}
      BY <1>0, <1>2, <1>7, <2>3, <2>4
    <3>3. i \in 1..(p + 1) /\ lines2[i] = lines[i] /\ i < k
      BY <1>0, <2>6, <3>1, <3>2, <1>1
    <3>. QED  BY <2>4, <3>2, <3>3
  <2>. QED  BY <2>5, <2>6
<1>8. Len(log2) = N2 /\ Len(lines2) = p + 1
  BY <1>0 DEF N2
<1>9. \A m, n \in 1..Len(log2), j, k \in 1..Len(lines2) :
         lines2[j] = log2[m] /\ lines2[k] = log2[n] /\ j < k => m < n
  BY <1>5, <1>8
<1>10. \A a, b \in 1..Len(log2), j \in 1..Len(lines2) :
          a < b /\ lines2[j] = log2[a] =>
             \E i \in 1..Len(lines2) : j < i /\ lines2[i] \in {log2[b], Garbled}
  BY <1>6, <1>8
<1>11. \A a, b, c \in 1..Len(log2), j, k \in 1..Len(lines2) :
          a < b /\ b < c /\ lines2[j] = log2[a] /\ lines2[k] = log2[c] =>
             \E i \in 1..Len(lines2) : j < i /\ i < k /\ lines2[i] \in {log2[b], Garbled}
  BY <1>7, <1>8
<1>. QED  BY <1>9, <1>10, <1>11, Zenon DEF Ordered

(* One log(): the last line is replaced if it was open, else one is added. *)
LEMMA LinesAfter ==
    ASSUME NEW S, NEW lines \in Seq(S), NEW open \in BOOLEAN, NEW x \in S, NEW y \in S,
           open => lines # <<>>,
           NEW lines2, open => lines2 = Append(Front(lines), y),
           ~open => lines2 = Append(lines, x),
           NEW p, open => p = Len(lines) - 1, ~open => p = Len(lines)
    PROVE  /\ Len(lines) \in Nat /\ p \in Nat
           /\ p \in {Len(lines) - 1, Len(lines)}
           /\ p # Len(lines) => open
           /\ lines2 \in Seq(S) /\ Len(lines2) = p + 1
           /\ open => lines2[p + 1] = y
           /\ ~open => lines2[p + 1] = x
           /\ \A k \in 1..p : lines2[k] = lines[k] /\ k \in 1..Len(lines)
<1>1. Len(lines) \in Nat
  BY LenProperties
<1>2. CASE open
  <2>1. /\ Front(lines) \in Seq(S) /\ Len(Front(lines)) = Len(lines) - 1
        /\ Len(lines) \in Nat \ {0}
        /\ \A i \in 1..(Len(lines) - 1) : Front(lines)[i] = lines[i]
    BY <1>2, FrontFacts
  <2>2. /\ lines2 \in Seq(S) /\ Len(lines2) = Len(Front(lines)) + 1
        /\ lines2[Len(Front(lines)) + 1] = y
        /\ \A i \in 1..Len(Front(lines)) : lines2[i] = Front(lines)[i]
    BY <1>2, <2>1, AppendFacts
  <2>. QED  BY <1>2, <2>1, <2>2
<1>3. CASE ~open
  <2>1. /\ lines2 \in Seq(S) /\ Len(lines2) = Len(lines) + 1
        /\ lines2[Len(lines) + 1] = x
        /\ \A i \in 1..Len(lines) : lines2[i] = lines[i]
    BY <1>3, AppendFacts
  <2>. QED  BY <1>1, <1>3, <2>1
<1>. QED  BY <1>2, <1>3

(* Only the loss of events touches what FileInv speaks of.                 *)
LEMMA FileStays ==
    ASSUME FileInv, UNCHANGED <<file, logged, faults>>, lost \subseteq lost'
    PROVE  FileInv'
<1>1. Missing' = Missing
  BY DEF Missing
<1>. QED  BY <1>1 DEF FileInv

LEMMA ElementsOf ==
    ASSUME NEW S, NEW s \in Seq(S)
    PROVE  /\ \A x : x \in ToSet(s) <=> \E k \in 1..Len(s) : x = s[k]
           /\ Len(s) \in Nat /\ DOMAIN s = 1..Len(s)
  BY LenProperties DEF ToSet

LEMMA OneMore ==
    ASSUME NEW S, NEW x, IsFiniteSet(S), NEW T, T \subseteq S \cup {x}
    PROVE  /\ IsFiniteSet(T) /\ Cardinality(T) \in Nat /\ Cardinality(S) \in Nat
           /\ Cardinality(T) <= Cardinality(S) + 1
           /\ T \subseteq S => Cardinality(T) <= Cardinality(S)
<1>1. Cardinality(S) \in Nat
  BY FS_CardinalityType
<1>2. /\ IsFiniteSet(S \cup {x})
      /\ Cardinality(S \cup {x}) = IF x \in S THEN Cardinality(S) ELSE Cardinality(S) + 1
  BY FS_AddElement
<1>3. IsFiniteSet(T) /\ Cardinality(T) <= Cardinality(S \cup {x})
  BY <1>2, FS_Subset
<1>4. Cardinality(T) \in Nat
  BY <1>3, FS_CardinalityType
<1>5. T \subseteq S => Cardinality(T) <= Cardinality(S)
  BY FS_Subset
<1>. QED  BY <1>1, <1>2, <1>3, <1>4, <1>5

(* What is known of the log and the file between two steps.                *)
LEMMA FileContext ==
    ASSUME IInv, VerdictInv, FileInv, NEW e \in Events
    PROVE  /\ file \in Files(Events) /\ logged \in Seq(Events) /\ faults \in Nat
           /\ file.lines \in Seq(Events \cup {Garbled}) /\ Len(file.lines) \in Nat
           /\ \A n \in 1..Len(logged) : logged[n] # Garbled
           /\ \A m, n \in 1..Len(logged) : logged[m] = logged[n] => m = n
           /\ Len(logged) \in Nat /\ e # Garbled /\ Garbled \notin ToSet(logged)
           /\ \A k \in 1..Len(file.lines) :
                 file.lines[k] \in ToSet(logged) \cup lost \cup {Garbled}
           /\ file.open => file.lines # <<>> /\ file.lines[Len(file.lines)] \notin ToSet(logged)
           /\ \A n \in 1..Len(logged) : logged[n] \in ToSet(logged)
           /\ Ordered(file.lines, logged)
           /\ IsFiniteSet(Missing) /\ Cardinality(Missing) \in Nat
           /\ Cardinality(Missing) + (IF file.open THEN 1 ELSE 0) <= faults
           /\ file.open \in BOOLEAN
<1>1. file \in Files(Events) /\ logged \in Seq(Events) /\ faults \in Nat
  BY ToolAssumption DEF IInv, Typed
<1>2. /\ \A n \in 1..Len(logged) : logged[n] \in Events
      /\ Garbled \notin ToSet(logged) /\ e # Garbled
  BY <1>1, ToSetFacts, ElementOfSeq, GarbledAssumption
<1>3. file.lines \in Seq(Events \cup {Garbled}) /\ file.open \in BOOLEAN
  BY <1>1 DEF Files
<1>4. DOMAIN logged = 1..Len(logged) /\ Len(logged) \in Nat /\ Len(file.lines) \in Nat
      /\ \A n \in 1..Len(logged) : logged[n] \in ToSet(logged)
  BY <1>1, <1>3, ElementsOf
<1>5. \A m, n \in 1..Len(logged) : logged[m] = logged[n] => m = n
  BY <1>4 DEF VerdictInv, NoEventTwice, IsInjective
<1>. QED  BY <1>1, <1>2, <1>3, <1>4, <1>5, GarbledAssumption, FS_CardinalityType
          DEF FileInv, Last

LEMMA LogWrites ==
    ASSUME IInv, VerdictInv, FileInv, NEW e \in Events, e \notin ToSet(logged) \cup lost,
           file' = Write(file, e), logged' = Append(logged, e), UNCHANGED <<lost, faults>>
    PROVE  FileInv'
<1>1. PICK S, log, lines, lines2, log2, open, p :
         /\ S = Events \cup {Garbled} /\ log = ToSet(logged) /\ lines = file.lines
         /\ lines2 = file'.lines /\ log2 = logged' /\ open = file.open
         /\ p = IF file.open THEN Len(file.lines) - 1 ELSE Len(file.lines)
  OBVIOUS
<1>2. /\ ~file'.open
      /\ open => lines2 = Append(Front(lines), Garbled)
      /\ ~open => lines2 = Append(lines, e)
  BY <1>1 DEF Write
<1>3. /\ lines \in Seq(S) /\ Len(lines) \in Nat /\ p \in Nat
      /\ p \in {Len(lines) - 1, Len(lines)}
      /\ p # Len(lines) => open
      /\ lines2 \in Seq(S) /\ Len(lines2) = p + 1
      /\ open => lines2[p + 1] = Garbled
      /\ ~open => lines2[p + 1] = e
      /\ \A k \in 1..p : lines2[k] = lines[k] /\ k \in 1..Len(lines)
  <2>1. /\ lines \in Seq(S) /\ open \in BOOLEAN /\ e \in S /\ Garbled \in S
        /\ open => lines # <<>>
    BY <1>1, FileContext
  <2>2. (open => p = Len(lines) - 1) /\ (~open => p = Len(lines))
    BY <1>1
  <2>. QED  BY <1>2, <2>1, <2>2, LinesAfter
<1>4. /\ log2 \in Seq(Events) /\ Len(log2) = Len(logged) + 1
      /\ log2[Len(log2)] = e
      /\ \A n \in 1..Len(logged) : log2[n] = logged[n]
      /\ ToSet(log2) = ToSet(logged) \cup {e}
  BY <1>1, FileContext, AppendFacts, SetOfAppend
<1>5. \A k \in 1..p : k \in 1..Len(lines) /\ lines[k] # e
  <2>1. \A k \in 1..p : k \in 1..Len(lines)
    BY <1>3
  <2>2. \A k \in 1..Len(lines) : lines[k] # e
    BY <1>1, FileContext
  <2>. QED  BY <2>1, <2>2
<1>6. ASSUME NEW k \in 1..Len(lines2) PROVE lines2[k] \in ToSet(log2) \cup lost \cup {Garbled}
  <2>1. CASE k \in 1..p
    BY <1>1, <1>3, <1>4, <1>5, <2>1, FileContext
  <2>2. CASE k = p + 1
    BY <1>3, <1>4, <2>2, FileContext
  <2>. QED  BY <1>3, <2>1, <2>2
<1>7. p # Len(lines) => /\ lines2[p + 1] = Garbled
                        /\ lines[Len(lines)] \notin ToSet(logged)
                        /\ \A n \in 1..Len(logged) : lines[Len(lines)] # logged[n]
  BY <1>1, <1>3, FileContext
<1>8. Ordered(lines2, log2)
  <2>1. /\ \A m, n \in 1..Len(log2) : log2[m] = log2[n] => m = n
        /\ \A n \in 1..Len(log2) : log2[n] # Garbled
    <3>1. ASSUME NEW m \in 1..Len(log2), NEW n \in 1..Len(log2), log2[m] = log2[n], m # n
          PROVE  FALSE
      <4>1. CASE m \in 1..Len(logged) /\ n \in 1..Len(logged)
        BY <1>4, <3>1, <4>1, FileContext
      <4>2. CASE m = Len(log2) \/ n = Len(log2)
        <5>1. PICK i \in 1..Len(logged) : log2[i] = e
          BY <1>4, <3>1, <4>2, FileContext
        <5>. QED  BY <1>4, <5>1, FileContext
      <4>. QED  BY <1>4, <3>1, <4>1, <4>2, FileContext
    <3>2. ASSUME NEW n \in 1..Len(log2) PROVE log2[n] # Garbled
      BY <1>4, FileContext
    <3>. QED  BY <3>1, <3>2
  <2>2. lines2[p + 1] \in {log2[Len(log2)], Garbled}
    BY <1>3, <1>4
  <2>3. \A k \in 1..p : lines[k] # log2[Len(log2)]
    BY <1>4, <1>5
  <2>4. Ordered(lines, logged) /\ Len(logged) \in Nat
    BY <1>1, FileContext
  <2>5. OneLineLater(lines, logged, lines2, log2, p, TRUE)
    BY <1>3, <1>4, <1>7, <2>1, <2>2, <2>3, <2>4 DEF OneLineLater
  <2>. QED  BY <1>3, <2>5, OrderKept
<1>9. Missing' \subseteq Missing \cup {e} /\ (~file.open => Missing' \subseteq Missing)
  <2>1. log \ ToSet(lines2) \subseteq log \ ToSet(lines)
    <3>1. ASSUME NEW x0 \in log, x0 \in ToSet(lines) PROVE x0 \in ToSet(lines2)
      <4>1. PICK k \in 1..Len(lines) : x0 = lines[k]
        BY <1>3, <3>1, ElementsOf
      <4>2. k \in 1..p
        BY <1>1, <1>3, <1>7, <3>1, <4>1
      <4>3. k \in 1..Len(lines2) /\ x0 = lines2[k]
        BY <1>3, <4>1, <4>2
      <4>. QED  BY <1>3, <4>3, ElementsOf
    <3>. QED  BY <3>1
  <2>2. ~file.open => e \in ToSet(lines2)
    <3>1. p + 1 \in 1..Len(lines2)
      BY <1>3
    <3>2. lines2[p + 1] \in ToSet(lines2)
      BY <1>3, <3>1, ElementsOf
    <3>. QED  BY <1>1, <1>3, <3>2
  <2>3. /\ Missing' = ToSet(log2) \ ToSet(lines2)
        /\ Missing = log \ ToSet(lines) /\ log = ToSet(logged)
    BY <1>1 DEF Missing
  <2>. QED  BY <1>4, <2>1, <2>2, <2>3
<1>10. /\ IsFiniteSet(Missing')
       /\ Cardinality(Missing') <= faults /\ Cardinality(Missing') \in Nat
  <2>1. PICK before, after : before = Missing /\ after = Missing'
    OBVIOUS
  <2>2. /\ IsFiniteSet(after) /\ Cardinality(after) \in Nat
        /\ Cardinality(after) <= Cardinality(before) + 1
        /\ after \subseteq before => Cardinality(after) <= Cardinality(before)
    BY <1>9, <2>1, OneMore, FileContext
  <2>3. /\ Cardinality(before) \in Nat /\ faults \in Nat
        /\ Cardinality(before) + (IF file.open THEN 1 ELSE 0) <= faults
    BY <2>1, FileContext
  <2>. QED  BY <1>9, <2>1, <2>2, <2>3
<1>. QED  BY <1>1, <1>2, <1>6, <1>8, <1>10 DEF FileInv

LEMMA LogIsCutShort ==
    ASSUME IInv, VerdictInv, FileInv, NEW e \in Events, e \notin ToSet(logged) \cup lost,
           file' \in CutShort(file, e), UNCHANGED logged, lost' = lost \cup {e},
           faults' = faults + 1
    PROVE  FileInv'
<1>1. PICK S, log, lines, lines2, open, p :
         /\ S = Events \cup {Garbled} /\ log = ToSet(logged) /\ lines = file.lines
         /\ lines2 = file'.lines /\ open = file.open
         /\ p = IF file.open THEN Len(file.lines) - 1 ELSE Len(file.lines)
  OBVIOUS
<1>2. PICK x \in {e, Garbled} :
         file' = [lines |-> IF file.open THEN Append(Front(file.lines), Garbled)
                            ELSE Append(file.lines, x),
                  open |-> TRUE]
  BY DEF CutShort
<1>3. /\ file'.open
      /\ open => lines2 = Append(Front(lines), Garbled)
      /\ ~open => lines2 = Append(lines, x)
  BY <1>1, <1>2
<1>4. /\ lines \in Seq(S) /\ Len(lines) \in Nat /\ p \in Nat
      /\ p \in {Len(lines) - 1, Len(lines)}
      /\ p # Len(lines) => open
      /\ lines2 \in Seq(S) /\ Len(lines2) = p + 1
      /\ open => lines2[p + 1] = Garbled
      /\ ~open => lines2[p + 1] = x
      /\ \A k \in 1..p : lines2[k] = lines[k] /\ k \in 1..Len(lines)
  <2>1. /\ lines \in Seq(S) /\ open \in BOOLEAN /\ x \in S /\ Garbled \in S
        /\ open => lines # <<>>
    BY <1>1, FileContext
  <2>2. (open => p = Len(lines) - 1) /\ (~open => p = Len(lines))
    BY <1>1
  <2>. QED  BY <1>3, <2>1, <2>2, LinesAfter
<1>5. lines2[p + 1] \in {e, Garbled} /\ lines2[p + 1] \notin ToSet(logged)
  BY <1>4, FileContext
<1>6. ASSUME NEW k \in 1..Len(lines2) PROVE lines2[k] \in ToSet(logged) \cup lost' \cup {Garbled}
  <2>1. CASE k \in 1..p
    <3>1. k \in 1..Len(lines) /\ lines2[k] = lines[k]
      BY <1>4, <2>1
    <3>. QED  BY <1>1, <3>1, FileContext
  <2>2. CASE k = p + 1
    BY <1>5, <2>2
  <2>. QED  BY <1>4, <2>1, <2>2
<1>7. p # Len(lines) => /\ lines2[p + 1] = Garbled
                        /\ lines[Len(lines)] \notin ToSet(logged)
                        /\ \A n \in 1..Len(logged) : lines[Len(lines)] # logged[n]
  BY <1>1, <1>4, FileContext
<1>8. Ordered(lines2, logged)
  <2>1. \A n \in 1..Len(logged) : lines2[p + 1] # logged[n]
    BY <1>5, FileContext
  <2>2. /\ Ordered(lines, logged) /\ Len(logged) \in Nat
        /\ \A m, n \in 1..Len(logged) : logged[m] = logged[n] => m = n
        /\ \A n \in 1..Len(logged) : logged[n] # Garbled
    BY <1>1, FileContext
  <2>3. OneLineLater(lines, logged, lines2, logged, p, FALSE)
    BY <1>4, <1>7, <2>1, <2>2 DEF OneLineLater
  <2>. QED  BY <1>4, <2>3, OrderKept
<1>9. lines2 # <<>> /\ Last(lines2) \notin ToSet(logged)
  BY <1>4, <1>5, EmptySeq DEF Last
<1>10. Missing' \subseteq Missing
  <2>1. log \ ToSet(lines2) \subseteq log \ ToSet(lines)
    <3>1. ASSUME NEW x0 \in log, x0 \in ToSet(lines) PROVE x0 \in ToSet(lines2)
      <4>1. PICK k \in 1..Len(lines) : x0 = lines[k]
        BY <1>4, <3>1, ElementsOf
      <4>2. k \in 1..p
        BY <1>1, <1>4, <1>7, <3>1, <4>1
      <4>3. k \in 1..Len(lines2) /\ x0 = lines2[k]
        BY <1>4, <4>1, <4>2
      <4>. QED  BY <1>4, <4>3, ElementsOf
    <3>. QED  BY <3>1
  <2>. QED  BY <1>1, <2>1 DEF Missing
<1>11. /\ IsFiniteSet(Missing')
       /\ Cardinality(Missing') + 1 <= faults'
  <2>1. PICK before, after : before = Missing /\ after = Missing'
    OBVIOUS
  <2>2. /\ IsFiniteSet(after) /\ Cardinality(after) \in Nat
        /\ Cardinality(after) <= Cardinality(before)
    BY <1>10, <2>1, OneMore, FileContext
  <2>3. /\ Cardinality(before) \in Nat /\ faults \in Nat
        /\ Cardinality(before) + (IF file.open THEN 1 ELSE 0) <= faults
    BY <2>1, FileContext
  <2>. QED  BY <2>1, <2>2, <2>3
<1>. QED  BY <1>1, <1>3, <1>6, <1>8, <1>9, <1>11 DEF FileInv

LEMMA LogKeepsFile ==
    ASSUME IInv, VerdictInv, FileInv, NEW e \in Events, Log(e),
           e \notin ToSet(logged) \cup lost
    PROVE  FileInv'
<1>1. CASE file' = Write(file, e) /\ logged' = Append(logged, e) /\ UNCHANGED <<lost, faults>>
  BY <1>1, LogWrites
<1>2. CASE /\ file' \in CutShort(file, e) /\ UNCHANGED logged /\ lost' = lost \cup {e}
           /\ faults' = faults + 1
  BY <1>2, LogIsCutShort
<1>3. CASE file' = file /\ UNCHANGED logged /\ lost' = lost \cup {e} /\ faults' = faults + 1
  <2>1. Missing' = Missing
    BY <1>3 DEF Missing
  <2>2. /\ Cardinality(Missing) + (IF file.open THEN 1 ELSE 0) <= faults'
    BY <1>3, FileContext
  <2>. QED  BY <1>3, <2>1, <2>2 DEF FileInv
<1>. QED  BY <1>1, <1>2, <1>3 DEF Log

-----------------------------------------------------------------------------
(* The file along a behaviour, and what is shown of it.                    *)

LEMMA InitFile == Init => FileInv
<1> SUFFICES ASSUME Init PROVE FileInv
  OBVIOUS
<1>1. logged = <<>> /\ file.lines = <<>> /\ file.open = FALSE /\ faults = 0
  BY DEF Init, EmptyFile
<1>2. Len(logged) = 0 /\ Len(file.lines) = 0 /\ ToSet(logged) = {}
  BY <1>1 DEF ToSet
<1>3. Missing = {}
  BY <1>2 DEF Missing
<1>4. IsFiniteSet(Missing) /\ Cardinality(Missing) = 0
  BY <1>3, FS_EmptySet
<1>5. Ordered(file.lines, logged)
  BY <1>2 DEF Ordered
<1>. QED  BY <1>1, <1>2, <1>4, <1>5 DEF FileInv

(* A call that ends logs an event that was not accounted for.              *)
LEMMA CallKeepsFile ==
    ASSUME IInv, VerdictInv, FileInv, NEW t \in Tasks, NEW n \in Names,
           NEW c \in CallRecord, calls' = Append(calls, c), Len(calls) < MaxCalls,
           NEW action \in Actions, Log(Event(Len(calls'), action, role[t]))
    PROVE  FileInv'
<1>1. PICK e : e = Event(Len(calls'), action, role[t])
  OBVIOUS
<1>2. e \in Events /\ e.id = Len(calls') /\ Log(e)
  BY <1>1, CallAppends, EventFacts
<1>3. e \notin ToSet(logged) \cup lost
  BY <1>2, CallAppends DEF Accounted
<1>. QED  BY <1>2, <1>3, LogKeepsFile

LEMMA ResumeKeepsFile ==
    ASSUME IInv, VerdictInv, FileInv, NEW i \in DOMAIN calls,
           NEW o \in {"returned", "raised"}, BodyResumes(i, o)
    PROVE  FileInv'
<1>1. /\ calls \in Seq(CallRecord) /\ i \in 1..Len(calls) /\ Len(calls) \in Nat
      /\ VerdictAt(i) /\ Len(calls) <= MaxCalls
  BY LenProperties DEF IInv, Typed, VerdictInv
<1>2. calls[i] \in CallRecord /\ calls[i].outcome = "running"
  BY <1>1, ElementOfSeq DEF BodyResumes
<1>3. DueOn(calls[i].outcome) = {}
  BY <1>2 DEF DueOn
<1>4. EventsOf(i) = {}
  BY <1>1, <1>3 DEF VerdictAt
<1>5. i \in CallIds /\ role[calls[i].task] \in Roles /\ VerdictOn(o) \in Actions
  <2>1. calls[i].task \in Tasks
    BY <1>2 DEF CallRecord
  <2>. QED  BY <1>1, <2>1, RoleOfTask, ToolAssumption DEF CallIds, VerdictOn, Actions
<1>6. PICK e : e = Event(i, VerdictOn(o), role[calls[i].task])
  OBVIOUS
<1>7. e \in Events /\ e.id = i /\ Log(e)
  BY <1>5, <1>6, EventFacts DEF BodyResumes
<1>8. e \notin ToSet(logged) \cup lost
  BY <1>4, <1>7 DEF EventsOf, Accounted
<1>. QED  BY <1>7, <1>8, LogKeepsFile

LEMMA DenialKeepsFile == ASSUME IInv, VerdictInv, FileInv, WriteDenial PROVE FileInv'
<1>1. denials \in Seq(Events) /\ denials # <<>> /\ NoEventTwice
  BY DEF IInv, Typed, WriteDenial, VerdictInv
<1>2. PICK e : e = Head(denials)
  OBVIOUS
<1>3. e \in Events /\ Log(e)
  BY <1>1, <1>2, HeadTailProperties DEF WriteDenial
<1>4. e \in ToSet(denials)
  BY <1>1, <1>2, SetOfTail
<1>5. e \notin ToSet(logged) \cup lost
  BY <1>1, <1>4 DEF NoEventTwice
<1>. QED  BY <1>3, <1>5, LogKeepsFile

LEMMA SpecFileInv == Spec => []FileInv
<1>1. ASSUME IInv, VerdictInv, FileInv, [Next]_vars PROVE FileInv'
  <2>1. ASSUME NEW t \in Tasks, NEW r \in ActingRoles, Enter(t, r) PROVE FileInv'
    BY <1>1, <2>1, FileStays DEF Enter
  <2>2. ASSUME NEW t \in Tasks, Exit(t) PROVE FileInv'
    BY <1>1, <2>2, FileStays DEF Exit
  <2>3. ASSUME NEW t \in Tasks, NEW n \in Names,
               CallUnknown(t, n) \/ CallSuspends(t, n)
        PROVE  FileInv'
    BY <1>1, <2>3, FileStays DEF CallUnknown, CallSuspends
  <2>4. ASSUME NEW t \in Tasks, NEW n \in Names,
               \/ CallInvalid(t, n) \/ CallDenied(t, n)
               \/ \E o \in {"returned", "raised"} : CallCompletes(t, n, o)
        PROVE  FileInv'
    <3>1. PICK c : c = Call(t, n)
      OBVIOUS
    <3>2. c \in CallRecord
      BY <1>1, <3>1, RoleOfTask DEF Call, CallRecord
    <3>3. ASSUME NEW o \in {"raised", "denied"},
                 calls' = Append(calls, [c EXCEPT !.outcome = o]), Len(calls) < MaxCalls,
                 Log(Event(Len(calls'), "TOOL_FAILED", role[t]))
          PROVE  FileInv'
      <4>1. PICK d : d = [c EXCEPT !.outcome = o]
        OBVIOUS
      <4>2. d \in CallRecord
        BY <3>2, <4>1 DEF CallRecord
      <4>3. "TOOL_FAILED" \in Actions
        BY DEF Actions
      <4>. QED  BY <1>1, <3>3, <4>1, <4>2, <4>3, CallKeepsFile
    <3>4. ASSUME NEW o \in {"returned", "raised"}, CallCompletes(t, n, o) PROVE FileInv'
      <4>1. PICK d : d = [c EXCEPT !.ran = TRUE, !.outcome = o]
        OBVIOUS
      <4>2. d \in CallRecord
        BY <3>2, <4>1 DEF CallRecord
      <4>3. VerdictOn(o) \in Actions
        BY DEF VerdictOn, Actions
      <4>4. /\ calls' = Append(calls, d) /\ Len(calls) < MaxCalls
            /\ Log(Event(Len(calls'), VerdictOn(o), role[t]))
        BY <3>1, <3>4, <4>1 DEF CallCompletes, Callable
      <4>. QED  BY <1>1, <4>2, <4>3, <4>4, CallKeepsFile
    <3>5. CASE CallInvalid(t, n)
      BY <3>1, <3>3, <3>5 DEF CallInvalid, Callable
    <3>6. CASE CallDenied(t, n)
      BY <3>1, <3>3, <3>6 DEF CallDenied, Callable
    <3>. QED  BY <2>4, <3>4, <3>5, <3>6
  <2>5. ASSUME NEW i \in DOMAIN calls, NEW o \in {"returned", "raised"}, BodyResumes(i, o)
        PROVE  FileInv'
    BY <1>1, <2>5, ResumeKeepsFile
  <2>6. CASE WriteDenial
    BY <1>1, <2>6, DenialKeepsFile
  <2>7. CASE ProcessEnds
    BY <1>1, <2>7, FileStays DEF ProcessEnds
  <2>8. CASE UNCHANGED vars
    BY <1>1, <2>8, FileStays DEF vars
  <2>. QED  BY <1>1, <2>1, <2>2, <2>3, <2>4, <2>5, <2>6, <2>7, <2>8 DEF Next
<1>2. IInv /\ VerdictInv /\ FileInv /\ [Next]_vars => FileInv'
  BY <1>1
<1>. QED  BY InitFile, Inductive, SpecVerdictInv, <1>2, PTL DEF Spec

(* FailedWriteCostsOneEvent: of the events whose log() returned, no more   *)
(* are without a line of their own than writes failed, whichever they were *)
(* and wherever the disk cut them (audit/logger.py log).                   *)
THEOREM FailedWritesCostLittle == Spec => []FailedWriteCostsOneEvent
<1>1. ASSUME IInv, FileInv PROVE FailedWriteCostsOneEvent
  <2>1. PICK missing : missing = Missing
    OBVIOUS
  <2>2. /\ Cardinality(missing) \in Nat /\ faults \in Nat
        /\ Cardinality(missing) + (IF file.open THEN 1 ELSE 0) <= faults
    BY <1>1, <2>1, FS_CardinalityType, ToolAssumption DEF FileInv, IInv, Typed
  <2>3. Cardinality(missing) <= faults
    BY <2>2
  <2>. QED  BY <2>1, <2>3 DEF FailedWriteCostsOneEvent, Missing
<1>2. IInv /\ FileInv => FailedWriteCostsOneEvent
  BY <1>1
<1>. QED  BY <1>2, Inductive, SpecFileInv, PTL

(* Every nonempty set of naturals has a least element.                     *)
LEMMA LeastOf ==
    ASSUME NEW T, T \subseteq Nat, T # {}
    PROVE  \E m \in T : \A k \in T : m <= k
<1>1. PICK R : R = OpToRel(<, Nat)
  OBVIOUS
<1>2. IsWellFoundedOn(R, Nat)
  BY <1>1, NatLessThanWellFounded
<1>3. PICK m \in T : \A k \in T : ~ (<<k, m>> \in R)
  BY <1>2, WFMin
<1>4. ASSUME NEW k \in T, k < m PROVE <<k, m>> \in R
  BY <1>1, <1>4 DEF OpToRel
<1>5. \A k \in T : ~(k < m)
  BY <1>3, <1>4
<1>6. \A k \in T : m <= k
  BY <1>5
<1>. QED  BY <1>6

(* read_recent() shows the newest lines, newest first, none garbled.       *)
ShowsNewest(shown, lines) ==
    /\ Len(shown) \in 0..Len(lines) /\ DOMAIN shown = 1..Len(shown)
    /\ \A i \in 1..Len(shown) : /\ shown[i] = lines[Len(lines) - i + 1]
                                /\ shown[i] # Garbled

LEMMA ReadRecentFacts ==
    ASSUME NEW S, NEW f, f.lines \in Seq(S), NEW limit \in Int
    PROVE  ShowsNewest(ReadRecent(f, limit), f.lines)
<1>1. PICK lines \in Seq(S) : lines = f.lines
  OBVIOUS
<1>2. PICK from : from = IF limit > 0 THEN Len(lines) - limit ELSE -limit
  OBVIOUS
<1>3. PICK a : a = 1 + (IF from > 0 THEN from ELSE 0)
  OBVIOUS
<1>4. Len(lines) \in Nat /\ from \in Int /\ a \in Nat /\ a >= 1
  BY <1>2, <1>3, LenProperties
<1>5. PICK tail : tail = LastLines(lines, limit)
  OBVIOUS
<1>6. tail = SubSeq(lines, a, Len(lines))
  BY <1>2, <1>3, <1>5 DEF LastLines
<1>7. \A i \in a..Len(lines) : lines[i] \in S
  BY <1>4, ElementOfSeq
<1>8. /\ tail \in Seq(S)
      /\ Len(tail) = IF a <= Len(lines) THEN Len(lines) - a + 1 ELSE 0
      /\ \A i \in 1..(Len(lines) - a + 1) : tail[i] = lines[a + i - 1]
  BY <1>4, <1>6, <1>7, SubSeqProperties
<1>9. PICK size \in Nat : size = Len(tail) /\ size <= Len(lines)
  BY <1>4, <1>8
<1>10. \A i \in 1..size : tail[size - i + 1] = lines[Len(lines) - i + 1]
  <2>1. ASSUME NEW i \in 1..size PROVE tail[size - i + 1] = lines[Len(lines) - i + 1]
    <3>1. size = Len(lines) - a + 1
      BY <1>4, <1>8, <1>9
    <3>2. size - i + 1 \in 1..(Len(lines) - a + 1)
      BY <1>4, <3>1
    <3>3. a + (size - i + 1) - 1 = Len(lines) - i + 1
      BY <1>4, <3>1
    <3>. QED  BY <1>8, <3>2, <3>3
  <2>. QED  BY <2>1
<1>11. PICK newest : newest = Reverse(tail)
  OBVIOUS
<1>12. newest = [i \in 1..size |-> tail[(size - i) + 1]]
  BY <1>9, <1>11 DEF Reverse
<1>13. /\ newest \in Seq(S) /\ Len(newest) = size
       /\ \A i \in 1..size : newest[i] = lines[Len(lines) - i + 1]
  <2>1. \A i \in 1..size : tail[size - i + 1] \in S
    <3>1. \A i \in 1..size : size - i + 1 \in 1..Len(tail)
      BY <1>9
    <3>. QED  BY <1>8, <3>1, ElementOfSeq
  <2>2. newest \in [1..size -> S]
    BY <1>12, <2>1
  <2>3. newest \in Seq(S)
    BY <2>2, <1>9
  <2>4. Len(newest) = size
    BY <2>2, <2>3, <1>9, LenProperties
  <2>. QED  BY <1>10, <1>12, <2>3, <2>4
<1>14. PICK readable : readable = {n \in 0..size : \A i \in 1..n : newest[i] # Garbled}
  OBVIOUS
<1>15. PICK top : top = CHOOSE n \in readable : \A m \in readable : m <= n
  OBVIOUS
<1>16. top \in readable
  <2>1. \E n \in readable : \A m \in readable : m <= n
    <3>1. PICK T : T = {size - n : n \in readable}
      OBVIOUS
    <3>2. 0 \in readable /\ readable \subseteq 0..size
      BY <1>14
    <3>3. T \subseteq Nat /\ size - 0 \in T
      BY <3>1, <3>2
    <3>4. PICK least \in T : \A k \in T : least <= k
      BY <3>3, LeastOf
    <3>5. PICK n \in readable : least = size - n
      BY <3>1, <3>4
    <3>6. ASSUME NEW m \in readable PROVE m <= n
      <4>1. size - m \in T
        BY <3>1
      <4>2. size - n <= size - m
        BY <3>4, <3>5, <4>1
      <4>. QED  BY <3>2, <4>2
    <3>. QED  BY <3>6
  <2>. QED  BY <1>15, <2>1
<1>17. top \in 0..size /\ \A i \in 1..top : newest[i] # Garbled
  BY <1>14, <1>16
<1>18. PICK shown : shown = ReadRecent(f, limit)
  OBVIOUS
<1>19. shown = SubSeq(newest, 1, top)
  BY <1>1, <1>5, <1>11, <1>13, <1>14, <1>15, <1>18 DEF ReadRecent
<1>20. \A i \in 1..top : newest[i] \in S
  <2>1. \A i \in 1..top : i \in 1..Len(newest)
    BY <1>13, <1>17
  <2>. QED  BY <1>13, <2>1, ElementOfSeq
<1>21. /\ shown \in Seq(S) /\ Len(shown) = top
       /\ \A i \in 1..top : shown[i] = newest[i]
  <2>1. top \in Int /\ 1 \in Int
    BY <1>17
  <2>2. /\ shown \in Seq(S)
        /\ Len(shown) = IF 1 <= top THEN top - 1 + 1 ELSE 0
        /\ \A i \in 1..(top - 1 + 1) : shown[i] = newest[1 + i - 1]
    BY <1>19, <1>20, <2>1, SubSeqProperties
  <2>3. top - 1 + 1 = top /\ \A i \in 1..top : 1 + i - 1 = i
    BY <1>17
  <2>. QED  BY <1>17, <2>2, <2>3
<1>22. DOMAIN shown = 1..top
  BY <1>21, LenProperties
<1>23. \A i \in 1..top : i \in 1..size
  BY <1>17
<1>. QED  BY <1>1, <1>9, <1>13, <1>17, <1>18, <1>21, <1>22, <1>23 DEF ShowsNewest

(* What is shown of a file that keeps the order has no holes.              *)
LEMMA NewestHaveNoHoles ==
    ASSUME NEW lines, NEW log, NEW shown, Len(lines) \in Nat, Len(log) \in Nat,
           DOMAIN log = 1..Len(log),
           Ordered(lines, log), ShowsNewest(shown, lines)
    PROVE  /\ \A j, k \in DOMAIN shown, m, n \in DOMAIN log :
                 j < k /\ shown[j] = log[m] /\ shown[k] = log[n] => n < m
           /\ \A a, b, c \in DOMAIN log :
                 a < b /\ b < c /\ {log[a], log[c]} \subseteq ToSet(shown) =>
                     log[b] \in ToSet(shown)
<1> DEFINE L == Len(lines)
           N == Len(log)
           Z == Len(shown)
           Place(i) == L - i + 1
<1>1. /\ Z \in 0..L /\ DOMAIN shown = 1..Z /\ L \in Nat /\ N \in Nat /\ DOMAIN log = 1..N
      /\ \A i \in 1..Z : shown[i] = lines[L - i + 1] /\ shown[i] # Garbled
  BY DEF ShowsNewest
<1>2. /\ \A m, n \in 1..N, j, k \in 1..L :
           lines[j] = log[m] /\ lines[k] = log[n] /\ j < k => m < n
      /\ \A a, b, c \in 1..N, j, k \in 1..L :
           a < b /\ b < c /\ lines[j] = log[a] /\ lines[k] = log[c] =>
              \E i \in 1..L : j < i /\ i < k /\ lines[i] \in {log[b], Garbled}
  BY DEF Ordered
<1> HIDE DEF L, N, Z
<1>3. ASSUME NEW j \in 1..Z, NEW k \in 1..Z, NEW m \in 1..N, NEW n \in 1..N,
             j < k, shown[j] = log[m], shown[k] = log[n]
      PROVE  n < m
  <2>1. L - k + 1 \in 1..L /\ L - j + 1 \in 1..L /\ L - k + 1 < L - j + 1
    BY <1>1, <1>3
  <2>2. lines[L - k + 1] = log[n] /\ lines[L - j + 1] = log[m]
    BY <1>1, <1>3
  <2>. QED  BY <1>2, <2>1, <2>2
<1>4. ASSUME NEW a \in 1..N, NEW b \in 1..N, NEW c \in 1..N, a < b, b < c,
             NEW j \in 1..Z, NEW k \in 1..Z, shown[j] = log[a], shown[k] = log[c]
      PROVE  \E i \in 1..Z : shown[i] = log[b]
  <2>1. L - k + 1 \in 1..L /\ L - j + 1 \in 1..L
    BY <1>1
  <2>2. lines[L - k + 1] = log[c] /\ lines[L - j + 1] = log[a]
    BY <1>1, <1>4
  <2>3. PICK h \in 1..L : L - j + 1 < h /\ h < L - k + 1 /\ lines[h] \in {log[b], Garbled}
    BY <1>2, <1>4, <2>1, <2>2
  <2>4. PICK i : i = L - h + 1
    OBVIOUS
  <2>5. i \in 1..Z /\ L - i + 1 = h
    BY <1>1, <2>3, <2>4
  <2>. QED  BY <1>1, <2>3, <2>5
<1>5. \A x : x \in ToSet(shown) <=> \E i \in 1..Z : x = shown[i]
  BY <1>1 DEF ToSet
<1>6. ASSUME NEW a \in 1..N, NEW b \in 1..N, NEW c \in 1..N, a < b, b < c,
             log[a] \in ToSet(shown), log[c] \in ToSet(shown)
      PROVE  log[b] \in ToSet(shown)
  <2>1. PICK j \in 1..Z : shown[j] = log[a]
    BY <1>5, <1>6
  <2>2. PICK k \in 1..Z : shown[k] = log[c]
    BY <1>5, <1>6
  <2>3. PICK i \in 1..Z : shown[i] = log[b]
    BY <1>4, <1>6, <2>1, <2>2
  <2>. QED  BY <1>5, <2>3
<1>. QED  BY <1>1, <1>3, <1>6

(* No limit, zero and negative ones included, shows a piece of the history *)
(* with a hole or out of order (audit/logger.py read_recent).              *)
THEOREM NoLimitShowsHoles == Spec => [](\A limit \in Int : ShowsNoHoles(limit))
<1>1. ASSUME IInv, FileInv, NEW limit \in Int PROVE ShowsNoHoles(limit)
  <2>1. PICK shown, lines, S : shown = ReadRecent(file, limit) /\ lines = file.lines
                               /\ S = Events \cup {Garbled}
    OBVIOUS
  <2>2. lines \in Seq(S) /\ logged \in Seq(Events)
    BY <1>1, <2>1 DEF IInv, Typed, Files
  <2>3. ShowsNewest(shown, lines)
    BY <2>1, <2>2, ReadRecentFacts
  <2>4. Len(lines) \in Nat /\ Len(logged) \in Nat /\ DOMAIN logged = 1..Len(logged)
    BY <2>2, LenProperties
  <2>5. Ordered(lines, logged)
    BY <1>1, <2>1 DEF FileInv
  <2>6. /\ \A j, k \in DOMAIN shown, m, n \in DOMAIN logged :
              j < k /\ shown[j] = logged[m] /\ shown[k] = logged[n] => n < m
        /\ \A a, b, c \in DOMAIN logged :
              a < b /\ b < c /\ {logged[a], logged[c]} \subseteq ToSet(shown) =>
                  logged[b] \in ToSet(shown)
    BY <2>3, <2>4, <2>5, NewestHaveNoHoles
  <2>. QED  BY <2>1, <2>6 DEF ShowsNoHoles
<1>2. IInv /\ FileInv => \A limit \in Int : ShowsNoHoles(limit)
  BY <1>1
<1>. QED  BY <1>2, Inductive, SpecFileInv, PTL

(* RecentHasNoHoles, for the limits that the runs try.                     *)
THEOREM RecentPieceIsUnbroken == Spec => []RecentHasNoHoles
<1>1. (\A limit \in Int : ShowsNoHoles(limit)) => RecentHasNoHoles
  <2>1. \A limit \in 0..MaxCalls : limit \in Int
    BY ToolAssumption
  <2>. QED  BY <2>1 DEF RecentHasNoHoles
<1>. QED  BY <1>1, NoLimitShowsHoles, PTL

=============================================================================
