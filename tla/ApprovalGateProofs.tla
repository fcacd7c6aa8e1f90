------------------------- MODULE ApprovalGateProofs -------------------------
(***************************************************************************)
(* The approval gate, for any sets of drafts and reviewers.                *)
(***************************************************************************)
EXTENDS ApprovalGate, TLAPS

(* A decision in the record was made by a reviewer who was told so; a      *)
(* coroutine has an answer exactly when its future is done with.           *)
DecisionIsBacked(d) ==
    record[d].decision # "NONE" =>
        /\ record[d].reviewer \in Reviewers
        /\ record[d].decision \in answered[d]

AnsweredWhenDone(d) ==
    /\ returned[d] # "none" <=> future[d] \in {"consumed", "cancelled"}
    /\ returned[d] \in Decisions => record[d].decision = returned[d]

IInv == /\ TypeOK
        /\ EntryMatchesFuture
        /\ \A d \in Drafts : DecisionIsBacked(d) /\ AnsweredWhenDone(d)
        /\ \A d \in Drafts : future[d] = "none" => record[d].decision = "NONE"

GateStep == \/ \E d \in Drafts, e \in BOOLEAN : WaitForDecision(d, e)
            \/ \E d \in Drafts, r \in Reviewers, v \in Decisions : Decide(d, r, v)
            \/ \E d \in Drafts : Resume(d)
            \/ CancelAll

LEMMA InitIInv == Init => IInv
  BY DEF Init, IInv, TypeOK, EntryMatchesFuture, DecisionIsBacked, AnsweredWhenDone,
         NewRecord, Decisions

(* Every operation of the gate, whoever calls it, keeps the invariant.     *)
LEMMA StepIInv == ASSUME IInv, GateStep PROVE IInv'
<1>1. CASE \E d \in Drafts, e \in BOOLEAN : WaitForDecision(d, e)
  <2>1. PICK d \in Drafts, e \in BOOLEAN : WaitForDecision(d, e)
    BY <1>1
  <2>2. TypeOK'
    BY <2>1 DEF WaitForDecision, IInv, TypeOK, NewRecord
  <2>3. EntryMatchesFuture'
    BY <2>1 DEF WaitForDecision, IInv, TypeOK, NewRecord, EntryMatchesFuture
  <2>4. ASSUME NEW x \in Drafts
        PROVE  /\ DecisionIsBacked(x)' /\ AnsweredWhenDone(x)'
               /\ future'[x] = "none" => record'[x].decision = "NONE"
    BY <2>1 DEF WaitForDecision, IInv, TypeOK, NewRecord, Decisions,
                DecisionIsBacked, AnsweredWhenDone
  <2>. QED  BY <2>2, <2>3, <2>4 DEF IInv
<1>2. CASE \E d \in Drafts, r \in Reviewers, v \in Decisions : Decide(d, r, v)
  <2>1. PICK d \in Drafts, r \in Reviewers, v \in Decisions : Decide(d, r, v)
    BY <1>2
  <2>2. TypeOK'
    <3>1. record' = [record EXCEPT ![d] = [@ EXCEPT !.decision = v, !.reviewer = r]]
      BY <2>1 DEF Decide, IInv, TypeOK
    <3>2. [record[d] EXCEPT !.decision = v, !.reviewer = r]
             \in [decision : Decisions \cup {"NONE"}, reviewer : Reviewers \cup {NoReviewer},
                 escalated : BOOLEAN]
      BY DEF IInv, TypeOK
    <3>3. future' \in [Drafts -> {"none", "waiting", "resolved", "consumed", "cancelled"}]
      BY <2>1 DEF Decide, IInv, TypeOK
    <3>4. answered' \in [Drafts -> SUBSET Decisions]
      BY <2>1 DEF Decide, IInv, TypeOK
    <3>5. record' \in [Drafts -> [decision : Decisions \cup {"NONE"},
                                  reviewer : Reviewers \cup {NoReviewer},
                                  escalated : BOOLEAN]]
      <4>1. record \in [Drafts -> [decision : Decisions \cup {"NONE"},
                                   reviewer : Reviewers \cup {NoReviewer},
                                   escalated : BOOLEAN]]
        BY DEF IInv, TypeOK
      <4>. QED  BY <3>1, <3>2, <4>1
    <3>. QED  BY <2>1, <3>3, <3>4, <3>5 DEF Decide, IInv, TypeOK
  <2>3. EntryMatchesFuture'
    BY <2>1 DEF Decide, IInv, TypeOK, Decisions, EntryMatchesFuture
  <2>4. ASSUME NEW x \in Drafts
        PROVE  /\ DecisionIsBacked(x)' /\ AnsweredWhenDone(x)'
               /\ future'[x] = "none" => record'[x].decision = "NONE"
    BY <2>1 DEF Decide, IInv, TypeOK, Decisions, EntryMatchesFuture,
                DecisionIsBacked, AnsweredWhenDone
  <2>. QED  BY <2>2, <2>3, <2>4 DEF IInv
<1>3. CASE \E d \in Drafts : Resume(d)
  <2>1. PICK d \in Drafts : Resume(d)
    BY <1>3
  <2>2. record[d].decision \in Decisions
    BY <2>1 DEF Resume, IInv, TypeOK, EntryMatchesFuture
  <2>3. TypeOK'
    BY <2>1, <2>2 DEF Resume, IInv, TypeOK
  <2>4. EntryMatchesFuture'
    BY <2>1 DEF Resume, IInv, TypeOK, EntryMatchesFuture
  <2>5. ASSUME NEW x \in Drafts
        PROVE  /\ DecisionIsBacked(x)' /\ AnsweredWhenDone(x)'
               /\ future'[x] = "none" => record'[x].decision = "NONE"
    BY <2>1, <2>2 DEF Resume, IInv, TypeOK, Decisions, DecisionIsBacked, AnsweredWhenDone
  <2>. QED  BY <2>3, <2>4, <2>5 DEF IInv
<1>4. CASE CancelAll
  <2>1. TypeOK'
    BY <1>4 DEF CancelAll, IInv, TypeOK
  <2>2. EntryMatchesFuture'
    BY <1>4 DEF CancelAll, IInv, TypeOK, EntryMatchesFuture
  <2>3. ASSUME NEW x \in Drafts
        PROVE  /\ DecisionIsBacked(x)' /\ AnsweredWhenDone(x)'
               /\ future'[x] = "none" => record'[x].decision = "NONE"
    BY <1>4 DEF CancelAll, IInv, TypeOK, Decisions, EntryMatchesFuture,
                DecisionIsBacked, AnsweredWhenDone
  <2>. QED  BY <2>1, <2>2, <2>3 DEF IInv
<1>. QED  BY <1>1, <1>2, <1>3, <1>4 DEF GateStep

LEMMA NextIsGateStep == Next => GateStep
  BY DEF Next, GateStep, Approve, Reject, Decisions

LEMMA StutterIInv == ASSUME IInv, UNCHANGED gateVars PROVE IInv'
  BY DEF IInv, gateVars, TypeOK, EntryMatchesFuture, DecisionIsBacked, AnsweredWhenDone

LEMMA BehaviourIInv == Behaviour => []IInv
<1>1. IInv /\ [Next]_gateVars => IInv'
  BY NextIsGateStep, StepIInv, StutterIInv
<1>. QED  BY InitIInv, <1>1, PTL DEF Behaviour

LEMMA SpecIInv == Spec => []IInv
  BY BehaviourIInv, PTL DEF Spec

-----------------------------------------------------------------------------
(* The gate's variables stay what their readers expect.                    *)
THEOREM GateTypeCorrect == Spec => []TypeOK
<1>1. IInv => TypeOK
  BY DEF IInv
<1>. QED  BY <1>1, SpecIInv, PTL

(* An entry exists exactly while a coroutine waits, on a future that is    *)
(* resolved exactly when the record is decided.                            *)
THEOREM GateEntryMatchesFuture == Spec => []EntryMatchesFuture
<1>1. IInv => EntryMatchesFuture
  BY DEF IInv
<1>. QED  BY <1>1, SpecIInv, PTL

(* The same for whoever uses the gate: it has to call it, nothing more.    *)
LEMMA BehaviourReturns == Behaviour => []ReturnedIsRecorded
<1>1. IInv => ReturnedIsRecorded
  BY DEF IInv, ReturnedIsRecorded, DecisionIsBacked, AnsweredWhenDone, Decisions
<1>. QED  BY <1>1, BehaviourIInv, PTL

LEMMA BehaviourFreezes == Behaviour => RecordFrozen
<1>1. IInv /\ [Next]_gateVars =>
        [\A d \in Drafts : returned[d] # "none" => record'[d] = record[d]]_gateVars
  <2> SUFFICES ASSUME IInv, GateStep, NEW d \in Drafts, returned[d] # "none"
               PROVE  record'[d] = record[d]
    BY NextIsGateStep
  <2>1. future[d] \in {"consumed", "cancelled"} /\ d \notin pending
    BY DEF IInv, AnsweredWhenDone, EntryMatchesFuture
  <2>2. CASE \E x \in Drafts, e \in BOOLEAN : WaitForDecision(x, e)
    BY <2>1, <2>2 DEF WaitForDecision, IInv, TypeOK
  <2>3. CASE \E x \in Drafts, r \in Reviewers, v \in Decisions : Decide(x, r, v)
    BY <2>1, <2>3 DEF Decide, IInv, TypeOK
  <2>4. CASE (\E x \in Drafts : Resume(x)) \/ CancelAll
    BY <2>4 DEF Resume, CancelAll
  <2>. QED  BY <2>2, <2>3, <2>4 DEF GateStep
<1>. QED  BY <1>1, BehaviourIInv, PTL DEF Behaviour, RecordFrozen

(* The decision a workflow gets is in the record, attributed to a reviewer *)
(* who was told that it was accepted.                                      *)
THEOREM GateReturnsTheRecord == Spec => []ReturnedIsRecorded
  BY BehaviourReturns, PTL DEF Spec

(* A record is frozen from the moment its workflow has its answer.         *)
THEOREM GateFreezesTheRecord == Spec => RecordFrozen
  BY BehaviourFreezes, PTL DEF Spec
=============================================================================
