--------------------- MODULE WorkflowStateMachineProofs ---------------------
(***************************************************************************)
(* What the transition table guarantees for any number of machines.        *)
(***************************************************************************)
EXTENDS WorkflowStateMachine, TLAPS

(* A topological order of the table. *)
Rank(s) ==
    CASE s = "RECEIVED" -> 0
      [] s = "INGESTED" -> 1
      [] s = "DRAFTED" -> 2
      [] s \in {"GUARDRAILS_PASSED", "GUARDRAILS_FAILED"} -> 3
      [] s = "AWAITING_APPROVAL" -> 4
      [] s \in {"APPROVED", "REJECTED"} -> 5
      [] s = "SENDING" -> 6
      [] s = "SENT" -> 7
      [] OTHER -> 8

HappyPath == {"RECEIVED", "INGESTED", "DRAFTED", "GUARDRAILS_PASSED",
              "AWAITING_APPROVAL", "APPROVED", "SENDING", "SENT", "AUDITED"}

(* The history climbs the order and ends in the present state; on the      *)
(* happy path it holds that path and nothing else, off it no SENT.         *)
Climbs(m) ==
    /\ Len(history[m]) >= 1
    /\ history[m][Len(history[m])] = state[m]
    /\ \A i, j \in 1..Len(history[m]) :
           i < j => Rank(history[m][i]) < Rank(history[m][j])

OnTrack(m) ==
    IF state[m] \in HappyPath
    THEN \A s \in Status :
            s \in Visited(m) <=> s \in HappyPath /\ Rank(s) <= Rank(state[m])
    ELSE "SENT" \notin Visited(m)

IInv == /\ TypeOK
        /\ \A m \in Machines : Climbs(m) /\ OnTrack(m)

-----------------------------------------------------------------------------
LEMMA TableClimbs ==
    ASSUME NEW from \in Status, NEW to \in Status, CanTransition(from, to)
    PROVE  Rank(from) < Rank(to)
  BY DEF Status, CanTransition, VALID_TRANSITIONS, Rank

LEMMA RankIsNat == \A s \in Status : Rank(s) \in 0..8
  BY DEF Status, Rank

(* How the table enters the happy path and where it leaves it.             *)
LEMMA TableStaysOnTrack ==
    ASSUME NEW from \in Status, NEW to \in Status, CanTransition(from, to)
    PROVE  /\ to \in HappyPath => from \in HappyPath
           /\ to \in HappyPath =>
                \A s \in HappyPath : Rank(s) <= Rank(to) <=> Rank(s) <= Rank(from) \/ s = to
           /\ to \notin HappyPath => from # "SENT" /\ from # "AUDITED"
  BY DEF Status, CanTransition, VALID_TRANSITIONS, TERMINAL_STATES, Rank, HappyPath

LEMMA VisitedGrows ==
    ASSUME TypeOK, NEW m \in Machines, NEW to \in Status,
           TransitionTo(m, to)
    PROVE  /\ history'[m] = Append(history[m], to)
           /\ Len(history'[m]) = Len(history[m]) + 1
           /\ Visited(m)' = Visited(m) \cup {to}
           /\ \A n \in Machines \ {m} :
                history'[n] = history[n] /\ state'[n] = state[n]
           /\ state'[m] = to
<1>1. history'[m] = Append(history[m], to) /\ history[m] \in Seq(Status)
  BY DEF TypeOK, TransitionTo
<1>2. \A n \in Machines \ {m} : history'[n] = history[n] /\ state'[n] = state[n]
  BY DEF TypeOK, TransitionTo
<1>3. state'[m] = to
  BY DEF TypeOK, TransitionTo
<1>4. Visited(m)' = Visited(m) \cup {to}
  BY <1>1 DEF Visited
<1>. QED  BY <1>1, <1>2, <1>3, <1>4

LEMMA InitIInv == Init => IInv
<1> SUFFICES ASSUME Init PROVE IInv
  OBVIOUS
<1>1. TypeOK
  BY DEF Init, TypeOK, Status
<1>2. ASSUME NEW m \in Machines PROVE Climbs(m) /\ OnTrack(m)
  <2>1. state[m] = "RECEIVED" /\ history[m] = <<"RECEIVED">> /\ Len(history[m]) = 1
    BY DEF Init
  <2>2. Climbs(m)
    BY <2>1 DEF Climbs
  <2>3. Visited(m) = {"RECEIVED"}
    BY <2>1 DEF Visited
  <2>4. OnTrack(m)
    BY <2>1, <2>3 DEF OnTrack, HappyPath, Status, Rank
  <2>. QED  BY <2>2, <2>4
<1>. QED  BY <1>1, <1>2 DEF IInv

LEMMA NextIInv == IInv /\ [Next]_vars => IInv'
<1> SUFFICES ASSUME IInv, [Next]_vars PROVE IInv'
  OBVIOUS
<1>1. CASE UNCHANGED vars
  BY <1>1 DEF IInv, vars, TypeOK, Climbs, OnTrack, Visited
<1>2. CASE Next
  <2>1. PICK m \in Machines, to \in Status : TransitionTo(m, to)
    BY <1>2 DEF Next
  <2>2. TypeOK'
    BY <2>1 DEF IInv, TypeOK, TransitionTo
  <2>3. CanTransition(state[m], to) /\ state[m] \in Status
    BY <2>1 DEF IInv, TypeOK, TransitionTo
  <2>4. Climbs(m)'
    <3>1. /\ history'[m] = Append(history[m], to)
          /\ history[m] \in Seq(Status)
          /\ state'[m] = to
      BY <2>1, VisitedGrows DEF IInv, TypeOK
    <3>2. \A i \in 1..Len(history[m]) : Rank(history[m][i]) < Rank(to)
      <4> SUFFICES ASSUME NEW i \in 1..Len(history[m])
                   PROVE  Rank(history[m][i]) < Rank(to)
        OBVIOUS
      <4>1. Rank(state[m]) < Rank(to)
        BY <2>3, TableClimbs
      <4>2. history[m][i] \in Status
        BY <3>1
      <4>3. i = Len(history[m]) \/ Rank(history[m][i]) < Rank(state[m])
        BY DEF IInv, Climbs
      <4>4. i = Len(history[m]) => history[m][i] = state[m]
        BY DEF IInv, Climbs
      <4>. QED  BY <4>1, <4>2, <4>3, <4>4, <2>3, RankIsNat
    <3>. QED  BY <3>1, <3>2 DEF IInv, Climbs
  <2>5. OnTrack(m)'
    <3>1. Visited(m)' = Visited(m) \cup {to} /\ state'[m] = to
      BY <2>1, VisitedGrows DEF IInv
    <3>2. CASE to \in HappyPath
      <4>1. state[m] \in HappyPath
        BY <2>3, <3>2, TableStaysOnTrack
      <4>2. \A s \in HappyPath : Rank(s) <= Rank(to) <=> Rank(s) <= Rank(state[m]) \/ s = to
        BY <2>3, <3>2, TableStaysOnTrack
      <4>. QED  BY <3>1, <3>2, <4>1, <4>2 DEF IInv, OnTrack
    <3>3. CASE to \notin HappyPath
      <4>1. to # "SENT"
        BY <3>3 DEF HappyPath
      <4>2. "SENT" \notin Visited(m)
        <5>1. CASE state[m] \in HappyPath
          <6>1. state[m] # "SENT" /\ state[m] # "AUDITED"
            BY <2>3, <3>3, TableStaysOnTrack
          <6>2. ~(Rank("SENT") <= Rank(state[m]))
            BY <5>1, <6>1 DEF HappyPath, Rank
          <6>. QED  BY <5>1, <6>2 DEF IInv, OnTrack, Status
        <5>2. CASE state[m] \notin HappyPath
          BY <5>2 DEF IInv, OnTrack
        <5>. QED  BY <5>1, <5>2
      <4>. QED  BY <3>1, <3>3, <4>1, <4>2 DEF OnTrack
    <3>. QED  BY <3>2, <3>3
  <2>6. ASSUME NEW n \in Machines \ {m} PROVE Climbs(n)' /\ OnTrack(n)'
    <3>1. history'[n] = history[n] /\ state'[n] = state[n]
      BY <2>1, VisitedGrows DEF IInv
    <3>. QED  BY <3>1 DEF IInv, Climbs, OnTrack, Visited
  <2>. QED  BY <2>2, <2>4, <2>5, <2>6 DEF IInv
<1>. QED  BY <1>1, <1>2

LEMMA SpecIInv == Spec => []IInv
  BY InitIInv, NextIInv, PTL DEF Spec

-----------------------------------------------------------------------------
(* A machine is always in a status of the enumeration, and so is all of    *)
(* its history (state_machine.py:65).                                      *)
THEOREM MachineTypeCorrect == Spec => []TypeOK
<1>1. IInv => TypeOK
  BY DEF IInv
<1>. QED  BY <1>1, SpecIInv, PTL

(* The table strands no workflow: whatever was called so far, a status     *)
(* that is not terminal has a legal successor.                             *)
THEOREM NoMachineIsStranded == Spec => []NoDeadEnd
<1>1. ASSUME TypeOK PROVE NoDeadEnd
  <2> SUFFICES ASSUME NEW s \in Status, s \notin TERMINAL_STATES
               PROVE  \E to \in Status : CanTransition(s, to)
    BY <1>1 DEF TypeOK, NoDeadEnd
  <2> DEFINE next == CASE s = "RECEIVED" -> "INGESTED"
                       [] s = "INGESTED" -> "DRAFTED"
                       [] s = "DRAFTED" -> "GUARDRAILS_PASSED"
                       [] s = "GUARDRAILS_PASSED" -> "AWAITING_APPROVAL"
                       [] s = "AWAITING_APPROVAL" -> "APPROVED"
                       [] s = "APPROVED" -> "SENDING"
                       [] s = "REJECTED" -> "TERMINATED"
                       [] s = "SENDING" -> "SENT"
                       [] OTHER -> "AUDITED"
  <2>1. next \in Status /\ CanTransition(s, next)
    BY DEF Status, TERMINAL_STATES, CanTransition, VALID_TRANSITIONS
  <2>. QED  BY <2>1
<1>. QED  BY <1>1, MachineTypeCorrect, PTL

(* For any number of machines, no sequence of transition() calls reaches   *)
(* SENT around the guardrails, the human and the approval.                 *)
THEOREM SentNeedsEveryGate == Spec => []SentPassedEveryGate
<1>1. IInv => SentPassedEveryGate
  <2> SUFFICES ASSUME IInv, NEW m \in Machines, "SENT" \in Visited(m)
               PROVE  /\ {"GUARDRAILS_PASSED", "AWAITING_APPROVAL", "APPROVED",
                          "SENDING"} \subseteq Visited(m)
                      /\ Visited(m) \cap {"GUARDRAILS_FAILED", "REJECTED"} = {}
    BY DEF SentPassedEveryGate
  <2>1. state[m] \in HappyPath
    BY DEF IInv, OnTrack
  <2>2. \A s \in Status :
           s \in Visited(m) <=> s \in HappyPath /\ Rank(s) <= Rank(state[m])
    BY <2>1 DEF IInv, OnTrack
  <2>3. Rank("SENT") <= Rank(state[m])
    BY <2>2 DEF Status
  <2>. QED  BY <2>1, <2>2, <2>3 DEF Status, HappyPath, Rank
<1>. QED  BY <1>1, SpecIInv, PTL

(* No status is ever entered twice: drafted, approved and sent once.       *)
THEOREM NoStatusTwice == Spec => []NeverRevisited
<1>1. IInv => NeverRevisited
  <2> SUFFICES ASSUME IInv, NEW m \in Machines,
                      NEW i \in 1..Len(history[m]), NEW j \in 1..Len(history[m]),
                      history[m][i] = history[m][j]
               PROVE  i = j
    BY DEF NeverRevisited
  <2>1. history[m] \in Seq(Status)
    BY DEF IInv, TypeOK
  <2>2. Rank(history[m][i]) \in Nat
    BY <2>1, RankIsNat
  <2>3. ~(i < j) /\ ~(j < i)
    BY <2>2 DEF IInv, Climbs
  <2>. QED  BY <2>3
<1>. QED  BY <1>1, SpecIInv, PTL
=============================================================================
