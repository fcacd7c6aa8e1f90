--------------------------- MODULE QueueViewProofs ---------------------------
(***************************************************************************)
(* The approval queue on the screen, for any number of drafts and of       *)
(* clicks that are not handled yet, and for both kinds of Tk.              *)
(***************************************************************************)
EXTENDS QueueView, SequenceTheorems, TLAPS

(* What is proved of the gate alone. *)
G == INSTANCE ApprovalGateProofs WITH Reviewers <- {Reviewer}

Presses == [button : Gate!Decisions, seen : Drafts]

(* The gate below: an entry is a run that waits, and what a run is given   *)
(* is the decision in its record.                                          *)
GateAt(d) ==
    /\ d \in pending <=> future[d] \in {"waiting", "resolved"}
    /\ future[d] = "resolved" => record[d].decision \in Gate!Decisions

(* A draft in the list waits, or has been decided and gone on.             *)
Listed(d) == d \in pending \/ returned[d] \in Gate!Decisions

(* Buttons that can be clicked belong to the draft beside the list, and    *)
(* nothing else is selected, unless a redraw is due.                       *)
PaneFollows ==
    buttons => /\ pane \in Drafts
               /\ select_event \/ selection \in {pane, NoDraft}

(* Until a click is handled, what its reviewer saw stays selected or       *)
(* nothing is.                                                             *)
ClickStands == \A i \in 1..Len(presses) : selection \in {presses[i].seen, NoDraft}

IInv == /\ TypeOK
        /\ \A d \in Drafts : GateAt(d)
        /\ \A d \in tree : Listed(d)
        /\ PaneFollows
        /\ ClickStands
        /\ ClicksAreHonoured

-----------------------------------------------------------------------------
LEMMA InitIInv == Init => IInv
<1> SUFFICES ASSUME Init PROVE IInv
  OBVIOUS
<1>1. /\ pending = {} /\ future = [d \in Drafts |-> "none"]
      /\ record = [d \in Drafts |-> Gate!NewRecord]
      /\ answered = [d \in Drafts |-> {}] /\ returned = [d \in Drafts |-> "none"]
      /\ underway = NoDraft /\ may_decide \in BOOLEAN /\ announces \in BOOLEAN
      /\ tree = {} /\ selection = NoDraft /\ select_event = FALSE /\ pane = NoDraft
      /\ buttons = FALSE /\ presses = <<>> /\ dialog = FALSE /\ decided = {}
  BY DEF Init, Gate!Init
<1>2. Gate!TypeOK
  BY <1>1 DEF Gate!TypeOK, Gate!NewRecord, Gate!Decisions
<1>3. presses \in Seq(Presses) /\ Len(presses) = 0
  BY <1>1, EmptySeq
<1>4. TypeOK
  <2>1. {may_decide, announces, select_event, buttons, dialog} \subseteq BOOLEAN
    BY <1>1
  <2>2. Len(presses) <= MaxPresses
    BY <1>3, QueueAssumption
  <2>. QED  BY <1>1, <1>2, <1>3, <2>1, <2>2 DEF TypeOK, DraftOrNone, Presses
<1>5. \A d \in Drafts : GateAt(d)
  BY <1>1 DEF GateAt
<1>6. PaneFollows
  BY <1>1 DEF PaneFollows
<1>7. ClickStands
  BY <1>3 DEF ClickStands
<1>8. ClicksAreHonoured
  BY <1>1 DEF ClicksAreHonoured, SeenIsDecided, NotPendingIsTrue
<1>. QED  BY <1>1, <1>4, <1>5, <1>6, <1>7, <1>8 DEF IInv

(* The steps of the gate that the view sees.                               *)
GateMoves ==
    \/ \E d \in Drafts, e \in BOOLEAN : Gate!WaitForDecision(d, e)
    \/ \E d \in Drafts, v \in Gate!Decisions : Gate!Decide(d, Reviewer, v)
    \/ \E d \in Drafts : Gate!Resume(d)
    \/ UNCHANGED gateVars

LEMMA GateKeeps ==
    ASSUME Gate!TypeOK, \A d \in Drafts : GateAt(d), GateMoves
    PROVE  /\ Gate!TypeOK'
           /\ \A d \in Drafts : GateAt(d)'
           /\ \A d \in Drafts : Listed(d) => Listed(d)'
           /\ \A d \in Drafts : returned[d] \in Gate!Decisions => returned'[d] \in Gate!Decisions
<1>1. CASE \E d \in Drafts, e \in BOOLEAN : Gate!WaitForDecision(d, e)
  <2>1. PICK d \in Drafts, e \in BOOLEAN : Gate!WaitForDecision(d, e)
    BY <1>1
  <2>2. Gate!TypeOK'
    BY <2>1 DEF Gate!TypeOK, Gate!WaitForDecision, Gate!NewRecord
  <2>3. ASSUME NEW x \in Drafts
        PROVE  GateAt(x)' /\ (Listed(x) => Listed(x)') /\ returned'[x] = returned[x]
    BY <2>1 DEF Gate!TypeOK, Gate!WaitForDecision, GateAt, Listed
  <2>. QED  BY <2>2, <2>3
<1>2. CASE \E d \in Drafts, v \in Gate!Decisions : Gate!Decide(d, Reviewer, v)
  <2>1. PICK d \in Drafts, v \in Gate!Decisions : Gate!Decide(d, Reviewer, v)
    BY <1>2
  <2>2. Gate!TypeOK'
    <3>1. record' = [record EXCEPT ![d] = [@ EXCEPT !.decision = v, !.reviewer = Reviewer]]
      BY <2>1 DEF Gate!Decide, Gate!TypeOK
    <3>2. [record[d] EXCEPT !.decision = v, !.reviewer = Reviewer]
             \in [decision : Gate!Decisions \cup {"NONE"},
                 reviewer : {Reviewer} \cup {NoReviewer}, escalated : BOOLEAN]
      BY DEF Gate!TypeOK
    <3>3. future' \in [Drafts -> {"none", "waiting", "resolved", "consumed", "cancelled"}]
      BY <2>1 DEF Gate!Decide, Gate!TypeOK
    <3>4. answered' \in [Drafts -> SUBSET Gate!Decisions]
      BY <2>1 DEF Gate!Decide, Gate!TypeOK
    <3>5. record' \in [Drafts -> [decision : Gate!Decisions \cup {"NONE"},
                                  reviewer : {Reviewer} \cup {NoReviewer},
                                  escalated : BOOLEAN]]
      BY <3>1, <3>2 DEF Gate!TypeOK
    <3>. QED  BY <2>1, <3>3, <3>4, <3>5 DEF Gate!Decide, Gate!TypeOK
  <2>3. ASSUME NEW x \in Drafts
        PROVE  GateAt(x)' /\ (Listed(x) => Listed(x)') /\ returned'[x] = returned[x]
    BY <2>1 DEF Gate!TypeOK, Gate!Decide, GateAt, Listed
  <2>. QED  BY <2>2, <2>3
<1>3. CASE \E d \in Drafts : Gate!Resume(d)
  <2>1. PICK d \in Drafts : Gate!Resume(d)
    BY <1>3
  <2>2. record[d].decision \in Gate!Decisions
    BY <2>1 DEF Gate!Resume, GateAt
  <2>3. Gate!TypeOK'
    BY <2>1, <2>2 DEF Gate!TypeOK, Gate!Resume
  <2>4. ASSUME NEW x \in Drafts
        PROVE  /\ GateAt(x)' /\ (Listed(x) => Listed(x)')
               /\ returned[x] \in Gate!Decisions => returned'[x] \in Gate!Decisions
    BY <2>1, <2>2 DEF Gate!TypeOK, Gate!Resume, GateAt, Listed
  <2>. QED  BY <2>3, <2>4
<1>4. CASE UNCHANGED gateVars
  BY <1>4 DEF gateVars, Gate!TypeOK, GateAt, Listed
<1>. QED  BY <1>1, <1>2, <1>3, <1>4 DEF GateMoves

(* What refresh() does: rows that are gone take the selection with them,   *)
(* and a pane it does not clear stays.                                     *)
LEMMA RefreshFacts ==
    ASSUME TypeOK, Refresh(pending)
    PROVE  /\ tree' = pending /\ tree' \subseteq Drafts
           /\ selection' \in tree' \cup {NoDraft} /\ selection' \in {selection, NoDraft}
           /\ select_event' \in BOOLEAN /\ (select_event => select_event')
           /\ pane' \in DraftOrNone /\ buttons' \in BOOLEAN
           /\ buttons' => buttons /\ pane' = pane
<1>1. tree' = pending /\ pending \subseteq Drafts
  BY DEF Refresh, TypeOK, Gate!TypeOK
<1>2. selection' = IF selection \in pending THEN selection ELSE NoDraft
  BY DEF Refresh
<1>3. select_event \in BOOLEAN /\ announces \in BOOLEAN /\ buttons \in BOOLEAN
  BY DEF TypeOK
<1>4. select_event' \in BOOLEAN /\ (select_event => select_event')
  <2>1. select_event' = \/ select_event
                        \/ /\ pending # tree
                           /\ selection # NoDraft
                           /\ announces \/ selection \in pending
    BY Zenon DEF Refresh
  <2>2. select_event' \in BOOLEAN
    BY Zenon, <2>1
  <2>3. select_event => select_event'
    BY Zenon, <2>1
  <2>. QED  BY <2>2, <2>3
<1>5. \/ pane' = NoDraft /\ buttons' = FALSE
      \/ pane' = pane /\ buttons' = buttons
  BY DEF Refresh, ClearDetail
<1>6. NoDraft \in DraftOrNone /\ pane \in DraftOrNone
  BY DEF DraftOrNone, TypeOK
<1>7. selection' \in tree' \cup {NoDraft} /\ selection' \in {selection, NoDraft}
  BY <1>1, <1>2
<1>8. pane' \in DraftOrNone /\ buttons' \in BOOLEAN /\ (buttons' => buttons /\ pane' = pane)
  <2>1. CASE pane' = NoDraft /\ buttons' = FALSE
    <3>1. buttons' \in BOOLEAN
      BY <2>1
    <3>2. ~buttons'
      BY <2>1
    <3>. QED  BY <2>1, <3>1, <3>2, <1>6, Zenon
  <2>2. CASE pane' = pane /\ buttons' = buttons
    <3>1. buttons' => buttons
      BY Zenon, <2>2
    <3>2. buttons' \in BOOLEAN
      BY <2>2, <1>3
    <3>. QED  BY <2>2, <3>1, <3>2, <1>6, Zenon
  <2>. QED  BY <1>5, <2>1, <2>2, Zenon
<1>. QED  BY Zenon, <1>1, <1>4, <1>7, <1>8

LEMMA TailFacts ==
    ASSUME presses \in Seq(Presses), presses # <<>>, Len(presses) <= MaxPresses
    PROVE  /\ Tail(presses) \in Seq(Presses) /\ Len(Tail(presses)) <= MaxPresses
           /\ Head(presses) = presses[1] /\ 1 \in 1..Len(presses) /\ presses[1] \in Presses
           /\ \A i \in 1..Len(Tail(presses)) :
                 i + 1 \in 1..Len(presses) /\ Tail(presses)[i] = presses[i + 1]
<1>1. /\ Head(presses) \in Presses /\ Tail(presses) \in Seq(Presses)
      /\ Len(Tail(presses)) = Len(presses) - 1
      /\ \A i \in 1..Len(Tail(presses)) : Tail(presses)[i] = presses[i + 1]
  BY HeadTailProperties
<1>2. Len(presses) \in Nat /\ Len(presses) # 0
  BY EmptySeq, LenProperties
<1>3. Head(presses) = presses[1]
  OBVIOUS
<1>4. MaxPresses \in Nat
  BY QueueAssumption
<1>. QED  BY <1>1, <1>2, <1>3, <1>4

(* The gate moves or not, the list is refreshed or not, and a click is     *)
(* handled or not.                                                         *)
LEMMA MovesKeep ==
    ASSUME IInv, GateMoves, UNCHANGED session, underway' \in DraftOrNone,
           UNCHANGED view \/ Refresh(pending),
           presses' = presses \/ (presses # <<>> /\ presses' = Tail(presses)),
           dialog' \in BOOLEAN,
           decided' \subseteq [draft : Drafts, seen : Drafts, ok : BOOLEAN],
           \A e \in decided' \ decided :
              e.draft = e.seen /\ (~e.ok => returned[e.draft] \in Gate!Decisions)
    PROVE  IInv'
<1>1. /\ TypeOK /\ Gate!TypeOK /\ (\A d \in Drafts : GateAt(d)) /\ (\A d \in tree : Listed(d))
      /\ PaneFollows /\ ClickStands /\ ClicksAreHonoured
  BY DEF IInv, TypeOK
<1>2. /\ Gate!TypeOK'
      /\ \A d \in Drafts : GateAt(d)'
      /\ \A d \in Drafts : Listed(d) => Listed(d)'
      /\ \A d \in Drafts : returned[d] \in Gate!Decisions => returned'[d] \in Gate!Decisions
  BY <1>1, GateKeeps
<1>3. /\ tree' \subseteq Drafts /\ (tree' = tree \/ tree' = pending)
      /\ selection' \in tree' \cup {NoDraft} /\ selection' \in {selection, NoDraft}
      /\ select_event' \in BOOLEAN /\ (select_event => select_event')
      /\ pane' \in DraftOrNone /\ buttons' \in BOOLEAN
      /\ buttons' => buttons /\ pane' = pane
  <2>1. CASE UNCHANGED view
    BY <1>1, <2>1 DEF view, TypeOK
  <2>2. CASE Refresh(pending)
    BY <1>1, <2>2, RefreshFacts
  <2>. QED  BY <2>1, <2>2
<1>4. presses \in Seq(Presses) /\ Len(presses) <= MaxPresses
  BY <1>1 DEF TypeOK, Presses
<1>5. /\ presses' \in Seq(Presses) /\ Len(presses') <= MaxPresses
      /\ \A i \in 1..Len(presses') : \E j \in 1..Len(presses) : presses'[i] = presses[j]
  <2>1. CASE presses' = presses
    BY <1>4, <2>1
  <2>2. CASE presses # <<>> /\ presses' = Tail(presses)
    BY <1>4, <2>2, TailFacts
  <2>. QED  BY <2>1, <2>2
<1>6. TypeOK'
  <2>1. may_decide' \in BOOLEAN /\ announces' \in BOOLEAN
    BY <1>1 DEF session, TypeOK
  <2>2. {may_decide', announces', select_event', buttons', dialog'} \subseteq BOOLEAN
    BY <1>3, <2>1
  <2>. QED  BY <1>2, <1>3, <1>5, <2>2 DEF TypeOK, Presses, DraftOrNone
<1>7. \A d \in tree' : Listed(d)'
  <2>1. \A d \in pending : Listed(d)
    BY DEF Listed
  <2>2. tree \subseteq Drafts /\ pending \subseteq Drafts
    BY <1>1 DEF TypeOK, Gate!TypeOK
  <2>. QED  BY <1>1, <1>2, <1>3, <2>1, <2>2
<1>8. PaneFollows'
  BY <1>1, <1>3 DEF PaneFollows
<1>9. ClickStands'
  BY <1>1, <1>3, <1>5 DEF ClickStands
<1>10. ClicksAreHonoured'
  <2>1. ASSUME NEW e \in decided'
        PROVE  e.draft = e.seen /\ (~e.ok => returned[e.draft] \in Gate!Decisions)
    <3>1. CASE e \in decided
      BY <1>1, <3>1 DEF ClicksAreHonoured, SeenIsDecided, NotPendingIsTrue
    <3>2. CASE e \notin decided
      BY <3>2
    <3>. QED  BY <3>1, <3>2
  <2>2. \A e \in decided' : e.draft \in Drafts
    OBVIOUS
  <2>3. \A e \in decided' : ~e.ok => returned'[e.draft] \in Gate!Decisions
    BY <1>2, <2>1, <2>2
  <2>. QED  BY <2>1, <2>3 DEF ClicksAreHonoured, SeenIsDecided, NotPendingIsTrue
<1>. QED  BY <1>2, <1>6, <1>7, <1>8, <1>9, <1>10 DEF IInv

(* The gate stays as it is.                                                *)
LEMMA GateStays ==
    ASSUME IInv, UNCHANGED gateVars
    PROVE  /\ Gate!TypeOK' /\ (\A d \in Drafts : GateAt(d)') /\ (\A d \in Drafts : Listed(d) => Listed(d)')
           /\ decided' = decided => ClicksAreHonoured'
<1>1. Gate!TypeOK /\ (\A d \in Drafts : GateAt(d)) /\ ClicksAreHonoured
  BY DEF IInv, TypeOK
<1>2. decided' = decided => ClicksAreHonoured'
  BY <1>1 DEF gateVars, ClicksAreHonoured, SeenIsDecided, NotPendingIsTrue
<1>. QED  BY <1>1, <1>2, GateKeeps DEF GateMoves

LEMMA ClickRowKeeps == ASSUME IInv, NEW d \in Drafts, ClickRow(d) PROVE IInv'
<1>1. /\ presses = <<>> /\ d \in tree /\ selection' = d /\ select_event' = TRUE
      /\ UNCHANGED gateVars
      /\ UNCHANGED <<underway, may_decide, announces, tree, pane, buttons, presses, dialog,
                     decided>>
      /\ TypeOK /\ (\A x \in tree : Listed(x)) /\ PaneFollows
  BY DEF ClickRow, session, clicks, IInv
<1>2. /\ Gate!TypeOK' /\ (\A x \in Drafts : GateAt(x)') /\ (\A x \in Drafts : Listed(x) => Listed(x)')
      /\ ClicksAreHonoured'
  BY <1>1, GateStays
<1>3. TypeOK'
  <2>1. {may_decide', announces', select_event', buttons', dialog'} \subseteq BOOLEAN
    BY <1>1 DEF TypeOK
  <2>. QED  BY <1>1, <1>2, <2>1 DEF TypeOK
<1>4. \A x \in tree' : Listed(x)'
  BY <1>1, <1>2 DEF TypeOK
<1>5. PaneFollows'
  BY <1>1 DEF PaneFollows
<1>6. ClickStands'
  BY <1>1, EmptySeq DEF ClickStands
<1>. QED  BY <1>2, <1>3, <1>4, <1>5, <1>6 DEF IInv

LEMMA ShowSelectedKeeps == ASSUME IInv, ShowSelected PROVE IInv'
<1>1. /\ select_event' = FALSE
      /\ \/ selection \in tree /\ pane' = selection /\ buttons' = may_decide
         \/ pane' = NoDraft /\ buttons' = FALSE
      /\ UNCHANGED gateVars
      /\ UNCHANGED <<underway, may_decide, announces, tree, selection, presses, dialog, decided>>
      /\ TypeOK /\ (\A x \in tree : Listed(x)) /\ ClickStands
  BY DEF ShowSelected, ClearDetail, session, clicks, IInv
<1>2. /\ Gate!TypeOK' /\ (\A x \in Drafts : GateAt(x)') /\ (\A x \in Drafts : Listed(x) => Listed(x)')
      /\ ClicksAreHonoured'
  BY <1>1, GateStays
<1>3. may_decide \in BOOLEAN /\ tree \subseteq Drafts
  BY <1>1 DEF TypeOK
<1>4. pane' \in DraftOrNone /\ buttons' \in BOOLEAN
  BY <1>1, <1>3 DEF DraftOrNone
<1>5. TypeOK'
  <2>1. {may_decide', announces', select_event', buttons', dialog'} \subseteq BOOLEAN
    BY <1>1, <1>4 DEF TypeOK
  <2>. QED  BY <1>1, <1>2, <1>4, <2>1 DEF TypeOK
<1>6. \A x \in tree' : Listed(x)'
  BY <1>1, <1>2, <1>3
<1>7. PaneFollows'
  BY <1>1, <1>3 DEF PaneFollows
<1>8. ClickStands'
  BY <1>1 DEF ClickStands
<1>. QED  BY <1>2, <1>5, <1>6, <1>7, <1>8 DEF IInv

LEMMA PressKeeps == ASSUME IInv, NEW b \in Gate!Decisions, Press(b) PROVE IInv'
<1> DEFINE p == [button |-> b, seen |-> pane]
<1>1. /\ ~select_event /\ buttons /\ Len(presses) < MaxPresses
      /\ presses' = Append(presses, p)
      /\ UNCHANGED gateVars
      /\ UNCHANGED <<underway, may_decide, announces, tree, selection, select_event, pane,
                     buttons, dialog, decided>>
      /\ TypeOK /\ (\A x \in tree : Listed(x)) /\ ClickStands /\ PaneFollows
  BY DEF Press, session, view, IInv
<1>2. pane \in Drafts /\ selection \in {pane, NoDraft}
  BY <1>1 DEF PaneFollows
<1>3. p \in Presses /\ p.seen = pane
  BY <1>2 DEF Presses
<1> HIDE DEF p
<1>4. presses \in Seq(Presses) /\ Len(presses) \in Nat /\ MaxPresses \in Nat
  BY <1>1, LenProperties, QueueAssumption DEF TypeOK, Presses
<1>5. /\ presses' \in Seq(Presses) /\ Len(presses') = Len(presses) + 1
      /\ \A i \in 1..Len(presses) : presses'[i] = presses[i]
      /\ presses'[Len(presses) + 1] = p
  BY <1>1, <1>3, <1>4, AppendProperties
<1>6. /\ Gate!TypeOK' /\ (\A x \in Drafts : GateAt(x)') /\ (\A x \in Drafts : Listed(x) => Listed(x)')
      /\ ClicksAreHonoured'
  BY <1>1, GateStays
<1>7. TypeOK'
  <2>1. {may_decide', announces', select_event', buttons', dialog'} \subseteq BOOLEAN
    BY <1>1 DEF TypeOK
  <2>2. Len(presses') <= MaxPresses
    BY <1>1, <1>4, <1>5
  <2>. QED  BY <1>1, <1>5, <1>6, <2>1, <2>2 DEF TypeOK, Presses
<1>8. (\A x \in tree' : Listed(x)') /\ PaneFollows'
  BY <1>1, <1>6 DEF TypeOK, PaneFollows
<1>9. ClickStands'
  <2>1. ASSUME NEW i \in 1..Len(presses') PROVE selection \in {presses'[i].seen, NoDraft}
    <3>1. CASE i \in 1..Len(presses)
      BY <1>1, <1>5, <3>1 DEF ClickStands
    <3>2. CASE i = Len(presses) + 1
      BY <1>2, <1>3, <1>5, <3>2
    <3>. QED  BY <1>4, <1>5, <3>1, <3>2
  <2>. QED  BY <1>1, <2>1 DEF ClickStands
<1>. QED  BY <1>6, <1>7, <1>8, <1>9 DEF IInv

LEMMA DecideKeeps == ASSUME IInv, Decide PROVE IInv'
<1> DEFINE press == Head(presses)
           ok == selection \in pending
           e == [draft |-> selection, seen |-> press.seen, ok |-> ok]
<1>1. /\ presses # <<>> /\ selection # NoDraft
      /\ TypeOK /\ ClickStands /\ \A d \in tree : Listed(d)
  BY DEF Decide, IInv
<1>2. selection \in tree /\ tree \subseteq Drafts
  BY <1>1 DEF TypeOK
<1>3. press \in Presses /\ press.seen = selection
  <2>1. presses \in Seq(Presses) /\ Len(presses) <= MaxPresses
    BY <1>1 DEF TypeOK, Presses
  <2>2. press = presses[1] /\ 1 \in 1..Len(presses) /\ presses[1] \in Presses
    BY <1>1, <2>1, TailFacts
  <2>. QED  BY <1>1, <2>2 DEF ClickStands
<1>4. press.button \in Gate!Decisions
  BY <1>3 DEF Presses
<1>5. GateMoves
  <2>1. \/ UNCHANGED gateVars
        \/ Gate!Decide(selection, Reviewer, "APPROVED")
        \/ Gate!Decide(selection, Reviewer, "REJECTED")
    BY DEF Decide, Gate!Approve, Gate!Reject
  <2>2. "APPROVED" \in Gate!Decisions /\ "REJECTED" \in Gate!Decisions
    BY DEF Gate!Decisions
  <2>. QED  BY <1>2, <2>1, <2>2 DEF GateMoves
<1>6. /\ decided' = decided \cup {e} /\ dialog' = ~ok
      /\ UNCHANGED view \/ Refresh(pending)
      /\ presses' = Tail(presses) /\ UNCHANGED session /\ underway' = underway
  BY DEF Decide
<1>7. e \in [draft : Drafts, seen : Drafts, ok : BOOLEAN] /\ e.draft = e.seen
  BY <1>2, <1>3
<1>8. ~ok => returned[selection] \in Gate!Decisions
  BY <1>1, <1>2 DEF Listed
<1>9. ~e.ok => returned[e.draft] \in Gate!Decisions
  BY <1>8
<1>10. dialog' \in BOOLEAN
  BY <1>6
<1> HIDE DEF e, ok, press
<1>11. /\ underway' \in DraftOrNone
       /\ decided' \subseteq [draft : Drafts, seen : Drafts, ok : BOOLEAN]
       /\ \A x \in decided' \ decided :
             x.draft = x.seen /\ (~x.ok => returned[x.draft] \in Gate!Decisions)
  BY <1>1, <1>6, <1>7, <1>9 DEF TypeOK
<1>. QED  BY <1>1, <1>5, <1>6, <1>10, <1>11, MovesKeep

(* The other steps change neither what was selected nor what was decided,  *)
(* but by a refresh.                                                       *)
LEMMA OthersKeep ==
    ASSUME IInv,
           \/ \E d \in Drafts : StartRun(d)
           \/ Park \/ Leave \/ RunIsDone \/ Poll \/ PressIsLost \/ CloseDialog
           \/ UNCHANGED vars
    PROVE  IInv'
<1>1. TypeOK
  BY DEF IInv
<1>2. underway # NoDraft => underway \in Drafts
  BY <1>1 DEF TypeOK, DraftOrNone
<1>3. GateMoves
  <2>1. CASE Park
    <3>1. FALSE \in BOOLEAN
      OBVIOUS
    <3>. QED  BY <1>2, <2>1, <3>1 DEF Park, GateMoves
  <2>2. CASE Leave
    BY <1>2, <2>2 DEF Leave, GateMoves
  <2>3. CASE ~Park /\ ~Leave
    BY <2>3 DEF StartRun, RunIsDone, Poll, PressIsLost, CloseDialog, vars, GateMoves
  <2>. QED  BY <2>1, <2>2, <2>3
<1>4. UNCHANGED session /\ decided' = decided
  BY DEF StartRun, Park, Leave, RunIsDone, Poll, PressIsLost, CloseDialog, vars, clicks
<1>5. underway' \in DraftOrNone
  BY <1>1 DEF StartRun, Park, Leave, RunIsDone, Poll, PressIsLost, CloseDialog, vars,
              DraftOrNone, TypeOK
<1>6. UNCHANGED view \/ Refresh(pending)
  BY DEF StartRun, Park, Leave, RunIsDone, Poll, PressIsLost, CloseDialog, vars
<1>7. presses' = presses \/ (presses # <<>> /\ presses' = Tail(presses))
  BY DEF StartRun, Park, Leave, RunIsDone, Poll, PressIsLost, CloseDialog, vars, clicks
<1>8. dialog' \in BOOLEAN
  <2>1. dialog' = dialog \/ dialog' = FALSE
    BY DEF StartRun, Park, Leave, RunIsDone, Poll, PressIsLost, CloseDialog, vars, clicks
  <2>2. dialog \in BOOLEAN
    BY <1>1 DEF TypeOK
  <2>. QED  BY <2>1, <2>2
<1>9. decided' \subseteq [draft : Drafts, seen : Drafts, ok : BOOLEAN] /\ decided' \ decided = {}
  BY <1>1, <1>4 DEF TypeOK
<1>. QED  BY <1>3, <1>4, <1>5, <1>6, <1>7, <1>8, <1>9, MovesKeep

LEMMA SpecIInv == Spec => []IInv
<1>1. ASSUME IInv, [Next]_vars PROVE IInv'
  <2>1. CASE \E d \in Drafts : ClickRow(d)
    BY <1>1, <2>1, ClickRowKeeps
  <2>2. CASE \E b \in Gate!Decisions : Press(b)
    BY <1>1, <2>2, PressKeeps
  <2>3. CASE ShowSelected
    BY <1>1, <2>3, ShowSelectedKeeps
  <2>4. CASE Decide
    BY <1>1, <2>4, DecideKeeps
  <2>5. CASE \/ \E d \in Drafts : StartRun(d)
             \/ Park \/ Leave \/ RunIsDone \/ Poll \/ PressIsLost \/ CloseDialog
             \/ UNCHANGED vars
    BY <1>1, <2>5, OthersKeep
  <2>. QED  BY <1>1, <2>1, <2>2, <2>3, <2>4, <2>5 DEF Next
<1>. QED  BY InitIInv, <1>1, PTL DEF Spec

-----------------------------------------------------------------------------
(* The selection is a row of the list or nothing, and the gate, the pane   *)
(* and the clicks keep their types (queue_view.py).                        *)
THEOREM ViewTypeCorrect == Spec => []TypeOK
<1>1. IInv => TypeOK
  BY DEF IInv
<1>. QED  BY <1>1, SpecIInv, PTL

(* ClicksAreHonoured: a click decides the draft its reviewer had before    *)
(* her or none, and "no longer in the approval queue" is shown only for a  *)
(* draft that was decided, whatever the two timers and Tk do in between    *)
(* (QueueView._decide).                                                    *)
THEOREM ClicksHonoured == Spec => []ClicksAreHonoured
<1>1. IInv => ClicksAreHonoured
  BY DEF IInv
<1>. QED  BY <1>1, SpecIInv, PTL

-----------------------------------------------------------------------------
(* The gate. *)

LEMMA GateMovesAreSteps ==
    ASSUME GateMoves
    PROVE  [Gate!Next]_gateVars
  BY DEF GateMoves, Gate!Next, Gate!Approve, Gate!Reject, Gate!Decisions

LEMMA NextMovesGate ==
    ASSUME IInv, [Next]_vars
    PROVE  GateMoves
<1>1. /\ underway # NoDraft => underway \in Drafts
      /\ selection # NoDraft => selection \in Drafts
  BY DEF IInv, TypeOK, DraftOrNone
<1>2. CASE Park
  <2>1. FALSE \in BOOLEAN
    OBVIOUS
  <2>. QED  BY <1>1, <1>2, <2>1 DEF Park, GateMoves
<1>3. CASE Leave
  BY <1>1, <1>3 DEF Leave, GateMoves
<1>4. CASE Decide
  BY <1>1, <1>4 DEF Decide, GateMoves, Gate!Approve, Gate!Reject, Gate!Decisions
<1>5. CASE ~Park /\ ~Leave /\ ~Decide
  BY <1>5 DEF Next, StartRun, ClickRow, Press, RunIsDone, Poll, ShowSelected, PressIsLost,
              CloseDialog, vars, GateMoves
<1>. QED  BY <1>2, <1>3, <1>4, <1>5

(* The screen uses the gate as it may be used, at whatever moment a timer  *)
(* or Tk's queue lets a click through (queue_view.py, gateway.py).         *)
THEOREM ViewDrivesTheGate == Spec => Gate!Behaviour
<1>1. Init => Gate!Init
  BY DEF Init
<1>2. IInv /\ [Next]_vars => [Gate!Next]_gateVars
  BY NextMovesGate, GateMovesAreSteps
<1>. QED  BY <1>1, <1>2, SpecIInv, PTL DEF Spec, Gate!Behaviour, gateVars, Gate!gateVars

(* The gate of the model and the gate of its proofs are one.               *)
LEMMA SameGate ==
    /\ G!Init <=> Gate!Init
    /\ [G!Next]_(G!gateVars) <=> [Gate!Next]_(Gate!gateVars)
    /\ G!ReturnedIsRecorded <=> Gate!ReturnedIsRecorded
<1>1. G!Init <=> Gate!Init
  BY DEF G!Init, Gate!Init, G!NewRecord, Gate!NewRecord
<1>2. G!Next <=> Gate!Next
  BY DEF G!Next, Gate!Next, G!WaitForDecision, Gate!WaitForDecision, G!NewRecord,
         Gate!NewRecord, G!Approve, Gate!Approve, G!Reject, Gate!Reject, G!Decide, Gate!Decide,
         G!Resume, Gate!Resume, G!CancelAll, Gate!CancelAll
<1>3. G!gateVars = Gate!gateVars /\ (G!gateVars)' = (Gate!gateVars)'
  BY DEF G!gateVars, Gate!gateVars
<1>4. G!ReturnedIsRecorded <=> Gate!ReturnedIsRecorded
  BY DEF G!ReturnedIsRecorded, Gate!ReturnedIsRecorded, G!Decisions, Gate!Decisions
<1>. QED  BY <1>1, <1>2, <1>3, <1>4

(* So what is proved of the gate alone holds under the screen: a run gets  *)
(* a decision that was answered True, and the record stands from then on.  *)
THEOREM ViewDecisionsStand == Spec => []Gate!ReturnedIsRecorded /\ Gate!RecordFrozen
<1>1. NoReviewer \notin {Reviewer}
  BY QueueAssumption
<1>2. G!Behaviour => []G!ReturnedIsRecorded
  BY <1>1, G!BehaviourReturns
<1>3. G!Behaviour => G!RecordFrozen
  BY <1>1, G!BehaviourFreezes
<1>4. G!Behaviour <=> Gate!Behaviour
  BY SameGate, PTL DEF G!Behaviour, Gate!Behaviour
<1>5. G!RecordFrozen <=> Gate!RecordFrozen
  BY PTL DEF G!RecordFrozen, Gate!RecordFrozen, G!gateVars, Gate!gateVars
<1>. QED  BY <1>2, <1>3, <1>4, <1>5, SameGate, ViewDrivesTheGate, PTL
=============================================================================
