------------------------------ MODULE QueueView ------------------------------
(***************************************************************************)
(* src/gui: the approval queue on the screen, above the gate.              *)
(*                                                                         *)
(* Four things say which draft is meant, and none of them follows another  *)
(* at once: the gate's entries, changed by the coroutines the timer pumps; *)
(* the rows of the list, read from the gate by a second timer; the         *)
(* selected row; and the draft shown beside the list, redrawn when Tk gets *)
(* round to <<TreeviewSelect>>.  A click lands on what is on the screen;   *)
(* QueueView._decide() acts on what is selected when Tk handles the click. *)
(*                                                                         *)
(* The dashboard starts a run and enables its button again when the run is *)
(* done, so one run is under way at a time.  Of the run only its stay at   *)
(* the gate is kept (EmailWorkflow has the rest).                          *)
(*                                                                         *)
(* External: Tk.  Its versions differ in whether deleting the selected row *)
(* sends <<TreeviewSelect>>.                                               *)
(***************************************************************************)
EXTENDS Naturals, Sequences, FiniteSets

CONSTANTS
    Drafts,                 \* drafts of the runs of one sitting
    Reviewer, NoReviewer,   \* Session.reviewer; see ApprovalGate
    NoDraft,                \* nothing selected, nothing shown, nothing under way
    MaxPresses              \* bound: clicks Tk has not handled yet

ASSUME QueueAssumption == /\ NoDraft \notin Drafts
                          /\ NoReviewer # Reviewer
                          /\ MaxPresses \in Nat

VARIABLES
    pending, future, record, answered, returned,    \* ApprovalGate
    underway,       \* the draft of the dashboard's run
    may_decide,     \* Session.can_approve() and can_reject()
    announces,      \* Tk sends <<TreeviewSelect>> for a deleted selection
    tree,           \* rows of the Treeview; the keys of _rows
    selection,      \* the selected row
    select_event,   \* a <<TreeviewSelect>> is queued
    pane,           \* the draft shown
    buttons,        \* Approve and Reject are enabled
    presses,        \* clicks on them, not handled yet: the button, the pane
    dialog,         \* "Not pending" is open: Tk runs a loop inside _decide()
    decided         \* history: what the handled clicks asked of the gate

Gate == INSTANCE ApprovalGate WITH Reviewers <- {Reviewer}

gateVars == <<pending, future, record, answered, returned>>
session == <<may_decide, announces>>
view == <<tree, selection, select_event, pane, buttons>>
clicks == <<presses, dialog, decided>>
vars == <<gateVars, underway, session, view, clicks>>

Init == /\ Gate!Init
        /\ underway = NoDraft
        /\ may_decide \in BOOLEAN
        /\ announces \in BOOLEAN
        /\ tree = {}
        /\ selection = NoDraft
        /\ select_event = FALSE
        /\ pane = NoDraft
        /\ buttons = FALSE
        /\ presses = <<>>
        /\ dialog = FALSE
        /\ decided = {}

-----------------------------------------------------------------------------
(* The dashboard and its run. *)

(* DashboardView._on_start(): the button is enabled.                       *)
StartRun(d) ==
    /\ underway = NoDraft
    /\ future[d] = "none"
    /\ underway' = d
    /\ UNCHANGED <<gateVars, session, view, clicks>>

(* The run reaches the gate.                                               *)
Park ==
    /\ underway # NoDraft
    /\ Gate!WaitForDecision(underway, FALSE)
    /\ UNCHANGED <<underway, session, view, clicks>>

(* The pump gives the parked coroutine its decision.                       *)
Leave ==
    /\ underway # NoDraft
    /\ Gate!Resume(underway)
    /\ UNCHANGED <<underway, session, view, clicks>>

(* DashboardView._on_done(): the run failed before the gate, or went on    *)
(* behind it and is over.                                                  *)
RunIsDone ==
    /\ underway # NoDraft
    /\ underway \notin pending
    /\ underway' = NoDraft
    /\ UNCHANGED <<gateVars, session, view, clicks>>

-----------------------------------------------------------------------------
(* The view. *)

(* _clear_detail(). *)
ClearDetail == pane' = NoDraft /\ buttons' = FALSE

(* Slip: when the selected row is gone, the next one is selected.          *)
MutRefreshSelectsNext(queue) ==
    LET rebuilt == queue # tree
        kept == IF selection \in queue \/ queue = {} THEN selection
                ELSE CHOOSE d \in queue : TRUE
    IN /\ tree' = queue
       /\ selection' = IF kept \in queue THEN kept ELSE NoDraft
       /\ select_event' = (select_event \/ (rebuilt /\ selection # NoDraft))
       /\ IF queue = {} THEN ClearDetail ELSE UNCHANGED <<pane, buttons>>

(* Slip: as many rows as before, nothing to rebuild.                       *)
MutRefreshCounts(queue) ==
    LET rebuilt == Cardinality(queue) # Cardinality(tree)
    IN /\ tree' = IF rebuilt THEN queue ELSE tree
       /\ selection' = IF selection \in tree' THEN selection ELSE NoDraft
       /\ select_event' = \/ select_event
                          \/ rebuilt /\ selection # NoDraft /\ announces
       /\ IF queue = {} THEN ClearDetail ELSE UNCHANGED <<pane, buttons>>

(* refresh(): the list is rebuilt when the set of rows changed; a selected *)
(* row that is still there is selected again, which announces it.          *)
Refresh(queue) ==
    /\ tree' = queue
    /\ selection' = IF selection \in queue THEN selection ELSE NoDraft
    /\ select_event' = \/ select_event
                       \/ /\ queue # tree
                          /\ selection # NoDraft
                          /\ announces \/ selection \in queue
    /\ IF queue = {} THEN ClearDetail ELSE UNCHANGED <<pane, buttons>>

(* EmailAssistantApp._poll_queue(), also while the dialog is open.         *)
Poll ==
    /\ Refresh(pending)
    /\ UNCHANGED <<gateVars, underway, session, clicks>>

(* The reviewer clicks a row, not between a click on a button and its      *)
(* handling.                                                               *)
ClickRow(d) ==
    /\ ~dialog
    /\ presses = <<>>
    /\ d \in tree
    /\ selection' = d
    /\ select_event' = TRUE
    /\ UNCHANGED <<gateVars, underway, session, tree, pane, buttons, clicks>>

(* Slip: nothing selected, nothing to redraw.                              *)
MutShowSelectedReturns ==
    /\ select_event
    /\ select_event' = FALSE
    /\ IF selection \in tree THEN pane' = selection /\ buttons' = may_decide
       ELSE UNCHANGED <<pane, buttons>>
    /\ UNCHANGED <<gateVars, underway, session, tree, selection, clicks>>

(* _show_selected(), with _set_buttons().                                  *)
ShowSelected ==
    /\ select_event
    /\ select_event' = FALSE
    /\ IF selection \in tree THEN pane' = selection /\ buttons' = may_decide
       ELSE ClearDetail
    /\ UNCHANGED <<gateVars, underway, session, tree, selection, clicks>>

(* The reviewer clicks Approve or Reject, meaning the draft she reads; she *)
(* waits for the pane to show the row she selected.                        *)
Press(button) ==
    /\ ~dialog
    /\ ~select_event
    /\ buttons
    /\ Len(presses) < MaxPresses
    /\ presses' = Append(presses, [button |-> button, seen |-> pane])
    /\ UNCHANGED <<gateVars, underway, session, view, dialog, decided>>

(* Tk drops the click: the button is disabled by now, or a dialog holds    *)
(* the grab; or _decide() finds no row selected and returns.               *)
PressIsLost ==
    /\ presses # <<>>
    /\ ~buttons \/ dialog \/ selection = NoDraft
    /\ presses' = Tail(presses)
    /\ UNCHANGED <<gateVars, underway, session, view, dialog, decided>>

(* _decide(): the gateway's approve() or reject() for the selected row,    *)
(* then refresh() - or, when the gate knows no such draft, the dialog.     *)
Decide ==
    /\ presses # <<>> /\ buttons /\ ~dialog /\ selection # NoDraft
    /\ LET press == Head(presses)
           ok == selection \in pending
       IN /\ IF ~ok THEN UNCHANGED gateVars
             ELSE IF press.button = "APPROVED" THEN Gate!Approve(selection, Reviewer)
             ELSE Gate!Reject(selection, Reviewer)
          /\ decided' = decided \cup {[draft |-> selection, seen |-> press.seen, ok |-> ok]}
          /\ dialog' = ~ok
          /\ IF ok THEN Refresh(pending) ELSE UNCHANGED view
    /\ presses' = Tail(presses)
    /\ UNCHANGED <<underway, session>>

(* The dialog is closed; _decide() goes on to its refresh().               *)
CloseDialog ==
    /\ dialog
    /\ dialog' = FALSE
    /\ Refresh(pending)
    /\ UNCHANGED <<gateVars, underway, session, presses, decided>>

-----------------------------------------------------------------------------
Next == \/ \E d \in Drafts : StartRun(d) \/ ClickRow(d)
        \/ \E button \in Gate!Decisions : Press(button)
        \/ Park \/ Leave \/ RunIsDone
        \/ Poll \/ ShowSelected \/ PressIsLost \/ Decide \/ CloseDialog

(* Both timers fire and Tk empties its queue; the reviewer may leave.      *)
Fairness == /\ WF_vars(Leave)
            /\ WF_vars(Poll)
            /\ WF_vars(ShowSelected)
            /\ WF_vars(PressIsLost \/ Decide)

Spec == Init /\ [][Next]_vars /\ Fairness

-----------------------------------------------------------------------------
DraftOrNone == Drafts \cup {NoDraft}

TypeOK ==
    /\ Gate!TypeOK
    /\ underway \in DraftOrNone
    /\ {may_decide, announces, select_event, buttons, dialog} \subseteq BOOLEAN
    /\ tree \subseteq Drafts
    /\ selection \in tree \cup {NoDraft}
    /\ pane \in DraftOrNone
    /\ presses \in Seq([button : Gate!Decisions, seen : Drafts])
    /\ Len(presses) <= MaxPresses
    /\ decided \subseteq [draft : Drafts, seen : Drafts, ok : BOOLEAN]

(* A decision falls on the draft its reviewer had before her: whatever the *)
(* timers do to the list between her click and Tk's handling of it, the    *)
(* click decides that draft or none.                                       *)
SeenIsDecided == \A e \in decided : e.draft = e.seen

(* "No longer in the approval queue" is true when the dialog says so: the  *)
(* draft's run was given a decision and has gone on.                       *)
NotPendingIsTrue ==
    \A e \in decided : ~e.ok => returned[e.draft] \in Gate!Decisions

(* A click means what the reviewer meant by it, or she is told truly that  *)
(* she came too late.                                                      *)
ClicksAreHonoured == SeenIsDecided /\ NotPendingIsTrue

(* A reviewer may come to every draft that waits for her: its row appears, *)
(* also when another run's draft left the gate between two polls.          *)
PendingIsOffered ==
    \A d \in Drafts : (d \in pending) ~> (d \in tree \/ d \notin pending)

(* A draft that was decided does not stay before the reviewer: Tk says its *)
(* row is gone, or, if this Tk does not, the queue is found empty.         *)
StalePaneGoes ==
    \A d \in Drafts :
        (pane = d /\ d \notin pending) ~> \/ pane # d
                                          \/ ~announces /\ pending # {}
=============================================================================
