---------------------------- MODULE ApprovalGate ----------------------------
(***************************************************************************)
(* src/approval/gate.py: the in-memory gate on which every workflow parks  *)
(* until a human decides.  wait_for_decision() registers an asyncio.Future *)
(* and suspends; approve() and reject() are plain calls made between two   *)
(* iterations of the event loop; the coroutine resumes in a later          *)
(* iteration and only then removes its entry.                              *)
(*                                                                         *)
(* The ApprovalRecord is one shared object: the gate writes it, and the    *)
(* resumed coroutine reads whatever it holds by then.                      *)
(***************************************************************************)

CONSTANTS Drafts,      \* draft ids; each is registered once (uuid4)
          Reviewers,   \* identities approve()/reject() are called with
          NoReviewer   \* ApprovalRecord.reviewer = None

ASSUME GateAssumption == NoReviewer \notin Reviewers

VARIABLES pending,     \* keys of _pending
          future,      \* the state of the draft's Future
          record,      \* the ApprovalRecord
          answered,    \* decisions for which approve()/reject() returned True
          returned     \* what the awaiting coroutine got

gateVars == <<pending, future, record, answered, returned>>

Decisions == {"APPROVED", "REJECTED"}

NewRecord == [decision |-> "NONE", reviewer |-> NoReviewer, escalated |-> FALSE]

Init == /\ pending = {}
        /\ future = [d \in Drafts |-> "none"]
        /\ record = [d \in Drafts |-> NewRecord]
        /\ answered = [d \in Drafts |-> {}]
        /\ returned = [d \in Drafts |-> "none"]

(* Slip: the record is built without the guardrails' findings.             *)
MutWaitForgetsEscalation(d, escalated) ==
    /\ future[d] = "none"
    /\ record' = [record EXCEPT ![d] = NewRecord]
    /\ future' = [future EXCEPT ![d] = "waiting"]
    /\ pending' = pending \cup {d}
    /\ UNCHANGED <<answered, returned>>

(* wait_for_decision(), up to "await future". *)
WaitForDecision(d, escalated) ==
    /\ future[d] = "none"
    /\ record' = [record EXCEPT ![d] = [NewRecord EXCEPT !.escalated = escalated]]
    /\ future' = [future EXCEPT ![d] = "waiting"]
    /\ pending' = pending \cup {d}
    /\ UNCHANGED <<answered, returned>>

(* Slips in approve()/reject(): an entry looked up by "was it ever         *)
(* registered"; a future left unresolved.                                  *)
MutDecideAnyEntry(d, reviewer, decision) ==
    /\ future[d] # "none"
    /\ record' = [record EXCEPT ![d].decision = decision, ![d].reviewer = reviewer]
    /\ future' = [future EXCEPT ![d] = IF @ = "waiting" THEN "resolved" ELSE @]
    /\ answered' = [answered EXCEPT ![d] = @ \cup {decision}]
    /\ UNCHANGED <<pending, returned>>

MutDecideNoResult(d, reviewer, decision) ==
    /\ d \in pending
    /\ record' = [record EXCEPT ![d].decision = decision, ![d].reviewer = reviewer]
    /\ answered' = [answered EXCEPT ![d] = @ \cup {decision}]
    /\ UNCHANGED <<pending, future, returned>>

(* The common body of approve() and reject() for an entry that is found:   *)
(* the record is overwritten whether or not the future is already done.    *)
Decide(d, reviewer, decision) ==
    /\ d \in pending
    /\ record' = [record EXCEPT ![d].decision = decision, ![d].reviewer = reviewer]
    /\ future' = [future EXCEPT ![d] = IF @ = "waiting" THEN "resolved" ELSE @]
    /\ answered' = [answered EXCEPT ![d] = @ \cup {decision}]
    /\ UNCHANGED <<pending, returned>>

Approve(d, reviewer) == Decide(d, reviewer, "APPROVED")
Reject(d, reviewer)  == Decide(d, reviewer, "REJECTED")

(* Slip in wait_for_decision(): the entry stays behind.                    *)
MutResumeKeepsEntry(d) ==
    /\ future[d] = "resolved"
    /\ d \in pending
    /\ returned' = [returned EXCEPT ![d] = record[d].decision]
    /\ future' = [future EXCEPT ![d] = "consumed"]
    /\ UNCHANGED <<pending, record, answered>>

(* The loop runs the awaiting coroutine again: "finally" pops the entry    *)
(* and the record is returned, with the decision it holds now.             *)
Resume(d) ==
    /\ future[d] = "resolved"
    /\ returned' = [returned EXCEPT ![d] = record[d].decision]
    /\ future' = [future EXCEPT ![d] = "consumed"]
    /\ pending' = pending \ {d}
    /\ UNCHANGED <<record, answered>>

(* CancelledError is thrown into every coroutine that waits here           *)
(* (AsyncBridge.stop() cancels all tasks), also into one whose future is   *)
(* already resolved: the decision is not delivered.                        *)
CancelAll ==
    /\ pending' = {}
    /\ future' = [d \in Drafts |-> IF d \in pending THEN "cancelled" ELSE future[d]]
    /\ returned' = [d \in Drafts |-> IF d \in pending THEN "cancelled" ELSE returned[d]]
    /\ UNCHANGED <<record, answered>>

-----------------------------------------------------------------------------
(* The gate on its own, between callers that may do anything it allows.    *)

Next == \/ \E d \in Drafts, e \in BOOLEAN : WaitForDecision(d, e)
        \/ \E d \in Drafts, r \in Reviewers : Approve(d, r) \/ Reject(d, r)
        \/ \E d \in Drafts : Resume(d)
        \/ /\ pending # {}
           /\ CancelAll

(* The loop is pumped every 20 ms (bridge.py:92), so a coroutine whose     *)
(* future is resolved runs again; nothing makes a human decide.            *)
Fairness == \A d \in Drafts : WF_gateVars(Resume(d))

(* What holds of the gate whoever calls it, and when; its users implement  *)
(* it by calling it.                                                       *)
Behaviour == Init /\ [][Next]_gateVars

Spec == Behaviour /\ Fairness

-----------------------------------------------------------------------------
TypeOK ==
    /\ pending \subseteq Drafts
    /\ future \in [Drafts -> {"none", "waiting", "resolved", "consumed", "cancelled"}]
    /\ record \in [Drafts -> [decision : Decisions \cup {"NONE"},
                              reviewer : Reviewers \cup {NoReviewer},
                              escalated : BOOLEAN]]
    /\ answered \in [Drafts -> SUBSET Decisions]
    /\ returned \in [Drafts -> Decisions \cup {"none", "cancelled"}]

(* The entry, the future and the record tell one story: an entry exists    *)
(* exactly while a coroutine waits, and it waits on a resolved future      *)
(* exactly when the record holds a decision.  A record that was decided    *)
(* while its future stays open would never be picked up; an entry that     *)
(* outlives its coroutine would accept decisions nobody reads.             *)
EntryMatchesFuture ==
    \A d \in Drafts :
        /\ d \in pending <=> future[d] \in {"waiting", "resolved"}
        /\ d \in pending => (future[d] = "resolved" <=> record[d].decision # "NONE")

(* The decision a workflow acts on is one a caller was told was accepted,  *)
(* it names who made it, and it is what the record says from then on.      *)
ReturnedIsRecorded ==
    \A d \in Drafts :
        returned[d] \in Decisions =>
            /\ record[d].decision = returned[d]
            /\ record[d].reviewer \in Reviewers
            /\ returned[d] \in answered[d]

(* Once the waiting coroutine is gone, answered or cancelled, nothing      *)
(* changes the record again: approve()/reject() then answer False.         *)
RecordFrozen ==
    [][\A d \in Drafts :
          returned[d] # "none" => record'[d] = record[d]]_gateVars

(* Who is told "approved" or "rejected" is not told so in vain: the        *)
(* workflow resumes (or is cancelled with the loop).                       *)
AnswerIsDelivered ==
    \A d \in Drafts : (answered[d] # {}) ~> (returned[d] # "none")
=============================================================================
