----------------------------- MODULE ToolAccess -----------------------------
(***************************************************************************)
(* src/tools and src/permissions: what happens between a task that calls   *)
(* a tool by name and the audit file.  ToolRegistry.call() finds the tool, *)
(* ToolProxy.call() wraps it, BaseTool.__call__ checks the arguments and   *)
(* the role of the caller, the body runs, AuditMiddleware writes the event *)
(* of the outcome, and a refusal is also written by a task of its own.     *)
(*                                                                         *)
(* Several tasks share one event loop.  The role is a context variable: a  *)
(* task has its own, changed by "with acting_as(...)" blocks around code   *)
(* that suspends.  Of the tools only the summarizer suspends (on an LLM    *)
(* reply); a call of another is one step.                                  *)
(*                                                                         *)
(* External: the body of a tool returns or raises; the disk takes a line,  *)
(* refuses it, or takes part of it.                                        *)
(***************************************************************************)
EXTENDS AuditLog, FiniteSets

CONSTANTS
    Tasks,         \* tasks that call tools
    Names,         \* names they use, registered or not
    ActingRoles,   \* roles of the acting_as() blocks they open
    MaxCalls,      \* bound: calls in all
    MaxOpen,       \* bound: acting_as() blocks open at a time
    MaxFaults,     \* bound: writes of the file that fail
    MaxRestarts    \* bound: ends of the process

Roles == {"OPERATOR", "REVIEWER", "ADMIN", "SYSTEM"}

(* The tools of build_default_registry(): their capability, whether they   *)
(* are kept from the agent, whether their body suspends.                   *)
Tools ==
    [gmail_read_thread            |-> [needs |-> "READ:THREAD", requires_approval |-> FALSE, suspends |-> FALSE],
     gmail_create_or_update_draft |-> [needs |-> "DRAFT:DRAFT", requires_approval |-> FALSE, suspends |-> FALSE],
     gmail_send_draft             |-> [needs |-> "SEND:EMAIL", requires_approval |-> TRUE, suspends |-> FALSE],
     summarize_email_thread       |-> [needs |-> "SUMMARIZE:THREAD", requires_approval |-> FALSE, suspends |-> TRUE],
     lookup_contact               |-> [needs |-> "LOOKUP:CONTACT", requires_approval |-> FALSE, suspends |-> FALSE]]

(* ToolRegistry.get_agent_tools(). *)
AgentTools == {n \in DOMAIN Tools : ~Tools[n].requires_approval}

OperatorPermissions == {"READ:THREAD", "DRAFT:DRAFT", "LOOKUP:CONTACT", "SUMMARIZE:THREAD"}

(* permissions_for(). *)
PermissionsFor(r) ==
    OperatorPermissions
        \cup IF r = "OPERATOR" THEN {} ELSE {"SEND:EMAIL"}
        \cup IF r \in {"ADMIN", "SYSTEM"} THEN {"CONFIGURE:CONFIG"} ELSE {}

ASSUME ToolAssumption ==
    /\ ActingRoles \subseteq Roles
    /\ {MaxCalls, MaxOpen, MaxFaults, MaxRestarts} \subseteq Nat

VARIABLES
    role,       \* the context variable, per task
    blocks,     \* open acting_as() blocks of a task: role asked for, role saved
    calls,      \* every call so far, in order, with its outcome
    denials,    \* scheduled tasks that will write PERMISSION_DENIED
    file,       \* the audit file
    logged,     \* events whose log() returned, in order
    lost,       \* events that were to be written and were not
    faults, restarts

vars == <<role, blocks, calls, denials, file, logged, lost, faults, restarts>>

Actions == {"TOOL_INVOKED", "TOOL_FAILED", "PERMISSION_DENIED"}
CallIds == 1..MaxCalls
Events == [id : CallIds, action : Actions, actor : Roles]

ASSUME GarbledAssumption == Garbled \notin Events

(* acting_as() sets the actor together with the role; both are one here.   *)
Event(id, action, r) == [id |-> id, action |-> action, actor |-> r]

(* The role the source text puts a task under: that of its innermost block. *)
Within(t) == IF blocks[t] = <<>> THEN "SYSTEM" ELSE Last(blocks[t]).as

OpenBlocks == {b \in Tasks \X (1..MaxOpen) : b[2] <= Len(blocks[b[1]])}

Suspended(t) == \E i \in DOMAIN calls : calls[i].task = t /\ calls[i].outcome = "running"

Init == /\ role = [t \in Tasks |-> "SYSTEM"]
        /\ blocks = [t \in Tasks |-> <<>>]
        /\ calls = <<>>
        /\ denials = <<>>
        /\ file = EmptyFile
        /\ logged = <<>>
        /\ lost = {}
        /\ faults = 0
        /\ restarts = 0

-----------------------------------------------------------------------------
(* acting_as(). *)

(* Slip: the role is a variable of the module, not of the context.         *)
MutSetRole(t, r) == role' = [u \in Tasks |-> r]

(* ContextVar.set() and reset(): only the context of this task changes.    *)
SetRole(t, r) == role' = [role EXCEPT ![t] = r]

(* The "with" line of a block.                                             *)
Enter(t, r) ==
    /\ ~Suspended(t)
    /\ Cardinality(OpenBlocks) < MaxOpen
    /\ blocks' = [blocks EXCEPT ![t] = Append(@, [as |-> r, saved |-> role[t]])]
    /\ SetRole(t, r)
    /\ UNCHANGED <<calls, denials, file, logged, lost, faults, restarts>>

(* Slip: leaving a block goes back to the default, not to the token.       *)
MutExitToDefault(t) ==
    /\ ~Suspended(t)
    /\ blocks[t] # <<>>
    /\ SetRole(t, "SYSTEM")
    /\ blocks' = [blocks EXCEPT ![t] = Front(@)]
    /\ UNCHANGED <<calls, denials, file, logged, lost, faults, restarts>>

(* The end of the block, by its last line or by an exception.              *)
Exit(t) ==
    /\ ~Suspended(t)
    /\ blocks[t] # <<>>
    /\ SetRole(t, Last(blocks[t]).saved)
    /\ blocks' = [blocks EXCEPT ![t] = Front(@)]
    /\ UNCHANGED <<calls, denials, file, logged, lost, faults, restarts>>

-----------------------------------------------------------------------------
(* The audit file as its writers see it. *)

(* One await of audit_logger.log().  Its lock is free, because its holder  *)
(* never suspends, so the call does not suspend either.  The error of a    *)
(* write that fails ends in AuditMiddleware or in the denial's own task.   *)
Log(e) ==
    \/ /\ file' = Write(file, e)
       /\ logged' = Append(logged, e)
       /\ UNCHANGED <<lost, faults>>
    \/ /\ faults < MaxFaults
       /\ file' \in {file} \cup CutShort(file, e)
       /\ lost' = lost \cup {e}
       /\ faults' = faults + 1
       /\ UNCHANGED logged

-----------------------------------------------------------------------------
(* The call of a tool. *)

Call(t, n) == [task |-> t, tool |-> n, as |-> Within(t), ran |-> FALSE, outcome |-> "unknown"]

Callable(t) == ~Suspended(t) /\ Len(calls) < MaxCalls

(* ToolRegistry.call(), no such tool: an error before the proxy. *)
CallUnknown(t, n) ==
    /\ Callable(t)
    /\ n \notin DOMAIN Tools
    /\ calls' = Append(calls, Call(t, n))
    /\ UNCHANGED <<role, blocks, denials, file, logged, lost, faults, restarts>>

(* The schema refuses the arguments, before the role is looked at.         *)
CallInvalid(t, n) ==
    /\ Callable(t)
    /\ n \in DOMAIN Tools
    /\ calls' = Append(calls, [Call(t, n) EXCEPT !.outcome = "raised"])
    /\ Log(Event(Len(calls'), "TOOL_FAILED", role[t]))
    /\ UNCHANGED <<role, blocks, denials, restarts>>

(* PermissionEngine.evaluate(). *)
Allowed(t, n) == n \in DOMAIN Tools /\ Tools[n].needs \in PermissionsFor(role[t])

(* Slip: nothing keeps the denial's coroutine, and it is never run.        *)
MutCallDeniedUnscheduled(t, n) ==
    /\ Callable(t)
    /\ n \in DOMAIN Tools
    /\ ~Allowed(t, n)
    /\ calls' = Append(calls, [Call(t, n) EXCEPT !.outcome = "denied"])
    /\ Log(Event(Len(calls'), "TOOL_FAILED", role[t]))
    /\ UNCHANGED <<role, blocks, denials, restarts>>

(* _authorize() refuses: the denial's event is made with the present       *)
(* actor and left to a task, then the proxy writes the failure.            *)
CallDenied(t, n) ==
    /\ Callable(t)
    /\ n \in DOMAIN Tools
    /\ ~Allowed(t, n)
    /\ calls' = Append(calls, [Call(t, n) EXCEPT !.outcome = "denied"])
    /\ denials' = Append(denials, Event(Len(calls'), "PERMISSION_DENIED", role[t]))
    /\ Log(Event(Len(calls'), "TOOL_FAILED", role[t]))
    /\ UNCHANGED <<role, blocks, restarts>>

(* The body is entered; the summarizer's gives up the loop.                *)
CallSuspends(t, n) ==
    /\ Callable(t)
    /\ Allowed(t, n)
    /\ Tools[n].suspends
    /\ calls' = Append(calls, [Call(t, n) EXCEPT !.ran = TRUE, !.outcome = "running"])
    /\ UNCHANGED <<role, blocks, denials, file, logged, lost, faults, restarts>>

(* after_call() or on_error() of AuditMiddleware. *)
VerdictOn(outcome) == IF outcome = "returned" THEN "TOOL_INVOKED" ELSE "TOOL_FAILED"

(* A body that does not suspend; an error is wrapped and raised. *)
CallCompletes(t, n, outcome) ==
    /\ Callable(t)
    /\ Allowed(t, n)
    /\ ~Tools[n].suspends
    /\ calls' = Append(calls, [Call(t, n) EXCEPT !.ran = TRUE, !.outcome = outcome])
    /\ Log(Event(Len(calls'), VerdictOn(outcome), role[t]))
    /\ UNCHANGED <<role, blocks, denials, restarts>>

(* The suspended body goes on: the LLM answered, or its client gave up.    *)
BodyResumes(i, outcome) ==
    /\ calls[i].outcome = "running"
    /\ calls' = [calls EXCEPT ![i].outcome = outcome]
    /\ Log(Event(i, VerdictOn(outcome), role[calls[i].task]))
    /\ UNCHANGED <<role, blocks, denials, restarts>>

(* Slip: the actor is looked up when the task runs, in no block at all.    *)
MutWriteDenialLateActor ==
    /\ denials # <<>>
    /\ denials' = Tail(denials)
    /\ Log([Head(denials) EXCEPT !.actor = "SYSTEM"])
    /\ UNCHANGED <<role, blocks, calls, restarts>>

(* The loop runs the oldest task of a denial. *)
WriteDenial ==
    /\ denials # <<>>
    /\ denials' = Tail(denials)
    /\ Log(Head(denials))
    /\ UNCHANGED <<role, blocks, calls, restarts>>

(* AsyncBridge.stop(), the end of asyncio.run() or the death of the        *)
(* process, and the next process: CancelledError passes every "except      *)
(* Exception", so no call that was running gets a verdict, and the tasks   *)
(* of denials are cancelled before their first step.                       *)
ProcessEnds ==
    /\ restarts < MaxRestarts
    /\ restarts' = restarts + 1
    /\ role' = [t \in Tasks |-> "SYSTEM"]
    /\ blocks' = [t \in Tasks |-> <<>>]
    /\ calls' = [i \in DOMAIN calls |->
                    IF calls[i].outcome = "running"
                    THEN [calls[i] EXCEPT !.outcome = "cancelled"] ELSE calls[i]]
    /\ denials' = <<>>
    /\ lost' = lost \cup ToSet(denials)
    /\ UNCHANGED <<file, logged, faults>>

Next ==
    \/ \E t \in Tasks, r \in ActingRoles : Enter(t, r)
    \/ \E t \in Tasks : Exit(t)
    \/ \E t \in Tasks, n \in Names :
          \/ CallUnknown(t, n)
          \/ CallInvalid(t, n)
          \/ CallDenied(t, n)
          \/ CallSuspends(t, n)
          \/ \E o \in {"returned", "raised"} : CallCompletes(t, n, o)
    \/ \E i \in DOMAIN calls, o \in {"returned", "raised"} : BodyResumes(i, o)
    \/ WriteDenial
    \/ ProcessEnds

(* The loop runs a scheduled task in its next iteration, and every LLM     *)
(* call ends by its time-outs.  Nothing makes a task call a tool.          *)
Fairness ==
    /\ WF_vars(WriteDenial)
    /\ \A i \in CallIds :
          WF_vars(i \in DOMAIN calls /\ \E o \in {"returned", "raised"} : BodyResumes(i, o))

Spec == Init /\ [][Next]_vars /\ Fairness

-----------------------------------------------------------------------------
TypeOK ==
    /\ role \in [Tasks -> Roles]
    /\ \A t \in Tasks : ToSet(blocks[t]) \subseteq [as : ActingRoles, saved : Roles]
    /\ Len(calls) <= MaxCalls
    /\ ToSet(calls) \subseteq
          [task : Tasks, tool : Names, as : Roles, ran : BOOLEAN,
           outcome : {"unknown", "running", "returned", "raised", "denied", "cancelled"}]
    /\ ToSet(denials) \cup ToSet(logged) \cup lost \subseteq Events
    /\ ToSet(file.lines) \subseteq Events \cup {Garbled}
    /\ file.open \in BOOLEAN
    /\ faults \in 0..MaxFaults
    /\ restarts \in 0..MaxRestarts

(* What the source text says a task may do is what its context lets it do: *)
(* the role is that of the innermost open block, across awaits, nested     *)
(* blocks and the steps of other tasks, and SYSTEM outside of all blocks.  *)
RoleFollowsBlocks == \A t \in Tasks : role[t] = Within(t)

(* The two defences agree (registry.get_agent_tools, permissions/policy):  *)
(* a body that runs for the drafting role is a tool offered to the agent,  *)
(* so never the send tool, and such a tool is never refused to that role.  *)
OperatorIsConfined ==
    \A i \in DOMAIN calls :
        calls[i].as = "OPERATOR" =>
            /\ calls[i].ran => calls[i].tool \in AgentTools
            /\ calls[i].outcome = "denied" => calls[i].tool \notin AgentTools

(* The events on calls: on file, left to a task, or lost.                  *)
Accounted == ToSet(logged) \cup ToSet(denials) \cup lost

(* No event is written twice, or written and then lost.                    *)
NoEventTwice ==
    /\ IsInjective(logged) /\ IsInjective(denials)
    /\ ToSet(logged) \cap ToSet(denials) = {}
    /\ lost \cap (ToSet(logged) \cup ToSet(denials)) = {}

(* What the audit has to say of a call.                                    *)
DueOn(outcome) ==
    CASE outcome = "returned" -> {"TOOL_INVOKED"}
      [] outcome = "raised" -> {"TOOL_FAILED"}
      [] outcome = "denied" -> {"TOOL_FAILED", "PERMISSION_DENIED"}
      [] OTHER -> {}

(* Written or not, there is one event on the outcome of each call that     *)
(* came to an end at the proxy, the right one, and one on each refusal;    *)
(* none for a tool that does not exist, and none for a cancelled call.     *)
OneVerdictPerCall ==
    /\ NoEventTwice
    /\ \A i \in DOMAIN calls :
          LET events == {e \in Accounted : e.id = i}
          IN /\ {e.action : e \in events} = DueOn(calls[i].outcome)
             /\ \A e, f \in events : e.action = f.action => e = f

(* An event names the principal in whose block the call was made, also     *)
(* when a task of its own writes it after that block was left.             *)
AuditNamesTheCaller == \A e \in ToSet(logged) : e.actor = calls[e.id].as

(* What the audit says of a call can be relied on: neither a nested block, *)
(* nor another task, nor a late writer or a failing disk leaves a call     *)
(* with two outcomes, with the wrong one, or under the wrong principal.    *)
AuditTellsTheCalls == OneVerdictPerCall /\ AuditNamesTheCaller

(* A write that fails costs at most one event that was reported written:   *)
(* the one that had to share its line.                                     *)
FailedWriteCostsOneEvent ==
    Cardinality(ToSet(logged) \ ToSet(file.lines)) <= faults

(* What read_recent(limit) shows of the history is newest first, and no    *)
(* event that was written between two that are shown is missing.           *)
ShowsNoHoles(limit) ==
    LET shown == ReadRecent(file, limit)
    IN /\ \A j, k \in DOMAIN shown, m, n \in DOMAIN logged :
             j < k /\ shown[j] = logged[m] /\ shown[k] = logged[n] => n < m
       /\ \A a, b, c \in DOMAIN logged :
             a < b /\ b < c /\ {logged[a], logged[c]} \subseteq ToSet(shown) =>
                 logged[b] \in ToSet(shown)

(* "email audit" and the audit view show an unbroken piece of the history. *)
RecentHasNoHoles == \A limit \in 0..MaxCalls : ShowsNoHoles(limit)

(* A refusal is on file in the end, unless the disk failed or the process  *)
(* ended first.                                                            *)
RefusalIsRecorded ==
    \A i \in CallIds :
        (i \in DOMAIN calls /\ calls[i].outcome = "denied")
            ~> \E e \in ToSet(logged) \cup lost : e.id = i /\ e.action = "PERMISSION_DENIED"
=============================================================================
