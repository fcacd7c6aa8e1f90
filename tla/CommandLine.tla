---------------------------- MODULE CommandLine ----------------------------
(***************************************************************************)
(* src/cli and run_demo.py: the commands, each a process of its own.       *)
(*                                                                         *)
(* Every command first builds the tool registry, and with it Gmail clients *)
(* (GmailConnection); "process", "demo" and the driver build those of an   *)
(* orchestrator too, and run it.  The approval gate is a Python object: a  *)
(* run waits at the gate of its own process, and "approve" and "reject"    *)
(* look into the gate of theirs.  run_demo.py decides in the run's own     *)
(* process: it looks at the gate 100 times, 0.1 s apart, and then waits    *)
(* for the run, decided or not.                                            *)
(*                                                                         *)
(* Of the run only what the process sees is kept (EmailWorkflow has the    *)
(* rest); processes share the token file and Gmail.                        *)
(***************************************************************************)
EXTENDS GmailConnection

CONSTANTS
    Commands,     \* commands that are given, by the terminal they are given in
    MaxPolls,     \* run_demo.py's 100
    MaxStarts     \* bound: processes started in all

Driven == {"driver", "driver --approve"}
Runs == {"process", "demo"} \cup Driven
Lookups == {"review", "approve", "reject"}

ASSUME CommandAssumption == /\ Commands \in [Procs -> SUBSET (Runs \cup Lookups)]
                            /\ {MaxPolls, MaxStarts} \subseteq Nat

VARIABLES
    cmd,         \* the command of a process, or "none"
    stage,       \* where its run is
    gmail_draft, \* the draft id its run holds
    decision,    \* the ApprovalRecord of its run
    polls,       \* run_demo.py's looks at the gate
    said,        \* what it printed last
    delivered,   \* e-mails its run really sent
    starts       \* bound counter

runVars == <<stage, gmail_draft, decision, polls, said, delivered>>
vars == <<connectionVars, cmd, runVars, starts>>

Init == /\ ConnectionInit
        /\ cmd = [p \in Procs |-> "none"]
        /\ stage = [p \in Procs |-> "none"]
        /\ gmail_draft = [p \in Procs |-> "none"]
        /\ decision = [p \in Procs |-> "NONE"]
        /\ polls = [p \in Procs |-> 0]
        /\ said = [p \in Procs |-> "nothing"]
        /\ delivered = [p \in Procs |-> FALSE]
        /\ starts = 0

(* cli.app.main(), and run_demo.main(), up to the command's own work.      *)
Start(p, c) ==
    /\ cmd[p] = "none"
    /\ starts < MaxStarts
    /\ starts' = starts + 1
    /\ cmd' = [cmd EXCEPT ![p] = c]
    /\ building' = [building EXCEPT ![p] =
           IF c \in Runs THEN RegistryClients \o OrchestratorClients
           ELSE RegistryClients]
    /\ stage' = [stage EXCEPT ![p] = IF c \in Runs THEN "start" ELSE "none"]
    /\ UNCHANGED <<machine, token_file, auth, mode, disturbed, granted, faults,
                   gmail_draft, decision, polls, said, delivered>>

Ready(p) == cmd[p] # "none" /\ building[p] = <<>>

(* Slip: a gate that all processes look into.                              *)
MutPendingIn(p) == {q \in Procs : stage[q] = "parked"}

(* approval_gate.list_pending() in p: the runs that wait there.            *)
PendingIn(p) == {q \in {p} : stage[q] = "parked"}

Prints(p, what) == said' = [said EXCEPT ![p] = what]

(* cmd_review(). *)
Review(p) ==
    /\ Ready(p) /\ cmd[p] = "review" /\ said[p] = "nothing"
    /\ Prints(p, IF PendingIn(p) = {} THEN "none pending" ELSE "table")
    /\ UNCHANGED <<connectionVars, cmd, stage, gmail_draft, decision, polls,
                   delivered, starts>>

(* cmd_approve(), cmd_reject(), for the draft of any run.                  *)
Decide(p, q) ==
    /\ Ready(p) /\ cmd[p] \in {"approve", "reject"} /\ said[p] = "nothing"
    /\ IF q \in PendingIn(p)
       THEN /\ decision' = [decision EXCEPT ![q] =
                   IF cmd[p] = "approve" THEN "APPROVED" ELSE "REJECTED"]
            /\ Prints(p, "decided")
       ELSE /\ Prints(p, "not found")
            /\ UNCHANGED decision
    /\ UNCHANGED <<connectionVars, cmd, stage, gmail_draft, polls, delivered, starts>>

-----------------------------------------------------------------------------
(* The run of a process. *)

(* _display_result(), and the driver's "=== RESULT ===".                   *)
Ends(p, what) ==
    /\ stage' = [stage EXCEPT ![p] = "over"]
    /\ Prints(p, what)

(* IngestStep: a mock always has the thread; Gmail has none of demo's id.  *)
Ingest(p) ==
    /\ Ready(p) /\ stage[p] = "start"
    /\ \/ /\ mode[p]["fetcher"] = "real" => cmd[p] # "demo"
          /\ stage' = [stage EXCEPT ![p] = "drafting"]
          /\ UNCHANGED said
       \/ /\ mode[p]["fetcher"] = "real"
          /\ Ends(p, "failed")
    /\ UNCHANGED <<connectionVars, cmd, gmail_draft, decision, polls, delivered, starts>>

(* The agent, the guardrails and ApprovalStep, up to the gate: Gmail keeps *)
(* the draft or does not answer; a step may fail.                          *)
Draft(p) ==
    /\ stage[p] = "drafting"
    /\ \/ /\ \E id \in IF mode[p]["draft"] = "mock" THEN {"mock"} ELSE {"real", "none"} :
                gmail_draft' = [gmail_draft EXCEPT ![p] = id]
          /\ stage' = [stage EXCEPT ![p] = "parked"]
          /\ UNCHANGED said
       \/ /\ Ends(p, "failed")
          /\ UNCHANGED gmail_draft
    /\ UNCHANGED <<connectionVars, cmd, decision, polls, delivered, starts>>

(* --approve, or not. *)
Verdict(p) == IF cmd[p] = "driver --approve" THEN "APPROVED" ELSE "REJECTED"

(* Slip: what the last look finds is not acted on.                         *)
MutDriverPolls(p) ==
    /\ cmd[p] \in Driven /\ Ready(p)
    /\ decision[p] = "NONE" /\ polls[p] < MaxPolls
    /\ polls' = [polls EXCEPT ![p] = @ + 1]
    /\ decision' = [decision EXCEPT ![p] =
           IF PendingIn(p) # {} /\ polls'[p] < MaxPolls THEN Verdict(p) ELSE @]
    /\ UNCHANGED <<connectionVars, cmd, stage, gmail_draft, said, delivered, starts>>

(* One look of run_demo.py at the gate: it decides what it finds.          *)
DriverPolls(p) ==
    /\ cmd[p] \in Driven /\ Ready(p)
    /\ decision[p] = "NONE" /\ polls[p] < MaxPolls
    /\ polls' = [polls EXCEPT ![p] = @ + 1]
    /\ decision' = [decision EXCEPT ![p] = IF PendingIn(p) # {} THEN Verdict(p) ELSE @]
    /\ UNCHANGED <<connectionVars, cmd, stage, gmail_draft, said, delivered, starts>>

(* The run comes back from the gate.                                       *)
Resume(p) ==
    /\ stage[p] = "parked" /\ decision[p] # "NONE"
    /\ IF decision[p] = "APPROVED"
       THEN stage' = [stage EXCEPT ![p] = "sending"] /\ UNCHANGED said
       ELSE Ends(p, "rejected")
    /\ UNCHANGED <<connectionVars, cmd, gmail_draft, decision, polls, delivered, starts>>

(* Slip: Gmail's answer is not looked at.                                  *)
MutSend(p) ==
    /\ stage[p] = "sending"
    /\ delivered' = [delivered EXCEPT ![p] = gmail_draft[p] = "real" /\ mode[p]["send"] = "real"]
    /\ Ends(p, "sent")
    /\ UNCHANGED <<connectionVars, cmd, gmail_draft, decision, polls, starts>>

(* SendStep: a mock answers "sent" and sends nothing; Gmail sends a draft  *)
(* it has, and its answer may be lost.                                     *)
Send(p) ==
    /\ stage[p] = "sending"
    /\ \/ /\ gmail_draft[p] # "none" /\ mode[p]["send"] = "mock"
          /\ Ends(p, "sent")
          /\ UNCHANGED delivered
       \/ /\ gmail_draft[p] = "real" /\ mode[p]["send"] = "real"
          /\ delivered' = [delivered EXCEPT ![p] = TRUE]
          /\ Ends(p, "sent") \/ Ends(p, "failed")
       \/ /\ gmail_draft[p] = "none" \/ mode[p]["send"] = "real"
          /\ Ends(p, "failed")
          /\ UNCHANGED delivered
    /\ UNCHANGED <<connectionVars, cmd, gmail_draft, decision, polls, starts>>

-----------------------------------------------------------------------------
(* The process ends, by itself or by Ctrl-C; its gate goes with it.        *)
Exit(p) ==
    /\ cmd[p] # "none"
    /\ cmd' = [cmd EXCEPT ![p] = "none"]
    /\ ForgetClients(p)
    /\ stage' = [stage EXCEPT ![p] = "none"]
    /\ gmail_draft' = [gmail_draft EXCEPT ![p] = "none"]
    /\ decision' = [decision EXCEPT ![p] = "NONE"]
    /\ polls' = [polls EXCEPT ![p] = 0]
    /\ said' = [said EXCEPT ![p] = "nothing"]
    /\ delivered' = [delivered EXCEPT ![p] = FALSE]
    /\ UNCHANGED starts

Connection(p) == ConnectionStep(p) /\ UNCHANGED <<cmd, runVars, starts>>

Next == \E p \in Procs :
           \/ \E c \in Commands[p] : Start(p, c)
           \/ Connection(p)
           \/ Review(p)
           \/ \E q \in Procs : Decide(p, q)
           \/ Ingest(p) \/ Draft(p) \/ DriverPolls(p) \/ Resume(p) \/ Send(p)
           \/ Exit(p)

(* Clients are constructed one after the other; only the browser waits for  *)
(* somebody. asyncio runs what can run; the LLM may take longer than 100   *)
(* looks.                                                                  *)
Fairness == /\ \A p \in Procs : WF_vars((LoadCredentials(p) \/ OpenBrowser(p) \/ SaveToken(p))
                                        /\ UNCHANGED <<cmd, runVars, starts>>)
            /\ \A p \in Procs : WF_vars(DriverPolls(p)) /\ WF_vars(Resume(p))
                                /\ WF_vars(Send(p))

Spec == Init /\ [][Next]_vars /\ Fairness

-----------------------------------------------------------------------------
TypeOK ==
    /\ ConnectionTypeOK
    /\ cmd \in [Procs -> Runs \cup Lookups \cup {"none"}]
    /\ stage \in [Procs -> {"none", "start", "drafting", "parked", "sending", "over"}]
    /\ gmail_draft \in [Procs -> {"none", "mock", "real"}]
    /\ decision \in [Procs -> {"NONE", "APPROVED", "REJECTED"}]
    /\ polls \in [Procs -> 0..MaxPolls]
    /\ said \in [Procs -> {"nothing", "none pending", "table", "decided",
                           "not found", "failed", "rejected", "sent"}]
    /\ delivered \in [Procs -> BOOLEAN]
    /\ starts \in 0..MaxStarts

(* The gate on the command line: no run of "process" or "demo" is ever     *)
(* decided, whatever commands are given in other terminals, and so none    *)
(* sends anything; "review" lists nothing, "approve" and "reject" find     *)
(* nothing.                                                                *)
OnlyTheDriverDecides ==
    \A p \in Procs :
        cmd[p] \notin Driven =>
            /\ decision[p] = "NONE"
            /\ ~delivered[p]
            /\ said[p] \notin {"table", "decided"}

(* What a process prints of its run is so: an e-mail left only under       *)
(* --approve; "sent" was sent, unless the client that sends is a mock; and *)
(* after "rejected" nothing left.                                          *)
PrintedOutcomeIsTrue ==
    \A p \in Procs :
        /\ delivered[p] => cmd[p] = "driver --approve" /\ said[p] \in {"sent", "failed"}
        /\ said[p] = "sent" => delivered[p] \/ mode[p]["send"] = "mock"
        /\ said[p] = "rejected" => cmd[p] = "driver"

(* A draft that reaches the gate while the driver still looks is decided,  *)
(* and its run ends.  (One that comes later waits for ever, and the driver *)
(* with it.)                                                               *)
DriverEndsInTime ==
    \A p \in Procs :
        (cmd[p] \in Driven /\ stage[p] = "parked" /\ polls[p] < MaxPolls)
            ~> (stage[p] \in {"over", "none"})
=============================================================================
