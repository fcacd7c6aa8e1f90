-------------------------- MODULE GmailConnection --------------------------
(***************************************************************************)
(* src/integrations/gmail: how a process gets its Gmail clients.           *)
(*                                                                         *)
(* There is no shared connection.  The thread fetcher of the orchestrator  *)
(* and each of the three Gmail tools constructs a GmailClient of its own,  *)
(* one after the other, and each decides for itself, by what it finds at   *)
(* that moment, whether it talks to Gmail or makes up its answers.  What   *)
(* they share is the token file, which any process rewrites in place.      *)
(*                                                                         *)
(* Tokens are loaded without their expiry, so creds.expired is never true  *)
(* and the refresh branch of get_credentials() is not taken.               *)
(*                                                                         *)
(* External: the Google libraries, the browser in which somebody consents  *)
(* or does not, the disk.                                                  *)
(***************************************************************************)
EXTENDS Naturals, Sequences

CONSTANTS Procs,       \* processes of the application
          Machines,    \* what a process may find beside the token file
          MaxFaults    \* bound: failing build() calls and failing writes

Clients == {"fetcher", "reader", "draft", "send"}
Tokens == {"absent", "broken", "whole"}
Files == Tokens \cup {"empty"}      \* "empty": just opened for writing

ASSUME ConnectionAssumption ==
    /\ Machines \subseteq [libs : BOOLEAN, env_token : Tokens, secrets : BOOLEAN]
    /\ MaxFaults \in Nat

VARIABLES
    machine,       \* the Google libraries are installed; GMAIL_TOKEN_JSON;
                   \* settings.gmail_credentials_file exists,
                   \* and can be used
    token_file,    \* settings.gmail_token_file
    building,      \* per process: clients to construct, the first under way
    auth,          \* per process: where get_credentials() is for that client
    mode,          \* per process: _mock_mode of the clients constructed last
    disturbed,     \* per process: a prompt was called for, or build() failed
    granted,       \* history, per process: "saved" if somebody consented and
                   \* the token is in the file, "rewritten" if it was and
                   \* another process has written there since
    faults         \* bound counter

connectionVars == <<machine, token_file, building, auth, mode, disturbed, granted,
                    faults>>

(* The clients build_default_registry() and EmailWorkflowOrchestrator()    *)
(* construct, in order; a tool registered again replaces the first.        *)
RegistryClients == <<"reader", "draft", "send">>
OrchestratorClients == <<"fetcher">> \o RegistryClients

NoClients == [c \in Clients |-> "none"]

ConnectionInit ==
    /\ machine \in Machines
    /\ token_file \in Tokens
    /\ building = [p \in Procs |-> <<>>]
    /\ auth = [p \in Procs |-> "idle"]
    /\ mode = [p \in Procs |-> NoClients]
    /\ disturbed = [p \in Procs |-> FALSE]
    /\ granted = [p \in Procs |-> "no"]
    /\ faults = 0

(* Slip: a variable that does not parse hides the file.                    *)
MutHasToken == IF machine.env_token # "absent" THEN machine.env_token = "whole"
               ELSE token_file = "whole"

(* get_credentials() finds a token: in the environment, or else in the     *)
(* file; one that does not parse counts as none.                           *)
HasToken == machine.env_token = "whole" \/ token_file = "whole"

(* GmailClient._init_service() ends for the first client of the list.      *)
Constructed(p, m) ==
    /\ mode' = [mode EXCEPT ![p][Head(building[p])] = m]
    /\ building' = [building EXCEPT ![p] = Tail(@)]
    /\ auth' = [auth EXCEPT ![p] = "idle"]

(* build() takes the credentials.                                          *)
Connects(p) ==
    /\ Constructed(p, "real")
    /\ UNCHANGED <<disturbed, faults>>

(* Slip: a client whose build() failed is tried again, and again.          *)
MutBuildFails(p) ==
    /\ disturbed' = [disturbed EXCEPT ![p] = TRUE]
    /\ faults < MaxFaults
    /\ auth' = [auth EXCEPT ![p] = "retry"]
    /\ UNCHANGED <<building, mode, faults>>

(* build() raises: this client makes up its answers.                       *)
BuildFails(p) ==
    /\ faults < MaxFaults
    /\ faults' = faults + 1
    /\ disturbed' = [disturbed EXCEPT ![p] = TRUE]
    /\ Constructed(p, "mock")

(* Slip: the interactive flow is for a token file that is missing, not for *)
(* one that cannot be read.                                                *)
MutLoadCredentials(p) ==
    /\ building[p] # <<>> /\ auth[p] = "idle"
    /\ \/ /\ machine.libs /\ HasToken
          /\ Connects(p) \/ BuildFails(p)
       \/ /\ machine.libs /\ ~HasToken /\ machine.secrets /\ token_file = "absent"
          /\ auth' = [auth EXCEPT ![p] = "flow"]
          /\ disturbed' = [disturbed EXCEPT ![p] = TRUE]
          /\ UNCHANGED <<building, mode, faults>>
       \/ /\ ~machine.libs \/ (~HasToken /\ (~machine.secrets \/ token_file # "absent"))
          /\ Constructed(p, "mock")
          /\ UNCHANGED <<disturbed, faults>>
    /\ UNCHANGED <<machine, token_file, granted>>

(* get_credentials() looks for a token, and the client is constructed with *)
(* it; or else for a client secret, and the interactive flow begins.       *)
(* Without the libraries, or with neither of them, the client is a mock.   *)
LoadCredentials(p) ==
    /\ building[p] # <<>> /\ auth[p] = "idle"
    /\ \/ /\ machine.libs /\ HasToken
          /\ Connects(p) \/ BuildFails(p)
       \/ /\ machine.libs /\ ~HasToken /\ machine.secrets
          /\ auth' = [auth EXCEPT ![p] = "flow"]
          /\ disturbed' = [disturbed EXCEPT ![p] = TRUE]
          /\ UNCHANGED <<building, mode, faults>>
       \/ /\ ~machine.libs \/ (~HasToken /\ ~machine.secrets)
          /\ Constructed(p, "mock")
          /\ UNCHANGED <<disturbed, faults>>
    /\ UNCHANGED <<machine, token_file, granted>>

(* run_local_server() opens the browser, whatever has become of the token  *)
(* file since it was read.                                                 *)
OpenBrowser(p) ==
    /\ auth[p] = "flow"
    /\ auth' = [auth EXCEPT ![p] = "consent"]
    /\ UNCHANGED <<machine, token_file, building, mode, disturbed, granted, faults>>

(* run_local_server() fails, or is refused: a mock, for this client.       *)
Refuse(p) ==
    /\ auth[p] \in {"flow", "consent"}
    /\ Constructed(p, "mock")
    /\ UNCHANGED <<machine, token_file, disturbed, granted, faults>>

(* p writes the file: what others have saved there is not theirs any more. *)
Writes(p, g) ==
    granted' = [q \in Procs |-> CASE q = p           -> g
                                  [] granted[q] = "no" -> "no"
                                  [] OTHER             -> "rewritten"]

(* Somebody consents; _save_token() opens the file, which empties it.      *)
Consent(p) ==
    /\ auth[p] = "consent"
    /\ token_file' = "empty"
    /\ Writes(p, granted[p])
    /\ auth' = [auth EXCEPT ![p] = "saving"]
    /\ UNCHANGED <<machine, building, mode, disturbed, faults>>

(* json.dump() is through; build() follows.  What another process dumped   *)
(* since the file was opened is written over, and a longer token leaves    *)
(* its end behind.                                                         *)
SaveToken(p) ==
    /\ auth[p] = "saving"
    /\ token_file' \in IF token_file = "empty" THEN {"whole"} ELSE {"whole", "broken"}
    /\ Writes(p, IF token_file' = "whole" THEN "saved" ELSE "rewritten")
    /\ Connects(p) \/ BuildFails(p)
    /\ UNCHANGED machine

(* The disk refuses, all or the rest of it: the consent is lost with the   *)
(* exception.                                                              *)
SaveFails(p) ==
    /\ auth[p] = "saving"
    /\ faults < MaxFaults
    /\ faults' = faults + 1
    /\ token_file' \in {token_file, "broken"}
    /\ Writes(p, granted[p])
    /\ Constructed(p, "mock")
    /\ UNCHANGED <<machine, disturbed>>

(* The process is gone, with a file half written if it was saving.         *)
ForgetClients(p) ==
    /\ building' = [building EXCEPT ![p] = <<>>]
    /\ auth' = [auth EXCEPT ![p] = "idle"]
    /\ mode' = [mode EXCEPT ![p] = NoClients]
    /\ disturbed' = [disturbed EXCEPT ![p] = FALSE]
    /\ granted' = [granted EXCEPT ![p] = "no"]
    /\ UNCHANGED <<machine, token_file, faults>>

ConnectionStep(p) ==
    \/ LoadCredentials(p) \/ OpenBrowser(p) \/ Refuse(p) \/ Consent(p)
    \/ SaveToken(p) \/ SaveFails(p)

-----------------------------------------------------------------------------
ConnectionTypeOK ==
    /\ machine \in Machines
    /\ token_file \in Files
    /\ building \in [Procs -> Seq(Clients)]
    /\ auth \in [Procs -> {"idle", "flow", "consent", "saving"}]
    /\ mode \in [Procs -> [Clients -> {"none", "mock", "real"}]]
    /\ disturbed \in [Procs -> BOOLEAN]
    /\ granted \in [Procs -> {"no", "saved", "rewritten"}]
    /\ faults \in 0..MaxFaults

(* What is in the mailbox and what is made up is mixed in one process only *)
(* after a prompt or a failing build(): whatever another process does to   *)
(* the token file in between, the clients of an undisturbed process are of *)
(* one kind.                                                               *)
MixedOnlyWhenDisturbed ==
    \A p \in Procs :
        ~disturbed[p] => ~("mock" \in {mode[p][c] : c \in Clients}
                           /\ "real" \in {mode[p][c] : c \in Clients})

(* Somebody who consents does so for all of the clients of the process:    *)
(* with the token saved, no later client starts the interactive flow again *)
(* - unless another process has written the file since.                    *)
ConsentLasts ==
    \A p \in Procs : auth[p] \in {"flow", "consent"} => granted[p] # "saved"
=============================================================================
