-------------------------- MODULE CommandLineProofs --------------------------
(***************************************************************************)
(* The commands, their gates and their Gmail clients, for any set of       *)
(* terminals, any machine and any bounds.                                  *)
(*                                                                         *)
(* IInv adds to the types, for each process, who may be at the browser     *)
(* (AuthAt), why its clients are what they are (ClientsAt), what is left   *)
(* of a consent (GrantedAt), and how far its run and its decision agree    *)
(* with what it printed (RunAt).                                           *)
(***************************************************************************)
EXTENDS CommandLine, SequenceTheorems, TLAPS

(* Somebody is asked only where a browser can be opened, and a process     *)
(* that asked is disturbed.                                                *)
AuthAt(p) ==
    auth[p] # "idle" => /\ building[p] # <<>>
                        /\ disturbed[p]
                        /\ machine.libs /\ machine.secrets

(* Why an undisturbed process has the clients it has.  Without a client    *)
(* secret nobody writes the token file, so neither reason goes away.       *)
MadeUp == ~machine.libs \/ (~machine.secrets /\ ~HasToken)

ClientsAt(p) ==
    ~disturbed[p] =>
        \A c \in Clients : /\ mode[p][c] = "mock" => MadeUp
                           /\ mode[p][c] = "real" => ~MadeUp

(* A saved token that nobody wrote over can be read, so that its process   *)
(* is not on the way to the browser.                                       *)
GrantedAt(p) == granted[p] = "saved" => token_file = "whole" /\ auth[p] = "idle"

(* The run of a process: its clients are constructed before it starts, and *)
(* nobody but the driver decides.                                          *)
RunAt(p) ==
    /\ stage[p] # "none" => cmd[p] \in Runs
    /\ stage[p] \notin {"none", "start"} => building[p] = <<>>
    /\ decision[p] # "NONE" => cmd[p] \in Driven /\ decision[p] = Verdict(p)
    /\ stage[p] = "sending" => decision[p] = "APPROVED"
    /\ stage[p] # "over" => ~delivered[p] /\ said[p] \notin {"failed", "rejected", "sent"}
    /\ delivered[p] => decision[p] = "APPROVED" /\ said[p] \in {"sent", "failed"}
    /\ said[p] = "sent" => delivered[p] \/ mode[p]["send"] = "mock"
    /\ said[p] = "rejected" => decision[p] = "REJECTED"
    /\ said[p] \notin {"table", "decided"}

IInv == /\ TypeOK
        /\ \A p \in Procs : AuthAt(p) /\ ClientsAt(p) /\ GrantedAt(p) /\ RunAt(p)

-----------------------------------------------------------------------------
LEMMA InitIInv == Init => IInv
<1> SUFFICES ASSUME Init PROVE IInv
  OBVIOUS
<1>1. /\ machine \in Machines /\ token_file \in Files
      /\ building = [p \in Procs |-> <<>>] /\ auth = [p \in Procs |-> "idle"]
      /\ mode = [p \in Procs |-> NoClients] /\ disturbed = [p \in Procs |-> FALSE] /\ faults = 0
      /\ granted = [p \in Procs |-> "no"]
      /\ cmd = [p \in Procs |-> "none"] /\ stage = [p \in Procs |-> "none"]
      /\ gmail_draft = [p \in Procs |-> "none"] /\ decision = [p \in Procs |-> "NONE"]
      /\ polls = [p \in Procs |-> 0] /\ said = [p \in Procs |-> "nothing"]
      /\ delivered = [p \in Procs |-> FALSE] /\ starts = 0
  BY DEF Init, ConnectionInit, Files
<1>2. MaxFaults \in Nat /\ MaxPolls \in Nat /\ MaxStarts \in Nat
  BY ConnectionAssumption, CommandAssumption
<1>3. <<>> \in Seq(Clients)
  BY EmptySeq
<1>4. ConnectionTypeOK
  BY <1>1, <1>2, <1>3 DEF ConnectionTypeOK, NoClients
<1>5. TypeOK
  BY <1>1, <1>2, <1>4 DEF TypeOK
<1>6. \A p \in Procs : AuthAt(p) /\ ClientsAt(p) /\ GrantedAt(p) /\ RunAt(p)
  BY <1>1 DEF AuthAt, ClientsAt, GrantedAt, RunAt, NoClients
<1>. QED  BY <1>5, <1>6 DEF IInv

-----------------------------------------------------------------------------
(* The construction of clients. *)

LEMMA BuildingFacts ==
    ASSUME TypeOK, NEW p \in Procs, building[p] # <<>>
    PROVE  Head(building[p]) \in Clients /\ Tail(building[p]) \in Seq(Clients)
  BY HeadTailProperties DEF TypeOK, ConnectionTypeOK

LEMMA ConstructedFacts ==
    ASSUME TypeOK, NEW p \in Procs, building[p] # <<>>, NEW m \in {"mock", "real"},
           Constructed(p, m)
    PROVE  /\ building' \in [Procs -> Seq(Clients)]
           /\ mode' \in [Procs -> [Clients -> {"none", "mock", "real"}]]
           /\ auth' \in [Procs -> {"idle", "flow", "consent", "saving"}]
           /\ auth'[p] = "idle"
           /\ \A c \in Clients : mode'[p][c] \in {mode[p][c], m}
           /\ \A q \in Procs \ {p} : /\ auth'[q] = auth[q] /\ building'[q] = building[q]
                                     /\ mode'[q] = mode[q]
<1>1. /\ building \in [Procs -> Seq(Clients)] /\ auth \in [Procs -> {"idle", "flow", "consent", "saving"}]
      /\ mode \in [Procs -> [Clients -> {"none", "mock", "real"}]]
  BY DEF TypeOK, ConnectionTypeOK
<1>2. PICK h \in Clients : h = Head(building[p])
  BY BuildingFacts
<1>3. PICK t \in Seq(Clients) : t = Tail(building[p])
  BY BuildingFacts
<1>4. /\ mode' = [mode EXCEPT ![p] = [mode[p] EXCEPT ![h] = m]]
      /\ building' = [building EXCEPT ![p] = t]
      /\ auth' = [auth EXCEPT ![p] = "idle"]
  BY <1>2, <1>3 DEF Constructed
<1>5. [mode[p] EXCEPT ![h] = m] \in [Clients -> {"none", "mock", "real"}]
  BY <1>1
<1>. QED  BY <1>1, <1>4, <1>5

(* What is constructed agrees with the reason there is for it.             *)
LEMMA ConstructedKeeps ==
    ASSUME IInv, NEW p \in Procs, building[p] # <<>>, NEW m \in {"mock", "real"},
           Constructed(p, m), MadeUp' <=> MadeUp, disturbed' \in [Procs -> BOOLEAN],
           \A q \in Procs \ {p} : disturbed'[q] = disturbed[q], UNCHANGED machine,
           disturbed'[p] \/ (~disturbed[p] /\ (m = "mock" => MadeUp) /\ (m = "real" => ~MadeUp))
    PROVE  \A q \in Procs : AuthAt(q)' /\ ClientsAt(q)'
<1>1. /\ auth'[p] = "idle" /\ \A c \in Clients : mode'[p][c] \in {mode[p][c], m}
      /\ \A q \in Procs \ {p} : /\ auth'[q] = auth[q] /\ building'[q] = building[q]
                                /\ mode'[q] = mode[q]
  BY ConstructedFacts DEF IInv
<1>2. \A q \in Procs : AuthAt(q) /\ ClientsAt(q)
  BY DEF IInv
<1>3. AuthAt(p)' /\ ClientsAt(p)'
  <2>1. AuthAt(p)'
    BY <1>1 DEF AuthAt
  <2>2. ASSUME ~disturbed'[p], NEW c \in Clients
        PROVE  (mode'[p][c] = "mock" => MadeUp') /\ (mode'[p][c] = "real" => ~MadeUp')
    <3>1. (mode[p][c] = "mock" => MadeUp) /\ (mode[p][c] = "real" => ~MadeUp)
      BY <1>2, <2>2 DEF ClientsAt
    <3>. QED  BY <3>1, <1>1, <2>2
  <2>. QED  BY <2>1, <2>2 DEF ClientsAt
<1>4. ASSUME NEW q \in Procs \ {p} PROVE AuthAt(q)' /\ ClientsAt(q)'
  BY <1>1, <1>2 DEF AuthAt, ClientsAt
<1>. QED  BY <1>3, <1>4

(* Where there is no client secret, nobody writes the token file.          *)
LEMMA ReasonStays ==
    ASSUME IInv, NEW p \in Procs, ConnectionStep(p)
    PROVE  UNCHANGED machine /\ (MadeUp' <=> MadeUp)
<1>1. UNCHANGED machine
  BY DEF ConnectionStep, LoadCredentials, OpenBrowser, Refuse, Consent, SaveToken,
                SaveFails
<1>2. UNCHANGED token_file \/ (machine.libs /\ machine.secrets)
  <2>1. AuthAt(p)
    BY DEF IInv
  <2>. QED  BY <2>1 DEF AuthAt, ConnectionStep, LoadCredentials, OpenBrowser, Refuse,
                     Consent, SaveToken, SaveFails
<1>. QED  BY <1>1, <1>2 DEF MadeUp, HasToken

(* A consent that was saved is no longer counted on once somebody writes   *)
(* the file, and until then the file can be read.                          *)
LEMMA GrantsKeep ==
    ASSUME IInv, NEW p \in Procs, ConnectionStep(p)
    PROVE  /\ granted' \in [Procs -> {"no", "saved", "rewritten"}]
           /\ \A q \in Procs : GrantedAt(q)'
<1>1. /\ auth \in [Procs -> {"idle", "flow", "consent", "saving"}]
      /\ granted \in [Procs -> {"no", "saved", "rewritten"}]
      /\ \A q \in Procs : GrantedAt(q)
  BY DEF IInv, TypeOK, ConnectionTypeOK
<1>2. ASSUME NEW m, Constructed(p, m)
      PROVE  auth'[p] = "idle" /\ \A q \in Procs \ {p} : auth'[q] = auth[q]
  BY <1>1, <1>2 DEF Constructed
<1>3. ASSUME UNCHANGED <<token_file, granted>>, granted[p] # "saved" \/ auth'[p] = "idle",
             \A q \in Procs \ {p} : auth'[q] = auth[q]
      PROVE  /\ granted' \in [Procs -> {"no", "saved", "rewritten"}]
             /\ \A q \in Procs : GrantedAt(q)'
  BY <1>1, <1>3 DEF GrantedAt
<1>4. ASSUME NEW g \in {"no", "saved", "rewritten"}, Writes(p, g),
             g = "saved" => token_file' = "whole" /\ auth'[p] = "idle"
      PROVE  /\ granted' \in [Procs -> {"no", "saved", "rewritten"}]
             /\ \A q \in Procs : GrantedAt(q)'
  BY <1>1, <1>4 DEF Writes, GrantedAt
<1>5. CASE LoadCredentials(p)
  <2>1. CASE \E m : Constructed(p, m)
    BY <1>2, <1>3, <1>5, <2>1 DEF LoadCredentials
  <2>2. CASE auth' = [auth EXCEPT ![p] = "flow"] /\ ~HasToken
    <3>1. granted[p] # "saved"
      BY <1>1, <2>2 DEF GrantedAt, HasToken
    <3>. QED  BY <1>1, <1>3, <1>5, <2>2, <3>1 DEF LoadCredentials
  <2>. QED  BY <1>5, <2>1, <2>2 DEF LoadCredentials, Connects, BuildFails
<1>6. CASE OpenBrowser(p)
  BY <1>1, <1>3, <1>6 DEF OpenBrowser, GrantedAt
<1>7. CASE Refuse(p)
  BY <1>2, <1>3, <1>7 DEF Refuse
<1>8. granted[p] \in {"no", "saved", "rewritten"} /\ (auth[p] # "idle" => granted[p] # "saved")
  BY <1>1 DEF GrantedAt
<1>9. CASE Consent(p)
  BY <1>4, <1>8, <1>9 DEF Consent
<1>10. CASE SaveToken(p)
  <2>1. auth'[p] = "idle"
    BY <1>2, <1>10 DEF SaveToken, Connects, BuildFails
  <2>2. CASE token_file' = "whole"
    BY <1>4, <1>10, <2>1, <2>2 DEF SaveToken
  <2>3. CASE token_file' # "whole"
    BY <1>4, <1>10, <2>3 DEF SaveToken
  <2>. QED  BY <2>2, <2>3
<1>11. CASE SaveFails(p)
  BY <1>4, <1>8, <1>11 DEF SaveFails
<1>. QED  BY <1>5, <1>6, <1>7, <1>9, <1>10, <1>11 DEF ConnectionStep

LEMMA ConnectionKeeps ==
    ASSUME IInv, NEW p \in Procs, Connection(p)
    PROVE  IInv'
<1>1. /\ TypeOK /\ AuthAt(p) /\ ClientsAt(p) /\ RunAt(p)
      /\ machine \in Machines /\ token_file \in Files
      /\ building \in [Procs -> Seq(Clients)] /\ auth \in [Procs -> {"idle", "flow", "consent", "saving"}]
      /\ mode \in [Procs -> [Clients -> {"none", "mock", "real"}]]
      /\ disturbed \in [Procs -> BOOLEAN] /\ faults \in 0..MaxFaults /\ MaxFaults \in Nat
  BY ConnectionAssumption DEF IInv, TypeOK, ConnectionTypeOK
<1>2. ConnectionStep(p) /\ UNCHANGED <<cmd, runVars, starts>>
  BY DEF Connection
<1>3. UNCHANGED machine /\ (MadeUp' <=> MadeUp)
  BY <1>2, ReasonStays
<1>4. building[p] # <<>>
  BY <1>1, <1>2 DEF AuthAt, ConnectionStep, LoadCredentials, OpenBrowser, Refuse,
                     Consent, SaveToken, SaveFails
<1> DEFINE Moves(m) ==
             /\ Constructed(p, m)
             /\ disturbed' \in {disturbed, [disturbed EXCEPT ![p] = TRUE]}
             /\ token_file' \in Files /\ faults' \in 0..MaxFaults
             /\ disturbed'[p] \/ (~disturbed[p] /\ (m = "mock" => MadeUp) /\ (m = "real" => ~MadeUp))
           Asks ==
             /\ \E a \in {"flow", "consent", "saving"} : auth' = [auth EXCEPT ![p] = a]
             /\ disturbed' \in {disturbed, [disturbed EXCEPT ![p] = TRUE]} /\ disturbed'[p]
             /\ token_file' \in Files /\ machine.libs /\ machine.secrets
             /\ UNCHANGED <<building, mode, faults>>
<1>5. Asks \/ \E m \in {"mock", "real"} : Moves(m)
  <2>1. CASE LoadCredentials(p)
    <3>1. CASE machine.libs /\ HasToken /\ Connects(p) /\ UNCHANGED token_file
      BY <3>1, <1>1 DEF Connects, MadeUp
    <3>2. CASE machine.libs /\ HasToken /\ BuildFails(p) /\ UNCHANGED token_file
      BY <3>2, <1>1 DEF BuildFails
    <3>3. CASE /\ machine.libs /\ ~HasToken /\ machine.secrets /\ UNCHANGED token_file
               /\ auth' = [auth EXCEPT ![p] = "flow"]
               /\ disturbed' = [disturbed EXCEPT ![p] = TRUE]
               /\ UNCHANGED <<building, mode, faults>>
      BY <3>3, <1>1
    <3>4. CASE /\ ~machine.libs \/ (~HasToken /\ ~machine.secrets)
               /\ Constructed(p, "mock") /\ UNCHANGED <<token_file, disturbed, faults>>
      BY <3>4, <1>1 DEF MadeUp
    <3>. QED  BY <2>1, <3>1, <3>2, <3>3, <3>4 DEF LoadCredentials
  <2>2. CASE Refuse(p)
    BY <2>2, <1>1 DEF Refuse, AuthAt
  <2>6. CASE OpenBrowser(p)
    BY <2>6, <1>1 DEF OpenBrowser, AuthAt
  <2>3. CASE Consent(p)
    BY <2>3, <1>1 DEF Consent, AuthAt, Files, Tokens
  <2>4. CASE SaveToken(p)
    BY <2>4, <1>1 DEF SaveToken, Connects, BuildFails, AuthAt, Files, Tokens
  <2>5. CASE SaveFails(p)
    BY <2>5, <1>1 DEF SaveFails, AuthAt, Files, Tokens
  <2>. QED  BY <1>2, <2>1, <2>2, <2>3, <2>4, <2>5, <2>6 DEF ConnectionStep
<1>6. /\ ConnectionTypeOK' /\ \A q \in Procs : AuthAt(q)' /\ ClientsAt(q)'
      /\ \A q \in Procs \ {p} : building'[q] = building[q] /\ mode'[q] = mode[q]
  <2>1. CASE Asks
    <3>1. /\ auth' \in [Procs -> {"idle", "flow", "consent", "saving"}] /\ disturbed' \in [Procs -> BOOLEAN]
          /\ \A q \in Procs \ {p} : auth'[q] = auth[q] /\ disturbed'[q] = disturbed[q]
      BY <2>1, <1>1
    <3>2. ConnectionTypeOK'
      BY <3>1, <2>1, <1>1, <1>2, <1>3, GrantsKeep DEF ConnectionTypeOK
    <3>3. \A q \in Procs : AuthAt(q) /\ ClientsAt(q)
      BY DEF IInv
    <3>4. AuthAt(p)' /\ ClientsAt(p)'
      BY <2>1, <1>3, <1>4 DEF AuthAt, ClientsAt
    <3>5. ASSUME NEW q \in Procs \ {p} PROVE AuthAt(q)' /\ ClientsAt(q)'
      BY <2>1, <3>1, <3>3, <1>3 DEF AuthAt, ClientsAt
    <3>. QED  BY <2>1, <3>2, <3>4, <3>5
  <2>2. ASSUME NEW m \in {"mock", "real"}, Moves(m) PROVE <1>6!1 /\ <1>6!2
    <3>1. /\ building' \in [Procs -> Seq(Clients)]
          /\ mode' \in [Procs -> [Clients -> {"none", "mock", "real"}]]
          /\ auth' \in [Procs -> {"idle", "flow", "consent", "saving"}]
          /\ \A q \in Procs \ {p} : building'[q] = building[q] /\ mode'[q] = mode[q]
      BY <2>2, <1>1, <1>4, ConstructedFacts
    <3>2. disturbed' \in [Procs -> BOOLEAN] /\ \A q \in Procs \ {p} : disturbed'[q] = disturbed[q]
      BY <2>2, <1>1
    <3>3. ConnectionTypeOK'
      BY <2>2, <3>1, <3>2, <1>1, <1>2, <1>3, GrantsKeep DEF ConnectionTypeOK
    <3>4. \A q \in Procs : AuthAt(q)' /\ ClientsAt(q)'
      BY <2>2, <3>2, <1>3, <1>4, ConstructedKeeps
    <3>. QED  BY <3>1, <3>3, <3>4
  <2>. QED  BY <1>5, <2>1, <2>2
<1>7. stage[p] \in {"none", "start"}
  BY <1>1, <1>4 DEF RunAt
<1>8. ASSUME NEW q \in Procs PROVE RunAt(q)'
  <2>1. RunAt(q)
    BY DEF IInv
  <2>2. CASE q = p
    BY <2>1, <2>2, <1>2, <1>7 DEF RunAt, runVars, Verdict
  <2>3. CASE q # p
    BY <2>1, <2>3, <1>2, <1>6 DEF RunAt, runVars, Verdict
  <2>. QED  BY <2>2, <2>3
<1>9. TypeOK'
  BY <1>1, <1>2, <1>6 DEF TypeOK, runVars
<1>. QED  BY <1>2, <1>6, <1>8, <1>9, GrantsKeep DEF IInv

-----------------------------------------------------------------------------
(* The steps of the commands: they leave the clients alone, or build or    *)
(* forget those of their own process.                                      *)

LEMMA Bounds == MaxFaults \in Nat /\ MaxPolls \in Nat /\ MaxStarts \in Nat
  BY ConnectionAssumption, CommandAssumption

LEMMA ConnectionTypesStay ==
    ASSUME TypeOK, UNCHANGED connectionVars
    PROVE  ConnectionTypeOK'
<1>1. ConnectionTypeOK /\ UNCHANGED <<machine, token_file, building, auth, mode, disturbed, granted, faults>>
  BY DEF TypeOK, connectionVars
<1>. QED  BY <1>1 DEF ConnectionTypeOK

(* A step of p that leaves connections alone keeps IInv, if it keeps p's   *)
(* types and the state of its run.                                         *)
LEMMA RunStepKeeps ==
    ASSUME IInv, NEW p \in Procs, UNCHANGED <<connectionVars, starts>>, TypeOK', RunAt(p)',
           \A q \in Procs \ {p} :
               /\ cmd'[q] = cmd[q] /\ stage'[q] = stage[q] /\ decision'[q] = decision[q]
               /\ said'[q] = said[q] /\ delivered'[q] = delivered[q]
    PROVE  IInv'
<1>1. ASSUME NEW q \in Procs PROVE AuthAt(q)' /\ ClientsAt(q)' /\ GrantedAt(q)' /\ RunAt(q)'
  <2>1. AuthAt(q) /\ ClientsAt(q) /\ GrantedAt(q) /\ RunAt(q)
    BY DEF IInv
  <2>2. AuthAt(q)' /\ ClientsAt(q)' /\ GrantedAt(q)'
    BY <2>1 DEF AuthAt, ClientsAt, GrantedAt, connectionVars, MadeUp, HasToken
  <2>3. RunAt(q)'
    <3>1. CASE q = p
      BY <3>1
    <3>2. CASE q # p
      BY <2>1, <3>2 DEF RunAt, connectionVars, Verdict
    <3>. QED  BY <3>1, <3>2
  <2>. QED  BY <2>2, <2>3
<1>. QED  BY <1>1 DEF IInv

LEMMA StartKeeps ==
    ASSUME IInv, NEW p \in Procs, NEW c \in Commands[p], Start(p, c)
    PROVE  IInv'
<1>1. c \in Runs \cup Lookups
  BY CommandAssumption
<1>2. TypeOK /\ RunAt(p)
  BY DEF IInv
<1>3. /\ cmd[p] = "none" /\ cmd' = [cmd EXCEPT ![p] = c]
      /\ stage' = [stage EXCEPT ![p] = IF c \in Runs THEN "start" ELSE "none"]
      /\ UNCHANGED <<machine, token_file, auth, mode, disturbed, granted, faults,
                     gmail_draft, decision, polls, said, delivered>>
  BY DEF Start
<1>4. PICK s \in Seq(Clients) : s # <<>> /\ building' = [building EXCEPT ![p] = s]
  <2>1. /\ RegistryClients \o OrchestratorClients \in Seq(Clients)
        /\ RegistryClients \in Seq(Clients)
        /\ RegistryClients \o OrchestratorClients # <<>> /\ RegistryClients # <<>>
    BY DEF RegistryClients, OrchestratorClients, Clients
  <2>. QED  BY <2>1 DEF Start
<1>5. starts' \in 0..MaxStarts
  <2>1. starts \in 0..MaxStarts /\ starts < MaxStarts /\ starts' = starts + 1
    BY <1>2 DEF TypeOK, Start
  <2>. QED  BY <2>1, Bounds
<1>6. ConnectionTypeOK'
  BY <1>2, <1>3, <1>4 DEF TypeOK, ConnectionTypeOK
<1>7. TypeOK'
  BY <1>1, <1>2, <1>3, <1>5, <1>6 DEF TypeOK, Runs
<1>8. \A q \in Procs : q # p => building'[q] = building[q]
  BY <1>2, <1>4 DEF TypeOK, ConnectionTypeOK
<1>9. ASSUME NEW q \in Procs PROVE AuthAt(q)' /\ ClientsAt(q)' /\ GrantedAt(q)' /\ RunAt(q)'
  <2>1. AuthAt(q) /\ ClientsAt(q) /\ GrantedAt(q) /\ RunAt(q)
    BY DEF IInv
  <2>2. ClientsAt(q)' /\ GrantedAt(q)'
    BY <2>1, <1>3 DEF ClientsAt, GrantedAt, MadeUp, HasToken
  <2>3. CASE q # p
    <3>1. cmd'[q] = cmd[q] /\ stage'[q] = stage[q]
      BY <1>2, <1>3, <2>3 DEF TypeOK
    <3>. QED  BY <2>1, <2>2, <2>3, <3>1, <1>3, <1>8 DEF AuthAt, RunAt, Verdict
  <2>4. CASE q = p
    <3>1. building'[p] # <<>>
      BY <1>2, <1>4 DEF TypeOK, ConnectionTypeOK
    <3>2. AuthAt(p)'
      BY <2>1, <2>4, <3>1, <1>3 DEF AuthAt
    <3>3. stage[p] = "none" /\ decision[p] = "NONE"
      BY <1>2, <1>3 DEF RunAt, Runs, Driven
    <3>4. /\ cmd'[p] = c
          /\ stage'[p] = "none" \/ (stage'[p] = "start" /\ c \in Runs)
      BY <1>2, <1>3 DEF TypeOK
    <3>5. RunAt(p)'
      BY <2>1, <2>4, <3>3, <3>4, <1>3 DEF RunAt
    <3>. QED  BY <2>2, <2>4, <3>2, <3>5
  <2>. QED  BY <2>3, <2>4
<1>. QED  BY <1>7, <1>9 DEF IInv

(* The gate of a process that is no run holds nothing.                     *)
LEMMA NothingPending ==
    ASSUME IInv, NEW p \in Procs, cmd[p] \in Lookups
    PROVE  PendingIn(p) = {}
<1>1. RunAt(p)
  BY DEF IInv
<1>2. stage[p] = "none"
  BY <1>1 DEF RunAt, Runs, Driven, Lookups
<1>. QED  BY <1>2 DEF PendingIn

LEMMA ReviewKeeps ==
    ASSUME IInv, NEW p \in Procs, Review(p)
    PROVE  IInv'
<1>1. TypeOK /\ RunAt(p)
  BY DEF IInv
<1>2. said' = [said EXCEPT ![p] = "none pending"]
  BY NothingPending DEF Review, Prints, Lookups
<1>3. UNCHANGED <<connectionVars, cmd, stage, gmail_draft, decision, polls, delivered, starts>>
  BY DEF Review
<1>4. TypeOK'
  BY <1>1, <1>2, <1>3, ConnectionTypesStay DEF TypeOK
<1>5. RunAt(p)'
  <2>1. said'[p] = "none pending" /\ stage[p] # "over" /\ ~delivered[p]
    BY <1>1, <1>2 DEF TypeOK, Review, RunAt, Runs, Driven
  <2>. QED  BY <2>1, <1>1, <1>3 DEF RunAt, connectionVars, Verdict
<1>6. \A q \in Procs \ {p} :
          /\ cmd'[q] = cmd[q] /\ stage'[q] = stage[q] /\ decision'[q] = decision[q]
          /\ said'[q] = said[q] /\ delivered'[q] = delivered[q]
  BY <1>1, <1>2, <1>3 DEF TypeOK
<1>. QED  BY <1>2, <1>3, <1>4, <1>5, <1>6, RunStepKeeps

LEMMA DecideKeeps ==
    ASSUME IInv, NEW p \in Procs, NEW r \in Procs, Decide(p, r)
    PROVE  IInv'
<1>1. TypeOK /\ RunAt(p)
  BY DEF IInv
<1>2. said' = [said EXCEPT ![p] = "not found"] /\ UNCHANGED decision
  BY NothingPending DEF Decide, Prints, Lookups
<1>3. UNCHANGED <<connectionVars, cmd, stage, gmail_draft, polls, delivered, starts>>
  BY DEF Decide
<1>4. TypeOK'
  BY <1>1, <1>2, <1>3, ConnectionTypesStay DEF TypeOK
<1>5. RunAt(p)'
  <2>1. said'[p] = "not found" /\ stage[p] # "over" /\ ~delivered[p]
    BY <1>1, <1>2 DEF TypeOK, Decide, RunAt, Runs, Driven
  <2>. QED  BY <2>1, <1>1, <1>2, <1>3 DEF RunAt, connectionVars, Verdict
<1>6. \A q \in Procs \ {p} :
          /\ cmd'[q] = cmd[q] /\ stage'[q] = stage[q] /\ decision'[q] = decision[q]
          /\ said'[q] = said[q] /\ delivered'[q] = delivered[q]
  BY <1>1, <1>2, <1>3 DEF TypeOK
<1>. QED  BY <1>2, <1>3, <1>4, <1>5, <1>6, RunStepKeeps

LEMMA IngestKeeps ==
    ASSUME IInv, NEW p \in Procs, Ingest(p)
    PROVE  IInv'
<1>1. TypeOK /\ RunAt(p) /\ stage[p] = "start" /\ building[p] = <<>>
  BY DEF IInv, Ingest, Ready
<1>2. /\ UNCHANGED <<connectionVars, cmd, gmail_draft, decision, polls, delivered, starts>>
      /\ \/ stage' = [stage EXCEPT ![p] = "drafting"] /\ UNCHANGED said
         \/ /\ stage' = [stage EXCEPT ![p] = "over"]
            /\ said' = [said EXCEPT ![p] = "failed"]
  BY DEF Ingest, Ends, Prints
<1>3. TypeOK'
  BY <1>1, <1>2, ConnectionTypesStay DEF TypeOK
<1>4. RunAt(p)'
  BY <1>1, <1>2 DEF TypeOK, RunAt, connectionVars, Verdict
<1>5. \A q \in Procs \ {p} :
          /\ cmd'[q] = cmd[q] /\ stage'[q] = stage[q] /\ decision'[q] = decision[q]
          /\ said'[q] = said[q] /\ delivered'[q] = delivered[q]
  BY <1>1, <1>2 DEF TypeOK
<1>. QED  BY <1>2, <1>3, <1>4, <1>5, RunStepKeeps

LEMMA DraftKeeps ==
    ASSUME IInv, NEW p \in Procs, Draft(p)
    PROVE  IInv'
<1>1. TypeOK /\ RunAt(p) /\ stage[p] = "drafting"
  BY DEF IInv, Draft
<1>2. /\ UNCHANGED <<connectionVars, cmd, decision, polls, delivered, starts>>
      /\ gmail_draft' \in [Procs -> {"none", "mock", "real"}]
      /\ \/ stage' = [stage EXCEPT ![p] = "parked"] /\ UNCHANGED said
         \/ /\ stage' = [stage EXCEPT ![p] = "over"]
            /\ said' = [said EXCEPT ![p] = "failed"]
  <2>1. \A id \in {"mock", "real", "none"} :
           [gmail_draft EXCEPT ![p] = id] \in [Procs -> {"none", "mock", "real"}]
    BY <1>1 DEF TypeOK
  <2>2. gmail_draft' = gmail_draft \/ \E id \in {"mock", "real", "none"} :
                                        gmail_draft' = [gmail_draft EXCEPT ![p] = id]
    BY DEF Draft
  <2>3. gmail_draft' \in [Procs -> {"none", "mock", "real"}]
    BY <2>1, <2>2, <1>1 DEF TypeOK
  <2>. QED  BY <2>3 DEF Draft, Ends, Prints
<1>3. TypeOK'
  BY <1>1, <1>2, ConnectionTypesStay DEF TypeOK
<1>4. RunAt(p)'
  BY <1>1, <1>2 DEF TypeOK, RunAt, connectionVars, Verdict
<1>5. \A q \in Procs \ {p} :
          /\ cmd'[q] = cmd[q] /\ stage'[q] = stage[q] /\ decision'[q] = decision[q]
          /\ said'[q] = said[q] /\ delivered'[q] = delivered[q]
  BY <1>1, <1>2 DEF TypeOK
<1>. QED  BY <1>2, <1>3, <1>4, <1>5, RunStepKeeps

LEMMA DriverPollsKeeps ==
    ASSUME IInv, NEW p \in Procs, DriverPolls(p)
    PROVE  IInv'
<1>1. TypeOK /\ RunAt(p) /\ cmd[p] \in Driven /\ decision[p] = "NONE"
  BY DEF IInv, DriverPolls
<1>2. /\ UNCHANGED <<connectionVars, cmd, stage, gmail_draft, said, delivered, starts>>
      /\ decision' \in {decision, [decision EXCEPT ![p] = Verdict(p)]}
  <2>1. decision = [decision EXCEPT ![p] = decision[p]]
    BY <1>1 DEF TypeOK
  <2>2. decision' = [decision EXCEPT ![p] = IF PendingIn(p) # {} THEN Verdict(p) ELSE decision[p]]
    BY DEF DriverPolls
  <2>. QED  BY <2>1, <2>2 DEF DriverPolls
<1>3. polls' \in [Procs -> 0..MaxPolls]
  <2>1. /\ polls \in [Procs -> 0..MaxPolls] /\ polls[p] < MaxPolls
        /\ polls' = [polls EXCEPT ![p] = polls[p] + 1]
    BY <1>1 DEF DriverPolls, TypeOK
  <2>2. polls[p] + 1 \in 0..MaxPolls
    BY <2>1, Bounds
  <2>. QED  BY <2>1, <2>2
<1>4. Verdict(p) \in {"APPROVED", "REJECTED"}
  BY DEF Verdict
<1>5. TypeOK'
  <2>1. decision' \in [Procs -> {"NONE", "APPROVED", "REJECTED"}]
    <3>1. decision \in [Procs -> {"NONE", "APPROVED", "REJECTED"}]
      BY <1>1 DEF TypeOK
    <3>2. PICK v \in {"APPROVED", "REJECTED"} : decision' \in {decision, [decision EXCEPT ![p] = v]}
      BY <1>2, <1>4
    <3>. QED  BY <3>1, <3>2
  <2>. QED  BY <2>1, <1>1, <1>2, <1>3, ConnectionTypesStay DEF TypeOK
<1>6. RunAt(p)'
  <2>1. decision'[p] \in {"NONE", Verdict(p)}
    BY <1>1, <1>2 DEF TypeOK
  <2>3. Verdict(p)' = Verdict(p)
    BY <1>2 DEF Verdict
  <2>2. stage[p] # "sending" /\ ~delivered[p] /\ said[p] # "rejected"
    BY <1>1 DEF RunAt
  <2>. QED  BY <2>1, <2>2, <2>3, <1>1, <1>2 DEF RunAt, connectionVars
<1>7. \A q \in Procs \ {p} : decision'[q] = decision[q]
  BY <1>1, <1>2 DEF TypeOK
<1>. QED  BY <1>1, <1>2, <1>5, <1>6, <1>7, RunStepKeeps

LEMMA ResumeKeeps ==
    ASSUME IInv, NEW p \in Procs, Resume(p)
    PROVE  IInv'
<1>1. TypeOK /\ RunAt(p) /\ stage[p] = "parked" /\ decision[p] \in {"APPROVED", "REJECTED"}
  BY DEF IInv, Resume, TypeOK
<1>2. /\ UNCHANGED <<connectionVars, cmd, gmail_draft, decision, polls, delivered, starts>>
      /\ \/ /\ decision[p] = "APPROVED"
            /\ stage' = [stage EXCEPT ![p] = "sending"] /\ UNCHANGED said
         \/ /\ decision[p] = "REJECTED"
            /\ stage' = [stage EXCEPT ![p] = "over"]
            /\ said' = [said EXCEPT ![p] = "rejected"]
  BY <1>1 DEF Resume, Ends, Prints
<1>3. TypeOK'
  BY <1>1, <1>2, ConnectionTypesStay DEF TypeOK
<1>4. RunAt(p)'
  BY <1>1, <1>2 DEF TypeOK, RunAt, connectionVars, Verdict
<1>5. \A q \in Procs \ {p} :
          /\ cmd'[q] = cmd[q] /\ stage'[q] = stage[q] /\ decision'[q] = decision[q]
          /\ said'[q] = said[q] /\ delivered'[q] = delivered[q]
  BY <1>1, <1>2 DEF TypeOK
<1>. QED  BY <1>2, <1>3, <1>4, <1>5, RunStepKeeps

LEMMA SendKeeps ==
    ASSUME IInv, NEW p \in Procs, Send(p)
    PROVE  IInv'
<1>1. TypeOK /\ RunAt(p) /\ stage[p] = "sending" /\ decision[p] = "APPROVED" /\ ~delivered[p]
  BY DEF IInv, Send, RunAt
<1>2. /\ UNCHANGED <<connectionVars, cmd, gmail_draft, decision, polls, starts>>
      /\ stage' = [stage EXCEPT ![p] = "over"]
      /\ \/ /\ mode[p]["send"] = "mock" /\ UNCHANGED delivered
            /\ said' = [said EXCEPT ![p] = "sent"]
         \/ /\ delivered' = [delivered EXCEPT ![p] = TRUE]
            /\ \/ said' = [said EXCEPT ![p] = "sent"]
               \/ said' = [said EXCEPT ![p] = "failed"]
         \/ UNCHANGED delivered /\ said' = [said EXCEPT ![p] = "failed"]
  BY DEF Send, Ends, Prints
<1>3. TypeOK'
  BY <1>1, <1>2, ConnectionTypesStay DEF TypeOK
<1>4. RunAt(p)'
  BY <1>1, <1>2 DEF TypeOK, RunAt, connectionVars, Verdict
<1>5. \A q \in Procs \ {p} :
          /\ cmd'[q] = cmd[q] /\ stage'[q] = stage[q] /\ decision'[q] = decision[q]
          /\ said'[q] = said[q] /\ delivered'[q] = delivered[q]
  BY <1>1, <1>2 DEF TypeOK
<1>. QED  BY <1>2, <1>3, <1>4, <1>5, RunStepKeeps

LEMMA ExitKeeps ==
    ASSUME IInv, NEW p \in Procs, Exit(p)
    PROVE  IInv'
<1>1. TypeOK
  BY DEF IInv
<1>2. /\ UNCHANGED <<machine, token_file, faults, starts>>
      /\ cmd' = [cmd EXCEPT ![p] = "none"] /\ stage' = [stage EXCEPT ![p] = "none"]
      /\ building' = [building EXCEPT ![p] = <<>>] /\ auth' = [auth EXCEPT ![p] = "idle"]
      /\ mode' = [mode EXCEPT ![p] = NoClients]
      /\ disturbed' = [disturbed EXCEPT ![p] = FALSE]
      /\ granted' = [granted EXCEPT ![p] = "no"]
      /\ gmail_draft' = [gmail_draft EXCEPT ![p] = "none"]
      /\ decision' = [decision EXCEPT ![p] = "NONE"] /\ polls' = [polls EXCEPT ![p] = 0]
      /\ said' = [said EXCEPT ![p] = "nothing"] /\ delivered' = [delivered EXCEPT ![p] = FALSE]
  BY DEF Exit, ForgetClients
<1>3. NoClients \in [Clients -> {"none", "mock", "real"}] /\ <<>> \in Seq(Clients)
  BY EmptySeq DEF NoClients
<1>4. ConnectionTypeOK'
  BY <1>1, <1>2, <1>3 DEF TypeOK, ConnectionTypeOK
<1>5. TypeOK'
  <2>1. 0 \in 0..MaxPolls
    BY Bounds
  <2>. QED  BY <1>1, <1>2, <1>4, <2>1 DEF TypeOK
<1>6. ASSUME NEW q \in Procs PROVE AuthAt(q)' /\ ClientsAt(q)' /\ GrantedAt(q)' /\ RunAt(q)'
  <2>1. CASE q = p
    <3>1. /\ auth'[p] = "idle" /\ mode'[p] = NoClients /\ stage'[p] = "none"
          /\ decision'[p] = "NONE" /\ said'[p] = "nothing" /\ ~delivered'[p]
          /\ granted'[p] = "no"
      BY <1>1, <1>2 DEF TypeOK, ConnectionTypeOK
    <3>. QED  BY <2>1, <3>1 DEF AuthAt, ClientsAt, GrantedAt, RunAt, NoClients
  <2>2. CASE q # p
    <3>1. AuthAt(q) /\ ClientsAt(q) /\ GrantedAt(q) /\ RunAt(q)
      BY DEF IInv
    <3>2. /\ auth'[q] = auth[q] /\ building'[q] = building[q] /\ mode'[q] = mode[q]
          /\ disturbed'[q] = disturbed[q] /\ granted'[q] = granted[q]
      BY <1>1, <1>2, <2>2 DEF TypeOK, ConnectionTypeOK
    <3>3. /\ cmd'[q] = cmd[q] /\ stage'[q] = stage[q] /\ decision'[q] = decision[q]
          /\ said'[q] = said[q] /\ delivered'[q] = delivered[q]
      BY <1>1, <1>2, <2>2 DEF TypeOK
    <3>4. AuthAt(q)' /\ ClientsAt(q)' /\ GrantedAt(q)'
      BY <3>1, <3>2, <1>2 DEF AuthAt, ClientsAt, GrantedAt, MadeUp, HasToken
    <3>. QED  BY <3>1, <3>2, <3>3, <3>4 DEF RunAt, Verdict
  <2>. QED  BY <2>1, <2>2
<1>. QED  BY <1>5, <1>6 DEF IInv

LEMMA Inductive == IInv /\ [Next]_vars => IInv'
<1> SUFFICES ASSUME IInv, [Next]_vars PROVE IInv'
  OBVIOUS
<1>1. CASE UNCHANGED vars
  <2>1. /\ UNCHANGED <<machine, token_file, building, auth, mode, disturbed, granted, faults>>
        /\ UNCHANGED <<cmd, stage, gmail_draft, decision, polls, said, delivered, starts>>
    BY <1>1 DEF vars, runVars, connectionVars
  <2>2. TypeOK'
    BY <2>1 DEF IInv, TypeOK, ConnectionTypeOK
  <2>3. ASSUME NEW q \in Procs PROVE AuthAt(q)' /\ ClientsAt(q)' /\ GrantedAt(q)' /\ RunAt(q)'
    BY <2>1 DEF IInv, AuthAt, ClientsAt, GrantedAt, RunAt, MadeUp, HasToken, Verdict
  <2>. QED  BY <2>2, <2>3 DEF IInv
<1>2. CASE Next
  <2>1. PICK p \in Procs :
           \/ \E c \in Commands[p] : Start(p, c)
           \/ Connection(p)
           \/ Review(p)
           \/ \E q \in Procs : Decide(p, q)
           \/ Ingest(p) \/ Draft(p) \/ DriverPolls(p) \/ Resume(p) \/ Send(p)
           \/ Exit(p)
    BY <1>2 DEF Next
  <2>. QED  BY <2>1, StartKeeps, ConnectionKeeps, ReviewKeeps, DecideKeeps, IngestKeeps,
               DraftKeeps, DriverPollsKeeps, ResumeKeeps, SendKeeps, ExitKeeps
<1>. QED  BY <1>1, <1>2

LEMMA SpecIInv == Spec => []IInv
<1>. QED  BY InitIInv, Inductive, PTL DEF Spec

-----------------------------------------------------------------------------
(* The variables of the commands and of their Gmail clients keep their     *)
(* types, whatever commands are given in whatever terminals.               *)
THEOREM CommandsTypeCorrect == Spec => []TypeOK
<1>1. IInv => TypeOK
  BY DEF IInv
<1>. QED  BY <1>1, SpecIInv, PTL

(* The Gmail clients of a process that was shown no prompt and met no      *)
(* failing build() are all real or all made up, although each of them      *)
(* looks at the token file for itself while other processes rewrite it.    *)
THEOREM ClientsOfOneKind == Spec => []MixedOnlyWhenDisturbed
<1>1. IInv => MixedOnlyWhenDisturbed
  BY DEF IInv, ClientsAt, MixedOnlyWhenDisturbed
<1>. QED  BY <1>1, SpecIInv, PTL

(* No run is decided from another terminal, and none but the driver's is   *)
(* decided at all: "approve" and "reject" find nothing in the gate of      *)
(* their own process.                                                      *)
THEOREM NoDecisionAcrossProcesses == Spec => []OnlyTheDriverDecides
<1>1. IInv => OnlyTheDriverDecides
  <2> SUFFICES ASSUME IInv, NEW p \in Procs, cmd[p] \notin Driven
               PROVE  /\ decision[p] = "NONE"
                      /\ ~delivered[p]
                      /\ said[p] \notin {"table", "decided"}
    BY DEF OnlyTheDriverDecides
  <2>1. RunAt(p) /\ TypeOK
    BY DEF IInv
  <2>. QED  BY <2>1 DEF RunAt, TypeOK
<1>. QED  BY <1>1, SpecIInv, PTL

(* What a process prints of its run is what happened: an e-mail left only  *)
(* under --approve, "sent" was sent or the sender is a mock, and nothing   *)
(* left after "rejected".                                                  *)
THEOREM OutcomesAreTrue == Spec => []PrintedOutcomeIsTrue
<1>1. IInv => PrintedOutcomeIsTrue
  <2> SUFFICES ASSUME IInv, NEW p \in Procs
               PROVE  /\ delivered[p] => /\ cmd[p] = "driver --approve"
                                         /\ said[p] \in {"sent", "failed"}
                      /\ said[p] = "sent" => delivered[p] \/ mode[p]["send"] = "mock"
                      /\ said[p] = "rejected" => cmd[p] = "driver"
    BY DEF PrintedOutcomeIsTrue
  <2>1. RunAt(p)
    BY DEF IInv
  <2>. QED  BY <2>1 DEF RunAt, Verdict, Driven
<1>. QED  BY <1>1, SpecIInv, PTL

(* One consent is enough for all the Gmail clients of a process: none of   *)
(* them starts the interactive flow again, however the commands of other   *)
(* terminals interleave, unless one of these wrote the token file in       *)
(* between.                                                                *)
THEOREM OneConsentIsEnough == Spec => []ConsentLasts
<1>1. IInv => ConsentLasts
  BY DEF IInv, GrantedAt, ConsentLasts
<1>. QED  BY <1>1, SpecIInv, PTL
=============================================================================
