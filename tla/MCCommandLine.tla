---------------------------- MODULE MCCommandLine ----------------------------
EXTENDS CommandLine

CONSTANTS p1, p2

TwoProcs == {p1, p2}

(* Runs in one terminal, the commands about them in the other.             *)
SomeCommands == [p \in TwoProcs |-> IF p = p1 THEN {"process"} \cup Driven
                                   ELSE {"review", "approve"}]

(* Nothing installed; a token in the environment; one that cannot be read, *)
(* which is as good as none, with a client secret for the browser; none,   *)
(* without.                                                                *)
SomeMachines == {[libs |-> FALSE, env_token |-> "absent", secrets |-> FALSE],
                 [libs |-> TRUE, env_token |-> "whole", secrets |-> TRUE],
                 [libs |-> TRUE, env_token |-> "broken", secrets |-> TRUE],
                 [libs |-> TRUE, env_token |-> "absent", secrets |-> FALSE]}
=============================================================================
