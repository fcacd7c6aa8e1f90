------------------------ MODULE MCGuardrailPipeline ------------------------
EXTENDS GuardrailPipeline, TLC

CONSTANTS r1, r2, t1, t2

OneRun == {r1}
TwoRuns == {r1, r2}
OneThread == {t1}
TwoThreads == {t1, t2}

On == [enabled |-> TRUE, fail_mode |-> "default"]
Off == [enabled |-> FALSE, fail_mode |-> "default"]
File(rails) == [readable |-> TRUE, rails |-> rails, recipients |-> "environment"]
JudgesOn == [r \in Judges |-> On]
Overridden == ("pii_redactor" :> [enabled |-> TRUE, fail_mode |-> "CLOSED"])
           @@ ("banned_content" :> [enabled |-> TRUE, fail_mode |-> "OPEN"])
           @@ ("format_validator" :> Off) @@ ("length_rail" :> Off)
           @@ JudgesOn
NoOutputRails == [r \in Rails \ {"prompt_injection"} |->
                     IF r = "injection_intent" THEN On ELSE Off]
Misspelt == [r \in Rails |-> IF r = "pii_redactor"
                             THEN [enabled |-> TRUE, fail_mode |-> "misspelt"] ELSE Off]

NoFile == [File(<<>>) EXCEPT !.readable = FALSE]
EveryFile == {NoFile, File(JudgesOn), File(Misspelt),
              [File(Overridden) EXCEPT !.recipients = "nobody"]}
NoMistake == {NoFile, File(<<>>)}
JudgingFiles == {File(JudgesOn), [File(NoOutputRails) EXCEPT !.recipients = "own list"]}

Clean == [to |-> "listed", text |-> "fine", secret |-> FALSE, pii |-> FALSE]
TwoDrafts == {Clean, [Clean EXCEPT !.pii = TRUE]}
EveryDeterministicRail == Rails \ Judges
NoRail == {}
=============================================================================
