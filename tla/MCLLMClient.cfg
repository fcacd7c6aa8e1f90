\* Every choice of provider, keys and packages; no attempt, one, and the
\* default of three; a caller without a limit and one whose limit falls into
\* the attempts.
CONSTANTS
    Unlimited = Unlimited
    Retries <- SomeRetries
    DEFAULT_RETRIES = 3
    TIMEOUT = 2
    Limits <- AgentAndJudge
SPECIFICATION Spec
INVARIANTS AnswersInTime OutcomeIsEarned
PROPERTIES CallEnds
\* The call returns.
CHECK_DEADLOCK FALSE
