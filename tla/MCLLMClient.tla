---------------------------- MODULE MCLLMClient ----------------------------
EXTENDS LLMClient

SomeRetries == {0, 1, 3}
AgentAndJudge == {Unlimited, 5}
=============================================================================
