---------------------------- MODULE MCToolAccess ----------------------------
EXTENDS ToolAccess

CONSTANTS t1, t2

TwoTasks == {t1, t2}
SomeNames == {"gmail_create_or_update_draft", "gmail_send_draft",
              "summarize_email_thread", "no_such_tool"}
AgentAndReviewer == {"OPERATOR", "REVIEWER"}
=============================================================================
