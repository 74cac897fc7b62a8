----------------------------- MODULE MCGoClient -----------------------------
\* GoClient on the bodies of MCBodies, with callers that cancel or do not.
EXTENDS GoClient, MCBodies

CONSTANT MaxCancel   \* the highest value of the flag cancel

SmallCancelAfters == -1 .. MaxCancel
============================================================================
