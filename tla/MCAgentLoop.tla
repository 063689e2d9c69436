---------------------------- MODULE MCAgentLoop ----------------------------
\* Small instances of AgentLoop for TLC.
EXTENDS AgentLoop

CONSTANT s1
OneSteer == {s1}
=============================================================================
