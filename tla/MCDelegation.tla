---------------------------- MODULE MCDelegation ----------------------------
\* Two agents, three exchanges on one session, and a shared todo list.
EXTENDS Delegation, TLC

MCSymmetry == Permutations(Agent) \cup Permutations(Exchange)
=============================================================================
