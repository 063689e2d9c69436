------------------------- MODULE MCResponsesChain -------------------------
\* Small instances of ResponsesChain for TLC.
EXTENDS ResponsesChain

CONSTANTS l1, l2
TwoLoops == {l1, l2}
SamePrompt == [l \in TwoLoops |-> "task"]
=============================================================================
