--------------------------- MODULE MCSessionStore ---------------------------
\* Two loops that save to one session.
EXTENDS SessionStore, TLC

MCSymmetry == Permutations(Agent)
=============================================================================
