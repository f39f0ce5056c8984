--------------------------- MODULE MCSessionWork ---------------------------
EXTENDS SessionWork, TLC

CONSTANTS w1, w2   \* two sessions

OneAsksOther == {<<w1, w2>>}
=============================================================================
