--------------------------- MODULE MCTeamCommands ---------------------------
EXTENDS TeamCommands, TLC

Alike == Permutations(Ids) \cup Permutations(Notes)
=============================================================================
