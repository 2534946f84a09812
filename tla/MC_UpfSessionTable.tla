------------------------- MODULE MC_UpfSessionTable -------------------------
EXTENDS UpfSessionTable, TLC

Symmetric == Permutations(Key)
=============================================================================
