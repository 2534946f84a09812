-------------------------- MODULE MC_UpfReverseMap --------------------------
EXTENDS UpfReverseMap, TLC

Symmetric == Permutations(Key) \cup Permutations(Session)
=============================================================================
