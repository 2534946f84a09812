----------------------------- MODULE MC_NgapUe -----------------------------
(* The UEs of one gNB; two FSM objects a UE are enough for one in the        *)
(* registry and one that was dropped while it had a timer running.           *)
EXTENDS NgapUe, TLC

\* For the runs without liveness.
Symmetry == Permutations(Ues) \union Permutations(Gens)
=============================================================================
