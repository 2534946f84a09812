------------------------------- MODULE MC_Gmm -------------------------------
(* One UE context with two FSM objects, enough for one in the registry and   *)
(* one that was dropped with an expiry still due.                            *)
EXTENDS Gmm, TLC

Symmetry == Permutations(Objs)

=============================================================================
