--------------------------- MODULE MC_UpfDownlink ---------------------------
(* Instances of UpfDownlink for TLC. *)
EXTENDS UpfDownlink
=============================================================================
