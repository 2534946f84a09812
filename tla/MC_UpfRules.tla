---------------------------- MODULE MC_UpfRules ----------------------------
(* Instances of UpfRules for TLC: two slots for three detection rules, one   *)
(* slot for two QoS rules, one forwarding and one usage rule.                *)
EXTENDS UpfRules

CONSTANTS web, other  \* classes of packets

MCCap == [k \in Kind |-> IF k = "pdr" THEN 2 ELSE 1]
MCId == [k \in Kind |-> CASE k = "pdr" -> 1..3 [] k = "qer" -> 1..2 [] OTHER -> {1}]

\* One rule for everything, and one for what is not web.
MCPdr ==
    {[prec |-> 2, dir |-> "ul", filters |-> <<>>, far |-> 1, qer |-> 1, urr |-> 1],
     [prec |-> 1, dir |-> "ul", filters |-> <<[classes |-> {web}, deny |-> TRUE],
                                              [classes |-> {web, other}, deny |-> FALSE]>>,
      far |-> 1, qer |-> 2, urr |-> 0]}

Qer(open, ul, dl) ==
    [open |-> [d \in Dir |-> open], mbr |-> [d \in Dir |-> IF d = "ul" THEN ul ELSE dl],
     gbr |-> FALSE]

BodyWith(qers) ==
    [k \in Kind |-> CASE k = "pdr" -> MCPdr [] k = "far" -> {"forward"}
                      [] k = "qer" -> qers [] OTHER -> {"volume"}]

MCAmbr == {Unlimited, [d \in Dir |-> 1]}

\* Rates limited in both directions or in none.
BothBody == BodyWith({Qer(TRUE, 1, 1), Qer(FALSE, 2, 2), Qer(TRUE, 0, 0)})

\* A rate limited in one direction only.
NoAmbr == {Unlimited}
OneBody == BodyWith({Qer(TRUE, 0, 1)})
=============================================================================
