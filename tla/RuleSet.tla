------------------------------ MODULE RuleSet ------------------------------
(***************************************************************************)
(* What the rules of a PFCP session are to whoever sets them and to the     *)
(* packets: for each kind a set of rules with an identifier and a content.  *)
(* A rule is replaced in two steps at least, and while it is no other rule  *)
(* changes: whoever sets the rules works on one at a time.                  *)
(***************************************************************************)
EXTENDS Naturals, FiniteSets

CONSTANTS Kind,  \* kinds of rules
          Cap,   \* the most rules of each kind
          None   \* no rule is being set

VARIABLES rules,   \* triples of a kind, an identifier and a content
          setting  \* the kind and the identifier of the rule being set, or None

Named(n) == {r \in rules : <<r[1], r[2]>> = n}

Init == rules = {} /\ setting = None

\* The rule about to be set is out of sight.
Withdraw(n) ==
    /\ setting = None /\ setting' = n
    /\ rules' = rules \ Named(n)

\* A content of the rule being set is in sight: its last one, or one on the way.
Put(r) ==
    /\ setting = <<r[1], r[2]>>
    /\ setting' \in {setting, None}
    /\ rules' = (rules \ Named(setting)) \cup {r}
    /\ Cardinality({s \in rules' : s[1] = r[1]}) <= Cap[r[1]]

Drop(r) == setting = None /\ rules' = rules \ {r} /\ UNCHANGED setting

\* The session is created anew.
Clear == setting = None /\ rules' = {} /\ UNCHANGED setting

Next ==
    \/ setting' # None /\ Withdraw(setting')
    \/ \E r \in rules' : Put(r)
    \/ \E r \in rules : Drop(r)
    \/ Clear

Spec == Init /\ [][Next]_<<rules, setting>>
=============================================================================
