------------------------------ MODULE UpfRules ------------------------------
(***************************************************************************)
(* The packet detection, forwarding, QoS and usage rules of one session of  *)
(* the UPF (upf_dp_api.c), the classifier that looks them up for a packet   *)
(* (upf_classifier.c) and the meters beside them (upf_qos_meter.c).         *)
(*                                                                         *)
(* Rules of a kind are an array of slots with a count.  A removed rule      *)
(* keeps its slot, marked inactive; the slot serves again for the same      *)
(* identifier, or for another one once the array is full.  The meter of a   *)
(* QoS rule is at the index of its slot, in an array the session does not   *)
(* own: it outlives the rule and the session.                              *)
(*                                                                         *)
(* The API thread changes a rule in the steps the packet thread can see:    *)
(* the slot is wiped, stamped, and then completed by the filters of a       *)
(* detection rule or the meter of a QoS rule.  A packet is one step.  A     *)
(* request for a rule that is not there, or that finds no slot, is refused  *)
(* and changes nothing.  The update of a forwarding rule is in UpfDownlink. *)
(***************************************************************************)
(* The contents of a rule: a detection rule has a precedence, a direction,  *)
(* a sequence of filters and the rules it refers to (0: none); a forwarding *)
(* rule has an action; a QoS rule has gates, maximum bit rates, and whether *)
(* it guarantees a rate.                                                    *)
(***************************************************************************)
EXTENDS Naturals, Sequences, FiniteSets

CONSTANTS Cap,        \* UPF_MAX_*_PER_SESSION, of each kind
          Id,         \* identifiers of rules, of each kind
          Body,       \* contents of rules, of each kind
          Class,      \* packets the filters tell apart
          Rate,       \* bit rates; 0 is unlimited
          Ambr,       \* Session-AMBRs
          MaxVolume,  \* bound: volume a usage rule counts
          NoPrec      \* UINT32_MAX, what the search for the best rule starts from

Kind == {"pdr", "far", "qer", "urr"}
Dir == {"ul", "dl"}
Rates == [Dir -> Rate]
Unlimited == [d \in Dir |-> 0]
Limited(rates) == \E d \in Dir : rates[d] > 0

ASSUME CapAssumption == Cap \in [Kind -> Nat \ {0}]
ASSUME IdAssumption == Id \in [Kind -> SUBSET (Nat \ {0})]
ASSUME RateAssumption == Rate \subseteq Nat /\ 0 \in Rate
ASSUME BodyAssumption == \A b \in Body["qer"] : b.mbr \in Rates
ASSUME PrecAssumption ==
    NoPrec \in Nat /\ \A b \in Body["pdr"] : "prec" \in DOMAIN b /\ b.prec \in 0..NoPrec
ASSUME AmbrAssumption == Ambr \subseteq Rates
ASSUME VolumeAssumption == MaxVolume \in Nat

VARIABLES table,      \* the slots in use of each kind
          volume,     \* counted by the usage rule of each slot
          meter,      \* upf_qer_meters: of each slot of a QoS rule
          ambr,       \* Session-AMBR
          ambrMeter,  \* upf_session_meters
          api         \* what the API thread is doing

vars == <<table, volume, meter, ambr, ambrMeter, api>>

Meter == [configured : BOOLEAN, rates : Rates]
NoMeter == [configured |-> FALSE, rates |-> Unlimited]
Idle == [pc |-> "idle"]
Busy(pc, kind) == api.pc = pc /\ api.kind = kind
Wiped(k) == [id |-> 0, active |-> FALSE, body |-> CHOOSE b \in Body[k] : TRUE]

TypeOK ==
    /\ \A k \in Kind :
        /\ Len(table[k]) <= Cap[k]
        /\ \A i \in DOMAIN table[k] : table[k][i].id \in Id[k] \cup {0}
    /\ volume \in [1..Cap["urr"] -> 0..MaxVolume]
    /\ meter \in [1..Cap["qer"] -> Meter]
    /\ ambr \in Rates /\ ambrMeter \in Meter
    /\ api.pc \in {"idle", "stamp", "filters", "meter", "rates", "ambr", "ambr_rates"}

NoRules == [k \in Kind |-> <<>>]

Init ==
    /\ table = NoRules
    /\ volume = [i \in 1..Cap["urr"] |-> 0]
    /\ meter = [i \in 1..Cap["qer"] |-> NoMeter]
    /\ ambr = Unlimited /\ ambrMeter = NoMeter
    /\ api = Idle

\* upf_session_create at the same index: the session is wiped, its meters not.
NewSession ==
    /\ api = Idle
    /\ table' = NoRules
    /\ volume' = [i \in 1..Cap["urr"] |-> 0]
    /\ ambr' = Unlimited
    /\ UNCHANGED <<meter, ambrMeter, api>>

-----------------------------------------------------------------------------
(* find_or_alloc_*_slot *)

Least(S) == CHOOSE i \in S : \A j \in S : i <= j
WithId(k, id) == {i \in DOMAIN table[k] : table[k][i].id = id}
Inactive(k) == {i \in DOMAIN table[k] : ~table[k][i].active}

\* Mutant: a full array gives its first slot away.
SlotFor_First(k, id) ==
    IF WithId(k, id) # {} THEN Least(WithId(k, id))
    ELSE IF Len(table[k]) < Cap[k] THEN Len(table[k]) + 1 ELSE 1

\* Mutant: an inactive slot is taken before the identifier is looked for.
SlotFor_InactiveFirst(k, id) ==
    IF Inactive(k) # {} THEN Least(Inactive(k))
    ELSE IF WithId(k, id) # {} THEN Least(WithId(k, id))
    ELSE IF Len(table[k]) < Cap[k] THEN Len(table[k]) + 1
    ELSE 0

\* The slot with the identifier, active or not; else the next one; else, the
\* array being full, the first that is inactive; 0 if there is none.
SlotFor(k, id) ==
    IF WithId(k, id) # {} THEN Least(WithId(k, id))
    ELSE IF Len(table[k]) < Cap[k] THEN Len(table[k]) + 1
    ELSE IF Inactive(k) # {} THEN Least(Inactive(k))
    ELSE 0

\* Mutant: every addition takes the next slot.
WithSlot_Appends(k, i, s) == [table EXCEPT ![k] = Append(@, s)]

\* The array of kind k with slot i, in use or the next one, set to s.
WithSlot(k, i, s) ==
    [table EXCEPT ![k] = IF i <= Len(@) THEN [@ EXCEPT ![i] = s] ELSE Append(@, s)]

-----------------------------------------------------------------------------
(* upf_dp_add_*: creation, and replacement of the rule with the identifier *)

\* A slot in use is wiped; the next one is out of sight until it is counted.
AddBegins(k, id, b) ==
    LET i == SlotFor(k, id) IN
    /\ api = Idle
    /\ i # 0
    /\ table' = IF i <= Len(table[k]) THEN WithSlot(k, i, Wiped(k)) ELSE table
    /\ api' = [pc |-> "stamp", kind |-> k, id |-> id, body |-> b, slot |-> i]
    /\ UNCHANGED <<volume, meter, ambr, ambrMeter>>

Rule(id, b) == [id |-> id, active |-> TRUE, body |-> b]

\* A detection rule in a slot in use is active before it has its filters.
StampPdr ==
    /\ Busy("stamp", "pdr")
    /\ table' = IF api.slot <= Len(table["pdr"])
                THEN WithSlot("pdr", api.slot,
                              Rule(api.id, [api.body EXCEPT !.filters = <<>>]))
                ELSE table
    /\ api' = [api EXCEPT !.pc = "filters"]
    /\ UNCHANGED <<volume, meter, ambr, ambrMeter>>

AddFilter ==
    /\ Busy("filters", "pdr")
    /\ api.slot <= Len(table["pdr"])
    /\ LET n == Len(table["pdr"][api.slot].body.filters) + 1 IN
        /\ n <= Len(api.body.filters)
        /\ table' = [table EXCEPT !["pdr"][api.slot].body.filters =
                                      Append(@, api.body.filters[n])]
    /\ UNCHANGED <<volume, meter, ambr, ambrMeter, api>>

\* The last filter is in: a slot that was not in use is now counted.
EndPdr ==
    /\ Busy("filters", "pdr")
    /\ api.slot <= Len(table["pdr"]) =>
           table["pdr"][api.slot].body.filters = api.body.filters
    /\ table' = WithSlot("pdr", api.slot, Rule(api.id, api.body))
    /\ api' = Idle
    /\ UNCHANGED <<volume, meter, ambr, ambrMeter>>

\* A usage rule starts from zero.
Stamp ==
    /\ api.pc = "stamp" /\ api.kind \in {"far", "urr"}
    /\ table' = WithSlot(api.kind, api.slot, Rule(api.id, api.body))
    /\ volume' = IF api.kind = "urr" THEN [volume EXCEPT ![api.slot] = 0] ELSE volume
    /\ api' = Idle
    /\ UNCHANGED <<meter, ambr, ambrMeter>>

\* Mutant: the meter of a slot that serves again is left as it is.
StampQer_NewOnly ==
    /\ Busy("stamp", "qer")
    /\ table' = WithSlot("qer", api.slot, Rule(api.id, api.body))
    /\ api' = IF Limited(api.body.mbr) /\ api.slot > Len(table["qer"])
              THEN [api EXCEPT !.pc = "meter"] ELSE Idle
    /\ UNCHANGED <<volume, meter, ambr, ambrMeter>>

\* A QoS rule without a limit leaves the meter as it is.
StampQer ==
    /\ Busy("stamp", "qer")
    /\ table' = WithSlot("qer", api.slot, Rule(api.id, api.body))
    /\ api' = IF Limited(api.body.mbr) THEN [api EXCEPT !.pc = "meter"] ELSE Idle
    /\ UNCHANGED <<volume, meter, ambr, ambrMeter>>

\* upf_qer_meter_configure, upf_session_meter_configure: a direction without a
\* limit has no profile, and one flag says that either has one.
Configured(rates) == [configured |-> Limited(rates), rates |-> rates]

ClearMeter ==
    /\ api.pc = "meter"
    /\ meter' = [meter EXCEPT ![api.slot] = NoMeter]
    /\ api' = [api EXCEPT !.pc = "rates"]
    /\ UNCHANGED <<table, volume, ambr, ambrMeter>>

SetMeter ==
    /\ api.pc = "rates"
    /\ meter' = [meter EXCEPT ![api.slot] = Configured(api.body.mbr)]
    /\ api' = Idle
    /\ UNCHANGED <<table, volume, ambr, ambrMeter>>

\* upf_dp_update_*: the identifier must be in a slot, active or not.
Update(k, id, b) ==
    /\ k # "far"
    /\ WithId(k, id) # {}
    /\ AddBegins(k, id, b)

\* upf_dp_remove_*: a forwarding rule also drops, should a packet hold it.
Remove(k, id) ==
    /\ api = Idle
    /\ \E i \in WithId(k, id) :
        /\ table[k][i].active
        /\ table' = [table EXCEPT ![k][i] =
                        [id |-> id, active |-> FALSE,
                         body |-> IF k = "far" THEN "drop" ELSE @.body]]
    /\ UNCHANGED <<volume, meter, ambr, ambrMeter, api>>

\* upf_dp_set_session_ambr
SetAmbr(rates) ==
    /\ api = Idle
    /\ ambr' = rates
    /\ api' = [pc |-> "ambr"]
    /\ UNCHANGED <<table, volume, meter, ambrMeter>>

ClearAmbrMeter ==
    /\ api.pc = "ambr"
    /\ ambrMeter' = NoMeter
    /\ api' = [pc |-> "ambr_rates"]
    /\ UNCHANGED <<table, volume, meter, ambr>>

SetAmbrMeter ==
    /\ api.pc = "ambr_rates"
    /\ ambrMeter' = Configured(ambr)
    /\ api' = Idle
    /\ UNCHANGED <<table, volume, meter, ambr>>

-----------------------------------------------------------------------------
(* upf_process_packet: a packet of class c in direction d *)

\* sdf_match and pdr_match: without filters every packet matches; otherwise
\* the first filter that matches decides.
Matches(s, c, d) ==
    /\ s.active
    /\ s.body.dir = d
    /\ LET f == s.body.filters
           Hit(i) == c \in f[i].classes
       IN  \/ f = <<>>
           \/ \E i \in DOMAIN f : /\ Hit(i) /\ ~f[i].deny
                                  /\ \A j \in 1..(i - 1) : ~Hit(j)

Precedence(i) == IF i = 0 THEN NoPrec ELSE table["pdr"][i].body.prec

\* Mutant: the last of equal rules.
Classify_Last(c, d) ==
    LET best[i \in 0..Len(table["pdr"])] ==
            IF i = 0 THEN 0
            ELSE IF /\ Matches(table["pdr"][i], c, d)
                    /\ Precedence(i) <= Precedence(best[i - 1])
                 THEN i ELSE best[i - 1]
    IN  best[Len(table["pdr"])]

\* upf_classify: the slot of the rule the search ends with, or 0.
Classify(c, d) ==
    LET best[i \in 0..Len(table["pdr"])] ==
            IF i = 0 THEN 0
            ELSE IF /\ Matches(table["pdr"][i], c, d)
                    /\ Precedence(i) < Precedence(best[i - 1])
                 THEN i ELSE best[i - 1]
    IN  best[Len(table["pdr"])]

\* find_far, find_qer, find_urr
Found(k, id) == {i \in WithId(k, id) : id > 0 /\ table[k][i].active}

\* What upf_*_meter_check may answer.  In a direction without a limit the
\* profile is all zeros, and the token buckets divide by its period.
Check(m, d) ==
    IF ~m.configured THEN {"green"}
    ELSE IF m.rates[d] = 0 THEN {"fault"}
    ELSE {"green", "red"}

\* The meter of a QoS rule is found by the identifier, in any slot.
QerCheck(q, d) ==
    IF Limited(q.body.mbr) THEN Check(meter[Least(WithId("qer", q.id))], d) ELSE {"green"}

AmbrCheck(gbr, d) ==
    IF ~gbr /\ Limited(ambr) THEN Check(ambrMeter, d) ELSE {"green"}

\* The second check is made of a packet the first lets through.
Then(first, second) ==
    (first \ {"green"}) \cup IF "green" \in first THEN second ELSE {}

\* What the checks of a packet of detection rule b may answer.
Policed(b, d) ==
    LET qers == Found("qer", b.qer)
        q == table["qer"][Least(qers)]
    IN  IF qers = {} THEN AmbrCheck(FALSE, d)
        ELSE IF ~q.body.open[d] THEN {"gate"}
        ELSE Then(QerCheck(q, d), AmbrCheck(q.body.gbr, d))

Min2(a, b) == IF a < b THEN a ELSE b

\* A packet that passes is counted by the usage rule.
Packet(c, d) ==
    LET i == Classify(c, d) IN
    /\ i # 0
    /\ LET b == table["pdr"][i].body IN
        /\ "green" \in Policed(b, d)
        /\ volume' = [u \in DOMAIN volume |->
              IF u \in Found("urr", b.urr) THEN Min2(volume[u] + 1, MaxVolume) ELSE volume[u]]
    /\ UNCHANGED <<table, meter, ambr, ambrMeter, api>>

-----------------------------------------------------------------------------
Next ==
    \/ NewSession
    \/ \E k \in Kind : \E id \in Id[k] :
        \/ Remove(k, id)
        \/ \E b \in Body[k] : AddBegins(k, id, b) \/ Update(k, id, b)
    \/ StampPdr \/ AddFilter \/ EndPdr \/ Stamp \/ StampQer
    \/ ClearMeter \/ SetMeter
    \/ \E rates \in Ambr : SetAmbr(rates)
    \/ ClearAmbrMeter \/ SetAmbrMeter
    \/ \E c \in Class, d \in Dir : Packet(c, d)

Spec == Init /\ [][Next]_vars

-----------------------------------------------------------------------------
(* What must hold *)

\* An identifier has one slot, active or not, however the slots were reused:
\* the search of a QoS rule (active only) and the search of its meter (any
\* slot) then end at the same index.
OneSlotPerRule ==
    \A k \in Kind : \A i, j \in DOMAIN table[k] :
        i # j => table[k][i].id # table[k][j].id

\* A QoS rule in force has the meter of its own rates beside it, whatever rule,
\* or session, the index had before; likewise Session-AMBR.  The API thread
\* may still be at that meter.
MeterFollowsQer ==
    /\ \A i \in DOMAIN table["qer"] :
        LET q == table["qer"][i] IN
        \/ ~q.active \/ ~Limited(q.body.mbr)
        \/ api.pc \in {"meter", "rates"} /\ api.slot = i
        \/ meter[i] = [configured |-> TRUE, rates |-> q.body.mbr]
    /\ \/ ~Limited(ambr) \/ api.pc \in {"ambr", "ambr_rates"}
       \/ ambrMeter = [configured |-> TRUE, rates |-> ambr]

\* The search ends at a matching rule of least precedence, the first such, and
\* at none only if every matching rule has the precedence it starts from.
ClassifiesBest ==
    \A c \in Class, d \in Dir :
        LET match == {i \in DOMAIN table["pdr"] :
                         Matches(table["pdr"][i], c, d) /\ Precedence(i) < NoPrec}
            best == {i \in match : \A j \in match : Precedence(i) <= Precedence(j)}
        IN  IF match = {} THEN Classify(c, d) = 0
            ELSE Classify(c, d) \in best /\ \A i \in best : Classify(c, d) <= i

\* The rules are a RuleSet: the active slots, as triples.  An addition, a
\* replacement, a reclaimed slot never touch another rule.
live ==
    UNION {{<<k, table[k][i].id, table[k][i].body>> :
               i \in {j \in DOMAIN table[k] : table[k][j].active}} : k \in Kind}

setting ==
    IF api.pc \in {"stamp", "filters"} THEN <<api.kind, api.id>> ELSE <<>>

Rules == INSTANCE RuleSet WITH rules <- live, None <- <<>>
RuleSetSpec == Rules!Spec

\* A rate of 0 is unlimited (upf_types.h:213-214, upf_qos_meter.h:54): a packet in a
\* direction without a limit passes, whatever limit the other direction has.
UnlimitedPasses ==
    \A c \in Class, d \in Dir :
        LET i == Classify(c, d) IN
        i # 0 => "fault" \notin Policed(table["pdr"][i].body, d)
=============================================================================
