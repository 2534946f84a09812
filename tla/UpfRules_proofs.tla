--------------------------- MODULE UpfRules_proofs ---------------------------
(***************************************************************************)
(* Proofs about UpfRules, for arrays of any size and any rules: how the     *)
(* slots of removed rules serve again, and what that leaves true of the     *)
(* meters beside them.                                                     *)
(*                                                                         *)
(* The invariant adds to the properties what the API thread has chosen a    *)
(* slot for (ApiInv): no other slot of the kind has the identifier, and the *)
(* wiped slot, with identifier 0, is the one it is about to stamp.          *)
(***************************************************************************)
EXTENDS UpfRules, FiniteSetTheorems, SequenceTheorems, WellFoundedInduction, TLAPS

\* What a slot is; B stands for the contents that have been seen so far.
Slots(B) == [id : Nat, active : BOOLEAN, body : B]
TableOver(B) == table \in [Kind -> Seq(Slots(B))]

Shape ==
    /\ \E B : TableOver(B)
    /\ \A k \in Kind : Len(table[k]) <= Cap[k]

\* No slot of kind k but i has the identifier.
Others(k, i, id) == \A j \in DOMAIN table[k] : j # i => table[k][j].id # id

AtRule == {"stamp", "filters", "meter", "rates"}

ApiInv ==
    /\ api.pc \in {"idle", "ambr", "ambr_rates"} \cup AtRule
    /\ api.pc \in AtRule =>
        /\ api = [pc |-> api.pc, kind |-> api.kind, id |-> api.id,
                  body |-> api.body, slot |-> api.slot]
        /\ api.kind \in Kind /\ api.id \in Id[api.kind] /\ api.body \in Body[api.kind]
        /\ api.slot \in 1..Cap[api.kind]
        /\ api.slot <= Len(table[api.kind]) + 1
        /\ Others(api.kind, api.slot, api.id)
    /\ (api.pc = "stamp" /\ api.slot \in DOMAIN table[api.kind]) =>
          ~table[api.kind][api.slot].active
    /\ api.pc = "filters" =>
        /\ api.kind = "pdr"
        /\ api.slot \in DOMAIN table["pdr"] =>
              table["pdr"][api.slot] = Rule(api.id, table["pdr"][api.slot].body)
    /\ api.pc \in {"meter", "rates"} =>
        /\ api.kind = "qer" /\ api.slot \in DOMAIN table["qer"]
        /\ table["qer"][api.slot] = Rule(api.id, api.body)
        /\ Limited(api.body.mbr)

\* Only a wiped slot has no identifier of the kind.
IdInv ==
    \A k \in Kind : \A i \in DOMAIN table[k] :
        \/ table[k][i].id \in Id[k]
        \/ table[k][i].id = 0 /\ Busy("stamp", k) /\ api.slot = i

DataInv ==
    /\ volume \in [1..Cap["urr"] -> 0..MaxVolume]
    /\ meter \in [1..Cap["qer"] -> Meter]
    /\ ambr \in Rates /\ ambrMeter \in Meter

IInv == Shape /\ OneSlotPerRule /\ ApiInv /\ IdInv /\ DataInv /\ MeterFollowsQer
-----------------------------------------------------------------------------
(* Sequences of slots.                                                     *)

LEMMA ShapeFacts ==
  ASSUME Shape
  PROVE  /\ table = [k \in Kind |-> table[k]]
         /\ \A k \in Kind : /\ Len(table[k]) \in Nat
                            /\ DOMAIN table[k] = 1..Len(table[k])
                            /\ Len(table[k]) <= Cap[k]
         /\ \A k \in Kind : \A i \in DOMAIN table[k] :
              /\ table[k][i].id \in Nat /\ table[k][i].active \in BOOLEAN
              /\ table[k][i] = [id |-> table[k][i].id, active |-> table[k][i].active,
                                body |-> table[k][i].body]
<1>1. PICK B : TableOver(B) BY DEF Shape
<1>2. ASSUME NEW k \in Kind
      PROVE  /\ Len(table[k]) \in Nat /\ DOMAIN table[k] = 1..Len(table[k])
             /\ \A i \in DOMAIN table[k] : table[k][i] \in Slots(B)
  <2>1. table[k] \in Seq(Slots(B)) BY <1>1 DEF TableOver
  <2> QED BY <2>1, LenProperties, ElementOfSeq
<1>3. \A s \in Slots(B) : /\ s.id \in Nat /\ s.active \in BOOLEAN
                          /\ s = [id |-> s.id, active |-> s.active, body |-> s.body]
  BY DEF Slots
<1>4. table = [k \in Kind |-> table[k]] BY <1>1 DEF TableOver
<1> QED BY <1>2, <1>3, <1>4 DEF Shape

\* What a step that sets slot i of kind k to s does to the table.
Changed(k, i, s) ==
    /\ \A l \in Kind \ {k} : table'[l] = table[l]
    /\ i \in DOMAIN table'[k] /\ table'[k][i] = s
    /\ DOMAIN table[k] \subseteq DOMAIN table'[k]
    /\ \A j \in DOMAIN table'[k] :
          j # i => j \in DOMAIN table[k] /\ table'[k][j] = table[k][j]
    /\ i \in DOMAIN table[k] => DOMAIN table'[k] = DOMAIN table[k]
    /\ Len(table'[k]) \in Nat /\ DOMAIN table'[k] = 1..Len(table'[k])

LEMMA Grown ==
  ASSUME NEW B, NEW C, TableOver(B), B \subseteq C
  PROVE  TableOver(C)
<1>1. Slots(B) \subseteq Slots(C) BY DEF Slots
<1>2. \A k \in Kind : table[k] \in Seq(Slots(C))
  BY <1>1, SeqMonotonic DEF TableOver
<1> QED BY <1>2 DEF TableOver

LEMMA SetSlot ==
  ASSUME Shape, NEW k \in Kind, NEW i \in 1..Cap[k], i <= Len(table[k]) + 1,
         NEW s, s = [id |-> s.id, active |-> s.active, body |-> s.body],
         s.id \in Nat, s.active \in BOOLEAN, table' = WithSlot(k, i, s)
  PROVE  Shape' /\ Changed(k, i, s)
<1> DEFINE t == table[k]
           u == IF i <= Len(t) THEN [t EXCEPT ![i] = s] ELSE Append(t, s)
<1>1. PICK A : TableOver(A) BY DEF Shape
<1> DEFINE B == A \cup {s.body}
<1>2. TableOver(B) BY <1>1, Grown
<1>3. s \in Slots(B) BY DEF Slots
<1>4. t \in Seq(Slots(B)) BY <1>2 DEF TableOver
<1>5. Len(t) \in Nat /\ DOMAIN t = 1..Len(t) /\ Len(t) <= Cap[k] /\ Cap[k] \in Nat
  BY ShapeFacts, CapAssumption
<1>6. /\ u \in Seq(Slots(B)) /\ Len(u) \in Nat /\ Len(u) <= Cap[k] /\ DOMAIN u = 1..Len(u)
      /\ i \in 1..Len(u) /\ u[i] = s /\ 1..Len(t) \subseteq 1..Len(u)
      /\ \A j \in 1..Len(u) : j # i => j \in 1..Len(t) /\ u[j] = t[j]
      /\ i \in 1..Len(t) => Len(u) = Len(t)
  <2>1. CASE i <= Len(t)
    <3>1. i \in 1..Len(t) BY <2>1, <1>5
    <3>2. u = [t EXCEPT ![i] = s] BY <2>1
    <3>3. /\ u \in Seq(Slots(B)) /\ Len(u) = Len(t)
          /\ \A j \in 1..Len(t) : u[j] = IF j = i THEN s ELSE t[j]
      BY <3>1, <3>2, <1>3, <1>4, ExceptSeq
    <3> HIDE DEF u, t, B
    <3>4. DOMAIN u = 1..Len(u) /\ Len(u) \in Nat BY <3>3, LenProperties
    <3> QED BY <3>1, <3>3, <3>4, <1>5
  <2>2. CASE ~(i <= Len(t))
    <3>1. i = Len(t) + 1 BY <2>2, <1>5
    <3>2. u = Append(t, s) BY <2>2
    <3>3. /\ u \in Seq(Slots(B)) /\ Len(u) = Len(t) + 1
          /\ \A j \in 1..Len(t) : u[j] = t[j]
      BY <3>2, <1>3, <1>4, AppendProperties
    <3>4. u[Len(t) + 1] = s BY <3>2, <1>3, <1>4, AppendProperties
    <3> HIDE DEF u, t, B
    <3>5. DOMAIN u = 1..Len(u) /\ Len(u) \in Nat BY <3>3, LenProperties
    <3>6. Len(u) = i /\ i <= Cap[k] /\ i \in 1..Len(u) BY <3>1, <3>3, <1>5
    <3>7. ASSUME NEW j \in 1..Len(u), j # i
          PROVE  j \in 1..Len(t) /\ u[j] = t[j]
      BY <3>1, <3>3, <3>6, <3>7, <1>5
    <3>8. 1..Len(t) \subseteq 1..Len(u) /\ i \notin 1..Len(t) BY <3>1, <3>6, <1>5
    <3>9. u[i] = s BY <3>1, <3>4
    <3> QED BY <3>3, <3>5, <3>6, <3>7, <3>8, <3>9
  <2> QED BY <2>1, <2>2
<1>7. table' = [table EXCEPT ![k] = u] BY DEF WithSlot
<1>8. DOMAIN table = Kind BY <1>1 DEF TableOver
<1>9. table'[k] = u /\ \A l \in Kind \ {k} : table'[l] = table[l] BY <1>7, <1>8
<1>10. table' \in [Kind -> Seq(Slots(B))]
  <2> HIDE DEF u, B
  <2> QED BY <1>2, <1>6, <1>7 DEF TableOver
<1>11. Shape'
  <2>1. TableOver(B)' BY <1>10 DEF TableOver
  <2>2. \A l \in Kind : Len(table'[l]) <= Cap[l] BY <1>6, <1>9, ShapeFacts
  <2> HIDE DEF B
  <2> QED BY <2>1, <2>2 DEF Shape
<1>12. Changed(k, i, s)
  <2> HIDE DEF u, B
  <2> QED BY <1>5, <1>6, <1>9 DEF Changed
<1> QED BY <1>11, <1>12

LEMMA OneSlotKept ==
  ASSUME Shape, OneSlotPerRule, NEW k \in Kind, NEW i \in Nat, NEW s,
         Changed(k, i, s), Others(k, i, s.id)
  PROVE  OneSlotPerRule'
<1> SUFFICES ASSUME NEW l \in Kind, NEW a \in DOMAIN table'[l],
                    NEW b \in DOMAIN table'[l], a # b
             PROVE  table'[l][a].id # table'[l][b].id
  BY DEF OneSlotPerRule
<1>1. CASE l # k BY <1>1 DEF Changed, OneSlotPerRule
<1>2. CASE l = k /\ a # i /\ b # i BY <1>2 DEF Changed, OneSlotPerRule
<1>3. CASE l = k /\ a = i BY <1>3 DEF Changed, Others
<1>4. CASE l = k /\ b = i BY <1>4 DEF Changed, Others
<1> QED BY <1>1, <1>2, <1>3, <1>4

LEMMA OthersKept ==
  ASSUME NEW k \in Kind, NEW i \in Nat, NEW s, Changed(k, i, s), NEW id, Others(k, i, id)
  PROVE  Others(k, i, id)'
BY DEF Changed, Others

-----------------------------------------------------------------------------
(* The search for a slot.                                                  *)

LEMMA LeastIsLeast ==
  ASSUME NEW S \in SUBSET Nat, S # {}
  PROVE  /\ Least(S) \in S
         /\ \A j \in S : Least(S) <= j
<1> DEFINE T == {1..i : i \in S}
<1>1. T \subseteq FiniteSubsetsOf(Nat) /\ T # {}
  <2>1. \A i \in S : 1..i \in SUBSET Nat /\ IsFiniteSet(1..i) BY FS_Interval
  <2> QED BY <2>1 DEF FiniteSubsetsOf
<1>2. IsWellFoundedOn(StrictSubsetOrdering(Nat), FiniteSubsetsOf(Nat))
  BY FS_StrictSubsetOrderingWellFounded
<1>3. \E x \in T : \A y \in T : ~(<<y, x>> \in StrictSubsetOrdering(Nat))
  <2> HIDE DEF T
  <2> QED BY <1>1, <1>2, WFMin, Zenon
<1>4. PICK i \in S : \A j \in S : <<1..j, 1..i>> \notin StrictSubsetOrdering(Nat)
  BY <1>3
<1>5. ASSUME NEW j \in S, ~(i <= j) PROVE FALSE
  <2>1. 1..j \subseteq 1..i /\ i \in 1..i /\ i \notin 1..j BY <1>5
  <2>2. 1..j \in SUBSET Nat /\ 1..i \in SUBSET Nat /\ 1..j # 1..i BY <2>1
  <2> QED BY <1>4, <2>1, <2>2 DEF StrictSubsetOrdering
<1> QED BY <1>5 DEF Least

LEMMA SlotForFacts ==
  ASSUME Shape, OneSlotPerRule, NEW k \in Kind, NEW id, SlotFor(k, id) # 0
  PROVE  /\ SlotFor(k, id) \in 1..Cap[k]
         /\ SlotFor(k, id) <= Len(table[k]) + 1
         /\ Others(k, SlotFor(k, id), id)
         /\ SlotFor(k, id) \in DOMAIN table[k] =>
               \/ table[k][SlotFor(k, id)].id = id
               \/ ~table[k][SlotFor(k, id)].active
<1>1. /\ Len(table[k]) \in Nat /\ DOMAIN table[k] = 1..Len(table[k])
      /\ Len(table[k]) <= Cap[k] /\ Cap[k] \in Nat
  BY ShapeFacts, CapAssumption
<1>2. CASE WithId(k, id) # {}
  <2>1. SlotFor(k, id) \in WithId(k, id)
    BY <1>1, <1>2, LeastIsLeast, WithId(k, id) \in SUBSET Nat DEF SlotFor, WithId
  <2> QED BY <1>1, <2>1 DEF WithId, Others, OneSlotPerRule
<1>3. CASE WithId(k, id) = {}
  <2>1. Others(k, SlotFor(k, id), id) BY <1>3 DEF WithId, Others
  <2>2. CASE Len(table[k]) < Cap[k]
    BY <1>1, <1>3, <2>1, <2>2 DEF SlotFor
  <2>3. CASE ~(Len(table[k]) < Cap[k])
    <3>1. Inactive(k) # {} /\ SlotFor(k, id) = Least(Inactive(k))
      BY <1>3, <2>3 DEF SlotFor
    <3>2. Inactive(k) \in SUBSET DOMAIN table[k] BY DEF Inactive
    <3>3. SlotFor(k, id) \in Inactive(k)
      BY <1>1, <3>1, <3>2, LeastIsLeast
    <3> QED BY <1>1, <2>1, <3>2, <3>3 DEF Inactive
  <2> QED BY <2>2, <2>3
<1> QED BY <1>2, <1>3

-----------------------------------------------------------------------------
(* Each action keeps the invariant.                                        *)

LEMMA InitInv == Init => IInv
<1> SUFFICES ASSUME Init PROVE IInv OBVIOUS
<1>1. Shape
  <2>1. <<>> \in Seq(Slots({})) /\ Len(<<>>) = 0 BY EmptySeq
  <2>2. TableOver({}) BY <2>1 DEF Init, NoRules, TableOver
  <2>3. \A k \in Kind : Len(table[k]) <= Cap[k]
    BY <2>1, CapAssumption DEF Init, NoRules
  <2> QED BY <2>2, <2>3 DEF Shape
<1>2. \A k \in Kind : DOMAIN table[k] = {} BY DEF Init, NoRules
<1>3. OneSlotPerRule /\ IdInv BY <1>2 DEF OneSlotPerRule, IdInv
<1>4. ApiInv BY DEF Init, Idle, ApiInv, AtRule
<1>5. Unlimited \in Rates BY RateAssumption DEF Unlimited, Rates
<1>6. NoMeter \in Meter BY <1>5 DEF NoMeter, Meter
<1>7. DataInv BY <1>5, <1>6, VolumeAssumption DEF Init, DataInv
<1>8. ~Limited(Unlimited) BY DEF Limited, Unlimited
<1>9. "qer" \in Kind BY DEF Kind
<1>10. MeterFollowsQer BY <1>2, <1>8, <1>9 DEF Init, MeterFollowsQer
<1> QED BY <1>1, <1>3, <1>4, <1>7, <1>10 DEF IInv

LEMMA NewSessionInv == ASSUME IInv, NewSession PROVE IInv'
<1>1. Shape'
  <2>1. <<>> \in Seq(Slots({})) /\ Len(<<>>) = 0 BY EmptySeq
  <2>2. TableOver({})' BY <2>1 DEF NewSession, NoRules, TableOver
  <2>3. \A k \in Kind : Len(table'[k]) <= Cap[k]
    BY <2>1, CapAssumption DEF NewSession, NoRules
  <2> QED BY <2>2, <2>3 DEF Shape
<1>2. \A k \in Kind : DOMAIN table'[k] = {} BY DEF NewSession, NoRules
<1>3. OneSlotPerRule' /\ IdInv' BY <1>2 DEF OneSlotPerRule, IdInv
<1>4. ApiInv' BY DEF NewSession, Idle, ApiInv, AtRule
<1>5. Unlimited \in Rates BY RateAssumption DEF Unlimited, Rates
<1>6. DataInv' BY <1>5, VolumeAssumption DEF NewSession, DataInv, IInv
<1>7. ~Limited(Unlimited) BY DEF Limited, Unlimited
<1>8. "qer" \in Kind BY DEF Kind
<1>9. MeterFollowsQer' BY <1>2, <1>7, <1>8 DEF NewSession, MeterFollowsQer
<1> QED BY <1>1, <1>3, <1>4, <1>6, <1>9 DEF IInv

\* A slot of a kind other than the QoS rules disturbs no meter.
LEMMA OtherKindMeters ==
  ASSUME MeterFollowsQer, NEW k \in Kind \ {"qer"}, NEW i \in Nat, NEW s, Changed(k, i, s),
         UNCHANGED <<meter, ambr, ambrMeter>>,
         api.pc \notin {"meter", "rates", "ambr", "ambr_rates"}
  PROVE  MeterFollowsQer'
<1>1. table'["qer"] = table["qer"] BY DEF Changed, Kind
<1> QED BY <1>1 DEF MeterFollowsQer

\* A QoS slot that is not in force, or whose meter the API thread goes on to.
LEMMA QerMeters ==
  ASSUME MeterFollowsQer, NEW i \in Nat, NEW s, Changed("qer", i, s),
         UNCHANGED <<meter, ambr, ambrMeter>>,
         api.pc \notin {"meter", "rates", "ambr", "ambr_rates"},
         \/ ~s.active \/ ~Limited(s.body.mbr) \/ (api.pc = "meter" /\ api.slot = i)'
  PROVE  MeterFollowsQer'
BY DEF Changed, MeterFollowsQer

LEMMA AddBeginsInv ==
  ASSUME IInv, NEW k \in Kind, NEW id \in Id[k], NEW b \in Body[k], AddBegins(k, id, b)
  PROVE  IInv'
<1>0. PICK i : i = SlotFor(k, id) OBVIOUS
<1>1. /\ Shape /\ OneSlotPerRule /\ IdInv /\ DataInv /\ MeterFollowsQer BY DEF IInv
<1>2. i \in 1..Cap[k] /\ i <= Len(table[k]) + 1 /\ Others(k, i, id)
  BY <1>0, <1>1, SlotForFacts DEF AddBegins
<1>3. /\ Len(table[k]) \in Nat /\ DOMAIN table[k] = 1..Len(table[k]) /\ Cap[k] \in Nat
  BY <1>1, ShapeFacts, CapAssumption
<1>4. /\ api = Idle /\ UNCHANGED <<volume, meter, ambr, ambrMeter>>
      /\ api' = [pc |-> "stamp", kind |-> k, id |-> id, body |-> b, slot |-> i]
  BY <1>0 DEF AddBegins
<1>5. \A l \in Kind : \A j \in DOMAIN table[l] : table[l][j].id \in Id[l]
  BY <1>1, <1>4 DEF IdInv, Idle, Busy
<1>6. api.pc = "idle" BY <1>4 DEF Idle
<1>7. DataInv' BY <1>1, <1>4 DEF DataInv
<1>8. CASE i <= Len(table[k])
  <2> DEFINE s == Wiped(k)
  <2>1. /\ s = [id |-> s.id, active |-> s.active, body |-> s.body]
        /\ s.id = 0 /\ s.id \in Nat /\ ~s.active /\ s.active \in BOOLEAN
    BY DEF Wiped
  <2>2. table' = WithSlot(k, i, s) BY <1>0, <1>8 DEF AddBegins
  <2> HIDE DEF s
  <2>3. Shape' /\ Changed(k, i, s) BY <1>1, <1>2, <2>1, <2>2, SetSlot
  <2>4. Others(k, i, 0) BY <1>5, IdAssumption DEF Others
  <2>5. OneSlotPerRule' BY <1>1, <1>2, <2>1, <2>3, <2>4, OneSlotKept
  <2>6. IdInv' BY <1>4, <1>5, <2>1, <2>3 DEF Changed, IdInv, Busy
  <2>7. Others(k, i, id)' BY <1>2, <2>3, OthersKept
  <2>8. i <= Len(table'[k]) + 1 BY <1>2, <2>3 DEF Changed
  <2>9. ApiInv' BY <1>2, <1>4, <2>1, <2>3, <2>7, <2>8 DEF ApiInv, AtRule, Changed
  <2>10. MeterFollowsQer'
    <3>1. CASE k = "qer" BY <1>1, <1>2, <1>4, <1>6, <2>1, <2>3, <3>1, QerMeters
    <3>2. CASE k # "qer" BY <1>1, <1>2, <1>4, <1>6, <2>3, <3>2, OtherKindMeters
    <3> QED BY <3>1, <3>2
  <2> QED BY <1>7, <2>3, <2>5, <2>6, <2>9, <2>10 DEF IInv
<1>9. CASE ~(i <= Len(table[k]))
  <2>1. table' = table BY <1>0, <1>9 DEF AddBegins
  <2>2. Shape' /\ OneSlotPerRule' BY <1>1, <2>1 DEF Shape, TableOver, OneSlotPerRule
  <2>3. IdInv' BY <1>5, <2>1 DEF IdInv
  <2>4. ApiInv' BY <1>2, <1>3, <1>4, <1>9, <2>1 DEF ApiInv, AtRule, Others
  <2>5. MeterFollowsQer' BY <1>1, <1>4, <1>6, <2>1 DEF MeterFollowsQer
  <2> QED BY <1>7, <2>2, <2>3, <2>4, <2>5 DEF IInv
<1> QED BY <1>8, <1>9

\* What is the case while the API thread is at a rule.
LEMMA AtRuleFacts ==
  ASSUME IInv, api.pc \in AtRule
  PROVE  /\ api = [pc |-> api.pc, kind |-> api.kind, id |-> api.id,
                   body |-> api.body, slot |-> api.slot]
         /\ api.kind \in Kind /\ api.id \in Id[api.kind] /\ api.body \in Body[api.kind]
         /\ api.slot \in 1..Cap[api.kind] /\ api.slot \in Nat
         /\ api.slot <= Len(table[api.kind]) + 1
         /\ Others(api.kind, api.slot, api.id)
         /\ api.id \in Nat
BY IdAssumption, CapAssumption DEF IInv, ApiInv

\* A step of the API thread that sets its slot to a state of the rule.
LEMMA Stamped ==
  ASSUME IInv, api.pc \in {"stamp", "filters"}, NEW k, k = api.kind, NEW i, i = api.slot,
         NEW s, s = Rule(api.id, s.body), table' = WithSlot(k, i, s)
  PROVE  /\ Shape' /\ OneSlotPerRule' /\ Changed(k, i, s)
         /\ \A l \in Kind : \A j \in DOMAIN table'[l] : table'[l][j].id \in Id[l]
         /\ Others(k, i, api.id)
<1>1. /\ k \in Kind /\ api.id \in Id[k] /\ api.id \in Nat /\ i \in 1..Cap[k] /\ i \in Nat
      /\ i <= Len(table[k]) + 1 /\ Others(k, i, api.id)
  BY AtRuleFacts DEF AtRule
<1>2. /\ s = [id |-> s.id, active |-> s.active, body |-> s.body]
      /\ s.id = api.id /\ s.id \in Nat /\ s.active \in BOOLEAN
  <2>1. s = [id |-> api.id, active |-> TRUE, body |-> s.body] BY DEF Rule
  <2>2. s.id = api.id BY <2>1
  <2>3. s.active = TRUE BY <2>1
  <2> QED BY <1>1, <2>1, <2>2, <2>3
<1>3. Shape /\ OneSlotPerRule BY DEF IInv
<1>4. Shape' /\ Changed(k, i, s) BY <1>1, <1>2, <1>3, SetSlot
<1>5. OneSlotPerRule' BY <1>1, <1>2, <1>3, <1>4, OneSlotKept
<1>6. ASSUME NEW l \in Kind, NEW j \in DOMAIN table'[l] PROVE table'[l][j].id \in Id[l]
  <2>1. CASE l = k /\ j = i BY <1>1, <1>2, <1>4, <2>1 DEF Changed
  <2>2. CASE ~(l = k /\ j = i)
    <3>1. j \in DOMAIN table[l] /\ table'[l][j] = table[l][j]
      BY <1>4, <2>2 DEF Changed
    <3> QED BY <2>2, <3>1 DEF IInv, IdInv, Busy
  <2> QED BY <2>1, <2>2
<1> QED BY <1>1, <1>4, <1>5, <1>6

\* Likewise, where the slot is out of sight and the table stays.
LEMMA Unstamped ==
  ASSUME IInv, api.pc \in {"stamp", "filters"}, api.slot \notin DOMAIN table[api.kind],
         UNCHANGED table
  PROVE  /\ Shape' /\ OneSlotPerRule'
         /\ \A l \in Kind : \A j \in DOMAIN table'[l] : table'[l][j].id \in Id[l]
<1>1. Shape' /\ OneSlotPerRule' BY DEF IInv, Shape, TableOver, OneSlotPerRule
<1>2. \A l \in Kind : \A j \in DOMAIN table[l] : table[l][j].id \in Id[l]
  BY DEF IInv, IdInv, Busy
<1> QED BY <1>1, <1>2

LEMMA StampPdrInv == ASSUME IInv, StampPdr PROVE IInv'
<1>1. /\ api.pc = "stamp" /\ api.kind = "pdr" /\ api' = [api EXCEPT !.pc = "filters"]
      /\ UNCHANGED <<volume, meter, ambr, ambrMeter>>
  BY DEF StampPdr, Busy
<1>2. /\ api = [pc |-> api.pc, kind |-> "pdr", id |-> api.id,
                body |-> api.body, slot |-> api.slot]
      /\ "pdr" \in Kind /\ api.id \in Id["pdr"] /\ api.body \in Body["pdr"]
      /\ api.slot \in 1..Cap["pdr"] /\ api.slot \in Nat
      /\ api.slot <= Len(table["pdr"]) + 1 /\ Others("pdr", api.slot, api.id)
  BY <1>1, AtRuleFacts DEF AtRule
<1>3. /\ api'.pc = "filters" /\ api'.kind = "pdr" /\ api'.id = api.id
      /\ api'.body = api.body /\ api'.slot = api.slot
      /\ api' = [pc |-> "filters", kind |-> "pdr", id |-> api.id,
                 body |-> api.body, slot |-> api.slot]
  BY <1>1, <1>2
<1>4. DataInv' BY <1>1 DEF IInv, DataInv
<1>5. /\ Len(table["pdr"]) \in Nat /\ DOMAIN table["pdr"] = 1..Len(table["pdr"])
  BY <1>2, ShapeFacts DEF IInv
<1>6. CASE api.slot <= Len(table["pdr"])
  <2>1. PICK i : i = api.slot OBVIOUS
  <2>2. PICK s : s = Rule(api.id, [api.body EXCEPT !.filters = <<>>]) OBVIOUS
  <2>3. table' = WithSlot("pdr", i, s) /\ s = Rule(api.id, s.body)
    BY <1>6, <2>1, <2>2 DEF StampPdr, Rule
  <2>4. /\ Shape' /\ OneSlotPerRule' /\ Changed("pdr", i, s)
        /\ \A l \in Kind : \A j \in DOMAIN table'[l] : table'[l][j].id \in Id[l]
    BY <1>1, <2>1, <2>3, Stamped
  <2>5. IdInv' BY <2>4 DEF IdInv
  <2>6. Others("pdr", api.slot, api.id)'
    BY <1>2, <1>3, <2>1, <2>4 DEF Changed, Others
  <2>7. api.slot <= Len(table'["pdr"]) + 1 BY <1>2, <2>1, <2>4 DEF Changed
  <2>8. ApiInv'
    BY <1>2, <1>3, <2>1, <2>3, <2>4, <2>6, <2>7 DEF ApiInv, AtRule, Changed
  <2>9. MeterFollowsQer' BY <1>1, <1>2, <2>1, <2>4, OtherKindMeters DEF IInv
  <2> QED BY <1>4, <2>4, <2>5, <2>8, <2>9 DEF IInv
<1>7. CASE ~(api.slot <= Len(table["pdr"]))
  <2>1. table' = table /\ api.slot \notin DOMAIN table["pdr"]
    BY <1>2, <1>5, <1>7 DEF StampPdr
  <2>2. /\ Shape' /\ OneSlotPerRule'
        /\ \A l \in Kind : \A j \in DOMAIN table'[l] : table'[l][j].id \in Id[l]
    BY <1>1, <2>1, Unstamped
  <2>3. IdInv' BY <2>2 DEF IdInv
  <2>4. ApiInv' BY <1>2, <1>3, <2>1 DEF ApiInv, AtRule, Others
  <2>5. MeterFollowsQer' BY <1>1, <1>3, <2>1 DEF IInv, MeterFollowsQer
  <2> QED BY <1>4, <2>2, <2>3, <2>4, <2>5 DEF IInv
<1> QED BY <1>6, <1>7

\* A filter is added by setting the slot to the rule with one filter more.
LEMMA AddFilterSets ==
  ASSUME IInv, AddFilter
  PROVE  \E i, s : /\ i = api.slot /\ s = Rule(api.id, s.body) /\ table' = WithSlot("pdr", i, s)
                   /\ i \in DOMAIN table["pdr"]
                   /\ \E f : s.body = [table["pdr"][i].body EXCEPT !.filters = f]
<1>1. /\ api.pc = "filters" /\ api.kind = "pdr"
      /\ UNCHANGED <<volume, meter, ambr, ambrMeter, api>>
  BY DEF AddFilter, Busy
<1>2. /\ "pdr" \in Kind /\ api.slot \in Nat /\ api.slot \in 1..Cap["pdr"]
      /\ Others("pdr", api.slot, api.id)
  BY <1>1, AtRuleFacts DEF AtRule
<1>3. /\ Len(table["pdr"]) \in Nat /\ DOMAIN table["pdr"] = 1..Len(table["pdr"])
      /\ table = [k \in Kind |-> table[k]] /\ DOMAIN table = Kind
  BY <1>2, ShapeFacts DEF IInv
<1>4. api.slot <= Len(table["pdr"]) BY DEF AddFilter
<1>5. PICK i : i = api.slot OBVIOUS
<1>6. i \in DOMAIN table["pdr"] BY <1>2, <1>3, <1>4, <1>5
<1>7. /\ table["pdr"][i] = Rule(api.id, table["pdr"][i].body)
      /\ table["pdr"][i] = [id |-> api.id, active |-> TRUE, body |-> table["pdr"][i].body]
  BY <1>1, <1>5, <1>6 DEF IInv, ApiInv, Rule
<1>8. PICK f : f = Append(table["pdr"][i].body.filters,
                          api.body.filters[Len(table["pdr"][i].body.filters) + 1])
  OBVIOUS
<1>9. PICK b : b = [table["pdr"][i].body EXCEPT !.filters = f] OBVIOUS
<1>10. PICK s : s = Rule(api.id, b) OBVIOUS
<1>11. s = [table["pdr"][i] EXCEPT !.body.filters = f]
  <2>1. s = [id |-> api.id, active |-> TRUE, body |-> b] BY <1>10 DEF Rule
  <2>2. [table["pdr"][i] EXCEPT !.body = b] = [id |-> api.id, active |-> TRUE, body |-> b]
    <3>1. PICK q, n, a, c : /\ q = table["pdr"][i] /\ n = api.id /\ a = TRUE
                            /\ q = [id |-> n, active |-> a, body |-> c]
      BY <1>7
    <3>2. [q EXCEPT !.body = b] = [[id |-> n, active |-> a, body |-> c] EXCEPT !.body = b]
      BY <3>1, Zenon
    <3>3. [[id |-> n, active |-> a, body |-> c] EXCEPT !.body = b]
            = [id |-> n, active |-> a, body |-> b]
      OBVIOUS
    <3> QED BY <3>1, <3>2, <3>3, Zenon
  <2>3. s = [table["pdr"][i] EXCEPT !.body = b] BY <2>1, <2>2, Zenon
  <2> QED BY <2>3, <1>9
<1>12. table' = WithSlot("pdr", i, s)
  <2>1. table' = [table EXCEPT !["pdr"][api.slot].body.filters =
                     Append(@, api.body.filters[Len(table["pdr"][api.slot].body.filters) + 1])]
    BY DEF AddFilter
  <2>2. table' = [table EXCEPT !["pdr"][i].body.filters = f] BY <1>5, <1>8, <2>1
  <2>3. table' = [table EXCEPT !["pdr"] = [table["pdr"] EXCEPT ![i] = s]]
    BY <1>11, <2>2
  <2> QED BY <1>4, <1>5, <2>3 DEF WithSlot
<1>13. s = Rule(api.id, s.body) /\ s.body = b BY <1>10 DEF Rule
<1>14. \E g : s.body = [table["pdr"][i].body EXCEPT !.filters = g] BY <1>9, <1>13
<1> QED BY <1>5, <1>6, <1>12, <1>13, <1>14

LEMMA AddFilterInv == ASSUME IInv, AddFilter PROVE IInv'
<1>1. /\ api.pc = "filters" /\ api.kind = "pdr"
      /\ UNCHANGED <<volume, meter, ambr, ambrMeter, api>>
  BY DEF AddFilter, Busy
<1>2. /\ "pdr" \in Kind /\ api.slot \in Nat /\ Others("pdr", api.slot, api.id)
  BY <1>1, AtRuleFacts DEF AtRule
<1>3. PICK i, s : i = api.slot /\ s = Rule(api.id, s.body) /\ table' = WithSlot("pdr", i, s)
  BY AddFilterSets
<1>4. /\ Shape' /\ OneSlotPerRule' /\ Changed("pdr", i, s)
      /\ \A l \in Kind : \A j \in DOMAIN table'[l] : table'[l][j].id \in Id[l]
  BY <1>1, <1>3, Stamped
<1>5. DataInv' /\ IdInv' BY <1>1, <1>4 DEF IInv, DataInv, IdInv
<1>6. Others("pdr", api.slot, api.id)' BY <1>1, <1>2, <1>3, <1>4 DEF Changed, Others
<1>7. api.slot <= Len(table'["pdr"]) + 1 BY <1>2, <1>3, <1>4 DEF Changed
<1>8. ApiInv'
  BY <1>1, <1>3, <1>4, <1>6, <1>7 DEF IInv, ApiInv, AtRule, Changed
<1>9. MeterFollowsQer' BY <1>1, <1>2, <1>3, <1>4, OtherKindMeters DEF IInv, Kind
<1> QED BY <1>4, <1>5, <1>8, <1>9 DEF IInv

LEMMA EndPdrInv == ASSUME IInv, EndPdr PROVE IInv'
<1>1. /\ api.pc = "filters" /\ api.kind = "pdr" /\ api' = Idle
      /\ UNCHANGED <<volume, meter, ambr, ambrMeter>>
  BY DEF EndPdr, Busy
<1>2. "pdr" \in Kind /\ api.slot \in Nat BY <1>1, AtRuleFacts DEF AtRule
<1>3. PICK i : i = api.slot OBVIOUS
<1>4. PICK s : s = Rule(api.id, api.body) OBVIOUS
<1>5. table' = WithSlot("pdr", i, s) /\ s = Rule(api.id, s.body)
  BY <1>3, <1>4 DEF EndPdr, Rule
<1>6. /\ Shape' /\ OneSlotPerRule' /\ Changed("pdr", i, s)
      /\ \A l \in Kind : \A j \in DOMAIN table'[l] : table'[l][j].id \in Id[l]
  BY <1>1, <1>3, <1>5, Stamped
<1>7. DataInv' /\ IdInv' BY <1>1, <1>6 DEF IInv, DataInv, IdInv
<1>8. ApiInv' BY <1>1 DEF ApiInv, AtRule, Idle
<1>9. MeterFollowsQer' BY <1>1, <1>2, <1>3, <1>6, OtherKindMeters DEF IInv, Kind
<1> QED BY <1>6, <1>7, <1>8, <1>9 DEF IInv

LEMMA StampInv == ASSUME IInv, Stamp PROVE IInv'
<1>1. /\ api.pc = "stamp" /\ api.kind \in {"far", "urr"} /\ api' = Idle
      /\ UNCHANGED <<meter, ambr, ambrMeter>>
      /\ volume' = IF api.kind = "urr" THEN [volume EXCEPT ![api.slot] = 0] ELSE volume
  BY DEF Stamp
<1>2. api.slot \in Nat /\ api.slot \in 1..Cap[api.kind] BY <1>1, AtRuleFacts DEF AtRule
<1>3. PICK i, k : i = api.slot /\ k = api.kind OBVIOUS
<1>4. PICK s : s = Rule(api.id, api.body) OBVIOUS
<1>5. table' = WithSlot(k, i, s) /\ s = Rule(api.id, s.body)
  BY <1>3, <1>4 DEF Stamp, Rule
<1>6. /\ Shape' /\ OneSlotPerRule' /\ Changed(k, i, s)
      /\ \A l \in Kind : \A j \in DOMAIN table'[l] : table'[l][j].id \in Id[l]
  BY <1>1, <1>3, <1>5, Stamped
<1>7. DataInv'
  <2>1. 0 \in 0..MaxVolume BY VolumeAssumption
  <2>2. volume' \in [1..Cap["urr"] -> 0..MaxVolume]
    <3>1. CASE api.kind = "urr" BY <1>1, <2>1, <3>1 DEF IInv, DataInv
    <3>2. CASE api.kind # "urr" BY <1>1, <3>2 DEF IInv, DataInv
    <3> QED BY <3>1, <3>2
  <2> QED BY <1>1, <2>2 DEF IInv, DataInv
<1>8. IdInv' BY <1>6 DEF IdInv
<1>9. ApiInv' BY <1>1 DEF ApiInv, AtRule, Idle
<1>10. k \in Kind \ {"qer"} BY <1>1, <1>3 DEF Kind
<1>11. MeterFollowsQer' BY <1>1, <1>2, <1>3, <1>6, <1>10, OtherKindMeters DEF IInv
<1> QED BY <1>6, <1>7, <1>8, <1>9, <1>11 DEF IInv

LEMMA StampQerInv == ASSUME IInv, StampQer PROVE IInv'
<1>1. /\ api.pc = "stamp" /\ api.kind = "qer"
      /\ api' = IF Limited(api.body.mbr) THEN [api EXCEPT !.pc = "meter"] ELSE Idle
      /\ UNCHANGED <<volume, meter, ambr, ambrMeter>>
  BY DEF StampQer, Busy
<1>2. /\ api = [pc |-> api.pc, kind |-> "qer", id |-> api.id,
                body |-> api.body, slot |-> api.slot]
      /\ "qer" \in Kind /\ api.id \in Id["qer"] /\ api.body \in Body["qer"]
      /\ api.slot \in 1..Cap["qer"] /\ api.slot \in Nat
      /\ Others("qer", api.slot, api.id)
  BY <1>1, AtRuleFacts DEF AtRule
<1>3. PICK i : i = api.slot OBVIOUS
<1>4. PICK s : s = Rule(api.id, api.body) OBVIOUS
<1>5. table' = WithSlot("qer", i, s) /\ s = Rule(api.id, s.body) /\ s.body = api.body
  BY <1>3, <1>4 DEF StampQer, Rule
<1>6. /\ Shape' /\ OneSlotPerRule' /\ Changed("qer", i, s)
      /\ \A l \in Kind : \A j \in DOMAIN table'[l] : table'[l][j].id \in Id[l]
  BY <1>1, <1>3, <1>5, Stamped
<1>7. DataInv' /\ IdInv' BY <1>1, <1>6 DEF IInv, DataInv, IdInv
<1>8. CASE Limited(api.body.mbr)
  <2>1. /\ api'.pc = "meter" /\ api'.kind = "qer" /\ api'.id = api.id
        /\ api'.body = api.body /\ api'.slot = api.slot
        /\ api' = [pc |-> "meter", kind |-> "qer", id |-> api.id,
                   body |-> api.body, slot |-> api.slot]
    BY <1>1, <1>2, <1>8
  <2>2. Others("qer", api.slot, api.id)' BY <1>2, <1>3, <1>6, <2>1 DEF Changed, Others
  <2>3. api.slot <= Len(table'["qer"]) + 1 BY <1>2, <1>3, <1>6 DEF Changed
  <2>4. table'["qer"][i] = Rule(api.id, api.body) /\ i \in DOMAIN table'["qer"]
    BY <1>4, <1>6 DEF Changed
  <2>5. ApiInv' BY <1>2, <1>3, <1>8, <2>1, <2>2, <2>3, <2>4 DEF ApiInv, AtRule
  <2>6. MeterFollowsQer' BY <1>1, <1>2, <1>3, <1>6, <2>1, QerMeters DEF IInv
  <2> QED BY <1>6, <1>7, <2>5, <2>6 DEF IInv
<1>9. CASE ~Limited(api.body.mbr)
  <2>1. ApiInv' BY <1>1, <1>9 DEF ApiInv, AtRule, Idle
  <2>2. MeterFollowsQer' BY <1>1, <1>2, <1>3, <1>5, <1>6, <1>9, QerMeters DEF IInv
  <2> QED BY <1>6, <1>7, <2>1, <2>2 DEF IInv
<1> QED BY <1>8, <1>9

LEMMA RemoveInv ==
  ASSUME IInv, NEW k \in Kind, NEW id \in Id[k], Remove(k, id)
  PROVE  IInv'
<1>1. api = Idle /\ api.pc = "idle" /\ UNCHANGED <<volume, meter, ambr, ambrMeter, api>>
  BY DEF Remove, Idle
<1>2. /\ Shape /\ OneSlotPerRule /\ IdInv /\ DataInv /\ MeterFollowsQer BY DEF IInv
<1>3. PICK i \in WithId(k, id) :
        table' = [table EXCEPT ![k][i] =
                     [id |-> id, active |-> FALSE,
                      body |-> IF k = "far" THEN "drop" ELSE @.body]]
  BY DEF Remove
<1>4. /\ i \in DOMAIN table[k] /\ DOMAIN table[k] = 1..Len(table[k]) /\ Len(table[k]) \in Nat
      /\ Len(table[k]) <= Cap[k] /\ Cap[k] \in Nat /\ i \in Nat /\ i <= Len(table[k])
      /\ table[k][i].id = id /\ id \in Nat
  BY <1>2, ShapeFacts, CapAssumption DEF WithId
<1>5. PICK b : b = IF k = "far" THEN "drop" ELSE table[k][i].body OBVIOUS
<1>6. PICK s : s = [id |-> id, active |-> FALSE, body |-> b] OBVIOUS
<1>7. table' = [table EXCEPT ![k][i] = s] BY <1>3, <1>5, <1>6
<1>8. table' = [table EXCEPT ![k] = [table[k] EXCEPT ![i] = s]] BY <1>7
<1>9. table' = WithSlot(k, i, s) BY <1>4, <1>8 DEF WithSlot
<1>10. /\ s = [id |-> s.id, active |-> s.active, body |-> s.body]
       /\ s.id = table[k][i].id /\ s.id \in Nat /\ ~s.active /\ s.active \in BOOLEAN
  <2>1. s.active = FALSE BY <1>6
  <2>2. s.id = table[k][i].id BY <1>4, <1>6
  <2>3. s = [id |-> s.id, active |-> s.active, body |-> s.body] BY <1>6
  <2> QED BY <1>4, <2>1, <2>2, <2>3
<1>11. i \in 1..Cap[k] /\ i <= Len(table[k]) + 1 BY <1>4
<1>12. Shape' /\ Changed(k, i, s) BY <1>2, <1>9, <1>10, <1>11, SetSlot
<1>13. Others(k, i, s.id) BY <1>2, <1>4, <1>10 DEF Others, OneSlotPerRule
<1>14. OneSlotPerRule' BY <1>2, <1>4, <1>12, <1>13, OneSlotKept
<1>15. DataInv' BY <1>1, <1>2 DEF DataInv
<1>16. \A l \in Kind : \A j \in DOMAIN table[l] : table[l][j].id \in Id[l]
  BY <1>1, <1>2 DEF IdInv, Busy
<1>17. IdInv' BY <1>4, <1>10, <1>12, <1>16 DEF Changed, IdInv
<1>18. ApiInv' BY <1>1 DEF ApiInv, AtRule
<1>19. MeterFollowsQer'
  <2>1. CASE k = "qer" BY <1>1, <1>2, <1>4, <1>10, <1>12, <2>1, QerMeters
  <2>2. CASE k # "qer" BY <1>1, <1>2, <1>4, <1>12, <2>2, OtherKindMeters
  <2> QED BY <2>1, <2>2
<1> QED BY <1>12, <1>14, <1>15, <1>17, <1>18, <1>19 DEF IInv

LEMMA ConfiguredMeter ==
  ASSUME NEW rates \in Rates
  PROVE  Configured(rates) \in Meter
<1>1. Limited(rates) \in BOOLEAN BY DEF Limited
<1> QED BY <1>1 DEF Configured, Meter

\* The steps that leave the rules as they are.
LEMMA SameRules ==
  ASSUME IInv, UNCHANGED table, api.pc # "stamp"
  PROVE  Shape' /\ OneSlotPerRule' /\ IdInv'
BY DEF IInv, Shape, TableOver, OneSlotPerRule, IdInv, Busy

LEMMA ClearMeterInv == ASSUME IInv, ClearMeter PROVE IInv'
<1>1. /\ api.pc = "meter" /\ api' = [api EXCEPT !.pc = "rates"]
      /\ meter' = [meter EXCEPT ![api.slot] = NoMeter]
      /\ UNCHANGED <<table, volume, ambr, ambrMeter>>
  BY DEF ClearMeter
<1>2. Shape' /\ OneSlotPerRule' /\ IdInv' BY <1>1, SameRules
<1>3. Unlimited \in Rates BY RateAssumption DEF Unlimited, Rates
<1>4. NoMeter \in Meter BY <1>3 DEF NoMeter, Meter
<1>5. DataInv' BY <1>1, <1>4 DEF IInv, DataInv
<1>6. /\ api'.pc = "rates" /\ api'.kind = api.kind /\ api'.id = api.id
      /\ api'.body = api.body /\ api'.slot = api.slot
      /\ api' = [pc |-> "rates", kind |-> api.kind, id |-> api.id,
                 body |-> api.body, slot |-> api.slot]
  BY <1>1, AtRuleFacts DEF AtRule
<1>7. ApiInv' BY <1>1, <1>6 DEF IInv, ApiInv, AtRule, Others
<1>8. meter \in [1..Cap["qer"] -> Meter] /\ MeterFollowsQer BY DEF IInv, DataInv
<1>9. \A i : i # api.slot => meter'[i] = meter[i] BY <1>1, <1>8
<1>10. MeterFollowsQer' BY <1>1, <1>6, <1>8, <1>9 DEF MeterFollowsQer
<1> QED BY <1>2, <1>5, <1>7, <1>10 DEF IInv

LEMMA SetMeterInv == ASSUME IInv, SetMeter PROVE IInv'
<1>1. /\ api.pc = "rates" /\ api' = Idle
      /\ meter' = [meter EXCEPT ![api.slot] = Configured(api.body.mbr)]
      /\ UNCHANGED <<table, volume, ambr, ambrMeter>>
  BY DEF SetMeter
<1>2. Shape' /\ OneSlotPerRule' /\ IdInv' BY <1>1, SameRules
<1>3. /\ api.kind = "qer" /\ api.body \in Body["qer"] /\ api.slot \in 1..Cap["qer"]
      /\ table["qer"][api.slot] = Rule(api.id, api.body) /\ Limited(api.body.mbr)
  BY <1>1 DEF IInv, ApiInv, AtRule
<1>4. Configured(api.body.mbr) \in Meter BY <1>3, BodyAssumption, ConfiguredMeter
<1>5. DataInv' BY <1>1, <1>4 DEF IInv, DataInv
<1>6. ApiInv' BY <1>1 DEF ApiInv, AtRule, Idle
<1>7. meter \in [1..Cap["qer"] -> Meter] /\ MeterFollowsQer BY DEF IInv, DataInv
<1>8. \A i : i # api.slot => meter'[i] = meter[i] BY <1>1, <1>7
<1>9. meter'[api.slot] = [configured |-> TRUE, rates |-> api.body.mbr]
  BY <1>1, <1>3, <1>7 DEF Configured
<1>10. table["qer"][api.slot].body = api.body BY <1>3 DEF Rule
<1>11. MeterFollowsQer' BY <1>1, <1>7, <1>8, <1>9, <1>10 DEF MeterFollowsQer, Idle
<1> QED BY <1>2, <1>5, <1>6, <1>11 DEF IInv

LEMMA SetAmbrInv == ASSUME IInv, NEW rates \in Ambr, SetAmbr(rates) PROVE IInv'
<1>1. /\ api.pc = "idle" /\ api'.pc = "ambr" /\ ambr' = rates
      /\ UNCHANGED <<table, volume, meter, ambrMeter>>
  BY DEF SetAmbr, Idle
<1>2. Shape' /\ OneSlotPerRule' /\ IdInv' BY <1>1, SameRules
<1>3. DataInv' BY <1>1, AmbrAssumption DEF IInv, DataInv
<1>4. ApiInv' BY <1>1 DEF ApiInv, AtRule
<1>5. MeterFollowsQer' BY <1>1 DEF IInv, MeterFollowsQer
<1> QED BY <1>2, <1>3, <1>4, <1>5 DEF IInv

LEMMA ClearAmbrMeterInv == ASSUME IInv, ClearAmbrMeter PROVE IInv'
<1>1. /\ api.pc = "ambr" /\ api'.pc = "ambr_rates" /\ ambrMeter' = NoMeter
      /\ UNCHANGED <<table, volume, meter, ambr>>
  BY DEF ClearAmbrMeter
<1>2. Shape' /\ OneSlotPerRule' /\ IdInv' BY <1>1, SameRules
<1>3. Unlimited \in Rates BY RateAssumption DEF Unlimited, Rates
<1>4. NoMeter \in Meter BY <1>3 DEF NoMeter, Meter
<1>5. DataInv' BY <1>1, <1>4 DEF IInv, DataInv
<1>6. ApiInv' BY <1>1 DEF ApiInv, AtRule
<1>7. MeterFollowsQer' BY <1>1 DEF IInv, MeterFollowsQer
<1> QED BY <1>2, <1>5, <1>6, <1>7 DEF IInv

LEMMA SetAmbrMeterInv == ASSUME IInv, SetAmbrMeter PROVE IInv'
<1>1. /\ api.pc = "ambr_rates" /\ api' = Idle /\ ambrMeter' = Configured(ambr)
      /\ UNCHANGED <<table, volume, meter, ambr>>
  BY DEF SetAmbrMeter
<1>2. Shape' /\ OneSlotPerRule' /\ IdInv' BY <1>1, SameRules
<1>3. DataInv' BY <1>1, ConfiguredMeter DEF IInv, DataInv
<1>4. ApiInv' BY <1>1 DEF ApiInv, AtRule, Idle
<1>5. CASE Limited(ambr)
  <2>1. ambrMeter' = [configured |-> TRUE, rates |-> ambr] BY <1>1, <1>5 DEF Configured
  <2> QED BY <1>1, <1>2, <1>3, <1>4, <2>1 DEF IInv, MeterFollowsQer
<1>6. CASE ~Limited(ambr) BY <1>1, <1>2, <1>3, <1>4, <1>6 DEF IInv, MeterFollowsQer
<1> QED BY <1>5, <1>6

LEMMA PacketInv == ASSUME IInv, NEW c, NEW d, Packet(c, d) PROVE IInv'
<1>1. UNCHANGED <<table, meter, ambr, ambrMeter, api>> BY DEF Packet
<1>2. PICK V : volume' = [u \in DOMAIN volume |->
                  IF u \in V THEN Min2(volume[u] + 1, MaxVolume) ELSE volume[u]]
  BY DEF Packet
<1>3. \A n \in 0..MaxVolume : Min2(n + 1, MaxVolume) \in 0..MaxVolume
  BY VolumeAssumption DEF Min2
<1>4. volume' \in [1..Cap["urr"] -> 0..MaxVolume] BY <1>2, <1>3 DEF IInv, DataInv
<1>5. Shape' /\ OneSlotPerRule' /\ IdInv'
  BY <1>1 DEF IInv, Shape, TableOver, OneSlotPerRule, IdInv, Busy
<1>6. ApiInv' /\ MeterFollowsQer'
  BY <1>1 DEF IInv, ApiInv, AtRule, Others, MeterFollowsQer
<1>7. DataInv' BY <1>1, <1>4 DEF IInv, DataInv
<1> QED BY <1>5, <1>6, <1>7 DEF IInv

LEMMA NextInv == IInv /\ [Next]_vars => IInv'
<1> SUFFICES ASSUME IInv, [Next]_vars PROVE IInv' OBVIOUS
<1>1. CASE NewSession BY <1>1, NewSessionInv
<1>2. ASSUME NEW k \in Kind, NEW id \in Id[k], Remove(k, id) PROVE IInv'
  BY <1>2, RemoveInv
<1>3. ASSUME NEW k \in Kind, NEW id \in Id[k], NEW b \in Body[k],
             AddBegins(k, id, b) \/ Update(k, id, b)
      PROVE  IInv'
  BY <1>3, AddBeginsInv DEF Update
<1>4. CASE StampPdr BY <1>4, StampPdrInv
<1>5. CASE AddFilter BY <1>5, AddFilterInv
<1>6. CASE EndPdr BY <1>6, EndPdrInv
<1>7. CASE Stamp BY <1>7, StampInv
<1>8. CASE StampQer BY <1>8, StampQerInv
<1>9. CASE ClearMeter BY <1>9, ClearMeterInv
<1>10. CASE SetMeter BY <1>10, SetMeterInv
<1>11. ASSUME NEW rates \in Ambr, SetAmbr(rates) PROVE IInv'
  BY <1>11, SetAmbrInv
<1>12. CASE ClearAmbrMeter BY <1>12, ClearAmbrMeterInv
<1>13. CASE SetAmbrMeter BY <1>13, SetAmbrMeterInv
<1>14. ASSUME NEW c \in Class, NEW d \in Dir, Packet(c, d) PROVE IInv'
  BY <1>14, PacketInv
<1>15. CASE UNCHANGED vars
  <2>1. UNCHANGED <<table, volume, meter, ambr, ambrMeter, api>> BY <1>15 DEF vars
  <2>2. Shape' /\ OneSlotPerRule' /\ IdInv'
    BY <2>1 DEF IInv, Shape, TableOver, OneSlotPerRule, IdInv, Busy
  <2>3. ApiInv' BY <2>1 DEF IInv, ApiInv, AtRule, Others
  <2>4. DataInv' /\ MeterFollowsQer' BY <2>1 DEF IInv, DataInv, MeterFollowsQer
  <2> QED BY <2>2, <2>3, <2>4 DEF IInv
<1> QED
  BY <1>1, <1>2, <1>3, <1>4, <1>5, <1>6, <1>7, <1>8, <1>9, <1>10, <1>11, <1>12, <1>13,
     <1>14, <1>15 DEF Next

LEMMA Invariant == Spec => []IInv
BY InitInv, NextInv, PTL DEF Spec

LEMMA TypeFollows == IInv => TypeOK
<1> SUFFICES ASSUME IInv PROVE TypeOK OBVIOUS
<1>1. ASSUME NEW k \in Kind
      PROVE  /\ Len(table[k]) <= Cap[k]
             /\ \A i \in DOMAIN table[k] : table[k][i].id \in Id[k] \cup {0}
  BY DEF IInv, Shape, IdInv
<1>2. api.pc \in {"idle", "stamp", "filters", "meter", "rates", "ambr", "ambr_rates"}
  BY DEF IInv, ApiInv, AtRule
<1> QED BY <1>1, <1>2 DEF IInv, DataInv, TypeOK

\* No kind has more slots than its array, the slots hold identifiers of the
\* kind, and a usage rule counts within its bound: upf_dp_add_*, upf_dp_update_*
\* and upf_dp_remove_* in upf_dp_api.c.
THEOREM TypeCorrect == Spec => []TypeOK
BY Invariant, TypeFollows, PTL

\* An identifier is never in two slots, active or not, whatever order rules are
\* added, replaced and removed in: find_or_alloc_*_slot in upf_dp_api.c.
THEOREM OneSlot == Spec => []OneSlotPerRule
<1>1. IInv => OneSlotPerRule BY DEF IInv
<1> QED BY <1>1, Invariant, PTL

\* A QoS rule in force, and Session-AMBR, have the meter of their own rates once
\* the API thread is done with it: upf_dp_add_qer, upf_dp_update_qer and
\* upf_dp_set_session_ambr in upf_dp_api.c, the meters in upf_qos_meter.c.
THEOREM MetersFollow == Spec => []MeterFollowsQer
<1>1. IInv => MeterFollowsQer BY DEF IInv
<1> QED BY <1>1, Invariant, PTL

-----------------------------------------------------------------------------
(* The rules are a RuleSet.                                                *)

LEMMA LiveIs ==
  /\ \A r : r \in live <=> \E k \in Kind : \E i \in DOMAIN table[k] :
        table[k][i].active /\ r = <<k, table[k][i].id, table[k][i].body>>
  /\ \A r : r \in live' <=> \E k \in Kind : \E i \in DOMAIN table'[k] :
        table'[k][i].active /\ r = <<k, table'[k][i].id, table'[k][i].body>>
BY DEF live

\* A step that sets the slot of an identifier changes the rules of no other.
LEMMA SlotSet ==
  ASSUME NEW k \in Kind, NEW i \in Nat, NEW n, NEW s, Changed(k, i, s), Others(k, i, n),
         i \in DOMAIN table[k] => table[k][i].id = n \/ ~table[k][i].active
  PROVE  live' = (live \ Rules!Named(<<k, n>>))
                    \cup (IF s.active THEN {<<k, s.id, s.body>>} ELSE {})
<1> SUFFICES ASSUME NEW r
             PROVE  r \in live' <=> \/ r \in live /\ <<r[1], r[2]>> # <<k, n>>
                                    \/ s.active /\ r = <<k, s.id, s.body>>
  BY DEF Rules!Named
<1>1. ASSUME r \in live'
      PROVE  \/ r \in live /\ <<r[1], r[2]>> # <<k, n>>
             \/ s.active /\ r = <<k, s.id, s.body>>
  <2>1. PICK l \in Kind : \E j \in DOMAIN table'[l] :
           table'[l][j].active /\ r = <<l, table'[l][j].id, table'[l][j].body>>
    BY <1>1, LiveIs
  <2>2. PICK j \in DOMAIN table'[l] :
           table'[l][j].active /\ r = <<l, table'[l][j].id, table'[l][j].body>>
    BY <2>1
  <2>3. CASE l = k /\ j = i BY <2>2, <2>3 DEF Changed
  <2>4. CASE ~(l = k /\ j = i)
    <3>1. j \in DOMAIN table[l] /\ table'[l][j] = table[l][j] BY <2>4 DEF Changed
    <3>2. r \in live BY <2>2, <3>1, LiveIs
    <3>3. l = k => table[l][j].id # n BY <2>4, <3>1 DEF Others
    <3>4. r[1] = l /\ r[2] = table[l][j].id BY <2>2, <3>1
    <3> QED BY <3>2, <3>3, <3>4
  <2> QED BY <2>3, <2>4
<1>2. ASSUME r \in live, <<r[1], r[2]>> # <<k, n>> PROVE r \in live'
  <2>1. PICK l \in Kind : \E j \in DOMAIN table[l] :
           table[l][j].active /\ r = <<l, table[l][j].id, table[l][j].body>>
    BY <1>2, LiveIs
  <2>2. PICK j \in DOMAIN table[l] :
           table[l][j].active /\ r = <<l, table[l][j].id, table[l][j].body>>
    BY <2>1
  <2>3. r[1] = l /\ r[2] = table[l][j].id BY <2>2
  <2>4. ~(l = k /\ j = i) BY <1>2, <2>2, <2>3
  <2>5. j \in DOMAIN table'[l] /\ table'[l][j] = table[l][j] BY <2>4 DEF Changed
  <2> QED BY <2>2, <2>5, LiveIs
<1>3. ASSUME s.active, r = <<k, s.id, s.body>> PROVE r \in live'
  <2>1. i \in DOMAIN table'[k] /\ table'[k][i] = s BY DEF Changed
  <2> QED BY <1>3, <2>1, LiveIs
<1> QED BY <1>1, <1>2, <1>3

LEMMA AtMost ==
  ASSUME NEW n \in Nat, NEW f, NEW S, S \subseteq {f[i] : i \in 1..n}
  PROVE  IsFiniteSet(S) /\ Cardinality(S) <= n
<1> DEFINE g == [i \in 1..n |-> f[i]]
           T == {f[i] : i \in 1..n}
<1>1. IsFiniteSet(1..n) /\ Cardinality(1..n) = n BY FS_Interval
<1>2. g \in Surjection(1..n, T) BY DEF Surjection
<1>3. IsFiniteSet(T) /\ Cardinality(T) <= n
  <2> HIDE DEF g, T
  <2> QED BY <1>1, <1>2, FS_Surjection
<1>4. IsFiniteSet(S) /\ Cardinality(S) <= Cardinality(T)
  <2> HIDE DEF g, T
  <2>1. S \in SUBSET T BY DEF T
  <2> QED BY <1>3, <2>1, FS_Subset
<1>5. Cardinality(S) \in Nat /\ Cardinality(T) \in Nat
  BY <1>3, <1>4, FS_CardinalityType
<1> HIDE DEF T
<1> QED BY <1>3, <1>4, <1>5

LEMMA SameCardinality == \A S : Rules!Cardinality(S) = Cardinality(S)
BY DEF Rules!Cardinality, Cardinality

\* The rules of a kind are no more than its slots.
LEMMA FitsCap ==
  ASSUME Shape', NEW k \in Kind, NEW i \in Nat, NEW s, Changed(k, i, s)
  PROVE  Cardinality({r \in live' : r[1] = k}) <= Cap[k]
<1>1. PICK n : n = Len(table'[k]) OBVIOUS
<1>2. n \in Nat /\ DOMAIN table'[k] = 1..n /\ n <= Cap[k] BY <1>1 DEF Changed, Shape
<1>3. PICK f : f = [j \in 1..n |-> <<k, table'[k][j].id, table'[k][j].body>>] OBVIOUS
<1>4. PICK S : S = {r \in live' : r[1] = k} OBVIOUS
<1>5. S \subseteq {f[j] : j \in 1..n}
  <2> SUFFICES ASSUME NEW r \in S PROVE r \in {f[j] : j \in 1..n} OBVIOUS
  <2>1. PICK l \in Kind : \E j \in DOMAIN table'[l] :
           table'[l][j].active /\ r = <<l, table'[l][j].id, table'[l][j].body>>
    BY <1>4, LiveIs
  <2>2. l = k BY <1>4, <2>1
  <2> QED BY <1>2, <1>3, <2>1, <2>2
<1>6. Cardinality(S) <= n /\ IsFiniteSet(S) BY <1>2, <1>5, AtMost
<1>7. Cardinality(S) \in Nat BY <1>6, FS_CardinalityType
<1> QED BY <1>2, <1>4, <1>6, <1>7, CapAssumption

LEMMA PutStep ==
  ASSUME IInv, api.pc \in {"stamp", "filters"}, NEW k, k = api.kind, NEW i, i = api.slot,
         NEW s, s = Rule(api.id, s.body), table' = WithSlot(k, i, s),
         setting' \in {setting, <<>>}
  PROVE  Rules!Next
<1>1. /\ Shape' /\ Changed(k, i, s) /\ Others(k, i, api.id)
  BY Stamped
<1>2. k \in Kind /\ i \in Nat BY AtRuleFacts DEF AtRule
<1>3. s = [id |-> api.id, active |-> TRUE, body |-> s.body] BY DEF Rule
<1>4. s.id = api.id BY <1>3
<1>5. s.active BY <1>3
<1>6. i \in DOMAIN table[k] => table[k][i].id = api.id \/ ~table[k][i].active
  <2>1. CASE api.pc = "stamp" BY <2>1 DEF IInv, ApiInv
  <2>2. CASE api.pc = "filters"
    <3>1. ASSUME i \in DOMAIN table[k] PROVE table[k][i] = Rule(api.id, table[k][i].body)
      BY <2>2, <3>1 DEF IInv, ApiInv
    <3> QED BY <3>1 DEF Rule
  <2> QED BY <2>1, <2>2
<1>7. PICK n : n = api.id OBVIOUS
<1>8. PICK r : r = <<k, n, s.body>> OBVIOUS
<1>9. setting = <<k, n>> BY <1>7 DEF setting
<1>10. live' = (live \ Rules!Named(<<k, n>>)) \cup {r}
  BY <1>1, <1>2, <1>4, <1>5, <1>6, <1>7, <1>8, SlotSet
<1>11. r[1] = k /\ r[2] = n BY <1>8
<1>12. Cardinality({q \in live' : q[1] = k}) <= Cap[k] BY <1>1, <1>2, FitsCap
<1>13. Rules!Put(r) BY <1>9, <1>10, <1>11, <1>12, SameCardinality DEF Rules!Put
<1>14. r \in live' BY <1>10
<1> QED BY <1>13, <1>14 DEF Rules!Next

LEMMA AddBeginsStep ==
  ASSUME IInv, NEW k \in Kind, NEW id \in Id[k], NEW b \in Body[k], AddBegins(k, id, b)
  PROVE  Rules!Next
<1>1. PICK i : i = SlotFor(k, id) OBVIOUS
<1>2. /\ i \in 1..Cap[k] /\ i \in Nat /\ i <= Len(table[k]) + 1 /\ Others(k, i, id)
      /\ i \in DOMAIN table[k] => table[k][i].id = id \/ ~table[k][i].active
  BY <1>1, SlotForFacts, CapAssumption DEF AddBegins, IInv
<1>3. setting = <<>> BY DEF AddBegins, Idle, setting
<1>4. setting' = <<k, id>> BY DEF AddBegins, setting
<1>5. setting' # <<>> BY <1>4
<1>6. live' = live \ Rules!Named(<<k, id>>)
  <2>1. CASE i <= Len(table[k])
    <3>1. PICK s : s = Wiped(k) OBVIOUS
    <3>2. /\ s = [id |-> s.id, active |-> s.active, body |-> s.body]
          /\ s.id \in Nat /\ ~s.active /\ s.active \in BOOLEAN
      BY <3>1 DEF Wiped
    <3>3. table' = WithSlot(k, i, s) BY <1>1, <2>1, <3>1 DEF AddBegins
    <3>4. Changed(k, i, s) BY <1>2, <3>2, <3>3, SetSlot DEF IInv
    <3> QED BY <1>2, <3>2, <3>4, SlotSet
  <2>2. CASE ~(i <= Len(table[k]))
    <3>1. table' = table BY <1>1, <2>2 DEF AddBegins
    <3>2. DOMAIN table[k] = 1..Len(table[k]) /\ Len(table[k]) \in Nat
      BY ShapeFacts DEF IInv
    <3>3. \A j \in DOMAIN table[k] : table[k][j].id # id
      BY <1>2, <2>2, <3>2 DEF Others
    <3>4. ASSUME NEW r \in live PROVE <<r[1], r[2]>> # <<k, id>>
      <4>1. PICK l \in Kind : \E j \in DOMAIN table[l] :
               table[l][j].active /\ r = <<l, table[l][j].id, table[l][j].body>>
        BY LiveIs
      <4> QED BY <3>3, <4>1
    <3>5. live' = live BY <3>1 DEF live
    <3> QED BY <3>4, <3>5 DEF Rules!Named
  <2> QED BY <2>1, <2>2
<1>7. Rules!Withdraw(setting') BY <1>3, <1>4, <1>6 DEF Rules!Withdraw
<1> QED BY <1>5, <1>7 DEF Rules!Next

LEMMA RemoveStep ==
  ASSUME IInv, NEW k \in Kind, NEW id \in Id[k], Remove(k, id)
  PROVE  Rules!Next
<1>1. setting = <<>> /\ UNCHANGED setting BY DEF Remove, Idle, setting
<1>2. PICK i \in WithId(k, id) :
        /\ table[k][i].active
        /\ table' = [table EXCEPT ![k][i] =
                        [id |-> id, active |-> FALSE,
                         body |-> IF k = "far" THEN "drop" ELSE @.body]]
  BY DEF Remove
<1>3. /\ i \in DOMAIN table[k] /\ DOMAIN table[k] = 1..Len(table[k]) /\ Len(table[k]) \in Nat
      /\ Len(table[k]) <= Cap[k] /\ Cap[k] \in Nat /\ i \in Nat /\ i <= Len(table[k])
      /\ table[k][i].id = id /\ id \in Nat
  BY ShapeFacts, CapAssumption DEF IInv, WithId
<1>4. PICK b : b = IF k = "far" THEN "drop" ELSE table[k][i].body OBVIOUS
<1>5. PICK s : s = [id |-> id, active |-> FALSE, body |-> b] OBVIOUS
<1>6. table' = [table EXCEPT ![k][i] = s] BY <1>2, <1>4, <1>5
<1>7. table' = [table EXCEPT ![k] = [table[k] EXCEPT ![i] = s]] BY <1>6
<1>8. table' = WithSlot(k, i, s) BY <1>3, <1>7 DEF WithSlot
<1>9. /\ s = [id |-> s.id, active |-> s.active, body |-> s.body]
      /\ s.id \in Nat /\ ~s.active /\ s.active \in BOOLEAN
  <2>1. s.active = FALSE BY <1>5
  <2>2. s.id = id BY <1>5
  <2>3. s = [id |-> s.id, active |-> s.active, body |-> s.body] BY <1>5
  <2> QED BY <1>3, <2>1, <2>2, <2>3
<1>10. i \in 1..Cap[k] /\ i <= Len(table[k]) + 1 BY <1>3
<1>11. Changed(k, i, s) BY <1>8, <1>9, <1>10, SetSlot DEF IInv
<1>12. Others(k, i, id) BY <1>3 DEF Others, OneSlotPerRule, IInv
<1>13. live' = live \ Rules!Named(<<k, id>>) BY <1>3, <1>9, <1>11, <1>12, SlotSet
<1>14. PICK r : r = <<k, id, table[k][i].body>> OBVIOUS
<1>15. r \in live BY <1>2, <1>3, <1>14, LiveIs
<1>16. Rules!Named(<<k, id>>) = {r}
  <2>1. r \in Rules!Named(<<k, id>>) BY <1>14, <1>15 DEF Rules!Named
  <2>2. ASSUME NEW q \in live, <<q[1], q[2]>> = <<k, id>> PROVE q = r
    <3>1. PICK l \in Kind : \E j \in DOMAIN table[l] :
             table[l][j].active /\ q = <<l, table[l][j].id, table[l][j].body>>
      BY LiveIs
    <3>2. PICK j \in DOMAIN table[l] : q = <<l, table[l][j].id, table[l][j].body>>
      BY <3>1
    <3>3. l = k /\ table[l][j].id = id BY <2>2, <3>2
    <3>4. j = i BY <1>12, <3>2, <3>3 DEF Others
    <3> QED BY <1>14, <3>2, <3>3, <3>4
  <2> QED BY <2>1, <2>2 DEF Rules!Named
<1>17. Rules!Drop(r) BY <1>1, <1>13, <1>16 DEF Rules!Drop
<1> QED BY <1>15, <1>17 DEF Rules!Next

LEMMA StepsMap ==
  ASSUME IInv, [Next]_vars
  PROVE  [Rules!Next]_<<live, setting>>
<1>1. CASE NewSession
  <2>1. \A k \in Kind : DOMAIN table'[k] = {} BY <1>1 DEF NewSession, NoRules
  <2>2. live' = {} BY <2>1, LiveIs
  <2>3. setting = <<>> /\ setting' = setting BY <1>1 DEF NewSession, Idle, setting
  <2> QED BY <2>2, <2>3 DEF Rules!Next, Rules!Clear
<1>2. ASSUME NEW k \in Kind, NEW id \in Id[k], Remove(k, id) PROVE Rules!Next
  BY <1>2, RemoveStep
<1>3. ASSUME NEW k \in Kind, NEW id \in Id[k], NEW b \in Body[k],
             AddBegins(k, id, b) \/ Update(k, id, b)
      PROVE  Rules!Next
  BY <1>3, AddBeginsStep DEF Update
<1>4. CASE StampPdr
  <2>1. /\ api.pc = "stamp" /\ api.kind = "pdr" /\ api' = [api EXCEPT !.pc = "filters"]
    BY <1>4 DEF StampPdr, Busy
  <2>2. api = [pc |-> api.pc, kind |-> api.kind, id |-> api.id,
               body |-> api.body, slot |-> api.slot]
    BY <2>1, AtRuleFacts DEF AtRule
  <2>3. api'.pc = "filters" /\ api'.kind = api.kind /\ api'.id = api.id BY <2>1, <2>2
  <2>4. setting' = setting BY <2>1, <2>3 DEF setting
  <2>5. CASE api.slot <= Len(table["pdr"])
    <3>1. PICK i : i = api.slot OBVIOUS
    <3>2. PICK s : s = Rule(api.id, [api.body EXCEPT !.filters = <<>>]) OBVIOUS
    <3>3. table' = WithSlot("pdr", i, s) /\ s = Rule(api.id, s.body)
      BY <1>4, <2>5, <3>1, <3>2 DEF StampPdr, Rule
    <3> QED BY <2>1, <2>4, <3>1, <3>3, PutStep
  <2>6. CASE ~(api.slot <= Len(table["pdr"]))
    <3>1. table' = table BY <1>4, <2>6 DEF StampPdr
    <3>2. live' = live BY <3>1 DEF live
    <3> QED BY <2>4, <3>2
  <2> QED BY <2>5, <2>6
<1>5. CASE AddFilter
  <2>1. setting' = setting BY <1>5 DEF AddFilter, setting
  <2>2. PICK i, s : /\ i = api.slot /\ s = Rule(api.id, s.body)
                    /\ table' = WithSlot("pdr", i, s)
    BY <1>5, AddFilterSets
  <2> QED BY <1>5, <2>1, <2>2, PutStep DEF AddFilter, Busy
<1>6. CASE EndPdr
  <2>1. setting' = <<>> BY <1>6 DEF EndPdr, Idle, setting
  <2>2. PICK i, s : i = api.slot /\ s = Rule(api.id, api.body) OBVIOUS
  <2>3. table' = WithSlot("pdr", i, s) /\ s = Rule(api.id, s.body)
    BY <1>6, <2>2 DEF EndPdr, Rule
  <2> QED BY <1>6, <2>1, <2>2, <2>3, PutStep DEF EndPdr, Busy
<1>7. CASE Stamp
  <2>1. setting' = <<>> BY <1>7 DEF Stamp, Idle, setting
  <2>2. PICK i, k, s : i = api.slot /\ k = api.kind /\ s = Rule(api.id, api.body) OBVIOUS
  <2>3. table' = WithSlot(k, i, s) /\ s = Rule(api.id, s.body)
    BY <1>7, <2>2 DEF Stamp, Rule
  <2> QED BY <1>7, <2>1, <2>2, <2>3, PutStep DEF Stamp
<1>8. CASE StampQer
  <2>1. api' = (IF Limited(api.body.mbr) THEN [api EXCEPT !.pc = "meter"] ELSE Idle)
    BY <1>8 DEF StampQer
  <2>2. api.pc = "stamp" /\ api.kind = "qer" BY <1>8 DEF StampQer, Busy
  <2>3. api = [pc |-> api.pc, kind |-> api.kind, id |-> api.id,
               body |-> api.body, slot |-> api.slot]
    BY <2>2, AtRuleFacts DEF AtRule
  <2>4. api'.pc \in {"meter", "idle"} BY <2>1, <2>3 DEF Idle
  <2>5. setting' = <<>> BY <2>4 DEF setting
  <2>6. PICK i, s : i = api.slot /\ s = Rule(api.id, api.body) OBVIOUS
  <2>7. table' = WithSlot("qer", i, s) /\ s = Rule(api.id, s.body)
    BY <1>8, <2>6 DEF StampQer, Rule
  <2> QED BY <2>2, <2>5, <2>6, <2>7, PutStep
<1>9. CASE ClearMeter
  <2>1. api' = [api EXCEPT !.pc = "rates"] /\ api.pc = "meter" /\ table' = table
    BY <1>9 DEF ClearMeter
  <2>2. api = [pc |-> api.pc, kind |-> api.kind, id |-> api.id,
               body |-> api.body, slot |-> api.slot]
    BY <2>1, AtRuleFacts DEF AtRule
  <2>3. api'.pc = "rates" BY <2>1, <2>2
  <2> QED BY <2>1, <2>3 DEF live, setting
<1>10. CASE SetMeter BY <1>10 DEF SetMeter, Idle, live, setting
<1>11. ASSUME NEW rates \in Ambr, SetAmbr(rates) PROVE UNCHANGED <<live, setting>>
  BY <1>11 DEF SetAmbr, Idle, live, setting
<1>12. CASE ClearAmbrMeter BY <1>12 DEF ClearAmbrMeter, live, setting
<1>13. CASE SetAmbrMeter BY <1>13 DEF SetAmbrMeter, Idle, live, setting
<1>14. ASSUME NEW c \in Class, NEW d \in Dir, Packet(c, d) PROVE UNCHANGED <<live, setting>>
  BY <1>14 DEF Packet, live, setting
<1>15. CASE UNCHANGED vars BY <1>15 DEF vars, live, setting
<1> QED
  BY <1>1, <1>2, <1>3, <1>4, <1>5, <1>6, <1>7, <1>8, <1>9, <1>10, <1>11, <1>12, <1>13,
     <1>14, <1>15 DEF Next

\* To whoever sets the rules, and to the packets, the arrays of slots are sets of
\* rules: no addition, replacement or removal, and no reclaimed slot, touches
\* another rule (upf_dp_api.c).
THEOREM RulesAreASet == Spec => RuleSetSpec
<1>1. Init => Rules!Init
  <2> SUFFICES ASSUME Init PROVE Rules!Init OBVIOUS
  <2>1. \A k \in Kind : DOMAIN table[k] = {} BY DEF Init, NoRules
  <2>2. live = {} BY <2>1, LiveIs
  <2>3. setting = <<>> BY DEF Init, Idle, setting
  <2> QED BY <2>2, <2>3 DEF Rules!Init
<1>2. IInv /\ [Next]_vars => [Rules!Next]_<<live, setting>> BY StepsMap
<1> QED BY <1>1, <1>2, Invariant, PTL DEF Spec, RuleSetSpec, Rules!Spec

-----------------------------------------------------------------------------
(* The classifier ends at the best rule.  Its search is a recursive function: *)
(* the function that gives the best rule up to each slot (IsBest) satisfies   *)
(* its equation, so the search exists, and what satisfies the equation has    *)
(* the best rule up to each slot, slot after slot (UpTo).                     *)

\* A rule in force has a precedence; a step that sets one slot keeps that so.
HasPrec(b) == "prec" \in DOMAIN b /\ b.prec \in 0..NoPrec

PrecInv ==
    \A i \in DOMAIN table["pdr"] : table["pdr"][i].active => HasPrec(table["pdr"][i].body)

LEMMA PrecStep ==
  ASSUME PrecInv, NEW k \in Kind, NEW i \in Nat, NEW s, Changed(k, i, s),
         k = "pdr" /\ s.active => HasPrec(s.body)
  PROVE  PrecInv'
<1> SUFFICES ASSUME NEW j \in DOMAIN table'["pdr"], table'["pdr"][j].active
             PROVE  HasPrec(table'["pdr"][j].body)
  BY DEF PrecInv, HasPrec
<1>1. CASE k = "pdr" /\ j = i BY <1>1 DEF Changed
<1>2. CASE ~(k = "pdr" /\ j = i)
  <2>1. j \in DOMAIN table["pdr"] /\ table'["pdr"][j] = table["pdr"][j]
    BY <1>2 DEF Changed, Kind
  <2> QED BY <2>1 DEF PrecInv
<1> QED BY <1>1, <1>2

LEMMA OtherFilters ==
  ASSUME NEW b, NEW f, HasPrec(b)
  PROVE  HasPrec([b EXCEPT !.filters = f])
<1>1. DOMAIN [b EXCEPT !.filters = f] = DOMAIN b OBVIOUS
<1>2. [b EXCEPT !.filters = f].prec = b.prec BY DEF HasPrec
<1> QED BY <1>1, <1>2 DEF HasPrec

\* What the search makes of the best rule so far, v, at slot i.
Better(i, v, c, d) ==
    IF /\ Matches(table["pdr"][i], c, d)
       /\ Precedence(i) < Precedence(v)
    THEN i ELSE v

IsSearch(best, c, d) ==
    best = [i \in 0..Len(table["pdr"]) |-> IF i = 0 THEN 0 ELSE Better(i, best[i - 1], c, d)]

LEMMA ClassifyIs ==
  ASSUME NEW c, NEW d
  PROVE  Classify(c, d) = (CHOOSE best : IsSearch(best, c, d))[Len(table["pdr"])]
BY DEF Classify, IsSearch, Better

LEMMA UpTo ==
  ASSUME NEW n \in Nat, NEW S, 0 \in S, \A i \in 1..n : i - 1 \in S => i \in S
  PROVE  \A i \in 0..n : i \in S
<1> DEFINE T == (0..n) \ S
<1>1. CASE T # {}
  <2>1. T \in SUBSET Nat OBVIOUS
  <2>2. PICK m : m = Least(T) OBVIOUS
  <2>3. m \in T /\ \A j \in T : m <= j BY <1>1, <2>1, <2>2, LeastIsLeast
  <2>4. m \in 1..n /\ m - 1 \in 0..n /\ m - 1 \notin T BY <2>3
  <2> QED BY <2>3, <2>4
<1>2. CASE T = {} BY <1>2
<1> QED BY <1>1, <1>2

\* The matching rules among the first i slots, and the one to be found there.
Candidates(i, c, d) ==
    {j \in 1..i : Matches(table["pdr"][j], c, d) /\ Precedence(j) < NoPrec}

IsBest(i, v, c, d) ==
    /\ v \in Candidates(i, c, d) \cup {0}
    /\ \A j \in Candidates(i, c, d) :
        /\ v # 0
        /\ Precedence(v) <= Precedence(j)
        /\ Precedence(j) = Precedence(v) => v <= j

LEMMA Precedences ==
  ASSUME Shape, PrecInv, NEW c, NEW d
  PROVE  /\ Len(table["pdr"]) \in Nat /\ DOMAIN table["pdr"] = 1..Len(table["pdr"])
         /\ Precedence(0) = NoPrec /\ NoPrec \in Nat
         /\ \A i \in 1..Len(table["pdr"]) :
               Matches(table["pdr"][i], c, d) => Precedence(i) \in 0..NoPrec
<1>1. Len(table["pdr"]) \in Nat /\ DOMAIN table["pdr"] = 1..Len(table["pdr"])
  BY ShapeFacts DEF Kind
<1>2. ASSUME NEW i \in 1..Len(table["pdr"]), Matches(table["pdr"][i], c, d)
      PROVE  Precedence(i) \in 0..NoPrec
  <2>1. i # 0 /\ table["pdr"][i].active BY <1>2 DEF Matches
  <2>2. HasPrec(table["pdr"][i].body) BY <1>1, <2>1 DEF PrecInv
  <2> QED BY <2>1, <2>2 DEF Precedence, HasPrec
<1> QED BY <1>1, <1>2, PrecAssumption DEF Precedence

LEMMA BestNext ==
  ASSUME Shape, PrecInv, NEW c, NEW d, NEW i \in 1..Len(table["pdr"]), NEW v,
         IsBest(i - 1, v, c, d)
  PROVE  IsBest(i, Better(i, v, c, d), c, d)
<1> DEFINE n == Len(table["pdr"])
           C == Candidates(i - 1, c, d)
           D == Candidates(i, c, d)
           M(j) == Matches(table["pdr"][j], c, d)
           P(j) == Precedence(j)
<1>1. /\ n \in Nat /\ P(0) = NoPrec /\ NoPrec \in Nat
      /\ \A j \in 1..n : M(j) => P(j) \in 0..NoPrec
  BY Precedences
<1>2. \A j : j \in C <=> j \in 1..(i - 1) /\ M(j) /\ P(j) < NoPrec
  BY DEF Candidates
<1>3. \A j : j \in D <=> j \in 1..i /\ M(j) /\ P(j) < NoPrec
  BY DEF Candidates
<1>4. /\ v \in C \cup {0}
      /\ \A j \in C : v # 0 /\ P(v) <= P(j) /\ (P(j) = P(v) => v <= j)
  BY DEF IsBest
<1>5. PICK w : w = Better(i, v, c, d) OBVIOUS
<1>6. w = IF M(i) /\ P(i) < P(v) THEN i ELSE v
  BY <1>5 DEF Better
<1> HIDE DEF n, C, D, M, P
<1>7. i \in Nat /\ i \in 1..n /\ 1..(i - 1) \subseteq 1..n /\ \A j \in 1..i : j \in 1..(i - 1) \/ j = i
  BY <1>1 DEF n
<1>8. P(v) \in 0..NoPrec
  BY <1>1, <1>2, <1>4, <1>7
<1>9. \A j \in D : j \in C \/ j = i
  BY <1>2, <1>3, <1>7
<1>10. CASE M(i) /\ P(i) < P(v)
  <2>1. w = i /\ P(i) \in 0..NoPrec /\ P(i) < NoPrec /\ i \in D
    BY <1>1, <1>3, <1>6, <1>7, <1>8, <1>10
  <2>2. \A j \in C : P(i) < P(j) /\ P(j) \in 0..NoPrec
    BY <1>1, <1>2, <1>4, <1>7, <1>8, <1>10, <2>1
  <2>3. \A j \in D : i # 0 /\ P(i) <= P(j) /\ (P(j) = P(i) => i <= j)
    BY <1>7, <1>9, <2>1, <2>2
  <2> QED BY <1>5, <2>1, <2>3 DEF IsBest, P, D
<1>11. CASE ~(M(i) /\ P(i) < P(v))
  <2>1. w = v /\ v \in D \cup {0}
    BY <1>2, <1>3, <1>4, <1>6, <1>7, <1>11
  <2>2. ASSUME i \in D PROVE v # 0 /\ P(v) <= P(i) /\ v <= i
    <3>1. M(i) /\ P(i) < NoPrec /\ P(i) \in 0..NoPrec BY <1>1, <1>3, <1>7, <2>2
    <3>2. P(v) <= P(i) BY <1>8, <1>11, <3>1
    <3>3. v # 0 BY <1>1, <3>1, <3>2
    <3>4. v \in 1..(i - 1) BY <1>2, <1>4, <3>3
    <3> QED BY <1>7, <3>2, <3>3, <3>4
  <2>3. \A j \in D : v # 0 /\ P(v) <= P(j) /\ (P(j) = P(v) => v <= j)
    BY <1>4, <1>9, <2>2
  <2> QED BY <1>5, <2>1, <2>3 DEF IsBest, P, D
<1> QED BY <1>10, <1>11

LEMMA OneBest ==
  ASSUME Shape, PrecInv, NEW c, NEW d, NEW i \in 0..Len(table["pdr"]), NEW v, NEW w,
         IsBest(i, v, c, d), IsBest(i, w, c, d)
  PROVE  v = w
<1>1. /\ Len(table["pdr"]) \in Nat
      /\ \A j \in 1..Len(table["pdr"]) :
            Matches(table["pdr"][j], c, d) => Precedence(j) \in 0..NoPrec
      /\ NoPrec \in Nat
  BY Precedences
<1>2. \A j \in Candidates(i, c, d) : j \in Nat /\ j # 0 /\ Precedence(j) \in Nat
  BY <1>1 DEF Candidates
<1>3. CASE v = 0 \/ w = 0 BY <1>2, <1>3 DEF IsBest
<1>4. CASE v # 0 /\ w # 0
  <2>1. v \in Candidates(i, c, d) /\ w \in Candidates(i, c, d) BY <1>4 DEF IsBest
  <2>2. Precedence(v) <= Precedence(w) /\ Precedence(w) <= Precedence(v)
    BY <2>1 DEF IsBest
  <2>3. Precedence(v) = Precedence(w) BY <1>2, <2>1, <2>2
  <2>4. v <= w /\ w <= v BY <2>1, <2>3 DEF IsBest
  <2> QED BY <1>2, <2>1, <2>4
<1> QED BY <1>3, <1>4

\* The search exists: the function from each slot to the best rule up to it is one.
LEMMA SearchExists ==
  ASSUME Shape, PrecInv, NEW c, NEW d
  PROVE  \E best : IsSearch(best, c, d)
<1> DEFINE n == Len(table["pdr"])
           S == {i \in 0..n : \E v : IsBest(i, v, c, d)}
           g == [i \in 0..n |-> CHOOSE v : IsBest(i, v, c, d)]
<1>1. n \in Nat BY Precedences
<1>2. IsBest(0, 0, c, d) BY DEF IsBest, Candidates
<1>3. 0 \in S BY <1>1, <1>2
<1>4. \A i \in 1..n : i - 1 \in S => i \in S
  <2> TAKE i \in 1..n
  <2> HAVE i - 1 \in S
  <2>1. PICK v : IsBest(i - 1, v, c, d) OBVIOUS
  <2>2. IsBest(i, Better(i, v, c, d), c, d) BY <2>1, BestNext
  <2> QED BY <1>1, <2>2
<1>5. \A i \in 0..n : i \in S
  <2> HIDE DEF S, n
  <2> QED BY <1>1, <1>3, <1>4, UpTo
<1>6. \A i \in 0..n : IsBest(i, g[i], c, d) BY <1>5
<1>7. ASSUME NEW i \in 0..n
      PROVE  g[i] = IF i = 0 THEN 0 ELSE Better(i, g[i - 1], c, d)
  <2>1. CASE i = 0 BY <1>2, <1>6, <2>1, OneBest
  <2>2. CASE i # 0
    <3>1. i \in 1..n /\ i - 1 \in 0..n BY <1>1, <2>2
    <3>2. PICK v : v = g[i - 1] OBVIOUS
    <3>3. IsBest(i - 1, v, c, d) BY <1>6, <3>1, <3>2
    <3>4. IsBest(i, Better(i, v, c, d), c, d) BY <3>1, <3>3, BestNext
    <3>5. g[i] = Better(i, v, c, d) BY <1>6, <3>4, OneBest
    <3> QED BY <2>2, <3>2, <3>5
  <2> QED BY <2>1, <2>2
<1>8. g = [i \in 0..n |-> g[i]] OBVIOUS
<1>9. IsSearch(g, c, d)
  <2> HIDE DEF g
  <2>1. g = [i \in 0..n |-> IF i = 0 THEN 0 ELSE Better(i, g[i - 1], c, d)]
    BY <1>7, <1>8
  <2> QED BY <2>1 DEF IsSearch
<1> QED BY <1>9

LEMMA SearchFindsBest ==
  ASSUME Shape, PrecInv, NEW c, NEW d
  PROVE  IsBest(Len(table["pdr"]), Classify(c, d), c, d)
<1> DEFINE n == Len(table["pdr"])
<1>1. n \in Nat BY Precedences
<1>2. PICK best : best = (CHOOSE f : IsSearch(f, c, d)) OBVIOUS
<1>3. IsSearch(best, c, d) BY <1>2, SearchExists
<1> DEFINE S == {i \in 0..n : IsBest(i, best[i], c, d)}
<1>4. /\ best[0] = 0
      /\ \A i \in 1..n : best[i] = Better(i, best[i - 1], c, d)
  <2>1. \A i \in 0..n : best[i] = IF i = 0 THEN 0 ELSE Better(i, best[i - 1], c, d)
    BY <1>3 DEF IsSearch
  <2>2. 0 \in 0..n /\ \A i \in 1..n : i \in 0..n /\ i # 0 BY <1>1
  <2> QED BY <2>1, <2>2
<1>5. 0 \in S BY <1>1, <1>4 DEF IsBest, Candidates
<1>6. \A i \in 1..n : i - 1 \in S => i \in S BY <1>1, <1>4, BestNext
<1>7. \A i \in 0..n : i \in S
  <2> HIDE DEF S, n
  <2> QED BY <1>1, <1>5, <1>6, UpTo
<1>8. IsBest(n, best[n], c, d) BY <1>1, <1>7
<1> QED BY <1>2, <1>8, ClassifyIs

LEMMA BestIsClassified == Shape /\ PrecInv => ClassifiesBest
<1> SUFFICES ASSUME Shape, PrecInv, NEW c \in Class, NEW d \in Dir
             PROVE  LET match == {i \in DOMAIN table["pdr"] :
                              Matches(table["pdr"][i], c, d) /\ Precedence(i) < NoPrec}
                        best == {i \in match : \A j \in match : Precedence(i) <= Precedence(j)}
                    IN  IF match = {} THEN Classify(c, d) = 0
                        ELSE Classify(c, d) \in best /\ \A i \in best : Classify(c, d) <= i
  BY DEF ClassifiesBest
<1> DEFINE match == {i \in DOMAIN table["pdr"] :
                        Matches(table["pdr"][i], c, d) /\ Precedence(i) < NoPrec}
           best == {i \in match : \A j \in match : Precedence(i) <= Precedence(j)}
<1>1. match = Candidates(Len(table["pdr"]), c, d)
  BY Precedences DEF Candidates
<1>2. PICK v : v = Classify(c, d) OBVIOUS
<1>3. /\ v \in match \cup {0}
      /\ \A j \in match : v # 0 /\ Precedence(v) <= Precedence(j)
                          /\ (Precedence(j) = Precedence(v) => v <= j)
  BY <1>1, <1>2, SearchFindsBest DEF IsBest
<1>4. \A j \in match : Precedence(j) \in Nat
  <2>1. \A j \in match : /\ j \in 1..Len(table["pdr"])
                         /\ Matches(table["pdr"][j], c, d)
    BY Precedences
  <2>2. \A j \in match : Precedence(j) \in 0..NoPrec
    BY <2>1, Precedences
  <2> QED BY <2>2, Precedences
<1> HIDE DEF match
<1>5. ASSUME match = {} PROVE Classify(c, d) = 0
  BY <1>2, <1>3, <1>5
<1>6. ASSUME match # {}
      PROVE  Classify(c, d) \in best /\ \A i \in best : Classify(c, d) <= i
  <2>1. v \in best BY <1>3, <1>6
  <2>2. \A i \in best : i \in match /\ Precedence(i) = Precedence(v) BY <1>3, <1>4, <1>6, <2>1
  <2> QED BY <1>2, <1>3, <1>6, <2>1, <2>2
<1>7. IF match = {} THEN Classify(c, d) = 0
      ELSE Classify(c, d) \in best /\ \A i \in best : Classify(c, d) <= i
  <2> HIDE DEF best
  <2> QED BY <1>5, <1>6
<1> QED BY <1>7 DEF match

-----------------------------------------------------------------------------
(* Each action keeps the precedences of the rules in force.                *)

\* An addition wipes its slot, which then is not in force.
LEMMA AddBeginsPrec ==
  ASSUME IInv, PrecInv, NEW k \in Kind, NEW id \in Id[k], NEW b, AddBegins(k, id, b)
  PROVE  PrecInv'
<1>1. PICK i : i = SlotFor(k, id) OBVIOUS
<1>2. i \in 1..Cap[k] /\ i \in Nat /\ i <= Len(table[k]) + 1
  BY <1>1, SlotForFacts, CapAssumption DEF AddBegins, IInv
<1>3. CASE i <= Len(table[k])
  <2>1. PICK s : s = Wiped(k) OBVIOUS
  <2>2. /\ s = [id |-> s.id, active |-> s.active, body |-> s.body]
        /\ s.id \in Nat /\ ~s.active /\ s.active \in BOOLEAN
    BY <2>1 DEF Wiped
  <2>3. table' = WithSlot(k, i, s) BY <1>1, <1>3, <2>1 DEF AddBegins
  <2>4. Changed(k, i, s) BY <1>2, <2>2, <2>3, SetSlot DEF IInv
  <2> QED BY <1>2, <2>2, <2>4, PrecStep
<1>4. CASE ~(i <= Len(table[k]))
  <2>1. table' = table BY <1>1, <1>4 DEF AddBegins
  <2> QED BY <2>1 DEF PrecInv, HasPrec
<1> QED BY <1>3, <1>4

\* A step that stamps a slot, or adds a filter to it.
LEMMA StampedPrec ==
  ASSUME IInv, PrecInv, api.pc \in {"stamp", "filters"}, NEW k, k = api.kind,
         NEW i, i = api.slot, NEW s, s = Rule(api.id, s.body), table' = WithSlot(k, i, s),
         k = "pdr" => HasPrec(s.body)
  PROVE  PrecInv'
<1>1. k \in Kind /\ i \in Nat BY AtRuleFacts DEF AtRule
<1>2. Changed(k, i, s) BY Stamped
<1> QED BY <1>1, <1>2, PrecStep

LEMMA RemovePrec ==
  ASSUME IInv, PrecInv, NEW k \in Kind, NEW id \in Id[k], Remove(k, id)
  PROVE  PrecInv'
<1>1. PICK i \in WithId(k, id) :
        table' = [table EXCEPT ![k][i] =
                     [id |-> id, active |-> FALSE,
                      body |-> IF k = "far" THEN "drop" ELSE @.body]]
  BY DEF Remove
<1>2. /\ i \in DOMAIN table[k] /\ DOMAIN table[k] = 1..Len(table[k]) /\ Len(table[k]) \in Nat
      /\ Len(table[k]) <= Cap[k] /\ Cap[k] \in Nat /\ i \in Nat /\ i <= Len(table[k])
      /\ id \in Nat
  BY ShapeFacts, CapAssumption, IdAssumption DEF IInv, WithId
<1>3. PICK b : b = IF k = "far" THEN "drop" ELSE table[k][i].body OBVIOUS
<1>4. PICK s : s = [id |-> id, active |-> FALSE, body |-> b] OBVIOUS
<1>5. table' = [table EXCEPT ![k][i] = s] BY <1>1, <1>3, <1>4
<1>6. table' = [table EXCEPT ![k] = [table[k] EXCEPT ![i] = s]] BY <1>5
<1>7. table' = WithSlot(k, i, s) BY <1>2, <1>6 DEF WithSlot
<1>8. /\ s = [id |-> s.id, active |-> s.active, body |-> s.body]
      /\ s.id \in Nat /\ ~s.active /\ s.active \in BOOLEAN
  <2>1. s.active = FALSE BY <1>4
  <2>2. s.id = id BY <1>4
  <2>3. s = [id |-> s.id, active |-> s.active, body |-> s.body] BY <1>4
  <2> QED BY <1>2, <2>1, <2>2, <2>3
<1>9. i \in 1..Cap[k] /\ i <= Len(table[k]) + 1 BY <1>2
<1>10. Changed(k, i, s) BY <1>7, <1>8, <1>9, SetSlot DEF IInv
<1> QED BY <1>2, <1>8, <1>10, PrecStep

LEMMA NextPrec ==
  ASSUME IInv, PrecInv, [Next]_vars
  PROVE  PrecInv'
<1>1. CASE NewSession BY <1>1 DEF NewSession, NoRules, PrecInv, Kind
<1>2. ASSUME NEW k \in Kind, NEW id \in Id[k], Remove(k, id) PROVE PrecInv'
  BY <1>2, RemovePrec
<1>3. ASSUME NEW k \in Kind, NEW id \in Id[k], NEW b \in Body[k],
             AddBegins(k, id, b) \/ Update(k, id, b)
      PROVE  PrecInv'
  BY <1>3, AddBeginsPrec DEF Update
<1>4. ASSUME api.pc \in AtRule, api.kind = "pdr" PROVE HasPrec(api.body)
  BY <1>4, AtRuleFacts, PrecAssumption DEF HasPrec
<1>5. CASE StampPdr
  <2>1. api.pc = "stamp" /\ api.kind = "pdr" BY <1>5 DEF StampPdr, Busy
  <2>2. CASE api.slot <= Len(table["pdr"])
    <3>1. PICK i, k : i = api.slot /\ k = api.kind OBVIOUS
    <3>2. PICK s : s = Rule(api.id, [api.body EXCEPT !.filters = <<>>]) OBVIOUS
    <3>3. /\ table' = WithSlot(k, i, s) /\ s = Rule(api.id, s.body)
          /\ s.body = [api.body EXCEPT !.filters = <<>>]
      BY <1>5, <2>1, <2>2, <3>1, <3>2 DEF StampPdr, Rule
    <3>4. HasPrec(s.body) BY <1>4, <2>1, <3>3, OtherFilters DEF AtRule
    <3> QED BY <2>1, <3>1, <3>3, <3>4, StampedPrec
  <2>3. CASE ~(api.slot <= Len(table["pdr"]))
    <3>1. table' = table BY <1>5, <2>3 DEF StampPdr
    <3> QED BY <3>1 DEF PrecInv, HasPrec
  <2> QED BY <2>2, <2>3
<1>6. CASE AddFilter
  <2>1. api.pc = "filters" /\ api.kind = "pdr" BY <1>6 DEF AddFilter, Busy
  <2>2. PICK i, s : /\ i = api.slot /\ s = Rule(api.id, s.body) /\ table' = WithSlot("pdr", i, s)
                    /\ i \in DOMAIN table["pdr"]
                    /\ \E f : s.body = [table["pdr"][i].body EXCEPT !.filters = f]
    BY <1>6, AddFilterSets
  <2>3. table["pdr"][i].active
    <3>1. table["pdr"][i] = Rule(api.id, table["pdr"][i].body)
      BY <2>1, <2>2 DEF IInv, ApiInv
    <3> QED BY <3>1 DEF Rule
  <2>4. HasPrec(s.body) BY <2>2, <2>3, OtherFilters DEF PrecInv
  <2> QED BY <2>1, <2>2, <2>4, StampedPrec
<1>7. CASE EndPdr
  <2>1. api.pc = "filters" /\ api.kind = "pdr" BY <1>7 DEF EndPdr, Busy
  <2>2. PICK i, k, s : i = api.slot /\ k = api.kind /\ s = Rule(api.id, api.body) OBVIOUS
  <2>3. table' = WithSlot(k, i, s) /\ s = Rule(api.id, s.body) /\ s.body = api.body
    BY <1>7, <2>1, <2>2 DEF EndPdr, Rule
  <2> QED BY <1>4, <2>1, <2>2, <2>3, StampedPrec DEF AtRule
<1>8. CASE Stamp
  <2>1. api.pc = "stamp" /\ api.kind # "pdr" BY <1>8 DEF Stamp
  <2>2. PICK i, k, s : i = api.slot /\ k = api.kind /\ s = Rule(api.id, api.body) OBVIOUS
  <2>3. table' = WithSlot(k, i, s) /\ s = Rule(api.id, s.body) BY <1>8, <2>2 DEF Stamp, Rule
  <2> QED BY <2>1, <2>2, <2>3, StampedPrec
<1>9. CASE StampQer
  <2>1. api.pc = "stamp" /\ api.kind = "qer" BY <1>9 DEF StampQer, Busy
  <2>2. PICK i, k, s : i = api.slot /\ k = api.kind /\ s = Rule(api.id, api.body) OBVIOUS
  <2>3. table' = WithSlot(k, i, s) /\ s = Rule(api.id, s.body)
    BY <1>9, <2>1, <2>2 DEF StampQer, Rule
  <2> QED BY <2>1, <2>2, <2>3, StampedPrec
<1>10. ASSUME UNCHANGED table PROVE PrecInv'
  BY <1>10 DEF PrecInv, HasPrec
<1>11. ASSUME \/ ClearMeter \/ SetMeter \/ ClearAmbrMeter \/ SetAmbrMeter \/ UNCHANGED vars
              \/ \E rates \in Ambr : SetAmbr(rates)
              \/ \E c \in Class, d \in Dir : Packet(c, d)
       PROVE  UNCHANGED table
  BY <1>11 DEF ClearMeter, SetMeter, ClearAmbrMeter, SetAmbrMeter, SetAmbr, Packet, vars
<1> QED BY <1>1, <1>2, <1>3, <1>5, <1>6, <1>7, <1>8, <1>9, <1>10, <1>11 DEF Next

\* A packet is given the rule of least precedence of those that match it, and the
\* first slot of equal ones, whatever rules were added, replaced and removed
\* before, and at any point of an addition: upf_classify in upf_classifier.c.
THEOREM BestRule == Spec => []ClassifiesBest
<1>1. Init => PrecInv BY DEF Init, NoRules, PrecInv, Kind
<1>2. IInv /\ PrecInv /\ [Next]_vars => PrecInv' BY NextPrec
<1>3. IInv /\ PrecInv => ClassifiesBest BY BestIsClassified DEF IInv
<1> QED BY <1>1, <1>2, <1>3, Invariant, PTL DEF Spec
=============================================================================
