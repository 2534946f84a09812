------------------------ MODULE UpfDownlink_proofs ------------------------
(***************************************************************************)
(* Proofs about UpfDownlink, for any number of packets, buffer slots,       *)
(* reports and releases, and whatever a flush meets.                        *)
(*                                                                         *)
(* Three layers.  BaseInv: the types, what the packet thread has in hand    *)
(* (HandInv), what the rule and the buffer are at each step of a call of    *)
(* the SMF (CallInv), that the room found for a packet stays (RoomInv), and *)
(* that the packet in hand counts as astray as soon as the rule it was      *)
(* classified by buffers again (StrayInv).  LateInv: a rule that forwards   *)
(* has packets in the buffer only if they came late; EmptiedInv: what was   *)
(* found in the buffer is gone only by a flush.                             *)
(* KeptInv and LostInv: where every packet is, and that a packet which a    *)
(* flush may cost is one the flushes so far have not cost yet.              *)
(***************************************************************************)
EXTENDS UpfDownlink, FiniteSetTheorems, SequenceTheorems, TLAPS

KeepSteps == {"look", "allocate", "reserve", "count"}
Flushing == {"toHeader", "toFlush", "flush", "free", "unlink"}

HandInv ==
    /\ hand.pkt = NoPacket <=> hand.at \in {"none", "report"}
    /\ hand.pkt # NoPacket => hand.pkt = arrived

CallInv ==
    /\ action = "forward" => tunnel
    /\ call = "toForward" => tunnel
    /\ call = "clear" => action = "buffer"
    /\ call \in Flushing => action = "forward"
    /\ call \in {"flush", "free"} => mem = "live"
    /\ mem = "freed" <=> call = "unlink"

Exposed == hand.at = "forward" /\ action = "buffer"

StrayInv == Cardinality(Fallen("stray")) + (IF Exposed THEN 1 ELSE 0) <= released

RoomInv == hand.at = "count" => Room

BaseInv == TypeOK /\ HandInv /\ CallInv /\ RoomInv /\ StrayInv

LateInv == action = "forward" /\ buf # <<>> /\ call \notin Flushing => lapse # {}

\* A packet found not to be the first is the first only of a buffer that a flush
\* has emptied since.
EmptiedInv == FoundMore /\ buf = <<>> => call \in {"flush", "free"} \/ "emptied" \in lapse

Elems(s) == {s[i] : i \in DOMAIN s}
Ordered(s) == \A i, j \in DOMAIN s : i < j => s[i] < s[j]
Distinct(s) == \A i, j \in DOMAIN s : s[i] = s[j] => i = j

KeptInv ==
    /\ \A p \in Packet : fate[p] = "none" <=> p > arrived \/ p \in InHand \cup Kept
    /\ \A p \in Kept : p <= arrived
    /\ InHand \cap Kept = {}
    /\ Distinct(buf)
    /\ call # "flush" => Ordered(buf)

\* The packet in hand may be lost to a flush.
AtRisk ==
    /\ hand.at \in KeepSteps
    /\ call \in {"flush", "free", "unlink"} \/ (hand.at \in {"reserve", "count"} /\ mem # "live")

Lost == Cardinality(Fallen("lost"))

LostInv ==
    /\ Lost <= flushes
    /\ AtRisk => Lost < flushes
    /\ call = "free" /\ buf # <<>> =>
          Len(buf) = 1 /\ hand.at \notin KeepSteps /\ Lost < flushes

-----------------------------------------------------------------------------
(* The buffer.                                                             *)

LEMMA OrderedDistinct ==
  ASSUME NEW s \in Seq(Packet), Ordered(s) PROVE Distinct(s)
<1>1. DOMAIN s = 1..Len(s) /\ Len(s) \in Nat /\ \A i \in 1..Len(s) : s[i] \in Nat
  <2>1. DOMAIN s = 1..Len(s) /\ Len(s) \in Nat
    BY LenProperties
  <2>2. \A i \in 1..Len(s) : s[i] \in Packet
    BY ElementOfSeq
  <2> QED BY <2>1, <2>2, BoundsAssumption DEF Packet
<1>2. SUFFICES ASSUME NEW i \in 1..Len(s), NEW j \in 1..Len(s), s[i] = s[j], i # j PROVE FALSE
  BY <1>1 DEF Distinct
<1>3. i < j \/ j < i
  BY <1>1, <1>2
<1>4. s[i] < s[j] \/ s[j] < s[i]
  BY <1>1, <1>3 DEF Ordered
<1> QED BY <1>1, <1>2, <1>4

\* The head leaves a buffer of distinct packets.
LEMMA TailDistinct ==
  ASSUME NEW s \in Seq(Packet), s # <<>>, Distinct(s)
  PROVE  /\ Head(s) \in Elems(s) /\ Tail(s) \in Seq(Packet) /\ Len(Tail(s)) = Len(s) - 1
         /\ Elems(Tail(s)) = Elems(s) \ {Head(s)}
         /\ Distinct(Tail(s))
<1> DEFINE t == Tail(s)
<1>1. /\ t \in Seq(Packet) /\ Len(t) = Len(s) - 1
      /\ \A i \in 1..Len(t) : t[i] = s[i + 1]
      /\ Len(s) \in Nat \ {0} /\ DOMAIN s = 1..Len(s) /\ DOMAIN t = 1..Len(t)
  BY HeadTailProperties, EmptySeq, LenProperties, ElementOfSeq
<1>2. Head(s) = s[1]
  OBVIOUS
<1> HIDE DEF t
<1>3. Distinct(t)
  <2>1. SUFFICES ASSUME NEW i \in 1..Len(t), NEW j \in 1..Len(t), t[i] = t[j] PROVE i = j
    BY <1>1 DEF Distinct
  <2>2. i + 1 \in DOMAIN s /\ j + 1 \in DOMAIN s /\ s[i + 1] = s[j + 1]
    BY <1>1, <2>1
  <2>3. i + 1 = j + 1
    BY <2>2 DEF Distinct
  <2> QED BY <2>3, <1>1
<1>4. \A i \in 1..Len(s) : i # 1 => s[i] # s[1]
  BY <1>1 DEF Distinct
<1>5. Elems(t) = Elems(s) \ {Head(s)}
  <2>1. ASSUME NEW i \in 1..Len(t) PROVE t[i] \in Elems(s) /\ t[i] # Head(s)
    <3>1. i + 1 \in 1..Len(s) /\ i + 1 # 1 /\ t[i] = s[i + 1]
      BY <1>1
    <3> QED BY <3>1, <1>1, <1>2, <1>4 DEF Elems
  <2>2. ASSUME NEW i \in 1..Len(s), s[i] # Head(s) PROVE s[i] \in Elems(t)
    <3>1. i # 1
      BY <2>2, <1>2
    <3>2. i - 1 \in 1..Len(t) /\ t[i - 1] = s[(i - 1) + 1] /\ (i - 1) + 1 = i
      BY <3>1, <1>1
    <3> QED BY <3>2, <1>1 DEF Elems
  <2> QED BY <2>1, <2>2, <1>1 DEF Elems
<1>6. Head(s) \in Elems(s)
  BY <1>1, <1>2 DEF Elems
<1> QED BY <1>1, <1>3, <1>5, <1>6 DEF t

\* A packet that is not in the buffer is added to it.
LEMMA AppendDistinct ==
  ASSUME NEW s \in Seq(Packet), Distinct(s), NEW p \in Packet, p \notin Elems(s)
  PROVE  /\ Append(s, p) \in Seq(Packet) /\ Len(Append(s, p)) = Len(s) + 1
         /\ Elems(Append(s, p)) = Elems(s) \cup {p}
         /\ Distinct(Append(s, p))
<1> DEFINE t == Append(s, p)
<1>1. /\ t \in Seq(Packet) /\ Len(t) = Len(s) + 1 /\ Len(s) \in Nat
      /\ DOMAIN s = 1..Len(s) /\ DOMAIN t = 1..(Len(s) + 1)
      /\ \A i \in 1..Len(s) : t[i] = s[i]
      /\ t[Len(s) + 1] = p
  BY AppendProperties, LenProperties
<1> HIDE DEF t
<1>2. \A i \in 1..(Len(s) + 1) : i \in 1..Len(s) \/ i = Len(s) + 1
  BY <1>1
<1>3. Distinct(t)
  <2>1. SUFFICES ASSUME NEW i \in 1..(Len(s) + 1), NEW j \in 1..(Len(s) + 1), t[i] = t[j]
                 PROVE  i = j
    BY <1>1 DEF Distinct
  <2>2. CASE i \in 1..Len(s) /\ j \in 1..Len(s)
    BY <2>1, <2>2, <1>1 DEF Distinct
  <2>3. CASE i \in 1..Len(s) /\ j = Len(s) + 1
    BY <2>1, <2>3, <1>1 DEF Elems
  <2>4. CASE i = Len(s) + 1 /\ j \in 1..Len(s)
    BY <2>1, <2>4, <1>1 DEF Elems
  <2> QED BY <2>2, <2>3, <2>4, <1>2
<1>4. Elems(t) = Elems(s) \cup {p}
  <2>1. \A i \in 1..Len(s) : i \in 1..(Len(s) + 1)
    BY <1>1
  <2>2. Len(s) + 1 \in 1..(Len(s) + 1)
    BY <1>1
  <2> QED BY <1>1, <1>2, <2>1, <2>2 DEF Elems
<1> QED BY <1>1, <1>3, <1>4 DEF t

\* The last packet that arrived keeps the order.
LEMMA AppendOrdered ==
  ASSUME NEW s \in Seq(Packet), Ordered(s), NEW p \in Packet, \A q \in Elems(s) : q < p
  PROVE  Ordered(Append(s, p))
<1> DEFINE t == Append(s, p)
<1>1. /\ Len(s) \in Nat
      /\ DOMAIN s = 1..Len(s) /\ DOMAIN t = 1..(Len(s) + 1)
      /\ \A i \in 1..Len(s) : t[i] = s[i]
      /\ t[Len(s) + 1] = p
  BY AppendProperties, LenProperties
<1> HIDE DEF t
<1>2. SUFFICES ASSUME NEW i \in 1..(Len(s) + 1), NEW j \in 1..(Len(s) + 1), i < j
               PROVE  t[i] < t[j]
  BY <1>1 DEF Ordered, t
<1>3. i \in 1..Len(s) /\ (j \in 1..Len(s) \/ j = Len(s) + 1)
  BY <1>1, <1>2
<1>4. CASE j \in 1..Len(s)
  BY <1>2, <1>3, <1>4, <1>1 DEF Ordered
<1>5. CASE j = Len(s) + 1
  BY <1>3, <1>5, <1>1 DEF Elems
<1> QED BY <1>3, <1>4, <1>5

\* A packet is copied over one that waits.
LEMMA OverDistinct ==
  ASSUME NEW s \in Seq(Packet), Distinct(s), NEW p \in Packet, p \notin Elems(s), NEW k \in DOMAIN s
  PROVE  /\ [s EXCEPT ![k] = p] \in Seq(Packet) /\ Len([s EXCEPT ![k] = p]) = Len(s)
         /\ s[k] \in Elems(s)
         /\ Elems([s EXCEPT ![k] = p]) = (Elems(s) \ {s[k]}) \cup {p}
         /\ Distinct([s EXCEPT ![k] = p])
<1> DEFINE t == [s EXCEPT ![k] = p]
<1>1. DOMAIN s = 1..Len(s) /\ Len(s) \in Nat
  BY LenProperties
<1>2. t \in Seq(Packet) /\ Len(t) = Len(s)
  BY <1>1, ExceptSeq
<1>3. DOMAIN t = DOMAIN s /\ t[k] = p /\ \A i \in DOMAIN s : i # k => t[i] = s[i]
  OBVIOUS
<1> HIDE DEF t
<1>4. \A i \in DOMAIN s : s[i] # p /\ s[i] \in Elems(s)
  BY DEF Elems
<1>5. Distinct(t)
  BY <1>3, <1>4 DEF Distinct
<1>6. Elems(t) = (Elems(s) \ {s[k]}) \cup {p}
  BY <1>3, <1>4 DEF Elems, Distinct
<1> QED BY <1>2, <1>4, <1>5, <1>6 DEF t

-----------------------------------------------------------------------------
(* What became of the packets.                                             *)

\* A set of packets is finite, and one more packet counts for one at most.
LEMMA PacketSets ==
  ASSUME NEW S \in SUBSET Packet
  PROVE  /\ IsFiniteSet(S) /\ Cardinality(S) \in Nat
         /\ \A p : Cardinality(S \cup {p}) \in Nat
                  /\ Cardinality(S \cup {p}) <= Cardinality(S) + 1
         /\ \A T \in SUBSET S : Cardinality(T) \in Nat /\ Cardinality(T) <= Cardinality(S)
<1>1. IsFiniteSet(1..Packets)
  BY FS_Interval, BoundsAssumption
<1>2. IsFiniteSet(S)
  BY <1>1, FS_Subset DEF Packet
<1>3. Cardinality(S) \in Nat
  BY <1>2, FS_CardinalityType
<1>4. ASSUME NEW p PROVE Cardinality(S \cup {p}) \in Nat /\ Cardinality(S \cup {p}) <= Cardinality(S) + 1
  BY <1>2, <1>3, FS_AddElement
<1>5. ASSUME NEW T \in SUBSET S PROVE Cardinality(T) \in Nat /\ Cardinality(T) <= Cardinality(S)
  BY <1>2, FS_Subset, FS_CardinalityType
<1> QED BY <1>2, <1>3, <1>4, <1>5

\* One packet meets its fate.
LEMMA FateCounts ==
  ASSUME TypeOK, NEW p \in Packet, NEW g \in Fates, fate' = [fate EXCEPT ![p] = g], NEW f
  PROVE  /\ fate' \in [Packet -> Fates]
         /\ Cardinality(Fallen(f)) \in Nat /\ Cardinality(Fallen(f)') \in Nat
         /\ Cardinality(Fallen(f)') <= Cardinality(Fallen(f)) + 1
         /\ g # f => Cardinality(Fallen(f)') <= Cardinality(Fallen(f))
<1>1. fate \in [Packet -> Fates]
  BY DEF TypeOK
<1>2. Fallen(f) \in SUBSET Packet /\ Fallen(f)' \in SUBSET Packet
  BY DEF Fallen
<1>3. Fallen(f)' \subseteq Fallen(f) \cup {p}
  BY <1>1 DEF Fallen
<1>4. g # f => Fallen(f)' \subseteq Fallen(f)
  BY <1>1 DEF Fallen
<1>5. Fallen(f) \cup {p} \in SUBSET Packet
  BY <1>2
<1>6. Cardinality(Fallen(f)') <= Cardinality(Fallen(f) \cup {p})
  BY <1>3, <1>5, PacketSets
<1>7. /\ Cardinality(Fallen(f)) \in Nat /\ Cardinality(Fallen(f)') \in Nat
      /\ Cardinality(Fallen(f) \cup {p}) \in Nat
      /\ Cardinality(Fallen(f) \cup {p}) <= Cardinality(Fallen(f)) + 1
  BY <1>2, PacketSets
<1>8. g # f => Cardinality(Fallen(f)') <= Cardinality(Fallen(f))
  BY <1>2, <1>4, PacketSets
<1>9. fate' \in [Packet -> Fates]
  BY <1>1
<1> QED BY <1>6, <1>7, <1>8, <1>9

-----------------------------------------------------------------------------
(* The first layer.                                                        *)

LEMMA InitBase == Init => BaseInv
<1> SUFFICES ASSUME Init PROVE BaseInv
  OBVIOUS
<1> USE SlotsAssumption, BoundsAssumption
<1>1. TypeOK
  <2>1. <<>> \in Seq(Packet) /\ Len(<<>>) = 0
    BY EmptySeq
  <2>2. Len(<<>>) <= Slots /\ 0 \in 0..ReportRoom /\ 0 \in 0..Packets /\ 0 \in 0..Releases
    BY <2>1
  <2>3. /\ hand \in [pkt : Packet \cup {NoPacket}, at : Steps, empty : BOOLEAN] /\ call \in Calls
        /\ fate \in [Packet -> Fates]
    BY DEF Init, EmptyHand, Steps, Calls, Fates
  <2> QED BY <2>1, <2>2, <2>3 DEF Init, TypeOK
<1>2. HandInv /\ CallInv /\ RoomInv
  BY DEF Init, HandInv, CallInv, RoomInv, EmptyHand, Flushing
<1>3. StrayInv
  <2>1. Fallen("stray") = {} /\ ~Exposed /\ released = 0
    BY DEF Init, Fallen, Exposed, EmptyHand
  <2>2. Cardinality(Fallen("stray")) = 0
    BY <2>1, FS_EmptySet
  <2> QED BY <2>1, <2>2 DEF StrayInv
<1> QED BY <1>1, <1>2, <1>3 DEF BaseInv

LEMMA ClassifyBase == ASSUME BaseInv, Classify, UNCHANGED policy PROVE BaseInv'
<1> USE BoundsAssumption
<1>1. /\ hand.at = "none" /\ arrived \in Nat /\ arrived < Packets /\ arrived' = arrived + 1
      /\ hand'.pkt = arrived + 1 /\ hand'.at \in {"forward", "look"} /\ hand'.empty = FALSE
      /\ hand'.at = "forward" <=> action = "forward"
      /\ UNCHANGED <<action, tunnel, header, buf, mem, call, state, policy, reports, paged, lapse>>
      /\ UNCHANGED <<fate, flushes, released>>
  BY DEF Classify, BaseInv, TypeOK, rule, buffer, smf, paging, ghosts
<1>2. TypeOK'
  <2>1. hand' \in [pkt : Packet \cup {NoPacket}, at : Steps, empty : BOOLEAN]
    <3>1. arrived + 1 \in Packet
      BY <1>1 DEF Packet
    <3>2. CASE action = "forward"
      <4>1. hand' = [pkt |-> arrived + 1, empty |-> FALSE, at |-> "forward"]
        BY <3>2 DEF Classify
      <4> QED BY <3>1, <4>1 DEF Steps
    <3>3. CASE action # "forward"
      <4>1. hand' = [pkt |-> arrived + 1, empty |-> FALSE, at |-> "look"]
        BY <3>3 DEF Classify
      <4> QED BY <3>1, <4>1 DEF Steps
    <3> QED BY <3>2, <3>3
  <2> QED BY <1>1, <2>1 DEF BaseInv, TypeOK
<1>3. HandInv' /\ CallInv' /\ RoomInv'
  BY <1>1 DEF BaseInv, HandInv, CallInv, RoomInv, NoPacket
<1>4. StrayInv'
  <2>1. ~Exposed' /\ Fallen("stray")' = Fallen("stray")
    BY <1>1 DEF Exposed, Fallen
  <2>2. Cardinality(Fallen("stray")) \in Nat /\ released \in Nat
    BY PacketSets DEF BaseInv, TypeOK, Fallen
  <2> QED BY <1>1, <2>1, <2>2 DEF BaseInv, StrayInv
<1> QED BY <1>2, <1>3, <1>4 DEF BaseInv

LEMMA StrayNumbers ==
  BaseInv => /\ Cardinality(Fallen("stray")) \in Nat /\ released \in Nat
             /\ Exposed => Cardinality(Fallen("stray")) + 1 <= released
             /\ Cardinality(Fallen("stray")) <= released
<1> SUFFICES ASSUME BaseInv
             PROVE  /\ Cardinality(Fallen("stray")) \in Nat /\ released \in Nat
                    /\ Exposed => Cardinality(Fallen("stray")) + 1 <= released
                    /\ Cardinality(Fallen("stray")) <= released
  OBVIOUS
<1>1. Fallen("stray") \in SUBSET Packet
  BY DEF Fallen
<1>2. Cardinality(Fallen("stray")) \in Nat
  BY <1>1, PacketSets
<1>3. released \in Nat
  BY BoundsAssumption DEF BaseInv, TypeOK
<1> QED BY <1>2, <1>3 DEF BaseInv, StrayInv

\* What a step of the packet thread leaves in its hand.
HandOK ==
    /\ hand' \in [pkt : Packet \cup {NoPacket}, at : Steps, empty : BOOLEAN]
    /\ HandInv' /\ hand'.at # "forward"

LEMMA HandEmptied ==
  ASSUME hand' = EmptyHand \/ hand' = [EmptyHand EXCEPT !.at = "report"]
  PROVE  HandOK /\ hand'.pkt = NoPacket /\ hand'.at \notin KeepSteps
<1>1. CASE hand' = EmptyHand
  BY <1>1 DEF EmptyHand, Steps, HandOK, HandInv, KeepSteps
<1>2. CASE hand' = [EmptyHand EXCEPT !.at = "report"]
  <2>1. hand' = [pkt |-> NoPacket, at |-> "report", empty |-> FALSE]
    BY <1>2 DEF EmptyHand
  <2> QED BY <2>1 DEF Steps, HandOK, HandInv, KeepSteps
<1> QED BY <1>1, <1>2

LEMMA HandLeft == Leaves => HandOK /\ hand'.pkt = NoPacket /\ hand'.at \notin KeepSteps
BY HandEmptied DEF Leaves

LEMMA HandAdvanced ==
  ASSUME BaseInv, UNCHANGED arrived, hand.at \in KeepSteps,
         NEW s \in KeepSteps \cup {"fault"}, NEW e \in BOOLEAN,
         hand' = [hand EXCEPT !.at = s] \/ hand' = [hand EXCEPT !.at = s, !.empty = e]
  PROVE  HandOK /\ hand'.pkt = hand.pkt /\ hand'.at = s
<1>1. hand \in [pkt : Packet \cup {NoPacket}, at : Steps, empty : BOOLEAN]
  BY DEF BaseInv, TypeOK
<1>2. s \in Steps /\ s \notin {"none", "report", "forward"} /\ hand.at \notin {"none", "report"}
  BY DEF KeepSteps, Steps
<1>3. hand'.pkt = hand.pkt /\ hand'.at = s
  BY <1>1
<1>4. hand' \in [pkt : Packet \cup {NoPacket}, at : Steps, empty : BOOLEAN]
  BY <1>1, <1>2
<1> QED BY <1>2, <1>3, <1>4 DEF HandOK, HandInv, BaseInv

\* A step of the packet thread with a packet in hand.
LEMMA PacketBase ==
  ASSUME BaseInv, UNCHANGED policy, HandOnly, HandOK,
         buf' \in Seq(Packet), Len(buf') <= Slots, mem' # "live" => buf' = <<>>,
         hand'.at = "count" => Len(buf') < Slots,
         mem' = mem \/ (mem = "none" /\ mem' = "live"),
         reports' \in 0..ReportRoom, lapse' \subseteq Lapses,
         fate' \in [Packet -> Fates],
         \/ Cardinality(Fallen("stray")') <= Cardinality(Fallen("stray"))
         \/ Exposed /\ Cardinality(Fallen("stray")') <= Cardinality(Fallen("stray")) + 1
  PROVE  BaseInv'
<1>1. /\ UNCHANGED <<action, tunnel, header, call, state, policy, paged, arrived, flushes, released>>
      /\ mem \in {"none", "live", "freed"}
  BY DEF HandOnly, rule, smf, ghosts, BaseInv, TypeOK
<1>2. TypeOK'
  BY <1>1 DEF BaseInv, TypeOK, HandOK
<1>3. CallInv' /\ RoomInv'
  BY <1>1 DEF BaseInv, CallInv, RoomInv, Room
<1>4. StrayInv'
  <2>1. Fallen("stray")' \in SUBSET Packet
    BY DEF Fallen
  <2>2. Cardinality(Fallen("stray")') \in Nat
    BY <2>1, PacketSets
  <2>3. Cardinality(Fallen("stray")') <= released
    BY <2>2, StrayNumbers
  <2>4. ~Exposed'
    BY DEF Exposed, HandOK
  <2> QED BY <1>1, <2>2, <2>3, <2>4, StrayNumbers DEF StrayInv
<1> QED BY <1>2, <1>3, <1>4 DEF BaseInv, HandOK

LEMMA InPacket ==
  ASSUME BaseInv, hand.at \notin {"none", "report"}
  PROVE  hand.pkt \in Packet /\ hand.pkt # NoPacket /\ hand.pkt = arrived
BY DEF BaseInv, TypeOK, HandInv

\* The packet in hand meets a fate, or none does.
LEMMA FateBase ==
  ASSUME BaseInv, UNCHANGED policy, HandOnly, HandOK, UNCHANGED <<buf, mem>>,
         hand'.at = "count" => Len(buf) < Slots,
         reports' \in 0..ReportRoom, lapse' \subseteq Lapses,
         \/ UNCHANGED fate
         \/ \E p \in Packet, g \in Fates :
               fate' = [fate EXCEPT ![p] = g] /\ (g = "stray" => Exposed)
  PROVE  BaseInv'
<1>1. /\ buf' \in Seq(Packet) /\ Len(buf') <= Slots /\ (mem' # "live" => buf' = <<>>)
      /\ hand'.at = "count" => Len(buf') < Slots
      /\ fate \in [Packet -> Fates]
  BY DEF BaseInv, TypeOK
<1>2. CASE UNCHANGED fate
  <2>1. Fallen("stray")' = Fallen("stray")
    BY <1>2 DEF Fallen
  <2>2. Cardinality(Fallen("stray")') <= Cardinality(Fallen("stray"))
    BY <2>1, StrayNumbers
  <2> QED BY <1>1, <1>2, <2>2, PacketBase
<1>3. CASE \E p \in Packet, g \in Fates :
              fate' = [fate EXCEPT ![p] = g] /\ (g = "stray" => Exposed)
  <2>1. PICK p \in Packet, g \in Fates : fate' = [fate EXCEPT ![p] = g] /\ (g = "stray" => Exposed)
    BY <1>3
  <2>2. /\ fate' \in [Packet -> Fates]
        /\ \/ Cardinality(Fallen("stray")') <= Cardinality(Fallen("stray"))
           \/ Exposed /\ Cardinality(Fallen("stray")') <= Cardinality(Fallen("stray")) + 1
    BY <2>1, FateCounts DEF BaseInv
  <2> QED BY <1>1, <2>2, PacketBase
<1> QED BY <1>2, <1>3

LEMMA ReportTypes ==
  ASSUME BaseInv, \/ UNCHANGED <<reports, lapse>>
                  \/ reports < ReportRoom /\ reports' = reports + 1 /\ UNCHANGED lapse
                  \/ (\E why \in Lapses : Because(why)) /\ UNCHANGED reports
  PROVE  reports' \in 0..ReportRoom /\ lapse' \subseteq Lapses
<1>1. reports \in 0..ReportRoom /\ lapse \subseteq Lapses /\ ReportRoom \in Nat
  BY BoundsAssumption DEF BaseInv, TypeOK
<1>2. CASE UNCHANGED <<reports, lapse>>
  BY <1>1, <1>2
<1>3. CASE reports < ReportRoom /\ reports' = reports + 1 /\ UNCHANGED lapse
  BY <1>1, <1>3
<1>4. CASE (\E why \in Lapses : Because(why)) /\ UNCHANGED reports
  BY <1>1, <1>4 DEF Because
<1> QED BY <1>2, <1>3, <1>4

LEMMA KeepBase == ASSUME BaseInv, Keep, UNCHANGED policy PROVE BaseInv'
<1>1. hand.pkt \in Packet /\ HandOK /\ hand'.at # "count" /\ Len(buf) < Slots
  BY InPacket, HandLeft DEF Keep, KeepSteps, BaseInv, RoomInv, Room
<1>2. /\ buf' = Append(buf, hand.pkt) /\ buf \in Seq(Packet) /\ Len(buf) <= Slots
      /\ mem = "live" /\ mem' = mem /\ fate' = fate /\ fate \in [Packet -> Fates]
      /\ reports' = reports /\ reports \in 0..ReportRoom /\ lapse \subseteq Lapses /\ HandOnly
  BY DEF Keep, BaseInv, TypeOK
<1>3. lapse' \subseteq Lapses
  <2>1. lapse' \subseteq lapse \cup {"late", "emptied"}
    BY DEF Keep
  <2> QED BY <1>2, <2>1 DEF Lapses
<1>4. Fallen("stray")' = Fallen("stray")
  BY <1>2 DEF Fallen
<1>5. Cardinality(Fallen("stray")') <= Cardinality(Fallen("stray"))
  BY <1>4, StrayNumbers
<1>6. buf' \in Seq(Packet) /\ Len(buf') = Len(buf) + 1
  BY <1>1, <1>2, AppendProperties
<1>7. Len(buf') <= Slots
  BY <1>1, <1>2, <1>6, LenProperties, SlotsAssumption
<1> QED BY <1>1, <1>2, <1>3, <1>5, <1>6, <1>7, PacketBase

LEMMA KeepOverBase == ASSUME BaseInv, KeepOver, UNCHANGED policy PROVE BaseInv'
<1>1. hand.pkt \in Packet /\ HandOK /\ hand'.at # "count"
  BY InPacket, HandLeft DEF KeepOver, KeepSteps
<1>2. PICK i \in DOMAIN buf : buf' = [buf EXCEPT ![i] = hand.pkt] /\ fate' = [fate EXCEPT ![buf[i]] = "lost"]
  BY DEF KeepOver
<1>3. /\ buf \in Seq(Packet) /\ Len(buf) <= Slots /\ DOMAIN buf = 1..Len(buf)
      /\ (mem # "live" => buf = <<>>) /\ mem' = mem
      /\ reports' = reports /\ reports \in 0..ReportRoom /\ lapse' \subseteq Lapses /\ HandOnly
  BY LenProperties DEF KeepOver, BaseInv, TypeOK
<1>4. buf' \in Seq(Packet) /\ Len(buf') = Len(buf) /\ buf[i] \in Packet
  BY <1>1, <1>2, <1>3, ExceptSeq, ElementOfSeq
<1>5. mem' # "live" => buf' = <<>>
  BY <1>2, <1>3
<1>6. /\ fate' \in [Packet -> Fates]
      /\ Cardinality(Fallen("stray")') <= Cardinality(Fallen("stray"))
  BY <1>2, <1>4, FateCounts DEF BaseInv, Fates
<1> QED BY <1>1, <1>3, <1>4, <1>5, <1>6, PacketBase

LEMMA PacketThreadBase == ASSUME BaseInv, PacketThread PROVE BaseInv'
<1> USE DEF Running
<1>1. /\ UNCHANGED policy /\ reports \in 0..ReportRoom /\ lapse \subseteq Lapses
      /\ buf \in Seq(Packet) /\ Len(buf) <= Slots /\ (mem # "live" => buf = <<>>)
      /\ mem \in {"none", "live", "freed"} /\ fate \in [Packet -> Fates]
  BY DEF PacketThread, BaseInv, TypeOK
<1>2. CASE Forward
  <2>1. hand.pkt \in Packet /\ HandOK /\ hand'.at # "count" /\ (~tunnel => Exposed)
    BY <1>2, InPacket, HandEmptied DEF Forward, KeepSteps, Exposed, BaseInv, CallInv, TypeOK
  <2>2. \E g \in Fates : fate' = [fate EXCEPT ![hand.pkt] = g] /\ (g = "stray" => ~tunnel)
    <3>1. CASE ~header
      BY <1>2, <3>1 DEF Forward, Becomes, Fates
    <3>2. CASE header /\ tunnel
      BY <1>2, <3>2 DEF Forward, Becomes, Fates
    <3>3. CASE header /\ ~tunnel
      BY <1>2, <3>3 DEF Forward, Becomes, Fates
    <3> QED BY <3>1, <3>2, <3>3
  <2>3. /\ HandOnly /\ UNCHANGED <<buf, mem>>
        /\ reports' \in 0..ReportRoom /\ lapse' \subseteq Lapses
    BY <1>1, <1>2 DEF Forward, buffer
  <2> QED BY <1>1, <2>1, <2>2, <2>3, FateBase
<1>3. CASE SendFails \/ KeepFails \/ KeepUncounted \/ KeepGone
  <2>1. hand.pkt \in Packet /\ HandOK /\ hand'.at # "count"
    BY <1>3, InPacket, HandEmptied, HandLeft
    DEF SendFails, KeepFails, KeepUncounted, KeepGone, KeepSteps
  <2>2. \E g \in Fates : fate' = [fate EXCEPT ![hand.pkt] = g] /\ (g = "stray" => Exposed)
    BY <1>3 DEF SendFails, KeepFails, KeepUncounted, KeepGone, Becomes, Fates
  <2>3. /\ HandOnly /\ UNCHANGED <<buf, mem>>
        /\ reports' \in 0..ReportRoom /\ lapse' \subseteq Lapses
    BY <1>1, <1>3 DEF SendFails, KeepFails, KeepUncounted, KeepGone, buffer
  <2> QED BY <1>1, <2>1, <2>2, <2>3, FateBase
<1>4. CASE Look \/ Reserve \/ KeepFaults
  <2>1. /\ HandOnly /\ UNCHANGED <<buf, mem, fate>> /\ UNCHANGED arrived
        /\ reports' \in 0..ReportRoom /\ lapse' \subseteq Lapses
    <3>1. lapse' = lapse \/ lapse' \subseteq lapse \cup {"emptied"}
      BY <1>4 DEF Look, Reserve, KeepFaults
    <3>2. HandOnly /\ UNCHANGED <<buf, mem, fate, reports>>
      BY <1>4 DEF Look, Reserve, KeepFaults, buffer
    <3> QED BY <1>1, <3>1, <3>2 DEF HandOnly, Lapses
  <2>2. HandOK /\ (hand'.at = "count" => Len(buf) < Slots)
    <3>1. CASE Look
      <4>1. hand.at \in KeepSteps /\ \E e \in BOOLEAN : hand' = [hand EXCEPT !.at = "allocate", !.empty = e]
        <5>1. CASE mem = "freed"
          BY <3>1, <5>1 DEF Look, KeepSteps
        <5>2. CASE mem # "freed"
          <6>1. WasEmpty \in BOOLEAN
            BY DEF WasEmpty
          <6> QED BY <3>1, <5>2, <6>1 DEF Look, KeepSteps
        <5> QED BY <5>1, <5>2
      <4>2. HandOK /\ hand'.at = "allocate"
        BY <2>1, <4>1, HandAdvanced DEF KeepSteps
      <4> QED BY <4>2
    <3>2. CASE Reserve
      <4>1. hand.at \in KeepSteps /\ hand' = [hand EXCEPT !.at = "count"]
        BY <3>2 DEF Reserve, Advances, KeepSteps
      <4>2. HandOK
        BY <2>1, <4>1, HandAdvanced DEF KeepSteps
      <4>3. Len(buf) < Slots
        <5>1. CASE mem = "live"
          BY <3>2, <5>1 DEF Reserve, Room
        <5>2. CASE mem # "live"
          BY <1>1, <5>2, EmptySeq, SlotsAssumption
        <5> QED BY <5>1, <5>2
      <4> QED BY <4>2, <4>3
    <3>3. CASE KeepFaults
      <4>1. hand.at \in KeepSteps /\ hand' = [hand EXCEPT !.at = "fault"]
        BY <3>3 DEF KeepFaults, Advances, KeepSteps
      <4>2. HandOK /\ hand'.at = "fault"
        BY <2>1, <4>1, HandAdvanced DEF KeepSteps
      <4> QED BY <4>2
    <3> QED BY <1>4, <3>1, <3>2, <3>3
  <2> QED BY <1>1, <2>1, <2>2, FateBase
<1>5. CASE Allocate
  <2>1. /\ HandOnly /\ UNCHANGED <<buf, fate, arrived, reports, lapse>>
        /\ mem' = mem \/ (mem = "none" /\ mem' = "live")
    BY <1>5 DEF Allocate, HandOnly
  <2>2. hand.at \in KeepSteps /\ hand' = [hand EXCEPT !.at = "reserve"]
    BY <1>5 DEF Allocate, Advances, KeepSteps
  <2>3. HandOK /\ hand'.at = "reserve"
    BY <2>1, <2>2, HandAdvanced DEF KeepSteps
  <2>4. Fallen("stray")' = Fallen("stray")
    BY <2>1 DEF Fallen
  <2>5. Cardinality(Fallen("stray")') <= Cardinality(Fallen("stray"))
    BY <2>4, StrayNumbers
  <2> QED BY <1>1, <2>1, <2>3, <2>5, PacketBase
<1>6. CASE Report
  <2>1. HandOK /\ hand'.at # "count"
    BY <1>6, HandEmptied DEF Report, KeepSteps
  <2>2. HandOnly /\ UNCHANGED <<buf, mem, fate>>
    BY <1>6 DEF Report, buffer
  <2>3. \/ reports < ReportRoom /\ reports' = reports + 1 /\ UNCHANGED lapse
        \/ (\E why \in Lapses : Because(why)) /\ UNCHANGED reports
    BY <1>6 DEF Report, Lapses
  <2>4. reports' \in 0..ReportRoom /\ lapse' \subseteq Lapses
    BY <2>3, ReportTypes
  <2> QED BY <1>1, <2>1, <2>2, <2>4, FateBase
<1> QED BY <1>1, <1>2, <1>3, <1>4, <1>5, <1>6, KeepBase, KeepOverBase DEF PacketThread

\* A step of the SMF leaves the hand alone, and sends nothing astray.
LEMMA StrayKept ==
  ASSUME BaseInv, UNCHANGED hand, released' \in Nat, released' >= released,
         Cardinality(Fallen("stray")') <= Cardinality(Fallen("stray")),
         \/ action' = action
         \/ action' = "forward"
         \/ released' = released + 1
  PROVE  StrayInv'
<1>1. Fallen("stray")' \in SUBSET Packet
  BY DEF Fallen
<1>2. Cardinality(Fallen("stray")') \in Nat
  BY <1>1, PacketSets
<1>3. CASE Exposed' /\ Exposed
  BY <1>2, <1>3, StrayNumbers DEF StrayInv
<1>4. CASE ~Exposed'
  BY <1>2, <1>4, StrayNumbers DEF StrayInv
<1>5. CASE Exposed' /\ ~Exposed
  <2>1. released' = released + 1
    BY <1>5 DEF Exposed
  <2> QED BY <1>2, <2>1, StrayNumbers DEF StrayInv
<1> QED BY <1>3, <1>4, <1>5

LEMMA FateSame ==
  ASSUME BaseInv, UNCHANGED fate
  PROVE  Cardinality(Fallen("stray")') <= Cardinality(Fallen("stray"))
<1>1. Fallen("stray")' = Fallen("stray")
  BY DEF Fallen
<1> QED BY <1>1, StrayNumbers

LEMMA FlushOneBase == ASSUME BaseInv, FlushOne, UNCHANGED policy PROVE BaseInv'
<1>1. /\ buf \in Seq(Packet) /\ buf # <<>> /\ Len(buf) <= Slots /\ buf' = Tail(buf)
      /\ call = "flush" /\ mem = "live"
      /\ UNCHANGED <<action, tunnel, header, mem, hand, call, state, reports, paged, lapse>>
      /\ UNCHANGED <<arrived, flushes, released>>
  BY DEF BaseInv, TypeOK, CallInv, FlushOne, rule, smf, paging, ghosts
<1>2. Head(buf) \in Packet /\ Tail(buf) \in Seq(Packet) /\ Len(Tail(buf)) = Len(buf) - 1 /\ Len(buf) \in Nat
  BY <1>1, HeadTailProperties, LenProperties
<1>3. /\ fate' \in [Packet -> Fates]
      /\ Cardinality(Fallen("stray")') <= Cardinality(Fallen("stray"))
  <2>1. PICK f \in {"sent", "missed"} : fate' = [fate EXCEPT ![Head(buf)] = f]
    BY DEF FlushOne
  <2> QED BY <1>2, <2>1, FateCounts DEF BaseInv, Fates
<1>4. Len(buf') <= Slots /\ (Len(buf) < Slots => Len(buf') < Slots)
  BY <1>1, <1>2, SlotsAssumption
<1>5. TypeOK'
  BY <1>1, <1>2, <1>3, <1>4 DEF BaseInv, TypeOK
<1>6. HandInv' /\ CallInv' /\ RoomInv'
  BY <1>1, <1>4 DEF BaseInv, HandInv, CallInv, RoomInv, Room
<1>7. StrayInv'
  BY <1>1, <1>3, StrayNumbers, StrayKept
<1> QED BY <1>5, <1>6, <1>7 DEF BaseInv

LEMMA FreeBufferBase == ASSUME BaseInv, FreeBuffer, UNCHANGED policy PROVE BaseInv'
<1>1. /\ buf' = <<>> /\ mem' = "freed" /\ lapse' \subseteq {"emptied"} /\ call = "free" /\ call' = "unlink"
      /\ fate' = [p \in Packet |-> IF p \in Kept THEN "lost" ELSE fate[p]]
      /\ fate \in [Packet -> Fates]
      /\ UNCHANGED <<action, tunnel, header, hand, state, reports, paged, arrived, flushes, released>>
  BY DEF BaseInv, TypeOK, FreeBuffer, rule, ghosts
<1>2. <<>> \in Seq(Packet) /\ Len(<<>>) = 0
  BY EmptySeq
<1>3. fate' \in [Packet -> Fates]
  BY <1>1 DEF Fates
<1>4. TypeOK'
  BY <1>1, <1>2, <1>3, SlotsAssumption DEF BaseInv, TypeOK, Calls, Lapses
<1>5. HandInv' /\ RoomInv'
  BY <1>1, <1>2, SlotsAssumption DEF BaseInv, HandInv, RoomInv, Room
<1>6. CallInv'
  BY <1>1 DEF BaseInv, CallInv, Flushing
<1>7. StrayInv'
  <2>1. Fallen("stray")' \subseteq Fallen("stray") /\ Fallen("stray") \in SUBSET Packet
    BY <1>1 DEF Fallen
  <2>2. Cardinality(Fallen("stray")') <= Cardinality(Fallen("stray"))
    BY <2>1, PacketSets
  <2> QED BY <1>1, <2>2, StrayNumbers, StrayKept
<1> QED BY <1>4, <1>5, <1>6, <1>7 DEF BaseInv

\* The steps of the SMF that only change the rule, its state and its place.
LEMMA CallBase ==
  ASSUME BaseInv, UNCHANGED policy,
         \/ InstallTunnel /\ call = "idle"
         \/ SetForward \/ SetHeader \/ StartFlush \/ FlushEnds \/ Unlink \/ SetActive
         \/ Deactivate \/ ClearTunnel \/ SetSuspended
  PROVE  BaseInv'
<1> DEFINE Plain == \/ InstallTunnel \/ SetForward \/ SetHeader \/ StartFlush \/ FlushEnds
                    \/ Unlink \/ SetActive \/ ClearTunnel \/ SetSuspended
<1> USE DEF rule, buffer, smf, paging, ghosts
<1>1. /\ UNCHANGED <<buf, hand, reports, lapse, arrived, fate>>
      /\ mem' = mem \/ (call = "unlink" /\ mem' = "none")
      /\ flushes' = flushes \/ flushes' = flushes + 1
      /\ flushes \in Nat /\ (mem # "live" => buf = <<>>)
  BY DEF InstallTunnel, SetForward, SetHeader, StartFlush, FlushEnds, Unlink, SetActive,
         Deactivate, ClearTunnel, SetSuspended, BaseInv, TypeOK
<1>2. released' \in 0..Releases /\ released' >= released
  <2>1. released \in 0..Releases /\ Releases \in Nat
    BY BoundsAssumption DEF BaseInv, TypeOK
  <2>2. CASE Plain
    <3>1. released' = released
      BY <2>2 DEF InstallTunnel, SetForward, SetHeader, StartFlush, FlushEnds, Unlink, SetActive,
                  ClearTunnel, SetSuspended
    <3> QED BY <2>1, <3>1
  <2>3. CASE Deactivate
    BY <2>1, <2>3 DEF Deactivate
  <2> QED BY <2>2, <2>3
<1>3. /\ action' \in {"forward", "buffer"} /\ tunnel' \in BOOLEAN /\ header' \in BOOLEAN
      /\ call' \in Calls /\ state' \in {"active", "suspended"} /\ policy' \in BOOLEAN
      /\ paged' \in BOOLEAN
  <2>1. CASE InstallTunnel \/ SetForward \/ SetHeader \/ StartFlush
    BY <2>1 DEF InstallTunnel, SetForward, SetHeader, StartFlush, BaseInv, TypeOK, Calls
  <2>2. CASE FlushEnds \/ Unlink \/ SetActive
    BY <2>2 DEF FlushEnds, Unlink, SetActive, BaseInv, TypeOK, Calls
  <2>3. CASE Deactivate \/ ClearTunnel \/ SetSuspended
    BY <2>3 DEF Deactivate, ClearTunnel, SetSuspended, BaseInv, TypeOK, Calls
  <2> QED BY <2>1, <2>2, <2>3
<1>4. TypeOK'
  <2>1. mem' \in {"none", "live", "freed"} /\ (mem' # "live" => buf' = <<>>)
    <3>1. call = "unlink" => buf = <<>>
      BY <1>1 DEF BaseInv, CallInv
    <3> QED BY <1>1, <3>1 DEF BaseInv, TypeOK
  <2>2. flushes' \in Nat
    BY <1>1
  <2> HIDE DEF rule, buffer, smf, paging, ghosts
  <2> QED BY <1>1, <1>2, <1>3, <2>1, <2>2 DEF BaseInv, TypeOK
<1>5. HandInv' /\ RoomInv'
  BY <1>1 DEF BaseInv, HandInv, RoomInv, Room
<1>6. CallInv'
  <2>1. CASE InstallTunnel /\ call = "idle"
    BY <2>1 DEF InstallTunnel, BaseInv, TypeOK, CallInv, Flushing
  <2>2. CASE SetForward \/ SetHeader \/ FlushEnds
    BY <2>2 DEF SetForward, SetHeader, FlushEnds, BaseInv, TypeOK, CallInv, Flushing
  <2>3. CASE StartFlush
    BY <2>3 DEF StartFlush, BaseInv, TypeOK, CallInv, Flushing
  <2>4. CASE Unlink \/ SetActive
    BY <2>4 DEF Unlink, SetActive, BaseInv, TypeOK, CallInv, Flushing
  <2>5. CASE Deactivate \/ ClearTunnel \/ SetSuspended
    BY <2>5 DEF Deactivate, ClearTunnel, SetSuspended, BaseInv, TypeOK, CallInv, Flushing
  <2> QED BY <2>1, <2>2, <2>3, <2>4, <2>5
<1>7. StrayInv'
  <2>1. \/ action' = action
        \/ action' = "forward"
        \/ released' = released + 1
    BY DEF InstallTunnel, SetForward, SetHeader, StartFlush, FlushEnds, Unlink, SetActive,
           Deactivate, ClearTunnel, SetSuspended
  <2>2. released' \in Nat
    BY <1>2, BoundsAssumption
  <2> QED BY <1>1, <1>2, <2>1, <2>2, FateSame, StrayKept
<1> QED BY <1>4, <1>5, <1>6, <1>7 DEF BaseInv

LEMMA ConsumeBase == ASSUME BaseInv, Consume, UNCHANGED policy PROVE BaseInv'
<1>1. /\ reports \in 0..ReportRoom /\ ReportRoom \in Nat /\ reports > 0 /\ reports' = reports - 1
      /\ UNCHANGED <<action, tunnel, header, buf, mem, hand, call, state, arrived, fate, flushes, released>>
      /\ lapse \subseteq Lapses /\ paged \in BOOLEAN
  BY BoundsAssumption DEF Consume, BaseInv, TypeOK, rule, buffer, smf, ghosts
<1>2. reports' \in 0..ReportRoom
  BY <1>1
<1>3. paged' \in BOOLEAN /\ lapse' \subseteq Lapses
  <2>1. CASE paged' = TRUE /\ UNCHANGED lapse
    BY <1>1, <2>1
  <2>2. CASE (\E why \in Failures : Because(why)) /\ UNCHANGED paged
    <3>1. Failures \subseteq Lapses
      BY DEF Failures, Lapses
    <3> QED BY <1>1, <2>2, <3>1 DEF Because
  <2> QED BY <2>1, <2>2 DEF Consume
<1>4. TypeOK'
  BY <1>1, <1>2, <1>3 DEF BaseInv, TypeOK
<1>5. HandInv' /\ CallInv' /\ RoomInv'
  BY <1>1 DEF BaseInv, HandInv, CallInv, RoomInv, Room
<1>6. StrayInv'
  BY <1>1, FateSame, StrayKept, StrayNumbers
<1> QED BY <1>4, <1>5, <1>6 DEF BaseInv

LEMMA BaseStep == BaseInv /\ [Next]_vars => BaseInv'
<1> SUFFICES ASSUME BaseInv, [Next]_vars PROVE BaseInv'
  OBVIOUS
<1>1. CASE UNCHANGED vars
  BY <1>1 DEF vars, rule, buffer, smf, paging, ghosts, BaseInv, TypeOK, HandInv, CallInv,
              RoomInv, Room, StrayInv, Exposed, Fallen
<1>2. CASE CallSteps
  BY <1>2, CallBase, FlushOneBase, FreeBufferBase DEF CallSteps, Running
<1>3. CASE Running /\ (Classify \/ Activate \/ PageAnswered \/ Deactivate \/ Consume)
  BY <1>3, ClassifyBase, CallBase, ConsumeBase DEF Running, Activate, PageAnswered
<1> QED BY <1>1, <1>2, <1>3, PacketThreadBase DEF Next

LEMMA BaseHolds == Spec => []BaseInv
BY InitBase, BaseStep, PTL DEF Spec

\* The downlink keeps its types, and the buffer stays within its slots: the room
\* the packet thread found is there when it counts the packet.
THEOREM TypeCorrect == Spec => []TypeOK
<1>1. BaseInv => TypeOK
  BY DEF BaseInv
<1> QED BY <1>1, BaseHolds, PTL

\* At most one packet per AN release goes to the tunnel that was cleared.
THEOREM StrayBounded == Spec => []StrayAtMostOne
<1>1. BaseInv => StrayAtMostOne
  BY StrayNumbers DEF StrayAtMostOne
<1> QED BY <1>1, BaseHolds, PTL
-----------------------------------------------------------------------------
(* The second layer: packets that wait, and who has been told of them.      *)

LEMMA LateStep == ASSUME BaseInv, LateInv, [Next]_vars PROVE LateInv'
<1> USE DEF rule, buffer, smf, paging, ghosts
<1>0. SUFFICES ASSUME action' = "forward", buf' # <<>>, call' \notin Flushing PROVE lapse' # {}
  BY DEF LateInv
<1>1. CASE UNCHANGED vars
  BY <1>0, <1>1 DEF vars, LateInv
<1>2. CASE PacketThread
  <2>1. action = "forward" /\ call \notin Flushing /\ (hand.at = "count" => call # "flush")
    BY <1>0, <1>2 DEF PacketThread, Forward, SendFails, Look, Allocate, Reserve, KeepFails, Keep,
       KeepUncounted, KeepOver, KeepGone, KeepFaults, Report, HandOnly, Flushing
  <2>2. CASE Keep
    BY <2>1, <2>2 DEF Keep
  <2>3. CASE ~Keep
    <3>1. buf' = buf
      BY <1>2, <2>1, <2>3 DEF PacketThread, Forward, SendFails, Look, Allocate, Reserve, KeepFails,
         KeepUncounted, KeepOver, KeepGone, KeepFaults, Report, Flushing
    <3>2. lapse # {}
      BY <1>0, <2>1, <3>1 DEF LateInv
    <3>3. lapse \subseteq lapse'
      BY <1>2, <2>3 DEF PacketThread, Forward, SendFails, Look, Allocate, Reserve, KeepFails,
         KeepUncounted, KeepOver, KeepGone, KeepFaults, Report, Because
    <3> QED BY <3>2, <3>3
  <2> QED BY <2>2, <2>3
<1>3. CASE CallSteps
  <2>1. CASE FlushOne \/ FlushEnds \/ FreeBuffer \/ SetForward \/ SetHeader
    BY <1>0, <2>1 DEF FlushOne, FlushEnds, FreeBuffer, SetForward, SetHeader, Flushing
  <2>2. CASE StartFlush
    BY <1>0, <2>2 DEF StartFlush, Flushing
  <2>3. CASE Unlink
    BY <1>0, <2>3 DEF Unlink, BaseInv, TypeOK, CallInv
  <2>4. CASE SetActive \/ ClearTunnel \/ SetSuspended
    BY <1>0, <2>4 DEF SetActive, ClearTunnel, SetSuspended, LateInv, Flushing
  <2> QED BY <1>3, <2>1, <2>2, <2>3, <2>4 DEF CallSteps
<1>4. CASE Running /\ (Classify \/ Activate \/ PageAnswered \/ Deactivate)
  BY <1>0, <1>4 DEF Classify, Activate, PageAnswered, InstallTunnel, Deactivate, LateInv, Flushing
<1>5. CASE Consume
  <2>1. UNCHANGED <<action, buf, call>> /\ lapse \subseteq lapse'
    BY <1>5 DEF Consume, Because
  <2> QED BY <1>0, <2>1 DEF LateInv
<1> QED BY <1>1, <1>2, <1>3, <1>4, <1>5 DEF Next

LEMMA EmptiedStep == ASSUME BaseInv, EmptiedInv, [Next]_vars PROVE EmptiedInv'
<1> USE DEF rule, buffer, smf, paging, ghosts
<1>0. SUFFICES ASSUME FoundMore', buf' = <<>>
               PROVE  call' \in {"flush", "free"} \/ "emptied" \in lapse'
  BY DEF EmptiedInv
<1>1. CASE UNCHANGED vars
  BY <1>0, <1>1 DEF vars, EmptiedInv, FoundMore
<1>2. CASE PacketThread
  <2>1. hand \in [pkt : Packet \cup {NoPacket}, at : Steps, empty : BOOLEAN]
    BY DEF BaseInv, TypeOK
  <2>2. CASE Look
    <3>1. PICK e \in IF mem = "freed" THEN BOOLEAN ELSE {WasEmpty} :
             /\ hand' = [hand EXCEPT !.at = "allocate", !.empty = e]
             /\ lapse' = lapse \cup (IF mem = "freed" /\ ~e THEN {"emptied"} ELSE {})
      BY <2>2 DEF Look
    <3>2. hand'.empty = e /\ buf = <<>>
      BY <1>0, <2>1, <2>2, <3>1 DEF Look
    <3>3. ~e
      BY <1>0, <3>2 DEF FoundMore
    <3>4. mem = "freed"
      BY <3>1, <3>2, <3>3 DEF WasEmpty
    <3> QED BY <3>1, <3>3, <3>4
  <2>3. CASE Allocate \/ Reserve
    <3>1. /\ UNCHANGED <<buf, call, lapse>> /\ hand'.empty = hand.empty
          /\ hand.at \in {"allocate", "reserve"}
      BY <2>1, <2>3 DEF Allocate, Reserve, Advances, HandOnly
    <3> QED BY <1>0, <3>1 DEF EmptiedInv, FoundMore
  <2>4. CASE ~Look /\ ~Allocate /\ ~Reserve
    <3>1. hand'.at \notin {"allocate", "reserve", "count"}
      <4>1. CASE KeepFaults
        BY <2>1, <4>1 DEF KeepFaults, Advances
      <4>2. CASE Leaves \/ hand' = EmptyHand
        BY <4>2, HandEmptied, HandLeft DEF KeepSteps
      <4> QED BY <1>2, <2>4, <4>1, <4>2 DEF PacketThread, Forward, SendFails, KeepFails, Keep,
                 KeepUncounted, KeepOver, KeepGone, Report
    <3> QED BY <1>0, <3>1 DEF FoundMore
  <2> QED BY <2>2, <2>3, <2>4
<1>3. CASE Classify
  <2>1. hand'.at \in {"forward", "look"}
    BY <1>3 DEF Classify
  <2> QED BY <1>0, <2>1 DEF FoundMore
<1>4. CASE FreeBuffer
  <2>1. hand' = hand
    BY <1>4 DEF FreeBuffer
  <2>2. FoundMore
    BY <1>0, <2>1 DEF FoundMore
  <2> QED BY <1>4, <2>2 DEF FreeBuffer
<1>5. CASE CallSteps \/ Activate \/ PageAnswered \/ Deactivate \/ Consume
  <2>1. CASE FlushOne \/ FlushEnds
    BY <2>1 DEF FlushOne, FlushEnds
  <2>2. CASE ~FlushOne /\ ~FlushEnds /\ ~FreeBuffer
    <3>1. /\ UNCHANGED <<buf, hand>> /\ lapse \subseteq lapse'
          /\ call' = call \/ call \notin {"flush", "free"}
      BY <1>5, <2>2 DEF CallSteps, Activate, PageAnswered, InstallTunnel, SetForward, SetHeader,
         StartFlush, Unlink, SetActive, Deactivate, ClearTunnel, SetSuspended, Consume, Because
    <3> QED BY <1>0, <3>1 DEF EmptiedInv, FoundMore
  <2> QED BY <1>4, <2>1, <2>2
<1> QED BY <1>1, <1>2, <1>3, <1>5 DEF Next, Running

\* What tells somebody of the packets that wait, or will deliver them.
Covered ==
    \/ reports > 0 \/ paged = TRUE \/ hand.at = "report" \/ lapse # {}
    \/ call \in {"toForward", "toHeader", "toFlush", "flush", "free"}

LEMMA WaitingIsCovered ==
  ASSUME reports \in Nat, paged \in BOOLEAN
  PROVE  WaitingIsReported <=> (buf # <<>> => Covered)
<1>1. reports = 0 <=> ~(reports > 0)
  OBVIOUS
<1>2. paged <=> paged = TRUE
  OBVIOUS
<1> QED BY <1>1, <1>2, Zenon DEF WaitingIsReported, Covered

\* Every step that takes the report, the page or the call away leaves the buffer
\* empty, starts a flush, or is a lapse.
LEMMA CoveredStep ==
  ASSUME BaseInv, LateInv, EmptiedInv, buf # <<>> => Covered, [Next]_vars
  PROVE  buf' # <<>> => Covered'
<1> USE DEF rule, buffer, smf, paging, ghosts
<1>0. SUFFICES ASSUME buf' # <<>> PROVE Covered'
  OBVIOUS
<1>1. reports \in Nat /\ reports' \in Nat
  BY BaseStep, BoundsAssumption DEF BaseInv, TypeOK
<1>2. CASE UNCHANGED vars
  BY <1>0, <1>2 DEF vars, Covered
<1>3. CASE Keep
  <2>1. CASE hand.empty
    <3>1. hand' = [EmptyHand EXCEPT !.at = "report"]
      BY <1>3, <2>1 DEF Keep, Leaves
    <3>2. hand'.at = "report"
      BY <3>1 DEF EmptyHand
    <3> QED BY <3>2 DEF Covered
  <2>2. CASE ~hand.empty /\ buf = <<>>
    <3>1. call \in {"flush", "free"} \/ "emptied" \in lapse
      BY <1>3, <2>2 DEF Keep, EmptiedInv, FoundMore
    <3>2. call' = call /\ ("emptied" \in lapse => lapse' # {})
      BY <1>3, <2>2 DEF Keep, HandOnly
    <3> QED BY <3>1, <3>2 DEF Covered
  <2>3. CASE buf # <<>>
    <3>1. hand.at # "report" /\ lapse \subseteq lapse' /\ UNCHANGED <<reports, paged, call>>
      BY <1>3, <2>3 DEF Keep, HandOnly
    <3> QED BY <2>3, <3>1 DEF Covered
  <2> QED BY <2>1, <2>2, <2>3
<1>4. CASE KeepOver
  BY <1>4 DEF KeepOver, HandOnly, Covered
<1>5. CASE Report
  <2>1. CASE reports' = reports + 1
    BY <1>1, <2>1 DEF Covered
  <2>2. CASE Because("refused")
    <3>1. lapse' # {}
      BY <1>0, <1>5, <2>2 DEF Report, Because
    <3> QED BY <3>1 DEF Covered
  <2> QED BY <1>5, <2>1, <2>2 DEF Report
<1>6. CASE PacketThread /\ ~Keep /\ ~KeepOver /\ ~Report
  <2>1. /\ buf' = buf /\ hand.at # "report" /\ UNCHANGED <<reports, paged, call>> /\ lapse \subseteq lapse'
    BY <1>6 DEF PacketThread, Forward, SendFails, Look, Allocate, Reserve, KeepFails,
       KeepUncounted, KeepGone, KeepFaults, HandOnly
  <2> QED BY <1>0, <2>1 DEF Covered
<1>7. CASE Running /\ Classify
  <2>1. buf' = buf /\ hand.at = "none" /\ UNCHANGED <<reports, paged, call, lapse>>
    BY <1>7 DEF Classify
  <2> QED BY <1>0, <2>1 DEF Covered
<1>8. CASE InstallTunnel /\ call = "idle"
  <2>1. UNCHANGED <<buf, hand, reports, lapse>>
    BY <1>8 DEF InstallTunnel
  <2>2. CASE action = "buffer"
    BY <1>8, <2>2 DEF InstallTunnel, Covered
  <2>3. CASE action # "buffer"
    <3>1. action = "forward" /\ call \notin Flushing
      BY <1>8, <2>3 DEF BaseInv, TypeOK, Flushing
    <3>2. lapse # {}
      BY <1>0, <2>1, <3>1 DEF LateInv
    <3> QED BY <2>1, <3>2 DEF Covered
  <2> QED BY <2>2, <2>3
<1>9. CASE SetForward \/ SetHeader \/ FlushOne \/ FlushEnds
  BY <1>9 DEF SetForward, SetHeader, FlushOne, FlushEnds, Covered
<1>10. CASE StartFlush
  BY <1>0, <1>10 DEF StartFlush, Covered
<1>11. CASE FreeBuffer
  BY <1>0, <1>11 DEF FreeBuffer
<1>12. CASE Unlink \/ SetActive \/ ClearTunnel \/ SetSuspended \/ Deactivate
  <2>1. UNCHANGED <<buf, hand, reports, paged, lapse>>
    BY <1>12 DEF Unlink, SetActive, ClearTunnel, SetSuspended, Deactivate
  <2>2. call \notin {"toForward", "toHeader", "toFlush", "flush", "free"}
    BY <1>12 DEF Unlink, SetActive, ClearTunnel, SetSuspended, Deactivate
  <2> QED BY <1>0, <2>1, <2>2 DEF Covered
<1>13. CASE Consume
  <2>1. CASE paged' = TRUE
    BY <2>1 DEF Covered
  <2>2. CASE \E why \in Failures : Because(why)
    <3>1. lapse' # {}
      BY <1>0, <1>13, <2>2 DEF Consume, Because
    <3> QED BY <3>1 DEF Covered
  <2> QED BY <1>13, <2>1, <2>2 DEF Consume
<1> QED BY <1>2, <1>3, <1>4, <1>5, <1>6, <1>7, <1>8, <1>9, <1>10, <1>11, <1>12, <1>13
        DEF Next, PacketThread, CallSteps, Activate, PageAnswered

\* Packets wait with nobody told of them only for a reason the code has, named
\* in lapse, whatever the sizes of the ring and of the buffer, and wherever the
\* steps of a flush and of a release fall among the packet thread's.
THEOREM WaitingReported == Spec => []WaitingIsReported
<1> DEFINE I == BaseInv /\ LateInv /\ EmptiedInv /\ (buf # <<>> => Covered)
<1>1. Init => I
  <2>1. Init => LateInv /\ EmptiedInv /\ (buf # <<>> => Covered)
    BY DEF Init, LateInv, EmptiedInv, FoundMore, EmptyHand
  <2> QED BY <2>1, InitBase
<1>2. I /\ [Next]_vars => I'
  BY BaseStep, LateStep, EmptiedStep, CoveredStep
<1>3. I => WaitingIsReported
  <2> SUFFICES ASSUME I PROVE WaitingIsReported
    OBVIOUS
  <2>1. reports \in Nat /\ paged \in BOOLEAN
    BY BoundsAssumption DEF BaseInv, TypeOK
  <2> QED BY <2>1, WaitingIsCovered
<1> QED BY <1>1, <1>2, <1>3, PTL DEF Spec
-----------------------------------------------------------------------------
(* The third layer: where every packet is, and what a flush may cost.       *)

LEMMA InitKept == Init => KeptInv /\ LostInv
<1> SUFFICES ASSUME Init PROVE KeptInv /\ LostInv
  OBVIOUS
<1>1. Kept = {} /\ InHand = {} /\ arrived = 0 /\ buf = <<>> /\ fate = [p \in Packet |-> "none"]
  BY DEF Init, Kept, InHand, EmptyHand
<1>2. \A p \in Packet : p > arrived
  BY <1>1, BoundsAssumption DEF Packet
<1>3. KeptInv
  BY <1>1, <1>2 DEF KeptInv, Distinct, Ordered
<1>4. Fallen("lost") = {} /\ flushes = 0 /\ hand.at = "none" /\ call = "idle"
  BY DEF Init, Fallen, EmptyHand
<1>5. LostInv
  BY <1>4, FS_EmptySet DEF LostInv, Lost, AtRisk, KeepSteps
<1> QED BY <1>3, <1>5

\* What a step that gives no packet a place leaves.
LEMMA KeptSame ==
  ASSUME KeptInv, UNCHANGED <<buf, fate, arrived>>, InHand' = InHand,
         call' # "flush" => call # "flush" \/ buf = <<>>
  PROVE  KeptInv'
<1>1. Kept' = Kept
  BY DEF Kept
<1>2. Ordered(<<>>)
  BY DEF Ordered
<1>3. call' # "flush" => Ordered(buf)'
  BY <1>2 DEF KeptInv, Ordered
<1> QED BY <1>1, <1>3 DEF KeptInv, Distinct

\* The packet in hand meets its fate.
LEMMA KeptDisposed ==
  ASSUME BaseInv, KeptInv, hand.at \notin {"none", "report"}, hand'.pkt = NoPacket,
         UNCHANGED <<buf, arrived, call>>,
         \E g \in Fates \ {"none"} : fate' = [fate EXCEPT ![hand.pkt] = g]
  PROVE  KeptInv'
<1>1. hand.pkt \in Packet /\ hand.pkt # NoPacket /\ hand.pkt = arrived
  BY InPacket
<1>2. InHand = {hand.pkt} /\ InHand' = {} /\ Kept' = Kept
  BY <1>1 DEF InHand, Kept
<1>3. PICK g \in Fates \ {"none"} : fate' = [fate EXCEPT ![hand.pkt] = g]
  OBVIOUS
<1>4. \A p \in Packet : fate'[p] = IF p = hand.pkt THEN g ELSE fate[p]
  BY <1>3 DEF BaseInv, TypeOK
<1>5. \A p \in Packet : fate'[p] = "none" <=> p > arrived' \/ p \in InHand' \cup Kept'
  <2>1. hand.pkt \notin Kept
    BY <1>2 DEF KeptInv
  <2>2. ~(hand.pkt > arrived)
    BY <1>1, BoundsAssumption DEF BaseInv, TypeOK
  <2> QED BY <1>2, <1>3, <1>4, <2>1, <2>2 DEF KeptInv
<1> QED BY <1>2, <1>5 DEF KeptInv, Distinct, Ordered

LEMMA ClassifyKept == ASSUME BaseInv, KeptInv, Classify PROVE KeptInv'
<1>1. /\ arrived \in Nat /\ arrived' = arrived + 1 /\ hand'.pkt = arrived + 1
      /\ hand.pkt = NoPacket /\ UNCHANGED <<buf, fate, call>>
  BY BoundsAssumption DEF Classify, BaseInv, TypeOK, HandInv, buffer, smf
<1>2. InHand = {} /\ InHand' = {arrived + 1} /\ Kept' = Kept
  BY <1>1 DEF InHand, NoPacket, Kept
<1>3. \A p \in Packet : p \in Nat
  BY BoundsAssumption DEF Packet
<1>4. Kept \subseteq Packet
  BY ElementOfSeq, LenProperties DEF Kept, BaseInv, TypeOK
<1>5. \A p \in Packet : fate'[p] = "none" <=> p > arrived' \/ p \in InHand' \cup Kept'
  BY <1>1, <1>2, <1>3 DEF KeptInv
<1>6. \A p \in Kept' : p <= arrived'
  BY <1>1, <1>2, <1>3, <1>4 DEF KeptInv
<1>7. InHand' \cap Kept' = {}
  BY <1>1, <1>2, <1>3, <1>4 DEF KeptInv
<1> QED BY <1>1, <1>5, <1>6, <1>7 DEF KeptInv, Distinct, Ordered

\* A packet that is kept leaves the hand for the end of the buffer.
LEMMA KeepKept == ASSUME BaseInv, KeptInv, Keep PROVE KeptInv'
<1>1. /\ hand.pkt \in Packet /\ hand.pkt # NoPacket /\ hand.pkt = arrived /\ hand'.pkt = NoPacket
      /\ buf \in Seq(Packet) /\ buf' = Append(buf, hand.pkt)
      /\ UNCHANGED <<fate, arrived, call>>
  BY InPacket, HandLeft DEF Keep, HandOnly, smf, BaseInv, TypeOK
<1>2. InHand = {hand.pkt} /\ InHand' = {}
  BY <1>1 DEF InHand
<1>3. Kept = Elems(buf) /\ Kept' = Elems(buf')
  BY DEF Kept, Elems
<1>4. hand.pkt \notin Elems(buf) /\ Distinct(buf)
  BY <1>2, <1>3 DEF KeptInv
<1>5. Kept' = Kept \cup {hand.pkt} /\ Distinct(buf')
  BY <1>1, <1>3, <1>4, AppendDistinct
<1>6. \A p \in Kept' : p <= arrived'
  <2>1. arrived \in Nat
    BY BoundsAssumption DEF BaseInv, TypeOK
  <2> QED BY <1>1, <1>5, <2>1 DEF KeptInv
<1>7. call' # "flush" => Ordered(buf')
  <2>1. SUFFICES ASSUME call # "flush" PROVE Ordered(buf')
    BY <1>1
  <2>2. \A q \in Elems(buf) : q < hand.pkt
    <3>1. Elems(buf) \subseteq Packet /\ \A q \in Packet : q \in Nat
      BY <1>1, ElementOfSeq, LenProperties, BoundsAssumption DEF Elems, Packet
    <3> QED BY <1>1, <1>3, <1>4, <3>1 DEF KeptInv
  <2> QED BY <1>1, <2>1, <2>2, AppendOrdered DEF KeptInv
<1>8. \A p \in Packet : fate'[p] = "none" <=> p > arrived' \/ p \in InHand' \cup Kept'
  BY <1>1, <1>2, <1>5 DEF KeptInv
<1> QED BY <1>2, <1>5, <1>6, <1>7, <1>8 DEF KeptInv, Distinct, Ordered

LEMMA KeepOverKept == ASSUME BaseInv, KeptInv, KeepOver PROVE KeptInv'
<1>1. /\ hand.pkt \in Packet /\ hand.pkt # NoPacket /\ hand.pkt = arrived /\ hand'.pkt = NoPacket
      /\ buf \in Seq(Packet) /\ fate \in [Packet -> Fates] /\ arrived \in Nat
      /\ call' = "flush" /\ UNCHANGED arrived
  BY InPacket, HandLeft, BoundsAssumption DEF KeepOver, HandOnly, smf, BaseInv, TypeOK
<1>2. PICK i \in DOMAIN buf :
         buf' = [buf EXCEPT ![i] = hand.pkt] /\ fate' = [fate EXCEPT ![buf[i]] = "lost"]
  BY DEF KeepOver
<1>3. InHand = {hand.pkt} /\ InHand' = {}
  BY <1>1 DEF InHand
<1>4. Kept = Elems(buf) /\ Kept' = Elems(buf')
  BY DEF Kept, Elems
<1>5. hand.pkt \notin Elems(buf) /\ Distinct(buf)
  BY <1>3, <1>4 DEF KeptInv
<1>6. buf[i] \in Kept /\ Kept' = (Kept \ {buf[i]}) \cup {hand.pkt} /\ Distinct(buf')
  BY <1>1, <1>2, <1>4, <1>5, OverDistinct
<1>7. \A p \in Kept' : p <= arrived'
  BY <1>1, <1>6 DEF KeptInv
<1>8. \A p \in Packet : fate'[p] = IF p = buf[i] THEN "lost" ELSE fate[p]
  BY <1>1, <1>2
<1>9. \A p \in Packet : fate'[p] = "none" <=> p > arrived' \/ p \in InHand' \cup Kept'
  <2>1. buf[i] \in Packet /\ ~(buf[i] > arrived) /\ buf[i] # hand.pkt
    <3>1. buf[i] \in Packet
      BY <1>1, ElementOfSeq, LenProperties
    <3>2. buf[i] \in Nat /\ buf[i] <= arrived
      BY <3>1, <1>6, BoundsAssumption DEF KeptInv, Packet
    <3> QED BY <3>1, <3>2, <1>1, <1>4, <1>5, <1>6
  <2>2. \A p \in Packet : p # buf[i] =>
           (p \in InHand' \cup Kept' <=> p \in InHand \cup Kept)
    BY <1>3, <1>6
  <2>3. buf[i] \notin InHand' \cup Kept'
    BY <1>3, <1>6, <2>1
  <2> QED BY <1>1, <1>8, <2>1, <2>2, <2>3 DEF KeptInv
<1> QED BY <1>1, <1>3, <1>6, <1>7, <1>9 DEF KeptInv, Distinct

LEMMA FlushOneKept == ASSUME BaseInv, KeptInv, FlushOne PROVE KeptInv'
<1>1. /\ buf \in Seq(Packet) /\ buf # <<>> /\ buf' = Tail(buf) /\ fate \in [Packet -> Fates]
      /\ call' = "flush" /\ UNCHANGED <<arrived, hand>> /\ arrived \in Nat
  BY BoundsAssumption DEF FlushOne, smf, BaseInv, TypeOK
<1>2. PICK f \in {"sent", "missed"} : fate' = [fate EXCEPT ![Head(buf)] = f]
  BY DEF FlushOne
<1>3. Kept = Elems(buf) /\ Kept' = Elems(buf') /\ InHand' = InHand
  BY <1>1 DEF Kept, Elems, InHand
<1>4. Head(buf) \in Kept /\ Kept' = Kept \ {Head(buf)} /\ Distinct(buf')
  BY <1>1, <1>3, TailDistinct DEF KeptInv
<1>5. Head(buf) \in Packet
  BY <1>1, HeadTailProperties
<1>6. \A p \in Packet : fate'[p] = IF p = Head(buf) THEN f ELSE fate[p]
  BY <1>1, <1>2
<1>7. ~(Head(buf) > arrived) /\ Head(buf) \notin InHand
  <2>1. Head(buf) \in Nat
    BY <1>5, BoundsAssumption DEF Packet
  <2> QED BY <1>1, <1>4, <2>1 DEF KeptInv
<1>8. \A p \in Packet : fate'[p] = "none" <=> p > arrived' \/ p \in InHand' \cup Kept'
  BY <1>1, <1>2, <1>3, <1>4, <1>6, <1>7 DEF KeptInv
<1> QED BY <1>1, <1>3, <1>4, <1>8 DEF KeptInv, Distinct

LEMMA FreeBufferKept == ASSUME BaseInv, KeptInv, FreeBuffer PROVE KeptInv'
<1>1. /\ buf' = <<>> /\ UNCHANGED <<arrived, hand>>
      /\ \A p \in Packet : fate'[p] = IF p \in Kept THEN "lost" ELSE fate[p]
  BY DEF FreeBuffer
<1>2. Kept' = {} /\ InHand' = InHand
  BY <1>1 DEF Kept, InHand
<1>3. \A p \in Packet : p \in Kept => ~(p > arrived)
  BY BoundsAssumption DEF KeptInv, Packet, BaseInv, TypeOK
<1>4. \A p \in Packet : fate'[p] = "none" <=> p > arrived' \/ p \in InHand' \cup Kept'
  BY <1>1, <1>2, <1>3 DEF KeptInv
<1>5. Distinct(buf') /\ Ordered(buf')
  BY <1>1 DEF Distinct, Ordered
<1> QED BY <1>1, <1>2, <1>4, <1>5 DEF KeptInv, Distinct, Ordered

LEMMA KeptStep == ASSUME BaseInv, KeptInv, [Next]_vars PROVE KeptInv'
<1> USE DEF rule, buffer, smf, paging, ghosts
<1>1. CASE UNCHANGED vars
  <2>1. InHand' = InHand
    BY <1>1 DEF vars, InHand
  <2> QED BY <1>1, <2>1, KeptSame DEF vars
<1>2. CASE PacketThread
  <2>1. CASE Forward \/ SendFails \/ KeepFails \/ KeepUncounted \/ KeepGone
    <3>1. /\ hand.at \notin {"none", "report"} /\ hand'.pkt = NoPacket
          /\ UNCHANGED <<buf, arrived, call>>
      BY <2>1, HandEmptied, HandLeft
      DEF Forward, SendFails, KeepFails, KeepUncounted, KeepGone, HandOnly
    <3>2. \E g \in Fates \ {"none"} : fate' = [fate EXCEPT ![hand.pkt] = g]
      <4>1. CASE Forward
        <5>1. CASE ~header
          BY <4>1, <5>1 DEF Forward, Becomes, Fates
        <5>2. CASE header /\ tunnel
          BY <4>1, <5>2 DEF Forward, Becomes, Fates
        <5>3. CASE header /\ ~tunnel
          BY <4>1, <5>3 DEF Forward, Becomes, Fates
        <5> QED BY <5>1, <5>2, <5>3
      <4>2. CASE ~Forward
        BY <2>1, <4>2 DEF SendFails, KeepFails, KeepUncounted, KeepGone, Becomes, Fates
      <4> QED BY <4>1, <4>2
    <3> QED BY <3>1, <3>2, KeptDisposed
  <2>2. CASE Look \/ Allocate \/ Reserve \/ KeepFaults
    <3>1. UNCHANGED <<buf, fate, arrived, call>>
      BY <2>2 DEF Look, Allocate, Reserve, KeepFaults, HandOnly
    <3>2. hand'.pkt = hand.pkt
      <4>1. hand \in [pkt : Packet \cup {NoPacket}, at : Steps, empty : BOOLEAN]
        BY DEF BaseInv, TypeOK
      <4> QED BY <2>2, <4>1 DEF Look, Allocate, Reserve, KeepFaults, Advances
    <3>3. InHand' = InHand
      BY <3>2 DEF InHand
    <3> QED BY <3>1, <3>3, KeptSame
  <2>3. CASE Report
    <3>1. UNCHANGED <<buf, fate, arrived, call>> /\ hand.pkt = NoPacket /\ hand'.pkt = NoPacket
      BY <2>3, HandEmptied DEF Report, HandOnly, BaseInv, HandInv
    <3>2. InHand' = InHand
      BY <3>1 DEF InHand
    <3> QED BY <3>1, <3>2, KeptSame
  <2> QED BY <1>2, <2>1, <2>2, <2>3, KeepKept, KeepOverKept DEF PacketThread
<1>3. CASE CallSteps \/ Activate \/ PageAnswered \/ Deactivate \/ Consume
  <2>1. CASE FlushOne \/ FreeBuffer
    BY <2>1, FlushOneKept, FreeBufferKept
  <2>2. CASE ~FlushOne /\ ~FreeBuffer
    <3>1. /\ UNCHANGED <<buf, fate, arrived, hand>>
          /\ call' # "flush" => call # "flush" \/ buf = <<>>
      BY <1>3, <2>2 DEF CallSteps, Activate, PageAnswered, InstallTunnel, SetForward, SetHeader,
         StartFlush, FlushEnds, Flushed, Unlink, SetActive, Deactivate, ClearTunnel, SetSuspended,
         Consume
    <3>2. InHand' = InHand
      BY <3>1 DEF InHand
    <3> QED BY <3>1, <3>2, KeptSame
  <2> QED BY <2>1, <2>2
<1> QED BY <1>1, <1>2, <1>3, ClassifyKept DEF Next, Running

LEMMA LostNumbers == BaseInv => Lost \in Nat /\ flushes \in Nat
<1>1. Fallen("lost") \in SUBSET Packet
  BY DEF Fallen
<1> QED BY <1>1, PacketSets DEF Lost, BaseInv, TypeOK

\* A step that loses no packet and puts none at risk.
LEMMA LostSame ==
  ASSUME BaseInv, LostInv, UNCHANGED flushes, Lost' = Lost \/ Lost' <= Lost, Lost' \in Nat,
         AtRisk' => AtRisk,
         call' = "free" /\ buf' # <<>> => call = "free" /\ buf' = buf /\ hand'.at \notin KeepSteps
  PROVE  LostInv'
<1>1. Lost \in Nat /\ flushes \in Nat /\ Lost' <= Lost
  BY LostNumbers
<1> QED BY <1>1 DEF LostInv

LEMMA LostFate ==
  ASSUME BaseInv, UNCHANGED fate
  PROVE  Lost' = Lost /\ Lost' \in Nat
<1>1. Fallen("lost")' = Fallen("lost")
  BY DEF Fallen
<1> QED BY <1>1, LostNumbers DEF Lost

LEMMA LostPacketThread == ASSUME BaseInv, KeptInv, LostInv, PacketThread PROVE LostInv'
<1> USE DEF rule, buffer, smf, ghosts
<1>1. UNCHANGED <<call, flushes>>
  BY DEF PacketThread, Forward, SendFails, Look, Allocate, Reserve, KeepFails, Keep,
     KeepUncounted, KeepOver, KeepGone, KeepFaults, Report, HandOnly
<1>2. CASE Forward \/ SendFails \/ KeepFails
  <2>1. /\ buf' = buf /\ hand.pkt \in Packet /\ hand'.at \notin KeepSteps
        /\ \E g \in Fates \ {"lost"} : fate' = [fate EXCEPT ![hand.pkt] = g]
    <3>1. /\ buf' = buf /\ hand' = EmptyHand /\ hand.at \notin {"none", "report"}
      BY <1>2 DEF Forward, SendFails, KeepFails
    <3>2. \E g \in Fates \ {"lost"} : fate' = [fate EXCEPT ![hand.pkt] = g]
      <4>1. CASE Forward
        <5>1. CASE ~header
          BY <4>1, <5>1 DEF Forward, Becomes, Fates
        <5>2. CASE header /\ tunnel
          BY <4>1, <5>2 DEF Forward, Becomes, Fates
        <5>3. CASE header /\ ~tunnel
          BY <4>1, <5>3 DEF Forward, Becomes, Fates
        <5> QED BY <5>1, <5>2, <5>3
      <4>2. CASE ~Forward
        BY <1>2, <4>2 DEF SendFails, KeepFails, Becomes, Fates
      <4> QED BY <4>1, <4>2
    <3> QED BY <3>1, <3>2, InPacket, HandEmptied
  <2>2. Lost' <= Lost /\ Lost' \in Nat
    BY <2>1, FateCounts DEF BaseInv, Lost
  <2> QED BY <1>1, <2>1, <2>2, LostSame DEF AtRisk
<1>3. CASE Report \/ KeepFaults
  <2>1. UNCHANGED <<buf, fate>> /\ hand'.at \notin KeepSteps
    <3>1. CASE Report
      BY <3>1, HandEmptied DEF Report
    <3>2. CASE KeepFaults
      BY <3>2 DEF KeepFaults, Advances, KeepSteps, BaseInv, TypeOK
    <3> QED BY <1>3, <3>1, <3>2 DEF Report, KeepFaults
  <2> QED BY <1>1, <2>1, LostFate, LostSame DEF AtRisk
<1>4. CASE Look \/ Allocate \/ Reserve
  <2>1. /\ UNCHANGED <<buf, fate>> /\ hand.at \in KeepSteps
        /\ mem' = mem \/ mem' = "live"
    BY <1>4 DEF Look, Allocate, Reserve, KeepSteps
  <2>2. ~(call = "free" /\ buf # <<>>)
    BY <2>1 DEF LostInv
  <2>3. AtRisk' => AtRisk
    <3>1. hand \in [pkt : Packet \cup {NoPacket}, at : Steps, empty : BOOLEAN]
      BY DEF BaseInv, TypeOK
    <3>2. CASE Look
      BY <1>1, <2>1, <3>1, <3>2 DEF Look, AtRisk
    <3>3. CASE Allocate
      <4>1. mem' # "live" => call = "unlink"
        BY <3>3 DEF Allocate, BaseInv, TypeOK, CallInv
      <4> QED BY <1>1, <2>1, <4>1 DEF AtRisk
    <3>4. CASE Reserve
      BY <1>1, <2>1, <3>1, <3>4 DEF Reserve, Advances, AtRisk
    <3> QED BY <1>4, <3>2, <3>3, <3>4
  <2> QED BY <1>1, <2>1, <2>2, <2>3, LostFate, LostSame
<1>5. CASE Keep
  <2>1. /\ hand.at = "count" /\ hand.at \in KeepSteps /\ hand'.at \notin KeepSteps /\ UNCHANGED fate
        /\ buf' = Append(buf, hand.pkt)
    BY <1>5, HandLeft DEF Keep, KeepSteps
  <2>2. call = "free" => buf = <<>> /\ Lost < flushes
    BY <2>1 DEF LostInv, AtRisk
  <2>3. buf = <<>> => Len(buf') = 1
    <3>1. hand.pkt \in Packet /\ buf \in Seq(Packet)
      BY <2>1, InPacket DEF BaseInv, TypeOK
    <3> QED BY <2>1, <3>1, AppendProperties, EmptySeq
  <2>4. Lost' = Lost /\ Lost \in Nat /\ flushes \in Nat
    BY <2>1, LostFate, LostNumbers
  <2> QED BY <1>1, <2>1, <2>2, <2>3, <2>4 DEF LostInv, AtRisk
<1>6. CASE KeepUncounted \/ KeepOver \/ KeepGone
  <2>1. /\ hand.at = "count" /\ hand'.at \notin KeepSteps /\ call # "free" /\ AtRisk
    BY <1>6, HandLeft DEF KeepUncounted, KeepOver, KeepGone, KeepSteps, AtRisk, BaseInv, CallInv
  <2>2. \E p \in Packet : fate' = [fate EXCEPT ![p] = "lost"]
    <3>1. CASE KeepUncounted \/ KeepGone
      BY <2>1, <3>1, InPacket DEF KeepUncounted, KeepGone, Becomes
    <3>2. CASE KeepOver
      <4>1. \A i \in DOMAIN buf : buf[i] \in Packet
        BY ElementOfSeq, LenProperties DEF BaseInv, TypeOK
      <4> QED BY <3>2, <4>1 DEF KeepOver
    <3> QED BY <1>6, <3>1, <3>2
  <2>3. Lost' \in Nat /\ Lost' <= Lost + 1
    BY <2>2, FateCounts DEF BaseInv, Lost, Fates
  <2>4. Lost \in Nat /\ flushes \in Nat /\ Lost < flushes
    BY <2>1, LostNumbers DEF LostInv
  <2> QED BY <1>1, <2>1, <2>3, <2>4 DEF LostInv, AtRisk
<1> QED BY <1>2, <1>3, <1>4, <1>5, <1>6 DEF PacketThread

\* What has been put in the buffer since the flush ended is one packet.
LEMMA FreeBufferLost == ASSUME BaseInv, KeptInv, LostInv, FreeBuffer PROVE LostInv'
<1>1. /\ call = "free" /\ call' = "unlink" /\ UNCHANGED <<hand, flushes>>
      /\ \A p \in Packet : fate'[p] = IF p \in Kept THEN "lost" ELSE fate[p]
  BY DEF FreeBuffer, ghosts
<1>2. Lost \in Nat /\ flushes \in Nat
  BY LostNumbers
<1>3. CASE buf = <<>>
  <2>1. Fallen("lost")' = Fallen("lost")
    BY <1>1, <1>3 DEF Fallen, Kept
  <2>2. Lost' = Lost
    BY <2>1 DEF Lost
  <2> QED BY <1>1, <1>2, <2>2 DEF LostInv, AtRisk
<1>4. CASE buf # <<>>
  <2>1. Len(buf) = 1 /\ hand.at \notin KeepSteps /\ Lost < flushes
    BY <1>1, <1>4 DEF LostInv
  <2>2. Kept = {buf[1]}
    BY <2>1, LenProperties DEF Kept, BaseInv, TypeOK
  <2>3. Fallen("lost")' \subseteq Fallen("lost") \cup {buf[1]} /\ buf[1] \in Packet
    <3>1. buf \in Seq(Packet) /\ 1 \in 1..Len(buf)
      BY <2>1 DEF BaseInv, TypeOK
    <3>2. buf[1] \in Packet
      BY <3>1, ElementOfSeq
    <3> QED BY <1>1, <2>2, <3>2 DEF Fallen
  <2>4. Fallen("lost") \in SUBSET Packet /\ Fallen("lost") \cup {buf[1]} \in SUBSET Packet
    BY <2>3 DEF Fallen
  <2>5. /\ Lost' \in Nat /\ Lost' <= Cardinality(Fallen("lost") \cup {buf[1]})
        /\ Cardinality(Fallen("lost") \cup {buf[1]}) <= Lost + 1
        /\ Cardinality(Fallen("lost") \cup {buf[1]}) \in Nat
    BY <2>3, <2>4, PacketSets DEF Lost
  <2> QED BY <1>1, <1>2, <2>1, <2>5 DEF LostInv, AtRisk
<1> QED BY <1>3, <1>4

LEMMA LostStep == ASSUME BaseInv, KeptInv, LostInv, [Next]_vars PROVE LostInv'
<1> USE DEF rule, buffer, smf, paging, ghosts
<1>1. CASE UNCHANGED vars
  BY <1>1 DEF vars, LostInv, Lost, Fallen, AtRisk
<1>2. CASE Classify
  <2>1. /\ UNCHANGED <<buf, mem, fate, call, flushes>>
        /\ hand'.at = "forward" \/ (hand'.at = "look" /\ action # "forward")
    BY <1>2 DEF Classify
  <2>2. call \in {"flush", "free", "unlink"} => hand'.at = "forward"
    BY <2>1 DEF BaseInv, CallInv, Flushing
  <2> QED BY <2>1, <2>2, LostFate, LostSame DEF AtRisk, KeepSteps
<1>3. CASE StartFlush
  <2>1. UNCHANGED <<buf, mem, fate, hand>> /\ Lost' = Lost /\ Lost \in Nat /\ flushes \in Nat
    BY <1>3, LostFate, LostNumbers DEF StartFlush
  <2>2. CASE call' = "flush" /\ flushes' = flushes + 1
    BY <2>1, <2>2 DEF LostInv
  <2>3. CASE call' = "toActive" /\ flushes' = flushes
    BY <2>1, <2>3 DEF LostInv, AtRisk
  <2> QED BY <1>3, <2>2, <2>3 DEF StartFlush
<1>4. CASE FlushOne
  <2>1. /\ UNCHANGED <<mem, call, hand, flushes>> /\ call = "flush" /\ Head(buf) \in Packet
        /\ \E f \in {"sent", "missed"} : fate' = [fate EXCEPT ![Head(buf)] = f]
    BY <1>4, HeadTailProperties DEF FlushOne, BaseInv, TypeOK
  <2>2. Lost' <= Lost /\ Lost' \in Nat
    BY <2>1, FateCounts DEF BaseInv, Lost, Fates
  <2> QED BY <2>1, <2>2, LostSame DEF AtRisk
<1>5. CASE FlushEnds \/ Unlink
  <2>1. /\ UNCHANGED <<buf, fate, hand, flushes>>
        /\ \/ call = "flush" /\ call' = "free" /\ buf = <<>> /\ mem' = mem
           \/ call = "unlink" /\ call' = "toActive"
    BY <1>5 DEF FlushEnds, Flushed, Unlink
  <2> QED BY <2>1, LostFate, LostSame DEF AtRisk
<1>6. CASE \/ Activate \/ PageAnswered \/ SetForward \/ SetHeader \/ SetActive
           \/ Deactivate \/ ClearTunnel \/ SetSuspended \/ Consume
  <2>1. /\ UNCHANGED <<buf, mem, fate, hand, flushes>>
        /\ call' = call \/ call' \notin {"flush", "free", "unlink"}
    BY <1>6 DEF Activate, PageAnswered, InstallTunnel, SetForward, SetHeader, SetActive,
                Deactivate, ClearTunnel, SetSuspended, Consume
  <2>2. call = "free" /\ buf # <<>> => hand.at \notin KeepSteps
    BY DEF LostInv
  <2> QED BY <2>1, <2>2, LostFate, LostSame DEF AtRisk
<1> QED BY <1>1, <1>2, <1>3, <1>4, <1>5, <1>6, FreeBufferLost, LostPacketThread
        DEF Next, CallSteps

\* A packet that arrived is in hand, kept, or has met its fate, the buffer keeps
\* the order of arrival, and a flush costs one packet at most, however many the
\* buffer holds and whatever the packet thread appends meanwhile.
THEOREM LossBounded == Spec => []OneLostPerFlush
<1> DEFINE I == BaseInv /\ KeptInv /\ LostInv
<1>1. Init => I
  BY InitBase, InitKept
<1>2. I /\ [Next]_vars => I'
  BY BaseStep, KeptStep, LostStep
<1>3. I => OneLostPerFlush
  <2> SUFFICES ASSUME I PROVE OneLostPerFlush
    OBVIOUS
  <2>1. \A p \in 1..arrived : p \in Packet /\ ~(p > arrived)
    BY BoundsAssumption DEF Packet, BaseInv, TypeOK
  <2> QED BY <2>1 DEF KeptInv, LostInv, Lost, OneLostPerFlush, Ordered
<1> QED BY <1>1, <1>2, <1>3, PTL DEF Spec
=============================================================================
